------------------------------- MODULE Console --------------------------------
(***************************************************************************)
(* One window of the web client: the pages of App.tsx, the queries each    *)
(* page reads through React Query, and the changes its controls send.      *)
(*                                                                         *)
(* The cache keeps an answer for all pages.  An answer younger than thirty *)
(* seconds is not asked for again; after a change, the page names the keys *)
(* that are out of date, and those it shows are asked for again at once.   *)
(* A key is matched by its first element only, so one entry stands for all *)
(* pages and filters of a list, and one order or product for all of them.  *)
(* Of the data of an entry only this is kept: which changes made in this   *)
(* window it does not show yet.  Other people's changes are left out.      *)
(*                                                                         *)
(* How the cache works is React Query's affair, modelled from its use; the *)
(* keys, the options, the flags and the handlers are the client's.         *)
(***************************************************************************)
EXTENDS Access, Integers, Sequences

CONSTANTS
    Pages,          \* the pages that are visited
    MaxMoves,       \* bound: how often a page or a dialog is opened, or an answer grows old
                    \* or is forgotten: MaxMoves[TRUE] for a calm user, else MaxMoves[FALSE]
    MaxEdits,       \* bound: how many changes are sent, MaxEdits[calm]
    None

AllPages == {"home", "products", "product", "orders", "inventory", "audit", "stores", "shopify"}

ASSUME ConsoleAssumption ==
    /\ Pages \subseteq AllPages
    /\ MaxMoves \in [BOOLEAN -> Nat] /\ MaxEdits \in [BOOLEAN -> Nat]
    /\ None \notin AllPages

VARIABLES
    role,       \* of the user who is signed in
    page,       \* the page that is shown, None before the first and after the window has left
    dialog,     \* the dialog of the page that reads a query of its own is open: an order's
                \* drawer, the journal of an inventory row, the set-up of an inventory row
    entry,      \* the cache: per query what its answer lacks, whether it is marked as out
                \* of date, and how far a request for it has got
    edit,       \* the changes sent so far
    moves,      \* how often any of this has happened
    calm        \* the user waits until a page has loaded, and for the answer to a change
                \* before leaving the page, and no connection breaks; chosen at the start

vars == <<role, page, dialog, entry, edit, moves, calm>>

\* The route that answers each query.
Route == [stores |-> "GetStores", orderProductOptions |-> "GetProducts",
          orders |-> "GetOrders", order |-> "GetOrder", inventory |-> "GetInventory",
          inventoryTransactions |-> "GetTransactions",
          inventoryWarehouses |-> "GetInventoryWarehouses",
          products |-> "GetProducts", product |-> "GetProduct",
          channelConnections |-> "GetConnections", channelProductOptions |-> "GetProducts",
          auditLogs |-> "GetAuditLogs", dashboardSummary |-> "GetSummary"]
Queries == DOMAIN Route

Main == [p \in AllPages |->
    CASE p = "home" -> "dashboardSummary" [] p = "products" -> "products"
      [] p = "product" -> "product"       [] p = "orders" -> "orders"
      [] p = "inventory" -> "inventory"   [] p = "audit" -> "auditLogs"
      [] p = "stores" -> "stores"         [] p = "shopify" -> "channelConnections"]

Sellers == {"ADMIN", "OPERATOR"}          \* canCreate, canWrite and canApprove
Handlers == {"ADMIN", "WAREHOUSE"}        \* canFulfill, canWrite, canManageInventory

DialogQuery == [orders |-> "order", inventory |-> "inventoryTransactions",
                product |-> "inventoryWarehouses"]

\* The queries a page reads that are enabled.
Reads_Always(p, open) ==
    {Main[p]} \cup (IF p = "orders" THEN {"stores", "orderProductOptions"} ELSE {})
    \cup (IF p = "shopify" THEN {"channelProductOptions"} ELSE {})
    \cup (IF open THEN {DialogQuery[p]} ELSE {})
Reads(p, open) ==
    {Main[p]} \cup (IF p = "orders" THEN {"stores"} ELSE {})
    \cup (IF p = "orders" /\ role \in Sellers THEN {"orderProductOptions"} ELSE {})
    \cup (IF p = "shopify" /\ role \in Sellers THEN {"channelProductOptions"} ELSE {})
    \cup (IF open THEN {DialogQuery[p]} ELSE {})
Mounted == IF page = None THEN {} ELSE Reads(page, dialog)

Edits == 1 .. MaxEdits[calm]
Nothing == [has |-> FALSE, lacks |-> {}, old |-> FALSE, fetch |-> "idle", late |-> {}]

Init ==
    /\ role \in Roles
    /\ page = None /\ dialog = FALSE
    /\ entry = [q \in Queries |-> Nothing]
    /\ edit = <<>> /\ moves = 0
    /\ calm \in BOOLEAN

-----------------------------------------------------------------------------
(***************************************************************************)
(* The cache.                                                              *)
(***************************************************************************)
Waiting(q) == entry[q].fetch \in {"asked", "answered"}

\* A query that comes on the screen is asked for if there is no fresh answer to it.
Asked(e) == [e EXCEPT !.fetch = "asked", !.late = {}]
Mount(Q) == [q \in Queries |->
    IF q \in Q /\ ~ Waiting(q) /\ (~ entry[q].has \/ entry[q].old)
    THEN Asked(entry[q]) ELSE entry[q]]

\* A request for a query that has an answer already is cancelled and made anew; a first
\* request is left to go on.
Renewed(e) == IF e.fetch \in {"asked", "answered"} /\ ~ e.has THEN e ELSE Asked(e)
Refetch(q) == [entry EXCEPT ![q] = Renewed(entry[q])]
Invalidate(Q) == [q \in Queries |->
    LET marked == [entry[q] EXCEPT !.old = entry[q].has] IN
    IF q \notin Q THEN entry[q] ELSE IF q \in Mounted THEN Renewed(marked) ELSE marked]

\* The server reads for query q: from now on a change comes too late for this answer.
Answer(q) ==
    /\ entry[q].fetch = "asked" /\ Admits(role, Route[q])
    /\ entry' = [entry EXCEPT ![q].fetch = "answered"]
    /\ UNCHANGED <<role, page, dialog, edit, moves, calm>>

Land(q) ==
    /\ entry[q].fetch = "answered"
    /\ entry' = [entry EXCEPT ![q] = [Nothing EXCEPT !.has = TRUE, !.lacks = entry[q].late]]
    /\ UNCHANGED <<role, page, dialog, edit, moves, calm>>

\* The request and its one retry fail; what was cached before stays.
Refuse(q) ==
    /\ entry[q].fetch = "asked" /\ ~ Admits(role, Route[q])
    /\ entry' = [entry EXCEPT ![q].fetch = "denied"]
    /\ UNCHANGED <<role, page, dialog, edit, moves, calm>>
Break(q) ==
    /\ ~ calm /\ Waiting(q)
    /\ entry' = [entry EXCEPT ![q].fetch = "idle", ![q].late = {}]
    /\ UNCHANGED <<role, page, dialog, edit, moves, calm>>

\* Thirty seconds after its answer.
Age(q) ==
    /\ moves < MaxMoves[calm] /\ entry[q].has /\ ~ entry[q].old /\ ~ Waiting(q)
    /\ entry' = [entry EXCEPT ![q].old = TRUE]
    /\ moves' = moves + 1
    /\ UNCHANGED <<role, page, dialog, edit, calm>>

\* The window gets the focus back, which gives a query that failed another chance too;
\* the overview also asks every minute.
Focus ==
    /\ page # None
    /\ entry' = Mount(Mounted)
    /\ entry' # entry
    /\ UNCHANGED <<role, page, dialog, edit, moves, calm>>

\* Five minutes off the screen.
Forget(q) ==
    /\ moves < MaxMoves[calm] /\ q \notin Mounted /\ entry[q].has /\ ~ Waiting(q)
    /\ entry' = [entry EXCEPT ![q] = Nothing]
    /\ moves' = moves + 1
    /\ UNCHANGED <<role, page, dialog, edit, calm>>

-----------------------------------------------------------------------------
(***************************************************************************)
(* Moving about.                                                           *)
(***************************************************************************)
Pending(n) == edit[n].pc \in {"sent", "done", "refused", "refetching"}
Settled == (\A q \in Queries : ~ Waiting(q)) /\ \A n \in DOMAIN edit : ~ Pending(n)
Loaded == \A q \in Mounted : Waiting(q) => entry[q].has

LeavePage == [n \in DOMAIN edit |-> [edit[n] EXCEPT !.here = FALSE]]

Visit_KeepsDialog(p) ==
    /\ moves < MaxMoves[calm] /\ (calm => Settled) /\ p # page
    /\ page' = p /\ moves' = moves + 1
    /\ entry' = Mount(Reads(p, FALSE))
    /\ edit' = LeavePage
    /\ UNCHANGED <<role, calm, dialog>>

\* A link of the client: the routes do not ask for the role.
Visit(p) ==
    /\ moves < MaxMoves[calm] /\ (calm => Settled) /\ p # page
    /\ page' = p /\ dialog' = FALSE /\ moves' = moves + 1
    /\ entry' = Mount(Reads(p, FALSE))
    /\ edit' = LeavePage
    /\ UNCHANGED <<role, calm>>

\* The window is loaded anew: an address typed in, the page reloaded, or the overview's
\* way to the orders.  The cache goes, and nobody waits for an answer any more; what the
\* server still carries out is then as if another user had sent it.
Fresh(Q) == [q \in Queries |-> IF q \in Q THEN Asked(Nothing) ELSE Nothing]
Unloaded == [n \in DOMAIN edit |->
    [edit[n] EXCEPT !.here = FALSE, !.pc = IF Pending(n) THEN "failed" ELSE @]]
Reload(p) ==
    /\ moves < MaxMoves[calm] /\ (calm => Settled)
    /\ page' = p /\ dialog' = FALSE /\ moves' = moves + 1
    /\ entry' = Fresh(Reads(p, FALSE))
    /\ edit' = Unloaded
    /\ UNCHANGED <<role, calm>>

\* Its rows come from the page's list.  Only who manages inventory can set up a row.
OpenDialog ==
    /\ moves < MaxMoves[calm] /\ (calm => Settled) /\ page \in DOMAIN DialogQuery /\ ~ dialog
    /\ entry[Main[page]].has
    /\ page = "product" => role \in Handlers
    /\ dialog' = TRUE /\ moves' = moves + 1
    /\ entry' = Mount(Reads(page, TRUE))
    /\ UNCHANGED <<role, page, edit, calm>>

CloseDialog ==
    /\ dialog /\ dialog' = FALSE
    /\ UNCHANGED <<role, page, entry, edit, moves, calm>>

-----------------------------------------------------------------------------
(***************************************************************************)
(* Changing things.                                                        *)
(***************************************************************************)
\* What the controls of a page send, and whom it shows or enables them to.
Granted(flag, ops) == IF flag THEN ops ELSE {}
OrderControls == Granted(role \in Sellers, {"PostOrder"})
                 \cup Granted(role \in Handlers /\ dialog, {"PatchOrderStatus"})
InventoryControls == Granted(role \in Handlers, {"PatchAdjust"})
ProductsControls == Granted(role \in Sellers, {"PostProduct", "PatchProduct", "PatchProductStatus"})
ProductControls == Granted(role \in Sellers, {"PatchProduct", "PatchProductStatus", "PostSku",
                                              "PatchSku", "DeleteSku"})
                   \cup Granted(dialog, {"PostRecord"})
StoreControls == Granted(role \in Sellers, {"PostStore", "PatchStore", "PostWarehouse"})
ShopifyControls == Granted(role \in Sellers, {"PostMapping", "PostImport", "StartOAuth"})

Offered == [p \in AllPages |->
    CASE p = "orders" -> OrderControls       [] p = "inventory" -> InventoryControls
      [] p = "products" -> ProductsControls  [] p = "product" -> ProductControls
      [] p = "stores" -> StoreControls       [] p = "shopify" -> ShopifyControls
      [] OTHER -> {}]

\* These need no row of the page's list.
FromScratch == {"PostOrder", "PostProduct", "PostStore"}

\* The button that confirms a dialog waits for the answer; the selects of a status do not.
Blocked(op) ==
    /\ ~ (op = "PatchOrderStatus" \/ (op = "PatchProductStatus" /\ page = "products"))
    /\ \E n \in DOMAIN edit : edit[n].op = op /\ edit[n].here /\ Pending(n)

Submit(op) ==
    /\ page # None /\ Len(edit) < MaxEdits[calm]
    /\ op \in Offered[page] /\ ~ Blocked(op)
    /\ op \in FromScratch \/ entry[Main[page]].has
    /\ calm => Loaded
    /\ edit' = Append(edit, [op |-> op, from |-> page, here |-> TRUE, pc |-> "sent"])
    /\ UNCHANGED <<role, page, dialog, entry, moves, calm>>

\* The queries whose answers show a change: the list it is made in, the lists that show a
\* name, a status or a quantity of the row, and, as all changes are audited, the audit log
\* and the overview's latest activities.
ProductLists == {"products", "orderProductOptions", "channelProductOptions"}
StockLists == {"inventory", "inventoryTransactions", "product"}
Touches(op) == IF op = "StartOAuth" THEN {} ELSE {"dashboardSummary", "auditLogs"} \cup
    CASE op = "PostOrder" -> {"orders"}
      [] op = "PatchOrderStatus" -> {"orders", "order"} \cup StockLists
      [] op = "PostImport" -> {"orders", "channelConnections"}
      [] op = "PatchAdjust" -> StockLists
      [] op = "PostRecord" -> StockLists \cup {"stores"}
      [] op = "PostProduct" -> ProductLists
      [] op = "PatchProduct" -> ProductLists \cup {"product", "inventory", "channelConnections"}
      [] op \in {"PatchProductStatus", "PostSku"} -> ProductLists \cup {"product"}
      [] op = "PatchSku" -> ProductLists \cup {"product", "inventory", "order", "channelConnections"}
      [] op = "DeleteSku" -> ProductLists \cup {"product", "channelConnections"}
      [] op = "PostStore" -> {"stores"}
      [] op = "PatchStore" -> {"stores", "inventoryWarehouses", "orders", "order", "inventory",
                               "channelConnections"}
      [] op = "PostWarehouse" -> {"stores", "inventoryWarehouses"}
      [] op = "PostMapping" -> {"channelConnections"}

Moved(n, pc) == edit' = [edit EXCEPT ![n].pc = pc]

\* The server carries the change out, or turns it down: for want of permission, or
\* because of the data.
Commit(n) ==
    /\ edit[n].pc = "sent"
    /\ \/ /\ Admits(role, edit[n].op) /\ Moved(n, "done")
          /\ entry' = [q \in Queries |-> IF q \notin Touches(edit[n].op) THEN entry[q] ELSE
                [entry[q] EXCEPT
                   !.lacks = IF entry[q].has THEN @ \cup {n} ELSE @,
                   !.late = IF entry[q].fetch = "answered" THEN @ \cup {n} ELSE @]]
       \/ Admits(role, edit[n].op) /\ Moved(n, "refused") /\ UNCHANGED entry
       \/ ~ Admits(role, edit[n].op) /\ Moved(n, "forbidden") /\ UNCHANGED entry
    /\ UNCHANGED <<role, page, dialog, moves, calm>>

\* The keys a page declares out of date after a change.
Refreshes_OwnPage(p, op) == {Main[p]}
Refreshes(p, op) ==
    CASE p = "product" -> IF op \in {"PatchProduct", "PatchProductStatus"} THEN {"products"}
                          ELSE IF op = "PostRecord" THEN {"inventory"} ELSE {}
      [] op = "PostImport" -> {"channelConnections", "orders"}
      [] op = "StartOAuth" -> {}
      [] OTHER -> {Main[p]}

\* What a success does to a dialog of a page that is still shown.
Closes(n) == edit[n].here /\ edit[n].op \in {"PatchOrderStatus", "PostRecord"}

\* A product's page asks for the product first, and goes on when it is there.
Acknowledge(n) ==
    /\ edit[n].pc = "done" /\ edit[n].op # "StartOAuth"
    /\ dialog' = (dialog /\ ~ Closes(n))
    /\ IF edit[n].from = "product"
       THEN entry' = Refetch("product") /\ Moved(n, "refetching")
       ELSE entry' = Invalidate(Refreshes(edit[n].from, edit[n].op)) /\ Moved(n, "over")
    /\ UNCHANGED <<role, page, moves, calm>>

\* With the address of the authorization the window leaves for Shopify.
LeaveForShopify(n) ==
    /\ edit[n].pc = "done" /\ edit[n].op = "StartOAuth"
    /\ page' = None /\ dialog' = FALSE
    /\ entry' = Fresh({})
    /\ edit' = [Unloaded EXCEPT ![n].pc = "over"]
    /\ UNCHANGED <<role, moves, calm>>

\* A second change that asks for the product again ends the wait of the first.
FinishRefetch(n) ==
    /\ edit[n].pc = "refetching"
    /\ ~ Waiting("product") \/ \E m \in DOMAIN edit : m # n /\ edit[m].pc = "refetching"
    /\ entry' = Invalidate(Refreshes(edit[n].from, edit[n].op))
    /\ Moved(n, "over")
    /\ UNCHANGED <<role, page, dialog, moves, calm>>

\* A refusal, or a connection that breaks, is a message on the screen and nothing else.
Complain(n) ==
    /\ edit[n].pc = "refused" \/ (~ calm /\ edit[n].pc = "done")
    /\ Moved(n, "failed")
    /\ UNCHANGED <<role, page, dialog, entry, moves, calm>>

Next ==
    \/ \E p \in Pages : Visit(p) \/ Reload(p)
    \/ OpenDialog \/ CloseDialog \/ Focus
    \/ \E q \in Queries : Answer(q) \/ Land(q) \/ Refuse(q) \/ Break(q) \/ Age(q) \/ Forget(q)
    \/ \E op \in UNION {Offered[p] : p \in AllPages} : Submit(op)
    \/ \E n \in DOMAIN edit : \/ Commit(n) \/ Acknowledge(n) \/ LeaveForShopify(n)
                             \/ FinishRefetch(n) \/ Complain(n)

Spec == Init /\ [][Next]_vars

-----------------------------------------------------------------------------
(***************************************************************************)
(* Properties.                                                             *)
(***************************************************************************)
EditRow == [op : UNION {DOMAIN t : t \in Tables}, from : AllPages, here : BOOLEAN,
            pc : {"sent", "done", "refused", "forbidden", "refetching", "over", "failed"}]
Entry == [has : BOOLEAN, lacks : SUBSET Edits, old : BOOLEAN,
          fetch : {"idle", "asked", "answered", "denied"}, late : SUBSET Edits]

\* Types; a dialog belongs to a page that has one and to a list that was loaded, an entry
\* without an answer lacks nothing and is not old, and an entry can lack only changes
\* that the server has made.
TypeOK ==
    /\ role \in Roles /\ page \in Pages \cup {None} /\ calm \in BOOLEAN
    /\ dialog \in BOOLEAN /\ moves \in 0 .. MaxMoves[calm]
    /\ dialog => page \in DOMAIN DialogQuery /\ entry[Main[page]].has
    /\ edit \in Seq(EditRow) /\ Len(edit) <= MaxEdits[calm]
    /\ entry \in [Queries -> Entry]
    /\ \A q \in Queries :
          /\ ~ entry[q].has => entry[q].lacks = {} /\ ~ entry[q].old
          /\ entry[q].late # {} => entry[q].fetch = "answered"
          /\ \A n \in entry[q].lacks \cup entry[q].late :
                edit[n].pc \in {"done", "refetching", "over", "failed"}

\* The list in which the result of a change is a row.
ListOf(op) ==
    CASE op \in {"PostOrder", "PatchOrderStatus", "PostImport"} -> "orders"
      [] op \in {"PatchAdjust", "PostRecord"} -> "inventory"
      [] op \in {"PostProduct", "PatchProduct", "PatchProductStatus"} -> "products"
      [] op \in {"PostSku", "PatchSku", "DeleteSku"} -> "product"
      [] op \in {"PostStore", "PatchStore", "PostWarehouse"} -> "stores"
      [] op \in {"PostMapping", "StartOAuth"} -> "channelConnections"

\* A user who waits sees what he has done: once a change has been confirmed, no page
\* shows the list it belongs to without it, unless that list is being asked for again or
\* will be when it is shown, whichever requests were under way at the time
\* (OrdersPage.tsx:42-51, ShopifyPage.tsx:25, ProductDetailPage.tsx:56-81).  A user who
\* leaves a page while it still loads can meet an older answer that passes for fresh.
OwnChangesShown ==
    calm => \A n \in DOMAIN edit : edit[n].pc = "over" =>
        LET e == entry[ListOf(edit[n].op)] IN
        n \in e.lacks => e.old \/ (e.fetch \in {"asked", "answered"} /\ n \notin e.late)

\* The role flags of six pages repeat what the permissions of the API say: no control
\* that is offered is answered with 403 (permissions.ts:25-30), and whoever may read the
\* list of a page may read everything else the page asks for.
OffersArePermitted ==
    /\ \A n \in DOMAIN edit : edit[n].pc # "forbidden"
    /\ page # None /\ Admits(role, Route[Main[page]])
          => \A q \in Mounted : entry[q].fetch # "denied"

\* docs/sales-operations-e2e.md:11 takes an order from its details through one status
\* after the other: the details show the change that was just confirmed.
DetailsAreCurrent ==
    calm /\ page = "orders" /\ dialog /\ Settled /\ entry["order"].has
        => \A n \in entry["order"].lacks : edit[n].pc # "over"
=============================================================================
