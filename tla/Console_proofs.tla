---------------------------- MODULE Console_proofs ----------------------------
(***************************************************************************)
(* What a window of the client keeps to, however long it is used: the      *)
(* types, that no control is offered which the API forbids, and that a     *)
(* user who waits sees what he has done.                                   *)
(***************************************************************************)
EXTENDS Console, TLAPS

-----------------------------------------------------------------------------
(***************************************************************************)
(* The tables.                                                             *)
(***************************************************************************)

\* What each route demands, read off the six tables.
LEMMA RouteTables ==
    /\ \A r \in DOMAIN ProductRoutes : Demands(r) = ProductRoutes[r]
    /\ \A r \in DOMAIN OrderRoutes : Demands(r) = OrderRoutes[r]
    /\ \A r \in DOMAIN InventoryRoutes : Demands(r) = InventoryRoutes[r]
    /\ \A r \in DOMAIN StoreRoutes : Demands(r) = StoreRoutes[r]
    /\ \A r \in DOMAIN ChannelRoutes : Demands(r) = ChannelRoutes[r]
    /\ \A r \in DOMAIN OtherRoutes : Demands(r) = OtherRoutes[r]
<1> DEFINE P == {"GetProducts", "GetProduct", "PostProduct", "PatchProduct", "PatchProductStatus",
                 "PostSku", "PatchSku", "DeleteSku"}
           O == {"GetOrders", "GetOrder", "PostOrder", "PatchOrderStatus"}
           I == {"GetInventory", "GetInventoryWarehouses", "GetTransactions", "PatchAdjust",
                 "PostRecord"}
           S == {"GetStores", "PostStore", "PatchStore", "PostWarehouse", "PatchWarehouse"}
           C == {"GetConnections", "PostMapping", "PostImport"}
           X == {"StartOAuth", "GetAuditLogs", "GetSummary"}
<1>1. /\ DOMAIN ProductRoutes = P /\ DOMAIN OrderRoutes = O /\ DOMAIN InventoryRoutes = I
      /\ DOMAIN StoreRoutes = S /\ DOMAIN ChannelRoutes = C /\ DOMAIN OtherRoutes = X
    BY DEF ProductRoutes, OrderRoutes, InventoryRoutes, StoreRoutes, ChannelRoutes, OtherRoutes
<1>2. /\ P \cap O = {} /\ P \cap I = {} /\ P \cap S = {} /\ P \cap C = {} /\ P \cap X = {}
      /\ O \cap I = {} /\ O \cap S = {} /\ O \cap C = {} /\ O \cap X = {}
      /\ I \cap S = {} /\ I \cap C = {} /\ I \cap X = {}
      /\ S \cap C = {} /\ S \cap X = {} /\ C \cap X = {}
    OBVIOUS
<1>3. ASSUME NEW t \in Tables, NEW r \in DOMAIN t
      PROVE  Demands(r) = t[r]
    <2>1. \A u \in Tables : r \in DOMAIN u => u = t
        <3> HIDE DEF P, O, I, S, C, X
        <3> QED BY <1>1, <1>2, <1>3 DEF Tables
    <2>2. (CHOOSE u \in Tables : r \in DOMAIN u) = t
        BY <1>3, <2>1
    <2> QED BY <2>2 DEF Demands
<1> QED BY <1>3 DEF Tables

\* What the roles of the client are allowed.
LEMMA Rights ==
    ASSUME role \in Roles
    PROVE  /\ \A r \in {"GetOrders", "GetOrder", "GetStores", "GetConnections", "GetSummary"} :
                 Admits(role, r)
           /\ \A r \in {"GetProducts", "GetProduct"} : Admits(role, r) <=> role # "WAREHOUSE"
           /\ \A r \in {"GetInventory", "GetInventoryWarehouses", "GetTransactions"} :
                 Admits(role, r) <=> role # "OPERATOR"
           /\ role \in Sellers => \A r \in {"PostProduct", "PatchProduct", "PatchProductStatus",
                 "PostSku", "PatchSku", "DeleteSku", "PostOrder", "PostStore", "PatchStore",
                 "PostWarehouse", "PostMapping", "PostImport", "StartOAuth"} : Admits(role, r)
           /\ role \in Handlers => \A r \in {"PatchOrderStatus", "PatchAdjust", "PostRecord"} :
                 Admits(role, r)
<1> DEFINE held == RolePermissions[role]
<1>1. /\ {"order:read", "store:read", "channel:read", "dashboard:read"} \subseteq held
      /\ "product:read" \in held <=> role # "WAREHOUSE"
      /\ "inventory:read" \in held <=> role # "OPERATOR"
      /\ role \in Sellers => {"product:write", "product:approve", "order:write", "store:write",
                             "channel:write"} \subseteq held
      /\ role \in Handlers => {"order:fulfill", "inventory:write"} \subseteq held
    <2>1. CASE role = "ADMIN"
        BY <2>1 DEF RolePermissions, Roles, Permissions, Sellers, Handlers
    <2>2. CASE role = "OPERATOR"
        BY <2>2 DEF RolePermissions, Roles, Sellers, Handlers
    <2>3. CASE role = "WAREHOUSE"
        BY <2>3 DEF RolePermissions, Roles, Sellers, Handlers
    <2>4. CASE role = "ANALYST"
        BY <2>4 DEF RolePermissions, Roles, Sellers, Handlers
    <2> QED BY <2>1, <2>2, <2>3, <2>4 DEF Roles
<1>2. /\ \A r \in {"GetProducts", "GetProduct"} : Demands(r) = "product:read"
      /\ \A r \in {"PostProduct", "PatchProduct", "PostSku", "PatchSku", "DeleteSku"} :
            Demands(r) = "product:write"
      /\ Demands("PatchProductStatus") = "product:approve"
    BY RouteTables DEF ProductRoutes
<1>3. /\ \A r \in {"GetOrders", "GetOrder"} : Demands(r) = "order:read"
      /\ Demands("PostOrder") = "order:write" /\ Demands("PatchOrderStatus") = "order:fulfill"
    BY RouteTables DEF OrderRoutes
<1>4. /\ \A r \in {"GetInventory", "GetInventoryWarehouses", "GetTransactions"} :
            Demands(r) = "inventory:read"
      /\ \A r \in {"PatchAdjust", "PostRecord"} : Demands(r) = "inventory:write"
    BY RouteTables DEF InventoryRoutes
<1>5. /\ Demands("GetStores") = "store:read"
      /\ \A r \in {"PostStore", "PatchStore", "PostWarehouse"} : Demands(r) = "store:write"
    BY RouteTables DEF StoreRoutes
<1>6. /\ Demands("GetConnections") = "channel:read" /\ Demands("GetSummary") = "dashboard:read"
      /\ \A r \in {"PostMapping", "PostImport", "StartOAuth"} : Demands(r) = "channel:write"
    BY RouteTables DEF ChannelRoutes, OtherRoutes
<1> HIDE DEF held
<1>7. \A r : Admits(role, r) <=> Demands(r) \in held
    BY DEF Admits, held
<1> QED BY <1>1, <1>2, <1>3, <1>4, <1>5, <1>6, <1>7

\* What a page can send at all, to anybody.
Wares == [p \in AllPages |->
    CASE p = "orders" -> {"PostOrder", "PatchOrderStatus"}
      [] p = "inventory" -> {"PatchAdjust"}
      [] p = "products" -> {"PostProduct", "PatchProduct", "PatchProductStatus"}
      [] p = "product" -> {"PatchProduct", "PatchProductStatus", "PostSku", "PatchSku",
                           "DeleteSku", "PostRecord"}
      [] p = "stores" -> {"PostStore", "PatchStore", "PostWarehouse"}
      [] p = "shopify" -> {"PostMapping", "PostImport", "StartOAuth"}
      [] OTHER -> {}]

DialogQueries == {"order", "inventoryTransactions", "inventoryWarehouses"}

\* Only who handles stock opens the set-up of an inventory row.
DialogOK(p, open) == open => p \in DOMAIN DialogQuery /\ (p = "product" => role \in Handlers)

\* Whatever is offered is sold on that page and allowed.
LEMMA OffersAllowed ==
    ASSUME role \in Roles, page \in AllPages, DialogOK(page, dialog), NEW op \in Offered[page]
    PROVE  op \in Wares[page] /\ Admits(role, op)
<1>1. CASE page = "orders"
    BY <1>1, Rights DEF AllPages, Offered, OrderControls, Granted, Wares
<1>2. CASE page = "inventory"
    BY <1>2, Rights DEF AllPages, Offered, InventoryControls, Granted, Wares
<1>3. CASE page = "products"
    BY <1>3, Rights DEF AllPages, Offered, ProductsControls, Granted, Wares
<1>4. CASE page = "product"
    <2>1. op \in ProductControls
        BY <1>4 DEF AllPages, Offered
    <2>2. dialog => role \in Handlers
        BY <1>4 DEF DialogOK
    <2> QED BY <1>4, <2>1, <2>2, Rights DEF AllPages, ProductControls, Granted, Wares
<1>5. CASE page = "stores"
    BY <1>5, Rights DEF AllPages, Offered, StoreControls, Granted, Wares
<1>6. CASE page = "shopify"
    BY <1>6, Rights DEF AllPages, Offered, ShopifyControls, Granted, Wares
<1>7. CASE page \in {"home", "audit"}
    BY <1>7 DEF AllPages, Offered
<1> QED BY <1>1, <1>2, <1>3, <1>4, <1>5, <1>6, <1>7 DEF AllPages

\* The queries of a page.
LEMMA PageQueries ==
    /\ \A p \in AllPages : Main[p] \in Queries \ DialogQueries
    /\ \A p \in AllPages, open \in BOOLEAN :
          /\ Main[p] \in Reads(p, open)
          /\ DialogOK(p, open) => Reads(p, open) \subseteq Queries
          /\ Reads(p, TRUE) = Reads(p, FALSE) \cup {DialogQuery[p]}
    /\ DOMAIN DialogQuery \subseteq AllPages
    /\ \A p \in DOMAIN DialogQuery : DialogQuery[p] \in DialogQueries
<1>1. \A p \in AllPages : Main[p] \in Queries \ DialogQueries
    BY DEF AllPages, Main, Queries, Route, DialogQueries
<1>2. /\ DOMAIN DialogQuery \subseteq AllPages
      /\ \A p \in DOMAIN DialogQuery : DialogQuery[p] \in DialogQueries
    BY DEF DialogQuery, AllPages, DialogQueries
<1>3. {"stores", "orderProductOptions", "channelProductOptions"} \cup DialogQueries \subseteq Queries
    BY DEF Queries, Route, DialogQueries
<1> QED BY <1>1, <1>2, <1>3 DEF Reads, DialogOK

\* Whoever may read the list of a page may read whatever else the page asks for.
LEMMA PagesReadable ==
    ASSUME role \in Roles, NEW p \in AllPages, NEW open \in BOOLEAN, DialogOK(p, open),
           Admits(role, Route[Main[p]]), NEW q \in Reads(p, open)
    PROVE  Admits(role, Route[q])
<1>1. /\ Route["orders"] = "GetOrders" /\ Route["order"] = "GetOrder"
      /\ Route["stores"] = "GetStores" /\ Route["inventory"] = "GetInventory"
      /\ Route["orderProductOptions"] = "GetProducts"
      /\ Route["channelProductOptions"] = "GetProducts"
      /\ Route["inventoryTransactions"] = "GetTransactions"
      /\ Route["inventoryWarehouses"] = "GetInventoryWarehouses"
    BY DEF Route
<1>2. /\ role \in Sellers => role # "WAREHOUSE"
      /\ role \in Handlers => role # "OPERATOR"
    BY DEF Sellers, Handlers
<1>3. CASE q = Main[p]
    BY <1>3
<1>4. CASE p = "orders" /\ q # Main[p]
    <2>1. \/ q \in {"stores", "order"}
          \/ q = "orderProductOptions" /\ role \in Sellers
        BY <1>4 DEF Reads, DialogQuery
    <2> QED BY <2>1, <1>1, <1>2, Rights
<1>5. CASE p = "shopify" /\ q # Main[p]
    <2>1. q = "channelProductOptions" /\ role \in Sellers
        BY <1>5 DEF Reads, DialogQuery, DialogOK
    <2> QED BY <2>1, <1>1, <1>2, Rights
<1>6. CASE p = "inventory" /\ q # Main[p]
    <2>1. q = "inventoryTransactions" /\ Main[p] = "inventory"
        BY <1>6 DEF Reads, DialogQuery, Main, AllPages
    <2> QED BY <2>1, <1>1, Rights
<1>7. CASE p = "product" /\ q # Main[p]
    <2>1. q = "inventoryWarehouses" /\ role \in Handlers
        BY <1>7 DEF Reads, DialogQuery, DialogOK
    <2> QED BY <2>1, <1>1, <1>2, Rights
<1>8. CASE p \notin {"orders", "shopify", "inventory", "product"} /\ q # Main[p]
    BY <1>8 DEF Reads, DialogOK, DialogQuery
<1> QED BY <1>3, <1>4, <1>5, <1>6, <1>7, <1>8

\* After a change, its list is declared out of date, or is the product that was asked for
\* again already; a list is never the query of a dialog.
LEMMA ListsRefreshed ==
    ASSUME NEW p \in AllPages, NEW op \in Wares[p]
    PROVE  /\ ListOf(op) \in Queries \ DialogQueries
           /\ ListOf(op) \in Touches(op) =>
                 ListOf(op) \in Refreshes(p, op) \/ (p = "product" /\ ListOf(op) = "product")
           /\ Refreshes(p, op) \subseteq Queries
           /\ op \in UNION {DOMAIN t : t \in Tables}
<1>1. {"orders", "inventory", "products", "product", "stores", "channelConnections"}
         \subseteq Queries \ DialogQueries
    BY DEF Queries, Route, DialogQueries
<1>2. Main["orders"] = "orders" /\ Main["inventory"] = "inventory" /\ Main["products"] = "products"
      /\ Main["stores"] = "stores" /\ Main["shopify"] = "channelConnections"
    BY DEF Main, AllPages
<1>3. DOMAIN ProductRoutes \cup DOMAIN OrderRoutes \cup DOMAIN InventoryRoutes \cup
      DOMAIN StoreRoutes \cup DOMAIN ChannelRoutes \cup DOMAIN OtherRoutes
         \subseteq UNION {DOMAIN t : t \in Tables}
    BY DEF Tables
<1>4. CASE p = "orders"
    <2>1. op \in {"PostOrder", "PatchOrderStatus"}
        BY <1>4 DEF Wares
    <2>2. op \in DOMAIN OrderRoutes
        BY <2>1 DEF OrderRoutes
    <2>3. ListOf(op) = "orders" /\ Refreshes(p, op) = {"orders"}
        BY <1>2, <1>4, <2>1 DEF ListOf, Refreshes
    <2> QED BY <1>1, <1>3, <2>2, <2>3
<1>5. CASE p = "inventory"
    <2>1. op = "PatchAdjust"
        BY <1>5 DEF Wares
    <2>2. op \in DOMAIN InventoryRoutes
        BY <2>1 DEF InventoryRoutes
    <2>3. ListOf(op) = "inventory" /\ Refreshes(p, op) = {"inventory"}
        BY <1>2, <1>5, <2>1 DEF ListOf, Refreshes
    <2> QED BY <1>1, <1>3, <2>2, <2>3
<1>6. CASE p = "products"
    <2>1. op \in {"PostProduct", "PatchProduct", "PatchProductStatus"}
        BY <1>6 DEF Wares
    <2>2. op \in DOMAIN ProductRoutes
        BY <2>1 DEF ProductRoutes
    <2>3. ListOf(op) = "products" /\ Refreshes(p, op) = {"products"}
        BY <1>2, <1>6, <2>1 DEF ListOf, Refreshes
    <2> QED BY <1>1, <1>3, <2>2, <2>3
<1>7. CASE p = "product"
    <2>1. op \in {"PatchProduct", "PatchProductStatus", "PostSku", "PatchSku", "DeleteSku",
                  "PostRecord"}
        BY <1>7 DEF Wares
    <2>2. op \in DOMAIN ProductRoutes \cup DOMAIN InventoryRoutes
        BY <2>1 DEF ProductRoutes, InventoryRoutes
    <2>3. CASE op \in {"PatchProduct", "PatchProductStatus"}
        BY <1>1, <1>3, <1>7, <2>2, <2>3 DEF ListOf, Refreshes
    <2>4. CASE op = "PostRecord"
        BY <1>1, <1>3, <1>7, <2>2, <2>4 DEF ListOf, Refreshes
    <2>5. CASE op \in {"PostSku", "PatchSku", "DeleteSku"}
        BY <1>1, <1>3, <1>7, <2>2, <2>5 DEF ListOf, Refreshes
    <2> QED BY <2>1, <2>3, <2>4, <2>5
<1>8. CASE p = "stores"
    <2>1. op \in {"PostStore", "PatchStore", "PostWarehouse"}
        BY <1>8 DEF Wares
    <2>2. op \in DOMAIN StoreRoutes
        BY <2>1 DEF StoreRoutes
    <2>3. ListOf(op) = "stores" /\ Refreshes(p, op) = {"stores"}
        BY <1>2, <1>8, <2>1 DEF ListOf, Refreshes
    <2> QED BY <1>1, <1>3, <2>2, <2>3
<1>9. CASE p = "shopify"
    <2>1. op \in {"PostMapping", "PostImport", "StartOAuth"}
        BY <1>9 DEF Wares
    <2>2. op \in DOMAIN ChannelRoutes \cup DOMAIN OtherRoutes
        BY <2>1 DEF ChannelRoutes, OtherRoutes
    <2>3. CASE op = "PostMapping"
        BY <1>1, <1>2, <1>3, <1>9, <2>2, <2>3 DEF ListOf, Refreshes
    <2>4. CASE op = "PostImport"
        BY <1>1, <1>3, <1>9, <2>2, <2>4 DEF ListOf, Refreshes
    <2>5. CASE op = "StartOAuth"
        <3>1. Touches(op) = {}
            BY <2>5 DEF Touches
        <3> QED BY <1>1, <1>3, <1>9, <2>2, <2>5, <3>1 DEF ListOf, Refreshes
    <2> QED BY <2>1, <2>3, <2>4, <2>5
<1>10. CASE p \in {"home", "audit"}
    BY <1>10 DEF Wares
<1> QED BY <1>4, <1>5, <1>6, <1>7, <1>8, <1>9, <1>10 DEF AllPages

-----------------------------------------------------------------------------
(***************************************************************************)
(* The invariant.                                                          *)
(***************************************************************************)
Busy(e) == e.fetch \in {"asked", "answered"}
Past == {"done", "refetching", "over", "failed"}

\* An entry of the cache; only what may be read is ever answered.
EntryOK(e, q) ==
    /\ e \in Entry
    /\ ~ e.has => e.lacks = {} /\ ~ e.old
    /\ e.late # {} => e.fetch = "answered"
    /\ e.has \/ e.fetch = "answered" => Admits(role, Route[q])
    /\ e.fetch = "denied" => ~ Admits(role, Route[q])

EntriesOK == entry \in [Queries -> Entry] /\ \A q \in Queries : EntryOK(entry[q], q)

\* What an entry lacks is a change that was carried out and that the entry would show.
CommittedOK == \A q \in Queries : \A n \in entry[q].lacks \cup entry[q].late :
    n \in DOMAIN edit /\ edit[n].pc \in Past /\ q \in Touches(edit[n].op)

Fits(e) == /\ e.op \in Wares[e.from] /\ Admits(role, e.op) /\ e.pc # "forbidden"
           /\ e.pc = "refetching" => e.from = "product"
EditsOK == edit \in Seq(EditRow) /\ Len(edit) <= MaxEdits[calm] /\ \A n \in DOMAIN edit : Fits(edit[n])

PlaceOK == /\ role \in Roles /\ page \in Pages \cup {None} /\ calm \in BOOLEAN
           /\ dialog \in BOOLEAN /\ moves \in 0 .. MaxMoves[calm]
           /\ DialogOK(page, dialog) /\ (dialog => entry[Main[page]].has)

IInv == PlaceOK /\ EntriesOK /\ CommittedOK /\ EditsOK

LEMMA InitOK ==
    ASSUME ConsoleAssumption, Init
    PROVE  IInv
<1>1. PlaceOK
    <2>1. ~ dialog /\ role \in Roles /\ page = None /\ calm \in BOOLEAN /\ moves = 0
        BY DEF Init
    <2>2. MaxMoves[calm] \in Nat
        BY <2>1 DEF ConsoleAssumption
    <2>3. dialog \in BOOLEAN
        BY DEF Init
    <2>4. moves \in 0 .. MaxMoves[calm]
        BY <2>1, <2>2
    <2> QED BY <2>1, <2>3, <2>4 DEF PlaceOK, DialogOK
<1>2. Nothing \in Entry
    BY DEF Nothing, Entry
<1>3. EntriesOK
    BY <1>2 DEF EntriesOK, EntryOK, Init, Nothing
<1>4. CommittedOK
    BY DEF CommittedOK, Init, Nothing
<1>5. EditsOK
    <2>1. MaxEdits[calm] \in Nat
        BY DEF Init, ConsoleAssumption
    <2> QED BY <2>1 DEF EditsOK, Init
<1> QED BY <1>1, <1>3, <1>4, <1>5 DEF IInv

-----------------------------------------------------------------------------
(***************************************************************************)
(* Most steps are mild to an entry: they ask for it, mark it or answer it, *)
(* and neither what it has nor what it lacks changes.                      *)
(***************************************************************************)
Mild(e, f, q) ==
    /\ EntryOK(f, q)
    /\ f.has = e.has /\ f.lacks = e.lacks /\ f.late \subseteq e.late
    /\ e.old => f.old
    /\ Busy(e) => Busy(f)

LEMMA MildFunctions ==
    ASSUME NEW e, NEW q, EntryOK(e, q)
    PROVE  /\ Mild(e, e, q) /\ Mild(e, Asked(e), q) /\ Mild(e, Renewed(e), q)
           /\ Mild(e, [e EXCEPT !.old = e.has], q)
           /\ Mild(e, Renewed([e EXCEPT !.old = e.has]), q)
<1>1. \A d : EntryOK(d, q) => Mild(d, Asked(d), q) /\ Mild(d, d, q)
    BY DEF EntryOK, Mild, Asked, Busy, Entry
<1>2. \A d : EntryOK(d, q) => Mild(d, Renewed(d), q)
    BY <1>1 DEF Renewed
<1> DEFINE m == [e EXCEPT !.old = e.has]
<1>3. Mild(e, m, q)
    BY DEF EntryOK, Mild, Busy, Entry
<1>4. Mild(m, Renewed(m), q)
    BY <1>2, <1>3 DEF Mild
<1>5. Mild(e, Renewed(m), q)
    <2> HIDE DEF m
    <2> QED BY <1>3, <1>4 DEF Mild
<1> QED BY <1>1, <1>2, <1>3, <1>5

AllMild(after) == after \in [Queries -> Entry] /\ \A q \in Queries : Mild(entry[q], after[q], q)

LEMMA MildChanges ==
    ASSUME IInv
    PROVE  /\ AllMild(entry) /\ \A Q : AllMild(Mount(Q)) /\ AllMild(Invalidate(Q))
           /\ AllMild(Refetch("product"))
<1>1. \A q \in Queries : EntryOK(entry[q], q)
    BY DEF IInv, EntriesOK
<1>2. \A e, q : EntryOK(e, q) => e \in Entry
    BY DEF EntryOK
<1>3. \A e, f, q : Mild(e, f, q) => f \in Entry
    BY DEF Mild, EntryOK
<1>4. AllMild(entry)
    BY <1>1, MildFunctions DEF AllMild, IInv, EntriesOK
<1>5. ASSUME NEW Q PROVE AllMild(Mount(Q))
    <2>1. \A q \in Queries : Mild(entry[q], Mount(Q)[q], q)
        BY <1>1, MildFunctions DEF Mount
    <2> QED BY <2>1, <1>3 DEF AllMild, Mount
<1>6. ASSUME NEW Q PROVE AllMild(Invalidate(Q))
    <2>1. \A q \in Queries : Mild(entry[q], Invalidate(Q)[q], q)
        BY <1>1, MildFunctions DEF Invalidate
    <2> QED BY <2>1, <1>3 DEF AllMild, Invalidate
<1>7. AllMild(Refetch("product"))
    <2>1. \A q \in Queries : Mild(entry[q], Refetch("product")[q], q)
        BY <1>1, MildFunctions DEF Refetch, IInv, EntriesOK
    <2>2. Refetch("product") = [q \in Queries |-> Refetch("product")[q]]
        BY DEF Refetch, IInv, EntriesOK
    <2> QED BY <2>1, <2>2, <1>3 DEF AllMild
<1> QED BY <1>4, <1>5, <1>6, <1>7

\* Changes go on, and none that was carried out is undone.
EditsGoOn ==
    /\ DOMAIN edit \subseteq DOMAIN edit'
    /\ \A n \in DOMAIN edit : /\ edit'[n].op = edit[n].op
                              /\ edit[n].pc \in Past => edit'[n].pc \in Past

LEMMA MildStep ==
    ASSUME IInv, AllMild(entry'), UNCHANGED <<role, calm>>, EditsGoOn
    PROVE  EntriesOK' /\ CommittedOK' /\ \A q \in Queries : entry'[q].has = entry[q].has
<1>1. \A q \in Queries : Mild(entry[q], entry'[q], q)
    BY DEF AllMild
<1>2. EntriesOK'
    BY <1>1 DEF AllMild, EntriesOK, Mild, EntryOK, Entry, Edits
<1>3. CommittedOK'
    BY <1>1 DEF CommittedOK, Mild, EditsGoOn, IInv
<1> QED BY <1>1, <1>2, <1>3 DEF Mild

LEMMA EditMoved ==
    ASSUME IInv, NEW n \in DOMAIN edit, NEW pc, Moved(n, pc), UNCHANGED <<role, calm>>,
           pc \in {"done", "refused", "refetching", "over", "failed"},
           pc = "refetching" => edit[n].from = "product",
           edit[n].pc \in Past => pc \in Past
    PROVE  /\ EditsOK' /\ EditsGoOn /\ DOMAIN edit' = DOMAIN edit
           /\ edit'[n] = [edit[n] EXCEPT !.pc = pc]
           /\ \A m \in DOMAIN edit \ {n} : edit'[m] = edit[m]
<1>1. edit \in Seq(EditRow) /\ Len(edit) <= MaxEdits[calm] /\ \A m \in DOMAIN edit : Fits(edit[m])
    BY DEF IInv, EditsOK
<1>2. edit[n] \in EditRow /\ n \in 1 .. Len(edit)
    BY <1>1
<1> DEFINE row == [edit[n] EXCEPT !.pc = pc]
<1>3. row \in EditRow /\ row.op = edit[n].op /\ row.from = edit[n].from /\ row.pc = pc
    BY <1>2 DEF EditRow
<1>4. edit' = [edit EXCEPT ![n] = row]
    BY DEF Moved
<1> HIDE DEF row
<1>5. /\ edit' \in Seq(EditRow) /\ Len(edit') = Len(edit) /\ DOMAIN edit' = DOMAIN edit
      /\ edit'[n] = row /\ \A m \in DOMAIN edit \ {n} : edit'[m] = edit[m]
    BY <1>1, <1>2, <1>3, <1>4
<1>6. Fits(row)
    BY <1>1, <1>3 DEF Fits
<1>7. EditsOK'
    BY <1>1, <1>5, <1>6 DEF EditsOK, Fits
<1>8. EditsGoOn
    BY <1>3, <1>5 DEF EditsGoOn
<1> QED BY <1>5, <1>7, <1>8 DEF row

LEMMA EditsStay ==
    ASSUME IInv, UNCHANGED <<role, calm, edit>>
    PROVE  EditsOK' /\ EditsGoOn
BY DEF IInv, EditsOK, EditsGoOn, Fits

\* Nothing about the place changes, and no entry of the page is lost.
LEMMA PlaceStays ==
    ASSUME IInv, UNCHANGED <<role, page, calm>>, dialog' \in BOOLEAN, dialog' => dialog,
           moves' \in {moves, moves + 1}, moves' # moves => moves < MaxMoves[calm],
           dialog => entry'[Main[page]].has, ConsoleAssumption
    PROVE  PlaceOK'
<1>1. PlaceOK /\ MaxMoves[calm] \in Nat
    BY DEF IInv, PlaceOK, ConsoleAssumption
<1>2. moves' \in 0 .. MaxMoves[calm]
    BY <1>1 DEF PlaceOK
<1> QED BY <1>1, <1>2 DEF PlaceOK, DialogOK

\* A page with a dialog is a page, and its list is a query.
LEMMA DialogPage ==
    ASSUME ConsoleAssumption, IInv, dialog
    PROVE  page \in AllPages /\ Main[page] \in Queries /\ Main[page] \in Mounted
<1>1. page \in DOMAIN DialogQuery
    BY DEF IInv, PlaceOK, DialogOK
<1>2. page \in AllPages /\ page # None
    BY <1>1, PageQueries DEF ConsoleAssumption
<1> QED BY <1>2, PageQueries DEF Mounted, IInv, PlaceOK

LEMMA VisitOK ==
    ASSUME ConsoleAssumption, IInv, NEW p \in Pages, Visit(p)
    PROVE  IInv' /\ AllMild(entry') /\ EditsGoOn
<1>1. p \in AllPages /\ MaxMoves[calm] \in Nat
    BY DEF ConsoleAssumption, IInv, PlaceOK
<1>2. PlaceOK'
    <2>1. /\ role' = role /\ page' = p /\ ~ dialog' /\ dialog' \in BOOLEAN /\ calm' = calm
          /\ moves' = moves + 1 /\ moves < MaxMoves[calm]
        BY DEF Visit
    <2>2. moves' \in 0 .. MaxMoves[calm]
        BY <1>1, <2>1 DEF IInv, PlaceOK
    <2> QED BY <2>1, <2>2 DEF IInv, PlaceOK, DialogOK
<1>3. edit \in Seq(EditRow) /\ \A n \in DOMAIN edit : edit[n] \in EditRow /\ Fits(edit[n])
    BY DEF IInv, EditsOK
<1>4. /\ edit' \in Seq(EditRow) /\ Len(edit') = Len(edit) /\ DOMAIN edit' = DOMAIN edit
      /\ \A n \in DOMAIN edit : edit'[n].op = edit[n].op /\ edit'[n].from = edit[n].from
                                /\ edit'[n].pc = edit[n].pc
    <2>1. \A n \in DOMAIN edit : LET row == [edit[n] EXCEPT !.here = FALSE] IN
             row \in EditRow /\ row.op = edit[n].op /\ row.from = edit[n].from /\ row.pc = edit[n].pc
        BY <1>3 DEF EditRow
    <2>2. edit' = [n \in 1 .. Len(edit) |-> [edit[n] EXCEPT !.here = FALSE]]
        BY <1>3 DEF Visit, LeavePage
    <2> QED BY <1>3, <2>1, <2>2
<1>5. EditsOK' /\ EditsGoOn
    BY <1>3, <1>4 DEF EditsOK, Fits, EditsGoOn, Visit, IInv
<1>6. AllMild(entry')
    BY MildChanges DEF Visit
<1>7. EntriesOK' /\ CommittedOK'
    BY <1>5, <1>6, MildStep DEF Visit
<1> QED BY <1>2, <1>5, <1>6, <1>7 DEF IInv

LEMMA DialogsOK ==
    ASSUME ConsoleAssumption, IInv, OpenDialog \/ CloseDialog
    PROVE  IInv' /\ AllMild(entry') /\ EditsGoOn
<1>1. UNCHANGED <<role, page, calm, edit>> /\ AllMild(entry')
    BY MildChanges DEF OpenDialog, CloseDialog
<1>2. EditsOK' /\ EditsGoOn
    BY <1>1, EditsStay
<1>3. EntriesOK' /\ CommittedOK' /\ \A q \in Queries : entry'[q].has = entry[q].has
    BY <1>1, <1>2, MildStep
<1>4. PlaceOK'
    <2>1. CASE OpenDialog
        <3>1. Main[page] \in Queries
            BY <2>1, PageQueries DEF OpenDialog
        <3>2. entry'[Main[page]].has
            BY <2>1, <3>1, <1>3 DEF OpenDialog
        <3>3. moves' \in 0 .. MaxMoves[calm]
            BY <2>1 DEF OpenDialog, IInv, PlaceOK, ConsoleAssumption
        <3>4. page \in DOMAIN DialogQuery /\ (page = "product" => role \in Handlers) /\ dialog' = TRUE
            BY <2>1 DEF OpenDialog
        <3>5. DialogOK(page, dialog)'
            BY <3>4, <1>1 DEF DialogOK
        <3>6. dialog' \in BOOLEAN
            BY <3>4
        <3>7. role' \in Roles /\ page' \in Pages \cup {None} /\ calm' \in BOOLEAN
            BY <1>1 DEF IInv, PlaceOK
        <3>8. entry'[Main[page']].has /\ moves' \in 0 .. MaxMoves[calm']
            BY <1>1, <3>2, <3>3
        <3> QED BY <3>5, <3>6, <3>7, <3>8 DEF PlaceOK
    <2>2. CASE CloseDialog
        <3>1. dialog' = FALSE /\ moves' = moves /\ dialog
            BY <2>2 DEF CloseDialog
        <3>2. dialog' \in BOOLEAN
            BY <3>1
        <3>3. entry'[Main[page]].has
            BY <1>3, <3>1, DialogPage DEF IInv, PlaceOK
        <3> QED BY <1>1, <3>1, <3>2, <3>3, PlaceStays
    <2> QED BY <2>1, <2>2
<1> QED BY <1>1, <1>2, <1>3, <1>4 DEF IInv

LEMMA AskedAndAged ==
    ASSUME ConsoleAssumption, IInv, Focus \/ \E q \in Queries : Answer(q) \/ Age(q)
    PROVE  IInv' /\ AllMild(entry') /\ EditsGoOn
<1>1. UNCHANGED <<role, page, dialog, calm, edit>>
    BY DEF Focus, Answer, Age
<1>2. AllMild(entry')
    <2>1. CASE Focus
        BY <2>1, MildChanges DEF Focus
    <2>2. ASSUME NEW q \in Queries, Answer(q) \/ Age(q)
          PROVE  AllMild(entry')
        <3>1. EntryOK(entry[q], q) /\ entry \in [Queries -> Entry] /\ AllMild(entry)
            BY MildChanges DEF IInv, EntriesOK
        <3> DEFINE f == entry'[q]
        <3>2. /\ entry' = [entry EXCEPT ![q] = f]
              /\ \/ f = [entry[q] EXCEPT !.fetch = "answered"] /\ Admits(role, Route[q])
                    /\ entry[q].fetch = "asked"
                 \/ f = [entry[q] EXCEPT !.old = TRUE] /\ entry[q].has
            BY <2>2, <3>1 DEF Answer, Age
        <3> HIDE DEF f
        <3>3. Mild(entry[q], f, q)
            BY <3>1, <3>2 DEF EntryOK, Mild, Busy, Entry
        <3> QED BY <3>1, <3>2, <3>3 DEF AllMild, Mild, EntryOK
    <2> QED BY <2>1, <2>2
<1>3. EditsOK' /\ EditsGoOn
    BY <1>1, EditsStay
<1>4. EntriesOK' /\ CommittedOK' /\ \A q \in Queries : entry'[q].has = entry[q].has
    BY <1>1, <1>2, <1>3, MildStep
<1>5. moves' \in {moves, moves + 1} /\ (moves' # moves => moves < MaxMoves[calm])
    BY DEF Focus, Answer, Age
<1>6. PlaceOK'
    BY <1>1, <1>4, <1>5, PlaceStays, DialogPage DEF IInv, PlaceOK
<1> QED BY <1>2, <1>3, <1>4, <1>6 DEF IInv

LEMMA EntryReplaced ==
    ASSUME IInv, NEW q \in Queries, NEW f, entry' = [entry EXCEPT ![q] = f], EntryOK(f, q),
           f.lacks \cup f.late \subseteq entry[q].lacks \cup entry[q].late,
           UNCHANGED <<role, calm, edit>>
    PROVE  EntriesOK' /\ CommittedOK' /\ EditsOK'
<1>1. entry \in [Queries -> Entry] /\ \A p \in Queries : EntryOK(entry[p], p)
    BY DEF IInv, EntriesOK
<1>2. entry'[q] = f /\ \A p \in Queries \ {q} : entry'[p] = entry[p]
    BY <1>1
<1>3. \A p \in Queries : EntryOK(entry'[p], p)
    BY <1>1, <1>2
<1>4. entry' \in [Queries -> Entry]
    BY <1>1 DEF EntryOK
<1>5. EntriesOK'
    BY <1>3, <1>4 DEF EntriesOK, EntryOK, Entry, Edits
<1>6. CommittedOK'
    BY <1>2 DEF CommittedOK, IInv
<1> QED BY <1>5, <1>6, EditsStay

LEMMA ReplacementsOK ==
    ASSUME ConsoleAssumption, IInv, NEW q \in Queries, Land(q) \/ Refuse(q) \/ Break(q) \/ Forget(q)
    PROVE  IInv'
<1>1. EntryOK(entry[q], q) /\ entry \in [Queries -> Entry]
    BY DEF IInv, EntriesOK
<1>2. UNCHANGED <<role, page, dialog, edit, calm>>
    BY DEF Land, Refuse, Break, Forget
<1> DEFINE f == entry'[q]
<1>3. /\ entry' = [entry EXCEPT ![q] = f] /\ EntryOK(f, q)
      /\ f.lacks \cup f.late \subseteq entry[q].lacks \cup entry[q].late
      /\ q \in Mounted => (entry[q].has => f.has)
    <2>1. CASE Land(q)
        <3>1. f = [has |-> TRUE, lacks |-> entry[q].late, old |-> FALSE, fetch |-> "idle", late |-> {}]
            BY <1>1, <2>1 DEF Land, Nothing
        <3>2. entry[q].fetch = "answered"
            BY <2>1 DEF Land
        <3>3. entry[q].late \subseteq Edits
            BY <1>1 DEF EntryOK, Entry
        <3>4. EntryOK(f, q)
            BY <1>1, <3>1, <3>2, <3>3 DEF EntryOK, Entry
        <3> QED BY <1>1, <2>1, <3>1, <3>4 DEF Land
    <2>2. CASE Refuse(q)
        <3>1. f = [entry[q] EXCEPT !.fetch = "denied"] /\ entry[q].fetch = "asked"
              /\ ~ Admits(role, Route[q]) /\ entry' = [entry EXCEPT ![q] = f]
            BY <1>1, <2>2 DEF Refuse
        <3> QED BY <1>1, <3>1 DEF EntryOK, Entry
    <2>3. CASE Break(q)
        <3>1. f = [entry[q] EXCEPT !.fetch = "idle", !.late = {}] /\ entry' = [entry EXCEPT ![q] = f]
            BY <1>1, <2>3 DEF Break
        <3> QED BY <1>1, <3>1 DEF EntryOK, Entry
    <2>4. CASE Forget(q)
        <3>1. f = [has |-> FALSE, lacks |-> {}, old |-> FALSE, fetch |-> "idle", late |-> {}]
              /\ entry' = [entry EXCEPT ![q] = f] /\ q \notin Mounted
            BY <1>1, <2>4 DEF Forget, Nothing
        <3> QED BY <1>1, <3>1 DEF EntryOK, Entry
    <2> QED BY <2>1, <2>2, <2>3, <2>4
<1> HIDE DEF f
<1>4. EntriesOK' /\ CommittedOK' /\ EditsOK'
    BY <1>2, <1>3, EntryReplaced
<1>5. dialog => entry'[Main[page]].has
    BY <1>1, <1>3, DialogPage DEF IInv, PlaceOK
<1>6. moves' \in {moves, moves + 1} /\ (moves' # moves => moves < MaxMoves[calm])
    BY DEF Land, Refuse, Break, Forget
<1>7. PlaceOK'
    BY <1>2, <1>5, <1>6, PlaceStays DEF IInv, PlaceOK
<1> QED BY <1>4, <1>7 DEF IInv

LEMMA SubmitOK ==
    ASSUME ConsoleAssumption, IInv, NEW op, Submit(op)
    PROVE  /\ IInv' /\ EditsGoOn
           /\ DOMAIN edit' = DOMAIN edit \cup {Len(edit) + 1}
           /\ edit'[Len(edit) + 1] = [op |-> op, from |-> page, here |-> TRUE, pc |-> "sent"]
           /\ \A n \in DOMAIN edit : edit'[n] = edit[n] /\ n # Len(edit) + 1
<1> DEFINE row == [op |-> op, from |-> page, here |-> TRUE, pc |-> "sent"]
<1>1. /\ UNCHANGED <<role, page, dialog, entry, moves, calm>>
      /\ page \in AllPages /\ op \in Offered[page] /\ edit' = Append(edit, row)
      /\ Len(edit) < MaxEdits[calm]
    BY DEF Submit, IInv, PlaceOK, ConsoleAssumption
<1>2. op \in Wares[page] /\ Admits(role, op)
    BY <1>1, OffersAllowed DEF IInv, PlaceOK
<1>3. row \in EditRow /\ Fits(row)
    BY <1>1, <1>2, ListsRefreshed DEF EditRow, Fits
<1> HIDE DEF row
<1>4. edit \in Seq(EditRow) /\ MaxEdits[calm] \in Nat /\ \A n \in DOMAIN edit : Fits(edit[n])
    BY DEF IInv, EditsOK, PlaceOK, ConsoleAssumption
<1>5. /\ edit' \in Seq(EditRow) /\ Len(edit') = Len(edit) + 1
      /\ DOMAIN edit' = DOMAIN edit \cup {Len(edit) + 1}
      /\ edit'[Len(edit) + 1] = row
      /\ \A n \in DOMAIN edit : edit'[n] = edit[n] /\ n # Len(edit) + 1
    BY <1>1, <1>3, <1>4
<1>6. EditsOK'
    <2>1. \A n \in DOMAIN edit' : Fits(edit'[n])
        BY <1>3, <1>4, <1>5
    <2>2. Len(edit') <= MaxEdits[calm]
        BY <1>1, <1>4, <1>5
    <2> QED BY <1>1, <1>5, <2>1, <2>2 DEF EditsOK, Fits
<1>7. EditsGoOn
    BY <1>5 DEF EditsGoOn
<1>8. EntriesOK' /\ CommittedOK'
    BY <1>1, <1>7, MildChanges, MildStep
<1>9. PlaceOK'
    BY <1>1 DEF IInv, PlaceOK, DialogOK
<1> QED BY <1>5, <1>6, <1>7, <1>8, <1>9 DEF IInv, row

\* An entry when change n is carried out.
Later(e, n) == [e EXCEPT !.lacks = IF e.has THEN @ \cup {n} ELSE @,
                         !.late = IF e.fetch = "answered" THEN @ \cup {n} ELSE @]

LEMMA Carried ==
    ASSUME ConsoleAssumption, IInv, NEW n \in DOMAIN edit, Commit(n)
    PROVE  \/ /\ Moved(n, "done") /\ entry' \in [Queries -> Entry]
              /\ \A q \in Queries : entry'[q] = IF q \in Touches(edit[n].op)
                                                THEN Later(entry[q], n) ELSE entry[q]
           \/ Moved(n, "refused") /\ entry' = entry
<1>1. Fits(edit[n]) /\ n \in Edits
    <2>1. edit \in Seq(EditRow) /\ Len(edit) <= MaxEdits[calm]
        BY DEF IInv, EditsOK
    <2>2. n \in 1 .. Len(edit)
        BY <2>1
    <2>3. MaxEdits[calm] \in Nat
        BY DEF ConsoleAssumption, IInv, PlaceOK
    <2> QED BY <2>1, <2>2, <2>3 DEF IInv, EditsOK, Edits
<1>2. \A q \in Queries : entry[q] \in Entry
    BY DEF IInv, EntriesOK
<1>3. \A q \in Queries : Later(entry[q], n) \in Entry
    BY <1>1, <1>2 DEF Later, Entry
<1>4. \/ Moved(n, "refused") /\ entry' = entry
      \/ /\ Moved(n, "done")
         /\ entry' = [q \in Queries |-> IF q \in Touches(edit[n].op) THEN Later(entry[q], n) ELSE entry[q]]
    BY <1>1 DEF Commit, Fits, Later
<1> QED BY <1>2, <1>3, <1>4

LEMMA CommitOK ==
    ASSUME ConsoleAssumption, IInv, NEW n \in DOMAIN edit, Commit(n)
    PROVE  IInv' /\ EditsGoOn
<1>1. UNCHANGED <<role, page, dialog, moves, calm>> /\ edit[n].pc = "sent"
    BY DEF Commit
<1>2. CASE Moved(n, "refused") /\ entry' = entry
    <2>1. EditsOK' /\ EditsGoOn
        BY <1>1, <1>2, EditMoved DEF Past
    <2>2. EntriesOK' /\ CommittedOK'
        BY <1>1, <1>2, <2>1, MildChanges, MildStep
    <2>3. PlaceOK'
        BY <1>1, <1>2 DEF IInv, PlaceOK, DialogOK
    <2> QED BY <2>1, <2>2, <2>3 DEF IInv
<1>3. ASSUME Moved(n, "done"), entry' \in [Queries -> Entry],
             \A q \in Queries : entry'[q] = IF q \in Touches(edit[n].op)
                                            THEN Later(entry[q], n) ELSE entry[q]
      PROVE  IInv' /\ EditsGoOn
    <2>1. EditsOK' /\ EditsGoOn /\ n \in DOMAIN edit' /\ edit'[n].pc = "done"
          /\ edit'[n].op = edit[n].op
        <3>1. /\ EditsOK' /\ EditsGoOn /\ DOMAIN edit' = DOMAIN edit
              /\ edit'[n] = [edit[n] EXCEPT !.pc = "done"]
            BY <1>1, <1>3, EditMoved DEF Past
        <3>2. edit[n] \in EditRow
            BY DEF IInv, EditsOK
        <3> QED BY <3>1, <3>2 DEF EditRow
    <2>2. \A q \in Queries : EntryOK(entry[q], q)
        BY DEF IInv, EntriesOK
    <2>3. \A q \in Queries : /\ entry'[q].has = entry[q].has /\ entry'[q].old = entry[q].old
                             /\ entry'[q].fetch = entry[q].fetch
                             /\ entry'[q].lacks \subseteq IF entry[q].has THEN entry[q].lacks \cup {n} ELSE entry[q].lacks
                             /\ entry'[q].late \subseteq IF entry[q].fetch = "answered"
                                                         THEN entry[q].late \cup {n} ELSE entry[q].late
                             /\ n \in entry'[q].lacks \cup entry'[q].late =>
                                  n \in entry[q].lacks \cup entry[q].late \/ q \in Touches(edit[n].op)
        <3> TAKE q \in Queries
        <3>1. entry[q] \in Entry /\ (~ entry[q].has => entry[q].lacks = {})
            BY <2>2 DEF EntryOK
        <3>2. CASE q \notin Touches(edit[n].op)
            BY <1>3, <3>1, <3>2
        <3>3. CASE q \in Touches(edit[n].op)
            <4> DEFINE f == Later(entry[q], n)
            <4>1. /\ f.has = entry[q].has /\ f.old = entry[q].old /\ f.fetch = entry[q].fetch
                  /\ f.lacks = IF entry[q].has THEN entry[q].lacks \cup {n} ELSE entry[q].lacks
                  /\ f.late = IF entry[q].fetch = "answered" THEN entry[q].late \cup {n} ELSE entry[q].late
                BY <3>1 DEF Later, Entry
            <4> HIDE DEF f
            <4>2. entry'[q] = f
                BY <1>3, <3>3 DEF f
            <4> QED BY <3>3, <4>1, <4>2
        <3> QED BY <3>2, <3>3
    <2>4. EntriesOK'
        BY <1>1, <1>3, <2>2, <2>3 DEF EntriesOK, EntryOK, Entry, Edits
    <2>5. CommittedOK'
        <3>1. \A q \in Queries : \A m \in entry'[q].lacks \cup entry'[q].late :
                 m \in entry[q].lacks \cup entry[q].late \/ (m = n /\ q \in Touches(edit[n].op))
            BY <2>3
        <3> QED BY <2>1, <3>1 DEF CommittedOK, EditsGoOn, IInv, Past
    <2>6. PlaceOK'
        <3>1. dialog => entry'[Main[page]].has
            BY <2>3, DialogPage DEF IInv, PlaceOK
        <3> QED BY <1>1, <3>1, PlaceStays DEF IInv, PlaceOK
    <2> QED BY <2>1, <2>4, <2>5, <2>6 DEF IInv
<1> QED BY <1>2, <1>3, Carried

LEMMA AnswersOK ==
    ASSUME ConsoleAssumption, IInv, NEW n \in DOMAIN edit,
           Acknowledge(n) \/ FinishRefetch(n) \/ Complain(n)
    PROVE  IInv' /\ AllMild(entry') /\ EditsGoOn
<1>1. UNCHANGED <<role, page, moves, calm>> /\ (dialog' => dialog)
    <2>1. CASE Acknowledge(n)
        <3>1. dialog' = (dialog /\ ~ Closes(n))
            BY <2>1 DEF Acknowledge
        <3> QED BY <2>1, <3>1 DEF Acknowledge
    <2>2. CASE FinishRefetch(n) \/ Complain(n)
        BY <2>2 DEF FinishRefetch, Complain
    <2> QED BY <2>1, <2>2
<1>2. dialog' \in BOOLEAN
    BY DEF Acknowledge, FinishRefetch, Complain, IInv, PlaceOK
<1>3. AllMild(entry')
    BY MildChanges DEF Acknowledge, FinishRefetch, Complain
<1>4. \E pc \in {"refetching", "over", "failed"} :
         Moved(n, pc) /\ (pc = "refetching" => edit[n].from = "product")
    BY DEF Acknowledge, FinishRefetch, Complain
<1>5. EditsOK' /\ EditsGoOn
    BY <1>1, <1>4, EditMoved DEF Past
<1>6. EntriesOK' /\ CommittedOK' /\ \A q \in Queries : entry'[q].has = entry[q].has
    BY <1>1, <1>3, <1>5, MildStep
<1>7. PlaceOK'
    BY <1>1, <1>2, <1>6, DialogPage, PlaceStays DEF IInv, PlaceOK
<1> QED BY <1>3, <1>5, <1>6, <1>7 DEF IInv

\* What the window drops when it is loaded anew, or left.
LEMMA FreshEntries ==
    ASSUME NEW Q
    PROVE  \A q \in Queries : /\ Fresh(Q)[q] \in Entry /\ ~ Fresh(Q)[q].has /\ ~ Fresh(Q)[q].old
                              /\ Fresh(Q)[q].lacks = {} /\ Fresh(Q)[q].late = {}
                              /\ Fresh(Q)[q].fetch = IF q \in Q THEN "asked" ELSE "idle"
<1>1. /\ Nothing \in Entry /\ ~ Nothing.has /\ ~ Nothing.old
      /\ Nothing.lacks = {} /\ Nothing.late = {} /\ Nothing.fetch = "idle"
    BY DEF Nothing, Entry
<1>2. /\ Asked(Nothing) \in Entry /\ ~ Asked(Nothing).has /\ ~ Asked(Nothing).old
      /\ Asked(Nothing).lacks = {} /\ Asked(Nothing).late = {} /\ Asked(Nothing).fetch = "asked"
    BY DEF Asked, Nothing, Entry
<1> QED BY <1>1, <1>2 DEF Fresh

\* The changes of a window that is loaded anew: those under way are given up.
LEMMA EditsUnloaded ==
    ASSUME IInv
    PROVE  /\ Unloaded \in Seq(EditRow) /\ Len(Unloaded) = Len(edit) /\ DOMAIN Unloaded = DOMAIN edit
           /\ \A n \in DOMAIN edit :
                 /\ Unloaded[n].op = edit[n].op /\ Unloaded[n].from = edit[n].from
                 /\ Unloaded[n].pc = IF Pending(n) THEN "failed" ELSE edit[n].pc
<1>1. edit \in Seq(EditRow)
    BY DEF IInv, EditsOK
<1>2. ASSUME NEW n \in DOMAIN edit
      PROVE  /\ Unloaded[n] \in EditRow
             /\ Unloaded[n].op = edit[n].op /\ Unloaded[n].from = edit[n].from
             /\ Unloaded[n].pc = IF Pending(n) THEN "failed" ELSE edit[n].pc
    <2> DEFINE pc == IF Pending(n) THEN "failed" ELSE edit[n].pc
               row == [edit[n] EXCEPT !.here = FALSE, !.pc = pc]
    <2>1. edit[n] \in EditRow
        BY <1>1, <1>2
    <2>2. pc \in {"sent", "done", "refused", "forbidden", "refetching", "over", "failed"}
        BY <2>1 DEF EditRow
    <2>3. Unloaded[n] = row
        BY <1>2 DEF Unloaded
    <2> HIDE DEF pc
    <2>4. row \in EditRow /\ row.op = edit[n].op /\ row.from = edit[n].from /\ row.pc = pc
        BY <2>1, <2>2 DEF EditRow
    <2> HIDE DEF row
    <2> QED BY <2>3, <2>4 DEF pc
<1>3. Unloaded = [n \in 1 .. Len(edit) |-> Unloaded[n]] /\ DOMAIN edit = 1 .. Len(edit)
    BY <1>1 DEF Unloaded
<1>4. Unloaded \in Seq(EditRow) /\ Len(Unloaded) = Len(edit) /\ DOMAIN Unloaded = DOMAIN edit
    <2> DEFINE u == Unloaded
    <2>1. Len(edit) \in Nat /\ \A n \in 1 .. Len(edit) : u[n] \in EditRow
        BY <1>1, <1>2, <1>3
    <2> HIDE DEF u
    <2>2. u = [n \in 1 .. Len(edit) |-> u[n]]
        BY <1>3 DEF u
    <2> QED BY <1>3, <2>1, <2>2 DEF u
<1> QED BY <1>2, <1>4

\* A window that was loaded anew or has left has empty entries and awaits no answer.
Restarted ==
    /\ UNCHANGED <<role, calm>> /\ dialog' = FALSE
    /\ entry' = Fresh(Mounted')
    /\ edit' \in Seq(EditRow) /\ Len(edit') <= MaxEdits[calm] /\ DOMAIN edit' = DOMAIN edit
    /\ \A n \in DOMAIN edit : /\ edit'[n].op = edit[n].op /\ edit'[n].from = edit[n].from
                              /\ edit'[n].pc \in {edit[n].pc, "over", "failed"}
                              /\ ~ Pending(n)'

LEMMA WindowRestarts ==
    ASSUME ConsoleAssumption, IInv,
           (\E p \in Pages : Reload(p)) \/ (\E n \in DOMAIN edit : LeaveForShopify(n))
    PROVE  Restarted /\ page' \in Pages \cup {None} /\ moves' \in 0 .. MaxMoves[calm]
<1>1. /\ edit \in Seq(EditRow) /\ Len(edit) <= MaxEdits[calm]
      /\ moves \in 0 .. MaxMoves[calm] /\ MaxMoves[calm] \in Nat
    BY DEF IInv, EditsOK, PlaceOK, ConsoleAssumption
<1>2. ASSUME NEW p \in Pages, Reload(p)
      PROVE  Restarted /\ page' \in Pages \cup {None} /\ moves' \in 0 .. MaxMoves[calm]
    <2>1. /\ UNCHANGED <<role, calm>> /\ dialog' = FALSE /\ page' = p /\ p # None
          /\ entry' = Fresh(Reads(p, FALSE)) /\ edit' = Unloaded
          /\ moves < MaxMoves[calm] /\ moves' = moves + 1
        BY <1>2 DEF Reload, ConsoleAssumption
    <2>2. Mounted' = Reads(p, FALSE)
        BY <2>1 DEF Mounted, Reads
    <2>3. \A n \in DOMAIN edit : /\ edit'[n].op = edit[n].op /\ edit'[n].from = edit[n].from
                                 /\ edit'[n].pc = IF Pending(n) THEN "failed" ELSE edit[n].pc
        BY <2>1, EditsUnloaded
    <2>4. \A n \in DOMAIN edit : ~ Pending(n)'
        BY <2>3 DEF Pending
    <2> QED BY <1>1, <2>1, <2>2, <2>3, <2>4, EditsUnloaded DEF Restarted
<1>3. ASSUME NEW n \in DOMAIN edit, LeaveForShopify(n)
      PROVE  Restarted /\ page' \in Pages \cup {None} /\ moves' \in 0 .. MaxMoves[calm]
    <2>1. /\ UNCHANGED <<role, moves, calm>> /\ dialog' = FALSE /\ page' = None
          /\ entry' = Fresh({}) /\ edit' = [Unloaded EXCEPT ![n].pc = "over"]
        BY <1>3 DEF LeaveForShopify
    <2>2. Mounted' = {}
        BY <2>1 DEF Mounted
    <2> DEFINE row == [Unloaded[n] EXCEPT !.pc = "over"]
    <2>3. Unloaded[n] \in EditRow
        BY <1>3, EditsUnloaded
    <2>4. row \in EditRow /\ row.op = edit[n].op /\ row.from = edit[n].from /\ row.pc = "over"
        BY <1>3, <2>3, EditsUnloaded DEF EditRow
    <2>5. edit' = [Unloaded EXCEPT ![n] = row]
        BY <2>1
    <2> HIDE DEF row
    <2>6. /\ edit' \in Seq(EditRow) /\ Len(edit') = Len(edit) /\ DOMAIN edit' = DOMAIN edit
          /\ edit'[n] = row /\ \A m \in DOMAIN edit \ {n} : edit'[m] = Unloaded[m]
        BY <1>3, <2>4, <2>5, EditsUnloaded
    <2>7. \A m \in DOMAIN edit :
             /\ edit'[m].op = edit[m].op /\ edit'[m].from = edit[m].from
             /\ edit'[m].pc = IF m = n THEN "over" ELSE IF Pending(m) THEN "failed" ELSE edit[m].pc
        BY <2>4, <2>6, EditsUnloaded
    <2>8. \A m \in DOMAIN edit : ~ Pending(m)'
        BY <2>7 DEF Pending
    <2> QED BY <1>1, <2>1, <2>2, <2>6, <2>7, <2>8 DEF Restarted
<1> QED BY <1>2, <1>3

LEMMA RestartsOK ==
    ASSUME ConsoleAssumption, IInv,
           (\E p \in Pages : Reload(p)) \/ (\E n \in DOMAIN edit : LeaveForShopify(n))
    PROVE  IInv'
<1>1. Restarted /\ page' \in Pages \cup {None} /\ moves' \in 0 .. MaxMoves[calm]
    BY WindowRestarts
<1>2. PICK Q : entry' = Fresh(Q)
    BY <1>1 DEF Restarted
<1>3. entry' = [q \in Queries |-> entry'[q]]
    BY <1>2 DEF Fresh
<1>4. \A q \in Queries : /\ entry'[q] \in Entry /\ ~ entry'[q].has /\ ~ entry'[q].old
                         /\ entry'[q].lacks = {} /\ entry'[q].late = {}
                         /\ entry'[q].fetch \in {"asked", "idle"}
    BY <1>2, FreshEntries
<1>5. EntriesOK'
    <2>1. \A q \in Queries : entry'[q] \in Entry'
        BY <1>1, <1>4 DEF Entry, Edits, Restarted
    <2> QED BY <1>3, <1>4, <2>1 DEF EntriesOK, EntryOK
<1>6. CommittedOK'
    BY <1>4 DEF CommittedOK
<1>7. EditsOK'
    <2>1. \A n \in DOMAIN edit : Fits(edit[n])
        BY DEF IInv, EditsOK
    <2>2. \A n \in DOMAIN edit' : Fits(edit'[n])
        BY <1>1, <2>1 DEF Restarted, Fits
    <2> QED BY <1>1, <2>2 DEF EditsOK, Fits, Restarted
<1>8. PlaceOK'
    BY <1>1 DEF Restarted, PlaceOK, DialogOK, IInv
<1> QED BY <1>5, <1>6, <1>7, <1>8 DEF IInv

LEMMA Inductive ==
    ASSUME ConsoleAssumption, IInv, [Next]_vars
    PROVE  IInv'
<1>1. CASE UNCHANGED vars
    BY <1>1 DEF vars, IInv, PlaceOK, DialogOK, EntriesOK, EntryOK, Entry, Edits, CommittedOK, EditsOK, Fits
<1>2. ASSUME NEW p \in Pages, Visit(p) PROVE IInv'
    BY <1>2, VisitOK
<1>3. CASE OpenDialog \/ CloseDialog
    BY <1>3, DialogsOK
<1>4. CASE Focus
    BY <1>4, AskedAndAged
<1>5. ASSUME NEW q \in Queries, Answer(q) \/ Land(q) \/ Refuse(q) \/ Break(q) \/ Age(q) \/ Forget(q)
      PROVE  IInv'
    BY <1>5, AskedAndAged, ReplacementsOK
<1>6. ASSUME NEW op, Submit(op) PROVE IInv'
    BY <1>6, SubmitOK
<1>7. ASSUME NEW n \in DOMAIN edit, Commit(n) \/ Acknowledge(n) \/ FinishRefetch(n) \/ Complain(n)
      PROVE  IInv'
    BY <1>7, CommitOK, AnswersOK
<1>8. CASE (\E p \in Pages : Reload(p)) \/ (\E n \in DOMAIN edit : LeaveForShopify(n))
    BY <1>8, RestartsOK
<1> QED BY <1>1, <1>2, <1>3, <1>4, <1>5, <1>6, <1>7, <1>8 DEF Next

LEMMA Invariance == ASSUME ConsoleAssumption PROVE Spec => []IInv
<1>1. Init => IInv
    BY InitOK
<1>2. IInv /\ [Next]_vars => IInv'
    BY Inductive
<1> QED BY <1>1, <1>2, PTL DEF Spec

\* The window's state keeps its types; a dialog belongs to a page whose list has been
\* loaded, and an entry of the cache can lack only changes the server has made.
THEOREM ConsoleTypeOK == ASSUME ConsoleAssumption PROVE Spec => []TypeOK
<1>1. IInv => TypeOK
    <2> SUFFICES ASSUME IInv PROVE TypeOK
        OBVIOUS
    <2>1. \A q \in Queries : /\ ~ entry[q].has => entry[q].lacks = {} /\ ~ entry[q].old
                             /\ entry[q].late # {} => entry[q].fetch = "answered"
        BY DEF IInv, EntriesOK, EntryOK
    <2> QED BY <2>1 DEF IInv, PlaceOK, DialogOK, EntriesOK, CommittedOK, EditsOK, Past, TypeOK
<1> QED BY <1>1, Invariance, PTL

\* No control that is offered is answered with 403, and whoever may read the list of a page
\* may read whatever else the page asks for: the role flags of the client against
\* permissions.ts:25-30, for all roles and pages.
THEOREM NothingForbiddenIsOffered == ASSUME ConsoleAssumption PROVE Spec => []OffersArePermitted
<1>1. IInv => OffersArePermitted
    <2> SUFFICES ASSUME IInv PROVE OffersArePermitted
        OBVIOUS
    <2>1. \A n \in DOMAIN edit : edit[n].pc # "forbidden"
        BY DEF IInv, EditsOK, Fits
    <2>2. ASSUME page # None, Admits(role, Route[Main[page]]), NEW q \in Mounted
          PROVE  entry[q].fetch # "denied"
        <3>1. page \in AllPages /\ role \in Roles /\ dialog \in BOOLEAN /\ DialogOK(page, dialog)
            BY <2>2 DEF IInv, PlaceOK, ConsoleAssumption
        <3>2. q \in Reads(page, dialog) /\ q \in Queries
            BY <2>2, <3>1, PageQueries DEF Mounted
        <3>3. Admits(role, Route[q])
            BY <2>2, <3>1, <3>2, PagesReadable
        <3> QED BY <3>2, <3>3 DEF IInv, EntriesOK, EntryOK
    <2> QED BY <2>1, <2>2 DEF OffersArePermitted
<1> QED BY <1>1, Invariance, PTL

-----------------------------------------------------------------------------
(***************************************************************************)
(* A user who waits.  While a change is under way its page stays on the    *)
(* screen, with every list loaded that the user may read; so an answer     *)
(* that was read before the change is thrown away when the list is asked   *)
(* for again, and no answer to a list that is not on the screen is due.    *)
(***************************************************************************)
Staying == \A n \in DOMAIN edit : Pending(n) => edit[n].from = page
InView == \A q \in Queries : Busy(entry[q]) => q \in Mounted \cup DialogQueries
Kept == \A q \in Mounted \cap Queries : Admits(role, Route[q]) => entry[q].has \/ Busy(entry[q])
Read == (\E n \in DOMAIN edit : Pending(n)) =>
            \A q \in Mounted \cap Queries : Admits(role, Route[q]) => entry[q].has

\* Change n is in the answer to q, or q is asked for again, and not by a request that
\* came too early for it.
Good(n, q) == n \notin entry[q].late /\ (n \in entry[q].lacks => entry[q].old \/ Busy(entry[q]))
Shown == \A n \in DOMAIN edit :
    \/ edit[n].pc = "over"
    \/ edit[n].pc = "refetching" /\ ListOf(edit[n].op) = "product"
    => Good(n, ListOf(edit[n].op))

CalmInv == calm => Staying /\ InView /\ Kept /\ Read /\ Shown

LEMMA InitCalm ==
    ASSUME ConsoleAssumption, Init
    PROVE  CalmInv
<1>1. edit = <<>> /\ Mounted = {}
    BY DEF Init, Mounted
<1>2. \A q \in Queries : ~ Busy(entry[q])
    BY DEF Init, Nothing, Busy
<1> QED BY <1>1, <1>2 DEF CalmInv, Staying, InView, Kept, Read, Shown

LEMMA ListsAreQueries ==
    ASSUME IInv, NEW n \in DOMAIN edit
    PROVE  ListOf(edit[n].op) \in Queries \ DialogQueries
<1>1. edit[n] \in EditRow /\ Fits(edit[n])
    BY DEF IInv, EditsOK
<1>2. edit[n].from \in AllPages /\ edit[n].op \in Wares[edit[n].from]
    BY <1>1 DEF EditRow, Fits
<1> QED BY <1>2, ListsRefreshed

LEMMA GoodStays ==
    ASSUME AllMild(entry'), NEW q \in Queries, NEW n, Good(n, q)
    PROVE  Good(n, q)'
BY DEF AllMild, Mild, Good

\* What is on the screen when a dialog closes.
LEMMA MountedShrinks ==
    ASSUME ConsoleAssumption, IInv, UNCHANGED <<role, page>>, dialog' \in BOOLEAN, dialog' => dialog
    PROVE  Mounted' \subseteq Mounted /\ Mounted \subseteq Mounted' \cup DialogQueries
<1>1. CASE dialog' = dialog
    BY <1>1 DEF Mounted, Reads
<1>2. CASE dialog /\ ~ dialog'
    <2>1. page \in DOMAIN DialogQuery /\ page \in AllPages /\ dialog = TRUE /\ dialog' = FALSE
        BY <1>2, DialogPage DEF IInv, PlaceOK, DialogOK
    <2>2. Mounted = Reads(page, TRUE)
        BY <2>1, <1>2, PageQueries DEF Mounted, ConsoleAssumption
    <2>3. Mounted' = Reads(page, FALSE)
        BY <2>1, PageQueries DEF Mounted, Reads, ConsoleAssumption
    <2> QED BY <2>1, <2>2, <2>3, PageQueries
<1> QED BY <1>1, <1>2 DEF IInv, PlaceOK

\* Changes go on as they were: the same operations at the same points.
SameEdits == /\ DOMAIN edit' = DOMAIN edit
             /\ \A n \in DOMAIN edit : edit'[n].op = edit[n].op /\ edit'[n].pc = edit[n].pc
                                       /\ edit'[n].from = edit[n].from

LEMMA ShownStays ==
    ASSUME IInv, Shown, SameEdits, AllMild(entry')
    PROVE  Shown'
BY GoodStays, ListsAreQueries DEF Shown, SameEdits

LEMMA SameIsSame ==
    ASSUME UNCHANGED edit
    PROVE  SameEdits /\ \A n : Pending(n)' <=> Pending(n)
BY DEF SameEdits, Pending

\* A page or a dialog that is opened asks for what is missing.
LEMMA OpeningCalm ==
    ASSUME ConsoleAssumption, IInv, CalmInv, calm, calm' = calm, Settled, SameEdits, role' = role,
           entry' = Mount(Mounted'), AllMild(entry')
    PROVE  CalmInv'
<1>1. \A q \in Queries : ~ Busy(entry[q])
    BY DEF Settled, Waiting, Busy
<1>2. \A n \in DOMAIN edit : ~ Pending(n)
    BY DEF Settled
<1>3. \A n \in DOMAIN edit' : ~ Pending(n)'
    BY <1>2 DEF SameEdits, Pending
<1>4. \A q \in Queries : entry'[q] = IF q \in Mounted' /\ (~ entry[q].has \/ entry[q].old)
                                     THEN Asked(entry[q]) ELSE entry[q]
    BY <1>1 DEF Mount, Waiting, Busy
<1>5. \A q \in Queries : entry[q] \in Entry /\ entry'[q].has = entry[q].has
    BY DEF IInv, EntriesOK, AllMild, Mild
<1>6. \A q \in Queries : Busy(Asked(entry[q]))
    BY <1>5 DEF Asked, Busy, Entry
<1>7. InView'
    BY <1>1, <1>4 DEF InView
<1>8. Kept'
    BY <1>4, <1>5, <1>6 DEF Kept
<1> QED BY <1>3, <1>7, <1>8, ShownStays DEF CalmInv, Staying, Read

LEMMA MovesCalm ==
    ASSUME ConsoleAssumption, IInv, CalmInv, calm, (\E p \in Pages : Visit(p)) \/ OpenDialog \/ CloseDialog
    PROVE  CalmInv'
<1>1. ASSUME NEW p \in Pages, Visit(p) PROVE CalmInv'
    <2>1. p # None /\ Mounted' = Reads(p, FALSE)
        BY <1>1 DEF Visit, Mounted, Reads, ConsoleAssumption
    <2>2. AllMild(entry') /\ entry' = Mount(Mounted') /\ Settled /\ role' = role /\ calm' = calm
        BY <1>1, <2>1, VisitOK DEF Visit
    <2>3. SameEdits
        <3>1. edit \in Seq(EditRow)
            BY DEF IInv, EditsOK
        <3>2. \A n \in DOMAIN edit : edit[n] \in EditRow /\ edit'[n] = [edit[n] EXCEPT !.here = FALSE]
            BY <1>1, <3>1 DEF Visit, LeavePage
        <3>3. DOMAIN edit' = DOMAIN edit
            BY <1>1 DEF Visit, LeavePage
        <3> QED BY <3>2, <3>3 DEF SameEdits, EditRow
    <2> QED BY <2>2, <2>3, OpeningCalm
<1>2. CASE OpenDialog
    <2>1. page # None
        BY <1>2, PageQueries DEF OpenDialog, ConsoleAssumption
    <2>2. Mounted' = Reads(page, TRUE)
        BY <1>2, <2>1 DEF OpenDialog, Mounted, Reads
    <2>3. AllMild(entry') /\ entry' = Mount(Mounted') /\ Settled /\ UNCHANGED <<role, calm, edit>>
        BY <1>2, <2>2, DialogsOK DEF OpenDialog
    <2> QED BY <2>3, SameIsSame, OpeningCalm
<1>3. CASE CloseDialog
    <2>1. UNCHANGED <<role, page, entry, edit, calm>> /\ dialog' = FALSE
        BY <1>3 DEF CloseDialog
    <2>2. Mounted' \subseteq Mounted /\ Mounted \subseteq Mounted' \cup DialogQueries
        BY <2>1, MountedShrinks
    <2>3. Shown'
        BY <2>1, SameIsSame, ShownStays, MildChanges DEF CalmInv
    <2> QED BY <2>1, <2>2, <2>3 DEF CalmInv, Staying, InView, Kept, Read, Pending
<1> QED BY <1>1, <1>2, <1>3

LEMMA MountedSame ==
    ASSUME UNCHANGED <<role, page, dialog>>
    PROVE  Mounted' = Mounted
BY DEF Mounted, Reads

LEMMA AskedCalm ==
    ASSUME ConsoleAssumption, IInv, CalmInv, calm, Focus \/ \E q \in Queries : Answer(q) \/ Age(q)
    PROVE  CalmInv'
<1>1. UNCHANGED <<role, page, dialog, calm, edit>>
    BY DEF Focus, Answer, Age
<1>2. Mounted' = Mounted /\ SameEdits /\ \A n : Pending(n)' <=> Pending(n)
    BY <1>1, MountedSame, SameIsSame
<1>3. AllMild(entry')
    BY AskedAndAged
<1>4. \A q \in Queries : entry'[q].has = entry[q].has /\ (Busy(entry[q]) => Busy(entry'[q]))
    BY <1>3 DEF AllMild, Mild
<1>5. \A q \in Queries : Busy(entry'[q]) => Busy(entry[q]) \/ q \in Mounted
    <2>1. CASE Focus
        BY <2>1 DEF Focus, Mount
    <2>2. ASSUME NEW p \in Queries, Answer(p) \/ Age(p), NEW q \in Queries, Busy(entry'[q])
          PROVE  Busy(entry[q])
        <3>1. entry \in [Queries -> Entry]
            BY DEF IInv, EntriesOK
        <3>2. CASE q # p
            BY <2>2, <3>1, <3>2 DEF Answer, Age
        <3>3. CASE q = p /\ Answer(p)
            BY <3>3 DEF Answer, Busy
        <3>4. CASE q = p /\ Age(p)
            <4>1. entry'[q] = [entry[q] EXCEPT !.old = TRUE] /\ entry[q] \in Entry
                BY <3>1, <3>4 DEF Age
            <4> QED BY <2>2, <4>1 DEF Busy, Entry
        <3> QED BY <2>2, <3>2, <3>3, <3>4
    <2> QED BY <2>1, <2>2
<1>6. Shown'
    BY <1>2, <1>3, ShownStays DEF CalmInv
<1> QED BY <1>1, <1>2, <1>4, <1>5, <1>6 DEF CalmInv, Staying, InView, Kept, Read

LEMMA ReplacementsCalm ==
    ASSUME ConsoleAssumption, IInv, CalmInv, calm, NEW q \in Queries,
           Land(q) \/ Refuse(q) \/ Break(q) \/ Forget(q)
    PROVE  CalmInv'
<1>1. EntryOK(entry[q], q) /\ entry \in [Queries -> Entry]
    BY DEF IInv, EntriesOK
<1>2. UNCHANGED <<role, page, dialog, edit, calm>>
    BY DEF Land, Refuse, Break, Forget
<1>3. Mounted' = Mounted /\ \A n : Pending(n)' <=> Pending(n)
    BY <1>2, MountedSame, SameIsSame
<1> DEFINE f == entry'[q]
<1>4. /\ \A p \in Queries \ {q} : entry'[p] = entry[p]
      /\ ~ Busy(f) /\ f.late \subseteq entry[q].late /\ f.lacks \subseteq entry[q].late
      /\ q \in Mounted /\ Admits(role, Route[q]) => f.has
    <2>1. CASE Land(q)
        <3>1. f = [has |-> TRUE, lacks |-> entry[q].late, old |-> FALSE, fetch |-> "idle", late |-> {}]
              /\ entry' = [entry EXCEPT ![q] = f]
            BY <1>1, <2>1 DEF Land, Nothing
        <3> HIDE DEF f
        <3> QED BY <1>1, <3>1 DEF Busy
    <2>2. CASE Refuse(q)
        <3>1. f = [entry[q] EXCEPT !.fetch = "denied"] /\ entry' = [entry EXCEPT ![q] = f]
              /\ ~ Admits(role, Route[q])
            BY <1>1, <2>2 DEF Refuse
        <3> HIDE DEF f
        <3> QED BY <1>1, <3>1 DEF Busy, EntryOK, Entry
    <2>3. CASE Break(q)
        BY <2>3 DEF Break
    <2>4. CASE Forget(q)
        <3>1. f = [has |-> FALSE, lacks |-> {}, old |-> FALSE, fetch |-> "idle", late |-> {}]
              /\ entry' = [entry EXCEPT ![q] = f] /\ q \notin Mounted
            BY <1>1, <2>4 DEF Forget, Nothing
        <3> HIDE DEF f
        <3> QED BY <1>1, <3>1 DEF Busy
    <2> QED BY <2>1, <2>2, <2>3, <2>4
<1> HIDE DEF f
<1>5. \A n : Good(n, q) => Good(n, q)'
    BY <1>4 DEF Good, f
<1>6. \A n : \A p \in Queries : Good(n, p) => Good(n, p)'
    BY <1>4, <1>5 DEF Good
<1>7. Shown'
    BY <1>2, <1>6, ListsAreQueries DEF Shown, CalmInv
<1> QED BY <1>2, <1>3, <1>4, <1>7 DEF CalmInv, Staying, InView, Kept, Read, f

LEMMA SubmitCalm ==
    ASSUME ConsoleAssumption, IInv, CalmInv, calm, NEW op, Submit(op)
    PROVE  CalmInv'
<1>1. UNCHANGED <<role, page, dialog, entry, calm>> /\ Loaded /\ page # None
    BY DEF Submit
<1>2. Mounted' = Mounted
    BY <1>1, MountedSame
<1> DEFINE k == Len(edit) + 1
<1>3. /\ DOMAIN edit' = DOMAIN edit \cup {k}
      /\ edit'[k] = [op |-> op, from |-> page, here |-> TRUE, pc |-> "sent"]
      /\ \A n \in DOMAIN edit : edit'[n] = edit[n]
    BY SubmitOK
<1> HIDE DEF k
<1>4. edit'[k].pc = "sent" /\ edit'[k].from = page
    BY <1>3
<1>5. Staying'
    BY <1>1, <1>3, <1>4 DEF CalmInv, Staying, Pending
<1>6. Read'
    BY <1>1, <1>2 DEF CalmInv, Kept, Read, Loaded, Waiting, Busy
<1>7. Shown'
    BY <1>1, <1>3, <1>4 DEF CalmInv, Shown, Good
<1> QED BY <1>1, <1>2, <1>5, <1>6, <1>7 DEF CalmInv, InView, Kept

LEMMA CommitCalm ==
    ASSUME ConsoleAssumption, IInv, CalmInv, calm, NEW n \in DOMAIN edit, Commit(n)
    PROVE  CalmInv'
<1>1. UNCHANGED <<role, page, dialog, calm>> /\ edit[n].pc = "sent"
    BY DEF Commit
<1>2. Mounted' = Mounted
    BY <1>1, MountedSame
<1>3. edit[n] \in EditRow /\ \A q \in Queries : EntryOK(entry[q], q)
    BY DEF IInv, EditsOK, EntriesOK
<1>4. PICK pc \in {"done", "refused"} : Moved(n, pc)
    BY Carried
<1>5. /\ DOMAIN edit' = DOMAIN edit /\ edit'[n].pc \in {"done", "refused"}
      /\ edit'[n].from = edit[n].from
      /\ \A m \in DOMAIN edit \ {n} : edit'[m] = edit[m]
    <2>1. /\ DOMAIN edit' = DOMAIN edit /\ edit'[n] = [edit[n] EXCEPT !.pc = pc]
          /\ \A m \in DOMAIN edit \ {n} : edit'[m] = edit[m]
        BY <1>1, <1>4, EditMoved DEF Past
    <2> QED BY <1>3, <1>4, <2>1 DEF EditRow
<1>6. \A q \in Queries : /\ entry'[q].has = entry[q].has /\ entry'[q].old = entry[q].old
                         /\ entry'[q].fetch = entry[q].fetch
                         /\ entry'[q].lacks \subseteq entry[q].lacks \cup {n}
                         /\ entry'[q].late \subseteq entry[q].late \cup {n}
    <2> TAKE q \in Queries
    <2>1. entry[q] \in Entry
        BY <1>3 DEF EntryOK
    <2>2. entry'[q] = entry[q] \/ entry'[q] = Later(entry[q], n)
        BY Carried
    <2> DEFINE f == Later(entry[q], n)
    <2>3. /\ f.has = entry[q].has /\ f.old = entry[q].old /\ f.fetch = entry[q].fetch
          /\ f.lacks \subseteq entry[q].lacks \cup {n} /\ f.late \subseteq entry[q].late \cup {n}
        BY <2>1 DEF Later, Entry
    <2> HIDE DEF f
    <2> QED BY <2>2, <2>3 DEF f
<1>7. Shown'
    <2>1. \A m \in DOMAIN edit \ {n} : \A q \in Queries : Good(m, q) => Good(m, q)'
        BY <1>6 DEF Good, Busy
    <2> QED BY <1>5, <2>1, ListsAreQueries DEF CalmInv, Shown
<1>8. Pending(n) /\ \A m \in DOMAIN edit : Pending(m)' => Pending(m)
    BY <1>1, <1>5 DEF Pending
<1>9. Staying'
    BY <1>1, <1>5, <1>8 DEF CalmInv, Staying
<1> QED BY <1>1, <1>2, <1>5, <1>6, <1>7, <1>8, <1>9 DEF CalmInv, InView, Kept, Read, Busy

\* A list on the screen that is asked for again while a change is under way.
LEMMA RenewedIsGood ==
    ASSUME NEW q, NEW e, EntryOK(e, q), Admits(role, Route[q]) => e.has
    PROVE  /\ Renewed(e).late = {}
           /\ e.lacks # {} => Busy(Renewed(e))
<1>1. e \in Entry /\ (e.late # {} => e.fetch = "answered" /\ Admits(role, Route[q]))
      /\ (~ e.has => e.lacks = {})
    BY DEF EntryOK
<1>2. Asked(e).late = {} /\ Busy(Asked(e))
    BY <1>1 DEF Asked, Busy, Entry
<1> QED BY <1>1, <1>2 DEF Renewed

\* A change whose list is declared out of date when it is acknowledged.
LEMMA InvalidatedIsGood ==
    ASSUME IInv, CalmInv, calm, NEW n \in DOMAIN edit, Pending(n), NEW q, q = ListOf(edit[n].op),
           entry' = Invalidate(Refreshes(edit[n].from, edit[n].op)),
           q \in Touches(edit[n].op) => q \in Refreshes(edit[n].from, edit[n].op)
    PROVE  Good(n, q)'
<1> DEFINE e == entry[q]
           marked == [e EXCEPT !.old = e.has]
<1>1. q \in Queries \ DialogQueries
    BY ListsAreQueries
<1>2. EntryOK(e, q) /\ AllMild(entry')
    BY <1>1, MildChanges DEF IInv, EntriesOK
<1>3. (n \in entry'[q].lacks => n \in e.lacks) /\ (n \in entry'[q].late => n \in e.late)
    BY <1>1, <1>2 DEF AllMild, Mild
<1>4. CASE q \notin Touches(edit[n].op)
    <2>1. n \notin e.lacks \cup e.late
        BY <1>1, <1>4 DEF IInv, CommittedOK
    <2> HIDE DEF e
    <2>2. n \notin entry'[q].lacks /\ n \notin entry'[q].late
        BY <1>3, <2>1
    <2> QED BY <2>2 DEF Good
<1>5. CASE q \in Touches(edit[n].op)
    <2>1. entry'[q] = IF q \in Mounted THEN Renewed(marked) ELSE marked
        BY <1>1, <1>5 DEF Invalidate
    <2>2. EntryOK(marked, q) /\ marked.has = e.has /\ marked.lacks = e.lacks /\ marked.late = e.late
          /\ marked.old = e.has /\ marked.fetch = e.fetch
        BY <1>2 DEF EntryOK, Entry
    <2> HIDE DEF marked, e
    <2>3. CASE q \in Mounted
        <3>1. Admits(role, Route[q]) => e.has
            BY <1>1, <2>3 DEF CalmInv, Read, e
        <3>2. Renewed(marked).late = {} /\ (marked.lacks # {} => Busy(Renewed(marked)))
            BY <2>2, <3>1, RenewedIsGood
        <3> QED BY <1>3, <2>1, <2>2, <2>3, <3>2 DEF Good
    <2>4. CASE q \notin Mounted
        <3>1. ~ Busy(e)
            BY <1>1, <2>4 DEF CalmInv, InView, e
        <3>2. e.late = {} /\ (e.lacks # {} => e.has)
            BY <1>2, <3>1 DEF EntryOK, Busy
        <3> QED BY <1>3, <2>1, <2>2, <2>4, <3>2 DEF Good
    <2> QED BY <2>3, <2>4
<1> QED BY <1>4, <1>5

\* What is shown of change n when the client has its answer.
LEMMA AnswerIsShown ==
    ASSUME ConsoleAssumption, IInv, CalmInv, calm, NEW n \in DOMAIN edit, NEW q, q = ListOf(edit[n].op),
           \/ Acknowledge(n) /\ (edit[n].from = "product" => q = "product")
           \/ FinishRefetch(n)
    PROVE  Good(n, q)'
<1>1. edit[n].from \in AllPages /\ edit[n].op \in Wares[edit[n].from]
    <2>1. edit[n] \in EditRow /\ Fits(edit[n])
        BY DEF IInv, EditsOK
    <2> QED BY <2>1 DEF EditRow, Fits
<1>2. q \in Touches(edit[n].op) =>
         q \in Refreshes(edit[n].from, edit[n].op) \/ (edit[n].from = "product" /\ q = "product")
    BY <1>1, ListsRefreshed
<1>3. q \in Queries /\ Pending(n) /\ edit[n].from = page
    BY ListsAreQueries DEF Acknowledge, FinishRefetch, Pending, CalmInv, Staying
<1>4. CASE Acknowledge(n) /\ edit[n].from = "product"
    <2>1. q = "product" /\ entry' = [entry EXCEPT !["product"] = Renewed(entry["product"])]
        BY <1>4 DEF Acknowledge, FinishRefetch, Refetch
    <2>2. "product" \in Mounted
        BY <1>1, <1>3, <1>4 DEF Mounted, Reads, Main, ConsoleAssumption
    <2>3. EntryOK(entry[q], q) /\ entry \in [Queries -> Entry]
        BY <1>3 DEF IInv, EntriesOK
    <2>4. Admits(role, Route[q]) => entry[q].has
        BY <1>3, <2>1, <2>2 DEF CalmInv, Read
    <2>5. entry'[q] = Renewed(entry[q])
        BY <1>3, <2>1, <2>3
    <2>6. entry'[q].late = {} /\ (entry[q].lacks # {} => Busy(entry'[q]))
        BY <2>3, <2>4, <2>5, RenewedIsGood
    <2>7. entry'[q].lacks = entry[q].lacks
        BY <2>3, <2>5, MildFunctions DEF Mild
    <2> QED BY <2>6, <2>7 DEF Good
<1>5. CASE FinishRefetch(n) /\ q = "product"
    <2>1. edit[n].pc = "refetching" /\ AllMild(entry')
        BY <1>5, AnswersOK DEF FinishRefetch
    <2>2. Good(n, q)
        BY <1>5, <2>1 DEF CalmInv, Shown
    <2> QED BY <1>3, <2>1, <2>2, GoodStays
<1>6. CASE (Acknowledge(n) /\ edit[n].from # "product") \/ (FinishRefetch(n) /\ q # "product")
    <2>1. entry' = Invalidate(Refreshes(edit[n].from, edit[n].op))
        BY <1>6 DEF Acknowledge, FinishRefetch
    <2>2. q \in Touches(edit[n].op) => q \in Refreshes(edit[n].from, edit[n].op)
        BY <1>2, <1>6
    <2> QED BY <1>3, <2>1, <2>2, InvalidatedIsGood
<1> QED BY <1>4, <1>5, <1>6

LEMMA AnswersCalm ==
    ASSUME ConsoleAssumption, IInv, CalmInv, calm, NEW n \in DOMAIN edit,
           Acknowledge(n) \/ FinishRefetch(n) \/ Complain(n)
    PROVE  CalmInv'
<1>1. UNCHANGED <<role, page, calm>> /\ dialog' \in BOOLEAN /\ (dialog' => dialog)
    <2>1. UNCHANGED <<role, page, calm>>
        BY DEF Acknowledge, FinishRefetch, Complain
    <2>2. dialog' = (dialog /\ ~ Closes(n)) \/ dialog' = dialog
        BY DEF Acknowledge, FinishRefetch, Complain
    <2>3. dialog' \in BOOLEAN
        BY DEF Acknowledge, FinishRefetch, Complain, IInv, PlaceOK
    <2>4. dialog' => dialog
        BY <2>2
    <2> QED BY <2>1, <2>3, <2>4
<1>2. Mounted' \subseteq Mounted /\ Mounted \subseteq Mounted' \cup DialogQueries
    BY <1>1, MountedShrinks
<1>3. AllMild(entry')
    BY AnswersOK
<1>4. PICK pc \in {"refetching", "over", "failed"} :
         /\ Moved(n, pc) /\ (pc = "refetching" => edit[n].from = "product")
         /\ pc = "refetching" => Acknowledge(n)
         /\ pc = "over" => FinishRefetch(n) \/ (Acknowledge(n) /\ edit[n].from # "product")
    BY DEF Acknowledge, FinishRefetch, Complain
<1>5. /\ DOMAIN edit' = DOMAIN edit /\ edit'[n] = [edit[n] EXCEPT !.pc = pc]
      /\ \A m \in DOMAIN edit \ {n} : edit'[m] = edit[m]
    BY <1>1, <1>4, EditMoved DEF Past
<1>6. edit'[n].pc = pc /\ edit'[n].op = edit[n].op /\ edit'[n].from = edit[n].from
    <2>1. edit[n] \in EditRow
        BY DEF IInv, EditsOK
    <2> QED BY <1>5, <2>1 DEF EditRow
<1>7. Pending(n) /\ \A m \in DOMAIN edit : Pending(m)' => Pending(m)
    BY <1>5 DEF Acknowledge, FinishRefetch, Complain, Pending
<1>8. Staying'
    BY <1>1, <1>5, <1>6, <1>7 DEF CalmInv, Staying
<1>9. \A q \in Queries : Busy(entry'[q]) => Busy(entry[q]) \/ q \in Mounted
    <2>1. \A Q : \A q \in Queries : q \notin Mounted /\ Busy(Invalidate(Q)[q]) => Busy(entry[q])
        <3>1. \A q \in Queries : entry[q] \in Entry
            BY DEF IInv, EntriesOK
        <3>2. \A q \in Queries : [entry[q] EXCEPT !.old = entry[q].has].fetch = entry[q].fetch
            BY <3>1 DEF Entry
        <3> QED BY <3>2 DEF Invalidate, Busy
    <2>2. CASE entry' = Refetch("product") /\ edit[n].from = "product"
        <3>1. "product" \in Mounted
            BY <1>7, <2>2 DEF CalmInv, Staying, Mounted, Reads, Main, AllPages, ConsoleAssumption
        <3> QED BY <2>2, <3>1 DEF Refetch, IInv, EntriesOK
    <2>3. \/ entry' = Refetch("product") /\ edit[n].from = "product"
          \/ entry' = Invalidate(Refreshes(edit[n].from, edit[n].op))
          \/ entry' = entry
        BY DEF Acknowledge, FinishRefetch, Complain
    <2> QED BY <2>1, <2>2, <2>3
<1>10. InView' /\ Kept'
    <2>1. \A q \in Queries : entry'[q].has = entry[q].has /\ (Busy(entry[q]) => Busy(entry'[q]))
        BY <1>3 DEF AllMild, Mild
    <2> QED BY <1>1, <1>2, <1>9, <2>1 DEF CalmInv, InView, Kept
<1>11. Read'
    <2>1. \A q \in Queries : entry'[q].has = entry[q].has
        BY <1>3 DEF AllMild, Mild
    <2> QED BY <1>1, <1>2, <1>7, <2>1 DEF CalmInv, Read
<1>12. Shown'
    <2>1. \A m \in DOMAIN edit \ {n} : edit'[m] = edit[m] /\ ListOf(edit[m].op) \in Queries
        BY <1>5, ListsAreQueries
    <2>2. \A m : \A q \in Queries : Good(m, q) => Good(m, q)'
        BY <1>3, GoodStays
    <2>3. ASSUME NEW q, q = ListOf(edit[n].op), pc = "over" \/ (pc = "refetching" /\ q = "product")
          PROVE  Good(n, q)'
        BY <1>4, <2>3, AnswerIsShown
    <2>4. ASSUME NEW m \in DOMAIN edit', NEW q, q = ListOf(edit'[m].op),
                 edit'[m].pc = "over" \/ (edit'[m].pc = "refetching" /\ q = "product")
          PROVE  Good(m, q)'
        BY <1>5, <1>6, <2>1, <2>2, <2>3, <2>4 DEF CalmInv, Shown
    <2> QED BY <2>4 DEF Shown, Good
<1> QED BY <1>8, <1>10, <1>11, <1>12 DEF CalmInv

\* A window that is loaded anew is calm again.
LEMMA RestartsCalm ==
    ASSUME ConsoleAssumption, IInv, CalmInv, calm,
           (\E p \in Pages : Reload(p)) \/ (\E n \in DOMAIN edit : LeaveForShopify(n))
    PROVE  CalmInv'
<1>1. Restarted
    BY WindowRestarts
<1>2. PICK Q : Q = Mounted'
    OBVIOUS
<1>3. \A q \in Queries : /\ entry'[q].lacks = {} /\ entry'[q].late = {}
                         /\ entry'[q].fetch = IF q \in Q THEN "asked" ELSE "idle"
    BY <1>1, <1>2, FreshEntries DEF Restarted
<1>4. Staying' /\ Read'
    BY <1>1 DEF Restarted, Staying, Read
<1>5. InView' /\ Kept'
    BY <1>2, <1>3 DEF InView, Kept, Busy
<1>6. Shown'
    <2>1. \A n \in DOMAIN edit' : ListOf(edit'[n].op) \in Queries
        BY <1>1, ListsAreQueries DEF Restarted
    <2> QED BY <1>3, <2>1 DEF Shown, Good
<1> QED BY <1>4, <1>5, <1>6 DEF CalmInv

LEMMA CalmInductive ==
    ASSUME ConsoleAssumption, IInv, CalmInv, [Next]_vars
    PROVE  CalmInv'
<1>1. calm' = calm
    BY DEF Next, vars, Visit, OpenDialog, CloseDialog, Focus, Answer, Land, Refuse, Break, Age,
           Forget, Submit, Commit, Acknowledge, FinishRefetch, Complain, Reload, LeaveForShopify
<1>2. SUFFICES ASSUME calm PROVE CalmInv'
    BY <1>1 DEF CalmInv
<1>3. CASE UNCHANGED vars
    <2>1. Mounted' = Mounted
        BY <1>3, MountedSame DEF vars
    <2> QED BY <1>3, <2>1 DEF vars, CalmInv, Staying, InView, Kept, Read, Shown, Good, Pending
<1>4. ASSUME NEW p \in Pages, Visit(p) PROVE CalmInv'
    BY <1>2, <1>4, MovesCalm
<1>5. CASE OpenDialog \/ CloseDialog
    BY <1>2, <1>5, MovesCalm
<1>6. CASE Focus
    BY <1>2, <1>6, AskedCalm
<1>7. ASSUME NEW q \in Queries, Answer(q) \/ Land(q) \/ Refuse(q) \/ Break(q) \/ Age(q) \/ Forget(q)
      PROVE  CalmInv'
    BY <1>2, <1>7, AskedCalm, ReplacementsCalm
<1>8. ASSUME NEW op, Submit(op) PROVE CalmInv'
    BY <1>2, <1>8, SubmitCalm
<1>9. ASSUME NEW n \in DOMAIN edit, Commit(n) \/ Acknowledge(n) \/ FinishRefetch(n) \/ Complain(n)
      PROVE  CalmInv'
    BY <1>2, <1>9, CommitCalm, AnswersCalm
<1>10. CASE (\E p \in Pages : Reload(p)) \/ (\E n \in DOMAIN edit : LeaveForShopify(n))
    BY <1>2, <1>10, RestartsCalm
<1> QED BY <1>3, <1>4, <1>5, <1>6, <1>7, <1>8, <1>9, <1>10 DEF Next

\* A user who waits sees what he has done: once a change has been confirmed, no page shows
\* the list it belongs to without it, unless that list is being asked for again or will be
\* when it is shown (OrdersPage.tsx:42-51, ShopifyPage.tsx:25, ProductDetailPage.tsx:56-81),
\* for any number of changes, moves and pages.
THEOREM OwnChangesAreShown == ASSUME ConsoleAssumption PROVE Spec => []OwnChangesShown
<1>1. Init => CalmInv
    BY InitCalm
<1>2. IInv /\ CalmInv /\ [Next]_vars => CalmInv'
    BY CalmInductive
<1>3. CalmInv => OwnChangesShown
    BY DEF CalmInv, Shown, Good, Busy, OwnChangesShown
<1> QED BY <1>1, <1>2, <1>3, Invariance, PTL DEF Spec

===============================================================================
