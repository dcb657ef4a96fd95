----------------------------- MODULE Storefront -----------------------------
(***************************************************************************)
(* The catalogue together with what comes in from Shopify: connecting a    *)
(* store to a shop (startShopifyOAuth, completeShopifyOAuth) and the       *)
(* orders/ webhooks of the connected shops (handleShopifyWebhook).         *)
(*                                                                         *)
(* ChannelImport follows an import through all its statements; here it is  *)
(* one write, because what matters is the connection it was found for, the *)
(* store's state and the payment status.  A connection is a store's row of *)
(* ChannelConnection; only OAuth creates it and nothing takes it away.     *)
(***************************************************************************)
EXTENDS Catalog

CONSTANTS
    Shops,          \* Shopify shop domains
    ShopifyStores,  \* stores whose channelType is SHOPIFY
    OpeningShop,    \* OpeningShop[s]: the shop store s is connected to, or None
    OpeningInvited  \* stores that were invited before the start

VARIABLES
    shop,           \* shop[s]: externalStoreId of the connection of store s, or None
    invited         \* stores with an OAuth state token that has not expired

links == <<shop, invited>>
vars == <<catalog, shops, orders, audit, req, links>>

\* In a webhook, ext is the shop's order id, status what financial_status says, and the
\* lines are the SKUs its items are mapped to.
ChannelJobs ==
    UNION { [op : {"startOAuth"}, store : Stores],
            [op : {"completeOAuth"}, store : Stores, shop : Shops],
            [op : {"webhook"}, shop : Shops, ext : Externals, lines : SUBSET Skus,
             no : Numbers, status : {"PENDING_PAYMENT", "PAID"}] }

ASSUME StorefrontAssumption ==
    /\ Jobs \subseteq CatalogJobs \cup ChannelJobs
    /\ Stocked \subseteq Skus /\ ShopifyStores \subseteq Stores
    /\ None \notin Statuses \cup Stores \cup Products \cup Names \cup Externals \cup Shops
    /\ OpeningProduct \in [Products -> Statuses \cup {None}]
    /\ OpeningSku \in [Skus -> SkuRow]
    /\ OpeningStore \in [Stores -> StoreRow]
    /\ OpeningShop \in [ShopifyStores -> Shops \cup {None}]
    /\ OpeningInvited \subseteq ShopifyStores
    /\ \A s \in OpeningInvited : OpeningStore[s].name # None
    /\ \A s, t \in Skus : OpeningSku[s].of # None =>
          /\ OpeningProduct[OpeningSku[s].of] # None
          /\ s # t => OpeningSku[t] # OpeningSku[s]
    /\ \A s, t \in Stores : OpeningStore[s].name # None /\ s # t
                              => OpeningStore[t].name # OpeningStore[s].name
    /\ \A r, q \in Jobs : r.op = "webhook" /\ q.op = "webhook" /\ r.ext = q.ext
                             => r.shop = q.shop     \* Shopify's ids are global

Init ==
    /\ CatalogInit
    /\ shop = OpeningShop
    /\ invited = OpeningInvited

-----------------------------------------------------------------------------
\* The token is a signed JWT: no row is written, and it may be used more than once.
StartOAuth(r) == LET s == Job(r).store IN
    /\ At(r, "check", "startOAuth")
    /\ IF s \in ShopifyStores /\ StoreExists(s) /\ store[s].active
       THEN invited' = invited \cup {s} /\ Go(r, "ok")
       ELSE invited' = invited /\ Go(r, "rejected")
    /\ UNCHANGED <<catalog, shops, orders, audit, shop>>

\* The token is verified and the store is read again, but not whether it is active; then
\* Shopify is asked for an access token.
CheckOAuth(r) ==
    /\ At(r, "check", "completeOAuth")
    /\ Go(r, IF Job(r).store \in invited THEN "write" ELSE "rejected")
    /\ UNCHANGED <<catalog, shops, orders, audit, links>>

CompleteOAuth(r) ==
    /\ At(r, "write", "completeOAuth")
    /\ shop' = [shop EXCEPT ![Job(r).store] = Job(r).shop]
    /\ Go(r, "audit")
    /\ UNCHANGED <<catalog, shops, orders, audit, invited>>

\* Ten minutes have passed.
ExpireInvitation(s) ==
    /\ s \in invited
    /\ invited' = invited \ {s}
    /\ UNCHANGED <<catalog, shops, orders, audit, req, shop>>

\* Nothing makes a shop belong to one store: any connection with its domain will do.
FindConnection(r) ==
    /\ At(r, "check", "webhook")
    /\ \/ \E s \in ShopifyStores : shop[s] = Job(r).shop /\ Step(r, "ensure", s)
       \/ (\A s \in ShopifyStores : shop[s] # Job(r).shop) /\ Go(r, "ok")
    /\ UNCHANGED <<catalog, shops, orders, audit, links>>

\* An inactive store is an error, and Shopify will deliver the event again.
EnsureConnection(r) ==
    /\ At(r, "ensure", "webhook")
    /\ Go(r, IF store[req[r].saw].active THEN "write" ELSE "rejected")
    /\ UNCHANGED <<catalog, shops, orders, audit, links>>

KnownOrder_ByNumber(s, j) == \E o \in orders : o.store = s /\ o.no = j.no
KnownOrder(s, j) == \E o \in orders : o.store = s /\ o.ext = j.ext

\* The import: an order with its audit row, or nothing but a log row that says why not; the
\* event is answered as accepted in either case, unless one of the writes still to come
\* fails.  An order that is known is not touched, whatever has become of its payment.
ImportOrder(r) == LET s == req[r].saw  j == Job(r) IN
    /\ At(r, "write", "webhook")
    /\ IF ~ KnownOrder(s, j) /\ j.lines # {} /\ Insertable(j)
       THEN InsertOrder(r, s, j.ext)
       ELSE UNCHANGED <<orders, audit>>
    /\ Go(r, "reply")
    /\ UNCHANGED <<catalog, shops, links>>

Next ==
    \/ CatalogNext /\ UNCHANGED links
    \/ \E r \in Requests :
          \/ StartOAuth(r) \/ CheckOAuth(r) \/ CompleteOAuth(r)
          \/ FindConnection(r) \/ EnsureConnection(r) \/ ImportOrder(r)
    \/ \E s \in Stores : ExpireInvitation(s)

Spec == Init /\ [][Next]_vars

-----------------------------------------------------------------------------
(***************************************************************************)
(* Properties.                                                             *)
(***************************************************************************)

\* Types; SKUs, warehouses and order lines refer to rows that exist, and codes, names and
\* order numbers that must differ do.
TypeOK ==
    /\ product \in [Products -> Statuses \cup {None}]
    /\ sku \in [Skus -> SkuRow] /\ store \in [Stores -> StoreRow]
    /\ warehouse \in [Warehouses -> WarehouseRow]
    /\ orders \subseteq OrderRow /\ audit \in Seq(AuditRow)
    /\ \A r \in Requests :
          /\ req[r].pc \in {"idle", "check", "ensure", "write", "audit", "reply"} \cup Final
          /\ req[r].job \in Jobs \cup {None}
          /\ req[r].saw \in Statuses \cup Stores \cup {None}
    /\ shop \in [ShopifyStores -> Shops \cup {None}] /\ invited \subseteq ShopifyStores
    /\ \A s \in Skus : SkuExists(s) => ProductExists(sku[s].of)
                                       /\ CodeFree(sku[s].of, s, sku[s].code)
    /\ \A s \in Stores : StoreExists(s) => StoreNameFree(s, store[s].name)
    /\ \A w \in Warehouses : WarehouseExists(w) =>
          StoreExists(warehouse[w].at) /\ WarehouseNameFree(w, warehouse[w].at, warehouse[w].name)
    /\ \A o, q \in orders : o.no = q.no => o = q
    /\ \A o \in orders : o.lines # {} /\ \A s \in o.lines : SkuExists(s)

Rows(r) == {i \in DOMAIN audit : audit[i].by = r}

\* The audit log, whatever fails and overlaps: an order and its audit row stand or fall
\* together (order.service.ts:73-91, channel.service.ts:75-95), even when the request fails
\* after the commit; no change is audited twice, none before it is made; and a request that
\* was answered as a success has left its row, so that only requests that ended in an error
\* can have changed something without a trace.
AuditFollowsWrites ==
    \A r \in Requests :
        /\ \A i, j \in Rows(r) : i = j
        /\ (\E o \in orders : o.by = r) => Rows(r) # {}
        /\ Rows(r) # {} =>
              /\ req[r].pc \in {"reply", "ok", "failed"}
              /\ Job(r).op \in {"createOrder", "webhook"} => \E o \in orders : o.by = r
        /\ req[r].pc = "ok" /\ Job(r).op \notin {"startOAuth", "webhook"}
           /\ (Job(r).op = "updateStatus" => req[r].saw # None) => Rows(r) # {}

\* The requests that set out to change the status of product p.
Reviewers(p) == {r \in Requests : /\ req[r].pc # "idle" /\ Job(r).op = "updateStatus"
                                /\ Job(r).product = p /\ req[r].saw # None}

\* The changes of its status that the log shows, as pairs of statuses.
Logged(p) == {<<audit[i].from, audit[i].to>> : i \in {k \in DOMAIN audit : audit[k].by \in Reviewers(p)}}

\* Those it does not show: the row is still to be written, or the request failed.
Unlogged(p) ==
    LET silent == {r \in Reviewers(p) : req[r].pc \in {"audit", "failed"} /\ Rows(r) = {}}
    IN  {<<req[r].saw, Job(r).to>> : r \in silent}

FirstStatus(p) == IF OpeningProduct[p] = None THEN "DRAFT" ELSE OpeningProduct[p]

\* A set of statuses that holds the first one and that no move leads out of.
Closed(T, first, moves) == first \in T /\ \A m \in moves : m[1] \in T => m[2] \in T

\* The review of a product is in its audit log (product.service.ts:84-93), whatever overlaps
\* and fails: every logged change is a legal one from a status the product came to by
\* changes that are logged or whose request ended in an error, and so is its present status.
\* A draft is PUBLISHED only if somebody asked for its review and somebody approved it;
\* though two changes that overlap may both start from the same status, in the log too.
ReviewTrail ==
    \A p \in Products :
        LET logged == Logged(p)  moves == logged \cup Unlogged(p) IN
        /\ \A m \in logged : m[2] \in Transitions[m[1]]
        /\ \A T \in SUBSET Statuses : Closed(T, FirstStatus(p), moves) =>
              /\ \A m \in logged : m[1] \in T
              /\ product[p] # None => product[p] \in T

Linked(s) == ({OpeningShop[s]} \ {None}) \cup
             {Job(r).shop : r \in {q \in Requests : req[q].pc \in {"audit", "ok", "failed"}
                                    /\ Job(q).op = "completeOAuth" /\ Job(q).store = s}}

\* As long as no shop was ever connected to two stores, an order of a shop becomes one
\* order, however its events overlap, repeat or fail (channel.service.ts:166).  With two
\* stores, the database picks either connection for an event.
ShopOrderOnce ==
    (\A s, t \in ShopifyStores : s # t => Linked(s) \cap Linked(t) = {}) =>
        \A o, q \in orders : o.ext # None /\ o.ext = q.ext => o = q
=============================================================================
