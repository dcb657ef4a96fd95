-------------------------- MODULE Storefront_proofs --------------------------
(***************************************************************************)
(* Proofs about Storefront, for any tables, requests and overlaps.         *)
(***************************************************************************)
EXTENDS Storefront, TLAPS

-----------------------------------------------------------------------------
(***************************************************************************)
(* What the requests carry.                                                *)
(***************************************************************************)
Orders(j) == j.lines \subseteq Skus /\ j.no \in Numbers /\ j.status \in {"PENDING_PAYMENT", "PAID"}

JobOK(j) ==
    /\ j.op \in {"createProduct", "updateProduct", "updateStatus", "addSku", "updateSku", "deleteSku",
                 "createOrder", "createStore", "updateStore", "createWarehouse", "updateWarehouse",
                 "startOAuth", "completeOAuth", "webhook"}
    /\ j.op = "createProduct" => /\ j.product \in Products
                                 /\ \E S \in SUBSET Skus : j.codes \in [S -> Codes]
    /\ j.op = "updateStatus" => j.to \in Statuses
    /\ j.op \in {"updateProduct", "updateStatus", "addSku", "updateSku", "deleteSku"}
          => j.product \in Products
    /\ j.op \in {"addSku", "updateSku", "deleteSku"} => j.sku \in Skus
    /\ j.op \in {"addSku", "updateSku"} => j.code \in Codes
    /\ j.op \in {"createOrder", "createStore", "updateStore", "createWarehouse",
                 "startOAuth", "completeOAuth"} => j.store \in Stores
    /\ j.op \in {"createStore", "updateStore", "createWarehouse", "updateWarehouse"} => j.name \in Names
    /\ j.op = "updateStore" => j.active \in BOOLEAN
    /\ j.op \in {"createWarehouse", "updateWarehouse"} => j.warehouse \in Warehouses
    /\ j.op \in {"createOrder", "webhook"} => Orders(j)
    /\ j.op \in {"completeOAuth", "webhook"} => j.shop \in Shops
    /\ j.op = "webhook" => j.ext \in Externals

CatalogOps == {"createProduct", "updateProduct", "updateStatus", "addSku", "updateSku", "deleteSku",
               "createOrder", "createStore", "updateStore", "createWarehouse", "updateWarehouse"}

LEMMA CatalogJobTypes ==
    ASSUME NEW j \in CatalogJobs
    PROVE  JobOK(j) /\ j.op \in CatalogOps
<1>1. CASE j \in [op : {"createProduct"}, product : Products, codes : UNION {[S -> Codes] : S \in SUBSET Skus}]
    BY <1>1 DEF JobOK, CatalogOps
<1>2. CASE j \in [op : {"updateProduct"}, product : Products]
    BY <1>2 DEF JobOK, CatalogOps
<1>3. CASE j \in [op : {"updateStatus"}, product : Products, to : Statuses]
    BY <1>3 DEF JobOK, CatalogOps
<1>4. CASE j \in [op : {"addSku", "updateSku"}, product : Products, sku : Skus, code : Codes]
    BY <1>4 DEF JobOK, CatalogOps
<1>5. CASE j \in [op : {"deleteSku"}, product : Products, sku : Skus]
    BY <1>5 DEF JobOK, CatalogOps
<1>6. CASE j \in [op : {"createOrder"}, store : Stores, lines : SUBSET Skus, no : Numbers,
                  status : {"PENDING_PAYMENT", "PAID"}]
    BY <1>6 DEF JobOK, CatalogOps, Orders
<1>7. CASE j \in [op : {"createStore"}, store : Stores, name : Names]
    BY <1>7 DEF JobOK, CatalogOps
<1>8. CASE j \in [op : {"updateStore"}, store : Stores, name : Names, active : BOOLEAN]
    BY <1>8 DEF JobOK, CatalogOps
<1>9. CASE j \in [op : {"createWarehouse"}, warehouse : Warehouses, store : Stores, name : Names]
    BY <1>9 DEF JobOK, CatalogOps
<1>10. CASE j \in [op : {"updateWarehouse"}, warehouse : Warehouses, name : Names]
    BY <1>10 DEF JobOK, CatalogOps
<1> QED BY <1>1, <1>2, <1>3, <1>4, <1>5, <1>6, <1>7, <1>8, <1>9, <1>10
        DEF CatalogJobs, ProductJobs, OrderJobs, StoreJobs

LEMMA JobTypes ==
    ASSUME StorefrontAssumption, NEW j \in Jobs
    PROVE  JobOK(j)
<1>1. j \in CatalogJobs \/ j \in ChannelJobs
    BY DEF StorefrontAssumption
<1>2. CASE j \in CatalogJobs
    BY <1>2, CatalogJobTypes
<1>3. CASE j \in ChannelJobs
    <2>1. CASE j \in [op : {"startOAuth"}, store : Stores]
        BY <2>1 DEF JobOK
    <2>2. CASE j \in [op : {"completeOAuth"}, store : Stores, shop : Shops]
        BY <2>2 DEF JobOK
    <2>3. CASE j \in [op : {"webhook"}, shop : Shops, ext : Externals, lines : SUBSET Skus,
                      no : Numbers, status : {"PENDING_PAYMENT", "PAID"}]
        BY <2>3 DEF JobOK, Orders
    <2> QED BY <1>3, <2>1, <2>2, <2>3 DEF ChannelJobs
<1> QED BY <1>1, <1>2, <1>3

-----------------------------------------------------------------------------
(***************************************************************************)
(* What each request keeps in memory.                                      *)
(***************************************************************************)
Pcs == {"idle", "check", "ensure", "write", "audit", "reply"} \cup Final

\* Row q of req; no table is mentioned.
RowOK(q) ==
    /\ q.pc \in Pcs /\ q.job \in Jobs \cup {None} /\ q.saw \in Statuses \cup Stores \cup {None}
    /\ q.pc # "idle" => q.job \in Jobs
    /\ q.pc \in {"idle", "check"} => q.saw = None
    /\ q.pc = "ensure" => q.job.op = "webhook"
    /\ q.pc \in {"ensure", "write"} /\ q.job.op = "webhook" => q.saw \in ShopifyStores
    /\ q.pc \in {"write", "audit"} /\ q.job.op = "updateStatus" => q.saw \in Statuses
    /\ q.pc = "write" => q.job.op # "startOAuth"
    /\ q.pc = "write" /\ q.job.op = "createOrder" => q.job.lines # {}
    /\ q.pc = "audit" => q.job.op \notin {"createOrder", "webhook", "startOAuth"}
    /\ q.pc = "reply" => \/ q.job.op \in {"createOrder", "webhook"}
                         \/ q.job.op = "updateStatus" /\ q.saw = None

ReqsOK ==
    /\ req = [r \in Requests |-> req[r]]
    /\ \A r \in Requests : RowOK(req[r])

\* Request r moves on from where it is; what it is asked for stays.
Moves(r, next, saw) ==
    /\ req'[r].pc = next /\ req'[r].saw = saw /\ req'[r].job = req[r].job
    /\ \A q \in Requests \ {r} : req'[q] = req[q]

LEMMA StepMoves ==
    ASSUME ReqsOK, NEW r \in Requests, NEW next, NEW saw, Step(r, next, saw),
           RowOK([pc |-> next, job |-> Job(r), saw |-> saw])
    PROVE  ReqsOK' /\ Moves(r, next, saw)
<1> DEFINE row == [pc |-> next, job |-> Job(r), saw |-> saw]
<1>1. row.pc = next /\ row.job = req[r].job /\ row.saw = saw /\ RowOK(row)
    BY DEF Job
<1>2. req' = [req EXCEPT ![r] = row]
    BY DEF Step
<1> HIDE DEF row
<1>3. req' = [q \in Requests |-> IF q = r THEN row ELSE req[q]]
    BY <1>2 DEF ReqsOK
<1> QED BY <1>1, <1>3 DEF ReqsOK, Moves

LEMMA ReceiveMoves ==
    ASSUME StorefrontAssumption, ReqsOK, NEW r \in Requests, Receive(r)
    PROVE  /\ ReqsOK' /\ req'[r].pc = "check" /\ req'[r].saw = None /\ req'[r].job \in Jobs
           /\ \A q \in Requests \ {r} : req'[q] = req[q]
<1>1. PICK j \in Jobs : req' = [req EXCEPT ![r] = [pc |-> "check", job |-> j, saw |-> None]]
    BY DEF Receive
<1> DEFINE row == [pc |-> "check", job |-> j, saw |-> None]
<1>2. RowOK(row)
    BY DEF RowOK, Pcs
<1>3. row.pc = "check" /\ row.saw = None /\ row.job \in Jobs
    OBVIOUS
<1> HIDE DEF row
<1>4. req' = [q \in Requests |-> IF q = r THEN row ELSE req[q]]
    BY <1>1 DEF ReqsOK, row
<1> QED BY <1>2, <1>3, <1>4 DEF ReqsOK

-----------------------------------------------------------------------------
(***************************************************************************)
(* The tables: their types, what refers to what, and which rows never go.  *)
(***************************************************************************)
TablesOK ==
    /\ product \in [Products -> Statuses \cup {None}]
    /\ sku \in [Skus -> SkuRow] /\ store \in [Stores -> StoreRow]
    /\ warehouse \in [Warehouses -> WarehouseRow]
    /\ orders \subseteq OrderRow /\ audit \in Seq(AuditRow)
    /\ shop \in [ShopifyStores -> Shops \cup {None}] /\ invited \subseteq ShopifyStores

SkusRefer == \A s \in Skus : SkuExists(s) =>
    ProductExists(sku[s].of) /\ \A t \in Skus \ {s} : sku[t] # sku[s]
StoresDiffer == \A s \in Stores : StoreExists(s) => StoreNameFree(s, store[s].name)
WarehousesRefer == \A w \in Warehouses : WarehouseExists(w) =>
    StoreExists(warehouse[w].at) /\ \A v \in Warehouses \ {w} : warehouse[v] # warehouse[w]
OrdersRefer ==
    /\ \A o, q \in orders : o.no = q.no => o = q
    /\ \A o \in orders : o.lines # {} /\ \A s \in o.lines : SkuExists(s)
Refers == SkusRefer /\ StoresDiffer /\ WarehousesRefer /\ OrdersRefer

\* What a request that is about to write has made sure of and nobody can undo.
Cleared(j) ==
    /\ j.op \in {"updateProduct", "updateStatus", "addSku", "updateSku"} => ProductExists(j.product)
    /\ j.op \in {"updateStore", "createWarehouse"} => StoreExists(j.store)
    /\ j.op = "updateWarehouse" => WarehouseExists(j.warehouse)
Needs(r) == req[r].pc = "write" => Cleared(Job(r))

Grow ==
    /\ \A p \in Products : product[p] # None => product'[p] # None
    /\ \A s \in Stores : store[s].name # None => store'[s].name # None
    /\ \A w \in Warehouses : warehouse[w].at # None => warehouse'[w].at # None

\* What a step may do to the tables.
Sound == TablesOK' /\ Refers' /\ Grow

IInv == ReqsOK /\ TablesOK /\ Refers /\ \A r \in Requests : Needs(r)

\* A request at work carries a job of the right type.
LEMMA AtWork ==
    ASSUME StorefrontAssumption, IInv, NEW r \in Requests, req[r].pc # "idle"
    PROVE  Job(r) \in Jobs /\ JobOK(Job(r)) /\ RowOK(req[r])
BY JobTypes DEF IInv, ReqsOK, RowOK, Job

LEMMA NoneIsNoValue ==
    ASSUME StorefrontAssumption
    PROVE  /\ None \notin Statuses /\ None \notin Stores /\ None \notin Products
           /\ None \notin Names /\ None \notin Externals /\ None \notin Shops
           /\ ShopifyStores \subseteq Stores /\ "DRAFT" \in Statuses
BY DEF StorefrontAssumption, Statuses

\* Steps that leave the tables alone, up to new rows of the log.
LEMMA TablesStay ==
    ASSUME IInv, UNCHANGED <<catalog, shops, orders>>,
           audit' \in Seq(AuditRow), shop' \in [ShopifyStores -> Shops \cup {None}],
           invited' \subseteq ShopifyStores
    PROVE  Sound
<1>1. product' = product /\ sku' = sku /\ store' = store /\ warehouse' = warehouse /\ orders' = orders
    BY DEF catalog, shops
<1>2. TablesOK'
    BY <1>1 DEF IInv, TablesOK
<1>3. Refers'
    BY <1>1 DEF IInv, Refers, SkusRefer, StoresDiffer, WarehousesRefer, OrdersRefer, SkuExists,
                ProductExists, StoreExists, WarehouseExists, StoreNameFree
<1>4. Grow
    BY <1>1 DEF Grow
<1> QED BY <1>2, <1>3, <1>4 DEF Sound

\* Writes to products and SKUs.
LEMMA CatalogSound ==
    ASSUME StorefrontAssumption, IInv, UNCHANGED <<shops, orders, audit, links>>,
           product' \in [Products -> Statuses \cup {None}], sku' \in [Skus -> SkuRow],
           \A p \in Products : ProductExists(p) => product'[p] # None,
           \A s \in Skus : Ordered(s) => sku'[s].of # None,
           SkusRefer'
    PROVE  Sound
<1>1. store' = store /\ warehouse' = warehouse /\ orders' = orders /\ audit' = audit
      /\ shop' = shop /\ invited' = invited
    BY DEF shops, links
<1>2. TablesOK'
    BY <1>1 DEF IInv, TablesOK
<1>3. StoresDiffer' /\ WarehousesRefer'
    BY <1>1 DEF IInv, Refers, StoresDiffer, WarehousesRefer, StoreExists, WarehouseExists, StoreNameFree
<1>4. OrdersRefer'
    <2>1. \A o \in orders : o.lines \subseteq Skus
        BY DEF IInv, TablesOK, OrderRow
    <2> QED BY <1>1, <2>1 DEF IInv, Refers, OrdersRefer, Ordered, SkuExists
<1>5. Grow
    BY <1>1 DEF Grow, ProductExists
<1> QED BY <1>2, <1>3, <1>4, <1>5 DEF Sound, Refers

\* Writes to stores and warehouses.
LEMMA ShopsSound ==
    ASSUME StorefrontAssumption, IInv, UNCHANGED <<catalog, orders, audit, links>>,
           store' \in [Stores -> StoreRow], warehouse' \in [Warehouses -> WarehouseRow],
           \A s \in Stores : StoreExists(s) => store'[s].name # None,
           \A w \in Warehouses : WarehouseExists(w) => warehouse'[w].at # None,
           StoresDiffer', WarehousesRefer'
    PROVE  Sound
<1>1. product' = product /\ sku' = sku /\ orders' = orders /\ audit' = audit
      /\ shop' = shop /\ invited' = invited
    BY DEF catalog, links
<1>2. TablesOK'
    BY <1>1 DEF IInv, TablesOK
<1>3. SkusRefer' /\ OrdersRefer'
    BY <1>1 DEF IInv, Refers, SkusRefer, OrdersRefer, SkuExists, ProductExists
<1>4. Grow
    BY <1>1 DEF Grow, StoreExists, WarehouseExists
<1> QED BY <1>2, <1>3, <1>4 DEF Sound, Refers

-----------------------------------------------------------------------------
(***************************************************************************)
(* What a step of a request comes to: the invariant is kept, and either    *)
(* neither the orders nor the log change (Quiet), or the log gets a row,   *)
(* and perhaps the books an order (Loud).                                  *)
(***************************************************************************)
Busy(r) == req[r].pc \notin {"idle"} \cup Final

\* Only OAuth connects a store to a shop.
Connects(r, next) == \A s \in ShopifyStores : shop'[s] # shop[s] =>
    /\ Job(r).op = "completeOAuth" /\ Job(r).store = s
    /\ next = "audit" /\ shop'[s] = Job(r).shop

\* What an event has found when it goes on.
Found(r, saw) == saw \in ShopifyStores /\ shop[saw] = Job(r).shop
Kept(r, saw) == Job(r).op = "webhook" => req[r].pc = "ensure" /\ saw = req[r].saw

Onward(r, next, saw) ==
    /\ Moves(r, next, saw) /\ Connects(r, next) /\ next # "idle"
    /\ next = "ok" => Job(r).op \in {"startOAuth", "webhook"} \/ req[r].pc = "reply"
    /\ next = "reply" => \/ Job(r).op = "webhook" /\ req[r].pc = "write"
                         \/ Job(r).op = "updateStatus" /\ saw = None
    /\ req[r].pc = "audit" => next = "failed"
    /\ req[r].pc = "reply" => next \in {"ok", "failed"} /\ saw = req[r].saw
    /\ next = "write" => Kept(r, saw)
    /\ next = "ensure" => Found(r, saw)

Quiet(r) ==
    /\ Busy(r) /\ orders' = orders /\ audit' = audit
    /\ \E next \in Pcs, saw \in Statuses \cup Stores \cup {None} : Onward(r, next, saw)

\* The order that a request inserts.
Inserts(r) ==
    /\ req[r].pc = "write"
    /\ \/ /\ Job(r).op = "createOrder"
          /\ orders' = orders \cup {NewOrder(r, Job(r).store, None)}
       \/ /\ Job(r).op = "webhook" /\ ~ KnownOrder(req[r].saw, Job(r))
          /\ orders' = orders \cup {NewOrder(r, req[r].saw, Job(r).ext)}

Loud(r) ==
    /\ audit' = Append(audit, AuditOf(r)) /\ shop' = shop
    /\ \/ /\ req[r].pc = "audit" /\ Job(r).op \notin {"createOrder", "webhook"} /\ orders' = orders
          /\ \E next \in {"ok", "failed"} : Moves(r, next, req[r].saw)
       \/ Inserts(r) /\ Moves(r, "reply", req[r].saw)

Done(r) == ReqsOK' /\ (\A q \in Requests : Needs(q))' /\ Sound /\ (Quiet(r) \/ Loud(r))

LEMMA NeedsKept ==
    ASSUME StorefrontAssumption, IInv, Grow, NEW r \in Requests, NEW next, NEW saw, Moves(r, next, saw),
           next # "write"
    PROVE  \A q \in Requests : Needs(q)'
<1> TAKE q \in Requests
<1>1. CASE q = r
    BY <1>1 DEF Needs, Moves
<1>2. CASE q # r
    <2>1. req'[q] = req[q]
        BY <1>2 DEF Moves
    <2>2. Needs(q)
        BY DEF IInv
    <2>3. CASE req[q].pc # "write"
        BY <2>1, <2>3 DEF Needs
    <2>4. CASE req[q].pc = "write"
        <3>1. JobOK(Job(q))
            BY <2>4, AtWork
        <3>2. Job(q)' = Job(q)
            BY <2>1 DEF Job
        <3> QED BY <2>1, <2>2, <2>4, <3>1, <3>2 DEF Needs, Cleared, JobOK, Grow, ProductExists, StoreExists, WarehouseExists
    <2> QED BY <2>3, <2>4
<1> QED BY <1>1, <1>2

\* A step that goes on to anything but the write, and adds nothing.
LEMMA QuietDone ==
    ASSUME StorefrontAssumption, IInv, Sound, NEW r \in Requests, Busy(r),
           orders' = orders, audit' = audit,
           NEW next \in {"audit", "reply", "ok", "rejected", "failed"}, Go(r, next), Connects(r, next),
           next = "audit" => req[r].pc = "write" /\ Job(r).op \notin {"createOrder", "webhook", "startOAuth"},
           next = "reply" => req[r].pc = "write" /\ Job(r).op = "webhook",
           req[r].pc = "audit" => next = "failed",
           req[r].pc = "reply" => next \in {"ok", "failed"},
           next = "ok" => Job(r).op \in {"startOAuth", "webhook"} \/ req[r].pc = "reply"
    PROVE  Done(r)
<1>1. RowOK(req[r]) /\ req[r].pc # "idle"
    BY DEF IInv, ReqsOK, Busy
<1> DEFINE row == [pc |-> next, job |-> Job(r), saw |-> req[r].saw]
<1>2. row.pc = next /\ row.job = req[r].job /\ row.saw = req[r].saw
    BY DEF Job
<1> HIDE DEF row
<1>3. RowOK(row)
    BY <1>1, <1>2 DEF RowOK, Job, Pcs, Final
<1>4. ReqsOK' /\ Moves(r, next, req[r].saw)
    BY <1>3, StepMoves DEF IInv, Go, row
<1>5. \A q \in Requests : Needs(q)'
    BY <1>4, NeedsKept DEF Sound
<1>6. Onward(r, next, req[r].saw)
    BY <1>4 DEF Onward
<1>7. Quiet(r)
    BY <1>1, <1>6 DEF Quiet, RowOK, Pcs, Final
<1> QED BY <1>4, <1>5, <1>7 DEF Done

\* A write, or its refusal, that an audit row is to follow.
LEMMA AttemptDone ==
    ASSUME StorefrontAssumption, IInv, Sound, NEW r \in Requests, req[r].pc = "write",
           orders' = orders, audit' = audit, UNCHANGED links, Go(r, "audit") \/ Go(r, "rejected"),
           Job(r).op \notin {"createOrder", "webhook", "startOAuth"}
    PROVE  Done(r)
<1>1. Busy(r) /\ Connects(r, "audit") /\ Connects(r, "rejected")
    BY DEF Busy, Final, Connects, links
<1> QED BY <1>1, QuietDone

\* A refused write.
LEMMA RefusalDone ==
    ASSUME StorefrontAssumption, IInv, NEW r \in Requests, req[r].pc = "write",
           Go(r, "rejected"), UNCHANGED <<catalog, shops, orders, audit, links>>
    PROVE  Done(r)
<1>1. Busy(r) /\ Connects(r, "rejected")
    BY DEF Busy, Final, Connects, links
<1>2. audit' \in Seq(AuditRow) /\ shop' \in [ShopifyStores -> Shops \cup {None}]
      /\ invited' \subseteq ShopifyStores
    BY DEF IInv, TablesOK, links
<1>3. Sound
    BY <1>2, TablesStay
<1> QED BY <1>1, <1>3, QuietDone

\* A step with a row for the log.
LEMMA LoudDone ==
    ASSUME StorefrontAssumption, IInv, Sound, NEW r \in Requests,
           NEW next \in {"reply", "ok", "failed"}, Go(r, next),
           audit' = Append(audit, AuditOf(r)), UNCHANGED links,
           \/ /\ req[r].pc = "audit" /\ Job(r).op \notin {"createOrder", "webhook"} /\ orders' = orders
              /\ next # "reply"
           \/ Inserts(r) /\ next = "reply"
    PROVE  Done(r)
<1>1. RowOK(req[r]) /\ req[r].pc \in {"write", "audit"}
    BY DEF IInv, ReqsOK, Inserts
<1> DEFINE row == [pc |-> next, job |-> Job(r), saw |-> req[r].saw]
<1>2. row.pc = next /\ row.job = req[r].job /\ row.saw = req[r].saw
    BY DEF Job
<1> HIDE DEF row
<1>3. RowOK(row)
    BY <1>1, <1>2 DEF RowOK, Job, Pcs, Final, Inserts
<1>4. ReqsOK' /\ Moves(r, next, req[r].saw)
    BY <1>3, StepMoves DEF IInv, Go, row
<1>5. \A q \in Requests : Needs(q)'
    BY <1>4, NeedsKept DEF Sound
<1>6. Loud(r)
    BY <1>4 DEF Loud, links
<1> QED BY <1>4, <1>5, <1>6 DEF Done

-----------------------------------------------------------------------------
(***************************************************************************)
(* Products and SKUs.                                                      *)
(***************************************************************************)

\* CodeFree compares whole rows.
LEMMA CodeFreeRows ==
    ASSUME IInv, NEW s \in Skus, NEW p, NEW code, CodeFree(p, s, code)
    PROVE  \A t \in Skus \ {s} : ~ (sku[t].of = p /\ sku[t].code = code)
<1> SUFFICES ASSUME NEW t \in Skus \ {s}, sku[t].of = p, sku[t].code = code
             PROVE  FALSE
    OBVIOUS
<1>1. sku[t] \in SkuRow
    BY DEF IInv, TablesOK
<1>2. sku[t] = [of |-> p, code |-> code]
    BY <1>1 DEF SkuRow
<1> QED BY <1>2 DEF CodeFree

\* One SKU gets a new row that no other SKU has.
LEMMA SkuWritten ==
    ASSUME StorefrontAssumption, IInv, UNCHANGED <<product, shops, orders, audit, links>>,
           NEW s \in Skus, NEW p \in Products, NEW code \in Codes, ProductExists(p),
           CodeFree(p, s, code), sku' = [sku EXCEPT ![s] = [of |-> p, code |-> code]]
    PROVE  Sound
<1> DEFINE row == [of |-> p, code |-> code]
<1>1. row \in SkuRow /\ row.of = p /\ row.code = code /\ row.of # None
    BY NoneIsNoValue DEF SkuRow
<1>2. sku' = [sku EXCEPT ![s] = row]
    OBVIOUS
<1> HIDE DEF row
<1>3. sku \in [Skus -> SkuRow]
    BY DEF IInv, TablesOK
<1>4. sku' \in [Skus -> SkuRow] /\ \A t \in Skus : sku'[t] = IF t = s THEN row ELSE sku[t]
    BY <1>1, <1>2, <1>3
<1>5. product' = product
    OBVIOUS
<1>6. SkusRefer'
    <2>1. \A t \in Skus \ {s} : sku[t] # row
        BY <1>1, CodeFreeRows
    <2> QED BY <1>1, <1>4, <1>5, <2>1 DEF IInv, Refers, SkusRefer, SkuExists, ProductExists
<1>7. \A t \in Skus : Ordered(t) => sku'[t].of # None
    <2>1. \A o \in orders : \A t \in o.lines : SkuExists(t)
        BY DEF IInv, Refers, OrdersRefer
    <2> QED BY <1>1, <1>4, <2>1 DEF Ordered, SkuExists
<1>8. product' \in [Products -> Statuses \cup {None}] /\ \A q \in Products : ProductExists(q) => product'[q] # None
    BY <1>5 DEF IInv, TablesOK, ProductExists
<1> QED BY <1>4, <1>6, <1>7, <1>8, CatalogSound

LEMMA AddSkuDone ==
    ASSUME StorefrontAssumption, IInv, UNCHANGED links, NEW r \in Requests, AddSku(r)
    PROVE  Done(r)
<1> DEFINE j == Job(r)
<1>1. req[r].pc = "write" /\ j.op = "addSku"
    BY DEF AddSku, At
<1>2. JobOK(j) /\ Needs(r)
    BY <1>1, AtWork DEF IInv
<1>3. j.product \in Products /\ j.sku \in Skus /\ j.code \in Codes /\ ProductExists(j.product)
    BY <1>1, <1>2 DEF JobOK, Needs, Cleared
<1>4. CASE CodeFree(j.product, j.sku, j.code)
    <2>1. /\ sku' = [sku EXCEPT ![j.sku] = [of |-> j.product, code |-> j.code]]
          /\ UNCHANGED <<product, shops, orders, audit>> /\ Go(r, "audit")
        BY <1>4 DEF AddSku, Attempt
    <2>2. Sound
        BY <1>3, <1>4, <2>1, SkuWritten
    <2> QED BY <1>1, <2>1, <2>2, AttemptDone
<1>5. CASE ~ CodeFree(j.product, j.sku, j.code)
    <2>1. Go(r, "rejected") /\ UNCHANGED <<catalog, shops, orders, audit>>
        BY <1>5 DEF AddSku, Attempt
    <2> QED BY <1>1, <2>1, RefusalDone
<1> QED BY <1>4, <1>5

LEMMA UpdateSkuDone ==
    ASSUME StorefrontAssumption, IInv, UNCHANGED links, NEW r \in Requests, UpdateSku(r)
    PROVE  Done(r)
<1> DEFINE j == Job(r)
           free == SkuExists(j.sku) /\ CodeFree(sku[j.sku].of, j.sku, j.code)
<1>1. req[r].pc = "write" /\ j.op = "updateSku"
    BY DEF UpdateSku, At
<1>2. JobOK(j)
    BY <1>1, AtWork
<1>3. j.sku \in Skus /\ j.code \in Codes
    BY <1>1, <1>2 DEF JobOK
<1>4. CASE free
    <2>1. /\ sku' = [sku EXCEPT ![j.sku] = [of |-> sku[j.sku].of, code |-> j.code]]
          /\ UNCHANGED <<product, shops, orders, audit>> /\ Go(r, "audit")
        BY <1>4 DEF UpdateSku, Attempt
    <2>2. sku[j.sku].of \in Products /\ ProductExists(sku[j.sku].of)
        BY <1>3, <1>4 DEF IInv, TablesOK, SkuRow, Refers, SkusRefer, SkuExists
    <2>3. Sound
        BY <1>3, <1>4, <2>1, <2>2, SkuWritten
    <2> QED BY <1>1, <2>1, <2>3, AttemptDone
<1>5. CASE ~ free
    <2>1. Go(r, "rejected") /\ UNCHANGED <<catalog, shops, orders, audit>>
        BY <1>5 DEF UpdateSku, Attempt
    <2> QED BY <1>1, <2>1, RefusalDone
<1> QED BY <1>4, <1>5

LEMMA DeleteSkuDone ==
    ASSUME StorefrontAssumption, IInv, UNCHANGED links, NEW r \in Requests, DeleteSku(r)
    PROVE  Done(r)
<1> DEFINE j == Job(r)
           free == SkuExists(j.sku) /\ ~ Ordered(j.sku)
           row == [of |-> None, code |-> None]
<1>1. req[r].pc = "write" /\ j.op = "deleteSku"
    BY DEF DeleteSku, At
<1>2. j.sku \in Skus
    BY <1>1, AtWork DEF JobOK
<1>3. CASE free
    <2>1. /\ sku' = [sku EXCEPT ![j.sku] = row]
          /\ UNCHANGED <<product, shops, orders, audit>> /\ Go(r, "audit")
        BY <1>3 DEF DeleteSku, Attempt
    <2>2. row \in SkuRow /\ row.of = None
        BY DEF SkuRow
    <2> HIDE DEF row
    <2>3. sku \in [Skus -> SkuRow] /\ product' = product
        BY <2>1 DEF IInv, TablesOK
    <2>4. sku' \in [Skus -> SkuRow] /\ \A t \in Skus : sku'[t] = IF t = j.sku THEN row ELSE sku[t]
        BY <1>2, <2>1, <2>2, <2>3
    <2>5. SkusRefer'
        BY <2>2, <2>3, <2>4 DEF IInv, Refers, SkusRefer, SkuExists, ProductExists
    <2>6. \A t \in Skus : Ordered(t) => sku'[t].of # None
        <3>1. \A o \in orders : \A t \in o.lines : SkuExists(t)
            BY DEF IInv, Refers, OrdersRefer
        <3> QED BY <1>3, <2>4, <3>1 DEF Ordered, SkuExists
    <2>7. product' \in [Products -> Statuses \cup {None}] /\ \A q \in Products : ProductExists(q) => product'[q] # None
        BY <2>3 DEF IInv, TablesOK, ProductExists
    <2>8. Sound
        BY <2>1, <2>4, <2>5, <2>6, <2>7, CatalogSound
    <2> QED BY <1>1, <2>1, <2>8, AttemptDone
<1>4. CASE ~ free
    <2>1. Go(r, "rejected") /\ UNCHANGED <<catalog, shops, orders, audit>>
        BY <1>4 DEF DeleteSku, Attempt
    <2> QED BY <1>1, <2>1, RefusalDone
<1> QED BY <1>3, <1>4

LEMMA CreateProductDone ==
    ASSUME StorefrontAssumption, IInv, UNCHANGED links, NEW r \in Requests, CreateProduct(r)
    PROVE  Done(r)
<1> DEFINE j == Job(r)
           new == DOMAIN j.codes
           Row(s) == [of |-> j.product, code |-> j.codes[s]]
           free == \A s, t \in new : j.codes[s] = j.codes[t] => s = t
<1>1. req[r].pc = "write" /\ j.op = "createProduct"
    BY DEF CreateProduct, At
<1>2. JobOK(j)
    BY <1>1, AtWork
<1>3. j.product \in Products /\ new \subseteq Skus /\ \A s \in new : j.codes[s] \in Codes
    BY <1>1, <1>2 DEF JobOK
<1>4. product[j.product] = None /\ \A s \in new : ~ SkuExists(s)
    BY DEF CreateProduct
<1>5. CASE free
    <2>1. /\ product' = [product EXCEPT ![j.product] = "DRAFT"]
          /\ sku' = [s \in Skus |-> IF s \in new THEN Row(s) ELSE sku[s]]
          /\ UNCHANGED <<shops, orders, audit>> /\ Go(r, "audit")
        BY <1>5 DEF CreateProduct, Attempt
    <2>2. \A s \in new : Row(s) \in SkuRow /\ Row(s).of = j.product /\ Row(s).code = j.codes[s]
        BY <1>3 DEF SkuRow
    <2>3. product \in [Products -> Statuses \cup {None}] /\ sku \in [Skus -> SkuRow]
        BY DEF IInv, TablesOK
    <2> HIDE DEF Row, free, new, j
    <2>4. /\ sku' \in [Skus -> SkuRow]
          /\ \A s \in Skus : sku'[s] = IF s \in new THEN Row(s) ELSE sku[s]
        BY <2>1, <2>2, <2>3
    <2>5. /\ product' \in [Products -> Statuses \cup {None}]
          /\ \A p \in Products : product'[p] = IF p = j.product THEN "DRAFT" ELSE product[p]
        BY <1>3, <2>1, <2>3, NoneIsNoValue
    <2>6. j.product # None /\ "DRAFT" # None
        BY <1>3, NoneIsNoValue
    <2>7. \A p \in Products : ProductExists(p) => product'[p] # None
        BY <2>5, <2>6 DEF ProductExists
    <2>8. \A s \in Skus : SkuExists(s) =>
             /\ sku[s].of \in Products /\ sku[s].of # j.product /\ ProductExists(sku[s].of)
             /\ s \notin new /\ \A t \in Skus \ {s} : sku[t] # sku[s]
        BY <1>4, <2>3 DEF IInv, Refers, SkusRefer, SkuExists, ProductExists, SkuRow
    <2>9. SkusRefer'
        <3> SUFFICES ASSUME NEW s \in Skus, SkuExists(s)'
                     PROVE  /\ ProductExists(sku[s].of)'
                            /\ \A t \in Skus \ {s} : sku'[t] # sku'[s]
            BY DEF SkusRefer
        <3>1. CASE s \in new
            <4>1. sku'[s].of = j.product /\ sku'[s].code = j.codes[s]
                BY <2>2, <2>4, <3>1
            <4>2. ProductExists(sku[s].of)'
                BY <1>3, <2>5, <2>6, <4>1 DEF ProductExists
            <4>3. ASSUME NEW t \in Skus \ {s}  PROVE  sku'[t] # sku'[s]
                <5>1. CASE t \in new
                    <6>1. sku'[t].code = j.codes[t]
                        BY <2>2, <2>4, <5>1
                    <6>2. j.codes[t] # j.codes[s]
                        BY <1>5, <3>1, <4>3, <5>1 DEF free
                    <6> QED BY <4>1, <6>1, <6>2
                <5>2. CASE t \notin new
                    <6>1. sku'[t] = sku[t]
                        BY <2>4, <5>2
                    <6>2. sku[t].of # j.product
                        BY <2>6, <2>8 DEF SkuExists
                    <6> QED BY <4>1, <6>1, <6>2
                <5> QED BY <5>1, <5>2
            <4> QED BY <4>2, <4>3
        <3>2. CASE s \notin new
            <4>1. sku'[s] = sku[s] /\ SkuExists(s)
                BY <2>4, <3>2 DEF SkuExists
            <4>2. /\ sku[s].of \in Products /\ sku[s].of # j.product /\ ProductExists(sku[s].of)
                  /\ \A t \in Skus \ {s} : sku[t] # sku[s]
                BY <2>8, <4>1
            <4>3. ProductExists(sku[s].of)'
                BY <2>5, <4>1, <4>2 DEF ProductExists
            <4>4. \A t \in Skus \ {s} : sku'[t] # sku'[s]
                BY <2>2, <2>4, <4>1, <4>2
            <4> QED BY <4>3, <4>4
        <3> QED BY <3>1, <3>2
    <2>10. \A s \in Skus : Ordered(s) => sku'[s].of # None
        <3>1. \A o \in orders : \A s \in o.lines : SkuExists(s)
            BY DEF IInv, Refers, OrdersRefer
        <3> QED BY <2>2, <2>4, <2>6, <3>1 DEF Ordered, SkuExists
    <2>11. Sound
        BY <2>1, <2>4, <2>5, <2>7, <2>9, <2>10, CatalogSound
    <2>12. orders' = orders /\ audit' = audit /\ Go(r, "audit")
        BY <2>1
    <2>13. Job(r).op = "createProduct"
        BY <1>1 DEF j
    <2> QED BY <1>1, <2>11, <2>12, <2>13, AttemptDone
<1>6. CASE ~ free
    <2>1. Go(r, "rejected") /\ UNCHANGED <<catalog, shops, orders, audit>>
        BY <1>6 DEF CreateProduct, Attempt
    <2> QED BY <1>1, <2>1, RefusalDone
<1> QED BY <1>5, <1>6

LEMMA UpdateStatusDone ==
    ASSUME StorefrontAssumption, IInv, UNCHANGED links, NEW r \in Requests, UpdateStatus(r)
    PROVE  Done(r)
<1> DEFINE j == Job(r)
<1>1. req[r].pc = "write" /\ j.op = "updateStatus"
    BY DEF UpdateStatus, At
<1>2. JobOK(j) /\ Needs(r)
    BY <1>1, AtWork DEF IInv
<1>3. j.product \in Products /\ j.to \in Statuses /\ ProductExists(j.product)
    BY <1>1, <1>2 DEF JobOK, Needs, Cleared
<1>4. /\ product' = [product EXCEPT ![j.product] = j.to]
      /\ UNCHANGED <<sku, shops, orders, audit>> /\ Go(r, "audit")
    BY DEF UpdateStatus, Attempt
<1>5. sku' = sku /\ product \in [Products -> Statuses \cup {None}] /\ sku \in [Skus -> SkuRow]
    BY <1>4 DEF IInv, TablesOK
<1>6. /\ product' \in [Products -> Statuses \cup {None}]
      /\ \A p \in Products : product'[p] = IF p = j.product THEN j.to ELSE product[p]
    BY <1>3, <1>4, <1>5
<1>7. \A p \in Products : ProductExists(p) => product'[p] # None
    BY <1>3, <1>6, NoneIsNoValue DEF ProductExists
<1>8. SkusRefer'
    BY <1>5, <1>7 DEF IInv, Refers, SkusRefer, SkuExists, ProductExists, SkuRow
<1>9. \A s \in Skus : Ordered(s) => sku'[s].of # None
    BY <1>5 DEF IInv, Refers, OrdersRefer, Ordered, SkuExists
<1>10. Sound
    BY <1>4, <1>5, <1>6, <1>7, <1>8, <1>9, CatalogSound
<1> QED BY <1>1, <1>4, <1>10, AttemptDone

LEMMA UpdateProductDone ==
    ASSUME StorefrontAssumption, IInv, UNCHANGED links, NEW r \in Requests, UpdateProduct(r)
    PROVE  Done(r)
<1>1. req[r].pc = "write" /\ Job(r).op = "updateProduct"
    BY DEF UpdateProduct, At
<1>2. UNCHANGED <<catalog, shops, orders, audit>> /\ Go(r, "audit")
    BY DEF UpdateProduct, Attempt
<1>3. audit' \in Seq(AuditRow) /\ shop' \in [ShopifyStores -> Shops \cup {None}]
      /\ invited' \subseteq ShopifyStores
    BY <1>2 DEF IInv, TablesOK, links
<1>4. Sound
    BY <1>2, <1>3, TablesStay
<1> QED BY <1>1, <1>2, <1>4, AttemptDone

-----------------------------------------------------------------------------
(***************************************************************************)
(* Stores and warehouses.                                                  *)
(***************************************************************************)

\* One store gets a name that no other store has.
LEMMA StoreWritten ==
    ASSUME StorefrontAssumption, IInv, UNCHANGED <<catalog, warehouse, orders, audit, links>>,
           NEW s \in Stores, NEW name \in Names, NEW on \in BOOLEAN, StoreNameFree(s, name),
           store' = [store EXCEPT ![s] = [name |-> name, active |-> on]]
    PROVE  Sound
<1> DEFINE row == [name |-> name, active |-> on]
<1>1. row \in StoreRow /\ row.name = name /\ name # None
    BY NoneIsNoValue DEF StoreRow
<1>2. store' = [store EXCEPT ![s] = row]
    OBVIOUS
<1> HIDE DEF row
<1>3. store \in [Stores -> StoreRow] /\ warehouse' = warehouse
    BY DEF IInv, TablesOK
<1>4. store' \in [Stores -> StoreRow] /\ \A t \in Stores : store'[t] = IF t = s THEN row ELSE store[t]
    BY <1>1, <1>2, <1>3
<1>5. StoresDiffer'
    BY <1>1, <1>4 DEF IInv, Refers, StoresDiffer, StoreExists, StoreNameFree
<1>6. \A t \in Stores : StoreExists(t) => store'[t].name # None
    BY <1>1, <1>4 DEF StoreExists
<1>7. WarehousesRefer'
    <2>1. \A w \in Warehouses : WarehouseExists(w) => warehouse[w].at \in Stores
        BY DEF IInv, TablesOK, WarehouseRow, WarehouseExists
    <2> QED BY <1>3, <1>6, <2>1 DEF IInv, Refers, WarehousesRefer, WarehouseExists, StoreExists
<1>8. /\ warehouse' \in [Warehouses -> WarehouseRow]
      /\ \A w \in Warehouses : WarehouseExists(w) => warehouse'[w].at # None
    BY <1>3 DEF IInv, TablesOK, WarehouseExists
<1> QED BY <1>4, <1>5, <1>6, <1>7, <1>8, ShopsSound

LEMMA CreateStoreDone ==
    ASSUME StorefrontAssumption, IInv, UNCHANGED links, NEW r \in Requests, CreateStore(r)
    PROVE  Done(r)
<1> DEFINE j == Job(r)
<1>1. req[r].pc = "write" /\ j.op = "createStore"
    BY DEF CreateStore, At
<1>2. j.store \in Stores /\ j.name \in Names
    BY <1>1, AtWork DEF JobOK
<1>3. CASE StoreNameFree(j.store, j.name)
    <2>1. /\ store' = [store EXCEPT ![j.store] = [name |-> j.name, active |-> TRUE]]
          /\ UNCHANGED <<catalog, warehouse, orders, audit>> /\ Go(r, "audit")
        BY <1>3 DEF CreateStore, Attempt
    <2>2. Sound
        BY <1>2, <1>3, <2>1, StoreWritten
    <2> QED BY <1>1, <2>1, <2>2, AttemptDone
<1>4. CASE ~ StoreNameFree(j.store, j.name)
    <2>1. Go(r, "rejected") /\ UNCHANGED <<catalog, shops, orders, audit>>
        BY <1>4 DEF CreateStore, Attempt
    <2> QED BY <1>1, <2>1, RefusalDone
<1> QED BY <1>3, <1>4

LEMMA UpdateStoreDone ==
    ASSUME StorefrontAssumption, IInv, UNCHANGED links, NEW r \in Requests, UpdateStore(r)
    PROVE  Done(r)
<1> DEFINE j == Job(r)
<1>1. req[r].pc = "write" /\ j.op = "updateStore"
    BY DEF UpdateStore, At
<1>2. j.store \in Stores /\ j.name \in Names /\ j.active \in BOOLEAN
    BY <1>1, AtWork DEF JobOK
<1>3. CASE StoreNameFree(j.store, j.name)
    <2>1. /\ store' = [store EXCEPT ![j.store] = [name |-> j.name, active |-> j.active]]
          /\ UNCHANGED <<catalog, warehouse, orders, audit>> /\ Go(r, "audit")
        BY <1>3 DEF UpdateStore, Attempt
    <2>2. Sound
        BY <1>2, <1>3, <2>1, StoreWritten
    <2> QED BY <1>1, <2>1, <2>2, AttemptDone
<1>4. CASE ~ StoreNameFree(j.store, j.name)
    <2>1. Go(r, "rejected") /\ UNCHANGED <<catalog, shops, orders, audit>>
        BY <1>4 DEF UpdateStore, Attempt
    <2> QED BY <1>1, <2>1, RefusalDone
<1> QED BY <1>3, <1>4

\* One warehouse of an existing store gets a row that no other warehouse has.
LEMMA WarehouseWritten ==
    ASSUME StorefrontAssumption, IInv, UNCHANGED <<catalog, store, orders, audit, links>>,
           NEW w \in Warehouses, NEW at \in Stores, NEW name \in Names, StoreExists(at),
           WarehouseNameFree(w, at, name),
           warehouse' = [warehouse EXCEPT ![w] = [at |-> at, name |-> name]]
    PROVE  Sound
<1> DEFINE row == [at |-> at, name |-> name]
<1>1. row \in WarehouseRow /\ row.at = at /\ row.name = name /\ at # None
    BY NoneIsNoValue DEF WarehouseRow
<1>2. warehouse' = [warehouse EXCEPT ![w] = row] /\ \A v \in Warehouses \ {w} : warehouse[v] # row
    BY DEF WarehouseNameFree
<1> HIDE DEF row
<1>3. warehouse \in [Warehouses -> WarehouseRow] /\ store' = store
    BY DEF IInv, TablesOK
<1>4. /\ warehouse' \in [Warehouses -> WarehouseRow]
      /\ \A v \in Warehouses : warehouse'[v] = IF v = w THEN row ELSE warehouse[v]
    BY <1>1, <1>2, <1>3
<1>5. WarehousesRefer'
    BY <1>1, <1>2, <1>3, <1>4 DEF IInv, Refers, WarehousesRefer, WarehouseExists, StoreExists
<1>6. \A v \in Warehouses : WarehouseExists(v) => warehouse'[v].at # None
    BY <1>1, <1>4 DEF WarehouseExists
<1>7. StoresDiffer' /\ store' \in [Stores -> StoreRow] /\ \A s \in Stores : StoreExists(s) => store'[s].name # None
    BY <1>3 DEF IInv, TablesOK, Refers, StoresDiffer, StoreExists, StoreNameFree
<1> QED BY <1>4, <1>5, <1>6, <1>7, ShopsSound

LEMMA CreateWarehouseDone ==
    ASSUME StorefrontAssumption, IInv, UNCHANGED links, NEW r \in Requests, CreateWarehouse(r)
    PROVE  Done(r)
<1> DEFINE j == Job(r)
<1>1. req[r].pc = "write" /\ j.op = "createWarehouse"
    BY DEF CreateWarehouse, At
<1>2. JobOK(j) /\ Needs(r)
    BY <1>1, AtWork DEF IInv
<1>3. j.store \in Stores /\ j.name \in Names /\ j.warehouse \in Warehouses /\ StoreExists(j.store)
    BY <1>1, <1>2 DEF JobOK, Needs, Cleared
<1>4. CASE WarehouseNameFree(j.warehouse, j.store, j.name)
    <2>1. /\ warehouse' = [warehouse EXCEPT ![j.warehouse] = [at |-> j.store, name |-> j.name]]
          /\ UNCHANGED <<catalog, store, orders, audit>> /\ Go(r, "audit")
        BY <1>4 DEF CreateWarehouse, Attempt
    <2>2. Sound
        BY <1>3, <1>4, <2>1, WarehouseWritten
    <2> QED BY <1>1, <2>1, <2>2, AttemptDone
<1>5. CASE ~ WarehouseNameFree(j.warehouse, j.store, j.name)
    <2>1. Go(r, "rejected") /\ UNCHANGED <<catalog, shops, orders, audit>>
        BY <1>5 DEF CreateWarehouse, Attempt
    <2> QED BY <1>1, <2>1, RefusalDone
<1> QED BY <1>4, <1>5

LEMMA UpdateWarehouseDone ==
    ASSUME StorefrontAssumption, IInv, UNCHANGED links, NEW r \in Requests, UpdateWarehouse(r)
    PROVE  Done(r)
<1> DEFINE j == Job(r)
           at == warehouse[j.warehouse].at
<1>1. req[r].pc = "write" /\ j.op = "updateWarehouse"
    BY DEF UpdateWarehouse, At
<1>2. JobOK(j) /\ Needs(r)
    BY <1>1, AtWork DEF IInv
<1>3. j.name \in Names /\ j.warehouse \in Warehouses /\ WarehouseExists(j.warehouse)
    BY <1>1, <1>2 DEF JobOK, Needs, Cleared
<1>4. at \in Stores /\ StoreExists(at)
    BY <1>3 DEF IInv, TablesOK, WarehouseRow, Refers, WarehousesRefer, WarehouseExists
<1>5. CASE WarehouseNameFree(j.warehouse, at, j.name)
    <2>1. /\ warehouse' = [warehouse EXCEPT ![j.warehouse] = [at |-> at, name |-> j.name]]
          /\ UNCHANGED <<catalog, store, orders, audit>> /\ Go(r, "audit")
        BY <1>5 DEF UpdateWarehouse, Attempt
    <2>2. Sound
        BY <1>3, <1>4, <1>5, <2>1, WarehouseWritten
    <2> QED BY <1>1, <2>1, <2>2, AttemptDone
<1>6. CASE ~ WarehouseNameFree(j.warehouse, at, j.name)
    <2>1. Go(r, "rejected") /\ UNCHANGED <<catalog, shops, orders, audit>>
        BY <1>6 DEF UpdateWarehouse, Attempt
    <2> QED BY <1>1, <2>1, RefusalDone
<1> QED BY <1>5, <1>6

-----------------------------------------------------------------------------
(***************************************************************************)
(* Orders, the log and the checks.                                         *)
(***************************************************************************)
LEMMA AuditOfType ==
    ASSUME StorefrontAssumption, IInv, NEW r \in Requests, Busy(r),
           Job(r).op = "updateStatus" => req[r].pc \in {"write", "audit"}
    PROVE  AuditOf(r) \in AuditRow /\ AuditOf(r).by = r
<1>1. JobOK(Job(r)) /\ RowOK(req[r])
    BY AtWork DEF Busy
<1>2. CASE Job(r).op = "updateStatus"
    BY <1>1, <1>2 DEF AuditOf, AuditRow, JobOK, RowOK, Job
<1>3. CASE Job(r).op # "updateStatus"
    BY <1>3 DEF AuditOf, AuditRow
<1> QED BY <1>2, <1>3

LEMMA InsertDone ==
    ASSUME StorefrontAssumption, IInv, UNCHANGED <<catalog, shops, links>>,
           NEW r \in Requests, req[r].pc = "write", Job(r).op \in {"createOrder", "webhook"},
           NEW st \in Stores, NEW ext \in Externals \cup {None},
           Insertable(Job(r)), Job(r).lines # {}, InsertOrder(r, st, ext), Go(r, "reply"),
           \/ Job(r).op = "createOrder" /\ st = Job(r).store /\ ext = None
           \/ /\ Job(r).op = "webhook" /\ st = req[r].saw /\ ext = Job(r).ext
              /\ ~ KnownOrder(st, Job(r))
    PROVE  Done(r)
<1> DEFINE new == NewOrder(r, st, ext)
<1>1. Busy(r) /\ Orders(Job(r))
    BY AtWork DEF Busy, Final, JobOK
<1>2. new \in OrderRow /\ new.no = Job(r).no /\ new.lines = Job(r).lines
    BY <1>1 DEF NewOrder, OrderRow, Orders
<1>3. orders' = orders \cup {new} /\ audit' = Append(audit, AuditOf(r))
    BY DEF InsertOrder
<1>4. AuditOf(r) \in AuditRow /\ audit \in Seq(AuditRow)
    BY <1>1, AuditOfType DEF IInv, TablesOK
<1>5. audit' \in Seq(AuditRow)
    BY <1>3, <1>4
<1>6. product' = product /\ sku' = sku /\ store' = store /\ warehouse' = warehouse
      /\ shop' = shop /\ invited' = invited
    BY DEF catalog, shops, links
<1> HIDE DEF new
<1>7. TablesOK'
    BY <1>2, <1>3, <1>5, <1>6 DEF IInv, TablesOK
<1>8. SkusRefer' /\ StoresDiffer' /\ WarehousesRefer'
    BY <1>6 DEF IInv, Refers, SkusRefer, StoresDiffer, WarehousesRefer, SkuExists,
                ProductExists, StoreExists, WarehouseExists, StoreNameFree
<1>9. OrdersRefer'
    <2>1. /\ \A o \in orders : o.no # new.no
          /\ new.lines # {} /\ \A s \in new.lines : SkuExists(s)
        BY <1>2 DEF Insertable
    <2>2. OrdersRefer
        BY DEF IInv, Refers
    <2> QED BY <1>3, <1>6, <2>1, <2>2 DEF OrdersRefer, SkuExists
<1>10. Sound
    BY <1>6, <1>7, <1>8, <1>9 DEF Sound, Refers, Grow
<1>11. Inserts(r)
    BY <1>3 DEF Inserts, new
<1> QED BY <1>3, <1>10, <1>11, LoudDone

LEMMA CreateOrderDone ==
    ASSUME StorefrontAssumption, IInv, UNCHANGED links, NEW r \in Requests, CreateOrder(r)
    PROVE  Done(r)
<1>1. req[r].pc = "write" /\ Job(r).op = "createOrder" /\ UNCHANGED <<catalog, shops>>
    BY DEF CreateOrder, At
<1>2. JobOK(Job(r)) /\ RowOK(req[r])
    BY <1>1, AtWork
<1>3. Job(r).store \in Stores /\ Job(r).lines # {}
    BY <1>1, <1>2 DEF JobOK, RowOK, Job
<1>4. CASE Insertable(Job(r))
    <2>1. InsertOrder(r, Job(r).store, None) /\ Go(r, "reply")
        BY <1>4 DEF CreateOrder
    <2> QED BY <1>1, <1>3, <1>4, <2>1, InsertDone
<1>5. CASE ~ Insertable(Job(r))
    <2>1. Go(r, "rejected") /\ UNCHANGED <<orders, audit>>
        BY <1>5 DEF CreateOrder
    <2> QED BY <1>1, <2>1, RefusalDone
<1> QED BY <1>4, <1>5

LEMMA RecordDone ==
    ASSUME StorefrontAssumption, IInv, UNCHANGED links, NEW r \in Requests, Record(r)
    PROVE  Done(r)
<1>1. /\ req[r].pc = "audit" /\ audit' = Append(audit, AuditOf(r))
      /\ UNCHANGED <<catalog, shops, orders>>
      /\ \E next \in {"ok", "failed"} : Go(r, next)
    BY DEF Record
<1>2. Busy(r) /\ RowOK(req[r])
    BY <1>1, AtWork DEF Busy, Final
<1>3. Job(r).op \notin {"createOrder", "webhook"}
    BY <1>1, <1>2 DEF RowOK, Job
<1>4. AuditOf(r) \in AuditRow
    BY <1>1, <1>2, AuditOfType
<1>5. audit' \in Seq(AuditRow) /\ shop' \in [ShopifyStores -> Shops \cup {None}]
      /\ invited' \subseteq ShopifyStores
    BY <1>1, <1>4 DEF IInv, TablesOK, links
<1>6. Sound
    BY <1>1, <1>5, TablesStay
<1> QED BY <1>1, <1>2, <1>3, <1>6, LoudDone

LEMMA FailDone ==
    ASSUME StorefrontAssumption, IInv, UNCHANGED links, NEW r \in Requests, Fail(r)
    PROVE  Done(r)
<1>1. /\ Busy(r) /\ Go(r, "failed") /\ UNCHANGED <<catalog, shops, orders, audit>>
      /\ Connects(r, "failed")
    BY DEF Fail, Busy, Final, Connects, links
<1>2. audit' \in Seq(AuditRow) /\ shop' \in [ShopifyStores -> Shops \cup {None}]
      /\ invited' \subseteq ShopifyStores
    BY <1>1 DEF IInv, TablesOK, links
<1>3. Sound
    BY <1>1, <1>2, TablesStay
<1> QED BY <1>1, <1>3, QuietDone

LEMMA ReplyDone ==
    ASSUME StorefrontAssumption, IInv, UNCHANGED links, NEW r \in Requests, Reply(r)
    PROVE  Done(r)
<1>1. /\ req[r].pc = "reply" /\ Go(r, "ok") /\ UNCHANGED <<catalog, shops, orders, audit>>
      /\ Busy(r) /\ Connects(r, "ok")
    BY DEF Reply, Busy, Final, Connects, links
<1>2. audit' \in Seq(AuditRow) /\ shop' \in [ShopifyStores -> Shops \cup {None}]
      /\ invited' \subseteq ShopifyStores
    BY <1>1 DEF IInv, TablesOK, links
<1>3. Sound
    BY <1>1, <1>2, TablesStay
<1> QED BY <1>1, <1>3, QuietDone

\* A step that leaves the tables alone, up to the connections.
LEMMA StepDone ==
    ASSUME StorefrontAssumption, IInv, NEW r \in Requests, Busy(r),
           UNCHANGED <<catalog, shops, orders, audit, links>>, req[r].pc \notin {"audit", "reply"},
           NEW next \in Pcs, next # "idle", NEW saw \in Statuses \cup Stores \cup {None}, Step(r, next, saw),
           RowOK([pc |-> next, job |-> Job(r), saw |-> saw]),
           next = "write" => Cleared(Job(r)) /\ Kept(r, saw),
           next = "ensure" => Found(r, saw),
           next = "reply" => Job(r).op = "updateStatus" /\ saw = None,
           next = "ok" => Job(r).op \in {"startOAuth", "webhook"}
    PROVE  Done(r)
<1>1. ReqsOK' /\ Moves(r, next, saw)
    BY StepMoves DEF IInv
<1>2. orders' = orders /\ audit' = audit /\ product' = product /\ store' = store /\ warehouse' = warehouse
    BY DEF catalog, shops
<1>3. /\ audit' \in Seq(AuditRow) /\ shop' \in [ShopifyStores -> Shops \cup {None}]
      /\ invited' \subseteq ShopifyStores /\ shop' = shop
    BY <1>2 DEF IInv, TablesOK, links
<1>4. Sound
    BY <1>3, TablesStay
<1>5. \A q \in Requests : Needs(q)'
    <2>1. CASE next # "write"
        BY <1>1, <1>4, <2>1, NeedsKept DEF Sound
    <2>2. CASE next = "write"
        <3> TAKE q \in Requests
        <3>1. CASE q = r
            <4>1. Job(q)' = Job(r)
                BY <1>1, <3>1 DEF Moves, Job
            <4> QED BY <1>2, <2>2, <4>1 DEF Needs, Cleared, ProductExists, StoreExists, WarehouseExists
        <3>2. CASE q # r
            <4>1. req'[q] = req[q] /\ Needs(q)
                BY <1>1, <3>2 DEF Moves, IInv
            <4> QED BY <1>2, <4>1 DEF Needs, Cleared, Job, ProductExists, StoreExists, WarehouseExists
        <3> QED BY <3>1, <3>2
    <2> QED BY <2>1, <2>2
<1>6. Onward(r, next, saw)
    BY <1>1, <1>3 DEF Onward, Connects
<1>7. Quiet(r)
    BY <1>2, <1>6 DEF Quiet
<1> QED BY <1>1, <1>4, <1>5, <1>7 DEF Done

LEMMA CheckDone ==
    ASSUME StorefrontAssumption, IInv, UNCHANGED links, NEW r \in Requests, Check(r)
    PROVE  Done(r)
<1> DEFINE j == Job(r)
           Row(next, saw) == [pc |-> next, job |-> Job(r), saw |-> saw]
<1>1. req[r].pc = "check" /\ j \in CatalogJobs /\ UNCHANGED <<catalog, shops, orders, audit, links>>
    BY DEF Check
<1>2. Busy(r) /\ RowOK(req[r]) /\ JobOK(j) /\ j \in Jobs /\ j.op \in CatalogOps
    BY <1>1, AtWork, CatalogJobTypes DEF Busy, Final
<1>3. req[r].saw = None
    BY <1>1, <1>2 DEF RowOK
<1>4. UNCHANGED <<catalog, shops>>
    BY <1>1
<1>5. \A next, saw : Row(next, saw).pc = next /\ Row(next, saw).job = j /\ Row(next, saw).saw = saw
    OBVIOUS
<1>6. j.op = "updateStatus" => product[j.product] \in Statuses \cup {None}
    BY <1>2 DEF IInv, TablesOK, JobOK
<1> HIDE DEF Row, j
<1>7. CASE Unchanged(j)
    <2>1. Step(r, "reply", None) /\ j.op = "updateStatus"
        BY <1>3, <1>7 DEF Check, Go, Unchanged, j
    <2>2. RowOK(Row("reply", None))
        BY <1>2, <1>5, <2>1 DEF RowOK, Pcs, Final
    <2>3. "reply" \in Pcs
        BY DEF Pcs
    <2> QED BY <1>1, <1>2, <2>1, <2>2, <2>3, StepDone DEF Row, j
<1>8. CASE ~ Unchanged(j) /\ Accepted(j)
    <2>1. Step(r, "write", Seen(j))
        BY <1>8 DEF Check, j
    <2>2. /\ Seen(j) \in Statuses \cup {None}
          /\ j.op = "updateStatus" => Seen(j) \in Statuses
        BY <1>2, <1>6, <1>8 DEF Seen, Accepted, ProductExists, CatalogOps
    <2>3. j.op = "createOrder" => j.lines # {}
        BY <1>8 DEF Accepted
    <2>4. RowOK(Row("write", Seen(j)))
        BY <1>2, <1>5, <2>2, <2>3 DEF RowOK, Pcs, CatalogOps
    <2>5. Cleared(j)
        <3>1. j.op = "updateSku" => ProductExists(j.product)
            <4> SUFFICES ASSUME j.op = "updateSku" PROVE ProductExists(j.product)
                OBVIOUS
            <4>1. sku[j.sku].of = j.product /\ j.sku \in Skus /\ j.product \in Products
                BY <1>2, <1>8 DEF Accepted, JobOK
            <4> QED BY <4>1, NoneIsNoValue DEF IInv, Refers, SkusRefer, SkuExists
        <3> QED BY <1>8, <3>1 DEF Accepted, Cleared
    <2>6. "write" \in Pcs
        BY DEF Pcs
    <2>7. Kept(r, Seen(j))
        BY <1>2 DEF Kept, CatalogOps, j
    <2> QED BY <1>1, <1>2, <2>1, <2>2, <2>4, <2>5, <2>6, <2>7, StepDone DEF Row, j
<1>9. CASE ~ Unchanged(j) /\ ~ Accepted(j)
    <2>1. Go(r, "rejected")
        BY <1>9 DEF Check, j
    <2>2. RowOK(Row("rejected", req[r].saw))
        BY <1>2, <1>5 DEF RowOK, Pcs, Final
    <2>3. "rejected" \in Pcs /\ req[r].saw \in Statuses \cup Stores \cup {None}
        BY <1>2 DEF Pcs, Final, RowOK
    <2> QED BY <1>1, <1>2, <2>1, <2>2, <2>3, StepDone DEF Row, j, Go
<1> QED BY <1>7, <1>8, <1>9

-----------------------------------------------------------------------------
(***************************************************************************)
(* What comes in from Shopify.                                             *)
(***************************************************************************)
LEMMA StartOAuthDone ==
    ASSUME StorefrontAssumption, IInv, NEW r \in Requests, StartOAuth(r)
    PROVE  Done(r)
<1>1. /\ req[r].pc = "check" /\ Job(r).op = "startOAuth" /\ shop' = shop
      /\ UNCHANGED <<catalog, shops, orders, audit>>
      /\ \/ Job(r).store \in ShopifyStores /\ invited' = invited \cup {Job(r).store} /\ Go(r, "ok")
         \/ invited' = invited /\ Go(r, "rejected")
    BY DEF StartOAuth, At
<1>2. Busy(r) /\ Connects(r, "ok") /\ Connects(r, "rejected")
    BY <1>1 DEF Busy, Final, Connects
<1>3. /\ shop' \in [ShopifyStores -> Shops \cup {None}] /\ invited' \subseteq ShopifyStores
      /\ audit' \in Seq(AuditRow)
    BY <1>1 DEF IInv, TablesOK
<1>4. Sound
    BY <1>1, <1>3, TablesStay
<1> QED BY <1>1, <1>2, <1>4, QuietDone

LEMMA CheckOAuthDone ==
    ASSUME StorefrontAssumption, IInv, NEW r \in Requests, CheckOAuth(r)
    PROVE  Done(r)
<1> DEFINE next == IF Job(r).store \in invited THEN "write" ELSE "rejected"
           row == [pc |-> next, job |-> Job(r), saw |-> req[r].saw]
<1>1. /\ req[r].pc = "check" /\ Job(r).op = "completeOAuth" /\ Step(r, next, req[r].saw)
      /\ UNCHANGED <<catalog, shops, orders, audit, links>>
    BY DEF CheckOAuth, At, Go
<1>2. Busy(r) /\ RowOK(req[r]) /\ Job(r) \in Jobs
    BY <1>1, AtWork DEF Busy, Final
<1>3. Kept(r, req[r].saw)
    BY <1>1 DEF Kept
<1>4. next \in {"write", "rejected"}
    OBVIOUS
<1>5. row.pc = next /\ row.job = Job(r) /\ row.saw = req[r].saw
    OBVIOUS
<1> HIDE DEF next, row
<1>6. RowOK(row)
    BY <1>1, <1>2, <1>4, <1>5 DEF RowOK, Pcs, Final
<1>7. Cleared(Job(r))
    BY <1>1 DEF Cleared
<1>8. next \in Pcs /\ next \notin {"reply", "ok", "ensure", "idle"} /\ req[r].saw \in Statuses \cup Stores \cup {None}
    BY <1>2, <1>4 DEF Pcs, Final, RowOK
<1> QED BY <1>1, <1>2, <1>3, <1>6, <1>7, <1>8, StepDone DEF row

LEMMA CompleteOAuthDone ==
    ASSUME StorefrontAssumption, IInv, NEW r \in Requests, CompleteOAuth(r)
    PROVE  Done(r)
<1>1. /\ req[r].pc = "write" /\ Job(r).op = "completeOAuth" /\ invited' = invited
      /\ shop' = [shop EXCEPT ![Job(r).store] = Job(r).shop] /\ Go(r, "audit")
      /\ UNCHANGED <<catalog, shops, orders, audit>>
    BY DEF CompleteOAuth, At
<1>2. Job(r).shop \in Shops
    BY <1>1, AtWork DEF JobOK
<1>3. /\ shop' \in [ShopifyStores -> Shops \cup {None}] /\ invited' \subseteq ShopifyStores
      /\ audit' \in Seq(AuditRow)
    BY <1>1, <1>2 DEF IInv, TablesOK
<1>4. Sound
    BY <1>1, <1>3, TablesStay
<1>5. Busy(r) /\ Connects(r, "audit")
    BY <1>1 DEF Busy, Final, Connects, IInv, TablesOK
<1> QED BY <1>1, <1>4, <1>5, QuietDone

LEMMA FindConnectionDone ==
    ASSUME StorefrontAssumption, IInv, NEW r \in Requests, FindConnection(r)
    PROVE  Done(r)
<1>1. /\ req[r].pc = "check" /\ Job(r).op = "webhook"
      /\ UNCHANGED <<catalog, shops, orders, audit, links>>
    BY DEF FindConnection, At
<1>2. Busy(r) /\ RowOK(req[r]) /\ Job(r) \in Jobs
    BY <1>1, AtWork DEF Busy, Final
<1>3. /\ shop' \in [ShopifyStores -> Shops \cup {None}] /\ invited' \subseteq ShopifyStores
      /\ audit' \in Seq(AuditRow)
    BY <1>1 DEF IInv, TablesOK, links
<1>4. CASE Go(r, "ok")
    <2>1. Sound
        BY <1>1, <1>3, TablesStay
    <2>2. Connects(r, "ok")
        BY <1>1 DEF Connects, links
    <2> QED BY <1>1, <1>2, <1>4, <2>1, <2>2, QuietDone
<1>5. ASSUME NEW s \in ShopifyStores, shop[s] = Job(r).shop, Step(r, "ensure", s)
      PROVE  Done(r)
    <2> DEFINE row == [pc |-> "ensure", job |-> Job(r), saw |-> s]
    <2>1. row.pc = "ensure" /\ row.job = Job(r) /\ row.saw = s
        OBVIOUS
    <2>2. s \in Stores
        BY NoneIsNoValue
    <2> HIDE DEF row
    <2>3. RowOK(row)
        BY <1>1, <1>2, <2>1, <2>2 DEF RowOK, Pcs
    <2>4. "ensure" \in Pcs
        BY DEF Pcs
    <2>5. Found(r, s)
        BY <1>5 DEF Found
    <2> QED BY <1>1, <1>2, <1>5, <2>2, <2>3, <2>4, <2>5, StepDone DEF row
<1> QED BY <1>4, <1>5 DEF FindConnection

LEMMA EnsureConnectionDone ==
    ASSUME StorefrontAssumption, IInv, NEW r \in Requests, EnsureConnection(r)
    PROVE  Done(r)
<1> DEFINE next == IF store[req[r].saw].active THEN "write" ELSE "rejected"
           row == [pc |-> next, job |-> Job(r), saw |-> req[r].saw]
<1>1. /\ req[r].pc = "ensure" /\ Job(r).op = "webhook" /\ Step(r, next, req[r].saw)
      /\ UNCHANGED <<catalog, shops, orders, audit, links>>
    BY DEF EnsureConnection, At, Go
<1>2. Busy(r) /\ RowOK(req[r]) /\ Job(r) \in Jobs
    BY <1>1, AtWork DEF Busy, Final
<1>3. Kept(r, req[r].saw)
    BY <1>1 DEF Kept
<1>4. next \in {"write", "rejected"}
    OBVIOUS
<1>5. row.pc = next /\ row.job = Job(r) /\ row.saw = req[r].saw
    OBVIOUS
<1> HIDE DEF next, row
<1>6. RowOK(row)
    BY <1>1, <1>2, <1>4, <1>5 DEF RowOK, Pcs, Final, Job
<1>7. Cleared(Job(r))
    BY <1>1 DEF Cleared
<1>8. next \in Pcs /\ next \notin {"reply", "ok", "ensure", "idle"} /\ req[r].saw \in Statuses \cup Stores \cup {None}
    BY <1>2, <1>4 DEF Pcs, Final, RowOK
<1> QED BY <1>1, <1>2, <1>3, <1>6, <1>7, <1>8, StepDone DEF row

LEMMA ImportOrderDone ==
    ASSUME StorefrontAssumption, IInv, NEW r \in Requests, ImportOrder(r)
    PROVE  Done(r)
<1> DEFINE s == req[r].saw
           j == Job(r)
           new == ~ KnownOrder(s, j) /\ j.lines # {} /\ Insertable(j)
<1>1. /\ req[r].pc = "write" /\ j.op = "webhook" /\ Go(r, "reply")
      /\ UNCHANGED <<catalog, shops, links>>
    BY DEF ImportOrder, At
<1>2. RowOK(req[r]) /\ JobOK(j) /\ Busy(r)
    BY <1>1, AtWork DEF Busy, Final
<1>3. s \in Stores /\ j.ext \in Externals
    BY <1>1, <1>2, NoneIsNoValue DEF RowOK, JobOK, Job
<1>4. CASE new
    <2>1. InsertOrder(r, s, j.ext)
        BY <1>4 DEF ImportOrder
    <2> QED BY <1>1, <1>3, <1>4, <2>1, InsertDone
<1>5. CASE ~ new
    <2>1. orders' = orders /\ audit' = audit
        BY <1>5 DEF ImportOrder
    <2>2. audit' \in Seq(AuditRow) /\ shop' \in [ShopifyStores -> Shops \cup {None}]
          /\ invited' \subseteq ShopifyStores
        BY <1>1, <2>1 DEF IInv, TablesOK, links
    <2>3. Sound
        BY <1>1, <2>1, <2>2, TablesStay
    <2>4. Connects(r, "reply")
        BY <1>1 DEF Connects, links
    <2> QED BY <1>1, <1>2, <2>1, <2>3, <2>4, QuietDone
<1> QED BY <1>4, <1>5

-----------------------------------------------------------------------------
(***************************************************************************)
(* The invariant.                                                          *)
(***************************************************************************)
Arrives(r) == /\ req[r].pc = "idle" /\ req'[r].pc = "check" /\ req'[r].saw = None
              /\ orders' = orders /\ audit' = audit /\ shop' = shop
              /\ UNCHANGED <<catalog, shops>> /\ \A q \in Requests \ {r} : req'[q] = req[q]

\* Every step of the system is one of three things.
LEMMA Kinds ==
    ASSUME StorefrontAssumption, IInv, [Next]_vars
    PROVE  /\ IInv'
           /\ \/ \E r \in Requests : Quiet(r) \/ Loud(r)
              \/ \E r \in Requests : Arrives(r)
              \/ UNCHANGED <<catalog, shops, orders, audit, req, shop>>
<1> DEFINE Goal == \/ \E r \in Requests : Quiet(r) \/ Loud(r)
                   \/ \E r \in Requests : Arrives(r)
                   \/ UNCHANGED <<catalog, shops, orders, audit, req, shop>>
<1>1. ASSUME NEW r \in Requests, Done(r)
      PROVE  IInv' /\ Goal
    BY <1>1 DEF Done, Sound, IInv
<1>2. ASSUME NEW r \in Requests, UNCHANGED links,
             \/ Check(r) \/ Record(r) \/ Reply(r) \/ Fail(r)
             \/ CreateProduct(r) \/ UpdateProduct(r) \/ UpdateStatus(r)
             \/ AddSku(r) \/ UpdateSku(r) \/ DeleteSku(r)
             \/ CreateStore(r) \/ UpdateStore(r) \/ CreateWarehouse(r) \/ UpdateWarehouse(r)
             \/ CreateOrder(r)
      PROVE  Done(r)
    BY <1>2, CheckDone, RecordDone, ReplyDone, FailDone, CreateProductDone, UpdateProductDone, UpdateStatusDone,
       AddSkuDone, UpdateSkuDone, DeleteSkuDone, CreateStoreDone, UpdateStoreDone,
       CreateWarehouseDone, UpdateWarehouseDone, CreateOrderDone
<1>3. ASSUME NEW r \in Requests,
             \/ StartOAuth(r) \/ CheckOAuth(r) \/ CompleteOAuth(r)
             \/ FindConnection(r) \/ EnsureConnection(r) \/ ImportOrder(r)
      PROVE  Done(r)
    BY <1>3, StartOAuthDone, CheckOAuthDone, CompleteOAuthDone, FindConnectionDone,
       EnsureConnectionDone, ImportOrderDone
<1>4. ASSUME NEW r \in Requests, UNCHANGED links, Receive(r)
      PROVE  IInv' /\ Goal
    <2>1. /\ ReqsOK' /\ req'[r].pc = "check" /\ req'[r].saw = None
          /\ \A q \in Requests \ {r} : req'[q] = req[q]
        BY <1>4, ReceiveMoves DEF IInv
    <2>2. /\ req[r].pc = "idle" /\ orders' = orders /\ audit' = audit /\ shop' = shop
          /\ UNCHANGED <<catalog, shops>>
        BY <1>4 DEF Receive, links
    <2>3. audit' \in Seq(AuditRow) /\ shop' \in [ShopifyStores -> Shops \cup {None}]
          /\ invited' \subseteq ShopifyStores
        BY <1>4, <2>2 DEF IInv, TablesOK, links
    <2>4. Sound
        BY <2>2, <2>3, TablesStay
    <2>5. \A q \in Requests : Needs(q)'
        <3> TAKE q \in Requests
        <3>1. CASE q = r
            BY <2>1, <3>1 DEF Needs
        <3>2. CASE q # r
            BY <2>1, <2>2, <3>2 DEF IInv, Needs, Cleared, Job, ProductExists, StoreExists,
                                    WarehouseExists, catalog, shops
        <3> QED BY <3>1, <3>2
    <2>6. Arrives(r)
        BY <2>1, <2>2 DEF Arrives
    <2> QED BY <2>1, <2>4, <2>5, <2>6 DEF IInv, Sound
<1>5. ASSUME UNCHANGED <<catalog, shops, orders, audit, req, shop>>, invited' \subseteq invited
      PROVE  IInv' /\ Goal
    <2>1. audit' \in Seq(AuditRow) /\ shop' \in [ShopifyStores -> Shops \cup {None}]
          /\ invited' \subseteq ShopifyStores
        BY <1>5 DEF IInv, TablesOK
    <2>2. Sound
        BY <1>5, <2>1, TablesStay
    <2>3. ReqsOK' /\ \A q \in Requests : Needs(q)'
        BY <1>5 DEF IInv, ReqsOK, Needs, Cleared, Job, ProductExists, StoreExists, WarehouseExists,
                    catalog, shops
    <2> QED BY <1>5, <2>2, <2>3 DEF IInv, Sound
<1>6. ASSUME NEW s \in Stores, ExpireInvitation(s)
      PROVE  IInv' /\ Goal
    BY <1>5, <1>6 DEF ExpireInvitation
<1>7. ASSUME UNCHANGED vars
      PROVE  IInv' /\ Goal
    BY <1>5, <1>7 DEF vars, links
<1> HIDE DEF Goal
<1>8. IInv' /\ Goal
    BY <1>1, <1>2, <1>3, <1>4, <1>6, <1>7 DEF Next, CatalogNext
<1> QED BY <1>8 DEF Goal

LEMMA InitInv ==
    ASSUME StorefrontAssumption, Init
    PROVE  IInv
<1>1. /\ product = OpeningProduct /\ sku = OpeningSku /\ store = OpeningStore
      /\ warehouse = [w \in Warehouses |-> [at |-> None, name |-> None]]
      /\ orders = {} /\ audit = <<>> /\ shop = OpeningShop /\ invited \subseteq ShopifyStores
      /\ req = [r \in Requests |-> [pc |-> "idle", job |-> None, saw |-> None]]
    BY DEF Init, CatalogInit, StorefrontAssumption
<1>2. [at |-> None, name |-> None] \in WarehouseRow
    BY DEF WarehouseRow
<1>3. TablesOK
    BY <1>1, <1>2 DEF TablesOK, StorefrontAssumption
<1>4. SkusRefer /\ StoresDiffer
    BY <1>1 DEF StorefrontAssumption, SkusRefer, StoresDiffer, SkuExists, ProductExists,
                StoreExists, StoreNameFree
<1>5. WarehousesRefer /\ OrdersRefer
    BY <1>1 DEF WarehousesRefer, WarehouseExists, OrdersRefer
<1>6. ReqsOK /\ \A r \in Requests : Needs(r)
    BY <1>1 DEF ReqsOK, RowOK, Needs, Pcs
<1> QED BY <1>3, <1>4, <1>5, <1>6 DEF IInv, Refers

LEMMA Invariance ==
    ASSUME StorefrontAssumption
    PROVE  Spec => []IInv
<1>1. Init => IInv
    BY InitInv
<1>2. IInv /\ [Next]_vars => IInv'
    BY Kinds
<1> QED BY <1>1, <1>2, PTL DEF Spec

LEMMA TypeOKFromInv ==
    ASSUME StorefrontAssumption, IInv
    PROVE  TypeOK
<1>1. \A s \in Skus : SkuExists(s) => ProductExists(sku[s].of) /\ CodeFree(sku[s].of, s, sku[s].code)
    <2> SUFFICES ASSUME NEW s \in Skus, SkuExists(s), NEW t \in Skus \ {s}
                 PROVE  /\ ProductExists(sku[s].of)
                        /\ sku[t] # [of |-> sku[s].of, code |-> sku[s].code]
        BY DEF IInv, Refers, SkusRefer, CodeFree
    <2>1. sku[s] \in SkuRow /\ sku[t] \in SkuRow
        BY DEF IInv, TablesOK
    <2>2. sku[s] = [of |-> sku[s].of, code |-> sku[s].code]
        BY <2>1 DEF SkuRow
    <2> QED BY <2>2 DEF IInv, Refers, SkusRefer
<1>2. \A w \in Warehouses : WarehouseExists(w) =>
         StoreExists(warehouse[w].at) /\ WarehouseNameFree(w, warehouse[w].at, warehouse[w].name)
    <2> SUFFICES ASSUME NEW w \in Warehouses, WarehouseExists(w), NEW v \in Warehouses \ {w}
                 PROVE  /\ StoreExists(warehouse[w].at)
                        /\ warehouse[v] # [at |-> warehouse[w].at, name |-> warehouse[w].name]
        BY DEF IInv, Refers, WarehousesRefer, WarehouseNameFree
    <2>1. warehouse[w] \in WarehouseRow
        BY DEF IInv, TablesOK
    <2>2. warehouse[w] = [at |-> warehouse[w].at, name |-> warehouse[w].name]
        BY <2>1 DEF WarehouseRow
    <2> QED BY <2>2 DEF IInv, Refers, WarehousesRefer
<1>3. \A r \in Requests : /\ req[r].pc \in Pcs /\ req[r].job \in Jobs \cup {None}
                          /\ req[r].saw \in Statuses \cup Stores \cup {None}
    BY DEF IInv, ReqsOK, RowOK
<1> QED BY <1>1, <1>2, <1>3 DEF IInv, TablesOK, Refers, StoresDiffer, OrdersRefer, TypeOK, Pcs

\* Storefront's type invariant: the tables keep their types, every reference is to a row
\* that exists, and the codes, names and numbers that the schema declares unique are,
\* for any jobs, any number of requests and any overlap (schema.prisma:110-296).
THEOREM StorefrontTypeOK == Spec => []TypeOK
<1> USE StorefrontAssumption
<1>1. IInv => TypeOK
    BY TypeOKFromInv
<1> QED BY <1>1, Invariance, PTL

-----------------------------------------------------------------------------
(***************************************************************************)
(* The audit log.                                                          *)
(***************************************************************************)
Ours(r) == \E o \in orders : o.by = r

\* AuditFollowsWrites for one request.
Traced(r) ==
    /\ \A i, j \in Rows(r) : i = j
    /\ Ours(r) => Rows(r) # {}
    /\ req[r].pc = "ok" /\ Job(r).op \notin {"startOAuth", "webhook"}
       /\ (Job(r).op = "updateStatus" => req[r].saw # None) => Rows(r) # {}
    /\ req[r].pc = "reply" /\ Job(r).op = "createOrder" => Rows(r) # {}
    /\ Rows(r) # {} => /\ req[r].pc \in {"reply", "ok", "failed"}
                       /\ Job(r).op \in {"createOrder", "webhook"} => Ours(r)

AllTraced == \A r \in Requests : Traced(r)

\* A request that a step does not touch.
LEMMA TracedStays ==
    ASSUME NEW r \in Requests, Traced(r), req'[r] = req[r], Ours(r)' <=> Ours(r), Rows(r)' = Rows(r)
    PROVE  Traced(r)'
BY DEF Traced, Job

LEMMA NewRow ==
    ASSUME NEW row \in AuditRow, audit \in Seq(AuditRow), audit' = Append(audit, row)
    PROVE  \A r \in Requests : Rows(r)' = IF r = row.by THEN Rows(r) \cup {Len(audit) + 1} ELSE Rows(r)
<1> TAKE r \in Requests
<1>1. /\ DOMAIN audit' = DOMAIN audit \cup {Len(audit) + 1}
      /\ \A i \in DOMAIN audit : audit'[i] = audit[i]
      /\ audit'[Len(audit) + 1] = row
    OBVIOUS
<1>2. Rows(r)' = {i \in DOMAIN audit' : audit'[i].by = r}
    BY DEF Rows
<1>3. CASE r = row.by
    BY <1>1, <1>2, <1>3 DEF Rows
<1>4. CASE r # row.by
    BY <1>1, <1>2, <1>4 DEF Rows
<1> QED BY <1>3, <1>4

LEMMA QuietTraced ==
    ASSUME StorefrontAssumption, IInv, NEW r \in Requests, Quiet(r), \A q \in Requests : Traced(q)
    PROVE  \A q \in Requests : Traced(q)'
<1> TAKE q \in Requests
<1>1. orders' = orders /\ audit' = audit /\ Busy(r)
    BY DEF Quiet
<1>2. Ours(q)' = Ours(q) /\ Rows(q)' = Rows(q)
    BY <1>1 DEF Ours, Rows
<1>3. PICK next \in Pcs, saw \in Statuses \cup Stores \cup {None} : Onward(r, next, saw)
    BY DEF Quiet
<1>4. CASE q # r
    <2>1. req'[q] = req[q]
        BY <1>3, <1>4 DEF Onward, Moves
    <2> QED BY <1>2, <2>1, TracedStays
<1>5. Job(r)' = Job(r) /\ req'[r].pc = next /\ req'[r].saw = saw
    BY <1>3 DEF Onward, Moves, Job
<1>6. CASE q = r /\ req[r].pc # "reply"
    <2>1. Rows(r) = {} /\ ~ Ours(r)
        BY <1>1, <1>6 DEF Busy, Final, Traced
    <2>2. /\ next = "ok" => Job(r).op \in {"startOAuth", "webhook"}
          /\ next = "reply" => Job(r).op # "createOrder"
        BY <1>3, <1>6 DEF Onward
    <2> QED BY <1>2, <1>5, <1>6, <2>1, <2>2 DEF Traced
<1>7. CASE q = r /\ req[r].pc = "reply"
    <2>1. next \in {"ok", "failed"} /\ saw = req[r].saw
        BY <1>3, <1>7 DEF Onward
    <2>2. \/ Job(r).op \in {"createOrder", "webhook"}
          \/ Job(r).op = "updateStatus" /\ req[r].saw = None
        BY <1>7, AtWork DEF RowOK, Job
    <2> QED BY <1>2, <1>5, <1>7, <2>1, <2>2 DEF Traced
<1> QED BY <1>4, <1>6, <1>7

LEMMA LoudTraced ==
    ASSUME StorefrontAssumption, IInv, NEW r \in Requests, Loud(r), \A q \in Requests : Traced(q)
    PROVE  \A q \in Requests : Traced(q)'
<1> TAKE q \in Requests
<1>1. /\ Busy(r) /\ req[r].pc \in {"write", "audit"} /\ audit' = Append(audit, AuditOf(r))
      /\ \/ Job(r).op \notin {"createOrder", "webhook"} /\ orders' = orders
         \/ \E st, ext : orders' = orders \cup {NewOrder(r, st, ext)}
    BY DEF Loud, Inserts, Busy, Final
<1>2. PICK next \in {"reply", "ok", "failed"} : Moves(r, next, req[r].saw)
    BY DEF Loud
<1>3. AuditOf(r) \in AuditRow /\ AuditOf(r).by = r
    BY <1>1, AuditOfType
<1>4. \A p \in Requests : Rows(p)' = IF p = r THEN Rows(p) \cup {Len(audit) + 1} ELSE Rows(p)
    BY <1>1, <1>3, NewRow DEF IInv, TablesOK
<1>5. \A st, ext : NewOrder(r, st, ext).by = r
    BY DEF NewOrder
<1>6. CASE q # r
    <2>1. req'[q] = req[q] /\ Rows(q)' = Rows(q)
        BY <1>2, <1>4, <1>6 DEF Moves
    <2>2. Ours(q)' <=> Ours(q)
        BY <1>1, <1>5, <1>6 DEF Ours
    <2> QED BY <2>1, <2>2, TracedStays
<1>7. CASE q = r
    <2>1. Rows(r) = {} /\ ~ Ours(r)
        BY <1>1 DEF Traced
    <2>2. Rows(r)' = {Len(audit) + 1}
        BY <1>4, <2>1
    <2>3. Job(r)' = Job(r) /\ req'[r].pc = next
        BY <1>2 DEF Moves, Job
    <2>4. Job(r).op \in {"createOrder", "webhook"} => Ours(r)'
        BY <1>1, <1>5 DEF Ours
    <2> QED BY <1>7, <2>2, <2>3, <2>4 DEF Traced
<1> QED BY <1>6, <1>7

LEMMA TracedInit == Init => AllTraced
<1> SUFFICES ASSUME Init, NEW r \in Requests PROVE Traced(r)
    BY DEF AllTraced
<1>1. audit = <<>> /\ orders = {} /\ req[r].pc = "idle"
    BY DEF Init, CatalogInit
<1>2. Rows(r) = {} /\ ~ Ours(r)
    BY <1>1 DEF Rows, Ours
<1> QED BY <1>1, <1>2 DEF Traced

LEMMA TracedKept ==
    ASSUME StorefrontAssumption, IInv, AllTraced, [Next]_vars
    PROVE  AllTraced'
<1>1. ASSUME NEW r \in Requests, Arrives(r) PROVE AllTraced'
    <2> SUFFICES ASSUME NEW q \in Requests PROVE Traced(q)'
        BY DEF AllTraced
    <2>1. Ours(q)' = Ours(q) /\ Rows(q)' = Rows(q)
        BY <1>1 DEF Arrives, Ours, Rows
    <2>2. CASE q # r
        <3>1. req'[q] = req[q]
            BY <1>1, <2>2 DEF Arrives
        <3> QED BY <2>1, <3>1, TracedStays DEF AllTraced
    <2>3. CASE q = r
        <3>1. Rows(r) = {} /\ ~ Ours(r)
            BY <1>1 DEF Arrives, Traced, AllTraced
        <3> QED BY <1>1, <2>1, <2>3, <3>1 DEF Arrives, Traced
    <2> QED BY <2>2, <2>3
<1>2. ASSUME UNCHANGED <<orders, audit, req>> PROVE AllTraced'
    BY <1>2 DEF AllTraced, Traced, Ours, Rows, Job
<1> QED BY <1>1, <1>2, Kinds, QuietTraced, LoudTraced DEF AllTraced

\* The audit log follows the writes, whatever fails and overlaps: an order and its row
\* stand or fall together, also when the request fails after the commit; no change has two
\* rows; and every request that was answered as a success has its row
\* (order.service.ts:73-92, channel.service.ts:75-108, product.service.ts:84-93).
THEOREM AuditRowsFollowWrites == Spec => []AuditFollowsWrites
<1> USE StorefrontAssumption
<1>1. IInv /\ AllTraced /\ [Next]_vars => AllTraced'
    BY TracedKept
<1>2. AllTraced => AuditFollowsWrites
    BY DEF AllTraced, Traced, Ours, AuditFollowsWrites
<1> QED BY <1>1, <1>2, TracedInit, Invariance, PTL DEF Spec

-----------------------------------------------------------------------------
(***************************************************************************)
(* An order of a shop becomes one order.                                   *)
(***************************************************************************)

\* Request r may have connected store s.
Connected(r, s) == /\ req[r].pc \in {"audit", "ok", "failed"}
                   /\ Job(r).op = "completeOAuth" /\ Job(r).store = s

\* An event at work on store s came from a shop that was connected to it.
Routed(r) == req[r].pc \in {"ensure", "write"} /\ Job(r).op = "webhook"
                => req[r].saw \in ShopifyStores /\ Job(r).shop \in Linked(req[r].saw)

\* Request r brought order o, from a shop that was connected to the order's store.
Source(r, o) == /\ req[r].pc # "idle" /\ Job(r).op = "webhook" /\ Job(r).ext = o.ext
                /\ Job(r).shop \in Linked(o.store)

LinkInv ==
    /\ \A s \in ShopifyStores : shop[s] = None \/ shop[s] \in Linked(s)
    /\ \A r \in Requests : Routed(r)
    /\ \A o \in orders : o.ext # None =>
          o.store \in ShopifyStores /\ \E r \in Requests : Source(r, o)
    /\ \A o, q \in orders : o.ext # None /\ o.ext = q.ext /\ o.store = q.store => o = q

LEMMA LinkedIs ==
    ASSUME NEW s
    PROVE  \A h : h \in Linked(s) <=> \/ h = OpeningShop[s] /\ h # None
                                     \/ \E r \in Requests : Connected(r, s) /\ Job(r).shop = h
BY DEF Linked, Connected

\* A request that is past its write stays there, and jobs do not change.
Lasting == \A r \in Requests : req[r].pc # "idle" =>
    /\ req'[r].pc # "idle" /\ req'[r].job = req[r].job
    /\ req[r].pc \in {"audit", "ok", "failed"} => req'[r].pc \in {"audit", "ok", "failed"}

LEMMA LinkedGrows ==
    ASSUME Lasting
    PROVE  \A s : Linked(s) \subseteq Linked(s)'
<1> TAKE s
<1>1. \A r \in Requests : Connected(r, s) => Connected(r, s)' /\ Job(r)' = Job(r)
    BY DEF Lasting, Connected, Job
<1>2. \A h : h \in Linked(s)' <=> \/ h = OpeningShop[s] /\ h # None
                                 \/ \E r \in Requests : Connected(r, s)' /\ Job(r)'.shop = h
    BY DEF Linked, Connected
<1> QED BY <1>1, <1>2, LinkedIs

LEMMA SourceStays ==
    ASSUME Lasting, NEW r \in Requests, NEW o, Source(r, o)
    PROVE  Source(r, o)'
<1>1. Linked(o.store) \subseteq Linked(o.store)'
    BY LinkedGrows
<1> QED BY <1>1 DEF Source, Lasting, Job

\* An order that is in the books keeps its source.
LEMMA OldOrders ==
    ASSUME Lasting, LinkInv
    PROVE  \A o \in orders : o.ext # None => o.store \in ShopifyStores /\ \E r \in Requests : Source(r, o)'
BY SourceStays DEF LinkInv

LEMMA QuietLinks ==
    ASSUME StorefrontAssumption, IInv, LinkInv, NEW r \in Requests, Quiet(r)
    PROVE  LinkInv'
<1>1. PICK next \in Pcs, saw \in Statuses \cup Stores \cup {None} : Onward(r, next, saw)
    BY DEF Quiet
<1>2. /\ Moves(r, next, saw) /\ Connects(r, next) /\ Busy(r) /\ orders' = orders
      /\ (req[r].pc = "audit" => next = "failed") /\ next # "idle"
    BY <1>1 DEF Onward, Quiet
<1>3. Lasting
    BY <1>2 DEF Lasting, Moves, Busy, Final
<1>4. Job(r)' = Job(r) /\ req'[r].pc = next /\ req'[r].saw = saw
    BY <1>2 DEF Moves, Job
<1>5. \A s \in ShopifyStores : shop'[s] = None \/ shop'[s] \in Linked(s)'
    <2> TAKE s \in ShopifyStores
    <2>1. CASE shop'[s] = shop[s]
        BY <1>3, <2>1, LinkedGrows DEF LinkInv
    <2>2. CASE shop'[s] # shop[s]
        <3>1. /\ Job(r).op = "completeOAuth" /\ Job(r).store = s
              /\ next = "audit" /\ shop'[s] = Job(r).shop
            BY <1>2, <2>2 DEF Connects
        <3> QED BY <1>4, <3>1 DEF Linked
    <2> QED BY <2>1, <2>2
<1>6. \A q \in Requests : Routed(q)'
    <2> TAKE q \in Requests
    <2>1. CASE q # r
        <3>1. req'[q] = req[q] /\ Job(q)' = Job(q)
            BY <1>2, <2>1 DEF Moves, Job
        <3>2. Routed(q)
            BY DEF LinkInv
        <3>3. \A s : s = req[q].saw => Linked(s) \subseteq Linked(s)'
            BY <1>3, LinkedGrows
        <3> QED BY <3>1, <3>2, <3>3 DEF Routed
    <2>2. CASE q = r
        <3>1. CASE next = "ensure"
            <4>1. Found(r, saw)
                BY <1>1, <3>1 DEF Onward
            <4>2. saw \in ShopifyStores /\ shop[saw] = Job(r).shop
                BY <4>1 DEF Found
            <4>3. Job(r).op = "webhook" => Job(r).shop \in Shops
                BY <1>2, AtWork DEF Busy, JobOK
            <4>4. Job(r).op = "webhook" => Job(r).shop \in Linked(saw)
                BY <4>2, <4>3, NoneIsNoValue DEF LinkInv
            <4>5. Linked(saw) \subseteq Linked(saw)'
                BY <1>3, LinkedGrows
            <4> QED BY <1>4, <2>2, <4>2, <4>4, <4>5 DEF Routed
        <3>2. CASE next = "write"
            <4>1. Job(r).op = "webhook" => req[r].pc = "ensure" /\ saw = req[r].saw
                BY <1>1, <3>2 DEF Onward, Kept
            <4>2. Job(r).op = "webhook" => saw \in ShopifyStores /\ Job(r).shop \in Linked(saw)
                BY <4>1 DEF LinkInv, Routed
            <4>3. Linked(saw) \subseteq Linked(saw)'
                BY <1>3, LinkedGrows
            <4> QED BY <1>4, <2>2, <4>2, <4>3 DEF Routed
        <3>3. CASE next \notin {"ensure", "write"}
            BY <1>4, <2>2, <3>3 DEF Routed
        <3> QED BY <3>1, <3>2, <3>3
    <2> QED BY <2>1, <2>2
<1>7. \A o \in orders' : o.ext # None =>
         o.store \in ShopifyStores /\ \E q \in Requests : Source(q, o)'
    BY <1>2, <1>3, OldOrders
<1> QED BY <1>2, <1>5, <1>6, <1>7 DEF LinkInv

LEMMA LoudLinks ==
    ASSUME StorefrontAssumption, IInv, LinkInv, NEW r \in Requests, Loud(r)
    PROVE  LinkInv'
<1>1. PICK next \in {"reply", "ok", "failed"} :
         /\ req[r].pc \in {"write", "audit"} /\ Moves(r, next, req[r].saw) /\ shop' = shop
         /\ req[r].pc = "audit" => next # "reply"
         /\ orders' = orders \/ Inserts(r)
    BY DEF Loud, Inserts
<1>2. Lasting
    BY <1>1 DEF Lasting, Moves
<1>3. \A s \in ShopifyStores : shop'[s] = None \/ shop'[s] \in Linked(s)'
    BY <1>1, <1>2, LinkedGrows DEF LinkInv
<1>4. \A q \in Requests : Routed(q)'
    <2> TAKE q \in Requests
    <2>1. CASE q # r
        <3>1. req'[q] = req[q] /\ Job(q)' = Job(q)
            BY <1>1, <2>1 DEF Moves, Job
        <3>2. Routed(q)
            BY DEF LinkInv
        <3>3. \A s : s = req[q].saw => Linked(s) \subseteq Linked(s)'
            BY <1>2, LinkedGrows
        <3> QED BY <3>1, <3>2, <3>3 DEF Routed
    <2>2. CASE q = r
        BY <1>1, <2>2 DEF Moves, Routed
    <2> QED BY <2>1, <2>2
<1>5. \A o \in orders : o.ext # None =>
         o.store \in ShopifyStores /\ \E q \in Requests : Source(q, o)'
    BY <1>2, OldOrders
<1>6. \A o, q \in orders : o.ext # None /\ o.ext = q.ext /\ o.store = q.store => o = q
    BY DEF LinkInv
<1>7. CASE orders' = orders
    BY <1>3, <1>4, <1>5, <1>6, <1>7 DEF LinkInv
<1>8. CASE Inserts(r) /\ Job(r).op = "createOrder"
    <2> DEFINE new == NewOrder(r, Job(r).store, None)
    <2>1. orders' = orders \cup {new} /\ new.ext = None
        BY <1>8 DEF Inserts, NewOrder
    <2> HIDE DEF new
    <2> QED BY <1>3, <1>4, <1>5, <1>6, <2>1 DEF LinkInv
<1>9. CASE Inserts(r) /\ Job(r).op = "webhook"
    <2> DEFINE new == NewOrder(r, req[r].saw, Job(r).ext)
    <2>1. /\ orders' = orders \cup {new} /\ ~ KnownOrder(req[r].saw, Job(r))
          /\ new.ext = Job(r).ext /\ new.store = req[r].saw
        BY <1>9 DEF Inserts, NewOrder
    <2> HIDE DEF new
    <2>2. req[r].saw \in ShopifyStores /\ Job(r).shop \in Linked(req[r].saw)
        BY <1>9 DEF LinkInv, Routed, Inserts
    <2>3. Source(r, new)
        BY <1>1, <1>9, <2>1, <2>2 DEF Source
    <2>4. \A o \in orders : ~ (o.ext = new.ext /\ o.store = new.store)
        BY <2>1 DEF KnownOrder
    <2>5. \A o \in orders' : o.ext # None =>
             o.store \in ShopifyStores /\ \E q \in Requests : Source(q, o)'
        <3> SUFFICES ASSUME NEW o \in orders', o.ext # None
                     PROVE  o.store \in ShopifyStores /\ \E q \in Requests : Source(q, o)'
            OBVIOUS
        <3>1. CASE o \in orders
            BY <1>5, <3>1
        <3>2. CASE o = new
            <4>1. \A p : p = new => Source(r, p)'
                BY <1>2, <2>3, SourceStays
            <4> QED BY <2>1, <2>2, <3>2, <4>1
        <3> QED BY <2>1, <3>1, <3>2
    <2>6. \A o, q \in orders' : o.ext # None /\ o.ext = q.ext /\ o.store = q.store => o = q
        BY <1>6, <2>1, <2>4
    <2> QED BY <1>3, <1>4, <2>5, <2>6 DEF LinkInv
<1> QED BY <1>1, <1>7, <1>8, <1>9 DEF Inserts

\* As long as no shop was ever connected to two stores, an order of a shop becomes one
\* order, however its events overlap, repeat or fail (channel.service.ts:63-70, 166-172).
THEOREM ShopOrdersOnce == Spec => []ShopOrderOnce
<1> USE StorefrontAssumption
<1>1. Init => LinkInv
    <2> SUFFICES ASSUME Init PROVE LinkInv
        OBVIOUS
    <2>1. /\ \A r \in Requests : req[r].pc = "idle"
          /\ orders = {} /\ shop = OpeningShop
        BY DEF Init, CatalogInit
    <2> QED BY <2>1 DEF LinkInv, Routed, Linked
<1>2. IInv /\ LinkInv /\ [Next]_vars => LinkInv'
    <2> SUFFICES ASSUME IInv, LinkInv, [Next]_vars PROVE LinkInv'
        OBVIOUS
    <2>1. ASSUME NEW r \in Requests, Arrives(r) PROVE LinkInv'
        <3>1. Lasting /\ orders' = orders /\ shop' = shop
            BY <2>1 DEF Arrives, Lasting
        <3>2. \A s \in ShopifyStores : shop'[s] = None \/ shop'[s] \in Linked(s)'
            BY <3>1, LinkedGrows DEF LinkInv
        <3>3. \A q \in Requests : Routed(q)'
            <4> TAKE q \in Requests
            <4>1. CASE q # r
                <5>1. req'[q] = req[q] /\ Job(q)' = Job(q)
                    BY <2>1, <4>1 DEF Arrives, Job
                <5>2. Routed(q)
                    BY DEF LinkInv
                <5>3. \A s : s = req[q].saw => Linked(s) \subseteq Linked(s)'
                    BY <3>1, LinkedGrows
                <5> QED BY <5>1, <5>2, <5>3 DEF Routed
            <4>2. CASE q = r
                BY <2>1, <4>2 DEF Arrives, Routed
            <4> QED BY <4>1, <4>2
        <3> QED BY <3>1, <3>2, <3>3, OldOrders DEF LinkInv
    <2>2. ASSUME UNCHANGED <<orders, req, shop>> PROVE LinkInv'
        BY <2>2 DEF LinkInv, Routed, Source, Linked, Job
    <2> QED BY <2>1, <2>2, Kinds, QuietLinks, LoudLinks
<1>3. IInv /\ LinkInv => ShopOrderOnce
    <2> SUFFICES ASSUME IInv, LinkInv,
                        \A s, t \in ShopifyStores : s # t => Linked(s) \cap Linked(t) = {},
                        NEW o \in orders, NEW q \in orders, o.ext # None, o.ext = q.ext
                 PROVE  o = q
        BY DEF ShopOrderOnce
    <2>1. PICK r \in Requests : Source(r, o)
        BY DEF LinkInv
    <2>2. PICK p \in Requests : Source(p, q)
        BY DEF LinkInv
    <2>3. Job(r).shop = Job(p).shop
        <3>1. Job(r) \in Jobs /\ Job(p) \in Jobs
            BY <2>1, <2>2, AtWork DEF Source
        <3>2. Job(r).op = "webhook" /\ Job(p).op = "webhook" /\ Job(r).ext = Job(p).ext
            BY <2>1, <2>2 DEF Source
        <3> QED BY <3>1, <3>2 DEF StorefrontAssumption
    <2>4. o.store = q.store
        BY <2>1, <2>2, <2>3 DEF LinkInv, Source
    <2> QED BY <2>4 DEF LinkInv
<1> QED BY <1>1, <1>2, <1>3, Invariance, PTL DEF Spec
-----------------------------------------------------------------------------
(***************************************************************************)
(* The review of a product.  A request that set out to change a status     *)
(* goes by the status it read.  Whatever overlaps or fails, that status is *)
(* one the product came to by changes that were written, and so is the     *)
(* product's own: every write joins the changes that later ones go by.     *)
(***************************************************************************)
Reviewing(r) == req[r].pc # "idle" /\ Job(r).op = "updateStatus" /\ req[r].saw # None
Move(r) == <<req[r].saw, Job(r).to>>

\* The changes of p that may have been written.
Written == {"audit", "ok", "failed"}
Moved(p) == {Move(r) : r \in {q \in Reviewers(p) : req[q].pc \in Written}}

\* The statuses that changes of p go by, and its own, follow from the first one.
Follows(p) == \A T \in SUBSET Statuses : Closed(T, FirstStatus(p), Moved(p)) =>
    /\ \A r \in Reviewers(p) : req[r].saw \in T
    /\ product[p] # None => product[p] \in T

RowsTell == \A i \in DOMAIN audit : LET r == audit[i].by IN
    Reviewing(r) => <<audit[i].from, audit[i].to>> = Move(r)

TrailInv ==
    /\ RowsTell
    /\ \A r \in Requests : Reviewing(r) => Job(r).to \in Transitions[req[r].saw]
    /\ \A p \in Products : OpeningProduct[p] # None => product[p] # None
    /\ \A p \in Products : Follows(p)

\* What a step of request r does to the products and the log.
Goes(r) == Reviewing(r) =>
    /\ req'[r].pc # "idle" /\ req'[r].job = req[r].job /\ req'[r].saw = req[r].saw
    /\ req[r].pc \in Written => req'[r].pc \in Written
Looks(r) ==
    /\ req[r].pc = "check" /\ Job(r)' = Job(r) /\ req'[r].saw = product[Job(r).product]
    /\ Job(r).to \in Transitions[product[Job(r).product]]
Turns(r, p) == /\ Reviewing(r) /\ Job(r).product = p
               /\ req'[r].pc = "audit" /\ product'[p] = Job(r).to

Trails(r) ==
    /\ Goes(r) /\ \A q \in Requests \ {r} : req'[q] = req[q]
    /\ \A p \in Products : \/ product'[p] = product[p]
                           \/ product[p] = None /\ product'[p] = "DRAFT"
                           \/ Turns(r, p)
    /\ \/ audit' = audit
       \/ audit' = Append(audit, AuditOf(r)) /\ AuditOf(r).by = r /\ (Reviewing(r)' => Reviewing(r))
    /\ Reviewing(r)' => Reviewing(r) \/ Looks(r)

LEMMA StepIs ==
    ASSUME IInv, NEW r \in Requests, NEW next, NEW saw, Step(r, next, saw)
    PROVE  /\ req'[r].pc = next /\ req'[r].saw = saw /\ req'[r].job = req[r].job /\ Job(r)' = Job(r)
           /\ \A q \in Requests \ {r} : req'[q] = req[q]
<1> DEFINE row == [pc |-> next, job |-> Job(r), saw |-> saw]
<1>1. row.pc = next /\ row.job = req[r].job /\ row.saw = saw
    BY DEF Job
<1>2. req' = [req EXCEPT ![r] = row]
    BY DEF Step
<1> HIDE DEF row
<1>3. req' = [q \in Requests |-> IF q = r THEN row ELSE req[q]]
    BY <1>2 DEF IInv, ReqsOK
<1> QED BY <1>1, <1>3 DEF Job

\* A step of a request that is not about a status.
LEMMA OtherTrails ==
    ASSUME IInv, NEW r \in Requests, NEW next, NEW saw, Step(r, next, saw), Job(r).op # "updateStatus",
           \A p \in Products : product'[p] = product[p] \/ (product[p] = None /\ product'[p] = "DRAFT"),
           audit' = audit \/ audit' = Append(audit, AuditOf(r))
    PROVE  Trails(r)
<1>1. Job(r)' = Job(r) /\ \A q \in Requests \ {r} : req'[q] = req[q]
    BY StepIs
<1>2. ~ Reviewing(r) /\ ~ Reviewing(r)'
    BY <1>1 DEF Reviewing
<1>3. AuditOf(r).by = r
    BY DEF AuditOf
<1> QED BY <1>1, <1>2, <1>3 DEF Trails, Goes

\* The steps of a request that changes a status, but for its check.
LEMMA StatusTrails ==
    ASSUME StorefrontAssumption, IInv, NEW r \in Requests, Job(r).op = "updateStatus", req[r].pc # "idle",
           NEW next \in Pcs \ {"idle"}, Step(r, next, req[r].saw),
           req[r].pc \in Written => next \in Written,
           product' = product \/ (/\ product' = [product EXCEPT ![Job(r).product] = Job(r).to]
                                  /\ req[r].pc = "write" /\ next = "audit"),
           audit' = audit \/ audit' = Append(audit, AuditOf(r))
    PROVE  Trails(r)
<1>1. /\ Job(r)' = Job(r) /\ req'[r].pc = next /\ req'[r].saw = req[r].saw /\ req'[r].job = req[r].job
      /\ \A q \in Requests \ {r} : req'[q] = req[q]
    BY StepIs
<1>2. Goes(r) /\ (Reviewing(r)' => Reviewing(r))
    BY <1>1 DEF Goes, Reviewing
<1>3. AuditOf(r).by = r
    BY DEF AuditOf
<1>4. ASSUME NEW p \in Products
      PROVE  product'[p] = product[p] \/ Turns(r, p)
    <2>1. CASE product' = product
        BY <2>1
    <2>2. CASE product' = [product EXCEPT ![Job(r).product] = Job(r).to] /\ req[r].pc = "write" /\ next = "audit"
        <3>1. product'[p] = IF p = Job(r).product THEN Job(r).to ELSE product[p]
            BY <2>2 DEF IInv, TablesOK
        <3>2. Reviewing(r)
            BY <2>2, AtWork, NoneIsNoValue DEF RowOK, Reviewing, Job
        <3> QED BY <1>1, <2>2, <3>1, <3>2 DEF Turns
    <2> QED BY <2>1, <2>2
<1> QED BY <1>1, <1>2, <1>3, <1>4 DEF Trails

LEMMA CheckTrails ==
    ASSUME StorefrontAssumption, IInv, NEW r \in Requests, Check(r)
    PROVE  Trails(r)
<1>1. req[r].pc = "check" /\ Job(r) \in CatalogJobs /\ product' = product /\ audit' = audit
    BY DEF Check, catalog
<1>2. req[r].saw = None
    BY <1>1 DEF IInv, ReqsOK, RowOK
<1>3. \E next, saw : Step(r, next, saw)
    BY DEF Check, Go
<1>4. CASE Job(r).op # "updateStatus"
    BY <1>1, <1>3, <1>4, OtherTrails
<1>5. CASE Job(r).op = "updateStatus" /\ ~ (~ Unchanged(Job(r)) /\ Accepted(Job(r)))
    <2>1. PICK next \in {"reply", "rejected"} : Step(r, next, req[r].saw)
        BY <1>5 DEF Check, Go
    <2>2. next \in Pcs \ {"idle"} /\ req[r].pc \notin Written
        BY <1>1 DEF Pcs, Final, Written
    <2> QED BY <1>1, <1>5, <2>1, <2>2, StatusTrails
<1>6. CASE Job(r).op = "updateStatus" /\ ~ Unchanged(Job(r)) /\ Accepted(Job(r))
    <2>1. Step(r, "write", Seen(Job(r)))
        BY <1>6 DEF Check
    <2>2. Seen(Job(r)) = product[Job(r).product] /\ Job(r).to \in Transitions[product[Job(r).product]]
        BY <1>6 DEF Seen, Accepted, Permitted
    <2>3. /\ Job(r)' = Job(r) /\ req'[r].saw = Seen(Job(r))
          /\ \A q \in Requests \ {r} : req'[q] = req[q]
        BY <2>1, StepIs
    <2>4. Looks(r)
        BY <1>1, <2>2, <2>3 DEF Looks
    <2>5. ~ Reviewing(r)
        BY <1>2 DEF Reviewing
    <2> QED BY <1>1, <2>3, <2>4, <2>5 DEF Trails, Goes
<1> QED BY <1>4, <1>5, <1>6

LEMMA LogTrails ==
    ASSUME StorefrontAssumption, IInv, NEW r \in Requests, Record(r) \/ Reply(r) \/ Fail(r)
    PROVE  Trails(r)
<1>1. /\ req[r].pc \in {"check", "ensure", "write", "audit", "reply"} /\ product' = product
      /\ audit' = audit \/ audit' = Append(audit, AuditOf(r))
      /\ \E next \in {"ok", "failed"} : Step(r, next, req[r].saw)
    BY DEF Record, Reply, Fail, Go, catalog
<1>2. "ok" \in Pcs \ {"idle"} /\ "failed" \in Pcs \ {"idle"} /\ {"ok", "failed"} \subseteq Written
    BY DEF Pcs, Final, Written
<1>3. CASE Job(r).op = "updateStatus"
    BY <1>1, <1>2, <1>3, StatusTrails
<1>4. CASE Job(r).op # "updateStatus"
    BY <1>1, <1>4, OtherTrails
<1> QED BY <1>3, <1>4

LEMMA WriteTrails ==
    ASSUME StorefrontAssumption, IInv, NEW r \in Requests,
           \/ UpdateProduct(r) \/ AddSku(r) \/ UpdateSku(r) \/ DeleteSku(r) \/ CreateStore(r)
           \/ UpdateStore(r) \/ CreateWarehouse(r) \/ UpdateWarehouse(r)
    PROVE  Trails(r)
<1>1. /\ Job(r).op # "updateStatus" /\ product' = product /\ audit' = audit
      /\ Step(r, "audit", req[r].saw) \/ Step(r, "rejected", req[r].saw)
    BY DEF UpdateProduct, AddSku, UpdateSku, DeleteSku, CreateStore, UpdateStore, CreateWarehouse,
           UpdateWarehouse, Attempt, At, Go, catalog
<1> QED BY <1>1, OtherTrails

LEMMA ProductTrails ==
    ASSUME StorefrontAssumption, IInv, NEW r \in Requests, CreateProduct(r) \/ UpdateStatus(r)
    PROVE  Trails(r)
<1>1. CASE CreateProduct(r)
    <2>1. /\ Job(r).op = "createProduct" /\ product[Job(r).product] = None /\ audit' = audit
          /\ product' = product \/ product' = [product EXCEPT ![Job(r).product] = "DRAFT"]
          /\ Step(r, "audit", req[r].saw) \/ Step(r, "rejected", req[r].saw)
        BY <1>1 DEF CreateProduct, Attempt, At, Go, catalog
    <2>2. product \in [Products -> Statuses \cup {None}]
        BY DEF IInv, TablesOK
    <2>3. \A p \in Products : product'[p] = product[p] \/ (product[p] = None /\ product'[p] = "DRAFT")
        BY <2>1, <2>2
    <2> QED BY <2>1, <2>3, OtherTrails
<1>2. CASE UpdateStatus(r)
    <2>1. /\ Job(r).op = "updateStatus" /\ req[r].pc = "write" /\ audit' = audit
          /\ product' = [product EXCEPT ![Job(r).product] = Job(r).to]
          /\ Step(r, "audit", req[r].saw)
        BY <1>2 DEF UpdateStatus, Attempt, At, Go
    <2>2. "audit" \in Pcs \ {"idle"} /\ req[r].pc \notin Written
        BY <2>1 DEF Pcs, Written
    <2> QED BY <2>1, <2>2, StatusTrails
<1> QED BY <1>1, <1>2

LEMMA ChannelTrails ==
    ASSUME StorefrontAssumption, IInv, NEW r \in Requests,
           \/ StartOAuth(r) \/ CheckOAuth(r) \/ CompleteOAuth(r)
           \/ FindConnection(r) \/ EnsureConnection(r) \/ ImportOrder(r) \/ CreateOrder(r)
    PROVE  Trails(r)
<1>1. /\ Job(r).op # "updateStatus" /\ product' = product
      /\ audit' = audit \/ audit' = Append(audit, AuditOf(r))
    BY DEF StartOAuth, CheckOAuth, CompleteOAuth, FindConnection, EnsureConnection, ImportOrder,
           CreateOrder, InsertOrder, At, catalog
<1>2. \E next, saw : Step(r, next, saw)
    BY DEF StartOAuth, CheckOAuth, CompleteOAuth, FindConnection, EnsureConnection, ImportOrder,
           CreateOrder, Go
<1> QED BY <1>1, <1>2, OtherTrails

LEMMA ReceiveTrails ==
    ASSUME StorefrontAssumption, IInv, NEW r \in Requests, Receive(r)
    PROVE  Trails(r)
<1>1. req[r].pc = "idle" /\ product' = product /\ audit' = audit
    BY DEF Receive, catalog
<1>2. req'[r].saw = None /\ \A q \in Requests \ {r} : req'[q] = req[q]
    BY ReceiveMoves DEF IInv
<1> QED BY <1>1, <1>2 DEF Trails, Goes, Reviewing

LEMMA TrailKinds ==
    ASSUME StorefrontAssumption, IInv, [Next]_vars
    PROVE  (\E r \in Requests : Trails(r)) \/ UNCHANGED <<product, audit, req>>
<1>1. ASSUME NEW s \in Stores, ExpireInvitation(s) PROVE UNCHANGED <<product, audit, req>>
    BY <1>1 DEF ExpireInvitation, catalog
<1>2. ASSUME UNCHANGED vars PROVE UNCHANGED <<product, audit, req>>
    BY <1>2 DEF vars, catalog
<1> QED BY <1>1, <1>2, ReceiveTrails, CheckTrails, LogTrails, WriteTrails, ProductTrails, ChannelTrails
        DEF Next, CatalogNext

LEMMA MovesGrow ==
    ASSUME NEW r \in Requests, Trails(r), NEW p
    PROVE  Moved(p) \subseteq Moved(p)'
<1> SUFFICES ASSUME NEW m \in Moved(p)
             PROVE  m \in Moved(p)'
    OBVIOUS
<1>1. PICK q \in Requests : q \in Reviewers(p) /\ req[q].pc \in Written /\ m = Move(q)
    BY DEF Moved, Reviewers
<1>2. CASE q # r
    <2>1. req'[q] = req[q] /\ Job(q)' = Job(q)
        BY <1>2 DEF Trails, Job
    <2>2. Move(q)' = Move(q) /\ q \in Reviewers(p)' /\ req'[q].pc \in Written
        BY <1>1, <2>1 DEF Move, Reviewers
    <2> QED BY <1>1, <2>2 DEF Moved
<1>3. CASE q = r
    <2>1. Reviewing(r)
        BY <1>1, <1>3 DEF Reviewers, Reviewing
    <2>2. /\ Job(r)' = Job(r) /\ req'[r].saw = req[r].saw /\ req'[r].pc # "idle"
          /\ req'[r].pc \in Written
        BY <1>1, <1>3, <2>1 DEF Trails, Goes, Job
    <2>3. Move(q)' = Move(q) /\ q \in Reviewers(p)'
        BY <1>1, <1>3, <2>2 DEF Move, Reviewers
    <2> QED BY <1>1, <1>3, <2>2, <2>3 DEF Moved
<1> QED BY <1>2, <1>3

LEMMA RowsTellKept ==
    ASSUME StorefrontAssumption, IInv, AllTraced, TrailInv, NEW r \in Requests, Trails(r)
    PROVE  RowsTell'
<1>1. audit \in Seq(AuditRow) /\ \A i \in DOMAIN audit : audit[i].by \in Requests
    <2>1. audit \in Seq(AuditRow)
        BY DEF IInv, TablesOK
    <2>2. \A row \in AuditRow : row.by \in Requests
        BY DEF AuditRow
    <2> QED BY <2>1, <2>2
\* The rows that were there.
<1>2. ASSUME NEW i \in DOMAIN audit, NEW q \in Requests, q = audit[i].by, Reviewing(q)'
      PROVE  <<audit[i].from, audit[i].to>> = Move(q)'
    <2>1. Reviewing(q) => <<audit[i].from, audit[i].to>> = Move(q)
        BY <1>2 DEF TrailInv, RowsTell
    <2>2. CASE q # r
        <3>1. req'[q] = req[q] /\ Job(q)' = Job(q)
            BY <2>2 DEF Trails, Job
        <3>2. Reviewing(q) /\ Move(q)' = Move(q)
            BY <1>2, <3>1 DEF Reviewing, Move
        <3> QED BY <2>1, <3>2
    <2>3. CASE q = r
        <3>1. ~ Looks(r)
            <4>1. Rows(r) # {}
                BY <1>2, <2>3 DEF Rows
            <4>2. req[r].pc \in {"reply", "ok", "failed"}
                BY <4>1 DEF AllTraced, Traced
            <4> QED BY <4>2 DEF Looks
        <3>2. Reviewing(r)
            BY <1>2, <2>3, <3>1 DEF Trails
        <3>3. Move(r)' = Move(r)
            BY <3>2 DEF Trails, Goes, Move, Job
        <3> QED BY <2>1, <2>3, <3>2, <3>3
    <2> QED BY <2>2, <2>3
<1>3. CASE audit' = audit
    BY <1>1, <1>2, <1>3 DEF RowsTell
<1>4. CASE audit' = Append(audit, AuditOf(r)) /\ AuditOf(r).by = r /\ (Reviewing(r)' => Reviewing(r))
    <2>1. ASSUME Reviewing(r)' PROVE <<AuditOf(r).from, AuditOf(r).to>> = Move(r)'
        <3>1. Reviewing(r)
            BY <1>4, <2>1
        <3>2. Move(r)' = Move(r)
            BY <3>1 DEF Trails, Goes, Move, Job
        <3>3. <<AuditOf(r).from, AuditOf(r).to>> = Move(r)
            BY <3>1 DEF Reviewing, AuditOf, Move
        <3> QED BY <3>2, <3>3
    <2>2. PICK row : row = AuditOf(r)
        OBVIOUS
    <2>3. /\ DOMAIN audit' = DOMAIN audit \cup {Len(audit) + 1}
          /\ \A i \in DOMAIN audit : audit'[i] = audit[i]
          /\ audit'[Len(audit) + 1] = row
        BY <1>1, <1>4, <2>2
    <2>4. row.by = r /\ (Reviewing(r)' => <<row.from, row.to>> = Move(r)')
        BY <1>4, <2>1, <2>2
    <2> QED BY <1>1, <1>2, <2>3, <2>4 DEF RowsTell
<1> QED BY <1>3, <1>4 DEF Trails

LEMMA FollowsKept ==
    ASSUME StorefrontAssumption, IInv, TrailInv, NEW r \in Requests, Trails(r), NEW p \in Products
    PROVE  Follows(p)'
<1> SUFFICES ASSUME NEW T \in SUBSET Statuses, Closed(T, FirstStatus(p), Moved(p)')
             PROVE  /\ \A q \in Reviewers(p)' : req'[q].saw \in T
                    /\ product'[p] # None => product'[p] \in T
    BY DEF Follows, Closed, FirstStatus
<1>1. Closed(T, FirstStatus(p), Moved(p))
    BY MovesGrow DEF Closed
<1>2. /\ \A q \in Reviewers(p) : req[q].saw \in T
      /\ product[p] # None => product[p] \in T
    BY <1>1 DEF TrailInv, Follows
<1>3. ASSUME NEW q \in Reviewers(p)'
      PROVE  req'[q].saw \in T
    <2>1. q \in Requests /\ Reviewing(q)' /\ Job(q)'.product = p
        BY <1>3 DEF Reviewers, Reviewing
    <2>2. CASE q # r
        <3>1. req'[q] = req[q]
            BY <2>1, <2>2 DEF Trails
        <3>2. q \in Reviewers(p)
            BY <1>3, <3>1 DEF Reviewers, Job
        <3> QED BY <1>2, <3>1, <3>2
    <2>3. CASE q = r /\ Reviewing(r)
        <3>1. req'[r].saw = req[r].saw /\ Job(r)' = Job(r)
            BY <2>3 DEF Trails, Goes, Job
        <3>2. r \in Reviewers(p)
            BY <2>1, <2>3, <3>1 DEF Reviewers, Reviewing
        <3> QED BY <1>2, <2>3, <3>1, <3>2
    <2>4. CASE q = r /\ Looks(r)
        BY <1>2, <2>1, <2>4 DEF Looks, Reviewing
    <2> QED BY <2>1, <2>2, <2>3, <2>4 DEF Trails
<1>4. product'[p] # None => product'[p] \in T
    <2>1. CASE product'[p] = product[p]
        BY <1>2, <2>1
    <2>2. CASE product[p] = None /\ product'[p] = "DRAFT"
        BY <1>1, <2>2 DEF Closed, FirstStatus, TrailInv
    <2>3. CASE Turns(r, p)
        <3>1. r \in Reviewers(p) /\ Job(r)' = Job(r) /\ req'[r].saw = req[r].saw
            BY <2>3 DEF Turns, Trails, Goes, Reviewers, Reviewing, Job
        <3>2. Move(r)' \in Moved(p)'
            <4>1. r \in Reviewers(p)' /\ req'[r].pc \in Written
                BY <2>3, <3>1 DEF Turns, Reviewers, Written
            <4> QED BY <4>1 DEF Moved
        <3>3. Move(r)' = <<req[r].saw, Job(r).to>>
            BY <3>1 DEF Move
        <3> QED BY <1>2, <2>3, <3>1, <3>2, <3>3 DEF Closed, Turns
    <2> QED BY <2>1, <2>2, <2>3 DEF Trails
<1> QED BY <1>3, <1>4

LEMMA TrailKept ==
    ASSUME StorefrontAssumption, IInv, AllTraced, TrailInv, [Next]_vars
    PROVE  TrailInv'
<1>1. ASSUME NEW r \in Requests, Trails(r) PROVE TrailInv'
    <2>1. ASSUME NEW q \in Requests, Reviewing(q)'
          PROVE  Job(q)'.to \in Transitions[req'[q].saw]
        <3>1. CASE q # r
            <4>1. req'[q] = req[q]
                BY <1>1, <3>1 DEF Trails
            <4> QED BY <2>1, <4>1 DEF TrailInv, Reviewing, Job
        <3>2. CASE q = r /\ Reviewing(r)
            BY <1>1, <3>2 DEF Trails, Goes, TrailInv, Job
        <3>3. CASE q = r /\ Looks(r)
            BY <3>3 DEF Looks
        <3> QED BY <1>1, <2>1, <3>1, <3>2, <3>3 DEF Trails
    <2>2. ASSUME NEW p \in Products, OpeningProduct[p] # None
          PROVE  product'[p] # None
        <3>1. product[p] # None
            BY <2>2 DEF TrailInv
        <3>2. Turns(r, p) => product'[p] \in Statuses
            BY AtWork DEF Turns, Reviewing, JobOK
        <3> QED BY <1>1, <3>1, <3>2, NoneIsNoValue DEF Trails
    <2>3. RowsTell' /\ \A p \in Products : Follows(p)'
        BY <1>1, RowsTellKept, FollowsKept
    <2> QED BY <2>1, <2>2, <2>3 DEF TrailInv
<1>2. ASSUME UNCHANGED <<product, audit, req>> PROVE TrailInv'
    BY <1>2 DEF TrailInv, RowsTell, Follows, Closed, FirstStatus, Moved, Move, Reviewers, Reviewing, Job
<1> QED BY <1>1, <1>2, TrailKinds

LEMMA TrailInit ==
    ASSUME StorefrontAssumption, Init
    PROVE  TrailInv
<1>1. audit = <<>> /\ product = OpeningProduct /\ \A r \in Requests : req[r].pc = "idle"
    BY DEF Init, CatalogInit
<1>2. \A r \in Requests : ~ Reviewing(r)
    BY <1>1 DEF Reviewing
<1>3. RowsTell
    BY <1>1 DEF RowsTell
<1>4. ASSUME NEW p \in Products PROVE Follows(p)
    <2>1. Reviewers(p) = {}
        BY <1>1 DEF Reviewers
    <2> QED BY <1>1, <2>1 DEF Follows, Closed, FirstStatus
<1> QED BY <1>1, <1>2, <1>3, <1>4 DEF TrailInv

\* The changes that may have been written are those the log shows and those it lacks.
LEMMA MovedIs ==
    ASSUME IInv, AllTraced, TrailInv, NEW p
    PROVE  /\ Moved(p) \subseteq Logged(p) \cup Unlogged(p)
           /\ \A m \in Logged(p) : \E r \in Reviewers(p) : m = Move(r)
<1>1. ASSUME NEW i \in DOMAIN audit, audit[i].by \in Reviewers(p)
      PROVE  <<audit[i].from, audit[i].to>> = Move(audit[i].by)
    <2>1. Reviewing(audit[i].by)
        BY <1>1 DEF Reviewers, Reviewing
    <2> QED BY <2>1 DEF TrailInv, RowsTell
<1>2. ASSUME NEW r \in Requests, r \in Reviewers(p), req[r].pc \in Written
      PROVE  Move(r) \in Logged(p) \cup Unlogged(p)
    <2>1. CASE Rows(r) # {}
        <3>1. PICK i \in DOMAIN audit : audit[i].by = r
            BY <2>1 DEF Rows
        <3> QED BY <1>1, <1>2, <3>1 DEF Logged
    <2>2. CASE Rows(r) = {}
        <3>1. req[r].pc \in {"audit", "failed"}
            BY <1>2, <2>2 DEF AllTraced, Traced, Written, Reviewers
        <3> QED BY <1>2, <2>2, <3>1 DEF Unlogged, Move
    <2> QED BY <2>1, <2>2
<1>3. Moved(p) \subseteq Logged(p) \cup Unlogged(p)
    BY <1>2 DEF Moved, Reviewers
<1>4. \A m \in Logged(p) : \E r \in Reviewers(p) : m = Move(r)
    BY <1>1 DEF Logged
<1> QED BY <1>3, <1>4

\* The review of a product is in its audit log, for any requests, any overlap and any
\* failure: every logged change is a legal one, and starts from a status the product came
\* to by changes that are logged or whose request is unanswered or ended in an error
\* (product.service.ts:70-93).
THEOREM ReviewsLeaveTheirTrail == Spec => []ReviewTrail
<1> USE StorefrontAssumption
<1>1. IInv /\ AllTraced /\ TrailInv /\ [Next]_vars => AllTraced' /\ TrailInv'
    BY TracedKept, TrailKept
<1>2. IInv /\ AllTraced /\ TrailInv => ReviewTrail
    <2> SUFFICES ASSUME IInv, AllTraced, TrailInv, NEW p \in Products
                 PROVE  /\ \A m \in Logged(p) : m[2] \in Transitions[m[1]]
                        /\ \A T \in SUBSET Statuses :
                              Closed(T, FirstStatus(p), Logged(p) \cup Unlogged(p)) =>
                                 /\ \A m \in Logged(p) : m[1] \in T
                                 /\ product[p] # None => product[p] \in T
        BY DEF ReviewTrail
    <2>1. ASSUME NEW m \in Logged(p)
          PROVE  \E r \in Reviewers(p) : m[1] = req[r].saw /\ m[2] = Job(r).to /\ Reviewing(r)
        BY MovedIs DEF Move, Reviewers, Reviewing
    <2>2. \A m \in Logged(p) : m[2] \in Transitions[m[1]]
        BY <2>1 DEF TrailInv, Reviewers
    <2>3. ASSUME NEW T \in SUBSET Statuses,
                 Closed(T, FirstStatus(p), Logged(p) \cup Unlogged(p))
          PROVE  /\ \A m \in Logged(p) : m[1] \in T
                 /\ product[p] # None => product[p] \in T
        <3>1. Closed(T, FirstStatus(p), Moved(p))
            BY <2>3, MovedIs DEF Closed
        <3>2. /\ \A r \in Reviewers(p) : req[r].saw \in T
              /\ product[p] # None => product[p] \in T
            BY <3>1 DEF TrailInv, Follows
        <3> QED BY <2>1, <3>2
    <2> QED BY <2>2, <2>3
<1> QED BY <1>1, <1>2, TracedInit, TrailInit, Invariance, PTL DEF Spec
=============================================================================
