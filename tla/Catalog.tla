------------------------------ MODULE Catalog ------------------------------
(***************************************************************************)
(* What a merchant maintains by hand: products and SKUs (ProductService),  *)
(* stores and warehouses (StoreService), orders typed in by a person       *)
(* (OrderService.create), and the audit log they all write.                *)
(*                                                                         *)
(* Every operation has the same shape: it reads and decides (Check), makes *)
(* one write (an action per operation), and adds an audit row in a         *)
(* statement of its own (Record).  Only an order is created together with  *)
(* its audit row, in a transaction, and then read again for the answer     *)
(* (Reply).  Between these steps other requests run, and at each of them a *)
(* request may fail, before or after its statement took effect.  A write   *)
(* that violates a unique index or a foreign key is refused.               *)
(* The columns nothing is decided on, prices and descriptions among them,  *)
(* are left out; one tenant is modelled, whose id every read filters by.   *)
(* The reads of one Check are taken as one: no write comes between them    *)
(* that would not matter just as much between Check and the write.         *)
(***************************************************************************)
EXTENDS Integers, Sequences

CONSTANTS
    Requests,       \* requests, one use each
    Jobs,           \* what a request may ask for
    Products, Skus, Stores, Warehouses,   \* ids; not all rows exist
    Codes,          \* SKU codes, unique within a product
    Names,          \* names of stores and warehouses
    Numbers,        \* order numbers, unique within the tenant
    Externals,      \* orders of the channels, by their external id
    Stocked,        \* SKUs that have inventory rows
    OpeningProduct, OpeningSku, OpeningStore,   \* the tables at the start
    None

Statuses == {"DRAFT", "PENDING_REVIEW", "PUBLISHED", "OFFLINE"}

Transitions == [s \in Statuses |->
    CASE s = "DRAFT"          -> {"PENDING_REVIEW"}
      [] s = "PENDING_REVIEW" -> {"DRAFT", "PUBLISHED"}
      [] s = "PUBLISHED"      -> {"OFFLINE"}
      [] s = "OFFLINE"        -> {"DRAFT", "PUBLISHED"}]

VARIABLES
    product,    \* product[p]: its status, or None
    sku,        \* sku[s]: the product it belongs to, None if there is no such SKU, and its code
    store,      \* store[s]: its name, None if there is no such store, and isActive
    warehouse,  \* warehouse[w]: its store, None if there is no such warehouse, and its name
    orders,     \* orders with their lines
    audit,      \* AuditLog rows in the order they were written
    req         \* what each request asks for, and what it keeps in memory

catalog == <<product, sku>>
shops == <<store, warehouse>>

SkuRow == [of : Products \cup {None}, code : Codes \cup {None}]
StoreRow == [name : Names \cup {None}, active : BOOLEAN]
WarehouseRow == [at : Stores \cup {None}, name : Names \cup {None}]
OrderRow == [by : Requests, store : Stores, lines : SUBSET Skus, no : Numbers,
             status : {"PENDING_PAYMENT", "PAID"}, ext : Externals \cup {None}]
AuditRow == [by : Requests, from : Statuses \cup {None}, to : Statuses \cup {None}]

\* The requests the API takes; one that creates a row names the fresh id the row will
\* get.  A createProduct may carry SKUs, as a function from SKUs to codes; the dialogs of
\* the client send name and isActive of a store together.
ProductJobs ==
    UNION { [op : {"createProduct"}, product : Products, codes : UNION {[S -> Codes] : S \in SUBSET Skus}],
            [op : {"updateProduct"}, product : Products],
            [op : {"updateStatus"}, product : Products, to : Statuses],
            [op : {"addSku", "updateSku"}, product : Products, sku : Skus, code : Codes],
            [op : {"deleteSku"}, product : Products, sku : Skus] }
OrderJobs ==
    [op : {"createOrder"}, store : Stores, lines : SUBSET Skus, no : Numbers,
     status : {"PENDING_PAYMENT", "PAID"}]
StoreJobs ==
    UNION { [op : {"createStore"}, store : Stores, name : Names],
            [op : {"updateStore"}, store : Stores, name : Names, active : BOOLEAN],
            [op : {"createWarehouse"}, warehouse : Warehouses, store : Stores, name : Names],
            [op : {"updateWarehouse"}, warehouse : Warehouses, name : Names] }
CatalogJobs == ProductJobs \cup OrderJobs \cup StoreJobs

CatalogInit ==
    /\ product = OpeningProduct
    /\ sku = OpeningSku
    /\ store = OpeningStore
    /\ warehouse = [w \in Warehouses |-> [at |-> None, name |-> None]]
    /\ orders = {}
    /\ audit = <<>>
    /\ req = [r \in Requests |-> [pc |-> "idle", job |-> None, saw |-> None]]

-----------------------------------------------------------------------------
(***************************************************************************)
(* The life of a request.                                                  *)
(***************************************************************************)
Job(r) == req[r].job
At(r, pc, op) == req[r].pc = pc /\ Job(r).op = op
Step(r, pc, saw) == req' = [req EXCEPT ![r] = [pc |-> pc, job |-> Job(r), saw |-> saw]]
Go(r, pc) == Step(r, pc, req[r].saw)

Final == {"ok", "rejected", "failed"}

Receive(r) ==
    /\ req[r].pc = "idle"
    /\ \E j \in Jobs : req' = [req EXCEPT ![r] = [pc |-> "check", job |-> j, saw |-> None]]
    /\ UNCHANGED <<catalog, shops, orders, audit>>

ProductExists(p) == product[p] # None
SkuExists(s) == sku[s].of # None
StoreExists(s) == store[s].name # None
WarehouseExists(w) == warehouse[w].at # None
Ordered(s) == \E o \in orders : s \in o.lines

Orderable(j) ==
    /\ StoreExists(j.store) /\ store[j.store].active
    /\ \A s \in j.lines : SkuExists(s) /\ product[sku[s].of] # "OFFLINE"

Permitted(j) == j.to \in Transitions[product[j.product]]

\* What an operation demands of the rows it reads before it writes.
Accepted(j) ==
    CASE j.op \in {"createProduct", "createStore"} -> TRUE
      [] j.op \in {"updateProduct", "addSku"} -> ProductExists(j.product)
      [] j.op = "updateStatus" -> ProductExists(j.product) /\ Permitted(j)
      [] j.op = "updateSku" -> sku[j.sku].of = j.product
      [] j.op = "deleteSku" -> /\ sku[j.sku].of = j.product
                               /\ ~ Ordered(j.sku) /\ j.sku \notin Stocked
      [] j.op = "createOrder" -> j.lines # {} /\ Orderable(j)
      [] j.op \in {"updateStore", "createWarehouse"} -> StoreExists(j.store)
      [] j.op = "updateWarehouse" -> WarehouseExists(j.warehouse)

\* A product that has the requested status already is answered without a write.
Unchanged(j) == j.op = "updateStatus" /\ product[j.product] = j.to
Seen(j) == IF j.op = "updateStatus" THEN product[j.product] ELSE None

Check(r) ==
    /\ req[r].pc = "check" /\ Job(r) \in CatalogJobs
    /\ IF Unchanged(Job(r)) THEN Go(r, "reply")
       ELSE IF Accepted(Job(r)) THEN Step(r, "write", Seen(Job(r)))
       ELSE Go(r, "rejected")
    /\ UNCHANGED <<catalog, shops, orders, audit>>

AuditOf(r) == IF Job(r).op = "updateStatus"
              THEN [by |-> r, from |-> req[r].saw, to |-> Job(r).to]
              ELSE [by |-> r, from |-> None, to |-> None]

Record_BestEffort(r) ==
    /\ req[r].pc = "audit"
    /\ audit' \in {audit, Append(audit, AuditOf(r))}
    /\ Go(r, "ok")
    /\ UNCHANGED <<catalog, shops, orders>>
\* The audit row, after the write and in a statement of its own; the statement may take
\* effect and its answer be lost.
Record(r) ==
    /\ req[r].pc = "audit"
    /\ audit' = Append(audit, AuditOf(r))
    /\ \E pc \in {"ok", "failed"} : Go(r, pc)
    /\ UNCHANGED <<catalog, shops, orders>>

\* What is left to do when everything is written: an order or a product is read for the
\* answer; a webhook writes its log row, its run and its connection.
Reply(r) ==
    /\ req[r].pc = "reply"
    /\ Go(r, "ok")
    /\ UNCHANGED <<catalog, shops, orders, audit>>

\* A statement fails, the process stops or the connection to the database is lost.
Fail(r) ==
    /\ req[r].pc \in {"check", "ensure", "write", "audit", "reply"}
    /\ Go(r, "failed")
    /\ UNCHANGED <<catalog, shops, orders, audit>>

\* The write of request r: it happens if the database's constraints allow it.
Attempt(r, allowed, write) ==
    /\ req[r].pc = "write"
    /\ IF allowed THEN write /\ Go(r, "audit")
                  ELSE Go(r, "rejected") /\ UNCHANGED <<catalog, shops>>
    /\ UNCHANGED <<orders, audit>>

-----------------------------------------------------------------------------
(***************************************************************************)
(* Products and SKUs.                                                      *)
(***************************************************************************)
CodeFree(p, s, code) == \A t \in Skus \ {s} : sku[t] # [of |-> p, code |-> code]

CreateProduct(r) == LET j == Job(r)  new == DOMAIN j.codes IN
    /\ At(r, "write", "createProduct")
    /\ product[j.product] = None /\ \A s \in new : ~ SkuExists(s)
    /\ Attempt(r, \A s, t \in new : j.codes[s] = j.codes[t] => s = t,
               /\ product' = [product EXCEPT ![j.product] = "DRAFT"]
               /\ sku' = [s \in Skus |-> IF s \in new THEN [of |-> j.product, code |-> j.codes[s]]
                                                      ELSE sku[s]]
               /\ UNCHANGED shops)

\* Name, description, market and currency: nothing here reads them.
UpdateProduct(r) ==
    /\ At(r, "write", "updateProduct")
    /\ Attempt(r, TRUE, UNCHANGED <<catalog, shops>>)

\* The update names the product only by its id.
UpdateStatus(r) ==
    /\ At(r, "write", "updateStatus")
    /\ Attempt(r, TRUE, /\ product' = [product EXCEPT ![Job(r).product] = Job(r).to]
                        /\ UNCHANGED <<sku, shops>>)

AddSku(r) == LET j == Job(r) IN
    /\ At(r, "write", "addSku")
    /\ ~ SkuExists(j.sku)
    /\ Attempt(r, CodeFree(j.product, j.sku, j.code),
               /\ sku' = [sku EXCEPT ![j.sku] = [of |-> j.product, code |-> j.code]]
               /\ UNCHANGED <<product, shops>>)

UpdateSku(r) == LET j == Job(r) IN
    /\ At(r, "write", "updateSku")
    /\ Attempt(r, SkuExists(j.sku) /\ CodeFree(sku[j.sku].of, j.sku, j.code),
               /\ sku' = [sku EXCEPT ![j.sku] = [of |-> sku[j.sku].of, code |-> j.code]]
               /\ UNCHANGED <<product, shops>>)

\* An order line that appeared since the count refuses the deletion by its foreign key.
DeleteSku(r) == LET j == Job(r) IN
    /\ At(r, "write", "deleteSku")
    /\ Attempt(r, SkuExists(j.sku) /\ ~ Ordered(j.sku),
               /\ sku' = [sku EXCEPT ![j.sku] = [of |-> None, code |-> None]]
               /\ UNCHANGED <<product, shops>>)

-----------------------------------------------------------------------------
(***************************************************************************)
(* Stores and warehouses.                                                  *)
(***************************************************************************)
StoreNameFree(s, name) == \A t \in Stores \ {s} : store[t].name # name
WarehouseNameFree(w, at, name) ==
    \A v \in Warehouses \ {w} : warehouse[v] # [at |-> at, name |-> name]

CreateStore(r) == LET j == Job(r) IN
    /\ At(r, "write", "createStore")
    /\ ~ StoreExists(j.store)
    /\ Attempt(r, StoreNameFree(j.store, j.name),
               /\ store' = [store EXCEPT ![j.store] = [name |-> j.name, active |-> TRUE]]
               /\ UNCHANGED <<catalog, warehouse>>)

UpdateStore(r) == LET j == Job(r) IN
    /\ At(r, "write", "updateStore")
    /\ Attempt(r, StoreNameFree(j.store, j.name),
               /\ store' = [store EXCEPT ![j.store] = [name |-> j.name, active |-> j.active]]
               /\ UNCHANGED <<catalog, warehouse>>)

CreateWarehouse(r) == LET j == Job(r) IN
    /\ At(r, "write", "createWarehouse")
    /\ ~ WarehouseExists(j.warehouse)
    /\ Attempt(r, WarehouseNameFree(j.warehouse, j.store, j.name),
               /\ warehouse' = [warehouse EXCEPT ![j.warehouse] =
                                  [at |-> j.store, name |-> j.name]]
               /\ UNCHANGED <<catalog, store>>)

UpdateWarehouse(r) == LET j == Job(r)  at == warehouse[Job(r).warehouse].at IN
    /\ At(r, "write", "updateWarehouse")
    /\ Attempt(r, WarehouseNameFree(j.warehouse, at, j.name),
               /\ warehouse' = [warehouse EXCEPT ![j.warehouse] = [at |-> at, name |-> j.name]]
               /\ UNCHANGED <<catalog, store>>)

-----------------------------------------------------------------------------
(***************************************************************************)
(* Orders.                                                                 *)
(***************************************************************************)
NewOrder(r, st, ext) == [by |-> r, store |-> st, lines |-> Job(r).lines, no |-> Job(r).no,
                         status |-> Job(r).status, ext |-> ext]

Insertable_AnyNumber(j) == \A s \in j.lines : SkuExists(s)

\* The order's number is free and its lines refer to SKUs that exist.
Insertable(j) == (\A o \in orders : o.no # j.no) /\ \A s \in j.lines : SkuExists(s)

InsertOrder_NoAudit(r, st, ext) ==
    /\ orders' = orders \cup {NewOrder(r, st, ext)}
    /\ UNCHANGED audit
InsertOrder(r, st, ext) ==
    /\ orders' = orders \cup {NewOrder(r, st, ext)}
    /\ audit' = Append(audit, AuditOf(r))

\* The store and the products were checked before the transaction, and only then.
CreateOrder(r) ==
    /\ At(r, "write", "createOrder")
    /\ IF Insertable(Job(r))
       THEN InsertOrder(r, Job(r).store, None) /\ Go(r, "reply")
       ELSE Go(r, "rejected") /\ UNCHANGED <<orders, audit>>
    /\ UNCHANGED <<catalog, shops>>

CatalogNext == \E r \in Requests :
    \/ Receive(r) \/ Check(r) \/ Record(r) \/ Reply(r) \/ Fail(r)
    \/ CreateProduct(r) \/ UpdateProduct(r) \/ UpdateStatus(r)
    \/ AddSku(r) \/ UpdateSku(r) \/ DeleteSku(r)
    \/ CreateStore(r) \/ UpdateStore(r) \/ CreateWarehouse(r) \/ UpdateWarehouse(r)
    \/ CreateOrder(r)
=============================================================================
