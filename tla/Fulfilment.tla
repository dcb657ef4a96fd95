----------------------------- MODULE Fulfilment -----------------------------
(***************************************************************************)
(* Order status changes and the stock they move: OrderService.updateStatus *)
(* with InventoryService.reserveForOrder, fulfillOrder and releaseOrder,   *)
(* and the two requests that write the same inventory rows, adjust and     *)
(* initialize.                                                             *)
(*                                                                         *)
(* Every request runs one interactive PostgreSQL transaction at READ       *)
(* COMMITTED.  What a transaction has written to an inventory row, to the  *)
(* allocations on that row and to the row's journal is kept in draft[v]    *)
(* while the transaction holds the row lock, owner[v] = r; stock[v] is     *)
(* what everyone else reads.  The allocations and journal entries of a row *)
(* are only ever written under the row's lock, so they are part of the     *)
(* row's version.  Commit publishes the drafts, a rollback drops them.     *)
(***************************************************************************)
EXTENDS Integers, Sequences, FiniteSets, Functions

CONSTANTS
    Requests,       \* the requests of one behaviour; each is used once
    Orders, Items,  \* Order and OrderItem rows, written before the behaviour starts
    Rows,           \* Inventory rows, numbered in warehouse id order
    OrderOf,        \* OrderItem.orderId
    Quantity,       \* OrderItem.quantity
    Candidates,     \* rows of the item's SKU in the warehouses of the order's store
    OpeningStock,   \* what the Inventory table holds at the start
    OpeningStatus,  \* the status each order was created with
    MaxInt,         \* the largest value of an int4 column
    Jobs,           \* the requests that may arrive
    OneAtATime,     \* TRUE: no two status changes of one order overlap
    Free            \* the owner of a row nobody has locked

Statuses == {"PENDING_PAYMENT", "PAID", "PICKING", "SHIPPED", "COMPLETED",
             "CANCELLED", "REFUNDED"}
\* fulfillOrder journals a shipment as SALE with the order as its reference; the model
\* calls it SHIPMENT, because it takes from the locked quantity and a SALE of adjust does
\* not.
Entries == {"RESTOCK", "SALE", "ADJUSTMENT", "RESERVATION", "SHIPMENT", "RELEASE"}
AdjustTypes == {"RESTOCK", "SALE", "ADJUSTMENT"}

StatusJobs == [kind : {"status"}, order : Orders, to : Statuses]
AdjustJobs == [kind : {"adjust"}, row : Rows, type : AdjustTypes, quantity : Int]
InitJobs == [kind : {"initialize"}, row : Rows, quantity : Nat]

ASSUME ConstantsAssumption ==
    /\ Rows \subseteq Nat
    /\ OrderOf \in [Items -> Orders]
    /\ Quantity \in [Items -> Nat \ {0}]
    /\ Candidates \in [Items -> SUBSET Rows]
    /\ MaxInt \in Nat
    /\ OpeningStock \in [Rows -> [exists : BOOLEAN, available : 0 .. MaxInt,
                                  locked : 0 .. MaxInt]]
    /\ \A v \in Rows : ~OpeningStock[v].exists =>
          OpeningStock[v].available = 0 /\ OpeningStock[v].locked = 0
    /\ OpeningStatus \in [Orders -> {"PENDING_PAYMENT", "PAID"}]
    /\ Jobs \subseteq StatusJobs \cup AdjustJobs \cup InitJobs
    /\ OneAtATime \in BOOLEAN
    /\ Free \notin Requests

\* The tables hold finitely many rows, and a behaviour serves finitely many requests.
ASSUME FiniteAssumption == IsFiniteSet(Requests) /\ IsFiniteSet(Items) /\ IsFiniteSet(Rows)

VARIABLES
    stock,      \* committed Inventory rows with their allocations and journal totals
    draft,      \* the newest version of each row, committed or not
    owner,      \* the transaction that holds the row's lock
    status,     \* Order.status
    timeline,   \* OrderTimelineEvent rows of each order, in order
    tx          \* what each request keeps in its local variables

rowVars == <<stock, draft, owner>>
orderVars == <<status, timeline>>
vars == <<stock, draft, owner, status, timeline, tx>>

(***************************************************************************)
(* Types.  An allocation is known by the request that created it, the      *)
(* order item and the row: reserveForOrder visits a row once per item.     *)
(***************************************************************************)
Slots == Requests \X Items
Visits == Requests \X Items \X Rows
Allocation == [status : {"NONE", "RESERVED", "FULFILLED", "RELEASED"}, quantity : Nat]
Version == [exists : BOOLEAN, available : Int, locked : Int,
            journal : [Entries -> Int], alloc : [Slots -> Allocation]]

NoJob == [kind |-> "none"]
NoVisit == <<>>
NewTx(pc, job, from, items) ==
    [pc |-> pc, job |-> job, from |-> from, items |-> items, visits |-> {},
     at |-> NoVisit, seen |-> [v \in Rows |-> 0], remaining |-> 0]
Idle == NewTx("idle", NoJob, "PAID", {})
Done == NewTx("done", NoJob, "PAID", {})
Transaction ==
    [pc : {"idle", "items", "row", "adjust", "create", "done"},
     job : Jobs \cup {NoJob}, from : Statuses, items : SUBSET Items,
     visits : SUBSET Visits, at : Visits \cup {NoVisit}, seen : [Rows -> Int],
     remaining : Int]

InTransaction(r) == tx[r].pc \notin {"idle", "done"}

-----------------------------------------------------------------------------
(***************************************************************************)
(* The tables of the status machine and the pure row updates.              *)
(***************************************************************************)
Transitions ==
    [s \in Statuses |->
        CASE s = "PENDING_PAYMENT" -> {"PAID", "CANCELLED"}
          [] s = "PAID"            -> {"PICKING", "CANCELLED", "REFUNDED"}
          [] s = "PICKING"         -> {"SHIPPED", "CANCELLED"}
          [] s = "SHIPPED"         -> {"COMPLETED"}
          [] OTHER                 -> {}]

\* (Definitions named X_<slip> are wrong on purpose: each is X with one plausible slip.
\* No action uses them; putting one in the place of X shows which property notices.)

Movement_NoRelease(from, to) ==
    CASE from = "PAID" /\ to = "PICKING"    -> "reserve"
      [] from = "PICKING" /\ to = "SHIPPED" -> "fulfil"
      [] OTHER                              -> "none"

\* Which of the three stock routines a transition runs.
Movement(from, to) ==
    CASE from = "PAID" /\ to = "PICKING"      -> "reserve"
      [] from = "PICKING" /\ to = "SHIPPED"   -> "fulfil"
      [] from = "PICKING" /\ to = "CANCELLED" -> "release"
      [] OTHER                                -> "none"

Least(a, b) == IF a <= b THEN a ELSE b

\* An update of the two quantities of a row with its journal entry of q units.
Changed(s, available, locked, type, q, alloc) ==
    [exists |-> s.exists, available |-> s.available + available,
     locked |-> s.locked + locked, journal |-> [s.journal EXCEPT ![type] = @ + q],
     alloc |-> alloc]

Allocate(alloc, id, q) == [alloc EXCEPT ![id] = [status |-> "RESERVED", quantity |-> q]]
Settle(alloc, id, st) == [alloc EXCEPT ![id] = [status |-> st, quantity |-> @.quantity]]

ReserveOn_RowQuantity(s, id, q) ==
    Changed(s, -q, q, "RESERVATION", q, Allocate(s.alloc, id, s.available))

ReserveOn(s, id, q) == Changed(s, -q, q, "RESERVATION", q, Allocate(s.alloc, id, q))

FulfilOn_OrderStatus(s, id, q) ==
    Changed(s, 0, -q, "SHIPMENT", q, Settle(s.alloc, id, "SHIPPED"))

FulfilOn_Available(s, id, q) ==
    Changed(s, -q, 0, "SHIPMENT", q, Settle(s.alloc, id, "FULFILLED"))

FulfilOn(s, id, q) == Changed(s, 0, -q, "SHIPMENT", q, Settle(s.alloc, id, "FULFILLED"))

ReleaseOn_KeepsReserved(s, id, q) == Changed(s, q, -q, "RELEASE", q, s.alloc)

ReleaseOn_NotReturned(s, id, q) ==
    Changed(s, 0, -q, "RELEASE", q, Settle(s.alloc, id, "RELEASED"))

ReleaseOn(s, id, q) == Changed(s, q, -q, "RELEASE", q, Settle(s.alloc, id, "RELEASED"))

\* The signed change an adjustment makes to the available quantity.
Delta(type, q) == IF type = "SALE" THEN -q ELSE q

AdjustOn(s, type, q) == Changed(s, Delta(type, q), 0, type, q, s.alloc)

\* A row created with an opening quantity, journalled as RESTOCK when it is not 0.
CreateOn_NoJournal(s, q) ==
    [exists |-> TRUE, available |-> q, locked |-> 0, journal |-> s.journal, alloc |-> s.alloc]

CreateOn(s, q) ==
    [exists |-> TRUE, available |-> q, locked |-> 0,
     journal |-> [s.journal EXCEPT !["RESTOCK"] = @ + q], alloc |-> s.alloc]

OpeningVersion(v) ==
    [exists |-> OpeningStock[v].exists, available |-> OpeningStock[v].available,
     locked |-> OpeningStock[v].locked, journal |-> [e \in Entries |-> 0],
     alloc |-> [id \in Slots |-> [status |-> "NONE", quantity |-> 0]]]
-----------------------------------------------------------------------------
Init ==
    /\ stock = [v \in Rows |-> OpeningVersion(v)]
    /\ draft = stock
    /\ owner = [v \in Rows |-> Free]
    /\ status = OpeningStatus
    /\ timeline = [o \in Orders |-> <<>>]
    /\ tx = [r \in Requests |-> Idle]

\* A plain SELECT: the transaction's own writes, else what is committed.
Visible(r, v) == IF owner[v] = r THEN draft[v] ELSE stock[v]

\* An UPDATE waits until the row lock is free or already its own.
CanLock(r, v) == owner[v] \in {Free, r}

Write(r, v, version) ==
    /\ owner' = [owner EXCEPT ![v] = r]
    /\ draft' = [draft EXCEPT ![v] = version]

Rollback(r) ==
    /\ draft' = [v \in Rows |-> IF owner[v] = r THEN stock[v] ELSE draft[v]]
    /\ owner' = [v \in Rows |-> IF owner[v] = r THEN Free ELSE owner[v]]
    /\ tx' = [tx EXCEPT ![r] = Done]
    /\ UNCHANGED <<stock, status, timeline>>

Publish(r) ==
    /\ stock' = [v \in Rows |-> IF owner[v] = r THEN draft[v] ELSE stock[v]]
    /\ owner' = [v \in Rows |-> IF owner[v] = r THEN Free ELSE owner[v]]
    /\ tx' = [tx EXCEPT ![r] = Done]
    /\ UNCHANGED draft

-----------------------------------------------------------------------------
(***************************************************************************)
(* Status changes.  The order is read before the transaction starts, and   *)
(* everything after is decided by that value of its status.                *)
(***************************************************************************)
ItemsOf(o) == {i \in Items : OrderOf[i] = o}

Overlaps(o) ==
    \E p \in Requests : tx[p].job.kind = "status" /\ tx[p].job.order = o

ItemsToMove(from, job) ==
    IF Movement(from, job.to) = "none" THEN {} ELSE ItemsOf(job.order)

ReceiveStatus_NoTable(r, job) ==
    /\ tx[r].pc = "idle"
    /\ job \in StatusJobs
    /\ OneAtATime => ~Overlaps(job.order)
    /\ LET from == status[job.order] IN
       tx' = [tx EXCEPT ![r] =
                IF job.to # from
                THEN NewTx("items", job, from, ItemsToMove(from, job))
                ELSE Done]
    /\ UNCHANGED <<rowVars, orderVars>>

ReceiveStatus(r, job) ==
    /\ tx[r].pc = "idle"
    /\ job \in StatusJobs
    /\ OneAtATime => ~Overlaps(job.order)
    /\ LET from == status[job.order] IN
       tx' = [tx EXCEPT ![r] =
                IF job.to \in Transitions[from]
                THEN NewTx("items", job, from, ItemsToMove(from, job))
                ELSE Done]
    /\ UNCHANGED <<rowVars, orderVars>>

MovementOf(r) ==
    IF tx[r].job.kind = "status" THEN Movement(tx[r].from, tx[r].job.to) ELSE "none"

NextVisits_Unordered(r, visits) == visits

\* Rows are taken in warehouse order; allocations in whatever order they were read.
NextVisits(r, visits) ==
    IF MovementOf(r) = "reserve"
    THEN {a \in visits : \A b \in visits : a[3] <= b[3]}
    ELSE visits

SetVisit(r, visits, seen, remaining) ==
    \E a \in IF visits = {} THEN {NoVisit} ELSE NextVisits(r, visits) :
        tx' = [tx EXCEPT ![r] =
                 [pc |-> "row", job |-> tx[r].job, from |-> tx[r].from,
                  items |-> tx[r].items, visits |-> visits \ {a}, at |-> a,
                  seen |-> seen, remaining |-> remaining]]

SeenRows(r, i) == {v \in Candidates[i] : Visible(r, v).exists}

BeginReserve(r, i) ==
    /\ tx[r].pc = "items" /\ i \in tx[r].items /\ MovementOf(r) = "reserve"
    /\ SeenRows(r, i) # {}
    /\ LET seen == [v \in Rows |-> IF v \in SeenRows(r, i)
                                   THEN Visible(r, v).available ELSE 0]
       IN  SetVisit(r, {<<r, i, v>> : v \in {w \in Rows : seen[w] > 0}}, seen, Quantity[i])
    /\ UNCHANGED <<rowVars, orderVars>>

\* What findMany returns: RESERVED allocations of the item, in any row of the store.
ReservedVisits(r, i) ==
    {a \in Visits : /\ a[2] = i /\ a[3] \in Candidates[i]
                    /\ Visible(r, a[3]).alloc[<<a[1], i>>].status = "RESERVED"}

QuantityAt(r, a) == Visible(r, a[3]).alloc[<<a[1], a[2]>>].quantity

Allocated(r, i) == SumFunction([a \in ReservedVisits(r, i) |-> QuantityAt(r, a)])

BeginSettle(r, i) ==
    /\ tx[r].pc = "items" /\ i \in tx[r].items
    /\ MovementOf(r) \in {"fulfil", "release"}
    /\ Allocated(r, i) = Quantity[i]
    /\ SetVisit(r, ReservedVisits(r, i), tx[r].seen, Quantity[i])
    /\ UNCHANGED <<rowVars, orderVars>>

\* INVENTORY_NOT_FOUND and INVENTORY_ALLOCATION_NOT_FOUND.
RejectItem(r, i) ==
    /\ tx[r].pc = "items" /\ i \in tx[r].items
    /\ \/ MovementOf(r) = "reserve" /\ SeenRows(r, i) = {}
       \/ MovementOf(r) \in {"fulfil", "release"} /\ Allocated(r, i) # Quantity[i]
    /\ Rollback(r)

\* The row the request updates next, the quantity, and whether the guard of the
\* updateMany holds on the newest version (an int4 overflow is an error as well).
RowAt(r) == tx[r].at[3]
SlotAt(r) == <<tx[r].at[1], tx[r].at[2]>>
TakeAt(r) ==
    IF MovementOf(r) = "reserve" THEN Least(tx[r].remaining, tx[r].seen[RowAt(r)])
    ELSE Visible(r, RowAt(r)).alloc[SlotAt(r)].quantity

GuardHolds_NoStockGuard(r) ==
    LET s == draft[RowAt(r)]  q == TakeAt(r) IN
    CASE MovementOf(r) = "reserve" -> s.locked + q <= MaxInt
      [] MovementOf(r) = "fulfil"  -> s.locked >= q
      [] OTHER                     -> s.locked >= q /\ s.available + q <= MaxInt

GuardHolds(r) ==
    LET s == draft[RowAt(r)]  q == TakeAt(r) IN
    CASE MovementOf(r) = "reserve" -> s.available >= q /\ s.locked + q <= MaxInt
      [] MovementOf(r) = "fulfil"  -> s.locked >= q
      [] OTHER                     -> s.locked >= q /\ s.available + q <= MaxInt

NewVersion(r) ==
    LET s == draft[RowAt(r)]  q == TakeAt(r) IN
    CASE MovementOf(r) = "reserve" -> ReserveOn(s, SlotAt(r), q)
      [] MovementOf(r) = "fulfil"  -> FulfilOn(s, SlotAt(r), q)
      [] OTHER                     -> ReleaseOn(s, SlotAt(r), q)

\* One turn of the loop over rows or allocations.
MoveRow(r) ==
    /\ tx[r].pc = "row" /\ tx[r].at # NoVisit
    /\ CanLock(r, RowAt(r))
    /\ GuardHolds(r)
    /\ Write(r, RowAt(r), NewVersion(r))
    /\ LET left == tx[r].remaining - TakeAt(r) IN
       IF left <= 0
       THEN tx' = [tx EXCEPT ![r] =
                     NewTx("items", tx[r].job, tx[r].from, tx[r].items \ {tx[r].at[2]})]
       ELSE SetVisit(r, tx[r].visits, tx[r].seen, left)
    /\ UNCHANGED <<stock, status, timeline>>

RejectRow_WaitsForStock(r) ==
    /\ tx[r].pc = "row"
    /\ tx[r].at # NoVisit /\ CanLock(r, RowAt(r)) /\ ~GuardHolds(r)
    /\ Rollback(r)

\* INSUFFICIENT_STOCK, INVENTORY_CONFLICT, INSUFFICIENT_LOCKED_STOCK or an overflow.
RejectRow(r) ==
    /\ tx[r].pc = "row"
    /\ \/ tx[r].at = NoVisit
       \/ tx[r].at # NoVisit /\ CanLock(r, RowAt(r)) /\ ~GuardHolds(r)
    /\ Rollback(r)

CommitStatus_RereadFrom(r) ==
    /\ tx[r].pc = "items" /\ tx[r].items = {} /\ tx[r].job.kind = "status"
    /\ LET o == tx[r].job.order  to == tx[r].job.to IN
       /\ status' = [status EXCEPT ![o] = to]
       /\ timeline' = [timeline EXCEPT ![o] = Append(@, [from |-> status'[o], to |-> to])]
    /\ Publish(r)

CommitStatus_CurrentFrom(r) ==
    /\ tx[r].pc = "items" /\ tx[r].items = {} /\ tx[r].job.kind = "status"
    /\ LET o == tx[r].job.order  to == tx[r].job.to IN
       /\ status' = [status EXCEPT ![o] = to]
       /\ timeline' = [timeline EXCEPT ![o] = Append(@, [from |-> status[o], to |-> to])]
    /\ Publish(r)

\* order.update, whatever the status is by now, the timeline event and COMMIT.
CommitStatus(r) ==
    /\ tx[r].pc = "items" /\ tx[r].items = {} /\ tx[r].job.kind = "status"
    /\ LET o == tx[r].job.order  to == tx[r].job.to IN
       /\ status' = [status EXCEPT ![o] = to]
       /\ timeline' = [timeline EXCEPT ![o] = Append(@, [from |-> tx[r].from, to |-> to])]
    /\ Publish(r)
-----------------------------------------------------------------------------
(***************************************************************************)
(* Inventory requests.  The row is found first and updated under a guard   *)
(* that PostgreSQL evaluates again once it has the row lock.               *)
(***************************************************************************)
ValidAdjustment(job) == job.type = "ADJUSTMENT" \/ job.quantity > 0

ReceiveAdjust(r, job) ==
    /\ tx[r].pc = "idle"
    /\ job \in AdjustJobs
    /\ tx' = [tx EXCEPT ![r] = IF ValidAdjustment(job) /\ stock[job.row].exists
                               THEN NewTx("adjust", job, "PAID", {})
                               ELSE Done]
    /\ UNCHANGED <<rowVars, orderVars>>

AdjustGuard_NoFilter(s, delta) == s.available + delta <= MaxInt

\* The updateMany filter, present only when stock goes out, and the int4 range.
AdjustGuard(s, delta) ==
    /\ delta < 0 => s.available >= -delta
    /\ s.available + delta <= MaxInt

AdjustRow(r) ==
    /\ tx[r].pc = "adjust"
    /\ LET job == tx[r].job IN
       /\ CanLock(r, job.row)
       /\ AdjustGuard(draft[job.row], Delta(job.type, job.quantity))
       /\ Write(r, job.row, AdjustOn(draft[job.row], job.type, job.quantity))
    /\ tx' = [tx EXCEPT ![r] = NewTx("items", tx[r].job, "PAID", {})]
    /\ UNCHANGED <<stock, status, timeline>>

RejectAdjust(r) ==
    /\ tx[r].pc = "adjust"
    /\ LET job == tx[r].job IN
       /\ CanLock(r, job.row)
       /\ ~AdjustGuard(draft[job.row], Delta(job.type, job.quantity))
    /\ Rollback(r)

ReceiveInitialize(r, job) ==
    /\ tx[r].pc = "idle"
    /\ job \in InitJobs /\ job.quantity <= MaxInt
    /\ tx' = [tx EXCEPT ![r] = NewTx("create", job, "PAID", {})]
    /\ UNCHANGED <<rowVars, orderVars>>

\* The unique index on (skuId, warehouseId) makes the second insert wait for the first.
CreateRow(r) ==
    /\ tx[r].pc = "create"
    /\ LET job == tx[r].job IN
       /\ CanLock(r, job.row) /\ ~draft[job.row].exists
       /\ Write(r, job.row, CreateOn(draft[job.row], job.quantity))
    /\ tx' = [tx EXCEPT ![r] = NewTx("items", tx[r].job, "PAID", {})]
    /\ UNCHANGED <<stock, status, timeline>>

\* P2002, answered as INVENTORY_EXISTS.
RejectCreate(r) ==
    /\ tx[r].pc = "create"
    /\ CanLock(r, tx[r].job.row) /\ draft[tx[r].job.row].exists
    /\ Rollback(r)

CommitStock(r) ==
    /\ tx[r].pc = "items" /\ tx[r].items = {} /\ tx[r].job.kind # "status"
    /\ Publish(r)
    /\ UNCHANGED orderVars
-----------------------------------------------------------------------------
(***************************************************************************)
(* PostgreSQL and the process around the transaction.                      *)
(***************************************************************************)
\* The row r is about to lock, as a set of at most one.
Wanted(r) ==
    IF tx[r].pc = "row" /\ tx[r].at # NoVisit THEN {RowAt(r)}
    ELSE IF tx[r].pc \in {"adjust", "create"} THEN {tx[r].job.row} ELSE {}

WaitsFor(p, q) == p # q /\ \E v \in Wanted(p) : owner[v] = q

\* r is on a cycle of transactions that wait for each other.
Deadlocked(r) ==
    \E S \in SUBSET Requests :
        /\ r \in S
        /\ \A p \in S : (\E q \in S : WaitsFor(p, q)) /\ (\E q \in S : WaitsFor(q, p))

DeadlockVictim(r) == Deadlocked(r) /\ Rollback(r)

\* A crash of the process, a lost connection or Prisma's transaction timeout.
Abort(r) == InTransaction(r) /\ Rollback(r)

Receive(r) ==
    \E job \in Jobs : ReceiveStatus(r, job) \/ ReceiveAdjust(r, job) \/ ReceiveInitialize(r, job)

BeginItem(r) ==
    \E i \in Items : BeginReserve(r, i) \/ BeginSettle(r, i) \/ RejectItem(r, i)

Progress(r) ==
    \/ BeginItem(r) \/ MoveRow(r) \/ RejectRow(r) \/ CommitStatus(r)
    \/ AdjustRow(r) \/ RejectAdjust(r) \/ CreateRow(r) \/ RejectCreate(r) \/ CommitStock(r)

Next == \E r \in Requests : Receive(r) \/ Progress(r) \/ DeadlockVictim(r) \/ Abort(r)

Spec == Init /\ [][Next]_vars

\* The event loop runs every handler on; the database breaks every deadlock.
Fairness ==
    /\ \A r \in Requests : WF_vars(Progress(r))
    /\ WF_vars(\E r \in Requests : DeadlockVictim(r))

FairSpec == Spec /\ Fairness
-----------------------------------------------------------------------------
(***************************************************************************)
(* Properties.                                                             *)
(***************************************************************************)
\* Every variable keeps the type its column or local variable has.
TypeOK ==
    /\ stock \in [Rows -> Version]
    /\ draft \in [Rows -> Version]
    /\ owner \in [Rows -> Requests \cup {Free}]
    /\ status \in [Orders -> Statuses]
    /\ timeline \in [Orders -> Seq([from : Statuses, to : Statuses])]
    /\ tx \in [Requests -> Transaction]

InRange(s) == s.available \in 0 .. MaxInt /\ s.locked \in 0 .. MaxInt

\* No interleaving of guarded updates drives a quantity below zero or past int4, in
\* what is committed and in what a running transaction has written (the guards of
\* adjust, reserveForOrder, fulfillOrder and releaseOrder, read stale and enforced late).
StockNeverNegative == \A v \in Rows : InRange(stock[v]) /\ InRange(draft[v])

\* The two quantities of a row are what its opening and its journal add up to.
Balanced(v, s) ==
    LET j == s.journal IN
    /\ s.available = OpeningStock[v].available + j["RESTOCK"] - j["SALE"]
                        + j["ADJUSTMENT"] - j["RESERVATION"] + j["RELEASE"]
    /\ s.locked = OpeningStock[v].locked + j["RESERVATION"] - j["SHIPMENT"] - j["RELEASE"]

\* The InventoryTransaction rows explain both quantities of every row: no update
\* without its entry, no entry left by a transaction that was rolled back, no update lost.
JournalBalances == \A v \in Rows : Balanced(v, stock[v]) /\ Balanced(v, draft[v])

\* Every unit ever reserved on a row is in an allocation of exactly that quantity, which
\* is never resized, lost or duplicated, whatever status it has been given since.
ReservationsAreAllocated ==
    \A v \in Rows : \A s \in {stock[v], draft[v]} :
        SumFunction([id \in Slots |-> s.alloc[id].quantity]) = s.journal["RESERVATION"]

\* The quantity of an item's allocations that are in one status, in a version of a row.
InRow(s, i, st) ==
    LET found == {id \in Requests \X {i} : s.alloc[id].status = st}
    IN  SumFunction([id \in found |-> s.alloc[id].quantity])

\* The same over all rows.
AllocatedAs(i, st) == SumFunction([v \in Rows |-> InRow(stock[v], i, st)])

\* A row keeps locked exactly what the orders in picking have reserved on it, on top of
\* what was locked at the start: nothing is locked twice, released twice or forgotten.
LockedMatchesReserved ==
    \A v \in Rows :
        stock[v].locked = OpeningStock[v].locked
            + SumFunction([i \in Items |-> InRow(stock[v], i, "RESERVED")])

\* The allocations of an order say the same as its status: all of every item is
\* reserved while it is picked, consumed once it is shipped, and given back when it
\* is cancelled; before picking it holds nothing.
OrderStockAgrees ==
    \A i \in Items :
        LET st == status[OrderOf[i]]
            q(s) == AllocatedAs(i, s)
        IN  /\ q("RESERVED") = IF st = "PICKING" THEN Quantity[i] ELSE 0
            /\ q("FULFILLED") = IF st \in {"SHIPPED", "COMPLETED"} THEN Quantity[i] ELSE 0
            /\ q("RELEASED") \in IF st = "CANCELLED" THEN {0, Quantity[i]} ELSE {0}

\* The timeline of an order is one chain from the status it was created with to the
\* status it has: every event starts where the one before it ended.
TimelineChains ==
    \A o \in Orders :
        LET t == timeline[o]
            reached(n) == IF n = 0 THEN OpeningStatus[o] ELSE t[n].to
        IN  /\ \A n \in 1 .. Len(t) : t[n].from = reached(n - 1)
            /\ status[o] = reached(Len(t))

\* Whatever overlaps, the timeline tells the truth about decisions: every event goes, by
\* an entry of the transition table, from a status the order really had before it, and the
\* last one names the status the order has.  (Changes that overlap may start from the same
\* status, so it need not be a chain; but no order is SHIPPED that was never PICKING.)
TimelineIsHistory ==
    \A o \in Orders :
        LET t == timeline[o]
            hadBefore(n) == {OpeningStatus[o]} \cup {t[k].to : k \in 1 .. n - 1}
        IN  /\ \A n \in 1 .. Len(t) :
                  t[n].from \in hadBefore(n) /\ t[n].to \in Transitions[t[n].from]
            /\ status[o] = IF t = <<>> THEN OpeningStatus[o] ELSE t[Len(t)].to

\* A cancelled order holds no reserved stock.
CancelledHoldsNoStock ==
    \A i \in Items : status[OrderOf[i]] = "CANCELLED" => AllocatedAs(i, "RESERVED") = 0

\* A committed status change is one the transition table allows.
StatusFollowsTransitions ==
    [][\A o \in Orders : status'[o] = status[o] \/ status'[o] \in Transitions[status[o]]]_vars

\* As long as nothing puts stock back (no cancellation, restock or new row), an order
\* takes stock from a warehouse only when every earlier warehouse of its store is empty
\* (multi-warehouse split by id).
SplitFollowsWarehouseOrder ==
    [][\A i \in Items, r \in Requests, v \in Rows, w \in Rows :
          /\ {v, w} \subseteq Candidates[i] /\ w < v /\ stock[w].exists
          /\ stock'[v].alloc[<<r, i>>].status # stock[v].alloc[<<r, i>>].status
          => stock'[w].available = 0]_vars

\* Every request that reaches its transaction is answered: no lock is waited for forever.
EveryRequestAnswered == \A r \in Requests : InTransaction(r) ~> ~InTransaction(r)

\* Units of row v committed for item i.
Held(i, v) == InRow(stock[v], i, "RESERVED")

Ledger == INSTANCE StockLedger WITH
    available <- [v \in Rows |-> stock[v].available],
    locked <- [v \in Rows |-> stock[v].locked],
    held <- [i \in Items |-> [v \in Rows |-> Held(i, v)]]

\* The transactions implement the ledger: what others can read only ever changes by one
\* whole operation, and a request that fails, times out or crashes leaves no trace.
ImplementsLedger == Ledger!Spec
=============================================================================
