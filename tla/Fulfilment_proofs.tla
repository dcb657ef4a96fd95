------------------------- MODULE Fulfilment_proofs -------------------------
(***************************************************************************)
(* Proofs about Fulfilment for any number of requests, orders, items and   *)
(* rows: type correctness, stock within its range and a journal that       *)
(* balances, whatever requests overlap, fail or deadlock.                  *)
(***************************************************************************)
EXTENDS Fulfilment, TLAPS

(***************************************************************************)
(* The inductive invariant.  A version of a row is good when it is typed,  *)
(* in range and balanced, and untouched as long as the row does not exist. *)
(* A request only visits rows that exist, for a positive quantity.         *)
(***************************************************************************)
Good(v, s) ==
    /\ s \in Version
    /\ InRange(s)
    /\ Balanced(v, s)
    /\ ~s.exists => s = OpeningVersion(v)

RowsInv ==
    /\ stock \in [Rows -> Version]
    /\ draft \in [Rows -> Version]
    /\ owner \in [Rows -> Requests \cup {Free}]
    /\ \A v \in Rows : /\ Good(v, stock[v]) /\ Good(v, draft[v])
                       /\ stock[v].exists => draft[v].exists

OrdersInv ==
    /\ status \in [Orders -> Statuses]
    /\ timeline \in [Orders -> Seq([from : Statuses, to : Statuses])]

VisitOK(r, a) ==
    /\ Visible(r, a[3]).exists
    /\ MovementOf(r) = "reserve" => tx[r].seen[a[3]] > 0

TxOK(r) ==
    /\ tx[r].pc = "row" =>
          /\ tx[r].remaining > 0
          /\ \A a \in tx[r].visits : VisitOK(r, a)
          /\ tx[r].at # NoVisit => VisitOK(r, tx[r].at)
    /\ tx[r].pc = "adjust" =>
          tx[r].job \in AdjustJobs /\ Visible(r, tx[r].job.row).exists
    /\ tx[r].pc = "create" => tx[r].job \in InitJobs /\ tx[r].job.quantity <= MaxInt

TxInv ==
    /\ tx \in [Requests -> Transaction]
    /\ \A r \in Requests : TxOK(r)

IInv == RowsInv /\ OrdersInv /\ TxInv

-----------------------------------------------------------------------------
(***************************************************************************)
(* The pure row updates.                                                   *)
(***************************************************************************)
\* What reserving, fulfilling and releasing write to the allocations of a row is typed.
LEMMA AllocTypes ==
    ASSUME NEW al \in [Slots -> Allocation], NEW id \in Slots, NEW q \in Nat,
           NEW st \in {"FULFILLED", "RELEASED"}
    PROVE  /\ Allocate(al, id, q) \in [Slots -> Allocation]
           /\ Settle(al, id, st) \in [Slots -> Allocation]
BY DEF Allocate, Settle, Allocation

\* A reservation of what the row still has keeps the row good.
LEMMA ReserveGood ==
    ASSUME NEW v \in Rows, NEW s, Good(v, s), s.exists, NEW id \in Slots, NEW q \in Nat,
           s.available >= q, s.locked + q <= MaxInt
    PROVE  Good(v, ReserveOn(s, id, q)) /\ ReserveOn(s, id, q).exists
<1> DEFINE n == ReserveOn(s, id, q)
<1>1. /\ s \in Version /\ -q \in Int /\ q \in Int /\ "RESERVATION" \in Entries
      /\ Allocate(s.alloc, id, q) \in [Slots -> Allocation]
  BY AllocTypes DEF Good, Version, Entries
<1>2. /\ n \in Version /\ n.exists = s.exists /\ n.available = s.available + (-q)
      /\ n.locked = s.locked + q /\ n.journal = [s.journal EXCEPT !["RESERVATION"] = @ + q]
  BY <1>1 DEF ReserveOn, Changed, Version
<1>3. InRange(n)
  BY <1>1, <1>2, ConstantsAssumption DEF Good, InRange, Version
<1>4. Balanced(v, n)
  BY <1>1, <1>2, ConstantsAssumption DEF Good, Balanced, Version, Entries
<1> QED
  BY <1>2, <1>3, <1>4 DEF Good

\* A fulfilment of what the row has locked keeps it good.
LEMMA FulfilGood ==
    ASSUME NEW v \in Rows, NEW s, Good(v, s), s.exists, NEW id \in Slots, NEW q \in Nat,
           s.locked >= q
    PROVE  Good(v, FulfilOn(s, id, q)) /\ FulfilOn(s, id, q).exists
<1> DEFINE n == FulfilOn(s, id, q)
<1>1. /\ s \in Version /\ -q \in Int /\ q \in Int /\ "SHIPMENT" \in Entries
      /\ Settle(s.alloc, id, "FULFILLED") \in [Slots -> Allocation]
  BY AllocTypes DEF Good, Version, Entries
<1>2. /\ n \in Version /\ n.exists = s.exists /\ n.available = s.available
      /\ n.locked = s.locked + (-q) /\ n.journal = [s.journal EXCEPT !["SHIPMENT"] = @ + q]
  BY <1>1 DEF FulfilOn, Changed, Version
<1>3. InRange(n)
  BY <1>1, <1>2, ConstantsAssumption DEF Good, InRange, Version
<1>4. Balanced(v, n)
  BY <1>1, <1>2, ConstantsAssumption DEF Good, Balanced, Version, Entries
<1> QED
  BY <1>2, <1>3, <1>4 DEF Good

\* A release of what the row has locked, with room for it, keeps it good.
LEMMA ReleaseGood ==
    ASSUME NEW v \in Rows, NEW s, Good(v, s), s.exists, NEW id \in Slots, NEW q \in Nat,
           s.locked >= q, s.available + q <= MaxInt
    PROVE  Good(v, ReleaseOn(s, id, q)) /\ ReleaseOn(s, id, q).exists
<1> DEFINE n == ReleaseOn(s, id, q)
<1>1. /\ s \in Version /\ -q \in Int /\ q \in Int /\ "RELEASE" \in Entries
      /\ Settle(s.alloc, id, "RELEASED") \in [Slots -> Allocation]
  BY AllocTypes DEF Good, Version, Entries
<1>2. /\ n \in Version /\ n.exists = s.exists /\ n.available = s.available + q
      /\ n.locked = s.locked + (-q) /\ n.journal = [s.journal EXCEPT !["RELEASE"] = @ + q]
  BY <1>1 DEF ReleaseOn, Changed, Version
<1>3. InRange(n)
  BY <1>1, <1>2, ConstantsAssumption DEF Good, InRange, Version
<1>4. Balanced(v, n)
  BY <1>1, <1>2, ConstantsAssumption DEF Good, Balanced, Version, Entries
<1> QED
  BY <1>2, <1>3, <1>4 DEF Good

\* An adjustment its guard lets through keeps the row good.
LEMMA AdjustGood ==
    ASSUME NEW v \in Rows, NEW s, Good(v, s), s.exists, NEW type \in AdjustTypes,
           NEW q \in Int, AdjustGuard(s, Delta(type, q))
    PROVE  Good(v, AdjustOn(s, type, q)) /\ AdjustOn(s, type, q).exists
<1> DEFINE n == AdjustOn(s, type, q)  d == Delta(type, q)
<1>1. /\ s \in Version /\ d \in Int /\ type \in Entries
      /\ d = IF type = "SALE" THEN -q ELSE q
  BY DEF Good, Delta, AdjustTypes, Entries
<1>2. /\ n \in Version /\ n.exists = s.exists /\ n.available = s.available + d
      /\ n.locked = s.locked /\ n.journal = [s.journal EXCEPT ![type] = @ + q]
  <2> HIDE DEF d
  <2> QED BY <1>1 DEF AdjustOn, Changed, Version, d
<1>3. InRange(n)
  BY <1>1, <1>2, ConstantsAssumption DEF Good, InRange, Version, AdjustGuard
<1>4. Balanced(v, n)
  BY <1>1, <1>2, ConstantsAssumption DEF Good, Balanced, Version, Entries, AdjustTypes
<1> QED
  BY <1>2, <1>3, <1>4 DEF Good

\* A row that does not exist yet is created good.
LEMMA CreateGood ==
    ASSUME NEW v \in Rows, NEW s, Good(v, s), ~s.exists, NEW q \in Nat, q <= MaxInt
    PROVE  Good(v, CreateOn(s, q)) /\ CreateOn(s, q).exists
<1> DEFINE n == CreateOn(s, q)
<1>1. /\ s \in Version /\ s.available = 0 /\ s.locked = 0
  BY ConstantsAssumption DEF Good, OpeningVersion
<1>2. /\ n \in Version /\ n.exists /\ n.available = q /\ n.locked = 0
      /\ n.journal = [s.journal EXCEPT !["RESTOCK"] = @ + q]
  BY <1>1 DEF CreateOn, Version, Entries
<1>3. InRange(n)
  BY <1>2, ConstantsAssumption DEF InRange
<1>4. Balanced(v, n)
  BY <1>1, <1>2, ConstantsAssumption DEF Good, Balanced, Version, Entries
<1> QED
  BY <1>2, <1>3, <1>4 DEF Good

\* A row as it is found at the start is good.
LEMMA OpeningGood ==
    ASSUME NEW v \in Rows
    PROVE  Good(v, OpeningVersion(v))
<1>1. OpeningVersion(v) \in Version
  BY ConstantsAssumption DEF OpeningVersion, Version, Allocation
<1>2. InRange(OpeningVersion(v))
  BY ConstantsAssumption DEF OpeningVersion, InRange
<1>3. Balanced(v, OpeningVersion(v))
  BY ConstantsAssumption DEF OpeningVersion, Balanced, Entries
<1> QED
  BY <1>1, <1>2, <1>3 DEF Good

-----------------------------------------------------------------------------
(***************************************************************************)
(* What writing, publishing and rolling back do to the rows, and what they *)
(* leave the other requests able to see.                                   *)
(***************************************************************************)
\* A good version written under the row lock keeps the rows consistent, and no other
\* request sees it.
LEMMA WriteRows ==
    ASSUME RowsInv, NEW r \in Requests, NEW v \in Rows, CanLock(r, v),
           NEW n, Good(v, n), n.exists, Write(r, v, n), UNCHANGED stock
    PROVE  /\ RowsInv'
           /\ \A p \in Requests, w \in Rows : Visible(p, w).exists => Visible(p, w)'.exists
<1>1. n \in Version
  BY DEF Good
<1>2. /\ draft' \in [Rows -> Version] /\ owner' \in [Rows -> Requests \cup {Free}]
      /\ draft'[v] = n /\ \A w \in Rows \ {v} : draft'[w] = draft[w]
      /\ owner'[v] = r /\ \A w \in Rows \ {v} : owner'[w] = owner[w]
  BY <1>1 DEF RowsInv, Write
<1>3. ASSUME NEW w \in Rows
      PROVE  /\ Good(w, stock'[w]) /\ Good(w, draft'[w])
             /\ stock'[w].exists => draft'[w].exists
  BY <1>2 DEF RowsInv
<1>4. RowsInv'
  <2>1. \A w \in Rows : /\ Good(w, stock[w])' /\ Good(w, draft[w])'
                        /\ (stock[w].exists => draft[w].exists)'
    BY <1>3 DEF Good, InRange, Balanced, OpeningVersion
  <2> QED BY <1>2, <2>1 DEF RowsInv
<1>5. ASSUME NEW p \in Requests, NEW w \in Rows, Visible(p, w).exists
      PROVE  Visible(p, w)'.exists
  BY <1>2, <1>5, ConstantsAssumption DEF Visible, CanLock, RowsInv
<1> QED
  BY <1>4, <1>5

\* A rollback keeps the rows consistent and changes nothing another request sees.
LEMMA RollbackRows ==
    ASSUME RowsInv, NEW r \in Requests, Rollback(r)
    PROVE  /\ RowsInv'
           /\ \A p \in Requests \ {r}, w \in Rows :
                Visible(p, w).exists => Visible(p, w)'.exists
<1>1. /\ draft' \in [Rows -> Version] /\ owner' \in [Rows -> Requests \cup {Free}]
      /\ UNCHANGED stock
      /\ \A w \in Rows : /\ draft'[w] = IF owner[w] = r THEN stock[w] ELSE draft[w]
                         /\ owner'[w] = IF owner[w] = r THEN Free ELSE owner[w]
  BY DEF RowsInv, Rollback
<1>2. \A w \in Rows : /\ Good(w, stock[w])' /\ Good(w, draft[w])'
                      /\ (stock[w].exists => draft[w].exists)'
  BY <1>1 DEF RowsInv, Good, InRange, Balanced, OpeningVersion
<1>3. RowsInv'
  BY <1>1, <1>2 DEF RowsInv
<1>4. ASSUME NEW p \in Requests \ {r}, NEW w \in Rows, Visible(p, w).exists
      PROVE  Visible(p, w)'.exists
  BY <1>1, <1>4, ConstantsAssumption DEF Visible
<1> QED
  BY <1>3, <1>4

\* A commit keeps the rows consistent; a row that another request saw still exists.
LEMMA PublishRows ==
    ASSUME RowsInv, NEW r \in Requests, Publish(r)
    PROVE  /\ RowsInv'
           /\ \A p \in Requests \ {r}, w \in Rows :
                Visible(p, w).exists => Visible(p, w)'.exists
<1>1. /\ stock' \in [Rows -> Version] /\ owner' \in [Rows -> Requests \cup {Free}]
      /\ UNCHANGED draft
      /\ \A w \in Rows : /\ stock'[w] = IF owner[w] = r THEN draft[w] ELSE stock[w]
                         /\ owner'[w] = IF owner[w] = r THEN Free ELSE owner[w]
  BY DEF RowsInv, Publish
<1>2. \A w \in Rows : /\ Good(w, stock[w])' /\ Good(w, draft[w])'
                      /\ (stock[w].exists => draft[w].exists)'
  BY <1>1 DEF RowsInv, Good, InRange, Balanced, OpeningVersion
<1>3. RowsInv'
  BY <1>1, <1>2 DEF RowsInv
<1>4. ASSUME NEW p \in Requests \ {r}, NEW w \in Rows, Visible(p, w).exists
      PROVE  Visible(p, w)'.exists
  BY <1>1, <1>4, ConstantsAssumption DEF Visible, RowsInv
<1> QED
  BY <1>3, <1>4

\* A step of one request that hides no row from the others keeps what they rely on.
LEMMA TxFrame ==
    ASSUME TxInv, NEW r \in Requests, NEW t \in Transaction, tx' = [tx EXCEPT ![r] = t],
           \A p \in Requests \ {r}, w \in Rows :
                Visible(p, w).exists => Visible(p, w)'.exists,
           TxOK(r)'
    PROVE  TxInv'
<1>1. tx' \in [Requests -> Transaction] /\ \A p \in Requests \ {r} : tx'[p] = tx[p]
  BY DEF TxInv
<1>2. ASSUME NEW p \in Requests \ {r} PROVE TxOK(p)'
  <2>1. TxOK(p) /\ tx'[p] = tx[p] /\ tx[p] \in Transaction
    BY <1>1 DEF TxInv
  <2>2. ASSUME NEW a \in Visits, VisitOK(p, a) PROVE VisitOK(p, a)'
    <3>1. a[3] \in Rows
      BY DEF Visits
    <3> QED
      BY <2>1, <2>2, <3>1 DEF VisitOK, MovementOf
  <2>3. tx[p].job \in AdjustJobs => tx[p].job.row \in Rows
    BY DEF AdjustJobs
  <2>4. tx[p].visits \subseteq Visits /\ (tx[p].at # NoVisit => tx[p].at \in Visits)
    BY <2>1 DEF Transaction
  <2> QED
    BY <2>1, <2>2, <2>3, <2>4 DEF TxOK
<1> QED
  BY <1>1, <1>2 DEF TxInv

-----------------------------------------------------------------------------
(***************************************************************************)
(* The steps of one request.                                               *)
(***************************************************************************)
\* A fresh record of local variables is typed, whatever the phase.
LEMMA NewTxType ==
    ASSUME NEW pc \in {"idle", "items", "adjust", "create", "done"},
           NEW job \in Jobs \cup {NoJob}, NEW from \in Statuses, NEW items \in SUBSET Items
    PROVE  NewTx(pc, job, from, items) \in Transaction
BY DEF NewTx, Transaction

\* A request that has not begun and one that has ended have typed local variables.
LEMMA DoneType == Idle \in Transaction /\ Done \in Transaction
BY NewTxType DEF Idle, Done, Statuses

\* A request that enters a phase without visits relies on nothing.
LEMMA RestOK ==
    ASSUME NEW r \in Requests, tx'[r].pc \in {"idle", "items", "done"}
    PROVE  TxOK(r)'
BY DEF TxOK

\* What a job carries follows from its kind.
LEMMA JobKinds ==
    ASSUME NEW job \in Jobs
    PROVE  /\ job.kind = "status" => job \in StatusJobs
           /\ job \in AdjustJobs => job.row \in Rows /\ job.type \in AdjustTypes /\ job.quantity \in Int
           /\ job \in InitJobs => job.row \in Rows /\ job.quantity \in Nat
           /\ job \in StatusJobs => job.order \in Orders /\ job.to \in Statuses
BY ConstantsAssumption DEF StatusJobs, AdjustJobs, InitJobs

\* Every way to give up (rejection, deadlock victim, time-out, crash) keeps the invariant.
LEMMA RollbackStep ==
    ASSUME IInv, NEW r \in Requests, Rollback(r)
    PROVE  IInv'
<1>1. RowsInv'
  BY RollbackRows DEF IInv
<1>2. OrdersInv'
  BY DEF IInv, OrdersInv, Rollback
<1>3. TxInv'
  <2>1. tx' = [tx EXCEPT ![r] = Done]
    BY DEF Rollback
  <2>2. TxOK(r)'
    BY <2>1, RestOK DEF IInv, TxInv, Done, NewTx
  <2> QED
    BY <2>1, <2>2, RollbackRows, TxFrame, DoneType DEF IInv
<1> QED
  BY <1>1, <1>2, <1>3 DEF IInv

\* A commit keeps the invariant, given that it leaves the orders typed.
LEMMA PublishStep ==
    ASSUME IInv, NEW r \in Requests, Publish(r), OrdersInv'
    PROVE  IInv'
<1>1. RowsInv'
  BY PublishRows DEF IInv
<1>2. TxInv'
  <2>1. tx' = [tx EXCEPT ![r] = Done]
    BY DEF Publish
  <2>2. TxOK(r)'
    BY <2>1, RestOK DEF IInv, TxInv, Done, NewTx
  <2> QED
    BY <2>1, <2>2, PublishRows, TxFrame, DoneType DEF IInv
<1> QED
  BY <1>1, <1>2 DEF IInv

\* The commit of a status change, with its timeline event, keeps the invariant.
LEMMA CommitStatusStep ==
    ASSUME IInv, NEW r \in Requests, CommitStatus(r)
    PROVE  IInv'
<1>1. /\ tx[r].job.order \in Orders /\ tx[r].job.to \in Statuses /\ tx[r].from \in Statuses
  <2>1. tx[r].job \in Jobs \cup {NoJob} /\ tx[r].from \in Statuses
    BY DEF IInv, TxInv, Transaction
  <2>2. tx[r].job.kind = "status" /\ NoJob.kind = "none"
    BY DEF CommitStatus, NoJob
  <2>3. tx[r].job \in Jobs
    BY <2>1, <2>2
  <2> QED
    BY <2>1, <2>2, <2>3, JobKinds
<1>2. OrdersInv'
  <2> DEFINE o == tx[r].job.order
             e == [from |-> tx[r].from, to |-> tx[r].job.to]
             Event == [from : Statuses, to : Statuses]
  <2>1. /\ status' = [status EXCEPT ![o] = tx[r].job.to]
        /\ timeline' = [timeline EXCEPT ![o] = Append(@, e)]
    BY DEF CommitStatus
  <2>2. e \in Event /\ o \in Orders
    BY <1>1
  <2>3. timeline[o] \in Seq(Event)
    BY <2>2 DEF IInv, OrdersInv
  <2> HIDE DEF e, Event
  <2>4. Append(timeline[o], e) \in Seq(Event)
    BY <2>2, <2>3
  <2>5. timeline' \in [Orders -> Seq(Event)]
    BY <2>1, <2>4 DEF IInv, OrdersInv, Event
  <2>6. status' \in [Orders -> Statuses]
    BY <1>1, <2>1 DEF IInv, OrdersInv
  <2> QED
    BY <2>5, <2>6 DEF OrdersInv, Event
<1> QED
  BY <1>2, PublishStep DEF CommitStatus

\* The commit of an inventory request keeps the invariant.
LEMMA CommitStockStep ==
    ASSUME IInv, NEW r \in Requests, CommitStock(r)
    PROVE  IInv'
<1>1. OrdersInv'
  BY DEF CommitStock, IInv, OrdersInv, orderVars
<1> QED
  BY <1>1, PublishStep DEF CommitStock

\* Steps that only change local variables.
LEMMA LocalStep ==
    ASSUME IInv, NEW r \in Requests, NEW t \in Transaction, tx' = [tx EXCEPT ![r] = t],
           UNCHANGED <<rowVars, orderVars>>, TxOK(r)'
    PROVE  IInv'
<1>1. RowsInv' /\ OrdersInv'
  BY DEF IInv, RowsInv, OrdersInv, rowVars, orderVars, Good, InRange, Balanced, OpeningVersion
<1>2. \A p \in Requests, w \in Rows : Visible(p, w).exists => Visible(p, w)'.exists
  BY DEF Visible, rowVars
<1>3. TxInv'
  BY <1>2, TxFrame DEF IInv
<1> QED
  BY <1>1, <1>3 DEF IInv

\* The arrival of any request keeps the invariant.
LEMMA ReceiveStep ==
    ASSUME IInv, NEW r \in Requests, Receive(r)
    PROVE  IInv'
<1>1. PICK job \in Jobs :
        ReceiveStatus(r, job) \/ ReceiveAdjust(r, job) \/ ReceiveInitialize(r, job)
  BY DEF Receive
<1>2. tx \in [Requests -> Transaction]
  BY DEF IInv, TxInv
<1>3. CASE ReceiveStatus(r, job)
  <2>1. PICK t \in {NewTx("items", job, status[job.order], ItemsToMove(status[job.order], job)),
                    Done} : tx' = [tx EXCEPT ![r] = t]
    BY <1>3 DEF ReceiveStatus
  <2>2. status[job.order] \in Statuses /\ ItemsToMove(status[job.order], job) \in SUBSET Items
    BY <1>3, JobKinds DEF ReceiveStatus, IInv, OrdersInv, ItemsToMove, ItemsOf
  <2>3. /\ NewTx("items", job, status[job.order], ItemsToMove(status[job.order], job))
            \in Transaction
        /\ Done \in Transaction
    BY <2>2, NewTxType, DoneType
  <2>4. t.pc \in {"items", "done"}
    BY <2>1 DEF NewTx, Done
  <2>5. t \in Transaction
    BY <2>1, <2>3
  <2>6. TxOK(r)'
    BY <1>2, <2>1, <2>4, RestOK
  <2> QED
    BY <1>3, <2>1, <2>5, <2>6, LocalStep DEF ReceiveStatus
<1>4. CASE ReceiveAdjust(r, job)
  <2>1. CASE ValidAdjustment(job) /\ stock[job.row].exists
    <3>1. tx' = [tx EXCEPT ![r] = NewTx("adjust", job, "PAID", {})]
      BY <1>4, <2>1 DEF ReceiveAdjust
    <3>2. NewTx("adjust", job, "PAID", {}) \in Transaction
      BY NewTxType DEF Statuses
    <3>3. job.row \in Rows /\ job \in AdjustJobs
      BY <1>4, JobKinds DEF ReceiveAdjust
    <3>4. Visible(r, job.row)'.exists
      BY <1>4, <2>1, <3>3 DEF ReceiveAdjust, rowVars, Visible, IInv, RowsInv
    <3>5. TxOK(r)'
      BY <1>2, <3>1, <3>3, <3>4 DEF TxOK, NewTx
    <3> QED
      BY <1>4, <3>1, <3>2, <3>5, LocalStep DEF ReceiveAdjust
  <2>2. CASE ~(ValidAdjustment(job) /\ stock[job.row].exists)
    <3>1. tx' = [tx EXCEPT ![r] = Done]
      BY <1>4, <2>2 DEF ReceiveAdjust
    <3>2. TxOK(r)'
      BY <1>2, <3>1, RestOK DEF Done, NewTx
    <3> QED
      BY <1>4, <3>1, <3>2, DoneType, LocalStep DEF ReceiveAdjust
  <2> QED
    BY <2>1, <2>2
<1>5. CASE ReceiveInitialize(r, job)
  <2>1. tx' = [tx EXCEPT ![r] = NewTx("create", job, "PAID", {})]
    BY <1>5 DEF ReceiveInitialize
  <2>2. NewTx("create", job, "PAID", {}) \in Transaction
    BY NewTxType DEF Statuses
  <2>3. TxOK(r)'
    BY <1>2, <1>5, <2>1 DEF TxOK, NewTx, ReceiveInitialize
  <2> QED
    BY <1>5, <2>1, <2>2, <2>3, LocalStep DEF ReceiveInitialize
<1> QED
  BY <1>1, <1>3, <1>4, <1>5

\* Choosing the next visit keeps a request's locals typed and its visits real.
LEMMA SetVisitLocals ==
    ASSUME IInv, NEW r \in Requests, NEW visits \in SUBSET Visits,
           NEW seen \in [Rows -> Int], NEW left \in Int, left > 0,
           \A a \in visits : /\ Visible(r, a[3])'.exists
                             /\ MovementOf(r) = "reserve" => seen[a[3]] > 0,
           SetVisit(r, visits, seen, left)
    PROVE  \E t \in Transaction : tx' = [tx EXCEPT ![r] = t] /\ TxOK(r)'
<1>1. PICK a \in IF visits = {} THEN {NoVisit} ELSE NextVisits(r, visits) :
        tx' = [tx EXCEPT ![r] =
                 [pc |-> "row", job |-> tx[r].job, from |-> tx[r].from,
                  items |-> tx[r].items, visits |-> visits \ {a}, at |-> a,
                  seen |-> seen, remaining |-> left]]
  BY DEF SetVisit
<1> DEFINE t == [pc |-> "row", job |-> tx[r].job, from |-> tx[r].from,
                 items |-> tx[r].items, visits |-> visits \ {a}, at |-> a,
                 seen |-> seen, remaining |-> left]
<1>2. a \in visits \/ a = NoVisit
  BY <1>1 DEF NextVisits
<1>3. tx \in [Requests -> Transaction]
  BY DEF IInv, TxInv
<1>4. t \in Transaction
  BY <1>2, <1>3 DEF Transaction
<1>5. TxOK(r)'
  <2>1. tx'[r] = t
    BY <1>1, <1>3
  <2>2. MovementOf(r)' = MovementOf(r)
    BY <2>1 DEF MovementOf
  <2>3. \A b \in visits : VisitOK(r, b)'
    BY <2>1, <2>2 DEF VisitOK
  <2> QED
    BY <1>2, <2>1, <2>3 DEF TxOK
<1> QED
  BY <1>1, <1>4, <1>5

\* Reading the rows to reserve from keeps the invariant: every quantity seen is positive.
LEMMA BeginReserveStep ==
    ASSUME IInv, NEW r \in Requests, NEW i \in Items, BeginReserve(r, i)
    PROVE  IInv'
<1> DEFINE seen == [v \in Rows |-> IF v \in SeenRows(r, i) THEN Visible(r, v).available ELSE 0]
           visits == {<<r, i, v>> : v \in {w \in Rows : seen[w] > 0}}
<1>1. \A v \in Rows : Visible(r, v) \in Version
  BY DEF IInv, RowsInv, Visible
<1>2. seen \in [Rows -> Int]
  BY <1>1 DEF Version
<1>3. visits \in SUBSET Visits
  <2>1. ASSUME NEW a \in visits PROVE a \in Visits
    <3>1. PICK v \in Rows : a = <<r, i, v>>
      OBVIOUS
    <3> QED
      BY <3>1 DEF Visits
  <2> QED
    BY <2>1
<1>4. \A a \in visits : a[3] \in Rows /\ seen[a[3]] > 0 /\ Visible(r, a[3]).exists
  BY DEF SeenRows
<1>5. UNCHANGED <<rowVars, orderVars>> /\ SetVisit(r, visits, seen, Quantity[i])
  BY DEF BeginReserve
<1>6. \A a \in visits : Visible(r, a[3])'.exists
  BY <1>4, <1>5 DEF Visible, rowVars
<1>7. Quantity[i] \in Int /\ Quantity[i] > 0
  BY ConstantsAssumption
<1> HIDE DEF seen, visits
<1>8. \E t \in Transaction : tx' = [tx EXCEPT ![r] = t] /\ TxOK(r)'
  BY <1>2, <1>3, <1>4, <1>5, <1>6, <1>7, SetVisitLocals
<1> QED
  BY <1>5, <1>8, LocalStep

\* Reading the allocations to fulfil or release keeps the invariant.
LEMMA BeginSettleStep ==
    ASSUME IInv, NEW r \in Requests, NEW i \in Items, BeginSettle(r, i)
    PROVE  IInv'
<1>1. ReservedVisits(r, i) \in SUBSET Visits
  BY DEF ReservedVisits
<1>2. ASSUME NEW a \in ReservedVisits(r, i) PROVE Visible(r, a[3]).exists
  <2>1. a[3] \in Rows /\ <<a[1], i>> \in Slots
    BY DEF ReservedVisits, Visits, Slots
  <2>2. Visible(r, a[3]).alloc[<<a[1], i>>].status = "RESERVED"
    BY DEF ReservedVisits
  <2>3. OpeningVersion(a[3]).alloc[<<a[1], i>>].status = "NONE"
    BY <2>1 DEF OpeningVersion
  <2>4. Good(a[3], Visible(r, a[3]))
    BY <2>1 DEF IInv, RowsInv, Visible
  <2> QED
    BY <2>2, <2>3, <2>4 DEF Good
<1>3. /\ UNCHANGED <<rowVars, orderVars>> /\ MovementOf(r) # "reserve"
      /\ SetVisit(r, ReservedVisits(r, i), tx[r].seen, Quantity[i])
  BY DEF BeginSettle
<1>4. \A a \in ReservedVisits(r, i) : Visible(r, a[3])'.exists
  BY <1>2, <1>3 DEF Visible, rowVars
<1>5. tx[r].seen \in [Rows -> Int] /\ Quantity[i] \in Int /\ Quantity[i] > 0
  BY ConstantsAssumption DEF IInv, TxInv, Transaction
<1>6. \E t \in Transaction : tx' = [tx EXCEPT ![r] = t] /\ TxOK(r)'
  BY <1>1, <1>3, <1>4, <1>5, SetVisitLocals
<1> QED
  BY <1>3, <1>6, LocalStep

\* A step that writes one row version and then goes on.
LEMMA WriteStep ==
    ASSUME IInv, NEW r \in Requests, NEW v \in Rows, CanLock(r, v),
           NEW n, Good(v, n), n.exists, Write(r, v, n), UNCHANGED <<stock, status, timeline>>,
           \E t \in Transaction : tx' = [tx EXCEPT ![r] = t] /\ TxOK(r)'
    PROVE  IInv'
<1>1. /\ RowsInv'
      /\ \A p \in Requests, w \in Rows : Visible(p, w).exists => Visible(p, w)'.exists
  BY WriteRows DEF IInv
<1>2. OrdersInv'
  BY DEF IInv, OrdersInv
<1>3. TxInv'
  BY <1>1, TxFrame DEF IInv
<1> QED
  BY <1>1, <1>2, <1>3 DEF IInv

\* The guarded update of adjust keeps the invariant.
LEMMA AdjustRowStep ==
    ASSUME IInv, NEW r \in Requests, AdjustRow(r)
    PROVE  IInv'
<1> DEFINE job == tx[r].job  v == job.row  n == AdjustOn(draft[v], job.type, job.quantity)
<1>1. /\ tx[r] \in Transaction /\ TxOK(r) /\ tx[r].pc = "adjust"
      /\ tx' = [tx EXCEPT ![r] = NewTx("items", job, "PAID", {})]
  BY DEF IInv, TxInv, AdjustRow
<1>2. job \in AdjustJobs /\ Visible(r, v).exists /\ job \in Jobs \cup {NoJob}
  BY <1>1 DEF TxOK, Transaction
<1>3. v \in Rows /\ job.type \in AdjustTypes /\ job.quantity \in Int
  BY <1>2 DEF AdjustJobs
<1>4. /\ CanLock(r, v) /\ AdjustGuard(draft[v], Delta(job.type, job.quantity))
      /\ Write(r, v, n) /\ UNCHANGED <<stock, status, timeline>>
  BY DEF AdjustRow
<1>5. Good(v, draft[v]) /\ draft[v].exists
  BY <1>2, <1>3 DEF IInv, RowsInv, Visible
<1>6. Good(v, n) /\ n.exists
  BY <1>3, <1>4, <1>5, AdjustGood
<1>7. NewTx("items", job, "PAID", {}) \in Transaction
  BY <1>2, NewTxType DEF Statuses
<1>8. TxOK(r)'
  BY <1>1, RestOK DEF NewTx, IInv, TxInv
<1> QED
  BY <1>1, <1>3, <1>4, <1>6, <1>7, <1>8, WriteStep

\* The insert of initialize keeps the invariant.
LEMMA CreateRowStep ==
    ASSUME IInv, NEW r \in Requests, CreateRow(r)
    PROVE  IInv'
<1> DEFINE job == tx[r].job  v == job.row  n == CreateOn(draft[v], job.quantity)
<1>1. /\ tx[r] \in Transaction /\ TxOK(r) /\ tx[r].pc = "create"
      /\ tx' = [tx EXCEPT ![r] = NewTx("items", job, "PAID", {})]
  BY DEF IInv, TxInv, CreateRow
<1>2. job \in InitJobs /\ job.quantity <= MaxInt /\ job \in Jobs \cup {NoJob}
  BY <1>1 DEF TxOK, Transaction
<1>3. v \in Rows /\ job.quantity \in Nat
  BY <1>2 DEF InitJobs
<1>4. /\ CanLock(r, v) /\ ~draft[v].exists
      /\ Write(r, v, n) /\ UNCHANGED <<stock, status, timeline>>
  BY DEF CreateRow
<1>5. Good(v, draft[v])
  BY <1>3 DEF IInv, RowsInv
<1>6. Good(v, n) /\ n.exists
  BY <1>2, <1>3, <1>4, <1>5, CreateGood
<1>7. NewTx("items", job, "PAID", {}) \in Transaction
  BY <1>2, NewTxType DEF Statuses
<1>8. TxOK(r)'
  BY <1>1, RestOK DEF NewTx, IInv, TxInv
<1> QED
  BY <1>1, <1>3, <1>4, <1>6, <1>7, <1>8, WriteStep

\* One turn of the reserve, fulfil or release loop keeps the invariant.
LEMMA MoveRowStep ==
    ASSUME IInv, NEW r \in Requests, MoveRow(r)
    PROVE  IInv'
<1> DEFINE v == RowAt(r)  id == SlotAt(r)  q == TakeAt(r)  s == draft[v]
           left == tx[r].remaining - q
<1>1. /\ tx[r] \in Transaction /\ TxOK(r) /\ tx[r].pc = "row" /\ tx[r].at # NoVisit
      /\ tx \in [Requests -> Transaction]
  BY DEF IInv, TxInv, MoveRow
<1>2. tx[r].at \in Visits /\ VisitOK(r, tx[r].at) /\ \A a \in tx[r].visits : VisitOK(r, a)
  BY <1>1 DEF TxOK, Transaction
<1>3. v \in Rows /\ id \in Slots /\ tx[r].at[2] \in Items
  BY <1>2 DEF Visits, RowAt, SlotAt, Slots
<1>4. /\ CanLock(r, v) /\ GuardHolds(r) /\ Write(r, v, NewVersion(r))
      /\ UNCHANGED <<stock, status, timeline>>
  BY DEF MoveRow
<1>5. Good(v, s) /\ s.exists
  BY <1>2, <1>3 DEF IInv, RowsInv, Visible, VisitOK, RowAt
<1>6. q \in Nat
  <2>1. CASE MovementOf(r) = "reserve"
    BY <1>1, <1>2, <1>3, <2>1 DEF TakeAt, Least, VisitOK, TxOK, Transaction, RowAt
  <2>2. CASE MovementOf(r) # "reserve"
    <3>1. Visible(r, v) \in Version
      BY <1>3 DEF IInv, RowsInv, Visible
    <3>2. Visible(r, v).alloc[id] \in Allocation
      BY <1>3, <3>1 DEF Version
    <3> QED
      BY <2>2, <3>2 DEF TakeAt, Allocation
  <2> QED
    BY <2>1, <2>2
<1>7. Good(v, NewVersion(r)) /\ NewVersion(r).exists
  <2> HIDE DEF v, id, q, s
  <2>1. CASE MovementOf(r) = "reserve"
    <3>1. s.available >= q /\ s.locked + q <= MaxInt /\ NewVersion(r) = ReserveOn(s, id, q)
      BY <1>4, <2>1 DEF GuardHolds, NewVersion, v, id, q, s
    <3> QED
      BY <1>3, <1>5, <1>6, <3>1, ReserveGood
  <2>2. CASE MovementOf(r) = "fulfil"
    <3>1. s.locked >= q /\ NewVersion(r) = FulfilOn(s, id, q)
      BY <1>4, <2>2 DEF GuardHolds, NewVersion, v, id, q, s
    <3> QED
      BY <1>3, <1>5, <1>6, <3>1, FulfilGood
  <2>3. CASE MovementOf(r) \notin {"reserve", "fulfil"}
    <3>1. s.locked >= q /\ s.available + q <= MaxInt /\ NewVersion(r) = ReleaseOn(s, id, q)
      BY <1>4, <2>3 DEF GuardHolds, NewVersion, v, id, q, s
    <3> QED
      BY <1>3, <1>5, <1>6, <3>1, ReleaseGood
  <2> QED
    BY <2>1, <2>2, <2>3
<1>8. \E t \in Transaction : tx' = [tx EXCEPT ![r] = t] /\ TxOK(r)'
  <2>1. CASE left <= 0
    <3> DEFINE t == NewTx("items", tx[r].job, tx[r].from, tx[r].items \ {tx[r].at[2]})
    <3>1. tx' = [tx EXCEPT ![r] = t]
      BY <2>1 DEF MoveRow
    <3>2. t \in Transaction
      BY <1>1, NewTxType DEF Transaction
    <3>3. TxOK(r)'
      BY <1>1, <3>1, RestOK DEF NewTx
    <3> QED
      BY <3>1, <3>2, <3>3
  <2>2. CASE ~(left <= 0)
    <3>1. SetVisit(r, tx[r].visits, tx[r].seen, left)
      BY <2>2 DEF MoveRow
    <3>2. left \in Int /\ left > 0
      BY <1>1, <1>6, <2>2 DEF Transaction
    <3>3. \A p \in Requests, w \in Rows : Visible(p, w).exists => Visible(p, w)'.exists
      BY <1>3, <1>4, <1>7, WriteRows DEF IInv
    <3>4. tx[r].visits \in SUBSET Visits /\ tx[r].seen \in [Rows -> Int]
      BY <1>1 DEF Transaction
    <3>5. \A a \in tx[r].visits : /\ Visible(r, a[3])'.exists
                                  /\ MovementOf(r) = "reserve" => tx[r].seen[a[3]] > 0
      BY <1>2, <3>3, <3>4 DEF VisitOK, Visits
    <3> HIDE DEF left
    <3> QED
      BY <3>1, <3>2, <3>4, <3>5, SetVisitLocals
  <2> QED
    BY <2>1, <2>2
<1> HIDE DEF v
<1> QED
  BY <1>3, <1>4, <1>7, <1>8, WriteStep

-----------------------------------------------------------------------------
(***************************************************************************)
(* The invariant and what it gives.                                        *)
(***************************************************************************)
\* The database as it is found satisfies the invariant.
LEMMA InitInv == Init => IInv
<1> SUFFICES ASSUME Init PROVE IInv
  OBVIOUS
<1>1. RowsInv
  <2>1. /\ stock = [v \in Rows |-> OpeningVersion(v)] /\ draft = stock
        /\ owner = [v \in Rows |-> Free]
    BY DEF Init
  <2>2. \A v \in Rows : OpeningVersion(v) \in Version /\ Good(v, OpeningVersion(v))
    BY OpeningGood DEF Good
  <2> QED
    BY <2>1, <2>2 DEF RowsInv
<1>2. OrdersInv
  <2>1. status \in [Orders -> Statuses]
    BY ConstantsAssumption DEF Init, Statuses
  <2>2. timeline \in [Orders -> Seq([from : Statuses, to : Statuses])]
    BY DEF Init
  <2> QED
    BY <2>1, <2>2 DEF OrdersInv
<1>3. TxInv
  BY DoneType DEF Init, TxInv, TxOK, Idle, NewTx
<1> QED
  BY <1>1, <1>2, <1>3 DEF IInv

\* Every step of every request keeps the invariant.
LEMMA NextInv == IInv /\ [Next]_vars => IInv'
<1> SUFFICES ASSUME IInv, [Next]_vars PROVE IInv'
  OBVIOUS
<1>1. CASE UNCHANGED vars
  <2> USE <1>1 DEF vars
  <2>1. RowsInv' /\ OrdersInv'
    BY DEF IInv, RowsInv, OrdersInv, Good, InRange, Balanced, OpeningVersion
  <2>2. TxInv'
    BY DEF IInv, TxInv, TxOK, VisitOK, MovementOf, Visible
  <2> QED
    BY <2>1, <2>2 DEF IInv
<1>2. CASE Next
  <2>1. PICK r \in Requests : Receive(r) \/ Progress(r) \/ DeadlockVictim(r) \/ Abort(r)
    BY <1>2 DEF Next
  <2>2. CASE Receive(r)
    BY <2>2, ReceiveStep
  <2>3. CASE Progress(r)
    <3>1. CASE BeginItem(r)
      <4>1. PICK i \in Items : BeginReserve(r, i) \/ BeginSettle(r, i) \/ RejectItem(r, i)
        BY <3>1 DEF BeginItem
      <4> QED
        BY <4>1, BeginReserveStep, BeginSettleStep, RollbackStep DEF RejectItem
    <3>2. CASE MoveRow(r)
      BY <3>2, MoveRowStep
    <3>3. CASE RejectRow(r) \/ RejectAdjust(r) \/ RejectCreate(r)
      BY <3>3, RollbackStep DEF RejectRow, RejectAdjust, RejectCreate
    <3>4. CASE CommitStatus(r)
      BY <3>4, CommitStatusStep
    <3>5. CASE AdjustRow(r)
      BY <3>5, AdjustRowStep
    <3>6. CASE CreateRow(r)
      BY <3>6, CreateRowStep
    <3>7. CASE CommitStock(r)
      BY <3>7, CommitStockStep
    <3> QED
      BY <2>3, <3>1, <3>2, <3>3, <3>4, <3>5, <3>6, <3>7 DEF Progress
  <2>4. CASE DeadlockVictim(r) \/ Abort(r)
    BY <2>4, RollbackStep DEF DeadlockVictim, Abort
  <2> QED
    BY <2>1, <2>2, <2>3, <2>4
<1> QED
  BY <1>1, <1>2

\* IInv is an inductive invariant of every interleaving of the requests; the three
\* theorems below are read off it.
THEOREM Invariance == Spec => []IInv
BY InitInv, NextInv, PTL DEF Spec

\* Every variable keeps its type under every interleaving: in particular no transaction
\* ever allocates a negative quantity, however stale the rows it read are.
THEOREM TypeCorrect == Spec => []TypeOK
<1>1. IInv => TypeOK
  BY DEF IInv, RowsInv, OrdersInv, TxInv, TypeOK
<1> QED
  BY <1>1, Invariance, PTL

\* The guarded updates of adjust, reserveForOrder, fulfillOrder and releaseOrder keep
\* both quantities of every row within 0 .. MaxInt, for any overlap of requests.
THEOREM StockSafe == Spec => []StockNeverNegative
<1>1. IInv => StockNeverNegative
  BY DEF IInv, RowsInv, Good, StockNeverNegative
<1> QED
  BY <1>1, Invariance, PTL

\* The journal of every row always adds up to its two quantities, committed or not.
THEOREM JournalCorrect == Spec => []JournalBalances
<1>1. IInv => JournalBalances
  BY DEF IInv, RowsInv, Good, JournalBalances
<1> QED
  BY <1>1, Invariance, PTL
=============================================================================
