----------------------- MODULE FulfilmentOrders_proofs -----------------------
(***************************************************************************)
(* More about Fulfilment: whatever overlaps, locks never outlive their     *)
(* transaction and the timeline is a history of legal decisions; and when  *)
(* no two status changes of one order overlap, the status an order was     *)
(* read with is still its status at the commit.                            *)
(***************************************************************************)
EXTENDS Fulfilment_proofs

\* How a step may change the locals of the request that takes it: it ends, or goes on
\* with the job and the status it read, or goes on with a job that is no status change.
GoesOn(r, t) ==
    /\ t.pc \notin {"idle", "done"}
    /\ tx' = [tx EXCEPT ![r] = t]
    /\ t.job = tx[r].job /\ (t.job.kind = "status" => t.from = tx[r].from)

\* A step that writes or reads a row goes on with the same job.
LEMMA ProgressGoesOn ==
    ASSUME IInv, NEW r \in Requests,
           \/ MoveRow(r) \/ AdjustRow(r) \/ CreateRow(r)
           \/ \E i \in Items : BeginReserve(r, i) \/ BeginSettle(r, i)
    PROVE  InTransaction(r) /\ \E t : GoesOn(r, t)
<1>1. ASSUME NEW visits, NEW seen, NEW left, SetVisit(r, visits, seen, left)
      PROVE  \E t : GoesOn(r, t)
  <2>1. PICK a : tx' = [tx EXCEPT ![r] =
                 [pc |-> "row", job |-> tx[r].job, from |-> tx[r].from,
                  items |-> tx[r].items, visits |-> visits \ {a}, at |-> a,
                  seen |-> seen, remaining |-> left]]
    BY <1>1 DEF SetVisit
  <2> DEFINE t == [pc |-> "row", job |-> tx[r].job, from |-> tx[r].from,
                   items |-> tx[r].items, visits |-> visits \ {a}, at |-> a,
                   seen |-> seen, remaining |-> left]
  <2>2. GoesOn(r, t)
    BY <2>1 DEF GoesOn
  <2> QED
    BY <2>2
<1>2. CASE MoveRow(r)
  <2>1. CASE tx[r].remaining - TakeAt(r) <= 0
    <3> DEFINE t == NewTx("items", tx[r].job, tx[r].from, tx[r].items \ {tx[r].at[2]})
    <3>1. tx' = [tx EXCEPT ![r] = t]
      BY <1>2, <2>1 DEF MoveRow
    <3>2. GoesOn(r, t)
      BY <3>1 DEF GoesOn, NewTx
    <3> QED
      BY <1>2, <3>2 DEF MoveRow, InTransaction
  <2>2. CASE ~(tx[r].remaining - TakeAt(r) <= 0)
    BY <1>1, <1>2, <2>2 DEF MoveRow, InTransaction
  <2> QED
    BY <2>1, <2>2
<1>3. CASE AdjustRow(r) \/ CreateRow(r)
  <2> DEFINE t == NewTx("items", tx[r].job, "PAID", {})
  <2>1. /\ tx' = [tx EXCEPT ![r] = t] /\ InTransaction(r)
        /\ tx[r].job \in AdjustJobs \cup InitJobs
    BY <1>3 DEF AdjustRow, CreateRow, InTransaction, IInv, TxInv, TxOK
  <2>2. t.pc = "items" /\ t.job = tx[r].job /\ t.job.kind # "status"
    BY <2>1 DEF NewTx, AdjustJobs, InitJobs
  <2>3. GoesOn(r, t)
    BY <2>1, <2>2 DEF GoesOn
  <2> QED
    BY <2>1, <2>3
<1>4. CASE \E i \in Items : BeginReserve(r, i) \/ BeginSettle(r, i)
  BY <1>1, <1>4 DEF BeginReserve, BeginSettle, InTransaction
<1> QED
  BY <1>2, <1>3, <1>4

-----------------------------------------------------------------------------
(***************************************************************************)
(* Locks end with their transaction.                                       *)
(***************************************************************************)
\* A row lock and the uncommitted writes under it belong to a running transaction.
LocksEndWithTransaction ==
    \A v \in Rows :
        /\ owner[v] = Free => draft[v] = stock[v]
        /\ owner[v] # Free => InTransaction(owner[v])

\* A transaction that ends frees the rows it owned and no others.
LEMMA EndKeepsLocks ==
    ASSUME IInv, LocksEndWithTransaction, NEW r \in Requests, Rollback(r) \/ Publish(r)
    PROVE  LocksEndWithTransaction'
<1>1. /\ tx' = [tx EXCEPT ![r] = Done] /\ tx \in [Requests -> Transaction]
      /\ \A v \in Rows : owner[v] \in Requests \cup {Free}
      /\ \A v \in Rows : owner'[v] = IF owner[v] = r THEN Free ELSE owner[v]
  BY DEF Rollback, Publish, IInv, TxInv, RowsInv
<1>2. \A v \in Rows : owner[v] = r => draft'[v] = stock'[v]
  BY DEF Rollback, Publish, IInv, RowsInv
<1>3. \A v \in Rows : owner[v] # r => draft'[v] = draft[v] /\ stock'[v] = stock[v]
  BY DEF Rollback, Publish, IInv, RowsInv
<1> QED
  BY <1>1, <1>2, <1>3 DEF LocksEndWithTransaction, InTransaction

\* Every step keeps locks with running transactions.
LEMMA NextLocks ==
    IInv /\ LocksEndWithTransaction /\ [Next]_vars => LocksEndWithTransaction'
<1> SUFFICES ASSUME IInv, LocksEndWithTransaction, [Next]_vars
             PROVE  LocksEndWithTransaction'
  OBVIOUS
<1>0. /\ tx \in [Requests -> Transaction]
      /\ owner \in [Rows -> Requests \cup {Free}] /\ Free \notin Requests
      /\ draft \in [Rows -> Version]
  BY ConstantsAssumption DEF IInv, TxInv, RowsInv
<1>1. CASE UNCHANGED vars
  BY <1>1 DEF vars, LocksEndWithTransaction, InTransaction
<1>2. ASSUME NEW r \in Requests, Receive(r) PROVE LocksEndWithTransaction'
  <2>1. ~InTransaction(r) /\ UNCHANGED rowVars
    BY <1>2 DEF Receive, ReceiveStatus, ReceiveAdjust, ReceiveInitialize, InTransaction
  <2>2. \A p \in Requests \ {r} : tx'[p] = tx[p]
    BY <1>0, <1>2 DEF Receive, ReceiveStatus, ReceiveAdjust, ReceiveInitialize
  <2> QED
    BY <1>0, <2>1, <2>2 DEF LocksEndWithTransaction, InTransaction, rowVars
<1>3. ASSUME NEW r \in Requests, NEW i \in Items, BeginReserve(r, i) \/ BeginSettle(r, i)
      PROVE  LocksEndWithTransaction'
  <2>1. PICK t : GoesOn(r, t)
    BY <1>3, ProgressGoesOn
  <2>2. UNCHANGED rowVars
    BY <1>3 DEF BeginReserve, BeginSettle
  <2> QED
    BY <1>0, <2>1, <2>2 DEF LocksEndWithTransaction, InTransaction, rowVars, GoesOn
<1>4. ASSUME NEW r \in Requests, MoveRow(r) \/ AdjustRow(r) \/ CreateRow(r)
      PROVE  LocksEndWithTransaction'
  <2>1. PICK t : GoesOn(r, t)
    BY <1>4, ProgressGoesOn
  <2>2. UNCHANGED stock /\ \E v, n : CanLock(r, v) /\ Write(r, v, n)
    BY <1>4 DEF MoveRow, AdjustRow, CreateRow
  <2>3. PICK v, n : CanLock(r, v) /\ Write(r, v, n)
    BY <2>2
  <2>4. /\ owner' = [owner EXCEPT ![v] = r] /\ draft' = [draft EXCEPT ![v] = n]
    BY <2>3 DEF Write
  <2> QED
    BY <1>0, <2>1, <2>2, <2>4 DEF LocksEndWithTransaction, InTransaction, GoesOn
<1>5. CASE Next
  <2>1. PICK r \in Requests : Receive(r) \/ Progress(r) \/ DeadlockVictim(r) \/ Abort(r)
    BY <1>5 DEF Next
  <2>2. CASE Rollback(r) \/ Publish(r)
    BY <2>2, EndKeepsLocks
  <2>3. CASE ~(Rollback(r) \/ Publish(r))
    BY <1>2, <1>3, <1>4, <2>1, <2>3 DEF Progress, BeginItem, RejectItem, RejectRow,
       RejectAdjust, RejectCreate, CommitStatus, CommitStock, DeadlockVictim, Abort
  <2> QED
    BY <2>2, <2>3
<1> QED
  BY <1>1, <1>5

\* No lock, and no write under it, survives the transaction that took it.
LEMMA LocksReleased == Spec => []LocksEndWithTransaction
<1>1. Init => LocksEndWithTransaction
  <2> SUFFICES ASSUME Init PROVE LocksEndWithTransaction
    OBVIOUS
  <2> QED
    BY DEF Init, LocksEndWithTransaction
<1>2. IInv /\ LocksEndWithTransaction /\ [Next]_vars => LocksEndWithTransaction'
  BY NextLocks
<1> QED
  BY <1>1, <1>2, Invariance, PTL DEF Spec

-----------------------------------------------------------------------------
(***************************************************************************)
(* Status changes of one order that do not overlap.                        *)
(***************************************************************************)
Changing(p) == tx[p].job.kind = "status"

\* A status change still sees the status its order has, and is alone with it.
Fresh(p) ==
    /\ tx[p].from = status[tx[p].job.order]
    /\ tx[p].job.to \in Transitions[tx[p].from]
    /\ \A q \in Requests \ {p} : Changing(q) => tx[q].job.order # tx[p].job.order

SerialInv == \A p \in Requests : Changing(p) => Fresh(p)

\* A request without a job is not a status change.
LEMMA KindNone == NoJob.kind = "none" /\ Done.job = NoJob /\ Idle.job = NoJob
BY DEF NoJob, Done, Idle, NewTx

\* A step that goes on with its job leaves every status change fresh.
LEMMA GoesOnSerial ==
    ASSUME IInv, SerialInv, NEW r \in Requests, NEW t, GoesOn(r, t), UNCHANGED status
    PROVE  SerialInv'
<1>1. /\ tx'[r].job = tx[r].job /\ (Changing(r) => tx'[r].from = tx[r].from)
      /\ \A p \in Requests \ {r} : tx'[p] = tx[p]
  BY DEF GoesOn, IInv, TxInv, Changing
<1>2. \A p \in Requests : Changing(p)' <=> Changing(p)
  BY <1>1 DEF Changing
<1> QED
  BY <1>1, <1>2 DEF SerialInv, Fresh

\* A request that ends leaves the others fresh when it wrote only its own order.
LEMMA EndSerial ==
    ASSUME IInv, SerialInv, NEW r \in Requests, tx' = [tx EXCEPT ![r] = Done],
           \A p \in Requests \ {r} : Changing(p) =>
                status'[tx[p].job.order] = status[tx[p].job.order]
    PROVE  SerialInv'
<1>1. ~Changing(r)' /\ \A p \in Requests \ {r} : tx'[p] = tx[p]
  BY KindNone DEF IInv, TxInv, Changing
<1> QED
  BY <1>1 DEF SerialInv, Fresh, Changing

\* A status change that arrives reads the current status and is alone with its order.
LEMMA ReceiveSerial ==
    ASSUME OneAtATime = TRUE, IInv, SerialInv, NEW r \in Requests, Receive(r)
    PROVE  SerialInv' /\ UNCHANGED status
<1>1. PICK job \in Jobs :
        ReceiveStatus(r, job) \/ ReceiveAdjust(r, job) \/ ReceiveInitialize(r, job)
  BY DEF Receive
<1>2. /\ tx \in [Requests -> Transaction] /\ UNCHANGED status
      /\ \A p \in Requests \ {r} : tx'[p] = tx[p]
  BY <1>1 DEF ReceiveStatus, ReceiveAdjust, ReceiveInitialize, orderVars, IInv, TxInv
<1>3. CASE ~Changing(r)'
  BY <1>2, <1>3 DEF SerialInv, Fresh, Changing
<1>4. CASE Changing(r)'
  <2> DEFINE from == status[job.order]
  <2>1. ReceiveStatus(r, job) /\ job.to \in Transitions[from]
    <3>1. \A pc, fr, items : NewTx(pc, job, fr, items).job = job
      BY DEF NewTx
    <3>2. job \in AdjustJobs \cup InitJobs => job.kind # "status"
      BY DEF AdjustJobs, InitJobs
    <3> QED
      BY <1>1, <1>2, <1>4, <3>1, <3>2, KindNone
         DEF Changing, ReceiveStatus, ReceiveAdjust, ReceiveInitialize
  <2>2. tx'[r].job = job /\ tx'[r].from = from
    BY <1>2, <2>1 DEF ReceiveStatus, NewTx
  <2>3. \A p \in Requests : Changing(p) => tx[p].job.order # job.order
    BY <2>1 DEF ReceiveStatus, Overlaps, Changing
  <2>4. Fresh(r)'
    BY <1>2, <2>1, <2>2, <2>3 DEF Fresh, Changing
  <2>5. \A p \in Requests \ {r} : Changing(p)' => Fresh(p)'
    BY <1>2, <2>2, <2>3 DEF SerialInv, Fresh, Changing
  <2> QED
    BY <1>2, <2>4, <2>5 DEF SerialInv
<1> QED
  BY <1>2, <1>3, <1>4

\* A status change that commits leaves the others fresh: they are about other orders.
LEMMA CommitSerial ==
    ASSUME IInv, SerialInv, NEW r \in Requests, CommitStatus(r)
    PROVE  SerialInv'
<1> DEFINE o == tx[r].job.order  to == tx[r].job.to
<1>1. /\ Changing(r) /\ Fresh(r) /\ tx' = [tx EXCEPT ![r] = Done]
      /\ status' = [status EXCEPT ![o] = to]
  BY DEF CommitStatus, Publish, Changing, SerialInv
<1>2. tx[r].job \in Jobs \cup {NoJob} /\ tx[r].job # NoJob
  BY <1>1, KindNone DEF IInv, TxInv, Transaction, Changing
<1>3. o \in Orders /\ status \in [Orders -> Statuses]
  BY <1>1, <1>2, JobKinds DEF Changing, IInv, OrdersInv
<1>4. \A p \in Requests \ {r} : Changing(p) =>
          status'[tx[p].job.order] = status[tx[p].job.order]
  <2> SUFFICES ASSUME NEW p \in Requests \ {r}, Changing(p)
               PROVE  status'[tx[p].job.order] = status[tx[p].job.order]
    OBVIOUS
  <2>1. tx[p].job \in Jobs \cup {NoJob} /\ tx[p].job # NoJob
    BY KindNone DEF IInv, TxInv, Transaction, Changing
  <2>2. tx[p].job.order \in Orders /\ tx[p].job.order # o
    BY <1>1, <2>1, JobKinds DEF Changing, Fresh
  <2> QED
    BY <1>1, <1>3, <2>2
<1> QED
  BY <1>1, <1>4, EndSerial

\* Every step leaves the status changes under way fresh.
LEMMA NextSerial ==
    ASSUME OneAtATime = TRUE, IInv, SerialInv, [Next]_vars
    PROVE  SerialInv'
<1>1. CASE UNCHANGED vars
  BY <1>1 DEF vars, SerialInv, Fresh, Changing
<1>2. ASSUME NEW r \in Requests, Rollback(r) \/ CommitStock(r)
      PROVE  SerialInv'
  <2>1. tx' = [tx EXCEPT ![r] = Done] /\ UNCHANGED status
    BY <1>2 DEF Rollback, CommitStock, Publish, orderVars
  <2> QED
    BY <2>1, EndSerial
<1>3. ASSUME NEW r \in Requests,
             \/ MoveRow(r) \/ AdjustRow(r) \/ CreateRow(r)
             \/ \E i \in Items : BeginReserve(r, i) \/ BeginSettle(r, i)
      PROVE  SerialInv'
  <2>1. PICK t : GoesOn(r, t)
    BY <1>3, ProgressGoesOn
  <2>2. UNCHANGED status
    BY <1>3 DEF MoveRow, AdjustRow, CreateRow, BeginReserve, BeginSettle, orderVars
  <2> QED
    BY <2>1, <2>2, GoesOnSerial
<1>4. ASSUME NEW r \in Requests, Receive(r) PROVE SerialInv'
  BY <1>4, ReceiveSerial
<1>5. CASE Next
  <2>1. PICK r \in Requests : Receive(r) \/ Progress(r) \/ DeadlockVictim(r) \/ Abort(r)
    BY <1>5 DEF Next
  <2>2. CASE Rollback(r) \/ CommitStock(r)
    BY <1>2, <2>2
  <2>3. CASE CommitStatus(r)
    BY <2>3, CommitSerial
  <2>4. CASE ~(Rollback(r) \/ CommitStock(r) \/ CommitStatus(r))
    BY <1>3, <1>4, <2>1, <2>4 DEF Progress, BeginItem, RejectItem, RejectRow,
       RejectAdjust, RejectCreate, DeadlockVictim, Abort
  <2> QED
    BY <2>2, <2>3, <2>4
<1> QED
  BY <1>1, <1>5

\* No status change is running at the start.
LEMMA InitSerial == Init => SerialInv
<1> SUFFICES ASSUME Init, NEW p \in Requests PROVE ~Changing(p)
  BY DEF SerialInv
<1> QED
  BY KindNone DEF Init, Changing

-----------------------------------------------------------------------------
(***************************************************************************)
(* Status changes of one order that may overlap: the timeline.             *)
(***************************************************************************)
\* The statuses an order has had so far.
Had(o) == {OpeningStatus[o]} \cup {timeline[o][k].to : k \in DOMAIN timeline[o]}

\* A status change was decided on a status its order has had, by the table.
Decided(p) ==
    /\ tx[p].from \in Had(tx[p].job.order)
    /\ tx[p].job.to \in Transitions[tx[p].from]

HistoryInv ==
    /\ TimelineIsHistory
    /\ \A p \in Requests : Changing(p) => Decided(p)

\* An order has the last status it has had.
LEMMA NowHad == ASSUME IInv, TimelineIsHistory, NEW o \in Orders PROVE status[o] \in Had(o)
<1>1. timeline[o] \in Seq([from : Statuses, to : Statuses])
  BY DEF IInv, OrdersInv
<1>2. status[o] = IF timeline[o] = <<>> THEN OpeningStatus[o]
                  ELSE timeline[o][Len(timeline[o])].to
  BY DEF TimelineIsHistory
<1>3. timeline[o] # <<>> => Len(timeline[o]) \in DOMAIN timeline[o]
  BY <1>1
<1> QED
  BY <1>2, <1>3 DEF Had

\* What the status changes under way were decided on is not taken from them by a step that
\* keeps the timelines, or only makes them longer.
LEMMA StillDecided ==
    ASSUME NEW p \in Requests, Changing(p), Decided(p), tx'[p].job = tx[p].job,
           tx'[p].from = tx[p].from, Had(tx[p].job.order) \subseteq Had(tx[p].job.order)'
    PROVE  Decided(p)'
BY DEF Decided, Had

\* A step that leaves the orders alone and ends or goes on with its job.
LEMMA QuietHistory ==
    ASSUME IInv, HistoryInv, NEW r \in Requests, UNCHANGED orderVars,
           tx' = [tx EXCEPT ![r] = Done] \/ \E t : GoesOn(r, t)
    PROVE  HistoryInv'
<1>1. TimelineIsHistory'
  BY DEF HistoryInv, TimelineIsHistory, orderVars
<1>2. \A o : Had(o)' = Had(o)
  BY DEF Had, orderVars
<1>3. \A p \in Requests \ {r} : tx'[p] = tx[p]
  BY DEF GoesOn, IInv, TxInv
<1>4. Changing(r)' => /\ Changing(r) /\ tx'[r].job = tx[r].job
                      /\ tx'[r].from = tx[r].from
  BY KindNone DEF GoesOn, IInv, TxInv, Changing
<1>5. ASSUME NEW p \in Requests, Changing(p)' PROVE Decided(p)'
  <2>1. Changing(p) /\ tx'[p].job = tx[p].job /\ tx'[p].from = tx[p].from
    BY <1>3, <1>4, <1>5 DEF Changing
  <2> QED
    BY <1>2, <2>1, StillDecided DEF HistoryInv
<1> QED
  BY <1>1, <1>5 DEF HistoryInv

\* A status change that arrives is decided on the status the order has.
LEMMA ReceiveHistory ==
    ASSUME IInv, HistoryInv, NEW r \in Requests, Receive(r)
    PROVE  HistoryInv'
<1>1. PICK job \in Jobs :
        ReceiveStatus(r, job) \/ ReceiveAdjust(r, job) \/ ReceiveInitialize(r, job)
  BY DEF Receive
<1>2. /\ tx \in [Requests -> Transaction] /\ UNCHANGED orderVars
      /\ \A p \in Requests \ {r} : tx'[p] = tx[p]
  BY <1>1 DEF ReceiveStatus, ReceiveAdjust, ReceiveInitialize, IInv, TxInv
<1>3. TimelineIsHistory'
  BY <1>2 DEF HistoryInv, TimelineIsHistory, orderVars
<1>4. \A o : Had(o)' = Had(o)
  BY <1>2 DEF Had, orderVars
<1>5. ASSUME Changing(r)' PROVE Decided(r)'
  <2> DEFINE from == status[job.order]
  <2>1. ReceiveStatus(r, job) /\ job.to \in Transitions[from]
    <3>1. \A pc, fr, items : NewTx(pc, job, fr, items).job = job
      BY DEF NewTx
    <3>2. job \in AdjustJobs \cup InitJobs => job.kind # "status"
      BY DEF AdjustJobs, InitJobs
    <3> QED
      BY <1>1, <1>2, <1>5, <3>1, <3>2, KindNone
         DEF Changing, ReceiveStatus, ReceiveAdjust, ReceiveInitialize
  <2>2. tx'[r].job = job /\ tx'[r].from = from
    BY <1>2, <2>1 DEF ReceiveStatus, NewTx
  <2>3. job.order \in Orders
    BY <2>1 DEF ReceiveStatus, StatusJobs
  <2>4. from \in Had(job.order)'
    BY <1>4, <2>3, NowHad DEF HistoryInv
  <2> QED
    BY <2>1, <2>2, <2>4 DEF Decided, Had
<1>6. ASSUME NEW p \in Requests \ {r}, Changing(p)' PROVE Decided(p)'
  BY <1>2, <1>4, <1>6, StillDecided DEF HistoryInv, Changing
<1> QED
  BY <1>3, <1>5, <1>6 DEF HistoryInv

\* A commit adds one event, decided on a status the order has had.
LEMMA CommitHistory ==
    ASSUME IInv, HistoryInv, NEW r \in Requests, CommitStatus(r)
    PROVE  HistoryInv'
<1>1. PICK o, to, from :
          /\ o = tx[r].job.order /\ to = tx[r].job.to /\ from = tx[r].from
          /\ tx[r].job \in Jobs /\ Changing(r) /\ tx' = [tx EXCEPT ![r] = Done]
          /\ status' = [status EXCEPT ![o] = to]
          /\ timeline' = [timeline EXCEPT ![o] = Append(@, [from |-> from, to |-> to])]
  <2>1. Changing(r) /\ tx[r].job \in Jobs \cup {NoJob}
    BY DEF CommitStatus, Changing, IInv, TxInv, Transaction
  <2>2. tx[r].job \in Jobs
    BY <2>1, KindNone DEF Changing
  <2> QED
    BY <2>1, <2>2 DEF CommitStatus, Publish
<1>2. /\ o \in Orders /\ to \in Transitions[from] /\ from \in Had(o)
      /\ tx \in [Requests -> Transaction]
  BY <1>1, JobKinds DEF HistoryInv, Decided, Changing, IInv, TxInv
<1> DEFINE Event == [from : Statuses, to : Statuses]
<1>3. PICK e, old :
          /\ e = [from |-> from, to |-> to] /\ e \in Event
          /\ old = timeline[o] /\ old \in Seq(Event)
          /\ timeline'[o] = Append(old, e) /\ status'[o] = to
          /\ \A p \in Orders \ {o} : timeline'[p] = timeline[p] /\ status'[p] = status[p]
  <2>1. timeline \in [Orders -> Seq(Event)] /\ status \in [Orders -> Statuses]
    BY DEF IInv, OrdersInv
  <2>2. to \in Statuses
    BY <1>1, JobKinds DEF Changing
  <2>3. from \in Statuses
    BY <1>1, <1>2 DEF Transaction
  <2>4. timeline'[o] = Append(timeline[o], [from |-> from, to |-> to]) /\ status'[o] = to
    BY <1>1, <1>2, <2>1
  <2>5. \A p \in Orders \ {o} : timeline'[p] = timeline[p] /\ status'[p] = status[p]
    BY <1>1, <2>1
  <2>6. timeline[o] \in Seq(Event) /\ [from |-> from, to |-> to] \in Event
    BY <1>2, <2>1, <2>2, <2>3
  <2> QED
    BY <2>4, <2>5, <2>6
<1> HIDE DEF Event
<1>4. PICK new : new = timeline'[o]
  OBVIOUS
<1>5. /\ Len(new) = Len(old) + 1 /\ Len(old) \in Nat /\ new[Len(old) + 1] = e
      /\ \A n \in 1 .. Len(old) : new[n] = old[n]
      /\ DOMAIN old = 1 .. Len(old) /\ DOMAIN new = 1 .. Len(new)
      /\ new # <<>>
  BY <1>3, <1>4
<1>6. e.from = from /\ e.to = to
  BY <1>3
<1>7. /\ \A n \in 1 .. Len(new) :
            /\ new[n].from \in {OpeningStatus[o]} \cup {new[k].to : k \in 1 .. n - 1}
            /\ new[n].to \in Transitions[new[n].from]
      /\ status'[o] = IF new = <<>> THEN OpeningStatus[o] ELSE new[Len(new)].to
  <2>1. ASSUME NEW n \in 1 .. Len(old)
        PROVE  /\ new[n].from \in {OpeningStatus[o]} \cup {new[k].to : k \in 1 .. n - 1}
               /\ new[n].to \in Transitions[new[n].from]
    <3>1. /\ old[n].from \in {OpeningStatus[o]} \cup {old[k].to : k \in 1 .. n - 1}
          /\ old[n].to \in Transitions[old[n].from]
      BY <1>2, <1>3 DEF HistoryInv, TimelineIsHistory
    <3>2. new[n] = old[n] /\ \A k \in 1 .. n - 1 : new[k] = old[k]
      BY <1>5
    <3> QED
      BY <3>1, <3>2
  <2>2. from \in {OpeningStatus[o]} \cup {new[k].to : k \in 1 .. Len(old)}
    BY <1>2, <1>3, <1>5 DEF Had
  <2>3. Len(old) + 1 - 1 = Len(old)
    BY <1>5
  <2> QED
    BY <1>2, <1>3, <1>5, <1>6, <2>1, <2>2, <2>3
<1>8. TimelineIsHistory'
  <2> DEFINE True(p, t, st) ==
         /\ \A n \in 1 .. Len(t) :
               /\ t[n].from \in {OpeningStatus[p]} \cup {t[k].to : k \in 1 .. n - 1}
               /\ t[n].to \in Transitions[t[n].from]
         /\ st = IF t = <<>> THEN OpeningStatus[p] ELSE t[Len(t)].to
  <2>1. \A p \in Orders : True(p, timeline[p], status[p])
    BY DEF HistoryInv, TimelineIsHistory
  <2>2. True(o, timeline'[o], status'[o])
    BY <1>4, <1>7
  <2>3. (\A p \in Orders : True(p, timeline'[p], status'[p])) => TimelineIsHistory'
    BY DEF TimelineIsHistory
  <2> HIDE DEF True
  <2> QED
    BY <1>3, <2>1, <2>2, <2>3
<1>9. \A p \in Orders : Had(p) \subseteq Had(p)'
  <2>1. Had(o) \subseteq Had(o)'
    BY <1>3, <1>4, <1>5 DEF Had
  <2>2. \A p \in Orders \ {o} : Had(p)' = Had(p)
    BY <1>3 DEF Had
  <2> QED
    BY <2>1, <2>2
<1>10. ASSUME NEW p \in Requests, Changing(p)' PROVE Decided(p)'
  <2>1. p # r /\ tx'[p] = tx[p]
    BY <1>1, <1>2, <1>10, KindNone DEF Changing
  <2>2. Changing(p) /\ tx[p].job \in Jobs
    <3>1. Changing(p)
      BY <1>10, <2>1 DEF Changing
    <3>2. tx[p].job \in Jobs \cup {NoJob}
      BY <1>2 DEF Transaction
    <3> QED
      BY <3>1, <3>2, KindNone DEF Changing
  <2>3. tx[p].job.order \in Orders
    BY <2>2, JobKinds DEF Changing
  <2> QED
    BY <1>9, <2>1, <2>2, <2>3, StillDecided DEF HistoryInv
<1> QED
  BY <1>8, <1>10 DEF HistoryInv

\* Every step, whatever overlaps, keeps the history.
LEMMA NextHistory == IInv /\ HistoryInv /\ [Next]_vars => HistoryInv'
<1> SUFFICES ASSUME IInv, HistoryInv, [Next]_vars PROVE HistoryInv'
  OBVIOUS
<1>1. CASE UNCHANGED vars
  BY <1>1 DEF vars, HistoryInv, TimelineIsHistory, Decided, Had, Changing
<1>2. ASSUME NEW r \in Requests, Rollback(r) \/ CommitStock(r) PROVE HistoryInv'
  <2>1. tx' = [tx EXCEPT ![r] = Done] /\ UNCHANGED orderVars
    BY <1>2 DEF Rollback, CommitStock, Publish, orderVars
  <2> QED
    BY <2>1, QuietHistory
<1>3. ASSUME NEW r \in Requests,
             \/ MoveRow(r) \/ AdjustRow(r) \/ CreateRow(r)
             \/ \E i \in Items : BeginReserve(r, i) \/ BeginSettle(r, i)
      PROVE  HistoryInv'
  <2>1. \E t : GoesOn(r, t)
    BY <1>3, ProgressGoesOn
  <2>2. UNCHANGED orderVars
    BY <1>3 DEF MoveRow, AdjustRow, CreateRow, BeginReserve, BeginSettle, orderVars
  <2> QED
    BY <2>1, <2>2, QuietHistory
<1>4. CASE Next
  <2>1. PICK r \in Requests : Receive(r) \/ Progress(r) \/ DeadlockVictim(r) \/ Abort(r)
    BY <1>4 DEF Next
  <2>2. CASE Rollback(r) \/ CommitStock(r)
    BY <1>2, <2>2
  <2>3. CASE CommitStatus(r)
    BY <2>3, CommitHistory
  <2>4. CASE Receive(r)
    BY <2>4, ReceiveHistory
  <2>5. CASE ~(Rollback(r) \/ CommitStock(r) \/ CommitStatus(r) \/ Receive(r))
    BY <1>3, <2>1, <2>5 DEF Progress, BeginItem, RejectItem, RejectRow,
       RejectAdjust, RejectCreate, DeadlockVictim, Abort
  <2> QED
    BY <2>2, <2>3, <2>4, <2>5
<1> QED
  BY <1>1, <1>4

\* Whatever overlaps, fails or deadlocks, every event of a timeline goes, by an entry of
\* the transition table, from a status the order had before it, and the order has the
\* status its last event names.
THEOREM TimelineTrue == Spec => []TimelineIsHistory
<1>1. Init => HistoryInv
  <2> SUFFICES ASSUME Init PROVE HistoryInv
    OBVIOUS
  <2>1. \A p \in Requests : ~Changing(p)
    BY KindNone DEF Init, Changing
  <2>2. TimelineIsHistory
    BY DEF Init, TimelineIsHistory
  <2> QED
    BY <2>1, <2>2 DEF HistoryInv
<1>2. HistoryInv => TimelineIsHistory
  BY DEF HistoryInv
<1> QED
  BY <1>1, <1>2, NextHistory, Invariance, PTL DEF Spec
=============================================================================
