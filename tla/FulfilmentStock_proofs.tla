----------------------- MODULE FulfilmentStock_proofs -----------------------
(***************************************************************************)
(* What Fulfilment does with the allocations: every unit ever reserved is  *)
(* in an allocation, whatever overlaps; when no two status changes of one  *)
(* order overlap, rows keep locked what the orders have reserved, the      *)
(* allocations of an order say the same as its status, and the             *)
(* transactions implement the ledger; and when nothing puts stock back,    *)
(* the split of an order follows the order of its warehouses.              *)
(***************************************************************************)
EXTENDS FulfilmentOrders_proofs, Sums

(***************************************************************************)
(* The quantities of an item on one version of a row.                      *)
(***************************************************************************)
\* What each allocation of a version counts for among those in status st.
Part(s, st) ==
    [id \in Slots |-> IF s.alloc[id].status = st THEN s.alloc[id].quantity ELSE 0]

\* There are finitely many allocations.
LEMMA FiniteSlots ==
    /\ IsFiniteSet(Slots)
    /\ \A i \in Items : IsFiniteSet(Requests \X {i}) /\ Requests \X {i} \subseteq Slots
<1>1. IsFiniteSet(Slots)
  BY FiniteAssumption, FS_Product DEF Slots
<1>2. ASSUME NEW i \in Items PROVE IsFiniteSet(Requests \X {i}) /\ Requests \X {i} \subseteq Slots
  <2>1. Requests \X {i} \in SUBSET Slots
    BY DEF Slots
  <2> QED BY <1>1, <2>1, FS_Subset
<1> QED BY <1>1, <1>2

\* The parts of a version are natural numbers.
LEMMA PartType ==
    ASSUME NEW s \in Version, NEW st
    PROVE  \A id \in Slots : Part(s, st)[id] \in Nat
BY DEF Part, Version, Allocation

\* InRow is the sum of the item's parts.
LEMMA InRowIsSum ==
    ASSUME NEW s \in Version, NEW i \in Items, NEW st
    PROVE  InRow(s, i, st) = SumFunctionOnSet(Part(s, st), Requests \X {i})
<1> DEFINE own == Requests \X {i}
           found == {id \in own : s.alloc[id].status = st}
           f == [id \in found |-> s.alloc[id].quantity]
<1>1. IsFiniteSet(own) /\ own \subseteq Slots /\ IsFiniteSet(found) /\ found \in SUBSET own
  BY FiniteSlots, FS_Subset
<1>2. InRow(s, i, st) = SumFunctionOnSet(f, found)
  BY DEF InRow, SumFunction
<1>3. \A id \in found : f[id] = Part(s, st)[id]
  BY <1>1 DEF Part
<1>4. \A id \in own \ found : Part(s, st)[id] = 0
  BY <1>1 DEF Part
<1>5. \A id \in own : Part(s, st)[id] \in Int
  BY <1>1, PartType
<1> HIDE DEF own, found, f
<1>6. SumFunctionOnSet(f, found) = SumFunctionOnSet(Part(s, st), found)
  BY <1>1, <1>3, SumSame
<1>7. SumFunctionOnSet(Part(s, st), own) = SumFunctionOnSet(Part(s, st), found)
  BY <1>1, <1>4, <1>5, SumPart
<1> QED BY <1>2, <1>6, <1>7 DEF own

\* It is a natural number, no less than any of the item's parts.
LEMMA InRowType ==
    ASSUME NEW s \in Version, NEW i \in Items, NEW st
    PROVE  InRow(s, i, st) \in Nat
<1> DEFINE own == Requests \X {i}
<1>1. IsFiniteSet(own) /\ \A id \in own : Part(s, st)[id] \in Int /\ Part(s, st)[id] >= 0
  BY FiniteSlots, PartType
<1> HIDE DEF own
<1>2. SumFunctionOnSet(Part(s, st), own) \in Int /\ SumFunctionOnSet(Part(s, st), own) >= 0
  BY <1>1, SumType
<1> QED BY <1>2, InRowIsSum DEF own

\* Versions that agree on the allocations of an item agree on its quantities.
LEMMA InRowSame ==
    ASSUME NEW s \in Version, NEW n \in Version, NEW i \in Items,
           \A r \in Requests : n.alloc[<<r, i>>] = s.alloc[<<r, i>>]
    PROVE  \A st : InRow(n, i, st) = InRow(s, i, st)
<1> SUFFICES ASSUME NEW st PROVE InRow(n, i, st) = InRow(s, i, st)
  OBVIOUS
<1>1. \A id \in Requests \X {i} : n.alloc[id] = s.alloc[id]
  OBVIOUS
<1>2. {id \in Requests \X {i} : n.alloc[id].status = st}
        = {id \in Requests \X {i} : s.alloc[id].status = st}
  BY <1>1
<1>3. [id \in {id \in Requests \X {i} : n.alloc[id].status = st} |-> n.alloc[id].quantity]
        = [id \in {id \in Requests \X {i} : s.alloc[id].status = st} |-> s.alloc[id].quantity]
  BY <1>1, <1>2
<1> QED BY <1>3 DEF InRow

\* Writing one allocation x changes the item's quantities by what x adds to and takes
\* from each status, and no other item's.
LEMMA InRowWrite ==
    ASSUME NEW s \in Version, NEW n \in Version, NEW id \in Slots, NEW x,
           n.alloc = [s.alloc EXCEPT ![id] = x]
    PROVE  /\ \A st : InRow(n, id[2], st)
                        = InRow(s, id[2], st) - Part(s, st)[id] + Part(n, st)[id]
           /\ \A i \in Items \ {id[2]} : \A st : InRow(n, i, st) = InRow(s, i, st)
<1>1. /\ id[1] \in Requests /\ id[2] \in Items /\ id = <<id[1], id[2]>>
      /\ s.alloc \in [Slots -> Allocation]
  BY DEF Slots, Version
<1>2. ASSUME NEW st
      PROVE  InRow(n, id[2], st) = InRow(s, id[2], st) - Part(s, st)[id] + Part(n, st)[id]
  <2> DEFINE own == Requests \X {id[2]}
  <2>1. IsFiniteSet(own) /\ id \in own /\ own \subseteq Slots
    BY <1>1, FiniteSlots
  <2>2. \A y \in own : Part(s, st)[y] \in Int /\ Part(n, st)[y] \in Int
    BY <2>1, PartType
  <2>3. \A y \in own \ {id} : Part(n, st)[y] = Part(s, st)[y]
    BY <1>1, <2>1 DEF Part
  <2> HIDE DEF own
  <2>4. SumFunctionOnSet(Part(n, st), own)
          = SumFunctionOnSet(Part(s, st), own) - Part(s, st)[id] + Part(n, st)[id]
    BY <2>1, <2>2, <2>3, SumChange
  <2> QED BY <1>1, <2>4, InRowIsSum DEF own
<1>3. ASSUME NEW i \in Items \ {id[2]} PROVE \A st : InRow(n, i, st) = InRow(s, i, st)
  <2>1. \A r \in Requests : n.alloc[<<r, i>>] = s.alloc[<<r, i>>]
    BY <1>1 DEF Slots
  <2> QED BY <2>1, InRowSame
<1> QED BY <1>2, <1>3

-----------------------------------------------------------------------------
(***************************************************************************)
(* The invariant about allocations, for any overlap of requests.           *)
(***************************************************************************)
\* A slot nobody has reserved in yet.
Blank(s, r, i) == s.alloc[<<r, i>>].quantity = 0

\* The visits a request has left in the item it works on, the current one included.
Left(r) == tx[r].visits \cup {tx[r].at}

\* The items and rows a request may still reserve.
Pending(r) ==
    IF tx[r].pc = "idle" THEN Items \X Rows
    ELSE IF MovementOf(r) # "reserve" THEN {}
    ELSE IF tx[r].pc = "items" THEN tx[r].items \X Rows
    ELSE IF tx[r].pc = "row" /\ tx[r].at # NoVisit
    THEN ((tx[r].items \ {tx[r].at[2]}) \X Rows) \cup {<<a[2], a[3]>> : a \in Left(r)}
    ELSE {}

\* What a request still has to do stays within its order, and within an item within its
\* candidate rows; a row is visited once per item, and only the request itself reserves
\* in its slots.
ShapeOK(r) ==
    /\ tx[r].pc \in {"idle", "done"} => tx[r].job = NoJob
    /\ tx[r].pc \in {"adjust", "create"} => ~Changing(r)
    /\ Changing(r) => tx[r].items \subseteq ItemsOf(tx[r].job.order)
    /\ MovementOf(r) = "none" => tx[r].pc # "row" /\ tx[r].items = {}
    /\ tx[r].pc = "row" /\ tx[r].at # NoVisit =>
          /\ tx[r].at[2] \in tx[r].items /\ tx[r].at \notin tx[r].visits
          /\ \A a \in Left(r) : /\ a[2] = tx[r].at[2] /\ a[3] \in Candidates[a[2]]
                                /\ MovementOf(r) = "reserve" => a[1] = r

\* As long as a request has not ended, its slots are blank in what is committed, in the
\* drafts of others and wherever it may still reserve.
Unused(r) ==
    tx[r].pc # "done" =>
        \A i \in Items, v \in Rows :
            /\ Blank(stock[v], r, i)
            /\ owner[v] # r \/ <<i, v>> \in Pending(r) => Blank(draft[v], r, i)

\* The allocations of a version hold what was ever reserved on it, in candidate rows only.
Quantities(s) == [id \in Slots |-> s.alloc[id].quantity]

Accounted(v, s) ==
    /\ SumFunctionOnSet(Quantities(s), Slots) = s.journal["RESERVATION"]
    /\ \A id \in Slots : v \notin Candidates[id[2]] => s.alloc[id].status = "NONE"

AllocInv ==
    /\ \A r \in Requests : ShapeOK(r) /\ Unused(r)
    /\ \A v \in Rows : Accounted(v, stock[v]) /\ Accounted(v, draft[v])

\* Only a status change moves stock between the quantities of a row.
LEMMA Movements ==
    ASSUME NEW r \in Requests
    PROVE  /\ MovementOf(r) \in {"reserve", "fulfil", "release", "none"}
           /\ MovementOf(r) # "none" => Changing(r)
BY DEF MovementOf, Movement, Changing

\* What the choice of the next visit does to the locals.
LEMMA SetVisitFacts ==
    ASSUME tx \in [Requests -> Transaction], NEW r \in Requests, NEW visits, NEW seen,
           NEW left, SetVisit(r, visits, seen, left)
    PROVE  /\ tx'[r].pc = "row" /\ tx'[r].items = tx[r].items /\ tx'[r].job = tx[r].job
           /\ tx'[r].from = tx[r].from /\ tx'[r].remaining = left
           /\ tx'[r].visits = visits \ {tx'[r].at}
           /\ tx'[r].at \in visits \/ tx'[r].at = NoVisit
           /\ \A p \in Requests \ {r} : tx'[p] = tx[p]
<1>1. PICK a \in IF visits = {} THEN {NoVisit} ELSE NextVisits(r, visits) :
        tx' = [tx EXCEPT ![r] =
                 [pc |-> "row", job |-> tx[r].job, from |-> tx[r].from,
                  items |-> tx[r].items, visits |-> visits \ {a}, at |-> a,
                  seen |-> seen, remaining |-> left]]
  BY DEF SetVisit
<1>2. a \in visits \/ a = NoVisit
  BY SMTT(30), <1>1 DEF NextVisits
<1> QED BY <1>1, <1>2

\* What a turn of the reserve, fulfil or release loop writes.
Result(m) == CASE m = "reserve" -> "RESERVED" [] m = "fulfil" -> "FULFILLED"
               [] OTHER -> "RELEASED"

LEMMA MoveFacts ==
    ASSUME IInv, AllocInv, NEW r \in Requests, MoveRow(r)
    PROVE  LET v == RowAt(r)  id == SlotAt(r)  q == TakeAt(r)  s == draft[v]
               n == draft'[v]  m == MovementOf(r)
           IN  /\ v \in Rows /\ id \in Slots /\ s \in Version /\ n \in Version /\ q \in Nat
               /\ v \in Candidates[id[2]] /\ id[2] = tx[r].at[2] /\ id[1] = tx[r].at[1]
               /\ m \in {"reserve", "fulfil", "release"} /\ Changing(r)
               /\ m = "reserve" => q > 0
               /\ m # "reserve" => q = Visible(r, v).alloc[id].quantity
               /\ CanLock(r, v)
               /\ owner' = [owner EXCEPT ![v] = r] /\ owner'[v] = r
               /\ \A w \in Rows \ {v} : draft'[w] = draft[w] /\ owner'[w] = owner[w]
               /\ UNCHANGED <<stock, status, timeline>>
               /\ n.alloc = [s.alloc EXCEPT ![id] =
                                [status |-> Result(m),
                                 quantity |-> IF m = "reserve" THEN q ELSE s.alloc[id].quantity]]
               /\ n.journal["RESERVATION"]
                    = s.journal["RESERVATION"] + (IF m = "reserve" THEN q ELSE 0)
               /\ n.locked = s.locked + (IF m = "reserve" THEN q ELSE -q)
               /\ n.available = s.available + (IF m = "reserve" THEN -q
                                               ELSE IF m = "fulfil" THEN 0 ELSE q)
<1> DEFINE v == RowAt(r)  id == SlotAt(r)  q == TakeAt(r)  s == draft[v]  m == MovementOf(r)
           n == draft'[v]
<1>1. /\ tx[r] \in Transaction /\ TxOK(r) /\ tx[r].pc = "row" /\ tx[r].at # NoVisit
      /\ tx \in [Requests -> Transaction] /\ ShapeOK(r)
  BY DEF IInv, TxInv, MoveRow, AllocInv
<1>2. tx[r].at \in Visits /\ VisitOK(r, tx[r].at)
  BY <1>1 DEF TxOK, Transaction
<1>3. /\ v \in Rows /\ id \in Slots /\ id[2] = tx[r].at[2] /\ id[1] = tx[r].at[1]
      /\ v = tx[r].at[3]
  BY <1>2 DEF Visits, RowAt, SlotAt, Slots
<1>4. /\ m \in {"reserve", "fulfil", "release"} /\ Changing(r)
      /\ v \in Candidates[id[2]]
  BY <1>1, <1>3, Movements DEF ShapeOK, Left
<1>5. /\ CanLock(r, v) /\ UNCHANGED <<stock, status, timeline>>
      /\ owner' = [owner EXCEPT ![v] = r] /\ draft' = [draft EXCEPT ![v] = NewVersion(r)]
  BY DEF MoveRow, Write
<1>6. /\ draft \in [Rows -> Version] /\ owner \in [Rows -> Requests \cup {Free}]
      /\ stock \in [Rows -> Version]
  BY DEF IInv, RowsInv
<1>7. s \in Version /\ n = NewVersion(r) /\ owner'[v] = r
      /\ \A w \in Rows \ {v} : draft'[w] = draft[w] /\ owner'[w] = owner[w]
  BY <1>3, <1>5, <1>6
<1>8. n \in Version
  <2>1. IInv'
    BY MoveRowStep
  <2> QED BY <1>3, <2>1 DEF IInv, RowsInv
<1>9. Visible(r, v).alloc[id].quantity \in Nat
  <2>1. Visible(r, v) \in Version
    BY <1>3, <1>6 DEF Visible
  <2> QED BY <1>3, <2>1 DEF Version, Allocation
<1>10. q \in Nat /\ (m = "reserve" => q > 0)
       /\ (m # "reserve" => q = Visible(r, v).alloc[id].quantity)
  <2>1. CASE m = "reserve"
    BY <1>1, <1>2, <1>3, <2>1 DEF TakeAt, Least, VisitOK, TxOK, Transaction
  <2>2. CASE m # "reserve"
    BY <1>9, <2>2 DEF TakeAt
  <2> QED BY <2>1, <2>2
<1>11. NewVersion(r) = CASE m = "reserve" -> ReserveOn(s, id, q)
                         [] m = "fulfil"  -> FulfilOn(s, id, q)
                         [] OTHER         -> ReleaseOn(s, id, q)
  BY DEF NewVersion
<1>12. s.journal \in [Entries -> Int] /\ s.locked \in Int /\ s.available \in Int
       /\ {"RESERVATION", "SHIPMENT", "RELEASE"} \subseteq Entries
  BY <1>7 DEF Version, Entries
<1>13. /\ n.alloc = [s.alloc EXCEPT ![id] =
                       [status |-> Result(m),
                        quantity |-> IF m = "reserve" THEN q ELSE s.alloc[id].quantity]]
       /\ n.journal["RESERVATION"]
            = s.journal["RESERVATION"] + (IF m = "reserve" THEN q ELSE 0)
       /\ n.locked = s.locked + (IF m = "reserve" THEN q ELSE -q)
       /\ n.available = s.available + (IF m = "reserve" THEN -q
                                       ELSE IF m = "fulfil" THEN 0 ELSE q)
  <2>1. m \in {"reserve", "fulfil", "release"} /\ n = NewVersion(r)
    BY <1>4, <1>7
  <2> HIDE DEF v, id, q, s, m, n
  <2>2. CASE m = "reserve"
    <3>1. n = ReserveOn(s, id, q)
      BY <1>11, <2>1, <2>2
    <3> QED BY <1>10, <1>12, <2>2, <3>1 DEF ReserveOn, Changed, Allocate, Result
  <2>3. CASE m = "fulfil"
    <3>1. n = FulfilOn(s, id, q)
      BY <1>11, <2>1, <2>3
    <3> QED BY <1>10, <1>12, <2>3, <3>1 DEF FulfilOn, Changed, Settle, Result
  <2>4. CASE m = "release"
    <3>1. n = ReleaseOn(s, id, q)
      BY <1>11, <2>1, <2>4
    <3> QED BY <1>10, <1>12, <2>4, <3>1 DEF ReleaseOn, Changed, Settle, Result
  <2> QED BY <2>1, <2>2, <2>3, <2>4
<1> QED
  BY <1>3, <1>4, <1>5, <1>7, <1>8, <1>10, <1>13

\* A reservation is written into a slot of the request itself, which is blank.
LEMMA MoveBlank ==
    ASSUME IInv, AllocInv, NEW r \in Requests, MoveRow(r), MovementOf(r) = "reserve"
    PROVE  SlotAt(r)[1] = r /\ draft[RowAt(r)].alloc[SlotAt(r)].quantity = 0
<1> DEFINE v == RowAt(r)  id == SlotAt(r)
<1>1. /\ tx[r].pc = "row" /\ tx[r].at # NoVisit /\ ShapeOK(r) /\ Unused(r)
      /\ v = tx[r].at[3] /\ id = <<tx[r].at[1], tx[r].at[2]>>
  BY DEF AllocInv, MoveRow, RowAt, SlotAt
<1>2. v \in Rows /\ id \in Slots /\ CanLock(r, v) /\ id[2] = tx[r].at[2]
  BY MoveFacts
<1>3. tx[r].at \in Left(r) /\ id[1] = r
  BY <1>1 DEF Left, ShapeOK
<1>4. <<tx[r].at[2], tx[r].at[3]>> \in Pending(r)
  BY <1>1, <1>3 DEF Pending
<1>5. id = <<r, tx[r].at[2]>> /\ tx[r].at[2] \in Items /\ tx[r].pc # "done"
  BY <1>1, <1>2, <1>3 DEF Slots
<1> QED BY <1>1, <1>2, <1>3, <1>4, <1>5 DEF Unused, Blank

\* Writing one allocation of a candidate row together with what it adds to the journal
\* keeps a version accounted for.
LEMMA AccountedWrite ==
    ASSUME NEW v \in Rows, NEW s \in Version, NEW n \in Version, Accounted(v, s),
           NEW id \in Slots, v \in Candidates[id[2]], NEW x,
           n.alloc = [s.alloc EXCEPT ![id] = x],
           n.journal["RESERVATION"]
               = s.journal["RESERVATION"] - s.alloc[id].quantity + x.quantity
    PROVE  Accounted(v, n)
<1>1. s.alloc \in [Slots -> Allocation] /\ n.alloc \in [Slots -> Allocation]
  BY DEF Version
<1>2. /\ \A y \in Slots : Quantities(s)[y] \in Int /\ Quantities(n)[y] \in Int
      /\ \A y \in Slots \ {id} : Quantities(n)[y] = Quantities(s)[y]
      /\ Quantities(s)[id] = s.alloc[id].quantity /\ Quantities(n)[id] = x.quantity
  BY <1>1 DEF Quantities, Allocation
<1>3. SumFunctionOnSet(Quantities(n), Slots)
        = SumFunctionOnSet(Quantities(s), Slots) - s.alloc[id].quantity + x.quantity
  BY <1>2, FiniteSlots, SumChange
<1>4. \A y \in Slots : v \notin Candidates[y[2]] => n.alloc[y].status = "NONE"
  BY <1>1 DEF Accounted
<1> QED BY <1>3, <1>4 DEF Accounted

\* An update that leaves the allocations and what was reserved alone keeps it so.
LEMMA AccountedFrame ==
    ASSUME NEW v \in Rows, NEW s, NEW n, Accounted(v, s), n.alloc = s.alloc,
           n.journal["RESERVATION"] = s.journal["RESERVATION"]
    PROVE  Accounted(v, n)
BY DEF Accounted, Quantities

\* A row starts with no allocation and an empty journal.
LEMMA AccountedOpening ==
    ASSUME NEW v \in Rows
    PROVE  Accounted(v, OpeningVersion(v))
<1>1. \A id \in Slots : Quantities(OpeningVersion(v))[id] = 0
  BY DEF Quantities, OpeningVersion
<1>2. SumFunctionOnSet(Quantities(OpeningVersion(v)), Slots) = 0
  BY <1>1, FiniteSlots, SumZero
<1>3. OpeningVersion(v).journal["RESERVATION"] = 0
      /\ \A id \in Slots : OpeningVersion(v).alloc[id].status = "NONE"
  BY DEF OpeningVersion, Entries
<1> QED BY <1>2, <1>3 DEF Accounted

\* A step of one request leaves the tasks of the others as they are.
LEMMA ShapeFrame ==
    ASSUME AllocInv, NEW r \in Requests, ShapeOK(r)',
           \A p \in Requests \ {r} : tx'[p] = tx[p]
    PROVE  \A p \in Requests : ShapeOK(p)'
<1> SUFFICES ASSUME NEW p \in Requests \ {r} PROVE ShapeOK(p)'
  OBVIOUS
<1>1. tx'[p] = tx[p] /\ ShapeOK(p)
  BY DEF AllocInv
<1> QED BY <1>1 DEF ShapeOK, Changing, MovementOf, Left

\* The slots of a request stay blank when others only write blanks into them.
LEMMA UnusedFrame ==
    ASSUME AllocInv, NEW p \in Requests, tx'[p] = tx[p],
           \A i \in Items, v \in Rows :
               /\ Blank(stock[v], p, i) /\ (owner[v] # p => Blank(draft[v], p, i))
                    => Blank(stock'[v], p, i) /\ (owner'[v] # p => Blank(draft'[v], p, i))
               /\ owner'[v] = p <=> owner[v] = p
               /\ owner[v] = p => draft'[v] = draft[v]
    PROVE  Unused(p)'
<1>1. Pending(p)' = Pending(p)
  BY DEF Pending, MovementOf, Left
<1>2. Unused(p)
  BY DEF AllocInv
<1> QED BY ZenonT(60), <1>1, <1>2 DEF Unused, Blank

\* Giving up keeps the invariant.
LEMMA AllocRollback ==
    ASSUME IInv, AllocInv, NEW r \in Requests, Rollback(r)
    PROVE  AllocInv'
<1>1. /\ tx'[r] = Done /\ (\A p \in Requests \ {r} : tx'[p] = tx[p]) /\ UNCHANGED stock
      /\ \A v \in Rows : /\ draft'[v] = IF owner[v] = r THEN stock[v] ELSE draft[v]
                         /\ owner'[v] = IF owner[v] = r THEN Free ELSE owner[v]
  BY DEF Rollback, IInv, TxInv
<1>2. ShapeOK(r)' /\ Unused(r)'
  BY <1>1, KindNone DEF Done, NewTx, ShapeOK, Unused, Changing, MovementOf
<1>3. \A p \in Requests : ShapeOK(p)'
  BY <1>1, <1>2, ShapeFrame
<1>4. ASSUME NEW p \in Requests \ {r} PROVE Unused(p)'
  BY <1>1, UnusedFrame, ConstantsAssumption
<1>5. \A v \in Rows : Accounted(v, stock'[v]) /\ Accounted(v, draft'[v])
  BY <1>1 DEF AllocInv
<1> QED BY <1>2, <1>3, <1>4, <1>5 DEF AllocInv, Accounted, Quantities

\* So does a commit.
LEMMA AllocPublish ==
    ASSUME IInv, AllocInv, NEW r \in Requests, Publish(r)
    PROVE  AllocInv'
<1>1. /\ tx'[r] = Done /\ (\A p \in Requests \ {r} : tx'[p] = tx[p]) /\ UNCHANGED draft
      /\ \A v \in Rows : /\ stock'[v] = IF owner[v] = r THEN draft[v] ELSE stock[v]
                         /\ owner'[v] = IF owner[v] = r THEN Free ELSE owner[v]
  BY DEF Publish, IInv, TxInv, RowsInv
<1>2. ShapeOK(r)' /\ Unused(r)'
  BY <1>1, KindNone DEF Done, NewTx, ShapeOK, Unused, Changing, MovementOf
<1>3. \A p \in Requests : ShapeOK(p)'
  BY <1>1, <1>2, ShapeFrame
<1>4. ASSUME NEW p \in Requests \ {r} PROVE Unused(p)'
  BY <1>1, UnusedFrame, ConstantsAssumption
<1>5. \A v \in Rows : Accounted(v, stock'[v]) /\ Accounted(v, draft'[v])
  BY <1>1 DEF AllocInv
<1> QED BY <1>2, <1>3, <1>4, <1>5 DEF AllocInv, Accounted, Quantities

\* Steps that write no row keep it, given that the request does not extend its tasks.
LEMMA AllocLocal ==
    ASSUME IInv, AllocInv, NEW r \in Requests, UNCHANGED rowVars, ShapeOK(r)',
           \A p \in Requests \ {r} : tx'[p] = tx[p],
           tx'[r].pc # "done" => tx[r].pc # "done" /\ Pending(r)' \subseteq Pending(r)
    PROVE  AllocInv'
<1>1. \A p \in Requests : ShapeOK(p)'
  BY ShapeFrame
<1>2. Unused(r)'
  BY DEF AllocInv, Unused, rowVars, Blank
<1>3. \A p \in Requests \ {r} : Unused(p)'
  BY UnusedFrame DEF rowVars
<1> QED BY <1>1, <1>2, <1>3 DEF AllocInv, rowVars, Accounted, Quantities

\* The arrival of a request keeps it.
LEMMA AllocReceive ==
    ASSUME IInv, AllocInv, NEW r \in Requests, Receive(r)
    PROVE  AllocInv'
<1>1. PICK job \in Jobs :
        ReceiveStatus(r, job) \/ ReceiveAdjust(r, job) \/ ReceiveInitialize(r, job)
  BY DEF Receive
<1>2. /\ tx[r].pc = "idle" /\ UNCHANGED rowVars /\ tx \in [Requests -> Transaction]
      /\ \A p \in Requests \ {r} : tx'[p] = tx[p]
  BY <1>1 DEF ReceiveStatus, ReceiveAdjust, ReceiveInitialize, IInv, TxInv
<1>3. Pending(r) = Items \X Rows
  BY <1>2 DEF Pending
<1>4. /\ ShapeOK(r)' /\ tx'[r].items \subseteq Items /\ tx'[r].pc \in {"items", "adjust", "create", "done"}
  <2>1. CASE tx'[r] = Done
    BY <2>1, KindNone DEF Done, NewTx, ShapeOK, Changing, MovementOf
  <2>2. CASE ReceiveStatus(r, job) /\ tx'[r] # Done
    <3>1. tx'[r] = NewTx("items", job, status[job.order], ItemsToMove(status[job.order], job))
          /\ job.kind = "status"
      BY <1>2, <2>2 DEF ReceiveStatus, StatusJobs
    <3>2. /\ tx'[r].pc = "items" /\ tx'[r].job = job /\ tx'[r].from = status[job.order]
          /\ tx'[r].items = ItemsToMove(status[job.order], job)
      BY <3>1 DEF NewTx
    <3> QED BY <3>1, <3>2 DEF ShapeOK, Changing, MovementOf, ItemsToMove, ItemsOf
  <2>3. CASE ~ReceiveStatus(r, job) /\ tx'[r] # Done
    <3>1. PICK pc \in {"adjust", "create"} : tx'[r] = NewTx(pc, job, "PAID", {})
      BY <1>1, <1>2, <2>3 DEF ReceiveAdjust, ReceiveInitialize
    <3>2. job.kind # "status"
      BY <1>1, <2>3 DEF ReceiveAdjust, ReceiveInitialize, AdjustJobs, InitJobs
    <3> QED BY <3>1, <3>2 DEF ShapeOK, Changing, MovementOf, NewTx
  <2> QED BY <2>1, <2>2, <2>3
<1>5. Pending(r)' \subseteq Items \X Rows
  BY <1>4 DEF Pending
<1> QED BY <1>2, <1>3, <1>4, <1>5, AllocLocal

\* Reading what there is to reserve, fulfil or release keeps it.
LEMMA AllocBegin ==
    ASSUME IInv, AllocInv, NEW r \in Requests, NEW i \in Items,
           BeginReserve(r, i) \/ BeginSettle(r, i)
    PROVE  AllocInv'
<1> DEFINE seen == [v \in Rows |-> IF v \in SeenRows(r, i) THEN Visible(r, v).available ELSE 0]
           visits == {<<r, i, v>> : v \in {w \in Rows : seen[w] > 0}}
<1>1. /\ tx \in [Requests -> Transaction] /\ tx[r].pc = "items" /\ i \in tx[r].items
      /\ UNCHANGED rowVars /\ MovementOf(r) # "none" /\ ShapeOK(r)
  BY DEF IInv, TxInv, AllocInv, BeginReserve, BeginSettle
<1>2. CASE BeginReserve(r, i)
  <2>1. MovementOf(r) = "reserve" /\ SetVisit(r, visits, seen, Quantity[i])
    BY <1>2 DEF BeginReserve
  <2>2. ASSUME NEW a \in visits
        PROVE  a[1] = r /\ a[2] = i /\ a[3] \in Rows /\ a[3] \in Candidates[i]
    <3>1. PICK v \in Rows : a = <<r, i, v>> /\ seen[v] > 0
      OBVIOUS
    <3>2. v \in SeenRows(r, i)
      BY <3>1
    <3> QED BY <3>1, <3>2 DEF SeenRows
  <2> HIDE DEF visits, seen
  <2>3. /\ tx'[r].pc = "row" /\ tx'[r].items = tx[r].items /\ tx'[r].job = tx[r].job
        /\ tx'[r].from = tx[r].from /\ tx'[r].visits = visits \ {tx'[r].at}
        /\ tx'[r].at \in visits \/ tx'[r].at = NoVisit
        /\ \A p \in Requests \ {r} : tx'[p] = tx[p]
    BY <1>1, <2>1, SetVisitFacts
  <2>4. MovementOf(r)' = MovementOf(r) /\ Changing(r)' = Changing(r)
    BY <2>3 DEF MovementOf, Changing
  <2>5. ShapeOK(r)'
    BY <1>1, <2>1, <2>2, <2>3, <2>4 DEF ShapeOK, Left
  <2>6. Pending(r)' \subseteq Pending(r)
    <3>1. Pending(r) = tx[r].items \X Rows
      BY <1>1, <2>1 DEF Pending
    <3>2. tx'[r].at # NoVisit => \A a \in Left(r)' : a \in visits
      BY <2>3 DEF Left
    <3> QED BY <1>1, <2>1, <2>2, <2>3, <2>4, <3>1, <3>2 DEF Pending
  <2> QED BY <1>1, <2>3, <2>5, <2>6, AllocLocal
<1>3. CASE BeginSettle(r, i)
  <2>1. MovementOf(r) # "reserve" /\ SetVisit(r, ReservedVisits(r, i), tx[r].seen, Quantity[i])
    BY <1>3 DEF BeginSettle
  <2>2. \A a \in ReservedVisits(r, i) : a[2] = i /\ a[3] \in Candidates[i]
    BY DEF ReservedVisits
  <2>3. /\ tx'[r].pc = "row" /\ tx'[r].items = tx[r].items /\ tx'[r].job = tx[r].job
        /\ tx'[r].from = tx[r].from /\ tx'[r].visits = ReservedVisits(r, i) \ {tx'[r].at}
        /\ tx'[r].at \in ReservedVisits(r, i) \/ tx'[r].at = NoVisit
        /\ \A p \in Requests \ {r} : tx'[p] = tx[p]
    BY <1>1, <2>1, SetVisitFacts
  <2>4. MovementOf(r)' = MovementOf(r) /\ Changing(r)' = Changing(r)
    BY <2>3 DEF MovementOf, Changing
  <2>5. ShapeOK(r)'
    BY <1>1, <2>1, <2>2, <2>3, <2>4 DEF ShapeOK, Left
  <2>6. Pending(r)' = {}
    BY <2>1, <2>3, <2>4 DEF Pending
  <2> QED BY <1>1, <2>3, <2>5, <2>6, AllocLocal
<1> QED BY <1>2, <1>3

\* A write under the row lock keeps it, given that the request only reserves in its own
\* slots and what it may still reserve is blank.
LEMMA AllocWrite ==
    ASSUME IInv, AllocInv, NEW r \in Requests, NEW v \in Rows, CanLock(r, v),
           UNCHANGED stock, owner'[v] = r,
           \A w \in Rows \ {v} : draft'[w] = draft[w] /\ owner'[w] = owner[w],
           Accounted(v, draft'[v]),
           \A p \in Requests \ {r}, i \in Items : Blank(draft[v], p, i) => Blank(draft'[v], p, i),
           ShapeOK(r)', \A p \in Requests \ {r} : tx'[p] = tx[p],
           tx[r].pc # "done",
           \A k \in Pending(r)' : k \in Pending(r) /\ (k[2] = v => Blank(draft'[v], r, k[1]))
    PROVE  AllocInv'
<1>1. \A p \in Requests : ShapeOK(p)'
  BY ShapeFrame
<1>2. owner[v] = Free \/ owner[v] = r
  BY DEF CanLock
<1>3. ASSUME NEW p \in Requests \ {r} PROVE Unused(p)'
  <2>1. tx'[p] = tx[p] /\ p # Free
    BY ConstantsAssumption
  <2> QED BY <1>2, <2>1, UnusedFrame
<1>4. Unused(r)'
  <2> SUFFICES ASSUME NEW i \in Items, NEW w \in Rows, tx'[r].pc # "done"
               PROVE  /\ Blank(stock'[w], r, i)
                      /\ owner'[w] # r \/ <<i, w>> \in Pending(r)' => Blank(draft'[w], r, i)
    BY DEF Unused, Blank
  <2>1. /\ Blank(stock[w], r, i)
        /\ owner[w] # r \/ <<i, w>> \in Pending(r) => Blank(draft[w], r, i)
    BY DEF AllocInv, Unused
  <2>2. CASE w = v
    BY <2>1, <2>2
  <2>3. CASE w # v
    BY <2>1, <2>3
  <2> QED BY <2>2, <2>3
<1>5. ASSUME NEW w \in Rows PROVE Accounted(w, stock'[w]) /\ Accounted(w, draft'[w])
  BY DEF AllocInv
<1>6. \A w \in Rows : Accounted(w, stock[w])' /\ Accounted(w, draft[w])'
  BY SMTT(30), <1>5 DEF Accounted, Quantities
<1> QED BY <1>1, <1>3, <1>4, <1>6 DEF AllocInv

\* A turn of the reserve, fulfil or release loop keeps it: a reservation is written into
\* a blank slot.
LEMMA AllocMove ==
    ASSUME IInv, AllocInv, NEW r \in Requests, MoveRow(r)
    PROVE  AllocInv'
<1> DEFINE v == RowAt(r)  id == SlotAt(r)  q == TakeAt(r)  s == draft[v]  n == draft'[v]
           m == MovementOf(r)
           x == [status |-> Result(m), quantity |-> IF m = "reserve" THEN q ELSE s.alloc[id].quantity]
<1>1. /\ tx \in [Requests -> Transaction] /\ tx[r].pc = "row" /\ tx[r].at # NoVisit
      /\ ShapeOK(r) /\ Unused(r)
      /\ v = tx[r].at[3] /\ id = <<tx[r].at[1], tx[r].at[2]>>
      /\ tx[r].at \in Visits /\ tx[r].visits \subseteq Visits
  BY DEF IInv, TxInv, AllocInv, MoveRow, RowAt, SlotAt, Transaction
<1>2. /\ v \in Rows /\ id \in Slots /\ s \in Version /\ n \in Version /\ q \in Nat
      /\ v \in Candidates[id[2]] /\ id[2] = tx[r].at[2] /\ id[1] = tx[r].at[1]
      /\ m # "none" /\ CanLock(r, v) /\ owner'[v] = r
      /\ \A w \in Rows \ {v} : draft'[w] = draft[w] /\ owner'[w] = owner[w]
      /\ UNCHANGED stock /\ n.alloc = [s.alloc EXCEPT ![id] = x]
      /\ n.journal["RESERVATION"] = s.journal["RESERVATION"] + (IF m = "reserve" THEN q ELSE 0)
  BY MoveFacts
<1>3. m = "reserve" => id[1] = r /\ s.alloc[id].quantity = 0
  BY MoveBlank
<1>4. s.alloc \in [Slots -> Allocation] /\ s.journal["RESERVATION"] \in Int /\ s.alloc[id].quantity \in Int
  BY <1>2 DEF Version, Allocation, Entries
<1>5. Accounted(v, n)
  <2>1. Accounted(v, s)
    BY <1>2 DEF AllocInv
  <2>2. n.journal["RESERVATION"]
               = s.journal["RESERVATION"] - s.alloc[id].quantity + x.quantity
    BY <1>2, <1>3, <1>4
  <2> HIDE DEF v, id, q, s, n, m, x
  <2> QED BY <1>2, <2>1, <2>2, AccountedWrite
<1>6. ASSUME NEW p \in Requests, NEW i \in Items, <<p, i>> # id \/ m # "reserve",
             Blank(s, p, i)
      PROVE  Blank(n, p, i)
  <2>1. <<p, i>> \in Slots
    BY DEF Slots
  <2> HIDE DEF v, id, q, s, n, m
  <2> QED BY <1>2, <1>4, <1>6, <2>1 DEF Blank
<1>7. \A p \in Requests \ {r}, i \in Items : Blank(s, p, i) => Blank(n, p, i)
  BY <1>3, <1>6
<1>8. /\ tx'[r].job = tx[r].job /\ tx'[r].from = tx[r].from
      /\ \A p \in Requests \ {r} : tx'[p] = tx[p]
      /\ \/ tx'[r].pc = "items" /\ tx'[r].items = tx[r].items \ {tx[r].at[2]}
         \/ /\ tx'[r].pc = "row" /\ tx'[r].items = tx[r].items
            /\ tx'[r].visits = tx[r].visits \ {tx'[r].at}
            /\ tx'[r].at \in tx[r].visits \/ tx'[r].at = NoVisit
  <2>1. CASE tx[r].remaining - q <= 0
    BY <1>1, <2>1 DEF MoveRow, NewTx
  <2>2. CASE ~(tx[r].remaining - q <= 0)
    <3>1. SetVisit(r, tx[r].visits, tx[r].seen, tx[r].remaining - q)
      BY <2>2 DEF MoveRow
    <3> HIDE DEF v, id, q, s, n, m
    <3> QED BY <1>1, <3>1, SetVisitFacts
  <2> QED BY <2>1, <2>2
<1>9. MovementOf(r)' = m /\ Changing(r)' = Changing(r)
  BY <1>8 DEF MovementOf, Changing
<1>10. tx'[r].pc = "row" /\ tx'[r].at # NoVisit => \A a \in Left(r)' : a \in tx[r].visits
  BY SMTT(30), <1>8 DEF Left
<1>11. ShapeOK(r)'
  BY <1>1, <1>2, <1>8, <1>9, <1>10 DEF ShapeOK, Left
<1>12. ASSUME NEW k \in Pending(r)'
       PROVE  k \in Pending(r) /\ (k[2] = v => Blank(n, r, k[1]))
  <2>1. m = "reserve"
    BY <1>8, <1>9, <1>12 DEF Pending
  <2>2. /\ Pending(r) = ((tx[r].items \ {tx[r].at[2]}) \X Rows)
                            \cup {<<a[2], a[3]>> : a \in Left(r)}
    BY <1>1, <2>1 DEF Pending
  <2>3. CASE k \in (tx[r].items \ {tx[r].at[2]}) \X Rows
    <3>1. k \in Pending(r) /\ k[1] # tx[r].at[2] /\ k[1] \in Items /\ k[2] \in Rows /\ k = <<k[1], k[2]>>
      BY <1>1, <2>2, <2>3 DEF Transaction
    <3>2. k[2] = v => Blank(s, r, k[1])
      BY <1>1, <3>1 DEF Unused
    <3>3. <<r, k[1]>> # id
      BY <1>2, <3>1
    <3> QED BY <1>6, <3>1, <3>2, <3>3
  <2>4. CASE k \notin (tx[r].items \ {tx[r].at[2]}) \X Rows
    <3>1. PICK a \in Left(r)' : /\ k = <<a[2], a[3]>> /\ tx'[r].pc = "row" /\ tx'[r].at # NoVisit
                                /\ a[2] = tx'[r].at[2]
      <4>1. tx'[r].pc = "row" /\ tx'[r].at # NoVisit
        BY <1>8, <1>9, <1>12, <2>1, <2>4 DEF Pending
      <4>2. tx'[r].at[2] = tx[r].at[2] /\ tx'[r].items = tx[r].items
        BY <1>1, <1>8, <4>1 DEF ShapeOK, Left
      <4>3. k \in {<<a[2], a[3]>> : a \in Left(r)'}
        BY <1>9, <1>12, <2>1, <2>4, <4>1, <4>2 DEF Pending
      <4>4. \A a \in Left(r)' : a[2] = tx'[r].at[2]
        BY <1>11, <4>1 DEF ShapeOK
      <4> QED BY <4>1, <4>3, <4>4
    <3>2. a \in tx[r].visits /\ a \in Left(r) /\ a # tx[r].at /\ tx[r].at \in Left(r)
      BY <1>1, <1>10, <3>1 DEF Left, ShapeOK
    <3>3. a[1] = r /\ a[2] = tx[r].at[2] /\ tx[r].at[1] = r
      BY <1>1, <2>1, <3>2 DEF ShapeOK
    <3>4. a[3] # v
      BY <1>1, <3>2, <3>3 DEF Visits
    <3> QED BY <2>2, <3>1, <3>2, <3>4
  <2> QED BY <2>3, <2>4
<1> HIDE DEF v, n, s, m
<1> QED BY <1>1, <1>2, <1>5, <1>7, <1>8, <1>11, <1>12, AllocWrite DEF n, s

\* The guarded update of adjust and the insert of initialize keep it: they touch no
\* allocation.
LEMMA AllocInventory ==
    ASSUME IInv, AllocInv, NEW r \in Requests, AdjustRow(r) \/ CreateRow(r)
    PROVE  /\ AllocInv'
           /\ LET v == tx[r].job.row IN
              /\ v \in Rows /\ ~Changing(r) /\ ~Changing(r)' /\ CanLock(r, v)
              /\ owner' = [owner EXCEPT ![v] = r] /\ UNCHANGED <<stock, status>>
              /\ \A w \in Rows \ {v} : draft'[w] = draft[w] /\ owner'[w] = owner[w]
              /\ draft'[v].alloc = draft[v].alloc /\ draft'[v].locked = draft[v].locked
              /\ tx'[r].job = tx[r].job /\ \A p \in Requests \ {r} : tx'[p] = tx[p]
<1> DEFINE job == tx[r].job  v == job.row  s == draft[v]  n == draft'[v]
<1>1. /\ tx \in [Requests -> Transaction] /\ TxOK(r) /\ ShapeOK(r)
      /\ tx[r].pc \in {"adjust", "create"} /\ tx' = [tx EXCEPT ![r] = NewTx("items", job, "PAID", {})]
  BY DEF IInv, TxInv, AllocInv, AdjustRow, CreateRow
<1>2. /\ ~Changing(r) /\ v \in Rows /\ job.row \in Rows
      /\ (AdjustRow(r) => job.type \in AdjustTypes /\ job.quantity \in Int)
      /\ (CreateRow(r) => job.quantity \in Nat)
  BY <1>1 DEF TxOK, ShapeOK, AdjustJobs, InitJobs, AdjustRow, CreateRow
<1>3. s \in Version /\ Good(v, s) /\ draft \in [Rows -> Version] /\ owner \in [Rows -> Requests \cup {Free}]
  BY SMTT(30), <1>2 DEF IInv, RowsInv
<1>4. /\ CanLock(r, v) /\ UNCHANGED <<stock, status>> /\ owner' = [owner EXCEPT ![v] = r]
      /\ owner'[v] = r
      /\ \A w \in Rows \ {v} : draft'[w] = draft[w] /\ owner'[w] = owner[w]
      /\ \/ AdjustRow(r) /\ n = AdjustOn(s, job.type, job.quantity)
         \/ CreateRow(r) /\ ~s.exists /\ n = CreateOn(s, job.quantity)
  BY <1>2, <1>3 DEF AdjustRow, CreateRow, Write
<1>5. /\ n.alloc = s.alloc /\ n.locked = s.locked
      /\ n.journal["RESERVATION"] = s.journal["RESERVATION"]
  <2> HIDE DEF v, s, n, job
  <2>1. s.journal \in [Entries -> Int] /\ s.locked \in Int /\ "RESERVATION" \in Entries
        /\ AdjustTypes \subseteq Entries /\ "RESTOCK" \in Entries /\ "RESERVATION" \notin AdjustTypes
    BY <1>3 DEF Version, Entries, AdjustTypes
  <2>2. CASE n = AdjustOn(s, job.type, job.quantity) /\ AdjustRow(r)
    BY <1>2, <2>1, <2>2 DEF AdjustOn, Changed
  <2>3. CASE n = CreateOn(s, job.quantity) /\ ~s.exists
    <3>1. s.locked = 0
      <4>1. s = OpeningVersion(v) /\ v \in Rows
        BY <1>2, <1>3, <2>3 DEF Good
      <4>2. s.exists = OpeningStock[v].exists /\ s.locked = OpeningStock[v].locked
        BY <4>1 DEF OpeningVersion
      <4> QED BY <2>3, <4>1, <4>2, ConstantsAssumption
    <3> QED BY <2>1, <2>3, <3>1 DEF CreateOn
  <2> QED BY <1>4, <2>2, <2>3
<1>6. Accounted(v, n)
  <2>1. Accounted(v, s)
    BY <1>2 DEF AllocInv
  <2> HIDE DEF v, s, n
  <2> QED BY <1>2, <1>5, <2>1, AccountedFrame
<1>7. /\ tx'[r].job = job /\ tx'[r].pc = "items" /\ tx'[r].items = {}
      /\ \A p \in Requests \ {r} : tx'[p] = tx[p]
  BY <1>1 DEF NewTx
<1>8. ~Changing(r)' /\ MovementOf(r)' = "none"
  BY <1>2, <1>7 DEF Changing, MovementOf
<1>9. ShapeOK(r)' /\ Pending(r)' = {}
  BY <1>7, <1>8 DEF ShapeOK, Pending
<1>10. AllocInv'
  <2>1. \A p \in Requests \ {r}, i \in Items : Blank(s, p, i) => Blank(n, p, i)
    BY <1>5 DEF Blank
  <2> HIDE DEF v, job
  <2> QED BY <1>1, <1>2, <1>4, <1>6, <1>7, <1>9, <2>1, AllocWrite
<1> QED BY <1>2, <1>4, <1>5, <1>7, <1>8, <1>10

\* The database as it is found has no allocations.
LEMMA AllocInit == Init => AllocInv
<1> SUFFICES ASSUME Init PROVE AllocInv
  OBVIOUS
<1>1. /\ \A v \in Rows : stock[v] = OpeningVersion(v) /\ draft[v] = OpeningVersion(v)
      /\ \A r \in Requests : tx[r] = Idle
  BY DEF Init
<1>2. ASSUME NEW r \in Requests PROVE ShapeOK(r) /\ Unused(r)
  <2>1. ShapeOK(r)
    BY <1>1, KindNone DEF ShapeOK, Idle, NewTx, Changing, MovementOf
  <2>2. \A i \in Items, v \in Rows : Blank(OpeningVersion(v), r, i)
    BY DEF Blank, OpeningVersion, Slots
  <2> QED BY <1>1, <2>1, <2>2 DEF Unused
<1> QED BY <1>1, <1>2, AccountedOpening DEF AllocInv

\* What any step is, without the reasons for giving up.
LEMMA Steps ==
    ASSUME Next
    PROVE  \E r \in Requests :
              \/ Receive(r) \/ Rollback(r) \/ CommitStatus(r) \/ CommitStock(r)
              \/ MoveRow(r) \/ AdjustRow(r) \/ CreateRow(r)
              \/ \E i \in Items : BeginReserve(r, i) \/ BeginSettle(r, i)
<1>1. PICK r \in Requests : Receive(r) \/ Progress(r) \/ DeadlockVictim(r) \/ Abort(r)
  BY DEF Next
<1> QED BY <1>1 DEF Progress, BeginItem, RejectItem, RejectRow, RejectAdjust, RejectCreate,
           DeadlockVictim, Abort

\* Every step keeps the invariant about allocations.
LEMMA AllocNext == IInv /\ AllocInv /\ [Next]_vars => AllocInv'
<1> SUFFICES ASSUME IInv, AllocInv, [Next]_vars PROVE AllocInv'
  OBVIOUS
<1>1. CASE UNCHANGED vars
  <2>1. /\ \A r \in Requests : Pending(r)' = Pending(r) /\ (ShapeOK(r) => ShapeOK(r)')
        /\ UNCHANGED <<stock, draft, owner, tx>>
    BY <1>1 DEF vars, Pending, ShapeOK, MovementOf, Left, Changing
  <2>2. \A r \in Requests : Unused(r) => Unused(r)'
    BY <2>1 DEF Unused, Blank
  <2>3. \A v \in Rows : /\ Accounted(v, stock[v]) => Accounted(v, stock[v])'
                        /\ Accounted(v, draft[v]) => Accounted(v, draft[v])'
    BY <2>1 DEF Accounted, Quantities
  <2> QED BY <2>1, <2>2, <2>3 DEF AllocInv
<1>2. CASE Next
  <2>1. PICK r \in Requests :
              \/ Receive(r) \/ Rollback(r) \/ CommitStatus(r) \/ CommitStock(r)
              \/ MoveRow(r) \/ AdjustRow(r) \/ CreateRow(r)
              \/ \E i \in Items : BeginReserve(r, i) \/ BeginSettle(r, i)
    BY <1>2, Steps
  <2>2. CASE Rollback(r) \/ CommitStatus(r) \/ CommitStock(r)
    BY <2>2, AllocRollback, AllocPublish DEF CommitStatus, CommitStock
  <2>3. CASE Receive(r) \/ MoveRow(r) \/ AdjustRow(r) \/ CreateRow(r)
    BY <2>3, AllocReceive, AllocMove, AllocInventory
  <2>4. CASE \E i \in Items : BeginReserve(r, i) \/ BeginSettle(r, i)
    BY <2>4, AllocBegin
  <2> QED BY <2>1, <2>2, <2>3, <2>4
<1> QED BY <1>1, <1>2

\* AllocInv holds along every behaviour.
LEMMA AllocAlways == Spec => []AllocInv
BY AllocInit, AllocNext, Invariance, PTL DEF Spec

\* Whatever overlaps, fails or is retried by hand, no reservation is lost, resized or
\* counted twice: the allocations on a row always add up to what its journal says was
\* reserved on it.
THEOREM ReservationsAccounted == Spec => []ReservationsAreAllocated
<1>1. AllocInv => ReservationsAreAllocated
  <2> SUFFICES ASSUME AllocInv, NEW v \in Rows, NEW s \in {stock[v], draft[v]}
               PROVE  SumFunction([id \in Slots |-> s.alloc[id].quantity])
                        = s.journal["RESERVATION"]
    BY DEF ReservationsAreAllocated
  <2>1. SumFunction(Quantities(s)) = SumFunctionOnSet(Quantities(s), Slots)
    BY DEF SumFunction, Quantities
  <2> QED BY <2>1 DEF AllocInv, Accounted, Quantities
<1> QED BY <1>1, AllocAlways, PTL

-----------------------------------------------------------------------------
(***************************************************************************)
(* Status changes of one order that do not overlap: what rows keep locked  *)
(* and what an order holds.                                                *)
(***************************************************************************)
\* The units of each item reserved on a version, and the row's locked quantity by them.
HeldOf(s) == [i \in Items |-> InRow(s, i, "RESERVED")]

LockedOK(v, s) == s.locked = OpeningStock[v].locked + SumFunctionOnSet(HeldOf(s), Items)

\* A reservation locks what it allocates; a settled allocation unlocks what it held.
LEMMA LockedWrite ==
    ASSUME NEW v \in Rows, NEW s \in Version, NEW n \in Version, LockedOK(v, s),
           NEW id \in Slots, NEW x, n.alloc = [s.alloc EXCEPT ![id] = x],
           n.locked = s.locked - Part(s, "RESERVED")[id] + Part(n, "RESERVED")[id]
    PROVE  LockedOK(v, n)
<1> DEFINE i == id[2]  d == Part(n, "RESERVED")[id]  c == Part(s, "RESERVED")[id]
<1>1. i \in Items /\ d \in Nat /\ c \in Nat
  BY PartType DEF Slots
<1>2. /\ HeldOf(n)[i] = HeldOf(s)[i] - c + d
      /\ \A j \in Items \ {i} : HeldOf(n)[j] = HeldOf(s)[j]
  BY <1>1, InRowWrite DEF HeldOf
<1>3. \A j \in Items : HeldOf(s)[j] \in Int /\ HeldOf(n)[j] \in Int
  BY InRowType DEF HeldOf
<1> HIDE DEF i, d, c
<1>4. SumFunctionOnSet(HeldOf(n), Items)
        = SumFunctionOnSet(HeldOf(s), Items) - HeldOf(s)[i] + HeldOf(n)[i]
  BY <1>1, <1>2, <1>3, FiniteAssumption, SumChange
<1>5. SumFunctionOnSet(HeldOf(s), Items) \in Int
  BY <1>3, FiniteAssumption, SumType
<1>6. OpeningStock[v].locked \in Int
  BY ConstantsAssumption
<1>7. n.locked = s.locked - c + d
  BY DEF c, d
<1> QED BY <1>1, <1>2, <1>3, <1>4, <1>5, <1>6, <1>7 DEF LockedOK

\* An update that leaves allocations and the locked quantity alone keeps them in step.
LEMMA LockedFrame ==
    ASSUME NEW v, NEW s \in Version, NEW n \in Version, LockedOK(v, s),
           n.alloc = s.alloc, n.locked = s.locked
    PROVE  LockedOK(v, n)
<1>1. \A i \in Items : InRow(n, i, "RESERVED") = InRow(s, i, "RESERVED")
  BY DEF InRow
<1>2. HeldOf(n) = HeldOf(s)
  BY <1>1 DEF HeldOf
<1> QED BY <1>2 DEF LockedOK

\* Nothing is reserved on a row as it is found.
LEMMA OpeningInRow ==
    ASSUME NEW v \in Rows, NEW i \in Items, NEW st
    PROVE  InRow(OpeningVersion(v), i, st) = 0
<1>1. OpeningVersion(v) \in Version
  BY OpeningGood DEF Good
<1>2. \A id \in Requests \X {i} : Part(OpeningVersion(v), st)[id] = 0
  BY FiniteSlots DEF Part, OpeningVersion
<1>3. SumFunctionOnSet(Part(OpeningVersion(v), st), Requests \X {i}) = 0
  BY <1>2, FiniteSlots, SumZero
<1> QED BY <1>1, <1>3, InRowIsSum

(***************************************************************************)
(* The quantities of an item over a table of rows.                         *)
(***************************************************************************)
ItemRows(T, i, st) == [v \in Rows |-> InRow(T[v], i, st)]

\* AllocatedAs is this for the committed table.
ItemIn(T, i, st) == SumFunctionOnSet(ItemRows(T, i, st), Rows)

LEMMA AllocatedIsItemIn ==
    ASSUME NEW i, NEW st
    PROVE  AllocatedAs(i, st) = ItemIn(stock, i, st)
BY DEF AllocatedAs, ItemIn, ItemRows, SumFunction

\* It is a natural number, and no row has more than all rows together.
LEMMA ItemInType ==
    ASSUME NEW T \in [Rows -> Version], NEW i \in Items, NEW st
    PROVE  /\ ItemIn(T, i, st) \in Nat
           /\ \A v \in Rows : InRow(T[v], i, st) \in Nat /\ InRow(T[v], i, st) <= ItemIn(T, i, st)
<1>1. \A v \in Rows : /\ ItemRows(T, i, st)[v] \in Nat
                      /\ ItemRows(T, i, st)[v] = InRow(T[v], i, st)
  BY InRowType DEF ItemRows
<1>2. \A v \in Rows : ItemRows(T, i, st)[v] \in Int /\ ItemRows(T, i, st)[v] >= 0
  BY <1>1
<1>3. ItemIn(T, i, st) \in Int /\ ItemIn(T, i, st) >= 0
  BY <1>2, FiniteAssumption, SumType DEF ItemIn
<1>4. \A v \in Rows : ItemRows(T, i, st)[v] <= ItemIn(T, i, st)
  BY <1>1, FiniteAssumption, SumMember DEF ItemIn
<1> QED BY <1>1, <1>3, <1>4

\* Tables that agree on the slots of an item agree on its quantities.
LEMMA ItemInSame ==
    ASSUME NEW T \in [Rows -> Version], NEW U \in [Rows -> Version], NEW i \in Items,
           \A v \in Rows, r \in Requests : U[v].alloc[<<r, i>>] = T[v].alloc[<<r, i>>]
    PROVE  \A st : ItemIn(U, i, st) = ItemIn(T, i, st)
<1> SUFFICES ASSUME NEW st PROVE ItemIn(U, i, st) = ItemIn(T, i, st)
  OBVIOUS
<1>1. ASSUME NEW v \in Rows PROVE InRow(U[v], i, st) = InRow(T[v], i, st)
  <2>1. U[v] \in Version /\ T[v] \in Version
    OBVIOUS
  <2> QED BY <2>1, InRowSame
<1>2. ItemRows(U, i, st) = ItemRows(T, i, st)
  BY <1>1 DEF ItemRows
<1> QED BY <1>2 DEF ItemIn

\* Two tables that differ in one slot of one row at most.
Wrote(T, U, v, id) ==
    /\ T \in [Rows -> Version] /\ U \in [Rows -> Version] /\ v \in Rows /\ id \in Slots
    /\ \A w \in Rows \ {v} : U[w] = T[w]
    /\ \A y \in Slots \ {id} : U[v].alloc[y] = T[v].alloc[y]

\* Writing one allocation of one row changes what the item has in each status by it.
LEMMA ItemInWrite ==
    ASSUME NEW T, NEW U, NEW v, NEW id, Wrote(T, U, v, id), NEW st
    PROVE  ItemIn(U, id[2], st) = ItemIn(T, id[2], st) - Part(T[v], st)[id] + Part(U[v], st)[id]
<1>0. /\ T \in [Rows -> Version] /\ U \in [Rows -> Version] /\ v \in Rows /\ id \in Slots
      /\ \A w \in Rows \ {v} : U[w] = T[w]
      /\ \A y \in Slots \ {id} : U[v].alloc[y] = T[v].alloc[y]
  BY DEF Wrote
<1> DEFINE i == id[2]  t == T[v]  u == U[v]
<1>1. i \in Items /\ t \in Version /\ u \in Version
  BY <1>0 DEF Slots
<1>2. InRow(u, i, st) = InRow(t, i, st) - Part(t, st)[id] + Part(u, st)[id]
  <2>1. u.alloc = [t.alloc EXCEPT ![id] = u.alloc[id]]
    BY <1>0, <1>1 DEF Version
  <2> HIDE DEF t, u
  <2> QED BY <1>0, <1>1, <2>1, InRowWrite
<1> DEFINE f == ItemRows(T, i, st)  g == ItemRows(U, i, st)
<1>3. /\ f[v] = InRow(t, i, st) /\ g[v] = InRow(u, i, st)
      /\ \A w \in Rows \ {v} : g[w] = f[w]
  BY <1>0 DEF ItemRows
<1>4. \A w \in Rows : f[w] \in Int /\ g[w] \in Int
  BY <1>0, <1>1, InRowType DEF ItemRows
<1>5. Part(t, st)[id] \in Int /\ Part(u, st)[id] \in Int
  BY <1>0, <1>1, PartType
<1> HIDE DEF f, g, t, u, i
<1>6. SumFunctionOnSet(g, Rows) = SumFunctionOnSet(f, Rows) - f[v] + g[v]
  BY <1>0, <1>3, <1>4, FiniteAssumption, SumChange
<1>7. SumFunctionOnSet(f, Rows) \in Int
  BY <1>4, FiniteAssumption, SumType
<1> QED BY <1>0, <1>2, <1>3, <1>4, <1>5, <1>6, <1>7 DEF ItemIn, f, g, t, u, i

(***************************************************************************)
(* The invariant.                                                          *)
(***************************************************************************)
\* The draft of a row says something else of an item than what is committed only while
\* a status change of that item's order owns the row.
Apart ==
    \A v \in Rows, i \in Items, q \in Requests :
        \/ draft[v].alloc[<<q, i>>] = stock[v].alloc[<<q, i>>]
        \/ /\ owner[v] \in Requests /\ Changing(owner[v])
           /\ OrderOf[i] = tx[owner[v]].job.order

\* What a transaction has not changed in the rows it owns: a movement keeps the sum of
\* the two quantities or, for a shipment, what is available; an inventory request keeps
\* what is locked and allocated, and owns only the row it is about.
Kept(v) ==
    owner[v] \in Requests =>
        LET p == owner[v] IN
        IF MovementOf(p) \in {"reserve", "release"}
        THEN draft[v].available + draft[v].locked = stock[v].available + stock[v].locked
        ELSE IF MovementOf(p) = "fulfil" THEN draft[v].available = stock[v].available
        ELSE /\ ~Changing(p) /\ v = tx[p].job.row
             /\ draft[v].locked = stock[v].locked /\ draft[v].alloc = stock[v].alloc

\* The allocations of an item in a table are what status st calls for.
Agrees(T, i, st) ==
    /\ ItemIn(T, i, "RESERVED") = IF st = "PICKING" THEN Quantity[i] ELSE 0
    /\ ItemIn(T, i, "FULFILLED") = IF st \in {"SHIPPED", "COMPLETED"} THEN Quantity[i] ELSE 0
    /\ ItemIn(T, i, "RELEASED") \in IF st = "CANCELLED" THEN {0, Quantity[i]} ELSE {0}

Untouched(i) ==
    \A v \in Rows, q \in Requests : draft[v].alloc[<<q, i>>] = stock[v].alloc[<<q, i>>]

\* An item is where the order's status has it, or already where the change takes it.
Whole(r, i) ==
    IF i \in tx[r].items \/ MovementOf(r) = "none" THEN Untouched(i)
    ELSE Agrees(draft, i, tx[r].job.to)

\* The item in progress: what is left to move and what is moved make up its quantity,
\* and what is left to settle is still reserved.
Partial(r, i) ==
    LET q == Quantity[i]  n == tx[r].remaining  m == MovementOf(r) IN
    /\ ItemIn(draft, i, "RESERVED") = IF m = "reserve" THEN q - n ELSE n
    /\ ItemIn(draft, i, "FULFILLED") = IF m = "fulfil" THEN q - n ELSE 0
    /\ ItemIn(draft, i, "RELEASED") = IF m = "release" THEN q - n ELSE 0
    /\ m # "reserve" =>
          \A a \in Left(r) : draft[a[3]].alloc[<<a[1], a[2]>>].status = "RESERVED"

Halfway(r) ==
    \A i \in ItemsOf(tx[r].job.order) :
        /\ tx[r].pc = "items" => Whole(r, i)
        /\ tx[r].pc = "row" /\ tx[r].at # NoVisit =>
              IF i = tx[r].at[2] THEN Partial(r, i) ELSE Whole(r, i)

StockInv ==
    /\ Apart
    /\ \A v \in Rows : LockedOK(v, stock[v]) /\ LockedOK(v, draft[v]) /\ Kept(v)
    /\ \A i \in Items : Agrees(stock, i, status[OrderOf[i]])
    /\ \A r \in Requests : Changing(r) => Halfway(r)

\* Everything known of a state in which status changes of one order do not overlap.
Known == IInv /\ AllocInv /\ LocksEndWithTransaction /\ SerialInv

-----------------------------------------------------------------------------
(***************************************************************************)
(* What a step leaves alone.                                               *)
(***************************************************************************)
\* The slots of an item are written neither in a draft nor in what is committed.
SlotsKept(i) ==
    \A v \in Rows, q \in Requests :
        /\ draft'[v].alloc[<<q, i>>] = draft[v].alloc[<<q, i>>]
        /\ stock'[v].alloc[<<q, i>>] = stock[v].alloc[<<q, i>>]

\* Two tables that agree on an item's slots agree with the same statuses.
LEMMA AgreesSame ==
    ASSUME NEW T \in [Rows -> Version], NEW U \in [Rows -> Version], NEW i \in Items,
           \A v \in Rows, q \in Requests : U[v].alloc[<<q, i>>] = T[v].alloc[<<q, i>>],
           NEW st, Agrees(T, i, st)
    PROVE  Agrees(U, i, st)
<1>1. \A u : ItemIn(U, i, u) = ItemIn(T, i, u)
  BY ItemInSame
<1> QED BY <1>1 DEF Agrees

\* A table that agrees with the status a change starts from agrees with the status it
\* leads to when the change moves no stock.
LEMMA AgreesMove ==
    ASSUME NEW T, NEW i, NEW from \in Statuses, NEW to \in Transitions[from],
           Movement(from, to) = "none", Agrees(T, i, from)
    PROVE  Agrees(T, i, to)
<1>1. \/ from = "PENDING_PAYMENT" /\ to \in {"PAID", "CANCELLED"}
      \/ from = "PAID" /\ to \in {"CANCELLED", "REFUNDED"}
      \/ from = "SHIPPED" /\ to = "COMPLETED"
  BY DEF Statuses, Transitions, Movement
<1> QED BY <1>1 DEF Agrees

\* The movement of a change tells the two statuses it is between.
LEMMA MovementEnds ==
    ASSUME NEW from, NEW to
    PROVE  /\ Movement(from, to) = "reserve" => from = "PAID" /\ to = "PICKING"
           /\ Movement(from, to) = "fulfil" => from = "PICKING" /\ to = "SHIPPED"
           /\ Movement(from, to) = "release" => from = "PICKING" /\ to = "CANCELLED"
BY DEF Movement

\* A change that did not take the step is as far as it was with an item nobody wrote.
LEMMA WholeKept ==
    ASSUME IInv, IInv', NEW r \in Requests, NEW i \in Items, SlotsKept(i),
           tx'[r].job = tx[r].job, tx'[r].from = tx[r].from,
           i \in tx'[r].items <=> i \in tx[r].items, Whole(r, i)
    PROVE  Whole(r, i)'
<1>1. MovementOf(r)' = MovementOf(r)
  BY DEF MovementOf
<1>2. Untouched(i) => Untouched(i)'
  BY DEF Untouched, SlotsKept
<1>3. draft \in [Rows -> Version] /\ draft' \in [Rows -> Version]
  BY DEF IInv, RowsInv
<1>4. Agrees(draft, i, tx[r].job.to) => Agrees(draft', i, tx[r].job.to)
  BY <1>3, AgreesSame DEF SlotsKept
<1> QED BY <1>1, <1>2, <1>4 DEF Whole, Agrees, ItemIn, ItemRows, InRow

LEMMA HalfwayKept ==
    ASSUME IInv, IInv', NEW p \in Requests, tx'[p] = tx[p], Changing(p), ShapeOK(p),
           \A i \in ItemsOf(tx[p].job.order) : SlotsKept(i), Halfway(p)
    PROVE  Halfway(p)'
<1> SUFFICES ASSUME NEW i \in ItemsOf(tx[p].job.order)
             PROVE  /\ tx[p].pc = "items" => Whole(p, i)'
                    /\ tx[p].pc = "row" /\ tx[p].at # NoVisit =>
                          IF i = tx[p].at[2] THEN Partial(p, i)' ELSE Whole(p, i)'
  BY DEF Halfway
<1>1. i \in Items /\ SlotsKept(i)
  BY DEF ItemsOf
<1>2. Whole(p, i) => Whole(p, i)'
  BY <1>1, WholeKept
<1>3. draft \in [Rows -> Version] /\ draft' \in [Rows -> Version]
  BY DEF IInv, RowsInv
<1>4. \A st : ItemIn(draft', i, st) = ItemIn(draft, i, st)
  BY <1>1, <1>3, ItemInSame DEF SlotsKept
<1>5. ASSUME tx[p].pc = "row", tx[p].at # NoVisit, i = tx[p].at[2], Partial(p, i)
      PROVE  Partial(p, i)'
  <2>1. \A a \in Left(p) : a[1] \in Requests /\ a[3] \in Rows /\ a[2] = i
    BY <1>5 DEF IInv, TxInv, Transaction, Left, Visits, ShapeOK
  <2>2. \A a \in Left(p) : draft'[a[3]].alloc[<<a[1], a[2]>>] = draft[a[3]].alloc[<<a[1], a[2]>>]
    BY <1>1, <2>1 DEF SlotsKept
  <2>3. Left(p)' = Left(p) /\ MovementOf(p)' = MovementOf(p)
    BY DEF Left, MovementOf
  <2>4. \A st : ItemIn(draft, i, st)' = ItemIn(draft, i, st)
    BY <1>4 DEF ItemIn, ItemRows
  <2> QED BY <1>5, <2>2, <2>3, <2>4 DEF Partial
<1> QED BY <1>2, <1>5 DEF Halfway

\* A status change is about an order of the table and goes to another status.
LEMMA ChangingJob ==
    ASSUME IInv, NEW p \in Requests, Changing(p)
    PROVE  /\ tx[p].job \in Jobs /\ tx[p].job.order \in Orders
           /\ MovementOf(p) = Movement(tx[p].from, tx[p].job.to)
<1>1. tx[p].job \in Jobs \cup {NoJob} /\ tx[p].job # NoJob
  BY KindNone DEF IInv, TxInv, Transaction, Changing
<1> QED BY <1>1, JobKinds DEF Changing, MovementOf

-----------------------------------------------------------------------------
(***************************************************************************)
(* A transaction that ends, either way.                                    *)
(***************************************************************************)
\* Ending writes only slots of the request's own order.
LEMMA EndSlots ==
    ASSUME Known, Apart, NEW r \in Requests, Rollback(r) \/ Publish(r), NEW i \in Items,
           Changing(r) => OrderOf[i] # tx[r].job.order
    PROVE  SlotsKept(i)
<1> SUFFICES ASSUME NEW v \in Rows, NEW q \in Requests
             PROVE  /\ draft'[v].alloc[<<q, i>>] = draft[v].alloc[<<q, i>>]
                    /\ stock'[v].alloc[<<q, i>>] = stock[v].alloc[<<q, i>>]
  BY DEF SlotsKept
<1>1. \/ draft'[v] = (IF owner[v] = r THEN stock[v] ELSE draft[v]) /\ stock'[v] = stock[v]
      \/ stock'[v] = (IF owner[v] = r THEN draft[v] ELSE stock[v]) /\ draft'[v] = draft[v]
  BY DEF Rollback, Publish
<1>2. owner[v] = r => draft[v].alloc[<<q, i>>] = stock[v].alloc[<<q, i>>]
  BY DEF Apart
<1> QED BY <1>1, <1>2

\* Ending keeps the parts of the invariant that are about rows and other requests.
LEMMA EndKeeps ==
    ASSUME Known, StockInv, NEW r \in Requests, Rollback(r) \/ Publish(r), IInv'
    PROVE  /\ Apart'
           /\ \A v \in Rows : LockedOK(v, stock[v])' /\ LockedOK(v, draft[v])' /\ Kept(v)'
           /\ \A p \in Requests : Changing(p)' => Halfway(p)'
<1>1. /\ tx'[r] = Done /\ \A p \in Requests \ {r} : tx'[p] = tx[p]
      /\ \A v \in Rows :
            /\ owner'[v] = IF owner[v] = r THEN Free ELSE owner[v]
            /\ owner[v] = r => draft'[v] = stock'[v] /\ stock'[v] \in {stock[v], draft[v]}
            /\ owner[v] # r => draft'[v] = draft[v] /\ stock'[v] = stock[v]
      /\ owner \in [Rows -> Requests \cup {Free}] /\ Free \notin Requests
  BY ConstantsAssumption DEF Rollback, Publish, Known, IInv, TxInv, RowsInv
<1>2. Apart'
  <2> SUFFICES ASSUME NEW v \in Rows, NEW i \in Items, NEW q \in Requests
               PROVE  \/ draft'[v].alloc[<<q, i>>] = stock'[v].alloc[<<q, i>>]
                      \/ /\ owner'[v] \in Requests /\ Changing(owner[v])'
                         /\ OrderOf[i] = tx'[owner'[v]].job.order
    BY DEF Apart
  <2>1. CASE owner[v] = r
    BY <1>1, <2>1
  <2>2. CASE owner[v] # r
    <3>1. owner[v] \in Requests => tx'[owner[v]] = tx[owner[v]]
      BY <1>1, <2>2
    <3> QED BY <1>1, <2>2, <3>1 DEF StockInv, Apart, Changing
  <2> QED BY <2>1, <2>2
<1>3. ASSUME NEW v \in Rows PROVE LockedOK(v, stock[v])' /\ LockedOK(v, draft[v])' /\ Kept(v)'
  <2>1. LockedOK(v, stock'[v]) /\ LockedOK(v, draft'[v])
    BY <1>1 DEF StockInv
  <2>2. Kept(v)'
    <3>1. CASE owner[v] = r
      BY <1>1, <3>1 DEF Kept
    <3>2. CASE owner[v] # r
      <4>1. owner[v] \in Requests => tx'[owner[v]] = tx[owner[v]]
        BY <1>1, <3>2
      <4>2. Kept(v) /\ owner'[v] = owner[v] /\ draft'[v] = draft[v] /\ stock'[v] = stock[v]
        BY <1>1, <3>2 DEF StockInv
      <4> QED BY <4>1, <4>2 DEF Kept, MovementOf, Changing
    <3> QED BY <3>1, <3>2
  <2> QED BY <2>1, <2>2 DEF LockedOK, HeldOf, InRow
<1>4. ASSUME NEW p \in Requests, Changing(p)' PROVE Halfway(p)'
  <2>1. p # r /\ tx'[p] = tx[p] /\ Changing(p)
    BY <1>1, <1>4, KindNone DEF Changing
  <2>2. Fresh(p) /\ ShapeOK(p) /\ Halfway(p)
    BY <2>1 DEF Known, SerialInv, AllocInv, StockInv
  <2>3. \A i \in ItemsOf(tx[p].job.order) : i \in Items /\ (Changing(r) => OrderOf[i] # tx[r].job.order)
    BY <2>1, <2>2 DEF ItemsOf, Fresh
  <2>4. \A i \in ItemsOf(tx[p].job.order) : SlotsKept(i)
    BY <2>3, EndSlots DEF StockInv
  <2> QED BY <2>1, <2>2, <2>4, HalfwayKept DEF Known
<1> QED BY <1>2, <1>3, <1>4

\* A request that gives up leaves what every order holds as it was.
LEMMA RollbackStock ==
    ASSUME Known, StockInv, NEW r \in Requests, Rollback(r), IInv'
    PROVE  StockInv'
<1>1. UNCHANGED <<stock, status>>
  BY DEF Rollback
<1>2. \A i \in Items : Agrees(stock', i, status'[OrderOf[i]])
  BY <1>1 DEF StockInv
<1>3. \A i \in Items : Agrees(stock, i, status[OrderOf[i]])'
  BY <1>2 DEF Agrees, ItemIn, ItemRows, InRow
<1> QED BY <1>3, EndKeeps DEF StockInv

\* So does the commit of an inventory request.
LEMMA CommitStockStock ==
    ASSUME Known, StockInv, NEW r \in Requests, CommitStock(r), IInv'
    PROVE  StockInv'
<1>1. Publish(r) /\ ~Changing(r) /\ UNCHANGED status
  BY DEF CommitStock, Changing, orderVars
<1>2. stock \in [Rows -> Version] /\ stock' \in [Rows -> Version]
  BY DEF Known, IInv, RowsInv
<1>3. ASSUME NEW i \in Items PROVE Agrees(stock', i, status'[OrderOf[i]])
  <2>1. SlotsKept(i)
    BY <1>1, EndSlots DEF StockInv
  <2> QED BY <1>1, <1>2, <2>1, AgreesSame DEF SlotsKept, StockInv
<1>4. \A i \in Items : Agrees(stock, i, status[OrderOf[i]])'
  BY <1>3 DEF Agrees, ItemIn, ItemRows, InRow
<1> QED BY <1>1, <1>4, EndKeeps DEF StockInv

\* What a committed status change leaves: the drafts of its order's items are committed,
\* and every item of the order is where the new status calls for it.
LEMMA CommitSlots ==
    ASSUME Known, StockInv, NEW r \in Requests, CommitStatus(r), IInv'
    PROVE  LET o == tx[r].job.order  to == tx[r].job.to IN
           /\ o \in Orders /\ status[o] \in Statuses /\ tx[r].from = status[o]
           /\ to \in Transitions[status[o]]
           /\ status' = [status EXCEPT ![o] = to]
           /\ \A i \in ItemsOf(o) : /\ i \in Items
                                    /\ Agrees(stock, i, status[o]) /\ Agrees(stock', i, to)
           /\ \A i \in Items \ ItemsOf(o) : SlotsKept(i) /\ OrderOf[i] # o
<1> DEFINE o == tx[r].job.order  to == tx[r].job.to
<1>1. /\ Publish(r) /\ Changing(r) /\ Fresh(r) /\ Halfway(r) /\ ShapeOK(r)
      /\ tx[r].pc = "items" /\ tx[r].items = {} /\ status' = [status EXCEPT ![o] = to]
  BY DEF CommitStatus, Changing, Known, SerialInv, StockInv, AllocInv
<1>2. /\ o \in Orders /\ status[o] \in Statuses /\ tx[r].from = status[o]
      /\ to \in Transitions[status[o]] /\ MovementOf(r) = Movement(status[o], to)
  BY <1>1, ChangingJob DEF Known, IInv, OrdersInv, Fresh
<1>3. /\ stock \in [Rows -> Version] /\ stock' \in [Rows -> Version]
      /\ draft \in [Rows -> Version] /\ owner \in [Rows -> Requests \cup {Free}]
      /\ \A v \in Rows : stock'[v] = IF owner[v] = r THEN draft[v] ELSE stock[v]
  BY <1>1 DEF Known, IInv, RowsInv, Publish
<1>4. ASSUME NEW i \in ItemsOf(o)
      PROVE  i \in Items /\ Agrees(stock, i, status[o]) /\ Agrees(stock', i, to)
  <2>1. i \in Items /\ OrderOf[i] = o /\ Whole(r, i)
    BY <1>1 DEF ItemsOf, Halfway
  <2>2. Agrees(stock, i, status[o])
    BY <2>1 DEF StockInv
  <2>3. ASSUME NEW v \in Rows, NEW q \in Requests
        PROVE  stock'[v].alloc[<<q, i>>] = draft[v].alloc[<<q, i>>]
    <3>1. CASE owner[v] = r
      BY <1>3, <3>1
    <3>2. CASE owner[v] # r
      <4>1. owner[v] \in Requests /\ Changing(owner[v]) => tx[owner[v]].job.order # o
        BY <1>1, <3>2 DEF Fresh
      <4>2. draft[v].alloc[<<q, i>>] = stock[v].alloc[<<q, i>>]
        BY <2>1, <4>1 DEF StockInv, Apart
      <4> QED BY <1>3, <3>2, <4>2
    <3> QED BY <3>1, <3>2
  <2>4. CASE MovementOf(r) = "none"
    <3>1. \A v \in Rows, q \in Requests : stock'[v].alloc[<<q, i>>] = stock[v].alloc[<<q, i>>]
      BY <2>1, <2>3, <2>4 DEF Whole, Untouched
    <3>2. Agrees(stock', i, status[o])
      BY <1>3, <2>1, <2>2, <3>1, AgreesSame
    <3> QED BY <1>2, <2>1, <2>2, <2>4, <3>2, AgreesMove
  <2>5. CASE MovementOf(r) # "none"
    <3>1. Agrees(draft, i, to)
      BY <1>1, <2>1, <2>5 DEF Whole
    <3> QED BY <1>3, <2>1, <2>2, <2>3, <3>1, AgreesSame
  <2> QED BY <2>4, <2>5
<1>5. ASSUME NEW i \in Items \ ItemsOf(o) PROVE SlotsKept(i) /\ OrderOf[i] # o
  BY <1>1, EndSlots DEF StockInv, ItemsOf
<1> QED BY <1>1, <1>2, <1>4, <1>5

\* The commit of a status change keeps the invariant.
LEMMA CommitStatusStock ==
    ASSUME Known, StockInv, NEW r \in Requests, CommitStatus(r), IInv'
    PROVE  StockInv'
<1> DEFINE o == tx[r].job.order  to == tx[r].job.to
<1>1. /\ o \in Orders /\ status' = [status EXCEPT ![o] = to]
      /\ \A i \in ItemsOf(o) : Agrees(stock', i, to)
      /\ \A i \in Items \ ItemsOf(o) : SlotsKept(i) /\ OrderOf[i] # o
  BY CommitSlots
<1>2. /\ stock \in [Rows -> Version] /\ stock' \in [Rows -> Version]
      /\ status \in [Orders -> Statuses] /\ Publish(r)
  BY DEF Known, IInv, RowsInv, OrdersInv, CommitStatus
<1>3. ASSUME NEW i \in Items PROVE Agrees(stock', i, status'[OrderOf[i]])
  <2>1. CASE i \in ItemsOf(o)
    BY <1>1, <1>2, <2>1 DEF ItemsOf
  <2>2. CASE i \notin ItemsOf(o)
    <3>1. OrderOf[i] \in Orders
      BY ConstantsAssumption
    <3>2. status'[OrderOf[i]] = status[OrderOf[i]]
      BY <1>1, <1>2, <2>2, <3>1
    <3> QED BY <1>1, <1>2, <2>2, <3>2, AgreesSame DEF SlotsKept, StockInv
  <2> QED BY <2>1, <2>2
<1>4. \A i \in Items : Agrees(stock, i, status[OrderOf[i]])'
  BY <1>3 DEF Agrees, ItemIn, ItemRows, InRow
<1> QED BY <1>2, <1>4, EndKeeps DEF StockInv

-----------------------------------------------------------------------------
(***************************************************************************)
(* A request that goes on.                                                 *)
(***************************************************************************)
\* A step that writes no row keeps the invariant, given that the request leaves the rows
\* it owns explained and knows where its items are.
LEMMA LocalStock ==
    ASSUME Known, StockInv, IInv', NEW r \in Requests, UNCHANGED <<rowVars, status>>,
           \A p \in Requests \ {r} : tx'[p] = tx[p],
           \A v \in Rows : owner[v] = r => tx'[r].job = tx[r].job /\ tx'[r].from = tx[r].from,
           Changing(r)' => Halfway(r)'
    PROVE  StockInv'
<1>1. UNCHANGED <<stock, draft, owner, status>>
  BY DEF rowVars
<1>2. \A v \in Rows : owner[v] \in Requests =>
          tx'[owner[v]].job = tx[owner[v]].job /\ tx'[owner[v]].from = tx[owner[v]].from
  OBVIOUS
<1>3. Apart'
  <2> SUFFICES ASSUME NEW v \in Rows, NEW i \in Items, NEW q \in Requests
               PROVE  \/ draft'[v].alloc[<<q, i>>] = stock'[v].alloc[<<q, i>>]
                      \/ /\ owner'[v] \in Requests /\ Changing(owner[v])'
                         /\ OrderOf[i] = tx'[owner'[v]].job.order
    BY DEF Apart
  <2>1. CASE draft[v].alloc[<<q, i>>] = stock[v].alloc[<<q, i>>]
    BY <1>1, <2>1
  <2>2. CASE /\ owner[v] \in Requests /\ Changing(owner[v])
             /\ OrderOf[i] = tx[owner[v]].job.order
    BY <1>1, <1>2, <2>2 DEF Changing
  <2> QED BY <2>1, <2>2 DEF StockInv, Apart
<1>4. ASSUME NEW v \in Rows PROVE LockedOK(v, stock[v])' /\ LockedOK(v, draft[v])' /\ Kept(v)'
  <2>1. LockedOK(v, stock'[v]) /\ LockedOK(v, draft'[v])
    BY <1>1 DEF StockInv
  <2>2. Kept(v)
    BY DEF StockInv
  <2>3. Kept(v)'
    BY <1>1, <1>2, <2>2 DEF Kept, MovementOf, Changing
  <2> QED BY <2>1, <2>3 DEF LockedOK, HeldOf, InRow
<1>5. \A i \in Items : Agrees(stock', i, status'[OrderOf[i]])
  BY <1>1 DEF StockInv
<1>6. \A i \in Items : Agrees(stock, i, status[OrderOf[i]])'
  BY <1>5 DEF Agrees, ItemIn, ItemRows, InRow
<1>7. ASSUME NEW p \in Requests, Changing(p)', p # r PROVE Halfway(p)'
  <2>1. tx'[p] = tx[p] /\ Changing(p)
    BY <1>7 DEF Changing
  <2>2. \A i \in ItemsOf(tx[p].job.order) : SlotsKept(i)
    BY <1>1 DEF SlotsKept
  <2> QED BY <2>1, <2>2, HalfwayKept DEF Known, AllocInv, StockInv
<1> QED BY <1>3, <1>4, <1>6, <1>7 DEF StockInv

\* So does a write under the row lock, given that it leaves the row explained and writes
\* only slots of the order the request changes.
LEMMA WriteStock ==
    ASSUME Known, StockInv, IInv', NEW r \in Requests, NEW v \in Rows, CanLock(r, v),
           owner' = [owner EXCEPT ![v] = r], UNCHANGED <<stock, status>>,
           \A w \in Rows \ {v} : draft'[w] = draft[w],
           \A i \in Items, q \in Requests :
               \/ draft'[v].alloc[<<q, i>>] = draft[v].alloc[<<q, i>>]
               \/ Changing(r) /\ OrderOf[i] = tx[r].job.order,
           LockedOK(v, draft'[v]), Kept(v)',
           \A p \in Requests \ {r} : tx'[p] = tx[p],
           tx'[r].job = tx[r].job, Changing(r) => tx'[r].from = tx[r].from,
           Changing(r) => Halfway(r)'
    PROVE  StockInv'
<1>1. /\ owner \in [Rows -> Requests \cup {Free}] /\ Free \notin Requests
      /\ owner'[v] = r /\ \A w \in Rows \ {v} : owner'[w] = owner[w]
      /\ owner[v] = Free \/ owner[v] = r
      /\ owner[v] = Free => draft[v] = stock[v]
  BY ConstantsAssumption DEF Known, IInv, RowsInv, CanLock, LocksEndWithTransaction
<1>2. \A p \in Requests : /\ tx'[p].job = tx[p].job /\ Changing(p)' = Changing(p)
                          /\ MovementOf(p)' = MovementOf(p)
  BY DEF Changing, MovementOf
<1>3. Apart'
  <2> SUFFICES ASSUME NEW w \in Rows, NEW i \in Items, NEW q \in Requests
               PROVE  \/ draft'[w].alloc[<<q, i>>] = stock'[w].alloc[<<q, i>>]
                      \/ /\ owner'[w] \in Requests /\ Changing(owner[w])'
                         /\ OrderOf[i] = tx'[owner'[w]].job.order
    BY DEF Apart
  <2>1. \/ draft[w].alloc[<<q, i>>] = stock[w].alloc[<<q, i>>]
        \/ /\ owner[w] \in Requests /\ Changing(owner[w])
           /\ OrderOf[i] = tx[owner[w]].job.order
    BY DEF StockInv, Apart
  <2>2. CASE w = v
    BY <1>1, <1>2, <2>1, <2>2 DEF Changing
  <2>3. CASE w # v
    BY <1>1, <1>2, <2>1, <2>3 DEF Changing
  <2> QED BY <2>2, <2>3
<1>4. ASSUME NEW w \in Rows PROVE LockedOK(w, stock[w])' /\ LockedOK(w, draft[w])' /\ Kept(w)'
  <2>1. LockedOK(w, stock'[w]) /\ LockedOK(w, draft'[w])
    BY DEF StockInv
  <2>2. Kept(w)'
    <3>1. CASE w = v
      BY <3>1
    <3>2. CASE w # v
      <4>1. Kept(w) /\ draft'[w] = draft[w] /\ owner'[w] = owner[w]
        BY <1>1, <3>2 DEF StockInv
      <4> QED BY <1>2, <4>1 DEF Kept
    <3> QED BY <3>1, <3>2
  <2> QED BY <2>1, <2>2 DEF LockedOK, HeldOf, InRow
<1>5. \A i \in Items : Agrees(stock', i, status'[OrderOf[i]])
  BY DEF StockInv
<1>6. \A i \in Items : Agrees(stock, i, status[OrderOf[i]])'
  BY <1>5 DEF Agrees, ItemIn, ItemRows, InRow
<1>7. ASSUME NEW p \in Requests, Changing(p)', p # r PROVE Halfway(p)'
  <2>1. tx'[p] = tx[p] /\ Changing(p)
    BY <1>2, <1>7
  <2>2. Fresh(p) /\ ShapeOK(p) /\ Halfway(p)
    BY <2>1 DEF Known, SerialInv, AllocInv, StockInv
  <2>3. ASSUME NEW i \in ItemsOf(tx[p].job.order) PROVE SlotsKept(i)
    <3>1. i \in Items /\ ~(Changing(r) /\ OrderOf[i] = tx[r].job.order)
      BY <1>7, <2>2 DEF ItemsOf, Fresh
    <3>2. \A q \in Requests : draft'[v].alloc[<<q, i>>] = draft[v].alloc[<<q, i>>]
      BY <3>1
    <3> QED BY <3>2 DEF SlotsKept
  <2> QED BY <2>1, <2>2, <2>3, HalfwayKept DEF Known
<1> QED BY <1>2, <1>3, <1>4, <1>6, <1>7 DEF StockInv

\* A change that arrives finds its order's items untouched, alone with the order.
LEMMA ReceiveStock ==
    ASSUME OneAtATime = TRUE, Known, StockInv, NEW r \in Requests, Receive(r), IInv'
    PROVE  StockInv'
<1>1. PICK job \in Jobs :
        ReceiveStatus(r, job) \/ ReceiveAdjust(r, job) \/ ReceiveInitialize(r, job)
  BY DEF Receive
<1>2. /\ tx[r].pc = "idle" /\ UNCHANGED <<rowVars, status>> /\ tx \in [Requests -> Transaction]
      /\ \A p \in Requests \ {r} : tx'[p] = tx[p]
  BY <1>1 DEF ReceiveStatus, ReceiveAdjust, ReceiveInitialize, orderVars, Known, IInv, TxInv
<1>3. \A v \in Rows : owner[v] # r
  BY <1>2, ConstantsAssumption DEF Known, LocksEndWithTransaction, InTransaction
<1>4. ASSUME Changing(r)' PROVE Halfway(r)'
  <2> DEFINE from == status[job.order]
  <2>1. job \in AdjustJobs \cup InitJobs => job.kind # "status"
    BY DEF AdjustJobs, InitJobs
  <2>2. \A pc, fr, items : NewTx(pc, job, fr, items).job = job
    BY DEF NewTx
  <2>3. ReceiveStatus(r, job) /\ tx'[r] = NewTx("items", job, from, ItemsToMove(from, job))
    BY <1>1, <1>2, <1>4, <2>1, <2>2, KindNone
       DEF Changing, ReceiveStatus, ReceiveAdjust, ReceiveInitialize
  <2>4. /\ tx'[r].pc = "items" /\ tx'[r].job = job /\ tx'[r].from = from
        /\ tx'[r].items = ItemsToMove(from, job)
    BY <2>3 DEF NewTx
  <2>5. \A p \in Requests : Changing(p) => tx[p].job.order # job.order
    BY <2>3 DEF ReceiveStatus, Overlaps, Changing
  <2>6. ASSUME NEW i \in ItemsOf(job.order) PROVE Whole(r, i)'
    <3>1. i \in Items /\ OrderOf[i] = job.order
      BY DEF ItemsOf
    <3>2. Untouched(i)
      BY <2>5, <3>1 DEF Untouched, StockInv, Apart
    <3>3. Untouched(i)'
      BY <1>2, <3>2 DEF Untouched, rowVars
    <3>4. i \in tx'[r].items \/ MovementOf(r)' = "none"
      BY <2>4 DEF ItemsToMove, MovementOf
    <3> QED BY <3>3, <3>4 DEF Whole
  <2> QED BY <2>4, <2>6 DEF Halfway
<1> QED BY <1>2, <1>3, <1>4, LocalStock

\* The first read of an item finds all of it where the status of the order has it.
LEMMA BeginStock ==
    ASSUME Known, StockInv, NEW r \in Requests, NEW i \in Items,
           BeginReserve(r, i) \/ BeginSettle(r, i), IInv'
    PROVE  StockInv'
<1> DEFINE m == MovementOf(r)  to == tx[r].job.to
<1>1. /\ tx \in [Requests -> Transaction] /\ tx[r].pc = "items" /\ i \in tx[r].items
      /\ UNCHANGED <<rowVars, status>> /\ m \in {"reserve", "fulfil", "release"}
      /\ ShapeOK(r) /\ Changing(r) /\ Fresh(r) /\ Halfway(r)
      /\ OrderOf[i] = tx[r].job.order /\ i \in ItemsOf(tx[r].job.order)
  <2>1. /\ tx \in [Requests -> Transaction] /\ tx[r].pc = "items" /\ i \in tx[r].items
        /\ UNCHANGED <<rowVars, status>> /\ m \in {"reserve", "fulfil", "release"}
        /\ ShapeOK(r)
    BY DEF Known, IInv, TxInv, AllocInv, BeginReserve, BeginSettle, orderVars
  <2>2. Changing(r)
    BY <2>1, Movements
  <2>3. i \in ItemsOf(tx[r].job.order)
    BY <2>1, <2>2 DEF ShapeOK
  <2> QED BY <2>1, <2>2, <2>3 DEF Known, SerialInv, StockInv, ItemsOf
<1>2. PICK visits, seen : /\ SetVisit(r, visits, seen, Quantity[i])
                          /\ m # "reserve" => visits = ReservedVisits(r, i)
                          /\ \A a \in visits : a[2] = i
  <2>1. CASE BeginReserve(r, i)
    <3> DEFINE seen == [v \in Rows |-> IF v \in SeenRows(r, i)
                                       THEN Visible(r, v).available ELSE 0]
               visits == {<<r, i, v>> : v \in {w \in Rows : seen[w] > 0}}
    <3>1. m = "reserve" /\ SetVisit(r, visits, seen, Quantity[i])
      BY <2>1 DEF BeginReserve
    <3>2. ASSUME NEW a \in visits PROVE a[2] = i
      <4>1. \E v \in Rows : a = <<r, i, v>>
        OBVIOUS
      <4> QED BY <4>1
    <3> HIDE DEF visits, seen
    <3> QED BY <3>1, <3>2
  <2>2. CASE BeginSettle(r, i)
    <3>1. SetVisit(r, ReservedVisits(r, i), tx[r].seen, Quantity[i])
      BY <2>2 DEF BeginSettle
    <3>2. \A a \in ReservedVisits(r, i) : a[2] = i
      BY DEF ReservedVisits
    <3> QED BY <3>1, <3>2
  <2> QED BY <2>1, <2>2
<1>3. /\ tx'[r].pc = "row" /\ tx'[r].items = tx[r].items /\ tx'[r].job = tx[r].job
      /\ tx'[r].from = tx[r].from /\ tx'[r].remaining = Quantity[i]
      /\ tx'[r].visits = visits \ {tx'[r].at}
      /\ tx'[r].at \in visits \/ tx'[r].at = NoVisit
      /\ \A p \in Requests \ {r} : tx'[p] = tx[p]
  BY <1>1, <1>2, SetVisitFacts
<1>4. m' = m
  BY <1>3 DEF MovementOf
<1>5. Untouched(i) /\ UNCHANGED <<stock, draft>>
  BY <1>1 DEF Halfway, Whole, rowVars
<1>6. ASSUME tx'[r].at # NoVisit PROVE Partial(r, i)'
  <2>1. draft \in [Rows -> Version] /\ stock \in [Rows -> Version]
    BY DEF Known, IInv, RowsInv
  <2>2. \A st : ItemIn(draft, i, st) = ItemIn(stock, i, st)
    BY <1>5, <2>1, ItemInSame DEF Untouched
  <2>3. Agrees(stock, i, tx[r].from) /\ m = Movement(tx[r].from, to)
    BY <1>1, ChangingJob DEF StockInv, Fresh, Known
  <2>4. m = "reserve" => tx[r].from = "PAID"
    BY <2>3, MovementEnds
  <2>5. m # "reserve" => tx[r].from = "PICKING"
    BY <1>1, <2>3, MovementEnds
  <2>6. Quantity[i] \in Nat
    BY ConstantsAssumption
  <2>7. /\ ItemIn(draft, i, "RESERVED") = IF m = "reserve" THEN 0 ELSE Quantity[i]
        /\ ItemIn(draft, i, "FULFILLED") = 0 /\ ItemIn(draft, i, "RELEASED") = 0
    BY <2>2, <2>3, <2>4, <2>5 DEF Agrees
  <2>8. \A st : ItemIn(draft, i, st)' = ItemIn(draft, i, st)
    BY <1>5 DEF ItemIn, ItemRows, InRow
  <2>9. ASSUME m # "reserve", NEW a \in Left(r)'
        PROVE  draft'[a[3]].alloc[<<a[1], a[2]>>].status = "RESERVED"
    <3>1. a \in ReservedVisits(r, i)
      BY <1>2, <1>3, <1>6, <2>9 DEF Left
    <3>2. /\ a[1] \in Requests /\ a[2] = i /\ a[3] \in Rows
          /\ Visible(r, a[3]).alloc[<<a[1], i>>].status = "RESERVED"
      BY <3>1 DEF ReservedVisits, Visits
    <3>3. draft[a[3]].alloc[<<a[1], i>>] = Visible(r, a[3]).alloc[<<a[1], i>>]
      BY <1>5, <3>2 DEF Visible, Untouched
    <3> QED BY <1>5, <3>2, <3>3
  <2> HIDE DEF m
  <2>10. /\ ItemIn(draft, i, "RESERVED")' = IF m = "reserve" THEN Quantity[i] - Quantity[i]
                                            ELSE Quantity[i]
         /\ ItemIn(draft, i, "FULFILLED")' = IF m = "fulfil" THEN Quantity[i] - Quantity[i] ELSE 0
         /\ ItemIn(draft, i, "RELEASED")' = IF m = "release" THEN Quantity[i] - Quantity[i] ELSE 0
    BY <2>6, <2>7, <2>8
  <2> USE DEF m
  <2> QED BY <1>3, <1>4, <2>9, <2>10 DEF Partial
<1>7. ASSUME NEW j \in ItemsOf(tx[r].job.order), j # i PROVE Whole(r, j)'
  <2>1. j \in Items /\ Whole(r, j) /\ SlotsKept(j)
    BY <1>1, <1>5 DEF ItemsOf, Halfway, SlotsKept
  <2> QED BY <1>3, <2>1, WholeKept DEF Known
<1>8. tx'[r].at # NoVisit => tx'[r].at[2] = i
  BY <1>2, <1>3
<1>9. Halfway(r)'
  BY <1>3, <1>6, <1>7, <1>8 DEF Halfway
<1> QED BY <1>1, <1>3, <1>9, LocalStock

\* What a turn of a loop adds to and takes from the statuses of its item.
LEMMA MoveParts ==
    ASSUME Known, StockInv, NEW r \in Requests, MoveRow(r)
    PROVE  LET v == RowAt(r)  id == SlotAt(r)  q == TakeAt(r)  m == MovementOf(r)
               i == tx[r].at[2]
               more(st) == Part(draft'[v], st)[id] - Part(draft[v], st)[id]
           IN  /\ Changing(r) /\ Fresh(r) /\ i \in ItemsOf(tx[r].job.order) /\ i \in tx[r].items
               /\ Partial(r, i)
               /\ more("RESERVED") = IF m = "reserve" THEN q ELSE -q
               /\ more("FULFILLED") = IF m = "fulfil" THEN q ELSE 0
               /\ more("RELEASED") = IF m = "release" THEN q ELSE 0
               /\ m = "reserve" => q <= tx[r].remaining
<1> DEFINE v == RowAt(r)  id == SlotAt(r)  q == TakeAt(r)  s == draft[v]  n == draft'[v]
           m == MovementOf(r)  i == tx[r].at[2]
           x == [status |-> Result(m), quantity |-> IF m = "reserve" THEN q ELSE s.alloc[id].quantity]
<1>1. /\ tx[r].pc = "row" /\ tx[r].at # NoVisit /\ ShapeOK(r) /\ tx[r] \in Transaction
      /\ v = tx[r].at[3] /\ id = <<tx[r].at[1], tx[r].at[2]>>
  BY DEF Known, IInv, TxInv, AllocInv, MoveRow, RowAt, SlotAt
<1>2. /\ v \in Rows /\ id \in Slots /\ s \in Version /\ n \in Version /\ q \in Nat
      /\ id[2] = i /\ m \in {"reserve", "fulfil", "release"} /\ Changing(r)
      /\ m # "reserve" => q = Visible(r, v).alloc[id].quantity
      /\ CanLock(r, v) /\ n.alloc = [s.alloc EXCEPT ![id] = x]
  BY SMTT(30), MoveFacts DEF Known
<1>3. /\ i \in tx[r].items /\ i \in ItemsOf(tx[r].job.order) /\ Fresh(r) /\ Halfway(r)
  BY <1>1, <1>2 DEF ShapeOK, Known, SerialInv, StockInv
<1>4. Partial(r, i)
  BY <1>1, <1>3 DEF Halfway
<1>5. Visible(r, v) = s
  <2>1. owner[v] = Free => draft[v] = stock[v]
    BY <1>2 DEF Known, LocksEndWithTransaction
  <2> QED BY <1>2, <2>1 DEF CanLock, Visible
<1>6. s.alloc[id] \in Allocation /\ n.alloc[id] = x
  BY <1>2 DEF Version
<1>7. \A st : /\ Part(s, st)[id] = IF s.alloc[id].status = st THEN s.alloc[id].quantity ELSE 0
              /\ Part(n, st)[id] = IF x.status = st THEN x.quantity ELSE 0
  BY <1>2, <1>6 DEF Part
<1>8. m = "reserve" => q <= tx[r].remaining
  <2>1. \A a, b \in Int : Least(a, b) <= a
    BY SMTT(30) DEF Least
  <2>2. tx[r].remaining \in Int /\ tx[r].seen[v] \in Int
    BY <1>1, <1>2 DEF Transaction
  <2> QED BY <2>1, <2>2 DEF TakeAt
<1>9. CASE m = "reserve"
  <2>1. s.alloc[id].quantity = 0
    BY <1>9, MoveBlank DEF Known
  <2>2. \A st : Part(s, st)[id] = 0
    BY <1>7, <2>1
  <2>3. x.status = "RESERVED" /\ x.quantity = q
    BY <1>9 DEF Result
  <2> HIDE DEF v, id, q, s, n, m, x, i
  <2>4. /\ Part(n, "RESERVED")[id] = q /\ Part(n, "FULFILLED")[id] = 0
        /\ Part(n, "RELEASED")[id] = 0
    BY <1>7, <2>3
  <2>5. /\ Part(n, "RESERVED")[id] - Part(s, "RESERVED")[id] = q
        /\ Part(n, "FULFILLED")[id] - Part(s, "FULFILLED")[id] = 0
        /\ Part(n, "RELEASED")[id] - Part(s, "RELEASED")[id] = 0
    BY <1>2, <2>2, <2>4
  <2> QED BY <1>2, <1>3, <1>4, <1>8, <1>9, <2>5 DEF v, id, q, s, n, m, i
<1>10. CASE m # "reserve"
  <2>1. s.alloc[id].status = "RESERVED" /\ s.alloc[id].quantity = q
    <3>1. tx[r].at \in Left(r)
      BY DEF Left
    <3>2. draft[tx[r].at[3]].alloc[<<tx[r].at[1], tx[r].at[2]>>].status = "RESERVED"
      BY <1>4, <1>10, <3>1 DEF Partial
    <3>3. s.alloc[id].status = "RESERVED"
      BY <1>1, <3>2
    <3>4. s.alloc[id].quantity = q
      BY <1>2, <1>5, <1>10
    <3> QED BY <3>3, <3>4
  <2>2. x.quantity = q /\ x.status = IF m = "fulfil" THEN "FULFILLED" ELSE "RELEASED"
    BY <1>10, <2>1 DEF Result
  <2> HIDE DEF v, id, q, s, n, m, x, i
  <2>3. /\ Part(s, "RESERVED")[id] = q /\ Part(s, "FULFILLED")[id] = 0
        /\ Part(s, "RELEASED")[id] = 0
    BY <1>7, <2>1
  <2>4. /\ Part(n, "RESERVED")[id] = 0
        /\ Part(n, "FULFILLED")[id] = IF m = "fulfil" THEN q ELSE 0
        /\ Part(n, "RELEASED")[id] = IF m = "release" THEN q ELSE 0
    BY <1>2, <1>7, <1>10, <2>2
  <2>5. /\ Part(n, "RESERVED")[id] - Part(s, "RESERVED")[id] = -q
        /\ Part(n, "FULFILLED")[id] - Part(s, "FULFILLED")[id] = IF m = "fulfil" THEN q ELSE 0
        /\ Part(n, "RELEASED")[id] - Part(s, "RELEASED")[id] = IF m = "release" THEN q ELSE 0
    BY <1>2, <2>3, <2>4
  <2> QED BY <1>2, <1>3, <1>4, <1>8, <1>10, <2>5 DEF v, id, q, s, n, m, i
<1> QED BY <1>9, <1>10

\* A turn of a loop: what is moved and what is left still make up the item, and when
\* nothing is left the item is where the change takes it.
LEMMA MoveHalfway ==
    ASSUME Known, StockInv, NEW r \in Requests, MoveRow(r), IInv'
    PROVE  /\ Halfway(r)'
           /\ tx'[r].job = tx[r].job /\ tx'[r].from = tx[r].from
           /\ \A p \in Requests \ {r} : tx'[p] = tx[p]
<1>0. PICK i : i = tx[r].at[2]
  OBVIOUS
<1> DEFINE v == RowAt(r)  id == SlotAt(r)  q == TakeAt(r)  m == MovementOf(r)
           left == tx[r].remaining - q  o == tx[r].job.order
           now(st) == ItemIn(draft, i, st)  then(st) == ItemIn(draft', i, st)
<1>1. /\ tx[r].pc = "row" /\ tx[r].at # NoVisit /\ ShapeOK(r) /\ tx[r] \in Transaction
      /\ tx \in [Requests -> Transaction]
      /\ v = tx[r].at[3] /\ id = <<tx[r].at[1], tx[r].at[2]>> /\ Halfway(r)
      /\ tx[r].at \notin tx[r].visits /\ tx[r].at \in Visits /\ i = tx[r].at[2]
      /\ draft \in [Rows -> Version] /\ draft' \in [Rows -> Version]
  <2>1. Changing(r)
    BY MoveParts
  <2> QED BY <1>0, <2>1 DEF Known, IInv, TxInv, RowsInv, AllocInv, MoveRow, RowAt, SlotAt, ShapeOK,
             StockInv, Transaction
<1>2. /\ v \in Rows /\ id \in Slots /\ q \in Nat /\ draft[v] \in Version /\ draft'[v] \in Version
      /\ id[2] = i /\ m \in {"reserve", "fulfil", "release"} /\ UNCHANGED stock
      /\ \A w \in Rows \ {v} : draft'[w] = draft[w]
      /\ draft'[v].alloc = [draft[v].alloc EXCEPT ![id] =
                                [status |-> Result(m),
                                 quantity |-> IF m = "reserve" THEN q
                                              ELSE draft[v].alloc[id].quantity]]
  BY <1>0, MoveFacts DEF Known
<1>3. /\ i \in ItemsOf(o) /\ i \in tx[r].items /\ Partial(r, i) /\ Changing(r) /\ Fresh(r)
      /\ m = "reserve" => q <= tx[r].remaining
  BY <1>0, MoveParts
<1>4. i \in Items /\ tx[r].remaining \in Int /\ Quantity[i] \in Nat
  BY <1>1, <1>3, ConstantsAssumption DEF ItemsOf, Transaction
<1>5. \A st : now(st) \in Nat /\ then(st) \in Nat
  BY <1>1, <1>4, ItemInType
<1>6. /\ then("RESERVED") = now("RESERVED") + (IF m = "reserve" THEN q ELSE -q)
      /\ then("FULFILLED") = now("FULFILLED") + (IF m = "fulfil" THEN q ELSE 0)
      /\ then("RELEASED") = now("RELEASED") + (IF m = "release" THEN q ELSE 0)
  <2> DEFINE a(st) == Part(draft[v], st)[id]  b(st) == Part(draft'[v], st)[id]
  <2>1. /\ b("RESERVED") - a("RESERVED") = IF m = "reserve" THEN q ELSE -q
        /\ b("FULFILLED") - a("FULFILLED") = IF m = "fulfil" THEN q ELSE 0
        /\ b("RELEASED") - a("RELEASED") = IF m = "release" THEN q ELSE 0
    BY MoveParts
  <2>2. \A st : a(st) \in Int /\ b(st) \in Int
    BY <1>2, PartType
  <2>3. ASSUME NEW st PROVE then(st) = now(st) - a(st) + b(st)
    <3>1. \A y \in Slots \ {id} : draft'[v].alloc[y] = draft[v].alloc[y]
      BY SMTT(30), <1>2 DEF Version
    <3>2. Wrote(draft, draft', v, id)
      BY <1>1, <1>2, <3>1 DEF Wrote
    <3>3. ItemIn(draft', id[2], st)
            = ItemIn(draft, id[2], st) - Part(draft[v], st)[id] + Part(draft'[v], st)[id]
      BY <3>2, ItemInWrite
    <3> QED BY <1>2, <3>3
  <2> HIDE DEF v, id, q, m, a, b, now, then
  <2> QED BY <1>2, <1>5, <2>1, <2>2, <2>3
<1>7. /\ now("RESERVED") = IF m = "reserve" THEN Quantity[i] - tx[r].remaining ELSE tx[r].remaining
      /\ now("FULFILLED") = IF m = "fulfil" THEN Quantity[i] - tx[r].remaining ELSE 0
      /\ now("RELEASED") = IF m = "release" THEN Quantity[i] - tx[r].remaining ELSE 0
      /\ m # "reserve" =>
          \A a \in Left(r) : draft[a[3]].alloc[<<a[1], a[2]>>].status = "RESERVED"
  BY <1>3 DEF Partial
<1>8. left \in Int
      /\ then("RESERVED") = (IF m = "reserve" THEN Quantity[i] - left ELSE left)
      /\ then("FULFILLED") = (IF m = "fulfil" THEN Quantity[i] - left ELSE 0)
      /\ then("RELEASED") = (IF m = "release" THEN Quantity[i] - left ELSE 0)
  <2>1. now("RESERVED") \in Int /\ now("FULFILLED") \in Int /\ now("RELEASED") \in Int
    BY <1>5
  <2>2. q \in Int /\ tx[r].remaining \in Int /\ Quantity[i] \in Int
    BY <1>2, <1>4
  <2> HIDE DEF v, id, q, m, now, then
  <2>3. CASE m = "reserve"
    BY <1>6, <1>7, <2>1, <2>2, <2>3
  <2>4. CASE m = "fulfil"
    BY <1>6, <1>7, <2>1, <2>2, <2>4
  <2>5. CASE m = "release"
    BY <1>6, <1>7, <2>1, <2>2, <2>5
  <2> QED BY <1>2, <2>3, <2>4, <2>5
<1>9. ASSUME NEW j \in ItemsOf(o), j # i PROVE j \in Items /\ SlotsKept(j) /\ Whole(r, j)
  <2>1. j \in Items /\ Whole(r, j)
    BY <1>1, <1>9 DEF ItemsOf, Halfway
  <2>2. \A p \in Requests : <<p, j>> # id /\ <<p, j>> \in Slots
    BY <1>2, <1>9, <2>1 DEF Slots
  <2>3. draft[v].alloc \in [Slots -> Allocation]
    BY <1>2 DEF Version
  <2>4. \A p \in Requests : draft'[v].alloc[<<p, j>>] = draft[v].alloc[<<p, j>>]
    BY <1>2, <2>2, <2>3
  <2> HIDE DEF v
  <2> QED BY <1>2, <2>1, <2>4 DEF SlotsKept
<1>10. CASE left <= 0
  <2>1. tx' = [tx EXCEPT ![r] = NewTx("items", tx[r].job, tx[r].from, tx[r].items \ {i})]
    BY <1>1, <1>10 DEF MoveRow
  <2>2. /\ tx'[r].pc = "items" /\ tx'[r].job = tx[r].job /\ tx'[r].from = tx[r].from
        /\ tx'[r].items = tx[r].items \ {i} /\ \A p \in Requests \ {r} : tx'[p] = tx[p]
    BY <1>1, <2>1 DEF NewTx
  <2>3. MovementOf(r)' = m
    BY <2>2 DEF MovementOf
  <2>4. Whole(r, i)'
    <3>1. m = Movement(tx[r].from, tx[r].job.to)
      BY <1>3, ChangingJob DEF Known
    <3>2. /\ m = "reserve" => tx[r].job.to = "PICKING"
          /\ m = "fulfil" => tx[r].job.to = "SHIPPED"
          /\ m = "release" => tx[r].job.to = "CANCELLED"
      BY <3>1, MovementEnds
    <3>3. left = 0
      <4> HIDE DEF v, m, now, then, left, q
      <4>1. CASE m = "reserve"
        <5>1. left >= 0
          BY <1>2, <1>3, <1>4, <4>1 DEF left
        <5> QED BY <1>8, <1>10, <5>1
      <4>2. CASE m # "reserve"
        BY <1>5, <1>8, <1>10, <4>2
      <4> QED BY <4>1, <4>2
    <3>4. /\ then("RESERVED") = IF m = "reserve" THEN Quantity[i] ELSE 0
          /\ then("FULFILLED") = IF m = "fulfil" THEN Quantity[i] ELSE 0
          /\ then("RELEASED") = IF m = "release" THEN Quantity[i] ELSE 0
      <4> HIDE DEF v, m, now, then, left, q
      <4> QED BY <1>4, <1>8, <3>3
    <3>5. Agrees(draft', i, tx[r].job.to)
      <4> HIDE DEF v, m, left, q
      <4> QED BY <1>2, <3>2, <3>4 DEF Agrees
    <3>6. Agrees(draft, i, tx[r].job.to)'
      BY <2>2, <3>5 DEF Agrees, ItemIn, ItemRows, InRow
    <3> QED BY <1>2, <2>2, <2>3, <3>6 DEF Whole
  <2>5. ASSUME NEW j \in ItemsOf(o), j # i PROVE Whole(r, j)'
    BY <1>9, <2>2, <2>5, WholeKept DEF Known
  <2> QED BY <2>2, <2>4, <2>5 DEF Halfway
<1>11. CASE ~(left <= 0)
  <2>1. SetVisit(r, tx[r].visits, tx[r].seen, left)
    BY <1>11 DEF MoveRow
  <2>2. /\ tx'[r].pc = "row" /\ tx'[r].items = tx[r].items /\ tx'[r].job = tx[r].job
        /\ tx'[r].from = tx[r].from /\ tx'[r].remaining = left
        /\ tx'[r].visits = tx[r].visits \ {tx'[r].at}
        /\ tx'[r].at \in tx[r].visits \/ tx'[r].at = NoVisit
        /\ \A p \in Requests \ {r} : tx'[p] = tx[p]
    <3> HIDE DEF left
    <3> QED BY <1>1, <2>1, SetVisitFacts
  <2>3. MovementOf(r)' = m
    BY <2>2 DEF MovementOf
  <2>4. ASSUME tx'[r].at # NoVisit PROVE tx'[r].at[2] = i /\ Partial(r, i)'
    <3>1. ASSUME NEW a \in Left(r)'
          PROVE  /\ a \in Visits /\ a \in Left(r) /\ a # tx[r].at /\ a[2] = i
    <4>1. a \in tx[r].visits
      BY <2>2, <2>4 DEF Left
    <4> QED BY <1>1, <4>1 DEF Left, ShapeOK, Transaction
    <3>2. ASSUME m # "reserve", NEW a \in Left(r)'
          PROVE  draft'[a[3]].alloc[<<a[1], a[2]>>].status = "RESERVED"
      <4>1. /\ a \in Visits /\ a # tx[r].at /\ draft[a[3]].alloc[<<a[1], a[2]>>].status = "RESERVED"
        BY <1>7, <3>1, <3>2
      <4>2. a = <<a[1], a[2], a[3]>> /\ tx[r].at = <<tx[r].at[1], tx[r].at[2], tx[r].at[3]>>
            /\ a[3] \in Rows /\ <<a[1], a[2]>> \in Slots
        BY <1>1, <4>1 DEF Visits, Slots
      <4>3. a[3] # v \/ <<a[1], a[2]>> # id
        BY <1>1, <4>1, <4>2
      <4>4. draft[v].alloc \in [Slots -> Allocation]
        BY <1>2 DEF Version
      <4>5. draft'[a[3]].alloc[<<a[1], a[2]>>] = draft[a[3]].alloc[<<a[1], a[2]>>]
        <5>1. CASE a[3] = v
          BY <1>2, <4>2, <4>3, <4>4, <5>1
        <5>2. CASE a[3] # v
          BY <1>2, <4>2, <5>2
        <5> QED BY <5>1, <5>2
      <4> QED BY <4>1, <4>5
    <3>3. \A st : ItemIn(draft, i, st)' = then(st)
      BY <2>2, <2>4, <3>1 DEF ItemIn, ItemRows, InRow, Left
    <3>4. tx'[r].at[2] = i
      BY <3>1 DEF Left
    <3>5. /\ ItemIn(draft, i, "RESERVED")' = IF m = "reserve" THEN Quantity[i] - left ELSE left
          /\ ItemIn(draft, i, "FULFILLED")' = IF m = "fulfil" THEN Quantity[i] - left ELSE 0
          /\ ItemIn(draft, i, "RELEASED")' = IF m = "release" THEN Quantity[i] - left ELSE 0
      BY <1>8, <3>3
    <3> HIDE DEF left
    <3> QED BY <2>2, <2>3, <3>2, <3>4, <3>5 DEF Partial
  <2>5. ASSUME NEW j \in ItemsOf(o), j # i PROVE Whole(r, j)'
    BY <1>9, <2>2, <2>5, WholeKept DEF Known
  <2> QED BY <2>2, <2>4, <2>5 DEF Halfway
<1> QED BY <1>10, <1>11

\* A turn of the reserve, fulfil or release loop keeps the invariant.
LEMMA MoveStock ==
    ASSUME Known, StockInv, NEW r \in Requests, MoveRow(r), IInv'
    PROVE  StockInv'
<1>0. PICK v : v = RowAt(r)
  OBVIOUS
<1> DEFINE id == SlotAt(r)  q == TakeAt(r)  m == MovementOf(r)
           s == draft[v]  n == draft'[v]  i == tx[r].at[2]
           x == [status |-> Result(m),
                 quantity |-> IF m = "reserve" THEN q ELSE s.alloc[id].quantity]
<1>1. /\ v \in Rows /\ id \in Slots /\ q \in Nat /\ s \in Version /\ n \in Version
      /\ id[2] = i /\ m \in {"reserve", "fulfil", "release"} /\ Changing(r)
      /\ CanLock(r, v) /\ owner' = [owner EXCEPT ![v] = r] /\ owner'[v] = r
      /\ UNCHANGED <<stock, status>>
      /\ \A w \in Rows \ {v} : draft'[w] = draft[w]
      /\ n.alloc = [s.alloc EXCEPT ![id] = x]
      /\ n.locked = s.locked + (IF m = "reserve" THEN q ELSE -q)
      /\ n.available = s.available + (IF m = "reserve" THEN -q
                                      ELSE IF m = "fulfil" THEN 0 ELSE q)
  BY <1>0, MoveFacts DEF Known
<1>2. /\ i \in ItemsOf(tx[r].job.order)
      /\ Part(n, "RESERVED")[id] - Part(s, "RESERVED")[id] = IF m = "reserve" THEN q ELSE -q
  BY <1>0, MoveParts
<1>3. /\ Halfway(r)' /\ tx'[r].job = tx[r].job /\ tx'[r].from = tx[r].from
      /\ \A p \in Requests \ {r} : tx'[p] = tx[p]
  BY MoveHalfway
<1>4. s.locked \in Int /\ s.available \in Int /\ s.alloc \in [Slots -> Allocation]
  BY <1>1 DEF Version
<1>5. LockedOK(v, n)
  <2>1. Part(n, "RESERVED")[id] \in Int /\ Part(s, "RESERVED")[id] \in Int
    BY <1>1, PartType
  <2>2. n.locked = s.locked - Part(s, "RESERVED")[id] + Part(n, "RESERVED")[id]
    <3> HIDE DEF id, q, m, s, n, x
    <3> QED BY <1>1, <1>2, <1>4, <2>1
  <2>3. LockedOK(v, s)
    BY <1>1 DEF StockInv
  <2> HIDE DEF id, q, m, s, n, x
  <2> QED BY <1>1, <2>2, <2>3, LockedWrite
<1>6. ASSUME NEW j \in Items, NEW p \in Requests
      PROVE  \/ n.alloc[<<p, j>>] = s.alloc[<<p, j>>]
             \/ Changing(r) /\ OrderOf[j] = tx[r].job.order
  <2>1. CASE j = i
    BY <1>1, <1>2, <2>1 DEF ItemsOf
  <2>2. CASE j # i
    <3>1. <<p, j>> # id /\ <<p, j>> \in Slots
      BY <1>1, <2>2 DEF Slots
    <3> HIDE DEF id, s, n, x
    <3> QED BY <1>1, <1>4, <3>1
  <2> QED BY <2>1, <2>2
<1>7. Kept(v)'
  <2>1. owner[v] = Free => s = stock[v]
    BY <1>1 DEF Known, LocksEndWithTransaction
  <2>2. Kept(v)
    BY <1>1 DEF StockInv
  <2>3. stock[v].locked \in Int /\ stock[v].available \in Int
    BY <1>1 DEF Known, IInv, RowsInv, Version
  <2>4. /\ m \in {"reserve", "release"} =>
              s.available + s.locked = stock[v].available + stock[v].locked
        /\ m = "fulfil" => s.available = stock[v].available
    BY <1>1, <2>1, <2>2 DEF Kept, CanLock
  <2>5. /\ m \in {"reserve", "release"} =>
              n.available + n.locked = stock[v].available + stock[v].locked
        /\ m = "fulfil" => n.available = stock[v].available
    <3> HIDE DEF id, q, m, s, n, x
    <3> QED BY <1>1, <1>4, <2>3, <2>4
  <2>6. MovementOf(r)' = m
    BY <1>3 DEF MovementOf
  <2> QED BY <1>1, <2>5, <2>6 DEF Kept
<1> QED
  BY <1>1, <1>3, <1>5, <1>6, <1>7, WriteStock

\* The guarded update of adjust and the insert of initialize keep it: they change no
\* locked quantity.
LEMMA InventoryStock ==
    ASSUME Known, StockInv, NEW r \in Requests, AdjustRow(r) \/ CreateRow(r), IInv'
    PROVE  StockInv'
<1>1. PICK v : v = tx[r].job.row
  OBVIOUS
<1>2. /\ v \in Rows /\ ~Changing(r) /\ ~Changing(r)' /\ CanLock(r, v)
      /\ owner' = [owner EXCEPT ![v] = r] /\ UNCHANGED <<stock, status>>
      /\ \A w \in Rows \ {v} : draft'[w] = draft[w]
      /\ draft'[v].alloc = draft[v].alloc /\ draft'[v].locked = draft[v].locked
      /\ tx'[r].job = tx[r].job /\ \A p \in Requests \ {r} : tx'[p] = tx[p]
  BY <1>1, AllocInventory DEF Known
<1>3. /\ draft[v] \in Version /\ draft'[v] \in Version /\ owner'[v] = r
      /\ LockedOK(v, draft[v]) /\ Kept(v)
      /\ owner[v] = Free => draft[v] = stock[v]
  BY <1>2 DEF Known, IInv, RowsInv, StockInv, LocksEndWithTransaction
<1>4. LockedOK(v, draft'[v])
  BY <1>2, <1>3, LockedFrame
<1>5. MovementOf(r) = "none" /\ MovementOf(r)' = "none"
  BY <1>2 DEF MovementOf, Changing
<1>6. draft[v].alloc = stock[v].alloc /\ draft[v].locked = stock[v].locked
  BY SMTT(30), <1>2, <1>3, <1>5 DEF CanLock, Kept
<1>7. Kept(v)'
  BY <1>1, <1>2, <1>3, <1>5, <1>6 DEF Kept
<1> QED BY <1>2, <1>4, <1>7, WriteStock

\* The database as it is found has nothing reserved, and no order is in picking.
LEMMA StockInit == Init => StockInv
<1> SUFFICES ASSUME Init PROVE StockInv
  OBVIOUS
<1>1. /\ draft = stock /\ status = OpeningStatus
      /\ \A v \in Rows : stock[v] = OpeningVersion(v) /\ owner[v] = Free
      /\ \A r \in Requests : tx[r] = Idle
      /\ Free \notin Requests
  BY ConstantsAssumption DEF Init
<1>2. ASSUME NEW v \in Rows
      PROVE  LockedOK(v, stock[v]) /\ LockedOK(v, draft[v]) /\ Kept(v)
  <2>1. \A i \in Items : HeldOf(OpeningVersion(v))[i] = 0
    BY OpeningInRow DEF HeldOf
  <2>2. SumFunctionOnSet(HeldOf(OpeningVersion(v)), Items) = 0
    BY <2>1, FiniteAssumption, SumZero
  <2>3. OpeningVersion(v).locked = OpeningStock[v].locked /\ OpeningStock[v].locked \in Int
    BY ConstantsAssumption DEF OpeningVersion
  <2>4. LockedOK(v, OpeningVersion(v))
    BY <2>2, <2>3 DEF LockedOK
  <2> QED BY <1>1, <2>4 DEF Kept
<1>3. ASSUME NEW i \in Items PROVE Agrees(stock, i, status[OrderOf[i]])
  <2>1. \A st : \A v \in Rows : ItemRows(stock, i, st)[v] = 0
    BY <1>1, OpeningInRow DEF ItemRows
  <2>2. \A st : ItemIn(stock, i, st) = 0
    BY <2>1, FiniteAssumption, SumZero DEF ItemIn
  <2>3. status[OrderOf[i]] \in {"PENDING_PAYMENT", "PAID"}
    BY <1>1, ConstantsAssumption
  <2> QED BY <2>2, <2>3 DEF Agrees
<1>4. \A r \in Requests : ~Changing(r)
  BY <1>1, KindNone DEF Changing
<1>5. Apart
  BY <1>1 DEF Apart
<1> QED BY <1>2, <1>3, <1>4, <1>5 DEF StockInv

\* Every step keeps the invariant.
LEMMA StockNext ==
    ASSUME OneAtATime = TRUE, Known, StockInv, [Next]_vars, IInv'
    PROVE  StockInv'
<1>1. CASE UNCHANGED vars
  <2>1. UNCHANGED <<rowVars, status, tx>>
    BY <1>1 DEF vars, rowVars
  <2>2. CASE Requests = {}
    <3>1. UNCHANGED <<stock, draft, owner, status>> /\ \A v \in Rows : owner[v] \notin Requests
      BY <2>1, <2>2 DEF rowVars
    <3>2. \A v \in Rows : LockedOK(v, stock'[v]) /\ LockedOK(v, draft'[v])
      BY <3>1 DEF StockInv
    <3>3. \A i \in Items : Agrees(stock', i, status'[OrderOf[i]])
      BY <3>1 DEF StockInv
    <3>4. \A v \in Rows : LockedOK(v, stock[v])' /\ LockedOK(v, draft[v])'
      BY <3>2 DEF LockedOK, HeldOf, InRow
    <3>5. \A i \in Items : Agrees(stock, i, status[OrderOf[i]])'
      BY <3>3 DEF Agrees, ItemIn, ItemRows, InRow
    <3> QED BY <2>2, <3>1, <3>4, <3>5 DEF StockInv, Apart, Kept
  <2>3. CASE Requests # {}
    <3>1. PICK r \in Requests : TRUE
      BY <2>3
    <3>2. Changing(r)' => Halfway(r)'
      <4>1. SUFFICES ASSUME Changing(r)' PROVE Halfway(r)'
        OBVIOUS
      <4>2. tx'[r] = tx[r] /\ Changing(r) /\ ShapeOK(r) /\ Halfway(r)
        BY <2>1, <4>1 DEF Changing, StockInv, Known, AllocInv
      <4>3. \A i \in ItemsOf(tx[r].job.order) : SlotsKept(i)
        BY <2>1 DEF SlotsKept, rowVars
      <4> QED BY <4>2, <4>3, HalfwayKept DEF Known
    <3> QED BY <2>1, <3>2, LocalStock
  <2> QED BY <2>2, <2>3
<1>2. CASE Next
  <2>1. PICK r \in Requests :
              \/ Receive(r) \/ Rollback(r) \/ CommitStatus(r) \/ CommitStock(r)
              \/ MoveRow(r) \/ AdjustRow(r) \/ CreateRow(r)
              \/ \E i \in Items : BeginReserve(r, i) \/ BeginSettle(r, i)
    BY <1>2, Steps
  <2>2. CASE Rollback(r) \/ CommitStatus(r) \/ CommitStock(r)
    BY <2>2, RollbackStock, CommitStatusStock, CommitStockStock
  <2>3. CASE Receive(r) \/ MoveRow(r) \/ AdjustRow(r) \/ CreateRow(r)
    BY <2>3, ReceiveStock, MoveStock, InventoryStock
  <2>4. CASE \E i \in Items : BeginReserve(r, i) \/ BeginSettle(r, i)
    BY <2>4, BeginStock
  <2> QED BY <2>1, <2>2, <2>3, <2>4
<1> QED BY <1>1, <1>2

\* StockInv holds along every behaviour without overlapping changes of one order.
LEMMA StockAlways ==
    ASSUME OneAtATime = TRUE
    PROVE  Spec => [](Known /\ StockInv)
<1>1. Init => IInv /\ SerialInv /\ StockInv
  BY InitInv, InitSerial, StockInit
<1>2. IInv /\ AllocInv /\ LocksEndWithTransaction /\ SerialInv /\ StockInv /\ [Next]_vars
        => SerialInv' /\ StockInv'
  BY NextInv, NextSerial, StockNext DEF Known
<1>3. IInv /\ AllocInv /\ LocksEndWithTransaction /\ SerialInv => Known
  BY DEF Known
<1> QED BY <1>1, <1>2, <1>3, Invariance, AllocAlways, LocksReleased, PTL DEF Spec

\* As long as no two status changes of one order overlap, a row keeps locked exactly what
\* the orders in picking have reserved on it, whatever the requests of different orders
\* and the inventory requests do to each other.
THEOREM LockedAccounted ==
    ASSUME OneAtATime = TRUE
    PROVE  Spec => []LockedMatchesReserved
<1>1. StockInv => LockedMatchesReserved
  <2> SUFFICES ASSUME StockInv, NEW v \in Rows
               PROVE  stock[v].locked = OpeningStock[v].locked
                        + SumFunction([i \in Items |-> InRow(stock[v], i, "RESERVED")])
    BY DEF LockedMatchesReserved
  <2>1. SumFunctionOnSet(HeldOf(stock[v]), Items)
          = SumFunction([i \in Items |-> InRow(stock[v], i, "RESERVED")])
    BY DEF HeldOf, SumFunction
  <2> QED BY <2>1 DEF StockInv, LockedOK
<1> QED BY <1>1, StockAlways, PTL

\* And the allocations of an order say the same as its status: everything it ordered is
\* reserved while it is picked, consumed once it is shipped and given back when picking
\* is cancelled.
THEOREM AllocationsFollowStatus ==
    ASSUME OneAtATime = TRUE
    PROVE  Spec => []OrderStockAgrees
<1>1. StockInv => OrderStockAgrees
  BY AllocatedIsItemIn DEF StockInv, Agrees, OrderStockAgrees
<1> QED BY <1>1, StockAlways, PTL

\* So a cancelled order holds no reserved stock.
THEOREM CancelledOrdersRelease ==
    ASSUME OneAtATime = TRUE
    PROVE  Spec => []CancelledHoldsNoStock
<1>1. StockInv => CancelledHoldsNoStock
  BY AllocatedIsItemIn DEF StockInv, Agrees, CancelledHoldsNoStock
<1> QED BY <1>1, StockAlways, PTL

-----------------------------------------------------------------------------
(***************************************************************************)
(* The transactions implement the ledger: the commit of a status change is *)
(* its operation, the commit of an inventory request restates one row, and *)
(* no other step shows.                                                    *)
(***************************************************************************)
\* The units of every row set aside for every item, in a table.
HeldIn(T) == [i \in Items |-> [v \in Rows |-> InRow(T[v], i, "RESERVED")]]

\* The ledger's sums are this module's.
LEMMA LedgerSums ==
    ASSUME NEW f
    PROVE  Ledger!SumFunction(f) = SumFunctionOnSet(f, DOMAIN f)
<1>1. Ledger!SumFunction(f) = Ledger!SumFunctionOnSet(f, DOMAIN f)
  BY DEF Ledger!SumFunction
<1>2. Ledger!SumFunctionOnSet(f, DOMAIN f) = SumFunctionOnSet(f, DOMAIN f)
  BY DEF Ledger!SumFunctionOnSet, Ledger!FoldFunctionOnSet, Ledger!MapThenFoldSet,
         SumFunctionOnSet, FoldFunctionOnSet, MapThenFoldSet
<1> QED BY <1>1, <1>2

\* What an order holds of a row, as the ledger sums it up.
LEMMA HeldByOrder ==
    ASSUME NEW T \in [Rows -> Version], NEW o, NEW v \in Rows
    PROVE  /\ Ledger!HeldBy(o, HeldIn(T), v) = SumFunctionOnSet(HeldOf(T[v]), ItemsOf(o))
           /\ SumFunctionOnSet(HeldOf(T[v]), ItemsOf(o)) \in Int
<1> DEFINE f == [i \in ItemsOf(o) |-> HeldIn(T)[i][v]]
<1>1. ItemsOf(o) \subseteq Items /\ IsFiniteSet(ItemsOf(o)) /\ Ledger!ItemsOf(o) = ItemsOf(o)
  BY FiniteAssumption, FS_Subset DEF ItemsOf, Ledger!ItemsOf
<1>2. \A i \in ItemsOf(o) : f[i] = HeldOf(T[v])[i]
  BY <1>1 DEF HeldIn, HeldOf
<1>3. \A i \in ItemsOf(o) : HeldOf(T[v])[i] \in Int
  BY <1>1, InRowType DEF HeldOf
<1>4. Ledger!HeldBy(o, HeldIn(T), v) = SumFunctionOnSet(f, ItemsOf(o))
  <2>1. Ledger!HeldBy(o, HeldIn(T), v) = Ledger!SumFunction(f)
    BY <1>1 DEF Ledger!HeldBy
  <2>2. DOMAIN f = ItemsOf(o)
    OBVIOUS
  <2> HIDE DEF f
  <2> QED BY <2>1, <2>2, LedgerSums
<1> HIDE DEF f
<1> QED BY <1>1, <1>2, <1>3, <1>4, SumSame, SumType

\* What a row has locked changes by what the order holds of it when no other order's
\* items change.
LEMMA LockedByOrder ==
    ASSUME NEW T \in [Rows -> Version], NEW U \in [Rows -> Version], NEW o, NEW v \in Rows,
           LockedOK(v, T[v]), LockedOK(v, U[v]),
           \A i \in Items \ ItemsOf(o) : HeldOf(U[v])[i] = HeldOf(T[v])[i]
    PROVE  U[v].locked = T[v].locked + Ledger!HeldBy(o, HeldIn(U), v)
                                     - Ledger!HeldBy(o, HeldIn(T), v)
<1> DEFINE mine == ItemsOf(o)  rest == Items \ ItemsOf(o)
           f == HeldOf(T[v])  g == HeldOf(U[v])
<1>1. /\ IsFiniteSet(mine) /\ IsFiniteSet(rest) /\ mine \cap rest = {} /\ mine \cup rest = Items
  BY FiniteAssumption, FS_Subset DEF ItemsOf
<1>2. \A i \in Items : f[i] \in Int /\ g[i] \in Int
  BY InRowType DEF HeldOf
<1>3. T[v].locked = OpeningStock[v].locked + SumFunctionOnSet(f, Items)
      /\ U[v].locked = OpeningStock[v].locked + SumFunctionOnSet(g, Items)
      /\ OpeningStock[v].locked \in Int
  BY ConstantsAssumption DEF LockedOK
<1>4. \A i \in rest : g[i] = f[i]
  OBVIOUS
<1>5. /\ Ledger!HeldBy(o, HeldIn(T), v) = SumFunctionOnSet(f, mine)
      /\ Ledger!HeldBy(o, HeldIn(U), v) = SumFunctionOnSet(g, mine)
      /\ SumFunctionOnSet(f, mine) \in Int /\ SumFunctionOnSet(g, mine) \in Int
  BY HeldByOrder
<1> HIDE DEF mine, rest, f, g
<1>6. /\ SumFunctionOnSet(f, Items) = SumFunctionOnSet(f, mine) + SumFunctionOnSet(f, rest)
      /\ SumFunctionOnSet(g, Items) = SumFunctionOnSet(g, mine) + SumFunctionOnSet(g, rest)
  BY <1>1, <1>2, SumSplit
<1>7. SumFunctionOnSet(g, rest) = SumFunctionOnSet(f, rest) /\ SumFunctionOnSet(f, rest) \in Int
  BY <1>1, <1>2, <1>4, SumSame, SumType
<1> QED BY <1>3, <1>5, <1>6, <1>7

\* A row never holds more of an item than what it has locked.
LEMMA HeldInRange ==
    ASSUME NEW T \in [Rows -> Version], NEW v \in Rows, LockedOK(v, T[v]), InRange(T[v]),
           NEW i \in Items
    PROVE  InRow(T[v], i, "RESERVED") \in 0 .. MaxInt
<1>1. \A j \in Items : HeldOf(T[v])[j] \in Nat
  BY InRowType DEF HeldOf
<1>2. HeldOf(T[v])[i] <= SumFunctionOnSet(HeldOf(T[v]), Items)
  BY <1>1, FiniteAssumption, SumMember
<1>3. SumFunctionOnSet(HeldOf(T[v]), Items) \in Int
  BY <1>1, FiniteAssumption, SumType
<1>4. /\ OpeningStock[v].locked \in Nat /\ MaxInt \in Nat
      /\ T[v].locked = OpeningStock[v].locked + SumFunctionOnSet(HeldOf(T[v]), Items)
      /\ T[v].locked \in 0 .. MaxInt
  BY ConstantsAssumption DEF LockedOK, InRange
<1>5. HeldOf(T[v])[i] = InRow(T[v], i, "RESERVED") /\ HeldOf(T[v])[i] \in Nat
  BY <1>1 DEF HeldOf
<1> QED BY <1>2, <1>3, <1>4, <1>5

\* An item that has nothing reserved has nothing reserved on any row.
LEMMA NothingHeld ==
    ASSUME NEW T \in [Rows -> Version], NEW i \in Items, ItemIn(T, i, "RESERVED") = 0
    PROVE  \A v \in Rows : InRow(T[v], i, "RESERVED") = 0
<1>1. \A v \in Rows : InRow(T[v], i, "RESERVED") \in Nat /\ InRow(T[v], i, "RESERVED") <= 0
  BY ItemInType
<1> QED BY <1>1

\* Nothing is reserved on a row that is no candidate of the item.
LEMMA OnlyCandidates ==
    ASSUME NEW v \in Rows, NEW s \in Version, Accounted(v, s), NEW i \in Items,
           v \notin Candidates[i]
    PROVE  InRow(s, i, "RESERVED") = 0
<1>1. \A id \in Requests \X {i} : Part(s, "RESERVED")[id] = 0
  BY FiniteSlots DEF Part, Accounted
<1>2. SumFunctionOnSet(Part(s, "RESERVED"), Requests \X {i}) = 0
  BY <1>1, FiniteSlots, SumZero
<1> QED BY <1>2, InRowIsSum

\* The database as it is found is an opening of the ledger.
LEMMA LedgerInit == Init => Ledger!Init
<1> SUFFICES ASSUME Init PROVE Ledger!Init
  OBVIOUS
<1>1. \A v \in Rows : stock[v] = OpeningVersion(v)
  BY DEF Init
<1>2. \A v \in Rows : stock[v].available \in 0 .. MaxInt /\ stock[v].locked \in 0 .. MaxInt
  BY <1>1, OpeningGood DEF Good, InRange
<1>3. \A i \in Items, v \in Rows : Held(i, v) = 0
  BY <1>1, OpeningInRow DEF Held
<1> QED BY <1>2, <1>3 DEF Ledger!Init, Ledger!Nothing

\* A step that changes neither what is committed nor a status does not show.
LEMMA LedgerStutter == UNCHANGED <<stock, status>> => UNCHANGED Ledger!ledger
BY DEF Ledger!ledger, Held, InRow

\* The commit of an inventory request restates what is available in the row it is about.
LEMMA LedgerRestate ==
    ASSUME Known, StockInv, NEW r \in Requests, CommitStock(r), IInv'
    PROVE  [Ledger!Next]_Ledger!ledger
<1>1. /\ ~Changing(r) /\ MovementOf(r) = "none" /\ UNCHANGED status
      /\ \A v \in Rows : stock'[v] = IF owner[v] = r THEN draft[v] ELSE stock[v]
  BY DEF CommitStock, Publish, Changing, MovementOf, orderVars
<1>2. stock \in [Rows -> Version] /\ stock' \in [Rows -> Version]
      /\ \A v \in Rows : InRange(stock'[v])
  BY DEF Known, IInv, RowsInv, Good
<1>3. CASE \A v \in Rows : owner[v] # r
  <2>1. stock' = stock
    BY <1>1, <1>2, <1>3
  <2> QED BY <1>1, <2>1, LedgerStutter
<1>4. CASE \E v \in Rows : owner[v] = r
  <2>1. PICK v \in Rows : owner[v] = r
    BY <1>4
  <2>2. \A w \in Rows : owner[w] = r =>
            w = v /\ draft[w].locked = stock[w].locked /\ draft[w].alloc = stock[w].alloc
    BY <1>1, <2>1 DEF StockInv, Kept
  <2>3. \A w \in Rows : /\ stock'[w].locked = stock[w].locked /\ stock'[w].alloc = stock[w].alloc
                        /\ w # v => stock'[w] = stock[w]
                        /\ stock'[w].available \in 0 .. MaxInt
    BY <1>1, <1>2, <2>2 DEF InRange
  <2>4. \A i \in Items, w \in Rows : Held(i, w)' = Held(i, w)
    BY <2>3 DEF Held, InRow
  <2>5. Ledger!Restate(v)
    BY <1>1, <2>1, <2>3, <2>4 DEF Ledger!Restate
  <2> QED BY <2>1, <2>5 DEF Ledger!Next
<1> QED BY <1>3, <1>4

\* What the commit of a status change shows of the rows: only the order's items change
\* hands, each row's locked quantity by what the order holds of it, and its available
\* quantity against it, unless the change ships or moves nothing.
LEMMA CommitRows ==
    ASSUME Known, StockInv, NEW r \in Requests, CommitStatus(r), IInv', AllocInv', StockInv'
    PROVE  LET o == tx[r].job.order  m == Movement(status[o], tx[r].job.to)
               was(v) == Ledger!HeldBy(o, HeldIn(stock), v)
               is(v) == Ledger!HeldBy(o, HeldIn(stock'), v)
           IN  /\ \A i \in Items \ ItemsOf(o) : HeldIn(stock')[i] = HeldIn(stock)[i]
               /\ \A i \in Items, v \in Rows :
                     /\ HeldIn(stock')[i][v] \in 0 .. MaxInt
                     /\ v \notin Candidates[i] => HeldIn(stock')[i][v] = 0
               /\ \A v \in Rows :
                     /\ was(v) \in Int /\ is(v) \in Int
                     /\ InRange(stock[v]) /\ InRange(stock'[v])
                     /\ stock'[v].locked = stock[v].locked + is(v) - was(v)
                     /\ m \in {"reserve", "release"} =>
                           stock'[v].available = stock[v].available - is(v) + was(v)
                     /\ m = "fulfil" => stock'[v].available = stock[v].available
                     /\ m = "none" => stock'[v] = stock[v]
<1> DEFINE o == tx[r].job.order  m == Movement(status[o], tx[r].job.to)
           was(v) == Ledger!HeldBy(o, HeldIn(stock), v)
           is(v) == Ledger!HeldBy(o, HeldIn(stock'), v)
<1>1. /\ Changing(r) /\ Fresh(r) /\ MovementOf(r) = m /\ m \in {"reserve", "release", "fulfil", "none"}
      /\ \A v \in Rows : stock'[v] = IF owner[v] = r THEN draft[v] ELSE stock[v]
  <2>1. Changing(r) /\ \A v \in Rows : stock'[v] = IF owner[v] = r THEN draft[v] ELSE stock[v]
    BY DEF CommitStatus, Publish, Changing
  <2> QED BY <2>1, ChangingJob, Movements DEF Known, SerialInv, Fresh
<1>2. \A i \in Items \ ItemsOf(o) : SlotsKept(i)
  BY CommitSlots
<1>3. /\ stock \in [Rows -> Version] /\ stock' \in [Rows -> Version]
      /\ \A v \in Rows : InRange(stock[v]) /\ InRange(stock'[v])
  BY DEF Known, IInv, RowsInv, Good
<1>4. ASSUME NEW v \in Rows PROVE LockedOK(v, stock[v]) /\ LockedOK(v, stock'[v])
  <2>1. LockedOK(v, stock[v])'
    BY DEF StockInv
  <2> QED BY <2>1 DEF StockInv, LockedOK, HeldOf, InRow
<1>5. ASSUME NEW i \in Items \ ItemsOf(o), NEW v \in Rows
      PROVE  InRow(stock'[v], i, "RESERVED") = InRow(stock[v], i, "RESERVED")
  <2>1. \A q \in Requests : stock'[v].alloc[<<q, i>>] = stock[v].alloc[<<q, i>>]
    BY <1>2 DEF SlotsKept
  <2>2. stock[v] \in Version /\ stock'[v] \in Version
    BY <1>3
  <2> QED BY <2>1, <2>2, InRowSame
<1>6. ASSUME NEW i \in Items, NEW v \in Rows
      PROVE  /\ HeldIn(stock')[i][v] \in 0 .. MaxInt
             /\ v \notin Candidates[i] => HeldIn(stock')[i][v] = 0
  <2>1. Accounted(v, stock[v])'
    BY DEF AllocInv
  <2>2. Accounted(v, stock'[v]) /\ stock'[v] \in Version
    BY <1>3, <2>1 DEF Accounted, Quantities
  <2>3. InRow(stock'[v], i, "RESERVED") \in 0 .. MaxInt
    BY <1>3, <1>4, HeldInRange
  <2>4. v \notin Candidates[i] => InRow(stock'[v], i, "RESERVED") = 0
    BY <2>2, OnlyCandidates
  <2> QED BY <2>3, <2>4 DEF HeldIn
<1>7. ASSUME NEW v \in Rows
      PROVE  /\ was(v) \in Int /\ is(v) \in Int
             /\ stock'[v].locked = stock[v].locked + is(v) - was(v)
  <2>1. \A i \in Items \ ItemsOf(o) : HeldOf(stock'[v])[i] = HeldOf(stock[v])[i]
    BY <1>5 DEF HeldOf
  <2>2. LockedOK(v, stock[v]) /\ LockedOK(v, stock'[v])
    BY <1>4
  <2>3. was(v) \in Int /\ is(v) \in Int
    BY <1>3, HeldByOrder
  <2> HIDE DEF o
  <2>4. stock'[v].locked = stock[v].locked + is(v) - was(v)
    BY <1>3, <2>1, <2>2, LockedByOrder
  <2> QED BY <2>3, <2>4
<1>8. ASSUME NEW v \in Rows
      PROVE  /\ m \in {"reserve", "release"} =>
                   stock'[v].available = stock[v].available - is(v) + was(v)
             /\ m = "fulfil" => stock'[v].available = stock[v].available
             /\ m = "none" => stock'[v] = stock[v]
  <2>1. stock[v].available \in Int /\ stock'[v].available \in Int
        /\ stock[v].locked \in Int /\ stock'[v].locked \in Int
    BY <1>3 DEF InRange, Version
  <2>2. Kept(v)
    BY DEF StockInv
  <2>3. /\ m \in {"reserve", "release"} =>
              stock'[v].available + stock'[v].locked = stock[v].available + stock[v].locked
        /\ m = "fulfil" => stock'[v].available = stock[v].available
        /\ m = "none" => stock'[v] = stock[v]
    BY <1>1, <2>2 DEF Kept
  <2> HIDE DEF m, is, was
  <2> QED BY <1>7, <2>1, <2>3
<1>9. ASSUME NEW i \in Items \ ItemsOf(o) PROVE HeldIn(stock')[i] = HeldIn(stock)[i]
  BY <1>5 DEF HeldIn
<1> QED BY <1>3, <1>6, <1>7, <1>8, <1>9

\* An order that holds nothing of any item holds nothing of any row.
LEMMA HoldsNothing ==
    ASSUME NEW T \in [Rows -> Version], NEW o,
           \A i \in ItemsOf(o) : ItemIn(T, i, "RESERVED") = 0
    PROVE  /\ \A v \in Rows : Ledger!HeldBy(o, HeldIn(T), v) = 0
           /\ \A i \in ItemsOf(o) : HeldIn(T)[i] = [v \in Rows |-> 0]
<1>1. ItemsOf(o) \subseteq Items /\ IsFiniteSet(ItemsOf(o))
  BY FiniteAssumption, FS_Subset DEF ItemsOf
<1>2. \A i \in ItemsOf(o), v \in Rows : InRow(T[v], i, "RESERVED") = 0
  BY <1>1, NothingHeld
<1>3. ASSUME NEW v \in Rows PROVE Ledger!HeldBy(o, HeldIn(T), v) = 0
  <2>1. \A i \in ItemsOf(o) : HeldOf(T[v])[i] = 0
    BY <1>1, <1>2 DEF HeldOf
  <2> QED BY <1>1, <2>1, HeldByOrder, SumZero
<1>4. \A i \in ItemsOf(o) : HeldIn(T)[i] = [v \in Rows |-> 0]
  BY <1>1, <1>2 DEF HeldIn
<1> QED BY <1>3, <1>4

\* The commit of a status change is the operation of the ledger of that name.
LEMMA LedgerCommit ==
    ASSUME Known, StockInv, NEW r \in Requests, CommitStatus(r), IInv', AllocInv', StockInv'
    PROVE  Ledger!Next
<1>0. PICK o, to, m : o = tx[r].job.order /\ to = tx[r].job.to /\ m = Movement(status[o], to)
  OBVIOUS
<1> DEFINE held == [i \in Items |-> [v \in Rows |-> Held(i, v)]]
           was(v) == Ledger!HeldBy(o, HeldIn(stock), v)
           is(v) == Ledger!HeldBy(o, HeldIn(stock'), v)
<1>1. /\ o \in Orders /\ to \in Transitions[status[o]] /\ status[o] \in Statuses
      /\ status' = [status EXCEPT ![o] = to]
      /\ \A i \in ItemsOf(o) : /\ i \in Items
                               /\ Agrees(stock, i, status[o]) /\ Agrees(stock', i, to)
  BY <1>0, CommitSlots
<1>2. /\ held = HeldIn(stock) /\ held' = HeldIn(stock')
      /\ \A v : Ledger!HeldBy(o, held, v) = was(v) /\ Ledger!HeldBy(o, held', v) = is(v)
  BY Zenon DEF Held, HeldIn
<1>3. /\ \A i \in Items \ ItemsOf(o) : HeldIn(stock')[i] = HeldIn(stock)[i]
      /\ \A i \in Items, v \in Rows : /\ HeldIn(stock')[i][v] \in 0 .. MaxInt
                                      /\ v \notin Candidates[i] => HeldIn(stock')[i][v] = 0
      /\ \A v \in Rows :
            /\ was(v) \in Int /\ is(v) \in Int
            /\ InRange(stock[v]) /\ InRange(stock'[v])
            /\ stock'[v].locked = stock[v].locked + is(v) - was(v)
            /\ m \in {"reserve", "release"} =>
                  stock'[v].available = stock[v].available - is(v) + was(v)
            /\ m = "fulfil" => stock'[v].available = stock[v].available
            /\ m = "none" => stock'[v] = stock[v]
  BY <1>0, CommitRows
<1>4. /\ Ledger!ItemsOf(o) = ItemsOf(o)
      /\ stock \in [Rows -> Version] /\ stock' \in [Rows -> Version]
      /\ \A v \in Rows : stock[v].available \in Int /\ stock[v].locked \in Int
  <2>1. Ledger!ItemsOf(o) = ItemsOf(o)
    BY DEF Ledger!ItemsOf, ItemsOf
  <2>2. stock \in [Rows -> Version] /\ stock' \in [Rows -> Version]
    BY DEF Known, IInv, RowsInv
  <2> QED BY <2>1, <2>2 DEF Version
<1>5. /\ m = "reserve" => status[o] = "PAID" /\ to = "PICKING"
      /\ m = "fulfil" => status[o] = "PICKING" /\ to = "SHIPPED"
      /\ m = "release" => status[o] = "PICKING" /\ to = "CANCELLED"
  BY <1>0, MovementEnds
<1>6. m \in {"reserve", "fulfil", "release", "none"}
  BY <1>0 DEF Movement
<1> HIDE DEF held, was, is
<1>7. CASE m = "reserve"
  <2>1. \A v \in Rows : was(v) = 0
    <3>1. \A i \in ItemsOf(o) : ItemIn(stock, i, "RESERVED") = 0
      BY <1>1, <1>5, <1>7 DEF Agrees
    <3> QED BY <1>4, <3>1, HoldsNothing DEF was
  <2>2. \A v \in Rows : /\ stock'[v].available = stock[v].available - is(v)
                        /\ stock'[v].locked = stock[v].locked + is(v)
                        /\ stock'[v].available >= 0
    BY <1>3, <1>4, <1>7, <2>1 DEF InRange
  <2>3. ASSUME NEW i \in ItemsOf(o)
        PROVE  /\ Ledger!SumFunction(held'[i]) = Quantity[i]
               /\ \A v \in Rows \ Candidates[i] : held'[i][v] = 0
    <3>1. held'[i] = ItemRows(stock', i, "RESERVED") /\ DOMAIN ItemRows(stock', i, "RESERVED") = Rows
      BY <1>1, <1>2 DEF HeldIn, ItemRows
    <3>2. Ledger!SumFunction(held'[i]) = ItemIn(stock', i, "RESERVED")
      BY <3>1, LedgerSums DEF ItemIn
    <3> QED BY <1>1, <1>2, <1>3, <1>5, <1>7, <3>2 DEF Agrees
  <2>4. held' \in [Items -> [Rows -> 0 .. MaxInt]]
    BY <1>2, <1>3 DEF HeldIn
  <2>5. \A i \in Items \ ItemsOf(o) : held'[i] = held[i]
    BY <1>2, <1>3
  <2>6. \A v \in Rows : /\ stock'[v].available = stock[v].available - Ledger!HeldBy(o, held', v)
                        /\ stock'[v].locked = stock[v].locked + Ledger!HeldBy(o, held', v)
                        /\ stock'[v].available >= 0
    BY <1>2, <2>2
  <2>7. Ledger!Pick(o)
    BY <1>1, <1>4, <1>5, <1>7, <2>3, <2>4, <2>5, <2>6 DEF Ledger!Pick, held
  <2> QED BY <1>1, <2>7 DEF Ledger!Next
<1>8. CASE m \in {"fulfil", "release"}
  <2>1. /\ \A v \in Rows : is(v) = 0
        /\ \A i \in ItemsOf(o) : held'[i] = [v \in Rows |-> 0]
    <3>1. \A i \in ItemsOf(o) : ItemIn(stock', i, "RESERVED") = 0
      BY <1>1, <1>5, <1>8 DEF Agrees
    <3> QED BY <1>2, <1>4, <3>1, HoldsNothing DEF is
  <2>2. /\ \A v \in Rows : stock'[v].locked = stock[v].locked - was(v)
        /\ m = "fulfil" => \A v \in Rows : stock'[v].available = stock[v].available
        /\ m = "release" => \A v \in Rows : stock'[v].available = stock[v].available + was(v)
    BY <1>3, <1>4, <1>8, <2>1
  <2>3. /\ \A v \in Rows : stock'[v].locked = stock[v].locked - Ledger!HeldBy(o, held, v)
        /\ m = "fulfil" => \A v \in Rows : stock'[v].available = stock[v].available
        /\ m = "release" => \A v \in Rows :
              stock'[v].available = stock[v].available + Ledger!HeldBy(o, held, v)
    BY <1>2, <2>2
  <2>4. held' = [i \in Items |-> IF i \in ItemsOf(o) THEN [v \in Rows |-> 0] ELSE held[i]]
    BY <1>2, <1>3, <2>1 DEF HeldIn
  <2>5. Ledger!LetGo(o)
    BY <1>4, <2>3, <2>4 DEF Ledger!LetGo, Ledger!Nothing, held
  <2>6. CASE m = "fulfil"
    <3>1. Ledger!Ship(o)
      BY <1>1, <1>5, <2>3, <2>5, <2>6 DEF Ledger!Ship
    <3> QED BY <1>1, <3>1 DEF Ledger!Next
  <2>7. CASE m = "release"
    <3>1. Ledger!CancelPicking(o)
      BY <1>1, <1>5, <2>3, <2>5, <2>7 DEF Ledger!CancelPicking, held
    <3> QED BY <1>1, <3>1 DEF Ledger!Next
  <2> QED BY <1>8, <2>6, <2>7
<1>9. CASE m = "none"
  <2>1. stock' = stock
    BY <1>3, <1>4, <1>9
  <2>2. <<status[o], to>> \notin
          {<<"PAID", "PICKING">>, <<"PICKING", "SHIPPED">>, <<"PICKING", "CANCELLED">>}
    BY <1>0, <1>9 DEF Movement
  <2>3. to \in DOMAIN Transitions
    BY <1>1 DEF Transitions, Statuses
  <2>4. held' = held
    BY <1>2, <2>1
  <2>5. Ledger!Move(o, to)
    BY <1>1, <2>1, <2>2, <2>4 DEF Ledger!Move, held
  <2> QED BY <1>1, <2>3, <2>5 DEF Ledger!Next
<1> QED BY <1>6, <1>7, <1>8, <1>9

\* As long as no two status changes of one order overlap, what other requests can read
\* changes by whole operations of the ledger only: all of an order is picked, shipped or
\* put back at once, and a request that fails, times out or crashes leaves no trace.
THEOREM FulfilmentImplementsLedger ==
    ASSUME OneAtATime = TRUE
    PROVE  Spec => ImplementsLedger
<1>1. Init => Ledger!Init
  BY LedgerInit
<1>2. Known /\ StockInv /\ [Next]_vars /\ Known' /\ StockInv' => [Ledger!Next]_Ledger!ledger
  <2> SUFFICES ASSUME Known, StockInv, [Next]_vars, Known', StockInv'
               PROVE  [Ledger!Next]_Ledger!ledger
    OBVIOUS
  <2>1. IInv' /\ AllocInv'
    BY DEF Known
  <2>2. CASE UNCHANGED <<stock, status>>
    BY <2>2, LedgerStutter
  <2>3. CASE ~UNCHANGED <<stock, status>>
    <3>1. Next
      BY <2>3 DEF vars
    <3>2. PICK r \in Requests :
              \/ Receive(r) \/ Rollback(r) \/ CommitStatus(r) \/ CommitStock(r)
              \/ MoveRow(r) \/ AdjustRow(r) \/ CreateRow(r)
              \/ \E i \in Items : BeginReserve(r, i) \/ BeginSettle(r, i)
      BY <3>1, Steps
    <3>3. CommitStatus(r) \/ CommitStock(r)
      BY <2>3, <3>2 DEF Receive, ReceiveStatus, ReceiveAdjust, ReceiveInitialize, Rollback,
         MoveRow, AdjustRow, CreateRow, BeginReserve, BeginSettle, rowVars, orderVars
    <3> QED BY <2>1, <3>3, LedgerCommit, LedgerRestate
  <2> QED BY <2>2, <2>3
<1> QED BY <1>1, <1>2, StockAlways, PTL DEF Spec, ImplementsLedger, Ledger!Spec

-----------------------------------------------------------------------------
(***************************************************************************)
(* The split over warehouses follows their order, as long as nothing puts  *)
(* stock back: then what a request sees of a row only shrinks until it     *)
(* ends, and a row it has gone past stays empty.                           *)
(***************************************************************************)
\* The requests are status changes other than cancellations and adjustments that take.
OnlyTakes ==
    \A job \in Jobs : \/ job \in StatusJobs /\ job.to # "CANCELLED"
                      \/ job \in AdjustJobs /\ Delta(job.type, job.quantity) <= 0

\* Version n may come after version s.
Shrunk(n, s) ==
    /\ n.exists = s.exists /\ n.available <= s.available
    /\ \A id \in Slots : s.alloc[id].status # "NONE" => n.alloc[id].status # "NONE"

\* The candidate rows of item i that come before row v.
Earlier(i, v) == {w \in Candidates[i] : w < v /\ stock[w].exists}

\* Of an item being picked, the rows that still have stock are those left to visit, the
\* next one before all others, and they have no more than was seen.
PicksInOrder(r) ==
    /\ \A w \in Candidates[tx[r].at[2]] : stock[w].exists =>
          Visible(r, w).available = 0 \/ \E a \in Left(r) : a[3] = w
    /\ \A a \in Left(r) : tx[r].at[3] <= a[3] /\ Visible(r, a[3]).available <= tx[r].seen[a[3]]

\* What is being shipped was allocated.
ShipsAllocated(r) ==
    \A a \in Left(r) : Visible(r, a[3]).alloc[<<a[1], a[2]>>].status # "NONE"

InOrder(r) ==
    tx[r].pc = "row" /\ tx[r].at # NoVisit =>
        IF MovementOf(r) = "reserve" THEN PicksInOrder(r) ELSE ShipsAllocated(r)

\* Where item i is allocated on row v by request p, the earlier rows are empty: for
\* everyone if that is committed, for p if it is not.
SplitAt(i, p, v) ==
    /\ stock[v].alloc[<<p, i>>].status # "NONE" =>
          \A w \in Earlier(i, v) : stock[w].available = 0
    /\ draft[v].alloc[<<p, i>>].status # "NONE" /\ stock[v].alloc[<<p, i>>].status = "NONE" =>
          owner[v] = p /\ \A w \in Earlier(i, v) : Visible(p, w).available = 0

SplitInv ==
    /\ \A v \in Rows : Shrunk(draft[v], stock[v])
    /\ \A i \in Items, p \in Requests : \A v \in Candidates[i] : SplitAt(i, p, v)
    /\ \A r \in Requests : InOrder(r)

\* Without cancellations, restocks and new rows, no movement is a release, no adjustment
\* adds and no row is created.
LEMMA TakingJobs ==
    ASSUME OnlyTakes, IInv, NEW r \in Requests
    PROVE  /\ MovementOf(r) # "release" /\ ~CreateRow(r)
           /\ AdjustRow(r) => Delta(tx[r].job.type, tx[r].job.quantity) <= 0
<1>1. tx[r].job \in Jobs \cup {NoJob} /\ TxOK(r)
  BY DEF IInv, TxInv, Transaction
<1>2. /\ \A job \in StatusJobs : job.kind = "status"
      /\ \A job \in AdjustJobs : job.kind = "adjust"
      /\ \A job \in InitJobs : job.kind = "initialize"
      /\ NoJob.kind = "none"
  BY DEF StatusJobs, AdjustJobs, InitJobs, NoJob
<1>3. MovementOf(r) = "release" => tx[r].job.kind = "status" /\ tx[r].job.to = "CANCELLED"
  BY DEF MovementOf, Movement
<1>4. MovementOf(r) # "release"
  BY <1>1, <1>2, <1>3 DEF OnlyTakes
<1>5. ~CreateRow(r)
  BY <1>1, <1>2 DEF OnlyTakes, CreateRow, TxOK
<1>6. AdjustRow(r) => tx[r].job \in AdjustJobs
  BY <1>1 DEF AdjustRow, TxOK
<1> QED BY <1>1, <1>2, <1>4, <1>5, <1>6 DEF OnlyTakes

\* Versions shrink further and further.
LEMMA ShrunkTwice ==
    ASSUME NEW s \in Version, NEW t \in Version, NEW u \in Version, Shrunk(t, s), Shrunk(u, t)
    PROVE  Shrunk(u, s)
BY DEF Shrunk, Version

LEMMA ShrunkSame ==
    ASSUME NEW s \in Version
    PROVE  Shrunk(s, s)
BY DEF Shrunk, Version

\* A row that is empty and shrinks is empty.
LEMMA ShrunkEmpty ==
    ASSUME NEW v \in Rows, NEW n, NEW s, Good(v, n), Shrunk(n, s), s.available = 0
    PROVE  n.available = 0
BY ConstantsAssumption DEF Good, InRange, Shrunk, Version

\* What request p sees, and what everyone sees, shrinks.
SeesLess(p) == \A w \in Rows : Shrunk(Visible(p, w)', Visible(p, w))
Recedes == \A w \in Rows : Shrunk(stock'[w], stock[w])

LEMMA VisibleGood ==
    ASSUME IInv, NEW p \in Requests, NEW w \in Rows
    PROVE  Good(w, Visible(p, w)) /\ Visible(p, w) \in Version
BY DEF IInv, RowsInv, Visible, Good

LEMMA VisibleGoodNext ==
    ASSUME IInv', NEW p \in Requests, NEW w \in Rows
    PROVE  Good(w, Visible(p, w)') /\ Visible(p, w)' \in Version
BY DEF IInv, RowsInv, Visible, Good, InRange, Balanced, OpeningVersion

\* The rows a request has left to visit are rows.
LEMMA LeftRows ==
    ASSUME IInv, NEW r \in Requests, tx[r].pc = "row", tx[r].at # NoVisit
    PROVE  \A a \in Left(r) : a \in Visits /\ a[3] \in Rows /\ a[2] \in Items
                              /\ <<a[1], a[2]>> \in Slots
<1>1. tx[r] \in Transaction
  BY DEF IInv, TxInv
<1>2. \A a \in Left(r) : a \in Visits
  BY <1>1 DEF Left, Transaction
<1> QED BY <1>2 DEF Visits, Slots

\* A request that does not move goes on in order.
LEMMA InOrderKept ==
    ASSUME IInv, IInv', NEW p \in Requests, tx'[p] = tx[p], InOrder(p), SeesLess(p), Recedes
    PROVE  InOrder(p)'
<1>1. MovementOf(p)' = MovementOf(p) /\ Left(p)' = Left(p)
  BY DEF MovementOf, Left
<1> SUFFICES ASSUME tx[p].pc = "row", tx[p].at # NoVisit PROVE InOrder(p)'
  BY DEF InOrder
<1>2. \A a \in Left(p) : a[3] \in Rows /\ a[2] \in Items /\ <<a[1], a[2]>> \in Slots
  BY LeftRows
<1>3. tx[p].at \in Left(p)
  BY DEF Left
<1>4. Candidates[tx[p].at[2]] \subseteq Rows
  BY <1>2, <1>3, ConstantsAssumption
<1>5. ASSUME NEW w \in Rows
      PROVE  /\ stock'[w].exists = stock[w].exists
             /\ Visible(p, w).available = 0 => Visible(p, w)'.available = 0
             /\ \A x \in Int : Visible(p, w).available <= x => Visible(p, w)'.available <= x
             /\ \A id \in Slots : Visible(p, w).alloc[id].status # "NONE"
                                      => Visible(p, w)'.alloc[id].status # "NONE"
  <2>1. Shrunk(Visible(p, w)', Visible(p, w)) /\ Shrunk(stock'[w], stock[w])
    BY DEF SeesLess, Recedes
  <2>2. /\ Good(w, Visible(p, w)') /\ Visible(p, w) \in Version /\ Visible(p, w)' \in Version
    BY VisibleGood, VisibleGoodNext
  <2>3. Visible(p, w).available = 0 => Visible(p, w)'.available = 0
    BY <2>1, <2>2, ShrunkEmpty
  <2> QED BY <2>1, <2>2, <2>3 DEF Shrunk, Version
<1>6. CASE MovementOf(p) = "reserve"
  <2>1. PicksInOrder(p)
    BY <1>6 DEF InOrder
  <2>2. tx[p].seen \in [Rows -> Int]
    BY DEF IInv, TxInv, Transaction
  <2>3. ASSUME NEW a \in Left(p)
        PROVE  tx[p].at[3] <= a[3] /\ Visible(p, a[3])'.available <= tx[p].seen[a[3]]
    BY <1>2, <1>5, <2>1, <2>2 DEF PicksInOrder
  <2>4. ASSUME NEW w \in Candidates[tx[p].at[2]], stock'[w].exists
        PROVE  Visible(p, w)'.available = 0 \/ \E a \in Left(p) : a[3] = w
    BY <1>4, <1>5, <2>1, <2>4 DEF PicksInOrder
  <2>5. PicksInOrder(p)'
    BY <1>1, <2>3, <2>4 DEF PicksInOrder
  <2> QED BY <1>1, <1>6, <2>5 DEF InOrder
<1>7. CASE MovementOf(p) # "reserve"
  <2>1. ShipsAllocated(p)
    BY <1>7 DEF InOrder
  <2>2. ShipsAllocated(p)'
    BY <1>1, <1>2, <1>5, <2>1 DEF ShipsAllocated
  <2> QED BY <1>1, <1>7, <2>2 DEF InOrder
<1> QED BY <1>6, <1>7

\* A row that is not written keeps its split.
LEMMA SplitKept ==
    ASSUME IInv, IInv', SplitInv, Recedes, NEW i \in Items, NEW p \in Requests,
           NEW v \in Candidates[i],
           stock'[v] = stock[v], draft'[v] = draft[v], owner'[v] = owner[v],
           owner[v] = p => SeesLess(p)
    PROVE  SplitAt(i, p, v)'
<1>1. SplitAt(i, p, v) /\ Candidates[i] \subseteq Rows
  BY ConstantsAssumption DEF SplitInv
<1>2. Earlier(i, v)' = Earlier(i, v) /\ Earlier(i, v) \subseteq Rows
  BY <1>1 DEF Earlier, Recedes, Shrunk
<1>3. \A w \in Rows : stock[w].available = 0 => stock'[w].available = 0
  BY ShrunkEmpty DEF IInv, RowsInv, Recedes, Good, InRange, Balanced, OpeningVersion
<1>4. ASSUME owner[v] = p, NEW w \in Rows, Visible(p, w).available = 0
      PROVE  Visible(p, w)'.available = 0
  <2>1. Good(w, Visible(p, w)') /\ Shrunk(Visible(p, w)', Visible(p, w))
    BY <1>4, VisibleGoodNext DEF SeesLess
  <2> QED BY <1>4, <2>1, ShrunkEmpty
<1> QED BY <1>1, <1>2, <1>3, <1>4 DEF SplitAt

\* A step that writes no row keeps the split, given that the request goes on in order.
LEMMA LocalSplit ==
    ASSUME IInv, IInv', SplitInv, NEW r \in Requests, UNCHANGED rowVars,
           \A p \in Requests \ {r} : tx'[p] = tx[p], InOrder(r)'
    PROVE  SplitInv'
<1>1. Recedes /\ \A v \in Rows : Shrunk(draft[v], stock[v])'
  BY ShrunkSame DEF IInv, RowsInv, rowVars, Recedes, SplitInv, Shrunk
<1>2. ASSUME NEW p \in Requests PROVE SeesLess(p)
  <2>1. \A w \in Rows : Visible(p, w)' = Visible(p, w)
    BY DEF rowVars, Visible
  <2> QED BY <2>1, VisibleGood, ShrunkSame DEF SeesLess
<1>3. ASSUME NEW p \in Requests PROVE InOrder(p)'
  <2>1. CASE p # r
    <3>1. tx'[p] = tx[p] /\ InOrder(p) /\ SeesLess(p)
      BY <1>2, <2>1 DEF SplitInv
    <3> QED BY <1>1, <3>1, InOrderKept
  <2> QED BY <2>1
<1>4. ASSUME NEW i \in Items, NEW p \in Requests, NEW v \in Candidates[i]
      PROVE  SplitAt(i, p, v)'
  <2>1. stock'[v] = stock[v] /\ draft'[v] = draft[v] /\ owner'[v] = owner[v] /\ SeesLess(p)
    BY <1>2 DEF rowVars
  <2> QED BY <1>1, <2>1, SplitKept
<1> QED BY <1>1, <1>3, <1>4 DEF SplitInv

\* The next visit of a reservation comes before all that are left.
LEMMA NextVisitFirst ==
    ASSUME tx \in [Requests -> Transaction], NEW r \in Requests, NEW visits, NEW seen,
           NEW left, SetVisit(r, visits, seen, left), tx'[r].at # NoVisit
    PROVE  /\ tx'[r].seen = seen /\ Left(r)' = visits
           /\ MovementOf(r) = "reserve" => \A b \in visits : tx'[r].at[3] <= b[3]
<1>1. PICK a \in IF visits = {} THEN {NoVisit} ELSE NextVisits(r, visits) :
        tx' = [tx EXCEPT ![r] =
                 [pc |-> "row", job |-> tx[r].job, from |-> tx[r].from,
                  items |-> tx[r].items, visits |-> visits \ {a}, at |-> a,
                  seen |-> seen, remaining |-> left]]
  BY DEF SetVisit
<1>2. tx'[r].at = a /\ tx'[r].seen = seen /\ tx'[r].visits = visits \ {a}
  BY <1>1
<1>3. visits # {} /\ a \in NextVisits(r, visits)
  BY <1>1, <1>2
<1>4. a \in visits /\ (MovementOf(r) = "reserve" => \A b \in visits : a[3] <= b[3])
  BY <1>3 DEF NextVisits
<1> QED BY <1>2, <1>4 DEF Left

\* Reading what there is to reserve begins with the first row that has stock.
LEMMA BeginReserveSplit ==
    ASSUME IInv, IInv', SplitInv, NEW r \in Requests, NEW i \in Items, BeginReserve(r, i)
    PROVE  SplitInv'
<1> DEFINE seen == [v \in Rows |-> IF v \in SeenRows(r, i) THEN Visible(r, v).available ELSE 0]
           visits == {<<r, i, v>> : v \in {w \in Rows : seen[w] > 0}}
<1>1. /\ tx \in [Requests -> Transaction] /\ UNCHANGED rowVars /\ MovementOf(r) = "reserve"
      /\ SetVisit(r, visits, seen, Quantity[i])
  BY DEF IInv, TxInv, BeginReserve
<1>2. \A w \in Rows : Visible(r, w)' = Visible(r, w)
  BY <1>1 DEF rowVars, Visible
<1>3. ASSUME NEW w \in Candidates[i], stock[w].exists, Visible(r, w).available # 0
      PROVE  \E a \in visits : a[3] = w
  <2>1. w \in Rows
    BY ConstantsAssumption
  <2>2. Visible(r, w).exists
    BY <1>3, <2>1 DEF SplitInv, Shrunk, Visible
  <2>3. Visible(r, w).available > 0
    BY <1>3, <2>1, VisibleGood, ConstantsAssumption DEF Good, InRange
  <2>4. seen[w] > 0
    BY <2>1, <2>2, <2>3 DEF SeenRows
  <2> DEFINE a == <<r, i, w>>
  <2>5. a \in visits
    <3> HIDE DEF seen
    <3> QED BY <2>1, <2>4
  <2>6. a[3] = w
    OBVIOUS
  <2> HIDE DEF visits, a
  <2> QED BY <2>5, <2>6
<1>4. ASSUME NEW a \in visits
      PROVE  a[2] = i /\ a[3] \in Rows /\ Visible(r, a[3]).available <= seen[a[3]]
  <2>1. PICK v \in Rows : a = <<r, i, v>> /\ seen[v] > 0
    OBVIOUS
  <2>2. seen[v] = Visible(r, v).available /\ Visible(r, v).available \in Int
    BY <2>1, VisibleGood DEF Version
  <2> QED BY <2>1, <2>2
<1> HIDE DEF seen, visits
<1>5. /\ tx'[r].job = tx[r].job /\ tx'[r].from = tx[r].from
      /\ tx'[r].at \in visits \/ tx'[r].at = NoVisit
      /\ \A p \in Requests \ {r} : tx'[p] = tx[p]
  BY <1>1, SetVisitFacts
<1>6. MovementOf(r)' = MovementOf(r)
  BY <1>5 DEF MovementOf
<1>7. ASSUME tx'[r].at # NoVisit PROVE PicksInOrder(r)'
  <2>1. /\ tx'[r].seen = seen /\ Left(r)' = visits
        /\ \A b \in visits : tx'[r].at[3] <= b[3]
    BY <1>1, <1>7, NextVisitFirst
  <2>2. tx'[r].at[2] = i
    BY <1>4, <1>5, <1>7
  <2>3. ASSUME NEW w \in Candidates[i], stock'[w].exists
        PROVE  Visible(r, w)'.available = 0 \/ \E a \in Left(r)' : a[3] = w
    <3>1. w \in Rows /\ stock[w].exists
      BY <1>1, <2>3, ConstantsAssumption DEF rowVars
    <3> QED BY <1>2, <1>3, <2>1, <3>1
  <2>4. ASSUME NEW a \in Left(r)'
        PROVE  tx'[r].at[3] <= a[3] /\ Visible(r, a[3])'.available <= tx'[r].seen[a[3]]
    BY <1>2, <1>4, <2>1
  <2> QED BY <2>2, <2>3, <2>4 DEF PicksInOrder
<1>8. InOrder(r)'
  BY <1>1, <1>6, <1>7 DEF InOrder
<1> QED BY <1>1, <1>5, <1>8, LocalSplit

\* Reading what there is to ship finds only what was allocated.
LEMMA BeginSettleSplit ==
    ASSUME IInv, IInv', SplitInv, NEW r \in Requests, NEW i \in Items, BeginSettle(r, i)
    PROVE  SplitInv'
<1>1. /\ tx \in [Requests -> Transaction] /\ UNCHANGED rowVars /\ MovementOf(r) # "reserve"
      /\ SetVisit(r, ReservedVisits(r, i), tx[r].seen, Quantity[i])
  BY DEF IInv, TxInv, BeginSettle
<1>2. /\ tx'[r].job = tx[r].job /\ tx'[r].from = tx[r].from
      /\ \A p \in Requests \ {r} : tx'[p] = tx[p]
  BY <1>1, SetVisitFacts
<1>3. MovementOf(r)' = MovementOf(r)
  BY <1>2 DEF MovementOf
<1>4. ASSUME tx'[r].at # NoVisit PROVE ShipsAllocated(r)'
  <2>1. Left(r)' = ReservedVisits(r, i)
    BY <1>1, <1>4, NextVisitFirst
  <2>2. ASSUME NEW a \in ReservedVisits(r, i)
        PROVE  Visible(r, a[3])'.alloc[<<a[1], a[2]>>].status # "NONE"
    <3>1. a[2] = i /\ Visible(r, a[3]).alloc[<<a[1], i>>].status = "RESERVED"
      BY DEF ReservedVisits
    <3>2. Visible(r, a[3])' = Visible(r, a[3])
      BY <1>1 DEF Visible, rowVars
    <3> QED BY <3>1, <3>2
  <2> QED BY <2>1, <2>2 DEF ShipsAllocated
<1>5. InOrder(r)'
  BY <1>1, <1>3, <1>4 DEF InOrder
<1> QED BY <1>1, <1>2, <1>5, LocalSplit

\* A request that arrives visits nothing yet.
LEMMA ReceiveSplit ==
    ASSUME IInv, IInv', SplitInv, NEW r \in Requests, Receive(r)
    PROVE  SplitInv'
<1>1. PICK job \in Jobs :
        ReceiveStatus(r, job) \/ ReceiveAdjust(r, job) \/ ReceiveInitialize(r, job)
  BY DEF Receive
<1>2. /\ UNCHANGED rowVars /\ tx \in [Requests -> Transaction] /\ tx'[r].pc # "row"
      /\ \A p \in Requests \ {r} : tx'[p] = tx[p]
  BY <1>1 DEF ReceiveStatus, ReceiveAdjust, ReceiveInitialize, IInv, TxInv, NewTx, Done
<1>3. InOrder(r)'
  BY <1>2 DEF InOrder
<1> QED BY <1>2, <1>3, LocalSplit

\* What a commit or a rollback does to the rows: what is committed only shrinks.
LEMMA EndRecedes ==
    ASSUME IInv, SplitInv, NEW r \in Requests, Rollback(r) \/ Publish(r)
    PROVE  /\ Recedes
           /\ \A v \in Rows : Shrunk(draft[v], stock[v])'
           /\ \A p \in Requests \ {r} : SeesLess(p)
<1>1. /\ \A w \in Rows : owner'[w] = IF owner[w] = r THEN Free ELSE owner[w]
      /\ \A w \in Rows : \/ owner[w] # r /\ stock'[w] = stock[w] /\ draft'[w] = draft[w]
                         \/ /\ owner[w] = r /\ draft'[w] = stock'[w]
                            /\ stock'[w] \in {stock[w], draft[w]}
  BY DEF Rollback, Publish, IInv, RowsInv
<1>2. \A w \in Rows : stock[w] \in Version /\ draft[w] \in Version /\ Shrunk(draft[w], stock[w])
  BY DEF IInv, RowsInv, SplitInv
<1>3. \A w \in Rows : Shrunk(stock[w], stock[w]) /\ Shrunk(draft[w], draft[w])
  BY <1>2, ShrunkSame
<1>4. Recedes
  BY <1>1, <1>2, <1>3 DEF Recedes
<1>5. \A v \in Rows : Shrunk(draft'[v], stock'[v])
  BY <1>1, <1>2, <1>3
<1>6. ASSUME NEW p \in Requests \ {r} PROVE SeesLess(p)
  <2>1. \A w \in Rows : \/ Visible(p, w)' = Visible(p, w)
                        \/ Visible(p, w)' = stock'[w] /\ Visible(p, w) = stock[w]
    BY <1>1, ConstantsAssumption DEF Visible
  <2>2. \A w \in Rows : Shrunk(Visible(p, w), Visible(p, w))
    BY VisibleGood, ShrunkSame
  <2> QED BY <1>4, <2>1, <2>2 DEF SeesLess, Recedes
<1> QED BY <1>4, <1>5, <1>6 DEF Shrunk

\* A commit or a rollback keeps the split: what the request saw is what it publishes.
LEMMA EndSplit ==
    ASSUME IInv, IInv', SplitInv, NEW r \in Requests, Rollback(r) \/ Publish(r)
    PROVE  SplitInv'
<1>1. /\ Recedes /\ \A v \in Rows : Shrunk(draft[v], stock[v])'
      /\ \A p \in Requests \ {r} : SeesLess(p)
  BY EndRecedes
<1>2. /\ tx'[r].pc = "done" /\ \A p \in Requests \ {r} : tx'[p] = tx[p]
  BY DEF Rollback, Publish, IInv, TxInv, Done, NewTx
<1>3. /\ \A w \in Rows : owner'[w] = IF owner[w] = r THEN Free ELSE owner[w]
      /\ \A w \in Rows : \/ owner[w] # r /\ stock'[w] = stock[w] /\ draft'[w] = draft[w]
                         \/ owner[w] = r /\ draft'[w] = stock'[w]
      /\ \/ \A w \in Rows : stock'[w] = stock[w]
         \/ \A w \in Rows : stock'[w] = Visible(r, w)
  BY DEF Rollback, Publish, IInv, RowsInv, Visible
<1>4. ASSUME NEW p \in Requests PROVE InOrder(p)'
  <2>1. CASE p = r
    BY <1>2, <2>1 DEF InOrder
  <2>2. CASE p # r
    <3>1. InOrder(p) /\ SeesLess(p) /\ tx'[p] = tx[p]
      BY <1>1, <1>2, <2>2 DEF SplitInv
    <3> QED BY <1>1, <3>1, InOrderKept
  <2> QED BY <2>1, <2>2
<1>5. ASSUME NEW i \in Items, NEW p \in Requests, NEW v \in Candidates[i]
      PROVE  SplitAt(i, p, v)'
  <2>1. v \in Rows /\ SplitAt(i, p, v) /\ Candidates[i] \subseteq Rows
    BY ConstantsAssumption DEF SplitInv
  <2>2. CASE owner[v] # r
    <3>1. stock'[v] = stock[v] /\ draft'[v] = draft[v] /\ owner'[v] = owner[v]
      BY <1>3, <2>1, <2>2
    <3>2. owner[v] = p => SeesLess(p)
      BY <1>1, <2>2
    <3> QED BY <1>1, <3>1, <3>2, SplitKept
  <2>3. CASE owner[v] = r
    <3>1. draft'[v] = stock'[v]
      BY <1>3, <2>1, <2>3
    <3>2. ASSUME stock'[v].alloc[<<p, i>>].status # "NONE", NEW w \in Earlier(i, v)'
          PROVE  stock'[w].available = 0
      <4>1. w \in Rows /\ w \in Earlier(i, v)
        BY <1>1, <2>1 DEF Earlier, Recedes, Shrunk
      <4>2. Good(w, stock'[w]) /\ Shrunk(stock'[w], stock[w])
        BY <1>1, <4>1 DEF IInv, RowsInv, Recedes, Good, InRange, Balanced, OpeningVersion
      <4>3. CASE stock[v].alloc[<<p, i>>].status # "NONE"
        <5>1. stock[w].available = 0
          BY <2>1, <4>1, <4>3 DEF SplitAt
        <5> QED BY <4>1, <4>2, <5>1, ShrunkEmpty
      <4>4. CASE stock[v].alloc[<<p, i>>].status = "NONE"
        <5>1. \A x \in Rows : stock'[x] = Visible(r, x)
          BY <1>3, <2>1, <3>2, <4>4
        <5>2. draft[v].alloc[<<p, i>>].status # "NONE"
          BY <2>1, <2>3, <3>2, <5>1 DEF Visible
        <5>3. p = r /\ Visible(p, w).available = 0
          BY <2>1, <2>3, <4>1, <4>4, <5>2 DEF SplitAt
        <5> QED BY <4>1, <5>1, <5>3
      <4> QED BY <4>3, <4>4
    <3> QED BY <3>1, <3>2 DEF SplitAt
  <2> QED BY <2>2, <2>3
<1> QED BY <1>1, <1>4, <1>5 DEF SplitInv

\* What a write under the row lock shows: the writer sees its row shrink, others nothing.
LEMMA WriteSees ==
    ASSUME IInv, SplitInv, LocksEndWithTransaction, NEW r \in Requests, NEW v \in Rows,
           CanLock(r, v), UNCHANGED stock, owner'[v] = r,
           \A w \in Rows \ {v} : draft'[w] = draft[w] /\ owner'[w] = owner[w],
           Shrunk(draft'[v], draft[v])
    PROVE  /\ Recedes /\ \A p \in Requests : SeesLess(p)
           /\ Visible(r, v) = draft[v] /\ Visible(r, v)' = draft'[v]
<1>1. /\ owner[v] = Free \/ owner[v] = r
      /\ owner[v] = Free => draft[v] = stock[v]
      /\ r # Free
  BY ConstantsAssumption DEF CanLock, LocksEndWithTransaction
<1>2. Visible(r, v) = draft[v] /\ Visible(r, v)' = draft'[v]
  BY <1>1 DEF Visible
<1>3. Recedes
  BY ShrunkSame DEF Recedes, IInv, RowsInv
<1>4. ASSUME NEW p \in Requests, NEW w \in Rows PROVE Shrunk(Visible(p, w)', Visible(p, w))
  <2>1. Shrunk(Visible(p, w), Visible(p, w))
    BY VisibleGood, ShrunkSame
  <2>2. CASE p = r /\ w = v
    BY <1>2, <2>2
  <2>3. CASE ~(p = r /\ w = v)
    <3>1. Visible(p, w)' = Visible(p, w)
      BY <1>1, <2>3, ConstantsAssumption DEF Visible
    <3> QED BY <2>1, <3>1
  <2> QED BY <2>2, <2>3
<1> QED BY <1>2, <1>3, <1>4 DEF SeesLess

\* Such a write keeps the split, given that the request goes on in order and only uses a
\* new slot on a row when it sees the earlier ones empty.
LEMMA WriteSplit ==
    ASSUME IInv, IInv', SplitInv, LocksEndWithTransaction, NEW r \in Requests, NEW v \in Rows,
           CanLock(r, v), UNCHANGED stock, owner'[v] = r,
           \A w \in Rows \ {v} : draft'[w] = draft[w] /\ owner'[w] = owner[w],
           Shrunk(draft'[v], draft[v]),
           \A p \in Requests \ {r} : tx'[p] = tx[p], InOrder(r)',
           \A p \in Requests, i \in Items :
              /\ draft[v].alloc[<<p, i>>].status = "NONE"
              /\ draft'[v].alloc[<<p, i>>].status # "NONE"
              => p = r /\ \A w \in Earlier(i, v) : Visible(r, w).available = 0
    PROVE  SplitInv'
<1>1. Recedes /\ \A p \in Requests : SeesLess(p)
  BY WriteSees
<1>2. ASSUME NEW p \in Requests PROVE InOrder(p)'
  <2>1. CASE p # r
    <3>1. InOrder(p) /\ SeesLess(p) /\ tx'[p] = tx[p]
      BY <1>1, <2>1 DEF SplitInv
    <3> QED BY <1>1, <3>1, InOrderKept
  <2> QED BY <2>1
<1>3. ASSUME NEW u \in Rows PROVE Shrunk(draft'[u], stock'[u])
  <2>1. Shrunk(draft[u], stock[u]) /\ stock[u] \in Version /\ draft[u] \in Version
        /\ draft'[u] \in Version
    BY DEF SplitInv, IInv, RowsInv
  <2> QED BY <2>1, ShrunkTwice
<1>4. ASSUME NEW i \in Items, NEW p \in Requests, NEW u \in Candidates[i]
      PROVE  SplitAt(i, p, u)'
  <2>1. u \in Rows /\ SplitAt(i, p, u) /\ Candidates[i] \subseteq Rows
    BY ConstantsAssumption DEF SplitInv
  <2>2. CASE u # v
    <3>1. stock'[u] = stock[u] /\ draft'[u] = draft[u] /\ owner'[u] = owner[u] /\ SeesLess(p)
      BY <1>1, <2>1, <2>2
    <3> QED BY <1>1, <3>1, SplitKept
  <2>3. CASE u = v
    <3>1. Earlier(i, v)' = Earlier(i, v) /\ Earlier(i, v) \subseteq Rows
      BY <2>1 DEF Earlier
    <3>2. ASSUME NEW w \in Rows, Visible(p, w).available = 0 PROVE Visible(p, w)'.available = 0
      <4>1. Good(w, Visible(p, w)') /\ Shrunk(Visible(p, w)', Visible(p, w))
        BY <1>1, VisibleGoodNext DEF SeesLess
      <4> QED BY <3>2, <4>1, ShrunkEmpty
    <3>3. ASSUME draft'[v].alloc[<<p, i>>].status # "NONE", stock[v].alloc[<<p, i>>].status = "NONE"
          PROVE  p = r /\ \A w \in Earlier(i, v) : Visible(p, w).available = 0
      <4>1. CASE draft[v].alloc[<<p, i>>].status # "NONE"
        <5>1. owner[v] = p /\ \A w \in Earlier(i, v) : Visible(p, w).available = 0
          BY <2>1, <2>3, <3>3, <4>1 DEF SplitAt
        <5> QED BY <5>1, ConstantsAssumption DEF CanLock
      <4>2. CASE draft[v].alloc[<<p, i>>].status = "NONE"
        BY <3>3, <4>2
      <4> QED BY <4>1, <4>2
    <3> QED BY <2>1, <2>3, <3>1, <3>2, <3>3 DEF SplitAt
  <2> QED BY <2>2, <2>3
<1> QED BY <1>2, <1>3, <1>4 DEF SplitInv, Shrunk

\* A turn of the reserve or fulfil loop keeps it: it empties the row it is on before it
\* goes to the next.
LEMMA MoveSplit ==
    ASSUME OnlyTakes, IInv, IInv', AllocInv, SplitInv, LocksEndWithTransaction,
           NEW r \in Requests, MoveRow(r)
    PROVE  SplitInv'
<1>0. PICK v : v = RowAt(r)
  OBVIOUS
<1> DEFINE id == SlotAt(r)  q == TakeAt(r)  s == draft[v]  n == draft'[v]  m == MovementOf(r)
<1>1. /\ tx \in [Requests -> Transaction] /\ tx[r].pc = "row" /\ tx[r].at # NoVisit
      /\ ShapeOK(r) /\ v = tx[r].at[3] /\ id = <<tx[r].at[1], tx[r].at[2]>>
      /\ tx[r].at \in Left(r) /\ tx[r].remaining \in Int /\ tx[r].seen \in [Rows -> Int]
      /\ tx[r].visits \subseteq Left(r)
  BY <1>0 DEF IInv, TxInv, AllocInv, MoveRow, RowAt, SlotAt, Transaction, Left
<1>2. /\ v \in Rows /\ id \in Slots /\ s \in Version /\ n \in Version /\ q \in Nat
      /\ id[2] = tx[r].at[2] /\ m \in {"reserve", "fulfil"}
      /\ CanLock(r, v) /\ owner'[v] = r
      /\ \A w \in Rows \ {v} : draft'[w] = draft[w] /\ owner'[w] = owner[w]
      /\ UNCHANGED stock
      /\ n.alloc = [s.alloc EXCEPT ![id] =
                       [status |-> Result(m),
                        quantity |-> IF m = "reserve" THEN q ELSE s.alloc[id].quantity]]
      /\ n.available = s.available + (IF m = "reserve" THEN -q ELSE 0)
  BY <1>0, MoveFacts, TakingJobs
<1>3. n.exists = s.exists
  <2>1. draft' = [draft EXCEPT ![v] = NewVersion(r)] /\ draft \in [Rows -> Version]
    BY <1>0 DEF MoveRow, Write, IInv, RowsInv
  <2>2. NewVersion(r).exists = s.exists
    BY <1>0 DEF NewVersion, ReserveOn, FulfilOn, ReleaseOn, Changed
  <2> QED BY <1>2, <2>1, <2>2
<1>4. /\ Result(m) # "NONE"
      /\ \A x \in Slots : n.alloc[x].status = IF x = id THEN Result(m) ELSE s.alloc[x].status
  <2>1. Result(m) # "NONE"
    BY DEF Result
  <2>2. s.alloc \in [Slots -> Allocation]
    BY <1>2 DEF Version
  <2> HIDE DEF id, q, s, n, m
  <2> QED BY <1>2, <2>1, <2>2
<1>5. Shrunk(n, s)
  <2>1. n.available <= s.available
    <3>1. s.available \in Int
      BY <1>2 DEF Version
    <3> HIDE DEF id, q, s, n, m
    <3> QED BY <1>2, <3>1
  <2> QED BY <1>3, <1>4, <2>1 DEF Shrunk
<1>6. /\ Recedes /\ SeesLess(r) /\ Visible(r, v) = s /\ Visible(r, v)' = n
  <2> HIDE DEF id, q, m
  <2> QED BY <1>2, <1>5, WriteSees
<1>7. /\ InOrder(r)
      /\ \A a \in Left(r) : /\ a[2] = tx[r].at[2] /\ a[3] \in Rows
                             /\ <<a[1], a[2]>> \in Slots
  BY <1>1, LeftRows DEF SplitInv, ShapeOK
<1>8. /\ \A p \in Requests \ {r} : tx'[p] = tx[p]
      /\ tx'[r].job = tx[r].job /\ tx'[r].from = tx[r].from
      /\ \/ tx'[r].pc # "row" \/ tx'[r].at = NoVisit
         \/ /\ tx[r].remaining - q > 0 /\ tx'[r].seen = tx[r].seen /\ Left(r)' = tx[r].visits
            /\ tx'[r].at \in tx[r].visits
            /\ m = "reserve" => \A b \in tx[r].visits : tx'[r].at[3] <= b[3]
  <2>1. CASE tx[r].remaining - q <= 0
    BY <1>1, <2>1 DEF MoveRow, NewTx
  <2>2. CASE ~(tx[r].remaining - q <= 0)
    <3>1. SetVisit(r, tx[r].visits, tx[r].seen, tx[r].remaining - q)
      BY <2>2 DEF MoveRow
    <3>2. tx[r].remaining - q > 0
      BY <1>1, <1>2, <2>2
    <3> HIDE DEF id, q, s, n, m
    <3>3. /\ tx'[r].job = tx[r].job /\ tx'[r].from = tx[r].from
          /\ tx'[r].at \in tx[r].visits \/ tx'[r].at = NoVisit
          /\ \A p \in Requests \ {r} : tx'[p] = tx[p]
      BY <1>1, <3>1, SetVisitFacts
    <3>4. tx'[r].at # NoVisit =>
            /\ tx'[r].seen = tx[r].seen /\ Left(r)' = tx[r].visits
            /\ MovementOf(r) = "reserve" => \A b \in tx[r].visits : tx'[r].at[3] <= b[3]
      BY <1>1, <3>1, NextVisitFirst
    <3> QED BY <3>2, <3>3, <3>4 DEF m
  <2> QED BY <2>1, <2>2
<1>9. MovementOf(r)' = m
  BY <1>8 DEF MovementOf
<1>10. \A w \in Rows : /\ Visible(r, w) \in Version /\ Visible(r, w)' \in Version
                       /\ Visible(r, w)'.available <= Visible(r, w).available
                       /\ Visible(r, w)'.available >= 0
                       /\ Shrunk(Visible(r, w)', Visible(r, w))
  BY <1>6, VisibleGood, VisibleGoodNext, ConstantsAssumption
  DEF SeesLess, Shrunk, Good, InRange
<1> DEFINE Seen == \A p \in Requests, i \in Items :
                        /\ draft[v].alloc[<<p, i>>].status = "NONE"
                        /\ draft'[v].alloc[<<p, i>>].status # "NONE"
                        => p = r /\ \A w \in Earlier(i, v) : Visible(r, w).available = 0
<1>11. ASSUME InOrder(r)', Seen PROVE SplitInv'
  <2>1. /\ v \in Rows /\ CanLock(r, v) /\ UNCHANGED stock /\ owner'[v] = r
        /\ \A w \in Rows \ {v} : draft'[w] = draft[w] /\ owner'[w] = owner[w]
        /\ Shrunk(draft'[v], draft[v])
    BY <1>2, <1>5
  <2>2. \A p \in Requests \ {r} : tx'[p] = tx[p]
    BY <1>8
  <2> HIDE DEF id, q, s, n, m
  <2> QED BY <1>11, <2>1, <2>2, WriteSplit
<1>12. CASE m = "reserve"
  <2>1. PicksInOrder(r)
    BY <1>1, <1>7, <1>12 DEF InOrder
  <2>2. ASSUME NEW p \in Requests, NEW i \in Items,
               s.alloc[<<p, i>>].status = "NONE", n.alloc[<<p, i>>].status # "NONE"
        PROVE  p = r /\ \A w \in Earlier(i, v) : Visible(r, w).available = 0
    <3>1. <<p, i>> \in Slots
      BY DEF Slots
    <3>2. <<p, i>> = id
      BY <1>4, <2>2, <3>1
    <3>3. id[1] = r
      BY <1>12, MoveBlank
    <3>4. p = r /\ i = tx[r].at[2]
      BY <1>1, <3>2, <3>3
    <3>5. ASSUME NEW w \in Earlier(i, v) PROVE Visible(r, w).available = 0
      <4>1. w \in Candidates[tx[r].at[2]] /\ w < tx[r].at[3] /\ stock[w].exists
        BY <1>1, <3>4 DEF Earlier
      <4>2. Visible(r, w).available = 0 \/ \E a \in Left(r) : a[3] = w
        BY <2>1, <4>1 DEF PicksInOrder
      <4>3. ASSUME NEW a \in Left(r), a[3] = w PROVE FALSE
        <5>1. tx[r].at[3] <= w /\ w \in Nat /\ tx[r].at[3] \in Nat
          BY <1>1, <1>2, <1>7, <2>1, <4>3, ConstantsAssumption DEF PicksInOrder
        <5> QED BY SMTT(30), <4>1, <5>1
      <4> QED BY <4>2, <4>3
    <3> QED BY <3>4, <3>5
  <2>3. InOrder(r)'
    <3> SUFFICES ASSUME tx'[r].pc = "row", tx'[r].at # NoVisit PROVE PicksInOrder(r)'
      BY <1>9, <1>12 DEF InOrder
    <3>1. /\ tx[r].remaining - q > 0 /\ tx'[r].seen = tx[r].seen /\ Left(r)' = tx[r].visits
          /\ tx'[r].at \in tx[r].visits
          /\ \A b \in tx[r].visits : tx'[r].at[3] <= b[3]
      BY <1>8, <1>12
    <3>2. tx'[r].at[2] = tx[r].at[2]
      BY <1>1, <1>7, <3>1
    <3>3. n.available = 0
      <4>1. q = Least(tx[r].remaining, tx[r].seen[v]) /\ tx[r].seen[v] \in Int
        BY <1>0, <1>1, <1>2, <1>12 DEF TakeAt
      <4>2. q = tx[r].seen[v]
        BY <1>1, <3>1, <4>1 DEF Least
      <4>3. s.available <= tx[r].seen[v]
        BY <1>1, <1>6, <2>1 DEF PicksInOrder
      <4>4. s.available \in Int /\ n.available \in Int /\ n.available >= 0
        BY <1>2, <1>6, <1>10 DEF Version
      <4>5. n.available = s.available - q
        <5> HIDE DEF id, q, s, n, m
        <5> QED BY <1>2, <1>12, <4>4
      <4> HIDE DEF id, q, s, n, m
      <4> QED BY <1>2, <4>2, <4>3, <4>4, <4>5
    <3>4. ASSUME NEW w \in Candidates[tx[r].at[2]], stock'[w].exists
          PROVE  Visible(r, w)'.available = 0 \/ \E a \in Left(r)' : a[3] = w
      <4>1. w \in Rows /\ stock[w].exists
        BY <1>1, <1>2, <1>7, <3>4, ConstantsAssumption DEF Slots
      <4>2. CASE Visible(r, w).available = 0
        BY <1>10, <4>1, <4>2 DEF Version
      <4>3. CASE Visible(r, w).available # 0
        <5>1. PICK a \in Left(r) : a[3] = w
          BY <2>1, <4>1, <4>3 DEF PicksInOrder
        <5>2. a \in tx[r].visits \/ a = tx[r].at
          BY DEF Left
        <5> QED BY SMTT(30), <1>1, <1>6, <3>1, <3>3, <5>1, <5>2
      <4> QED BY <4>2, <4>3
    <3>5. ASSUME NEW a \in Left(r)'
          PROVE  tx'[r].at[3] <= a[3] /\ Visible(r, a[3])'.available <= tx'[r].seen[a[3]]
      <4>1. a \in tx[r].visits /\ a \in Left(r) /\ a[3] \in Rows
        BY <1>1, <1>7, <3>1, <3>5
      <4>2. Visible(r, a[3]).available <= tx[r].seen[a[3]] /\ tx[r].seen[a[3]] \in Int
        BY <1>1, <2>1, <4>1 DEF PicksInOrder
      <4>3. /\ Visible(r, a[3])'.available <= Visible(r, a[3]).available
            /\ Visible(r, a[3])'.available \in Int /\ Visible(r, a[3]).available \in Int
        BY <1>10, <4>1 DEF Version
      <4> QED BY <3>1, <4>1, <4>2, <4>3
    <3> QED BY <3>2, <3>4, <3>5 DEF PicksInOrder
  <2>4. Seen
    BY <2>2
  <2> QED BY <1>11, <2>3, <2>4
<1>13. CASE m = "fulfil"
  <2>1. ShipsAllocated(r)
    BY <1>1, <1>7, <1>13 DEF InOrder
  <2>2. s.alloc[id].status # "NONE"
    BY <1>1, <1>6, <2>1 DEF ShipsAllocated
  <2>3. ASSUME NEW p \in Requests, NEW i \in Items,
               s.alloc[<<p, i>>].status = "NONE", n.alloc[<<p, i>>].status # "NONE"
        PROVE  FALSE
    <3>1. <<p, i>> \in Slots
      BY DEF Slots
    <3> QED BY <1>4, <2>2, <2>3, <3>1
  <2>4. InOrder(r)'
    <3> SUFFICES ASSUME tx'[r].pc = "row", tx'[r].at # NoVisit PROVE ShipsAllocated(r)'
      BY <1>9, <1>13 DEF InOrder
    <3>1. Left(r)' = tx[r].visits
      BY <1>8
    <3>2. ASSUME NEW a \in tx[r].visits
          PROVE  Visible(r, a[3])'.alloc[<<a[1], a[2]>>].status # "NONE"
      BY <1>1, <1>7, <1>10, <2>1 DEF ShipsAllocated, Shrunk
    <3> QED BY <3>1, <3>2 DEF ShipsAllocated
  <2>5. Seen
    BY <2>3
  <2> QED BY <1>11, <2>4, <2>5
<1> QED BY <1>2, <1>12, <1>13

\* An adjustment that takes keeps it.
LEMMA AdjustSplit ==
    ASSUME OnlyTakes, IInv, IInv', AllocInv, SplitInv, LocksEndWithTransaction,
           NEW r \in Requests, AdjustRow(r)
    PROVE  SplitInv'
<1> DEFINE job == tx[r].job  v == job.row  s == draft[v]  n == draft'[v]
<1>1. /\ v \in Rows /\ CanLock(r, v) /\ owner' = [owner EXCEPT ![v] = r] /\ UNCHANGED stock
      /\ \A w \in Rows \ {v} : draft'[w] = draft[w] /\ owner'[w] = owner[w]
      /\ n.alloc = s.alloc /\ \A p \in Requests \ {r} : tx'[p] = tx[p]
  BY AllocInventory
<1>2. owner \in [Rows -> Requests \cup {Free}] /\ draft \in [Rows -> Version]
  BY DEF IInv, RowsInv
<1>3. n = AdjustOn(s, job.type, job.quantity) /\ owner'[v] = r
  BY <1>1, <1>2 DEF AdjustRow, Write
<1>4. /\ Delta(job.type, job.quantity) <= 0 /\ Delta(job.type, job.quantity) \in Int
  <2>1. TxOK(r) /\ tx[r].pc = "adjust"
    BY DEF IInv, TxInv, AdjustRow
  <2>2. job.quantity \in Int
    BY <2>1 DEF TxOK, AdjustJobs
  <2> QED BY <2>2, TakingJobs DEF Delta
<1>5. Shrunk(n, s)
  <2>1. s.available \in Int /\ s \in Version
    BY <1>1, <1>2 DEF Version
  <2>2. n.exists = s.exists /\ n.available = s.available + Delta(job.type, job.quantity)
    BY <1>3 DEF AdjustOn, Changed
  <2> HIDE DEF job, v, s, n
  <2> QED BY <1>1, <1>4, <2>1, <2>2 DEF Shrunk
<1>6. InOrder(r)'
  BY DEF AdjustRow, IInv, TxInv, NewTx, InOrder
<1>7. \A p \in Requests, i \in Items :
         s.alloc[<<p, i>>].status = "NONE" => n.alloc[<<p, i>>].status = "NONE"
  BY <1>1
<1> HIDE DEF v, job
<1> QED BY <1>1, <1>3, <1>5, <1>6, <1>7, WriteSplit

\* At the start nothing is allocated.
LEMMA SplitInit == Init => SplitInv
<1> SUFFICES ASSUME Init PROVE SplitInv
  OBVIOUS
<1>1. /\ \A v \in Rows : stock[v] = OpeningVersion(v) /\ draft[v] = OpeningVersion(v)
      /\ \A r \in Requests : tx[r].pc = "idle"
  BY DEF Init, Idle, NewTx
<1>2. \A v \in Rows : Shrunk(draft[v], stock[v])
  BY <1>1, OpeningGood, ShrunkSame DEF Good
<1>3. ASSUME NEW i \in Items, NEW p \in Requests, NEW v \in Candidates[i]
      PROVE  SplitAt(i, p, v)
  <2>1. v \in Rows /\ <<p, i>> \in Slots
    BY ConstantsAssumption DEF Slots
  <2>2. OpeningVersion(v).alloc[<<p, i>>].status = "NONE"
    BY <2>1 DEF OpeningVersion
  <2> QED BY <1>1, <2>1, <2>2 DEF SplitAt
<1>4. \A r \in Requests : InOrder(r)
  BY <1>1 DEF InOrder
<1> QED BY <1>2, <1>3, <1>4 DEF SplitInv

\* Every step keeps the split, and what is committed only shrinks.
LEMMA SplitNext ==
    ASSUME OnlyTakes, IInv, IInv', AllocInv, LocksEndWithTransaction, SplitInv, [Next]_vars
    PROVE  SplitInv' /\ Recedes
<1>1. CASE UNCHANGED vars
  <2>1. UNCHANGED <<stock, draft, owner, tx>>
    BY <1>1 DEF vars
  <2>2. /\ \A p \in Requests, w \in Rows : Visible(p, w)' = Visible(p, w)
        /\ \A p \in Requests : MovementOf(p)' = MovementOf(p) /\ Left(p)' = Left(p)
        /\ \A i \in Items : \A v \in Candidates[i] : Earlier(i, v)' = Earlier(i, v)
    BY <2>1 DEF Visible, MovementOf, Left, Earlier
  <2>3. Recedes
    BY <2>1, ShrunkSame DEF IInv, RowsInv, Recedes
  <2>4. ASSUME NEW p \in Requests PROVE InOrder(p)' /\ SeesLess(p)
    <3>1. SeesLess(p)
      BY <2>2, VisibleGood, ShrunkSame DEF SeesLess
    <3>2. InOrder(p) /\ tx'[p] = tx[p]
      BY <2>1 DEF SplitInv
    <3> QED BY <2>3, <3>1, <3>2, InOrderKept
  <2>5. ASSUME NEW i \in Items, NEW p \in Requests, NEW v \in Candidates[i]
        PROVE  SplitAt(i, p, v)'
    <3>1. stock'[v] = stock[v] /\ draft'[v] = draft[v] /\ owner'[v] = owner[v] /\ SeesLess(p)
      BY <2>1, <2>4
    <3> QED BY <2>3, <3>1, SplitKept
  <2>6. \A v \in Rows : Shrunk(draft[v], stock[v])'
    BY <2>1 DEF SplitInv, Shrunk
  <2> QED BY <2>3, <2>4, <2>5, <2>6 DEF SplitInv
<1>2. CASE Next
  <2>1. PICK r \in Requests :
              \/ Receive(r) \/ Rollback(r) \/ CommitStatus(r) \/ CommitStock(r)
              \/ MoveRow(r) \/ AdjustRow(r) \/ CreateRow(r)
              \/ \E i \in Items : BeginReserve(r, i) \/ BeginSettle(r, i)
    BY <1>2, Steps
  <2>2. CASE Rollback(r) \/ CommitStatus(r) \/ CommitStock(r)
    <3>1. Rollback(r) \/ Publish(r)
      BY <2>2 DEF CommitStatus, CommitStock
    <3> QED BY <3>1, EndSplit, EndRecedes
  <2>3. CASE ~(Rollback(r) \/ CommitStatus(r) \/ CommitStock(r))
    <3>1. UNCHANGED stock
      BY <2>1, <2>3 DEF Receive, ReceiveStatus, ReceiveAdjust, ReceiveInitialize, MoveRow,
         AdjustRow, CreateRow, BeginReserve, BeginSettle, rowVars
    <3>2. Recedes
      BY <3>1, ShrunkSame DEF IInv, RowsInv, Recedes
    <3>3. SplitInv'
      BY <2>1, <2>3, TakingJobs, ReceiveSplit, MoveSplit, AdjustSplit, BeginReserveSplit,
         BeginSettleSplit
    <3> QED BY <3>2, <3>3
  <2> QED BY <2>2, <2>3
<1> QED BY <1>1, <1>2

\* When nothing puts stock back while orders are picked and shipped, an order takes from
\* a warehouse only if every earlier warehouse of its store has nothing left once the
\* order is committed, whatever other orders and sales take at the same time.
THEOREM SplitInWarehouseOrder ==
    ASSUME OnlyTakes
    PROVE  Spec => SplitFollowsWarehouseOrder
<1>1. Init => SplitInv
  BY SplitInit
<1>2. IInv /\ IInv' /\ AllocInv /\ LocksEndWithTransaction /\ SplitInv /\ [Next]_vars => SplitInv'
  BY SplitNext
<1>3. ASSUME IInv, IInv', AllocInv, LocksEndWithTransaction, SplitInv, [Next]_vars
      PROVE  [\A i \in Items, r \in Requests, v \in Rows, w \in Rows :
                /\ {v, w} \subseteq Candidates[i] /\ w < v /\ stock[w].exists
                /\ stock'[v].alloc[<<r, i>>].status # stock[v].alloc[<<r, i>>].status
                => stock'[w].available = 0]_vars
  <2> SUFFICES ASSUME NEW i \in Items, NEW r \in Requests, NEW v \in Rows, NEW w \in Rows,
                      {v, w} \subseteq Candidates[i], w < v, stock[w].exists,
                      stock'[v].alloc[<<r, i>>].status # stock[v].alloc[<<r, i>>].status
               PROVE  stock'[w].available = 0
    OBVIOUS
  <2>1. SplitInv' /\ Recedes
    BY <1>3, SplitNext
  <2>2. stock'[v].alloc[<<r, i>>].status # "NONE"
    <3>1. <<r, i>> \in Slots
      BY DEF Slots
    <3> QED BY <2>1, <3>1 DEF Recedes, Shrunk
  <2>3. SplitAt(i, r, v)'
    BY <2>1 DEF SplitInv
  <2>4. w \in Earlier(i, v)'
    BY <2>1 DEF Earlier, Recedes, Shrunk
  <2> QED BY <2>2, <2>3, <2>4 DEF SplitAt
<1> QED BY <1>1, <1>2, <1>3, Invariance, AllocAlways, LocksReleased, PTL DEF Spec, SplitFollowsWarehouseOrder
=============================================================================
