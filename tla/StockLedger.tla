---------------------------- MODULE StockLedger ----------------------------
(***************************************************************************)
(* What order fulfilment promises its users, without transactions, locks   *)
(* or retries: each operation happens at once and completely.  Picking an  *)
(* order locks all of every item it has, shipping consumes exactly what    *)
(* the order holds, cancelling gives exactly that back, and an inventory   *)
(* request changes the available quantity of one row and nothing else.     *)
(* A request that fails changes nothing.                                   *)
(***************************************************************************)
EXTENDS Integers, Functions

CONSTANTS Orders, Items, Rows, OrderOf, Quantity, Candidates, MaxInt, Transitions

VARIABLES
    status,     \* the status of each order
    available,  \* units of each row that may still be promised
    locked,     \* units of each row set aside
    held        \* held[i][v]: units of row v set aside for item i

ledger == <<status, available, locked, held>>

ItemsOf(o) == {i \in Items : OrderOf[i] = o}
HeldBy(o, h, v) == SumFunction([i \in ItemsOf(o) |-> h[i][v]])
Nothing == [v \in Rows |-> 0]

Init ==
    /\ available \in [Rows -> 0 .. MaxInt]
    /\ locked \in [Rows -> 0 .. MaxInt]
    /\ held = [i \in Items |-> Nothing]

\* Picking sets aside the whole order from the rows of its store, or does not happen.
Pick(o) ==
    /\ status[o] = "PAID" /\ status' = [status EXCEPT ![o] = "PICKING"]
    /\ held' \in [Items -> [Rows -> 0 .. MaxInt]]
    /\ \A i \in Items :
          IF i \in ItemsOf(o)
          THEN /\ SumFunction(held'[i]) = Quantity[i]
               /\ \A v \in Rows \ Candidates[i] : held'[i][v] = 0
          ELSE held'[i] = held[i]
    /\ available' = [v \in Rows |-> available[v] - HeldBy(o, held', v)]
    /\ locked' = [v \in Rows |-> locked[v] + HeldBy(o, held', v)]
    /\ \A v \in Rows : available'[v] >= 0

LetGo(o) ==
    /\ held' = [i \in Items |-> IF i \in ItemsOf(o) THEN Nothing ELSE held[i]]
    /\ locked' = [v \in Rows |-> locked[v] - HeldBy(o, held, v)]

Ship(o) ==
    /\ status[o] = "PICKING" /\ status' = [status EXCEPT ![o] = "SHIPPED"]
    /\ LetGo(o)
    /\ UNCHANGED available

CancelPicking(o) ==
    /\ status[o] = "PICKING" /\ status' = [status EXCEPT ![o] = "CANCELLED"]
    /\ LetGo(o)
    /\ available' = [v \in Rows |-> available[v] + HeldBy(o, held, v)]

\* The other transitions of the table move no stock.
Move(o, to) ==
    /\ to \in Transitions[status[o]]
    /\ <<status[o], to>> \notin
          {<<"PAID", "PICKING">>, <<"PICKING", "SHIPPED">>, <<"PICKING", "CANCELLED">>}
    /\ status' = [status EXCEPT ![o] = to]
    /\ UNCHANGED <<available, locked, held>>

Restate(v) ==
    /\ available' \in [Rows -> 0 .. MaxInt]
    /\ \A w \in Rows \ {v} : available'[w] = available[w]
    /\ UNCHANGED <<status, locked, held>>

Next ==
    \/ \E o \in Orders : Pick(o) \/ Ship(o) \/ CancelPicking(o)
    \/ \E o \in Orders, to \in DOMAIN Transitions : Move(o, to)
    \/ \E v \in Rows : Restate(v)

Spec == Init /\ [][Next]_ledger
=============================================================================
