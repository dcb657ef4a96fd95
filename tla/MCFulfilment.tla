---------------------------- MODULE MCFulfilment ----------------------------
(***************************************************************************)
(* Small instances of Fulfilment.  One SKU in the rows 1 and 2 (two        *)
(* warehouses of one store); row 2 opens with a locked unit, like the      *)
(* seed's inventory, and row 3 is not created yet.                         *)
(***************************************************************************)
EXTENDS Fulfilment, TLC

CONSTANTS o1, o2, i1, i2, j1, j2

Symmetry == Permutations(Requests)

\* o1 needs both warehouses, o2 competes with it for one unit.
TwoOrders == i1 :> o1 @@ i2 :> o2
TwoOne == i1 :> 2 @@ i2 :> 1
OnRows12 == i1 :> {1, 2} @@ i2 :> {1, 2}
BothPaid == o1 :> "PAID" @@ o2 :> "PAID"
PaidAndPending == o1 :> "PAID" @@ o2 :> "PENDING_PAYMENT"

Row(exists, available, locked) ==
    [exists |-> exists, available |-> available, locked |-> locked]
TwoAndOne == <<Row(TRUE, 1, 0), Row(TRUE, 2, 1)>>

Change(o, to) == [kind |-> "status", order |-> o, to |-> to]
Adjust(v, type, q) == [kind |-> "adjust", row |-> v, type |-> type, quantity |-> q]

LifecycleJobs ==
    {Change(o1, to) : to \in {"PICKING", "SHIPPED", "COMPLETED", "CANCELLED", "REFUNDED"}}
        \cup {Change(o2, to) : to \in {"PAID", "PICKING", "CANCELLED"}}
        \cup {Adjust(1, "SALE", 1), Adjust(2, "RESTOCK", 1)}

\* Overlapping changes of one order, while its second warehouse is being set up.
OneOrder == i1 :> o1
Two == i1 :> 2
OneOnRows12 == i1 :> {1, 2}
OneOpen == <<Row(TRUE, 2, 1), Row(FALSE, 0, 0)>>
OnePaid == o1 :> "PAID"
Create(v, q) == [kind |-> "initialize", row |-> v, quantity |-> q]
RaceJobs ==
    {Change(o1, to) : to \in {"PICKING", "SHIPPED", "CANCELLED"}}
        \cup {Create(2, 2), Adjust(1, "ADJUSTMENT", -1), Adjust(2, "SALE", 0)}

\* Two orders of the SKUs on rows 1 and 2 and on row 3: picked at the same time, they
\* may lock the rows in opposite orders.
TwoBaskets == i1 :> o1 @@ j1 :> o1 @@ i2 :> o2 @@ j2 :> o2
BasketQuantities == i1 :> 2 @@ j1 :> 1 @@ i2 :> 1 @@ j2 :> 1
BasketRows == i1 :> {1, 2} @@ i2 :> {1, 2} @@ j1 :> {3} @@ j2 :> {3}
BasketStock == <<Row(TRUE, 1, 0), Row(TRUE, 2, 0), Row(TRUE, 2, 0)>>
PickJobs == {Change(o1, "PICKING"), Change(o2, "PICKING"), Adjust(3, "SALE", 1)}
=============================================================================
