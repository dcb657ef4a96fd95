---------------------------- MODULE MCStorefront ----------------------------
(***************************************************************************)
(* A draft and a published product, of which the published one has a SKU;  *)
(* a store that is connected to a shop and one that is not yet.            *)
(***************************************************************************)
EXTENDS Storefront, TLC

CONSTANTS p1, p2, p3, s1, s2, s3, st1, st2, st3, w1, w2, A, B, C, n1, n2, x, east, west

Symmetry == Permutations(Requests)

Drafts == p1 :> "DRAFT" @@ p2 :> "PUBLISHED" @@ p3 :> None
NoSku == [of |-> None, code |-> None]
OneSku == s1 :> [of |-> p2, code |-> A] @@ s2 :> NoSku @@ s3 :> NoSku
TwoStores == st1 :> [name |-> A, active |-> TRUE] @@ st2 :> [name |-> B, active |-> TRUE]
             @@ st3 :> [name |-> None, active |-> FALSE]
East == st1 :> east @@ st2 :> None

Edits ==
    {[op |-> "createProduct", product |-> p3, codes |-> s3 :> A],
     [op |-> "updateProduct", product |-> p1],
     [op |-> "addSku", product |-> p2, sku |-> s2, code |-> A],
     [op |-> "addSku", product |-> p2, sku |-> s2, code |-> B],
     [op |-> "updateSku", product |-> p2, sku |-> s1, code |-> B],
     [op |-> "deleteSku", product |-> p2, sku |-> s1]}
Reviews == [op : {"updateStatus"}, product : {p1}, to : Statuses]
Places ==
    {[op |-> "createStore", store |-> st3, name |-> A],
     [op |-> "createStore", store |-> st3, name |-> C],
     [op |-> "updateStore", store |-> st1, name |-> A, active |-> FALSE],
     [op |-> "updateStore", store |-> st1, name |-> B, active |-> TRUE],
     [op |-> "createWarehouse", warehouse |-> w1, store |-> st1, name |-> A],
     [op |-> "createWarehouse", warehouse |-> w2, store |-> st1, name |-> A],
     [op |-> "updateWarehouse", warehouse |-> w1, name |-> B]}
Sales ==
    {[op |-> "createOrder", store |-> st1, lines |-> {s1}, no |-> n1, status |-> "PAID"],
     [op |-> "startOAuth", store |-> st2],
     [op |-> "completeOAuth", store |-> st2, shop |-> west],
     [op |-> "completeOAuth", store |-> st2, shop |-> east],
     [op |-> "webhook", shop |-> east, ext |-> x, lines |-> {s1}, no |-> n1,
      status |-> "PENDING_PAYMENT"],
     [op |-> "webhook", shop |-> east, ext |-> x, lines |-> {s1}, no |-> n2,
      status |-> "PAID"]}
AllJobs == Edits \cup Reviews \cup Places \cup Sales
=============================================================================
