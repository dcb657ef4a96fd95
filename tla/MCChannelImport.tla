--------------------------- MODULE MCChannelImport ---------------------------
(***************************************************************************)
(* Small instances of ChannelImport: two connections, of which the second  *)
(* has only one SKU mapped, and batches that overlap in external order and *)
(* in order number.                                                        *)
(***************************************************************************)
EXTENDS ChannelImport, TLC

CONSTANTS c1, c2, x, y, n1, n2, A, B, s1, s2

Symmetry == Permutations(Imports)

P(ext, no, names) == [ext |-> ext, no |-> no, skus |-> names]

\* A merchant's batch that repeats an order, and a webhook of the same order that
\* carries the shop's own order number.
TwoBatches == {<<P(x, n1, {A, B}), P(x, n1, {A, B})>>, <<P(x, n2, {A})>>}
ThreeBatches == TwoBatches \cup {<<P(y, n1, {B})>>}
OneBatch == {<<P(x, n1, {A})>>}

Mapped == c1 :> (s1 :> A @@ s2 :> B) @@ c2 :> (s1 :> A @@ s2 :> None)
AMovesToS2 == {<<c1, s2, A>>, <<c2, s2, B>>}
=============================================================================
