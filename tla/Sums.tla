-------------------------------- MODULE Sums --------------------------------
(***************************************************************************)
(* Laws of SumFunctionOnSet(f, S), the sum of f[x] over a finite set S.    *)
(*                                                                         *)
(* Functions defines the sum by a recursive function that takes the        *)
(* elements out in an order of its own.  What a recursive function returns *)
(* for every finite set is proved here without an induction scheme: a set  *)
(* of subsets of S for which a law failed would have a smallest member     *)
(* (the strict subset ordering is well founded), and one element taken out *)
(* of that member leads to a contradiction.                                *)
(***************************************************************************)
EXTENDS Integers, FiniteSets, Functions, FiniteSetTheorems, TLAPS

\* Among some subsets of a finite set, one has none of the others below it.
LEMMA Smallest ==
    ASSUME NEW S, IsFiniteSet(S), NEW B, B \subseteq SUBSET S, B # {}
    PROVE  \E m \in B : \A t \in B : t \subseteq m => t = m
<1>1. IsWellFoundedOn(StrictSubsetOrdering(S), FiniteSubsetsOf(S)) /\ FiniteSubsetsOf(S) = SUBSET S
  BY FS_StrictSubsetOrderingWellFounded, FS_FiniteSubsetsOfFinite
<1>2. PICK m \in B : \A t \in B : <<t, m>> \notin StrictSubsetOrdering(S)
  BY <1>1, WFMin
<1>3. ASSUME NEW t \in B, t \subseteq m PROVE t = m
  <2>1. SUFFICES ASSUME t # m PROVE FALSE
    OBVIOUS
  <2>2. <<t, m>> \in StrictSubsetOrdering(S)
    BY <1>3, <2>1 DEF StrictSubsetOrdering
  <2> QED BY <1>2, <2>2
<1> QED BY <1>2, <1>3

(***************************************************************************)
(* The recursive function behind the sum.                                  *)
(***************************************************************************)
First(s) == CHOOSE x \in s : TRUE

Walk(g, f, S) ==
    g = [s \in SUBSET S |-> IF s = {} THEN 0 ELSE f[First(s)] + g[s \ {First(s)}]]

\* The sum is what the walk over S says of S.
LEMMA SumIsWalk ==
    ASSUME NEW f, NEW S
    PROVE  SumFunctionOnSet(f, S) = (CHOOSE g : Walk(g, f, S))[S]
BY DEF SumFunctionOnSet, FoldFunctionOnSet, MapThenFoldSet, Walk, First

\* A walk over a set and one over a subset agree where both are defined.
LEMMA WalksAgree ==
    ASSUME NEW f, NEW S, IsFiniteSet(S), NEW T \in SUBSET S, NEW g, Walk(g, f, S),
           NEW h, Walk(h, f, T)
    PROVE  \A t \in SUBSET T : g[t] = h[t]
<1> DEFINE B == {t \in SUBSET T : g[t] # h[t]}
<1>1. SUFFICES ASSUME B # {} PROVE FALSE
  OBVIOUS
<1>2. PICK m \in B : \A t \in B : t \subseteq m => t = m
  <2>1. IsFiniteSet(T) /\ B \subseteq SUBSET T
    BY FS_Subset
  <2> HIDE DEF B
  <2> QED BY <1>1, <2>1, Smallest
<1>3. g[m] = IF m = {} THEN 0 ELSE f[First(m)] + g[m \ {First(m)}]
  BY DEF Walk
<1>4. h[m] = IF m = {} THEN 0 ELSE f[First(m)] + h[m \ {First(m)}]
  BY DEF Walk
<1>5. m # {}
  BY <1>2, <1>3, <1>4
<1>6. First(m) \in m
  BY <1>5 DEF First
<1>7. m \ {First(m)} \subseteq m /\ m \ {First(m)} # m /\ m \ {First(m)} \in SUBSET T
  BY <1>6
<1>8. m \ {First(m)} \notin B
  BY <1>2, <1>7
<1>9. g[m \ {First(m)}] = h[m \ {First(m)}]
  BY <1>7, <1>8
<1> QED
  BY <1>2, <1>3, <1>4, <1>5, <1>9

\* There is a walk over every finite set.
LEMMA WalkExists ==
    ASSUME NEW f, NEW S, IsFiniteSet(S)
    PROVE  \E g : Walk(g, f, S)
<1> DEFINE B == {t \in SUBSET S : ~\E g : Walk(g, f, t)}
<1>1. SUFFICES ASSUME B # {} PROVE FALSE
  OBVIOUS
<1>2. PICK m \in B : \A t \in B : t \subseteq m => t = m
  <2>1. B \subseteq SUBSET S
    OBVIOUS
  <2> HIDE DEF B
  <2> QED BY <1>1, <2>1, Smallest
<1> DEFINE W(t) == CHOOSE h : Walk(h, f, t)
<1>3. \A t \in SUBSET m : t # m => Walk(W(t), f, t)
  <2>1. SUFFICES ASSUME NEW t \in SUBSET m, t # m PROVE Walk(W(t), f, t)
    OBVIOUS
  <2>2. t \in SUBSET S /\ t \notin B
    BY <1>2, <2>1
  <2>3. \E g : Walk(g, f, t)
    BY <2>2
  <2> QED BY <2>3
<1> DEFINE V(t) == W(t)[t]
           G == [s \in SUBSET m |-> IF s = {} THEN 0 ELSE f[First(s)] + V(s \ {First(s)})]
<1> HIDE DEF W
<1>4. ASSUME NEW u \in SUBSET m, u # m PROVE V(u) = G[u]
  <2>1. Walk(W(u), f, u) /\ IsFiniteSet(u)
    BY <1>3, <1>4, FS_Subset
  <2>2. W(u)[u] = IF u = {} THEN 0 ELSE f[First(u)] + W(u)[u \ {First(u)}]
    BY <2>1 DEF Walk
  <2>3. CASE u = {}
    BY <2>2, <2>3
  <2>4. CASE u # {}
    <3> DEFINE w == u \ {First(u)}
    <3>1. First(u) \in u
      BY <2>4 DEF First
    <3>2. w \in SUBSET u /\ w \in SUBSET m /\ w # m
      BY <3>1
    <3>3. Walk(W(w), f, w)
      BY <1>3, <3>2
    <3> HIDE DEF w
    <3>4. W(u)[w] = W(w)[w]
      BY <2>1, <3>2, <3>3, WalksAgree
    <3> QED BY <2>2, <2>4, <3>4 DEF w
  <2> QED BY <2>3, <2>4
<1>5. ASSUME NEW s \in SUBSET m, s # {}
      PROVE  V(s \ {First(s)}) = G[s \ {First(s)}]
  <2> HIDE DEF G, V
  <2>1. First(s) \in s
    BY <1>5 DEF First
  <2>2. s \ {First(s)} \in SUBSET m /\ s \ {First(s)} # m
    BY <2>1
  <2> QED BY <1>4, <2>2
<1>6. G = [s \in SUBSET m |-> IF s = {} THEN 0 ELSE f[First(s)] + G[s \ {First(s)}]]
  <2> DEFINE R == [s \in SUBSET m |-> IF s = {} THEN 0 ELSE f[First(s)] + G[s \ {First(s)}]]
  <2> HIDE DEF V
  <2>1. ASSUME NEW s \in SUBSET m PROVE G[s] = R[s]
    <3>1. G[s] = IF s = {} THEN 0 ELSE f[First(s)] + V(s \ {First(s)})
      OBVIOUS
    <3> HIDE DEF G
    <3>2. R[s] = IF s = {} THEN 0 ELSE f[First(s)] + G[s \ {First(s)}]
      OBVIOUS
    <3> QED BY <1>5, <3>1, <3>2
  <2>2. DOMAIN G = SUBSET m /\ DOMAIN R = SUBSET m
    OBVIOUS
  <2>3. G = [s \in SUBSET m |-> G[s]] /\ R = [s \in SUBSET m |-> R[s]]
    OBVIOUS
  <2> HIDE DEF G, R
  <2>4. G = R
    BY <2>1, <2>3
  <2> QED BY <2>4 DEF R
<1>7. Walk(G, f, m)
  <2> HIDE DEF G
  <2> QED BY <1>6 DEF Walk
<1> QED
  BY <1>2, <1>7

-----------------------------------------------------------------------------
(***************************************************************************)
(* The laws.                                                               *)
(***************************************************************************)
\* The empty sum.
LEMMA SumNone ==
    ASSUME NEW f
    PROVE  SumFunctionOnSet(f, {}) = 0
<1> DEFINE g == CHOOSE h : Walk(h, f, {})
<1>1. Walk(g, f, {})
  BY WalkExists, FS_EmptySet
<1> HIDE DEF g
<1>2. g[{}] = 0
  BY <1>1 DEF Walk
<1> QED BY <1>2, SumIsWalk DEF g

\* The sum takes its elements out one at a time, in an order of its own.
LEMMA SumFirst ==
    ASSUME NEW f, NEW S, IsFiniteSet(S), S # {}
    PROVE  /\ First(S) \in S
           /\ SumFunctionOnSet(f, S)
                = f[First(S)] + SumFunctionOnSet(f, S \ {First(S)})
<1> DEFINE T == S \ {First(S)}
           g == CHOOSE h : Walk(h, f, S)
           k == CHOOSE h : Walk(h, f, T)
<1>1. First(S) \in S
  BY DEF First
<1>2. IsFiniteSet(T) /\ T \in SUBSET S
  BY FS_Subset
<1>3. Walk(g, f, S) /\ Walk(k, f, T)
  <2>1. (\E h : Walk(h, f, S)) /\ (\E h : Walk(h, f, T))
    BY <1>2, WalkExists
  <2> QED BY <2>1
<1>4. SumFunctionOnSet(f, S) = g[S] /\ SumFunctionOnSet(f, T) = k[T]
  BY SumIsWalk
<1> HIDE DEF g, k
<1>5. g[S] = f[First(S)] + g[T]
  BY <1>3 DEF Walk
<1> HIDE DEF T
<1>6. g[T] = k[T]
  BY <1>2, <1>3, WalksAgree
<1> QED BY <1>1, <1>4, <1>5, <1>6 DEF T

\* A sum of integers is an integer, a sum of naturals a natural number.
LEMMA SumType ==
    ASSUME NEW f, NEW S, IsFiniteSet(S), \A x \in S : f[x] \in Int
    PROVE  /\ SumFunctionOnSet(f, S) \in Int
           /\ (\A x \in S : f[x] >= 0) => SumFunctionOnSet(f, S) >= 0
<1> DEFINE T(t) == SumFunctionOnSet(f, t)
           OK(t) == T(t) \in Int /\ ((\A x \in S : f[x] >= 0) => T(t) >= 0)
           B == {t \in SUBSET S : ~OK(t)}
<1>1. SUFFICES ASSUME B # {} PROVE FALSE
  OBVIOUS
<1>2. PICK m \in B : \A t \in B : t \subseteq m => t = m
  <2>1. B \subseteq SUBSET S
    OBVIOUS
  <2> HIDE DEF B
  <2> QED BY <1>1, <2>1, Smallest
<1>3. m # {}
  <2>1. T({}) = 0
    BY SumNone
  <2>2. OK({})
    BY <2>1
  <2> HIDE DEF OK
  <2> QED BY <1>2, <2>2
<1>4. IsFiniteSet(m)
  BY FS_Subset
<1>5. First(m) \in m /\ T(m) = f[First(m)] + T(m \ {First(m)})
  BY <1>3, <1>4, SumFirst
<1>6. OK(m \ {First(m)})
  BY <1>2, <1>5
<1> HIDE DEF T
<1> QED
  BY <1>2, <1>5, <1>6

\* Functions that agree on a set have the same sum over it.
LEMMA SumSame ==
    ASSUME NEW f, NEW g, NEW S, IsFiniteSet(S), \A x \in S : f[x] = g[x]
    PROVE  SumFunctionOnSet(f, S) = SumFunctionOnSet(g, S)
<1> DEFINE F(t) == SumFunctionOnSet(f, t)  G(t) == SumFunctionOnSet(g, t)
           B == {t \in SUBSET S : F(t) # G(t)}
<1>1. SUFFICES ASSUME B # {} PROVE FALSE
  OBVIOUS
<1>2. PICK m \in B : \A t \in B : t \subseteq m => t = m
  <2>1. B \subseteq SUBSET S
    OBVIOUS
  <2> HIDE DEF B
  <2> QED BY <1>1, <2>1, Smallest
<1>3. m # {}
  BY <1>2, SumNone
<1>4. IsFiniteSet(m)
  BY FS_Subset
<1>5. /\ First(m) \in m /\ F(m) = f[First(m)] + F(m \ {First(m)})
      /\ G(m) = g[First(m)] + G(m \ {First(m)})
  BY <1>3, <1>4, SumFirst
<1>6. F(m \ {First(m)}) = G(m \ {First(m)})
  BY <1>2, <1>5
<1> HIDE DEF F, G
<1> QED
  BY <1>2, <1>5, <1>6

\* Any element can be taken out of a sum of integers.
LEMMA SumTakeOut ==
    ASSUME NEW f, NEW S, IsFiniteSet(S), \A x \in S : f[x] \in Int, NEW x \in S
    PROVE  SumFunctionOnSet(f, S) = f[x] + SumFunctionOnSet(f, S \ {x})
<1> DEFINE T(t) == SumFunctionOnSet(f, t)
           OK(t) == \A y \in t : T(t) = f[y] + T(t \ {y})
           B == {t \in SUBSET S : ~OK(t)}
<1>1. SUFFICES ASSUME B # {} PROVE FALSE
  <2>1. S \notin B => OK(S)
    OBVIOUS
  <2> QED BY <2>1
<1>2. PICK m \in B : \A t \in B : t \subseteq m => t = m
  <2>1. B \subseteq SUBSET S
    OBVIOUS
  <2> HIDE DEF B
  <2> QED BY <1>1, <2>1, Smallest
<1>3. PICK y \in m : T(m) # f[y] + T(m \ {y})
  BY <1>2
<1>4. m \in SUBSET S /\ \A t \in SUBSET m : IsFiniteSet(t)
  BY <1>2, FS_Subset
<1> DEFINE p == First(m)
<1>5. p \in m /\ T(m) = f[p] + T(m \ {p})
  BY <1>3, <1>4, SumFirst
<1>6. p # y
  BY <1>3, <1>5
<1>7. OK(m \ {p}) /\ OK(m \ {y})
  <2>1. m \ {p} \in SUBSET S /\ m \ {y} \in SUBSET S /\ m \ {p} # m /\ m \ {y} # m
    BY <1>3, <1>4, <1>5
  <2>2. m \ {p} \notin B /\ m \ {y} \notin B
    BY <1>2, <2>1
  <2> HIDE DEF OK
  <2> QED BY <2>1, <2>2
<1>8. T(m \ {p}) = f[y] + T((m \ {p}) \ {y})
  BY <1>3, <1>6, <1>7
<1>9. T(m \ {y}) = f[p] + T((m \ {y}) \ {p})
  BY <1>5, <1>6, <1>7
<1>10. (m \ {p}) \ {y} = (m \ {y}) \ {p}
  OBVIOUS
<1>11. f[p] \in Int /\ f[y] \in Int /\ T((m \ {p}) \ {y}) \in Int
  <2>1. IsFiniteSet((m \ {p}) \ {y}) /\ (\A z \in (m \ {p}) \ {y} : f[z] \in Int)
    BY <1>4
  <2> QED BY <1>3, <1>4, <1>5, <2>1, SumType
<1>12. \E n, c, d \in Int : T(m) = c + (d + n) /\ f[y] + T(m \ {y}) = d + (c + n)
  <2> HIDE DEF T, p
  <2> QED BY <1>5, <1>8, <1>9, <1>10, <1>11
<1> HIDE DEF T, p
<1> QED
  BY <1>3, <1>12

\* Elements that count for nothing can be left out.
LEMMA SumPart ==
    ASSUME NEW f, NEW S, IsFiniteSet(S), NEW T \in SUBSET S, \A x \in S : f[x] \in Int,
           \A x \in S \ T : f[x] = 0
    PROVE  SumFunctionOnSet(f, S) = SumFunctionOnSet(f, T)
<1> DEFINE F(t) == SumFunctionOnSet(f, t)
           B == {t \in SUBSET S : T \subseteq t /\ F(t) # F(T)}
<1>1. SUFFICES ASSUME B # {} PROVE FALSE
  OBVIOUS
<1>2. PICK m \in B : \A t \in B : t \subseteq m => t = m
  <2>1. B \subseteq SUBSET S
    OBVIOUS
  <2> HIDE DEF B
  <2> QED BY <1>1, <2>1, Smallest
<1>3. PICK x \in m \ T : TRUE
  BY <1>2
<1>4. F(m) = f[x] + F(m \ {x}) /\ F(m \ {x}) \in Int
  <2>1. IsFiniteSet(m) /\ IsFiniteSet(m \ {x})
    BY <1>2, FS_Subset
  <2> QED BY <1>2, <2>1, SumTakeOut, SumType
<1>5. F(m \ {x}) = F(T)
  BY <1>2, <1>3
<1>6. f[x] = 0 /\ F(m) # F(T)
  BY <1>2, <1>3
<1> HIDE DEF F
<1> QED
  BY <1>4, <1>5, <1>6

\* A sum of nothing but zeros.
LEMMA SumZero ==
    ASSUME NEW f, NEW S, IsFiniteSet(S), \A x \in S : f[x] = 0
    PROVE  SumFunctionOnSet(f, S) = 0
BY SumPart, SumNone

\* The sum over two sets with no common element.
LEMMA SumSplit ==
    ASSUME NEW f, NEW S, IsFiniteSet(S), NEW T, IsFiniteSet(T), S \cap T = {},
           \A x \in S \cup T : f[x] \in Int
    PROVE  SumFunctionOnSet(f, S \cup T) = SumFunctionOnSet(f, S) + SumFunctionOnSet(f, T)
<1> DEFINE F(t) == SumFunctionOnSet(f, t)
           B == {t \in SUBSET S : F(t \cup T) # F(t) + F(T)}
<1>1. SUFFICES ASSUME B # {} PROVE FALSE
  OBVIOUS
<1>2. PICK m \in B : \A t \in B : t \subseteq m => t = m
  <2>1. B \subseteq SUBSET S
    OBVIOUS
  <2> HIDE DEF B
  <2> QED BY <1>1, <2>1, Smallest
<1>3. F(T) \in Int
  BY SumType
<1>4. m # {}
  <2>1. F({}) = 0 /\ {} \cup T = T
    BY SumNone
  <2>2. F({} \cup T) = F({}) + F(T)
    <3> HIDE DEF F
    <3> QED BY <1>3, <2>1
  <2> QED BY <1>2, <2>2
<1>5. PICK x \in m : TRUE
  BY <1>4
<1>6. IsFiniteSet(m) /\ IsFiniteSet(m \ {x}) /\ IsFiniteSet(m \cup T)
  <2>1. IsFiniteSet(m)
    BY <1>2, FS_Subset
  <2>2. IsFiniteSet(m \ {x})
    BY <2>1, FS_Subset
  <2> QED BY <2>1, <2>2, FS_Union
<1>7. F(m) = f[x] + F(m \ {x}) /\ F(m \ {x}) \in Int /\ f[x] \in Int
  BY SMTT(30), <1>2, <1>6, SumTakeOut, SumType
<1>8. F(m \cup T) = f[x] + F((m \ {x}) \cup T)
  <2>1. (m \cup T) \ {x} = (m \ {x}) \cup T
    BY <1>2, <1>5
  <2> QED BY <1>2, <1>6, <2>1, SumTakeOut
<1>9. F((m \ {x}) \cup T) = F(m \ {x}) + F(T)
  BY <1>2, <1>5
<1>10. F(m \cup T) # F(m) + F(T)
  BY <1>2
<1> HIDE DEF F
<1> QED
  BY <1>3, <1>7, <1>8, <1>9, <1>10

\* A function that differs in one point changes the sum by that difference.
LEMMA SumChange ==
    ASSUME NEW f, NEW g, NEW S, IsFiniteSet(S), NEW y \in S,
           \A x \in S : f[x] \in Int /\ g[x] \in Int,
           \A x \in S \ {y} : g[x] = f[x]
    PROVE  SumFunctionOnSet(g, S) = SumFunctionOnSet(f, S) - f[y] + g[y]
<1> DEFINE U == S \ {y}
<1>1. IsFiniteSet(U)
  BY FS_Subset
<1>2. /\ SumFunctionOnSet(f, S) = f[y] + SumFunctionOnSet(f, U)
      /\ SumFunctionOnSet(g, S) = g[y] + SumFunctionOnSet(g, U)
  BY SumTakeOut
<1>3. SumFunctionOnSet(f, U) = SumFunctionOnSet(g, U) /\ SumFunctionOnSet(f, U) \in Int
  BY <1>1, SumSame, SumType
<1> HIDE DEF U
<1> QED
  BY <1>2, <1>3

\* Of natural numbers, none is more than their sum.
LEMMA SumMember ==
    ASSUME NEW f, NEW S, IsFiniteSet(S), \A x \in S : f[x] \in Nat, NEW y \in S
    PROVE  f[y] <= SumFunctionOnSet(f, S)
<1> DEFINE U == S \ {y}
<1>1. SumFunctionOnSet(f, S) = f[y] + SumFunctionOnSet(f, U)
  BY SumTakeOut
<1>2. SumFunctionOnSet(f, U) \in Int /\ SumFunctionOnSet(f, U) >= 0
  <2>1. IsFiniteSet(U) /\ \A x \in U : f[x] \in Int /\ f[x] >= 0
    BY FS_Subset
  <2> HIDE DEF U
  <2> QED BY <2>1, SumType
<1> HIDE DEF U
<1> QED
  BY <1>1, <1>2

=============================================================================
