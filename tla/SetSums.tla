------------------------------ MODULE SetSums ------------------------------
(***************************************************************************)
(* Sums over finite sets, for the modules that add up amounts with         *)
(* MapThenSumSet.  It is defined by recursion over the subsets of a set,   *)
(* so what it satisfies is proved here by taking a smallest subset that    *)
(* would be an exception.                                                  *)
(***************************************************************************)
EXTENDS FiniteSetsExt, Integers, FiniteSetTheorems, WellFoundedInduction, TLAPS

SetSum(f, S) == MapThenSumSet(LAMBDA x : f[x], S)

Pick(s) == CHOOSE x \in s : TRUE

\* h gives the sum of every subset of S.
Adds(h, f, S) ==
    h = [s \in SUBSET S |-> IF s = {} THEN 0 ELSE f[Pick(s)] + h[s \ {Pick(s)}]]

\* Among finite sets, of those in B one has no strict subset in B.
LEMMA Smallest ==
    ASSUME NEW S, IsFiniteSet(S), NEW B \in SUBSET SUBSET S, B # {}
    PROVE  \E s \in B : \A t \in SUBSET s : t # s => t \notin B
<1>1. IsWellFoundedOn(StrictSubsetOrdering(S), SUBSET S)
  BY FS_StrictSubsetOrderingWellFounded, FS_FiniteSubsetsOfFinite
<1>2. PICK s \in B : \A t \in B : ~(<<t, s>> \in StrictSubsetOrdering(S))
  BY <1>1, WFMin
<1>3. \A t \in SUBSET s : t # s => t \notin B
  BY <1>2 DEF StrictSubsetOrdering
<1>. QED  BY <1>3

LEMMA AddsAt ==
    ASSUME NEW h, NEW f, NEW S, Adds(h, f, S), NEW s \in SUBSET S
    PROVE  h[s] = IF s = {} THEN 0 ELSE f[Pick(s)] + h[s \ {Pick(s)}]
<1> DEFINE v(s_, h_) == IF s_ = {} THEN 0 ELSE f[Pick(s_)] + h_[s_ \ {Pick(s_)}]
<1>1. h = [s_ \in SUBSET S |-> v(s_, h)]
  BY DEF Adds
<1> HIDE DEF v
<1>2. h[s] = v(s, h)
  BY <1>1
<1>. QED  BY <1>2 DEF v

LEMMA PickIn == ASSUME NEW s, s # {} PROVE Pick(s) \in s
  BY DEF Pick

\* Two of them agree where they both are defined.
LEMMA AddsUnique ==
    ASSUME NEW g, NEW h, NEW f, NEW S, NEW T, Adds(g, f, S), Adds(h, f, T),
           NEW U, U \subseteq S, U \subseteq T, IsFiniteSet(U)
    PROVE  g[U] = h[U]
<1> DEFINE B == {s \in SUBSET U : g[s] # h[s]}
<1>1. SUFFICES B = {}
  OBVIOUS
<1>2. SUFFICES ASSUME B # {} PROVE FALSE
  OBVIOUS
<1>3. PICK s \in B : \A t \in SUBSET s : t # s => t \notin B
  <2>1. B \in SUBSET SUBSET U  OBVIOUS
  <2>. HIDE DEF B
  <2>. QED  BY <1>2, <2>1, Smallest
<1>4. s \in SUBSET S /\ s \in SUBSET T /\ g[s] # h[s]
  OBVIOUS
<1>5. s # {}
  BY <1>4, AddsAt
<1>6. g[s \ {Pick(s)}] = h[s \ {Pick(s)}]
  BY <1>3, <1>5, PickIn
<1>. QED  BY <1>4, <1>5, <1>6, AddsAt

LEMMA AddsExists == ASSUME NEW f, NEW S, IsFiniteSet(S) PROVE \E h : Adds(h, f, S)
<1> DEFINE B == {s \in SUBSET S : ~\E h : Adds(h, f, s)}
<1>1. SUFFICES ASSUME B # {} PROVE FALSE
  OBVIOUS
<1>2. PICK U \in B : \A t \in SUBSET U : t # U => t \notin B
  <2>1. B \in SUBSET SUBSET S  OBVIOUS
  <2>. HIDE DEF B
  <2>. QED  BY <1>1, <2>1, Smallest
<1> DEFINE G(t) == CHOOSE h : Adds(h, f, t)
<1>3. \A t \in SUBSET U : t # U => Adds(G(t), f, t)
  BY <1>2
<1>4. \A t \in SUBSET U : IsFiniteSet(t)
  BY FS_Subset
<1> HIDE DEF G
<1> DEFINE top(s) == IF s = {} THEN 0 ELSE f[Pick(s)] + G(s \ {Pick(s)})[s \ {Pick(s)}]
           h == [s \in SUBSET U |-> IF s = U THEN top(s) ELSE G(s)[s]]
<1>5. \A s \in SUBSET U : h[s] = IF s = {} THEN 0 ELSE f[Pick(s)] + h[s \ {Pick(s)}]
  <2>. SUFFICES ASSUME NEW s \in SUBSET U
                PROVE  h[s] = IF s = {} THEN 0 ELSE f[Pick(s)] + h[s \ {Pick(s)}]
    OBVIOUS
  <2> DEFINE t == s \ {Pick(s)}
  <2>1. s # {} => t \in SUBSET U /\ t # U /\ t \subseteq s
    BY PickIn
  <2>2. s # {} => h[t] = G(t)[t]
    BY <2>1
  <2>3. CASE s = U
    BY <2>2, <2>3
  <2>4. CASE s # U
    <3>1. h[s] = G(s)[s]
      BY <2>4
    <3>2. G(s)[s] = IF s = {} THEN 0 ELSE f[Pick(s)] + G(s)[t]
      BY <1>3, <2>4, AddsAt
    <3>3. s # {} => G(s)[t] = G(t)[t]
      <4>1. SUFFICES ASSUME s # {} PROVE G(s)[t] = G(t)[t]
        OBVIOUS
      <4>2. Adds(G(s), f, s) /\ Adds(G(t), f, t) /\ t \subseteq s /\ IsFiniteSet(t)
        BY <1>3, <1>4, <2>1, <2>4, <4>1
      <4>. HIDE DEF t
      <4>. QED  BY <4>2, AddsUnique
    <3>. QED  BY <3>1, <3>2, <3>3, <2>2
  <2>. QED  BY <2>3, <2>4
<1>6. Adds(h, f, U)
  <2>1. h = [s \in SUBSET U |-> h[s]]
    OBVIOUS
  <2>. HIDE DEF h
  <2>. QED  BY <1>5, <2>1 DEF Adds
<1>. QED  BY <1>6

\* Whatever adds up the subsets of S ends with the sum.
LEMMA SumIs ==
    ASSUME NEW f, NEW S, IsFiniteSet(S), NEW h, Adds(h, f, S)
    PROVE  SetSum(f, S) = h[S]
<1>1. SetSum(f, S) = (CHOOSE g : Adds(g, f, S))[S]
  BY DEF SetSum, MapThenSumSet, MapThenFoldSet, Adds, Pick
<1>2. Adds(CHOOSE g : Adds(g, f, S), f, S)
  OBVIOUS
<1>. QED  BY <1>1, <1>2, AddsUnique
----------------------------------------------------------------------------
LEMMA SumEmpty == ASSUME NEW f PROVE SetSum(f, {}) = 0
<1>1. IsFiniteSet({})
  BY FS_EmptySet
<1>2. PICK h : Adds(h, f, {})
  BY <1>1, AddsExists
<1>3. h[{}] = 0
  BY <1>2, AddsAt
<1>. QED  BY <1>1, <1>2, <1>3, SumIs

LEMMA SumPick ==
    ASSUME NEW f, NEW S, IsFiniteSet(S), S # {}
    PROVE  SetSum(f, S) = f[Pick(S)] + SetSum(f, S \ {Pick(S)})
<1> DEFINE T == S \ {Pick(S)}
<1>1. IsFiniteSet(T) /\ T \subseteq S
  BY FS_Subset
<1>2. PICK h : Adds(h, f, S)
  BY AddsExists
<1>3. PICK g : Adds(g, f, T)
  BY <1>1, AddsExists
<1>4. h[T] = g[T]
  <2>. HIDE DEF T
  <2>. QED  BY <1>1, <1>2, <1>3, AddsUnique
<1>5. h[S] = f[Pick(S)] + h[T]
  BY <1>2, AddsAt
<1>6. SetSum(f, S) = h[S]
  BY <1>2, SumIs
<1>7. SetSum(f, T) = g[T]
  <2>. HIDE DEF T
  <2>. QED  BY <1>1, <1>3, SumIs
<1>. QED  BY <1>4, <1>5, <1>6, <1>7

\* Sums of equal functions are equal, and of smaller ones smaller.
LEMMA SumSame ==
    ASSUME NEW f, NEW g, NEW S, IsFiniteSet(S), \A x \in S : f[x] = g[x]
    PROVE  SetSum(f, S) = SetSum(g, S)
<1> DEFINE B == {s \in SUBSET S : SetSum(f, s) # SetSum(g, s)}
<1>1. SUFFICES ASSUME B # {} PROVE FALSE
  OBVIOUS
<1>2. PICK s \in B : \A t \in SUBSET s : t # s => t \notin B
  <2>1. B \in SUBSET SUBSET S  OBVIOUS
  <2>. HIDE DEF B
  <2>. QED  BY <1>1, <2>1, Smallest
<1>3. s # {}
  BY SumEmpty
<1>4. IsFiniteSet(s)
  BY FS_Subset
<1>5. SetSum(f, s \ {Pick(s)}) = SetSum(g, s \ {Pick(s)}) /\ f[Pick(s)] = g[Pick(s)]
  BY <1>2, <1>3, PickIn
<1>. QED  BY <1>3, <1>4, <1>5, SumPick

LEMMA SumInt ==
    ASSUME NEW f, NEW S, IsFiniteSet(S), \A x \in S : f[x] \in Int
    PROVE  SetSum(f, S) \in Int
<1> DEFINE B == {s \in SUBSET S : SetSum(f, s) \notin Int}
<1>1. SUFFICES ASSUME B # {} PROVE FALSE
  OBVIOUS
<1>2. PICK s \in B : \A t \in SUBSET s : t # s => t \notin B
  <2>1. B \in SUBSET SUBSET S  OBVIOUS
  <2>. HIDE DEF B
  <2>. QED  BY <1>1, <2>1, Smallest
<1>3. s # {}
  BY SumEmpty
<1>4. IsFiniteSet(s)
  BY FS_Subset
<1>5. SetSum(f, s \ {Pick(s)}) \in Int /\ f[Pick(s)] \in Int
  BY <1>2, <1>3, PickIn
<1>. QED  BY <1>3, <1>4, <1>5, SumPick

LEMMA SumNat ==
    ASSUME NEW f, NEW S, IsFiniteSet(S), \A x \in S : f[x] \in Nat
    PROVE  SetSum(f, S) \in Nat
<1> DEFINE B == {s \in SUBSET S : SetSum(f, s) \notin Nat}
<1>1. SUFFICES ASSUME B # {} PROVE FALSE
  OBVIOUS
<1>2. PICK s \in B : \A t \in SUBSET s : t # s => t \notin B
  <2>1. B \in SUBSET SUBSET S  OBVIOUS
  <2>. HIDE DEF B
  <2>. QED  BY <1>1, <2>1, Smallest
<1>3. s # {}
  <2>1. SetSum(f, {}) \in Nat
    BY SumEmpty
  <2>. QED  BY <2>1
<1>4. IsFiniteSet(s)
  BY FS_Subset
<1>5. SetSum(f, s \ {Pick(s)}) \in Nat /\ f[Pick(s)] \in Nat
  BY <1>2, <1>3, PickIn
<1>. QED  BY <1>3, <1>4, <1>5, SumPick

LEMMA SumAtMost ==
    ASSUME NEW f, NEW g, NEW S, IsFiniteSet(S), \A x \in S : f[x] \in Int /\ g[x] \in Int,
           \A x \in S : f[x] <= g[x]
    PROVE  SetSum(f, S) <= SetSum(g, S)
<1> DEFINE B == {s \in SUBSET S : ~(SetSum(f, s) <= SetSum(g, s))}
<1>1. SUFFICES ASSUME B # {} PROVE FALSE
  OBVIOUS
<1>2. PICK s \in B : \A t \in SUBSET s : t # s => t \notin B
  <2>1. B \in SUBSET SUBSET S  OBVIOUS
  <2>. HIDE DEF B
  <2>. QED  BY <1>1, <2>1, Smallest
<1>3. s # {}
  BY SumEmpty
<1>4. IsFiniteSet(s)
  BY FS_Subset
<1> DEFINE t == s \ {Pick(s)}
<1>5. SetSum(f, t) <= SetSum(g, t) /\ Pick(s) \in S /\ t \subseteq S /\ IsFiniteSet(t)
  BY <1>2, <1>3, <1>4, PickIn, FS_Subset
<1>6. SetSum(f, t) \in Int /\ SetSum(g, t) \in Int
  <2>. HIDE DEF t
  <2>. QED  BY <1>5, SumInt
<1>7. SetSum(f, s) = f[Pick(s)] + SetSum(f, t) /\ SetSum(g, s) = g[Pick(s)] + SetSum(g, t)
  BY <1>3, <1>4, SumPick
<1>8. f[Pick(s)] \in Int /\ g[Pick(s)] \in Int /\ f[Pick(s)] <= g[Pick(s)]
  BY <1>5
<1>9. SetSum(f, s) <= SetSum(g, s)
  BY <1>5, <1>6, <1>7, <1>8
<1>. QED  BY <1>9

\* Any member may be taken off first.
LEMMA SumTake ==
    ASSUME NEW f, NEW S, IsFiniteSet(S), \A x \in S : f[x] \in Int, NEW a \in S
    PROVE  SetSum(f, S) = f[a] + SetSum(f, S \ {a})
<1> DEFINE B == {s \in SUBSET S : \E x \in s : SetSum(f, s) # f[x] + SetSum(f, s \ {x})}
<1>1. SUFFICES ASSUME B # {} PROVE FALSE
  OBVIOUS
<1>2. PICK s \in B : \A t \in SUBSET s : t # s => t \notin B
  <2>1. B \in SUBSET SUBSET S  OBVIOUS
  <2>. HIDE DEF B
  <2>. QED  BY <1>1, <2>1, Smallest
<1>3. PICK x \in s : SetSum(f, s) # f[x] + SetSum(f, s \ {x})
  OBVIOUS
<1>4. s # {} /\ IsFiniteSet(s) /\ Pick(s) \in s
  BY FS_Subset, PickIn
<1>5. SetSum(f, s) = f[Pick(s)] + SetSum(f, s \ {Pick(s)})
  BY <1>4, SumPick
<1>6. x # Pick(s)
  BY <1>3, <1>5
<1> DEFINE both == (s \ {x}) \ {Pick(s)}
<1>7. SetSum(f, s \ {Pick(s)}) = f[x] + SetSum(f, (s \ {Pick(s)}) \ {x})
  BY <1>2, <1>4, <1>6
<1>8. SetSum(f, s \ {x}) = f[Pick(s)] + SetSum(f, (s \ {x}) \ {Pick(s)})
  BY <1>2, <1>4, <1>6
<1>9. (s \ {Pick(s)}) \ {x} = both /\ IsFiniteSet(both) /\ both \subseteq S
  BY <1>4, FS_Subset
<1>10. SetSum(f, both) \in Int
  <2>. HIDE DEF both
  <2>. QED  BY <1>9, SumInt
<1>11. f[x] \in Int /\ f[Pick(s)] \in Int
  BY <1>4
<1>12. SetSum(f, s \ {Pick(s)}) = f[x] + SetSum(f, both)
  BY <1>7, <1>9
<1> HIDE DEF B, both
<1>13. SetSum(f, s) = f[Pick(s)] + (f[x] + SetSum(f, both))
  BY <1>5, <1>12
<1>14. f[x] + SetSum(f, s \ {x}) = f[x] + (f[Pick(s)] + SetSum(f, both))
  BY <1>8 DEF both
<1>15. f[Pick(s)] + (f[x] + SetSum(f, both)) = f[x] + (f[Pick(s)] + SetSum(f, both))
  BY <1>10, <1>11
<1>. QED  BY <1>3, <1>13, <1>14, <1>15

LEMMA SumAdd ==
    ASSUME NEW f, NEW S, IsFiniteSet(S), NEW a, a \notin S,
           \A x \in S \cup {a} : f[x] \in Int
    PROVE  SetSum(f, S \cup {a}) = f[a] + SetSum(f, S)
<1> DEFINE T == S \cup {a}
<1>1. IsFiniteSet(T) /\ a \in T /\ T \ {a} = S /\ \A x \in T : f[x] \in Int
  BY FS_AddElement
<1>2. SetSum(f, T) = f[a] + SetSum(f, T \ {a})
  <2>. HIDE DEF T
  <2>. QED  BY <1>1, SumTake
<1>. QED  BY <1>1, <1>2
----------------------------------------------------------------------------
\* The sizes of disjoint sets add up to that of their union.
LEMMA SumOfSizes ==
    ASSUME NEW S, IsFiniteSet(S), NEW B, \A x \in S : IsFiniteSet(B[x]),
           \A x, y \in S : x # y => B[x] \cap B[y] = {},
           NEW f, \A x \in S : f[x] = Cardinality(B[x])
    PROVE  /\ IsFiniteSet(UNION {B[x] : x \in S})
           /\ SetSum(f, S) = Cardinality(UNION {B[x] : x \in S})
<1> DEFINE All(s) == UNION {B[x] : x \in s}
           Bad == {s \in SUBSET S : ~(IsFiniteSet(All(s)) /\ SetSum(f, s) = Cardinality(All(s)))}
<1>1. SUFFICES ASSUME Bad # {} PROVE FALSE
  OBVIOUS
<1>2. PICK s \in Bad : \A t \in SUBSET s : t # s => t \notin Bad
  <2>1. Bad \in SUBSET SUBSET S  OBVIOUS
  <2>. HIDE DEF Bad
  <2>. QED  BY <1>1, <2>1, Smallest
<1>3. s # {}
  <2>1. All({}) = {}
    OBVIOUS
  <2>. QED  BY <2>1, SumEmpty, FS_EmptySet
<1>4. IsFiniteSet(s) /\ Pick(s) \in s /\ Pick(s) \in S
  BY <1>3, PickIn, FS_Subset
<1> DEFINE t == s \ {Pick(s)}
<1>5. IsFiniteSet(All(t)) /\ SetSum(f, t) = Cardinality(All(t))
  BY <1>2, <1>4
<1>6. IsFiniteSet(B[Pick(s)]) /\ f[Pick(s)] = Cardinality(B[Pick(s)])
  BY <1>4
<1>7. All(s) = B[Pick(s)] \cup All(t) /\ B[Pick(s)] \cap All(t) = {}
  BY <1>4
<1>8. SetSum(f, s) = f[Pick(s)] + SetSum(f, t)
  BY <1>3, <1>4, SumPick
<1> HIDE DEF t, All
<1>9. /\ IsFiniteSet(All(s))
      /\ Cardinality(All(s)) = Cardinality(B[Pick(s)]) + Cardinality(All(t)) - Cardinality({})
  BY <1>5, <1>6, <1>7, FS_Union
<1>10. Cardinality(All(s)) = Cardinality(B[Pick(s)]) + Cardinality(All(t))
  <2>1. Cardinality(B[Pick(s)]) \in Nat /\ Cardinality(All(t)) \in Nat
    BY <1>5, <1>6, FS_CardinalityType
  <2>. QED  BY <1>9, <2>1, FS_EmptySet
<1>. QED  BY <1>5, <1>6, <1>8, <1>9, <1>10
----------------------------------------------------------------------------
\* A finite set that R orders, totally and transitively, has a first member.
LEMMA SomeIsFirst ==
    ASSUME NEW S, IsFiniteSet(S), S # {}, NEW R,
           \A p, q \in S : <<p, q>> \in R \/ <<q, p>> \in R,
           \A p, q, r \in S : <<p, q>> \in R /\ <<q, r>> \in R => <<p, r>> \in R
    PROVE  \E p \in S : \A q \in S : <<p, q>> \in R
<1> DEFINE B == {s \in SUBSET S : s # {} /\ ~\E p \in s : \A q \in s : <<p, q>> \in R}
<1>1. SUFFICES ASSUME B # {} PROVE FALSE
  OBVIOUS
<1>2. PICK s \in B : \A t \in SUBSET s : t # s => t \notin B
  <2>1. B \in SUBSET SUBSET S  OBVIOUS
  <2>. HIDE DEF B
  <2>. QED  BY <1>1, <2>1, Smallest
<1>3. PICK x \in s : TRUE
  OBVIOUS
<1>4. CASE s = {x}
  BY <1>4
<1>5. CASE s # {x}
  <2>1. s \ {x} # {} /\ s \ {x} \in SUBSET S /\ s \ {x} # s
    BY <1>3, <1>5
  <2>2. PICK m \in s \ {x} : \A q \in s \ {x} : <<m, q>> \in R
    <3>1. s \ {x} \notin B
      BY <1>2, <2>1
    <3>. QED  BY <2>1, <3>1
  <2>3. CASE <<m, x>> \in R
    <3>1. \A q \in s : <<m, q>> \in R
      BY <2>2, <2>3
    <3>. QED  BY <3>1
  <2>4. CASE <<m, x>> \notin R
    <3>1. <<x, m>> \in R /\ <<x, x>> \in R
      BY <2>4
    <3>2. \A q \in s : <<x, q>> \in R
      BY <2>2, <3>1
    <3>. QED  BY <1>3, <3>2
  <2>. QED  BY <2>3, <2>4
<1>. QED  BY <1>4, <1>5
=============================================================================
