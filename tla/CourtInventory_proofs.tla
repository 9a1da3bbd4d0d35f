----------------------- MODULE CourtInventory_proofs ------------------------
(***************************************************************************)
(* The atomic reservation desk never overbooks the court, for every court, *)
(* every set of layouts and any number of reservations.                    *)
(***************************************************************************)
EXTENDS CourtInventory, FiniteSetTheorems, TLAPS

\* Fewer bookings take no more units of an activity.
LEMMA UsageMonotone ==
    ASSUME NEW f, NEW g, NEW S, NEW T, IsFiniteSet(T), S \subseteq T,
           \A i \in S : f[i] = g[i], NEW a
    PROVE  /\ Usage(f, S, a) \in Nat /\ Usage(g, T, a) \in Nat
           /\ Usage(f, S, a) <= Usage(g, T, a)
<1>1. IsFiniteSet(T \X (1 .. MaxQuantity))
  <2>1. 1 \in Int /\ MaxQuantity \in Int
    BY SlotsAssumption DEF SlotsAssumption
  <2>2. IsFiniteSet(1 .. MaxQuantity)
    BY <2>1, FS_Interval
  <2>. QED  BY <2>2, FS_Product
<1>2. Units(g, T, a) \in SUBSET (T \X (1 .. MaxQuantity))
  BY DEF Units
<1>3. Units(f, S, a) \in SUBSET Units(g, T, a)
  BY DEF Units
<1>4. IsFiniteSet(Units(g, T, a))
  BY <1>1, <1>2, FS_Subset
<1>5. IsFiniteSet(Units(f, S, a)) /\ Cardinality(Units(f, S, a)) <= Cardinality(Units(g, T, a))
  BY <1>3, <1>4, FS_Subset
<1>. QED  BY <1>4, <1>5, FS_CardinalityType DEF Usage

\* A layout that can host a set of bookings can host any part of it.
LEMMA SupportsMonotone ==
    ASSUME NEW f, NEW g, NEW S, NEW T, IsFiniteSet(T), S \subseteq T,
           \A i \in S : f[i] = g[i], NEW l \in Layout, Supports(l, g, T)
    PROVE  Supports(l, f, S)
<1> SUFFICES ASSUME NEW a \in Activity PROVE Usage(f, S, a) <= Capacity[l][a]
  BY DEF Supports
<1>1. Usage(f, S, a) \in Nat /\ Usage(g, T, a) \in Nat /\ Usage(f, S, a) <= Usage(g, T, a)
  BY UsageMonotone
<1>2. Usage(g, T, a) <= Capacity[l][a]
  BY DEF Supports
<1>3. Capacity[l][a] \in Nat
  BY SlotsAssumption DEF SlotsAssumption
<1>. QED  BY <1>1, <1>2, <1>3

LEMMA EmptyCourt ==
    ASSUME NEW f PROVE \E l \in Layout : Supports(l, f, {})
<1>1. PICK l \in Layout : TRUE
  BY SlotsAssumption DEF SlotsAssumption
<1>2. \A a \in Activity : Capacity[l][a] \in Nat
  BY SlotsAssumption DEF SlotsAssumption
<1>3. \A a \in Activity : Units(f, {}, a) = {}
  BY DEF Units
<1>4. \A a \in Activity : Usage(f, {}, a) = 0
  BY <1>3, FS_EmptySet DEF Usage
<1>. QED  BY <1>2, <1>4 DEF Supports

LEMMA TypeInit == Init => TypeOK
BY DEF Init, TypeOK

LEMMA TypeNext == TypeOK /\ [Next]_held => TypeOK'
<1> SUFFICES ASSUME TypeOK, [Next]_held PROVE TypeOK'  OBVIOUS
<1>1. ASSUME NEW S \in SUBSET Id, Reserve(S) PROVE TypeOK'
  BY <1>1 DEF Reserve, TypeOK
<1>2. ASSUME NEW n \in Id, Move(n) PROVE TypeOK'
  BY <1>2 DEF Move, TypeOK
<1>3. ASSUME NEW n \in Id, Release(n) PROVE TypeOK'
  BY <1>3 DEF Release, TypeOK
<1>4. ASSUME UNCHANGED held PROVE TypeOK'
  BY <1>4 DEF TypeOK
<1>. QED  BY <1>1, <1>2, <1>3, <1>4 DEF Next

\* A new table is admissible if what it keeps was admissible and every row it
\* adds or moves was judged together with all that overlap it.
LEMMA AdmissibleStep ==
    ASSUME TypeOK, NoOverbooking, NEW S, TypeOK',
           \A i \in DOMAIN held' \ S : i \in DOMAIN held /\ held'[i] = held[i],
           \A n \in S \cap DOMAIN held' : FitsSomeLayout(held', n, Layout)
    PROVE  NoOverbooking'
<1> SUFFICES ASSUME NEW t \in UNION Span
             PROVE  \E l \in Layout : Supports(l, held', OnCourt(held', t))
  BY DEF NoOverbooking
<1>0. IsFiniteSet(DOMAIN held) /\ IsFiniteSet(DOMAIN held')
  BY FS_Subset, SlotsAssumption DEF TypeOK, SlotsAssumption
<1>1. CASE \E n \in S : n \in OnCourt(held', t)
  <2>1. PICK n \in S : n \in OnCourt(held', t)
    BY <1>1
  <2>2. OnCourt(held', t) \subseteq Sharing(held', n)
    BY <2>1 DEF OnCourt, Sharing, Overlap
  <2>3. PICK l \in Layout : Supports(l, held', Sharing(held', n))
    BY <2>1 DEF FitsSomeLayout, OnCourt
  <2>4. IsFiniteSet(Sharing(held', n))
    BY <1>0, FS_Subset DEF Sharing
  <2>. QED  BY <2>2, <2>3, <2>4, SupportsMonotone
<1>2. CASE \A n \in S : n \notin OnCourt(held', t)
  <2>1. OnCourt(held', t) \subseteq OnCourt(held, t)
    BY <1>2 DEF OnCourt
  <2>2. \A i \in OnCourt(held', t) : held'[i] = held[i]
    BY <1>2 DEF OnCourt
  <2>3. PICK l \in Layout : Supports(l, held, OnCourt(held, t))
    BY DEF NoOverbooking
  <2>4. IsFiniteSet(OnCourt(held, t))
    BY <1>0, FS_Subset DEF OnCourt
  <2>. QED  BY <2>1, <2>2, <2>3, <2>4, SupportsMonotone
<1>. QED  BY <1>1, <1>2

LEMMA NoOverbookingInit == Init => NoOverbooking
<1> SUFFICES ASSUME Init, NEW t \in UNION Span
             PROVE  \E l \in Layout : Supports(l, held, OnCourt(held, t))
  BY DEF NoOverbooking
<1>1. OnCourt(held, t) = {}
  BY DEF Init, OnCourt
<1>. QED  BY <1>1, EmptyCourt

LEMMA NoOverbookingNext ==
    TypeOK /\ NoOverbooking /\ [Next]_held => NoOverbooking'
<1> SUFFICES ASSUME TypeOK, NoOverbooking, [Next]_held PROVE NoOverbooking'  OBVIOUS
<1>0. TypeOK'
  BY TypeNext
<1>1. ASSUME NEW S \in SUBSET Id, Reserve(S) PROVE NoOverbooking'
  <2>1. DOMAIN held' = DOMAIN held \cup S
    BY <1>1 DEF Reserve
  <2>2. \A i \in DOMAIN held' \ S : i \in DOMAIN held /\ held'[i] = held[i]
    BY <1>1, <2>1 DEF Reserve
  <2>3. \A n \in S \cap DOMAIN held' : FitsSomeLayout(held', n, Layout)
    BY <1>1 DEF Reserve
  <2>. QED  BY <1>0, <2>2, <2>3, AdmissibleStep
<1>2. ASSUME NEW n \in Id, Move(n) PROVE NoOverbooking'
  <2>1. \A i \in DOMAIN held' \ {n} : i \in DOMAIN held /\ held'[i] = held[i]
    BY <1>2 DEF Move
  <2>2. \A k \in {n} \cap DOMAIN held' : FitsSomeLayout(held', k, Layout)
    BY <1>2 DEF Move
  <2>. QED  BY <1>0, <2>1, <2>2, AdmissibleStep
<1>3. ASSUME NEW n \in Id, Release(n) PROVE NoOverbooking'
  <2>1. \A i \in DOMAIN held' \ {} : i \in DOMAIN held /\ held'[i] = held[i]
    BY <1>3 DEF Release
  <2>2. \A k \in {} \cap DOMAIN held' : FitsSomeLayout(held', k, Layout)
    OBVIOUS
  <2>. QED  BY <1>0, <2>1, <2>2, AdmissibleStep
<1>4. ASSUME UNCHANGED held PROVE NoOverbooking'
  BY <1>4 DEF NoOverbooking, Supports, OnCourt
<1>. QED  BY <1>1, <1>2, <1>3, <1>4 DEF Next

\* Reservations never exceed what one layout of the court can host.
THEOREM InventoryNeverOverbooked == Spec => [](TypeOK /\ NoOverbooking)
<1>1. Init => TypeOK /\ NoOverbooking
  BY TypeInit, NoOverbookingInit
<1>2. TypeOK /\ NoOverbooking /\ [Next]_held => TypeOK' /\ NoOverbooking'
  BY TypeNext, NoOverbookingNext
<1>. QED  BY <1>1, <1>2, PTL DEF Spec
=============================================================================
