---------------------------- MODULE Office_proofs ---------------------------
(***************************************************************************)
(* The back office, for any number of students' leaves and payments, messages, *)
(* sheets, shifts, runs, salaries and requests: what a month costs, what a *)
(* customer is told, what a register says and what is paid agree with what was *)
(* done.                                                                   *)
(*                                                                         *)
(* As for the collections, each part has an invariant that its steps keep, of *)
(* its tables and of what its open transactions have read.                 *)
(***************************************************************************)
EXTENDS MCBackOffice, SetSums
----------------------------------------------------------------------------
(***************************************************************************)
(* The fee of a month (MonthlyBilling).  The register counts from the first *)
(* leave, in the order of their days; where leaves are disjoint there is one. *)
(***************************************************************************)

BillingStep == BillingNext \/ \E r \in Request : GiveUp(r) /\ UNCHANGED billing

BillingSpec == InitRequests /\ BillingInit /\ [][BillingStep]_<<driver, tx, billing>>

TermsOf == [start : StartDays, free : BOOLEAN, discounted : Discounts]

BillingRows ==
    /\ terms \in TermsOf
    /\ IsFiniteSet(leaves)
    /\ \A l \in leaves : /\ l.id \in Nat /\ l.from \in Int /\ l.to \in Int
                         /\ [from |-> l.from, to |-> l.to] \in Spans /\ l.policy \in Policies
    /\ payments \in Seq(1 .. Fee) /\ Len(payments) <= MaxPayments

\* The ids of leaves are as good as keys.
LeavesNumbered == \A k, l \in leaves : k.id = l.id => k = l

\* What was read on SQLite is so still.
BillingLooked(j) ==
    /\ j.op = "leave" => \A l \in leaves : Days(l) \cap Days(j.span) = {}
    /\ j.op = "collect" => j.due = Outstanding

BillingJob(j) ==
    /\ j.op = "leave" => j.span \in Spans
    /\ j.op = "collect" => j.due \in 1 .. Fee
    /\ driver = "sqlite" => BillingLooked(j)

BillingJobs ==
    /\ driver \in {"sqlite", "postgres"}
    /\ DOMAIN tx = Request
    /\ \A r \in Request : BillingJob(tx[r])

BillingInv == BillingRows /\ LeavesNumbered /\ BillingJobs /\ LeavesDisjoint
----------------------------------------------------------------------------
(* The fee of a month *)

LEMMA RoundedIs ==
    ASSUME NEW n \in Nat
    PROVE  /\ Rounded(n, 2) \in 0 .. n
           /\ Rounded(n, MonthDays) \in Nat
           /\ Rounded(0, MonthDays) = 0
<1>1. MonthDays = 28 \/ MonthDays = 29 \/ MonthDays = 30 \/ MonthDays = 31
  BY BillingAssumption
<1>2. Rounded(n, 2) \in 0 .. n
  BY DEF Rounded
<1>3. CASE MonthDays = 28
  BY <1>2, <1>3 DEF Rounded
<1>4. CASE MonthDays = 29
  BY <1>2, <1>4 DEF Rounded
<1>5. CASE MonthDays = 30
  BY <1>2, <1>5 DEF Rounded
<1>6. CASE MonthDays = 31
  BY <1>2, <1>6 DEF Rounded
<1>. QED  BY <1>1, <1>3, <1>4, <1>5, <1>6

LEMMA LeaveDaysIs ==
    ASSUME NEW L
    PROVE  LeaveDays(L) \in Nat /\ (InMonth(L) = {} => LeaveDays(L) = 0)
<1> DEFINE D == {d \in Month : \E l \in L : d \in Days(l)}
<1>1. IsFiniteSet(1 .. MonthDays)
  BY FS_Interval, BillingAssumption
<1>2. D \subseteq 1 .. MonthDays
  BY DEF Month
<1>3. InMonth(L) = {} => D = {}
  BY DEF InMonth
<1>4. LeaveDays(L) = Cardinality(D)
  BY DEF LeaveDays
<1> HIDE DEF D
<1>5. Cardinality(D) \in Nat
  BY <1>1, <1>2, FS_Subset, FS_CardinalityType
<1>6. D = {} => Cardinality(D) = 0
  BY FS_EmptySet
<1>. QED  BY <1>3, <1>4, <1>5, <1>6

LEMMA FirstMonthIs == ASSUME NEW start PROVE FirstMonth(Fee, start) \in 0 .. Fee
<1>1. Fee \in Nat /\ 0 \in 0 .. Fee /\ Fee \in 0 .. Fee
  BY BillingAssumption
<1>2. Rounded(Fee, 2) \in 0 .. Fee
  BY <1>1, RoundedIs
<1>. QED  BY <1>1, <1>2 DEF FirstMonth

\* The counter never takes a month to cost more than the programme does.
LEMMA CounterFeeIs ==
    ASSUME NEW t, NEW L
    PROVE  CounterFee(t, L) \in Int /\ CounterFee(t, L) <= Fee
<1> DEFINE b == FirstMonth(Fee, t.start)
           d == LeaveDays(L)
<1>1. b \in 0 .. Fee /\ d \in Nat /\ Fee \in Nat
  BY FirstMonthIs, LeaveDaysIs, BillingAssumption
<1> HIDE DEF b, d
<1>2. b * d \in Nat
  BY <1>1
<1>3. Rounded(b * d, MonthDays) \in Nat
  BY <1>2, RoundedIs
<1>4. Prorated(b, d) \in Int /\ Prorated(b, d) <= Fee
  BY <1>1, <1>3 DEF Prorated
<1>. QED  BY <1>1, <1>4 DEF CounterFee, b, d

\* One leave of a month comes first.
LEMMA OneIsFirst ==
    ASSUME BillingInv, InMonth(leaves) # {}
    PROVE  \E l \in InMonth(leaves) : \A k \in InMonth(leaves) \ {l} : Before(l, k)
<1> DEFINE S == InMonth(leaves)
           R == {p \in S \X S : p[1] = p[2] \/ Before(p[1], p[2])}
<1>1. S \subseteq leaves /\ IsFiniteSet(S)
  BY FS_Subset DEF InMonth, BillingInv, BillingRows
<1>2. /\ \A l \in S : l.id \in Int /\ l.from \in Int /\ l.to \in Int
      /\ \A k, l \in S : k.id = l.id => k = l
  <2> HIDE DEF S
  <2>1. \A l \in S : l.id \in Int /\ l.from \in Int /\ l.to \in Int
    <3>. SUFFICES ASSUME NEW l \in S PROVE l.id \in Int /\ l.from \in Int /\ l.to \in Int
      OBVIOUS
    <3>1. l.id \in Nat /\ l.from \in Int /\ l.to \in Int
      BY <1>1 DEF BillingInv, BillingRows
    <3>. QED  BY <3>1
  <2>2. \A k, l \in S : k.id = l.id => k = l
    BY <1>1 DEF BillingInv, LeavesNumbered
  <2>. QED  BY <2>1, <2>2
<1>3. \A p, q \in S : <<p, q>> \in R <=> p = q \/ Before(p, q)
  OBVIOUS
<1> HIDE DEF S, R
<1>4. \A p, q \in S : p = q \/ Before(p, q) \/ Before(q, p)
  BY <1>2 DEF Before
<1>5. \A p, q, s \in S : Before(p, q) /\ Before(q, s) => Before(p, s)
  BY <1>2 DEF Before
<1>6. \A p, q \in S : <<p, q>> \in R \/ <<q, p>> \in R
  BY <1>3, <1>4
<1>7. \A p, q, s \in S : <<p, q>> \in R /\ <<q, s>> \in R => <<p, s>> \in R
  BY <1>3, <1>5
<1>8. S # {}
  BY DEF S
<1>9. PICK p \in S : \A q \in S : <<p, q>> \in R
  BY <1>1, <1>6, <1>7, <1>8, SomeIsFirst
<1>. QED  BY <1>3, <1>9 DEF S

LEMMA RegisterAgrees == ASSUME BillingInv PROVE RegisterAgreesWithCounter
<1> DEFINE b == FirstMonth(Fee, terms.start)
           first == CHOOSE l \in InMonth(leaves) : \A k \in InMonth(leaves) \ {l} : Before(l, k)
<1>. SUFFICES ASSUME terms.discounted = 0,
                     \A l \in InMonth(leaves) : l.policy = "legacy_prorated"
              PROVE  RegisterFee(terms, leaves) = CounterFee(terms, leaves)
  BY DEF RegisterAgreesWithCounter
<1>1. RegisterFee(terms, leaves) = IF terms.free THEN 0 ELSE UnderPolicy(b, leaves)
  BY DEF RegisterFee
<1>2. CounterFee(terms, leaves) = IF terms.free THEN 0 ELSE Prorated(b, LeaveDays(leaves))
  BY DEF CounterFee
<1>3. b \in 0 .. Fee /\ Fee \in Nat
  BY FirstMonthIs, BillingAssumption
<1> HIDE DEF b
<1>4. CASE InMonth(leaves) = {}
  <2>1. UnderPolicy(b, leaves) = b
    BY <1>4 DEF UnderPolicy
  <2>2. LeaveDays(leaves) = 0
    BY <1>4, LeaveDaysIs
  <2>3. Prorated(b, 0) = b - Rounded(b * 0, MonthDays)
    BY BillingAssumption DEF Prorated
  <2>4. b * 0 = 0 /\ Rounded(0, MonthDays) = 0
    BY <1>3, RoundedIs
  <2>. QED  BY <1>1, <1>2, <1>3, <2>1, <2>2, <2>3, <2>4
<1>5. CASE InMonth(leaves) # {}
  <2>1. first \in InMonth(leaves)
    BY <1>5, OneIsFirst
  <2>2. first.policy = "legacy_prorated"
    BY <2>1
  <2>3. UnderPolicy(b, leaves) = CASE first.policy = "full_fee"        -> b
                                   [] first.policy = "half_fee"        -> Rounded(b, 2)
                                   [] first.policy = "no_fee"          -> 0
                                   [] first.policy = "legacy_prorated" -> Prorated(b, LeaveDays(leaves))
    BY <1>5 DEF UnderPolicy
  <2> HIDE DEF first
  <2>4. UnderPolicy(b, leaves) = Prorated(b, LeaveDays(leaves))
    BY <2>2, <2>3
  <2>. QED  BY <1>1, <1>2, <2>4
<1>. QED  BY <1>4, <1>5
----------------------------------------------------------------------------
(* What was collected *)

LEMMA SumIsSetSum ==
    ASSUME NEW s \in Seq(1 .. Fee)
    PROVE  Sum(s) = SetSum(s, DOMAIN s) /\ Sum(s) \in Nat
<1> DEFINE A == DOMAIN s
           IsSum(h) == h = [t \in SUBSET A |->
                              IF t = {} THEN 0
                              ELSE s[CHOOSE x \in t : TRUE] + h[t \ {CHOOSE x \in t : TRUE}]]
<1>1. IsFiniteSet(A)
  <2>1. A = 1 .. Len(s) /\ Len(s) \in Nat
    OBVIOUS
  <2>. QED  BY <2>1, FS_Interval
<1>2. \A h : Adds(h, s, A) <=> IsSum(h)
  BY DEF Adds, Pick
<1>3. Sum(s) = (CHOOSE h : IsSum(h))[A]
  BY DEF Sum, MapThenSumSet, MapThenFoldSet
<1>4. \A x \in A : s[x] \in Nat
  BY BillingAssumption
<1> HIDE DEF A, IsSum
<1>5. Adds(CHOOSE h : IsSum(h), s, A)
  BY <1>1, <1>2, AddsExists
<1>6. SetSum(s, A) = (CHOOSE h : IsSum(h))[A]
  BY <1>1, <1>5, SumIs
<1>7. SetSum(s, A) \in Nat
  BY <1>1, <1>4, SumNat
<1>. QED  BY <1>3, <1>6, <1>7 DEF A

LEMMA PaymentAdds ==
    ASSUME NEW s \in Seq(1 .. Fee), NEW a \in 1 .. Fee
    PROVE  Append(s, a) \in Seq(1 .. Fee) /\ Sum(Append(s, a)) = Sum(s) + a
<1> DEFINE new == Append(s, a)
           A == 1 .. Len(s)
           n == Len(s) + 1
<1>1. Len(s) \in Nat /\ DOMAIN s = A /\ n \notin A
  OBVIOUS
<1>2. new \in Seq(1 .. Fee) /\ Len(new) = n /\ new[n] = a
  OBVIOUS
<1>3. DOMAIN new = A \cup {n}
  BY <1>1, <1>2
<1>4. \A x \in A : new[x] = s[x]
  OBVIOUS
<1>5. IsFiniteSet(A)
  BY <1>1, FS_Interval
<1>6. a \in Int /\ \A x \in A : s[x] \in Int
  BY <1>1, BillingAssumption
<1>7. \A x \in A \cup {n} : new[x] \in Int
  BY <1>2, <1>4, <1>6
<1> HIDE DEF new, A, n
<1>8. SetSum(new, A \cup {n}) = new[n] + SetSum(new, A)
  BY <1>1, <1>5, <1>7, SumAdd
<1>9. SetSum(new, A) = SetSum(s, A)
  BY <1>4, <1>5, SumSame
<1>10. Sum(new) = SetSum(new, A \cup {n}) /\ Sum(s) = SetSum(s, A) /\ Sum(s) \in Nat
  BY <1>1, <1>2, <1>3, SumIsSetSum
<1>. QED  BY <1>2, <1>6, <1>8, <1>9, <1>10 DEF new
----------------------------------------------------------------------------
(* Requests *)

LEMMA BillingInitHolds == InitRequests /\ BillingInit => BillingInv
<1> SUFFICES ASSUME InitRequests, BillingInit PROVE BillingInv
  OBVIOUS
<1>1. leaves = {} /\ payments = <<>> /\ terms \in TermsOf
  BY DEF BillingInit, TermsOf
<1>2. BillingRows
  <2>1. Len(payments) = 0 /\ payments \in Seq(1 .. Fee)
    BY <1>1
  <2>. QED  BY <1>1, <2>1, FS_EmptySet, BillingAssumption DEF BillingRows
<1>3. \A r \in Request : tx[r].op = "idle"
  BY DEF InitRequests, Idle
<1>4. BillingJobs
  BY <1>3 DEF BillingJobs, BillingJob, BillingLooked, InitRequests
<1>. QED  BY <1>1, <1>2, <1>4 DEF BillingInv, LeavesNumbered, LeavesDisjoint

LEMMA BillingRowsStay ==
    ASSUME BillingInv, UNCHANGED <<driver, billing>>
    PROVE  BillingRows' /\ LeavesNumbered' /\ LeavesDisjoint'
<1>1. UNCHANGED <<terms, leaves, payments, driver>>
  BY DEF billing
<1>. QED  BY <1>1 DEF BillingInv, BillingRows, LeavesNumbered, LeavesDisjoint

LEMMA BillingJobStays ==
    ASSUME NEW k \in Request, BillingJob(tx'[k]), UNCHANGED <<driver, billing>>
    PROVE  BillingJob(tx[k])'
<1>1. UNCHANGED <<terms, leaves, payments, driver>>
  BY DEF billing
<1>. QED  BY <1>1 DEF BillingJob, BillingLooked, Outstanding, Collected

LEMMA BillingLooks ==
    ASSUME BillingInv, UNCHANGED <<driver, billing>>, NEW r \in Request, NEW j,
           tx' = [tx EXCEPT ![r] = j], BillingJob(j)
    PROVE  BillingInv'
<1>1. DOMAIN tx' = Request /\ tx'[r] = j /\ \A k \in Request \ {r} : tx'[k] = tx[k]
  BY DEF BillingInv, BillingJobs
<1>2. ASSUME NEW k \in Request PROVE BillingJob(tx[k])'
  <2>1. BillingJob(tx'[k])
    BY <1>1 DEF BillingInv, BillingJobs
  <2>. QED  BY <2>1, BillingJobStays
<1>. QED  BY <1>1, <1>2, BillingRowsStay DEF BillingInv, BillingJobs

LEMMA BillingQuiet ==
    ASSUME BillingInv, UNCHANGED billing,
           UNCHANGED <<driver, tx>> \/ \E r \in Request : GiveUp(r)
    PROVE  BillingInv'
<1>1. /\ DOMAIN tx' = Request /\ UNCHANGED driver
      /\ \A k \in Request : tx'[k] = Idle \/ tx'[k] = tx[k]
  BY DEF BillingInv, BillingJobs, GiveUp, End
<1>2. ASSUME NEW k \in Request PROVE BillingJob(tx[k])'
  <2>1. BillingJob(tx'[k])
    <3>1. CASE tx'[k] = Idle
      <4>1. tx'[k].op = "idle"
        BY <3>1 DEF Idle
      <4>. QED  BY <4>1 DEF BillingJob, BillingLooked
    <3>2. CASE tx'[k] = tx[k]
      BY <3>2 DEF BillingInv, BillingJobs
    <3>. QED  BY <1>1, <3>1, <3>2
  <2>. QED  BY <1>1, <2>1, BillingJobStays
<1>. QED  BY <1>1, <1>2, BillingRowsStay DEF BillingInv, BillingJobs

\* On SQLite a commit leaves no request open.
BillingCommit(R) == End(Overtaken({}) \cup R)

LEMMA BillingJobsKept ==
    ASSUME BillingInv, NEW R \in SUBSET Request, BillingCommit(R)
    PROVE  BillingJobs' /\ UNCHANGED driver
<1>1. /\ UNCHANGED driver /\ DOMAIN tx' = Request
      /\ \A k \in Request : tx'[k] = Idle \/ (tx'[k] = tx[k] /\ driver # "sqlite")
  BY DEF BillingCommit, End, Overtaken
<1>2. ASSUME NEW k \in Request PROVE BillingJob(tx[k])'
  <2>1. CASE tx'[k] = Idle
    <3>1. tx'[k].op = "idle"
      BY <2>1 DEF Idle
    <3>. QED  BY <3>1 DEF BillingJob, BillingLooked
  <2>2. CASE tx'[k] = tx[k] /\ driver # "sqlite"
    <3>1. BillingJob(tx[k])
      BY DEF BillingInv, BillingJobs
    <3>. QED  BY <1>1, <2>2, <3>1 DEF BillingJob
  <2>. QED  BY <1>1, <2>1, <2>2
<1>. QED  BY <1>1, <1>2 DEF BillingJobs, BillingInv
----------------------------------------------------------------------------
(* What handlers look at *)

LEMMA LookForLeaveKeeps ==
    ASSUME BillingInv, NEW r \in Request, NEW s \in Spans, LookForLeave(r, s)
    PROVE  BillingInv'
<1> DEFINE j == [op |-> "leave", span |-> s]
<1>1. /\ tx' = [tx EXCEPT ![r] = j] /\ UNCHANGED <<driver, billing>>
      /\ \A l \in leaves : Days(l) \cap Days(s) = {}
  BY DEF LookForLeave, Look
<1>2. j.op = "leave" /\ j.span = s
  OBVIOUS
<1> HIDE DEF j
<1>3. BillingJob(j)
  BY <1>1, <1>2 DEF BillingJob, BillingLooked
<1>. QED  BY <1>1, <1>3, BillingLooks

LEMMA LookToCollectKeeps ==
    ASSUME BillingInv, NEW r \in Request, LookToCollect(r)
    PROVE  BillingInv'
<1> DEFINE o == Outstanding
           j == [op |-> "collect", due |-> o]
<1>1. tx' = [tx EXCEPT ![r] = j] /\ UNCHANGED <<driver, billing>> /\ o > 0
  BY DEF LookToCollect, Look
<1>2. j.op = "collect" /\ j.due = o
  OBVIOUS
<1>3. o \in 1 .. Fee
  <2>1. CounterFee(terms, leaves) \in Int /\ CounterFee(terms, leaves) <= Fee
    BY CounterFeeIs
  <2>2. Collected \in Nat
    BY SumIsSetSum DEF Collected, BillingInv, BillingRows
  <2>3. o = CounterFee(terms, leaves) - Collected
    BY DEF Outstanding
  <2> HIDE DEF o
  <2>. QED  BY <1>1, <2>1, <2>2, <2>3, BillingAssumption
<1>4. o = Outstanding
  OBVIOUS
<1> HIDE DEF j, o
<1>5. BillingJob(j)
  BY <1>2, <1>3, <1>4 DEF BillingJob, BillingLooked
<1>. QED  BY <1>1, <1>5, BillingLooks
----------------------------------------------------------------------------
(* What handlers write *)

LEMMA NextIdIsNew ==
    ASSUME BillingInv
    PROVE  NextId \in Nat /\ \A l \in leaves : l.id # NextId
<1> DEFINE S == {l.id : l \in leaves} \cup {0}
           R == {p \in S \X S : p[1] >= p[2]}
<1>1. IsFiniteSet(S) /\ S # {} /\ S \subseteq Nat
  <2> DEFINE T == {l.id : l \in leaves}
             f == [l \in leaves |-> l.id]
  <2>1. IsFiniteSet(leaves) /\ T \subseteq Nat
    BY DEF BillingInv, BillingRows
  <2>2. f \in Surjection(leaves, T)
    BY DEF Surjection
  <2> HIDE DEF T, f
  <2>3. IsFiniteSet(T)
    BY <2>1, <2>2, FS_Surjection
  <2>4. IsFiniteSet(T \cup {0})
    BY <2>3, FS_AddElement
  <2>. QED  BY <2>1, <2>4 DEF T
<1>2. \A l \in leaves : l.id \in S
  OBVIOUS
<1>3. \A p, q \in S : <<p, q>> \in R <=> p >= q
  OBVIOUS
<1>4. NextId = 1 + Max(S)
  BY DEF NextId
<1> HIDE DEF S, R
<1>5. \A p, q \in S : p >= q \/ q >= p
  BY <1>1
<1>6. \A p, q, s \in S : p >= q /\ q >= s => p >= s
  BY <1>1
<1>7. \A p, q \in S : <<p, q>> \in R \/ <<q, p>> \in R
  BY <1>3, <1>5
<1>8. \A p, q, s \in S : <<p, q>> \in R /\ <<q, s>> \in R => <<p, s>> \in R
  BY <1>3, <1>6
<1>9. PICK p \in S : \A q \in S : <<p, q>> \in R
  BY <1>1, <1>7, <1>8, SomeIsFirst
<1>10. \E m \in S : \A q \in S : m >= q
  BY <1>3, <1>9
<1>11. Max(S) \in S /\ \A q \in S : Max(S) >= q
  BY <1>10 DEF Max
<1>12. Max(S) \in Nat /\ \A l \in leaves : l.id \in Nat /\ Max(S) >= l.id
  BY <1>1, <1>2, <1>11
<1>. QED  BY <1>4, <1>12

LEMMA InsertLeaveKeeps ==
    ASSUME BillingInv, NEW r \in Request, NEW policy \in Policies, InsertLeave(r, policy)
    PROVE  BillingInv' /\ UNCHANGED payments
<1> DEFINE s == tx[r].span
           new == [id |-> NextId, from |-> s.from, to |-> s.to, policy |-> policy]
<1>1. /\ tx[r].op = "leave" /\ BillingCommit({r}) /\ leaves' = leaves \cup {new}
      /\ UNCHANGED <<terms, payments>>
  BY DEF InsertLeave, BillingCommit
<1>2. /\ s \in Spans
      /\ driver = "sqlite" => \A l \in leaves : Days(l) \cap Days(s) = {}
  BY <1>1 DEF BillingInv, BillingJobs, BillingJob, BillingLooked
<1>3. /\ new.id = NextId /\ new.from = s.from /\ new.to = s.to /\ new.policy = policy
  OBVIOUS
<1>4. NextId \in Nat /\ \A l \in leaves : l.id # NextId
  BY NextIdIsNew
<1>5. s \in [from : Int, to : Int]
  BY <1>2, BillingAssumption
<1>6. [from |-> s.from, to |-> s.to] = s /\ s.from \in Int /\ s.to \in Int
  BY <1>5
<1> HIDE DEF s, new
<1>7. BillingRows'
  <2>1. IsFiniteSet(leaves')
    BY <1>1, FS_AddElement DEF BillingInv, BillingRows
  <2>2. [from |-> new.from, to |-> new.to] \in Spans
    BY <1>2, <1>3, <1>6
  <2>3. \A l \in leaves' : /\ l.id \in Nat /\ l.from \in Int /\ l.to \in Int
                           /\ [from |-> l.from, to |-> l.to] \in Spans /\ l.policy \in Policies
    <3>. SUFFICES ASSUME NEW l \in leaves'
                  PROVE  /\ l.id \in Nat /\ l.from \in Int /\ l.to \in Int
                         /\ [from |-> l.from, to |-> l.to] \in Spans /\ l.policy \in Policies
      OBVIOUS
    <3>1. CASE l = new
      BY <1>3, <1>4, <1>6, <2>2, <3>1
    <3>2. CASE l \in leaves
      BY <3>2 DEF BillingInv, BillingRows
    <3>. QED  BY <1>1, <3>1, <3>2
  <2>. QED  BY <1>1, <2>1, <2>3 DEF BillingInv, BillingRows
<1>8. LeavesNumbered'
  BY <1>1, <1>3, <1>4 DEF BillingInv, LeavesNumbered
<1>9. BillingJobs' /\ UNCHANGED driver
  BY <1>1, BillingJobsKept
<1>10. LeavesDisjoint'
  <2>1. Days(new) = Days(s)
    BY <1>3 DEF Days
  <2>2. driver = "sqlite" => \A l \in leaves : Days(l) \cap Days(new) = {} /\ Days(new) \cap Days(l) = {}
    BY <1>2, <2>1
  <2>3. driver = "sqlite" => \A k, l \in leaves : k # l => Days(k) \cap Days(l) = {}
    BY DEF BillingInv, LeavesDisjoint
  <2>. QED  BY <1>1, <1>9, <2>2, <2>3 DEF LeavesDisjoint
<1>. QED  BY <1>1, <1>7, <1>8, <1>9, <1>10 DEF BillingInv

LEMMA TermsAndLeavesKeep ==
    ASSUME BillingInv, DeleteLeave \/ ChangeTerms
    PROVE  BillingInv' /\ UNCHANGED payments
<1> DEFINE R == {}
<1>1. /\ leaves' \subseteq leaves /\ terms' \in TermsOf /\ UNCHANGED payments
      /\ BillingCommit(R) /\ R \in SUBSET Request
  BY DEF DeleteLeave, ChangeTerms, BillingCommit, BillingInv, BillingRows, TermsOf
<1> HIDE DEF R
<1>2. BillingRows'
  BY <1>1, FS_Subset DEF BillingInv, BillingRows
<1>3. BillingJobs' /\ UNCHANGED driver
  BY <1>1, BillingJobsKept
<1>4. LeavesNumbered' /\ LeavesDisjoint'
  BY <1>1, <1>3 DEF BillingInv, LeavesNumbered, LeavesDisjoint
<1>. QED  BY <1>1, <1>2, <1>3, <1>4 DEF BillingInv

LEMMA InsertPaymentKeeps ==
    ASSUME BillingInv, NEW r \in Request, InsertPayment(r)
    PROVE  /\ BillingInv'
           /\ driver = "sqlite" => Sum(payments') <= CounterFee(terms', leaves')
<1>1. PICK amount \in (PartAmounts \cap 1 .. tx[r].due) \cup {tx[r].due} :
          payments' = Append(payments, amount)
  BY DEF InsertPayment
<1>2. /\ tx[r].op = "collect" /\ BillingCommit({r}) /\ Len(payments) < MaxPayments
      /\ UNCHANGED <<terms, leaves>>
  BY DEF InsertPayment, BillingCommit
<1>3. /\ tx[r].due \in 1 .. Fee
      /\ driver = "sqlite" => tx[r].due = CounterFee(terms, leaves) - Sum(payments)
  BY <1>2 DEF BillingInv, BillingJobs, BillingJob, BillingLooked, Outstanding, Collected
<1>4. amount \in 1 .. Fee /\ amount <= tx[r].due /\ Fee \in Nat
  BY <1>3, BillingAssumption
<1>5. payments \in Seq(1 .. Fee)
  BY DEF BillingInv, BillingRows
<1>6. payments' \in Seq(1 .. Fee) /\ Sum(payments') = Sum(payments) + amount /\ Sum(payments) \in Nat
  BY <1>1, <1>4, <1>5, PaymentAdds, SumIsSetSum
<1>7. Len(payments') <= MaxPayments
  BY <1>1, <1>2, <1>4, <1>5, BillingAssumption
<1>8. BillingRows'
  BY <1>2, <1>6, <1>7 DEF BillingInv, BillingRows
<1>9. BillingJobs' /\ UNCHANGED driver
  BY <1>2, BillingJobsKept
<1>10. LeavesNumbered' /\ LeavesDisjoint'
  BY <1>2, <1>9 DEF BillingInv, LeavesNumbered, LeavesDisjoint
<1>11. CounterFee(terms, leaves) \in Int
  BY CounterFeeIs
<1>12. driver = "sqlite" => Sum(payments') <= CounterFee(terms, leaves)
  BY <1>3, <1>4, <1>6, <1>11
<1>. QED  BY <1>2, <1>8, <1>9, <1>10, <1>12 DEF BillingInv

LEMMA BillingStepIs ==
    ASSUME BillingInv, [BillingStep]_<<driver, tx, billing>>
    PROVE  BillingInv' /\ (UNCHANGED payments \/ \E r \in Request : InsertPayment(r))
<1>1. ASSUME NEW r \in Request, NEW s \in Spans, LookForLeave(r, s)
      PROVE  BillingInv' /\ UNCHANGED payments
  BY <1>1, LookForLeaveKeeps DEF LookForLeave, billing
<1>2. ASSUME NEW r \in Request, LookToCollect(r) PROVE BillingInv' /\ UNCHANGED payments
  BY <1>2, LookToCollectKeeps DEF LookToCollect, billing
<1>3. CASE \/ UNCHANGED <<driver, tx, billing>>
           \/ \E r \in Request : GiveUp(r) /\ UNCHANGED billing
  BY <1>3, BillingQuiet DEF billing
<1>4. ASSUME NEW r \in Request, NEW policy \in Policies, InsertLeave(r, policy)
      PROVE  BillingInv' /\ UNCHANGED payments
  BY <1>4, InsertLeaveKeeps
<1>5. ASSUME NEW r \in Request, InsertPayment(r) PROVE BillingInv'
  BY <1>5, InsertPaymentKeeps
<1>6. CASE DeleteLeave \/ ChangeTerms
  BY <1>6, TermsAndLeavesKeep
<1>. QED  BY <1>1, <1>2, <1>3, <1>4, <1>5, <1>6 DEF BillingStep, BillingNext

LEMMA BillingInvHolds == BillingSpec => []BillingInv
<1>1. BillingInv /\ [BillingStep]_<<driver, tx, billing>> => BillingInv'
  BY BillingStepIs
<1>. QED  BY <1>1, BillingInitHolds, PTL DEF BillingSpec

LEMMA BillingInvTyped == BillingInv => BillingTypeOK
<1>. SUFFICES ASSUME BillingInv PROVE BillingTypeOK
  OBVIOUS
<1>1. payments \in Seq(1 .. Fee)
  BY DEF BillingInv, BillingRows
<1>2. \A i \in DOMAIN payments : payments[i] \in 1 .. Fee
  <2> DEFINE T == 1 .. Fee
  <2> HIDE DEF T
  <2>1. payments \in Seq(T)
    BY <1>1 DEF T
  <2>2. \A i \in DOMAIN payments : payments[i] \in T
    BY <2>1
  <2>. QED  BY <2>2 DEF T
<1>. QED  BY <1>2 DEF BillingInv, BillingRows, TermsOf, BillingTypeOK

\* The terms, leaves and payments of a month have their types, for any fee, any
\* length of the month, and any number of leaves, payments and requests.
THEOREM BillingTyped == BillingSpec => []BillingTypeOK
  BY BillingInvTyped, BillingInvHolds, PTL

\* On SQLite leaves do not overlap, and on both drivers the register and the
\* counter find the same fee when neither a discount nor a leave policy tells
\* them apart, whatever day the programme began (calculatePayableFee and
\* calculateMonthlyCollectionAmount).
THEOREM MonthIsPricedAlways == BillingSpec => []MonthIsPriced
<1>1. BillingInv => MonthIsPriced
  BY RegisterAgrees DEF BillingInv, MonthIsPriced
<1>. QED  BY <1>1, BillingInvHolds, PTL

\* On SQLite no payment takes the month above the fee in force when it is
\* recorded, however payments, leaves and changes of the terms interleave.
THEOREM NothingIsPaidBeyondDue == BillingSpec => NothingBeyondDue
<1> DEFINE A == driver = "sqlite" /\ payments' # payments
                    => Sum(payments') <= CounterFee(terms', leaves')
<1>1. ASSUME BillingInv, [BillingStep]_<<driver, tx, billing>> PROVE A
  BY <1>1, BillingStepIs, InsertPaymentKeeps
<1>2. BillingInv /\ [BillingStep]_<<driver, tx, billing>> => [A]_<<tx, billing>>
  BY <1>1
<1>. QED  BY <1>2, BillingInvHolds, PTL DEF BillingSpec, NothingBeyondDue
----------------------------------------------------------------------------
(***************************************************************************)
(* Messages to customers (BookingCommunications).  A request that goes on to *)
(* close a cancellation has cancelled the booking, and a cancelled booking *)
(* stays so.  A request that hands over a message has announced it, so that it *)
(* is the only one with that key.                                          *)
(***************************************************************************)

communicationVars == <<driver, tx, communications>>

CommunicationsSpec == InitRequests /\ CommunicationsInit /\ [][CommunicationsNext]_communicationVars

\* The requests that have announced a message and not recorded its outcome
Dispatching(r) == tx[r].op \in {"deliver", "complete"}

OneAtMost == \A i, j \in Pending : i = j

Cancelled ==
    /\ ApprovedIsCancelled
    /\ \A r \in Request : tx[r].op = "close" => booking = "cancelled"

OneDispatch ==
    \A r, k \in Request : Dispatching(r) /\ Dispatching(k) /\ tx[r].key = tx[k].key => r = k

\* How far a message is says how often the gateway has it.
Dispatched ==
    \A r \in Request :
        /\ Dispatching(r) => tx[r].key \in DOMAIN outbox /\ outbox[tx[r].key] = "pending"
        /\ tx[r].op = "deliver" => tx[r].key \notin DOMAIN delivered
        /\ tx[r].op = "complete" =>
              /\ tx[r].key \in DOMAIN delivered
              /\ tx[r].outcome = "sent" => delivered[tx[r].key] = 1

Counted ==
    /\ DOMAIN delivered \subseteq DOMAIN outbox
    /\ \A k \in DOMAIN delivered :
          delivered[k] \in {0, 1} /\ (outbox[k] = "sent" => delivered[k] = 1)

Requests == cancellations \in Seq({"pending", "approved", "rejected"})

\* The part about the booking, and the part about its messages
Asked == Requests /\ OneAtMost /\ Cancelled
Told  == OneDispatch /\ Dispatched /\ Counted

CommunicationsInv == DOMAIN tx = Request /\ Asked /\ Told
----------------------------------------------------------------------------
LEMMA CommunicationsInitHolds == InitRequests /\ CommunicationsInit => CommunicationsInv
<1> SUFFICES ASSUME InitRequests, CommunicationsInit PROVE CommunicationsInv  OBVIOUS
<1>1. DOMAIN tx = Request /\ \A r \in Request : tx[r].op = "idle"
  BY DEF InitRequests, Idle
<1>2. cancellations = <<>> /\ DOMAIN cancellations = {}
  BY DEF CommunicationsInit
<1>3. DOMAIN outbox = {} /\ DOMAIN delivered = {}
  BY DEF CommunicationsInit
<1>4. Asked
  BY <1>1, <1>2 DEF Asked, Requests, OneAtMost, Pending, Cancelled, ApprovedIsCancelled
<1>5. Told
  BY <1>1, <1>3 DEF Told, OneDispatch, Dispatched, Dispatching, Counted
<1>. QED  BY <1>1, <1>4, <1>5 DEF CommunicationsInv

\* What a request that goes on, and the others, carry
LEMMA ProceedTx ==
    ASSUME DOMAIN tx = Request, NEW r \in Request, NEW j, Proceed(r, j)
    PROVE  /\ DOMAIN tx' = Request /\ tx'[r] = j
           /\ \A k \in Request \ {r} : tx'[k] = tx[k]
  BY DEF Proceed

LEMMA EndTx ==
    ASSUME NEW r \in Request, End({r})
    PROVE  /\ DOMAIN tx' = Request /\ tx'[r].op = "idle"
           /\ \A k \in Request \ {r} : tx'[k] = tx[k]
  BY DEF End, Idle

\* A step of r that leaves the requests to cancel alone.
LEMMA AskedStays ==
    ASSUME Asked, NEW r, \A k \in Request \ {r} : tx'[k] = tx[k],
           tx'[r].op = "close" => booking' = "cancelled",
           booking = "cancelled" => booking' = "cancelled",
           UNCHANGED cancellations
    PROVE  Asked'
<1>1. Requests' /\ OneAtMost' /\ ApprovedIsCancelled'
  BY DEF Asked, Requests, OneAtMost, Pending, Cancelled, ApprovedIsCancelled
<1>2. \A k \in Request : tx'[k].op = "close" => booking' = "cancelled"
  BY DEF Asked, Cancelled
<1>. QED  BY <1>1, <1>2 DEF Asked, Cancelled

\* A step of r that leaves the messages alone and dispatches none.
LEMMA ToldStays ==
    ASSUME Told, NEW r, \A k \in Request \ {r} : tx'[k] = tx[k],
           tx'[r].op \notin {"deliver", "complete"},
           UNCHANGED <<outbox, delivered>>
    PROVE  Told'
<1>1. \A k \in Request : Dispatching(k)' => k # r /\ Dispatching(k) /\ tx'[k] = tx[k]
  BY DEF Dispatching
<1>2. OneDispatch'
  BY <1>1 DEF Told, OneDispatch
<1>3. Dispatched'
  BY <1>1 DEF Told, Dispatched, Dispatching
<1>4. Counted'
  BY DEF Told, Counted
<1>. QED  BY <1>2, <1>3, <1>4 DEF Told

\* A change of the booking, which is not cancelled yet.
LEMMA ChangeStep ==
    ASSUME CommunicationsInv, NEW r \in Request, NEW to, NEW j, Transition(r, to, j),
           booking # "cancelled" \/ to = "cancelled",
           j.op \notin {"close", "deliver", "complete"} \/ (j.op = "close" /\ to = "cancelled"),
           UNCHANGED <<cancellations, outbox, delivered>>
    PROVE  CommunicationsInv'
<1>1. /\ DOMAIN tx' = Request /\ tx'[r] = j
      /\ \A k \in Request \ {r} : tx'[k] = tx[k]
      /\ booking' = to
  BY ProceedTx DEF Transition, CommunicationsInv
<1>2. Asked'
  BY <1>1, AskedStays DEF CommunicationsInv
<1>3. Told'
  BY <1>1, ToldStays DEF CommunicationsInv
<1>. QED  BY <1>1, <1>2, <1>3 DEF CommunicationsInv

\* A step of one request that is about neither.
LEMMA QuietStep ==
    ASSUME CommunicationsInv, NEW r \in Request, NEW j, Proceed(r, j),
           j.op \notin {"close", "deliver", "complete"},
           UNCHANGED <<booking, cancellations, outbox, delivered>>
    PROVE  CommunicationsInv'
<1>1. /\ DOMAIN tx' = Request /\ tx'[r] = j
      /\ \A k \in Request \ {r} : tx'[k] = tx[k]
  BY ProceedTx DEF CommunicationsInv
<1>2. Asked'
  BY <1>1, AskedStays DEF CommunicationsInv
<1>3. Told'
  BY <1>1, ToldStays DEF CommunicationsInv
<1>. QED  BY <1>1, <1>2, <1>3 DEF CommunicationsInv

LEMMA EndStep ==
    ASSUME CommunicationsInv, NEW r \in Request, End({r}),
           UNCHANGED <<booking, cancellations, outbox, delivered>>
    PROVE  CommunicationsInv'
<1>1. /\ DOMAIN tx' = Request /\ tx'[r].op = "idle"
      /\ \A k \in Request \ {r} : tx'[k] = tx[k]
  BY EndTx
<1>2. Asked'
  BY <1>1, AskedStays DEF CommunicationsInv
<1>3. Told'
  BY <1>1, ToldStays DEF CommunicationsInv
<1>. QED  BY <1>1, <1>2, <1>3 DEF CommunicationsInv
----------------------------------------------------------------------------
(* Requests to cancel *)

LEMMA FileStep == ASSUME CommunicationsInv, NEW r \in Request, FileRequest(r) PROVE CommunicationsInv'
<1>1. /\ Pending = {} /\ cancellations' = Append(cancellations, "pending")
      /\ UNCHANGED <<booking, outbox, delivered>>
  BY DEF FileRequest, MayFile
<1>2. PICK j : Proceed(r, j) /\ j.op = "send"
  BY DEF FileRequest, Send
<1>3. /\ DOMAIN tx' = Request /\ tx'[r] = j
      /\ \A k \in Request \ {r} : tx'[k] = tx[k]
  BY <1>2, ProceedTx DEF CommunicationsInv
<1>4. /\ Requests'
      /\ \A i \in DOMAIN cancellations' :
            \/ i \in DOMAIN cancellations /\ cancellations'[i] = cancellations[i]
            \/ i = Len(cancellations) + 1 /\ cancellations'[i] = "pending"
  BY <1>1 DEF CommunicationsInv, Asked, Requests
<1>5. OneAtMost'
  BY <1>1, <1>4 DEF OneAtMost, Pending
<1>6. Cancelled'
  <2>1. ApprovedIsCancelled'
    BY <1>1, <1>4 DEF CommunicationsInv, Asked, Cancelled, ApprovedIsCancelled
  <2>. QED  BY <1>1, <1>2, <1>3, <2>1 DEF CommunicationsInv, Asked, Cancelled
<1>7. Told'
  BY <1>1, <1>2, <1>3, ToldStays DEF CommunicationsInv
<1>. QED  BY <1>3, <1>4, <1>5, <1>6, <1>7 DEF CommunicationsInv, Asked

LEMMA CloseStep == ASSUME CommunicationsInv, NEW r \in Request, CloseRequest(r) PROVE CommunicationsInv'
<1>1. /\ cancellations' = [i \in DOMAIN cancellations |->
                              IF i \in Pending /\ tx[r].only \in {0, i} THEN "approved"
                              ELSE cancellations[i]]
      /\ UNCHANGED <<booking, outbox, delivered>> /\ booking = "cancelled"
  BY DEF CloseRequest, CommunicationsInv, Asked, Cancelled
<1>2. PICK j : Proceed(r, j) /\ j.op = "send"
  BY DEF CloseRequest, Send
<1>3. /\ DOMAIN tx' = Request /\ tx'[r] = j
      /\ \A k \in Request \ {r} : tx'[k] = tx[k]
  BY <1>2, ProceedTx DEF CommunicationsInv
<1>4. Requests' /\ Pending' \subseteq Pending
  BY <1>1 DEF CommunicationsInv, Asked, Requests, Pending
<1>5. OneAtMost'
  BY <1>4 DEF CommunicationsInv, Asked, OneAtMost
<1>6. Cancelled'
  BY <1>1 DEF Cancelled, ApprovedIsCancelled
<1>7. Told'
  BY <1>1, <1>2, <1>3, ToldStays DEF CommunicationsInv
<1>. QED  BY <1>3, <1>4, <1>5, <1>6, <1>7 DEF CommunicationsInv, Asked

LEMMA RejectStep == ASSUME CommunicationsInv, NEW r \in Request, Reject(r) PROVE CommunicationsInv'
<1>1. /\ cancellations' = [cancellations EXCEPT ![tx[r].id] =
                              IF @ = "pending" THEN "rejected" ELSE @]
      /\ UNCHANGED <<booking, outbox, delivered>>
  BY DEF Reject
<1>2. PICK j : Proceed(r, j) /\ j.op = "send"
  BY DEF Reject, Send
<1>3. /\ DOMAIN tx' = Request /\ tx'[r] = j
      /\ \A k \in Request \ {r} : tx'[k] = tx[k]
  BY <1>2, ProceedTx DEF CommunicationsInv
<1>4. /\ Requests' /\ DOMAIN cancellations' = DOMAIN cancellations
      /\ \A i \in DOMAIN cancellations :
            cancellations'[i] = cancellations[i] \/ cancellations'[i] = "rejected"
  <2>1. /\ DOMAIN cancellations' = DOMAIN cancellations
        /\ \A i \in DOMAIN cancellations :
              cancellations'[i] = cancellations[i] \/ cancellations'[i] = "rejected"
    BY <1>1
  <2>2. Len(cancellations) \in Nat /\ DOMAIN cancellations = 1 .. Len(cancellations)
        /\ \A i \in DOMAIN cancellations : cancellations[i] \in {"pending", "approved", "rejected"}
    BY DEF CommunicationsInv, Asked, Requests
  <2>3. cancellations' = [i \in 1 .. Len(cancellations) |-> cancellations'[i]]
    BY <1>1, <2>2
  <2>4. \A i \in 1 .. Len(cancellations) : cancellations'[i] \in {"pending", "approved", "rejected"}
    BY <2>1, <2>2
  <2>5. Requests'
    BY <2>2, <2>3, <2>4 DEF Requests
  <2>. QED  BY <2>1, <2>5
<1>5. OneAtMost'
  BY <1>4 DEF CommunicationsInv, Asked, OneAtMost, Pending
<1>6. Cancelled'
  <2>1. ApprovedIsCancelled'
    BY <1>1, <1>4 DEF CommunicationsInv, Asked, Cancelled, ApprovedIsCancelled
  <2>. QED  BY <1>1, <1>2, <1>3, <2>1 DEF CommunicationsInv, Asked, Cancelled
<1>7. Told'
  BY <1>1, <1>2, <1>3, ToldStays DEF CommunicationsInv
<1>. QED  BY <1>3, <1>4, <1>5, <1>6, <1>7 DEF CommunicationsInv, Asked
----------------------------------------------------------------------------
(* Messages *)

\* The key of a message that is announced is new, so nobody dispatches it.
LEMMA AnnounceStep == ASSUME CommunicationsInv, NEW r \in Request, Announce(r) PROVE CommunicationsInv'
<1>1. UNCHANGED <<booking, cancellations, delivered>>
  BY DEF Announce
<1>2. CASE End({r}) /\ UNCHANGED outbox
  BY <1>1, <1>2, EndStep
<1>3. CASE ~(End({r}) /\ UNCHANGED outbox)
  <2> DEFINE key == tx[r].key
             j   == [op |-> "deliver", key |-> key]
  <2>1. /\ key \notin DOMAIN outbox /\ Proceed(r, j)
        /\ outbox' = [k \in DOMAIN outbox \cup {key} |-> IF k = key THEN "pending" ELSE outbox[k]]
    BY <1>3 DEF Announce, IsDuplicate
  <2>2. j.op = "deliver" /\ j.key = key
    OBVIOUS
  <2> HIDE DEF key, j
  <2>3. /\ DOMAIN tx' = Request /\ tx'[r] = j
        /\ \A k \in Request \ {r} : tx'[k] = tx[k]
    BY <2>1, ProceedTx DEF CommunicationsInv
  <2>4. /\ DOMAIN outbox' = DOMAIN outbox \cup {key} /\ outbox'[key] = "pending"
        /\ \A k \in DOMAIN outbox : outbox'[k] = outbox[k]
        /\ key \notin DOMAIN delivered
    BY <2>1 DEF CommunicationsInv, Told, Counted
  <2>5. \A k \in Request \ {r} : Dispatching(k)' => Dispatching(k) /\ tx[k].key # key
    BY <2>1, <2>3 DEF Dispatching, CommunicationsInv, Told, Dispatched
  <2>6. Asked'
    BY <1>1, <2>2, <2>3, AskedStays DEF CommunicationsInv
  <2>7. OneDispatch'
    BY <2>2, <2>3, <2>5 DEF CommunicationsInv, Told, OneDispatch
  <2>8. Dispatched'
    BY <1>1, <2>2, <2>3, <2>4, <2>5 DEF CommunicationsInv, Told, Dispatched, Dispatching
  <2>9. Counted'
    BY <1>1, <2>4 DEF CommunicationsInv, Told, Counted
  <2>. QED  BY <2>3, <2>6, <2>7, <2>8, <2>9 DEF CommunicationsInv, Told
<1>. QED  BY <1>2, <1>3

LEMMA DeliverStep == ASSUME CommunicationsInv, NEW r \in Request, Deliver(r) PROVE CommunicationsInv'
<1> DEFINE key == tx[r].key
<1>1. PICK taken \in BOOLEAN, outcome \in {"sent", "failed"} :
        /\ outcome = "sent" => taken
        /\ delivered' = [k \in DOMAIN delivered \cup {key} |->
                            Times(k) + (IF k = key /\ taken THEN 1 ELSE 0)]
        /\ Proceed(r, [op |-> "complete", key |-> key, outcome |-> outcome])
  BY DEF Deliver
<1> DEFINE j == [op |-> "complete", key |-> key, outcome |-> outcome]
<1>2. /\ UNCHANGED <<booking, cancellations, outbox>> /\ Dispatching(r)
      /\ key \in DOMAIN outbox /\ outbox[key] = "pending" /\ key \notin DOMAIN delivered
  BY DEF Deliver, Dispatching, CommunicationsInv, Told, Dispatched
<1>3. j.op = "complete" /\ j.key = key /\ j.outcome = outcome /\ Proceed(r, j)
  BY <1>1
<1> HIDE DEF key, j
<1>4. /\ DOMAIN tx' = Request /\ tx'[r] = j
      /\ \A k \in Request \ {r} : tx'[k] = tx[k]
  BY <1>3, ProceedTx DEF CommunicationsInv
<1>5. /\ DOMAIN delivered' = DOMAIN delivered \cup {key}
      /\ delivered'[key] = (IF taken THEN 1 ELSE 0)
      /\ \A k \in DOMAIN delivered : delivered'[k] = delivered[k]
  <2>1. \A k \in DOMAIN delivered : k # key /\ Times(k) = delivered[k] /\ delivered[k] + 0 = delivered[k]
    BY <1>2 DEF Times, CommunicationsInv, Told, Counted
  <2>2. Times(key) = 0
    BY <1>2 DEF Times
  <2>. QED  BY <1>1, <2>1, <2>2
<1>6. \A k \in Request \ {r} : Dispatching(k)' => Dispatching(k) /\ tx[k].key # key
  BY <1>2, <1>4 DEF Dispatching, CommunicationsInv, Told, OneDispatch, key
<1>7. Asked'
  BY <1>2, <1>3, <1>4, AskedStays DEF CommunicationsInv
<1>8. OneDispatch'
  BY <1>3, <1>4, <1>6 DEF CommunicationsInv, Told, OneDispatch
<1>9. Dispatched'
  BY <1>1, <1>2, <1>3, <1>4, <1>5, <1>6 DEF CommunicationsInv, Told, Dispatched, Dispatching
<1>10. Counted'
  BY <1>2, <1>5 DEF CommunicationsInv, Told, Counted
<1>. QED  BY <1>4, <1>7, <1>8, <1>9, <1>10 DEF CommunicationsInv, Told

LEMMA OutcomeStep == ASSUME CommunicationsInv, NEW r \in Request, RecordOutcome(r) PROVE CommunicationsInv'
<1> DEFINE key == tx[r].key
<1>1. /\ outbox' = [outbox EXCEPT ![key] = tx[r].outcome]
      /\ UNCHANGED <<booking, cancellations, delivered>> /\ Dispatching(r)
      /\ key \in DOMAIN outbox /\ key \in DOMAIN delivered
      /\ tx[r].outcome = "sent" => delivered[key] = 1
  BY DEF RecordOutcome, Dispatching, CommunicationsInv, Told, Dispatched
<1>2. /\ DOMAIN tx' = Request /\ tx'[r].op = "idle"
      /\ \A k \in Request \ {r} : tx'[k] = tx[k]
  BY EndTx DEF RecordOutcome
<1>3. \A k \in Request : Dispatching(k)' =>
          k # r /\ Dispatching(k) /\ tx'[k] = tx[k] /\ tx[k].key # key
  BY <1>1, <1>2 DEF Dispatching, CommunicationsInv, Told, OneDispatch
<1>4. /\ DOMAIN outbox' = DOMAIN outbox /\ outbox'[key] = tx[r].outcome
      /\ \A k \in DOMAIN outbox \ {key} : outbox'[k] = outbox[k]
  BY <1>1
<1> HIDE DEF key
<1>5. Asked'
  BY <1>1, <1>2, AskedStays DEF CommunicationsInv
<1>6. OneDispatch'
  BY <1>3 DEF CommunicationsInv, Told, OneDispatch
<1>7. Dispatched'
  BY <1>1, <1>3, <1>4 DEF CommunicationsInv, Told, Dispatched, Dispatching
<1>8. Counted'
  BY <1>1, <1>4 DEF CommunicationsInv, Told, Counted
<1>. QED  BY <1>2, <1>5, <1>6, <1>7, <1>8 DEF CommunicationsInv, Told
----------------------------------------------------------------------------
\* A step of nobody, or of the clock, that is about neither.
LEMMA IdleStep ==
    ASSUME CommunicationsInv, UNCHANGED <<tx, booking, cancellations, outbox, delivered>>
    PROVE  CommunicationsInv'
<1>1. Asked'
  BY DEF CommunicationsInv, Asked, Requests, OneAtMost, Pending, Cancelled, ApprovedIsCancelled
<1>2. Told'
  BY DEF CommunicationsInv, Told, OneDispatch, Dispatched, Dispatching, Counted
<1>. QED  BY <1>1, <1>2 DEF CommunicationsInv

LEMMA DeskStep ==
    ASSUME CommunicationsInv, NEW r \in Request,
           \/ ConfirmRequest(r) \/ RejectRequest(r) \/ HoldRequest(r) \/ ExpireRequest(r)
           \/ Reschedule(r) \/ RescheduleAndConfirm(r)
           \/ CancelBooking(r) \/ CompleteBooking(r) \/ NoShow(r) \/ Approve(r)
    PROVE  CommunicationsInv'
<1>1. CASE CancelBooking(r) \/ Approve(r)
  <2>1. PICK j : j.op = "close" /\ Transition(r, "cancelled", j)
    BY <1>1 DEF CancelBooking, Approve
  <2>. QED  BY <1>1, <2>1, ChangeStep DEF CancelBooking, Approve
<1>2. CASE \/ ConfirmRequest(r) \/ RejectRequest(r) \/ HoldRequest(r) \/ ExpireRequest(r)
           \/ Reschedule(r) \/ RescheduleAndConfirm(r) \/ CompleteBooking(r) \/ NoShow(r)
  <2>1. PICK to, j : j.op = "send" /\ Transition(r, to, j) /\ booking # "cancelled"
    BY <1>2 DEF ConfirmRequest, RejectRequest, HoldRequest, ExpireRequest, Reschedule,
                RescheduleAndConfirm, CompleteBooking, NoShow, Announced, Send, Awaiting
  <2>2. UNCHANGED <<cancellations, outbox, delivered>>
    BY <1>2 DEF ConfirmRequest, RejectRequest, HoldRequest, ExpireRequest, Reschedule,
                RescheduleAndConfirm, CompleteBooking, NoShow
  <2>. QED  BY <2>1, <2>2, ChangeStep
<1>. QED  BY <1>1, <1>2

\* What only looks, or is about links
LEMMA LookStep ==
    ASSUME CommunicationsInv, NEW r \in Request,
           \/ LookToRequest(r) \/ FindToken(r) \/ IssueToken(r) \/ RotateAccess(r) \/ Resend(r)
           \/ \E i \in DOMAIN cancellations : LookToApproveRequest(r, i) \/ LookToReject(r, i)
    PROVE  CommunicationsInv'
<1>1. PICK j : /\ Proceed(r, j)
               /\ j.op \in {"request", "approve", "reject", "send", "issue", "announce"}
  <2>1. CASE LookToRequest(r)
    <3> DEFINE j == [op |-> "request"]
    <3>1. Proceed(r, j) /\ j.op = "request"
      BY <2>1 DEF LookToRequest, Look, Proceed
    <3> HIDE DEF j
    <3>. QED  BY <3>1
  <2>2. CASE FindToken(r) \/ IssueToken(r)
    <3>1. PICK op \in {"issue", "announce"} : Proceed(r, [op |-> op, key |-> tx[r].key])
      BY <2>2 DEF FindToken, IssueToken
    <3>. QED  BY <3>1
  <2>3. CASE RotateAccess(r) \/ Resend(r)
    <3>1. PICK key : Proceed(r, [op |-> "send", key |-> key])
      BY <2>3 DEF RotateAccess, Resend, Send
    <3>. QED  BY <3>1
  <2>4. CASE \E i \in DOMAIN cancellations : LookToApproveRequest(r, i) \/ LookToReject(r, i)
    <3>1. PICK op \in {"approve", "reject"}, i \in DOMAIN cancellations :
                Proceed(r, [op |-> op, id |-> i])
      BY <2>4 DEF LookToApproveRequest, LookToReject, Look, Proceed
    <3>. QED  BY <3>1
  <2>. QED  BY <2>1, <2>2, <2>3, <2>4
<1>2. UNCHANGED <<booking, cancellations, outbox, delivered>>
  BY DEF LookToRequest, FindToken, IssueToken, RotateAccess, Resend, LookToApproveRequest,
         LookToReject, communications
<1>. QED  BY <1>1, <1>2, QuietStep

LEMMA CommunicationsStepKeeps == CommunicationsInv /\ [CommunicationsNext]_communicationVars => CommunicationsInv'
<1> SUFFICES ASSUME CommunicationsInv, [CommunicationsNext]_communicationVars PROVE CommunicationsInv'
  OBVIOUS
<1>1. ASSUME NEW r \in Request, GiveUp(r), UNCHANGED communications PROVE CommunicationsInv'
  BY <1>1, EndStep DEF GiveUp, communications
<1>2. CASE HourBegins \/ RevokeAccess \/ \E i \in DOMAIN tokens : TokenExpires(i)
  BY <1>2, IdleStep DEF HourBegins, RevokeAccess, TokenExpires
<1>3. CASE UNCHANGED communicationVars
  BY <1>3, IdleStep DEF communicationVars, communications
<1>. QED
  BY <1>1, <1>2, <1>3, DeskStep, LookStep, FileStep, CloseStep, RejectStep, AnnounceStep,
     DeliverStep, OutcomeStep
  DEF CommunicationsNext

CommunicationRows ==
    /\ booking \in Awaiting \cup {"confirmed", "rejected", "cancelled", "expired",
                                  "completed", "no_show"}
    /\ started \in BOOLEAN /\ changes \in 0 .. MaxChanges
    /\ tokens \in Seq({"active", "revoked", "expired"})
    /\ \A k \in DOMAIN outbox : outbox[k] \in {"pending", "sent", "failed"}
    /\ \A r \in Request : tx[r].op = "complete" => tx[r].outcome \in {"sent", "failed"}

LEMMA RowsInit == InitRequests /\ CommunicationsInit => CommunicationRows
<1>. SUFFICES ASSUME InitRequests, CommunicationsInit PROVE CommunicationRows
  OBVIOUS
<1>1. \A r \in Request : tx[r].op = "idle"
  BY DEF InitRequests, Idle
<1>2. DOMAIN outbox = {} /\ tokens \in Seq({"active", "revoked", "expired"})
  BY DEF CommunicationsInit
<1>3. MaxChanges \in Nat
  BY CommunicationsAssumption DEF CommunicationsAssumption
<1>4. booking \in {"pending", "confirmed"} /\ started = FALSE /\ changes = 0
  BY DEF CommunicationsInit
<1>5. changes \in 0 .. MaxChanges
  BY <1>3, <1>4
<1>6. \A r \in Request : tx[r].op # "complete"
  BY <1>1
<1>7. booking \in Awaiting \cup {"confirmed", "rejected", "cancelled", "expired",
                                "completed", "no_show"}
  BY <1>4 DEF Awaiting
<1>. QED  BY <1>2, <1>4, <1>5, <1>6, <1>7 DEF CommunicationRows

\* Only Deliver leads to an outcome.
LEMMA OutcomesTyped ==
    ASSUME CommunicationRows, CommunicationsInv, [CommunicationsNext]_communicationVars
    PROVE  \A r \in Request : tx'[r].op = "complete" => tx'[r].outcome \in {"sent", "failed"}
<1>1. ASSUME NEW r \in Request, NEW j, Proceed(r, j),
             j.op = "complete" => j.outcome \in {"sent", "failed"}
      PROVE  \A k \in Request : tx'[k].op = "complete" => tx'[k].outcome \in {"sent", "failed"}
  BY <1>1, ProceedTx DEF CommunicationsInv, CommunicationRows
<1>2. ASSUME NEW r \in Request, End({r})
      PROVE  \A k \in Request : tx'[k].op = "complete" => tx'[k].outcome \in {"sent", "failed"}
  BY <1>2, EndTx DEF CommunicationRows
<1>3. \/ UNCHANGED tx
      \/ \E r \in Request : End({r})
      \/ \E r \in Request : Deliver(r)
      \/ \E r \in Request : \E j : Proceed(r, j) /\ j.op # "complete"
  <2>1. CASE \/ UNCHANGED communicationVars \/ HourBegins \/ RevokeAccess
             \/ \E i \in DOMAIN tokens : TokenExpires(i)
    BY <2>1 DEF communicationVars, HourBegins, RevokeAccess, TokenExpires
  <2>2. ASSUME NEW r \in Request,
               \/ RecordOutcome(r) \/ (GiveUp(r) /\ UNCHANGED communications)
        PROVE  End({r})
    BY <2>2 DEF RecordOutcome, GiveUp
  <2>3. ASSUME NEW r \in Request, Announce(r)
        PROVE  End({r}) \/ \E j : Proceed(r, j) /\ j.op # "complete"
    <3> DEFINE j == [op |-> "deliver", key |-> tx[r].key]
    <3>1. (End({r}) \/ Proceed(r, j)) /\ j.op = "deliver"
      BY <2>3 DEF Announce
    <3> HIDE DEF j
    <3>. QED  BY <3>1
  <2>4. ASSUME NEW r \in Request,
               \/ ConfirmRequest(r) \/ RejectRequest(r) \/ HoldRequest(r) \/ ExpireRequest(r)
               \/ Reschedule(r) \/ RescheduleAndConfirm(r)
               \/ CancelBooking(r) \/ CompleteBooking(r) \/ NoShow(r) \/ Approve(r)
               \/ FileRequest(r) \/ CloseRequest(r) \/ Reject(r) \/ RotateAccess(r) \/ Resend(r)
        PROVE  \E j : Proceed(r, j) /\ j.op # "complete"
    <3>1. CASE CancelBooking(r) \/ Approve(r)
      <4>1. PICK only, key : Proceed(r, [op |-> "close", only |-> only, key |-> key])
        BY <3>1 DEF CancelBooking, Approve, Transition
      <4>. QED  BY <4>1
    <3>2. CASE ~(CancelBooking(r) \/ Approve(r))
      <4>1. PICK key : Proceed(r, [op |-> "send", key |-> key])
        BY <2>4, <3>2
        DEF ConfirmRequest, RejectRequest, HoldRequest, ExpireRequest, Reschedule,
            RescheduleAndConfirm, CompleteBooking, NoShow, FileRequest, CloseRequest, Reject,
            RotateAccess, Resend, Transition, Announced, Send
      <4>. QED  BY <4>1
    <3>. QED  BY <3>1, <3>2
  <2>5. ASSUME NEW r \in Request,
               \/ LookToRequest(r) \/ FindToken(r) \/ IssueToken(r)
               \/ \E i \in DOMAIN cancellations : LookToApproveRequest(r, i) \/ LookToReject(r, i)
        PROVE  \E j : Proceed(r, j) /\ j.op # "complete"
    <3>1. CASE LookToRequest(r)
      <4>1. Proceed(r, [op |-> "request"])
        BY <3>1 DEF LookToRequest, Look, Proceed
      <4>. QED  BY <4>1
    <3>2. CASE FindToken(r) \/ IssueToken(r)
      <4>1. PICK op \in {"issue", "announce"} : Proceed(r, [op |-> op, key |-> tx[r].key])
        BY <3>2 DEF FindToken, IssueToken
      <4>. QED  BY <4>1
    <3>3. CASE \E i \in DOMAIN cancellations : LookToApproveRequest(r, i) \/ LookToReject(r, i)
      <4>1. PICK op \in {"approve", "reject"}, i \in DOMAIN cancellations :
                  Proceed(r, [op |-> op, id |-> i])
        BY <3>3 DEF LookToApproveRequest, LookToReject, Look, Proceed
      <4>. QED  BY <4>1
    <3>. QED  BY <2>5, <3>1, <3>2, <3>3
  <2>. QED  BY <2>1, <2>2, <2>3, <2>4, <2>5 DEF CommunicationsNext
<1>4. ASSUME NEW r \in Request, Deliver(r)
      PROVE  \E j : Proceed(r, j) /\ (j.op = "complete" => j.outcome \in {"sent", "failed"})
  BY <1>4 DEF Deliver
<1>5. CASE UNCHANGED tx
  BY <1>5 DEF CommunicationRows
<1>. QED  BY <1>1, <1>2, <1>3, <1>4, <1>5

LEMMA TokensTyped ==
    ASSUME CommunicationRows, [CommunicationsNext]_communicationVars
    PROVE  tokens' \in Seq({"active", "revoked", "expired"})
<1> DEFINE T == {"active", "revoked", "expired"}
<1>1. tokens \in Seq(T) /\ Len(tokens) \in Nat /\ DOMAIN tokens = 1 .. Len(tokens)
      /\ \A i \in DOMAIN tokens : tokens[i] \in T
  BY DEF CommunicationRows
<1>2. \A f : f = [i \in 1 .. Len(tokens) |-> f[i]] /\ (\A i \in 1 .. Len(tokens) : f[i] \in T)
              => f \in Seq(T)
  BY <1>1
<1>3. ASSUME NEW r \in Request, IssueToken(r) PROVE tokens' \in Seq(T)
  BY <1>1, <1>3 DEF IssueToken
<1>4. CASE tokens' = Revoked
  BY <1>1, <1>2, <1>4 DEF Revoked
<1>5. ASSUME NEW i \in DOMAIN tokens, TokenExpires(i) PROVE tokens' \in Seq(T)
  <2>1. tokens' = [tokens EXCEPT ![i] = "expired"]
    BY <1>5 DEF TokenExpires
  <2>. QED  BY <1>1, <1>2, <2>1
<1>6. \/ UNCHANGED tokens \/ tokens' = Revoked
      \/ \E r \in Request : IssueToken(r)
      \/ \E i \in DOMAIN tokens : TokenExpires(i)
  BY DEF CommunicationsNext, communicationVars, communications, ConfirmRequest, RejectRequest,
         HoldRequest, ExpireRequest, Reschedule, RescheduleAndConfirm, CancelBooking,
         CompleteBooking, NoShow, LookToRequest, FileRequest, LookToApproveRequest, LookToReject,
         Approve, CloseRequest, Reject, FindToken, RotateAccess, Announce, Deliver,
         RecordOutcome, Resend, HourBegins, RevokeAccess
<1>. QED  BY <1>1, <1>3, <1>4, <1>5, <1>6

LEMMA OutboxTyped ==
    ASSUME CommunicationRows, CommunicationsInv, [CommunicationsNext]_communicationVars
    PROVE  \A k \in DOMAIN outbox' : outbox'[k] \in {"pending", "sent", "failed"}
<1>1. ASSUME NEW r \in Request, Announce(r)
      PROVE  \A k \in DOMAIN outbox' : outbox'[k] \in {"pending", "sent", "failed"}
  BY <1>1 DEF Announce, CommunicationRows
<1>2. ASSUME NEW r \in Request, RecordOutcome(r)
      PROVE  \A k \in DOMAIN outbox' : outbox'[k] \in {"pending", "sent", "failed"}
  BY <1>2 DEF RecordOutcome, CommunicationRows
<1>3. \/ UNCHANGED outbox \/ \E r \in Request : Announce(r) \/ RecordOutcome(r)
  BY DEF CommunicationsNext, communicationVars, communications, ConfirmRequest, RejectRequest,
         HoldRequest, ExpireRequest, Reschedule, RescheduleAndConfirm, CancelBooking,
         CompleteBooking, NoShow, LookToRequest, FileRequest, LookToApproveRequest, LookToReject,
         Approve, CloseRequest, Reject, FindToken, IssueToken, RotateAccess, Deliver, Resend,
         HourBegins, RevokeAccess, TokenExpires
<1>. QED  BY <1>1, <1>2, <1>3 DEF CommunicationRows

LEMMA BookingTyped ==
    ASSUME CommunicationRows, [CommunicationsNext]_communicationVars
    PROVE  /\ booking' \in Awaiting \cup {"confirmed", "rejected", "cancelled", "expired",
                                          "completed", "no_show"}
           /\ started' \in BOOLEAN /\ changes' \in 0 .. MaxChanges
<1>1. ASSUME NEW r \in Request, NEW to, NEW j, Transition(r, to, j)
      PROVE  booking' = to /\ changes' \in 0 .. MaxChanges
  BY <1>1, CommunicationsAssumption DEF Transition, CommunicationRows
<1>2. ASSUME NEW r \in Request, FileRequest(r) \/ Reject(r)
      PROVE  UNCHANGED <<booking, started>> /\ changes' \in 0 .. MaxChanges
  BY <1>2, CommunicationsAssumption DEF FileRequest, Reject, CommunicationRows
<1>3. \/ UNCHANGED <<booking, started, changes>>
      \/ HourBegins
      \/ \E r \in Request :
            \/ FileRequest(r) \/ Reject(r)
            \/ /\ \E to \in {"confirmed", "rejected", "held", "reschedule_pending", "expired",
                               "cancelled", "completed", "no_show"} :
                     \E j : Transition(r, to, j)
               /\ UNCHANGED started
  BY DEF CommunicationsNext, communicationVars, communications, ConfirmRequest, RejectRequest,
         HoldRequest, ExpireRequest, Reschedule, RescheduleAndConfirm, CancelBooking,
         CompleteBooking, NoShow, LookToRequest, LookToApproveRequest, LookToReject,
         Approve, CloseRequest, FindToken, IssueToken, RotateAccess, Announce, Deliver,
         RecordOutcome, Resend, RevokeAccess, TokenExpires
<1>. QED  BY <1>1, <1>2, <1>3 DEF HourBegins, CommunicationRows, Awaiting

LEMMA CommunicationsInvHolds == CommunicationsSpec => []CommunicationsInv
  BY CommunicationsInitHolds, CommunicationsStepKeeps, PTL DEF CommunicationsSpec

LEMMA CommunicationsInvTyped == CommunicationsInv /\ CommunicationRows => CommunicationsTypeOK
<1>. SUFFICES ASSUME CommunicationsInv, CommunicationRows PROVE CommunicationsTypeOK
  OBVIOUS
<1>1. Range(cancellations) \subseteq {"pending", "approved", "rejected"}
  BY DEF CommunicationsInv, Asked, Requests, Range
<1>2. Range(tokens) \subseteq {"active", "revoked", "expired"}
  BY DEF CommunicationRows, Range
<1>3. Range(outbox) \subseteq {"pending", "sent", "failed"}
  BY DEF CommunicationRows, Range
<1>. QED  BY <1>1, <1>2, <1>3
          DEF CommunicationsInv, Told, Counted, CommunicationRows, CommunicationsTypeOK

\* The booking, its links and its messages have their types, and the gateway has
\* no message that is not recorded.
THEOREM CommunicationsTyped == CommunicationsSpec => []CommunicationsTypeOK
<1>1. CommunicationsInv /\ CommunicationRows /\ [CommunicationsNext]_communicationVars
        => CommunicationRows'
  BY BookingTyped, TokensTyped, OutboxTyped, OutcomesTyped DEF CommunicationRows
<1>2. CommunicationsSpec => []CommunicationRows
  BY <1>1, RowsInit, CommunicationsInvHolds, PTL DEF CommunicationsSpec
<1>. QED  BY <1>2, CommunicationsInvTyped, CommunicationsInvHolds, PTL

\* However desks, the customer and the clock interleave, and wherever the process
\* stops: at most one cancellation request waits, an approved one has a cancelled
\* booking, nobody is told twice of one event, and what is recorded as sent was.
THEOREM CustomerIsAlwaysTold == CommunicationsSpec => []CustomerIsTold
<1>1. ASSUME CommunicationsInv PROVE CustomerIsTold
  <2>1. OneRequestWaits
    <3>1. CASE Pending = {}
      BY <3>1, FS_EmptySet DEF OneRequestWaits
    <3>2. CASE Pending # {}
      <4>1. PICK i \in Pending : TRUE
        BY <3>2
      <4>2. Pending = {i}
        BY <1>1, <4>1 DEF CommunicationsInv, Asked, OneAtMost
      <4>3. Cardinality({i}) = 1
        BY FS_Singleton
      <4>. QED  BY <4>2, <4>3 DEF OneRequestWaits
    <3>. QED  BY <3>1, <3>2
  <2>2. ApprovedIsCancelled
    BY <1>1 DEF CommunicationsInv, Asked, Cancelled
  <2>3. ToldOnce
    BY <1>1 DEF CommunicationsInv, Told, Counted, ToldOnce
  <2>. QED  BY <2>1, <2>2, <2>3 DEF CustomerIsTold
<1>. QED  BY <1>1, CommunicationsInvHolds, PTL
----------------------------------------------------------------------------
(***************************************************************************)
(* Students' attendance (StudentAttendance).  A write that has passed its  *)
(* checks has the sheet locked, or is alone.                               *)
(***************************************************************************)

attendanceVars == <<driver, tx, attendance>>

AttendanceSpec == InitRequests /\ AttendanceInit /\ [][AttendanceNext]_attendanceVars

Job == [op : {"idle"}] \cup [op : Sheet, who : {"office", "shared"}]
       \cup [op : {"mark"}, day : CourseDay]

SheetWritten(r) == tx[r].op \in Sheet

\* One request writes the sheet, and the page has seen that there is none.
SheetIsLocked ==
    /\ \A r, k \in Request : SheetWritten(r) /\ SheetWritten(k) => r = k
    /\ \A r \in Request : tx[r].op = "checked" /\ tx[r].who = "shared" => sheet = "none"

StatusIsCurrent == \A r \in Request : tx[r].op = "mark" => tx[r].day \in active

AttendanceInv == tx \in [Request -> Job] /\ SheetIsLocked /\ StatusIsCurrent
----------------------------------------------------------------------------
LEMMA AttendanceInitHolds == InitRequests /\ AttendanceInit => AttendanceInv
  BY DEF InitRequests, Idle, AttendanceInv, Job, SheetIsLocked, SheetWritten, Sheet, StatusIsCurrent

\* Requests that end take nothing from the others.
LEMMA EndKeeps ==
    ASSUME AttendanceInv, NEW R, End(R), sheet' = sheet, active \subseteq active'
    PROVE  AttendanceInv'
<1>1. tx' \in [Request -> Job]
      /\ \A r \in Request : tx'[r] = Idle \/ tx'[r] = tx[r]
  BY DEF AttendanceInv, End, Idle, Job
<1>2. Idle.op \notin Sheet /\ Idle.op # "checked" /\ Idle.op # "mark"
  BY DEF Idle, Sheet
<1>3. SheetIsLocked'
  BY <1>1, <1>2 DEF AttendanceInv, SheetIsLocked, SheetWritten
<1>4. StatusIsCurrent'
  BY <1>1, <1>2 DEF AttendanceInv, StatusIsCurrent
<1>. QED  BY <1>1, <1>3, <1>4 DEF AttendanceInv

LEMMA OpenSheetStep ==
    ASSUME AttendanceInv, NEW r \in Request, NEW who \in {"office", "shared"}, OpenSheet(r, who)
    PROVE  AttendanceInv'
<1> DEFINE j == [op |-> "lock", who |-> who]
<1>1. /\ tx' = [tx EXCEPT ![r] = j] /\ sheet' = sheet /\ active' = active
      /\ \A k \in Request \ {r} : tx[k].op \notin Sheet
  BY DEF OpenSheet, GroupFree, Look, attendance
<1>2. j \in Job /\ j.op # "checked" /\ j.op # "mark"
  BY DEF Job, Sheet
<1> HIDE DEF j
<1>3. /\ tx' \in [Request -> Job] /\ tx'[r] = j
      /\ \A k \in Request \ {r} : tx'[k] = tx[k]
  BY <1>1, <1>2 DEF AttendanceInv
<1>4. SheetIsLocked'
  BY <1>1, <1>2, <1>3 DEF AttendanceInv, SheetIsLocked, SheetWritten
<1>5. StatusIsCurrent'
  BY <1>1, <1>2, <1>3 DEF AttendanceInv, StatusIsCurrent
<1>. QED  BY <1>3, <1>4, <1>5 DEF AttendanceInv

LEMMA CheckSheetStep == ASSUME AttendanceInv, NEW r \in Request, CheckSheet(r) PROVE AttendanceInv'
<1> DEFINE j == [tx[r] EXCEPT !.op = "checked"]
<1>1. /\ tx' = [tx EXCEPT ![r] = j] /\ sheet' = sheet /\ active' = active
      /\ tx[r].op = "lock" /\ (tx[r].who = "shared" => sheet = "none")
  BY DEF CheckSheet, Proceed, attendance
<1>2. j \in Job /\ j.op = "checked" /\ j.who = tx[r].who
  BY <1>1 DEF AttendanceInv, Job, Sheet
<1> HIDE DEF j
<1>3. /\ tx' \in [Request -> Job] /\ tx'[r] = j
      /\ \A k \in Request \ {r} : tx'[k] = tx[k]
  BY <1>1, <1>2 DEF AttendanceInv
<1>4. SheetIsLocked'
  <2>1. SheetWritten(r) /\ \A k \in Request \ {r} : ~SheetWritten(k)
    BY <1>1 DEF AttendanceInv, SheetIsLocked, SheetWritten, Sheet
  <2>2. \A k \in Request \ {r} : ~(SheetWritten(k)') /\ tx'[k].op # "checked"
    BY <1>3, <2>1 DEF SheetWritten, Sheet
  <2>. QED  BY <1>1, <1>2, <1>3, <2>2 DEF SheetIsLocked
<1>5. StatusIsCurrent'
  BY <1>1, <1>2, <1>3 DEF AttendanceInv, StatusIsCurrent
<1>. QED  BY <1>3, <1>4, <1>5 DEF AttendanceInv

LEMMA WriteSheetStep == ASSUME AttendanceInv, NEW r \in Request, WriteSheet(r) PROVE AttendanceInv'
<1>1. /\ tx' = [k \in Request |-> IF k = r THEN Idle ELSE tx[k]] /\ active' = active
      /\ tx[r].op = "checked"
  BY DEF WriteSheet, End
<1>2. Idle \in Job /\ Idle.op \notin Sheet /\ Idle.op # "checked" /\ Idle.op # "mark"
  BY DEF Idle, Job, Sheet
<1>3. \A k \in Request \ {r} : ~SheetWritten(k)
  BY <1>1 DEF AttendanceInv, SheetIsLocked, SheetWritten, Sheet
<1>4. tx' \in [Request -> Job] /\ \A k \in Request : ~(SheetWritten(k)')
  BY <1>1, <1>2, <1>3 DEF AttendanceInv, SheetWritten
<1>5. SheetIsLocked'
  BY <1>4 DEF SheetIsLocked, SheetWritten, Sheet
<1>6. StatusIsCurrent'
  BY <1>1, <1>2 DEF AttendanceInv, StatusIsCurrent
<1>. QED  BY <1>4, <1>5, <1>6 DEF AttendanceInv

LEMMA LookToMarkStep ==
    ASSUME AttendanceInv, NEW r \in Request, NEW day \in CourseDay, LookToMark(r, day)
    PROVE  AttendanceInv'
<1> DEFINE j == [op |-> "mark", day |-> day]
<1>1. /\ tx' = [tx EXCEPT ![r] = j] /\ sheet' = sheet /\ active' = active
      /\ day \in active
  BY DEF LookToMark, Look, attendance
<1>2. j \in Job /\ j.op \notin Sheet /\ j.op # "checked" /\ j.day = day
  BY DEF Job, Sheet
<1> HIDE DEF j
<1>3. /\ tx' \in [Request -> Job] /\ tx'[r] = j
      /\ \A k \in Request \ {r} : tx'[k] = tx[k]
  BY <1>1, <1>2 DEF AttendanceInv
<1>4. SheetIsLocked'
  BY <1>1, <1>2, <1>3 DEF AttendanceInv, SheetIsLocked, SheetWritten
<1>5. StatusIsCurrent'
  BY <1>1, <1>2, <1>3 DEF AttendanceInv, StatusIsCurrent
<1>. QED  BY <1>3, <1>4, <1>5 DEF AttendanceInv

\* Nobody is left who has seen the status that changes.
LEMMA ChangeStatusStep ==
    ASSUME AttendanceInv, driver \in {"sqlite", "postgres"}, NEW from, NEW on, ChangeStatus(from, on)
    PROVE  AttendanceInv'
<1>1. End(Overtaken({})) /\ sheet' = sheet /\ EnrolmentFree
  BY DEF ChangeStatus
<1>2. /\ tx' \in [Request -> Job]
      /\ \A r \in Request : tx'[r] = Idle \/ tx'[r] = tx[r]
  BY <1>1 DEF AttendanceInv, End, Idle, Job
<1>3. Idle.op \notin Sheet /\ Idle.op # "checked" /\ Idle.op # "mark"
  BY DEF Idle, Sheet
<1>4. \A r \in Request : tx'[r].op # "mark"
  <2>1. CASE driver = "sqlite"
    BY <1>1, <1>3, <2>1 DEF End, Overtaken
  <2>2. CASE driver = "postgres"
    BY <1>1, <1>2, <1>3, <2>2 DEF EnrolmentFree
  <2>. QED  BY <2>1, <2>2
<1>5. SheetIsLocked'
  BY <1>1, <1>2, <1>3 DEF AttendanceInv, SheetIsLocked, SheetWritten
<1>. QED  BY <1>2, <1>4, <1>5 DEF AttendanceInv, StatusIsCurrent
----------------------------------------------------------------------------
Full == AttendanceInv /\ driver \in {"sqlite", "postgres"}

LEMMA AttendanceStepKeeps == Full /\ [AttendanceNext]_attendanceVars => Full'
<1> SUFFICES ASSUME Full, [AttendanceNext]_attendanceVars PROVE Full'
  OBVIOUS
<1> USE DEF Full
<1>1. UNCHANGED driver
  BY DEF AttendanceNext, OfficeSaves, PageSaves, OpenSheet, CheckSheet, WriteSheet, LookToMark,
         Mark, GiveUp, ChangeStatus, Look, Proceed, End, attendanceVars
<1>2. ASSUME NEW r \in Request, Mark(r) PROVE AttendanceInv'
  BY <1>2, EndKeeps DEF Mark
<1>3. ASSUME NEW r \in Request, GiveUp(r), UNCHANGED attendance PROVE AttendanceInv'
  BY <1>3, EndKeeps DEF GiveUp, attendance
<1>4. ASSUME NEW r \in Request, OfficeSaves(r) \/ PageSaves(r) PROVE AttendanceInv'
  BY <1>4, OpenSheetStep DEF OfficeSaves, PageSaves
<1>5. CASE UNCHANGED attendanceVars
  BY <1>5 DEF attendanceVars, attendance, AttendanceInv, SheetIsLocked, SheetWritten, StatusIsCurrent
<1>6. AttendanceInv'
  BY <1>2, <1>3, <1>4, <1>5, CheckSheetStep, WriteSheetStep, LookToMarkStep, ChangeStatusStep
  DEF AttendanceNext
<1>. QED  BY <1>1, <1>6

\* What a step does to the sheet and to the marks
LEMMA StepIsSound ==
    ASSUME Full, [AttendanceNext]_attendanceVars
    PROVE  /\ UNCHANGED <<tx, attendance>> \/ (sheet' = "shared" => sheet \in {"none", "shared"})
           /\ UNCHANGED <<tx, attendance>> \/ marked' \ marked \subseteq active
<1>1. ASSUME NEW r \in Request, WriteSheet(r)
      PROVE  (sheet' = "shared" => sheet = "none") /\ marked' = marked
  BY <1>1 DEF WriteSheet, Full, AttendanceInv, SheetIsLocked
<1>2. ASSUME NEW r \in Request, Mark(r)
      PROVE  sheet' = sheet /\ marked' \ marked \subseteq active
  BY <1>2 DEF Mark, Full, AttendanceInv, StatusIsCurrent
<1>3. \/ UNCHANGED <<sheet, marked>>
      \/ \E r \in Request : WriteSheet(r) \/ Mark(r)
  BY DEF AttendanceNext, OfficeSaves, PageSaves, OpenSheet, CheckSheet, LookToMark,
         ChangeStatus, attendance, attendanceVars
<1>. QED  BY <1>1, <1>2, <1>3

LEMMA FullHolds == AttendanceSpec => []Full
<1>1. InitRequests /\ AttendanceInit => Full
  BY AttendanceInitHolds DEF Full, InitRequests
<1>. QED  BY <1>1, AttendanceStepKeeps, PTL DEF AttendanceSpec

LEMMA AttendanceStartsTyped == AttendanceInit => AttendanceTypeOK
  BY DEF AttendanceInit, AttendanceTypeOK

\* A sheet is of the office or of the page, and only days of the course are
\* covered or marked.
THEOREM AttendanceTyped == AttendanceSpec => []AttendanceTypeOK
<1>1. Full /\ AttendanceTypeOK /\ [AttendanceNext]_attendanceVars => AttendanceTypeOK'
  <2>. SUFFICES ASSUME Full, AttendanceTypeOK, [AttendanceNext]_attendanceVars
                PROVE  AttendanceTypeOK'
    OBVIOUS
  <2>1. marked' \subseteq CourseDay
    BY StepIsSound DEF AttendanceTypeOK, attendance
  <2>2. ASSUME NEW r \in Request, WriteSheet(r)
        PROVE  sheet' \in {"office", "shared"} /\ UNCHANGED active
    BY <2>2 DEF WriteSheet, Full, AttendanceInv, Job, Sheet
  <2>3. ASSUME NEW from \in CourseDay, NEW on \in BOOLEAN, ChangeStatus(from, on)
        PROVE  active' \subseteq CourseDay /\ UNCHANGED sheet
    BY <2>3 DEF ChangeStatus
  <2>4. \/ UNCHANGED <<sheet, active>>
        \/ \E r \in Request : WriteSheet(r)
        \/ \E from \in CourseDay, on \in BOOLEAN : ChangeStatus(from, on)
    BY DEF AttendanceNext, OfficeSaves, PageSaves, OpenSheet, CheckSheet, LookToMark, Mark,
           attendance, attendanceVars
  <2>. QED  BY <2>1, <2>2, <2>3, <2>4 DEF AttendanceTypeOK
<1>. QED  BY <1>1, AttendanceStartsTyped, FullHolds, PTL DEF AttendanceSpec

\* However the office, the shared page and changes of the enrolment interleave,
\* on both drivers: a sheet of the office is not overwritten by the page, and a
\* day is marked only while the enrolment is active on it.
THEOREM SavesAreSound == AttendanceSpec => SheetsAreSound
<1>1. Full /\ [AttendanceNext]_attendanceVars
      => [sheet' = "shared" => sheet \in {"none", "shared"}]_<<tx, attendance>>
  BY StepIsSound
<1>2. Full /\ [AttendanceNext]_attendanceVars
      => [marked' \ marked \subseteq active]_<<tx, attendance>>
  BY StepIsSound
<1>3. AttendanceSpec => SharedNeverOverwrites
  BY FullHolds, <1>1, PTL DEF AttendanceSpec, SharedNeverOverwrites
<1>4. AttendanceSpec => MarkedWhenEnrolled
  BY FullHolds, <1>2, PTL DEF AttendanceSpec, MarkedWhenEnrolled
<1>. QED  BY <1>3, <1>4 DEF SheetsAreSound
----------------------------------------------------------------------------
(***************************************************************************)
(* Work sessions of staff (StaffAttendance)                                *)
(***************************************************************************)

StaffSpec == InitRequests /\ StaffInit /\ [][StaffNext]_<<driver, tx, staff>>

\* A save that is under way is one of PostgreSQL, of sessions that are.
StaffJob(j) ==
    j.op \in Saving =>
        /\ driver = "postgres"
        /\ j.asked \subseteq Shift /\ j.status \in StaffStatus \cup {"none"}

StaffInv ==
    /\ StaffTypeOK /\ WorkDisjoint
    /\ driver \in {"sqlite", "postgres"} /\ DOMAIN tx = Request
    /\ \A r \in Request : StaffJob(tx[r])

LEMMA FormIsAcceptable ==
    ASSUME work \subseteq Shift, NEW j \in Forms
    PROVE  /\ j.op = "clear" /\ j.asked \subseteq Shift /\ j.status \in StaffStatus \cup {"none"}
           /\ \A s, t \in j.asked : s # t => ~Overlap(s, t)
<1>1. CASE j = Deletion
  BY <1>1 DEF Deletion
<1>2. CASE j # Deletion
  BY <1>2 DEF Forms, Acceptable
<1>. QED  BY <1>1, <1>2

LEMMA StaffJobsKept ==
    ASSUME StaffInv, UNCHANGED driver, DOMAIN tx' = Request,
           \A k \in Request : tx'[k] = Idle \/ tx'[k] = tx[k] \/ StaffJob(tx'[k])
    PROVE  \A k \in Request : StaffJob(tx[k])'
<1>. SUFFICES ASSUME NEW k \in Request PROVE StaffJob(tx[k])'
  OBVIOUS
<1>1. CASE tx'[k] = Idle
  <2>1. tx'[k].op = "idle"
    BY <1>1 DEF Idle
  <2>. QED  BY <2>1 DEF StaffJob, Saving
<1>2. CASE tx'[k] = tx[k] \/ StaffJob(tx'[k])
  BY <1>2 DEF StaffInv, StaffJob
<1>. QED  BY <1>1, <1>2

LEMMA StaffKept == StaffInv /\ [StaffNext]_<<driver, tx, staff>> => StaffInv'
<1> SUFFICES ASSUME StaffInv, [StaffNext]_<<driver, tx, staff>> PROVE StaffInv'
  OBVIOUS
<1>0. StaffTypeOK /\ WorkDisjoint /\ DOMAIN tx = Request /\ work \subseteq Shift
  BY DEF StaffInv, StaffTypeOK
<1>1. CASE UNCHANGED <<driver, tx, staff>>
  <2>1. UNCHANGED <<driver, tx, register, work>>
    BY <1>1 DEF staff
  <2>. QED  BY <2>1 DEF StaffInv, StaffTypeOK, WorkDisjoint, StaffJob
<1>2. ASSUME NEW r \in Request, NEW j \in Forms, BeginDay(r, j) PROVE StaffInv'
  <2>1. /\ driver = "postgres" /\ UNCHANGED <<driver, register, work>>
        /\ tx' = [tx EXCEPT ![r] = j] /\ tx'[r] = j
    BY <1>0, <1>2 DEF BeginDay, Look, staff
  <2>2. StaffJob(j)
    BY <1>0, <2>1, FormIsAcceptable DEF StaffJob
  <2>3. \A k \in Request : StaffJob(tx[k])'
    BY <1>0, <2>1, <2>2, StaffJobsKept
  <2>. QED  BY <2>1, <2>3 DEF StaffInv, StaffTypeOK, WorkDisjoint
<1>3. ASSUME NEW r \in Request, ClearWork(r) PROVE StaffInv'
  <2> DEFINE gone == IF Replaces(tx[r]) THEN tx[r].seen \cap work ELSE {}
             j == [tx[r] EXCEPT !.op = "unlist", !.gone = gone]
  <2>1. /\ tx[r].op = "clear" /\ UNCHANGED <<driver, register, work>>
        /\ tx' = [tx EXCEPT ![r] = j] /\ tx'[r] = j
    BY <1>0, <1>3 DEF ClearWork, Proceed, staff
  <2>2. StaffJob(tx[r])
    BY DEF StaffInv
  <2>3. j.asked = tx[r].asked /\ j.status = tx[r].status
    OBVIOUS
  <2> HIDE DEF j
  <2>4. StaffJob(j)
    BY <2>1, <2>2, <2>3 DEF StaffJob, Saving
  <2>5. \A k \in Request : StaffJob(tx[k])'
    BY <1>0, <2>1, <2>4, StaffJobsKept
  <2>. QED  BY <1>0, <2>1, <2>5 DEF StaffInv, StaffTypeOK, WorkDisjoint
<1>4. ASSUME NEW r \in Request, Unlist(r) PROVE StaffInv'
  <2> DEFINE dropped == register # "none"
             j == [tx[r] EXCEPT !.op = "list", !.dropped = dropped]
  <2>1. /\ tx[r].op = "unlist" /\ UNCHANGED <<driver, register, work>>
        /\ tx' = [tx EXCEPT ![r] = j] /\ tx'[r] = j
    BY <1>0, <1>4 DEF Unlist, Proceed, staff
  <2>2. StaffJob(tx[r])
    BY DEF StaffInv
  <2>3. j.asked = tx[r].asked /\ j.status = tx[r].status
    OBVIOUS
  <2> HIDE DEF j
  <2>4. StaffJob(j)
    BY <2>1, <2>2, <2>3 DEF StaffJob, Saving
  <2>5. \A k \in Request : StaffJob(tx[k])'
    BY <1>0, <2>1, <2>4, StaffJobsKept
  <2>. QED  BY <1>0, <2>1, <2>5 DEF StaffInv, StaffTypeOK, WorkDisjoint
<1>5. ASSUME NEW r \in Request, ListAndCommit(r) PROVE StaffInv'
  <2>1. /\ tx[r].op = "list" /\ StaffJob(tx[r])
        /\ work' = (work \ tx[r].gone) \cup tx[r].asked
        /\ register' = IF tx[r].status # "none" \/ tx[r].dropped THEN tx[r].status ELSE register
    BY <1>5 DEF ListAndCommit, StaffInv
  <2>2. /\ UNCHANGED driver /\ DOMAIN tx' = Request
        /\ \A k \in Request : tx'[k] = Idle \/ tx'[k] = tx[k]
    BY <1>5 DEF ListAndCommit, End
  <2>3. driver = "postgres" /\ tx[r].asked \subseteq Shift /\ tx[r].status \in StaffStatus \cup {"none"}
    BY <2>1 DEF StaffJob, Saving
  <2>4. \A k \in Request : StaffJob(tx[k])'
    BY <2>2, StaffJobsKept
  <2>5. StaffTypeOK'
    BY <1>0, <2>1, <2>3 DEF StaffTypeOK
  <2>. QED  BY <2>2, <2>3, <2>4, <2>5 DEF StaffInv, WorkDisjoint
<1>6. ASSUME NEW j \in Forms, SaveDay(j) PROVE StaffInv'
  <2>1. /\ work' = (IF Replaces(j) THEN j.asked ELSE work) /\ register' = j.status
        /\ UNCHANGED driver /\ DOMAIN tx' = Request
        /\ \A k \in Request : tx'[k] = Idle \/ tx'[k] = tx[k]
    BY <1>6 DEF SaveDay, End, Overtaken
  <2>2. /\ j.asked \subseteq Shift /\ j.status \in StaffStatus \cup {"none"}
        /\ \A s, t \in j.asked : s # t => ~Overlap(s, t)
    BY <1>0, FormIsAcceptable
  <2>3. \A k \in Request : StaffJob(tx[k])'
    BY <2>1, StaffJobsKept
  <2>4. StaffTypeOK'
    BY <1>0, <2>1, <2>2 DEF StaffTypeOK
  <2>5. WorkDisjoint'
    BY <1>0, <2>1, <2>2 DEF WorkDisjoint
  <2>. QED  BY <2>1, <2>3, <2>4, <2>5 DEF StaffInv
<1>7. ASSUME NEW status \in StaffStatus, SaveCoach(status) PROVE StaffInv'
  <2>1. /\ register' = status /\ UNCHANGED <<driver, work>> /\ DOMAIN tx' = Request
        /\ \A k \in Request : tx'[k] = Idle \/ tx'[k] = tx[k]
    BY <1>7 DEF SaveCoach, End, Overtaken
  <2>2. \A k \in Request : StaffJob(tx[k])'
    BY <2>1, StaffJobsKept
  <2>. QED  BY <1>0, <2>1, <2>2 DEF StaffInv, StaffTypeOK, WorkDisjoint
<1>8. ASSUME NEW r \in Request, GiveUp(r), UNCHANGED staff PROVE StaffInv'
  <2>1. /\ UNCHANGED <<driver, register, work>> /\ DOMAIN tx' = Request
        /\ \A k \in Request : tx'[k] = Idle \/ tx'[k] = tx[k]
    BY <1>8 DEF GiveUp, End, staff
  <2>2. \A k \in Request : StaffJob(tx[k])'
    BY <2>1, StaffJobsKept
  <2>. QED  BY <1>0, <2>1, <2>2 DEF StaffInv, StaffTypeOK, WorkDisjoint
<1>. QED  BY <1>1, <1>2, <1>3, <1>4, <1>5, <1>6, <1>7, <1>8 DEF StaffNext

LEMMA StaffInitHolds == InitRequests /\ StaffInit => StaffInv
<1>. SUFFICES ASSUME InitRequests, StaffInit PROVE StaffInv
  OBVIOUS
<1>1. \A r \in Request : tx[r].op = "idle"
  BY DEF InitRequests, Idle
<1>2. \A r \in Request : StaffJob(tx[r])
  BY <1>1 DEF StaffJob, Saving
<1>. QED  BY <1>2 DEF StaffInit, InitRequests, StaffInv, StaffTypeOK, WorkDisjoint

LEMMA StaffInvHolds == StaffSpec => []StaffInv
  BY StaffInitHolds, StaffKept, PTL DEF StaffSpec

LEMMA StaffInvTyped == StaffInv => StaffTypeOK
  BY DEF StaffInv

\* The register and the work sessions of a day have their types.
THEOREM StaffTyped == StaffSpec => []StaffTypeOK
  BY StaffInvTyped, StaffInvHolds, PTL

\* On SQLite the work sessions of one member of staff never overlap, so payroll
\* pays no hour twice: saveStaffAttendance checks the sessions it is given and
\* replaces those there are in one transaction, whatever the order of the saves.
THEOREM WorkNeverOverlaps == StaffSpec => []WorkDisjoint
<1>1. StaffInv => WorkDisjoint
  BY DEF StaffInv
<1>. QED  BY <1>1, StaffInvHolds, PTL
----------------------------------------------------------------------------
(***************************************************************************)
(* Payroll (PayrollRun).  On SQLite what a request has read of a salary or a *)
(* run is still so, and what it generates is claimed by no other salary.   *)
(***************************************************************************)

PayrollStep == PayrollNext \/ \E r \in Request : GiveUp(r) /\ UNCHANGED payroll

PayrollSpec == InitRequests /\ PayrollInit /\ [][PayrollStep]_<<driver, tx, payroll>>

SalaryKey == [run : Period, source : Source]

Salaries(m) ==
    /\ IsFiniteSet(DOMAIN m) /\ DOMAIN m \subseteq SalaryKey
    /\ m \in [DOMAIN m -> Salary]
    /\ \A k \in DOMAIN m : k.source = "profile" => m[k].sessions = {}

PayrollRows ==
    /\ run \in [Period -> {"none", "draft", "calculated", "approved", "closed"}]
    /\ Salaries(salary)
    /\ done \subseteq Session /\ profiled \in BOOLEAN /\ cash \in 0 .. Advance /\ settled \in BOOLEAN

\* What a request of SQLite has read of a salary or of a run is still so.
StillSo(r) ==
    LET k == tx[r].row
    IN  /\ tx[r].op = "quantity" => salary[k].status = "draft"
        /\ tx[r].op = "approve" => run[k.run] = "calculated" /\ salary[k].status = "calculated"
        /\ tx[r].op = "roll back" => /\ run[k.run] = "calculated" /\ salary[k].status = "approved"
                                     /\ salary[k].txn = "none"
        /\ tx[r].op = "pay" => salary[k].status = "approved" /\ salary[k].txn = "none"
        /\ tx[r].op = "void" => salary[k].status = "paid"
        /\ tx[r].op = "close" => MayClose(k)

\* And what it generates is claimed by no other salary.
GeneratesWell(r) ==
    /\ \A k \in Rows(tx[r].run) : salary[k].status \notin {"approved", "paid"}
    /\ \A k \in DOMAIN salary \ {Row(tx[r].run, "one_to_one")} :
          salary[k].status # "void" => salary[k].sessions \cap tx[r].sessions = {}

PayrollJob(r) ==
    /\ tx[r].op \in {"asked", "sync"} => tx[r].run \in Period /\ tx[r].sessions \subseteq Session
    /\ tx[r].op \in {"quantity", "adjust", "approve", "roll back", "pay", "void"}
          => tx[r].row \in DOMAIN salary
    /\ tx[r].op \in {"approve run", "close"} => tx[r].row \in Period
    /\ driver = "sqlite" => StillSo(r)
    /\ driver = "sqlite" /\ tx[r].op = "sync" => GeneratesWell(r)

PayrollJobs ==
    /\ driver \in {"sqlite", "postgres"}
    /\ DOMAIN tx = Request
    /\ \A r \in Request : PayrollJob(r)

PayrollInv == PayrollRows /\ PayrollJobs /\ PayrollIsSettled
----------------------------------------------------------------------------
(* Sums and bounds *)

LEMMA MaxOfTwo ==
    ASSUME NEW a \in Int, NEW b \in Int
    PROVE  Max({a, b}) = IF a >= b THEN a ELSE b
<1> DEFINE m == IF a >= b THEN a ELSE b
<1>1. m \in {a, b} /\ \A y \in {a, b} : m >= y
  OBVIOUS
<1>2. \A x \in {a, b} : (\A y \in {a, b} : x >= y) => x = m
  OBVIOUS
<1> HIDE DEF m
<1>. QED  BY <1>1, <1>2 DEF Max, m

LEMMA MinOfTwo ==
    ASSUME NEW a \in Int, NEW b \in Int
    PROVE  Min({a, b}) = IF a <= b THEN a ELSE b
<1> DEFINE m == IF a <= b THEN a ELSE b
<1>1. m \in {a, b} /\ \A y \in {a, b} : m <= y
  OBVIOUS
<1>2. \A x \in {a, b} : (\A y \in {a, b} : x <= y) => x = m
  OBVIOUS
<1> HIDE DEF m
<1>. QED  BY <1>1, <1>2 DEF Min, m

LEMMA RepaidNat ==
    ASSUME NEW m, Salaries(m), cash \in Nat
    PROVE  Repaid(m) \in Nat /\ Repaid(m) >= cash
<1> DEFINE A == DOMAIN m
           f == [k \in A |-> m[k].repaid]
           IsSum(h) == h = [t \in SUBSET A |->
                              IF t = {} THEN 0
                              ELSE m[CHOOSE x \in t : TRUE].repaid + h[t \ {CHOOSE x \in t : TRUE}]]
<1>1. IsFiniteSet(A)
  BY DEF Salaries
<1>2. ASSUME NEW x \in A PROVE f[x] \in Nat
  <2>1. m[x] \in Salary
    BY DEF Salaries
  <2>2. m[x].repaid \in 0 .. Advance
    BY <2>1 DEF Salary
  <2>. QED  BY <2>2, PayrollAssumption
<1>3. \A h : Adds(h, f, A) <=> IsSum(h)
  <2>1. \A t \in SUBSET A : t # {} => f[Pick(t)] = m[CHOOSE x \in t : TRUE].repaid
    BY PickIn DEF Pick
  <2>. QED  BY <2>1 DEF Adds, Pick
<1>4. Repaid(m) = cash + (CHOOSE h : IsSum(h))[A]
  BY DEF Repaid, MapThenSumSet, MapThenFoldSet
<1> HIDE DEF A, f, IsSum
<1>5. Adds(CHOOSE h : IsSum(h), f, A)
  BY <1>1, <1>3, AddsExists
<1>6. SetSum(f, A) = (CHOOSE h : IsSum(h))[A]
  BY <1>1, <1>5, SumIs
<1>7. SetSum(f, A) \in Nat
  BY <1>1, <1>2, SumNat
<1>. QED  BY <1>4, <1>6, <1>7

LEMMA ReservedNat ==
    ASSUME NEW m, Salaries(m)
    PROVE  Reserved(m) \in Nat
<1> DEFINE A == {k \in DOMAIN m : m[k].status \in {"draft", "calculated", "approved"}}
           f == [k \in DOMAIN m |-> m[k].deduct]
           IsSum(h) == h = [t \in SUBSET A |->
                              IF t = {} THEN 0
                              ELSE m[CHOOSE x \in t : TRUE].deduct + h[t \ {CHOOSE x \in t : TRUE}]]
<1>1. IsFiniteSet(A) /\ A \subseteq DOMAIN m
  BY FS_Subset DEF Salaries
<1>2. ASSUME NEW x \in A PROVE f[x] \in Nat
  <2>1. m[x] \in Salary
    BY <1>1 DEF Salaries
  <2>2. m[x].deduct \in 0 .. Advance
    BY <2>1 DEF Salary
  <2>. QED  BY <1>1, <2>2, PayrollAssumption
<1>3. \A h : Adds(h, f, A) <=> IsSum(h)
  <2>1. \A t \in SUBSET A : t # {} => f[Pick(t)] = m[CHOOSE x \in t : TRUE].deduct
    BY <1>1, PickIn DEF Pick
  <2>. QED  BY <2>1 DEF Adds, Pick
<1>4. Reserved(m) = (CHOOSE h : IsSum(h))[A]
  BY DEF Reserved, MapThenSumSet, MapThenFoldSet
<1> HIDE DEF A, f, IsSum
<1>5. Adds(CHOOSE h : IsSum(h), f, A)
  BY <1>1, <1>3, AddsExists
<1>6. SetSum(f, A) = (CHOOSE h : IsSum(h))[A]
  BY <1>1, <1>5, SumIs
<1>. QED  BY <1>1, <1>2, <1>4, <1>6, SumNat

\* What payroll withholds is never more than the advance.
LEMMA DeductionIn ==
    ASSUME NEW m, Salaries(m), cash \in Nat
    PROVE  Deduction(m) \in 0 .. Advance
<1> DEFINE a == Advance - Repaid(m) - Reserved(m)
<1>1. Repaid(m) \in Nat /\ Reserved(m) \in Nat /\ Advance \in Nat /\ Installment \in Nat
  BY RepaidNat, ReservedNat, PayrollAssumption
<1>2. a \in Int /\ a <= Advance
  BY <1>1
<1> HIDE DEF a
<1>3. Min({Installment, a}) = IF Installment <= a THEN Installment ELSE a
  BY <1>1, <1>2, MinOfTwo
<1>4. Min({Installment, a}) \in Int /\ Min({Installment, a}) <= Advance
  BY <1>1, <1>2, <1>3
<1>5. Max({0, Min({Installment, a})}) \in 0 .. Advance
  BY <1>1, <1>4, MaxOfTwo
<1>. QED  BY <1>1, <1>5 DEF Deduction, a
----------------------------------------------------------------------------
(* Rows *)

\* One row of the salaries is written or inserted: what it keeps
Touches(m, new, k) ==
    /\ DOMAIN m \subseteq DOMAIN new /\ DOMAIN new \subseteq DOMAIN m \cup {k}
    /\ \A x \in DOMAIN m \ {k} : new[x] = m[x]
    /\ k \in DOMAIN new =>
          /\ new[k].txn = IF k \in DOMAIN m THEN m[k].txn ELSE "none"
          /\ \/ new[k].status \in {"draft", "calculated", "void"}
             \/ k \in DOMAIN m /\ new[k].status = m[k].status

LEMMA InsertTyped ==
    ASSUME NEW m, Salaries(m), NEW k \in SalaryKey, NEW row \in Salary,
           k.source = "profile" => row.sessions = {}
    PROVE  Salaries(Insert(m, k, row))
<1> DEFINE new == Insert(m, k, row)
<1>1. /\ DOMAIN new = DOMAIN m \cup {k} /\ new[k] = row
      /\ \A x \in DOMAIN m : x # k => new[x] = m[x]
      /\ new = [x \in DOMAIN new |-> new[x]]
  BY DEF Insert
<1> HIDE DEF new
<1>2. IsFiniteSet(DOMAIN new)
  BY <1>1, FS_AddElement DEF Salaries
<1>3. \A x \in DOMAIN new : new[x] \in Salary
  BY <1>1 DEF Salaries
<1>4. new \in [DOMAIN new -> Salary]
  BY <1>1, <1>3
<1>5. Salaries(new)
  BY <1>1, <1>2, <1>4 DEF Salaries
<1>. QED  BY <1>5 DEF new

LEMMA EditTyped ==
    ASSUME NEW m, Salaries(m), NEW k \in DOMAIN m, NEW row \in Salary,
           k.source = "profile" => row.sessions = {}
    PROVE  Salaries([m EXCEPT ![k] = row])
<1> DEFINE new == [m EXCEPT ![k] = row]
<1>1. /\ DOMAIN new = DOMAIN m /\ new[k] = row /\ \A x \in DOMAIN m : x # k => new[x] = m[x]
      /\ new \in [DOMAIN m -> Salary]
  BY DEF Salaries
<1> HIDE DEF new
<1>2. Salaries(new)
  BY <1>1 DEF Salaries
<1>. QED  BY <1>2 DEF new

LEMMA NewTyped ==
    ASSUME NEW m, NEW status \in {"draft", "calculated"}, NEW sessions \in SUBSET Session,
           NEW deduct \in 0 .. Advance
    PROVE  /\ New(m, status, sessions, deduct) \in Salary
           /\ New(m, status, sessions, deduct).sessions = sessions
           /\ New(m, status, sessions, deduct).status = status
           /\ New(m, status, sessions, deduct).txn = "none"
<1>1. 0 \in 0 .. Advance
  BY PayrollAssumption
<1>. QED  BY <1>1 DEF New, Salary

LEMMA RowIsKey ==
    ASSUME NEW p \in Period, NEW source \in Source
    PROVE  Row(p, source) \in SalaryKey /\ Row(p, source).source = source /\ Row(p, source).run = p
  BY DEF Row, SalaryKey

LEMMA ProfileSalaryTouches ==
    ASSUME Salaries(salary), cash \in Nat, NEW j, j.run \in Period, j.rows = Rows(j.run),
           NEW status \in {"draft", "calculated"}
    PROVE  /\ Salaries(ProfileSalary(j, status))
           /\ Touches(salary, ProfileSalary(j, status), Row(j.run, "profile"))
<1> DEFINE k == Row(j.run, "profile")
           m == ProfileSalary(j, status)
<1>1. k \in SalaryKey /\ k.source = "profile" /\ k.run = j.run
  BY RowIsKey DEF Source
<1>2. k \in j.rows <=> k \in DOMAIN salary
  BY <1>1 DEF Rows
<1> HIDE DEF k
<1>3. CASE k \in DOMAIN salary /\ j.profile
  <2> DEFINE row == [salary[k] EXCEPT !.status = status]
  <2>1. m = [salary EXCEPT ![k] = row]
    BY <1>2, <1>3 DEF ProfileSalary, k
  <2>2. salary[k] \in Salary /\ salary[k].sessions = {}
    BY <1>1, <1>3 DEF Salaries
  <2>3. /\ row \in Salary /\ row.sessions = {} /\ row.status = status
        /\ row.txn = salary[k].txn
    BY <2>2 DEF Salary
  <2> HIDE DEF row, m
  <2>4. Salaries(m)
    BY <1>3, <2>1, <2>3, EditTyped
  <2>5. Touches(salary, m, k)
    BY <1>3, <2>1, <2>3 DEF Touches
  <2>. QED  BY <2>4, <2>5 DEF m, k
<1>4. CASE k \in DOMAIN salary /\ ~j.profile
  <2> DEFINE row == [salary[k] EXCEPT !.status = "void"]
  <2>1. m = [salary EXCEPT ![k] = row]
    BY <1>2, <1>4 DEF ProfileSalary, k
  <2>2. salary[k] \in Salary /\ salary[k].sessions = {}
    BY <1>1, <1>4 DEF Salaries
  <2>3. /\ row \in Salary /\ row.sessions = {} /\ row.status = "void"
        /\ row.txn = salary[k].txn
    BY <2>2 DEF Salary
  <2> HIDE DEF row, m
  <2>4. Salaries(m)
    BY <1>4, <2>1, <2>3, EditTyped
  <2>5. Touches(salary, m, k)
    BY <1>4, <2>1, <2>3 DEF Touches
  <2>. QED  BY <2>4, <2>5 DEF m, k
<1>5. CASE k \notin DOMAIN salary /\ j.profile
  <2> DEFINE d == IF status = "draft" THEN 0 ELSE Deduction(salary)
             row == New(salary, status, {}, d)
  <2>1. m = Insert(salary, k, row)
    BY <1>2, <1>5 DEF ProfileSalary, k
  <2>2. d \in 0 .. Advance
    BY DeductionIn, PayrollAssumption
  <2> HIDE DEF d
  <2>3. row \in Salary /\ row.sessions = {} /\ row.status = status /\ row.txn = "none"
    BY <2>2, NewTyped
  <2> HIDE DEF row, m
  <2>4. Salaries(m)
    BY <1>1, <2>1, <2>3, InsertTyped
  <2>5. Touches(salary, m, k)
    BY <1>5, <2>1, <2>3 DEF Touches, Insert
  <2>. QED  BY <2>4, <2>5 DEF m, k
<1>6. CASE k \notin DOMAIN salary /\ ~j.profile
  <2>1. m = salary
    BY <1>2, <1>6 DEF ProfileSalary, k
  <2> HIDE DEF m
  <2>2. Salaries(m) /\ Touches(salary, m, k)
    BY <1>6, <2>1 DEF Touches
  <2>. QED  BY <2>2 DEF m, k
<1>. QED  BY <1>3, <1>4, <1>5, <1>6

LEMMA SessionSalaryTouches ==
    ASSUME NEW m, Salaries(m), cash \in Nat, NEW j, j.run \in Period, j.sessions \in SUBSET Session,
           (Row(j.run, "one_to_one") \in j.rows) <=> (Row(j.run, "one_to_one") \in DOMAIN m)
    PROVE  LET k == Row(j.run, "one_to_one")
               new == SessionSalary(m, j)
           IN  /\ Salaries(new) /\ Touches(m, new, k)
               /\ k \in DOMAIN new /\ new[k].status # "void" =>
                     new[k].sessions = j.sessions \/ (k \in DOMAIN m /\ new[k] = m[k])
<1> DEFINE k == Row(j.run, "one_to_one")
           new == SessionSalary(m, j)
           Claims(n) == k \in DOMAIN n /\ n[k].status # "void" =>
                           n[k].sessions = j.sessions \/ (k \in DOMAIN m /\ n[k] = m[k])
<1>1. k \in SalaryKey /\ k.source # "profile" /\ k.run = j.run
  BY RowIsKey DEF Source
<1>2. k \in j.rows <=> k \in DOMAIN m
  OBVIOUS
<1> HIDE DEF k
<1>3. CASE j.terminal \/ (j.sessions = {} /\ k \notin DOMAIN m)
  <2>1. new = m
    BY <1>2, <1>3 DEF SessionSalary, k
  <2> HIDE DEF new
  <2>2. Salaries(new) /\ Touches(m, new, k) /\ Claims(new)
    BY <2>1 DEF Touches
  <2>. QED  BY <2>2 DEF new, k
<1>4. CASE ~j.terminal /\ j.sessions # {} /\ k \in DOMAIN m
  <2> DEFINE row == [m[k] EXCEPT !.status = "calculated", !.sessions = j.sessions]
  <2>1. new = [m EXCEPT ![k] = row]
    BY <1>2, <1>4 DEF SessionSalary, k
  <2>2. m[k] \in Salary
    BY <1>4 DEF Salaries
  <2>3. /\ row \in Salary /\ row.sessions = j.sessions /\ row.status = "calculated"
        /\ row.txn = m[k].txn
    BY <2>2 DEF Salary
  <2> HIDE DEF row, new
  <2>4. Salaries(new)
    BY <1>1, <1>4, <2>1, <2>3, EditTyped
  <2>5. Touches(m, new, k) /\ Claims(new)
    BY <1>4, <2>1, <2>3 DEF Touches
  <2>. QED  BY <2>4, <2>5 DEF new, k
<1>5. CASE ~j.terminal /\ j.sessions # {} /\ k \notin DOMAIN m
  <2> DEFINE row == New(m, "calculated", j.sessions, Deduction(m))
  <2>1. new = Insert(m, k, row)
    BY <1>2, <1>5 DEF SessionSalary, k
  <2>2. Deduction(m) \in 0 .. Advance
    BY DeductionIn
  <2>3. /\ row \in Salary /\ row.sessions = j.sessions /\ row.status = "calculated"
        /\ row.txn = "none"
    BY <2>2, NewTyped
  <2> HIDE DEF row, new
  <2>4. Salaries(new)
    BY <1>1, <2>1, <2>3, InsertTyped
  <2>5. Touches(m, new, k) /\ Claims(new)
    BY <1>5, <2>1, <2>3 DEF Touches, Insert
  <2>. QED  BY <2>4, <2>5 DEF new, k
<1>6. CASE ~j.terminal /\ j.sessions = {} /\ k \in DOMAIN m
  <2> DEFINE row == [m[k] EXCEPT !.status = "void"]
  <2>1. new = [m EXCEPT ![k] = row]
    BY <1>2, <1>6 DEF SessionSalary, k
  <2>2. m[k] \in Salary
    BY <1>6 DEF Salaries
  <2>3. row \in Salary /\ row.status = "void" /\ row.txn = m[k].txn
    BY <2>2 DEF Salary
  <2> HIDE DEF row, new
  <2>4. Salaries(new)
    BY <1>1, <1>6, <2>1, <2>3, EditTyped
  <2>5. Touches(m, new, k) /\ Claims(new)
    BY <1>6, <2>1, <2>3 DEF Touches
  <2>. QED  BY <2>4, <2>5 DEF new, k
<1>. QED  BY <1>3, <1>4, <1>5, <1>6
----------------------------------------------------------------------------
(* Requests *)

LEMMA PayrollInitHolds == InitRequests /\ PayrollInit => PayrollInv
<1> SUFFICES ASSUME InitRequests, PayrollInit PROVE PayrollInv
  OBVIOUS
<1>1. DOMAIN salary = {} /\ salary = [k \in {} |-> 0]
  BY DEF PayrollInit
<1>2. Salaries(salary)
  BY <1>1, FS_EmptySet DEF Salaries
<1>3. PayrollRows
  BY <1>2, PayrollAssumption DEF PayrollInit, PayrollRows
<1>4. PayrollJobs
  <2>1. \A r \in Request : tx[r].op = "idle"
    BY DEF InitRequests, Idle
  <2>2. \A r \in Request : PayrollJob(r)
    BY <2>1 DEF PayrollJob, StillSo
  <2>. QED  BY <2>2 DEF PayrollJobs, InitRequests
<1>5. PayrollIsSettled
  BY <1>1 DEF PayrollIsSettled, SessionPaidOnce, PaidAsPosted, ClosedIsSettled
<1>. QED  BY <1>3, <1>4, <1>5 DEF PayrollInv

\* One request goes on; the tables stay.
LEMMA OnePayrollJob ==
    ASSUME PayrollInv, UNCHANGED <<driver, payroll>>, NEW r \in Request, NEW j,
           tx' = [tx EXCEPT ![r] = j], PayrollJob(r)'
    PROVE  PayrollInv'
<1>1. DOMAIN tx = Request /\ \A k \in Request \ {r} : tx'[k] = tx[k]
  BY DEF PayrollInv, PayrollJobs
<1>2. UNCHANGED <<run, salary, done, profiled, cash, settled, driver>>
  BY DEF payroll
<1>3. ASSUME NEW k \in Request PROVE PayrollJob(k)'
  <2>1. CASE k = r
    BY <2>1
  <2>2. CASE k # r
    <3>1. tx'[k] = tx[k] /\ PayrollJob(k)
      BY <1>1, <2>2 DEF PayrollInv, PayrollJobs
    <3>2. (StillSo(k) => StillSo(k)') /\ (GeneratesWell(k) => GeneratesWell(k)')
      BY <1>2, <3>1 DEF StillSo, GeneratesWell, MayClose, Rows
    <3>. QED  BY <1>2, <3>1, <3>2 DEF PayrollJob
  <2>. QED  BY <2>1, <2>2
<1>4. PayrollJobs'
  BY <1>2, <1>3 DEF PayrollJobs, PayrollInv
<1>5. PayrollRows' /\ PayrollIsSettled'
  BY <1>2 DEF PayrollInv, PayrollRows, PayrollIsSettled, SessionPaidOnce, PaidAsPosted,
              ClosedIsSettled
<1>. QED  BY <1>4, <1>5 DEF PayrollInv

\* On SQLite a commit leaves only those open that have not begun.
LEMMA CommitPayrollKeeps ==
    ASSUME PayrollInv, NEW R \in SUBSET Request, CommitPayroll(R), DOMAIN salary \subseteq DOMAIN salary'
    PROVE  PayrollJobs' /\ UNCHANGED driver
<1>1. /\ UNCHANGED driver /\ DOMAIN tx' = Request
      /\ \A k \in Request : tx'[k] = Idle \/ tx'[k] = tx[k]
      /\ driver = "sqlite" => \A k \in Request : tx'[k].op \in {"idle", "asked"}
  BY DEF CommitPayroll, End, Overtaken, Idle
<1>2. ASSUME NEW k \in Request PROVE PayrollJob(k)'
  <2>1. CASE tx'[k] = Idle
    <3>1. tx'[k].op = "idle"
      BY <2>1 DEF Idle
    <3>. QED  BY <3>1 DEF PayrollJob, StillSo
  <2>2. CASE tx'[k] = tx[k]
    <3>1. PayrollJob(k)
      BY DEF PayrollInv, PayrollJobs
    <3>2. driver' = "sqlite" => StillSo(k)' /\ tx'[k].op # "sync"
      BY <1>1 DEF StillSo
    <3>. QED  BY <2>2, <3>1, <3>2 DEF PayrollJob
  <2>. QED  BY <1>1, <2>1, <2>2
<1>. QED  BY <1>1, <1>2 DEF PayrollJobs, PayrollInv

\* A request that reads one salary or one run.
LEMMA LookAtKeeps ==
    ASSUME PayrollInv, NEW r \in Request, NEW op, NEW k, LookAt(r, op, k),
           op \in {"quantity", "adjust", "approve", "roll back", "pay", "void"} => k \in DOMAIN salary,
           op \in {"approve run", "close"} => k \in Period,
           op \notin {"asked", "sync"},
           op = "quantity" => salary[k].status = "draft",
           op = "approve" => run[k.run] = "calculated" /\ salary[k].status = "calculated",
           op = "roll back" => /\ run[k.run] = "calculated" /\ salary[k].status = "approved"
                               /\ salary[k].txn = "none",
           op = "pay" => salary[k].status = "approved" /\ salary[k].txn = "none",
           op = "void" => salary[k].status = "paid",
           op = "close" => MayClose(k)
    PROVE  PayrollInv'
<1> DEFINE j == [op |-> op, row |-> k]
<1>1. tx' = [tx EXCEPT ![r] = j] /\ UNCHANGED <<driver, payroll>> /\ tx'[r] = j
  BY DEF LookAt, Look, PayrollInv, PayrollJobs
<1>2. j.op = op /\ j.row = k
  OBVIOUS
<1> HIDE DEF j
<1>3. UNCHANGED <<run, salary>> /\ tx'[r].op = op /\ tx'[r].row = k
  BY <1>1, <1>2 DEF payroll
<1>4. StillSo(r)'
  BY <1>3 DEF StillSo, MayClose, Rows
<1>5. PayrollJob(r)'
  BY <1>3, <1>4 DEF PayrollJob
<1>. QED  BY <1>1, <1>5, OnePayrollJob

LEMMA LooksKeep ==
    ASSUME PayrollInv, NEW r \in Request, NEW k \in DOMAIN salary,
           \/ LookToEnterQuantity(r, k) \/ LookToAdjust(r, k) \/ LookToApprove(r, k)
           \/ LookToRollBack(r, k) \/ LookToPay(r, k) \/ LookToVoid(r, k)
    PROVE  PayrollInv'
<1>1. CASE LookToEnterQuantity(r, k)
  BY <1>1, LookAtKeeps DEF LookToEnterQuantity
<1>2. CASE LookToAdjust(r, k)
  BY <1>2, LookAtKeeps DEF LookToAdjust
<1>3. CASE LookToApprove(r, k)
  BY <1>3, LookAtKeeps DEF LookToApprove
<1>4. CASE LookToRollBack(r, k)
  BY <1>4, LookAtKeeps DEF LookToRollBack
<1>5. CASE LookToPay(r, k)
  BY <1>5, LookAtKeeps DEF LookToPay, MayPay
<1>6. CASE LookToVoid(r, k)
  BY <1>6, LookAtKeeps DEF LookToVoid
<1>. QED  BY <1>1, <1>2, <1>3, <1>4, <1>5, <1>6

LEMMA LooksAtRunKeep ==
    ASSUME PayrollInv, NEW r \in Request, NEW p \in Period,
           LookToApproveRun(r, p) \/ LookToClose(r, p)
    PROVE  PayrollInv'
<1>1. CASE LookToApproveRun(r, p)
  BY <1>1, LookAtKeeps DEF LookToApproveRun
<1>2. CASE LookToClose(r, p)
  BY <1>2, LookAtKeeps DEF LookToClose
<1>. QED  BY <1>1, <1>2

LEMMA AskKeeps ==
    ASSUME PayrollInv, NEW r \in Request, NEW p \in Period, NEW all \in BOOLEAN,
           AskToGenerate(r, p, all) \/ AskToRecalculate(r, p, all)
    PROVE  PayrollInv'
<1>0. Earnings(p) \subseteq Session
  BY DEF Earnings, PayrollInv, PayrollRows
<1>1. PICK again, sessions, profile : Ask(r, p, all, again, sessions, profile) /\ sessions \subseteq Session
  <2>1. CASE AskToGenerate(r, p, all)
    BY <1>0, <2>1 DEF AskToGenerate
  <2>2. CASE AskToRecalculate(r, p, all)
    <3>1. (IF Rows(p) # {} THEN Earnings(p) ELSE {}) \subseteq Session
      BY <1>0
    <3>. QED  BY <2>2, <3>1 DEF AskToRecalculate
  <2>. QED  BY <2>1, <2>2
<1> DEFINE j == [op |-> "asked", run |-> p, all |-> all, again |-> again,
                 sessions |-> sessions, profile |-> profile]
<1>2. tx' = [tx EXCEPT ![r] = j] /\ UNCHANGED <<driver, payroll>> /\ tx'[r] = j
  BY <1>1 DEF Ask, Look, PayrollInv, PayrollJobs
<1>3. j.op = "asked" /\ j.run = p /\ j.sessions = sessions
  OBVIOUS
<1> HIDE DEF j
<1>4. PayrollJob(r)'
  BY <1>1, <1>2, <1>3 DEF PayrollJob, StillSo
<1>. QED  BY <1>2, <1>4, OnePayrollJob

LEMMA BeginKeeps ==
    ASSUME PayrollInv, NEW r \in Request, Begin(r)
    PROVE  PayrollInv'
<1> DEFINE i == tx[r]
           sessions == IF Terminal(i.run) THEN {} ELSE i.sessions
           j == [op |-> "sync", run |-> i.run, all |-> i.all, again |-> i.again,
                 profile |-> i.profile, rows |-> Rows(i.run), sessions |-> sessions,
                 terminal |-> Terminal(i.run)]
<1>1. /\ tx' = [tx EXCEPT ![r] = j] /\ UNCHANGED <<driver, payroll>> /\ tx'[r] = j
      /\ i.op = "asked" /\ \A k \in Rows(i.run) : salary[k].status \notin {"approved", "paid"}
      /\ Terminal(i.run) \/ Unclaimed(r, i)
  BY DEF Begin, PayrollInv, PayrollJobs
<1>2. i.run \in Period /\ i.sessions \subseteq Session
  BY <1>1 DEF PayrollInv, PayrollJobs, PayrollJob
<1>3. j.op = "sync" /\ j.run = i.run /\ j.sessions = sessions
  OBVIOUS
<1>4. \A k \in DOMAIN salary \ {Row(i.run, "one_to_one")} :
         salary[k].status # "void" => salary[k].sessions \cap sessions = {}
  BY <1>1 DEF Unclaimed
<1>5. sessions \subseteq Session
  BY <1>2
<1> HIDE DEF j, sessions
<1>6. UNCHANGED salary /\ tx'[r].op = "sync" /\ tx'[r].run = i.run /\ tx'[r].sessions = sessions
  BY <1>1, <1>3 DEF payroll
<1>7. GeneratesWell(r)'
  BY <1>1, <1>4, <1>6 DEF GeneratesWell, Rows
<1>8. PayrollJob(r)'
  BY <1>2, <1>5, <1>6, <1>7 DEF PayrollJob, StillSo
<1>. QED  BY <1>1, <1>8, OnePayrollJob
----------------------------------------------------------------------------
(* Commits *)

LEMMA OtherTablesKeep ==
    ASSUME PayrollInv, NEW R \in SUBSET Request, CommitPayroll(R), UNCHANGED <<run, salary>>,
           done' \subseteq Session, profiled' \in BOOLEAN, cash' \in 0 .. Advance, settled' \in BOOLEAN
    PROVE  PayrollInv'
<1>1. PayrollJobs' /\ UNCHANGED driver
  BY CommitPayrollKeeps
<1>2. PayrollRows' /\ PayrollIsSettled'
  BY <1>1 DEF PayrollInv, PayrollRows, PayrollIsSettled, SessionPaidOnce, PaidAsPosted,
              ClosedIsSettled
<1>. QED  BY <1>1, <1>2 DEF PayrollInv

LEMMA SourcesKeep ==
    ASSUME PayrollInv, ChangeProfile \/ \E s \in Session : Complete(s)
    PROVE  PayrollInv'
<1>1. CommitPayroll({}) /\ UNCHANGED <<run, salary, cash, settled>>
  BY DEF ChangeProfile, Complete
<1>2. done' \subseteq Session /\ profiled' \in BOOLEAN
  BY DEF ChangeProfile, Complete, PayrollInv, PayrollRows
<1>3. cash' \in 0 .. Advance /\ settled' \in BOOLEAN
  BY <1>1 DEF PayrollInv, PayrollRows
<1>. QED  BY <1>1, <1>2, <1>3, OtherTablesKeep

LEMMA CollectRepaymentKeeps ==
    ASSUME PayrollInv, NEW amount \in 1 .. Advance, CollectRepayment(amount)
    PROVE  PayrollInv'
<1>1. /\ CommitPayroll({}) /\ UNCHANGED <<run, salary, done, profiled>> /\ cash' = cash + amount
      /\ amount <= Advance - Repaid(salary) /\ settled' = (Repaid(salary) + amount = Advance)
  BY DEF CollectRepayment
<1>2. cash \in Nat /\ Advance \in Nat
  BY PayrollAssumption DEF PayrollInv, PayrollRows
<1>3. Repaid(salary) \in Nat /\ Repaid(salary) >= cash
  BY <1>2, RepaidNat DEF PayrollInv, PayrollRows
<1>4. cash' \in 0 .. Advance /\ settled' \in BOOLEAN
  BY <1>1, <1>2, <1>3
<1>5. done' \subseteq Session /\ profiled' \in BOOLEAN
  BY <1>1 DEF PayrollInv, PayrollRows
<1>. QED  BY <1>1, <1>4, <1>5, OtherTablesKeep

LEMMA CreateRunKeeps ==
    ASSUME PayrollInv, NEW p \in Period, CreateRun(p)
    PROVE  PayrollInv'
<1>1. /\ CommitPayroll({}) /\ UNCHANGED <<salary, done, profiled, cash, settled>>
      /\ run' = [run EXCEPT ![p] = "draft"]
  BY DEF CreateRun
<1>2. PayrollJobs' /\ UNCHANGED driver
  BY <1>1, CommitPayrollKeeps
<1>3. PayrollRows'
  BY <1>1 DEF PayrollInv, PayrollRows
<1>4. \A q \in Period : run'[q] = "closed" => run[q] = "closed"
  BY <1>1 DEF PayrollInv, PayrollRows
<1>5. \A k \in DOMAIN salary : k.run \in Period
  BY DEF PayrollInv, PayrollRows, Salaries, SalaryKey
<1>6. PayrollIsSettled'
  BY <1>1, <1>2, <1>4, <1>5
     DEF PayrollInv, PayrollIsSettled, SessionPaidOnce, PaidAsPosted, ClosedIsSettled
<1>. QED  BY <1>2, <1>3, <1>6 DEF PayrollInv

\* One salary is written by its id.
LEMMA OneSalaryKeeps ==
    ASSUME PayrollInv, NEW r \in Request, NEW k \in DOMAIN salary, NEW row \in Salary,
           row.sessions = salary[k].sessions, salary' = [salary EXCEPT ![k] = row],
           CommitPayroll({r}), UNCHANGED <<run, done, profiled, cash>>, settled' \in BOOLEAN,
           driver = "sqlite" =>
              /\ row.status # "void" => salary[k].status # "void"
              /\ row.status = "paid" <=> row.txn = "posted"
              /\ run[k.run] = "closed" => row.status \in {"paid", "void"}
    PROVE  PayrollInv'
<1>1. /\ DOMAIN salary' = DOMAIN salary /\ salary'[k] = row
      /\ \A l \in DOMAIN salary : l # k => salary'[l] = salary[l]
  OBVIOUS
<1>2. PayrollJobs' /\ UNCHANGED driver
  BY <1>1, CommitPayrollKeeps
<1>3. Salaries(salary')
  <2>1. Salaries(salary)
    BY DEF PayrollInv, PayrollRows
  <2>2. k.source = "profile" => row.sessions = {}
    BY <2>1 DEF Salaries
  <2>. QED  BY <2>1, <2>2, EditTyped
<1>4. PayrollRows'
  BY <1>3 DEF PayrollInv, PayrollRows
<1>5. SessionPaidOnce'
  <2>. SUFFICES ASSUME driver = "sqlite", NEW i \in DOMAIN salary, NEW l \in DOMAIN salary, i # l,
                       salary'[i].status # "void", salary'[l].status # "void"
                PROVE  salary'[i].sessions \cap salary'[l].sessions = {}
    BY <1>1, <1>2 DEF SessionPaidOnce
  <2>1. salary[i].status # "void" /\ salary[l].status # "void"
    BY <1>1
  <2>2. salary'[i].sessions = salary[i].sessions /\ salary'[l].sessions = salary[l].sessions
    BY <1>1
  <2>. QED  BY <2>1, <2>2 DEF PayrollInv, PayrollIsSettled, SessionPaidOnce
<1>6. PaidAsPosted' /\ ClosedIsSettled'
  BY <1>1, <1>2 DEF PayrollInv, PayrollIsSettled, PaidAsPosted, ClosedIsSettled
<1>. QED  BY <1>2, <1>4, <1>5, <1>6 DEF PayrollInv, PayrollIsSettled

LEMMA RowOpKeeps ==
    ASSUME PayrollInv, NEW r \in Request,
           \/ EnterQuantity(r) \/ AddAdjustment(r) \/ DeleteDeduction(r) \/ ApproveSalary(r)
           \/ RollBack(r) \/ Pay(r) \/ Void(r)
    PROVE  PayrollInv'
<1> DEFINE k == tx[r].row
           old == salary[k]
<1>0. tx[r].op \in {"quantity", "adjust", "approve", "roll back", "pay", "void"}
  BY DEF EnterQuantity, AddAdjustment, DeleteDeduction, ApproveSalary, RollBack, Pay, Void, Writes
<1>1. k \in DOMAIN salary /\ (driver = "sqlite" => StillSo(r))
  BY <1>0 DEF PayrollInv, PayrollJobs, PayrollJob
<1>2. old \in Salary /\ settled \in BOOLEAN
  BY <1>1 DEF PayrollInv, PayrollRows, Salaries
<1>3. driver = "sqlite" =>
         /\ old.status = "paid" <=> old.txn = "posted"
         /\ run[k.run] = "closed" => old.status \in {"paid", "void"}
  BY <1>1 DEF PayrollInv, PayrollIsSettled, PaidAsPosted, ClosedIsSettled
<1>4. CASE EnterQuantity(r)
  <2> DEFINE row == [old EXCEPT !.status = "calculated"]
  <2>1. /\ tx[r].op = "quantity" /\ salary' = [salary EXCEPT ![k] = row] /\ CommitPayroll({r})
        /\ UNCHANGED <<run, done, profiled, cash, settled>>
    BY <1>4 DEF EnterQuantity, Writes
  <2>2. /\ row \in Salary /\ row.sessions = old.sessions /\ row.status = "calculated"
        /\ row.txn = old.txn
    BY <1>2 DEF Salary
  <2>3. driver = "sqlite" => old.status = "draft"
    BY <1>1, <2>1 DEF StillSo
  <2> HIDE DEF row
  <2>. QED  BY <1>1, <1>2, <1>3, <2>1, <2>2, <2>3, OneSalaryKeeps
<1>5. CASE AddAdjustment(r)
  <2> DEFINE row == [old EXCEPT !.repaid = IF old.deduct > 0 THEN old.deduct ELSE @]
  <2>1. /\ salary' = [salary EXCEPT ![k] = row] /\ CommitPayroll({r})
        /\ UNCHANGED <<run, done, profiled, cash>>
    BY <1>5 DEF AddAdjustment, Writes
  <2>2. settled' \in BOOLEAN
    BY <1>2, <1>5 DEF AddAdjustment
  <2>3. /\ row \in Salary /\ row.sessions = old.sessions /\ row.status = old.status
        /\ row.txn = old.txn
    BY <1>2 DEF Salary
  <2> HIDE DEF row
  <2>. QED  BY <1>1, <1>3, <2>1, <2>2, <2>3, OneSalaryKeeps
<1>6. CASE DeleteDeduction(r)
  <2> DEFINE row == [old EXCEPT !.deduct = 0]
  <2>1. /\ salary' = [salary EXCEPT ![k] = row] /\ CommitPayroll({r})
        /\ UNCHANGED <<run, done, profiled, cash, settled>>
    BY <1>6 DEF DeleteDeduction, Writes
  <2>2. 0 \in 0 .. Advance
    BY PayrollAssumption
  <2>3. /\ row \in Salary /\ row.sessions = old.sessions /\ row.status = old.status
        /\ row.txn = old.txn
    BY <1>2, <2>2 DEF Salary
  <2> HIDE DEF row
  <2>. QED  BY <1>1, <1>2, <1>3, <2>1, <2>3, OneSalaryKeeps
<1>7. CASE ApproveSalary(r)
  <2> DEFINE row == [old EXCEPT !.status = "approved"]
  <2>1. /\ tx[r].op = "approve" /\ salary' = [salary EXCEPT ![k] = row] /\ CommitPayroll({r})
        /\ UNCHANGED <<run, done, profiled, cash, settled>>
    BY <1>7 DEF ApproveSalary, Writes
  <2>2. /\ row \in Salary /\ row.sessions = old.sessions /\ row.status = "approved"
        /\ row.txn = old.txn
    BY <1>2 DEF Salary
  <2>3. driver = "sqlite" => old.status = "calculated"
    BY <1>1, <2>1 DEF StillSo
  <2> HIDE DEF row
  <2>. QED  BY <1>1, <1>2, <1>3, <2>1, <2>2, <2>3, OneSalaryKeeps
<1>8. CASE RollBack(r)
  <2> DEFINE row == [old EXCEPT !.status = "calculated"]
  <2>1. /\ tx[r].op = "roll back" /\ salary' = [salary EXCEPT ![k] = row] /\ CommitPayroll({r})
        /\ UNCHANGED <<run, done, profiled, cash, settled>>
    BY <1>8 DEF RollBack, Writes
  <2>2. /\ row \in Salary /\ row.sessions = old.sessions /\ row.status = "calculated"
        /\ row.txn = old.txn
    BY <1>2 DEF Salary
  <2>3. driver = "sqlite" => old.status = "approved"
    BY <1>1, <2>1 DEF StillSo
  <2> HIDE DEF row
  <2>. QED  BY <1>1, <1>2, <1>3, <2>1, <2>2, <2>3, OneSalaryKeeps
<1>9. CASE Pay(r)
  <2> DEFINE row == [old EXCEPT !.status = "paid", !.txn = "posted"]
  <2>1. /\ tx[r].op = "pay" /\ salary' = [salary EXCEPT ![k] = row] /\ CommitPayroll({r})
        /\ UNCHANGED <<run, done, profiled, cash, settled>>
    BY <1>9 DEF Pay, Writes
  <2>2. /\ row \in Salary /\ row.sessions = old.sessions /\ row.status = "paid"
        /\ row.txn = "posted"
    BY <1>2 DEF Salary
  <2>3. driver = "sqlite" => old.status = "approved"
    BY <1>1, <2>1 DEF StillSo
  <2> HIDE DEF row
  <2>. QED  BY <1>1, <1>2, <1>3, <2>1, <2>2, <2>3, OneSalaryKeeps
<1>10. CASE Void(r)
  <2> DEFINE row == [old EXCEPT !.status = "void", !.txn = "void", !.repaid = 0]
  <2>1. /\ salary' = [salary EXCEPT ![k] = row] /\ CommitPayroll({r})
        /\ UNCHANGED <<run, done, profiled, cash>>
    BY <1>10 DEF Void, Writes, Voided
  <2>2. settled' \in BOOLEAN /\ 0 \in 0 .. Advance
    BY <1>2, <1>10, PayrollAssumption DEF Void
  <2>3. /\ row \in Salary /\ row.sessions = old.sessions /\ row.status = "void"
        /\ row.txn = "void"
    BY <1>2, <2>2 DEF Salary
  <2> HIDE DEF row
  <2>. QED  BY <1>1, <1>3, <2>1, <2>2, <2>3, OneSalaryKeeps
<1>. QED  BY <1>4, <1>5, <1>6, <1>7, <1>8, <1>9, <1>10

LEMMA ApproveRunKeeps ==
    ASSUME PayrollInv, NEW r \in Request, ApproveRun(r)
    PROVE  PayrollInv'
<1> DEFINE p == tx[r].row
<1>1. /\ tx[r].op = "approve run" /\ run' = [run EXCEPT ![p] = "approved"]
      /\ CommitPayroll({r}) /\ UNCHANGED <<done, profiled, cash, settled>>
      /\ DOMAIN salary' = DOMAIN salary
      /\ salary' = [k \in DOMAIN salary |-> salary'[k]]
      /\ \A k \in DOMAIN salary :
            \/ salary'[k] = salary[k]
            \/ /\ salary'[k] = [salary[k] EXCEPT !.status = "approved"]
               /\ salary[k].status = "calculated" /\ k.run = p
  BY DEF ApproveRun
<1>2. p \in Period
  BY <1>1 DEF PayrollInv, PayrollJobs, PayrollJob
<1>3. PayrollJobs' /\ UNCHANGED driver
  BY <1>1, CommitPayrollKeeps
<1>4. /\ run' \in [Period -> {"none", "draft", "calculated", "approved", "closed"}]
      /\ run'[p] = "approved"
      /\ \A q \in Period : q # p => run'[q] = run[q]
  BY <1>1, <1>2 DEF PayrollInv, PayrollRows
<1>5. Salaries(salary)
  BY DEF PayrollInv, PayrollRows
<1>6. ASSUME NEW k \in DOMAIN salary
      PROVE  /\ salary'[k] \in Salary /\ salary'[k].sessions = salary[k].sessions
             /\ salary'[k].txn = salary[k].txn
             /\ \/ salary'[k].status = salary[k].status
                \/ /\ salary'[k].status = "approved" /\ salary[k].status = "calculated"
                   /\ k.run = p
  <2>1. salary[k] \in Salary
    BY <1>5 DEF Salaries
  <2>. QED  BY <1>1, <2>1 DEF Salary
<1> HIDE DEF p
<1>7. Salaries(salary')
  BY <1>1, <1>5, <1>6 DEF Salaries
<1>8. PayrollRows'
  BY <1>1, <1>4, <1>7 DEF PayrollInv, PayrollRows
<1>9. SessionPaidOnce'
  <2>. SUFFICES ASSUME driver = "sqlite", NEW i \in DOMAIN salary, NEW l \in DOMAIN salary, i # l,
                       salary'[i].status # "void", salary'[l].status # "void"
                PROVE  salary'[i].sessions \cap salary'[l].sessions = {}
    BY <1>1, <1>3 DEF SessionPaidOnce
  <2>1. salary[i].status # "void" /\ salary[l].status # "void"
    BY <1>6
  <2>2. salary'[i].sessions = salary[i].sessions /\ salary'[l].sessions = salary[l].sessions
    BY <1>6
  <2>. QED  BY <2>1, <2>2 DEF PayrollInv, PayrollIsSettled, SessionPaidOnce
<1>10. PaidAsPosted'
  <2>. SUFFICES ASSUME driver = "sqlite", NEW k \in DOMAIN salary
                PROVE  salary'[k].status = "paid" <=> salary'[k].txn = "posted"
    BY <1>1, <1>3 DEF PaidAsPosted
  <2>1. salary[k].status = "paid" <=> salary[k].txn = "posted"
    BY DEF PayrollInv, PayrollIsSettled, PaidAsPosted
  <2>. QED  BY <1>6, <2>1
<1>11. ClosedIsSettled'
  <2>. SUFFICES ASSUME driver = "sqlite", NEW k \in DOMAIN salary, run'[k.run] = "closed"
                PROVE  salary'[k].status \in {"paid", "void"}
    BY <1>1, <1>3 DEF ClosedIsSettled
  <2>1. k.run \in Period
    BY <1>5 DEF Salaries, SalaryKey
  <2>2. k.run # p /\ run[k.run] = "closed"
    BY <1>4, <2>1
  <2>3. salary[k].status \in {"paid", "void"}
    BY <2>2 DEF PayrollInv, PayrollIsSettled, ClosedIsSettled
  <2>. QED  BY <1>6, <2>2, <2>3
<1>. QED  BY <1>3, <1>8, <1>9, <1>10, <1>11 DEF PayrollInv, PayrollIsSettled

LEMMA CloseKeeps ==
    ASSUME PayrollInv, NEW r \in Request, Close(r)
    PROVE  PayrollInv'
<1> DEFINE p == tx[r].row
<1>1. /\ tx[r].op = "close" /\ run' = [run EXCEPT ![p] = "closed"]
      /\ CommitPayroll({r}) /\ UNCHANGED <<salary, done, profiled, cash, settled>>
  BY DEF Close
<1>2. p \in Period /\ (driver = "sqlite" => MayClose(p))
  BY <1>1 DEF PayrollInv, PayrollJobs, PayrollJob, StillSo
<1>3. PayrollJobs' /\ UNCHANGED driver
  BY <1>1, CommitPayrollKeeps
<1> HIDE DEF p
<1>4. PayrollRows'
  BY <1>1, <1>2 DEF PayrollInv, PayrollRows
<1>5. \A k \in DOMAIN salary : k.run \in Period
  BY DEF PayrollInv, PayrollRows, Salaries, SalaryKey
<1>6. \A q \in Period : q # p => run'[q] = run[q]
  BY <1>1, <1>2 DEF PayrollInv, PayrollRows
<1>7. ClosedIsSettled'
  BY <1>1, <1>2, <1>3, <1>5, <1>6
     DEF ClosedIsSettled, MayClose, Rows, PayrollInv, PayrollIsSettled
<1>8. SessionPaidOnce' /\ PaidAsPosted'
  BY <1>1, <1>3 DEF PayrollInv, PayrollIsSettled, SessionPaidOnce, PaidAsPosted
<1>. QED  BY <1>3, <1>4, <1>7, <1>8 DEF PayrollInv, PayrollIsSettled

\* Both salaries of a run are written: on SQLite what they claim is claimed by no
\* other, and what was paid is not touched.
LEMMA SyncKeeps ==
    ASSUME PayrollInv, NEW r \in Request, Sync(r)
    PROVE  PayrollInv'
<1> DEFINE j == tx[r]
           p == j.run
           a == Row(p, "profile")
           o == Row(p, "one_to_one")
<1>0. Salaries(salary) /\ cash \in Nat
  BY PayrollAssumption DEF PayrollInv, PayrollRows
<1>1. PICK status \in {"draft", "calculated"} : salary' = SessionSalary(ProfileSalary(j, status), j)
  BY DEF Sync
<1>2. /\ j.op = "sync" /\ Rows(p) = j.rows /\ run' = [run EXCEPT ![p] = "calculated"]
      /\ CommitPayroll({r}) /\ UNCHANGED <<done, profiled, cash, settled>>
  BY DEF Sync
<1>3. p \in Period /\ j.sessions \subseteq Session /\ (driver = "sqlite" => GeneratesWell(r))
  BY <1>2 DEF PayrollInv, PayrollJobs, PayrollJob
<1>4. /\ a \in SalaryKey /\ a.source = "profile" /\ a.run = p
      /\ o \in SalaryKey /\ o.source = "one_to_one" /\ o.run = p
  BY <1>3, RowIsKey DEF Source
<1> DEFINE m == ProfileSalary(j, status)
<1>5. Salaries(m) /\ Touches(salary, m, a)
  BY <1>0, <1>2, <1>3, ProfileSalaryTouches
<1> HIDE DEF m, a, o
<1>6. (o \in j.rows <=> o \in DOMAIN salary) /\ (o \in DOMAIN m <=> o \in DOMAIN salary)
  BY <1>2, <1>4, <1>5 DEF Rows, Touches
<1>7. /\ Salaries(salary') /\ Touches(m, salary', o)
      /\ o \in DOMAIN salary' /\ salary'[o].status # "void" =>
            salary'[o].sessions = j.sessions \/ (o \in DOMAIN m /\ salary'[o] = m[o])
  <2>1. salary' = SessionSalary(m, j)
    BY <1>1 DEF m
  <2>. QED  BY <1>0, <1>3, <1>5, <1>6, <2>1, SessionSalaryTouches DEF o
<1>8. /\ DOMAIN salary \subseteq DOMAIN salary'
      /\ DOMAIN salary' \subseteq DOMAIN salary \cup {a, o}
      /\ \A k \in DOMAIN salary \ {a, o} : salary'[k] = salary[k]
      /\ o # a
  BY <1>4, <1>5, <1>7 DEF Touches
<1>9. a \in DOMAIN salary' =>
         /\ salary'[a].sessions = {}
         /\ salary'[a].txn = IF a \in DOMAIN salary THEN salary[a].txn ELSE "none"
         /\ \/ salary'[a].status \in {"draft", "calculated", "void"}
            \/ a \in DOMAIN salary /\ salary'[a].status = salary[a].status
  BY <1>4, <1>5, <1>7, <1>8 DEF Touches, Salaries
<1>10. o \in DOMAIN salary' =>
         /\ salary'[o].txn = IF o \in DOMAIN salary THEN salary[o].txn ELSE "none"
         /\ \/ salary'[o].status \in {"draft", "calculated", "void"}
            \/ o \in DOMAIN salary /\ salary'[o].status = salary[o].status
         /\ salary'[o].status # "void" =>
               \/ salary'[o].sessions = j.sessions
               \/ o \in DOMAIN salary /\ salary'[o] = salary[o]
  <2>1. o \in DOMAIN salary => m[o] = salary[o]
    BY <1>5, <1>8 DEF Touches
  <2>. QED  BY <1>5, <1>6, <1>7, <2>1 DEF Touches
<1>11. PayrollJobs' /\ UNCHANGED driver
  BY <1>2, <1>8, CommitPayrollKeeps
<1>12. /\ run' \in [Period -> {"none", "draft", "calculated", "approved", "closed"}]
       /\ run'[p] = "calculated" /\ \A q \in Period : q # p => run'[q] = run[q]
  BY <1>2, <1>3 DEF PayrollInv, PayrollRows
<1>13. PayrollRows'
  BY <1>2, <1>7, <1>12 DEF PayrollInv, PayrollRows
<1>14. ASSUME driver = "sqlite"
       PROVE  /\ \A k \in DOMAIN salary \cap {a, o} : salary[k].status \notin {"approved", "paid"}
              /\ \A k \in DOMAIN salary \ {o} :
                    salary[k].status # "void" => salary[k].sessions \cap j.sessions = {}
  BY <1>3, <1>4, <1>14 DEF GeneratesWell, Rows, o
<1>15. SessionPaidOnce'
  <2>. SUFFICES ASSUME driver = "sqlite", NEW k \in DOMAIN salary', NEW l \in DOMAIN salary', k # l,
                       salary'[k].status # "void", salary'[l].status # "void"
                PROVE  salary'[k].sessions \cap salary'[l].sessions = {}
    BY <1>11 DEF SessionPaidOnce
  <2>1. \A x, y \in DOMAIN salary :
           (x # y /\ salary[x].status # "void" /\ salary[y].status # "void")
              => salary[x].sessions \cap salary[y].sessions = {}
    BY DEF PayrollInv, PayrollIsSettled, SessionPaidOnce
  <2>2. CASE k = a \/ l = a
    BY <1>9, <2>2
  <2>3. ASSUME NEW x \in DOMAIN salary' \ {a, o}, salary'[x].status # "void", o \in DOMAIN salary',
               salary'[o].status # "void"
        PROVE  salary'[x].sessions \cap salary'[o].sessions = {}
    <3>1. x \in DOMAIN salary /\ salary'[x] = salary[x]
      BY <1>8
    <3>2. CASE salary'[o].sessions = j.sessions
      BY <1>14, <2>3, <3>1, <3>2
    <3>3. CASE o \in DOMAIN salary /\ salary'[o] = salary[o]
      BY <2>1, <2>3, <3>1, <3>3
    <3>. QED  BY <1>10, <2>3, <3>2, <3>3
  <2>4. CASE k \notin {a, o} /\ l \notin {a, o}
    BY <1>8, <2>1, <2>4
  <2>. QED  BY <2>2, <2>3, <2>4
<1>16. PaidAsPosted'
  <2>. SUFFICES ASSUME driver = "sqlite", NEW k \in DOMAIN salary'
                PROVE  salary'[k].status = "paid" <=> salary'[k].txn = "posted"
    BY <1>11 DEF PaidAsPosted
  <2>1. \A x \in DOMAIN salary : salary[x].status = "paid" <=> salary[x].txn = "posted"
    BY DEF PayrollInv, PayrollIsSettled, PaidAsPosted
  <2>2. CASE k \in {a, o}
    BY <1>9, <1>10, <1>14, <2>1, <2>2
  <2>3. CASE k \notin {a, o}
    BY <1>8, <2>1, <2>3
  <2>. QED  BY <2>2, <2>3
<1>17. ClosedIsSettled'
  <2>. SUFFICES ASSUME driver = "sqlite", NEW k \in DOMAIN salary', run'[k.run] = "closed"
                PROVE  salary'[k].status \in {"paid", "void"}
    BY <1>11 DEF ClosedIsSettled
  <2>1. k.run # p
    BY <1>12
  <2>2. k \in DOMAIN salary /\ salary'[k] = salary[k]
    BY <1>4, <1>8, <2>1
  <2>3. k.run \in Period
    BY <1>0, <2>2 DEF Salaries, SalaryKey
  <2>. QED  BY <1>12, <2>1, <2>2, <2>3 DEF PayrollInv, PayrollIsSettled, ClosedIsSettled
<1>. QED  BY <1>11, <1>13, <1>15, <1>16, <1>17 DEF PayrollInv, PayrollIsSettled

LEMMA QuietPayroll ==
    ASSUME PayrollInv, UNCHANGED <<driver, payroll>>, DOMAIN tx' = Request,
           \A k \in Request : tx'[k] = Idle \/ tx'[k] = tx[k]
    PROVE  PayrollInv'
<1>1. UNCHANGED <<run, salary, done, profiled, cash, settled>>
  BY DEF payroll
<1>2. ASSUME NEW k \in Request PROVE PayrollJob(k)'
  <2>1. CASE tx'[k] = Idle
    <3>1. tx'[k].op = "idle"
      BY <2>1 DEF Idle
    <3>. QED  BY <3>1 DEF PayrollJob, StillSo
  <2>2. CASE tx'[k] = tx[k]
    <3>1. PayrollJob(k)
      BY DEF PayrollInv, PayrollJobs
    <3>2. (StillSo(k) => StillSo(k)') /\ (GeneratesWell(k) => GeneratesWell(k)')
      BY <1>1, <2>2 DEF StillSo, GeneratesWell, MayClose, Rows
    <3>. QED  BY <1>1, <2>2, <3>1, <3>2 DEF PayrollJob
  <2>. QED  BY <2>1, <2>2
<1>3. PayrollJobs'
  BY <1>2 DEF PayrollInv, PayrollJobs
<1>4. PayrollRows' /\ PayrollIsSettled'
  BY <1>1 DEF PayrollInv, PayrollRows, PayrollIsSettled, SessionPaidOnce, PaidAsPosted,
              ClosedIsSettled
<1>. QED  BY <1>3, <1>4 DEF PayrollInv

LEMMA PayrollInvHolds == PayrollSpec => []PayrollInv
<1>1. PayrollInv /\ [PayrollStep]_<<driver, tx, payroll>> => PayrollInv'
  <2>. SUFFICES ASSUME PayrollInv, [PayrollStep]_<<driver, tx, payroll>> PROVE PayrollInv'
    OBVIOUS
  <2>1. CASE UNCHANGED <<driver, tx, payroll>>
    BY <2>1, QuietPayroll DEF PayrollInv, PayrollJobs
  <2>2. CASE \E r \in Request : GiveUp(r) /\ UNCHANGED payroll
    BY <2>2, QuietPayroll DEF GiveUp, End
  <2>3. CASE PayrollNext
    BY <2>3, SourcesKeep, CreateRunKeeps, AskKeeps, LooksKeep, LooksAtRunKeep, BeginKeeps,
       SyncKeeps, RowOpKeeps, ApproveRunKeeps, CloseKeeps, CollectRepaymentKeeps
       DEF PayrollNext
  <2>. QED  BY <2>1, <2>2, <2>3 DEF PayrollStep
<1>. QED  BY <1>1, PayrollInitHolds, PTL DEF PayrollSpec

LEMMA PayrollInvTyped == PayrollInv => PayrollTypeOK
  BY DEF PayrollInv, PayrollRows, Salaries, SalaryKey, PayrollTypeOK

\* Runs, salaries and advances have their types: in particular what a salary
\* withholds of an advance, and what a coach has repaid at the counter, is never
\* more than the advance.
THEOREM PayrollTyped == PayrollSpec => []PayrollTypeOK
  BY PayrollInvTyped, PayrollInvHolds, PTL

\* On SQLite no one-to-one session is in two salaries that are not void, a salary
\* is paid exactly while its transaction is posted, and a closed run has nothing
\* left to pay: for any number of requests, runs and sessions.
THEOREM PayrollSettlesOnce == PayrollSpec => []PayrollIsSettled
<1>1. PayrollInv => PayrollIsSettled
  BY DEF PayrollInv
<1>. QED  BY <1>1, PayrollInvHolds, PTL
----------------------------------------------------------------------------
(***************************************************************************)
(* The parts together (MCBackOffice).  A behaviour is of one part, whose   *)
(* requests do not touch the tables of the others.                         *)
(***************************************************************************)

\* A behaviour of the parts together is a behaviour of one of them alone: so what
\* is proved of each holds of what TLC explores.
THEOREM OfficeAreApart ==
    Spec => \/ part = "billing" /\ BillingSpec
            \/ part = "communications" /\ CommunicationsSpec
            \/ part = "students" /\ AttendanceSpec
            \/ part = "staff" /\ StaffSpec
            \/ (part = "payroll" \/ part = "advance") /\ PayrollSpec
<1>1. Init => /\ \/ part = "billing" \/ part = "communications" \/ part = "students"
                 \/ part = "staff" \/ part = "payroll" \/ part = "advance"
              /\ InitRequests /\ BillingInit /\ CommunicationsInit
              /\ AttendanceInit /\ StaffInit /\ PayrollInit
  BY DEF Init, Parts
<1>2. part = "billing" /\ [Next]_vars
        => (part = "billing")' /\ [BillingStep]_<<driver, tx, billing>>
  BY DEF Next, vars, Billing, BillingStep
<1>3. part = "communications" /\ [Next]_vars
        => (part = "communications")' /\ [CommunicationsNext]_communicationVars
  BY DEF Next, vars, communicationVars
<1>4. part = "students" /\ [Next]_vars
        => (part = "students")' /\ [AttendanceNext]_attendanceVars
  BY DEF Next, vars, attendanceVars
<1>5. part = "staff" /\ [Next]_vars
        => (part = "staff")' /\ [StaffNext]_<<driver, tx, staff>>
  BY DEF Next, vars
<1>6. (part = "payroll" \/ part = "advance") /\ [Next]_vars
        => (part = "payroll" \/ part = "advance")'
           /\ [PayrollStep]_<<driver, tx, payroll>>
  BY DEF Next, vars, Payroll, PayrollStep
<1>. QED
  BY <1>1, <1>2, <1>3, <1>4, <1>5, <1>6, PTL
  DEF Spec, BillingSpec, CommunicationsSpec, AttendanceSpec, StaffSpec, PayrollSpec

\* Every part has its types, the one that is looked at and those that are not, for
\* any number of requests, whatever the fee, the days and the periods are.
THEOREM OfficeTyped == Spec => []TypeOK
<1>1. Init => InitRequests /\ BillingInit /\ CommunicationsInit /\ AttendanceInit
           /\ StaffInit /\ PayrollInit
  BY DEF Init
<1>2. Init => BillingTypeOK /\ CommunicationsTypeOK /\ AttendanceTypeOK
           /\ StaffTypeOK /\ PayrollTypeOK
  BY <1>1, BillingInitHolds, BillingInvTyped, CommunicationsInitHolds, RowsInit,
     CommunicationsInvTyped, AttendanceStartsTyped, StaffInitHolds, StaffInvTyped,
     PayrollInitHolds, PayrollInvTyped
<1>3. BillingTypeOK /\ [Next]_vars /\ ~(part = "billing")
        => BillingTypeOK' /\ ~(part = "billing")'
  BY DEF Next, vars, BillingTypeOK, billing
<1>4. CommunicationsTypeOK /\ [Next]_vars /\ ~(part = "communications")
        => CommunicationsTypeOK' /\ ~(part = "communications")'
  BY DEF Next, vars, CommunicationsTypeOK, communications
<1>5. AttendanceTypeOK /\ [Next]_vars /\ ~(part = "students")
        => AttendanceTypeOK' /\ ~(part = "students")'
  BY DEF Next, vars, AttendanceTypeOK, attendance
<1>6. StaffTypeOK /\ [Next]_vars /\ ~(part = "staff")
        => StaffTypeOK' /\ ~(part = "staff")'
  BY DEF Next, vars, StaffTypeOK, staff
<1>7. PayrollTypeOK /\ [Next]_vars /\ ~(part = "payroll" \/ part = "advance")
        => PayrollTypeOK' /\ ~(part = "payroll" \/ part = "advance")'
  BY DEF Next, vars, PayrollTypeOK, payroll
<1>8. /\ ~(part = "billing" /\ part = "communications")
      /\ ~(part = "billing" /\ part = "students")
      /\ ~(part = "billing" /\ part = "staff")
      /\ ~(part = "billing" /\ (part = "payroll" \/ part = "advance"))
      /\ ~(part = "communications" /\ part = "students")
      /\ ~(part = "communications" /\ part = "staff")
      /\ ~(part = "communications" /\ (part = "payroll" \/ part = "advance"))
      /\ ~(part = "students" /\ part = "staff")
      /\ ~(part = "students" /\ (part = "payroll" \/ part = "advance"))
      /\ ~(part = "staff" /\ (part = "payroll" \/ part = "advance"))
  OBVIOUS
<1>9. Spec => []BillingTypeOK
  BY <1>2, <1>3, <1>8, OfficeAreApart, BillingTyped, PTL DEF Spec
<1>10. Spec => []CommunicationsTypeOK
  BY <1>2, <1>4, <1>8, OfficeAreApart, CommunicationsTyped, PTL DEF Spec
<1>11. Spec => []AttendanceTypeOK
  BY <1>2, <1>5, <1>8, OfficeAreApart, AttendanceTyped, PTL DEF Spec
<1>12. Spec => []StaffTypeOK
  BY <1>2, <1>6, <1>8, OfficeAreApart, StaffTyped, PTL DEF Spec
<1>13. Spec => []PayrollTypeOK
  BY <1>2, <1>7, <1>8, OfficeAreApart, PayrollTyped, PTL DEF Spec
<1>. QED  BY <1>9, <1>10, <1>11, <1>12, <1>13, PTL DEF TypeOK
=============================================================================
