------------------------- MODULE Collections_proofs -------------------------
(***************************************************************************)
(* What customers pay for, for any number of bookings, payments, sessions, *)
(* plans, partners and requests: the money of a booking, the progress of a *)
(* one-to-one package, the courts of a monthly plan and the commission of a *)
(* referral partner agree with the rows they are made from.                *)
(*                                                                         *)
(* Each part has an invariant that its steps keep.  It says of the tables what *)
(* is to be shown, and of every open transaction what it has read or computed *)
(* that is still so: on SQLite because a commit ends the other transactions *)
(* (Proceed, End), on PostgreSQL because of the rows the code locks.       *)
(***************************************************************************)
EXTENDS MCCollections, SetSums
----------------------------------------------------------------------------
(***************************************************************************)
(* Payments of bookings (BookingPayments).  Apart: on PostgreSQL two that  *)
(* write hold different bookings, so that each finds the sums it computed. *)
(***************************************************************************)

PaymentsSpec == InitRequests /\ PaymentsInit /\ [][PaymentsNext]_<<driver, tx, payments>>

CollectedOf(rows, b) == SetSum([p \in DOMAIN rows |-> rows[p].amount], Active(rows, b))
OverOf(rows, b) == SetSum([p \in DOMAIN rows |-> rows[p].over], Active(rows, b))

\* More is not taken than was quoted, or is settled for, when r commits.
Fits(r) ==
    LET row == tx[r].row
    IN  CollectedOf(collection, row.booking) + row.amount
            <= OverOf(collection, row.booking) + row.over
               + (IF tx[r].settle > 0 THEN tx[r].settle ELSE financial[row.booking].quoted)

CollectJob(r) ==
    /\ tx[r].row.voidedBy = None
    /\ tx[r].row.booking \notin archived
    /\ status[tx[r].row.booking] # "awaiting"
    /\ tx[r].row.over < tx[r].row.amount
    /\ Fits(r)
    /\ tx[r].phase = "written" => /\ tx[r].payment \in Payment \ DOMAIN collection
                                  /\ tx[r].row.receipt = sequence

VoidJob(r) ==
    /\ tx[r].payment \in DOMAIN collection
    /\ tx[r].row = [collection[tx[r].payment] EXCEPT !.voidedBy = r]
    /\ tx[r].settle = 0
    /\ tx[r].phase = "written" => /\ collection[tx[r].payment].voidedBy = None
                                  /\ driver = "sqlite" => tx[r].row.day > lockedUntil

\* What a transaction has computed, on SQLite, is what its commit makes true.
Computed(r) ==
    LET rows == Visible(tx[r].payment, tx[r].row)
    IN  /\ tx[r].paid <=> Active(rows, tx[r].row.booking) # {}
        /\ tx[r].latest = Latest(rows, tx[r].row.booking)

Apart(r, k) ==
    /\ driver = "postgres" /\ tx[r].op = "collect" /\ tx[k].op = "collect"
          => tx[r].row.booking # tx[k].row.booking
    /\ HasWritten(r) /\ HasWritten(k)
          => /\ driver = "postgres"
             /\ tx[r].op = "void" \/ tx[k].op = "void"
             /\ tx[r].op = "void" /\ tx[k].op = "void" => tx[r].payment # tx[k].payment

PaymentJobs ==
    /\ driver \in {"sqlite", "postgres"}
    /\ DOMAIN tx = Request
    /\ \A r \in Request :
          /\ tx[r] = Idle \/ tx[r] \in PaymentRequest
          /\ tx[r].op = "collect" => CollectJob(r)
          /\ tx[r].op = "void" => VoidJob(r)
          /\ driver = "sqlite" /\ HasWritten(r) => Computed(r)
    /\ \A r, k \in Request : r # k => Apart(r, k)

PaymentRows ==
    /\ IsFiniteSet(DOMAIN collection)
    /\ \A p \in DOMAIN collection :
          /\ collection[p].over < collection[p].amount
          /\ status[collection[p].booking] # "awaiting"

Covered(b) == CollectedOf(collection, b) <= financial[b].quoted + OverOf(collection, b)

\* The price of a package may be lowered at any time.
NoneOverpaid == \A b \in Booking \ OneToOne : Covered(b)

PaymentsInv ==
    PaymentsTypeOK /\ PaymentRows /\ PaymentJobs /\ SnapshotAgrees /\ ReceiptsNumbered /\ NoneOverpaid
----------------------------------------------------------------------------
Amounts(rows) == \A q \in DOMAIN rows : rows[q].amount \in Nat /\ rows[q].over \in Nat

\* The sums of the module are sums of functions.
LEMMA CollectedIs ==
    ASSUME IsFiniteSet(DOMAIN collection), NEW b
    PROVE  Collected(b) = CollectedOf(collection, b)
<1> DEFINE A == Active(collection, b)
           f == [p \in DOMAIN collection |-> collection[p].amount]
           IsSum(h) == h = [s \in SUBSET A |->
                              IF s = {} THEN 0
                              ELSE collection[CHOOSE x \in s : TRUE].amount
                                   + h[s \ {CHOOSE x \in s : TRUE}]]
<1>1. A \subseteq DOMAIN collection /\ IsFiniteSet(A)
  BY FS_Subset DEF Active
<1>2. \A h : Adds(h, f, A) <=> IsSum(h)
  <2>1. \A s \in SUBSET A : s # {} => f[Pick(s)] = collection[CHOOSE x \in s : TRUE].amount
    BY <1>1, PickIn DEF Pick
  <2>. QED  BY <2>1 DEF Adds, Pick
<1>3. Collected(b) = (CHOOSE h : IsSum(h))[A]
  BY DEF Collected, MapThenSumSet, MapThenFoldSet
<1> HIDE DEF A, f, IsSum
<1>4. Adds(CHOOSE h : IsSum(h), f, A)
  BY <1>1, <1>2, AddsExists
<1>5. SetSum(f, A) = (CHOOSE h : IsSum(h))[A]
  BY <1>1, <1>4, SumIs
<1>. QED  BY <1>3, <1>5 DEF CollectedOf, A, f

LEMMA OverIs ==
    ASSUME IsFiniteSet(DOMAIN collection), NEW b
    PROVE  MapThenSumSet(LAMBDA p : collection[p].over, Active(collection, b))
               = OverOf(collection, b)
<1> DEFINE A == Active(collection, b)
           f == [p \in DOMAIN collection |-> collection[p].over]
           IsSum(h) == h = [s \in SUBSET A |->
                              IF s = {} THEN 0
                              ELSE collection[CHOOSE x \in s : TRUE].over
                                   + h[s \ {CHOOSE x \in s : TRUE}]]
<1>1. A \subseteq DOMAIN collection /\ IsFiniteSet(A)
  BY FS_Subset DEF Active
<1>2. \A h : Adds(h, f, A) <=> IsSum(h)
  <2>1. \A s \in SUBSET A : s # {} => f[Pick(s)] = collection[CHOOSE x \in s : TRUE].over
    BY <1>1, PickIn DEF Pick
  <2>. QED  BY <2>1 DEF Adds, Pick
<1>3. MapThenSumSet(LAMBDA p : collection[p].over, A) = (CHOOSE h : IsSum(h))[A]
  BY DEF MapThenSumSet, MapThenFoldSet
<1> HIDE DEF A, f, IsSum
<1>4. Adds(CHOOSE h : IsSum(h), f, A)
  BY <1>1, <1>2, AddsExists
<1>5. SetSum(f, A) = (CHOOSE h : IsSum(h))[A]
  BY <1>1, <1>4, SumIs
<1>. QED  BY <1>3, <1>5 DEF OverOf, A, f

LEMMA SumsNat ==
    ASSUME NEW rows, IsFiniteSet(DOMAIN rows), Amounts(rows), NEW b
    PROVE  CollectedOf(rows, b) \in Nat /\ OverOf(rows, b) \in Nat
<1>1. IsFiniteSet(Active(rows, b)) /\ Active(rows, b) \subseteq DOMAIN rows
  BY FS_Subset DEF Active
<1>. QED  BY <1>1, SumNat DEF CollectedOf, OverOf, Amounts

\* The rows of b are those it had.
SameRows(rows, new, b) ==
    /\ Active(new, b) = Active(rows, b)
    /\ \A q \in Active(rows, b) : q \in DOMAIN rows \cap DOMAIN new /\ new[q] = rows[q]

\* The rows of one booking alone decide about its sums.
LEMMA SameSums ==
    ASSUME NEW rows, NEW new, NEW b, IsFiniteSet(DOMAIN rows), SameRows(rows, new, b)
    PROVE  CollectedOf(new, b) = CollectedOf(rows, b) /\ OverOf(new, b) = OverOf(rows, b)
<1>1. IsFiniteSet(Active(rows, b))
  BY FS_Subset DEF Active
<1>. QED  BY <1>1, SumSame DEF CollectedOf, OverOf, SameRows

LEMMA OtherRows ==
    ASSUME NEW rows, NEW p, NEW row, NEW b, row.booking # b,
           p \in DOMAIN rows => rows[p].booking # b
    PROVE  SameRows(rows, Put(rows, p, row), b)
  BY DEF SameRows, Active, Put

LEMMA NewRow ==
    ASSUME NEW rows, IsFiniteSet(DOMAIN rows), Amounts(rows), NEW p, p \notin DOMAIN rows,
           NEW row, row.voidedBy = None, row.amount \in Nat, row.over \in Nat, NEW b,
           row.booking = b
    PROVE  /\ CollectedOf(Put(rows, p, row), b) = CollectedOf(rows, b) + row.amount
           /\ OverOf(Put(rows, p, row), b) = OverOf(rows, b) + row.over
<1> DEFINE new == Put(rows, p, row)
           A == Active(rows, b)
<1>1. Active(new, b) = A \cup {p} /\ p \notin A /\ A \subseteq DOMAIN rows
  BY DEF Active, Put
<1>2. IsFiniteSet(A)
  BY <1>1, FS_Subset
<1>3. \A q \in A : new[q] = rows[q] /\ q \in DOMAIN new
  BY <1>1 DEF Put
<1>4. new[p] = row /\ p \in DOMAIN new
  BY DEF Put
<1> HIDE DEF new, A
<1> DEFINE f == [q \in DOMAIN new |-> new[q].amount]
           g == [q \in DOMAIN new |-> new[q].over]
<1>5. \A x \in A \cup {p} : f[x] \in Int /\ g[x] \in Int
  BY <1>1, <1>3, <1>4 DEF Amounts
<1>6. f[p] = row.amount /\ g[p] = row.over
  BY <1>4
<1>7. CollectedOf(rows, b) = SetSum(f, A) /\ OverOf(rows, b) = SetSum(g, A)
  <2>1. \A q \in A : /\ [x \in DOMAIN rows |-> rows[x].amount][q] = f[q]
                     /\ [x \in DOMAIN rows |-> rows[x].over][q] = g[q]
    BY <1>1, <1>3
  <2>. HIDE DEF f, g
  <2>. QED  BY <1>2, <2>1, SumSame DEF CollectedOf, OverOf, A
<1>8. SetSum(f, A \cup {p}) = f[p] + SetSum(f, A) /\ SetSum(g, A \cup {p}) = g[p] + SetSum(g, A)
  <2>. HIDE DEF f, g
  <2>. QED  BY <1>1, <1>2, <1>5, SumAdd
<1>9. SetSum(f, A) \in Nat /\ SetSum(g, A) \in Nat
  BY <1>7, SumsNat
<1>10. CollectedOf(new, b) = SetSum(f, A \cup {p}) /\ OverOf(new, b) = SetSum(g, A \cup {p})
  BY <1>1 DEF CollectedOf, OverOf
<1> HIDE DEF f, g
<1>. QED  BY <1>6, <1>7, <1>8, <1>9, <1>10 DEF new

LEMMA VoidedRow ==
    ASSUME NEW rows, IsFiniteSet(DOMAIN rows), Amounts(rows), NEW p \in DOMAIN rows,
           rows[p].voidedBy = None, NEW row, row.voidedBy # None, NEW b, rows[p].booking = b
    PROVE  /\ CollectedOf(rows, b) = CollectedOf(Put(rows, p, row), b) + rows[p].amount
           /\ OverOf(rows, b) = OverOf(Put(rows, p, row), b) + rows[p].over
<1> DEFINE new == Put(rows, p, row)
           A == Active(rows, b)
<1>1. Active(new, b) = A \ {p} /\ p \in A /\ A \subseteq DOMAIN rows
  BY DEF Active, Put
<1>2. IsFiniteSet(A) /\ IsFiniteSet(A \ {p})
  BY <1>1, FS_Subset
<1>3. \A q \in A \ {p} : new[q] = rows[q] /\ q \in DOMAIN new
  BY <1>1 DEF Put
<1> HIDE DEF new, A
<1> DEFINE f == [q \in DOMAIN rows |-> rows[q].amount]
           g == [q \in DOMAIN rows |-> rows[q].over]
<1>5. \A x \in A : f[x] \in Nat /\ g[x] \in Nat
  BY <1>1 DEF Amounts
<1>6. f[p] = rows[p].amount /\ g[p] = rows[p].over
  BY <1>1
<1>7. CollectedOf(new, b) = SetSum(f, A \ {p}) /\ OverOf(new, b) = SetSum(g, A \ {p})
  <2>1. \A q \in A \ {p} : /\ [x \in DOMAIN new |-> new[x].amount][q] = f[q]
                           /\ [x \in DOMAIN new |-> new[x].over][q] = g[q]
    BY <1>1, <1>3
  <2> DEFINE T == A \ {p}
             F == [x \in DOMAIN new |-> new[x].amount]
             G == [x \in DOMAIN new |-> new[x].over]
  <2>2. CollectedOf(new, b) = SetSum(F, T) /\ OverOf(new, b) = SetSum(G, T)
    BY <1>1 DEF CollectedOf, OverOf
  <2>. HIDE DEF f, g, F, G, T
  <2>3. IsFiniteSet(T) /\ \A q \in T : F[q] = f[q] /\ G[q] = g[q]
    BY <1>2, <2>1 DEF F, G, T
  <2>4. SetSum(F, T) = SetSum(f, T) /\ SetSum(G, T) = SetSum(g, T)
    BY <2>3, SumSame
  <2>. QED  BY <2>2, <2>4 DEF T
<1>8. SetSum(f, A) = f[p] + SetSum(f, A \ {p}) /\ SetSum(g, A) = g[p] + SetSum(g, A \ {p})
  <2>. HIDE DEF f, g
  <2>. QED  BY <1>1, <1>2, <1>5, SumTake
<1>9. SetSum(f, A \ {p}) \in Nat /\ SetSum(g, A \ {p}) \in Nat
  <2>. HIDE DEF f, g
  <2>. QED  BY <1>2, <1>5, SumNat
<1>10. CollectedOf(rows, b) = SetSum(f, A) /\ OverOf(rows, b) = SetSum(g, A)
  BY DEF CollectedOf, OverOf, A
<1>11. f[p] \in Nat /\ g[p] \in Nat
  BY <1>1, <1>5
<1> HIDE DEF f, g
<1>12. /\ CollectedOf(rows, b) = CollectedOf(new, b) + f[p]
       /\ OverOf(rows, b) = OverOf(new, b) + g[p]
  BY <1>7, <1>8, <1>9, <1>10, <1>11
<1>. QED  BY <1>6, <1>12 DEF new
----------------------------------------------------------------------------
(* The collection that was taken last *)

Ordered(rows) == \A q \in DOMAIN rows : rows[q].day \in Int /\ rows[q].receipt \in Int

OneEach(rows) ==
    \A p, q \in DOMAIN rows : rows[p].receipt = rows[q].receipt => p = q

Later(rows, p, q) == \/ rows[p].day > rows[q].day
                     \/ rows[p].day = rows[q].day /\ rows[p].receipt >= rows[q].receipt

LEMMA SomeIsLatest ==
    ASSUME NEW rows, Ordered(rows), NEW S, S \subseteq DOMAIN rows, IsFiniteSet(S), S # {}
    PROVE  \E p \in S : \A q \in S : Later(rows, p, q)
<1> DEFINE R == {e \in S \X S : Later(rows, e[1], e[2])}
<1>1. \A p, q \in S : <<p, q>> \in R <=> Later(rows, p, q)
  OBVIOUS
<1>2. \A p \in S : rows[p].day \in Int /\ rows[p].receipt \in Int
  BY DEF Ordered
<1>3. \A p, q \in S : Later(rows, p, q) \/ Later(rows, q, p)
  BY <1>2 DEF Later
<1>4. \A p, q, r \in S : Later(rows, p, q) /\ Later(rows, q, r) => Later(rows, p, r)
  BY <1>2 DEF Later
<1> HIDE DEF R
<1>5. \E p \in S : \A q \in S : <<p, q>> \in R
  BY <1>1, <1>3, <1>4, SomeIsFirst
<1>. QED  BY <1>1, <1>5

LEMMA LatestIn ==
    ASSUME NEW rows, Ordered(rows), IsFiniteSet(DOMAIN rows), NEW b
    PROVE  /\ Active(rows, b) = {} => Latest(rows, b) = None
           /\ Active(rows, b) # {} =>
                 /\ Latest(rows, b) \in Active(rows, b)
                 /\ \A q \in Active(rows, b) : Later(rows, Latest(rows, b), q)
<1>1. Active(rows, b) = {} => Latest(rows, b) = None
  BY DEF Latest
<1>2. ASSUME Active(rows, b) # {}
      PROVE  /\ Latest(rows, b) \in Active(rows, b)
             /\ \A q \in Active(rows, b) : Later(rows, Latest(rows, b), q)
  <2>1. Active(rows, b) \subseteq DOMAIN rows /\ IsFiniteSet(Active(rows, b))
    BY FS_Subset DEF Active
  <2>2. \E p \in Active(rows, b) : \A q \in Active(rows, b) : Later(rows, p, q)
    BY <1>2, <2>1, SomeIsLatest
  <2>3. Latest(rows, b) = CHOOSE p \in Active(rows, b) :
                             \A q \in Active(rows, b) : Later(rows, p, q)
    BY <1>2 DEF Latest, Later
  <2>. QED  BY <2>2, <2>3
<1>. QED  BY <1>1, <1>2

\* With unique receipts the rows of the booking alone decide which it is.
LEMMA SameLatest ==
    ASSUME NEW rows, NEW new, NEW b, Ordered(rows), Ordered(new),
           IsFiniteSet(DOMAIN rows), IsFiniteSet(DOMAIN new),
           OneEach(rows), SameRows(rows, new, b)
    PROVE  Latest(new, b) = Latest(rows, b)
<1> USE DEF SameRows
<1>1. CASE Active(rows, b) = {}
  BY <1>1, LatestIn
<1>2. CASE Active(rows, b) # {}
  <2> DEFINE m == Latest(rows, b)
             n == Latest(new, b)
  <2>1. m \in Active(rows, b) /\ \A q \in Active(rows, b) : Later(rows, m, q)
    BY <1>2, LatestIn
  <2>2. n \in Active(rows, b) /\ \A q \in Active(rows, b) : Later(new, n, q)
    BY <1>2, LatestIn
  <2> HIDE DEF m, n
  <2>3. Later(rows, m, n) /\ Later(rows, n, m)
    BY <2>1, <2>2 DEF Later
  <2>4. rows[m].receipt = rows[n].receipt
    BY <2>1, <2>2, <2>3 DEF Later, Ordered
  <2>5. m = n
    BY <2>1, <2>2, <2>4 DEF OneEach
  <2>. QED  BY <2>5 DEF m, n
<1>. QED  BY <1>1, <1>2
----------------------------------------------------------------------------
LEMMA RowsTyped ==
    ASSUME PaymentsTypeOK
    PROVE  Amounts(collection) /\ Ordered(collection)
<1>1. \A q \in DOMAIN collection : collection[q] \in Collection
  BY DEF PaymentsTypeOK
<1>. QED  BY <1>1, PaymentsAssumption DEF Amounts, Ordered, Collection, Day

LEMMA PaymentsInitHolds == InitRequests /\ PaymentsInit => PaymentsInv
<1> SUFFICES ASSUME InitRequests, PaymentsInit PROVE PaymentsInv
  OBVIOUS
<1>1. DOMAIN collection = {} /\ IsFiniteSet(DOMAIN collection)
  BY FS_EmptySet DEF PaymentsInit
<1>2. \A r \in Request : tx[r] = Idle /\ tx[r].op = "idle"
  BY DEF InitRequests, Idle
<1>3. \A b \in Booking : Active(collection, b) = {}
  BY <1>1 DEF Active
<1>4. PaymentsTypeOK
  <2>1. financial \in [Booking -> Financial]
    <3>1. financial \in [Booking -> {[quoted |-> q, paid |-> FALSE, latest |-> None] :
                                        q \in 1 .. MaxPrice}]
      BY DEF PaymentsInit
    <3>2. \A q \in 1 .. MaxPrice : [quoted |-> q, paid |-> FALSE, latest |-> None] \in Financial
      BY PaymentsAssumption DEF Financial
    <3>. QED  BY <3>1, <3>2
  <2>. QED  BY <1>1, <1>2, <2>1, PaymentsAssumption DEF PaymentsTypeOK, PaymentsInit
<1>5. PaymentRows
  BY <1>1 DEF PaymentRows
<1>6. PaymentJobs
  BY <1>2 DEF PaymentJobs, InitRequests, Apart, HasWritten, IsOpen
<1>7. SnapshotAgrees
  <2>1. \A b \in Booking : financial[b].paid = FALSE /\ financial[b].latest = None
    BY DEF PaymentsInit
  <2>. QED  BY <1>3, <2>1 DEF SnapshotAgrees, Latest
<1>8. ReceiptsNumbered
  BY <1>1 DEF ReceiptsNumbered, PaymentsInit
<1>9. NoneOverpaid
  <2>1. \A b \in Booking : CollectedOf(collection, b) = 0 /\ OverOf(collection, b) = 0
    BY <1>3, SumEmpty DEF CollectedOf, OverOf
  <2>2. \A b \in Booking : financial[b].quoted \in Nat
    BY <1>4 DEF PaymentsTypeOK, Financial
  <2>. QED  BY <2>1, <2>2 DEF NoneOverpaid, Covered
<1>. QED  BY <1>4, <1>5, <1>6, <1>7, <1>8, <1>9 DEF PaymentsInv
----------------------------------------------------------------------------
(* Steps that leave the tables alone *)

LEMMA QuietTables ==
    ASSUME PaymentsInv, PaymentJobs', UNCHANGED <<driver, payments>>
    PROVE  PaymentsInv'
<1>1. PaymentsTypeOK'
  <2>1. \A r \in Request : tx'[r].op \in {"collect", "void"} => tx'[r] \in PaymentRequest
    BY DEF PaymentJobs, Idle
  <2>. QED  BY <2>1 DEF PaymentsInv, PaymentsTypeOK, payments, records, desk
<1>2. PaymentRows'
  BY DEF PaymentsInv, PaymentRows, payments, records, desk
<1>3. SnapshotAgrees'
  BY DEF PaymentsInv, SnapshotAgrees, payments, records, desk
<1>4. ReceiptsNumbered'
  BY DEF PaymentsInv, ReceiptsNumbered, payments, records, desk
<1>5. NoneOverpaid'
  BY DEF PaymentsInv, NoneOverpaid, Covered, payments, records, desk
<1>. QED  BY <1>1, <1>2, <1>3, <1>4, <1>5 DEF PaymentsInv

LEMMA OneJob ==
    ASSUME PaymentsInv, UNCHANGED <<driver, payments>>, NEW r \in Request, NEW j,
           tx' = [tx EXCEPT ![r] = j], j \in PaymentRequest,
           j.op = "collect" => CollectJob(r)', j.op = "void" => VoidJob(r)',
           driver = "sqlite" /\ HasWritten(r)' => Computed(r)',
           \A k \in Request \ {r} : Apart(r, k)'
    PROVE  PaymentsInv'
<1>1. DOMAIN tx = Request /\ tx'[r] = j /\ \A k \in Request \ {r} : tx'[k] = tx[k]
  BY DEF PaymentsInv, PaymentJobs
<1>2. ASSUME NEW k \in Request \ {r}
      PROVE  /\ tx'[k] = Idle \/ tx'[k] \in PaymentRequest
             /\ tx'[k].op = "collect" => CollectJob(k)'
             /\ tx'[k].op = "void" => VoidJob(k)'
             /\ driver' = "sqlite" /\ HasWritten(k)' => Computed(k)'
  <2>1. tx'[k] = tx[k]
    BY <1>1
  <2>2. tx[k].op = "collect" => CollectJob(k)'
    BY <2>1 DEF PaymentsInv, PaymentJobs, CollectJob, Fits, payments, records, desk
  <2>3. tx[k].op = "void" => VoidJob(k)'
    BY <2>1 DEF PaymentsInv, PaymentJobs, VoidJob, payments, records, desk
  <2>4. driver' = "sqlite" /\ HasWritten(k)' => Computed(k)'
    BY <2>1 DEF PaymentsInv, PaymentJobs, Computed, HasWritten, IsOpen, Visible,
                payments, records, desk
  <2>. QED  BY <2>1, <2>2, <2>3, <2>4 DEF PaymentsInv, PaymentJobs
<1>3. \A k, l \in Request : k # l => Apart(k, l)'
  <2>. SUFFICES ASSUME NEW k \in Request, NEW l \in Request, k # l PROVE Apart(k, l)'
    OBVIOUS
  <2>1. CASE k = r
    BY <2>1
  <2>2. CASE l = r
    BY <2>2 DEF Apart
  <2>3. CASE k # r /\ l # r
    BY <1>1, <2>3 DEF PaymentsInv, PaymentJobs, Apart, HasWritten, IsOpen
  <2>. QED  BY <2>1, <2>2, <2>3
<1>4. PaymentJobs'
  BY <1>1, <1>2, <1>3 DEF PaymentJobs, PaymentsInv
<1>. QED  BY <1>4, QuietTables
----------------------------------------------------------------------------
LEMMA BeginCollectKeeps ==
    ASSUME PaymentsInv, NEW r \in Request, NEW b \in Booking, BeginCollect(r, b)
    PROVE  PaymentsInv'
<1>1. PICK amount \in 1 .. Due(b), over \in 0 .. MaxOver, discount \in 0 .. MaxPrice, day \in Day :
        /\ RowFree(Request \ {r}, b)
        /\ b \notin archived /\ status[b] = "collectible" /\ Due(b) > 0
        /\ over = 0 \/ discount = 0
        /\ over + discount > 0 => amount + discount = Outstanding(b)
        /\ Begin(r, "collect", None,
                 [booking |-> b, amount |-> amount + over, over |-> over, day |-> day,
                  receipt |-> 0, voidedBy |-> None],
                 IF discount > 0 THEN Collected(b) + amount ELSE 0)
  BY DEF BeginCollect
<1> DEFINE settle == IF discount > 0 THEN Collected(b) + amount ELSE 0
           row == [booking |-> b, amount |-> amount + over, over |-> over, day |-> day,
                   receipt |-> 0, voidedBy |-> None]
           j == [phase |-> "read", op |-> "collect", payment |-> None, row |-> row,
                 settle |-> settle, paid |-> FALSE, latest |-> None]
<1>2. /\ tx' = [tx EXCEPT ![r] = j] /\ UNCHANGED <<driver, payments>>
      /\ tx'[r] = j
  BY <1>1 DEF Begin, Look, PaymentsInv, PaymentJobs
<1>3. /\ Collected(b) = CollectedOf(collection, b)
      /\ Collected(b) \in Nat /\ OverOf(collection, b) \in Nat
  BY CollectedIs, SumsNat, RowsTyped DEF PaymentsInv, PaymentRows
<1>4. financial[b].quoted \in 0 .. MaxPrice
  BY DEF PaymentsInv, PaymentsTypeOK, Financial
<1>5. Outstanding(b) = Due(b) /\ Due(b) = financial[b].quoted - Collected(b) /\ Due(b) \in Nat
  BY <1>1, <1>3, <1>4 DEF Outstanding, Due
<1>6. amount \in Nat /\ amount > 0 /\ amount <= financial[b].quoted - Collected(b)
  BY <1>1, <1>3, <1>4, <1>5
<1>7. /\ discount > 0 => /\ over = 0 /\ settle = Collected(b) + amount
                        /\ settle = financial[b].quoted - discount
      /\ ~(discount > 0) => settle = 0
  BY <1>1, <1>3, <1>4, <1>5, <1>6
<1>8. settle \in 0 .. MaxPrice
  BY <1>3, <1>4, <1>6, <1>7, PaymentsAssumption
<1> HIDE DEF settle
<1>9. row \in Collection
  <2>1. amount + over \in 1 .. MaxPrice + MaxOver
    BY <1>3, <1>4, <1>6, PaymentsAssumption
  <2>. QED  BY <2>1 DEF Collection
<1>10. j \in PaymentRequest
  BY <1>8, <1>9 DEF PaymentRequest
<1>11. CollectJob(r)'
  <2>1. CollectedOf(collection, b) + (amount + over)
          <= OverOf(collection, b) + over + (IF settle > 0 THEN settle ELSE financial[b].quoted)
    BY <1>3, <1>4, <1>6, <1>7
  <2>2. Fits(r)'
    BY <1>2, <2>1 DEF Fits, payments, records, desk
  <2>3. over < amount + over
    BY <1>6
  <2>. QED  BY <1>1, <1>2, <2>2, <2>3 DEF CollectJob, payments, records, desk
<1>12. \A k \in Request \ {r} : Apart(r, k)'
  BY <1>1, <1>2 DEF Apart, HasWritten, IsOpen, RowFree, PaymentsInv, PaymentJobs
<1>13. ~HasWritten(r)'
  BY <1>2 DEF HasWritten
<1> HIDE DEF j
<1>14. j.op = "collect"
  BY DEF j
<1>. QED  BY <1>2, <1>10, <1>11, <1>12, <1>13, <1>14, OneJob

LEMMA BeginVoidKeeps ==
    ASSUME PaymentsInv, NEW r \in Request, NEW p \in DOMAIN collection, BeginVoid(r, p)
    PROVE  PaymentsInv'
<1> DEFINE row == [collection[p] EXCEPT !.voidedBy = r]
           j == [phase |-> "read", op |-> "void", payment |-> p, row |-> row,
                 settle |-> 0, paid |-> FALSE, latest |-> None]
<1>1. /\ tx' = [tx EXCEPT ![r] = j] /\ UNCHANGED <<driver, payments>>
      /\ tx'[r] = j
  BY DEF BeginVoid, Begin, Look, PaymentsInv, PaymentJobs
<1>2. collection[p] \in Collection /\ p \in Payment
  BY DEF PaymentsInv, PaymentsTypeOK
<1>3. row \in Collection
  BY <1>2 DEF Collection
<1>4. j \in PaymentRequest
  BY <1>2, <1>3, PaymentsAssumption DEF PaymentRequest
<1>5. VoidJob(r)'
  BY <1>1 DEF VoidJob, payments, records, desk
<1>6. \A k \in Request \ {r} : Apart(r, k)'
  BY <1>1 DEF Apart, HasWritten
<1>7. ~HasWritten(r)'
  BY <1>1 DEF HasWritten
<1> HIDE DEF j
<1>8. j.op = "void"
  BY DEF j
<1>. QED  BY <1>1, <1>4, <1>5, <1>6, <1>7, <1>8, OneJob
----------------------------------------------------------------------------
LEMMA PutRows ==
    ASSUME PaymentsInv, NEW p \in Payment, NEW row \in Collection
    PROVE  LET rows == Put(collection, p, row)
           IN  /\ IsFiniteSet(DOMAIN rows) /\ DOMAIN rows \subseteq Payment
               /\ \A q \in DOMAIN rows : rows[q] \in Collection
               /\ Ordered(rows)
<1> DEFINE rows == Put(collection, p, row)
<1>1. DOMAIN rows = DOMAIN collection \cup {p}
  BY DEF Put
<1>2. IsFiniteSet(DOMAIN rows)
  BY <1>1, FS_AddElement DEF PaymentsInv, PaymentRows
<1>3. \A q \in DOMAIN rows : rows[q] \in Collection
  BY DEF Put, PaymentsInv, PaymentsTypeOK
<1> HIDE DEF rows
<1>4. Ordered(rows)
  BY <1>3, PaymentsAssumption DEF Ordered, Collection, Day
<1>. QED  BY <1>1, <1>2, <1>3, <1>4 DEF rows, PaymentsInv, PaymentsTypeOK

\* What r writes and computes; Own is what its operation asks of it.
LEMMA WriteKeeps ==
    ASSUME PaymentsInv, NEW r \in Request, NEW p \in Payment, NEW row \in Collection,
           tx[r].op \in {"collect", "void"}, Write(r, p, row),
           tx[r].op = "collect" => CollectJob(r)', tx[r].op = "void" => VoidJob(r)',
           \A k \in Request \ {r} : Apart(r, k)'
    PROVE  PaymentsInv'
<1> DEFINE rows == Visible(p, row)
           j == [tx[r] EXCEPT !.phase = "written", !.payment = p, !.row = row,
                              !.paid = Active(rows, row.booking) # {},
                              !.latest = Latest(rows, row.booking)]
<1>1. /\ tx' = [tx EXCEPT ![r] = j] /\ UNCHANGED <<driver, payments>> /\ tx'[r] = j
  BY DEF Write, Proceed, PaymentsInv, PaymentJobs
<1>2. rows = Put(collection, p, row)
  BY DEF Visible, Put
<1>3. Latest(rows, row.booking) \in Payment \cup {None}
  <2>1. Latest(rows, row.booking) = None \/ Latest(rows, row.booking) \in DOMAIN rows
    BY <1>2, PutRows, LatestIn DEF Active
  <2>. QED  BY <1>2, <2>1, PutRows
<1>4. tx[r] \in PaymentRequest
  BY DEF PaymentsInv, PaymentsTypeOK
<1>5. j \in PaymentRequest /\ j.op = tx[r].op
  BY <1>3, <1>4 DEF PaymentRequest
<1>6. Computed(r)'
  <2>1. /\ tx'[r].payment = p /\ tx'[r].row = row
        /\ tx'[r].paid = (Active(rows, row.booking) # {})
        /\ tx'[r].latest = Latest(rows, row.booking)
    BY <1>1, <1>4 DEF PaymentRequest
  <2>2. Visible(p, row)' = Visible(p, row)
    BY <1>1 DEF Visible, payments, records
  <2>. QED  BY <2>1, <2>2 DEF Computed
<1> HIDE DEF j
<1>. QED  BY <1>1, <1>5, <1>6, OneJob

LEMMA WriteCollectKeeps ==
    ASSUME PaymentsInv, NEW r \in Request, NEW p \in Payment, WriteCollect(r, p)
    PROVE  PaymentsInv'
<1> DEFINE row == [tx[r].row EXCEPT !.receipt = sequence]
<1>1. /\ tx[r].op = "collect" /\ p \notin DOMAIN collection /\ Write(r, p, row)
      /\ \A k \in Request \ {r} : HasWritten(k) => tx[k].op # "collect"
  BY DEF WriteCollect, SequenceFree, Writers
<1>2. tx[r] \in PaymentRequest /\ tx[r].row \in Collection
  BY <1>1 DEF PaymentsInv, PaymentsTypeOK, PaymentRequest
<1>3. row \in Collection
  BY <1>2 DEF Collection, PaymentsInv, PaymentsTypeOK
<1>4. /\ tx'[r].op = "collect" /\ tx'[r].row = row /\ tx'[r].payment = p
      /\ tx'[r].settle = tx[r].settle
      /\ \A k \in Request \ {r} : tx'[k] = tx[k]
      /\ UNCHANGED <<driver, payments>>
  BY <1>1, <1>2 DEF Write, Proceed, PaymentsInv, PaymentJobs, PaymentRequest
<1>5. /\ row.booking = tx[r].row.booking /\ row.voidedBy = tx[r].row.voidedBy
      /\ row.amount = tx[r].row.amount /\ row.over = tx[r].row.over
      /\ row.receipt = sequence
  BY <1>2 DEF Collection
<1>6. CollectJob(r) /\ (driver = "sqlite" => \A k \in Request \ {r} : ~HasWritten(k))
  BY <1>1 DEF PaymentsInv, PaymentJobs, Write
<1> HIDE DEF row
<1>7. CollectJob(r)'
  BY <1>1, <1>4, <1>5, <1>6 DEF CollectJob, Fits, payments, records, desk
<1>8. \A k \in Request \ {r} : Apart(r, k)'
  <2>. SUFFICES ASSUME NEW k \in Request \ {r} PROVE Apart(r, k)'
    OBVIOUS
  <2>1. HasWritten(k)' <=> HasWritten(k)
    BY <1>4 DEF HasWritten, IsOpen
  <2>2. tx[k] = Idle \/ tx[k] \in PaymentRequest
    BY DEF PaymentsInv, PaymentJobs
  <2>3. HasWritten(k) => tx[k].op = "void" /\ driver = "postgres"
    BY <1>1, <1>6, <2>2 DEF HasWritten, IsOpen, Idle, PaymentRequest, PaymentsInv, PaymentJobs
  <2>4. Apart(r, k)
    BY DEF PaymentsInv, PaymentJobs
  <2>. QED  BY <1>1, <1>4, <1>5, <2>1, <2>3, <2>4 DEF Apart
<1>. QED  BY <1>1, <1>3, <1>7, <1>8, WriteKeeps

LEMMA WriteVoidKeeps ==
    ASSUME PaymentsInv, NEW r \in Request, WriteVoid(r)
    PROVE  PaymentsInv'
<1> DEFINE p == tx[r].payment
           row == tx[r].row
<1>1. /\ tx[r].op = "void" /\ MayVoid(p) /\ Write(r, p, row)
      /\ \A k \in Request \ {r} : HasWritten(k) /\ tx[k].op = "void" => tx[k].payment # p
  BY DEF WriteVoid, Writers
<1>2. tx[r] \in PaymentRequest /\ row \in Collection /\ VoidJob(r) /\ p \in Payment
  BY <1>1 DEF PaymentsInv, PaymentsTypeOK, PaymentRequest, PaymentJobs, VoidJob
<1>3. /\ tx'[r].op = "void" /\ tx'[r].row = row /\ tx'[r].payment = p
      /\ tx'[r].settle = tx[r].settle
      /\ \A k \in Request \ {r} : tx'[k] = tx[k]
      /\ UNCHANGED <<driver, payments>>
  BY <1>1, <1>2 DEF Write, Proceed, PaymentsInv, PaymentJobs, PaymentRequest
<1>4. driver = "sqlite" => \A k \in Request \ {r} : ~HasWritten(k)
  BY <1>1 DEF Write
<1>5. row.day = collection[p].day
  BY <1>2 DEF VoidJob, PaymentsInv, PaymentsTypeOK, Collection
<1>6. VoidJob(r)'
  BY <1>1, <1>2, <1>3, <1>5 DEF VoidJob, MayVoid, payments, records, desk
<1>7. \A k \in Request \ {r} : Apart(r, k)'
  <2>. SUFFICES ASSUME NEW k \in Request \ {r} PROVE Apart(r, k)'
    OBVIOUS
  <2>1. HasWritten(k)' <=> HasWritten(k)
    BY <1>3 DEF HasWritten, IsOpen
  <2>2. HasWritten(k) => driver = "postgres"
    BY <1>4 DEF PaymentsInv, PaymentJobs
  <2>. QED  BY <1>1, <1>3, <2>1, <2>2 DEF Apart
<1>. QED  BY <1>1, <1>2, <1>6, <1>7, WriteKeeps
----------------------------------------------------------------------------
(* Steps that end requests *)

\* On SQLite a commit ends them all.
LEMMA AllIdle ==
    ASSUME PaymentsInv, NEW R \in SUBSET Request, End(Overtaken({}) \cup R)
    PROVE  /\ DOMAIN tx' = Request /\ UNCHANGED driver
           /\ \A r \in Request : tx'[r] = Idle \/ (r \notin R /\ tx'[r] = tx[r])
           /\ driver = "sqlite" => \A r \in Request : tx'[r] = Idle
           /\ \A r \in R : tx'[r] = Idle
  BY DEF End, Overtaken

LEMMA ApartKept ==
    ASSUME PaymentsInv, UNCHANGED driver, NEW r \in Request, NEW k \in Request, r # k,
           tx'[r] = Idle \/ tx'[r] = tx[r], tx'[k] = Idle \/ tx'[k] = tx[k]
    PROVE  Apart(r, k)'
<1>1. Apart(r, k) /\ Idle.op = "idle"
  BY DEF PaymentsInv, PaymentJobs, Idle
<1>. QED  BY <1>1 DEF Apart, HasWritten, IsOpen

\* Jobs that stay open find their tables as they left them.
LEMMA JobsKept ==
    ASSUME PaymentsInv, UNCHANGED driver, DOMAIN tx' = Request,
           \A r \in Request : tx'[r] = Idle \/ tx'[r] = tx[r],
           \A r \in Request : tx'[r] = tx[r] /\ tx[r] # Idle =>
              /\ tx[r].op = "collect" => CollectJob(r)'
              /\ tx[r].op = "void" => VoidJob(r)'
              /\ driver = "sqlite" /\ HasWritten(r) => Computed(r)'
    PROVE  PaymentJobs'
<1>1. Idle.op = "idle"
  BY DEF Idle
<1>2. \A r \in Request : tx'[r] = tx[r] => (HasWritten(r)' <=> HasWritten(r))
  BY DEF HasWritten, IsOpen
<1>3. \A r \in Request : tx'[r] = Idle => ~HasWritten(r)'
  BY <1>1 DEF HasWritten, IsOpen
<1>4. \A r, k \in Request : r # k => Apart(r, k)'
  BY ApartKept
<1>5. ASSUME NEW r \in Request
      PROVE  /\ tx'[r] = Idle \/ tx'[r] \in PaymentRequest
             /\ tx'[r].op = "collect" => CollectJob(r)'
             /\ tx'[r].op = "void" => VoidJob(r)'
             /\ driver' = "sqlite" /\ HasWritten(r)' => Computed(r)'
  <2>1. CASE tx'[r] = Idle
    BY <1>1, <1>3, <2>1
  <2>2. CASE tx'[r] = tx[r] /\ tx[r] # Idle
    BY <1>2, <2>2 DEF PaymentsInv, PaymentJobs
  <2>. QED  BY <2>1, <2>2
<1>. QED  BY <1>4, <1>5 DEF PaymentJobs, PaymentsInv

LEMMA GiveUpKeeps ==
    ASSUME PaymentsInv, NEW r \in Request, GiveUpPayment(r)
    PROVE  PaymentsInv'
<1>1. /\ UNCHANGED <<driver, payments>> /\ DOMAIN tx' = Request
      /\ \A k \in Request : tx'[k] = Idle \/ tx'[k] = tx[k]
  BY DEF GiveUpPayment, GiveUp, End
<1>2. ASSUME NEW k \in Request, tx'[k] = tx[k]
      PROVE  /\ tx[k].op = "collect" => CollectJob(k)'
             /\ tx[k].op = "void" => VoidJob(k)'
             /\ driver = "sqlite" /\ HasWritten(k) => Computed(k)'
  <2>1. tx[k].op = "collect" => CollectJob(k)'
    BY <1>1, <1>2 DEF PaymentsInv, PaymentJobs, CollectJob, Fits, payments, records, desk
  <2>2. tx[k].op = "void" => VoidJob(k)'
    BY <1>1, <1>2 DEF PaymentsInv, PaymentJobs, VoidJob, payments, records, desk
  <2>3. driver = "sqlite" /\ HasWritten(k) => Computed(k)'
    BY <1>1, <1>2 DEF PaymentsInv, PaymentJobs, Computed, Visible, payments, records, desk
  <2>. QED  BY <2>1, <2>2, <2>3
<1>3. PaymentJobs'
  BY <1>1, <1>2, JobsKept
<1>. QED  BY <1>1, <1>3, QuietTables
----------------------------------------------------------------------------
(* The commit of a payment or a void *)

LEMMA SumsAfter ==
    ASSUME PaymentsInv, NEW r \in Request, HasWritten(r), CommitPayment(r), NEW b \in Booking
    PROVE  /\ tx[r].row.booking # b
                => /\ CollectedOf(collection', b) = CollectedOf(collection, b)
                   /\ OverOf(collection', b) = OverOf(collection, b)
           /\ tx[r].row.booking = b /\ tx[r].op = "collect"
                => /\ CollectedOf(collection', b) = CollectedOf(collection, b) + tx[r].row.amount
                   /\ OverOf(collection', b) = OverOf(collection, b) + tx[r].row.over
           /\ tx[r].row.booking = b /\ tx[r].op = "void"
                => \E amount, over \in Nat :
                      /\ over < amount
                      /\ CollectedOf(collection, b) = CollectedOf(collection', b) + amount
                      /\ OverOf(collection, b) = OverOf(collection', b) + over
<1> DEFINE p == tx[r].payment
           row == tx[r].row
<1>1. /\ tx[r].op \in {"collect", "void"} /\ tx[r].phase = "written"
      /\ collection' = Put(collection, p, row)
  BY DEF CommitPayment, Put
<1>2. row \in Collection
  BY <1>1 DEF PaymentsInv, PaymentsTypeOK, PaymentRequest
<1>3. row.amount \in Nat /\ row.over \in Nat
  BY <1>2, PaymentsAssumption DEF Collection
<1>4. IsFiniteSet(DOMAIN collection) /\ Amounts(collection)
  BY RowsTyped DEF PaymentsInv, PaymentRows
<1>5. tx[r].op = "collect" => p \notin DOMAIN collection /\ row.voidedBy = None
  BY <1>1 DEF PaymentsInv, PaymentJobs, CollectJob
<1>6. tx[r].op = "void" => /\ p \in DOMAIN collection /\ collection[p].voidedBy = None
                           /\ row = [collection[p] EXCEPT !.voidedBy = r]
  BY <1>1 DEF PaymentsInv, PaymentJobs, VoidJob
<1>7. p \in DOMAIN collection => /\ collection[p] \in Collection
                                 /\ collection[p].amount \in Nat /\ collection[p].over \in Nat
                                 /\ collection[p].over < collection[p].amount
  BY <1>4 DEF PaymentsInv, PaymentsTypeOK, PaymentRows, Amounts
<1>8. tx[r].op = "void" => row.booking = collection[p].booking /\ row.voidedBy # None
  BY <1>6, <1>7, PaymentsAssumption DEF Collection
<1> HIDE DEF p, row
<1>9. CASE row.booking # b
  <2>1. p \in DOMAIN collection => collection[p].booking # b
    BY <1>1, <1>5, <1>8, <1>9
  <2>2. SameRows(collection, Put(collection, p, row), b)
    BY <1>9, <2>1, OtherRows
  <2>3. /\ CollectedOf(collection', b) = CollectedOf(collection, b)
        /\ OverOf(collection', b) = OverOf(collection, b)
    BY <1>1, <1>4, <2>2, SameSums
  <2>. QED  BY <1>9, <2>3 DEF row
<1>10. CASE row.booking = b /\ tx[r].op = "collect"
  <2>1. /\ CollectedOf(Put(collection, p, row), b) = CollectedOf(collection, b) + row.amount
        /\ OverOf(Put(collection, p, row), b) = OverOf(collection, b) + row.over
    BY <1>3, <1>4, <1>5, <1>10, NewRow
  <2>. QED  BY <1>1, <1>10, <2>1 DEF row
<1>11. CASE row.booking = b /\ tx[r].op = "void"
  <2>1. /\ CollectedOf(collection, b) = CollectedOf(Put(collection, p, row), b) + collection[p].amount
        /\ OverOf(collection, b) = OverOf(Put(collection, p, row), b) + collection[p].over
    BY <1>4, <1>6, <1>8, <1>11, VoidedRow
  <2>. QED  BY <1>1, <1>6, <1>7, <1>11, <2>1 DEF row
<1>. QED  BY <1>1, <1>9, <1>10, <1>11 DEF row

\* A payment is covered when it commits, whatever the quote was before.
LEMMA CommitCovers ==
    ASSUME PaymentsInv, NEW r \in Request, CommitPayment(r), tx[r].op = "collect"
    PROVE  CollectedOf(collection', tx[r].row.booking)
               <= financial'[tx[r].row.booking].quoted + OverOf(collection', tx[r].row.booking)
<1> DEFINE row == tx[r].row
           b == row.booking
           settle == tx[r].settle
<1>1. /\ tx[r].phase = "written" /\ HasWritten(r)
      /\ financial' = [financial EXCEPT
               ![b] = [quoted |-> IF settle > 0 THEN settle ELSE financial[b].quoted,
                       paid |-> tx[r].paid, latest |-> tx[r].latest]]
  BY DEF CommitPayment, HasWritten, IsOpen
<1>2. /\ row \in Collection /\ b \in Booking /\ settle \in Nat
      /\ row.amount \in Nat /\ row.over \in Nat
  BY PaymentsAssumption DEF PaymentsInv, PaymentsTypeOK, PaymentRequest, Collection
<1>3. financial'[b].quoted = (IF settle > 0 THEN settle ELSE financial[b].quoted)
  BY <1>1, <1>2 DEF PaymentsInv, PaymentsTypeOK
<1>4. financial[b].quoted \in Nat
  BY <1>2 DEF PaymentsInv, PaymentsTypeOK, Financial
<1>5. /\ CollectedOf(collection', b) = CollectedOf(collection, b) + row.amount
      /\ OverOf(collection', b) = OverOf(collection, b) + row.over
  BY <1>1, <1>2, SumsAfter
<1>6. CollectedOf(collection, b) \in Nat /\ OverOf(collection, b) \in Nat
  BY RowsTyped, SumsNat DEF PaymentsInv, PaymentRows
<1>7. CollectedOf(collection, b) + row.amount
        <= OverOf(collection, b) + row.over + (IF settle > 0 THEN settle ELSE financial[b].quoted)
  BY DEF PaymentsInv, PaymentJobs, CollectJob, Fits
<1> HIDE DEF row, settle, b
<1>8. CollectedOf(collection', b) <= financial'[b].quoted + OverOf(collection', b)
  BY <1>2, <1>3, <1>4, <1>5, <1>6, <1>7
<1>. QED  BY <1>8 DEF b, row

LEMMA CommitKeeps ==
    ASSUME PaymentsInv, NEW r \in Request, CommitPayment(r)
    PROVE  PaymentsInv'
<1> DEFINE p == tx[r].payment
           row == tx[r].row
           b == row.booking
           settle == tx[r].settle
<1>1. /\ tx[r].op \in {"collect", "void"} /\ tx[r].phase = "written"
      /\ collection' = Put(collection, p, row)
      /\ financial' = [financial EXCEPT
               ![b] = [quoted |-> IF settle > 0 THEN settle ELSE financial[b].quoted,
                       paid |-> tx[r].paid, latest |-> tx[r].latest]]
      /\ sequence' = IF tx[r].op = "collect" THEN row.receipt + 1 ELSE sequence
      /\ UNCHANGED <<status, archived, lockedUntil>>
      /\ HasWritten(r)
  BY DEF CommitPayment, Put, desk, HasWritten, IsOpen
<1>2. /\ DOMAIN tx' = Request /\ UNCHANGED driver
      /\ \A k \in Request : tx'[k] = Idle \/ (k # r /\ tx'[k] = tx[k])
      /\ driver = "sqlite" => \A k \in Request : tx'[k] = Idle
  BY AllIdle DEF CommitPayment
<1>3. /\ tx[r] \in PaymentRequest /\ row \in Collection /\ b \in Booking
      /\ settle \in 0 .. MaxPrice /\ tx[r].paid \in BOOLEAN
      /\ tx[r].latest \in Payment \cup {None}
  BY <1>1 DEF PaymentsInv, PaymentsTypeOK, PaymentRequest, Collection
<1>4. tx[r].op = "collect" =>
         /\ p \in Payment \ DOMAIN collection /\ row.voidedBy = None /\ row.receipt = sequence
         /\ Fits(r) /\ status[b] # "awaiting"
  BY <1>1 DEF PaymentsInv, PaymentJobs, CollectJob
<1>5. tx[r].op = "void" =>
         /\ p \in DOMAIN collection /\ p \in Payment /\ collection[p].voidedBy = None
         /\ row = [collection[p] EXCEPT !.voidedBy = r] /\ settle = 0
         /\ collection[p] \in Collection
  BY <1>1 DEF PaymentsInv, PaymentJobs, VoidJob, PaymentsTypeOK
<1>6. tx[r].op = "void" =>
         /\ row.booking = collection[p].booking /\ row.receipt = collection[p].receipt
         /\ row.amount = collection[p].amount /\ row.over = collection[p].over
  BY <1>5 DEF Collection
<1>7. p \in Payment
  BY <1>1, <1>4, <1>5
<1>8. /\ IsFiniteSet(DOMAIN collection') /\ DOMAIN collection' \subseteq Payment
      /\ \A q \in DOMAIN collection' : collection'[q] \in Collection
      /\ Ordered(collection')
  BY <1>1, <1>3, <1>7, PutRows
<1>9. PaymentJobs'
  <2>. SUFFICES ASSUME NEW k \in Request, tx'[k] = tx[k], tx[k] # Idle
                PROVE  /\ tx[k].op = "collect" => CollectJob(k)'
                       /\ tx[k].op = "void" => VoidJob(k)'
                       /\ driver = "sqlite" /\ HasWritten(k) => Computed(k)'
    BY <1>2, JobsKept
  <2>1. driver = "postgres" /\ k # r /\ Apart(r, k) /\ Apart(k, r)
    BY <1>1, <1>2 DEF PaymentsInv, PaymentJobs
  <2>2. tx[k] \in PaymentRequest
    BY DEF PaymentsInv, PaymentJobs
  <2>3. tx[k].phase = "written" => HasWritten(k)
    BY <2>2 DEF HasWritten, IsOpen, PaymentRequest
  <2>4. ASSUME tx[k].op = "collect" PROVE CollectJob(k)'
    <3>1. CollectJob(k)
      BY <2>4 DEF PaymentsInv, PaymentJobs
    <3>2. tx[k].phase = "written" => tx[r].op = "void"
      BY <1>1, <2>1, <2>3, <2>4 DEF Apart
    <3>3. tx[k].phase = "written" => tx[k].payment \notin DOMAIN collection' /\ sequence' = sequence
      BY <1>1, <1>5, <3>1, <3>2 DEF CollectJob, Put
    <3> DEFINE c == tx[k].row.booking
               owed == IF tx[k].settle > 0 THEN tx[k].settle ELSE financial[c].quoted
    <3>4. /\ c \in Booking /\ tx[k].row.amount \in Nat /\ tx[k].row.over \in Nat /\ owed \in Nat
      BY <2>2, PaymentsAssumption DEF PaymentRequest, Collection, PaymentsInv, PaymentsTypeOK, Financial
    <3>5. CollectedOf(collection, c) + tx[k].row.amount <= OverOf(collection, c) + tx[k].row.over + owed
      BY <3>1 DEF CollectJob, Fits
    <3>6. (IF tx[k].settle > 0 THEN tx[k].settle ELSE financial'[c].quoted) = owed
      <4>1. CASE c # b
        BY <1>1, <3>4, <4>1 DEF PaymentsInv, PaymentsTypeOK
      <4>2. CASE c = b
        <5>1. tx[r].op = "void"
          BY <1>1, <2>1, <2>4, <4>2 DEF Apart
        <5>2. financial'[c].quoted = financial[c].quoted
          BY <1>1, <1>5, <3>4, <4>2, <5>1 DEF PaymentsInv, PaymentsTypeOK
        <5>. QED  BY <5>2
      <4>. QED  BY <4>1, <4>2
    <3>7. /\ CollectedOf(collection, c) \in Nat /\ OverOf(collection, c) \in Nat
          /\ CollectedOf(collection', c) \in Nat /\ OverOf(collection', c) \in Nat
      <4>1. Amounts(collection')
        BY <1>8, PaymentsAssumption DEF Amounts, Collection
      <4>. QED  BY <1>8, <4>1, RowsTyped, SumsNat DEF PaymentsInv, PaymentRows
    <3>8. CollectedOf(collection', c) + tx[k].row.amount <= OverOf(collection', c) + tx[k].row.over + owed
      <4>1. CASE c # b
        <5>1. /\ CollectedOf(collection', c) = CollectedOf(collection, c)
              /\ OverOf(collection', c) = OverOf(collection, c)
          BY <1>1, <3>4, <4>1, SumsAfter
        <5>. QED  BY <3>5, <5>1
      <4>2. CASE c = b
        <5>1. tx[r].op = "void"
          BY <1>1, <2>1, <2>4, <4>2 DEF Apart
        <5>2. PICK amount, over \in Nat :
                      /\ over < amount
                      /\ CollectedOf(collection, c) = CollectedOf(collection', c) + amount
                      /\ OverOf(collection, c) = OverOf(collection', c) + over
          BY <1>1, <3>4, <4>2, <5>1, SumsAfter
        <5>. HIDE DEF owed, c
        <5>. QED  BY <3>4, <3>5, <3>7, <5>2
      <4>. QED  BY <4>1, <4>2
    <3>9. Fits(k)'
      BY <3>6, <3>8 DEF Fits
    <3>. QED  BY <1>1, <3>1, <3>3, <3>9 DEF CollectJob
  <2>5. ASSUME tx[k].op = "void" PROVE VoidJob(k)'
    <3> DEFINE q == tx[k].payment
    <3>1. VoidJob(k)
      BY <2>5 DEF PaymentsInv, PaymentJobs
    <3>2. q \in DOMAIN collection /\ q \in DOMAIN collection' /\ collection[q] \in Collection
      BY <1>1, <3>1 DEF VoidJob, Put, PaymentsInv, PaymentsTypeOK
    <3>3. collection'[q] = collection[q] \/ collection'[q] = [collection[q] EXCEPT !.voidedBy = r]
      BY <1>1, <1>4, <1>5, <3>2 DEF Put
    <3>4. tx[k].row = [collection'[q] EXCEPT !.voidedBy = k]
      BY <3>1, <3>2, <3>3 DEF VoidJob, Collection
    <3>5. tx[k].phase = "written" => collection'[q] = collection[q]
      <4>1. ASSUME tx[k].phase = "written" PROVE p # q
        BY <1>1, <1>4, <2>1, <2>3, <2>5, <3>2, <4>1 DEF Apart
      <4>. QED  BY <1>1, <3>2, <4>1 DEF Put
    <3>. QED  BY <1>1, <2>1, <1>2, <3>1, <3>2, <3>4, <3>5 DEF VoidJob
  <2>. QED  BY <2>1, <2>4, <2>5
<1>10. PaymentsTypeOK'
  <2>1. financial' \in [Booking -> Financial]
    BY <1>1, <1>3 DEF Financial, PaymentsInv, PaymentsTypeOK
  <2>2. collection' \in [DOMAIN collection' -> Collection]
    BY <1>1, <1>8 DEF Put
  <2>3. sequence' \in Nat \ {0}
    BY <1>1, <1>4 DEF PaymentsInv, PaymentsTypeOK
  <2>4. \A k \in Request : tx'[k].op \in {"collect", "void"} => tx'[k] \in PaymentRequest
    BY <1>9 DEF PaymentJobs, Idle
  <2>. QED  BY <1>1, <1>8, <2>1, <2>2, <2>3, <2>4 DEF PaymentsInv, PaymentsTypeOK
<1>11. PaymentRows'
  <2>1. row.over < row.amount
    <3>1. tx[r].op = "collect" => row.over < row.amount
      BY <1>1 DEF PaymentsInv, PaymentJobs, CollectJob
    <3>2. tx[r].op = "void" => row.over < row.amount
      BY <1>5, <1>6 DEF PaymentsInv, PaymentRows
    <3>. QED  BY <1>1, <3>1, <3>2
  <2>. QED  BY <1>1, <1>4, <1>5, <1>6, <1>8, <2>1 DEF PaymentsInv, PaymentRows, Put
<1>12. SnapshotAgrees'
  <2>. SUFFICES ASSUME driver = "sqlite", NEW c \in Booking
                PROVE  /\ financial'[c].paid <=> Active(collection', c) # {}
                       /\ financial'[c].latest = Latest(collection', c)
    BY <1>2 DEF SnapshotAgrees
  <2>1. CASE c = b
    <3>1. Visible(p, row) = collection'
      BY <1>1 DEF Visible, Put
    <3>2. Computed(r)
      BY <1>1 DEF PaymentsInv, PaymentJobs
    <3>3. financial'[c].paid = tx[r].paid /\ financial'[c].latest = tx[r].latest
      BY <1>1, <2>1 DEF PaymentsInv, PaymentsTypeOK
    <3>. QED  BY <2>1, <3>1, <3>2, <3>3 DEF Computed
  <2>2. CASE c # b
    <3>1. p \in DOMAIN collection => collection[p].booking # c
      BY <1>1, <1>4, <1>6, <2>2
    <3>2. SameRows(collection, collection', c)
      BY <1>1, <2>2, <3>1, OtherRows
    <3>3. Latest(collection', c) = Latest(collection, c)
      <4>1. Ordered(collection) /\ IsFiniteSet(DOMAIN collection) /\ OneEach(collection)
        BY RowsTyped DEF PaymentsInv, PaymentRows, ReceiptsNumbered, OneEach
      <4>2. Ordered(collection') /\ IsFiniteSet(DOMAIN collection')
        BY <1>8
      <4>. QED  BY <3>2, <4>1, <4>2, SameLatest
    <3>4. financial'[c] = financial[c]
      BY <1>1, <2>2 DEF PaymentsInv, PaymentsTypeOK
    <3>. QED  BY <3>2, <3>3, <3>4 DEF PaymentsInv, SnapshotAgrees, SameRows
  <2>. QED  BY <2>1, <2>2
<1>13. ReceiptsNumbered'
  <2>1. CASE tx[r].op = "collect"
    <3>1. /\ DOMAIN collection' = DOMAIN collection \cup {p} /\ collection'[p].receipt = sequence
          /\ \A q \in DOMAIN collection : collection'[q] = collection[q]
          /\ sequence' = sequence + 1 /\ sequence \in Nat \ {0}
      BY <1>1, <1>4, <2>1 DEF Put, PaymentsInv, PaymentsTypeOK
    <3>2. {collection[q].receipt : q \in DOMAIN collection} = 1 .. sequence - 1
      BY DEF PaymentsInv, ReceiptsNumbered
    <3>3. \A q \in DOMAIN collection : collection[q].receipt # sequence
      BY <3>1, <3>2
    <3>4. \A q, s \in DOMAIN collection' : collection'[q].receipt = collection'[s].receipt => q = s
      BY <3>1, <3>3 DEF PaymentsInv, ReceiptsNumbered
    <3>5. {collection'[q].receipt : q \in DOMAIN collection'}
             = {collection[q].receipt : q \in DOMAIN collection} \cup {sequence}
      BY <3>1
    <3>6. 1 .. sequence' - 1 = (1 .. sequence - 1) \cup {sequence}
      BY <3>1
    <3>. QED  BY <3>2, <3>4, <3>5, <3>6 DEF ReceiptsNumbered
  <2>2. CASE tx[r].op = "void"
    <3>1. /\ DOMAIN collection' = DOMAIN collection /\ sequence' = sequence
          /\ \A q \in DOMAIN collection : collection'[q].receipt = collection[q].receipt
      BY <1>1, <1>5, <1>6, <2>2 DEF Put
    <3>. QED  BY <3>1 DEF PaymentsInv, ReceiptsNumbered
  <2>. QED  BY <1>1, <2>1, <2>2
<1>14. NoneOverpaid'
  <2>. SUFFICES ASSUME NEW c \in Booking \ OneToOne
                PROVE  CollectedOf(collection', c) <= financial'[c].quoted + OverOf(collection', c)
    BY DEF NoneOverpaid, Covered
  <2>1. /\ CollectedOf(collection, c) \in Nat /\ OverOf(collection, c) \in Nat
        /\ CollectedOf(collection', c) \in Nat /\ OverOf(collection', c) \in Nat
    <3>1. Amounts(collection')
      BY <1>8, PaymentsAssumption DEF Amounts, Collection
    <3>. QED  BY <1>8, <3>1, RowsTyped, SumsNat DEF PaymentsInv, PaymentRows
  <2>2. /\ CollectedOf(collection, c) <= financial[c].quoted + OverOf(collection, c)
        /\ financial[c].quoted \in Nat
    BY DEF PaymentsInv, NoneOverpaid, Covered, PaymentsTypeOK, Financial
  <2>3. CASE b # c
    <3>1. financial'[c] = financial[c]
      BY <1>1, <2>3 DEF PaymentsInv, PaymentsTypeOK
    <3>. QED  BY <1>1, <2>2, <2>3, <3>1, SumsAfter
  <2>4. CASE b = c /\ tx[r].op = "collect"
    BY <2>4, CommitCovers
  <2>5. CASE b = c /\ tx[r].op = "void"
    <3>1. PICK amount, over \in Nat :
                    /\ over < amount
                    /\ CollectedOf(collection, c) = CollectedOf(collection', c) + amount
                    /\ OverOf(collection, c) = OverOf(collection', c) + over
      BY <1>1, <2>5, SumsAfter
    <3>2. financial'[c].quoted = financial[c].quoted
      BY <1>1, <1>5, <2>5 DEF PaymentsInv, PaymentsTypeOK
    <3>. QED  BY <2>1, <2>2, <3>1, <3>2
  <2>. QED  BY <1>1, <2>3, <2>4, <2>5
<1>. QED  BY <1>9, <1>10, <1>11, <1>12, <1>13, <1>14 DEF PaymentsInv
----------------------------------------------------------------------------
(* What the desk does *)

LEMMA DeskKeeps ==
    ASSUME PaymentsInv, AtDesk, financial' \in [Booking -> Financial],
           status' \in [Booking -> {"awaiting", "collectible", "no_show"}],
           archived' \subseteq Booking, lockedUntil' \in 0 .. LastDay,
           \A b \in Booking :
              /\ financial'[b].paid = financial[b].paid /\ financial'[b].latest = financial[b].latest
              /\ status[b] # "awaiting" => status'[b] # "awaiting"
              /\ \/ status[b] = "awaiting" \/ financial'[b].quoted = financial[b].quoted
                 \/ b \in OneToOne /\ RowFree(Request, b),
           driver = "postgres" => \A r \in Request :
              tx[r].op = "collect" /\ tx[r].row.booking \in archived'
                  => tx[r].row.booking \in archived
    PROVE  PaymentsInv'
<1>1. /\ UNCHANGED <<collection, sequence>> /\ DOMAIN tx' = Request /\ UNCHANGED driver
      /\ \A k \in Request : tx'[k] = Idle \/ tx'[k] = tx[k]
      /\ driver = "sqlite" => \A k \in Request : tx'[k] = Idle
  BY DEF AtDesk, End, Overtaken
<1>2. PaymentJobs'
  <2>. SUFFICES ASSUME NEW k \in Request, tx'[k] = tx[k], tx[k] # Idle
                PROVE  /\ tx[k].op = "collect" => CollectJob(k)'
                       /\ tx[k].op = "void" => VoidJob(k)'
                       /\ driver = "sqlite" /\ HasWritten(k) => Computed(k)'
    BY <1>1, JobsKept
  <2>1. driver = "postgres" /\ tx[k] \in PaymentRequest
    BY <1>1 DEF PaymentsInv, PaymentJobs
  <2>2. ASSUME tx[k].op = "collect" PROVE CollectJob(k)'
    <3>1. CollectJob(k) /\ tx[k].row.booking \in Booking
      BY <2>1, <2>2 DEF PaymentsInv, PaymentJobs, PaymentRequest, Collection
    <3>2. financial'[tx[k].row.booking].quoted = financial[tx[k].row.booking].quoted
      BY <2>1, <2>2, <3>1 DEF CollectJob, RowFree
    <3>3. Fits(k)'
      BY <1>1, <3>1, <3>2 DEF CollectJob, Fits
    <3>. QED  BY <1>1, <2>1, <2>2, <3>1, <3>3 DEF CollectJob
  <2>3. ASSUME tx[k].op = "void" PROVE VoidJob(k)'
    BY <1>1, <2>1, <2>3 DEF PaymentsInv, PaymentJobs, VoidJob
  <2>. QED  BY <2>1, <2>2, <2>3
<1>3. PaymentsTypeOK'
  <2>1. \A k \in Request : tx'[k].op \in {"collect", "void"} => tx'[k] \in PaymentRequest
    BY <1>2 DEF PaymentJobs, Idle
  <2>. QED  BY <1>1, <2>1 DEF PaymentsInv, PaymentsTypeOK
<1>4. PaymentRows'
  BY <1>1 DEF PaymentsInv, PaymentRows, PaymentsTypeOK, Collection
<1>5. SnapshotAgrees'
  BY <1>1 DEF PaymentsInv, SnapshotAgrees
<1>6. ReceiptsNumbered'
  BY <1>1 DEF PaymentsInv, ReceiptsNumbered
<1>7. NoneOverpaid'
  <2>. SUFFICES ASSUME NEW b \in Booking \ OneToOne
                PROVE  CollectedOf(collection, b) <= financial'[b].quoted + OverOf(collection, b)
    BY <1>1 DEF NoneOverpaid, Covered
  <2>1. CASE status[b] = "awaiting"
    <3>1. Active(collection, b) = {}
      BY <2>1 DEF PaymentsInv, PaymentRows, Active
    <3>2. CollectedOf(collection, b) = 0 /\ OverOf(collection, b) = 0
      BY <3>1, SumEmpty DEF CollectedOf, OverOf
    <3>. QED  BY <3>2 DEF Financial
  <2>2. CASE status[b] # "awaiting"
    BY <2>2 DEF PaymentsInv, NoneOverpaid, Covered
  <2>. QED  BY <2>1, <2>2
<1>. QED  BY <1>2, <1>3, <1>4, <1>5, <1>6, <1>7 DEF PaymentsInv

LEMMA DeskStepsKeep ==
    ASSUME PaymentsInv,
           \/ \E b \in Booking : \/ \E price \in 1 .. MaxPrice : Confirm(b, price)
                               \/ NoShow(b) \/ Archive(b) \/ Restore(b)
           \/ \E b \in OneToOne, price \in 0 .. MaxPrice : EditPackage(b, price)
           \/ \E day \in 0 .. LastDay : LockPeriod(day)
    PROVE  PaymentsInv'
<1>1. ASSUME NEW b \in Booking, NEW price \in 1 .. MaxPrice, Confirm(b, price)
      PROVE  PaymentsInv'
  BY <1>1, DeskKeeps DEF Confirm, PaymentsInv, PaymentsTypeOK, Financial
<1>2. ASSUME NEW b \in Booking, NoShow(b) PROVE PaymentsInv'
  BY <1>2, DeskKeeps DEF NoShow, PaymentsInv, PaymentsTypeOK
<1>3. ASSUME NEW b \in Booking, Archive(b) PROVE PaymentsInv'
  BY <1>3, DeskKeeps DEF Archive, RowFree, PaymentsInv, PaymentsTypeOK
<1>4. ASSUME NEW b \in Booking, Restore(b) PROVE PaymentsInv'
  BY <1>4, DeskKeeps DEF Restore, PaymentsInv, PaymentsTypeOK
<1>5. ASSUME NEW day \in 0 .. LastDay, LockPeriod(day) PROVE PaymentsInv'
  BY <1>5, DeskKeeps DEF LockPeriod, PaymentsInv, PaymentsTypeOK
<1>6. ASSUME NEW b \in OneToOne, NEW price \in 0 .. MaxPrice, EditPackage(b, price)
      PROVE  PaymentsInv'
  <2>1. b \in Booking
    BY PaymentsAssumption
  <2>2. /\ AtDesk /\ UNCHANGED desk /\ RowFree(Request, b)
        /\ financial' = [financial EXCEPT ![b].quoted = price]
    BY <1>6 DEF EditPackage, Requote
  <2>3. financial \in [Booking -> Financial]
    BY DEF PaymentsInv, PaymentsTypeOK
  <2>4. /\ financial' \in [Booking -> Financial]
        /\ \A c \in Booking : /\ financial'[c].paid = financial[c].paid
                               /\ financial'[c].latest = financial[c].latest
                               /\ c # b => financial'[c].quoted = financial[c].quoted
    BY <2>1, <2>2, <2>3 DEF Financial
  <2>. QED  BY <1>6, <2>2, <2>4, DeskKeeps DEF desk, PaymentsInv, PaymentsTypeOK
<1>. QED  BY <1>1, <1>2, <1>3, <1>4, <1>5, <1>6

LEMMA PaymentsStepKeeps == PaymentsInv /\ [PaymentsNext]_<<driver, tx, payments>> => PaymentsInv'
<1>. SUFFICES ASSUME PaymentsInv, [PaymentsNext]_<<driver, tx, payments>> PROVE PaymentsInv'
  OBVIOUS
<1>1. CASE UNCHANGED <<driver, tx, payments>>
  <2>1. PaymentJobs'
    <3>1. ASSUME NEW k \in Request
          PROVE  /\ tx[k].op = "collect" => CollectJob(k)'
                 /\ tx[k].op = "void" => VoidJob(k)'
                 /\ driver = "sqlite" /\ HasWritten(k) => Computed(k)'
      <4>1. tx[k].op = "collect" => CollectJob(k)'
        BY <1>1 DEF PaymentsInv, PaymentJobs, CollectJob, Fits, payments, records, desk
      <4>2. tx[k].op = "void" => VoidJob(k)'
        BY <1>1 DEF PaymentsInv, PaymentJobs, VoidJob, payments, records, desk
      <4>3. driver = "sqlite" /\ HasWritten(k) => Computed(k)'
        BY <1>1 DEF PaymentsInv, PaymentJobs, Computed, Visible, payments, records, desk
      <4>. QED  BY <4>1, <4>2, <4>3
    <3>2. DOMAIN tx' = Request /\ \A k \in Request : tx'[k] = tx[k]
      BY <1>1 DEF PaymentsInv, PaymentJobs
    <3>. QED  BY <1>1, <3>1, <3>2, JobsKept
  <2>. QED  BY <1>1, <2>1, QuietTables
<1>2. CASE PaymentsNext
  BY <1>2, BeginCollectKeeps, BeginVoidKeeps, WriteCollectKeeps, WriteVoidKeeps, CommitKeeps,
     GiveUpKeeps, DeskStepsKeep DEF PaymentsNext
<1>. QED  BY <1>1, <1>2

LEMMA PaymentsInvHolds == PaymentsSpec => []PaymentsInv
  BY PaymentsStepKeeps, PaymentsInitHolds, PTL DEF PaymentsSpec

LEMMA PaymentsInvTyped == PaymentsInv => PaymentsTypeOK
  BY DEF PaymentsInv

\* The payments of a booking have their types, for any number of bookings,
\* payments and cashiers: in particular every receipt has a number, and a request
\* to collect or to void never holds more than one payment of the booking.
THEOREM PaymentsTyped == PaymentsSpec => []PaymentsTypeOK
  BY PaymentsInvTyped, PaymentsInvHolds, PTL

\* However payments and voids interleave on SQLite, the snapshot beside a booking
\* (paid, and the transaction behind it) is the one that its collections give:
\* refreshBookingFinancialsTx runs in the transaction that changes them.
THEOREM SnapshotsAgree == PaymentsSpec => []SnapshotAgrees
<1>1. PaymentsInv => SnapshotAgrees
  BY DEF PaymentsInv
<1>. QED  BY <1>1, PaymentsInvHolds, PTL

\* On both drivers receipt numbers are unique and have no gap, whichever of the
\* transactions that draw one commit: nextReceiptNumberTx keeps the sequence's
\* row until then.
THEOREM ReceiptsAreNumbered == PaymentsSpec => []ReceiptsNumbered
<1>1. PaymentsInv => ReceiptsNumbered
  BY DEF PaymentsInv
<1>. QED  BY <1>1, PaymentsInvHolds, PTL

LEMMA CoveredIs ==
    PaymentsInv => \A b \in Booking : WithinQuote(b) <=> Covered(b)
<1> SUFFICES ASSUME PaymentsInv, NEW b \in Booking PROVE WithinQuote(b) <=> Covered(b)
  OBVIOUS
<1>1. IsFiniteSet(DOMAIN collection)
  BY DEF PaymentsInv, PaymentRows
<1>. QED  BY <1>1, CollectedIs, OverIs DEF WithinQuote, Covered, Approved

\* Only commits change the collections.
LEMMA CommitsCollect ==
    ASSUME PaymentsNext, collection' # collection
    PROVE  \E r \in Request : CommitPayment(r)
<1>1. ~UNCHANGED payments
  BY DEF payments, records
<1>2. \A r \in Request, b \in Booking : ~BeginCollect(r, b)
  BY <1>1 DEF BeginCollect, Begin
<1>3. \A r \in Request, p \in DOMAIN collection : ~BeginVoid(r, p)
  BY <1>1 DEF BeginVoid, Begin
<1>4. \A r \in Request : ~GiveUpPayment(r) /\ ~WriteVoid(r)
  BY <1>1 DEF GiveUpPayment, WriteVoid, Write
<1>5. \A r \in Request, p \in Payment : ~WriteCollect(r, p)
  BY <1>1 DEF WriteCollect, Write
<1>6. ~AtDesk
  BY DEF AtDesk
<1>. QED  BY <1>2, <1>3, <1>4, <1>5, <1>6
          DEF PaymentsNext, Confirm, NoShow, Archive, Restore, EditPackage, LockPeriod

\* A payment that commits leaves no more collected for its booking than is quoted
\* and approved on top of it, whatever is collected, voided, settled and repriced
\* at the same time, on both drivers: SQLite serializes the transactions,
\* PostgreSQL locks the booking's row.  Of a booking whose price is not edited,
\* any but that of a one-to-one package, this is so all the time.
THEOREM NothingOverpaid == PaymentsSpec => OnlyApprovedOverpayment
<1> DEFINE W == \A b \in Booking : WithinQuote(b) <=> Covered(b)
           P == \A b \in Booking \ OneToOne : WithinQuote(b)
           A == \A b \in Booking :
                   (\E p \in DOMAIN collection' \ DOMAIN collection : collection'[p].booking = b)
                   => WithinQuote(b)'
<1>1. PaymentsInv => P
  BY CoveredIs DEF PaymentsInv, NoneOverpaid
<1>2. PaymentsInv => W
  BY CoveredIs
<1>3. PaymentsInv /\ W' /\ [PaymentsNext]_<<driver, tx, payments>> => [A]_<<tx, payments>>
  <2>. SUFFICES ASSUME PaymentsInv, W', PaymentsNext, NEW b \in Booking,
                       NEW p \in DOMAIN collection' \ DOMAIN collection, collection'[p].booking = b
                PROVE  WithinQuote(b)'
    BY DEF payments, records
  <2>1. PICK r \in Request : CommitPayment(r)
    BY CommitsCollect
  <2>2. /\ tx[r].op \in {"collect", "void"} /\ tx[r].phase = "written"
        /\ collection' = Put(collection, tx[r].payment, tx[r].row)
    BY <2>1 DEF CommitPayment, Put
  <2>3. tx[r].payment = p /\ tx[r].row.booking = b
    BY <2>2 DEF Put
  <2>4. tx[r].op = "collect"
    BY <2>2, <2>3 DEF PaymentsInv, PaymentJobs, VoidJob
  <2>5. Covered(b)'
    BY <2>1, <2>3, <2>4, CommitCovers DEF Covered
  <2>. QED  BY <2>5
<1> HIDE DEF W, P, A
<1>4. PaymentsInv' => W'
  BY <1>2, PTL
<1>5. PaymentsSpec => []P /\ [][A]_<<tx, payments>>
  BY <1>1, <1>3, <1>4, PaymentsInvHolds, PTL DEF PaymentsSpec
<1>. QED  BY <1>5 DEF OnlyApprovedOverpayment, P, A

\* What is closed stays closed: archived bookings get no payment, the first void
\* of a payment stays, and on SQLite so do the payments of a locked period.
THEOREM ClosedPaymentsStay == PaymentsSpec => ClosedStaysClosed
<1> DEFINE A == /\ \A p \in DOMAIN collection' \ DOMAIN collection :
                      collection'[p].booking \notin archived
                /\ \A p \in DOMAIN collection :
                      \/ collection[p].voidedBy # None
                      \/ driver = "sqlite" /\ collection[p].day <= lockedUntil
                      => collection'[p] = collection[p]
<1>1. PaymentsInv /\ [PaymentsNext]_<<driver, tx, payments>> => [A]_<<tx, payments>>
  <2>. SUFFICES ASSUME PaymentsInv, PaymentsNext, collection' # collection PROVE A
    BY DEF payments, records
  <2>1. PICK r \in Request : CommitPayment(r)
    BY CommitsCollect
  <2>2. /\ tx[r].op \in {"collect", "void"} /\ tx[r].phase = "written"
        /\ collection' = Put(collection, tx[r].payment, tx[r].row)
    BY <2>1 DEF CommitPayment, Put
  <2>3. CASE tx[r].op = "collect"
    <3>1. tx[r].payment \notin DOMAIN collection /\ tx[r].row.booking \notin archived
      BY <2>2, <2>3 DEF PaymentsInv, PaymentJobs, CollectJob
    <3>. QED  BY <2>2, <3>1 DEF Put
  <2>4. CASE tx[r].op = "void"
    <3>1. /\ tx[r].payment \in DOMAIN collection /\ collection[tx[r].payment].voidedBy = None
          /\ tx[r].row.day = collection[tx[r].payment].day
          /\ driver = "sqlite" => tx[r].row.day > lockedUntil
      BY <2>2, <2>4 DEF PaymentsInv, PaymentJobs, VoidJob, PaymentsTypeOK, Collection
    <3>2. tx[r].row.day \in Int /\ lockedUntil \in Int
      BY <2>2, <2>4, PaymentsAssumption DEF PaymentsInv, PaymentsTypeOK, PaymentRequest, Collection, Day
    <3>. QED  BY <2>2, <3>1, <3>2 DEF Put
  <2>. QED  BY <2>2, <2>3, <2>4
<1>. QED  BY <1>1, PaymentsInvHolds, PTL DEF PaymentsSpec, ClosedStaysClosed
----------------------------------------------------------------------------
(***************************************************************************)
(* One-to-one packages (OneToOnePackages)                                  *)
(***************************************************************************)

packageVars == <<driver, tx, payments, packages>>

PackagesSpec == InitRequests /\ PaymentsInit /\ PackagesInit /\ [][PackagesNext]_packageVars

Scheduling == {"packaged", "counted", "numbered"}
Finishing  == {"complete", "cancel", "attend"}

\* What is known of the session that r finishes, and of what r has written.
SessionJob(r) ==
    LET n == tx[r].number
    IN  /\ n \in DOMAIN session /\ tx[r].seen \in {"scheduled", "completed"}
        /\ tx[r].seen = "completed" => session[n].status # "scheduled"
        /\ driver = "sqlite" => tx[r].seen = session[n].status
        /\ tx[r].phase = "written" =>
              /\ tx[r].row = Edited(session[n], tx[r])
              /\ driver = "sqlite" /\ tx[r].seen # "completed" =>
                    tx[r].progress = Refreshed([session EXCEPT ![n] = tx[r].row], package.purchased)

PackageJob(r) ==
    /\ tx[r].op = "schedule" <=> tx[r].phase \in Scheduling
    /\ tx[r].op = "resize" <=> tx[r].phase = "checked"
    /\ tx[r].op = "resize" => tx[r].purchased # 0
    /\ tx[r].phase = "numbered" => tx[r].number \in 1 .. Len(session) + 1
    /\ tx[r].op \in Finishing => SessionJob(r)

PackageJobs ==
    /\ driver \in {"sqlite", "postgres"}
    /\ DOMAIN tx = Request
    /\ \A r \in Request : tx[r] = Idle \/ (tx[r] \in PackageRequest /\ PackageJob(r))
    /\ \A r, k \in Request :
          r # k /\ In(r, "written") /\ In(k, "written")
              => driver = "postgres" /\ tx[r].number # tx[k].number

PackageRows ==
    /\ package \in Package
    /\ session \in Seq(Session) /\ Len(session) <= MaxNumber

PackagesInv == PackageRows /\ PackageJobs /\ ProgressSynchronized
----------------------------------------------------------------------------
(* Rows *)

LEMMA RefreshedTyped ==
    ASSUME NEW rows \in Seq(Session), Len(rows) <= MaxNumber, NEW n \in 1 .. MaxSessions
    PROVE  Refreshed(rows, n) \in Package /\ Refreshed(rows, n).purchased = n
<1>1. DOMAIN rows = 1 .. Len(rows) /\ Len(rows) \in Nat
  OBVIOUS
<1>2. IsFiniteSet(1 .. Len(rows)) /\ Cardinality(1 .. Len(rows)) = Len(rows)
  <2> DEFINE m == Len(rows)
  <2>1. m \in Nat
    BY <1>1
  <2> HIDE DEF m
  <2>2. IsFiniteSet(1 .. m) /\ Cardinality(1 .. m) = IF 1 > m THEN 0 ELSE m - 1 + 1
    BY <2>1, FS_Interval
  <2>3. Cardinality(1 .. m) = m
    BY <2>1, <2>2
  <2>. QED  BY <2>2, <2>3 DEF m
<1>3. ASSUME NEW s PROVE Cardinality(WithStatus(rows, s)) \in 0 .. MaxNumber
  <2>1. WithStatus(rows, s) \subseteq 1 .. Len(rows)
    BY <1>1 DEF WithStatus
  <2>2. /\ Cardinality(WithStatus(rows, s)) <= Len(rows)
        /\ Cardinality(WithStatus(rows, s)) \in Nat
    BY <1>2, <2>1, FS_Subset, FS_CardinalityType
  <2>. QED  BY <1>1, <2>2, PackagesAssumption
<1>. QED  BY <1>3 DEF Refreshed, Package

\* The counters look at the status of the sessions, and at nothing else.
LEMMA SameProgress ==
    ASSUME NEW rows, NEW new, NEW n,
           \A s \in {"completed", "cancelled"} : WithStatus(new, s) = WithStatus(rows, s)
    PROVE  Refreshed(new, n) = Refreshed(rows, n)
  BY DEF Refreshed

LEMMA ScheduledTyped == Scheduled \in Session
  BY DEF Scheduled, Session

LEMMA EditedTyped ==
    ASSUME NEW row \in Session, NEW j, j.op \in Finishing
    PROVE  /\ Edited(row, j) \in Session
           /\ j.seen = "completed" => Edited(row, j).status = row.status
           /\ j.seen # "completed" => Edited(row, j).status # "scheduled"
<1> DEFINE marked == [row EXCEPT !.attended = @ \/ j.op = "attend"]
<1>1. marked \in Session /\ marked.status = row.status
  BY DEF Session
<1>2. Edited(row, j) = IF j.seen = "completed" THEN marked
        ELSE [marked EXCEPT !.status = Outcome(j.op), !.appointment = Outcome(j.op)]
  BY DEF Edited
<1>3. Outcome(j.op) \in {"completed", "cancelled"}
  BY DEF Outcome
<1> HIDE DEF marked
<1>. QED  BY <1>1, <1>2, <1>3 DEF Session
----------------------------------------------------------------------------
LEMMA PackagesInitHolds == InitRequests /\ PackagesInit => PackagesInv
<1> SUFFICES ASSUME InitRequests, PackagesInit PROVE PackagesInv
  OBVIOUS
<1>1. session = <<Scheduled>> /\ Scheduled \in Session
  BY DEF PackagesInit, Scheduled, Session
<1>2. session \in Seq(Session) /\ Len(session) = 1
  BY <1>1
<1>3. PICK n \in 1 .. MaxSessions : package = Refreshed(session, n)
  BY <1>1 DEF PackagesInit
<1>4. package \in Package /\ package.purchased = n
  <2>1. Len(session) <= MaxNumber
    BY <1>2, PackagesAssumption
  <2>. QED  BY <1>2, <1>3, <2>1, RefreshedTyped
<1>5. PackageJobs
  BY DEF InitRequests, PackageJobs, In, IsOpen, Idle
<1>. QED  BY <1>2, <1>3, <1>4, <1>5, PackagesAssumption
          DEF PackagesInv, PackageRows, ProgressSynchronized

\* One request goes on; the tables stay.
LEMMA OnePackageJob ==
    ASSUME PackagesInv, UNCHANGED <<driver, packages>>, NEW r \in Request, NEW j,
           tx' = [tx EXCEPT ![r] = j], j \in PackageRequest, PackageJob(r)',
           j.phase = "written" => \A k \in Request \ {r} :
               In(k, "written") => driver = "postgres" /\ tx[k].number # j.number
    PROVE  PackagesInv'
<1>1. DOMAIN tx = Request /\ tx'[r] = j /\ \A k \in Request \ {r} : tx'[k] = tx[k]
  BY DEF PackagesInv, PackageJobs
<1>2. ASSUME NEW k \in Request
      PROVE  tx'[k] = Idle \/ (tx'[k] \in PackageRequest /\ PackageJob(k)')
  <2>1. CASE k = r
    BY <1>1, <2>1
  <2>2. CASE k # r
    <3>1. tx'[k] = tx[k] /\ (tx[k] = Idle \/ (tx[k] \in PackageRequest /\ PackageJob(k)))
      BY <1>1, <2>2 DEF PackagesInv, PackageJobs
    <3>2. SessionJob(k) => SessionJob(k)'
      BY <3>1 DEF SessionJob, packages
    <3>. QED  BY <3>1, <3>2 DEF PackageJob, packages
  <2>. QED  BY <2>1, <2>2
<1>3. ASSUME NEW k \in Request, NEW l \in Request, k # l, In(k, "written")', In(l, "written")'
      PROVE  driver' = "postgres" /\ tx'[k].number # tx'[l].number
  <2>1. \A i \in Request \ {r} : In(i, "written")' <=> In(i, "written")
    BY <1>1 DEF In, IsOpen
  <2>2. In(r, "written")' => j.phase = "written"
    BY <1>1 DEF In
  <2>3. CASE k # r /\ l # r
    BY <1>1, <1>3, <2>1, <2>3 DEF PackagesInv, PackageJobs
  <2>4. CASE k = r \/ l = r
    BY <1>1, <1>3, <2>1, <2>2, <2>4
  <2>. QED  BY <2>3, <2>4
<1>4. PackageJobs'
  BY <1>1, <1>2, <1>3 DEF PackageJobs, PackagesInv
<1>5. PackageRows' /\ ProgressSynchronized'
  BY DEF PackagesInv, PackageRows, ProgressSynchronized, packages
<1>. QED  BY <1>4, <1>5 DEF PackagesInv
----------------------------------------------------------------------------
(* Steps of one request that leave the tables alone *)

LEMMA OpenRequest ==
    ASSUME PackagesInv, NEW r \in Request, NEW phase, In(r, phase)
    PROVE  tx[r] \in PackageRequest /\ PackageJob(r) /\ tx[r].phase = phase
  BY DEF In, IsOpen, Idle, PackagesInv, PackageJobs

LEMMA SchedulingKeeps ==
    ASSUME PackagesInv, NEW r \in Request, ReadPackage(r) \/ CountSessions(r) \/ ReadNumber(r)
    PROVE  PackagesInv'
<1>0. DOMAIN tx = Request /\ package \in Package /\ session \in Seq(Session)
  BY DEF PackagesInv, PackageJobs, PackageRows
<1>1. CASE ReadPackage(r)
  <2> DEFINE j == [phase |-> "packaged", op |-> "schedule", purchased |-> package.purchased,
                   number |-> 0, seen |-> "", row |-> Scheduled, progress |-> package]
  <2>1. tx' = [tx EXCEPT ![r] = j] /\ UNCHANGED <<driver, packages>> /\ tx'[r] = j
    BY <1>0, <1>1 DEF ReadPackage, Start, Look
  <2>2. j \in PackageRequest
    BY <1>0, PackagesAssumption DEF PackageRequest, Package, Session, Scheduled
  <2>3. j.op = "schedule" /\ j.phase = "packaged"
    OBVIOUS
  <2> HIDE DEF j
  <2>4. PackageJob(r)'
    BY <2>1, <2>3 DEF PackageJob, Scheduling, Finishing
  <2>. QED  BY <2>1, <2>2, <2>3, <2>4, OnePackageJob
<1>2. CASE CountSessions(r)
  <2> DEFINE j == [tx[r] EXCEPT !.phase = "counted"]
  <2>1. /\ tx' = [tx EXCEPT ![r] = j] /\ UNCHANGED <<driver, packages>> /\ tx'[r] = j
        /\ In(r, "packaged")
    BY <1>0, <1>2 DEF CountSessions, Go, Proceed
  <2>2. tx[r] \in PackageRequest /\ PackageJob(r) /\ tx[r].phase = "packaged"
    BY <2>1, OpenRequest
  <2>3. j \in PackageRequest /\ j.phase = "counted" /\ j.op = tx[r].op
    BY <2>2 DEF PackageRequest
  <2>4. PackageJob(r)'
    BY <2>1, <2>2, <2>3 DEF PackageJob, Scheduling, Finishing
  <2> HIDE DEF j
  <2>. QED  BY <2>1, <2>3, <2>4, OnePackageJob
<1>3. CASE ReadNumber(r)
  <2> DEFINE j == [tx[r] EXCEPT !.number = LastNumber + 1, !.phase = "numbered"]
  <2>1. /\ tx' = [tx EXCEPT ![r] = j] /\ UNCHANGED <<driver, packages>> /\ tx'[r] = j
        /\ In(r, "counted") /\ LastNumber < MaxNumber
    BY <1>0, <1>3 DEF ReadNumber, Go, Proceed
  <2>2. tx[r] \in PackageRequest /\ PackageJob(r) /\ tx[r].phase = "counted"
    BY <2>1, OpenRequest
  <2>3. LastNumber = Len(session) /\ LastNumber \in Nat /\ LastNumber + 1 \in 0 .. MaxNumber
    BY <1>0, <2>1, PackagesAssumption DEF LastNumber
  <2>4. /\ j \in PackageRequest /\ j.phase = "numbered" /\ j.op = tx[r].op
        /\ j.number = LastNumber + 1
    BY <2>2, <2>3 DEF PackageRequest
  <2>5. UNCHANGED session
    BY <2>1 DEF packages
  <2> HIDE DEF j
  <2>6. PackageJob(r)'
    BY <2>1, <2>2, <2>3, <2>4, <2>5 DEF PackageJob, Scheduling, Finishing
  <2>. QED  BY <2>1, <2>4, <2>6, OnePackageJob
<1>. QED  BY <1>1, <1>2, <1>3

LEMMA ReadForResizeKeeps ==
    ASSUME PackagesInv, NEW r \in Request, NEW n \in 1 .. MaxSessions, ReadForResize(r, n)
    PROVE  PackagesInv'
<1> DEFINE j == [phase |-> "checked", op |-> "resize", purchased |-> n,
                 number |-> 0, seen |-> "", row |-> Scheduled, progress |-> package]
<1>1. tx' = [tx EXCEPT ![r] = j] /\ UNCHANGED <<driver, packages>> /\ tx'[r] = j
  BY DEF ReadForResize, Start, Look, PackagesInv, PackageJobs
<1>2. j \in PackageRequest
  BY PackagesAssumption DEF PackageRequest, Session, Scheduled, PackagesInv, PackageRows
<1>3. j.op = "resize" /\ j.phase = "checked" /\ j.purchased # 0
  OBVIOUS
<1> HIDE DEF j
<1>4. PackageJob(r)'
  BY <1>1, <1>3 DEF PackageJob, Scheduling, Finishing
<1>. QED  BY <1>1, <1>2, <1>3, <1>4, OnePackageJob

LEMMA LookKeeps ==
    ASSUME PackagesInv, NEW r \in Request, NEW n \in DOMAIN session,
           LookToComplete(r, n) \/ LookToCancel(r, n) \/ LookToAttend(r, n)
    PROVE  PackagesInv'
<1>0. /\ DOMAIN tx = Request /\ package \in Package /\ session[n] \in Session
      /\ n \in 0 .. MaxNumber /\ Len(session) \in Nat
  BY PackagesAssumption DEF PackagesInv, PackageJobs, PackageRows
<1>1. PICK op \in Finishing :
         Start(r, "looked", op, 0, n, session[n].status) /\ session[n].status # "cancelled"
  BY DEF LookToComplete, LookToCancel, LookToAttend, Finishing
<1> DEFINE j == [phase |-> "looked", op |-> op, purchased |-> 0, number |-> n,
                 seen |-> session[n].status, row |-> Scheduled, progress |-> package]
<1>2. tx' = [tx EXCEPT ![r] = j] /\ UNCHANGED <<driver, packages>> /\ tx'[r] = j
  BY <1>0, <1>1 DEF Start, Look
<1>3. session[n].status \in {"scheduled", "completed"}
  BY <1>0, <1>1 DEF Session
<1>4. j \in PackageRequest
  <2>1. op \in {"schedule", "resize", "complete", "cancel", "attend"}
    BY DEF Finishing
  <2>2. 0 \in 0 .. MaxSessions
    BY PackagesAssumption
  <2>3. session[n].status \in {"", "scheduled", "completed"}
    BY <1>3
  <2>. QED  BY <1>0, <2>1, <2>2, <2>3, ScheduledTyped DEF PackageRequest
<1>5. SessionJob(r)'
  BY <1>2, <1>3 DEF SessionJob, packages
<1>6. j.op = op /\ j.phase = "looked"
  OBVIOUS
<1> HIDE DEF j
<1>7. PackageJob(r)'
  BY <1>2, <1>5, <1>6 DEF PackageJob, Scheduling, Finishing
<1>. QED  BY <1>2, <1>4, <1>6, <1>7, OnePackageJob

LEMMA WriteSessionKeeps ==
    ASSUME PackagesInv, NEW r \in Request, WriteSession(r)
    PROVE  PackagesInv'
<1> DEFINE n == tx[r].number
           row == Edited(session[n], tx[r])
           rows == [session EXCEPT ![n] = row]
           j == [tx[r] EXCEPT !.row = row, !.progress = Refreshed(rows, package.purchased),
                              !.phase = "written"]
<1>0. /\ DOMAIN tx = Request /\ package \in Package /\ session \in Seq(Session)
      /\ Len(session) <= MaxNumber
  BY DEF PackagesInv, PackageJobs, PackageRows
<1>1. /\ In(r, "looked") /\ WriterFree(r)
      /\ \A k \in Written(r) : tx[k].number # n
      /\ tx' = [tx EXCEPT ![r] = j] /\ UNCHANGED <<driver, packages>> /\ tx'[r] = j
  BY <1>0 DEF WriteSession, Go, Proceed
<1>2. tx[r] \in PackageRequest /\ PackageJob(r) /\ tx[r].phase = "looked"
  BY <1>1, OpenRequest
<1>3. tx[r].op \in Finishing /\ SessionJob(r)
  BY <1>2 DEF PackageJob, PackageRequest, Scheduling, Finishing
<1>4. n \in DOMAIN session /\ session[n] \in Session
  BY <1>0, <1>3 DEF SessionJob
<1>5. row \in Session
  BY <1>3, <1>4, EditedTyped
<1> HIDE DEF row
<1>6. rows \in Seq(Session) /\ Len(rows) = Len(session)
  BY <1>0, <1>4, <1>5
<1>7. package.purchased \in 1 .. MaxSessions
  BY <1>0 DEF Package
<1>8. Refreshed(rows, package.purchased) \in Package
  <2>. HIDE DEF rows
  <2>. QED  BY <1>0, <1>6, <1>7, RefreshedTyped
<1> HIDE DEF rows
<1>9. /\ j \in PackageRequest /\ j.op = tx[r].op /\ j.phase = "written"
      /\ j.number = n /\ j.seen = tx[r].seen /\ j.row = row
      /\ j.progress = Refreshed(rows, package.purchased)
  BY <1>2, <1>5, <1>8 DEF PackageRequest
<1> HIDE DEF j
<1>10. Edited(session[n], j) = row
  BY <1>9 DEF Edited, row
<1>11. SessionJob(r)'
  BY <1>1, <1>3, <1>9, <1>10 DEF SessionJob, rows, packages
<1>12. PackageJob(r)'
  BY <1>1, <1>3, <1>9, <1>11 DEF PackageJob, Scheduling, Finishing
<1>13. \A k \in Request \ {r} : In(k, "written") => driver = "postgres" /\ tx[k].number # j.number
  BY <1>1, <1>9 DEF WriterFree, Written, PackagesInv, PackageJobs
<1>. QED  BY <1>1, <1>9, <1>12, <1>13, OnePackageJob
----------------------------------------------------------------------------
(* Steps that end requests *)

\* What is left open finds the tables good for it.
LEMMA PackageJobsKept ==
    ASSUME PackagesInv, UNCHANGED driver, DOMAIN tx' = Request,
           \A k \in Request : tx'[k] = Idle \/ tx'[k] = tx[k],
           \A k \in Request : tx'[k] = tx[k] /\ tx[k] # Idle => PackageJob(k)'
    PROVE  PackageJobs'
<1>1. \A k \in Request : In(k, "written")' => tx'[k] = tx[k] /\ In(k, "written")
  BY DEF In, IsOpen, Idle
<1>. QED  BY <1>1 DEF PackageJobs, PackagesInv

LEMMA EndPackageTakes ==
    ASSUME PackagesInv, NEW R \in SUBSET Request, End(Overtaken(NotIsolated) \cup R)
    PROVE  /\ UNCHANGED driver /\ DOMAIN tx' = Request
           /\ \A k \in Request : tx'[k] = Idle \/ (k \notin R /\ tx'[k] = tx[k])
           /\ driver = "sqlite" => \A k \in Request : tx[k].op \in Finishing => tx'[k] = Idle
  BY DEF End, Overtaken, NotIsolated, Finishing

LEMMA InsertSessionKeeps ==
    ASSUME PackagesInv, NEW r \in Request, InsertSession(r)
    PROVE  /\ PackagesInv' /\ Len(session') = Len(session) + 1
           /\ \A n \in DOMAIN session : session'[n] = session[n]
<1>0. /\ package \in Package /\ session \in Seq(Session) /\ Len(session) <= MaxNumber
      /\ Len(session) \in Nat /\ DOMAIN session = 1 .. Len(session)
  BY DEF PackagesInv, PackageRows
<1>1. /\ In(r, "numbered") /\ tx[r].number \notin DOMAIN session
      /\ session' = [n \in DOMAIN session \cup {tx[r].number} |->
                        IF n = tx[r].number THEN Scheduled ELSE session[n]]
      /\ UNCHANGED package
  BY DEF InsertSession, NumberFree
<1>2. tx[r].number = Len(session) + 1 /\ tx[r].number <= MaxNumber
  <2>1. tx[r] \in PackageRequest /\ PackageJob(r) /\ tx[r].phase = "numbered"
    BY <1>1, OpenRequest
  <2>2. tx[r].number \in 1 .. Len(session) + 1 /\ tx[r].number \in 0 .. MaxNumber
    BY <2>1 DEF PackageJob, PackageRequest
  <2>. QED  BY <1>0, <1>1, <2>2
<1>3. /\ DOMAIN session' = 1 .. (Len(session) + 1)
      /\ session' \in [1 .. (Len(session) + 1) -> Session]
      /\ \A n \in DOMAIN session : session'[n] = session[n]
      /\ session'[Len(session) + 1] = Scheduled
  BY <1>0, <1>1, <1>2, ScheduledTyped
<1>4. session' \in Seq(Session) /\ Len(session') = Len(session) + 1
  BY <1>0, <1>3
<1>5. \A s \in {"completed", "cancelled"} : WithStatus(session', s) = WithStatus(session, s)
  BY <1>0, <1>3 DEF WithStatus, Scheduled
<1>6. /\ UNCHANGED driver /\ DOMAIN tx' = Request
      /\ \A k \in Request : tx'[k] = Idle \/ tx'[k] = tx[k]
      /\ driver = "sqlite" => \A k \in Request : tx[k].op \in Finishing => tx'[k] = Idle
  BY EndPackageTakes DEF InsertSession, EndPackage
<1>7. ASSUME NEW k \in Request, tx'[k] = tx[k], tx[k] # Idle PROVE PackageJob(k)'
  <2>1. PackageJob(k) /\ tx[k].op # "idle"
    BY <1>7 DEF PackagesInv, PackageJobs, PackageRequest
  <2>2. tx[k].op \in Finishing => SessionJob(k)'
    BY <1>0, <1>3, <1>6, <1>7, <2>1 DEF PackageJob, SessionJob, Idle
  <2>3. tx[k].phase = "numbered" => tx[k].number \in 1 .. Len(session') + 1
    BY <1>0, <1>4, <2>1 DEF PackageJob
  <2>. QED  BY <1>7, <2>1, <2>2, <2>3 DEF PackageJob
<1>8. PackageJobs'
  BY <1>6, <1>7, PackageJobsKept
<1>9. PackageRows' /\ ProgressSynchronized'
  <2>1. PackageRows'
    BY <1>0, <1>1, <1>2, <1>4 DEF PackageRows
  <2>2. Refreshed(session', package.purchased) = Refreshed(session, package.purchased)
    BY <1>5, SameProgress
  <2>. QED  BY <1>1, <1>6, <2>1, <2>2 DEF ProgressSynchronized, PackagesInv
<1>. QED  BY <1>3, <1>4, <1>8, <1>9 DEF PackagesInv

LEMMA ResizeKeeps ==
    ASSUME PackagesInv, NEW r \in Request, NEW price, Resize(r, price)
    PROVE  PackagesInv'
<1>0. /\ package \in Package /\ session \in Seq(Session) /\ Len(session) <= MaxNumber
  BY DEF PackagesInv, PackageRows
<1>1. /\ In(r, "checked") /\ Written(r) = {} /\ UNCHANGED session
      /\ package' = Refreshed(session, tx[r].purchased)
  BY DEF Resize
<1>2. tx[r].purchased \in 1 .. MaxSessions
  <2>1. tx[r] \in PackageRequest /\ PackageJob(r) /\ tx[r].phase = "checked"
    BY <1>1, OpenRequest
  <2>2. tx[r].purchased # 0 /\ tx[r].purchased \in 0 .. MaxSessions
    BY <2>1 DEF PackageJob, PackageRequest
  <2>. QED  BY <2>2, PackagesAssumption
<1>3. package' \in Package /\ package'.purchased = tx[r].purchased
  BY <1>0, <1>1, <1>2, RefreshedTyped
<1>4. /\ UNCHANGED driver /\ DOMAIN tx' = Request
      /\ \A k \in Request : tx'[k] = Idle \/ tx'[k] = tx[k]
      /\ driver = "sqlite" => \A k \in Request : tx[k].op \in Finishing => tx'[k] = Idle
  BY EndPackageTakes DEF Resize, EndPackage
<1>5. ASSUME NEW k \in Request, tx'[k] = tx[k], tx[k] # Idle PROVE PackageJob(k)'
  <2>1. PackageJob(k)
    BY <1>5 DEF PackagesInv, PackageJobs
  <2>2. tx[k].op \in Finishing => SessionJob(k)'
    BY <1>1, <1>4, <1>5, <2>1 DEF PackageJob, SessionJob
  <2>. QED  BY <1>1, <1>5, <2>1, <2>2 DEF PackageJob
<1>6. PackageJobs'
  BY <1>4, <1>5, PackageJobsKept
<1>7. PackageRows' /\ ProgressSynchronized'
  BY <1>0, <1>1, <1>3 DEF PackageRows, ProgressSynchronized
<1>. QED  BY <1>6, <1>7 DEF PackagesInv

LEMMA CommitSessionKeeps ==
    ASSUME PackagesInv, NEW r \in Request, CommitSession(r)
    PROVE  /\ PackagesInv' /\ Len(session') = Len(session)
           /\ \A n \in DOMAIN session : session[n].status # "scheduled" =>
                 /\ session'[n].status # "scheduled"
                 /\ driver = "sqlite" => session'[n].status = session[n].status
<1> DEFINE n == tx[r].number
           row == tx[r].row
<1>0. /\ package \in Package /\ session \in Seq(Session) /\ Len(session) <= MaxNumber
      /\ Len(session) \in Nat /\ DOMAIN session = 1 .. Len(session)
  BY DEF PackagesInv, PackageRows
<1>1. /\ In(r, "written") /\ session' = [session EXCEPT ![n] = row] /\ package' = Progress(tx[r])
  BY DEF CommitSession
<1>2. tx[r] \in PackageRequest /\ PackageJob(r) /\ tx[r].phase = "written"
  BY <1>1, OpenRequest
<1>3. tx[r].op \in Finishing /\ SessionJob(r)
  BY <1>2 DEF PackageJob, PackageRequest, Scheduling, Finishing
<1>4. n \in DOMAIN session /\ session[n] \in Session /\ row \in Session
  <2>1. n \in DOMAIN session
    BY <1>3 DEF SessionJob
  <2>2. session[n] \in Session
    BY <1>0, <2>1
  <2>3. row \in Session
    BY <1>2 DEF PackageRequest
  <2>. QED  BY <2>1, <2>2, <2>3
<1>5. row = Edited(session[n], tx[r])
  BY <1>2, <1>3 DEF SessionJob
<1>6. /\ tx[r].seen = "completed" => row.status = session[n].status
      /\ tx[r].seen # "completed" => row.status # "scheduled"
  BY <1>3, <1>4, <1>5, EditedTyped
<1> HIDE DEF row
<1>7. session' \in Seq(Session) /\ Len(session') = Len(session)
  BY <1>0, <1>1, <1>4
<1>8. \A m \in DOMAIN session : m # n => session'[m] = session[m]
  BY <1>1
<1>9. session'[n] = row
  BY <1>1, <1>4
<1>10. \A m \in DOMAIN session : session[m].status # "scheduled" =>
                 /\ session'[m].status # "scheduled"
                 /\ driver = "sqlite" => session'[m].status = session[m].status
  BY <1>3, <1>6, <1>8, <1>9 DEF SessionJob
<1>11. package' \in Package
  BY <1>0, <1>1, <1>2 DEF Progress, PackageRequest
<1>12. /\ UNCHANGED driver /\ DOMAIN tx' = Request
       /\ \A k \in Request : tx'[k] = Idle \/ (k # r /\ tx'[k] = tx[k])
       /\ driver = "sqlite" => \A k \in Request : tx[k].op \in Finishing => tx'[k] = Idle
  <2>1. End(Overtaken(NotIsolated) \cup {r})
    BY DEF CommitSession, EndPackage
  <2>. QED  BY <2>1, EndPackageTakes
<1>13. ASSUME NEW k \in Request, tx'[k] = tx[k], tx[k] # Idle PROVE PackageJob(k)'
  <2>1. PackageJob(k) /\ tx[k] \in PackageRequest
    BY <1>13 DEF PackagesInv, PackageJobs
  <2>2. k # r
    BY <1>1, <1>12, <1>13
  <2>3. ASSUME tx[k].op \in Finishing PROVE SessionJob(k)'
    <3>1. driver # "sqlite" /\ SessionJob(k)
      BY <1>12, <1>13, <2>1, <2>3 DEF PackageJob
    <3>2. tx[k].phase = "written" => tx[k].number # n
      <4>1. tx[k].phase = "written" => In(k, "written")
        BY <2>1 DEF In, IsOpen, PackageRequest
      <4>. QED  BY <1>1, <2>2, <4>1 DEF PackagesInv, PackageJobs
    <3>3. tx[k].phase = "written" => session'[tx[k].number] = session[tx[k].number]
      BY <1>8, <3>1, <3>2 DEF SessionJob
    <3>4. DOMAIN session' = DOMAIN session
      BY <1>1
    <3>. QED  BY <1>10, <1>12, <1>13, <3>1, <3>3, <3>4 DEF SessionJob
  <2>. QED  BY <1>7, <1>13, <2>1, <2>3 DEF PackageJob
<1>14. PackageJobs'
  BY <1>12, <1>13, PackageJobsKept
<1>15. ProgressSynchronized'
  <2>. SUFFICES ASSUME driver = "sqlite" PROVE package' = Refreshed(session', package'.purchased)
    BY <1>12 DEF ProgressSynchronized
  <2>1. package = Refreshed(session, package.purchased)
    BY DEF PackagesInv, ProgressSynchronized
  <2>2. CASE tx[r].seen = "completed"
    <3>1. \A m \in DOMAIN session : session'[m].status = session[m].status
      BY <1>6, <1>8, <1>9, <2>2
    <3>2. \A s \in {"completed", "cancelled"} : WithStatus(session', s) = WithStatus(session, s)
      BY <1>1, <3>1 DEF WithStatus
    <3>. QED  BY <1>1, <2>1, <2>2, <3>2, SameProgress DEF Progress
  <2>3. CASE tx[r].seen # "completed"
    <3>1. package' = Refreshed(session', package.purchased)
      BY <1>1, <1>2, <1>3, <2>3 DEF Progress, SessionJob, row
    <3>2. package.purchased \in 1 .. MaxSessions
      BY <1>0 DEF Package
    <3>. QED  BY <1>0, <1>7, <3>1, <3>2, RefreshedTyped
  <2>. QED  BY <2>2, <2>3
<1>. QED  BY <1>0, <1>7, <1>10, <1>11, <1>14, <1>15 DEF PackagesInv, PackageRows

LEMMA CloseAppointmentKeeps ==
    ASSUME PackagesInv, NEW n \in DOMAIN session,
           NEW outcome \in {"cancelled", "completed", "no_show"}, CloseAppointment(n, outcome)
    PROVE  /\ PackagesInv' /\ Len(session') = Len(session)
           /\ \A m \in DOMAIN session : session'[m].status = session[m].status
<1>0. /\ package \in Package /\ session \in Seq(Session) /\ Len(session) <= MaxNumber
      /\ Len(session) \in Nat /\ DOMAIN session = 1 .. Len(session) /\ session[n] \in Session
  BY DEF PackagesInv, PackageRows
<1> DEFINE row == [session[n] EXCEPT !.appointment = outcome]
<1>1. /\ session' = [session EXCEPT ![n] = row] /\ UNCHANGED package
      /\ \A r \in Request : In(r, "written") => driver = "postgres" /\ tx[r].number # n
  BY DEF CloseAppointment
<1>2. row \in Session /\ row.status = session[n].status
  BY <1>0 DEF Session
<1> HIDE DEF row
<1>3. session' \in Seq(Session) /\ Len(session') = Len(session)
  BY <1>0, <1>1, <1>2
<1>4. /\ \A m \in DOMAIN session : m # n => session'[m] = session[m]
      /\ \A m \in DOMAIN session : session'[m].status = session[m].status
      /\ DOMAIN session' = DOMAIN session
  BY <1>1, <1>2
<1>5. \A s \in {"completed", "cancelled"} : WithStatus(session', s) = WithStatus(session, s)
  BY <1>4 DEF WithStatus
<1>6. /\ UNCHANGED driver /\ DOMAIN tx' = Request
      /\ \A k \in Request : tx'[k] = Idle \/ tx'[k] = tx[k]
      /\ driver = "sqlite" => \A k \in Request : tx[k].op \in Finishing => tx'[k] = Idle
  BY DEF CloseAppointment, End, Overtaken, NotIsolated, Finishing
<1>7. ASSUME NEW k \in Request, tx'[k] = tx[k], tx[k] # Idle PROVE PackageJob(k)'
  <2>1. PackageJob(k) /\ tx[k] \in PackageRequest
    BY <1>7 DEF PackagesInv, PackageJobs
  <2>2. ASSUME tx[k].op \in Finishing PROVE SessionJob(k)'
    <3>1. driver # "sqlite" /\ SessionJob(k)
      BY <1>6, <1>7, <2>1, <2>2 DEF PackageJob
    <3>2. tx[k].phase = "written" => session'[tx[k].number] = session[tx[k].number]
      BY <1>1, <1>4, <2>1, <3>1 DEF SessionJob, In, IsOpen, PackageRequest
    <3>. QED  BY <1>4, <1>6, <1>7, <3>1, <3>2 DEF SessionJob
  <2>. QED  BY <1>3, <1>7, <2>1, <2>2 DEF PackageJob
<1>8. PackageJobs'
  BY <1>6, <1>7, PackageJobsKept
<1>9. PackageRows' /\ ProgressSynchronized'
  <2>1. PackageRows'
    BY <1>0, <1>1, <1>3 DEF PackageRows
  <2>2. Refreshed(session', package.purchased) = Refreshed(session, package.purchased)
    BY <1>5, SameProgress
  <2>. QED  BY <1>1, <1>6, <2>1, <2>2 DEF ProgressSynchronized, PackagesInv
<1>. QED  BY <1>3, <1>4, <1>8, <1>9 DEF PackagesInv

LEMMA QuietPackage ==
    ASSUME PackagesInv, UNCHANGED <<driver, packages>>, DOMAIN tx' = Request,
           \A k \in Request : tx'[k] = Idle \/ tx'[k] = tx[k]
    PROVE  PackagesInv'
<1>1. ASSUME NEW k \in Request, tx'[k] = tx[k], tx[k] # Idle PROVE PackageJob(k)'
  <2>1. PackageJob(k)
    BY <1>1 DEF PackagesInv, PackageJobs
  <2>2. SessionJob(k) => SessionJob(k)'
    BY <1>1 DEF SessionJob, packages
  <2>. QED  BY <1>1, <2>1, <2>2 DEF PackageJob, packages
<1>2. PackageJobs'
  BY <1>1, PackageJobsKept
<1>. QED  BY <1>2 DEF PackagesInv, PackageRows, ProgressSynchronized, packages

LEMMA GiveUpSessionKeeps ==
    ASSUME PackagesInv, NEW r \in Request, GiveUpSession(r)
    PROVE  PackagesInv'
  BY QuietPackage DEF GiveUpSession, GiveUp, End

LEMMA PackagesStepKeeps == PackagesInv /\ [PackagesNext]_packageVars => PackagesInv'
<1>. SUFFICES ASSUME PackagesInv, [PackagesNext]_packageVars PROVE PackagesInv'
  OBVIOUS
<1>1. CASE UNCHANGED packageVars
  BY <1>1, QuietPackage DEF packageVars, PackagesInv, PackageJobs
<1>2. CASE PackagesNext
  BY <1>2, SchedulingKeeps, InsertSessionKeeps, ReadForResizeKeeps, ResizeKeeps, LookKeeps,
     WriteSessionKeeps, CommitSessionKeeps, GiveUpSessionKeeps, CloseAppointmentKeeps
     DEF PackagesNext, SessionsNext
<1>. QED  BY <1>1, <1>2

LEMMA PackagesInvHolds == PackagesSpec => []PackagesInv
  BY PackagesStepKeeps, PackagesInitHolds, PTL DEF PackagesSpec

LEMMA PackagesInvTyped == PackagesInv => PackagesTypeOK
<1>. SUFFICES ASSUME PackagesInv PROVE PackagesTypeOK
  OBVIOUS
<1>1. DOMAIN session \subseteq 1 .. MaxNumber /\ session \in [DOMAIN session -> Session]
  BY PackagesAssumption DEF PackagesInv, PackageRows
<1>2. \A r \in Request : tx[r].op \in NotIsolatedEver => tx[r] \in PackageRequest
  BY DEF PackagesInv, PackageJobs, NotIsolatedEver, Idle
<1>. QED  BY <1>1, <1>2 DEF PackagesTypeOK, PackagesInv, PackageRows

\* Packages and their sessions have their types, for any number of administrators
\* and sessions: in particular the counters never exceed the sessions there are,
\* and a request names a session of its package.
THEOREM PackagesTyped == PackagesSpec => []PackagesTypeOK
  BY PackagesInvTyped, PackagesInvHolds, PTL

\* On SQLite the counters and the status of a package are those of its sessions:
\* refreshOneToOnePackageProgressTx runs with every change of a session.
THEOREM ProgressIsSynchronized == PackagesSpec => []ProgressSynchronized
<1>1. PackagesInv => ProgressSynchronized
  BY DEF PackagesInv
<1>. QED  BY <1>1, PackagesInvHolds, PTL

\* Session numbers have no gap and are not used again; a session that is
\* completed or cancelled stays finished, and on SQLite finished in the same way.
THEOREM FinishedSessionsStay == PackagesSpec => FinishedStays
<1> DEFINE A == /\ DOMAIN session' = 1 .. Cardinality(DOMAIN session')
                /\ \A n \in DOMAIN session :
                      session[n].status # "scheduled" =>
                          /\ n \in DOMAIN session' /\ session'[n].status # "scheduled"
                          /\ driver = "sqlite" => session'[n].status = session[n].status
<1>1. ASSUME PackagesInv, PackagesInv', [PackagesNext]_packageVars PROVE A
  <2>1. session \in Seq(Session) /\ session' \in Seq(Session)
    BY <1>1 DEF PackagesInv, PackageRows
  <2>2. DOMAIN session' = 1 .. Cardinality(DOMAIN session')
    <3> DEFINE m == Len(session')
    <3>1. m \in Nat /\ DOMAIN session' = 1 .. m
      BY <2>1
    <3> HIDE DEF m
    <3>2. Cardinality(1 .. m) = IF 1 > m THEN 0 ELSE m - 1 + 1
      BY <3>1, FS_Interval
    <3>3. Cardinality(1 .. m) = m
      BY <3>1, <3>2
    <3>. QED  BY <3>1, <3>3
  <2>3. /\ Len(session') >= Len(session)
        /\ \A n \in DOMAIN session :
              session[n].status # "scheduled" =>
                 /\ session'[n].status # "scheduled"
                 /\ driver = "sqlite" => session'[n].status = session[n].status
    <3>1. CASE UNCHANGED session
      BY <2>1, <3>1
    <3>2. CASE \E r \in Request : InsertSession(r)
      BY <1>1, <2>1, <3>2, InsertSessionKeeps
    <3>3. CASE \E r \in Request : CommitSession(r)
      BY <1>1, <2>1, <3>3, CommitSessionKeeps
    <3>4. CASE \E n \in DOMAIN session, outcome \in {"cancelled", "completed", "no_show"} :
                 CloseAppointment(n, outcome)
      BY <1>1, <2>1, <3>4, CloseAppointmentKeeps
    <3>. QED  BY <1>1, <3>1, <3>2, <3>3, <3>4
              DEF PackagesNext, SessionsNext, ReadPackage, CountSessions, ReadNumber,
                  ReadForResize, Resize, LookToComplete, LookToCancel, LookToAttend,
                  WriteSession, GiveUpSession, Start, Go, packages, packageVars
  <2>4. \A n \in DOMAIN session : n \in DOMAIN session'
    BY <2>1, <2>3
  <2>. QED  BY <2>2, <2>3, <2>4
<1>2. PackagesInv /\ PackagesInv' /\ [PackagesNext]_packageVars => [A]_<<tx, packages>>
  BY <1>1
<1>. QED  BY <1>2, PackagesInvHolds, PTL DEF PackagesSpec, FinishedStays
----------------------------------------------------------------------------
(***************************************************************************)
(* Monthly plans (MonthlyPlans).  CourtsShared gives the courts of a slot as *)
(* a sum over its plans, and a plan that is added as one that fits.        *)
(***************************************************************************)

MonthlySpec == InitRequests /\ MonthlyInit /\ [][MonthlyNext]_<<driver, tx, monthly>>

Plan == [status : {"pending", "confirmed"}, rules : SUBSET Weekly, sessions : SUBSET PlanSlot,
         total : Nat, quantity : 1 .. Courts, gross : Nat, collected : Nat,
         outstanding : Nat]

PlanPayment == [plan : Nat, amount : Nat, voided : BOOLEAN]

\* The plans that have a session in the slot s
On(rows, s, except) == {p \in DOMAIN rows \ except : s \in rows[p].sessions}

PlannedOf(rows, s, except) ==
    SetSum([p \in DOMAIN rows |-> rows[p].quantity], On(rows, s, except))

\* The plan of r fits beside those there are.
PlanJob(r) ==
    /\ tx[r].rules \subseteq Weekly /\ tx[r].sessions \subseteq PlanSlot
    /\ tx[r].total \in Nat /\ tx[r].quantity \in 1 .. Courts /\ tx[r].gross \in Nat
    /\ \A s \in tx[r].sessions : PlannedOf(plans, s, {}) + tx[r].quantity <= Courts

ConfirmJob(r) ==
    LET p == tx[r].plan
    IN  /\ p \in DOMAIN plans
        /\ driver = "sqlite" => \A s \in plans[p].sessions :
              s \notin shut /\ deskBooked[s] + PlannedOf(plans, s, {}) <= Courts

PayJob(r) ==
    tx[r].plan \in DOMAIN plans /\ tx[r].amount \in Nat /\ tx[r].collected \in Nat

MonthlyJob(r) ==
    /\ tx[r].op = "band" => tx[r].band \in BandForms
    /\ tx[r].op = "plan" => PlanJob(r)
    /\ tx[r].op = "confirm" => ConfirmJob(r)
    /\ tx[r].op = "pay plan" => PayJob(r)
    /\ tx[r].op = "void plan payment" => tx[r].payment \in DOMAIN planPayments

MonthlyJobs ==
    /\ driver \in {"sqlite", "postgres"}
    /\ DOMAIN tx = Request
    /\ \A r, k \in Request : InWindow(r) /\ InWindow(k) => r = k
    /\ \A r \in Request : MonthlyJob(r)

MonthlyRows ==
    /\ bands \subseteq BandForms /\ IsFiniteSet(bands) /\ shut \subseteq PlanSlot
    /\ deskBooked \in [PlanSlot -> 0 .. Courts]
    /\ plans \in Seq(Plan)
    /\ planPayments \in Seq(PlanPayment)
    /\ \A c \in DOMAIN planPayments : planPayments[c].plan \in DOMAIN plans

CourtsShared == \A s \in PlanSlot : PlannedOf(plans, s, {}) <= Courts

MonthlyInv == MonthlyRows /\ MonthlyJobs /\ CourtsShared
----------------------------------------------------------------------------
(* Sums *)

LEMMA PlannedIs ==
    ASSUME IsFiniteSet(DOMAIN plans), NEW s, NEW except
    PROVE  Planned(s, except) = PlannedOf(plans, s, except)
<1> DEFINE A == On(plans, s, except)
           f == [p \in DOMAIN plans |-> plans[p].quantity]
           IsSum(h) == h = [t \in SUBSET A |->
                              IF t = {} THEN 0
                              ELSE plans[CHOOSE x \in t : TRUE].quantity
                                   + h[t \ {CHOOSE x \in t : TRUE}]]
<1>1. A \subseteq DOMAIN plans /\ IsFiniteSet(A)
  BY FS_Subset DEF On
<1>2. \A h : Adds(h, f, A) <=> IsSum(h)
  <2>1. \A t \in SUBSET A : t # {} => f[Pick(t)] = plans[CHOOSE x \in t : TRUE].quantity
    BY <1>1, PickIn DEF Pick
  <2>. QED  BY <2>1 DEF Adds, Pick
<1>3. Planned(s, except) = (CHOOSE h : IsSum(h))[A]
  BY DEF Planned, On, MapThenSumSet, MapThenFoldSet
<1> HIDE DEF A, f, IsSum
<1>4. Adds(CHOOSE h : IsSum(h), f, A)
  BY <1>1, <1>2, AddsExists
<1>5. SetSum(f, A) = (CHOOSE h : IsSum(h))[A]
  BY <1>1, <1>4, SumIs
<1>. QED  BY <1>3, <1>5 DEF PlannedOf, A, f

LEMMA GrossNat ==
    ASSUME NEW S, IsFiniteSet(S), IsFiniteSet(bands), bands \subseteq BandForms
    PROVE  Gross(S) \in Nat
<1> DEFINE P == Priced(S)
           price(s) == BandFor(TierOf(s), Cardinality(S)).price
           f == [s \in P |-> price(s)]
           IsSum(h) == h = [t \in SUBSET P |->
                              IF t = {} THEN 0
                              ELSE price(CHOOSE x \in t : TRUE) + h[t \ {CHOOSE x \in t : TRUE}]]
<1>0. P \subseteq S /\ IsFiniteSet(P)
  BY FS_Subset DEF Priced
<1>1. ASSUME NEW s \in P PROVE price(s) \in Nat
  <2> DEFINE A == Applicable(TierOf(s), Cardinality(S))
             R == {e \in A \X A : e[1].min < e[2].min
                                  \/ (e[1].min = e[2].min /\ e[1].max <= e[2].max)}
  <2>1. A # {} /\ A \subseteq bands /\ IsFiniteSet(A)
    BY FS_Subset DEF Priced, Applicable
  <2>2. ASSUME NEW b \in A PROVE b.min \in Nat /\ b.max \in Nat /\ b.price \in Nat
    <3>1. b \in BandForms
      BY <2>1
    <3>2. b \in [tier : {"weekday_offpeak", "other"}, min : Nat \ {0}, max : Nat, price : Nat \ {0}]
      BY <3>1, PlansAssumption
    <3>. QED  BY <3>2
  <2>3. \A b, c \in A : <<b, c>> \in R <=> b.min < c.min \/ (b.min = c.min /\ b.max <= c.max)
    OBVIOUS
  <2> HIDE DEF R
  <2>4. BandFor(TierOf(s), Cardinality(S)) = CHOOSE b \in A : \A c \in A :
                                b.min < c.min \/ (b.min = c.min /\ b.max <= c.max)
    BY DEF BandFor
  <2> HIDE DEF A
  <2>5. ASSUME NEW b \in A, NEW c \in A PROVE <<b, c>> \in R \/ <<c, b>> \in R
    <3>1. \/ b.min < c.min \/ (b.min = c.min /\ b.max <= c.max)
          \/ c.min < b.min \/ (c.min = b.min /\ c.max <= b.max)
      BY <2>2
    <3>. QED  BY <2>3, <3>1
  <2>6. ASSUME NEW b \in A, NEW c \in A, NEW d \in A, <<b, c>> \in R, <<c, d>> \in R
        PROVE  <<b, d>> \in R
    <3>1. b.min < d.min \/ (b.min = d.min /\ b.max <= d.max)
      BY <2>2, <2>3, <2>6
    <3>. QED  BY <2>3, <3>1
  <2>7. \E b \in A : \A c \in A : <<b, c>> \in R
    BY <2>1, <2>5, <2>6, SomeIsFirst
  <2>8. \E b \in A : \A c \in A : b.min < c.min \/ (b.min = c.min /\ b.max <= c.max)
    BY <2>3, <2>7
  <2>9. BandFor(TierOf(s), Cardinality(S)) \in A
    BY <2>4, <2>8
  <2>. QED  BY <2>2, <2>9
<1>2. Gross(S) = (CHOOSE h : IsSum(h))[P]
  BY DEF Gross, MapThenSumSet, MapThenFoldSet
<1> HIDE DEF price, P
<1>3. \A h : Adds(h, f, P) <=> IsSum(h)
  <2>1. \A t \in SUBSET P : t # {} => f[Pick(t)] = price(CHOOSE x \in t : TRUE)
    BY PickIn DEF Pick
  <2>. QED  BY <2>1 DEF Adds, Pick
<1>4. \A x \in P : f[x] \in Nat
  BY <1>1
<1> HIDE DEF f, IsSum
<1>5. Adds(CHOOSE h : IsSum(h), f, P)
  BY <1>0, <1>3, AddsExists
<1>6. SetSum(f, P) = Gross(S)
  BY <1>0, <1>2, <1>5, SumIs
<1>. QED  BY <1>0, <1>4, <1>6, SumNat

LEMMA PaidAfterVoidNat ==
    ASSUME planPayments \in Seq(PlanPayment), NEW c
    PROVE  PaidAfterVoid(c) \in Nat
<1> DEFINE A == Paid(planPayments[c].plan) \ {c}
           f == [d \in DOMAIN planPayments |-> planPayments[d].amount]
           IsSum(h) == h = [t \in SUBSET A |->
                              IF t = {} THEN 0
                              ELSE planPayments[CHOOSE x \in t : TRUE].amount
                                   + h[t \ {CHOOSE x \in t : TRUE}]]
<1>1. A \subseteq DOMAIN planPayments /\ IsFiniteSet(A)
  <2>1. Len(planPayments) \in Nat /\ DOMAIN planPayments = 1 .. Len(planPayments)
    OBVIOUS
  <2>2. IsFiniteSet(DOMAIN planPayments)
    BY <2>1, FS_Interval
  <2>. QED  BY <2>2, FS_Subset DEF Paid
<1>2. ASSUME NEW x \in A PROVE f[x] \in Nat
  <2>1. x \in DOMAIN planPayments /\ planPayments[x] \in PlanPayment
    BY <1>1
  <2>. QED  BY <2>1 DEF PlanPayment
<1>3. \A h : Adds(h, f, A) <=> IsSum(h)
  <2>1. \A t \in SUBSET A : t # {} => f[Pick(t)] = planPayments[CHOOSE x \in t : TRUE].amount
    BY <1>1, PickIn DEF Pick
  <2>. QED  BY <2>1 DEF Adds, Pick
<1>4. PaidAfterVoid(c) = (CHOOSE h : IsSum(h))[A]
  BY DEF PaidAfterVoid, MapThenSumSet, MapThenFoldSet
<1> HIDE DEF A, f, IsSum
<1>5. Adds(CHOOSE h : IsSum(h), f, A)
  BY <1>1, <1>3, AddsExists
<1>6. SetSum(f, A) = PaidAfterVoid(c)
  BY <1>1, <1>4, <1>5, SumIs
<1>. QED  BY <1>1, <1>2, <1>6, SumNat
----------------------------------------------------------------------------
\* What plans need of a slot

Counts(rows) ==
    IsFiniteSet(DOMAIN rows) /\ \A p \in DOMAIN rows : rows[p].quantity \in Nat

LEMMA PlannedNat ==
    ASSUME NEW rows, Counts(rows), NEW s, NEW except
    PROVE  PlannedOf(rows, s, except) \in Nat
<1>1. On(rows, s, except) \subseteq DOMAIN rows /\ IsFiniteSet(On(rows, s, except))
  BY FS_Subset DEF On, Counts
<1>. QED  BY <1>1, SumNat DEF PlannedOf, Counts

\* Money and confirmation do not change it.
LEMMA SamePlans ==
    ASSUME NEW rows, NEW new, Counts(rows), DOMAIN new = DOMAIN rows,
           \A p \in DOMAIN rows : /\ new[p].sessions = rows[p].sessions
                                  /\ new[p].quantity = rows[p].quantity,
           NEW s, NEW except
    PROVE  PlannedOf(new, s, except) = PlannedOf(rows, s, except)
<1> DEFINE A == On(rows, s, except)
           f == [p \in DOMAIN rows |-> rows[p].quantity]
           g == [p \in DOMAIN new |-> new[p].quantity]
<1>1. On(new, s, except) = A /\ A \subseteq DOMAIN rows /\ IsFiniteSet(A)
  BY FS_Subset DEF On, Counts
<1>2. \A x \in A : f[x] = g[x]
  BY <1>1
<1>3. PlannedOf(new, s, except) = SetSum(g, A) /\ PlannedOf(rows, s, except) = SetSum(f, A)
  BY <1>1 DEF PlannedOf
<1> HIDE DEF A, f, g
<1>. QED  BY <1>1, <1>2, <1>3, SumSame

\* A plan of its own adds its quantity.
LEMMA WithoutPlan ==
    ASSUME NEW rows, Counts(rows), NEW p \in DOMAIN rows, NEW s, s \in rows[p].sessions
    PROVE  PlannedOf(rows, s, {}) = PlannedOf(rows, s, {p}) + rows[p].quantity
<1> DEFINE A == On(rows, s, {})
           f == [q \in DOMAIN rows |-> rows[q].quantity]
<1>1. On(rows, s, {p}) = A \ {p} /\ p \in A /\ A \subseteq DOMAIN rows /\ IsFiniteSet(A)
  BY FS_Subset DEF On, Counts
<1>2. \A x \in A : f[x] \in Nat
  BY <1>1 DEF Counts
<1>3. /\ PlannedOf(rows, s, {p}) = SetSum(f, A \ {p}) /\ PlannedOf(rows, s, {}) = SetSum(f, A)
      /\ f[p] = rows[p].quantity
  BY <1>1 DEF PlannedOf
<1> HIDE DEF A, f
<1>4. SetSum(f, A) = f[p] + SetSum(f, A \ {p})
  BY <1>1, <1>2, SumTake
<1>5. f[p] \in Nat /\ PlannedOf(rows, s, {p}) \in Nat
  BY <1>1, <1>2, PlannedNat
<1>. QED  BY <1>3, <1>4, <1>5

LEMMA NewPlan ==
    ASSUME NEW rows, NEW new, NEW p, Counts(rows), Counts(new), p \notin DOMAIN rows,
           DOMAIN new = DOMAIN rows \cup {p}, \A q \in DOMAIN rows : new[q] = rows[q], NEW s
    PROVE  PlannedOf(new, s, {}) = PlannedOf(rows, s, {})
                + (IF s \in new[p].sessions THEN new[p].quantity ELSE 0)
<1> DEFINE A == On(rows, s, {})
           f == [q \in DOMAIN rows |-> rows[q].quantity]
           g == [q \in DOMAIN new |-> new[q].quantity]
<1>1. A \subseteq DOMAIN rows /\ IsFiniteSet(A) /\ p \notin A
  BY FS_Subset DEF On, Counts
<1>2. \A x \in A : f[x] = g[x]
  BY <1>1
<1>3. On(new, s, {}) = IF s \in new[p].sessions THEN A \cup {p} ELSE A
  BY DEF On
<1>4. \A x \in A \cup {p} : g[x] \in Nat
  BY <1>1 DEF Counts
<1>5. /\ PlannedOf(rows, s, {}) = SetSum(f, A)
      /\ PlannedOf(new, s, {}) = SetSum(g, IF s \in new[p].sessions THEN A \cup {p} ELSE A)
      /\ g[p] = new[p].quantity
  BY <1>3 DEF PlannedOf
<1>6. PlannedOf(rows, s, {}) \in Nat
  BY PlannedNat
<1> HIDE DEF A, f, g
<1>7. SetSum(f, A) = SetSum(g, A)
  BY <1>1, <1>2, SumSame
<1>8. SetSum(g, A \cup {p}) = g[p] + SetSum(g, A)
  BY <1>1, <1>4, SumAdd
<1>9. g[p] \in Nat
  BY <1>4
<1>. QED  BY <1>5, <1>6, <1>7, <1>8, <1>9
----------------------------------------------------------------------------
(* The steps *)

LEMMA MonthlyInitHolds == InitRequests /\ MonthlyInit => MonthlyInv
<1> SUFFICES ASSUME InitRequests, MonthlyInit PROVE MonthlyInv
  OBVIOUS
<1>1. /\ plans = <<>> /\ planPayments = <<>> /\ bands = {} /\ shut = {}
      /\ deskBooked = [s \in PlanSlot |-> 0]
  BY DEF MonthlyInit
<1>2. MonthlyRows
  BY <1>1, PlansAssumption, FS_EmptySet DEF MonthlyRows
<1>3. MonthlyJobs
  BY DEF InitRequests, MonthlyJobs, MonthlyJob, InWindow, Idle
<1>4. CourtsShared
  <2>1. \A s : On(plans, s, {}) = {}
    BY <1>1 DEF On
  <2>. QED  BY <2>1, SumEmpty, PlansAssumption DEF CourtsShared, PlannedOf
<1>. QED  BY <1>2, <1>3, <1>4 DEF MonthlyInv

LEMMA PlansCount ==
    ASSUME MonthlyInv
    PROVE  /\ Counts(plans) /\ Len(plans) \in Nat /\ DOMAIN plans = 1 .. Len(plans)
           /\ IsFiniteSet(DOMAIN plans)
<1>1. plans \in Seq(Plan)
  BY DEF MonthlyInv, MonthlyRows
<1>2. Len(plans) \in Nat /\ DOMAIN plans = 1 .. Len(plans)
  BY <1>1
<1>3. IsFiniteSet(DOMAIN plans)
  BY <1>2, FS_Interval
<1>4. ASSUME NEW p \in DOMAIN plans PROVE plans[p].quantity \in Nat
  <2>1. plans[p] \in Plan
    BY <1>1
  <2>2. plans[p].quantity \in 1 .. Courts
    BY <2>1 DEF Plan
  <2>. QED  BY <2>2, PlansAssumption
<1>. QED  BY <1>2, <1>3, <1>4 DEF Counts

\* A request that starts finds the tables good for it.
LEMMA MonthlyLooks ==
    ASSUME MonthlyInv, UNCHANGED <<driver, monthly>>, NEW r \in Request, NEW j,
           tx' = [tx EXCEPT ![r] = j], MonthlyJob(r)', j.op \in {"plan", "confirm"} => WindowFree
    PROVE  MonthlyInv'
<1>1. DOMAIN tx = Request /\ tx'[r] = j /\ \A k \in Request \ {r} : tx'[k] = tx[k]
  BY DEF MonthlyInv, MonthlyJobs
<1>2. ASSUME NEW k \in Request PROVE MonthlyJob(k)'
  <2>1. CASE k = r
    BY <2>1
  <2>2. CASE k # r
    <3>1. tx'[k] = tx[k] /\ MonthlyJob(k)
      BY <1>1, <2>2 DEF MonthlyInv, MonthlyJobs
    <3>. QED  BY <3>1 DEF MonthlyJob, PlanJob, ConfirmJob, PayJob, monthly
  <2>. QED  BY <2>1, <2>2
<1>3. ASSUME NEW k \in Request, NEW l \in Request, InWindow(k)', InWindow(l)' PROVE k = l
  <2>1. \A i \in Request \ {r} : InWindow(i)' <=> InWindow(i)
    BY <1>1 DEF InWindow
  <2>2. InWindow(r)' => WindowFree
    BY <1>1 DEF InWindow
  <2>. QED  BY <1>3, <2>1, <2>2 DEF WindowFree, MonthlyInv, MonthlyJobs
<1>4. MonthlyJobs'
  BY <1>1, <1>2, <1>3 DEF MonthlyJobs, MonthlyInv
<1>5. MonthlyRows' /\ CourtsShared'
  BY DEF MonthlyInv, MonthlyRows, CourtsShared, monthly
<1>. QED  BY <1>4, <1>5 DEF MonthlyInv

\* What is left open finds the tables good for it.
LEMMA MonthlyJobsKept ==
    ASSUME MonthlyInv, UNCHANGED driver, DOMAIN tx' = Request,
           \A k \in Request : tx'[k] = Idle \/ tx'[k] = tx[k],
           \A k \in Request : tx'[k] = tx[k] => MonthlyJob(k)'
    PROVE  MonthlyJobs'
<1>1. \A k \in Request : InWindow(k)' => tx'[k] = tx[k] /\ InWindow(k)
  BY DEF InWindow, Idle
<1>2. ASSUME NEW k \in Request, tx'[k] = Idle PROVE MonthlyJob(k)'
  <2>1. tx'[k].op = "idle"
    BY <1>2 DEF Idle
  <2>. QED  BY <2>1 DEF MonthlyJob
<1>3. \A k, l \in Request : InWindow(k)' /\ InWindow(l)' => k = l
  BY <1>1 DEF MonthlyJobs, MonthlyInv
<1>4. \A k \in Request : MonthlyJob(k)'
  BY <1>2
<1>. QED  BY <1>3, <1>4 DEF MonthlyJobs, MonthlyInv

LEMMA QuietPlans ==
    ASSUME MonthlyInv, UNCHANGED <<driver, monthly>>, DOMAIN tx' = Request,
           \A k \in Request : tx'[k] = Idle \/ tx'[k] = tx[k]
    PROVE  MonthlyInv'
<1>1. ASSUME NEW k \in Request, tx'[k] = tx[k] PROVE MonthlyJob(k)'
  BY <1>1 DEF MonthlyInv, MonthlyJobs, MonthlyJob, PlanJob, ConfirmJob, PayJob, monthly
<1>2. MonthlyJobs'
  BY <1>1, MonthlyJobsKept
<1>3. MonthlyRows' /\ CourtsShared'
  BY DEF MonthlyInv, MonthlyRows, CourtsShared, monthly
<1>. QED  BY <1>2, <1>3 DEF MonthlyInv

\* Who commits beside the window: on SQLite nobody is in it.
LEMMA CommitTakes ==
    ASSUME MonthlyInv, NEW R \in SUBSET Request, CommitMonthly(R)
    PROVE  /\ UNCHANGED driver /\ DOMAIN tx' = Request
           /\ \A k \in Request : tx'[k] = Idle \/ (k \notin R /\ tx'[k] = tx[k])
           /\ driver = "sqlite" => \A k \in Request : ~InWindow(k)
  BY DEF CommitMonthly, MayCommit, WindowFree, End, Overtaken

LEMMA LookAtBandsKeeps ==
    ASSUME MonthlyInv, NEW r \in Request, NEW b \in BandForms, LookAtBands(r, b)
    PROVE  MonthlyInv'
<1> DEFINE j == [op |-> "band", band |-> b]
<1>1. tx' = [tx EXCEPT ![r] = j] /\ UNCHANGED <<driver, monthly>> /\ tx'[r] = j
  BY DEF LookAtBands, Look, MonthlyInv, MonthlyJobs
<1>2. j.op = "band" /\ j.band = b
  OBVIOUS
<1> HIDE DEF j
<1>3. MonthlyJob(r)'
  BY <1>1, <1>2 DEF MonthlyJob
<1>. QED  BY <1>1, <1>2, <1>3, MonthlyLooks

LEMMA SessionsFit ==
    ASSUME NEW month \in PlanMonth, NEW rules \in SUBSET Weekly
    PROVE  SessionsOf(month, rules) \subseteq PlanSlot /\ IsFiniteSet(SessionsOf(month, rules))
<1>1. IsFiniteSet(rules) /\ IsFiniteSet(1 .. MonthWeeks)
  <2>1. IsFiniteSet(rules)
    BY PlansAssumption, FS_Subset
  <2>2. MonthWeeks \in Int
    BY PlansAssumption
  <2>3. IsFiniteSet(1 .. MonthWeeks)
    BY <2>2, FS_Interval
  <2>. QED  BY <2>1, <2>3
<1>2. SessionsOf(month, rules) \subseteq PlanSlot
  BY DEF SessionsOf, PlanSlot
<1> DEFINE A == rules \X (1 .. MonthWeeks)
           f == [e \in A |-> <<month, e[1], e[2]>>]
<1>3. IsFiniteSet(A)
  BY <1>1, FS_Product
<1>4. \A e \in A : f[e] \in SessionsOf(month, rules)
  BY DEF SessionsOf
<1>5. \A s \in SessionsOf(month, rules) : \E e \in A : f[e] = s
  <2>. SUFFICES ASSUME NEW s \in SessionsOf(month, rules) PROVE \E e \in A : f[e] = s
    OBVIOUS
  <2>1. PICK w \in rules, n \in 1 .. MonthWeeks : s = <<month, w, n>>
    BY DEF SessionsOf
  <2>2. <<w, n>> \in A /\ f[<<w, n>>] = s
    BY <2>1
  <2>. QED  BY <2>2
<1>6. f \in [A -> SessionsOf(month, rules)]
  BY <1>4
<1> HIDE DEF A, f
<1>7. f \in Surjection(A, SessionsOf(month, rules))
  BY <1>5, <1>6 DEF Surjection
<1>. QED  BY <1>2, <1>3, <1>7, FS_Surjection

LEMMA LookToPlanKeeps ==
    ASSUME MonthlyInv, NEW r \in Request, NEW month \in PlanMonth, NEW rules \in SUBSET Weekly,
           NEW q \in 1 .. Courts, LookToPlan(r, month, rules, q)
    PROVE  MonthlyInv'
<1> DEFINE S == SessionsOf(month, rules)
           P == Priced(S)
           j == [op |-> "plan", rules |-> rules, sessions |-> P, total |-> Cardinality(S),
                 quantity |-> q, gross |-> Gross(S)]
<1>1. /\ tx' = [tx EXCEPT ![r] = j] /\ UNCHANGED <<driver, monthly>> /\ tx'[r] = j
      /\ WindowFree /\ Available(P, q, {})
  BY DEF LookToPlan, Look, MonthlyInv, MonthlyJobs
<1>2. P \subseteq PlanSlot /\ IsFiniteSet(S)
  BY SessionsFit DEF Priced
<1>3. Gross(S) \in Nat /\ Cardinality(S) \in Nat
  <2>. HIDE DEF S
  <2>. QED  BY <1>2, GrossNat, FS_CardinalityType DEF MonthlyInv, MonthlyRows
<1>4. \A s \in P : PlannedOf(plans, s, {}) + q <= Courts
  <2>. HIDE DEF P
  <2>. SUFFICES ASSUME NEW s \in P PROVE PlannedOf(plans, s, {}) + q <= Courts
    OBVIOUS
  <2>1. Planned(s, {}) = PlannedOf(plans, s, {}) /\ PlannedOf(plans, s, {}) \in Nat
    BY PlansCount, PlannedIs, PlannedNat
  <2>2. deskBooked[s] + Planned(s, {}) + q <= Courts
    BY <1>1 DEF Available
  <2>3. deskBooked[s] \in Nat
    BY <1>2, PlansAssumption DEF MonthlyInv, MonthlyRows
  <2>. QED  BY <2>1, <2>2, <2>3, PlansAssumption
<1>5. /\ j.op = "plan" /\ j.rules = rules /\ j.sessions = P /\ j.total = Cardinality(S)
      /\ j.quantity = q /\ j.gross = Gross(S)
  OBVIOUS
<1> HIDE DEF j, S, P
<1>6. MonthlyJob(r)'
  BY <1>1, <1>2, <1>3, <1>4, <1>5 DEF MonthlyJob, PlanJob, monthly
<1>. QED  BY <1>1, <1>6, MonthlyLooks

LEMMA LookToContinueKeeps ==
    ASSUME MonthlyInv, NEW r \in Request, NEW p \in DOMAIN plans, NEW month \in PlanMonth,
           LookToContinue(r, p, month)
    PROVE  MonthlyInv'
<1>1. plans[p] \in Plan
  BY DEF MonthlyInv, MonthlyRows
<1>2. plans[p].rules \in SUBSET Weekly /\ plans[p].quantity \in 1 .. Courts
  BY <1>1 DEF Plan
<1>. QED  BY <1>2, LookToPlanKeeps DEF LookToContinue

LEMMA LookToConfirmKeeps ==
    ASSUME MonthlyInv, NEW r \in Request, NEW p \in DOMAIN plans, LookToConfirm(r, p)
    PROVE  MonthlyInv'
<1> DEFINE j == [op |-> "confirm", plan |-> p]
<1>1. /\ tx' = [tx EXCEPT ![r] = j] /\ UNCHANGED <<driver, monthly>> /\ tx'[r] = j
      /\ WindowFree /\ Available(plans[p].sessions, plans[p].quantity, {p})
  BY DEF LookToConfirm, Look, MonthlyInv, MonthlyJobs
<1>2. plans[p] \in Plan
  BY DEF MonthlyInv, MonthlyRows
<1>3. plans[p].sessions \subseteq PlanSlot
  BY <1>2 DEF Plan
<1>4. ASSUME NEW s \in plans[p].sessions
      PROVE  s \notin shut /\ deskBooked[s] + PlannedOf(plans, s, {}) <= Courts
  <2>1. /\ Planned(s, {p}) = PlannedOf(plans, s, {p}) /\ PlannedOf(plans, s, {p}) \in Nat
        /\ plans[p].quantity \in Nat
    BY PlansCount, PlannedIs, PlannedNat DEF Counts
  <2>2. s \notin shut /\ deskBooked[s] + Planned(s, {p}) + plans[p].quantity <= Courts
    BY <1>1 DEF Available
  <2>3. deskBooked[s] \in Nat
    BY <1>3, PlansAssumption DEF MonthlyInv, MonthlyRows
  <2>4. PlannedOf(plans, s, {}) = PlannedOf(plans, s, {p}) + plans[p].quantity
    BY PlansCount, WithoutPlan
  <2>. QED  BY <2>1, <2>2, <2>3, <2>4, PlansAssumption
<1>5. j.op = "confirm" /\ j.plan = p
  OBVIOUS
<1> HIDE DEF j
<1>6. ConfirmJob(r)'
  BY <1>1, <1>4, <1>5 DEF ConfirmJob, monthly
<1>7. MonthlyJob(r)'
  BY <1>1, <1>5, <1>6 DEF MonthlyJob
<1>. QED  BY <1>1, <1>7, MonthlyLooks

LEMMA LookToPayPlanKeeps ==
    ASSUME MonthlyInv, NEW r \in Request, NEW p \in DOMAIN plans,
           NEW amount \in 1 .. plans[p].outstanding, LookToPayPlan(r, p, amount)
    PROVE  MonthlyInv'
<1> DEFINE j == [op |-> "pay plan", plan |-> p, amount |-> amount,
                 collected |-> plans[p].collected + amount]
<1>1. tx' = [tx EXCEPT ![r] = j] /\ UNCHANGED <<driver, monthly>> /\ tx'[r] = j
  BY DEF LookToPayPlan, Look, MonthlyInv, MonthlyJobs
<1>2. plans[p] \in Plan
  BY DEF MonthlyInv, MonthlyRows
<1>3. plans[p].collected \in Nat /\ plans[p].outstanding \in Nat
  BY <1>2 DEF Plan
<1>4. amount \in Nat /\ plans[p].collected + amount \in Nat
  BY <1>3
<1>5. /\ j.op = "pay plan" /\ j.plan = p /\ j.amount = amount
      /\ j.collected = plans[p].collected + amount
  OBVIOUS
<1> HIDE DEF j
<1>6. MonthlyJob(r)'
  BY <1>1, <1>4, <1>5 DEF MonthlyJob, PayJob, monthly
<1>. QED  BY <1>1, <1>5, <1>6, MonthlyLooks

LEMMA LookToVoidKeeps ==
    ASSUME MonthlyInv, NEW r \in Request, NEW c \in DOMAIN planPayments,
           LookToVoidPlanPayment(r, c)
    PROVE  MonthlyInv'
<1> DEFINE j == [op |-> "void plan payment", payment |-> c]
<1>1. tx' = [tx EXCEPT ![r] = j] /\ UNCHANGED <<driver, monthly>> /\ tx'[r] = j
  BY DEF LookToVoidPlanPayment, Look, MonthlyInv, MonthlyJobs
<1>2. j.op = "void plan payment" /\ j.payment = c
  OBVIOUS
<1> HIDE DEF j
<1>3. MonthlyJob(r)'
  BY <1>1, <1>2 DEF MonthlyJob, monthly
<1>. QED  BY <1>1, <1>2, <1>3, MonthlyLooks
----------------------------------------------------------------------------
(* Writes *)

LEMMA InsertBandKeeps ==
    ASSUME MonthlyInv, NEW r \in Request, InsertBand(r)
    PROVE  MonthlyInv'
<1>1. /\ bands' = bands \cup {tx[r].band} /\ UNCHANGED <<plans, planPayments, deskBooked, shut>>
      /\ tx[r].op = "band" /\ CommitMonthly({r})
  BY DEF InsertBand
<1>2. tx[r].band \in BandForms
  BY <1>1 DEF MonthlyInv, MonthlyJobs, MonthlyJob
<1>3. MonthlyRows'
  BY <1>1, <1>2, FS_AddElement DEF MonthlyInv, MonthlyRows
<1>4. /\ UNCHANGED driver /\ DOMAIN tx' = Request
      /\ \A k \in Request : tx'[k] = Idle \/ tx'[k] = tx[k]
  BY <1>1, CommitTakes
<1>5. ASSUME NEW k \in Request, tx'[k] = tx[k] PROVE MonthlyJob(k)'
  BY <1>1, <1>4, <1>5 DEF MonthlyInv, MonthlyJobs, MonthlyJob, PlanJob, ConfirmJob, PayJob
<1>6. MonthlyJobs'
  BY <1>4, <1>5, MonthlyJobsKept
<1>. QED  BY <1>1, <1>3, <1>6 DEF MonthlyInv, CourtsShared

LEMMA CreatePlanKeeps ==
    ASSUME MonthlyInv, NEW r \in Request, CreatePlan(r)
    PROVE  MonthlyInv'
<1> DEFINE row == [status |-> "pending", rules |-> tx[r].rules, sessions |-> tx[r].sessions,
                   total |-> tx[r].total, quantity |-> tx[r].quantity, gross |-> tx[r].gross,
                   collected |-> 0, outstanding |-> tx[r].gross]
           n == Len(plans) + 1
<1>0. /\ plans \in Seq(Plan) /\ Counts(plans) /\ Len(plans) \in Nat
      /\ DOMAIN plans = 1 .. Len(plans)
  BY PlansCount DEF MonthlyInv, MonthlyRows
<1>1. /\ plans' = Append(plans, row) /\ UNCHANGED <<bands, planPayments, deskBooked, shut>>
      /\ tx[r].op = "plan" /\ End({r})
  BY DEF CreatePlan
<1>2. PlanJob(r)
  BY <1>1 DEF MonthlyInv, MonthlyJobs, MonthlyJob
<1>3. row \in Plan /\ row.sessions = tx[r].sessions /\ row.quantity = tx[r].quantity
  BY <1>2 DEF PlanJob, Plan
<1> HIDE DEF row
<1>4. /\ plans' \in Seq(Plan) /\ DOMAIN plans' = DOMAIN plans \cup {n} /\ n \notin DOMAIN plans
      /\ \A q \in DOMAIN plans : plans'[q] = plans[q]
      /\ plans'[n] = row
      /\ Len(plans') = n
  BY <1>0, <1>1, <1>3
<1>5. Counts(plans')
  <2>1. row.quantity \in Nat
    BY <1>2, <1>3, PlansAssumption DEF PlanJob
  <2>2. IsFiniteSet(DOMAIN plans')
    BY <1>0, <1>4, FS_AddElement DEF Counts
  <2>3. \A q \in DOMAIN plans' : plans'[q].quantity \in Nat
    BY <1>0, <1>4, <2>1 DEF Counts
  <2>. QED  BY <2>2, <2>3 DEF Counts
<1>6. MonthlyRows'
  BY <1>1, <1>4 DEF MonthlyInv, MonthlyRows
<1>7. CourtsShared'
  <2>. SUFFICES ASSUME NEW s \in PlanSlot PROVE PlannedOf(plans', s, {}) <= Courts
    BY DEF CourtsShared
  <2>1. PlannedOf(plans', s, {}) = PlannedOf(plans, s, {})
           + (IF s \in plans'[n].sessions THEN plans'[n].quantity ELSE 0)
    <3>. HIDE DEF n
    <3>. QED  BY <1>0, <1>4, <1>5, NewPlan
  <2>2. PlannedOf(plans, s, {}) \in Nat /\ PlannedOf(plans, s, {}) <= Courts
    BY <1>0, PlannedNat DEF MonthlyInv, CourtsShared
  <2>3. s \in tx[r].sessions => PlannedOf(plans, s, {}) + tx[r].quantity <= Courts
    BY <1>2 DEF PlanJob
  <2>. QED  BY <1>3, <1>4, <2>1, <2>2, <2>3
<1>8. /\ UNCHANGED driver /\ DOMAIN tx' = Request
      /\ \A k \in Request : tx'[k] = Idle \/ (k # r /\ tx'[k] = tx[k])
  BY <1>1 DEF End
<1>9. ASSUME NEW k \in Request, tx'[k] = tx[k] PROVE MonthlyJob(k)'
  <2>1. CASE tx[k] = Idle
    BY <1>9, <2>1 DEF MonthlyJob, Idle
  <2>2. CASE tx[k] # Idle
    <3>1. k # r /\ MonthlyJob(k)
      BY <1>8, <1>9, <2>2 DEF MonthlyInv, MonthlyJobs
    <3>2. tx[k].op \notin {"plan", "confirm"}
      BY <1>1, <3>1 DEF MonthlyInv, MonthlyJobs, InWindow
    <3>. QED  BY <1>1, <1>4, <1>9, <3>1, <3>2 DEF MonthlyJob, PayJob
  <2>. QED  BY <2>1, <2>2
<1>10. MonthlyJobs'
  BY <1>8, <1>9, MonthlyJobsKept
<1>. QED  BY <1>6, <1>7, <1>10 DEF MonthlyInv

\* A plan is confirmed: on SQLite with room for all of it.
LEMMA ConfirmPlanKeeps ==
    ASSUME MonthlyInv, NEW r \in Request, ConfirmPlan(r)
    PROVE  /\ MonthlyInv'
           /\ \A p \in DOMAIN plans : p # tx[r].plan => plans'[p] = plans[p]
           /\ tx[r].plan \in DOMAIN plans
           /\ driver = "sqlite" => \A s \in plans[tx[r].plan].sessions :
                 s \notin shut /\ deskBooked[s] + Planned(s, {}) <= Courts
<1> DEFINE p == tx[r].plan
           row == [plans[p] EXCEPT !.status = "confirmed"]
<1>0. plans \in Seq(Plan) /\ Counts(plans) /\ IsFiniteSet(DOMAIN plans)
  BY PlansCount DEF MonthlyInv, MonthlyRows
<1>1. /\ plans' = [plans EXCEPT ![p] = row] /\ UNCHANGED <<bands, planPayments, deskBooked, shut>>
      /\ tx[r].op = "confirm" /\ End({r})
  BY DEF ConfirmPlan
<1>2. ConfirmJob(r) /\ p \in DOMAIN plans
  BY <1>1 DEF MonthlyInv, MonthlyJobs, MonthlyJob, ConfirmJob
<1>3. row \in Plan /\ row.sessions = plans[p].sessions /\ row.quantity = plans[p].quantity
  <2>1. plans[p] \in Plan
    BY <1>0, <1>2
  <2>. QED  BY <2>1 DEF Plan
<1> HIDE DEF row
<1>4. /\ plans' \in Seq(Plan) /\ DOMAIN plans' = DOMAIN plans
      /\ \A q \in DOMAIN plans : plans'[q].sessions = plans[q].sessions
                                 /\ plans'[q].quantity = plans[q].quantity
      /\ \A q \in DOMAIN plans : q # p => plans'[q] = plans[q]
  BY <1>0, <1>1, <1>2, <1>3
<1>5. \A s : PlannedOf(plans', s, {}) = PlannedOf(plans, s, {})
  BY <1>0, <1>4, SamePlans
<1>6. MonthlyRows' /\ CourtsShared'
  BY <1>1, <1>4, <1>5 DEF MonthlyInv, MonthlyRows, CourtsShared
<1>7. /\ UNCHANGED driver /\ DOMAIN tx' = Request
      /\ \A k \in Request : tx'[k] = Idle \/ (k # r /\ tx'[k] = tx[k])
  BY <1>1 DEF End
<1>8. ASSUME NEW k \in Request, tx'[k] = tx[k] PROVE MonthlyJob(k)'
  <2>1. CASE tx[k] = Idle
    BY <1>8, <2>1 DEF MonthlyJob, Idle
  <2>2. CASE tx[k] # Idle
    <3>1. k # r /\ MonthlyJob(k)
      BY <1>7, <1>8, <2>2 DEF MonthlyInv, MonthlyJobs
    <3>2. tx[k].op \notin {"plan", "confirm"}
      BY <1>1, <3>1 DEF MonthlyInv, MonthlyJobs, InWindow
    <3>. QED  BY <1>1, <1>4, <1>8, <3>1, <3>2 DEF MonthlyJob, PayJob
  <2>. QED  BY <2>1, <2>2
<1>9. MonthlyJobs'
  BY <1>7, <1>8, MonthlyJobsKept
<1>10. \A s : Planned(s, {}) = PlannedOf(plans, s, {})
  BY <1>0, PlannedIs
<1>. QED  BY <1>2, <1>4, <1>6, <1>9, <1>10 DEF MonthlyInv, ConfirmJob

\* Money is received or voided: the totals of a plan change, what it needs of
\* the courts does not.
LEMMA TotalsKeep ==
    ASSUME MonthlyInv, NEW r \in Request, NEW p \in DOMAIN plans, NEW collected \in Nat,
           Totals(p, collected), CommitMonthly({r}), UNCHANGED <<bands, deskBooked, shut>>,
           planPayments' \in Seq(PlanPayment), DOMAIN planPayments \subseteq DOMAIN planPayments',
           \A c \in DOMAIN planPayments' : planPayments'[c].plan \in DOMAIN plans
    PROVE  MonthlyInv' /\ \A q \in DOMAIN plans : plans'[q].status = plans[q].status
<1> DEFINE row == [plans[p] EXCEPT !.collected = collected,
                                   !.outstanding = Left(plans[p].gross, collected)]
<1>0. plans \in Seq(Plan) /\ Counts(plans) /\ plans[p] \in Plan
  BY PlansCount DEF MonthlyInv, MonthlyRows
<1>1. plans' = [plans EXCEPT ![p] = row]
  BY DEF Totals
<1>2. /\ row \in Plan /\ row.sessions = plans[p].sessions /\ row.quantity = plans[p].quantity
      /\ row.status = plans[p].status
  <2>1. Left(plans[p].gross, collected) \in Nat
    <3>1. plans[p].gross \in Nat
      BY <1>0 DEF Plan
    <3>. QED  BY <3>1 DEF Left
  <2>. QED  BY <1>0, <2>1 DEF Plan
<1> HIDE DEF row
<1>3. /\ plans' \in Seq(Plan) /\ DOMAIN plans' = DOMAIN plans
      /\ \A q \in DOMAIN plans : plans'[q].sessions = plans[q].sessions
                                 /\ plans'[q].quantity = plans[q].quantity
      /\ \A q \in DOMAIN plans : plans'[q].status = plans[q].status
  BY <1>0, <1>1, <1>2
<1>4. \A s : PlannedOf(plans', s, {}) = PlannedOf(plans, s, {})
  BY <1>0, <1>3, SamePlans
<1>5. MonthlyRows' /\ CourtsShared'
  BY <1>3, <1>4 DEF MonthlyInv, MonthlyRows, CourtsShared
<1>6. /\ UNCHANGED driver /\ DOMAIN tx' = Request
      /\ \A k \in Request : tx'[k] = Idle \/ tx'[k] = tx[k]
      /\ driver = "sqlite" => \A k \in Request : ~InWindow(k)
  BY CommitTakes
<1>7. ASSUME NEW k \in Request, tx'[k] = tx[k] PROVE MonthlyJob(k)'
  <2>1. MonthlyJob(k)
    BY DEF MonthlyInv, MonthlyJobs
  <2>2. PlanJob(k) => PlanJob(k)'
    BY <1>4, <1>7 DEF PlanJob
  <2>3. tx[k].op = "confirm" /\ ConfirmJob(k) => ConfirmJob(k)'
    BY <1>3, <1>6, <1>7 DEF ConfirmJob, InWindow
  <2>4. PayJob(k) => PayJob(k)'
    BY <1>3, <1>7 DEF PayJob
  <2>. QED  BY <1>7, <2>1, <2>2, <2>3, <2>4 DEF MonthlyJob
<1>8. MonthlyJobs'
  BY <1>6, <1>7, MonthlyJobsKept
<1>. QED  BY <1>3, <1>5, <1>8 DEF MonthlyInv

LEMMA PayPlanKeeps ==
    ASSUME MonthlyInv, NEW r \in Request, PayPlan(r)
    PROVE  MonthlyInv' /\ \A q \in DOMAIN plans : plans'[q].status = plans[q].status
<1> DEFINE row == [plan |-> tx[r].plan, amount |-> tx[r].amount, voided |-> FALSE]
<1>0. planPayments \in Seq(PlanPayment) /\ plans \in Seq(Plan)
  BY DEF MonthlyInv, MonthlyRows
<1>1. /\ tx[r].op = "pay plan" /\ planPayments' = Append(planPayments, row)
      /\ Totals(tx[r].plan, tx[r].collected) /\ CommitMonthly({r})
      /\ UNCHANGED <<bands, deskBooked, shut>>
  BY DEF PayPlan
<1>2. tx[r].plan \in DOMAIN plans /\ tx[r].amount \in Nat /\ tx[r].collected \in Nat
  BY <1>1 DEF MonthlyInv, MonthlyJobs, MonthlyJob, PayJob
<1>3. row \in PlanPayment /\ row.plan = tx[r].plan
  BY <1>0, <1>2 DEF PlanPayment
<1> HIDE DEF row
<1>4. /\ planPayments' \in Seq(PlanPayment) /\ Len(planPayments) \in Nat
      /\ DOMAIN planPayments = 1 .. Len(planPayments)
      /\ DOMAIN planPayments' = 1 .. Len(planPayments) + 1
      /\ \A c \in DOMAIN planPayments : planPayments'[c] = planPayments[c]
      /\ planPayments'[Len(planPayments) + 1] = row
  <2>1. Len(planPayments) \in Nat /\ DOMAIN planPayments = 1 .. Len(planPayments)
    BY <1>0
  <2>2. planPayments' = Append(planPayments, row)
    BY <1>1
  <2>3. planPayments' \in Seq(PlanPayment) /\ DOMAIN planPayments' = 1 .. Len(planPayments) + 1
    BY <1>0, <1>3, <2>2
  <2>4. \A c \in DOMAIN planPayments : planPayments'[c] = planPayments[c]
    BY <1>0, <2>1, <2>2
  <2>5. planPayments'[Len(planPayments) + 1] = row
    BY <1>0, <2>1, <2>2
  <2>. QED  BY <2>1, <2>3, <2>4, <2>5
<1>5. DOMAIN planPayments \subseteq DOMAIN planPayments'
  BY <1>4
<1>6. \A c \in DOMAIN planPayments' : planPayments'[c].plan \in DOMAIN plans
  <2>. SUFFICES ASSUME NEW c \in DOMAIN planPayments' PROVE planPayments'[c].plan \in DOMAIN plans
    OBVIOUS
  <2>1. c \in DOMAIN planPayments \/ c = Len(planPayments) + 1
    BY <1>4
  <2>2. \A d \in DOMAIN planPayments : planPayments[d].plan \in DOMAIN plans
    BY DEF MonthlyInv, MonthlyRows
  <2>. QED  BY <1>2, <1>3, <1>4, <2>1, <2>2
<1>. QED  BY <1>1, <1>2, <1>4, <1>5, <1>6, TotalsKeep

LEMMA VoidPlanPaymentKeeps ==
    ASSUME MonthlyInv, NEW r \in Request, VoidPlanPayment(r)
    PROVE  MonthlyInv' /\ \A q \in DOMAIN plans : plans'[q].status = plans[q].status
<1> DEFINE c == tx[r].payment
           p == planPayments[c].plan
           row == [planPayments[c] EXCEPT !.voided = TRUE]
<1>0. planPayments \in Seq(PlanPayment)
  BY DEF MonthlyInv, MonthlyRows
<1>1. /\ tx[r].op = "void plan payment" /\ planPayments' = [planPayments EXCEPT ![c] = row]
      /\ Totals(p, PaidAfterVoid(c)) /\ CommitMonthly({r})
      /\ UNCHANGED <<bands, deskBooked, shut>>
  BY DEF VoidPlanPayment
<1>2. c \in DOMAIN planPayments
  BY <1>1 DEF MonthlyInv, MonthlyJobs, MonthlyJob
<1>3. p \in DOMAIN plans /\ planPayments[c] \in PlanPayment
  BY <1>0, <1>2 DEF MonthlyInv, MonthlyRows
<1>4. row \in PlanPayment /\ row.plan = p
  BY <1>3 DEF PlanPayment
<1>5. PaidAfterVoid(c) \in Nat
  <2>. HIDE DEF c
  <2>. QED  BY <1>0, PaidAfterVoidNat
<1> HIDE DEF row
<1> HIDE DEF p
<1>6. /\ planPayments' \in Seq(PlanPayment) /\ DOMAIN planPayments' = DOMAIN planPayments
      /\ \A d \in DOMAIN planPayments' : d # c => planPayments'[d] = planPayments[d]
      /\ planPayments'[c] = row
  <2>1. planPayments' = [planPayments EXCEPT ![c] = row]
    BY <1>1
  <2>2. planPayments' \in Seq(PlanPayment) /\ DOMAIN planPayments' = DOMAIN planPayments
    BY <1>0, <1>2, <1>4, <2>1
  <2>3. \A d \in DOMAIN planPayments' : d # c => planPayments'[d] = planPayments[d]
    BY <2>1, <2>2
  <2>4. planPayments'[c] = row
    BY <1>2, <2>1
  <2>. QED  BY <2>2, <2>3, <2>4
<1>7. \A d \in DOMAIN planPayments : planPayments[d].plan \in DOMAIN plans
  BY DEF MonthlyInv, MonthlyRows
<1>8. \A d \in DOMAIN planPayments' : planPayments'[d].plan \in DOMAIN plans
  BY <1>3, <1>4, <1>6, <1>7
<1> HIDE DEF c
<1>. QED  BY <1>1, <1>3, <1>5, <1>6, <1>8, TotalsKeep

\* On SQLite the desk books nothing while a plan is being confirmed.
LEMMA DeskBooksKeeps ==
    ASSUME MonthlyInv, NEW s \in PlanSlot, DeskBooks(s) \/ ChangeClosure(s)
    PROVE  MonthlyInv'
<1>1. UNCHANGED <<bands, plans, planPayments>> /\ CommitMonthly({})
  BY DEF DeskBooks, ChangeClosure
<1>2. shut' \subseteq PlanSlot /\ deskBooked' \in [PlanSlot -> 0 .. Courts]
  <2>0. shut \subseteq PlanSlot /\ deskBooked \in [PlanSlot -> 0 .. Courts]
    BY DEF MonthlyInv, MonthlyRows
  <2>1. CASE DeskBooks(s)
    <3>1. deskBooked[s] \in 0 .. Courts /\ deskBooked[s] < Courts /\ Courts \in Nat
      BY <2>0, <2>1, PlansAssumption DEF DeskBooks
    <3>2. deskBooked[s] + 1 \in 0 .. Courts
      BY <3>1
    <3>. QED  BY <2>0, <2>1, <3>2 DEF DeskBooks
  <2>2. CASE ChangeClosure(s)
    BY <2>0, <2>2 DEF ChangeClosure
  <2>. QED  BY <2>1, <2>2
<1>3. MonthlyRows' /\ CourtsShared'
  BY <1>1, <1>2 DEF MonthlyInv, MonthlyRows, CourtsShared
<1>4. /\ UNCHANGED driver /\ DOMAIN tx' = Request
      /\ \A k \in Request : tx'[k] = Idle \/ tx'[k] = tx[k]
      /\ driver = "sqlite" => \A k \in Request : ~InWindow(k)
  BY <1>1 DEF CommitMonthly, MayCommit, WindowFree, End, Overtaken
<1>5. ASSUME NEW k \in Request, tx'[k] = tx[k] PROVE MonthlyJob(k)'
  <2>1. MonthlyJob(k)
    BY DEF MonthlyInv, MonthlyJobs
  <2>2. tx[k].op = "confirm" /\ ConfirmJob(k) => ConfirmJob(k)'
    BY <1>1, <1>4, <1>5 DEF ConfirmJob, InWindow
  <2>. QED  BY <1>1, <1>5, <2>1, <2>2 DEF MonthlyJob, PlanJob, PayJob
<1>6. MonthlyJobs'
  BY <1>4, <1>5, MonthlyJobsKept
<1>. QED  BY <1>3, <1>6 DEF MonthlyInv

LEMMA MonthlyStepKeeps == MonthlyInv /\ [MonthlyNext]_<<driver, tx, monthly>> => MonthlyInv'
<1>. SUFFICES ASSUME MonthlyInv, [MonthlyNext]_<<driver, tx, monthly>> PROVE MonthlyInv'
  OBVIOUS
<1>1. CASE UNCHANGED <<driver, tx, monthly>>
  BY <1>1, QuietPlans DEF MonthlyInv, MonthlyJobs
<1>2. CASE \E r \in Request : GiveUp(r) /\ UNCHANGED monthly
  BY <1>2, QuietPlans DEF GiveUp, End
<1>3. CASE MonthlyNext
  BY <1>2, <1>3, LookAtBandsKeeps, LookToPlanKeeps, LookToContinueKeeps, LookToConfirmKeeps,
     LookToPayPlanKeeps, LookToVoidKeeps, InsertBandKeeps, CreatePlanKeeps, ConfirmPlanKeeps,
     PayPlanKeeps, VoidPlanPaymentKeeps, DeskBooksKeeps
     DEF MonthlyNext
<1>. QED  BY <1>1, <1>3

LEMMA MonthlyInvHolds == MonthlySpec => []MonthlyInv
  BY MonthlyStepKeeps, MonthlyInitHolds, PTL DEF MonthlySpec

LEMMA MonthlyInvTyped == MonthlyInv => MonthlyTypeOK
<1>. SUFFICES ASSUME MonthlyInv PROVE MonthlyTypeOK
  OBVIOUS
<1>1. \A p \in DOMAIN plans : plans[p] \in Plan
  BY DEF MonthlyInv, MonthlyRows
<1>2. \A p \in DOMAIN plans :
        /\ plans[p].sessions \subseteq PlanSlot
        /\ plans[p].gross \in Nat /\ plans[p].collected \in Nat /\ plans[p].outstanding \in Nat
  BY <1>1 DEF Plan
<1>. QED  BY <1>2 DEF MonthlyInv, MonthlyRows, MonthlyTypeOK

\* Monthly plans have their types: every session of a plan is a slot of the
\* calendar, no total is negative, and every payment names a plan.
THEOREM MonthlyTyped == MonthlySpec => []MonthlyTypeOK
  BY MonthlyInvTyped, MonthlyInvHolds, PTL

\* The sessions of the plans that wait or are confirmed never need more courts of
\* a slot than there are, on either driver; and on SQLite a plan is confirmed only
\* when the slots of its sessions are open and have room for it beside every
\* booking of the desk.  Nothing is said of an hour that has no session, because it
\* had no price: a plan may have fewer sessions than hours, or none.
THEOREM PlansShareTheirCourts == MonthlySpec => PlansHaveRoom
<1> DEFINE A == driver = "sqlite" =>
                  \A p \in DOMAIN plans :
                    plans[p].status = "pending" /\ plans'[p].status = "confirmed" =>
                      \A s \in plans[p].sessions :
                        s \notin shut /\ deskBooked[s] + Planned(s, {}) <= Courts
<1>1. MonthlyInv => PlansShareTheCourts
  BY PlansCount, PlannedIs DEF MonthlyInv, CourtsShared, PlansShareTheCourts
<1>2. MonthlyInv /\ [MonthlyNext]_<<driver, tx, monthly>> => [A]_<<tx, monthly>>
  <2>. SUFFICES ASSUME MonthlyInv, [MonthlyNext]_<<driver, tx, monthly>>,
                       NEW p \in DOMAIN plans, plans'[p].status # plans[p].status,
                       plans'[p].status = "confirmed", driver = "sqlite"
                PROVE  \A s \in plans[p].sessions :
                          s \notin shut /\ deskBooked[s] + Planned(s, {}) <= Courts
    OBVIOUS
  <2>1. ~ UNCHANGED plans
    OBVIOUS
  <2>2. CASE \E r \in Request : CreatePlan(r)
    BY <2>2 DEF CreatePlan, MonthlyInv, MonthlyRows
  <2>3. CASE \E r \in Request : PayPlan(r) \/ VoidPlanPayment(r)
    BY <2>3, PayPlanKeeps, VoidPlanPaymentKeeps
  <2>4. CASE \E r \in Request : ConfirmPlan(r)
    BY <2>4, ConfirmPlanKeeps
  <2>. QED  BY <2>1, <2>2, <2>3, <2>4
            DEF MonthlyNext, monthly, LookAtBands, LookToPlan, LookToContinue, LookToConfirm,
                LookToPayPlan, LookToVoidPlanPayment, InsertBand, DeskBooks, ChangeClosure
<1>. QED  BY <1>1, <1>2, MonthlyInvHolds, PTL DEF MonthlySpec, PlansHaveRoom, ConfirmedWithRoom
----------------------------------------------------------------------------
(***************************************************************************)
(* Commissions of referral partners (Referrals)                            *)
(***************************************************************************)

referralVars == <<driver, tx, referral>>

ReferralsSpec == InitRequests /\ ReferralsInit /\ [][ReferralsNext]_referralVars

Referral == [amount : Commissions, paid : BOOLEAN, voided : BOOLEAN]
Payout   == [booking : Referred, amount : Commissions, voided : BOOLEAN]

\* The payouts of a booking that stand
Owed(T, b) == {t.amount : t \in {t \in T : t.booking = b /\ ~t.voided}}

Balanced(row, S) == S = IF row.paid THEN {row.amount} ELSE {}

DeskRows ==
    /\ partners \subseteq Partner /\ commission \in Commissions
    /\ DOMAIN standing \subseteq Referred
    /\ \A b \in DOMAIN standing : standing[b] \in {"pending", "confirmed", "cancelled"}

ReferralRows ==
    /\ DeskRows /\ DOMAIN referrals \subseteq DOMAIN standing
    /\ \A b \in DOMAIN referrals : referrals[b] \in Referral
    /\ payouts \subseteq Payout

ReferralJobs ==
    /\ DOMAIN tx = Request
    /\ \A r \in Request :
          /\ tx[r].op = "refer" => tx[r].booking \in Referred /\ tx[r].amount \in Commissions
          /\ tx[r].op \in {"pay out", "void payout"} => tx[r].booking \in DOMAIN referrals

ReferralsInv == ReferralRows /\ ReferralJobs /\ PayoutsAgree
----------------------------------------------------------------------------
LEMMA ReferralsInitHolds == InitRequests /\ ReferralsInit => ReferralsInv
<1> SUFFICES ASSUME InitRequests, ReferralsInit PROVE ReferralsInv  OBVIOUS
<1>1. DOMAIN referrals = {} /\ DOMAIN standing = {} /\ payouts = {} /\ commission = 0
  BY DEF ReferralsInit, NobodyReferred
<1>0. partners = {} /\ 0 \in Commissions
  BY ReferralsAssumption DEF ReferralsInit
<1>2. DOMAIN tx = Request /\ \A r \in Request : tx[r].op = "idle"
  BY DEF InitRequests, Idle
<1>3. ReferralRows
  BY <1>0, <1>1 DEF ReferralRows, DeskRows
<1>4. ReferralJobs
  BY <1>2 DEF ReferralJobs
<1>5. PayoutsAgree
  BY <1>1 DEF PayoutsAgree
<1>. QED  BY <1>3, <1>4, <1>5 DEF ReferralsInv

\* What End leaves of the requests
LEMMA EndKeepsReferrals ==
    ASSUME ReferralJobs, NEW R, End(R), DOMAIN referrals \subseteq DOMAIN referrals'
    PROVE  ReferralJobs'
  BY DEF ReferralJobs, End, Idle

\* A step that leaves referrals and payouts alone, and frees no booking.
LEMMA QuietReferrals ==
    ASSUME ReferralsInv, ReferralJobs', UNCHANGED <<referrals, payouts>>, DeskRows',
           DOMAIN standing \subseteq DOMAIN standing'
    PROVE  ReferralsInv'
<1>1. ReferralRows'
  BY DEF ReferralsInv, ReferralRows
<1>2. PayoutsAgree'
  BY DEF ReferralsInv, PayoutsAgree
<1>. QED  BY <1>1, <1>2 DEF ReferralsInv

LEMMA ReferralLooksKeep ==
    ASSUME ReferralsInv, NEW r \in Request, NEW j, LooksAtReferrals(r, j),
           j.op = "refer" => j.booking \in Referred /\ j.amount \in Commissions,
           j.op \in {"pay out", "void payout"} => j.booking \in DOMAIN referrals
    PROVE  ReferralsInv'
<1>1. UNCHANGED referral /\ tx' = [tx EXCEPT ![r] = j]
  BY DEF LooksAtReferrals, Look
<1>2. ReferralJobs'
  BY <1>1 DEF ReferralsInv, ReferralJobs, referral
<1>3. DeskRows'
  BY <1>1 DEF ReferralsInv, ReferralRows, DeskRows, referral
<1>. QED  BY <1>1, <1>2, <1>3, QuietReferrals DEF referral

LEMMA ReferStep == ASSUME ReferralsInv, NEW r \in Request, Refer(r) PROVE ReferralsInv'
<1> DEFINE b   == tx[r].booking
           row == [amount |-> tx[r].amount, paid |-> FALSE, voided |-> FALSE]
<1>1. /\ b \notin DOMAIN standing /\ b \notin DOMAIN referrals
      /\ standing' = SetRow(standing, b, "pending") /\ referrals' = SetRow(referrals, b, row)
      /\ payouts' = payouts /\ UNCHANGED <<commission, partners>>
      /\ End(Overtaken({}) \cup {r})
      /\ row \in Referral /\ b \in Referred
  BY DEF Refer, EndsReferral, ReferralsInv, ReferralRows, ReferralJobs, Referral
<1> HIDE DEF b, row
<1>2. /\ DOMAIN standing' = DOMAIN standing \cup {b}
      /\ DOMAIN referrals' = DOMAIN referrals \cup {b} /\ referrals'[b] = row
      /\ \A q \in DOMAIN referrals : referrals'[q] = referrals[q]
      /\ standing'[b] = "pending" /\ \A q \in DOMAIN standing : standing'[q] = standing[q]
  BY <1>1 DEF SetRow
<1>3. ReferralRows'
  BY <1>1, <1>2 DEF ReferralsInv, ReferralRows, DeskRows
<1>4. ReferralJobs'
  BY <1>1, <1>2, EndKeepsReferrals DEF ReferralsInv
<1>5. PayoutsAgree'
  <2>1. \A t \in payouts : t.booking # b
    BY <1>1 DEF ReferralsInv, PayoutsAgree
  <2>2. {t.amount : t \in {t \in payouts : t.booking = b /\ ~t.voided}} = {}
    BY <2>1
  <2>3. ~row.paid
    BY DEF row
  <2>. QED  BY <1>1, <1>2, <2>2, <2>3 DEF ReferralsInv, PayoutsAgree
<1>. QED  BY <1>3, <1>4, <1>5 DEF ReferralsInv

\* A change of one flag, with payouts of that booking only.
LEMMA FlagStep ==
    ASSUME ReferralsInv, NEW r \in Request, NEW b \in DOMAIN referrals, NEW row \in Referral,
           referrals' = [referrals EXCEPT ![b] = row],
           UNCHANGED <<partners, commission, standing>>, EndsReferral(r),
           payouts' \subseteq Payout, \A t \in payouts' : t.booking \in DOMAIN referrals,
           \A q \in DOMAIN referrals \ {b} : Owed(payouts', q) = Owed(payouts, q),
           Balanced(row, Owed(payouts', b))
    PROVE  ReferralsInv'
<1>1. /\ DOMAIN referrals' = DOMAIN referrals /\ referrals'[b] = row
      /\ \A q \in DOMAIN referrals \ {b} : referrals'[q] = referrals[q]
  OBVIOUS
<1>2. ReferralRows'
  BY <1>1 DEF ReferralsInv, ReferralRows, DeskRows
<1>3. ReferralJobs'
  BY <1>1, EndKeepsReferrals DEF ReferralsInv, EndsReferral
<1>4. PayoutsAgree'
  <2>1. \A t \in payouts' : t.booking \in DOMAIN referrals' \cap DOMAIN standing'
    BY <1>1 DEF ReferralsInv, ReferralRows
  <2>2. \A q \in DOMAIN referrals' : Balanced(referrals'[q], Owed(payouts', q))
    BY <1>1 DEF ReferralsInv, PayoutsAgree, Balanced, Owed
  <2>. QED  BY <2>1, <2>2 DEF PayoutsAgree, Balanced, Owed
<1>. QED  BY <1>2, <1>3, <1>4 DEF ReferralsInv

LEMMA PayOutStep == ASSUME ReferralsInv, NEW r \in Request, PayOut(r) PROVE ReferralsInv'
<1> DEFINE b   == tx[r].booking
           t0  == [booking |-> b, amount |-> referrals[b].amount, voided |-> FALSE]
           row == [referrals[b] EXCEPT !.paid = TRUE]
<1>1. /\ b \in DOMAIN referrals /\ referrals[b] \in Referral
      /\ \A t \in payouts : t.booking # b
      /\ payouts' = payouts \cup {t0}
      /\ referrals' = [referrals EXCEPT ![b].paid = TRUE]
      /\ EndsReferral(r) /\ UNCHANGED <<partners, commission, standing>>
  BY DEF PayOut, FirstPayout, ReferralsInv, ReferralRows, ReferralJobs
<1>2. referrals' = [referrals EXCEPT ![b] = row]
  BY <1>1
<1>3. row \in Referral /\ row.paid /\ row.amount = referrals[b].amount
  BY <1>1 DEF Referral
<1>4. payouts' \subseteq Payout /\ \A t \in payouts' : t.booking \in DOMAIN referrals
  <2>1. t0 \in Payout /\ t0.booking = b
    BY <1>1 DEF ReferralsInv, ReferralRows, DeskRows, Payout, Referral
  <2> HIDE DEF t0
  <2>. QED  BY <1>1, <2>1 DEF ReferralsInv, ReferralRows, PayoutsAgree
<1>5. \A q \in DOMAIN referrals \ {b} : Owed(payouts', q) = Owed(payouts, q)
  BY <1>1 DEF Owed
<1>6. Owed(payouts', b) = {row.amount}
  <2>1. {t \in payouts' : t.booking = b /\ ~t.voided} = {t0}
    BY <1>1
  <2>2. t0.amount = row.amount
    BY <1>3
  <2> HIDE DEF t0, b, row
  <2>. QED  BY <2>1, <2>2 DEF Owed
<1>7. Balanced(row, Owed(payouts', b))
  BY <1>3, <1>6 DEF Balanced
<1> HIDE DEF b, row
<1>. QED  BY <1>1, <1>2, <1>3, <1>4, <1>5, <1>7, FlagStep

LEMMA VoidStep == ASSUME ReferralsInv, NEW r \in Request, VoidPayout(r) PROVE ReferralsInv'
<1> DEFINE b   == tx[r].booking
           row == [referrals[b] EXCEPT !.paid = FALSE, !.voided = TRUE]
<1>1. /\ b \in DOMAIN referrals /\ referrals[b] \in Referral
      /\ payouts' = {IF t.booking = b THEN [t EXCEPT !.voided = TRUE] ELSE t : t \in payouts}
      /\ referrals' = [referrals EXCEPT ![b].paid = FALSE, ![b].voided = TRUE]
      /\ EndsReferral(r) /\ UNCHANGED <<partners, commission, standing>>
  BY DEF VoidPayout, Reversed, ReferralsInv, ReferralRows, ReferralJobs
<1>2. referrals' = [referrals EXCEPT ![b] = row]
  BY <1>1
<1>3. row \in Referral /\ ~row.paid
  BY <1>1 DEF Referral
<1>4. payouts' \subseteq Payout /\ \A t \in payouts' : t.booking \in DOMAIN referrals
  BY <1>1 DEF ReferralsInv, PayoutsAgree, ReferralRows, Payout, Referral
<1>5. \A q \in DOMAIN referrals \ {b} : Owed(payouts', q) = Owed(payouts, q)
  <2>1. \A t : \A q \in DOMAIN referrals \ {b} : t.booking = q => (t \in payouts' <=> t \in payouts)
    BY <1>1 DEF ReferralsInv, ReferralRows, Payout
  <2>. QED  BY <2>1 DEF Owed
<1>6. \A t \in payouts' : t.booking = b => t.voided
  BY <1>1 DEF ReferralsInv, ReferralRows, Payout
<1>7. Balanced(row, Owed(payouts', b))
  BY <1>3, <1>6 DEF Balanced, Owed
<1> HIDE DEF b, row
<1>. QED  BY <1>1, <1>2, <1>3, <1>4, <1>5, <1>7, FlagStep
----------------------------------------------------------------------------
LEMMA ReferralsStepKeeps == ReferralsInv /\ [ReferralsNext]_referralVars => ReferralsInv'
<1> SUFFICES ASSUME ReferralsInv, [ReferralsNext]_referralVars PROVE ReferralsInv'
  OBVIOUS
<1>0. \A R : End(R) /\ referrals' = referrals => ReferralJobs'
  BY EndKeepsReferrals DEF ReferralsInv
<1>1. ASSUME NEW amount \in Commissions, SetCommission(amount) PROVE ReferralsInv'
  <2>1. DeskRows'
    BY <1>1 DEF SetCommission, ReferralsInv, ReferralRows, DeskRows
  <2>. QED  BY <1>0, <1>1, <2>1, QuietReferrals DEF SetCommission, AtOnce
<1>2. ASSUME NEW p \in Partner, TogglePartner(p) PROVE ReferralsInv'
  <2>1. DeskRows'
    BY <1>2 DEF TogglePartner, ReferralsInv, ReferralRows, DeskRows
  <2>. QED  BY <1>0, <1>2, <2>1, QuietReferrals DEF TogglePartner, AtOnce
<1>3. ASSUME NEW b \in Referred, BookAlone(b) PROVE ReferralsInv'
  <2>1. DeskRows' /\ DOMAIN standing \subseteq DOMAIN standing'
    BY <1>3 DEF BookAlone, SetRow, ReferralsInv, ReferralRows, DeskRows
  <2>. QED  BY <1>0, <1>3, <2>1, QuietReferrals DEF BookAlone, AtOnce
<1>4. ASSUME NEW b \in DOMAIN standing, NEW to \in {"confirmed", "cancelled"}, ChangeStanding(b, to) PROVE ReferralsInv'
  <2>1. DeskRows' /\ DOMAIN standing \subseteq DOMAIN standing'
    BY <1>4 DEF ChangeStanding, ReferralsInv, ReferralRows, DeskRows
  <2>. QED  BY <1>0, <1>4, <2>1, QuietReferrals DEF ChangeStanding, AtOnce
<1>5. ASSUME NEW r \in Request, NEW b \in Referred, NEW p, LookToRefer(r, b, p) PROVE ReferralsInv'
  <2> DEFINE j == [op |-> "refer", booking |-> b, amount |-> commission]
  <2>1. j.booking \in Referred /\ j.amount \in Commissions /\ j.op \notin {"pay out", "void payout"} /\ LooksAtReferrals(r, j)
    BY <1>5 DEF LookToRefer, ReferralsInv, ReferralRows, DeskRows
  <2> HIDE DEF j
  <2>. QED  BY <2>1, ReferralLooksKeep
<1>6. ASSUME NEW r \in Request, NEW b \in DOMAIN referrals,
             LookToPayOut(r, b) \/ LookToVoidPayout(r, b)
      PROVE  ReferralsInv'
  <2>1. PICK op \in {"pay out", "void payout"} :
            LooksAtReferrals(r, [op |-> op, booking |-> b])
    BY <1>6 DEF LookToPayOut, LookToVoidPayout
  <2> DEFINE j == [op |-> op, booking |-> b]
  <2>2. j.op # "refer" /\ j.booking \in DOMAIN referrals /\ LooksAtReferrals(r, j)
    BY <2>1
  <2> HIDE DEF j
  <2>. QED  BY <2>2, ReferralLooksKeep
<1>7. ASSUME NEW r \in Request, GiveUp(r), UNCHANGED referral PROVE ReferralsInv'
  <2>1. DeskRows'
    BY <1>7 DEF referral, ReferralsInv, ReferralRows, DeskRows
  <2>. QED  BY <1>0, <1>7, <2>1, QuietReferrals DEF GiveUp, referral
<1>8. CASE UNCHANGED referralVars
  <2>1. DeskRows' /\ ReferralJobs'
    BY <1>8 DEF referralVars, referral, ReferralsInv, ReferralRows, DeskRows, ReferralJobs
  <2>. QED  BY <1>8, <2>1, QuietReferrals DEF referralVars, referral
<1>. QED
  BY <1>1, <1>2, <1>3, <1>4, <1>5, <1>6, <1>7, <1>8, ReferStep, PayOutStep, VoidStep
  DEF ReferralsNext

LEMMA ReferralsInvTyped == ReferralsInv => ReferralsTypeOK
  BY DEF ReferralsInv, ReferralRows, DeskRows, Referral, Payout, ReferralsTypeOK

\* Partners, commissions and payouts have their types: in particular a payout is
\* of a commission that was set at some time.
THEOREM ReferralsTyped == ReferralsSpec => []ReferralsTypeOK
  BY ReferralsInvTyped, ReferralsInitHolds, ReferralsStepKeeps, PTL DEF ReferralsSpec

\* However payouts, voids, bookings and changes of the commission interleave:
\* a commission that says it is paid has one payout that stands, of the amount
\* recorded with the booking, and one that says it is not has none.
THEOREM CommissionsAgree == ReferralsSpec => []PayoutsAgree
<1>1. ReferralsInv => PayoutsAgree
  BY DEF ReferralsInv
<1>. QED  BY <1>1, ReferralsInitHolds, ReferralsStepKeeps, PTL DEF ReferralsSpec
----------------------------------------------------------------------------
(***************************************************************************)
(* The parts together (MCCollections).  A behaviour is of one part, whose  *)
(* requests do not touch the tables of the others.                         *)
(***************************************************************************)

\* The requests that are served are of the operations Ops.
OnlyServes(Ops) == DOMAIN tx = Request /\ \A r \in Request : tx[r].op \in Ops \cup {"idle"}

PaymentOps == {"collect", "void"}
PlanOps == {"band", "plan", "confirm", "pay plan", "void plan payment"}
ReferralOps == {"refer", "pay out", "void payout"}

LEMMA BeginServes ==
    ASSUME NEW Ops, OnlyServes(Ops), NEW r \in Request, NEW j, Look(r, j), j.op \in Ops
    PROVE  OnlyServes(Ops)'
  BY DEF OnlyServes, Look

LEMMA EndServes == ASSUME NEW Ops, OnlyServes(Ops), NEW R, End(R) PROVE OnlyServes(Ops)'
  BY DEF OnlyServes, End, Idle

LEMMA PlansServe ==
    ASSUME OnlyServes(PlanOps), [MonthlyNext]_<<driver, tx, monthly>> PROVE OnlyServes(PlanOps)'
<1>1. ASSUME NEW r \in Request,
             \/ \E b \in BandForms : LookAtBands(r, b)
             \/ \E p \in DOMAIN plans :
                   \/ LookToConfirm(r, p)
                   \/ \E amount \in 1 .. plans[p].outstanding : LookToPayPlan(r, p, amount)
             \/ \E c \in DOMAIN planPayments : LookToVoidPlanPayment(r, c)
      PROVE  OnlyServes(PlanOps)'
  <2>1. PICK j : Look(r, j) /\ j.op \in PlanOps
    <3>1. CASE \E b \in BandForms : LookAtBands(r, b)
      <4>1. PICK b : Look(r, [op |-> "band", band |-> b])
        BY <3>1 DEF LookAtBands
      <4>2. [op |-> "band", band |-> b].op \in PlanOps
        BY DEF PlanOps
      <4>. QED  BY <4>1, <4>2
    <3>2. CASE \E p \in DOMAIN plans : LookToConfirm(r, p)
      <4>1. PICK p : Look(r, [op |-> "confirm", plan |-> p])
        BY <3>2 DEF LookToConfirm
      <4>2. [op |-> "confirm", plan |-> p].op \in PlanOps
        BY DEF PlanOps
      <4>. QED  BY <4>1, <4>2
    <3>3. CASE \E p \in DOMAIN plans : \E amount \in 1 .. plans[p].outstanding :
                  LookToPayPlan(r, p, amount)
      <4>1. PICK p, amount : Look(r, [op |-> "pay plan", plan |-> p, amount |-> amount,
                                      collected |-> plans[p].collected + amount])
        BY <3>3 DEF LookToPayPlan
      <4> DEFINE j == [op |-> "pay plan", plan |-> p, amount |-> amount,
                       collected |-> plans[p].collected + amount]
      <4>2. Look(r, j) /\ j.op \in PlanOps
        BY <4>1 DEF PlanOps
      <4> HIDE DEF j
      <4>. QED  BY <4>2
    <3>4. CASE \E c \in DOMAIN planPayments : LookToVoidPlanPayment(r, c)
      <4>1. PICK c : Look(r, [op |-> "void plan payment", payment |-> c])
        BY <3>4 DEF LookToVoidPlanPayment
      <4>2. [op |-> "void plan payment", payment |-> c].op \in PlanOps
        BY DEF PlanOps
      <4>. QED  BY <4>1, <4>2
    <3>. QED  BY <1>1, <3>1, <3>2, <3>3, <3>4
  <2>. QED  BY <2>1, BeginServes
<1>2. ASSUME NEW r \in Request, NEW month, NEW rules, NEW q, LookToPlan(r, month, rules, q)
      PROVE  OnlyServes(PlanOps)'
  <2> DEFINE S == SessionsOf(month, rules)
             j == [op |-> "plan", rules |-> rules, sessions |-> Priced(S),
                   total |-> Cardinality(S), quantity |-> q, gross |-> Gross(S)]
  <2>1. Look(r, j) /\ j.op = "plan"
    BY <1>2 DEF LookToPlan
  <2> HIDE DEF j
  <2>. QED  BY <2>1, BeginServes DEF PlanOps
<1>3. ASSUME NEW r \in Request,
             \/ InsertBand(r) \/ CreatePlan(r) \/ ConfirmPlan(r) \/ PayPlan(r) \/ VoidPlanPayment(r)
             \/ GiveUp(r)
      PROVE  OnlyServes(PlanOps)'
  BY <1>3, EndServes DEF InsertBand, CreatePlan, ConfirmPlan, PayPlan, VoidPlanPayment, GiveUp,
                         CommitMonthly
<1>4. ASSUME NEW s \in PlanSlot, DeskBooks(s) \/ ChangeClosure(s) PROVE OnlyServes(PlanOps)'
  BY <1>4, EndServes DEF DeskBooks, ChangeClosure, CommitMonthly
<1>5. CASE UNCHANGED <<driver, tx, monthly>>
  BY <1>5 DEF OnlyServes
<1>. QED  BY <1>1, <1>2, <1>3, <1>4, <1>5 DEF MonthlyNext, LookToContinue

LEMMA ReferralsServe ==
    ASSUME OnlyServes(ReferralOps), [ReferralsNext]_referralVars PROVE OnlyServes(ReferralOps)'
<1>1. ASSUME NEW r \in Request,
             \/ \E b \in Referred, p \in Partner : LookToRefer(r, b, p)
             \/ \E b \in DOMAIN referrals : LookToPayOut(r, b) \/ LookToVoidPayout(r, b)
      PROVE  OnlyServes(ReferralOps)'
  <2>1. PICK j : Look(r, j) /\ j.op \in ReferralOps
    <3>1. CASE \E b \in Referred, p \in Partner : LookToRefer(r, b, p)
      <4>1. PICK b : Look(r, [op |-> "refer", booking |-> b, amount |-> commission])
        BY <3>1 DEF LookToRefer, LooksAtReferrals
      <4>2. [op |-> "refer", booking |-> b, amount |-> commission].op \in ReferralOps
        BY DEF ReferralOps
      <4>. QED  BY <4>1, <4>2
    <3>2. CASE \E b \in DOMAIN referrals : LookToPayOut(r, b) \/ LookToVoidPayout(r, b)
      <4>1. PICK op \in {"pay out", "void payout"}, b \in DOMAIN referrals : Look(r, [op |-> op, booking |-> b])
        BY <3>2 DEF LookToPayOut, LookToVoidPayout, LooksAtReferrals
      <4>2. [op |-> op, booking |-> b].op \in ReferralOps
        BY DEF ReferralOps
      <4>. QED  BY <4>1, <4>2
    <3>. QED  BY <1>1, <3>1, <3>2
  <2>. QED  BY <2>1, BeginServes
<1>2. ASSUME NEW r \in Request, Refer(r) \/ PayOut(r) \/ VoidPayout(r) \/ GiveUp(r)
      PROVE  OnlyServes(ReferralOps)'
  BY <1>2, EndServes DEF Refer, PayOut, VoidPayout, GiveUp, EndsReferral
<1>3. CASE \/ \E amount \in Commissions : SetCommission(amount)
           \/ \E p \in Partner : TogglePartner(p)
           \/ \E b \in Referred : BookAlone(b)
           \/ \E b \in DOMAIN standing, to \in {"confirmed", "cancelled"} : ChangeStanding(b, to)
  BY <1>3, EndServes DEF SetCommission, TogglePartner, BookAlone, ChangeStanding, AtOnce
<1>4. CASE UNCHANGED referralVars
  BY <1>4 DEF OnlyServes, referralVars
<1>. QED  BY <1>1, <1>2, <1>3, <1>4 DEF ReferralsNext

\* Whatever TLC finds, or does not find, of the parts together is a behaviour of
\* one of them alone: so what is proved of each holds here.
THEOREM CollectionsAreApart ==
    Spec => \/ part = "payments" /\ PaymentsSpec
            \/ part = "packages" /\ PackagesSpec
            \/ part = "plans" /\ MonthlySpec
            \/ part = "referrals" /\ ReferralsSpec
<1>1. Init => /\ part = "payments" \/ part = "packages" \/ part = "plans" \/ part = "referrals"
              /\ InitRequests /\ PaymentsInit /\ PackagesInit /\ MonthlyInit /\ ReferralsInit
  BY DEF Init, Parts
<1>2. part = "payments" /\ [Next]_vars
        => (part = "payments")' /\ [PaymentsNext]_<<driver, tx, payments>>
  BY DEF Next, vars
<1>3. part = "packages" /\ [Next]_vars
        => (part = "packages")' /\ [PackagesNext]_packageVars
  BY DEF Next, vars, packageVars
<1>4. part = "plans" /\ [Next]_vars => (part = "plans")' /\ [MonthlyNext]_<<driver, tx, monthly>>
  BY DEF Next, vars
<1>5. part = "referrals" /\ [Next]_vars => (part = "referrals")' /\ [ReferralsNext]_referralVars
  BY DEF Next, vars, referralVars
<1>. QED
  BY <1>1, <1>2, <1>3, <1>4, <1>5, PTL
  DEF Spec, PaymentsSpec, PackagesSpec, MonthlySpec, ReferralsSpec

\* Requests of a part are of its operations.
Served ==
    \/ part = "payments" /\ OnlyServes(PaymentOps)
    \/ part = "packages" /\ OnlyServes(NotIsolatedEver)
    \/ part = "plans" /\ OnlyServes(PlanOps)
    \/ part = "referrals" /\ OnlyServes(ReferralOps)

LEMMA PartStays == part \in Parts /\ [Next]_vars => part' = part /\ part' \in Parts
  BY DEF Next, vars

LEMMA ServedAlways == Spec => []Served
<1>0. /\ ~(part = "payments" /\ (part = "packages" \/ part = "plans" \/ part = "referrals"))
      /\ ~(part = "packages" /\ (part = "plans" \/ part = "referrals"))
  OBVIOUS
<1>1. Init => /\ part \in Parts
              /\ InitRequests /\ PaymentsInit /\ PackagesInit /\ MonthlyInit /\ ReferralsInit
  BY DEF Init
<1>2. Init => \A Ops : OnlyServes(Ops)
  BY <1>1 DEF InitRequests, OnlyServes, Idle
<1>3. PaymentsInv => OnlyServes(PaymentOps)
  <2>. SUFFICES ASSUME PaymentsInv PROVE OnlyServes(PaymentOps)
    OBVIOUS
  <2>1. ASSUME NEW j \in PaymentRequest PROVE j.op \in PaymentOps
    BY DEF PaymentRequest, PaymentOps
  <2>2. DOMAIN tx = Request /\ \A r \in Request : tx[r] = Idle \/ tx[r] \in PaymentRequest
    BY DEF PaymentsInv, PaymentJobs
  <2>. QED  BY <2>1, <2>2 DEF OnlyServes, Idle
<1>4. PackagesInv => OnlyServes(NotIsolatedEver)
  <2>. SUFFICES ASSUME PackagesInv PROVE OnlyServes(NotIsolatedEver)
    OBVIOUS
  <2>1. ASSUME NEW j \in PackageRequest PROVE j.op \in NotIsolatedEver
    BY DEF PackageRequest, NotIsolatedEver
  <2>2. DOMAIN tx = Request /\ \A r \in Request : tx[r] = Idle \/ tx[r] \in PackageRequest
    BY DEF PackagesInv, PackageJobs
  <2>. QED  BY <2>1, <2>2 DEF OnlyServes, Idle
<1>5. /\ Served /\ [Next]_vars
      /\ part = "payments" => OnlyServes(PaymentOps)'
      /\ part = "packages" => OnlyServes(NotIsolatedEver)'
      => Served'
  <2>. SUFFICES ASSUME [Next]_vars, Served,
                       part = "payments" => OnlyServes(PaymentOps)',
                       part = "packages" => OnlyServes(NotIsolatedEver)'
                PROVE  Served'
    OBVIOUS
  <2>1. part' = part
    BY PartStays DEF Served, Parts
  <2>2. CASE part = "payments"
    BY <2>1, <2>2 DEF Served
  <2>3. CASE part = "packages"
    BY <2>1, <2>3 DEF Served
  <2>4. CASE part = "plans"
    <3>1. OnlyServes(PlanOps) /\ [MonthlyNext]_<<driver, tx, monthly>>
      BY <2>4 DEF Served, Next, vars
    <3>. QED  BY <2>1, <2>4, <3>1, PlansServe DEF Served
  <2>5. CASE part = "referrals"
    <3>1. OnlyServes(ReferralOps) /\ [ReferralsNext]_referralVars
      BY <2>5 DEF Served, Next, vars, referralVars
    <3>. QED  BY <2>1, <2>5, <3>1, ReferralsServe DEF Served
  <2>. QED  BY <2>2, <2>3, <2>4, <2>5 DEF Served
<1>6. Init => Served
  BY <1>1, <1>2 DEF Served, Parts
<1>7. part = "payments" /\ Spec => []PaymentsInv
  BY <1>0, CollectionsAreApart, PaymentsInvHolds, PTL
<1>8. part = "packages" /\ Spec => []PackagesInv
  BY <1>0, CollectionsAreApart, PackagesInvHolds, PTL
<1>9. [Next]_vars => /\ (part = "payments" <=> (part = "payments")')
                     /\ (part = "packages" <=> (part = "packages")')
  BY DEF Next, vars
<1>. QED  BY <1>3, <1>4, <1>5, <1>6, <1>7, <1>8, <1>9, PTL DEF Spec

\* Every part has its types, the one that is looked at and those that are not: for
\* any number of requests, and any bookings, packages, plans and partners.
THEOREM CollectionsTyped == Spec => []TypeOK
<1>1. Init => InitRequests /\ PaymentsInit /\ PackagesInit /\ MonthlyInit /\ ReferralsInit
  BY DEF Init
<1>2. Init => PaymentsTypeOK /\ PackagesTypeOK /\ MonthlyTypeOK /\ ReferralsTypeOK
  BY <1>1, PaymentsInitHolds, PaymentsInvTyped, PackagesInitHolds, PackagesInvTyped,
     MonthlyInitHolds, MonthlyInvTyped, ReferralsInitHolds, ReferralsInvTyped
<1>3. PaymentsTypeOK /\ Served' /\ [Next]_vars /\ ~(part = "payments")
        => PaymentsTypeOK' /\ ~(part = "payments")'
  <2>. SUFFICES ASSUME PaymentsTypeOK, Served', [Next]_vars, part # "payments"
                PROVE  PaymentsTypeOK' /\ part' # "payments"
    OBVIOUS
  <2>1. part' # "payments" /\ UNCHANGED <<collection, sequence, desk>>
    BY DEF Next, vars, PackagesNext, Resize, payments, records
  <2>2. \A r \in Request : tx'[r].op \notin {"collect", "void"}
    BY <2>1 DEF Served, OnlyServes, NotIsolatedEver, PlanOps, ReferralOps
  <2>3. financial' \in [Booking -> Financial]
    <3>1. CASE UNCHANGED financial
      BY <3>1 DEF PaymentsTypeOK
    <3>2. CASE \E price \in 0 .. MaxPrice : Requote(PackageBooking, price)
      <4>1. PICK price \in 0 .. MaxPrice : financial' = [financial EXCEPT ![PackageBooking].quoted = price]
        BY <3>2 DEF Requote
      <4>. QED  BY <4>1 DEF PaymentsTypeOK, Financial
    <3>. QED  BY <3>1, <3>2 DEF Next, vars, PackagesNext, Resize, payments, records
  <2>. QED  BY <2>1, <2>2, <2>3 DEF PaymentsTypeOK, desk
<1>4. PackagesTypeOK /\ Served' /\ [Next]_vars /\ ~(part = "packages")
        => PackagesTypeOK' /\ ~(part = "packages")'
  <2>. SUFFICES ASSUME PackagesTypeOK, Served', [Next]_vars, part # "packages"
                PROVE  PackagesTypeOK' /\ part' # "packages"
    OBVIOUS
  <2>1. part' # "packages" /\ UNCHANGED packages
    BY DEF Next, vars
  <2>2. \A r \in Request : tx'[r].op \notin NotIsolatedEver
    BY <2>1 DEF Served, OnlyServes, NotIsolatedEver, PaymentOps, PlanOps, ReferralOps
  <2>. QED  BY <2>1, <2>2 DEF PackagesTypeOK, packages
<1>5. MonthlyTypeOK /\ [Next]_vars /\ ~(part = "plans") => MonthlyTypeOK' /\ ~(part = "plans")'
  BY DEF Next, vars, MonthlyTypeOK, monthly
<1>6. ReferralsTypeOK /\ [Next]_vars /\ ~(part = "referrals")
        => ReferralsTypeOK' /\ ~(part = "referrals")'
  BY DEF Next, vars, ReferralsTypeOK, referral
<1>7. ~(part = "payments" /\ part = "packages") /\ ~(part = "payments" /\ part = "plans")
      /\ ~(part = "payments" /\ part = "referrals") /\ ~(part = "packages" /\ part = "plans")
      /\ ~(part = "packages" /\ part = "referrals") /\ ~(part = "plans" /\ part = "referrals")
  OBVIOUS
<1>8. Spec => []PaymentsTypeOK
  BY <1>2, <1>3, <1>7, ServedAlways, CollectionsAreApart, PaymentsTyped, PTL DEF Spec
<1>9. Spec => []PackagesTypeOK
  BY <1>2, <1>4, <1>7, ServedAlways, CollectionsAreApart, PackagesTyped, PTL DEF Spec
<1>10. Spec => []MonthlyTypeOK
  BY <1>2, <1>5, <1>7, CollectionsAreApart, MonthlyTyped, PTL DEF Spec
<1>11. Spec => []ReferralsTypeOK
  BY <1>2, <1>6, <1>7, CollectionsAreApart, ReferralsTyped, PTL DEF Spec
<1>. QED  BY <1>8, <1>9, <1>10, <1>11, PTL DEF TypeOK
=============================================================================
