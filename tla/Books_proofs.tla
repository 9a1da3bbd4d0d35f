---------------------------- MODULE Books_proofs ----------------------------
(***************************************************************************)
(* The cash book, the money of a tournament and the catalogue, for any number *)
(* of accounts, forms, items, rows and requests: what a page shows agrees with *)
(* the entries, and what names a row finds it.                             *)
(*                                                                         *)
(* Each part has an invariant of its tables and of what its open requests have *)
(* read, which its steps keep.                                             *)
(***************************************************************************)
EXTENDS MCBooks, SetSums, SequenceTheorems
----------------------------------------------------------------------------
(***************************************************************************)
(* The cash book (FinanceCashbook).  On SQLite what an open transaction has *)
(* read is still so; a form that is being entered on PostgreSQL is entered by *)
(* no other request: the index on the operation key keeps it waiting.      *)
(***************************************************************************)

CashbookStep == CashbookNext \/ \E r \in Request : GiveUp(r) /\ UNCHANGED cashbook

CashbookSpec == InitRequests /\ CashbookInit /\ [][CashbookStep]_<<driver, tx, cashbook>>

CashbookRows ==
    /\ DOMAIN account \subseteq Account
    /\ account \in [DOMAIN account -> [active : BOOLEAN, opening : Int]]
    /\ DOMAIN book \subseteq Forms /\ IsFiniteSet(DOMAIN book) /\ book \in [DOMAIN book -> Entry]
    /\ \A f \in DOMAIN book : /\ book[f].copies = 1
                              /\ book[f].status = "pending" => f.kind = "manual"
    /\ DOMAIN counted \subseteq Counts
    /\ counted \in [DOMAIN counted -> [expected : Int, void : BOOLEAN]]
    /\ lockedUntil \in LockDates \cup {0}

\* What the books must be for f to be entered
MayEnter(f) ==
    /\ \A a \in AccountsOf(f) : a \in DOMAIN account /\ account[a].active
    /\ f.kind = "transfer" => Balance(book, f.from) >= f.amount
    /\ f.kind = "opening" => OpeningsOf(book, f.from) = {}

\* What a transaction has read on SQLite is so still.
StillSo(j) ==
    /\ j.op = "post" => MayEnter(j.form)
    /\ j.op \in {"void", "approve"} => Unlocked(j.form.day)
    /\ j.op = "count" => j.expected = BalanceAsOf(book, j.form.account, j.form.day)
    /\ j.op \in {"deactivate", "delete account"} => Entries(j.account) = {}

CashbookJob(j) ==
    /\ j.op = "post" => j.form \in Forms /\ j.form \notin DOMAIN book
    /\ j.op \in {"void", "approve"} => j.form \in DOMAIN book
    /\ j.op = "count" => j.form \in Counts /\ j.expected \in Int
    /\ j.op = "void count" => j.form \in DOMAIN counted
    /\ driver = "sqlite" => StillSo(j)

\* On PostgreSQL an operation key that is being used keeps the others waiting.
KeysApart ==
    driver = "postgres" =>
        \A r, k \in Request :
            r # k /\ tx[r].op = "post" /\ tx[k].op = "post" => tx[r].form # tx[k].form

CashbookJobs ==
    /\ driver \in {"sqlite", "postgres"}
    /\ DOMAIN tx = Request
    /\ \A r \in Request : CashbookJob(tx[r])
    /\ KeysApart

\* One opening balance at most is in force on an account, which shows it.
OpeningShown(b, accounts) ==
    \A a \in DOMAIN accounts :
        /\ \A f, g \in OpeningsOf(b, a) : f = g
        /\ \A f \in OpeningsOf(b, a) : accounts[a].opening = f.amount
        /\ OpeningsOf(b, a) = {} => accounts[a].opening = 0

CashbookInv ==
    /\ CashbookRows /\ CashbookJobs /\ HistoryKeepsItsAccount
    /\ driver = "sqlite" => OpeningShown(book, account)
----------------------------------------------------------------------------
(* Balances *)

LEMMA FormIs ==
    ASSUME NEW f \in Forms
    PROVE  /\ f.kind \in {"manual", "transfer", "opening", "adjustment"}
           /\ f.from \in Account /\ f.amount \in Int /\ f.day \in Date
           /\ f.kind = "transfer" => f.amount \in Nat /\ f.to \in Account /\ f.from # f.to
<1>1. \/ f \in ManualForm \/ f \in TransferForm \/ f \in OpeningForm \/ f \in AdjustmentForm
  BY CashbookAssumption
<1>2. CASE f \in ManualForm
  BY <1>2 DEF ManualForm
<1>3. CASE f \in TransferForm
  BY <1>3 DEF TransferForm
<1>4. CASE f \in OpeningForm
  BY <1>4 DEF OpeningForm
<1>5. CASE f \in AdjustmentForm
  BY <1>5 DEF AdjustmentForm
<1>. QED  BY <1>1, <1>2, <1>3, <1>4, <1>5

LEMMA EffectInt == ASSUME NEW f \in Forms, NEW a PROVE Effect(f, a) \in Int
  BY FormIs DEF Effect

Books(b) == DOMAIN b \subseteq Forms /\ IsFiniteSet(DOMAIN b) /\ b \in [DOMAIN b -> Entry]

\* What the entries add to the account a
Adding(b, a) == [f \in DOMAIN b |-> Effect(f, a) * b[f].copies]

LEMMA AddingInt == ASSUME NEW b, Books(b), NEW a, NEW f \in DOMAIN b PROVE Adding(b, a)[f] \in Int
<1>1. b[f] \in Entry /\ Effect(f, a) \in Int
  BY EffectInt DEF Books
<1>2. b[f].copies \in Nat
  BY <1>1 DEF Entry
<1>. QED  BY <1>1, <1>2 DEF Adding

\* What the entries A of the book b add to it
SumOfThose(b, a, A) == MapThenSumSet(LAMBDA f : Effect(f, a) * b[f].copies, A)

LEMMA SumOfEntries ==
    ASSUME NEW b, Books(b), NEW a, NEW A \in SUBSET DOMAIN b
    PROVE  SumOfThose(b, a, A) = SetSum(Adding(b, a), A) /\ SetSum(Adding(b, a), A) \in Int
<1> DEFINE F == Adding(b, a)
           IsSum(h) == h = [t \in SUBSET A |->
                              IF t = {} THEN 0
                              ELSE Effect(CHOOSE x \in t : TRUE, a) * b[CHOOSE x \in t : TRUE].copies
                                   + h[t \ {CHOOSE x \in t : TRUE}]]
<1>1. IsFiniteSet(A)
  BY FS_Subset DEF Books
<1>2. \A h : Adds(h, F, A) <=> IsSum(h)
  <2>1. \A t \in SUBSET A : t # {} =>
           F[Pick(t)] = Effect(CHOOSE x \in t : TRUE, a) * b[CHOOSE x \in t : TRUE].copies
    BY PickIn DEF Pick, Adding
  <2> HIDE DEF F
  <2>. QED  BY <2>1 DEF Adds, Pick
<1>3. SumOfThose(b, a, A) = (CHOOSE h : IsSum(h))[A]
  BY DEF SumOfThose, MapThenSumSet, MapThenFoldSet
<1>4. \A x \in A : F[x] \in Int
  BY AddingInt
<1> HIDE DEF F, IsSum
<1>5. Adds(CHOOSE h : IsSum(h), F, A)
  BY <1>1, <1>2, AddsExists
<1>6. SetSum(F, A) = (CHOOSE h : IsSum(h))[A]
  BY <1>1, <1>5, SumIs
<1>7. SetSum(F, A) \in Int
  BY <1>1, <1>4, SumInt
<1>. QED  BY <1>3, <1>6, <1>7 DEF F

LEMMA BalanceIs ==
    ASSUME NEW b, Books(b), NEW a
    PROVE  Balance(b, a) = SetSum(Adding(b, a), Posted(b)) /\ Balance(b, a) \in Int
<1>1. Posted(b) \in SUBSET DOMAIN b
  BY DEF Posted
<1>2. Balance(b, a) = SumOfThose(b, a, Posted(b))
  BY DEF Balance, SumOfThose, MapThenSumSet, MapThenFoldSet
<1>. QED  BY <1>1, <1>2, SumOfEntries

LEMMA BalanceAsOfInt == ASSUME NEW b, Books(b), NEW a, NEW day PROVE BalanceAsOf(b, a, day) \in Int
<1> DEFINE A == {f \in Posted(b) : f.day <= day}
<1>1. A \in SUBSET DOMAIN b
  BY DEF Posted
<1>2. BalanceAsOf(b, a, day) = SumOfThose(b, a, A)
  BY DEF BalanceAsOf, SumOfThose, MapThenSumSet, MapThenFoldSet
<1> HIDE DEF A
<1>. QED  BY <1>1, <1>2, SumOfEntries

\* A form that is entered adds its effect, once.
LEMMA EntryAdds ==
    ASSUME NEW b, Books(b), NEW f \in Forms, f \notin DOMAIN b, NEW a,
           NEW e \in Entry, e.copies = 1, e.status = "approved"
    PROVE  Balance(Put(b, f, e), a) = Balance(b, a) + Effect(f, a)
<1> DEFINE new == Put(b, f, e)
           A == Posted(b)
<1>1. /\ DOMAIN new = DOMAIN b \cup {f} /\ new[f] = e
      /\ \A g \in DOMAIN b : g # f /\ new[g] = b[g]
  BY DEF Put
<1>2. Books(new)
  <2>1. new \in [DOMAIN b \cup {f} -> Entry]
    BY DEF Books, Put
  <2>2. IsFiniteSet(DOMAIN b \cup {f})
    BY FS_AddElement DEF Books
  <2>. HIDE DEF new
  <2>. QED  BY <1>1, <2>1, <2>2 DEF Books
<1> HIDE DEF new
<1>3. Posted(new) = A \cup {f}
  BY <1>1 DEF Posted
<1>4. f \notin A /\ IsFiniteSet(A) /\ A \subseteq DOMAIN b
  BY FS_Subset DEF Posted, Books
<1>5. \A x \in A : Adding(new, a)[x] = Adding(b, a)[x]
  BY <1>1, <1>4 DEF Adding
<1>6. Adding(new, a)[f] = Effect(f, a)
  <2>1. Adding(new, a)[f] = Effect(f, a) * 1
    BY <1>1 DEF Adding
  <2>. QED  BY <2>1, EffectInt
<1>7. \A x \in A \cup {f} : Adding(new, a)[x] \in Int
  BY <1>1, <1>2, <1>4, AddingInt
<1>8. Balance(new, a) = SetSum(Adding(new, a), A \cup {f}) /\ Balance(b, a) = SetSum(Adding(b, a), A)
  BY <1>2, <1>3, BalanceIs
<1> HIDE DEF A
<1>9. SetSum(Adding(new, a), A \cup {f}) = Effect(f, a) + SetSum(Adding(new, a), A)
  BY <1>4, <1>6, <1>7, SumAdd
<1>10. SetSum(Adding(new, a), A) = SetSum(Adding(b, a), A)
  BY <1>4, <1>5, SumSame
<1>11. Balance(b, a) \in Int /\ Effect(f, a) \in Int
  BY BalanceIs, EffectInt
<1>. QED  BY <1>8, <1>9, <1>10, <1>11 DEF new

\* The opening balance shown is that of one of the entries.
LEMMA OpeningIs ==
    ASSUME NEW b, Books(b), NEW a
    PROVE  /\ OpeningsOf(b, a) = {} => Opening(b, a) = 0
           /\ OpeningsOf(b, a) # {} => \E f \in OpeningsOf(b, a) : Opening(b, a) = f.amount
           /\ Opening(b, a) \in Int
<1> DEFINE O == OpeningsOf(b, a)
           R == {p \in O \X O : p[2].day <= p[1].day}
<1>1. O \subseteq DOMAIN b /\ IsFiniteSet(O) /\ \A f \in O : f.day \in Int /\ f.amount \in Int
  <2>1. O \subseteq DOMAIN b
    BY DEF OpeningsOf, Posted
  <2> HIDE DEF O
  <2>2. \A d \in Date : d \in Int
    BY CashbookAssumption DEF Date
  <2>. QED  BY <2>1, <2>2, FS_Subset, FormIs DEF Books
<1>2. CASE O = {}
  BY <1>2 DEF Opening
<1>3. CASE O # {}
  <2>1. \A p, q \in O : <<p, q>> \in R <=> q.day <= p.day
    OBVIOUS
  <2> HIDE DEF O, R
  <2>2. \A p, q \in O : <<p, q>> \in R \/ <<q, p>> \in R
    <3>1. \A p, q \in O : q.day <= p.day \/ p.day <= q.day
      BY <1>1
    <3>. QED  BY <2>1, <3>1
  <2>3. \A p, q, s \in O : <<p, q>> \in R /\ <<q, s>> \in R => <<p, s>> \in R
    BY <1>1, <2>1
  <2>4. PICK p \in O : \A q \in O : <<p, q>> \in R
    BY <1>1, <1>3, <2>2, <2>3, SomeIsFirst
  <2>5. p \in O /\ \A q \in O : q.day <= p.day
    BY <2>1, <2>4
  <2> DEFINE c == CHOOSE f \in O : \A g \in O : g.day <= f.day
  <2>6. c \in O
    BY <2>5
  <2>7. Opening(b, a) = c.amount
    BY <1>3 DEF Opening, O
  <2> HIDE DEF c
  <2>. QED  BY <1>1, <1>3, <2>6, <2>7 DEF O
<1>. QED  BY <1>2, <1>3
----------------------------------------------------------------------------
(* Requests *)

LEMMA CashbookInitHolds == InitRequests /\ CashbookInit => CashbookInv
<1> SUFFICES ASSUME InitRequests, CashbookInit PROVE CashbookInv
  OBVIOUS
<1>1. /\ account = [a \in Account |-> [active |-> TRUE, opening |-> 0]]
      /\ book = [f \in {} |-> 0] /\ counted = [c \in {} |-> 0] /\ lockedUntil = 0
  BY DEF CashbookInit
<1>2. /\ DOMAIN book = {} /\ book \in [{} -> Entry] /\ DOMAIN counted = {}
      /\ counted \in [{} -> [expected : Int, void : BOOLEAN]]
      /\ account \in [Account -> [active : BOOLEAN, opening : Int]]
  BY <1>1
<1>3. CashbookRows
  BY <1>1, <1>2, FS_EmptySet DEF CashbookRows
<1>4. \A r \in Request : tx[r].op = "idle"
  BY DEF InitRequests, Idle
<1>5. CashbookJobs
  BY <1>4 DEF CashbookJobs, CashbookJob, StillSo, KeysApart, InitRequests
<1>6. \A a : OpeningsOf(book, a) = {}
  BY <1>2 DEF OpeningsOf, Posted
<1>7. OpeningShown(book, account)
  BY <1>1, <1>6 DEF OpeningShown
<1>8. HistoryKeepsItsAccount
  BY <1>2 DEF HistoryKeepsItsAccount
<1>. QED  BY <1>3, <1>5, <1>7, <1>8 DEF CashbookInv

LEMMA CashbookRowsStay ==
    ASSUME CashbookInv, UNCHANGED <<driver, cashbook>>
    PROVE  CashbookRows' /\ HistoryKeepsItsAccount' /\ (driver' = "sqlite" => OpeningShown(book, account)')
<1>1. UNCHANGED <<account, book, counted, lockedUntil, driver>>
  BY DEF cashbook
<1>. QED
  BY <1>1 DEF CashbookInv, CashbookRows, HistoryKeepsItsAccount, OpeningShown, OpeningsOf, Posted

LEMMA JobStays ==
    ASSUME NEW k \in Request, CashbookJob(tx'[k]), UNCHANGED <<driver, cashbook>>
    PROVE  CashbookJob(tx[k])'
<1>1. UNCHANGED <<account, book, counted, lockedUntil, driver>>
  BY DEF cashbook
<1>. QED
  BY <1>1 DEF CashbookJob, StillSo, MayEnter, Unlocked, Entries

LEMMA CashbookLooks ==
    ASSUME CashbookInv, UNCHANGED <<driver, cashbook>>, NEW r \in Request, NEW j,
           tx' = [tx EXCEPT ![r] = j], CashbookJob(j),
           j.op = "post" /\ driver = "postgres" =>
               \A k \in Request \ {r} : tx[k].op = "post" => tx[k].form # j.form
    PROVE  CashbookInv'
<1>1. DOMAIN tx' = Request /\ tx'[r] = j /\ \A k \in Request \ {r} : tx'[k] = tx[k]
  BY DEF CashbookInv, CashbookJobs
<1>2. ASSUME NEW k \in Request PROVE CashbookJob(tx[k])'
  <2>1. CashbookJob(tx'[k])
    BY <1>1 DEF CashbookInv, CashbookJobs
  <2>. QED  BY <2>1, JobStays
<1>3. KeysApart'
  BY <1>1 DEF CashbookInv, CashbookJobs, KeysApart
<1>. QED  BY <1>1, <1>2, <1>3, CashbookRowsStay DEF CashbookInv, CashbookJobs

LEMMA CashbookQuiet ==
    ASSUME CashbookInv, Keep,
           UNCHANGED <<driver, tx>> \/ \E R \in SUBSET Request : End(R)
    PROVE  CashbookInv'
<1>1. /\ DOMAIN tx' = Request /\ UNCHANGED <<driver, cashbook>>
      /\ \A k \in Request : tx'[k] = Idle \/ tx'[k] = tx[k]
  BY DEF CashbookInv, CashbookJobs, End, Keep
<1>2. ASSUME NEW k \in Request PROVE CashbookJob(tx[k])'
  <2>1. CashbookJob(tx'[k])
    <3>1. CASE tx'[k] = Idle
      <4>1. tx'[k].op = "idle"
        BY <3>1 DEF Idle
      <4>. QED  BY <4>1 DEF CashbookJob, StillSo
    <3>2. CASE tx'[k] = tx[k]
      BY <3>2 DEF CashbookInv, CashbookJobs
    <3>. QED  BY <1>1, <3>1, <3>2
  <2>. QED  BY <1>1, <2>1, JobStays
<1>3. KeysApart'
  <2>1. \A k \in Request : tx'[k].op = "post" => tx'[k] = tx[k]
    BY <1>1 DEF Idle
  <2>. QED  BY <1>1, <2>1 DEF CashbookInv, CashbookJobs, KeysApart
<1>. QED  BY <1>1, <1>2, <1>3, CashbookRowsStay DEF CashbookInv, CashbookJobs

\* Entries and counts are only added; on PostgreSQL none is that another request
\* is about to enter.
Grows(R) ==
    /\ DOMAIN book \subseteq DOMAIN book' /\ DOMAIN counted \subseteq DOMAIN counted'
    /\ driver = "postgres" =>
           \A k \in Request \ R : tx[k].op = "post" => tx[k].form \notin DOMAIN book'

\* On SQLite a commit leaves none open but those that have only asked.
LEMMA CashbookJobsKept ==
    ASSUME CashbookInv, NEW R \in SUBSET Request, Commit(R), Grows(R)
    PROVE  CashbookJobs' /\ UNCHANGED driver
<1>1. /\ UNCHANGED driver /\ DOMAIN tx' = Request
      /\ \A k \in Request : tx'[k] = Idle \/ (tx'[k] = tx[k] /\ k \notin R)
      /\ driver = "sqlite" => \A k \in Request : tx'[k].op \in {"idle", "asked"}
  BY DEF Commit, End, Overtaken, Idle
<1>2. ASSUME NEW k \in Request PROVE CashbookJob(tx[k])'
  <2>1. CASE tx'[k] = Idle
    <3>1. tx'[k].op = "idle"
      BY <2>1 DEF Idle
    <3>. QED  BY <3>1 DEF CashbookJob, StillSo
  <2>2. CASE tx'[k] = tx[k] /\ k \notin R
    <3>1. CashbookJob(tx[k]) /\ driver \in {"sqlite", "postgres"}
      BY DEF CashbookInv, CashbookJobs
    <3>2. driver' = "sqlite" => tx'[k].op \in {"idle", "asked"}
      BY <1>1
    <3>3. CASE driver = "sqlite"
      BY <1>1, <3>2, <3>3 DEF CashbookJob, StillSo
    <3>4. CASE driver = "postgres"
      BY <1>1, <2>2, <3>1, <3>4 DEF CashbookJob, Grows
    <3>. QED  BY <3>1, <3>3, <3>4
  <2>. QED  BY <1>1, <2>1, <2>2
<1>3. KeysApart'
  <2>1. \A k \in Request : tx'[k].op = "post" => tx'[k] = tx[k]
    BY <1>1 DEF Idle
  <2>. QED  BY <1>1, <2>1 DEF CashbookInv, CashbookJobs, KeysApart
<1>. QED  BY <1>1, <1>2, <1>3 DEF CashbookJobs, CashbookInv
----------------------------------------------------------------------------
(* What handlers look at *)

LEMMA CashbookLooksKeep ==
    ASSUME CashbookInv, NEW r \in Request,
           \/ \E f \in Forms : Ask(r, f)
           \/ \E c \in Counts : AskToCount(r, c)
           \/ \E f \in DOMAIN book : LookToVoid(r, f) \/ LookToApprove(r, f)
           \/ \E c \in DOMAIN counted : LookToVoidCount(r, c)
           \/ \E a \in DOMAIN account : LookToDeactivate(r, a) \/ LookToDeleteAccount(r, a)
    PROVE  CashbookInv'
<1>1. ASSUME NEW f, Unlocked(f.day), Look(r, [op |-> "asked", form |-> f]), Keep PROVE CashbookInv'
  <2> DEFINE j == [op |-> "asked", form |-> f]
  <2>1. tx' = [tx EXCEPT ![r] = j] /\ UNCHANGED <<driver, cashbook>> /\ j.op = "asked"
    BY <1>1 DEF Look, Keep
  <2> HIDE DEF j
  <2>2. CashbookJob(j)
    BY <2>1 DEF CashbookJob, StillSo
  <2>. QED  BY <2>1, <2>2, CashbookLooks
<1>2. ASSUME NEW f \in DOMAIN book, NEW op \in {"void", "approve"}, Unlocked(f.day),
             Look(r, [op |-> op, form |-> f]), Keep
      PROVE  CashbookInv'
  <2> DEFINE j == [op |-> op, form |-> f]
  <2>1. tx' = [tx EXCEPT ![r] = j] /\ UNCHANGED <<driver, cashbook>> /\ j.op = op /\ j.form = f
    BY <1>2 DEF Look, Keep
  <2> HIDE DEF j
  <2>2. CashbookJob(j)
    BY <1>2, <2>1 DEF CashbookJob, StillSo
  <2>. QED  BY <1>2, <2>1, <2>2, CashbookLooks
<1>3. ASSUME NEW c \in DOMAIN counted, LookToVoidCount(r, c) PROVE CashbookInv'
  <2> DEFINE j == [op |-> "void count", form |-> c]
  <2>1. /\ tx' = [tx EXCEPT ![r] = j] /\ UNCHANGED <<driver, cashbook>>
        /\ j.op = "void count" /\ j.form = c
    BY <1>3 DEF LookToVoidCount, Look, Keep
  <2> HIDE DEF j
  <2>2. CashbookJob(j)
    BY <2>1 DEF CashbookJob, StillSo
  <2>. QED  BY <2>1, <2>2, CashbookLooks
<1>4. ASSUME NEW a \in DOMAIN account, NEW op \in {"deactivate", "delete account"}, Entries(a) = {},
             Look(r, [op |-> op, account |-> a]), Keep
      PROVE  CashbookInv'
  <2> DEFINE j == [op |-> op, account |-> a]
  <2>1. tx' = [tx EXCEPT ![r] = j] /\ UNCHANGED <<driver, cashbook>> /\ j.op = op /\ j.account = a
    BY <1>4 DEF Look, Keep
  <2> HIDE DEF j
  <2>2. CashbookJob(j)
    BY <1>4, <2>1 DEF CashbookJob, StillSo
  <2>. QED  BY <1>4, <2>1, <2>2, CashbookLooks
<1>. QED
  BY <1>1, <1>2, <1>3, <1>4 DEF Ask, AskToCount, LookToVoid, LookToApprove, LookToVoidCount,
     LookToDeactivate, LookToDeleteAccount, MayDeleteAccount

LEMMA LookToPostKeeps ==
    ASSUME CashbookInv, NEW r \in Request, LookToPost(r)
    PROVE  CashbookInv'
<1> DEFINE f == tx[r].form
           j == [op |-> "post", form |-> f]
<1>1. /\ f \in Forms /\ f.from \in DOMAIN account /\ Reserved(r, f)
      /\ MayPostManual(f) \/ MayTransfer(f) \/ MayOpen(f) \/ MayAdjust(f)
      /\ tx' = [tx EXCEPT ![r] = j] /\ UNCHANGED <<driver, cashbook>>
  BY DEF LookToPost, Keep
<1>2. j.op = "post" /\ j.form = f
  OBVIOUS
<1> HIDE DEF f, j
<1>3. MayEnter(f)
  <2>1. CASE MayTransfer(f)
    BY <1>1, <2>1 DEF MayEnter, MayTransfer, AccountsOf
  <2>2. CASE MayOpen(f)
    BY <1>1, <2>2 DEF MayEnter, MayOpen, AccountsOf
  <2>3. CASE MayPostManual(f) \/ MayAdjust(f)
    BY <1>1, <2>3 DEF MayEnter, MayPostManual, MayAdjust, AccountsOf
  <2>. QED  BY <1>1, <2>1, <2>2, <2>3
<1>4. CashbookJob(j)
  BY <1>1, <1>2, <1>3 DEF CashbookJob, StillSo, Reserved
<1>. QED  BY <1>1, <1>2, <1>4, CashbookLooks DEF Reserved

LEMMA LookToCountKeeps ==
    ASSUME CashbookInv, NEW r \in Request, LookToCount(r)
    PROVE  CashbookInv'
<1> DEFINE c == tx[r].form
           e == BalanceAsOf(book, c.account, c.day)
           j == [op |-> "count", form |-> c, expected |-> e]
<1>1. c \in Counts /\ tx' = [tx EXCEPT ![r] = j] /\ UNCHANGED <<driver, cashbook>>
  BY DEF LookToCount, Keep
<1>2. j.op = "count" /\ j.form = c /\ j.expected = e
  OBVIOUS
<1>3. e \in Int
  BY BalanceAsOfInt DEF CashbookInv, CashbookRows, Books
<1>4. e = BalanceAsOf(book, j.form.account, j.form.day)
  OBVIOUS
<1> HIDE DEF c, j, e
<1>5. CashbookJob(j)
  BY <1>1, <1>2, <1>3, <1>4 DEF CashbookJob, StillSo
<1>. QED  BY <1>1, <1>2, <1>5, CashbookLooks
----------------------------------------------------------------------------
(* What handlers write *)

AccountRow == [active : BOOLEAN, opening : Int]

\* The accounts with another opening balance of a, with another status of a, and
\* the book with another status of f
WithOpening(accounts, a, v) == [accounts EXCEPT ![a].opening = v]
WithActive(accounts, a, v) == [accounts EXCEPT ![a].active = v]
WithStatus(b, f, v) == [b EXCEPT ![f].status = v]

\* The opening balance of the account a is written, if there is one to write.
LEMMA OpeningWritten ==
    ASSUME NEW accounts, NEW D, accounts \in [D -> AccountRow], NEW a, NEW v \in Int
    PROVE  LET new == WithOpening(accounts, a, v)
           IN  /\ new \in [D -> AccountRow]
               /\ \A c \in D : /\ new[c].active = accounts[c].active
                               /\ new[c].opening = IF c = a THEN v ELSE accounts[c].opening
<1> DEFINE new == WithOpening(accounts, a, v)
<1>0. new = [accounts EXCEPT ![a].opening = v]
  BY DEF WithOpening
<1> HIDE DEF new
<1>1. CASE a \notin D
  <2>1. new = accounts
    BY <1>0, <1>1
  <2>. QED  BY <1>1, <2>1 DEF new
<1>2. CASE a \in D
  <2> DEFINE row == [accounts[a] EXCEPT !.opening = v]
  <2>1. row \in AccountRow /\ row.active = accounts[a].active /\ row.opening = v
    <3>1. accounts[a] \in AccountRow
      BY <1>2
    <3>. QED  BY <3>1 DEF AccountRow
  <2>2. new = [accounts EXCEPT ![a] = row]
    BY <1>0
  <2> HIDE DEF row
  <2>. QED  BY <1>2, <2>1, <2>2 DEF new
<1>. QED  BY <1>1, <1>2

\* The status of an account is written.
LEMMA ActiveWritten ==
    ASSUME NEW accounts, NEW D, accounts \in [D -> AccountRow], NEW a \in D, NEW v \in BOOLEAN
    PROVE  LET new == WithActive(accounts, a, v)
           IN  /\ new \in [D -> AccountRow]
               /\ \A c \in D : /\ new[c].opening = accounts[c].opening
                               /\ new[c].active = IF c = a THEN v ELSE accounts[c].active
<1> DEFINE new == WithActive(accounts, a, v)
<1> DEFINE row == [accounts[a] EXCEPT !.active = v]
<1>1. row \in AccountRow /\ row.opening = accounts[a].opening /\ row.active = v
  <2>1. accounts[a] \in AccountRow
    OBVIOUS
  <2>. QED  BY <2>1 DEF AccountRow
<1>2. new = [accounts EXCEPT ![a] = row]
  BY DEF WithActive
<1> HIDE DEF row, new
<1>. QED  BY <1>1, <1>2 DEF new

\* The status of an entry is written.
LEMMA StatusWritten ==
    ASSUME CashbookRows, NEW f \in DOMAIN book, NEW status \in {"approved", "void"}
    PROVE  LET new == WithStatus(book, f, status)
           IN  /\ Books(new) /\ DOMAIN new = DOMAIN book
               /\ \A g \in DOMAIN book : /\ new[g].copies = 1
                                         /\ new[g].status = IF g = f THEN status ELSE book[g].status
<1> DEFINE new == WithStatus(book, f, status)
<1> DEFINE row == [book[f] EXCEPT !.status = status]
<1>1. book \in [DOMAIN book -> Entry] /\ book[f] \in Entry /\ \A g \in DOMAIN book : book[g].copies = 1
  BY DEF CashbookRows
<1>2. row \in Entry /\ row.copies = 1 /\ row.status = status
  BY <1>1 DEF Entry
<1>3. new = [book EXCEPT ![f] = row]
  BY DEF WithStatus
<1> HIDE DEF row, new
<1>4. /\ new \in [DOMAIN book -> Entry] /\ new[f] = row
      /\ \A g \in DOMAIN book : g # f => new[g] = book[g]
  BY <1>1, <1>2, <1>3
<1>5. DOMAIN new = DOMAIN book
  BY <1>4
<1>. QED  BY <1>1, <1>2, <1>4, <1>5 DEF Books, CashbookRows, new

\* The parts of the invariant that entries and accounts disturb
LEMMA BooksKept ==
    ASSUME CashbookInv, NEW R \in SUBSET Request, Commit(R), Grows(R),
           Books(book'), UNCHANGED <<counted, lockedUntil>>,
           \A f \in DOMAIN book' : book'[f].copies = 1 /\ (book'[f].status = "pending" => f.kind = "manual"),
           DOMAIN account' \subseteq Account, account' \in [DOMAIN account' -> AccountRow],
           driver = "sqlite" =>
               /\ OpeningShown(book', account')
               /\ \A f \in DOMAIN book' : \A a \in AccountsOf(f) :
                     a \in DOMAIN account' /\ account'[a].active
    PROVE  CashbookInv'
<1>1. CashbookRows'
  BY DEF CashbookInv, CashbookRows, Books, AccountRow
<1>2. CashbookJobs' /\ UNCHANGED driver
  BY CashbookJobsKept
<1>3. HistoryKeepsItsAccount'
  BY <1>2 DEF HistoryKeepsItsAccount
<1>4. driver' = "sqlite" => OpeningShown(book, account)'
  BY <1>2
<1>. QED  BY <1>1, <1>2, <1>3, <1>4 DEF CashbookInv

LEMMA PostKeeps ==
    ASSUME CashbookInv, NEW r \in Request, Post(r)
    PROVE  /\ CashbookInv' /\ UNCHANGED <<counted, lockedUntil>>
           /\ DOMAIN book' = DOMAIN book \cup {tx[r].form} /\ tx[r].form \notin DOMAIN book
           /\ \A g \in DOMAIN book : book'[g] = book[g]
           /\ driver = "sqlite" /\ tx[r].form.kind = "transfer" => Balance(book', tx[r].form.from) >= 0
<1> DEFINE f == tx[r].form
           e == [status |-> IF f.kind = "manual" /\ f.pending THEN "pending" ELSE "approved",
                 copies |-> 1]
<1>1. tx[r].op = "post" /\ CashbookJob(tx[r]) /\ driver \in {"sqlite", "postgres"}
  BY DEF Post, CashbookInv, CashbookJobs
<1>2. /\ f \in Forms /\ f \notin DOMAIN book
      /\ driver = "sqlite" => MayEnter(f)
  BY <1>1 DEF CashbookJob, StillSo
<1>3. /\ book' = Put(book, f, e) /\ UNCHANGED <<counted, lockedUntil>> /\ Commit({r})
      /\ \E seen \in OpeningSeen(book', f, f.amount) :
            account' = IF f.kind = "opening" THEN [account EXCEPT ![f.from].opening = seen] ELSE account
  BY <1>2 DEF Post
<1>4. /\ e \in Entry /\ e.copies = 1 /\ (e.status = "pending" => f.kind = "manual")
      /\ f.kind # "manual" => e.status = "approved"
  BY DEF Entry
<1>5. /\ f.kind \in {"manual", "transfer", "opening", "adjustment"}
      /\ f.from \in Account /\ f.amount \in Int
      /\ f.kind = "transfer" => f.amount \in Nat
  BY <1>2, FormIs
<1>6. /\ Books(book)
      /\ \A g \in DOMAIN book : book[g].copies = 1 /\ (book[g].status = "pending" => g.kind = "manual")
  BY DEF CashbookInv, CashbookRows, Books
<1> HIDE DEF f, e
<1>7. /\ DOMAIN book' = DOMAIN book \cup {f} /\ book'[f] = e
      /\ \A g \in DOMAIN book : g # f /\ book'[g] = book[g]
  BY <1>2, <1>3 DEF Put
<1>8. Books(book')
  <2>1. book' \in [DOMAIN book \cup {f} -> Entry]
    BY <1>2, <1>3, <1>4, <1>6 DEF Books, Put
  <2>2. IsFiniteSet(DOMAIN book \cup {f})
    BY <1>6, FS_AddElement DEF Books
  <2>. QED  BY <1>2, <1>6, <1>7, <2>1, <2>2 DEF Books
<1>9. \A g \in DOMAIN book' : book'[g].copies = 1 /\ (book'[g].status = "pending" => g.kind = "manual")
  BY <1>4, <1>6, <1>7
<1>10. PICK seen \in OpeningSeen(book', f, f.amount) :
          account' = IF f.kind = "opening" THEN [account EXCEPT ![f.from].opening = seen] ELSE account
  BY <1>3
<1>11. seen \in Int /\ (driver = "sqlite" => seen = Opening(book', f.from))
  BY <1>5, <1>8, OpeningIs DEF OpeningSeen
<1> DEFINE D == DOMAIN account
<1>12. D \subseteq Account /\ account \in [D -> AccountRow]
  BY DEF CashbookInv, CashbookRows, AccountRow
<1> HIDE DEF D
<1>13. /\ account' \in [D -> AccountRow]
       /\ \A c \in D : /\ account'[c].active = account[c].active
                       /\ account'[c].opening = IF f.kind = "opening" /\ c = f.from THEN seen
                                                ELSE account[c].opening
  <2>1. CASE f.kind = "opening"
    <3>1. account' = WithOpening(account, f.from, seen)
      BY <1>10, <2>1 DEF WithOpening
    <3>2. /\ account' \in [D -> AccountRow]
          /\ \A c \in D : /\ account'[c].active = account[c].active
                          /\ account'[c].opening = IF c = f.from THEN seen ELSE account[c].opening
      BY <1>11, <1>12, <3>1, OpeningWritten
    <3>. QED  BY <2>1, <3>2
  <2>2. CASE f.kind # "opening"
    BY <1>10, <1>12, <2>2
  <2>. QED  BY <2>1, <2>2
<1>14. DOMAIN account' = D
  BY <1>13
<1>15. ASSUME driver = "sqlite"
       PROVE  \A g \in DOMAIN book' : \A a \in AccountsOf(g) : a \in D /\ account'[a].active
  <2>1. \A a \in AccountsOf(f) : a \in D /\ account[a].active
    BY <1>2, <1>15 DEF MayEnter, D
  <2>2. \A g \in DOMAIN book : \A a \in AccountsOf(g) : a \in D /\ account[a].active
    BY <1>15 DEF CashbookInv, HistoryKeepsItsAccount, D
  <2>. QED  BY <1>7, <1>13, <2>1, <2>2
<1>16. ASSUME driver = "sqlite" PROVE OpeningShown(book', account')
  <2>1. ASSUME NEW a \in D, ~(f.kind = "opening" /\ a = f.from)
        PROVE  OpeningsOf(book', a) = OpeningsOf(book, a) /\ account'[a].opening = account[a].opening
    BY <1>7, <1>13, <2>1 DEF OpeningsOf, Posted
  <2>2. ASSUME f.kind = "opening", f.from \in D
        PROVE  /\ OpeningsOf(book', f.from) = {f} /\ account'[f.from].opening = f.amount
    <3>1. OpeningsOf(book, f.from) = {}
      BY <1>2, <1>16, <2>2 DEF MayEnter
    <3>2. OpeningsOf(book', f.from) = {f}
      BY <1>4, <1>7, <2>2, <3>1 DEF OpeningsOf, Posted
    <3>3. Opening(book', f.from) = f.amount
      BY <1>8, <3>2, OpeningIs
    <3>. QED  BY <1>11, <1>13, <1>16, <2>2, <3>2, <3>3
  <2>3. OpeningShown(book, account)
    BY <1>16 DEF CashbookInv
  <2>. QED  BY <1>14, <2>1, <2>2, <2>3 DEF OpeningShown, D
<1>17. Grows({r})
  <2>1. driver = "postgres" => \A k \in Request \ {r} : tx[k].op = "post" =>
            tx[k].form # f /\ tx[k].form \notin DOMAIN book
    BY <1>1 DEF CashbookInv, CashbookJobs, KeysApart, CashbookJob, f
  <2>. QED  BY <1>3, <1>7, <2>1 DEF Grows
<1>18. CashbookInv'
  BY <1>3, <1>8, <1>9, <1>12, <1>13, <1>14, <1>15, <1>16, <1>17, BooksKept
<1>19. ASSUME driver = "sqlite", f.kind = "transfer" PROVE Balance(book', f.from) >= 0
  <2>1. Balance(book, f.from) >= f.amount /\ Balance(book, f.from) \in Int
    BY <1>2, <1>6, <1>19, BalanceIs DEF MayEnter
  <2>2. Balance(book', f.from) = Balance(book, f.from) + Effect(f, f.from)
    <3>1. e.status = "approved"
      BY <1>4, <1>19
    <3>. QED  BY <1>2, <1>3, <1>4, <1>6, <3>1, EntryAdds
  <2>3. Effect(f, f.from) = -f.amount
    BY <1>19 DEF Effect, AccountsOf
  <2>. QED  BY <1>5, <2>1, <2>2, <2>3
<1>. QED  BY <1>2, <1>3, <1>7, <1>18, <1>19 DEF f

\* A status is written, and the opening balance of an account with it.
LEMMA StatusKeeps ==
    ASSUME CashbookInv, NEW r \in Request, NEW f \in DOMAIN book, NEW status \in {"approved", "void"},
           Commit({r}), book' = [book EXCEPT ![f].status = status], UNCHANGED <<counted, lockedUntil>>,
           status = "approved" => book[f].status = "pending" /\ UNCHANGED account,
           status = "void" =>
               \E seen \in OpeningSeen(book', f, 0) :
                   account' = IF f.kind = "opening" THEN [account EXCEPT ![f.from].opening = seen]
                              ELSE account
    PROVE  /\ CashbookInv' /\ DOMAIN book' = DOMAIN book
           /\ \A g \in DOMAIN book : g # f => book'[g].status = book[g].status
<1>1. /\ Books(book') /\ DOMAIN book' = DOMAIN book
      /\ \A g \in DOMAIN book : /\ book'[g].copies = 1
                                /\ book'[g].status = IF g = f THEN status ELSE book[g].status
  <2>1. book' = WithStatus(book, f, status) /\ CashbookRows
    BY DEF WithStatus, CashbookInv
  <2> DEFINE new == WithStatus(book, f, status)
  <2> HIDE DEF new
  <2>2. /\ Books(new) /\ DOMAIN new = DOMAIN book
        /\ \A g \in DOMAIN book : /\ new[g].copies = 1
                                  /\ new[g].status = IF g = f THEN status ELSE book[g].status
    BY <2>1, StatusWritten DEF new
  <2>. QED  BY <2>1, <2>2 DEF new
<1>2. \A g \in DOMAIN book : book[g].status = "pending" => g.kind = "manual"
  BY DEF CashbookInv, CashbookRows
<1>3. \A g \in DOMAIN book' : book'[g].copies = 1 /\ (book'[g].status = "pending" => g.kind = "manual")
  BY <1>1, <1>2
<1> DEFINE D == DOMAIN account
<1>4. D \subseteq Account /\ account \in [D -> AccountRow]
  BY DEF CashbookInv, CashbookRows, AccountRow
<1> HIDE DEF D
<1>5. PICK seen \in OpeningSeen(book', f, 0) :
          account' = IF status = "void" /\ f.kind = "opening" THEN [account EXCEPT ![f.from].opening = seen]
                     ELSE account
  <2>1. CASE status = "void"
    BY <2>1
  <2>2. CASE status = "approved"
    BY <2>2 DEF OpeningSeen
  <2>. QED  BY <2>1, <2>2
<1>6. seen \in Int /\ (driver = "sqlite" => seen = Opening(book', f.from))
  <2>1. Opening(book', f.from) \in Int
    BY <1>1, OpeningIs
  <2>2. seen \in {Opening(book', f.from)} \cup IF driver = "postgres" THEN {0} ELSE {}
    BY <1>5 DEF OpeningSeen
  <2>. QED  BY <2>1, <2>2
<1>7. /\ account' \in [D -> AccountRow]
      /\ \A c \in D : /\ account'[c].active = account[c].active
                      /\ account'[c].opening = IF status = "void" /\ f.kind = "opening" /\ c = f.from
                                               THEN seen ELSE account[c].opening
  <2>1. CASE status = "void" /\ f.kind = "opening"
    <3>1. account' = WithOpening(account, f.from, seen)
      BY <1>5, <2>1 DEF WithOpening
    <3>2. /\ account' \in [D -> AccountRow]
          /\ \A c \in D : /\ account'[c].active = account[c].active
                          /\ account'[c].opening = IF c = f.from THEN seen ELSE account[c].opening
      BY <1>4, <1>6, <3>1, OpeningWritten
    <3>. QED  BY <2>1, <3>2
  <2>2. CASE ~(status = "void" /\ f.kind = "opening")
    BY <1>4, <1>5, <2>2
  <2>. QED  BY <2>1, <2>2
<1>8. DOMAIN account' = D
  BY <1>7
<1>9. ASSUME driver = "sqlite"
      PROVE  \A g \in DOMAIN book' : \A a \in AccountsOf(g) : a \in D /\ account'[a].active
  <2>1. \A g \in DOMAIN book : \A a \in AccountsOf(g) : a \in D /\ account[a].active
    BY <1>9 DEF CashbookInv, HistoryKeepsItsAccount, D
  <2>. QED  BY <1>1, <1>7, <2>1
<1>10. ASSUME driver = "sqlite" PROVE OpeningShown(book', account')
  <2>1. ASSUME NEW a \in D, ~(status = "void" /\ f.kind = "opening" /\ a = f.from)
        PROVE  OpeningsOf(book', a) = OpeningsOf(book, a) /\ account'[a].opening = account[a].opening
    <3>1. account'[a].opening = account[a].opening
      BY <1>7, <2>1
    <3>2. CASE status = "approved"
      <4>1. f.kind # "opening"
        BY <1>2, <3>2
      <4>. QED  BY <1>1, <3>1, <4>1 DEF OpeningsOf, Posted
    <3>3. CASE status = "void"
      BY <1>1, <2>1, <3>1, <3>3 DEF OpeningsOf, Posted
    <3>. QED  BY <3>2, <3>3
  <2>2. ASSUME status = "void", f.kind = "opening", f.from \in D
        PROVE  /\ OpeningsOf(book', f.from) \subseteq OpeningsOf(book, f.from)
               /\ account'[f.from].opening = Opening(book', f.from)
    <3>1. account'[f.from].opening = Opening(book', f.from)
      BY <1>6, <1>7, <1>10, <2>2
    <3>2. OpeningsOf(book', f.from) \subseteq OpeningsOf(book, f.from)
      BY <1>1, <2>2 DEF OpeningsOf, Posted
    <3>. QED  BY <3>1, <3>2
  <2>3. OpeningShown(book, account)
    BY <1>10 DEF CashbookInv
  <2>. SUFFICES ASSUME NEW a \in D
                PROVE  /\ \A g, h \in OpeningsOf(book', a) : g = h
                       /\ \A g \in OpeningsOf(book', a) : account'[a].opening = g.amount
                       /\ OpeningsOf(book', a) = {} => account'[a].opening = 0
    BY <1>8 DEF OpeningShown
  <2>4. CASE status = "void" /\ f.kind = "opening" /\ a = f.from
    <3>1. \A g, h \in OpeningsOf(book', a) : g = h
      BY <2>2, <2>3, <2>4 DEF OpeningShown, D
    <3>. QED  BY <1>1, <2>2, <2>4, <3>1, OpeningIs
  <2>5. CASE ~(status = "void" /\ f.kind = "opening" /\ a = f.from)
    BY <2>1, <2>3, <2>5 DEF OpeningShown, D
  <2>. QED  BY <2>4, <2>5
<1>11. Grows({r})
  BY <1>1 DEF Grows, CashbookInv, CashbookJobs, CashbookJob
<1>12. CashbookInv'
  BY <1>1, <1>3, <1>4, <1>7, <1>8, <1>9, <1>10, <1>11, BooksKept
<1>. QED  BY <1>1, <1>12

\* On SQLite the entry is of a day that is still open.
LEMMA SettlingKeeps ==
    ASSUME CashbookInv, NEW r \in Request, VoidEntry(r) \/ VoidTransfer(r) \/ Approve(r)
    PROVE  /\ CashbookInv' /\ DOMAIN book' = DOMAIN book /\ UNCHANGED counted
           /\ driver = "sqlite" => Unlocked(tx[r].form.day)
           /\ \A g \in DOMAIN book : g # tx[r].form => book'[g].status = book[g].status
<1>1. CashbookJob(tx[r]) /\ tx[r].op \in {"void", "approve"}
  BY DEF CashbookInv, CashbookJobs, VoidEntry, VoidTransfer, Approve
<1>2. tx[r].form \in DOMAIN book /\ (driver = "sqlite" => Unlocked(tx[r].form.day))
  BY <1>1 DEF CashbookJob, StillSo
<1>3. CASE VoidEntry(r)
  BY <1>2, <1>3, StatusKeeps DEF VoidEntry
<1>4. CASE VoidTransfer(r)
  <2>1. Opening(book', tx[r].form.from) \in OpeningSeen(book', tx[r].form, 0)
    BY DEF OpeningSeen
  <2>. QED  BY <1>2, <1>4, <2>1, StatusKeeps DEF VoidTransfer
<1>5. CASE Approve(r)
  BY <1>2, <1>5, StatusKeeps DEF Approve
<1>. QED  BY <1>3, <1>4, <1>5

LEMMA CountsAdd ==
    ASSUME CashbookInv, NEW R \in SUBSET Request, Commit(R), UNCHANGED <<account, book, lockedUntil>>,
           DOMAIN counted \subseteq DOMAIN counted', DOMAIN counted' \subseteq Counts,
           counted' \in [DOMAIN counted' -> [expected : Int, void : BOOLEAN]]
    PROVE  CashbookInv'
<1>1. CashbookRows'
  BY DEF CashbookInv, CashbookRows
<1>2. Grows(R)
  BY DEF Grows, CashbookInv, CashbookJobs, CashbookJob
<1>3. CashbookJobs' /\ UNCHANGED driver
  BY <1>2, CashbookJobsKept
<1>4. HistoryKeepsItsAccount' /\ (driver' = "sqlite" => OpeningShown(book, account)')
  BY <1>3 DEF CashbookInv, HistoryKeepsItsAccount
<1>. QED  BY <1>1, <1>3, <1>4 DEF CashbookInv

LEMMA CountsKeep ==
    ASSUME CashbookInv, NEW r \in Request, RecordCount(r) \/ VoidCount(r)
    PROVE  /\ CashbookInv' /\ UNCHANGED <<account, book, lockedUntil>>
           /\ driver = "sqlite" =>
                 \A c \in DOMAIN counted' \ DOMAIN counted :
                     counted'[c].expected = BalanceAsOf(book, c.account, c.day)
<1> DEFINE c == tx[r].form
           T == [expected : Int, void : BOOLEAN]
<1>0. /\ CashbookJob(tx[r]) /\ UNCHANGED <<account, book, lockedUntil>> /\ Commit({r})
      /\ counted \in [DOMAIN counted -> T] /\ DOMAIN counted \subseteq Counts
  BY DEF CashbookInv, CashbookJobs, CashbookRows, RecordCount, VoidCount
<1>1. CASE RecordCount(r)
  <2> DEFINE v == [expected |-> tx[r].expected, void |-> FALSE]
  <2>1. c \in Counts /\ tx[r].expected \in Int
        /\ (driver = "sqlite" => tx[r].expected = BalanceAsOf(book, c.account, c.day))
    BY <1>0, <1>1 DEF RecordCount, CashbookJob, StillSo
  <2>2. counted' = Put(counted, c, v)
    BY <1>1 DEF RecordCount
  <2>3. v \in T /\ v.expected = tx[r].expected
    BY <2>1
  <2> HIDE DEF c, v, T
  <2>4. /\ counted' \in [DOMAIN counted \cup {c} -> T] /\ counted'[c] = v
        /\ DOMAIN counted' = DOMAIN counted \cup {c}
    BY <1>0, <2>2, <2>3 DEF Put
  <2>5. \A d \in DOMAIN counted' \ DOMAIN counted : d = c
    BY <2>4
  <2>. QED  BY <1>0, <2>1, <2>3, <2>4, <2>5, CountsAdd DEF T
<1>2. CASE VoidCount(r)
  <2> DEFINE v == [counted[c] EXCEPT !.void = TRUE]
  <2>1. c \in DOMAIN counted
    BY <1>0, <1>2 DEF VoidCount, CashbookJob
  <2>2. counted' = [counted EXCEPT ![c] = v]
    BY <1>2 DEF VoidCount
  <2>3. counted[c] \in T /\ v \in T
    BY <1>0, <2>1
  <2> HIDE DEF c, v, T
  <2>4. counted' \in [DOMAIN counted -> T] /\ DOMAIN counted' = DOMAIN counted
    BY <1>0, <2>1, <2>2, <2>3
  <2>. QED  BY <1>0, <2>4, CountsAdd DEF T
<1>. QED  BY <1>1, <1>2

\* An account appears, is made inactive or goes; on SQLite none with an entry does.
LEMMA AccountsKeep ==
    ASSUME CashbookInv, NEW R \in SUBSET Request, Commit(R), UNCHANGED <<book, counted, lockedUntil>>,
           DOMAIN account' \subseteq Account, account' \in [DOMAIN account' -> AccountRow],
           \A a \in DOMAIN account' :
               IF a \in DOMAIN account THEN account'[a].opening = account[a].opening
               ELSE account'[a].opening = 0,
           driver = "sqlite" =>
               \A a \in DOMAIN account :
                   (a \notin DOMAIN account' \/ (account[a].active /\ ~account'[a].active))
                       => Entries(a) = {}
    PROVE  CashbookInv'
<1>1. /\ Books(book') /\ \A f \in DOMAIN book' : book'[f].copies = 1
                                               /\ (book'[f].status = "pending" => f.kind = "manual")
  BY DEF CashbookInv, CashbookRows, Books
<1>2. ASSUME driver = "sqlite"
      PROVE  \A f \in DOMAIN book : \A a \in AccountsOf(f) : a \in DOMAIN account' /\ account'[a].active
  <2>. SUFFICES ASSUME NEW f \in DOMAIN book, NEW a \in AccountsOf(f)
                PROVE  a \in DOMAIN account' /\ account'[a].active
    OBVIOUS
  <2>1. a \in DOMAIN account /\ account[a].active
    BY <1>2 DEF CashbookInv, HistoryKeepsItsAccount
  <2>2. f \in Entries(a)
    BY DEF Entries
  <2>. QED  BY <1>2, <2>1, <2>2
<1>3. ASSUME driver = "sqlite" PROVE OpeningShown(book, account')
  <2>. SUFFICES ASSUME NEW a \in DOMAIN account'
                PROVE  /\ \A f, g \in OpeningsOf(book, a) : f = g
                       /\ \A f \in OpeningsOf(book, a) : account'[a].opening = f.amount
                       /\ OpeningsOf(book, a) = {} => account'[a].opening = 0
    BY DEF OpeningShown
  <2>1. CASE a \in DOMAIN account
    BY <1>3, <2>1 DEF CashbookInv, OpeningShown
  <2>2. CASE a \notin DOMAIN account
    <3>1. OpeningsOf(book, a) = {}
      <4>. SUFFICES ASSUME NEW f \in OpeningsOf(book, a) PROVE FALSE
        OBVIOUS
      <4>1. f \in DOMAIN book /\ f.kind = "opening" /\ f.from = a
        BY DEF OpeningsOf, Posted
      <4>2. a \in AccountsOf(f)
        BY <4>1 DEF AccountsOf
      <4>. QED  BY <1>3, <2>2, <4>1, <4>2 DEF CashbookInv, HistoryKeepsItsAccount
    <3>. QED  BY <2>2, <3>1
  <2>. QED  BY <2>1, <2>2
<1>4. Grows(R)
  BY DEF Grows, CashbookInv, CashbookJobs, CashbookJob
<1>. QED  BY <1>1, <1>2, <1>3, <1>4, BooksKept

LEMMA AccountWritesKeep ==
    ASSUME CashbookInv,
           \/ \E r \in Request : Deactivate(r) \/ DeleteAccount(r)
           \/ \E a \in Account : CreateAccount(a)
           \/ \E a \in DOMAIN account : Activate(a)
    PROVE  CashbookInv' /\ UNCHANGED <<book, counted, lockedUntil>>
<1> DEFINE D == DOMAIN account
           E == {}
<1>0. /\ D \subseteq Account /\ account \in [D -> AccountRow] /\ E \in SUBSET Request
  BY DEF CashbookInv, CashbookRows, AccountRow
<1>1. ASSUME NEW r \in Request, Deactivate(r) PROVE CashbookInv'
  <2> DEFINE a == tx[r].account
             v == FALSE
  <2>1. /\ v \in BOOLEAN /\ a \in D /\ account' = WithActive(account, a, v) /\ Commit({r})
        /\ UNCHANGED <<book, counted, lockedUntil>>
        /\ driver = "sqlite" => Entries(a) = {}
    BY <1>1 DEF Deactivate, WithActive, CashbookInv, CashbookJobs, CashbookJob, StillSo
  <2> HIDE DEF a, D, v
  <2>2. /\ account' \in [D -> AccountRow]
        /\ \A c \in D : /\ account'[c].opening = account[c].opening
                        /\ account'[c].active = IF c = a THEN v ELSE account[c].active
    BY <1>0, <2>1, ActiveWritten
  <2>3. DOMAIN account' = D
    BY <2>2
  <2>4. \A c \in D : c \notin DOMAIN account' \/ (account[c].active /\ ~account'[c].active) => c = a
    BY <2>2, <2>3
  <2>. QED  BY <1>0, <2>1, <2>2, <2>3, <2>4, AccountsKeep DEF D
<1>2. ASSUME NEW r \in Request, DeleteAccount(r) PROVE CashbookInv'
  <2> DEFINE a == tx[r].account
  <2>1. /\ a \in D /\ account' = [b \in D \ {a} |-> account[b]] /\ Commit({r})
        /\ UNCHANGED <<book, counted, lockedUntil>>
        /\ driver = "sqlite" => Entries(a) = {}
    BY <1>2 DEF DeleteAccount, CashbookInv, CashbookJobs, CashbookJob, StillSo
  <2> HIDE DEF a, D
  <2>2. /\ account' \in [D \ {a} -> AccountRow] /\ DOMAIN account' = D \ {a}
        /\ \A c \in D \ {a} : account'[c] = account[c]
    BY <1>0, <2>1
  <2>3. \A c \in D : c \notin DOMAIN account' \/ (account[c].active /\ ~account'[c].active) => c = a
    BY <2>2
  <2>. QED  BY <1>0, <2>1, <2>2, <2>3, AccountsKeep DEF D
<1>3. ASSUME NEW a \in Account, CreateAccount(a) PROVE CashbookInv'
  <2> DEFINE v == [active |-> TRUE, opening |-> 0]
  <2>1. /\ a \notin D /\ account' = Put(account, a, v) /\ Commit(E)
        /\ UNCHANGED <<book, counted, lockedUntil>>
    BY <1>3 DEF CreateAccount
  <2>2. v \in AccountRow /\ v.opening = 0
    BY DEF AccountRow
  <2> HIDE DEF v, D, E
  <2>3. /\ account' \in [D \cup {a} -> AccountRow] /\ DOMAIN account' = D \cup {a} /\ account'[a] = v
        /\ \A c \in D : account'[c] = account[c]
    BY <1>0, <2>1, <2>2 DEF Put, D
  <2>. QED  BY <1>0, <2>1, <2>2, <2>3, AccountsKeep DEF D
<1>4. ASSUME NEW a \in D, Activate(a) PROVE CashbookInv'
  <2> DEFINE v == TRUE
  <2>1. /\ v \in BOOLEAN /\ account' = WithActive(account, a, v) /\ Commit(E)
        /\ UNCHANGED <<book, counted, lockedUntil>>
    BY <1>4 DEF Activate, WithActive
  <2> HIDE DEF D, E, v
  <2>2. /\ account' \in [D -> AccountRow]
        /\ \A c \in D : /\ account'[c].opening = account[c].opening
                        /\ account'[c].active = IF c = a THEN v ELSE account[c].active
    BY <1>0, <2>1, ActiveWritten
  <2>3. DOMAIN account' = D
    BY <2>2
  <2>4. \A c \in D : ~(c \notin DOMAIN account' \/ (account[c].active /\ ~account'[c].active))
    BY <2>2, <2>3 DEF v
  <2>. QED  BY <1>0, <2>1, <2>2, <2>3, <2>4, AccountsKeep DEF D
<1>. QED  BY <1>1, <1>2, <1>3, <1>4 DEF Deactivate, DeleteAccount, CreateAccount, Activate

LEMMA LockKeeps ==
    ASSUME CashbookInv, NEW day \in LockDates, SetLock(day)
    PROVE  CashbookInv' /\ UNCHANGED <<account, book, counted>>
<1> DEFINE E == {}
<1>1. Commit(E) /\ E \in SUBSET Request /\ lockedUntil' = day /\ UNCHANGED <<account, book, counted>>
  BY DEF SetLock
<1> HIDE DEF E
<1>2. CashbookRows'
  BY <1>1 DEF CashbookInv, CashbookRows
<1>3. Grows(E)
  BY <1>1 DEF Grows, CashbookInv, CashbookJobs, CashbookJob
<1>4. CashbookJobs' /\ UNCHANGED driver
  BY <1>1, <1>3, CashbookJobsKept
<1>5. HistoryKeepsItsAccount' /\ (driver' = "sqlite" => OpeningShown(book, account)')
  BY <1>1, <1>4 DEF CashbookInv, HistoryKeepsItsAccount
<1>. QED  BY <1>1, <1>2, <1>4, <1>5 DEF CashbookInv
----------------------------------------------------------------------------
\* What a step makes of the entries: it leaves them and the counts alone, enters
\* one, writes the status of one, or writes a count.
CashbookChange ==
    \/ UNCHANGED <<book, counted>>
    \/ \E r \in Request : \/ Post(r) \/ VoidEntry(r) \/ VoidTransfer(r) \/ Approve(r)
                          \/ RecordCount(r) \/ VoidCount(r)

LEMMA CashbookStepIs ==
    ASSUME CashbookInv, [CashbookStep]_<<driver, tx, cashbook>>
    PROVE  CashbookInv' /\ CashbookChange
<1>1. ASSUME NEW r \in Request,
             \/ \E f \in Forms : Ask(r, f)
             \/ \E c \in Counts : AskToCount(r, c)
             \/ \E f \in DOMAIN book : LookToVoid(r, f) \/ LookToApprove(r, f)
             \/ \E c \in DOMAIN counted : LookToVoidCount(r, c)
             \/ \E a \in DOMAIN account : LookToDeactivate(r, a) \/ LookToDeleteAccount(r, a)
      PROVE  CashbookInv' /\ CashbookChange
  <2>1. Keep
    BY <1>1 DEF Ask, AskToCount, LookToVoid, LookToApprove, LookToVoidCount, LookToDeactivate,
                LookToDeleteAccount
  <2>. QED  BY <1>1, <2>1, CashbookLooksKeep DEF Keep, cashbook, CashbookChange
<1>2. ASSUME NEW r \in Request, LookToPost(r) \/ LookToCount(r)
      PROVE  CashbookInv' /\ CashbookChange
  <2>1. Keep
    BY <1>2 DEF LookToPost, LookToCount
  <2>. QED  BY <1>2, <2>1, LookToPostKeeps, LookToCountKeeps DEF Keep, cashbook, CashbookChange
<1>3. ASSUME NEW r \in Request, Answer(r) \/ (GiveUp(r) /\ UNCHANGED cashbook)
      PROVE  CashbookInv' /\ CashbookChange
  <2>1. Keep /\ \E R \in SUBSET Request : End(R)
    BY <1>3 DEF Answer, GiveUp, Keep
  <2>. QED  BY <2>1, CashbookQuiet DEF Keep, cashbook, CashbookChange
<1>4. CASE UNCHANGED <<driver, tx, cashbook>>
  BY <1>4, CashbookQuiet DEF Keep, cashbook, CashbookChange
<1>5. ASSUME NEW r \in Request, Post(r) PROVE CashbookInv' /\ CashbookChange
  BY <1>5, PostKeeps DEF CashbookChange
<1>6. ASSUME NEW r \in Request, VoidEntry(r) \/ VoidTransfer(r) \/ Approve(r)
      PROVE  CashbookInv' /\ CashbookChange
  BY <1>6, SettlingKeeps DEF CashbookChange
<1>7. ASSUME NEW r \in Request, RecordCount(r) \/ VoidCount(r)
      PROVE  CashbookInv' /\ CashbookChange
  BY <1>7, CountsKeep DEF CashbookChange
<1>8. CASE \/ \E r \in Request : Deactivate(r) \/ DeleteAccount(r)
           \/ \E a \in Account : CreateAccount(a)
           \/ \E a \in DOMAIN account : Activate(a)
  BY <1>8, AccountWritesKeep DEF CashbookChange
<1>9. ASSUME NEW day \in LockDates, SetLock(day) PROVE CashbookInv' /\ CashbookChange
  BY <1>9, LockKeeps DEF CashbookChange
<1>. QED
  BY <1>1, <1>2, <1>3, <1>4, <1>5, <1>6, <1>7, <1>8, <1>9 DEF CashbookStep, CashbookNext

LEMMA CashbookInvHolds == CashbookSpec => []CashbookInv
<1>1. CashbookInv /\ [CashbookStep]_<<driver, tx, cashbook>> => CashbookInv'
  BY CashbookStepIs
<1>. QED  BY <1>1, CashbookInitHolds, PTL DEF CashbookSpec

LEMMA CashbookInvTyped == CashbookInv => CashbookTypeOK
  BY DEF CashbookInv, CashbookRows, CashbookTypeOK

\* Accounts, entries and cash counts have their types, for any number of accounts,
\* forms, days and requests.
THEOREM CashbookTyped == CashbookSpec => []CashbookTypeOK
  BY CashbookInvTyped, CashbookInvHolds, PTL

\* What the accounts say is what their entries say: a form that is sent again is
\* entered once (on both drivers, for its operation key is unique), on SQLite the
\* opening balance shown is the one entry of it that stands, and an account with
\* entries is not deleted.
THEOREM BooksAgreeAlways == CashbookSpec => []BooksAgree
<1>1. CashbookInv => BooksAgree
  <2>. SUFFICES ASSUME CashbookInv PROVE BooksAgree
    OBVIOUS
  <2>1. EnteredOnce /\ HistoryKeepsItsAccount
    BY DEF CashbookInv, CashbookRows, EnteredOnce
  <2>2. OpeningAgrees
    <3>. SUFFICES ASSUME driver = "sqlite", NEW a \in DOMAIN account
                  PROVE  /\ Cardinality(OpeningsOf(book, a)) <= 1
                         /\ \A f \in OpeningsOf(book, a) : account[a].opening = f.amount
                         /\ OpeningsOf(book, a) = {} => account[a].opening = 0
      BY DEF OpeningAgrees
    <3>1. /\ \A f, g \in OpeningsOf(book, a) : f = g
          /\ \A f \in OpeningsOf(book, a) : account[a].opening = f.amount
          /\ OpeningsOf(book, a) = {} => account[a].opening = 0
      BY DEF CashbookInv, OpeningShown
    <3>2. CASE OpeningsOf(book, a) = {}
      <4>1. Cardinality(OpeningsOf(book, a)) = 0
        BY <3>2, FS_EmptySet
      <4>. QED  BY <3>1, <4>1
    <3>3. CASE OpeningsOf(book, a) # {}
      <4>1. PICK f \in OpeningsOf(book, a) : OpeningsOf(book, a) = {f}
        BY <3>1, <3>3
      <4>2. Cardinality({f}) = 1
        BY FS_Singleton
      <4>3. Cardinality(OpeningsOf(book, a)) = 1
        BY <4>1, <4>2
      <4>. QED  BY <3>1, <4>3
    <3>. QED  BY <3>2, <3>3
  <2>. QED  BY <2>1, <2>2 DEF BooksAgree
<1>. QED  BY <1>1, CashbookInvHolds, PTL

\* On SQLite an entry of a locked period keeps its status, a transfer leaves its
\* account with a balance, and a cash count is held against what the books say of
\* its day at that moment.
THEOREM EntriesStaySettled == CashbookSpec => EntriesAreSettled
<1> DEFINE Locked == driver = "sqlite" =>
                         \A f \in DOMAIN book :
                             f.day <= lockedUntil => book'[f].status = book[f].status
           Covered == driver = "sqlite" =>
                          \A f \in DOMAIN book' \ DOMAIN book :
                              f.kind = "transfer" => Balance(book', f.from) >= 0
           Against == driver = "sqlite" =>
                          \A c \in DOMAIN counted' \ DOMAIN counted :
                              counted'[c].expected = BalanceAsOf(book', c.account, c.day)
<1>1. ASSUME CashbookInv, [CashbookStep]_<<driver, tx, cashbook>> PROVE Locked /\ Covered /\ Against
  <2>1. CASE UNCHANGED <<book, counted>>
    BY <2>1
  <2>2. ASSUME NEW r \in Request, Post(r) PROVE Locked /\ Covered /\ Against
    <3>1. /\ UNCHANGED counted /\ DOMAIN book' = DOMAIN book \cup {tx[r].form}
          /\ \A g \in DOMAIN book : book'[g] = book[g]
          /\ driver = "sqlite" /\ tx[r].form.kind = "transfer" => Balance(book', tx[r].form.from) >= 0
      BY <1>1, <2>2, PostKeeps
    <3>. QED  BY <3>1
  <2>3. ASSUME NEW r \in Request, VoidEntry(r) \/ VoidTransfer(r) \/ Approve(r)
        PROVE  Locked /\ Covered /\ Against
    <3>1. /\ UNCHANGED counted /\ DOMAIN book' = DOMAIN book
          /\ driver = "sqlite" => Unlocked(tx[r].form.day)
          /\ \A g \in DOMAIN book : g # tx[r].form => book'[g].status = book[g].status
      BY <1>1, <2>3, SettlingKeeps
    <3>2. driver = "sqlite" => ~(tx[r].form.day <= lockedUntil) \/ tx[r].form \notin DOMAIN book
      <4>1. \A f \in DOMAIN book : f.day \in Int
        BY <1>1, FormIs, CashbookAssumption DEF CashbookInv, CashbookRows, Date
      <4>2. lockedUntil \in Int
        BY <1>1, CashbookAssumption DEF CashbookInv, CashbookRows
      <4>. QED  BY <3>1, <4>1, <4>2 DEF Unlocked
    <3>. QED  BY <3>1, <3>2
  <2>4. ASSUME NEW r \in Request, RecordCount(r) \/ VoidCount(r) PROVE Locked /\ Covered /\ Against
    <3>1. UNCHANGED book
      BY <2>4 DEF RecordCount, VoidCount
    <3>2. driver = "sqlite" =>
             \A c \in DOMAIN counted' \ DOMAIN counted :
                 counted'[c].expected = BalanceAsOf(book, c.account, c.day)
      BY <1>1, <2>4, CountsKeep
    <3>. QED  BY <3>1, <3>2
  <2>. QED  BY <1>1, <2>1, <2>2, <2>3, <2>4, CashbookStepIs DEF CashbookChange
<1>2. CashbookInv /\ [CashbookStep]_<<driver, tx, cashbook>> =>
         [Locked]_<<tx, cashbook>> /\ [Covered]_<<tx, cashbook>> /\ [Against]_<<tx, cashbook>>
  BY <1>1
<1>. QED
  BY <1>2, CashbookInvHolds, PTL
     DEF CashbookSpec, EntriesAreSettled, LockedEntriesStay, TransfersAreCovered, CountedAgainstTheBooks
----------------------------------------------------------------------------
(***************************************************************************)
(* Tournaments.  Each amount shown has one transaction that stands, and no two *)
(* have the same, so that a step changes both sums by the same difference. *)
(***************************************************************************)

TournamentsSpec ==
    InitRequests /\ TournamentsInit /\ [][TournamentsNext]_<<driver, tx, tournaments>>

ItemRow == [kind : ItemKind, amount : Amounts, posting : 1 .. MaxPostings]

PostingRow == [amount : Int, day : BookDays, voided : BOOLEAN]

TournamentRows ==
    /\ driver \in {"sqlite", "postgres"}
    /\ tournament \in [made : BOOLEAN, income : Incomes \cup {0}, posting : 0 .. MaxPostings]
    /\ ~tournament.made => tournament.income = 0 /\ tournament.posting = 0
    /\ items \in Seq(ItemRow) /\ Len(items) <= MaxItems
    /\ postings \in Seq(PostingRow) /\ Len(postings) <= MaxPostings
    /\ tournament.posting \in 0 .. Len(postings)
    /\ \A i \in DOMAIN items : items[i].posting \in DOMAIN postings
    /\ closedUntil \in BookDays \cup {0}

\* What the sums are taken over
StandingOf(ps) == {p \in DOMAIN ps : ~ps[p].voided}

StandingItems(its, ps, kind) ==
    {i \in DOMAIN its : its[i].kind = kind /\ its[i].posting \in StandingOf(ps)}

AmountsOf(w, A) == MapThenSumSet(LAMBDA i : w[i].amount, A)

\* Each amount that the tournament shows has a transaction of its own.
FeesPosted(t, ps) ==
    IF t.income = 0 THEN t.posting = 0
                    ELSE t.posting \in StandingOf(ps) /\ ps[t.posting].amount = t.income

ItemPosted(item, t, ps) ==
    /\ item.posting \in DOMAIN ps /\ item.posting # t.posting
    /\ ps[item.posting].amount = Signed(item.kind, item.amount)

ItemsPosted(its, t, ps) ==
    /\ \A i \in DOMAIN its : ItemPosted(its[i], t, ps)
    /\ \A i, k \in DOMAIN its : its[i].posting = its[k].posting => i = k

SumsAgree(t, its, ps) ==
    t.income + AmountsOf(its, StandingItems(its, ps, "sponsorship"))
        - (AmountsOf(its, StandingItems(its, ps, "official_payment"))
             + AmountsOf(its, StandingItems(its, ps, "expense")))
    = AmountsOf(ps, StandingOf(ps))

Settled(t, its, ps) == FeesPosted(t, ps) /\ ItemsPosted(its, t, ps) /\ SumsAgree(t, its, ps)

\* On SQLite an update has the transaction that the tournament names, and a void
\* has the one of an item, which stands.
TournamentJob(j) ==
    /\ j.op = "form" => j.form \in TournamentForms
                        /\ (j.form.kind = "update" => tournament.made)
    /\ j.op = "update" => /\ j.form \in TournamentForm /\ j.posting \in 0 .. Len(postings)
                          /\ tournament.made
                          /\ driver = "sqlite" => j.posting = tournament.posting
    /\ j.op = "void item" =>
          /\ j.posting \in DOMAIN postings
          /\ driver = "sqlite" => /\ j.posting \in StandingOf(postings)
                                  /\ \E i \in DOMAIN items : items[i].posting = j.posting

TournamentJobs == DOMAIN tx = Request /\ \A r \in Request : TournamentJob(tx[r])

TournamentInv ==
    /\ TournamentRows /\ TournamentJobs
    /\ driver = "sqlite" => Settled(tournament, items, postings)
----------------------------------------------------------------------------
(* Sums of amounts *)

LEMMA AmountsAre ==
    ASSUME NEW w, NEW A, IsFiniteSet(A)
    PROVE  AmountsOf(w, A) = SetSum([i \in A |-> w[i].amount], A)
<1> DEFINE F == [i \in A |-> w[i].amount]
           IsSum(h) == h = [t \in SUBSET A |->
                              IF t = {} THEN 0
                              ELSE w[CHOOSE x \in t : TRUE].amount + h[t \ {CHOOSE x \in t : TRUE}]]
<1>1. \A h : Adds(h, F, A) <=> IsSum(h)
  <2>1. \A t \in SUBSET A : t # {} => F[Pick(t)] = w[CHOOSE x \in t : TRUE].amount
    BY PickIn DEF Pick
  <2> HIDE DEF F
  <2>. QED  BY <2>1 DEF Adds, Pick
<1>2. AmountsOf(w, A) = (CHOOSE h : IsSum(h))[A]
  BY DEF AmountsOf, MapThenSumSet, MapThenFoldSet
<1> HIDE DEF F, IsSum
<1>3. Adds(CHOOSE h : IsSum(h), F, A)
  BY <1>1, AddsExists
<1>4. SetSum(F, A) = (CHOOSE h : IsSum(h))[A]
  BY <1>3, SumIs
<1>. QED  BY <1>2, <1>4 DEF F

LEMMA AmountsInt ==
    ASSUME NEW w, NEW A, IsFiniteSet(A), \A i \in A : w[i].amount \in Int
    PROVE  AmountsOf(w, A) \in Int
<1> DEFINE F == [i \in A |-> w[i].amount]
<1>1. \A i \in A : F[i] \in Int
  OBVIOUS
<1> HIDE DEF F
<1>2. SetSum(F, A) \in Int
  BY <1>1, SumInt
<1>. QED  BY <1>2, AmountsAre DEF F

LEMMA AmountsSame ==
    ASSUME NEW w, NEW v, NEW A, IsFiniteSet(A), \A i \in A : w[i].amount = v[i].amount
    PROVE  AmountsOf(w, A) = AmountsOf(v, A)
<1>1. [i \in A |-> w[i].amount] = [i \in A |-> v[i].amount]
  OBVIOUS
<1>. QED  BY <1>1, AmountsAre

LEMMA AmountsAdd ==
    ASSUME NEW w, NEW A, IsFiniteSet(A), NEW a, a \notin A,
           \A i \in A \cup {a} : w[i].amount \in Int
    PROVE  AmountsOf(w, A \cup {a}) = w[a].amount + AmountsOf(w, A)
<1> DEFINE B == A \cup {a}
           F == [i \in B |-> w[i].amount]
<1>1. IsFiniteSet(B)
  BY FS_AddElement
<1>2. SetSum(F, A) = SetSum([i \in A |-> w[i].amount], A)
  <2>1. \A i \in A : F[i] = [k \in A |-> w[k].amount][i]
    OBVIOUS
  <2>. HIDE DEF F
  <2>. QED  BY <2>1, SumSame
<1>3. SetSum(F, B) = F[a] + SetSum(F, A)
  <2>1. \A i \in A \cup {a} : F[i] \in Int
    OBVIOUS
  <2>. HIDE DEF F
  <2>. QED  BY <2>1, SumAdd
<1>4. AmountsOf(w, B) = SetSum(F, B) /\ AmountsOf(w, A) = SetSum([i \in A |-> w[i].amount], A)
  <2>. HIDE DEF B
  <2>. QED  BY <1>1, AmountsAre
<1>5. F[a] = w[a].amount
  OBVIOUS
<1>. QED  BY <1>2, <1>3, <1>4, <1>5
----------------------------------------------------------------------------
(* What the sums show *)

\* The rows of a tournament, as far as its sums need them
Rows(t, its, ps) ==
    /\ t.income \in Nat /\ t.posting \in Nat
    /\ its \in Seq(ItemRow) /\ ps \in Seq(PostingRow)

LEMMA RowsAre ==
    ASSUME NEW t, NEW its, NEW ps, Rows(t, its, ps)
    PROVE  /\ Len(its) \in Nat /\ DOMAIN its = 1 .. Len(its) /\ \A i \in DOMAIN its : its[i] \in ItemRow
           /\ Len(ps) \in Nat /\ DOMAIN ps = 1 .. Len(ps) /\ \A p \in DOMAIN ps : ps[p] \in PostingRow
           /\ IsFiniteSet(StandingOf(ps))
           /\ \A kind : IsFiniteSet(StandingItems(its, ps, kind))
<1> DEFINE T == ItemRow
           U == PostingRow
<1>1. its \in Seq(T) /\ ps \in Seq(U)
  BY DEF Rows
<1> HIDE DEF T, U
<1>2. /\ Len(its) \in Nat /\ DOMAIN its = 1 .. Len(its) /\ \A i \in DOMAIN its : its[i] \in T
      /\ Len(ps) \in Nat /\ DOMAIN ps = 1 .. Len(ps) /\ \A p \in DOMAIN ps : ps[p] \in U
  BY <1>1
<1>3. IsFiniteSet(DOMAIN its) /\ IsFiniteSet(DOMAIN ps)
  BY <1>2, FS_Interval
<1>4. IsFiniteSet(StandingOf(ps)) /\ \A kind : IsFiniteSet(StandingItems(its, ps, kind))
  BY <1>3, FS_Subset DEF StandingOf, StandingItems
<1>. QED  BY <1>2, <1>4 DEF T, U

LEMMA ItemIs ==
    ASSUME NEW i \in ItemRow
    PROVE  i.amount \in Nat /\ i.kind \in ItemKind /\ i.posting \in Nat
<1>1. i.amount \in Amounts /\ i.kind \in ItemKind /\ i.posting \in 1 .. MaxPostings
  BY DEF ItemRow
<1>2. \A x \in Amounts : x \in Nat
  BY TournamentsAssumption
<1>3. \A x \in 1 .. MaxPostings : x \in Nat
  BY TournamentsAssumption
<1>. QED  BY <1>1, <1>2, <1>3

LEMMA SumsInt ==
    ASSUME NEW t, NEW its, NEW ps, Rows(t, its, ps)
    PROVE  /\ AmountsOf(ps, StandingOf(ps)) \in Int
           /\ \A kind : AmountsOf(its, StandingItems(its, ps, kind)) \in Int
<1>1. \A p \in StandingOf(ps) : ps[p].amount \in Int
  BY RowsAre DEF StandingOf, PostingRow
<1>2. AmountsOf(ps, StandingOf(ps)) \in Int
  BY <1>1, RowsAre, AmountsInt
<1>3. ASSUME NEW kind PROVE AmountsOf(its, StandingItems(its, ps, kind)) \in Int
  <2>1. \A i \in StandingItems(its, ps, kind) : its[i].amount \in Int
    BY RowsAre, ItemIs DEF StandingItems
  <2>. QED  BY <2>1, RowsAre, AmountsInt
<1>. QED  BY <1>2, <1>3

\* Transactions that no item has come and go with the entry fees.
LEMMA FeesMove ==
    ASSUME NEW t, NEW its, NEW ps, Rows(t, its, ps), Settled(t, its, ps),
           NEW u, NEW qs, Rows(u, its, qs), FeesPosted(u, qs),
           DOMAIN ps \subseteq DOMAIN qs,
           \A p \in DOMAIN ps \ {t.posting, u.posting} : qs[p] = ps[p],
           StandingOf(qs) \ {t.posting, u.posting} = StandingOf(ps) \ {t.posting, u.posting},
           u.posting \in {0, t.posting} \/ u.posting \notin DOMAIN ps,
           t.posting # 0 /\ u.posting # t.posting => t.posting \notin StandingOf(qs)
    PROVE  Settled(u, its, qs)
<1> DEFINE S == StandingOf(ps) \ {t.posting, u.posting}
<1>1. ASSUME NEW v, NEW rs, Rows(v, its, rs), FeesPosted(v, rs), v.posting \in {t.posting, u.posting},
             StandingOf(rs) = S \/ (v.posting \in StandingOf(rs) /\ StandingOf(rs) = S \cup {v.posting}),
             \A p \in S : rs[p] = ps[p]
      PROVE  AmountsOf(rs, StandingOf(rs)) = v.income + AmountsOf(ps, S)
  <2>1. IsFiniteSet(S) /\ \A p \in StandingOf(rs) : rs[p].amount \in Int
    BY <1>1, RowsAre, FS_Subset DEF StandingOf, PostingRow
  <2>2. AmountsOf(rs, S) = AmountsOf(ps, S)
    BY <1>1, <2>1, AmountsSame
  <2>3. CASE v.posting \in StandingOf(rs)
    <3>1. v.posting \notin S /\ StandingOf(rs) = S \cup {v.posting} /\ v.posting # 0
      <4>1. 0 \notin StandingOf(rs)
        <5>1. Len(rs) \in Nat /\ DOMAIN rs = 1 .. Len(rs)
          BY <1>1, RowsAre
        <5>. QED  BY <5>1 DEF StandingOf
      <4>2. v.posting \notin S
        BY <1>1
      <4>. QED  BY <1>1, <2>3, <4>1, <4>2
    <3>2. v.income = rs[v.posting].amount
      BY <1>1, <3>1 DEF FeesPosted
    <3> HIDE DEF S
    <3>. QED  BY <2>1, <2>2, <3>1, <3>2, AmountsAdd
  <2>4. CASE v.posting \notin StandingOf(rs)
    <3>1. v.income = 0 /\ StandingOf(rs) = S
      BY <1>1, <2>4 DEF FeesPosted
    <3>2. AmountsOf(rs, S) \in Int
      BY <1>1, <2>1, <3>1, AmountsInt
    <3>. QED  BY <2>2, <3>1, <3>2
  <2>. QED  BY <2>3, <2>4
<1>2. AmountsOf(ps, StandingOf(ps)) = t.income + AmountsOf(ps, S)
  <2>1. FeesPosted(t, ps)
    BY DEF Settled
  <2>2. u.posting \in StandingOf(ps) => u.posting = t.posting
    BY RowsAre DEF StandingOf, Rows
  <2>3. StandingOf(ps) = S \/ (t.posting \in StandingOf(ps) /\ StandingOf(ps) = S \cup {t.posting})
    BY <2>2
  <2>. HIDE DEF S
  <2>. QED  BY <1>1, <2>1, <2>3
<1>3. AmountsOf(qs, StandingOf(qs)) = u.income + AmountsOf(ps, S)
  <2>1. t.posting \in StandingOf(qs) => t.posting = u.posting
    BY RowsAre DEF StandingOf, Rows
  <2>2. StandingOf(qs) = S \/ (u.posting \in StandingOf(qs) /\ StandingOf(qs) = S \cup {u.posting})
    BY <2>1
  <2>3. \A p \in S : qs[p] = ps[p]
    BY DEF StandingOf
  <2>. HIDE DEF S
  <2>. QED  BY <1>1, <2>2, <2>3
<1>4. \A i \in DOMAIN its : its[i].posting \in DOMAIN ps \ {t.posting, u.posting}
  BY RowsAre DEF Settled, ItemsPosted, ItemPosted
<1>5. \A kind : StandingItems(its, qs, kind) = StandingItems(its, ps, kind)
  BY <1>4 DEF StandingItems
<1>6. ItemsPosted(its, u, qs)
  BY <1>4 DEF Settled, ItemsPosted, ItemPosted
<1>7. AmountsOf(ps, S) \in Int
  <2>1. IsFiniteSet(StandingOf(ps)) /\ \A p \in StandingOf(ps) : ps[p] \in PostingRow
    BY RowsAre DEF StandingOf
  <2>2. IsFiniteSet(S)
    BY <2>1, FS_Subset
  <2>3. \A p \in S : ps[p].amount \in Int
    BY <2>1 DEF PostingRow
  <2>. HIDE DEF S
  <2>. QED  BY <2>2, <2>3, AmountsInt
<1>8. SumsAgree(u, its, qs)
  <2>1. SumsAgree(t, its, ps)
    BY DEF Settled
  <2>2. t.income \in Int /\ u.income \in Int
    BY DEF Rows
  <2>. HIDE DEF S
  <2>. QED  BY <1>2, <1>3, <1>5, <1>7, <2>1, <2>2, SumsInt DEF SumsAgree
<1>. QED  BY <1>6, <1>8 DEF Settled

\* An item comes with its transaction.
LEMMA ItemComes ==
    ASSUME NEW t, NEW its, NEW ps, Rows(t, its, ps), Settled(t, its, ps), t.posting \in 0 .. Len(ps),
           NEW item \in ItemRow, NEW post \in PostingRow,
           item.posting = Len(ps) + 1, ~post.voided, post.amount = Signed(item.kind, item.amount)
    PROVE  Settled(t, Append(its, item), Append(ps, post))
<1> DEFINE js == Append(its, item)
           qs == Append(ps, post)
           n == Len(its) + 1
           m == Len(ps) + 1
<1>1. /\ DOMAIN js = DOMAIN its \cup {n} /\ n \notin DOMAIN its /\ js[n] = item
      /\ DOMAIN qs = DOMAIN ps \cup {m} /\ m \notin DOMAIN ps /\ qs[m] = post
      /\ \A i \in DOMAIN its : js[i] = its[i]
      /\ \A p \in DOMAIN ps : qs[p] = ps[p]
  <2> DEFINE T == ItemRow
             U == PostingRow
  <2>1. its \in Seq(T) /\ ps \in Seq(U) /\ item \in T /\ post \in U
    BY DEF Rows
  <2> HIDE DEF T, U
  <2>. QED  BY <2>1
<1>2. Rows(t, js, qs)
  BY DEF Rows
<1> HIDE DEF js, qs
<1>3. StandingOf(qs) = StandingOf(ps) \cup {m} /\ m \notin StandingOf(ps)
  BY <1>1 DEF StandingOf
<1>4. FeesPosted(t, qs)
  BY <1>1, <1>3, RowsAre DEF Settled, FeesPosted, StandingOf
<1>5. \A i \in DOMAIN its : its[i].posting # m /\ its[i].posting \in DOMAIN ps
  BY <1>1 DEF Settled, ItemsPosted, ItemPosted
<1>6. ItemsPosted(js, t, qs)
  <2>1. \A i \in DOMAIN its : ItemPosted(js[i], t, qs)
    BY <1>1, <1>5 DEF Settled, ItemsPosted, ItemPosted
  <2>2. ItemPosted(js[n], t, qs)
    BY <1>1, RowsAre DEF ItemPosted
  <2>3. \A i, k \in DOMAIN js : js[i].posting = js[k].posting => i = k
    BY <1>1, <1>5 DEF Settled, ItemsPosted
  <2>. QED  BY <1>1, <2>1, <2>2, <2>3 DEF ItemsPosted
<1>7. AmountsOf(qs, StandingOf(qs)) = post.amount + AmountsOf(ps, StandingOf(ps))
  <2>1. \A p \in StandingOf(ps) : qs[p].amount = ps[p].amount
    BY <1>1 DEF StandingOf
  <2>2. AmountsOf(qs, StandingOf(ps)) = AmountsOf(ps, StandingOf(ps))
    BY <2>1, RowsAre, AmountsSame
  <2>3. \A p \in StandingOf(qs) : qs[p].amount \in Int
    BY <1>2, RowsAre DEF StandingOf, PostingRow
  <2>. QED  BY <1>1, <1>3, <2>2, <2>3, RowsAre, AmountsAdd
<1>8. ASSUME NEW kind
      PROVE  /\ kind = item.kind =>
                   AmountsOf(js, StandingItems(js, qs, kind)) =
                       item.amount + AmountsOf(its, StandingItems(its, ps, kind))
             /\ kind # item.kind =>
                   AmountsOf(js, StandingItems(js, qs, kind)) =
                       AmountsOf(its, StandingItems(its, ps, kind))
  <2> DEFINE A == StandingItems(its, ps, kind)
  <2>1. StandingItems(js, qs, kind) = (IF kind = item.kind THEN A \cup {n} ELSE A) /\ n \notin A
    BY <1>1, <1>3, <1>5 DEF StandingItems
  <2>2. AmountsOf(js, A) = AmountsOf(its, A)
    <3>1. \A i \in A : js[i].amount = its[i].amount
      BY <1>1 DEF StandingItems
    <3>2. IsFiniteSet(A)
      BY RowsAre
    <3>. HIDE DEF A
    <3>. QED  BY <3>1, <3>2, AmountsSame
  <2>3. \A i \in A \cup {n} : js[i].amount \in Int
    BY <1>1, <1>2, RowsAre, ItemIs DEF StandingItems
  <2>4. IsFiniteSet(A) /\ AmountsOf(its, A) \in Int
    BY RowsAre, SumsInt
  <2> HIDE DEF A
  <2>5. CASE kind = item.kind
    <3>1. AmountsOf(js, A \cup {n}) = js[n].amount + AmountsOf(js, A)
      BY <2>1, <2>3, <2>4, AmountsAdd
    <3>. QED  BY <1>1, <2>1, <2>2, <2>5, <3>1 DEF A
  <2>6. CASE kind # item.kind
    BY <2>1, <2>2, <2>6 DEF A
  <2>. QED  BY <2>5, <2>6
<1>9. SumsAgree(t, js, qs)
  <2>1. SumsAgree(t, its, ps) /\ t.income \in Int
    BY DEF Settled, Rows
  <2>2. item.amount \in Int /\ item.kind \in ItemKind
    BY ItemIs
  <2>3. /\ AmountsOf(ps, StandingOf(ps)) \in Int
        /\ \A kind \in ItemKind : AmountsOf(its, StandingItems(its, ps, kind)) \in Int
    BY SumsInt
  <2>4. item.kind = "sponsorship" \/ item.kind = "official_payment" \/ item.kind = "expense"
    BY <2>2 DEF ItemKind
  <2> DEFINE a(k) == AmountsOf(its, StandingItems(its, ps, k))
             b(k) == AmountsOf(js, StandingItems(js, qs, k))
             sp == "sponsorship"
             of == "official_payment"
             ex == "expense"
  <2>6. a(sp) \in Int /\ a(of) \in Int /\ a(ex) \in Int
    BY <2>3 DEF ItemKind
  <2>7. CASE item.kind = sp
    <3>1. b(sp) = item.amount + a(sp) /\ b(of) = a(of) /\ b(ex) = a(ex)
      BY <1>8, <2>7
    <3>2. post.amount = item.amount
      BY <2>7 DEF Signed
    <3>. QED  BY <1>7, <2>1, <2>2, <2>3, <2>6, <3>1, <3>2 DEF SumsAgree
  <2>8. CASE item.kind = of
    <3>1. b(of) = item.amount + a(of) /\ b(sp) = a(sp) /\ b(ex) = a(ex)
      BY <1>8, <2>8
    <3>2. post.amount = 0 - item.amount
      BY <2>2, <2>8 DEF Signed
    <3>. QED  BY <1>7, <2>1, <2>2, <2>3, <2>6, <3>1, <3>2, SMTT(60) DEF SumsAgree
  <2>9. CASE item.kind = ex
    <3>1. b(ex) = item.amount + a(ex) /\ b(sp) = a(sp) /\ b(of) = a(of)
      BY <1>8, <2>9
    <3>2. post.amount = 0 - item.amount
      BY <2>2, <2>9 DEF Signed
    <3>. QED  BY <1>7, <2>1, <2>2, <2>3, <2>6, <3>1, <3>2 DEF SumsAgree
  <2>. QED  BY <2>4, <2>7, <2>8, <2>9
<1>. QED  BY <1>4, <1>6, <1>9 DEF Settled, js, qs

Voided(ps, p) == [ps EXCEPT ![p].voided = TRUE]

LEMMA VoidedIs ==
    ASSUME NEW ps \in Seq(PostingRow), NEW p \in DOMAIN ps
    PROVE  /\ Voided(ps, p) \in Seq(PostingRow) /\ Len(Voided(ps, p)) = Len(ps)
           /\ DOMAIN Voided(ps, p) = DOMAIN ps
           /\ \A q \in DOMAIN ps \ {p} : Voided(ps, p)[q] = ps[q]
           /\ Voided(ps, p)[p].amount = ps[p].amount
           /\ StandingOf(Voided(ps, p)) = StandingOf(ps) \ {p}
<1> DEFINE U == PostingRow
<1>1. ps \in Seq(U)
  OBVIOUS
<1> DEFINE row == [ps[p] EXCEPT !.voided = TRUE]
<1>2. row \in U /\ row.amount = ps[p].amount /\ row.voided = TRUE
  <2> HIDE DEF U
  <2>1. ps[p] \in U
    BY <1>1
  <2>. QED  BY <2>1 DEF PostingRow, U
<1>3. Voided(ps, p) = [ps EXCEPT ![p] = row]
  BY DEF Voided
<1> HIDE DEF U, row
<1>4. /\ Voided(ps, p) \in Seq(U) /\ Len(Voided(ps, p)) = Len(ps)
      /\ DOMAIN Voided(ps, p) = DOMAIN ps
      /\ \A q \in DOMAIN ps \ {p} : Voided(ps, p)[q] = ps[q]
      /\ Voided(ps, p)[p] = row
  BY <1>1, <1>3, <1>2
<1>5. StandingOf(Voided(ps, p)) = StandingOf(ps) \ {p}
  BY <1>2, <1>4 DEF StandingOf
<1>. QED  BY <1>2, <1>4, <1>5 DEF U

\* An item is voided.
LEMMA ItemGoes ==
    ASSUME NEW t, NEW its, NEW ps, Rows(t, its, ps), Settled(t, its, ps),
           NEW i \in DOMAIN its, NEW p \in StandingOf(ps), p = its[i].posting
    PROVE  Settled(t, its, Voided(ps, p))
<1> DEFINE qs == Voided(ps, p)
<1>1. /\ qs \in Seq(PostingRow) /\ DOMAIN qs = DOMAIN ps
      /\ \A q \in DOMAIN ps \ {p} : qs[q] = ps[q]
      /\ \A q \in DOMAIN ps : qs[q].amount = ps[q].amount
      /\ StandingOf(qs) = StandingOf(ps) \ {p}
  <2>1. ps \in Seq(PostingRow) /\ p \in DOMAIN ps
    BY DEF Rows, StandingOf
  <2>2. qs = Voided(ps, p)
    OBVIOUS
  <2>. HIDE DEF qs
  <2>3. /\ qs \in Seq(PostingRow) /\ DOMAIN qs = DOMAIN ps
        /\ \A q \in DOMAIN ps \ {p} : qs[q] = ps[q]
        /\ qs[p].amount = ps[p].amount
        /\ StandingOf(qs) = StandingOf(ps) \ {p}
    BY <2>1, <2>2, VoidedIs
  <2>. QED  BY <2>3
<1> HIDE DEF qs
<1>2. Rows(t, its, qs)
  BY <1>1 DEF Rows
<1>3. p # t.posting /\ ps[p].amount = Signed(its[i].kind, its[i].amount)
      /\ \A k \in DOMAIN its : its[k].posting = p => k = i
  BY DEF Settled, ItemsPosted, ItemPosted
<1>4. FeesPosted(t, qs)
  <2>1. t.posting \in StandingOf(ps) => t.posting \in DOMAIN ps \ {p}
    BY <1>3 DEF StandingOf
  <2>. QED  BY <1>1, <1>3, <2>1 DEF Settled, FeesPosted
<1>5. ItemsPosted(its, t, qs)
  BY <1>1 DEF Settled, ItemsPosted, ItemPosted
<1>6. AmountsOf(ps, StandingOf(ps)) = ps[p].amount + AmountsOf(qs, StandingOf(qs))
  <2> DEFINE S == StandingOf(ps) \ {p}
  <2>1. IsFiniteSet(S) /\ p \notin S /\ S \cup {p} = StandingOf(ps)
        /\ \A q \in S \cup {p} : ps[q].amount \in Int
    <3>1. IsFiniteSet(StandingOf(ps)) /\ \A q \in StandingOf(ps) : ps[q] \in PostingRow
      BY RowsAre DEF StandingOf
    <3>. QED  BY <3>1, FS_Subset DEF PostingRow
  <2>2. \A q \in S : qs[q].amount = ps[q].amount
    BY <1>1 DEF StandingOf
  <2> HIDE DEF S
  <2>3. AmountsOf(qs, S) = AmountsOf(ps, S)
    BY <2>1, <2>2, AmountsSame
  <2>4. AmountsOf(ps, S \cup {p}) = ps[p].amount + AmountsOf(ps, S)
    BY <2>1, AmountsAdd
  <2>. QED  BY <1>1, <2>1, <2>3, <2>4 DEF S
<1>7. ASSUME NEW kind
      PROVE  /\ kind = its[i].kind =>
                   AmountsOf(its, StandingItems(its, ps, kind)) =
                       its[i].amount + AmountsOf(its, StandingItems(its, qs, kind))
             /\ kind # its[i].kind =>
                   AmountsOf(its, StandingItems(its, ps, kind)) =
                       AmountsOf(its, StandingItems(its, qs, kind))
  <2> DEFINE A == StandingItems(its, qs, kind)
  <2>1. StandingItems(its, ps, kind) = (IF kind = its[i].kind THEN A \cup {i} ELSE A) /\ i \notin A
    BY <1>1, <1>3 DEF StandingItems
  <2>2. \A k \in A \cup {i} : its[k].amount \in Int
    BY RowsAre, ItemIs DEF StandingItems
  <2>3. IsFiniteSet(A) /\ AmountsOf(its, A) \in Int
    BY <1>2, RowsAre, SumsInt
  <2> HIDE DEF A
  <2>4. CASE kind = its[i].kind
    <3>1. AmountsOf(its, A \cup {i}) = its[i].amount + AmountsOf(its, A)
      BY <2>1, <2>2, <2>3, AmountsAdd
    <3>. QED  BY <2>1, <2>4, <3>1 DEF A
  <2>5. CASE kind # its[i].kind
    BY <2>1, <2>5 DEF A
  <2>. QED  BY <2>4, <2>5
<1>8. SumsAgree(t, its, qs)
  <2>1. SumsAgree(t, its, ps) /\ t.income \in Int
    BY DEF Settled, Rows
  <2>2. its[i].amount \in Int /\ its[i].kind \in ItemKind
    BY RowsAre, ItemIs
  <2>3. /\ AmountsOf(qs, StandingOf(qs)) \in Int
        /\ \A kind \in ItemKind : AmountsOf(its, StandingItems(its, qs, kind)) \in Int
    BY <1>2, SumsInt
  <2>4. its[i].kind = "sponsorship" \/ its[i].kind = "official_payment" \/ its[i].kind = "expense"
    BY <2>2 DEF ItemKind
  <2>. QED  BY <1>3, <1>6, <1>7, <2>1, <2>2, <2>3, <2>4 DEF SumsAgree, ItemKind, Signed
<1>. QED  BY <1>4, <1>5, <1>8 DEF Settled, qs
----------------------------------------------------------------------------
(* Steps *)

LEMMA FormsAre ==
    ASSUME NEW f \in TournamentForms
    PROVE  /\ f.amount \in Nat /\ f.day \in BookDays
           /\ f.kind \in {"create", "update"} => f \in TournamentForm
           /\ f.kind \in ItemKind => f.amount \in Amounts
           /\ f \in TournamentForm => f.amount \in Incomes
<1>1. \A x \in Incomes \cup Amounts : x \in Nat
  BY TournamentsAssumption
<1>2. CASE f \in TournamentForm
  BY <1>1, <1>2 DEF TournamentForm, ItemKind
<1>3. CASE f \in SponsorshipForm
  BY <1>1, <1>3 DEF SponsorshipForm, TournamentForm
<1>4. CASE f \in OfficialForm
  BY <1>1, <1>4 DEF OfficialForm, TournamentForm
<1>5. CASE f \in ExpenseForm
  BY <1>1, <1>5 DEF ExpenseForm, TournamentForm
<1>. QED  BY <1>2, <1>3, <1>4, <1>5 DEF TournamentForms

LEMMA InvRows == TournamentInv => Rows(tournament, items, postings)
<1>1. \A x \in Incomes \cup {0} : x \in Nat
  BY TournamentsAssumption
<1>2. \A x \in 0 .. MaxPostings : x \in Nat
  BY TournamentsAssumption
<1>. QED  BY <1>1, <1>2 DEF TournamentInv, TournamentRows, Rows

\* The jobs that are left after a write which the tournament survives, and in
\* which the transactions only grow
LEMMA JobsStay ==
    ASSUME TournamentInv, NEW R, CommitTournament(R),
           tournament.made => tournament'.made, Len(postings) <= Len(postings'),
           Len(postings') \in Nat,
           DOMAIN postings' = 1 .. Len(postings')
    PROVE  TournamentJobs' /\ driver' = driver
<1>1. /\ driver' = driver
      /\ tx' = [k \in Request |-> IF k \in Overtaken({"form"}) \cup R THEN Idle ELSE tx[k]]
  BY DEF CommitTournament, End
<1>2. ASSUME NEW k \in Request PROVE TournamentJob(tx[k])'
  <2>1. tx'[k] = Idle \/ (tx'[k] = tx[k] /\ k \notin Overtaken({"form"}))
    BY <1>1
  <2>2. PICK j : j = tx'[k]
    OBVIOUS
  <2>3. CASE j = Idle
    BY <2>2, <2>3 DEF TournamentJob, Idle
  <2>4. CASE j = tx[k] /\ k \notin Overtaken({"form"})
    <3>1. driver = "sqlite" => j.op = "form"
      BY <2>4 DEF Overtaken
    <3>2. TournamentJob(j)
      BY <2>4 DEF TournamentInv, TournamentJobs
    <3>3. DOMAIN postings \subseteq DOMAIN postings' /\ 0 .. Len(postings) \subseteq 0 .. Len(postings')
      <4>1. Len(postings) \in Nat /\ DOMAIN postings = 1 .. Len(postings)
        BY InvRows, RowsAre
      <4>. QED  BY <4>1
    <3>. QED  BY <1>1, <2>2, <3>1, <3>2, <3>3 DEF TournamentJob
  <2>. QED  BY <2>1, <2>2, <2>3, <2>4
<1>. QED  BY <1>1, <1>2 DEF TournamentJobs

\* A step that only carries on
LEMMA CarriesOn ==
    ASSUME TournamentInv, NEW r \in Request, NEW j, TournamentJob(j),
           tx' = [tx EXCEPT ![r] = j], UNCHANGED <<driver, tournaments>>
    PROVE  TournamentInv'
<1>1. ASSUME NEW k \in Request PROVE TournamentJob(tx[k])'
  <2>1. PICK i : i = tx'[k]
    OBVIOUS
  <2>2. TournamentJob(i)
    BY <2>1 DEF TournamentInv, TournamentJobs
  <2>. QED  BY <2>1, <2>2 DEF TournamentJob, tournaments
<1>2. DOMAIN tx' = Request
  BY DEF TournamentInv, TournamentJobs
<1>. QED  BY <1>1, <1>2 DEF TournamentInv, TournamentRows, TournamentJobs, tournaments

LEMMA FillInKeeps ==
    ASSUME TournamentInv, NEW r \in Request, NEW f \in TournamentForms, FillIn(r, f)
    PROVE  TournamentInv'
<1>1. PICK j : j = [op |-> "form", form |-> f]
  OBVIOUS
<1>2. tournament.made \in BOOLEAN
  BY DEF TournamentInv, TournamentRows
<1>3. TournamentJob(j)
  BY <1>1, <1>2 DEF TournamentJob, FillIn
<1>. QED  BY <1>1, <1>3, CarriesOn DEF FillIn, Look

LEMMA LoadKeeps == ASSUME TournamentInv, NEW r \in Request, LoadTournament(r) PROVE TournamentInv'
<1>1. PICK j : j = [op |-> "update", form |-> tx[r].form, posting |-> tournament.posting]
  OBVIOUS
<1>2. tx[r].form \in TournamentForms /\ tx[r].form.kind = "update" /\ tournament.made
  BY DEF LoadTournament, TournamentInv, TournamentJobs, TournamentJob
<1>3. j.form \in TournamentForm
  BY <1>1, <1>2, FormsAre
<1>4. tournament.posting \in 0 .. Len(postings)
  BY DEF TournamentInv, TournamentRows
<1>5. TournamentJob(j)
  BY <1>1, <1>2, <1>3, <1>4 DEF TournamentJob
<1>. QED  BY <1>1, <1>5, CarriesOn DEF LoadTournament, Proceed

LEMMA LookToVoidItemKeeps ==
    ASSUME TournamentInv, NEW r \in Request, NEW i \in DOMAIN items, LookToVoidItem(r, i)
    PROVE  TournamentInv'
<1>1. PICK j : j = [op |-> "void item", posting |-> items[i].posting]
  OBVIOUS
<1>2. j.posting \in DOMAIN postings /\ j.posting \in StandingOf(postings)
  BY <1>1 DEF LookToVoidItem, TournamentInv, TournamentRows, StandingOf
<1>3. TournamentJob(j)
  BY <1>1, <1>2 DEF TournamentJob
<1>. QED  BY <1>1, <1>3, CarriesOn DEF LookToVoidItem, Look

\* The entry fees change.
LEMMA FeesKeep ==
    ASSUME TournamentInv, NEW r \in Request, CommitTournament({r}), UNCHANGED <<items, closedUntil>>,
           NEW u, tournament' = u, u.made = TRUE,
           u \in [made : BOOLEAN, income : Incomes \cup {0}, posting : 0 .. MaxPostings],
           postings' \in Seq(PostingRow), Len(postings') <= MaxPostings, u.posting \in 0 .. Len(postings'),
           Len(postings) <= Len(postings'),
           driver = "sqlite" => Settled(u, items, postings')
    PROVE  TournamentInv'
<1>1. Len(postings') \in Nat /\ DOMAIN postings' = 1 .. Len(postings')
  <2> DEFINE U == PostingRow
  <2>1. postings' \in Seq(U)
    OBVIOUS
  <2> HIDE DEF U
  <2>. QED  BY <2>1
<1>2. TournamentJobs' /\ driver' = driver
  BY <1>1, JobsStay
<1>3. \A i \in DOMAIN items : items[i].posting \in DOMAIN postings'
  <2>1. Len(postings) \in Nat /\ DOMAIN postings = 1 .. Len(postings)
    BY InvRows, RowsAre
  <2>. QED  BY <1>1, <2>1 DEF TournamentInv, TournamentRows
<1>4. TournamentRows'
  BY <1>2, <1>3 DEF TournamentInv, TournamentRows, ItemRow, PostingRow
<1>. QED  BY <1>2, <1>4 DEF TournamentInv

LEMMA PostingAppended ==
    ASSUME NEW ps \in Seq(PostingRow), NEW post \in PostingRow
    PROVE  /\ Append(ps, post) \in Seq(PostingRow) /\ Len(Append(ps, post)) = Len(ps) + 1
           /\ DOMAIN Append(ps, post) = DOMAIN ps \cup {Len(ps) + 1} /\ Len(ps) + 1 \notin DOMAIN ps
           /\ \A p \in DOMAIN ps : Append(ps, post)[p] = ps[p]
           /\ Append(ps, post)[Len(ps) + 1] = post
<1> DEFINE U == PostingRow
<1>1. ps \in Seq(U) /\ post \in U
  OBVIOUS
<1> HIDE DEF U
<1>2. /\ Append(ps, post) \in Seq(U) /\ Len(Append(ps, post)) = Len(ps) + 1
      /\ DOMAIN Append(ps, post) = DOMAIN ps \cup {Len(ps) + 1} /\ Len(ps) + 1 \notin DOMAIN ps
      /\ \A p \in DOMAIN ps : Append(ps, post)[p] = ps[p]
      /\ Append(ps, post)[Len(ps) + 1] = post
  BY <1>1
<1>. QED  BY <1>2 DEF U

\* The first transaction of the fees, or none yet
LEMMA FirstFeesKeep ==
    ASSUME TournamentInv, NEW r \in Request, NEW f \in TournamentForm,
           f.amount > 0 => Room,
           tournament' = [made |-> TRUE, income |-> f.amount,
                          posting |-> IF f.amount > 0 THEN Len(postings) + 1 ELSE 0],
           postings' = IF f.amount > 0 THEN Append(postings, Posting(f.amount, f.day)) ELSE postings,
           CommitTournament({r}), UNCHANGED <<items, closedUntil>>,
           driver = "sqlite" => tournament.posting = 0
    PROVE  TournamentInv'
<1>1. f.amount \in Incomes /\ f.amount \in Nat /\ f.day \in BookDays
  BY FormsAre DEF TournamentForms, TournamentForm
<1>2. PICK u : u = tournament'
  OBVIOUS
<1>3. PICK qs : qs = postings'
  OBVIOUS
<1>4. /\ Rows(tournament, items, postings) /\ postings \in Seq(PostingRow)
      /\ Len(postings) \in Nat /\ DOMAIN postings = 1 .. Len(postings)
  BY InvRows, RowsAre DEF Rows
<1>5. Posting(f.amount, f.day) \in PostingRow
  BY <1>1 DEF Posting, PostingRow
<1>6. Len(postings) <= MaxPostings /\ MaxPostings \in Nat
  BY TournamentsAssumption DEF TournamentInv, TournamentRows
<1>7. CASE f.amount > 0
  <2>1. /\ u = [made |-> TRUE, income |-> f.amount, posting |-> Len(postings) + 1]
        /\ qs = Append(postings, Posting(f.amount, f.day)) /\ Len(postings) + 1 <= MaxPostings
    <3>1. u = [made |-> TRUE, income |-> f.amount, posting |-> Len(postings) + 1]
      BY <1>2, <1>7
    <3>2. qs = Append(postings, Posting(f.amount, f.day))
      BY <1>3, <1>7
    <3>3. Len(postings) + 1 <= MaxPostings
      BY <1>4, <1>6, <1>7 DEF Room
    <3>. QED  BY <3>1, <3>2, <3>3
  <2>2. /\ qs \in Seq(PostingRow) /\ Len(qs) = Len(postings) + 1
        /\ DOMAIN qs = DOMAIN postings \cup {u.posting} /\ u.posting \notin DOMAIN postings
        /\ \A p \in DOMAIN postings : qs[p] = postings[p]
        /\ qs[u.posting] = Posting(f.amount, f.day)
    BY <1>4, <1>5, <2>1, PostingAppended
  <2>3. StandingOf(qs) = StandingOf(postings) \cup {u.posting}
    BY <2>2 DEF StandingOf, Posting
  <2>4. FeesPosted(u, qs)
    <3>1. u.income = f.amount /\ u.income # 0
      BY <1>1, <1>7, <2>1
    <3>2. qs[u.posting].amount = f.amount
      BY <2>2 DEF Posting
    <3>. QED  BY <2>3, <3>1, <3>2 DEF FeesPosted
  <2>5. Rows(u, items, qs)
    BY <1>1, <1>4, <2>1, <2>2 DEF Rows
  <2>6. driver = "sqlite" => Settled(u, items, qs)
    <3>. SUFFICES ASSUME driver = "sqlite" PROVE Settled(u, items, qs)
      OBVIOUS
    <3>1. Settled(tournament, items, postings) /\ tournament.posting = 0
      BY DEF TournamentInv
    <3>. QED  BY <1>4, <2>2, <2>3, <2>4, <2>5, <3>1, FeesMove
  <2>7. /\ u \in [made : BOOLEAN, income : Incomes \cup {0}, posting : 0 .. MaxPostings] /\ u.made = TRUE
        /\ u.posting \in 0 .. Len(qs) /\ Len(postings) <= Len(qs) /\ Len(qs) <= MaxPostings
    BY <1>1, <1>4, <1>6, <2>1, <2>2
  <2>. QED  BY <1>2, <1>3, <2>2, <2>6, <2>7, FeesKeep
<1>8. CASE ~(f.amount > 0)
  <2>1. /\ u = [made |-> TRUE, income |-> f.amount, posting |-> 0] /\ f.amount = 0
        /\ qs = postings
    <3>1. f.amount = 0
      BY <1>1, <1>8
    <3>. QED  BY <1>2, <1>3, <3>1
  <2>2. FeesPosted(u, qs) /\ Rows(u, items, qs)
    BY <1>4, <2>1 DEF FeesPosted, Rows
  <2>3. driver = "sqlite" => Settled(u, items, qs)
    <3>. SUFFICES ASSUME driver = "sqlite" PROVE Settled(u, items, qs)
      OBVIOUS
    <3>1. Settled(tournament, items, postings) /\ tournament.posting = 0
      BY DEF TournamentInv
    <3>. QED  BY <1>4, <2>1, <2>2, <3>1, FeesMove
  <2>4. /\ u \in [made : BOOLEAN, income : Incomes \cup {0}, posting : 0 .. MaxPostings] /\ u.made = TRUE
        /\ u.posting \in 0 .. Len(qs) /\ Len(postings) <= Len(qs) /\ Len(qs) <= MaxPostings
    BY <1>1, <1>4, <1>6, <2>1
  <2>. QED  BY <1>2, <1>3, <1>4, <2>1, <2>3, <2>4, FeesKeep
<1>. QED  BY <1>7, <1>8

LEMMA CreateTournamentKeeps ==
    ASSUME TournamentInv, NEW r \in Request, CreateTournament(r) PROVE TournamentInv'
<1>1. tx[r].form \in TournamentForms /\ tx[r].form.kind = "create"
  BY DEF CreateTournament, TournamentInv, TournamentJobs, TournamentJob
<1>2. tx[r].form \in TournamentForm
  BY <1>1, FormsAre
<1>3. tournament.posting = 0
  BY DEF CreateTournament, TournamentInv, TournamentRows
<1>. QED  BY <1>2, <1>3, FirstFeesKeep DEF CreateTournament

\* What an update has loaded
LEMMA UpdateIs ==
    ASSUME TournamentInv, NEW r \in Request, tx[r].op = "update"
    PROVE  /\ tx[r].form \in TournamentForm /\ tx[r].posting \in 0 .. Len(postings)
           /\ driver = "sqlite" => tx[r].posting = tournament.posting
  BY DEF TournamentInv, TournamentJobs, TournamentJob

LEMMA FirstPostKeeps == ASSUME TournamentInv, NEW r \in Request, FirstPost(r) PROVE TournamentInv'
  BY UpdateIs, FirstFeesKeep DEF FirstPost, Updates

LEMMA RepostKeeps == ASSUME TournamentInv, NEW r \in Request, Repost(r) PROVE TournamentInv'
<1>1. PICK f : f = tx[r].form
  OBVIOUS
<1>2. PICK p : p = tx[r].posting
  OBVIOUS
<1>3. PICK u : u = tournament'
  OBVIOUS
<1>4. PICK qs : qs = postings'
  OBVIOUS
<1>5. /\ f \in TournamentForm /\ p \in 0 .. Len(postings)
      /\ driver = "sqlite" => p = tournament.posting
  BY <1>1, <1>2, UpdateIs DEF Repost, Updates
<1>6. f.amount \in Incomes /\ f.amount \in Nat /\ f.day \in BookDays
  BY <1>5, FormsAre DEF TournamentForms, TournamentForm
<1>7. /\ Rows(tournament, items, postings) /\ postings \in Seq(PostingRow)
      /\ Len(postings) \in Nat /\ DOMAIN postings = 1 .. Len(postings)
  BY InvRows, RowsAre DEF Rows
<1>8. Len(postings) <= MaxPostings /\ MaxPostings \in Nat
  BY TournamentsAssumption DEF TournamentInv, TournamentRows
<1>9. /\ u = [made |-> TRUE, income |-> f.amount, posting |-> p] /\ f.amount > 0 /\ p # 0
      /\ p \in StandingOf(postings)
      /\ qs = [postings EXCEPT ![p] = Posting(f.amount, f.day)]
      /\ CommitTournament({r}) /\ UNCHANGED <<items, closedUntil>>
  BY <1>1, <1>2, <1>3, <1>4, <1>5, <1>7 DEF Repost, Updates, StandingOf
<1>10. PICK post : post = Posting(f.amount, f.day)
  OBVIOUS
<1>11. post \in PostingRow /\ ~post.voided /\ post.amount = f.amount
  BY <1>6, <1>10 DEF Posting, PostingRow
<1>12. /\ qs \in Seq(PostingRow) /\ Len(qs) = Len(postings) /\ DOMAIN qs = DOMAIN postings
       /\ \A q \in DOMAIN postings \ {p} : qs[q] = postings[q]
       /\ qs[p] = post /\ p \in DOMAIN postings
  <2> DEFINE U == PostingRow
  <2>1. /\ postings \in Seq(U) /\ post \in U /\ p \in DOMAIN postings
        /\ qs = [postings EXCEPT ![p] = post]
    BY <1>7, <1>9, <1>10, <1>11 DEF StandingOf
  <2> HIDE DEF U
  <2>2. /\ qs \in Seq(U) /\ Len(qs) = Len(postings) /\ DOMAIN qs = DOMAIN postings
        /\ \A q \in DOMAIN postings \ {p} : qs[q] = postings[q]
        /\ qs[p] = post /\ p \in DOMAIN postings
    BY <2>1
  <2>. QED  BY <2>2 DEF U
<1>13. StandingOf(qs) = StandingOf(postings)
  BY <1>9, <1>11, <1>12 DEF StandingOf
<1>14. FeesPosted(u, qs)
  BY <1>6, <1>9, <1>11, <1>12, <1>13 DEF FeesPosted
<1>15. Rows(u, items, qs)
  BY <1>5, <1>6, <1>7, <1>9, <1>12 DEF Rows
<1>16. driver = "sqlite" => Settled(u, items, qs)
  <2>. SUFFICES ASSUME driver = "sqlite" PROVE Settled(u, items, qs)
    OBVIOUS
  <2>1. Settled(tournament, items, postings) /\ u.posting = tournament.posting
    BY <1>5, <1>9 DEF TournamentInv
  <2>2. u.posting = p
    BY <1>9
  <2>. QED  BY <1>7, <1>12, <1>13, <1>14, <1>15, <2>1, <2>2, FeesMove
<1>17. /\ u \in [made : BOOLEAN, income : Incomes \cup {0}, posting : 0 .. MaxPostings] /\ u.made = TRUE
       /\ u.posting \in 0 .. Len(qs) /\ Len(postings) <= Len(qs) /\ Len(qs) <= MaxPostings
  BY <1>5, <1>6, <1>7, <1>8, <1>9, <1>12
<1>. QED  BY <1>3, <1>4, <1>9, <1>12, <1>16, <1>17, FeesKeep

LEMMA UnpostKeeps == ASSUME TournamentInv, NEW r \in Request, Unpost(r) PROVE TournamentInv'
<1>1. PICK p : p = tx[r].posting
  OBVIOUS
<1>2. PICK u : u = tournament'
  OBVIOUS
<1>3. PICK qs : qs = postings'
  OBVIOUS
<1>4. /\ tx[r].form \in TournamentForm /\ p \in 0 .. Len(postings)
      /\ driver = "sqlite" => p = tournament.posting
  BY <1>1, UpdateIs DEF Unpost, Updates
<1>5. /\ Rows(tournament, items, postings) /\ postings \in Seq(PostingRow)
      /\ Len(postings) \in Nat /\ DOMAIN postings = 1 .. Len(postings)
  BY InvRows, RowsAre DEF Rows
<1>6. Len(postings) <= MaxPostings /\ MaxPostings \in Nat
  BY TournamentsAssumption DEF TournamentInv, TournamentRows
<1>7. /\ u = [made |-> TRUE, income |-> 0, posting |-> 0] /\ p # 0
      /\ p \in DOMAIN postings
      /\ qs = Voided(postings, p)
      /\ CommitTournament({r}) /\ UNCHANGED <<items, closedUntil>>
  <2>1. /\ tournament' = [made |-> TRUE, income |-> tx[r].form.amount, posting |-> 0]
        /\ tx[r].form.amount = 0
        /\ postings' = [postings EXCEPT ![tx[r].posting].voided = TRUE] /\ p # 0
        /\ CommitTournament({r}) /\ UNCHANGED <<items, closedUntil>>
    BY <1>1 DEF Unpost, Updates
  <2>2. u = [made |-> TRUE, income |-> 0, posting |-> 0]
    BY <1>2, <2>1
  <2>3. qs = Voided(postings, p)
    BY <1>1, <1>3, <2>1 DEF Voided
  <2>. QED  BY <1>4, <1>5, <2>1, <2>2, <2>3
<1>8. /\ qs \in Seq(PostingRow) /\ Len(qs) = Len(postings) /\ DOMAIN qs = DOMAIN postings
      /\ \A q \in DOMAIN postings \ {p} : qs[q] = postings[q]
      /\ StandingOf(qs) = StandingOf(postings) \ {p}
  BY <1>5, <1>7, VoidedIs
<1>9. FeesPosted(u, qs) /\ Rows(u, items, qs)
  BY <1>5, <1>7, <1>8 DEF FeesPosted, Rows
<1>10. driver = "sqlite" => Settled(u, items, qs)
  <2>. SUFFICES ASSUME driver = "sqlite" PROVE Settled(u, items, qs)
    OBVIOUS
  <2>1. Settled(tournament, items, postings) /\ p = tournament.posting /\ u.posting = 0
    BY <1>4, <1>7 DEF TournamentInv
  <2>. QED  BY <1>5, <1>7, <1>8, <1>9, <2>1, FeesMove
<1>11. /\ u \in [made : BOOLEAN, income : Incomes \cup {0}, posting : 0 .. MaxPostings] /\ u.made = TRUE
       /\ u.posting \in 0 .. Len(qs) /\ Len(postings) <= Len(qs) /\ Len(qs) <= MaxPostings
  BY <1>5, <1>6, <1>7, <1>8
<1>. QED  BY <1>2, <1>3, <1>7, <1>8, <1>10, <1>11, FeesKeep

\* Items come and go.
LEMMA RecordsKeeps ==
    ASSUME TournamentInv, NEW r \in Request, NEW kind \in ItemKind, Records(r, kind)
    PROVE  TournamentInv'
<1>1. PICK f : f = tx[r].form
  OBVIOUS
<1>2. f \in TournamentForms /\ f.kind = kind
  BY <1>1 DEF Records, TournamentInv, TournamentJobs, TournamentJob
<1>3. f.amount \in Amounts /\ f.amount \in Nat /\ f.day \in BookDays
  BY <1>2, FormsAre
<1>4. /\ Rows(tournament, items, postings) /\ items \in Seq(ItemRow) /\ postings \in Seq(PostingRow)
      /\ Len(postings) \in Nat /\ DOMAIN postings = 1 .. Len(postings)
      /\ Len(items) \in Nat /\ DOMAIN items = 1 .. Len(items)
  BY InvRows, RowsAre DEF Rows
<1>5. Len(postings) <= MaxPostings /\ MaxPostings \in Nat /\ Len(items) <= MaxItems /\ MaxItems \in Nat
  BY TournamentsAssumption DEF TournamentInv, TournamentRows
<1>6. PICK item : item = [kind |-> kind, amount |-> f.amount, posting |-> Len(postings) + 1]
  OBVIOUS
<1>7. PICK post : post = Posting(Signed(kind, f.amount), f.day)
  OBVIOUS
<1>8. /\ tournament.made /\ Len(postings) + 1 <= MaxPostings /\ Len(items) + 1 <= MaxItems
      /\ items' = Append(items, item) /\ postings' = Append(postings, post)
      /\ CommitTournament({r}) /\ UNCHANGED <<tournament, closedUntil>>
  BY <1>1, <1>2, <1>4, <1>5, <1>6, <1>7 DEF Records, Room
<1>9. item \in ItemRow /\ item.posting = Len(postings) + 1
  <2>1. Len(postings) + 1 \in 1 .. MaxPostings
    BY <1>4, <1>5, <1>8
  <2>. QED  BY <1>3, <1>6, <2>1 DEF ItemRow
<1>10. post \in PostingRow /\ ~post.voided /\ post.amount = Signed(item.kind, item.amount)
  <2>1. Signed(kind, f.amount) \in Int
    BY <1>3 DEF Signed
  <2>. QED  BY <1>3, <1>6, <1>7, <2>1 DEF Posting, PostingRow
<1>11. /\ postings' \in Seq(PostingRow) /\ Len(postings') = Len(postings) + 1
       /\ DOMAIN postings' = DOMAIN postings \cup {Len(postings) + 1}
       /\ \A p \in DOMAIN postings : postings'[p] = postings[p]
  BY <1>4, <1>8, <1>10, PostingAppended
<1>12. /\ items' \in Seq(ItemRow) /\ Len(items') = Len(items) + 1
       /\ DOMAIN items' = DOMAIN items \cup {Len(items) + 1}
       /\ \A i \in DOMAIN items : items'[i] = items[i]
       /\ items'[Len(items) + 1] = item
  <2> DEFINE T == ItemRow
  <2>1. items \in Seq(T) /\ item \in T
    BY <1>4, <1>9
  <2> HIDE DEF T
  <2>2. /\ items' \in Seq(T) /\ Len(items') = Len(items) + 1
        /\ DOMAIN items' = DOMAIN items \cup {Len(items) + 1}
        /\ \A i \in DOMAIN items : items'[i] = items[i]
        /\ items'[Len(items) + 1] = item
    BY <1>8, <2>1
  <2>. QED  BY <2>2 DEF T
<1>13. TournamentJobs' /\ driver' = driver
  <2>1. tournament'.made /\ Len(postings) <= Len(postings') /\ Len(postings') \in Nat
        /\ DOMAIN postings' = 1 .. Len(postings')
    BY <1>4, <1>8, <1>11
  <2>. QED  BY <1>8, <2>1, JobsStay
<1>14. TournamentRows'
  <2>1. tournament.posting \in 0 .. Len(postings')
    BY <1>4, <1>11 DEF TournamentInv, TournamentRows
  <2>2. \A i \in DOMAIN items' : items'[i].posting \in DOMAIN postings'
    BY <1>9, <1>11, <1>12 DEF TournamentInv, TournamentRows
  <2>3. /\ items' \in Seq(ItemRow') /\ Len(items') <= MaxItems
        /\ postings' \in Seq(PostingRow') /\ Len(postings') <= MaxPostings
    BY <1>8, <1>11, <1>12 DEF ItemRow, PostingRow
  <2>. QED  BY <1>8, <1>13, <2>1, <2>2, <2>3 DEF TournamentInv, TournamentRows
<1>15. driver = "sqlite" => Settled(tournament, items', postings')
  <2>. SUFFICES ASSUME driver = "sqlite" PROVE Settled(tournament, items', postings')
    OBVIOUS
  <2>1. Settled(tournament, items, postings) /\ tournament.posting \in 0 .. Len(postings)
    BY DEF TournamentInv, TournamentRows
  <2>. QED  BY <1>4, <1>8, <1>9, <1>10, <2>1, ItemComes
<1>. QED  BY <1>8, <1>13, <1>14, <1>15 DEF TournamentInv

LEMMA VoidItemKeeps == ASSUME TournamentInv, NEW r \in Request, VoidItem(r) PROVE TournamentInv'
<1>1. PICK p : p = tx[r].posting
  OBVIOUS
<1>2. /\ p \in DOMAIN postings
      /\ driver = "sqlite" => /\ p \in StandingOf(postings)
                              /\ \E i \in DOMAIN items : items[i].posting = p
  BY <1>1 DEF VoidItem, TournamentInv, TournamentJobs, TournamentJob
<1>3. /\ Rows(tournament, items, postings) /\ postings \in Seq(PostingRow)
      /\ Len(postings) \in Nat /\ DOMAIN postings = 1 .. Len(postings)
  BY InvRows, RowsAre DEF Rows
<1>4. /\ postings' = Voided(postings, p)
      /\ CommitTournament({r}) /\ UNCHANGED <<tournament, items, closedUntil>>
  BY <1>1 DEF VoidItem, Voided
<1>5. postings' \in Seq(PostingRow) /\ Len(postings') = Len(postings) /\ DOMAIN postings' = DOMAIN postings
  BY <1>2, <1>3, <1>4, VoidedIs
<1>7. TournamentJobs' /\ driver' = driver
  <2>1. (tournament.made => tournament'.made) /\ Len(postings) <= Len(postings') /\ Len(postings') \in Nat
        /\ DOMAIN postings' = 1 .. Len(postings')
    BY <1>3, <1>4, <1>5
  <2>. QED  BY <1>4, <2>1, JobsStay
<1>8. TournamentRows'
  BY <1>4, <1>5, <1>7 DEF TournamentInv, TournamentRows, ItemRow, PostingRow
<1>9. driver = "sqlite" => Settled(tournament, items, postings')
  BY <1>2, <1>3, <1>4, ItemGoes DEF TournamentInv
<1>. QED  BY <1>4, <1>7, <1>8, <1>9 DEF TournamentInv

LEMMA CloseBooksKeeps ==
    ASSUME TournamentInv, NEW day \in BookDays \cup {0}, CloseBooks(day) PROVE TournamentInv'
<1>1. /\ closedUntil' = day /\ CommitTournament({}) /\ UNCHANGED <<tournament, items, postings>>
  BY DEF CloseBooks
<1>2. Len(postings) \in Nat /\ DOMAIN postings = 1 .. Len(postings)
  BY InvRows, RowsAre
<1>3. TournamentJobs' /\ driver' = driver
  BY <1>1, <1>2, JobsStay
<1>. QED  BY <1>1, <1>3 DEF TournamentInv, TournamentRows, ItemRow, PostingRow

LEMMA TournamentStopKeeps ==
    ASSUME TournamentInv, NEW r \in Request, GiveUp(r), UNCHANGED tournaments
    PROVE  TournamentInv'
<1>1. tx' = [k \in Request |-> IF k \in {r} THEN Idle ELSE tx[k]] /\ UNCHANGED driver
  BY DEF GiveUp, End
<1>2. PICK j : j = Idle
  OBVIOUS
<1>3. TournamentJob(j)
  BY <1>2 DEF TournamentJob, Idle
<1>4. tx' = [tx EXCEPT ![r] = j]
  BY <1>1, <1>2 DEF TournamentInv, TournamentJobs
<1>. QED  BY <1>1, <1>3, <1>4, CarriesOn

LEMMA TournamentInitHolds == InitRequests /\ TournamentsInit => TournamentInv
<1>. SUFFICES ASSUME InitRequests, TournamentsInit PROVE TournamentInv
  OBVIOUS
<1>1. MaxItems \in Nat /\ MaxPostings \in Nat
  BY TournamentsAssumption
<1>2. /\ tournament = [made |-> FALSE, income |-> 0, posting |-> 0]
      /\ items = <<>> /\ postings = <<>> /\ closedUntil = 0
  BY DEF TournamentsInit
<1>3. items \in Seq(ItemRow) /\ postings \in Seq(PostingRow) /\ Len(items) = 0 /\ Len(postings) = 0
      /\ DOMAIN items = {} /\ DOMAIN postings = {}
  <2> DEFINE T == ItemRow
             U == PostingRow
  <2> HIDE DEF T, U
  <2>1. items \in Seq(T) /\ postings \in Seq(U) /\ Len(items) = 0 /\ Len(postings) = 0
        /\ DOMAIN items = {} /\ DOMAIN postings = {}
    BY <1>2
  <2>. QED  BY <2>1 DEF T, U
<1>4. TournamentRows
  BY <1>1, <1>2, <1>3 DEF TournamentRows, InitRequests
<1>5. TournamentJobs
  BY DEF TournamentJobs, TournamentJob, InitRequests, Idle
<1>6. Settled(tournament, items, postings)
  <2>1. StandingOf(postings) = {} /\ \A kind : StandingItems(items, postings, kind) = {}
    BY <1>3 DEF StandingOf, StandingItems
  <2>2. \A w : AmountsOf(w, {}) = 0
    BY FS_EmptySet, AmountsAre, SumEmpty
  <2>3. SumsAgree(tournament, items, postings)
    <3>1. \A kind : AmountsOf(items, StandingItems(items, postings, kind)) = 0
      BY <2>1, <2>2
    <3>2. AmountsOf(postings, StandingOf(postings)) = 0 /\ tournament.income = 0
      BY <1>2, <2>1, <2>2
    <3>. QED  BY <3>1, <3>2 DEF SumsAgree
  <2>. QED  BY <1>2, <1>3, <2>3 DEF Settled, FeesPosted, ItemsPosted
<1>. QED  BY <1>4, <1>5, <1>6 DEF TournamentInv

LEMMA TournamentInvHolds == TournamentsSpec => []TournamentInv
<1>1. TournamentInv /\ [TournamentsNext]_<<driver, tx, tournaments>> => TournamentInv'
  <2>. SUFFICES ASSUME TournamentInv, [TournamentsNext]_<<driver, tx, tournaments>>
                PROVE  TournamentInv'
    OBVIOUS
  <2>1. ASSUME NEW r \in Request,
               \/ \E f \in TournamentForms : FillIn(r, f)
               \/ CreateTournament(r) \/ LoadTournament(r)
               \/ Repost(r) \/ FirstPost(r) \/ Unpost(r)
        PROVE  TournamentInv'
    BY <2>1, FillInKeeps, CreateTournamentKeeps, LoadKeeps, RepostKeeps, FirstPostKeeps, UnpostKeeps
  <2>2. ASSUME NEW r \in Request,
               \/ RecordSponsorship(r) \/ RecordOfficial(r) \/ RecordExpense(r)
               \/ \E i \in DOMAIN items : LookToVoidItem(r, i)
               \/ VoidItem(r)
               \/ GiveUp(r) /\ UNCHANGED tournaments
        PROVE  TournamentInv'
    BY <2>2, RecordsKeeps, LookToVoidItemKeeps, VoidItemKeeps, TournamentStopKeeps
    DEF RecordSponsorship, RecordOfficial, RecordExpense, ItemKind
  <2>3. CASE UNCHANGED <<driver, tx, tournaments>>
    BY <2>3 DEF TournamentInv, TournamentRows, TournamentJobs, TournamentJob, ItemRow, PostingRow,
                tournaments
  <2>. QED  BY <2>1, <2>2, <2>3, CloseBooksKeeps DEF TournamentsNext
<1>. QED  BY <1>1, TournamentInitHolds, PTL DEF TournamentsSpec

LEMMA TournamentsInvTyped == TournamentInv => TournamentsTypeOK
<1>. SUFFICES ASSUME TournamentInv PROVE TournamentsTypeOK
  OBVIOUS
<1>1. /\ \A i \in DOMAIN items : items[i] \in ItemRow
      /\ \A p \in DOMAIN postings : postings[p] \in PostingRow
  BY InvRows, RowsAre
<1>2. /\ \A i \in DOMAIN items :
            items[i] \in [kind : ItemKind, amount : Amounts, posting : 1 .. MaxPostings]
      /\ \A p \in DOMAIN postings :
            postings[p] \in [amount : Int, day : BookDays, voided : BOOLEAN]
  BY <1>1 DEF ItemRow, PostingRow
<1>. QED  BY <1>2 DEF TournamentInv, TournamentRows, TournamentsTypeOK

\* The tournament, its items and the transactions of both have their types, for
\* any number of items, transactions and requests.
THEOREM TournamentsTyped == TournamentsSpec => []TournamentsTypeOK
  BY TournamentsInvTyped, TournamentInvHolds, PTL

\* On SQLite the net income that a tournament shows is the sum of the finance
\* transactions that stand, whatever fees, sponsorships, payments and expenses
\* are recorded, changed and voided, and in whatever order they commit.
THEOREM TournamentAlwaysAgrees == TournamentsSpec => []TournamentAgrees
<1>1. TournamentInv => TournamentAgrees
  <2>. SUFFICES ASSUME TournamentInv, driver = "sqlite"
                PROVE  Net = MapThenSumSet(LAMBDA p : postings[p].amount, Standing)
    BY DEF TournamentAgrees
  <2>1. SumsAgree(tournament, items, postings)
    BY DEF TournamentInv, Settled
  <2>2. Standing = StandingOf(postings)
    BY DEF Standing, StandingOf
  <2>3. \A kind : TotalOf(kind) = AmountsOf(items, StandingItems(items, postings, kind))
    BY <2>2 DEF TotalOf, AmountsOf, StandingItems, MapThenSumSet, MapThenFoldSet
  <2>4. MapThenSumSet(LAMBDA p : postings[p].amount, Standing)
            = AmountsOf(postings, StandingOf(postings))
    BY <2>2 DEF AmountsOf, MapThenSumSet, MapThenFoldSet
  <2>. QED  BY <2>1, <2>3, <2>4 DEF Net, SumsAgree
<1>. QED  BY <1>1, TournamentInvHolds, PTL
----------------------------------------------------------------------------
(***************************************************************************)
(* The catalogue.  What an operation has looked at is so until it commits, as *)
(* long as no other operation has begun; what it carries is so whatever begins. *)
(***************************************************************************)

CatalogueSpec == InitRequests /\ CatalogueInit /\ [][CatalogueNext]_<<driver, tx, catalogue>>

GameRow == [name : GameName, slug : Slug, active : BOOLEAN]

ActivityRow == [game : 0 .. MaxGames, max : 1 .. MaxCourts, active : BOOLEAN]

LayoutRow == [items : LayoutForms, active : BOOLEAN]

RuleRow == [game : 1 .. MaxGames, slug : Slug, quantity : 1 .. MaxCourts]

ProgrammeRow == [game : 1 .. MaxGames, slug : Slug]

GameRows ==
    /\ gamesEver \in 1 .. MaxGames /\ DOMAIN games \subseteq 1 .. gamesEver
    /\ \A g \in DOMAIN games : games[g] \in GameRow

CourtRows ==
    /\ courtOpen \in BOOLEAN
    /\ DOMAIN activities \subseteq AnyActivity
    /\ \A s \in DOMAIN activities : activities[s] \in ActivityRow
    /\ \A l \in DOMAIN layouts : layouts[l] \in LayoutRow
    /\ closures \subseteq AnyActivity \cup {""}
    /\ rules \subseteq RuleRow /\ IsFiniteSet(rules) /\ Cardinality(rules) <= MaxRules

OfferingRows ==
    /\ offeredEver \in Nat /\ DOMAIN offerings \subseteq 1 .. offeredEver
    /\ \A o \in DOMAIN offerings : offerings[o] \in Slug
    /\ taken \subseteq DOMAIN offerings

LessonRows ==
    /\ programmesEver \in Nat /\ DOMAIN programmes \subseteq 1 .. programmesEver
    /\ \A p \in DOMAIN programmes : programmes[p] \in ProgrammeRow
    /\ studied \subseteq DOMAIN programmes

Counters == edits \in 0 .. MaxEdits /\ overlapped \in BOOLEAN

\* A row has the slug of its game; the id of a game is not used again.
OfItsGame(row) ==
    /\ row.game \in 1 .. gamesEver
    /\ row.game \in DOMAIN games => games[row.game].slug = row.slug

GamesNamed ==
    /\ \A p \in DOMAIN programmes : OfItsGame(programmes[p])
    /\ \A p \in rules : OfItsGame(p)

\* What an operation has looked at is so still, as long as they do not overlap.
StillThere(j) ==
    /\ j.op = "delete game" => GameUnused(j.game)
    /\ j.op = "delete activity" => ActivityUnused(j.slug)
    /\ j.op \in {"create layout", "update layout"} =>
          /\ DOMAIN j.row.items \subseteq DOMAIN activities
          /\ (j.id \in DOMAIN layouts /\ ~j.row.active) => ActiveLayouts \ {j.id} # {}
    /\ j.op = "toggle layout" => MayTakeAway(j.id) /\ j.active = ~layouts[j.id].active
    /\ j.op = "delete layout" => MayTakeAway(j.id)
    /\ j.op = "save closure" /\ j.slug # "" => j.slug \in DOMAIN activities
    /\ j.op = "price" => j.rule.slug \in DOMAIN activities
    /\ j.op = "offer" => \E g \in DOMAIN games : games[g].slug = j.slug

\* What it carries, whatever else happens
Carries(j) ==
    /\ j.op = "create activity" => j.slug \in AnyActivity /\ j.row \in ActivityRow
    /\ j.op \in {"create layout", "update layout"} => j.row \in LayoutRow
    /\ j.op = "toggle layout" => j.active \in BOOLEAN
    /\ j.op = "save closure" => j.slug \in AnyActivity \cup {""}
    /\ j.op = "price" => j.rule \in RuleRow /\ OfItsGame(j.rule)
    /\ j.op = "offer" => j.slug \in Slug /\ j.id \in Nat
    /\ j.op = "teach" => j.row \in ProgrammeRow /\ OfItsGame(j.row) /\ j.id \in Nat

CatalogueJobs ==
    /\ DOMAIN tx = Request
    /\ \A r \in Request : Carries(tx[r])
    /\ ~overlapped => /\ \A r \in Request : StillThere(tx[r])
                      /\ \A r, k \in Request : IsOpen(r) /\ IsOpen(k) => r = k

CatalogueRows == GameRows /\ CourtRows /\ OfferingRows /\ LessonRows

CatalogueInv ==
    /\ CatalogueRows /\ Counters
    /\ GamesNamed /\ ReferencesResolve /\ CatalogueJobs
----------------------------------------------------------------------------
(* Rows *)

LEMMA Limits ==
    /\ MaxGames \in Nat /\ MaxGames > 0 /\ MaxCourts \in Nat /\ MaxCourts > 0
    /\ MaxRules \in Nat /\ MaxEdits \in Nat
    /\ \A n \in GameName : SlugOf[n] \in Slug /\ SlugOf[n] # "training"
    /\ Slug \subseteq AnyActivity
<1>1. SlugOf \in [GameName -> STRING] /\ \A n \in GameName : SlugOf[n] \notin {"training", ""}
  BY CatalogueAssumption
<1>2. \A n \in GameName : SlugOf[n] \in Slug
  BY <1>1 DEF Slug, Range
<1>3. Slug \subseteq AnyActivity
  BY DEF AnyActivity
<1>4. MaxGames \in Nat \ {0}
  BY CatalogueAssumption
<1>5. MaxCourts \in Nat \ {0}
  BY CatalogueAssumption
<1>6. MaxRules \in Nat /\ MaxEdits \in Nat
  BY CatalogueAssumption
<1>7. MaxGames \in Nat /\ MaxGames > 0 /\ MaxCourts \in Nat /\ MaxCourts > 0
  BY <1>4, <1>5
<1>8. \A n \in GameName : SlugOf[n] # "training"
  BY <1>1
<1>. QED  BY <1>2, <1>3, <1>6, <1>7, <1>8

LEMMA RestrictIs ==
    ASSUME NEW f, NEW S
    PROVE  DOMAIN Restrict(f, S) = S /\ \A y \in S : Restrict(f, S)[y] = f[y]
  BY DEF Restrict
----------------------------------------------------------------------------
(* Operations *)

\* An operation looks and begins.
LEMMA BeginKeeps ==
    ASSUME CatalogueInv, NEW r \in Request, NEW j, Begin(r, j), j.op # "idle",
           UNCHANGED <<booking, lessons>>, Carries(j), StillThere(j)
    PROVE  CatalogueInv'
<1>1. /\ tx' = [tx EXCEPT ![r] = j] /\ ~IsOpen(r) /\ UNCHANGED <<driver, edits>>
      /\ overlapped' = (overlapped \/ \E q \in Request : IsOpen(q))
  BY DEF Begin, Look
<1>2. overlapped \in BOOLEAN /\ overlapped' \in BOOLEAN
  BY <1>1 DEF CatalogueInv, Counters
<1>3. ASSUME ~overlapped' PROVE ~overlapped /\ \A q \in Request : ~IsOpen(q)
  BY <1>1, <1>2, <1>3
<1>4. Counters' /\ CatalogueRows' /\ GamesNamed' /\ ReferencesResolve'
  BY <1>1, <1>2, <1>3
  DEF CatalogueInv, Counters, CatalogueRows, GameRows, CourtRows, OfferingRows, LessonRows, GamesNamed,
      OfItsGame, ReferencesResolve, ActiveLayouts, booking, lessons
<1>5. ASSUME NEW k \in Request
      PROVE  Carries(tx[k])' /\ (~overlapped' => StillThere(tx[k])')
  <2>1. PICK i : i = tx'[k]
    OBVIOUS
  <2>2. i = j \/ i = tx[k]
    BY <1>1, <2>1 DEF CatalogueInv, CatalogueJobs
  <2>3. Carries(i) /\ (~overlapped' => StillThere(i))
    BY <1>3, <2>2 DEF CatalogueInv, CatalogueJobs
  <2>4. Carries(tx[k])'
    BY <2>1, <2>3 DEF Carries, OfItsGame, booking
  <2>5. StillThere(i) => StillThere(tx[k])'
    BY <2>1 DEF StillThere, GameUnused, ActivityUnused, MayTakeAway, ActiveLayouts, booking
  <2>. QED  BY <2>3, <2>4, <2>5
<1>6. ~overlapped' => \A q, k \in Request : (IsOpen(q) /\ IsOpen(k))' => q = k
  BY <1>1, <1>3 DEF IsOpen, CatalogueInv, CatalogueJobs
<1>7. DOMAIN tx' = Request
  BY <1>1 DEF CatalogueInv, CatalogueJobs
<1>. QED  BY <1>4, <1>5, <1>6, <1>7 DEF CatalogueInv, CatalogueJobs

\* A row that is of its game stays so.
GamesStay ==
    /\ gamesEver \in Nat /\ gamesEver' \in Nat /\ gamesEver <= gamesEver'
    /\ DOMAIN games' \subseteq DOMAIN games \cup {gamesEver + 1}
    /\ \A g \in DOMAIN games \cap DOMAIN games' : games'[g].slug = games[g].slug

LEMMA OfItsGameStays == ASSUME GamesStay, NEW row, OfItsGame(row) PROVE OfItsGame(row)'
<1>1. row.game \in 1 .. gamesEver' /\ row.game # gamesEver + 1
  BY DEF GamesStay, OfItsGame
<1>. QED  BY <1>1 DEF GamesStay, OfItsGame

LEMMA SameGames == CatalogueInv /\ UNCHANGED <<games, gamesEver>> => GamesStay
<1>1. CatalogueInv => gamesEver \in Nat
  BY DEF CatalogueInv, CatalogueRows, GameRows
<1>. QED  BY <1>1 DEF GamesStay

\* An operation writes: it was the only one, or they overlapped.
LEMMA JobsDone ==
    ASSUME CatalogueInv, GamesStay,
           (\E r \in Request : IsOpen(r) /\ Finish(r)) \/ AtOnce
    PROVE  /\ CatalogueJobs' /\ Counters' /\ UNCHANGED driver
           /\ ~overlapped' => ~overlapped
<1>1. MaxEdits \in Nat /\ edits \in 0 .. MaxEdits /\ overlapped \in BOOLEAN
  BY Limits DEF CatalogueInv, Counters
<1>2. CASE AtOnce
  <2>1. /\ overlapped' = (overlapped \/ \E q \in Request : IsOpen(q)) /\ UNCHANGED <<driver, tx>>
        /\ edits < MaxEdits /\ edits' = edits + 1
    BY <1>2 DEF AtOnce, Edit
  <2>2. Counters'
    BY <1>1, <2>1 DEF Counters
  <2>3. ASSUME NEW k \in Request PROVE Carries(tx[k])'
    <3>1. PICK i : i = tx[k]
      OBVIOUS
    <3>2. Carries(i)
      BY <3>1 DEF CatalogueInv, CatalogueJobs
    <3>3. (i.op = "price" => OfItsGame(i.rule)') /\ (i.op = "teach" => OfItsGame(i.row)')
      BY <3>2, OfItsGameStays DEF Carries
    <3>. QED  BY <2>1, <3>1, <3>2, <3>3 DEF Carries
  <2>4. ~overlapped' => \A q \in Request : tx'[q].op = "idle"
    BY <1>1, <2>1 DEF IsOpen
  <2>5. ~overlapped' => /\ \A q \in Request : StillThere(tx[q])'
                        /\ \A q, k \in Request : (IsOpen(q) /\ IsOpen(k))' => q = k
    BY <2>4 DEF StillThere, IsOpen
  <2>. QED  BY <1>1, <2>1, <2>2, <2>3, <2>5 DEF CatalogueInv, CatalogueJobs
<1>3. ASSUME NEW r \in Request, IsOpen(r), Finish(r)
      PROVE  /\ CatalogueJobs' /\ Counters' /\ UNCHANGED driver
             /\ ~overlapped' => ~overlapped
  <2>1. /\ tx' = [k \in Request |-> IF k \in {r} THEN Idle ELSE tx[k]] /\ UNCHANGED <<driver, overlapped>>
        /\ edits < MaxEdits /\ edits' = edits + 1
    BY <1>3 DEF Finish, End, Edit
  <2>2. Counters'
    BY <1>1, <2>1 DEF Counters
  <2>3. ASSUME NEW k \in Request PROVE Carries(tx[k])'
    <3>1. PICK i : i = tx'[k]
      OBVIOUS
    <3>2. i = Idle \/ i = tx[k]
      BY <2>1, <3>1
    <3>3. Carries(i)
      <4>1. Carries(tx[k])
        BY DEF CatalogueInv, CatalogueJobs
      <4>2. i = Idle => Carries(i)
        BY DEF Carries, Idle
      <4>. QED  BY <3>2, <4>1, <4>2
    <3>4. (i.op = "price" => OfItsGame(i.rule)') /\ (i.op = "teach" => OfItsGame(i.row)')
      BY <3>3, OfItsGameStays DEF Carries
    <3>. QED  BY <3>1, <3>3, <3>4 DEF Carries
  <2>4. ~overlapped' => \A q \in Request : tx'[q].op = "idle"
    BY <1>3, <2>1 DEF CatalogueInv, CatalogueJobs, IsOpen, Idle
  <2>5. ~overlapped' => /\ \A q \in Request : StillThere(tx[q])'
                        /\ \A q, k \in Request : (IsOpen(q) /\ IsOpen(k))' => q = k
    BY <2>4 DEF StillThere, IsOpen
  <2>. QED  BY <1>1, <2>1, <2>2, <2>3, <2>5 DEF CatalogueInv, CatalogueJobs
<1>. QED  BY <1>2, <1>3

\* An operation that only touches the tables it names
LEMMA WriteKeeps ==
    ASSUME CatalogueInv, GamesStay,
           (\E r \in Request : IsOpen(r) /\ Finish(r)) \/ AtOnce,
           CatalogueRows', GamesNamed', ReferencesResolve'
    PROVE  CatalogueInv'
  BY JobsDone DEF CatalogueInv

\* What a writing operation knows of its own job
LEMMA OwnJob ==
    ASSUME CatalogueInv, NEW r \in Request
    PROVE  Carries(tx[r]) /\ (~overlapped => StillThere(tx[r]))
  BY DEF CatalogueInv, CatalogueJobs

LEMMA FinishIs ==
    ASSUME NEW r \in Request, Finish(r)
    PROVE  UNCHANGED overlapped
  BY DEF Finish

LEMMA AtOnceIs == ASSUME CatalogueInv, AtOnce PROVE ~overlapped' => ~overlapped
<1>1. overlapped \in BOOLEAN
  BY DEF CatalogueInv, Counters
<1>. QED  BY <1>1 DEF AtOnce

\* Games
LEMMA CreateGameKeeps == ASSUME CatalogueInv, NEW n \in GameName, CreateGame(n) PROVE CatalogueInv'
<1>1. PICK g : g = gamesEver + 1
  OBVIOUS
<1>2. PICK row : row = [name |-> n, slug |-> SlugOf[n], active |-> TRUE]
  OBVIOUS
<1>3. /\ g <= MaxGames /\ games' = Put(games, g, row) /\ gamesEver' = g /\ AtOnce
      /\ UNCHANGED <<courtOpen, activities, layouts, closures, rules, offerings, offeredEver, taken, lessons>>
  BY <1>1, <1>2 DEF CreateGame
<1>4. gamesEver \in 1 .. MaxGames /\ DOMAIN games \subseteq 1 .. gamesEver /\ MaxGames \in Nat
  BY Limits DEF CatalogueInv, CatalogueRows, GameRows
<1>5. g \notin DOMAIN games /\ DOMAIN games' = DOMAIN games \cup {g} /\ games'[g] = row
      /\ \A h \in DOMAIN games : games'[h] = games[h]
  <2>1. g \notin DOMAIN games
    BY <1>1, <1>4
  <2>. QED  BY <1>3, <2>1 DEF Put
<1>6. GamesStay
  BY <1>1, <1>3, <1>4, <1>5 DEF GamesStay
<1>7. row \in GameRow
  BY <1>2, Limits DEF GameRow
<1>8. GameRows'
  <2>1. gamesEver' \in 1 .. MaxGames /\ DOMAIN games' \subseteq 1 .. gamesEver'
    BY <1>1, <1>3, <1>4, <1>5
  <2>2. \A h \in DOMAIN games' : games'[h] \in GameRow
    BY <1>5, <1>7 DEF CatalogueInv, CatalogueRows, GameRows
  <2>. QED  BY <2>1, <2>2 DEF GameRows, GameRow
<1>9. CatalogueRows'
  BY <1>3, <1>8 DEF CatalogueInv, CatalogueRows, CourtRows, OfferingRows, LessonRows, lessons
<1>10. GamesNamed'
  <2>1. /\ \A p \in DOMAIN programmes : OfItsGame(programmes[p])
        /\ \A p \in rules : OfItsGame(p)
    BY DEF CatalogueInv, GamesNamed
  <2>2. \A p \in rules : OfItsGame(p)'
    BY <1>6, <2>1, OfItsGameStays
  <2>3. ASSUME NEW p \in DOMAIN programmes PROVE OfItsGame(programmes[p])'
    <3>1. PICK x : x = programmes[p]
      OBVIOUS
    <3>2. OfItsGame(x)'
      BY <1>6, <2>1, <3>1, OfItsGameStays
    <3>. QED  BY <1>3, <3>1, <3>2 DEF lessons, OfItsGame
  <2>. QED  BY <1>3, <2>2, <2>3 DEF GamesNamed, lessons
<1>11. ReferencesResolve'
  <2>1. ~overlapped => \A o \in DOMAIN offerings : \E h \in DOMAIN games' : games'[h].slug = offerings[o]
    BY <1>5 DEF CatalogueInv, ReferencesResolve
  <2>2. ~overlapped' => ~overlapped
    BY <1>3, AtOnceIs
  <2>. QED  BY <1>3, <2>1, <2>2 DEF CatalogueInv, ReferencesResolve, ActiveLayouts
<1>. QED  BY <1>3, <1>6, <1>9, <1>10, <1>11, WriteKeeps

LEMMA UpdateGameKeeps ==
    ASSUME CatalogueInv, NEW g \in DOMAIN games, NEW n \in GameName, NEW a \in BOOLEAN, UpdateGame(g, n, a)
    PROVE  CatalogueInv'
<1>1. PICK row : row = Renamed(games[g], n, a)
  OBVIOUS
<1>2. /\ games' = [games EXCEPT ![g] = row] /\ AtOnce
      /\ UNCHANGED <<gamesEver, courtOpen, activities, layouts, closures, rules, offerings, offeredEver,
                     taken, lessons>>
  BY <1>1 DEF UpdateGame
<1>3. gamesEver \in 1 .. MaxGames /\ DOMAIN games \subseteq 1 .. gamesEver /\ MaxGames \in Nat
      /\ games[g] \in GameRow
  BY Limits DEF CatalogueInv, CatalogueRows, GameRows
<1>4. row \in GameRow /\ row.slug = games[g].slug
  BY <1>1, <1>3 DEF Renamed, GameRow
<1>5. DOMAIN games' = DOMAIN games /\ \A h \in DOMAIN games : games'[h].slug = games[h].slug
  BY <1>2, <1>4
<1>6. GamesStay
  BY <1>2, <1>3, <1>5 DEF GamesStay
<1>7. GameRows'
  BY <1>2, <1>3, <1>4, <1>5 DEF CatalogueInv, CatalogueRows, GameRows, GameRow
<1>8. CatalogueRows'
  BY <1>2, <1>7 DEF CatalogueInv, CatalogueRows, CourtRows, OfferingRows, LessonRows, lessons
<1>9. GamesNamed'
  BY <1>2, <1>5 DEF CatalogueInv, GamesNamed, OfItsGame, lessons
<1>10. ReferencesResolve'
  BY <1>2, <1>5, AtOnceIs DEF CatalogueInv, ReferencesResolve, ActiveLayouts
<1>. QED  BY <1>2, <1>6, <1>8, <1>9, <1>10, WriteKeeps

LEMMA DeleteGameKeeps == ASSUME CatalogueInv, NEW r \in Request, DeleteGame(r) PROVE CatalogueInv'
<1>1. PICK g : g = tx[r].game
  OBVIOUS
<1>2. /\ games' = Restrict(games, DOMAIN games \ {g}) /\ Finish(r) /\ IsOpen(r)
      /\ UNCHANGED <<gamesEver, courtOpen, activities, layouts, closures, rules, offerings, offeredEver,
                     taken, lessons>>
  BY <1>1 DEF DeleteGame, IsOpen
<1>3. gamesEver \in 1 .. MaxGames /\ DOMAIN games \subseteq 1 .. gamesEver /\ MaxGames \in Nat
  BY Limits DEF CatalogueInv, CatalogueRows, GameRows
<1>4. DOMAIN games' = DOMAIN games \ {g} /\ \A h \in DOMAIN games' : games'[h] = games[h]
  BY <1>2, RestrictIs
<1>5. GamesStay
  BY <1>2, <1>3, <1>4 DEF GamesStay
<1>6. GameRows'
  BY <1>2, <1>3, <1>4 DEF CatalogueInv, CatalogueRows, GameRows, GameRow
<1>7. CatalogueRows'
  BY <1>2, <1>6 DEF CatalogueInv, CatalogueRows, CourtRows, OfferingRows, LessonRows, lessons
<1>8. GamesNamed'
  BY <1>2, <1>4 DEF CatalogueInv, GamesNamed, OfItsGame, lessons
<1>9. ~overlapped => \A o \in DOMAIN offerings : offerings[o] # games[g].slug
  BY <1>1, OwnJob DEF StillThere, GameUnused, DeleteGame
<1>10. ReferencesResolve'
  <2>1. ~overlapped' => ~overlapped
    BY <1>2, FinishIs
  <2>2. ~overlapped => \A o \in DOMAIN offerings : \E h \in DOMAIN games' : games'[h].slug = offerings[o]
    BY <1>4, <1>9 DEF CatalogueInv, ReferencesResolve
  <2>. QED  BY <1>2, <2>1, <2>2 DEF CatalogueInv, ReferencesResolve, ActiveLayouts
<1>. QED  BY <1>2, <1>5, <1>7, <1>8, <1>10, WriteKeeps

\* Activities.  A step that keeps the games keeps what is named after them.
LEMMA SameGamesNamed ==
    ASSUME CatalogueInv, UNCHANGED <<games, gamesEver, rules, programmes>>
    PROVE  GamesNamed'
  BY DEF CatalogueInv, GamesNamed, OfItsGame

LEMMA CreateActivityKeeps == ASSUME CatalogueInv, NEW r \in Request, CreateActivity(r) PROVE CatalogueInv'
<1>1. PICK j : j = tx[r]
  OBVIOUS
<1>2. /\ j.op = "create activity" /\ activities' = Put(activities, j.slug, j.row) /\ Finish(r) /\ IsOpen(r)
      /\ UNCHANGED <<games, gamesEver, courtOpen, layouts, closures, rules, offerings, offeredEver,
                     taken, lessons>>
      /\ j.slug \notin DOMAIN activities
  BY <1>1 DEF CreateActivity, IsOpen
<1>3. j.slug \in AnyActivity /\ j.row \in ActivityRow
  BY <1>1, <1>2, OwnJob DEF Carries
<1>4. /\ DOMAIN activities' = DOMAIN activities \cup {j.slug} /\ activities'[j.slug] = j.row
      /\ \A s \in DOMAIN activities : activities'[s] = activities[s]
  BY <1>2 DEF Put
<1>5. CourtRows'
  <2>1. /\ DOMAIN activities' \subseteq AnyActivity
        /\ \A s \in DOMAIN activities' : activities'[s] \in ActivityRow
    BY <1>3, <1>4 DEF CatalogueInv, CatalogueRows, CourtRows
  <2>. QED  BY <1>2, <2>1
            DEF CatalogueInv, CatalogueRows, CourtRows, AnyActivity, Slug, ActivityRow, LayoutRow, RuleRow
<1>6. CatalogueRows'
  BY <1>2, <1>5 DEF CatalogueInv, CatalogueRows, GameRows, OfferingRows, LessonRows, lessons
<1>7. ReferencesResolve'
  BY <1>2, <1>4, FinishIs DEF CatalogueInv, ReferencesResolve, ActiveLayouts
<1>8. GamesNamed'
  BY <1>2, SameGamesNamed DEF lessons
<1>. QED  BY <1>2, <1>6, <1>7, <1>8, SameGames, WriteKeeps

\* What an activity is, and whether the court is open, may change under the
\* activities that are there.
LEMMA ActivitiesKeep ==
    ASSUME CatalogueInv, AtOnce, courtOpen' \in BOOLEAN,
           DOMAIN activities' = DOMAIN activities,
           \A s \in DOMAIN activities : activities'[s] \in ActivityRow,
           UNCHANGED <<games, gamesEver, layouts, closures, rules, offerings, offeredEver, taken, lessons>>
    PROVE  CatalogueInv'
<1>1. CourtRows'
  BY DEF CatalogueInv, CatalogueRows, CourtRows, AnyActivity, Slug, ActivityRow, LayoutRow, RuleRow
<1>2. CatalogueRows'
  BY <1>1 DEF CatalogueInv, CatalogueRows, GameRows, OfferingRows, LessonRows, lessons
<1>3. ReferencesResolve'
  BY AtOnceIs DEF CatalogueInv, ReferencesResolve, ActiveLayouts
<1>4. GamesNamed'
  BY SameGamesNamed DEF lessons
<1>. QED  BY <1>2, <1>3, <1>4, SameGames, WriteKeeps

LEMMA ActivityIs ==
    ASSUME CatalogueInv, NEW s \in DOMAIN activities
    PROVE  activities[s] \in ActivityRow
  BY DEF CatalogueInv, CatalogueRows, CourtRows

LEMMA UpdateActivityKeeps ==
    ASSUME CatalogueInv, NEW s \in DOMAIN activities, NEW max \in 1 .. MaxCourts, NEW a \in BOOLEAN,
           UpdateActivity(s, max, a)
    PROVE  CatalogueInv'
<1>1. PICK row : row = [activities[s] EXCEPT !.max = max, !.active = a]
  OBVIOUS
<1>2. row \in ActivityRow
  BY <1>1, ActivityIs DEF ActivityRow
<1>3. activities' = [activities EXCEPT ![s] = row]
  BY <1>1 DEF UpdateActivity
<1>4. DOMAIN activities' = DOMAIN activities /\ \A t \in DOMAIN activities : activities'[t] \in ActivityRow
  BY <1>2, <1>3, ActivityIs
<1>5. courtOpen' \in BOOLEAN
  BY DEF UpdateActivity, CatalogueInv, CatalogueRows, CourtRows
<1>. QED  BY <1>4, <1>5, ActivitiesKeep DEF UpdateActivity

LEMMA RelinkKeeps ==
    ASSUME CatalogueInv, NEW s \in DOMAIN activities, NEW g \in 0 .. MaxGames, RelinkActivity(s, g)
    PROVE  CatalogueInv'
<1>1. PICK row : row = [activities[s] EXCEPT !.game = g]
  OBVIOUS
<1>2. row \in ActivityRow
  BY <1>1, ActivityIs DEF ActivityRow
<1>3. activities' = [activities EXCEPT ![s] = row]
  BY <1>1 DEF RelinkActivity
<1>4. DOMAIN activities' = DOMAIN activities /\ \A t \in DOMAIN activities : activities'[t] \in ActivityRow
  BY <1>2, <1>3, ActivityIs
<1>5. courtOpen' \in BOOLEAN
  BY DEF RelinkActivity, CatalogueInv, CatalogueRows, CourtRows
<1>. QED  BY <1>4, <1>5, ActivitiesKeep DEF RelinkActivity

LEMMA UpdateCourtKeeps == ASSUME CatalogueInv, UpdateCourt PROVE CatalogueInv'
<1>1. courtOpen' \in BOOLEAN
  BY DEF UpdateCourt, CatalogueInv, CatalogueRows, CourtRows
<1>. QED  BY <1>1, ActivityIs, ActivitiesKeep DEF UpdateCourt

LEMMA DeleteActivityKeeps == ASSUME CatalogueInv, NEW r \in Request, DeleteActivity(r) PROVE CatalogueInv'
<1>1. PICK s : s = tx[r].slug
  OBVIOUS
<1>2. /\ activities' = Restrict(activities, DOMAIN activities \ {s}) /\ Finish(r) /\ IsOpen(r)
      /\ UNCHANGED <<games, gamesEver, courtOpen, layouts, closures, rules, offerings, offeredEver,
                     taken, lessons>>
  BY <1>1 DEF DeleteActivity, IsOpen
<1>3. ~overlapped => ActivityUnused(s)
  BY <1>1, OwnJob DEF StillThere, DeleteActivity
<1>4. /\ DOMAIN activities' = DOMAIN activities \ {s}
      /\ \A t \in DOMAIN activities' : activities'[t] = activities[t]
  BY <1>2, RestrictIs
<1>5. CourtRows'
  BY <1>2, <1>4 DEF CatalogueInv, CatalogueRows, CourtRows, AnyActivity, Slug, ActivityRow, LayoutRow, RuleRow
<1>6. CatalogueRows'
  BY <1>2, <1>5 DEF CatalogueInv, CatalogueRows, GameRows, OfferingRows, LessonRows, lessons
<1>7. ReferencesResolve'
  <2>1. ~overlapped' => ~overlapped
    BY <1>2, FinishIs
  <2>2. ASSUME ~overlapped
        PROVE  /\ \A l \in DOMAIN layouts : DOMAIN layouts[l].items \subseteq DOMAIN activities'
               /\ closures \ {""} \subseteq DOMAIN activities'
               /\ \A p \in rules : p.slug \in DOMAIN activities'
    BY <1>3, <1>4, <2>2 DEF CatalogueInv, ReferencesResolve, ActivityUnused
  <2>. QED  BY <1>2, <2>1, <2>2 DEF CatalogueInv, ReferencesResolve, ActiveLayouts
<1>8. GamesNamed'
  BY <1>2, SameGamesNamed DEF lessons
<1>. QED  BY <1>2, <1>6, <1>7, <1>8, SameGames, WriteKeeps

\* Layouts
LEMMA LayoutsKeep ==
    ASSUME CatalogueInv, NEW r \in Request, IsOpen(r), Finish(r),
           UNCHANGED <<games, gamesEver, courtOpen, activities, closures, rules, offerings, offeredEver,
                       taken, lessons>>,
           \A l \in DOMAIN layouts' : layouts'[l] \in LayoutRow,
           ~overlapped => /\ ActiveLayouts' # {}
                          /\ \A l \in DOMAIN layouts' : DOMAIN layouts'[l].items \subseteq DOMAIN activities
    PROVE  CatalogueInv'
<1>1. CourtRows'
  BY DEF CatalogueInv, CatalogueRows, CourtRows, AnyActivity, Slug, ActivityRow, LayoutRow, RuleRow
<1>2. CatalogueRows'
  BY <1>1 DEF CatalogueInv, CatalogueRows, GameRows, OfferingRows, LessonRows, lessons
<1>3. ReferencesResolve'
  BY FinishIs DEF CatalogueInv, ReferencesResolve
<1>4. GamesNamed'
  BY SameGamesNamed DEF lessons
<1>. QED  BY <1>2, <1>3, <1>4, SameGames, WriteKeeps

LEMMA LayoutIs ==
    ASSUME CatalogueInv
    PROVE  /\ \A l \in DOMAIN layouts : layouts[l] \in LayoutRow
           /\ ~overlapped => /\ ActiveLayouts # {}
                             /\ \A l \in DOMAIN layouts : DOMAIN layouts[l].items \subseteq DOMAIN activities
  BY DEF CatalogueInv, CatalogueRows, CourtRows, ReferencesResolve

LEMMA SaveLayoutKeeps == ASSUME CatalogueInv, NEW r \in Request, SaveLayout(r) PROVE CatalogueInv'
<1>1. PICK j : j = tx[r]
  OBVIOUS
<1>2. /\ \/ j.op = "create layout" /\ j.id \notin DOMAIN layouts
         \/ j.op = "update layout" /\ j.id \in DOMAIN layouts
      /\ layouts' = Put(layouts, j.id, j.row) /\ Finish(r) /\ IsOpen(r)
      /\ UNCHANGED <<games, gamesEver, courtOpen, activities, closures, rules, offerings, offeredEver,
                     taken, lessons>>
  BY <1>1 DEF SaveLayout, IsOpen
<1>3. /\ j.row \in LayoutRow
      /\ ~overlapped => /\ DOMAIN j.row.items \subseteq DOMAIN activities
                        /\ (j.id \in DOMAIN layouts /\ ~j.row.active) => ActiveLayouts \ {j.id} # {}
  BY <1>1, <1>2, OwnJob DEF Carries, StillThere
<1>4. /\ DOMAIN layouts' = DOMAIN layouts \cup {j.id} /\ layouts'[j.id] = j.row
      /\ \A l \in DOMAIN layouts \ {j.id} : layouts'[l] = layouts[l]
  BY <1>2 DEF Put
<1>5. \A l \in DOMAIN layouts' : layouts'[l] \in LayoutRow
  BY <1>3, <1>4, LayoutIs
<1>6. ASSUME ~overlapped
      PROVE  /\ ActiveLayouts' # {}
             /\ \A l \in DOMAIN layouts' : DOMAIN layouts'[l].items \subseteq DOMAIN activities
  <2>1. \A l \in DOMAIN layouts' : DOMAIN layouts'[l].items \subseteq DOMAIN activities
    BY <1>3, <1>4, <1>6, LayoutIs
  <2>2. ActiveLayouts' # {}
    <3>1. CASE j.row.active
      BY <1>4, <3>1 DEF ActiveLayouts
    <3>2. CASE ~j.row.active
      <4>1. ActiveLayouts \ {j.id} # {}
        BY <1>3, <1>6, <3>2, LayoutIs DEF ActiveLayouts
      <4>. QED  BY <1>4, <4>1 DEF ActiveLayouts
    <3>. QED  BY <3>1, <3>2
  <2>. QED  BY <2>1, <2>2
<1>. QED  BY <1>2, <1>5, <1>6, LayoutsKeep

LEMMA ToggleLayoutKeeps == ASSUME CatalogueInv, NEW r \in Request, ToggleLayout(r) PROVE CatalogueInv'
<1>1. PICK j : j = tx[r]
  OBVIOUS
<1>2. PICK row : row = [layouts[j.id] EXCEPT !.active = j.active]
  OBVIOUS
<1>3. /\ j.op = "toggle layout" /\ j.id \in DOMAIN layouts
      /\ layouts' = [layouts EXCEPT ![j.id] = row] /\ Finish(r) /\ IsOpen(r)
      /\ UNCHANGED <<games, gamesEver, courtOpen, activities, closures, rules, offerings, offeredEver,
                     taken, lessons>>
  BY <1>1, <1>2 DEF ToggleLayout, IsOpen
<1>4. j.active \in BOOLEAN /\ (~overlapped => MayTakeAway(j.id) /\ j.active = ~layouts[j.id].active)
  BY <1>1, <1>3, OwnJob DEF Carries, StillThere
<1>5. row \in LayoutRow /\ row.items = layouts[j.id].items /\ row.active = j.active
  BY <1>2, <1>3, <1>4, LayoutIs DEF LayoutRow
<1>6. DOMAIN layouts' = DOMAIN layouts /\ layouts'[j.id] = row
      /\ \A l \in DOMAIN layouts \ {j.id} : layouts'[l] = layouts[l]
  BY <1>3
<1>7. \A l \in DOMAIN layouts' : layouts'[l] \in LayoutRow
  BY <1>5, <1>6, LayoutIs
<1>8. ASSUME ~overlapped
      PROVE  /\ ActiveLayouts' # {}
             /\ \A l \in DOMAIN layouts' : DOMAIN layouts'[l].items \subseteq DOMAIN activities
  <2>1. \A l \in DOMAIN layouts' : DOMAIN layouts'[l].items \subseteq DOMAIN activities
    BY <1>5, <1>6, <1>8, LayoutIs
  <2>2. CASE j.active
    BY <1>3, <1>5, <1>6, <2>1, <2>2 DEF ActiveLayouts
  <2>3. CASE ~j.active
    <3>1. layouts[j.id].active
      BY <1>3, <1>4, <1>8, <2>3, LayoutIs DEF LayoutRow
    <3>2. PICK l \in ActiveLayouts : l # j.id
      BY <1>3, <1>4, <1>8, <3>1 DEF MayTakeAway, ActiveLayouts
    <3>. QED  BY <1>6, <2>1, <3>2 DEF ActiveLayouts
  <2>. QED  BY <1>4, <2>2, <2>3
<1>. QED  BY <1>3, <1>7, <1>8, LayoutsKeep

LEMMA DeleteLayoutKeeps == ASSUME CatalogueInv, NEW r \in Request, DeleteLayout(r) PROVE CatalogueInv'
<1>1. PICK d : d = tx[r].id
  OBVIOUS
<1>2. /\ d \in DOMAIN layouts
      /\ layouts' = Restrict(layouts, DOMAIN layouts \ {d}) /\ Finish(r) /\ IsOpen(r)
      /\ UNCHANGED <<games, gamesEver, courtOpen, activities, closures, rules, offerings, offeredEver,
                     taken, lessons>>
  BY <1>1 DEF DeleteLayout, IsOpen
<1>3. ~overlapped => MayTakeAway(d)
  BY <1>1, OwnJob DEF StillThere, DeleteLayout
<1>4. DOMAIN layouts' = DOMAIN layouts \ {d} /\ \A l \in DOMAIN layouts' : layouts'[l] = layouts[l]
  BY <1>2, RestrictIs
<1>5. \A l \in DOMAIN layouts' : layouts'[l] \in LayoutRow
  BY <1>4, LayoutIs
<1>6. ASSUME ~overlapped
      PROVE  /\ ActiveLayouts' # {}
             /\ \A l \in DOMAIN layouts' : DOMAIN layouts'[l].items \subseteq DOMAIN activities
  <2>1. PICK l \in ActiveLayouts : l # d
    BY <1>2, <1>3, <1>6, LayoutIs DEF MayTakeAway, ActiveLayouts
  <2>2. l \in ActiveLayouts'
    BY <1>4, <2>1 DEF ActiveLayouts
  <2>. QED  BY <1>4, <1>6, <2>2, LayoutIs
<1>. QED  BY <1>2, <1>5, <1>6, LayoutsKeep

\* Closures and prices
LEMMA ClosuresKeep ==
    ASSUME CatalogueInv, (\E r \in Request : IsOpen(r) /\ Finish(r)) \/ AtOnce,
           closures' \subseteq AnyActivity \cup {""},
           ~overlapped => closures' \ {""} \subseteq DOMAIN activities,
           UNCHANGED <<games, gamesEver, courtOpen, activities, layouts, rules, offerings, offeredEver,
                       taken, lessons>>
    PROVE  CatalogueInv'
<1>1. CourtRows'
  BY DEF CatalogueInv, CatalogueRows, CourtRows, AnyActivity, Slug, ActivityRow, LayoutRow, RuleRow
<1>2. CatalogueRows'
  BY <1>1 DEF CatalogueInv, CatalogueRows, GameRows, OfferingRows, LessonRows, lessons
<1>3. ReferencesResolve'
  BY FinishIs, AtOnceIs DEF CatalogueInv, ReferencesResolve, ActiveLayouts
<1>4. GamesNamed'
  BY SameGamesNamed DEF lessons
<1>. QED  BY <1>2, <1>3, <1>4, SameGames, WriteKeeps

LEMMA ClosuresAre ==
    ASSUME CatalogueInv
    PROVE  /\ closures \subseteq AnyActivity \cup {""}
           /\ ~overlapped => closures \ {""} \subseteq DOMAIN activities
  BY DEF CatalogueInv, CatalogueRows, CourtRows, ReferencesResolve

LEMMA SaveClosureKeeps == ASSUME CatalogueInv, NEW r \in Request, SaveClosure(r) PROVE CatalogueInv'
<1>1. PICK j : j = tx[r]
  OBVIOUS
<1>2. /\ j.op = "save closure" /\ closures' = (closures \ j.old) \cup {j.slug} /\ Finish(r) /\ IsOpen(r)
      /\ UNCHANGED <<games, gamesEver, courtOpen, activities, layouts, rules, offerings, offeredEver,
                     taken, lessons>>
  BY <1>1 DEF SaveClosure, IsOpen
<1>3. /\ j.slug \in AnyActivity \cup {""}
      /\ ~overlapped /\ j.slug # "" => j.slug \in DOMAIN activities
  BY <1>1, <1>2, OwnJob DEF Carries, StillThere
<1>4. closures' \subseteq AnyActivity \cup {""}
  BY <1>2, <1>3, ClosuresAre
<1>5. ~overlapped => closures' \ {""} \subseteq DOMAIN activities
  BY <1>2, <1>3, ClosuresAre
<1>. QED  BY <1>2, <1>4, <1>5, ClosuresKeep

LEMMA DeleteClosureKeeps == ASSUME CatalogueInv, NEW s \in closures, DeleteClosure(s) PROVE CatalogueInv'
  BY ClosuresAre, ClosuresKeep DEF DeleteClosure

LEMMA RulesKeep ==
    ASSUME CatalogueInv, (\E r \in Request : IsOpen(r) /\ Finish(r)) \/ AtOnce,
           rules' \subseteq RuleRow, IsFiniteSet(rules'), Cardinality(rules') <= MaxRules,
           \A p \in rules' : OfItsGame(p),
           ~overlapped => \A p \in rules' : p.slug \in DOMAIN activities,
           UNCHANGED <<games, gamesEver, courtOpen, activities, layouts, closures, offerings, offeredEver,
                       taken, lessons>>
    PROVE  CatalogueInv'
<1>1. CourtRows'
  BY DEF CatalogueInv, CatalogueRows, CourtRows, AnyActivity, Slug, ActivityRow, LayoutRow, RuleRow
<1>2. CatalogueRows'
  BY <1>1 DEF CatalogueInv, CatalogueRows, GameRows, OfferingRows, LessonRows, lessons
<1>3. ReferencesResolve'
  BY FinishIs, AtOnceIs DEF CatalogueInv, ReferencesResolve, ActiveLayouts
<1>4. GamesNamed'
  BY DEF CatalogueInv, GamesNamed, OfItsGame, lessons
<1>. QED  BY <1>2, <1>3, <1>4, SameGames, WriteKeeps

LEMMA RulesAre ==
    ASSUME CatalogueInv
    PROVE  /\ rules \subseteq RuleRow /\ IsFiniteSet(rules) /\ Cardinality(rules) <= MaxRules
           /\ \A p \in rules : OfItsGame(p)
           /\ ~overlapped => \A p \in rules : p.slug \in DOMAIN activities
  BY DEF CatalogueInv, CatalogueRows, CourtRows, ReferencesResolve, GamesNamed

LEMMA PriceKeeps == ASSUME CatalogueInv, NEW r \in Request, Price(r) PROVE CatalogueInv'
<1>1. PICK j : j = tx[r]
  OBVIOUS
<1>2. PICK rest : rest = rules \ j.old
  OBVIOUS
<1>3. /\ j.op = "price" /\ Finish(r) /\ IsOpen(r)
      /\ IF j.old \subseteq rules
         THEN Cardinality(rest) < MaxRules /\ rules' = rest \cup {j.rule}
         ELSE UNCHANGED rules
      /\ UNCHANGED <<games, gamesEver, courtOpen, activities, layouts, closures, offerings, offeredEver,
                     taken, lessons>>
  BY <1>1, <1>2 DEF Price, IsOpen
<1>4. /\ j.rule \in RuleRow /\ OfItsGame(j.rule)
      /\ ~overlapped => j.rule.slug \in DOMAIN activities
  BY <1>1, <1>3, OwnJob DEF Carries, StillThere
<1>5. CASE j.old \subseteq rules
  <2>1. rules' = rest \cup {j.rule} /\ rest \subseteq rules /\ Cardinality(rest) < MaxRules
    BY <1>2, <1>3, <1>5
  <2>2. IsFiniteSet(rest)
    BY <2>1, RulesAre, FS_Subset
  <2>3. /\ IsFiniteSet(rules')
        /\ \/ Cardinality(rules') = Cardinality(rest)
           \/ Cardinality(rules') = Cardinality(rest) + 1
    BY <2>1, <2>2, FS_AddElement
  <2>4. Cardinality(rules') <= MaxRules
    BY <2>1, <2>2, <2>3, Limits, FS_CardinalityType
  <2>5. rules' \subseteq RuleRow /\ \A p \in rules' : OfItsGame(p)
    BY <1>4, <2>1, RulesAre
  <2>6. ~overlapped => \A p \in rules' : p.slug \in DOMAIN activities
    BY <1>4, <2>1, RulesAre
  <2>. QED  BY <1>3, <2>3, <2>4, <2>5, <2>6, RulesKeep
<1>6. CASE ~(j.old \subseteq rules)
  BY <1>3, <1>6, RulesAre, RulesKeep
<1>. QED  BY <1>5, <1>6

LEMMA DeletePriceKeeps == ASSUME CatalogueInv, NEW p \in rules, DeletePrice(p) PROVE CatalogueInv'
<1>1. rules' = rules \ {p}
  BY DEF DeletePrice
<1>2. IsFiniteSet(rules') /\ Cardinality(rules') <= Cardinality(rules)
  BY <1>1, RulesAre, FS_Subset
<1>3. Cardinality(rules') <= MaxRules
  BY <1>2, RulesAre, Limits, FS_CardinalityType
<1>. QED  BY <1>1, <1>2, <1>3, RulesAre, RulesKeep DEF DeletePrice

\* Offerings
LEMMA OfferingsKeep ==
    ASSUME CatalogueInv, (\E r \in Request : IsOpen(r) /\ Finish(r)) \/ AtOnce,
           OfferingRows',
           ~overlapped => \A o \in DOMAIN offerings' : \E g \in DOMAIN games : games[g].slug = offerings'[o],
           UNCHANGED <<games, gamesEver, courtOpen, activities, layouts, closures, rules, lessons>>
    PROVE  CatalogueInv'
<1>1. CourtRows'
  BY DEF CatalogueInv, CatalogueRows, CourtRows, AnyActivity, Slug, ActivityRow, LayoutRow, RuleRow
<1>2. CatalogueRows'
  BY <1>1 DEF CatalogueInv, CatalogueRows, GameRows, LessonRows, lessons
<1>3. ReferencesResolve'
  BY FinishIs, AtOnceIs DEF CatalogueInv, ReferencesResolve, ActiveLayouts
<1>4. GamesNamed'
  BY SameGamesNamed DEF lessons
<1>. QED  BY <1>2, <1>3, <1>4, SameGames, WriteKeeps

LEMMA OfferingsAre ==
    ASSUME CatalogueInv
    PROVE  /\ OfferingRows
           /\ ~overlapped => \A o \in DOMAIN offerings : \E g \in DOMAIN games : games[g].slug = offerings[o]
  BY DEF CatalogueInv, CatalogueRows, ReferencesResolve

LEMMA OfferKeeps == ASSUME CatalogueInv, NEW r \in Request, Offer(r) PROVE CatalogueInv'
<1>1. PICK j : j = tx[r]
  OBVIOUS
<1>2. PICK o : o = IF j.id = 0 THEN offeredEver + 1 ELSE j.id
  OBVIOUS
<1>3. /\ j.op = "offer" /\ (j.id # 0 => j.id \in DOMAIN offerings)
      /\ offerings' = Put(offerings, o, j.slug)
      /\ offeredEver' = IF j.id = 0 THEN o ELSE offeredEver
      /\ Finish(r) /\ IsOpen(r)
      /\ UNCHANGED <<games, gamesEver, courtOpen, activities, layouts, closures, rules, taken, lessons>>
  BY <1>1, <1>2 DEF Offer, IsOpen
<1>4. /\ j.slug \in Slug
      /\ ~overlapped => \E g \in DOMAIN games : games[g].slug = j.slug
  BY <1>1, <1>3, OwnJob DEF Carries, StillThere
<1>5. /\ DOMAIN offerings' = DOMAIN offerings \cup {o} /\ offerings'[o] = j.slug
      /\ \A x \in DOMAIN offerings \ {o} : offerings'[x] = offerings[x]
  BY <1>3 DEF Put
<1>6. offeredEver \in Nat /\ DOMAIN offerings \subseteq 1 .. offeredEver
  BY OfferingsAre DEF OfferingRows
<1>7. offeredEver' \in Nat /\ DOMAIN offerings' \subseteq 1 .. offeredEver'
  <2>1. CASE j.id = 0
    BY <1>2, <1>3, <1>5, <1>6, <2>1
  <2>2. CASE j.id # 0
    BY <1>2, <1>3, <1>5, <1>6, <2>2
  <2>. QED  BY <2>1, <2>2
<1>8. OfferingRows'
  BY <1>3, <1>4, <1>5, <1>7, OfferingsAre DEF OfferingRows, Slug
<1>9. ~overlapped => \A x \in DOMAIN offerings' : \E g \in DOMAIN games : games[g].slug = offerings'[x]
  BY <1>4, <1>5, OfferingsAre
<1>. QED  BY <1>3, <1>8, <1>9, OfferingsKeep

LEMMA WithdrawKeeps == ASSUME CatalogueInv, NEW r \in Request, Withdraw(r) PROVE CatalogueInv'
<1>1. PICK o : o = tx[r].id
  OBVIOUS
<1>2. /\ o \notin taken /\ offerings' = Restrict(offerings, DOMAIN offerings \ {o})
      /\ Finish(r) /\ IsOpen(r)
      /\ UNCHANGED <<games, gamesEver, courtOpen, activities, layouts, closures, rules, offeredEver,
                     taken, lessons>>
  BY <1>1 DEF Withdraw, NotReferenced, IsOpen
<1>3. DOMAIN offerings' = DOMAIN offerings \ {o} /\ \A x \in DOMAIN offerings' : offerings'[x] = offerings[x]
  BY <1>2, RestrictIs
<1>4. OfferingRows'
  BY <1>2, <1>3, OfferingsAre DEF OfferingRows, Slug
<1>5. ~overlapped => \A x \in DOMAIN offerings' : \E g \in DOMAIN games : games[g].slug = offerings'[x]
  BY <1>3, OfferingsAre
<1>. QED  BY <1>2, <1>4, <1>5, OfferingsKeep

LEMMA TakeKeeps == ASSUME CatalogueInv, NEW o \in DOMAIN offerings, TakeOffering(o) PROVE CatalogueInv'
<1>1. OfferingRows'
  BY OfferingsAre DEF TakeOffering, OfferingRows, Slug
<1>. QED  BY <1>1, OfferingsAre, OfferingsKeep DEF TakeOffering

\* Programmes
LEMMA LessonsKeep ==
    ASSUME CatalogueInv, (\E r \in Request : IsOpen(r) /\ Finish(r)) \/ AtOnce,
           LessonRows', \A p \in DOMAIN programmes' : OfItsGame(programmes'[p]),
           UNCHANGED booking
    PROVE  CatalogueInv'
<1>1. CourtRows'
  BY DEF CatalogueInv, CatalogueRows, CourtRows, AnyActivity, Slug, ActivityRow, LayoutRow, RuleRow, booking
<1>2. CatalogueRows'
  BY <1>1 DEF CatalogueInv, CatalogueRows, GameRows, OfferingRows, booking
<1>3. ReferencesResolve'
  BY FinishIs, AtOnceIs DEF CatalogueInv, ReferencesResolve, ActiveLayouts, booking
<1>4. GamesNamed'
  BY DEF CatalogueInv, GamesNamed, OfItsGame, booking
<1>5. GamesStay
  BY SameGames DEF booking
<1>. QED  BY <1>2, <1>3, <1>4, <1>5, WriteKeeps

LEMMA LessonsAre ==
    ASSUME CatalogueInv
    PROVE  LessonRows /\ \A p \in DOMAIN programmes : OfItsGame(programmes[p])
  BY DEF CatalogueInv, CatalogueRows, GamesNamed

LEMMA TeachKeeps == ASSUME CatalogueInv, NEW r \in Request, Teach(r) PROVE CatalogueInv'
<1>1. PICK j : j = tx[r]
  OBVIOUS
<1>2. PICK p : p = IF j.id = 0 THEN programmesEver + 1 ELSE j.id
  OBVIOUS
<1>3. /\ j.op = "teach" /\ (j.id # 0 => j.id \in DOMAIN programmes)
      /\ programmes' = Put(programmes, p, j.row)
      /\ programmesEver' = IF j.id = 0 THEN p ELSE programmesEver
      /\ Finish(r) /\ IsOpen(r) /\ UNCHANGED <<booking, studied>>
  BY <1>1, <1>2 DEF Teach, IsOpen
<1>4. j.row \in ProgrammeRow /\ OfItsGame(j.row)
  BY <1>1, <1>3, OwnJob DEF Carries
<1>5. /\ DOMAIN programmes' = DOMAIN programmes \cup {p} /\ programmes'[p] = j.row
      /\ \A x \in DOMAIN programmes \ {p} : programmes'[x] = programmes[x]
  BY <1>3 DEF Put
<1>6. programmesEver \in Nat /\ DOMAIN programmes \subseteq 1 .. programmesEver
  BY LessonsAre DEF LessonRows
<1>7. programmesEver' \in Nat /\ DOMAIN programmes' \subseteq 1 .. programmesEver'
  <2>1. CASE j.id = 0
    BY <1>2, <1>3, <1>5, <1>6, <2>1
  <2>2. CASE j.id # 0
    BY <1>2, <1>3, <1>5, <1>6, <2>2
  <2>. QED  BY <2>1, <2>2
<1>8. LessonRows'
  BY <1>3, <1>4, <1>5, <1>7, LessonsAre DEF LessonRows, ProgrammeRow, Slug
<1>9. \A x \in DOMAIN programmes' : OfItsGame(programmes'[x])
  BY <1>4, <1>5, LessonsAre
<1>. QED  BY <1>3, <1>8, <1>9, LessonsKeep

LEMMA DeleteProgrammeKeeps ==
    ASSUME CatalogueInv, NEW p \in DOMAIN programmes, DeleteProgramme(p) PROVE CatalogueInv'
<1>1. /\ p \notin studied /\ programmes' = Restrict(programmes, DOMAIN programmes \ {p}) /\ AtOnce
      /\ UNCHANGED <<booking, programmesEver, studied>>
  BY DEF DeleteProgramme, NotStudied
<1>2. /\ DOMAIN programmes' = DOMAIN programmes \ {p}
      /\ \A x \in DOMAIN programmes' : programmes'[x] = programmes[x]
  BY <1>1, RestrictIs
<1>3. LessonRows'
  BY <1>1, <1>2, LessonsAre DEF LessonRows, ProgrammeRow, Slug
<1>4. \A x \in DOMAIN programmes' : OfItsGame(programmes'[x])
  BY <1>2, LessonsAre
<1>. QED  BY <1>1, <1>3, <1>4, LessonsKeep

LEMMA StudyKeeps == ASSUME CatalogueInv, NEW p \in DOMAIN programmes, Study(p) PROVE CatalogueInv'
<1>1. LessonRows'
  BY LessonsAre DEF Study, LessonRows, ProgrammeRow, Slug
<1>. QED  BY <1>1, LessonsAre, LessonsKeep DEF Study

\* Looking
LEMMA LooksKeep ==
    ASSUME CatalogueInv, NEW r \in Request,
           \/ \E g \in DOMAIN games : LookToDeleteGame(r, g)
           \/ \E s \in DOMAIN activities : LookToDeleteActivity(r, s)
           \/ \E l \in DOMAIN layouts : LookToToggleLayout(r, l) \/ LookToDeleteLayout(r, l)
           \/ \E old \in {{}} \cup {{s} : s \in closures}, s \in AnyActivity \cup {""} :
                 LookToSaveClosure(r, old, s)
           \/ \E o \in DOMAIN offerings : LookToWithdraw(r, o)
    PROVE  CatalogueInv'
<1>1. CASE \E g \in DOMAIN games : LookToDeleteGame(r, g)
  <2>1. PICK g \in DOMAIN games : LookToDeleteGame(r, g)
    BY <1>1
  <2>2. PICK j : j = [op |-> "delete game", game |-> g]
    OBVIOUS
  <2>3. Carries(j) /\ StillThere(j) /\ j.op # "idle"
    BY <2>1, <2>2 DEF LookToDeleteGame, Carries, StillThere
  <2>. QED  BY <2>1, <2>2, <2>3, BeginKeeps DEF LookToDeleteGame, booking
<1>2. CASE \E s \in DOMAIN activities : LookToDeleteActivity(r, s)
  <2>1. PICK s \in DOMAIN activities : LookToDeleteActivity(r, s)
    BY <1>2
  <2>2. PICK j : j = [op |-> "delete activity", slug |-> s]
    OBVIOUS
  <2>3. Carries(j) /\ StillThere(j) /\ j.op # "idle"
    BY <2>1, <2>2 DEF LookToDeleteActivity, Carries, StillThere
  <2>. QED  BY <2>1, <2>2, <2>3, BeginKeeps DEF LookToDeleteActivity, booking
<1>3. ASSUME NEW l \in DOMAIN layouts, LookToToggleLayout(r, l) PROVE CatalogueInv'
  <2>1. PICK j : j = [op |-> "toggle layout", id |-> l, active |-> ~layouts[l].active]
    OBVIOUS
  <2>2. layouts[l].active \in BOOLEAN
    BY LayoutIs DEF LayoutRow
  <2>3. Carries(j) /\ StillThere(j) /\ j.op # "idle"
    BY <1>3, <2>1, <2>2 DEF LookToToggleLayout, Carries, StillThere
  <2>. QED  BY <1>3, <2>1, <2>3, BeginKeeps DEF LookToToggleLayout, booking
<1>4. ASSUME NEW l \in DOMAIN layouts, LookToDeleteLayout(r, l) PROVE CatalogueInv'
  <2>1. PICK j : j = [op |-> "delete layout", id |-> l]
    OBVIOUS
  <2>2. Carries(j) /\ StillThere(j) /\ j.op # "idle"
    BY <1>4, <2>1 DEF LookToDeleteLayout, Carries, StillThere
  <2>. QED  BY <1>4, <2>1, <2>2, BeginKeeps DEF LookToDeleteLayout, booking
<1>5. ASSUME NEW old, NEW s \in AnyActivity \cup {""}, LookToSaveClosure(r, old, s) PROVE CatalogueInv'
  <2>1. PICK j : j = [op |-> "save closure", old |-> old, slug |-> s]
    OBVIOUS
  <2>2. Carries(j) /\ StillThere(j) /\ j.op # "idle"
    BY <1>5, <2>1 DEF LookToSaveClosure, MayClose, Carries, StillThere
  <2>. QED  BY <1>5, <2>1, <2>2, BeginKeeps DEF LookToSaveClosure, booking
<1>6. ASSUME NEW o \in DOMAIN offerings, LookToWithdraw(r, o) PROVE CatalogueInv'
  <2>1. PICK j : j = [op |-> "withdraw", id |-> o]
    OBVIOUS
  <2>2. Carries(j) /\ StillThere(j) /\ j.op # "idle"
    BY <2>1 DEF Carries, StillThere
  <2>. QED  BY <1>6, <2>1, <2>2, BeginKeeps DEF LookToWithdraw, booking
<1>. QED  BY <1>1, <1>2, <1>3, <1>4, <1>5, <1>6

LEMMA GameIs ==
    ASSUME CatalogueInv, NEW g \in DOMAIN games
    PROVE  /\ games[g].slug \in Slug /\ g \in 1 .. gamesEver /\ g \in 1 .. MaxGames /\ g # 0
           /\ MaxGames \in Nat
<1>1. gamesEver \in 1 .. MaxGames /\ DOMAIN games \subseteq 1 .. gamesEver /\ games[g] \in GameRow
      /\ MaxGames \in Nat
  BY Limits DEF CatalogueInv, CatalogueRows, GameRows
<1>. QED  BY <1>1 DEF GameRow

LEMMA LookToTeachKeeps ==
    ASSUME CatalogueInv, NEW r \in Request, NEW g \in DOMAIN games,
           NEW p \in DOMAIN programmes \cup {0}, LookToTeach(r, p, g)
    PROVE  CatalogueInv'
<1>1. PICK j : j = [op |-> "teach", id |-> p, row |-> [game |-> g, slug |-> games[g].slug]]
  OBVIOUS
<1>2. p \in Nat
  BY LessonsAre DEF LessonRows
<1>3. j.row \in ProgrammeRow /\ OfItsGame(j.row)
  BY <1>1, GameIs DEF ProgrammeRow, OfItsGame
<1>4. Carries(j) /\ StillThere(j) /\ j.op # "idle"
  BY <1>1, <1>2, <1>3 DEF Carries, StillThere
<1>. QED  BY <1>1, <1>4, BeginKeeps DEF LookToTeach, booking

LEMMA LookToOfferKeeps ==
    ASSUME CatalogueInv, NEW r \in Request, NEW g \in DOMAIN games,
           NEW o \in DOMAIN offerings \cup {0}, LookToOffer(r, o, g)
    PROVE  CatalogueInv'
<1>1. PICK j : j = [op |-> "offer", id |-> o, slug |-> games[g].slug]
  OBVIOUS
<1>2. o \in Nat
  BY OfferingsAre DEF OfferingRows
<1>3. Carries(j) /\ StillThere(j) /\ j.op # "idle"
  BY <1>1, <1>2, GameIs DEF Carries, StillThere
<1>. QED  BY <1>1, <1>3, BeginKeeps DEF LookToOffer, booking

LEMMA LookToPriceKeeps ==
    ASSUME CatalogueInv, NEW r \in Request, NEW g \in DOMAIN games, NEW old,
           NEW q \in 1 .. MaxCourts, LookToPrice(r, old, g, q)
    PROVE  CatalogueInv'
<1>1. PICK j : j = [op |-> "price", old |-> old,
                    rule |-> [game |-> g, slug |-> games[g].slug, quantity |-> q]]
  OBVIOUS
<1>2. games[g].slug \in DOMAIN activities
  BY DEF LookToPrice, Offered
<1>3. j.rule \in RuleRow /\ OfItsGame(j.rule) /\ j.rule.slug \in DOMAIN activities
  BY <1>1, <1>2, GameIs DEF RuleRow, OfItsGame
<1>4. Carries(j) /\ StillThere(j) /\ j.op # "idle"
  BY <1>1, <1>3 DEF Carries, StillThere
<1>. QED  BY <1>1, <1>4, BeginKeeps DEF LookToPrice, booking

LEMMA LookToCreateActivityKeeps ==
    ASSUME CatalogueInv, NEW r \in Request, NEW g \in 0 .. MaxGames, NEW max \in 1 .. MaxCourts,
           LookToCreateActivity(r, g, max)
    PROVE  CatalogueInv'
<1>1. PICK s : s = IF g = 0 THEN "training" ELSE games[g].slug
  OBVIOUS
<1>2. PICK j : j = [op |-> "create activity", slug |-> s,
                    row |-> [game |-> g, max |-> max, active |-> TRUE]]
  OBVIOUS
<1>3. s \in AnyActivity
  BY <1>1, GameIs, Limits DEF LookToCreateActivity, AnyActivity
<1>4. j.row \in ActivityRow
  BY <1>2 DEF ActivityRow
<1>5. Carries(j) /\ StillThere(j) /\ j.op # "idle"
  BY <1>2, <1>3, <1>4 DEF Carries, StillThere
<1>. QED  BY <1>1, <1>2, <1>5, BeginKeeps DEF LookToCreateActivity, booking

LEMMA LookToSaveLayoutKeeps ==
    ASSUME CatalogueInv, NEW r \in Request, NEW l, NEW form \in LayoutForms, NEW a \in BOOLEAN,
           LookToSaveLayout(r, l, form, a)
    PROVE  CatalogueInv'
<1>1. PICK o : o = IF l \in DOMAIN layouts THEN "update layout" ELSE "create layout"
  OBVIOUS
<1>2. PICK j : j = [op |-> o, id |-> l, row |-> [items |-> form, active |-> a]]
  OBVIOUS
<1>3. o \in {"create layout", "update layout"}
  BY <1>1
<1>4. j.row \in LayoutRow
  BY <1>2 DEF LayoutRow
<1>5. /\ DOMAIN j.row.items \subseteq DOMAIN activities
      /\ (j.id \in DOMAIN layouts /\ ~j.row.active) => ActiveLayouts \ {j.id} # {}
  BY <1>2 DEF LookToSaveLayout, IsLayout
<1>6. Carries(j) /\ StillThere(j) /\ j.op # "idle"
  BY <1>2, <1>3, <1>4, <1>5 DEF Carries, StillThere
<1>. QED  BY <1>1, <1>2, <1>6, BeginKeeps DEF LookToSaveLayout, booking

LEMMA GiveUpCatalogueKeeps ==
    ASSUME CatalogueInv, NEW r \in Request, GiveUpCatalogue(r) PROVE CatalogueInv'
<1>1. /\ tx' = [k \in Request |-> IF k \in {r} THEN Idle ELSE tx[k]]
      /\ UNCHANGED <<driver, booking, lessons, edits, overlapped>>
  BY DEF GiveUpCatalogue, GiveUp, End, catalogue, booking
<1>2. Counters' /\ CatalogueRows' /\ GamesNamed' /\ ReferencesResolve'
  BY <1>1
  DEF CatalogueInv, Counters, CatalogueRows, GameRows, CourtRows, OfferingRows, LessonRows, GamesNamed,
      OfItsGame, ReferencesResolve, ActiveLayouts, booking, lessons
<1>3. ASSUME NEW k \in Request
      PROVE  Carries(tx[k])' /\ (~overlapped' => StillThere(tx[k])')
  <2>1. PICK i : i = tx'[k]
    OBVIOUS
  <2>2. i = Idle \/ i = tx[k]
    BY <1>1, <2>1
  <2>3. Carries(i) /\ (~overlapped => StillThere(i))
    <3>1. Carries(Idle) /\ StillThere(Idle)
      BY DEF Carries, StillThere, Idle
    <3>. QED  BY <2>2, <3>1, OwnJob
  <2>4. Carries(tx[k])'
    BY <1>1, <2>1, <2>3 DEF Carries, OfItsGame, booking
  <2>5. StillThere(i) => StillThere(tx[k])'
    BY <1>1, <2>1 DEF StillThere, GameUnused, ActivityUnused, MayTakeAway, ActiveLayouts, booking
  <2>. QED  BY <1>1, <2>3, <2>4, <2>5
<1>4. ~overlapped' => \A q, k \in Request : (IsOpen(q) /\ IsOpen(k))' => q = k
  BY <1>1 DEF IsOpen, CatalogueInv, CatalogueJobs, Idle
<1>5. DOMAIN tx' = Request
  BY <1>1
<1>. QED  BY <1>2, <1>3, <1>4, <1>5 DEF CatalogueInv, CatalogueJobs
----------------------------------------------------------------------------
(* Every state *)

LEMMA CatalogueInitHolds == InitRequests /\ CatalogueInit => CatalogueInv
<1>. SUFFICES ASSUME InitRequests, CatalogueInit PROVE CatalogueInv
  OBVIOUS
<1>1. PICK s : s = SlugOf[SeededGame]
  OBVIOUS
<1>2. SeededGame \in GameName /\ SeededItems \in LayoutForms
  BY CatalogueAssumption DEF SeededItems
<1>3. s \in Slug /\ s \in AnyActivity /\ "training" \in AnyActivity
  BY <1>1, <1>2, Limits DEF AnyActivity
<1>4. GameRows
  BY <1>1, <1>2, <1>3, Limits DEF CatalogueInit, GameRows, GameRow
<1>5. \A a \in DOMAIN activities : activities[a] \in ActivityRow
  BY Limits DEF CatalogueInit, ActivityRow
<1>6. /\ DOMAIN activities = {s, "training"}
      /\ layouts = [l \in {1} |-> [items |-> SeededItems, active |-> TRUE]]
  BY <1>1 DEF CatalogueInit
<1>7. layouts[1] \in LayoutRow /\ DOMAIN layouts = {1}
  BY <1>2, <1>6 DEF LayoutRow
<1>8. CourtRows
  <2>1. closures = {} /\ rules = {} /\ courtOpen = TRUE
    BY DEF CatalogueInit
  <2>2. IsFiniteSet(rules) /\ Cardinality(rules) = 0
    BY <2>1, FS_EmptySet
  <2>3. IsFiniteSet(rules) /\ Cardinality(rules) <= MaxRules
    BY <2>2, Limits
  <2>4. DOMAIN activities \subseteq AnyActivity
    BY <1>3, <1>6
  <2>5. \A l \in DOMAIN layouts : layouts[l] \in LayoutRow
    BY <1>7
  <2>. QED  BY <1>5, <2>1, <2>3, <2>4, <2>5 DEF CourtRows
<1>9. OfferingRows /\ LessonRows /\ Counters
  <2>1. offerings = <<>> /\ programmes = <<>> /\ offeredEver = 0 /\ programmesEver = 0
    BY DEF CatalogueInit
  <2>2. DOMAIN offerings = {} /\ DOMAIN programmes = {}
    BY <2>1
  <2>3. taken = {} /\ studied = {} /\ edits = 0 /\ overlapped = FALSE
    BY DEF CatalogueInit
  <2>4. OfferingRows
    BY <2>1, <2>2, <2>3 DEF OfferingRows
  <2>5. LessonRows
    BY <2>1, <2>2, <2>3 DEF LessonRows
  <2>6. edits \in 0 .. MaxEdits
    BY <2>3, Limits
  <2>7. Counters
    BY <2>3, <2>6 DEF Counters
  <2>. QED  BY <2>4, <2>5, <2>7
<1>10. GamesNamed
  BY DEF CatalogueInit, GamesNamed
<1>11. ReferencesResolve
  BY <1>1, <1>6, <1>7 DEF CatalogueInit, ReferencesResolve, ActiveLayouts, SeededItems
<1>12. CatalogueJobs
  BY DEF InitRequests, CatalogueJobs, Carries, StillThere, IsOpen, Idle
<1>. QED  BY <1>4, <1>8, <1>9, <1>10, <1>11, <1>12 DEF CatalogueInv, CatalogueRows

LEMMA CatalogueStutters == CatalogueInv /\ UNCHANGED <<driver, tx, catalogue>> => CatalogueInv'
<1>. SUFFICES ASSUME CatalogueInv, UNCHANGED <<driver, tx, catalogue>> PROVE CatalogueInv'
  OBVIOUS
<1>1. Counters' /\ CatalogueRows' /\ GamesNamed' /\ ReferencesResolve'
  BY DEF CatalogueInv, Counters, CatalogueRows, GameRows, CourtRows, OfferingRows, LessonRows, GamesNamed,
      OfItsGame, ReferencesResolve, ActiveLayouts, catalogue, lessons
<1>2. tx' = tx /\ UNCHANGED <<booking, lessons, edits, overlapped>>
  BY DEF catalogue, booking, lessons
<1>3. ASSUME NEW k \in Request
      PROVE  Carries(tx[k])' /\ (~overlapped' => StillThere(tx[k])')
  <2>1. PICK i : i = tx[k]
    OBVIOUS
  <2>2. Carries(i) /\ (~overlapped => StillThere(i))
    BY <2>1, OwnJob
  <2>3. Carries(tx[k])'
    BY <1>2, <2>1, <2>2 DEF Carries, OfItsGame, booking
  <2>4. StillThere(i) => StillThere(tx[k])'
    BY <1>2, <2>1 DEF StillThere, GameUnused, ActivityUnused, MayTakeAway, ActiveLayouts, booking
  <2>. QED  BY <1>2, <2>2, <2>3, <2>4
<1>4. ~overlapped' => \A q, k \in Request : (IsOpen(q) /\ IsOpen(k))' => q = k
  BY <1>2 DEF IsOpen, CatalogueInv, CatalogueJobs
<1>. QED  BY <1>1, <1>2, <1>3, <1>4 DEF CatalogueInv, CatalogueJobs

LEMMA CatalogueInvHolds == CatalogueSpec => []CatalogueInv
<1>1. CatalogueInv /\ [CatalogueNext]_<<driver, tx, catalogue>> => CatalogueInv'
  <2>. SUFFICES ASSUME CatalogueInv, CatalogueNext PROVE CatalogueInv'
    BY CatalogueStutters
  <2>1. ASSUME NEW r \in Request,
               \/ DeleteGame(r) \/ CreateActivity(r) \/ DeleteActivity(r) \/ SaveLayout(r)
               \/ ToggleLayout(r) \/ DeleteLayout(r) \/ SaveClosure(r) \/ Price(r) \/ Offer(r)
               \/ Withdraw(r) \/ Teach(r) \/ GiveUpCatalogue(r)
        PROVE  CatalogueInv'
    BY <2>1, DeleteGameKeeps, CreateActivityKeeps, DeleteActivityKeeps, SaveLayoutKeeps, ToggleLayoutKeeps,
       DeleteLayoutKeeps, SaveClosureKeeps, PriceKeeps, OfferKeeps, WithdrawKeeps, TeachKeeps,
       GiveUpCatalogueKeeps
  <2>2. ASSUME NEW r \in Request,
               \/ \E g \in DOMAIN games :
                    \/ \E p \in DOMAIN programmes \cup {0} : LookToTeach(r, p, g)
                    \/ \E o \in DOMAIN offerings \cup {0} : LookToOffer(r, o, g)
                    \/ \E q \in 1 .. MaxCourts, old \in {{}} \cup {{p} : p \in rules} :
                          LookToPrice(r, old, g, q)
               \/ \E g \in 0 .. MaxGames, max \in 1 .. MaxCourts : LookToCreateActivity(r, g, max)
               \/ \E l \in 1 .. MaxLayouts, form \in LayoutForms, a \in BOOLEAN :
                     LookToSaveLayout(r, l, form, a)
        PROVE  CatalogueInv'
    BY <2>2, LookToTeachKeeps, LookToOfferKeeps, LookToPriceKeeps, LookToCreateActivityKeeps,
       LookToSaveLayoutKeeps
  <2>3. CASE \/ \E n \in GameName : CreateGame(n)
             \/ \E n \in GameName, g \in DOMAIN games, a \in BOOLEAN : UpdateGame(g, n, a)
             \/ UpdateCourt
             \/ \E s \in DOMAIN activities :
                 \/ \E max \in 1 .. MaxCourts, a \in BOOLEAN : UpdateActivity(s, max, a)
                 \/ \E g \in 0 .. MaxGames : RelinkActivity(s, g)
             \/ \E s \in closures : DeleteClosure(s)
             \/ \E p \in rules : DeletePrice(p)
             \/ \E o \in DOMAIN offerings : TakeOffering(o)
             \/ \E p \in DOMAIN programmes : DeleteProgramme(p) \/ Study(p)
    BY <2>3, CreateGameKeeps, UpdateGameKeeps, UpdateCourtKeeps, UpdateActivityKeeps, RelinkKeeps,
       DeleteClosureKeeps, DeletePriceKeeps, TakeKeeps, DeleteProgrammeKeeps, StudyKeeps
  <2>. QED  BY <2>1, <2>2, <2>3, LooksKeep DEF CatalogueNext
<1>. QED  BY <1>1, CatalogueInitHolds, PTL DEF CatalogueSpec

LEMMA CatalogueInvTyped == CatalogueInv => CatalogueTypeOK
<1>. SUFFICES ASSUME CatalogueInv PROVE CatalogueTypeOK
  OBVIOUS
<1>1. /\ DOMAIN games \subseteq 1 .. gamesEver /\ gamesEver <= MaxGames
      /\ \A g \in DOMAIN games : games[g] \in [name : GameName, slug : Slug, active : BOOLEAN]
  BY Limits DEF CatalogueInv, CatalogueRows, GameRows, GameRow
<1>2. /\ DOMAIN activities \subseteq AnyActivity /\ courtOpen \in BOOLEAN
      /\ \A s \in DOMAIN activities :
            activities[s] \in [game : 0 .. MaxGames, max : 1 .. MaxCourts, active : BOOLEAN]
      /\ \A l \in DOMAIN layouts : layouts[l].items \in LayoutForms /\ layouts[l].active \in BOOLEAN
      /\ closures \subseteq AnyActivity \cup {""}
      /\ rules \subseteq [game : 1 .. MaxGames, slug : Slug, quantity : 1 .. MaxCourts]
      /\ Cardinality(rules) <= MaxRules
  BY DEF CatalogueInv, CatalogueRows, CourtRows, ActivityRow, LayoutRow, RuleRow
<1>3. DOMAIN offerings \subseteq 1 .. offeredEver /\ Range(offerings) \subseteq Slug
  BY DEF CatalogueInv, CatalogueRows, OfferingRows, Range
<1>. QED  BY <1>1, <1>2, <1>3 DEF CatalogueInv, CatalogueRows, LessonRows, Counters, CatalogueTypeOK

\* The rows of the catalogue have their types, for any names, layouts, numbers of
\* rows and requests.
THEOREM CatalogueTyped == CatalogueSpec => []CatalogueTypeOK
  BY CatalogueInvTyped, CatalogueInvHolds, PTL

\* As long as operations of administrators do not overlap, an active layout
\* remains, and every layout, closure, price and offering names an activity or a
\* game there is; and however they overlap, a price and a programme have the slug
\* of their game, and an offering that was booked stays.
THEOREM CatalogueAlwaysResolves == CatalogueSpec => []CatalogueResolves
<1>1. CatalogueInv => CatalogueResolves
  BY DEF CatalogueInv, CatalogueResolves, BookedAndPricedAgree, GamesNamed, OfItsGame, CatalogueRows,
         OfferingRows
<1>. QED  BY <1>1, CatalogueInvHolds, PTL
----------------------------------------------------------------------------
(***************************************************************************)
(* The parts together (MCBooks).  A behaviour is of one part, whose        *)
(* requests do not touch the tables of the others.                         *)
(***************************************************************************)

\* A behaviour of the parts together is a behaviour of one of them alone: so what
\* is proved of each holds of what TLC explores.
THEOREM BooksAreApart ==
    Spec => \/ part = "cashbook" /\ CashbookSpec
            \/ part = "tournament" /\ TournamentsSpec
            \/ part = "catalogue" /\ CatalogueSpec
<1>1. Init => /\ part = "cashbook" \/ part = "tournament" \/ part = "catalogue"
              /\ InitRequests /\ CashbookInit /\ TournamentsInit /\ CatalogueInit
  BY DEF Init, Parts
<1>2. part = "cashbook" /\ [Next]_vars
        => (part = "cashbook")' /\ [CashbookStep]_<<driver, tx, cashbook>>
  BY DEF Next, vars, CashbookStep
<1>3. part = "tournament" /\ [Next]_vars
        => (part = "tournament")' /\ [TournamentsNext]_<<driver, tx, tournaments>>
  BY DEF Next, vars
<1>4. part = "catalogue" /\ [Next]_vars
        => (part = "catalogue")' /\ [CatalogueNext]_<<driver, tx, catalogue>>
  BY DEF Next, vars
<1>. QED
  BY <1>1, <1>2, <1>3, <1>4, PTL
  DEF Spec, CashbookSpec, TournamentsSpec, CatalogueSpec

\* Every part has its types, the one that is looked at and those that are not, for
\* any number of requests, accounts, tournaments and games.
THEOREM BooksTyped == Spec => []TypeOK
<1>1. Init => InitRequests /\ CashbookInit /\ TournamentsInit /\ CatalogueInit
  BY DEF Init
<1>2. Init => CashbookTypeOK /\ TournamentsTypeOK /\ CatalogueTypeOK
  BY <1>1, CashbookInitHolds, CashbookInvTyped, TournamentInitHolds,
     TournamentsInvTyped, CatalogueInitHolds, CatalogueInvTyped
<1>3. CashbookTypeOK /\ [Next]_vars /\ ~(part = "cashbook")
        => CashbookTypeOK' /\ ~(part = "cashbook")'
  BY DEF Next, vars, CashbookTypeOK, cashbook
<1>4. TournamentsTypeOK /\ [Next]_vars /\ ~(part = "tournament")
        => TournamentsTypeOK' /\ ~(part = "tournament")'
  BY DEF Next, vars, TournamentsTypeOK, tournaments
<1>5. CatalogueTypeOK /\ [Next]_vars /\ ~(part = "catalogue")
        => CatalogueTypeOK' /\ ~(part = "catalogue")'
  BY DEF Next, vars, CatalogueTypeOK, catalogue, lessons
<1>6. /\ ~(part = "cashbook" /\ part = "tournament")
      /\ ~(part = "cashbook" /\ part = "catalogue")
      /\ ~(part = "tournament" /\ part = "catalogue")
  OBVIOUS
<1>7. Spec => []CashbookTypeOK
  BY <1>2, <1>3, <1>6, BooksAreApart, CashbookTyped, PTL DEF Spec
<1>8. Spec => []TournamentsTypeOK
  BY <1>2, <1>4, <1>6, BooksAreApart, TournamentsTyped, PTL DEF Spec
<1>9. Spec => []CatalogueTypeOK
  BY <1>2, <1>5, <1>6, BooksAreApart, CatalogueTyped, PTL DEF Spec
<1>. QED  BY <1>7, <1>8, <1>9, PTL DEF TypeOK
=============================================================================
