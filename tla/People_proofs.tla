---------------------------- MODULE People_proofs ---------------------------
(***************************************************************************)
(* People: the enrolments, groups and files of students, and the salary profiles *)
(* of staff, for any number of programmes, days, rows and requests.        *)
(***************************************************************************)
EXTENDS MCPeople, SetSums, SequenceTheorems
----------------------------------------------------------------------------
(***************************************************************************)
(* Enrolments: what an enrolment says of itself agrees with its history and *)
(* with the finance transactions.  On SQLite nobody has paid since an open *)
(* transaction looked for the enrolment it may delete or move; on PostgreSQL a *)
(* row being transferred is as it was when it was locked.                  *)
(***************************************************************************)

EnrolmentsStep == EnrolmentsNext \/ \E r \in Request : GiveUp(r) /\ UNCHANGED enrolments

EnrolmentsSpec == InitRequests /\ EnrolmentsInit /\ [][EnrolmentsStep]_<<driver, tx, enrolments>>

EnrolmentRows ==
    /\ DOMAIN enrolment \subseteq 1 .. MaxEnrolments /\ enrolment \in [DOMAIN enrolment -> Row]
    /\ history \in [DOMAIN enrolment -> SUBSET Interval]
    /\ attended \in [DOMAIN enrolment -> 0 .. Today]
    /\ \E n \in 0 .. MaxTransactions : ledger \in [1 .. n -> Receipt]

\* The history H has one open interval, of a student who is active or not.
FollowsStatus(H, active) ==
    /\ \E h \in H : /\ h.to = Open /\ h.active = active
                    /\ \A g \in H : g.to = Open => g = h
    /\ \A h \in H : h.from < h.to

HistoriesKept == \A e \in DOMAIN enrolment : FollowsStatus(history[e], enrolment[e].active)

Admits(rows, t, e) ==
    t \in DOMAIN rows /\ rows[t] = [enrolment |-> e, kind |-> "admission", voided |-> FALSE]

AdmissionsKept ==
    \A e \in DOMAIN enrolment : enrolment[e].txn # 0 => Admits(ledger, enrolment[e].txn, e)

\* What was read of an enrolment on SQLite: nobody has paid for it since.
UnpaidStill(r) ==
    /\ tx[r].op = "delete" => \A t \in DOMAIN ledger : ledger[t].enrolment # tx[r].row
    /\ tx[r].op = "update" /\ tx[r].row \in DOMAIN enrolment
          /\ tx[r].course # enrolment[tx[r].row].course
       => \A t \in DOMAIN ledger : ledger[t].enrolment # tx[r].row

EnrolmentJob(r) ==
    LET j == tx[r]
    IN  /\ j.op \in {"update", "leave", "reactivate", "transfer", "delete", "void", "void month"}
              => j.row \in 1 .. MaxEnrolments
        /\ j.op \in {"update", "leave", "reactivate", "transfer"} => j.day \in Day
        /\ j.op \in {"update", "transfer"} => j.course \in Course
        /\ j.op \in {"void", "void month"} => j.txn \in DOMAIN ledger
        /\ j.op = "void" => ledger[j.txn].enrolment = j.row /\ ledger[j.txn].kind = "admission"
        /\ j.op = "void month" => ledger[j.txn].kind = "monthly"
        /\ j.op = "transfer" /\ j.row \in DOMAIN enrolment => enrolment[j.row].active
        /\ driver = "sqlite" => UnpaidStill(r)

EnrolmentJobs ==
    /\ driver \in {"sqlite", "postgres"}
    /\ DOMAIN tx = Request
    /\ \A r \in Request : EnrolmentJob(r)

EnrolmentsInv == EnrolmentRows /\ EnrolmentJobs /\ HistoriesKept /\ AdmissionsKept
----------------------------------------------------------------------------
(* Histories *)

LEMMA OpenIs ==
    ASSUME NEW H, NEW h \in H, h.to = Open, \A g \in H : g.to = Open => g = h
    PROVE  OpenOf(H) = h
  BY DEF OpenOf

\* Leaving and returning: the history follows, whatever the day.
LEMMA SyncedFollows ==
    ASSUME NEW H \in SUBSET Interval, NEW was, FollowsStatus(H, was), NEW active \in BOOLEAN,
           NEW day \in Day
    PROVE  Synced(H, active, day) \in SUBSET Interval /\ FollowsStatus(Synced(H, active, day), active)
<1> DEFINE new == [active |-> active, from |-> day, to |-> Open]
           Closed == {[h EXCEPT !.to = day] : h \in {h \in H : h.to = Open /\ h.from < day}}
           K == (H \ {OpenOf(H)}) \cup Closed \cup {new}
<1>1. PICK o \in H : o.to = Open /\ o.active = was /\ \A g \in H : g.to = Open => g = o
  BY DEF FollowsStatus
<1>2. OpenOf(H) = o
  BY <1>1, OpenIs
<1>3. CASE o.active = active
  BY <1>1, <1>2, <1>3 DEF Synced
<1>4. CASE o.active # active
  <2>1. Synced(H, active, day) = K
    BY <1>2, <1>4 DEF Synced
  <2>2. day \in Nat /\ Open \in Nat /\ day < Open /\ Today \in Nat
    BY EnrolmentsAssumption DEF Day, Open
  <2>3. new \in Interval /\ new.to = Open /\ new.active = active /\ new.from < new.to
    BY <2>2 DEF Interval
  <2>4. ASSUME NEW c \in Closed PROVE c \in Interval /\ c.to # Open /\ c.from < c.to
    <3>1. PICK h \in H : h.to = Open /\ h.from < day /\ c = [h EXCEPT !.to = day]
      OBVIOUS
    <3>2. h \in Interval
      OBVIOUS
    <3>3. c.to = day /\ c.from = h.from /\ c \in Interval
      BY <3>1, <3>2 DEF Interval
    <3>. QED  BY <2>2, <3>1, <3>3
  <2>5. \A g \in H \ {o} : g \in Interval /\ g.to # Open /\ g.from < g.to
    BY <1>1 DEF FollowsStatus
  <2> HIDE DEF new, Closed
  <2>6. \A g \in K : g = new \/ (g \in Interval /\ g.to # Open /\ g.from < g.to)
    BY <1>2, <2>4, <2>5
  <2>7. new \in K
    OBVIOUS
  <2> HIDE DEF K
  <2>8. K \in SUBSET Interval /\ FollowsStatus(K, active)
    BY <2>3, <2>6, <2>7 DEF FollowsStatus
  <2>. QED  BY <2>1, <2>8
<1>. QED  BY <1>3, <1>4

\* The start is edited: the open interval begins on another day.
LEMMA StartMovedFollows ==
    ASSUME NEW H \in SUBSET Interval, NEW active, FollowsStatus(H, active), NEW from, NEW to \in Day
    PROVE  StartMoved(H, from, to) \in SUBSET Interval /\ FollowsStatus(StartMoved(H, from, to), active)
<1> DEFINE moved(h) == IF h.to = Open /\ h.active /\ h.from = from THEN [h EXCEPT !.from = to] ELSE h
           K == StartMoved(H, from, to)
<1>1. PICK o \in H : o.to = Open /\ o.active = active /\ \A g \in H : g.to = Open => g = o
  BY DEF FollowsStatus
<1>2. to \in Nat /\ Open \in Nat /\ to < Open
  BY EnrolmentsAssumption DEF Day, Open
<1>3. ASSUME NEW h \in H
      PROVE  /\ moved(h) \in Interval /\ moved(h).to = h.to /\ moved(h).active = h.active
             /\ moved(h).from < moved(h).to
  <2>1. h \in Interval /\ h.from < h.to
    BY DEF FollowsStatus
  <2>. QED  BY <1>2, <2>1 DEF Interval
<1>4. K = {moved(h) : h \in H}
  BY DEF StartMoved
<1> HIDE DEF moved, K
<1>5. K \in SUBSET Interval /\ \A h \in K : h.from < h.to
  BY <1>3, <1>4
<1>6. moved(o) \in K /\ moved(o).to = Open /\ moved(o).active = active
  BY <1>1, <1>3, <1>4
<1>7. \A g \in K : g.to = Open => g = moved(o)
  BY <1>1, <1>3, <1>4
<1>8. FollowsStatus(K, active)
  BY <1>5, <1>6, <1>7 DEF FollowsStatus
<1>. QED  BY <1>5, <1>8 DEF K

LEMMA FirstInterval ==
    ASSUME NEW day \in Day
    PROVE  LET H == {[active |-> TRUE, from |-> day, to |-> Open]}
           IN  H \in SUBSET Interval /\ FollowsStatus(H, TRUE)
<1> DEFINE h == [active |-> TRUE, from |-> day, to |-> Open]
<1>1. day \in Nat /\ Open \in Nat /\ day < Open
  BY EnrolmentsAssumption DEF Day, Open
<1>2. h \in Interval /\ h.to = Open /\ h.active = TRUE /\ h.from < h.to
  BY <1>1 DEF Interval
<1> HIDE DEF h
<1>3. {h} \in SUBSET Interval /\ FollowsStatus({h}, TRUE)
  BY <1>2 DEF FollowsStatus
<1>. QED  BY <1>3 DEF h
----------------------------------------------------------------------------
(* Requests *)

LEMMA EnrolmentsInitHolds == InitRequests /\ EnrolmentsInit => EnrolmentsInv
<1> SUFFICES ASSUME InitRequests, EnrolmentsInit PROVE EnrolmentsInv
  OBVIOUS
<1>1. /\ DOMAIN enrolment = {} /\ DOMAIN ledger = {}
      /\ enrolment = [e \in {} |-> 0] /\ history = [e \in {} |-> {}]
      /\ ledger = [t \in {} |-> 0] /\ attended = [e \in {} |-> 0]
  BY DEF EnrolmentsInit
<1>2. /\ enrolment \in [{} -> Row] /\ history \in [{} -> SUBSET Interval]
      /\ attended \in [{} -> 0 .. Today] /\ ledger \in [{} -> Receipt]
  BY <1>1
<1>3. 1 .. 0 = {} /\ 0 \in 0 .. MaxTransactions
  BY EnrolmentsAssumption
<1>4. EnrolmentRows
  BY <1>1, <1>2, <1>3 DEF EnrolmentRows
<1>5. EnrolmentJobs
  <2>1. \A r \in Request : tx[r].op = "idle"
    BY DEF InitRequests, Idle
  <2>2. \A r \in Request : EnrolmentJob(r)
    BY <2>1 DEF EnrolmentJob, UnpaidStill
  <2>. QED  BY <2>2 DEF EnrolmentJobs, InitRequests
<1>. QED  BY <1>1, <1>4, <1>5 DEF EnrolmentsInv, HistoriesKept, AdmissionsKept

LEMMA EnrolmentLooks ==
    ASSUME EnrolmentsInv, UNCHANGED <<driver, enrolments>>, NEW r \in Request, NEW j,
           tx' = [tx EXCEPT ![r] = j], EnrolmentJob(r)'
    PROVE  EnrolmentsInv'
<1>1. DOMAIN tx = Request /\ \A k \in Request \ {r} : tx'[k] = tx[k]
  BY DEF EnrolmentsInv, EnrolmentJobs
<1>2. UNCHANGED <<enrolment, history, ledger, attended, driver>>
  BY DEF enrolments
<1>3. ASSUME NEW k \in Request PROVE EnrolmentJob(k)'
  <2>1. CASE k = r
    BY <2>1
  <2>2. CASE k # r
    <3>1. tx'[k] = tx[k] /\ EnrolmentJob(k)
      BY <1>1, <2>2 DEF EnrolmentsInv, EnrolmentJobs
    <3>. QED  BY <1>2, <3>1 DEF EnrolmentJob, UnpaidStill
  <2>. QED  BY <2>1, <2>2
<1>4. EnrolmentJobs'
  BY <1>2, <1>3 DEF EnrolmentJobs, EnrolmentsInv
<1>5. EnrolmentRows' /\ HistoriesKept' /\ AdmissionsKept'
  BY <1>2 DEF EnrolmentsInv, EnrolmentRows, HistoriesKept, AdmissionsKept, Admits
<1>. QED  BY <1>4, <1>5 DEF EnrolmentsInv

\* A receipt changes in nothing but that it is void.
LedgerGrows ==
    /\ DOMAIN ledger \subseteq DOMAIN ledger'
    /\ \A t \in DOMAIN ledger : /\ ledger'[t].enrolment = ledger[t].enrolment
                                /\ ledger'[t].kind = ledger[t].kind

\* The rows that are being transferred, but for the requests R, are in rows as
\* they are in the table.
TransfersKept(rows, R) ==
    \A k \in Request \ R :
        driver = "postgres" /\ tx[k].op = "transfer" /\ tx[k].row \in DOMAIN rows
            => tx[k].row \in DOMAIN enrolment /\
               rows[tx[k].row].active = enrolment[tx[k].row].active

\* On SQLite a commit leaves only those open that delete a student; on
\* PostgreSQL the row that is transferred is locked.
Committed(R) == End(Overtaken({"delete student"}) \cup R)

LEMMA EnrolmentJobsKept ==
    ASSUME EnrolmentsInv, NEW R \in SUBSET Request, Committed(R),
           LedgerGrows, TransfersKept(enrolment', R)
    PROVE  EnrolmentJobs' /\ UNCHANGED driver
<1>1. /\ UNCHANGED driver /\ DOMAIN tx' = Request
      /\ \A k \in Request : tx'[k] = Idle \/ (tx'[k] = tx[k] /\ k \notin R)
      /\ driver = "sqlite" => \A k \in Request : tx'[k].op \in {"idle", "delete student"}
  BY DEF Committed, End, Overtaken, Idle
<1>2. ASSUME NEW k \in Request PROVE EnrolmentJob(k)'
  <2>1. CASE tx'[k] = Idle
    <3>1. tx'[k].op = "idle"
      BY <2>1 DEF Idle
    <3>. QED  BY <3>1 DEF EnrolmentJob, UnpaidStill
  <2>2. CASE tx'[k] = tx[k] /\ k \notin R
    <3>1. EnrolmentJob(k)
      BY DEF EnrolmentsInv, EnrolmentJobs
    <3>2. driver' = "sqlite" => UnpaidStill(k)'
      BY <1>1 DEF UnpaidStill
    <3>3. tx[k].op = "transfer" /\ tx[k].row \in DOMAIN enrolment' => enrolment'[tx[k].row].active
      BY <1>1, <2>2, <3>1 DEF EnrolmentJob, EnrolmentsInv, EnrolmentJobs, TransfersKept
    <3>4. /\ tx[k].op \in {"void", "void month"} => tx[k].txn \in DOMAIN ledger'
          /\ tx[k].op = "void" => /\ ledger'[tx[k].txn].enrolment = tx[k].row
                                  /\ ledger'[tx[k].txn].kind = "admission"
          /\ tx[k].op = "void month" => ledger'[tx[k].txn].kind = "monthly"
      BY <3>1 DEF EnrolmentJob, LedgerGrows
    <3>. QED  BY <2>2, <3>1, <3>2, <3>3, <3>4 DEF EnrolmentJob
  <2>. QED  BY <1>1, <2>1, <2>2
<1>. QED  BY <1>1, <1>2 DEF EnrolmentJobs, EnrolmentsInv

LEMMA WritesTakes ==
    ASSUME NEW r \in Request, NEW op, Writes(r, op)
    PROVE  /\ tx[r].op = op /\ tx[r].row \in DOMAIN enrolment
           /\ Committed({r})
           /\ \A k \in Request \ {r} :
                 driver = "postgres" /\ tx[k].op = "transfer" => tx[k].row # tx[r].row
  BY DEF Writes, Locks, Finish, IsOpen, Committed
----------------------------------------------------------------------------
(* What handlers look at *)

LEMMA EnrolmentLooksKeep ==
    ASSUME EnrolmentsInv, NEW r \in Request, NEW e \in DOMAIN enrolment,
           \/ \E day \in Day : LookToLeave(r, e, day) \/ LookToReactivate(r, e, day)
           \/ \E course \in Course, day \in Day :
                 LookToUpdate(r, e, course, day) \/ LookToTransfer(r, e, course, day)
           \/ LookToDelete(r, e) \/ LookToVoid(r, e)
    PROVE  EnrolmentsInv'
<1>0. DOMAIN tx = Request /\ e \in 1 .. MaxEnrolments
  BY DEF EnrolmentsInv, EnrolmentJobs, EnrolmentRows
<1>1. ASSUME NEW day \in Day, LookToLeave(r, e, day) PROVE EnrolmentsInv'
  <2> DEFINE j == [op |-> "leave", row |-> e, day |-> day]
  <2>1. tx' = [tx EXCEPT ![r] = j] /\ UNCHANGED <<driver, enrolments>> /\ tx'[r] = j
    BY <1>0, <1>1 DEF LookToLeave, Starts, Look
  <2>2. j.op = "leave" /\ j.row = e /\ j.day = day
    OBVIOUS
  <2> HIDE DEF j
  <2>3. EnrolmentJob(r)'
    BY <1>0, <2>1, <2>2 DEF EnrolmentJob, UnpaidStill
  <2>. QED  BY <2>1, <2>3, EnrolmentLooks
<1>2. ASSUME NEW day \in Day, LookToReactivate(r, e, day) PROVE EnrolmentsInv'
  <2> DEFINE j == [op |-> "reactivate", row |-> e, day |-> day]
  <2>1. tx' = [tx EXCEPT ![r] = j] /\ UNCHANGED <<driver, enrolments>> /\ tx'[r] = j
    BY <1>0, <1>2 DEF LookToReactivate, Starts, Look
  <2>2. j.op = "reactivate" /\ j.row = e /\ j.day = day
    OBVIOUS
  <2> HIDE DEF j
  <2>3. EnrolmentJob(r)'
    BY <1>0, <2>1, <2>2 DEF EnrolmentJob, UnpaidStill
  <2>. QED  BY <2>1, <2>3, EnrolmentLooks
<1>3. ASSUME NEW course \in Course, NEW day \in Day, LookToUpdate(r, e, course, day)
      PROVE  EnrolmentsInv'
  <2> DEFINE j == [op |-> "update", row |-> e, course |-> course, day |-> day,
                   start |-> enrolment[e].start]
  <2>1. /\ tx' = [tx EXCEPT ![r] = j] /\ UNCHANGED <<driver, enrolments>> /\ tx'[r] = j
        /\ MayUpdate(e, course)
    BY <1>0, <1>3 DEF LookToUpdate, Starts, Look
  <2>2. j.op = "update" /\ j.row = e /\ j.day = day /\ j.course = course
    OBVIOUS
  <2> HIDE DEF j
  <2>3. UnpaidStill(r)'
    BY <2>1, <2>2 DEF UnpaidStill, MayUpdate, enrolments
  <2>4. EnrolmentJob(r)'
    BY <1>0, <2>1, <2>2, <2>3 DEF EnrolmentJob
  <2>. QED  BY <2>1, <2>4, EnrolmentLooks
<1>4. ASSUME NEW course \in Course, NEW day \in Day, LookToTransfer(r, e, course, day)
      PROVE  EnrolmentsInv'
  <2> DEFINE j == [op |-> "transfer", row |-> e, course |-> course, day |-> day]
  <2>1. /\ tx' = [tx EXCEPT ![r] = j] /\ UNCHANGED <<driver, enrolments>> /\ tx'[r] = j
        /\ enrolment[e].active
    BY <1>0, <1>4 DEF LookToTransfer, Starts, Look
  <2>2. j.op = "transfer" /\ j.row = e /\ j.day = day /\ j.course = course
    OBVIOUS
  <2> HIDE DEF j
  <2>3. EnrolmentJob(r)'
    BY <1>0, <2>1, <2>2 DEF EnrolmentJob, UnpaidStill, enrolments
  <2>. QED  BY <2>1, <2>3, EnrolmentLooks
<1>5. CASE LookToDelete(r, e)
  <2> DEFINE j == [op |-> "delete", row |-> e]
  <2>1. /\ tx' = [tx EXCEPT ![r] = j] /\ UNCHANGED <<driver, enrolments>> /\ tx'[r] = j
        /\ MayDelete(e)
    BY <1>0, <1>5 DEF LookToDelete, Starts, Look
  <2>2. j.op = "delete" /\ j.row = e
    OBVIOUS
  <2> HIDE DEF j
  <2>3. EnrolmentJob(r)'
    BY <1>0, <2>1, <2>2 DEF EnrolmentJob, UnpaidStill, MayDelete, enrolments
  <2>. QED  BY <2>1, <2>3, EnrolmentLooks
<1>6. CASE LookToVoid(r, e)
  <2> DEFINE j == [op |-> "void", row |-> e, txn |-> enrolment[e].txn]
  <2>1. /\ tx' = [tx EXCEPT ![r] = j] /\ UNCHANGED <<driver, enrolments>> /\ tx'[r] = j
        /\ enrolment[e].txn # 0
    BY <1>0, <1>6 DEF LookToVoid, Starts, Look
  <2>2. j.op = "void" /\ j.row = e /\ j.txn = enrolment[e].txn
    OBVIOUS
  <2> HIDE DEF j
  <2>3. /\ j.txn \in DOMAIN ledger /\ ledger[j.txn].enrolment = e
        /\ ledger[j.txn].kind = "admission"
    <3>1. Admits(ledger, j.txn, e)
      BY <2>1, <2>2 DEF EnrolmentsInv, AdmissionsKept
    <3>. QED  BY <3>1 DEF Admits
  <2>4. EnrolmentJob(r)'
    BY <1>0, <2>1, <2>2, <2>3 DEF EnrolmentJob, UnpaidStill, enrolments
  <2>. QED  BY <2>1, <2>4, EnrolmentLooks
<1>. QED  BY <1>1, <1>2, <1>3, <1>4, <1>5, <1>6

LEMMA LedgerIs ==
    ASSUME EnrolmentsInv
    PROVE  \E n \in 0 .. MaxTransactions :
              /\ ledger \in [1 .. n -> Receipt] /\ DOMAIN ledger = 1 .. n
              /\ FreshTransaction = {n + 1} \cap (1 .. MaxTransactions)
<1>1. PICK n \in 0 .. MaxTransactions : ledger \in [1 .. n -> Receipt]
  BY DEF EnrolmentsInv, EnrolmentRows
<1>2. DOMAIN ledger = 1 .. n
  BY <1>1
<1>3. n \in Nat
  BY EnrolmentsAssumption
<1>4. Cardinality(1 .. n) = IF 1 > n THEN 0 ELSE n - 1 + 1
  BY <1>3, FS_Interval
<1>5. Cardinality(DOMAIN ledger) = n
  BY <1>2, <1>3, <1>4
<1>6. FreshTransaction = {n + 1} \cap (1 .. MaxTransactions)
  BY <1>3, <1>5 DEF FreshTransaction
<1>. QED  BY <1>1, <1>2, <1>6

LEMMA OtherLooksKeep ==
    ASSUME EnrolmentsInv, NEW r \in Request,
           LookToDeleteStudent(r) \/ \E t \in DOMAIN ledger : LookToVoidMonth(r, t)
    PROVE  EnrolmentsInv'
<1>0. DOMAIN tx = Request
  BY DEF EnrolmentsInv, EnrolmentJobs
<1>1. CASE LookToDeleteStudent(r)
  <2> DEFINE j == [op |-> "delete student", row |-> 0]
  <2>1. tx' = [tx EXCEPT ![r] = j] /\ UNCHANGED <<driver, enrolments>> /\ tx'[r] = j
    BY <1>0, <1>1 DEF LookToDeleteStudent, Starts, Look
  <2>2. j.op = "delete student"
    OBVIOUS
  <2> HIDE DEF j
  <2>3. EnrolmentJob(r)'
    BY <2>1, <2>2 DEF EnrolmentJob, UnpaidStill
  <2>. QED  BY <2>1, <2>3, EnrolmentLooks
<1>2. ASSUME NEW t \in DOMAIN ledger, LookToVoidMonth(r, t) PROVE EnrolmentsInv'
  <2> DEFINE j == [op |-> "void month", row |-> ledger[t].enrolment, txn |-> t]
  <2>1. /\ tx' = [tx EXCEPT ![r] = j] /\ UNCHANGED <<driver, enrolments>> /\ tx'[r] = j
        /\ ledger[t].kind = "monthly"
    BY <1>0, <1>2 DEF LookToVoidMonth, Starts, Look
  <2>2. j.op = "void month" /\ j.row = ledger[t].enrolment /\ j.txn = t
    OBVIOUS
  <2>3. ledger[t] \in Receipt
    BY LedgerIs
  <2>4. ledger[t].enrolment \in 1 .. MaxEnrolments
    BY <2>3 DEF Receipt
  <2> HIDE DEF j
  <2>5. EnrolmentJob(r)'
    BY <2>1, <2>2, <2>4 DEF EnrolmentJob, UnpaidStill, enrolments
  <2>. QED  BY <2>1, <2>5, EnrolmentLooks
<1>. QED  BY <1>1, <1>2
----------------------------------------------------------------------------
(* What handlers write *)

\* One enrolment is written; no receipt is.
LEMMA OneEnrolmentKeeps ==
    ASSUME EnrolmentsInv, NEW r \in Request, NEW op, Writes(r, op), NEW row \in Row,
           NEW H \in SUBSET Interval, FollowsStatus(H, row.active),
           row.txn = enrolment[tx[r].row].txn,
           enrolment' = [enrolment EXCEPT ![tx[r].row] = row],
           history' = [history EXCEPT ![tx[r].row] = H], UNCHANGED <<ledger, attended>>
    PROVE  EnrolmentsInv'
<1> DEFINE e == tx[r].row
<1>1. /\ e \in DOMAIN enrolment /\ Committed({r})
      /\ \A k \in Request \ {r} : driver = "postgres" /\ tx[k].op = "transfer" => tx[k].row # e
  BY WritesTakes
<1>2. /\ enrolment \in [DOMAIN enrolment -> Row] /\ history \in [DOMAIN enrolment -> SUBSET Interval]
  BY DEF EnrolmentsInv, EnrolmentRows
<1> HIDE DEF e
<1>3. /\ enrolment' \in [DOMAIN enrolment -> Row] /\ DOMAIN enrolment' = DOMAIN enrolment
      /\ enrolment'[e] = row /\ \A d \in DOMAIN enrolment : d # e => enrolment'[d] = enrolment[d]
  BY <1>1, <1>2 DEF e
<1>4. /\ history' \in [DOMAIN enrolment -> SUBSET Interval] /\ history'[e] = H
      /\ \A d \in DOMAIN enrolment : d # e => history'[d] = history[d]
  BY <1>1, <1>2 DEF e
<1>5. EnrolmentRows'
  BY <1>3, <1>4 DEF EnrolmentsInv, EnrolmentRows
<1>6. HistoriesKept'
  BY <1>3, <1>4 DEF EnrolmentsInv, HistoriesKept
<1>7. AdmissionsKept'
  <2>. SUFFICES ASSUME NEW d \in DOMAIN enrolment, enrolment'[d].txn # 0
                PROVE  Admits(ledger', enrolment'[d].txn, d)
    BY <1>3 DEF AdmissionsKept
  <2>1. enrolment'[d].txn = enrolment[d].txn
    BY <1>3 DEF e
  <2>. QED  BY <2>1 DEF EnrolmentsInv, AdmissionsKept, Admits
<1>8. EnrolmentJobs'
  <2>1. LedgerGrows
    BY DEF LedgerGrows
  <2>2. TransfersKept(enrolment', {r})
    BY <1>1, <1>3 DEF TransfersKept
  <2>. QED  BY <1>1, <2>1, <2>2, EnrolmentJobsKept
<1>. QED  BY <1>5, <1>6, <1>7, <1>8 DEF EnrolmentsInv

LEMMA EditsKeep ==
    ASSUME EnrolmentsInv, NEW r \in Request, Update(r) \/ Leave(r) \/ Reactivate(r)
    PROVE  EnrolmentsInv'
<1> DEFINE j == tx[r]
           e == j.row
           old == enrolment[e]
<1>0. /\ e \in DOMAIN enrolment
      /\ j.op \in {"update", "leave", "reactivate"}
  BY WritesTakes DEF Update, Leave, Reactivate
<1>1. /\ old \in Row /\ history[e] \in SUBSET Interval /\ FollowsStatus(history[e], old.active)
      /\ j.day \in Day /\ (j.op = "update" => j.course \in Course)
  BY <1>0 DEF EnrolmentsInv, EnrolmentRows, HistoriesKept, EnrolmentJobs, EnrolmentJob
<1>2. CASE Update(r)
  <2> DEFINE row == [old EXCEPT !.course = j.course, !.start = j.day]
             H == StartMoved(history[e], j.start, j.day)
  <2>1. /\ Writes(r, "update") /\ UNCHANGED <<ledger, attended>>
        /\ enrolment' = [enrolment EXCEPT ![e] = row]
        /\ history' = [history EXCEPT ![e] = H]
    BY <1>2 DEF Update
  <2>2. j.op = "update"
    BY <2>1, WritesTakes
  <2>3. row \in Row /\ row.txn = old.txn /\ row.active = old.active
    BY <1>1, <2>2 DEF Row
  <2>4. H \in SUBSET Interval /\ FollowsStatus(H, row.active)
    BY <1>1, <2>3, StartMovedFollows
  <2> HIDE DEF row, H
  <2>. QED  BY <2>1, <2>3, <2>4, OneEnrolmentKeeps
<1>3. CASE Leave(r)
  <2> DEFINE row == [old EXCEPT !.active = FALSE]
             H == Synced(history[e], FALSE, j.day)
  <2>1. /\ Writes(r, "leave") /\ UNCHANGED <<ledger, attended>>
        /\ enrolment' = [enrolment EXCEPT ![e] = row]
        /\ history' = [history EXCEPT ![e] = H]
    BY <1>3 DEF Leave
  <2>2. row \in Row /\ row.txn = old.txn /\ row.active = FALSE
    BY <1>1 DEF Row
  <2>3. H \in SUBSET Interval /\ FollowsStatus(H, row.active)
    BY <1>1, <2>2, SyncedFollows
  <2> HIDE DEF row, H
  <2>. QED  BY <2>1, <2>2, <2>3, OneEnrolmentKeeps
<1>4. CASE Reactivate(r)
  <2> DEFINE row == [old EXCEPT !.active = TRUE]
             H == Synced(history[e], TRUE, j.day)
  <2>1. /\ Writes(r, "reactivate") /\ UNCHANGED <<ledger, attended>>
        /\ enrolment' = [enrolment EXCEPT ![e] = row]
        /\ history' = [history EXCEPT ![e] = H]
    BY <1>4 DEF Reactivate
  <2>2. row \in Row /\ row.txn = old.txn /\ row.active = TRUE
    BY <1>1 DEF Row
  <2>3. H \in SUBSET Interval /\ FollowsStatus(H, row.active)
    BY <1>1, <2>2, SyncedFollows
  <2> HIDE DEF row, H
  <2>. QED  BY <2>1, <2>2, <2>3, OneEnrolmentKeeps
<1>. QED  BY <1>2, <1>3, <1>4

\* A function that has one more member
LEMMA OnIs ==
    ASSUME NEW S, NEW T, NEW f \in [S -> T], NEW x, NEW v \in T
    PROVE  /\ On(f, x, v) \in [S \cup {x} -> T] /\ DOMAIN On(f, x, v) = S \cup {x}
           /\ On(f, x, v)[x] = v /\ \A y \in S : y # x => On(f, x, v)[y] = f[y]
  BY DEF On

LEMMA FreshIsFree ==
    ASSUME EnrolmentsInv, NEW e \in Fresh
    PROVE  /\ e \in 1 .. MaxEnrolments /\ e \notin DOMAIN enrolment
           /\ \A t \in DOMAIN ledger : ledger[t].enrolment # e
           /\ \A r \in Request : IsOpen(r) => tx[r].row # e
  BY DEF Fresh, Free

\* The rows and histories to which an enrolment is added
BaseKept(base, H, R) ==
    /\ base \in [DOMAIN enrolment -> Row] /\ H \in [DOMAIN enrolment -> SUBSET Interval]
    /\ \A d \in DOMAIN enrolment : /\ FollowsStatus(H[d], base[d].active)
                                  /\ base[d].txn = enrolment[d].txn
    /\ TransfersKept(base, R)

Admission(course, day, origin) ==
    [course |-> course, start |-> day, active |-> TRUE, txn |-> 0, origin |-> origin]

LEMMA NewEnrolmentKeeps ==
    ASSUME EnrolmentsInv, NEW e \in Fresh, NEW course \in Course, NEW day \in Day,
           NEW origin \in 0 .. MaxEnrolments, NEW R \in SUBSET Request,
           NEW base, NEW H, BaseKept(base, H, R),
           enrolment' = On(base, e, Admission(course, day, origin)),
           history' = On(H, e, {[active |-> TRUE, from |-> day, to |-> Open]}),
           attended' = On(attended, e, 0), UNCHANGED ledger,
           Committed(R)
    PROVE  EnrolmentsInv'
<1> DEFINE row == Admission(course, day, origin)
           K == {[active |-> TRUE, from |-> day, to |-> Open]}
           D == DOMAIN enrolment
<1>0. /\ D \subseteq 1 .. MaxEnrolments /\ attended \in [D -> 0 .. Today]
      /\ \E n \in 0 .. MaxTransactions : ledger \in [1 .. n -> Receipt]
      /\ 0 \in 0 .. Today
  BY EnrolmentsAssumption DEF EnrolmentsInv, EnrolmentRows
<1>1. e \in 1 .. MaxEnrolments /\ e \notin D /\ \A r \in Request : IsOpen(r) => tx[r].row # e
  BY FreshIsFree
<1>2. row \in Row /\ row.active = TRUE /\ row.txn = 0
  <2>1. 0 \in 0 .. MaxTransactions
    BY EnrolmentsAssumption
  <2>. QED  BY <2>1 DEF Row, Admission
<1>3. K \in SUBSET Interval /\ FollowsStatus(K, TRUE)
  BY FirstInterval
<1>4. enrolment' = On(base, e, row) /\ history' = On(H, e, K) /\ attended' = On(attended, e, 0)
  OBVIOUS
<1> HIDE DEF row, K, D
<1>5. /\ base \in [D -> Row] /\ H \in [D -> SUBSET Interval]
      /\ \A d \in D : FollowsStatus(H[d], base[d].active) /\ base[d].txn = enrolment[d].txn
  BY DEF D, BaseKept
<1>6. /\ enrolment' \in [D \cup {e} -> Row] /\ DOMAIN enrolment' = D \cup {e}
      /\ enrolment'[e] = row /\ \A d \in D : enrolment'[d] = base[d]
  <2>1. base \in [D -> Row] /\ row \in Row
    BY <1>2, <1>5
  <2>2. /\ On(base, e, row) \in [D \cup {e} -> Row] /\ DOMAIN On(base, e, row) = D \cup {e}
        /\ On(base, e, row)[e] = row /\ \A d \in D : d # e => On(base, e, row)[d] = base[d]
    BY <2>1 DEF On
  <2>3. enrolment' = On(base, e, row)
    BY <1>4
  <2>. QED  BY <1>1, <2>2, <2>3
<1>7. /\ history' \in [D \cup {e} -> SUBSET Interval]
      /\ history'[e] = K /\ \A d \in D : history'[d] = H[d]
  <2>1. H \in [D -> SUBSET Interval] /\ K \in SUBSET Interval
    BY <1>3, <1>5
  <2> DEFINE T == SUBSET Interval
  <2> HIDE DEF T
  <2>2. H \in [D -> T] /\ K \in T
    BY <2>1 DEF T
  <2>3. /\ On(H, e, K) \in [D \cup {e} -> T]
        /\ On(H, e, K)[e] = K /\ \A d \in D : d # e => On(H, e, K)[d] = H[d]
    BY <2>2 DEF On
  <2>4. history' = On(H, e, K)
    BY <1>4
  <2>. QED  BY <1>1, <2>3, <2>4 DEF T
<1>8. attended' \in [D \cup {e} -> 0 .. Today]
  <2> DEFINE T == 0 .. Today
  <2> HIDE DEF T
  <2>1. attended \in [D -> T] /\ 0 \in T
    BY <1>0 DEF T
  <2>2. On(attended, e, 0) \in [D \cup {e} -> T]
    BY <2>1, OnIs
  <2>3. attended' = On(attended, e, 0)
    BY <1>4
  <2>. QED  BY <2>2, <2>3 DEF T
<1>9. EnrolmentRows'
  BY <1>0, <1>1, <1>6, <1>7, <1>8 DEF EnrolmentRows
<1>10. HistoriesKept'
  BY <1>2, <1>3, <1>5, <1>6, <1>7 DEF HistoriesKept
<1>11. AdmissionsKept'
  <2>. SUFFICES ASSUME NEW d \in DOMAIN enrolment', enrolment'[d].txn # 0
                PROVE  Admits(ledger', enrolment'[d].txn, d)
    BY DEF AdmissionsKept
  <2>1. d \in D /\ enrolment'[d].txn = enrolment[d].txn
    BY <1>2, <1>5, <1>6
  <2>. QED  BY <2>1 DEF EnrolmentsInv, AdmissionsKept, Admits, D
<1>12. EnrolmentJobs'
  <2>1. LedgerGrows
    BY DEF LedgerGrows
  <2>2. TransfersKept(enrolment', R)
    BY <1>1, <1>6 DEF IsOpen, D, TransfersKept, BaseKept
  <2>. QED  BY <2>1, <2>2, EnrolmentJobsKept
<1>. QED  BY <1>9, <1>10, <1>11, <1>12 DEF EnrolmentsInv

LEMMA CreateKeeps ==
    ASSUME EnrolmentsInv, NEW e, NEW course \in Course, NEW day \in Day, Create(e, course, day)
    PROVE  EnrolmentsInv' /\ enrolment'[e].origin = 0 /\ DOMAIN enrolment' = DOMAIN enrolment \cup {e}
<1>1. /\ e \in Fresh /\ UNCHANGED ledger /\ attended' = On(attended, e, 0)
      /\ enrolment' = On(enrolment, e, Admission(course, day, 0))
      /\ history' = On(history, e, {[active |-> TRUE, from |-> day, to |-> Open]})
      /\ End(Overtaken({"delete student"}))
  BY DEF Create, Insert, Admission
<1>2. /\ enrolment \in [DOMAIN enrolment -> Row] /\ history \in [DOMAIN enrolment -> SUBSET Interval]
      /\ \A d \in DOMAIN enrolment : FollowsStatus(history[d], enrolment[d].active)
      /\ 0 \in 0 .. MaxEnrolments
  BY EnrolmentsAssumption DEF EnrolmentsInv, EnrolmentRows, HistoriesKept
<1>3. Committed({})
  BY <1>1 DEF Committed, End
<1>4. BaseKept(enrolment, history, {})
  BY <1>2 DEF BaseKept, TransfersKept
<1>5. EnrolmentsInv'
  <2> DEFINE R == {}
  <2>1. R \in SUBSET Request /\ Committed(R)
        /\ BaseKept(enrolment, history, R)
    BY <1>3, <1>4
  <2> HIDE DEF R
  <2>. QED  BY <1>1, <1>2, <2>1, NewEnrolmentKeeps
<1>. QED  BY <1>1, <1>5 DEF On, Admission

\* Its origin is left in the same step, and was active until then.
LEMMA TransferKeeps ==
    ASSUME EnrolmentsInv, NEW r \in Request, NEW e, Transfer(r, e)
    PROVE  /\ EnrolmentsInv' /\ DOMAIN enrolment' = DOMAIN enrolment \cup {e}
           /\ e \notin DOMAIN enrolment
           /\ enrolment'[e].origin \in DOMAIN enrolment
           /\ enrolment[enrolment'[e].origin].active /\ ~enrolment'[enrolment'[e].origin].active
           /\ \A d \in DOMAIN enrolment : enrolment'[d].course = enrolment[d].course
<1> DEFINE j == tx[r]
           o == j.row
           left == [enrolment[o] EXCEPT !.active = FALSE]
           base == [enrolment EXCEPT ![o] = left]
           H == [history EXCEPT ![o] = Synced(history[o], FALSE, j.day)]
           new == Admission(j.course, j.day, o)
<1>1. /\ e \in Fresh /\ UNCHANGED ledger /\ attended' = On(attended, e, 0)
      /\ enrolment' = On(base, e, new)
      /\ history' = On(H, e, {[active |-> TRUE, from |-> j.day, to |-> Open]})
      /\ Writes(r, "transfer")
  BY DEF Transfer, Insert, Admission
<1>2. /\ j.op = "transfer" /\ o \in DOMAIN enrolment
      /\ Committed({r})
      /\ \A k \in Request \ {r} : driver = "postgres" /\ tx[k].op = "transfer" => tx[k].row # o
  BY <1>1, WritesTakes
<1>3. /\ j.day \in Day /\ j.course \in Course /\ o \in 1 .. MaxEnrolments /\ enrolment[o].active
  BY <1>2 DEF EnrolmentsInv, EnrolmentJobs, EnrolmentJob
<1>4. /\ enrolment \in [DOMAIN enrolment -> Row] /\ history \in [DOMAIN enrolment -> SUBSET Interval]
      /\ \A d \in DOMAIN enrolment : FollowsStatus(history[d], enrolment[d].active)
  BY DEF EnrolmentsInv, EnrolmentRows, HistoriesKept
<1>5. /\ left \in Row /\ left.active = FALSE /\ left.txn = enrolment[o].txn
      /\ left.course = enrolment[o].course
  <2>1. enrolment[o] \in Row
    BY <1>2, <1>4
  <2>. QED  BY <2>1 DEF Row
<1>6. /\ Synced(history[o], FALSE, j.day) \in SUBSET Interval
      /\ FollowsStatus(Synced(history[o], FALSE, j.day), FALSE)
  BY <1>2, <1>3, <1>4, SyncedFollows
<1> HIDE DEF left, o
<1>7. /\ base \in [DOMAIN enrolment -> Row] /\ base[o] = left
      /\ \A d \in DOMAIN enrolment : d # o => base[d] = enrolment[d]
  BY <1>2, <1>4, <1>5
<1>8. /\ H \in [DOMAIN enrolment -> SUBSET Interval]
      /\ H[o] = Synced(history[o], FALSE, j.day)
      /\ \A d \in DOMAIN enrolment : d # o => H[d] = history[d]
  BY <1>2, <1>4, <1>6
<1> HIDE DEF base, H
<1>9. \A d \in DOMAIN enrolment : /\ FollowsStatus(H[d], base[d].active)
                                  /\ base[d].txn = enrolment[d].txn
                                  /\ base[d].course = enrolment[d].course
  BY <1>4, <1>5, <1>6, <1>7, <1>8
<1>10. BaseKept(base, H, {r})
  <2>1. TransfersKept(base, {r})
    BY <1>2, <1>7 DEF TransfersKept
  <2>. QED  BY <1>7, <1>8, <1>9, <2>1 DEF BaseKept
<1>11. EnrolmentsInv'
  <2>1. o \in 0 .. MaxEnrolments
    BY <1>3
  <2>. QED  BY <1>1, <1>2, <1>3, <1>10, <2>1, NewEnrolmentKeeps
<1>12. e \notin DOMAIN enrolment
  BY <1>1, FreshIsFree
<1>13. /\ DOMAIN enrolment' = DOMAIN enrolment \cup {e} /\ enrolment'[e] = new
       /\ \A d \in DOMAIN enrolment : enrolment'[d] = base[d]
  <2>1. DOMAIN base = DOMAIN enrolment
    BY <1>7
  <2>. QED  BY <1>1, <1>12, <2>1 DEF On
<1>14. new.origin = o
  BY DEF Admission
<1>. QED  BY <1>2, <1>3, <1>5, <1>7, <1>9, <1>11, <1>12, <1>13, <1>14

LEMMA DeleteKeeps ==
    ASSUME EnrolmentsInv, NEW r \in Request, Delete(r)
    PROVE  /\ EnrolmentsInv' /\ tx[r].op = "delete" /\ DOMAIN enrolment' = DOMAIN enrolment \ {tx[r].row}
           /\ \A d \in DOMAIN enrolment' : enrolment'[d] = enrolment[d]
<1> DEFINE e == tx[r].row
           D == DOMAIN enrolment
<1>1. /\ tx[r].op = "delete" /\ e \in D /\ Committed({r}) /\ UNCHANGED ledger
      /\ enrolment' = Without(enrolment, e) /\ history' = Without(history, e)
      /\ attended' = Without(attended, e)
  BY WritesTakes DEF Delete
<1>2. /\ D \subseteq 1 .. MaxEnrolments /\ enrolment \in [D -> Row]
      /\ history \in [D -> SUBSET Interval] /\ attended \in [D -> 0 .. Today]
  BY DEF EnrolmentsInv, EnrolmentRows
<1> HIDE DEF e, D
<1>3. /\ enrolment' \in [D \ {e} -> Row] /\ DOMAIN enrolment' = D \ {e}
      /\ \A d \in D \ {e} : enrolment'[d] = enrolment[d]
  BY <1>1, <1>2 DEF Without
<1>4. /\ history' \in [D \ {e} -> SUBSET Interval] /\ \A d \in D \ {e} : history'[d] = history[d]
  BY <1>1, <1>2 DEF Without
<1>5. attended' \in [D \ {e} -> 0 .. Today]
  BY <1>1, <1>2 DEF Without
<1>6. EnrolmentRows'
  BY <1>1, <1>2, <1>3, <1>4, <1>5 DEF EnrolmentsInv, EnrolmentRows
<1>7. HistoriesKept'
  BY <1>3, <1>4 DEF EnrolmentsInv, HistoriesKept, D
<1>8. AdmissionsKept'
  BY <1>1, <1>3 DEF EnrolmentsInv, AdmissionsKept, Admits, D
<1>9. EnrolmentJobs'
  <2>1. LedgerGrows
    BY <1>1 DEF LedgerGrows
  <2>2. TransfersKept(enrolment', {r})
    BY <1>3 DEF TransfersKept, D
  <2>. QED  BY <1>1, <2>1, <2>2, EnrolmentJobsKept
<1>. QED  BY <1>1, <1>3, <1>6, <1>7, <1>8, <1>9 DEF EnrolmentsInv, e, D

LEMMA DeleteStudentKeeps ==
    ASSUME EnrolmentsInv, NEW r \in Request, DeleteStudent(r)
    PROVE  EnrolmentsInv' /\ tx[r].op = "delete student" /\ DOMAIN enrolment' = {}
<1>1. /\ tx[r].op = "delete student" /\ Committed({r}) /\ UNCHANGED ledger
      /\ enrolment' = [e \in {} |-> 0] /\ history' = [e \in {} |-> {}] /\ attended' = [e \in {} |-> 0]
  BY DEF DeleteStudent, Finish, Committed
<1>2. /\ DOMAIN enrolment' = {} /\ enrolment' \in [{} -> Row] /\ history' \in [{} -> SUBSET Interval]
      /\ attended' \in [{} -> 0 .. Today]
  BY <1>1
<1>3. EnrolmentRows'
  BY <1>1, <1>2 DEF EnrolmentsInv, EnrolmentRows
<1>4. EnrolmentJobs'
  <2>1. LedgerGrows
    BY <1>1 DEF LedgerGrows
  <2>2. TransfersKept(enrolment', {r})
    BY <1>2 DEF TransfersKept
  <2>. QED  BY <1>1, <2>1, <2>2, EnrolmentJobsKept
<1>. QED  BY <1>1, <1>2, <1>3, <1>4 DEF EnrolmentsInv, HistoriesKept, AdmissionsKept

\* No enrolment is added, deleted, moved to another programme or taken up.
CoursesStay ==
    /\ DOMAIN enrolment' = DOMAIN enrolment
    /\ \A d \in DOMAIN enrolment : enrolment'[d].course = enrolment[d].course

\* Enrolments are written in what they were paid with, and receipts.
LEMMA PaymentsKeep ==
    ASSUME EnrolmentsInv, NEW R \in SUBSET Request, Committed(R),
           enrolment' \in [DOMAIN enrolment -> Row],
           \A d \in DOMAIN enrolment : /\ enrolment'[d].active = enrolment[d].active
                                       /\ enrolment'[d].course = enrolment[d].course,
           \E n \in 0 .. MaxTransactions : ledger' \in [1 .. n -> Receipt],
           LedgerGrows, AdmissionsKept', UNCHANGED <<history, attended>>
    PROVE  EnrolmentsInv' /\ CoursesStay
<1>1. DOMAIN enrolment' = DOMAIN enrolment
  OBVIOUS
<1>2. EnrolmentRows'
  BY <1>1 DEF EnrolmentsInv, EnrolmentRows
<1>3. HistoriesKept'
  BY <1>1 DEF EnrolmentsInv, HistoriesKept
<1>4. TransfersKept(enrolment', R)
  BY <1>1 DEF TransfersKept
<1>5. EnrolmentJobs'
  BY <1>4, EnrolmentJobsKept
<1>. QED  BY <1>1, <1>2, <1>3, <1>5 DEF EnrolmentsInv, CoursesStay

LEMMA VoidReceipt ==
    ASSUME EnrolmentsInv, NEW t \in DOMAIN ledger,
           ledger' = [ledger EXCEPT ![t].voided = TRUE]
    PROVE  /\ \E n \in 0 .. MaxTransactions : ledger' \in [1 .. n -> Receipt]
           /\ LedgerGrows /\ DOMAIN ledger' = DOMAIN ledger
           /\ \A s \in DOMAIN ledger : s # t => ledger'[s] = ledger[s]
<1>1. PICK n \in 0 .. MaxTransactions : ledger \in [1 .. n -> Receipt]
  BY DEF EnrolmentsInv, EnrolmentRows
<1>2. DOMAIN ledger = 1 .. n /\ ledger[t] \in Receipt
  BY <1>1
<1> DEFINE row == [ledger[t] EXCEPT !.voided = TRUE]
<1>3. row \in Receipt /\ row.enrolment = ledger[t].enrolment /\ row.kind = ledger[t].kind
  BY <1>2 DEF Receipt
<1>4. ledger' = [ledger EXCEPT ![t] = row]
  OBVIOUS
<1> HIDE DEF row
<1>5. ledger' \in [1 .. n -> Receipt] /\ ledger'[t] = row /\ \A s \in 1 .. n : s # t => ledger'[s] = ledger[s]
  BY <1>1, <1>2, <1>3, <1>4
<1>. QED  BY <1>2, <1>3, <1>5 DEF LedgerGrows

LEMMA VoidKeeps ==
    ASSUME EnrolmentsInv, NEW r \in Request, Void(r)
    PROVE  EnrolmentsInv' /\ CoursesStay
<1> DEFINE e == tx[r].row
           t == tx[r].txn
           row == [enrolment[e] EXCEPT !.txn = 0]
<1>1. /\ tx[r].op = "void" /\ e \in DOMAIN enrolment /\ Committed({r})
      /\ enrolment' = [enrolment EXCEPT ![e] = row] /\ ledger' = [ledger EXCEPT ![t].voided = TRUE]
      /\ UNCHANGED <<history, attended>>
  BY WritesTakes DEF Void, Voided
<1>2. t \in DOMAIN ledger /\ ledger[t].enrolment = e
  BY <1>1 DEF EnrolmentsInv, EnrolmentJobs, EnrolmentJob
<1>3. enrolment \in [DOMAIN enrolment -> Row] /\ enrolment[e] \in Row
  BY <1>1 DEF EnrolmentsInv, EnrolmentRows
<1>4. /\ row \in Row /\ row.txn = 0 /\ row.active = enrolment[e].active
      /\ row.course = enrolment[e].course
  <2>1. 0 \in 0 .. MaxTransactions
    BY EnrolmentsAssumption
  <2>. QED  BY <1>3, <2>1 DEF Row
<1> HIDE DEF e, t, row
<1>5. /\ enrolment' \in [DOMAIN enrolment -> Row] /\ enrolment'[e] = row
      /\ \A d \in DOMAIN enrolment : d # e => enrolment'[d] = enrolment[d]
  BY <1>1, <1>3, <1>4
<1>6. /\ \E n \in 0 .. MaxTransactions : ledger' \in [1 .. n -> Receipt]
      /\ LedgerGrows /\ DOMAIN ledger' = DOMAIN ledger
      /\ \A s \in DOMAIN ledger : s # t => ledger'[s] = ledger[s]
  BY <1>1, <1>2, VoidReceipt
<1>7. AdmissionsKept'
  <2>. SUFFICES ASSUME NEW d \in DOMAIN enrolment, enrolment'[d].txn # 0
                PROVE  Admits(ledger', enrolment'[d].txn, d)
    BY <1>5 DEF AdmissionsKept
  <2>1. d # e /\ enrolment'[d].txn = enrolment[d].txn
    BY <1>4, <1>5
  <2>2. Admits(ledger, enrolment[d].txn, d)
    BY <2>1 DEF EnrolmentsInv, AdmissionsKept
  <2>3. enrolment[d].txn # t
    BY <1>2, <2>1, <2>2 DEF Admits
  <2>. QED  BY <1>6, <2>1, <2>2, <2>3 DEF Admits
<1>8. \A d \in DOMAIN enrolment : /\ enrolment'[d].active = enrolment[d].active
                                  /\ enrolment'[d].course = enrolment[d].course
  BY <1>4, <1>5
<1>. QED  BY <1>1, <1>5, <1>6, <1>7, <1>8, PaymentsKeep

LEMMA VoidMonthKeeps ==
    ASSUME EnrolmentsInv, NEW r \in Request, VoidMonth(r)
    PROVE  EnrolmentsInv' /\ CoursesStay
<1> DEFINE t == tx[r].txn
<1>1. /\ tx[r].op = "void month" /\ Committed({r}) /\ ledger' = [ledger EXCEPT ![t].voided = TRUE]
      /\ UNCHANGED <<enrolment, history, attended>>
  BY DEF VoidMonth, Finish, Committed
<1>2. t \in DOMAIN ledger /\ ledger[t].kind = "monthly"
  BY <1>1 DEF EnrolmentsInv, EnrolmentJobs, EnrolmentJob
<1> HIDE DEF t
<1>3. /\ \E n \in 0 .. MaxTransactions : ledger' \in [1 .. n -> Receipt]
      /\ LedgerGrows /\ DOMAIN ledger' = DOMAIN ledger
      /\ \A s \in DOMAIN ledger : s # t => ledger'[s] = ledger[s]
  BY <1>1, <1>2, VoidReceipt
<1>4. AdmissionsKept'
  <2>. SUFFICES ASSUME NEW d \in DOMAIN enrolment, enrolment[d].txn # 0
                PROVE  Admits(ledger', enrolment[d].txn, d)
    BY <1>1 DEF AdmissionsKept
  <2>1. Admits(ledger, enrolment[d].txn, d)
    BY DEF EnrolmentsInv, AdmissionsKept
  <2>2. enrolment[d].txn # t
    BY <1>2, <2>1 DEF Admits
  <2>. QED  BY <1>3, <2>1, <2>2 DEF Admits
<1>5. enrolment' \in [DOMAIN enrolment -> Row]
  BY <1>1 DEF EnrolmentsInv, EnrolmentRows
<1>. QED  BY <1>1, <1>3, <1>4, <1>5, PaymentsKeep

LEMMA NewReceipt ==
    ASSUME EnrolmentsInv, NEW t \in FreshTransaction, NEW v \in Receipt, ledger' = On(ledger, t, v)
    PROVE  /\ \E n \in 0 .. MaxTransactions : ledger' \in [1 .. n -> Receipt]
           /\ LedgerGrows /\ DOMAIN ledger' = DOMAIN ledger \cup {t} /\ ledger'[t] = v
           /\ \A s \in DOMAIN ledger : s # t /\ ledger'[s] = ledger[s]
<1>1. PICK n \in 0 .. MaxTransactions : /\ ledger \in [1 .. n -> Receipt] /\ DOMAIN ledger = 1 .. n
                                        /\ FreshTransaction = {n + 1} \cap (1 .. MaxTransactions)
  BY LedgerIs
<1>2. /\ n \in Nat /\ MaxTransactions \in Nat /\ t = n + 1 /\ n + 1 \in 0 .. MaxTransactions
      /\ (1 .. n) \cup {t} = 1 .. n + 1 /\ t \notin 1 .. n
  BY <1>1, EnrolmentsAssumption
<1>3. /\ On(ledger, t, v) \in [(1 .. n) \cup {t} -> Receipt]
      /\ On(ledger, t, v)[t] = v /\ \A s \in 1 .. n : s # t => On(ledger, t, v)[s] = ledger[s]
  BY <1>1 DEF On
<1>4. /\ ledger' \in [1 .. n + 1 -> Receipt] /\ DOMAIN ledger' = DOMAIN ledger \cup {t}
  BY <1>1, <1>2, <1>3
<1>5. \A s \in DOMAIN ledger : s # t /\ ledger'[s] = ledger[s]
  BY <1>1, <1>2, <1>3
<1>. QED  BY <1>2, <1>3, <1>4, <1>5 DEF LedgerGrows

LEMMA CollectAdmissionKeeps ==
    ASSUME EnrolmentsInv, NEW e \in DOMAIN enrolment, NEW t, CollectAdmission(e, t)
    PROVE  EnrolmentsInv' /\ CoursesStay
<1> DEFINE row == [enrolment[e] EXCEPT !.txn = t]
           v == [enrolment |-> e, kind |-> "admission", voided |-> FALSE]
           R == {}
<1>1. /\ t \in FreshTransaction /\ ledger' = On(ledger, t, v)
      /\ enrolment' = [enrolment EXCEPT ![e] = row] /\ UNCHANGED <<history, attended>>
      /\ Committed(R)
  BY DEF CollectAdmission, Committed
<1>2. /\ enrolment \in [DOMAIN enrolment -> Row] /\ enrolment[e] \in Row /\ e \in 1 .. MaxEnrolments
  BY DEF EnrolmentsInv, EnrolmentRows
<1>3. v \in Receipt
  BY <1>2 DEF Receipt
<1>4. row \in Row /\ row.txn = t /\ row.active = enrolment[e].active /\ row.course = enrolment[e].course
  <2>1. t \in 0 .. MaxTransactions
    BY <1>1, EnrolmentsAssumption DEF FreshTransaction
  <2>. QED  BY <1>2, <2>1 DEF Row
<1>5. R \in SUBSET Request
  OBVIOUS
<1>0. v = [enrolment |-> e, kind |-> "admission", voided |-> FALSE]
  OBVIOUS
<1> HIDE DEF row, v, R
<1>6. /\ enrolment' \in [DOMAIN enrolment -> Row] /\ enrolment'[e] = row
      /\ \A d \in DOMAIN enrolment : d # e => enrolment'[d] = enrolment[d]
  BY <1>1, <1>2, <1>4
<1>7. /\ \E n \in 0 .. MaxTransactions : ledger' \in [1 .. n -> Receipt]
      /\ LedgerGrows /\ DOMAIN ledger' = DOMAIN ledger \cup {t} /\ ledger'[t] = v
      /\ \A s \in DOMAIN ledger : s # t /\ ledger'[s] = ledger[s]
  BY <1>1, <1>3, NewReceipt
<1>8. AdmissionsKept'
  <2>. SUFFICES ASSUME NEW d \in DOMAIN enrolment, enrolment'[d].txn # 0
                PROVE  Admits(ledger', enrolment'[d].txn, d)
    BY <1>6 DEF AdmissionsKept
  <2>1. CASE d = e
    BY <1>0, <1>4, <1>6, <1>7, <2>1 DEF Admits
  <2>2. CASE d # e
    <3>1. enrolment'[d] = enrolment[d] /\ Admits(ledger, enrolment[d].txn, d)
      BY <1>6, <2>2 DEF EnrolmentsInv, AdmissionsKept
    <3>. QED  BY <1>7, <3>1 DEF Admits
  <2>. QED  BY <2>1, <2>2
<1>9. \A d \in DOMAIN enrolment : /\ enrolment'[d].active = enrolment[d].active
                                  /\ enrolment'[d].course = enrolment[d].course
  BY <1>4, <1>6
<1>. QED  BY <1>1, <1>5, <1>6, <1>7, <1>8, <1>9, PaymentsKeep

LEMMA CollectMonthKeeps ==
    ASSUME EnrolmentsInv, NEW e \in DOMAIN enrolment, NEW t, CollectMonth(e, t)
    PROVE  EnrolmentsInv' /\ CoursesStay
<1> DEFINE v == [enrolment |-> e, kind |-> "monthly", voided |-> FALSE]
           R == {}
<1>1. /\ t \in FreshTransaction /\ ledger' = On(ledger, t, v)
      /\ UNCHANGED <<enrolment, history, attended>> /\ Committed(R)
  BY DEF CollectMonth, Committed
<1>2. enrolment \in [DOMAIN enrolment -> Row] /\ e \in 1 .. MaxEnrolments
  BY DEF EnrolmentsInv, EnrolmentRows
<1>3. v \in Receipt
  BY <1>2 DEF Receipt
<1>4. R \in SUBSET Request
  OBVIOUS
<1> HIDE DEF v, R
<1>5. /\ \E n \in 0 .. MaxTransactions : ledger' \in [1 .. n -> Receipt]
      /\ LedgerGrows /\ DOMAIN ledger' = DOMAIN ledger \cup {t}
      /\ \A s \in DOMAIN ledger : s # t /\ ledger'[s] = ledger[s]
  BY <1>1, <1>3, NewReceipt
<1>6. AdmissionsKept'
  BY <1>1, <1>5 DEF EnrolmentsInv, AdmissionsKept, Admits
<1>7. enrolment' \in [DOMAIN enrolment -> Row]
  BY <1>1, <1>2
<1>. QED  BY <1>1, <1>4, <1>5, <1>6, <1>7, PaymentsKeep

LEMMA AttendKeeps ==
    ASSUME EnrolmentsInv, NEW e \in DOMAIN enrolment, NEW day \in AttendanceDays, Attend(e, day)
    PROVE  EnrolmentsInv' /\ CoursesStay
<1> DEFINE R == {}
<1>1. /\ attended' = [attended EXCEPT ![e] = day] /\ UNCHANGED <<enrolment, history, ledger>>
      /\ Committed(R) /\ R \in SUBSET Request
  BY DEF Attend, Committed
<1> HIDE DEF R
<1>2. day \in 0 .. Today /\ attended \in [DOMAIN enrolment -> 0 .. Today]
  BY EnrolmentsAssumption DEF EnrolmentsInv, EnrolmentRows
<1>3. attended' \in [DOMAIN enrolment -> 0 .. Today]
  BY <1>1, <1>2
<1>4. EnrolmentRows'
  BY <1>1, <1>3 DEF EnrolmentsInv, EnrolmentRows
<1>5. HistoriesKept' /\ AdmissionsKept'
  BY <1>1 DEF EnrolmentsInv, HistoriesKept, AdmissionsKept, Admits
<1>6. LedgerGrows /\ TransfersKept(enrolment', R)
  BY <1>1 DEF LedgerGrows, TransfersKept
<1>7. EnrolmentJobs'
  BY <1>1, <1>6, EnrolmentJobsKept
<1>. QED  BY <1>1, <1>4, <1>5, <1>7 DEF EnrolmentsInv, CoursesStay

LEMMA EnrolmentsQuiet ==
    ASSUME EnrolmentsInv,
           UNCHANGED <<driver, tx, enrolments>> \/ \E r \in Request : GiveUp(r) /\ UNCHANGED enrolments
    PROVE  EnrolmentsInv' /\ UNCHANGED enrolments
<1>1. UNCHANGED <<enrolment, history, ledger, attended>> /\ UNCHANGED driver
  BY DEF GiveUp, End, enrolments
<1>2. DOMAIN tx' = Request /\ \A k \in Request : tx'[k] = Idle \/ tx'[k] = tx[k]
  BY DEF EnrolmentsInv, EnrolmentJobs, GiveUp, End
<1>3. ASSUME NEW k \in Request PROVE EnrolmentJob(k)'
  <2>1. CASE tx'[k] = Idle
    <3>1. tx'[k].op = "idle"
      BY <2>1 DEF Idle
    <3>. QED  BY <3>1 DEF EnrolmentJob, UnpaidStill
  <2>2. CASE tx'[k] = tx[k]
    <3>1. EnrolmentJob(k)
      BY DEF EnrolmentsInv, EnrolmentJobs
    <3>. QED  BY <1>1, <2>2, <3>1 DEF EnrolmentJob, UnpaidStill
  <2>. QED  BY <1>2, <2>1, <2>2
<1>4. EnrolmentRows' /\ HistoriesKept' /\ AdmissionsKept'
  BY <1>1 DEF EnrolmentsInv, EnrolmentRows, HistoriesKept, AdmissionsKept, Admits
<1>. QED  BY <1>1, <1>2, <1>3, <1>4 DEF EnrolmentsInv, EnrolmentJobs, enrolments

\* What a step makes of the enrolments: it leaves their programmes alone, or is
\* one of the five that do not.
EnrolmentsChange ==
    \/ CoursesStay
    \/ \E e \in 1 .. MaxEnrolments, course \in Course, day \in Day : Create(e, course, day)
    \/ \E r \in Request : Update(r) \/ Delete(r) \/ DeleteStudent(r) \/ \E e : Transfer(r, e)

LEMMA EnrolmentsInvKept ==
    EnrolmentsInv /\ [EnrolmentsStep]_<<driver, tx, enrolments>> => EnrolmentsInv'
<1> SUFFICES ASSUME EnrolmentsInv, [EnrolmentsStep]_<<driver, tx, enrolments>> PROVE EnrolmentsInv'
  OBVIOUS
<1>1. CASE UNCHANGED <<driver, tx, enrolments>> \/ \E r \in Request : GiveUp(r) /\ UNCHANGED enrolments
  BY <1>1, EnrolmentsQuiet
<1>2. ASSUME NEW r \in Request, NEW e \in DOMAIN enrolment,
             \/ \E day \in Day : LookToLeave(r, e, day) \/ LookToReactivate(r, e, day)
             \/ \E course \in Course, day \in Day :
                   LookToUpdate(r, e, course, day) \/ LookToTransfer(r, e, course, day)
             \/ LookToDelete(r, e) \/ LookToVoid(r, e)
      PROVE  EnrolmentsInv'
  BY <1>2, EnrolmentLooksKeep
<1>3. ASSUME NEW r \in Request, NEW e \in DOMAIN enrolment, LookToVoidForStudent(r, e)
      PROVE  EnrolmentsInv'
  BY <1>3, EnrolmentLooksKeep DEF LookToVoidForStudent
<1>4. ASSUME NEW r \in Request,
             LookToDeleteStudent(r) \/ \E t \in DOMAIN ledger : LookToVoidMonth(r, t)
      PROVE  EnrolmentsInv'
  BY <1>4, OtherLooksKeep
<1>5. ASSUME NEW r \in Request, Update(r) \/ Leave(r) \/ Reactivate(r)
      PROVE  EnrolmentsInv'
  BY <1>5, EditsKeep
<1>6. ASSUME NEW r \in Request, Delete(r) \/ DeleteStudent(r) PROVE EnrolmentsInv'
  BY <1>6, DeleteKeeps, DeleteStudentKeeps
<1>7. ASSUME NEW r \in Request, Void(r) \/ VoidMonth(r) PROVE EnrolmentsInv'
  BY <1>7, VoidKeeps, VoidMonthKeeps
<1>8. ASSUME NEW r \in Request, NEW e \in 1 .. MaxEnrolments, Transfer(r, e) PROVE EnrolmentsInv'
  BY <1>8, TransferKeeps
<1>9. ASSUME NEW e \in 1 .. MaxEnrolments, NEW course \in Course, NEW day \in Day,
             Create(e, course, day)
      PROVE  EnrolmentsInv'
  BY <1>9, CreateKeeps
<1>10. ASSUME NEW e \in DOMAIN enrolment,
              \E t \in 1 .. MaxTransactions : CollectAdmission(e, t) \/ CollectMonth(e, t)
       PROVE  EnrolmentsInv'
  BY <1>10, CollectAdmissionKeeps, CollectMonthKeeps
<1>11. ASSUME NEW e \in DOMAIN enrolment, NEW day \in AttendanceDays, Attend(e, day)
       PROVE  EnrolmentsInv'
  BY <1>11, AttendKeeps
<1>. QED
  BY <1>1, <1>2, <1>3, <1>4, <1>5, <1>6, <1>7, <1>8, <1>9, <1>10, <1>11
     DEF EnrolmentsStep, EnrolmentsNext

LEMMA EnrolmentsInvHolds == EnrolmentsSpec => []EnrolmentsInv
<1>. QED  BY EnrolmentsInitHolds, EnrolmentsInvKept, PTL DEF EnrolmentsSpec

LEMMA EnrolmentsInvTyped == EnrolmentsInv => EnrolmentsTypeOK
<1>. SUFFICES ASSUME EnrolmentsInv PROVE EnrolmentsTypeOK
  OBVIOUS
<1>1. PICK n \in 0 .. MaxTransactions : ledger \in [1 .. n -> Receipt]
  BY DEF EnrolmentsInv, EnrolmentRows
<1>2. DOMAIN ledger \subseteq 1 .. MaxTransactions /\ ledger \in [DOMAIN ledger -> Receipt]
  BY <1>1, EnrolmentsAssumption
<1>. QED  BY <1>2 DEF EnrolmentsInv, EnrolmentRows, EnrolmentsTypeOK

\* Enrolments, their histories and receipts have their types: every history and
\* every attendance is that of an enrolment there is, and receipts are numbered
\* without a gap.
THEOREM EnrolmentsTyped == EnrolmentsSpec => []EnrolmentsTypeOK
  BY EnrolmentsInvTyped, EnrolmentsInvHolds, PTL

\* On both drivers an enrolment has one open interval of its history, with the
\* status it has itself, and none that ends before it begins; and the transaction
\* it says paid its admission did, and is not void.  However edits, transfers,
\* leaving, returning, collecting and voiding interleave.
THEOREM EnrolmentsAgreeAlways == EnrolmentsSpec => []EnrolmentsAgree
<1>1. EnrolmentsInv => EnrolmentsAgree
  <2>. SUFFICES ASSUME EnrolmentsInv PROVE EnrolmentsAgree
    OBVIOUS
  <2>1. HistoryFollowsStatus
    <3>. SUFFICES ASSUME NEW e \in DOMAIN enrolment
                  PROVE  /\ \E h \in history[e] : h.to = Open /\ h.active = enrolment[e].active
                         /\ Cardinality({h \in history[e] : h.to = Open}) = 1
                         /\ \A h \in history[e] : h.from < h.to
      BY DEF HistoryFollowsStatus
    <3>1. /\ \A h \in history[e] : h.from < h.to
          /\ \E h \in history[e] : /\ h.to = Open /\ h.active = enrolment[e].active
                                   /\ \A g \in history[e] : g.to = Open => g = h
      BY DEF EnrolmentsInv, HistoriesKept, FollowsStatus
    <3>2. PICK h \in history[e] : /\ h.to = Open /\ h.active = enrolment[e].active
                                  /\ \A g \in history[e] : g.to = Open => g = h
      BY <3>1
    <3>3. {g \in history[e] : g.to = Open} = {h}
      BY <3>2
    <3>4. Cardinality({h}) = 1
      BY FS_Singleton
    <3>. QED  BY <3>1, <3>2, <3>3, <3>4
  <2>2. AdmissionAgrees
    BY DEF EnrolmentsInv, AdmissionsKept, Admits, AdmissionAgrees
  <2>. QED  BY <2>1, <2>2 DEF EnrolmentsAgree
<1>. QED  BY <1>1, EnrolmentsInvHolds, PTL

\* What a step does to the enrolments: it leaves them to their programmes, or
\* is one of the five that do not.
LEMMA EnrolmentSteps ==
    ASSUME EnrolmentsInv, [EnrolmentsStep]_<<driver, tx, enrolments>>
    PROVE  EnrolmentsChange
<1>0. UNCHANGED <<enrolment, history, ledger, attended>> => CoursesStay
  BY DEF CoursesStay
<1>1. CASE UNCHANGED <<driver, tx, enrolments>> \/ \E r \in Request : GiveUp(r) /\ UNCHANGED enrolments
  BY <1>0, <1>1 DEF enrolments, EnrolmentsChange
<1>2. ASSUME NEW r \in Request, NEW j, Starts(r, j) PROVE EnrolmentsChange
  BY <1>0, <1>2 DEF Starts, enrolments, EnrolmentsChange
<1>3. ASSUME NEW r \in Request, Leave(r) \/ Reactivate(r) PROVE EnrolmentsChange
  <2>1. \A e : enrolment' = [enrolment EXCEPT ![e].active = TRUE]
               \/ enrolment' = [enrolment EXCEPT ![e].active = FALSE] => CoursesStay
    <3>. SUFFICES ASSUME NEW e, NEW a \in BOOLEAN, enrolment' = [enrolment EXCEPT ![e].active = a]
                  PROVE  CoursesStay
      OBVIOUS
    <3>1. enrolment \in [DOMAIN enrolment -> Row] /\ \A d \in DOMAIN enrolment : enrolment[d] \in Row
      BY DEF EnrolmentsInv, EnrolmentRows
    <3>2. \A d \in DOMAIN enrolment : [enrolment[d] EXCEPT !.active = a].course = enrolment[d].course
      BY <3>1 DEF Row
    <3>. QED  BY <3>1, <3>2 DEF CoursesStay
  <2>. QED  BY <1>3, <2>1 DEF Leave, Reactivate, EnrolmentsChange
<1>4. ASSUME NEW r \in Request, Void(r) \/ VoidMonth(r) PROVE EnrolmentsChange
  BY <1>4, VoidKeeps, VoidMonthKeeps DEF EnrolmentsChange
<1>5. ASSUME NEW e \in DOMAIN enrolment,
             \E t \in 1 .. MaxTransactions : CollectAdmission(e, t) \/ CollectMonth(e, t)
      PROVE  EnrolmentsChange
  BY <1>5, CollectAdmissionKeeps, CollectMonthKeeps DEF EnrolmentsChange
<1>6. ASSUME NEW e \in DOMAIN enrolment, NEW day \in AttendanceDays, Attend(e, day)
      PROVE  EnrolmentsChange
  BY <1>6, AttendKeeps DEF EnrolmentsChange
<1>7. CASE \E r \in Request, e \in DOMAIN enrolment :
              \/ \E day \in Day : LookToLeave(r, e, day) \/ LookToReactivate(r, e, day)
              \/ \E course \in Course, day \in Day :
                    LookToUpdate(r, e, course, day) \/ LookToTransfer(r, e, course, day)
              \/ LookToDelete(r, e) \/ LookToVoid(r, e) \/ LookToVoidForStudent(r, e)
  BY <1>2, <1>7 DEF LookToLeave, LookToReactivate, LookToUpdate, LookToTransfer, LookToDelete,
                    LookToVoid, LookToVoidForStudent
<1>8. CASE \E r \in Request : LookToDeleteStudent(r) \/ \E t \in DOMAIN ledger : LookToVoidMonth(r, t)
  BY <1>2, <1>8 DEF LookToDeleteStudent, LookToVoidMonth
<1>9. CASE \E r \in Request : Update(r) \/ Delete(r) \/ DeleteStudent(r)
                               \/ \E e \in 1 .. MaxEnrolments : Transfer(r, e)
  BY <1>9 DEF EnrolmentsChange
<1>10. ASSUME NEW e \in 1 .. MaxEnrolments, NEW course \in Course, NEW day \in Day,
              Create(e, course, day)
       PROVE  EnrolmentsChange
  BY <1>10 DEF EnrolmentsChange
<1>. QED
  BY <1>1, <1>3, <1>4, <1>5, <1>6, <1>7, <1>8, <1>9, <1>10 DEF EnrolmentsStep, EnrolmentsNext

\* Whatever else happens to it, the enrolment that a transfer leaves was active
\* until then and is not any more: two transfers do not leave from one enrolment.
THEOREM TransfersClose == EnrolmentsSpec => TransferClosesItsOrigin
<1> DEFINE Closes == \A e \in DOMAIN enrolment' \ DOMAIN enrolment :
                        enrolment'[e].origin # 0 =>
                            enrolment[enrolment'[e].origin].active
                            /\ ~enrolment'[enrolment'[e].origin].active
<1>1. ASSUME EnrolmentsInv, [EnrolmentsStep]_<<driver, tx, enrolments>> PROVE Closes
  <2>1. CASE CoursesStay
    BY <2>1 DEF CoursesStay
  <2>2. ASSUME NEW e, NEW course \in Course, NEW day \in Day, Create(e, course, day) PROVE Closes
    BY <1>1, <2>2, CreateKeeps
  <2>3. ASSUME NEW r \in Request, NEW e, Transfer(r, e) PROVE Closes
    BY <1>1, <2>3, TransferKeeps
  <2>4. ASSUME NEW r \in Request, Delete(r) \/ DeleteStudent(r) PROVE Closes
    BY <1>1, <2>4, DeleteKeeps, DeleteStudentKeeps
  <2>5. ASSUME NEW r \in Request, Update(r) PROVE Closes
    <3>1. DOMAIN enrolment' = DOMAIN enrolment
      BY <2>5 DEF Update
    <3>. QED  BY <3>1
  <2>. QED  BY <1>1, <2>1, <2>2, <2>3, <2>4, <2>5, EnrolmentSteps DEF EnrolmentsChange
<1>2. EnrolmentsInv /\ [EnrolmentsStep]_<<driver, tx, enrolments>> => [Closes]_<<tx, enrolments>>
  BY <1>1
<1>. QED  BY <1>2, EnrolmentsInvHolds, PTL DEF EnrolmentsSpec, TransferClosesItsOrigin

\* On SQLite an enrolment that anybody has paid for is not deleted nor moved to
\* another programme, as long as nobody deletes the student.
THEOREM MoneyStays == EnrolmentsSpec => MoneyKeepsItsEnrolment
<1> DEFINE Stays == driver = "sqlite" /\ (\A r \in Request : tx[r].op # "delete student") =>
                       \A t \in DOMAIN ledger :
                           LET e == ledger[t].enrolment
                           IN  e \in DOMAIN enrolment =>
                                   e \in DOMAIN enrolment' /\ enrolment'[e].course = enrolment[e].course
<1>1. ASSUME EnrolmentsInv, [EnrolmentsStep]_<<driver, tx, enrolments>> PROVE Stays
  <2>1. CASE CoursesStay
    BY <2>1 DEF CoursesStay
  <2>2. ASSUME NEW e, NEW course \in Course, NEW day \in Day, Create(e, course, day) PROVE Stays
    <3>1. e \notin DOMAIN enrolment
      BY <1>1, <2>2, FreshIsFree DEF Create, Insert
    <3>2. \A d \in DOMAIN enrolment : d \in DOMAIN enrolment' /\ enrolment'[d] = enrolment[d]
      BY <2>2, <3>1 DEF Create, On
    <3>. QED  BY <3>2
  <2>3. ASSUME NEW r \in Request, NEW e, Transfer(r, e) PROVE Stays
    BY <1>1, <2>3, TransferKeeps
  <2>4. ASSUME NEW r \in Request, DeleteStudent(r) PROVE Stays
    BY <1>1, <2>4, DeleteStudentKeeps
  <2>5. ASSUME NEW r \in Request, Delete(r) PROVE Stays
    <3>1. /\ tx[r].op = "delete" /\ DOMAIN enrolment' = DOMAIN enrolment \ {tx[r].row}
          /\ \A d \in DOMAIN enrolment' : enrolment'[d] = enrolment[d]
      BY <1>1, <2>5, DeleteKeeps
    <3>2. driver = "sqlite" => \A t \in DOMAIN ledger : ledger[t].enrolment # tx[r].row
      BY <1>1, <3>1 DEF EnrolmentsInv, EnrolmentJobs, EnrolmentJob, UnpaidStill
    <3>. QED  BY <3>1, <3>2
  <2>6. ASSUME NEW r \in Request, Update(r) PROVE Stays
    <3> DEFINE o == tx[r].row
    <3>1. /\ tx[r].op = "update" /\ o \in DOMAIN enrolment
          /\ enrolment' = [enrolment EXCEPT ![o].course = tx[r].course, ![o].start = tx[r].day]
      BY <2>6, WritesTakes DEF Update
    <3>2. enrolment \in [DOMAIN enrolment -> Row] /\ enrolment[o] \in Row
      BY <1>1, <3>1 DEF EnrolmentsInv, EnrolmentRows
    <3>3. driver = "sqlite" /\ tx[r].course # enrolment[o].course =>
              \A t \in DOMAIN ledger : ledger[t].enrolment # o
      BY <1>1, <3>1 DEF EnrolmentsInv, EnrolmentJobs, EnrolmentJob, UnpaidStill
    <3> DEFINE row == [enrolment[o] EXCEPT !.course = tx[r].course, !.start = tx[r].day]
    <3>4. row.course = tx[r].course
      BY <3>2 DEF Row
    <3>5. enrolment' = [enrolment EXCEPT ![o] = row]
      BY <3>1
    <3> HIDE DEF o, row
    <3>6. /\ DOMAIN enrolment' = DOMAIN enrolment /\ enrolment'[o] = row
          /\ \A d \in DOMAIN enrolment : d # o => enrolment'[d] = enrolment[d]
      BY <3>1, <3>5 DEF o
    <3>. QED  BY <3>3, <3>4, <3>6
  <2>. QED  BY <1>1, <2>1, <2>2, <2>3, <2>4, <2>5, <2>6, EnrolmentSteps DEF EnrolmentsChange
<1>2. EnrolmentsInv /\ [EnrolmentsStep]_<<driver, tx, enrolments>> => [Stays]_<<tx, enrolments>>
  BY <1>1
<1>. QED  BY <1>2, EnrolmentsInvHolds, PTL DEF EnrolmentsSpec, MoneyKeepsItsEnrolment
----------------------------------------------------------------------------
(***************************************************************************)
(* Groups (TrainingGroups).  The intervals of a history have begun, are not *)
(* empty and do not meet another of the same person; the open ones are the *)
(* members, and the staff when no request is between replacing the rows and *)
(* replacing the history.                                                  *)
(***************************************************************************)

GroupsSpec == InitRequests /\ GroupsInit /\ [][GroupsNext]_<<driver, tx, groups>>

Person == Student \cup Staff

OpenRow == [who : Person, role : Role \cup {"member"}]

Occurrence == [session : timetable \cup {0}, day : GroupDay, adhoc : BOOLEAN]

\* The intervals of a history have begun, are not empty, and do not meet another
\* of the same person.
Apart(H) == \A g, h \in H : (g # h /\ g.who = h.who) => g.to <= h.from \/ h.to <= g.from

WellKept(H) ==
    /\ H \subseteq HistoryRow
    /\ \A h \in H : h.from < h.to /\ h.from <= today /\ (h.to = StillOpen \/ h.to <= today)
    /\ Apart(H)

\* Who is said to have been in the group on the day d
RolesOn(H, p, d) == {h.role : h \in {h \in H : h.who = p /\ Covers(h, d)}}

OneRoleEach(W) == \A v, w \in W : v.who = w.who => v = w

Nobody ==
    /\ members = {} /\ memberHistory = {}
    /\ assigned = [u \in {} |-> 0] /\ coaches = {} /\ staffHistory = {}
    /\ timetable = {} /\ sheets = {} /\ occurrences = <<>>
    /\ cut = FALSE

GroupRows ==
    /\ today \in GroupDay /\ enrolled \subseteq Student /\ group \in BOOLEAN
    /\ members \subseteq Student /\ assigned \in Assignments /\ coaches \subseteq Staff
    /\ timetable \subseteq 1 .. MaxSessions /\ sessions \in 0 .. MaxSessions
    /\ sheets \subseteq [session : timetable, day : GroupDay]
    /\ occurrences \in Seq(Occurrence) /\ Len(occurrences) <= MaxOccurrences
    /\ cut \in BOOLEAN
    /\ ~group => Nobody

Histories ==
    /\ WellKept(memberHistory) /\ WellKept(staffHistory)
    /\ OpenRows(memberHistory) = WantedMembers(members)

StaffShown == OpenRows(staffHistory) = Wanted(assigned) /\ coaches = Coaching(assigned)

GroupJob(j) ==
    /\ j.op \in {"create", "update"} => j.members \subseteq Student /\ j.staff \in Assignments
    /\ j.op = "staff" => j.staff \in Assignments
    /\ j.op = "record" => j.day \in GroupDay /\ j.adhoc \in BOOLEAN /\ j.id \in Nat

GroupJobs == DOMAIN tx = Request /\ \A r \in Request : GroupJob(tx[r])

GroupsInv ==
    /\ GroupRows /\ Histories /\ GroupJobs
    /\ (~cut /\ \A r \in Request : tx[r].op # "staff") => StaffShown
----------------------------------------------------------------------------
(* Histories *)

LEMMA Days == LastToday \in Nat \ {0} /\ StillOpen = LastToday + 1 /\ GroupDay = 1 .. LastToday
  BY GroupsAssumption DEF StillOpen, GroupDay

LEMMA OpenRowsOnce ==
    ASSUME today \in GroupDay, NEW H, WellKept(H) PROVE OneRoleEach(OpenRows(H))
<1>. SUFFICES ASSUME NEW g \in H, NEW h \in H, g.to = StillOpen, h.to = StillOpen, g.who = h.who
              PROVE  g.role = h.role
  BY DEF OpenRows, OneRoleEach
<1>1. /\ g.from \in GroupDay /\ h.from \in GroupDay
      /\ g # h => g.to <= h.from \/ h.to <= g.from
  BY DEF WellKept, Apart, HistoryRow
<1>. QED  BY <1>1, Days

LEMMA HistoryIsWritten ==
    ASSUME today \in GroupDay, NEW H, WellKept(H),
           NEW W, W \subseteq OpenRow, OneRoleEach(W)
    PROVE  /\ WellKept(HistoryOf(H, W))
           /\ OpenRows(HistoryOf(H, W)) = W
           /\ \A p : \A d \in 1 .. today - 1 : RolesOn(HistoryOf(H, W), p, d) = RolesOn(H, p, d)
<1> DEFINE stale == {h \in H : h.to = StillOpen /\ [who |-> h.who, role |-> h.role] \notin W}
           kept  == Kept(stale)
           fresh == {[who |-> w.who, role |-> w.role, from |-> today, to |-> StillOpen] :
                        w \in W \ OpenRows(H)}
           new   == HistoryOf(H, W)
<1>0. today \in Int /\ today < StillOpen /\ today <= today
  BY Days
<1>1. new = (H \ stale) \cup kept \cup fresh
  BY DEF HistoryOf
<1>2. \A h \in H : /\ h \in HistoryRow /\ h.from < h.to /\ h.from <= today
                   /\ h.to = StillOpen \/ h.to <= today
                   /\ h.from \in GroupDay /\ h.to \in GroupDay \cup {StillOpen}
                   /\ h.who \in Person /\ h.role \in Role \cup {"member"}
                   /\ h = [who |-> h.who, role |-> h.role, from |-> h.from, to |-> h.to]
  BY DEF WellKept, HistoryRow, Person
<1>3. \A k \in kept : \E h \in stale : /\ h.from < today
                                       /\ k = [who |-> h.who, role |-> h.role,
                                               from |-> h.from, to |-> today]
  BY <1>2 DEF Kept
<1>4. \A h \in stale : h.from < today =>
          [who |-> h.who, role |-> h.role, from |-> h.from, to |-> today] \in kept
  <2>. SUFFICES ASSUME NEW h \in stale, h.from < today
                PROVE  [who |-> h.who, role |-> h.role, from |-> h.from, to |-> today] \in kept
    OBVIOUS
  <2>1. [h EXCEPT !.to = today] \in kept
    BY DEF Kept
  <2>. QED  BY <2>1, <1>2
<1>5. \A f \in fresh : \E w \in W : /\ w \notin OpenRows(H) /\ w \in OpenRow
                                    /\ f = [who |-> w.who, role |-> w.role,
                                            from |-> today, to |-> StillOpen]
  OBVIOUS
<1> HIDE DEF kept, fresh, new
<1>6. \A w \in W : w = [who |-> w.who, role |-> w.role] /\ w.who \in Person
                   /\ w.role \in Role \cup {"member"}
  BY DEF OpenRow
<1>7. OpenRows(new) = W
  <2>1. ASSUME NEW w \in W PROVE w \in OpenRows(new)
    <3>1. CASE w \in OpenRows(H)
      <4>1. PICK h \in H : h.to = StillOpen /\ w = [who |-> h.who, role |-> h.role]
        BY <3>1 DEF OpenRows
      <4>2. h \notin stale
        BY <4>1
      <4>3. h \in new
        BY <4>2, <1>1
      <4>. QED  BY <4>1, <4>3 DEF OpenRows
    <3>2. CASE w \notin OpenRows(H)
      <4> DEFINE f == [who |-> w.who, role |-> w.role, from |-> today, to |-> StillOpen]
      <4>1. f \in fresh
        BY <3>2 DEF fresh
      <4>2. f \in new /\ f.to = StillOpen /\ w = [who |-> f.who, role |-> f.role]
        BY <4>1, <1>1, <1>6
      <4>. QED  BY <4>2 DEF OpenRows
    <3>. QED  BY <3>1, <3>2
  <2>2. ASSUME NEW h \in new, h.to = StillOpen PROVE [who |-> h.who, role |-> h.role] \in W
    <3>1. CASE h \in H \ stale
      BY <3>1, <2>2
    <3>2. h \notin kept
      <4>1. CASE h \in kept
        <5>1. PICK g \in stale : h = [who |-> g.who, role |-> g.role, from |-> g.from, to |-> today]
          BY <4>1, <1>3
        <5>2. h.to = today
          BY <5>1
        <5>. QED  BY <5>2, <2>2, <1>0
      <4>. QED  BY <4>1
    <3>3. CASE h \in fresh
      BY <3>3, <1>5, <1>6
    <3>. QED  BY <3>1, <3>2, <3>3, <1>1
  <2>3. OpenRows(new) \subseteq W
    BY <2>2 DEF OpenRows
  <2>. QED  BY <2>1, <2>3
<1>8. \A h \in new : /\ h \in HistoryRow /\ h.from < h.to /\ h.from <= today
                     /\ h.to = StillOpen \/ h.to <= today
  <2>. SUFFICES ASSUME NEW h \in new
                PROVE  /\ h \in HistoryRow /\ h.from < h.to /\ h.from <= today
                       /\ h.to = StillOpen \/ h.to <= today
    OBVIOUS
  <2>1. CASE h \in H
    BY <2>1, <1>2
  <2>2. CASE h \in kept
    <3>1. PICK g \in stale : g.from < today /\ h = [who |-> g.who, role |-> g.role,
                                                    from |-> g.from, to |-> today]
      BY <2>2, <1>3
    <3>. QED  BY <3>1, <1>2, Days DEF HistoryRow, Person
  <2>3. CASE h \in fresh
    <3>1. PICK w \in W : h = [who |-> w.who, role |-> w.role, from |-> today, to |-> StillOpen]
      BY <2>3, <1>5
    <3>. QED  BY <3>1, <1>6, Days DEF HistoryRow, Person
  <2>. QED  BY <2>1, <2>2, <2>3, <1>1
<1>9. Apart(new)
  <2> DEFINE Cross(g, h) == ~(g.to <= h.from \/ h.to <= g.from)
  <2>1. \A g, h \in H : g # h /\ g.who = h.who => ~Cross(g, h)
    BY DEF WellKept, Apart
  <2>2. \A k \in kept : \E h \in stale : /\ k.who = h.who /\ k.from = h.from /\ k.to = today
                                         /\ k.role = h.role /\ h.to = StillOpen
    BY <1>3
  <2>3. \A f \in fresh : f.from = today /\ f.to = StillOpen /\
                         \E w \in W : w \notin OpenRows(H) /\ f.who = w.who /\ f.role = w.role
    BY <1>5
  <2>4. \A g, h \in H \ stale : g # h /\ g.who = h.who => ~Cross(g, h)
    BY <2>1
  <2>5. \A g, h \in kept : g # h /\ g.who = h.who => ~Cross(g, h)
    <3>. SUFFICES ASSUME NEW g \in kept, NEW h \in kept, g # h, g.who = h.who PROVE ~Cross(g, h)
      OBVIOUS
    <3>1. PICK c \in stale : /\ c.from < today /\ c.to = StillOpen
                             /\ g = [who |-> c.who, role |-> c.role, from |-> c.from, to |-> today]
      BY <1>3
    <3>2. PICK d \in stale : /\ d.from < today /\ d.to = StillOpen
                             /\ h = [who |-> d.who, role |-> d.role, from |-> d.from, to |-> today]
      BY <1>3
    <3>3. c # d /\ c.who = d.who
      BY <3>1, <3>2
    <3>4. ~Cross(c, d) /\ c.from \in GroupDay /\ d.from \in GroupDay
      BY <3>3, <2>1, <1>2
    <3>. QED  BY <3>1, <3>2, <3>4, Days
  <2>6. \A g \in H \ stale, h \in kept : g.who = h.who => ~Cross(g, h) /\ ~Cross(h, g)
    <3>. SUFFICES ASSUME NEW g \in H \ stale, NEW h \in kept, g.who = h.who
                  PROVE ~Cross(g, h) /\ ~Cross(h, g)
      OBVIOUS
    <3>1. PICK d \in stale : /\ h.who = d.who /\ h.from = d.from /\ h.to = today /\ d.to = StillOpen
      BY <2>2
    <3>2. ~Cross(g, d) /\ g.from \in GroupDay /\ d.from \in GroupDay
          /\ g.to \in GroupDay \cup {StillOpen} /\ (g.to = StillOpen \/ g.to <= today)
      BY <3>1, <2>1, <1>2
    <3>. QED  BY <3>1, <3>2, Days
  <2>7. \A g \in H \ stale, h \in fresh : g.who = h.who => ~Cross(g, h) /\ ~Cross(h, g)
    <3>. SUFFICES ASSUME NEW g \in H \ stale, NEW h \in fresh, g.who = h.who
                  PROVE ~Cross(g, h) /\ ~Cross(h, g)
      OBVIOUS
    <3>1. PICK w \in W : w \notin OpenRows(H) /\ h.who = w.who
      BY <2>3
    <3>2. g.to # StillOpen
      <4>. SUFFICES ASSUME g.to = StillOpen PROVE FALSE
        OBVIOUS
      <4>1. [who |-> g.who, role |-> g.role] \in W /\ [who |-> g.who, role |-> g.role] \in OpenRows(H)
        BY DEF OpenRows
      <4>2. w = [who |-> g.who, role |-> g.role]
        BY <4>1, <3>1 DEF OneRoleEach
      <4>. QED  BY <4>1, <4>2, <3>1
    <3>3. g.to <= today
      BY <3>2, <1>2
    <3>. QED  BY <3>3, <2>3
  <2>8. \A g \in kept, h \in fresh : ~Cross(g, h) /\ ~Cross(h, g)
    <3>1. \A g \in kept, h \in fresh : g.to = today /\ h.from = today
      BY <2>2, <2>3
    <3>. QED  BY <3>1, <1>0
  <2>9. \A g, h \in fresh : g # h => g.who # h.who
    <3>. SUFFICES ASSUME NEW g \in fresh, NEW h \in fresh, g.who = h.who PROVE g = h
      OBVIOUS
    <3>1. PICK v \in W : g = [who |-> v.who, role |-> v.role, from |-> today, to |-> StillOpen]
      BY <1>5
    <3>2. PICK w \in W : h = [who |-> w.who, role |-> w.role, from |-> today, to |-> StillOpen]
      BY <1>5
    <3>3. v = w
      BY <3>1, <3>2 DEF OneRoleEach
    <3>. QED  BY <3>1, <3>2, <3>3
  <2> HIDE DEF Cross
  <2>10. \A g, h \in new : g # h /\ g.who = h.who => ~Cross(g, h)
    BY <1>1, <2>4, <2>5, <2>6, <2>7, <2>8, <2>9
  <2>. QED  BY <2>10 DEF Apart, Cross
<1>10. \A p : \A d \in 1 .. today - 1 : RolesOn(new, p, d) = RolesOn(H, p, d)
  <2>. SUFFICES ASSUME NEW p, NEW d \in 1 .. today - 1
                PROVE  RolesOn(new, p, d) = RolesOn(H, p, d)
    OBVIOUS
  <2>0. d \in Nat /\ d < today /\ today \in Nat
    BY Days
  <2>1. ASSUME NEW h \in new, h.who = p, Covers(h, d)
        PROVE  \E g \in H : g.who = p /\ Covers(g, d) /\ g.role = h.role
    <3>1. CASE h \in H
      BY <3>1, <2>1
    <3>2. CASE h \in kept
      <4>1. PICK g \in stale : g.from < today /\ h = [who |-> g.who, role |-> g.role,
                                                      from |-> g.from, to |-> today]
        BY <3>2, <1>3
      <4>2. g \in H /\ g.to = StillOpen
        OBVIOUS
      <4>. QED  BY <4>1, <4>2, <2>0, <2>1, Days DEF Covers
    <3>3. h \notin fresh
      <4>1. CASE h \in fresh
        <5>1. h.from = today
          BY <4>1, <1>5
        <5>. QED  BY <5>1, <2>0, <2>1 DEF Covers
      <4>. QED  BY <4>1
    <3>. QED  BY <3>1, <3>2, <3>3, <1>1
  <2>2. ASSUME NEW g \in H, g.who = p, Covers(g, d)
        PROVE  \E h \in new : h.who = p /\ Covers(h, d) /\ h.role = g.role
    <3>1. CASE g \notin stale
      BY <3>1, <2>2, <1>1
    <3>2. CASE g \in stale
      <4> DEFINE h == [who |-> g.who, role |-> g.role, from |-> g.from, to |-> today]
      <4>1. g.from < today /\ g.from \in GroupDay
        BY <2>0, <2>2, <1>2, Days DEF Covers
      <4>2. h \in new
        BY <4>1, <3>2, <1>4, <1>1
      <4>3. h.who = p /\ Covers(h, d) /\ h.role = g.role
        BY <2>0, <2>2 DEF Covers
      <4>. QED  BY <4>2, <4>3
    <3>. QED  BY <3>1, <3>2
  <2>. QED  BY <2>1, <2>2 DEF RolesOn
<1>. QED  BY <1>7, <1>8, <1>9, <1>10 DEF WellKept, new

LEMMA WantedRows ==
    /\ \A S : S \subseteq Student => /\ WantedMembers(S) \subseteq OpenRow
                                     /\ OneRoleEach(WantedMembers(S))
    /\ \A a \in Assignments : Wanted(a) \subseteq OpenRow /\ OneRoleEach(Wanted(a))
                              /\ Coaching(a) \subseteq Staff
<1>1. ASSUME NEW S, S \subseteq Student
      PROVE  WantedMembers(S) \subseteq OpenRow /\ OneRoleEach(WantedMembers(S))
  BY <1>1 DEF WantedMembers, OpenRow, OneRoleEach, Person
<1>2. ASSUME NEW a \in Assignments
      PROVE  Wanted(a) \subseteq OpenRow /\ OneRoleEach(Wanted(a)) /\ Coaching(a) \subseteq Staff
  <2>1. PICK S \in SUBSET Staff : a \in [S -> Role]
    BY DEF Assignments
  <2>2. DOMAIN a \subseteq Staff /\ \A u \in DOMAIN a : a[u] \in Role
    BY <2>1
  <2>. QED  BY <2>2 DEF Wanted, OpenRow, OneRoleEach, Person, Coaching
<1>. QED  BY <1>1, <1>2

LEMMA NoRows ==
    /\ WellKept({}) /\ OpenRows({}) = {} /\ WantedMembers({}) = {}
    /\ [u \in {} |-> 0] \in Assignments
    /\ Wanted([u \in {} |-> 0]) = {} /\ Coaching([u \in {} |-> 0]) = {}
  BY DEF WellKept, Apart, OpenRows, WantedMembers, Assignments, Wanted, Coaching
----------------------------------------------------------------------------
(* Requests *)
LEMMA GroupsInitHolds == InitRequests /\ GroupsInit => GroupsInv
<1>. SUFFICES ASSUME InitRequests, GroupsInit PROVE GroupsInv
  OBVIOUS
<1>1. Nobody /\ today = 1 /\ group = FALSE /\ sessions = 0 /\ enrolled \subseteq Student
  BY DEF GroupsInit, Nobody
<1>2. today \in GroupDay /\ sessions \in 0 .. MaxSessions
  BY <1>1, GroupsAssumption, Days
<1>3. occurrences \in Seq(Occurrence) /\ Len(occurrences) <= MaxOccurrences
  BY <1>1, GroupsAssumption DEF Nobody
<1>4. GroupRows
  BY <1>1, <1>2, <1>3, NoRows DEF GroupRows, Nobody
<1>5. Histories /\ StaffShown
  BY <1>1, NoRows DEF Histories, StaffShown, Nobody
<1>6. GroupJobs
  BY DEF GroupJobs, GroupJob, InitRequests, Idle
<1>. QED  BY <1>4, <1>5, <1>6 DEF GroupsInv

\* One request goes on with j, or none; the others carry what they did.
LEMMA GroupJobsKept ==
    ASSUME GroupsInv, NEW r \in Request, NEW j, GroupJob(j), tx' = [tx EXCEPT ![r] = j]
    PROVE  GroupJobs' /\ tx'[r] = j /\ \A k \in Request \ {r} : tx'[k] = tx[k]
<1>1. DOMAIN tx = Request /\ \A k \in Request : GroupJob(tx[k])
  BY DEF GroupsInv, GroupJobs
<1>2. DOMAIN tx' = Request /\ tx'[r] = j /\ \A k \in Request \ {r} : tx'[k] = tx[k]
  BY <1>1
<1>3. \A k \in Request : GroupJob(tx'[k])
  BY <1>1, <1>2
<1>4. \A k \in Request : GroupJob(tx[k])'
  BY <1>3 DEF GroupJob
<1>. QED  BY <1>2, <1>4 DEF GroupJobs

LEMMA EndIs ==
    ASSUME GroupsInv, NEW r \in Request, End({r})
    PROVE  tx' = [tx EXCEPT ![r] = Idle]
  BY DEF GroupsInv, GroupJobs, End

LEMMA IdleGroupJob == GroupJob(Idle)
  BY DEF GroupJob, Idle
----------------------------------------------------------------------------
(* Steps *)

\* A request looks, stops, or fails, and the tables stay.
LEMMA GroupLooksKeep ==
    ASSUME GroupsInv, NEW r \in Request, NEW j, GroupJob(j), tx' = [tx EXCEPT ![r] = j],
           UNCHANGED <<today, group, people, events>>, cut' \in BOOLEAN,
           ~group => ~cut',
           (~cut' /\ \A k \in Request : tx'[k].op # "staff") =>
               ~group \/ (~cut /\ \A k \in Request : tx[k].op # "staff")
    PROVE  GroupsInv'
<1>1. GroupJobs'
  BY GroupJobsKept
<1>2. GroupRows'
  BY DEF GroupsInv, GroupRows, Nobody, people, events, Occurrence
<1>3. Histories'
  BY DEF GroupsInv, Histories, people, events, WellKept
<1>4. (~cut /\ \A k \in Request : tx[k].op # "staff")' => StaffShown'
  <2>1. ~group => StaffShown
    BY NoRows DEF GroupsInv, GroupRows, Nobody, StaffShown
  <2>. QED  BY <2>1 DEF GroupsInv, StaffShown, people
<1>. QED  BY <1>1, <1>2, <1>3, <1>4 DEF GroupsInv

LEMMA CheckFormKeeps ==
    ASSUME GroupsInv, NEW r \in Request, NEW S \in SUBSET Student, NEW a \in Assignments,
           CheckForm(r, S, a)
    PROVE  GroupsInv'
<1> DEFINE j == [op |-> IF group THEN "update" ELSE "create", members |-> S, staff |-> a]
<1>1. tx' = [tx EXCEPT ![r] = j] /\ tx[r].op = "idle" /\ UNCHANGED groups
  BY DEF CheckForm, Look, IsOpen
<1>2. GroupJob(j) /\ j.op # "staff"
  BY DEF GroupJob
<1> HIDE DEF j
<1>3. UNCHANGED <<today, group, people, events, cut>>
  BY <1>1 DEF groups
<1>4. tx'[r] = j /\ \A k \in Request \ {r} : tx'[k] = tx[k]
  BY <1>1, <1>2, GroupJobsKept
<1>. QED  BY <1>1, <1>2, <1>3, <1>4, GroupLooksKeep DEF GroupsInv, GroupRows, Nobody

LEMMA LookToRecordKeeps ==
    ASSUME GroupsInv, NEW r \in Request, NEW i \in 1 .. MaxOccurrences,
           NEW session \in 0 .. MaxSessions, NEW adhoc \in BOOLEAN,
           LookToRecord(r, i, session, adhoc)
    PROVE  GroupsInv'
<1> DEFINE j == [op |-> "record", id |-> i, day |-> today, session |-> session, adhoc |-> adhoc]
<1>1. tx' = [tx EXCEPT ![r] = j] /\ tx[r].op = "idle" /\ UNCHANGED groups
  BY DEF LookToRecord, Look, IsOpen
<1>2. GroupJob(j) /\ j.op # "staff"
  BY DEF GroupJob, GroupsInv, GroupRows
<1> HIDE DEF j
<1>3. UNCHANGED <<today, group, people, events, cut>>
  BY <1>1 DEF groups
<1>4. tx'[r] = j /\ \A k \in Request \ {r} : tx'[k] = tx[k]
  BY <1>1, <1>2, GroupJobsKept
<1>. QED  BY <1>1, <1>2, <1>3, <1>4, GroupLooksKeep DEF GroupsInv, GroupRows, Nobody

\* One that stops between its transactions leaves the group cut.
LEMMA StopKeeps ==
    ASSUME GroupsInv, NEW r \in Request, End({r}),
           UNCHANGED <<today, group, people, events>>, cut' \in BOOLEAN,
           ~group => ~cut', tx[r].op = "staff" /\ group => cut', cut /\ tx[r].op # "staff" => cut'
    PROVE  GroupsInv'
<1>1. tx' = [tx EXCEPT ![r] = Idle]
  BY EndIs
<1>2. tx'[r] = Idle /\ \A k \in Request \ {r} : tx'[k] = tx[k]
  BY <1>1, IdleGroupJob, GroupJobsKept
<1>3. tx'[r].op # "staff"
  BY <1>2 DEF Idle
<1>4. ASSUME ~cut', \A k \in Request : tx'[k].op # "staff"
      PROVE  ~group \/ (~cut /\ \A k \in Request : tx[k].op # "staff")
  BY <1>2, <1>4
<1>. QED  BY <1>1, <1>4, IdleGroupJob, GroupLooksKeep

LEMMA StopBetweenKeeps ==
    ASSUME GroupsInv, NEW r \in Request, StopBetween(r) PROVE GroupsInv'
<1>1. cut \in BOOLEAN /\ (~group => ~cut)
  BY DEF GroupsInv, GroupRows, Nobody
<1>. QED  BY <1>1, StopKeeps DEF StopBetween, GiveUp

\* Nobody is left in a group that is gone.
LEMMA GoneKeeps ==
    ASSUME GroupsInv, Gone, GroupJobs' PROVE GroupsInv'
<1>1. Nobody' /\ UNCHANGED <<today, enrolled, sessions>> /\ group' = FALSE
  BY DEF Gone, Nobody
<1>2. occurrences' \in Seq(Occurrence)' /\ Len(occurrences') <= MaxOccurrences
  BY <1>1, GroupsAssumption DEF Nobody
<1>3. GroupRows'
  BY <1>1, <1>2, NoRows DEF GroupRows, Nobody, GroupsInv
<1>4. Histories' /\ StaffShown'
  <2>1. WellKept({})'
    BY DEF WellKept, Apart
  <2>. QED  BY <1>1, <2>1, NoRows DEF Histories, StaffShown, Nobody
<1>. QED  BY <1>3, <1>4 DEF GroupsInv

LEMMA StaffFailsKeeps ==
    ASSUME GroupsInv, NEW r \in Request, StaffFails(r) PROVE GroupsInv'
<1>1. End({r}) /\ tx[r].op = "staff"
  BY DEF StaffFails
<1>2. CASE tx[r].new
  <2>1. tx' = [tx EXCEPT ![r] = Idle]
    BY <1>1, EndIs
  <2>. QED  BY <2>1, <1>2, GoneKeeps, GroupJobsKept, IdleGroupJob DEF StaffFails
<1>3. CASE ~tx[r].new
  <2>1. cut' = group /\ UNCHANGED <<today, group, people, events>> /\ group \in BOOLEAN
    BY <1>3 DEF StaffFails, GroupsInv, GroupRows
  <2>2. ~group => ~cut
    BY DEF GroupsInv, GroupRows, Nobody
  <2>. QED  BY <1>1, <2>1, <2>2, StopKeeps
<1>. QED  BY <1>2, <1>3

LEMMA DeleteGroupKeeps == ASSUME GroupsInv, DeleteGroup PROVE GroupsInv'
<1>1. GroupJobs'
  BY DEF DeleteGroup, GroupsInv, GroupJobs, GroupJob
<1>. QED  BY <1>1, GoneKeeps DEF DeleteGroup
\* A history is written: it is well kept, and the past stays.
PastKept(was, now, P) ==
    \A p \in P, d \in 1 .. today - 1 : RolesOn(now, p, d) = RolesOn(was, p, d)

LEMMA MembersWritten ==
    ASSUME GroupsInv, today' = today, NEW S, S \subseteq Student, members' = S,
           memberHistory' = HistoryOf(memberHistory, WantedMembers(S))
    PROVE  /\ WellKept(memberHistory)' /\ OpenRows(memberHistory)' = WantedMembers(members)'
           /\ PastKept(memberHistory, memberHistory', Person)
<1> DEFINE W == WantedMembers(S)
<1>1. W \subseteq OpenRow /\ OneRoleEach(W)
  BY WantedRows
<1>2. today \in GroupDay /\ WellKept(memberHistory)
  BY DEF GroupsInv, GroupRows, Histories
<1>3. members' = S /\ memberHistory' = HistoryOf(memberHistory, W) /\ WantedMembers(members)' = W
  OBVIOUS
<1> HIDE DEF W
<1>4. /\ WellKept(HistoryOf(memberHistory, W)) /\ OpenRows(HistoryOf(memberHistory, W)) = W
      /\ PastKept(memberHistory, memberHistory', Person)
  BY <1>1, <1>2, <1>3, HistoryIsWritten DEF PastKept
<1>. QED  BY <1>3, <1>4 DEF WellKept

LEMMA StaffWritten ==
    ASSUME GroupsInv, today' = today, NEW W, W \subseteq OpenRow, OneRoleEach(W),
           staffHistory' = HistoryOf(staffHistory, W)
    PROVE  /\ WellKept(staffHistory)' /\ OpenRows(staffHistory)' = W
           /\ PastKept(staffHistory, staffHistory', Person)
<1>2. today \in GroupDay /\ WellKept(staffHistory)
  BY DEF GroupsInv, GroupRows, Histories
<1>4. /\ WellKept(HistoryOf(staffHistory, W)) /\ OpenRows(HistoryOf(staffHistory, W)) = W
      /\ PastKept(staffHistory, staffHistory', Person)
  BY <1>2, HistoryIsWritten DEF PastKept
<1>. QED  BY <1>4 DEF WellKept

LEMMA CoachesTaken ==
    ASSUME GroupsInv, today' = today, staffHistory' = WithoutCoaches(staffHistory)
    PROVE  WellKept(staffHistory)' /\ PastKept(staffHistory, staffHistory', Person)
<1> DEFINE W == {w \in OpenRows(staffHistory) : w.role # "coach"}
<1>1. today \in GroupDay /\ WellKept(staffHistory)
  BY DEF GroupsInv, GroupRows, Histories
<1>2. OneRoleEach(OpenRows(staffHistory))
  BY <1>1, OpenRowsOnce
<1>3. OpenRows(staffHistory) \subseteq OpenRow
  BY <1>1 DEF OpenRows, OpenRow, WellKept, HistoryRow, Person
<1>4. W \subseteq OpenRow /\ OneRoleEach(W)
  BY <1>2, <1>3 DEF OneRoleEach
<1>5. staffHistory' = HistoryOf(staffHistory, W)
  BY DEF WithoutCoaches
<1>. QED  BY <1>4, <1>5, StaffWritten

LEMMA WriteGroupKeeps ==
    ASSUME GroupsInv, NEW r \in Request, tx[r].op \in {"create", "update"}, WriteGroup(r),
           group', sheets' = {}, group' \in BOOLEAN,
           occurrences' \in Seq(Occurrence'), Len(occurrences') <= MaxOccurrences
    PROVE  /\ GroupsInv'
           /\ PastKept(memberHistory, memberHistory', Person)
           /\ PastKept(staffHistory, staffHistory', Person)
<1>1. tx[r].members \subseteq Student /\ tx[r].staff \in Assignments
  BY DEF GroupsInv, GroupJobs, GroupJob
<1>2. /\ members' = tx[r].members /\ memberHistory' = HistoryOf(memberHistory, WantedMembers(tx[r].members))
      /\ coaches' = {} /\ staffHistory' = WithoutCoaches(staffHistory)
      /\ timetable' = {sessions + 1} /\ sessions' = sessions + 1 /\ sessions < MaxSessions
      /\ UNCHANGED <<today, cut, enrolled, assigned>>
  BY DEF WriteGroup
<1>3. /\ WellKept(memberHistory)' /\ OpenRows(memberHistory)' = WantedMembers(members)'
      /\ PastKept(memberHistory, memberHistory', Person)
  BY <1>1, <1>2, MembersWritten
<1>4. WellKept(staffHistory)' /\ PastKept(staffHistory, staffHistory', Person)
  BY <1>2, CoachesTaken
<1>5. GroupJobs' /\ tx'[r].op = "staff"
  <2> DEFINE j == [op |-> "staff", staff |-> tx[r].staff, new |-> ~group]
  <2>1. GroupJob(j) /\ tx' = [tx EXCEPT ![r] = j] /\ j.op = "staff"
    BY <1>1 DEF GroupJob, WriteGroup, CommitGroup
  <2> HIDE DEF j
  <2>. QED  BY <2>1, GroupJobsKept
<1>6. GroupRows'
  <2>1. sessions' \in 0 .. MaxSessions /\ timetable' \subseteq 1 .. MaxSessions
    BY <1>2, GroupsAssumption DEF GroupsInv, GroupRows
  <2>. QED  BY <2>1, <1>1, <1>2 DEF GroupsInv, GroupRows
<1>. QED  BY <1>3, <1>4, <1>5, <1>6 DEF GroupsInv, Histories

LEMMA CreateGroupKeeps ==
    ASSUME GroupsInv, NEW r \in Request, CreateGroup(r)
    PROVE  /\ GroupsInv'
           /\ PastKept(memberHistory, memberHistory', Person)
           /\ PastKept(staffHistory, staffHistory', Person)
<1>1. /\ tx[r].op = "create" /\ ~group /\ group' = TRUE /\ WriteGroup(r)
      /\ UNCHANGED <<sheets, occurrences>>
  BY DEF CreateGroup
<1>2. sheets = {} /\ occurrences = <<>>
  BY <1>1 DEF GroupsInv, GroupRows, Nobody
<1>3. sheets' = {} /\ occurrences' \in Seq(Occurrence') /\ Len(occurrences') <= MaxOccurrences
  BY <1>1, <1>2, GroupsAssumption
<1>. QED  BY <1>1, <1>3, WriteGroupKeeps

LEMMA UpdateGroupKeeps ==
    ASSUME GroupsInv, NEW r \in Request, UpdateGroup(r)
    PROVE  /\ GroupsInv'
           /\ PastKept(memberHistory, memberHistory', Person)
           /\ PastKept(staffHistory, staffHistory', Person)
<1>1. /\ tx[r].op = "update" /\ group /\ group' = group /\ WriteGroup(r)
      /\ sheets' = {} /\ occurrences' = Detached
  BY DEF UpdateGroup
<1>2. occurrences \in Seq(Occurrence) /\ Len(occurrences) <= MaxOccurrences
  BY DEF GroupsInv, GroupRows
<1>3. \A i \in 1 .. Len(occurrences) : [occurrences[i] EXCEPT !.session = 0] \in Occurrence'
  <2>. SUFFICES ASSUME NEW i \in 1 .. Len(occurrences)
                PROVE  [occurrences[i] EXCEPT !.session = 0] \in Occurrence'
    OBVIOUS
  <2>1. occurrences[i] \in Occurrence
    BY <1>2
  <2>. QED  BY <2>1 DEF Occurrence
<1>4. occurrences' \in Seq(Occurrence') /\ Len(occurrences') = Len(occurrences)
  <2> DEFINE O == Occurrence'
             n == Len(occurrences)
  <2>1. occurrences' = [i \in 1 .. n |-> [occurrences[i] EXCEPT !.session = 0]] /\ n \in Nat
    BY <1>1, <1>2 DEF Detached
  <2>2. \A i \in 1 .. n : [occurrences[i] EXCEPT !.session = 0] \in O
    BY <1>3
  <2> HIDE DEF O, n
  <2>3. occurrences' \in Seq(O) /\ Len(occurrences') = n
    BY <2>1, <2>2
  <2>. QED  BY <2>3 DEF O, n
<1>. QED  BY <1>1, <1>2, <1>4, WriteGroupKeeps

LEMMA ReplaceStaffKeeps ==
    ASSUME GroupsInv, NEW r \in Request, ReplaceStaff(r)
    PROVE  /\ GroupsInv' /\ UNCHANGED memberHistory
           /\ PastKept(staffHistory, staffHistory', Person)
<1>1. /\ tx[r].op = "staff" /\ group
      /\ assigned' = tx[r].staff /\ coaches' = Coaching(tx[r].staff)
      /\ staffHistory' = HistoryOf(staffHistory, Wanted(tx[r].staff))
      /\ tx' = [tx EXCEPT ![r] = Idle] /\ cut' = FALSE
      /\ UNCHANGED <<today, group, enrolled, members, memberHistory, events>>
  BY DEF ReplaceStaff, CommitGroup
<1> DEFINE a == tx[r].staff
           W == Wanted(a)
<1>2. a \in Assignments
  BY <1>1 DEF GroupsInv, GroupJobs, GroupJob
<1>3. W \subseteq OpenRow /\ OneRoleEach(W) /\ Coaching(a) \subseteq Staff
  BY <1>2, WantedRows
<1>4. /\ assigned' = a /\ coaches' = Coaching(a)
      /\ staffHistory' = HistoryOf(staffHistory, W) /\ W = Wanted(assigned')
  BY <1>1
<1> HIDE DEF a, W
<1>5. /\ WellKept(staffHistory)' /\ OpenRows(staffHistory)' = W
      /\ PastKept(staffHistory, staffHistory', Person)
  BY <1>1, <1>3, <1>4, StaffWritten
<1>6. GroupJobs'
  BY <1>1, GroupJobsKept, IdleGroupJob
<1>7. GroupRows'
  BY <1>1, <1>2, <1>3, <1>4 DEF GroupsInv, GroupRows, events, Occurrence
<1>8. Histories'
  <2>1. WellKept(memberHistory)'
    BY <1>1 DEF GroupsInv, Histories, WellKept
  <2>. QED  BY <1>1, <1>5, <2>1 DEF GroupsInv, Histories
<1>9. StaffShown'
  BY <1>4, <1>5 DEF StaffShown
<1>. QED  BY <1>1, <1>5, <1>6, <1>7, <1>8, <1>9 DEF GroupsInv
----------------------------------------------------------------------------
(* Around it *)
LEMMA SameJobs == GroupsInv /\ UNCHANGED tx => GroupJobs'
  BY DEF GroupsInv, GroupJobs, GroupJob

LEMMA TransferAwayKeeps ==
    ASSUME GroupsInv, NEW s \in Student, NEW day \in GroupDay, TransferAway(s, day)
    PROVE  /\ GroupsInv' /\ UNCHANGED staffHistory /\ enrolled \ enrolled' = {s}
           /\ PastKept(memberHistory, memberHistory', Person \ {s})
<1>1. /\ s \in enrolled /\ day <= today
      /\ \A h \in memberHistory : h.who = s => h.from <= day
      /\ enrolled' = enrolled \ {s} /\ members' = members \ {s}
      /\ UNCHANGED <<driver, tx, today, group, cut, assigned, coaches, staffHistory, events>>
  BY DEF TransferAway
<1> DEFINE H     == memberHistory
           ended == {h \in H : h.who = s /\ h.from < day /\ day < h.to}
           stays == {h \in H : h.who # s \/ h.to <= day}
           cutOff == {[h EXCEPT !.to = day] : h \in ended}
<1>2. memberHistory' = stays \cup cutOff
  BY DEF TransferAway
<1>3. /\ WellKept(H) /\ OpenRows(H) = WantedMembers(members) /\ today \in GroupDay
      /\ \A h \in H : h \in HistoryRow /\ h.from \in GroupDay /\ h.to \in GroupDay \cup {StillOpen}
  BY DEF GroupsInv, GroupRows, Histories, WellKept, HistoryRow
<1>4. \A k \in cutOff : \E h \in ended : /\ k.who = h.who /\ k.role = h.role /\ k.from = h.from
                                         /\ k.to = day /\ k \in HistoryRow
  <2>. SUFFICES ASSUME NEW h \in ended
                PROVE  LET k == [h EXCEPT !.to = day]
                       IN  /\ k.who = h.who /\ k.role = h.role /\ k.from = h.from
                           /\ k.to = day /\ k \in HistoryRow
    OBVIOUS
  <2>1. h \in HistoryRow
    BY <1>3
  <2>. QED  BY <2>1 DEF HistoryRow
<1> HIDE DEF cutOff
<1>5. OpenRows(memberHistory') = WantedMembers(members')
  <2>1. \A h \in cutOff : h.to # StillOpen
    BY <1>4, Days
  <2>2. \A h \in stays : h.to = StillOpen => h.who # s
    BY Days
  <2>3. \A w \in OpenRows(memberHistory') : w \in OpenRows(H) /\ w.who # s
    BY <1>2, <2>1, <2>2 DEF OpenRows
  <2>4. \A w \in OpenRows(H) : w.who # s => w \in OpenRows(memberHistory')
    BY <1>2 DEF OpenRows
  <2>5. \A w \in WantedMembers(members) : w.who # s <=> w \in WantedMembers(members \ {s})
    BY DEF WantedMembers
  <2>6. \A w \in WantedMembers(members \ {s}) : w \in WantedMembers(members) /\ w.who # s
    BY DEF WantedMembers
  <2>. QED  BY <1>1, <1>3, <2>3, <2>4, <2>5, <2>6
<1>6. WellKept(memberHistory')
  <2>1. ASSUME NEW h \in memberHistory'
        PROVE  /\ h \in HistoryRow /\ h.from < h.to /\ h.from <= today
               /\ h.to = StillOpen \/ h.to <= today
    <3>1. CASE h \in H
      BY <3>1, <1>3 DEF WellKept
    <3>2. CASE h \in cutOff
      BY <3>2, <1>1, <1>3, <1>4 DEF WellKept
    <3>. QED  BY <3>1, <3>2, <1>2
  <2>2. ASSUME NEW g \in memberHistory', NEW h \in memberHistory', g # h, g.who = h.who
        PROVE  g.to <= h.from \/ h.to <= g.from
    <3>1. CASE g \in H /\ h \in H
      BY <3>1, <2>2, <1>3 DEF WellKept, Apart
    <3>2. \A k \in cutOff : \E c \in ended : k.who = c.who /\ k.from = c.from /\ k.to <= c.to
                                             /\ k.to = day /\ k.role = c.role /\ c \in H
      BY <1>3, <1>4, Days
    <3>3. \A k \in cutOff, c \in stays : k.who = c.who => c.to <= k.from \/ k.to <= c.from
      <4>. SUFFICES ASSUME NEW k \in cutOff, NEW c \in stays, k.who = c.who
                    PROVE  c.to <= k.from \/ k.to <= c.from
        OBVIOUS
      <4>1. PICK e \in ended : k.who = e.who /\ k.from = e.from /\ k.to <= e.to /\ k.to = day
        BY <3>2
      <4>2. e # c /\ e.who = c.who
        BY <4>1, Days, <1>3
      <4>3. e.to <= c.from \/ c.to <= e.from
        BY <4>2, <1>3 DEF WellKept, Apart
      <4>. QED  BY <4>1, <4>3, <1>3, Days
    <3>4. \A k, m \in cutOff : k = m
      <4>. SUFFICES ASSUME NEW k \in cutOff, NEW m \in cutOff PROVE k = m
        OBVIOUS
      <4>1. PICK e \in ended : k = [e EXCEPT !.to = day]
        BY DEF cutOff
      <4>2. PICK f \in ended : m = [f EXCEPT !.to = day]
        BY DEF cutOff
      <4>3. e = f
        <5>1. e # f => e.to <= f.from \/ f.to <= e.from
          BY <1>3 DEF WellKept, Apart
        <5>. QED  BY <5>1, <1>3, Days
      <4>. QED  BY <4>1, <4>2, <4>3
    <3>. QED  BY <3>1, <3>3, <3>4, <2>2, <1>2
  <2>. QED  BY <2>1, <2>2 DEF WellKept, Apart
<1>7. PastKept(H, memberHistory', Person \ {s})
  <2>. SUFFICES ASSUME NEW p \in Person \ {s}, NEW d \in 1 .. today - 1
                PROVE  RolesOn(memberHistory', p, d) = RolesOn(H, p, d)
    BY DEF PastKept
  <2>1. \A h \in cutOff : h.who = s
    BY <1>4
  <2>2. \A h : h.who = p => (h \in memberHistory' <=> h \in H)
    BY <1>2, <2>1
  <2>. QED  BY <2>2 DEF RolesOn
<1>8. GroupJobs'
  BY <1>1, SameJobs
<1>9. GroupRows'
  <2>1. ~group => memberHistory' = {} /\ members' = {}
    BY <1>1, <1>2, <1>4 DEF GroupsInv, GroupRows, Nobody
  <2>. QED  BY <1>1, <2>1 DEF GroupsInv, GroupRows, Nobody, events, Occurrence
<1>10. Histories' /\ (StaffShown => StaffShown')
  BY <1>1, <1>5, <1>6 DEF GroupsInv, Histories, StaffShown, WellKept
<1>. QED  BY <1>1, <1>7, <1>8, <1>9, <1>10 DEF GroupsInv
LEMMA EnrolKeeps ==
    ASSUME GroupsInv, NEW s \in Student, Enrol(s)
    PROVE  GroupsInv' /\ UNCHANGED <<memberHistory, staffHistory>>
<1>1. /\ enrolled' = enrolled \cup {s}
      /\ UNCHANGED <<tx, today, group, cut, members, memberHistory, assigned, coaches,
                     staffHistory, events>>
  BY DEF Enrol
<1>2. GroupJobs'
  BY <1>1, SameJobs
<1>3. GroupRows'
  BY <1>1 DEF GroupsInv, GroupRows, Nobody, events, Occurrence
<1>4. Histories' /\ (StaffShown => StaffShown')
  BY <1>1 DEF GroupsInv, Histories, StaffShown, WellKept
<1>. QED  BY <1>1, <1>2, <1>3, <1>4 DEF GroupsInv

LEMMA SaveSheetKeeps ==
    ASSUME GroupsInv, NEW session \in timetable, SaveSheet(session)
    PROVE  GroupsInv' /\ UNCHANGED <<memberHistory, staffHistory>>
<1>1. /\ sheets' = sheets \cup {[session |-> session, day |-> today]} /\ members # {}
      /\ UNCHANGED <<tx, today, group, cut, people, timetable, sessions, occurrences>>
  BY DEF SaveSheet
<1>2. GroupJobs'
  BY <1>1, SameJobs
<1>3. group
  BY <1>1 DEF GroupsInv, GroupRows, Nobody
<1>4. GroupRows'
  BY <1>1, <1>3 DEF GroupsInv, GroupRows, people, Occurrence
<1>5. Histories' /\ (StaffShown => StaffShown')
  BY <1>1 DEF GroupsInv, Histories, StaffShown, WellKept, people
<1>. QED  BY <1>1, <1>2, <1>4, <1>5 DEF GroupsInv, people

LEMMA RecordKeeps ==
    ASSUME GroupsInv, NEW r \in Request, Record(r)
    PROVE  GroupsInv' /\ UNCHANGED <<memberHistory, staffHistory>>
<1> DEFINE j == tx[r]
           o == [session |-> j.session, day |-> j.day, adhoc |-> j.adhoc]
<1>1. /\ j.op = "record" /\ group /\ j.session \in timetable \cup {0} /\ j.id <= MaxOccurrences
      /\ \/ j.id \in DOMAIN occurrences /\ occurrences' = [occurrences EXCEPT ![j.id] = o]
         \/ j.id > Len(occurrences) /\ occurrences' = Append(occurrences, o)
      /\ tx' = [tx EXCEPT ![r] = Idle]
      /\ UNCHANGED <<today, group, cut, people, timetable, sessions, sheets>>
  BY DEF Record, CommitGroup
<1>2. j.day \in GroupDay /\ j.adhoc \in BOOLEAN /\ j.id \in Nat
  BY <1>1 DEF GroupsInv, GroupJobs, GroupJob
<1>3. o \in Occurrence
  BY <1>1, <1>2 DEF Occurrence
<1> HIDE DEF o, j
<1>4. occurrences' \in Seq(Occurrence) /\ Len(occurrences') <= MaxOccurrences
  <2>1. occurrences \in Seq(Occurrence) /\ Len(occurrences) <= MaxOccurrences /\ MaxOccurrences \in Nat
    BY GroupsAssumption DEF GroupsInv, GroupRows
  <2> DEFINE T == Occurrence
  <2> HIDE DEF T
  <2>2. occurrences \in Seq(T) /\ o \in T
    BY <1>3, <2>1 DEF T
  <2>3. CASE j.id \in DOMAIN occurrences /\ occurrences' = [occurrences EXCEPT ![j.id] = o]
    <3>1. occurrences' \in Seq(T) /\ Len(occurrences') = Len(occurrences)
      BY <2>2, <2>3
    <3>. QED  BY <2>1, <3>1 DEF T
  <2>4. CASE j.id > Len(occurrences) /\ occurrences' = Append(occurrences, o)
    <3>1. occurrences' \in Seq(T) /\ Len(occurrences') = Len(occurrences) + 1
      BY <2>2, <2>4
    <3>2. Len(occurrences) \in Nat
      BY <2>2
    <3>. QED  BY <2>1, <2>4, <1>1, <1>2, <3>1, <3>2 DEF T
  <2>. QED  BY <1>1, <2>3, <2>4
<1>5. Occurrence' = Occurrence
  BY <1>1 DEF Occurrence
<1>6. GroupJobs' /\ tx'[r] = Idle /\ \A k \in Request \ {r} : tx'[k] = tx[k]
  BY <1>1, IdleGroupJob, GroupJobsKept
<1>7. GroupRows'
  BY <1>1, <1>4, <1>5 DEF GroupsInv, GroupRows, people
<1>8. Histories' /\ (StaffShown => StaffShown')
  BY <1>1 DEF GroupsInv, Histories, StaffShown, WellKept, people
<1>9. (\A k \in Request : tx'[k].op # "staff") => \A k \in Request : tx[k].op # "staff"
  BY <1>1, <1>6 DEF j
<1>. QED  BY <1>1, <1>6, <1>7, <1>8, <1>9 DEF GroupsInv, people

LEMMA NextDayKeeps ==
    ASSUME GroupsInv, NextDay PROVE GroupsInv' /\ UNCHANGED <<memberHistory, staffHistory>>
<1>1. today < LastToday /\ today' = today + 1 /\ UNCHANGED <<tx, group, cut, people, events>>
  BY DEF NextDay
<1>2. GroupJobs'
  BY <1>1, SameJobs
<1>3. today \in GroupDay /\ today' \in GroupDay
  BY <1>1, Days DEF GroupsInv, GroupRows
<1>4. GroupRows'
  BY <1>1, <1>3 DEF GroupsInv, GroupRows, Nobody, people, events, Occurrence
<1>5. \A H : WellKept(H) => WellKept(H)'
  <2>. SUFFICES ASSUME NEW H, WellKept(H), NEW h \in H
                PROVE  h.from <= today' /\ (h.to = StillOpen \/ h.to <= today')
    BY DEF WellKept
  <2>1. h.from \in GroupDay /\ h.to \in GroupDay \cup {StillOpen}
        /\ h.from <= today /\ (h.to = StillOpen \/ h.to <= today)
    BY DEF WellKept, HistoryRow
  <2>. QED  BY <2>1, <1>1, <1>3, Days
<1>6. Histories'
  <2>1. WellKept(memberHistory)' /\ WellKept(staffHistory)'
    BY <1>1, <1>5 DEF GroupsInv, Histories, people, WellKept
  <2>. QED  BY <1>1, <2>1 DEF GroupsInv, Histories, people
<1>7. StaffShown => StaffShown'
  BY <1>1 DEF StaffShown, people
<1>. QED  BY <1>1, <1>2, <1>4, <1>6, <1>7 DEF GroupsInv, people

\* What a step does to the histories
Remembers ==
    group' =>
        \A p \in Person \ (enrolled \ enrolled') :
            /\ PastKept(memberHistory, memberHistory', {p})
            /\ PastKept(staffHistory, staffHistory', {p})

LEMMA Unwritten == UNCHANGED <<memberHistory, staffHistory>> => Remembers
  BY DEF Remembers, PastKept

LEMMA GroupsStepKeeps ==
    ASSUME GroupsInv, [GroupsNext]_<<driver, tx, groups>> PROVE GroupsInv' /\ Remembers
<1>1. CASE UNCHANGED <<driver, tx, groups>>
  <2>1. UNCHANGED <<tx, today, group, cut, people, events>>
    BY <1>1 DEF groups
  <2>2. GroupJobs'
    BY <2>1, SameJobs
  <2>3. GroupRows' /\ Histories' /\ (StaffShown => StaffShown')
    BY <2>1 DEF GroupsInv, GroupRows, Nobody, people, events, Occurrence, Histories, StaffShown, WellKept
  <2>. QED  BY <2>1, <2>2, <2>3, Unwritten DEF GroupsInv, people
<1>2. ASSUME NEW r \in Request, NEW S \in SUBSET Student, NEW a \in Assignments, CheckForm(r, S, a)
      PROVE  GroupsInv' /\ Remembers
  BY <1>2, CheckFormKeeps, Unwritten DEF CheckForm, groups, people
<1>3. ASSUME NEW r \in Request, CreateGroup(r) PROVE GroupsInv' /\ Remembers
  BY <1>3, CreateGroupKeeps DEF Remembers, PastKept
<1>4. ASSUME NEW r \in Request, UpdateGroup(r) PROVE GroupsInv' /\ Remembers
  BY <1>4, UpdateGroupKeeps DEF Remembers, PastKept
<1>5. ASSUME NEW r \in Request, ReplaceStaff(r) PROVE GroupsInv' /\ Remembers
  BY <1>5, ReplaceStaffKeeps DEF Remembers, PastKept
<1>6. ASSUME NEW r \in Request, StaffFails(r) PROVE GroupsInv' /\ Remembers
  <2>1. ~group' \/ UNCHANGED <<memberHistory, staffHistory>>
    BY <1>6 DEF StaffFails, Gone, people
  <2>. QED  BY <1>6, <2>1, StaffFailsKeeps, Unwritten DEF Remembers
<1>7. ASSUME NEW r \in Request, NEW i \in 1 .. MaxOccurrences, NEW session \in 0 .. MaxSessions,
             NEW adhoc \in BOOLEAN, LookToRecord(r, i, session, adhoc)
      PROVE  GroupsInv' /\ Remembers
  BY <1>7, LookToRecordKeeps, Unwritten DEF LookToRecord, groups, people
<1>8. ASSUME NEW r \in Request, Record(r) PROVE GroupsInv' /\ Remembers
  BY <1>8, RecordKeeps, Unwritten
<1>9. ASSUME NEW r \in Request, StopBetween(r) PROVE GroupsInv' /\ Remembers
  BY <1>9, StopBetweenKeeps, Unwritten DEF StopBetween, people
<1>10. ASSUME NEW s \in Student, Enrol(s) PROVE GroupsInv' /\ Remembers
  BY <1>10, EnrolKeeps, Unwritten
<1>11. ASSUME NEW s \in Student, NEW day \in GroupDay, TransferAway(s, day)
       PROVE  GroupsInv' /\ Remembers
  BY <1>11, TransferAwayKeeps DEF Remembers, PastKept
<1>12. ASSUME NEW session \in timetable, SaveSheet(session) PROVE GroupsInv' /\ Remembers
  BY <1>12, SaveSheetKeeps, Unwritten
<1>13. CASE DeleteGroup
  BY <1>13, DeleteGroupKeeps DEF DeleteGroup, Gone, Remembers
<1>14. CASE NextDay
  BY <1>14, NextDayKeeps, Unwritten
<1>. QED
  BY <1>1, <1>2, <1>3, <1>4, <1>5, <1>6, <1>7, <1>8, <1>9, <1>10, <1>11, <1>12, <1>13, <1>14
  DEF GroupsNext

LEMMA GroupsInvHolds == GroupsSpec => []GroupsInv
<1>1. GroupsInv /\ [GroupsNext]_<<driver, tx, groups>> => GroupsInv'
  BY GroupsStepKeeps
<1>. QED  BY <1>1, GroupsInitHolds, PTL DEF GroupsSpec

LEMMA GroupsInvTyped == GroupsInv => GroupsTypeOK
<1>. SUFFICES ASSUME GroupsInv PROVE GroupsTypeOK
  OBVIOUS
<1>1. \A i \in DOMAIN occurrences :
          occurrences[i] \in [session : timetable \cup {0}, day : GroupDay, adhoc : BOOLEAN]
  <2> DEFINE T == Occurrence
  <2> HIDE DEF T
  <2>1. occurrences \in Seq(T)
    BY DEF GroupsInv, GroupRows, T
  <2>2. \A i \in DOMAIN occurrences : occurrences[i] \in T
    BY <2>1
  <2>. QED  BY <2>2 DEF T, Occurrence
<1>2. memberHistory \subseteq HistoryRow /\ staffHistory \subseteq HistoryRow
  BY DEF GroupsInv, Histories, WellKept
<1>. QED  BY <1>1, <1>2 DEF GroupsInv, GroupRows, GroupsTypeOK

\* Groups, their members, staff, sheets and occurrences have their types, and
\* their histories do, for any number of students, staff, days and requests.
THEOREM GroupsTyped == GroupsSpec => []GroupsTypeOK
  BY GroupsInvTyped, GroupsInvHolds, PTL

\* On both drivers, except while the staff is being replaced or after that was
\* cut off, the open intervals of the histories of a group are its members and its
\* staff; and a step may not change who a history says was in the group, and as
\* what, on a day that has passed, unless the student has left the programme.
\* However edits, transfers, deletes and stops interleave.
THEOREM HistoriesStand == GroupsSpec => GroupHistoryStands
<1>1. GroupsInv => HistoryIsCurrent
  BY DEF GroupsInv, Histories, StaffShown, WellKept, Apart, HistoryIsCurrent
<1> DEFINE Past == group' =>
                     \A d \in 1 .. today - 1, p \in Student \cup Staff :
                       p \notin enrolled \ enrolled' =>
                         \A H \in {<<memberHistory, memberHistory'>>, <<staffHistory, staffHistory'>>} :
                           {h.role : h \in {h \in H[1] : h.who = p /\ Covers(h, d)}}
                               = {h.role : h \in {h \in H[2] : h.who = p /\ Covers(h, d)}}
<1>2. GroupsInv /\ [GroupsNext]_<<driver, tx, groups>> => [Past]_<<tx, groups>>
  <2>1. Remembers => Past
    <3>. SUFFICES ASSUME Remembers, group', NEW d \in 1 .. today - 1, NEW p \in Student \cup Staff,
                         p \notin enrolled \ enrolled',
                         NEW H \in {<<memberHistory, memberHistory'>>, <<staffHistory, staffHistory'>>}
                  PROVE  RolesOn(H[1], p, d) = RolesOn(H[2], p, d)
      BY DEF RolesOn
    <3>1. /\ RolesOn(memberHistory', p, d) = RolesOn(memberHistory, p, d)
          /\ RolesOn(staffHistory', p, d) = RolesOn(staffHistory, p, d)
      BY DEF Remembers, PastKept, Person
    <3>2. CASE H = <<memberHistory, memberHistory'>>
      BY <3>1, <3>2
    <3>3. CASE H = <<staffHistory, staffHistory'>>
      BY <3>1, <3>3
    <3>. QED  BY <3>2, <3>3
  <2>. QED  BY <2>1, GroupsStepKeeps
<1>. QED  BY <1>1, <1>2, GroupsInvHolds, PTL DEF GroupsSpec, GroupHistoryStands, PastStays
----------------------------------------------------------------------------
(***************************************************************************)
(* Files (Uploads).  A file that is named belongs to one row, with the     *)
(* requests that have read it, or to the one request that is to add a row: what *)
(* a request replaces, or removes when it fails, no other row shows.       *)
(***************************************************************************)

UploadsStep == PupilsNext \/ EventsNext

UploadsSpec == InitRequests /\ UploadsInit /\ [][UploadsStep]_<<driver, tx, uploads>>

PupilRow == [number : 1 .. MaxNumber, photo : 0 .. MaxFiles, qr : 1 .. MaxFiles]

Owner == Pupil \cup Show

\* The files of a row of either table, and of a request
FilesOf(row) == Images(row.photo) \cup {row.qr}

RowFiles(x) ==
    (IF x \in DOMAIN pupils THEN FilesOf(pupils[x]) ELSE {})
        \cup (IF x \in DOMAIN shows THEN Images(shows[x]) ELSE {})

Held(r) == IF IsOpen(r) THEN tx[r].named \ {0} ELSE {}

UploadRows ==
    /\ DOMAIN pupils \subseteq Pupil /\ IsFiniteSet(DOMAIN pupils)
    /\ pupils \in [DOMAIN pupils -> PupilRow]
    /\ \A p, q \in DOMAIN pupils : pupils[p].number = pupils[q].number => p = q
    /\ DOMAIN shows \subseteq Show /\ shows \in [DOMAIN shows -> 0 .. MaxFiles]
    /\ DOMAIN files \subseteq 1 .. MaxFiles /\ files \in [DOMAIN files -> 0 .. MaxNumber]
    /\ tangled \subseteq Owner

\* A file has one owner: a row with the requests that read it, or a request that
\* is to add a row.
OneOwner ==
    /\ \A x, y \in Owner : x # y => RowFiles(x) \cap RowFiles(y) = {}
    /\ \A r \in Request, x \in Owner : IsOpen(r) /\ tx[r].id # x => Held(r) \cap RowFiles(x) = {}
    /\ \A r, k \in Request :
          r # k /\ IsOpen(r) /\ IsOpen(k) /\ (tx[r].id = tx[k].id => tx[r].id = 0)
              => Held(r) \cap Held(k) = {}

OneReader ==
    \A r, k \in Request :
        r # k /\ IsOpen(r) /\ IsOpen(k) /\ tx[r].id = tx[k].id => tx[r].id \in tangled \cup {0}

PupilStands(row) ==
    FilesOf(row) \subseteq DOMAIN files /\ files[row.qr] = row.number

RowStands(x) ==
    /\ x \in DOMAIN pupils => PupilStands(pupils[x])
    /\ x \in DOMAIN shows => Images(shows[x]) \subseteq DOMAIN files

RowsStand == \A x \in Owner \ tangled : RowStands(x)

\* What a request carries
UploadJob(j) ==
    /\ j.op \in {"admit", "edit", "publish", "change", "remove", "tidy"}
    /\ j.named \subseteq 0 .. MaxFiles /\ j.old \subseteq j.named
    /\ j.op \in {"admit", "publish"} => j.id = 0
    /\ j.op = "edit" => j.id \in Pupil
    /\ j.op \in {"change", "remove"} => j.id \in Show
    /\ j.op = "tidy" => j.id \in Owner
    /\ j.op \in {"admit", "edit"} =>
          /\ j.row \in PupilRow /\ FilesOf(j.row) \subseteq j.named
          /\ j.new \subseteq FilesOf(j.row) /\ j.old \cap FilesOf(j.row) = {}
    /\ j.op \in {"publish", "change"} =>
          /\ j.row \in 0 .. MaxFiles /\ Images(j.row) \subseteq j.named
          /\ j.new \subseteq Images(j.row) /\ j.old \cap Images(j.row) = {}

\* Of a row that nobody else has read: the new files are there, and not the row's
\* yet; the old files are not the row's any more.
Ready(j) ==
    /\ j.op \in {"admit", "edit"} => PupilStands(j.row)
    /\ j.op \in {"publish", "change"} => Images(j.row) \subseteq DOMAIN files
    /\ j.op \in {"edit", "change"} => j.new \cap RowFiles(j.id) = {}
    /\ j.op = "tidy" => j.old \cap RowFiles(j.id) = {}

UploadJobs ==
    /\ DOMAIN tx = Request
    /\ \A r \in Request : IsOpen(r) => UploadJob(tx[r]) /\ (tx[r].id \notin tangled => Ready(tx[r]))

UploadsInv == UploadRows /\ OneOwner /\ OneReader /\ RowsStand /\ UploadJobs
----------------------------------------------------------------------------
(* Names *)
LEMMA Bounds == MaxNumber \in Nat /\ MaxNumber > 0 /\ MaxFiles \in Nat /\ 0 \notin Owner
                /\ Pupil \cap Show = {} /\ Pupil \subseteq Owner /\ Show \subseteq Owner
  BY UploadsAssumption DEF Owner

LEMMA Least ==
    ASSUME NEW m \in Nat, NEW S, S \subseteq 1 .. m, S # {}
    PROVE  \E n \in S : \A k \in S : n <= k
<1> DEFINE R == {e \in S \X S : e[1] <= e[2]}
<1>1. IsFiniteSet(S)
  <2>1. IsFiniteSet(1 .. m)
    BY FS_Interval
  <2>. QED  BY <2>1, FS_Subset
<1>2. \A k \in S : k \in Nat
  OBVIOUS
<1>3. \A k, n \in S : <<k, n>> \in R <=> k <= n
  OBVIOUS
<1> HIDE DEF R
<1>4. PICK n \in S : \A k \in S : <<n, k>> \in R
  <2>1. ASSUME NEW k \in S, NEW n \in S PROVE <<k, n>> \in R \/ <<n, k>> \in R
    <3>1. k <= n \/ n <= k
      BY <1>2
    <3>. QED  BY <3>1, <1>3
  <2>2. ASSUME NEW k \in S, NEW n \in S, NEW l \in S, <<k, n>> \in R, <<n, l>> \in R
        PROVE  <<k, l>> \in R
    <3>1. k <= n /\ n <= l
      BY <2>2, <1>3
    <3>2. k <= l
      BY <3>1, <1>2
    <3>. QED  BY <3>2, <1>3
  <2>. QED  BY <1>1, <2>1, <2>2, SomeIsFirst
<1>. QED  BY <1>3, <1>4

LEMMA UnusedIs ==
    ASSUME NEW F, NEW m \in 1 .. MaxFiles + 2, m \notin F
    PROVE  /\ Unused(F) \in 1 .. MaxFiles + 2 /\ Unused(F) \notin F
           /\ \A g \in 1 .. Unused(F) - 1 : g \in F
<1> DEFINE S == (1 .. MaxFiles + 2) \ F
<1>1. S \subseteq 1 .. MaxFiles + 2 /\ S # {} /\ MaxFiles + 2 \in Nat
  BY Bounds
<1>2. PICK n \in S : \A k \in S : n <= k
  <2> HIDE DEF S
  <2>. QED  BY <1>1, Least
<1>3. n \in 1 .. MaxFiles + 2 /\ n \notin F /\ \A g \in 1 .. n - 1 : g \in F
  BY <1>2, Bounds
<1>. QED  BY <1>3 DEF Unused

\* What rows and requests name is a file number, or 0.
LEMMA NamedCovers ==
    ASSUME UploadsInv
    PROVE  /\ Named \subseteq 0 .. MaxFiles
           /\ \A y : RowFiles(y) \subseteq Named /\ 0 \notin RowFiles(y)
           /\ \A k \in Request : Held(k) \subseteq Named /\ 0 \notin Held(k)
<1>1. \A q \in DOMAIN pupils : pupils[q].photo \in 0 .. MaxFiles /\ pupils[q].qr \in 1 .. MaxFiles
  BY DEF UploadsInv, UploadRows, PupilRow
<1>2. \A s \in DOMAIN shows : shows[s] \in 0 .. MaxFiles
  BY DEF UploadsInv, UploadRows
<1>3. \A k \in Request : IsOpen(k) => tx[k].named \subseteq 0 .. MaxFiles
  BY DEF UploadsInv, UploadJobs, UploadJob
<1>4. Named \subseteq 0 .. MaxFiles
  BY <1>1, <1>2, <1>3, Bounds DEF Named
<1>5. \A y : RowFiles(y) \subseteq Named /\ 0 \notin RowFiles(y)
  BY <1>1, Bounds DEF RowFiles, FilesOf, Images, Named
<1>6. \A k \in Request : Held(k) \subseteq Named /\ 0 \notin Held(k)
  BY DEF Held, Named
<1>. QED  BY <1>4, <1>5, <1>6

LEMMA NamedNext ==
    /\ \A y : RowFiles(y)' \subseteq Named'
    /\ \A k \in Request : Held(k)' \subseteq Named'
  BY DEF RowFiles, FilesOf, Images, Named, Held, IsOpen

NotUsed(N) == N \cap Named = {} /\ N \cap DOMAIN files = {}

LEMMA NewNames ==
    ASSUME UploadsInv
    PROVE  /\ NewFile \in Nat \ {0} /\ NotUsed({NewFile})
           /\ \A f \in {0, NewFile} : /\ After(f) \in Nat \ {0} /\ After(f) # f
                                      /\ NotUsed({After(f)}) /\ f <= After(f)
<1> DEFINE F == Named \cup DOMAIN files
<1>1. F \subseteq 0 .. MaxFiles
  BY NamedCovers, Bounds DEF UploadsInv, UploadRows
<1>2. MaxFiles + 1 \in 1 .. MaxFiles + 2 /\ MaxFiles + 1 \notin F
  BY <1>1, Bounds
<1>3. NewFile \in 1 .. MaxFiles + 2 /\ NewFile \notin F /\ \A g \in 1 .. NewFile - 1 : g \in F
  BY <1>2, UnusedIs DEF NewFile
<1>4. ASSUME NEW f \in {0, NewFile}
      PROVE  After(f) \in 1 .. MaxFiles + 2 /\ After(f) \notin F \cup {f}
  <2>1. MaxFiles + 1 \notin F \cup {f} \/ MaxFiles + 2 \notin F \cup {f}
    BY <1>1, Bounds
  <2>2. MaxFiles + 1 \in 1 .. MaxFiles + 2 /\ MaxFiles + 2 \in 1 .. MaxFiles + 2
    BY Bounds
  <2>3. PICK m \in 1 .. MaxFiles + 2 : m \notin F \cup {f}
    BY <2>1, <2>2
  <2>4. Unused(F \cup {f}) \in 1 .. MaxFiles + 2 /\ Unused(F \cup {f}) \notin F \cup {f}
    BY <2>3, UnusedIs
  <2>. QED  BY <2>4 DEF After
<1>5. ASSUME NEW f \in {0, NewFile} PROVE f <= After(f)
  <2>1. After(f) \in 1 .. MaxFiles + 2 /\ After(f) \notin F
    BY <1>4
  <2>2. ~(After(f) \in 1 .. NewFile - 1)
    BY <1>3, <2>1
  <2>. QED  BY <1>3, <2>1, <2>2, Bounds
<1>. QED  BY <1>3, <1>4, <1>5, Bounds DEF NotUsed

LEMMA NextNumberIs ==
    ASSUME UploadsInv
    PROVE  NextNumber \in 1 .. MaxNumber + 1
<1> DEFINE S == {n \in 1 .. MaxNumber + 1 : \A m \in Numbers(pupils) : m < n}
<1>1. Numbers(pupils) \subseteq 1 .. MaxNumber
  BY DEF Numbers, UploadsInv, UploadRows, PupilRow
<1>2. MaxNumber + 1 \in S
  BY <1>1, Bounds
<1>3. S \subseteq 1 .. MaxNumber + 1 /\ MaxNumber + 1 \in Nat
  BY Bounds
<1>4. PICK n \in S : \A k \in S : n <= k
  <2> HIDE DEF S
  <2>. QED  BY <1>2, <1>3, Least
<1>5. n - 1 \in Numbers(pupils) \cup {0}
  <2>. SUFFICES ASSUME n # 1 PROVE n - 1 \in Numbers(pupils)
    BY <1>4
  <2>1. n - 1 \in 1 .. MaxNumber + 1 /\ n - 1 \notin S
    BY <1>4, Bounds
  <2>2. PICK m \in Numbers(pupils) : ~(m < n - 1)
    BY <2>1
  <2>3. m < n /\ m \in 1 .. MaxNumber
    BY <1>1, <1>4
  <2>. QED  BY <2>2, <2>3, <1>4
<1>6. \E k \in 1 .. MaxNumber + 1 : k - 1 \in Numbers(pupils) \cup {0} /\ \A m \in Numbers(pupils) : m < k
  BY <1>4, <1>5
<1>. QED  BY <1>6 DEF NextNumber
----------------------------------------------------------------------------
(* Owners *)

\* All that may be of the row x when the request r writes it
Mine(r, x, N) == (IF x \in Owner THEN RowFiles(x) ELSE {}) \cup Held(r) \cup N

SameRow(y) ==
    /\ y \in DOMAIN pupils' <=> y \in DOMAIN pupils
    /\ y \in DOMAIN pupils => pupils'[y] = pupils[y]
    /\ y \in DOMAIN shows' <=> y \in DOMAIN shows
    /\ y \in DOMAIN shows => shows'[y] = shows[y]

\* The request r is to write x, or to add it.
WritesTo(r, x) ==
    IsOpen(r) => \/ tx[r].id = x
                 \/ tx[r].id = 0 /\ \A k \in Request : IsOpen(k) => tx[k].id # x

LEMMA MineIsMine ==
    ASSUME UploadsInv, NEW r \in Request, NEW x \in Owner \cup {0}, NEW N, NotUsed(N), WritesTo(r, x)
    PROVE  /\ \A y \in Owner \ {x} : Mine(r, x, N) \cap RowFiles(y) = {}
           /\ \A k \in Request \ {r} :
                 IsOpen(k) /\ (tx[k].id # x \/ x = 0) => Mine(r, x, N) \cap Held(k) = {}
<1>1. N \cap Named = {}
  BY DEF NotUsed
<1>2. \A y \in Owner \ {x} : Mine(r, x, N) \cap RowFiles(y) = {}
  <2>. SUFFICES ASSUME NEW y \in Owner \ {x} PROVE Mine(r, x, N) \cap RowFiles(y) = {}
    OBVIOUS
  <2>1. N \cap RowFiles(y) = {}
    BY <1>1, NamedCovers
  <2>2. x \in Owner => RowFiles(x) \cap RowFiles(y) = {}
    BY DEF UploadsInv, OneOwner
  <2>3. Held(r) \cap RowFiles(y) = {}
    BY Bounds DEF UploadsInv, OneOwner, WritesTo, Held
  <2>. QED  BY <2>1, <2>2, <2>3 DEF Mine
<1>3. ASSUME NEW k \in Request \ {r}, IsOpen(k), tx[k].id # x \/ x = 0
      PROVE  Mine(r, x, N) \cap Held(k) = {}
  <2>1. N \cap Held(k) = {}
    BY <1>1, NamedCovers
  <2>2. x \in Owner => RowFiles(x) \cap Held(k) = {}
    BY <1>3, Bounds DEF UploadsInv, OneOwner
  <2>3. CASE IsOpen(r)
    <3>1. tx[r].id = tx[k].id => tx[r].id = 0
      BY <1>3, <2>3 DEF WritesTo
    <3>2. Held(r) \cap Held(k) = {}
      BY <1>3, <2>3, <3>1 DEF UploadsInv, OneOwner
    <3>. QED  BY <2>1, <2>2, <3>2 DEF Mine
  <2>4. CASE ~IsOpen(r)
    BY <2>1, <2>2, <2>4 DEF Mine, Held
  <2>. QED  BY <2>3, <2>4
<1>. QED  BY <1>2, <1>3

LEMMA TxAfter ==
    ASSUME UploadsInv, NEW r \in Request, NEW j, tx' = [tx EXCEPT ![r] = j]
    PROVE  /\ DOMAIN tx' = Request /\ tx'[r] = j /\ \A k \in Request \ {r} : tx'[k] = tx[k]
           /\ \A k \in Request \ {r} : IsOpen(k)' = IsOpen(k) /\ Held(k)' = Held(k)
           /\ IsOpen(r)' <=> j.op # "idle"
<1>1. DOMAIN tx' = Request /\ tx'[r] = j /\ \A k \in Request \ {r} : tx'[k] = tx[k]
  BY DEF UploadsInv, UploadJobs
<1>2. \A k \in Request \ {r} : IsOpen(k)' = IsOpen(k)
  BY <1>1 DEF IsOpen
<1>3. \A k \in Request \ {r} : Held(k)' = Held(k)
  BY <1>1, <1>2 DEF Held
<1>. QED  BY <1>1, <1>2, <1>3 DEF IsOpen

LEMMA SameRowFiles == ASSUME NEW y, SameRow(y) PROVE RowFiles(y)' = RowFiles(y)
  BY DEF SameRow, RowFiles, FilesOf

LEMMA OwnersKept ==
    ASSUME UploadsInv, NEW r \in Request, NEW x \in Owner \cup {0}, NEW N, NotUsed(N), WritesTo(r, x),
           NEW j, tx' = [tx EXCEPT ![r] = j], j.op # "idle" => j.id = x,
           \A y \in Owner \ {x} : RowFiles(y)' = RowFiles(y),
           x \in Owner => RowFiles(x)' \subseteq Mine(r, x, N), Held(r)' \subseteq Mine(r, x, N)
    PROVE  OneOwner'
<1> DEFINE M == Mine(r, x, N)
<1>1. /\ \A y \in Owner \ {x} : M \cap RowFiles(y) = {}
      /\ \A k \in Request \ {r} : IsOpen(k) /\ (tx[k].id # x \/ x = 0) => M \cap Held(k) = {}
  BY MineIsMine
<1>2. /\ x \in Owner => RowFiles(x)' \subseteq M
      /\ Held(r)' \subseteq M
  OBVIOUS
<1> HIDE DEF M
<1>3. /\ tx'[r] = j /\ \A k \in Request \ {r} : tx'[k] = tx[k]
      /\ \A k \in Request \ {r} : IsOpen(k)' = IsOpen(k) /\ Held(k)' = Held(k)
      /\ IsOpen(r)' <=> j.op # "idle"
  BY TxAfter
<1>4. ASSUME NEW y \in Owner, NEW z \in Owner, y # z PROVE RowFiles(y)' \cap RowFiles(z)' = {}
  <2>1. CASE y = x
    BY <1>1, <1>2, <1>4, <2>1
  <2>2. CASE z = x
    BY <1>1, <1>2, <1>4, <2>2
  <2>3. CASE y # x /\ z # x
    <3>1. RowFiles(y)' = RowFiles(y) /\ RowFiles(z)' = RowFiles(z)
      BY <2>3
    <3>. QED  BY <3>1, <1>4 DEF UploadsInv, OneOwner
  <2>. QED  BY <2>1, <2>2, <2>3
<1>5. ASSUME NEW k \in Request, NEW y \in Owner, IsOpen(k)', tx'[k].id # y
      PROVE  Held(k)' \cap RowFiles(y)' = {}
  <2>1. CASE k = r
    <3>1. y # x
      BY <1>3, <1>5, <2>1
    <3>. QED  BY <3>1, <2>1, <1>1, <1>2
  <2>2. CASE k # r /\ y = x
    <3>1. Held(k)' = Held(k) /\ IsOpen(k) /\ tx[k].id # x
      BY <1>3, <1>5, <2>2
    <3>. QED  BY <3>1, <2>2, <1>1, <1>2
  <2>3. CASE k # r /\ y # x
    <3>1. /\ Held(k)' = Held(k) /\ IsOpen(k) /\ tx[k].id # y
          /\ RowFiles(y)' = RowFiles(y)
      BY <1>3, <1>5, <2>3
    <3>. QED  BY <3>1 DEF UploadsInv, OneOwner
  <2>. QED  BY <2>1, <2>2, <2>3
<1>6. ASSUME NEW k \in Request \ {r}, IsOpen(r)', IsOpen(k)', tx'[r].id = tx'[k].id => tx'[r].id = 0
      PROVE  Held(r)' \cap Held(k)' = {}
  <2>1. Held(k)' = Held(k) /\ IsOpen(k) /\ (tx[k].id # x \/ x = 0)
    BY <1>3, <1>6
  <2>. QED  BY <2>1, <1>1, <1>2
<1>7. ASSUME NEW k \in Request, NEW m \in Request, k # m, IsOpen(k)', IsOpen(m)',
             tx'[k].id = tx'[m].id => tx'[k].id = 0
      PROVE  Held(k)' \cap Held(m)' = {}
  <2>1. CASE k = r
    BY <1>6, <1>7, <2>1
  <2>2. CASE m = r
    <3>1. Held(m)' \cap Held(k)' = {}
      BY <1>6, <1>7, <2>2
    <3>. QED  BY <3>1
  <2>3. CASE k # r /\ m # r
    <3>1. /\ Held(k)' = Held(k) /\ IsOpen(k) /\ tx'[k] = tx[k]
          /\ Held(m)' = Held(m) /\ IsOpen(m) /\ tx'[m] = tx[m]
      BY <1>3, <1>7, <2>3
    <3>2. tx[k].id = tx[m].id => tx[k].id = 0
      BY <3>1, <1>7
    <3>3. Held(k) \cap Held(m) = {}
      BY <1>7, <3>1, <3>2 DEF UploadsInv, OneOwner
    <3>. QED  BY <3>1, <3>3
  <2>. QED  BY <2>1, <2>2, <2>3
<1>. QED  BY <1>4, <1>5, <1>7 DEF OneOwner

\* Files that are gone were of x, or nobody's any more; the others stay.
Spared(G) == \A f \in DOMAIN files \ G : f \in DOMAIN files' /\ files'[f] = files[f]

LEMMA RowStandsStill ==
    ASSUME NEW row \in PupilRow, PupilStands(row), NEW G, Spared(G), FilesOf(row) \cap G = {}
    PROVE  PupilStands(row)'
<1>1. FilesOf(row) \subseteq DOMAIN files /\ files[row.qr] = row.number /\ row.qr \in FilesOf(row)
  BY DEF PupilStands, FilesOf
<1>2. \A f \in FilesOf(row) : f \in DOMAIN files' /\ files'[f] = files[f]
  BY <1>1 DEF Spared
<1>. QED  BY <1>1, <1>2 DEF PupilStands

LEMMA ImageStandsStill ==
    ASSUME NEW image, Images(image) \subseteq DOMAIN files, NEW G, Spared(G), Images(image) \cap G = {}
    PROVE  Images(image) \subseteq DOMAIN files'
  BY DEF Spared

LEMMA ReadyStays ==
    ASSUME NEW k \in Request, IsOpen(k), UploadJob(tx[k]), Ready(tx[k]), tx'[k] = tx[k],
           NEW G, Spared(G), Held(k) \cap G = {},
           tx[k].id \in Owner => RowFiles(tx[k].id)' \subseteq RowFiles(tx[k].id)
    PROVE  Ready(tx[k])'
<1> DEFINE j == tx[k]
<1>1. tx'[k] = j /\ UploadJob(j) /\ Ready(j) /\ Held(k) = j.named \ {0}
  BY DEF Held
<1>2. j.op \in {"edit", "change", "tidy"} => j.id \in Owner
  BY <1>1, Bounds DEF UploadJob
<1>3. j.id \in Owner => RowFiles(j.id)' \subseteq RowFiles(j.id)
  BY <1>1
<1>3a. \A y : y = j.id => RowFiles(y)' = RowFiles(tx[k].id)'
  BY <1>1 DEF RowFiles
<1>4. j.op \in {"admit", "edit"} => PupilStands(j.row)'
  <2>. SUFFICES ASSUME j.op \in {"admit", "edit"} PROVE PupilStands(j.row)'
    OBVIOUS
  <2>1. j.row \in PupilRow /\ PupilStands(j.row)
    BY <1>1 DEF UploadJob, Ready
  <2>2. FilesOf(j.row) \subseteq Held(k)
    BY <1>1, <2>1, Bounds DEF UploadJob, FilesOf, Images, PupilRow
  <2>3. PICK row \in PupilRow : row = j.row
    BY <2>1
  <2>4. PupilStands(row) /\ FilesOf(row) \cap G = {}
    BY <2>1, <2>2, <2>3
  <2>5. PupilStands(row)'
    BY <2>4, RowStandsStill
  <2>. QED  BY <2>3, <2>5, <1>1 DEF PupilStands
<1>5. j.op \in {"publish", "change"} => Images(j.row) \subseteq DOMAIN files'
  <2>. SUFFICES ASSUME j.op \in {"publish", "change"} PROVE Images(j.row) \subseteq DOMAIN files'
    OBVIOUS
  <2>1. Images(j.row) \subseteq DOMAIN files /\ Images(j.row) \subseteq Held(k)
    BY <1>1 DEF UploadJob, Ready, Images
  <2>. QED  BY <2>1, ImageStandsStill
<1>6. j.op \in {"edit", "change"} => j.new \cap RowFiles(j.id)' = {}
  BY <1>1, <1>2, <1>3 DEF Ready
<1>7. j.op = "tidy" => j.old \cap RowFiles(j.id)' = {}
  BY <1>1, <1>2, <1>3 DEF Ready
<1>. QED  BY <1>1, <1>4, <1>5, <1>6, <1>7 DEF Ready, PupilStands

LEMMA SameRowStands ==
    ASSUME UploadsInv, NEW y, SameRow(y), RowStands(y), NEW G, Spared(G), RowFiles(y) \cap G = {}
    PROVE  RowStands(y)'
<1>2. ASSUME y \in DOMAIN pupils'
      PROVE  /\ FilesOf(pupils'[y]) \subseteq DOMAIN files'
             /\ files'[pupils'[y].qr] = pupils'[y].number
  <2>1. pupils'[y] = pupils[y] /\ y \in DOMAIN pupils
    BY <1>2 DEF SameRow
  <2>2. PICK row \in PupilRow : row = pupils[y]
    BY <2>1 DEF UploadsInv, UploadRows
  <2>3. PupilStands(row) /\ FilesOf(row) \cap G = {}
    BY <2>1, <2>2 DEF RowStands, RowFiles
  <2>4. PupilStands(row)'
    BY <2>3, RowStandsStill
  <2>. QED  BY <2>1, <2>2, <2>4 DEF PupilStands
<1>3. ASSUME y \in DOMAIN shows' PROVE Images(shows'[y]) \subseteq DOMAIN files'
  <2>1. shows'[y] = shows[y] /\ y \in DOMAIN shows
    BY <1>3 DEF SameRow
  <2>2. Images(shows[y]) \subseteq DOMAIN files /\ Images(shows[y]) \cap G = {}
    BY <2>1 DEF RowStands, RowFiles
  <2>3. PICK image : image = shows[y]
        OBVIOUS
  <2>4. Images(image) \subseteq DOMAIN files'
    BY <2>2, <2>3, ImageStandsStill
  <2>. QED  BY <2>1, <2>3, <2>4
<1>. QED  BY <1>2, <1>3 DEF RowStands, PupilStands

\* The request r goes on with j, or ends, and writes no row but x.
LEMMA UploadsKept ==
    ASSUME UploadsInv, UploadRows', NEW r \in Request, NEW x \in Owner \cup {0},
           NEW N, NotUsed(N), WritesTo(r, x),
           NEW j, tx' = [tx EXCEPT ![r] = j], j.op # "idle" => UploadJob(j) /\ j.id = x,
           IsOpen(r) \/ j.op # "idle",
           tangled \subseteq tangled', \A y \in Owner \ {x} : SameRow(y),
           x \in Owner => RowFiles(x)' \subseteq Mine(r, x, N), Held(r)' \subseteq Mine(r, x, N),
           ~IsOpen(r) => \A k \in Request : IsOpen(k) /\ tx[k].id = x => x \in tangled' \cup {0},
           NEW G, Spared(G), G \subseteq Mine(r, x, N) \cup (DOMAIN files \ Named'),
           x \in Owner \ tangled' => RowStands(x)',
           j.op # "idle" /\ x \notin tangled' => Ready(j)'
    PROVE  UploadsInv'
<1> DEFINE M == Mine(r, x, N)
<1>1. /\ \A y \in Owner \ {x} : M \cap RowFiles(y) = {}
      /\ \A k \in Request \ {r} : IsOpen(k) /\ (tx[k].id # x \/ x = 0) => M \cap Held(k) = {}
  BY MineIsMine
<1>2. G \subseteq M \cup (DOMAIN files \ Named')
  OBVIOUS
<1>3. /\ DOMAIN tx' = Request /\ tx'[r] = j /\ \A k \in Request \ {r} : tx'[k] = tx[k]
      /\ \A k \in Request \ {r} : IsOpen(k)' = IsOpen(k) /\ Held(k)' = Held(k)
      /\ IsOpen(r)' <=> j.op # "idle"
  BY TxAfter
<1>4. \A y \in Owner \ {x} : RowFiles(y)' = RowFiles(y)
  BY SameRowFiles
<1>5. OneOwner'
  BY <1>4, OwnersKept
<1> HIDE DEF M
<1>6. ASSUME NEW k \in Request \ {r}, IsOpen(k), tx[k].id = x PROVE x \in tangled' \cup {0}
  <2>1. CASE IsOpen(r)
    <3>1. tx[r].id = x
      BY <1>6, <2>1 DEF WritesTo
    <3>. QED  BY <1>6, <2>1, <3>1 DEF UploadsInv, OneReader
  <2>. QED  BY <1>6, <2>1
<1>7. OneReader'
  <2>. SUFFICES ASSUME NEW k \in Request, NEW m \in Request, k # m, IsOpen(k)', IsOpen(m)',
                       tx'[k].id = tx'[m].id
                PROVE  tx'[k].id \in tangled' \cup {0}
    BY DEF OneReader
  <2>1. CASE k = r
    BY <2>1, <1>3, <1>6
  <2>2. CASE m = r
    BY <2>2, <1>3, <1>6
  <2>3. CASE k # r /\ m # r
    BY <2>3, <1>3 DEF UploadsInv, OneReader
  <2>. QED  BY <2>1, <2>2, <2>3
<1>8. \A y \in Owner \ {x} : RowFiles(y) \cap G = {}
  BY <1>1, <1>2, <1>4, NamedNext
<1>9. \A k \in Request \ {r} : IsOpen(k) /\ (tx[k].id # x \/ x = 0) => Held(k) \cap G = {}
  BY <1>1, <1>2, <1>3, NamedNext
<1>10. RowsStand'
  <2>. SUFFICES ASSUME NEW y \in Owner \ tangled' PROVE RowStands(y)'
    BY DEF RowsStand
  <2>1. CASE y = x
    BY <2>1
  <2>2. CASE y # x
    BY <2>2, <1>8, SameRowStands DEF UploadsInv, RowsStand
  <2>. QED  BY <2>1, <2>2
<1>11. UploadJobs'
  <2>1. tx'[r].op # "idle" => UploadJob(tx'[r]) /\ (tx'[r].id \notin tangled' => Ready(tx[r])')
    BY <1>3 DEF Ready, PupilStands
  <2>2. ASSUME NEW k \in Request \ {r}, IsOpen(k)'
        PROVE  UploadJob(tx'[k]) /\ (tx'[k].id \notin tangled' => Ready(tx[k])')
    <3>1. IsOpen(k) /\ tx'[k] = tx[k] /\ UploadJob(tx[k])
      BY <1>3, <2>2 DEF UploadsInv, UploadJobs
    <3>2. ASSUME tx[k].id \notin tangled' PROVE Ready(tx[k])'
      <4>1. Ready(tx[k])
        BY <3>1, <3>2 DEF UploadsInv, UploadJobs
      <4>2. tx[k].id # x \/ x = 0
        BY <1>6, <3>1, <3>2
      <4>3. Held(k) \cap G = {}
        BY <1>9, <3>1, <4>2
      <4>4. tx[k].id \in Owner => RowFiles(tx[k].id)' \subseteq RowFiles(tx[k].id)
        <5>. SUFFICES ASSUME tx[k].id \in Owner
                      PROVE  RowFiles(tx[k].id)' \subseteq RowFiles(tx[k].id)
          OBVIOUS
        <5>1. PICK y \in Owner \ {x} : y = tx[k].id
          BY <4>2, Bounds
        <5>2. RowFiles(y)' = RowFiles(y)
          BY <1>4
        <5>. QED  BY <5>1, <5>2, <3>1 DEF RowFiles
      <4>. QED  BY <3>1, <4>1, <4>3, <4>4, ReadyStays
    <3>. QED  BY <3>1, <3>2
  <2>3. \A k \in Request : IsOpen(k)' => UploadJob(tx[k])' /\ (tx'[k].id \notin tangled' => Ready(tx[k])')
    <3>1. \A k \in Request : IsOpen(k)' =>
              UploadJob(tx'[k]) /\ (tx'[k].id \notin tangled' => Ready(tx[k])')
      BY <2>1, <2>2, <1>3
    <3>. QED  BY <3>1 DEF UploadJob
  <2>. QED  BY <2>3, <1>3 DEF UploadJobs
<1>. QED  BY <1>5, <1>7, <1>10, <1>11 DEF UploadsInv
----------------------------------------------------------------------------
(* What handlers look at *)
FilesTyped == DOMAIN files \subseteq 1 .. MaxFiles /\ files \in [DOMAIN files -> 0 .. MaxNumber]

LEMMA NoneGone == UNCHANGED files => Spared({})
  BY DEF Spared

LEMMA OneSaved ==
    ASSUME FilesTyped, NEW f \in 0 .. MaxFiles, f \notin DOMAIN files, NEW says \in 0 .. MaxNumber,
           files' = With(files, f, says)
    PROVE  /\ FilesTyped' /\ Spared({})
           /\ f # 0 => f \in DOMAIN files' /\ files'[f] = says
<1>1. DOMAIN files' = (DOMAIN files \cup {f}) \ {0}
  BY DEF With
<1>2. \A g \in DOMAIN files' : files'[g] = IF g = f THEN says ELSE files[g]
  BY DEF With
<1>3. 0 \notin DOMAIN files
  BY Bounds DEF FilesTyped
<1>4. files' = [g \in DOMAIN files' |-> files'[g]]
  BY DEF With
<1>. QED  BY <1>1, <1>2, <1>3, <1>4, Bounds DEF FilesTyped, Spared

LEMMA TwoSaved ==
    ASSUME FilesTyped, NEW f \in 0 .. MaxFiles, f \notin DOMAIN files,
           NEW g \in 0 .. MaxFiles, g \notin DOMAIN files, g # 0 => g # f,
           NEW says \in 0 .. MaxNumber, files' = With(With(files, f, 0), g, says)
    PROVE  /\ FilesTyped' /\ Spared({})
           /\ f # 0 => f \in DOMAIN files'
           /\ g # 0 => g \in DOMAIN files' /\ files'[g] = says
<1> DEFINE F == With(files, f, 0)
<1>1. /\ DOMAIN F = (DOMAIN files \cup {f}) \ {0}
      /\ \A h \in DOMAIN F : F[h] = IF h = f THEN 0 ELSE files[h]
  BY DEF With
<1>2. files' = With(F, g, says)
  OBVIOUS
<1> HIDE DEF F
<1>3. /\ DOMAIN files' = (DOMAIN F \cup {g}) \ {0}
      /\ \A h \in DOMAIN files' : files'[h] = IF h = g THEN says ELSE F[h]
      /\ files' = [h \in DOMAIN files' |-> files'[h]]
  BY <1>2 DEF With
<1>4. 0 \notin DOMAIN files
  BY Bounds DEF FilesTyped
<1>5. \A h \in DOMAIN files : h \in DOMAIN files' /\ files'[h] = files[h]
  BY <1>1, <1>3, <1>4
<1>6. \A h \in DOMAIN files' : files'[h] \in 0 .. MaxNumber /\ h \in 1 .. MaxFiles
  BY <1>1, <1>3, Bounds DEF FilesTyped
<1>. QED  BY <1>1, <1>3, <1>5, <1>6 DEF FilesTyped, Spared

LEMMA ReadsKeeps ==
    ASSUME UploadsInv, NEW r \in Request, NEW j, Look(r, j), UploadJob(j), j.op # "idle",
           j.id \in Owner \cup {0},
           tangled' = tangled \cup Shared(j.id), UNCHANGED <<pupils, shows>>,
           FilesTyped', Spared({}), NEW N, NotUsed(N),
           j.named \ {0} \subseteq N \cup (IF j.id \in Owner THEN RowFiles(j.id) ELSE {}),
           j.id \notin tangled' => Ready(j)'
    PROVE  UploadsInv'
<1> DEFINE x == j.id
<1>1. tx' = [tx EXCEPT ![r] = j] /\ ~IsOpen(r) /\ WritesTo(r, x)
  BY DEF Look, WritesTo
<1>2. tangled \subseteq tangled' /\ tangled' \subseteq Owner /\ 0 \notin tangled'
      /\ \A k \in Request : IsOpen(k) /\ tx[k].id = x => x \in tangled' \cup {0}
  BY Bounds DEF Shared, UploadsInv, UploadRows
<1>3. UploadRows'
  BY <1>2 DEF UploadsInv, UploadRows, FilesTyped, PupilRow
<1>4. \A y \in Owner : SameRow(y)
  BY DEF SameRow
<1>5. \A y \in Owner : RowFiles(y)' = RowFiles(y)
  BY <1>4, SameRowFiles
<1>6. x \in Owner => RowFiles(x)' \subseteq Mine(r, x, N)
  BY <1>5 DEF Mine
<1>7. Held(r)' \subseteq Mine(r, x, N)
  <2>1. Held(r)' \subseteq j.named \ {0}
    BY <1>1, TxAfter DEF Held
  <2>. QED  BY <2>1 DEF Mine
<1>8. x \in Owner \ tangled' => RowStands(x)'
  <2>. SUFFICES ASSUME x \in Owner \ tangled' PROVE RowStands(x)'
    OBVIOUS
  <2>1. RowStands(x)
    BY <1>2 DEF UploadsInv, RowsStand
  <2>2. x \in DOMAIN pupils => PupilStands(pupils[x])'
    <3>. SUFFICES ASSUME x \in DOMAIN pupils PROVE PupilStands(pupils[x])'
      OBVIOUS
    <3>1. PICK row \in PupilRow : row = pupils[x]
      BY DEF UploadsInv, UploadRows
    <3>2. PupilStands(row)'
      BY <2>1, <3>1, RowStandsStill DEF RowStands
    <3>. QED  BY <3>1, <3>2 DEF PupilStands
  <2>3. x \in DOMAIN shows => Images(shows[x]) \subseteq DOMAIN files'
    BY <2>1 DEF RowStands, Spared
  <2>. QED  BY <2>2, <2>3 DEF RowStands
<1>9. x \in Owner \cup {0} /\ (j.op # "idle" => UploadJob(j) /\ j.id = x)
  OBVIOUS
<1>10. j.op # "idle" /\ x \notin tangled' => Ready(j)'
  OBVIOUS
<1>11. /\ \A y \in Owner \ {x} : SameRow(y)
       /\ {} \subseteq Mine(r, x, N) \cup (DOMAIN files \ Named')
  BY <1>4
<1> HIDE DEF x
<1>. QED  BY <1>1, <1>2, <1>3, <1>6, <1>7, <1>8, <1>9, <1>10, <1>11, UploadsKept

LEMMA ToAdmitKeeps ==
    ASSUME UploadsInv, NEW r \in Request, NEW hasPhoto \in BOOLEAN, LookToAdmit(r, hasPhoto)
    PROVE  UploadsInv'
<1>1. PICK photo : photo = IF hasPhoto THEN NewFile ELSE 0
  OBVIOUS
<1>2. PICK qr : qr = After(photo)
  OBVIOUS
<1>3. PICK row : row = [number |-> NextNumber, photo |-> photo, qr |-> qr]
  OBVIOUS
<1>4. /\ NextNumber <= MaxNumber /\ qr <= MaxFiles
      /\ files' = With(With(files, photo, 0), qr, NextNumber)
      /\ Reads(r, "admit", 0, row, {}, Images(photo) \cup {qr}, {})
  BY <1>1, <1>2, <1>3 DEF LookToAdmit
<1>5. PICK j : j = [op |-> "admit", id |-> 0, row |-> row, new |-> Images(photo) \cup {qr}, old |-> {},
                    named |-> {} \cup (Images(photo) \cup {qr}) \cup {}]
  OBVIOUS
<1>6. /\ qr \in 1 .. MaxFiles /\ photo \in 0 .. MaxFiles /\ qr # photo
      /\ NotUsed({qr}) /\ (photo # 0 => NotUsed({photo}))
  <2>1. photo \in {0, NewFile} /\ photo \in Nat
    BY <1>1, NewNames
  <2>2. qr \in Nat \ {0} /\ qr # photo /\ NotUsed({qr}) /\ photo <= qr
    BY <1>2, <2>1, NewNames
  <2>. QED  BY <1>1, <1>4, <2>1, <2>2, NewNames, Bounds
<1>7. /\ Look(r, j) /\ tangled' = tangled \cup Shared(j.id) /\ UNCHANGED <<pupils, shows>>
      /\ j.id = 0 /\ j.op = "admit" /\ j.named = FilesOf(row) /\ j.row = row /\ j.new = FilesOf(row)
      /\ j.old = {}
  BY <1>3, <1>4, <1>5 DEF Reads, FilesOf
<1>8. NextNumber \in 1 .. MaxNumber
  BY <1>4, NextNumberIs, Bounds
<1>9. row \in PupilRow /\ FilesOf(row) = Images(photo) \cup {qr} /\ row.number = NextNumber
      /\ row.qr = qr
  BY <1>3, <1>6, <1>8 DEF PupilRow, FilesOf
<1>10. /\ FilesTyped' /\ Spared({}) /\ (photo # 0 => photo \in DOMAIN files')
       /\ qr \in DOMAIN files' /\ files'[qr] = NextNumber
  <2>1. FilesTyped /\ NextNumber \in 0 .. MaxNumber /\ qr \in 0 .. MaxFiles /\ qr # 0
    BY <1>6, <1>8 DEF UploadsInv, UploadRows, FilesTyped
  <2>2. photo \notin DOMAIN files /\ qr \notin DOMAIN files
    BY <1>6, <2>1, Bounds DEF NotUsed, FilesTyped
  <2>. QED  BY <1>4, <1>6, <2>1, <2>2, TwoSaved
<1>11. UploadJob(j)
  <2>1. FilesOf(row) \subseteq 0 .. MaxFiles
    BY <1>6, <1>9, Bounds DEF Images
  <2>. QED  BY <1>7, <1>9, <2>1 DEF UploadJob
<1>12. PupilStands(row)'
  BY <1>9, <1>10 DEF PupilStands, Images
<1>13. Ready(j)'
  BY <1>7, <1>12 DEF Ready, PupilStands
<1>14. NotUsed(FilesOf(row))
  BY <1>6, <1>9 DEF NotUsed, Images
<1>. QED  BY <1>7, <1>10, <1>11, <1>13, <1>14, ReadsKeeps

LEMMA ToEditKeeps ==
    ASSUME UploadsInv, NEW r \in Request, NEW p \in DOMAIN pupils, NEW number \in 1 .. MaxNumber,
           NEW hasPhoto \in BOOLEAN, LookToEdit(r, p, number, hasPhoto)
    PROVE  UploadsInv'
<1>1. PICK was \in PupilRow : was = pupils[p]
  BY DEF UploadsInv, UploadRows
<1>2. PICK photo : photo = IF hasPhoto THEN NewFile ELSE 0
  OBVIOUS
<1>3. PICK qr : qr = IF number = was.number THEN 0 ELSE After(photo)
  OBVIOUS
<1>4. PICK row : row = [number |-> number, photo |-> IF hasPhoto THEN photo ELSE was.photo,
                        qr |-> IF qr = 0 THEN was.qr ELSE qr]
  OBVIOUS
<1>5. /\ photo <= MaxFiles /\ qr <= MaxFiles
      /\ files' = With(With(files, photo, 0), qr, number)
      /\ Reads(r, "edit", p, row, {row.photo, row.qr}, Images(photo) \cup Images(qr),
               Superseded(was, row))
  BY <1>1, <1>2, <1>3, <1>4 DEF LookToEdit
<1>6. PICK j : j = [op |-> "edit", id |-> p, row |-> row, new |-> Images(photo) \cup Images(qr),
                    old |-> Superseded(was, row),
                    named |-> {row.photo, row.qr} \cup (Images(photo) \cup Images(qr))
                              \cup Superseded(was, row)]
  OBVIOUS
<1>7. /\ Look(r, j) /\ tangled' = tangled \cup Shared(j.id) /\ UNCHANGED <<pupils, shows>>
      /\ j.id = p /\ j.op = "edit" /\ j.row = row /\ j.new = Images(photo) \cup Images(qr)
      /\ j.old = Superseded(was, row)
      /\ j.named = {row.photo, row.qr} \cup (Images(photo) \cup Images(qr)) \cup Superseded(was, row)
  BY <1>5, <1>6 DEF Reads
<1>8. /\ qr \in 0 .. MaxFiles /\ photo \in 0 .. MaxFiles /\ (qr # 0 => qr # photo /\ NotUsed({qr}))
      /\ (photo # 0 => NotUsed({photo})) /\ (hasPhoto => photo # 0)
      /\ (qr = 0 => number = was.number)
  <2>1. photo \in {0, NewFile} /\ photo \in Nat /\ (hasPhoto => photo # 0)
    BY <1>2, NewNames
  <2>2. qr # 0 => qr \in Nat /\ qr # photo /\ NotUsed({qr})
    BY <1>3, <2>1, NewNames
  <2>3. qr = 0 => number = was.number
    BY <1>3, <2>1, NewNames
  <2>. QED  BY <1>2, <1>5, <2>1, <2>2, <2>3, NewNames, Bounds
<1>9. /\ FilesTyped' /\ Spared({}) /\ (photo # 0 => photo \in DOMAIN files')
      /\ (qr # 0 => qr \in DOMAIN files' /\ files'[qr] = number)
  <2>1. FilesTyped /\ number \in 0 .. MaxNumber
    BY Bounds DEF UploadsInv, UploadRows, FilesTyped
  <2>2. photo \notin DOMAIN files /\ qr \notin DOMAIN files
    BY <1>8, <2>1, Bounds DEF NotUsed, FilesTyped
  <2>. QED  BY <1>5, <1>8, <2>1, <2>2, TwoSaved
<1>10. /\ was.photo \in 0 .. MaxFiles /\ was.qr \in 1 .. MaxFiles /\ p \in Pupil
       /\ RowFiles(p) = FilesOf(was)
  BY <1>1, Bounds DEF PupilRow, RowFiles, UploadsInv, UploadRows
<1>11. /\ row \in PupilRow /\ row.number = number
       /\ row.photo = (IF hasPhoto THEN photo ELSE was.photo)
       /\ row.qr = (IF qr = 0 THEN was.qr ELSE qr)
  BY <1>4, <1>8, <1>10, Bounds DEF PupilRow
<1>12. UploadJob(j)
  <2>1. /\ Superseded(was, row) \subseteq 0 .. MaxFiles
        /\ {row.photo, row.qr} \subseteq 0 .. MaxFiles
        /\ Images(photo) \cup Images(qr) \subseteq 0 .. MaxFiles
    BY <1>8, <1>10, <1>11, Bounds DEF Superseded, Images, PupilRow
  <2>2. /\ FilesOf(row) \subseteq {row.photo, row.qr}
        /\ Images(photo) \cup Images(qr) \subseteq FilesOf(row)
        /\ Superseded(was, row) \cap FilesOf(row) = {}
    BY <1>2, <1>8, <1>11 DEF FilesOf, Images, Superseded
  <2>. QED  BY <1>7, <1>10, <1>11, <2>1, <2>2 DEF UploadJob
<1>13. p \notin tangled' => Ready(j)'
  <2>. SUFFICES ASSUME p \notin tangled' PROVE Ready(j)'
    OBVIOUS
  <2>1. PupilStands(was)
    BY <1>1, <1>7, <1>10, Bounds DEF UploadsInv, RowsStand, RowStands
  <2>2. /\ Images(was.photo) \subseteq DOMAIN files' /\ was.qr \in DOMAIN files'
        /\ files'[was.qr] = was.number
    BY <2>1, <1>9 DEF PupilStands, FilesOf, Spared
  <2>3. PupilStands(row)'
    BY <2>2, <1>8, <1>9, <1>11 DEF PupilStands, FilesOf, Images
  <2>4. j.new \cap RowFiles(p) = {}
    BY <1>7, <1>8, NamedCovers DEF NotUsed, Images
  <2>5. RowFiles(p)' = RowFiles(p)
    BY <1>7, SameRowFiles DEF SameRow
  <2>. QED  BY <2>3, <2>4, <2>5, <1>7 DEF Ready, PupilStands
<1>14. PICK N : N = Images(photo) \cup Images(qr)
  OBVIOUS
<1>15. NotUsed(N)
  BY <1>8, <1>14 DEF NotUsed, Images
<1>16. p \in Owner /\ j.named \ {0} \subseteq N \cup RowFiles(p)
  BY <1>7, <1>8, <1>10, <1>11, <1>14, Bounds DEF FilesOf, Images, Superseded
<1>. QED  BY <1>7, <1>9, <1>12, <1>13, <1>15, <1>16, ReadsKeeps

LEMMA ToPublishKeeps ==
    ASSUME UploadsInv, NEW r \in Request, NEW s \in Show, NEW image \in {0, NewFile},
           NEW remove \in BOOLEAN, LookToPublish(r, s, image, remove)
    PROVE  UploadsInv'
<1>1. PICK was : was = IF s \in DOMAIN shows THEN shows[s] ELSE 0
  OBVIOUS
<1>2. PICK now : now = IF image # 0 THEN image ELSE IF remove THEN 0 ELSE was
  OBVIOUS
<1>3. PICK op : op = IF s \in DOMAIN shows THEN "change" ELSE "publish"
  OBVIOUS
<1>4. PICK id : id = IF s \in DOMAIN shows THEN s ELSE 0
  OBVIOUS
<1>5. /\ image <= MaxFiles /\ files' = With(files, image, 0)
      /\ Reads(r, op, id, now, {now}, Images(image), {was} \ {0, now})
  BY <1>1, <1>2, <1>3, <1>4 DEF LookToPublish
<1>6. PICK j : j = [op |-> op, id |-> id, row |-> now, new |-> Images(image), old |-> {was} \ {0, now},
                    named |-> {now} \cup Images(image) \cup ({was} \ {0, now})]
  OBVIOUS
<1>7. /\ Look(r, j) /\ tangled' = tangled \cup Shared(j.id) /\ UNCHANGED <<pupils, shows>>
      /\ j.id = id /\ j.op = op /\ j.row = now /\ j.new = Images(image) /\ j.old = {was} \ {0, now}
      /\ j.named = {now} \cup Images(image) \cup ({was} \ {0, now})
  BY <1>5, <1>6 DEF Reads
<1>8. image \in 0 .. MaxFiles /\ (image # 0 => NotUsed({image}))
  BY <1>5, NewNames, Bounds
<1>9. was \in 0 .. MaxFiles /\ now \in 0 .. MaxFiles /\ (image # 0 => now = image)
      /\ (image = 0 => now \in {0, was})
  BY <1>1, <1>2, <1>8, Bounds DEF UploadsInv, UploadRows
<1>10. /\ FilesTyped' /\ Spared({}) /\ (image # 0 => image \in DOMAIN files')
  <2>1. FilesTyped /\ 0 \in 0 .. MaxNumber
    BY Bounds DEF UploadsInv, UploadRows, FilesTyped
  <2>2. image \notin DOMAIN files
    BY <1>8, <2>1, Bounds DEF NotUsed, FilesTyped
  <2>. QED  BY <1>5, <1>8, <2>1, <2>2, OneSaved
<1>11. /\ op \in {"change", "publish"} /\ (op = "publish" => id = 0 /\ was = 0)
       /\ (op = "change" => id = s /\ s \in DOMAIN shows /\ was = shows[s])
       /\ id \in Owner \cup {0} /\ (id \in Owner => op = "change")
  BY <1>1, <1>3, <1>4, Bounds
<1>12. UploadJob(j)
  <2>1. j.named \subseteq 0 .. MaxFiles /\ j.old \subseteq j.named
    BY <1>7, <1>8, <1>9, Bounds DEF Images
  <2>2. Images(now) \subseteq j.named /\ Images(image) \subseteq Images(now) /\ j.old \cap Images(now) = {}
    BY <1>7, <1>9 DEF Images
  <2>. QED  BY <1>7, <1>9, <1>11, <2>1, <2>2 DEF UploadJob
<1>13. op = "change" => RowFiles(s) = Images(was)
  BY <1>11, Bounds DEF RowFiles, UploadsInv, UploadRows
<1>14. id \notin tangled' => Ready(j)'
  <2>. SUFFICES ASSUME id \notin tangled' PROVE Ready(j)'
    OBVIOUS
  <2>1. Images(was) \subseteq DOMAIN files'
    <3>1. op = "change" => Images(was) \subseteq DOMAIN files
      BY <1>7, <1>11, Bounds DEF UploadsInv, RowsStand, RowStands
    <3>2. op = "publish" => Images(was) = {}
      BY <1>11 DEF Images
    <3>. QED  BY <3>1, <3>2, <1>10, <1>11 DEF Spared
  <2>2. Images(now) \subseteq DOMAIN files'
    BY <2>1, <1>9, <1>10 DEF Images
  <2>3. op = "change" => j.new \cap RowFiles(s) = {}
    BY <1>7, <1>8, NamedCovers DEF NotUsed, Images
  <2>4. RowFiles(s)' = RowFiles(s)
    BY <1>7, SameRowFiles DEF SameRow
  <2>. QED  BY <2>2, <2>3, <2>4, <1>7, <1>11 DEF Ready
<1>15. PICK N : N = Images(image)
  OBVIOUS
<1>16. NotUsed(N)
  BY <1>8, <1>15 DEF NotUsed, Images
<1>17. j.named \ {0} \subseteq N \cup (IF j.id \in Owner THEN RowFiles(j.id) ELSE {})
  BY <1>7, <1>9, <1>11, <1>13, <1>15, Bounds DEF Images
<1>. QED  BY <1>7, <1>10, <1>11, <1>12, <1>14, <1>16, <1>17, ReadsKeeps

LEMMA ToRemoveKeeps ==
    ASSUME UploadsInv, NEW r \in Request, NEW s \in DOMAIN shows, LookToRemoveEvent(r, s)
    PROVE  UploadsInv'
<1>1. PICK j : j = [op |-> "remove", id |-> s, row |-> 0, new |-> {}, old |-> Images(shows[s]),
                    named |-> {} \cup {} \cup Images(shows[s])]
  OBVIOUS
<1>2. /\ Look(r, j) /\ tangled' = tangled \cup Shared(j.id) /\ UNCHANGED <<pupils, shows, files>>
      /\ j.id = s /\ j.op = "remove" /\ j.old = Images(shows[s]) /\ j.named = Images(shows[s])
  BY <1>1 DEF LookToRemoveEvent, Reads
<1>3. /\ s \in Show /\ s \in Owner /\ shows[s] \in 0 .. MaxFiles
      /\ Images(shows[s]) \subseteq RowFiles(s)
  BY Bounds DEF UploadsInv, UploadRows, RowFiles
<1>4. UploadJob(j) /\ Ready(j)'
  BY <1>2, <1>3 DEF UploadJob, Ready, Images
<1>5. FilesTyped' /\ Spared({})
  BY <1>2, NoneGone DEF UploadsInv, UploadRows, FilesTyped
<1>6. NotUsed({})
  BY DEF NotUsed
<1>. QED  BY <1>2, <1>3, <1>4, <1>5, <1>6, ReadsKeeps
----------------------------------------------------------------------------
(* What handlers write *)
LEMMA UploadEnds ==
    ASSUME UploadsInv, NEW r \in Request, End({r})
    PROVE  tx' = [tx EXCEPT ![r] = Idle] /\ Held(r)' = {}
<1>1. tx' = [tx EXCEPT ![r] = Idle]
  BY DEF UploadsInv, UploadJobs, End
<1>2. tx'[r].op = "idle"
  BY <1>1 DEF UploadsInv, UploadJobs, Idle
<1>. QED  BY <1>1, <1>2 DEF Held, IsOpen

LEMMA FilesForgotten ==
    ASSUME UploadsInv, Forgotten PROVE FilesTyped' /\ Spared(DOMAIN files \ Named')
<1>1. /\ DOMAIN files' = DOMAIN files \cap Named'
      /\ \A f \in DOMAIN files' : files'[f] = files[f]
      /\ files' = [f \in DOMAIN files' |-> files'[f]]
  BY DEF Forgotten
<1>. QED  BY <1>1 DEF UploadsInv, UploadRows, FilesTyped, Spared

LEMMA FilesRemoved ==
    ASSUME UploadsInv, NEW F, files' = Removed(F) PROVE FilesTyped' /\ Spared(F \ {0})
<1>1. /\ DOMAIN files' = DOMAIN files \ F
      /\ \A f \in DOMAIN files' : files'[f] = files[f]
      /\ files' = [f \in DOMAIN files' |-> files'[f]]
  BY DEF Removed
<1>2. 0 \notin DOMAIN files
  BY Bounds DEF UploadsInv, UploadRows
<1>. QED  BY <1>1, <1>2 DEF UploadsInv, UploadRows, FilesTyped, Spared

\* An open request reads a row of one table, or is to add one to it.
LEMMA OpenJob ==
    ASSUME UploadsInv, NEW r \in Request, tx[r].op # "idle"
    PROVE  /\ IsOpen(r) /\ UploadJob(tx[r]) /\ Held(r) = tx[r].named \ {0}
           /\ tx[r].id \in Owner \cup {0} /\ tx[r].id \notin DOMAIN pupils \cap DOMAIN shows
           /\ tx[r].id \notin tangled => Ready(tx[r])
           /\ 0 \notin tangled
<1>1. IsOpen(r) /\ UploadJob(tx[r]) /\ (tx[r].id \notin tangled => Ready(tx[r]))
  BY DEF IsOpen, UploadsInv, UploadJobs
<1>2. 0 \notin tangled /\ DOMAIN pupils \cap DOMAIN shows = {}
  BY Bounds DEF UploadsInv, UploadRows
<1>. QED  BY <1>1, <1>2, Bounds DEF UploadJob, Held

LEMMA AdmitKeeps ==
    ASSUME UploadsInv, NEW r \in Request, NEW p \in Pupil, Admit(r, p) PROVE UploadsInv'
<1>1. /\ tx[r].op = "admit" /\ p \notin DOMAIN pupils /\ Shared(p) = {}
      /\ tx[r].row.number \notin Numbers(pupils)
      /\ pupils' = Put(pupils, p, tx[r].row) /\ End({r}) /\ UNCHANGED <<shows, files, tangled>>
  BY DEF Admit
<1>2. /\ IsOpen(r) /\ UploadJob(tx[r]) /\ Held(r) = tx[r].named \ {0} /\ 0 \notin tangled
      /\ tx[r].id = 0 /\ Ready(tx[r])
  BY <1>1, OpenJob DEF UploadJob
<1>3. PICK row \in PupilRow : row = tx[r].row
  BY <1>1, <1>2 DEF UploadJob
<1>4. /\ DOMAIN pupils' = DOMAIN pupils \cup {p} /\ pupils'[p] = row
      /\ \A y \in DOMAIN pupils : pupils'[y] = pupils[y]
      /\ pupils' = [y \in DOMAIN pupils' |-> pupils'[y]]
  BY <1>1, <1>3 DEF Put
<1>5. UploadRows'
  <2>1. IsFiniteSet(DOMAIN pupils')
    BY <1>4, FS_AddElement DEF UploadsInv, UploadRows
  <2>2. pupils' \in [DOMAIN pupils' -> PupilRow]
    BY <1>4 DEF UploadsInv, UploadRows
  <2>3. \A q \in DOMAIN pupils : pupils[q].number # row.number
    BY <1>1, <1>3 DEF Numbers
  <2>4. \A y, q \in DOMAIN pupils' : pupils'[y].number = pupils'[q].number => y = q
    BY <1>4, <2>3 DEF UploadsInv, UploadRows
  <2>. QED  BY <1>1, <1>4, <2>1, <2>2, <2>4 DEF UploadsInv, UploadRows, PupilRow
<1>6. p \in Owner /\ p \notin DOMAIN shows /\ p # 0
  BY Bounds DEF UploadsInv, UploadRows
<1>7. WritesTo(r, p)
  BY <1>1, <1>2, <1>6 DEF WritesTo, Shared
<1>8. RowFiles(p)' = FilesOf(row)
  BY <1>1, <1>4, <1>6 DEF RowFiles, FilesOf
<1>9. FilesOf(row) \subseteq Held(r)
  BY <1>1, <1>2, <1>3, Bounds DEF UploadJob, FilesOf, Images, PupilRow
<1>10. /\ RowFiles(p)' \subseteq Mine(r, p, {}) /\ Held(r)' \subseteq Mine(r, p, {})
       /\ {} \subseteq Mine(r, p, {}) \cup (DOMAIN files \ Named')
  BY <1>1, <1>8, <1>9, UploadEnds DEF Mine
<1>11. RowStands(p)'
  BY <1>1, <1>2, <1>3, <1>4, <1>6 DEF Ready, RowStands, PupilStands
<1>12. \A y \in Owner \ {p} : SameRow(y)
  BY <1>1, <1>4 DEF SameRow
<1>13. NotUsed({}) /\ Spared({}) /\ tx' = [tx EXCEPT ![r] = Idle] /\ Idle.op = "idle"
  BY <1>1, UploadEnds, NoneGone DEF NotUsed, Idle
<1>. QED  BY <1>1, <1>2, <1>5, <1>6, <1>7, <1>10, <1>11, <1>12, <1>13, UploadsKept

LEMMA PublishKeeps ==
    ASSUME UploadsInv, NEW r \in Request, NEW s \in Show, Publish(r, s) PROVE UploadsInv'
<1>1. /\ tx[r].op = "publish" /\ s \notin DOMAIN shows /\ Shared(s) = {}
      /\ shows' = Put(shows, s, tx[r].row) /\ End({r}) /\ UNCHANGED <<pupils, files, tangled>>
  BY DEF Publish
<1>2. /\ IsOpen(r) /\ UploadJob(tx[r]) /\ Held(r) = tx[r].named \ {0} /\ 0 \notin tangled
      /\ tx[r].id = 0 /\ Ready(tx[r])
  BY <1>1, OpenJob DEF UploadJob
<1>3. PICK row \in 0 .. MaxFiles : row = tx[r].row
  BY <1>1, <1>2 DEF UploadJob
<1>4. /\ DOMAIN shows' = DOMAIN shows \cup {s} /\ shows'[s] = row
      /\ \A y \in DOMAIN shows : shows'[y] = shows[y]
      /\ shows' = [y \in DOMAIN shows' |-> shows'[y]]
  BY <1>1, <1>3 DEF Put
<1>5. UploadRows'
  <2>1. shows' \in [DOMAIN shows' -> 0 .. MaxFiles]
    BY <1>4 DEF UploadsInv, UploadRows
  <2>. QED  BY <1>1, <1>4, <2>1 DEF UploadsInv, UploadRows, PupilRow
<1>6. s \in Owner /\ s \notin DOMAIN pupils /\ s # 0
  BY Bounds DEF UploadsInv, UploadRows
<1>7. WritesTo(r, s)
  BY <1>1, <1>2, <1>6 DEF WritesTo, Shared
<1>8. RowFiles(s)' = Images(row)
  BY <1>1, <1>4, <1>6 DEF RowFiles
<1>9. Images(row) \subseteq Held(r)
  BY <1>1, <1>2, <1>3 DEF UploadJob, Images
<1>10. /\ RowFiles(s)' \subseteq Mine(r, s, {}) /\ Held(r)' \subseteq Mine(r, s, {})
       /\ {} \subseteq Mine(r, s, {}) \cup (DOMAIN files \ Named')
  BY <1>1, <1>8, <1>9, UploadEnds DEF Mine
<1>11. RowStands(s)'
  BY <1>1, <1>2, <1>3, <1>4, <1>6 DEF Ready, RowStands
<1>12. \A y \in Owner \ {s} : SameRow(y)
  BY <1>1, <1>4 DEF SameRow
<1>13. NotUsed({}) /\ Spared({}) /\ tx' = [tx EXCEPT ![r] = Idle] /\ Idle.op = "idle"
  BY <1>1, UploadEnds, NoneGone DEF NotUsed, Idle
<1>. QED  BY <1>1, <1>2, <1>5, <1>6, <1>7, <1>10, <1>11, <1>12, <1>13, UploadsKept

LEMMA EditPupilKeeps ==
    ASSUME UploadsInv, NEW r \in Request, EditPupil(r) PROVE UploadsInv'
<1>0. PICK p : p = tx[r].id
  OBVIOUS
<1>1. /\ tx[r].op = "edit" /\ p \in DOMAIN pupils
      /\ tx[r].row.number \notin Numbers(Drop(pupils, p))
      /\ pupils' = [pupils EXCEPT ![p] = tx[r].row] /\ ToTidy(r)
      /\ UNCHANGED <<shows, files, tangled>>
  BY <1>0 DEF EditPupil
<1>2. /\ IsOpen(r) /\ UploadJob(tx[r]) /\ Held(r) = tx[r].named \ {0} /\ p \in Owner /\ p # 0
      /\ (p \notin tangled => Ready(tx[r])) /\ p \notin DOMAIN shows
  BY <1>0, <1>1, OpenJob, Bounds DEF UploadJob
<1>3. PICK row \in PupilRow : row = tx[r].row
  BY <1>1, <1>2 DEF UploadJob
<1>4. /\ DOMAIN pupils' = DOMAIN pupils /\ pupils'[p] = row
      /\ \A y \in DOMAIN pupils \ {p} : pupils'[y] = pupils[y]
      /\ pupils' = [y \in DOMAIN pupils' |-> pupils'[y]]
  BY <1>1, <1>3 DEF UploadsInv, UploadRows
<1>5. UploadRows'
  <2>2. pupils' \in [DOMAIN pupils' -> PupilRow]
    BY <1>4 DEF UploadsInv, UploadRows
  <2>3. \A q \in DOMAIN pupils \ {p} : pupils[q].number # row.number
    BY <1>1, <1>3 DEF Numbers, Drop
  <2>4. \A y, q \in DOMAIN pupils' : pupils'[y].number = pupils'[q].number => y = q
    BY <1>4, <2>3 DEF UploadsInv, UploadRows
  <2>. QED  BY <1>1, <1>4, <2>2, <2>4 DEF UploadsInv, UploadRows, PupilRow
<1>6. PICK j : j = [op |-> "tidy", id |-> p, old |-> tx[r].old, named |-> tx[r].old]
  OBVIOUS
<1>7. tx' = [tx EXCEPT ![r] = j] /\ j.op = "tidy" /\ j.id = p /\ j.old = tx[r].old /\ j.named = tx[r].old
  BY <1>0, <1>1, <1>6 DEF ToTidy, Proceed
<1>8. RowFiles(p)' = FilesOf(row) /\ Held(r)' = j.old \ {0}
  BY <1>1, <1>2, <1>4, <1>7, TxAfter DEF RowFiles, FilesOf, Held
<1>9. FilesOf(row) \subseteq Held(r) /\ j.old \ {0} \subseteq Held(r) /\ j.old \cap FilesOf(row) = {}
  BY <1>1, <1>2, <1>3, <1>7, Bounds DEF UploadJob, FilesOf, Images, PupilRow
<1>10. /\ RowFiles(p)' \subseteq Mine(r, p, {}) /\ Held(r)' \subseteq Mine(r, p, {})
       /\ {} \subseteq Mine(r, p, {}) \cup (DOMAIN files \ Named')
  BY <1>8, <1>9 DEF Mine
<1>11. UploadJob(j)
  BY <1>1, <1>2, <1>7 DEF UploadJob
<1>12. Ready(j)'
  BY <1>7, <1>8, <1>9 DEF Ready
<1>13. p \notin tangled' => RowStands(p)'
  BY <1>1, <1>2, <1>3, <1>4 DEF Ready, RowStands, PupilStands
<1>14. \A y \in Owner \ {p} : SameRow(y)
  BY <1>1, <1>4 DEF SameRow
<1>15. NotUsed({}) /\ Spared({}) /\ WritesTo(r, p)
  BY <1>0, <1>1, NoneGone DEF NotUsed, WritesTo
<1>. QED
  BY <1>1, <1>2, <1>5, <1>7, <1>10, <1>11, <1>12, <1>13, <1>14, <1>15, UploadsKept

\* The rows that are read are deleted, or changed back to what they may be.
LEMMA DeletePupilKeeps ==
    ASSUME UploadsInv, NEW p \in DOMAIN pupils, DeletePupil(p) PROVE UploadsInv'
<1>1. pupils' = Drop(pupils, p) /\ UNCHANGED <<tx, shows, tangled>> /\ Forgotten
  BY DEF DeletePupil
<1>2. /\ DOMAIN pupils' = DOMAIN pupils \ {p}
      /\ \A y \in DOMAIN pupils' : pupils'[y] = pupils[y]
      /\ pupils' = [y \in DOMAIN pupils' |-> pupils'[y]]
  BY <1>1 DEF Drop
<1>3. FilesTyped' /\ Spared(DOMAIN files \ Named')
  BY <1>1, FilesForgotten
<1>4. UploadRows'
  <2>1. IsFiniteSet(DOMAIN pupils')
    BY <1>2, FS_Subset DEF UploadsInv, UploadRows
  <2>2. pupils' \in [DOMAIN pupils' -> PupilRow]
    BY <1>2 DEF UploadsInv, UploadRows
  <2>. QED  BY <1>1, <1>2, <1>3, <2>1, <2>2 DEF UploadsInv, UploadRows, FilesTyped, PupilRow
<1>5. \A y \in Owner \ {p} : SameRow(y)
  BY <1>1, <1>2 DEF SameRow
<1>6. \A y \in Owner : RowFiles(y)' \subseteq RowFiles(y)
  BY <1>1, <1>2 DEF RowFiles, FilesOf
<1>7. \A k \in Request : IsOpen(k)' = IsOpen(k) /\ Held(k)' = Held(k) /\ tx'[k] = tx[k]
  BY <1>1 DEF IsOpen, Held
<1>8. OneOwner'
  BY <1>6, <1>7 DEF UploadsInv, OneOwner
<1>9. OneReader'
  BY <1>1, <1>7 DEF UploadsInv, OneReader
<1>10. RowsStand'
  <2>. SUFFICES ASSUME NEW y \in Owner \ tangled PROVE RowStands(y)'
    BY <1>1 DEF RowsStand
  <2>1. CASE y = p
    <3>1. p \notin DOMAIN pupils' /\ p \notin DOMAIN shows'
      BY <1>1, <1>2, Bounds DEF UploadsInv, UploadRows
    <3>. QED  BY <2>1, <3>1 DEF RowStands
  <2>2. CASE y # p
    <3>1. SameRow(y) /\ RowStands(y) /\ RowFiles(y)' = RowFiles(y)
      BY <2>2, <1>5, SameRowFiles DEF UploadsInv, RowsStand
    <3>2. RowFiles(y) \cap (DOMAIN files \ Named') = {}
      BY <3>1, NamedNext
    <3>. QED  BY <3>1, <3>2, <1>3, SameRowStands
  <2>. QED  BY <2>1, <2>2
<1>11. UploadJobs'
  <2>1. ASSUME NEW k \in Request, IsOpen(k), tx[k].id \notin tangled PROVE Ready(tx[k])'
    <3>1. UploadJob(tx[k]) /\ Ready(tx[k]) /\ tx'[k] = tx[k]
      BY <2>1, <1>7 DEF UploadsInv, UploadJobs
    <3>2. Held(k) \cap (DOMAIN files \ Named') = {}
      BY <1>7, NamedNext
    <3>3. tx[k].id \in Owner => RowFiles(tx[k].id)' \subseteq RowFiles(tx[k].id)
      <4>1. PICK y : y = tx[k].id
        OBVIOUS
      <4>2. y \in Owner => RowFiles(y)' \subseteq RowFiles(y)
        BY <1>6
      <4>. QED  BY <4>1, <4>2, <3>1 DEF RowFiles
    <3>. QED  BY <2>1, <3>1, <3>2, <3>3, <1>3, ReadyStays
  <2>2. \A k \in Request : IsOpen(k)' => UploadJob(tx[k])' /\ (tx'[k].id \notin tangled' => Ready(tx[k])')
    <3>1. \A k \in Request : IsOpen(k) => UploadJob(tx'[k])
      BY <1>7 DEF UploadsInv, UploadJobs
    <3>. QED  BY <2>1, <3>1, <1>1, <1>7 DEF UploadJob
  <2>. QED  BY <1>1, <2>2 DEF UploadsInv, UploadJobs
<1>. QED  BY <1>4, <1>8, <1>9, <1>10, <1>11 DEF UploadsInv

LEMMA EditEventKeeps ==
    ASSUME UploadsInv, NEW r \in Request, EditEvent(r) PROVE UploadsInv'
<1>0. PICK s : s = tx[r].id
  OBVIOUS
<1>1. /\ tx[r].op = "change" /\ ToTidy(r) /\ UNCHANGED <<pupils, tangled>> /\ Forgotten
      /\ shows' = IF s \in DOMAIN shows THEN Put(shows, s, tx[r].row) ELSE shows
  BY <1>0 DEF EditEvent
<1>2. /\ IsOpen(r) /\ UploadJob(tx[r]) /\ Held(r) = tx[r].named \ {0} /\ s \in Owner /\ s \in Show
      /\ (s \notin tangled => Ready(tx[r])) /\ s \notin DOMAIN pupils
  BY <1>0, <1>1, OpenJob, Bounds DEF UploadJob, UploadsInv, UploadRows
<1>3. PICK row \in 0 .. MaxFiles : row = tx[r].row
  BY <1>1, <1>2 DEF UploadJob
<1>4. /\ DOMAIN shows' = DOMAIN shows
      /\ \A y \in DOMAIN shows : shows'[y] = IF y = s THEN row ELSE shows[y]
      /\ shows' = [y \in DOMAIN shows' |-> shows'[y]]
  BY <1>1, <1>3 DEF Put, UploadsInv, UploadRows
<1>5. FilesTyped' /\ Spared(DOMAIN files \ Named')
  BY <1>1, FilesForgotten
<1>6. UploadRows'
  <2>1. shows' \in [DOMAIN shows' -> 0 .. MaxFiles]
    BY <1>4 DEF UploadsInv, UploadRows
  <2>. QED  BY <1>1, <1>4, <1>5, <2>1 DEF UploadsInv, UploadRows, PupilRow, FilesTyped
<1>7. PICK j : j = [op |-> "tidy", id |-> s, old |-> tx[r].old, named |-> tx[r].old]
  OBVIOUS
<1>8. tx' = [tx EXCEPT ![r] = j] /\ j.op = "tidy" /\ j.id = s /\ j.old = tx[r].old /\ j.named = tx[r].old
  BY <1>0, <1>1, <1>7 DEF ToTidy, Proceed
<1>9. RowFiles(s)' \subseteq Images(row) /\ Held(r)' = j.old \ {0}
  BY <1>1, <1>2, <1>4, <1>8, TxAfter DEF RowFiles, Held
<1>10. Images(row) \subseteq Held(r) /\ j.old \ {0} \subseteq Held(r) /\ j.old \cap Images(row) = {}
  BY <1>1, <1>2, <1>3, <1>8 DEF UploadJob, Images
<1>11. /\ RowFiles(s)' \subseteq Mine(r, s, {}) /\ Held(r)' \subseteq Mine(r, s, {})
       /\ DOMAIN files \ Named' \subseteq Mine(r, s, {}) \cup (DOMAIN files \ Named')
  BY <1>9, <1>10 DEF Mine
<1>12. UploadJob(j)
  BY <1>1, <1>2, <1>8 DEF UploadJob
<1>13. Ready(j)'
  BY <1>8, <1>9, <1>10 DEF Ready
<1>14. s \notin tangled' => RowStands(s)'
  <2>. SUFFICES ASSUME s \notin tangled, s \in DOMAIN shows PROVE Images(row) \subseteq DOMAIN files'
    BY <1>1, <1>2, <1>4 DEF RowStands
  <2>1. Images(row) \subseteq DOMAIN files
    BY <1>1, <1>2, <1>3 DEF Ready
  <2>2. Images(row) \subseteq Named'
    BY <1>4 DEF Named, Images
  <2>. QED  BY <2>1, <2>2, <1>5 DEF Spared
<1>15. \A y \in Owner \ {s} : SameRow(y)
  BY <1>1, <1>4 DEF SameRow
<1>16. NotUsed({}) /\ WritesTo(r, s)
  BY <1>0 DEF NotUsed, WritesTo
<1>17. PICK G : G = DOMAIN files \ Named'
  OBVIOUS
<1>. QED
  BY <1>1, <1>2, <1>5, <1>6, <1>8, <1>11, <1>12, <1>13, <1>14, <1>15, <1>16, <1>17, UploadsKept

LEMMA RemoveEventKeeps ==
    ASSUME UploadsInv, NEW r \in Request, RemoveEvent(r) PROVE UploadsInv'
<1>0. PICK s : s = tx[r].id
  OBVIOUS
<1>1. /\ tx[r].op = "remove" /\ ToTidy(r) /\ UNCHANGED <<pupils, files, tangled>>
      /\ shows' = Drop(shows, s)
  BY <1>0 DEF RemoveEvent
<1>2. /\ IsOpen(r) /\ UploadJob(tx[r]) /\ Held(r) = tx[r].named \ {0} /\ s \in Owner /\ s \in Show
      /\ s \notin DOMAIN pupils
  BY <1>0, <1>1, OpenJob, Bounds DEF UploadJob, UploadsInv, UploadRows
<1>4. /\ DOMAIN shows' = DOMAIN shows \ {s}
      /\ \A y \in DOMAIN shows' : shows'[y] = shows[y]
      /\ shows' = [y \in DOMAIN shows' |-> shows'[y]]
  BY <1>1 DEF Drop
<1>6. UploadRows'
  <2>1. shows' \in [DOMAIN shows' -> 0 .. MaxFiles]
    BY <1>4 DEF UploadsInv, UploadRows
  <2>. QED  BY <1>1, <1>4, <2>1 DEF UploadsInv, UploadRows, PupilRow
<1>7. PICK j : j = [op |-> "tidy", id |-> s, old |-> tx[r].old, named |-> tx[r].old]
  OBVIOUS
<1>8. tx' = [tx EXCEPT ![r] = j] /\ j.op = "tidy" /\ j.id = s /\ j.old = tx[r].old /\ j.named = tx[r].old
  BY <1>0, <1>1, <1>7 DEF ToTidy, Proceed
<1>9. RowFiles(s)' = {} /\ Held(r)' = j.old \ {0}
  BY <1>1, <1>2, <1>4, <1>8, TxAfter DEF RowFiles, Held
<1>10. j.old \ {0} \subseteq Held(r)
  BY <1>1, <1>2, <1>8 DEF UploadJob
<1>11. /\ RowFiles(s)' \subseteq Mine(r, s, {}) /\ Held(r)' \subseteq Mine(r, s, {})
       /\ {} \subseteq Mine(r, s, {}) \cup (DOMAIN files \ Named')
  BY <1>9, <1>10 DEF Mine
<1>12. UploadJob(j)
  BY <1>1, <1>2, <1>8 DEF UploadJob
<1>13. Ready(j)' /\ RowStands(s)'
  BY <1>1, <1>2, <1>4, <1>8, <1>9 DEF Ready, RowStands
<1>15. \A y \in Owner \ {s} : SameRow(y)
  BY <1>1, <1>4 DEF SameRow
<1>16. NotUsed({}) /\ WritesTo(r, s) /\ Spared({})
  BY <1>0, <1>1, NoneGone DEF NotUsed, WritesTo
<1>. QED
  BY <1>1, <1>2, <1>6, <1>8, <1>11, <1>12, <1>13, <1>15, <1>16, UploadsKept

\* A request ends, and removes files of its own or leaves them.
LEMMA EndKeeps ==
    ASSUME UploadsInv, NEW r \in Request, tx[r].op # "idle", End({r}),
           UNCHANGED <<pupils, shows, tangled>>, FilesTyped', NEW G, Spared(G),
           G \subseteq Held(r) \cup (DOMAIN files \ Named'),
           tx[r].id \in Owner \ tangled => RowFiles(tx[r].id) \cap G = {}
    PROVE  UploadsInv'
<1>0. PICK x : x = tx[r].id
  OBVIOUS
<1>1. x \in Owner \cup {0} /\ IsOpen(r) /\ WritesTo(r, x)
  BY <1>0, OpenJob DEF WritesTo
<1>2. tx' = [tx EXCEPT ![r] = Idle] /\ Held(r)' = {} /\ Idle.op = "idle"
  BY UploadEnds DEF Idle
<1>3. \A y \in Owner : SameRow(y) /\ RowFiles(y)' = RowFiles(y)
  BY SameRowFiles DEF SameRow
<1>4. UploadRows'
  BY DEF UploadsInv, UploadRows, FilesTyped, PupilRow
<1>5. /\ x \in Owner => RowFiles(x)' \subseteq Mine(r, x, {})
      /\ Held(r)' \subseteq Mine(r, x, {})
      /\ G \subseteq Mine(r, x, {}) \cup (DOMAIN files \ Named')
  BY <1>2, <1>3 DEF Mine
<1>6. x \in Owner \ tangled' => RowStands(x)'
  BY <1>0, <1>3, SameRowStands DEF UploadsInv, RowsStand
<1>7. NotUsed({}) /\ tangled \subseteq tangled'
  BY DEF NotUsed
<1>. QED  BY <1>1, <1>2, <1>3, <1>4, <1>5, <1>6, <1>7, UploadsKept

LEMMA TidyKeeps == ASSUME UploadsInv, NEW r \in Request, Tidy(r) PROVE UploadsInv'
<1>1. /\ tx[r].op = "tidy" /\ files' = Removed(tx[r].old) /\ End({r})
      /\ UNCHANGED <<pupils, shows, tangled>>
  BY DEF Tidy
<1>2. PICK G : G = tx[r].old \ {0}
  OBVIOUS
<1>3. FilesTyped' /\ Spared(G)
  BY <1>1, <1>2, FilesRemoved
<1>4. G \subseteq Held(r) /\ (tx[r].id \in Owner \ tangled => RowFiles(tx[r].id) \cap G = {})
  BY <1>1, <1>2, OpenJob DEF UploadJob, Ready
<1>. QED  BY <1>1, <1>3, <1>4, EndKeeps

LEMMA RefuseKeeps == ASSUME UploadsInv, NEW r \in Request, Refuse(r) PROVE UploadsInv'
<1>1. /\ tx[r].op \in {"admit", "edit", "publish", "change"}
      /\ files' = Removed(tx[r].new) /\ End({r}) /\ UNCHANGED <<pupils, shows, tangled>>
  BY DEF Refuse
<1>2. PICK G : G = tx[r].new \ {0}
  OBVIOUS
<1>3. FilesTyped' /\ Spared(G)
  BY <1>1, <1>2, FilesRemoved
<1>4. UploadJob(tx[r]) /\ Held(r) = tx[r].named \ {0} /\ (tx[r].id \notin tangled => Ready(tx[r]))
  BY <1>1, OpenJob
<1>5. G \subseteq Held(r)
  BY <1>1, <1>2, <1>4 DEF UploadJob
<1>6. tx[r].id \in Owner \ tangled => RowFiles(tx[r].id) \cap G = {}
  BY <1>1, <1>2, <1>4, Bounds DEF UploadJob, Ready
<1>. QED  BY <1>1, <1>3, <1>5, <1>6, EndKeeps

LEMMA StopKeepsFiles == ASSUME UploadsInv, NEW r \in Request, Stop(r) PROVE UploadsInv'
<1>1. tx[r].op # "idle" /\ End({r}) /\ UNCHANGED <<pupils, shows, tangled>> /\ Forgotten
  BY DEF Stop, GiveUp, IsOpen
<1>2. PICK G : G = DOMAIN files \ Named'
  OBVIOUS
<1>3. FilesTyped' /\ Spared(G)
  BY <1>1, <1>2, FilesForgotten
<1>4. RowFiles(tx[r].id) \cap G = {}
  <2>1. PICK x : x = tx[r].id
    OBVIOUS
  <2>2. RowFiles(x)' = RowFiles(x)
    BY <1>1, SameRowFiles DEF SameRow
  <2>. QED  BY <1>2, <2>1, <2>2, NamedNext
<1>. QED  BY <1>1, <1>2, <1>3, <1>4, EndKeeps

LEMMA UploadsInitHolds == InitRequests /\ UploadsInit => UploadsInv
<1>. SUFFICES ASSUME InitRequests, UploadsInit PROVE UploadsInv
  OBVIOUS
<1>1. /\ DOMAIN pupils = {} /\ DOMAIN shows = {} /\ DOMAIN files = {} /\ tangled = {}
      /\ pupils \in [{} -> PupilRow] /\ shows \in [{} -> 0 .. MaxFiles] /\ files \in [{} -> 0 .. MaxNumber]
  BY DEF UploadsInit
<1>2. DOMAIN tx = Request /\ \A r \in Request : ~IsOpen(r)
  BY DEF InitRequests, Idle, IsOpen
<1>3. UploadRows
  BY <1>1, FS_EmptySet DEF UploadRows
<1>4. OneOwner
  BY <1>1, <1>2 DEF OneOwner, RowFiles
<1>5. OneReader /\ RowsStand /\ UploadJobs
  BY <1>1, <1>2 DEF OneReader, RowsStand, RowStands, UploadJobs
<1>. QED  BY <1>3, <1>4, <1>5 DEF UploadsInv

LEMMA UploadsStutter == UploadsInv /\ UNCHANGED <<driver, tx, uploads>> => UploadsInv'
<1>. SUFFICES ASSUME UploadsInv, UNCHANGED <<tx, pupils, shows, files, tangled>> PROVE UploadsInv'
  BY DEF uploads
<1>1. UploadRows' /\ OneReader'
  BY DEF UploadsInv, UploadRows, PupilRow, OneReader, IsOpen
<1>2. OneOwner'
  BY DEF UploadsInv, OneOwner, RowFiles, Held, IsOpen, FilesOf
<1>3. RowsStand'
  BY DEF UploadsInv, RowsStand, RowStands, PupilStands
<1>4. UploadJobs'
  <2>1. \A k \in Request : IsOpen(k) => UploadJob(tx[k])' /\ (tx[k].id \notin tangled => Ready(tx[k])')
    BY DEF UploadsInv, UploadJobs, UploadJob, Ready, PupilStands, RowFiles, FilesOf
  <2>. QED  BY <2>1 DEF UploadsInv, UploadJobs, IsOpen
<1>. QED  BY <1>1, <1>2, <1>3, <1>4 DEF UploadsInv

LEMMA UploadsInvHolds == UploadsSpec => []UploadsInv
<1>1. UploadsInv /\ [UploadsStep]_<<driver, tx, uploads>> => UploadsInv'
  <2>. SUFFICES ASSUME UploadsInv, UploadsStep PROVE UploadsInv'
    BY UploadsStutter
  <2>1. ASSUME NEW r \in Request, AnyNext(r) PROVE UploadsInv'
    BY <2>1, TidyKeeps, RefuseKeeps, StopKeepsFiles DEF AnyNext
  <2>2. CASE PupilsNext
    BY <2>1, <2>2, ToAdmitKeeps, ToEditKeeps, DeletePupilKeeps, AdmitKeeps, EditPupilKeeps
    DEF PupilsNext
  <2>3. CASE EventsNext
    BY <2>1, <2>3, ToPublishKeeps, ToRemoveKeeps, PublishKeeps, EditEventKeeps, RemoveEventKeeps
    DEF EventsNext
  <2>. QED  BY <2>2, <2>3 DEF UploadsStep
<1>. QED  BY <1>1, UploadsInitHolds, PTL DEF UploadsSpec

LEMMA UploadsInvTyped == UploadsInv => UploadsTypeOK
  BY DEF UploadsInv, UploadRows, UploadsTypeOK, PupilRow, Owner

\* Students, events and their files have their types, for any number of rows,
\* names and requests.
THEOREM UploadsTyped == UploadsSpec => []UploadsTypeOK
  BY UploadsInvTyped, UploadsInvHolds, PTL

\* Every file that a row names is there, the QR code is that of its number, and
\* no two students have one number: unless two requests wrote to the row at once,
\* and however saving, replacing, failing, stopping and tidying up interleave.
THEOREM FilesAlwaysStand == UploadsSpec => []FilesStand
<1>1. UploadsInv => FilesStand
  <2>. SUFFICES ASSUME UploadsInv PROVE FilesStand
    OBVIOUS
  <2>1. ASSUME NEW p \in DOMAIN pupils \ tangled
        PROVE  /\ Images(pupils[p].photo) \subseteq DOMAIN files
               /\ pupils[p].qr \in DOMAIN files /\ files[pupils[p].qr] = pupils[p].number
    BY Bounds DEF UploadsInv, UploadRows, RowsStand, RowStands, PupilStands, FilesOf
  <2>2. ASSUME NEW s \in DOMAIN shows \ tangled PROVE Images(shows[s]) \subseteq DOMAIN files
    BY Bounds DEF UploadsInv, UploadRows, RowsStand, RowStands
  <2>3. Cardinality(Numbers(pupils)) = Cardinality(DOMAIN pupils)
    <3> DEFINE f == [p \in DOMAIN pupils |-> pupils[p].number]
    <3>1. f \in [DOMAIN pupils -> Numbers(pupils)]
      BY DEF Numbers
    <3>2. IsFiniteSet(DOMAIN pupils) /\ \A p, q \in DOMAIN pupils : f[p] = f[q] => p = q
      BY DEF UploadsInv, UploadRows
    <3>3. \A n \in Numbers(pupils) : \E p \in DOMAIN pupils : f[p] = n
      BY DEF Numbers
    <3> HIDE DEF f
    <3>4. f \in Bijection(DOMAIN pupils, Numbers(pupils))
      BY <3>1, <3>2, <3>3 DEF Bijection, Injection, Surjection, IsInjective
    <3>. QED  BY <3>2, <3>4, FS_Bijection DEF ExistsBijection
  <2>. QED  BY <2>1, <2>2, <2>3 DEF FilesStand
<1>. QED  BY <1>1, UploadsInvHolds, PTL
----------------------------------------------------------------------------
(***************************************************************************)
(* Salary profiles (SalaryProfiles).  Unless two administrators looked at  *)
(* once, no two active profiles conflict, and neither does the one that an *)
(* open request is to write.                                               *)
(***************************************************************************)

SalariesNext == ProfilesNext \/ WorkNext

SalariesSpec == InitRequests /\ SalariesInit /\ [][SalariesNext]_<<driver, tx, salaries>>

ProfileRow == [kind : Rate, from : Workday, to : Workday \cup {Always}, active : BOOLEAN]

Presence == [day : Workday, hours : Shift]

WorkedRow == [day : Workday, hours : Shift, squad : Squad, assistant : BOOLEAN]

SalaryRows ==
    /\ \E n \in Nat : DOMAIN profiles = 1 .. n
    /\ \A p \in DOMAIN profiles : profiles[p] \in ProfileRow
    /\ present \subseteq Presence /\ IsFiniteSet(present)
    /\ \A i, k \in present : i = k \/ (~Same(i, k) /\ ~Clash(i, k))
    /\ worked \subseteq WorkedRow /\ IsFiniteSet(worked)
    /\ roster \in Roster /\ overlapped \in BOOLEAN

\* No two profiles that are active conflict.
ProfilesApart ==
    \A p \in DOMAIN profiles : profiles[p].active => Clear(profiles[p], p)

\* What an administrator has looked at is so still, as long as nobody else began.
SalaryJob(j) ==
    /\ j.op = "create profile" =>
          /\ j.row \in ProfileRow
          /\ ~overlapped => (j.row.active => Clear(j.row, 0))
    /\ j.op = "toggle profile" =>
          /\ j.id \in DOMAIN profiles /\ j.active \in BOOLEAN
          /\ ~overlapped => (j.active => Clear(profiles[j.id], j.id))

SalaryJobs ==
    /\ DOMAIN tx = Request
    /\ \A r \in Request : SalaryJob(tx[r])
    /\ ~overlapped => \A r, k \in Request : IsOpen(r) /\ IsOpen(k) => r = k

SalariesInv == SalaryRows /\ SalaryJobs /\ (~overlapped => ProfilesApart)
----------------------------------------------------------------------------
(* Steps *)

LEMMA SalaryStarts == InitRequests /\ SalariesInit => SalariesInv
<1>. SUFFICES ASSUME InitRequests, SalariesInit PROVE SalariesInv
  OBVIOUS
<1>1. DOMAIN profiles = {} /\ present = {} /\ worked = {} /\ roster \in Roster /\ overlapped = FALSE
  BY DEF SalariesInit
<1>2. DOMAIN profiles = 1 .. 0 /\ 0 \in Nat
  BY <1>1
<1>3. SalaryRows
  BY <1>1, <1>2, FS_EmptySet DEF SalaryRows
<1>4. SalaryJobs
  BY DEF InitRequests, SalaryJobs, SalaryJob, IsOpen, Idle
<1>. QED  BY <1>1, <1>3, <1>4 DEF SalariesInv, ProfilesApart

\* A step that leaves the profiles: its requests had what they have, or stop.
LEMMA ProfilesLeft ==
    ASSUME SalariesInv, SalaryRows', UNCHANGED <<profiles, overlapped>>, DOMAIN tx' = Request,
           \A k \in Request : tx'[k] = tx[k] \/ tx'[k] = Idle
    PROVE  SalariesInv'
<1>1. ASSUME NEW k \in Request PROVE SalaryJob(tx[k])'
  <2>1. PICK j : j = tx'[k]
    OBVIOUS
  <2>2. SalaryJob(Idle) /\ SalaryJob(tx[k])
    BY DEF SalariesInv, SalaryJobs, SalaryJob, Idle
  <2>3. SalaryJob(j)
    BY <2>1, <2>2
  <2>. QED  BY <2>1, <2>3 DEF SalaryJob, Clear
<1>2. \A q, k \in Request : (IsOpen(q) /\ IsOpen(k))' => IsOpen(q) /\ IsOpen(k)
  BY DEF IsOpen, Idle
<1>3. SalaryJobs'
  BY <1>1, <1>2 DEF SalariesInv, SalaryJobs
<1>4. (~overlapped => ProfilesApart)'
  BY DEF SalariesInv, ProfilesApart, Clear
<1>. QED  BY <1>3, <1>4 DEF SalariesInv

LEMMA LooksKeep ==
    ASSUME SalariesInv, NEW r \in Request, NEW j, LooksAtProfiles(r, j), SalaryJob(j)
    PROVE  SalariesInv'
<1>1. /\ tx' = [tx EXCEPT ![r] = j] /\ ~IsOpen(r)
      /\ overlapped' = (overlapped \/ \E q \in Request : IsOpen(q))
      /\ UNCHANGED <<profiles, present, worked, roster>>
  BY DEF LooksAtProfiles, Look
<1>2. overlapped \in BOOLEAN /\ overlapped' \in BOOLEAN
  BY <1>1 DEF SalariesInv, SalaryRows
<1>3. ASSUME ~overlapped' PROVE ~overlapped /\ \A q \in Request : ~IsOpen(q)
  BY <1>1, <1>2, <1>3
<1>4. SalaryRows'
  BY <1>1, <1>2 DEF SalariesInv, SalaryRows
<1>5. ASSUME NEW k \in Request PROVE SalaryJob(tx[k])'
  <2>1. PICK i : i = tx'[k]
    OBVIOUS
  <2>2. i = j \/ i = tx[k]
    BY <1>1, <2>1 DEF SalariesInv, SalaryJobs
  <2>3. SalaryJob(i)
    BY <2>2 DEF SalariesInv, SalaryJobs
  <2>. QED  BY <1>1, <1>3, <2>1, <2>3 DEF SalaryJob, Clear
<1>6. ~overlapped' => \A q, k \in Request : (IsOpen(q) /\ IsOpen(k))' => q = k
  BY <1>1, <1>3 DEF IsOpen, SalariesInv, SalaryJobs
<1>7. DOMAIN tx' = Request
  BY <1>1 DEF SalariesInv, SalaryJobs
<1>8. (~overlapped => ProfilesApart)'
  BY <1>1, <1>3 DEF SalariesInv, ProfilesApart, Clear
<1>. QED  BY <1>4, <1>5, <1>6, <1>7, <1>8 DEF SalariesInv, SalaryJobs

\* One who has looked alone, commits alone.
LEMMA CommitsAlone ==
    ASSUME SalariesInv, NEW r \in Request, IsOpen(r), End({r}), UNCHANGED overlapped,
           ~overlapped
    PROVE  \A k \in Request : ~IsOpen(k)'
<1>1. \A k \in Request : IsOpen(k) => k = r
  BY DEF SalariesInv, SalaryJobs
<1>2. \A k \in Request : tx'[k] = (IF k = r THEN Idle ELSE tx[k])
  BY DEF End
<1>. QED  BY <1>1, <1>2 DEF IsOpen, Idle

\* The profiles change, and nobody has looked at them as they were.
LEMMA ProfilesChange ==
    ASSUME SalariesInv, NEW r \in Request, IsOpen(r), End({r}), SalaryRows', UNCHANGED overlapped,
           DOMAIN profiles \subseteq DOMAIN profiles',
           ~overlapped => ProfilesApart'
    PROVE  SalariesInv'
<1>1. /\ tx' = [k \in Request |-> IF k = r THEN Idle ELSE tx[k]]
      /\ overlapped \in BOOLEAN
  BY DEF End, SalariesInv, SalaryRows
<1>2. CASE ~overlapped
  <2>1. \A k \in Request : tx'[k].op = "idle"
    BY <1>2, CommitsAlone DEF IsOpen
  <2>2. \A k \in Request : SalaryJob(tx[k])'
    BY <2>1 DEF SalaryJob
  <2>3. SalaryJobs'
    BY <1>1, <2>1, <2>2 DEF SalaryJobs, IsOpen
  <2>. QED  BY <1>2, <2>3 DEF SalariesInv
<1>3. CASE overlapped
  <2>1. ASSUME NEW k \in Request PROVE SalaryJob(tx[k])'
    <3>1. PICK j : j = tx'[k]
      OBVIOUS
    <3>2. SalaryJob(Idle) /\ SalaryJob(tx[k])
      BY DEF SalariesInv, SalaryJobs, SalaryJob, Idle
    <3>3. SalaryJob(j)
      BY <1>1, <3>1, <3>2
    <3>. QED  BY <1>3, <3>1, <3>3 DEF SalaryJob
  <2>. QED  BY <1>1, <1>3, <2>1 DEF SalariesInv, SalaryJobs
<1>. QED  BY <1>1, <1>2, <1>3

LEMMA ConflictsBothWays == ASSUME NEW a, NEW b PROVE Conflict(a, b) <=> Conflict(b, a)
  BY DEF Conflict, Meet

LEMMA CreateProfileKeeps ==
    ASSUME SalariesInv, NEW r \in Request, CreateProfile(r) PROVE SalariesInv'
<1>1. PICK j : j = tx[r]
  OBVIOUS
<1>2. PICK n \in Nat : DOMAIN profiles = 1 .. n
  BY DEF SalariesInv, SalaryRows
<1>3. Cardinality(DOMAIN profiles) = n
  BY <1>2, FS_Interval
<1>4. /\ profiles' = [q \in 1 .. n + 1 |-> IF q = n + 1 THEN j.row ELSE profiles[q]]
      /\ End({r}) /\ UNCHANGED <<present, worked, roster, overlapped>>
      /\ j.op = "create profile" /\ IsOpen(r)
  BY <1>1, <1>3 DEF CreateProfile, IsOpen
<1>5. j.row \in ProfileRow /\ (~overlapped => (j.row.active => Clear(j.row, 0)))
  BY <1>1, <1>4 DEF SalariesInv, SalaryJobs, SalaryJob
<1> DEFINE m == n + 1
<1>5a. /\ m \in Nat /\ m \in 1 .. m
       /\ \A q \in 1 .. n : q \in 1 .. m /\ q # m /\ q # 0
       /\ \A q \in 1 .. m : q = m \/ q \in 1 .. n
  OBVIOUS
<1>5b. profiles' = [q \in 1 .. m |-> IF q = m THEN j.row ELSE profiles[q]]
  BY <1>4
<1> HIDE DEF m
<1>6. DOMAIN profiles' = 1 .. m /\ m \in Nat /\ profiles'[m] = j.row
  BY <1>5a, <1>5b
<1>7. \A q \in DOMAIN profiles : q \in 1 .. m /\ q # m /\ q # 0 /\ profiles'[q] = profiles[q]
  BY <1>2, <1>5a, <1>5b
<1>8. \A q \in DOMAIN profiles' : q = m \/ q \in DOMAIN profiles
  BY <1>2, <1>6, <1>5a
<1>9. SalaryRows'
  <2>1. \A q \in DOMAIN profiles' : profiles'[q] \in ProfileRow
    BY <1>5, <1>6, <1>7, <1>8 DEF SalariesInv, SalaryRows
  <2>. QED  BY <1>4, <1>6, <2>1 DEF SalariesInv, SalaryRows
<1>10. ASSUME ~overlapped PROVE ProfilesApart'
  <2>1. \A q, k \in DOMAIN profiles :
           q # k /\ profiles[q].active /\ profiles[k].active => ~Conflict(profiles[q], profiles[k])
    BY <1>10 DEF SalariesInv, ProfilesApart, Clear
  <2>2. \A q \in DOMAIN profiles :
           j.row.active /\ profiles[q].active
           => ~Conflict(j.row, profiles[q]) /\ ~Conflict(profiles[q], j.row)
    BY <1>5, <1>7, <1>10, ConflictsBothWays DEF Clear
  <2>3. \A q, k \in DOMAIN profiles' :
           q # k /\ profiles'[q].active /\ profiles'[k].active => ~Conflict(profiles'[q], profiles'[k])
    BY <1>6, <1>7, <1>8, <2>1, <2>2
  <2>. QED  BY <2>3 DEF ProfilesApart, Clear
<1>. QED  BY <1>4, <1>7, <1>6, <1>9, <1>10, ProfilesChange

LEMMA ToggleProfileKeeps ==
    ASSUME SalariesInv, NEW r \in Request, ToggleProfile(r) PROVE SalariesInv'
<1>1. PICK j : j = tx[r]
  OBVIOUS
<1>2. /\ profiles' = [profiles EXCEPT ![j.id].active = j.active]
      /\ End({r}) /\ UNCHANGED <<present, worked, roster, overlapped>>
      /\ j.op = "toggle profile" /\ IsOpen(r)
  BY <1>1 DEF ToggleProfile, IsOpen
<1>3. /\ j.id \in DOMAIN profiles /\ j.active \in BOOLEAN
      /\ ~overlapped => (j.active => Clear(profiles[j.id], j.id))
  BY <1>1, <1>2 DEF SalariesInv, SalaryJobs, SalaryJob
<1>4. PICK row : row = [profiles[j.id] EXCEPT !.active = j.active]
  OBVIOUS
<1>5. profiles[j.id] \in ProfileRow
  BY <1>3 DEF SalariesInv, SalaryRows
<1>6. /\ row \in ProfileRow /\ row.active = j.active
      /\ row.kind = profiles[j.id].kind /\ row.from = profiles[j.id].from /\ row.to = profiles[j.id].to
  BY <1>3, <1>4, <1>5 DEF ProfileRow
<1>7. /\ DOMAIN profiles' = DOMAIN profiles /\ profiles'[j.id] = row
      /\ \A q \in DOMAIN profiles : q # j.id => profiles'[q] = profiles[q]
  BY <1>2, <1>3, <1>4
<1>8. SalaryRows'
  <2>1. \A q \in DOMAIN profiles' : profiles'[q] \in ProfileRow
    BY <1>6, <1>7 DEF SalariesInv, SalaryRows
  <2>. QED  BY <1>2, <1>7, <2>1 DEF SalariesInv, SalaryRows
<1>9. ASSUME ~overlapped PROVE ProfilesApart'
  <2>1. \A q, k \in DOMAIN profiles :
           q # k /\ profiles[q].active /\ profiles[k].active => ~Conflict(profiles[q], profiles[k])
    BY <1>9 DEF SalariesInv, ProfilesApart, Clear
  <2>2. \A x : Conflict(row, x) <=> Conflict(profiles[j.id], x)
    BY <1>6 DEF Conflict, Meet
  <2>3. \A q \in DOMAIN profiles :
           q # j.id /\ row.active /\ profiles[q].active
           => ~Conflict(row, profiles[q]) /\ ~Conflict(profiles[q], row)
    BY <1>3, <1>6, <1>9, <2>2, ConflictsBothWays DEF Clear
  <2>4. \A q, k \in DOMAIN profiles' :
           q # k /\ profiles'[q].active /\ profiles'[k].active => ~Conflict(profiles'[q], profiles'[k])
    BY <1>7, <2>1, <2>3
  <2>. QED  BY <2>4 DEF ProfilesApart, Clear
<1>. QED  BY <1>2, <1>7, <1>8, <1>9, ProfilesChange

LEMMA LookToCreateProfileKeeps ==
    ASSUME SalariesInv, NEW r \in Request, NEW row \in ProfileRow, LookToCreateProfile(r, row)
    PROVE  SalariesInv'
<1>1. PICK j : j = [op |-> "create profile", row |-> row]
  OBVIOUS
<1>2. j.op = "create profile" /\ j.row = row /\ LooksAtProfiles(r, j)
  BY <1>1 DEF LookToCreateProfile
<1>3. SalaryJob(j)
  BY <1>2 DEF LookToCreateProfile, SalaryJob
<1>. QED  BY <1>2, <1>3, LooksKeep

LEMMA LookToToggleProfileKeeps ==
    ASSUME SalariesInv, NEW r \in Request, NEW p \in DOMAIN profiles, LookToToggleProfile(r, p)
    PROVE  SalariesInv'
<1>1. PICK j : j = [op |-> "toggle profile", id |-> p, active |-> ~profiles[p].active]
  OBVIOUS
<1>2. j.op = "toggle profile" /\ j.id = p /\ j.active = ~profiles[p].active /\ LooksAtProfiles(r, j)
  BY <1>1 DEF LookToToggleProfile
<1>3. profiles[p].active \in BOOLEAN
  BY DEF SalariesInv, SalaryRows, ProfileRow
<1>4. SalaryJob(j)
  BY <1>2, <1>3 DEF LookToToggleProfile, SalaryJob
<1>. QED  BY <1>2, <1>4, LooksKeep

LEMMA GiveUpProfileKeeps ==
    ASSUME SalariesInv, NEW r \in Request, GiveUpProfile(r) PROVE SalariesInv'
<1>1. UNCHANGED <<profiles, present, worked, roster, overlapped>>
  BY DEF GiveUpProfile, salaries
<1>2. DOMAIN tx' = Request /\ \A k \in Request : tx'[k] = tx[k] \/ tx'[k] = Idle
  BY DEF GiveUpProfile, GiveUp, End
<1>3. SalaryRows'
  BY <1>1 DEF SalariesInv, SalaryRows
<1>. QED  BY <1>1, <1>2, <1>3, ProfilesLeft

LEMMA BePresentKeeps ==
    ASSUME SalariesInv, NEW i \in Presence, BePresent(i) PROVE SalariesInv'
<1>1. /\ present' = present \cup {i} /\ \A k \in present : ~Same(i, k) /\ ~Clash(i, k)
      /\ UNCHANGED <<tx, profiles, worked, roster, overlapped>>
  BY DEF BePresent
<1>2. \A a, b : (Same(a, b) <=> Same(b, a)) /\ (Clash(a, b) <=> Clash(b, a))
  BY DEF Same, Clash
<1>3. IsFiniteSet(present')
  BY <1>1, FS_AddElement DEF SalariesInv, SalaryRows
<1>4. \A h, k \in present' : h = k \/ (~Same(h, k) /\ ~Clash(h, k))
  BY <1>1, <1>2 DEF SalariesInv, SalaryRows
<1>5. SalaryRows'
  BY <1>1, <1>3, <1>4 DEF SalariesInv, SalaryRows
<1>6. DOMAIN tx' = Request /\ \A k \in Request : tx'[k] = tx[k]
  BY <1>1 DEF SalariesInv, SalaryJobs
<1>. QED  BY <1>1, <1>5, <1>6, ProfilesLeft

LEMMA CoachKeeps ==
    ASSUME SalariesInv, NEW s \in WorkedRow, Coach(s) PROVE SalariesInv'
<1>1. worked' = worked \cup {s} /\ UNCHANGED <<tx, profiles, present, roster, overlapped>>
  BY DEF Coach
<1>2. IsFiniteSet(worked')
  BY <1>1, FS_AddElement DEF SalariesInv, SalaryRows
<1>3. SalaryRows'
  BY <1>1, <1>2 DEF SalariesInv, SalaryRows
<1>4. DOMAIN tx' = Request /\ \A k \in Request : tx'[k] = tx[k]
  BY <1>1 DEF SalariesInv, SalaryJobs
<1>. QED  BY <1>1, <1>3, <1>4, ProfilesLeft

LEMMA SalariesInvHolds == SalariesSpec => []SalariesInv
<1>1. SalariesInv /\ [SalariesNext]_<<driver, tx, salaries>> => SalariesInv'
  <2>. SUFFICES ASSUME SalariesInv, [SalariesNext]_<<driver, tx, salaries>> PROVE SalariesInv'
    OBVIOUS
  <2>1. ASSUME NEW r \in Request, CreateProfile(r) \/ ToggleProfile(r) \/ GiveUpProfile(r)
        PROVE  SalariesInv'
    BY <2>1, CreateProfileKeeps, ToggleProfileKeeps, GiveUpProfileKeeps
  <2>2. ASSUME NEW r \in Request,
               NEW k \in Rate, NEW from \in Workday, NEW to \in Workday \cup {Always}, NEW active \in BOOLEAN,
               LookToCreateProfile(r, [kind |-> k, from |-> from, to |-> to, active |-> active])
        PROVE  SalariesInv'
    <3>1. [kind |-> k, from |-> from, to |-> to, active |-> active] \in ProfileRow
      BY DEF ProfileRow
    <3>. QED  BY <2>2, <3>1, LookToCreateProfileKeeps
  <2>3. ASSUME NEW r \in Request, NEW p \in DOMAIN profiles, LookToToggleProfile(r, p)
        PROVE  SalariesInv'
    BY <2>3, LookToToggleProfileKeeps
  <2>4. ASSUME NEW day \in Workday, NEW hours \in Shift, BePresent([day |-> day, hours |-> hours])
        PROVE  SalariesInv'
    <3>1. [day |-> day, hours |-> hours] \in Presence
      BY DEF Presence
    <3>. QED  BY <2>4, <3>1, BePresentKeeps
  <2>5. ASSUME NEW day \in Workday, NEW hours \in Shift, NEW g \in Squad, NEW assistant \in BOOLEAN,
               Coach([day |-> day, hours |-> hours, squad |-> g, assistant |-> assistant])
        PROVE  SalariesInv'
    <3>1. [day |-> day, hours |-> hours, squad |-> g, assistant |-> assistant] \in WorkedRow
      BY DEF WorkedRow
    <3>. QED  BY <2>5, <3>1, CoachKeeps
  <2>6. CASE UNCHANGED <<driver, tx, salaries>>
    <3>1. UNCHANGED <<tx, profiles, present, worked, roster, overlapped>>
      BY <2>6 DEF salaries
    <3>2. SalaryRows' /\ DOMAIN tx' = Request
      BY <3>1 DEF SalariesInv, SalaryRows, SalaryJobs
    <3>. QED  BY <3>1, <3>2, ProfilesLeft
  <2>. QED  BY <2>1, <2>2, <2>3, <2>4, <2>5, <2>6 DEF SalariesNext, ProfilesNext, WorkNext
<1>. QED  BY <1>1, SalaryStarts, PTL DEF SalariesSpec
----------------------------------------------------------------------------
(* One profile a day *)

LEMMA EndsOf ==
    ASSUME NEW a \in Int, NEW b \in Int, a <= b PROVE Max(a .. b) = b /\ Min(a .. b) = a
<1>1. b \in a .. b /\ \A y \in a .. b : b >= y
  OBVIOUS
<1>2. a \in a .. b /\ \A y \in a .. b : a <= y
  OBVIOUS
<1>3. Max(a .. b) \in a .. b /\ \A y \in a .. b : Max(a .. b) >= y
  BY <1>1 DEF Max
<1>4. Min(a .. b) \in a .. b /\ \A y \in a .. b : Min(a .. b) <= y
  BY <1>2 DEF Min
<1>. QED  BY <1>1, <1>2, <1>3, <1>4

LEMMA OfOneDay == ASSUME NEW d \in Int PROVE Max({d}) = d /\ Min({d}) = d
<1>1. \E x \in {d} : \A y \in {d} : x >= y
  OBVIOUS
<1>2. \E x \in {d} : \A y \in {d} : x <= y
  OBVIOUS
<1>3. Max({d}) \in {d}
  BY <1>1 DEF Max
<1>4. Min({d}) \in {d}
  BY <1>2 DEF Min
<1>. QED  BY <1>3, <1>4

LEMMA OfDays == Always \in Int /\ \A d \in Workday : d \in Int /\ 0 < d /\ d < Always
<1>1. LastWorkday \in Nat \ {0}
  BY SalaryAssumption
<1>. QED  BY <1>1 DEF Workday, Always

LEMMA OneOfAKind == SalariesInv => OneProfileADay
<1>. SUFFICES ASSUME SalariesInv, ~overlapped, NEW d \in Workday,
                     NEW p \in DOMAIN profiles, NEW q \in DOMAIN profiles,
                     p # q, profiles[p].kind = profiles[q].kind,
                     AppliesIn(profiles[p], {d}), AppliesIn(profiles[q], {d})
              PROVE  FALSE
  BY DEF OneProfileADay
<1>1. profiles[p].active /\ profiles[p].from <= d /\ profiles[p].to >= d
  BY OfOneDay, OfDays DEF AppliesIn
<1>2. profiles[q].active /\ profiles[q].from <= d /\ profiles[q].to >= d
  BY OfOneDay, OfDays DEF AppliesIn
<1>3. ~Conflict(profiles[p], profiles[q])
  BY <1>1, <1>2 DEF SalariesInv, ProfilesApart, Clear
<1>4. ~Meet(profiles[p], profiles[q])
  BY <1>3 DEF Conflict
<1>5. profiles[p] \in ProfileRow /\ profiles[q] \in ProfileRow
  BY DEF SalariesInv, SalaryRows
<1>6. ASSUME NEW row \in ProfileRow PROVE row.from \in Int /\ row.to \in Int
  <2>1. row.from \in Workday /\ row.to \in Workday \cup {Always}
    BY DEF ProfileRow
  <2>2. \A x \in Workday \cup {Always} : x \in Int
    BY OfDays
  <2>. QED  BY <2>1, <2>2
<1>7. /\ profiles[p].from \in Int /\ profiles[p].to \in Int
      /\ profiles[q].from \in Int /\ profiles[q].to \in Int /\ d \in Int
  BY <1>5, <1>6, OfDays
<1>. QED  BY <1>1, <1>2, <1>4, <1>7 DEF Meet
----------------------------------------------------------------------------
(* Hours *)

HoursOf(i) == {<<i.day, h>> : h \in i.hours.from .. i.hours.to - 1}

HoursIn(A) == UNION {HoursOf(i) : i \in A}

LEMMA HoursSized ==
    ASSUME NEW i, i.hours \in Shift
    PROVE  IsFiniteSet(HoursOf(i)) /\ Cardinality(HoursOf(i)) = Length(i) /\ Length(i) \in Nat
<1>1. i.hours.from \in Int /\ i.hours.to \in Int /\ i.hours.from < i.hours.to
  BY SalaryAssumption
<1> DEFINE a == i.hours.from
           b == i.hours.to - 1
           F == [h \in a .. b |-> <<i.day, h>>]
<1>2. a \in Int /\ b \in Int /\ ~(a > b) /\ b - a + 1 = Length(i) /\ Length(i) \in Nat
  BY <1>1 DEF Length
<1>3. IsFiniteSet(a .. b) /\ Cardinality(a .. b) = Length(i)
  <2>. HIDE DEF a, b
  <2>. QED  BY <1>2, FS_Interval
<1>4. F \in Bijection(a .. b, HoursOf(i))
  <2>1. HoursOf(i) = {<<i.day, h>> : h \in a .. b}
    BY DEF HoursOf
  <2>. HIDE DEF a, b
  <2>2. F \in [a .. b -> HoursOf(i)]
    BY <2>1
  <2>3. \A x, y \in a .. b : F[x] = F[y] => x = y
    OBVIOUS
  <2>4. \A t \in HoursOf(i) : \E h \in a .. b : F[h] = t
    BY <2>1
  <2>5. DOMAIN F = a .. b
    OBVIOUS
  <2>. HIDE DEF F
  <2>. QED  BY <2>2, <2>3, <2>4, <2>5 DEF Bijection, Injection, Surjection, IsInjective
<1> HIDE DEF a, b, F
<1>5. IsFiniteSet(HoursOf(i)) /\ Cardinality(HoursOf(i)) = Cardinality(a .. b)
  BY <1>3, <1>4, FS_Bijection DEF ExistsBijection
<1>. QED  BY <1>2, <1>3, <1>5

LEMMA HoursApart ==
    ASSUME NEW i, NEW k, i.hours \in Shift, k.hours \in Shift, ~Same(i, k), ~Clash(i, k)
    PROVE  HoursOf(i) \cap HoursOf(k) = {}
<1>1. /\ i.hours.from \in Int /\ i.hours.to \in Int
      /\ k.hours.from \in Int /\ k.hours.to \in Int
  BY SalaryAssumption
<1>2. SUFFICES ASSUME NEW x \in i.hours.from .. i.hours.to - 1, NEW y \in k.hours.from .. k.hours.to - 1,
                      <<i.day, x>> = <<k.day, y>>
               PROVE  FALSE
  BY DEF HoursOf
<1>3. i.day = k.day /\ x = y
  BY <1>2
<1>4. ~(i.hours.from < k.hours.to /\ k.hours.from < i.hours.to)
  BY <1>3 DEF Same, Clash
<1>. QED  BY <1>1, <1>3, <1>4

LEMMA LengthsAre ==
    ASSUME NEW A, IsFiniteSet(A)
    PROVE  MapThenSumSet(Length, A) = SetSum([i \in A |-> Length(i)], A)
<1> DEFINE F == [i \in A |-> Length(i)]
           IsSum(h) == h = [t \in SUBSET A |->
                              IF t = {} THEN 0
                              ELSE Length(CHOOSE x \in t : TRUE) + h[t \ {CHOOSE x \in t : TRUE}]]
<1>1. \A h : Adds(h, F, A) <=> IsSum(h)
  <2>1. \A t \in SUBSET A : t # {} => F[Pick(t)] = Length(CHOOSE x \in t : TRUE)
    BY PickIn DEF Pick
  <2> HIDE DEF F
  <2>. QED  BY <2>1 DEF Adds, Pick
<1>2. MapThenSumSet(Length, A) = (CHOOSE h : IsSum(h))[A]
  BY DEF MapThenSumSet, MapThenFoldSet
<1> HIDE DEF F, IsSum
<1>3. Adds(CHOOSE h : IsSum(h), F, A)
  BY <1>1, AddsExists
<1>4. SetSum(F, A) = (CHOOSE h : IsSum(h))[A]
  BY <1>3, SumIs
<1>. QED  BY <1>2, <1>4 DEF F

\* The lengths of intervals that are apart add up to the hours in them.
LEMMA LengthsCount ==
    ASSUME NEW A, IsFiniteSet(A), \A i \in A : i.hours \in Shift,
           \A i, k \in A : i = k \/ (~Same(i, k) /\ ~Clash(i, k))
    PROVE  /\ IsFiniteSet(HoursIn(A))
           /\ MapThenSumSet(Length, A) = Cardinality(HoursIn(A))
<1> DEFINE B == [i \in A |-> HoursOf(i)]
           f == [i \in A |-> Length(i)]
<1>1. \A i \in A : IsFiniteSet(B[i]) /\ f[i] = Cardinality(B[i])
  BY HoursSized
<1>2. \A i, k \in A : i # k => B[i] \cap B[k] = {}
  BY HoursApart
<1>3. HoursIn(A) = UNION {B[i] : i \in A}
  BY DEF HoursIn
<1>4. MapThenSumSet(Length, A) = SetSum(f, A)
  BY LengthsAre
<1> HIDE DEF B, f
<1>. QED  BY <1>1, <1>2, <1>3, <1>4, SumOfSizes

LEMMA HoursOnce == SalariesInv => HoursPaidOnce
<1>. SUFFICES ASSUME SalariesInv, NEW P \in PayPeriod,
                     NEW p \in [kind : {k \in Rate : k.type = "hourly"}], Reconciled(p, P),
                     \A s, t \in Assisted(p, P) : s = t \/ ~(Same(s, t) \/ Clash(s, t))
              PROVE  Hours(p, P) = Cardinality(HoursIn(Attended(P) \cup Assisted(p, P)))
  BY DEF HoursPaidOnce, HoursIn, HoursOf
<1> DEFINE A == Attended(P)
           S == Assisted(p, P)
           C == CountedSessions(p, P)
<1>1. /\ A \subseteq present /\ IsFiniteSet(A) /\ \A i \in A : i.hours \in Shift
      /\ \A i, k \in A : i = k \/ (~Same(i, k) /\ ~Clash(i, k))
  BY FS_Subset DEF Attended, SalariesInv, SalaryRows, Presence
<1>2. S \subseteq worked /\ \A s \in S : s.hours \in Shift
  BY DEF Assisted, SalariesInv, SalaryRows, WorkedRow
<1>3. C \subseteq S /\ \A s \in S : s \in C \/ \E i \in A : Same(i, s)
  BY DEF CountedSessions
<1>4. /\ IsFiniteSet(C) /\ \A i \in C : i.hours \in Shift
      /\ \A i, k \in C : i = k \/ (~Same(i, k) /\ ~Clash(i, k))
  BY <1>2, <1>3, FS_Subset DEF SalariesInv, SalaryRows
<1>5. \A i \in A, s \in C : ~Same(i, s) /\ ~Clash(i, s)
  BY DEF CountedSessions, Reconciled
<1>6. HoursIn(A) \cap HoursIn(C) = {}
  BY <1>1, <1>4, <1>5, HoursApart DEF HoursIn
<1>7. HoursIn(A \cup S) = HoursIn(A) \cup HoursIn(C)
  <2>1. \A i, s : Same(i, s) => HoursOf(i) = HoursOf(s)
    BY DEF Same, HoursOf
  <2>. QED  BY <1>3, <2>1 DEF HoursIn
<1>8. Hours(p, P) = MapThenSumSet(Length, A) + MapThenSumSet(Length, C)
  BY DEF Hours
<1> HIDE DEF A, S, C
<1>9. IsFiniteSet(HoursIn(A)) /\ MapThenSumSet(Length, A) = Cardinality(HoursIn(A))
  BY <1>1, LengthsCount
<1>10. IsFiniteSet(HoursIn(C)) /\ MapThenSumSet(Length, C) = Cardinality(HoursIn(C))
  BY <1>4, LengthsCount
<1>11. Cardinality(HoursIn(A) \cup HoursIn(C))
       = Cardinality(HoursIn(A)) + Cardinality(HoursIn(C)) - Cardinality({})
  BY <1>6, <1>9, <1>10, FS_Union
<1>12. Cardinality(HoursIn(A) \cup HoursIn(C)) = Cardinality(HoursIn(A)) + Cardinality(HoursIn(C))
  <2>1. Cardinality(HoursIn(A)) \in Nat /\ Cardinality(HoursIn(C)) \in Nat
    BY <1>9, <1>10, FS_CardinalityType
  <2>. QED  BY <1>11, <2>1, FS_EmptySet
<1>. QED  BY <1>7, <1>8, <1>9, <1>10, <1>12 DEF A, S
----------------------------------------------------------------------------
(* Students, day by day *)

DayOf(h, d) == h.from <= d /\ d < h.to

CoachedOn(c, g, d) == SquadCourse[g] = c /\ \E h \in roster.assigned : h.squad = g /\ DayOf(h, d)

JoinedOn(t, g, d) == \E h \in roster.member : h.squad = g /\ h.trainee = t /\ DayOf(h, d)

Theirs(t, c, S) == {h \in S : h.trainee = t /\ h.course = c}

GroupedIn(t, c, P) ==
    \E g \in Squad : (\E d \in P : CoachedOn(c, g, d)) /\ (\E d \in P : JoinedOn(t, g, d))

SeenIn(t, c, P) ==
    \E m \in roster.marked : m.trainee = t /\ m.day \in P /\ CoachedOn(c, m.squad, m.day)

CountedIn(t, e, p, P) ==
    CASE p.kind.basis = "enrolment" ->
            /\ GroupedIn(t, p.kind.course, P)
            /\ \E d \in P, h \in Theirs(t, p.kind.course, roster.studying) : DayOf(h, d)
      [] p.kind.basis = "membership" -> GroupedIn(t, p.kind.course, P) /\ e.active
      [] p.kind.basis = "attendance" -> SeenIn(t, p.kind.course, P) /\ e.active

EligibleIn(t, p, P) ==
    /\ \E e \in Theirs(t, p.kind.course, roster.enrolled) :
          (\E d \in P : e.start <= d) /\ CountedIn(t, e, p, P)
    /\ ~\E l \in Theirs(t, p.kind.course, roster.leave) : \A d \in P : l.from <= d /\ d <= l.to

StudentBasis == {"enrolment", "membership", "attendance"}

\* The ends of a period and of an interval tell whether they share a day.
LEMMA ByDay ==
    ASSUME NEW P \in PayPeriod
    PROVE  /\ \A h : h.from \in Int /\ h.to \in Int /\ h.from < h.to
                     => (During(h, P) <=> \E d \in P : DayOf(h, d))
           /\ \A x \in Int : x <= Max(P) <=> \E d \in P : x <= d
           /\ \A l : l.from \in Int /\ l.to \in Int
                     => (l.from <= Min(P) /\ l.to >= Max(P) <=> \A d \in P : l.from <= d /\ d <= l.to)
           /\ P \subseteq Int
<1>1. PICK a \in 1 .. LastWorkday, b \in 1 .. LastWorkday : a <= b /\ P = a .. b
  BY SalaryAssumption
<1>2. LastWorkday \in Nat \ {0}
  BY SalaryAssumption
<1>3. a \in Int /\ b \in Int
  BY <1>1, <1>2
<1>4. Max(P) = b /\ Min(P) = a
  BY <1>1, <1>3, EndsOf
<1>5. P \subseteq Int /\ a \in P /\ b \in P
  BY <1>1, <1>3
<1>6. ASSUME NEW h, h.from \in Int, h.to \in Int, h.from < h.to
      PROVE  During(h, P) <=> \E d \in P : DayOf(h, d)
  <2>1. During(h, P) <=> h.from <= b /\ h.to > a
    BY <1>4 DEF During
  <2>2. ASSUME h.from <= b, h.to > a PROVE \E d \in P : DayOf(h, d)
    <3>1. CASE h.from <= a
      BY <1>3, <1>5, <2>2, <3>1 DEF DayOf
    <3>2. CASE ~(h.from <= a)
      <4>1. h.from \in P
        BY <1>1, <1>3, <1>6, <2>2, <3>2
      <4>2. DayOf(h, h.from)
        BY <1>6 DEF DayOf
      <4>. QED  BY <4>1, <4>2
    <3>. QED  BY <3>1, <3>2
  <2>3. ASSUME NEW d \in P, DayOf(h, d) PROVE h.from <= b /\ h.to > a
    <3>1. d \in Int /\ a <= d /\ d <= b
      BY <1>1, <1>3
    <3>. QED  BY <1>3, <1>6, <2>3, <3>1 DEF DayOf
  <2>. QED  BY <2>1, <2>2, <2>3
<1>7. ASSUME NEW x \in Int PROVE x <= b <=> \E d \in P : x <= d
  <2>1. ASSUME NEW d \in P, x <= d PROVE x <= b
    BY <1>1, <1>3, <2>1
  <2>. QED  BY <1>5, <2>1
<1>8. ASSUME NEW l, l.from \in Int, l.to \in Int
      PROVE  l.from <= a /\ l.to >= b <=> \A d \in P : l.from <= d /\ d <= l.to
  <2>1. ASSUME l.from <= a, l.to >= b, NEW d \in P PROVE l.from <= d /\ d <= l.to
    <3>1. d \in Int /\ a <= d /\ d <= b
      BY <1>1, <1>3
    <3>. QED  BY <1>3, <1>8, <2>1, <3>1
  <2>2. ASSUME \A d \in P : l.from <= d /\ d <= l.to PROVE l.from <= a /\ l.to >= b
    <3>1. l.from <= a /\ b <= l.to
      BY <1>5, <2>2
    <3>. QED  BY <1>3, <1>8, <3>1
  <2>. QED  BY <2>1, <2>2
<1>. QED  BY <1>4, <1>5, <1>6, <1>7, <1>8

LEMMA MembersAre ==
    ASSUME roster \in Roster, NEW P \in PayPeriod, NEW p, NEW t
    PROVE  t \in Members(p, P) <=> t \in Trainee /\ GroupedIn(t, p.kind.course, P)
<1>1. \A h \in roster.assigned \cup roster.member : During(h, P) <=> \E d \in P : DayOf(h, d)
  BY RosterAssumption, ByDay
<1>2. \A h \in roster.member : h.trainee \in Trainee
  BY RosterAssumption
<1>3. \A g \in Squad : g \in Squads(p, P) <=> \E d \in P : CoachedOn(p.kind.course, g, d)
  BY <1>1 DEF Squads, CoachedOn
<1>4. \A g \in Squads(p, P) : g \in Squad
  BY DEF Squads
<1>5. t \in Members(p, P) <=>
          \E h \in roster.member : h.squad \in Squads(p, P) /\ h.trainee = t /\ During(h, P)
  BY DEF Members
<1>6. \A g : (\E d \in P : JoinedOn(t, g, d)) <=>
             \E h \in roster.member : h.squad = g /\ h.trainee = t /\ During(h, P)
  BY <1>1 DEF JoinedOn
<1>. QED  BY <1>2, <1>3, <1>4, <1>5, <1>6 DEF GroupedIn

LEMMA SalariesInvTyped == SalariesInv => SalariesTypeOK
<1>1. ASSUME roster \in Roster
      PROVE  \A m \in roster.marked : m.squad \in Squad /\ m.trainee \in Trainee /\ m.day \in Workday
  BY <1>1, RosterAssumption DEF Workday
<1>. QED  BY <1>1 DEF SalariesInv, SalaryRows, ProfileRow, SalariesTypeOK

LEMMA StudentsByDay == SalariesInv => StudentsCountedByDay
<1>. SUFFICES ASSUME SalariesInv, NEW P \in PayPeriod,
                     NEW p \in [kind : [course : Programme, basis : StudentBasis]]
              PROVE  PaidTrainees(p, P) = {t \in Trainee : EligibleIn(t, p, P)}
  BY DEF StudentsCountedByDay, StudentBasis, EligibleIn, CountedIn, SeenIn, GroupedIn, Theirs, JoinedOn,
         CoachedOn, DayOf
<1>1. roster \in Roster
  BY DEF SalariesInv, SalaryRows
<1> DEFINE c == p.kind.course
<1>2. \A t : OnLeave(t, p, P) <=>
             \E l \in Theirs(t, c, roster.leave) : \A d \in P : l.from <= d /\ d <= l.to
  <2>1. \A l \in roster.leave :
           l.from <= Min(P) /\ l.to >= Max(P) <=> \A d \in P : l.from <= d /\ d <= l.to
    BY <1>1, RosterAssumption, ByDay
  <2>. QED  BY <2>1 DEF OnLeave, Theirs
<1>3. \A t : EnrolledBy(t, p, P) = {e \in Theirs(t, c, roster.enrolled) : \E d \in P : e.start <= d}
  <2>1. \A e \in roster.enrolled : e.start <= Max(P) <=> \E d \in P : e.start <= d
    BY <1>1, RosterAssumption, ByDay
  <2>. QED  BY <2>1 DEF EnrolledBy, Theirs
<1>4. \A t : t \in Members(p, P) <=> t \in Trainee /\ GroupedIn(t, c, P)
  BY <1>1, MembersAre
<1>5. \A t : (\E h \in roster.studying : h.trainee = t /\ h.course = c /\ During(h, P))
             <=> \E d \in P, h \in Theirs(t, c, roster.studying) : DayOf(h, d)
  <2>1. \A h \in roster.studying : During(h, P) <=> \E d \in P : DayOf(h, d)
    BY <1>1, RosterAssumption, ByDay
  <2>. QED  BY <2>1 DEF Theirs
<1>6. \A t : SeenIn(t, c, P) <=>
             \E m \in roster.marked :
                /\ m.trainee = t /\ m.day \in P /\ SquadCourse[m.squad] = c
                /\ \E h \in roster.assigned : h.squad = m.squad /\ During(h, {m.day})
  <2>1. ASSUME NEW m \in roster.marked, m.day \in P, NEW h \in roster.assigned
        PROVE  During(h, {m.day}) <=> DayOf(h, m.day)
    <3>1. m.day \in Int
      BY <2>1, ByDay
    <3>2. h.from \in Int /\ h.to \in Int
      BY <1>1, RosterAssumption
    <3>. QED  BY <3>1, <3>2, OfOneDay DEF During, DayOf
  <2>. QED  BY <2>1 DEF SeenIn, CoachedOn
<1> HIDE DEF c
<1>7. ASSUME NEW t PROVE t \in PaidTrainees(p, P) <=> t \in Trainee /\ EligibleIn(t, p, P)
  <2>1. p.kind.basis \in StudentBasis
    OBVIOUS
  <2>2. CASE p.kind.basis = "enrolment"
    <3>1. t \in PaidTrainees(p, P) <=> t \in ActiveTrainees(p, P) /\ ~OnLeave(t, p, P)
      BY <2>2 DEF PaidTrainees
    <3>2. \A e : CountedIn(t, e, p, P) <=>
                 /\ GroupedIn(t, c, P)
                 /\ \E d \in P, h \in Theirs(t, c, roster.studying) : DayOf(h, d)
      BY <2>2 DEF CountedIn, c
    <3>3. t \in ActiveTrainees(p, P) <=>
              /\ t \in Members(p, P) /\ EnrolledBy(t, p, P) # {}
              /\ \E h \in roster.studying : h.trainee = t /\ h.course = c /\ During(h, P)
      BY DEF ActiveTrainees, c
    <3>4. EligibleIn(t, p, P) <=>
              /\ \E e \in Theirs(t, c, roster.enrolled) :
                    (\E d \in P : e.start <= d) /\ CountedIn(t, e, p, P)
              /\ ~OnLeave(t, p, P)
      BY <1>2 DEF EligibleIn, c
    <3>. QED  BY <1>3, <1>4, <1>5, <3>1, <3>2, <3>3, <3>4
  <2>3. CASE p.kind.basis = "membership"
    <3>1. t \in PaidTrainees(p, P) <=> t \in MemberTrainees(p, P) /\ ~OnLeave(t, p, P)
      BY <2>3 DEF PaidTrainees
    <3>2. \A e : CountedIn(t, e, p, P) <=> GroupedIn(t, c, P) /\ e.active
      BY <2>3 DEF CountedIn, c
    <3>3. t \in MemberTrainees(p, P) <=> t \in Members(p, P) /\ \E e \in EnrolledBy(t, p, P) : e.active
      BY DEF MemberTrainees, StudiesNow
    <3>4. EligibleIn(t, p, P) <=>
              /\ \E e \in Theirs(t, c, roster.enrolled) :
                    (\E d \in P : e.start <= d) /\ CountedIn(t, e, p, P)
              /\ ~OnLeave(t, p, P)
      BY <1>2 DEF EligibleIn, c
    <3>. QED  BY <1>3, <1>4, <3>1, <3>2, <3>3, <3>4
  <2>4. CASE p.kind.basis = "attendance"
    <3>1. t \in PaidTrainees(p, P) <=> t \in AttendingTrainees(p, P) /\ ~OnLeave(t, p, P)
      BY <2>4 DEF PaidTrainees
    <3>2. \A e : CountedIn(t, e, p, P) <=> SeenIn(t, c, P) /\ e.active
      BY <2>4 DEF CountedIn, c
    <3>3. t \in AttendingTrainees(p, P) <=>
              t \in Trainee /\ SeenIn(t, c, P) /\ \E e \in EnrolledBy(t, p, P) : e.active
      BY <1>6 DEF AttendingTrainees, StudiesNow, c
    <3>4. EligibleIn(t, p, P) <=>
              /\ \E e \in Theirs(t, c, roster.enrolled) :
                    (\E d \in P : e.start <= d) /\ CountedIn(t, e, p, P)
              /\ ~OnLeave(t, p, P)
      BY <1>2 DEF EligibleIn, c
    <3>. QED  BY <1>3, <3>1, <3>2, <3>3, <3>4
  <2>. QED  BY <2>1, <2>2, <2>3, <2>4 DEF StudentBasis
<1>. QED  BY <1>7
----------------------------------------------------------------------------
\* Profiles, work sessions and the sessions of groups have their types, for any
\* profiles, days, hours, rosters and requests.
THEOREM SalariesTyped == SalariesSpec => []SalariesTypeOK
  BY SalariesInvTyped, SalariesInvHolds, PTL

\* As long as no two administrators look at the profiles at once, one profile of a
\* kind applies on a day.  An hour is paid once, whether the member of staff was
\* present or assisted in a group or both; and the students a profile pays for are
\* those that a look at each day of the period counts: for every period, every
\* rate and every roster.
THEOREM PayAlwaysCountsOnce == SalariesSpec => []PayIsCountedOnce
<1>1. SalariesInv => PayIsCountedOnce
  BY OneOfAKind, HoursOnce, StudentsByDay DEF PayIsCountedOnce
<1>. QED  BY <1>1, SalariesInvHolds, PTL
----------------------------------------------------------------------------
(***************************************************************************)
(* The parts together (MCPeople).  A behaviour is of one part, whose       *)
(* requests do not touch the tables of the others.                         *)
(***************************************************************************)

\* A behaviour of the parts together is a behaviour of one of them alone: so what
\* is proved of each holds of what TLC explores.
THEOREM PeopleAreApart ==
    Spec => \/ part = "enrolments" /\ EnrolmentsSpec
            \/ part = "groups" /\ GroupsSpec
            \/ (part = "students" \/ part = "events") /\ UploadsSpec
            \/ (part = "profiles" \/ part = "work" \/ part = "roster") /\ SalariesSpec
<1>1. Init => /\ \/ part = "enrolments" \/ part = "groups" \/ part = "students" \/ part = "events"
                 \/ part = "profiles" \/ part = "work" \/ part = "roster"
              /\ InitRequests /\ EnrolmentsInit /\ GroupsInit
              /\ UploadsInit /\ SalariesInit
  BY DEF Init, Parts
<1>2. part = "enrolments" /\ [Next]_vars
        => (part = "enrolments")' /\ [EnrolmentsStep]_<<driver, tx, enrolments>>
  BY DEF Next, vars, EnrolmentsStep
<1>3. part = "groups" /\ [Next]_vars
        => (part = "groups")' /\ [GroupsNext]_<<driver, tx, groups>>
  BY DEF Next, vars
<1>4. (part = "students" \/ part = "events") /\ [Next]_vars
        => (part = "students" \/ part = "events")'
           /\ [UploadsStep]_<<driver, tx, uploads>>
  BY DEF Next, vars, UploadsStep
<1>5. (part = "profiles" \/ part = "work" \/ part = "roster") /\ [Next]_vars
        => (part = "profiles" \/ part = "work" \/ part = "roster")'
           /\ [SalariesNext]_<<driver, tx, salaries>>
  BY DEF Next, vars, SalariesNext
<1>. QED
  BY <1>1, <1>2, <1>3, <1>4, <1>5, PTL
  DEF Spec, EnrolmentsSpec, GroupsSpec, UploadsSpec, SalariesSpec

\* Every part has its types, the one that is looked at and those that are not, for
\* any number of requests, students, files and staff.
THEOREM PeopleTyped == Spec => []TypeOK
<1>1. Init => InitRequests /\ EnrolmentsInit /\ GroupsInit /\ UploadsInit /\ SalariesInit
  BY DEF Init
<1>2. Init => EnrolmentsTypeOK /\ GroupsTypeOK /\ UploadsTypeOK /\ SalariesTypeOK
  BY <1>1, EnrolmentsInitHolds, EnrolmentsInvTyped, GroupsInitHolds, GroupsInvTyped,
     UploadsInitHolds, UploadsInvTyped, SalaryStarts, SalariesInvTyped
<1>3. EnrolmentsTypeOK /\ [Next]_vars /\ ~(part = "enrolments")
        => EnrolmentsTypeOK' /\ ~(part = "enrolments")'
  BY DEF Next, vars, EnrolmentsTypeOK, enrolments
<1>4. GroupsTypeOK /\ [Next]_vars /\ ~(part = "groups")
        => GroupsTypeOK' /\ ~(part = "groups")'
  BY DEF Next, vars, GroupsTypeOK, groups, people, events
<1>5. UploadsTypeOK /\ [Next]_vars /\ ~(part = "students" \/ part = "events")
        => UploadsTypeOK' /\ ~(part = "students" \/ part = "events")'
  BY DEF Next, vars, UploadsTypeOK, uploads
<1>6. SalariesTypeOK /\ [Next]_vars /\ ~(part = "profiles" \/ part = "work" \/ part = "roster")
        => SalariesTypeOK' /\ ~(part = "profiles" \/ part = "work" \/ part = "roster")'
  BY DEF Next, vars, SalariesTypeOK, salaries
<1>7. /\ ~(part = "enrolments" /\ part = "groups")
      /\ ~(part = "enrolments" /\ (part = "students" \/ part = "events"))
      /\ ~(part = "enrolments" /\ (part = "profiles" \/ part = "work" \/ part = "roster"))
      /\ ~(part = "groups" /\ (part = "students" \/ part = "events"))
      /\ ~(part = "groups" /\ (part = "profiles" \/ part = "work" \/ part = "roster"))
      /\ ~((part = "students" \/ part = "events")
         /\ (part = "profiles" \/ part = "work" \/ part = "roster"))
  OBVIOUS
<1>8. Spec => []EnrolmentsTypeOK
  BY <1>2, <1>3, <1>7, PeopleAreApart, EnrolmentsTyped, PTL DEF Spec
<1>9. Spec => []GroupsTypeOK
  BY <1>2, <1>4, <1>7, PeopleAreApart, GroupsTyped, PTL DEF Spec
<1>10. Spec => []UploadsTypeOK
  BY <1>2, <1>5, <1>7, PeopleAreApart, UploadsTyped, PTL DEF Spec
<1>11. Spec => []SalariesTypeOK
  BY <1>2, <1>6, <1>7, PeopleAreApart, SalariesTyped, PTL DEF Spec
<1>. QED  BY <1>8, <1>9, <1>10, <1>11, PTL DEF TypeOK
=============================================================================
