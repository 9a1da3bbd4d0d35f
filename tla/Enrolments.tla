----------------------------- MODULE Enrolments -----------------------------
(***************************************************************************)
(* The enrolments of one student: created, edited, left, taken up again,   *)
(* moved to another programme, deleted; with the status history that       *)
(* payroll and attendance read, and the money recorded against them.       *)
(*                                                                         *)
(* Every handler looks in its transaction and then writes; transfer and    *)
(* reactivation lock the enrolment row on PostgreSQL before they look.     *)
(* Only deleting the student looks outside of any transaction; another     *)
(* student is looked at from then on.  No date lies after Today.           *)
(***************************************************************************)
EXTENDS Transactions

CONSTANTS
    Course,          \* training_programs that are active, of one division
    Today,           \* today
    AttendanceDays,  \* bound: days that attendance is marked for
    MaxEnrolments,   \* bound: rows of student_enrollments ever
    MaxTransactions  \* bound: finance transactions

ASSUME EnrolmentsAssumption ==
    /\ Today \in Nat \ {0} /\ AttendanceDays \subseteq 1 .. Today
    /\ MaxEnrolments \in Nat \ {0} /\ MaxTransactions \in Nat

VARIABLES
    enrolment,  \* student_enrollments by id
    history,    \* student_enrollment_status_history by enrolment
    ledger,     \* finance_transactions of the student by id
    attended    \* last day with attendance or a group membership; 0 for none

enrolments == <<enrolment, history, ledger, attended>>
----------------------------------------------------------------------------
Day == 1 .. Today
Open == Today + 1  \* effective_to IS NULL

\* origin is the enrolment it was transferred from, txn its finance_transaction_id
Row == [course : Course, start : Day, active : BOOLEAN, txn : 0 .. MaxTransactions,
        origin : 0 .. MaxEnrolments]

Interval == [active : BOOLEAN, from : Day, to : Day \cup {Open}]

Receipt == [enrolment : 1 .. MaxEnrolments, kind : {"admission", "monthly"}, voided : BOOLEAN]

On(f, x, v) == [y \in DOMAIN f \cup {x} |-> IF y = x THEN v ELSE f[y]]

Without(f, x) == [y \in DOMAIN f \ {x} |-> f[y]]

\* An id is taken again only when nothing refers to the row that had it.
Free == {e \in 1 .. MaxEnrolments :
             /\ e \notin DOMAIN enrolment
             /\ \A t \in DOMAIN ledger : ledger[t].enrolment # e
             /\ \A d \in DOMAIN enrolment : enrolment[d].origin # e
             /\ \A r \in Request : IsOpen(r) => tx[r].row # e}

Fresh == {e \in Free : \A d \in Free : e <= d}

FreshTransaction == (1 .. MaxTransactions) \cap {1 + Cardinality(DOMAIN ledger)}

OpenOf(H) == CHOOSE h \in H : h.to = Open

\* Mutant of Synced: an interval that has not begun is closed where it begins.
SyncedWithoutDelete(H, active, day) ==
    IF OpenOf(H).active = active THEN H
    ELSE (H \ {OpenOf(H)}) \cup {[OpenOf(H) EXCEPT !.to = day],
                                 [active |-> ~active, from |-> day, to |-> Open]}

\* syncStudentEnrollmentStatusHistoryTx of an enrolment that has a history
Synced(H, active, day) ==
    IF OpenOf(H).active = active THEN H
    ELSE (H \ {OpenOf(H)})
         \cup {[h EXCEPT !.to = day] : h \in {h \in H : h.to = Open /\ h.from < day}}
         \cup {[active |-> active, from |-> day, to |-> Open]}

\* syncStudentEnrollmentActiveStartDateTx
StartMoved(H, from, to) ==
    {IF h.to = Open /\ h.active /\ h.from = from THEN [h EXCEPT !.from = to] ELSE h : h \in H}

EnrolmentsInit ==
    /\ enrolment = [e \in {} |-> 0]
    /\ history = [e \in {} |-> {}]
    /\ ledger = [t \in {} |-> 0]
    /\ attended = [e \in {} |-> 0]
----------------------------------------------------------------------------
(* What a handler looks at *)

\* Mutant of Locks: the row is not locked.
LocksNothing(r, e) == TRUE

\* SELECT id FROM student_enrollments WHERE id = ? FOR UPDATE, or a write of
\* the row, is not kept waiting
Locks(r, e) ==
    driver = "postgres" =>
        \A k \in Request \ {r} : IsOpen(k) => tx[k].row # e \/ tx[k].op \notin {"transfer", "reactivate"}

Starts(r, j) ==
    /\ Look(r, j)
    /\ UNCHANGED enrolments

\* updateStudentEnrollment up to its UPDATE, enrollmentProgrammeLockReason
MayUpdate(e, course) ==
    /\ enrolment[e].active
    /\ course # enrolment[e].course =>
           /\ \A t \in DOMAIN ledger : ledger[t].enrolment # e
           /\ attended[e] = 0

\* updateEnrollmentHandler
LookToUpdate(r, e, course, day) ==
    /\ MayUpdate(e, course)
    /\ Starts(r, [op |-> "update", row |-> e, course |-> course, day |-> day,
                  start |-> enrolment[e].start])

\* deactivateStudentEnrollment up to its UPDATE
LookToLeave(r, e, day) ==
    /\ enrolment[e].active /\ day >= enrolment[e].start
    /\ Starts(r, [op |-> "leave", row |-> e, day |-> day])

\* reactivateStudentEnrollment up to its UPDATE
LookToReactivate(r, e, day) ==
    /\ Locks(r, e)
    /\ ~enrolment[e].active /\ day >= enrolment[e].start
    /\ day > OpenOf(history[e]).from
    /\ Starts(r, [op |-> "reactivate", row |-> e, day |-> day])

\* transferStudentEnrollment up to createStudentEnrollmentTx
LookToTransfer(r, e, course, day) ==
    /\ Locks(r, e)
    /\ enrolment[e].active /\ day >= enrolment[e].start
    /\ \A d \in DOMAIN enrolment : enrolment[d].course # course
    /\ day > attended[e]
    /\ Starts(r, [op |-> "transfer", row |-> e, course |-> course, day |-> day])

\* Mutant of MayDelete: monthly payments go with the enrolment.
MayDeleteUnpaid(e) == \A t \in DOMAIN ledger : ledger[t].enrolment = e => ledger[t].kind = "monthly"

\* deleteStudentEnrollment: the blockers
MayDelete(e) == \A t \in DOMAIN ledger : ledger[t].enrolment # e

LookToDelete(r, e) ==
    /\ MayDelete(e)
    /\ Starts(r, [op |-> "delete", row |-> e])

\* deleteAdmission: the count of monthly payments
LookToDeleteStudent(r) ==
    /\ \A t \in DOMAIN ledger :
          ledger[t].kind = "monthly" => ledger[t].enrolment \notin DOMAIN enrolment
    /\ Starts(r, [op |-> "delete student", row |-> 0])

\* verifyReceiptSourceOwnership; voidStudentEnrollmentAdmissionPaymentExpectedTx
\* up to its UPDATE
LookToVoid(r, e) ==
    /\ enrolment[e].txn # 0
    /\ Starts(r, [op |-> "void", row |-> e, txn |-> enrolment[e].txn])

\* resolveEnrollmentAdmissionPaymentByAdmissionTx
PaidAlone(e) == \A d \in DOMAIN enrolment : enrolment[d].txn # 0 <=> d = e

\* voidAdmissionPaymentExpected, which knows the student only
LookToVoidForStudent(r, e) == PaidAlone(e) /\ LookToVoid(r, e)

\* voidStudentMonthlyPaymentExpected up to its UPDATE
LookToVoidMonth(r, t) ==
    /\ ledger[t].kind = "monthly" /\ ~ledger[t].voided
    /\ Starts(r, [op |-> "void month", row |-> ledger[t].enrolment, txn |-> t])
----------------------------------------------------------------------------
(* What it writes *)

\* A write of the row e commits: requests that have read are overtaken.
Finish(r) == End(Overtaken({"delete student"}) \cup {r})

Writes(r, op) ==
    /\ tx[r].op = op
    /\ tx[r].row \in DOMAIN enrolment
    /\ Locks(r, tx[r].row)
    /\ Finish(r)

\* createStudentEnrollmentTx; a student is once in a programme (UNIQUE)
Insert(e, course, day, origin) ==
    /\ e \in Fresh
    /\ \A d \in DOMAIN enrolment : enrolment[d].course # course
    /\ attended' = On(attended, e, 0)

\* createEnrollmentHandler without a payment, which is CollectAdmission
Create(e, course, day) ==
    /\ Insert(e, course, day, 0)
    /\ enrolment' = On(enrolment, e, [course |-> course, start |-> day, active |-> TRUE,
                                      txn |-> 0, origin |-> 0])
    /\ history' = On(history, e, {[active |-> TRUE, from |-> day, to |-> Open]})
    /\ End(Overtaken({"delete student"}))
    /\ UNCHANGED ledger

\* collectEnrollmentAdmissionPaymentAtTx: nobody looks whether the fee is paid,
\* and the transaction takes the place of the one before.
CollectAdmission(e, t) ==
    /\ t \in FreshTransaction
    /\ \A r \in Request : Locks(r, e)
    /\ ledger' = On(ledger, t, [enrolment |-> e, kind |-> "admission", voided |-> FALSE])
    /\ enrolment' = [enrolment EXCEPT ![e].txn = t]
    /\ End(Overtaken({"delete student"}))
    /\ UNCHANGED <<history, attended>>

\* A monthly payment (MonthlyBilling says how much)
CollectMonth(e, t) ==
    /\ t \in FreshTransaction
    /\ ledger' = On(ledger, t, [enrolment |-> e, kind |-> "monthly", voided |-> FALSE])
    /\ End(Overtaken({"delete student"}))
    /\ UNCHANGED <<enrolment, history, attended>>

\* Attendance is marked, or a group is assigned.
Attend(e, day) ==
    /\ enrolment[e].active /\ day >= enrolment[e].start /\ day > attended[e]
    /\ attended' = [attended EXCEPT ![e] = day]
    /\ End(Overtaken({"delete student"}))
    /\ UNCHANGED <<enrolment, history, ledger>>

Update(r) ==
    LET j == tx[r] IN
    /\ Writes(r, "update")
    /\ \A d \in DOMAIN enrolment \ {j.row} : enrolment[d].course # j.course
    /\ enrolment' = [enrolment EXCEPT ![j.row].course = j.course, ![j.row].start = j.day]
    /\ history' = [history EXCEPT ![j.row] = StartMoved(@, j.start, j.day)]
    /\ UNCHANGED <<ledger, attended>>

\* unenrollEnrollmentHandler
Leave(r) ==
    LET j == tx[r] IN
    /\ Writes(r, "leave")
    /\ enrolment' = [enrolment EXCEPT ![j.row].active = FALSE]
    /\ history' = [history EXCEPT ![j.row] = Synced(@, FALSE, j.day)]
    /\ UNCHANGED <<ledger, attended>>

\* reenrollEnrollmentHandler; the UPDATE asks for active = 0
Reactivate(r) ==
    LET j == tx[r] IN
    /\ Writes(r, "reactivate")
    /\ ~enrolment[j.row].active
    /\ enrolment' = [enrolment EXCEPT ![j.row].active = TRUE]
    /\ history' = [history EXCEPT ![j.row] = Synced(@, TRUE, j.day)]
    /\ UNCHANGED <<ledger, attended>>

\* transferStudentEnrollment from createStudentEnrollmentTx on
Transfer(r, e) ==
    LET j == tx[r] IN
    /\ Writes(r, "transfer")
    /\ Insert(e, j.course, j.day, j.row)
    /\ enrolment' = On([enrolment EXCEPT ![j.row].active = FALSE], e,
                       [course |-> j.course, start |-> j.day, active |-> TRUE, txn |-> 0,
                        origin |-> j.row])
    /\ history' = On([history EXCEPT ![j.row] = Synced(@, FALSE, j.day)], e,
                     {[active |-> TRUE, from |-> j.day, to |-> Open]})
    /\ UNCHANGED ledger

\* deleteEnrollmentHandler; the history goes with the row (ON DELETE CASCADE)
Delete(r) ==
    LET e == tx[r].row IN
    /\ Writes(r, "delete")
    /\ enrolment' = Without(enrolment, e)
    /\ history' = Without(history, e)
    /\ attended' = Without(attended, e)
    /\ UNCHANGED ledger

\* deleteAdmissionHandler: the enrolments with their histories and monthly
\* payments go with the student; the cash book stays.
DeleteStudent(r) ==
    /\ tx[r].op = "delete student"
    /\ enrolment' = [e \in {} |-> 0] /\ history' = [e \in {} |-> {}]
    /\ attended' = [e \in {} |-> 0]
    /\ Finish(r)
    /\ UNCHANGED ledger

Voided(e) == [enrolment EXCEPT ![e].txn = 0]

\* voidEnrollmentAdmissionPaymentExpected from its UPDATE on; a transaction that
\* is already void fails the whole (voidFinanceTransactionTx).
Void(r) ==
    LET j == tx[r] IN
    /\ Writes(r, "void")
    /\ ~ledger[j.txn].voided
    /\ enrolment' = Voided(j.row)
    /\ ledger' = [ledger EXCEPT ![j.txn].voided = TRUE]
    /\ UNCHANGED <<history, attended>>

\* Its UPDATE asks for voided = 0.
VoidMonth(r) ==
    LET j == tx[r] IN
    /\ j.op = "void month"
    /\ ~ledger[j.txn].voided
    /\ ledger' = [ledger EXCEPT ![j.txn].voided = TRUE]
    /\ Finish(r)
    /\ UNCHANGED <<enrolment, history, attended>>

EnrolmentsNext ==
    \/ \E r \in Request, e \in DOMAIN enrolment :
        \/ \E day \in Day : LookToLeave(r, e, day) \/ LookToReactivate(r, e, day)
        \/ \E course \in Course, day \in Day :
              LookToUpdate(r, e, course, day) \/ LookToTransfer(r, e, course, day)
        \/ LookToDelete(r, e) \/ LookToVoid(r, e) \/ LookToVoidForStudent(r, e)
    \/ \E r \in Request :
        \/ Update(r) \/ Leave(r) \/ Reactivate(r) \/ Delete(r) \/ Void(r) \/ VoidMonth(r)
        \/ LookToDeleteStudent(r) \/ DeleteStudent(r)
        \/ \E t \in DOMAIN ledger : LookToVoidMonth(r, t)
        \/ \E e \in 1 .. MaxEnrolments : Transfer(r, e)
    \/ \E e \in 1 .. MaxEnrolments, course \in Course, day \in Day : Create(e, course, day)
    \/ \E e \in DOMAIN enrolment :
        \/ \E t \in 1 .. MaxTransactions : CollectAdmission(e, t) \/ CollectMonth(e, t)
        \/ \E day \in AttendanceDays : Attend(e, day)
----------------------------------------------------------------------------
EnrolmentsTypeOK ==
    /\ DOMAIN enrolment \subseteq 1 .. MaxEnrolments /\ enrolment \in [DOMAIN enrolment -> Row]
    /\ DOMAIN history = DOMAIN enrolment /\ \A e \in DOMAIN history : history[e] \subseteq Interval
    /\ DOMAIN ledger \subseteq 1 .. MaxTransactions /\ ledger \in [DOMAIN ledger -> Receipt]
    /\ DOMAIN attended = DOMAIN enrolment /\ attended \in [DOMAIN enrolment -> 0 .. Today]

\* Payroll and attendance read the history, the desk the flag: every enrolment
\* has one open interval, which says what the flag says, and every closed one
\* is not empty (effective_to > effective_from), whatever the dates of leaving
\* and returning and however the requests interleave.
HistoryFollowsStatus ==
    \A e \in DOMAIN enrolment :
        /\ \E h \in history[e] : h.to = Open /\ h.active = enrolment[e].active
        /\ Cardinality({h \in history[e] : h.to = Open}) = 1
        /\ \A h \in history[e] : h.from < h.to

\* The enrolment names the transaction that paid its admission fee, and that
\* transaction is its own and not void.
AdmissionAgrees ==
    \A e \in DOMAIN enrolment :
        enrolment[e].txn # 0 =>
            ledger[enrolment[e].txn] = [enrolment |-> e, kind |-> "admission", voided |-> FALSE]

\* What an enrolment says of itself is what its history and the finance
\* transactions say of it: HistoryFollowsStatus and AdmissionAgrees hold.
EnrolmentsAgree == HistoryFollowsStatus /\ AdmissionAgrees

\* Two transfers, or a transfer and an unenrolment, do not both leave from one
\* enrolment: whenever a transfer adds an enrolment, the one it came from was
\* active until then and is not any more.
TransferClosesItsOrigin ==
    [][\A e \in DOMAIN enrolment' \ DOMAIN enrolment :
          LET o == enrolment'[e].origin
          IN  o # 0 => enrolment[o].active /\ ~enrolment'[o].active]_<<tx, enrolments>>

\* On SQLite money keeps its enrolment: one with any payment, void or not, is
\* neither deleted nor moved to another programme, as long as nobody deletes
\* the student. (On PostgreSQL a payment that comes between the check and the
\* DELETE is lost with the row; so is, on both, one that comes between the check
\* and the DELETE of the student.)
MoneyKeepsItsEnrolment ==
    [][driver = "sqlite" /\ (\A r \in Request : tx[r].op # "delete student") =>
          \A t \in DOMAIN ledger :
              LET e == ledger[t].enrolment
              IN  e \in DOMAIN enrolment =>
                      e \in DOMAIN enrolment' /\ enrolment'[e].course = enrolment[e].course
      ]_<<tx, enrolments>>
=============================================================================
