---------------------------- MODULE MCBackOffice ----------------------------
(***************************************************************************)
(* The parts of the office that share no table with each other, for TLC:   *)
(* each behaviour is of one part, with two requests to it at a time.       *)
(***************************************************************************)
EXTENDS MonthlyBilling, BookingCommunications, StudentAttendance, StaffAttendance,
        PayrollRun, TLC

CONSTANTS early, shared

VARIABLE part

\* Around the 15th and the last five days, and before the month.
MCStartDays == {0, 16, 27}

\* Two leaves that meet, one that begins before the month and one that fills it.
MCSpans == {[from |-> -2, to |-> 3], [from |-> 3, to |-> 10], [from |-> 1, to |-> 31]}

\* Two payrolls that overlap on day 2; the salary profile ends with the first.
MCPeriods == {[from |-> 1, to |-> 2], [from |-> 2, to |-> 3]}
MCSessionDay == [s \in Session |-> IF s = early THEN 1 ELSE 2]
MCCovered == {p \in MCPeriods : p.from = 1}

Parts == {"billing", "communications", "students", "staff", "payroll", "advance"}

\* What a part that is not looked at is left as
Unused(p) ==
    CASE p = "billing"        -> terms = [start |-> 0, free |-> FALSE, discounted |-> 0]
      [] p = "communications" -> booking = "pending"
      [] p = "students"       -> active = {}
      [] p = "advance"        -> settled
      [] OTHER                -> TRUE

\* Where the driver makes no difference, or a part makes no promise on
\* PostgreSQL, it is SQLite.
Init ==
    /\ part \in Parts
    /\ InitRequests
    /\ part \in {"communications", "payroll", "advance"} => driver = "sqlite"
    /\ BillingInit /\ CommunicationsInit /\ AttendanceInit /\ StaffInit /\ PayrollInit
    /\ \A p \in Parts \ {part} : Unused(p)

Billing == BillingNext \/ \E r \in Request : GiveUp(r) /\ UNCHANGED billing
Payroll == PayrollNext \/ \E r \in Request : GiveUp(r) /\ UNCHANGED payroll

\* A coach who owes an advance has one person at their payroll.
OneAtATime == Cardinality({r \in Request : tx'[r] # Idle}) <= 1

Next ==
    /\ UNCHANGED part
    /\ \/ /\ part = "billing" /\ Billing
          /\ UNCHANGED <<communications, attendance, staff, payroll>>
       \/ /\ part = "communications" /\ CommunicationsNext
          /\ UNCHANGED <<billing, attendance, staff, payroll>>
       \/ /\ part = "students" /\ AttendanceNext
          /\ UNCHANGED <<billing, communications, staff, payroll>>
       \/ /\ part = "staff" /\ StaffNext
          /\ UNCHANGED <<billing, communications, attendance, payroll>>
       \/ /\ part = "payroll" /\ Payroll
          /\ UNCHANGED <<billing, communications, attendance, staff>>
       \/ /\ part = "advance" /\ Payroll /\ OneAtATime
          /\ UNCHANGED <<billing, communications, attendance, staff>>

vars == <<part, driver, tx, billing, communications, attendance, staff, payroll>>

Spec == Init /\ [][Next]_vars

TypeOK ==
    BillingTypeOK /\ CommunicationsTypeOK /\ AttendanceTypeOK /\ StaffTypeOK /\ PayrollTypeOK

RequestSymmetry == Permutations(Request)
=============================================================================
