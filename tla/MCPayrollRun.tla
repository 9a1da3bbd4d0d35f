---------------------------- MODULE MCPayrollRun ----------------------------
(* Instances of PayrollRun for TLC. *)
EXTENDS PayrollRun, TLC

CONSTANTS early, shared

\* Two periods that overlap on day 2.
MCPeriods == {[from |-> 1, to |-> 2], [from |-> 2, to |-> 3]}

MCSessionDay == [s \in Session |-> IF s = early THEN 1 ELSE 2]

\* The profile ends with the first.
MCCovered == {p \in MCPeriods : p.from = 1}

RequestSymmetry == Permutations(Request)

\* What the module promises, it promises on SQLite.
Init == InitRequests /\ driver = "sqlite" /\ PayrollInit
Next == PayrollNext \/ \E r \in Request : GiveUp(r) /\ UNCHANGED payroll
Spec == Init /\ [][Next]_<<driver, tx, payroll>>
=============================================================================
