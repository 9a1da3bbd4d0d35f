----------------------------- MODULE PayrollRun -----------------------------
(***************************************************************************)
(* The salaries of one coach: payroll runs, the two salaries a run may     *)
(* hold for them (from the salary profile, and for the completed           *)
(* one-to-one sessions of the period), their approval and payment, and the *)
(* recovery of an advance.                                                 *)
(*                                                                         *)
(* Generating reads the run, the profile and the sessions before it opens  *)
(* its transaction; on PostgreSQL it then locks the user (when it is for   *)
(* one member of the staff) and each session.                              *)
(***************************************************************************)
EXTENDS Transactions, FiniteSetsExt

CONSTANTS
    Period,      \* [from, to] of the payroll_runs, none a whole calendar month
    Session,     \* one_to_one_booking_sessions of the coach, with a coach fee
    SessionDay,  \* their slot_date
    Covered,     \* the periods that the dates of the salary profile cover
    Advance,     \* amount of the coach's staff_advances row, 0 for none
    Installment  \* its installment_amount; a salary is more than that

ASSUME PayrollAssumption ==
    /\ \A p \in Period : p.from \in Int /\ p.to \in Int /\ p.from <= p.to
    /\ SessionDay \in [Session -> Int] /\ Covered \subseteq Period
    /\ Advance \in Nat /\ Installment \in Nat \ {0}

VARIABLES
    run,       \* status of the payroll_runs
    salary,    \* payroll_payments by run and source
    done,      \* sessions that are completed
    profiled,  \* the salary profile is active
    cash,      \* what the coach repaid at the counter
    settled    \* staff_advances.status = 'settled'

payroll == <<run, salary, done, profiled, cash, settled>>
----------------------------------------------------------------------------
Source == {"profile", "one_to_one"}

\* deduct is its salary_advance adjustment, repaid the staff_advance_repayments
\* row that names it.
Salary == [status : {"draft", "calculated", "approved", "paid", "void"},
           sessions : SUBSET Session, deduct : 0 .. Advance, repaid : 0 .. Advance,
           txn : {"none", "posted", "void"}]

Rows(p) == {k \in DOMAIN salary : k.run = p}

Row(p, source) == [run |-> p, source |-> source]

InPeriod(p) == {s \in Session : SessionDay[s] \in p.from .. p.to}

Overlapping(p, q) == p.from <= q.to /\ q.from <= p.to

Repaid(m) == cash + MapThenSumSet(LAMBDA k : m[k].repaid, DOMAIN m)

Reserved(m) == MapThenSumSet(LAMBDA k : m[k].deduct,
                   {k \in DOMAIN m : m[k].status \in {"draft", "calculated", "approved"}})

\* applyStaffAdvanceDeductionsTx
Deduction(m) ==
    IF settled THEN 0
    ELSE Max({0, Min({Installment, Advance - Repaid(m) - Reserved(m)})})

Insert(m, k, row) == [x \in DOMAIN m \cup {k} |-> IF x = k THEN row ELSE m[x]]

\* The repayment is written while a list is being read, which PostgreSQL's
\* driver refuses: there the coach has no advance.
PayrollInit ==
    /\ run = [p \in Period |-> "none"]
    /\ salary = [k \in {} |-> 0]
    /\ done = {}
    /\ profiled = TRUE
    /\ settled \in BOOLEAN
    /\ driver = "postgres" \/ Advance = 0 => settled
    /\ cash = IF settled THEN Advance ELSE 0

CommitPayroll(R) == End(Overtaken({"asked"}) \cup R)
----------------------------------------------------------------------------
(* What the payroll is computed from *)

Complete(s) ==
    /\ s \notin done
    /\ done' = done \cup {s}
    /\ CommitPayroll({})
    /\ UNCHANGED <<run, salary, profiled, cash, settled>>

ChangeProfile ==
    /\ profiled' = ~profiled
    /\ CommitPayroll({})
    /\ UNCHANGED <<run, salary, done, cash, settled>>

\* createPayrollRun; the period is UNIQUE.
CreateRun(p) ==
    /\ run[p] = "none"
    /\ run' = [run EXCEPT ![p] = "draft"]
    /\ CommitPayroll({})
    /\ UNCHANGED <<salary, done, profiled, cash, settled>>
----------------------------------------------------------------------------
(* syncPayrollRunPayments *)

\* listOneToOnePayrollEarnings: not in a salary of another run that is not void
Earnings(p) ==
    {s \in done \cap InPeriod(p) :
        \A k \in DOMAIN salary : s \in salary[k].sessions => salary[k].status = "void" \/ k.run = p}

\* salaryProfileAppliesToPayrollPeriod
Applies(p) == profiled /\ p \in Covered

Ask(r, p, all, again, sessions, profile) ==
    /\ run[p] \in {"draft", "calculated"}
    /\ Look(r, [op |-> "asked", run |-> p, all |-> all, again |-> again,
                sessions |-> sessions, profile |-> profile])
    /\ UNCHANGED payroll

\* generatePayrollRunPayments, and generateStaffPayroll for one
AskToGenerate(r, p, all) ==
    /\ Applies(p) \/ Earnings(p) # {}
    /\ Ask(r, p, all, FALSE, Earnings(p), Applies(p))

\* recalculatePayrollRun: only who is in the run already
AskToRecalculate(r, p, all) ==
    LET generated == Rows(p) # {} IN
    /\ all \/ generated
    /\ Ask(r, p, all, TRUE, IF generated THEN Earnings(p) ELSE {}, Applies(p) /\ generated)

Syncing == {r \in Request : tx[r].op = "sync"}

\* checkStaffPayrollOverlapTx, which runs for one member of the staff only
NoOverlap(r, j) ==
    j.all \/
    /\ driver = "postgres" => \A k \in Syncing \ {r} : tx[k].all
    /\ \A k \in DOMAIN salary :
          (salary[k].status # "void" /\ Overlapping(k.run, j.run)) => (j.again /\ k.run = j.run)

\* A coaching salary that was paid and voided is left as it is.
Terminal(p) ==
    LET k == Row(p, "one_to_one")
    IN  k \in DOMAIN salary /\ salary[k].status = "void" /\ salary[k].txn # "none"

\* Mutant of Unclaimed: the claims are not counted again.
UnclaimedAsListed(r, j) == TRUE

\* syncOneToOnePayrollEarningsTx: each session is locked, then its claims are
\* counted.
Unclaimed(r, j) ==
    /\ driver = "postgres" => \A k \in Syncing \ {r} : tx[k].sessions \cap j.sessions = {}
    /\ \A k \in DOMAIN salary \ {Row(j.run, "one_to_one")} :
          salary[k].status # "void" => salary[k].sessions \cap j.sessions = {}

Begin(r) ==
    LET j == tx[r] IN
    /\ j.op = "asked"
    /\ NoOverlap(r, j)
    /\ \A k \in Rows(j.run) : salary[k].status \notin {"approved", "paid"}
    /\ j.again \/ Rows(j.run) = {}
    /\ Terminal(j.run) \/ Unclaimed(r, j)
    /\ tx' = [tx EXCEPT ![r] = [op |-> "sync", run |-> j.run, all |-> j.all, again |-> j.again,
                  profile |-> j.profile, rows |-> Rows(j.run),
                  sessions |-> IF Terminal(j.run) THEN {} ELSE j.sessions,
                  terminal |-> Terminal(j.run)]]
    /\ UNCHANGED driver
    /\ UNCHANGED payroll

New(m, status, sessions, deduct) ==
    [status |-> status, sessions |-> sessions, deduct |-> deduct, repaid |-> 0, txn |-> "none"]

\* The salary from the profile: written again, whatever became of it, or new; and
\* void when the profile no longer applies.  A quantity still to be entered leaves
\* it a draft without an amount.
ProfileSalary(j, status) ==
    LET k == Row(j.run, "profile") IN
    IF j.profile /\ k \in j.rows THEN [salary EXCEPT ![k].status = status]
    ELSE IF j.profile
    THEN Insert(salary, k, New(salary, status, {}, IF status = "draft" THEN 0 ELSE Deduction(salary)))
    ELSE IF k \in j.rows THEN [salary EXCEPT ![k].status = "void"]
    ELSE salary

\* The salary for the sessions
SessionSalary(m, j) ==
    LET k == Row(j.run, "one_to_one") IN
    IF j.terminal THEN m
    ELSE IF j.sessions # {} /\ k \in j.rows
    THEN [m EXCEPT ![k].status = "calculated", ![k].sessions = j.sessions]
    ELSE IF j.sessions # {} THEN Insert(m, k, New(m, "calculated", j.sessions, Deduction(m)))
    ELSE IF k \in j.rows THEN [m EXCEPT ![k].status = "void"]
    ELSE m

Sync(r) ==
    LET j == tx[r] IN
    /\ j.op = "sync"
    /\ Rows(j.run) = j.rows  \* no row was inserted meanwhile (UNIQUE)
    /\ \E status \in {"draft", "calculated"} :
          salary' = SessionSalary(ProfileSalary(j, status), j)
    /\ run' = [run EXCEPT ![j.run] = "calculated"]
    /\ CommitPayroll({r})
    /\ UNCHANGED <<done, profiled, cash, settled>>
----------------------------------------------------------------------------
(* One salary: each handler reads its status, then writes it by id. *)

LookAt(r, op, k) ==
    /\ Look(r, [op |-> op, row |-> k])
    /\ UNCHANGED payroll

Writes(r, op, m) ==
    /\ tx[r].op = op
    /\ salary' = m
    /\ CommitPayroll({r})
    /\ UNCHANGED <<run, done, profiled, cash>>

Editable(k) == salary[k].status \in {"draft", "calculated"}

LookToEnterQuantity(r, k) ==
    k.source = "profile" /\ salary[k].status = "draft" /\ LookAt(r, "quantity", k)

\* updatePayrollPaymentQuantity
EnterQuantity(r) ==
    /\ Writes(r, "quantity", [salary EXCEPT ![tx[r].row].status = "calculated"])
    /\ UNCHANGED settled

LookToAdjust(r, k) == Editable(k) /\ LookAt(r, "adjust", k)

\* addPayrollAdjustment: any adjustment records the deduction of the advance as
\* repaid (finalizeStaffAdvancePayrollRepaymentsTx), and nothing else does.
AddAdjustment(r) ==
    LET k == tx[r].row
        m == [salary EXCEPT ![k].repaid = IF salary[k].deduct > 0 THEN salary[k].deduct ELSE @]
    IN
    /\ Writes(r, "adjust", m)
    /\ settled' = (settled \/ (salary[k].deduct > 0 /\ Repaid(m) = Advance))

\* deletePayrollAdjustment, of the deduction: what was recorded stays.
DeleteDeduction(r) ==
    /\ Writes(r, "adjust", [salary EXCEPT ![tx[r].row].deduct = 0])
    /\ UNCHANGED settled

LookToApprove(r, k) ==
    run[k.run] = "calculated" /\ salary[k].status = "calculated" /\ LookAt(r, "approve", k)

\* approvePayrollPayment
ApproveSalary(r) ==
    /\ Writes(r, "approve", [salary EXCEPT ![tx[r].row].status = "approved"])
    /\ UNCHANGED settled

LookToRollBack(r, k) ==
    /\ run[k.run] = "calculated" /\ salary[k].status = "approved" /\ salary[k].txn = "none"
    /\ LookAt(r, "roll back", k)

\* rollbackPayrollPaymentApproval
RollBack(r) ==
    /\ Writes(r, "roll back", [salary EXCEPT ![tx[r].row].status = "calculated"])
    /\ UNCHANGED settled

MayPay(k) == salary[k].status = "approved" /\ salary[k].txn = "none"

LookToPay(r, k) == MayPay(k) /\ LookAt(r, "pay", k)

\* payPayrollPayment; a salary is the source of one transaction (UNIQUE).
Pay(r) ==
    /\ Writes(r, "pay", [salary EXCEPT ![tx[r].row].status = "paid", ![tx[r].row].txn = "posted"])
    /\ salary[tx[r].row].txn = "none"
    /\ UNCHANGED settled

LookToVoid(r, k) ==
    salary[k].status = "paid" /\ salary[k].txn = "posted" /\ LookAt(r, "void", k)

\* voidFinanceTransactionTx, voidStaffAdvancePayrollRepaymentsTx
Voided(k) == [salary EXCEPT ![k].status = "void", ![k].txn = "void", ![k].repaid = 0]

\* voidPayrollPaymentExpected
Void(r) ==
    LET k == tx[r].row IN
    /\ Writes(r, "void", Voided(k))
    /\ salary[k].txn = "posted"
    /\ settled' = (settled /\ salary[k].repaid = 0)

\* collectStaffAdvanceRepayment; what salaries still to be paid withhold is not
\* counted.
CollectRepayment(amount) ==
    /\ ~settled
    /\ amount <= Advance - Repaid(salary)
    /\ cash' = cash + amount
    /\ settled' = (Repaid(salary) + amount = Advance)
    /\ CommitPayroll({})
    /\ UNCHANGED <<run, salary, done, profiled>>
----------------------------------------------------------------------------
(* The run *)

LookToApproveRun(r, p) ==
    /\ run[p] = "calculated"
    /\ Rows(p) # {}
    /\ \A k \in Rows(p) : salary[k].status \in {"calculated", "approved", "void"}
    /\ LookAt(r, "approve run", p)

\* approvePayrollRun
ApproveRun(r) ==
    LET p == tx[r].row IN
    /\ tx[r].op = "approve run"
    /\ salary' = [k \in DOMAIN salary |->
                     IF k.run = p /\ salary[k].status = "calculated"
                     THEN [salary[k] EXCEPT !.status = "approved"] ELSE salary[k]]
    /\ run' = [run EXCEPT ![p] = "approved"]
    /\ CommitPayroll({r})
    /\ UNCHANGED <<done, profiled, cash, settled>>

MayClose(p) ==
    /\ run[p] = "approved" /\ Rows(p) # {}
    /\ \A k \in Rows(p) : salary[k].status \in {"paid", "void"}

LookToClose(r, p) == MayClose(p) /\ LookAt(r, "close", p)

\* closePayrollRun
Close(r) ==
    /\ tx[r].op = "close"
    /\ run' = [run EXCEPT ![tx[r].row] = "closed"]
    /\ CommitPayroll({r})
    /\ UNCHANGED <<salary, done, profiled, cash, settled>>

PayrollNext ==
    \/ \E s \in Session : Complete(s)
    \/ ChangeProfile
    \/ \E p \in Period : CreateRun(p)
    \/ \E r \in Request, p \in Period :
        \/ \E all \in BOOLEAN : AskToGenerate(r, p, all) \/ AskToRecalculate(r, p, all)
        \/ LookToApproveRun(r, p) \/ LookToClose(r, p)
    \/ \E r \in Request, k \in DOMAIN salary :
        \/ LookToEnterQuantity(r, k) \/ LookToAdjust(r, k) \/ LookToApprove(r, k)
        \/ LookToRollBack(r, k) \/ LookToPay(r, k) \/ LookToVoid(r, k)
    \/ \E r \in Request :
        \/ Begin(r) \/ Sync(r) \/ EnterQuantity(r) \/ AddAdjustment(r) \/ DeleteDeduction(r)
        \/ ApproveSalary(r) \/ RollBack(r) \/ Pay(r) \/ Void(r) \/ ApproveRun(r) \/ Close(r)
    \/ \E amount \in 1 .. Advance : CollectRepayment(amount)
----------------------------------------------------------------------------
PayrollTypeOK ==
    /\ run \in [Period -> {"none", "draft", "calculated", "approved", "closed"}]
    /\ DOMAIN salary \subseteq [run : Period, source : Source]
    /\ salary \in [DOMAIN salary -> Salary]
    /\ done \subseteq Session /\ profiled \in BOOLEAN /\ cash \in 0 .. Advance /\ settled \in BOOLEAN

\* "a 1-to-1 session is already included in another salary": no session is paid
\* for in two salaries, through recalculation, voiding and two runs whose periods
\* overlap.
SessionPaidOnce ==
    driver = "sqlite" =>
    \A k, l \in DOMAIN salary :
        (k # l /\ salary[k].status # "void" /\ salary[l].status # "void")
            => salary[k].sessions \cap salary[l].sessions = {}

\* On SQLite a salary is paid exactly while the cash book has its transaction.
PaidAsPosted ==
    driver = "sqlite" =>
        \A k \in DOMAIN salary : salary[k].status = "paid" <=> salary[k].txn = "posted"

\* On SQLite a closed run has nothing left to pay.
ClosedIsSettled ==
    driver = "sqlite" =>
        \A k \in DOMAIN salary : run[k.run] = "closed" => salary[k].status \in {"paid", "void"}

\* A session, a salary and a run are settled once: SessionPaidOnce, PaidAsPosted
\* and ClosedIsSettled hold.
PayrollIsSettled == SessionPaidOnce /\ PaidAsPosted /\ ClosedIsSettled

\* "Any remaining balance is deducted when payroll is generated": what paid
\* salaries withheld and the coach repaid is never more than the advance.
AdvanceRecoveredOnce ==
    cash + MapThenSumSet(LAMBDA k : salary[k].deduct,
               {k \in DOMAIN salary : salary[k].status = "paid"}) <= Advance
=============================================================================
