--------------------------- MODULE MonthlyBilling ---------------------------
(***************************************************************************)
(* One enrolment in one month: its leaves, what the payment register       *)
(* (listStudentPaymentRowsByDivisionIDs) says is due, and what the counter *)
(* (collectStudentMonthlyPaymentAmountAtWithAdjustment) accepts.  The two  *)
(* compute the fee separately, the register from the discounted fee and    *)
(* the policy of a leave, the counter from the fee of the programme and    *)
(* the days of leave.                                                      *)
(*                                                                         *)
(* Days are counted within the month; a date before it is 0 or less, a     *)
(* date after it is above MonthDays.  Money is in cents.                   *)
(***************************************************************************)
EXTENDS Transactions, FiniteSetsExt, Sequences

CONSTANTS
    MonthDays,    \* monthEnd.Day()
    Fee,          \* training_programs.monthly_fee
    Discounts,    \* values of student_enrollments.discounted_monthly_fee, 0 for none
    StartDays,    \* days an enrolment may have started on
    Spans,        \* [from, to] of the leaves that are asked for
    PartAmounts,  \* amounts paid at the counter other than all that is due
    MaxLeaves,    \* bound: leaves on record at a time
    MaxPayments   \* bound: payments

ASSUME BillingAssumption ==
    /\ MonthDays \in 28 .. 31 /\ Fee \in Nat \ {0}
    /\ Discounts \subseteq 0 .. Fee /\ StartDays \subseteq Int
    /\ Spans \subseteq [from : Int, to : Int] /\ \A s \in Spans : s.from <= s.to
    /\ PartAmounts \subseteq Nat \ {0}
    /\ MaxLeaves \in Nat /\ MaxPayments \in Nat

VARIABLES
    terms,     \* student_enrollments: start, free_monthly_fee, discounted_monthly_fee
    leaves,    \* student_enrollment_leaves of the enrolment
    payments   \* student_monthly_payments that are not voided, in order

billing == <<terms, leaves, payments>>
----------------------------------------------------------------------------
Policies == {"legacy_prorated", "full_fee", "half_fee", "no_fee"}

Month == 1 .. MonthDays

Days(s) == s.from .. s.to

\* overlappingLeaveDaysForMonth
LeaveDays(L) == Cardinality({d \in Month : \E l \in L : d \in Days(l)})

\* normalizeMoney of a quotient, in cents
Rounded(n, m) == (2 * n + m) \div (2 * m)

\* proratedMonthlyFee
Prorated(base, days) ==
    IF days >= MonthDays THEN 0 ELSE base - Rounded(base * days, MonthDays)

\* applyFirstMonthEnrollmentDiscount; a start outside the month changes nothing.
FirstMonth(base, start) ==
    IF start \notin Month \/ (start <= 15 /\ start < MonthDays - 4) THEN base
    ELSE IF start >= MonthDays - 4 THEN 0
    ELSE Rounded(base, 2)

InMonth(L) == {l \in L : \E d \in Month : d \in Days(l)}

\* The order of the leaves: by start, end, id
Before(k, l) == \/ k.from < l.from
                \/ k.from = l.from /\ k.to < l.to
                \/ k.from = l.from /\ k.to = l.to /\ k.id < l.id

\* leavePolicyMonthlyFee: the first leave in the month decides the policy.
UnderPolicy(base, L) ==
    IF InMonth(L) = {} THEN base ELSE
    LET first == CHOOSE l \in InMonth(L) : \A k \in InMonth(L) \ {l} : Before(l, k)
    IN  CASE first.policy = "full_fee"        -> base
          [] first.policy = "half_fee"        -> Rounded(base, 2)
          [] first.policy = "no_fee"          -> 0
          [] first.policy = "legacy_prorated" -> Prorated(base, LeaveDays(L))

\* What the register shows as the fee of the month
RegisterFee(t, L) ==
    IF t.free THEN 0
    ELSE UnderPolicy(FirstMonth(IF t.discounted > 0 THEN t.discounted ELSE Fee, t.start), L)

\* Mutant of CounterFee: the discount of the first month is forgotten.
CounterFeeInFull(t, L) == IF t.free THEN 0 ELSE Prorated(Fee, LeaveDays(L))

\* What the counter takes the fee to be
CounterFee(t, L) ==
    IF t.free THEN 0 ELSE Prorated(FirstMonth(Fee, t.start), LeaveDays(L))

Sum(s) == MapThenSumSet(LAMBDA i : s[i], DOMAIN s)

Collected == Sum(payments)
----------------------------------------------------------------------------
BillingInit ==
    /\ terms \in [start : StartDays, free : BOOLEAN, discounted : Discounts]
    /\ terms.free => terms.discounted = 0
    /\ leaves = {}
    /\ payments = <<>>

\* createStudentEnrollmentLeave counts the overlapping leaves, then inserts.
LookForLeave(r, s) ==
    /\ \A l \in leaves : Days(l) \cap Days(s) = {}
    /\ Look(r, [op |-> "leave", span |-> s])
    /\ UNCHANGED billing

NextId == 1 + Max({l.id : l \in leaves} \cup {0})

InsertLeave(r, policy) ==
    /\ tx[r].op = "leave"
    /\ Cardinality(leaves) < MaxLeaves
    /\ leaves' = leaves \cup {[id |-> NextId, from |-> tx[r].span.from,
                               to |-> tx[r].span.to, policy |-> policy]}
    /\ End(Overtaken({}) \cup {r})
    /\ UNCHANGED <<terms, payments>>

\* deleteStudentEnrollmentLeave: one statement
DeleteLeave ==
    /\ \E l \in leaves : leaves' = leaves \ {l}
    /\ End(Overtaken({}))
    /\ UNCHANGED <<terms, payments>>

\* Mutant of Outstanding: a payment counts in full whatever was paid before.
OutstandingWithoutPayments == CounterFee(terms, leaves)

Outstanding == CounterFee(terms, leaves) - Collected

\* Mutant of LookToCollect: a month that is paid takes more.
LookToCollectMore(r) ==
    /\ Look(r, [op |-> "collect", due |-> Outstanding])
    /\ UNCHANGED billing

\* The counter reads what is due; nothing due, or a month covered by leave, is
\* refused.  The amount is all that is due or a part of it, and may include a
\* discount given at the counter, which settles like money.
LookToCollect(r) ==
    /\ Outstanding > 0
    /\ Look(r, [op |-> "collect", due |-> Outstanding])
    /\ UNCHANGED billing

InsertPayment(r) ==
    /\ tx[r].op = "collect"
    /\ Len(payments) < MaxPayments
    /\ \E amount \in (PartAmounts \cap 1 .. tx[r].due) \cup {tx[r].due} :
          payments' = Append(payments, amount)
    /\ End(Overtaken({}) \cup {r})
    /\ UNCHANGED <<terms, leaves>>

\* updateStudentEnrollment: the terms of a course that goes on
ChangeTerms ==
    /\ \E t \in [start : StartDays, free : BOOLEAN, discounted : Discounts] :
        /\ t.free => t.discounted = 0
        /\ terms' = t
    /\ End(Overtaken({}))
    /\ UNCHANGED <<leaves, payments>>

BillingNext ==
    \/ \E r \in Request :
        \/ \E s \in Spans : LookForLeave(r, s)
        \/ \E policy \in Policies : InsertLeave(r, policy)
        \/ LookToCollect(r) \/ InsertPayment(r)
    \/ DeleteLeave \/ ChangeTerms
----------------------------------------------------------------------------
BillingTypeOK ==
    /\ terms \in [start : StartDays, free : BOOLEAN, discounted : Discounts]
    /\ \A l \in leaves : [from |-> l.from, to |-> l.to] \in Spans /\ l.policy \in Policies
    /\ Len(payments) <= MaxPayments /\ \A i \in DOMAIN payments : payments[i] \in 1 .. Fee

\* ErrStudentLeaveOverlap: no day is on two leaves.  On PostgreSQL two requests
\* may each find no overlap, so this is about SQLite.
LeavesDisjoint ==
    driver = "sqlite" =>
        \A k, l \in leaves : k # l => Days(k) \cap Days(l) = {}

\* The register and the counter, which compute the fee on their own, agree where
\* neither a discounted fee nor a leave policy tells them apart: whatever day the
\* course began, however the leaves overlap the month.
RegisterAgreesWithCounter ==
    (terms.discounted = 0 /\ \A l \in InMonth(leaves) : l.policy = "legacy_prorated")
        => RegisterFee(terms, leaves) = CounterFee(terms, leaves)

\* "amount exceeds due": on SQLite no payment takes the month above the fee in
\* force when it is recorded, however payments, leaves and changes of the terms
\* interleave.
NothingBeyondDue ==
    [][driver = "sqlite" /\ payments' # payments
          => Sum(payments') <= CounterFee(terms', leaves')]_<<tx, billing>>

\* What a month costs can be told: LeavesDisjoint and RegisterAgreesWithCounter
\* hold.
MonthIsPriced == LeavesDisjoint /\ RegisterAgreesWithCounter
=============================================================================
