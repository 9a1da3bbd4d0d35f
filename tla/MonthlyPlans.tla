---------------------------- MODULE MonthlyPlans ----------------------------
(***************************************************************************)
(* Monthly court plans (MCP): a customer asks for the same weekday hours   *)
(* of a month, the plan is priced by the number of its sessions, a manager *)
(* confirms it, and it is paid in parts.                                   *)
(*                                                                         *)
(*  - Creation and confirmation begin with an UPDATE of the row of         *)
(*    pricing_settings (lockMCPReservationWindowTx), so only one of them   *)
(*    is open at a time.  On SQLite that is the write lock: nothing else   *)
(*    commits meanwhile.  On PostgreSQL the booking desk goes on.          *)
(*  - A payment is judged, and the totals of the plan are computed, from a *)
(*    plan that is read before the transaction.                            *)
(*  - The sessions count the bookings of the desk; the desk never looks at *)
(*    the sessions.                                                        *)
(*                                                                         *)
(* Layouts and activities are CourtSlots; here a slot has so many courts.  *)
(* The two rules of one plan do not overlap.  Off-peak hours outside 06:00 *)
(* to 18:00, which get no session whatever the prices are, are left out.   *)
(***************************************************************************)
EXTENDS Transactions, Sequences, SequencesExt, FiniteSetsExt

CONSTANTS
    PlanMonth,        \* months, 1 ..
    Weekly,           \* weekday hours a rule may name
    PeakHours,        \* those that are not weekday off-peak
    MonthWeeks,       \* times a weekday occurs in a month
    Courts,           \* courts in a slot
    BandForms,        \* pricing bands that may be asked for
    MaxBands,         \* bound: pricing bands
    MaxPlans,         \* bound: plans
    MaxPlanPayments   \* bound: payments

ASSUME PlansAssumption ==
    /\ PlanMonth \subseteq Nat /\ IsFiniteSet(Weekly) /\ PeakHours \subseteq Weekly
    /\ MonthWeeks \in Nat \ {0} /\ Courts \in Nat
    /\ BandForms \subseteq [tier : {"weekday_offpeak", "other"}, min : Nat \ {0}, max : Nat,
                            price : Nat \ {0}]
    /\ MaxBands \in Nat /\ MaxPlans \in Nat /\ MaxPlanPayments \in Nat

VARIABLES
    bands,         \* active mcp_pricing_bands
    plans,         \* mcp_monthly_plans by id, with their rules and sessions
    planPayments,  \* mcp_payment_collections by id
    deskBooked,    \* courts of a slot taken by space_schedules
    shut           \* slots an active closure covers

monthly == <<bands, plans, planPayments, deskBooked, shut>>
----------------------------------------------------------------------------
PlanSlot == PlanMonth \X Weekly \X (1 .. MonthWeeks)

TierOf(s) == IF s[2] \in PeakHours THEN "other" ELSE "weekday_offpeak"  \* mcpTierForSlot

\* mcpRuleSessionsInMonth for every rule
SessionsOf(month, rules) == {month} \X rules \X (1 .. MonthWeeks)

Reaches(b, n) == b.max = 0 \/ n <= b.max

\* mcpSessionRangeOverlaps
RangesOverlap(b, c) == Reaches(c, b.min) /\ Reaches(b, c.min)

\* validateMCPPricingBandInput
MayAddBand(known, b) ==
    /\ b.max = 0 \/ b.max >= b.min
    /\ \A c \in known : c.tier = b.tier => ~RangesOverlap(b, c)

Applicable(tier, n) == {b \in bands : b.tier = tier /\ b.min <= n /\ Reaches(b, n)}

\* applicableMCPPricingBand: the first in the order of the list
BandFor(tier, n) ==
    CHOOSE b \in Applicable(tier, n) : \A c \in Applicable(tier, n) :
        b.min < c.min \/ (b.min = c.min /\ b.max <= c.max)

\* The hours of S that get a session.  The others, whose tier is not offered or
\* has no price for that many hours, are noted as conflicts, which are forgotten
\* when the availability is looked at.
Priced(S) == {s \in S : Applicable(TierOf(s), Cardinality(S)) # {}}

\* The sum that buildMCPPlanPreview makes
Gross(S) == MapThenSumSet(LAMBDA s : BandFor(TierOf(s), Cardinality(S)).price, Priced(S))

\* queryMCPExistingSchedulesForSlot: the plans are pending or confirmed.
Planned(s, except) ==
    MapThenSumSet(LAMBDA p : plans[p].quantity,
                  {p \in DOMAIN plans \ except : s \in plans[p].sessions})

\* validateMCPPreviewAvailabilityTx
Available(S, quantity, except) ==
    \A s \in S : s \notin shut /\ deskBooked[s] + Planned(s, except) + quantity <= Courts

Paid(p) == {c \in DOMAIN planPayments : planPayments[c].plan = p /\ ~planPayments[c].voided}

Left(gross, collected) == IF gross > collected THEN gross - collected ELSE 0

MonthlyInit ==
    /\ bands = {} /\ plans = <<>> /\ planPayments = <<>>
    /\ deskBooked = [s \in PlanSlot |-> 0]
    /\ shut = {}
----------------------------------------------------------------------------
InWindow(r) == tx[r].op \in {"plan", "confirm"}

\* lockMCPReservationWindowTx
WindowFree == \A r \in Request : ~InWindow(r)

\* Another request writes and commits: on SQLite not while the window is held.
MayCommit == driver = "sqlite" => WindowFree

\* Only a void reads inside its transaction before it writes.
CommitMonthly(R) ==
    /\ MayCommit
    /\ End(R \cup (Overtaken({"plan", "confirm", "pay plan", "band"}) \ {r \in Request : ~IsOpen(r)}))

\* createMCPPricingBand lists the bands, and inserts outside a transaction.
LookAtBands(r, b) ==
    /\ MayAddBand(bands, b)
    /\ Look(r, [op |-> "band", band |-> b])
    /\ UNCHANGED monthly

\* idx_mcp_pricing_band_unique_range
InsertBand(r) ==
    LET b == tx[r].band IN
    /\ tx[r].op = "band" /\ Cardinality(bands) < MaxBands
    /\ \A c \in bands : <<c.tier, c.min, c.max>> # <<b.tier, b.min, b.max>>
    /\ bands' = bands \cup {b}
    /\ CommitMonthly({r})
    /\ UNCHANGED <<plans, planPayments, deskBooked, shut>>

\* createMCPMonthlyPlan up to its writes; the portal always asks for a pending
\* plan.  Its total counts all the hours of the rules, its sessions are those
\* that have a price, none at all perhaps.
LookToPlan(r, month, rules, quantity) ==
    LET S == SessionsOf(month, rules) IN
    /\ WindowFree /\ Len(plans) < MaxPlans
    /\ rules # {} /\ Available(Priced(S), quantity, {})
    /\ Look(r, [op |-> "plan", rules |-> rules, sessions |-> Priced(S), total |-> Cardinality(S),
                quantity |-> quantity, gross |-> Gross(S)])
    /\ UNCHANGED monthly

\* continueMCPMonthlyPlan
LookToContinue(r, p, month) == LookToPlan(r, month, plans[p].rules, plans[p].quantity)

CreatePlan(r) ==
    /\ tx[r].op = "plan"
    /\ plans' = Append(plans, [status |-> "pending", rules |-> tx[r].rules,
                               sessions |-> tx[r].sessions, total |-> tx[r].total,
                               quantity |-> tx[r].quantity, gross |-> tx[r].gross,
                               collected |-> 0, outstanding |-> tx[r].gross])
    /\ End({r})
    /\ UNCHANGED <<bands, planPayments, deskBooked, shut>>

\* Mutant of LookToConfirm: the availability is not looked at again.
LookToConfirmBlindly(r, p) ==
    /\ WindowFree /\ plans[p].status = "pending"
    /\ Look(r, [op |-> "confirm", plan |-> p])
    /\ UNCHANGED monthly

\* confirmMCPMonthlyPlan
LookToConfirm(r, p) ==
    /\ WindowFree /\ plans[p].status = "pending"
    /\ Available(plans[p].sessions, plans[p].quantity, {p})
    /\ Look(r, [op |-> "confirm", plan |-> p])
    /\ UNCHANGED monthly

ConfirmPlan(r) ==
    /\ tx[r].op = "confirm"
    /\ plans' = [plans EXCEPT ![tx[r].plan].status = "confirmed"]
    /\ End({r})
    /\ UNCHANGED <<bands, planPayments, deskBooked, shut>>

\* collectMCPPaymentAt up to its transaction; the status is not looked at.
LookToPayPlan(r, p, amount) ==
    /\ plans[p].outstanding > 0 /\ amount \in 1 .. plans[p].outstanding
    /\ Look(r, [op |-> "pay plan", plan |-> p, amount |-> amount,
                collected |-> plans[p].collected + amount])
    /\ UNCHANGED monthly

Totals(p, collected) ==
    plans' = [plans EXCEPT ![p].collected = collected,
                           ![p].outstanding = Left(plans[p].gross, collected)]

PayPlan(r) ==
    LET j == tx[r] IN
    /\ j.op = "pay plan" /\ Len(planPayments) < MaxPlanPayments
    /\ planPayments' = Append(planPayments, [plan |-> j.plan, amount |-> j.amount, voided |-> FALSE])
    /\ Totals(j.plan, j.collected)
    /\ CommitMonthly({r})
    /\ UNCHANGED <<bands, deskBooked, shut>>

\* voidMCPPaymentExpected up to its UPDATE
LookToVoidPlanPayment(r, c) ==
    /\ ~planPayments[c].voided
    /\ Look(r, [op |-> "void plan payment", payment |-> c])
    /\ UNCHANGED monthly

\* The SUM after the UPDATE
PaidAfterVoid(c) ==
    MapThenSumSet(LAMBDA d : planPayments[d].amount, Paid(planPayments[c].plan) \ {c})

\* voidFinanceTransactionTx refuses one that is voided already.
VoidPlanPayment(r) ==
    LET c == tx[r].payment IN
    /\ tx[r].op = "void plan payment" /\ ~planPayments[c].voided
    /\ planPayments' = [planPayments EXCEPT ![c].voided = TRUE]
    /\ Totals(planPayments[c].plan, PaidAfterVoid(c))
    /\ CommitMonthly({r})
    /\ UNCHANGED <<bands, deskBooked, shut>>

\* The desk takes or frees a court (BookingCapacity), or opens and closes a slot.
DeskBooks(s) ==
    /\ s \notin shut /\ deskBooked[s] < Courts
    /\ deskBooked' = [deskBooked EXCEPT ![s] = @ + 1]
    /\ CommitMonthly({})
    /\ UNCHANGED <<bands, plans, planPayments, shut>>

ChangeClosure(s) ==
    /\ shut' = IF s \in shut THEN shut \ {s} ELSE shut \cup {s}
    /\ CommitMonthly({})
    /\ UNCHANGED <<bands, plans, planPayments, deskBooked>>

MonthlyNext ==
    \/ \E r \in Request :
        \/ \E b \in BandForms : LookAtBands(r, b)
        \/ \E month \in PlanMonth, rules \in SUBSET Weekly, q \in 1 .. Courts :
              LookToPlan(r, month, rules, q)
        \/ \E p \in DOMAIN plans :
              \/ \E month \in PlanMonth : LookToContinue(r, p, month)
              \/ LookToConfirm(r, p)
              \/ \E amount \in 1 .. plans[p].outstanding : LookToPayPlan(r, p, amount)
        \/ \E c \in DOMAIN planPayments : LookToVoidPlanPayment(r, c)
        \/ InsertBand(r) \/ CreatePlan(r) \/ ConfirmPlan(r) \/ PayPlan(r) \/ VoidPlanPayment(r)
        \/ GiveUp(r) /\ UNCHANGED monthly
    \/ \E s \in PlanSlot : DeskBooks(s) \/ ChangeClosure(s)
----------------------------------------------------------------------------
MonthlyTypeOK ==
    /\ bands \subseteq BandForms /\ shut \subseteq PlanSlot
    /\ deskBooked \in [PlanSlot -> 0 .. Courts]
    /\ \A p \in DOMAIN plans :
          /\ plans[p].sessions \subseteq PlanSlot
          /\ plans[p].gross \in Nat /\ plans[p].collected \in Nat /\ plans[p].outstanding \in Nat
    /\ \A c \in DOMAIN planPayments : planPayments[c].plan \in DOMAIN plans

\* "concurrent confirmed MCP creates only reserve one capacity slot": the
\* sessions of the plans that wait or are confirmed never need more courts of a
\* slot than there are, whichever of them are created and confirmed at the same
\* time, on either driver.
PlansShareTheCourts == \A s \in PlanSlot : Planned(s, {}) <= Courts

\* On SQLite a plan is confirmed only if at that moment the slots of its sessions
\* are open and have room for it beside every booking.
ConfirmedWithRoom ==
    [][driver = "sqlite" =>
          \A p \in DOMAIN plans :
              plans[p].status = "pending" /\ plans'[p].status = "confirmed" =>
                  \A s \in plans[p].sessions :
                      s \notin shut /\ deskBooked[s] + Planned(s, {}) <= Courts]_<<tx, monthly>>

\* No session is promised a court that is not there: PlansShareTheCourts and
\* ConfirmedWithRoom hold.  (An hour may have no session: HoursAreSessions.)
PlansHaveRoom == []PlansShareTheCourts /\ ConfirmedWithRoom

\* "peak booking rejected when peak tier disabled": every hour that a plan counts
\* has its session, with a price and a court.
HoursAreSessions == \A p \in DOMAIN plans : Cardinality(plans[p].sessions) = plans[p].total
=============================================================================
