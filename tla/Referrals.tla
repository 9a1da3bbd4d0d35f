----------------------------- MODULE Referrals ------------------------------
(***************************************************************************)
(* Referral partners, the commission of a referred booking, and its        *)
(* payout.  A booking and its referral are inserted by one transaction     *)
(* (BookingCapacity has the rest of it), with the commission that is set   *)
(* at that moment.  Of a booking only what the payout looks at is here.    *)
(*                                                                         *)
(* The payout's statements are written for SQLite alone; PostgreSQL        *)
(* refuses them.  A booking is never deleted: what it is created with      *)
(* already protects it (deleteSpaceSchedule).                              *)
(***************************************************************************)
EXTENDS Transactions

CONSTANTS
    Referred,    \* customer bookings
    Partner,     \* referral_partners
    Commissions  \* bound: commissions that are set; 0 is none

ASSUME ReferralsAssumption == Commissions \subseteq Nat /\ 0 \in Commissions

VARIABLES
    partners,    \* the active ones
    commission,  \* pricing_settings.referral_commission_amount
    standing,    \* space_schedules.status of the bookings there are
    referrals,   \* booking_referrals by booking
    payouts      \* finance transactions of the source booking_referral_payment

referral == <<partners, commission, standing, referrals, payouts>>
----------------------------------------------------------------------------
NobodyReferred == [b \in {} |-> 0]

ReferralsInit ==
    /\ partners = {} /\ commission = 0
    /\ standing = NobodyReferred /\ referrals = NobodyReferred
    /\ payouts = {}

SetRow(rows, b, row) == [q \in DOMAIN rows \cup {b} |-> IF q = b THEN row ELSE rows[q]]

LooksAtReferrals(r, j) == Look(r, j) /\ UNCHANGED referral

EndsReferral(r) == End(Overtaken({}) \cup {r})

\* One statement, or one transaction of the booking desk
AtOnce == End(Overtaken({}))

\* updateReferralCommissionAmount
SetCommission(amount) ==
    /\ amount # commission
    /\ commission' = amount
    /\ AtOnce /\ UNCHANGED <<partners, standing, referrals, payouts>>

\* createReferralPartner, toggleReferralPartner
TogglePartner(p) ==
    /\ partners' = IF p \in partners THEN partners \ {p} ELSE partners \cup {p}
    /\ AtOnce /\ UNCHANGED <<commission, standing, referrals, payouts>>

\* createBookingReferralTx up to its INSERT
LookToRefer(r, b, p) ==
    /\ b \notin DOMAIN standing
    /\ p \in partners /\ commission > 0
    /\ LooksAtReferrals(r, [op |-> "refer", booking |-> b, amount |-> commission])

Refer(r) ==
    LET j == tx[r] IN
    /\ j.op = "refer" /\ j.booking \notin DOMAIN standing
    /\ standing' = SetRow(standing, j.booking, "pending")
    /\ referrals' = SetRow(referrals, j.booking,
                           [amount |-> j.amount, paid |-> FALSE, voided |-> FALSE])
    /\ EndsReferral(r) /\ UNCHANGED <<partners, commission, payouts>>

\* A booking that nobody referred
BookAlone(b) ==
    /\ b \notin DOMAIN standing
    /\ standing' = SetRow(standing, b, "pending")
    /\ AtOnce /\ UNCHANGED <<partners, commission, referrals, payouts>>

\* transitionManagedBookingStatus and transitionBookingRequestStatus
ChangeStanding(b, to) ==
    /\ \/ standing[b] = "pending" /\ to \in {"confirmed", "cancelled"}
       \/ standing[b] = "confirmed" /\ to = "cancelled"
    /\ standing' = [standing EXCEPT ![b] = to]
    /\ AtOnce /\ UNCHANGED <<partners, commission, referrals, payouts>>
----------------------------------------------------------------------------
\* payReferralCommission up to its first write
LookToPayOut(r, b) ==
    /\ driver = "sqlite"
    /\ standing[b] = "confirmed" /\ ~referrals[b].paid
    /\ LooksAtReferrals(r, [op |-> "pay out", booking |-> b])

\* idx_finance_transactions_source_booking_referral_payment, which also counts
\* a payout that was voided
FirstPayout(b) == \A t \in payouts : t.booking # b

\* payReferralCommissionHandler
PayOut(r) ==
    LET b == tx[r].booking IN
    /\ tx[r].op = "pay out" /\ FirstPayout(b)
    /\ payouts' = payouts \cup {[booking |-> b, amount |-> referrals[b].amount, voided |-> FALSE]}
    /\ referrals' = [referrals EXCEPT ![b].paid = TRUE]
    /\ EndsReferral(r) /\ UNCHANGED <<partners, commission, standing>>

\* voidReferralCommissionPaymentExpected up to its first write, on the way of
\* voidReceiptFromSource
LookToVoidPayout(r, b) ==
    /\ referrals[b].paid
    /\ LooksAtReferrals(r, [op |-> "void payout", booking |-> b])

\* Mutant of Reversed: the finance transaction stays.
ReversedInPart(t) == t

\* voidFinanceTransactionTx
Reversed(t) == [t EXCEPT !.voided = TRUE]

VoidPayout(r) ==
    LET b == tx[r].booking IN
    /\ tx[r].op = "void payout"
    /\ payouts' = {IF t.booking = b THEN Reversed(t) ELSE t : t \in payouts}
    /\ referrals' = [referrals EXCEPT ![b].paid = FALSE, ![b].voided = TRUE]
    /\ EndsReferral(r) /\ UNCHANGED <<partners, commission, standing>>

ReferralsNext ==
    \/ \E amount \in Commissions : SetCommission(amount)
    \/ \E p \in Partner : TogglePartner(p)
    \/ \E b \in Referred : BookAlone(b)
    \/ \E b \in DOMAIN standing, to \in {"confirmed", "cancelled"} : ChangeStanding(b, to)
    \/ \E r \in Request :
          \/ \E b \in Referred, p \in Partner : LookToRefer(r, b, p)
          \/ \E b \in DOMAIN referrals : LookToPayOut(r, b) \/ LookToVoidPayout(r, b)
          \/ Refer(r) \/ PayOut(r) \/ VoidPayout(r)
          \/ GiveUp(r) /\ UNCHANGED referral
----------------------------------------------------------------------------
ReferralsTypeOK ==
    /\ partners \subseteq Partner /\ commission \in Commissions
    /\ DOMAIN standing \subseteq Referred
    /\ \A b \in DOMAIN standing : standing[b] \in {"pending", "confirmed", "cancelled"}
    /\ \A b \in DOMAIN referrals :
          referrals[b] \in [amount : Commissions, paid : BOOLEAN, voided : BOOLEAN]
    /\ \A t \in payouts : t \in [booking : Referred, amount : Commissions, voided : BOOLEAN]

\* What a commission says of itself is what the cash book has of it: one payout
\* that stands, of the amount recorded with the booking, when it is paid, and
\* none when it is not, whoever changes the commission meanwhile.
PayoutsAgree ==
    /\ \A t \in payouts : t.booking \in DOMAIN referrals \cap DOMAIN standing
    /\ \A b \in DOMAIN referrals :
          {t.amount : t \in {t \in payouts : t.booking = b /\ ~t.voided}}
              = IF referrals[b].paid THEN {referrals[b].amount} ELSE {}
=============================================================================
