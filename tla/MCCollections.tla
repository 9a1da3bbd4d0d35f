---------------------------- MODULE MCCollections ---------------------------
(***************************************************************************)
(* What customers pay for, for TLC: bookings, one-to-one packages, monthly *)
(* plans, and the commissions of those who refer them.  A behaviour is of  *)
(* one of them, with two requests to it at a time.  The one table that two *)
(* of them write, the quotes, changes in either part.                      *)
(***************************************************************************)
EXTENDS OneToOnePackages, MonthlyPlans, Referrals, TLC

CONSTANTS w1, w2

VARIABLE part

\* Two sessions at one price or another, if the ranges overlapped; a tier of
\* its own for the peak.
MCBandForms ==
    {[tier |-> "weekday_offpeak", min |-> 1, max |-> 2, price |-> 1],
     [tier |-> "weekday_offpeak", min |-> 2, max |-> 0, price |-> 2],
     [tier |-> "other", min |-> 1, max |-> 0, price |-> 2]}

Parts == {"payments", "packages", "plans", "referrals"}

\* What a part that is not looked at is left as
Unused(p) ==
    CASE p = "payments" -> \A b \in Booking : financial[b].quoted = 1
      [] p = "packages" -> package.purchased = 1
      [] OTHER          -> TRUE

Init ==
    /\ part \in Parts
    /\ InitRequests
    /\ PaymentsInit /\ PackagesInit /\ MonthlyInit /\ ReferralsInit
    /\ part = "referrals" => driver = "sqlite"
    /\ \A p \in Parts \ {part} : Unused(p)
    /\ driver = "sqlite" => \E b \in Booking : \A c \in Booking \ {b} : financial[c].quoted = 1

\* b is what it was at first.
Untouched(b) ==
    /\ financial'[b] = [quoted |-> 1, paid |-> FALSE, latest |-> None] /\ b \notin archived'
    /\ status'[b] = IF b \in OneToOne THEN "collectible" ELSE "awaiting"
    /\ \A r \in Request : tx'[r].op \in {"collect", "void"} => tx'[r].row.booking # b
    /\ \A p \in DOMAIN collection' : collection'[p].booking # b

\* On SQLite, whose transactions all exclude one another, one booking is paid
\* for; on PostgreSQL two, on one day.
Scope ==
    IF driver = "sqlite"
    THEN \E b \in Booking : \A c \in Booking \ {b} : Untouched(c)
    ELSE /\ lockedUntil' = 0
         /\ \A r \in Request : tx'[r].op = "collect" => tx'[r].row.day = 1

\* A package costs as much as it has sessions.
PackageScope ==
    financial' # financial => financial'[PackageBooking].quoted = package'.purchased

Next ==
    /\ UNCHANGED part
    /\ \/ /\ part = "payments" /\ PaymentsNext /\ Scope
          /\ UNCHANGED <<packages, monthly, referral>>
       \/ /\ part = "packages" /\ PackagesNext /\ PackageScope
          /\ UNCHANGED <<monthly, referral>>
       \/ /\ part = "plans" /\ MonthlyNext
          /\ UNCHANGED <<payments, packages, referral>>
       \/ /\ part = "referrals" /\ ReferralsNext
          /\ UNCHANGED <<payments, packages, monthly>>

vars == <<part, driver, tx, payments, packages, monthly, referral>>

Spec == Init /\ [][Next]_vars

TypeOK == PaymentsTypeOK /\ PackagesTypeOK /\ MonthlyTypeOK /\ ReferralsTypeOK

CollectionSymmetry == Permutations(Payment) \cup Permutations(Request) \cup Permutations(Referred)
=============================================================================
