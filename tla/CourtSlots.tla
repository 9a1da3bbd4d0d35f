----------------------------- MODULE CourtSlots -----------------------------
(***************************************************************************)
(* Slots of the sports court and the rule that says which bookings may     *)
(* share it.  A slot is an activity, a number of units of it and a span.   *)
(* A span is the set of half hours it covers, so that two spans overlap    *)
(* exactly when they share a half hour; hour and half-hour bookings and    *)
(* their partial overlaps are all sets of this kind.                       *)
(*                                                                         *)
(* The functions of the code that compare time strings, build usage maps   *)
(* and scan layouts appear here as one operator each.                      *)
(***************************************************************************)
EXTENDS Integers, FiniteSets

CONSTANTS
    Id,          \* primary keys of space_schedules
    Span,        \* the spans a booking can have: non-empty sets of half hours
    Activity,    \* court activities
    Training,    \* the internal activity that needs no public booking option
    MaxQuantity, \* largest quantity a form can ask for
    Layout,      \* layouts the administrator ever defines
    Capacity,    \* Capacity[l][a]: units of activity a that layout l offers
    Closure,     \* closures the administrator can publish
    WholeCourt   \* "activity" of a closure that blocks every activity

ASSUME SlotsAssumption ==
    /\ IsFiniteSet(Id)
    /\ Span \subseteq SUBSET Nat
    /\ {} \notin Span
    /\ MaxQuantity \in Nat
    /\ Layout # {}
    /\ Capacity \in [Layout -> [Activity -> Nat]]
    /\ Closure \subseteq [span : SUBSET Nat, activity : Activity \cup {WholeCourt}]

\* What validateSpaceScheduleInput lets through: training takes one unit.
Slot == {s \in [activity : Activity, quantity : 1 .. MaxQuantity, span : Span] :
            s.activity = Training => s.quantity = 1}

\* Mutant of Overlap: only bookings of the same span conflict.
OverlapBySlotKey(s, t) == s.span = t.span

\* schedulesOverlap
Overlap(s, t) == s.span \cap t.span # {}

\* The units of activity a taken by the bookings of ids, one pair per unit:
\* the usage map that validateSpaceScheduleSlotAgainstLayouts accumulates.
Units(held, ids, a) ==
    {u \in ids \X (1 .. MaxQuantity) :
        held[u[1]].activity = a /\ u[2] <= held[u[1]].quantity}

Usage(held, ids, a) == Cardinality(Units(held, ids, a))

\* courtLayoutSupportsUsage
Supports(l, held, ids) == \A a \in Activity : Usage(held, ids, a) <= Capacity[l][a]

\* The bookings that share a half hour with booking n, and n itself.
Sharing(held, n) == {i \in DOMAIN held : i = n \/ Overlap(held[i], held[n])}

\* validateSpaceScheduleSlotAgainstLayouts for booking n of the table held
FitsSomeLayout(held, n, layouts) ==
    \E l \in layouts : Supports(l, held, Sharing(held, n))

\* The bookings on court during half hour t.
OnCourt(held, t) == {i \in DOMAIN held : t \in held[i].span}

\* bookingOptionExists, for the layouts that are active
Offered(s, layouts) ==
    s.activity = Training \/ \E l \in layouts : s.quantity <= Capacity[l][s.activity]

\* validateScheduleAgainstClosures fails
Blocked(s, closures) ==
    \E c \in closures : /\ c.span \cap s.span # {}
                        /\ c.activity \in {WholeCourt, s.activity}
=============================================================================
