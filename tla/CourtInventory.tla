--------------------------- MODULE CourtInventory ---------------------------
(***************************************************************************)
(* What the booking desk promises about the court: every reservation that  *)
(* is taken or moved is taken in one step, against everything reserved at  *)
(* that moment, and fits a layout of the court together with it.           *)
(***************************************************************************)
EXTENDS CourtSlots

VARIABLE held   \* the live reservations: Id -> Slot, partial

Init == held = [i \in {} |-> {}]

\* One request may reserve several consecutive spans, all or none of them.
Reserve(S) ==
    /\ S \cap DOMAIN held = {}
    /\ held' \in [DOMAIN held \cup S -> Slot]
    /\ \A i \in DOMAIN held : held'[i] = held[i]
    /\ \A n \in S : FitsSomeLayout(held', n, Layout)

Move(n) ==
    /\ n \in DOMAIN held
    /\ held' \in [DOMAIN held -> Slot]
    /\ \A i \in DOMAIN held \ {n} : held'[i] = held[i]
    /\ FitsSomeLayout(held', n, Layout)

Release(n) ==
    /\ n \in DOMAIN held
    /\ held' = [i \in DOMAIN held \ {n} |-> held[i]]

Next == \/ \E S \in SUBSET Id : Reserve(S)
        \/ \E n \in Id : Move(n) \/ Release(n)

Spec == Init /\ [][Next]_held
----------------------------------------------------------------------------
TypeOK == DOMAIN held \subseteq Id /\ held \in [DOMAIN held -> Slot]

\* At no half hour do the reservations need more than some one layout offers.
NoOverbooking ==
    \A t \in UNION Span : \E l \in Layout : Supports(l, held, OnCourt(held, t))
=============================================================================
