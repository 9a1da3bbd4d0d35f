------------------------------ MODULE MCBooks -------------------------------
(***************************************************************************)
(* The cash book, the money of a tournament, and the catalogue that the    *)
(* court is sold from, for TLC.  A behaviour is of one of them, with two   *)
(* requests to it at a time.                                               *)
(***************************************************************************)
EXTENDS FinanceCashbook, Tournaments, Catalogue, TLC

CONSTANTS cash, till

VARIABLE part

\* Two openings, a transfer of all of the first, a pending expense and an
\* adjustment.
MCForms == {
    [kind |-> "opening", from |-> cash, amount |-> 2, day |-> 1, note |-> "a"],
    [kind |-> "opening", from |-> cash, amount |-> 3, day |-> 2, note |-> "a"],
    [kind |-> "transfer", from |-> cash, to |-> till, amount |-> 2, day |-> 2, note |-> "a"],
    [kind |-> "manual", from |-> cash, amount |-> -1, day |-> 1, pending |-> TRUE, note |-> "a"],
    [kind |-> "adjustment", from |-> till, amount |-> 1, day |-> 1, note |-> "a"]}

MCCounts == {[account |-> cash, day |-> 1, amount |-> 2]}

\* A layout for either activity, and one that has training beside the first
MCSlugOf  == [n \in {"n1", "n2"} |-> IF n = "n1" THEN "s1" ELSE "s2"]
MCLayouts == {"s1" :> 1, "s2" :> 1, "s1" :> 1 @@ "training" :> 1}

Parts == {"cashbook", "tournament", "catalogue"}

Init ==
    /\ part \in Parts
    /\ InitRequests
    /\ part = "catalogue" => driver = "sqlite"
    /\ CashbookInit /\ TournamentsInit /\ CatalogueInit

Next ==
    /\ UNCHANGED part
    /\ \/ /\ part = "cashbook"
          /\ CashbookNext \/ \E r \in Request : GiveUp(r) /\ UNCHANGED cashbook
          /\ UNCHANGED <<tournaments, catalogue>>
       \/ /\ part = "tournament" /\ TournamentsNext
          /\ UNCHANGED <<cashbook, catalogue>>
       \/ /\ part = "catalogue" /\ CatalogueNext
          /\ UNCHANGED <<cashbook, tournaments>>

vars == <<part, driver, tx, cashbook, tournaments, catalogue>>

Spec == Init /\ [][Next]_vars

TypeOK == CashbookTypeOK /\ TournamentsTypeOK /\ CatalogueTypeOK

RequestSymmetry == Permutations(Request)
=============================================================================
