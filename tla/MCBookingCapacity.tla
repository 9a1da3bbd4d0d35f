------------------------- MODULE MCBookingCapacity --------------------------
(* Constants of BookingCapacity for TLC: spans, activities and courts.      *)
EXTENDS BookingCapacity, TLC

Hour     == {1, 2}
HalfHour == {2}

\* badminton courts, or a futsal pitch
TwoGames      == {"badminton", "futsal"}
TwoLayouts    == {"nets", "pitch"}
HourAndHalf   == {Hour, HalfHour}
SingleHour    == {{Hour}}

\* internal training beside badminton, and a closure
GameAndTraining == {"badminton", "training"}
TwoSizes        == {"full", "half"}
SizedCourt      == [l \in TwoSizes |-> [a \in GameAndTraining |-> IF l = "full" THEN 1
                                           ELSE IF a = "badminton" THEN 1 ELSE 0]]
OneHour         == {Hour}
Maintenance     == {[span |-> {2}, activity |-> "all"]}

IdSymmetry      == Permutations(Id) \cup Permutations(Handler)
=============================================================================
