--------------------------- MODULE MCBookingDesk ----------------------------
(* The booking desk in parts, one of which the initial state chooses.       *)
(* On SQLite:                                                               *)
(*   "games"    an hour and a half hour inside it, badminton or futsal,     *)
(*              while the clock runs and nobody changes the court;          *)
(*   "config"   one hour, badminton or internal training, before it begins, *)
(*              while closures and layouts change.                          *)
(* On PostgreSQL, "answers": all of it.                                     *)
EXTENDS MCBookingCapacity

VARIABLE part

\* badminton courts, or a pitch for futsal or training
AllActivities == TwoGames \cup GameAndTraining
UsesOf        == [nets |-> {"badminton"}, pitch |-> {"futsal", "training"}]
EitherUse     == [l \in TwoLayouts |-> [a \in AllActivities |->
                     IF a \notin UsesOf[l] THEN 0 ELSE IF l = "nets" THEN 2 ELSE 1]]

DeskInit ==
    /\ Init
    /\ part \in IF Driver = "sqlite" THEN {"games", "config"} ELSE {"answers"}

Asked(s) == CASE part = "games"   -> s.activity \in TwoGames
              [] part = "config"  -> s.activity \in GameAndTraining /\ s.span = Hour
              [] part = "answers" -> TRUE

Scope == \A h \in Handler : \A i \in DOMAIN job'[h].rows : Asked(job'[h].rows[i].slot)

DeskNext ==
    /\ UNCHANGED part
    /\ \/ \E h \in Handler : HandlerStep(h)
       \/ \E i \in DOMAIN schedule : RowStep(i)
       \/ part # "games" /\ ConfigStep
       \/ part # "config" /\ Tick
    /\ Scope

DeskSpec == DeskInit /\ [][DeskNext]_<<vars, part>>
=============================================================================
