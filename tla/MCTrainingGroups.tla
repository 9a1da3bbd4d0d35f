-------------------------- MODULE MCTrainingGroups ---------------------------
(* Instances of TrainingGroups for TLC. *)
EXTENDS TrainingGroups, TLC

\* The drivers do not differ.
Init == InitRequests /\ driver = "sqlite" /\ GroupsInit
Spec == Init /\ [][GroupsNext]_<<driver, tx, groups>>
=============================================================================
