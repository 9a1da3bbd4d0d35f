------------------------- MODULE MCOneToOnePackages -------------------------
(* Instances of OneToOnePackages for TLC. *)
EXTENDS OneToOnePackages, TLC

Init == InitRequests /\ PaymentsInit /\ PackagesInit
Spec == Init /\ [][PackagesNext]_<<driver, tx, packages, payments>>

RequestSymmetry == Permutations(Request)
=============================================================================
