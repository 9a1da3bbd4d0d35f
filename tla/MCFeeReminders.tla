--------------------------- MODULE MCFeeReminders ---------------------------
(* Instances of FeeReminders for TLC. *)
EXTENDS FeeReminders, TLC
=============================================================================
