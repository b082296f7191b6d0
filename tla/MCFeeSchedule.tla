--------------------------- MODULE MCFeeSchedule ----------------------------
(* The model-checking run of FeeSchedule needs no definitions of its own.  *)
EXTENDS FeeSchedule
=============================================================================
