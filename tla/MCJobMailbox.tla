---------------------------- MODULE MCJobMailbox ----------------------------
(* The model-checking run of JobMailbox needs no definitions of its own.   *)
EXTENDS JobMailbox
=============================================================================
