------------------------------ MODULE MCCanary ------------------------------
(* Model values for the model-checking runs of Canary.                     *)
EXTENDS Canary
CONSTANTS A, B
MCDevices == {A, B}
=============================================================================
