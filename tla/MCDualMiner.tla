---------------------------- MODULE MCDualMiner ----------------------------
(* Model values for the model-checking run of DualMiner.                   *)
EXTENDS DualMiner
CONSTANTS p1, e1
MCPoolJobs == {p1}
MCExtranonce1s == {e1}
MCNonces == {1}
MCDifficulties == {1}
=============================================================================
