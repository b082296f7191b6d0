------------------------------ MODULE MCBridge ------------------------------
(* Model values for the model-checking runs of Bridge.                     *)
EXTENDS Bridge, TLC
CONSTANTS p1, p2, e1
MCPoolJobs == {p1, p2}
MCOneJob == {p1}
MCExtranonce1s == {e1}
MCNonces == {1, 2}
MCOneNonce == {1}
MCDifficulties == {1, 2}
MCOneDifficulty == {1}
=============================================================================
