----------------------------- MODULE MCMinerTop -----------------------------
(* Model values for the model-checking runs of MinerTop.                   *)
EXTENDS MinerTop, TLC
CONSTANTS j1, j2, j3
MCTwoJobs == {j1, j2}
MCTwoTags == j1 :> 0 @@ j2 :> 1
MCThreeJobs == {j1, j2, j3}
MCThreeTags == j1 :> 0 @@ j2 :> 1 @@ j3 :> 2
=============================================================================
