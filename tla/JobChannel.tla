----------------------------- MODULE JobChannel -----------------------------
(***************************************************************************)
(* What USER2 of fk33_bscan_transport.sv promises: the job registers move  *)
(* from one frame of the host to a later one.  Frames are numbered in the  *)
(* order they are written; any of them may be lost.                        *)
(***************************************************************************)
EXTENDS Naturals
VARIABLES frames,   \* frames the host has begun to write
          job       \* the frame in the job registers, 0 before the first

vars == <<frames, job>>

Init == frames = 0 /\ job = 0

Write == frames' = frames + 1 /\ UNCHANGED job

Load == job' \in job + 1 .. frames /\ UNCHANGED frames

Next == Write \/ Load

Spec == Init /\ [][Next]_vars
=============================================================================
