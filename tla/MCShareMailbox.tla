--------------------------- MODULE MCShareMailbox ---------------------------
(* Model values for the model-checking runs of ShareMailbox.               *)
EXTENDS ShareMailbox
CONSTANTS s1, s2
MCShares == {s1, s2}

\* The tags, payloads of one byte, are 1 and 2: as the high byte of a length
\* the first is believed when the low byte is 0, the second never.
MCValue ==
  LET header == <<7, 7, FRAME_VERSION, FRAME_SHARE, PayloadBytes, 0>>
  IN  [b \in Bytes |->
         CASE b.of = Header /\ b.pos < HeaderBytes -> header[b.pos + 1]
           [] b.of = s1 /\ b.pos = HeaderBytes -> 1
           [] b.of = s2 /\ b.pos = HeaderBytes -> 2
           [] OTHER -> 0]
=============================================================================
