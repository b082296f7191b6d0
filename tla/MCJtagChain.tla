---------------------------- MODULE MCJtagChain ----------------------------
(* Bit patterns for the model-checking run of JtagChain.                   *)
EXTENDS JtagChain, TLC
MCIdcode == <<1, 0>>
MCProbe == <<0, 0, 1, 0, 1, 1, 1>>
MCFrames == 0 :> <<<<1, 1, 0>>, <<0, 1, 1>>>> @@ 1 :> <<<<1, 0, 0>>, <<1, 1, 1>>>>
MCOutbox == 0 :> <<<<1, 0, 0>>, <<1, 1, 0>>, <<0, 1, 1>>>>
            @@ 1 :> <<<<0, 1, 0>>, <<1, 1, 1>>, <<1, 0, 1>>>>
=============================================================================
