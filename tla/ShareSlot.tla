----------------------------- MODULE ShareSlot ------------------------------
(***************************************************************************)
(* What the share mailbox of fk33_bscan_transport.sv promises its two      *)
(* sides: a channel that holds one share.  The miner may put a share only  *)
(* when the host has every earlier one; the host gets each share once, in  *)
(* order.                                                                  *)
(***************************************************************************)
EXTENDS Naturals, Sequences
CONSTANT Shares
VARIABLES accepted,   \* shares the mailbox took from the miner
          delivered   \* shares the host assembled

vars == <<accepted, delivered>>

Init == accepted = <<>> /\ delivered = <<>>

Put(s) ==
  /\ accepted = delivered
  /\ accepted' = Append(accepted, s)
  /\ UNCHANGED delivered

Take ==
  /\ accepted # delivered
  /\ delivered' = accepted
  /\ UNCHANGED accepted

Next == Take \/ \E s \in Shares : Put(s)

Spec == Init /\ [][Next]_vars
=============================================================================
