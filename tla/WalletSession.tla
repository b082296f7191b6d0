--------------------------- MODULE WalletSession ---------------------------
(***************************************************************************)
(* What a pool connection of run_session promises to the pool: it is       *)
(* authorised for one wallet, is assigned one extranonce1, and from then   *)
(* on carries shares of that wallet and that extranonce1 only, none of     *)
(* them twice.  A new connection starts from nothing.                      *)
(***************************************************************************)
EXTENDS Sequences

CONSTANTS Wallets, Extranonce1s, Keys, Null

VARIABLES wallet,  \* of the open connection, Null when there is none
          en1,     \* assigned by the pool, Null before
          shares   \* submitted on this connection

vars == <<wallet, en1, shares>>

Share(key) == [wallet |-> wallet, en1 |-> en1, key |-> key]

Init == wallet = Null /\ en1 = Null /\ shares = <<>>

Open == wallet = Null /\ wallet' \in Wallets /\ UNCHANGED <<en1, shares>>

Assign ==
  /\ wallet # Null /\ en1 = Null
  /\ en1' \in Extranonce1s
  /\ UNCHANGED <<wallet, shares>>

Submit ==
  /\ wallet # Null /\ en1 # Null
  /\ \E key \in Keys :
       /\ \A i \in DOMAIN shares : shares[i] # Share(key)
       /\ shares' = Append(shares, Share(key))
  /\ UNCHANGED <<wallet, en1>>

Close == wallet # Null /\ wallet' = Null /\ en1' = Null /\ shares' = <<>>

Next == Open \/ Assign \/ Submit \/ Close

Spec == Init /\ [][Next]_vars
=============================================================================
