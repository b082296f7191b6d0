---------------------------- MODULE FeeSchedule -----------------------------
(***************************************************************************)
(* DevFeeSchedule of fjar_bridge.py and btc3_bridge.py, and the sessions   *)
(* that follow it: the wallet is a function of wall-clock time, a session  *)
(* keeps the wallet it started with and compares it with the schedule once *)
(* per loop, and the process may stop and start at any moment.  Time is in *)
(* whole seconds; credit records to which wallet each second of mining     *)
(* went.                                                                   *)
(***************************************************************************)
EXTENDS Integers, Sequences, FiniteSets

CONSTANTS
  Cycle,        \* cycle_seconds, 6000 in the code
  BasisPoints,  \* fee_basis_points, 100 in the code
  MaxLag,       \* seconds one iteration of the session loop may take
  MaxTime       \* bound: seconds of a behaviour

ASSUME CycleAssumption == Cycle \in Nat \ {0}
ASSUME BasisPointsAssumption == BasisPoints \in 0 .. 10000
ASSUME LagAssumption == MaxLag \in Nat \ {0}

VARIABLES offset,   \* phase_offset, a hash of serial and worker
          now,      \* time.time()
          feeMode,  \* of the running session, or Down
          seen,     \* when the session last looked at the schedule
          credit    \* history: whom the seconds 0 .. now - 1 were mined for

vars == <<offset, now, feeMode, seen, credit>>

USER == "USER"
DEVFEE == "DEVFEE"
Down == "Down"

DevSeconds == (Cycle * BasisPoints) \div 10000
UserSeconds == Cycle - DevSeconds

Position(t) == (t + offset) % Cycle
LateWindow(t) == Position(t) > UserSeconds
InDevWindow(t) == Position(t) >= UserSeconds
ModeAt(t) == IF DevSeconds # 0 /\ InDevWindow(t) THEN DEVFEE ELSE USER

-----------------------------------------------------------------------------
Init ==
  /\ offset \in 0 .. Cycle - 1
  /\ now = 0 /\ feeMode = Down /\ seen = 0 /\ credit = <<>>

StartSession ==
  /\ feeMode = Down
  /\ feeMode' = ModeAt(now) /\ seen' = now
  /\ UNCHANGED <<offset, now, credit>>

RotationNever == FALSE
RotationDue == ModeAt(now) # feeMode

CheckMode ==
  /\ feeMode # Down /\ ~RotationDue
  /\ seen' = now
  /\ UNCHANGED <<offset, now, feeMode, credit>>

Rotate ==
  /\ feeMode # Down /\ RotationDue
  /\ feeMode' = Down
  /\ UNCHANGED <<offset, now, seen, credit>>

\* A lost connection, an exception or the end of the process.
StopSession ==
  /\ feeMode # Down
  /\ feeMode' = Down
  /\ UNCHANGED <<offset, now, seen, credit>>

Second ==
  /\ now < MaxTime
  /\ feeMode # Down => now - seen < MaxLag
  /\ now' = now + 1
  /\ credit' = Append(credit, feeMode)
  /\ UNCHANGED <<offset, feeMode, seen>>

Next == StartSession \/ CheckMode \/ Rotate \/ StopSession \/ Second

Spec == Init /\ [][Next]_vars

-----------------------------------------------------------------------------
(* Properties.                                                             *)

TypeOK ==
  /\ offset \in 0 .. Cycle - 1 /\ now \in Nat
  /\ feeMode \in {USER, DEVFEE, Down}
  /\ seen \in 0 .. now
  /\ credit \in Seq({USER, DEVFEE, Down}) /\ Len(credit) = now

DevCreditNearWindow ==
  \A i \in 1 .. now :
    credit[i] = DEVFEE => InDevWindow(i - 1) \/ Position(i - 1) < MaxLag - 1

UserCreditNearWindow ==
  \A i \in 1 .. now :
    credit[i] = USER => Position(i - 1) < UserSeconds + MaxLag - 1

(* Each wallet is mined for only inside its window and, because a session  *)
(* notices the switch at its next check, less than a lag after it;         *)
(* stopping and starting moves neither window.                             *)
CreditNearWindow == DevCreditNearWindow /\ UserCreditNearWindow

(* DEV_FEE.md, "1% time-based": no stretch of one cycle, wherever it       *)
(* begins and whatever stops within it, gives the developer more than the  *)
(* fee and one lag.                                                        *)
DevShareBounded ==
  \A first \in 1 .. now :
    LET stretch == {i \in first .. first + Cycle - 1 :
                      i <= now /\ credit[i] = DEVFEE}
    IN  Cardinality(stretch) <= DevSeconds + MaxLag - 1
=============================================================================
