------------------------- MODULE FeeScheduleProofs --------------------------
(***************************************************************************)
(* Proofs about FeeSchedule for every cycle, fee, phase and lag: where in  *)
(* the cycle each wallet can be mined for.                                 *)
(***************************************************************************)
EXTENDS FeeSchedule, FiniteSetTheorems, TLAPS

-----------------------------------------------------------------------------
(* Division with remainder.                                                *)

(* Division with remainder, as the provers know it.                        *)
LEMMA RemainderOf ==
  ASSUME NEW n \in Nat \ {0}, NEW a \in Nat
  PROVE  /\ a % n \in 0 .. n - 1 /\ a \div n \in Int
         /\ a = n * (a \div n) + (a % n)
  OBVIOUS

(* The remainder of a number is determined by the equation that defines    *)
(* it.                                                                     *)
LEMMA RemainderUnique ==
  ASSUME NEW n \in Nat \ {0}, NEW p \in Int, NEW q \in Int,
         NEW r \in 0 .. n - 1, NEW s \in 0 .. n - 1,
         n * p + r = n * q + s
  PROVE  r = s
<1>1. CASE p = q
  BY <1>1
<1>2. CASE p < q
  <2>1. n * (q - p) >= n
    BY <1>2
  <2>2. n * (q - p) = r - s
    BY <2>1
  <2> QED
    BY <2>1, <2>2
<1>3. CASE p > q
  <2>1. n * (p - q) >= n
    BY <1>3
  <2>2. n * (p - q) = s - r
    BY <2>1
  <2> QED
    BY <2>1, <2>2
<1> QED
  BY <1>1, <1>2, <1>3

(* One more is the next remainder, or the first again.                     *)
LEMMA NextRemainder ==
  ASSUME NEW n \in Nat \ {0}, NEW a \in Nat
  PROVE  (a + 1) % n = IF a % n = n - 1 THEN 0 ELSE (a % n) + 1
<1> DEFINE q == a \div n
           r == a % n
<1>1. r \in 0 .. n - 1 /\ a = n * q + r /\ q \in Int
  BY RemainderOf
<1>2. /\ (a + 1) % n \in 0 .. n - 1 /\ (a + 1) \div n \in Int
      /\ a + 1 = n * ((a + 1) \div n) + ((a + 1) % n)
  BY RemainderOf
<1> HIDE DEF q, r
<1>3. CASE r = n - 1
  <2>1. a + 1 = n * (q + 1) + 0 /\ q + 1 \in Int /\ 0 \in 0 .. n - 1
    BY <1>1, <1>3
  <2>2. (a + 1) % n = 0
    BY <2>1, <1>2, RemainderUnique
  <2> QED
    BY <1>3, <2>2 DEF r
<1>4. CASE r # n - 1
  <2>1. a + 1 = n * q + (r + 1) /\ r + 1 \in 0 .. n - 1
    BY <1>1, <1>4
  <2>2. (a + 1) % n = r + 1
    BY <2>1, <1>1, <1>2, RemainderUnique
  <2> QED
    BY <1>4, <2>2 DEF r
<1> QED
  BY <1>3, <1>4

(* Two numbers less than the modulus apart differ in their remainders.     *)
LEMMA CloseRemainders ==
  ASSUME NEW n \in Nat \ {0}, NEW a \in Nat, NEW b \in Nat,
         a - b < n, b - a < n, a % n = b % n
  PROVE  a = b
<1> DEFINE p == a \div n
           q == b \div n
           r == a % n
<1>1. /\ p \in Int /\ q \in Int /\ r \in 0 .. n - 1
      /\ a = n * p + r /\ b = n * q + r
  BY RemainderOf
<1> HIDE DEF p, q, r
<1>2. CASE p = q
  BY <1>1, <1>2
<1>3. CASE p > q
  <2>1. n * (p - q) >= n
    BY <1>1, <1>3
  <2>2. n * (p - q) = a - b
    BY <1>1
  <2> QED
    BY <2>1, <2>2
<1>4. CASE p < q
  <2>1. n * (q - p) >= n
    BY <1>1, <1>4
  <2>2. n * (q - p) = b - a
    BY <1>1
  <2> QED
    BY <2>1, <2>2
<1> QED
  BY <1>1, <1>2, <1>3, <1>4

-----------------------------------------------------------------------------
(* The position in the cycle.                                              *)

(* One second later the position is one further, or back at the start.     *)
LEMMA NextPosition ==
  ASSUME offset \in Nat, NEW t \in Nat
  PROVE  /\ Position(t) \in 0 .. Cycle - 1
         /\ Position(t + 1) = IF Position(t) = Cycle - 1
                              THEN 0 ELSE Position(t) + 1
<1>1. t + offset \in Nat /\ t + 1 + offset = (t + offset) + 1
  OBVIOUS
<1>2. (t + offset) % Cycle \in 0 .. Cycle - 1
  BY <1>1, CycleAssumption, RemainderOf
<1>3. ((t + offset) + 1) % Cycle
        = IF (t + offset) % Cycle = Cycle - 1
          THEN 0 ELSE ((t + offset) % Cycle) + 1
  BY <1>1, CycleAssumption, NextRemainder
<1> QED
  BY <1>1, <1>2, <1>3 DEF Position

(* The two windows together are the cycle.                                 *)
LEMMA Windows == DevSeconds \in 0 .. Cycle /\ UserSeconds \in 0 .. Cycle
<1> DEFINE x == Cycle * BasisPoints
<1>1. x \in Nat /\ x <= Cycle * 10000
  BY CycleAssumption, BasisPointsAssumption
<1> HIDE DEF x
<1>2. x \div 10000 \in 0 .. Cycle
  BY <1>1, CycleAssumption
<1> QED
  BY <1>2, CycleAssumption DEF DevSeconds, UserSeconds, x

-----------------------------------------------------------------------------
(* Types hold at the start.                                                 *)
LEMMA InitTypes == Init => TypeOK
<1> SUFFICES ASSUME Init PROVE TypeOK
  OBVIOUS
<1> QED
  BY DEF Init, TypeOK

(* And every step keeps them.                                               *)
LEMMA StepTypes == TypeOK /\ [Next]_vars => TypeOK'
<1> SUFFICES ASSUME TypeOK, [Next]_vars PROVE TypeOK'
  OBVIOUS
<1> USE DEF TypeOK
<1>1. CASE StartSession
  BY <1>1 DEF StartSession, ModeAt
<1>2. CASE CheckMode
  BY <1>2 DEF CheckMode
<1>3. CASE Rotate
  BY <1>3 DEF Rotate
<1>4. CASE StopSession
  BY <1>4 DEF StopSession
<1>5. CASE Second
  BY <1>5 DEF Second
<1>6. CASE UNCHANGED vars
  BY <1>6 DEF vars
<1> QED
  BY <1>1, <1>2, <1>3, <1>4, <1>5, <1>6 DEF Next

(* Type correctness of the schedule, for every cycle, share and lag.       *)
THEOREM FeeTypes == Spec => []TypeOK
  BY InitTypes, StepTypes, PTL DEF Spec

-----------------------------------------------------------------------------
(* A session outstays its window by less than the time since its last look *)
(* at the schedule, and that is bounded by the lag.                        *)
NotLongOverdue ==
  /\ feeMode # Down => now - seen <= MaxLag
  /\ feeMode = DEVFEE =>
       InDevWindow(now) \/ Position(now) < now - seen
  /\ feeMode = USER => Position(now) < UserSeconds
                       \/ Position(now) < UserSeconds + (now - seen)

FeeInv ==
  TypeOK /\ NotLongOverdue /\ DevCreditNearWindow /\ UserCreditNearWindow

(* The invariant holds at the start.                                        *)
LEMMA InitFeeInv == Init => FeeInv
<1> SUFFICES ASSUME Init PROVE FeeInv
  OBVIOUS
<1> QED
  BY InitTypes DEF Init, FeeInv, NotLongOverdue, DevCreditNearWindow,
     UserCreditNearWindow, Down, DEVFEE, USER

(* A second passes, a look at the schedule, a session starts or ends: the   *)
(* invariant stays.                                                         *)
LEMMA StepFeeInv == FeeInv /\ [Next]_vars => FeeInv'
<1> SUFFICES ASSUME FeeInv, [Next]_vars PROVE FeeInv'
  OBVIOUS
<1>0. TypeOK'
  BY StepTypes DEF FeeInv
<1>1. /\ offset' = offset /\ \A t : Position(t)' = Position(t)
      /\ \A t : InDevWindow(t)' = InDevWindow(t)
  BY DEF Next, vars, StartSession, CheckMode, Rotate, StopSession, Second,
     Position, InDevWindow
<1>2. Position(now) \in 0 .. Cycle - 1 /\ MaxLag \in Nat \ {0}
  BY NextPosition, LagAssumption DEF FeeInv, TypeOK
<1> USE DEF FeeInv, TypeOK
<1>3. CASE UNCHANGED <<now, credit>>
  <2>1. DevCreditNearWindow' /\ UserCreditNearWindow'
    BY <1>1, <1>3 DEF DevCreditNearWindow, UserCreditNearWindow, Position,
       InDevWindow
  <2>2. NotLongOverdue'
    <3> USE <1>1, <1>2, <1>3, Windows, CycleAssumption
    <3>1. CASE feeMode' = ModeAt(now) /\ seen' = now
      <4>1. CASE DevSeconds # 0 /\ InDevWindow(now)
        BY <3>1, <4>1 DEF NotLongOverdue, ModeAt, USER, DEVFEE, Down
      <4>2. CASE DevSeconds = 0 \/ ~InDevWindow(now)
        <5>1. feeMode' = USER /\ Position(now) < UserSeconds
          BY <3>1, <4>2 DEF ModeAt, InDevWindow, UserSeconds
        <5>2. Position(now)' < UserSeconds /\ now' - seen' <= MaxLag
          BY <3>1, <5>1
        <5> QED
          BY <5>1, <5>2 DEF NotLongOverdue, USER, DEVFEE, Down
      <4> QED
        BY <4>1, <4>2
    <3>2. CASE feeMode' = Down
      BY <3>2 DEF NotLongOverdue, USER, DEVFEE, Down
    <3>3. CASE UNCHANGED <<feeMode, seen>>
      BY <3>3 DEF NotLongOverdue, InDevWindow, Position
    <3> QED
      BY <3>1, <3>2, <3>3 DEF Next, vars, StartSession, CheckMode, Rotate,
         RotationDue, StopSession, Second
  <2> QED
    BY <1>0, <2>1, <2>2
<1>4. CASE Second
  <2>1. /\ now' = now + 1 /\ credit' = Append(credit, feeMode)
        /\ UNCHANGED <<feeMode, seen>>
        /\ feeMode # Down => now - seen < MaxLag
    BY <1>4 DEF Second
  <2>2. Position(now + 1) = IF Position(now) = Cycle - 1
                            THEN 0 ELSE Position(now) + 1
    BY NextPosition
  <2>3. /\ \A i \in 1 .. now : credit'[i] = credit[i]
        /\ credit'[now + 1] = feeMode
    BY <2>1
  <2>4. NotLongOverdue'
    BY <1>1, <1>2, <2>1, <2>2, Windows, CycleAssumption
       DEF NotLongOverdue, InDevWindow
  <2>5. DevCreditNearWindow'
    BY <1>1, <1>2, <2>1, <2>3 DEF DevCreditNearWindow, NotLongOverdue,
       DEVFEE, Down
  <2>6. UserCreditNearWindow'
    BY <1>1, <1>2, <2>1, <2>3, Windows, CycleAssumption
       DEF UserCreditNearWindow, NotLongOverdue, USER, Down
  <2> QED
    BY <1>0, <2>4, <2>5, <2>6
<1> QED
  BY <1>3, <1>4 DEF Next, vars, StartSession, CheckMode, Rotate, StopSession

(* So it always holds.                                                      *)
LEMMA AlwaysFeeInv == Spec => []FeeInv
  BY InitFeeInv, StepFeeInv, PTL DEF Spec

(* For every cycle, fee, phase and lag, each wallet is mined for only      *)
(* inside its window and one lag after it.                                 *)
THEOREM CreditWindows == Spec => []CreditNearWindow
<1>1. FeeInv => CreditNearWindow
  BY DEF FeeInv, CreditNearWindow
<1> QED
  BY <1>1, AlwaysFeeInv, PTL

-----------------------------------------------------------------------------
(* The positions where a second may be credited to the developer: the      *)
(* window, and what one lag adds at the start of the next cycle.           *)
DevPositions == (UserSeconds .. Cycle - 1) \cup (0 .. MaxLag - 2)

(* There are no more of them than the fee and one lag.                     *)
LEMMA FewDevPositions ==
  /\ IsFiniteSet(DevPositions)
  /\ Cardinality(DevPositions) <= DevSeconds + MaxLag - 1
<1>1. /\ UserSeconds \in Int /\ Cycle - 1 \in Int /\ MaxLag - 2 \in Int
      /\ UserSeconds <= Cycle /\ Cycle - UserSeconds = DevSeconds
      /\ MaxLag \in Nat \ {0} /\ DevSeconds \in Nat
  BY Windows, CycleAssumption, LagAssumption DEF UserSeconds
<1>2. /\ IsFiniteSet(UserSeconds .. Cycle - 1)
      /\ Cardinality(UserSeconds .. Cycle - 1) = DevSeconds
  <2>1. /\ IsFiniteSet(UserSeconds .. Cycle - 1)
        /\ Cardinality(UserSeconds .. Cycle - 1)
             = IF UserSeconds > Cycle - 1 THEN 0
               ELSE (Cycle - 1) - UserSeconds + 1
    BY <1>1, FS_Interval
  <2> QED
    BY <1>1, <2>1, CycleAssumption
<1>3. /\ IsFiniteSet(0 .. MaxLag - 2)
      /\ Cardinality(0 .. MaxLag - 2) = MaxLag - 1
  <2>1. /\ IsFiniteSet(0 .. MaxLag - 2)
        /\ Cardinality(0 .. MaxLag - 2)
             = IF 0 > MaxLag - 2 THEN 0 ELSE (MaxLag - 2) - 0 + 1
    BY <1>1, FS_Interval
  <2> QED
    BY <1>1, <2>1
<1>4. /\ IsFiniteSet(DevPositions)
      /\ Cardinality(DevPositions)
           = DevSeconds + (MaxLag - 1)
             - Cardinality((UserSeconds .. Cycle - 1) \cap (0 .. MaxLag - 2))
  BY <1>2, <1>3, FS_Union DEF DevPositions
<1>5. Cardinality((UserSeconds .. Cycle - 1) \cap (0 .. MaxLag - 2)) \in Nat
  BY <1>2, FS_Intersection, FS_CardinalityType
<1> QED
  BY <1>1, <1>4, <1>5

(* Within one cycle the seconds of the developer have different positions, *)
(* so a stretch of one cycle has no more of them than there are positions. *)
LEMMA StretchBounded ==
  ASSUME TypeOK, DevCreditNearWindow, NEW first \in 1 .. now
  PROVE  LET stretch == {i \in first .. first + Cycle - 1 :
                           i <= now /\ credit[i] = DEVFEE}
         IN  Cardinality(stretch) <= DevSeconds + MaxLag - 1
<1> DEFINE stretch == {i \in first .. first + Cycle - 1 :
                         i <= now /\ credit[i] = DEVFEE}
           where == [i \in stretch |-> Position(i - 1)]
<1>1. /\ now \in Nat /\ offset \in Nat /\ first \in Nat \ {0}
      /\ Cycle \in Nat \ {0}
  BY CycleAssumption DEF TypeOK
<1>2. ASSUME NEW i \in stretch
      PROVE  Position(i - 1) \in DevPositions
  <2>1. i \in 1 .. now /\ credit[i] = DEVFEE /\ i - 1 \in Nat
    BY <1>1
  <2>2. InDevWindow(i - 1) \/ Position(i - 1) < MaxLag - 1
    BY <2>1 DEF DevCreditNearWindow
  <2>3. Position(i - 1) \in 0 .. Cycle - 1
    BY <1>1, <2>1, NextPosition
  <2> QED
    BY <1>1, <2>2, <2>3, Windows, LagAssumption DEF InDevWindow, DevPositions
<1>3. ASSUME NEW i \in stretch, NEW j \in stretch,
             Position(i - 1) = Position(j - 1)
      PROVE  i = j
  <2>1. /\ i - 1 + offset \in Nat /\ j - 1 + offset \in Nat
        /\ (i - 1 + offset) - (j - 1 + offset) < Cycle
        /\ (j - 1 + offset) - (i - 1 + offset) < Cycle
        /\ i \in Int /\ j \in Int
    BY <1>1
  <2>2. i - 1 + offset = j - 1 + offset
    BY <1>1, <1>3, <2>1, CloseRemainders DEF Position
  <2> QED
    BY <1>1, <2>1, <2>2
<1>4. where \in Injection(stretch, DevPositions)
  BY <1>2, <1>3 DEF Injection, IsInjective
<1> HIDE DEF stretch, where
<1>5. /\ IsFiniteSet(stretch)
      /\ Cardinality(stretch) <= Cardinality(DevPositions)
  BY <1>4, FewDevPositions, FS_Injection
<1>6. /\ Cardinality(stretch) \in Nat /\ Cardinality(DevPositions) \in Nat
      /\ DevSeconds + MaxLag - 1 \in Int
  BY <1>5, FewDevPositions, FS_CardinalityType, Windows, CycleAssumption,
     LagAssumption
<1>7. Cardinality(stretch) <= DevSeconds + MaxLag - 1
  BY <1>5, <1>6, FewDevPositions
<1> QED
  BY <1>7 DEF stretch

(* DEV_FEE.md, "1% time-based", for every cycle, fee, phase and lag and    *)
(* for any pattern of stops: no stretch of one cycle credits the developer *)
(* more seconds than the fee and one lag.                                  *)
THEOREM DeveloperShare == Spec => []DevShareBounded
<1>1. FeeInv => DevShareBounded
  BY StretchBounded DEF FeeInv, DevShareBounded
<1> QED
  BY <1>1, AlwaysFeeInv, PTL
=============================================================================
