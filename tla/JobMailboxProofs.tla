-------------------------- MODULE JobMailboxProofs --------------------------
(* Proofs about the USER2 path for every payload length, every number of   *)
(* frames and every number of failures.                                    *)
EXTENDS JobMailbox, FiniteSetTheorems, TLAPS

-----------------------------------------------------------------------------
(* Types.                                                                  *)

(* The six bytes of a frame header.                                        *)
LEMMA SixHeaderBytes == HeaderBytes = 6 /\ FrameBytes = PayloadBytes + 8
  BY PayloadAssumption DEF HeaderBytes, FrameBytes, Header

(* A byte on the wire, in the right slice and in the wrong one.            *)
LEMMA SliceOK ==
  ASSUME TypeOK, at # 0, NEW word \in Words(at), NEW s \in Slices
  PROVE  /\ Id(Slice(word, s)) \in Nat \X Nat
         /\ Id(Slice(word, s)) \in {<<frames, at>>, <<0, 0>>}
  BY SixHeaderBytes, PayloadAssumption DEF TypeOK, Words, Slice, Id

(* consume_job_byte keeps its registers in range.                          *)
LEMMA ConsumeTypes ==
  ASSUME TypeOK, NEW byte, Id(byte) \in Nat \X Nat, ConsumeByte(byte)
  PROVE  /\ rxState' \in RxStates
         /\ build' \in Seq(Nat \X Nat) /\ Len(build') <= PayloadBytes
         /\ rxState' = "payload" => Len(build') < PayloadBytes
         /\ crcLow' \in Nat \X Nat
         /\ mailbox' \in Nat /\ oldMailbox' \in Nat
         /\ toggle' \in BOOLEAN /\ fresh' \in BOOLEAN
  <1>1. CASE Hunt(byte)
    BY <1>1, PayloadAssumption
    DEF Hunt, HuntAgain, TypeOK, Hunting, RxStates, Following, boxVars
  <1>2. CASE FillPayload(byte)
    <2>1. /\ build' \in Seq(Nat \X Nat) /\ Len(build') = Len(build) + 1
      BY <1>2 DEF FillPayload, TypeOK
    <2>2. Len(build') <= PayloadBytes
      BY <1>2, <2>1, PayloadAssumption DEF FillPayload, TypeOK
    <2>3. rxState' = "payload" => Len(build') < PayloadBytes
      BY <1>2, <2>1, <2>2, PayloadAssumption
      DEF FillPayload, LastPayload, TypeOK
    <2>4. QED
      BY <1>2, <2>1, <2>2, <2>3
      DEF FillPayload, LastPayload, TypeOK, RxStates, boxVars
  <1>3. CASE TakeCrcLow(byte)
    BY <1>3 DEF TakeCrcLow, TypeOK, RxStates, Hunting, boxVars
  <1>4. CASE TakeCrcHigh(byte)
    <2>1. CrcPasses(byte) => BuiltJob \in Nat
      BY DEF CrcPasses, BuiltJob, TypeOK
    <2>2. QED
      BY <1>4, <2>1 DEF TakeCrcHigh, TypeOK, RxStates, Hunting, boxVars
  <1>5. QED
    BY <1>1, <1>2, <1>3, <1>4 DEF ConsumeByte

(* A received word is consumed in one slice, or ignored.                   *)
LEMMA ReceiveCases ==
  ASSUME NEW word, ReceiveWord(word), alignment \in Slices \cup {"unknown"}
  PROVE  \/ \E s \in Slices : ConsumeByte(Slice(word, s)) /\ alignment' = s
         \/ /\ alignment = "unknown"
            /\ UNCHANGED <<alignment, rxState, build, crcLow, boxVars>>
  BY DEF ReceiveWord, Candidates

(* One word shifted in.                                                    *)
LEMMA ShiftTypes ==
  ASSUME TypeOK, ShiftWord
  PROVE  TypeOK'
  <1>1. PICK word \in Words(at) : ReceiveWord(word)
    BY DEF ShiftWord
  <1>2. /\ rxState' \in RxStates /\ alignment' \in Slices \cup {"unknown"}
        /\ build' \in Seq(Nat \X Nat) /\ Len(build') <= PayloadBytes
        /\ rxState' = "payload" => Len(build') < PayloadBytes
        /\ crcLow' \in Nat \X Nat
        /\ mailbox' \in Nat /\ oldMailbox' \in Nat
        /\ toggle' \in BOOLEAN /\ fresh' \in BOOLEAN
    <2>1. CASE \E s \in Slices :
                 ConsumeByte(Slice(word, s)) /\ alignment' = s
      BY <2>1, <1>1, SliceOK, ConsumeTypes DEF ShiftWord
    <2>2. CASE UNCHANGED <<alignment, rxState, build, crcLow, boxVars>>
      BY <2>2 DEF TypeOK, boxVars
    <2>3. QED
      BY <1>1, <2>1, <2>2, ReceiveCases DEF TypeOK
  <1>3. at' \in 0 .. FrameBytes
    BY SixHeaderBytes, PayloadAssumption DEF ShiftWord, NextByte, TypeOK
  <1>4. QED
    BY <1>2, <1>3 DEF ShiftWord, TypeOK, clkVars

(* One edge of the 200 MHz clock.                                          *)
LEMMA ClkTypes ==
  ASSUME TypeOK, ClkEdge
  PROVE  TypeOK'
  <1>1. bus' \in [1 .. 2 -> Nat \cup {Mixed}]
    BY DEF ClkEdge, BusSamples, TypeOK
  <1>2. sync' \in [1 .. 3 -> BOOLEAN]
    BY DEF ClkEdge, ToggleSamples, TypeOK
  <1>3. seen' \in BOOLEAN /\ jobPulse' \in BOOLEAN
    BY DEF ClkEdge, ToggleOut, TypeOK
  <1>4. job' \in Nat \cup {Mixed} /\ jobs' \subseteq Nat \cup {Mixed}
    <2>1. bus[2] \in Nat \cup {Mixed}
      BY DEF TypeOK
    <2>2. QED
      BY <2>1 DEF ClkEdge, TypeOK
  <1>5. QED
    BY <1>1, <1>2, <1>3, <1>4 DEF ClkEdge, TypeOK, hostVars, rxVars

(* A failure is counted.                                                   *)
LEMMA DisturbTypes ==
  ASSUME TypeOK, Disturb
  PROVE  failures' \in Nat /\ intact' \in BOOLEAN /\ misled' \in Nat
  <1>1. failures' \in Nat /\ misled' \in Nat
    BY DEF TypeOK, Disturb
  <1>2. intact' \in BOOLEAN
    BY DEF Disturb
  <1>3. QED
    BY <1>1, <1>2

(* The registers start in range.                                           *)
LEMMA InitTypes == Init => TypeOK
  <1> SUFFICES ASSUME Init
               PROVE  TypeOK
    OBVIOUS
  <1>1. /\ frames \in Nat /\ at \in 0 .. FrameBytes
        /\ build \in Seq(Nat \X Nat) /\ Len(build) <= PayloadBytes
    BY SixHeaderBytes, PayloadAssumption DEF Init
  <1>2. bus \in [1 .. 2 -> Nat \cup {Mixed}] /\ sync \in [1 .. 3 -> BOOLEAN]
    BY DEF Init
  <1>3. position \in Slices /\ alignment \in Slices \cup {"unknown"}
    BY DEF Init
  <1>4. rxState \in RxStates /\ rxState # "payload" /\ crcLow \in Nat \X Nat
    BY DEF Init, RxStates, Hunting
  <1>5. QED
    BY <1>1, <1>2, <1>3, <1>4 DEF Init, TypeOK

(* Every step keeps them there.                                            *)
LEMMA StepTypes == TypeOK /\ [Next]_vars => TypeOK'
  <1> SUFFICES ASSUME TypeOK, [Next]_vars
               PROVE  TypeOK'
    OBVIOUS
  <1>1. CASE StartFrame
    BY <1>1, SixHeaderBytes, PayloadAssumption
    DEF StartFrame, TypeOK, rxVars, boxVars, clkVars
  <1>2. CASE ShiftWord
    BY <1>2, ShiftTypes
  <1>3. CASE CutFrame
    <2>1. at' \in 0 .. FrameBytes
      BY <1>3, SixHeaderBytes, PayloadAssumption DEF CutFrame, TypeOK
    <2>2. QED
      BY <1>3, <2>1, DisturbTypes DEF CutFrame, TypeOK, rxVars, boxVars, clkVars
  <1>4. CASE LoseWord
    <2>1. at' \in 0 .. FrameBytes
      BY <1>4, SixHeaderBytes, PayloadAssumption DEF LoseWord, NextByte, TypeOK
    <2>2. headLost' \in BOOLEAN
      BY <1>4 DEF LoseWord
    <2>3. QED
      BY <1>4, <2>1, <2>2, DisturbTypes
      DEF LoseWord, TypeOK, rxVars, boxVars, clkVars
  <1>5. CASE ClkEdge
    BY <1>5, ClkTypes
  <1>6. CASE UNCHANGED vars
    BY <1>6 DEF vars, hostVars, rxVars, boxVars, clkVars, history, TypeOK
  <1>7. QED
    BY <1>1, <1>2, <1>3, <1>4, <1>5, <1>6 DEF Next

(* Type correctness of the parser and of the crossing to the 200 MHz       *)
(* domain (u_job_mailbox_cdc, u_job_toggle_cdc).                           *)
THEOREM JobMailboxTypes == Spec => []TypeOK
  BY InitTypes, StepTypes, PTL DEF Spec

-----------------------------------------------------------------------------
(* The slice of the nine-bit word.                                         *)

(* Until a slice is locked nothing but the head of a frame can be due.     *)
HeadIsDue == alignment = "unknown" /\ ~headLost => at \in {0, 1}

AlignInv == TypeOK /\ HeadIsDue /\ AlignmentIsRight

(* The head of a frame shows an "F" in the right slice only.               *)
LEMMA HeadLocksRight ==
  ASSUME TypeOK, at = 1, alignment = "unknown",
         NEW word \in Words(at), ReceiveWord(word)
  PROVE  alignment' = position
  <1>1. word.look = "F" /\ word.misread = "other"
    BY SixHeaderBytes DEF Words, Looks, Misreads, Header
  <1>2. \A s \in Slices : Slice(word, s).look = "F" <=> s = position
    BY <1>1 DEF Slice, Words
  <1>3. Candidates(word) = {position}
    BY <1>2 DEF Candidates, TypeOK
  <1>4. QED
    BY <1>3 DEF ReceiveWord, Slices

(* Every step keeps the alignment right.                                   *)
LEMMA StepAlign == AlignInv /\ [Next]_vars => AlignInv'
  <1> SUFFICES ASSUME AlignInv, [Next]_vars
               PROVE  HeadIsDue' /\ AlignmentIsRight'
    BY StepTypes DEF AlignInv
  <1> USE DEF AlignInv, HeadIsDue, AlignmentIsRight
  <1>1. CASE StartFrame
    BY <1>1 DEF StartFrame, rxVars
  <1>2. CASE ShiftWord
    <2>1. UNCHANGED <<position, headLost>>
      BY <1>2 DEF ShiftWord
    <2>2. PICK word \in Words(at) : ReceiveWord(word)
      BY <1>2 DEF ShiftWord
    <2>3. CASE alignment = "unknown" /\ ~headLost
      <3>1. at = 1
        BY <1>2, <2>3 DEF ShiftWord
      <3>2. alignment' = position
        BY <2>2, <2>3, <3>1, HeadLocksRight
      <3>3. QED
        BY <2>1, <3>2 DEF TypeOK, Slices
    <2>4. CASE alignment # "unknown"
      <3>1. UNCHANGED alignment
        BY <2>2, <2>4 DEF ReceiveWord
      <3>2. QED
        BY <2>1, <2>4, <3>1
    <2>5. QED
      BY <2>1, <2>3, <2>4
  <1>3. CASE CutFrame
    BY <1>3 DEF CutFrame, rxVars
  <1>4. CASE LoseWord
    BY <1>4 DEF LoseWord, rxVars
  <1>5. CASE ClkEdge
    BY <1>5 DEF ClkEdge, hostVars, rxVars
  <1>6. CASE UNCHANGED vars
    BY <1>6 DEF vars, hostVars, rxVars, history
  <1>7. QED
    BY <1>1, <1>2, <1>3, <1>4, <1>5, <1>6 DEF Next

(* The JCM33 transport's comment on rx_word2: the slice is locked from the *)
(* leading magic, and rightly, unless the head of the first frame is lost. *)
THEOREM JobMailboxAlignment == Spec => []AlignmentIsRight
  <1>1. Init => AlignInv
    BY InitTypes DEF Init, AlignInv, HeadIsDue, AlignmentIsRight
  <1>2. AlignInv => AlignmentIsRight
    BY DEF AlignInv
  <1>3. QED
    BY <1>1, <1>2, StepAlign, PTL DEF Spec

-----------------------------------------------------------------------------
(* The crossing to the 200 MHz domain.                                     *)

(* Clock edges there have been, at the least, since the last job.          *)
Edges ==
  (CASE rxState = "magic0"  -> 0
     [] rxState = "magic1"  -> 1
     [] rxState = "version" -> 2
     [] rxState = "type"    -> 3
     [] rxState = "len0"    -> 4
     [] OTHER               -> 5) + (IF ticked THEN 1 ELSE 0)

(* Each edge takes the toggle one flip-flop further.                       *)
Settling ==
  /\ Edges >= 1 => ~fresh
  /\ Edges >= 2 => sync[1] = toggle
  /\ Edges >= 3 => sync[2] = toggle
  /\ Edges >= 4 => sync[3] = toggle
  /\ Edges >= 5 => seen = toggle

(* One flip of the toggle is under way at a time.                          *)
OneFlip ==
  /\ fresh => sync[1] # toggle
  /\ sync[1] # toggle =>
       sync[2] = sync[1] /\ sync[3] = sync[1] /\ seen = sync[1]
  /\ sync[2] # sync[1] => sync[3] = sync[2] /\ seen = sync[2]
  /\ sync[3] # sync[2] => seen = sync[3]

(* The bus is settled where the toggle is heard.                           *)
BusAheadOfToggle ==
  /\ sync[2] # seen => bus[1] = mailbox
  /\ sync[3] # seen => bus[2] = mailbox

LatestJob ==
  /\ mailbox \in 0 .. frames /\ job \in 0 .. mailbox
  /\ at # 0 => mailbox < frames
  /\ seen = toggle <=> job = mailbox

JobInv == TypeOK /\ Settling /\ OneFlip /\ BusAheadOfToggle /\ LatestJob

(* The registers start settled.                                            *)
LEMMA InitJob == Init => JobInv
  <1> SUFFICES ASSUME Init
               PROVE  JobInv
    OBVIOUS
  <1>1. TypeOK
    BY InitTypes
  <1>2. /\ toggle = FALSE /\ seen = FALSE /\ fresh = FALSE
        /\ sync[1] = FALSE /\ sync[2] = FALSE /\ sync[3] = FALSE
    <2>1. sync = [i \in 1 .. 3 |-> FALSE]
      BY DEF Init
    <2>2. sync[1] = FALSE /\ sync[2] = FALSE /\ sync[3] = FALSE
      BY <2>1
    <2>3. QED
      BY <2>2 DEF Init
  <1>3. Settling /\ OneFlip /\ BusAheadOfToggle
    BY <1>2 DEF Settling, OneFlip, BusAheadOfToggle
  <1>4. LatestJob
    <2>1. frames = 0 /\ at = 0 /\ mailbox = 0 /\ job = 0
      BY DEF Init
    <2>2. mailbox \in 0 .. frames /\ job \in 0 .. mailbox
      BY <2>1
    <2>3. seen = toggle
      BY <1>2
    <2>4. QED
      BY <2>1, <2>2, <2>3 DEF LatestJob
  <1>5. QED
    BY <1>1, <1>3, <1>4 DEF JobInv

(* A word advances the parser by one state at most.                        *)
LEMMA ParserPace ==
  ASSUME TypeOK, NEW byte, ConsumeByte(byte), ticked, ~ticked'
  PROVE  Edges' <= Edges
  <1>1. CASE Hunt(byte)
    BY <1>1 DEF Hunt, HuntAgain, Following, Hunting, Edges
  <1>2. CASE FillPayload(byte)
    BY <1>2 DEF FillPayload, Edges
  <1>3. CASE TakeCrcLow(byte)
    BY <1>3 DEF TakeCrcLow, Edges
  <1>4. CASE TakeCrcHigh(byte)
    BY <1>4 DEF TakeCrcHigh, Edges
  <1>5. QED
    BY <1>1, <1>2, <1>3, <1>4 DEF ConsumeByte

(* The CRC passes on the last byte of the frame being written.             *)
LEMMA CrcIsOfThisFrame ==
  ASSUME TypeOK, at # 0, NEW word \in Words(at), NEW s \in Slices,
         CrcPasses(Slice(word, s))
  PROVE  at = FrameBytes /\ BuiltJob = frames
  <1>1. Id(Slice(word, s)) = <<BuiltFrom, FrameBytes>>
    BY DEF CrcPasses
  <1>2. Id(Slice(word, s)) = <<frames, at>>
    BY <1>1, SliceOK, SixHeaderBytes, PayloadAssumption
  <1>3. QED
    BY <1>1, <1>2 DEF CrcPasses, BuiltJob

(* A word leaves the crossing alone, or hands over the frame it ends when  *)
(* the last job has settled.                                               *)
LEMMA ShiftJob ==
  ASSUME JobInv, ShiftWord
  PROVE  /\ Edges' <= Edges
         /\ \/ UNCHANGED boxVars
            \/ /\ Edges' = 0 /\ Edges >= 5 /\ at' = 0
               /\ mailbox' = frames /\ toggle' = ~toggle /\ fresh'
  <1> USE DEF JobInv
  <1>1. PICK word \in Words(at) : ReceiveWord(word)
    BY DEF ShiftWord
  <1>2. ticked /\ ~ticked' /\ at # 0
    BY DEF ShiftWord
  <1>3. CASE UNCHANGED <<alignment, rxState, build, crcLow, boxVars>>
    BY <1>2, <1>3 DEF Edges
  <1>4. ASSUME NEW s \in Slices, ConsumeByte(Slice(word, s))
        PROVE  /\ Edges' <= Edges
               /\ \/ UNCHANGED boxVars
                  \/ /\ Edges' = 0 /\ Edges >= 5 /\ at' = 0
                     /\ mailbox' = frames /\ toggle' = ~toggle /\ fresh'
    <2>1. Edges' <= Edges
      BY <1>2, <1>4, ParserPace
    <2>2. CASE TakeCrcHigh(Slice(word, s)) /\ CrcPasses(Slice(word, s))
      <3>1. at = FrameBytes /\ BuiltJob = frames
        BY <1>1, <1>2, <2>2, CrcIsOfThisFrame
      <3>2. at' = 0
        BY <3>1 DEF ShiftWord, NextByte
      <3>3. Edges' = 0 /\ Edges >= 5
        BY <1>2, <2>2 DEF TakeCrcHigh, Edges
      <3>4. QED
        BY <2>1, <2>2, <3>1, <3>2, <3>3 DEF TakeCrcHigh
    <2>3. CASE ~(TakeCrcHigh(Slice(word, s)) /\ CrcPasses(Slice(word, s)))
      BY <1>4, <2>1, <2>3
      DEF ConsumeByte, Hunt, FillPayload, TakeCrcLow, TakeCrcHigh
    <2>4. QED
      BY <2>2, <2>3
  <1>5. QED
    BY <1>1, <1>3, <1>4, ReceiveCases DEF TypeOK

(* The word that completes a frame starts the toggle on its way.           *)
LEMMA ShiftKeepsJob ==
  ASSUME JobInv, ShiftWord
  PROVE  JobInv'
  <1> USE DEF JobInv
  <1>1. TypeOK'
    BY ShiftTypes
  <1>2. UNCHANGED <<frames, bus, sync, seen, job>>
    BY DEF ShiftWord, clkVars
  <1>3. Edges \in Nat /\ Edges' \in Nat
    BY DEF Edges
  <1>4. CASE UNCHANGED boxVars
    <2>1. Settling'
      BY <1>2, <1>3, <1>4, ShiftJob DEF Settling, boxVars
    <2>2. OneFlip' /\ BusAheadOfToggle'
      BY <1>2, <1>4 DEF OneFlip, BusAheadOfToggle, boxVars
    <2>3. LatestJob'
      BY <1>2, <1>4 DEF LatestJob, ShiftWord, NextByte, boxVars
    <2>4. QED
      BY <1>1, <2>1, <2>2, <2>3
  <1>5. CASE /\ Edges' = 0 /\ Edges >= 5 /\ at' = 0
             /\ mailbox' = frames /\ toggle' = ~toggle /\ fresh'
    <2>1. /\ sync[1] = toggle /\ sync[2] = toggle
          /\ sync[3] = toggle /\ seen = toggle
      BY <1>3, <1>5 DEF Settling
    <2>2. Settling'
      BY <1>5 DEF Settling
    <2>3. OneFlip' /\ BusAheadOfToggle'
      BY <1>2, <1>5, <2>1 DEF OneFlip, BusAheadOfToggle, TypeOK
    <2>4. LatestJob'
      BY <1>2, <1>5, <2>1 DEF LatestJob, ShiftWord, TypeOK
    <2>5. QED
      BY <1>1, <2>2, <2>3, <2>4
  <1>6. QED
    BY <1>4, <1>5, ShiftJob

(* An edge of the clock moves toggle and bus one flip-flop further.        *)
LEMMA ClkKeepsJob ==
  ASSUME JobInv, ClkEdge
  PROVE  JobInv'
  <1> USE DEF JobInv
  <1>1. TypeOK'
    BY ClkTypes
  <1>2. PICK t \in ToggleSamples : sync' = <<t, sync[1], sync[2]>>
    BY DEF ClkEdge
  <1>3. PICK b \in BusSamples : bus' = <<b, bus[1]>>
    BY DEF ClkEdge
  <1>4. /\ sync'[1] = t /\ sync'[2] = sync[1] /\ sync'[3] = sync[2]
        /\ bus'[1] = b /\ bus'[2] = bus[1] /\ seen' = sync[3]
    BY <1>2, <1>3 DEF ClkEdge, ToggleOut
  <1>5. /\ UNCHANGED <<frames, at, rxState, mailbox, toggle>>
        /\ ~fresh' /\ ticked'
    BY DEF ClkEdge, hostVars, rxVars
  <1>6. /\ t \in BOOLEAN /\ toggle \in BOOLEAN /\ seen \in BOOLEAN
        /\ sync[1] \in BOOLEAN /\ sync[2] \in BOOLEAN /\ sync[3] \in BOOLEAN
        /\ ~fresh => t = toggle /\ b = mailbox
    BY DEF TypeOK, ToggleSamples, BusSamples
  <1>7. Settling'
    <2>1. Edges' <= Edges + 1 /\ Edges \in Nat /\ Edges' \in Nat
      BY <1>5 DEF Edges
    <2>2. Edges' >= 2 => t = toggle
      BY <1>6, <2>1 DEF Settling
    <2>3. Edges' >= 3 => sync[1] = toggle
      BY <2>1 DEF Settling
    <2>4. Edges' >= 4 => sync[2] = toggle
      BY <2>1 DEF Settling
    <2>5. Edges' >= 5 => sync[3] = toggle
      BY <2>1 DEF Settling
    <2>6. QED
      BY <1>4, <1>5, <2>2, <2>3, <2>4, <2>5 DEF Settling
  <1>8. OneFlip'
    BY <1>4, <1>5, <1>6 DEF OneFlip
  <1>9. BusAheadOfToggle'
    BY <1>4, <1>5, <1>6 DEF OneFlip, BusAheadOfToggle
  <1>10. LatestJob'
    <2>1. CASE sync[3] # seen
      <3>1. job' = mailbox /\ seen' = toggle /\ seen # toggle
        BY <1>4, <1>6, <2>1 DEF ClkEdge, ToggleOut, OneFlip, BusAheadOfToggle
      <3>2. QED
        BY <1>5, <3>1 DEF LatestJob, TypeOK
    <2>2. CASE sync[3] = seen
      <3>1. job' = job /\ seen' = seen
        BY <1>4, <2>2 DEF ClkEdge, ToggleOut
      <3>2. QED
        BY <1>5, <3>1 DEF LatestJob
    <2>3. QED
      BY <2>1, <2>2
  <1>11. QED
    BY <1>1, <1>7, <1>8, <1>9, <1>10

(* Every step keeps the crossing in order.                                 *)
LEMMA StepJob == JobInv /\ [Next]_vars => JobInv'
  <1> SUFFICES ASSUME JobInv, [Next]_vars
               PROVE  JobInv'
    OBVIOUS
  <1>1. TypeOK'
    BY StepTypes DEF JobInv
  <1>2. CASE ShiftWord
    BY <1>2, ShiftKeepsJob
  <1>3. CASE ClkEdge
    BY <1>3, ClkKeepsJob
  <1>4. CASE StartFrame \/ CutFrame \/ LoseWord \/ UNCHANGED vars
    <2>1. UNCHANGED <<rxState, ticked, mailbox, toggle, fresh, bus, sync, seen,
                      job>>
      BY <1>4 DEF StartFrame, CutFrame, LoseWord, vars, rxVars, boxVars,
                  clkVars
    <2>2. Settling' /\ OneFlip' /\ BusAheadOfToggle'
      BY <2>1 DEF JobInv, Settling, Edges, OneFlip, BusAheadOfToggle
    <2>3. mailbox' \in 0 .. frames' /\ (at' # 0 => mailbox' < frames')
      BY <1>4, <2>1
      DEF JobInv, TypeOK, LatestJob, StartFrame, CutFrame, LoseWord, NextByte,
          vars, hostVars
    <2>4. QED
      BY <1>1, <2>1, <2>2, <2>3 DEF JobInv, LatestJob
  <1>5. QED
    BY <1>2, <1>3, <1>4 DEF Next

(* A frame begun is a Write of the channel, the edge that moves the job    *)
(* registers is its Load, and every other step stutters.                   *)
LEMMA StepImplementsChannel ==
  JobInv /\ JobInv' /\ [Next]_vars => [Channel!Next]_(Channel!vars)
  <1> SUFFICES ASSUME JobInv, JobInv', [Next]_vars
               PROVE  [Channel!Next]_(Channel!vars)
    OBVIOUS
  <1> USE DEF Channel!vars
  <1>1. CASE StartFrame
    BY <1>1 DEF StartFrame, clkVars, Channel!Next, Channel!Write
  <1>2. CASE ClkEdge
    <2>1. frames' = frames
      BY <1>2 DEF ClkEdge, hostVars
    <2>2. CASE sync[3] # seen
      <3>1. job' = mailbox /\ job # mailbox
        BY <1>2, <2>2
        DEF ClkEdge, ToggleOut, JobInv, TypeOK, OneFlip, BusAheadOfToggle,
            LatestJob
      <3>2. job' \in job + 1 .. frames
        BY <3>1 DEF JobInv, TypeOK, LatestJob
      <3>3. QED
        BY <2>1, <3>2 DEF Channel!Next, Channel!Load
    <2>3. CASE sync[3] = seen
      BY <1>2, <2>1, <2>3 DEF ClkEdge, ToggleOut
    <2>4. QED
      BY <2>2, <2>3
  <1>3. CASE ShiftWord \/ CutFrame \/ LoseWord \/ UNCHANGED vars
    BY <1>3 DEF ShiftWord, CutFrame, LoseWord, vars, hostVars, clkVars
  <1>4. QED
    BY <1>1, <1>2, <1>3 DEF Next

(* Whatever is cut short, lost or misread, and however the clocks fall,    *)
(* the job registers only move to a later frame of the host.               *)
THEOREM JobMailboxImplementsChannel == Spec => ImplementsChannel
  <1>1. Init => Channel!Init
    BY DEF Init, Channel!Init
  <1>2. QED
    BY <1>1, InitJob, StepJob, StepImplementsChannel, PTL
    DEF Spec, ImplementsChannel, Channel!Spec

-----------------------------------------------------------------------------
(* What is lost, and the recovery of the parser.                           *)

(* Frames that were written or cut, and those of them the card missed.     *)
Written == IF at = 0 THEN frames ELSE frames - 1
Missed == {n \in 1 .. Written : n \notin jobs /\ n # mailbox}
PaidFor(k) == Cardinality(Missed) + k <= 2 * failures + misled

(* Every job that was loaded is in the history.                             *)
JobIsCounted == job = 0 \/ job \in jobs

(* The parser stands where the frame under way needs it.                   *)
InStep ==
  /\ at = 1 => rxState \in {"magic0", "magic1"}
  /\ at = 2 => rxState = "magic1"
  /\ at = 3 => rxState = "version"
  /\ at = 4 => rxState = "type"
  /\ at = 5 => rxState = "len0"
  /\ at = 6 => rxState = "len1"
  /\ 7 <= at /\ at <= PayloadBytes + 6 =>
       /\ rxState = "payload" /\ Len(build) + 7 = at
       /\ \A i \in 1 .. Len(build) : build[i] = <<frames, 6 + i>>
  /\ at > PayloadBytes + 6 => build = Payload(frames)
  /\ at = PayloadBytes + 7 => rxState = "crc0"
  /\ at = PayloadBytes + 8 =>
       rxState = "crc1" /\ crcLow = <<frames, PayloadBytes + 7>>

(* The parser swallows this frame: what it still wants of an older one it  *)
(* gets before the end, and then no whole header comes any more.           *)
Adrift ==
  /\ rxState = "magic0" => at # 1
  /\ rxState = "magic1" => at >= 8
  /\ rxState = "version" => at = 1 \/ at >= 8
  /\ rxState \in {"type", "len0", "len1"} => at = 1
  /\ rxState = "payload" => at <= Len(build) + 1
  /\ rxState = "crc0" => at <= PayloadBytes + 1
  /\ rxState = "crc1" => at <= PayloadBytes + 2

Searching == {"magic0", "magic1", "version"}

(* Each failure pays for two frames.  In step, or between frames with a    *)
(* parser that searches, nothing more is owed; adrift, this frame is       *)
(* still paid for; in any other state this one and the next are.           *)
Recovery ==
  \/ headLost
  \/ at = 0 /\ PaidFor(0) /\ rxState \in Searching
  \/ at = 0 /\ PaidFor(1)
  \/ at # 0 /\ PaidFor(0) /\ InStep
  \/ at # 0 /\ PaidFor(1) /\ Adrift
  \/ at # 0 /\ PaidFor(2)

LossInv == JobInv /\ AlignInv /\ JobIsCounted /\ Recovery

(* At most one more element, at most one more.                              *)
LEMMA OneMore ==
  ASSUME NEW S, NEW T, NEW x, IsFiniteSet(S), T \subseteq S \cup {x}
  PROVE  /\ IsFiniteSet(T) /\ Cardinality(T) <= Cardinality(S) + 1
         /\ T \subseteq S => Cardinality(T) <= Cardinality(S)
         /\ Cardinality(S) \in Nat /\ Cardinality(T) \in Nat
  <1>1. /\ IsFiniteSet(S \cup {x}) /\ Cardinality(S) \in Nat
        /\ Cardinality(S \cup {x}) \in Nat
        /\ Cardinality(S \cup {x}) <= Cardinality(S) + 1
    BY FS_AddElement, FS_CardinalityType
  <1>2. IsFiniteSet(T) /\ Cardinality(T) <= Cardinality(S \cup {x})
    BY <1>1, FS_Subset
  <1>3. Cardinality(T) \in Nat
    BY <1>2, FS_CardinalityType
  <1>4. T \subseteq S => Cardinality(T) <= Cardinality(S)
    BY FS_Subset
  <1>5. QED
    BY <1>1, <1>2, <1>3, <1>4

(* A frame under way has begun.                                             *)
LEMMA FramesBefore ==
  ASSUME NEW a, NEW f \in Nat, NEW m \in Nat, a # 0 => m < f
  PROVE  (IF a = 0 THEN f ELSE f - 1) \in Nat
  OBVIOUS

(* There are finitely many frames to miss.                                  *)
LEMMA MissedIsFinite ==
  ASSUME JobInv
  PROVE  /\ Written \in Nat /\ IsFiniteSet(Missed)
         /\ Cardinality(Missed) \in Nat
  <1>1. Written \in Nat
    BY DEF JobInv, TypeOK, LatestJob, Written
  <1>2. IsFiniteSet(1 .. Written)
    BY <1>1, FS_Interval
  <1>3. Missed \subseteq 1 .. Written
    BY DEF Missed
  <1>4. QED
    BY <1>1, <1>2, <1>3, FS_Subset, FS_CardinalityType

(* What was a job, or is about to be, stays so.                            *)
LEMMA JobsStay ==
  ASSUME JobInv, JobIsCounted, [Next]_vars
  PROVE  /\ \A n : n \in jobs \/ n = mailbox
                     => n \in jobs' \/ n = mailbox' \/ n = 0
         /\ JobIsCounted'
  <1> USE DEF JobInv, JobIsCounted
  <1>1. CASE ShiftWord
    <2>1. jobs' = jobs /\ job' = job
      BY <1>1 DEF ShiftWord, clkVars
    <2>2. CASE UNCHANGED boxVars
      BY <2>1, <2>2 DEF boxVars
    <2>3. CASE Edges >= 5
      <3>1. job = mailbox
        BY <2>3 DEF Settling, LatestJob, Edges
      <3>2. QED
        BY <2>1, <3>1
    <2>4. QED
      BY <1>1, <2>2, <2>3, ShiftJob
  <1>2. CASE ClkEdge
    <2>1. mailbox' = mailbox
      BY <1>2 DEF ClkEdge
    <2>2. \/ job' = bus[2] /\ jobs' = jobs \cup {bus[2]}
          \/ job' = job /\ jobs' = jobs
      BY <1>2 DEF ClkEdge
    <2>3. QED
      BY <2>1, <2>2
  <1>3. CASE StartFrame \/ CutFrame \/ LoseWord \/ UNCHANGED vars
    BY <1>3 DEF StartFrame, CutFrame, LoseWord, vars, boxVars, clkVars,
                history
  <1>4. QED
    BY <1>1, <1>2, <1>3 DEF Next

(* So a step misses the frame it ends, or none.                            *)
LEMMA MissesOne ==
  ASSUME JobInv, JobInv', JobIsCounted, [Next]_vars
  PROVE  /\ Cardinality(Missed) \in Nat /\ Cardinality(Missed') \in Nat
         /\ Written' = Written => Cardinality(Missed') <= Cardinality(Missed)
         /\ Written' = Written + 1
              => Cardinality(Missed') <= Cardinality(Missed) + 1
         /\ Written' = Written + 1 /\ mailbox' = Written + 1
              => Cardinality(Missed') <= Cardinality(Missed)
  <1>1. Written \in Nat /\ IsFiniteSet(Missed)
    BY MissedIsFinite
  <1>2. \A n \in Missed' : n # 0 /\ n \notin jobs /\ n # mailbox
    BY JobsStay DEF Missed
  <1>3. Written' = Written => Missed' \subseteq Missed
    BY <1>2 DEF Missed
  <1>4. Written' = Written + 1 => Missed' \subseteq Missed \cup {Written + 1}
    BY <1>1, <1>2 DEF Missed
  <1>5. Written' = Written + 1 /\ mailbox' = Written + 1
          => Missed' \subseteq Missed
    BY <1>1, <1>2 DEF Missed
  <1>6. Cardinality(Missed) \in Nat
    BY MissedIsFinite
  <1>7. Cardinality(Missed') \in Nat
    <2>1. Written' \in Nat
      <3>1. /\ frames' \in Nat /\ mailbox' \in Nat
            /\ at' # 0 => mailbox' < frames'
        BY DEF JobInv, TypeOK, LatestJob
      <3>2. QED
        BY <3>1, FramesBefore DEF Written
    <2>2. IsFiniteSet(1 .. Written')
      BY <2>1, FS_Interval
    <2>3. Missed' \subseteq 1 .. Written'
      BY DEF Missed
    <2>4. QED
      BY <2>2, <2>3, FS_Subset, FS_CardinalityType
  <1>8. QED
    BY <1>1, <1>3, <1>4, <1>5, <1>6, <1>7, OneMore

(* Unless the head of the first frame is lost, the parser is given the     *)
(* byte that was sent.                                                     *)
LEMMA RightByte ==
  ASSUME TypeOK, AlignInv, ~headLost, ShiftWord
  PROVE  \E word \in Words(at) : ConsumeByte(word)
  <1>1. PICK word \in Words(at) : ReceiveWord(word)
    BY DEF ShiftWord
  <1>2. Slice(word, position) = word
    BY DEF Slice
  <1>3. CASE alignment # "unknown"
    <2>1. alignment = position
      BY <1>3 DEF AlignInv, AlignmentIsRight
    <2>2. QED
      BY <1>1, <1>2, <1>3, <2>1 DEF ReceiveWord
  <1>4. CASE alignment = "unknown"
    <2>1. at = 1
      BY <1>4 DEF AlignInv, HeadIsDue, ShiftWord
    <2>2. alignment' = position /\ position # "unknown"
      BY <1>1, <1>4, <2>1, HeadLocksRight DEF TypeOK, Slices
    <2>3. QED
      BY <1>1, <1>2, <1>4, <2>2 DEF ReceiveWord
  <1>5. QED
    BY <1>3, <1>4

(* What a byte of the header and of the rest looks like, and whose it is.  *)
LEMMA Sees ==
  ASSUME TypeOK, at # 0, NEW word \in Words(at)
  PROVE  /\ at = 1 => word.look = "F"
         /\ at = 2 => word.look = "J"
         /\ at \in {3, 4} => word.look = "1"
         /\ at = 5 => word.look = "L"
         /\ at = 6 => word.look = "0"
         /\ at > 6 => word.look \in {"F", "J", "other"}
         /\ Id(word) = <<frames, at>>
         /\ at \in 1 .. PayloadBytes + 8
  BY SixHeaderBytes, PayloadAssumption
     DEF TypeOK, Words, Looks, Header, Id

(* What the parser does with a byte, state by state.                       *)
LEMMA ParserDoes ==
  ASSUME TypeOK, NEW word, ConsumeByte(word)
  PROVE  /\ rxState = "magic0" =>
              rxState' = IF word.look = "F" THEN "magic1" ELSE "magic0"
         /\ rxState = "magic1" =>
              rxState' = IF word.look = "J" THEN "version"
                         ELSE IF word.look = "F" THEN "magic1" ELSE "magic0"
         /\ rxState = "version" =>
              rxState' = IF word.look = "1" THEN "type" ELSE "magic0"
         /\ rxState = "type" =>
              rxState' = IF word.look = "1" THEN "len0" ELSE "magic0"
         /\ rxState = "len0" =>
              rxState' = IF word.look = "L" THEN "len1" ELSE "magic0"
         /\ rxState = "len1" =>
              IF word.look = "0" THEN rxState' = "payload" /\ build' = <<>>
              ELSE rxState' = "magic0"
         /\ rxState = "payload" =>
              /\ build' = Append(build, Id(word))
              /\ rxState' = IF Len(build) + 1 = PayloadBytes THEN "crc0"
                            ELSE "payload"
         /\ rxState = "crc0" =>
              rxState' = "crc1" /\ build' = build /\ crcLow' = Id(word)
         /\ rxState = "crc1" =>
              /\ rxState' = "magic0"
              /\ CrcPasses(word) => mailbox' = BuiltJob
  <1>1. CASE Hunt(word)
    <2>1. /\ rxState \in Hunting
          /\ rxState' = IF word.look = Expected[rxState]
                        THEN Following[rxState] ELSE HuntAgain(word)
          /\ build' = IF rxState' = "payload" THEN <<>> ELSE build
      BY <1>1 DEF Hunt
    <2>2. /\ Expected["magic0"] = "F" /\ Expected["magic1"] = "J"
          /\ Expected["version"] = "1" /\ Expected["type"] = "1"
          /\ Expected["len0"] = "L" /\ Expected["len1"] = "0"
      BY DEF Expected
    <2>3. /\ Following["magic0"] = "magic1"
          /\ Following["magic1"] = "version"
          /\ Following["version"] = "type" /\ Following["type"] = "len0"
          /\ Following["len0"] = "len1" /\ Following["len1"] = "payload"
      BY DEF Following
    <2>4. QED
      BY <2>1, <2>2, <2>3 DEF HuntAgain, Hunting
  <1>2. CASE FillPayload(word)
    <2>1. LastPayload <=> Len(build) + 1 = PayloadBytes
      BY PayloadAssumption DEF LastPayload, TypeOK
    <2>2. QED
      BY <1>2, <2>1 DEF FillPayload
  <1>3. CASE TakeCrcLow(word)
    BY <1>3 DEF TakeCrcLow
  <1>4. CASE TakeCrcHigh(word)
    BY <1>4 DEF TakeCrcHigh
  <1>5. QED
    BY <1>1, <1>2, <1>3, <1>4 DEF ConsumeByte

(* A parser adrift stays so, and searches at the end of the frame.         *)
LEMMA AdriftByte ==
  ASSUME TypeOK, at # 0, NEW word \in Words(at), ConsumeByte(word), Adrift
  PROVE  /\ at = FrameBytes => rxState' \in Searching
         /\ at # FrameBytes /\ at' = at + 1 => Adrift'
  <1>1. /\ at \in 1 .. PayloadBytes + 8 /\ FrameBytes = PayloadBytes + 8
        /\ PayloadBytes \in Nat /\ PayloadBytes > 0
    BY Sees, SixHeaderBytes, PayloadAssumption
  <1>2. CASE rxState \in {"magic0", "magic1", "version", "type", "len0", "len1"}
    <2>1. rxState' \in Searching
      BY <1>1, <1>2, Sees, ParserDoes DEF Adrift, Searching
    <2>2. /\ rxState' = "magic1" => at > 6
          /\ rxState' = "version" => at > 7
      BY <1>1, <1>2, Sees, ParserDoes DEF Adrift
    <2>3. QED
      BY <1>1, <2>1, <2>2 DEF Adrift, Searching
  <1>3. CASE rxState = "payload"
    <2>1. /\ Len(build') = Len(build) + 1 /\ Len(build) \in Nat
          /\ Len(build) < PayloadBytes
          /\ rxState' = IF Len(build) + 1 = PayloadBytes THEN "crc0"
                        ELSE "payload"
      <3>1. Id(word) \in Nat \X Nat
        BY Sees DEF TypeOK
      <3>2. QED
        BY <1>3, <3>1, ParserDoes DEF TypeOK
    <2>2. QED
      BY <1>1, <1>3, <2>1 DEF Adrift
  <1>4. CASE rxState = "crc0"
    BY <1>1, <1>4, ParserDoes DEF Adrift
  <1>5. CASE rxState = "crc1"
    BY <1>1, <1>5, ParserDoes DEF Adrift, Searching
  <1>6. QED
    BY <1>2, <1>3, <1>4, <1>5 DEF TypeOK, RxStates, Hunting

(* A parser in step stays so, and takes the frame with its last byte.      *)
LEMMA InStepByte ==
  ASSUME TypeOK, at # 0, NEW word \in Words(at), ConsumeByte(word), InStep
  PROVE  /\ at = FrameBytes => rxState' = "magic0" /\ mailbox' = frames
         /\ at # FrameBytes /\ at' = at + 1 /\ frames' = frames => InStep'
  <1>1. /\ at \in 1 .. PayloadBytes + 8 /\ FrameBytes = PayloadBytes + 8
        /\ PayloadBytes \in Nat /\ PayloadBytes > 0 /\ HeaderBytes = 6
    BY Sees, SixHeaderBytes, PayloadAssumption
  <1>2. CASE at \in 1 .. 5
    <2>1. /\ at = 1 => rxState' = "magic1"
          /\ at = 2 => rxState' = "version"
          /\ at = 3 => rxState' = "type"
          /\ at = 4 => rxState' = "len0"
          /\ at = 5 => rxState' = "len1"
      BY Sees, ParserDoes DEF InStep
    <2>2. QED
      BY <1>1, <1>2, <2>1 DEF InStep
  <1>3. CASE at = 6
    <2>1. rxState' = "payload" /\ build' = <<>>
      BY <1>3, Sees, ParserDoes DEF InStep
    <2>2. Len(build') = 0
      BY <2>1
    <2>3. QED
      BY <1>1, <1>3, <2>1, <2>2 DEF InStep
  <1>4. CASE 7 <= at /\ at <= PayloadBytes + 6
    <2>1. /\ build' = Append(build, <<frames, at>>)
          /\ rxState' = IF Len(build) + 1 = PayloadBytes THEN "crc0"
                        ELSE "payload"
          /\ Len(build) + 7 = at /\ Len(build) \in Nat
          /\ \A i \in 1 .. Len(build) : build[i] = <<frames, 6 + i>>
      <3>1. /\ rxState = "payload" /\ Len(build) + 7 = at
            /\ \A i \in 1 .. Len(build) : build[i] = <<frames, 6 + i>>
        BY <1>4 DEF InStep
      <3>2. Id(word) = <<frames, at>> /\ Len(build) \in Nat
        BY Sees DEF TypeOK
      <3>3. QED
        BY <3>1, <3>2, ParserDoes
    <2>2. /\ Len(build') = Len(build) + 1
          /\ \A i \in 1 .. Len(build') : build'[i] = <<frames, 6 + i>>
      <3>1. <<frames, at>> \in Nat \X Nat /\ build \in Seq(Nat \X Nat)
        BY <1>1 DEF TypeOK
      <3>2. /\ Len(build') = Len(build) + 1
            /\ build'[Len(build) + 1] = <<frames, at>>
            /\ \A i \in 1 .. Len(build) : build'[i] = build[i]
        BY <2>1, <3>1
      <3>3. at = 6 + (Len(build) + 1)
        BY <2>1
      <3>4. \A i \in 1 .. Len(build) + 1 : build'[i] = <<frames, 6 + i>>
        BY <2>1, <3>2, <3>3
      <3>5. QED
        BY <3>2, <3>4
    <2>3. CASE Len(build) + 1 = PayloadBytes
      <3>1. build' = Payload(frames)
        <4>1. build' \in Seq(Nat \X Nat)
          BY <2>1, <1>1 DEF TypeOK
        <4>2. build' = [i \in 1 .. PayloadBytes |-> <<frames, 6 + i>>]
          BY <2>2, <2>3, <4>1
        <4>3. QED
          BY <1>1, <4>2 DEF Payload
      <3>2. at = PayloadBytes + 6 /\ rxState' = "crc0"
        BY <1>1, <2>1, <2>3
      <3>3. QED
        BY <1>1, <3>1, <3>2 DEF InStep
    <2>4. CASE Len(build) + 1 # PayloadBytes
      BY <1>1, <1>4, <2>1, <2>2, <2>4 DEF InStep
    <2>5. QED
      BY <2>3, <2>4
  <1>5. CASE at = PayloadBytes + 7
    <2>1. /\ rxState' = "crc1" /\ build' = Payload(frames)
          /\ crcLow' = <<frames, PayloadBytes + 7>>
      BY <1>1, <1>5, Sees, ParserDoes DEF InStep
    <2>2. QED
      BY <1>1, <1>5, <2>1 DEF InStep, Payload
  <1>6. CASE at = PayloadBytes + 8
    <2>1. /\ rxState = "crc1" /\ build = Payload(frames)
          /\ crcLow = <<frames, PayloadBytes + 7>>
      BY <1>1, <1>6 DEF InStep
    <2>2. BuiltFrom = frames
      <3>1. 1 \in 1 .. PayloadBytes
        BY <1>1
      <3>2. build[1] = <<frames, HeaderBytes + 1>>
        BY <2>1, <3>1 DEF Payload
      <3>3. QED
        BY <3>2 DEF BuiltFrom
    <2>3. CrcPasses(word) /\ BuiltJob = frames
      BY <1>1, <1>6, <2>1, <2>2, Sees DEF CrcPasses, BuiltJob
    <2>4. QED
      BY <1>1, <1>6, <2>1, <2>3, ParserDoes
  <1>7. QED
    BY <1>1, <1>2, <1>3, <1>4, <1>5, <1>6

(* The last frame that is no longer under way, after a step.               *)
LEMMA WrittenMoves ==
  ASSUME JobInv
  PROVE  /\ at # 0 /\ at' # 0 /\ frames' = frames => Written' = Written
         /\ at' = at /\ frames' = frames => Written' = Written
         /\ at # 0 /\ at' = 0 /\ frames' = frames => Written' = Written + 1
         /\ at # 0 /\ at' = 0 /\ frames' = frames => Written + 1 = frames
         /\ at = 0 /\ at' # 0 /\ frames' = frames + 1 => Written' = Written
  <1>1. frames \in Nat /\ (at # 0 => frames - 1 \in Nat /\ frames > 0)
    BY DEF JobInv, TypeOK, LatestJob
  <1>2. /\ at # 0 /\ at' # 0 /\ frames' = frames => Written' = Written
        /\ at' = at /\ frames' = frames => Written' = Written
    BY Zenon DEF Written
  <1>3. at # 0 /\ at' = 0 /\ frames' = frames
          => Written' = Written + 1 /\ Written + 1 = frames
    BY <1>1 DEF Written
  <1>4. at = 0 /\ at' # 0 /\ frames' = frames + 1 => Written' = Written
    <2>1. (frames + 1) - 1 = frames
      BY <1>1
    <2>2. QED
      BY <2>1, Zenon DEF Written
  <1>5. QED
    BY <1>2, <1>3, <1>4

(* The account, in numbers: c and d are missed, f and g failed, m and q    *)
(* were misled, before and after.                                          *)
LEMMA Ledger ==
  ASSUME NEW c \in Nat, NEW d \in Nat, NEW f \in Nat, NEW g \in Nat,
         NEW m \in Nat, NEW q \in Nat,
         NEW k \in 0 .. 2, NEW i \in 0 .. 2, NEW j \in 0 .. k + i,
         2 * g + q >= 2 * f + m + i, c + k <= 2 * f + m, d <= c
  PROVE  d + j <= 2 * g + q
  OBVIOUS

(* The same where one more is missed.                                       *)
LEMMA LedgerOneMore ==
  ASSUME NEW c \in Nat, NEW d \in Nat, NEW f \in Nat, NEW g \in Nat,
         NEW m \in Nat, NEW q \in Nat,
         NEW k \in 0 .. 2, NEW i \in 0 .. 2, NEW j \in 0 .. 2,
         2 * g + q >= 2 * f + m + i, c + k <= 2 * f + m,
         d <= c + 1, j + 1 <= k + i
  PROVE  d + j <= 2 * g + q
  OBVIOUS

(* A step that ends no frame owes no more than before, and one that ends a *)
(* frame one more, unless it is now the job.                               *)
LEMMA Pays ==
  ASSUME JobInv, JobInv', JobIsCounted, [Next]_vars,
         NEW k \in 0 .. 2, NEW i \in 0 .. 2,
         failures' \in Nat, misled' \in Nat,
         2 * failures' + misled' >= 2 * failures + misled + i
  PROVE  /\ Written' = Written /\ PaidFor(k)
              => \A j \in 0 .. k + i : PaidFor(j)'
         /\ Written' = Written + 1 /\ PaidFor(k)
              => \A j \in 0 .. 2 : j + 1 <= k + i => PaidFor(j)'
         /\ Written' = Written + 1 /\ mailbox' = Written + 1 /\ PaidFor(k)
              => PaidFor(0)'
  <1>1. /\ failures \in Nat /\ misled \in Nat
        /\ Cardinality(Missed) \in Nat /\ Cardinality(Missed') \in Nat
    BY MissesOne DEF JobInv, TypeOK
  <1>2. ASSUME Written' = Written, PaidFor(k), NEW j \in 0 .. k + i
        PROVE  PaidFor(j)'
    <2>1. Cardinality(Missed') <= Cardinality(Missed)
      BY <1>2, MissesOne
    <2>2. Cardinality(Missed) + k <= 2 * failures + misled
      BY <1>2 DEF PaidFor
    <2>4. Cardinality(Missed') + j <= 2 * failures' + misled'
      BY <1>1, <2>1, <2>2, Ledger
    <2>5. QED
      BY <2>4 DEF PaidFor
  <1>3. ASSUME Written' = Written + 1, PaidFor(k), NEW j \in 0 .. 2,
               j + 1 <= k + i
        PROVE  PaidFor(j)'
    <2>1. Cardinality(Missed') <= Cardinality(Missed) + 1
      BY <1>3, MissesOne
    <2>2. Cardinality(Missed) + k <= 2 * failures + misled
      BY <1>3 DEF PaidFor
    <2>4. Cardinality(Missed') + j <= 2 * failures' + misled'
      BY <1>1, <1>3, <2>1, <2>2, LedgerOneMore
    <2>5. QED
      BY <2>4 DEF PaidFor
  <1>4. ASSUME Written' = Written + 1, mailbox' = Written + 1, PaidFor(k)
        PROVE  PaidFor(0)'
    <2>1. Cardinality(Missed') <= Cardinality(Missed)
      BY <1>4, MissesOne
    <2>2. Cardinality(Missed) + k <= 2 * failures + misled
      BY <1>4 DEF PaidFor
    <2>3. 0 \in 0 .. k + i
      OBVIOUS
    <2>4. Cardinality(Missed') + 0 <= 2 * failures' + misled'
      BY <1>1, <2>1, <2>2, <2>3, Ledger
    <2>5. QED
      BY <2>4 DEF PaidFor
  <1>5. QED
    BY <1>2, <1>3, <1>4

(* At most one frame is not paid for, whatever the parser does.            *)
LEMMA AlwaysPaidForZero ==
  ASSUME JobInv, Recovery, ~headLost PROVE PaidFor(0)
  <1>1. Cardinality(Missed) \in Nat /\ failures \in Nat /\ misled \in Nat
    BY MissedIsFinite DEF JobInv, TypeOK
  <1>2. QED
    BY <1>1 DEF Recovery, PaidFor

(* A word that arrives.                                                     *)
LEMMA ShiftRecovers ==
  ASSUME LossInv, JobInv', ShiftWord PROVE Recovery'
  <1> USE DEF LossInv
  <1>1. /\ frames' = frames /\ failures' = failures /\ misled' = misled
        /\ headLost' = headLost /\ at # 0
        /\ at' = IF at = FrameBytes THEN 0 ELSE at + 1
    BY DEF ShiftWord, NextByte
  <1>2. at \in Nat /\ FrameBytes \in Nat \ {0} /\ Next
    BY SixHeaderBytes, PayloadAssumption DEF JobInv, TypeOK, FrameBytes, Next
  <1>3. SUFFICES ASSUME ~headLost PROVE Recovery'
    BY <1>1 DEF Recovery
  <1>4. PICK word \in Words(at) : ConsumeByte(word)
    BY <1>3, RightByte DEF JobInv
  <1>5. /\ failures \in Nat /\ misled \in Nat
        /\ failures' \in Nat /\ misled' \in Nat
        /\ 2 * failures' + misled' >= 2 * failures + misled + 0
    BY <1>1 DEF JobInv, TypeOK
  <1>6. \A k \in 0 .. 2 :
          /\ Written' = Written /\ PaidFor(k)
               => \A j \in 0 .. k + 0 : PaidFor(j)'
          /\ Written' = Written + 1 /\ PaidFor(k)
               => \A j \in 0 .. 2 : j + 1 <= k + 0 => PaidFor(j)'
          /\ Written' = Written + 1 /\ mailbox' = Written + 1 /\ PaidFor(k)
               => PaidFor(0)'
    BY <1>2, <1>5, Pays
  <1>7. CASE at = FrameBytes
    <2>1. at' = 0 /\ Written' = Written + 1 /\ Written + 1 = frames
      BY <1>1, <1>7, WrittenMoves
    <2>2. CASE PaidFor(0) /\ InStep
      <3>1. rxState' = "magic0" /\ mailbox' = frames
        BY <1>1, <1>4, <1>7, <2>2, InStepByte DEF JobInv
      <3>2. PaidFor(0)'
        BY <1>6, <2>1, <2>2, <3>1
      <3>3. QED
        BY <2>1, <3>1, <3>2 DEF Recovery, Searching
    <2>3. CASE PaidFor(1) /\ Adrift
      <3>1. rxState' \in Searching
        BY <1>1, <1>4, <1>7, <2>3, AdriftByte DEF JobInv
      <3>2. PaidFor(0)'
        BY <1>6, <2>1, <2>3
      <3>3. QED
        BY <2>1, <3>1, <3>2 DEF Recovery, Searching
    <2>4. CASE PaidFor(2)
      <3>1. PaidFor(1)'
        BY <1>6, <2>1, <2>4
      <3>2. QED
        BY <2>1, <3>1 DEF Recovery
    <2>5. QED
      BY <1>1, <1>3, <2>2, <2>3, <2>4 DEF Recovery
  <1>8. CASE at # FrameBytes
    <2>1. at' = at + 1 /\ at' # 0
      BY <1>1, <1>2, <1>8
    <2>2. Written' = Written
      BY <1>1, <2>1, WrittenMoves
    <2>3. CASE PaidFor(0) /\ InStep
      <3>1. InStep'
        BY <1>1, <1>4, <1>8, <2>1, <2>3, InStepByte DEF JobInv
      <3>2. PaidFor(0)'
        BY <1>6, <2>2, <2>3
      <3>3. QED
        BY <2>1, <3>1, <3>2 DEF Recovery
    <2>4. CASE PaidFor(1) /\ Adrift
      <3>1. Adrift'
        BY <1>1, <1>4, <1>8, <2>1, <2>4, AdriftByte DEF JobInv
      <3>2. PaidFor(1)'
        BY <1>6, <2>2, <2>4
      <3>3. QED
        BY <2>1, <3>1, <3>2 DEF Recovery
    <2>5. CASE PaidFor(2)
      <3>1. PaidFor(2)'
        BY <1>6, <2>2, <2>5
      <3>2. QED
        BY <2>1, <3>1 DEF Recovery
    <2>6. QED
      BY <1>1, <1>3, <2>3, <2>4, <2>5 DEF Recovery
  <1>9. QED
    BY <1>7, <1>8

(* A frame cut short or a byte lost.                                        *)
LEMMA FailureRecovers ==
  ASSUME LossInv, JobInv', CutFrame \/ LoseWord PROVE Recovery'
  <1> USE DEF LossInv
  <1>1. /\ frames' = frames /\ failures' = failures + 1 /\ misled' = misled
        /\ headLost => headLost' = TRUE
        /\ at # 0
    BY SixHeaderBytes, PayloadAssumption
    DEF CutFrame, LoseWord, Disturb, NextByte, JobInv, TypeOK
  <1>2. /\ failures \in Nat /\ misled \in Nat /\ Next
        /\ failures' \in Nat /\ misled' \in Nat
        /\ 2 * failures' + misled' >= 2 * failures + misled + 2
    BY <1>1 DEF JobInv, TypeOK, Next
  <1>3. CASE headLost
    BY <1>1, <1>3 DEF Recovery
  <1>4. CASE ~headLost
    <2>1. PaidFor(0)
      BY <1>4, AlwaysPaidForZero
    <2>2. /\ Written' = Written => \A j \in 0 .. 0 + 2 : PaidFor(j)'
          /\ Written' = Written + 1
               => \A j \in 0 .. 2 : j + 1 <= 0 + 2 => PaidFor(j)'
      BY <1>2, <2>1, Pays
    <2>3. CASE at # 0 /\ at' = 0
      <3>1. PaidFor(1)'
        BY <1>1, <2>2, <2>3, WrittenMoves
      <3>2. QED
        BY <2>3, <3>1 DEF Recovery
    <2>4. CASE at # 0 /\ at' # 0
      <3>1. PaidFor(2)'
        BY <1>1, <2>2, <2>4, WrittenMoves
      <3>2. QED
        BY <2>4, <3>1 DEF Recovery
    <2>5. QED
      BY <1>1, <2>3, <2>4
  <1>5. QED
    BY <1>3, <1>4

(* A new frame meets a parser that searches, one that is led astray by the *)
(* end of the last frame, or one that still wants bytes of an older one.   *)
LEMMA StartRecovers ==
  ASSUME LossInv, JobInv', StartFrame PROVE Recovery'
  <1> USE DEF LossInv
  <1>1. /\ at = 0 /\ at' = 1 /\ frames' = frames + 1 /\ failures' = failures
        /\ misled' = IF rxState = "version" THEN misled + 1 ELSE misled
        /\ UNCHANGED <<rxState, build, crcLow, headLost>>
    BY DEF StartFrame, rxVars
  <1>2. /\ failures \in Nat /\ misled \in Nat /\ Next
        /\ failures' \in Nat /\ misled' \in Nat
        /\ 2 * failures' + misled' >= 2 * failures + misled + 0
        /\ rxState = "version" =>
             2 * failures' + misled' >= 2 * failures + misled + 1
        /\ Written' = Written
    BY <1>1, WrittenMoves DEF JobInv, TypeOK, Next
  <1>3. CASE headLost
    BY <1>1, <1>3 DEF Recovery
  <1>4. CASE ~headLost
    <2>1. PaidFor(0)
      BY <1>4, AlwaysPaidForZero
    <2>2. CASE rxState \in {"magic0", "magic1"}
      <3>1. PaidFor(0)'
        BY <1>2, <2>1, Pays
      <3>2. InStep'
        BY <1>1, <2>2, PayloadAssumption DEF InStep
      <3>3. QED
        BY <1>1, <3>1, <3>2 DEF Recovery
    <2>3. CASE rxState = "version"
      <3>1. PaidFor(1)'
        BY <1>2, <2>1, <2>3, Pays
      <3>2. Adrift'
        BY <1>1, <2>3 DEF Adrift
      <3>3. QED
        BY <1>1, <3>1, <3>2 DEF Recovery
    <2>4. CASE rxState \notin Searching
      <3>1. PaidFor(1)
        BY <1>1, <1>4, <2>4 DEF Recovery, Searching
      <3>2. PaidFor(1)'
        BY <1>2, <3>1, Pays
      <3>3. Adrift'
        <4>1. Len(build) \in Nat
          BY DEF JobInv, TypeOK
        <4>2. QED
          BY <1>1, <2>4, <4>1, PayloadAssumption DEF Adrift, Searching
      <3>4. QED
        BY <1>1, <3>2, <3>3 DEF Recovery
    <2>5. QED
      BY <2>2, <2>3, <2>4 DEF Searching
  <1>5. QED
    BY <1>3, <1>4

(* Nothing is missed at the start.                                          *)
LEMMA InitLoss == Init => LossInv
  <1> SUFFICES ASSUME Init PROVE LossInv
    OBVIOUS
  <1>1. /\ frames = 0 /\ at = 0 /\ failures = 0 /\ misled = 0 /\ job = 0
        /\ rxState = "magic0"
    BY DEF Init
  <1>2. AlignInv
    BY InitTypes DEF Init, AlignInv, HeadIsDue, AlignmentIsRight
  <1>3. PaidFor(0)
    <2>1. Missed = {}
      BY <1>1 DEF Missed, Written
    <2>2. QED
      BY <1>1, <2>1, FS_EmptySet DEF PaidFor
  <1>4. QED
    BY <1>1, <1>2, <1>3, InitJob
    DEF LossInv, JobIsCounted, Recovery, Searching

(* Every step keeps the account.                                            *)
LEMMA StepLoss == LossInv /\ [Next]_vars => LossInv'
  <1> SUFFICES ASSUME LossInv, [Next]_vars PROVE LossInv'
    OBVIOUS
  <1>1. JobInv' /\ AlignInv' /\ JobIsCounted'
    BY StepJob, StepAlign, JobsStay DEF LossInv
  <1>2. CASE ShiftWord
    BY <1>1, <1>2, ShiftRecovers DEF LossInv
  <1>3. CASE CutFrame \/ LoseWord
    BY <1>1, <1>3, FailureRecovers DEF LossInv
  <1>4. CASE StartFrame
    BY <1>1, <1>4, StartRecovers DEF LossInv
  <1>5. CASE ClkEdge \/ UNCHANGED vars
    <2>1. UNCHANGED <<frames, at, rxState, build, crcLow, headLost, failures,
                      misled>>
      BY <1>5 DEF ClkEdge, vars, hostVars, rxVars, history
    <2>2. Written' = Written
      BY <2>1, WrittenMoves DEF LossInv
    <2>3. \A k \in 0 .. 2 : PaidFor(k) => PaidFor(k)'
      <3>1. failures \in Nat /\ misled \in Nat
        BY DEF LossInv, JobInv, TypeOK
      <3>2. QED
        BY <1>1, <2>1, <2>2, <3>1, MissesOne DEF LossInv, PaidFor
    <2>4. (InStep => InStep') /\ (Adrift => Adrift')
      BY <2>1 DEF InStep, Adrift
    <2>5. QED
      BY <1>1, <2>1, <2>3, <2>4 DEF LossInv, Recovery
  <1>6. QED
    BY <1>2, <1>3, <1>4, <1>5 DEF Next

(* For any payload length and any number of frames: a frame cut short or a *)
(* lost byte costs at most two jobs, an accidental magic one, and one may  *)
(* be under way.                                                           *)
THEOREM JobMailboxRecovers == Spec => []RecoversInTime
  <1>1. LossInv => RecoversInTime
    <2> SUFFICES ASSUME LossInv, ~headLost
                 PROVE  Cardinality({n \in 1 .. frames - 1 : n \notin jobs})
                          <= 2 * failures + misled + 1
      BY DEF RecoversInTime
    <2> DEFINE late == {n \in 1 .. frames - 1 : n \notin jobs}
    <2>1. late \subseteq Missed \cup {mailbox}
      BY DEF LossInv, JobInv, TypeOK, Missed, Written
    <2>2. IsFiniteSet(Missed) /\ Cardinality(Missed) \in Nat
      BY MissedIsFinite DEF LossInv
    <2> HIDE DEF late
    <2>3. /\ Cardinality(late) <= Cardinality(Missed) + 1
          /\ Cardinality(late) \in Nat
      BY <2>1, <2>2, OneMore
    <2>4. Cardinality(Missed) + 0 <= 2 * failures + misled
      BY AlwaysPaidForZero DEF LossInv, PaidFor
    <2>5. failures \in Nat /\ misled \in Nat
      BY DEF LossInv, JobInv, TypeOK
    <2>6. Cardinality(late) <= 2 * failures + misled + 1
      BY <2>2, <2>3, <2>4, <2>5
    <2>7. QED
      BY <2>6 DEF late
  <1>2. QED
    BY <1>1, InitLoss, StepLoss, PTL DEF Spec
=============================================================================
