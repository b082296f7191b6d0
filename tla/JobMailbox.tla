----------------------------- MODULE JobMailbox -----------------------------
(***************************************************************************)
(* USER2 of the BSCAN transport: bytes of job frames arrive in the DRCK2   *)
(* domain, consume_job_byte parses them, and an accepted job crosses to    *)
(* the 200 MHz domain as a wide bus beside a toggle.  On a JCM33 a byte    *)
(* comes as a nine-bit word, and the parser learns from the first "F"      *)
(* which eight of them to take; an FK33, where a word is a byte, is the    *)
(* case that knows from the start.                                         *)
(*                                                                         *)
(* A byte is the frame it belongs to, its position there, and what it      *)
(* looks like to the parser, in the right slice of its word and in the     *)
(* wrong one.  Bytes of payload and CRC may look like the magic "FJ", but  *)
(* a payload that shows a whole header (six bytes) is left out.            *)
(***************************************************************************)
EXTENDS Naturals, Sequences, FiniteSets

CONSTANTS
  PayloadBytes,   \* JOB_PAYLOAD_BYTES, 109 in the code
  Mixed,          \* a mixture of two values of the job bus
  MaxFrames,      \* bound: frames written
  MaxFailures     \* bound: frames cut short and bytes lost

ASSUME PayloadAssumption == PayloadBytes \in Nat \ {0}
ASSUME MixedAssumption == Mixed \notin Nat

VARIABLES
  frames, at,                              \* host: frame and next byte, or 0
  position, alignment,                     \* the right slice, the slice taken
  rxState, build, crcLow,                  \* the parser
  mailbox, toggle, oldMailbox, fresh,      \* what it hands over
  bus, sync, seen, job, jobPulse,          \* the clk domain
  ticked,                                  \* a clk edge since the last byte
  intact, headLost, misled,                \* history
  failures, whole, jobs

hostVars == <<frames, at>>
rxVars   == <<position, alignment, rxState, build, crcLow>>
boxVars  == <<mailbox, toggle, oldMailbox, fresh>>
clkVars  == <<bus, sync, seen, job, jobPulse>>
history  == <<intact, headLost, misled, failures, whole, jobs>>
vars == <<hostVars, rxVars, boxVars, clkVars, ticked, history>>

Header == <<"F", "J", "1", "1", "L", "0">>
HeaderBytes == Len(Header)
FrameBytes == HeaderBytes + PayloadBytes + 2
Slices == {"low", "high"}

\* encode_frame, and what the other slice of the word shows.
Looks(pos) == IF pos <= HeaderBytes THEN {Header[pos]} ELSE {"F", "J", "other"}
Misreads(pos) ==
  IF pos <= HeaderBytes THEN {"other"} ELSE {"F", "J", "other"}
Words(pos) ==
  [of : {frames}, pos : {pos}, look : Looks(pos), misread : Misreads(pos)]

-----------------------------------------------------------------------------
(* consume_job_byte.                                                       *)

Expected == [magic0 |-> "F", magic1 |-> "J", version |-> "1", type |-> "1",
             len0 |-> "L", len1 |-> "0"]
Following == [magic0 |-> "magic1", magic1 |-> "version", version |-> "type",
              type |-> "len0", len0 |-> "len1", len1 |-> "payload"]
Hunting == {"magic0", "magic1", "version", "type", "len0", "len1"}
RxStates == Hunting \cup {"payload", "crc0", "crc1"}

\* A byte that does not fit ends the hunt, but "FF" keeps it.
HuntFromStart(byte) == "magic0"
HuntAgain(byte) ==
  IF rxState = "magic1" /\ byte.look = "F" THEN "magic1" ELSE "magic0"

Hunt(byte) ==
  /\ rxState \in Hunting
  /\ rxState' = IF byte.look = Expected[rxState] THEN Following[rxState]
                ELSE HuntAgain(byte)
  /\ build' = IF rxState' = "payload" THEN <<>> ELSE build
  /\ UNCHANGED <<crcLow, boxVars>>

Id(byte) == <<byte.of, byte.pos>>

LastPayloadLate == Len(build) = PayloadBytes
LastPayload == Len(build) = PayloadBytes - 1
FillPayload(byte) ==
  /\ rxState = "payload"
  /\ build' = Append(build, Id(byte))
  /\ rxState' = IF LastPayload THEN "crc0" ELSE "payload"
  /\ UNCHANGED <<crcLow, boxVars>>

TakeCrcLow(byte) ==
  /\ rxState = "crc0"
  /\ crcLow' = Id(byte) /\ rxState' = "crc1"
  /\ UNCHANGED <<build, boxVars>>

Payload(n) == [i \in 1 .. PayloadBytes |-> <<n, HeaderBytes + i>>]
BuiltFrom == build[1][1]
BuiltJob == IF build = Payload(BuiltFrom) THEN BuiltFrom ELSE Mixed

\* The CRC passes for the payload and the CRC bytes of one frame only.
CrcIgnored(byte) == TRUE
CrcPasses(byte) ==
  /\ build = Payload(BuiltFrom)
  /\ crcLow = <<BuiltFrom, FrameBytes - 1>>
  /\ Id(byte) = <<BuiltFrom, FrameBytes>>

TakeCrcHigh(byte) ==
  /\ rxState = "crc1"
  /\ rxState' = "magic0"
  /\ IF CrcPasses(byte)
     THEN /\ mailbox' = BuiltJob /\ toggle' = ~toggle
          /\ oldMailbox' = mailbox /\ fresh' = TRUE
     ELSE UNCHANGED boxVars
  /\ UNCHANGED <<build, crcLow>>

ConsumeByte(byte) ==
  Hunt(byte) \/ FillPayload(byte) \/ TakeCrcLow(byte) \/ TakeCrcHigh(byte)

\* A word as one of its slices shows it.
Slice(word, slice) ==
  IF slice = position THEN word
  ELSE [word EXCEPT !.of = 0, !.pos = 0, !.look = word.misread]

\* The ninth bit: take the known slice, or learn it from an "F".
AlwaysLow(word) == {"low"}
Candidates(word) == {s \in Slices : Slice(word, s).look = "F"}
ReceiveWord(word) ==
  \/ /\ alignment # "unknown"
     /\ ConsumeByte(Slice(word, alignment))
     /\ UNCHANGED alignment
  \/ /\ alignment = "unknown"
     /\ \E s \in Candidates(word) :
          /\ s = "high" => "low" \notin Candidates(word)
          /\ alignment' = s
          /\ ConsumeByte(Slice(word, s))
  \/ /\ alignment = "unknown" /\ Candidates(word) = {}
     /\ UNCHANGED <<alignment, rxState, build, crcLow, boxVars>>

-----------------------------------------------------------------------------
(* The host and the server write frames; a scan shifts one word.           *)

StartFrame ==
  /\ at = 0 /\ frames < MaxFrames
  /\ frames' = frames + 1 /\ at' = 1
  /\ intact' = (rxState \in {"magic0", "magic1"})
  /\ misled' = IF rxState = "version" THEN misled + 1 ELSE misled
  /\ UNCHANGED <<rxVars, boxVars, clkVars, ticked, headLost, failures, whole,
                 jobs>>

NextByte == at' = IF at = FrameBytes THEN 0 ELSE at + 1

\* Eight or nine TCK cycles: the faster clk has had an edge since the last.
ShiftWord ==
  /\ at # 0 /\ ticked
  /\ \E word \in Words(at) : ReceiveWord(word)
  /\ NextByte
  /\ whole' = IF at = FrameBytes /\ intact THEN whole \cup {frames} ELSE whole
  /\ ticked' = FALSE
  /\ UNCHANGED <<frames, position, clkVars, intact, headLost, misled, failures,
                 jobs>>

Disturb ==
  /\ failures < MaxFailures
  /\ failures' = failures + 1 /\ intact' = FALSE
  /\ UNCHANGED misled

\* sendall fails half way through a frame; the next connection starts anew.
CutFrame ==
  /\ at > 1 /\ Disturb
  /\ at' = 0
  /\ UNCHANGED <<frames, rxVars, boxVars, clkVars, ticked, headLost, whole,
                 jobs>>

\* A scan that ends before its last bit: the next capture clears the count.
LoseWord ==
  /\ at # 0 /\ Disturb
  /\ NextByte
  /\ headLost' = (headLost \/ alignment = "unknown")
  /\ UNCHANGED <<frames, rxVars, boxVars, clkVars, ticked, whole, jobs>>

-----------------------------------------------------------------------------
(* The clk domain.                                                         *)

ToggleSamples == IF fresh THEN BOOLEAN ELSE {toggle}
BusSamples == IF fresh THEN {mailbox, oldMailbox, Mixed} ELSE {mailbox}

TwoStageToggle == sync[2]
ToggleOut == sync[3]

ClkEdge ==
  /\ \E t \in ToggleSamples : sync' = <<t, sync[1], sync[2]>>
  /\ \E b \in BusSamples : bus' = <<b, bus[1]>>
  /\ seen' = ToggleOut
  /\ jobPulse' = (ToggleOut # seen)
  /\ IF ToggleOut # seen
     THEN job' = bus[2] /\ jobs' = jobs \cup {bus[2]}
     ELSE UNCHANGED <<job, jobs>>
  /\ fresh' = FALSE /\ oldMailbox' = 0
  /\ ticked' = TRUE
  /\ UNCHANGED <<hostVars, rxVars, mailbox, toggle, intact, headLost,
                 misled, failures, whole>>

-----------------------------------------------------------------------------
\* A JCM33 starts without an alignment, an FK33 needs none.
Init ==
  /\ frames = 0 /\ at = 0
  /\ position \in Slices /\ alignment \in {"unknown", position}
  /\ rxState = "magic0" /\ build = <<>> /\ crcLow = <<0, 0>>
  /\ mailbox = 0 /\ toggle = FALSE /\ oldMailbox = 0 /\ fresh = FALSE
  /\ bus = <<0, 0>> /\ sync = [i \in 1 .. 3 |-> FALSE] /\ seen = FALSE
  /\ job = 0 /\ jobPulse = FALSE /\ ticked = TRUE
  /\ intact = FALSE /\ headLost = FALSE /\ misled = 0
  /\ failures = 0 /\ whole = {} /\ jobs = {}

Next == StartFrame \/ ShiftWord \/ CutFrame \/ LoseWord \/ ClkEdge

Spec == Init /\ [][Next]_vars

\* The clock runs, and a frame that was begun is written to its end.
FairSpec == Spec /\ WF_vars(ClkEdge) /\ WF_vars(ShiftWord)

-----------------------------------------------------------------------------
(* Properties.                                                             *)

TypeOK ==
  /\ frames \in Nat /\ at \in 0 .. FrameBytes
  /\ position \in Slices /\ alignment \in Slices \cup {"unknown"}
  /\ rxState \in RxStates
  /\ build \in Seq(Nat \X Nat) /\ Len(build) <= PayloadBytes
  /\ rxState = "payload" => Len(build) < PayloadBytes
  /\ crcLow \in Nat \X Nat
  /\ mailbox \in Nat /\ oldMailbox \in Nat
  /\ toggle \in BOOLEAN /\ fresh \in BOOLEAN
  /\ bus \in [1 .. 2 -> Nat \cup {Mixed}]
  /\ sync \in [1 .. 3 -> BOOLEAN] /\ seen \in BOOLEAN
  /\ job \in Nat \cup {Mixed} /\ jobPulse \in BOOLEAN
  /\ ticked \in BOOLEAN /\ intact \in BOOLEAN /\ headLost \in BOOLEAN
  /\ misled \in Nat /\ failures \in Nat
  /\ whole \subseteq Nat /\ jobs \subseteq Nat \cup {Mixed}

(* Whatever is cut short, lost or misread, the job registers only ever     *)
(* move to a later frame of the host, never to a mixture of two, to a      *)
(* frame that was not written, or back.                                    *)
Channel == INSTANCE JobChannel
ImplementsChannel == Channel!Spec

(* Comment on the nine-bit word in the JCM33 transport: the slice is       *)
(* locked "from the leading FJ magic".  It is the right one for good,      *)
(* unless the head of the very first frame is lost.                        *)
AlignmentIsRight == ~headLost => alignment \in {"unknown", position}

(* A frame whose head finds the parser hunting for it, after noise or an   *)
(* "F" too, and whose bytes all arrive becomes the job, or a later one.    *)
WholeFrameArrives ==
  \A n \in 1 .. MaxFrames :
    (n \in whole /\ ~headLost) ~> (job # Mixed /\ job >= n)

(* The parser recovers: a frame cut short or a lost byte costs the frame   *)
(* it falls in and at most the next, beyond the one under way, and one     *)
(* more only for each frame that ends in an accidental "FJ".               *)
RecoversInTime ==
  headLost \/ Cardinality({n \in 1 .. frames - 1 : n \notin jobs})
                <= 2 * failures + misled + 1
=============================================================================
