---------------------------- MODULE ShareMailbox ----------------------------
(***************************************************************************)
(* The share mailbox of fk33_bscan_transport.sv: a frame register and a    *)
(* toggle in the clk domain, read byte by byte from the JTAG domain, with  *)
(* the consumed toggle coming back through three flip-flops.  The toggle   *)
(* and the frame are read by DRCK1 without a synchroniser, so a capture    *)
(* that falls on the clk edge that changed them may see either value in    *)
(* every flip-flop of its own.                                             *)
(*                                                                         *)
(* A byte of a frame is its position and the share it belongs to, that of  *)
(* the header the same for every share; Value is the number it stands for, *)
(* which _pop_frame reads when it takes it for a version, type or length.  *)
(* The host end is the scan loop of the server and that reassembly.        *)
(***************************************************************************)
EXTENDS Naturals, Sequences, FiniteSetsExt

CONSTANTS
  Shares,           \* shares the miner may offer
  PayloadBytes,     \* SHARE_PAYLOAD_BYTES, 37 in the code
  MaxPayload,       \* the longest payload _pop_frame believes, 4096
  Radix,            \* values of a byte, 256
  Value,            \* the number that a byte stands for
  StatusFirst,      \* the host polls USER3 before a USER1 scan
  MayFail,          \* scans may be lost and the host may restart
  Zero,             \* the content of share_frame_clk before the first share
  Header, Garbage, NoData,
  MaxShares,        \* bound: shares accepted
  MaxFailures       \* bound: lost scans and host restarts

ASSUME FrameAssumption ==
  /\ PayloadBytes \in Nat \ {0} /\ MaxPayload \in Nat /\ Radix \in Nat
  /\ PayloadBytes <= MaxPayload /\ PayloadBytes < Radix
ASSUME ModeAssumption == StatusFirst \in BOOLEAN /\ MayFail \in BOOLEAN
ASSUME SentinelAssumption ==
  /\ Zero \notin Shares /\ Header \notin Shares /\ Garbage \notin Shares
  /\ Header # Garbage /\ Zero # Header

VARIABLES
  frame, oldFrame, produced, sync, settling,                \* clk domain
  consumed, byteIndex, hadData, captured, word, scanning,   \* DRCK1 domain
  hostReady, assembly,                                      \* host
  accepted, delivered, failures, torn, misread              \* history

clkVars  == <<frame, oldFrame, produced, sync>>
jtagVars == <<consumed, byteIndex, hadData, captured, word, scanning>>
vars == <<clkVars, settling, jtagVars, hostReady, assembly,
          accepted, delivered, failures, torn, misread>>

\* make_share_frame: "F" "J", version, type, length (low byte first), then
\* the payload and its CRC.
HeaderBytes == 6
FrameBytes == HeaderBytes + PayloadBytes + 2
FRAME_VERSION == 1
FRAME_SHARE == 2

Positions == 0 .. FrameBytes - 1
Bytes == [pos : Positions, of : Shares \cup {Zero, Header, Garbage}]
Byte(f, i) ==
  [pos |-> i, of |-> IF f # Zero /\ i < HeaderBytes THEN Header ELSE f]

ASSUME NoDataAssumption == NoData \notin Bytes
ASSUME ValueAssumption ==
  /\ Value \in [Bytes -> 0 .. Radix - 1]
  /\ Value[[pos |-> 2, of |-> Header]] = FRAME_VERSION
  /\ Value[[pos |-> 3, of |-> Header]] = FRAME_SHARE
  /\ Value[[pos |-> 4, of |-> Header]] = PayloadBytes
  /\ Value[[pos |-> 5, of |-> Header]] = 0

-----------------------------------------------------------------------------
(* The clk domain.                                                         *)

ReadyIgnoringHost(consumedSeen) == TRUE
Ready(consumedSeen) == produced = consumedSeen
ShareReady == Ready(sync[3])

\* One clk edge: the synchroniser shifts, and share_valid offers s or nothing.
ClkEdge ==
  /\ sync' = <<consumed, sync[1], sync[2]>>
  /\ \/ /\ ShareReady /\ Len(accepted) < MaxShares
        /\ \E s \in Shares :
             /\ frame' = s /\ oldFrame' = frame
             /\ accepted' = Append(accepted, s)
        /\ produced' = ~produced
        /\ settling' = TRUE
     \/ /\ settling' = FALSE
        /\ UNCHANGED <<frame, oldFrame, produced, accepted>>
  /\ UNCHANGED <<jtagVars, hostReady, assembly, delivered, failures, torn,
                 misread>>

-----------------------------------------------------------------------------
(* The DRCK1 domain and the host that drives it.                           *)

\* What an unsynchronised flip-flop may sample of share_produced_clk.
Samples == IF settling THEN BOOLEAN ELSE {produced}

\* And of a byte of share_frame_clk, unless the edge left it as it was.
ByteSamples ==
  LET new == Byte(frame, byteIndex)
      old == Byte(oldFrame, byteIndex)
  IN  IF settling /\ new # old
      THEN {new, old, [pos |-> byteIndex, of |-> Garbage]}
      ELSE {new}

\* USER3: at least one outbound byte is ready.
StatusPoll ==
  /\ StatusFirst /\ ~scanning /\ ~hostReady
  /\ \E p \in Samples : hostReady' = (p # consumed)
  /\ settling' = FALSE
  /\ UNCHANGED <<clkVars, jtagVars, assembly, accepted, delivered, failures,
                 torn, misread>>

Capture ==
  /\ ~scanning /\ (StatusFirst => hostReady)
  /\ captured' \in Samples
  /\ \E p \in Samples : hadData' = (p # consumed)
  /\ \E p \in Samples, b \in ByteSamples :
       word' = IF p # consumed THEN b ELSE NoData
  /\ torn' = IF settling THEN torn + 1 ELSE torn
  /\ scanning' = TRUE
  /\ settling' = FALSE
  /\ UNCHANGED <<clkVars, consumed, byteIndex, hostReady, assembly, accepted,
                 delivered, failures, misread>>

\* The eighth shift of a scan that carried data.
LastByteEarly == byteIndex = FrameBytes - 2
LastByteLate == byteIndex = FrameBytes
LastByte == byteIndex = FrameBytes - 1
AdvanceByte ==
  /\ IF hadData
     THEN IF LastByte
          THEN byteIndex' = 0 /\ consumed' = captured
          ELSE byteIndex' = byteIndex + 1 /\ UNCHANGED consumed
     ELSE UNCHANGED <<byteIndex, consumed>>
  /\ hadData' = FALSE
  /\ scanning' = FALSE /\ hostReady' = FALSE
  /\ UNCHANGED <<captured, word>>

\* _pop_frame for a byte more.  What is before the first place where the
\* magic begins, or may begin, is dropped; a header of another version or
\* with too long a payload makes it look again behind its first byte.  Any
\* other length is believed.
IsMagic(b, i) == b = [pos |-> i, of |-> Header]
Starts(s) ==
  {i \in 1 .. Len(s) : /\ IsMagic(s[i], 0)
                       /\ i < Len(s) => IsMagic(s[i + 1], 1)}
NoSearch(s) == s
FromMagic(s) ==
  IF Starts(s) = {} THEN <<>> ELSE SubSeq(s, Min(Starts(s)), Len(s))

LengthOf(s) == Value[s[5]] + Radix * Value[s[6]]
HeaderOk(s) == Value[s[3]] = FRAME_VERSION /\ LengthOf(s) <= MaxPayload

Assemble(buffer, b) ==
  LET s == Append(buffer, b)
      t == IF Len(s) <= HeaderBytes THEN FromMagic(s) ELSE s
  IN  IF Len(t) = HeaderBytes /\ ~HeaderOk(t) THEN FromMagic(Tail(t)) ELSE t

HasHeader(buffer) == Len(buffer) >= HeaderBytes
Complete(buffer) ==
  HasHeader(buffer) /\ Len(buffer) >= HeaderBytes + LengthOf(buffer) + 2

\* The CRC covers the payload: it passes for the payload of one share only,
\* which pop_share takes from a frame of its type and length.
CrcIgnored(buffer, s) == TRUE
CrcPasses(buffer, s) ==
  \A i \in HeaderBytes + 1 .. FrameBytes : buffer[i] = Byte(s, i - 1)
IsShareFrame(buffer, s) ==
  /\ Value[buffer[4]] = FRAME_SHARE /\ LengthOf(buffer) = PayloadBytes
  /\ CrcPasses(buffer, s)

\* History: a header was believed that announces more than a share.
Misreads(buffer) ==
  ~HasHeader(assembly) /\ HasHeader(buffer) /\ LengthOf(buffer) > PayloadBytes

Receive(b) ==
  LET buffer == Assemble(assembly, b)
  IN  /\ misread' = IF Misreads(buffer) THEN misread + 1 ELSE misread
      /\ \/ /\ ~Complete(buffer)
            /\ assembly' = buffer /\ UNCHANGED delivered
         \/ /\ Complete(buffer)
            /\ assembly' = <<>>
            /\ \/ \E s \in Shares :
                    /\ IsShareFrame(buffer, s)
                    /\ delivered' = Append(delivered, s)
               \/ /\ \A s \in Shares : ~IsShareFrame(buffer, s)
                  /\ UNCHANGED delivered

ShiftByte ==
  /\ scanning
  /\ AdvanceByte
  /\ IF word = NoData THEN UNCHANGED <<assembly, delivered, misread>>
     ELSE Receive(word)
  /\ UNCHANGED <<clkVars, settling, accepted, failures, torn>>

\* The scan ended before its eighth shift: the same byte is captured again.
AbortScan ==
  /\ scanning
  /\ scanning' = FALSE /\ hostReady' = FALSE
  /\ UNCHANGED <<clkVars, settling, consumed, byteIndex, hadData, captured,
                 word, assembly, accepted, delivered, failures, torn, misread>>

Disturb ==
  /\ MayFail /\ failures < MaxFailures
  /\ failures' = failures + 1

\* The FPGA advanced, the answer never reached the host, which goes on as
\* if nothing had happened or reconnects with an empty buffer.
LoseByte ==
  /\ scanning /\ Disturb
  /\ AdvanceByte
  /\ assembly' \in {assembly, <<>>}
  /\ UNCHANGED <<clkVars, settling, accepted, delivered, torn, misread>>

\* A new host process: the FPGA keeps its byte index.
HostRestarts ==
  /\ ~scanning /\ Disturb
  /\ assembly' = <<>> /\ hostReady' = FALSE
  /\ UNCHANGED <<clkVars, settling, jtagVars, accepted, delivered, torn,
                 misread>>

-----------------------------------------------------------------------------
Init ==
  /\ frame = Zero /\ oldFrame = Zero /\ produced = FALSE
  /\ sync = [i \in 1 .. 3 |-> FALSE] /\ settling = FALSE
  /\ consumed = FALSE /\ byteIndex = 0 /\ hadData = FALSE
  /\ captured = FALSE /\ word = NoData /\ scanning = FALSE
  /\ hostReady = FALSE /\ assembly = <<>>
  /\ accepted = <<>> /\ delivered = <<>> /\ failures = 0 /\ torn = 0
  /\ misread = 0

Next ==
  \/ ClkEdge \/ StatusPoll \/ Capture \/ ShiftByte \/ AbortScan
  \/ LoseByte \/ HostRestarts

Spec == Init /\ [][Next]_vars

\* The host polls forever and not every scan is aborted; the clock runs.
FairSpec ==
  /\ Spec
  /\ WF_vars(StatusPoll) /\ WF_vars(Capture) /\ SF_vars(ShiftByte)
  /\ WF_vars(ClkEdge)

-----------------------------------------------------------------------------
(* Properties.                                                             *)

TypeOK ==
  /\ frame \in Shares \cup {Zero} /\ oldFrame \in Shares \cup {Zero}
  /\ produced \in BOOLEAN /\ settling \in BOOLEAN
  /\ sync \in [1 .. 3 -> BOOLEAN]
  /\ consumed \in BOOLEAN /\ byteIndex \in Positions /\ hadData \in BOOLEAN
  /\ captured \in BOOLEAN /\ word \in Bytes \cup {NoData}
  /\ scanning \in BOOLEAN /\ hostReady \in BOOLEAN
  /\ assembly \in Seq(Bytes)
  /\ accepted \in Seq(Shares) /\ delivered \in Seq(Shares)
  /\ failures \in Nat /\ torn \in Nat /\ misread \in Nat

(* The miner never overwrites a frame that the host has begun to read.     *)
NoOverwrite ==
  [][byteIndex > 0 \/ hadData => UNCHANGED <<frame, produced>>]_clkVars

(* share_ready and the byte index together make the mailbox a one-share    *)
(* channel that loses, repeats and reorders nothing.                       *)
Slot == INSTANCE ShareSlot
ImplementsSlot == Slot!Spec

(* A share that was taken from the miner reaches the host, however often   *)
(* a scan is cut short.                                                    *)
EveryShareArrives == (accepted # delivered) ~> (accepted = delivered)

(* Whatever is lost or torn, the host is never given a share that was not  *)
(* put, twice the same one, or two in the wrong order.                     *)
DeliveredInOrder ==
  \E f \in [DOMAIN delivered -> DOMAIN accepted] :
    /\ \A i \in DOMAIN delivered : delivered[i] = accepted[f[i]]
    /\ \A i, j \in DOMAIN delivered : i < j => f[i] < f[j]

(* The framing recovers: a failure or a torn capture costs the frame it    *)
(* falls in and at most the next one, beyond the share still in flight.    *)
(* Where a byte of the header is lost, what follows it is read as a        *)
(* length, and up to MaxPayload bytes are believed: that costs the frames  *)
(* the false length reaches over, at most 91 in the code, and happens at   *)
(* most once for each failure.                                             *)
Reach == (MaxPayload - PayloadBytes + FrameBytes - 1) \div FrameBytes
LossIsBounded ==
  /\ Len(accepted)
       <= Len(delivered) + 2 * (failures + torn) + Reach * misread + 1
  /\ misread <= failures
=============================================================================
