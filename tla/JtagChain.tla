------------------------------ MODULE JtagChain ------------------------------
(***************************************************************************)
(* The JTAG chain of a JCM33 carrier, clock by clock: two FPGAs share TMS, *)
(* and their data registers lie one behind the other between TDI and TDO.  *)
(* Every XVC request is one program of TMS and TDI bits that the host has  *)
(* built in advance (jcm33_ir_lane_calibration.py, and the transport of    *)
(* jcm33_btc3_dual_miner.py that uses it); here it is the sequence of the  *)
(* resets and scans it was built of.  Lane 0 is next to TDO.               *)
(*                                                                         *)
(* The server may lose a request after any clock and leaves the chain as   *)
(* it then is; the next connection starts there.  Bytes, instruction and   *)
(* ID registers are shorter than in the hardware, their order is the same. *)
(***************************************************************************)
EXTENDS Naturals, Sequences, FiniteSets

CONSTANTS
  IrBits,       \* IR_CELL_BITS, 6 in the code
  ByteBits,     \* 8 in the code
  Idcode,       \* EXPECTED_IDCODE as a sequence of bits
  Probe,        \* the random bits that measure_ir_delay shifts through
  Frames,       \* the frame for each lane, a sequence of bytes
  Outbox,       \* the bytes each card has for the host
  ReadScans,    \* READ_SCANS
  IdleClocks,   \* IDLE_CLOCKS
  MaxRequests   \* bound: XVC requests

LaneCount == 2
Lanes == 0 .. LaneCount - 1
Bit == {0, 1}
Byte == [1 .. ByteBits -> Bit]
ASSUME WidthAssumption ==
  /\ IrBits \in Nat /\ IrBits >= 3
  /\ ByteBits \in Nat \ {0}
  /\ ReadScans \in Nat /\ MaxRequests \in Nat
  /\ IdleClocks \in Nat \ {0}
ASSUME PatternAssumption ==
  /\ Idcode \in Seq(Bit) /\ Idcode # <<>>
  /\ Probe \in Seq(Bit) /\ Len(Probe) >= LaneCount * IrBits
ASSUME FramesAssumption ==
  Frames \in [Lanes -> Seq(Byte)] /\ Outbox \in [Lanes -> Seq(Byte)]

VARIABLES
  tap, instr, dr,          \* the TAPs, in step; instruction and register
  word, inbox,             \* USER2: bits of this scan, words received
  due, outbox,             \* USER1: shifts until the next byte, bytes left
  client, stage, request,  \* the host
  op, at, tdo,             \* what is shifted next; the read windows so far
  write, stock,            \* history: last write, bytes left at the request
  misread, requests        \* a calibration was cut; requests made

tapVars  == <<tap, instr, dr>>
cardVars == <<word, inbox, due, outbox>>
history  == <<write, stock, misread, requests>>
vars == <<tapVars, cardVars, client, stage, request, op, at, tdo, history>>

-----------------------------------------------------------------------------
(* TapProgram: a sequence of operations, each a number of clocks.          *)

Zeros(n) == [i \in 1 .. n |-> 0]
Ones(n) == [i \in 1 .. n |-> 1]
Opcode == [BYPASS |-> Ones(IrBits), USER1 |-> <<0, 1>> \o Zeros(IrBits - 2),
           USER2 |-> <<1, 1>> \o Zeros(IrBits - 2)]

\* TMS before the bits of an operation; a scan ends with <<1, 0>> behind them.
Lead == [tlr |-> <<1, 1, 1, 1, 1, 1>>, reset |-> <<1, 1, 1, 1, 1, 1, 0>>,
         idle |-> Zeros(IdleClocks),
         ir |-> <<1, 1, 0, 0>>, dr |-> <<1, 0, 0>>]
LeadOf(o) == Len(Lead[o.kind])
IsScan(o) == o.kind \in {"ir", "dr"}
Clocks(o) == LeadOf(o) + (IF IsScan(o) THEN Len(o.bits) + 2 ELSE 0)
Tms(o, a) ==
  IF a <= LeadOf(o) THEN Lead[o.kind][a]
  ELSE IF a - LeadOf(o) \in {Len(o.bits), Len(o.bits) + 1} THEN 1 ELSE 0
Shifting(o, a) == IsScan(o) /\ a - LeadOf(o) \in 1 .. Len(o.bits)
Tdi(o, a) == IF Shifting(o, a) THEN o.bits[a - LeadOf(o)] ELSE 0

Op(kind, bits, read) == [kind |-> kind, bits |-> bits, read |-> read]
TapReset == Op("tlr", <<>>, FALSE)
ResetToIdle == Op("reset", <<>>, FALSE)
Idle == Op("idle", <<>>, FALSE)

\* The first cell shifted in ends up next to TDO.
IrStream(lane, instruction) ==
  IF lane = 0 THEN Opcode[instruction] \o Opcode["BYPASS"]
  ELSE Opcode["BYPASS"] \o Opcode[instruction]
SetIrLane(lane, instruction) == Op("ir", IrStream(lane, instruction), FALSE)

ScanDr(bits, read) == Op("dr", bits, read)

\* Read scans carry no data and are as wide as all registers together.
ReadWidth == LaneCount + ByteBits
ReadBytes == [i \in 1 .. ReadScans |-> ScanDr(Zeros(ReadWidth), TRUE)]

\* The dual miner puts the bypass bit behind every byte.
Headpad(byte) == <<0>> \o byte
Tailpad(byte) == Append(byte, 0)
WriteBytes(lane) ==
  [i \in 1 .. Len(Frames[lane]) |-> ScanDr(Tailpad(Frames[lane][i]), FALSE)]
PerByteWrite(lane) ==
  <<ResetToIdle, SetIrLane(lane, "USER2")>> \o WriteBytes(lane)
    \o <<Idle, ResetToIdle>>

LaneRead(lane) ==
  <<ResetToIdle, SetIrLane(lane, "USER1")>> \o ReadBytes \o <<ResetToIdle>>

\* The calibration pads on both sides and reads back in the same program.
LanePad(lane, byte) == Zeros(lane) \o byte \o Zeros(LaneCount - lane - 1)
PaddedBytes(lane) ==
  [i \in 1 .. Len(Frames[lane]) |->
     ScanDr(LanePad(lane, Frames[lane][i]), FALSE)]
LaneJobAck(lane) ==
  <<ResetToIdle, SetIrLane(lane, "USER2")>> \o PaddedBytes(lane)
    \o <<Idle, SetIrLane(lane, "USER1")>> \o ReadBytes \o <<ResetToIdle>>

\* tap_reset and the zero that follows are one ResetToIdle.
ScanResetIdcodes ==
  <<ResetToIdle, ScanDr(Zeros(LaneCount * Len(Idcode)), TRUE)>>

\* The ones behind the probe leave every cell in BYPASS.
ProbeThenZeros == Probe \o Zeros(Len(Probe))
ProbeStream == Probe \o Ones(Len(Probe))
MeasureIrDelay == <<ResetToIdle, Op("ir", ProbeStream, TRUE)>>

Req(kind, lane) == [kind |-> kind, lane |-> lane]
LaneRequests == [kind : {"read", "ack"}, lane : Lanes]
Requests == [kind : {"idcodes", "irdelay", "pair", "reset"}, lane : {0}]
            \cup LaneRequests
NoRequest == Req("none", 0)
Program ==
  [r \in Requests |->
     CASE r.kind = "idcodes" -> ScanResetIdcodes
       [] r.kind = "irdelay" -> MeasureIrDelay
       [] r.kind = "pair" -> PerByteWrite(0) \o PerByteWrite(1)
       [] r.kind = "read" -> LaneRead(r.lane)
       [] r.kind = "ack" -> LaneJobAck(r.lane)
       [] r.kind = "reset" -> <<TapReset>>]

-----------------------------------------------------------------------------
(* What the host makes of the TDO bits of its read windows.                *)

OffsetZero(lane) == 0
ReadOffset(lane) == lane

\* extract_valid_bytes: the windows whose empty flag is clear, in order.
WordAt(k, offset) == SubSeq(tdo[k], offset + 1, offset + ByteBits + 1)
ExtractValidBytes(offset) ==
  LET valid == {k \in DOMAIN tdo : WordAt(k, offset)[ByteBits + 1] = 0}
      nth(i) == CHOOSE k \in valid : Cardinality({j \in valid : j <= k}) = i
  IN  [i \in 1 .. Cardinality(valid) |->
         SubSeq(WordAt(nth(i), offset), 1, ByteBits)]

IdcodesExpected == tdo[1] = Idcode \o Idcode

IrDelays ==
  {d \in 1 .. Len(Probe) : SubSeq(tdo[1], d + 1, d + Len(Probe)) = Probe}

-----------------------------------------------------------------------------
(* One clock of the chain.                                                 *)

\* The state after a clock with TMS low and with TMS high.
TapNext ==
  [TLR |-> <<"RTI", "TLR">>,         RTI |-> <<"RTI", "SelDR">>,
   SelDR |-> <<"CapDR", "SelIR">>,   SelIR |-> <<"CapIR", "TLR">>,
   CapDR |-> <<"ShDR", "Ex1DR">>,    CapIR |-> <<"ShIR", "Ex1IR">>,
   ShDR |-> <<"ShDR", "Ex1DR">>,     ShIR |-> <<"ShIR", "Ex1IR">>,
   Ex1DR |-> <<"PauDR", "UpdDR">>,   Ex1IR |-> <<"PauIR", "UpdIR">>,
   PauDR |-> <<"PauDR", "Ex2DR">>,   PauIR |-> <<"PauIR", "Ex2IR">>,
   Ex2DR |-> <<"ShDR", "UpdDR">>,    Ex2IR |-> <<"ShIR", "UpdIR">>,
   UpdDR |-> <<"RTI", "SelDR">>,     UpdIR |-> <<"RTI", "SelDR">>]

Decode(bits) ==
  IF \E i \in DOMAIN Opcode : Opcode[i] = bits
  THEN CHOOSE i \in DOMAIN Opcode : Opcode[i] = bits
  ELSE "OTHER"

CapturedDr(l) ==
  CASE instr[l] = "IDCODE" -> Idcode
    [] instr[l] = "USER1" -> IF outbox[l] # <<>> THEN Append(Head(outbox[l]), 0)
                             ELSE Append(Zeros(ByteBits), 1)
    [] OTHER -> <<0>>
CapturedIr == <<1>> \o Zeros(IrBits - 1)

\* What measure_ir_delay reads back shows the probe at one place only, which
\* self_test asserts of the random bits of the code.
IrAnswer == CapturedIr \o CapturedIr \o Probe \o Ones(Len(Probe))
ASSUME ProbeAssumption ==
  \A d \in 1 .. Len(Probe) :
    SubSeq(IrAnswer, d + 1, d + Len(Probe)) = Probe => d = LaneCount * IrBits

\* What enters the register of lane l; user logic passes nothing on.
Enters(l, tdi) == IF l = LaneCount - 1 THEN tdi ELSE Head(dr[l + 1])
ShiftedDr(l, bit) ==
  Append(Tail(dr[l]), IF instr[l] \in {"USER1", "USER2"} THEN 0 ELSE bit)

Capture ==
  /\ tap = "CapDR"
  /\ dr' = [l \in Lanes |-> CapturedDr(l)]
  /\ word' = [l \in Lanes |-> IF instr[l] = "USER2" THEN <<>> ELSE word[l]]
  /\ due' = [l \in Lanes |->
               IF instr[l] # "USER1" THEN due[l]
               ELSE IF outbox[l] # <<>> THEN ByteBits ELSE 0]
  /\ UNCHANGED <<instr, inbox, outbox>>

\* USER2 hands over a word on its ninth shift, USER1 advances on its eighth.
WordAfter(l, tdi) == Append(word[l], Enters(l, tdi))
WordComplete(l) == instr[l] = "USER2" /\ Len(word[l]) = ByteBits
ByteTaken(l) == instr[l] = "USER1" /\ due[l] = 1

Shift(tdi) ==
  /\ tap = "ShDR"
  /\ dr' = [l \in Lanes |-> ShiftedDr(l, Enters(l, tdi))]
  /\ word' = [l \in Lanes |-> IF instr[l] # "USER2" THEN word[l]
                              ELSE IF WordComplete(l) THEN <<>>
                              ELSE WordAfter(l, tdi)]
  /\ inbox' = [l \in Lanes |-> IF WordComplete(l)
                               THEN Append(inbox[l], WordAfter(l, tdi))
                               ELSE inbox[l]]
  /\ due' = [l \in Lanes |-> IF instr[l] = "USER1" /\ due[l] > 0
                             THEN due[l] - 1 ELSE due[l]]
  /\ outbox' = [l \in Lanes |-> IF ByteTaken(l) THEN Tail(outbox[l])
                                ELSE outbox[l]]
  /\ UNCHANGED instr

InstructionStep(tdi) ==
  /\ tap \notin {"CapDR", "ShDR"}
  /\ dr' = CASE tap = "CapIR" -> [l \in Lanes |-> CapturedIr]
             [] tap = "ShIR" -> [l \in Lanes |->
                                   Append(Tail(dr[l]), Enters(l, tdi))]
             [] OTHER -> dr
  /\ instr' = CASE tap = "TLR" -> [l \in Lanes |-> "IDCODE"]
                [] tap = "UpdIR" -> [l \in Lanes |-> Decode(dr[l])]
                [] OTHER -> instr
  /\ UNCHANGED cardVars

\* The bit at TDO goes to the window of its scan.
Record(o) ==
  tdo' = IF ~(o.read /\ Shifting(o, at)) THEN tdo
         ELSE IF at = LeadOf(o) + 1 THEN Append(tdo, <<Head(dr[0])>>)
         ELSE [tdo EXCEPT ![Len(tdo)] = Append(@, Head(dr[0]))]

Clock ==
  /\ request # NoRequest /\ op \in DOMAIN Program[request]
  /\ LET o == Program[request][op]
     IN  /\ Capture \/ Shift(Tdi(o, at)) \/ InstructionStep(Tdi(o, at))
         /\ tap' = TapNext[tap][Tms(o, at) + 1]
         /\ Record(o)
         /\ IF at < Clocks(o) THEN op' = op /\ at' = at + 1
            ELSE op' = op + 1 /\ at' = 1
  /\ UNCHANGED <<client, stage, request, history>>

-----------------------------------------------------------------------------
(* The host: HardwareTransport of the miner, or main of the calibration.   *)

\* What a card is to see: the bypass bit before the byte near TDO, after it
\* near TDI; the padding of the calibration puts it before the byte in both.
Low(byte) == Append(byte, 0)
High(byte) == <<0>> \o byte
WordsFor(r, l) ==
  CASE r.kind = "pair" -> [i \in DOMAIN Frames[l] |->
                             IF l = 0 THEN High(Frames[l][i])
                             ELSE Low(Frames[l][i])]
    [] r = Req("ack", l) -> [i \in DOMAIN Frames[l] |-> High(Frames[l][i])]
    [] OTHER -> <<>>

IsWrite(r) == r.kind \in {"pair", "ack"}
Begin(r) ==
  /\ request' = r /\ op' = 1 /\ at' = 1 /\ tdo' = <<>>
  /\ requests < MaxRequests /\ requests' = requests + 1
  /\ stock' = outbox
  /\ IF IsWrite(r)
     THEN write' = r /\ inbox' = [l \in Lanes |-> <<>>] /\ misread' = FALSE
     ELSE UNCHANGED <<write, inbox, misread>>
  /\ UNCHANGED <<tapVars, word, due, outbox>>
NoMore == request' = NoRequest /\ op' = 0 /\ at' = 0 /\ tdo' = <<>>

\* Both begin with the IDs; the miner connects again after a failure.
Connect ==
  /\ stage = "closed"
  /\ client' \in {"miner", "calibration"}
  /\ stage' = "idcodes" /\ Begin(Req("idcodes", 0))

Answered == request # NoRequest /\ op = Len(Program[request]) + 1

CheckIdcodes ==
  /\ stage = "idcodes" /\ Answered /\ IdcodesExpected
  /\ stage' = "irdelay" /\ Begin(Req("irdelay", 0))
  /\ UNCHANGED client

\* The miner goes on with any request, the calibration with lane 0.
Follows(r) ==
  \/ client = "miner" /\ r.kind \in {"pair", "read"}
  \/ client = "calibration" /\ request.kind = "irdelay" /\ r = Req("ack", 0)
  \/ /\ client = "calibration" /\ request.kind = "ack"
     /\ r = IF request.lane + 1 \in Lanes THEN Req("ack", request.lane + 1)
            ELSE Req("reset", 0)

CheckIrDelay ==
  /\ stage = "irdelay" /\ Answered /\ IrDelays = {LaneCount * IrBits}
  /\ stage' = "open"
  /\ \E r \in Requests : Follows(r) /\ Begin(r)
  /\ UNCHANGED client

GoOn ==
  /\ stage = "open" /\ Answered /\ request.kind # "reset"
  /\ \E r \in Requests : Follows(r) /\ Begin(r)
  /\ UNCHANGED <<client, stage>>

Finish ==
  /\ stage = "open" /\ Answered /\ request.kind = "reset"
  /\ stage' = "closed" /\ NoMore
  /\ UNCHANGED <<tapVars, cardVars, client, history>>

\* The request fails wherever it is: OSError, or a server that is gone.
Cut ==
  /\ request # NoRequest
  /\ stage' = "closed" /\ NoMore
  /\ misread' = (misread \/ request.kind = "ack")
  /\ UNCHANGED <<tapVars, cardVars, client, write, stock, requests>>

-----------------------------------------------------------------------------
\* "starting from an unknown TAP state"; the registers hold anything.
Init ==
  /\ tap \in DOMAIN TapNext
  /\ instr \in [Lanes -> {"IDCODE", "BYPASS"}]
  /\ dr = [l \in Lanes |-> <<0>>]
  /\ word = [l \in Lanes |-> <<>>] /\ inbox = [l \in Lanes |-> <<>>]
  /\ due = [l \in Lanes |-> 0] /\ outbox = Outbox
  /\ client = "miner" /\ stage = "closed" /\ request = NoRequest
  /\ op = 0 /\ at = 0 /\ tdo = <<>>
  /\ write = NoRequest /\ stock = Outbox
  /\ misread = FALSE /\ requests = 0

Next ==
  \/ Connect \/ CheckIdcodes \/ CheckIrDelay \/ GoOn \/ Finish
  \/ Clock \/ Cut

Spec == Init /\ [][Next]_vars
-----------------------------------------------------------------------------
(* Properties.                                                             *)

StartsWith(t, s) == Len(s) <= Len(t) /\ s = SubSeq(t, 1, Len(s))

(* What a card receives since a write began is a beginning of the words    *)
(* for its own lane, with the bypass bit where the transport expects it,   *)
(* and nothing else, wherever this or a later request breaks off; a write  *)
(* that is answered has delivered its whole frames.  (A calibration that   *)
(* was cut may leave one word that is wrong.)                              *)
WritesArrive ==
  \A l \in Lanes :
    /\ ~misread => StartsWith(WordsFor(write, l), inbox[l])
    /\ Answered /\ request = write => inbox[l] = WordsFor(write, l)

(* The host reads at the offset of a lane exactly the bytes that left this *)
(* card during the request; the other card, and both during any other      *)
(* request of an open chain, keep theirs.                                  *)
BytesOf(l) ==
  IF request \in LaneRequests /\ request.lane = l
  THEN ExtractValidBytes(ReadOffset(l)) ELSE <<>>
ReadsExact ==
  stage = "open" /\ Answered =>
    \A l \in Lanes : stock[l] = BytesOf(l) \o outbox[l]

(* A healthy chain passes the checks of connect from any TAP state, its    *)
(* captured cells show where the instruction registers begin, and every    *)
(* device is left in BYPASS.                                               *)
CaptureMarkers ==
  {offset \in {i * IrBits : i \in 0 .. LaneCount - 1} :
     tdo[1][offset + 1] = 1 /\ tdo[1][offset + 2] = 0}
ChainMeasured ==
  /\ Answered /\ request.kind = "idcodes" => IdcodesExpected
  /\ Answered /\ request.kind = "irdelay" =>
       /\ IrDelays = {LaneCount * IrBits}
       /\ CaptureMarkers = {i * IrBits : i \in Lanes}
       /\ instr = [l \in Lanes |-> "BYPASS"]
=============================================================================
