-------------------------- MODULE JtagChainProofs --------------------------
(***************************************************************************)
(* Proofs about the JTAG chain of a JCM33 for registers and bytes of every *)
(* width, frames of every length and any number of requests that break off *)
(* at any clock: a byte reaches the lane it is meant for and no other.     *)
(***************************************************************************)
EXTENDS JtagChain, SequenceTheorems, FiniteSetTheorems, TLAPS

-----------------------------------------------------------------------------
(* What a request has done before its n-th operation.                      *)

FrameLen(l) == Len(Frames[l])
HalfPair == FrameLen(0) + 4      \* operations that write to lane 0
UpTo(i, most) == IF i < 0 THEN 0 ELSE IF i > most THEN most ELSE i

WordsDone(r, n, l) ==
  CASE r.kind = "pair" ->
         UpTo(IF l = 0 THEN n - 3 ELSE n - HalfPair - 3, FrameLen(l))
    [] r = Req("ack", l) -> UpTo(n - 3, FrameLen(l))
    [] OTHER -> 0
WindowsDone(r, n) ==
  CASE r.kind \in {"idcodes", "irdelay"} -> UpTo(n - 2, 1)
    [] r.kind = "read" -> UpTo(n - 3, ReadScans)
    [] r.kind = "ack" -> UpTo(n - FrameLen(r.lane) - 5, ReadScans)
    [] OTHER -> 0
BytesDone(r, n, l) ==
  IF r \in LaneRequests /\ r.lane = l THEN WindowsDone(r, n) ELSE 0

All(i) == [l \in Lanes |-> i]
Only(lane, i) == [l \in Lanes |-> IF l = lane THEN i ELSE "BYPASS"]

\* The instructions under which the n-th operation scans data.
Selected(r, n) ==
  CASE r.kind = "idcodes" -> All("IDCODE")
    [] r.kind = "pair" -> Only(IF n <= HalfPair THEN 0 ELSE 1, "USER2")
    [] r.kind = "read" -> Only(r.lane, "USER1")
    [] r.kind = "ack" ->
         Only(r.lane, IF n <= FrameLen(r.lane) + 3 THEN "USER2" ELSE "USER1")
    [] OTHER -> All("BYPASS")

-----------------------------------------------------------------------------
(* A scan as streams of bits: what a register sends on is what it captured *)
(* and then what it takes in, or zeros where user logic passes nothing on. *)

Answer(s, k) ==
  IF k <= Len(s) THEN Append(s[k], 0) ELSE Append(Zeros(ByteBits), 1)
Captured(r, n, stk, l) ==
  IF Program[r][n].kind = "ir" THEN CapturedIr
  ELSE CASE Selected(r, n)[l] = "IDCODE" -> Idcode
         [] Selected(r, n)[l] = "USER1" ->
              Answer(stk[l], WindowsDone(r, n) + 1)
         [] OTHER -> <<0>>
UserLogic(r, n, l) ==
  Program[r][n].kind = "dr" /\ Selected(r, n)[l] \in {"USER1", "USER2"}

Through(captured, user, bits) ==
  captured \o (IF user THEN Zeros(Len(bits)) ELSE bits)
OutOf1(r, n, stk) ==
  Through(Captured(r, n, stk, 1), UserLogic(r, n, 1), Program[r][n].bits)
IntoLane(r, n, stk, l) ==
  IF l = 1 THEN Program[r][n].bits
  ELSE SubSeq(OutOf1(r, n, stk), 1, Len(Program[r][n].bits))
OutOf(r, n, stk, l) ==
  IF l = 1 THEN OutOf1(r, n, stk)
  ELSE Through(Captured(r, n, stk, 0), UserLogic(r, n, 0),
               IntoLane(r, n, stk, 0))

\* The windows the host reads from a healthy chain.
Window(r, k, stk) ==
  CASE r.kind = "idcodes" -> Idcode \o Idcode
    [] r.kind = "irdelay" -> SubSeq(IrAnswer, 1, 2 * Len(Probe))
    [] OTHER -> IF r.lane = 0 THEN Answer(stk[0], k) \o <<0>>
                ELSE <<0>> \o Answer(stk[1], k)
Windows(r, n, stk) == [k \in 1 .. WindowsDone(r, n) |-> Window(r, k, stk)]

-----------------------------------------------------------------------------
(* The inductive invariant.                                                *)

CardTypes ==
  /\ instr \in [Lanes -> {"IDCODE", "BYPASS", "USER1", "USER2", "OTHER"}]
  /\ dr \in [Lanes -> Seq(Bit)] /\ \A l \in Lanes : dr[l] # <<>>
  /\ word \in [Lanes -> Seq(Bit)] /\ \A l \in Lanes : Len(word[l]) <= ByteBits
  /\ inbox \in [Lanes -> Seq(Seq(Bit))]
  /\ due \in [Lanes -> 0 .. ByteBits]
  /\ outbox \in [Lanes -> Seq(Byte)]
  /\ \A l \in Lanes : due[l] > 0 => outbox[l] # <<>>
TypeOK ==
  /\ tap \in DOMAIN TapNext /\ CardTypes
  /\ client \in {"miner", "calibration"}
  /\ request \in Requests \cup {NoRequest} /\ op \in Nat /\ at \in Nat
  /\ write \in {r \in Requests : IsWrite(r)} \cup {NoRequest}
  /\ stock \in [Lanes -> Seq(Byte)]
  /\ misread \in BOOLEAN /\ requests \in 0 .. MaxRequests

\* Every stage has its requests.
StageIsRequest ==
  /\ request = NoRequest <=> stage = "closed"
  /\ request = NoRequest => op = 0 /\ at = 0 /\ tdo = <<>>
  /\ stage \in {"closed", "idcodes", "irdelay", "open"}
  /\ request # NoRequest =>
       stage = IF request.kind \in {"idcodes", "irdelay"}
               THEN request.kind ELSE "open"

Ends == Len(Program[request])
Here == Program[request][op]
InOp == request # NoRequest /\ op <= Ends

\* The TAP on its way through an operation.
AfterOnes ==
  <<DOMAIN TapNext,
    {"SelDR", "SelIR", "TLR", "Ex1DR", "UpdDR", "Ex2DR", "Ex1IR", "UpdIR",
     "Ex2IR"},
    {"SelDR", "SelIR", "TLR", "UpdDR", "UpdIR"},
    {"SelDR", "SelIR", "TLR"}, {"SelIR", "TLR"}, {"TLR"}, {"TLR"}>>
InReset ==
  /\ tap \in AfterOnes[at]
  /\ at = 7 => instr = All("IDCODE")
  /\ at = 1 => tap = "RTI" \/ (request.kind = "idcodes" /\ op = 1)
TapInDr(a, len) ==
  CASE a = 1 -> "RTI" [] a = 2 -> "SelDR" [] a = 3 -> "CapDR"
    [] a = len + 4 -> "Ex1DR" [] a = len + 5 -> "UpdDR" [] OTHER -> "ShDR"
TapInIr(a, len) ==
  CASE a = 1 -> "RTI" [] a = 2 -> "SelDR" [] a = 3 -> "SelIR"
    [] a = 4 -> "CapIR"
    [] a = len + 5 -> "Ex1IR" [] a = len + 6 -> "UpdIR" [] OTHER -> "ShIR"
TapIsThere ==
  /\ InOp =>
       /\ op > 0 /\ at \in 1 .. Clocks(Here)
       /\ Here.kind \in {"reset", "tlr"} => InReset
       /\ Here.kind = "idle" => tap = "RTI"
       /\ Here.kind = "dr" => /\ tap = TapInDr(at, Len(Here.bits))
                              /\ instr = Selected(request, op)
       /\ Here.kind = "ir" => tap = TapInIr(at, Len(Here.bits))
  /\ request # NoRequest /\ ~InOp =>
       /\ op = Ends + 1 /\ at = 1
       /\ tap = IF request.kind = "reset" THEN "TLR" ELSE "RTI"
       /\ request.kind = "irdelay" => instr = All("BYPASS")

\* How many bits of this scan have been shifted.
Shifted == IF InOp /\ IsScan(Here)
           THEN UpTo(at - LeadOf(Here) - 1, Len(Here.bits)) ELSE 0
\* The operation counts as done once its last bit is in.
Count == IF Shifted > 0 /\ Shifted = Len(Here.bits) THEN op + 1 ELSE op

RegistersHold ==
  InOp /\ IsScan(Here) /\ at > LeadOf(Here) =>
    \A l \in Lanes :
      dr[l] = SubSeq(OutOf(request, op, stock, l), Shifted + 1,
                     Shifted + Len(Captured(request, op, stock, l)))

\* What a write has handed over, and the word it is at.
WordsAreRight ==
  IsWrite(request) =>
    /\ write = request /\ ~misread
    /\ \A l \in Lanes :
         inbox[l] = SubSeq(WordsFor(request, l), 1,
                           WordsDone(request, Count, l))
    /\ InOp /\ Here.kind = "dr" /\ at > LeadOf(Here) =>
         \A l \in Lanes :
           instr[l] = "USER2" =>
             word[l] = IF Shifted <= ByteBits
                       THEN SubSeq(IntoLane(request, op, stock, l), 1, Shifted)
                       ELSE <<>>

\* What a card has passed on, and how much of this byte.
Rest(s, n) == SubSeq(s, n + 1, Len(s))
HasByte(l) == WindowsDone(request, op) < Len(stock[l])
StockIsRight ==
  stage = "open" =>
    /\ \A l \in Lanes :
         outbox[l] =
           Rest(stock[l],
                BytesDone(request,
                          IF Shifted >= ByteBits THEN op + 1 ELSE op, l))
    /\ InOp /\ Here.kind = "dr" /\ at > LeadOf(Here) =>
         \A l \in Lanes :
           instr[l] = "USER1" =>
             due[l] = IF HasByte(l) /\ Shifted <= ByteBits
                      THEN ByteBits - Shifted ELSE 0

WindowsAreRight ==
  request # NoRequest =>
    tdo = Windows(request, op, stock)
            \o (IF Shifted > 0 /\ Here.read
                THEN <<SubSeq(OutOf(request, op, stock, 0), 1, Shifted)>>
                ELSE <<>>)

\* What has arrived of the last write, and the word that one more clock
\* would complete.
NoneWrong ==
  ~misread => \A l \in Lanes : StartsWith(WordsFor(write, l), inbox[l])
Pending(l) == tap = "ShDR" /\ instr[l] = "USER2" /\ Len(word[l]) = ByteBits
NextIsRight ==
  ~misread =>
    \A l \in Lanes :
      Pending(l) =>
        StartsWith(WordsFor(write, l),
                   Append(inbox[l], Append(word[l], Enters(l, 0))))
FromAnywhere ==
  request = NoRequest \/ (stage = "idcodes" /\ op = 1 /\ at = 1)

ChainInv ==
  /\ TypeOK /\ StageIsRequest /\ TapIsThere /\ RegistersHold
  /\ WordsAreRight /\ StockIsRight /\ WindowsAreRight
  /\ NoneWrong /\ (FromAnywhere => NextIsRight)

-----------------------------------------------------------------------------
(* Facts about sequences.                                                  *)

(* A function on 1 .. n is a sequence of length n.                         *)
LEMMA FunctionIsSeq ==
  ASSUME NEW S, NEW n \in Nat, NEW f \in [1 .. n -> S]
  PROVE  /\ f \in Seq(S) /\ Len(f) = n /\ DOMAIN f = 1 .. n
  OBVIOUS

(* A shift register holds a window of the bits that run through it; a      *)
(* shift moves the window on.                                              *)
LEMMA SlideWindow ==
  ASSUME NEW S, NEW s \in Seq(S), NEW k \in Nat, NEW n \in Nat \ {0},
         k + n < Len(s)
  PROVE  LET d == SubSeq(s, k + 1, k + n)
         IN  /\ d # <<>> /\ Head(d) = s[k + 1]
             /\ Append(Tail(d), s[k + n + 1]) = SubSeq(s, k + 2, k + n + 1)
<1> DEFINE d == SubSeq(s, k + 1, k + n)
           e == SubSeq(s, k + 2, k + n)
<1>1. Len(s) \in Nat /\ \A i \in 1 .. Len(s) : s[i] \in S
  BY LenProperties
<1>2. Head(d) = s[k + 1] /\ Tail(d) = e
  <2>1. k + 1 \in 1 .. Len(s) /\ k + n \in (k + 1) .. Len(s)
    BY <1>1
  <2>2. (k + 1) + 1 = k + 2
    OBVIOUS
  <2> QED
    BY <2>1, <2>2, HeadTailOfSubSeq
<1>3. d \in Seq(S) /\ Len(d) = n
  BY <1>1, SubSeqProperties
<1>4. e \in Seq(S)
  BY <1>1, SubSeqProperties
<1>5. SubSeq(s, k + 2, k + n + 1) = e \o <<s[k + n + 1]>>
  <2>1. k + 2 \in 1 .. Len(s) /\ k + n + 1 \in (k + 2) .. Len(s)
    BY <1>1
  <2>2. SubSeq(s, k + 2, k + n + 1)
          = SubSeq(s, k + 2, (k + n + 1) - 1) \o <<s[k + n + 1]>>
    BY <2>1, SubSeqRecursiveSecond
  <2>3. (k + n + 1) - 1 = k + n
    OBVIOUS
  <2> QED
    BY <2>2, <2>3
<1>6. Append(e, s[k + n + 1]) = e \o <<s[k + n + 1]>>
  BY <1>1, <1>4, AppendIsConcat
<1>7. d # <<>>
  BY <1>3
<1> QED
  BY <1>2, <1>5, <1>6, <1>7

(* What has been taken of a stream grows bit by bit.                       *)
LEMMA GrowPrefix ==
  ASSUME NEW S, NEW s \in Seq(S), NEW k \in Nat, k < Len(s)
  PROVE  Append(SubSeq(s, 1, k), s[k + 1]) = SubSeq(s, 1, k + 1)
<1>1. Len(s) \in Nat /\ \A i \in 1 .. Len(s) : s[i] \in S
  BY LenProperties
<1>2. SubSeq(s, 1, k) \in Seq(S)
  BY <1>1, SubSeqProperties
<1>3. SubSeq(s, 1, k + 1) = SubSeq(s, 1, (k + 1) - 1) \o <<s[k + 1]>>
  BY <1>1, SubSeqRecursiveSecond
<1>4. (k + 1) - 1 = k
  OBVIOUS
<1>5. s[k + 1] \in S
  BY <1>1
<1> QED
  BY <1>2, <1>3, <1>4, <1>5, AppendIsConcat

(* Taking the first element of what is left leaves one less.               *)
LEMMA DropFirst ==
  ASSUME NEW S, NEW s \in Seq(S), NEW k \in Nat, k < Len(s)
  PROVE  /\ Rest(s, k) # <<>> /\ Head(Rest(s, k)) = s[k + 1]
         /\ Tail(Rest(s, k)) = Rest(s, k + 1)
<1>1. Len(s) \in Nat /\ \A i \in 1 .. Len(s) : s[i] \in S
  BY LenProperties
<1>2. Rest(s, k) \in Seq(S) /\ Len(Rest(s, k)) = Len(s) - k
  BY <1>1, SubSeqProperties DEF Rest
<1>3. k + 1 \in 1 .. Len(s) /\ Len(s) \in (k + 1) .. Len(s)
  BY <1>1
<1>4. Head(SubSeq(s, k + 1, Len(s))) = s[k + 1]
      /\ Tail(SubSeq(s, k + 1, Len(s))) = SubSeq(s, (k + 1) + 1, Len(s))
  BY <1>3, HeadTailOfSubSeq
<1>5. Rest(s, k) # <<>>
  BY <1>1, <1>2
<1> QED
  BY <1>4, <1>5 DEF Rest

(* The lengths of the patterns.                                            *)
LEMMA ZerosAndOnes ==
  ASSUME NEW n \in Nat
  PROVE  /\ Zeros(n) \in Seq(Bit) /\ Len(Zeros(n)) = n
         /\ \A i \in 1 .. n : Zeros(n)[i] = 0
         /\ Ones(n) \in Seq(Bit) /\ Len(Ones(n)) = n
         /\ \A i \in 1 .. n : Ones(n)[i] = 1
  BY FunctionIsSeq DEF Zeros, Ones, Bit

(* Three pieces behind one another, element by element.                    *)
LEMMA ThreePieces ==
  ASSUME NEW S, NEW s \in Seq(S), NEW t \in Seq(S), NEW u \in Seq(S)
  PROVE  /\ s \o t \o u \in Seq(S)
         /\ Len(s \o t \o u) = Len(s) + Len(t) + Len(u)
         /\ \A i \in 1 .. Len(s) + Len(t) + Len(u) :
              (s \o t \o u)[i] =
                IF i <= Len(s) THEN s[i]
                ELSE IF i <= Len(s) + Len(t) THEN t[i - Len(s)]
                ELSE u[i - Len(s) - Len(t)]
<1>1. Len(s) \in Nat /\ Len(t) \in Nat /\ Len(u) \in Nat
  BY LenProperties
<1>2. /\ s \o t \in Seq(S) /\ Len(s \o t) = Len(s) + Len(t)
      /\ \A i \in 1 .. Len(s) + Len(t) :
           (s \o t)[i] = IF i <= Len(s) THEN s[i] ELSE t[i - Len(s)]
  BY ConcatProperties
<1>3. /\ (s \o t) \o u \in Seq(S)
      /\ Len((s \o t) \o u) = Len(s \o t) + Len(u)
      /\ \A i \in 1 .. Len(s \o t) + Len(u) :
           ((s \o t) \o u)[i] =
             IF i <= Len(s \o t) THEN (s \o t)[i] ELSE u[i - Len(s \o t)]
  BY <1>2, ConcatProperties
<1> QED
  BY <1>1, <1>2, <1>3

-----------------------------------------------------------------------------
(* The operations of every program.                                        *)

Operation ==
  [kind : {"tlr", "reset", "idle", "ir", "dr"}, bits : Seq(Bit),
   read : BOOLEAN]

ReadOp == ScanDr(Zeros(ReadWidth), TRUE)
WriteScan(bits) == ScanDr(bits, FALSE)
IdScan == ScanDr(Zeros(LaneCount * Len(Idcode)), TRUE)
ProbeScan == Op("ir", ProbeStream, TRUE)
WriteOp(lane, n) ==
  IF n = 1 THEN ResetToIdle
  ELSE IF n = 2 THEN SetIrLane(lane, "USER2")
  ELSE IF n <= FrameLen(lane) + 2
       THEN WriteScan(Tailpad(Frames[lane][n - 2]))
  ELSE IF n = FrameLen(lane) + 3 THEN Idle
  ELSE ResetToIdle
LaneReadOp(lane, n) ==
  IF n = 1 THEN ResetToIdle
  ELSE IF n = 2 THEN SetIrLane(lane, "USER1")
  ELSE IF n <= ReadScans + 2 THEN ReadOp
  ELSE ResetToIdle
AckOp(lane, n) ==
  IF n = 1 THEN ResetToIdle
  ELSE IF n = 2 THEN SetIrLane(lane, "USER2")
  ELSE IF n <= FrameLen(lane) + 2
       THEN WriteScan(LanePad(lane, Frames[lane][n - 2]))
  ELSE IF n = FrameLen(lane) + 3 THEN Idle
  ELSE IF n = FrameLen(lane) + 4 THEN SetIrLane(lane, "USER1")
  ELSE IF n <= FrameLen(lane) + ReadScans + 4 THEN ReadOp
  ELSE ResetToIdle

OpOf(r, n) ==
  CASE r.kind = "idcodes" ->
         IF n = 1 THEN ResetToIdle ELSE IdScan
    [] r.kind = "irdelay" ->
         IF n = 1 THEN ResetToIdle ELSE ProbeScan
    [] r.kind = "pair" ->
         IF n <= HalfPair THEN WriteOp(0, n) ELSE WriteOp(1, n - HalfPair)
    [] r.kind = "read" -> LaneReadOp(r.lane, n)
    [] r.kind = "ack" -> AckOp(r.lane, n)
    [] r.kind = "reset" -> TapReset
Length(r) ==
  CASE r.kind \in {"idcodes", "irdelay"} -> 2
    [] r.kind = "pair" -> FrameLen(0) + FrameLen(1) + 8
    [] r.kind = "read" -> ReadScans + 3
    [] r.kind = "ack" -> FrameLen(r.lane) + ReadScans + 5
    [] r.kind = "reset" -> 1

(* The widths and patterns of the code, as the lemmas need them.           *)
LEMMA Patterns ==
  /\ IrBits \in Nat /\ IrBits >= 3 /\ ByteBits \in Nat \ {0}
  /\ ReadScans \in Nat /\ IdleClocks \in Nat \ {0}
  /\ Len(Idcode) \in Nat \ {0} /\ Len(Probe) \in Nat
  /\ Len(Probe) >= 2 * IrBits
  /\ Lanes = {0, 1} /\ LaneCount = 2
  /\ \A l \in Lanes : Frames[l] \in Seq(Byte) /\ FrameLen(l) \in Nat
  /\ \A b \in Byte : b \in Seq(Bit) /\ Len(b) = ByteBits
<1>1. Len(Idcode) \in Nat \ {0} /\ Len(Probe) \in Nat
  BY PatternAssumption, EmptySeq, LenProperties
<1>2. Lanes = {0, 1} /\ LaneCount = 2
  BY DEF Lanes, LaneCount
<1>3. \A l \in Lanes : Frames[l] \in Seq(Byte) /\ FrameLen(l) \in Nat
  BY FramesAssumption, LenProperties DEF FrameLen
<1>4. \A b \in Byte : b \in Seq(Bit) /\ Len(b) = ByteBits
  BY WidthAssumption, FunctionIsSeq DEF Byte
<1> QED
  BY <1>1, <1>2, <1>3, <1>4, WidthAssumption, PatternAssumption

(* Every frame byte is one.                                                *)
LEMMA FrameByte ==
  ASSUME NEW l \in Lanes, NEW n \in 1 .. FrameLen(l)
  PROVE  Frames[l][n] \in Byte
  BY Patterns, ElementOfSeq DEF FrameLen

(* The instruction cells a program shifts in.                              *)
LEMMA Opcodes ==
  /\ DOMAIN Opcode = {"BYPASS", "USER1", "USER2"}
  /\ \A i \in DOMAIN Opcode :
       Opcode[i] \in Seq(Bit) /\ Len(Opcode[i]) = IrBits
  /\ \A i, j \in DOMAIN Opcode : Opcode[i] = Opcode[j] => i = j
<1>1. DOMAIN Opcode = {"BYPASS", "USER1", "USER2"}
  BY DEF Opcode
<1>2. /\ Opcode["BYPASS"] = Ones(IrBits)
      /\ Opcode["USER1"] = <<0, 1>> \o Zeros(IrBits - 2)
      /\ Opcode["USER2"] = <<1, 1>> \o Zeros(IrBits - 2)
  BY DEF Opcode
<1>3. IrBits - 2 \in Nat \ {0}
  BY Patterns
<1>4. <<0, 1>> \in Seq(Bit) /\ <<1, 1>> \in Seq(Bit)
  BY DEF Bit
<1>5. \A s \in {<<0, 1>>, <<1, 1>>} :
        /\ s \o Zeros(IrBits - 2) \in Seq(Bit)
        /\ Len(s \o Zeros(IrBits - 2)) = IrBits
        /\ (s \o Zeros(IrBits - 2))[1] = s[1]
        /\ (s \o Zeros(IrBits - 2))[3] = 0
  <2> SUFFICES ASSUME NEW s \in {<<0, 1>>, <<1, 1>>}
               PROVE  /\ s \o Zeros(IrBits - 2) \in Seq(Bit)
                      /\ Len(s \o Zeros(IrBits - 2)) = IrBits
                      /\ (s \o Zeros(IrBits - 2))[1] = s[1]
                      /\ (s \o Zeros(IrBits - 2))[3] = 0
    OBVIOUS
  <2>1. s \in Seq(Bit) /\ Len(s) = 2
    BY <1>4
  <2>2. /\ Zeros(IrBits - 2) \in Seq(Bit)
        /\ Len(Zeros(IrBits - 2)) = IrBits - 2
        /\ \A i \in 1 .. IrBits - 2 : Zeros(IrBits - 2)[i] = 0
    <3>1. IrBits - 2 \in Nat
      BY <1>3
    <3> QED
      BY <3>1, ZerosAndOnes
  <2> HIDE DEF Zeros
  <2>3. /\ s \o Zeros(IrBits - 2) \in Seq(Bit)
        /\ Len(s \o Zeros(IrBits - 2)) = Len(s) + Len(Zeros(IrBits - 2))
        /\ \A i \in 1 .. Len(s) + Len(Zeros(IrBits - 2)) :
             (s \o Zeros(IrBits - 2))[i] =
               IF i <= Len(s) THEN s[i] ELSE Zeros(IrBits - 2)[i - Len(s)]
    BY <2>1, <2>2, ConcatProperties
  <2> QED
    BY <1>3, <2>1, <2>2, <2>3, Patterns
<1>6. /\ Ones(IrBits) \in Seq(Bit) /\ Len(Ones(IrBits)) = IrBits
      /\ Ones(IrBits)[3] = 1
  <2>1. IrBits \in Nat /\ 3 \in 1 .. IrBits
    BY Patterns
  <2> QED
    BY <2>1, ZerosAndOnes
<1>7. \A i \in DOMAIN Opcode :
        Opcode[i] \in Seq(Bit) /\ Len(Opcode[i]) = IrBits
  BY <1>1, <1>2, <1>5, <1>6
<1>8. /\ Opcode["BYPASS"][3] = 1
      /\ Opcode["USER1"][3] = 0 /\ Opcode["USER2"][3] = 0
      /\ Opcode["USER1"][1] = 0 /\ Opcode["USER2"][1] = 1
  BY <1>2, <1>5, <1>6
<1> QED
  BY <1>1, <1>7, <1>8

(* The devices take the instruction whose opcode they hold.                *)
LEMMA DecodeOpcode ==
  ASSUME NEW i \in DOMAIN Opcode
  PROVE  Decode(Opcode[i]) = i
  BY Opcodes DEF Decode

(* A scan that selects one lane, cell by cell.                             *)
LEMMA IrStreamParts ==
  ASSUME NEW lane \in Lanes, NEW i \in DOMAIN Opcode
  PROVE  /\ IrStream(lane, i) \in Seq(Bit)
         /\ Len(IrStream(lane, i)) = 2 * IrBits
         /\ \A k \in 1 .. 2 * IrBits :
              IrStream(lane, i)[k] =
                IF k <= IrBits THEN Opcode[Only(lane, i)[0]][k]
                ELSE Opcode[Only(lane, i)[1]][k - IrBits]
<1>1. "BYPASS" \in DOMAIN Opcode
  BY Opcodes
<1>2. IrBits \in Nat
  BY Patterns
<1>3. \A s, t \in Seq(Bit) : Len(s) = IrBits /\ Len(t) = IrBits =>
        /\ s \o t \in Seq(Bit) /\ Len(s \o t) = 2 * IrBits
        /\ \A k \in 1 .. 2 * IrBits :
             (s \o t)[k] = IF k <= IrBits THEN s[k] ELSE t[k - IrBits]
  BY <1>2, ConcatProperties
<1>4. Only(lane, i)[0] = (IF lane = 0 THEN i ELSE "BYPASS")
      /\ Only(lane, i)[1] = (IF lane = 1 THEN i ELSE "BYPASS")
  BY Patterns DEF Only
<1>5. IrStream(lane, i) = Opcode[Only(lane, i)[0]] \o Opcode[Only(lane, i)[1]]
  <2>1. CASE lane = 0
    BY <1>4, <2>1 DEF IrStream
  <2>2. CASE lane = 1
    BY <1>4, <2>2 DEF IrStream
  <2> QED
    BY <2>1, <2>2, Patterns
<1>6. Only(lane, i)[0] \in DOMAIN Opcode /\ Only(lane, i)[1] \in DOMAIN Opcode
  BY <1>1, <1>4
<1>7. /\ Opcode[Only(lane, i)[0]] \in Seq(Bit)
      /\ Len(Opcode[Only(lane, i)[0]]) = IrBits
      /\ Opcode[Only(lane, i)[1]] \in Seq(Bit)
      /\ Len(Opcode[Only(lane, i)[1]]) = IrBits
  BY <1>6, Opcodes
<1> DEFINE first == Opcode[Only(lane, i)[0]]
           second == Opcode[Only(lane, i)[1]]
<1>8. /\ first \in Seq(Bit) /\ Len(first) = IrBits
      /\ second \in Seq(Bit) /\ Len(second) = IrBits
      /\ IrStream(lane, i) = first \o second
  BY <1>5, <1>7
<1> SUFFICES /\ IrStream(lane, i) \in Seq(Bit)
             /\ Len(IrStream(lane, i)) = 2 * IrBits
             /\ \A k \in 1 .. 2 * IrBits :
                  IrStream(lane, i)[k] =
                    IF k <= IrBits THEN first[k] ELSE second[k - IrBits]
  OBVIOUS
<1> HIDE DEF first, second
<1> QED
  BY <1>3, <1>8

(* What the two writers put around a byte: a scan of one bit more.         *)
LEMMA PaddedByte ==
  ASSUME NEW b \in Byte
  PROVE  /\ Tailpad(b) = Low(b) /\ Low(b) \in Seq(Bit)
         /\ Len(Low(b)) = ByteBits + 1
         /\ High(b) \in Seq(Bit) /\ Len(High(b)) = ByteBits + 1
         /\ \A k \in 1 .. ByteBits : Low(b)[k] = b[k] /\ High(b)[k + 1] = b[k]
         /\ Low(b)[ByteBits + 1] = 0 /\ High(b)[1] = 0
         /\ LanePad(0, b) = Low(b) /\ LanePad(1, b) = High(b)
<1>1. b \in Seq(Bit) /\ Len(b) = ByteBits /\ ByteBits \in Nat \ {0}
  BY Patterns
<1>2. 0 \in Bit /\ <<0>> \in Seq(Bit) /\ Len(<<0>>) = 1 /\ <<0>>[1] = 0
  BY DEF Bit
<1>3. Zeros(0) = <<>> /\ Zeros(1) = <<0>>
  BY DEF Zeros
<1>4. /\ Append(b, 0) \in Seq(Bit) /\ Len(Append(b, 0)) = ByteBits + 1
      /\ \A k \in 1 .. ByteBits : Append(b, 0)[k] = b[k]
      /\ Append(b, 0)[ByteBits + 1] = 0 /\ Append(b, 0) = b \o <<0>>
  BY <1>1, <1>2, AppendProperties, AppendIsConcat
<1>5. /\ <<0>> \o b \in Seq(Bit) /\ Len(<<0>> \o b) = Len(<<0>>) + Len(b)
      /\ \A k \in 1 .. Len(<<0>>) + Len(b) :
           (<<0>> \o b)[k] =
             IF k <= Len(<<0>>) THEN <<0>>[k] ELSE b[k - Len(<<0>>)]
  BY <1>1, <1>2, ConcatProperties
<1>6. /\ <<0>> \o b \in Seq(Bit) /\ Len(<<0>> \o b) = ByteBits + 1
      /\ \A k \in 1 .. ByteBits : (<<0>> \o b)[k + 1] = b[k]
      /\ (<<0>> \o b)[1] = 0
  BY <1>1, <1>2, <1>5
<1>7. <<>> \o b = b /\ (<<0>> \o b) \o <<>> = <<0>> \o b
  BY <1>1, <1>6, ConcatEmptySeq
<1>8. LanePad(0, b) = b \o <<0>> /\ LanePad(1, b) = <<0>> \o b
  <2>1. LaneCount - 0 - 1 = 1 /\ LaneCount - 1 - 1 = 0
    BY DEF LaneCount
  <2>2. LanePad(0, b) = (Zeros(0) \o b) \o Zeros(LaneCount - 0 - 1)
        /\ LanePad(1, b) = (Zeros(1) \o b) \o Zeros(LaneCount - 1 - 1)
    BY DEF LanePad
  <2> QED
    BY <1>3, <1>7, <2>1, <2>2
<1> QED
  BY <1>4, <1>6, <1>8 DEF Low, High, Tailpad

(* The operations a program is built of.                                   *)
LEMMA Operations ==
  /\ ResetToIdle \in Operation /\ TapReset \in Operation
  /\ Idle \in Operation /\ ReadOp \in Operation
  /\ \A lane \in Lanes, i \in DOMAIN Opcode : SetIrLane(lane, i) \in Operation
  /\ IdScan \in Operation /\ ProbeScan \in Operation
  /\ \A b \in Seq(Bit) : WriteScan(b) \in Operation
<1>1. <<>> \in Seq(Bit)
  BY EmptySeq
<1>2. \A lane \in Lanes, i \in DOMAIN Opcode : SetIrLane(lane, i) \in Operation
  BY IrStreamParts DEF SetIrLane, Op, Operation
<1>3. \A b \in Seq(Bit), rd \in BOOLEAN : ScanDr(b, rd) \in Operation
  BY DEF ScanDr, Op, Operation
<1>4. ReadWidth \in Nat
  BY Patterns DEF ReadWidth
<1>5. Zeros(ReadWidth) \in Seq(Bit)
  BY <1>4, ZerosAndOnes
<1>6. ReadOp \in Operation
  BY <1>3, <1>5 DEF ReadOp
<1>7. ResetToIdle \in Operation /\ TapReset \in Operation /\ Idle \in Operation
  BY <1>1 DEF ResetToIdle, TapReset, Idle, Op, Operation
<1>8. \A b \in Seq(Bit) : WriteScan(b) \in Operation
  BY <1>3 DEF WriteScan
<1>9. IdScan \in Operation
  <2>1. LaneCount * Len(Idcode) \in Nat
    BY Patterns
  <2> QED
    BY <1>3, <2>1, ZerosAndOnes DEF IdScan
<1>10. ProbeScan \in Operation
  <2>1. Probe \in Seq(Bit) /\ Ones(Len(Probe)) \in Seq(Bit)
    BY Patterns, PatternAssumption, ZerosAndOnes
  <2> QED
    BY <2>1, ConcatProperties DEF ProbeScan, ProbeStream, Op, Operation
<1> QED
  BY <1>2, <1>6, <1>7, <1>8, <1>9, <1>10

(* Two operations, or one, as a sequence.                                  *)
LEMMA FewOperations ==
  ASSUME NEW S, NEW a \in S, NEW b \in S
  PROVE  /\ <<a, b>> \in Seq(S) /\ Len(<<a, b>>) = 2
         /\ <<a, b>>[1] = a /\ <<a, b>>[2] = b
         /\ <<a>> \in Seq(S) /\ Len(<<a>>) = 1 /\ <<a>>[1] = a
  OBVIOUS

(* build_per_byte_write, operation by operation.                           *)
LEMMA WriteProgram ==
  ASSUME NEW lane \in Lanes
  PROVE  /\ PerByteWrite(lane) \in Seq(Operation)
         /\ Len(PerByteWrite(lane)) = FrameLen(lane) + 4
         /\ \A n \in 1 .. FrameLen(lane) + 4 :
              PerByteWrite(lane)[n] = WriteOp(lane, n)
<1> DEFINE F == FrameLen(lane)
           s == <<ResetToIdle, SetIrLane(lane, "USER2")>>
           t == WriteBytes(lane)
           u == <<Idle, ResetToIdle>>
<1>1. F \in Nat
  BY Patterns
<1>2. SetIrLane(lane, "USER2") \in Operation
  BY Opcodes, Operations
<1>3. /\ s \in Seq(Operation) /\ Len(s) = 2
      /\ s[1] = ResetToIdle /\ s[2] = SetIrLane(lane, "USER2")
      /\ u \in Seq(Operation) /\ Len(u) = 2 /\ u[1] = Idle /\ u[2] = ResetToIdle
  BY <1>2, FewOperations, Operations
<1>4. \A n \in 1 .. F : WriteScan(Tailpad(Frames[lane][n])) \in Operation
  BY FrameByte, PaddedByte, Operations
<1>5. t = [i \in 1 .. F |-> WriteScan(Tailpad(Frames[lane][i]))]
  BY DEF WriteBytes, FrameLen, WriteScan
<1>6. t \in [1 .. F -> Operation]
  BY <1>4, <1>5
<1>7. t \in Seq(Operation) /\ Len(t) = F
  BY <1>1, <1>6, FunctionIsSeq
<1>8. \A n \in 1 .. F : t[n] = WriteScan(Tailpad(Frames[lane][n]))
  BY <1>5
<1>9. PerByteWrite(lane) = s \o t \o u
  BY DEF PerByteWrite
<1> HIDE DEF s, t, u
<1>10. /\ s \o t \o u \in Seq(Operation)
       /\ Len(s \o t \o u) = Len(s) + Len(t) + Len(u)
       /\ \A n \in 1 .. Len(s) + Len(t) + Len(u) :
            (s \o t \o u)[n] =
              IF n <= Len(s) THEN s[n]
              ELSE IF n <= Len(s) + Len(t) THEN t[n - Len(s)]
              ELSE u[n - Len(s) - Len(t)]
  <2>1. s \in Seq(Operation) /\ t \in Seq(Operation) /\ u \in Seq(Operation)
    BY <1>3, <1>7
  <2> QED
    BY ONLY <2>1, ThreePieces
<1>11. Len(s) + Len(t) + Len(u) = F + 4
  BY <1>1, <1>3, <1>7
<1>12. ASSUME NEW n \in 1 .. F + 4
       PROVE  PerByteWrite(lane)[n] = WriteOp(lane, n)
  <2>1. PerByteWrite(lane)[n] =
          IF n <= 2 THEN s[n] ELSE IF n <= 2 + F THEN t[n - 2]
          ELSE u[n - 2 - F]
    BY <1>3, <1>7, <1>9, <1>10, <1>11
  <2>2. CASE n \in 3 .. F + 2
    <3>1. n - 2 \in 1 .. F
      BY <1>1, <2>2
    <3>2. WriteOp(lane, n) = WriteScan(Tailpad(Frames[lane][n - 2]))
      BY <1>1, <2>2 DEF WriteOp
    <3> QED
      BY <1>1, <1>8, <2>1, <2>2, <3>1, <3>2
  <2>3. CASE n = 1 \/ n = 2
    BY <1>1, <1>3, <2>1, <2>3 DEF WriteOp
  <2>4. CASE n = F + 3
    BY <1>1, <1>3, <2>1, <2>4 DEF WriteOp
  <2>5. CASE n = F + 4
    BY <1>1, <1>3, <2>1, <2>5 DEF WriteOp
  <2> QED
    BY <1>1, <2>2, <2>3, <2>4, <2>5
<1> QED
  BY <1>9, <1>10, <1>11, <1>12

(* The scans that read the answers of one card.                            *)
LEMMA ReadBytesAre ==
  /\ ReadBytes \in Seq(Operation) /\ Len(ReadBytes) = ReadScans
  /\ \A n \in 1 .. ReadScans : ReadBytes[n] = ReadOp
<1>1. ReadBytes = [i \in 1 .. ReadScans |-> ReadOp]
  BY DEF ReadBytes, ReadOp
<1>2. ReadBytes \in [1 .. ReadScans -> Operation]
  BY <1>1, Operations
<1> QED
  BY <1>1, <1>2, Patterns, FunctionIsSeq

(* build_lane_read, operation by operation.                                *)
LEMMA ReadProgram ==
  ASSUME NEW lane \in Lanes
  PROVE  /\ LaneRead(lane) \in Seq(Operation)
         /\ Len(LaneRead(lane)) = ReadScans + 3
         /\ \A n \in 1 .. ReadScans + 3 : LaneRead(lane)[n] = LaneReadOp(lane, n)
<1> DEFINE s == <<ResetToIdle, SetIrLane(lane, "USER1")>>
           t == ReadBytes
           u == <<ResetToIdle>>
<1>1. ReadScans \in Nat
  BY Patterns
<1>2. SetIrLane(lane, "USER1") \in Operation
  BY Opcodes, Operations
<1>3. /\ s \in Seq(Operation) /\ Len(s) = 2
      /\ s[1] = ResetToIdle /\ s[2] = SetIrLane(lane, "USER1")
      /\ u \in Seq(Operation) /\ Len(u) = 1 /\ u[1] = ResetToIdle
  BY <1>2, FewOperations, Operations
<1>4. /\ t \in Seq(Operation) /\ Len(t) = ReadScans
      /\ \A n \in 1 .. ReadScans : t[n] = ReadOp
  BY ReadBytesAre
<1>5. LaneRead(lane) = s \o t \o u
  BY DEF LaneRead
<1> HIDE DEF s, t, u
<1>6. /\ s \o t \o u \in Seq(Operation)
      /\ Len(s \o t \o u) = Len(s) + Len(t) + Len(u)
      /\ \A n \in 1 .. Len(s) + Len(t) + Len(u) :
           (s \o t \o u)[n] =
             IF n <= Len(s) THEN s[n]
             ELSE IF n <= Len(s) + Len(t) THEN t[n - Len(s)]
             ELSE u[n - Len(s) - Len(t)]
  <2>1. s \in Seq(Operation) /\ t \in Seq(Operation) /\ u \in Seq(Operation)
    BY <1>3, <1>4
  <2> QED
    BY ONLY <2>1, ThreePieces
<1>7. Len(s) + Len(t) + Len(u) = ReadScans + 3
  BY <1>1, <1>3, <1>4
<1>8. ASSUME NEW n \in 1 .. ReadScans + 3
      PROVE  LaneRead(lane)[n] = LaneReadOp(lane, n)
  <2>1. LaneRead(lane)[n] =
          IF n <= 2 THEN s[n] ELSE IF n <= 2 + ReadScans THEN t[n - 2]
          ELSE u[n - 2 - ReadScans]
    BY <1>3, <1>4, <1>5, <1>6, <1>7
  <2>2. CASE n \in 3 .. ReadScans + 2
    <3>1. n - 2 \in 1 .. ReadScans
      BY <1>1, <2>2
    <3> QED
      BY <1>1, <1>4, <2>1, <2>2, <3>1 DEF LaneReadOp
  <2>3. CASE n = 1 \/ n = 2
    BY <1>1, <1>3, <2>1, <2>3 DEF LaneReadOp
  <2>4. CASE n = ReadScans + 3
    BY <1>1, <1>3, <2>1, <2>4 DEF LaneReadOp
  <2> QED
    BY <1>1, <2>2, <2>3, <2>4
<1> QED
  BY <1>5, <1>6, <1>7, <1>8

(* build_lane_job_ack, operation by operation.                             *)
LEMMA AckProgram ==
  ASSUME NEW lane \in Lanes
  PROVE  /\ LaneJobAck(lane) \in Seq(Operation)
         /\ Len(LaneJobAck(lane)) = FrameLen(lane) + ReadScans + 5
         /\ \A n \in 1 .. FrameLen(lane) + ReadScans + 5 :
              LaneJobAck(lane)[n] = AckOp(lane, n)
<1> DEFINE F == FrameLen(lane)
           s == <<ResetToIdle, SetIrLane(lane, "USER2")>>
           t == PaddedBytes(lane)
           u == <<Idle, SetIrLane(lane, "USER1")>>
           v == ReadBytes
           w == <<ResetToIdle>>
           stu == s \o t \o u
<1>1. F \in Nat /\ ReadScans \in Nat
  BY Patterns
<1>2. /\ SetIrLane(lane, "USER2") \in Operation
      /\ SetIrLane(lane, "USER1") \in Operation
  BY Opcodes, Operations
<1>3. /\ s \in Seq(Operation) /\ Len(s) = 2
      /\ s[1] = ResetToIdle /\ s[2] = SetIrLane(lane, "USER2")
      /\ u \in Seq(Operation) /\ Len(u) = 2 /\ u[1] = Idle
      /\ u[2] = SetIrLane(lane, "USER1")
      /\ w \in Seq(Operation) /\ Len(w) = 1 /\ w[1] = ResetToIdle
  BY <1>2, FewOperations, Operations
<1>4. \A b \in Byte : LanePad(lane, b) \in Seq(Bit)
  BY PaddedByte, Patterns
<1>5. \A n \in 1 .. F :
        WriteScan(LanePad(lane, Frames[lane][n])) \in Operation
  BY <1>4, FrameByte, Operations
<1>6. t = [i \in 1 .. F |-> WriteScan(LanePad(lane, Frames[lane][i]))]
  BY DEF PaddedBytes, FrameLen, WriteScan
<1>7. t \in [1 .. F -> Operation]
  BY <1>5, <1>6
<1>8. t \in Seq(Operation) /\ Len(t) = F
  BY <1>1, <1>7, FunctionIsSeq
<1>9. \A n \in 1 .. F : t[n] = WriteScan(LanePad(lane, Frames[lane][n]))
  BY <1>6
<1>10. /\ v \in Seq(Operation) /\ Len(v) = ReadScans
       /\ \A n \in 1 .. ReadScans : v[n] = ReadOp
  BY ReadBytesAre
<1>11. LaneJobAck(lane) = stu \o v \o w
  BY DEF LaneJobAck
<1> HIDE DEF s, t, u, v, w
<1>12. /\ stu \in Seq(Operation)
       /\ Len(stu) = Len(s) + Len(t) + Len(u)
       /\ \A n \in 1 .. Len(s) + Len(t) + Len(u) :
            stu[n] = IF n <= Len(s) THEN s[n]
                     ELSE IF n <= Len(s) + Len(t) THEN t[n - Len(s)]
                     ELSE u[n - Len(s) - Len(t)]
  <2>1. s \in Seq(Operation) /\ t \in Seq(Operation) /\ u \in Seq(Operation)
    BY <1>3, <1>8
  <2> QED
    BY ONLY <2>1, ThreePieces
<1>13. Len(stu) = F + 4
  BY <1>1, <1>3, <1>8, <1>12
<1>14. \A n \in 1 .. F + 4 :
         stu[n] = IF n <= 2 THEN s[n] ELSE IF n <= 2 + F THEN t[n - 2]
                  ELSE u[n - 2 - F]
  <2> TAKE n \in 1 .. F + 4
  <2>1. Len(s) = 2 /\ Len(t) = F /\ n \in 1 .. Len(s) + Len(t) + Len(u)
    BY <1>1, <1>3, <1>8
  <2> HIDE DEF s, t, u, stu, F
  <2> QED
    BY <1>12, <2>1
<1> HIDE DEF stu
<1>15. /\ stu \o v \o w \in Seq(Operation)
       /\ Len(stu \o v \o w) = Len(stu) + Len(v) + Len(w)
       /\ \A n \in 1 .. Len(stu) + Len(v) + Len(w) :
            (stu \o v \o w)[n] =
              IF n <= Len(stu) THEN stu[n]
              ELSE IF n <= Len(stu) + Len(v) THEN v[n - Len(stu)]
              ELSE w[n - Len(stu) - Len(v)]
  <2>1. /\ stu \in Seq(Operation) /\ v \in Seq(Operation)
        /\ w \in Seq(Operation)
    BY <1>3, <1>10, <1>12
  <2> QED
    BY ONLY <2>1, ThreePieces
<1>16. Len(stu) + Len(v) + Len(w) = F + ReadScans + 5
  BY <1>1, <1>3, <1>10, <1>13
<1>17. ASSUME NEW n \in 1 .. F + ReadScans + 5
       PROVE  LaneJobAck(lane)[n] = AckOp(lane, n)
  <2>1. LaneJobAck(lane)[n] =
          IF n <= F + 4 THEN stu[n]
          ELSE IF n <= F + 4 + ReadScans THEN v[n - (F + 4)]
          ELSE w[n - (F + 4) - ReadScans]
    BY <1>10, <1>11, <1>13, <1>15, <1>16
  <2>2. CASE n <= F + 4
    <3>1. LaneJobAck(lane)[n] =
            IF n <= 2 THEN s[n] ELSE IF n <= 2 + F THEN t[n - 2]
            ELSE u[n - 2 - F]
      BY <1>14, <2>1, <2>2
    <3>2. CASE n \in 3 .. F + 2
      <4>1. n - 2 \in 1 .. F
        BY <1>1, <3>2
      <4>2. AckOp(lane, n) = WriteScan(LanePad(lane, Frames[lane][n - 2]))
        BY <1>1, <3>2 DEF AckOp
      <4> QED
        BY <1>1, <1>9, <3>1, <3>2, <4>1, <4>2
    <3>3. CASE n = 1 \/ n = 2
      BY <1>1, <1>3, <3>1, <3>3 DEF AckOp
    <3>4. CASE n = F + 3
      BY <1>1, <1>3, <3>1, <3>4 DEF AckOp
    <3>5. CASE n = F + 4
      BY <1>1, <1>3, <3>1, <3>5 DEF AckOp
    <3> QED
      BY <1>1, <2>2, <3>2, <3>3, <3>4, <3>5
  <2>3. CASE n \in F + 5 .. F + ReadScans + 4
    BY <1>1, <1>10, <2>1, <2>3 DEF AckOp
  <2>4. CASE n = F + ReadScans + 5
    BY <1>1, <1>3, <2>1, <2>4 DEF AckOp
  <2> QED
    BY <1>1, <2>2, <2>3, <2>4
<1> QED
  BY <1>11, <1>15, <1>16, <1>17

(* The program of every request, operation by operation.                   *)
LEMMA ProgramIs ==
  ASSUME NEW r \in Requests
  PROVE  /\ Program[r] \in Seq(Operation)
         /\ Len(Program[r]) = Length(r) /\ Length(r) \in Nat \ {0}
         /\ \A n \in 1 .. Length(r) : Program[r][n] = OpOf(r, n)
<1>1. /\ FrameLen(0) \in Nat /\ FrameLen(1) \in Nat /\ ReadScans \in Nat
      /\ \A l \in Lanes : FrameLen(l) \in Nat
  BY Patterns
<1>2. r.lane \in Lanes
      /\ r.kind \in {"idcodes", "irdelay", "pair", "reset", "read", "ack"}
  BY Patterns DEF Requests, LaneRequests
<1>3. CASE r.kind \in {"idcodes", "irdelay"}
  <2> DEFINE b == IF r.kind = "idcodes" THEN IdScan ELSE ProbeScan
  <2>1. b \in Operation /\ ResetToIdle \in Operation
    BY Operations
  <2>2. Program[r] = <<ResetToIdle, b>>
    BY <1>3 DEF Program, ScanResetIdcodes, MeasureIrDelay, IdScan, ProbeScan
  <2>3. Length(r) = 2
    BY <1>3 DEF Length
  <2>4. OpOf(r, 1) = ResetToIdle /\ OpOf(r, 2) = b
    BY <1>3 DEF OpOf
  <2> HIDE DEF b
  <2>5. /\ <<ResetToIdle, b>> \in Seq(Operation)
        /\ Len(<<ResetToIdle, b>>) = 2
        /\ <<ResetToIdle, b>>[1] = ResetToIdle /\ <<ResetToIdle, b>>[2] = b
    BY <2>1, FewOperations
  <2> QED
    BY <2>2, <2>3, <2>4, <2>5
<1>4. CASE r.kind = "pair"
  <2> DEFINE s == PerByteWrite(0)
             t == PerByteWrite(1)
  <2>1. Program[r] = s \o t
    BY <1>4 DEF Program
  <2>2. Length(r) = FrameLen(0) + FrameLen(1) + 8
    BY <1>4 DEF Length
  <2>3. /\ s \in Seq(Operation) /\ Len(s) = FrameLen(0) + 4
        /\ \A n \in 1 .. FrameLen(0) + 4 : s[n] = WriteOp(0, n)
    BY Patterns, WriteProgram
  <2>4. /\ t \in Seq(Operation) /\ Len(t) = FrameLen(1) + 4
        /\ \A n \in 1 .. FrameLen(1) + 4 : t[n] = WriteOp(1, n)
    BY Patterns, WriteProgram
  <2> HIDE DEF s, t
  <2>5. /\ s \o t \in Seq(Operation) /\ Len(s \o t) = Len(s) + Len(t)
        /\ \A n \in 1 .. Len(s) + Len(t) :
             (s \o t)[n] = IF n <= Len(s) THEN s[n] ELSE t[n - Len(s)]
    BY <2>3, <2>4, ConcatProperties
  <2>6. ASSUME NEW n \in 1 .. Length(r)
        PROVE  Program[r][n] = OpOf(r, n)
    <3>1. OpOf(r, n) = IF n <= HalfPair THEN WriteOp(0, n)
                       ELSE WriteOp(1, n - HalfPair)
      BY <1>4 DEF OpOf
    <3>2. HalfPair = FrameLen(0) + 4
      BY DEF HalfPair
    <3>3. CASE n <= HalfPair
      BY <1>1, <2>1, <2>2, <2>3, <2>4, <2>5, <3>1, <3>2, <3>3
    <3>4. CASE n > HalfPair
      <4>1. n - HalfPair \in 1 .. FrameLen(1) + 4
        BY <1>1, <2>2, <3>2, <3>4
      <4>2. Program[r][n] = t[n - HalfPair]
        BY <1>1, <2>1, <2>2, <2>3, <2>4, <2>5, <3>2, <3>4
      <4> QED
        BY <1>1, <2>4, <3>1, <3>2, <3>4, <4>1, <4>2
    <3> QED
      BY <1>1, <2>2, <3>2, <3>3, <3>4
  <2> QED
    BY <1>1, <2>1, <2>2, <2>3, <2>4, <2>5, <2>6
<1>5. CASE r.kind = "read"
  <2>1. Program[r] = LaneRead(r.lane)
    BY <1>5 DEF Program
  <2>2. Length(r) = ReadScans + 3
        /\ \A n \in 1 .. Length(r) : OpOf(r, n) = LaneReadOp(r.lane, n)
    BY <1>5 DEF Length, OpOf
  <2> QED
    BY <1>1, <1>2, <2>1, <2>2, ReadProgram
<1>6. CASE r.kind = "ack"
  <2>1. Program[r] = LaneJobAck(r.lane)
    BY <1>6 DEF Program
  <2>2. Length(r) = FrameLen(r.lane) + ReadScans + 5
        /\ \A n \in 1 .. Length(r) : OpOf(r, n) = AckOp(r.lane, n)
    BY <1>6 DEF Length, OpOf
  <2> QED
    BY <1>1, <1>2, <2>1, <2>2, AckProgram
<1>7. CASE r.kind = "reset"
  <2>1. Program[r] = <<TapReset>> /\ Length(r) = 1
        /\ \A n \in 1 .. Length(r) : OpOf(r, n) = TapReset
    BY <1>7 DEF Program, Length, OpOf
  <2>2. /\ <<TapReset>> \in Seq(Operation) /\ Len(<<TapReset>>) = 1
        /\ <<TapReset>>[1] = TapReset
    BY FewOperations, Operations
  <2> QED
    BY <2>1, <2>2
<1> QED
  BY <1>2, <1>3, <1>4, <1>5, <1>6, <1>7

(* The fields of an operation.                                             *)
LEMMA OperationFields ==
  /\ ResetToIdle.kind = "reset" /\ ResetToIdle.read = FALSE
  /\ TapReset.kind = "tlr" /\ TapReset.read = FALSE
  /\ Idle.kind = "idle" /\ Idle.read = FALSE
  /\ ReadOp.kind = "dr" /\ ReadOp.read = TRUE /\ ReadOp.bits = Zeros(ReadWidth)
  /\ IdScan.kind = "dr" /\ IdScan.read = TRUE
  /\ IdScan.bits = Zeros(LaneCount * Len(Idcode))
  /\ ProbeScan.kind = "ir" /\ ProbeScan.read = TRUE /\ ProbeScan.bits = ProbeStream
  /\ \A b : /\ WriteScan(b).kind = "dr" /\ WriteScan(b).read = FALSE
            /\ WriteScan(b).bits = b
  /\ \A lane, i : /\ SetIrLane(lane, i).kind = "ir" /\ SetIrLane(lane, i).read = FALSE
                  /\ SetIrLane(lane, i).bits = IrStream(lane, i)
  BY DEF ResetToIdle, TapReset, Idle, ReadOp, IdScan, ProbeScan, WriteScan,
         SetIrLane, ScanDr, Op

(* A request is its kind and its lane.                                     *)
LEMMA RequestIs ==
  ASSUME NEW r \in Requests
  PROVE  /\ r.lane \in Lanes /\ r # NoRequest
         /\ r.kind \in {"idcodes", "irdelay", "pair", "reset", "read", "ack"}
         /\ r \in LaneRequests <=> r.kind \in {"read", "ack"}
         /\ \A l \in Lanes : r = Req("ack", l) <=> r.kind = "ack" /\ r.lane = l
         /\ IsWrite(r) <=> r.kind \in {"pair", "ack"}
  BY Patterns DEF Requests, LaneRequests, Req, NoRequest, IsWrite

(* How far each kind of request is, lane by lane.                          *)
LEMMA WordsDoneIs ==
  ASSUME NEW r \in Requests, NEW n \in Nat
  PROVE  /\ r.kind = "pair" =>
              /\ WordsDone(r, n, 0) = UpTo(n - 3, FrameLen(0))
              /\ WordsDone(r, n, 1) = UpTo(n - HalfPair - 3, FrameLen(1))
         /\ \A l \in Lanes :
              /\ r.kind = "ack" /\ l = r.lane =>
                   WordsDone(r, n, l) = UpTo(n - 3, FrameLen(l))
              /\ r.kind = "ack" /\ l # r.lane => WordsDone(r, n, l) = 0
              /\ r.kind \notin {"pair", "ack"} => WordsDone(r, n, l) = 0
<1>1. 0 \in Lanes /\ 1 \in Lanes
  BY Patterns
<1>2. CASE r.kind = "pair"
  <2>1. r # Req("ack", 0) /\ r # Req("ack", 1)
    BY <1>1, <1>2, RequestIs
  <2> QED
    BY <1>2, <2>1 DEF WordsDone
<1>3. CASE r.kind = "ack"
  <2>1. ASSUME NEW l \in Lanes, l = r.lane
        PROVE  WordsDone(r, n, l) = UpTo(n - 3, FrameLen(l))
    BY <1>3, <2>1, RequestIs DEF WordsDone
  <2>2. ASSUME NEW l \in Lanes, l # r.lane
        PROVE  WordsDone(r, n, l) = 0
    BY <1>3, <2>2, RequestIs DEF WordsDone
  <2> QED
    BY <1>3, <2>1, <2>2
<1>4. CASE r.kind \notin {"pair", "ack"}
  <2>1. ASSUME NEW l \in Lanes
        PROVE  WordsDone(r, n, l) = 0
    <3>1. r # Req("ack", l)
      BY <1>4, RequestIs
    <3> QED
      BY <1>4, <3>1 DEF WordsDone
  <2> QED
    BY <1>4, <2>1
<1> QED
  BY <1>2, <1>3, <1>4

(* How many windows the host has when the n-th operation begins.           *)
LEMMA WindowsDoneIs ==
  ASSUME NEW r \in Requests, NEW n \in Nat
  PROVE  /\ r.kind \in {"idcodes", "irdelay"} => WindowsDone(r, n) = UpTo(n - 2, 1)
         /\ r.kind = "read" => WindowsDone(r, n) = UpTo(n - 3, ReadScans)
         /\ r.kind = "ack" =>
              WindowsDone(r, n) = UpTo(n - FrameLen(r.lane) - 5, ReadScans)
         /\ r.kind \in {"pair", "reset"} => WindowsDone(r, n) = 0
  BY RequestIs DEF WindowsDone

(* The instructions that the n-th operation finds.                         *)
LEMMA SelectedIs ==
  ASSUME NEW r \in Requests, NEW n \in Nat
  PROVE  /\ r.kind = "idcodes" => Selected(r, n) = All("IDCODE")
         /\ r.kind = "pair" =>
              /\ n <= HalfPair => Selected(r, n) = Only(0, "USER2")
              /\ n > HalfPair => Selected(r, n) = Only(1, "USER2")
         /\ r.kind = "read" => Selected(r, n) = Only(r.lane, "USER1")
         /\ r.kind = "ack" =>
              /\ n <= FrameLen(r.lane) + 3 =>
                   Selected(r, n) = Only(r.lane, "USER2")
              /\ n > FrameLen(r.lane) + 3 =>
                   Selected(r, n) = Only(r.lane, "USER1")
<1>1. FrameLen(0) \in Nat /\ FrameLen(r.lane) \in Nat
  BY Patterns, RequestIs
<1> QED
  BY <1>1 DEF Selected, HalfPair

(* What one operation means for its request: the words and windows it adds *)
(* and the instructions the next data scan finds.                          *)
Quiet(r, n) ==
  /\ \A l \in Lanes : WordsDone(r, n + 1, l) = WordsDone(r, n, l)
  /\ WindowsDone(r, n + 1) = WindowsDone(r, n)
  /\ Program[r][n].read = FALSE
NextIsData(r, n) == n < Length(r) /\ Program[r][n + 1].kind = "dr"

PauseAt(r, n) ==
  /\ Quiet(r, n) /\ Program[r][n].kind \in {"tlr", "reset", "idle"}
  /\ Program[r][n].kind = "tlr" <=> r.kind = "reset"
  /\ r.kind = "reset" => n = 1 /\ Length(r) = 1
  /\ r.kind = "irdelay" => n = 1 /\ Length(r) = 2
  /\ NextIsData(r, n) => Program[r][n].kind = "reset" /\ r.kind = "idcodes"
SelectAt(r, n) ==
  \E lane \in Lanes, i \in {"USER1", "USER2"} :
    /\ Quiet(r, n) /\ Program[r][n] = SetIrLane(lane, i)
    /\ r.kind \in {"pair", "read", "ack"}
    /\ NextIsData(r, n) => Selected(r, n + 1) = Only(lane, i)
ProbeAt(r, n) ==
  /\ r.kind = "irdelay" /\ n = 2 /\ Length(r) = 2
  /\ Program[r][n] = ProbeScan
  /\ WindowsDone(r, n) = 0 /\ WindowsDone(r, n + 1) = 1
IdsAt(r, n) ==
  /\ r.kind = "idcodes" /\ n = 2 /\ Length(r) = 2
  /\ Program[r][n] = IdScan
  /\ WindowsDone(r, n) = 0 /\ WindowsDone(r, n + 1) = 1
WriteAt(r, n, lane) ==
  LET k == WordsDone(r, n, lane)
  IN  /\ IsWrite(r) /\ k \in 0 .. FrameLen(lane) - 1
      /\ Program[r][n] = WriteScan(IF r.kind = "pair"
                                   THEN Tailpad(Frames[lane][k + 1])
                                   ELSE LanePad(lane, Frames[lane][k + 1]))
      /\ r.kind = "ack" => r.lane = lane
      /\ Selected(r, n) = Only(lane, "USER2")
      /\ NextIsData(r, n) => Selected(r, n + 1) = Only(lane, "USER2")
      /\ \A l \in Lanes :
           WordsDone(r, n + 1, l) =
             IF l = lane THEN k + 1 ELSE WordsDone(r, n, l)
      /\ WindowsDone(r, n) = 0 /\ WindowsDone(r, n + 1) = 0
ReadAt(r, n) ==
  /\ r.kind \in {"read", "ack"} /\ Program[r][n] = ReadOp
  /\ Selected(r, n) = Only(r.lane, "USER1")
  /\ NextIsData(r, n) => Selected(r, n + 1) = Only(r.lane, "USER1")
  /\ \A l \in Lanes : WordsDone(r, n + 1, l) = WordsDone(r, n, l)
  /\ WindowsDone(r, n) \in 0 .. ReadScans - 1
  /\ WindowsDone(r, n + 1) = WindowsDone(r, n) + 1
Known(r, n) ==
  \/ PauseAt(r, n) \/ SelectAt(r, n) \/ ProbeAt(r, n) \/ IdsAt(r, n)
  \/ (\E lane \in Lanes : WriteAt(r, n, lane)) \/ ReadAt(r, n)

(* The requests that check the chain, and the reset.                       *)
LEMMA CheckPositions ==
  ASSUME NEW r \in Requests, r.kind \in {"idcodes", "irdelay", "reset"},
         NEW n \in 1 .. Length(r)
  PROVE  Known(r, n)
<1>1. \A l \in Lanes :
        WordsDone(r, n, l) = 0 /\ WordsDone(r, n + 1, l) = 0
  <2>1. n \in Nat /\ n + 1 \in Nat
    BY ProgramIs
  <2> QED
    BY <2>1, WordsDoneIs
<1>2. Program[r][n] = OpOf(r, n)
  BY ProgramIs
<1>3. CASE r.kind = "reset"
  <2>1. Length(r) = 1 /\ n = 1 /\ OpOf(r, n) = TapReset
    BY <1>3 DEF Length, OpOf
  <2>2. WindowsDone(r, n) = 0 /\ WindowsDone(r, n + 1) = 0
    BY <1>3, <2>1, WindowsDoneIs
  <2>3. PauseAt(r, n)
    BY <1>1, <1>2, <1>3, <2>1, <2>2, OperationFields
       DEF PauseAt, Quiet, NextIsData
  <2> QED
    BY <2>3 DEF Known
<1>4. CASE r.kind \in {"idcodes", "irdelay"}
  <2>1. Length(r) = 2 /\ n \in {1, 2}
    BY <1>4 DEF Length
  <2>2. /\ WindowsDone(r, 1) = 0 /\ WindowsDone(r, 2) = 0
        /\ WindowsDone(r, 3) = 1
    BY <1>4, WindowsDoneIs DEF UpTo
  <2>3. /\ OpOf(r, 1) = ResetToIdle
        /\ OpOf(r, 2) = IF r.kind = "idcodes" THEN IdScan ELSE ProbeScan
    BY <1>4 DEF OpOf
  <2>4. CASE n = 1
    <3>1. Program[r][2] = OpOf(r, 2)
      BY <2>1, ProgramIs
    <3>2. Quiet(r, n)
      BY <1>1, <1>2, <2>2, <2>3, <2>4, OperationFields DEF Quiet
    <3>3. PauseAt(r, n)
      BY <1>2, <1>4, <2>1, <2>3, <2>4, <3>1, <3>2, OperationFields
         DEF PauseAt, NextIsData
    <3> QED
      BY <3>3 DEF Known
  <2>5. CASE n = 2
    <3>1. ProbeAt(r, n) \/ IdsAt(r, n)
      BY <1>2, <1>4, <2>1, <2>2, <2>3, <2>5 DEF ProbeAt, IdsAt
    <3> QED
      BY <3>1 DEF Known
  <2> QED
    BY <2>1, <2>4, <2>5
<1> QED
  BY <1>3, <1>4

PairPlace(lane, m) == IF lane = 0 THEN m ELSE m + HalfPair

(* A place in the write of a pair: which lane, and which operation of it.  *)
LEMMA PairPlaces ==
  ASSUME NEW r \in Requests, r.kind = "pair",
         NEW lane \in Lanes, NEW m \in 1 .. FrameLen(lane) + 4
  PROVE  LET n == PairPlace(lane, m)
         IN  /\ n \in 1 .. Length(r) /\ Program[r][n] = WriteOp(lane, m)
             /\ Selected(r, n) = Only(lane, "USER2")
             /\ WordsDone(r, n, lane) = UpTo(m - 3, FrameLen(lane))
             /\ WordsDone(r, n + 1, lane) = UpTo(m - 2, FrameLen(lane))
             /\ \A l \in Lanes \ {lane} :
                  WordsDone(r, n + 1, l) = WordsDone(r, n, l)
<1> DEFINE n == PairPlace(lane, m)
<1>1. /\ FrameLen(0) \in Nat /\ FrameLen(1) \in Nat /\ Lanes = {0, 1}
      /\ HalfPair = FrameLen(0) + 4
  BY Patterns DEF HalfPair
<1>2. Length(r) = FrameLen(0) + FrameLen(1) + 8
  BY DEF Length
<1>3. CASE lane = 0
  <2>1. n = m /\ m \in 1 .. FrameLen(0) + 4
    BY <1>3 DEF PairPlace
  <2>2. n \in 1 .. Length(r) /\ n <= HalfPair /\ n \in Nat /\ n + 1 \in Nat
    BY <1>1, <1>2, <2>1
  <2> HIDE DEF n
  <2>3. OpOf(r, n) = WriteOp(0, n)
    BY <2>2 DEF OpOf
  <2>4. Program[r][n] = WriteOp(lane, m)
    BY <1>3, <2>1, <2>2, <2>3, ProgramIs
  <2>5. Selected(r, n) = Only(lane, "USER2")
    BY <1>3, <2>2, SelectedIs
  <2>6. /\ WordsDone(r, n, 0) = UpTo(n - 3, FrameLen(0))
        /\ WordsDone(r, n + 1, 0) = UpTo(n + 1 - 3, FrameLen(0))
        /\ WordsDone(r, n, 1) = UpTo(n - HalfPair - 3, FrameLen(1))
        /\ WordsDone(r, n + 1, 1) = UpTo(n + 1 - HalfPair - 3, FrameLen(1))
    <3>1. \A k \in Nat :
            /\ WordsDone(r, k, 0) = UpTo(k - 3, FrameLen(0))
            /\ WordsDone(r, k, 1) = UpTo(k - HalfPair - 3, FrameLen(1))
      BY WordsDoneIs
    <3> QED
      BY <1>1, <2>2, <3>1
  <2>7. WordsDone(r, n, 1) = 0 /\ WordsDone(r, n + 1, 1) = 0
    BY <1>1, <2>2, <2>6 DEF UpTo
  <2>8. n + 1 - 3 = m - 2
    BY <2>1
  <2>9. \A l \in Lanes \ {lane} : l = 1
    BY <1>1, <1>3
  <2>10. \A l \in Lanes \ {lane} : WordsDone(r, n + 1, l) = WordsDone(r, n, l)
    BY <2>7, <2>9
  <2> QED
    BY <1>3, <2>1, <2>2, <2>4, <2>5, <2>6, <2>8, <2>10 DEF n
<1>4. CASE lane = 1
  <2>1. n = m + HalfPair /\ m \in 1 .. FrameLen(1) + 4
    BY <1>4 DEF PairPlace
  <2>2. n \in 1 .. Length(r) /\ n > HalfPair /\ n \in Nat /\ n + 1 \in Nat
    BY <1>1, <1>2, <2>1
  <2> HIDE DEF n
  <2>3. OpOf(r, n) = WriteOp(1, n - HalfPair) /\ n - HalfPair = m
    BY <1>1, <2>1, <2>2 DEF OpOf
  <2>4. Program[r][n] = WriteOp(lane, m)
    BY <1>4, <2>2, <2>3, ProgramIs
  <2>5. Selected(r, n) = Only(lane, "USER2")
    BY <1>4, <2>2, SelectedIs
  <2>6. /\ WordsDone(r, n, 0) = UpTo(n - 3, FrameLen(0))
        /\ WordsDone(r, n + 1, 0) = UpTo(n + 1 - 3, FrameLen(0))
        /\ WordsDone(r, n, 1) = UpTo(n - HalfPair - 3, FrameLen(1))
        /\ WordsDone(r, n + 1, 1) = UpTo(n + 1 - HalfPair - 3, FrameLen(1))
    <3>1. \A k \in Nat :
            /\ WordsDone(r, k, 0) = UpTo(k - 3, FrameLen(0))
            /\ WordsDone(r, k, 1) = UpTo(k - HalfPair - 3, FrameLen(1))
      BY WordsDoneIs
    <3> QED
      BY <1>1, <2>2, <3>1
  <2>7. WordsDone(r, n, 0) = FrameLen(0) /\ WordsDone(r, n + 1, 0) = FrameLen(0)
    BY <1>1, <2>2, <2>6 DEF UpTo
  <2>8. n - HalfPair - 3 = m - 3 /\ n + 1 - HalfPair - 3 = m - 2
    BY <1>1, <2>1
  <2>9. \A l \in Lanes \ {lane} : l = 0
    BY <1>1, <1>4
  <2>10. \A l \in Lanes \ {lane} : WordsDone(r, n + 1, l) = WordsDone(r, n, l)
    BY <2>7, <2>9
  <2> QED
    BY <1>4, <2>2, <2>4, <2>5, <2>6, <2>8, <2>10 DEF n
<1> QED
  BY <1>1, <1>3, <1>4

(* The write of a pair.                                                    *)
LEMMA PairPositions ==
  ASSUME NEW r \in Requests, r.kind = "pair", NEW n \in 1 .. Length(r)
  PROVE  Known(r, n)
<1>1. /\ FrameLen(0) \in Nat /\ FrameLen(1) \in Nat /\ Lanes = {0, 1}
      /\ HalfPair = FrameLen(0) + 4
  BY Patterns DEF HalfPair
<1>2. Length(r) = FrameLen(0) + FrameLen(1) + 8
  BY DEF Length
<1>31. PICK lane \in Lanes :
         \E m \in 1 .. FrameLen(lane) + 4 : n = PairPlace(lane, m)
  <2>1. CASE n <= HalfPair
    <3>1. 0 \in Lanes /\ n \in 1 .. FrameLen(0) + 4 /\ n = PairPlace(0, n)
      BY <1>1, <2>1 DEF PairPlace
    <3> QED
      BY <3>1
  <2>2. CASE n > HalfPair
    <3>1. /\ 1 \in Lanes /\ n - HalfPair \in 1 .. FrameLen(1) + 4
          /\ n = PairPlace(1, n - HalfPair)
      BY <1>1, <1>2, <2>2 DEF PairPlace
    <3> QED
      BY <3>1
  <2> QED
    BY <1>1, <2>1, <2>2
<1>3. PICK m \in 1 .. FrameLen(lane) + 4 : n = PairPlace(lane, m)
  BY <1>31
<1> DEFINE F == FrameLen(lane)
<1>4. F \in Nat /\ m \in Nat
  BY <1>1
<1>5. /\ Program[r][n] = WriteOp(lane, m)
      /\ Selected(r, n) = Only(lane, "USER2")
      /\ WordsDone(r, n, lane) = UpTo(m - 3, F)
      /\ WordsDone(r, n + 1, lane) = UpTo(m - 2, F)
      /\ \A l \in Lanes \ {lane} : WordsDone(r, n + 1, l) = WordsDone(r, n, l)
  BY <1>3, PairPlaces
<1>6. WindowsDone(r, n) = 0 /\ WindowsDone(r, n + 1) = 0
  BY WindowsDoneIs, ProgramIs
<1>7. m < F + 4 => /\ Program[r][n + 1] = WriteOp(lane, m + 1)
                   /\ Selected(r, n + 1) = Only(lane, "USER2")
  <2> HAVE m < F + 4
  <2>1. m + 1 \in 1 .. F + 4 /\ n + 1 = PairPlace(lane, m + 1)
    BY <1>1, <1>3, <1>4 DEF PairPlace
  <2> QED
    BY <2>1, PairPlaces
<1>8. ~NextIsData(r, n) \/ m \in 2 .. F + 1
  <2>1. CASE m = F + 4
    <3>1. CASE lane = 0
      <4>1. 1 \in Lanes /\ 1 \in 1 .. FrameLen(1) + 4 /\ n + 1 = PairPlace(1, 1)
        BY <1>1, <1>3, <2>1, <3>1 DEF PairPlace
      <4>2. Program[r][n + 1] = WriteOp(1, 1)
        BY <4>1, PairPlaces
      <4> QED
        BY <4>2, OperationFields DEF WriteOp, NextIsData
    <3>2. CASE lane = 1
      BY <1>1, <1>2, <1>3, <2>1, <3>2 DEF PairPlace, NextIsData
    <3> QED
      BY <1>1, <3>1, <3>2
  <2>2. CASE m = 1
    <3>1. WriteOp(lane, m + 1) = SetIrLane(lane, "USER2")
      BY <2>2 DEF WriteOp
    <3> QED
      BY <1>4, <1>7, <2>2, <3>1, OperationFields DEF NextIsData
  <2>3. CASE m \in {F + 2, F + 3}
    <3>1. WriteOp(lane, m + 1) \in {Idle, ResetToIdle}
      BY <1>4, <2>3 DEF WriteOp
    <3> QED
      BY <1>4, <1>7, <2>3, <3>1, OperationFields DEF NextIsData
  <2> QED
    BY <1>4, <2>1, <2>2, <2>3
<1>9. CASE m \in {1, F + 3, F + 4}
  <2>1. UpTo(m - 3, F) = UpTo(m - 2, F)
    BY <1>4, <1>9 DEF UpTo
  <2>2. Program[r][n] \in {Idle, ResetToIdle}
    BY <1>4, <1>5, <1>9 DEF WriteOp
  <2>3. \A l \in Lanes : WordsDone(r, n + 1, l) = WordsDone(r, n, l)
    BY <1>5, <2>1
  <2>4. ~NextIsData(r, n)
    BY <1>4, <1>8, <1>9
  <2>5. PauseAt(r, n)
    BY <1>6, <2>2, <2>3, <2>4, OperationFields DEF PauseAt, Quiet
  <2> QED
    BY <2>5 DEF Known
<1>10. CASE m = 2
  <2>1. UpTo(m - 3, F) = UpTo(m - 2, F)
    BY <1>4, <1>10 DEF UpTo
  <2>2. Program[r][n] = SetIrLane(lane, "USER2")
    BY <1>5, <1>10 DEF WriteOp
  <2>3. \A l \in Lanes : WordsDone(r, n + 1, l) = WordsDone(r, n, l)
    BY <1>5, <2>1
  <2>4. Quiet(r, n)
    BY <1>6, <2>2, <2>3, OperationFields DEF Quiet
  <2>5. NextIsData(r, n) => Selected(r, n + 1) = Only(lane, "USER2")
    BY <1>4, <1>7, <1>10
  <2>6. SelectAt(r, n)
    BY <2>2, <2>4, <2>5 DEF SelectAt
  <2> QED
    BY <2>6 DEF Known
<1>11. CASE m \in 3 .. F + 2
  <2>1. WordsDone(r, n, lane) = m - 3 /\ WordsDone(r, n + 1, lane) = m - 2
    BY <1>4, <1>5, <1>11 DEF UpTo
  <2>2. m - 3 \in 0 .. F - 1 /\ m - 3 + 1 = m - 2
    BY <1>4, <1>11
  <2>3. Program[r][n] = WriteScan(Tailpad(Frames[lane][m - 2]))
    BY <1>4, <1>5, <1>11 DEF WriteOp
  <2>4. NextIsData(r, n) => Selected(r, n + 1) = Only(lane, "USER2")
    BY <1>4, <1>7, <1>11
  <2>5. IsWrite(r)
    BY RequestIs
  <2>6. \A l \in Lanes :
          WordsDone(r, n + 1, l) = IF l = lane THEN m - 2 ELSE WordsDone(r, n, l)
    BY <1>5, <2>1
  <2>7. WriteAt(r, n, lane)
    BY <1>5, <1>6, <2>1, <2>2, <2>3, <2>4, <2>5, <2>6 DEF WriteAt
  <2> QED
    BY <2>7 DEF Known
<1> QED
  BY <1>4, <1>9, <1>10, <1>11

(* The read of one lane.                                                   *)
LEMMA ReadPositions ==
  ASSUME NEW r \in Requests, r.kind = "read", NEW n \in 1 .. Length(r)
  PROVE  Known(r, n)
<1>1. ReadScans \in Nat /\ r.lane \in Lanes
  BY Patterns, RequestIs
<1>2. Length(r) = ReadScans + 3 /\ n \in Nat /\ n + 1 \in Nat
  BY <1>1 DEF Length
<1>3. \A k \in 1 .. ReadScans + 3 : Program[r][k] = LaneReadOp(r.lane, k)
  BY <1>2, ProgramIs DEF OpOf
<1>4. \A k \in Nat : /\ WindowsDone(r, k) = UpTo(k - 3, ReadScans)
                     /\ Selected(r, k) = Only(r.lane, "USER1")
                     /\ \A l \in Lanes : WordsDone(r, k, l) = 0
  BY WindowsDoneIs, SelectedIs, WordsDoneIs
<1>5. \A l \in Lanes : WordsDone(r, n + 1, l) = WordsDone(r, n, l)
  BY <1>2, <1>4
<1>6. CASE n \in {1, ReadScans + 3}
  <2>1. Program[r][n] = ResetToIdle
    BY <1>1, <1>2, <1>3, <1>6 DEF LaneReadOp
  <2>2. WindowsDone(r, n + 1) = WindowsDone(r, n)
    BY <1>1, <1>2, <1>4, <1>6 DEF UpTo
  <2>3. ~NextIsData(r, n)
    <3>1. CASE n = 1
      <4>1. Program[r][n + 1] = SetIrLane(r.lane, "USER1")
        BY <1>1, <1>3, <3>1 DEF LaneReadOp
      <4> QED
        BY <4>1, OperationFields DEF NextIsData
    <3>2. CASE n = ReadScans + 3
      BY <1>1, <1>2, <3>2 DEF NextIsData
    <3> QED
      BY <1>6, <3>1, <3>2
  <2>4. PauseAt(r, n)
    BY <1>5, <2>1, <2>2, <2>3, OperationFields DEF PauseAt, Quiet
  <2> QED
    BY <2>4 DEF Known
<1>7. CASE n = 2
  <2>1. Program[r][n] = SetIrLane(r.lane, "USER1")
    BY <1>1, <1>2, <1>3, <1>7 DEF LaneReadOp
  <2>2. WindowsDone(r, n + 1) = WindowsDone(r, n)
    BY <1>1, <1>2, <1>4, <1>7 DEF UpTo
  <2>3. Quiet(r, n)
    BY <1>5, <2>1, <2>2, OperationFields DEF Quiet
  <2>4. Selected(r, n + 1) = Only(r.lane, "USER1")
    BY <1>2, <1>4
  <2>5. SelectAt(r, n)
    BY <1>1, <2>1, <2>3, <2>4 DEF SelectAt
  <2> QED
    BY <2>5 DEF Known
<1>8. CASE n \in 3 .. ReadScans + 2
  <2>1. Program[r][n] = ReadOp
    BY <1>1, <1>2, <1>3, <1>8 DEF LaneReadOp
  <2>2. /\ WindowsDone(r, n) = n - 3 /\ WindowsDone(r, n + 1) = n - 2
        /\ n - 3 \in 0 .. ReadScans - 1 /\ n - 3 + 1 = n - 2
    BY <1>1, <1>2, <1>4, <1>8 DEF UpTo
  <2>3. ReadAt(r, n)
    BY <1>2, <1>4, <1>5, <2>1, <2>2 DEF ReadAt
  <2> QED
    BY <2>3 DEF Known
<1> QED
  BY <1>1, <1>2, <1>6, <1>7, <1>8

(* The calibration's write to one lane and the read that follows in it.    *)
LEMMA AckPositions ==
  ASSUME NEW r \in Requests, r.kind = "ack", NEW n \in 1 .. Length(r)
  PROVE  Known(r, n)
<1> DEFINE F == FrameLen(r.lane)
<1>1. ReadScans \in Nat /\ r.lane \in Lanes /\ F \in Nat
  BY Patterns, RequestIs
<1>2. Length(r) = F + ReadScans + 5 /\ n \in Nat /\ n + 1 \in Nat
  BY <1>1 DEF Length
<1>3. \A k \in 1 .. F + ReadScans + 5 : Program[r][k] = AckOp(r.lane, k)
  BY <1>2, ProgramIs DEF OpOf
<1>4. \A k \in Nat :
        /\ WindowsDone(r, k) = UpTo(k - F - 5, ReadScans)
        /\ k <= F + 3 => Selected(r, k) = Only(r.lane, "USER2")
        /\ k > F + 3 => Selected(r, k) = Only(r.lane, "USER1")
        /\ WordsDone(r, k, r.lane) = UpTo(k - 3, F)
        /\ \A l \in Lanes \ {r.lane} : WordsDone(r, k, l) = 0
  BY <1>1, WindowsDoneIs, SelectedIs, WordsDoneIs
<1>5. \A l \in Lanes \ {r.lane} : WordsDone(r, n + 1, l) = WordsDone(r, n, l)
  BY <1>2, <1>4
<1>6. CASE n \in {1, F + 3, F + ReadScans + 5}
  <2>1. Program[r][n] \in {Idle, ResetToIdle}
    BY <1>1, <1>2, <1>3, <1>6 DEF AckOp
  <2>2. WindowsDone(r, n + 1) = WindowsDone(r, n)
    BY <1>1, <1>2, <1>4, <1>6 DEF UpTo
  <2>3. WordsDone(r, n + 1, r.lane) = WordsDone(r, n, r.lane)
    BY <1>1, <1>2, <1>4, <1>6 DEF UpTo
  <2>4. ~NextIsData(r, n)
    <3>1. CASE n \in {1, F + 3}
      <4>1. /\ n + 1 \in 1 .. F + ReadScans + 5 /\ n + 1 # 1
            /\ n + 1 \in {2, F + 4}
        BY <1>1, <3>1
      <4>2. \E i : Program[r][n + 1] = SetIrLane(r.lane, i)
        BY <1>1, <1>3, <4>1 DEF AckOp
      <4> QED
        BY <4>2, OperationFields DEF NextIsData
    <3>2. CASE n = F + ReadScans + 5
      BY <1>1, <1>2, <3>2 DEF NextIsData
    <3> QED
      BY <1>6, <3>1, <3>2
  <2>5. PauseAt(r, n)
    BY <1>5, <2>1, <2>2, <2>3, <2>4, OperationFields DEF PauseAt, Quiet
  <2> QED
    BY <2>5 DEF Known
<1>7. CASE n \in {2, F + 4}
  <2> DEFINE i == IF n = 2 THEN "USER2" ELSE "USER1"
  <2>1. Program[r][n] = SetIrLane(r.lane, i)
    BY <1>1, <1>2, <1>3, <1>7 DEF AckOp
  <2>2. WindowsDone(r, n + 1) = WindowsDone(r, n)
    BY <1>1, <1>2, <1>4, <1>7 DEF UpTo
  <2>3. WordsDone(r, n + 1, r.lane) = WordsDone(r, n, r.lane)
    BY <1>1, <1>2, <1>4, <1>7 DEF UpTo
  <2>4. Quiet(r, n)
    BY <1>5, <2>1, <2>2, <2>3, OperationFields DEF Quiet
  <2>5. Selected(r, n + 1) = Only(r.lane, i)
    BY <1>1, <1>2, <1>4, <1>7
  <2>6. SelectAt(r, n)
    BY <1>1, <2>1, <2>4, <2>5 DEF SelectAt
  <2> QED
    BY <2>6 DEF Known
<1>8. CASE n \in 3 .. F + 2
  <2>1. Program[r][n] = WriteScan(LanePad(r.lane, Frames[r.lane][n - 2]))
    BY <1>1, <1>2, <1>3, <1>8 DEF AckOp
  <2>2. WordsDone(r, n, r.lane) = n - 3 /\ WordsDone(r, n + 1, r.lane) = n - 2
    BY <1>1, <1>2, <1>4, <1>8 DEF UpTo
  <2>3. n - 3 \in 0 .. F - 1 /\ n - 3 + 1 = n - 2
    BY <1>1, <1>2, <1>8
  <2>4. WindowsDone(r, n) = 0 /\ WindowsDone(r, n + 1) = 0
    BY <1>1, <1>2, <1>4, <1>8 DEF UpTo
  <2>5. /\ Selected(r, n) = Only(r.lane, "USER2")
        /\ Selected(r, n + 1) = Only(r.lane, "USER2")
    BY <1>1, <1>2, <1>4, <1>8
  <2>6. IsWrite(r)
    BY RequestIs
  <2>7. \A l \in Lanes :
          WordsDone(r, n + 1, l) =
            IF l = r.lane THEN n - 2 ELSE WordsDone(r, n, l)
    BY <1>5, <2>2
  <2>8. WriteAt(r, n, r.lane)
    BY <2>1, <2>2, <2>3, <2>4, <2>5, <2>6, <2>7 DEF WriteAt
  <2> QED
    BY <1>1, <2>8 DEF Known
<1>9. CASE n \in F + 5 .. F + ReadScans + 4
  <2>1. Program[r][n] = ReadOp
    BY <1>1, <1>2, <1>3, <1>9 DEF AckOp
  <2>2. /\ WindowsDone(r, n) = n - F - 5
        /\ WindowsDone(r, n + 1) = n - F - 5 + 1
        /\ n - F - 5 \in 0 .. ReadScans - 1
    BY <1>1, <1>2, <1>4, <1>9 DEF UpTo
  <2>3. WordsDone(r, n + 1, r.lane) = WordsDone(r, n, r.lane)
    BY <1>1, <1>2, <1>4, <1>9 DEF UpTo
  <2>4. /\ Selected(r, n) = Only(r.lane, "USER1")
        /\ Selected(r, n + 1) = Only(r.lane, "USER1")
    BY <1>1, <1>2, <1>4, <1>9
  <2>5. ReadAt(r, n)
    BY <1>5, <2>1, <2>2, <2>3, <2>4 DEF ReadAt
  <2> QED
    BY <2>5 DEF Known
<1> QED
  BY <1>1, <1>2, <1>6, <1>7, <1>8, <1>9

(* Every operation of every program is one of these.                       *)
LEMMA Positions ==
  ASSUME NEW r \in Requests, NEW n \in 1 .. Length(r)
  PROVE  Known(r, n)
  BY CheckPositions, PairPositions, ReadPositions, AckPositions, RequestIs

(* A place in a program is a number.                                       *)
LEMMA PlaceIsNat ==
  ASSUME NEW r \in Requests, NEW n \in 1 .. Length(r)
  PROVE  n \in Nat /\ n + 1 \in Nat /\ Length(r) \in Nat \ {0}
<1>1. Length(r) \in Nat \ {0}
  BY ProgramIs
<1> QED
  BY <1>1

(* The counts of a request: where they start, how far they go and where    *)
(* they are when it is answered.                                           *)
LEMMA Counts ==
  ASSUME NEW r \in Requests, NEW n \in Nat
  PROVE  /\ WindowsDone(r, n) \in Nat /\ WindowsDone(r, 1) = 0
         /\ r.kind \in {"read", "ack"} => WindowsDone(r, n) <= ReadScans
         /\ r.kind \in {"read", "ack"} =>
              WindowsDone(r, Length(r) + 1) = ReadScans
         /\ r.kind \in {"idcodes", "irdelay"} =>
              WindowsDone(r, Length(r) + 1) = 1
         /\ \A l \in Lanes :
              WordsDone(r, n, l) \in 0 .. FrameLen(l) /\ WordsDone(r, 1, l) = 0
         /\ r.kind = "pair" =>
              \A l \in Lanes : WordsDone(r, Length(r) + 1, l) = FrameLen(l)
         /\ r.kind = "ack" =>
              \A l \in Lanes : WordsDone(r, Length(r) + 1, l) =
                               IF l = r.lane THEN FrameLen(l) ELSE 0
<1>1. /\ FrameLen(0) \in Nat /\ FrameLen(1) \in Nat /\ Lanes = {0, 1}
      /\ FrameLen(r.lane) \in Nat /\ ReadScans \in Nat /\ r.lane \in Lanes
      /\ \A l \in Lanes : FrameLen(l) \in Nat
      /\ HalfPair = FrameLen(0) + 4
  BY Patterns, RequestIs DEF HalfPair
<1>2. Length(r) + 1 \in Nat /\ 1 \in Nat
  BY ProgramIs
<1>3. CASE r.kind \in {"idcodes", "irdelay", "reset"}
  <2>1. \A k \in Nat, l \in Lanes : WordsDone(r, k, l) = 0
    BY <1>3, WordsDoneIs
  <2>2. CASE r.kind = "reset"
    <3>1. \A k \in Nat : WindowsDone(r, k) = 0
      BY <2>2, WindowsDoneIs
    <3> QED
      BY <1>1, <1>2, <2>1, <2>2, <3>1
  <2>3. CASE r.kind \in {"idcodes", "irdelay"}
    <3>1. \A k \in Nat : WindowsDone(r, k) = UpTo(k - 2, 1)
      BY <2>3, WindowsDoneIs
    <3>2. \A k \in Nat : /\ UpTo(k - 2, 1) \in Nat /\ UpTo(1 - 2, 1) = 0
                         /\ UpTo(2 + 1 - 2, 1) = 1
      BY DEF UpTo
    <3>3. Length(r) = 2
      BY <2>3 DEF Length
    <3>4. WindowsDone(r, Length(r) + 1) = 1
      BY <3>1, <3>2, <3>3
    <3>5. WindowsDone(r, n) \in Nat /\ WindowsDone(r, 1) = 0
      BY <1>2, <3>1, <3>2
    <3> QED
      BY <1>1, <1>2, <2>1, <2>3, <3>4, <3>5
  <2> QED
    BY <1>3, <2>2, <2>3
<1>5. CASE r.kind = "pair"
  <2>1. \A k \in Nat : /\ WordsDone(r, k, 0) = UpTo(k - 3, FrameLen(0))
                       /\ WordsDone(r, k, 1)
                            = UpTo(k - HalfPair - 3, FrameLen(1))
                       /\ WindowsDone(r, k) = 0
    BY <1>5, WordsDoneIs, WindowsDoneIs
  <2>2. Length(r) = FrameLen(0) + FrameLen(1) + 8
    BY <1>5 DEF Length
  <2>3. /\ WordsDone(r, n, 0) \in 0 .. FrameLen(0) /\ WordsDone(r, 1, 0) = 0
        /\ WordsDone(r, n, 1) \in 0 .. FrameLen(1) /\ WordsDone(r, 1, 1) = 0
    BY <1>1, <1>2, <2>1 DEF UpTo
  <2>4. /\ WordsDone(r, Length(r) + 1, 0) = FrameLen(0)
        /\ WordsDone(r, Length(r) + 1, 1) = FrameLen(1)
    BY <1>1, <1>2, <2>1, <2>2 DEF UpTo
  <2>5. \A l \in Lanes :
          WordsDone(r, n, l) \in 0 .. FrameLen(l) /\ WordsDone(r, 1, l) = 0
    BY <1>1, <2>3
  <2>6. \A l \in Lanes : WordsDone(r, Length(r) + 1, l) = FrameLen(l)
    BY <1>1, <2>4
  <2> QED
    BY <1>2, <1>5, <2>1, <2>5, <2>6
<1>6. CASE r.kind = "read"
  <2>1. \A k \in Nat : /\ WindowsDone(r, k) = UpTo(k - 3, ReadScans)
                       /\ \A l \in Lanes : WordsDone(r, k, l) = 0
    BY <1>6, WordsDoneIs, WindowsDoneIs
  <2>2. Length(r) = ReadScans + 3
    BY <1>6 DEF Length
  <2>3. /\ WindowsDone(r, n) \in 0 .. ReadScans /\ WindowsDone(r, 1) = 0
        /\ WindowsDone(r, Length(r) + 1) = ReadScans
    BY <1>1, <1>2, <2>1, <2>2 DEF UpTo
  <2> QED
    BY <1>1, <1>2, <1>6, <2>1, <2>3
<1>7. CASE r.kind = "ack"
  <2> DEFINE F == FrameLen(r.lane)
  <2>1. \A k \in Nat :
          /\ WindowsDone(r, k) = UpTo(k - F - 5, ReadScans)
          /\ WordsDone(r, k, r.lane) = UpTo(k - 3, F)
          /\ \A l \in Lanes \ {r.lane} : WordsDone(r, k, l) = 0
    BY <1>1, <1>7, WordsDoneIs, WindowsDoneIs
  <2>2. Length(r) = F + ReadScans + 5
    BY <1>7 DEF Length
  <2>3. /\ WindowsDone(r, n) \in 0 .. ReadScans /\ WindowsDone(r, 1) = 0
        /\ WindowsDone(r, Length(r) + 1) = ReadScans
        /\ WordsDone(r, n, r.lane) \in 0 .. F /\ WordsDone(r, 1, r.lane) = 0
        /\ WordsDone(r, Length(r) + 1, r.lane) = F
    BY <1>1, <1>2, <2>1, <2>2 DEF UpTo
  <2>4. \A l \in Lanes :
          WordsDone(r, n, l) \in 0 .. FrameLen(l) /\ WordsDone(r, 1, l) = 0
    BY <1>1, <1>2, <2>1, <2>3
  <2>5. \A l \in Lanes :
          WordsDone(r, Length(r) + 1, l) = IF l = r.lane THEN FrameLen(l) ELSE 0
    BY <1>1, <1>2, <2>1, <2>3
  <2> QED
    BY <1>1, <1>2, <1>7, <2>3, <2>4, <2>5
<1> QED
  BY <1>3, <1>5, <1>6, <1>7, RequestIs

-----------------------------------------------------------------------------
(* The streams of a scan.                                                  *)

(* The first bits of two pieces behind one another.                        *)
LEMMA TwoPieces ==
  ASSUME NEW s \in Seq(Bit), NEW t \in Seq(Bit)
  PROVE  /\ s \o t \in Seq(Bit) /\ Len(s \o t) = Len(s) + Len(t)
         /\ Len(s) \in Nat /\ Len(t) \in Nat
         /\ \A i \in 1 .. Len(s) + Len(t) :
              (s \o t)[i] = IF i <= Len(s) THEN s[i] ELSE t[i - Len(s)]
  BY ConcatProperties, LenProperties

(* A beginning of a sequence, bit by bit.                                  *)
LEMMA BeginningOf ==
  ASSUME NEW s \in Seq(Bit), NEW n \in Nat, n <= Len(s)
  PROVE  /\ SubSeq(s, 1, n) \in Seq(Bit) /\ Len(SubSeq(s, 1, n)) = n
         /\ \A i \in 1 .. n : SubSeq(s, 1, n)[i] = s[i]
<1>1. Len(s) \in Nat /\ \A i \in 1 .. Len(s) : s[i] \in Bit
  BY LenProperties
<1>2. \A i \in 1 .. n : s[i] \in Bit
  BY <1>1
<1>3. /\ SubSeq(s, 1, n) \in Seq(Bit)
      /\ Len(SubSeq(s, 1, n)) = IF 1 <= n THEN n - 1 + 1 ELSE 0
      /\ \A i \in 1 .. n - 1 + 1 : SubSeq(s, 1, n)[i] = s[1 + i - 1]
  BY <1>2, SubSeqProperties
<1> QED
  BY <1>3

(* A piece from the middle of a sequence, bit by bit.                      *)
LEMMA PieceOf ==
  ASSUME NEW s \in Seq(Bit), NEW m \in Nat, NEW k \in Nat, m + k <= Len(s)
  PROVE  /\ SubSeq(s, m + 1, m + k) \in Seq(Bit)
         /\ Len(SubSeq(s, m + 1, m + k)) = k
         /\ \A i \in 1 .. k : SubSeq(s, m + 1, m + k)[i] = s[m + i]
<1>1. Len(s) \in Nat /\ \A i \in 1 .. Len(s) : s[i] \in Bit
  BY LenProperties
<1>2. /\ m + 1 \in Int /\ m + k \in Int
      /\ \A i \in (m + 1) .. (m + k) : s[i] \in Bit
  BY <1>1
<1> DEFINE a == m + 1
           z == m + k
<1>3. a \in Int /\ z \in Int /\ \A i \in a .. z : s[i] \in Bit
  BY <1>2
<1> HIDE DEF a, z
<1>4. /\ SubSeq(s, a, z) \in Seq(Bit)
      /\ Len(SubSeq(s, a, z)) = IF a <= z THEN z - a + 1 ELSE 0
      /\ \A i \in 1 .. z - a + 1 : SubSeq(s, a, z)[i] = s[a + i - 1]
  BY <1>3, SubSeqProperties
<1>5. z - a + 1 = k /\ \A i \in 1 .. k : a + i - 1 = m + i
  BY DEF a, z
<1>6. a <= z <=> k # 0
  BY DEF a, z
<1> QED
  BY <1>4, <1>5, <1>6 DEF a, z

(* A register as wide as what it captured, and the stream through it.      *)
LEMMA ThroughIs ==
  ASSUME NEW c \in Seq(Bit), NEW user \in BOOLEAN, NEW b \in Seq(Bit)
  PROVE  /\ Through(c, user, b) \in Seq(Bit)
         /\ Len(Through(c, user, b)) = Len(c) + Len(b)
         /\ Len(c) \in Nat /\ Len(b) \in Nat
         /\ \A i \in 1 .. Len(c) : Through(c, user, b)[i] = c[i]
         /\ \A i \in 1 .. Len(b) :
              /\ user => Through(c, user, b)[Len(c) + i] = 0
              /\ ~user => Through(c, user, b)[Len(c) + i] = b[i]
<1> DEFINE t == IF user THEN Zeros(Len(b)) ELSE b
<1>1. Len(c) \in Nat /\ Len(b) \in Nat
  BY LenProperties
<1>2. /\ Zeros(Len(b)) \in Seq(Bit) /\ Len(Zeros(Len(b))) = Len(b)
      /\ \A i \in 1 .. Len(b) : Zeros(Len(b))[i] = 0
  BY <1>1, ZerosAndOnes
<1> HIDE DEF Zeros
<1>3. t \in Seq(Bit) /\ Len(t) = Len(b)
  BY <1>2
<1>4. \A i \in 1 .. Len(b) : (user => t[i] = 0) /\ (~user => t[i] = b[i])
  BY <1>2
<1>5. Through(c, user, b) = c \o t
  BY DEF Through
<1> HIDE DEF t
<1>6. /\ c \o t \in Seq(Bit) /\ Len(c \o t) = Len(c) + Len(t)
      /\ \A i \in 1 .. Len(c) + Len(t) :
           (c \o t)[i] = IF i <= Len(c) THEN c[i] ELSE t[i - Len(c)]
  BY <1>3, TwoPieces
<1>7. \A i \in 1 .. Len(c) : (c \o t)[i] = c[i]
  BY <1>1, <1>3, <1>6
<1>8. \A i \in 1 .. Len(b) : (c \o t)[Len(c) + i] = t[i]
  <2> TAKE i \in 1 .. Len(b)
  <2>1. /\ Len(c) + i \in 1 .. Len(c) + Len(t) /\ ~(Len(c) + i <= Len(c))
        /\ Len(c) + i - Len(c) = i
    BY <1>1, <1>3
  <2> QED
    BY <1>6, <2>1
<1> QED
  BY <1>1, <1>3, <1>4, <1>5, <1>6, <1>7, <1>8

(* What a card answers to a read: a byte, or nothing.                      *)
LEMMA AnswerIs ==
  ASSUME NEW s \in Seq(Byte), NEW k \in Nat \ {0}
  PROVE  /\ Answer(s, k) \in Seq(Bit) /\ Len(Answer(s, k)) = ByteBits + 1
         /\ k <= Len(s) => Answer(s, k) = Append(s[k], 0)
         /\ k > Len(s) => Answer(s, k) = Append(Zeros(ByteBits), 1)
<1>1. Len(s) \in Nat /\ ByteBits \in Nat /\ 0 \in Bit /\ 1 \in Bit
  BY Patterns, LenProperties DEF Bit
<1>2. CASE k <= Len(s)
  <2>1. s[k] \in Seq(Bit) /\ Len(s[k]) = ByteBits
    BY <1>1, <1>2, Patterns, ElementOfSeq
  <2>2. Answer(s, k) = Append(s[k], 0)
    BY <1>2 DEF Answer
  <2> QED
    BY <1>1, <1>2, <2>1, <2>2, AppendProperties
<1>3. CASE k > Len(s)
  <2>1. Zeros(ByteBits) \in Seq(Bit) /\ Len(Zeros(ByteBits)) = ByteBits
    BY <1>1, ZerosAndOnes
  <2>2. Answer(s, k) = Append(Zeros(ByteBits), 1)
    BY <1>1, <1>3 DEF Answer
  <2> QED
    BY <1>1, <1>3, <2>1, <2>2, AppendProperties
<1> QED
  BY <1>1, <1>2, <1>3

(* The bits a program shifts are bits, at least one in every scan.         *)
LEMMA BitsOf ==
  ASSUME NEW r \in Requests, NEW n \in 1 .. Length(r),
         IsScan(Program[r][n])
  PROVE  Program[r][n].bits \in Seq(Bit) /\ Len(Program[r][n].bits) \in Nat \ {0}
<1>1. Program[r][n] \in Operation
  BY ProgramIs, ElementOfSeq
<1>2. Program[r][n].bits \in Seq(Bit)
  BY <1>1 DEF Operation
<1>3. Known(r, n)
  BY Positions
<1>4. ~PauseAt(r, n)
  BY DEF IsScan, PauseAt
<1>5. ASSUME SelectAt(r, n)
      PROVE  Len(Program[r][n].bits) \in Nat \ {0}
  <2>1. PICK lane \in Lanes, i \in {"USER1", "USER2"} :
          Program[r][n] = SetIrLane(lane, i)
    BY <1>5 DEF SelectAt
  <2>2. Program[r][n].bits = IrStream(lane, i) /\ i \in DOMAIN Opcode
    BY <2>1, OperationFields, Opcodes
  <2> QED
    BY <2>2, IrStreamParts, Patterns
<1>6. ASSUME ProbeAt(r, n)
      PROVE  Len(Program[r][n].bits) \in Nat \ {0}
  <2>1. Program[r][n].bits = Probe \o Ones(Len(Probe))
    BY <1>6, OperationFields DEF ProbeAt, ProbeStream
  <2>2. Probe \in Seq(Bit) /\ Ones(Len(Probe)) \in Seq(Bit)
        /\ Len(Ones(Len(Probe))) = Len(Probe)
    BY Patterns, PatternAssumption, ZerosAndOnes
  <2>3. Len(Program[r][n].bits) = Len(Probe) + Len(Probe)
    BY <2>1, <2>2, TwoPieces
  <2> QED
    BY <2>3, Patterns
<1>7. ASSUME IdsAt(r, n)
      PROVE  Len(Program[r][n].bits) \in Nat \ {0}
  <2>1. Program[r][n].bits = Zeros(LaneCount * Len(Idcode))
    BY <1>7, OperationFields DEF IdsAt
  <2>2. LaneCount * Len(Idcode) \in Nat \ {0}
    BY Patterns
  <2> QED
    BY <2>1, <2>2, ZerosAndOnes
<1>8. ASSUME NEW lane \in Lanes, WriteAt(r, n, lane)
      PROVE  Len(Program[r][n].bits) \in Nat \ {0}
  <2> DEFINE b == Frames[lane][WordsDone(r, n, lane) + 1]
  <2>1. b \in Byte
    BY <1>8, FrameByte, Patterns DEF WriteAt
  <2>2. Program[r][n].bits \in {Tailpad(b), LanePad(lane, b)}
    BY <1>8, OperationFields DEF WriteAt
  <2> QED
    BY <2>1, <2>2, PaddedByte, Patterns
<1>9. ASSUME ReadAt(r, n)
      PROVE  Len(Program[r][n].bits) \in Nat \ {0}
  <2>1. Program[r][n].bits = Zeros(ReadWidth)
    BY <1>9, OperationFields DEF ReadAt
  <2>2. ReadWidth \in Nat \ {0}
    BY Patterns DEF ReadWidth
  <2> QED
    BY <2>1, <2>2, ZerosAndOnes
<1> QED
  BY <1>2, <1>3, <1>4, <1>5, <1>6, <1>7, <1>8, <1>9 DEF Known

(* The cells an instruction register captures.                             *)
LEMMA CapturedIrIs ==
  /\ CapturedIr \in Seq(Bit) /\ Len(CapturedIr) = IrBits
  /\ CapturedIr[1] = 1 /\ CapturedIr[2] = 0
<1>1. IrBits - 1 \in Nat \ {0, 1} /\ IrBits \in Nat
  BY Patterns
<1>2. /\ Zeros(IrBits - 1) \in Seq(Bit) /\ Len(Zeros(IrBits - 1)) = IrBits - 1
      /\ Zeros(IrBits - 1)[1] = 0
  <2>1. IrBits - 1 \in Nat /\ 1 \in 1 .. IrBits - 1
    BY <1>1
  <2> QED
    BY <2>1, ZerosAndOnes
<1> HIDE DEF Zeros
<1>3. <<1>> \in Seq(Bit) /\ Len(<<1>>) = 1 /\ <<1>>[1] = 1
  BY DEF Bit
<1>4. /\ CapturedIr \in Seq(Bit)
      /\ Len(CapturedIr) = Len(<<1>>) + Len(Zeros(IrBits - 1))
      /\ \A i \in 1 .. Len(<<1>>) + Len(Zeros(IrBits - 1)) :
           CapturedIr[i] = IF i <= Len(<<1>>) THEN <<1>>[i]
                           ELSE Zeros(IrBits - 1)[i - Len(<<1>>)]
  BY <1>2, <1>3, TwoPieces DEF CapturedIr
<1>5. CapturedIr[1] = <<1>>[1] /\ CapturedIr[2] = Zeros(IrBits - 1)[2 - 1]
  BY <1>1, <1>2, <1>3, <1>4
<1> QED
  BY <1>1, <1>2, <1>3, <1>4, <1>5

(* What a register captures is never empty.                                *)
LEMMA CapturedBits ==
  ASSUME NEW r \in Requests, NEW n \in 1 .. Length(r),
         NEW stk \in [Lanes -> Seq(Byte)], NEW l \in Lanes
  PROVE  /\ Captured(r, n, stk, l) \in Seq(Bit)
         /\ Len(Captured(r, n, stk, l)) \in Nat \ {0}
<1>1. WindowsDone(r, n) + 1 \in Nat \ {0}
  <2>1. n \in Nat
    BY PlaceIsNat
  <2>2. WindowsDone(r, n) \in Nat
    BY <2>1, Counts
  <2> QED
    BY <2>2
<1> DEFINE a == Answer(stk[l], WindowsDone(r, n) + 1)
<1>2. a \in Seq(Bit) /\ Len(a) = ByteBits + 1
  BY <1>1, AnswerIs
<1>3. /\ CapturedIr \in Seq(Bit) /\ Len(CapturedIr) \in Nat \ {0}
      /\ Idcode \in Seq(Bit) /\ Len(Idcode) \in Nat \ {0}
      /\ <<0>> \in Seq(Bit) /\ Len(<<0>>) \in Nat \ {0}
      /\ ByteBits + 1 \in Nat \ {0}
  BY CapturedIrIs, Patterns, PatternAssumption DEF Bit
<1> HIDE DEF a
<1>4. Captured(r, n, stk, l) \in {CapturedIr, Idcode, a, <<0>>}
  <2>1. CASE Program[r][n].kind = "ir"
    BY <2>1 DEF Captured
  <2>2. CASE Program[r][n].kind # "ir" /\ Selected(r, n)[l] = "IDCODE"
    BY <2>2 DEF Captured
  <2>3. CASE Program[r][n].kind # "ir" /\ Selected(r, n)[l] = "USER1"
    BY <2>3 DEF Captured, a
  <2>4. CASE /\ Program[r][n].kind # "ir"
             /\ Selected(r, n)[l] \notin {"IDCODE", "USER1"}
    BY <2>4 DEF Captured
  <2> QED
    BY <2>1, <2>2, <2>3, <2>4
<1> QED
  BY <1>2, <1>3, <1>4

Width(r, n) == Len(Program[r][n].bits)

(* What enters and what leaves each register, bit by bit: lane 1 sees what *)
(* the host shifts in, lane 0 what leaves lane 1.                          *)
LEMMA Streams ==
  ASSUME NEW r \in Requests, NEW n \in 1 .. Length(r),
         IsScan(Program[r][n]),
         NEW stk \in [Lanes -> Seq(Byte)], NEW l \in Lanes
  PROVE  /\ Width(r, n) \in Nat \ {0}
         /\ IntoLane(r, n, stk, l) \in Seq(Bit)
         /\ Len(IntoLane(r, n, stk, l)) = Width(r, n)
         /\ OutOf(r, n, stk, l)
              = Through(Captured(r, n, stk, l), UserLogic(r, n, l),
                        IntoLane(r, n, stk, l))
         /\ IntoLane(r, n, stk, 1) = Program[r][n].bits
         /\ \A i \in 1 .. Width(r, n) :
              IntoLane(r, n, stk, 0)[i] = OutOf(r, n, stk, 1)[i]
<1> DEFINE bits == Program[r][n].bits
           out == OutOf1(r, n, stk)
<1>1. bits \in Seq(Bit) /\ Len(bits) \in Nat \ {0}
  BY BitsOf
<1>2. 0 \in Lanes /\ 1 \in Lanes /\ Lanes = {0, 1}
  BY Patterns
<1>3. /\ Captured(r, n, stk, 1) \in Seq(Bit)
      /\ Len(Captured(r, n, stk, 1)) \in Nat \ {0}
  BY <1>2, CapturedBits
<1>4. UserLogic(r, n, 1) \in BOOLEAN
  BY DEF UserLogic
<1>5. out = Through(Captured(r, n, stk, 1), UserLogic(r, n, 1), bits)
  BY DEF OutOf1
<1>6. out \in Seq(Bit)
      /\ Len(out) = Len(Captured(r, n, stk, 1)) + Len(bits)
  <2> DEFINE c == Captured(r, n, stk, 1)
             user == UserLogic(r, n, 1)
  <2>1. c \in Seq(Bit) /\ user \in BOOLEAN /\ bits \in Seq(Bit)
    BY <1>1, <1>3, <1>4
  <2> HIDE DEF c, user, bits
  <2>2. /\ Through(c, user, bits) \in Seq(Bit)
        /\ Len(Through(c, user, bits)) = Len(c) + Len(bits)
    BY ONLY <2>1, ThroughIs, Zenon
  <2> QED
    BY <1>5, <2>2 DEF c, user
<1>7. IntoLane(r, n, stk, 1) = bits
  BY DEF IntoLane
<1>8. IntoLane(r, n, stk, 0) = SubSeq(out, 1, Len(bits))
  BY DEF IntoLane
<1>9. OutOf(r, n, stk, 1) = out
  BY DEF OutOf
<1>10. OutOf(r, n, stk, 0)
         = Through(Captured(r, n, stk, 0), UserLogic(r, n, 0),
                   IntoLane(r, n, stk, 0))
  BY DEF OutOf
<1> HIDE DEF out, bits
<1>11. /\ SubSeq(out, 1, Len(bits)) \in Seq(Bit)
       /\ Len(SubSeq(out, 1, Len(bits))) = Len(bits)
       /\ \A i \in 1 .. Len(bits) : SubSeq(out, 1, Len(bits))[i] = out[i]
  <2>1. Len(bits) \in Nat /\ Len(bits) <= Len(out)
    BY <1>1, <1>3, <1>6
  <2> QED
    BY <1>6, <2>1, BeginningOf
<1>12. Width(r, n) = Len(bits)
  BY DEF Width, bits
<1>13. CASE l = 0
  BY <1>1, <1>7, <1>8, <1>9, <1>10, <1>11, <1>12, <1>13 DEF bits
<1>14. CASE l = 1
  BY <1>1, <1>5, <1>7, <1>8, <1>9, <1>11, <1>12, <1>14 DEF bits
<1> QED
  BY <1>2, <1>13, <1>14

Flow(r, n, stk, l) ==
  LET out == OutOf(r, n, stk, l)
      c == Captured(r, n, stk, l)
      into == IntoLane(r, n, stk, l)
  IN  /\ out \in Seq(Bit) /\ Len(out) = Len(c) + Width(r, n)
      /\ Len(c) \in Nat \ {0}
      /\ \A i \in 1 .. Len(c) : out[i] = c[i]
      /\ \A i \in 1 .. Width(r, n) :
           /\ UserLogic(r, n, l) => out[Len(c) + i] = 0
           /\ ~UserLogic(r, n, l) => out[Len(c) + i] = into[i]

(* What leaves a register: first what it captured, then what entered.      *)
LEMMA OutOfBits ==
  ASSUME NEW r \in Requests, NEW n \in 1 .. Length(r),
         IsScan(Program[r][n]),
         NEW stk \in [Lanes -> Seq(Byte)], NEW l \in Lanes
  PROVE  Flow(r, n, stk, l)
<1> DEFINE out == OutOf(r, n, stk, l)
           c == Captured(r, n, stk, l)
           into == IntoLane(r, n, stk, l)
           user == UserLogic(r, n, l)
<1>1. c \in Seq(Bit) /\ Len(c) \in Nat \ {0}
  BY CapturedBits
<1>2. /\ into \in Seq(Bit) /\ Len(into) = Width(r, n)
      /\ out = Through(c, user, into)
  BY Streams
<1>3. user \in BOOLEAN
  BY DEF UserLogic
<1> HIDE DEF c, user, into, out
<1>4. c \in Seq(Bit) /\ user \in BOOLEAN /\ into \in Seq(Bit)
  BY <1>1, <1>2, <1>3
<1>5. /\ Through(c, user, into) \in Seq(Bit)
      /\ Len(Through(c, user, into)) = Len(c) + Len(into)
      /\ \A i \in 1 .. Len(c) : Through(c, user, into)[i] = c[i]
      /\ \A i \in 1 .. Len(into) :
           /\ user => Through(c, user, into)[Len(c) + i] = 0
           /\ ~user => Through(c, user, into)[Len(c) + i] = into[i]
  BY ONLY <1>4, ThroughIs, Zenon
<1>6. /\ out \in Seq(Bit) /\ Len(out) = Len(c) + Width(r, n)
      /\ \A i \in 1 .. Len(c) : out[i] = c[i]
      /\ \A i \in 1 .. Width(r, n) :
           /\ user => out[Len(c) + i] = 0
           /\ ~user => out[Len(c) + i] = into[i]
  BY ONLY <1>2, <1>5, Zenon
<1> QED
  BY <1>1, <1>6 DEF Flow, c, user, into, out

(* One shift of a register, as one step along its stream.                  *)
LEMMA StreamStep ==
  ASSUME NEW r \in Requests, NEW n \in 1 .. Length(r),
         IsScan(Program[r][n]),
         NEW stk \in [Lanes -> Seq(Byte)], NEW l \in Lanes,
         NEW k \in 0 .. Width(r, n) - 1
  PROVE  LET out == OutOf(r, n, stk, l)
             w == Len(Captured(r, n, stk, l))
             d == SubSeq(out, k + 1, k + w)
             bit == IF UserLogic(r, n, l) THEN 0
                    ELSE IntoLane(r, n, stk, l)[k + 1]
         IN  /\ d # <<>> /\ Head(d) = out[k + 1]
             /\ Append(Tail(d), bit) = SubSeq(out, k + 2, k + w + 1)
             /\ Append(SubSeq(out, 1, k), out[k + 1]) = SubSeq(out, 1, k + 1)
<1> DEFINE out == OutOf(r, n, stk, l)
           c == Captured(r, n, stk, l)
           w == Len(c)
           into == IntoLane(r, n, stk, l)
           user == UserLogic(r, n, l)
           bit == IF user THEN 0 ELSE into[k + 1]
<1>1. c \in Seq(Bit) /\ w \in Nat \ {0}
  BY CapturedBits
<1>2. /\ into \in Seq(Bit) /\ Len(into) = Width(r, n)
      /\ Width(r, n) \in Nat \ {0} /\ out = Through(c, user, into)
  BY Streams
<1>4. /\ out \in Seq(Bit) /\ Len(out) = w + Width(r, n)
      /\ \A i \in 1 .. Width(r, n) : /\ user => out[w + i] = 0
                                     /\ ~user => out[w + i] = into[i]
  BY OutOfBits DEF Flow
<1>5. k \in Nat /\ k + 1 \in 1 .. Width(r, n) /\ k + w < Len(out) /\ k < Len(out)
  BY <1>1, <1>2, <1>4
<1>6. out[k + w + 1] = bit
  <2>1. k + w + 1 = w + (k + 1)
    BY <1>1, <1>5
  <2> QED
    BY <1>4, <1>5, <2>1
<1> HIDE DEF out, c, into, user, w, bit
<1>7. /\ SubSeq(out, k + 1, k + w) # <<>>
      /\ Head(SubSeq(out, k + 1, k + w)) = out[k + 1]
      /\ Append(Tail(SubSeq(out, k + 1, k + w)), out[k + w + 1])
           = SubSeq(out, k + 2, k + w + 1)
  BY <1>1, <1>4, <1>5, SlideWindow
<1>8. Append(SubSeq(out, 1, k), out[k + 1]) = SubSeq(out, 1, k + 1)
  BY <1>4, <1>5, GrowPrefix
<1> QED
  BY <1>6, <1>7, <1>8 DEF out, c, into, user, w, bit

(* Two sequences of bits that agree are equal.                             *)
LEMMA SameBits ==
  ASSUME NEW s \in Seq(Bit), NEW t \in Seq(Bit), Len(s) = Len(t),
         \A i \in 1 .. Len(s) : s[i] = t[i]
  PROVE  s = t
  BY SeqEqual

(* A write scan brings its lane the word that is meant for it, shifted by  *)
(* the bypass bit of the card before it; the scan is one word long.        *)
LEMMA WordArrives ==
  ASSUME NEW r \in Requests, NEW n \in 1 .. Length(r),
         NEW lane \in Lanes, WriteAt(r, n, lane),
         NEW stk \in [Lanes -> Seq(Byte)]
  PROVE  /\ Width(r, n) = ByteBits + 1
         /\ WordsDone(r, n, lane) \in 0 .. Len(WordsFor(r, lane)) - 1
         /\ IntoLane(r, n, stk, lane)
              = WordsFor(r, lane)[WordsDone(r, n, lane) + 1]
<1> DEFINE k == WordsDone(r, n, lane)
           b == Frames[lane][k + 1]
           bits == Program[r][n].bits
<1>1. /\ k \in 0 .. FrameLen(lane) - 1 /\ FrameLen(lane) \in Nat
      /\ IsWrite(r)
      /\ r.kind = "ack" => r.lane = lane
      /\ Selected(r, n) = Only(lane, "USER2")
      /\ Program[r][n] = WriteScan(IF r.kind = "pair" THEN Tailpad(b)
                                   ELSE LanePad(lane, b))
  BY Patterns DEF WriteAt
<1>2. b \in Byte /\ r.kind \in {"pair", "ack"}
  BY <1>1, FrameByte, RequestIs
<1>3. /\ bits = IF r.kind = "pair" THEN Tailpad(b) ELSE LanePad(lane, b)
      /\ Program[r][n].kind = "dr" /\ IsScan(Program[r][n])
  BY <1>1, OperationFields DEF IsScan
<1>4. bits = IF r.kind = "pair" \/ lane = 0 THEN Low(b) ELSE High(b)
  BY <1>2, <1>3, PaddedByte, Patterns
<1>5. /\ Low(b) \in Seq(Bit) /\ Len(Low(b)) = ByteBits + 1
      /\ High(b) \in Seq(Bit) /\ Len(High(b)) = ByteBits + 1
      /\ \A i \in 1 .. ByteBits : Low(b)[i] = b[i] /\ High(b)[i + 1] = b[i]
      /\ High(b)[1] = 0 /\ ByteBits \in Nat
  BY <1>2, PaddedByte, Patterns
<1>6. bits \in Seq(Bit) /\ Len(bits) = ByteBits + 1 /\ Width(r, n) = ByteBits + 1
  BY <1>4, <1>5 DEF Width
<1>7. /\ WordsFor(r, lane)[k + 1] =
           (IF r.kind = "pair" /\ lane = 1 THEN Low(b) ELSE High(b))
      /\ Len(WordsFor(r, lane)) = FrameLen(lane)
  <2>1. k + 1 \in 1 .. FrameLen(lane) /\ DOMAIN Frames[lane] = 1 .. FrameLen(lane)
    BY <1>1, Patterns, LenProperties DEF FrameLen
  <2>2. CASE r.kind = "pair"
    <3>1. WordsFor(r, lane) =
            [i \in 1 .. FrameLen(lane) |-> IF lane = 0 THEN High(Frames[lane][i])
                                           ELSE Low(Frames[lane][i])]
      <4>1. r # Req("ack", lane)
        BY <2>2, RequestIs
      <4> QED
        BY <2>1, <2>2, <4>1 DEF WordsFor
    <3> QED
      BY <1>1, <2>1, <2>2, <3>1, Patterns
  <2>3. CASE r.kind = "ack"
    <3>1. WordsFor(r, lane) = [i \in 1 .. FrameLen(lane) |-> High(Frames[lane][i])]
      <4>1. r = Req("ack", lane)
        BY <1>1, <2>3, RequestIs
      <4> QED
        BY <2>1, <2>3, <4>1 DEF WordsFor
    <3> QED
      BY <1>1, <2>1, <2>3, <3>1
  <2> QED
    BY <1>2, <2>2, <2>3
<1>8. IntoLane(r, n, stk, 1) = bits
      /\ \A i \in 1 .. ByteBits + 1 :
           IntoLane(r, n, stk, 0)[i] = OutOf(r, n, stk, 1)[i]
  BY <1>3, <1>6, Streams, Patterns
<1>9. CASE lane = 1
  BY <1>1, <1>2, <1>4, <1>6, <1>7, <1>8, <1>9
<1>10. CASE lane = 0
  <2>1. Selected(r, n)[1] = "BYPASS" /\ 0 \in Lanes /\ 1 \in Lanes
    BY <1>1, <1>10, Patterns DEF Only
  <2>2. Captured(r, n, stk, 1) = <<0>> /\ ~UserLogic(r, n, 1)
    BY <1>3, <2>1 DEF Captured, UserLogic
  <2>3. Len(<<0>>) = 1 /\ <<0>>[1] = 0
    OBVIOUS
  <2>4. /\ OutOf(r, n, stk, 1)[1] = 0
        /\ \A i \in 1 .. ByteBits + 1 : OutOf(r, n, stk, 1)[1 + i] = bits[i]
    <3> DEFINE out == OutOf(r, n, stk, 1)
               c == Captured(r, n, stk, 1)
    <3>1. /\ \A i \in 1 .. Len(c) : out[i] = c[i]
          /\ \A i \in 1 .. Width(r, n) :
               ~UserLogic(r, n, 1) =>
                 out[Len(c) + i] = IntoLane(r, n, stk, 1)[i]
      <4>1. Flow(r, n, stk, 1)
        BY <1>3, <2>1, OutOfBits
      <4> QED
        BY <4>1 DEF Flow
    <3>2. c = <<0>>
      BY <2>2
    <3> HIDE DEF out, c
    <3>3. out[1] = 0
      BY <2>3, <3>1, <3>2
    <3>4. \A i \in 1 .. ByteBits + 1 : out[1 + i] = bits[i]
      BY <1>6, <1>8, <2>2, <2>3, <3>1, <3>2
    <3> QED
      BY <3>3, <3>4 DEF out
  <2>5. bits = Low(b)
    BY <1>4, <1>10
  <2>6. /\ IntoLane(r, n, stk, 0) \in Seq(Bit)
        /\ Len(IntoLane(r, n, stk, 0)) = ByteBits + 1
    BY <1>3, <1>6, <2>1, Streams
  <2> DEFINE into == IntoLane(r, n, stk, 0)
  <2>7. ASSUME NEW i \in 1 .. ByteBits + 1
        PROVE  into[i] = High(b)[i]
    <3>1. CASE i = 1
      BY <1>5, <1>8, <2>4, <3>1
    <3>2. CASE i > 1
      <4>1. /\ i - 1 \in 1 .. ByteBits + 1 /\ i - 1 \in 1 .. ByteBits
            /\ 1 + (i - 1) = i /\ (i - 1) + 1 = i
        BY <1>5, <3>2
      <4>2. into[i] = bits[i - 1]
        BY <1>8, <2>4, <4>1
      <4>3. High(b)[i] = b[i - 1] /\ Low(b)[i - 1] = b[i - 1]
        BY <1>5, <4>1
      <4> QED
        BY <2>5, <4>2, <4>3
    <3> QED
      BY <1>5, <3>1, <3>2
  <2> HIDE DEF into, b
  <2>8. into = High(b)
    BY <1>5, <2>6, <2>7, SameBits DEF into
  <2> QED
    BY <1>1, <1>6, <1>7, <1>10, <2>8 DEF into, b
<1> QED
  BY <1>9, <1>10, Patterns

(* A window of one lane holds the answer of its card where the host looks  *)
(* for it: behind the bypass bit of the other lane, or before it.          *)
LEMMA AnswerArrives ==
  ASSUME NEW r \in Requests, NEW n \in 1 .. Length(r), ReadAt(r, n),
         NEW stk \in [Lanes -> Seq(Byte)]
  PROVE  /\ Width(r, n) = ReadWidth
         /\ SubSeq(OutOf(r, n, stk, 0), 1, Width(r, n))
              = Window(r, WindowsDone(r, n) + 1, stk)
<1> DEFINE k == WindowsDone(r, n) + 1
           a == Answer(stk[r.lane], k)
           W == ReadWidth
           into0 == IntoLane(r, n, stk, 0)
           out0 == OutOf(r, n, stk, 0)
           out1 == OutOf(r, n, stk, 1)
<1>1. /\ Program[r][n] = ReadOp /\ Selected(r, n) = Only(r.lane, "USER1")
      /\ r.kind \in {"read", "ack"}
  BY DEF ReadAt
<1>2. /\ Program[r][n].kind = "dr" /\ IsScan(Program[r][n])
      /\ Program[r][n].bits = Zeros(W)
  BY <1>1, OperationFields DEF IsScan
<1>3. /\ W = ByteBits + 2 /\ W \in Nat \ {0} /\ ByteBits \in Nat
      /\ 0 \in Lanes /\ 1 \in Lanes /\ r.lane \in {0, 1}
  BY Patterns, RequestIs DEF ReadWidth
<1>4. Width(r, n) = W
  BY <1>2, <1>3, ZerosAndOnes DEF Width
<1>5. k \in Nat \ {0}
  <2>1. n \in Nat
    BY PlaceIsNat
  <2>2. WindowsDone(r, n) \in Nat
    BY <2>1, Counts
  <2> QED
    BY <2>2
<1>6. a \in Seq(Bit) /\ Len(a) = ByteBits + 1
  <2>1. stk[r.lane] \in Seq(Byte)
    BY <1>3
  <2> QED
    BY <1>5, <2>1, AnswerIs
<1>7. Flow(r, n, stk, 0) /\ Flow(r, n, stk, 1)
  BY <1>2, <1>3, OutOfBits
<1>8. \A i \in 1 .. W : into0[i] = out1[i]
  BY <1>2, <1>3, <1>4, Streams
<1>9. <<0>> \in Seq(Bit) /\ Len(<<0>>) = 1 /\ <<0>>[1] = 0
  BY DEF Bit
<1>10. CASE r.lane = 1
  <2>1. Selected(r, n)[1] = "USER1" /\ Selected(r, n)[0] = "BYPASS"
    BY <1>1, <1>3, <1>10 DEF Only
  <2>2. /\ Captured(r, n, stk, 1) = a /\ UserLogic(r, n, 1)
        /\ Captured(r, n, stk, 0) = <<0>> /\ ~UserLogic(r, n, 0)
    BY <1>2, <1>10, <2>1 DEF Captured, UserLogic
  <2>3. Window(r, k, stk) = <<0>> \o a
    BY <1>1, <1>10 DEF Window
  <2> HIDE DEF a, k, into0, out0, out1, W
  <2>4. /\ \A i \in 1 .. ByteBits + 1 : out1[i] = a[i]
        /\ out0 \in Seq(Bit) /\ Len(out0) = 1 + W /\ out0[1] = 0
        /\ \A i \in 1 .. W : out0[1 + i] = into0[i]
    <3>1. \A i \in 1 .. Len(a) : out1[i] = a[i]
      BY <1>7, <2>2 DEF Flow, out1
    <3>2. /\ out0 \in Seq(Bit) /\ Len(out0) = Len(<<0>>) + Width(r, n)
          /\ \A i \in 1 .. Len(<<0>>) : out0[i] = <<0>>[i]
          /\ \A i \in 1 .. Width(r, n) : out0[Len(<<0>>) + i] = into0[i]
      BY <1>7, <2>2 DEF Flow, out0, into0
    <3> QED
      BY <1>4, <1>6, <1>9, <3>1, <3>2
  <2>5. /\ <<0>> \o a \in Seq(Bit) /\ Len(<<0>> \o a) = Len(<<0>>) + Len(a)
        /\ \A i \in 1 .. Len(<<0>>) + Len(a) :
             (<<0>> \o a)[i] = IF i <= Len(<<0>>) THEN <<0>>[i]
                               ELSE a[i - Len(<<0>>)]
    BY <1>6, <1>9, TwoPieces
  <2>6. /\ SubSeq(out0, 1, W) \in Seq(Bit) /\ Len(SubSeq(out0, 1, W)) = W
        /\ \A i \in 1 .. W : SubSeq(out0, 1, W)[i] = out0[i]
    BY <1>3, <2>4, BeginningOf
  <2>7. ASSUME NEW i \in 1 .. W
        PROVE  SubSeq(out0, 1, W)[i] = (<<0>> \o a)[i]
    <3>1. CASE i = 1
      BY <1>3, <1>6, <1>9, <2>4, <2>5, <2>6, <3>1
    <3>2. CASE i > 1
      <4>1. /\ i - 1 \in 1 .. W /\ i - 1 \in 1 .. ByteBits + 1
            /\ 1 + (i - 1) = i /\ i \in 1 .. 1 + (ByteBits + 1) /\ ~(i <= 1)
        BY <1>3, <3>2
      <4>2. out0[i] = a[i - 1]
        BY <1>8, <2>4, <4>1
      <4>3. (<<0>> \o a)[i] = a[i - 1]
        BY <1>6, <1>9, <2>5, <4>1
      <4> QED
        BY <2>6, <4>2, <4>3
    <3>3. i = 1 \/ i > 1
      BY <1>3
    <3> QED
      BY <3>1, <3>2, <3>3
  <2>8. SubSeq(out0, 1, W) = <<0>> \o a
    BY <1>3, <1>6, <1>9, <2>5, <2>6, <2>7, SameBits
  <2> QED
    BY <1>4, <2>3, <2>8 DEF out0, k, W
<1>11. CASE r.lane = 0
  <2>1. Selected(r, n)[0] = "USER1"
    BY <1>1, <1>3, <1>11 DEF Only
  <2>2. Captured(r, n, stk, 0) = a /\ UserLogic(r, n, 0)
    BY <1>2, <1>11, <2>1 DEF Captured, UserLogic
  <2>3. Window(r, k, stk) = a \o <<0>>
    BY <1>1, <1>11 DEF Window
  <2> HIDE DEF a, k, into0, out0, out1, W
  <2>4. /\ out0 \in Seq(Bit) /\ Len(out0) = ByteBits + 1 + W
        /\ \A i \in 1 .. ByteBits + 1 : out0[i] = a[i]
        /\ \A i \in 1 .. W : out0[ByteBits + 1 + i] = 0
    <3>1. /\ out0 \in Seq(Bit) /\ Len(out0) = Len(a) + Width(r, n)
          /\ \A i \in 1 .. Len(a) : out0[i] = a[i]
          /\ \A i \in 1 .. Width(r, n) : out0[Len(a) + i] = 0
      BY <1>7, <2>2 DEF Flow, out0
    <3> QED
      BY <1>4, <1>6, <3>1
  <2>5. /\ a \o <<0>> \in Seq(Bit) /\ Len(a \o <<0>>) = Len(a) + Len(<<0>>)
        /\ \A i \in 1 .. Len(a) + Len(<<0>>) :
             (a \o <<0>>)[i] = IF i <= Len(a) THEN a[i] ELSE <<0>>[i - Len(a)]
    BY <1>6, <1>9, TwoPieces
  <2>6. /\ SubSeq(out0, 1, W) \in Seq(Bit) /\ Len(SubSeq(out0, 1, W)) = W
        /\ \A i \in 1 .. W : SubSeq(out0, 1, W)[i] = out0[i]
    BY <1>3, <2>4, BeginningOf
  <2>7. ASSUME NEW i \in 1 .. W
        PROVE  SubSeq(out0, 1, W)[i] = (a \o <<0>>)[i]
    <3>1. CASE i <= ByteBits + 1
      BY <1>3, <1>6, <1>9, <2>4, <2>5, <2>6, <3>1
    <3>2. CASE i > ByteBits + 1
      <4>1. i = ByteBits + 1 + 1 /\ i - (ByteBits + 1) = 1
        BY <1>3, <3>2
      <4>2. out0[ByteBits + 1 + 1] = 0
        <5>1. 1 \in 1 .. W
          BY <1>3
        <5> QED
          BY ONLY <2>4, <5>1, Zenon
      <4>3. (a \o <<0>>)[i] = 0
        BY <1>3, <1>6, <1>9, <2>5, <3>2, <4>1
      <4> QED
        BY <2>6, <4>1, <4>2, <4>3
    <3>3. i <= ByteBits + 1 \/ i > ByteBits + 1
      BY <1>3
    <3> QED
      BY <3>1, <3>2, <3>3
  <2>8. SubSeq(out0, 1, W) = a \o <<0>>
    BY <1>3, <1>6, <1>9, <2>5, <2>6, <2>7, SameBits
  <2> QED
    BY <1>4, <2>3, <2>8 DEF out0, k, W
<1> QED
  BY <1>3, <1>10, <1>11

(* After a reset the scan of both ID registers returns both, in order.     *)
LEMMA IdsArrive ==
  ASSUME NEW r \in Requests, NEW n \in 1 .. Length(r), IdsAt(r, n),
         NEW stk \in [Lanes -> Seq(Byte)]
  PROVE  SubSeq(OutOf(r, n, stk, 0), 1, Width(r, n))
           = Window(r, WindowsDone(r, n) + 1, stk)
<1> DEFINE L == Len(Idcode)
           into0 == IntoLane(r, n, stk, 0)
           out0 == OutOf(r, n, stk, 0)
           out1 == OutOf(r, n, stk, 1)
<1>1. r.kind = "idcodes" /\ Program[r][n] = IdScan
  BY DEF IdsAt
<1>2. /\ Program[r][n].kind = "dr" /\ IsScan(Program[r][n])
      /\ Program[r][n].bits = Zeros(LaneCount * L)
  BY <1>1, OperationFields DEF IsScan
<1>3. L \in Nat \ {0} /\ LaneCount * L = L + L /\ 0 \in Lanes /\ 1 \in Lanes
      /\ Idcode \in Seq(Bit)
  BY Patterns, PatternAssumption
<1>4. Width(r, n) = L + L
  BY <1>2, <1>3, ZerosAndOnes DEF Width
<1>5. Selected(r, n) = All("IDCODE")
  BY <1>1, PlaceIsNat, SelectedIs
<1>6. /\ Captured(r, n, stk, 1) = Idcode /\ ~UserLogic(r, n, 1)
      /\ Captured(r, n, stk, 0) = Idcode /\ ~UserLogic(r, n, 0)
  BY <1>2, <1>3, <1>5 DEF All, Captured, UserLogic
<1>7. Flow(r, n, stk, 0) /\ Flow(r, n, stk, 1)
  BY <1>2, <1>3, OutOfBits
<1>8. \A i \in 1 .. L + L : into0[i] = out1[i]
  BY <1>2, <1>3, <1>4, Streams
<1>9. Window(r, WindowsDone(r, n) + 1, stk) = Idcode \o Idcode
  BY <1>1 DEF Window
<1>10. /\ \A i \in 1 .. L : out1[i] = Idcode[i]
       /\ out0 \in Seq(Bit) /\ Len(out0) = L + (L + L)
       /\ \A i \in 1 .. L : out0[i] = Idcode[i]
       /\ \A i \in 1 .. L + L : out0[L + i] = into0[i]
  BY <1>4, <1>6, <1>7 DEF Flow
<1> HIDE DEF L, into0, out0, out1
<1>11. /\ Idcode \o Idcode \in Seq(Bit) /\ Len(Idcode \o Idcode) = L + L
       /\ \A i \in 1 .. L + L :
            (Idcode \o Idcode)[i] = IF i <= L THEN Idcode[i] ELSE Idcode[i - L]
  BY <1>3, TwoPieces DEF L
<1>12. /\ SubSeq(out0, 1, L + L) \in Seq(Bit)
       /\ Len(SubSeq(out0, 1, L + L)) = L + L
       /\ \A i \in 1 .. L + L : SubSeq(out0, 1, L + L)[i] = out0[i]
  <2>1. L + L \in Nat /\ L + L <= Len(out0)
    BY <1>3, <1>10
  <2> QED
    BY <1>10, <2>1, BeginningOf
<1>13. ASSUME NEW i \in 1 .. L + L
       PROVE  SubSeq(out0, 1, L + L)[i] = (Idcode \o Idcode)[i]
  <2>1. CASE i <= L
    BY <1>3, <1>10, <1>11, <1>12, <2>1
  <2>2. CASE i > L
    <3>1. i - L \in 1 .. L /\ i - L \in 1 .. L + L /\ L + (i - L) = i /\ ~(i <= L)
      BY <1>3, <2>2
    <3>2. out0[i] = Idcode[i - L]
      BY <1>8, <1>10, <3>1
    <3> QED
      BY <1>11, <1>12, <3>1, <3>2
  <2>3. i <= L \/ i > L
    BY <1>3
  <2> QED
    BY <2>1, <2>2, <2>3
<1>14. SubSeq(out0, 1, L + L) = Idcode \o Idcode
  BY <1>11, <1>12, <1>13, SameBits
<1> QED
  BY <1>4, <1>9, <1>14 DEF out0

(* The probe and the ones behind it.                                       *)
LEMMA ProbeStreamIs ==
  /\ ProbeStream \in Seq(Bit) /\ Len(ProbeStream) = Len(Probe) + Len(Probe)
  /\ \A i \in 1 .. Len(Probe) : ProbeStream[i] = Probe[i]
  /\ \A i \in 1 .. Len(Probe) : ProbeStream[Len(Probe) + i] = 1
<1> DEFINE P == Len(Probe)
           o == Ones(P)
<1>1. P \in Nat /\ Probe \in Seq(Bit)
  BY Patterns, PatternAssumption
<1>2. o \in Seq(Bit) /\ Len(o) = P /\ \A i \in 1 .. P : o[i] = 1
  BY <1>1, ZerosAndOnes
<1>3. ProbeStream = Probe \o o
  BY DEF ProbeStream
<1> HIDE DEF o
<1>4. /\ Probe \o o \in Seq(Bit) /\ Len(Probe \o o) = Len(Probe) + Len(o)
      /\ \A i \in 1 .. Len(Probe) + Len(o) :
           (Probe \o o)[i] = IF i <= Len(Probe) THEN Probe[i]
                             ELSE o[i - Len(Probe)]
  BY <1>1, <1>2, TwoPieces
<1> HIDE DEF P
<1>5. ASSUME NEW i \in 1 .. P
      PROVE  ProbeStream[P + i] = 1
  <2>1. /\ P + i \in 1 .. P + P /\ ~(P + i <= P) /\ P + i - P = i
    BY <1>1
  <2> QED
    BY <1>2, <1>3, <1>4, <2>1 DEF P
<1> QED
  BY <1>1, <1>2, <1>3, <1>4, <1>5 DEF P

(* An instruction scan takes every register through both lanes: behind its *)
(* last bit each holds the cells that were shifted for it.                 *)
LEMMA CellsSettle ==
  ASSUME NEW r \in Requests, NEW n \in 1 .. Length(r),
         Program[r][n].kind = "ir", Width(r, n) >= 2 * IrBits,
         NEW stk \in [Lanes -> Seq(Byte)]
  PROVE  LET W == Width(r, n)
             bits == Program[r][n].bits
         IN  /\ W \in Nat
             /\ \A l \in Lanes : Len(Captured(r, n, stk, l)) = IrBits
             /\ SubSeq(OutOf(r, n, stk, 1), W + 1, W + IrBits)
                  = SubSeq(bits, W - IrBits + 1, W)
             /\ SubSeq(OutOf(r, n, stk, 0), W + 1, W + IrBits)
                  = SubSeq(bits, W - 2 * IrBits + 1, W - IrBits)
<1> DEFINE W == Width(r, n)
           bits == Program[r][n].bits
           out0 == OutOf(r, n, stk, 0)
           out1 == OutOf(r, n, stk, 1)
           into0 == IntoLane(r, n, stk, 0)
<1>1. IsScan(Program[r][n])
  BY DEF IsScan
<1>2. /\ IrBits \in Nat \ {0} /\ 0 \in Lanes /\ 1 \in Lanes
      /\ \A l \in Lanes : l = 0 \/ l = 1
  BY Patterns
<1>3. \A l \in Lanes :
        Captured(r, n, stk, l) = CapturedIr /\ ~UserLogic(r, n, l)
  BY DEF Captured, UserLogic
<1>4. Len(CapturedIr) = IrBits
  BY CapturedIrIs
<1>5. bits \in Seq(Bit) /\ Len(bits) = W /\ W \in Nat \ {0}
  BY <1>1, BitsOf DEF Width
<1>6. Flow(r, n, stk, 0) /\ Flow(r, n, stk, 1)
  BY <1>1, <1>2, OutOfBits
<1>7. /\ IntoLane(r, n, stk, 1) = bits
      /\ \A i \in 1 .. W : into0[i] = out1[i]
  BY <1>1, <1>2, Streams
<1>8. /\ out1 \in Seq(Bit) /\ Len(out1) = IrBits + W
      /\ \A i \in 1 .. W : out1[IrBits + i] = bits[i]
      /\ out0 \in Seq(Bit) /\ Len(out0) = IrBits + W
      /\ \A i \in 1 .. W : out0[IrBits + i] = into0[i]
  BY <1>2, <1>3, <1>4, <1>6, <1>7 DEF Flow
<1>9. W >= 2 * IrBits
  OBVIOUS
<1> HIDE DEF W, bits, out0, out1, into0
<1> DEFINE last1 == SubSeq(out1, W + 1, W + IrBits)
           last0 == SubSeq(out0, W + 1, W + IrBits)
           cells1 == SubSeq(bits, W - IrBits + 1, W)
           cells0 == SubSeq(bits, W - 2 * IrBits + 1, W - IrBits)
<1>11. /\ last1 \in Seq(Bit) /\ Len(last1) = IrBits
       /\ \A i \in 1 .. IrBits : last1[i] = out1[W + i]
       /\ last0 \in Seq(Bit) /\ Len(last0) = IrBits
       /\ \A i \in 1 .. IrBits : last0[i] = out0[W + i]
  <2>1. W \in Nat /\ IrBits \in Nat /\ W + IrBits <= Len(out1)
        /\ W + IrBits <= Len(out0)
    BY <1>2, <1>5, <1>8
  <2> QED
    BY <1>8, <2>1, PieceOf
<1>13. /\ cells1 \in Seq(Bit) /\ Len(cells1) = IrBits
       /\ \A i \in 1 .. IrBits : cells1[i] = bits[W - IrBits + i]
  <2> DEFINE m == W - IrBits
  <2>1. /\ m \in Nat /\ IrBits \in Nat /\ m + IrBits <= Len(bits)
        /\ m + IrBits = W
    BY <1>2, <1>5, <1>9
  <2>2. cells1 = SubSeq(bits, m + 1, W)
    OBVIOUS
  <2> HIDE DEF m, cells1
  <2>3. /\ SubSeq(bits, m + 1, m + IrBits) \in Seq(Bit)
        /\ Len(SubSeq(bits, m + 1, m + IrBits)) = IrBits
        /\ \A i \in 1 .. IrBits :
             SubSeq(bits, m + 1, m + IrBits)[i] = bits[m + i]
    BY <1>5, <2>1, PieceOf
  <2> QED
    BY <2>1, <2>2, <2>3 DEF m
<1>14. /\ cells0 \in Seq(Bit) /\ Len(cells0) = IrBits
       /\ \A i \in 1 .. IrBits : cells0[i] = bits[W - 2 * IrBits + i]
  <2> DEFINE m == W - 2 * IrBits
  <2>1. /\ m \in Nat /\ IrBits \in Nat /\ m + IrBits <= Len(bits)
        /\ m + IrBits = W - IrBits
    BY <1>2, <1>5, <1>9
  <2>2. cells0 = SubSeq(bits, m + 1, W - IrBits)
    OBVIOUS
  <2> HIDE DEF m, cells0
  <2>3. /\ SubSeq(bits, m + 1, m + IrBits) \in Seq(Bit)
        /\ Len(SubSeq(bits, m + 1, m + IrBits)) = IrBits
        /\ \A i \in 1 .. IrBits :
             SubSeq(bits, m + 1, m + IrBits)[i] = bits[m + i]
    BY <1>5, <2>1, PieceOf
  <2> QED
    BY <2>1, <2>2, <2>3 DEF m
<1> HIDE DEF last0, last1, cells0, cells1
<1>15. ASSUME NEW i \in 1 .. IrBits
       PROVE  last1[i] = cells1[i]
  <2>1. W - IrBits + i \in 1 .. W /\ IrBits + (W - IrBits + i) = W + i
    BY <1>2, <1>5, <1>9
  <2>2. out1[IrBits + (W - IrBits + i)] = bits[W - IrBits + i]
    BY <1>8, <2>1
  <2> QED
    BY <1>11, <1>13, <2>1, <2>2
<1>16. ASSUME NEW i \in 1 .. IrBits
       PROVE  last0[i] = cells0[i]
  <2>1. /\ W - IrBits + i \in 1 .. W /\ IrBits + (W - IrBits + i) = W + i
        /\ W - 2 * IrBits + i \in 1 .. W
        /\ IrBits + (W - 2 * IrBits + i) = W - IrBits + i
    BY <1>2, <1>5, <1>9
  <2>2. /\ out0[IrBits + (W - IrBits + i)] = into0[W - IrBits + i]
        /\ into0[W - IrBits + i] = out1[W - IrBits + i]
        /\ out1[IrBits + (W - 2 * IrBits + i)] = bits[W - 2 * IrBits + i]
    BY <1>7, <1>8, <2>1
  <2> QED
    BY <1>11, <1>14, <2>1, <2>2
<1>17. last1 = cells1 /\ last0 = cells0
  BY <1>11, <1>13, <1>14, <1>15, <1>16, SameBits
<1> QED
  BY <1>3, <1>4, <1>5, <1>17 DEF W, bits, out0, out1, last0, last1, cells0, cells1

(* The opcodes a program leaves in the instruction registers: one lane's   *)
(* instruction and BYPASS, or BYPASS in both behind the probe.             *)
LEMMA SelectSettles ==
  ASSUME NEW r \in Requests, NEW n \in 1 .. Length(r),
         NEW lane \in Lanes, NEW i \in DOMAIN Opcode,
         Program[r][n] = SetIrLane(lane, i),
         NEW stk \in [Lanes -> Seq(Byte)], NEW l \in Lanes
  PROVE  /\ Only(lane, i)[l] \in DOMAIN Opcode
         /\ SubSeq(OutOf(r, n, stk, l), Width(r, n) + 1,
                   Width(r, n) + Len(Captured(r, n, stk, l)))
              = Opcode[Only(lane, i)[l]]
<1> DEFINE bits == Program[r][n].bits
           first == Opcode[Only(lane, i)[0]]
           second == Opcode[Only(lane, i)[1]]
<1>1. /\ IrBits \in Nat \ {0} /\ 0 \in Lanes /\ 1 \in Lanes
      /\ l = 0 \/ l = 1
  BY Patterns
<1>2. Program[r][n].kind = "ir" /\ bits = IrStream(lane, i)
  BY OperationFields
<1>3. \A j \in Lanes : Only(lane, i)[j] \in DOMAIN Opcode
  BY Opcodes DEF Only
<1>4. /\ bits \in Seq(Bit) /\ Len(bits) = 2 * IrBits
      /\ \A k \in 1 .. 2 * IrBits :
           bits[k] = IF k <= IrBits THEN first[k] ELSE second[k - IrBits]
  BY <1>2, IrStreamParts
<1>5. /\ first \in Seq(Bit) /\ Len(first) = IrBits
      /\ second \in Seq(Bit) /\ Len(second) = IrBits
  BY <1>1, <1>3, Opcodes
<1>6. Width(r, n) = 2 * IrBits /\ 2 * IrBits \in Nat
  BY <1>1, <1>4 DEF Width
<1>7. /\ Len(Captured(r, n, stk, l)) = IrBits
      /\ SubSeq(OutOf(r, n, stk, 1), Width(r, n) + 1, Width(r, n) + IrBits)
           = SubSeq(bits, Width(r, n) - IrBits + 1, Width(r, n))
      /\ SubSeq(OutOf(r, n, stk, 0), Width(r, n) + 1, Width(r, n) + IrBits)
           = SubSeq(bits, Width(r, n) - 2 * IrBits + 1, Width(r, n) - IrBits)
  <2>1. Width(r, n) >= 2 * IrBits
    BY <1>1, <1>6
  <2> QED
    BY <1>2, <2>1, CellsSettle
<1>8. /\ Width(r, n) - IrBits + 1 = IrBits + 1
      /\ Width(r, n) = IrBits + IrBits
      /\ Width(r, n) - 2 * IrBits + 1 = 0 + 1
      /\ Width(r, n) - IrBits = 0 + IrBits
  BY <1>1, <1>6
<1> HIDE DEF bits, first, second
<1>9. /\ SubSeq(bits, IrBits + 1, IrBits + IrBits) \in Seq(Bit)
      /\ Len(SubSeq(bits, IrBits + 1, IrBits + IrBits)) = IrBits
      /\ \A k \in 1 .. IrBits :
           SubSeq(bits, IrBits + 1, IrBits + IrBits)[k] = bits[IrBits + k]
      /\ SubSeq(bits, 0 + 1, 0 + IrBits) \in Seq(Bit)
      /\ Len(SubSeq(bits, 0 + 1, 0 + IrBits)) = IrBits
      /\ \A k \in 1 .. IrBits : SubSeq(bits, 0 + 1, 0 + IrBits)[k] = bits[0 + k]
  <2>1. /\ IrBits \in Nat /\ 0 \in Nat /\ IrBits + IrBits <= Len(bits)
        /\ 0 + IrBits <= Len(bits)
    BY <1>1, <1>4
  <2> QED
    BY <1>4, <2>1, PieceOf
<1>10. \A k \in 1 .. IrBits : bits[IrBits + k] = second[k] /\ bits[0 + k] = first[k]
  <2> TAKE k \in 1 .. IrBits
  <2>1. /\ IrBits + k \in 1 .. 2 * IrBits /\ ~(IrBits + k <= IrBits)
        /\ IrBits + k - IrBits = k /\ 0 + k = k /\ k \in 1 .. 2 * IrBits
        /\ k <= IrBits
    BY <1>1
  <2>2. bits[IrBits + k] = second[IrBits + k - IrBits] /\ bits[k] = first[k]
    BY <1>1, <1>4, <2>1
  <2> QED
    BY <2>1, <2>2
<1>11. /\ SubSeq(bits, IrBits + 1, IrBits + IrBits) = second
       /\ SubSeq(bits, 0 + 1, 0 + IrBits) = first
  <2> DEFINE s == SubSeq(bits, IrBits + 1, IrBits + IrBits)
             t == SubSeq(bits, 0 + 1, 0 + IrBits)
  <2>1. /\ s \in Seq(Bit) /\ Len(s) = Len(second)
        /\ t \in Seq(Bit) /\ Len(t) = Len(first)
    BY <1>5, <1>9
  <2>2. /\ \A k \in 1 .. Len(s) : s[k] = second[k]
        /\ \A k \in 1 .. Len(t) : t[k] = first[k]
    BY ONLY <1>9, <1>10, Zenon
  <2> HIDE DEF s, t
  <2>3. s = second /\ t = first
    BY <1>5, <2>1, <2>2, SameBits
  <2> QED
    BY <2>3 DEF s, t
<1>12. CASE l = 1
  BY <1>3, <1>7, <1>8, <1>11, <1>12 DEF second
<1>13. CASE l = 0
  BY <1>3, <1>7, <1>8, <1>11, <1>13 DEF first
<1> QED
  BY <1>1, <1>12, <1>13

(* After the measurement the ones behind the probe fill both registers.    *)
LEMMA ProbeSettles ==
  ASSUME NEW r \in Requests, NEW n \in 1 .. Length(r),
         Program[r][n] = ProbeScan,
         NEW stk \in [Lanes -> Seq(Byte)], NEW l \in Lanes
  PROVE  SubSeq(OutOf(r, n, stk, l), Width(r, n) + 1,
                Width(r, n) + Len(Captured(r, n, stk, l)))
           = Opcode["BYPASS"]
<1> DEFINE bits == Program[r][n].bits
           P == Len(Probe)
           a == P + P - IrBits
           b == P + P - 2 * IrBits
           cells1 == SubSeq(bits, a + 1, a + IrBits)
           cells0 == SubSeq(bits, b + 1, b + IrBits)
<1>1. /\ IrBits \in Nat \ {0} /\ 0 \in Lanes /\ 1 \in Lanes
      /\ l = 0 \/ l = 1
      /\ P \in Nat /\ P >= 2 * IrBits
  BY Patterns
<1>2. Program[r][n].kind = "ir" /\ bits = ProbeStream
  BY OperationFields
<1>3. bits \in Seq(Bit) /\ Len(bits) = P + P
      /\ \A k \in 1 .. P : bits[P + k] = 1
  BY <1>2, ProbeStreamIs
<1>4. Width(r, n) = P + P /\ P + P \in Nat
  BY <1>1, <1>3 DEF Width
<1>5. /\ Len(Captured(r, n, stk, l)) = IrBits
      /\ SubSeq(OutOf(r, n, stk, 1), Width(r, n) + 1, Width(r, n) + IrBits)
           = SubSeq(bits, Width(r, n) - IrBits + 1, Width(r, n))
      /\ SubSeq(OutOf(r, n, stk, 0), Width(r, n) + 1, Width(r, n) + IrBits)
           = SubSeq(bits, Width(r, n) - 2 * IrBits + 1, Width(r, n) - IrBits)
  <2>1. Width(r, n) >= 2 * IrBits
    BY <1>1, <1>4
  <2> QED
    BY <1>2, <2>1, CellsSettle
<1>6. /\ a \in Nat /\ b \in Nat /\ a + IrBits = P + P
      /\ b + IrBits = P + P - IrBits
      /\ a >= P /\ b >= P
  BY <1>1
<1> HIDE DEF bits, P, a, b, cells0, cells1
<1>7. /\ SubSeq(OutOf(r, n, stk, 1), Width(r, n) + 1, Width(r, n) + IrBits)
           = cells1
      /\ SubSeq(OutOf(r, n, stk, 0), Width(r, n) + 1, Width(r, n) + IrBits)
           = cells0
  <2>1. /\ Width(r, n) - IrBits + 1 = a + 1 /\ Width(r, n) = a + IrBits
        /\ Width(r, n) - 2 * IrBits + 1 = b + 1
        /\ Width(r, n) - IrBits = b + IrBits
    BY <1>1, <1>4 DEF a, b
  <2> QED
    BY <1>5, <2>1 DEF cells0, cells1
<1>8. /\ cells1 \in Seq(Bit) /\ Len(cells1) = IrBits
      /\ \A k \in 1 .. IrBits : cells1[k] = bits[a + k]
      /\ cells0 \in Seq(Bit) /\ Len(cells0) = IrBits
      /\ \A k \in 1 .. IrBits : cells0[k] = bits[b + k]
  <2>1. /\ IrBits \in Nat /\ a + IrBits <= Len(bits) /\ b + IrBits <= Len(bits)
    BY <1>1, <1>3, <1>6
  <2> QED
    BY <1>3, <1>6, <2>1, PieceOf DEF cells0, cells1
<1>9. \A k \in 1 .. IrBits : bits[a + k] = 1 /\ bits[b + k] = 1
  <2> TAKE k \in 1 .. IrBits
  <2>1. /\ a + k - P \in 1 .. P /\ P + (a + k - P) = a + k
        /\ b + k - P \in 1 .. P /\ P + (b + k - P) = b + k
    BY <1>1, <1>6
  <2> QED
    BY <1>3, <2>1
<1>10. /\ Ones(IrBits) \in Seq(Bit) /\ Len(Ones(IrBits)) = IrBits
       /\ \A k \in 1 .. IrBits : Ones(IrBits)[k] = 1
  BY <1>1, ZerosAndOnes
<1> HIDE DEF Ones
<1>11. cells1 = Ones(IrBits) /\ cells0 = Ones(IrBits)
  BY <1>8, <1>9, <1>10, SameBits
<1>12. Opcode["BYPASS"] = Ones(IrBits)
  BY DEF Opcode
<1> QED
  BY <1>1, <1>5, <1>7, <1>11, <1>12

(* What a healthy chain answers to the probe.                              *)
LEMMA IrAnswerIs ==
  /\ IrAnswer \in Seq(Bit)
  /\ Len(IrAnswer) = 2 * IrBits + Len(Probe) + Len(Probe)
  /\ \A i \in 1 .. IrBits :
       IrAnswer[i] = CapturedIr[i] /\ IrAnswer[IrBits + i] = CapturedIr[i]
  /\ \A i \in 1 .. Len(Probe) + Len(Probe) :
       IrAnswer[2 * IrBits + i] = ProbeStream[i]
<1> DEFINE c == CapturedIr
           cc == CapturedIr \o CapturedIr
           o == Ones(Len(Probe))
           P == Len(Probe)
<1>1. /\ c \in Seq(Bit) /\ Len(c) = IrBits /\ IrBits \in Nat
      /\ Probe \in Seq(Bit) /\ P \in Nat
  BY CapturedIrIs, Patterns, PatternAssumption
<1>2. o \in Seq(Bit) /\ Len(o) = P
  BY <1>1, ZerosAndOnes
<1>3. /\ cc \in Seq(Bit) /\ Len(cc) = IrBits + IrBits
      /\ \A i \in 1 .. IrBits + IrBits :
           cc[i] = IF i <= IrBits THEN c[i] ELSE c[i - IrBits]
  BY <1>1, TwoPieces
<1>4. IrAnswer = cc \o Probe \o o
  BY DEF IrAnswer
<1>5. ProbeStream = Probe \o o
  BY DEF ProbeStream
<1> HIDE DEF c, cc, o
<1>6. (cc \o Probe) \o o = cc \o (Probe \o o)
  <2>1. cc \in Seq(Bit) /\ Probe \in Seq(Bit) /\ o \in Seq(Bit)
    BY <1>1, <1>2, <1>3
  <2> QED
    BY <2>1, ConcatAssociative
<1>7. IrAnswer = cc \o ProbeStream
  BY <1>4, <1>5, <1>6
<1>8. ProbeStream \in Seq(Bit) /\ Len(ProbeStream) = P + P
  BY ProbeStreamIs
<1> HIDE DEF P
<1>9. /\ IrAnswer \in Seq(Bit) /\ Len(IrAnswer) = Len(cc) + Len(ProbeStream)
      /\ \A i \in 1 .. Len(cc) + Len(ProbeStream) :
           IrAnswer[i] = IF i <= Len(cc) THEN cc[i] ELSE ProbeStream[i - Len(cc)]
  BY <1>3, <1>7, <1>8, TwoPieces
<1>10. Len(cc) = 2 * IrBits
  BY <1>1, <1>3
<1>11. ASSUME NEW i \in 1 .. IrBits
       PROVE  IrAnswer[i] = c[i] /\ IrAnswer[IrBits + i] = c[i]
  <2>1. /\ i \in 1 .. Len(cc) + Len(ProbeStream) /\ i <= Len(cc)
        /\ IrBits + i \in 1 .. Len(cc) + Len(ProbeStream)
        /\ IrBits + i <= Len(cc) /\ ~(IrBits + i <= IrBits)
        /\ IrBits + i - IrBits = i /\ i <= IrBits
        /\ i \in 1 .. IrBits + IrBits /\ IrBits + i \in 1 .. IrBits + IrBits
    BY <1>1, <1>8, <1>10
  <2>2. IrAnswer[i] = cc[i] /\ IrAnswer[IrBits + i] = cc[IrBits + i]
    BY ONLY <1>9, <2>1, Zenon
  <2>3. cc[i] = c[i] /\ cc[IrBits + i] = c[IrBits + i - IrBits]
    BY <1>1, <1>3, <2>1
  <2> QED
    BY <2>1, <2>2, <2>3
<1>12. ASSUME NEW i \in 1 .. P + P
       PROVE  IrAnswer[2 * IrBits + i] = ProbeStream[i]
  <2>1. /\ Len(cc) + i \in 1 .. Len(cc) + Len(ProbeStream)
        /\ ~(Len(cc) + i <= Len(cc)) /\ Len(cc) + i - Len(cc) = i
    BY <1>1, <1>8, <1>10
  <2> QED
    BY <1>9, <1>10, <2>1
<1>13. Len(IrAnswer) = 2 * IrBits + P + P
  BY <1>1, <1>8, <1>9, <1>10
<1> QED
  BY <1>9, <1>11, <1>12, <1>13 DEF c, P

(* The probe's window is the beginning of that answer.                     *)
LEMMA ProbeArrives ==
  ASSUME NEW r \in Requests, NEW n \in 1 .. Length(r), ProbeAt(r, n),
         NEW stk \in [Lanes -> Seq(Byte)]
  PROVE  SubSeq(OutOf(r, n, stk, 0), 1, Width(r, n))
           = Window(r, WindowsDone(r, n) + 1, stk)
<1> DEFINE P == Len(Probe)
           W == P + P
           bits == Program[r][n].bits
           into0 == IntoLane(r, n, stk, 0)
           out0 == OutOf(r, n, stk, 0)
           out1 == OutOf(r, n, stk, 1)
<1>1. /\ r.kind = "irdelay" /\ Program[r][n].kind = "ir"
      /\ bits = ProbeStream /\ IsScan(Program[r][n])
  BY OperationFields DEF ProbeAt, IsScan
<1>2. /\ IrBits \in Nat /\ P \in Nat /\ P >= 2 * IrBits /\ 0 \in Lanes
      /\ 1 \in Lanes /\ W \in Nat /\ 2 * P = W
  BY Patterns
<1>3. Width(r, n) = W
  BY <1>1, ProbeStreamIs DEF Width
<1>4. \A l \in Lanes :
        Captured(r, n, stk, l) = CapturedIr /\ ~UserLogic(r, n, l)
  BY <1>1 DEF Captured, UserLogic
<1>5. Flow(r, n, stk, 0) /\ Flow(r, n, stk, 1)
  BY <1>1, <1>2, OutOfBits
<1>6. /\ IntoLane(r, n, stk, 1) = bits
      /\ \A i \in 1 .. W : into0[i] = out1[i]
  BY <1>1, <1>2, <1>3, Streams
<1>7. /\ \A i \in 1 .. IrBits : out1[i] = CapturedIr[i]
      /\ \A i \in 1 .. W : out1[IrBits + i] = ProbeStream[i]
      /\ out0 \in Seq(Bit) /\ Len(out0) = IrBits + W
      /\ \A i \in 1 .. IrBits : out0[i] = CapturedIr[i]
      /\ \A i \in 1 .. W : out0[IrBits + i] = into0[i]
  BY <1>1, <1>2, <1>3, <1>4, <1>5, <1>6, CapturedIrIs DEF Flow
<1>8. Window(r, WindowsDone(r, n) + 1, stk) = SubSeq(IrAnswer, 1, 2 * P)
  BY <1>1 DEF Window
<1>9. /\ IrAnswer \in Seq(Bit) /\ Len(IrAnswer) = 2 * IrBits + P + P
      /\ \A i \in 1 .. IrBits : /\ IrAnswer[i] = CapturedIr[i]
                                /\ IrAnswer[IrBits + i] = CapturedIr[i]
      /\ \A i \in 1 .. W : IrAnswer[2 * IrBits + i] = ProbeStream[i]
  BY IrAnswerIs
<1> HIDE DEF P, W, bits, into0, out0, out1
<1>10. W <= Len(out0) /\ W <= Len(IrAnswer)
  BY <1>2, <1>7, <1>9 DEF W
<1>11. /\ SubSeq(out0, 1, W) \in Seq(Bit) /\ Len(SubSeq(out0, 1, W)) = W
       /\ \A i \in 1 .. W : SubSeq(out0, 1, W)[i] = out0[i]
  BY <1>2, <1>7, <1>10, BeginningOf
<1>12. /\ SubSeq(IrAnswer, 1, W) \in Seq(Bit)
       /\ Len(SubSeq(IrAnswer, 1, W)) = W
       /\ \A i \in 1 .. W : SubSeq(IrAnswer, 1, W)[i] = IrAnswer[i]
  BY <1>2, <1>9, <1>10, BeginningOf
<1>13. ASSUME NEW i \in 1 .. W
       PROVE  out0[i] = IrAnswer[i]
  <2>1. CASE i <= IrBits
    <3>1. i \in 1 .. IrBits
      BY <2>1
    <3> QED
      BY <1>7, <1>9, <3>1
  <2>2. CASE i > IrBits /\ i <= 2 * IrBits
    <3>1. /\ i - IrBits \in 1 .. IrBits /\ i - IrBits \in 1 .. W
          /\ IrBits + (i - IrBits) = i
      BY <1>2, <2>2
    <3>2. out0[i] = CapturedIr[i - IrBits]
      BY <1>6, <1>7, <3>1
    <3> QED
      BY <1>9, <3>1, <3>2
  <2>3. CASE i > 2 * IrBits
    <3>1. /\ i - IrBits \in 1 .. W /\ i - 2 * IrBits \in 1 .. W
          /\ IrBits + (i - IrBits) = i /\ 2 * IrBits + (i - 2 * IrBits) = i
          /\ IrBits + (i - 2 * IrBits) = i - IrBits
      BY <1>2, <2>3
    <3>2. out0[i] = ProbeStream[i - 2 * IrBits]
      BY <1>6, <1>7, <3>1
    <3> QED
      BY <1>9, <3>1, <3>2
  <2>4. i <= IrBits \/ (i > IrBits /\ i <= 2 * IrBits) \/ i > 2 * IrBits
    BY <1>2
  <2> QED
    BY <2>1, <2>2, <2>3, <2>4
<1>14. SubSeq(out0, 1, W) = SubSeq(IrAnswer, 1, W)
  BY <1>11, <1>12, <1>13, SameBits
<1> QED
  BY <1>2, <1>3, <1>8, <1>14 DEF out0

-----------------------------------------------------------------------------
(* One clock of an operation.                                              *)

(* The clocks of an operation and the TMS bits of its lead.                *)
LEMMA Leads ==
  ASSUME NEW o
  PROVE  /\ o.kind = "tlr" => /\ LeadOf(o) = 6 /\ ~IsScan(o) /\ Clocks(o) = 6
                              /\ \A a \in 1 .. 6 : Tms(o, a) = 1
         /\ o.kind = "reset" => /\ LeadOf(o) = 7 /\ ~IsScan(o) /\ Clocks(o) = 7
                                /\ \A a \in 1 .. 6 : Tms(o, a) = 1
                                /\ Tms(o, 7) = 0
         /\ o.kind = "idle" => /\ ~IsScan(o) /\ Clocks(o) = IdleClocks
                               /\ \A a \in 1 .. IdleClocks : Tms(o, a) = 0
         /\ o.kind = "ir" => LeadOf(o) = 4 /\ IsScan(o)
         /\ o.kind = "dr" => LeadOf(o) = 3 /\ IsScan(o)
<1>1. /\ Lead["tlr"] = <<1, 1, 1, 1, 1, 1>>
      /\ Lead["reset"] = <<1, 1, 1, 1, 1, 1, 0>>
      /\ Lead["idle"] = Zeros(IdleClocks)
      /\ Lead["ir"] = <<1, 1, 0, 0>> /\ Lead["dr"] = <<1, 0, 0>>
  BY DEF Lead
<1>2. /\ Zeros(IdleClocks) \in Seq(Bit) /\ Len(Zeros(IdleClocks)) = IdleClocks
      /\ \A a \in 1 .. IdleClocks : Zeros(IdleClocks)[a] = 0
      /\ IdleClocks \in Nat
  BY Patterns, ZerosAndOnes
<1>3. CASE o.kind = "tlr"
  <2>1. LeadOf(o) = 6 /\ ~IsScan(o)
    BY <1>1, <1>3 DEF LeadOf, IsScan
  <2> QED
    BY <1>1, <1>3, <2>1 DEF Clocks, Tms
<1>4. CASE o.kind = "reset"
  <2>1. LeadOf(o) = 7 /\ ~IsScan(o)
    BY <1>1, <1>4 DEF LeadOf, IsScan
  <2> QED
    BY <1>1, <1>4, <2>1 DEF Clocks, Tms
<1>5. CASE o.kind = "idle"
  <2> HIDE DEF Zeros
  <2>1. LeadOf(o) = IdleClocks /\ ~IsScan(o)
    BY <1>1, <1>2, <1>5 DEF LeadOf, IsScan
  <2>2. Clocks(o) = IdleClocks
    BY <1>2, <2>1 DEF Clocks
  <2>3. \A a \in 1 .. IdleClocks : Tms(o, a) = 0
    BY <1>1, <1>2, <1>5, <2>1 DEF Tms
  <2> QED
    BY <1>5, <2>1, <2>2, <2>3
<1>6. CASE o.kind = "ir"
  BY <1>1, <1>6 DEF LeadOf, IsScan
<1>7. CASE o.kind = "dr"
  BY <1>1, <1>7 DEF LeadOf, IsScan
<1> QED
  BY <1>3, <1>4, <1>5, <1>6, <1>7

(* The clocks of a scan: the lead, the bits, and two that end it.          *)
LEMMA ScanClocks ==
  ASSUME NEW o, IsScan(o), Len(o.bits) \in Nat \ {0}
  PROVE  LET L == LeadOf(o)
             N == Len(o.bits)
         IN  /\ L \in {3, 4} /\ Clocks(o) = L + N + 2
             /\ o.kind = "dr" => /\ L = 3 /\ Tms(o, 1) = 1
                                 /\ Tms(o, 2) = 0 /\ Tms(o, 3) = 0
             /\ o.kind = "ir" => /\ L = 4 /\ Tms(o, 1) = 1 /\ Tms(o, 2) = 1
                                 /\ Tms(o, 3) = 0 /\ Tms(o, 4) = 0
             /\ \A a \in 1 .. N - 1 : Tms(o, L + a) = 0
             /\ Tms(o, L + N) = 1 /\ Tms(o, L + N + 1) = 1
             /\ Tms(o, L + N + 2) = 0
             /\ \A a \in Nat : Shifting(o, a) <=> a \in L + 1 .. L + N
             /\ \A a \in Nat : Shifting(o, a) => Tdi(o, a) = o.bits[a - L]
<1> DEFINE L == LeadOf(o)
           N == Len(o.bits)
<1>1. o.kind \in {"ir", "dr"}
  BY DEF IsScan
<1>2. L \in {3, 4} /\ (o.kind = "dr" => L = 3) /\ (o.kind = "ir" => L = 4)
  BY <1>1, Leads
<1>3. Lead["ir"] = <<1, 1, 0, 0>> /\ Lead["dr"] = <<1, 0, 0>>
  BY DEF Lead
<1>4. N \in Nat \ {0}
  OBVIOUS
<1>5. Clocks(o) = L + N + 2
  BY <1>2, <1>4 DEF Clocks
<1>6. /\ \A a \in Nat : a <= L => Tms(o, a) = Lead[o.kind][a]
      /\ \A a \in Nat, b \in Nat :
           a = L + b /\ b > 0 => Tms(o, a) = IF b \in {N, N + 1} THEN 1 ELSE 0
  <2>1. \A a \in Nat : a <= L => Tms(o, a) = Lead[o.kind][a]
    BY DEF Tms
  <2>2. ASSUME NEW a \in Nat, NEW b \in Nat, a = L + b, b > 0
        PROVE  Tms(o, a) = IF b \in {N, N + 1} THEN 1 ELSE 0
    <3>1. L \in Nat
      BY <1>2
    <3> HIDE DEF L, N
    <3>2. ~(a <= L) /\ a - L = b
      BY <2>2, <3>1
    <3> QED
      BY <3>2 DEF Tms, L, N
  <2> QED
    BY <2>1, <2>2
<1>7. \A a \in Nat : Shifting(o, a) <=> a - L \in 1 .. N
  BY DEF Shifting
<1>8. \A a \in Nat : Shifting(o, a) => Tdi(o, a) = o.bits[a - L]
  BY DEF Tdi
<1> HIDE DEF L, N
<1>9. /\ \A a \in 1 .. N - 1 : Tms(o, L + a) = 0
      /\ Tms(o, L + N) = 1 /\ Tms(o, L + N + 1) = 1 /\ Tms(o, L + N + 2) = 0
  <2>1. ASSUME NEW a \in 1 .. N - 1 PROVE Tms(o, L + a) = 0
    <3>1. L + a \in Nat /\ a \in Nat /\ a > 0 /\ a \notin {N, N + 1}
      BY <1>2, <1>4
    <3> QED
      BY <1>6, <3>1
  <2>2. /\ L + N \in Nat /\ N > 0
        /\ L + N + 1 \in Nat /\ N + 1 \in Nat /\ N + 1 > 0
        /\ L + N + 1 = L + (N + 1)
        /\ L + N + 2 \in Nat /\ N + 2 \in Nat /\ N + 2 > 0
        /\ L + N + 2 = L + (N + 2) /\ N + 2 \notin {N, N + 1}
    BY <1>2, <1>4
  <2> QED
    BY <1>4, <1>6, <2>1, <2>2
<1>10. \A a \in Nat : a - L \in 1 .. N <=> a \in L + 1 .. L + N
  BY <1>2, <1>4
<1>11. o.kind = "dr" => Tms(o, 1) = 1 /\ Tms(o, 2) = 0 /\ Tms(o, 3) = 0
  BY <1>2, <1>3, <1>6
<1>12. o.kind = "ir" => /\ Tms(o, 1) = 1 /\ Tms(o, 2) = 1
                        /\ Tms(o, 3) = 0 /\ Tms(o, 4) = 0
  BY <1>2, <1>3, <1>6
<1> QED
  BY <1>2, <1>5, <1>7, <1>8, <1>9, <1>10, <1>11, <1>12 DEF L, N

(* Six ones lead to TLR from every state of the TAP.                       *)
LEMMA SixOnes ==
  /\ \A t \in DOMAIN TapNext : /\ TapNext[t][1] \in DOMAIN TapNext
                               /\ TapNext[t][2] \in DOMAIN TapNext
  /\ \A a \in 1 .. 6 : \A t \in AfterOnes[a] : TapNext[t][2] \in AfterOnes[a + 1]
  /\ \A a \in 2 .. 7 : /\ "ShDR" \notin AfterOnes[a]
                       /\ "CapDR" \notin AfterOnes[a]
  /\ \A a \in 1 .. 7 : AfterOnes[a] \subseteq DOMAIN TapNext
  /\ AfterOnes[1] = DOMAIN TapNext
  /\ AfterOnes[6] = {"TLR"} /\ AfterOnes[7] = {"TLR"}
<1>1. DOMAIN TapNext =
        {"TLR", "RTI", "SelDR", "SelIR", "CapDR", "CapIR", "ShDR", "ShIR",
         "Ex1DR", "Ex1IR", "PauDR", "PauIR", "Ex2DR", "Ex2IR", "UpdDR", "UpdIR"}
  BY DEF TapNext
<1>2. \A t \in DOMAIN TapNext :
        TapNext[t][1] \in DOMAIN TapNext /\ TapNext[t][2] \in DOMAIN TapNext
  BY <1>1 DEF TapNext
<1>3. /\ AfterOnes[1] = DOMAIN TapNext
      /\ AfterOnes[2] = {"SelDR", "SelIR", "TLR", "Ex1DR", "UpdDR", "Ex2DR",
                         "Ex1IR", "UpdIR", "Ex2IR"}
      /\ AfterOnes[3] = {"SelDR", "SelIR", "TLR", "UpdDR", "UpdIR"}
      /\ AfterOnes[4] = {"SelDR", "SelIR", "TLR"}
      /\ AfterOnes[5] = {"SelIR", "TLR"}
      /\ AfterOnes[6] = {"TLR"} /\ AfterOnes[7] = {"TLR"}
  BY DEF AfterOnes
<1>4. /\ \A t \in AfterOnes[1] : TapNext[t][2] \in AfterOnes[2]
      /\ \A t \in AfterOnes[2] : TapNext[t][2] \in AfterOnes[3]
      /\ \A t \in AfterOnes[3] : TapNext[t][2] \in AfterOnes[4]
      /\ \A t \in AfterOnes[4] : TapNext[t][2] \in AfterOnes[5]
      /\ \A t \in AfterOnes[5] : TapNext[t][2] \in AfterOnes[6]
      /\ \A t \in AfterOnes[6] : TapNext[t][2] \in AfterOnes[7]
  BY <1>1, <1>3 DEF TapNext
<1>5. \A a \in 1 .. 6 : \A t \in AfterOnes[a] : TapNext[t][2] \in AfterOnes[a + 1]
  <2> TAKE a \in 1 .. 6
  <2>1. a \in {1, 2, 3, 4, 5, 6}
    OBVIOUS
  <2> QED
    BY <1>4, <2>1
<1>6. \A a \in 2 .. 7 : "ShDR" \notin AfterOnes[a] /\ "CapDR" \notin AfterOnes[a]
  <2> TAKE a \in 2 .. 7
  <2>1. a \in {2, 3, 4, 5, 6, 7}
    OBVIOUS
  <2> QED
    BY <1>3, <2>1
<1>7. \A a \in 1 .. 7 : AfterOnes[a] \subseteq DOMAIN TapNext
  <2> TAKE a \in 1 .. 7
  <2>1. a \in {1, 2, 3, 4, 5, 6, 7}
    OBVIOUS
  <2> QED
    BY <1>1, <1>3, <2>1
<1> QED
  BY <1>2, <1>3, <1>5, <1>6, <1>7

(* The operation that a clock belongs to.                                  *)
LEMMA Running ==
  ASSUME TypeOK, request # NoRequest, op \in DOMAIN Program[request]
  PROVE  /\ request \in Requests /\ op \in 1 .. Length(request)
         /\ op \in Nat /\ op > 0 /\ at \in Nat
         /\ Ends = Length(request) /\ Length(request) \in Nat
         /\ Here \in Operation /\ Here = Program[request][op]
         /\ Known(request, op) /\ InOp
         /\ stock \in [Lanes -> Seq(Byte)]
         /\ IsScan(Here) => /\ Width(request, op) = Len(Here.bits)
                            /\ Len(Here.bits) \in Nat \ {0}
<1>1. request \in Requests /\ op \in Nat /\ at \in Nat
      /\ stock \in [Lanes -> Seq(Byte)]
  BY DEF TypeOK
<1>2. /\ Program[request] \in Seq(Operation)
      /\ Len(Program[request]) = Length(request)
      /\ Length(request) \in Nat
  BY <1>1, ProgramIs
<1>3. DOMAIN Program[request] = 1 .. Length(request)
  BY <1>2, LenProperties
<1>4. op \in 1 .. Length(request)
  BY <1>3
<1>5. Here \in Operation /\ Here = Program[request][op]
  BY <1>2, <1>4, ElementOfSeq DEF Here
<1>6. Ends = Length(request)
  BY <1>2 DEF Ends
<1>7. InOp /\ op > 0
  BY <1>2, <1>4, <1>6 DEF InOp
<1>8. IsScan(Here) => /\ Width(request, op) = Len(Here.bits)
                      /\ Len(Here.bits) \in Nat \ {0}
  BY <1>1, <1>4, <1>5, BitsOf DEF Width
<1> QED
  BY <1>1, <1>2, <1>4, <1>5, <1>6, <1>7, <1>8, Positions

(* What every clock does, whatever it shifts: it leaves the host alone and *)
(* goes to the next clock of the operation or to the next operation.       *)
LEMMA ClockIs ==
  ASSUME TypeOK, Clock
  PROVE  /\ request # NoRequest /\ op \in DOMAIN Program[request]
         /\ tap' = TapNext[tap][Tms(Here, at) + 1]
         /\ Record(Here)
         /\ Capture \/ Shift(Tdi(Here, at)) \/ InstructionStep(Tdi(Here, at))
         /\ request' = request /\ stage' = stage /\ client' = client
         /\ write' = write /\ stock' = stock /\ misread' = misread
         /\ requests' = requests /\ Ends' = Ends
         /\ at < Clocks(Here) =>
              /\ op' = op /\ at' = at + 1 /\ Here' = Here /\ InOp'
         /\ ~(at < Clocks(Here)) => op' = op + 1 /\ at' = 1
<1>1. /\ request # NoRequest /\ op \in DOMAIN Program[request]
      /\ Capture \/ Shift(Tdi(Here, at)) \/ InstructionStep(Tdi(Here, at))
      /\ tap' = TapNext[tap][Tms(Here, at) + 1]
      /\ Record(Here)
      /\ IF at < Clocks(Here) THEN op' = op /\ at' = at + 1
         ELSE op' = op + 1 /\ at' = 1
  BY DEF Clock, Here
<1>2. /\ request' = request /\ stage' = stage /\ client' = client
      /\ write' = write /\ stock' = stock /\ misread' = misread
      /\ requests' = requests
  BY DEF Clock, history
<1>3. Ends' = Ends
  BY <1>2 DEF Ends
<1>4. at < Clocks(Here) => Here' = Here /\ InOp'
  <2>1. request # NoRequest /\ op <= Ends
    BY <1>1, Running DEF InOp
  <2> QED
    BY <1>1, <1>2, <1>3, <2>1 DEF InOp, Here
<1> QED
  BY <1>1, <1>2, <1>3, <1>4

(* The TAP on its way through a scan of len bits, clock by clock.          *)
LEMMA ScanWays ==
  ASSUME NEW len \in Nat \ {0}
  PROVE  /\ TapInDr(1, len) = "RTI" /\ TapInDr(2, len) = "SelDR"
         /\ TapInDr(3, len) = "CapDR"
         /\ \A a \in 4 .. len + 3 : TapInDr(a, len) = "ShDR"
         /\ TapInDr(len + 4, len) = "Ex1DR" /\ TapInDr(len + 5, len) = "UpdDR"
         /\ TapInIr(1, len) = "RTI" /\ TapInIr(2, len) = "SelDR"
         /\ TapInIr(3, len) = "SelIR" /\ TapInIr(4, len) = "CapIR"
         /\ \A a \in 5 .. len + 4 : TapInIr(a, len) = "ShIR"
         /\ TapInIr(len + 5, len) = "Ex1IR" /\ TapInIr(len + 6, len) = "UpdIR"
  BY DEF TapInDr, TapInIr

(* A scan takes the TAP from RTI through its own branch and back.          *)
LEMMA ScanGoesOn ==
  ASSUME NEW o, IsScan(o), Len(o.bits) \in Nat \ {0},
         NEW a \in 1 .. Clocks(o)
  PROVE  LET len == Len(o.bits)
             next(t) == TapNext[t][Tms(o, a) + 1]
         IN  /\ o.kind = "dr" =>
                  next(TapInDr(a, len)) =
                    IF a < Clocks(o) THEN TapInDr(a + 1, len) ELSE "RTI"
             /\ o.kind = "ir" =>
                  next(TapInIr(a, len)) =
                    IF a < Clocks(o) THEN TapInIr(a + 1, len) ELSE "RTI"
<1> DEFINE len == Len(o.bits)
<1>1. len \in Nat \ {0}
  OBVIOUS
<1>2. /\ LeadOf(o) \in {3, 4} /\ Clocks(o) = LeadOf(o) + len + 2
      /\ o.kind = "dr" => /\ LeadOf(o) = 3 /\ Tms(o, 1) = 1
                          /\ Tms(o, 2) = 0 /\ Tms(o, 3) = 0
      /\ o.kind = "ir" => /\ LeadOf(o) = 4 /\ Tms(o, 1) = 1 /\ Tms(o, 2) = 1
                          /\ Tms(o, 3) = 0 /\ Tms(o, 4) = 0
      /\ \A b \in 1 .. len - 1 : Tms(o, LeadOf(o) + b) = 0
      /\ Tms(o, LeadOf(o) + len) = 1 /\ Tms(o, LeadOf(o) + len + 1) = 1
      /\ Tms(o, LeadOf(o) + len + 2) = 0
  BY ScanClocks
<1>3. /\ TapNext["RTI"][1] = "RTI" /\ TapNext["RTI"][2] = "SelDR"
      /\ TapNext["SelDR"][1] = "CapDR" /\ TapNext["SelDR"][2] = "SelIR"
      /\ TapNext["SelIR"][1] = "CapIR"
      /\ TapNext["CapDR"][1] = "ShDR" /\ TapNext["CapIR"][1] = "ShIR"
      /\ TapNext["ShDR"][1] = "ShDR" /\ TapNext["ShDR"][2] = "Ex1DR"
      /\ TapNext["ShIR"][1] = "ShIR" /\ TapNext["ShIR"][2] = "Ex1IR"
      /\ TapNext["Ex1DR"][2] = "UpdDR" /\ TapNext["Ex1IR"][2] = "UpdIR"
      /\ TapNext["UpdDR"][1] = "RTI" /\ TapNext["UpdIR"][1] = "RTI"
  BY DEF TapNext
<1>4. /\ TapInDr(1, len) = "RTI" /\ TapInDr(2, len) = "SelDR"
      /\ TapInDr(3, len) = "CapDR"
      /\ \A b \in 4 .. len + 3 : TapInDr(b, len) = "ShDR"
      /\ TapInDr(len + 4, len) = "Ex1DR" /\ TapInDr(len + 5, len) = "UpdDR"
      /\ TapInIr(1, len) = "RTI" /\ TapInIr(2, len) = "SelDR"
      /\ TapInIr(3, len) = "SelIR" /\ TapInIr(4, len) = "CapIR"
      /\ \A b \in 5 .. len + 4 : TapInIr(b, len) = "ShIR"
      /\ TapInIr(len + 5, len) = "Ex1IR" /\ TapInIr(len + 6, len) = "UpdIR"
  BY <1>1, ScanWays
<1> HIDE DEF len
<1> DEFINE next(t) == TapNext[t][Tms(o, a) + 1]
<1>5. ASSUME o.kind = "dr"
      PROVE  next(TapInDr(a, len)) =
               IF a < Clocks(o) THEN TapInDr(a + 1, len) ELSE "RTI"
  <2>0. /\ LeadOf(o) = 3 /\ Clocks(o) = len + 5
        /\ Tms(o, len + 3) = 1 /\ Tms(o, len + 4) = 1 /\ Tms(o, len + 5) = 0
    <3>1. LeadOf(o) = 3
      BY <1>2, <1>5
    <3>2. 3 + len = len + 3 /\ 3 + len + 1 = len + 4 /\ 3 + len + 2 = len + 5
      BY <1>1
    <3> QED
      BY <1>2, <3>1, <3>2
  <2>1. CASE a = 1
    BY <1>1, <1>2, <1>3, <1>4, <1>5, <2>0, <2>1
  <2>2. CASE a = 2
    BY <1>1, <1>2, <1>3, <1>4, <1>5, <2>0, <2>2
  <2>3. CASE a = 3
    <3>1. 4 \in 4 .. len + 3
      BY <1>1
    <3> QED
      BY <1>1, <1>2, <1>3, <1>4, <1>5, <2>0, <2>3, <3>1
  <2>4. CASE a \in 4 .. len + 2
    <3>1. a - 3 \in 1 .. len - 1 /\ 3 + (a - 3) = a
      BY <1>1, <2>4
    <3>2. Tms(o, a) = 0
      BY <1>2, <2>0, <3>1
    <3>3. a \in 4 .. len + 3 /\ a + 1 \in 4 .. len + 3 /\ a < Clocks(o)
      BY <1>1, <2>0, <2>4
    <3> QED
      BY <1>3, <1>4, <3>2, <3>3
  <2>5. CASE a = len + 3
    <3>1. a \in 4 .. len + 3 /\ a < Clocks(o) /\ a + 1 = len + 4
      BY <1>1, <2>0, <2>5
    <3> QED
      BY <1>3, <1>4, <2>0, <2>5, <3>1
  <2>6. CASE a = len + 4
    <3>1. a < Clocks(o) /\ a + 1 = len + 5
      BY <1>1, <2>0, <2>6
    <3> QED
      BY <1>3, <1>4, <2>0, <2>6, <3>1
  <2>7. CASE a = len + 5
    BY <1>1, <1>3, <1>4, <2>0, <2>7
  <2>8. a \in {1, 2, 3} \cup (4 .. len + 2) \cup {len + 3, len + 4, len + 5}
    BY <1>1, <2>0
  <2> QED
    BY <2>1, <2>2, <2>3, <2>4, <2>5, <2>6, <2>7, <2>8
<1>6. ASSUME o.kind = "ir"
      PROVE  next(TapInIr(a, len)) =
               IF a < Clocks(o) THEN TapInIr(a + 1, len) ELSE "RTI"
  <2>0. /\ LeadOf(o) = 4 /\ Clocks(o) = len + 6
        /\ Tms(o, len + 4) = 1 /\ Tms(o, len + 5) = 1 /\ Tms(o, len + 6) = 0
    <3>1. LeadOf(o) = 4
      BY <1>2, <1>6
    <3>2. 4 + len = len + 4 /\ 4 + len + 1 = len + 5 /\ 4 + len + 2 = len + 6
      BY <1>1
    <3> QED
      BY <1>2, <3>1, <3>2
  <2>1. CASE a = 1
    BY <1>1, <1>2, <1>3, <1>4, <1>6, <2>0, <2>1
  <2>2. CASE a = 2
    BY <1>1, <1>2, <1>3, <1>4, <1>6, <2>0, <2>2
  <2>3. CASE a = 3
    BY <1>1, <1>2, <1>3, <1>4, <1>6, <2>0, <2>3
  <2>4. CASE a = 4
    <3>1. 5 \in 5 .. len + 4
      BY <1>1
    <3> QED
      BY <1>1, <1>2, <1>3, <1>4, <1>6, <2>0, <2>4, <3>1
  <2>5. CASE a \in 5 .. len + 3
    <3>1. a - 4 \in 1 .. len - 1 /\ 4 + (a - 4) = a
      BY <1>1, <2>5
    <3>2. Tms(o, a) = 0
      BY <1>2, <2>0, <3>1
    <3>3. a \in 5 .. len + 4 /\ a + 1 \in 5 .. len + 4 /\ a < Clocks(o)
      BY <1>1, <2>0, <2>5
    <3> QED
      BY <1>3, <1>4, <3>2, <3>3
  <2>6. CASE a = len + 4
    <3>1. a \in 5 .. len + 4 /\ a < Clocks(o) /\ a + 1 = len + 5
      BY <1>1, <2>0, <2>6
    <3> QED
      BY <1>3, <1>4, <2>0, <2>6, <3>1
  <2>7. CASE a = len + 5
    <3>1. a < Clocks(o) /\ a + 1 = len + 6
      BY <1>1, <2>0, <2>7
    <3> QED
      BY <1>3, <1>4, <2>0, <2>7, <3>1
  <2>8. CASE a = len + 6
    BY <1>1, <1>3, <1>4, <2>0, <2>8
  <2>9. a \in {1, 2, 3, 4} \cup (5 .. len + 3) \cup {len + 4, len + 5, len + 6}
    BY <1>1, <2>0
  <2> QED
    BY <2>1, <2>2, <2>3, <2>4, <2>5, <2>6, <2>7, <2>8, <2>9
<1> QED
  BY <1>5, <1>6 DEF len

(* The instruction registers change in TLR and in Update-IR only.          *)
LEMMA InstrIs ==
  ASSUME TypeOK, Clock
  PROVE  /\ tap \notin {"TLR", "UpdIR"} => instr' = instr
         /\ tap = "TLR" => instr' = All("IDCODE")
         /\ tap = "UpdIR" => instr' = [l \in Lanes |-> Decode(dr[l])]
<1>1. Capture \/ Shift(Tdi(Here, at)) \/ InstructionStep(Tdi(Here, at))
  BY ClockIs
<1>2. CASE Capture
  BY <1>2 DEF Capture
<1>3. CASE Shift(Tdi(Here, at))
  BY <1>3 DEF Shift
<1>4. CASE InstructionStep(Tdi(Here, at))
  BY <1>4 DEF InstructionStep, All
<1> QED
  BY <1>1, <1>2, <1>3, <1>4

(* Each kind of operation has its places.                                  *)
LEMMA KindIs ==
  ASSUME NEW r \in Requests, NEW n \in 1 .. Length(r)
  PROVE  LET o == Program[r][n]
         IN  /\ o.kind \in {"tlr", "reset", "idle", "ir", "dr"}
             /\ o.kind \in {"tlr", "reset", "idle"} => PauseAt(r, n)
             /\ o.kind = "ir" => SelectAt(r, n) \/ ProbeAt(r, n)
             /\ o.kind = "dr" => \/ IdsAt(r, n) \/ ReadAt(r, n)
                                 \/ \E lane \in Lanes : WriteAt(r, n, lane)
             /\ o.kind = "tlr" <=> r.kind = "reset"
<1> DEFINE o == Program[r][n]
<1>1. Known(r, n)
  BY Positions
<1>2. o.kind \in {"tlr", "reset", "idle", "ir", "dr"}
  <2>1. o \in Operation
    BY ProgramIs, ElementOfSeq
  <2> QED
    BY <2>1 DEF Operation
<1>3. PauseAt(r, n) => /\ o.kind \in {"tlr", "reset", "idle"}
                       /\ o.kind = "tlr" <=> r.kind = "reset"
  BY DEF PauseAt
<1>4. SelectAt(r, n) => o.kind = "ir" /\ r.kind # "reset"
  BY OperationFields DEF SelectAt
<1>5. ProbeAt(r, n) => o.kind = "ir" /\ r.kind # "reset"
  BY OperationFields DEF ProbeAt
<1>6. IdsAt(r, n) => o.kind = "dr" /\ r.kind # "reset"
  BY OperationFields DEF IdsAt
<1>7. \A lane \in Lanes :
        WriteAt(r, n, lane) => o.kind = "dr" /\ r.kind # "reset"
  BY OperationFields DEF WriteAt, IsWrite
<1>8. ReadAt(r, n) => o.kind = "dr" /\ r.kind # "reset"
  BY OperationFields DEF ReadAt
<1> HIDE DEF o
<1>9. /\ o.kind \in {"tlr", "reset", "idle"} => PauseAt(r, n)
      /\ o.kind = "ir" => SelectAt(r, n) \/ ProbeAt(r, n)
      /\ o.kind = "dr" => \/ IdsAt(r, n) \/ ReadAt(r, n)
                          \/ \E lane \in Lanes : WriteAt(r, n, lane)
      /\ o.kind = "tlr" <=> r.kind = "reset"
  BY <1>1, <1>2, <1>3, <1>4, <1>5, <1>6, <1>7, <1>8 DEF Known
<1> QED
  BY <1>2, <1>9 DEF o

(* What the TAP needs of the last clock of an operation.                   *)
LEMMA NextOperation ==
  ASSUME TypeOK, Clock, ~(at < Clocks(Here)),
         tap' = IF Here.kind = "tlr" THEN "TLR" ELSE "RTI",
         NextIsData(request, op) => instr' = Selected(request, op + 1),
         request.kind = "irdelay" /\ op = 2 => instr' = All("BYPASS")
  PROVE  TapIsThere'
<1>1. /\ request # NoRequest /\ op \in DOMAIN Program[request]
      /\ request' = request /\ Ends' = Ends /\ op' = op + 1 /\ at' = 1
  BY ClockIs
<1>2. /\ request \in Requests /\ op \in 1 .. Length(request)
      /\ op \in Nat /\ Ends = Length(request) /\ Length(request) \in Nat
      /\ Here = Program[request][op] /\ Known(request, op)
  BY <1>1, Running
<1>3. InOp' <=> op < Ends
  BY <1>1, <1>2 DEF InOp
<1>4. Here' = Program[request][op + 1]
  BY <1>1 DEF Here
<1>5. ASSUME op < Ends
      PROVE  /\ op' > 0 /\ at' \in 1 .. Clocks(Here')
             /\ Here'.kind \in {"reset", "tlr"} => InReset'
             /\ Here'.kind = "idle" => tap' = "RTI"
             /\ Here'.kind = "dr" => /\ tap' = TapInDr(at', Len(Here'.bits))
                                     /\ instr' = Selected(request', op')
             /\ Here'.kind = "ir" => tap' = TapInIr(at', Len(Here'.bits))
  <2>1. op + 1 \in 1 .. Length(request) /\ op' > 0
    BY <1>1, <1>2, <1>5
  <2>2. Here' \in Operation
    BY <1>2, <1>4, <2>1, ProgramIs, ElementOfSeq
  <2>3. IsScan(Here') => Len(Here'.bits) \in Nat \ {0}
    BY <1>2, <1>4, <2>1, BitsOf
  <2>4. Here'.kind \in {"tlr", "reset", "idle", "ir", "dr"}
    BY <2>2 DEF Operation
  <2>5. tap' = "RTI"
    <3>1. Here.kind # "tlr"
      <4>1. Here.kind = "tlr" => PauseAt(request, op) /\ request.kind = "reset"
        BY <1>2, KindIs
      <4> QED
        BY <1>2, <1>5, <4>1 DEF PauseAt
    <3> QED
      BY <3>1
  <2>6. at' \in 1 .. Clocks(Here')
    <3>1. CASE IsScan(Here')
      <4>1. LeadOf(Here') \in {3, 4}
            /\ Clocks(Here') = LeadOf(Here') + Len(Here'.bits) + 2
        BY <2>3, <3>1, ScanClocks
      <4> QED
        BY <1>1, <2>3, <3>1, <4>1
    <3>2. CASE ~IsScan(Here')
      <4>1. Clocks(Here') \in {6, 7, IdleClocks}
        BY <2>4, <3>2, Leads
      <4> QED
        BY <1>1, <4>1, Patterns
    <3> QED
      BY <3>1, <3>2
  <2>7. Here'.kind \in {"reset", "tlr"} => InReset'
    <3>1. tap' \in AfterOnes[at']
      <4>1. "RTI" \in DOMAIN TapNext
        BY DEF TapNext
      <4> QED
        BY <1>1, <2>5, <4>1, SixOnes
    <3> QED
      BY <1>1, <2>5, <3>1 DEF InReset
  <2>8. Here'.kind = "dr" => tap' = TapInDr(at', Len(Here'.bits))
    BY <1>1, <2>5 DEF TapInDr
  <2>9. Here'.kind = "ir" => tap' = TapInIr(at', Len(Here'.bits))
    BY <1>1, <2>5 DEF TapInIr
  <2>10. Here'.kind = "dr" => instr' = Selected(request', op')
    BY <1>1, <1>2, <1>4, <1>5 DEF NextIsData
  <2> QED
    BY <2>1, <2>5, <2>6, <2>7, <2>8, <2>9, <2>10
<1>6. ASSUME ~(op < Ends)
      PROVE  /\ op' = Ends' + 1 /\ at' = 1
             /\ tap' = IF request'.kind = "reset" THEN "TLR" ELSE "RTI"
             /\ request'.kind = "irdelay" => instr' = All("BYPASS")
  <2>1. op = Length(request) /\ op' = Ends' + 1
    BY <1>1, <1>2, <1>6
  <2>2. Here.kind = "tlr" <=> request.kind = "reset"
    BY <1>2, KindIs
  <2>3. request.kind = "irdelay" => op = 2
    BY <2>1 DEF Length
  <2> QED
    BY <1>1, <2>1, <2>2, <2>3
<1> QED
  BY <1>1, <1>3, <1>5, <1>6 DEF TapIsThere

(* The last clock of an instruction scan hands the cells to the lanes.     *)
LEMMA InstructionsSettle ==
  ASSUME TypeOK, TapIsThere, RegistersHold, Clock,
         Here.kind = "ir", ~(at < Clocks(Here))
  PROVE  /\ NextIsData(request, op) => instr' = Selected(request, op + 1)
         /\ request.kind = "irdelay" /\ op = 2 => instr' = All("BYPASS")
<1>1. request # NoRequest /\ op \in DOMAIN Program[request]
  BY ClockIs
<1>2. /\ request \in Requests /\ op \in 1 .. Length(request)
      /\ Here = Program[request][op] /\ InOp
      /\ stock \in [Lanes -> Seq(Byte)] /\ at \in Nat
  BY <1>1, Running
<1>3. IsScan(Here) /\ LeadOf(Here) = 4
  BY Leads
<1>4. Width(request, op) = Len(Here.bits) /\ Len(Here.bits) \in Nat \ {0}
  BY <1>1, <1>3, Running
<1> DEFINE W == Width(request, op)
<1>5. Clocks(Here) = 4 + Len(Here.bits) + 2
  BY <1>3, <1>4, ScanClocks
<1>6. at \in 1 .. Clocks(Here) /\ tap = TapInIr(at, Len(Here.bits))
  BY <1>2 DEF TapIsThere
<1>7. at = Len(Here.bits) + 6
  BY <1>2, <1>4, <1>5, <1>6
<1>8. tap = "UpdIR"
  BY <1>4, <1>6, <1>7, ScanWays
<1>9. instr' = [l \in Lanes |-> Decode(dr[l])]
  BY <1>8, InstrIs
<1>10. Shifted = W
  <2>1. at - LeadOf(Here) - 1 = Len(Here.bits) + 1
    BY <1>3, <1>4, <1>7
  <2>2. UpTo(Len(Here.bits) + 1, Len(Here.bits)) = Len(Here.bits)
    BY <1>4 DEF UpTo
  <2> QED
    BY <1>2, <1>3, <1>4, <2>1, <2>2 DEF Shifted
<1>11. \A l \in Lanes :
         dr[l] = SubSeq(OutOf(request, op, stock, l), W + 1,
                        W + Len(Captured(request, op, stock, l)))
  <2>1. at > LeadOf(Here)
    BY <1>3, <1>4, <1>7
  <2> QED
    BY <1>2, <1>3, <1>10, <2>1 DEF RegistersHold
<1> HIDE DEF W
<1>12. CASE SelectAt(request, op)
  <2>1. PICK lane \in Lanes : \E j \in {"USER1", "USER2"} :
          /\ Program[request][op] = SetIrLane(lane, j)
          /\ request.kind \in {"pair", "read", "ack"}
          /\ NextIsData(request, op) =>
               Selected(request, op + 1) = Only(lane, j)
    BY <1>12 DEF SelectAt
  <2>2. PICK i \in {"USER1", "USER2"} :
          /\ Program[request][op] = SetIrLane(lane, i)
          /\ request.kind \in {"pair", "read", "ack"}
          /\ NextIsData(request, op) =>
               Selected(request, op + 1) = Only(lane, i)
    BY <2>1
  <2>3. i \in DOMAIN Opcode
    BY Opcodes
  <2>4. ASSUME NEW l \in Lanes
        PROVE  Decode(dr[l]) = Only(lane, i)[l]
    <3>1. Only(lane, i)[l] \in DOMAIN Opcode /\ dr[l] = Opcode[Only(lane, i)[l]]
      BY <1>2, <1>11, <2>2, <2>3, SelectSettles DEF W
    <3> QED
      BY <3>1, DecodeOpcode
  <2>5. instr' = Only(lane, i)
    BY <1>9, <2>4 DEF Only
  <2> QED
    BY <2>2, <2>5
<1>13. CASE ProbeAt(request, op)
  <2>1. ASSUME NEW l \in Lanes
        PROVE  Decode(dr[l]) = "BYPASS"
    <3>1. dr[l] = Opcode["BYPASS"]
      BY <1>2, <1>11, <1>13, ProbeSettles DEF W, ProbeAt
    <3>2. "BYPASS" \in DOMAIN Opcode
      BY Opcodes
    <3> QED
      BY <3>1, <3>2, DecodeOpcode
  <2>2. instr' = All("BYPASS")
    BY <1>9, <2>1 DEF All
  <2>3. ~NextIsData(request, op)
    BY <1>13 DEF ProbeAt, NextIsData
  <2> QED
    BY <2>2, <2>3
<1> QED
  BY <1>2, <1>12, <1>13, KindIs

(* Behind a data scan the same instructions remain selected.               *)
LEMMA SelectionStays ==
  ASSUME NEW r \in Requests, NEW n \in 1 .. Length(r),
         Program[r][n].kind = "dr"
  PROVE  /\ NextIsData(r, n) => Selected(r, n + 1) = Selected(r, n)
         /\ ~(r.kind = "irdelay" /\ n = 2)
<1>1. CASE IdsAt(r, n)
  BY <1>1 DEF IdsAt, NextIsData
<1>2. CASE ReadAt(r, n)
  BY <1>2 DEF ReadAt
<1>3. ASSUME NEW lane \in Lanes, WriteAt(r, n, lane)
      PROVE  /\ NextIsData(r, n) => Selected(r, n + 1) = Selected(r, n)
             /\ r.kind # "irdelay"
  BY <1>3 DEF WriteAt, IsWrite
<1> QED
  BY <1>1, <1>2, <1>3, KindIs

(* A clock takes the TAP and the instructions where the operation wants    *)
(* them.                                                                   *)
LEMMA TapStep ==
  ASSUME TypeOK, TapIsThere, RegistersHold, Clock
  PROVE  TapIsThere'
<1>1. /\ request # NoRequest /\ op \in DOMAIN Program[request]
      /\ tap' = TapNext[tap][Tms(Here, at) + 1]
      /\ request' = request /\ Ends' = Ends
      /\ at < Clocks(Here) =>
           /\ op' = op /\ at' = at + 1 /\ Here' = Here /\ InOp'
      /\ ~(at < Clocks(Here)) => op' = op + 1 /\ at' = 1
  BY ClockIs
<1>2. /\ request \in Requests /\ op \in 1 .. Length(request)
      /\ op \in Nat /\ op > 0
      /\ Here = Program[request][op] /\ InOp /\ at \in Nat
      /\ IsScan(Here) => Len(Here.bits) \in Nat \ {0}
  BY <1>1, Running
<1>3. /\ at \in 1 .. Clocks(Here)
      /\ Here.kind \in {"reset", "tlr"} => InReset
      /\ Here.kind = "idle" => tap = "RTI"
      /\ Here.kind = "dr" => /\ tap = TapInDr(at, Len(Here.bits))
                             /\ instr = Selected(request, op)
      /\ Here.kind = "ir" => tap = TapInIr(at, Len(Here.bits))
  BY <1>2 DEF TapIsThere
<1>4. /\ TapNext["RTI"][1] = "RTI" /\ TapNext["TLR"][1] = "RTI"
      /\ TapNext["TLR"][2] = "TLR"
  BY DEF TapNext
<1>5. ASSUME at < Clocks(Here),
             Here.kind \in {"reset", "tlr"} =>
               /\ tap' \in AfterOnes[at + 1]
               /\ at + 1 = 7 => instr' = All("IDCODE"),
             Here.kind = "idle" => tap' = "RTI",
             Here.kind = "dr" => /\ tap' = TapInDr(at + 1, Len(Here.bits))
                                 /\ instr' = instr,
             Here.kind = "ir" => tap' = TapInIr(at + 1, Len(Here.bits))
      PROVE  TapIsThere'
  <2>1. op' > 0 /\ at' \in 1 .. Clocks(Here')
    <3>1. at' = at + 1 /\ Here' = Here /\ op' = op
      BY <1>1, <1>5
    <3>2. Clocks(Here) \in Nat
      <4>1. CASE IsScan(Here)
        <5>1. LeadOf(Here) \in {3, 4}
              /\ Clocks(Here) = LeadOf(Here) + Len(Here.bits) + 2
          BY <1>2, <4>1, ScanClocks
        <5>2. Len(Here.bits) \in Nat
          BY <1>2, <4>1
        <5> QED
          BY <5>1, <5>2
      <4>2. CASE ~IsScan(Here)
        <5>1. Clocks(Here) \in {6, 7, IdleClocks}
          BY <1>2, <4>2, KindIs, Leads
        <5> QED
          BY <5>1, Patterns
      <4> QED
        BY <4>1, <4>2
    <3>3. at + 1 \in 1 .. Clocks(Here)
      BY <1>2, <1>5, <3>2
    <3>4. Clocks(Here') = Clocks(Here)
      BY <3>1
    <3> QED
      BY <1>2, <3>1, <3>3, <3>4
  <2>2. Here'.kind \in {"reset", "tlr"} => InReset'
    <3>1. at' # 1
      BY <1>1, <1>3, <1>5
    <3> QED
      BY <1>1, <1>5, <3>1 DEF InReset
  <2> QED
    BY <1>1, <1>3, <1>5, <2>1, <2>2 DEF TapIsThere
<1>6. CASE Here.kind \in {"reset", "tlr"}
  <2>1. tap \in AfterOnes[at] /\ (at = 7 => instr = All("IDCODE"))
    BY <1>3, <1>6 DEF InReset
  <2>2. Clocks(Here) = IF Here.kind = "tlr" THEN 6 ELSE 7
    BY <1>6, Leads
  <2>3. \A a \in 1 .. 6 : Tms(Here, a) = 1
    BY <1>6, Leads
  <2>4. CASE at < Clocks(Here)
    <3>1. at \in 1 .. 6
      BY <1>3, <2>2, <2>4
    <3>2. tap' = TapNext[tap][2]
      BY <1>1, <2>3, <3>1
    <3>3. tap' \in AfterOnes[at + 1]
      BY <2>1, <3>1, <3>2, SixOnes
    <3>4. at + 1 = 7 => instr' = All("IDCODE")
      <4>1. at + 1 = 7 => tap = "TLR"
        BY <2>1, <3>1, SixOnes
      <4> QED
        BY <4>1, InstrIs
    <3> QED
      BY <1>5, <1>6, <2>4, <3>3, <3>4
  <2>5. CASE ~(at < Clocks(Here))
    <3>1. at = Clocks(Here)
      BY <1>3, <2>2, <2>5
    <3>2. tap = "TLR"
      BY <2>1, <2>2, <3>1, SixOnes
    <3>3. tap' = IF Here.kind = "tlr" THEN "TLR" ELSE "RTI"
      <4>1. CASE Here.kind = "tlr"
        <5>1. Tms(Here, at) = 1
          BY <2>2, <2>3, <3>1, <4>1
        <5> QED
          BY <1>1, <1>4, <3>2, <4>1, <5>1
      <4>2. CASE Here.kind = "reset"
        <5>1. Tms(Here, 7) = 0 /\ at = 7
          BY <2>2, <3>1, <4>2, Leads
        <5> QED
          BY <1>1, <1>4, <3>2, <4>2, <5>1
      <4> QED
        BY <1>6, <4>1, <4>2
    <3>4. PauseAt(request, op)
      BY <1>2, <1>6, KindIs
    <3>5. NextIsData(request, op) => instr' = Selected(request, op + 1)
      <4>1. ASSUME NextIsData(request, op)
            PROVE  instr' = Selected(request, op + 1)
        <5>1. request.kind = "idcodes" /\ Here.kind = "reset"
          BY <1>2, <3>4, <4>1 DEF PauseAt
        <5>2. instr' = All("IDCODE")
          BY <3>2, InstrIs
        <5> QED
          BY <1>2, <5>1, <5>2, SelectedIs
      <4> QED
        BY <4>1
    <3>6. ~(request.kind = "irdelay" /\ op = 2)
      BY <3>4 DEF PauseAt
    <3> QED
      BY <2>5, <3>3, <3>5, <3>6, NextOperation
  <2> QED
    BY <2>4, <2>5
<1>7. CASE Here.kind = "idle"
  <2>1. tap = "RTI" /\ Clocks(Here) = IdleClocks
        /\ \A a \in 1 .. IdleClocks : Tms(Here, a) = 0
    BY <1>3, <1>7, Leads
  <2>2. tap' = "RTI"
    BY <1>1, <1>3, <1>4, <2>1
  <2>3. CASE at < Clocks(Here)
    BY <1>5, <1>7, <2>2, <2>3
  <2>4. CASE ~(at < Clocks(Here))
    <3>1. PauseAt(request, op)
      BY <1>2, <1>7, KindIs
    <3>2. ~NextIsData(request, op) /\ ~(request.kind = "irdelay" /\ op = 2)
      BY <1>2, <1>7, <3>1 DEF PauseAt
    <3> QED
      BY <1>7, <2>2, <2>4, <3>2, NextOperation
  <2> QED
    BY <2>3, <2>4
<1>8. CASE Here.kind \in {"dr", "ir"}
  <2>1. IsScan(Here) /\ Len(Here.bits) \in Nat \ {0}
    BY <1>2, <1>8, Leads
  <2>2. Here.kind = "dr" =>
          tap' = IF at < Clocks(Here) THEN TapInDr(at + 1, Len(Here.bits))
                 ELSE "RTI"
    BY <1>1, <1>3, <2>1, ScanGoesOn
  <2>3. Here.kind = "ir" =>
          tap' = IF at < Clocks(Here) THEN TapInIr(at + 1, Len(Here.bits))
                 ELSE "RTI"
    BY <1>1, <1>3, <2>1, ScanGoesOn
  <2>4. Here.kind = "dr" => instr' = instr
    <3>1. Here.kind = "dr" => tap \notin {"TLR", "UpdIR"}
      BY <1>3 DEF TapInDr
    <3> QED
      BY <3>1, InstrIs
  <2>5. CASE at < Clocks(Here)
    BY <1>5, <1>8, <2>2, <2>3, <2>4, <2>5
  <2>6. CASE ~(at < Clocks(Here))
    <3>1. tap' = IF Here.kind = "tlr" THEN "TLR" ELSE "RTI"
      BY <1>8, <2>2, <2>3, <2>6
    <3>2. CASE Here.kind = "ir"
      BY <2>6, <3>1, <3>2, InstructionsSettle, NextOperation
    <3>3. CASE Here.kind = "dr"
      <4>1. /\ NextIsData(request, op) => instr' = Selected(request, op + 1)
            /\ ~(request.kind = "irdelay" /\ op = 2)
        BY <1>2, <1>3, <2>4, <3>3, SelectionStays
      <4> QED
        BY <2>6, <3>1, <4>1, NextOperation
    <3> QED
      BY <1>8, <3>2, <3>3
  <2> QED
    BY <2>5, <2>6
<1> QED
  BY <1>2, <1>6, <1>7, <1>8, KindIs

(* TMS and TDI carry bits.                                                 *)
LEMMA TmsBit ==
  ASSUME NEW r \in Requests, NEW n \in 1 .. Length(r),
         NEW a \in 1 .. Clocks(Program[r][n])
  PROVE  /\ Tms(Program[r][n], a) \in {0, 1}
         /\ Tdi(Program[r][n], a) \in Bit
<1> DEFINE o == Program[r][n]
<1>1. o.kind \in {"tlr", "reset", "idle", "ir", "dr"}
  BY KindIs
<1>2. IsScan(o) => o.bits \in Seq(Bit) /\ Len(o.bits) \in Nat \ {0}
  BY BitsOf
<1> HIDE DEF o
<1>3. CASE ~IsScan(o)
  <2>1. Tms(o, a) \in {0, 1}
    <3>1. CASE o.kind = "tlr"
      <4>1. Clocks(o) = 6 /\ \A b \in 1 .. 6 : Tms(o, b) = 1
        BY <3>1, Leads
      <4> QED
        BY <4>1 DEF o
    <3>2. CASE o.kind = "reset"
      <4>1. /\ Clocks(o) = 7 /\ \A b \in 1 .. 6 : Tms(o, b) = 1
            /\ Tms(o, 7) = 0
        BY <3>2, Leads
      <4> QED
        BY <4>1 DEF o
    <3>3. CASE o.kind = "idle"
      <4>1. /\ Clocks(o) = IdleClocks
            /\ \A b \in 1 .. IdleClocks : Tms(o, b) = 0
        BY <3>3, Leads
      <4> QED
        BY <4>1 DEF o
    <3> QED
      BY <1>1, <1>3, <3>1, <3>2, <3>3, Leads
  <2>2. Tdi(o, a) = 0
    BY <1>3 DEF Tdi, Shifting
  <2> QED
    BY <2>1, <2>2 DEF o, Bit
<1>4. CASE IsScan(o)
  <2> DEFINE L == LeadOf(o)
             N == Len(o.bits)
  <2>1. /\ L \in {3, 4} /\ Clocks(o) = L + N + 2
        /\ o.kind = "dr" => /\ L = 3 /\ Tms(o, 1) = 1
                            /\ Tms(o, 2) = 0 /\ Tms(o, 3) = 0
        /\ o.kind = "ir" => /\ L = 4 /\ Tms(o, 1) = 1 /\ Tms(o, 2) = 1
                            /\ Tms(o, 3) = 0 /\ Tms(o, 4) = 0
        /\ \A b \in 1 .. N - 1 : Tms(o, L + b) = 0
        /\ Tms(o, L + N) = 1 /\ Tms(o, L + N + 1) = 1
        /\ Tms(o, L + N + 2) = 0
        /\ \A b \in Nat : Shifting(o, b) <=> b \in L + 1 .. L + N
        /\ \A b \in Nat : Shifting(o, b) => Tdi(o, b) = o.bits[b - L]
    BY <1>2, <1>4, ScanClocks
  <2>2. N \in Nat \ {0} /\ a \in 1 .. L + N + 2 /\ a \in Nat
    BY <1>2, <1>4, <2>1 DEF o
  <2> HIDE DEF L, N
  <2>3. Tms(o, a) \in {0, 1}
    <3>1. CASE a <= L
      <4>1. o.kind \in {"ir", "dr"} /\ (L = 3 => a \in {1, 2, 3})
            /\ (L = 4 => a \in {1, 2, 3, 4})
        BY <1>4, <2>1, <2>2, <3>1 DEF IsScan
      <4> QED
        BY <2>1, <4>1
    <3>2. CASE a \in L + 1 .. L + N - 1
      <4>1. a - L \in 1 .. N - 1 /\ L + (a - L) = a
        BY <2>1, <2>2, <3>2
      <4> QED
        BY <2>1, <4>1
    <3>3. CASE a \in {L + N, L + N + 1, L + N + 2}
      BY <2>1, <3>3
    <3>4. a <= L \/ a \in L + 1 .. L + N - 1 \/ a \in {L + N, L + N + 1, L + N + 2}
      BY <2>1, <2>2
    <3> QED
      BY <3>1, <3>2, <3>3, <3>4
  <2>4. Tdi(o, a) \in Bit
    <3>1. CASE Shifting(o, a)
      <4>1. a - L \in 1 .. N
        BY <2>1, <2>2, <3>1
      <4>2. o.bits[a - L] \in Bit
        BY <1>2, <1>4, <4>1, ElementOfSeq DEF N
      <4> QED
        BY <2>1, <2>2, <3>1, <4>2
    <3>2. CASE ~Shifting(o, a)
      BY <3>2 DEF Tdi, Bit
    <3> QED
      BY <3>1, <3>2
  <2> QED
    BY <2>3, <2>4 DEF o
<1> QED
  BY <1>3, <1>4

(* What a card captures, and what enters it, are bits.                     *)
LEMMA CardBits ==
  ASSUME CardTypes, NEW l \in Lanes, NEW tdi \in Bit
  PROVE  /\ CapturedDr(l) \in Seq(Bit) /\ CapturedDr(l) # <<>>
         /\ Enters(l, tdi) \in Bit
         /\ dr[l] \in Seq(Bit) /\ dr[l] # <<>> /\ Tail(dr[l]) \in Seq(Bit)
         /\ word[l] \in Seq(Bit) /\ inbox[l] \in Seq(Seq(Bit))
         /\ outbox[l] \in Seq(Byte) /\ due[l] \in 0 .. ByteBits
<1>1. 0 \in Bit /\ 1 \in Bit /\ <<0>> \in Seq(Bit) /\ <<0>> # <<>>
  BY DEF Bit
<1>2. /\ outbox[l] \in Seq(Byte) /\ due[l] \in 0 .. ByteBits
      /\ word[l] \in Seq(Bit) /\ inbox[l] \in Seq(Seq(Bit))
      /\ \A m \in Lanes : dr[m] \in Seq(Bit) /\ dr[m] # <<>>
  BY DEF CardTypes
<1>3. CapturedDr(l) \in Seq(Bit) /\ CapturedDr(l) # <<>>
  <2> DEFINE none == Append(Zeros(ByteBits), 1)
             first == Append(Head(outbox[l]), 0)
  <2>1. none \in Seq(Bit) /\ none # <<>>
    <3>1. Zeros(ByteBits) \in Seq(Bit)
      BY Patterns, ZerosAndOnes
    <3> HIDE DEF Zeros
    <3> QED
      BY <1>1, <3>1, AppendProperties
  <2>2. outbox[l] # <<>> => first \in Seq(Bit) /\ first # <<>>
    <3>1. ASSUME outbox[l] # <<>>
          PROVE  first \in Seq(Bit) /\ first # <<>>
      <4>1. Head(outbox[l]) \in Byte
        BY <1>2, <3>1, HeadTailProperties
      <4>2. Head(outbox[l]) \in Seq(Bit)
        BY <4>1, Patterns
      <4> QED
        BY <1>1, <4>2, AppendProperties
    <3> QED
      BY <3>1
  <2>3. Idcode \in Seq(Bit) /\ Idcode # <<>>
    BY PatternAssumption
  <2> HIDE DEF none, first
  <2>4. CASE instr[l] = "IDCODE"
    BY <2>3, <2>4 DEF CapturedDr
  <2>5. CASE instr[l] = "USER1"
    <3>1. CapturedDr(l) = IF outbox[l] # <<>> THEN first ELSE none
      BY <2>5 DEF CapturedDr, first, none
    <3> QED
      BY <2>1, <2>2, <3>1
  <2>6. CASE instr[l] \notin {"IDCODE", "USER1"}
    BY <1>1, <2>6 DEF CapturedDr
  <2> QED
    BY <2>4, <2>5, <2>6
<1>4. Enters(l, tdi) \in Bit
  <2>1. CASE l = 1
    BY <2>1 DEF Enters, LaneCount
  <2>2. CASE l = 0
    <3>1. dr[1] \in Seq(Bit) /\ dr[1] # <<>>
      BY <1>2, Patterns
    <3>2. Head(dr[1]) \in Bit
      BY <3>1, HeadTailProperties
    <3>3. Enters(l, tdi) = Head(dr[1])
      BY <2>2 DEF Enters, LaneCount
    <3> QED
      BY <3>2, <3>3
  <2> QED
    BY <2>1, <2>2, Patterns
<1>5. Tail(dr[l]) \in Seq(Bit)
  BY <1>2, HeadTailProperties
<1> QED
  BY <1>2, <1>3, <1>4, <1>5

(* A capture, a shift and a step outside of them keep the types.           *)
LEMMA CaptureTypes ==
  ASSUME CardTypes, Capture
  PROVE  CardTypes'
<1>1. \A l \in Lanes : CapturedDr(l) \in Seq(Bit) /\ CapturedDr(l) # <<>>
  BY CardBits DEF Bit
<1>2. dr' = [l \in Lanes |-> CapturedDr(l)]
  BY DEF Capture
<1>3. dr' \in [Lanes -> Seq(Bit)] /\ \A l \in Lanes : dr'[l] # <<>>
  BY <1>1, <1>2
<1>4. word' \in [Lanes -> Seq(Bit)] /\ \A l \in Lanes : Len(word'[l]) <= ByteBits
  <2>1. word' = [l \in Lanes |-> IF instr[l] = "USER2" THEN <<>> ELSE word[l]]
    BY DEF Capture
  <2>2. <<>> \in Seq(Bit) /\ Len(<<>>) <= ByteBits
    BY Patterns
  <2> QED
    BY <2>1, <2>2 DEF CardTypes
<1>5. due' \in [Lanes -> 0 .. ByteBits]
      /\ \A l \in Lanes : due'[l] > 0 => outbox[l] # <<>>
  <2>1. due' = [l \in Lanes |->
                  IF instr[l] # "USER1" THEN due[l]
                  ELSE IF outbox[l] # <<>> THEN ByteBits ELSE 0]
    BY DEF Capture
  <2> QED
    BY <2>1, Patterns DEF CardTypes
<1>6. UNCHANGED <<instr, inbox, outbox>>
  BY DEF Capture
<1> QED
  BY <1>3, <1>4, <1>5, <1>6 DEF CardTypes

(* A shift keeps the types.                                                *)
LEMMA ShiftTypes ==
  ASSUME CardTypes, NEW tdi \in Bit, Shift(tdi)
  PROVE  CardTypes'
<1>1. \A l \in Lanes : /\ Enters(l, tdi) \in Bit
                       /\ Tail(dr[l]) \in Seq(Bit) /\ word[l] \in Seq(Bit)
                       /\ inbox[l] \in Seq(Seq(Bit))
                       /\ outbox[l] \in Seq(Byte) /\ due[l] \in 0 .. ByteBits
  BY CardBits
<1>2. dr' \in [Lanes -> Seq(Bit)] /\ \A l \in Lanes : dr'[l] # <<>>
  <2>1. dr' = [l \in Lanes |-> ShiftedDr(l, Enters(l, tdi))]
    BY DEF Shift
  <2>2. ASSUME NEW l \in Lanes
        PROVE  ShiftedDr(l, Enters(l, tdi)) \in Seq(Bit) \ {<<>>}
    <3> DEFINE bit == IF instr[l] \in {"USER1", "USER2"} THEN 0
                      ELSE Enters(l, tdi)
    <3>1. bit \in Bit
      BY <1>1 DEF Bit
    <3>2. ShiftedDr(l, Enters(l, tdi)) = Append(Tail(dr[l]), bit)
      BY DEF ShiftedDr
    <3> HIDE DEF bit
    <3> QED
      BY <1>1, <3>1, <3>2, AppendProperties
  <2> QED
    BY <2>1, <2>2
<1>3. word' \in [Lanes -> Seq(Bit)] /\ \A l \in Lanes : Len(word'[l]) <= ByteBits
  <2>1. word' = [l \in Lanes |-> IF instr[l] # "USER2" THEN word[l]
                                 ELSE IF WordComplete(l) THEN <<>>
                                 ELSE WordAfter(l, tdi)]
    BY DEF Shift
  <2>2. ASSUME NEW l \in Lanes
        PROVE  /\ word'[l] \in Seq(Bit) /\ Len(word'[l]) <= ByteBits
    <3>1. Len(word[l]) <= ByteBits /\ Len(word[l]) \in Nat /\ ByteBits \in Nat
      BY <1>1, Patterns, LenProperties DEF CardTypes
    <3>2. CASE instr[l] # "USER2"
      BY <1>1, <2>1, <3>1, <3>2
    <3>3. CASE WordComplete(l)
      BY <2>1, <3>1, <3>3 DEF WordComplete
    <3>4. CASE instr[l] = "USER2" /\ ~WordComplete(l)
      <4>1. word'[l] = Append(word[l], Enters(l, tdi))
        BY <2>1, <3>4 DEF WordAfter
      <4>2. Len(word[l]) # ByteBits
        BY <3>4 DEF WordComplete
      <4> QED
        BY <1>1, <3>1, <4>1, <4>2, AppendProperties
    <3> QED
      BY <3>2, <3>3, <3>4
  <2> QED
    BY <2>1, <2>2
<1>4. inbox' \in [Lanes -> Seq(Seq(Bit))]
  <2>1. inbox' = [l \in Lanes |-> IF WordComplete(l)
                                  THEN Append(inbox[l], WordAfter(l, tdi))
                                  ELSE inbox[l]]
    BY DEF Shift
  <2>2. ASSUME NEW l \in Lanes
        PROVE  Append(inbox[l], WordAfter(l, tdi)) \in Seq(Seq(Bit))
    <3>1. WordAfter(l, tdi) \in Seq(Bit)
      BY <1>1, AppendProperties DEF WordAfter
    <3> QED
      BY <1>1, <3>1, AppendProperties
  <2> QED
    BY <1>1, <2>1, <2>2
<1>5. /\ due' \in [Lanes -> 0 .. ByteBits] /\ outbox' \in [Lanes -> Seq(Byte)]
      /\ \A l \in Lanes : due'[l] > 0 => outbox'[l] # <<>>
  <2>1. /\ due' = [l \in Lanes |-> IF instr[l] = "USER1" /\ due[l] > 0
                                   THEN due[l] - 1 ELSE due[l]]
        /\ outbox' = [l \in Lanes |-> IF ByteTaken(l) THEN Tail(outbox[l])
                                      ELSE outbox[l]]
    BY DEF Shift
  <2>2. ASSUME NEW l \in Lanes
        PROVE  /\ due'[l] \in 0 .. ByteBits /\ outbox'[l] \in Seq(Byte)
               /\ due'[l] > 0 => outbox'[l] # <<>>
    <3>1. /\ due[l] \in 0 .. ByteBits /\ ByteBits \in Nat
          /\ outbox[l] \in Seq(Byte) /\ (due[l] > 0 => outbox[l] # <<>>)
      BY <1>1, Patterns DEF CardTypes
    <3>2. CASE ByteTaken(l)
      <4>1. instr[l] = "USER1" /\ due[l] = 1
        BY <3>2 DEF ByteTaken
      <4>2. due'[l] = 0 /\ outbox'[l] = Tail(outbox[l])
        BY <2>1, <3>2, <4>1
      <4> QED
        BY <3>1, <4>1, <4>2, HeadTailProperties
    <3>3. CASE ~ByteTaken(l)
      BY <2>1, <3>1, <3>3
    <3> QED
      BY <3>2, <3>3
  <2> QED
    BY <2>1, <2>2
<1>6. instr' = instr
  BY DEF Shift
<1> QED
  BY <1>2, <1>3, <1>4, <1>5, <1>6 DEF CardTypes

(* So does a clock of the instruction registers and of every other state.  *)
LEMMA InstructionTypes ==
  ASSUME CardTypes, NEW tdi \in Bit, InstructionStep(tdi)
  PROVE  CardTypes'
<1>1. UNCHANGED cardVars
  BY DEF InstructionStep
<1>2. /\ word' = word /\ inbox' = inbox /\ due' = due /\ outbox' = outbox
  BY <1>1 DEF cardVars
<1>3. dr' \in [Lanes -> Seq(Bit)] /\ \A l \in Lanes : dr'[l] # <<>>
  <2>1. CASE tap = "CapIR"
    <3>1. dr' = [l \in Lanes |-> CapturedIr]
      BY <2>1 DEF InstructionStep
    <3>2. CapturedIr \in Seq(Bit) /\ CapturedIr # <<>>
      BY CapturedIrIs, Patterns
    <3> QED
      BY <3>1, <3>2
  <2>2. CASE tap = "ShIR"
    <3>1. dr' = [l \in Lanes |-> Append(Tail(dr[l]), Enters(l, tdi))]
      BY <2>2 DEF InstructionStep
    <3>2. ASSUME NEW l \in Lanes
          PROVE  Append(Tail(dr[l]), Enters(l, tdi)) \in Seq(Bit) \ {<<>>}
      <4>1. Tail(dr[l]) \in Seq(Bit) /\ Enters(l, tdi) \in Bit
        BY CardBits
      <4> QED
        BY <4>1, AppendProperties
    <3> QED
      BY <3>1, <3>2
  <2>3. CASE tap \notin {"CapIR", "ShIR"}
    <3>1. dr' = dr
      BY <2>3 DEF InstructionStep
    <3> QED
      BY <3>1 DEF CardTypes
  <2> QED
    BY <2>1, <2>2, <2>3
<1>4. instr' \in [Lanes -> {"IDCODE", "BYPASS", "USER1", "USER2", "OTHER"}]
  <2>1. CASE tap = "TLR"
    BY <2>1 DEF InstructionStep
  <2>2. CASE tap = "UpdIR"
    <3>1. instr' = [l \in Lanes |-> Decode(dr[l])]
      BY <2>2 DEF InstructionStep
    <3>2. \A b : Decode(b) \in DOMAIN Opcode \cup {"OTHER"}
      BY DEF Decode
    <3>3. DOMAIN Opcode = {"BYPASS", "USER1", "USER2"}
      BY Opcodes
    <3> QED
      BY <3>1, <3>2, <3>3
  <2>3. CASE tap \notin {"TLR", "UpdIR"}
    <3>1. instr' = instr
      BY <2>3 DEF InstructionStep
    <3> QED
      BY <3>1 DEF CardTypes
  <2> QED
    BY <2>1, <2>2, <2>3
<1> QED
  BY <1>2, <1>3, <1>4 DEF CardTypes

(* A clock keeps the types.                                                *)
LEMMA ClockTypes ==
  ASSUME TypeOK, TapIsThere, Clock
  PROVE  TypeOK'
<1>1. /\ request # NoRequest /\ op \in DOMAIN Program[request]
      /\ tap' = TapNext[tap][Tms(Here, at) + 1]
      /\ Capture \/ Shift(Tdi(Here, at)) \/ InstructionStep(Tdi(Here, at))
      /\ request' = request /\ client' = client
      /\ write' = write /\ stock' = stock /\ misread' = misread
      /\ requests' = requests
      /\ at < Clocks(Here) => op' = op /\ at' = at + 1
      /\ ~(at < Clocks(Here)) => op' = op + 1 /\ at' = 1
  BY ClockIs
<1>2. /\ request \in Requests /\ op \in 1 .. Length(request)
      /\ op \in Nat /\ at \in Nat /\ Here = Program[request][op] /\ InOp
  BY <1>1, Running
<1>3. at \in 1 .. Clocks(Here)
  BY <1>2 DEF TapIsThere
<1>4. Tms(Here, at) \in {0, 1} /\ Tdi(Here, at) \in Bit
  BY <1>2, <1>3, TmsBit
<1>5. CardTypes /\ tap \in DOMAIN TapNext
  BY DEF TypeOK
<1>6. CardTypes'
  BY <1>1, <1>4, <1>5, CaptureTypes, ShiftTypes, InstructionTypes
<1>7. tap' \in DOMAIN TapNext
  <2>1. TapNext[tap][1] \in DOMAIN TapNext /\ TapNext[tap][2] \in DOMAIN TapNext
    BY <1>5, SixOnes
  <2>2. Tms(Here, at) + 1 \in {1, 2}
    BY <1>4
  <2> QED
    BY <1>1, <2>1, <2>2
<1>8. op' \in Nat /\ at' \in Nat
  BY <1>1, <1>2
<1> QED
  BY <1>1, <1>6, <1>7, <1>8 DEF TypeOK

(* How many bits of a scan are shifted, and how a clock counts on.         *)
LEMMA ShiftedIs ==
  ASSUME TypeOK, TapIsThere, Clock
  PROVE  LET L == LeadOf(Here)
             N == Len(Here.bits)
         IN  /\ Shifted \in Nat
             /\ ~IsScan(Here) => Shifted = 0
             /\ IsScan(Here) => /\ N \in Nat \ {0} /\ Shifted <= N
                                /\ N = Width(request, op)
             /\ at < Clocks(Here) /\ ~Shifting(Here, at) => Shifted' = Shifted
             /\ Shifting(Here, at) =>
                  /\ at < Clocks(Here) /\ Shifted = at - L - 1
                  /\ Shifted < N /\ Shifted' = Shifted + 1
                  /\ Tdi(Here, at) = Here.bits[Shifted + 1]
             /\ ~(at < Clocks(Here)) => Shifted' = 0
             /\ IsScan(Here) /\ ~(at < Clocks(Here)) => Shifted = N
             /\ IsScan(Here) /\ at <= L => Shifted = 0
<1> DEFINE L == LeadOf(Here)
           N == Len(Here.bits)
<1>1. /\ request # NoRequest /\ op \in DOMAIN Program[request]
      /\ request' = request /\ Ends' = Ends
      /\ at < Clocks(Here) =>
           /\ op' = op /\ at' = at + 1 /\ Here' = Here /\ InOp'
      /\ ~(at < Clocks(Here)) => op' = op + 1 /\ at' = 1
  BY ClockIs
<1>2. /\ request \in Requests /\ op \in 1 .. Length(request)
      /\ InOp /\ at \in Nat
      /\ IsScan(Here) => N = Width(request, op) /\ N \in Nat \ {0}
  BY <1>1, Running
<1>3. at \in 1 .. Clocks(Here)
  BY <1>2 DEF TapIsThere
<1>4. ~(at < Clocks(Here)) => Shifted' = 0
  <2>1. ASSUME ~(at < Clocks(Here)), InOp', IsScan(Here')
        PROVE  UpTo(at' - LeadOf(Here') - 1, Len(Here'.bits)) = 0
    <3>1. LeadOf(Here') \in {3, 4}
      BY <2>1, Leads DEF IsScan
    <3>2. at' - LeadOf(Here') - 1 < 0
      BY <1>1, <2>1, <3>1
    <3> QED
      BY <3>2 DEF UpTo
  <2> QED
    BY <2>1 DEF Shifted
<1>5. CASE ~IsScan(Here)
  <2>1. Shifted = 0
    BY <1>5 DEF Shifted
  <2>2. ~Shifting(Here, at)
    BY <1>5 DEF Shifting
  <2>3. at < Clocks(Here) => Shifted' = 0
    BY <1>1, <1>5 DEF Shifted
  <2> QED
    BY <1>4, <1>5, <2>1, <2>2, <2>3
<1>6. CASE IsScan(Here)
  <2>1. /\ L \in {3, 4} /\ Clocks(Here) = L + N + 2
        /\ \A a \in Nat : Shifting(Here, a) <=> a \in L + 1 .. L + N
        /\ \A a \in Nat : Shifting(Here, a) => Tdi(Here, a) = Here.bits[a - L]
    BY <1>2, <1>6, ScanClocks
  <2>2. N \in Nat \ {0} /\ N = Width(request, op)
    BY <1>2, <1>6
  <2>3. Shifted = UpTo(at - L - 1, N)
    BY <1>2, <1>6 DEF Shifted
  <2>4. at < Clocks(Here) => Shifted' = UpTo((at + 1) - L - 1, N)
    <3>1. ASSUME at < Clocks(Here)
          PROVE  Shifted' = UpTo((at + 1) - L - 1, N)
      <4>1. Here' = Here /\ InOp' /\ at' = at + 1
        BY <1>1, <3>1
      <4>2. Shifted' = UpTo(at' - LeadOf(Here') - 1, Len(Here'.bits))
        BY <1>6, <4>1 DEF Shifted
      <4> QED
        BY <4>1, <4>2
    <3> QED
      BY <3>1
  <2> HIDE DEF L, N
  <2>5. Shifting(Here, at) => Tdi(Here, at) = Here.bits[at - L]
        /\ at - L - 1 + 1 = at - L
    BY <1>2, <2>1
  <2>6. Shifting(Here, at) <=> at \in L + 1 .. L + N
    BY <1>2, <2>1
  <2>7. /\ UpTo(at - L - 1, N) \in Nat /\ UpTo(at - L - 1, N) <= N
        /\ at \in L + 1 .. L + N =>
             /\ UpTo(at - L - 1, N) = at - L - 1 /\ at - L - 1 < N
             /\ UpTo((at + 1) - L - 1, N) = at - L - 1 + 1
             /\ at < L + N + 2
        /\ at \notin L + 1 .. L + N => UpTo((at + 1) - L - 1, N) = UpTo(at - L - 1, N)
        /\ at <= L => UpTo(at - L - 1, N) = 0
        /\ ~(at < L + N + 2) => UpTo(at - L - 1, N) = N
    <3>1. L \in Nat /\ N \in Nat \ {0} /\ at \in Nat
      BY <1>2, <2>1, <2>2
    <3> QED
      BY <3>1 DEF UpTo
  <2> QED
    BY <1>2, <1>4, <1>6, <2>1, <2>2, <2>3, <2>4, <2>5, <2>6, <2>7 DEF L, N
<1> QED
  BY <1>5, <1>6

(* Where a scan is when it shifts.                                         *)
LEMMA ShiftedHere ==
  ASSUME TypeOK, TapIsThere, request # NoRequest, op \in DOMAIN Program[request],
         IsScan(Here), Shifting(Here, at)
  PROVE  /\ Width(request, op) \in Nat \ {0} /\ Shifted \in Nat
         /\ Shifted < Width(request, op) /\ Shifted = at - LeadOf(Here) - 1
         /\ Count = op
<1> DEFINE L == LeadOf(Here)
           N == Len(Here.bits)
<1>1. InOp /\ at \in Nat /\ N = Width(request, op) /\ N \in Nat \ {0}
  BY Running
<1>2. L \in {3, 4} /\ at \in L + 1 .. L + N
  BY <1>1, ScanClocks
<1>3. Shifted = UpTo(at - L - 1, N)
  BY <1>1 DEF Shifted
<1> HIDE DEF L, N
<1>4. Shifted = at - L - 1 /\ Shifted \in Nat /\ Shifted < N
  BY <1>1, <1>2, <1>3 DEF UpTo
<1>5. Count = op
  BY <1>1, <1>4 DEF Count, N
<1> QED
  BY <1>1, <1>4, <1>5 DEF L

FirstClock == request.kind = "idcodes" /\ op = 1 /\ at = 1

(* Only the first clock after a break finds the TAP where it likes.        *)
LEMMA TapTellsHere ==
  ASSUME TypeOK, TapIsThere, request # NoRequest, op \in DOMAIN Program[request]
  PROVE  /\ Here.kind = "dr" => /\ Shifting(Here, at) <=> tap = "ShDR"
                                /\ at = 3 <=> tap = "CapDR"
                                /\ tap \notin {"CapIR", "ShIR"}
                                /\ at = 3 => ~Shifting(Here, at)
                                /\ instr = Selected(request, op)
         /\ Here.kind = "ir" => /\ Shifting(Here, at) <=> tap = "ShIR"
                                /\ at = 4 <=> tap = "CapIR"
                                /\ tap \notin {"CapDR", "ShDR"}
         /\ Here.kind \notin {"ir", "dr"} =>
              \/ FirstClock
              \/ tap \notin {"CapDR", "ShDR", "CapIR", "ShIR"}
<1>2. /\ request \in Requests /\ op \in 1 .. Length(request)
      /\ Here = Program[request][op] /\ InOp /\ at \in Nat
      /\ IsScan(Here) => Len(Here.bits) \in Nat \ {0}
  BY Running
<1>3. /\ at \in 1 .. Clocks(Here)
      /\ Here.kind \in {"reset", "tlr"} => InReset
      /\ Here.kind = "idle" => tap = "RTI"
      /\ Here.kind = "dr" => /\ tap = TapInDr(at, Len(Here.bits))
                             /\ instr = Selected(request, op)
      /\ Here.kind = "ir" => tap = TapInIr(at, Len(Here.bits))
  BY <1>2 DEF TapIsThere
<1>4. CASE Here.kind \in {"reset", "tlr"}
  <2>1. tap \in AfterOnes[at]
        /\ (at = 1 => tap = "RTI" \/ (request.kind = "idcodes" /\ op = 1))
    BY <1>3, <1>4 DEF InReset
  <2>2. Clocks(Here) \in {6, 7}
    BY <1>4, Leads
  <2>3. CASE at = 1
    BY <1>4, <2>1, <2>3 DEF FirstClock
  <2>4. CASE at # 1
    <3>1. at \in 2 .. 7
      BY <1>2, <1>3, <2>2, <2>4
    <3>2. "CapDR" \notin AfterOnes[at] /\ "ShDR" \notin AfterOnes[at]
      BY <3>1, SixOnes
    <3>3. "CapIR" \notin AfterOnes[at] /\ "ShIR" \notin AfterOnes[at]
      <4>1. at \in {2, 3, 4, 5, 6, 7}
        BY <3>1
      <4> QED
        BY <4>1 DEF AfterOnes
    <3> QED
      BY <1>4, <2>1, <3>2, <3>3
  <2> QED
    BY <2>3, <2>4
<1>5. CASE Here.kind = "idle"
  BY <1>3, <1>5
<1>6. CASE Here.kind = "dr"
  <2> DEFINE N == Len(Here.bits)
  <2>1. IsScan(Here)
    BY <1>6, Leads
  <2>2. /\ Clocks(Here) = 3 + N + 2 /\ N \in Nat \ {0}
        /\ Shifting(Here, at) <=> at \in 3 + 1 .. 3 + N
    <3>1. LeadOf(Here) = 3
      BY <1>6, Leads
    <3> QED
      BY <1>2, <2>1, <3>1, ScanClocks
  <2>3. tap = TapInDr(at, N)
    BY <1>3, <1>6
  <2> HIDE DEF N
  <2>4. /\ TapInDr(1, N) = "RTI" /\ TapInDr(2, N) = "SelDR"
        /\ TapInDr(3, N) = "CapDR"
        /\ \A a \in 4 .. N + 3 : TapInDr(a, N) = "ShDR"
        /\ TapInDr(N + 4, N) = "Ex1DR" /\ TapInDr(N + 5, N) = "UpdDR"
    BY <2>2, ScanWays
  <2>5. at \in {1, 2, 3} \/ at \in 4 .. N + 3 \/ at \in {N + 4, N + 5}
    BY <1>2, <1>3, <2>2
  <2>6. /\ Shifting(Here, at) <=> at \in 4 .. N + 3
        /\ ~(3 \in 4 .. N + 3) /\ ~(N + 4 \in 4 .. N + 3)
        /\ ~(N + 5 \in 4 .. N + 3) /\ 3 \notin {1, 2, N + 4, N + 5}
        /\ ~(1 \in 4 .. N + 3) /\ ~(2 \in 4 .. N + 3)
    BY <2>2
  <2>7. Shifting(Here, at) <=> tap = "ShDR"
    BY <2>3, <2>4, <2>5, <2>6
  <2>8. at = 3 <=> tap = "CapDR"
    BY <2>3, <2>4, <2>5, <2>6
  <2>9. tap \notin {"CapIR", "ShIR"} /\ (at = 3 => ~Shifting(Here, at))
    BY <2>3, <2>4, <2>5, <2>6
  <2> QED
    BY <1>3, <1>6, <2>7, <2>8, <2>9
<1>7. CASE Here.kind = "ir"
  <2> DEFINE N == Len(Here.bits)
  <2>1. IsScan(Here)
    BY <1>7, Leads
  <2>2. /\ Clocks(Here) = 4 + N + 2 /\ N \in Nat \ {0}
        /\ Shifting(Here, at) <=> at \in 4 + 1 .. 4 + N
    <3>1. LeadOf(Here) = 4
      BY <1>7, Leads
    <3> QED
      BY <1>2, <2>1, <3>1, ScanClocks
  <2>3. tap = TapInIr(at, N)
    BY <1>3, <1>7
  <2> HIDE DEF N
  <2>4. /\ TapInIr(1, N) = "RTI" /\ TapInIr(2, N) = "SelDR"
        /\ TapInIr(3, N) = "SelIR" /\ TapInIr(4, N) = "CapIR"
        /\ \A a \in 5 .. N + 4 : TapInIr(a, N) = "ShIR"
        /\ TapInIr(N + 5, N) = "Ex1IR" /\ TapInIr(N + 6, N) = "UpdIR"
    BY <2>2, ScanWays
  <2>5. at \in {1, 2, 3, 4} \/ at \in 5 .. N + 4 \/ at \in {N + 5, N + 6}
    BY <1>2, <1>3, <2>2
  <2>6. /\ Shifting(Here, at) <=> at \in 5 .. N + 4
        /\ ~(4 \in 5 .. N + 4) /\ ~(N + 5 \in 5 .. N + 4)
        /\ ~(N + 6 \in 5 .. N + 4) /\ 4 \notin {1, 2, 3, N + 5, N + 6}
        /\ ~(1 \in 5 .. N + 4) /\ ~(2 \in 5 .. N + 4) /\ ~(3 \in 5 .. N + 4)
    BY <2>2
  <2>7. Shifting(Here, at) <=> tap = "ShIR"
    BY <2>3, <2>4, <2>5, <2>6
  <2>8. at = 4 <=> tap = "CapIR"
    BY <2>3, <2>4, <2>5, <2>6
  <2>9. tap \notin {"CapDR", "ShDR"}
    BY <2>3, <2>4, <2>5, <2>6
  <2> QED
    BY <1>7, <2>7, <2>8, <2>9
<1> QED
  BY <1>2, <1>4, <1>5, <1>6, <1>7, KindIs

(* The same of a clock.                                                    *)
LEMMA TapTells ==
  ASSUME TypeOK, TapIsThere, Clock
  PROVE  /\ Here.kind = "dr" => /\ Shifting(Here, at) <=> tap = "ShDR"
                                /\ at = 3 <=> tap = "CapDR"
                                /\ tap \notin {"CapIR", "ShIR"}
                                /\ at = 3 => ~Shifting(Here, at)
                                /\ instr = Selected(request, op)
         /\ Here.kind = "ir" => /\ Shifting(Here, at) <=> tap = "ShIR"
                                /\ at = 4 <=> tap = "CapIR"
                                /\ tap \notin {"CapDR", "ShDR"}
         /\ Here.kind \notin {"ir", "dr"} =>
              \/ FirstClock
              \/ tap \notin {"CapDR", "ShDR", "CapIR", "ShIR"}
<1>1. request # NoRequest /\ op \in DOMAIN Program[request]
  BY ClockIs
<1> QED
  BY <1>1, TapTellsHere


(* What a clock does to the registers, by where it is in its operation.    *)
LEMMA ShiftClock ==
  ASSUME TypeOK, TapIsThere, Clock, Here.kind = "dr", Shifting(Here, at)
  PROVE  Shift(Here.bits[Shifted + 1])
<1>1. tap = "ShDR" /\ Tdi(Here, at) = Here.bits[Shifted + 1]
  BY TapTells, ShiftedIs
<1>2. Capture \/ Shift(Tdi(Here, at)) \/ InstructionStep(Tdi(Here, at))
  BY ClockIs
<1>3. ~Capture
  BY <1>1 DEF Capture
<1>4. ~InstructionStep(Tdi(Here, at))
  BY <1>1 DEF InstructionStep
<1> QED
  BY <1>1, <1>2, <1>3, <1>4

(* The third clock of a data scan captures.                                *)
LEMMA CaptureClock ==
  ASSUME TypeOK, TapIsThere, Clock, Here.kind = "dr", at = 3
  PROVE  Capture
<1>1. tap = "CapDR"
  BY TapTells
<1>2. Capture \/ Shift(Tdi(Here, at)) \/ InstructionStep(Tdi(Here, at))
  BY ClockIs
<1>3. ~Shift(Tdi(Here, at))
  BY <1>1 DEF Shift
<1>4. ~InstructionStep(Tdi(Here, at))
  BY <1>1 DEF InstructionStep
<1> QED
  BY <1>2, <1>3, <1>4

(* A scan of instructions shifts the cells and leaves user logic alone.    *)
LEMMA CellClock ==
  ASSUME TypeOK, TapIsThere, Clock, Here.kind = "ir"
  PROVE  /\ UNCHANGED cardVars
         /\ Shifting(Here, at) =>
              dr' = [l \in Lanes |->
                       Append(Tail(dr[l]), Enters(l, Here.bits[Shifted + 1]))]
         /\ at = 4 => dr' = [l \in Lanes |-> CapturedIr]
         /\ at # 4 /\ ~Shifting(Here, at) => dr' = dr
<1>1. /\ Shifting(Here, at) <=> tap = "ShIR"
      /\ at = 4 <=> tap = "CapIR"
      /\ tap \notin {"CapDR", "ShDR"}
      /\ Shifting(Here, at) => Tdi(Here, at) = Here.bits[Shifted + 1]
  BY TapTells, ShiftedIs
<1>2. Capture \/ Shift(Tdi(Here, at)) \/ InstructionStep(Tdi(Here, at))
  BY ClockIs
<1>3. ~Capture /\ ~Shift(Tdi(Here, at))
  BY <1>1 DEF Capture, Shift
<1>4. InstructionStep(Tdi(Here, at))
  BY <1>2, <1>3
<1>5. UNCHANGED cardVars
  BY <1>4 DEF InstructionStep
<1>6. Shifting(Here, at) =>
        dr' = [l \in Lanes |-> Append(Tail(dr[l]), Enters(l, Tdi(Here, at)))]
  BY <1>1, <1>4 DEF InstructionStep
<1>7. at = 4 => dr' = [l \in Lanes |-> CapturedIr]
  BY <1>1, <1>4 DEF InstructionStep
<1>8. at # 4 /\ ~Shifting(Here, at) => dr' = dr
  BY <1>1, <1>4 DEF InstructionStep
<1> QED
  BY <1>1, <1>5, <1>6, <1>7, <1>8

(* Every other clock leaves the registers and the cards alone.             *)
LEMMA QuietClock ==
  ASSUME TypeOK, TapIsThere, Clock,
         \/ Here.kind = "dr" /\ at # 3 /\ ~Shifting(Here, at)
         \/ Here.kind \notin {"ir", "dr"} /\ ~FirstClock
  PROVE  dr' = dr /\ UNCHANGED cardVars
<1>1. tap \notin {"CapDR", "ShDR", "CapIR", "ShIR"}
  BY TapTells
<1>2. Capture \/ Shift(Tdi(Here, at)) \/ InstructionStep(Tdi(Here, at))
  BY ClockIs
<1>3. InstructionStep(Tdi(Here, at))
  BY <1>1, <1>2 DEF Capture, Shift
<1> QED
  BY <1>1, <1>3 DEF InstructionStep

(* What lane l captures before a data scan.                                *)
LEMMA CapturesRight ==
  ASSUME TypeOK, StageIsRequest, TapIsThere, StockIsRight, Clock,
         Here.kind = "dr", at = 3, NEW l \in Lanes
  PROVE  CapturedDr(l) = Captured(request, op, stock, l)
<1>1. request # NoRequest /\ op \in DOMAIN Program[request]
  BY ClockIs
<1>2. /\ request \in Requests /\ op \in 1 .. Length(request) /\ op \in Nat
      /\ Here = Program[request][op]
      /\ stock \in [Lanes -> Seq(Byte)]
  BY <1>1, Running
<1>3. instr[l] = Selected(request, op)[l]
  BY TapTells
<1>4. Program[request][op].kind # "ir"
  BY <1>2
<1>5. CASE instr[l] = "IDCODE"
  BY <1>3, <1>4, <1>5 DEF CapturedDr, Captured
<1>6. CASE instr[l] \notin {"IDCODE", "USER1"}
  BY <1>3, <1>4, <1>6 DEF CapturedDr, Captured
<1>7. CASE instr[l] = "USER1"
  <2>1. ReadAt(request, op)
    <3>1. ~IdsAt(request, op)
      <4>1. IdsAt(request, op) => Selected(request, op) = All("IDCODE")
        BY <1>2, SelectedIs DEF IdsAt
      <4> QED
        BY <1>3, <1>7, <4>1 DEF All
    <3>2. \A lane \in Lanes : ~WriteAt(request, op, lane)
      BY <1>3, <1>7 DEF WriteAt, Only
    <3> QED
      BY <1>2, <3>1, <3>2, KindIs
  <2>2. /\ request.kind \in {"read", "ack"}
        /\ Selected(request, op) = Only(request.lane, "USER1")
    BY <2>1 DEF ReadAt
  <2>3. request.lane = l
    BY <1>3, <1>7, <2>2 DEF Only
  <2>4. stage = "open"
    BY <1>1, <2>2 DEF StageIsRequest
  <2>5. Shifted = 0
    <3>1. IsScan(Here) /\ LeadOf(Here) = 3
      BY Leads
    <3> QED
      BY <3>1, ShiftedIs
  <2>6. ~(Shifted >= ByteBits)
    BY <2>5, Patterns
  <2> DEFINE k == WindowsDone(request, op)
  <2>7. outbox[l] = Rest(stock[l], k)
    <3>1. BytesDone(request, op, l) = k
      BY <1>2, <2>2, <2>3, RequestIs DEF BytesDone
    <3>2. outbox[l] = Rest(stock[l], BytesDone(request, op, l))
      BY <2>4, <2>6 DEF StockIsRight
    <3> QED
      BY <3>1, <3>2
  <2>8. k \in Nat /\ k + 1 \in Nat \ {0}
    <3>1. k \in Nat
      BY <1>2, Counts
    <3> QED
      BY <3>1
  <2>9. Captured(request, op, stock, l) = Answer(stock[l], k + 1)
    BY <1>3, <1>4, <1>7 DEF Captured
  <2>10. CapturedDr(l) = IF outbox[l] # <<>> THEN Append(Head(outbox[l]), 0)
                         ELSE Append(Zeros(ByteBits), 1)
    BY <1>7 DEF CapturedDr
  <2> HIDE DEF k
  <2>11. stock[l] \in Seq(Byte) /\ Len(stock[l]) \in Nat
    BY <1>2, LenProperties
  <2>12. CASE k < Len(stock[l])
    <3>1. Rest(stock[l], k) # <<>> /\ Head(Rest(stock[l], k)) = stock[l][k + 1]
      BY <2>8, <2>11, <2>12, DropFirst
    <3>2. Answer(stock[l], k + 1) = Append(stock[l][k + 1], 0)
      BY <2>8, <2>11, <2>12, AnswerIs
    <3> QED
      BY <2>7, <2>9, <2>10, <3>1, <3>2
  <2>13. CASE ~(k < Len(stock[l]))
    <3>1. Rest(stock[l], k) = <<>>
      BY <2>8, <2>11, <2>13 DEF Rest
    <3>2. Answer(stock[l], k + 1) = Append(Zeros(ByteBits), 1)
      BY <2>8, <2>11, <2>13, AnswerIs
    <3> QED
      BY <2>7, <2>9, <2>10, <3>1, <3>2
  <2> QED
    BY <2>12, <2>13
<1> QED
  BY <1>5, <1>6, <1>7

(* What enters lane l is what the streams say.                             *)
LEMMA EntersHere ==
  ASSUME TypeOK, TapIsThere, RegistersHold,
         request # NoRequest, op \in DOMAIN Program[request],
         IsScan(Here), Shifting(Here, at), NEW l \in Lanes
  PROVE  /\ Shifted \in 0 .. Width(request, op) - 1
         /\ Enters(l, Here.bits[Shifted + 1])
              = IntoLane(request, op, stock, l)[Shifted + 1]
<1>2. /\ request \in Requests /\ op \in 1 .. Length(request)
      /\ Here = Program[request][op] /\ at \in Nat /\ InOp
      /\ stock \in [Lanes -> Seq(Byte)]
  BY Running
<1> DEFINE k == Shifted
           W == Width(request, op)
<1>3. W \in Nat \ {0} /\ k \in Nat /\ k < W /\ k = at - LeadOf(Here) - 1
  BY ShiftedHere
<1>4. at > LeadOf(Here)
  <2>1. LeadOf(Here) \in {3, 4}
    BY Leads DEF IsScan
  <2> QED
    BY <1>2, <1>3, <2>1
<1>5. k \in 0 .. W - 1 /\ k + 1 \in 1 .. W
  BY <1>3
<1>6. /\ IntoLane(request, op, stock, 1) = Here.bits
      /\ \A i \in 1 .. W :
           IntoLane(request, op, stock, 0)[i] = OutOf(request, op, stock, 1)[i]
  <2>1. IsScan(Program[request][op]) /\ 1 \in Lanes
    BY <1>2, Patterns
  <2>2. /\ IntoLane(request, op, stock, 1) = Program[request][op].bits
        /\ \A i \in 1 .. Width(request, op) :
             IntoLane(request, op, stock, 0)[i] = OutOf(request, op, stock, 1)[i]
    BY ONLY <1>2, <2>1, Streams
  <2> QED
    BY <1>2, <2>2
<1>7. CASE l = 1
  <2>1. Enters(l, Here.bits[k + 1]) = Here.bits[k + 1]
    BY <1>7 DEF Enters, LaneCount
  <2> QED
    BY <1>5, <1>6, <1>7, <2>1
<1>8. CASE l = 0
  <2>1. Enters(l, Here.bits[k + 1]) = Head(dr[1])
    BY <1>8 DEF Enters, LaneCount
  <2>2. dr[1] = SubSeq(OutOf(request, op, stock, 1), k + 1,
                       k + Len(Captured(request, op, stock, 1)))
    BY <1>2, <1>4, Patterns DEF RegistersHold
  <2>3. 1 \in Lanes
    BY Patterns
  <2>4. Head(dr[1]) = OutOf(request, op, stock, 1)[k + 1]
    <3>1. IsScan(Program[request][op])
      BY <1>2
    <3> HIDE DEF k
    <3>2. Head(SubSeq(OutOf(request, op, stock, 1), k + 1,
                      k + Len(Captured(request, op, stock, 1))))
            = OutOf(request, op, stock, 1)[k + 1]
      BY <1>2, <1>5, <2>3, <3>1, StreamStep
    <3> QED
      BY <2>2, <3>2
  <2> QED
    BY <1>5, <1>6, <1>8, <2>1, <2>4
<1> QED
  BY <1>5, <1>7, <1>8, Patterns

(* The same of a clock.                                                    *)
LEMMA EntersRight ==
  ASSUME TypeOK, TapIsThere, RegistersHold, Clock,
         IsScan(Here), Shifting(Here, at), NEW l \in Lanes
  PROVE  /\ Shifted \in 0 .. Width(request, op) - 1
         /\ Enters(l, Here.bits[Shifted + 1])
              = IntoLane(request, op, stock, l)[Shifted + 1]
<1>1. request # NoRequest /\ op \in DOMAIN Program[request]
  BY ClockIs
<1> QED
  BY <1>1, EntersHere


(* A scan keeps its registers on their streams.                            *)
LEMMA RegistersStep ==
  ASSUME TypeOK, StageIsRequest, TapIsThere, RegistersHold, StockIsRight,
         Clock
  PROVE  RegistersHold'
<1>1. /\ request # NoRequest /\ op \in DOMAIN Program[request]
      /\ request' = request /\ stock' = stock
      /\ at < Clocks(Here) =>
           /\ op' = op /\ at' = at + 1 /\ Here' = Here /\ InOp'
      /\ ~(at < Clocks(Here)) => op' = op + 1 /\ at' = 1
  BY ClockIs
<1>2. /\ request \in Requests /\ op \in 1 .. Length(request)
      /\ Here = Program[request][op] /\ at \in Nat /\ InOp
      /\ stock \in [Lanes -> Seq(Byte)]
  BY <1>1, Running
<1>3. CASE ~(at < Clocks(Here))
  <2>1. IsScan(Here') => LeadOf(Here') \in {3, 4}
    BY Leads DEF IsScan
  <2>2. ~(IsScan(Here') /\ at' > LeadOf(Here'))
    BY <1>1, <1>3, <2>1
  <2> QED
    BY <2>2 DEF RegistersHold
<1>4. CASE at < Clocks(Here) /\ ~IsScan(Here)
  <2>1. ~IsScan(Here')
    BY <1>1, <1>4
  <2> QED
    BY <2>1 DEF RegistersHold
<1>5. CASE at < Clocks(Here) /\ IsScan(Here)
  <2> DEFINE L == LeadOf(Here)
             k == Shifted
             out(l) == OutOf(request, op, stock, l)
             c(l) == Captured(request, op, stock, l)
  <2>1. /\ Shifted' = IF Shifting(Here, at) THEN k + 1 ELSE k
        /\ k \in Nat /\ (at <= L => k = 0)
    BY <1>5, ShiftedIs
  <2>2. IsScan(Program[request][op]) /\ L \in {3, 4}
        /\ Here.kind \in {"ir", "dr"} /\ (L = 3 <=> Here.kind = "dr")
    BY <1>2, <1>5, Leads DEF IsScan
  <2>3. LeadOf(Here') = L /\ at' = at + 1 /\ op' = op
    BY <1>1, <1>5
  <2>4. SUFFICES ASSUME at + 1 > L, NEW l \in Lanes
                 PROVE  dr'[l] = SubSeq(out(l), Shifted' + 1,
                                        Shifted' + Len(c(l)))
    <3>1. /\ request' = request /\ stock' = stock /\ op' = op
          /\ at' = at + 1 /\ LeadOf(Here') = L
      BY <1>1, <2>3
    <3> HIDE DEF L
    <3> QED
      BY <3>1 DEF RegistersHold
  <2>5. CASE at = L
    <3>1. Flow(request, op, stock, l) /\ c(l) \in Seq(Bit)
      BY <1>2, <2>2, OutOfBits, CapturedBits
    <3>2. /\ out(l) \in Seq(Bit) /\ Len(out(l)) = Len(c(l)) + Width(request, op)
          /\ Len(c(l)) \in Nat /\ Width(request, op) \in Nat
          /\ \A i \in 1 .. Len(c(l)) : out(l)[i] = c(l)[i]
      <4>1. Width(request, op) \in Nat
        BY <1>5, ShiftedIs
      <4> QED
        BY <3>1, <4>1 DEF Flow
    <3>3. Shifted' = 0
      <4>1. ~Shifting(Here, at)
        BY <1>2, <2>5, TapTells, <2>2, ScanClocks, ShiftedIs, <1>5
      <4>2. at <= L
        BY <1>2, <2>2, <2>5
      <4> HIDE DEF L
      <4> QED
        BY <2>1, <4>1, <4>2
    <3>4. dr'[l] = c(l)
      <4>1. CASE Here.kind = "dr"
        <5>1. at = 3
          BY <2>2, <2>5, <4>1
        <5>2. dr' = [m \in Lanes |-> CapturedDr(m)]
          BY <4>1, <5>1, CaptureClock DEF Capture
        <5>3. CapturedDr(l) = c(l)
          BY <4>1, <5>1, CapturesRight
        <5> QED
          BY <5>2, <5>3
      <4>2. CASE Here.kind = "ir"
        <5>1. at = 4
          BY <2>2, <2>5, <4>2
        <5>2. dr' = [m \in Lanes |-> CapturedIr]
          BY <4>2, <5>1, CellClock
        <5>3. c(l) = CapturedIr
          BY <1>2, <4>2 DEF Captured
        <5> QED
          BY <5>2, <5>3
      <4> QED
        BY <2>2, <4>1, <4>2
    <3> HIDE DEF out, c
    <3>5. SubSeq(out(l), 1, Len(c(l))) = c(l)
      <4>1. /\ SubSeq(out(l), 1, Len(c(l))) \in Seq(Bit)
            /\ Len(SubSeq(out(l), 1, Len(c(l)))) = Len(c(l))
            /\ \A i \in 1 .. Len(c(l)) :
                 SubSeq(out(l), 1, Len(c(l)))[i] = out(l)[i]
        BY <3>2, BeginningOf
      <4> QED
        BY <3>1, <3>2, <4>1, SameBits
    <3> QED
      BY <3>2, <3>3, <3>4, <3>5
  <2>6. CASE at > L
    <3>1. dr[l] = SubSeq(out(l), k + 1, k + Len(c(l)))
      BY <1>2, <1>5, <2>6 DEF RegistersHold
    <3>2. CASE Shifting(Here, at)
      <4> DEFINE bit == IF UserLogic(request, op, l) THEN 0
                        ELSE IntoLane(request, op, stock, l)[k + 1]
      <4>1. /\ k \in 0 .. Width(request, op) - 1
            /\ Enters(l, Here.bits[k + 1])
                 = IntoLane(request, op, stock, l)[k + 1]
        BY <1>5, <3>2, EntersRight
      <4>2. Append(Tail(SubSeq(out(l), k + 1, k + Len(c(l)))), bit)
              = SubSeq(out(l), k + 2, k + Len(c(l)) + 1)
        <5> HIDE DEF k
        <5> QED
          BY <1>2, <2>2, <4>1, StreamStep
      <4>3. dr'[l] = Append(Tail(dr[l]), bit)
        <5>1. CASE Here.kind = "dr"
          <6>1. dr' = [m \in Lanes |->
                         ShiftedDr(m, Enters(m, Here.bits[k + 1]))]
            BY <3>2, <5>1, ShiftClock DEF Shift
          <6>2. UserLogic(request, op, l) <=> instr[l] \in {"USER1", "USER2"}
            BY <1>2, <5>1, TapTells DEF UserLogic
          <6> QED
            BY <4>1, <6>1, <6>2 DEF ShiftedDr
        <5>2. CASE Here.kind = "ir"
          <6>1. dr' = [m \in Lanes |->
                         Append(Tail(dr[m]), Enters(m, Here.bits[k + 1]))]
            BY <3>2, <5>2, CellClock
          <6>2. ~UserLogic(request, op, l)
            BY <1>2, <5>2 DEF UserLogic
          <6> QED
            BY <4>1, <6>1, <6>2
        <5> QED
          BY <2>2, <5>1, <5>2
      <4>4. Shifted' = k + 1 /\ k \in Nat
        BY <2>1, <3>2
      <4>5. Len(c(l)) \in Nat
        BY <1>2, CapturedBits
      <4> HIDE DEF k, out, c, bit
      <4>6. k + 1 + 1 = k + 2 /\ k + 1 + Len(c(l)) = k + Len(c(l)) + 1
        BY <4>4, <4>5
      <4> QED
        BY <3>1, <4>2, <4>3, <4>4, <4>6
    <3>3. CASE ~Shifting(Here, at)
      <4>1. dr' = dr
        <5>1. CASE Here.kind = "dr"
          <6>1. at # 3
            BY <2>2, <2>6, <5>1
          <6> QED
            BY <3>3, <5>1, <6>1, QuietClock
        <5>2. CASE Here.kind = "ir"
          <6>1. at # 4
            BY <2>2, <2>6, <5>2
          <6> QED
            BY <3>3, <5>2, <6>1, CellClock
        <5> QED
          BY <2>2, <5>1, <5>2
      <4> QED
        BY <2>1, <3>1, <3>3, <4>1
    <3> QED
      BY <3>2, <3>3
  <2>7. at = L \/ at > L
    BY <1>2, <2>2, <2>4
  <2> QED
    BY <2>5, <2>6, <2>7
<1> QED
  BY <1>3, <1>4, <1>5

-----------------------------------------------------------------------------
(* The words of a write, one clock at a time.                              *)

(* The words a request has for a lane, and how many of them are done.      *)
LEMMA WordsForIs ==
  ASSUME NEW r \in Requests, IsWrite(r), NEW l \in Lanes
  PROVE  /\ WordsFor(r, l) \in Seq(Seq(Bit)) /\ Len(WordsFor(r, l)) \in Nat
         /\ \A n \in Nat : WordsDone(r, n, l) \in 0 .. Len(WordsFor(r, l))
         /\ WordsDone(r, Length(r) + 1, l) = Len(WordsFor(r, l))
         /\ WordsDone(r, 1, l) = 0
<1>1. r.kind \in {"pair", "ack"} /\ 1 \in Nat
  BY RequestIs
<1>2. /\ \A n \in Nat : WordsDone(r, n, l) \in 0 .. FrameLen(l)
      /\ WordsDone(r, 1, l) = 0
      /\ r.kind = "pair" => WordsDone(r, Length(r) + 1, l) = FrameLen(l)
      /\ r.kind = "ack" => WordsDone(r, Length(r) + 1, l) =
                           IF l = r.lane THEN FrameLen(l) ELSE 0
  BY <1>1, Counts
<1>3. DOMAIN Frames[l] = 1 .. FrameLen(l) /\ FrameLen(l) \in Nat
  BY Patterns, LenProperties DEF FrameLen
<1>4. \A i \in 1 .. FrameLen(l) : /\ High(Frames[l][i]) \in Seq(Bit)
                                  /\ Low(Frames[l][i]) \in Seq(Bit)
  BY FrameByte, PaddedByte
<1>5. CASE r.kind = "pair" \/ r.lane = l
  <2>1. WordsFor(r, l) \in [1 .. FrameLen(l) -> Seq(Bit)]
    <3>1. CASE r.kind = "pair"
      BY <1>3, <1>4, <3>1 DEF WordsFor
    <3>2. CASE r.kind = "ack"
      <4>1. r = Req("ack", l)
        BY <1>5, <3>2, RequestIs
      <4> QED
        BY <1>3, <1>4, <3>2, <4>1 DEF WordsFor
    <3> QED
      BY <1>1, <3>1, <3>2
  <2>2. WordsFor(r, l) \in Seq(Seq(Bit)) /\ Len(WordsFor(r, l)) = FrameLen(l)
    BY <1>3, <2>1, FunctionIsSeq
  <2> QED
    BY <1>1, <1>2, <1>3, <1>5, <2>2
<1>6. CASE r.kind # "pair" /\ r.lane # l
  <2>1. r # Req("ack", l) /\ r.kind = "ack"
    BY <1>1, <1>6, RequestIs
  <2>2. WordsFor(r, l) = <<>>
    BY <1>6, <2>1 DEF WordsFor
  <2>3. \A n \in Nat : WordsDone(r, n, l) = 0
    BY <1>6, <2>1, WordsDoneIs
  <2>4. <<>> \in Seq(Seq(Bit)) /\ Len(<<>>) = 0
    OBVIOUS
  <2> QED
    BY <1>2, <1>6, <2>1, <2>2, <2>3, <2>4
<1> QED
  BY <1>5, <1>6

(* A data scan leaves the instructions alone.                              *)
LEMMA DataKeepsInstr ==
  ASSUME TypeOK, TapIsThere, Clock, Here.kind = "dr"
  PROVE  instr' = instr
<1>1. InOp
  BY ClockIs, Running
<1>2. tap = TapInDr(at, Len(Here.bits))
  BY <1>1 DEF TapIsThere
<1>3. tap \notin {"TLR", "UpdIR"}
  BY <1>2 DEF TapInDr
<1> QED
  BY <1>3, InstrIs

(* When an operation begins to count as done.                              *)
LEMMA CountStep ==
  ASSUME TypeOK, TapIsThere, Clock
  PROVE  /\ at < Clocks(Here) /\ ~Shifting(Here, at) => Count' = Count
         /\ Shifting(Here, at) =>
              /\ Count = op
              /\ Count' = IF Shifted + 1 = Width(request, op)
                          THEN op + 1 ELSE op
         /\ ~(at < Clocks(Here)) =>
              /\ Count' = op + 1
              /\ Count = IF IsScan(Here) THEN op + 1 ELSE op
<1>1. /\ request # NoRequest /\ op \in DOMAIN Program[request]
      /\ at < Clocks(Here) =>
           /\ op' = op /\ at' = at + 1 /\ Here' = Here /\ InOp'
      /\ ~(at < Clocks(Here)) => op' = op + 1 /\ at' = 1
  BY ClockIs
<1>2. /\ Shifted \in Nat
      /\ ~IsScan(Here) => Shifted = 0
      /\ IsScan(Here) => /\ Len(Here.bits) \in Nat \ {0}
                         /\ Len(Here.bits) = Width(request, op)
      /\ at < Clocks(Here) /\ ~Shifting(Here, at) => Shifted' = Shifted
      /\ Shifting(Here, at) =>
           /\ at < Clocks(Here)
           /\ Shifted < Len(Here.bits) /\ Shifted' = Shifted + 1
      /\ ~(at < Clocks(Here)) => Shifted' = 0
      /\ IsScan(Here) /\ ~(at < Clocks(Here)) => Shifted = Len(Here.bits)
  BY ShiftedIs
<1>3. Shifting(Here, at) => IsScan(Here)
  BY DEF Shifting
<1>4. ASSUME at < Clocks(Here), ~Shifting(Here, at)
      PROVE  Count' = Count
  BY <1>1, <1>2, <1>4 DEF Count
<1>5. ASSUME Shifting(Here, at)
      PROVE  /\ Count = op
             /\ Count' = IF Shifted + 1 = Width(request, op)
                         THEN op + 1 ELSE op
  <2>1. Count = op
    BY <1>2, <1>3, <1>5 DEF Count
  <2>2. Count' = IF Shifted + 1 = Len(Here.bits) THEN op + 1 ELSE op
    <3>1. /\ Shifted' = Shifted + 1 /\ Shifted + 1 > 0
          /\ Len(Here'.bits) = Len(Here.bits) /\ op' = op
      BY <1>1, <1>2, <1>5
    <3> QED
      BY <3>1 DEF Count
  <2> QED
    BY <1>2, <1>3, <1>5, <2>1, <2>2
<1>6. ASSUME ~(at < Clocks(Here))
      PROVE  /\ Count' = op + 1
             /\ Count = IF IsScan(Here) THEN op + 1 ELSE op
  <2>1. Count' = op + 1
    BY <1>1, <1>2, <1>6 DEF Count
  <2>2. Count = IF IsScan(Here) THEN op + 1 ELSE op
    BY <1>2, <1>6 DEF Count
  <2> QED
    BY <2>1, <2>2
<1> QED
  BY <1>4, <1>5, <1>6

(* A card in the middle of a word of a write: it has the beginning of the  *)
(* word that is due, and the bit that comes is the next one.               *)
LEMMA WordHere ==
  ASSUME TypeOK, TapIsThere, RegistersHold, WordsAreRight,
         request # NoRequest, op \in DOMAIN Program[request],
         Here.kind = "dr", Shifting(Here, at), IsWrite(request),
         NEW l \in Lanes, instr[l] = "USER2"
  PROVE  LET k == Shifted
             into == IntoLane(request, op, stock, l)
             d == WordsDone(request, op, l)
             words == WordsFor(request, l)
         IN  /\ WriteAt(request, op, l) /\ Width(request, op) = ByteBits + 1
             /\ k \in 0 .. ByteBits /\ Count = op
             /\ Enters(l, Here.bits[k + 1]) = into[k + 1]
             /\ word[l] = SubSeq(into, 1, k) /\ Len(word[l]) = k
             /\ Append(word[l], into[k + 1]) = SubSeq(into, 1, k + 1)
             /\ inbox[l] = SubSeq(words, 1, d)
             /\ d + 1 \in 0 .. Len(words) /\ words \in Seq(Seq(Bit))
             /\ WordsDone(request, op + 1, l) = d + 1
             /\ k = ByteBits =>
                  Append(inbox[l], SubSeq(into, 1, k + 1))
                    = SubSeq(words, 1, d + 1)
<1>2. /\ request \in Requests /\ op \in 1 .. Length(request) /\ op \in Nat
      /\ Here = Program[request][op] /\ at \in Nat /\ InOp
      /\ stock \in [Lanes -> Seq(Byte)]
  BY Running
<1> DEFINE k == Shifted
           W == Width(request, op)
           into == IntoLane(request, op, stock, l)
           d == WordsDone(request, op, l)
           words == WordsFor(request, l)
<1>3. instr = Selected(request, op)
  BY TapTellsHere
<1>4. WriteAt(request, op, l)
  <2>1. ~IdsAt(request, op)
    BY DEF IdsAt, IsWrite
  <2>2. ~ReadAt(request, op)
    BY <1>3 DEF ReadAt, Only
  <2>3. \A lane \in Lanes : WriteAt(request, op, lane) => lane = l
    BY <1>3 DEF WriteAt, Only
  <2> QED
    BY <1>2, <2>1, <2>2, <2>3, KindIs
<1>5. /\ W = ByteBits + 1 /\ d \in 0 .. Len(words) - 1 /\ into = words[d + 1]
  BY <1>2, <1>4, WordArrives
<1>6. words \in Seq(Seq(Bit)) /\ Len(words) \in Nat
  BY <1>2, WordsForIs
<1>7. WordsDone(request, op + 1, l) = d + 1
  BY <1>4 DEF WriteAt
<1>8. IsScan(Here) /\ IsScan(Program[request][op]) /\ LeadOf(Here) = 3
  BY <1>2, Leads
<1>9. into \in Seq(Bit) /\ Len(into) = W
  BY <1>2, <1>8, Streams
<1>10. /\ k \in 0 .. W - 1
       /\ Enters(l, Here.bits[k + 1]) = into[k + 1]
  BY <1>8, EntersHere
<1>11. k = at - 3 - 1 /\ k \in Nat /\ Count = op
  BY <1>8, ShiftedHere
<1>12. at > LeadOf(Here)
  BY <1>2, <1>8, <1>11
<1>13. word[l] = IF k <= ByteBits THEN SubSeq(into, 1, k) ELSE <<>>
  BY <1>2, <1>12 DEF WordsAreRight
<1>14. inbox[l] = SubSeq(words, 1, d)
  BY <1>11 DEF WordsAreRight
<1>16. /\ ByteBits \in Nat
       /\ \A i \in Nat : i <= W => /\ SubSeq(into, 1, i) \in Seq(Bit)
                                   /\ Len(SubSeq(into, 1, i)) = i
  <2>1. ASSUME NEW i \in Nat, i <= W
        PROVE  SubSeq(into, 1, i) \in Seq(Bit) /\ Len(SubSeq(into, 1, i)) = i
    <3> HIDE DEF into
    <3> QED
      BY <1>9, <2>1, BeginningOf
  <2> QED
    BY <2>1, Patterns
<1> HIDE DEF k, W, into, d, words
<1>20. word[l] = SubSeq(into, 1, k) /\ Len(word[l]) = k
  BY <1>5, <1>10, <1>11, <1>13, <1>16
<1>21. Append(word[l], into[k + 1]) = SubSeq(into, 1, k + 1)
  <2>1. k < Len(into)
    BY <1>9, <1>10, <1>11, <1>5, <1>16
  <2> QED
    BY <1>9, <1>11, <1>20, <2>1, GrowPrefix
<1>22. d \in Nat /\ d < Len(words) /\ d + 1 \in 0 .. Len(words)
       /\ k \in 0 .. ByteBits
  BY <1>5, <1>6, <1>10, <1>11, <1>16
<1>23. ASSUME k = ByteBits
       PROVE  Append(inbox[l], SubSeq(into, 1, k + 1)) = SubSeq(words, 1, d + 1)
  <2>1. SubSeq(into, 1, k + 1) = into
    <3>1. k + 1 = Len(into) /\ k + 1 \in Nat
      BY <1>5, <1>9, <1>11, <1>23
    <3>2. /\ SubSeq(into, 1, k + 1) \in Seq(Bit)
          /\ Len(SubSeq(into, 1, k + 1)) = k + 1
          /\ \A i \in 1 .. k + 1 : SubSeq(into, 1, k + 1)[i] = into[i]
      BY <1>9, <3>1, BeginningOf
    <3> QED
      BY <1>9, <3>1, <3>2, SameBits
  <2>2. Append(SubSeq(words, 1, d), words[d + 1]) = SubSeq(words, 1, d + 1)
    BY <1>6, <1>22, GrowPrefix
  <2> QED
    BY <1>5, <1>14, <2>1, <2>2
<1> QED
  BY <1>4, <1>5, <1>6, <1>7, <1>10, <1>11, <1>14, <1>20, <1>21, <1>22, <1>23
     DEF k, W, into, d, words

(* The word a card is at, bit by bit, and its end.                         *)
LEMMA WordShift ==
  ASSUME TypeOK, TapIsThere, RegistersHold, WordsAreRight, Clock,
         Here.kind = "dr", Shifting(Here, at), IsWrite(request),
         NEW l \in Lanes, instr[l] = "USER2"
  PROVE  /\ inbox'[l] = SubSeq(WordsFor(request, l), 1,
                               WordsDone(request, Count', l))
         /\ word'[l] = IF Shifted' <= ByteBits
                       THEN SubSeq(IntoLane(request, op, stock, l), 1, Shifted')
                       ELSE <<>>
<1> DEFINE k == Shifted
           into == IntoLane(request, op, stock, l)
           d == WordsDone(request, op, l)
           words == WordsFor(request, l)
<1>1. request # NoRequest /\ op \in DOMAIN Program[request]
  BY ClockIs
<1>2. /\ Width(request, op) = ByteBits + 1 /\ k \in 0 .. ByteBits
      /\ Enters(l, Here.bits[k + 1]) = into[k + 1]
      /\ word[l] = SubSeq(into, 1, k) /\ Len(word[l]) = k
      /\ Append(word[l], into[k + 1]) = SubSeq(into, 1, k + 1)
      /\ inbox[l] = SubSeq(words, 1, d)
      /\ WordsDone(request, op + 1, l) = d + 1
      /\ k = ByteBits =>
           Append(inbox[l], SubSeq(into, 1, k + 1)) = SubSeq(words, 1, d + 1)
  BY <1>1, WordHere
<1>3. /\ word' = [m \in Lanes |->
                    IF instr[m] # "USER2" THEN word[m]
                    ELSE IF WordComplete(m) THEN <<>>
                    ELSE WordAfter(m, Here.bits[k + 1])]
      /\ inbox' = [m \in Lanes |->
                     IF WordComplete(m)
                     THEN Append(inbox[m], WordAfter(m, Here.bits[k + 1]))
                     ELSE inbox[m]]
  BY ShiftClock DEF Shift
<1>4. WordAfter(l, Here.bits[k + 1]) = SubSeq(into, 1, k + 1)
  BY <1>2 DEF WordAfter
<1>5. WordComplete(l) <=> k = ByteBits
  BY <1>2 DEF WordComplete
<1>6. /\ Count' = (IF k + 1 = ByteBits + 1 THEN op + 1 ELSE op)
      /\ Shifted' = k + 1
  <2>1. IsScan(Here)
    BY Leads
  <2> QED
    BY <1>2, <2>1, CountStep, ShiftedIs
<1>7. ByteBits \in Nat /\ k \in Nat
  BY <1>2, Patterns
<1> HIDE DEF k, into, d, words
<1>8. CASE k = ByteBits
  <2>1. word'[l] = <<>> /\ inbox'[l] = SubSeq(words, 1, d + 1)
    BY <1>2, <1>3, <1>4, <1>5, <1>8
  <2>2. Count' = op + 1 /\ ~(Shifted' <= ByteBits)
    BY <1>6, <1>7, <1>8
  <2> QED
    BY <1>2, <2>1, <2>2 DEF words
<1>9. CASE k # ByteBits
  <2>1. word'[l] = SubSeq(into, 1, k + 1) /\ inbox'[l] = inbox[l]
    BY <1>3, <1>4, <1>5, <1>9
  <2>2. Count' = op /\ Shifted' <= ByteBits
    BY <1>2, <1>6, <1>7, <1>9
  <2> QED
    BY <1>2, <1>6, <2>1, <2>2 DEF words, into, d
<1> QED
  BY <1>8, <1>9


(* A clock brings the words of a write on their way.                       *)
LEMMA WordsStep ==
  ASSUME TypeOK, TapIsThere, RegistersHold, WordsAreRight, Clock
  PROVE  WordsAreRight'
<1>1. /\ request # NoRequest /\ op \in DOMAIN Program[request]
      /\ request' = request /\ stock' = stock
      /\ write' = write /\ misread' = misread
      /\ at < Clocks(Here) =>
           /\ op' = op /\ at' = at + 1 /\ Here' = Here /\ InOp'
      /\ ~(at < Clocks(Here)) => op' = op + 1 /\ at' = 1
  BY ClockIs
<1>2. /\ request \in Requests /\ op \in 1 .. Length(request) /\ op \in Nat
      /\ Here = Program[request][op] /\ at \in Nat /\ InOp
      /\ stock \in [Lanes -> Seq(Byte)]
  BY <1>1, Running
<1>3. SUFFICES ASSUME IsWrite(request)
               PROVE  WordsAreRight'
  BY <1>1 DEF WordsAreRight
<1>4. /\ write = request /\ ~misread
      /\ \A l \in Lanes :
           inbox[l] = SubSeq(WordsFor(request, l), 1,
                             WordsDone(request, Count, l))
  BY <1>3 DEF WordsAreRight
<1> DEFINE Arrived == \A l \in Lanes :
             inbox'[l] = SubSeq(WordsFor(request, l), 1,
                                WordsDone(request, Count', l))
           InWord == Here'.kind = "dr" /\ at' > LeadOf(Here') =>
             \A l \in Lanes :
               instr'[l] = "USER2" =>
                 word'[l] =
                   IF Shifted' <= ByteBits
                   THEN SubSeq(IntoLane(request, op', stock, l), 1, Shifted')
                   ELSE <<>>
<1>5. SUFFICES Arrived /\ InWord
  BY <1>1, <1>3, <1>4 DEF WordsAreRight
<1>6. ~(at < Clocks(Here)) => InWord
  <2>1. Here'.kind = "dr" => LeadOf(Here') = 3
    BY Leads
  <2> QED
    BY <1>1, <2>1
<1>7. ~FirstClock
  BY <1>3 DEF FirstClock, IsWrite
<1>8. /\ at < Clocks(Here) /\ ~Shifting(Here, at) => Count' = Count
      /\ Shifting(Here, at) =>
           /\ Count = op
           /\ Count' = IF Shifted + 1 = Width(request, op)
                       THEN op + 1 ELSE op
      /\ ~(at < Clocks(Here)) =>
           /\ Count' = op + 1
           /\ Count = IF IsScan(Here) THEN op + 1 ELSE op
  BY CountStep
<1>9. Shifting(Here, at) => at < Clocks(Here)
  BY ShiftedIs
<1>10. CASE Here.kind # "dr"
  <2>1. UNCHANGED cardVars
    <3>1. CASE Here.kind = "ir"
      BY <3>1, CellClock
    <3>2. CASE Here.kind # "ir"
      BY <1>7, <1>10, <3>2, QuietClock
    <3> QED
      BY <3>1, <3>2
  <2>2. inbox' = inbox
    BY <2>1 DEF cardVars
  <2>3. \A l \in Lanes : WordsDone(request, op + 1, l) = WordsDone(request, op, l)
    <3>1. Here.kind \in {"tlr", "reset", "idle", "ir"}
      BY <1>2, <1>10, KindIs
    <3>2. CASE Here.kind = "ir"
      <4>1. SelectAt(request, op)
        <5>1. ~ProbeAt(request, op)
          BY <1>3 DEF ProbeAt, IsWrite
        <5> QED
          BY <1>2, <3>2, <5>1, KindIs
      <4> QED
        BY <4>1 DEF SelectAt, Quiet
    <3>3. CASE Here.kind # "ir"
      <4>1. PauseAt(request, op)
        BY <1>2, <3>1, <3>3, KindIs
      <4> QED
        BY <4>1 DEF PauseAt, Quiet
    <3> QED
      BY <3>2, <3>3
  <2>4. \A l \in Lanes : WordsDone(request, Count', l) = WordsDone(request, Count, l)
    BY <1>8, <2>3
  <2>5. InWord
    <3>1. at < Clocks(Here) => Here'.kind # "dr"
      BY <1>1, <1>10
    <3> HIDE DEF InWord
    <3>2. Here'.kind # "dr" => InWord
      BY DEF InWord
    <3> QED
      BY <1>6, <3>1, <3>2
  <2> QED
    BY <1>4, <2>2, <2>4, <2>5
<1>11. CASE Here.kind = "dr"
  <2>1. instr' = instr /\ instr = Selected(request, op)
    BY <1>11, DataKeepsInstr, TapTells
  <2>2. IsScan(Here) /\ LeadOf(Here) = 3
    BY <1>11, Leads
  <2>3. CASE Shifting(Here, at)
    <3>1. op' = op /\ Here' = Here
      BY <1>1, <1>9, <2>3
    <3>2. InWord
      BY <1>3, <1>11, <2>1, <2>3, <3>1, WordShift
    <3>3. ASSUME NEW l \in Lanes
          PROVE  inbox'[l] = SubSeq(WordsFor(request, l), 1,
                                    WordsDone(request, Count', l))
      <4>1. CASE instr[l] = "USER2"
        BY <1>3, <1>11, <2>3, <4>1, WordShift
      <4>2. CASE instr[l] # "USER2"
        <5>1. inbox' = [m \in Lanes |->
                          IF WordComplete(m)
                          THEN Append(inbox[m],
                                      WordAfter(m, Here.bits[Shifted + 1]))
                          ELSE inbox[m]]
          BY <1>11, <2>3, ShiftClock DEF Shift
        <5>2. ~WordComplete(l)
          BY <4>2 DEF WordComplete
        <5>3. inbox'[l] = inbox[l]
          BY <5>1, <5>2
        <5>4. WordsDone(request, op + 1, l) = WordsDone(request, op, l)
          <6>1. CASE ReadAt(request, op)
            BY <6>1 DEF ReadAt
          <6>2. ASSUME NEW lane \in Lanes, WriteAt(request, op, lane)
                PROVE  WordsDone(request, op + 1, l) = WordsDone(request, op, l)
            <7>1. lane # l
              BY <2>1, <4>2, <6>2 DEF WriteAt, Only
            <7> QED
              BY <6>2, <7>1 DEF WriteAt
          <6>3. ~IdsAt(request, op)
            BY <1>3 DEF IdsAt, IsWrite
          <6> QED
            BY <1>2, <1>11, <6>1, <6>2, <6>3, KindIs
        <5>5. WordsDone(request, Count', l) = WordsDone(request, Count, l)
          BY <1>8, <2>3, <5>4
        <5> QED
          BY <1>4, <5>3, <5>5
      <4> QED
        BY <4>1, <4>2
    <3> QED
      BY <3>2, <3>3
  <2>4. CASE ~Shifting(Here, at) /\ at # 3
    <3>1. UNCHANGED cardVars
      BY <1>11, <2>4, QuietClock
    <3>2. inbox' = inbox /\ word' = word
      BY <3>1 DEF cardVars
    <3>3. Count' = Count
      BY <1>8, <2>2, <2>4
    <3>4. at < Clocks(Here) => InWord
      <4>1. ASSUME at < Clocks(Here), at + 1 > 3, NEW l \in Lanes,
                   instr[l] = "USER2"
            PROVE  word[l] =
                     IF Shifted <= ByteBits
                     THEN SubSeq(IntoLane(request, op, stock, l), 1, Shifted)
                     ELSE <<>>
        <5>1. at > LeadOf(Here)
          BY <1>2, <2>2, <2>4, <4>1
        <5> QED
          BY <1>2, <1>3, <1>11, <4>1, <5>1 DEF WordsAreRight
      <4>2. at < Clocks(Here) =>
              /\ Shifted' = Shifted /\ op' = op /\ at' = at + 1
              /\ LeadOf(Here') = 3
        BY <1>1, <2>2, <2>4, ShiftedIs
      <4> QED
        BY <2>1, <3>2, <4>1, <4>2
    <3> HIDE DEF InWord
    <3>5. InWord
      BY <1>6, <3>4
    <3> QED
      BY <1>4, <3>2, <3>3, <3>5
  <2>5. CASE at = 3
    <3>1. Capture
      BY <1>11, <2>5, CaptureClock
    <3>2. /\ inbox' = inbox
          /\ word' = [l \in Lanes |-> IF instr[l] = "USER2" THEN <<>> ELSE word[l]]
      BY <3>1 DEF Capture
    <3>3. ~Shifting(Here, at)
      BY <1>11, <2>5, TapTells
    <3>4. at < Clocks(Here)
      <4>1. Len(Here.bits) \in Nat \ {0}
        BY <2>2, ShiftedIs
      <4>2. Clocks(Here) = 3 + Len(Here.bits) + 2
        BY <2>2, <4>1, ScanClocks
      <4> QED
        BY <2>5, <4>1, <4>2
    <3>5. Shifted' = 0 /\ Count' = Count
      <4>1. Shifted = 0
        BY <2>2, <2>5, ShiftedIs
      <4> QED
        BY <1>8, <3>3, <3>4, <4>1, ShiftedIs
    <3>6. \A s : SubSeq(s, 1, 0) = <<>>
      OBVIOUS
    <3>7. InWord
      <4>1. Shifted' <= ByteBits
        BY <3>5, Patterns
      <4>2. \A l \in Lanes : instr[l] = "USER2" => word'[l] = <<>>
        BY <3>2
      <4> QED
        BY <2>1, <3>5, <3>6, <4>1, <4>2
    <3> QED
      BY <1>4, <3>2, <3>5, <3>7
  <2> QED
    BY <2>3, <2>4, <2>5
<1> QED
  BY <1>10, <1>11

-----------------------------------------------------------------------------
(* The bytes a card passes on, one clock at a time.                        *)

(* What is left behind the last element.                                   *)
LEMMA RestIs ==
  ASSUME NEW s \in Seq(Byte), NEW n \in Nat
  PROVE  /\ n < Len(s) => /\ Rest(s, n) # <<>>
                          /\ Tail(Rest(s, n)) = Rest(s, n + 1)
         /\ n >= Len(s) => Rest(s, n) = <<>> /\ Rest(s, n + 1) = <<>>
         /\ Rest(s, 0) = s
<1>1. Len(s) \in Nat
  BY LenProperties
<1>2. n < Len(s) => /\ Rest(s, n) # <<>>
                    /\ Tail(Rest(s, n)) = Rest(s, n + 1)
  BY DropFirst
<1>3. n >= Len(s) => Rest(s, n) = <<>> /\ Rest(s, n + 1) = <<>>
  BY <1>1 DEF Rest
<1>4. Rest(s, 0) = s
  BY SubSeqFull DEF Rest
<1> QED
  BY <1>2, <1>3, <1>4

(* Only a read scan lets a byte go, and only of its own lane.              *)
LEMMA BytesDoneIs ==
  ASSUME NEW r \in Requests, NEW n \in 1 .. Length(r), NEW l \in Lanes,
         r.kind \notin {"idcodes", "irdelay"}
  PROVE  /\ ~ReadAt(r, n) => BytesDone(r, n + 1, l) = BytesDone(r, n, l)
         /\ ReadAt(r, n) =>
              /\ l = r.lane => /\ BytesDone(r, n, l) = WindowsDone(r, n)
                               /\ BytesDone(r, n + 1, l) = WindowsDone(r, n) + 1
              /\ l # r.lane => BytesDone(r, n + 1, l) = BytesDone(r, n, l)
<1>1. CASE ReadAt(r, n)
  <2>1. r \in LaneRequests /\ WindowsDone(r, n + 1) = WindowsDone(r, n) + 1
    BY <1>1, RequestIs DEF ReadAt
  <2> QED
    BY <1>1, <2>1 DEF BytesDone
<1>2. CASE ~ReadAt(r, n)
  <2>1. WindowsDone(r, n + 1) = WindowsDone(r, n)
    <3>1. PauseAt(r, n) => WindowsDone(r, n + 1) = WindowsDone(r, n)
      BY DEF PauseAt, Quiet
    <3>2. SelectAt(r, n) => WindowsDone(r, n + 1) = WindowsDone(r, n)
      BY DEF SelectAt, Quiet
    <3>3. ~ProbeAt(r, n) /\ ~IdsAt(r, n)
      BY DEF ProbeAt, IdsAt
    <3>4. \A lane \in Lanes :
            WriteAt(r, n, lane) => WindowsDone(r, n + 1) = WindowsDone(r, n)
      BY DEF WriteAt
    <3>5. Known(r, n)
      BY Positions
    <3> QED
      BY <1>2, <3>1, <3>2, <3>3, <3>4, <3>5 DEF Known
  <2> QED
    BY <1>2, <2>1 DEF BytesDone
<1> QED
  BY <1>1, <1>2

(* A card in a read, from one bit to the next.                             *)
LEMMA ByteShift ==
  ASSUME TypeOK, TapIsThere, StockIsRight, Clock, stage = "open",
         Here.kind = "dr", Shifting(Here, at), ReadAt(request, op),
         NEW l \in Lanes, instr[l] = "USER1"
  PROVE  /\ outbox'[l] = Rest(stock[l], WindowsDone(request, op) +
                                        (IF Shifted' >= ByteBits THEN 1 ELSE 0))
         /\ due'[l] = IF HasByte(l) /\ Shifted' <= ByteBits
                      THEN ByteBits - Shifted' ELSE 0
<1>1. request # NoRequest /\ op \in DOMAIN Program[request]
  BY ClockIs
<1>2. /\ request \in Requests /\ op \in 1 .. Length(request) /\ op \in Nat
      /\ Here = Program[request][op] /\ at \in Nat /\ InOp
      /\ stock \in [Lanes -> Seq(Byte)]
  BY <1>1, Running
<1> DEFINE k == Shifted
           d == WindowsDone(request, op)
           s == stock[l]
<1>3. /\ instr = Only(request.lane, "USER1")
      /\ request.kind \in {"read", "ack"}
  BY TapTells DEF ReadAt
<1>4. l = request.lane
  BY <1>3 DEF Only
<1>5. BytesDone(request, op, l) = d /\ BytesDone(request, op + 1, l) = d + 1
  BY <1>2, <1>3, <1>4, BytesDoneIs
<1>6. IsScan(Here) /\ LeadOf(Here) = 3
  BY Leads
<1>7. k = at - 3 - 1 /\ k \in Nat /\ Shifted' = k + 1
  BY <1>6, ShiftedIs
<1>8. at > LeadOf(Here)
  BY <1>2, <1>6, <1>7
<1>9. due[l] = IF HasByte(l) /\ k <= ByteBits THEN ByteBits - k ELSE 0
  BY <1>2, <1>8 DEF StockIsRight
<1>10. outbox[l] = Rest(s, BytesDone(request,
                                     IF k >= ByteBits THEN op + 1 ELSE op, l))
  BY DEF StockIsRight
<1>11. d \in Nat
  BY <1>2, Counts
<1>12. s \in Seq(Byte) /\ Len(s) \in Nat /\ ByteBits \in Nat \ {0}
  BY <1>2, Patterns, LenProperties
<1>13. HasByte(l) <=> d < Len(s)
  BY DEF HasByte
<1>14. /\ due' = [m \in Lanes |-> IF instr[m] = "USER1" /\ due[m] > 0
                                  THEN due[m] - 1 ELSE due[m]]
       /\ outbox' = [m \in Lanes |-> IF ByteTaken(m) THEN Tail(outbox[m])
                                     ELSE outbox[m]]
  BY ShiftClock DEF Shift
<1>15. ByteTaken(l) <=> due[l] = 1
  BY DEF ByteTaken
<1>16. due'[l] = IF due[l] > 0 THEN due[l] - 1 ELSE due[l]
  BY <1>14
<1>17. outbox'[l] = IF due[l] = 1 THEN Tail(outbox[l]) ELSE outbox[l]
  BY <1>14, <1>15
<1>18. outbox[l] = Rest(s, d + (IF k >= ByteBits THEN 1 ELSE 0))
  BY <1>5, <1>10, <1>11
<1>19. /\ d < Len(s) => Tail(Rest(s, d)) = Rest(s, d + 1)
       /\ d >= Len(s) => Rest(s, d) = <<>> /\ Rest(s, d + 1) = <<>>
  BY <1>11, <1>12, RestIs
<1> HIDE DEF k, d, s
<1>20. CASE HasByte(l)
  <2>1. due[l] = IF k <= ByteBits THEN ByteBits - k ELSE 0
    BY <1>9, <1>20
  <2>2. due'[l] = IF Shifted' <= ByteBits THEN ByteBits - Shifted' ELSE 0
    BY <1>7, <1>12, <1>16, <2>1
  <2>3. due[l] = 1 <=> k + 1 = ByteBits
    BY <1>7, <1>12, <2>1
  <2>4. outbox'[l] = Rest(s, d + (IF Shifted' >= ByteBits THEN 1 ELSE 0))
    <3>1. CASE k + 1 = ByteBits
      <4>1. outbox[l] = Rest(s, d)
        <5>1. ~(k >= ByteBits) /\ d + 0 = d
          BY <1>7, <1>11, <1>12, <3>1
        <5> QED
          BY <1>18, <5>1
      <4>2. outbox'[l] = Rest(s, d + 1)
        BY <1>13, <1>17, <1>19, <1>20, <2>3, <3>1, <4>1
      <4>3. Shifted' >= ByteBits
        BY <1>7, <1>12, <3>1
      <4> QED
        BY <4>2, <4>3
    <3>2. CASE k + 1 # ByteBits
      <4>1. outbox'[l] = outbox[l]
        BY <1>17, <2>3, <3>2
      <4>2. Shifted' >= ByteBits <=> k >= ByteBits
        BY <1>7, <1>12, <3>2
      <4> QED
        BY <1>18, <4>1, <4>2
    <3> QED
      BY <3>1, <3>2
  <2> QED
    BY <1>20, <2>2, <2>4 DEF s, d
<1>21. CASE ~HasByte(l)
  <2>1. due[l] = 0
    BY <1>9, <1>21
  <2>2. due'[l] = 0 /\ outbox'[l] = outbox[l]
    BY <1>16, <1>17, <2>1
  <2>3. Rest(s, d + 0) = <<>> /\ Rest(s, d + 1) = <<>>
    <3>1. d >= Len(s) /\ d + 0 = d
      BY <1>11, <1>12, <1>13, <1>21
    <3> QED
      BY <1>19, <3>1
  <2>4. outbox'[l] = Rest(s, d + (IF Shifted' >= ByteBits THEN 1 ELSE 0))
    <3>1. CASE k >= ByteBits
      <4>1. Shifted' >= ByteBits
        BY <1>7, <1>12, <3>1
      <4> QED
        BY <1>18, <2>2, <3>1, <4>1
    <3>2. CASE ~(k >= ByteBits)
      <4>1. outbox'[l] = Rest(s, d + 0)
        BY <1>18, <2>2, <3>2
      <4>2. Rest(s, d + 0) = Rest(s, d + (IF Shifted' >= ByteBits THEN 1 ELSE 0))
        <5>1. CASE Shifted' >= ByteBits
          BY <2>3, <5>1
        <5>2. CASE ~(Shifted' >= ByteBits)
          BY <5>2
        <5> QED
          BY <5>1, <5>2
      <4> QED
        BY <4>1, <4>2
    <3> QED
      BY <3>1, <3>2
  <2> QED
    BY <1>21, <2>2, <2>4 DEF s, d
<1> QED
  BY <1>20, <1>21

(* A clock passes on what the request has asked for and no more.           *)
LEMMA StockStep ==
  ASSUME TypeOK, StageIsRequest, TapIsThere, StockIsRight, Clock
  PROVE  StockIsRight'
<1>1. /\ request # NoRequest /\ op \in DOMAIN Program[request]
      /\ request' = request /\ stock' = stock /\ stage' = stage
      /\ at < Clocks(Here) =>
           /\ op' = op /\ at' = at + 1 /\ Here' = Here /\ InOp'
      /\ ~(at < Clocks(Here)) => op' = op + 1 /\ at' = 1
  BY ClockIs
<1>2. /\ request \in Requests /\ op \in 1 .. Length(request) /\ op \in Nat
      /\ Here = Program[request][op] /\ at \in Nat /\ InOp
      /\ stock \in [Lanes -> Seq(Byte)]
  BY <1>1, Running
<1>3. SUFFICES ASSUME stage = "open"
               PROVE  StockIsRight'
  BY <1>1 DEF StockIsRight
<1>4. request.kind \notin {"idcodes", "irdelay"}
  BY <1>1, <1>3 DEF StageIsRequest
<1> DEFINE Turn == IF Shifted >= ByteBits THEN op + 1 ELSE op
           done(n, l) == BytesDone(request, n, l)
           Left == \A l \in Lanes :
                     outbox'[l] = Rest(stock[l], done(Turn', l))
           InByte == Here'.kind = "dr" /\ at' > LeadOf(Here') =>
             \A l \in Lanes :
               instr'[l] = "USER1" =>
                 due'[l] = IF HasByte(l)' /\ Shifted' <= ByteBits
                           THEN ByteBits - Shifted' ELSE 0
<1>5. SUFFICES Left /\ InByte
  BY <1>1, <1>3 DEF StockIsRight
<1>6. \A l \in Lanes : outbox[l] = Rest(stock[l], done(Turn, l))
  BY <1>3 DEF StockIsRight
<1>7. ~(at < Clocks(Here)) => InByte
  <2>1. Here'.kind = "dr" => LeadOf(Here') = 3
    BY Leads
  <2> QED
    BY <1>1, <2>1
<1>8. /\ at < Clocks(Here) /\ ~Shifting(Here, at) => Turn' = Turn
      /\ Turn' \in {op, op + 1} /\ Turn \in {op, op + 1}
      /\ ~(at < Clocks(Here)) => Turn' = op + 1
  <2>1. /\ at < Clocks(Here) /\ ~Shifting(Here, at) => Shifted' = Shifted
        /\ ~(at < Clocks(Here)) => Shifted' = 0
    BY ShiftedIs
  <2>2. ~(0 >= ByteBits)
    BY Patterns
  <2> QED
    BY <1>1, <2>1, <2>2
<1>9. Shifting(Here, at) => at < Clocks(Here)
  BY ShiftedIs
<1>10. \A l \in Lanes : instr[l] = "USER1" /\ Here.kind = "dr" =>
         ReadAt(request, op) /\ l = request.lane
  <2> SUFFICES ASSUME NEW l \in Lanes, instr[l] = "USER1", Here.kind = "dr"
               PROVE  ReadAt(request, op) /\ l = request.lane
    OBVIOUS
  <2>1. instr = Selected(request, op)
    BY TapTells
  <2>2. ~IdsAt(request, op)
    BY <1>4 DEF IdsAt
  <2>3. \A lane \in Lanes : ~WriteAt(request, op, lane)
    BY <2>1 DEF WriteAt, Only
  <2>4. ReadAt(request, op)
    BY <1>2, <2>2, <2>3, KindIs
  <2> QED
    BY <2>1, <2>4 DEF ReadAt, Only
<1>11. ASSUME NEW l \in Lanes, ~ReadAt(request, op) \/ l # request.lane
       PROVE  done(op + 1, l) = done(op, l)
  BY <1>2, <1>4, <1>11, BytesDoneIs
<1>12. ASSUME NEW l \in Lanes, ~ReadAt(request, op) \/ l # request.lane,
              outbox'[l] = outbox[l]
       PROVE  outbox'[l] = Rest(stock[l], done(Turn', l))
  <2>1. done(op + 1, l) = done(op, l)
    BY <1>11, <1>12
  <2> HIDE DEF done, Turn
  <2> QED
    BY <1>6, <1>8, <1>12, <2>1
<1>13. CASE Here.kind # "dr"
  <2>1. UNCHANGED cardVars
    <3>1. CASE Here.kind = "ir"
      BY <3>1, CellClock
    <3>2. CASE Here.kind # "ir"
      <4>1. ~FirstClock
        BY <1>4 DEF FirstClock
      <4> QED
        BY <1>13, <3>2, <4>1, QuietClock
    <3> QED
      BY <3>1, <3>2
  <2>2. outbox' = outbox
    BY <2>1 DEF cardVars
  <2>3. ~ReadAt(request, op)
    BY <1>2, <1>13, OperationFields DEF ReadAt
  <2>4. Left
    BY <1>12, <2>2, <2>3
  <2>5. InByte
    <3>1. at < Clocks(Here) => Here'.kind # "dr"
      BY <1>1, <1>13
    <3> HIDE DEF InByte
    <3>2. Here'.kind # "dr" => InByte
      BY DEF InByte
    <3> QED
      BY <1>7, <3>1, <3>2
  <2> QED
    BY <2>4, <2>5
<1>14. CASE Here.kind = "dr"
  <2>1. instr' = instr
    BY <1>14, DataKeepsInstr
  <2>2. IsScan(Here) /\ LeadOf(Here) = 3
    BY <1>14, Leads
  <2>3. at < Clocks(Here) => \A l \in Lanes : HasByte(l)' <=> HasByte(l)
    BY <1>1 DEF HasByte
  <2>4. CASE Shifting(Here, at)
    <3>1. op' = op /\ Here' = Here
      BY <1>1, <1>9, <2>4
    <3>2. InByte
      <4>1. ASSUME NEW l \in Lanes, instr[l] = "USER1"
            PROVE  due'[l] = IF HasByte(l) /\ Shifted' <= ByteBits
                             THEN ByteBits - Shifted' ELSE 0
        BY <1>3, <1>10, <1>14, <2>4, <4>1, ByteShift
      <4> QED
        BY <1>9, <2>1, <2>3, <2>4, <4>1
    <3>3. ASSUME NEW l \in Lanes
          PROVE  outbox'[l] = Rest(stock[l], done(Turn', l))
      <4>1. CASE instr[l] = "USER1"
        <5>1. ReadAt(request, op) /\ l = request.lane
          BY <1>10, <1>14, <4>1
        <5>2. outbox'[l] = Rest(stock[l], WindowsDone(request, op) +
                                  (IF Shifted' >= ByteBits THEN 1 ELSE 0))
          BY <1>3, <1>14, <2>4, <4>1, <5>1, ByteShift
        <5>3. done(op, l) = WindowsDone(request, op)
              /\ done(op + 1, l) = WindowsDone(request, op) + 1
          BY <1>2, <1>4, <5>1, BytesDoneIs
        <5>4. Turn' = IF Shifted' >= ByteBits THEN op + 1 ELSE op
          BY <3>1
        <5>5. WindowsDone(request, op) + 0 = WindowsDone(request, op)
          <6>1. WindowsDone(request, op) \in Nat
            BY <1>2, Counts
          <6> QED
            BY <6>1
        <5> QED
          BY <5>2, <5>3, <5>4, <5>5
      <4>2. CASE instr[l] # "USER1"
        <5>1. outbox' = [m \in Lanes |-> IF ByteTaken(m) THEN Tail(outbox[m])
                                         ELSE outbox[m]]
          BY <1>14, <2>4, ShiftClock DEF Shift
        <5>2. ~ByteTaken(l)
          BY <4>2 DEF ByteTaken
        <5>3. outbox'[l] = outbox[l]
          BY <5>1, <5>2
        <5>4. ~ReadAt(request, op) \/ l # request.lane
          <6>1. ReadAt(request, op) => instr = Only(request.lane, "USER1")
            BY <1>14, TapTells DEF ReadAt
          <6> QED
            BY <4>2, <6>1 DEF Only
        <5> QED
          BY <1>12, <5>3, <5>4
      <4> QED
        BY <4>1, <4>2
    <3> QED
      BY <3>2, <3>3
  <2>5. CASE ~Shifting(Here, at)
    <3>1. outbox' = outbox
      <4>1. CASE at = 3
        BY <1>14, <4>1, CaptureClock DEF Capture
      <4>2. CASE at # 3
        <5>1. UNCHANGED cardVars
          BY <1>14, <2>5, <4>2, QuietClock
        <5> QED
          BY <5>1 DEF cardVars
      <4> QED
        BY <4>1, <4>2
    <3>2. Left
      <4>1. CASE at < Clocks(Here)
        BY <1>6, <1>8, <2>5, <3>1, <4>1
      <4>2. CASE ~(at < Clocks(Here))
        <5>1. ReadAt(request, op) => Turn = op + 1
          <6>1. ASSUME ReadAt(request, op)
                PROVE  Shifted >= ByteBits
            <7>1. Shifted = Width(request, op)
              BY <2>2, <4>2, ShiftedIs
            <7>2. Width(request, op) = ReadWidth
              BY <1>2, <6>1, AnswerArrives
            <7> QED
              BY <7>1, <7>2, Patterns DEF ReadWidth
          <6> QED
            BY <6>1
        <5>2. ReadAt(request, op) => Turn' = Turn
          BY <1>8, <4>2, <5>1
        <5> HIDE DEF Turn, done
        <5>3. CASE ReadAt(request, op)
          BY <1>6, <3>1, <5>2, <5>3
        <5>4. CASE ~ReadAt(request, op)
          BY <1>12, <3>1, <5>4
        <5> QED
          BY <5>3, <5>4
      <4> QED
        BY <4>1, <4>2
    <3>3. InByte
      <4>1. CASE ~(at < Clocks(Here))
        BY <1>7, <4>1
      <4>2. CASE at < Clocks(Here) /\ at # 3
        <5>1. due' = due
          <6>1. UNCHANGED cardVars
            BY <1>14, <2>5, <4>2, QuietClock
          <6> QED
            BY <6>1 DEF cardVars
        <5>2. ASSUME at + 1 > 3, NEW l \in Lanes, instr[l] = "USER1"
              PROVE  due[l] = IF HasByte(l) /\ Shifted <= ByteBits
                              THEN ByteBits - Shifted ELSE 0
          <6>1. at > LeadOf(Here)
            BY <1>2, <2>2, <4>2, <5>2
          <6> QED
            BY <1>2, <1>3, <1>14, <5>2, <6>1 DEF StockIsRight
        <5>3. Shifted' = Shifted /\ at' = at + 1 /\ LeadOf(Here') = 3
          BY <1>1, <2>2, <2>5, <4>2, ShiftedIs
        <5> QED
          BY <2>1, <2>3, <4>2, <5>1, <5>2, <5>3
      <4>3. CASE at < Clocks(Here) /\ at = 3
        <5>1. Shifted = 0 /\ Shifted' = 0
          BY <2>2, <2>5, <4>3, ShiftedIs
        <5>2. due' = [l \in Lanes |->
                        IF instr[l] # "USER1" THEN due[l]
                        ELSE IF outbox[l] # <<>> THEN ByteBits ELSE 0]
          BY <1>14, <4>3, CaptureClock DEF Capture
        <5>3. ASSUME NEW l \in Lanes, instr[l] = "USER1"
              PROVE  due'[l] = IF HasByte(l) /\ Shifted' <= ByteBits
                               THEN ByteBits - Shifted' ELSE 0
          <6> DEFINE d == WindowsDone(request, op)
          <6>1. ReadAt(request, op) /\ l = request.lane
            BY <1>10, <1>14, <5>3
          <6>2. done(op, l) = d /\ d \in Nat
            BY <1>2, <1>4, <6>1, BytesDoneIs, Counts
          <6>3. Turn = op
            BY <5>1, Patterns
          <6>4. outbox[l] = Rest(stock[l], d)
            BY <1>6, <6>2, <6>3
          <6>5. HasByte(l) <=> d < Len(stock[l])
            BY DEF HasByte
          <6> HIDE DEF d
          <6>6. stock[l] \in Seq(Byte) /\ Len(stock[l]) \in Nat
            BY <1>2, LenProperties
          <6>7. HasByte(l) <=> outbox[l] # <<>>
            BY <6>2, <6>4, <6>5, <6>6, RestIs
          <6>8. Shifted' <= ByteBits /\ ByteBits - Shifted' = ByteBits
            BY <5>1, Patterns
          <6> QED
            BY <5>2, <5>3, <6>7, <6>8
        <5> QED
          BY <2>1, <2>3, <4>3, <5>3
      <4> QED
        BY <4>1, <4>2, <4>3
    <3> QED
      BY <3>2, <3>3
  <2> QED
    BY <2>4, <2>5
<1> QED
  BY <1>13, <1>14

-----------------------------------------------------------------------------
(* The windows the host reads, one clock at a time.                        *)

Replaced(w, x, y) ==
  /\ Len(w \o <<x>>) = Len(w) + 1 /\ (w \o <<x>>)[Len(w) + 1] = x
  /\ [w \o <<x>> EXCEPT ![Len(w) + 1] = y] = w \o <<y>>

(* A sequence with one more element, and with that element replaced.       *)
LEMMA ReplaceLast ==
  ASSUME NEW S, NEW w \in Seq(S), NEW x \in S, NEW y \in S
  PROVE  Replaced(w, x, y)
<1>1. Len(w) \in Nat /\ <<x>> \in Seq(S) /\ <<y>> \in Seq(S)
  BY LenProperties
<1>2. \A z \in S : /\ w \o <<z>> \in Seq(S) /\ Len(w \o <<z>>) = Len(w) + 1
                   /\ \A i \in 1 .. Len(w) : (w \o <<z>>)[i] = w[i]
                   /\ (w \o <<z>>)[Len(w) + 1] = z
  <2> TAKE z \in S
  <2>1. <<z>> \in Seq(S) /\ Len(<<z>>) = 1 /\ <<z>>[1] = z
    OBVIOUS
  <2>2. /\ w \o <<z>> \in Seq(S) /\ Len(w \o <<z>>) = Len(w) + Len(<<z>>)
        /\ \A i \in 1 .. Len(w) + Len(<<z>>) :
             (w \o <<z>>)[i] = IF i <= Len(w) THEN w[i]
                               ELSE <<z>>[i - Len(w)]
    BY <2>1, ConcatProperties
  <2>3. Len(w) + 1 - Len(w) = 1
    BY <1>1
  <2> QED
    BY <1>1, <2>1, <2>2, <2>3
<1> DEFINE a == w \o <<x>>
           b == w \o <<y>>
           e == [a EXCEPT ![Len(w) + 1] = y]
<1>3. /\ a \in Seq(S) /\ Len(a) = Len(w) + 1
      /\ b \in Seq(S) /\ Len(b) = Len(w) + 1
      /\ \A i \in 1 .. Len(w) : a[i] = w[i] /\ b[i] = w[i]
      /\ b[Len(w) + 1] = y
  BY <1>2
<1> HIDE DEF a, b
<1>4. e \in Seq(S) /\ Len(e) = Len(a)
      /\ \A i \in 1 .. Len(a) : e[i] = IF i = Len(w) + 1 THEN y ELSE a[i]
  BY <1>1, <1>3, ExceptSeq
<1> HIDE DEF e
<1>5. e = b
  <2>1. \A i \in 1 .. Len(e) : e[i] = b[i]
    <3> TAKE i \in 1 .. Len(e)
    <3>1. i \in 1 .. Len(w) \/ i = Len(w) + 1
      BY <1>1, <1>3, <1>4
    <3> QED
      BY <1>1, <1>3, <1>4, <3>1
  <2> QED
    BY <1>3, <1>4, <2>1, SeqEqual
<1> QED
  BY <1>2, <1>5 DEF a, b, e, Replaced

(* A window that is complete joins the others.                             *)
LEMMA WindowsGrow ==
  ASSUME NEW r \in Requests, NEW n \in Nat, NEW stk
  PROVE  /\ WindowsDone(r, n + 1) = WindowsDone(r, n) =>
              Windows(r, n, stk) \o <<>> = Windows(r, n + 1, stk) \o <<>>
         /\ WindowsDone(r, n + 1) = WindowsDone(r, n) + 1 =>
              Windows(r, n, stk) \o <<Window(r, WindowsDone(r, n) + 1, stk)>>
                = Windows(r, n + 1, stk) \o <<>>
         /\ \E S : Windows(r, n, stk) \in Seq(S)
         /\ Len(Windows(r, n, stk)) = WindowsDone(r, n)
         /\ Windows(r, n, stk) \o <<>> = Windows(r, n, stk)
<1> DEFINE d == WindowsDone(r, n)
           S == {Window(r, k, stk) : k \in 1 .. d + 1}
           w == Windows(r, n, stk)
           v == Windows(r, n + 1, stk)
           x == Window(r, d + 1, stk)
<1>1. d \in Nat
  BY Counts
<1>2. x \in S
  <2>1. d + 1 \in 1 .. d + 1
    BY <1>1
  <2> QED
    BY <2>1
<1>3. w \in Seq(S) /\ Len(w) = d
  <2>1. w \in [1 .. d -> S]
    <3>1. \A k \in 1 .. d : Window(r, k, stk) \in S
      BY <1>1
    <3> QED
      BY <3>1 DEF Windows
  <2> HIDE DEF S, w
  <2> QED
    BY <1>1, <2>1, FunctionIsSeq
<1>4. w \o <<>> = w
  <2> HIDE DEF w, S
  <2> QED
    BY <1>3, ConcatEmptySeq
<1>5. WindowsDone(r, n + 1) = d => w \o <<>> = v \o <<>>
  BY DEF Windows
<1>6. ASSUME WindowsDone(r, n + 1) = d + 1
      PROVE  w \o <<x>> = v \o <<>>
  <2>1. v \in Seq(S) /\ Len(v) = d + 1
        /\ \A k \in 1 .. d + 1 : v[k] = Window(r, k, stk)
    <3>1. v = [k \in 1 .. d + 1 |-> Window(r, k, stk)]
      BY <1>6 DEF Windows
    <3>2. v \in [1 .. d + 1 -> S]
      BY <3>1
    <3>3. \A k \in 1 .. d + 1 : v[k] = Window(r, k, stk)
      BY <3>1
    <3>4. d + 1 \in Nat
      BY <1>1
    <3> HIDE DEF v, S, d
    <3>5. v \in Seq(S) /\ Len(v) = d + 1
      BY <3>2, <3>4, FunctionIsSeq
    <3> QED
      BY <3>3, <3>5
  <2>2. \A k \in 1 .. d : w[k] = Window(r, k, stk)
    BY DEF Windows
  <2> HIDE DEF v, w, S, x, d
  <2>3. <<x>> \in Seq(S) /\ Len(<<x>>) = 1 /\ <<x>>[1] = x
    BY <1>2
  <2>4. /\ w \o <<x>> \in Seq(S) /\ Len(w \o <<x>>) = Len(w) + Len(<<x>>)
        /\ \A i \in 1 .. Len(w) + Len(<<x>>) :
             (w \o <<x>>)[i] = IF i <= Len(w) THEN w[i] ELSE <<x>>[i - Len(w)]
    BY <1>3, <2>3, ConcatProperties
  <2>5. \A i \in 1 .. Len(v) : (w \o <<x>>)[i] = v[i]
    <3> TAKE i \in 1 .. Len(v)
    <3>1. i \in 1 .. d \/ i = d + 1
      BY <1>1, <2>1
    <3>2. CASE i \in 1 .. d
      BY <1>1, <1>3, <2>1, <2>2, <2>3, <2>4, <3>2
    <3>3. CASE i = d + 1
      <4>1. v[i] = x
        BY <1>1, <2>1, <3>3 DEF x
      <4>2. i - Len(w) = 1 /\ ~(i <= Len(w)) /\ i \in 1 .. Len(w) + Len(<<x>>)
        BY <1>1, <1>3, <2>3, <3>3
      <4> QED
        BY <2>3, <2>4, <4>1, <4>2
    <3> QED
      BY <3>1, <3>2, <3>3
  <2>6. w \o <<x>> = v
    BY <1>1, <1>3, <2>1, <2>3, <2>4, <2>5, SeqEqual
  <2> QED
    BY <2>1, <2>6, ConcatEmptySeq
<1> QED
  BY <1>3, <1>4, <1>5, <1>6

(* The scans that are read, and what each brings in the end.               *)
LEMMA ReadScan ==
  ASSUME NEW r \in Requests, NEW n \in 1 .. Length(r),
         NEW stk \in [Lanes -> Seq(Byte)]
  PROVE  LET o == Program[r][n]
         IN  /\ o.read \in BOOLEAN
             /\ o.read = FALSE => WindowsDone(r, n + 1) = WindowsDone(r, n)
             /\ o.read = TRUE =>
                  /\ IsScan(o) /\ WindowsDone(r, n + 1) = WindowsDone(r, n) + 1
                  /\ SubSeq(OutOf(r, n, stk, 0), 1, Width(r, n))
                       = Window(r, WindowsDone(r, n) + 1, stk)
<1> DEFINE o == Program[r][n]
           Brings == /\ IsScan(o) /\ WindowsDone(r, n + 1) = WindowsDone(r, n) + 1
                     /\ SubSeq(OutOf(r, n, stk, 0), 1, Width(r, n))
                          = Window(r, WindowsDone(r, n) + 1, stk)
<1>1. o.read \in BOOLEAN
  <2>1. o \in Operation
    BY ProgramIs, ElementOfSeq
  <2> QED
    BY <2>1 DEF Operation
<1>2. PauseAt(r, n) => o.read = FALSE /\ WindowsDone(r, n + 1) = WindowsDone(r, n)
  BY DEF PauseAt, Quiet
<1>3. SelectAt(r, n) => o.read = FALSE /\ WindowsDone(r, n + 1) = WindowsDone(r, n)
  BY DEF SelectAt, Quiet
<1>4. ASSUME NEW lane \in Lanes, WriteAt(r, n, lane)
      PROVE  o.read = FALSE /\ WindowsDone(r, n + 1) = WindowsDone(r, n)
  BY <1>4, OperationFields DEF WriteAt
<1>5. ASSUME ProbeAt(r, n)
      PROVE  o.read = TRUE /\ Brings
  <2>1. o.kind = "ir" /\ o.read = TRUE
    BY <1>5, OperationFields DEF ProbeAt
  <2>2. WindowsDone(r, n + 1) = WindowsDone(r, n) + 1
    BY <1>5 DEF ProbeAt
  <2> QED
    BY <1>5, <2>1, <2>2, ProbeArrives DEF IsScan
<1>6. ASSUME IdsAt(r, n)
      PROVE  o.read = TRUE /\ Brings
  <2>1. o.kind = "dr" /\ o.read = TRUE
    BY <1>6, OperationFields DEF IdsAt
  <2>2. WindowsDone(r, n + 1) = WindowsDone(r, n) + 1
    BY <1>6 DEF IdsAt
  <2> QED
    BY <1>6, <2>1, <2>2, IdsArrive DEF IsScan
<1>7. ASSUME ReadAt(r, n)
      PROVE  o.read = TRUE /\ Brings
  <2>1. o.kind = "dr" /\ o.read = TRUE
    BY <1>7, OperationFields DEF ReadAt
  <2>2. WindowsDone(r, n + 1) = WindowsDone(r, n) + 1
    BY <1>7 DEF ReadAt
  <2> QED
    BY <1>7, <2>1, <2>2, AnswerArrives DEF IsScan
<1>8. Known(r, n)
  BY Positions
<1> HIDE DEF Brings, o
<1>9. /\ o.read = FALSE => WindowsDone(r, n + 1) = WindowsDone(r, n)
      /\ o.read = TRUE => Brings
  BY <1>2, <1>3, <1>4, <1>5, <1>6, <1>7, <1>8 DEF Known
<1> QED
  BY <1>1, <1>9 DEF Brings, o

(* A clock adds its bit to the window of its scan.                         *)
LEMMA WindowsStep ==
  ASSUME TypeOK, TapIsThere, RegistersHold, WindowsAreRight, Clock
  PROVE  WindowsAreRight'
<1>1. /\ request # NoRequest /\ op \in DOMAIN Program[request]
      /\ request' = request /\ stock' = stock /\ Record(Here)
      /\ at < Clocks(Here) =>
           /\ op' = op /\ at' = at + 1 /\ Here' = Here /\ InOp'
      /\ ~(at < Clocks(Here)) => op' = op + 1 /\ at' = 1
  BY ClockIs
<1>2. /\ request \in Requests /\ op \in 1 .. Length(request) /\ op \in Nat
      /\ Here = Program[request][op] /\ at \in Nat /\ InOp
      /\ stock \in [Lanes -> Seq(Byte)]
  BY <1>1, Running
<1> DEFINE k == Shifted
           out == OutOf(request, op, stock, 0)
           w == Windows(request, op, stock)
<1>3. tdo = w \o (IF k > 0 /\ Here.read THEN <<SubSeq(out, 1, k)>> ELSE <<>>)
  BY <1>1 DEF WindowsAreRight
<1>4. /\ Here.read \in BOOLEAN
      /\ Here.read = FALSE =>
           WindowsDone(request, op + 1) = WindowsDone(request, op)
      /\ Here.read = TRUE =>
           /\ IsScan(Here)
           /\ WindowsDone(request, op + 1) = WindowsDone(request, op) + 1
           /\ SubSeq(out, 1, Width(request, op))
                = Window(request, WindowsDone(request, op) + 1, stock)
  BY <1>2, ReadScan
<1>5. SUFFICES tdo' = Windows(request, op', stock)
                        \o (IF Shifted' > 0 /\ Here'.read
                            THEN <<SubSeq(OutOf(request, op', stock, 0), 1,
                                          Shifted')>>
                            ELSE <<>>)
  BY <1>1 DEF WindowsAreRight
<1>6. k \in Nat
  BY ShiftedIs
<1>7. CASE ~(Here.read /\ Shifting(Here, at)) /\ at < Clocks(Here)
  <2>1. tdo' = tdo
    BY <1>1, <1>7 DEF Record
  <2>2. op' = op /\ Here' = Here
    BY <1>1, <1>7
  <2>3. CASE Here.read = FALSE
    BY <1>3, <2>1, <2>2, <2>3
  <2>4. CASE Here.read = TRUE
    <3>1. Shifted' = k
      BY <1>7, <2>4, ShiftedIs
    <3> QED
      BY <1>3, <2>1, <2>2, <3>1
  <2> QED
    BY <1>4, <2>3, <2>4
<1>8. CASE ~(at < Clocks(Here))
  <2>1. ~Shifting(Here, at) /\ Shifted' = 0 /\ op' = op + 1
    BY <1>1, <1>8, ShiftedIs
  <2>2. tdo' = tdo
    BY <1>1, <2>1 DEF Record
  <2>3. tdo = Windows(request, op + 1, stock) \o <<>>
    <3>1. CASE Here.read = FALSE
      <4>1. tdo = w \o <<>>
        BY <1>3, <3>1
      <4> QED
        BY <1>2, <1>4, <3>1, <4>1, WindowsGrow
    <3>2. CASE Here.read = TRUE
      <4>1. k = Width(request, op) /\ k > 0
        BY <1>4, <1>8, <3>2, ShiftedIs
      <4>2. tdo = w \o <<Window(request, WindowsDone(request, op) + 1, stock)>>
        BY <1>3, <1>4, <3>2, <4>1
      <4> QED
        BY <1>2, <1>4, <3>2, <4>2, WindowsGrow
    <3> QED
      BY <1>4, <3>1, <3>2
  <2> QED
    BY <2>1, <2>2, <2>3
<1>9. CASE Here.read = TRUE /\ Shifting(Here, at)
  <2>1. /\ at < Clocks(Here) /\ k = at - LeadOf(Here) - 1 /\ Shifted' = k + 1
        /\ k \in 0 .. Width(request, op) - 1
    BY <1>4, <1>9, ShiftedIs, EntersRight, Patterns
  <2>2. op' = op /\ Here' = Here
    BY <1>1, <2>1
  <2>3. LeadOf(Here) \in {3, 4}
    BY <1>4, <1>9, Leads DEF IsScan
  <2>4. Head(dr[0]) = out[k + 1]
        /\ Append(SubSeq(out, 1, k), out[k + 1]) = SubSeq(out, 1, k + 1)
    <3>1. IsScan(Program[request][op]) /\ 0 \in Lanes
      BY <1>2, <1>4, <1>9, Patterns
    <3>2. dr[0] = SubSeq(out, k + 1, k + Len(Captured(request, op, stock, 0)))
      <4>1. at > LeadOf(Here)
        BY <1>2, <1>6, <2>1, <2>3
      <4> QED
        BY <1>2, <1>4, <1>9, <3>1, <4>1 DEF RegistersHold
    <3> HIDE DEF k
    <3>3. /\ Head(SubSeq(out, k + 1, k + Len(Captured(request, op, stock, 0))))
               = out[k + 1]
          /\ Append(SubSeq(out, 1, k), out[k + 1]) = SubSeq(out, 1, k + 1)
      BY <1>2, <2>1, <3>1, StreamStep
    <3> QED
      BY <3>2, <3>3
  <2>5. /\ Len(w) = WindowsDone(request, op) /\ w \o <<>> = w
        /\ \E S : w \in Seq(S)
    BY <1>2, WindowsGrow
  <2>6. PICK T : w \in Seq(T)
    BY <2>5
  <2> DEFINE part == SubSeq(out, 1, k)
             more == SubSeq(out, 1, k + 1)
             S == T \cup {part, more}
  <2>7. w \in Seq(S) /\ part \in S /\ more \in S
    <3> HIDE DEF w, part, more
    <3> QED
      BY <2>6
  <2>8. tdo' = w \o <<more>>
    <3>1. CASE k = 0
      <4>1. tdo = w
        BY <1>3, <2>5, <3>1
      <4>2. at = LeadOf(Here) + 1
        BY <1>2, <2>1, <2>3, <3>1
      <4>3. tdo' = Append(w, <<out[k + 1]>>)
        BY <1>1, <1>9, <2>4, <4>1, <4>2 DEF Record
      <4>4. more = <<out[k + 1]>>
        <5>1. part = <<>>
          BY <3>1
        <5> HIDE DEF k, out
        <5>2. Append(<<>>, out[k + 1]) = <<out[k + 1]>>
          OBVIOUS
        <5> QED
          BY <2>4, <5>1, <5>2
      <4> HIDE DEF w, more, S, k, out
      <4> QED
        BY <2>7, <4>3, <4>4, AppendIsConcat
    <3>2. CASE k > 0
      <4>1. tdo = w \o <<part>>
        BY <1>3, <1>9, <3>2
      <4>2. at # LeadOf(Here) + 1
        BY <1>2, <2>1, <2>3, <3>2
      <4>3. tdo' = [tdo EXCEPT ![Len(tdo)] = Append(@, out[k + 1])]
        BY <1>1, <1>9, <2>4, <4>2 DEF Record
      <4> HIDE DEF w, part, more, S, k, out
      <4>4. /\ Len(w \o <<part>>) = Len(w) + 1
            /\ (w \o <<part>>)[Len(w) + 1] = part
            /\ [w \o <<part>> EXCEPT ![Len(w) + 1] = more] = w \o <<more>>
        <5>1. Replaced(w, part, more)
          BY ONLY <2>7, ReplaceLast
        <5> QED
          BY <5>1 DEF Replaced
      <4>5. Append(tdo[Len(tdo)], out[k + 1]) = more
        BY <2>4, <4>1, <4>4 DEF part, more
      <4>6. tdo' = [tdo EXCEPT ![Len(tdo)] = more]
        BY <4>3, <4>5
      <4> QED
        BY <4>1, <4>4, <4>6
    <3>3. k = 0 \/ k > 0
      BY <1>6
    <3> HIDE DEF w, more, k
    <3> QED
      BY <3>1, <3>2, <3>3
  <2>9. Shifted' > 0 /\ Here'.read = TRUE
    BY <1>6, <1>9, <2>1, <2>2
  <2> QED
    BY <2>1, <2>2, <2>8, <2>9
<1> QED
  BY <1>4, <1>7, <1>8, <1>9

-----------------------------------------------------------------------------
(* A clock keeps the invariant.                                            *)

(* A beginning of a sequence starts it.                                    *)
LEMMA BeginningStarts ==
  ASSUME NEW S, NEW s \in Seq(S), NEW n \in 0 .. Len(s)
  PROVE  StartsWith(s, SubSeq(s, 1, n))
<1>1. n \in Nat /\ n <= Len(s) /\ Len(s) \in Nat
  BY LenProperties
<1>2. Len(SubSeq(s, 1, n)) = n
  <2>1. 1 \in 1 .. Len(s) + 1 /\ n \in 0 .. Len(s)
    BY <1>1
  <2>2. Len(SubSeq(s, 1, n)) = IF 1 <= n THEN n - 1 + 1 ELSE 0
    BY <1>1, <2>1, SubSeqProperties
  <2> QED
    BY <1>1, <2>2
<1> QED
  BY <1>1, <1>2 DEF StartsWith

(* Outside of a write a card receives nothing, but for the word that one   *)
(* clock completes if the chain was left in the middle of a shift.         *)
LEMMA InboxKeeps ==
  ASSUME TypeOK, StageIsRequest, TapIsThere, Clock, ~IsWrite(request),
         NEW l \in Lanes
  PROVE  \/ inbox'[l] = inbox[l]
         \/ /\ FirstClock /\ Pending(l)
            /\ inbox'[l] = Append(inbox[l], Append(word[l], Enters(l, 0)))
<1>1. /\ request # NoRequest /\ op \in DOMAIN Program[request]
      /\ Capture \/ Shift(Tdi(Here, at)) \/ InstructionStep(Tdi(Here, at))
  BY ClockIs
<1>2. /\ request \in Requests /\ op \in 1 .. Length(request) /\ at \in Nat
      /\ Here = Program[request][op] /\ Here \in Operation
  BY <1>1, Running
<1>3. CASE tap # "ShDR"
  <2>1. inbox' = inbox
    BY <1>1, <1>3 DEF Capture, Shift, InstructionStep, cardVars
  <2> QED
    BY <2>1
<1>4. CASE tap = "ShDR"
  <2>1. Shift(Tdi(Here, at))
    BY <1>1, <1>4 DEF Capture, InstructionStep
  <2>2. inbox'[l] = IF WordComplete(l)
                    THEN Append(inbox[l], WordAfter(l, Tdi(Here, at)))
                    ELSE inbox[l]
    BY <2>1 DEF Shift
  <2>3. CASE FirstClock
    <3>1. OpOf(request, op) = ResetToIdle
      BY <2>3, <1>2 DEF OpOf, FirstClock
    <3>2. Here.kind = "reset"
      BY <1>2, <3>1, ProgramIs, OperationFields
    <3>3. ~Shifting(Here, at)
      BY <3>2 DEF Shifting, IsScan
    <3>4. Tdi(Here, at) = 0
      BY <3>3 DEF Tdi
    <3> QED
      BY <1>4, <2>2, <2>3, <3>4 DEF WordComplete, WordAfter, Pending
  <2>4. CASE ~FirstClock
    <3>1. Here.kind = "dr" /\ instr = Selected(request, op)
      BY <1>4, <2>4, TapTells
    <3>2. IdsAt(request, op) \/ ReadAt(request, op)
      <4>1. \A lane \in Lanes : ~WriteAt(request, op, lane)
        BY DEF WriteAt
      <4> QED
        BY <1>2, <3>1, <4>1, KindIs
    <3>3. CASE IdsAt(request, op)
      <4>1. Selected(request, op) = All("IDCODE")
        <5>1. request.kind = "idcodes"
          BY <3>3 DEF IdsAt
        <5> QED
          BY <5>1 DEF Selected
      <4>2. instr[l] = "IDCODE"
        BY <3>1, <4>1 DEF All
      <4> QED
        BY <2>2, <4>2 DEF WordComplete
    <3>4. CASE ReadAt(request, op)
      <4>1. Selected(request, op) = Only(request.lane, "USER1")
        BY <3>4 DEF ReadAt
      <4>2. instr[l] \in {"USER1", "BYPASS"}
        BY <3>1, <4>1 DEF Only
      <4> QED
        BY <2>2, <4>2 DEF WordComplete
    <3> QED
      BY <3>2, <3>3, <3>4
  <2> QED
    BY <2>3, <2>4
<1> QED
  BY <1>3, <1>4

(* Nothing wrong arrives with a clock.                                     *)
LEMMA NoneWrongStep ==
  ASSUME ChainInv, Clock
  PROVE  NoneWrong'
<1>1. /\ request # NoRequest /\ op \in DOMAIN Program[request]
      /\ request' = request /\ write' = write /\ misread' = misread
  BY ClockIs DEF ChainInv
<1>2. request \in Requests
  BY <1>1, Running DEF ChainInv
<1>3. SUFFICES ASSUME ~misread, NEW l \in Lanes
               PROVE  StartsWith(WordsFor(write, l), inbox'[l])
  BY <1>1 DEF NoneWrong, WordsFor
<1>4. CASE IsWrite(request)
  <2>1. WordsAreRight' /\ TypeOK'
    BY WordsStep, ClockTypes DEF ChainInv
  <2>2. IsWrite(request)'
    BY <1>1, <1>4 DEF IsWrite
  <2>3. /\ write' = request'
        /\ inbox'[l] = SubSeq(WordsFor(request', l), 1,
                              WordsDone(request', Count', l))
    BY <2>1, <2>2 DEF WordsAreRight, WordsFor, WordsDone
  <2>4. Count' \in Nat
    <3>1. op' \in Nat
      BY <2>1 DEF TypeOK
    <3>2. Count' = op' \/ Count' = op' + 1
      BY DEF Count
    <3>3. \A n \in Nat : n + 1 \in Nat
      OBVIOUS
    <3> QED
      BY <3>1, <3>2, <3>3
  <2>5. /\ write = request
        /\ inbox'[l] = SubSeq(WordsFor(request, l), 1,
                              WordsDone(request, Count', l))
    BY <1>1, <2>3
  <2>6. /\ WordsFor(request, l) \in Seq(Seq(Bit))
        /\ WordsDone(request, Count', l) \in 0 .. Len(WordsFor(request, l))
    BY <1>2, <1>4, <2>4, WordsForIs
  <2> QED
    BY <2>5, <2>6, BeginningStarts
<1>5. CASE ~IsWrite(request)
  <2>1. CASE inbox'[l] = inbox[l]
    BY <1>3, <2>1 DEF ChainInv, NoneWrong
  <2>2. CASE /\ FirstClock /\ Pending(l)
             /\ inbox'[l] = Append(inbox[l], Append(word[l], Enters(l, 0)))
    <3>1. FromAnywhere
      BY <1>1, <2>2 DEF ChainInv, StageIsRequest, FirstClock, FromAnywhere
    <3> QED
      BY <1>3, <2>2, <3>1 DEF ChainInv, NextIsRight
  <2> QED
    BY <1>5, <2>1, <2>2, InboxKeeps DEF ChainInv
<1> QED
  BY <1>4, <1>5

(* After a clock the chain is where a program has brought it.              *)
LEMMA ClockKeeps ==
  ASSUME ChainInv, Clock
  PROVE  ChainInv'
<1>1. /\ request # NoRequest /\ op \in DOMAIN Program[request]
      /\ request' = request /\ stage' = stage
      /\ at < Clocks(Here) => op' = op /\ at' = at + 1
      /\ ~(at < Clocks(Here)) => op' = op + 1 /\ at' = 1
  BY ClockIs DEF ChainInv
<1>2. TypeOK' /\ TapIsThere' /\ RegistersHold'
  BY ClockTypes, TapStep, RegistersStep DEF ChainInv
<1>3. WordsAreRight' /\ StockIsRight' /\ WindowsAreRight'
  BY WordsStep, StockStep, WindowsStep DEF ChainInv
<1>4. StageIsRequest'
  BY <1>1 DEF ChainInv, StageIsRequest
<1>5. NoneWrong'
  BY NoneWrongStep
<1>6. ~FromAnywhere'
  <2>1. op \in Nat /\ op > 0 /\ InOp
    BY <1>1, Running DEF ChainInv
  <2>2. at \in Nat /\ at >= 1
    BY <2>1, Running, <1>1 DEF ChainInv, TapIsThere, TypeOK
  <2>3. ~(op' = 1 /\ at' = 1)
    BY <1>1, <2>1, <2>2
  <2> QED
    BY <1>1, <2>3 DEF FromAnywhere
<1> QED
  BY <1>2, <1>3, <1>4, <1>5, <1>6 DEF ChainInv

-----------------------------------------------------------------------------
(* A request begins.                                                       *)

(* Every program begins with a reset.                                      *)
LEMMA FirstOperation ==
  ASSUME NEW r \in Requests
  PROVE  /\ 1 \in 1 .. Length(r) /\ Len(Program[r]) = Length(r)
         /\ Length(r) \in Nat \ {0}
         /\ Program[r][1].kind \in {"reset", "tlr"} /\ ~IsScan(Program[r][1])
         /\ Clocks(Program[r][1]) \in {6, 7}
<1>1. /\ Len(Program[r]) = Length(r) /\ Length(r) \in Nat \ {0}
      /\ \A n \in 1 .. Length(r) : Program[r][n] = OpOf(r, n)
  BY ProgramIs
<1>2. 1 \in 1 .. Length(r)
  BY <1>1
<1>3. Program[r][1] = OpOf(r, 1)
  BY <1>1, <1>2
<1>4. OpOf(r, 1) \in {ResetToIdle, TapReset}
  <2>1. HalfPair \in Nat /\ 1 <= HalfPair
    BY Patterns DEF HalfPair
  <2>2. r.kind \in {"idcodes", "irdelay", "pair", "reset", "read", "ack"}
    BY RequestIs
  <2> QED
    BY <2>1, <2>2 DEF OpOf, WriteOp, LaneReadOp, AckOp
<1>5. Program[r][1].kind \in {"reset", "tlr"}
  BY <1>3, <1>4, OperationFields
<1> QED
  BY <1>1, <1>2, <1>5, Leads

(* Before the first clock nothing is shifted, received or read.            *)
LEMMA NothingYet ==
  ASSUME NEW r \in Requests, NEW stk
  PROVE  /\ Windows(r, 1, stk) \o <<>> = <<>>
         /\ \A l \in Lanes : BytesDone(r, 1, l) = 0
         /\ IsWrite(r) => \A l \in Lanes :
              <<>> = SubSeq(WordsFor(r, l), 1, WordsDone(r, 1, l))
<1>1. Windows(r, 1, stk) \o <<>> = <<>>
  <2>1. /\ Windows(r, 1, stk) \o <<>> = Windows(r, 1, stk)
        /\ Len(Windows(r, 1, stk)) = WindowsDone(r, 1)
        /\ \E S : Windows(r, 1, stk) \in Seq(S)
    BY WindowsGrow
  <2>2. WindowsDone(r, 1) = 0
    BY Counts
  <2>3. PICK S : Windows(r, 1, stk) \in Seq(S)
    BY <2>1
  <2>4. Windows(r, 1, stk) = <<>>
    BY <2>1, <2>2, <2>3, EmptySeq
  <2> QED
    BY <2>1, <2>4
<1>2. \A l \in Lanes : BytesDone(r, 1, l) = 0
  BY Counts DEF BytesDone
<1>3. ASSUME IsWrite(r), NEW l \in Lanes
      PROVE  <<>> = SubSeq(WordsFor(r, l), 1, WordsDone(r, 1, l))
  <2>1. WordsDone(r, 1, l) = 0
    BY <1>3, WordsForIs
  <2>2. \A s : SubSeq(s, 1, 0) = <<>>
    OBVIOUS
  <2> QED
    BY <2>1, <2>2
<1> QED
  BY <1>1, <1>2, <1>3

(* A request that begins where the chain rests, or at any place with the   *)
(* check of the IDs, finds the chain as its program expects it.            *)
LEMMA BeginKeeps ==
  ASSUME TypeOK, NoneWrong, NEW r \in Requests, Begin(r),
         client' \in {"miner", "calibration"},
         stage' = IF r.kind \in {"idcodes", "irdelay"} THEN r.kind ELSE "open",
         r.kind = "idcodes" \/ tap = "RTI",
         r.kind = "idcodes" => NextIsRight
  PROVE  ChainInv'
<1>1. /\ request' = r /\ op' = 1 /\ at' = 1 /\ tdo' = <<>>
      /\ stock' = outbox /\ r # NoRequest
      /\ tap' = tap /\ instr' = instr /\ dr' = dr
      /\ word' = word /\ due' = due /\ outbox' = outbox
  BY RequestIs DEF Begin, tapVars
<1>2. /\ Len(Program[r]) = Length(r) /\ Length(r) \in Nat \ {0}
      /\ Program[r][1].kind \in {"reset", "tlr"} /\ ~IsScan(Program[r][1])
      /\ Clocks(Program[r][1]) \in {6, 7}
  BY FirstOperation
<1>3. InOp' /\ Here' = Program[r][1] /\ Ends' = Length(r)
  BY <1>1, <1>2 DEF InOp, Here, Ends
<1>4. Shifted' = 0 /\ Count' = 1
  <2>1. Shifted' = 0
    BY <1>2, <1>3 DEF Shifted
  <2> QED
    BY <1>1, <2>1 DEF Count
<1>5. CardTypes'
  <2>1. inbox' \in [Lanes -> Seq(Seq(Bit))]
    <3>1. inbox' = inbox \/ inbox' = [l \in Lanes |-> <<>>]
      BY DEF Begin
    <3>2. inbox \in [Lanes -> Seq(Seq(Bit))]
      BY DEF TypeOK, CardTypes
    <3>3. [l \in Lanes |-> <<>>] \in [Lanes -> Seq(Seq(Bit))]
      OBVIOUS
    <3> QED
      BY <3>1, <3>2, <3>3
  <2> QED
    BY <1>1, <2>1 DEF TypeOK, CardTypes
<1>6. TypeOK'
  <2>1. tap' \in DOMAIN TapNext /\ stock' \in [Lanes -> Seq(Byte)]
    BY <1>1 DEF TypeOK, CardTypes
  <2>2. requests' \in 0 .. MaxRequests
    <3>1. requests \in 0 .. MaxRequests /\ MaxRequests \in Nat
      BY WidthAssumption DEF TypeOK
    <3>2. requests < MaxRequests /\ requests' = requests + 1
      BY DEF Begin
    <3> QED
      BY <3>1, <3>2
  <2>3. /\ write' \in {s \in Requests : IsWrite(s)} \cup {NoRequest}
        /\ misread' \in BOOLEAN
    BY DEF Begin, TypeOK
  <2>4. request' \in Requests \cup {NoRequest} /\ op' \in Nat /\ at' \in Nat
    BY <1>1
  <2> QED
    BY <1>5, <2>1, <2>2, <2>3, <2>4 DEF TypeOK
<1>7. StageIsRequest'
  <2>1. r.kind \in {"idcodes", "irdelay", "pair", "reset", "read", "ack"}
    BY RequestIs
  <2> QED
    BY <1>1, <2>1 DEF StageIsRequest
<1>8. TapIsThere'
  <2>1. InReset'
    <3>1. tap' \in AfterOnes[at']
      BY <1>1, SixOnes DEF TypeOK
    <3>2. at' = 1 => tap' = "RTI" \/ (request'.kind = "idcodes" /\ op' = 1)
      BY <1>1
    <3>3. at' # 7
      BY <1>1
    <3> QED
      BY <3>1, <3>2, <3>3 DEF InReset
  <2>2. op' > 0 /\ at' \in 1 .. Clocks(Here')
    BY <1>1, <1>2, <1>3
  <2> QED
    BY <1>2, <1>3, <2>1, <2>2 DEF TapIsThere
<1>9. RegistersHold'
  BY <1>2, <1>3 DEF RegistersHold
<1>10. WordsAreRight'
  <2>1. SUFFICES ASSUME IsWrite(r)
                 PROVE  /\ write' = r /\ ~misread'
                        /\ \A l \in Lanes :
                             inbox'[l] = SubSeq(WordsFor(r, l), 1,
                                                WordsDone(r, 1, l))
    BY <1>1, <1>2, <1>3, <1>4 DEF WordsAreRight, WordsFor, WordsDone, IsWrite,
      IsScan
  <2>2. write' = r /\ ~misread' /\ inbox' = [l \in Lanes |-> <<>>]
    BY <2>1 DEF Begin
  <2> QED
    BY <2>1, <2>2, NothingYet
<1>11. StockIsRight'
  <2>1. ~(Shifted' >= ByteBits)
    BY <1>4, Patterns
  <2>2. \A l \in Lanes : outbox'[l] = Rest(stock'[l], BytesDone(r, 1, l))
    <3> TAKE l \in Lanes
    <3>1. BytesDone(r, 1, l) = 0 /\ outbox[l] \in Seq(Byte)
      BY NothingYet DEF TypeOK, CardTypes
    <3>2. Rest(outbox[l], 0) = outbox[l]
      BY <3>1, RestIs
    <3> QED
      BY <1>1, <3>1, <3>2
  <2> QED
    BY <1>1, <1>2, <1>3, <2>1, <2>2 DEF StockIsRight, IsScan
<1>12. WindowsAreRight'
  <2>1. Windows(r, 1, stock') \o <<>> = <<>>
    BY NothingYet
  <2> QED
    BY <1>1, <1>4, <2>1 DEF WindowsAreRight
<1>13. NoneWrong'
  <2>1. CASE IsWrite(r)
    <3>1. write' = r /\ inbox' = [l \in Lanes |-> <<>>]
      BY <2>1 DEF Begin
    <3>2. \A l \in Lanes : StartsWith(WordsFor(r, l), <<>>)
      <4> TAKE l \in Lanes
      <4>1. /\ WordsFor(r, l) \in Seq(Seq(Bit)) /\ WordsDone(r, 1, l) = 0
            /\ Len(WordsFor(r, l)) \in Nat
        BY <2>1, WordsForIs
      <4>2. 0 \in 0 .. Len(WordsFor(r, l))
        BY <4>1
      <4>3. StartsWith(WordsFor(r, l), SubSeq(WordsFor(r, l), 1, 0))
        BY <4>1, <4>2, BeginningStarts
      <4>4. \A s : SubSeq(s, 1, 0) = <<>>
        OBVIOUS
      <4> QED
        BY <4>3, <4>4
    <3> QED
      BY <3>1, <3>2 DEF NoneWrong, WordsFor
  <2>2. CASE ~IsWrite(r)
    <3>1. write' = write /\ inbox' = inbox /\ misread' = misread
      BY <2>2 DEF Begin
    <3> QED
      BY <3>1 DEF NoneWrong, WordsFor
  <2> QED
    BY <2>1, <2>2
<1>14. FromAnywhere' => NextIsRight'
  <2>1. SUFFICES ASSUME r.kind = "idcodes"
                 PROVE  NextIsRight'
    BY <1>1, RequestIs DEF FromAnywhere
  <2>2. write' = write /\ inbox' = inbox /\ misread' = misread
    BY <2>1 DEF Begin, IsWrite
  <2>3. NextIsRight
    BY <2>1
  <2> QED
    BY <1>1, <2>2, <2>3 DEF NextIsRight, Pending, Enters, WordsFor
<1> QED
  BY <1>6, <1>7, <1>8, <1>9, <1>10, <1>11, <1>12, <1>13, <1>14 DEF ChainInv

-----------------------------------------------------------------------------
(* The steps of the host.                                                  *)

(* A request that is answered has brought the chain to rest, as every      *)
(* request but the last reset leaves it.                                   *)
LEMMA AtRest ==
  ASSUME ChainInv, Answered
  PROVE  /\ request \in Requests /\ ~InOp /\ Ends = Length(request)
         /\ op = Length(request) + 1 /\ Length(request) \in Nat
         /\ tap = IF request.kind = "reset" THEN "TLR" ELSE "RTI"
         /\ Shifted = 0 /\ Count = op
         /\ request.kind = "irdelay" => instr = All("BYPASS")
<1>1. request \in Requests /\ request # NoRequest
  BY DEF ChainInv, TypeOK, Answered
<1>2. Len(Program[request]) = Length(request) /\ Length(request) \in Nat
  BY <1>1, ProgramIs
<1>3. op = Length(request) + 1 /\ Ends = Length(request)
  BY <1>2 DEF Answered, Ends
<1>4. ~InOp
  BY <1>2, <1>3 DEF InOp
<1>5. Shifted = 0 /\ Count = op
  BY <1>4 DEF Shifted, Count
<1> QED
  BY <1>1, <1>2, <1>3, <1>4, <1>5 DEF ChainInv, TapIsThere

(* Connect begins at any place, with no request before it.                 *)
LEMMA ConnectKeeps ==
  ASSUME ChainInv, Connect
  PROVE  ChainInv'
<1> DEFINE r == Req("idcodes", 0)
<1>1. r \in Requests /\ r.kind = "idcodes"
  BY DEF Requests, Req
<1>2. stage' = IF r.kind \in {"idcodes", "irdelay"} THEN r.kind ELSE "open"
  BY <1>1 DEF Connect
<1>3. NextIsRight
  BY DEF ChainInv, StageIsRequest, Connect, FromAnywhere
<1>4. Begin(r) /\ client' \in {"miner", "calibration"}
  BY DEF Connect
<1>5. TypeOK /\ NoneWrong
  BY DEF ChainInv
<1> HIDE DEF r
<1> QED
  BY <1>1, <1>2, <1>3, <1>4, <1>5, BeginKeeps

(* The measurement begins where the check of the IDs ended.                *)
LEMMA CheckIdcodesKeeps ==
  ASSUME ChainInv, CheckIdcodes
  PROVE  ChainInv'
<1> DEFINE r == Req("irdelay", 0)
<1>1. r \in Requests /\ r.kind = "irdelay"
  BY DEF Requests, Req
<1>2. stage' = IF r.kind \in {"idcodes", "irdelay"} THEN r.kind ELSE "open"
  BY <1>1 DEF CheckIdcodes
<1>3. tap = "RTI"
  <2>1. request.kind # "reset"
    BY DEF CheckIdcodes, Answered, ChainInv, StageIsRequest
  <2> QED
    BY <2>1, AtRest DEF CheckIdcodes
<1>4. Begin(r) /\ client' \in {"miner", "calibration"}
  BY DEF CheckIdcodes, ChainInv, TypeOK
<1>5. TypeOK /\ NoneWrong
  BY DEF ChainInv
<1>6. r.kind # "idcodes"
  BY <1>1
<1> HIDE DEF r
<1> QED
  BY <1>1, <1>2, <1>3, <1>4, <1>5, <1>6, BeginKeeps

(* So does every request of an open chain.                                 *)
LEMMA RequestKeeps ==
  ASSUME ChainInv, Answered, request.kind # "reset",
         NEW r \in Requests, Follows(r), Begin(r),
         stage' = "open", client' = client
  PROVE  ChainInv'
<1>1. r.kind \in {"pair", "read", "ack", "reset"}
  BY DEF Follows, Req
<1>2. stage' = IF r.kind \in {"idcodes", "irdelay"} THEN r.kind ELSE "open"
  BY <1>1
<1>3. tap = "RTI"
  BY AtRest
<1>4. /\ client' \in {"miner", "calibration"} /\ TypeOK /\ NoneWrong
      /\ r.kind # "idcodes"
  BY <1>1 DEF ChainInv, TypeOK
<1> QED
  BY <1>2, <1>3, <1>4, BeginKeeps

(* Without a request little is left to show.                               *)
LEMMA NoRequestKeeps ==
  ASSUME ChainInv, stage' = "closed", NoMore,
         UNCHANGED <<tapVars, cardVars, client, write, stock, requests>>,
         misread' \in BOOLEAN, misread => misread',
         NextIsRight'
  PROVE  ChainInv'
<1>1. request' = NoRequest /\ op' = 0 /\ at' = 0 /\ tdo' = <<>>
  BY DEF NoMore
<1>2. TypeOK'
  BY <1>1 DEF ChainInv, TypeOK, CardTypes, tapVars, cardVars
<1>3. ~InOp' /\ Shifted' = 0
  BY <1>1 DEF InOp, Shifted
<1>4. ~IsWrite(request')
  BY <1>1 DEF IsWrite, NoRequest, Req
<1>5. /\ StageIsRequest' /\ TapIsThere' /\ RegistersHold'
      /\ WordsAreRight' /\ StockIsRight' /\ WindowsAreRight'
  BY <1>1, <1>3, <1>4 DEF StageIsRequest, TapIsThere, RegistersHold,
    WordsAreRight, StockIsRight, WindowsAreRight, IsWrite
<1>6. NoneWrong'
  <2>1. write' = write /\ inbox' = inbox
    BY DEF cardVars
  <2>2. ~misread' => ~misread
    OBVIOUS
  <2> QED
    BY <2>1, <2>2 DEF ChainInv, NoneWrong, WordsFor
<1> QED
  BY <1>2, <1>5, <1>6 DEF ChainInv

(* A program that has left the place where it was begun shifts into a      *)
(* card that takes words only during a write.                              *)
LEMMA PendingIsWrite ==
  ASSUME ChainInv, ~FromAnywhere, NEW l \in Lanes, Pending(l)
  PROVE  /\ op \in DOMAIN Program[request] /\ Here.kind = "dr"
         /\ Shifting(Here, at) /\ IsWrite(request)
<1>1. request # NoRequest /\ request \in Requests /\ tap = "ShDR"
  BY DEF FromAnywhere, ChainInv, TypeOK, Pending
<1>2. InOp /\ op > 0 /\ op \in Nat
  BY <1>1 DEF ChainInv, TapIsThere, TypeOK
<1>3. Ends = Length(request) /\ Length(request) \in Nat
      /\ DOMAIN Program[request] = 1 .. Length(request)
  <2>1. /\ Program[request] \in Seq(Operation)
        /\ Len(Program[request]) = Length(request) /\ Length(request) \in Nat
    BY <1>1, ProgramIs
  <2> QED
    BY <2>1, LenProperties DEF Ends
<1>4. op \in DOMAIN Program[request] /\ op \in 1 .. Length(request)
  BY <1>2, <1>3 DEF InOp
<1>5. Here.kind = "dr" /\ Shifting(Here, at)
      /\ instr = Selected(request, op)
  <2>1. ~FirstClock
    <3>1. request.kind = "idcodes" => stage = "idcodes"
      BY <1>1 DEF ChainInv, StageIsRequest
    <3> QED
      BY <3>1 DEF FirstClock, FromAnywhere
  <2> QED
    BY <1>1, <1>4, <2>1, TapTellsHere DEF ChainInv
<1>6. instr[l] = "USER2"
  BY DEF Pending
<1>7. IsWrite(request)
  <2>1. SUFFICES ASSUME ~IsWrite(request)
                 PROVE  FALSE
    OBVIOUS
  <2>2. IdsAt(request, op) \/ ReadAt(request, op)
    <3>1. \A lane \in Lanes : ~WriteAt(request, op, lane)
      BY <2>1 DEF WriteAt
    <3>2. Here = Program[request][op]
      BY DEF Here
    <3> QED
      BY <1>1, <1>4, <1>5, <3>1, <3>2, KindIs
  <2>3. CASE IdsAt(request, op)
    <3>1. request.kind = "idcodes"
      BY <2>3 DEF IdsAt
    <3> QED
      BY <1>5, <1>6, <3>1 DEF Selected, All
  <2>4. CASE ReadAt(request, op)
    <3>1. Selected(request, op) = Only(request.lane, "USER1")
      BY <2>4 DEF ReadAt
    <3> QED
      BY <1>5, <1>6, <3>1 DEF Only
  <2> QED
    BY <2>2, <2>3, <2>4
<1> QED
  BY <1>4, <1>5, <1>7

(* A write of the miner that stops before the last bit of a word leaves it *)
(* to the next reset to shift this bit, a zero: what the host would have   *)
(* sent, or what comes from the other card.                                *)
LEMMA LastBitIsRight ==
  ASSUME ChainInv, request.kind # "ack", ~FromAnywhere
  PROVE  NextIsRight
<1>1. SUFFICES ASSUME NEW l \in Lanes, Pending(l)
               PROVE  StartsWith(WordsFor(write, l),
                        Append(inbox[l], Append(word[l], Enters(l, 0))))
  BY DEF NextIsRight
<1>2. /\ op \in DOMAIN Program[request] /\ Here.kind = "dr"
      /\ Shifting(Here, at) /\ IsWrite(request)
  BY <1>1, PendingIsWrite
<1>3. request # NoRequest /\ instr[l] = "USER2" /\ Len(word[l]) = ByteBits
  BY <1>1 DEF FromAnywhere, Pending
<1>4. request.kind = "pair" /\ write = request
  BY <1>2 DEF IsWrite, ChainInv, WordsAreRight
<1> DEFINE k == Shifted
           into == IntoLane(request, op, stock, l)
           d == WordsDone(request, op, l)
           words == WordsFor(request, l)
<1>5. /\ WriteAt(request, op, l) /\ k \in 0 .. ByteBits /\ Len(word[l]) = k
      /\ Enters(l, Here.bits[k + 1]) = into[k + 1]
      /\ Append(word[l], into[k + 1]) = SubSeq(into, 1, k + 1)
      /\ d + 1 \in 0 .. Len(words) /\ words \in Seq(Seq(Bit))
      /\ k = ByteBits =>
           Append(inbox[l], SubSeq(into, 1, k + 1)) = SubSeq(words, 1, d + 1)
  BY <1>2, <1>3, WordHere DEF ChainInv
<1>6. Enters(l, 0) = into[k + 1]
  <2>1. CASE l = 0
    BY <1>5, <2>1 DEF Enters, LaneCount
  <2>2. CASE l = 1
    <3>1. Enters(l, 0) = 0 /\ Enters(l, Here.bits[k + 1]) = Here.bits[k + 1]
      BY <2>2 DEF Enters, LaneCount
    <3>2. d \in 0 .. FrameLen(l) - 1
          /\ Here = WriteScan(Tailpad(Frames[l][d + 1]))
      BY <1>4, <1>5 DEF WriteAt, Here
    <3>3. Frames[l][d + 1] \in Byte
      <4>1. FrameLen(l) \in Nat
        BY Patterns
      <4>2. d + 1 \in 1 .. FrameLen(l)
        BY <3>2, <4>1
      <4> QED
        BY <4>2, FrameByte
    <3>4. Here.bits[ByteBits + 1] = 0
      BY <3>2, <3>3, OperationFields, PaddedByte
    <3> QED
      BY <1>3, <1>5, <3>1, <3>4
  <2> QED
    BY <2>1, <2>2, Patterns
<1>7. Append(inbox[l], Append(word[l], Enters(l, 0))) = SubSeq(words, 1, d + 1)
  BY <1>3, <1>5, <1>6
<1> HIDE DEF words, d, k
<1>8. StartsWith(words, SubSeq(words, 1, d + 1))
  BY <1>5, BeginningStarts
<1> QED
  BY <1>4, <1>7, <1>8 DEF words

(* A request that fails leaves the chain where it is.                      *)
LEMMA CutKeeps ==
  ASSUME ChainInv, Cut
  PROVE  ChainInv'
<1>1. /\ stage' = "closed" /\ NoMore
      /\ misread' = (misread \/ request.kind = "ack")
      /\ UNCHANGED <<tapVars, cardVars, client, write, stock, requests>>
  BY DEF Cut
<1>2. misread \in BOOLEAN /\ misread' \in BOOLEAN /\ (misread => misread')
  BY <1>1 DEF ChainInv, TypeOK
<1>3. NextIsRight'
  <2>1. CASE misread'
    BY <2>1 DEF NextIsRight
  <2>2. CASE ~misread'
    <3>1. ~misread /\ request.kind # "ack"
      BY <1>1, <2>2
    <3>2. NextIsRight
      BY <3>1, LastBitIsRight DEF ChainInv
    <3> QED
      BY <1>1, <3>1, <3>2
         DEF NextIsRight, Pending, Enters, WordsFor, tapVars, cardVars
  <2> QED
    BY <2>1, <2>2
<1> QED
  BY <1>1, <1>2, <1>3, NoRequestKeeps

(* The last reset ends the calibration.                                    *)
LEMMA FinishKeeps ==
  ASSUME ChainInv, Finish
  PROVE  ChainInv'
<1>1. /\ stage' = "closed" /\ NoMore /\ misread' = misread
      /\ UNCHANGED <<tapVars, cardVars, client, write, stock, requests>>
  BY DEF Finish, history
<1>2. misread' \in BOOLEAN
  BY <1>1 DEF ChainInv, TypeOK
<1>3. tap' = "TLR"
  <2>1. tap = "TLR"
    BY AtRest DEF Finish
  <2> QED
    BY <1>1, <2>1 DEF tapVars
<1>4. NextIsRight'
  BY <1>3 DEF NextIsRight, Pending
<1> QED
  BY <1>1, <1>2, <1>4, NoRequestKeeps

-----------------------------------------------------------------------------
(* The invariant holds in every state.                                     *)

(* It holds wherever the TAPs are at the beginning.                        *)
LEMMA InitKeeps ==
  ASSUME Init
  PROVE  ChainInv
<1>1. /\ request = NoRequest /\ op = 0 /\ at = 0 /\ tdo = <<>>
      /\ stage = "closed" /\ write = NoRequest /\ misread = FALSE
      /\ NoRequest.kind = "none"
  BY DEF Init, NoRequest, Req
<1>2. /\ \A l \in Lanes : /\ word[l] = <<>> /\ inbox[l] = <<>> /\ due[l] = 0
                          /\ dr[l] = <<0>>
      /\ outbox \in [Lanes -> Seq(Byte)] /\ stock \in [Lanes -> Seq(Byte)]
  BY FramesAssumption DEF Init
<1>3. ByteBits \in Nat \ {0}
  BY Patterns
<1>4. CardTypes
  <2>1. dr \in [Lanes -> Seq(Bit)] /\ \A l \in Lanes : dr[l] # <<>>
    BY <1>2 DEF Init, Bit
  <2>2. /\ word \in [Lanes -> Seq(Bit)] /\ inbox \in [Lanes -> Seq(Seq(Bit))]
        /\ \A l \in Lanes : Len(word[l]) <= ByteBits
    BY <1>2, <1>3 DEF Init
  <2>3. due \in [Lanes -> 0 .. ByteBits] /\ \A l \in Lanes : ~(due[l] > 0)
    BY <1>2, <1>3 DEF Init
  <2>4. instr \in [Lanes -> {"IDCODE", "BYPASS", "USER1", "USER2", "OTHER"}]
    BY DEF Init
  <2> QED
    BY <1>2, <2>1, <2>2, <2>3, <2>4 DEF CardTypes
<1>5. TypeOK
  <2>1. requests \in 0 .. MaxRequests
    BY WidthAssumption DEF Init
  <2>2. /\ request \in Requests \cup {NoRequest}
        /\ write \in {r \in Requests : IsWrite(r)} \cup {NoRequest}
        /\ op \in Nat /\ at \in Nat
    BY <1>1
  <2>3. tap \in DOMAIN TapNext /\ client \in {"miner", "calibration"}
    BY DEF Init
  <2>4. misread \in BOOLEAN
    BY <1>1
  <2> QED
    BY <1>2, <1>4, <2>1, <2>2, <2>3, <2>4 DEF TypeOK
<1>6. ~InOp /\ ~IsWrite(request)
  BY <1>1 DEF InOp, IsWrite
<1>7. /\ StageIsRequest /\ TapIsThere /\ RegistersHold
      /\ WordsAreRight /\ StockIsRight /\ WindowsAreRight
  BY <1>1, <1>6 DEF StageIsRequest, TapIsThere, RegistersHold,
    WordsAreRight, StockIsRight, WindowsAreRight
<1>8. NoneWrong
  <2>1. SUFFICES ASSUME NEW l \in Lanes
                 PROVE  StartsWith(WordsFor(write, l), inbox[l])
    BY DEF NoneWrong
  <2>2. WordsFor(write, l) = <<>>
    BY <1>1 DEF WordsFor, Req
  <2>3. StartsWith(<<>>, <<>>)
    BY DEF StartsWith
  <2> QED
    BY <1>2, <2>2, <2>3
<1>9. NextIsRight
  <2>1. \A l \in Lanes : ~Pending(l)
    BY <1>2, <1>3 DEF Pending
  <2> QED
    BY <2>1 DEF NextIsRight
<1> QED
  BY <1>5, <1>7, <1>8, <1>9 DEF ChainInv

(* A step that changes nothing keeps it.                                   *)
LEMMA StutterKeeps ==
  ASSUME ChainInv, UNCHANGED vars
  PROVE  ChainInv'
<1>1. /\ tap' = tap /\ instr' = instr /\ dr' = dr /\ word' = word
      /\ inbox' = inbox /\ due' = due /\ outbox' = outbox
      /\ client' = client /\ stage' = stage /\ request' = request
      /\ op' = op /\ at' = at /\ tdo' = tdo /\ write' = write
      /\ stock' = stock /\ misread' = misread /\ requests' = requests
  BY DEF vars, tapVars, cardVars, history
<1>2. TypeOK' /\ StageIsRequest'
  BY <1>1 DEF ChainInv, TypeOK, CardTypes, StageIsRequest
<1>3. Here' = Here /\ Ends' = Ends /\ (InOp' <=> InOp)
  BY <1>1 DEF Here, Ends, InOp
<1>4. Shifted' = Shifted /\ Count' = Count
  BY <1>1, <1>3 DEF Shifted, Count
<1>5. TapIsThere'
  BY <1>1, <1>3 DEF ChainInv, TapIsThere, InReset
<1>6. RegistersHold'
  BY <1>1, <1>3, <1>4 DEF ChainInv, RegistersHold
<1>7. WordsAreRight'
  BY <1>1, <1>3, <1>4
     DEF ChainInv, WordsAreRight, IsWrite, WordsFor, WordsDone
<1>8. StockIsRight'
  BY <1>1, <1>3, <1>4 DEF ChainInv, StockIsRight, HasByte
<1>9. WindowsAreRight'
  BY <1>1, <1>3, <1>4 DEF ChainInv, WindowsAreRight
<1>10. NoneWrong' /\ (FromAnywhere' => NextIsRight')
  BY <1>1 DEF ChainInv, NoneWrong, FromAnywhere, NextIsRight, Pending, Enters,
    WordsFor
<1> QED
  BY <1>2, <1>5, <1>6, <1>7, <1>8, <1>9, <1>10 DEF ChainInv

(* It holds in every state, for registers and bytes of every width, frames *)
(* of every length, and requests that break off at any clock.              *)
THEOREM ChainInvariant == Spec => []ChainInv
<1>1. Init => ChainInv
  BY InitKeeps
<1>2. ChainInv /\ [Next]_vars => ChainInv'
  <2> SUFFICES ASSUME ChainInv, [Next]_vars
               PROVE  ChainInv'
    OBVIOUS
  <2>1. CASE Connect
    BY <2>1, ConnectKeeps
  <2>2. CASE CheckIdcodes
    BY <2>2, CheckIdcodesKeeps
  <2>3. CASE CheckIrDelay
    <3>1. PICK r \in Requests : Follows(r) /\ Begin(r)
      BY <2>3 DEF CheckIrDelay
    <3>2. request.kind # "reset"
      BY <2>3 DEF CheckIrDelay, Answered, ChainInv, StageIsRequest
    <3> QED
      BY <2>3, <3>1, <3>2, RequestKeeps DEF CheckIrDelay
  <2>4. CASE GoOn
    <3>1. PICK r \in Requests : Follows(r) /\ Begin(r)
      BY <2>4 DEF GoOn
    <3>2. stage' = "open" /\ client' = client
      BY <2>4 DEF GoOn
    <3> QED
      BY <2>4, <3>1, <3>2, RequestKeeps DEF GoOn
  <2>5. CASE Finish
    BY <2>5, FinishKeeps
  <2>6. CASE Clock
    BY <2>6, ClockKeeps
  <2>7. CASE Cut
    BY <2>7, CutKeeps
  <2>8. CASE UNCHANGED vars
    BY <2>8, StutterKeeps
  <2> QED
    BY <2>1, <2>2, <2>3, <2>4, <2>5, <2>6, <2>7, <2>8 DEF Next
<1> QED
  BY <1>1, <1>2, PTL DEF Spec

(* Every variable keeps its type.                                          *)
THEOREM ChainTypes == Spec => []TypeOK
<1>1. ChainInv => TypeOK
  BY DEF ChainInv
<1> QED
  BY <1>1, ChainInvariant, PTL

-----------------------------------------------------------------------------
(* What the invariant says of the writes.                                  *)

(* The whole of a sequence.                                                *)
LEMMA WholeOf ==
  ASSUME NEW S, NEW s \in Seq(S)
  PROVE  SubSeq(s, 1, Len(s)) = s
<1>1. Len(s) \in Nat
  BY LenProperties
<1> DEFINE t == SubSeq(s, 1, Len(s))
<1>2. t \in Seq(S) /\ Len(t) = Len(s) /\ \A i \in 1 .. Len(s) : t[i] = s[i]
  <2>1. CASE Len(s) = 0
    <3>1. s = <<>> /\ t = <<>>
      BY <2>1, EmptySeq
    <3> QED
      BY <1>1, <2>1, <3>1
  <2>2. CASE Len(s) # 0
    <3>1. 1 \in 1 .. Len(s) /\ Len(s) \in 1 .. Len(s)
      BY <1>1, <2>2
    <3>2. /\ t \in Seq(S)
          /\ Len(t) = IF 1 <= Len(s) THEN Len(s) - 1 + 1 ELSE 0
          /\ \A i \in 1 .. Len(s) - 1 + 1 : t[i] = s[1 + i - 1]
      BY <1>1, <3>1, SubSeqProperties
    <3> HIDE DEF t
    <3>3. /\ Len(t) = Len(s)
          /\ \A i \in 1 .. Len(s) : i \in 1 .. Len(s) - 1 + 1 /\ 1 + i - 1 = i
      BY <1>1, <2>2, <3>2
    <3> QED
      BY <3>2, <3>3
  <2> QED
    BY <2>1, <2>2
<1> HIDE DEF t
<1>3. t = s
  BY <1>1, <1>2, SeqEqual
<1> QED
  BY <1>3 DEF t

(* A card receives a beginning of the words for its own lane, and a write  *)
(* that is answered has delivered its whole frames.                        *)
LEMMA WritesAreRight ==
  ASSUME ChainInv
  PROVE  WritesArrive
<1>1. ASSUME NEW l \in Lanes, Answered, request = write
      PROVE  inbox[l] = WordsFor(write, l)
  <2>1. IsWrite(request) /\ request \in Requests
    BY <1>1 DEF ChainInv, TypeOK, Answered
  <2>2. Count = Length(request) + 1
    BY <1>1, AtRest
  <2>3. /\ WordsFor(request, l) \in Seq(Seq(Bit))
        /\ WordsDone(request, Length(request) + 1, l) = Len(WordsFor(request, l))
    BY <2>1, WordsForIs
  <2>4. inbox[l] = SubSeq(WordsFor(request, l), 1, Len(WordsFor(request, l)))
    BY <2>1, <2>2, <2>3 DEF ChainInv, WordsAreRight
  <2> QED
    BY <1>1, <2>3, <2>4, WholeOf
<1>2. ASSUME NEW l \in Lanes, ~misread
      PROVE  StartsWith(WordsFor(write, l), inbox[l])
  BY <1>2 DEF ChainInv, NoneWrong
<1> QED
  BY <1>1, <1>2 DEF WritesArrive

(* Every card receives exactly the words for its lane, in order.           *)
THEOREM ChainWrites == Spec => []WritesArrive
BY WritesAreRight, ChainInvariant, PTL

-----------------------------------------------------------------------------
(* What the invariant says of the reads.                                   *)

(* A window of a read: at the offset of the lane lies the whole answer of  *)
(* its card.                                                               *)
LEMMA WordOfWindow ==
  ASSUME NEW r \in Requests, r.kind \in {"read", "ack"},
         NEW k \in Nat \ {0}, NEW stk \in [Lanes -> Seq(Byte)]
  PROVE  SubSeq(Window(r, k, stk), ReadOffset(r.lane) + 1,
                ReadOffset(r.lane) + ByteBits + 1)
           = Answer(stk[r.lane], k)
<1> DEFINE a == Answer(stk[r.lane], k)
           w == Window(r, k, stk)
<1>1. r.lane \in Lanes /\ Lanes = {0, 1} /\ ByteBits \in Nat \ {0}
  BY RequestIs, Patterns
<1>2. a \in Seq(Bit) /\ Len(a) = ByteBits + 1
  BY <1>1, AnswerIs
<1>3. <<0>> \in Seq(Bit) /\ Len(<<0>>) = 1 /\ <<0>>[1] = 0
  BY DEF Bit
<1>4. CASE r.lane = 0
  <2>1. w = a \o <<0>>
    BY <1>4 DEF Window
  <2> HIDE DEF a, w
  <2>2. /\ w \in Seq(Bit) /\ Len(w) = Len(a) + Len(<<0>>)
        /\ \A i \in 1 .. Len(a) + Len(<<0>>) :
             w[i] = IF i <= Len(a) THEN a[i] ELSE <<0>>[i - Len(a)]
    BY <1>2, <1>3, <2>1, TwoPieces
  <2>3. ByteBits + 1 \in Nat /\ ByteBits + 1 <= Len(w)
    BY <1>1, <1>2, <1>3, <2>2
  <2>4. /\ SubSeq(w, 1, ByteBits + 1) \in Seq(Bit)
        /\ Len(SubSeq(w, 1, ByteBits + 1)) = ByteBits + 1
        /\ \A i \in 1 .. ByteBits + 1 : SubSeq(w, 1, ByteBits + 1)[i] = w[i]
    BY <2>2, <2>3, BeginningOf
  <2>5. \A i \in 1 .. ByteBits + 1 : SubSeq(w, 1, ByteBits + 1)[i] = a[i]
    BY <1>1, <1>2, <1>3, <2>2, <2>4
  <2>6. SubSeq(w, 1, ByteBits + 1) = a
    BY <1>2, <2>3, <2>4, <2>5, SameBits
  <2>7. ReadOffset(r.lane) + 1 = 1
        /\ ReadOffset(r.lane) + ByteBits + 1 = ByteBits + 1
    BY <1>1, <1>4 DEF ReadOffset
  <2> QED
    BY <2>6, <2>7 DEF a, w
<1>5. CASE r.lane = 1
  <2>1. w = <<0>> \o a
    BY <1>5 DEF Window
  <2> HIDE DEF a, w
  <2>2. /\ w \in Seq(Bit) /\ Len(w) = Len(<<0>>) + Len(a)
        /\ \A i \in 1 .. Len(<<0>>) + Len(a) :
             w[i] = IF i <= Len(<<0>>) THEN <<0>>[i] ELSE a[i - Len(<<0>>)]
    BY <1>2, <1>3, <2>1, TwoPieces
  <2>3. ByteBits + 1 \in Nat /\ 1 \in Nat /\ 1 + (ByteBits + 1) <= Len(w)
    BY <1>1, <1>2, <1>3, <2>2
  <2> DEFINE s == SubSeq(w, 1 + 1, 1 + (ByteBits + 1))
  <2>4. /\ s \in Seq(Bit) /\ Len(s) = ByteBits + 1
        /\ \A i \in 1 .. ByteBits + 1 : s[i] = w[1 + i]
    BY <2>2, <2>3, PieceOf
  <2>5. \A i \in 1 .. ByteBits + 1 : s[i] = a[i]
    <3> HIDE DEF s
    <3> TAKE i \in 1 .. ByteBits + 1
    <3>1. i \in Nat /\ 1 + i \in 1 .. Len(<<0>>) + Len(a)
          /\ ~(1 + i <= Len(<<0>>)) /\ 1 + i - Len(<<0>>) = i
      BY <1>1, <1>2, <1>3
    <3> QED
      BY <2>2, <2>4, <3>1
  <2>6. s = a
    <3> HIDE DEF s
    <3> QED
      BY <1>2, <2>3, <2>4, <2>5, SameBits
  <2>7. ReadOffset(r.lane) + 1 = 1 + 1
        /\ ReadOffset(r.lane) + ByteBits + 1 = 1 + (ByteBits + 1)
    BY <1>1, <1>5 DEF ReadOffset
  <2> QED
    BY <2>6, <2>7 DEF a, w
<1> QED
  BY <1>1, <1>4, <1>5

NthOf(V, n) == CHOOSE k \in V : Cardinality({j \in V : j <= k}) = n

(* The n-th member of 1 .. m is n.                                         *)
LEMMA NthOfInterval ==
  ASSUME NEW m \in Nat
  PROVE  /\ Cardinality(1 .. m) = m
         /\ \A n \in 1 .. m : NthOf(1 .. m, n) = n
<1>1. \A k \in 1 .. m : Cardinality({j \in 1 .. m : j <= k}) = k
  <2> TAKE k \in 1 .. m
  <2>1. {j \in 1 .. m : j <= k} = 1 .. k
    OBVIOUS
  <2>2. k \in Int /\ 1 \in Int /\ ~(1 > k) /\ k - 1 + 1 = k
    OBVIOUS
  <2>3. Cardinality(1 .. k) = k
    BY <2>2, FS_Interval
  <2> QED
    BY <2>1, <2>3
<1>2. Cardinality(1 .. m) = m
  <2>1. m \in Int /\ 1 \in Int /\ m = IF 1 > m THEN 0 ELSE m - 1 + 1
    OBVIOUS
  <2> QED
    BY <2>1, FS_Interval
<1>3. \A n \in 1 .. m : NthOf(1 .. m, n) = n
  BY <1>1 DEF NthOf
<1> QED
  BY <1>2, <1>3

ReadWindows(r, stk) == [k \in 1 .. ReadScans |-> Window(r, k, stk)]
Taken(s, n) ==
  LET m == IF n <= Len(s) THEN n ELSE Len(s) IN [i \in 1 .. m |-> s[i]]

(* What the host makes of the windows of a read: the bytes the card had at *)
(* its beginning, as many as there are windows.                            *)
LEMMA ExtractIs ==
  ASSUME NEW r \in Requests, r.kind \in {"read", "ack"},
         NEW stk \in [Lanes -> Seq(Byte)],
         tdo = ReadWindows(r, stk)
  PROVE  ExtractValidBytes(ReadOffset(r.lane)) = Taken(stk[r.lane], ReadScans)
<1> DEFINE s == stk[r.lane]
           m == IF ReadScans <= Len(s) THEN ReadScans ELSE Len(s)
           off == ReadOffset(r.lane)
           valid == {k \in DOMAIN tdo : WordAt(k, off)[ByteBits + 1] = 0}
           Nth(i) == CHOOSE k \in valid : Cardinality({j \in valid : j <= k}) = i
<1>1. s \in Seq(Byte) /\ Len(s) \in Nat /\ ReadScans \in Nat
      /\ ByteBits \in Nat \ {0}
  BY RequestIs, Patterns, LenProperties
<1>2. DOMAIN tdo = 1 .. ReadScans
  BY DEF ReadWindows
<1>3. \A k \in 1 .. ReadScans : WordAt(k, off) = Answer(s, k)
  <2> TAKE k \in 1 .. ReadScans
  <2>1. tdo[k] = Window(r, k, stk) /\ k \in Nat \ {0}
    BY <1>1 DEF ReadWindows
  <2>2. WordAt(k, off) = SubSeq(tdo[k], off + 1, off + ByteBits + 1)
    BY DEF WordAt
  <2> QED
    BY <2>1, <2>2, WordOfWindow
<1> HIDE DEF s, off
<1>4. \A k \in 1 .. ReadScans :
        /\ k <= Len(s) => /\ Answer(s, k)[ByteBits + 1] = 0
                          /\ SubSeq(Answer(s, k), 1, ByteBits) = s[k]
        /\ k > Len(s) => Answer(s, k)[ByteBits + 1] = 1
  <2> TAKE k \in 1 .. ReadScans
  <2>1. CASE k <= Len(s)
    <3>1. s[k] \in Byte
      BY <1>1, <2>1, ElementOfSeq
    <3>2. s[k] \in Seq(Bit) /\ Len(s[k]) = ByteBits /\ 0 \in Bit
      BY <3>1, Patterns DEF Bit
    <3> DEFINE b == s[k]
    <3> HIDE DEF b
    <3>3. b \in Seq(Bit) /\ Len(b) = ByteBits
      BY <3>2 DEF b
    <3>4. Answer(s, k) = Append(b, 0)
      BY <1>1, <2>1, AnswerIs DEF b
    <3>5. /\ Append(b, 0) \in Seq(Bit) /\ Len(Append(b, 0)) = Len(b) + 1
          /\ \A i \in 1 .. Len(b) : Append(b, 0)[i] = b[i]
          /\ Append(b, 0)[Len(b) + 1] = 0
      BY <3>2, <3>3, AppendProperties
    <3> DEFINE a == Append(b, 0)
    <3> HIDE DEF a
    <3>6. /\ SubSeq(a, 1, ByteBits) \in Seq(Bit)
          /\ Len(SubSeq(a, 1, ByteBits)) = ByteBits
          /\ \A i \in 1 .. ByteBits : SubSeq(a, 1, ByteBits)[i] = a[i]
      <4>1. a \in Seq(Bit) /\ ByteBits \in Nat /\ ByteBits <= Len(a)
        BY <1>1, <3>3, <3>5 DEF a
      <4> QED
        BY <4>1, BeginningOf
    <3>7. \A i \in 1 .. ByteBits : SubSeq(a, 1, ByteBits)[i] = b[i]
      BY <3>3, <3>5, <3>6 DEF a
    <3>8. SubSeq(a, 1, ByteBits) = b
      BY <3>3, <3>6, <3>7, SameBits
    <3> QED
      BY <1>1, <2>1, <3>3, <3>4, <3>5, <3>8 DEF a, b
  <2>2. CASE k > Len(s)
    <3> DEFINE z == Zeros(ByteBits)
    <3>1. z \in Seq(Bit) /\ Len(z) = ByteBits /\ 1 \in Bit
      BY <1>1, ZerosAndOnes DEF Bit
    <3> HIDE DEF z
    <3>2. Append(z, 1)[Len(z) + 1] = 1
      BY <3>1, AppendProperties
    <3>3. Answer(s, k) = Append(z, 1)
      BY <1>1, <2>2, AnswerIs DEF z
    <3> QED
      BY <1>1, <2>2, <3>1, <3>2, <3>3
  <2> QED
    BY <1>1, <2>1, <2>2
<1>5. m \in Nat /\ valid = 1 .. m
  <2>1. \A k \in 1 .. ReadScans : k \in valid <=> k <= Len(s)
    BY <1>1, <1>2, <1>3, <1>4
  <2>2. m \in Nat /\ \A k : k \in 1 .. m <=> k \in 1 .. ReadScans /\ k <= Len(s)
    BY <1>1
  <2>3. \A k : k \in valid => k \in 1 .. ReadScans
    BY <1>2
  <2> HIDE DEF valid, m
  <2> QED
    BY <2>1, <2>2, <2>3
<1>6. /\ Cardinality(valid) = m
      /\ \A i \in 1 .. m : Nth(i) = i
  <2>1. \A i : Nth(i) = NthOf(valid, i)
    <3> HIDE DEF valid
    <3> QED
      BY DEF NthOf
  <2> HIDE DEF valid, m, Nth
  <2> QED
    BY <1>5, <2>1, NthOfInterval
<1>7. ExtractValidBytes(off)
        = [i \in 1 .. Cardinality(valid) |->
             SubSeq(WordAt(Nth(i), off), 1, ByteBits)]
  BY DEF ExtractValidBytes
<1>8. \A i \in 1 .. m : SubSeq(WordAt(Nth(i), off), 1, ByteBits) = s[i]
  <2> TAKE i \in 1 .. m
  <2>1. i \in 1 .. ReadScans /\ i <= Len(s)
    BY <1>1
  <2>2. WordAt(Nth(i), off) = Answer(s, i)
    <3>1. Nth(i) = i
      BY <1>6
    <3>2. WordAt(i, off) = Answer(s, i)
      BY <1>3, <2>1
    <3> HIDE DEF Nth
    <3> QED
      BY <3>1, <3>2
  <2> HIDE DEF Nth
  <2> QED
    BY <1>4, <2>1, <2>2
<1> HIDE DEF valid, Nth, m
<1>9. ExtractValidBytes(off) = [i \in 1 .. m |-> s[i]]
  BY <1>6, <1>7, <1>8
<1> QED
  BY <1>9 DEF s, off, m, Taken

(* A sequence is its beginning and the rest.                               *)
LEMMA BeginningAndRest ==
  ASSUME NEW s \in Seq(Byte), NEW n \in Nat
  PROVE  s = Taken(s, n) \o Rest(s, n)
<1> DEFINE m == IF n <= Len(s) THEN n ELSE Len(s)
           b == [i \in 1 .. m |-> s[i]]
           t == Rest(s, n)
<1>1. Len(s) \in Nat /\ m \in 0 .. Len(s) /\ m \in Nat
  BY LenProperties
<1>2. b \in [1 .. m -> Byte] /\ \A i \in 1 .. m : b[i] = s[i]
  <2>1. \A i \in 1 .. m : s[i] \in Byte
    <3> TAKE i \in 1 .. m
    <3>1. i \in 1 .. Len(s)
      BY <1>1
    <3> QED
      BY <3>1, ElementOfSeq
  <2> HIDE DEF m
  <2> QED
    BY <2>1
<1>3. b \in Seq(Byte) /\ Len(b) = m
  <2> HIDE DEF b, m
  <2> QED
    BY <1>1, <1>2, FunctionIsSeq
<1>4. /\ t \in Seq(Byte) /\ Len(t) = Len(s) - m
      /\ \A i \in 1 .. Len(s) - m : t[i] = s[m + i]
  <2>1. CASE n < Len(s)
    <3>1. n + 1 \in 1 .. Len(s) + 1 /\ Len(s) \in 0 .. Len(s) /\ m = n
      BY <1>1, <2>1
    <3>2. /\ t \in Seq(Byte)
          /\ Len(t) = IF n + 1 <= Len(s) THEN Len(s) - (n + 1) + 1 ELSE 0
          /\ \A i \in 1 .. Len(s) - (n + 1) + 1 : t[i] = s[n + 1 + i - 1]
      <4>1. n + 1 \in 1 .. Len(s)
        BY <1>1, <2>1
      <4>2. t = SubSeq(s, n + 1, Len(s))
        BY DEF Rest
      <4> HIDE DEF t
      <4> QED
        BY <1>1, <3>1, <4>1, <4>2, SubSeqProperties
    <3> HIDE DEF t
    <3>3. /\ Len(s) - (n + 1) + 1 = Len(s) - n /\ n + 1 <= Len(s)
          /\ \A i \in Nat : n + 1 + i - 1 = n + i
      BY <1>1, <2>1
    <3> QED
      BY <3>1, <3>2, <3>3
  <2>2. CASE n >= Len(s)
    <3>1. m = Len(s)
      BY <1>1, <2>2
    <3>2. t = <<>>
      BY <2>2, RestIs
    <3> HIDE DEF t, m
    <3> QED
      BY <1>1, <3>1, <3>2
  <2> HIDE DEF t, m
  <2> QED
    BY <1>1, <2>1, <2>2
<1> HIDE DEF b, t, m
<1>5. /\ b \o t \in Seq(Byte) /\ Len(b \o t) = Len(b) + Len(t)
      /\ \A i \in 1 .. Len(b) + Len(t) :
           (b \o t)[i] = IF i <= Len(b) THEN b[i] ELSE t[i - Len(b)]
  BY <1>3, <1>4, ConcatProperties
<1>6. \A i \in 1 .. Len(s) : s[i] = (b \o t)[i]
  <2> TAKE i \in 1 .. Len(s)
  <2>1. i \in 1 .. Len(b) + Len(t)
    BY <1>1, <1>3, <1>4
  <2>2. CASE i <= m
    BY <1>1, <1>2, <1>3, <1>5, <2>1, <2>2
  <2>3. CASE ~(i <= m)
    <3>1. i - m \in 1 .. Len(s) - m /\ m + (i - m) = i
      BY <1>1, <2>3
    <3> QED
      BY <1>3, <1>4, <1>5, <2>1, <2>3, <3>1
  <2> QED
    BY <2>2, <2>3
<1>7. s = b \o t
  <2>1. Len(b \o t) = Len(s)
    BY <1>1, <1>3, <1>4, <1>5
  <2> QED
    BY <1>5, <1>6, <2>1, SeqEqual
<1> QED
  BY <1>7 DEF b, t, m, Taken

(* The host reads what has left the card.                                  *)
LEMMA ReadsAreRight ==
  ASSUME ChainInv
  PROVE  ReadsExact
<1>1. SUFFICES ASSUME stage = "open", Answered, NEW l \in Lanes
               PROVE  stock[l] = BytesOf(l) \o outbox[l]
  BY DEF ReadsExact
<1>2. /\ request \in Requests /\ op = Length(request) + 1 /\ Shifted = 0
      /\ op \in Nat
  BY <1>1, AtRest
<1>3. stock[l] \in Seq(Byte) /\ stock \in [Lanes -> Seq(Byte)]
  BY DEF ChainInv, TypeOK
<1>4. outbox[l] = Rest(stock[l], BytesDone(request, op, l))
  <2>1. ~(Shifted >= ByteBits)
    BY <1>2, Patterns
  <2> QED
    BY <1>1, <2>1 DEF ChainInv, StockIsRight
<1>5. CASE request \in LaneRequests /\ request.lane = l
  <2>1. request.kind \in {"read", "ack"}
    BY <1>2, <1>5, RequestIs
  <2>2. WindowsDone(request, op) = ReadScans
    BY <1>2, <2>1, Counts
  <2>3. outbox[l] = Rest(stock[l], ReadScans)
    BY <1>4, <1>5, <2>2 DEF BytesDone
  <2>4. tdo = ReadWindows(request, stock)
    <3>1. tdo = Windows(request, op, stock) \o <<>>
      BY <1>1, <1>2 DEF ChainInv, WindowsAreRight, Answered
    <3>2. Windows(request, op, stock) \o <<>> = Windows(request, op, stock)
      BY <1>2, WindowsGrow
    <3> QED
      BY <2>2, <3>1, <3>2 DEF Windows, ReadWindows
  <2>5. BytesOf(l) = ExtractValidBytes(ReadOffset(l))
    BY <1>5 DEF BytesOf
  <2>6. BytesOf(l) = Taken(stock[l], ReadScans)
    BY <1>2, <1>3, <1>5, <2>1, <2>4, <2>5, ExtractIs
  <2>7. stock[l] = Taken(stock[l], ReadScans) \o Rest(stock[l], ReadScans)
    BY <1>3, Patterns, BeginningAndRest
  <2> QED
    BY <2>3, <2>6, <2>7
<1>6. CASE ~(request \in LaneRequests /\ request.lane = l)
  <2>1. BytesDone(request, op, l) = 0 /\ BytesOf(l) = <<>>
    BY <1>6 DEF BytesDone, BytesOf
  <2>2. outbox[l] = stock[l]
    BY <1>3, <1>4, <2>1, RestIs
  <2> QED
    BY <1>3, <2>1, <2>2, ConcatEmptySeq
<1> QED
  BY <1>5, <1>6

(* The host reads at the offset of a lane exactly the bytes that left this *)
(* card during the request; every other card keeps its own.                *)
THEOREM ChainReads == Spec => []ReadsExact
BY ReadsAreRight, ChainInvariant, PTL

-----------------------------------------------------------------------------
(* What the invariant says of the measurement.                             *)

(* The window of the measurement, bit for bit: the cells both registers    *)
(* captured, and the probe behind them.                                    *)
LEMMA IrWindow ==
  LET w == SubSeq(IrAnswer, 1, 2 * Len(Probe))
  IN  /\ w \in Seq(Bit) /\ Len(w) = 2 * Len(Probe)
      /\ \A i \in 1 .. 2 * Len(Probe) : w[i] = IrAnswer[i]
      /\ w[0 * IrBits + 1] = 1 /\ w[0 * IrBits + 2] = 0
      /\ w[1 * IrBits + 1] = 1 /\ w[1 * IrBits + 2] = 0
<1> DEFINE P == Len(Probe)
           w == SubSeq(IrAnswer, 1, 2 * P)
<1>1. /\ IrBits \in Nat /\ IrBits >= 3 /\ P \in Nat /\ P >= 2 * IrBits
  BY Patterns
<1>2. /\ IrAnswer \in Seq(Bit) /\ Len(IrAnswer) = 2 * IrBits + P + P
      /\ \A i \in 1 .. IrBits :
           IrAnswer[i] = CapturedIr[i] /\ IrAnswer[IrBits + i] = CapturedIr[i]
  BY IrAnswerIs
<1> HIDE DEF P
<1>3. /\ w \in Seq(Bit) /\ Len(w) = 2 * P
      /\ \A i \in 1 .. 2 * P : w[i] = IrAnswer[i]
  <2>1. 2 * P \in Nat /\ 2 * P <= Len(IrAnswer)
    BY <1>1, <1>2
  <2> QED
    BY <1>2, <2>1, BeginningOf
<1>4. /\ 0 * IrBits + 1 = 1 /\ 0 * IrBits + 2 = 2
      /\ 1 * IrBits + 1 = IrBits + 1 /\ 1 * IrBits + 2 = IrBits + 2
      /\ 1 \in 1 .. IrBits /\ 2 \in 1 .. IrBits
      /\ {1, 2, IrBits + 1, IrBits + 2} \subseteq 1 .. 2 * P
  BY <1>1
<1> HIDE DEF w
<1> QED
  BY <1>2, <1>3, <1>4, CapturedIrIs DEF w, P

(* The probe is found behind the cells of both registers and nowhere else. *)
LEMMA ProbeIsFound ==
  ASSUME tdo[1] = SubSeq(IrAnswer, 1, 2 * Len(Probe))
  PROVE  IrDelays = {LaneCount * IrBits}
<1> DEFINE P == Len(Probe)
           w == SubSeq(IrAnswer, 1, 2 * P)
           D == 2 * IrBits
<1>1. /\ IrBits \in Nat /\ IrBits >= 3 /\ P \in Nat /\ P >= D
      /\ LaneCount * IrBits = D /\ Probe \in Seq(Bit)
  BY Patterns, PatternAssumption
<1>2. /\ IrAnswer \in Seq(Bit) /\ Len(IrAnswer) = 2 * IrBits + P + P
      /\ \A i \in 1 .. P + P : IrAnswer[2 * IrBits + i] = ProbeStream[i]
  BY IrAnswerIs
<1>3. /\ w \in Seq(Bit) /\ Len(w) = 2 * P
      /\ \A i \in 1 .. 2 * P : w[i] = IrAnswer[i]
  BY IrWindow
<1>4. \A i \in 1 .. P : ProbeStream[i] = Probe[i]
  <2>1. Ones(P) \in Seq(Bit) /\ Len(Ones(P)) = P
    BY <1>1, ZerosAndOnes
  <2>2. \A i \in 1 .. Len(Probe) + Len(Ones(P)) :
          ProbeStream[i] = IF i <= Len(Probe) THEN Probe[i]
                           ELSE Ones(P)[i - Len(Probe)]
    BY <1>1, <2>1, TwoPieces DEF ProbeStream
  <2> QED
    BY <1>1, <2>1, <2>2
<1> HIDE DEF P, w
<1>5. \A d \in 1 .. P : SubSeq(w, d + 1, d + P) = SubSeq(IrAnswer, d + 1, d + P)
  <2> TAKE d \in 1 .. P
  <2>1. /\ d \in Nat /\ d + P <= Len(w) /\ d + P <= Len(IrAnswer)
    BY <1>1, <1>2, <1>3
  <2> DEFINE a == SubSeq(w, d + 1, d + P)
             b == SubSeq(IrAnswer, d + 1, d + P)
  <2>2. a \in Seq(Bit) /\ Len(a) = P /\ \A i \in 1 .. P : a[i] = w[d + i]
    BY <1>1, <1>3, <2>1, PieceOf
  <2>3. b \in Seq(Bit) /\ Len(b) = P /\ \A i \in 1 .. P : b[i] = IrAnswer[d + i]
    BY <1>1, <1>2, <2>1, PieceOf
  <2> HIDE DEF a, b
  <2>4. \A i \in 1 .. P : a[i] = b[i]
    <3> TAKE i \in 1 .. P
    <3>1. d + i \in 1 .. 2 * P
      BY <1>1
    <3> QED
      BY <1>3, <2>2, <2>3, <3>1
  <2>5. a = b
    BY <2>2, <2>3, <2>4, SameBits
  <2> QED
    BY <2>5 DEF a, b
<1>6. D \in 1 .. P /\ SubSeq(IrAnswer, D + 1, D + P) = Probe
  <2> DEFINE b == SubSeq(IrAnswer, D + 1, D + P)
  <2>1. D \in Nat /\ D + P <= Len(IrAnswer) /\ D \in 1 .. P
    BY <1>1, <1>2
  <2>2. b \in Seq(Bit) /\ Len(b) = P /\ \A i \in 1 .. P : b[i] = IrAnswer[D + i]
    <3> HIDE DEF D
    <3> QED
      BY <1>1, <1>2, <2>1, PieceOf
  <2> HIDE DEF b
  <2>3. \A i \in 1 .. P : b[i] = Probe[i]
    <3> TAKE i \in 1 .. P
    <3>1. i \in 1 .. P + P
      BY <1>1
    <3> QED
      BY <1>2, <1>4, <2>2, <3>1
  <2>4. b = Probe
    BY <1>1, <2>2, <2>3, SameBits DEF P
  <2> QED
    BY <2>1, <2>4 DEF b
<1>7. \A d \in 1 .. P : SubSeq(IrAnswer, d + 1, d + P) = Probe => d = D
  BY <1>1, ProbeAssumption DEF P
<1>8. tdo[1] = w
  BY DEF w, P
<1>9. IrDelays = {d \in 1 .. P : SubSeq(w, d + 1, d + P) = Probe}
  BY <1>8 DEF IrDelays, P
<1> HIDE DEF D
<1>10. IrDelays = {D}
  BY <1>5, <1>6, <1>7, <1>9
<1> QED
  BY <1>1, <1>10

(* Every answer of a healthy chain passes the checks of connect.           *)
LEMMA MeasurementIsRight ==
  ASSUME ChainInv
  PROVE  ChainMeasured
<1>1. ASSUME Answered, request.kind \in {"idcodes", "irdelay"}
      PROVE  tdo[1] = Window(request, 1, stock)
  <2>1. /\ request \in Requests /\ op = Length(request) + 1 /\ Shifted = 0
        /\ op \in Nat
    BY <1>1, AtRest
  <2>2. WindowsDone(request, op) = 1
    BY <1>1, <2>1, Counts
  <2>3. tdo = Windows(request, op, stock) \o <<>>
    BY <1>1, <2>1 DEF ChainInv, WindowsAreRight, Answered
  <2>4. Windows(request, op, stock) \o <<>> = Windows(request, op, stock)
    BY <2>1, WindowsGrow
  <2> QED
    BY <2>2, <2>3, <2>4 DEF Windows
<1>2. ASSUME Answered, request.kind = "idcodes"
      PROVE  IdcodesExpected
  BY <1>1, <1>2 DEF Window, IdcodesExpected
<1>3. ASSUME Answered, request.kind = "irdelay"
      PROVE  /\ IrDelays = {LaneCount * IrBits}
             /\ CaptureMarkers = {i * IrBits : i \in Lanes}
             /\ instr = [l \in Lanes |-> "BYPASS"]
  <2>1. tdo[1] = SubSeq(IrAnswer, 1, 2 * Len(Probe))
    BY <1>1, <1>3 DEF Window
  <2>2. CaptureMarkers = {i * IrBits : i \in Lanes}
    <3>1. \A i \in Lanes : tdo[1][i * IrBits + 1] = 1 /\ tdo[1][i * IrBits + 2] = 0
      BY <2>1, IrWindow, Patterns
    <3>2. Lanes = 0 .. LaneCount - 1
      BY DEF Lanes
    <3> QED
      BY <3>1, <3>2 DEF CaptureMarkers
  <2>3. instr = All("BYPASS")
    BY <1>3, AtRest
  <2> QED
    BY <2>1, <2>2, <2>3, ProbeIsFound DEF All
<1> QED
  BY <1>2, <1>3 DEF ChainMeasured

(* A healthy chain passes the checks of connect from any TAP state.        *)
THEOREM ChainIsMeasured == Spec => []ChainMeasured
BY MeasurementIsRight, ChainInvariant, PTL
=============================================================================
