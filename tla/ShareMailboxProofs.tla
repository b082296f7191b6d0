------------------------- MODULE ShareMailboxProofs -------------------------
(***************************************************************************)
(* Proofs about ShareMailbox for every set of shares, every payload length *)
(* and any number of shares.  The handshake argument (Handshake below)     *)
(* holds however the host behaves; the refinement of ShareSlot needs a     *)
(* host that polls the status register and loses nothing.                  *)
(***************************************************************************)
EXTENDS ShareMailbox, Integers, SequenceTheorems, TLAPS

(* A frame has a header of six bytes, a payload and two bytes of CRC.      *)
LEMMA FrameFacts ==
  /\ HeaderBytes = 6 /\ FrameBytes \in Nat /\ FrameBytes >= 9
  /\ PayloadBytes \in Nat /\ PayloadBytes >= 1
  /\ FrameBytes = PayloadBytes + 8
  BY FrameAssumption DEF HeaderBytes, FrameBytes

USE FrameFacts, ModeAssumption

(* Numbers around the length of a header.                                  *)
LEMMA AroundSix ==
  /\ \A n \in Nat : n <= 6 => (n >= 6 <=> n = 6) /\ (n # 6 <=> n < 6)
  /\ \A n \in Nat : n < 6 /\ n + 1 >= 6 => n = 5
  /\ \A n \in Nat : n <= 5 => n # 6 /\ n <= 6
  /\ \A n \in Nat : n < 6 => n # 6
  /\ \A n \in Nat : ~(n >= 6) <=> n < 6
  /\ \A n \in 1 .. 5 : n > 0
  OBVIOUS

(* A byte of a frame is a byte.                                            *)
LEMMA BytesOfFrames ==
  ASSUME NEW f \in Shares \cup {Zero}, NEW i \in Positions
  PROVE  /\ Byte(f, i) \in Bytes /\ [pos |-> i, of |-> Garbage] \in Bytes
         /\ Byte(f, i).pos = i
  BY DEF Byte, Bytes

(* An empty buffer is a sequence of bytes.                                  *)
LEMMA EmptyBuffer == <<>> \in Seq(Bytes)
  OBVIOUS

-----------------------------------------------------------------------------
(* Reassembly by the host.  A buffer is looked at from its end: the byte   *)
(* that came last is the first, and k bytes may begin a frame.             *)

At(s, i) == s[Len(s) + 1 - i]
Begins(s, k) ==
  /\ k \in 1 .. Len(s)
  /\ IsMagic(At(s, k), 0)
  /\ k > 1 => IsMagic(At(s, k - 1), 1)
Suffix(t, s) ==
  Len(t) <= Len(s) /\ \A i \in 1 .. Len(t) : At(t, i) = At(s, i)

(* The buffer begins a frame, or is empty, and holds no whole frame.       *)
BufferOK ==
  /\ Len(assembly) \in 1 .. 5 => Begins(assembly, Len(assembly))
  /\ Len(assembly) >= 6 => /\ LengthOf(assembly) <= MaxPayload
                           /\ Len(assembly) < 8 + LengthOf(assembly)

(* The starts of a short sequence, counted from either end.                *)
LEMMA StartsAndBegins ==
  ASSUME NEW s \in Seq(Bytes), NEW i \in 1 .. Len(s)
  PROVE  /\ i \in Starts(s) <=> Begins(s, Len(s) + 1 - i)
         /\ Starts(s) \subseteq 1 .. Len(s)
<1>1. /\ Len(s) \in Nat /\ Len(s) + 1 - i \in 1 .. Len(s)
      /\ At(s, Len(s) + 1 - i) = s[i]
      /\ At(s, (Len(s) + 1 - i) - 1) = s[i + 1]
      /\ Len(s) + 1 - i > 1 <=> i < Len(s)
  BY DEF At
<1> QED
  BY <1>1 DEF Starts, Begins

(* A suffix begins a frame where the whole does.                           *)
LEMMA SuffixBegins ==
  ASSUME NEW s \in Seq(Bytes), NEW t \in Seq(Bytes), Suffix(t, s),
         NEW k \in 1 .. Len(t)
  PROVE  Begins(t, k) <=> Begins(s, k)
<1>1. /\ Len(s) \in Nat /\ Len(t) \in Nat /\ k \in 1 .. Len(s)
      /\ At(t, k) = At(s, k)
      /\ k > 1 => At(t, k - 1) = At(s, k - 1)
  BY DEF Suffix
<1> QED
  BY <1>1 DEF Begins

(* One byte more.                                                          *)
LEMMA OneMore ==
  ASSUME NEW a \in Seq(Bytes), NEW b \in Bytes
  PROVE  LET s == Append(a, b)
         IN  /\ s \in Seq(Bytes) /\ Len(s) = Len(a) + 1
             /\ At(s, 1) = b
             /\ \A i \in 1 .. Len(a) : At(s, i + 1) = At(a, i) /\ s[i] = a[i]
             /\ Begins(s, 1) <=> IsMagic(b, 0)
             /\ \A k \in 1 .. Len(a) :
                  Begins(s, k + 1) <=> IF k = 1
                                       THEN Begins(a, 1) /\ IsMagic(b, 1)
                                       ELSE Begins(a, k)
<1> DEFINE s == Append(a, b)
<1>1. /\ s \in Seq(Bytes) /\ Len(s) = Len(a) + 1 /\ Len(a) \in Nat
      /\ s[Len(a) + 1] = b /\ \A i \in 1 .. Len(a) : s[i] = a[i]
  OBVIOUS
<1> HIDE DEF s
<1>2. At(s, 1) = b
  BY <1>1 DEF At
<1>3. \A i \in 1 .. Len(a) : At(s, i + 1) = At(a, i)
  BY <1>1 DEF At
<1>4. Begins(s, 1) <=> IsMagic(b, 0)
  BY <1>1, <1>2 DEF Begins
<1>5. ASSUME NEW k \in 1 .. Len(a)
      PROVE  Begins(s, k + 1) <=> IF k = 1
                                  THEN Begins(a, 1) /\ IsMagic(b, 1)
                                  ELSE Begins(a, k)
  <2>1. /\ k + 1 \in 1 .. Len(s) /\ k + 1 > 1 /\ (k + 1) - 1 = k
        /\ At(s, k + 1) = At(a, k)
    BY <1>1, <1>3
  <2>2. Begins(s, k + 1) <=> IsMagic(At(a, k), 0) /\ IsMagic(At(s, k), 1)
    BY <2>1 DEF Begins
  <2>3. CASE k = 1
    <3>1. Begins(a, 1) <=> IsMagic(At(a, 1), 0)
      BY <2>3 DEF Begins
    <3> QED
      BY <1>2, <2>2, <2>3, <3>1
  <2>4. CASE k # 1
    <3>1. k - 1 \in 1 .. Len(a) /\ (k - 1) + 1 = k /\ k > 1
      BY <1>1, <2>4
    <3>2. At(s, k) = At(a, k - 1)
      BY <1>3, <3>1
    <3> QED
      BY <2>2, <2>4, <3>1, <3>2 DEF Begins
  <2> QED
    BY <2>3, <2>4
<1> QED
  BY <1>1, <1>2, <1>3, <1>4, <1>5 DEF s

(* The search for the magic keeps the bytes from the first start on.       *)
LEMMA SearchKeeps ==
  ASSUME NEW s \in Seq(Bytes), Len(s) <= 6
  PROVE  LET t == FromMagic(s)
         IN  /\ t \in Seq(Bytes) /\ Suffix(t, s)
             /\ Len(t) > 0 => Begins(t, Len(t))
             /\ \A k \in 1 .. Len(s) : Begins(s, k) => k <= Len(t)
<1> DEFINE t == FromMagic(s)
<1>0. Len(s) \in Nat /\ Starts(s) \subseteq 1 .. Len(s)
  BY DEF Starts
<1>1. CASE Starts(s) = {}
  <2>1. t = <<>>
    BY <1>1 DEF FromMagic
  <2>2. \A k \in 1 .. Len(s) : ~Begins(s, k)
    <3> SUFFICES ASSUME NEW k \in 1 .. Len(s) PROVE ~Begins(s, k)
      OBVIOUS
    <3> DEFINE i == Len(s) + 1 - k
    <3>1. i \in 1 .. Len(s) /\ Len(s) + 1 - i = k
      BY <1>0
    <3> HIDE DEF i
    <3>2. i \in Starts(s) <=> Begins(s, Len(s) + 1 - i)
      BY <3>1, StartsAndBegins
    <3> QED
      BY <1>1, <3>1, <3>2
  <2>3. t \in Seq(Bytes) /\ Len(t) = 0
    BY <2>1
  <2> HIDE DEF t
  <2> QED
    BY <1>0, <2>2, <2>3 DEF Suffix, t
<1>2. CASE Starts(s) # {}
  <2> DEFINE m == Min(Starts(s))
  <2>1. \E x \in Starts(s) : \A y \in Starts(s) : x <= y
    <3>1. Starts(s) \subseteq 1 .. 6
      BY <1>0
    <3> DEFINE S == Starts(s)
    <3>2. S \subseteq 1 .. 6 /\ S # {}
      BY <1>2, <3>1
    <3> HIDE DEF S
    <3>3. \A y \in S : y \in {1, 2, 3, 4, 5, 6}
      BY <3>2
    <3>4. \E x \in S : \A y \in S : x <= y
      <4>1. CASE 1 \in S
        BY <3>3, <4>1
      <4>2. CASE 1 \notin S /\ 2 \in S
        BY <3>3, <4>2
      <4>3. CASE S \cap {1, 2} = {} /\ 3 \in S
        BY <3>3, <4>3
      <4>4. CASE S \cap {1, 2, 3} = {} /\ 4 \in S
        BY <3>3, <4>4
      <4>5. CASE S \cap {1, 2, 3, 4} = {} /\ 5 \in S
        BY <3>3, <4>5
      <4>6. CASE S \cap {1, 2, 3, 4, 5} = {}
        <5>1. \A y \in S : y = 6
          BY <3>3, <4>6
        <5>2. PICK x \in S : TRUE
          BY <3>2
        <5> QED
          BY <5>1, <5>2
      <4> QED
        BY <4>1, <4>2, <4>3, <4>4, <4>5, <4>6
    <3> QED
      BY <3>4 DEF S
  <2>2. m \in Starts(s) /\ \A y \in Starts(s) : m <= y
    BY <2>1, Zenon DEF Min
  <2> HIDE DEF m
  <2>3. m \in 1 .. Len(s)
    BY <1>0, <2>2
  <2>4. t = SubSeq(s, m, Len(s))
    BY <1>2 DEF FromMagic, m
  <2>5. /\ t \in Seq(Bytes) /\ Len(t) = Len(s) + 1 - m
        /\ \A i \in 1 .. Len(t) : t[i] = s[m + i - 1]
    BY <1>0, <2>3, <2>4
  <2> HIDE DEF t
  <2>6. Suffix(t, s)
    <3> SUFFICES ASSUME NEW i \in 1 .. Len(t) PROVE At(t, i) = At(s, i)
      BY <1>0, <2>3, <2>5 DEF Suffix
    <3>1. /\ Len(t) + 1 - i \in 1 .. Len(t)
          /\ m + (Len(t) + 1 - i) - 1 = Len(s) + 1 - i
      BY <1>0, <2>3, <2>5
    <3> QED
      BY <2>5, <3>1 DEF At
  <2>7. Begins(t, Len(t))
    <3>1. Begins(s, Len(s) + 1 - m)
      BY <2>2, <2>3, StartsAndBegins
    <3>2. Len(t) \in 1 .. Len(t) /\ Begins(s, Len(t))
      BY <1>0, <2>3, <2>5, <3>1
    <3> QED
      BY <2>5, <2>6, <3>2, SuffixBegins
  <2>8. \A k \in 1 .. Len(s) : Begins(s, k) => k <= Len(t)
    <3> SUFFICES ASSUME NEW k \in 1 .. Len(s), Begins(s, k)
                 PROVE  k <= Len(t)
      OBVIOUS
    <3> DEFINE i == Len(s) + 1 - k
    <3>1. i \in 1 .. Len(s) /\ Len(s) + 1 - i = k
      BY <1>0
    <3> HIDE DEF i
    <3>2. i \in Starts(s)
      BY <3>1, StartsAndBegins
    <3>3. m <= i
      BY <2>2, <3>2
    <3> QED
      BY <1>0, <2>3, <2>5, <3>1, <3>3
  <2> QED
    BY <2>5, <2>6, <2>7, <2>8 DEF t
<1> QED
  BY <1>1, <1>2

(* A length is a number, and the header it stands in stays where it is.    *)
LEMMA LengthStays ==
  ASSUME NEW a \in Seq(Bytes), Len(a) >= 6
  PROVE  /\ LengthOf(a) \in Nat
         /\ \A b \in Bytes : LengthOf(Append(a, b)) = LengthOf(a)
<1>1. a[5] \in Bytes /\ a[6] \in Bytes
  OBVIOUS
<1>2. Radix \in Nat /\ Value[a[5]] \in Nat /\ Value[a[6]] \in Nat
  BY <1>1, ValueAssumption, FrameAssumption
<1>3. \A x, y \in Nat : x * y \in Nat
  OBVIOUS
<1>4. LengthOf(a) \in Nat
  BY <1>2, <1>3 DEF LengthOf
<1>5. ASSUME NEW b \in Bytes PROVE LengthOf(Append(a, b)) = LengthOf(a)
  <2>1. Append(a, b)[5] = a[5] /\ Append(a, b)[6] = a[6]
    OBVIOUS
  <2> QED
    BY <2>1 DEF LengthOf
<1> QED
  BY <1>4, <1>5

(* Behind its first byte, a sequence of six is a sequence of five.         *)
LEMMA TailIsSuffix ==
  ASSUME NEW s \in Seq(Bytes), Len(s) = 6
  PROVE  /\ Tail(s) \in Seq(Bytes) /\ Len(Tail(s)) = 5
         /\ Suffix(Tail(s), s)
<1>1. /\ Tail(s) \in Seq(Bytes) /\ Len(Tail(s)) = 5
      /\ \A i \in 1 .. 5 : Tail(s)[i] = s[i + 1]
  <2>1. s # <<>>
    OBVIOUS
  <2>2. /\ Tail(s) \in Seq(Bytes) /\ Len(Tail(s)) = Len(s) - 1
        /\ \A i \in 1 .. Len(Tail(s)) : Tail(s)[i] = s[i + 1]
    BY <2>1, HeadTailProperties
  <2>3. Len(Tail(s)) = 5
    BY <2>2
  <2> QED
    BY <2>2, <2>3, Zenon
<1> DEFINE v == Tail(s)
<1>2. /\ v \in Seq(Bytes) /\ Len(v) = 5
      /\ \A i \in 1 .. 5 : v[i] = s[i + 1]
  BY <1>1
<1> HIDE DEF v
<1>3. ASSUME NEW i \in 1 .. 5 PROVE At(v, i) = At(s, i)
  <2>1. Len(v) + 1 - i \in 1 .. 5 /\ (Len(v) + 1 - i) + 1 = Len(s) + 1 - i
    BY <1>2
  <2> QED
    BY <1>2, <2>1 DEF At
<1>4. Suffix(v, s)
  BY <1>2, <1>3 DEF Suffix
<1> QED
  BY <1>2, <1>4 DEF v

(* What one byte more does to a buffer: a header that is complete grows,   *)
(* of one that is not the part from the first start on is kept, and no     *)
(* later start is lost with what is dropped.                               *)
LEMMA AssembleEffect ==
  ASSUME NEW a \in Seq(Bytes), NEW b \in Bytes
  PROVE  LET s == Append(a, b)
             t == Assemble(a, b)
         IN  /\ t \in Seq(Bytes) /\ Suffix(t, s)
             /\ Len(a) >= 6 => t = s
             /\ Len(a) < 6 =>
                  /\ Len(t) <= 6
                  /\ Len(t) \in 1 .. 5 => Begins(t, Len(t))
                  /\ Len(t) = 6 => Len(a) = 5 /\ HeaderOk(t)
                  /\ Len(t) # 6 =>
                       \A k \in 1 .. 5 : Begins(s, k) => k <= Len(t)
<1> DEFINE s == Append(a, b)
           u == FromMagic(s)
           v == FromMagic(Tail(u))
           t == Assemble(a, b)
<1>1. s \in Seq(Bytes) /\ Len(s) = Len(a) + 1 /\ Len(a) \in Nat
  OBVIOUS
<1>2. Suffix(s, s)
  BY <1>1 DEF Suffix
<1>3. CASE Len(a) >= 6
  <2>1. t = s
    BY <1>1, <1>3 DEF Assemble, HeaderBytes
  <2> QED
    BY <1>1, <1>2, <1>3, <2>1
<1>4. CASE Len(a) < 6
  <2>1. Len(s) <= 6
    BY <1>1, <1>4
  <2>2. t = IF Len(u) = 6 /\ ~HeaderOk(u) THEN v ELSE u
    BY <2>1, FrameFacts DEF Assemble
  <2> HIDE DEF s
  <2>3. /\ u \in Seq(Bytes) /\ Suffix(u, s)
        /\ Len(u) > 0 => Begins(u, Len(u))
        /\ \A k \in 1 .. Len(s) : Begins(s, k) => k <= Len(u)
    BY <1>1, <2>1, SearchKeeps
  <2> HIDE DEF u
  <2>4. \A k : Begins(s, k) => k \in 1 .. Len(s)
    BY DEF Begins
  <2>5. Len(u) \in Nat /\ Len(u) <= Len(s)
    BY <2>3 DEF Suffix
  <2>6. CASE ~(Len(u) = 6 /\ ~HeaderOk(u))
    <3>1. t = u
      BY <2>2, <2>6
    <3> HIDE DEF t
    <3>2. Len(t) \in 1 .. 5 => Begins(t, Len(t))
      BY <2>3, <3>1
    <3>3. \A k \in 1 .. 5 : Begins(s, k) => k <= Len(t)
      BY <2>3, <2>4, <3>1
    <3>4. Len(t) = 6 => Len(a) = 5 /\ HeaderOk(t)
      <4>1. Len(u) = 6 => Len(a) = 5
        <5>1. Len(u) = 6 => Len(a) + 1 >= 6
          BY <1>1, <2>5
        <5> QED
          BY <1>1, <1>4, <5>1, AroundSix, Zenon
      <4>2. Len(u) = 6 => HeaderOk(u)
        BY <2>6, Zenon
      <4> QED
        BY <3>1, <4>1, <4>2, Zenon
    <3> QED
      BY <1>4, <2>1, <2>3, <2>5, <3>1, <3>2, <3>3, <3>4 DEF s, t
  <2>7. CASE Len(u) = 6 /\ ~HeaderOk(u)
    <3>1. t = v
      BY <2>2, <2>7
    <3> HIDE DEF t
    <3>2. /\ Tail(u) \in Seq(Bytes) /\ Len(Tail(u)) = 5
          /\ Suffix(Tail(u), u)
      BY <2>3, <2>7, TailIsSuffix
    <3> DEFINE w == Tail(u)
    <3>9. w \in Seq(Bytes) /\ Len(w) = 5 /\ Suffix(w, u)
      BY <3>2
    <3> HIDE DEF w
    <3>8. v = FromMagic(w)
      BY DEF w
    <3> HIDE DEF v
    <3>3. /\ v \in Seq(Bytes) /\ Suffix(v, w)
          /\ Len(v) > 0 => Begins(v, Len(v))
          /\ \A k \in 1 .. Len(w) : Begins(w, k) => k <= Len(v)
      <4>1. Len(w) <= 6
        BY <3>9
      <4> QED
        BY <3>8, <3>9, <4>1, SearchKeeps, Zenon
    <3>4. Len(v) \in Nat /\ Len(v) <= 5 /\ Suffix(v, s)
      BY <1>1, <2>3, <2>5, <3>9, <3>3 DEF Suffix
    <3>5. ASSUME NEW k \in 1 .. 5, Begins(s, k) PROVE k <= Len(v)
      <4>1. k \in 1 .. Len(u) /\ k \in 1 .. Len(w)
        BY <2>7, <3>9
      <4>2. Begins(u, k)
        BY <1>1, <2>3, <3>5, <4>1, SuffixBegins
      <4>3. Begins(w, k)
        BY <2>3, <3>9, <4>1, <4>2, SuffixBegins
      <4> QED
        BY <3>3, <4>1, <4>3
    <3>6. /\ t \in Seq(Bytes) /\ Suffix(t, s) /\ Len(t) <= 6
          /\ Len(t) \in 1 .. 5 => Begins(t, Len(t))
          /\ Len(t) # 6
          /\ \A k \in 1 .. 5 : Begins(s, k) => k <= Len(t)
      BY <3>1, <3>3, <3>4, <3>5, AroundSix, Zenon
    <3> QED
      BY <1>4, <3>6 DEF s, t
  <2> QED
    BY <2>6, <2>7
<1> QED
  BY <1>1, <1>3, <1>4

(* Reassembly by the host keeps the buffer a sequence of bytes.            *)
LEMMA ReceiveTypes ==
  ASSUME assembly \in Seq(Bytes), delivered \in Seq(Shares),
         misread \in Nat, NEW b \in Bytes, Receive(b)
  PROVE  /\ assembly' \in Seq(Bytes) /\ delivered' \in Seq(Shares)
         /\ misread' \in Nat
<1>1. Assemble(assembly, b) \in Seq(Bytes)
  BY AssembleEffect
<1>2. <<>> \in Seq(Bytes)
  BY EmptyBuffer
<1>3. \A s \in Shares : Append(delivered, s) \in Seq(Shares)
  OBVIOUS
<1>4. misread' = misread \/ misread' = misread + 1
  BY Zenon DEF Receive
<1>5. misread' \in Nat
  BY <1>4
<1> QED
  BY <1>1, <1>2, <1>3, <1>5 DEF Receive

(* A buffer that is kept, or emptied, holds no whole frame.                *)
LEMMA BufferStays ==
  BufferOK /\ (assembly' = assembly \/ assembly' = <<>>) => BufferOK'
<1>1. BufferOK /\ assembly' = assembly => BufferOK'
  BY DEF BufferOK
<1>2. assembly' = <<>> => BufferOK'
  BY DEF BufferOK
<1> QED
  BY <1>1, <1>2

(* What a byte that arrives does to the host: its buffer becomes what was  *)
(* assembled, or was a frame but for this byte and is empty.               *)
LEMMA ReceiveEffect ==
  ASSUME assembly \in Seq(Bytes), BufferOK, NEW b \in Bytes, Receive(b)
  PROVE  LET t == Assemble(assembly, b)
         IN  /\ \/ /\ assembly' = t /\ delivered' = delivered
                   /\ Len(t) >= 6 => Len(t) < 8 + LengthOf(t)
                \/ /\ assembly' = <<>>
                   /\ Len(assembly) >= 6 /\ t = Append(assembly, b)
                   /\ Len(assembly) + 1 = 8 + LengthOf(assembly)
                   /\ \/ \E s \in Shares :
                            /\ IsShareFrame(t, s)
                            /\ delivered' = Append(delivered, s)
                      \/ /\ \A s \in Shares : ~IsShareFrame(t, s)
                         /\ delivered' = delivered
             /\ misread' = IF /\ Len(assembly) < 6 /\ Len(t) = 6
                              /\ LengthOf(t) > PayloadBytes
                           THEN misread + 1 ELSE misread
             /\ BufferOK'
<1> DEFINE t == Assemble(assembly, b)
           s == Append(assembly, b)
<1>1. /\ t \in Seq(Bytes)
      /\ Len(assembly) >= 6 => t = s
      /\ Len(assembly) < 6 =>
           /\ Len(t) <= 6
           /\ Len(t) \in 1 .. 5 => Begins(t, Len(t))
           /\ Len(t) = 6 => HeaderOk(t)
  BY AssembleEffect
<1>2. /\ misread' = IF Misreads(t) THEN misread + 1 ELSE misread
      /\ \/ ~Complete(t) /\ assembly' = t /\ delivered' = delivered
         \/ /\ Complete(t) /\ assembly' = <<>>
            /\ \/ \E x \in Shares : /\ IsShareFrame(t, x)
                                    /\ delivered' = Append(delivered, x)
               \/ /\ \A x \in Shares : ~IsShareFrame(t, x)
                  /\ delivered' = delivered
  BY Zenon DEF Receive
<1>3. Len(s) = Len(assembly) + 1 /\ Len(assembly) \in Nat
  OBVIOUS
<1>4. /\ Len(assembly) >= 6 => /\ LengthOf(assembly) \in Nat
                               /\ LengthOf(s) = LengthOf(assembly)
  BY LengthStays
<1> HIDE DEF t, s
<1>5. Len(t) \in Nat /\ (Len(t) >= 6 => LengthOf(t) \in Nat)
  BY <1>1, LengthStays
<1>6. misread' = IF /\ Len(assembly) < 6 /\ Len(t) = 6
                    /\ LengthOf(t) > PayloadBytes
                 THEN misread + 1 ELSE misread
  <2>1. Misreads(t) <=> /\ Len(assembly) < 6 /\ Len(t) = 6
                        /\ LengthOf(t) > PayloadBytes
    <3>1. /\ ~(Len(assembly) >= 6) <=> Len(assembly) < 6
          /\ Len(assembly) < 6 => (Len(t) >= 6 <=> Len(t) = 6)
      BY <1>1, <1>3, <1>5, AroundSix, Zenon
    <3> QED
      BY <3>1, FrameFacts, Zenon DEF Misreads, HasHeader
  <2> QED
    BY <1>2, <2>1, Zenon
<1>7. CASE ~Complete(t) /\ assembly' = t /\ delivered' = delivered
  <2>1. Len(t) >= 6 => Len(t) < 8 + LengthOf(t)
    BY <1>5, <1>7, FrameFacts DEF Complete, HasHeader
  <2>2. Len(t) >= 6 => LengthOf(t) <= MaxPayload
    <3>1. CASE Len(assembly) >= 6
      BY <1>1, <1>4, <3>1 DEF BufferOK
    <3>2. CASE Len(assembly) < 6
      BY <1>1, <1>5, <3>2, AroundSix DEF HeaderOk
    <3> QED
      BY <1>3, <3>1, <3>2
  <2>3. BufferOK'
    <3>1. Len(t) \in 1 .. 5 => Begins(t, Len(t))
      BY <1>1, <1>3
    <3> QED
      BY <1>7, <2>1, <2>2, <3>1 DEF BufferOK
  <2> QED
    BY <1>6, <1>7, <2>1, <2>3 DEF t
<1>8. CASE Complete(t) /\ assembly' = <<>>
  <2>1. Len(t) >= 6 /\ Len(t) >= 8 + LengthOf(t)
    BY <1>5, <1>8, FrameFacts DEF Complete, HasHeader
  <2>2. Len(assembly) >= 6 /\ t = s
    BY <1>1, <1>3, <1>5, <2>1
  <2>3. Len(assembly) + 1 = 8 + LengthOf(assembly)
    BY <1>3, <1>4, <2>1, <2>2 DEF BufferOK
  <2>4. BufferOK'
    <3>1. Len(assembly') = 0
      BY <1>8
    <3> QED
      BY <3>1 DEF BufferOK
  <2> QED
    BY <1>2, <1>6, <1>8, <2>2, <2>3, <2>4 DEF t, s
<1> QED
  BY <1>2, <1>7, <1>8

-----------------------------------------------------------------------------
(* Types.                                                                  *)

(* Types hold at the start.                                                 *)
LEMMA InitTypes == Init => TypeOK
<1> SUFFICES ASSUME Init PROVE TypeOK
  OBVIOUS
<1> USE DEF Init
<1>1. sync \in [1 .. 3 -> BOOLEAN]
  OBVIOUS
<1>4. byteIndex \in Positions
  BY DEF Positions
<1>2. assembly \in Seq(Bytes)
  OBVIOUS
<1>3. accepted \in Seq(Shares) /\ delivered \in Seq(Shares)
  OBVIOUS
<1> QED
  BY <1>1, <1>2, <1>3, <1>4 DEF TypeOK

(* A step of the byte index keeps the types of the JTAG side.               *)
LEMMA AdvanceTypes ==
  ASSUME TypeOK, AdvanceByte
  PROVE  /\ byteIndex' \in Positions /\ consumed' \in BOOLEAN
         /\ hadData' \in BOOLEAN /\ captured' \in BOOLEAN
         /\ word' \in Bytes \cup {NoData}
         /\ scanning' \in BOOLEAN /\ hostReady' \in BOOLEAN
<1>1. byteIndex' \in Positions
  <2>1. CASE hadData /\ LastByte
    BY <2>1 DEF AdvanceByte, Positions
  <2>2. CASE hadData /\ ~LastByte
    BY <2>2 DEF AdvanceByte, LastByte, TypeOK, Positions
  <2>3. CASE ~hadData
    BY <2>3 DEF AdvanceByte, TypeOK
  <2> QED
    BY <2>1, <2>2, <2>3
<1>2. consumed' \in BOOLEAN /\ captured' \in BOOLEAN
  BY Zenon DEF AdvanceByte, TypeOK
<1> QED
  BY <1>1, <1>2 DEF AdvanceByte, TypeOK

(* Every step keeps the types.                                              *)
LEMMA StepTypes == TypeOK /\ [Next]_vars => TypeOK'
<1> SUFFICES ASSUME TypeOK, [Next]_vars PROVE TypeOK'
  OBVIOUS
<1> USE DEF TypeOK, clkVars, jtagVars
<1>1. CASE ClkEdge
  <2>1. sync' \in [1 .. 3 -> BOOLEAN]
    BY <1>1 DEF ClkEdge
  <2>2. \A s \in Shares : Append(accepted, s) \in Seq(Shares)
    OBVIOUS
  <2> QED
    BY <1>1, <2>1, <2>2 DEF ClkEdge
<1>2. CASE StatusPoll
  BY <1>2 DEF StatusPoll
<1>3. CASE Capture
  <2>1. ByteSamples \subseteq Bytes
    BY BytesOfFrames DEF ByteSamples
  <2>2. Samples \subseteq BOOLEAN
    BY DEF Samples
  <2>3. hadData' \in BOOLEAN /\ captured' \in BOOLEAN
    BY <1>3, <2>2, Zenon DEF Capture
  <2>4. word' \in Bytes \cup {NoData}
    BY <1>3, <2>1 DEF Capture
  <2>5. torn' \in Nat
    BY <1>3 DEF Capture
  <2> QED
    BY <1>3, <2>3, <2>4, <2>5 DEF Capture
<1>4. CASE ShiftByte
  <2>1. /\ assembly' \in Seq(Bytes) /\ delivered' \in Seq(Shares)
        /\ misread' \in Nat
    BY <1>4, ReceiveTypes DEF ShiftByte
  <2> QED
    BY <1>4, <2>1, AdvanceTypes DEF ShiftByte
<1>5. CASE AbortScan
  BY <1>5 DEF AbortScan
<1>6. CASE LoseByte
  <2>1. assembly' \in Seq(Bytes)
    BY <1>6, EmptyBuffer DEF LoseByte
  <2> QED
    BY <1>6, <2>1, AdvanceTypes DEF LoseByte, Disturb
<1>7. CASE HostRestarts
  <2>1. assembly' \in Seq(Bytes) /\ hostReady' \in BOOLEAN
    BY <1>7, EmptyBuffer DEF HostRestarts
  <2>2. failures' \in Nat
    BY <1>7 DEF HostRestarts, Disturb
  <2> QED
    BY <1>7, <2>1, <2>2 DEF HostRestarts
<1>8. CASE UNCHANGED vars
  BY <1>8 DEF vars
<1> QED
  BY <1>1, <1>2, <1>3, <1>4, <1>5, <1>6, <1>7, <1>8 DEF Next

(* Every variable of the mailbox keeps its type.                           *)
THEOREM MailboxTypes == Spec => []TypeOK
  BY InitTypes, StepTypes, PTL DEF Spec
-----------------------------------------------------------------------------
(* The handshake, for any host.                                            *)

(* While a share is out, the miner's side of the synchroniser shows the    *)
(* old value of the consumed toggle; once it is taken, the new value       *)
(* passes from flip-flop to flip-flop.  Frame reading is confined to the   *)
(* time in between, and after the first byte the captured toggle is the    *)
(* one of the frame being read.                                            *)
Outstanding ==
  produced # consumed => \A i \in 1 .. 3 : sync[i] = consumed
Returning ==
  produced = consumed => /\ sync[3] = produced => sync[2] = produced
                         /\ sync[2] = produced => sync[1] = produced
ReadingIsOutstanding ==
  byteIndex > 0 \/ hadData \/ settling => produced # consumed
SettlesAtFirstByte == settling => byteIndex = 0 /\ ~hadData
CapturedIsProduced == hadData /\ byteIndex > 0 => captured = produced

Handshake ==
  /\ TypeOK
  /\ Outstanding /\ Returning /\ ReadingIsOutstanding
  /\ SettlesAtFirstByte /\ CapturedIsProduced

(* The handshake holds at the start.                                        *)
LEMMA InitHandshake == Init => Handshake
<1> SUFFICES ASSUME Init PROVE Handshake
  OBVIOUS
<1>1. produced = consumed /\ \A i \in 1 .. 3 : sync[i] = produced
  BY DEF Init
<1>2. Outstanding /\ Returning
  BY <1>1 DEF Outstanding, Returning
<1>3. ReadingIsOutstanding /\ SettlesAtFirstByte /\ CapturedIsProduced
  BY DEF Init, ReadingIsOutstanding, SettlesAtFirstByte, CapturedIsProduced
<1> QED
  BY <1>2, <1>3, InitTypes DEF Handshake

(* The byte that completes a frame hands back the toggle of that frame;    *)
(* any other shift leaves the handshake as it was.                         *)
LEMMA AdvanceHandshake ==
  ASSUME Handshake, AdvanceByte, TypeOK', UNCHANGED <<clkVars, settling>>
  PROVE  Handshake'
<1> USE DEF Handshake, TypeOK, clkVars
<1>1. CASE hadData /\ LastByte
  <2>1. consumed' = produced /\ byteIndex' = 0 /\ ~hadData'
    BY <1>1 DEF AdvanceByte, LastByte, CapturedIsProduced
  <2>2. \A i \in 1 .. 3 : sync[i] # produced
    BY <1>1 DEF ReadingIsOutstanding, Outstanding
  <2>3. ~settling
    BY <1>1 DEF SettlesAtFirstByte
  <2> QED
    BY <2>1, <2>2, <2>3 DEF Outstanding, Returning, ReadingIsOutstanding,
       SettlesAtFirstByte, CapturedIsProduced
<1>2. CASE hadData /\ ~LastByte
  <2>1. consumed' = consumed /\ ~hadData' /\ captured' = captured
    BY <1>2 DEF AdvanceByte
  <2>2. ~settling /\ produced # consumed
    BY <1>2 DEF SettlesAtFirstByte, ReadingIsOutstanding
  <2> QED
    BY <2>1, <2>2 DEF Outstanding, Returning, ReadingIsOutstanding,
       SettlesAtFirstByte, CapturedIsProduced
<1>3. CASE ~hadData
  <2>1. UNCHANGED <<consumed, byteIndex, hadData, captured>>
    BY <1>3 DEF AdvanceByte
  <2> QED
    BY <2>1 DEF Outstanding, Returning, ReadingIsOutstanding,
       SettlesAtFirstByte, CapturedIsProduced
<1> QED
  BY <1>1, <1>2, <1>3

(* And every step of every host keeps it.                                   *)
LEMMA StepHandshake == Handshake /\ [Next]_vars => Handshake'
<1> SUFFICES ASSUME Handshake, [Next]_vars PROVE Handshake'
  OBVIOUS
<1>0. TypeOK'
  BY StepTypes DEF Handshake
<1>1. CASE ClkEdge
  <2> USE DEF Handshake, TypeOK, jtagVars
  <2>1. /\ UNCHANGED <<consumed, byteIndex, hadData, captured>>
        /\ sync'[1] = consumed /\ sync'[2] = sync[1] /\ sync'[3] = sync[2]
    BY <1>1 DEF ClkEdge
  <2>2. CASE ShareReady /\ produced' = ~produced /\ settling'
    <3>1. produced = consumed /\ byteIndex = 0 /\ ~hadData
      BY <2>2 DEF ShareReady, Ready, Outstanding, ReadingIsOutstanding,
         Positions
    <3>2. \A i \in 1 .. 3 : sync[i] = consumed
      <4>1. sync[3] = produced /\ sync[2] = produced /\ sync[1] = produced
        BY <2>2, <3>1 DEF ShareReady, Ready, Returning
      <4> QED
        BY <3>1, <4>1
    <3> QED
      BY <1>0, <2>1, <2>2, <3>1, <3>2 DEF Outstanding, Returning,
         ReadingIsOutstanding, SettlesAtFirstByte, CapturedIsProduced
  <2>3. CASE produced' = produced /\ ~settling'
    <3>1. Outstanding' /\ Returning'
      BY <2>1, <2>3 DEF Outstanding, Returning
    <3> QED
      BY <1>0, <2>1, <2>3, <3>1 DEF ReadingIsOutstanding,
         SettlesAtFirstByte, CapturedIsProduced
  <2> QED
    BY <1>1, <2>2, <2>3 DEF ClkEdge
<1>2. CASE StatusPoll
  BY <1>0, <1>2 DEF StatusPoll, Handshake, clkVars, jtagVars, Outstanding,
     Returning, ReadingIsOutstanding, SettlesAtFirstByte, CapturedIsProduced
<1>3. CASE Capture
  <2> USE DEF Handshake, TypeOK, clkVars
  <2>1. ~settling' /\ UNCHANGED <<produced, consumed, sync, byteIndex>>
    BY <1>3 DEF Capture
  <2>2. hadData' => produced # consumed
    BY <1>3 DEF Capture, Samples, ReadingIsOutstanding
  <2>3. byteIndex > 0 => captured' = produced
    BY <1>3 DEF Capture, Samples, SettlesAtFirstByte
  <2> QED
    BY <1>0, <2>1, <2>2, <2>3 DEF Outstanding, Returning,
       ReadingIsOutstanding, SettlesAtFirstByte, CapturedIsProduced
<1>4. CASE ShiftByte
  BY <1>0, <1>4, AdvanceHandshake DEF ShiftByte
<1>5. CASE AbortScan
  BY <1>0, <1>5 DEF AbortScan, Handshake, clkVars, Outstanding,
     Returning, ReadingIsOutstanding, SettlesAtFirstByte, CapturedIsProduced
<1>6. CASE LoseByte
  BY <1>0, <1>6, AdvanceHandshake DEF LoseByte
<1>7. CASE HostRestarts
  BY <1>0, <1>7 DEF HostRestarts, Handshake, clkVars, jtagVars, Outstanding,
     Returning, ReadingIsOutstanding, SettlesAtFirstByte, CapturedIsProduced
<1>8. CASE UNCHANGED vars
  BY <1>0, <1>8 DEF vars, Handshake, clkVars, jtagVars, Outstanding,
     Returning, ReadingIsOutstanding, SettlesAtFirstByte, CapturedIsProduced
<1> QED
  BY <1>1, <1>2, <1>3, <1>4, <1>5, <1>6, <1>7, <1>8 DEF Next

(* So it always holds.                                                      *)
LEMMA AlwaysHandshake == Spec => []Handshake
  BY InitHandshake, StepHandshake, PTL DEF Spec

(* Under every host, the miner's side never touches the frame and its      *)
(* toggle while a byte of it has been read or is being read.               *)
THEOREM MailboxNoOverwrite == Spec => NoOverwrite
<1>1. ASSUME Handshake, [Next]_vars, byteIndex > 0 \/ hadData
      PROVE  UNCHANGED <<frame, produced>>
  <2> USE DEF clkVars, jtagVars
  <2>1. CASE ClkEdge
    <3>1. ~ShareReady
      BY <1>1 DEF Handshake, TypeOK, ShareReady, Ready, Outstanding,
         ReadingIsOutstanding
    <3> QED
      BY <2>1, <3>1 DEF ClkEdge
  <2>2. CASE ~ClkEdge
    BY <1>1, <2>2 DEF Next, vars, StatusPoll, Capture, ShiftByte, AbortScan,
       LoseByte, HostRestarts
  <2> QED
    BY <2>1, <2>2
<1>2. Handshake /\ [Next]_vars
        => [byteIndex > 0 \/ hadData => UNCHANGED <<frame, produced>>]_clkVars
  BY <1>1
<1> QED
  BY <1>2, AlwaysHandshake, PTL DEF Spec, NoOverwrite
-----------------------------------------------------------------------------
(* With a host that polls first and loses nothing, the mailbox is a        *)
(* ShareSlot.                                                              *)

ReliableHost == StatusFirst /\ ~MayFail

(* The host scans only when a settled frame is out, what it shifts in is   *)
(* the next byte of that frame, and what it has assembled is the frame up  *)
(* to there; the frame is exactly what the host still lacks.               *)
ScansSettled == hostReady \/ scanning => produced # consumed /\ ~settling
ShiftsNextByte == scanning => hadData /\ word = Byte(frame, byteIndex)
AssembledSoFar ==
  /\ Len(assembly) = byteIndex
  /\ \A i \in 1 .. byteIndex : assembly[i] = Byte(frame, i - 1)
FrameIsMissing ==
  /\ produced # consumed => /\ frame \in Shares
                            /\ accepted = Append(delivered, frame)
  /\ produced = consumed => accepted = delivered

Transfer ==
  /\ Handshake /\ ScansSettled /\ ShiftsNextByte /\ AssembledSoFar
  /\ FrameIsMissing

(* At the start nothing is in flight.                                       *)
LEMMA InitTransfer == Init => Transfer
<1> SUFFICES ASSUME Init PROVE Transfer
  OBVIOUS
<1>1. ScansSettled /\ ShiftsNextByte /\ FrameIsMissing
  BY DEF Init, ScansSettled, ShiftsNextByte, FrameIsMissing
<1>2. AssembledSoFar
  BY DEF Init, AssembledSoFar
<1> QED
  BY <1>1, <1>2, InitHandshake DEF Transfer

(* The header of a frame announces a share.                                *)
LEMMA HeaderAnnounces ==
  ASSUME NEW f \in Shares, NEW s, \A i \in 1 .. 6 : s[i] = Byte(f, i - 1)
  PROVE  /\ HeaderOk(s) /\ LengthOf(s) = PayloadBytes
         /\ Value[s[4]] = FRAME_SHARE
         /\ IsMagic(s[1], 0) /\ IsMagic(s[2], 1)
<1>0. f # Zero
  BY SentinelAssumption
<1>1. \A i \in 1 .. 6 : s[i] = [pos |-> i - 1, of |-> Header]
  BY <1>0 DEF Byte
<1>2. /\ s[1] = [pos |-> 0, of |-> Header]
      /\ s[2] = [pos |-> 1, of |-> Header]
      /\ s[3] = [pos |-> 2, of |-> Header]
      /\ s[4] = [pos |-> 3, of |-> Header]
      /\ s[5] = [pos |-> 4, of |-> Header]
      /\ s[6] = [pos |-> 5, of |-> Header]
  BY <1>1
<1>3. /\ Value[s[3]] = FRAME_VERSION /\ Value[s[4]] = FRAME_SHARE
      /\ Value[s[5]] = PayloadBytes /\ Value[s[6]] = 0
  BY <1>2, ValueAssumption
<1>4. LengthOf(s) = PayloadBytes
  <2>1. \A x \in Nat : PayloadBytes + x * 0 = PayloadBytes
    OBVIOUS
  <2> QED
    BY <1>3, <2>1, FrameAssumption DEF LengthOf
<1> QED
  BY <1>2, <1>3, <1>4, FrameAssumption DEF HeaderOk, IsMagic

(* One more byte of the frame, and the reassembly holds one more byte of   *)
(* it: the magic is found where it is, and nothing is thrown away.         *)
LEMMA AssembleNextByte ==
  ASSUME TypeOK, AssembledSoFar,
         frame \in Shares, word = Byte(frame, byteIndex)
  PROVE  LET buffer == Assemble(assembly, word)
         IN  /\ buffer \in Seq(Bytes) /\ Len(buffer) = byteIndex + 1
             /\ \A i \in 1 .. byteIndex + 1 : buffer[i] = Byte(frame, i - 1)
<1> USE DEF TypeOK
<1> DEFINE s == Append(assembly, word)
<1>1. frame # Zero /\ word \in Bytes
  BY BytesOfFrames, SentinelAssumption
<1>2. s \in Seq(Bytes) /\ Len(s) = byteIndex + 1
  BY <1>1 DEF AssembledSoFar
<1>3. \A i \in 1 .. byteIndex + 1 : s[i] = Byte(frame, i - 1)
  BY <1>1 DEF AssembledSoFar, Positions
<1>4. byteIndex \in Nat
  BY DEF Positions
<1>5. Assemble(assembly, word) = s
  <2> HIDE DEF s
  <2>1. FromMagic(s) = s
    <3>1. IsMagic(s[1], 0) /\ (1 < Len(s) => IsMagic(s[2], 1))
      BY <1>1, <1>2, <1>3, <1>4 DEF IsMagic, Byte
    <3>2. 1 \in Starts(s) /\ Starts(s) \subseteq 1 .. Len(s)
      BY <1>2, <1>4, <3>1 DEF Starts
    <3>3. \A y \in Starts(s) : 1 <= y
      BY <1>2, <1>4, <3>2
    <3>4. \E x \in Starts(s) : \A y \in Starts(s) : x <= y
      BY <3>2, <3>3
    <3> DEFINE m == Min(Starts(s))
    <3>5. m \in Starts(s) /\ \A y \in Starts(s) : m <= y
      BY <3>4, Zenon DEF Min
    <3> HIDE DEF m
    <3>6. m = 1
      BY <1>2, <1>4, <3>2, <3>5
    <3>7. FromMagic(s) = SubSeq(s, 1, Len(s))
      BY <3>2, <3>6 DEF FromMagic, m
    <3> QED
      BY <1>2, <3>7
  <2>2. Len(s) = 6 => HeaderOk(s)
    <3> SUFFICES ASSUME Len(s) = 6 PROVE HeaderOk(s)
      OBVIOUS
    <3>1. \A i \in 1 .. 6 : s[i] = Byte(frame, i - 1)
      BY <1>2, <1>3, <1>4
    <3> QED
      BY <3>1, HeaderAnnounces
  <2>3. Assemble(assembly, word)
          = IF Len(s) = 6 /\ ~HeaderOk(s) THEN FromMagic(Tail(s)) ELSE s
    BY <2>1, FrameFacts DEF Assemble, s
  <2> QED
    BY <2>2, <2>3, Zenon
<1> HIDE DEF s
<1> QED
  BY <1>2, <1>3, <1>5

(* A frame read in step is complete with its last byte, and accepted for   *)
(* its own share and for no other.                                         *)
LEMMA FrameInStep ==
  ASSUME NEW f \in Shares, NEW buffer, Len(buffer) \in 1 .. FrameBytes,
         \A i \in 1 .. Len(buffer) : buffer[i] = Byte(f, i - 1)
  PROVE  /\ Complete(buffer) <=> Len(buffer) = FrameBytes
         /\ Len(buffer) >= 6 => LengthOf(buffer) = PayloadBytes
         /\ Len(buffer) = FrameBytes =>
              /\ IsShareFrame(buffer, f)
              /\ \A s \in Shares : IsShareFrame(buffer, s) => s = f
<1> DEFINE n == Len(buffer)
<1>1. n \in 1 .. FrameBytes /\ \A i \in 1 .. n : buffer[i] = Byte(f, i - 1)
  OBVIOUS
<1>2. n >= 6 => /\ LengthOf(buffer) = PayloadBytes
                /\ Value[buffer[4]] = FRAME_SHARE
  <2>1. n >= 6 => \A i \in 1 .. 6 : buffer[i] = Byte(f, i - 1)
    BY <1>1
  <2> QED
    BY <2>1, HeaderAnnounces
<1> HIDE DEF n
<1>3. Complete(buffer) <=> n = FrameBytes
  <2>1. Complete(buffer) <=> n >= 6 /\ n >= 6 + PayloadBytes + 2
    BY <1>2, FrameFacts DEF Complete, HasHeader, n
  <2> QED
    BY <1>1, <2>1
<1>4. ASSUME n = FrameBytes
      PROVE  /\ IsShareFrame(buffer, f)
             /\ \A s \in Shares : IsShareFrame(buffer, s) => s = f
  <2>1. CrcPasses(buffer, f)
    BY <1>1, <1>4 DEF CrcPasses
  <2>2. n >= 6
    BY <1>4
  <2>3. ASSUME NEW s \in Shares, CrcPasses(buffer, s) PROVE s = f
    <3>1. 7 \in 7 .. FrameBytes /\ 7 \in 1 .. n /\ 7 - 1 = 6 /\ 6 + 1 = 7
      BY <1>4
    <3>2. buffer[7] = Byte(s, 6) /\ buffer[7] = Byte(f, 6)
      BY <1>1, <2>3, <3>1, FrameFacts DEF CrcPasses
    <3>3. Byte(s, 6).of = s /\ Byte(f, 6).of = f
      BY FrameFacts DEF Byte
    <3> QED
      BY <3>2, <3>3
  <2> QED
    BY <1>2, <2>1, <2>2, <2>3 DEF IsShareFrame
<1> QED
  BY <1>2, <1>3, <1>4 DEF n

(* A shift either adds a byte or completes the frame and gives the host    *)
(* the one share it lacked.                                                *)
LEMMA ShiftTransfer ==
  ASSUME Transfer, ShiftByte
  PROVE  \/ /\ byteIndex' = byteIndex + 1 /\ consumed' = consumed
            /\ delivered' = delivered
            /\ assembly' = Assemble(assembly, word)
         \/ /\ byteIndex' = 0 /\ consumed' = produced
            /\ delivered' = accepted /\ assembly' = <<>>
<1> USE DEF Transfer, Handshake, TypeOK
<1> DEFINE buffer == Assemble(assembly, word)
<1>1. /\ scanning /\ hadData /\ produced # consumed
      /\ frame \in Shares /\ accepted = Append(delivered, frame)
  BY DEF ShiftByte, ScansSettled, ShiftsNextByte, FrameIsMissing
<1>2. /\ Len(buffer) = byteIndex + 1
      /\ \A i \in 1 .. byteIndex + 1 : buffer[i] = Byte(frame, i - 1)
  BY <1>1, AssembleNextByte DEF ShiftsNextByte
<1>3. Receive(word)
  <2>1. word \in Bytes
    BY <1>1, BytesOfFrames DEF ShiftsNextByte
  <2>2. word # NoData
    BY <2>1, NoDataAssumption
  <2> QED
    BY <2>2 DEF ShiftByte
<1>4. /\ Complete(buffer) <=> Len(buffer) = FrameBytes
      /\ Len(buffer) = FrameBytes =>
           /\ IsShareFrame(buffer, frame)
           /\ \A s \in Shares : IsShareFrame(buffer, s) => s = frame
  <2>1. /\ Len(buffer) \in 1 .. FrameBytes
        /\ \A i \in 1 .. Len(buffer) : buffer[i] = Byte(frame, i - 1)
    BY <1>2 DEF Positions
  <2> HIDE DEF buffer
  <2> QED
    BY <1>1, <2>1, FrameInStep
<1>5. CASE LastByte
  <2>1. byteIndex' = 0 /\ consumed' = produced
    BY <1>1, <1>5 DEF ShiftByte, AdvanceByte, LastByte, CapturedIsProduced
  <2>2. /\ Complete(buffer) /\ IsShareFrame(buffer, frame)
        /\ \A s \in Shares : IsShareFrame(buffer, s) => s = frame
    <3>1. Len(buffer) = FrameBytes
      BY <1>2, <1>5 DEF LastByte
    <3> QED
      BY <1>4, <3>1, Zenon
  <2>3. assembly' = <<>> /\ delivered' = Append(delivered, frame)
    BY <1>1, <1>3, <2>2, Zenon DEF Receive
  <2> QED
    BY <1>1, <2>1, <2>3
<1>6. CASE ~LastByte
  <2>1. byteIndex' = byteIndex + 1 /\ consumed' = consumed
    BY <1>1, <1>6 DEF ShiftByte, AdvanceByte
  <2>2. ~Complete(buffer)
    <3>1. Len(buffer) # FrameBytes
      BY <1>2, <1>6 DEF LastByte, Positions
    <3> QED
      BY <1>4, <3>1, Zenon
  <2>3. assembly' = buffer /\ delivered' = delivered
    BY <1>3, <2>2, Zenon DEF Receive
  <2> QED
    BY <2>1, <2>3
<1> QED
  BY <1>5, <1>6

(* With a reliable host every step keeps the account of what is in flight.  *)
LEMMA StepTransfer ==
  ReliableHost /\ Transfer /\ [Next]_vars => Transfer'
<1> SUFFICES ASSUME ReliableHost, Transfer, [Next]_vars PROVE Transfer'
  OBVIOUS
<1>0. Handshake'
  BY StepHandshake DEF Transfer
<1> USE DEF Transfer, Handshake, TypeOK
<1>1. CASE ClkEdge
  <2>1. UNCHANGED <<jtagVars, hostReady, assembly, delivered>>
    BY <1>1 DEF ClkEdge
  <2>2. CASE /\ ShareReady /\ produced' = ~produced /\ settling'
             /\ \E s \in Shares : /\ frame' = s
                                  /\ accepted' = Append(accepted, s)
    <3>1. /\ produced = consumed /\ byteIndex = 0
          /\ ~scanning /\ ~hostReady
      BY <2>2 DEF ShareReady, Ready, Outstanding, ReadingIsOutstanding,
         Positions, ScansSettled
    <3>2. FrameIsMissing' /\ ScansSettled' /\ ShiftsNextByte'
      BY <2>1, <2>2, <3>1 DEF jtagVars, FrameIsMissing, ScansSettled,
         ShiftsNextByte
    <3>3. AssembledSoFar'
      BY <2>1, <3>1 DEF jtagVars, AssembledSoFar
    <3> QED
      BY <1>0, <3>2, <3>3
  <2>3. CASE ~settling' /\ UNCHANGED <<frame, produced, accepted>>
    BY <1>0, <2>1, <2>3 DEF jtagVars, FrameIsMissing, ScansSettled,
       ShiftsNextByte, AssembledSoFar, Byte
  <2> QED
    BY <1>1, <2>2, <2>3 DEF ClkEdge
<1>2. CASE StatusPoll
  <2>1. /\ UNCHANGED <<clkVars, jtagVars, assembly, accepted, delivered>>
        /\ ~settling' /\ ~scanning
    BY <1>2 DEF StatusPoll
  <2>2. hostReady' => produced # consumed
    BY <1>2 DEF StatusPoll, Samples, ReadingIsOutstanding
  <2> QED
    BY <1>0, <2>1, <2>2 DEF clkVars, jtagVars, FrameIsMissing, ScansSettled,
       ShiftsNextByte, AssembledSoFar, Byte
<1>3. CASE Capture
  <2>1. /\ UNCHANGED <<clkVars, consumed, byteIndex, assembly, accepted,
                       delivered>>
        /\ hostReady' = hostReady /\ ~settling'
    BY <1>3 DEF Capture
  <2>2. hostReady /\ produced # consumed /\ ~settling
    BY <1>3 DEF Capture, ReliableHost, ScansSettled
  <2>3. hadData' /\ word' = Byte(frame, byteIndex)
    BY <1>3, <2>2 DEF Capture, Samples, ByteSamples
  <2> QED
    BY <1>0, <2>1, <2>2, <2>3 DEF clkVars, FrameIsMissing, ScansSettled,
       ShiftsNextByte, AssembledSoFar, Byte
<1>4. CASE ShiftByte
  <2>1. /\ UNCHANGED <<clkVars, settling, accepted>>
        /\ ~scanning' /\ ~hostReady' /\ scanning
    BY <1>4 DEF ShiftByte, AdvanceByte
  <2>2. CASE /\ byteIndex' = byteIndex + 1 /\ consumed' = consumed
             /\ delivered' = delivered
             /\ assembly' = Assemble(assembly, word)
    <3>0. frame \in Shares /\ word = Byte(frame, byteIndex)
      BY <2>1 DEF ScansSettled, ShiftsNextByte, FrameIsMissing
    <3>1. AssembledSoFar'
      BY <2>1, <2>2, <3>0, AssembleNextByte
         DEF clkVars, AssembledSoFar, Byte
    <3>2. FrameIsMissing' /\ ScansSettled' /\ ShiftsNextByte'
      BY <2>1, <2>2 DEF clkVars, FrameIsMissing, ScansSettled, ShiftsNextByte
    <3> QED
      BY <1>0, <3>1, <3>2
  <2>3. CASE /\ byteIndex' = 0 /\ consumed' = produced
             /\ delivered' = accepted /\ assembly' = <<>>
    BY <1>0, <2>1, <2>3 DEF clkVars, AssembledSoFar, FrameIsMissing,
       ScansSettled, ShiftsNextByte
  <2> QED
    BY <1>4, <2>2, <2>3, ShiftTransfer
<1>5. CASE AbortScan
  BY <1>0, <1>5 DEF AbortScan, clkVars, FrameIsMissing, ScansSettled,
     ShiftsNextByte, AssembledSoFar, Byte
<1>6. CASE LoseByte
  BY <1>6 DEF LoseByte, Disturb, ReliableHost
<1>7. CASE HostRestarts
  BY <1>7 DEF HostRestarts, Disturb, ReliableHost
<1>8. CASE UNCHANGED vars
  BY <1>0, <1>8 DEF vars, clkVars, jtagVars, FrameIsMissing, ScansSettled,
     ShiftsNextByte, AssembledSoFar, Byte
<1> QED
  BY <1>1, <1>2, <1>3, <1>4, <1>5, <1>6, <1>7, <1>8 DEF Next

(* The clk edge that accepts a share is the Put of the slot, the shift     *)
(* that completes a frame is its Take, and every other step stutters.      *)
LEMMA StepImplementsSlot ==
  ReliableHost /\ Transfer /\ [Next]_vars => [Slot!Next]_(Slot!vars)
<1> SUFFICES ASSUME ReliableHost, Transfer, [Next]_vars
             PROVE  [Slot!Next]_(Slot!vars)
  OBVIOUS
<1> USE DEF Slot!vars
<1>1. CASE ClkEdge
  <2>1. delivered' = delivered
    BY <1>1 DEF ClkEdge
  <2>2. CASE accepted' = accepted
    BY <2>1, <2>2
  <2>3. ASSUME ShareReady,
               NEW s \in Shares, accepted' = Append(accepted, s)
        PROVE  Slot!Next
    <3>1. accepted = delivered
      BY <2>3 DEF Transfer, Handshake, TypeOK, ShareReady, Ready,
         Outstanding, FrameIsMissing
    <3> QED
      BY <2>1, <2>3, <3>1 DEF Slot!Next, Slot!Put
  <2> QED
    BY <1>1, <2>2, <2>3 DEF ClkEdge
<1>2. CASE ShiftByte
  <2>1. accepted' = accepted
    BY <1>2 DEF ShiftByte
  <2>2. CASE delivered' = delivered
    BY <2>1, <2>2
  <2>3. CASE delivered' = accepted
    BY <2>1, <2>3 DEF Slot!Next, Slot!Take
  <2> QED
    BY <1>2, <2>2, <2>3, ShiftTransfer
<1>3. CASE ~ClkEdge /\ ~ShiftByte
  BY <1>3 DEF ReliableHost, Next, vars, StatusPoll, Capture, AbortScan,
     LoseByte, HostRestarts, Disturb
<1> QED
  BY <1>1, <1>2, <1>3

(* The mailbox with a polling, loss-free host implements the one-share     *)
(* channel: nothing lost, repeated, reordered or torn.                     *)
THEOREM MailboxImplementsSlot == ReliableHost => (Spec => ImplementsSlot)
<1> SUFFICES ASSUME ReliableHost PROVE Spec => ImplementsSlot
  OBVIOUS
<1>1. Init => Slot!Init
  BY DEF Init, Slot!Init
<1>2. Transfer /\ [Next]_vars => Transfer'
  BY StepTransfer
<1>3. Transfer /\ [Next]_vars => [Slot!Next]_(Slot!vars)
  BY StepImplementsSlot
<1> QED
  BY <1>1, <1>2, <1>3, InitTransfer, PTL DEF Spec, ImplementsSlot, Slot!Spec

-----------------------------------------------------------------------------
(* Any host, with answers lost, restarts and torn captures: the order.     *)

(* The shares of d are shares of a, in its order and among its first n.    *)
Picked(d, a, n) ==
  \E f \in [1 .. Len(d) -> 1 .. n] :
    /\ \A i \in 1 .. Len(d) : d[i] = a[f[i]]
    /\ \A i, j \in 1 .. Len(d) : i < j => f[i] < f[j]

(* A longer sequence to pick from changes nothing.                         *)
LEMMA PickedFromMore ==
  ASSUME NEW d \in Seq(Shares), NEW a \in Seq(Shares), NEW s \in Shares,
         Picked(d, a, Len(a))
  PROVE  Picked(d, Append(a, s), Len(a))
<1>1. \A i \in 1 .. Len(a) : Append(a, s)[i] = a[i]
  OBVIOUS
<1> QED
  BY <1>1 DEF Picked

(* The one after those picked from may be picked next.                     *)
LEMMA PickedNext ==
  ASSUME NEW d \in Seq(Shares), NEW a \in Seq(Shares), NEW n \in Nat,
         n < Len(a), Picked(d, a, n)
  PROVE  Picked(d, a, n + 1) /\ Picked(Append(d, a[n + 1]), a, n + 1)
<1>1. PICK f \in [1 .. Len(d) -> 1 .. n] :
        /\ \A i \in 1 .. Len(d) : d[i] = a[f[i]]
        /\ \A i, j \in 1 .. Len(d) : i < j => f[i] < f[j]
  BY DEF Picked
<1>2. Picked(d, a, n + 1)
  <2>1. f \in [1 .. Len(d) -> 1 .. n + 1]
    OBVIOUS
  <2> QED
    BY <1>1, <2>1 DEF Picked
<1>3. Picked(Append(d, a[n + 1]), a, n + 1)
  <2> DEFINE e == Append(d, a[n + 1])
             g == [i \in 1 .. Len(d) + 1 |->
                     IF i = Len(d) + 1 THEN n + 1 ELSE f[i]]
  <2>1. /\ Len(e) = Len(d) + 1 /\ e[Len(d) + 1] = a[n + 1]
        /\ \A i \in 1 .. Len(d) : e[i] = d[i]
    OBVIOUS
  <2>2. g \in [1 .. Len(d) + 1 -> 1 .. n + 1]
    OBVIOUS
  <2>3. \A i \in 1 .. Len(d) + 1 : e[i] = a[g[i]]
    BY <1>1, <2>1
  <2>4. \A i, j \in 1 .. Len(d) + 1 : i < j => g[i] < g[j]
    <3> SUFFICES ASSUME NEW i \in 1 .. Len(d) + 1,
                        NEW j \in 1 .. Len(d) + 1, i < j
                 PROVE  g[i] < g[j]
      OBVIOUS
    <3>1. i \in 1 .. Len(d) /\ g[i] = f[i] /\ f[i] \in 1 .. n
      OBVIOUS
    <3>2. CASE j = Len(d) + 1
      BY <3>1, <3>2
    <3>3. CASE j \in 1 .. Len(d)
      BY <1>1, <3>1, <3>3
    <3> QED
      BY <3>2, <3>3
  <2> HIDE DEF e, g
  <2>5. Picked(e, a, n + 1)
    BY <2>1, <2>2, <2>3, <2>4 DEF Picked
  <2> QED
    BY <2>5 DEF e
<1> QED
  BY <1>2, <1>3

(* The share that is out is the last that was accepted; past the first     *)
(* byte a scan shows a byte of its frame or nothing, and at the first byte *)
(* no other position; what was delivered are shares that are no longer     *)
(* out.                                                                    *)
OutIsLast ==
  produced # consumed => accepted # <<>> /\ frame = accepted[Len(accepted)]
ScanIsTrue ==
  scanning =>
    IF hadData THEN word = Byte(frame, byteIndex) ELSE word = NoData
ScanShowsItsByte ==
  /\ byteIndex > 0 => ScanIsTrue
  /\ scanning /\ word # NoData => word.pos = byteIndex
NoLongerOut ==
  IF produced # consumed THEN Len(accepted) - 1 ELSE Len(accepted)
InOrder == Picked(delivered, accepted, NoLongerOut)

OrderInv ==
  /\ Handshake /\ OutIsLast /\ ScanShowsItsByte /\ BufferOK
  /\ InOrder

(* Nothing is accepted or delivered at the start.                           *)
LEMMA InitOrder == Init => OrderInv
<1> SUFFICES ASSUME Init PROVE OrderInv
  OBVIOUS
<1>1. OutIsLast /\ ScanShowsItsByte /\ BufferOK
  <2>1. produced = consumed /\ scanning = FALSE
    BY DEF Init
  <2>2. /\ ~(Len(assembly) \in 1 .. 5) /\ ~(Len(assembly) >= 6)
    BY DEF Init
  <2> QED
    BY <2>1, <2>2 DEF OutIsLast, ScanShowsItsByte, ScanIsTrue, BufferOK
<1>2. InOrder
  <2>1. /\ Len(delivered) = 0 /\ Len(accepted) = 0 /\ produced = consumed
    BY DEF Init
  <2>2. NoLongerOut = 0
    BY <2>1 DEF NoLongerOut
  <2>3. /\ [i \in 1 .. Len(delivered) |-> i]
             \in [1 .. Len(delivered) -> 1 .. NoLongerOut]
        /\ 1 .. Len(delivered) = {}
    BY <2>1, <2>2
  <2> QED
    BY <2>3 DEF InOrder, Picked
<1> QED
  BY <1>1, <1>2, InitHandshake DEF OrderInv

(* The miner is ready only when nothing is out and no byte is being read.  *)
LEMMA ReadyIsIdle ==
  ASSUME Handshake, ShareReady
  PROVE  produced = consumed /\ byteIndex = 0 /\ ~hadData /\ ~settling
  BY DEF Handshake, TypeOK, ShareReady, Ready, Outstanding,
     ReadingIsOutstanding, Positions

(* What a step of the byte index does: it completes the frame, goes on to  *)
(* the next byte, or there was nothing to read.                            *)
LEMMA AdvanceDoes ==
  ASSUME Handshake, AdvanceByte
  PROVE  /\ scanning' = FALSE /\ hadData' = FALSE
         /\ \/ /\ hadData /\ byteIndex = FrameBytes - 1 /\ byteIndex' = 0
               /\ produced # consumed /\ consumed' = produced
            \/ /\ hadData /\ byteIndex < FrameBytes - 1
               /\ byteIndex' = byteIndex + 1
               /\ produced # consumed /\ consumed' = consumed
            \/ /\ ~hadData /\ byteIndex' = byteIndex
               /\ consumed' = consumed
<1> USE DEF Handshake, TypeOK, ReadingIsOutstanding, Positions
<1>1. CASE hadData /\ LastByte
  BY <1>1 DEF AdvanceByte, LastByte, CapturedIsProduced
<1>2. CASE hadData /\ ~LastByte
  BY <1>2 DEF AdvanceByte, LastByte
<1>3. CASE ~hadData
  BY <1>3 DEF AdvanceByte
<1> QED
  BY <1>1, <1>2, <1>3

(* A share is delivered with the last byte of its own frame.               *)
LEMMA DeliversWhatIsOut ==
  ASSUME OrderInv, ShiftByte, delivered' # delivered
  PROVE  /\ hadData /\ byteIndex = FrameBytes - 1 /\ produced # consumed
         /\ delivered' = Append(delivered, accepted[Len(accepted)])
<1> USE DEF OrderInv, Handshake, TypeOK
<1> DEFINE buffer == Assemble(assembly, word)
<1>1. /\ scanning /\ word # NoData /\ word \in Bytes /\ Receive(word)
  BY DEF ShiftByte
<1>2. /\ Len(assembly) >= 6 /\ buffer = Append(assembly, word)
      /\ Len(assembly) + 1 = 8 + LengthOf(assembly)
      /\ \E s \in Shares : /\ IsShareFrame(buffer, s)
                           /\ delivered' = Append(delivered, s)
  <2> HIDE DEF OrderInv, TypeOK
  <2>1. assembly \in Seq(Bytes) /\ BufferOK
    BY DEF OrderInv, Handshake, TypeOK
  <2> QED
    BY <1>1, <2>1, ReceiveEffect
<1>3. PICK s \in Shares : /\ IsShareFrame(buffer, s)
                          /\ delivered' = Append(delivered, s)
  BY <1>2
<1>4. Len(assembly) = FrameBytes - 1
  <2>1. LengthOf(buffer) = PayloadBytes
    BY <1>3 DEF IsShareFrame
  <2>2. LengthOf(buffer) = LengthOf(assembly)
    BY <1>1, <1>2, LengthStays
  <2> HIDE DEF buffer
  <2> QED
    BY <1>2, <2>1, <2>2
<1>5. word = Byte(s, FrameBytes - 1)
  <2>1. buffer[FrameBytes] = word
    BY <1>1, <1>2, <1>4
  <2>2. FrameBytes \in 7 .. FrameBytes
    OBVIOUS
  <2>3. buffer[FrameBytes] = Byte(s, FrameBytes - 1)
    BY <1>3, <2>2, FrameFacts DEF IsShareFrame, CrcPasses
  <2> QED
    BY <2>1, <2>3
<1>6. word.pos = FrameBytes - 1 /\ word.of = s
  BY <1>5, FrameFacts DEF Byte
<1>7. hadData /\ byteIndex = FrameBytes - 1 /\ word = Byte(frame, byteIndex)
  BY <1>1, <1>6 DEF ScanShowsItsByte, ScanIsTrue
<1>8. s = frame
  BY <1>6, <1>7, FrameFacts DEF Byte
<1> QED
  BY <1>3, <1>7, <1>8 DEF OutIsLast, ReadingIsOutstanding

(* When the byte index moves, what was delivered was out or before.        *)
LEMMA AdvanceOrder ==
  ASSUME OrderInv, AdvanceByte, UNCHANGED <<clkVars, accepted>>, TypeOK',
         \/ delivered' = delivered
         \/ /\ hadData /\ byteIndex = FrameBytes - 1
            /\ delivered' = Append(delivered, accepted[Len(accepted)])
  PROVE  InOrder'
<1>0. byteIndex \in Nat /\ Handshake
  BY DEF OrderInv, Handshake, TypeOK, Positions
<1>3. \/ /\ hadData /\ byteIndex = FrameBytes - 1
         /\ produced # consumed /\ consumed' = produced
      \/ /\ consumed' = consumed
         /\ ~hadData \/ byteIndex < FrameBytes - 1
  <2>1. \/ /\ hadData /\ byteIndex = FrameBytes - 1 /\ byteIndex' = 0
           /\ produced # consumed /\ consumed' = produced
        \/ /\ hadData /\ byteIndex < FrameBytes - 1
           /\ byteIndex' = byteIndex + 1
           /\ produced # consumed /\ consumed' = consumed
        \/ /\ ~hadData /\ byteIndex' = byteIndex
           /\ consumed' = consumed
    BY <1>0, AdvanceDoes
  <2> QED
    BY <2>1
<1> USE DEF OrderInv, Handshake, TypeOK, clkVars
<1>1. CASE /\ hadData /\ byteIndex = FrameBytes - 1
           /\ produced # consumed /\ consumed' = produced
  <2>1. /\ Len(accepted) \in Nat \ {0}
        /\ Picked(delivered, accepted, Len(accepted) - 1)
    BY <1>1 DEF OutIsLast, InOrder, NoLongerOut
  <2> DEFINE n == Len(accepted) - 1
  <2>2. n \in Nat /\ n < Len(accepted) /\ n + 1 = Len(accepted)
    BY <2>1
  <2>3. /\ Picked(delivered, accepted, n + 1)
        /\ Picked(Append(delivered, accepted[n + 1]), accepted, n + 1)
    BY <2>1, <2>2, PickedNext
  <2>4. Picked(delivered', accepted, Len(accepted))
    BY <2>2, <2>3
  <2> QED
    BY <1>1, <2>4 DEF InOrder, NoLongerOut
<1>2. CASE consumed' = consumed /\ (~hadData \/ byteIndex < FrameBytes - 1)
  BY <1>0, <1>2 DEF InOrder, NoLongerOut
<1> HIDE DEF OrderInv
<1> QED
  BY <1>1, <1>2, <1>3

(* Every step of every host keeps the order.                               *)
LEMMA StepOrder == OrderInv /\ [Next]_vars => OrderInv'
<1> SUFFICES ASSUME OrderInv, [Next]_vars PROVE OrderInv'
  OBVIOUS
<1>0. Handshake'
  BY StepHandshake DEF OrderInv
<1> USE DEF OrderInv, Handshake, TypeOK
<1>1. CASE ClkEdge
  <2>1. UNCHANGED <<jtagVars, assembly, delivered>>
    BY <1>1 DEF ClkEdge
  <2>2. ASSUME ShareReady, produced' = ~produced, NEW s \in Shares,
               frame' = s, accepted' = Append(accepted, s)
        PROVE  OrderInv'
    <3>1. produced = consumed /\ byteIndex = 0
      BY <2>2, ReadyIsIdle
    <3>2. OutIsLast' /\ ScanShowsItsByte' /\ BufferOK'
      <4>1. OutIsLast'
        BY <2>1, <2>2, <3>1 DEF jtagVars, OutIsLast
      <4>2. ScanShowsItsByte'
        BY <2>1, <3>1 DEF jtagVars, ScanShowsItsByte
      <4>3. BufferOK'
        BY <2>1, BufferStays
      <4> QED
        BY <4>1, <4>2, <4>3
    <3>3. NoLongerOut' = Len(accepted)
      BY <2>1, <2>2, <3>1 DEF jtagVars, NoLongerOut
    <3>4. InOrder'
      BY <2>1, <2>2, <3>1, <3>3, PickedFromMore DEF InOrder, NoLongerOut
    <3> QED
      BY <1>0, <3>2, <3>4
  <2>3. CASE UNCHANGED <<frame, produced, accepted>>
    BY <1>0, <2>1, <2>3, BufferStays DEF jtagVars, OutIsLast,
       ScanShowsItsByte, ScanIsTrue, InOrder, NoLongerOut, Byte
  <2> QED
    BY <1>1, <2>2, <2>3 DEF ClkEdge
<1>2. CASE StatusPoll
  BY <1>0, <1>2, BufferStays DEF StatusPoll, clkVars, jtagVars, OutIsLast,
     ScanShowsItsByte, ScanIsTrue, InOrder, NoLongerOut, Byte
<1>3. CASE Capture
  <2>1. /\ UNCHANGED <<clkVars, consumed, byteIndex, assembly, accepted,
                       delivered>>
    BY <1>3 DEF Capture
  <2>2. word' # NoData => word'.pos = byteIndex
    <3>1. \A b \in ByteSamples : b.pos = byteIndex
      BY DEF ByteSamples, Byte
    <3> QED
      BY <1>3, <3>1 DEF Capture
  <2>3. byteIndex > 0 =>
          IF hadData' THEN word' = Byte(frame, byteIndex) ELSE word' = NoData
    BY <1>3 DEF Capture, Samples, ByteSamples, SettlesAtFirstByte
  <2> QED
    BY <1>0, <2>1, <2>2, <2>3, BufferStays DEF clkVars, OutIsLast,
       ScanShowsItsByte, ScanIsTrue, InOrder, NoLongerOut, Byte
<1>4. CASE ShiftByte
  <2>1. /\ AdvanceByte /\ UNCHANGED <<clkVars, accepted>>
    BY <1>4 DEF ShiftByte
  <2>2. BufferOK'
    <3>1. CASE word # NoData
      <4>1. word \in Bytes /\ Receive(word)
        BY <1>4, <3>1 DEF ShiftByte
      <4> QED
        BY <4>1, ReceiveEffect
    <3>2. CASE word = NoData
      BY <1>4, <3>2, BufferStays DEF ShiftByte
    <3> QED
      BY <3>1, <3>2
  <2>3. InOrder'
    BY <1>0, <1>4, <2>1, DeliversWhatIsOut, AdvanceOrder
  <2>4. OutIsLast' /\ ScanShowsItsByte'
    BY <2>1, AdvanceDoes DEF clkVars, OutIsLast, ScanShowsItsByte,
       ScanIsTrue
  <2> QED
    BY <1>0, <2>2, <2>3, <2>4
<1>5. CASE AbortScan
  BY <1>0, <1>5, BufferStays DEF AbortScan, clkVars, OutIsLast,
     ScanShowsItsByte, ScanIsTrue, InOrder, NoLongerOut, Byte
<1>6. CASE LoseByte
  <2>1. /\ AdvanceByte /\ UNCHANGED <<clkVars, accepted>>
        /\ delivered' = delivered
        /\ assembly' = assembly \/ assembly' = <<>>
    BY <1>6 DEF LoseByte
  <2>2. InOrder'
    BY <1>0, <2>1, AdvanceOrder
  <2>3. OutIsLast' /\ ScanShowsItsByte'
    BY <2>1, AdvanceDoes DEF clkVars, OutIsLast, ScanShowsItsByte,
       ScanIsTrue
  <2>4. BufferOK'
    BY <2>1, BufferStays
  <2> QED
    BY <1>0, <2>2, <2>3, <2>4
<1>7. CASE HostRestarts
  BY <1>0, <1>7, BufferStays DEF HostRestarts, clkVars, jtagVars, OutIsLast,
     ScanShowsItsByte, ScanIsTrue, InOrder, NoLongerOut, Byte
<1>8. CASE UNCHANGED vars
  BY <1>0, <1>8, BufferStays DEF vars, clkVars, jtagVars, OutIsLast,
     ScanShowsItsByte, ScanIsTrue, InOrder, NoLongerOut, Byte
<1> QED
  BY <1>1, <1>2, <1>3, <1>4, <1>5, <1>6, <1>7, <1>8 DEF Next

(* Whatever is lost, torn or restarted, the host is given shares that were *)
(* put, in their order and each at most once.                              *)
THEOREM MailboxInOrder == Spec => []DeliveredInOrder
<1>1. OrderInv => DeliveredInOrder
  <2> SUFFICES ASSUME OrderInv PROVE DeliveredInOrder
    OBVIOUS
  <2> USE DEF OrderInv, Handshake, TypeOK
  <2>1. PICK f \in [1 .. Len(delivered) -> 1 .. NoLongerOut] :
          /\ \A i \in 1 .. Len(delivered) : delivered[i] = accepted[f[i]]
          /\ \A i, j \in 1 .. Len(delivered) : i < j => f[i] < f[j]
    BY DEF InOrder, Picked
  <2>2. \A i \in 1 .. NoLongerOut : i \in 1 .. Len(accepted)
    BY DEF NoLongerOut
  <2>3. /\ DOMAIN delivered = 1 .. Len(delivered)
        /\ DOMAIN accepted = 1 .. Len(accepted)
    OBVIOUS
  <2>4. f \in [1 .. Len(delivered) -> 1 .. Len(accepted)]
    BY <2>2
  <2> QED
    BY <2>1, <2>3, <2>4 DEF DeliveredInOrder
<1> QED
  BY <1>1, InitOrder, StepOrder, PTL DEF Spec
-----------------------------------------------------------------------------
(* And how much is lost.                                                   *)

(* Every failure and every torn capture pays for two shares, every header  *)
(* that was misread for those it may reach over, and one may be on its     *)
(* way: what is left of that is the credit.  A place in the buffer where   *)
(* the frame being read begins is in step.  Any other start of a frame,    *)
(* and any other header the host believes, is stale: it ends a certain     *)
(* number of bytes later, and the frames that lie before that must be paid *)
(* for.  So must the rest of a frame the host did not see the start of.    *)
InFlight == IF produced # consumed THEN 1 ELSE 0
Credit ==
  Len(delivered) + 2 * (failures + torn) + Reach * misread + InFlight
    - Len(accepted)
Budget(m) == m * FrameBytes
InStep(k) ==
  /\ k = byteIndex
  /\ \A i \in 1 .. k : At(assembly, i) = Byte(frame, k - i)
StartPaid(k, m) == FrameBytes - k + byteIndex <= Budget(m)
HeaderPaid(m) ==
  8 + LengthOf(assembly) - Len(assembly) + byteIndex <= Budget(m)
Aligned(m) ==
  /\ Len(assembly) = 0 /\ byteIndex > 0 => m >= 1
  /\ Len(assembly) < 6 =>
       \A k \in 1 .. 5 : Begins(assembly, k) => InStep(k) \/ StartPaid(k, m)
  /\ Len(assembly) >= 6 => AssembledSoFar \/ HeaderPaid(m)

(* A torn capture of the first byte may make the host see anything at its  *)
(* end; until then its own two shares are not needed.                      *)
Recovery ==
  \E m \in Nat :
    /\ Aligned(m)
    /\ \/ ScanIsTrue /\ m <= Credit
       \/ byteIndex = 0 /\ m + 2 <= Credit

(* A header is misread only where a stale start was, which only a failure  *)
(* leaves behind.                                                          *)
HeaderStale ==
  /\ Len(assembly) < 6
  /\ \E k \in 1 .. 5 : /\ Begins(assembly, k) /\ ~InStep(k)
                       /\ ~(k = 1 /\ byteIndex = 0)
OneEach ==
  misread <= failures /\ (HeaderStale => misread < failures)

(* Budgets are numbers, a frame each.                                      *)
LEMMA Budgets ==
  /\ Budget(0) = 0
  /\ \A m \in Int :
       /\ Budget(m) \in Int
       /\ Budget(m + 1) = Budget(m) + FrameBytes
       /\ Budget(m + 2) = Budget(m) + 2 * FrameBytes
       /\ Budget(m - 1) = Budget(m) - FrameBytes
       /\ (Budget(m) > 0) <=> (m >= 1)
  /\ \A m, n \in Int : m <= n => Budget(m) <= Budget(n)
<1> DEFINE F == FrameBytes
<1>0. F \in Nat /\ F >= 9
  OBVIOUS
<1> HIDE DEF F
<1>1. 0 * F = 0
  BY <1>0
<1>2. ASSUME NEW m \in Int
      PROVE  /\ m * F \in Int /\ (m + 1) * F = m * F + F
             /\ (m + 2) * F = m * F + 2 * F /\ (m - 1) * F = m * F - F
  BY <1>0
<1>3. ASSUME NEW m \in Int, NEW n \in Int, m <= n PROVE m * F <= n * F
  <2>1. n * F = m * F + (n - m) * F /\ (n - m) * F >= 0 /\ m * F \in Int
    BY <1>0, <1>3
  <2> QED
    BY <1>0, <1>3, <2>1
<1>4. ASSUME NEW m \in Int PROVE m * F > 0 <=> m >= 1
  <2>1. m >= 1 => m * F >= 1 * F
    BY <1>3
  <2>2. m <= 0 => m * F <= 0 * F
    BY <1>3
  <2> QED
    BY <1>0, <1>1, <1>2, <2>1, <2>2
<1> QED
  BY <1>1, <1>2, <1>3, <1>4 DEF Budget, F

(* What a misread header pays for covers the longest payload believed.     *)
LEMMA ReachCovers ==
  /\ Reach \in Nat
  /\ \A m \in Int :
       Budget(m + Reach) >= Budget(m) + (MaxPayload - PayloadBytes)
<1> DEFINE F == FrameBytes
           d == MaxPayload - PayloadBytes
           a == d + F - 1
           q == a \div F
<1>1. F \in Nat \ {0} /\ d \in Nat /\ a \in Nat /\ a = d + F - 1
  BY FrameAssumption
<1>2. Reach = q
  BY <1>1 DEF Reach
<1> HIDE DEF F, d, a
<1>3. q \in Int /\ a % F \in 0 .. F - 1 /\ a = F * q + (a % F)
  BY <1>1
<1> HIDE DEF q
<1>4. F * q >= d
  BY <1>1, <1>3
<1>5. q >= 0
  <2>1. CASE q < 0
    <3>1. F * q < 0
      BY <1>1, <1>3, <2>1
    <3> QED
      BY <1>1, <1>3, <1>4, <3>1
  <2> QED
    BY <1>3, <2>1
<1>6. ASSUME NEW m \in Int PROVE (m + q) * F >= m * F + d
  <2>1. (m + q) * F = m * F + F * q /\ m * F \in Int /\ F * q \in Int
    BY <1>1, <1>3
  <2> QED
    BY <1>1, <1>4, <2>1
<1> QED
  BY <1>2, <1>3, <1>5, <1>6 DEF Budget, F, d

LossInv == OrderInv /\ Recovery /\ OneEach

(* The counts are numbers.                                                 *)
LEMMA Counts ==
  ASSUME OrderInv
  PROVE  /\ Len(accepted) \in Nat /\ Len(delivered) \in Nat
         /\ Len(assembly) \in Nat /\ failures \in Nat /\ torn \in Nat
         /\ misread \in Nat /\ byteIndex \in 0 .. FrameBytes - 1
         /\ InFlight \in 0 .. 1
         /\ Reach * misread \in Nat
         /\ Reach * (misread + 1) = Reach * misread + Reach
         /\ Credit \in Int
<1>1. misread \in Nat /\ Reach \in Nat
  BY ReachCovers DEF OrderInv, Handshake, TypeOK
<1>2. /\ Reach * misread \in Nat
      /\ Reach * (misread + 1) = Reach * misread + Reach
  BY <1>1
<1>3. /\ Len(accepted) \in Nat /\ Len(delivered) \in Nat
      /\ Len(assembly) \in Nat /\ failures \in Nat /\ torn \in Nat
      /\ byteIndex \in 0 .. FrameBytes - 1 /\ InFlight \in 0 .. 1
  BY DEF OrderInv, Handshake, TypeOK, Positions, InFlight
<1> QED
  BY <1>1, <1>2, <1>3 DEF Credit

(* While a frame is read, or there is one to read, it is that of a share.  *)
LEMMA FrameIsShare ==
  ASSUME OrderInv, byteIndex > 0 \/ hadData
  PROVE  frame \in Shares /\ frame # Zero /\ produced # consumed
<1>1. produced # consumed
  BY DEF OrderInv, Handshake, ReadingIsOutstanding
<1>2. accepted # <<>> /\ accepted \in Seq(Shares)
  BY <1>1 DEF OrderInv, OutIsLast, Handshake, TypeOK
<1>3. accepted[Len(accepted)] \in Shares
  BY <1>2
<1> QED
  BY <1>1, <1>3, SentinelAssumption DEF OrderInv, OutIsLast

(* The whole buffer is in step when its first byte is.                     *)
LEMMA InStepWhole ==
  ASSUME TypeOK, InStep(Len(assembly)) PROVE AssembledSoFar
<1>1. Len(assembly) = byteIndex /\ Len(assembly) \in Nat
  BY DEF InStep, TypeOK
<1>2. ASSUME NEW i \in 1 .. byteIndex PROVE assembly[i] = Byte(frame, i - 1)
  <2> DEFINE j == byteIndex + 1 - i
  <2>1. /\ j \in 1 .. byteIndex /\ Len(assembly) + 1 - j = i
        /\ byteIndex - j = i - 1
    BY <1>1
  <2> HIDE DEF j
  <2>2. At(assembly, j) = Byte(frame, byteIndex - j)
    BY <1>1, <2>1 DEF InStep
  <2> QED
    BY <2>1, <2>2 DEF At
<1> QED
  BY <1>1, <1>2 DEF AssembledSoFar

(* A buffer in step announces a share, and there is nothing stale in it.   *)
LEMMA AssembledAligned ==
  ASSUME OrderInv, AssembledSoFar, NEW m
  PROVE  /\ Aligned(m)
         /\ Len(assembly) >= 6 => LengthOf(assembly) = PayloadBytes
         /\ \A k \in 1 .. 5 : Begins(assembly, k) => InStep(k)
<1>1. Len(assembly) = byteIndex /\ byteIndex \in Nat
  BY Counts DEF AssembledSoFar
<1>2. Len(assembly) >= 6 => LengthOf(assembly) = PayloadBytes
  <2>1. CASE Len(assembly) >= 6
    <3>1. frame \in Shares
      BY <1>1, <2>1, FrameIsShare
    <3>2. \A i \in 1 .. 6 : assembly[i] = Byte(frame, i - 1)
      BY <1>1, <2>1 DEF AssembledSoFar
    <3> QED
      BY <3>1, <3>2, HeaderAnnounces
  <2> QED
    BY <2>1
<1>3. ASSUME NEW k \in 1 .. 5, Begins(assembly, k) PROVE InStep(k)
  <2>1. k \in 1 .. byteIndex /\ IsMagic(At(assembly, k), 0)
    BY <1>1, <1>3 DEF Begins
  <2>2. \A i \in 1 .. byteIndex :
          At(assembly, i) = Byte(frame, byteIndex - i)
    <3> SUFFICES ASSUME NEW i \in 1 .. byteIndex
                 PROVE  At(assembly, i) = Byte(frame, byteIndex - i)
      OBVIOUS
    <3> DEFINE j == byteIndex + 1 - i
    <3>1. j \in 1 .. byteIndex /\ j - 1 = byteIndex - i
      BY <1>1
    <3>2. At(assembly, i) = assembly[j]
      BY <1>1 DEF At
    <3> HIDE DEF j
    <3> QED
      BY <3>1, <3>2 DEF AssembledSoFar
  <2>3. byteIndex - k = 0
    <3>1. At(assembly, k).pos = byteIndex - k
      BY <2>1, <2>2 DEF Byte
    <3>2. At(assembly, k).pos = 0
      BY <2>1 DEF IsMagic
    <3> QED
      BY <3>1, <3>2
  <2>4. k = byteIndex
    BY <1>1, <2>3
  <2> QED
    BY <2>2, <2>4 DEF InStep
<1>4. Aligned(m)
  BY <1>1, <1>3 DEF Aligned
<1> QED
  BY <1>2, <1>3, <1>4

(* A buffer that is not in step must have been paid for.                   *)
LEMMA StaleIsPaid ==
  ASSUME OrderInv, ~AssembledSoFar, NEW m \in Nat, Aligned(m)
  PROVE  /\ m >= 1
         /\ Len(assembly) >= 6 => HeaderPaid(m)
         /\ Len(assembly) \in 1 .. 5 => /\ Begins(assembly, Len(assembly))
                                        /\ StartPaid(Len(assembly), m)
<1> DEFINE l == Len(assembly)
<1>0. /\ TypeOK /\ l \in Nat /\ byteIndex \in Nat
      /\ Budget(m) \in Int /\ (Budget(m) > 0 <=> m >= 1)
  <2>1. TypeOK
    BY DEF OrderInv, Handshake
  <2>2. l \in Nat /\ byteIndex \in Nat
    BY Counts
  <2>3. m \in Int
    OBVIOUS
  <2> QED
    BY <2>1, <2>2, <2>3, Budgets
<1>4. /\ l >= 6 => AssembledSoFar \/ HeaderPaid(m)
      /\ l < 6 => \A k \in 1 .. 5 :
                    Begins(assembly, k) => InStep(k) \/ StartPaid(k, m)
      /\ l = 0 /\ byteIndex > 0 => m >= 1
      /\ l \in 1 .. 5 => Begins(assembly, l)
  BY Zenon DEF Aligned, OrderInv, BufferOK
<1>5. l >= 6 => /\ LengthOf(assembly) \in Nat
                /\ l < 8 + LengthOf(assembly)
  BY <1>0, LengthStays DEF OrderInv, BufferOK, TypeOK
<1>6. HeaderPaid(m) <=>
        8 + LengthOf(assembly) - l + byteIndex <= Budget(m)
  BY DEF HeaderPaid
<1>7. InStep(l) => AssembledSoFar
  BY <1>0, InStepWhole
<1>8. l = 0 /\ byteIndex = 0 => AssembledSoFar
  BY DEF AssembledSoFar
<1> HIDE DEF l
<1>1. l >= 6 => HeaderPaid(m) /\ m >= 1
  <2> SUFFICES ASSUME l >= 6 PROVE HeaderPaid(m) /\ m >= 1
    OBVIOUS
  <2>1. HeaderPaid(m)
    BY <1>4
  <2> QED
    BY <1>0, <1>5, <1>6, <2>1
<1>2. l \in 1 .. 5 => Begins(assembly, l) /\ StartPaid(l, m) /\ m >= 1
  <2> SUFFICES ASSUME l \in 1 .. 5
               PROVE  Begins(assembly, l) /\ StartPaid(l, m) /\ m >= 1
    OBVIOUS
  <2>1. l < 6
    OBVIOUS
  <2>2. Begins(assembly, l) /\ StartPaid(l, m)
    BY <1>4, <1>7, <2>1, Zenon
  <2> QED
    BY <1>0, <2>2 DEF StartPaid
<1>3. l = 0 => m >= 1
  BY <1>0, <1>4, <1>8
<1>9. l >= 6 \/ l \in 1 .. 5 \/ l = 0
  BY <1>0
<1> QED
  BY <1>1, <1>2, <1>3, <1>9, Zenon DEF l

(* A stale header, whether it was believed before or is now: what it still *)
(* needs has been paid for, by the failure or by the misreading.           *)
LEMMA StaleHeader ==
  ASSUME OrderInv, NEW b \in Bytes, Receive(b),
         NEW m \in Nat, NEW n \in Nat, byteIndex' \in Nat,
         byteIndex' + Budget(m) <= byteIndex + 1 + Budget(n),
         assembly' = Assemble(assembly, b), Len(assembly') >= 6,
         Len(assembly) >= 6 => HeaderPaid(m),
         Len(assembly) \in 1 .. 5 => StartPaid(Len(assembly), m)
  PROVE  /\ misread' = misread \/ misread' = misread + 1
         /\ \A k \in Nat :
              k = (IF misread' = misread THEN n ELSE n + Reach)
                => HeaderPaid(k)'
<1> DEFINE l == Len(assembly)
           t == Assemble(assembly, b)
           s == Append(assembly, b)
           T == LengthOf(t)
<1>1. /\ assembly \in Seq(Bytes) /\ BufferOK /\ l \in Nat
      /\ byteIndex \in Nat /\ misread \in Nat
  BY Counts DEF OrderInv, Handshake, TypeOK
<1>2. /\ t \in Seq(Bytes)
      /\ l >= 6 => t = s
      /\ l < 6 => /\ Len(t) <= 6
                  /\ Len(t) = 6 => l = 5 /\ HeaderOk(t)
  BY <1>1, AssembleEffect
<1>3. misread' = IF l < 6 /\ Len(t) = 6 /\ T > PayloadBytes
                 THEN misread + 1 ELSE misread
  BY <1>1, ReceiveEffect
<1>4. /\ Len(s) = l + 1
      /\ l >= 6 => /\ LengthOf(assembly) \in Nat
                   /\ LengthOf(s) = LengthOf(assembly)
  BY <1>1, LengthStays
<1>5. Len(t) \in Nat /\ Len(t) >= 6
  BY <1>2
<1>6. T \in Nat
  BY <1>2, <1>5, LengthStays
<1>7. \A k : HeaderPaid(k)' <=> 8 + T - Len(t) + byteIndex' <= Budget(k)
  BY DEF HeaderPaid, Budget, FrameBytes, HeaderBytes, LengthOf
<1>8. Budget(m) \in Int /\ Budget(n) \in Int
  BY Budgets
<1>9. l >= 6 => 8 + LengthOf(assembly) - l + byteIndex <= Budget(m)
  BY DEF HeaderPaid
<1>10. l = 5 => FrameBytes - 5 + byteIndex <= Budget(m)
  <2>1. 5 \in 1 .. 5
    OBVIOUS
  <2>2. l = 5 => StartPaid(5, m)
    BY <2>1
  <2> QED
    BY <2>2 DEF StartPaid
<1> HIDE DEF l
<1>11. CASE l >= 6
  <2>1. /\ Len(t) = l + 1 /\ T = LengthOf(assembly) /\ misread' = misread
        /\ LengthOf(assembly) \in Nat
    <3>1. t = s /\ T = LengthOf(s)
      BY <1>2, <1>11
    <3>2. misread' = misread
      BY <1>1, <1>3, <1>11
    <3> QED
      BY <1>4, <1>11, <3>1, <3>2, Zenon
  <2> HIDE DEF T, t, s
  <2>2. 8 + T - Len(t) + byteIndex' <= Budget(n)
    <3> DEFINE L == LengthOf(assembly)
    <3>1. /\ T = L /\ L \in Nat /\ Len(t) = l + 1
          /\ 8 + L - l + byteIndex <= Budget(m)
      BY <1>9, <1>11, <2>1
    <3> HIDE DEF L
    <3>2. 8 + L - (l + 1) + byteIndex' <= Budget(n)
      BY <1>1, <1>8, <3>1
    <3> QED
      BY <3>1, <3>2
  <2> QED
    BY <1>7, <2>1, <2>2
<1>12. CASE l < 6
  <2>1. Len(t) = 6 /\ l = 5 /\ HeaderOk(t)
    BY <1>2, <1>5, <1>12, AroundSix, Zenon
  <2>2. misread' = IF T > PayloadBytes THEN misread + 1 ELSE misread
    BY <1>3, <1>12, <2>1, Zenon
  <2>3. T <= MaxPayload
    BY <2>1 DEF HeaderOk
  <2> HIDE DEF T, t, s
  <2>4. 2 + T + byteIndex' <= Budget(n) + (T - PayloadBytes)
    BY <1>1, <1>6, <1>8, <1>10, <2>1
  <2>5. CASE T <= PayloadBytes
    <3>1. misread' = misread
      BY <1>6, <2>2, <2>5
    <3>2. 2 + T + byteIndex' <= Budget(n)
      BY <1>6, <1>8, <2>4, <2>5
    <3> QED
      BY <1>6, <1>7, <2>1, <3>1, <3>2
  <2>6. CASE T > PayloadBytes
    <3>1. misread' = misread + 1
      BY <2>2, <2>6
    <3>2. misread' # misread
      BY <1>1, <3>1
    <3>3. /\ Reach \in Nat /\ n + Reach \in Nat
          /\ Budget(n + Reach) \in Int
          /\ Budget(n + Reach) >= Budget(n) + (MaxPayload - PayloadBytes)
      BY ReachCovers, Budgets
    <3>4. 2 + T + byteIndex' <= Budget(n + Reach)
      BY <1>6, <1>8, <2>3, <2>4, <3>3, FrameAssumption
    <3> QED
      BY <1>6, <1>7, <2>1, <3>1, <3>2, <3>4
  <2> QED
    BY <1>6, <2>5, <2>6
<1> QED
  BY <1>1, <1>11, <1>12

(* What is in step, or about to begin, stays in step with a true byte.     *)
LEMMA InStepGrows ==
  ASSUME OrderInv, word \in Bytes, word = Byte(frame, byteIndex),
         frame' = frame, byteIndex' = byteIndex + 1,
         Suffix(assembly', Append(assembly, word)),
         NEW k \in Nat, k = byteIndex, k > 0 => InStep(k),
         k <= Len(assembly), k + 1 <= Len(assembly'),
         Len(assembly') \in Nat
  PROVE  InStep(k + 1)'
<1> DEFINE s == Append(assembly, word)
           t == assembly'
<1>1. /\ Len(assembly) \in Nat /\ At(s, 1) = word
      /\ \A i \in 1 .. Len(assembly) : At(s, i + 1) = At(assembly, i)
  <2>1. assembly \in Seq(Bytes)
    BY DEF OrderInv, Handshake, TypeOK
  <2> QED
    BY <2>1, OneMore
<1>2. \A i \in 1 .. k + 1 : At(t, i) = At(s, i)
  BY DEF Suffix
<1> HIDE DEF s, t
<1>3. ASSUME NEW i \in 1 .. k + 1 PROVE At(t, i) = Byte(frame, k + 1 - i)
  <2>1. CASE i = 1
    BY <1>1, <1>2, <2>1
  <2>2. CASE i # 1
    <3> DEFINE j == i - 1
    <3>1. /\ j \in 1 .. k /\ j \in 1 .. Len(assembly) /\ j + 1 = i
          /\ k - j = k + 1 - i /\ k > 0
      BY <1>1, <2>2
    <3> HIDE DEF j
    <3>2. At(t, i) = At(assembly, j)
      BY <1>1, <1>2, <3>1
    <3>3. At(assembly, j) = Byte(frame, k - j)
      BY <3>1 DEF InStep
    <3> QED
      BY <3>1, <3>2, <3>3
  <2> QED
    BY <2>1, <2>2
<1>4. ASSUME NEW i \in 1 .. k + 1
      PROVE  (At(assembly, i) = Byte(frame, k + 1 - i))'
  <2>1. At(assembly', i) = Byte(frame, k + 1 - i)
    BY <1>3 DEF t
  <2> QED
    BY <2>1 DEF At, Byte
<1> QED
  BY <1>4 DEF InStep

(* The buffer, when it is empty or holds a stale header.                   *)
LEMMA AlignedEmpty ==
  ASSUME NEW k \in Nat, assembly' = <<>>, byteIndex' > 0 => k >= 1
  PROVE  Aligned(k)'
<1>1. Len(assembly') = 0
  OBVIOUS
<1>2. ~(Len(assembly') >= 6) /\ \A i : ~Begins(assembly', i)
  BY <1>1 DEF Begins
<1> QED
  BY <1>2 DEF Aligned

LEMMA AlignedHeader ==
  ASSUME NEW k \in Nat, Len(assembly') \in Nat, Len(assembly') >= 6,
         HeaderPaid(k)'
  PROVE  Aligned(k)'
<1>1. ~(Len(assembly') < 6) /\ ~(Len(assembly') = 0)
  <2> DEFINE l == Len(assembly')
  <2>1. l \in Nat /\ l >= 6
    OBVIOUS
  <2> HIDE DEF l
  <2>2. ~(l < 6) /\ ~(l = 0)
    BY <2>1
  <2> QED
    BY <2>2 DEF l
<1> QED
  BY <1>1, Zenon DEF Aligned

LEMMA AlignedStarts ==
  ASSUME NEW k \in Nat, Len(assembly') \in Nat, Len(assembly') < 6,
         byteIndex' > 0 => k >= 1,
         \A i \in 1 .. 5 :
           Begins(assembly', i) => InStep(i)' \/ StartPaid(i, k)'
  PROVE  Aligned(k)'
<1>1. ~(Len(assembly') >= 6)
  BY AroundSix, Zenon
<1> QED
  BY <1>1, Zenon DEF Aligned

(* The three things a byte can do to the buffer.                           *)
LEMMA ReceiveCases ==
  ASSUME OrderInv, NEW b \in Bytes, Receive(b)
  PROVE  /\ assembly \in Seq(Bytes) /\ assembly' \in Seq(Bytes)
         /\ Len(assembly') \in Nat
         /\ misread' = misread \/ misread' = misread + 1
         /\ \/ assembly' = <<>> /\ misread' = misread
            \/ assembly' = Assemble(assembly, b) /\ Len(assembly') >= 6
            \/ /\ assembly' = Assemble(assembly, b) /\ Len(assembly') < 6
               /\ misread' = misread
               /\ Len(assembly) < 6
               /\ Suffix(assembly', Append(assembly, b))
               /\ \A k \in 1 .. 5 : Begins(Append(assembly, b), k)
                                      => k <= Len(assembly')
<1> DEFINE t == Assemble(assembly, b)
           s == Append(assembly, b)
           l == Len(assembly)
           T == LengthOf(t) > PayloadBytes
<1>1. assembly \in Seq(Bytes) /\ BufferOK /\ l \in Nat /\ misread \in Nat
  BY Counts DEF OrderInv, Handshake, TypeOK
<1>2. /\ t \in Seq(Bytes) /\ Suffix(t, s)
      /\ l >= 6 => t = s
      /\ l < 6 => (Len(t) # 6 =>
                     \A k \in 1 .. 5 : Begins(s, k) => k <= Len(t))
  BY <1>1, AssembleEffect
<1>3. /\ assembly' = t \/ (assembly' = <<>> /\ l >= 6)
      /\ misread' = IF l < 6 /\ Len(t) = 6 /\ T THEN misread + 1 ELSE misread
  BY <1>1, ReceiveEffect
<1>4. Len(t) \in Nat /\ Len(s) = l + 1 /\ <<>> \in Seq(Bytes)
  BY <1>1, <1>2
<1> HIDE DEF t, s, l, T
<1>5. misread' = misread \/ misread' = misread + 1
  BY <1>3, Zenon
<1>6. CASE l >= 6 /\ assembly' = <<>>
  <2>1. ~(l < 6)
    BY <1>1, <1>6
  <2>2. misread' = misread
    BY <1>3, <2>1, Zenon
  <2>3. Len(<<>>) \in Nat
    OBVIOUS
  <2> QED
    BY <1>1, <1>4, <1>5, <1>6, <2>2, <2>3, Zenon
<1>7. CASE assembly' = t /\ Len(t) >= 6
  BY <1>1, <1>2, <1>4, <1>5, <1>7, Zenon DEF t
<1>8. CASE assembly' = t /\ Len(t) < 6
  <2>1. Len(t) # 6
    BY <1>4, <1>8, AroundSix, Zenon
  <2>2. l < 6
    BY <1>1, <1>2, <1>4, <1>8
  <2>3. misread' = misread
    BY <1>3, <2>1, Zenon
  <2> QED
    BY <1>1, <1>2, <1>4, <1>8, <2>1, <2>2, <2>3, Zenon DEF t, s, l
<1>9. Len(t) >= 6 \/ Len(t) < 6
  BY <1>4
<1> QED
  BY <1>3, <1>6, <1>7, <1>8, <1>9, Zenon

(* The next true byte for a buffer that is not in step.                    *)
LEMMA StaleShift ==
  ASSUME OrderInv, frame \in Shares, frame' = frame,
         word \in Bytes, word = Byte(frame, byteIndex), Receive(word),
         NEW m \in Nat, Aligned(m), ~AssembledSoFar,
         NEW n \in Nat,
         \/ byteIndex' = byteIndex + 1 /\ n = m
         \/ byteIndex' = 0 /\ byteIndex = FrameBytes - 1 /\ n = m - 1
  PROVE  /\ misread' = misread \/ misread' = misread + 1
         /\ \A k \in Nat :
              k = (IF misread' = misread THEN n ELSE n + Reach) => Aligned(k)'
<1> DEFINE s == Append(assembly, word)
<1>1. /\ byteIndex \in 0 .. FrameBytes - 1 /\ byteIndex' \in Nat
      /\ m >= 1 /\ (byteIndex' > 0 => n >= 1)
  BY StaleIsPaid, Counts
<1>2. byteIndex' + Budget(m) = byteIndex + 1 + Budget(n)
  <2>1. Budget(m) \in Int /\ Budget(m - 1) = Budget(m) - FrameBytes
    BY Budgets
  <2> QED
    BY <1>1, <2>1
<1>3. Budget(m) \in Int /\ Budget(n) \in Int
  BY Budgets
<1>4. /\ Len(assembly) >= 6 => HeaderPaid(m)
      /\ Len(assembly) \in 1 .. 5 => StartPaid(Len(assembly), m)
  BY StaleIsPaid
<1>5. /\ assembly \in Seq(Bytes) /\ assembly' \in Seq(Bytes)
      /\ Len(assembly') \in Nat
      /\ misread' = misread \/ misread' = misread + 1
  BY ReceiveCases
<1>6. CASE assembly' = <<>> /\ misread' = misread
  BY <1>1, <1>5, <1>6, AlignedEmpty
<1>7. CASE assembly' = Assemble(assembly, word) /\ Len(assembly') >= 6
  <2>1. byteIndex' + Budget(m) <= byteIndex + 1 + Budget(n)
    BY <1>1, <1>2, <1>3
  <2>2. \A k \in Nat :
          k = (IF misread' = misread THEN n ELSE n + Reach) => HeaderPaid(k)'
    BY <1>1, <1>4, <1>7, <2>1, StaleHeader
  <2> QED
    BY <1>5, <1>7, <2>2, AlignedHeader
<1>8. CASE /\ Len(assembly') < 6 /\ misread' = misread
           /\ Len(assembly) < 6 /\ Suffix(assembly', s)
  <2>1. ASSUME NEW i \in 1 .. 5, Begins(assembly', i)
        PROVE  InStep(i)' \/ StartPaid(i, n)'
    <3>1. i \in 1 .. Len(assembly')
      BY <2>1 DEF Begins
    <3>2. /\ s \in Seq(Bytes) /\ Len(s) = Len(assembly) + 1
          /\ Len(assembly) \in Nat
          /\ Begins(s, 1) <=> IsMagic(word, 0)
          /\ \A k \in 1 .. Len(assembly) :
               Begins(s, k + 1) <=> IF k = 1
                                    THEN /\ Begins(assembly, 1)
                                         /\ IsMagic(word, 1)
                                    ELSE Begins(assembly, k)
      BY <1>5, OneMore
    <3>3. Begins(s, i) /\ i <= Len(assembly) + 1
      <4>1. Begins(s, i)
        BY <1>5, <1>8, <2>1, <3>1, <3>2, SuffixBegins
      <4> QED
        BY <3>1, <3>2, <4>1 DEF Begins
    <3> DEFINE k == i - 1
    <3>4. k \in 0 .. 4 /\ i = k + 1
      OBVIOUS
    <3> HIDE DEF k, s
    <3>5. CASE k = byteIndex /\ (k > 0 => InStep(k))
      <4>1. byteIndex' = byteIndex + 1
        BY <1>1, <3>4, <3>5
      <4>2. k <= Len(assembly) /\ k + 1 <= Len(assembly') /\ k \in Nat
        BY <1>5, <3>1, <3>2, <3>3, <3>4
      <4> QED
        BY <1>5, <1>8, <3>4, <3>5, <4>1, <4>2, InStepGrows DEF s
    <3>6. CASE k > 0 /\ StartPaid(k, m)
      <4>1. FrameBytes - k + byteIndex <= Budget(m)
        BY <3>6 DEF StartPaid
      <4>2. FrameBytes - i + byteIndex' <= Budget(n)
        BY <1>1, <1>2, <1>3, <3>4, <4>1
      <4> QED
        BY <4>2 DEF StartPaid, Budget, FrameBytes, HeaderBytes
    <3>7. CASE k = 0
      <4>1. IsMagic(word, 0)
        BY <3>2, <3>3, <3>4, <3>7
      <4>2. byteIndex = 0
        BY <4>1 DEF IsMagic, Byte
      <4> QED
        BY <3>5, <3>7, <4>2
    <3>8. CASE k > 0
      <4>1. k \in 1 .. 5 /\ k \in 1 .. Len(assembly)
        BY <3>2, <3>3, <3>4, <3>8
      <4>2. Begins(assembly, k)
        BY <3>2, <3>3, <3>4, <4>1
      <4>3. InStep(k) \/ StartPaid(k, m)
        BY <1>8, <4>1, <4>2 DEF Aligned
      <4> QED
        BY <3>5, <3>6, <3>8, <4>3 DEF InStep
    <3> QED
      BY <3>4, <3>7, <3>8
  <2>2. Aligned(n)'
    BY <1>1, <1>5, <1>8, <2>1, AlignedStarts
  <2> QED
    BY <1>5, <1>8, <2>2
<1> QED
  BY <1>6, <1>7, <1>8, ReceiveCases

(* Any byte at all, where only the first one of a frame can be torn.       *)
LEMMA TornShift ==
  ASSUME OrderInv, NEW b \in Bytes, Receive(b), byteIndex = 0,
         byteIndex' \in 0 .. 1, NEW m \in Nat, Aligned(m)
  PROVE  /\ misread' = misread \/ misread' = misread + 1
         /\ \A k \in Nat :
              k = (IF misread' = misread THEN m + 2 ELSE m + 2 + Reach)
                => Aligned(k)'
<1> DEFINE n == m + 2
<1>1. /\ n \in Nat /\ Budget(m) \in Int /\ Budget(n) \in Int
      /\ Budget(n) = Budget(m) + 2 * FrameBytes /\ Budget(m) >= 0
  BY Budgets
<1>2. /\ assembly' \in Seq(Bytes) /\ Len(assembly') \in Nat
      /\ misread' = misread \/ misread' = misread + 1
  BY ReceiveCases
<1>3. /\ Len(assembly) >= 6 => HeaderPaid(m)
      /\ Len(assembly) \in 1 .. 5 => StartPaid(Len(assembly), m)
  <2>1. CASE ~AssembledSoFar
    BY <2>1, StaleIsPaid
  <2>2. CASE AssembledSoFar
    <3> DEFINE l == Len(assembly)
    <3>1. l = 0
      BY <2>2 DEF AssembledSoFar
    <3> HIDE DEF l
    <3>2. ~(l >= 6) /\ ~(l \in 1 .. 5)
      BY <3>1
    <3> QED
      BY <3>2, Zenon DEF l
  <2> QED
    BY <2>1, <2>2
<1> HIDE DEF n
<1>4. Reach \in Nat
  BY ReachCovers
<1>5. ASSUME NEW k \in Nat, k = (IF misread' = misread THEN n ELSE n + Reach)
      PROVE  k >= 1
  BY <1>4, <1>5 DEF n
<1>6. CASE assembly' = <<>> /\ misread' = misread
  BY <1>5, <1>6, AlignedEmpty DEF n
<1>7. CASE assembly' = Assemble(assembly, b) /\ Len(assembly') >= 6
  <2>1. /\ byteIndex' \in Nat
        /\ byteIndex' + Budget(m) <= byteIndex + 1 + Budget(n)
    BY <1>1
  <2>2. \A k \in Nat :
          k = (IF misread' = misread THEN n ELSE n + Reach) => HeaderPaid(k)'
    BY <1>1, <1>3, <1>7, <2>1, StaleHeader
  <2> QED
    BY <1>2, <1>7, <2>2, AlignedHeader DEF n
<1>8. CASE Len(assembly') < 6 /\ misread' = misread
  <2>1. ASSUME NEW i \in 1 .. 5 PROVE StartPaid(i, n)'
    <3>1. FrameBytes - i + byteIndex' <= Budget(n)
      BY <1>1
    <3> QED
      BY <3>1 DEF StartPaid, Budget, FrameBytes, HeaderBytes
  <2>2. n >= 1
    BY DEF n
  <2>3. Aligned(n)'
    BY <1>1, <1>2, <1>8, <2>1, <2>2, AlignedStarts
  <2> QED
    BY <1>8, <2>3 DEF n
<1> QED
  BY <1>2, <1>6, <1>7, <1>8, ReceiveCases

(* A true byte for a buffer in step: it grows, or the share arrives.       *)
LEMMA InStepShift ==
  ASSUME OrderInv, OrderInv', frame \in Shares, frame' = frame,
         word \in Bytes, word = Byte(frame, byteIndex), Receive(word),
         AssembledSoFar,
         \/ byteIndex' = byteIndex + 1 /\ byteIndex < FrameBytes - 1
         \/ byteIndex' = 0 /\ byteIndex = FrameBytes - 1
  PROVE  /\ misread' = misread /\ AssembledSoFar'
         /\ byteIndex' = byteIndex + 1 => Len(delivered') = Len(delivered)
         /\ byteIndex' = 0 => Len(delivered') = Len(delivered) + 1
<1> DEFINE t == Assemble(assembly, word)
<1>0. /\ TypeOK /\ assembly \in Seq(Bytes) /\ BufferOK
      /\ delivered \in Seq(Shares)
      /\ byteIndex \in 0 .. FrameBytes - 1
  BY Counts DEF OrderInv, Handshake, TypeOK
<1>1. /\ t \in Seq(Bytes) /\ Len(t) = byteIndex + 1
      /\ \A i \in 1 .. byteIndex + 1 : t[i] = Byte(frame, i - 1)
  BY <1>0, AssembleNextByte
<1>2. /\ \/ assembly' = t /\ delivered' = delivered
         \/ /\ assembly' = <<>>
            /\ \/ \E s \in Shares : /\ IsShareFrame(t, s)
                                    /\ delivered' = Append(delivered, s)
               \/ /\ \A s \in Shares : ~IsShareFrame(t, s)
                  /\ delivered' = delivered
      /\ Complete(t) <=> ~(assembly' = t /\ delivered' = delivered)
      /\ misread' = IF Misreads(t) THEN misread + 1 ELSE misread
  <2>1. Len(t) # 0
    BY <1>0, <1>1
  <2>2. t # <<>>
    BY <2>1
  <2> QED
    BY <2>2, Zenon DEF Receive
<1> HIDE DEF t
<1>3. /\ Complete(t) <=> Len(t) = FrameBytes
      /\ Len(t) >= 6 => LengthOf(t) = PayloadBytes
      /\ Len(t) = FrameBytes =>
           /\ IsShareFrame(t, frame)
           /\ \A s \in Shares : IsShareFrame(t, s) => s = frame
  <2>1. /\ Len(t) \in 1 .. FrameBytes
        /\ \A i \in 1 .. Len(t) : t[i] = Byte(frame, i - 1)
    BY <1>0, <1>1
  <2> QED
    BY <2>1, FrameInStep
<1>4. misread' = misread
  <2>1. ~Misreads(t)
    BY <1>1, <1>3, FrameFacts DEF Misreads, HasHeader
  <2> QED
    BY <1>2, <2>1, Zenon
<1>5. CASE byteIndex' = byteIndex + 1 /\ byteIndex < FrameBytes - 1
  <2>1. Len(t) # FrameBytes
    BY <1>0, <1>1, <1>5
  <2>2. assembly' = t /\ delivered' = delivered
    BY <1>2, <1>3, <2>1, Zenon
  <2>3. AssembledSoFar'
    <3>1. /\ Len(assembly') = byteIndex + 1
          /\ \A i \in 1 .. byteIndex + 1 : assembly'[i] = Byte(frame, i - 1)
      BY <1>1, <2>2
    <3> QED
      BY <1>5, <3>1 DEF AssembledSoFar, Byte
  <2>4. byteIndex' # 0
    BY <1>0, <1>5
  <2> QED
    BY <1>4, <2>2, <2>3, <2>4
<1>6. CASE byteIndex' = 0 /\ byteIndex = FrameBytes - 1
  <2>1. Len(t) = FrameBytes
    BY <1>1, <1>6
  <2>2. assembly' = <<>> /\ delivered' = Append(delivered, frame)
    BY <1>2, <1>3, <2>1, Zenon
  <2>3. AssembledSoFar'
    BY <1>6, <2>2 DEF AssembledSoFar
  <2>4. Len(delivered') = Len(delivered) + 1 /\ byteIndex' # byteIndex + 1
    BY <1>0, <1>6, <2>2
  <2> QED
    BY <1>4, <2>3, <2>4
<1> QED
  BY <1>5, <1>6

(* What a byte that reaches the host does to the counts.                   *)
LEMMA ShiftCounts ==
  ASSUME OrderInv, ShiftByte
  PROVE  /\ Len(accepted') = Len(accepted) /\ torn' = torn
         /\ failures' = failures
         /\ Len(delivered') \in Nat /\ Len(delivered') >= Len(delivered)
         /\ UNCHANGED clkVars
         /\ scanning' = FALSE /\ scanning = TRUE
         /\ \/ /\ hadData /\ byteIndex = FrameBytes - 1 /\ byteIndex' = 0
               /\ InFlight = 1 /\ InFlight' = 0 /\ frame \in Shares
            \/ /\ hadData /\ byteIndex < FrameBytes - 1
               /\ byteIndex' = byteIndex + 1
               /\ InFlight' = InFlight /\ frame \in Shares
            \/ /\ ~hadData /\ byteIndex' = byteIndex
               /\ InFlight' = InFlight
<1>1. /\ Len(accepted') = Len(accepted) /\ torn' = torn
      /\ failures' = failures /\ UNCHANGED clkVars /\ produced' = produced
      /\ scanning /\ scanning \in BOOLEAN /\ AdvanceByte /\ Handshake
  BY DEF ShiftByte, clkVars, OrderInv, Handshake, TypeOK
<1>2. Len(delivered') \in Nat /\ Len(delivered') >= Len(delivered)
  <2>1. CASE delivered' = delivered
    BY <2>1, Counts
  <2>2. CASE delivered' # delivered
    <3>1. /\ delivered' = Append(delivered, accepted[Len(accepted)])
          /\ delivered \in Seq(Shares)
      BY <2>2, DeliversWhatIsOut DEF OrderInv, Handshake, TypeOK
    <3>2. accepted[Len(accepted)] \in Shares
      <4>1. accepted # <<>> /\ accepted \in Seq(Shares)
        BY <2>2, DeliversWhatIsOut
           DEF OrderInv, OutIsLast, Handshake, TypeOK
      <4> QED
        BY <4>1
    <3> QED
      BY <3>1, <3>2
  <2> QED
    BY <2>1, <2>2
<1>3. produced # consumed => frame \in Shares
  BY DEF OrderInv, OutIsLast, Handshake, TypeOK
<1>4. /\ scanning' = FALSE
      /\ \/ /\ hadData /\ byteIndex = FrameBytes - 1 /\ byteIndex' = 0
            /\ produced # consumed /\ consumed' = produced
         \/ /\ hadData /\ byteIndex < FrameBytes - 1
            /\ byteIndex' = byteIndex + 1
            /\ produced # consumed /\ consumed' = consumed
         \/ /\ ~hadData /\ byteIndex' = byteIndex
            /\ consumed' = consumed
  BY <1>1, AdvanceDoes
<1> QED
  BY <1>1, <1>2, <1>3, <1>4 DEF InFlight

(* A buffer that is kept or emptied while the card goes on, or stays.      *)
LEMMA ByteIsLost ==
  ASSUME OrderInv, frame' = frame, assembly' = assembly \/ assembly' = <<>>,
         NEW m \in Nat, Aligned(m), NEW n \in Nat,
         \/ /\ byteIndex' = byteIndex \/ byteIndex' = byteIndex + 1
            /\ n = m + 2
         \/ byteIndex' = 0 /\ byteIndex = FrameBytes - 1 /\ n = m + 1
  PROVE  Aligned(n)'
<1> DEFINE l == Len(assembly)
<1>1. /\ l \in Nat /\ byteIndex \in 0 .. FrameBytes - 1 /\ n >= 1
      /\ byteIndex' \in Nat
  BY Counts
<1>2. /\ Budget(m) \in Int /\ Budget(n) \in Int /\ Budget(m) >= 0
      /\ \/ /\ byteIndex' <= byteIndex + 1
            /\ Budget(n) = Budget(m) + 2 * FrameBytes
         \/ /\ byteIndex' = 0 /\ byteIndex = FrameBytes - 1
            /\ Budget(n) = Budget(m) + FrameBytes
  <2>1. /\ Budget(m) \in Int /\ Budget(m) >= 0
        /\ Budget(m + 2) = Budget(m) + 2 * FrameBytes
        /\ Budget(m + 1) = Budget(m) + FrameBytes
    <3>1. m \in Int /\ 0 \in Int /\ 0 <= m
      OBVIOUS
    <3> QED
      BY <3>1, Budgets
  <2> QED
    BY <1>1, <2>1
<1>3. CASE assembly' = <<>>
  BY <1>1, <1>3, AlignedEmpty
<1>4. CASE assembly' = assembly /\ l < 6
  <2>1. ASSUME NEW i \in 1 .. 5, Begins(assembly, i) PROVE StartPaid(i, n)'
    <3>1. InStep(i) \/ StartPaid(i, m)
      BY <1>4, <2>1 DEF Aligned
    <3>2. FrameBytes - i + byteIndex' <= Budget(n)
      <4>1. CASE InStep(i)
        <5>1. i = byteIndex
          BY <4>1 DEF InStep
        <5> QED
          BY <1>1, <1>2, <5>1
      <4>2. CASE FrameBytes - i + byteIndex <= Budget(m)
        BY <1>1, <1>2, <4>2
      <4> QED
        BY <3>1, <4>1, <4>2 DEF StartPaid
    <3> QED
      BY <3>2 DEF StartPaid, Budget, FrameBytes, HeaderBytes
  <2>2. \A i \in 1 .. 5 :
          Begins(assembly', i) => InStep(i)' \/ StartPaid(i, n)'
    BY <1>4, <2>1
  <2>3. Len(assembly') \in Nat /\ Len(assembly') < 6
    BY <1>1, <1>4
  <2> QED
    BY <1>1, <2>2, <2>3, AlignedStarts
<1>5. CASE assembly' = assembly /\ l >= 6
  <2> DEFINE L == LengthOf(assembly)
  <2>1. L \in Nat
    BY <1>5, LengthStays DEF OrderInv, Handshake, TypeOK
  <2>2. \/ l = byteIndex /\ L = PayloadBytes
        \/ 8 + L - l + byteIndex <= Budget(m)
    <3>1. AssembledSoFar \/ HeaderPaid(m)
      BY <1>5 DEF Aligned
    <3>2. AssembledSoFar => l = byteIndex /\ L = PayloadBytes
      BY <1>5, AssembledAligned DEF AssembledSoFar
    <3> QED
      BY <3>1, <3>2 DEF HeaderPaid
  <2> HIDE DEF L, l
  <2>3. 8 + L - l + byteIndex' <= Budget(n)
    BY <1>1, <1>2, <2>1, <2>2
  <2>4. HeaderPaid(n)'
    BY <1>5, <2>3
       DEF HeaderPaid, Budget, FrameBytes, HeaderBytes, LengthOf, L, l
  <2>5. Len(assembly') \in Nat /\ Len(assembly') >= 6
    BY <1>1, <1>5 DEF l
  <2> QED
    BY <2>4, <2>5, AlignedHeader
<1>6. l < 6 \/ l >= 6
  BY <1>1
<1> QED
  BY <1>3, <1>4, <1>5, <1>6

(* Nothing is stale in a buffer that is in step.                           *)
AllAligned == \A m \in Nat : Aligned(m)
LEMMA InStepAllAligned == OrderInv /\ AssembledSoFar => AllAligned
  BY AssembledAligned DEF AllAligned

(* While buffer, byte index and frame stay, so does what is owed.          *)
LEMMA AlignedStays ==
  ASSUME NEW m, Aligned(m), UNCHANGED <<assembly, byteIndex, frame>>
  PROVE  Aligned(m)'
  BY DEF Aligned, Begins, InStep, StartPaid, HeaderPaid, AssembledSoFar,
     LengthOf, IsMagic, At, Byte, Budget, FrameBytes, HeaderBytes

(* What a step must show to keep the recovery, its scan being over.        *)
LEMMA RecoveryFrom ==
  ASSUME NEW n \in Nat, Aligned(n)', ScanIsTrue', n <= Credit'
  PROVE  Recovery'
  BY DEF Recovery

(* A scan that ended changed the credit by what it took and gave.          *)
LEMMA ShiftCredit ==
  ASSUME OrderInv, OrderInv', ShiftByte,
         misread' = misread \/ misread' = misread + 1
  PROVE  /\ Credit \in Int /\ Credit' \in Int
         /\ Credit' = Credit + (Len(delivered') - Len(delivered))
                        + (IF misread' = misread THEN 0 ELSE Reach)
                        + (InFlight' - InFlight)
         /\ Len(delivered') \in Nat /\ Len(delivered) \in Nat
         /\ Len(delivered') >= Len(delivered) /\ Reach \in Nat
         /\ InFlight \in 0 .. 1 /\ InFlight' \in 0 .. 1
<1>1. /\ Len(accepted) \in Nat /\ Len(delivered) \in Nat
      /\ failures \in Nat /\ torn \in Nat /\ misread \in Nat
      /\ InFlight \in 0 .. 1 /\ Reach * misread \in Nat
      /\ Reach * (misread + 1) = Reach * misread + Reach
      /\ Credit \in Int
  BY Counts
<1>2. /\ Len(accepted') = Len(accepted) /\ torn' = torn
      /\ failures' = failures
      /\ Len(delivered') \in Nat /\ Len(delivered') >= Len(delivered)
  BY ShiftCounts
<1>3. Reach \in Nat
  BY ReachCovers
<1>4. InFlight' \in 0 .. 1
  BY DEF InFlight
<1> DEFINE r == Reach * misread
           x == IF misread' = misread THEN 0 ELSE Reach
<1>5. Reach * misread' = r + x
  BY <1>1, <1>3
<1>6. Credit' = Len(delivered') + 2 * (failures' + torn') + Reach * misread'
                  + InFlight' - Len(accepted')
  BY DEF Credit, Reach, FrameBytes, HeaderBytes
<1>7. Credit = Len(delivered) + 2 * (failures + torn) + r + InFlight
                 - Len(accepted)
  BY DEF Credit
<1>8. r \in Nat /\ x \in Nat
  BY <1>1, <1>3
<1> HIDE DEF r, x
<1>9. Credit' = Credit + (Len(delivered') - Len(delivered)) + x
                   + (InFlight' - InFlight)
  BY <1>1, <1>2, <1>4, <1>5, <1>6, <1>7, <1>8
<1>10. Credit' \in Int
  BY <1>1, <1>2, <1>4, <1>8, <1>9
<1> QED
  BY <1>1, <1>2, <1>3, <1>4, <1>9, <1>10 DEF x

(* A byte for a host that was not misled by a torn capture.                *)
LEMMA TrueShift ==
  ASSUME OrderInv, OrderInv', ShiftByte, ScanIsTrue,
         NEW m \in Nat, Aligned(m), m <= Credit
  PROVE  Recovery'
<1>1. ScanIsTrue' /\ frame' = frame
  BY ShiftCounts DEF ScanIsTrue, clkVars
<1>2. CASE ~hadData
  <2>1. /\ assembly' = assembly /\ byteIndex' = byteIndex
        /\ misread' = misread /\ InFlight' = InFlight
        /\ delivered' = delivered
    BY <1>2, ShiftCounts DEF ShiftByte, ScanIsTrue
  <2>2. Aligned(m)'
    BY <1>1, <2>1, AlignedStays
  <2>3. m <= Credit'
    BY <2>1, ShiftCredit
  <2> QED
    BY <1>1, <2>2, <2>3, RecoveryFrom
<1>3. CASE hadData
  <2>1. /\ frame \in Shares /\ word = Byte(frame, byteIndex)
        /\ byteIndex \in 0 .. FrameBytes - 1
        /\ \/ /\ byteIndex = FrameBytes - 1 /\ byteIndex' = 0
              /\ InFlight = 1 /\ InFlight' = 0
           \/ /\ byteIndex < FrameBytes - 1 /\ byteIndex' = byteIndex + 1
              /\ InFlight' = InFlight
    BY <1>3, ShiftCounts, Counts DEF ScanIsTrue
  <2>2. word \in Bytes /\ Receive(word)
    <3>1. word \in Bytes
      BY <2>1, BytesOfFrames DEF OrderInv, Handshake, TypeOK
    <3>2. word # NoData
      BY <3>1, NoDataAssumption
    <3> QED
      BY <3>1, <3>2 DEF ShiftByte
  <2>3. CASE AssembledSoFar
    <3>1. /\ misread' = misread /\ AssembledSoFar'
          /\ byteIndex' = byteIndex + 1 => Len(delivered') = Len(delivered)
          /\ byteIndex' = 0 => Len(delivered') = Len(delivered) + 1
      BY <1>1, <2>1, <2>2, <2>3, InStepShift
    <3>2. m <= Credit'
      BY <2>1, <3>1, ShiftCredit
    <3>3. AllAligned'
      BY <3>1, InStepAllAligned, PTL
    <3>4. Aligned(m)'
      BY <3>3 DEF AllAligned
    <3> QED
      BY <1>1, <3>2, <3>4, RecoveryFrom
  <2>4. CASE ~AssembledSoFar
    <3>1. PICK n \in Nat : n = IF byteIndex = FrameBytes - 1 THEN m - 1 ELSE m
      <4>1. m >= 1
        BY <2>4, StaleIsPaid
      <4> QED
        BY <4>1
    <3>2. \/ byteIndex' = byteIndex + 1 /\ n = m
          \/ byteIndex' = 0 /\ byteIndex = FrameBytes - 1 /\ n = m - 1
      BY <2>1, <3>1
    <3>3. n <= Credit + (InFlight' - InFlight)
      BY <2>1, <3>1, Counts
    <3>4. /\ misread' = misread \/ misread' = misread + 1
          /\ \A i \in Nat :
               i = (IF misread' = misread THEN n ELSE n + Reach)
                 => Aligned(i)'
      BY <1>1, <2>1, <2>2, <2>4, <3>1, <3>2, StaleShift
    <3>5. PICK k \in Nat : k = IF misread' = misread THEN n ELSE n + Reach
      BY ReachCovers
    <3>6. k <= Credit'
      BY <3>3, <3>4, <3>5, ShiftCredit
    <3>7. Aligned(k)'
      BY <3>4, <3>5
    <3> QED
      BY <1>1, <3>6, <3>7, RecoveryFrom
  <2> QED
    BY <2>3, <2>4
<1> QED
  BY <1>2, <1>3

(* A byte for a host that a torn capture may mislead.                      *)
LEMMA MisledShift ==
  ASSUME OrderInv, OrderInv', ShiftByte, byteIndex = 0,
         NEW m \in Nat, Aligned(m), m + 2 <= Credit
  PROVE  Recovery'
<1>1. /\ ScanIsTrue' /\ frame' = frame
      /\ byteIndex' = byteIndex \/ byteIndex' = byteIndex + 1
      /\ InFlight' = InFlight
  BY ShiftCounts DEF ScanIsTrue, clkVars
<1>2. CASE word = NoData
  <2>1. /\ assembly' = assembly /\ misread' = misread
        /\ delivered' = delivered
    BY <1>2 DEF ShiftByte
  <2>2. PICK n \in Nat : n = m + 2
    OBVIOUS
  <2>3. Aligned(n)'
    BY <1>1, <2>1, <2>2, ByteIsLost
  <2>4. n <= Credit'
    BY <1>1, <2>1, <2>2, ShiftCredit
  <2> QED
    BY <1>1, <2>3, <2>4, RecoveryFrom
<1>3. CASE word # NoData
  <2>1. word \in Bytes /\ Receive(word)
    BY <1>3 DEF ShiftByte, OrderInv, Handshake, TypeOK
  <2>2. byteIndex' \in 0 .. 1
    BY <1>1
  <2>3. /\ misread' = misread \/ misread' = misread + 1
        /\ \A k \in Nat :
             k = (IF misread' = misread THEN m + 2 ELSE m + 2 + Reach)
               => Aligned(k)'
    BY <2>1, <2>2, TornShift
  <2>4. PICK k \in Nat :
          k = IF misread' = misread THEN m + 2 ELSE m + 2 + Reach
    BY ReachCovers
  <2>5. Aligned(k)'
    BY <2>3, <2>4
  <2>6. k <= Credit'
    BY <1>1, <2>3, <2>4, ShiftCredit
  <2> QED
    BY <1>1, <2>5, <2>6, RecoveryFrom
<1> QED
  BY <1>2, <1>3

(* What a step changes in the credit that delivers nothing.                *)
LEMMA CreditOf ==
  ASSUME OrderInv, OrderInv', delivered' = delivered, misread' = misread
  PROVE  /\ Credit \in Int /\ Credit' \in Int
         /\ InFlight \in 0 .. 1 /\ InFlight' \in 0 .. 1
         /\ Len(accepted) \in Nat /\ Len(accepted') \in Nat
         /\ failures \in Nat /\ torn \in Nat
         /\ failures' \in Nat /\ torn' \in Nat
         /\ Credit' = Credit + 2 * (failures' - failures) + 2 * (torn' - torn)
                        + (InFlight' - InFlight)
                        - (Len(accepted') - Len(accepted))
<1> DEFINE r == Reach * misread
           a == Len(accepted)
           d == Len(delivered)
<1>1. /\ a \in Nat /\ d \in Nat /\ failures \in Nat /\ torn \in Nat
      /\ r \in Nat /\ InFlight \in 0 .. 1
  BY Counts
<1>2. /\ a' \in Nat /\ failures' \in Nat /\ torn' \in Nat
      /\ InFlight' \in 0 .. 1
  BY DEF InFlight, OrderInv, Handshake, TypeOK
<1>3. Credit' = d + 2 * (failures' + torn') + r + InFlight' - a'
  BY DEF Credit, Reach, FrameBytes, HeaderBytes
<1>4. Credit = d + 2 * (failures + torn) + r + InFlight - a
  BY DEF Credit
<1>5. a' = Len(accepted')
  OBVIOUS
<1> HIDE DEF r, a, d
<1>6. /\ Credit \in Int /\ Credit' \in Int
      /\ Credit' = Credit + 2 * (failures' - failures) + 2 * (torn' - torn)
                     + (InFlight' - InFlight) - (a' - a)
  BY <1>1, <1>2, <1>3, <1>4
<1> QED
  BY <1>1, <1>2, <1>5, <1>6 DEF a

(* A byte that the host never sees costs two shares at most.               *)
LEMMA LoseRecovers ==
  ASSUME OrderInv, OrderInv', LoseByte, Recovery PROVE Recovery'
<1>1. PICK m \in Nat : Aligned(m) /\ m <= Credit
  BY Counts DEF Recovery
<1>2. /\ AdvanceByte /\ UNCHANGED clkVars
      /\ UNCHANGED <<accepted, delivered, torn, misread>>
      /\ failures' = failures + 1
      /\ assembly' = assembly \/ assembly' = <<>>
  BY DEF LoseByte, Disturb
<1>3. /\ scanning' = FALSE
      /\ \/ /\ byteIndex' = byteIndex \/ byteIndex' = byteIndex + 1
            /\ consumed' = consumed
         \/ byteIndex' = 0 /\ byteIndex = FrameBytes - 1
  BY <1>2, AdvanceDoes DEF OrderInv
<1>4. ScanIsTrue' /\ frame' = frame
  BY <1>2, <1>3 DEF ScanIsTrue, clkVars
<1>5. InFlight' \in 0 .. 1 /\ (consumed' = consumed => InFlight' = InFlight)
  BY <1>2 DEF InFlight, clkVars
<1>6. /\ Credit \in Int /\ Credit' \in Int
      /\ consumed' = consumed => Credit' = Credit + 2
      /\ Credit' >= Credit + 1
  <2>1. delivered' = delivered /\ misread' = misread
    BY <1>2
  <2>2. /\ Credit \in Int /\ Credit' \in Int
        /\ InFlight \in 0 .. 1 /\ InFlight' \in 0 .. 1
        /\ Len(accepted) \in Nat /\ failures \in Nat /\ torn \in Nat
        /\ Credit' = Credit + 2 * (failures' - failures) + 2 * (torn' - torn)
                       + (InFlight' - InFlight)
                       - (Len(accepted') - Len(accepted))
    BY <2>1, CreditOf
  <2>3. Len(accepted') = Len(accepted) /\ torn' = torn
    BY <1>2
  <2> DEFINE a == Len(accepted)
             a2 == Len(accepted')
             x == InFlight
             x2 == InFlight'
             c == Credit
             c2 == Credit'
  <2>4. /\ a2 = a /\ a \in Nat /\ x \in 0 .. 1 /\ x2 \in 0 .. 1
        /\ c \in Int /\ c2 \in Int /\ failures \in Nat /\ torn \in Nat
        /\ c2 = c + 2 * (failures' - failures) + 2 * (torn' - torn)
                  + (x2 - x) - (a2 - a)
        /\ consumed' = consumed => x2 = x
    BY <1>5, <2>2, <2>3
  <2> HIDE DEF a, a2, x, x2, c, c2
  <2>5. c2 = c + 2 + (x2 - x)
    BY <1>2, <2>3, <2>4
  <2>6. c2 >= c + 1 /\ (consumed' = consumed => c2 = c + 2)
    BY <2>4, <2>5
  <2> QED
    BY <2>4, <2>6 DEF c, c2
<1>7. PICK n \in Nat : n = IF consumed' = consumed THEN m + 2 ELSE m + 1
  OBVIOUS
<1>8. n <= Credit'
  BY <1>1, <1>5, <1>6, <1>7
<1>9. CASE /\ byteIndex' = byteIndex \/ byteIndex' = byteIndex + 1
           /\ consumed' = consumed
  <2>1. Aligned(n)'
    BY <1>1, <1>2, <1>4, <1>7, <1>9, ByteIsLost
  <2> QED
    BY <1>4, <1>8, <2>1, RecoveryFrom
<1>10. CASE byteIndex' = 0 /\ byteIndex = FrameBytes - 1
  <2>1. PICK k \in Nat : k = m + 1
    OBVIOUS
  <2>2. Aligned(k)'
    BY <1>1, <1>2, <1>4, <1>10, <2>1, ByteIsLost
  <2>3. k <= Credit'
    BY <1>1, <1>5, <1>6, <2>1
  <2> QED
    BY <1>4, <2>2, <2>3, RecoveryFrom
<1> QED
  BY <1>3, <1>9, <1>10

(* Between two frames nothing is in step, so a new frame changes nothing.  *)
LEMMA AlignedBetween ==
  ASSUME OrderInv, NEW m \in Nat, Aligned(m), byteIndex = 0,
         UNCHANGED <<assembly, byteIndex>>
  PROVE  Aligned(m)'
<1>1. \A k \in 1 .. 5 : ~InStep(k)
  BY DEF InStep
<1>2. Len(assembly) >= 6 => ~AssembledSoFar
  <2> DEFINE l == Len(assembly)
  <2>1. AssembledSoFar => l = 0
    BY DEF AssembledSoFar
  <2> HIDE DEF l
  <2>2. l >= 6 => l # 0
    OBVIOUS
  <2> QED
    BY <2>1, <2>2 DEF l
<1>3. CASE Len(assembly) >= 6
  <2>1. HeaderPaid(m)
    BY <1>2, <1>3 DEF Aligned
  <2>2. HeaderPaid(m)'
    BY <2>1 DEF HeaderPaid, LengthOf, Budget, FrameBytes, HeaderBytes
  <2>3. Len(assembly') \in Nat /\ Len(assembly') >= 6
    BY <1>3, Counts
  <2> QED
    BY <2>2, <2>3, AlignedHeader
<1>4. CASE Len(assembly) < 6
  <2>1. \A i \in 1 .. 5 : Begins(assembly, i) => StartPaid(i, m)
    BY <1>1, <1>4 DEF Aligned
  <2>2. \A i \in 1 .. 5 : StartPaid(i, m) => StartPaid(i, m)'
    BY DEF StartPaid, Budget, FrameBytes, HeaderBytes
  <2>3. \A i \in 1 .. 5 :
          Begins(assembly', i) => InStep(i)' \/ StartPaid(i, m)'
    BY <2>1, <2>2
  <2>4. Len(assembly') \in Nat /\ Len(assembly') < 6 /\ ~(byteIndex' > 0)
    BY <1>4, Counts
  <2> QED
    BY <2>3, <2>4, AlignedStarts
<1>5. Len(assembly) < 6 \/ Len(assembly) >= 6
  BY Counts
<1> QED
  BY <1>3, <1>4, <1>5

(* A step that leaves scan, budget and credit alone keeps the recovery.    *)
LEMMA RecoveryStays ==
  ASSUME Recovery, byteIndex' = byteIndex, ScanIsTrue => ScanIsTrue',
         Credit' = Credit, \A m \in Nat : Aligned(m) => Aligned(m)'
  PROVE  Recovery'
<1>1. PICK m \in Nat :
        /\ Aligned(m)
        /\ \/ ScanIsTrue /\ m <= Credit
           \/ byteIndex = 0 /\ m + 2 <= Credit
  BY DEF Recovery
<1>2. /\ Aligned(m)'
      /\ \/ ScanIsTrue' /\ m <= Credit'
         \/ byteIndex' = 0 /\ m + 2 <= Credit'
  BY <1>1
<1> QED
  BY <1>2 DEF Recovery

(* A share is taken from the miner: it is in flight.                       *)
LEMMA AcceptRecovers ==
  ASSUME OrderInv, OrderInv', Recovery, ClkEdge, produced' = ~produced,
         ShareReady, Len(accepted') = Len(accepted) + 1
  PROVE  Recovery'
<1>1. produced = consumed /\ byteIndex = 0 /\ ~hadData
  BY ReadyIsIdle DEF OrderInv
<1>2. /\ UNCHANGED <<jtagVars, assembly>>
      /\ delivered' = delivered /\ misread' = misread
      /\ failures' = failures /\ torn' = torn
  BY DEF ClkEdge
<1>3. InFlight = 0 /\ InFlight' = 1
  BY <1>1, <1>2 DEF InFlight, jtagVars, OrderInv, Handshake, TypeOK
<1>4. Credit' = Credit
  <2>1. /\ Credit \in Int /\ Credit' \in Int
        /\ Len(accepted) \in Nat /\ failures \in Nat /\ torn \in Nat
        /\ Credit' = Credit + 2 * (failures' - failures) + 2 * (torn' - torn)
                       + (InFlight' - InFlight)
                       - (Len(accepted') - Len(accepted))
    BY <1>2, CreditOf
  <2> DEFINE a == Len(accepted)
             a2 == Len(accepted')
             c == Credit
             c2 == Credit'
  <2>2. /\ c \in Int /\ c2 \in Int /\ a \in Nat
        /\ failures \in Nat /\ torn \in Nat /\ a2 = a + 1
        /\ c2 = c + 2 * (failures' - failures) + 2 * (torn' - torn)
                  + (1 - 0) - (a2 - a)
    BY <1>3, <2>1
  <2> HIDE DEF a, a2, c, c2
  <2>3. c2 = c
    BY <1>2, <2>2
  <2> QED
    BY <2>3 DEF c, c2
<1>5. byteIndex' = byteIndex /\ (ScanIsTrue => ScanIsTrue')
  BY <1>1, <1>2 DEF ScanIsTrue, jtagVars
<1>6. \A m \in Nat : Aligned(m) => Aligned(m)'
  BY <1>1, <1>2, AlignedBetween DEF jtagVars
<1> QED
  BY <1>4, <1>5, <1>6, RecoveryStays

(* Steps that touch neither the counts nor the toggles keep the credit.    *)
LEMMA SameCredit ==
  ASSUME UNCHANGED <<accepted, delivered, failures, torn, misread, produced,
                     consumed>>
  PROVE  Credit' = Credit
BY DEF Credit, InFlight, Reach, FrameBytes, HeaderBytes

(* A capture shows the byte that is there, or is torn at the first one.    *)
LEMMA CaptureRecovers ==
  ASSUME OrderInv, OrderInv', Recovery, Capture PROVE Recovery'
<1>1. PICK m \in Nat : Aligned(m) /\ m <= Credit
  BY Counts DEF Recovery
<1>2. /\ UNCHANGED <<clkVars, consumed, byteIndex, assembly, accepted,
                     delivered, failures, misread>>
      /\ torn' = IF settling THEN torn + 1 ELSE torn
  BY DEF Capture
<1>3. Aligned(m)'
  BY <1>1, <1>2, AlignedStays DEF clkVars
<1>4. CASE ~settling
  <2>1. ScanIsTrue'
    <3>1. /\ hadData' = (produced # consumed)
          /\ word' = IF produced # consumed THEN Byte(frame, byteIndex)
                     ELSE NoData
      BY <1>4 DEF Capture, Samples, ByteSamples
    <3> QED
      BY <1>2, <3>1 DEF ScanIsTrue, clkVars, Byte
  <2>2. Credit' = Credit
    BY <1>2, <1>4, SameCredit DEF clkVars
  <2> QED
    BY <1>1, <1>3, <2>1, <2>2, RecoveryFrom
<1>5. CASE settling
  <2>1. byteIndex' = 0
    BY <1>2, <1>5 DEF OrderInv, Handshake, SettlesAtFirstByte
  <2>2. Credit' = Credit + 2
    <3>1. /\ Len(accepted') = Len(accepted) /\ failures' = failures
          /\ torn' = torn + 1 /\ InFlight' = InFlight
      BY <1>2, <1>5 DEF InFlight, clkVars
    <3>2. /\ Credit \in Int /\ Credit' \in Int
          /\ InFlight \in 0 .. 1
          /\ Len(accepted) \in Nat /\ failures \in Nat /\ torn \in Nat
          /\ Credit' = Credit + 2 * (failures' - failures)
                         + 2 * (torn' - torn) + (InFlight' - InFlight)
                         - (Len(accepted') - Len(accepted))
      BY <1>2, CreditOf
    <3> DEFINE a == Len(accepted)
               x == InFlight
               c == Credit
               c2 == Credit'
    <3>3. /\ c \in Int /\ c2 \in Int /\ a \in Nat /\ x \in 0 .. 1
          /\ failures \in Nat /\ torn \in Nat
          /\ c2 = c + 2 * (failures' - failures) + 2 * (torn' - torn)
                    + (x - x) - (a - a)
      BY <3>1, <3>2
    <3> HIDE DEF a, x, c, c2
    <3>4. c2 = c + 2
      BY <3>1, <3>3
    <3> QED
      BY <3>4 DEF c, c2
  <2>3. m + 2 <= Credit'
    BY <1>1, <2>2, Counts
  <2> QED
    BY <1>3, <2>1, <2>3 DEF Recovery
<1> QED
  BY <1>4, <1>5

(* A restart empties the buffer in the middle of a frame, at worst.        *)
LEMMA RestartRecovers ==
  ASSUME OrderInv, OrderInv', Recovery, HostRestarts PROVE Recovery'
<1>1. PICK m \in Nat : Aligned(m) /\ m <= Credit
  BY Counts DEF Recovery
<1>2. /\ UNCHANGED <<clkVars, jtagVars, accepted, delivered, torn, misread>>
      /\ failures' = failures + 1 /\ assembly' = <<>> /\ ~scanning
  BY DEF HostRestarts, Disturb
<1>3. PICK n \in Nat : n = m + 2
  OBVIOUS
<1>4. Aligned(n)'
  BY <1>1, <1>2, <1>3, ByteIsLost DEF clkVars, jtagVars
<1>5. ScanIsTrue'
  BY <1>2 DEF ScanIsTrue, jtagVars
<1>6. Credit' = Credit + 2
  <2>1. /\ Len(accepted') = Len(accepted) /\ failures' = failures + 1
        /\ torn' = torn /\ InFlight' = InFlight
    BY <1>2 DEF InFlight, clkVars, jtagVars
  <2>2. /\ Credit \in Int /\ Credit' \in Int
        /\ InFlight \in 0 .. 1
        /\ Len(accepted) \in Nat /\ failures \in Nat /\ torn \in Nat
        /\ Credit' = Credit + 2 * (failures' - failures)
                       + 2 * (torn' - torn) + (InFlight' - InFlight)
                       - (Len(accepted') - Len(accepted))
    BY <1>2, CreditOf
  <2> DEFINE a == Len(accepted)
             x == InFlight
             c == Credit
             c2 == Credit'
  <2>3. /\ c \in Int /\ c2 \in Int /\ a \in Nat /\ x \in 0 .. 1
        /\ failures \in Nat /\ torn \in Nat
        /\ c2 = c + 2 * (failures' - failures) + 2 * (torn' - torn)
                  + (x - x) - (a - a)
    BY <2>1, <2>2
  <2> HIDE DEF a, x, c, c2
  <2>4. c2 = c + 2
    BY <2>1, <2>3
  <2> QED
    BY <2>4 DEF c, c2
<1>7. n <= Credit'
  BY <1>1, <1>3, <1>6, Counts
<1> QED
  BY <1>4, <1>5, <1>7, RecoveryFrom

(* Every step keeps the recovery.                                          *)
LEMMA StepRecovery ==
  ASSUME OrderInv, OrderInv', Recovery, [Next]_vars PROVE Recovery'
<1> DEFINE Same ==
      UNCHANGED <<assembly, byteIndex, frame, accepted, delivered, failures,
                  torn, misread, produced, consumed>>
<1>1. ASSUME Same, ScanIsTrue => ScanIsTrue' PROVE Recovery'
  <2>1. Credit' = Credit
    BY <1>1, SameCredit
  <2>2. \A m \in Nat : Aligned(m) => Aligned(m)'
    BY <1>1, AlignedStays
  <2> QED
    BY <1>1, <2>1, <2>2, RecoveryStays
<1>2. CASE ClkEdge
  <2>1. CASE UNCHANGED <<frame, produced, accepted>>
    <3>1. Same /\ (ScanIsTrue => ScanIsTrue')
      BY <1>2, <2>1 DEF ClkEdge, jtagVars, ScanIsTrue, Byte
    <3> QED
      BY <1>1, <3>1
  <2>2. CASE /\ ShareReady /\ produced' = ~produced
             /\ Len(accepted') = Len(accepted) + 1
    BY <1>2, <2>2, AcceptRecovers
  <2>3. accepted \in Seq(Shares)
    BY DEF OrderInv, Handshake, TypeOK
  <2> QED
    BY <1>2, <2>1, <2>2, <2>3 DEF ClkEdge
<1>3. CASE StatusPoll
  <2>1. Same /\ (ScanIsTrue => ScanIsTrue')
    BY <1>3 DEF StatusPoll, clkVars, jtagVars, ScanIsTrue, Byte
  <2> QED
    BY <1>1, <2>1
<1>4. CASE Capture
  BY <1>4, CaptureRecovers
<1>5. CASE ShiftByte
  <2>1. PICK m \in Nat :
          /\ Aligned(m)
          /\ \/ ScanIsTrue /\ m <= Credit
             \/ byteIndex = 0 /\ m + 2 <= Credit
    BY DEF Recovery
  <2> QED
    BY <1>5, <2>1, TrueShift, MisledShift
<1>6. CASE AbortScan
  <2>1. Same /\ ScanIsTrue'
    BY <1>6 DEF AbortScan, clkVars, ScanIsTrue
  <2> QED
    BY <1>1, <2>1
<1>7. CASE LoseByte
  BY <1>7, LoseRecovers
<1>8. CASE HostRestarts
  BY <1>8, RestartRecovers
<1>9. CASE UNCHANGED vars
  <2>1. Same /\ (ScanIsTrue => ScanIsTrue')
    BY <1>9 DEF vars, clkVars, jtagVars, ScanIsTrue, Byte
  <2> QED
    BY <1>1, <2>1
<1> QED
  BY <1>2, <1>3, <1>4, <1>5, <1>6, <1>7, <1>8, <1>9 DEF Next

(* A byte the host receives past the first of a frame is a true one.       *)
LEMMA TrueByte ==
  ASSUME OrderInv, ShiftByte, word \in Bytes, hadData \/ byteIndex > 0
  PROVE  /\ frame \in Shares /\ frame # Zero /\ frame' = frame
         /\ byteIndex > 0 => hadData /\ word = Byte(frame, byteIndex)
<1>1. frame \in Shares /\ frame # Zero /\ frame' = frame
  BY FrameIsShare DEF ShiftByte, clkVars
<1>2. byteIndex > 0 => hadData /\ word = Byte(frame, byteIndex)
  BY NoDataAssumption
     DEF ShiftByte, OrderInv, ScanShowsItsByte, ScanIsTrue, Handshake, TypeOK
<1> QED
  BY <1>1, <1>2

(* The header of a share is that of the frame being read.                  *)
LEMMA HeaderOfFrame ==
  ASSUME frame # Zero, NEW i \in 0 .. 5, NEW b, IsMagic(b, i)
  PROVE  b = Byte(frame, i)
  BY DEF IsMagic, Byte

(* A header that announces more than a share began at a stale start.       *)
LEMMA MisreadIsStale ==
  ASSUME OrderInv, OrderInv', ShiftByte, misread' # misread
  PROVE  HeaderStale /\ misread' = misread + 1 /\ Len(assembly') >= 6
<1> DEFINE t == Assemble(assembly, word)
           l == Len(assembly)
           T == LengthOf(t) > PayloadBytes
<1>1. word \in Bytes /\ Receive(word)
  BY DEF ShiftByte, OrderInv, Handshake, TypeOK
<1>2. assembly \in Seq(Bytes) /\ BufferOK /\ l \in Nat
  BY Counts DEF OrderInv, Handshake, TypeOK
<1>3. misread' = misread + 1 /\ Len(assembly') >= 6
  <2>1. assembly' = <<>> => misread' = misread
    <3>1. /\ misread' = IF l < 6 /\ Len(t) = 6 /\ T
                        THEN misread + 1 ELSE misread
          /\ assembly' = t \/ (assembly' = <<>> /\ l >= 6)
      BY <1>1, <1>2, ReceiveEffect
    <3>2. l >= 6 => ~(l < 6)
      BY <1>2
    <3>3. Len(<<>>) = 0
      OBVIOUS
    <3>4. Len(<<>>) # 6
      BY <3>3
    <3> HIDE DEF t, l, T
    <3> QED
      BY <3>1, <3>2, <3>4, Zenon
  <2> QED
    BY <1>1, <2>1, ReceiveCases
<1>4. l = 5
  <2>1. misread' = IF l < 6 /\ Len(t) = 6 /\ T THEN misread + 1 ELSE misread
    BY <1>1, <1>2, ReceiveEffect
  <2>2. l < 6 => (Len(t) = 6 => l = 5)
    BY <1>1, <1>2, AssembleEffect
  <2> HIDE DEF t, l, T
  <2> QED
    BY <2>1, <2>2, Zenon
<1>5. Begins(assembly, 5) /\ l < 6
  <2>1. l \in 1 .. 5 /\ l < 6
    BY <1>4
  <2>2. Begins(assembly, l)
    BY <1>2, <2>1 DEF BufferOK
  <2> HIDE DEF l
  <2> QED
    BY <1>4, <2>1, <2>2
<1>6. ASSUME InStep(5) PROVE FALSE
  <2>1. byteIndex = 5 /\ AssembledSoFar
    <3>1. byteIndex = 5
      BY <1>6 DEF InStep
    <3>2. InStep(l)
      <4> HIDE DEF l
      <4> QED
        BY <1>4, <1>6
    <3> QED
      BY <3>1, <3>2, InStepWhole DEF OrderInv, Handshake
  <2>2. /\ frame \in Shares /\ frame' = frame
        /\ hadData /\ word = Byte(frame, byteIndex)
    BY <1>1, <2>1, TrueByte
  <2>3. byteIndex' = byteIndex + 1 /\ byteIndex < FrameBytes - 1
    BY <2>1, <2>2, ShiftCounts
  <2>4. misread' = misread
    BY <1>1, <2>1, <2>2, <2>3, InStepShift
  <2> QED
    BY <2>4
<1>7. HeaderStale
  <2>1. 5 \in 1 .. 5 /\ ~(5 = 1 /\ byteIndex = 0)
    OBVIOUS
  <2> QED
    BY <1>5, <1>6, <2>1 DEF HeaderStale, l
<1> QED
  BY <1>3, <1>7

(* A byte that comes makes no start stale.                                 *)
LEMMA StaleWasStale ==
  ASSUME OrderInv, OrderInv', ShiftByte, HeaderStale'
  PROVE  HeaderStale
<1> DEFINE s == Append(assembly, word)
<1>1. PICK i \in 1 .. 5 : /\ Begins(assembly', i) /\ ~InStep(i)'
                          /\ ~(i = 1 /\ byteIndex' = 0)
  BY DEF HeaderStale
<1>2. /\ Len(assembly') < 6 /\ assembly \in Seq(Bytes)
      /\ word \in Bytes \cup {NoData}
  BY DEF HeaderStale, OrderInv, Handshake, TypeOK
<1>3. /\ byteIndex \in 0 .. FrameBytes - 1 /\ Len(assembly) \in Nat
      /\ \/ byteIndex' = byteIndex \/ byteIndex' = 0
         \/ byteIndex' = byteIndex + 1
      /\ byteIndex' = 0 => byteIndex = 0 \/ byteIndex = FrameBytes - 1
      /\ frame' = frame
  BY Counts, ShiftCounts DEF clkVars
<1>4. CASE word = NoData
  <2>1. assembly' = assembly
    BY <1>4 DEF ShiftByte
  <2>2. CASE byteIndex' = byteIndex
    <3>1. InStep(i)' <=> InStep(i)
      BY <1>3, <2>1, <2>2 DEF InStep, At, Byte
    <3> QED
      BY <1>1, <1>2, <2>1, <2>2, <3>1 DEF HeaderStale
  <2>3. CASE byteIndex' # byteIndex
    <3>1. hadData
      BY <2>3, ShiftCounts
    <3>2. byteIndex = 0
      <4>1. ASSUME byteIndex > 0 PROVE FALSE
        <5>1. /\ scanning /\ frame \in Shares
              /\ scanning => IF hadData THEN word = Byte(frame, byteIndex)
                             ELSE word = NoData
          BY <4>1, FrameIsShare
             DEF ShiftByte, OrderInv, ScanShowsItsByte, ScanIsTrue
        <5>2. Byte(frame, byteIndex) \in Bytes
          BY <1>3, <5>1, BytesOfFrames DEF Positions
        <5> QED
          BY <1>4, <3>1, <5>1, <5>2, NoDataAssumption
      <4> QED
        BY <1>3, <4>1
    <3>3. byteIndex' = 1 /\ frame # Zero
      BY <1>3, <2>3, <3>1, <3>2, FrameIsShare
    <3>4. CASE i = 1
      <4>1. At(assembly, 1) = Byte(frame, 0)
        BY <1>1, <2>1, <3>3, <3>4, HeaderOfFrame DEF Begins
      <4>2. InStep(1)'
        BY <1>3, <2>1, <3>3, <4>1 DEF InStep, At, Byte
      <4> QED
        BY <1>1, <3>4, <4>2
    <3>5. CASE i # 1
      <4>1. ~InStep(i)
        BY <3>2 DEF InStep
      <4> QED
        BY <1>1, <1>2, <2>1, <3>5, <4>1 DEF HeaderStale
    <3> QED
      BY <3>4, <3>5
  <2> QED
    BY <2>2, <2>3
<1>5. CASE word # NoData
  <2>1. /\ word \in Bytes /\ Receive(word) /\ word.pos = byteIndex
    BY <1>2, <1>5 DEF ShiftByte, OrderInv, ScanShowsItsByte
  <2>2. /\ Len(assembly) < 6 /\ Suffix(assembly', s)
        /\ assembly' \in Seq(Bytes) /\ Len(assembly') \in Nat
        /\ i \in 1 .. Len(assembly')
    <3>1. i \in 1 .. Len(assembly')
      BY <1>1 DEF Begins
    <3>2. assembly' # <<>>
      BY <3>1
    <3>3. Len(assembly') \in Nat
      BY <2>1, ReceiveCases
    <3>4. ~(Len(assembly') >= 6)
      BY <1>2, <3>3, AroundSix, Zenon
    <3> QED
      BY <2>1, <3>1, <3>2, <3>4, ReceiveCases, Zenon
  <2>3. /\ s \in Seq(Bytes) /\ Len(s) = Len(assembly) + 1
        /\ Begins(s, 1) <=> IsMagic(word, 0)
        /\ \A j \in 1 .. Len(assembly) :
             Begins(s, j + 1) <=> IF j = 1
                                  THEN Begins(assembly, 1) /\ IsMagic(word, 1)
                                  ELSE Begins(assembly, j)
    BY <1>2, <2>1, OneMore
  <2>4. Begins(s, i)
    BY <1>1, <2>2, <2>3, SuffixBegins
  <2> DEFINE k == i - 1
  <2>5. k \in 0 .. 4 /\ i = k + 1 /\ k <= Len(assembly)
    BY <1>3, <2>2, <2>3, <2>4 DEF Begins
  <2> HIDE DEF k, s
  <2>6. ASSUME k = byteIndex, k > 0 => InStep(k), hadData PROVE FALSE
    <3>1. /\ byteIndex' = byteIndex + 1 /\ frame' = frame
          /\ frame \in Shares /\ frame # Zero
      BY <2>5, <2>6, ShiftCounts, FrameIsShare DEF clkVars
    <3>2. word = Byte(frame, byteIndex)
      <4>1. CASE byteIndex > 0
        BY <2>1, <2>6, <4>1, TrueByte
      <4>2. CASE byteIndex = 0
        <5>1. IsMagic(word, 0)
          BY <2>3, <2>4, <2>5, <2>6, <4>2
        <5> QED
          BY <3>1, <4>2, <5>1, HeaderOfFrame
      <4> QED
        BY <1>3, <4>1, <4>2
    <3>3. k \in Nat /\ k + 1 <= Len(assembly')
      BY <2>2, <2>5
    <3>4. InStep(k + 1)'
      BY <2>1, <2>2, <2>5, <2>6, <3>1, <3>2, <3>3, InStepGrows DEF s
    <3> QED
      BY <1>1, <2>5, <3>4
  <2>7. CASE k = 0
    <3>1. IsMagic(word, 0)
      BY <2>3, <2>4, <2>5, <2>7
    <3>2. byteIndex = 0
      BY <2>1, <3>1 DEF IsMagic
    <3>3. byteIndex' # 0
      BY <1>1, <2>5, <2>7
    <3>4. hadData
      BY <3>2, <3>3, ShiftCounts
    <3> QED
      BY <2>6, <2>7, <3>2, <3>4
  <2>8. CASE k > 0
    <3>1. k \in 1 .. Len(assembly) /\ k \in 1 .. 5
      BY <2>5, <2>8
    <3>2. /\ Begins(assembly, k)
          /\ k = 1 => IsMagic(word, 1)
      BY <2>3, <2>4, <2>5, <3>1
    <3>3. CASE ~InStep(k)
      <4>1. CASE k = 1
        <5>1. byteIndex = 1
          BY <2>1, <3>2, <4>1 DEF IsMagic
        <5>2. frame # Zero
          BY <5>1, FrameIsShare
        <5>3. At(assembly, 1) = Byte(frame, 0)
          BY <3>2, <4>1, <5>2, HeaderOfFrame DEF Begins
        <5>4. InStep(1)
          BY <5>1, <5>3 DEF InStep
        <5> QED
          BY <3>3, <4>1, <5>4
      <4>2. CASE k # 1
        BY <2>2, <3>1, <3>2, <3>3, <4>2 DEF HeaderStale
      <4> QED
        BY <4>1, <4>2
    <3>4. CASE InStep(k)
      <4>1. k = byteIndex /\ byteIndex > 0
        BY <2>8, <3>4 DEF InStep
      <4>2. hadData
        BY <2>1, <4>1, TrueByte
      <4> QED
        BY <2>6, <3>4, <4>1, <4>2
    <3> QED
      BY <3>3, <3>4
  <2> QED
    BY <2>5, <2>7, <2>8
<1> QED
  BY <1>4, <1>5

(* Every step keeps the misread headers behind the failures.               *)
LEMMA StepOneEach ==
  ASSUME OrderInv, OrderInv', OneEach, [Next]_vars PROVE OneEach'
<1>0. misread \in Nat /\ failures \in Nat
  BY DEF OrderInv, Handshake, TypeOK
<1>1. ASSUME UNCHANGED <<misread, failures>>, HeaderStale' => HeaderStale
      PROVE  OneEach'
  BY <1>1 DEF OneEach
<1>2. ASSUME UNCHANGED <<misread, failures, assembly, byteIndex, frame>>
      PROVE  OneEach'
  <2>1. HeaderStale' => HeaderStale
    BY <1>2 DEF HeaderStale, Begins, InStep, At, IsMagic, Byte
  <2> QED
    BY <1>1, <1>2, <2>1
<1>3. CASE ClkEdge
  <2>1. UNCHANGED <<misread, failures, assembly, byteIndex>>
    BY <1>3 DEF ClkEdge, jtagVars
  <2>2. CASE frame' = frame
    BY <1>2, <2>1, <2>2
  <2>3. CASE frame' # frame
    <3>1. byteIndex = 0
      BY <1>3, <2>3, ReadyIsIdle DEF ClkEdge, OrderInv
    <3>2. HeaderStale' => HeaderStale
      <4>1. \A k \in 1 .. 5 : ~InStep(k)
        BY <3>1 DEF InStep
      <4> QED
        BY <2>1, <4>1 DEF HeaderStale, Begins, At, IsMagic
    <3> QED
      BY <1>1, <2>1, <3>2
  <2> QED
    BY <2>2, <2>3
<1>4. CASE StatusPoll \/ Capture \/ AbortScan \/ UNCHANGED vars
  BY <1>2, <1>4 DEF StatusPoll, Capture, AbortScan, vars, clkVars, jtagVars
<1>5. CASE ShiftByte
  <2>1. failures' = failures
    BY <1>5 DEF ShiftByte
  <2>2. CASE misread' = misread
    BY <1>1, <1>5, <2>1, <2>2, StaleWasStale
  <2>3. CASE misread' # misread
    <3>1. HeaderStale /\ misread' = misread + 1 /\ Len(assembly') >= 6
      BY <1>5, <2>3, MisreadIsStale
    <3>2. ~HeaderStale'
      <4>1. Len(assembly') \in Nat
        BY DEF OrderInv, Handshake, TypeOK
      <4>2. ~(Len(assembly') < 6)
        BY <3>1, <4>1, AroundSix, Zenon
      <4> QED
        BY <4>2, Zenon DEF HeaderStale
    <3>3. misread' <= failures'
      BY <1>0, <2>1, <3>1 DEF OneEach
    <3> QED
      BY <3>2, <3>3 DEF OneEach
  <2> QED
    BY <2>2, <2>3
<1>6. CASE LoseByte \/ HostRestarts
  <2>1. misread' = misread /\ failures' = failures + 1
    BY <1>6 DEF LoseByte, HostRestarts, Disturb
  <2>2. misread' <= failures' /\ misread' < failures'
    BY <1>0, <2>1 DEF OneEach
  <2> QED
    BY <2>2 DEF OneEach
<1> QED
  BY <1>3, <1>4, <1>5, <1>6 DEF Next

(* Nothing is owed at the start.                                           *)
LEMMA InitLoss == Init => LossInv
<1> SUFFICES ASSUME Init PROVE LossInv
  OBVIOUS
<1>1. OrderInv
  BY InitOrder
<1>2. Len(assembly) = 0 /\ byteIndex = 0 /\ ~scanning
  BY DEF Init
<1>3. Aligned(0)
  <2>1. ~(Len(assembly) >= 6) /\ \A i : ~Begins(assembly, i)
    BY <1>2 DEF Begins
  <2> QED
    BY <1>2, <2>1 DEF Aligned
<1>4. ScanIsTrue
  BY <1>2 DEF ScanIsTrue
<1>5. Credit = 0
  <2>1. /\ Len(accepted) = 0 /\ Len(delivered) = 0 /\ failures = 0
        /\ torn = 0 /\ misread = 0 /\ InFlight = 0 /\ Reach \in Nat
    BY ReachCovers DEF Init, InFlight
  <2>2. Reach * misread = 0
    BY <2>1
  <2> QED
    BY <2>1, <2>2 DEF Credit
<1>6. OneEach
  <2>1. \A i : ~Begins(assembly, i)
    BY <1>2 DEF Begins
  <2>2. misread <= failures
    BY DEF Init
  <2> QED
    BY <2>1, <2>2 DEF OneEach, HeaderStale
<1> QED
  BY <1>1, <1>3, <1>4, <1>5, <1>6 DEF LossInv, Recovery

(* What is owed stays paid for.                                            *)
LEMMA StepLoss == LossInv /\ [Next]_vars => LossInv'
BY StepOrder, StepRecovery, StepOneEach DEF LossInv

(* LossIsBounded: whatever the order of bytes lost, captures torn and      *)
(* hosts restarted, each of them costs two shares at most, but for those a *)
(* misread length reaches over, and no failure makes the host misread two  *)
(* headers (fjar_bridge.py _pop_frame behind the JTAG mailbox).            *)
THEOREM MailboxLossBounded == Spec => []LossIsBounded
<1>1. LossInv => LossIsBounded
  <2> SUFFICES ASSUME LossInv PROVE LossIsBounded
    OBVIOUS
  <2>1. OrderInv
    BY DEF LossInv
  <2>2. 0 <= Credit
    <3>1. PICK m \in Nat : m <= Credit \/ m + 2 <= Credit
      BY DEF LossInv, Recovery
    <3> QED
      BY <2>1, <3>1, Counts
  <2>3. Len(accepted)
          <= Len(delivered) + 2 * (failures + torn) + Reach * misread + 1
    <3> DEFINE a == Len(accepted)
               d == Len(delivered)
               r == Reach * misread
    <3>1. /\ a \in Nat /\ d \in Nat /\ r \in Nat /\ InFlight \in 0 .. 1
          /\ failures \in Nat /\ torn \in Nat
          /\ 0 <= d + 2 * (failures + torn) + r + InFlight - a
      BY <2>1, <2>2, Counts DEF Credit
    <3> HIDE DEF a, d, r
    <3>2. a <= d + 2 * (failures + torn) + r + 1
      BY <3>1
    <3> QED
      BY <3>2 DEF a, d, r
  <2> QED
    BY <2>3 DEF LossIsBounded, LossInv, OneEach
<1> QED
  BY <1>1, InitLoss, StepLoss, PTL DEF Spec
=============================================================================
