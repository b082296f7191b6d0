--------------------------- MODULE DualMinerProofs ---------------------------
(***************************************************************************)
(* Proofs about the host of one dual carrier, for every pool, card, clock  *)
(* and pair of even moduli: the two FPGAs work apart and in step, a share  *)
(* is reported for the FPGA that found it, and the pool sees the client    *)
(* that WalletSession describes.                                           *)
(***************************************************************************)
EXTENDS DualMiner, Integers, TLAPS

-----------------------------------------------------------------------------
(* Division with remainder.                                                *)

(* Division with remainder, as the provers know it.                        *)
LEMMA RemainderOf ==
  ASSUME NEW n \in Nat \ {0}, NEW a \in Nat
  PROVE  /\ a % n \in 0 .. n - 1 /\ a \div n \in Int
         /\ a = n * (a \div n) + (a % n)
  OBVIOUS

(* The remainder of a number is determined by the equation that defines    *)
(* it.                                                                     *)
LEMMA RemainderUnique ==
  ASSUME NEW n \in Nat \ {0}, NEW p \in Int, NEW q \in Int,
         NEW r \in 0 .. n - 1, NEW s \in 0 .. n - 1,
         n * p + r = n * q + s
  PROVE  r = s
<1>1. CASE p = q
  BY <1>1
<1>2. CASE p < q
  <2>1. n * (q - p) >= n
    BY <1>2
  <2>2. n * (q - p) = r - s
    BY <2>1
  <2> QED
    BY <2>1, <2>2
<1>3. CASE p > q
  <2>1. n * (p - q) >= n
    BY <1>3
  <2>2. n * (p - q) = s - r
    BY <2>1
  <2> QED
    BY <2>1, <2>2
<1> QED
  BY <1>1, <1>2, <1>3

(* A number below the divisor is its own remainder.                        *)
LEMMA SmallRemainder ==
  ASSUME NEW n \in Nat \ {0}, NEW a \in 0 .. n - 1
  PROVE  a % n = a
<1>1. /\ a % n \in 0 .. n - 1 /\ a \div n \in Int
      /\ a = n * (a \div n) + (a % n)
  BY RemainderOf
<1>2. n * 0 + a = n * (a \div n) + (a % n)
  BY <1>1
<1> QED
  BY <1>1, <1>2, RemainderUnique

(* One more is the next remainder, or the first again.                     *)
LEMMA NextRemainder ==
  ASSUME NEW n \in Nat \ {0}, NEW a \in Nat
  PROVE  (a + 1) % n = IF a % n = n - 1 THEN 0 ELSE (a % n) + 1
<1> DEFINE q == a \div n
           r == a % n
<1>1. r \in 0 .. n - 1 /\ a = n * q + r /\ q \in Int
  BY RemainderOf
<1>2. /\ (a + 1) % n \in 0 .. n - 1 /\ (a + 1) \div n \in Int
      /\ a + 1 = n * ((a + 1) \div n) + ((a + 1) % n)
  BY RemainderOf
<1> HIDE DEF q, r
<1>3. CASE r = n - 1
  <2>1. a + 1 = n * (q + 1) + 0 /\ q + 1 \in Int /\ 0 \in 0 .. n - 1
    BY <1>1, <1>3
  <2>2. (a + 1) % n = 0
    BY <2>1, <1>2, RemainderUnique
  <2> QED
    BY <1>3, <2>2 DEF r
<1>4. CASE r # n - 1
  <2>1. a + 1 = n * q + (r + 1) /\ r + 1 \in 0 .. n - 1
    BY <1>1, <1>4
  <2>2. (a + 1) % n = r + 1
    BY <2>1, <1>1, <1>2, RemainderUnique
  <2> QED
    BY <1>4, <2>2 DEF r
<1> QED
  BY <1>3, <1>4

(* Even and odd numbers alternate.                                         *)
LEMMA NextParity ==
  ASSUME NEW a \in Nat
  PROVE  /\ a % 2 \in {0, 1}
         /\ (a + 1) % 2 = 1 - (a % 2) /\ (a + 2) % 2 = a % 2
<1>1. /\ a % 2 \in 0 .. 1
      /\ (a + 1) % 2 = IF a % 2 = 1 THEN 0 ELSE (a % 2) + 1
  BY RemainderOf, NextRemainder
<1>2. ((a + 1) + 1) % 2 = IF (a + 1) % 2 = 1 THEN 0 ELSE ((a + 1) % 2) + 1
  BY NextRemainder
<1>3. (a + 1) + 1 = a + 2
  OBVIOUS
<1> QED
  BY <1>1, <1>2, <1>3

(* An even modulus keeps the parity.                                       *)
LEMMA EvenModulus ==
  ASSUME NEW n \in Nat \ {0}, n % 2 = 0, NEW a \in Nat
  PROVE  (a % n) % 2 = a % 2
<1> DEFINE q == a \div n
           r == a % n
           k == n \div 2
           p == r \div 2
<1>1. q \in Int /\ r \in 0 .. n - 1 /\ a = n * q + r
  BY RemainderOf
<1>2. k \in Int /\ n = 2 * k + 0
  BY RemainderOf
<1>3. p \in Int /\ r % 2 \in 0 .. 1 /\ r = 2 * p + (r % 2)
  BY <1>1, RemainderOf
<1>4. a \div 2 \in Int /\ a % 2 \in 0 .. 1 /\ a = 2 * (a \div 2) + (a % 2)
  BY RemainderOf
<1> HIDE DEF q, r, k, p
<1>5. k * q + p \in Int /\ a = 2 * (k * q + p) + (r % 2)
  <2>1. n * q = 2 * (k * q)
    BY <1>1, <1>2
  <2> QED
    BY <1>1, <1>2, <1>3, <2>1
<1>6. r % 2 = a % 2
  BY <1>3, <1>4, <1>5, RemainderUnique
<1> QED
  BY <1>6 DEF r

-----------------------------------------------------------------------------
(* The inductive invariant.                                                *)

\* Lane A takes the odd tags and even extranonce2 values, B the others.
LaneParity(l) == IF l = "A" THEN 1 ELSE 0
OwnTag(l, tag) == tag % 2 = LaneParity(l)
OwnWork(l, work) == work.en2 % 2 = 1 - LaneParity(l)

(* The counters advance by pairs.                                          *)
EvenCounters == tagCounter % 2 = 0 /\ en2Counter % 2 = 0

(* Jobs, frames and shares keep to the tags of their lanes.                *)
JobsInPlace ==
  \A t \in Tags : jobs[t] # Null => OwnTag(jobs[t].device, t)
FramesInPlace ==
  \A l \in Lanes : fpga[l] # Null => /\ OwnTag(l, fpga[l].tag)
                                     /\ OwnWork(l, fpga[l].work)
ShareInPlace(share) == OwnTag(share.lane, share.tag)
SharesInPlace ==
  /\ \A l \in Lanes : mail[l] # Null => ShareInPlace(mail[l])
  /\ \A l \in Lanes : buffers[l] # Null => ShareInPlace(buffers[l])
  /\ \A i \in DOMAIN batch : ShareInPlace(batch[i])

(* The job table and what was sent are those of the session's wallet and   *)
(* extranonce1, which is assigned once.                                    *)
OwnSession ==
  /\ \A t \in Tags : jobs[t] # Null => /\ jobs[t].mode = feeMode
                                       /\ jobs[t].work.en1 = en1
  /\ \A i \in DOMAIN sent : sent[i].mode = feeMode /\ sent[i].en1 = en1
  /\ latest # Null => en1 # Null
  /\ pc # "idle" /\ en1 # Null => "subscribe" \in replied

SentRemembered == \A i \in DOMAIN sent : sent[i].key \in submitted

LinesOwed == pc = "lines" => lines # 0

(* A lane whose parser is inside a frame has none to its account.          *)
CutIsCounted == \A l \in Lanes : parser[l] = "inside" => whole[l] = 0

DualInv ==
  /\ TypeOK /\ LinesOwed
  /\ EvenCounters /\ JobsInPlace /\ FramesInPlace /\ SharesInPlace
  /\ OwnSession /\ SentRemembered
  /\ CutIsCounted /\ PairInStep /\ AssignedIsPhysical

-----------------------------------------------------------------------------
(* Lemmas on the operators.                                                *)

(* The tags of a pair follow each other and keep to the lanes.             *)
LEMMA PairTags ==
  ASSUME tagCounter \in Tags, tagCounter % 2 = 0
  PROVE  /\ \A l \in Lanes : TagFor(l) \in Tags /\ OwnTag(l, TagFor(l))
         /\ NextTag(TagFor("A")) = TagFor("B") /\ TagFor("A") # TagFor("B")
<1>1. /\ tagCounter \in Nat /\ tagCounter + 1 \in Nat
      /\ TagModulus \in Nat \ {0} /\ TagModulus % 2 = 0
  BY ModuliAssumption DEF Tags
<1>2. \A t \in Nat : NextTag(t) \in Tags /\ NextTag(t) % 2 = 1 - (t % 2)
  <2> SUFFICES ASSUME NEW t \in Nat
               PROVE  NextTag(t) \in Tags /\ NextTag(t) % 2 = 1 - (t % 2)
    OBVIOUS
  <2>1. (t + 1) % TagModulus \in Tags
    BY <1>1, RemainderOf DEF Tags
  <2>2. ((t + 1) % TagModulus) % 2 = (t + 1) % 2
    BY <1>1, EvenModulus
  <2>3. (t + 1) % 2 = 1 - (t % 2)
    BY NextParity
  <2> QED
    BY <2>1, <2>2, <2>3 DEF NextTag
<1>3. TagFor("A") \in Tags /\ TagFor("A") % 2 = 1
  BY <1>1, <1>2 DEF TagFor
<1>4. TagFor("A") \in Nat /\ TagFor("B") = NextTag(TagFor("A"))
  BY <1>3, <1>1 DEF TagFor, Tags
<1>5. TagFor("B") \in Tags /\ TagFor("B") % 2 = 0
  BY <1>2, <1>3, <1>4
<1> QED
  BY <1>3, <1>4, <1>5 DEF Lanes, OwnTag, LaneParity

(* The extranonce2 values of a pair keep to the lanes.                     *)
LEMMA PairExtranonce2 ==
  ASSUME en2Counter \in Nat, en2Counter % 2 = 0, NEW l \in Lanes
  PROVE  /\ Extranonce2For(l) \in 0 .. En2Modulus - 1
         /\ Extranonce2For(l) % 2 = 1 - LaneParity(l)
<1>1. \A n \in Nat : /\ Extranonce2(n) \in 0 .. En2Modulus - 1
                     /\ Extranonce2(n) % 2 = n % 2
  BY ModuliAssumption, RemainderOf, EvenModulus DEF Extranonce2
<1>2. en2Counter + 1 \in Nat /\ (en2Counter + 1) % 2 = 1
  BY NextParity
<1> QED
  BY <1>1, <1>2 DEF Extranonce2For, LaneParity, Lanes

(* build_job_pair makes two jobs, and a frame of each, in their places.    *)
LEMMA PairJobs ==
  ASSUME TypeOK, EvenCounters, en1 # Null, NEW pj \in PoolJobs, NEW l \in Lanes
  PROVE  /\ PairJob(pj, l) \in Job /\ PairJob(pj, l) # Null
         /\ FrameOf(PairJob(pj, l)) \in Frame /\ FrameOf(PairJob(pj, l)) # Null
         /\ PairJob(pj, l).device = l
         /\ PairJob(pj, l).mode = feeMode /\ PairJob(pj, l).work.en1 = en1
         /\ PairJob(pj, l).work.pj = pj
         /\ PairJob(pj, l).tag = TagFor(l)
         /\ OwnTag(l, TagFor(l))
         /\ OwnWork(l, PairJob(pj, l).work)
<1>1. TagFor(l) \in Tags /\ OwnTag(l, TagFor(l))
  BY PairTags DEF TypeOK, EvenCounters
<1>2. /\ Extranonce2For(l) \in 0 .. En2Modulus - 1
      /\ Extranonce2For(l) % 2 = 1 - LaneParity(l)
  BY PairExtranonce2 DEF TypeOK, EvenCounters
<1>3. PairJob(pj, l) \in Job /\ FrameOf(PairJob(pj, l)) \in Frame
  BY <1>1, <1>2 DEF TypeOK, PairJob, FrameOf, Job, Frame, Work
<1> QED
  BY <1>1, <1>2, <1>3, SentinelAssumption DEF PairJob, OwnWork

(* An accepted share has a job, and its key and its submission have their  *)
(* types.                                                                  *)
LEMMA AcceptedOK ==
  ASSUME TypeOK, batch # <<>>, ShareAccepted(Head(batch))
  PROVE  /\ Head(batch) \in Share /\ Head(batch).tag \in Tags
         /\ jobs[Head(batch).tag] \in Job /\ jobs[Head(batch).tag] # Null
         /\ ShareKey(Head(batch)) \in Key
         /\ ShareKey(Head(batch)) \notin submitted
         /\ Submission(Head(batch)) \in Submit
<1>1. Head(batch) \in Share
  BY DEF TypeOK
<1>2. Head(batch).tag \in Tags
  BY <1>1 DEF Share
<1>3. jobs[Head(batch).tag] \in Job /\ jobs[Head(batch).tag] # Null
  BY <1>2 DEF TypeOK, ShareAccepted
<1>4. ShareKey(Head(batch)) \in Key
  BY <1>1, <1>3 DEF ShareKey, Key, Job, Work, Share
<1>5. Submission(Head(batch)) \in Submit
  BY <1>1, <1>3, <1>4 DEF Submission, Submit, Job, Work, Share
<1> QED
  BY <1>1, <1>2, <1>3, <1>4, <1>5 DEF ShareAccepted, IsDuplicate

-----------------------------------------------------------------------------
(* The steps that the actions are composed of.                             *)

(* A pair is made and sent, or the session ends over it.                   *)
PairSent(pj) ==
  /\ RegisterPair(pj) /\ AdvanceExtranonce2
  /\ \/ SendPair(pj) /\ pc' \in {"mode", "lines", "recv"}
     \/ SendPairFails(pj) /\ pc' = "idle"

(* What a lane takes of the frames sent to it.                             *)
LEMMA Received ==
  ASSUME TypeOK, NEW frames \in [Lanes -> Frame], NEW toWhole, NEW toCut,
         Receive(frames, toWhole, toCut)
  PROVE  /\ fpga' \in [Lanes -> Frame \cup {Null}]
         /\ parser' \in [Lanes -> {"hunting", "inside"}]
         /\ whole' \in [Lanes -> 0 .. Enough] /\ events' \in Nat
         /\ \A l \in Lanes : fpga'[l] = fpga[l] \/ fpga'[l] = frames[l]
         /\ CutIsCounted'
<1> USE DEF Receive, TypeOK
<1>1. fpga' \in [Lanes -> Frame \cup {Null}]
  OBVIOUS
<1>2. parser' \in [Lanes -> {"hunting", "inside"}] /\ events' \in Nat
  OBVIOUS
<1>3. \A l \in Lanes : whole'[l] \in 0 .. Enough
  BY <1>2 DEF Enough
<1>4. whole' \in [Lanes -> 0 .. Enough]
  BY <1>3
<1>5. CutIsCounted'
  BY <1>2 DEF CutIsCounted
<1> QED
  BY <1>1, <1>2, <1>4, <1>5

(* A lane that took two frames in a row is on the work of the second.      *)
LEMMA TakenTwice ==
  ASSUME TypeOK, CutIsCounted, NEW frames \in [Lanes -> Frame],
         Receive(frames, Lanes, {}), NEW l \in Lanes, whole'[l] = Enough
  PROVE  fpga'[l] = frames[l]
<1>1. whole[l] \in 0 .. Enough /\ whole'[l] # 0
  BY DEF TypeOK, Enough
<1>2. whole[l] # 0
  BY <1>1 DEF Receive, Enough
<1>3. parser[l] = "hunting"
  BY <1>2 DEF CutIsCounted, TypeOK
<1> QED
  BY <1>3 DEF Receive

LEMMA PairTypes ==
  ASSUME TypeOK, EvenCounters, en1 # Null, NEW pj \in PoolJobs, PairSent(pj)
  PROVE  /\ tagCounter' \in Tags /\ jobs' \in [Tags -> Job \cup {Null}]
         /\ en2Counter' \in Nat /\ xvc' \in {"closed", "open"}
         /\ buffers' \in [Lanes -> Share \cup {Null}]
         /\ fpga' \in [Lanes -> Frame \cup {Null}]
         /\ parser' \in [Lanes -> {"hunting", "inside"}]
         /\ whole' \in [Lanes -> 0 .. Enough] /\ events' \in Nat
         /\ \A l \in Lanes : \/ fpga'[l] = fpga[l]
                             \/ fpga'[l] = FrameOf(PairJob(pj, l))
         /\ CutIsCounted => CutIsCounted'
<1>1. \A l \in Lanes : TagFor(l) \in Tags /\ PairJob(pj, l) \in Job
                       /\ FrameOf(PairJob(pj, l)) \in Frame
  BY PairJobs, PairTags DEF TypeOK, EvenCounters
<1>2. tagCounter' \in Tags /\ en2Counter' \in Nat
  BY <1>1 DEF PairSent, RegisterPair, AdvanceExtranonce2, TypeOK, Lanes
<1>3. jobs' \in [Tags -> Job \cup {Null}]
  BY <1>1 DEF PairSent, RegisterPair, TypeOK, Lanes
<1>4. /\ PairFrames(pj) \in [Lanes -> Frame]
      /\ \A l \in Lanes : PairFrames(pj)[l] = FrameOf(PairJob(pj, l))
  BY <1>1 DEF PairFrames
<1>5. /\ fpga' \in [Lanes -> Frame \cup {Null}]
      /\ parser' \in [Lanes -> {"hunting", "inside"}]
      /\ whole' \in [Lanes -> 0 .. Enough] /\ events' \in Nat
      /\ \A l \in Lanes : \/ fpga'[l] = fpga[l]
                          \/ fpga'[l] = FrameOf(PairJob(pj, l))
      /\ CutIsCounted => CutIsCounted'
  <2>1. \/ UNCHANGED <<fpgaVars, events>>
        \/ \E toWhole, toCut : Receive(PairFrames(pj), toWhole, toCut)
    BY DEF PairSent, SendPair, SendPairFails
  <2>2. CASE UNCHANGED <<fpgaVars, events>>
    BY <2>2 DEF fpgaVars, TypeOK, CutIsCounted
  <2>3. ASSUME NEW toWhole, NEW toCut,
               Receive(PairFrames(pj), toWhole, toCut)
        PROVE  /\ fpga' \in [Lanes -> Frame \cup {Null}]
               /\ parser' \in [Lanes -> {"hunting", "inside"}]
               /\ whole' \in [Lanes -> 0 .. Enough] /\ events' \in Nat
               /\ \A l \in Lanes : \/ fpga'[l] = fpga[l]
                                   \/ fpga'[l] = PairFrames(pj)[l]
               /\ CutIsCounted'
    BY <1>4, <2>3, Received
  <2> QED
    BY <1>4, <2>1, <2>2, <2>3
<1>6. EmptyBuffers \in [Lanes -> Share \cup {Null}]
  BY DEF EmptyBuffers
<1>7. /\ xvc' \in {"closed", "open"}
      /\ buffers' \in [Lanes -> Share \cup {Null}]
  BY <1>6 DEF PairSent, SendPair, SendPairFails, CloseHardware, hwVars, TypeOK
<1> QED
  BY <1>2, <1>3, <1>5, <1>7

(* The new jobs stand in their places and belong to the session, the other *)
(* entries of the table are as before.                                     *)
LEMMA PairRegistered ==
  ASSUME TypeOK, EvenCounters, en1 # Null, NEW pj \in PoolJobs, PairSent(pj)
  PROVE  /\ tagCounter' % 2 = 0 /\ en2Counter' % 2 = 0
         /\ \A l \in Lanes : jobs'[TagFor(l)] = PairJob(pj, l)
         /\ \A t \in Tags : \/ jobs'[t] = jobs[t]
                            \/ \E l \in Lanes : /\ t = TagFor(l)
                                                /\ jobs'[t] = PairJob(pj, l)
         /\ \A l \in Lanes : \/ fpga'[l] = fpga[l]
                             \/ fpga'[l] = FrameOf(PairJob(pj, l))
<1>1. /\ \A l \in Lanes : TagFor(l) \in Tags /\ OwnTag(l, TagFor(l))
      /\ TagFor("A") # TagFor("B")
  BY PairTags DEF TypeOK, EvenCounters
<1>2. tagCounter' % 2 = 0
  BY <1>1 DEF PairSent, RegisterPair, OwnTag, LaneParity, Lanes
<1>3. en2Counter' % 2 = 0
  BY NextParity DEF PairSent, AdvanceExtranonce2, TypeOK, EvenCounters
<1>4. \A t \in Tags : jobs'[t] = IF t = TagFor("B") THEN PairJob(pj, "B")
                                 ELSE IF t = TagFor("A")
                                      THEN PairJob(pj, "A") ELSE jobs[t]
  BY DEF PairSent, RegisterPair
<1>5. \A l \in Lanes : \/ fpga'[l] = fpga[l]
                       \/ fpga'[l] = FrameOf(PairJob(pj, l))
  BY PairTypes
<1> QED
  BY <1>1, <1>2, <1>3, <1>4, <1>5 DEF Lanes

(* RollWork and OnNotify dispatch a pair, that of the newest template.     *)
LEMMA Dispatches ==
  ASSUME DualInv, RollWork \/ OnNotify
  PROVE  /\ latest' \in PoolJobs /\ latest' # Null /\ en1 # Null
         /\ PairSent(latest')
         /\ UNCHANGED <<en1, feeMode, difficulty, submitted, sent, mail>>
         /\ pc # "idle"
         /\ replied' = replied \/ pc' = "idle"
<1>1. CASE RollWork
  BY <1>1 DEF RollWork, RollDue, DualInv, TypeOK, OwnSession, PairSent,
     FailureEndsSession, LeaveSession, shareVars
<1>2. CASE OnNotify
  <2>1. PICK pj \in PoolJobs :
          /\ latest' = pj /\ RegisterPair(pj)
          /\ \/ SendPair(pj) /\ LineDone /\ UNCHANGED replied
             \/ FailureEndsSession(pj)
    BY <1>2 DEF OnNotify
  <2>2. pj # Null
    BY SentinelAssumption
  <2> QED
    BY <1>2, <2>1, <2>2 DEF OnNotify, PairSent, FailureEndsSession,
       LeaveSession, LineDone, shareVars
<1> QED
  BY <1>1, <1>2

-----------------------------------------------------------------------------
(* Types.                                                                  *)

(* Leaving a session and handling a line keep the loop typed.              *)
LEMMA LeaveTypes ==
  ASSUME LeaveSession
  PROVE  /\ pc' = "idle" /\ lines' \in Nat /\ batch' \in Seq(Share)
         /\ replied' \subseteq {"subscribe", "authorize"}
  BY DEF LeaveSession

LEMMA LineTypes ==
  ASSUME TypeOK, LinesOwed, pc = "lines", LineDone
  PROVE  /\ pc' \in {"mode", "lines"} /\ lines' \in Nat
         /\ pc' = "lines" => lines' # 0
         /\ batch' \in Seq(Share)
  BY DEF LineDone, TypeOK, LinesOwed

(* Types hold at the start.                                                *)
LEMMA InitTypes == Init => TypeOK
<1> SUFFICES ASSUME Init PROVE TypeOK
  OBVIOUS
<1>1. 0 \in Tags
  BY ModuliAssumption DEF Tags
<1>2. NoJobs \in [Tags -> Job \cup {Null}]
  BY DEF NoJobs
<1> QED
  BY <1>1, <1>2, DifficultyAssumption DEF Init, TypeOK, EmptyBuffers

(* And every step keeps them.                                              *)
LEMMA StepTypes == DualInv /\ [Next]_vars => TypeOK' /\ LinesOwed'
<1> SUFFICES ASSUME DualInv, [Next]_vars PROVE TypeOK' /\ LinesOwed'
  OBVIOUS
<1> USE DEF DualInv, TypeOK, LinesOwed, sessionVars, jobVars, shareVars,
    hwVars, fpgaVars, cardVars
<1>1. CASE StartSession
  BY <1>1, DifficultyAssumption DEF StartSession, ClearTables, NoJobs
<1>2. CASE Rotate
  BY <1>2, LeaveTypes DEF Rotate
<1>3. CASE CheckMode
  BY <1>3 DEF CheckMode
<1>4. CASE Connect
  BY <1>4 DEF Connect
<1>5. CASE ConnectFails
  BY <1>5, LeaveTypes DEF ConnectFails
<1>6. ASSUME NEW l \in Lanes, ReadNoShare(l) PROVE TypeOK' /\ LinesOwed'
  BY <1>6 DEF ReadNoShare, AfterLane, Lanes
<1>7. ASSUME NEW l \in Lanes, ReadPart(l) PROVE TypeOK' /\ LinesOwed'
  BY <1>7 DEF ReadPart, AfterLane, Lanes
<1>8. ASSUME NEW l \in Lanes, ReadShare(l) PROVE TypeOK' /\ LinesOwed'
  <2>1. PICK share \in Share : batch' = Append(batch, share)
    BY <1>8 DEF ReadShare
  <2>2. batch' \in Seq(Share)
    BY <2>1
  <2>3. /\ buffers' \in [Lanes -> Share \cup {Null}]
        /\ mail' \in [Lanes -> Share \cup {Null}]
    BY <1>8 DEF ReadShare
  <2>4. pc' \in {"B", "check"}
    BY <1>8 DEF ReadShare, AfterLane, Lanes
  <2> QED
    BY <1>8, <2>2, <2>3, <2>4 DEF ReadShare
<1>9. ASSUME NEW l \in Lanes, ReadLaneFails(l) PROVE TypeOK' /\ LinesOwed'
  BY <1>9, LeaveTypes DEF ReadLaneFails, CloseHardware, EmptyBuffers
<1>10. CASE BatchDone
  BY <1>10 DEF BatchDone
<1>11. CASE DropShare
  BY <1>11 DEF DropShare
<1>12. CASE SubmitShare
  <2>1. /\ submitId' \in Nat /\ submitted' \subseteq Key
        /\ pending' \subseteq Nat
    <3>1. ShareKey(Head(batch)) \in Key
      BY <1>12, AcceptedOK DEF SubmitShare
    <3>2. RegisterSubmit(Head(batch))
      BY <1>12 DEF SubmitShare
    <3> QED
      BY <3>1, <3>2 DEF RegisterSubmit
  <2>2. CASE LeaveSession /\ UNCHANGED sent
    BY <1>12, <2>1, <2>2, LeaveTypes DEF SubmitShare
  <2>3. CASE /\ batch' = Tail(batch)
             /\ sent' = Append(sent, Submission(Head(batch)))
             /\ UNCHANGED <<pc, lines, replied>>
    <3>1. sent' \in Seq(Submit)
      BY <1>12, <2>3, AcceptedOK DEF SubmitShare
    <3>2. batch' \in Seq(Share)
      BY <1>12, <2>3 DEF SubmitShare
    <3> QED
      BY <1>12, <2>1, <2>3, <3>1, <3>2 DEF SubmitShare
  <2> QED
    BY <1>12, <2>2, <2>3 DEF SubmitShare
<1>13. CASE NoRoll
  BY <1>13 DEF NoRoll
<1>14. CASE RollWork
  BY <1>14, LeaveTypes, Dispatches, PairTypes DEF RollWork,
     FailureEndsSession
<1>15. CASE RecvTimeout
  BY <1>15 DEF RecvTimeout
<1>16. CASE Recv
  BY <1>16, BoundAssumption DEF Recv
<1>17. CASE RecvFails
  BY <1>17, LeaveTypes DEF RecvFails
<1>18. CASE OnSubscribed
  BY <1>18, LineTypes DEF OnSubscribed, Answers
<1>19. CASE OnAuthorized
  BY <1>19, LineTypes DEF OnAuthorized, Answers
<1>20. CASE OnAuthorizationFailed
  BY <1>20, LeaveTypes DEF OnAuthorizationFailed
<1>21. CASE OnSetDifficulty
  BY <1>21, LineTypes DEF OnSetDifficulty
<1>22. CASE OnLineIgnored
  BY <1>22, LineTypes DEF OnLineIgnored, Answers
<1>23. CASE OnNotify
  BY <1>23, LeaveTypes, LineTypes, Dispatches, PairTypes DEF OnNotify,
     FailureEndsSession
<1>24. CASE OnResponse
  BY <1>24, LineTypes DEF OnResponse
<1>25. ASSUME NEW l \in Lanes, FpgaFindsShare(l) PROVE TypeOK' /\ LinesOwed'
  BY <1>25 DEF FpgaFindsShare, Share, Frame
<1>26. CASE ClockFlips
  BY <1>26 DEF ClockFlips
<1>27. CASE RollFallsDue
  BY <1>27 DEF RollFallsDue
<1>28. CASE UNCHANGED vars
  BY <1>28 DEF vars
<1> QED
  BY <1>1, <1>2, <1>3, <1>4, <1>5, <1>6, <1>7, <1>8, <1>9, <1>10, <1>11,
     <1>12, <1>13, <1>14, <1>15, <1>16, <1>17, <1>18, <1>19, <1>20, <1>21,
     <1>22, <1>23, <1>24, <1>25, <1>26, <1>27, <1>28 DEF Next, MinerStep,
     PopShares, CardStep

-----------------------------------------------------------------------------
(* Which actions move what.                                                *)

(* Jobs, the newest template and the work of the FPGAs move when a session *)
(* starts and when a pair is made; only a start enters a session.          *)
LEMMA PairMovers ==
  ASSUME [Next]_vars, ~StartSession, ~RollWork, ~OnNotify
  PROVE  /\ UNCHANGED <<tagCounter, jobs, fpga, latest, en2Counter,
                         parser, whole>>
         /\ pc' # "idle" => pc # "idle"
  BY DEF Next, MinerStep, PopShares, CardStep, Rotate, LeaveSession,
     CheckMode, Connect, ConnectFails, ReadNoShare, ReadPart, ReadShare,
     ReadLaneFails, CloseHardware, BatchDone, DropShare, SubmitShare,
     RegisterSubmit, NoRoll, RecvTimeout, Recv, RecvFails, OnSubscribed,
     Answers, LineDone, OnAuthorized, OnAuthorizationFailed,
     OnSetDifficulty, OnLineIgnored, OnResponse, FpgaFindsShare,
     ClockFlips, RollFallsDue, AfterLane, Lanes, sessionVars, jobVars,
     shareVars, hwVars, fpgaVars, cardVars, vars

(* What was sent moves with a start and a submission.                      *)
LEMMA SentMovers ==
  ASSUME [Next]_vars, ~StartSession, ~SubmitShare
  PROVE  UNCHANGED <<sent, submitted>>
  BY DEF Next, MinerStep, PopShares, CardStep, Rotate, LeaveSession,
     CheckMode, Connect, ConnectFails, ReadNoShare, ReadPart, ReadShare,
     ReadLaneFails, CloseHardware, BatchDone, DropShare, NoRoll, RollWork,
     RegisterPair, AdvanceExtranonce2, SendPair, SendPairFails,
     FailureEndsSession, RecvTimeout, Recv, RecvFails, OnSubscribed,
     Answers, LineDone, OnAuthorized, OnAuthorizationFailed,
     OnSetDifficulty, OnLineIgnored, OnNotify, OnResponse, FpgaFindsShare,
     ClockFlips, RollFallsDue, sessionVars, jobVars, shareVars, hwVars,
     fpgaVars, cardVars, vars

(* The wallet and the extranonce1 move with a start and a subscription; an *)
(* answer given on a connection stays given.                               *)
LEMMA SessionMovers ==
  ASSUME [Next]_vars, ~StartSession, ~OnSubscribed
  PROVE  /\ UNCHANGED <<feeMode, en1>>
         /\ pc' # "idle" => replied \subseteq replied'
  BY DEF Next, MinerStep, PopShares, CardStep, Rotate, LeaveSession,
     CheckMode, Connect, ConnectFails, ReadNoShare, ReadPart, ReadShare,
     ReadLaneFails, CloseHardware, BatchDone, DropShare, SubmitShare,
     RegisterSubmit, NoRoll, RollWork, RegisterPair, AdvanceExtranonce2,
     SendPair, SendPairFails, FailureEndsSession, RecvTimeout, Recv,
     RecvFails, Answers, LineDone, OnAuthorized, OnAuthorizationFailed,
     OnSetDifficulty, OnLineIgnored, OnNotify, OnResponse, FpgaFindsShare,
     ClockFlips, RollFallsDue, sessionVars, jobVars, shareVars, hwVars,
     fpgaVars, cardVars, vars

(* Shares come from the cards, and are copied on from there.               *)
LEMMA MailMovers ==
  ASSUME DualInv, [Next]_vars, \A l \in Lanes : ~FpgaFindsShare(l)
  PROVE  \A l \in Lanes : /\ mail'[l] \in {mail[l], Null}
                          /\ buffers'[l] \in {buffers[l], mail[l], Null}
  BY DEF Next, MinerStep, PopShares, CardStep, StartSession, ClearTables,
     Rotate, LeaveSession, CheckMode, Connect, ConnectFails, ReadNoShare,
     ReadPart, ReadShare, ReadLaneFails, CloseHardware, BatchDone,
     DropShare, SubmitShare, RegisterSubmit, NoRoll, RollWork,
     RegisterPair, AdvanceExtranonce2, SendPair, SendPairFails,
     FailureEndsSession, RecvTimeout, Recv, RecvFails, OnSubscribed,
     Answers, LineDone, OnAuthorized, OnAuthorizationFailed,
     OnSetDifficulty, OnLineIgnored, OnNotify, OnResponse, ClockFlips,
     RollFallsDue, EmptyBuffers, DualInv, TypeOK, sessionVars, jobVars,
     shareVars, hwVars, fpgaVars, cardVars, vars

LEMMA BatchMovers ==
  ASSUME [Next]_vars, ~DropShare, ~SubmitShare,
         \A l \in Lanes : ~ReadShare(l)
  PROVE  batch' = batch \/ batch' = <<>>
  BY DEF Next, MinerStep, PopShares, CardStep, StartSession, ClearTables,
     Rotate, LeaveSession, CheckMode, Connect, ConnectFails, ReadNoShare,
     ReadPart, ReadLaneFails, CloseHardware, BatchDone, RegisterSubmit,
     NoRoll, RollWork, RegisterPair, AdvanceExtranonce2, SendPair,
     SendPairFails, FailureEndsSession, RecvTimeout, Recv, RecvFails,
     OnSubscribed, Answers, LineDone, OnAuthorized, OnAuthorizationFailed,
     OnSetDifficulty, OnLineIgnored, OnNotify, OnResponse, FpgaFindsShare,
     ClockFlips, RollFallsDue, sessionVars, jobVars, shareVars, hwVars,
     fpgaVars, cardVars, vars

-----------------------------------------------------------------------------
(* Preservation of the rest of the invariant.                              *)

(* Jobs and frames keep to the tags and extranonce2 values of their lanes. *)
LEMMA PlacesStep ==
  ASSUME DualInv, [Next]_vars
  PROVE  EvenCounters' /\ JobsInPlace' /\ FramesInPlace'
<1> USE DEF EvenCounters, JobsInPlace, FramesInPlace
<1>0. EvenCounters /\ JobsInPlace /\ FramesInPlace
  BY DEF DualInv
<1>1. CASE StartSession
  <2>1. /\ tagCounter' = tagCounter /\ en2Counter' = 0 /\ fpga' = fpga
        /\ \A t \in Tags : jobs'[t] = Null
    BY <1>1 DEF StartSession, ClearTables, NoJobs, fpgaVars, cardVars
  <2> QED
    BY <1>0, <2>1, NextParity
<1>2. CASE RollWork \/ OnNotify
  <2> DEFINE pj == latest'
  <2>0. TypeOK
    BY DEF DualInv
  <2>1. pj \in PoolJobs /\ en1 # Null /\ PairSent(pj)
    BY <1>2, Dispatches
  <2> HIDE DEF pj
  <2>2. /\ tagCounter' % 2 = 0 /\ en2Counter' % 2 = 0
        /\ \A t \in Tags : \/ jobs'[t] = jobs[t]
                           \/ \E l \in Lanes : /\ t = TagFor(l)
                                               /\ jobs'[t] = PairJob(pj, l)
        /\ \A l \in Lanes : \/ fpga'[l] = fpga[l]
                            \/ fpga'[l] = FrameOf(PairJob(pj, l))
    BY <1>0, <2>0, <2>1, PairRegistered
  <2>3. \A l \in Lanes :
          LET job == PairJob(pj, l)
          IN  /\ job.device = l /\ OwnTag(l, TagFor(l))
              /\ FrameOf(job).tag = TagFor(l)
              /\ OwnWork(l, FrameOf(job).work)
    BY <1>0, <2>0, <2>1, PairJobs DEF FrameOf
  <2>4. JobsInPlace'
    BY <1>0, <2>2, <2>3
  <2>5. FramesInPlace'
    BY <1>0, <2>2, <2>3
  <2> QED
    BY <2>2, <2>4, <2>5
<1>3. CASE ~StartSession /\ ~RollWork /\ ~OnNotify
  BY <1>0, <1>3, PairMovers
<1> QED
  BY <1>1, <1>2, <1>3

(* Shares keep to the tags of the lane they were found on.                 *)
LEMMA SharesStep ==
  ASSUME DualInv, [Next]_vars
  PROVE  SharesInPlace'
<1>0. /\ SharesInPlace /\ batch \in Seq(Share)
      /\ buffers \in [Lanes -> Share \cup {Null}]
      /\ mail \in [Lanes -> Share \cup {Null}]
  BY DEF DualInv, TypeOK
<1>1. \A l \in Lanes : mail'[l] # Null => ShareInPlace(mail'[l])
  <2>1. ASSUME NEW k \in Lanes, FpgaFindsShare(k)
        PROVE  \A l \in Lanes : mail'[l] # Null => ShareInPlace(mail'[l])
    <3>1. fpga[k] # Null /\ OwnTag(k, fpga[k].tag)
      BY <2>1 DEF FpgaFindsShare, DualInv, FramesInPlace
    <3>2. PICK share : /\ mail' = [mail EXCEPT ![k] = share]
                       /\ share.lane = k /\ share.tag = fpga[k].tag
      BY <2>1 DEF FpgaFindsShare
    <3> QED
      BY <1>0, <3>1, <3>2 DEF SharesInPlace, ShareInPlace
  <2>2. CASE \A l \in Lanes : ~FpgaFindsShare(l)
    BY <1>0, <2>2, MailMovers DEF SharesInPlace
  <2> QED
    BY <2>1, <2>2
<1>2. \A l \in Lanes : buffers'[l] # Null => ShareInPlace(buffers'[l])
  <2>1. ASSUME NEW k \in Lanes, FpgaFindsShare(k) PROVE buffers' = buffers
    BY <2>1 DEF FpgaFindsShare, hwVars
  <2>2. CASE \A l \in Lanes : ~FpgaFindsShare(l)
    BY <1>0, <2>2, MailMovers DEF SharesInPlace
  <2> QED
    BY <1>0, <2>1, <2>2 DEF SharesInPlace
<1>3. \A i \in DOMAIN batch' : ShareInPlace(batch'[i])
  <2>1. ASSUME NEW k \in Lanes, ReadShare(k)
        PROVE  \A i \in DOMAIN batch' : ShareInPlace(batch'[i])
    <3>1. PICK share \in Share :
            batch' = Append(batch, share) /\ ShareInPlace(share)
      BY <1>0, <2>1 DEF ReadShare, SharesInPlace
    <3> QED
      BY <1>0, <3>1 DEF SharesInPlace
  <2>2. CASE batch # <<>> /\ batch' = Tail(batch)
    BY <1>0, <2>2 DEF SharesInPlace
  <2>3. CASE batch' = batch \/ batch' = <<>>
    BY <1>0, <2>3 DEF SharesInPlace
  <2>4. DropShare \/ SubmitShare =>
          \/ batch # <<>> /\ batch' = Tail(batch)
          \/ batch' = <<>>
    BY DEF DropShare, SubmitShare, LeaveSession
  <2> QED
    BY <2>1, <2>2, <2>3, <2>4, BatchMovers
<1> QED
  BY <1>1, <1>2, <1>3 DEF SharesInPlace, ShareInPlace, OwnTag, LaneParity

(* Every submission is that of an accepted share, whose job and lane agree *)
(* on the tag.                                                             *)
LEMMA Submitted ==
  ASSUME DualInv, SubmitShare
  PROVE  \/ /\ sent' = Append(sent, Submission(Head(batch)))
            /\ pc # "idle" /\ pc' = pc
         \/ sent' = sent /\ pc # "idle" /\ pc' = "idle"
  BY DEF SubmitShare, LeaveSession

LEMMA PhysicalStep ==
  ASSUME DualInv, [Next]_vars
  PROVE  AssignedIsPhysical' /\ SentRemembered'
<1>0. /\ AssignedIsPhysical /\ SentRemembered /\ TypeOK
      /\ sent \in Seq(Submit) /\ batch \in Seq(Share)
  BY DEF DualInv, TypeOK
<1> USE DEF AssignedIsPhysical, SentRemembered
<1>1. CASE StartSession
  BY <1>1 DEF StartSession
<1>2. CASE SubmitShare
  <2> DEFINE share == Head(batch)
             new == Submission(share)
  <2>1. /\ batch # <<>> /\ ShareAccepted(share)
        /\ submitted' = submitted \cup {ShareKey(share)}
    BY <1>2 DEF SubmitShare, RegisterSubmit
  <2>2. /\ share \in Share /\ share.tag \in Tags
        /\ jobs[share.tag] \in Job /\ jobs[share.tag] # Null
    BY <1>0, <2>1, AcceptedOK
  <2>3. ShareInPlace(share)
    <3>1. share = batch[1] /\ 1 \in DOMAIN batch
      BY <1>0, <2>1
    <3> QED
      BY <3>1 DEF DualInv, SharesInPlace
  <2>4. OwnTag(jobs[share.tag].device, share.tag)
    BY <2>2 DEF DualInv, JobsInPlace
  <2>5. share.lane \in Lanes /\ jobs[share.tag].device \in Lanes
    BY <2>2 DEF Share, Job
  <2>6. jobs[share.tag].device = share.lane
    BY <2>3, <2>4, <2>5 DEF ShareInPlace, OwnTag, LaneParity, Lanes
  <2>7. new.device = new.lane /\ new.key = ShareKey(share)
    BY <2>6 DEF Submission
  <2> HIDE DEF new
  <2>8. sent' = Append(sent, new) \/ sent' = sent
    BY <1>2, Submitted DEF new
  <2>9. CASE sent' = sent
    BY <1>0, <2>1, <2>9
  <2>10. CASE sent' = Append(sent, new)
    <3>1. \A i \in DOMAIN sent' :
            (i \in DOMAIN sent /\ sent'[i] = sent[i]) \/ sent'[i] = new
      BY <1>0, <2>10
    <3> QED
      BY <1>0, <2>1, <2>7, <3>1
  <2> QED
    BY <2>8, <2>9, <2>10
<1>3. CASE ~StartSession /\ ~SubmitShare
  BY <1>0, <1>3, SentMovers
<1> QED
  BY <1>1, <1>2, <1>3

(* Before the extranonce1 is known there is no job and nothing was sent.   *)
LEMMA NothingBeforeSubscribe ==
  ASSUME DualInv, en1 = Null
  PROVE  /\ \A t \in Tags : jobs[t] = Null
         /\ sent = <<>> /\ latest = Null
<1>0. /\ jobs \in [Tags -> Job \cup {Null}] /\ sent \in Seq(Submit)
      /\ OwnSession
  BY DEF DualInv, TypeOK
<1>1. \A t \in Tags : jobs[t] = Null
  <2> SUFFICES ASSUME NEW t \in Tags, jobs[t] # Null PROVE FALSE
    OBVIOUS
  <2>1. jobs[t] \in Job
    BY <1>0
  <2>2. jobs[t].work.en1 \in Extranonce1s
    BY <2>1 DEF Job, Work
  <2> QED
    BY <1>0, <2>2, SentinelAssumption DEF OwnSession
<1>2. sent = <<>>
  <2> SUFFICES ASSUME sent # <<>> PROVE FALSE
    OBVIOUS
  <2>1. 1 \in DOMAIN sent /\ sent[1] \in Submit
    BY <1>0
  <2>2. sent[1].en1 \in Extranonce1s
    BY <2>1 DEF Submit
  <2> QED
    BY <1>0, <2>1, <2>2, SentinelAssumption DEF OwnSession
<1> QED
  BY <1>0, <1>1, <1>2 DEF OwnSession

(* A submission carries the wallet and the extranonce1 of the session.     *)
LEMMA SubmissionOwnSession ==
  ASSUME DualInv, batch # <<>>, ShareAccepted(Head(batch))
  PROVE  LET new == Submission(Head(batch))
         IN  /\ new.mode = feeMode /\ new.en1 = en1 /\ en1 # Null
             /\ new.key = ShareKey(Head(batch))
<1>1. /\ Head(batch).tag \in Tags
      /\ jobs[Head(batch).tag] \in Job /\ jobs[Head(batch).tag] # Null
  BY AcceptedOK DEF DualInv
<1>2. /\ jobs[Head(batch).tag].mode = feeMode
      /\ jobs[Head(batch).tag].work.en1 = en1
  BY <1>1 DEF DualInv, OwnSession
<1>3. en1 # Null
  BY <1>1, NothingBeforeSubscribe
<1> QED
  BY <1>2, <1>3 DEF Submission

(* The tables stay those of the session.                                   *)
LEMMA OwnSessionStep ==
  ASSUME DualInv, [Next]_vars
  PROVE  OwnSession'
<1>0. OwnSession /\ sent \in Seq(Submit) /\ TypeOK /\ EvenCounters
  BY DEF DualInv, TypeOK
<1> USE DEF OwnSession
<1>1. CASE StartSession
  BY <1>1 DEF StartSession, ClearTables, NoJobs
<1>2. CASE OnSubscribed
  <2>1. /\ pc = "lines" /\ "subscribe" \notin replied
        /\ replied' = replied \cup {"subscribe"}
        /\ UNCHANGED <<jobs, sent, latest, feeMode>>
    BY <1>2 DEF OnSubscribed, Answers, jobVars
  <2>2. en1 = Null
    BY <1>0, <2>1
  <2>3. (\A t \in Tags : jobs[t] = Null) /\ sent = <<>> /\ latest = Null
    BY <2>2, NothingBeforeSubscribe
  <2> QED
    BY <2>1, <2>3
<1>3. CASE SubmitShare
  <2> DEFINE new == Submission(Head(batch))
  <2>1. new.mode = feeMode /\ new.en1 = en1
    BY <1>3, SubmissionOwnSession DEF SubmitShare
  <2> HIDE DEF new
  <2>2. sent' = Append(sent, new) \/ sent' = sent
    BY <1>3, Submitted DEF new
  <2>3. \A i \in DOMAIN sent' :
          (i \in DOMAIN sent /\ sent'[i] = sent[i]) \/ sent'[i] = new
    BY <1>0, <2>2
  <2>4. UNCHANGED <<feeMode, en1, jobs, latest>>
    BY <1>3 DEF SubmitShare, sessionVars, jobVars
  <2>5. pc' = "idle" \/ (pc # "idle" /\ replied' = replied)
    BY <1>3 DEF SubmitShare, LeaveSession
  <2> QED
    BY <1>0, <2>1, <2>3, <2>4, <2>5
<1>4. CASE RollWork \/ OnNotify
  <2> DEFINE pj == latest'
  <2>1. /\ pj \in PoolJobs /\ en1 # Null /\ PairSent(pj)
        /\ UNCHANGED <<en1, feeMode, sent>> /\ pc # "idle"
        /\ replied' = replied \/ pc' = "idle"
    BY <1>4, Dispatches
  <2>2. \A t \in Tags : \/ jobs'[t] = jobs[t]
                        \/ \E l \in Lanes : jobs'[t] = PairJob(pj, l)
    BY <1>0, <2>1, PairRegistered
  <2>3. \A l \in Lanes : /\ PairJob(pj, l).mode = feeMode
                         /\ PairJob(pj, l).work.en1 = en1
    BY <1>0, <2>1, PairJobs
  <2> QED
    BY <1>0, <2>1, <2>2, <2>3
<1>5. CASE /\ ~StartSession /\ ~OnSubscribed /\ ~SubmitShare
           /\ ~RollWork /\ ~OnNotify
  BY <1>0, <1>5, PairMovers, SentMovers, SessionMovers
<1> QED
  BY <1>1, <1>2, <1>3, <1>4, <1>5

(* A pair that was sent is on the FPGAs that take it; one that was not     *)
(* ends the session.                                                       *)
LEMMA InStepStep ==
  ASSUME DualInv, [Next]_vars
  PROVE  CutIsCounted' /\ PairInStep'
<1>0. CutIsCounted /\ PairInStep /\ TypeOK /\ EvenCounters
  BY DEF DualInv
<1>1. CASE StartSession
  BY <1>0, <1>1 DEF StartSession, PairInStep, CutIsCounted, fpgaVars, cardVars
<1>2. CASE RollWork \/ OnNotify
  <2> DEFINE pj == latest'
  <2>1. pj \in PoolJobs /\ en1 # Null /\ PairSent(pj)
    BY <1>2, Dispatches
  <2>2. CutIsCounted'
    BY <1>0, <2>1, PairTypes
  <2> SUFFICES ASSUME pc' # "idle", NEW l \in Lanes, whole'[l] = Enough
               PROVE  OnNewestPair(l)'
    BY <2>2 DEF PairInStep
  <2>3. \A k \in Lanes :
          /\ PairJob(pj, k).tag = TagFor(k) /\ PairJob(pj, k).work.pj = pj
          /\ PairJob(pj, k) # Null
          /\ FrameOf(PairJob(pj, k)) # Null
          /\ FrameOf(PairJob(pj, k)) \in Frame
    BY <1>0, <2>1, PairJobs
  <2>4. /\ tagCounter' = TagFor("B")
        /\ fpga'[l] = FrameOf(PairJob(pj, l))
    <3>1. PairFrames(pj) \in [Lanes -> Frame]
      BY <2>3 DEF PairFrames
    <3>2. Receive(PairFrames(pj), Lanes, {})
      BY <2>1 DEF PairSent, SendPair
    <3>3. fpga'[l] = PairFrames(pj)[l]
      BY <1>0, <3>1, <3>2, TakenTwice
    <3> QED
      BY <2>1, <3>3 DEF PairSent, RegisterPair, PairFrames
  <2>5. jobs'[TagFor(l)] = PairJob(pj, l)
    BY <1>0, <2>1, PairRegistered
  <2>6. NextTag(TagFor("A")) = TagFor("B")
    BY <1>0, PairTags DEF TypeOK, EvenCounters
  <2>7. /\ fpga'[l].tag = TagFor(l) /\ fpga'[l].work.pj = pj
        /\ fpga'[l] # Null
    <3>1. \A job : FrameOf(job).tag = job.tag /\ FrameOf(job).work = job.work
      BY DEF FrameOf
    <3> QED
      BY <2>3, <2>4, <3>1
  <2>8. /\ jobs'[fpga'[l].tag] # Null
        /\ fpga'[l] = FrameOf(jobs'[fpga'[l].tag])
    BY <2>3, <2>4, <2>5, <2>7
  <2>9. tagCounter' = IF l = "A" THEN NextTag(fpga'[l].tag) ELSE fpga'[l].tag
    BY <2>4, <2>6, <2>7 DEF Lanes
  <2> QED
    BY <2>7, <2>8, <2>9 DEF OnNewestPair, NextTag, FrameOf
<1>3. CASE ~StartSession /\ ~RollWork /\ ~OnNotify
  BY <1>0, <1>3, PairMovers DEF PairInStep, CutIsCounted, OnNewestPair,
     FrameOf, NextTag
<1> QED
  BY <1>1, <1>2, <1>3

-----------------------------------------------------------------------------
LEMMA InitDual == Init => DualInv
<1> SUFFICES ASSUME Init PROVE DualInv
  OBVIOUS
<1>1. 0 % 2 = 0
  BY SmallRemainder
<1> QED
  BY <1>1, InitTypes DEF Init, DualInv, LinesOwed, EvenCounters, JobsInPlace,
     FramesInPlace, SharesInPlace, EmptyBuffers, OwnSession, NoJobs,
     SentRemembered, CutIsCounted, PairInStep, AssignedIsPhysical, Enough

LEMMA StepDual == DualInv /\ [Next]_vars => DualInv'
<1> SUFFICES ASSUME DualInv, [Next]_vars PROVE DualInv'
  OBVIOUS
<1>1. TypeOK' /\ LinesOwed'
  BY StepTypes
<1> QED
  BY <1>1, PlacesStep, SharesStep, OwnSessionStep, PhysicalStep, InStepStep
     DEF DualInv

LEMMA DualInvariant == Spec => []DualInv
  BY InitDual, StepDual, PTL DEF Spec

(* Type correctness of the host, its cards and its pool connection.        *)
THEOREM DualTypes == Spec => []TypeOK
<1>1. DualInv => TypeOK
  BY DEF DualInv
<1> QED
  BY <1>1, DualInvariant, PTL

(* In a session an FPGA works on the newest pair (dispatch_job_pair ends   *)
(* the session when either half fails), unless a frame to it was cut less  *)
(* than two frames back.                                                   *)
THEOREM DualInStep == Spec => []PairInStep
<1>1. DualInv => PairInStep
  BY DEF DualInv
<1> QED
  BY <1>1, DualInvariant, PTL

(* The FPGA a submission is reported for is the one that found the share.  *)
THEOREM DualAssigned == Spec => []AssignedIsPhysical
<1>1. DualInv => AssignedIsPhysical
  BY DEF DualInv
<1> QED
  BY <1>1, DualInvariant, PTL

(* The FPGAs never hash the same header, since the extranonce2 values of   *)
(* lane A are even and those of lane B odd, on every connection.           *)
THEOREM DualDisjoint == Spec => []LanesDisjoint
<1>1. DualInv => LanesDisjoint
  <2> SUFFICES ASSUME DualInv, fpga["A"] # Null, fpga["B"] # Null
               PROVE  fpga["A"].work # fpga["B"].work
    BY DEF LanesDisjoint
  <2>1. OwnWork("A", fpga["A"].work) /\ OwnWork("B", fpga["B"].work)
    BY DEF DualInv, FramesInPlace, Lanes
  <2> QED
    BY <2>1 DEF OwnWork, LaneParity
<1> QED
  BY <1>1, DualInvariant, PTL

-----------------------------------------------------------------------------
(* The refinement of WalletSession.                                        *)

Wallet == IF pc = "idle" THEN Null ELSE feeMode
Assigned == IF pc = "idle" THEN Null ELSE en1
ToPool(m) == [wallet |-> m.mode, en1 |-> m.en1, key |-> m.key]
Shares == IF pc = "idle" THEN <<>>
          ELSE [i \in DOMAIN sent |-> [wallet |-> sent[i].mode,
                                       en1 |-> sent[i].en1,
                                       key |-> sent[i].key]]

(* The abstract steps, over these three expressions.                       *)
LEMMA AbstractSteps ==
  /\ Session!Open <=> /\ Wallet = Null /\ Wallet' \in Modes
                      /\ UNCHANGED <<Assigned, Shares>>
  /\ Session!Assign <=> /\ Wallet # Null /\ Assigned = Null
                        /\ Assigned' \in Extranonce1s
                        /\ UNCHANGED <<Wallet, Shares>>
  /\ Session!Close <=> /\ Wallet # Null /\ Wallet' = Null
                       /\ Assigned' = Null /\ Shares' = <<>>
  BY DEF Session!Open, Session!Assign, Session!Close, Wallet, Assigned, Shares

(* What is sent is appended to the connection's shares.                    *)
LEMMA AppendShare ==
  ASSUME TypeOK, NEW new \in Submit, sent' = Append(sent, new),
         pc # "idle", pc' # "idle"
  PROVE  Shares' = Append(Shares, ToPool(new))
<1>1. /\ sent \in Seq(Submit) /\ Len(sent) \in Nat
      /\ DOMAIN sent = 1 .. Len(sent)
      /\ DOMAIN sent' = 1 .. Len(sent) + 1
      /\ \A i \in 1 .. Len(sent) : sent'[i] = sent[i]
      /\ sent'[Len(sent) + 1] = new
  BY DEF TypeOK
<1>2. /\ Shares = [i \in 1 .. Len(sent) |-> ToPool(sent[i])]
      /\ Shares' = [i \in 1 .. Len(sent) + 1 |-> ToPool(sent'[i])]
  BY <1>1 DEF Shares, ToPool
<1> DEFINE S == {ToPool(m) : m \in Submit}
<1>3. Shares \in Seq(S) /\ Len(Shares) = Len(sent)
  <2>1. \A i \in 1 .. Len(sent) : ToPool(sent[i]) \in S
    BY <1>1
  <2> HIDE DEF S
  <2>2. Shares \in [1 .. Len(sent) -> S]
    BY <1>2, <2>1
  <2> QED
    BY <1>1, <2>2
<1>4. ToPool(new) \in S
  OBVIOUS
<1> DEFINE t == Append(Shares, ToPool(new))
<1>5. /\ t \in Seq(S) /\ Len(t) = Len(sent) + 1
      /\ \A i \in 1 .. Len(sent) : t[i] = Shares[i]
      /\ t[Len(sent) + 1] = ToPool(new)
  BY <1>3, <1>4
<1> HIDE DEF t, S
<1>6. /\ DOMAIN t = 1 .. Len(sent) + 1
      /\ t = [i \in 1 .. Len(sent) + 1 |-> t[i]]
  BY <1>1, <1>5
<1>7. \A i \in 1 .. Len(sent) + 1 : t[i] = ToPool(sent'[i])
  BY <1>1, <1>2, <1>5
<1>8. t = [i \in 1 .. Len(sent) + 1 |-> ToPool(sent'[i])]
  BY <1>6, <1>7
<1> QED
  BY <1>2, <1>8 DEF t

LEMMA SubmitImplementsSession ==
  ASSUME DualInv, SubmitShare
  PROVE  [Session!Next]_(Session!vars)
<1> DEFINE new == Submission(Head(batch))
<1>0. /\ pc # "idle" /\ UNCHANGED <<feeMode, en1>>
      /\ batch # <<>> /\ ShareAccepted(Head(batch))
  BY DEF SubmitShare, sessionVars
<1>1. /\ new \in Submit /\ new.mode = feeMode /\ new.en1 = en1 /\ en1 # Null
      /\ new.key \in Key /\ new.key \notin submitted
  BY <1>0, AcceptedOK, SubmissionOwnSession DEF DualInv
<1> HIDE DEF new
<1>2. feeMode \in Modes /\ feeMode # Null
  BY SentinelAssumption DEF DualInv, TypeOK
<1>3. CASE pc' = "idle"
  BY <1>0, <1>2, <1>3, AbstractSteps DEF Session!Next, Wallet, Assigned,
     Shares
<1>4. CASE pc' # "idle"
  <2>1. sent' = Append(sent, new) /\ pc' = pc
    BY <1>4, Submitted DEF new
  <2>2. Shares' = Append(Shares, ToPool(new))
    BY <1>0, <1>1, <1>4, <2>1, AppendShare DEF DualInv
  <2>3. ToPool(new) = [wallet |-> Wallet, en1 |-> Assigned, key |-> new.key]
    BY <1>0, <1>1 DEF ToPool, Wallet, Assigned
  <2>4. \A i \in DOMAIN Shares : Shares[i] # ToPool(new)
    <3> SUFFICES ASSUME NEW i \in DOMAIN Shares PROVE Shares[i] # ToPool(new)
      OBVIOUS
    <3>1. i \in DOMAIN sent /\ Shares[i].key = sent[i].key
      BY <1>0 DEF Shares
    <3>2. sent[i].key \in submitted
      BY <3>1 DEF DualInv, SentRemembered
    <3> QED
      BY <1>1, <3>1, <3>2 DEF ToPool
  <2>5. Wallet # Null /\ Assigned # Null /\ UNCHANGED <<Wallet, Assigned>>
    BY <1>0, <1>1, <1>2, <1>4 DEF Wallet, Assigned
  <2>6. Session!Submit
    BY <1>1, <2>2, <2>3, <2>4, <2>5 DEF Session!Submit, Session!Share,
       Wallet, Assigned, Shares
  <2> QED
    BY <2>6 DEF Session!Next
<1> QED
  BY <1>3, <1>4

LEMMA StepImplementsSession ==
  DualInv /\ [Next]_vars => [Session!Next]_(Session!vars)
<1> SUFFICES ASSUME DualInv, [Next]_vars
             PROVE  [Session!Next]_(Session!vars)
  OBVIOUS
<1>0. /\ feeMode \in Modes /\ OwnSession
      /\ Null \notin Modes /\ Null \notin Extranonce1s
  BY SentinelAssumption DEF DualInv, TypeOK
<1>1. CASE pc = "idle" /\ pc' = "idle"
  BY <1>1 DEF Session!vars
<1>2. CASE pc = "idle" /\ pc' # "idle"
  <2>1. StartSession
    BY <1>2, Dispatches, PairMovers
  <2>2. feeMode' \in Modes /\ en1' = Null /\ sent' = <<>>
    BY <2>1 DEF StartSession, DualInv, TypeOK
  <2>3. Session!Open
    BY <1>2, <2>2, AbstractSteps DEF Wallet, Assigned, Shares
  <2> QED
    BY <2>3 DEF Session!Next
<1>3. CASE pc # "idle" /\ pc' = "idle"
  <2>1. Session!Close
    BY <1>0, <1>3, AbstractSteps DEF Wallet, Assigned, Shares
  <2> QED
    BY <2>1 DEF Session!Next
<1>4. CASE pc # "idle" /\ pc' # "idle"
  <2>1. CASE SubmitShare
    BY <2>1, SubmitImplementsSession
  <2>2. CASE OnSubscribed
    <3>1. /\ "subscribe" \notin replied /\ en1' \in Extranonce1s
          /\ UNCHANGED <<feeMode, sent>>
      BY <2>2 DEF OnSubscribed, Answers
    <3>2. en1 = Null
      BY <1>0, <1>4, <3>1 DEF OwnSession
    <3>3. Session!Assign
      BY <1>0, <1>4, <3>1, <3>2, AbstractSteps DEF Wallet, Assigned, Shares
    <3> QED
      BY <3>3 DEF Session!Next
  <2>3. CASE ~SubmitShare /\ ~OnSubscribed
    <3>1. ~StartSession
      BY <1>4 DEF StartSession
    <3>2. UNCHANGED <<feeMode, en1, sent>>
      BY <2>3, <3>1, SentMovers, SessionMovers
    <3> QED
      BY <1>4, <3>2 DEF Session!vars
  <2> QED
    BY <2>1, <2>2, <2>3
<1> QED
  BY <1>1, <1>2, <1>3, <1>4

(* What the pool sees of run_session is a WalletSession: one wallet and    *)
(* one extranonce1 on a connection, shares of theirs only, none twice,     *)
(* whatever the cards, the chain and the clock do.                         *)
THEOREM DualImplementsSession == Spec => ImplementsSession
<1>1. Init => Session!Init
  BY DEF Init, Session!Init
<1>2. DualInv /\ [Next]_vars => [Session!Next]_(Session!vars)
  BY StepImplementsSession
<1> QED
  BY <1>1, <1>2, DualInvariant, PTL DEF Spec, ImplementsSession, Session!Spec
=============================================================================
