---------------------------- MODULE BridgeProofs ----------------------------
(* Proofs that Bridge keeps its safety properties for every pool, card and *)
(* clock, every tag and extranonce2 modulus and every queue bound.         *)
EXTENDS Bridge, Integers, TLAPS

-----------------------------------------------------------------------------
(* Division with remainder.                                                *)

(* Division with remainder, as the provers know it.                        *)
LEMMA RemainderOf ==
  ASSUME NEW n \in Nat \ {0}, NEW a \in Nat
  PROVE  /\ a % n \in 0 .. n - 1 /\ a \div n \in Int
         /\ a = n * (a \div n) + (a % n)
  OBVIOUS

(* The remainder of a number is determined by the equation that defines    *)
(* it.                                                                     *)
LEMMA RemainderUnique ==
  ASSUME NEW n \in Nat \ {0}, NEW p \in Int, NEW q \in Int,
         NEW r \in 0 .. n - 1, NEW s \in 0 .. n - 1,
         n * p + r = n * q + s
  PROVE  r = s
<1>1. CASE p = q
  BY <1>1
<1>2. CASE p < q
  <2>1. n * (q - p) >= n
    BY <1>2
  <2>2. n * (q - p) = r - s
    BY <2>1
  <2> QED
    BY <2>1, <2>2
<1>3. CASE p > q
  <2>1. n * (p - q) >= n
    BY <1>3
  <2>2. n * (p - q) = s - r
    BY <2>1
  <2> QED
    BY <2>1, <2>2
<1> QED
  BY <1>1, <1>2, <1>3

(* A number below the divisor is its own remainder.                        *)
LEMMA SmallRemainder ==
  ASSUME NEW n \in Nat \ {0}, NEW a \in 0 .. n - 1
  PROVE  a % n = a
<1>1. /\ a % n \in 0 .. n - 1 /\ a \div n \in Int
      /\ a = n * (a \div n) + (a % n)
  BY RemainderOf
<1>2. n * 0 + a = n * (a \div n) + (a % n)
  BY <1>1
<1> QED
  BY <1>1, <1>2, RemainderUnique

(* One more is the next remainder, or the first again.                     *)
LEMMA NextRemainder ==
  ASSUME NEW n \in Nat \ {0}, NEW a \in Nat
  PROVE  (a + 1) % n = IF a % n = n - 1 THEN 0 ELSE (a % n) + 1
<1> DEFINE q == a \div n
           r == a % n
<1>1. r \in 0 .. n - 1 /\ a = n * q + r /\ q \in Int
  BY RemainderOf
<1>2. /\ (a + 1) % n \in 0 .. n - 1 /\ (a + 1) \div n \in Int
      /\ a + 1 = n * ((a + 1) \div n) + ((a + 1) % n)
  BY RemainderOf
<1> HIDE DEF q, r
<1>3. CASE r = n - 1
  <2>1. a + 1 = n * (q + 1) + 0 /\ q + 1 \in Int /\ 0 \in 0 .. n - 1
    BY <1>1, <1>3
  <2>2. (a + 1) % n = 0
    BY <2>1, <1>2, RemainderUnique
  <2> QED
    BY <1>3, <2>2 DEF r
<1>4. CASE r # n - 1
  <2>1. a + 1 = n * q + (r + 1) /\ r + 1 \in 0 .. n - 1
    BY <1>1, <1>4
  <2>2. (a + 1) % n = r + 1
    BY <2>1, <1>1, <1>2, RemainderUnique
  <2> QED
    BY <1>4, <2>2 DEF r
<1> QED
  BY <1>3, <1>4

(* Two numbers less than the modulus apart differ in their remainders.     *)
LEMMA CloseRemainders ==
  ASSUME NEW n \in Nat \ {0}, NEW a \in Nat, NEW b \in Nat,
         a - b < n, b - a < n, a % n = b % n
  PROVE  a = b
<1> DEFINE p == a \div n
           q == b \div n
           r == a % n
<1>1. /\ p \in Int /\ q \in Int /\ r \in 0 .. n - 1
      /\ a = n * p + r /\ b = n * q + r
  BY RemainderOf
<1> HIDE DEF p, q, r
<1>2. CASE p = q
  BY <1>1, <1>2
<1>3. CASE p > q
  <2>1. n * (p - q) >= n
    BY <1>1, <1>3
  <2>2. n * (p - q) = a - b
    BY <1>1
  <2> QED
    BY <2>1, <2>2
<1>4. CASE p < q
  <2>1. n * (q - p) >= n
    BY <1>1, <1>4
  <2>2. n * (q - p) = b - a
    BY <1>1
  <2> QED
    BY <2>1, <2>2
<1> QED
  BY <1>1, <1>2, <1>3, <1>4

(* A remainder lies below its divisor.                                      *)
LEMMA ModBound == \A a \in Nat, m \in Nat \ {0} : a % m \in 0 .. m - 1
  OBVIOUS

(* The tag counter wraps inside its eight bits.                             *)
LEMMA TagOK == \A t \in Tags : NextTag(t) \in Tags
  BY ModBound, ModuliAssumption DEF NextTag, Tags

(* build_job makes a job, and send_job a frame of it.                       *)
LEMMA BuildJobOK ==
  ASSUME TypeOK, en1 # Null, NEW pj \in PoolJobs
  PROVE  BuildJob(pj) \in Job /\ FrameOf(BuildJob(pj)) \in Frame
  <1>1. NextTag(tagCounter) \in Tags
    BY TagOK DEF TypeOK
  <1>2. Extranonce2(en2Counter) \in 0 .. En2Modulus - 1
    BY ModBound, ModuliAssumption DEF TypeOK, Extranonce2
  <1>3. QED
    BY <1>1, <1>2 DEF TypeOK, BuildJob, FrameOf, Job, Frame, Work

-----------------------------------------------------------------------------
(* The inductive invariant.                                                *)

NoWorkBeforeSubscribe == latest # Null => en1 # Null

IdleConnection == pc = "idle" => poolIn = <<>> /\ poolReplied = {} /\ ~poolUp

IsSubscribed(i) == poolIn[i].type = "subscribed"
SubscribedOnce ==
  /\ "subscribe" \notin poolReplied /\ pc # "idle" => en1 = Null
  /\ \A i \in DOMAIN poolIn : IsSubscribed(i) =>
       /\ en1 = Null /\ "subscribe" \in poolReplied
       /\ \A j \in DOMAIN poolIn : IsSubscribed(j) => i = j

JobsOwnSession ==
  pc # "idle" => \A t \in Tags : jobs[t] # Null =>
                    jobs[t].mode = feeMode /\ jobs[t].work.en1 = en1

SentRemembered == \A m \in sent : m.key \in submitted /\ m.id < submitId

LinesBuffered ==
  /\ pc = "lines" => burst \in 1 .. Len(poolIn)
  /\ pc # "lines" => burst = 0

LateOnlyAfterFlip ==
  /\ ~RotationDue \/ pc = "share" => late = 0
  /\ late <= 1

BridgeInv ==
  /\ TypeOK
  /\ NoWorkBeforeSubscribe
  /\ IdleConnection
  /\ LinesBuffered
  /\ SubscribedOnce
  /\ JobsOwnSession
  /\ SentRemembered
  /\ NoDuplicateSubmit
  /\ SubmitsTrueWork
  /\ SubmitsOwnSession
  /\ LateOnlyAfterFlip
-----------------------------------------------------------------------------
(* Type lemmas on the steps the actions are composed of.                   *)

(* Leaving a session resets the connection to typed values.                 *)
LEMMA LeaveOK ==
  ASSUME LeaveSession
  PROVE  /\ pc' = "idle" /\ burst' \in Nat
         /\ poolUp' \in BOOLEAN /\ poolIn' \in Seq(PoolMessage)
         /\ poolReplied' \subseteq {"subscribe", "authorize"}
         /\ poolOwes' \subseteq Nat
  <1>1. <<>> \in Seq(PoolMessage)
    OBVIOUS
  <1>2. QED
    BY <1>1 DEF LeaveSession

(* So does closing the hardware transport.                                  *)
LEMMA CloseOK ==
  ASSUME TypeOK, CloseHardware
  PROVE  hwLink' = "closed" /\ hwIn' \in Seq(Share) /\ hwOut' \in Seq(Frame)
  BY DEF CloseHardware, TypeOK

(* While lines are handled there is one to handle.                          *)
LEMMA HeadLine ==
  ASSUME TypeOK, LinesBuffered, pc = "lines"
  PROVE  poolIn # <<>> /\ Head(poolIn) \in PoolMessage /\ burst \in Nat \ {0}
  <1>1. Len(poolIn) > 0 /\ burst > 0
    BY DEF TypeOK, LinesBuffered
  <1>2. QED
    BY <1>1 DEF TypeOK

(* Handling a line removes it and keeps the rest.                           *)
LEMMA LineDoneOK ==
  ASSUME TypeOK, LinesBuffered, pc = "lines", LineDone
  PROVE  /\ pc' \in {"mode", "lines"} /\ burst' \in Nat
         /\ poolUp' \in BOOLEAN /\ poolIn' \in Seq(PoolMessage)
         /\ poolReplied' \subseteq {"subscribe", "authorize"}
  BY HeadLine DEF LineDone, TypeOK

(* What the pool sends is appended.                                         *)
LEMMA PoolSendsOK ==
  ASSUME TypeOK, NEW msg \in PoolMessage, PoolSends(msg)
  PROVE  poolIn' \in Seq(PoolMessage)
  BY DEF PoolSends, TypeOK

(* An accepted share has a job, and its key and its submission have their   *)
(* types.                                                                   *)
LEMMA AcceptedOK ==
  ASSUME TypeOK, hwIn # <<>>, ShareAccepted(Head(hwIn))
  PROVE  /\ Head(hwIn) \in Share /\ Head(hwIn).tag \in Tags
         /\ jobs[Head(hwIn).tag] \in Job
         /\ ShareKey(Head(hwIn)) \in Key
         /\ Submission(Head(hwIn)) \in Submit
         /\ hwIn' = Tail(hwIn) => hwIn' \in Seq(Share)
  <1>1. Head(hwIn) \in Share /\ Tail(hwIn) \in Seq(Share)
    BY DEF TypeOK
  <1>0. Head(hwIn).tag \in Tags
    BY <1>1 DEF Share
  <1>2. jobs[Head(hwIn).tag] \in Job
    BY <1>1, <1>0 DEF TypeOK, ShareAccepted
  <1>3. ShareKey(Head(hwIn)) \in Key
    BY <1>1, <1>2 DEF ShareKey, Key, Job, Work, Share
  <1>4. Submission(Head(hwIn)) \in Submit
    BY <1>1, <1>2, <1>3 DEF TypeOK, Submission, Submit, Job, Share
  <1>5. QED
    BY <1>1, <1>0, <1>2, <1>3, <1>4

(* Registering a submission keeps the id, the keys and the pending ids      *)
(* typed.                                                                   *)
LEMMA RegisterSubmitOK ==
  ASSUME TypeOK, NEW share, ShareKey(share) \in Key, RegisterSubmit(share)
  PROVE  /\ submitId' \in Nat /\ submitted' \subseteq Key
         /\ pending' \subseteq Nat
  BY DEF RegisterSubmit, TypeOK

\* The part of a dispatch that the roll and mining.notify share.
LEMMA DispatchOK ==
  ASSUME TypeOK, en1 # Null, NEW pj \in PoolJobs,
         RegisterJob(pj), AdvanceExtranonce2, SendJob(pj) \/ SendJobFails
  PROVE  /\ tagCounter' \in Tags /\ jobs' \in [Tags -> Job \cup {Null}]
         /\ en2Counter' \in Nat
         /\ hwLink' \in {"closed", "open", "broken"}
         /\ hwOut' \in Seq(Frame) /\ hwIn' \in Seq(Share)
  <1>1. BuildJob(pj) \in Job /\ FrameOf(BuildJob(pj)) \in Frame
    BY BuildJobOK
  <1>2. tagCounter' \in Tags /\ jobs' \in [Tags -> Job \cup {Null}]
    BY <1>1, TagOK DEF RegisterJob, TypeOK
  <1>3. en2Counter' \in Nat
    BY DEF AdvanceExtranonce2, TypeOK
  <1>4. /\ hwLink' \in {"closed", "open", "broken"}
        /\ hwOut' \in Seq(Frame) /\ hwIn' \in Seq(Share)
    <2>1. CASE SendJob(pj)
      BY <2>1, <1>1 DEF SendJob, TypeOK, hwVars
    <2>2. CASE SendJobFails
      BY <2>2, CloseOK DEF SendJobFails
    <2>3. QED
      BY <2>1, <2>2
  <1>5. QED
    BY <1>2, <1>3, <1>4

\* Every action keeps every variable in its type.
LEMMA TypeStep ==
  ASSUME TypeOK, NoWorkBeforeSubscribe, LinesBuffered, [Next]_vars
  PROVE  TypeOK'
  <1> USE DEF TypeOK
  <1> USE DEF sessionVars, jobVars, shareVars, hwVars, cardVars, poolVars,
     history
  <1>1. CASE StartSession
    BY <1>1, DifficultyAssumption DEF StartSession, ClearTables
  <1>2. CASE Rotate
    BY <1>2, LeaveOK DEF Rotate
  <1>3. CASE CheckMode
    BY <1>3 DEF CheckMode
  <1>4. CASE ConnectHardware
    BY <1>4 DEF ConnectHardware
  <1>5. CASE ConnectHardwareFails
    BY <1>5, LeaveOK DEF ConnectHardwareFails
  <1>6. CASE ReadHardwareFails
    BY <1>6, LeaveOK, CloseOK DEF ReadHardwareFails
  <1>7. CASE NoShare
    BY <1>7 DEF NoShare
  <1>8. CASE DropShare
    BY <1>8 DEF DropShare
  <1>9. CASE SubmitShare
    BY <1>9, AcceptedOK, RegisterSubmitOK DEF SubmitShare
  <1>10. CASE SubmitFails
    BY <1>10, LeaveOK, AcceptedOK, RegisterSubmitOK DEF SubmitFails
  <1>11. CASE NoRoll
    BY <1>11 DEF NoRoll
  <1>12. CASE RollWork
    BY <1>12, LeaveOK, DispatchOK, CloseOK DEF RollWork, NoWorkBeforeSubscribe
  <1>13. CASE RecvTimeout
    BY <1>13 DEF RecvTimeout
  <1>14. CASE Recv
    BY <1>14 DEF Recv
  <1>15. CASE RecvFails
    BY <1>15, LeaveOK DEF RecvFails
  <1>16. CASE OnSubscribed
    BY <1>16, LineDoneOK, HeadLine DEF OnSubscribed, Line, PoolMessage
  <1>17. CASE OnAuthorized
    BY <1>17, LineDoneOK, HeadLine DEF OnAuthorized, Line, PoolMessage
  <1>18. CASE OnAuthorizationFailed
    BY <1>18, LeaveOK, HeadLine DEF OnAuthorizationFailed, Line, PoolMessage
  <1>19. CASE OnSetDifficulty
    BY <1>19, LineDoneOK, HeadLine DEF OnSetDifficulty, Line, PoolMessage
  <1>20. CASE OnNotifyIgnored
    BY <1>20, LineDoneOK, HeadLine DEF OnNotifyIgnored, Line, PoolMessage
  <1>21. CASE OnNotify
    BY <1>21, LeaveOK, DispatchOK, LineDoneOK, CloseOK, HeadLine DEF OnNotify,
       Line, NoWorkBeforeSubscribe, PoolMessage
  <1>22. CASE OnResponse
    BY <1>22, LineDoneOK, HeadLine DEF OnResponse, Line, PoolMessage
  <1>23. CASE FpgaLoadsJob
    BY <1>23 DEF FpgaLoadsJob
  <1>24. CASE FpgaFindsShare
    BY <1>24 DEF FpgaFindsShare, Share, Frame
  <1>25. CASE MailboxDrains
    BY <1>25 DEF MailboxDrains
  <1>26. CASE PoolAnswersSubscribe
    BY <1>26, PoolSendsOK DEF PoolAnswersSubscribe, Unchanged, PoolMessage
  <1>27. CASE PoolAnswersAuthorize
    BY <1>27, PoolSendsOK DEF PoolAnswersAuthorize, Unchanged, PoolMessage
  <1>28. CASE PoolSetsDifficulty
    BY <1>28, PoolSendsOK DEF PoolSetsDifficulty, Unchanged, PoolMessage
  <1>29. CASE PoolNotifies
    BY <1>29, PoolSendsOK DEF PoolNotifies, Unchanged, PoolMessage
  <1>30. CASE PoolAnswersSubmit
    BY <1>30, PoolSendsOK DEF PoolAnswersSubmit, Unchanged, PoolMessage
  <1>31. CASE PoolDrops
    BY <1>31 DEF PoolDrops
  <1>32. CASE ClockFlips
    BY <1>32 DEF ClockFlips
  <1>33. CASE RollFallsDue
    BY <1>33 DEF RollFallsDue
  <1>34. CASE HardwareLinkBreaks
    BY <1>34 DEF HardwareLinkBreaks
  <1>35. CASE UNCHANGED vars
    BY <1>35 DEF vars
  <1>36. QED
    BY <1>1, <1>2, <1>3, <1>4, <1>5, <1>6, <1>7, <1>8, <1>9, <1>10, <1>11,
       <1>12, <1>13, <1>14, <1>15, <1>16, <1>17, <1>18, <1>19, <1>20, <1>21,
       <1>22, <1>23, <1>24, <1>25, <1>26, <1>27, <1>28, <1>29, <1>30, <1>31,
       <1>32, <1>33, <1>34, <1>35 DEF Next, BridgeStep, CardStep, PoolStep

-----------------------------------------------------------------------------
(* Which actions move what.                                                *)

(* Only the start of a session and a submission touch what was sent or its  *)
(* memory.                                                                  *)
LEMMA SentMovers ==
  ASSUME [Next]_vars, ~StartSession, ~SubmitShare, ~SubmitFails
  PROVE  UNCHANGED <<sent, submitted, submitId>>
  BY DEF Next, BridgeStep, CardStep, PoolStep, Rotate, LeaveSession,
         CheckMode, ConnectHardware, ConnectHardwareFails, ReadHardwareFails,
         CloseHardware, NoShare, DropShare, NoRoll, RollWork,
         AdvanceExtranonce2, RegisterJob, SendJob, SendJobFails, RecvTimeout,
         Recv, RecvFails, OnSubscribed, LineDone, Line, OnAuthorized,
         OnAuthorizationFailed, OnSetDifficulty, OnNotifyIgnored, OnNotify,
         OnResponse, FpgaLoadsJob, FpgaFindsShare, MailboxDrains,
         PoolAnswersSubscribe, PoolSends, Unchanged, PoolAnswersAuthorize,
         PoolSetsDifficulty, PoolNotifies, PoolAnswersSubmit, PoolDrops,
         ClockFlips, RollFallsDue, HardwareLinkBreaks, sessionVars, jobVars,
         shareVars, hwVars, cardVars, poolVars, history, vars

(* Jobs, wallet and extranonce1 move at the start, the subscription and a   *)
(* dispatch; no other step enters a session.                                *)
LEMMA SessionMovers ==
  ASSUME [Next]_vars, ~StartSession, ~SubmitShare, ~RollWork, ~OnNotify,
         ~OnSubscribed
  PROVE  /\ UNCHANGED <<jobs, sent, feeMode, en1>>
         /\ pc' # "idle" => pc # "idle"
  BY DEF Next, BridgeStep, CardStep, PoolStep, Rotate, LeaveSession,
         CheckMode, ConnectHardware, ConnectHardwareFails, ReadHardwareFails,
         CloseHardware, NoShare, DropShare, SubmitFails, RegisterSubmit,
         NoRoll, RecvTimeout, Recv, RecvFails, OnAuthorized, LineDone, Line,
         OnAuthorizationFailed, OnSetDifficulty, OnNotifyIgnored, OnResponse,
         FpgaLoadsJob, FpgaFindsShare, MailboxDrains, PoolAnswersSubscribe,
         PoolSends, Unchanged, PoolAnswersAuthorize, PoolSetsDifficulty,
         PoolNotifies, PoolAnswersSubmit, PoolDrops, ClockFlips,
         RollFallsDue, HardwareLinkBreaks, sessionVars, jobVars, shareVars,
         hwVars, cardVars, poolVars, history, vars

(* A late submission needs the schedule, a session start or a share.        *)
LEMMA LateMovers ==
  ASSUME [Next]_vars, ~StartSession, ~SubmitShare, ~ClockFlips, ~CheckMode
  PROVE  /\ UNCHANGED <<wallMode, feeMode, late>>
         /\ pc' = "share" => pc = "share"
  BY DEF Next, BridgeStep, CardStep, PoolStep, Rotate, LeaveSession,
         ConnectHardware, ConnectHardwareFails, ReadHardwareFails,
         CloseHardware, NoShare, DropShare, SubmitFails, RegisterSubmit,
         NoRoll, RollWork, AdvanceExtranonce2, RegisterJob, SendJob,
         SendJobFails, RecvTimeout, Recv, RecvFails, OnSubscribed, LineDone,
         Line, OnAuthorized, OnAuthorizationFailed, OnSetDifficulty,
         OnNotifyIgnored, OnNotify, OnResponse, FpgaLoadsJob, FpgaFindsShare,
         MailboxDrains, PoolAnswersSubscribe, PoolSends, Unchanged,
         PoolAnswersAuthorize, PoolSetsDifficulty, PoolNotifies,
         PoolAnswersSubmit, PoolDrops, RollFallsDue, HardwareLinkBreaks,
         sessionVars, jobVars, shareVars, hwVars, cardVars, poolVars,
         history, vars

-----------------------------------------------------------------------------
(* Preservation of the rest of the invariant.                              *)

(* Every submission is remembered by its key and was checked by its         *)
(* digest.                                                                  *)
LEMMA SentStep ==
  ASSUME BridgeInv, [Next]_vars
  PROVE  SentRemembered' /\ NoDuplicateSubmit' /\ SubmitsTrueWork'
  <1> USE DEF SentRemembered, NoDuplicateSubmit, SubmitsTrueWork
  <1>1. CASE StartSession
    BY <1>1 DEF StartSession
  <1>2. CASE SubmitShare
    <2> DEFINE share == Head(hwIn)
               new   == Submission(share)
    <2>1. /\ sent' = sent \cup {new}
          /\ submitted' = submitted \cup {new.key} /\ submitId' = submitId + 1
          /\ new.id = submitId /\ new.key = ShareKey(share)
      BY <1>2 DEF SubmitShare, RegisterSubmit, Submission
    <2>2. /\ new.key \notin submitted
          /\ new.mined = new.work /\ MeetsTarget(new.key.nonce, new.diff)
      BY <1>2 DEF SubmitShare, ShareAccepted, IsDuplicate, DigestAgrees,
                  Submission, ShareKey
    <2>3. sent \subseteq Submit /\ submitId \in Nat
      BY DEF BridgeInv, TypeOK
    <2>4. SentRemembered'
      BY <2>1, <2>3 DEF BridgeInv, Submit
    <2>5. NoDuplicateSubmit'
      BY <2>1, <2>2 DEF BridgeInv
    <2>6. SubmitsTrueWork'
      BY <2>1, <2>2 DEF BridgeInv, MeetsTarget
    <2>7. QED
      BY <2>4, <2>5, <2>6
  <1>3. CASE SubmitFails
    <2>1. /\ sent' = sent /\ submitId' = submitId + 1
          /\ submitted' = submitted \cup {ShareKey(Head(hwIn))}
      BY <1>3 DEF SubmitFails, RegisterSubmit, history
    <2>2. QED
      BY <2>1 DEF BridgeInv, TypeOK, Submit, MeetsTarget
  <1>4. CASE ~StartSession /\ ~SubmitShare /\ ~SubmitFails
    BY <1>4, SentMovers DEF BridgeInv, MeetsTarget
  <1>5. QED
    BY <1>1, <1>2, <1>3, <1>4

(* Jobs and submissions belong to the connection and its wallet.            *)
LEMMA SessionStep ==
  ASSUME BridgeInv, [Next]_vars
  PROVE  JobsOwnSession' /\ SubmitsOwnSession'
  <1> USE DEF JobsOwnSession, SubmitsOwnSession
  <1>1. CASE StartSession
    BY <1>1 DEF StartSession, ClearTables
  <1>2. CASE SubmitShare
    <2> DEFINE share == Head(hwIn)
    <2>1. /\ sent' = sent \cup {Submission(share)} /\ pc # "idle"
          /\ UNCHANGED <<jobs, feeMode, en1>>
      BY <1>2 DEF SubmitShare, jobVars, sessionVars
    <2>2. share.tag \in Tags /\ jobs[share.tag] # Null
      BY <1>2, AcceptedOK DEF SubmitShare, BridgeInv, ShareAccepted
    <2>3. Submission(share).mode = feeMode /\ Submission(share).work.en1 = en1
      BY <2>1, <2>2 DEF BridgeInv, Submission
    <2>4. QED
      BY <2>1, <2>3 DEF BridgeInv
  <1>3. ASSUME RollWork \/ OnNotify
        PROVE  JobsOwnSession' /\ SubmitsOwnSession'
    <2>1. /\ \E pj \in PoolJobs : RegisterJob(pj)
          /\ en1 # Null /\ UNCHANGED <<sent, feeMode, en1>> /\ pc # "idle"
      BY <1>3, HeadLine DEF RollWork, OnNotify, history, Line, BridgeInv,
         TypeOK, NoWorkBeforeSubscribe, PoolMessage
    <2>2. PICK pj \in PoolJobs : RegisterJob(pj)
      BY <2>1
    <2>3. BuildJob(pj).mode = feeMode /\ BuildJob(pj).work.en1 = en1
      BY DEF BuildJob
    <2>4. JobsOwnSession'
      BY <2>1, <2>2, <2>3, TagOK DEF RegisterJob, BridgeInv, TypeOK
    <2>5. QED
      BY <2>1, <2>4 DEF BridgeInv
  <1>4. CASE OnSubscribed
    <2>1. PICK i \in DOMAIN poolIn : Head(poolIn) = poolIn[i]
      BY <1>4, HeadLine DEF OnSubscribed, Line, BridgeInv, TypeOK
    <2>2. en1 = Null
      BY <1>4, <2>1 DEF OnSubscribed, Line, BridgeInv, SubscribedOnce,
                        IsSubscribed
    <2>3. pc # "idle" /\ \A t \in Tags : jobs[t] = Null
      BY <1>4, <2>2, SentinelAssumption
         DEF OnSubscribed, Line, BridgeInv, TypeOK, Job, Work
    <2>4. sent = {}
      BY <2>2, <2>3, SentinelAssumption DEF BridgeInv, TypeOK, Submit, Work
    <2>5. QED
      BY <1>4, <2>3, <2>4 DEF OnSubscribed, jobVars, history
  <1>5. CASE ~StartSession /\ ~SubmitShare /\ ~RollWork /\ ~OnNotify
             /\ ~OnSubscribed
    BY <1>5, SessionMovers DEF BridgeInv
  <1>6. QED
    BY <1>1, <1>2, <1>3, <1>4, <1>5

(* A late submission is the last step of an iteration that began before     *)
(* the switch.                                                              *)
LEMMA LateStep ==
  ASSUME BridgeInv, [Next]_vars
  PROVE  LateOnlyAfterFlip'
  <1> USE DEF BridgeInv, LateOnlyAfterFlip, RotationDue, MustRotate
  <1>1. CASE StartSession
    BY <1>1 DEF StartSession
  <1>2. CASE SubmitShare
    BY <1>2 DEF SubmitShare, sessionVars
  <1>3. CASE ClockFlips
    BY <1>3 DEF ClockFlips
  <1>4. CASE CheckMode
    BY <1>4 DEF CheckMode, history, sessionVars
  <1>5. CASE ~StartSession /\ ~SubmitShare /\ ~ClockFlips /\ ~CheckMode
    BY <1>5, LateMovers
  <1>6. QED
    BY <1>1, <1>2, <1>3, <1>4, <1>5


\* The parts of the invariant about the pool connection.
LEMMA ConnectionStep ==
  ASSUME BridgeInv, [Next]_vars
  PROVE  /\ NoWorkBeforeSubscribe' /\ IdleConnection'
         /\ LinesBuffered' /\ SubscribedOnce'
  <1> USE DEF BridgeInv, TypeOK, NoWorkBeforeSubscribe, IdleConnection,
     LinesBuffered, SubscribedOnce, IsSubscribed,
          sessionVars, jobVars, shareVars, hwVars, cardVars, poolVars, history
  <1>1. CASE StartSession
    BY <1>1 DEF StartSession
  <1>2. CASE Rotate
    BY <1>2 DEF Rotate, LeaveSession
  <1>3. CASE CheckMode
    BY <1>3 DEF CheckMode
  <1>4. CASE ConnectHardware
    BY <1>4 DEF ConnectHardware
  <1>5. CASE ConnectHardwareFails
    BY <1>5 DEF ConnectHardwareFails, LeaveSession
  <1>6. CASE ReadHardwareFails
    BY <1>6 DEF ReadHardwareFails, LeaveSession
  <1>7. CASE NoShare
    BY <1>7 DEF NoShare
  <1>8. CASE DropShare
    BY <1>8 DEF DropShare
  <1>9. CASE SubmitShare
    BY <1>9 DEF SubmitShare
  <1>10. CASE SubmitFails
    BY <1>10 DEF SubmitFails, LeaveSession
  <1>11. CASE NoRoll
    BY <1>11 DEF NoRoll
  <1>12. CASE RollWork
    BY <1>12 DEF RollWork, LeaveSession
  <1>13. CASE RecvTimeout
    BY <1>13 DEF RecvTimeout
  <1>14. CASE Recv
    BY <1>14 DEF Recv
  <1>15. CASE RecvFails
    BY <1>15 DEF RecvFails, LeaveSession
  <1>16. CASE OnSubscribed
    BY <1>16 DEF OnSubscribed, LineDone, Line
  <1>17. CASE OnAuthorized
    BY <1>17 DEF OnAuthorized, LineDone, Line
  <1>18. CASE OnAuthorizationFailed
    BY <1>18 DEF OnAuthorizationFailed, LeaveSession, Line
  <1>19. CASE OnSetDifficulty
    BY <1>19 DEF OnSetDifficulty, LineDone, Line
  <1>20. CASE OnNotifyIgnored
    BY <1>20 DEF OnNotifyIgnored, LineDone, Line
  <1>21. CASE OnNotify
    BY <1>21 DEF OnNotify, LeaveSession, LineDone, Line
  <1>22. CASE OnResponse
    BY <1>22 DEF OnResponse, LineDone, Line
  <1>23. CASE FpgaLoadsJob
    BY <1>23 DEF FpgaLoadsJob
  <1>24. CASE FpgaFindsShare
    BY <1>24 DEF FpgaFindsShare
  <1>25. CASE MailboxDrains
    BY <1>25 DEF MailboxDrains
  <1>26. CASE PoolAnswersSubscribe
    BY <1>26 DEF PoolAnswersSubscribe, PoolSends, Unchanged
  <1>27. CASE PoolAnswersAuthorize
    BY <1>27 DEF PoolAnswersAuthorize, PoolSends, Unchanged
  <1>28. CASE PoolSetsDifficulty
    BY <1>28 DEF PoolSetsDifficulty, PoolSends, Unchanged
  <1>29. CASE PoolNotifies
    BY <1>29 DEF PoolNotifies, PoolSends, Unchanged
  <1>30. CASE PoolAnswersSubmit
    BY <1>30 DEF PoolAnswersSubmit, PoolSends, Unchanged
  <1>31. CASE PoolDrops
    BY <1>31 DEF PoolDrops
  <1>32. CASE ClockFlips
    BY <1>32 DEF ClockFlips
  <1>33. CASE RollFallsDue
    BY <1>33 DEF RollFallsDue
  <1>34. CASE HardwareLinkBreaks
    BY <1>34 DEF HardwareLinkBreaks
  <1>35. CASE UNCHANGED vars
    BY <1>35 DEF vars
  <1>36. QED
    BY <1>1, <1>2, <1>3, <1>4, <1>5, <1>6, <1>7, <1>8, <1>9, <1>10, <1>11,
       <1>12, <1>13, <1>14, <1>15, <1>16, <1>17, <1>18, <1>19, <1>20, <1>21,
       <1>22, <1>23, <1>24, <1>25, <1>26, <1>27, <1>28, <1>29, <1>30, <1>31,
       <1>32, <1>33, <1>34, <1>35 DEF Next, BridgeStep, CardStep, PoolStep

-----------------------------------------------------------------------------
(* The theorems.                                                           *)

(* The invariant holds at the start.                                        *)
LEMMA InvInit == Init => BridgeInv
  <1> SUFFICES ASSUME Init PROVE BridgeInv
    OBVIOUS
  <1>1. TypeOK
    <2>1. /\ <<>> \in Seq(Frame) /\ <<>> \in Seq(Share)
          /\ <<>> \in Seq(PoolMessage) /\ 0 \in Tags
      BY ModuliAssumption DEF Tags
    <2>2. QED
      BY <2>1, DifficultyAssumption DEF Init, TypeOK
  <1>2. QED
    BY <1>1 DEF Init, BridgeInv, NoWorkBeforeSubscribe, IdleConnection,
       LinesBuffered, SubscribedOnce, JobsOwnSession, SentRemembered,
       NoDuplicateSubmit, SubmitsTrueWork, SubmitsOwnSession,
       LateOnlyAfterFlip, RotationDue, MustRotate

(* And every step keeps it.                                                 *)
LEMMA InvStep == BridgeInv /\ [Next]_vars => BridgeInv'
  BY TypeStep, ConnectionStep, SentStep, SessionStep, LateStep DEF BridgeInv

(* So it always holds.                                                      *)
LEMMA Invariant == Spec => []BridgeInv
  BY InvInit, InvStep, PTL DEF Spec

(* Type correctness of the bridge, its card and its pool connection.       *)
THEOREM BridgeTypes == Spec => []TypeOK
<1>1. BridgeInv => TypeOK
  BY DEF BridgeInv
<1>2. QED
  BY <1>1, Invariant, PTL

(* submitted_shares is enough: no connection is sent one share twice,      *)
(* although the card may report a nonce any number of times.               *)
THEOREM BridgeNoDuplicates == Spec => []NoDuplicateSubmit
<1>1. BridgeInv => NoDuplicateSubmit
  BY DEF BridgeInv
<1>2. QED
  BY <1>1, Invariant, PTL

(* The digest check of check_share is enough whatever the tag counter does *)
(* and whatever the card still mines: only hashed work is submitted.       *)
THEOREM BridgeTrueWork == Spec => []SubmitsTrueWork
<1>1. BridgeInv => SubmitsTrueWork
  BY DEF BridgeInv
<1>2. QED
  BY <1>1, Invariant, PTL

(* Clearing jobs at the start of run_session keeps the work and the wallet *)
(* of one connection out of the next.                                      *)
THEOREM BridgeOwnSession == Spec => []SubmitsOwnSession
<1>1. BridgeInv => SubmitsOwnSession
  BY DEF BridgeInv
<1>2. QED
  BY <1>1, Invariant, PTL

(* After a switch of the fee schedule at most one share goes to the wallet *)
(* whose turn is over.                                                     *)
THEOREM BridgeOneLateSubmit == Spec => []AtMostOneLateSubmit
<1>1. BridgeInv => AtMostOneLateSubmit
  BY DEF BridgeInv, LateOnlyAfterFlip, AtMostOneLateSubmit
<1>2. QED
  BY <1>1, Invariant, PTL

-----------------------------------------------------------------------------
(* Every dispatched header opens a fresh nonce space.                      *)

(* How many jobs were registered after the one of tag t.                   *)
AgeOf(t) == IF t <= tagCounter THEN tagCounter - t
            ELSE tagCounter + TagModulus - t

(* The tag counter and the extranonce2 counter move together: a job of a   *)
(* given age carries the extranonce2 the counter had when it was built.    *)
WorkOfAge ==
  \A t \in Tags : jobs[t] # Null =>
    /\ AgeOf(t) < en2Counter
    /\ jobs[t].work.en2 = Extranonce2(en2Counter - 1 - AgeOf(t))

(* The next tag is one further, or the first again.                        *)
LEMMA NextTagIs ==
  ASSUME NEW t \in Tags
  PROVE  NextTag(t) = IF t = TagModulus - 1 THEN 0 ELSE t + 1
<1>1. t \in Nat /\ t \in 0 .. TagModulus - 1 /\ t % TagModulus = t
  BY ModuliAssumption, SmallRemainder DEF Tags
<1>2. (t + 1) % TagModulus = IF t % TagModulus = TagModulus - 1
                             THEN 0 ELSE (t % TagModulus) + 1
  BY <1>1, ModuliAssumption, NextRemainder
<1> QED
  BY <1>1, <1>2 DEF NextTag

(* A dispatch, sent or not, makes its job the youngest and the others one  *)
(* older, and overwrites the one whose tag comes round again.              *)
LEMMA DispatchAges ==
  ASSUME TypeOK, WorkOfAge, NEW pj \in PoolJobs, RegisterJob(pj),
         AdvanceExtranonce2
  PROVE  WorkOfAge'
<1> DEFINE new == NextTag(tagCounter)
<1>1. /\ tagCounter \in Tags /\ new \in Tags
      /\ new = IF tagCounter = TagModulus - 1 THEN 0 ELSE tagCounter + 1
      /\ tagCounter' = new /\ en2Counter' = en2Counter + 1
      /\ en2Counter \in Nat
  BY TagOK, NextTagIs DEF TypeOK, RegisterJob, AdvanceExtranonce2
<1>2. /\ jobs'[new].work.en2 = Extranonce2(en2Counter)
      /\ \A t \in Tags \ {new} : jobs'[t] = jobs[t]
  BY <1>1 DEF RegisterJob, TypeOK, BuildJob
<1> HIDE DEF new
<1>3. ASSUME NEW t \in Tags
      PROVE  AgeOf(t)' = IF t = new THEN 0 ELSE AgeOf(t) + 1
  BY <1>1, ModuliAssumption DEF AgeOf, Tags
<1>4. ASSUME NEW t \in Tags, jobs'[t] # Null
      PROVE  /\ AgeOf(t)' < en2Counter'
             /\ jobs'[t].work.en2 = Extranonce2(en2Counter' - 1 - AgeOf(t)')
  <2>1. CASE t = new
    <3>1. en2Counter' - 1 - AgeOf(t)' = en2Counter
      BY <1>1, <1>3, <2>1
    <3> QED
      BY <1>1, <1>2, <1>3, <2>1, <3>1
  <2>2. CASE t # new
    <3>1. AgeOf(t)' = AgeOf(t) + 1 /\ AgeOf(t) \in Int
      BY <1>1, <1>3, <2>2, ModuliAssumption DEF AgeOf, Tags
    <3>2. en2Counter' - 1 - AgeOf(t)' = en2Counter - 1 - AgeOf(t)
      BY <1>1, <3>1
    <3> QED
      BY <1>1, <1>2, <1>4, <2>2, <3>1, <3>2 DEF WorkOfAge
  <2> QED
    BY <2>1, <2>2
<1> QED
  BY <1>4 DEF WorkOfAge, Extranonce2

(* Nothing else touches the job table or its counters.                     *)
LEMMA CounterMovers ==
  ASSUME [Next]_vars, ~StartSession, ~RollWork, ~OnNotify
  PROVE  UNCHANGED <<jobs, tagCounter, en2Counter>>
  BY DEF Next, BridgeStep, CardStep, PoolStep, Rotate, LeaveSession,
         CheckMode, ConnectHardware, ConnectHardwareFails, ReadHardwareFails,
         CloseHardware, NoShare, DropShare, SubmitShare, SubmitFails,
         RegisterSubmit, NoRoll, RecvTimeout, Recv, RecvFails, OnSubscribed,
         LineDone, Line, OnAuthorized, OnAuthorizationFailed,
         OnSetDifficulty, OnNotifyIgnored, OnResponse, FpgaLoadsJob,
         FpgaFindsShare, MailboxDrains, PoolAnswersSubscribe, PoolSends,
         Unchanged, PoolAnswersAuthorize, PoolSetsDifficulty, PoolNotifies,
         PoolAnswersSubmit, PoolDrops, ClockFlips, RollFallsDue,
         HardwareLinkBreaks, sessionVars, jobVars, shareVars, hwVars,
         cardVars, poolVars, history, vars

(* So every step keeps the ages.                                           *)
LEMMA AgeStep == BridgeInv /\ WorkOfAge /\ [Next]_vars => WorkOfAge'
<1> SUFFICES ASSUME BridgeInv, WorkOfAge, [Next]_vars PROVE WorkOfAge'
  OBVIOUS
<1>1. CASE StartSession
  BY <1>1 DEF StartSession, ClearTables, WorkOfAge
<1>2. CASE RollWork
  BY <1>2, DispatchAges DEF RollWork, BridgeInv, TypeOK
<1>3. CASE OnNotify
  <2>1. Head(poolIn).pj \in PoolJobs
    BY <1>3, HeadLine DEF OnNotify, Line, BridgeInv, PoolMessage
  <2> QED
    BY <1>3, <2>1, DispatchAges DEF OnNotify, BridgeInv
<1>4. CASE ~StartSession /\ ~RollWork /\ ~OnNotify
  BY <1>4, CounterMovers DEF WorkOfAge, AgeOf, Extranonce2
<1> QED
  BY <1>1, <1>2, <1>3, <1>4

(* Jobs of one table are less than a turn of the tag counter apart, and    *)
(* extranonce2 is at least as wide as a tag.                               *)
LEMMA AgesAreDistinct == TypeOK /\ WorkOfAge => DistinctWork
<1> SUFFICES ASSUME TypeOK, WorkOfAge, NEW s \in Tags, NEW t \in Tags,
                    jobs[s] # Null, jobs[t] # Null,
                    jobs[s].work = jobs[t].work
             PROVE  s = t
  BY DEF DistinctWork
<1> DEFINE a == en2Counter - 1 - AgeOf(s)
           b == en2Counter - 1 - AgeOf(t)
<1>1. /\ AgeOf(s) \in 0 .. TagModulus - 1 /\ AgeOf(t) \in 0 .. TagModulus - 1
      /\ AgeOf(s) = AgeOf(t) => s = t
  BY ModuliAssumption DEF AgeOf, Tags, TypeOK
<1>2. /\ en2Counter \in Nat
      /\ AgeOf(s) < en2Counter /\ AgeOf(t) < en2Counter
      /\ Extranonce2(a) = Extranonce2(b)
  BY DEF WorkOfAge, TypeOK
<1>3. /\ a \in Nat /\ b \in Nat /\ a - b < En2Modulus /\ b - a < En2Modulus
      /\ a % En2Modulus = b % En2Modulus /\ En2Modulus \in Nat \ {0}
      /\ a = b => AgeOf(s) = AgeOf(t)
  BY <1>1, <1>2, ModuliAssumption DEF Extranonce2
<1> HIDE DEF a, b
<1> QED
  BY <1>1, <1>3, CloseRemainders

(* The comment on WORK_ROLL_SECONDS for every pair of moduli: no two tags  *)
(* stand for the same header, however often both counters have wrapped.    *)
THEOREM BridgeDistinctWork == Spec => []DistinctWork
<1>1. Init => WorkOfAge
  BY DEF Init, WorkOfAge
<1>2. BridgeInv /\ WorkOfAge => DistinctWork
  BY AgesAreDistinct DEF BridgeInv
<1> QED
  BY <1>1, <1>2, AgeStep, Invariant, PTL DEF Spec

-----------------------------------------------------------------------------
(* pending_submits is what the pool still owes.                            *)

ResponsesIn(queue) ==
  {queue[i].id : i \in {j \in DOMAIN queue : queue[j].type = "response"}}

(* Every answer in flight is for a submit of its own, none is for one the  *)
(* pool still has to answer, and ids are never given out twice.            *)
IsResponse(i) == poolIn[i].type = "response"
AnswersDistinct ==
  \A i, j \in DOMAIN poolIn :
    IsResponse(i) /\ IsResponse(j) /\ poolIn[i].id = poolIn[j].id => i = j
AnsweredNotOwed ==
  \A i \in DOMAIN poolIn : IsResponse(i) => poolIn[i].id \notin poolOwes
PendingIssued == \A id \in pending : id < submitId
IdleOwesNothing == pc = "idle" => poolOwes = {}

Answers ==
  /\ AnswersDistinct /\ AnsweredNotOwed /\ PendingIssued /\ IdleOwesNothing
  /\ ResponsesMatch

(* The variables that Answers is about, and what it asks of the rest.      *)
answerVars == <<poolIn, poolOwes, pending, submitId>>

(* The head of the queue and the ones behind it.                           *)
LEMMA ResponsesBehind ==
  ASSUME NEW S, NEW queue \in Seq(S), queue # <<>>
  PROVE  ResponsesIn(queue) =
           ResponsesIn(Tail(queue))
             \cup (IF Head(queue).type = "response" THEN {Head(queue).id}
                   ELSE {})
<1>1. /\ DOMAIN queue = 1 .. Len(queue) /\ Len(queue) \in Nat \ {0}
      /\ DOMAIN Tail(queue) = 1 .. Len(queue) - 1
      /\ Head(queue) = queue[1]
      /\ \A i \in 1 .. Len(queue) - 1 : Tail(queue)[i] = queue[i + 1]
  OBVIOUS
<1>2. ASSUME NEW i \in DOMAIN queue
      PROVE  i = 1 \/ (i - 1 \in DOMAIN Tail(queue)
                       /\ Tail(queue)[i - 1] = queue[i])
  BY <1>1
<1>3. ASSUME NEW i \in DOMAIN Tail(queue)
      PROVE  i + 1 \in DOMAIN queue /\ Tail(queue)[i] = queue[i + 1]
  BY <1>1
<1>4. 1 \in DOMAIN queue
  BY <1>1
<1>5. ASSUME NEW id \in ResponsesIn(queue)
      PROVE  id \in ResponsesIn(Tail(queue))
               \cup (IF Head(queue).type = "response" THEN {Head(queue).id}
                     ELSE {})
  <2>1. PICK i \in DOMAIN queue : queue[i].type = "response"
                                  /\ id = queue[i].id
    BY DEF ResponsesIn
  <2>2. CASE i = 1
    BY <1>1, <2>1, <2>2
  <2>3. CASE i # 1
    <3>1. i - 1 \in DOMAIN Tail(queue) /\ Tail(queue)[i - 1] = queue[i]
      BY <1>2, <2>3
    <3>2. id \in ResponsesIn(Tail(queue))
      BY <2>1, <3>1 DEF ResponsesIn
    <3> QED
      BY <3>2
  <2> QED
    BY <2>2, <2>3
<1>6. ASSUME NEW id \in ResponsesIn(Tail(queue))
      PROVE  id \in ResponsesIn(queue)
  <2>1. PICK i \in DOMAIN Tail(queue) : Tail(queue)[i].type = "response"
                                        /\ id = Tail(queue)[i].id
    BY DEF ResponsesIn
  <2> QED
    BY <1>3, <2>1 DEF ResponsesIn
<1>7. Head(queue).type = "response" => Head(queue).id \in ResponsesIn(queue)
  BY <1>1, <1>4 DEF ResponsesIn
<1> QED
  BY <1>5, <1>6, <1>7

(* And the one that is put behind it.                                      *)
LEMMA ResponsesAppended ==
  ASSUME NEW S, NEW queue \in Seq(S), NEW msg \in S
  PROVE  ResponsesIn(Append(queue, msg)) =
           ResponsesIn(queue)
             \cup (IF msg.type = "response" THEN {msg.id} ELSE {})
<1> DEFINE q == Append(queue, msg)
<1>1. /\ DOMAIN queue = 1 .. Len(queue) /\ Len(queue) \in Nat
      /\ DOMAIN q = 1 .. Len(queue) + 1
      /\ q[Len(queue) + 1] = msg
      /\ \A i \in 1 .. Len(queue) : q[i] = queue[i]
  OBVIOUS
<1>2. /\ Len(queue) + 1 \in DOMAIN q
      /\ \A i \in DOMAIN queue : i \in DOMAIN q /\ q[i] = queue[i]
      /\ \A i \in DOMAIN q : i = Len(queue) + 1 \/ i \in DOMAIN queue
  BY <1>1
<1> HIDE DEF q
<1>3. ASSUME NEW id \in ResponsesIn(q)
      PROVE  id \in ResponsesIn(queue)
               \cup (IF msg.type = "response" THEN {msg.id} ELSE {})
  <2>1. PICK i \in DOMAIN q : q[i].type = "response" /\ id = q[i].id
    BY DEF ResponsesIn
  <2> QED
    BY <1>1, <1>2, <2>1 DEF ResponsesIn
<1>4. ASSUME NEW id \in ResponsesIn(queue)
      PROVE  id \in ResponsesIn(q)
  <2>1. PICK i \in DOMAIN queue : queue[i].type = "response"
                                  /\ id = queue[i].id
    BY DEF ResponsesIn
  <2> QED
    BY <1>2, <2>1 DEF ResponsesIn
<1>5. msg.type = "response" => msg.id \in ResponsesIn(q)
  BY <1>1, <1>2 DEF ResponsesIn
<1> QED
  BY <1>3, <1>4, <1>5 DEF q

(* Leaving the session forgets the pool's end; the ids given out remain.   *)
LEMMA LeaveAnswers ==
  ASSUME LeaveSession, PendingIssued'
  PROVE  Answers'
  BY DEF LeaveSession, Answers, AnswersDistinct, AnsweredNotOwed,
     IdleOwesNothing, ResponsesMatch

(* A step that moves none of these variables and neither opens nor closes  *)
(* the session.                                                            *)
LEMMA StillAnswers ==
  ASSUME Answers, UNCHANGED answerVars, pc' = "idle" <=> pc = "idle"
  PROVE  Answers'
  BY DEF Answers, answerVars, AnswersDistinct, AnsweredNotOwed, IsResponse,
     PendingIssued, IdleOwesNothing, ResponsesMatch, ResponseIds

(* Handling a line: an answer takes its own id from pending_submits, any   *)
(* other line leaves the answers behind it as they are.                    *)
LEMMA LineAnswers ==
  ASSUME BridgeInv, Answers, pc = "lines", LineDone,
         UNCHANGED <<poolOwes, submitId>>,
         pending' = IF Head(poolIn).type = "response"
                    THEN pending \ {Head(poolIn).id} ELSE pending
  PROVE  Answers'
<1>1. /\ poolIn # <<>> /\ poolIn \in Seq(PoolMessage)
      /\ poolIn' = Tail(poolIn) /\ pc' # "idle"
  BY HeadLine DEF LineDone, BridgeInv, TypeOK
<1>2. /\ DOMAIN poolIn = 1 .. Len(poolIn) /\ Len(poolIn) \in Nat \ {0}
      /\ DOMAIN poolIn' = 1 .. Len(poolIn) - 1
      /\ Head(poolIn) = poolIn[1]
      /\ \A i \in DOMAIN poolIn' : /\ i + 1 \in DOMAIN poolIn
                                   /\ poolIn'[i] = poolIn[i + 1]
                                   /\ i \in Nat \ {0}
  BY <1>1
<1>3. AnswersDistinct' /\ AnsweredNotOwed'
  BY <1>2 DEF Answers, AnswersDistinct, AnsweredNotOwed, IsResponse
<1>4. PendingIssued' /\ IdleOwesNothing'
  BY <1>1 DEF Answers, PendingIssued, IdleOwesNothing
<1>5. ResponsesIn(poolIn) =
        ResponsesIn(poolIn')
          \cup (IF Head(poolIn).type = "response" THEN {Head(poolIn).id}
                ELSE {})
  BY <1>1, ResponsesBehind
<1>6. pending = poolOwes \cup ResponsesIn(poolIn)
  BY DEF Answers, ResponsesMatch, ResponseIds, ResponsesIn
<1>7. ASSUME Head(poolIn).type = "response"
      PROVE  /\ Head(poolIn).id \notin poolOwes
             /\ Head(poolIn).id \notin ResponsesIn(poolIn')
  <2>1. 1 \in DOMAIN poolIn /\ IsResponse(1)
    BY <1>2, <1>7 DEF IsResponse
  <2>2. Head(poolIn).id \notin poolOwes
    BY <1>2, <2>1 DEF Answers, AnsweredNotOwed
  <2>3. ASSUME Head(poolIn).id \in ResponsesIn(poolIn')
        PROVE  FALSE
    <3>1. PICK i \in DOMAIN poolIn' : /\ poolIn'[i].type = "response"
                                      /\ poolIn'[i].id = Head(poolIn).id
      BY <2>3 DEF ResponsesIn
    <3>2. /\ i + 1 \in DOMAIN poolIn /\ IsResponse(i + 1)
          /\ poolIn[i + 1].id = poolIn[1].id /\ i + 1 # 1
      BY <1>2, <3>1 DEF IsResponse
    <3> QED
      BY <2>1, <3>2 DEF Answers, AnswersDistinct
  <2> QED
    BY <2>2, <2>3
<1>8. pending' = poolOwes' \cup ResponsesIn(poolIn')
  BY <1>5, <1>6, <1>7
<1>9. ResponsesMatch'
  BY <1>8 DEF ResponsesMatch, ResponseIds, ResponsesIn
<1> QED
  BY <1>3, <1>4, <1>9 DEF Answers

(* The pool sends a line: an answer settles a submit it owed.              *)
LEMMA SendAnswers ==
  ASSUME BridgeInv, Answers, NEW msg \in PoolMessage, PoolSends(msg),
         UNCHANGED <<pc, pending, submitId>>,
         IF msg.type = "response"
         THEN msg.id \in poolOwes /\ poolOwes' = poolOwes \ {msg.id}
         ELSE poolOwes' = poolOwes
  PROVE  Answers'
<1>1. /\ poolIn \in Seq(PoolMessage) /\ poolIn' = Append(poolIn, msg)
      /\ pc # "idle"
  BY DEF PoolSends, BridgeInv, TypeOK, IdleConnection
<1>2. /\ DOMAIN poolIn = 1 .. Len(poolIn) /\ Len(poolIn) \in Nat
      /\ DOMAIN poolIn' = 1 .. Len(poolIn) + 1
      /\ \A i \in DOMAIN poolIn' :
           IF i = Len(poolIn) + 1 THEN poolIn'[i] = msg
           ELSE i \in DOMAIN poolIn /\ poolIn'[i] = poolIn[i]
  BY <1>1
<1>3. AnsweredNotOwed'
  BY <1>2 DEF Answers, AnsweredNotOwed, IsResponse
<1>4. AnswersDistinct'
  BY <1>2 DEF Answers, AnsweredNotOwed, AnswersDistinct, IsResponse
<1>5. PendingIssued' /\ IdleOwesNothing'
  BY <1>1 DEF Answers, PendingIssued, IdleOwesNothing
<1>6. ResponsesIn(poolIn') =
        ResponsesIn(poolIn)
          \cup (IF msg.type = "response" THEN {msg.id} ELSE {})
  BY <1>1, ResponsesAppended
<1>7. pending = poolOwes \cup ResponsesIn(poolIn)
  BY <1>1 DEF Answers, ResponsesMatch, ResponseIds, ResponsesIn
<1>8. pending' = poolOwes' \cup ResponsesIn(poolIn')
  BY <1>6, <1>7
<1>9. ResponsesMatch'
  BY <1>8 DEF ResponsesMatch, ResponseIds, ResponsesIn
<1> QED
  BY <1>3, <1>4, <1>5, <1>9 DEF Answers

(* A submit is owed an answer under a new id.                              *)
LEMMA SubmitAnswers ==
  ASSUME BridgeInv, Answers, SubmitShare
  PROVE  Answers'
<1>1. /\ pending' = pending \cup {submitId} /\ submitId' = submitId + 1
      /\ poolOwes' = poolOwes \cup {submitId} /\ poolIn' = poolIn
      /\ pc # "idle" /\ pc' # "idle"
      /\ submitId \in Nat /\ pending \subseteq Nat
  BY DEF SubmitShare, RegisterSubmit, BridgeInv, TypeOK
<1>2. pending = poolOwes \cup ResponseIds
  BY <1>1 DEF Answers, ResponsesMatch
<1>3. submitId \notin ResponseIds
  BY <1>1, <1>2 DEF Answers, PendingIssued
<1>4. AnsweredNotOwed'
  BY <1>1, <1>3 DEF Answers, AnsweredNotOwed, IsResponse, ResponseIds
<1>5. AnswersDistinct' /\ IdleOwesNothing'
  BY <1>1 DEF Answers, AnswersDistinct, IsResponse, IdleOwesNothing
<1>6. PendingIssued'
  BY <1>1 DEF Answers, PendingIssued
<1>7. ResponsesMatch'
  BY <1>1, <1>2 DEF ResponsesMatch, ResponseIds
<1> QED
  BY <1>4, <1>5, <1>6, <1>7 DEF Answers

(* A new session is owed nothing.                                          *)
LEMMA StartAnswers ==
  ASSUME BridgeInv, Answers, StartSession
  PROVE  Answers'
<1>1. pending' = {} /\ poolOwes' = {} /\ poolIn' = <<>>
  BY DEF StartSession, ClearTables, BridgeInv, IdleConnection, Answers,
     IdleOwesNothing
<1> QED
  BY <1>1 DEF Answers, AnswersDistinct, AnsweredNotOwed, PendingIssued,
     IdleOwesNothing, ResponsesMatch, ResponseIds

(* Every step keeps the account.                                           *)
LEMMA AnswersStep == BridgeInv /\ Answers /\ [Next]_vars => Answers'
<1> SUFFICES ASSUME BridgeInv, Answers, [Next]_vars PROVE Answers'
  OBVIOUS
<1> USE DEF sessionVars, jobVars, shareVars, hwVars, cardVars, poolVars,
        history
<1>1. CASE StartSession
  BY <1>1, StartAnswers
<1>2. CASE Rotate \/ ConnectHardwareFails \/ ReadHardwareFails \/ RecvFails
           \/ OnAuthorizationFailed
  <2>1. LeaveSession /\ UNCHANGED <<pending, submitId>>
    BY <1>2 DEF Rotate, ConnectHardwareFails, ReadHardwareFails, RecvFails,
       OnAuthorizationFailed
  <2> QED
    BY <2>1, LeaveAnswers DEF Answers, PendingIssued
<1>3. CASE SubmitShare
  BY <1>3, SubmitAnswers
<1>4. CASE SubmitFails
  <2>1. /\ LeaveSession /\ submitId' = submitId + 1
        /\ pending' = pending \cup {submitId}
    BY <1>4 DEF SubmitFails, RegisterSubmit
  <2>2. PendingIssued'
    BY <2>1 DEF Answers, PendingIssued, BridgeInv, TypeOK
  <2> QED
    BY <2>1, <2>2, LeaveAnswers
<1>5. CASE CheckMode \/ ConnectHardware \/ NoShare \/ DropShare \/ NoRoll
           \/ RecvTimeout \/ Recv
  BY <1>5, StillAnswers DEF answerVars, CheckMode, ConnectHardware, NoShare,
     DropShare, NoRoll, RecvTimeout, Recv
<1>6. CASE RollWork
  <2>1. CASE roll' = "armed" /\ pc' = "recv" /\ UNCHANGED poolVars
    BY <1>6, <2>1, StillAnswers DEF answerVars, RollWork
  <2>2. CASE LeaveSession
    BY <1>6, <2>2, LeaveAnswers DEF RollWork, Answers, PendingIssued
  <2> QED
    BY <1>6, <2>1, <2>2 DEF RollWork
<1>7. CASE OnSubscribed \/ OnAuthorized \/ OnSetDifficulty
           \/ OnNotifyIgnored \/ OnResponse
  BY <1>7, LineAnswers DEF OnSubscribed, OnAuthorized, OnSetDifficulty,
     OnNotifyIgnored, OnResponse, Line
<1>8. CASE OnNotify
  <2>1. CASE LineDone /\ UNCHANGED poolOwes
    BY <1>8, <2>1, LineAnswers DEF OnNotify, Line
  <2>2. CASE LeaveSession
    BY <1>8, <2>2, LeaveAnswers DEF OnNotify, Answers, PendingIssued
  <2> QED
    BY <1>8, <2>1, <2>2 DEF OnNotify
<1>9. CASE FpgaLoadsJob \/ FpgaFindsShare \/ MailboxDrains \/ PoolDrops
           \/ ClockFlips \/ RollFallsDue \/ HardwareLinkBreaks
  BY <1>9, StillAnswers DEF answerVars, FpgaLoadsJob, FpgaFindsShare,
     MailboxDrains, PoolDrops, ClockFlips, RollFallsDue, HardwareLinkBreaks
<1>10. CASE PoolAnswersSubscribe \/ PoolAnswersAuthorize
            \/ PoolSetsDifficulty \/ PoolNotifies
  <2>1. \E msg \in PoolMessage : PoolSends(msg) /\ msg.type # "response"
    <3>1. CASE PoolAnswersSubscribe
      BY <3>1 DEF PoolAnswersSubscribe, PoolMessage
    <3>2. CASE PoolAnswersAuthorize
      BY <3>2 DEF PoolAnswersAuthorize, PoolMessage
    <3>3. CASE PoolSetsDifficulty
      BY <3>3 DEF PoolSetsDifficulty, PoolMessage
    <3>4. CASE PoolNotifies
      BY <3>4 DEF PoolNotifies, PoolMessage
    <3> QED
      BY <1>10, <3>1, <3>2, <3>3, <3>4
  <2>2. UNCHANGED <<pc, pending, submitId, poolOwes>>
    BY <1>10 DEF PoolAnswersSubscribe, PoolAnswersAuthorize,
       PoolSetsDifficulty, PoolNotifies, Unchanged
  <2> QED
    BY <2>1, <2>2, SendAnswers
<1>11. CASE PoolAnswersSubmit
  <2>1. PICK id \in poolOwes :
          /\ PoolSends([type |-> "response", id |-> id])
          /\ poolOwes' = poolOwes \ {id}
    BY <1>11 DEF PoolAnswersSubmit
  <2>2. [type |-> "response", id |-> id] \in PoolMessage
    BY DEF PoolMessage, BridgeInv, TypeOK
  <2>3. UNCHANGED <<pc, pending, submitId>>
    BY <1>11 DEF PoolAnswersSubmit, Unchanged
  <2> QED
    BY <2>1, <2>2, <2>3, SendAnswers
<1>12. CASE UNCHANGED vars
  BY <1>12, StillAnswers DEF answerVars, vars
<1> QED
  BY <1>1, <1>2, <1>3, <1>4, <1>5, <1>6, <1>7, <1>8, <1>9, <1>10, <1>11,
     <1>12 DEF Next, BridgeStep, CardStep, PoolStep

(* Every response the pool may still send finds the metadata of its        *)
(* submit, and pending_submits holds nothing else, whatever the pool       *)
(* answers, drops or holds back.                                           *)
THEOREM BridgeResponses == Spec => []ResponsesMatch
<1>1. Init => Answers
  BY DEF Init, Answers, AnswersDistinct, AnsweredNotOwed, PendingIssued,
     IdleOwesNothing, ResponsesMatch
<1>2. Answers => ResponsesMatch
  BY DEF Answers
<1> QED
  BY <1>1, <1>2, AnswersStep, Invariant, PTL DEF Spec
=============================================================================
