------------------------------- MODULE Bridge -------------------------------
(***************************************************************************)
(* The host bridge of one card (runtime/fjar_bridge.py, and                *)
(* runtime/btc3_bridge.py with another pool and wallet): a single-threaded *)
(* loop between a stratum pool, the wall-clock developer-fee schedule and  *)
(* the TCP server in front of the FPGA.  The loop is modelled statement    *)
(* block by statement block, because the pool, the FPGA and the clock move *)
(* between any two of them:                                                *)
(*                                                                         *)
(*   idle -> mode -> share -> roll -> recv -> (lines)* -> mode -> ...      *)
(*                                                                         *)
(* What the properties cannot tell apart is abstracted.  A block template  *)
(* (job_id, ntime, coinbase parts, branches) is one member of PoolJobs; an *)
(* 80-byte header is the work record it is built from; SHA3t is injective, *)
(* so a digest is the work and the nonce it was computed from; the hash of *)
(* nonce n meets every difficulty up to n.                                 *)
(***************************************************************************)
EXTENDS Naturals, Sequences, FiniteSets

CONSTANTS
  PoolJobs,      \* block templates the pool may announce (mining.notify)
  Extranonce1s,  \* values the pool may assign to a connection
  Nonces,        \* nonces the FPGA may report, n meets difficulty d iff n >= d
  Difficulties,  \* values of mining.set_difficulty
  TagModulus,    \* 256 in the code: tag_counter & 0xff
  En2Modulus,    \* 256 ^ extranonce2_size in the code
  Bad,           \* digest of a faulty hash computation
  Null,
  QueueBound,    \* bound: pool messages in flight
  HwBound,       \* bound: frames in flight on the hardware connection
  MaxEn2,        \* bound: extranonce2 counter values asked for in a session
  MaxSubmits     \* bound: submits over all sessions

ASSUME ModuliAssumption ==
  /\ TagModulus \in Nat \ {0}
  /\ En2Modulus \in Nat \ {0}
  /\ TagModulus <= En2Modulus   \* extranonce2_size >= 1
ASSUME DifficultyAssumption ==
  /\ Nonces \subseteq Nat
  /\ Difficulties \subseteq Nat
  /\ 1 \in Difficulties
ASSUME SentinelAssumption ==
  /\ Null \notin PoolJobs \cup Extranonce1s
  /\ HwBound \in Nat \ {0}

VARIABLES
  wallMode,    \* schedule.mode_at(time.time()), moves by itself
  pc, feeMode, burst,                           \* main and run_session
  en1, difficulty, latest, en2Counter, roll,
  tagCounter, jobs,                             \* build_job
  submitId, submitted, pending,                 \* check_share and submit
  hwLink, hwOut, hwIn,                          \* HardwareTransport
  fpga, mail,                                   \* the card
  poolUp, poolIn, poolReplied, poolOwes,        \* the pool's end
  sent, late                                    \* history of this connection

sessionVars == <<feeMode, en1, difficulty, latest, en2Counter, roll>>
jobVars     == <<tagCounter, jobs>>
shareVars   == <<submitId, submitted, pending>>
hwVars      == <<hwLink, hwOut, hwIn>>
cardVars    == <<fpga, mail>>
poolVars    == <<poolUp, poolIn, poolReplied, poolOwes>>
history     == <<sent, late>>
vars == <<wallMode, pc, burst, sessionVars, jobVars, shareVars, hwVars,
          cardVars, poolVars, history>>

USER == "USER"
DEVFEE == "DEVFEE"
Modes == {USER, DEVFEE}
Tags == 0 .. TagModulus - 1

Work  == [pj : PoolJobs, en1 : Extranonce1s, en2 : 0 .. En2Modulus - 1]
Job   == [tag : Tags, work : Work, diff : Difficulties, mode : Modes]
Frame == [tag : Tags, work : Work, diff : Difficulties]
Share == [tag : Tags, nonce : Nonces, digest : Work \cup {Bad}]
Key   == [pj : PoolJobs, en2 : 0 .. En2Modulus - 1, nonce : Nonces]
Submit == [id : Nat, key : Key, mode : Modes, work : Work, diff : Difficulties,
           mined : Work \cup {Bad}]

PoolMessage ==
       [type : {"subscribed"}, en1 : Extranonce1s \cup {Null}]
  \cup [type : {"authorized"}, ok : BOOLEAN]
  \cup [type : {"set_difficulty"}, diff : Difficulties]
  \cup [type : {"notify"}, pj : PoolJobs]
  \cup [type : {"response"}, id : Nat]

-----------------------------------------------------------------------------
(* Helpers of build_job, check_share and the session loop.                 *)

\* share_target and the comparison h_int <= job["target"].
MeetsTarget(nonce, diff) == nonce >= diff

NextTagUnwrapped(tag) == tag + 1
NextTag(tag) == (tag + 1) % TagModulus

Extranonce2(counter) == counter % En2Modulus

BuildJob(pj) ==
  [tag  |-> NextTag(tagCounter),
   work |-> [pj |-> pj, en1 |-> en1, en2 |-> Extranonce2(en2Counter)],
   diff |-> difficulty,
   mode |-> feeMode]

\* encode_frame of the job: tag, header prefix and target, not the wallet.
FrameOf(job) == [tag |-> job.tag, work |-> job.work, diff |-> job.diff]

ShareKey(share) ==
  [pj    |-> jobs[share.tag].work.pj,
   en2   |-> jobs[share.tag].work.en2,
   nonce |-> share.nonce]

\* The digest of the share equals the one recomputed over the job's header.
DigestUnchecked(share) == TRUE
DigestAgrees(share) == share.digest = jobs[share.tag].work

NeverDuplicate(share) == FALSE
IsDuplicate(share) == ShareKey(share) \in submitted

ShareAccepted(share) ==
  /\ jobs[share.tag] # Null
  /\ DigestAgrees(share)
  /\ MeetsTarget(share.nonce, jobs[share.tag].diff)
  /\ ~IsDuplicate(share)

RotationDue == wallMode # feeMode

-----------------------------------------------------------------------------
Init ==
  /\ wallMode \in Modes
  /\ pc = "idle" /\ feeMode = wallMode /\ burst = 0
  /\ en1 = Null /\ difficulty = 1 /\ latest = Null
  /\ en2Counter = 0 /\ roll = "none"
  /\ tagCounter = 0 /\ jobs = [t \in Tags |-> Null]
  /\ submitId = 100 /\ submitted = {} /\ pending = {}
  /\ hwLink = "closed" /\ hwOut = <<>> /\ hwIn = <<>>
  /\ fpga = Null /\ mail = Null
  /\ poolUp = FALSE /\ poolIn = <<>> /\ poolReplied = {} /\ poolOwes = {}
  /\ sent = {} /\ late = 0

(* Leaving run_session by an exception: the pool socket is closed by the   *)
(* with statement, the module globals keep their values.                   *)
LeaveSession ==
  /\ pc' = "idle" /\ burst' = 0
  /\ poolUp' = FALSE /\ poolIn' = <<>> /\ poolReplied' = {} /\ poolOwes' = {}

CloseHardware ==
  /\ hwLink' = "closed" /\ hwIn' = <<>>
  /\ UNCHANGED hwOut

-----------------------------------------------------------------------------
(* main and the prologue of run_session.                                   *)

KeepTables == UNCHANGED jobs /\ submitted' = {} /\ pending' = {}
ClearTables ==
  jobs' = [t \in Tags |-> Null] /\ submitted' = {} /\ pending' = {}

StartSession ==
  /\ pc = "idle"
  /\ feeMode' = wallMode
  /\ en1' = Null /\ difficulty' = 1
  /\ ClearTables
  /\ latest' = Null /\ en2Counter' = 0 /\ roll' = "none"
  /\ sent' = {} /\ late' = 0
  /\ \/ pc' = "mode" /\ poolUp' = TRUE      \* connected, requests 1 and 2 sent
     \/ pc' = "idle" /\ poolUp' = FALSE      \* create_connection failed
  /\ UNCHANGED <<wallMode, burst, tagCounter, submitId, hwVars, cardVars,
                 poolIn, poolReplied, poolOwes>>

\* new_mode = schedule.mode_at(...); if it differs, raise WalletRotation.
NeverRotates == FALSE
MustRotate == RotationDue

Rotate ==
  /\ pc = "mode" /\ MustRotate
  /\ LeaveSession
  /\ UNCHANGED <<wallMode, sessionVars, jobVars, shareVars, hwVars, cardVars,
                 history>>

CheckMode ==
  /\ pc = "mode" /\ ~MustRotate
  /\ pc' = "share"
  /\ UNCHANGED <<wallMode, burst, sessionVars, jobVars, shareVars, hwVars,
                 cardVars, poolVars, history>>

-----------------------------------------------------------------------------
(* check_share: ensure_connected, _read_available, pop_share, submit.      *)

ConnectHardware ==
  /\ pc = "share" /\ hwLink = "closed"
  /\ hwLink' = "open" /\ pc' = "roll"
  /\ UNCHANGED <<wallMode, burst, sessionVars, jobVars, shareVars, hwOut, hwIn,
                 cardVars, poolVars, history>>

\* create_connection to the hardware server raised.
ConnectHardwareFails ==
  /\ pc = "share" /\ hwLink = "closed"
  /\ LeaveSession
  /\ UNCHANGED <<wallMode, sessionVars, jobVars, shareVars, hwVars, cardVars,
                 history>>

\* recv failed or returned nothing: close, raise HardwareDisconnected.
ReadHardwareFails ==
  /\ pc = "share" /\ hwLink = "broken"
  /\ CloseHardware
  /\ LeaveSession
  /\ UNCHANGED <<wallMode, sessionVars, jobVars, shareVars, cardVars, history>>

NoShare ==
  /\ pc = "share" /\ hwLink = "open" /\ hwIn = <<>>
  /\ pc' = "roll"
  /\ UNCHANGED <<wallMode, burst, sessionVars, jobVars, shareVars, hwVars,
                 cardVars, poolVars, history>>

\* Stale tag, digest mismatch, target disagreement or duplicate.
DropShare ==
  /\ pc = "share" /\ hwLink = "open" /\ hwIn # <<>>
  /\ ~ShareAccepted(Head(hwIn))
  /\ hwIn' = Tail(hwIn) /\ pc' = "roll"
  /\ UNCHANGED <<wallMode, burst, sessionVars, jobVars, shareVars, hwLink,
                 hwOut, cardVars, poolVars, history>>

Submission(share) ==
  [id |-> submitId, key |-> ShareKey(share), mode |-> jobs[share.tag].mode,
   work |-> jobs[share.tag].work, diff |-> jobs[share.tag].diff,
   mined |-> share.digest]

\* submitted_shares.add, submit_id += 1 and pending_submits[request_id] all
\* precede sock.sendall.
RememberShareOnly(share) ==
  /\ submitted' = submitted \cup {ShareKey(share)}
  /\ submitId' = submitId + 1 /\ UNCHANGED pending
RegisterSubmit(share) ==
  /\ submitted' = submitted \cup {ShareKey(share)}
  /\ submitId' = submitId + 1
  /\ pending' = pending \cup {submitId}

SubmitShare ==
  /\ pc = "share" /\ hwLink = "open" /\ hwIn # <<>>
  /\ ShareAccepted(Head(hwIn))
  /\ hwIn' = Tail(hwIn)
  /\ RegisterSubmit(Head(hwIn))
  /\ pc' = "roll"
  /\ poolOwes' = poolOwes \cup {submitId}
  /\ sent' = sent \cup {Submission(Head(hwIn))}
  /\ late' = IF RotationDue THEN late + 1 ELSE late
  /\ UNCHANGED <<wallMode, burst, sessionVars, jobVars, hwLink, hwOut,
                 cardVars, poolUp, poolIn, poolReplied>>

SubmitFails ==
  /\ pc = "share" /\ hwLink = "open" /\ hwIn # <<>>
  /\ ShareAccepted(Head(hwIn))
  /\ ~poolUp
  /\ hwIn' = Tail(hwIn)
  /\ RegisterSubmit(Head(hwIn))
  /\ LeaveSession
  /\ UNCHANGED <<wallMode, sessionVars, jobVars, hwLink, hwOut, cardVars,
                 history>>

-----------------------------------------------------------------------------
(* build_job and dispatch_job, shared by the roll and by mining.notify.    *)

RegisterJob(pj) ==
  /\ tagCounter' = NextTag(tagCounter)
  /\ jobs' = [jobs EXCEPT ![NextTag(tagCounter)] = BuildJob(pj)]

KeepExtranonce2 == UNCHANGED en2Counter
AdvanceExtranonce2 == en2Counter' = en2Counter + 1

\* sendall wrote the frame, or the kernel buffered it for a dead peer.
FrameNeverWritten(pj) == UNCHANGED hwVars
SendJob(pj) ==
  \/ /\ hwLink = "open" /\ Len(hwOut) < HwBound
     /\ hwOut' = Append(hwOut, FrameOf(BuildJob(pj)))
     /\ UNCHANGED <<hwLink, hwIn>>
  \/ /\ hwLink = "broken"
     /\ UNCHANGED hwVars

\* sendall raised, or timed out on a full connection: close, then raise.
SendJobFails ==
  /\ hwLink = "broken" \/ Len(hwOut) = HwBound
  /\ CloseHardware

NoRoll ==
  /\ pc = "roll" /\ (latest = Null \/ roll # "due")
  /\ pc' = "recv"
  /\ UNCHANGED <<wallMode, burst, sessionVars, jobVars, shareVars, hwVars,
                 cardVars, poolVars, history>>

\* The deadline moves strictly past the time of the roll, never in a burst.
RollWork ==
  /\ pc = "roll" /\ latest # Null /\ roll = "due"
  /\ RegisterJob(latest)
  /\ AdvanceExtranonce2
  /\ \/ SendJob(latest) /\ roll' = "armed" /\ pc' = "recv"
        /\ UNCHANGED <<burst, poolVars>>
     \/ SendJobFails /\ UNCHANGED roll /\ LeaveSession
  /\ UNCHANGED <<wallMode, feeMode, en1, difficulty, latest, shareVars,
                 cardVars, history>>

-----------------------------------------------------------------------------
(* sock.recv(4096) and the handlers of the lines it delivered.             *)

RecvTimeout ==
  /\ pc = "recv" /\ poolUp /\ poolIn = <<>>
  /\ pc' = "mode"
  /\ UNCHANGED <<wallMode, burst, sessionVars, jobVars, shareVars, hwVars,
                 cardVars, poolVars, history>>

\* One recv returns any number of complete lines.
Recv ==
  /\ pc = "recv" /\ poolIn # <<>>
  /\ burst' \in 1 .. Len(poolIn)
  /\ pc' = "lines"
  /\ UNCHANGED <<wallMode, sessionVars, jobVars, shareVars, hwVars, cardVars,
                 poolVars, history>>

RecvFails ==
  /\ pc = "recv" /\ ~poolUp
  /\ LeaveSession
  /\ UNCHANGED <<wallMode, sessionVars, jobVars, shareVars, hwVars, cardVars,
                 history>>

Line(type) == pc = "lines" /\ Head(poolIn).type = type

\* The while loop over buf goes on, or control returns to the mode check.
LineDone ==
  /\ poolIn' = Tail(poolIn)
  /\ burst' = burst - 1
  /\ pc' = IF burst = 1 THEN "mode" ELSE "lines"
  /\ UNCHANGED <<poolUp, poolReplied>>

\* A falsy result falls through every branch and is ignored.
OnSubscribed ==
  /\ Line("subscribed")
  /\ en1' = IF Head(poolIn).en1 # Null THEN Head(poolIn).en1 ELSE en1
  /\ LineDone
  /\ UNCHANGED <<wallMode, feeMode, difficulty, latest, en2Counter, roll,
                 jobVars, shareVars, hwVars, cardVars, poolOwes, history>>

OnAuthorized ==
  /\ Line("authorized") /\ Head(poolIn).ok
  /\ LineDone
  /\ UNCHANGED <<wallMode, sessionVars, jobVars, shareVars, hwVars, cardVars,
                 poolOwes, history>>

OnAuthorizationFailed ==
  /\ Line("authorized") /\ ~Head(poolIn).ok
  /\ LeaveSession
  /\ UNCHANGED <<wallMode, sessionVars, jobVars, shareVars, hwVars, cardVars,
                 history>>

OnSetDifficulty ==
  /\ Line("set_difficulty")
  /\ difficulty' = Head(poolIn).diff
  /\ LineDone
  /\ UNCHANGED <<wallMode, feeMode, en1, latest, en2Counter, roll, jobVars,
                 shareVars, hwVars, cardVars, poolOwes, history>>

OnNotifyIgnored ==
  /\ Line("notify") /\ en1 = Null
  /\ LineDone
  /\ UNCHANGED <<wallMode, sessionVars, jobVars, shareVars, hwVars, cardVars,
                 poolOwes, history>>

OnNotify ==
  /\ Line("notify") /\ en1 # Null
  /\ latest' = Head(poolIn).pj
  /\ RegisterJob(Head(poolIn).pj)
  /\ AdvanceExtranonce2
  /\ \/ SendJob(Head(poolIn).pj) /\ roll' = "armed"
        /\ LineDone /\ UNCHANGED poolOwes
     \/ SendJobFails /\ UNCHANGED roll /\ LeaveSession
  /\ UNCHANGED <<wallMode, feeMode, en1, difficulty, shareVars, cardVars,
                 history>>

OnResponse ==
  /\ Line("response")
  /\ pending' = pending \ {Head(poolIn).id}
  /\ LineDone
  /\ UNCHANGED <<wallMode, sessionVars, jobVars, submitId, submitted, hwVars,
                 cardVars, poolOwes, history>>

-----------------------------------------------------------------------------
(* What moves without the bridge: clock, card, hardware server and pool.   *)

ClockFlips ==
  /\ wallMode' \in Modes \ {wallMode}
  /\ late' = 0
  /\ UNCHANGED <<pc, burst, sessionVars, jobVars, shareVars, hwVars, cardVars,
                 poolVars, sent>>

RollFallsDue ==
  /\ pc # "idle" /\ roll = "armed" /\ en2Counter < MaxEn2
  /\ roll' = "due"
  /\ UNCHANGED <<wallMode, pc, burst, feeMode, en1, difficulty, latest,
                 en2Counter, jobVars, shareVars, hwVars, cardVars, poolVars,
                 history>>

FpgaLoadsJob ==
  /\ hwOut # <<>>
  /\ fpga' = Head(hwOut) /\ hwOut' = Tail(hwOut)
  /\ UNCHANGED <<wallMode, pc, burst, sessionVars, jobVars, shareVars, hwLink,
                 hwIn, mail, poolVars, history>>

\* A nonce of the job being mined, possibly mishashed or misjudged, and
\* possibly one already reported: the nonce counter wraps.
FpgaFindsShare ==
  /\ fpga # Null /\ mail = Null
  /\ submitId + Len(hwIn) < 100 + MaxSubmits
  /\ \E n \in Nonces, digest \in {fpga.work, Bad} :
       mail' = [tag |-> fpga.tag, nonce |-> n, digest |-> digest]
  /\ UNCHANGED <<wallMode, pc, burst, sessionVars, jobVars, shareVars, hwVars,
                 fpga, poolVars, history>>

\* The share mailbox of the card keeps one frame until the server polls it.
MailboxDrains ==
  /\ mail # Null /\ hwLink = "open" /\ Len(hwIn) < HwBound
  /\ hwIn' = Append(hwIn, mail) /\ mail' = Null
  /\ UNCHANGED <<wallMode, pc, burst, sessionVars, jobVars, shareVars, hwLink,
                 hwOut, fpga, poolVars, history>>

HardwareLinkBreaks ==
  /\ hwLink = "open"
  /\ hwLink' = "broken" /\ hwOut' = <<>>
  /\ UNCHANGED <<wallMode, pc, burst, sessionVars, jobVars, shareVars, hwIn,
                 cardVars, poolVars, history>>

PoolSends(msg) ==
  /\ poolUp /\ Len(poolIn) < QueueBound
  /\ poolIn' = Append(poolIn, msg)

Unchanged == UNCHANGED <<wallMode, pc, burst, sessionVars, jobVars, shareVars,
                         hwVars, cardVars, poolUp, history>>

PoolAnswersSubscribe ==
  /\ "subscribe" \notin poolReplied
  /\ \E e \in Extranonce1s \cup {Null} :
       PoolSends([type |-> "subscribed", en1 |-> e])
  /\ poolReplied' = poolReplied \cup {"subscribe"}
  /\ UNCHANGED poolOwes /\ Unchanged

PoolAnswersAuthorize ==
  /\ "authorize" \notin poolReplied
  /\ \E ok \in BOOLEAN : PoolSends([type |-> "authorized", ok |-> ok])
  /\ poolReplied' = poolReplied \cup {"authorize"}
  /\ UNCHANGED poolOwes /\ Unchanged

PoolSetsDifficulty ==
  /\ \E d \in Difficulties \ {difficulty} :
       PoolSends([type |-> "set_difficulty", diff |-> d])
  /\ UNCHANGED <<poolReplied, poolOwes>> /\ Unchanged

PoolNotifies ==
  /\ en2Counter < MaxEn2
  /\ \E pj \in PoolJobs : PoolSends([type |-> "notify", pj |-> pj])
  /\ UNCHANGED <<poolReplied, poolOwes>> /\ Unchanged

PoolAnswersSubmit ==
  /\ \E id \in poolOwes :
       /\ PoolSends([type |-> "response", id |-> id])
       /\ poolOwes' = poolOwes \ {id}
  /\ UNCHANGED poolReplied /\ Unchanged

PoolDrops ==
  /\ poolUp
  /\ poolUp' = FALSE
  /\ UNCHANGED <<wallMode, pc, burst, sessionVars, jobVars, shareVars, hwVars,
                 cardVars, poolIn, poolReplied, poolOwes, history>>

-----------------------------------------------------------------------------
BridgeStep ==
  \/ StartSession \/ Rotate \/ CheckMode
  \/ ConnectHardware \/ ConnectHardwareFails \/ ReadHardwareFails
  \/ NoShare \/ DropShare \/ SubmitShare \/ SubmitFails
  \/ NoRoll \/ RollWork
  \/ RecvTimeout \/ Recv \/ RecvFails
  \/ OnSubscribed \/ OnAuthorized \/ OnAuthorizationFailed
  \/ OnSetDifficulty \/ OnNotifyIgnored \/ OnNotify \/ OnResponse

CardStep == FpgaLoadsJob \/ FpgaFindsShare \/ MailboxDrains

PoolStep ==
  \/ PoolAnswersSubscribe \/ PoolAnswersAuthorize \/ PoolSetsDifficulty
  \/ PoolNotifies \/ PoolAnswersSubmit \/ PoolDrops

Next ==
  \/ BridgeStep \/ CardStep \/ PoolStep
  \/ ClockFlips \/ RollFallsDue \/ HardwareLinkBreaks

Spec == Init /\ [][Next]_vars

\* The process is always scheduled, and the card always drains job frames.
FairSpec == Spec /\ WF_vars(BridgeStep) /\ WF_vars(FpgaLoadsJob)
-----------------------------------------------------------------------------
(* Properties.                                                             *)

TypeOK ==
  /\ wallMode \in Modes /\ feeMode \in Modes
  /\ pc \in {"idle", "mode", "share", "roll", "recv", "lines"}
  /\ burst \in Nat
  /\ en1 \in Extranonce1s \cup {Null}
  /\ difficulty \in Difficulties
  /\ latest \in PoolJobs \cup {Null}
  /\ en2Counter \in Nat
  /\ roll \in {"none", "armed", "due"}
  /\ tagCounter \in Tags
  /\ jobs \in [Tags -> Job \cup {Null}]
  /\ submitId \in Nat /\ submitted \subseteq Key /\ pending \subseteq Nat
  /\ hwLink \in {"closed", "open", "broken"}
  /\ hwOut \in Seq(Frame) /\ hwIn \in Seq(Share)
  /\ fpga \in Frame \cup {Null} /\ mail \in Share \cup {Null}
  /\ poolUp \in BOOLEAN /\ poolIn \in Seq(PoolMessage)
  /\ poolReplied \subseteq {"subscribe", "authorize"} /\ poolOwes \subseteq Nat
  /\ sent \subseteq Submit /\ late \in Nat

(* The set submitted_shares: one pool connection is never sent the same    *)
(* job_id, extranonce2, ntime and nonce twice, whatever the card repeats.  *)
NoDuplicateSubmit == \A a, b \in sent : a.key = b.key => a = b

(* The recomputed digest: what is submitted is the work the card really    *)
(* hashed and meets the job's own target, although tags are reused, the    *)
(* tag counter outlives the session and the card keeps mining old jobs.    *)
SubmitsTrueWork ==
  \A m \in sent : m.mined = m.work /\ MeetsTarget(m.key.nonce, m.diff)

(* A share is credited to the wallet that authorised the connection it is  *)
(* sent on, and carries the extranonce1 of that connection.                *)
SubmitsOwnSession ==
  pc # "idle" => \A m \in sent : m.mode = feeMode /\ m.work.en1 = en1

(* pending_submits holds the metadata of every response that can still     *)
(* arrive, and of nothing else.                                            *)
ResponseIds == {poolIn[i].id : i \in {j \in DOMAIN poolIn :
                                        poolIn[j].type = "response"}}
ResponsesMatch == pc # "idle" => pending = poolOwes \cup ResponseIds

(* The mode check heads every iteration: once the schedule has moved, at   *)
(* most one more share goes to the old wallet.                             *)
AtMostOneLateSubmit == late <= 1

(* The comment on WORK_ROLL_SECONDS: every dispatched header opens a fresh *)
(* nonce space; no two tags of a session stand for the same header.        *)
DistinctWork ==
  \A s, t \in Tags :
    (jobs[s] # Null /\ jobs[t] # Null /\ jobs[s].work = jobs[t].work) => s = t

(* A wallet switch of the schedule ends the session of the other wallet.   *)
RotationHappens ==
  (pc # "idle" /\ RotationDue) ~> (pc = "idle" \/ ~RotationDue)

(* The newest block template of a session reaches the card, unless the     *)
(* session ends or a newer one replaces it.                                *)
WorkReachesCard ==
  \A pj \in PoolJobs :
    (pc # "idle" /\ latest = pj)
      ~> \/ pc = "idle" \/ latest # pj
         \/ fpga # Null /\ fpga.work.pj = pj /\ fpga.work.en1 = en1
=============================================================================
