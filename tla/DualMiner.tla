------------------------------ MODULE DualMiner ------------------------------
(***************************************************************************)
(* The host process of one JCM33 carrier (jcm33_btc3_dual_miner.py): one   *)
(* pool connection and one XVC connection for two FPGAs in one JTAG chain. *)
(* Jobs go out in pairs, A and B in a single XVC request; the mailboxes of *)
(* both lanes are read before any share is submitted.  The loop is cut     *)
(* where it meets the pool, the clock or the chain:                        *)
(*                                                                         *)
(*   idle -> mode -> A -> B -> check -> roll -> recv -> lines -> mode      *)
(*                                                                         *)
(* An XVC request is synchronous, so there is no queue to a card; it may   *)
(* fail after any part of it was done.  The pool chooses a line when the   *)
(* host reads it, which is all the host can tell of a line sent earlier.   *)
(* Templates, headers, digests and targets are abstracted as in Bridge.    *)
(***************************************************************************)
EXTENDS Naturals, Sequences

CONSTANTS
  PoolJobs,      \* block templates the pool may announce
  Extranonce1s,  \* values the pool may assign to a connection
  Nonces,        \* nonces a card may report, n meets difficulty d iff n >= d
  Difficulties,  \* values of mining.set_difficulty
  TagModulus,    \* 256 in the code: tag_counter & 0xff
  En2Modulus,    \* 256 ^ extranonce2_size in the code
  Bad,           \* digest of a faulty hash computation
  Null,
  MaxLines,      \* bound: lines one recv delivers
  MaxEn2,        \* bound: extranonce2 values used in a session
  MaxEvents      \* bound: shares the cards find and job frames cut

\* Both moduli are powers of 256, so that a pair never straddles the wrap.
ASSUME ModuliAssumption ==
  /\ TagModulus \in Nat \ {0} /\ TagModulus % 2 = 0
  /\ En2Modulus \in Nat \ {0} /\ En2Modulus % 2 = 0
ASSUME DifficultyAssumption ==
  /\ Nonces \subseteq Nat
  /\ Difficulties \subseteq Nat
  /\ 1 \in Difficulties
ASSUME BoundAssumption == MaxLines \in Nat

VARIABLES
  wallMode,      \* schedule.mode_at(time.time()), moves by itself
  pc, feeMode, lines,                            \* main and run_session
  en1, difficulty, latest, en2Counter, roll,
  tagCounter, jobs,                              \* build_job
  submitId, submitted, pending,                  \* check_one_share and submit
  xvc, buffers,                                  \* HardwareTransport
  batch,                                         \* shares of pop_shares
  fpga, parser, mail,                            \* the two cards
  replied, sent, whole, events                   \* pool and history

sessionVars == <<feeMode, en1, difficulty, latest, en2Counter, roll>>
jobVars     == <<tagCounter, jobs>>
shareVars   == <<submitId, submitted, pending>>
hwVars      == <<xvc, buffers>>
fpgaVars    == <<fpga, parser, whole>>
cardVars    == <<fpgaVars, mail, events>>
vars == <<wallMode, pc, lines, sessionVars, jobVars, shareVars, hwVars, batch,
          cardVars, replied, sent>>

USER == "USER"
DEVFEE == "DEVFEE"
Modes == {USER, DEVFEE}
Lanes == {"A", "B"}
Tags == 0 .. TagModulus - 1

Work  == [pj : PoolJobs, en1 : Extranonce1s, en2 : 0 .. En2Modulus - 1]
Job   == [tag : Tags, work : Work, diff : Difficulties, mode : Modes,
          device : Lanes]
Frame == [tag : Tags, work : Work, diff : Difficulties]
Share == [lane : Lanes, tag : Tags, nonce : Nonces, digest : Work \cup {Bad}]
Key   == [pj : PoolJobs, en2 : 0 .. En2Modulus - 1, nonce : Nonces]
Submit == [key : Key, mode : Modes, en1 : Extranonce1s,
           lane : Lanes, device : Lanes]

\* None is no job, frame or share, and no value the pool or main assigns.
ASSUME SentinelAssumption ==
  /\ Null \notin PoolJobs \cup Extranonce1s \cup Modes
  /\ Null \notin Job \cup Frame \cup Share

-----------------------------------------------------------------------------
(* build_job_pair and the checks of check_one_share.                       *)

MeetsTarget(nonce, diff) == nonce >= diff

NextTag(tag) == (tag + 1) % TagModulus
TagFor(lane) == IF lane = "A" THEN NextTag(tagCounter)
                ELSE NextTag(NextTag(tagCounter))
Extranonce2(counter) == counter % En2Modulus
Extranonce2For(lane) == Extranonce2(IF lane = "A" THEN en2Counter
                                    ELSE en2Counter + 1)

PairJob(pj, lane) ==
  [tag    |-> TagFor(lane),
   work   |-> [pj |-> pj, en1 |-> en1, en2 |-> Extranonce2For(lane)],
   diff   |-> difficulty,
   mode   |-> feeMode,
   device |-> lane]

\* job_wire_frame: tag, header prefix and target.
FrameOf(job) == [tag |-> job.tag, work |-> job.work, diff |-> job.diff]

ShareKey(share) ==
  [pj    |-> jobs[share.tag].work.pj,
   en2   |-> jobs[share.tag].work.en2,
   nonce |-> share.nonce]

DigestAgrees(share) == share.digest = jobs[share.tag].work

NeverDuplicate(share) == FALSE
IsDuplicate(share) == ShareKey(share) \in submitted

ShareAccepted(share) ==
  /\ jobs[share.tag] # Null
  /\ DigestAgrees(share)
  /\ MeetsTarget(share.nonce, jobs[share.tag].diff)
  /\ ~IsDuplicate(share)

\* History: whole counts the frames a lane took since its parser was last
\* inside one, up to Enough: the swallowed frame and the one after it.
Enough == 2

EmptyBuffers == [l \in Lanes |-> Null]
NoJobs == [t \in Tags |-> Null]

-----------------------------------------------------------------------------
Init ==
  /\ wallMode \in Modes
  /\ pc = "idle" /\ feeMode = wallMode /\ lines = 0
  /\ en1 = Null /\ difficulty = 1 /\ latest = Null
  /\ en2Counter = 0 /\ roll = "none"
  /\ tagCounter = 0 /\ jobs = NoJobs
  /\ submitId = 100 /\ submitted = {} /\ pending = {}
  /\ xvc = "closed" /\ buffers = EmptyBuffers /\ batch = <<>>
  /\ fpga = [l \in Lanes |-> Null] /\ mail = [l \in Lanes |-> Null]
  /\ parser = [l \in Lanes |-> "hunting"]
  /\ replied = {} /\ sent = <<>> /\ events = 0
  /\ whole = [l \in Lanes |-> Enough]

\* An exception ends run_session: the pool socket closes, the shares popped
\* but not submitted are forgotten, the tables keep their values.
LeaveSession ==
  /\ pc' = "idle" /\ lines' = 0 /\ batch' = <<>> /\ replied' = {}

\* HardwareTransport.close, for every failed request.
CloseHardware == xvc' = "closed" /\ buffers' = EmptyBuffers

-----------------------------------------------------------------------------
(* main and the head of the session loop.                                  *)

ClearTables == jobs' = NoJobs /\ submitted' = {} /\ pending' = {}

\* The pool may be unreachable; the chain is left as it is.
StartSession ==
  /\ pc = "idle"
  /\ feeMode' = wallMode
  /\ en1' = Null /\ difficulty' = 1
  /\ ClearTables
  /\ latest' = Null /\ en2Counter' = 0 /\ roll' = "none"
  /\ sent' = <<>>
  /\ pc' \in {"mode", "idle"}
  /\ UNCHANGED <<wallMode, lines, tagCounter, submitId, hwVars, batch,
                 cardVars, replied>>

MustRotate == wallMode # feeMode

Rotate ==
  /\ pc = "mode" /\ MustRotate
  /\ LeaveSession
  /\ UNCHANGED <<wallMode, sessionVars, jobVars, shareVars, hwVars, cardVars,
                 sent>>

CheckMode ==
  /\ pc = "mode" /\ ~MustRotate
  /\ pc' = "A"
  /\ UNCHANGED <<wallMode, lines, sessionVars, jobVars, shareVars, hwVars,
                 batch, cardVars, replied, sent>>

-----------------------------------------------------------------------------
(* pop_shares: lane A is read to the end, then lane B.                     *)

AfterLane == [A |-> "B", B |-> "check"]

\* connect found two devices with the right IDs and twelve IR bits.
Connect ==
  /\ pc = "A" /\ xvc = "closed"
  /\ xvc' = "open"
  /\ UNCHANGED <<wallMode, pc, lines, sessionVars, jobVars, shareVars,
                 buffers, batch, cardVars, replied, sent>>

ConnectFails ==
  /\ pc = "A" /\ xvc = "closed"
  /\ LeaveSession
  /\ UNCHANGED <<wallMode, sessionVars, jobVars, shareVars, hwVars, cardVars,
                 sent>>

\* Nothing to read, or a frame that _pop_frame drops for its CRC or type.
ReadNoShare(l) ==
  /\ pc = l /\ xvc = "open"
  /\ mail' \in {mail, [mail EXCEPT ![l] = Null]}
  /\ pc' = AfterLane[l]
  /\ UNCHANGED <<wallMode, lines, sessionVars, jobVars, shareVars, hwVars,
                 batch, fpgaVars, events, replied, sent>>

\* The scans end inside the frame: its first part waits in the buffer.
ReadPart(l) ==
  /\ pc = l /\ xvc = "open" /\ mail[l] # Null /\ buffers[l] = Null
  /\ buffers' = [buffers EXCEPT ![l] = mail[l]]
  /\ mail' = [mail EXCEPT ![l] = Null]
  /\ pc' = AfterLane[l]
  /\ UNCHANGED <<wallMode, lines, sessionVars, jobVars, shareVars, xvc, batch,
                 fpgaVars, events, replied, sent>>

ReadShare(l) ==
  /\ pc = l /\ xvc = "open"
  /\ \/ /\ buffers[l] # Null
        /\ batch' = Append(batch, buffers[l])
        /\ buffers' = [buffers EXCEPT ![l] = Null]
        /\ UNCHANGED mail
     \/ /\ buffers[l] = Null /\ mail[l] # Null
        /\ batch' = Append(batch, mail[l])
        /\ mail' = [mail EXCEPT ![l] = Null]
        /\ UNCHANGED buffers
  /\ pc' = AfterLane[l]
  /\ UNCHANGED <<wallMode, lines, sessionVars, jobVars, shareVars, xvc,
                 fpgaVars, events, replied, sent>>

\* The request failed, the card may have been read all the same; what lane
\* A had delivered goes with it.
ReadLaneFails(l) ==
  /\ pc = l /\ xvc = "open"
  /\ mail' \in {mail, [mail EXCEPT ![l] = Null]}
  /\ CloseHardware
  /\ LeaveSession
  /\ UNCHANGED <<wallMode, sessionVars, jobVars, shareVars, fpgaVars, events,
                 sent>>

-----------------------------------------------------------------------------
(* check_one_share for every share of the batch, without a new mode check. *)

BatchDone ==
  /\ pc = "check" /\ batch = <<>>
  /\ pc' = "roll"
  /\ UNCHANGED <<wallMode, lines, sessionVars, jobVars, shareVars, hwVars,
                 batch, cardVars, replied, sent>>

DropShare ==
  /\ pc = "check" /\ batch # <<>> /\ ~ShareAccepted(Head(batch))
  /\ batch' = Tail(batch)
  /\ UNCHANGED <<wallMode, pc, lines, sessionVars, jobVars, shareVars, hwVars,
                 cardVars, replied, sent>>

\* submitted_shares.add, pending_submits[request_id] and submit_id += 1 all
\* precede sock.sendall.
RegisterSubmit(share) ==
  /\ submitted' = submitted \cup {ShareKey(share)}
  /\ pending' = pending \cup {submitId}
  /\ submitId' = submitId + 1

Submission(share) ==
  [key |-> ShareKey(share), mode |-> jobs[share.tag].mode,
   en1 |-> jobs[share.tag].work.en1,
   lane |-> share.lane, device |-> jobs[share.tag].device]

SubmitShare ==
  /\ pc = "check" /\ batch # <<>> /\ ShareAccepted(Head(batch))
  /\ RegisterSubmit(Head(batch))
  /\ \/ batch' = Tail(batch)
        /\ sent' = Append(sent, Submission(Head(batch)))
        /\ UNCHANGED <<pc, lines, replied>>
     \/ LeaveSession /\ UNCHANGED sent              \* sendall raised
  /\ UNCHANGED <<wallMode, sessionVars, jobVars, hwVars, cardVars>>

-----------------------------------------------------------------------------
(* build_job_pair and dispatch_job_pair, for the roll and mining.notify.   *)

RegisterPair(pj) ==
  /\ tagCounter' = TagFor("B")
  /\ jobs' = [t \in Tags |-> IF t = TagFor("B") THEN PairJob(pj, "B")
                             ELSE IF t = TagFor("A") THEN PairJob(pj, "A")
                             ELSE jobs[t]]

AdvanceByOne == en2Counter' = en2Counter + 1
AdvanceExtranonce2 == en2Counter' = en2Counter + 2

\* Lane 0 of the chain is device A.
Crosswired(pj) ==
  [l \in Lanes |-> FrameOf(PairJob(pj, IF l = "A" THEN "B" ELSE "A"))]
PairFrames(pj) == [l \in Lanes |-> FrameOf(PairJob(pj, l))]

\* consume_job_byte of an FPGA, for frames that reach their lane whole or
\* are cut on the way.  Nothing resets the parser: cut inside a frame, it
\* takes the next one for the rest of it, and is inside again after that
\* if the bytes left over look like a header.
ParserAfter(l, toWhole, toCut) ==
  CASE l \in toWhole /\ parser[l] = "hunting" -> {"hunting"}
    [] l \in toCut   /\ parser[l] = "hunting" -> {"inside"}
    [] l \in toWhole \cup toCut /\ parser[l] = "inside" ->
         {"hunting", "inside"}
    [] OTHER -> {parser[l]}

Receive(frames, toWhole, toCut) ==
  /\ fpga' = [l \in Lanes |->
                IF l \in toWhole /\ parser[l] = "hunting" THEN frames[l]
                ELSE fpga[l]]
  /\ parser' \in {p \in [Lanes -> {"hunting", "inside"}] :
                   \A l \in Lanes : p[l] \in ParserAfter(l, toWhole, toCut)}
  /\ whole' = [l \in Lanes |->
                 IF parser'[l] = "inside" \/ l \in toCut THEN 0
                 ELSE IF l \in toWhole /\ whole[l] < Enough THEN whole[l] + 1
                 ELSE whole[l]]
  /\ events' = IF toCut = {} THEN events ELSE events + 1

SendPair(pj) == Receive(PairFrames(pj), Lanes, {}) /\ UNCHANGED hwVars

\* The pair is longer than the server takes, or the request ended before A,
\* inside A, between the frames, inside B or with its answer lost.
SendPairFails(pj) ==
  \/ UNCHANGED <<fpgaVars, hwVars, events>>
  \/ /\ \E reach \in {<<{}, {}>>, <<{}, {"A"}>>, <<{"A"}, {}>>,
                      <<{"A"}, {"B"}>>, <<Lanes, {}>>} :
          /\ reach[2] # {} => events < MaxEvents
          /\ Receive(PairFrames(pj), reach[1], reach[2])
     /\ CloseHardware

\* The exception is caught and the session goes on.
FailureSwallowed(pj) ==
  SendPairFails(pj) /\ UNCHANGED <<pc, lines, batch, replied>>
FailureEndsSession(pj) == SendPairFails(pj) /\ LeaveSession

RollWhenAnswered == latest # Null /\ roll = "due" /\ pending = {}
RollDue == latest # Null /\ roll = "due"

NoRoll ==
  /\ pc = "roll" /\ ~RollDue
  /\ pc' = "recv"
  /\ UNCHANGED <<wallMode, lines, sessionVars, jobVars, shareVars, hwVars,
                 batch, cardVars, replied, sent>>

RollWork ==
  /\ pc = "roll" /\ RollDue
  /\ RegisterPair(latest)
  /\ AdvanceExtranonce2
  /\ \/ SendPair(latest) /\ roll' = "armed" /\ pc' = "recv"
        /\ UNCHANGED <<lines, batch, replied>>
     \/ FailureEndsSession(latest) /\ UNCHANGED roll
  /\ UNCHANGED <<wallMode, feeMode, en1, difficulty, latest, shareVars, mail,
                 sent>>

-----------------------------------------------------------------------------
(* sock.recv(4096) and the handlers of the lines it delivered.             *)

RecvTimeout ==
  /\ pc = "recv"
  /\ pc' = "mode"
  /\ UNCHANGED <<wallMode, lines, sessionVars, jobVars, shareVars, hwVars,
                 batch, cardVars, replied, sent>>

Recv ==
  /\ pc = "recv"
  /\ lines' \in 1 .. MaxLines
  /\ pc' = "lines"
  /\ UNCHANGED <<wallMode, sessionVars, jobVars, shareVars, hwVars, batch,
                 cardVars, replied, sent>>

RecvFails ==
  /\ pc = "recv"
  /\ LeaveSession
  /\ UNCHANGED <<wallMode, sessionVars, jobVars, shareVars, hwVars, cardVars,
                 sent>>

LineDone ==
  /\ lines' = lines - 1
  /\ pc' = IF lines = 1 THEN "mode" ELSE "lines"
  /\ UNCHANGED batch

Answers(request) ==
  /\ pc = "lines" /\ request \notin replied
  /\ replied' = replied \cup {request}

OnSubscribed ==
  /\ Answers("subscribe")
  /\ en1' \in Extranonce1s
  /\ LineDone
  /\ UNCHANGED <<wallMode, feeMode, difficulty, latest, en2Counter, roll,
                 jobVars, shareVars, hwVars, cardVars, sent>>

OnAuthorized ==
  /\ Answers("authorize")
  /\ LineDone
  /\ UNCHANGED <<wallMode, sessionVars, jobVars, shareVars, hwVars, cardVars,
                 sent>>

OnAuthorizationFailed ==
  /\ pc = "lines" /\ "authorize" \notin replied
  /\ LeaveSession
  /\ UNCHANGED <<wallMode, sessionVars, jobVars, shareVars, hwVars, cardVars,
                 sent>>

OnSetDifficulty ==
  /\ pc = "lines"
  /\ difficulty' \in Difficulties
  /\ LineDone
  /\ UNCHANGED <<wallMode, feeMode, en1, latest, en2Counter, roll, jobVars,
                 shareVars, hwVars, cardVars, replied, sent>>

\* mining.notify before the extranonce1 is known, a subscribe response with
\* a falsy result, or a line of no interest: no branch matches.
OnLineIgnored ==
  /\ pc = "lines"
  /\ Answers("subscribe") \/ UNCHANGED replied
  /\ LineDone
  /\ UNCHANGED <<wallMode, sessionVars, jobVars, shareVars, hwVars, cardVars,
                 sent>>

OnNotify ==
  /\ pc = "lines" /\ en1 # Null /\ en2Counter < MaxEn2
  /\ \E pj \in PoolJobs :
       /\ latest' = pj
       /\ RegisterPair(pj)
       /\ \/ SendPair(pj) /\ roll' = "armed"
             /\ LineDone /\ UNCHANGED replied
          \/ FailureEndsSession(pj) /\ UNCHANGED roll
  /\ AdvanceExtranonce2
  /\ UNCHANGED <<wallMode, feeMode, en1, difficulty, shareVars, mail,
                 sent>>

OnResponse ==
  /\ pc = "lines"
  /\ \E id \in pending : pending' = pending \ {id}
  /\ LineDone
  /\ UNCHANGED <<wallMode, sessionVars, jobVars, submitId, submitted, hwVars,
                 cardVars, replied, sent>>

-----------------------------------------------------------------------------
(* What moves without the host: the clock and the cards.                   *)

ClockFlips ==
  /\ wallMode' \in Modes \ {wallMode}
  /\ UNCHANGED <<pc, lines, sessionVars, jobVars, shareVars, hwVars, batch,
                 cardVars, replied, sent>>

RollFallsDue ==
  /\ pc # "idle" /\ roll = "armed" /\ en2Counter < MaxEn2
  /\ roll' = "due"
  /\ UNCHANGED <<wallMode, pc, lines, feeMode, en1, difficulty, latest,
                 en2Counter, jobVars, shareVars, hwVars, batch, cardVars,
                 replied, sent>>

\* A nonce of the job being mined, possibly mishashed, possibly reported
\* before.
FpgaFindsShare(l) ==
  /\ fpga[l] # Null /\ mail[l] = Null /\ events < MaxEvents
  /\ \E n \in Nonces, digest \in {fpga[l].work, Bad} :
       mail' = [mail EXCEPT ![l] = [lane |-> l, tag |-> fpga[l].tag,
                                    nonce |-> n, digest |-> digest]]
  /\ events' = events + 1
  /\ UNCHANGED <<wallMode, pc, lines, sessionVars, jobVars, shareVars, hwVars,
                 batch, fpgaVars, replied, sent>>

-----------------------------------------------------------------------------
PopShares ==
  \/ Connect \/ ConnectFails
  \/ \E l \in Lanes :
       ReadNoShare(l) \/ ReadPart(l) \/ ReadShare(l) \/ ReadLaneFails(l)

MinerStep ==
  \/ StartSession \/ Rotate \/ CheckMode \/ PopShares
  \/ BatchDone \/ DropShare \/ SubmitShare
  \/ NoRoll \/ RollWork
  \/ RecvTimeout \/ Recv \/ RecvFails
  \/ OnSubscribed \/ OnAuthorized \/ OnAuthorizationFailed
  \/ OnSetDifficulty \/ OnLineIgnored \/ OnNotify \/ OnResponse

CardStep == \E l \in Lanes : FpgaFindsShare(l)

Next == MinerStep \/ CardStep \/ ClockFlips \/ RollFallsDue

Spec == Init /\ [][Next]_vars

\* The process is always scheduled: every call of the loop has a timeout.
FairSpec == Spec /\ WF_vars(MinerStep)
-----------------------------------------------------------------------------
(* Properties.                                                             *)

TypeOK ==
  /\ wallMode \in Modes /\ feeMode \in Modes
  /\ pc \in {"idle", "mode", "A", "B", "check", "roll", "recv", "lines"}
  /\ lines \in Nat
  /\ en1 \in Extranonce1s \cup {Null} /\ difficulty \in Difficulties
  /\ latest \in PoolJobs \cup {Null} /\ en2Counter \in Nat
  /\ roll \in {"none", "armed", "due"}
  /\ tagCounter \in Tags /\ jobs \in [Tags -> Job \cup {Null}]
  /\ submitId \in Nat /\ submitted \subseteq Key /\ pending \subseteq Nat
  /\ xvc \in {"closed", "open"} /\ buffers \in [Lanes -> Share \cup {Null}]
  /\ batch \in Seq(Share)
  /\ fpga \in [Lanes -> Frame \cup {Null}]
  /\ parser \in [Lanes -> {"hunting", "inside"}]
  /\ whole \in [Lanes -> 0 .. Enough]
  /\ mail \in [Lanes -> Share \cup {Null}] /\ events \in Nat
  /\ replied \subseteq {"subscribe", "authorize"} /\ sent \in Seq(Submit)

(* The pool sees a well-behaved client: on every connection one wallet and *)
(* one extranonce1, and no share of an earlier job table, of the other     *)
(* wallet or sent before, although mailboxes, lane buffers and the tag     *)
(* counter outlive the connection.                                         *)
Session ==
  INSTANCE WalletSession WITH
    Wallets <- Modes,
    Keys <- Key,
    wallet <- IF pc = "idle" THEN Null ELSE feeMode,
    en1 <- IF pc = "idle" THEN Null ELSE en1,
    shares <- IF pc = "idle" THEN <<>>
              ELSE [i \in DOMAIN sent |-> [wallet |-> sent[i].mode,
                                           en1 |-> sent[i].en1,
                                           key |-> sent[i].key]]
ImplementsSession == Session!Spec

(* The two FPGAs never hash the same header, also after a request that     *)
(* reached only one of them, with the other still on an older pair or on   *)
(* a job of the previous connection.                                       *)
LanesDisjoint ==
  (fpga["A"] # Null /\ fpga["B"] # Null) => fpga["A"].work # fpga["B"].work

(* In a session an FPGA works on the newest pair, at its own place in it,  *)
(* unless a frame to it was cut less than two frames back: dispatch ends   *)
(* the session over a half-sent pair, but the parser that was cut inside   *)
(* its frame swallows the first frame of the next session, which stays     *)
(* open with that FPGA on older work.  One more pair brings it back.       *)
OnNewestPair(l) ==
  /\ fpga[l] # Null /\ jobs[fpga[l].tag] # Null
  /\ fpga[l] = FrameOf(jobs[fpga[l].tag])
  /\ fpga[l].work.pj = latest
  /\ tagCounter = IF l = "A" THEN NextTag(fpga[l].tag) ELSE fpga[l].tag
PairInStep ==
  (pc # "idle" /\ latest # Null) =>
    \A l \in Lanes : whole[l] = Enough => OnNewestPair(l)

(* What a submit and its response are reported for is the FPGA that found  *)
(* the share: a tag of one lane never comes back on the other.             *)
AssignedIsPhysical ==
  \A i \in DOMAIN sent : sent[i].device = sent[i].lane

(* The comment on WORK_ROLL_SECONDS: work that is due for a roll is rolled *)
(* however many lines and shares come between, or the session ends.        *)
RollHappens ==
  (pc # "idle" /\ roll = "due") ~> (pc = "idle" \/ roll # "due")
=============================================================================
