------------------------------ MODULE MinerTop ------------------------------
(***************************************************************************)
(* The FPGA top level miner_top_ii1_bscan_500.sv with its mining engine    *)
(* sha3t_ii1_miner_engine.sv: a job crosses from the 200 MHz domain to the *)
(* mining clock as a wide bus (two flip-flops) beside a toggle (three),    *)
(* candidates cross back the same way, and a small scanner judges them and *)
(* hands shares to the mailbox of the transport.                           *)
(*                                                                         *)
(* The clocks interleave at their ratio: MinGap to MaxGap mining edges     *)
(* between two 200 MHz edges.  The first sample of a bus after its source  *)
(* changed may be the old value, the new one or a mixture.  A job is one   *)
(* member of Jobs (header and target); a candidate is its tag, the job it  *)
(* was hashed from and whether its digest meets the job's full target; the *)
(* nonce is left out, a pipeline entry is the job that entered it.         *)
(***************************************************************************)
EXTENDS Naturals, Sequences

CONSTANTS
  Jobs, Tag,       \* the jobs and their tags
  None, Mixed,     \* no job; a mixture of two bus values
  Zero,            \* the cleared candidate_hold: tag, nonce and digest 0
  Depth,           \* pipeline stages, 3 * 24 * 3 in the code
  MinGap, MaxGap,  \* mining edges per 200 MHz edge: 2 to 3 at 500 MHz
  KeepsUp,         \* candidates are found no faster than they are judged
  MayReset         \* the clock generator may lose lock

ASSUME JobAssumption ==
  /\ Tag \in [Jobs -> Nat] /\ {None, Mixed, Zero} \cap Jobs = {}
  /\ None # Mixed /\ None # Zero /\ Mixed # Zero
ASSUME DepthAssumption == Depth \in Nat \ {0}
ASSUME GapAssumption ==
  MinGap \in Nat \ {0} /\ MaxGap \in Nat /\ MinGap <= MaxGap
ASSUME ModeAssumption == KeepsUp \in BOOLEAN /\ MayReset \in BOOLEAN

VARIABLES
  job200, jobSeen, oldJob, jobFresh,         \* job registers, 200 MHz
  jobBus, jobToggle,                         \* their synchronisers
  lastJob, activeJob, pipe,                  \* the engine
  hold, candToggle, oldHold, candFresh,      \* candidate registers
  candBus, candSync,                         \* their synchronisers
  seen, scanValid, scan,                     \* the scanner, 200 MHz
  shareValid, share,                         \* what it hands to the mailbox
  shareReady,                                \* the mailbox is empty
  ahead                                      \* mining edges since the last one

job200Vars == <<job200, jobSeen>>
engineVars == <<lastJob, activeJob, pipe>>
holdVars   == <<hold, candToggle>>
scanVars   == <<seen, scanValid, scan, shareValid, share>>
vars == <<job200Vars, oldJob, jobFresh, jobBus, jobToggle, engineVars,
          holdVars, oldHold, candFresh, candBus, candSync, scanVars,
          shareReady, ahead>>

TagOf(job) == IF job \in Jobs THEN Tag[job] ELSE 0
Tags == {0} \cup {Tag[j] : j \in Jobs}
Candidate == [tag : Tags, job : Jobs \cup {Mixed, Zero}, good : BOOLEAN]
NoCandidate == [tag |-> 0, job |-> Zero, good |-> TRUE]

EmptyPipe == [i \in 1 .. Depth |-> None]

-----------------------------------------------------------------------------
(* Crossing a clock domain.                                                *)

ToggleSamples(toggle, fresh) == IF fresh THEN BOOLEAN ELSE {toggle}
JobSamples == IF jobFresh THEN {job200, oldJob, Mixed} ELSE {job200}

Mixtures ==
  [tag : IF hold.tag = oldHold.tag THEN {hold.tag} ELSE Tags,
   job : {Mixed}, good : BOOLEAN]
CandSamples ==
  IF candFresh THEN {hold, oldHold} \cup Mixtures ELSE {hold}

-----------------------------------------------------------------------------
(* The engine, on an edge of the mining clock.                             *)

TwoStageToggle == jobToggle[2]
JobToggleOut == jobToggle[3]
JobEventWhenIdle == JobToggleOut # lastJob /\ activeJob = None
JobEvent == JobToggleOut # lastJob

FlushPipeline == pipe' = EmptyPipe

LoadJob ==
  /\ JobEvent
  /\ lastJob' = JobToggleOut
  /\ activeJob' = jobBus[2]
  /\ FlushPipeline
  /\ UNCHANGED <<holdVars, oldHold, candFresh>>

ShiftPipeline ==
  pipe' = [i \in 1 .. Depth |-> IF i = 1 THEN activeJob ELSE pipe[i - 1]]

NothingPending ==
  /\ seen = candToggle /\ \A i \in 1 .. 3 : candSync[i] = candToggle
  /\ ~scanValid /\ ~shareValid /\ shareReady

ActiveTags == IF activeJob = Mixed THEN Tags ELSE {TagOf(activeJob)}

MineNoHit ==
  /\ ~JobEvent /\ ShiftPipeline
  /\ UNCHANGED <<lastJob, activeJob, holdVars, oldHold, candFresh>>

\* The result meets the 16-bit prefix of the target, or all of the target.
MineHit ==
  /\ ~JobEvent /\ ShiftPipeline
  /\ pipe[Depth] # None
  /\ KeepsUp => NothingPending
  /\ \E good \in BOOLEAN, tag \in ActiveTags :
       hold' = [tag |-> tag, job |-> pipe[Depth], good |-> good]
  /\ candToggle' = ~candToggle
  /\ oldHold' = hold /\ candFresh' = TRUE
  /\ UNCHANGED <<lastJob, activeJob>>

\* reset500 after a loss of lock.
ResetEngine ==
  /\ MayReset
  /\ lastJob' = FALSE /\ activeJob' = None /\ pipe' = EmptyPipe
  /\ hold' = NoCandidate /\ candToggle' = FALSE
  /\ oldHold' = hold /\ candFresh' = TRUE

MiningEdge ==
  /\ ahead < MaxGap
  /\ ahead' = ahead + 1
  /\ LoadJob \/ MineNoHit \/ MineHit \/ ResetEngine
  /\ \E t \in ToggleSamples(jobSeen, jobFresh) :
       jobToggle' = <<t, jobToggle[1], jobToggle[2]>>
  /\ \E j \in JobSamples : jobBus' = <<j, jobBus[1]>>
  /\ jobFresh' = FALSE /\ oldJob' = None
  /\ UNCHANGED <<job200Vars, candBus, candSync, scanVars, shareReady>>

-----------------------------------------------------------------------------
(* The job registers and the scanner, on an edge of the 200 MHz clock.     *)

TwoStageCandidate == candSync[2]
CandToggleOut == candSync[3]

\* scan_pass200: tag and target of the current job.
PassesTargetOnly == scanValid /\ scan.good
ScanPass == scanValid /\ scan.tag = TagOf(job200) /\ scan.good

\* A job frame takes the host thousands of edges: the engine has the previous
\* job by then.  The bridge numbers 256 consecutive jobs with different tags.
PreviousJobSettled ==
  ~jobFresh /\ lastJob = jobSeen /\ \A i \in 1 .. 3 : jobToggle[i] = jobSeen

\* A register under a low valid flag is never read: it is cleared here.
NoShare == shareValid' = FALSE /\ share' = NoCandidate
EndScan == scanValid' = FALSE /\ scan' = NoCandidate
KeepScanning == UNCHANGED <<scanValid, scan>>
AfterEmit == EndScan

JobPulse ==
  /\ PreviousJobSettled
  /\ \E j \in Jobs :
       /\ job200 = None \/ TagOf(j) # TagOf(job200)
       /\ job200' = j
  /\ oldJob' = job200 /\ jobSeen' = ~jobSeen /\ jobFresh' = TRUE
  /\ seen' = CandToggleOut
  /\ EndScan /\ NoShare

Emit ==
  /\ ScanPass /\ shareReady
  /\ shareValid' = TRUE /\ share' = scan
  /\ AfterEmit
  /\ UNCHANGED <<seen, job200Vars, oldJob, jobFresh>>

LoadCandidate ==
  /\ ~ScanPass /\ shareReady
  /\ NoShare
  /\ IF CandToggleOut # seen
     THEN scan' = candBus[2] /\ seen' = CandToggleOut /\ scanValid' = TRUE
     ELSE EndScan /\ UNCHANGED seen
  /\ UNCHANGED <<job200Vars, oldJob, jobFresh>>

AwaitMailbox ==
  /\ ~shareReady
  /\ NoShare
  /\ UNCHANGED <<seen, scanValid, scan, job200Vars, oldJob, jobFresh>>

Edge200 ==
  /\ ahead >= MinGap
  /\ ahead' = 0
  /\ JobPulse \/ Emit \/ LoadCandidate \/ AwaitMailbox
  /\ shareReady' = (shareReady /\ ~shareValid)   \* the mailbox latches
  /\ \E t \in ToggleSamples(candToggle, candFresh) :
       candSync' = <<t, candSync[1], candSync[2]>>
  /\ \E c \in CandSamples : candBus' = <<c, candBus[1]>>
  /\ candFresh' = FALSE /\ oldHold' = NoCandidate
  /\ UNCHANGED <<jobBus, jobToggle, engineVars, holdVars>>

\* The consumed toggle of the host has come through.
HostTakes ==
  /\ ~shareReady /\ shareReady' = TRUE
  /\ UNCHANGED <<job200Vars, oldJob, jobFresh, jobBus, jobToggle,
                 engineVars, holdVars, oldHold, candFresh, candBus, candSync,
                 scanVars, ahead>>

-----------------------------------------------------------------------------
Init ==
  /\ job200 = None /\ jobSeen = FALSE /\ oldJob = None /\ jobFresh = FALSE
  /\ jobBus = <<None, None>> /\ jobToggle = [i \in 1 .. 3 |-> FALSE]
  /\ lastJob = FALSE /\ activeJob = None /\ pipe = EmptyPipe
  /\ hold = NoCandidate /\ candToggle = FALSE
  /\ oldHold = NoCandidate /\ candFresh = FALSE
  /\ candBus = <<NoCandidate, NoCandidate>>
  /\ candSync = [i \in 1 .. 3 |-> FALSE]
  /\ seen = FALSE /\ scanValid = FALSE /\ scan = NoCandidate
  /\ shareValid = FALSE /\ share = NoCandidate
  /\ shareReady = TRUE /\ ahead = 0

Next == MiningEdge \/ Edge200 \/ HostTakes

Spec == Init /\ [][Next]_vars

\* The clocks run and the host empties the mailbox.
FairSpec ==
  Spec /\ WF_vars(MiningEdge) /\ WF_vars(Edge200) /\ WF_vars(HostTakes)

-----------------------------------------------------------------------------
(* Properties.                                                             *)

TypeOK ==
  /\ job200 \in Jobs \cup {None} /\ oldJob \in Jobs \cup {None}
  /\ jobSeen \in BOOLEAN /\ jobFresh \in BOOLEAN
  /\ jobBus \in Seq(Jobs \cup {None, Mixed}) /\ Len(jobBus) = 2
  /\ jobToggle \in [1 .. 3 -> BOOLEAN]
  /\ lastJob \in BOOLEAN /\ activeJob \in Jobs \cup {None, Mixed}
  /\ pipe \in [1 .. Depth -> Jobs \cup {None, Mixed}]
  /\ hold \in Candidate /\ oldHold \in Candidate
  /\ candToggle \in BOOLEAN /\ candFresh \in BOOLEAN
  /\ candBus \in Seq(Candidate) /\ Len(candBus) = 2
  /\ candSync \in [1 .. 3 -> BOOLEAN]
  /\ seen \in BOOLEAN /\ scanValid \in BOOLEAN /\ scan \in Candidate
  /\ shareValid \in BOOLEAN /\ share \in Candidate
  /\ shareReady \in BOOLEAN /\ ahead \in 0 .. MaxGap

(* The engine never starts on a mixture of two jobs: the toggle is one     *)
(* flip-flop longer than the bus it announces.                             *)
NoTornJob == activeJob # Mixed

(* A share reaches the mailbox only while its job is the current one: not  *)
(* after a job change, a full mailbox or a loss of lock does a digest of   *)
(* an older job pass for the current one.                                  *)
EmittedIsCurrent ==
  shareValid => /\ share.tag = TagOf(job200)
                /\ share.job \in Jobs => share.job = job200

(* share_valid is a pulse the mailbox cannot refuse: it is still empty one *)
(* cycle after the scanner found it empty.                                 *)
NoShareDropped == shareValid => shareReady

(* Where candidates are judged as fast as they are found, no share is a    *)
(* mixture of two, however the edges of the clocks fall.                   *)
EmittedIsGenuine == shareValid => share.job = job200

(* And then every full-target candidate of a job becomes a share, unless   *)
(* the next job arrives first.                                             *)
CandidateBecomesShare ==
  \A j \in Jobs :
    (candToggle # seen /\ hold.job = j /\ hold.good /\ job200 = j)
      ~> (job200 # j \/ (shareValid /\ share.job = j))

(* Every job that is pulsed in is mined, or a newer one replaces it.       *)
JobReachesEngine ==
  \A j \in Jobs : (job200 = j) ~> (job200 # j \/ activeJob = j)
=============================================================================
