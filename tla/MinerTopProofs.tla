--------------------------- MODULE MinerTopProofs ---------------------------
(***************************************************************************)
(* Proofs about the FPGA top level for every pipeline depth, every ratio   *)
(* of the two clocks and every number of jobs: what crosses between the    *)
(* clock domains arrives whole, and a share that reaches the mailbox is    *)
(* one of the current job.                                                 *)
(***************************************************************************)
EXTENDS MinerTop, TLAPS

(* The bridge numbers the jobs it can have under way with different tags.  *)
TagsDistinct == \A i, j \in Jobs : Tag[i] = Tag[j] => i = j

-----------------------------------------------------------------------------
(* The invariant that holds whatever the engine finds and loses.           *)

(* A loaded job flushes the pipeline of the job before it.                 *)
PipeIsActive ==
  \A i \in 1 .. Depth : pipe[i] = None \/ pipe[i] = activeJob

(* A whole candidate carries the tag of the job it was hashed from.        *)
OwnTag(c) == c.job \in Jobs => c.tag = Tag[c.job]
CandidatesOwnTag ==
  /\ OwnTag(hold) /\ OwnTag(oldHold) /\ OwnTag(candBus[1])
  /\ OwnTag(candBus[2]) /\ OwnTag(scan) /\ OwnTag(share)

(* Nothing is mined before the first job.                                  *)
BeforeFirstJob ==
  job200 = None =>
    /\ ~jobSeen /\ ~jobFresh /\ ~lastJob /\ \A i \in 1 .. 3 : ~jobToggle[i]
    /\ activeJob = None
    /\ hold.job \notin Jobs /\ oldHold.job \notin Jobs
    /\ candBus[1].job \notin Jobs /\ candBus[2].job \notin Jobs
    /\ scan.job \notin Jobs /\ share.job \notin Jobs

(* share_valid is one pulse, at an empty mailbox, for the current job.     *)
ShareIsPulse ==
  shareValid => shareReady /\ ~scanValid /\ share.tag = TagOf(job200)

TopInv ==
  TypeOK /\ PipeIsActive /\ CandidatesOwnTag /\ BeforeFirstJob /\ ShareIsPulse

(* The crossing of a job, as long as the engine is not reset: where the    *)
(* toggle has come, the bus one flip-flop further on holds the new job.    *)
JobCrossing ==
  /\ jobFresh => \A i \in 1 .. 3 : jobToggle[i] = lastJob
  /\ jobFresh => jobSeen # lastJob
  /\ jobToggle[3] # lastJob => jobToggle[2] # lastJob /\ jobBus[2] = job200
  /\ jobToggle[2] # lastJob => jobToggle[1] # lastJob /\ jobBus[1] = job200
  /\ jobToggle[1] # lastJob => jobSeen # lastJob
  /\ activeJob # Mixed

(* The crossing of a candidate, where none is found before the last one    *)
(* was judged.                                                             *)
CandidateCrossing ==
  /\ candFresh => \A i \in 1 .. 3 : candSync[i] = seen
  /\ candFresh => candToggle # seen
  /\ candSync[3] # seen => candSync[2] # seen /\ candBus[2] = hold
  /\ candSync[2] # seen => candSync[1] # seen /\ candBus[1] = hold
  /\ candSync[1] # seen => candToggle # seen
  /\ scanValid => candToggle = seen /\ scan = hold
  /\ shareValid => candToggle = seen /\ share = hold
  /\ candToggle # seen \/ scanValid \/ shareValid => hold.job \in Jobs

-----------------------------------------------------------------------------
(* Sequences of length two.                                                *)
LEMMA Pairs ==
  ASSUME NEW S, NEW s \in Seq(S), Len(s) = 2
  PROVE  s[1] \in S /\ s[2] \in S
<1>1. \A i \in 1 .. Len(s) : s[i] \in S
  OBVIOUS
<1> QED
  BY <1>1

-----------------------------------------------------------------------------
(* The two edges, by what they do to the registers the invariants relate.  *)

(* A mining edge: the engine loads, shifts, finds or is reset, and samples *)
(* the job registers.                                                      *)
LEMMA MiningEdgeDoes ==
  ASSUME TypeOK, MiningEdge
  PROVE  /\ UNCHANGED <<job200Vars, candBus, candSync, scanVars, shareReady>>
         /\ jobFresh' = FALSE /\ ahead' \in 0 .. MaxGap
         /\ LoadJob \/ MineNoHit \/ MineHit \/ ResetEngine
         /\ oldJob' = None
         /\ jobToggle'[1] \in BOOLEAN
         /\ ~jobFresh => jobToggle'[1] = jobSeen /\ jobBus'[1] = job200
         /\ jobBus'[1] \in Jobs \cup {None, Mixed}
         /\ jobToggle'[2] = jobToggle[1] /\ jobToggle'[3] = jobToggle[2]
         /\ jobBus'[2] = jobBus[1]
         /\ jobToggle' \in [1 .. 3 -> BOOLEAN]
         /\ jobBus' \in Seq(Jobs \cup {None, Mixed}) /\ Len(jobBus') = 2
<1>1. PICK t \in ToggleSamples(jobSeen, jobFresh) :
        jobToggle' = <<t, jobToggle[1], jobToggle[2]>>
  BY DEF MiningEdge
<1>2. PICK j \in JobSamples : jobBus' = <<j, jobBus[1]>>
  BY DEF MiningEdge
<1>3. /\ t \in BOOLEAN /\ j \in Jobs \cup {None, Mixed}
      /\ ~jobFresh => t = jobSeen /\ j = job200
  BY DEF ToggleSamples, JobSamples, TypeOK
<1>4. /\ jobToggle[1] \in BOOLEAN /\ jobToggle[2] \in BOOLEAN
      /\ jobBus[1] \in Jobs \cup {None, Mixed}
  BY Pairs DEF TypeOK
<1>5. /\ UNCHANGED <<job200Vars, candBus, candSync, scanVars, shareReady>>
      /\ jobFresh' = FALSE /\ oldJob' = None
      /\ ahead < MaxGap /\ ahead' = ahead + 1
      /\ LoadJob \/ MineNoHit \/ MineHit \/ ResetEngine
  BY DEF MiningEdge
<1>6. ahead' \in 0 .. MaxGap
  BY <1>5, GapAssumption DEF TypeOK
<1>7. /\ jobToggle' \in [1 .. 3 -> BOOLEAN]
      /\ jobToggle'[1] = t /\ jobToggle'[2] = jobToggle[1]
      /\ jobToggle'[3] = jobToggle[2]
  BY <1>1, <1>3, <1>4
<1>8. /\ jobBus' \in Seq(Jobs \cup {None, Mixed}) /\ Len(jobBus') = 2
      /\ jobBus'[1] = j /\ jobBus'[2] = jobBus[1]
  BY <1>2, <1>3, <1>4
<1>9. /\ ~jobFresh => jobToggle'[1] = jobSeen /\ jobBus'[1] = job200
      /\ jobToggle'[1] \in BOOLEAN /\ jobBus'[1] \in Jobs \cup {None, Mixed}
  BY <1>3, <1>7, <1>8
<1> QED
  BY <1>5, <1>6, <1>7, <1>8, <1>9

(* A 200 MHz edge: the scanner acts, and samples the candidate registers.  *)
LEMMA Edge200Does ==
  ASSUME TypeOK, Edge200
  PROVE  /\ UNCHANGED <<jobBus, jobToggle, engineVars, holdVars>>
         /\ candFresh' = FALSE /\ oldHold' = NoCandidate /\ ahead' = 0
         /\ JobPulse \/ Emit \/ LoadCandidate \/ AwaitMailbox
         /\ shareReady' = (shareReady /\ ~shareValid)
         /\ candSync'[1] \in BOOLEAN
         /\ ~candFresh => candSync'[1] = candToggle /\ candBus'[1] = hold
         /\ candBus'[1] \in {hold, oldHold} \cup Mixtures
         /\ candSync'[2] = candSync[1] /\ candSync'[3] = candSync[2]
         /\ candBus'[2] = candBus[1]
         /\ candSync' \in [1 .. 3 -> BOOLEAN]
         /\ candBus' \in Seq(Candidate) /\ Len(candBus') = 2
<1>1. PICK t \in ToggleSamples(candToggle, candFresh) :
        candSync' = <<t, candSync[1], candSync[2]>>
  BY DEF Edge200
<1>2. PICK c \in CandSamples : candBus' = <<c, candBus[1]>>
  BY DEF Edge200
<1>3. /\ t \in BOOLEAN /\ c \in {hold, oldHold} \cup Mixtures
      /\ ~candFresh => t = candToggle /\ c = hold
  BY DEF ToggleSamples, CandSamples, TypeOK
<1>4. Mixtures \subseteq Candidate
  BY DEF Mixtures, Candidate, TypeOK
<1>5. c \in Candidate
  BY <1>3, <1>4 DEF TypeOK
<1>6. /\ candSync[1] \in BOOLEAN /\ candSync[2] \in BOOLEAN
      /\ candBus[1] \in Candidate
  BY Pairs DEF TypeOK
<1>7. /\ UNCHANGED <<jobBus, jobToggle, engineVars, holdVars>>
      /\ candFresh' = FALSE /\ oldHold' = NoCandidate /\ ahead' = 0
      /\ JobPulse \/ Emit \/ LoadCandidate \/ AwaitMailbox
      /\ shareReady' = (shareReady /\ ~shareValid)
  BY DEF Edge200
<1>8. /\ candSync' \in [1 .. 3 -> BOOLEAN]
      /\ candSync'[1] = t /\ candSync'[2] = candSync[1]
      /\ candSync'[3] = candSync[2]
  BY <1>1, <1>3, <1>6
<1>9. /\ candBus' \in Seq(Candidate) /\ Len(candBus') = 2
      /\ candBus'[1] = c /\ candBus'[2] = candBus[1]
  BY <1>2, <1>5, <1>6
<1>10. /\ ~candFresh => candSync'[1] = candToggle /\ candBus'[1] = hold
       /\ candSync'[1] \in BOOLEAN
       /\ candBus'[1] \in {hold, oldHold} \cup Mixtures
  BY <1>3, <1>8, <1>9
<1> QED
  BY <1>7, <1>8, <1>9, <1>10

(* The engine's registers after a mining edge.                             *)
LEMMA EngineMoves ==
  ASSUME TypeOK, LoadJob \/ MineNoHit \/ MineHit \/ ResetEngine
  PROVE  /\ lastJob' \in BOOLEAN /\ activeJob' \in Jobs \cup {None, Mixed}
         /\ pipe' \in [1 .. Depth -> Jobs \cup {None, Mixed}]
         /\ hold' \in Candidate /\ oldHold' \in Candidate
         /\ candToggle' \in BOOLEAN /\ candFresh' \in BOOLEAN
<1>0. /\ Depth \in 1 .. Depth /\ EmptyPipe \in [1 .. Depth -> {None}]
      /\ NoCandidate \in Candidate
      /\ jobBus[2] \in Jobs \cup {None, Mixed}
  BY DepthAssumption, Pairs DEF EmptyPipe, NoCandidate, Candidate, Tags, TypeOK
<1>1. CASE LoadJob
  BY <1>0, <1>1 DEF LoadJob, FlushPipeline, JobToggleOut, holdVars, TypeOK
<1>2. ShiftPipeline => pipe' \in [1 .. Depth -> Jobs \cup {None, Mixed}]
  <2> SUFFICES ASSUME ShiftPipeline
               PROVE  pipe' \in [1 .. Depth -> Jobs \cup {None, Mixed}]
    OBVIOUS
  <2>1. \A i \in 1 .. Depth : i = 1 \/ i - 1 \in 1 .. Depth
    BY DepthAssumption
  <2>2. /\ pipe \in [1 .. Depth -> Jobs \cup {None, Mixed}]
        /\ activeJob \in Jobs \cup {None, Mixed}
    BY DEF TypeOK
  <2> QED
    BY <2>1, <2>2 DEF ShiftPipeline
<1>3. CASE MineNoHit
  BY <1>2, <1>3 DEF MineNoHit, holdVars, TypeOK
<1>4. CASE MineHit
  <2>1. PICK good \in BOOLEAN, tag \in ActiveTags :
          hold' = [tag |-> tag, job |-> pipe[Depth], good |-> good]
    BY <1>4 DEF MineHit
  <2>2. pipe[Depth] \in Jobs \cup {Mixed}
    BY <1>0, <1>4 DEF MineHit, TypeOK
  <2>3. ActiveTags \subseteq Tags
    BY DEF ActiveTags, TagOf, Tags
  <2>4. hold' \in Candidate
    BY <2>1, <2>2, <2>3 DEF Candidate
  <2>5. candToggle' \in BOOLEAN
    BY <1>4 DEF MineHit
  <2> QED
    BY <1>2, <1>4, <2>4, <2>5 DEF MineHit, TypeOK
<1>5. CASE ResetEngine
  BY <1>0, <1>5 DEF ResetEngine, TypeOK
<1> QED
  BY <1>1, <1>3, <1>4, <1>5

(* The scanner's registers after a 200 MHz edge.                           *)
LEMMA ScannerMoves ==
  ASSUME TypeOK, JobPulse \/ Emit \/ LoadCandidate \/ AwaitMailbox
  PROVE  /\ job200' \in Jobs \cup {None} /\ oldJob' \in Jobs \cup {None}
         /\ jobSeen' \in BOOLEAN /\ jobFresh' \in BOOLEAN
         /\ seen' \in BOOLEAN /\ scanValid' \in BOOLEAN
         /\ scan' \in Candidate
         /\ shareValid' \in BOOLEAN /\ share' \in Candidate
<1> USE DEF TypeOK, NoShare, EndScan, job200Vars
<1>0. /\ NoCandidate \in Candidate /\ candBus[2] \in Candidate
      /\ candSync[3] \in BOOLEAN
  <2>1. NoCandidate \in Candidate
    BY DEF NoCandidate, Candidate, Tags
  <2>2. candBus[2] \in Candidate /\ candSync[3] \in BOOLEAN
    BY Pairs
  <2> QED
    BY <2>1, <2>2
<1>1. CASE JobPulse
  <2>1. /\ job200' \in Jobs /\ oldJob' = job200 /\ jobSeen' = ~jobSeen
        /\ jobFresh' = TRUE /\ seen' = candSync[3]
        /\ scanValid' = FALSE /\ scan' = NoCandidate
        /\ shareValid' = FALSE /\ share' = NoCandidate
    BY <1>1 DEF JobPulse, CandToggleOut
  <2> QED
    BY <1>0, <2>1
<1>2. CASE Emit
  BY <1>0, <1>2 DEF Emit, AfterEmit
<1>3. CASE LoadCandidate
  BY <1>0, <1>3 DEF LoadCandidate, CandToggleOut
<1>4. CASE AwaitMailbox
  BY <1>0, <1>4 DEF AwaitMailbox
<1> QED
  BY <1>1, <1>2, <1>3, <1>4

(* Types hold at the start.                                                *)
LEMMA InitTypes == Init => TypeOK
<1> SUFFICES ASSUME Init PROVE TypeOK
  OBVIOUS
<1>1. NoCandidate \in Candidate
  BY DEF NoCandidate, Candidate, Tags
<1>2. /\ jobBus \in Seq(Jobs \cup {None, Mixed}) /\ Len(jobBus) = 2
      /\ candBus \in Seq(Candidate) /\ Len(candBus) = 2
  BY <1>1 DEF Init
<1>3. pipe \in [1 .. Depth -> Jobs \cup {None, Mixed}]
  BY DEF Init, EmptyPipe
<1>4. ahead \in 0 .. MaxGap
  BY GapAssumption DEF Init
<1> QED
  BY <1>1, <1>2, <1>3, <1>4 DEF Init, TypeOK

(* And every edge of either clock keeps them.                              *)
LEMMA StepTypes == TypeOK /\ [Next]_vars => TypeOK'
<1> SUFFICES ASSUME TypeOK, [Next]_vars PROVE TypeOK'
  OBVIOUS
<1>1. CASE MiningEdge
  BY <1>1, MiningEdgeDoes, EngineMoves DEF TypeOK, job200Vars, scanVars
<1>2. CASE Edge200
  <2>1. NoCandidate \in Candidate /\ ahead' \in 0 .. MaxGap
    BY <1>2, Edge200Does, GapAssumption DEF NoCandidate, Candidate, Tags
  <2>2. shareReady' \in BOOLEAN
    BY <1>2, Edge200Does
  <2>3. oldHold' \in Candidate /\ candFresh' \in BOOLEAN
    BY <1>2, <2>1, Edge200Does
  <2> QED
    BY <1>2, <2>1, <2>2, <2>3, Edge200Does, ScannerMoves DEF TypeOK,
       engineVars, holdVars
<1>3. CASE HostTakes
  BY <1>3 DEF HostTakes, TypeOK, job200Vars, engineVars, holdVars, scanVars
<1>4. CASE UNCHANGED vars
  BY <1>4 DEF vars, TypeOK, job200Vars, engineVars, holdVars, scanVars
<1> QED
  BY <1>1, <1>2, <1>3, <1>4 DEF Next

(* Type correctness of the top level, for every depth and clock ratio.     *)
THEOREM MinerTypes == Spec => []TypeOK
  BY InitTypes, StepTypes, PTL DEF Spec

-----------------------------------------------------------------------------
(* The invariant of every mode.                                            *)

(* TagOf speaks of constants.                                              *)
LEMMA TagOfJob == \A j \in Jobs : TagOf(j) = Tag[j]
  BY DEF TagOf

LEMMA InitTop == Init => TopInv
<1> SUFFICES ASSUME Init PROVE TopInv
  OBVIOUS
<1>1. NoCandidate.job \notin Jobs
  BY JobAssumption DEF NoCandidate
<1> QED
  BY <1>1, InitTypes DEF Init, TopInv, PipeIsActive, EmptyPipe,
     CandidatesOwnTag, OwnTag, BeforeFirstJob, ShareIsPulse

(* What is in the pipeline is of the active job.                           *)
LEMMA PipeStep ==
  ASSUME TopInv, LoadJob \/ MineNoHit \/ MineHit \/ ResetEngine
  PROVE  PipeIsActive'
<1> USE DEF PipeIsActive
<1>0. PipeIsActive
  BY DEF TopInv
<1>1. CASE LoadJob \/ ResetEngine
  BY <1>1 DEF LoadJob, ResetEngine, FlushPipeline, EmptyPipe
<1>2. CASE MineNoHit \/ MineHit
  <2>1. /\ activeJob' = activeJob
        /\ \A i \in 1 .. Depth :
             pipe'[i] = IF i = 1 THEN activeJob ELSE pipe[i - 1]
    BY <1>2 DEF MineNoHit, MineHit, ShiftPipeline
  <2>2. \A i \in 1 .. Depth : i = 1 \/ i - 1 \in 1 .. Depth
    BY DepthAssumption
  <2> QED
    BY <1>0, <2>1, <2>2
<1> QED
  BY <1>1, <1>2

(* A hit carries the tag of the job it was hashed from.                    *)
LEMMA HitOwnTag ==
  ASSUME TopInv, MineHit
  PROVE  OwnTag(hold') /\ activeJob # None
<1>1. PICK good \in BOOLEAN, tag \in ActiveTags :
        hold' = [tag |-> tag, job |-> pipe[Depth], good |-> good]
  BY DEF MineHit
<1>2. pipe[Depth] # None /\ pipe[Depth] = activeJob
  BY DepthAssumption DEF MineHit, TopInv, PipeIsActive
<1>3. activeJob \in Jobs => tag = Tag[activeJob]
  BY JobAssumption, TagOfJob DEF ActiveTags
<1> QED
  BY <1>1, <1>2, <1>3 DEF OwnTag

LEMMA MiningStep ==
  ASSUME TopInv, MiningEdge
  PROVE  CandidatesOwnTag' /\ BeforeFirstJob' /\ ShareIsPulse'
<1>0. TypeOK /\ CandidatesOwnTag /\ BeforeFirstJob /\ ShareIsPulse
  BY DEF TopInv
<1>1. /\ UNCHANGED <<job200, jobSeen, candBus, candSync, seen, scanValid,
                     scan, shareValid, share, shareReady>>
      /\ jobFresh' = FALSE
      /\ LoadJob \/ MineNoHit \/ MineHit \/ ResetEngine
      /\ ~jobFresh => jobToggle'[1] = jobSeen
      /\ jobToggle'[2] = jobToggle[1] /\ jobToggle'[3] = jobToggle[2]
  BY <1>0, MiningEdgeDoes DEF job200Vars, scanVars
<1>2. \/ hold' = hold /\ oldHold' = oldHold
      \/ oldHold' = hold /\ (MineHit \/ hold' = NoCandidate)
  BY <1>1 DEF LoadJob, MineNoHit, MineHit, ResetEngine, holdVars
<1>3. NoCandidate.job \notin Jobs
  BY JobAssumption DEF NoCandidate
<1>4. CandidatesOwnTag'
  <2>1. OwnTag(hold') /\ OwnTag(oldHold')
    BY <1>0, <1>2, <1>3, HitOwnTag DEF CandidatesOwnTag, OwnTag
  <2> QED
    BY <1>0, <1>1, <2>1 DEF CandidatesOwnTag, OwnTag
<1>5. BeforeFirstJob'
  <2> SUFFICES ASSUME job200 = None PROVE BeforeFirstJob'
    BY <1>1 DEF BeforeFirstJob
  <2>1. ~LoadJob /\ ~MineHit
    <3>1. jobToggle[3] \in BOOLEAN /\ lastJob \in BOOLEAN
      BY <1>0 DEF TypeOK
    <3>2. ~jobToggle[3] /\ ~lastJob /\ activeJob = None
      BY <1>0 DEF BeforeFirstJob
    <3>3. ~LoadJob
      BY <3>1, <3>2 DEF LoadJob, JobEvent, JobToggleOut
    <3> QED
      BY <3>2, <3>3, HitOwnTag
  <2>2. ~lastJob' /\ activeJob' = None
    BY <1>0, <1>1, <2>1 DEF BeforeFirstJob, MineNoHit, ResetEngine
  <2>3. hold'.job \notin Jobs /\ oldHold'.job \notin Jobs
    BY <1>0, <1>2, <1>3, <2>1 DEF BeforeFirstJob
  <2>4. \A i \in 1 .. 3 : ~jobToggle'[i]
    BY <1>0, <1>1 DEF BeforeFirstJob
  <2> QED
    BY <1>0, <1>1, <2>2, <2>3, <2>4 DEF BeforeFirstJob
<1>6. ShareIsPulse'
  BY <1>0, <1>1 DEF ShareIsPulse, TagOf
<1> QED
  BY <1>4, <1>5, <1>6

LEMMA ScannerStep ==
  ASSUME TopInv, Edge200
  PROVE  PipeIsActive' /\ CandidatesOwnTag' /\ BeforeFirstJob' /\ ShareIsPulse'
<1>0. TypeOK /\ CandidatesOwnTag /\ BeforeFirstJob /\ ShareIsPulse
  BY DEF TopInv
<1>1. /\ UNCHANGED <<jobToggle, lastJob, activeJob, pipe, hold, candToggle>>
      /\ oldHold' = NoCandidate
      /\ JobPulse \/ Emit \/ LoadCandidate \/ AwaitMailbox
      /\ shareReady' = (shareReady /\ ~shareValid)
      /\ candBus'[1] \in {hold, oldHold} \cup Mixtures
      /\ candBus'[2] = candBus[1]
  BY <1>0, Edge200Does DEF engineVars, holdVars
<1>2. NoCandidate.job \notin Jobs /\ \A c \in Mixtures : c.job \notin Jobs
  BY JobAssumption DEF NoCandidate, Mixtures
<1>3. /\ scan' \in {scan, candBus[2], NoCandidate}
      /\ share' \in {scan, NoCandidate}
  BY <1>1 DEF JobPulse, Emit, LoadCandidate, AwaitMailbox, AfterEmit, EndScan,
     NoShare
<1>4. PipeIsActive'
  BY <1>1 DEF TopInv, PipeIsActive
<1>5. CandidatesOwnTag'
  <2>1. OwnTag(NoCandidate) /\ \A c \in Mixtures : OwnTag(c)
    BY <1>2 DEF OwnTag
  <2>2. OwnTag(candBus'[1]) /\ OwnTag(candBus'[2])
    BY <1>0, <1>1, <2>1 DEF CandidatesOwnTag
  <2>3. OwnTag(scan') /\ OwnTag(share') /\ OwnTag(hold') /\ OwnTag(oldHold')
    BY <1>0, <1>1, <1>3, <2>1 DEF CandidatesOwnTag
  <2> QED
    BY <2>2, <2>3 DEF CandidatesOwnTag, OwnTag
<1>6. BeforeFirstJob'
  <2> SUFFICES ASSUME job200' = None PROVE BeforeFirstJob'
    BY DEF BeforeFirstJob
  <2>1. ~JobPulse
    BY JobAssumption DEF JobPulse
  <2>2. UNCHANGED <<job200, jobSeen, jobFresh>>
    BY <1>1, <2>1 DEF Emit, LoadCandidate, AwaitMailbox, job200Vars
  <2>3. candBus'[1].job \notin Jobs /\ candBus'[2].job \notin Jobs
    BY <1>0, <1>1, <1>2, <2>2 DEF BeforeFirstJob
  <2>4. scan'.job \notin Jobs /\ share'.job \notin Jobs
    BY <1>0, <1>2, <1>3, <2>2 DEF BeforeFirstJob
  <2> QED
    BY <1>0, <1>1, <1>2, <2>2, <2>3, <2>4 DEF BeforeFirstJob
<1>7. ShareIsPulse'
  <2> SUFFICES ASSUME shareValid' PROVE ShareIsPulse'
    BY DEF ShareIsPulse
  <2>1. Emit
    BY <1>1 DEF JobPulse, LoadCandidate, AwaitMailbox, NoShare
  <2>2. /\ scanValid /\ scan.tag = TagOf(job200) /\ shareReady
        /\ share' = scan /\ scanValid' = FALSE /\ job200' = job200
    BY <2>1 DEF Emit, ScanPass, AfterEmit, EndScan, job200Vars
  <2>3. ~shareValid
    BY <1>0, <2>2 DEF ShareIsPulse
  <2> QED
    BY <1>1, <2>2, <2>3 DEF ShareIsPulse, TagOf
<1> QED
  BY <1>4, <1>5, <1>6, <1>7

LEMMA StepTop == TopInv /\ [Next]_vars => TopInv'
<1> SUFFICES ASSUME TopInv, [Next]_vars PROVE TopInv'
  OBVIOUS
<1>0. TypeOK'
  BY StepTypes DEF TopInv
<1>1. CASE MiningEdge
  <2>1. PipeIsActive'
    BY <1>1, PipeStep DEF MiningEdge
  <2> QED
    BY <1>0, <1>1, <2>1, MiningStep DEF TopInv
<1>2. CASE Edge200
  BY <1>0, <1>2, ScannerStep DEF TopInv
<1>3. CASE HostTakes \/ UNCHANGED vars
  <2>1. /\ UNCHANGED <<job200, jobSeen, jobFresh, jobToggle, lastJob,
                       activeJob, pipe, hold, oldHold, candBus, scanValid,
                       scan, shareValid, share>>
        /\ shareReady => shareReady'
    BY <1>3 DEF HostTakes, vars, job200Vars, engineVars, holdVars, scanVars
  <2> QED
    BY <1>0, <2>1 DEF TopInv, PipeIsActive, CandidatesOwnTag, OwnTag,
       BeforeFirstJob, ShareIsPulse, TagOf
<1> QED
  BY <1>1, <1>2, <1>3 DEF Next

LEMMA TopInvariant == Spec => []TopInv
  BY InitTop, StepTop, PTL DEF Spec

(* A share is handed over only to an empty mailbox, also after a loss of   *)
(* lock and however fast candidates are found.                             *)
THEOREM MinerShareKept == Spec => []NoShareDropped
<1>1. TopInv => NoShareDropped
  BY DEF TopInv, ShareIsPulse, NoShareDropped
<1> QED
  BY <1>1, TopInvariant, PTL

(* The tag that is compared tells the current job from every other.        *)
LEMMA CurrentByTag == TagsDistinct /\ TopInv => EmittedIsCurrent
<1> SUFFICES ASSUME TagsDistinct, TopInv, shareValid PROVE EmittedIsCurrent
  BY DEF EmittedIsCurrent
<1>1. share.tag = TagOf(job200)
  BY DEF TopInv, ShareIsPulse
<1>2. share.job \in Jobs => share.job = job200
  <2> SUFFICES ASSUME share.job \in Jobs PROVE share.job = job200
    OBVIOUS
  <2>1. job200 \in Jobs
    BY DEF TopInv, TypeOK, BeforeFirstJob
  <2>2. Tag[share.job] = Tag[job200]
    BY <1>1, <2>1, TagOfJob DEF TopInv, CandidatesOwnTag, OwnTag
  <2> QED
    BY <2>1, <2>2 DEF TagsDistinct
<1> QED
  BY <1>1, <1>2 DEF EmittedIsCurrent

(* Where the jobs under way have different tags, no share of an older job  *)
(* reaches the mailbox, also after a loss of lock.                         *)
THEOREM MinerShareCurrent == TagsDistinct => (Spec => []EmittedIsCurrent)
<1> SUFFICES ASSUME TagsDistinct PROVE Spec => []EmittedIsCurrent
  OBVIOUS
<1>1. TopInv => EmittedIsCurrent
  BY CurrentByTag
<1> QED
  BY <1>1, TopInvariant, PTL

-----------------------------------------------------------------------------
(* The crossing of a job.                                                  *)

LEMMA InitCrossing == Init => JobCrossing
<1> SUFFICES ASSUME Init PROVE JobCrossing
  OBVIOUS
<1>1. /\ jobToggle[1] = FALSE /\ jobToggle[2] = FALSE /\ jobToggle[3] = FALSE
      /\ lastJob = FALSE /\ jobFresh = FALSE /\ activeJob = None
  BY DEF Init
<1>2. activeJob # Mixed
  BY <1>1, JobAssumption
<1> QED
  BY <1>1, <1>2 DEF JobCrossing

LEMMA CrossingStep ==
  ~MayReset /\ TypeOK /\ JobCrossing /\ [Next]_vars => JobCrossing'
<1> SUFFICES ASSUME ~MayReset, TypeOK, JobCrossing, [Next]_vars
             PROVE  JobCrossing'
  OBVIOUS
<1>0. /\ jobSeen \in BOOLEAN /\ lastJob \in BOOLEAN
      /\ jobToggle[1] \in BOOLEAN /\ jobToggle[2] \in BOOLEAN
      /\ jobToggle[3] \in BOOLEAN /\ job200 # Mixed
  BY JobAssumption DEF TypeOK
<1>1. CASE MiningEdge
  <2>1. /\ UNCHANGED <<job200, jobSeen>> /\ jobFresh' = FALSE
        /\ LoadJob \/ MineNoHit \/ MineHit
        /\ jobToggle'[1] \in BOOLEAN
        /\ ~jobFresh => jobToggle'[1] = jobSeen /\ jobBus'[1] = job200
        /\ jobToggle'[2] = jobToggle[1] /\ jobToggle'[3] = jobToggle[2]
        /\ jobBus'[2] = jobBus[1]
    BY <1>1, MiningEdgeDoes DEF job200Vars, ResetEngine
  <2>2. CASE LoadJob
    <3>1. /\ jobToggle[3] # lastJob /\ lastJob' = jobToggle[3]
          /\ activeJob' = jobBus[2]
      BY <2>2 DEF LoadJob, JobEvent, JobToggleOut
    <3>2. /\ ~jobFresh /\ activeJob' = job200
          /\ jobToggle[1] = jobSeen /\ jobToggle[2] = jobSeen
          /\ jobToggle[3] = jobSeen
      BY <1>0, <3>1 DEF JobCrossing
    <3> QED
      BY <1>0, <2>1, <3>1, <3>2 DEF JobCrossing
  <2>3. CASE MineNoHit \/ MineHit
    <3>1. lastJob' = lastJob /\ activeJob' = activeJob
      BY <2>3 DEF MineNoHit, MineHit
    <3>2. CASE jobFresh
      BY <1>0, <2>1, <3>1, <3>2 DEF JobCrossing
    <3>3. CASE ~jobFresh
      BY <1>0, <2>1, <3>1, <3>3 DEF JobCrossing
    <3> QED
      BY <3>2, <3>3
  <2> QED
    BY <2>1, <2>2, <2>3
<1>2. CASE Edge200
  <2>1. UNCHANGED <<jobBus, jobToggle, lastJob, activeJob>>
    BY <1>2, Edge200Does DEF engineVars
  <2>2. CASE JobPulse
    <3>1. /\ lastJob = jobSeen /\ \A i \in 1 .. 3 : jobToggle[i] = jobSeen
          /\ jobSeen' = ~jobSeen
      BY <2>2 DEF JobPulse, PreviousJobSettled
    <3> QED
      BY <1>0, <2>1, <3>1 DEF JobCrossing
  <2>3. CASE UNCHANGED <<job200, jobSeen, jobFresh>>
    BY <2>1, <2>3 DEF JobCrossing
  <2> QED
    BY <1>2, <2>2, <2>3, Edge200Does DEF Emit, LoadCandidate, AwaitMailbox,
       job200Vars
<1>3. CASE HostTakes \/ UNCHANGED vars
  BY <1>3 DEF HostTakes, vars, job200Vars, engineVars, JobCrossing
<1> QED
  BY <1>1, <1>2, <1>3 DEF Next

(* Without a loss of lock the engine never mines a mixture of two jobs:    *)
(* the toggle of pulse_sync takes one flip-flop more than the job bus.     *)
THEOREM MinerJobWhole == ~MayReset => (Spec => []NoTornJob)
<1> SUFFICES ASSUME ~MayReset PROVE Spec => []NoTornJob
  OBVIOUS
<1>1. Init => TypeOK /\ JobCrossing
  BY InitTypes, InitCrossing
<1>2. TypeOK /\ JobCrossing /\ [Next]_vars => TypeOK' /\ JobCrossing'
  BY StepTypes, CrossingStep
<1>3. JobCrossing => NoTornJob
  BY DEF JobCrossing, NoTornJob
<1> QED
  BY <1>1, <1>2, <1>3, PTL DEF Spec

-----------------------------------------------------------------------------
(* The crossing of a candidate.                                            *)

LEMMA InitCandidate == Init => CandidateCrossing
<1> SUFFICES ASSUME Init PROVE CandidateCrossing
  OBVIOUS
<1>1. /\ candSync[1] = FALSE /\ candSync[2] = FALSE /\ candSync[3] = FALSE
      /\ seen = FALSE /\ candToggle = FALSE /\ candFresh = FALSE
      /\ scanValid = FALSE /\ shareValid = FALSE
  BY DEF Init
<1> QED
  BY <1>1 DEF CandidateCrossing

(* The synchronisers move on, with what the scanner took from them.        *)
LEMMA CandidateShifts ==
  ASSUME TypeOK, CandidateCrossing, Edge200,
         seen' = seen \/ seen' = candSync[3]
  PROVE  /\ ~candFresh'
         /\ candSync'[3] # seen' => candSync'[2] # seen' /\ candBus'[2] = hold
         /\ candSync'[2] # seen' => candSync'[1] # seen' /\ candBus'[1] = hold
         /\ candSync'[1] # seen' => candToggle # seen'
         /\ seen' # seen => candBus[2] = hold /\ candToggle # seen
                            /\ candToggle = seen'
         /\ candToggle = seen => seen' = seen
<1>0. /\ seen \in BOOLEAN /\ candToggle \in BOOLEAN
      /\ candSync[1] \in BOOLEAN /\ candSync[2] \in BOOLEAN
      /\ candSync[3] \in BOOLEAN
  BY DEF TypeOK
<1>1. /\ candFresh' = FALSE /\ candSync'[1] \in BOOLEAN
      /\ ~candFresh => candSync'[1] = candToggle /\ candBus'[1] = hold
      /\ candSync'[2] = candSync[1] /\ candSync'[3] = candSync[2]
      /\ candBus'[2] = candBus[1]
  BY Edge200Does
<1>2. CASE seen' = seen
  <2>1. CASE candFresh
    BY <1>0, <1>1, <1>2, <2>1 DEF CandidateCrossing
  <2>2. CASE ~candFresh
    BY <1>0, <1>1, <1>2, <2>2 DEF CandidateCrossing
  <2> QED
    BY <2>1, <2>2
<1>3. CASE seen' # seen
  <2>1. /\ seen' = candSync[3] /\ ~candFresh
        /\ candSync[1] = candToggle /\ candSync[2] = candToggle
        /\ candSync[3] = candToggle /\ candToggle # seen
        /\ candBus[2] = hold
    BY <1>0, <1>3 DEF CandidateCrossing
  <2> QED
    BY <1>0, <1>1, <2>1
<1> QED
  BY <1>2, <1>3

LEMMA CandidateStep ==
  ASSUME KeepsUp, ~MayReset, TopInv, JobCrossing, CandidateCrossing,
         [Next]_vars
  PROVE  CandidateCrossing'
<1>0. /\ seen \in BOOLEAN /\ candToggle \in BOOLEAN /\ TypeOK
      /\ candSync[1] \in BOOLEAN /\ candSync[2] \in BOOLEAN
      /\ candSync[3] \in BOOLEAN
  BY DEF TopInv, TypeOK
<1>1. CASE MiningEdge
  <2>1. UNCHANGED <<candBus, candSync, seen, scanValid, scan, shareValid,
                    share>>
    BY <1>0, <1>1, MiningEdgeDoes DEF scanVars
  <2>2. CASE LoadJob \/ MineNoHit
    <3>1. UNCHANGED <<hold, candToggle, candFresh>>
      BY <2>2 DEF LoadJob, MineNoHit, holdVars
    <3> QED
      BY <2>1, <3>1 DEF CandidateCrossing
  <2>3. CASE MineHit
    <3>1. /\ seen = candToggle /\ \A i \in 1 .. 3 : candSync[i] = candToggle
          /\ ~scanValid /\ ~shareValid
          /\ candToggle' = ~candToggle /\ candFresh' = TRUE
      BY <2>3 DEF MineHit, NothingPending
    <3>2. hold'.job = pipe[Depth] /\ pipe[Depth] # None
      BY <2>3 DEF MineHit
    <3>3. pipe[Depth] = activeJob /\ activeJob # Mixed
      BY <3>2, DepthAssumption DEF TopInv, PipeIsActive, JobCrossing
    <3>4. hold'.job \in Jobs
      BY <3>2, <3>3 DEF TopInv, TypeOK
    <3> QED
      BY <1>0, <2>1, <3>1, <3>4 DEF CandidateCrossing
  <2> QED
    BY <1>0, <1>1, <2>2, <2>3, MiningEdgeDoes DEF ResetEngine
<1>2. CASE Edge200
  <2>1. /\ UNCHANGED <<hold, candToggle>>
        /\ JobPulse \/ Emit \/ LoadCandidate \/ AwaitMailbox
    BY <1>0, <1>2, Edge200Does DEF holdVars
  <2>2. seen' = seen \/ seen' = candSync[3]
    BY <2>1 DEF JobPulse, Emit, LoadCandidate, AwaitMailbox, CandToggleOut
  <2>3. /\ ~candFresh'
        /\ candSync'[3] # seen' => candSync'[2] # seen' /\ candBus'[2] = hold
        /\ candSync'[2] # seen' => candSync'[1] # seen' /\ candBus'[1] = hold
        /\ candSync'[1] # seen' => candToggle # seen'
        /\ seen' # seen => candBus[2] = hold /\ candToggle # seen
                           /\ candToggle = seen'
        /\ candToggle = seen => seen' = seen
    BY <1>0, <1>2, <2>2, CandidateShifts
  <2>4. scanValid' => /\ candToggle = seen' /\ scan' = hold
                      /\ hold.job \in Jobs
    <3>1. CASE JobPulse \/ Emit
      BY <3>1 DEF JobPulse, Emit, AfterEmit, EndScan
    <3>2. CASE LoadCandidate
      <4>1. scanValid' => seen' # seen /\ scan' = candBus[2]
        BY <3>2 DEF LoadCandidate, EndScan
      <4> QED
        BY <2>3, <4>1 DEF CandidateCrossing
    <3>3. CASE AwaitMailbox
      BY <2>3, <3>3 DEF AwaitMailbox, CandidateCrossing
    <3> QED
      BY <2>1, <3>1, <3>2, <3>3
  <2>5. shareValid' => /\ candToggle = seen' /\ share' = hold
                       /\ hold.job \in Jobs
    <3>1. CASE Emit
      BY <2>3, <3>1 DEF Emit, ScanPass, CandidateCrossing
    <3>2. CASE JobPulse \/ LoadCandidate \/ AwaitMailbox
      BY <3>2 DEF JobPulse, LoadCandidate, AwaitMailbox, NoShare
    <3> QED
      BY <2>1, <3>1, <3>2
  <2>6. candToggle # seen' => hold.job \in Jobs
    BY <2>3 DEF CandidateCrossing
  <2> QED
    BY <2>1, <2>3, <2>4, <2>5, <2>6 DEF CandidateCrossing
<1>3. CASE HostTakes \/ UNCHANGED vars
  BY <1>3 DEF HostTakes, vars, holdVars, scanVars, CandidateCrossing
<1> QED
  BY <1>1, <1>2, <1>3 DEF Next

(* Where candidates are judged as fast as they are found and the clock     *)
(* never fails, a share is a whole candidate of the current job.           *)
THEOREM MinerShareGenuine ==
  TagsDistinct /\ KeepsUp /\ ~MayReset => (Spec => []EmittedIsGenuine)
<1> SUFFICES ASSUME TagsDistinct, KeepsUp, ~MayReset
             PROVE  Spec => []EmittedIsGenuine
  OBVIOUS
<1> DEFINE Inv == TopInv /\ JobCrossing /\ CandidateCrossing
<1>1. Init => Inv
  BY InitTop, InitCrossing, InitCandidate
<1>2. Inv /\ [Next]_vars => Inv'
  BY StepTop, CrossingStep, CandidateStep DEF TopInv
<1>3. Inv => EmittedIsGenuine
  BY CurrentByTag DEF CandidateCrossing, EmittedIsCurrent, EmittedIsGenuine
<1> QED
  BY <1>1, <1>2, <1>3, PTL DEF Spec
=============================================================================
