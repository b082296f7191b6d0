---------------------------- MODULE CanaryProofs ----------------------------
(***************************************************************************)
(* Proofs about the qualification runner for any set of devices: wherever  *)
(* it fails, is interrupted or loses its programming bridge, what is left  *)
(* on the board is what the report says.                                   *)
(***************************************************************************)
EXTENDS Canary, TLAPS

-----------------------------------------------------------------------------
(* The inductive invariant.                                                *)

BeforeProgram == {"preflight", "probe", "program"}
AfterVerdict == {"exiting", "disarmed", "cleanup", "restoring", "report",
                 "exited"}

(* Nothing on the board changes before the attempt is noted.               *)
UntouchedBefore ==
  /\ pc \in BeforeProgram => ~attempted
  /\ pc \in {"loading", "xvc", "mining", "classify", "restoring"} => attempted
  /\ ~attempted => /\ bridge = Off /\ loaded = {} /\ ~orphan /\ ~programmed
                   /\ \A d \in Devices : image[d] = "previous"

(* Which bridge can be running where the shell is.                         *)
BridgeFollowsShell ==
  /\ bridge = "candidate" =>
       pc \in {"loading", "exiting", "disarmed", "exited"}
  /\ bridge = "qualified" => pc = "restoring"
  /\ report # "none" => pc = "exited" /\ bridge = Off

(* What its log says is loaded is on the devices, unless another bridge,   *)
(* which nobody stops, is at work.                                         *)
LoadedIsOnBoard ==
  /\ pc = "restoring" /\ ~orphan => \A d \in loaded : image[d] = "qualified"
  /\ pc # "restoring" /\ ~orphan /\ rollback = "not-needed" =>
       \A d \in loaded : image[d] = "candidate"

(* IMAGE_PROGRAMMED, until a rollback clears it.                           *)
ProgrammedIsLoaded ==
  /\ pc \in {"xvc", "mining", "classify"} => programmed
  /\ pc = "loading" => ~programmed
  /\ programmed \/ pc \in Guarded => ~orphan
  /\ programmed /\ pc # "restoring" /\ rollback = "not-needed" =>
       loaded = Devices /\ bridge = Off

(* A rollback is run when it has to be, and passes on a restored board.    *)
RollbackIsDone ==
  /\ pc = "restoring" => MustRollBack
  /\ rollback # "not-needed" => pc \in {"report", "exited"}
  /\ (pc = "report" \/ report # "none") /\ MustRollBack =>
       rollback # "not-needed"
  /\ rollback = "pass" =>
       bridge = Off /\ (orphan \/ \A d \in Devices : image[d] = "qualified")

(* Exit code 0 is that of --build-only or of a complete canary.            *)
SuccessIsQualified ==
  /\ pc \in Guarded => status = 0
  /\ pc \in {"complete"} \cup AfterVerdict /\ status = 0 =>
       ~attempted \/ (Qualifies /\ programmed)

(* What the last line said when it was written.                            *)
ReportFollowsRollback ==
  /\ report = "restored" => rollback = "pass"
  /\ report = "candidate resident" => rollback = "not-needed" /\ programmed
  /\ report = "unchanged" => rollback = "not-needed" /\ ~programmed

CanaryInv ==
  /\ TypeOK
  /\ UntouchedBefore /\ BridgeFollowsShell /\ LoadedIsOnBoard
  /\ ProgrammedIsLoaded /\ RollbackIsDone /\ SuccessIsQualified
  /\ ReportFollowsRollback

-----------------------------------------------------------------------------
(* The invariant holds at the start.                                       *)
LEMMA InitCanary == Init => CanaryInv
  BY DEF Init, CanaryInv, TypeOK, UntouchedBefore, BridgeFollowsShell,
     LoadedIsOnBoard, ProgrammedIsLoaded, RollbackIsDone, SuccessIsQualified,
     BeforeProgram, AfterVerdict, Guarded, Phases, Off, MustRollBack,
     ReportFollowsRollback

(* Wherever the script dies, the trap finds the invariant.                 *)
LEMMA Dies ==
  ASSUME CanaryInv, pc \in Guarded,
         pc' = "exiting", status' \in {1, 130},
         accepted' \subseteq Devices, rejected' \in BOOLEAN,
         mismatch' \in BOOLEAN,
         UNCHANGED <<flags, boardVars, report>>
  PROVE  CanaryInv'
<1>1. UNCHANGED <<attempted, programmed, rollback, bridge, loaded, orphan,
                  image, report>>
  BY DEF flags, boardVars
<1>2. status' # 0 /\ pc' \notin Guarded
  BY DEF Guarded
<1>3. TypeOK' /\ UntouchedBefore' /\ BridgeFollowsShell'
  BY <1>1 DEF CanaryInv, TypeOK, Phases, Off, Guarded, UntouchedBefore,
     BeforeProgram, BridgeFollowsShell
<1>4. LoadedIsOnBoard' /\ ProgrammedIsLoaded'
  BY <1>1 DEF CanaryInv, Guarded, LoadedIsOnBoard, ProgrammedIsLoaded, Off
<1>5. RollbackIsDone'
  BY <1>1 DEF CanaryInv, Guarded, RollbackIsDone, MustRollBack, Off,
     BridgeFollowsShell
<1>6. SuccessIsQualified'
  BY <1>2 DEF SuccessIsQualified
<1>7. ReportFollowsRollback'
  BY <1>1 DEF CanaryInv, ReportFollowsRollback
<1> QED
  BY <1>3, <1>4, <1>5, <1>6, <1>7 DEF CanaryInv

(* A check that passes, before the attempt or while mining.                *)
LEMMA Checks ==
  ASSUME CanaryInv,
         \/ pc = "preflight" /\ pc' \in {"probe", "complete"}
         \/ pc = "probe" /\ pc' = "program"
         \/ pc = "xvc" /\ pc' = "mining"
         \/ pc = "mining" /\ pc' = "classify"
         \/ pc = "classify" /\ pc' = "complete" /\ Qualifies'
         \/ pc = "complete" /\ pc' = "exiting",
         accepted' \subseteq Devices, rejected' \in BOOLEAN,
         mismatch' \in BOOLEAN,
         pc # "mining" => UNCHANGED logVars,
         UNCHANGED <<status, flags, boardVars, report>>
  PROVE  CanaryInv'
<1>1. /\ UNCHANGED <<status, attempted, programmed, rollback, bridge, loaded,
                     orphan, image, report>>
      /\ pc # "mining" => UNCHANGED <<accepted, rejected, mismatch>>
  BY DEF flags, boardVars, logVars
<1>2. status = 0
  BY DEF CanaryInv, SuccessIsQualified, Guarded
<1>3. TypeOK' /\ BridgeFollowsShell'
  BY <1>1 DEF CanaryInv, TypeOK, Phases, Off, BridgeFollowsShell
<1>4. UntouchedBefore'
  BY <1>1 DEF CanaryInv, UntouchedBefore, BeforeProgram
<1>5. LoadedIsOnBoard' /\ ProgrammedIsLoaded'
  <2>1. LoadedIsOnBoard'
    BY <1>1 DEF CanaryInv, LoadedIsOnBoard
  <2>2. pc \in Guarded /\ pc # "loading"
    BY DEF Guarded
  <2>3. ProgrammedIsLoaded'
    BY <1>1, <2>2 DEF CanaryInv, ProgrammedIsLoaded, Off
  <2> QED
    BY <2>1, <2>3
<1>6. RollbackIsDone'
  BY <1>1, <1>2 DEF CanaryInv, RollbackIsDone, MustRollBack
<1>7. SuccessIsQualified'
  <2>1. CASE pc = "complete"
    BY <1>1, <1>2, <2>1 DEF CanaryInv, SuccessIsQualified, Qualifies, Guarded
  <2>2. CASE pc = "classify"
    BY <1>1, <1>2, <2>2 DEF CanaryInv, SuccessIsQualified, AfterVerdict,
       ProgrammedIsLoaded
  <2>3. CASE pc = "preflight"
    BY <1>1, <1>2, <2>3 DEF CanaryInv, SuccessIsQualified, UntouchedBefore,
       BeforeProgram
  <2>4. CASE pc \in {"probe", "xvc", "mining"}
    BY <1>1, <1>2, <2>4 DEF SuccessIsQualified, AfterVerdict
  <2> QED
    BY <2>1, <2>2, <2>3, <2>4
<1>8. ReportFollowsRollback'
  BY <1>1 DEF CanaryInv, ReportFollowsRollback
<1> QED
  BY <1>3, <1>4, <1>5, <1>6, <1>7, <1>8 DEF CanaryInv

(* The attempt is noted and the bridge started.                            *)
LEMMA ProgramStep == ASSUME CanaryInv, Program PROVE CanaryInv'
<1> USE DEF CanaryInv, TypeOK, UntouchedBefore, BridgeFollowsShell,
     LoadedIsOnBoard, ProgrammedIsLoaded, RollbackIsDone, SuccessIsQualified,
     ReportFollowsRollback, BeforeProgram, AfterVerdict, Guarded, Phases, Off,
     MustRollBack, Qualifies, flags, boardVars, logVars
<1> QED
  BY DEF Program, MarkAttempt, StartBridge, GoOn

(* Every device reports the candidate loaded.                              *)
LEMMA LoadedStep == ASSUME CanaryInv, Loaded PROVE CanaryInv'
<1> USE DEF CanaryInv, TypeOK, UntouchedBefore, BridgeFollowsShell,
     LoadedIsOnBoard, ProgrammedIsLoaded, RollbackIsDone, SuccessIsQualified,
     ReportFollowsRollback, BeforeProgram, AfterVerdict, Guarded, Phases, Off,
     MustRollBack, Qualifies, flags, boardVars, logVars
<1> QED
  BY DEF Loaded, AllLoaded, StopBridge, GoOn

(* A step of the script, up to its verdict or to the line where it dies.   *)
LEMMA ScriptStep ==
  ASSUME CanaryInv,
         \/ Preflight \/ Complete \/ Probe \/ Program \/ Loaded \/ LoadFails
         \/ StartXvc \/ Mine \/ Classify \/ Signal
  PROVE  CanaryInv'
<1>0. /\ accepted \subseteq Devices /\ rejected \in BOOLEAN
      /\ mismatch \in BOOLEAN
      /\ pc \in Guarded => status = 0
  BY DEF CanaryInv, TypeOK, SuccessIsQualified
<1> USE <1>0, Dies, Checks DEF Exit, GoOn, Guarded, logVars
<1>1. CASE Preflight
  BY <1>1 DEF Preflight, CheckThen
<1>2. CASE Complete
  BY <1>2 DEF Complete
<1>3. CASE Probe
  BY <1>3 DEF Probe, CheckThen
<1>4. CASE Program
  BY <1>4, ProgramStep
<1>5. CASE Loaded
  BY <1>5, LoadedStep
<1>6. CASE LoadFails
  BY <1>6 DEF LoadFails, GivesUp
<1>7. CASE StartXvc
  BY <1>7 DEF StartXvc, CheckThen
<1>8. CASE Mine
  BY <1>8 DEF Mine
<1>9. CASE Classify
  BY <1>9 DEF Classify, Qualifies
<1>10. CASE Signal
  BY <1>10 DEF Signal
<1> QED
  BY <1>1, <1>2, <1>3, <1>4, <1>5, <1>6, <1>7, <1>8, <1>9, <1>10

(* The rollback starts, or fails before its bridge runs.                   *)
LEMMA StartRollbackStep == ASSUME CanaryInv, StartRollback PROVE CanaryInv'
<1>1. /\ pc = "cleanup" /\ MustRollBack /\ bridge # "candidate"
      /\ bridge # "qualified" /\ bridge = "off" /\ report = "none"
      /\ UNCHANGED <<status, attempted, programmed, orphan, image, accepted,
                     rejected, mismatch, report>>
  BY DEF CanaryInv, TypeOK, BridgeFollowsShell, Off, StartRollback,
     StartBridge, boardVars, logVars, GoOn
<1>2. \/ /\ bridge' = "qualified" /\ loaded' = {} /\ pc' = "restoring"
         /\ rollback' = rollback
      \/ /\ rollback' = "fail" /\ pc' = "report"
         /\ UNCHANGED <<bridge, loaded>>
  BY DEF StartRollback, StartBridge, boardVars, GoOn
<1>3. TypeOK' /\ BridgeFollowsShell'
  BY <1>1, <1>2 DEF CanaryInv, TypeOK, BridgeFollowsShell, Off, Phases
<1>4. UntouchedBefore'
  BY <1>1, <1>2 DEF CanaryInv, UntouchedBefore, BeforeProgram, MustRollBack
<1>5. LoadedIsOnBoard'
  BY <1>1, <1>2 DEF LoadedIsOnBoard
<1>6. ProgrammedIsLoaded'
  BY <1>1, <1>2 DEF CanaryInv, ProgrammedIsLoaded, Guarded, Off
<1>7. RollbackIsDone'
  BY <1>1, <1>2 DEF CanaryInv, RollbackIsDone, MustRollBack
<1>8. SuccessIsQualified'
  BY <1>1, <1>2 DEF SuccessIsQualified, MustRollBack, Guarded
<1>9. ReportFollowsRollback'
  BY <1>1, <1>2 DEF ReportFollowsRollback
<1> QED
  BY <1>3, <1>4, <1>5, <1>6, <1>7, <1>8, <1>9 DEF CanaryInv

(* A signal while the bridge is started, or before cleanup ignores signals.*)
LEMMA SignalStep ==
  ASSUME CanaryInv, SignalAtLaunch \/ SignalInCleanup PROVE CanaryInv'
<1>1. /\ status' = 130 /\ pc' \in {"exiting", "exited"}
      /\ \/ pc = "program" /\ pc' = "exiting" /\ attempted' = TRUE
         \/ /\ pc \in {"exiting", "disarmed"} /\ pc' = "exited"
            /\ UNCHANGED <<attempted, orphan>>
      /\ orphan' \in BOOLEAN
      /\ UNCHANGED <<programmed, rollback, bridge, loaded, image, accepted,
                     rejected, mismatch, report>>
  BY DEF CanaryInv, TypeOK, SignalAtLaunch, SignalInCleanup, MarkAttempt, Exit,
     flags, boardVars, logVars
<1>2. pc' \notin Guarded /\ pc \notin {"report", "exited", "restoring"}
  BY <1>1 DEF Guarded
<1>3. report = "none" /\ rollback = "not-needed"
  BY <1>2 DEF CanaryInv, BridgeFollowsShell, RollbackIsDone
<1>4. pc = "program" =>
        /\ bridge = "off" /\ loaded = {} /\ ~programmed
        /\ \A d \in Devices : image[d] = "previous"
  BY DEF CanaryInv, UntouchedBefore, BeforeProgram, Off
<1>5. TypeOK'
  BY <1>1 DEF CanaryInv, TypeOK, Phases
<1>6. UntouchedBefore' /\ BridgeFollowsShell'
  BY <1>1, <1>3, <1>4 DEF CanaryInv, UntouchedBefore, BeforeProgram,
     BridgeFollowsShell, Off
<1>7. LoadedIsOnBoard' /\ ProgrammedIsLoaded'
  BY <1>1, <1>2, <1>4 DEF CanaryInv, LoadedIsOnBoard, ProgrammedIsLoaded, Off,
     Guarded
<1>8. RollbackIsDone' /\ ReportFollowsRollback'
  BY <1>1, <1>3 DEF RollbackIsDone, ReportFollowsRollback
<1>9. SuccessIsQualified'
  BY <1>1, <1>2 DEF SuccessIsQualified
<1> QED
  BY <1>5, <1>6, <1>7, <1>8, <1>9 DEF CanaryInv

(* A step of the EXIT trap, or a signal that finds it half done.           *)
LEMMA CleanupStep ==
  ASSUME CanaryInv,
         \/ DisarmExitTrap \/ IgnoreSignals \/ SkipRollback \/ StartRollback
         \/ RollbackPasses \/ RollbackFails \/ Report
         \/ SignalAtLaunch \/ SignalInCleanup
  PROVE  CanaryInv'
<1> USE DEF CanaryInv, TypeOK, UntouchedBefore, BridgeFollowsShell,
     LoadedIsOnBoard, ProgrammedIsLoaded, RollbackIsDone, SuccessIsQualified,
     ReportFollowsRollback, BeforeProgram, AfterVerdict, Guarded, Phases, Off,
     MustRollBack, Qualifies, flags, boardVars, logVars
<1>1. CASE DisarmExitTrap
  BY <1>1 DEF DisarmExitTrap, GoOn
<1>2. CASE IgnoreSignals
  BY <1>2 DEF IgnoreSignals, GoOn, StopBridge
<1>3. CASE SkipRollback
  BY <1>3 DEF SkipRollback, GoOn
<1>4. CASE StartRollback
  BY <1>4, StartRollbackStep
<1>5. CASE RollbackPasses
  BY <1>5 DEF RollbackPasses, GoOn, AllLoaded, StopBridge
<1>6. CASE RollbackFails
  BY <1>6 DEF RollbackFails, GoOn, GivesUp, StopBridge
<1>7. CASE Report
  BY <1>7 DEF Report, GoOn
<1>8. CASE SignalAtLaunch \/ SignalInCleanup
  BY <1>8, SignalStep
<1> QED
  BY <1>1, <1>2, <1>3, <1>4, <1>5, <1>6, <1>7, <1>8

(* A device is configured under the programming bridge: it is erased, or   *)
(* holds the bridge's image and is in the bridge's log.                    *)
LEMMA LoadStep ==
  ASSUME CanaryInv, NEW d \in Devices, BeginLoad(d) \/ FinishLoad(d)
  PROVE  CanaryInv'
<1>1. /\ bridge # "off" /\ d \notin loaded
      /\ \/ image' = [image EXCEPT ![d] = "erased"] /\ loaded' = loaded
         \/ image' = [image EXCEPT ![d] = bridge] /\ loaded' = loaded \cup {d}
      /\ UNCHANGED <<pc, status, attempted, programmed, rollback, bridge,
                     orphan, accepted, rejected, mismatch, report>>
  BY DEF BeginLoad, FinishLoad, flags, logVars, Off
<1>2. /\ image \in [Devices ->
                     {"previous", "erased", "candidate", "qualified"}]
      /\ bridge \in {"candidate", "qualified"} /\ loaded \subseteq Devices
      /\ attempted /\ rollback # "pass" /\ report = "none"
      /\ bridge = "qualified" <=> pc = "restoring"
  BY <1>1 DEF CanaryInv, TypeOK, Off, UntouchedBefore, RollbackIsDone,
     BridgeFollowsShell
<1>3. TypeOK'
  BY <1>1, <1>2 DEF CanaryInv, TypeOK
<1>4. UntouchedBefore' /\ BridgeFollowsShell'
  BY <1>1, <1>2 DEF CanaryInv, UntouchedBefore, BridgeFollowsShell
<1>5. \A e \in loaded' : \/ e \in loaded /\ image'[e] = image[e]
                         \/ e = d /\ image'[e] = bridge
  <2>1. CASE /\ image' = [image EXCEPT ![d] = "erased"]
             /\ loaded' = loaded
    BY <1>1, <1>2, <2>1
  <2>2. CASE /\ image' = [image EXCEPT ![d] = bridge]
             /\ loaded' = loaded \cup {d}
    BY <1>1, <1>2, <2>2
  <2> QED
    BY <1>1, <2>1, <2>2
<1>6. LoadedIsOnBoard'
  BY <1>1, <1>2, <1>5 DEF CanaryInv, LoadedIsOnBoard
<1>7. ProgrammedIsLoaded'
  BY <1>1, <1>2 DEF CanaryInv, ProgrammedIsLoaded, Off, Guarded
<1>8. RollbackIsDone' /\ ReportFollowsRollback'
  BY <1>1, <1>2 DEF CanaryInv, RollbackIsDone, MustRollBack,
     ReportFollowsRollback
<1>9. SuccessIsQualified'
  BY <1>1 DEF CanaryInv, SuccessIsQualified, AfterVerdict, Qualifies, Guarded
<1> QED
  BY <1>3, <1>4, <1>6, <1>7, <1>8, <1>9 DEF CanaryInv

(* A step of a programming bridge, watched or not.                         *)
LEMMA DeviceStep ==
  ASSUME CanaryInv, BridgeStep
  PROVE  CanaryInv'
<1> USE DEF CanaryInv, TypeOK, UntouchedBefore, BridgeFollowsShell,
     LoadedIsOnBoard, ProgrammedIsLoaded, RollbackIsDone, SuccessIsQualified,
     ReportFollowsRollback, BeforeProgram, AfterVerdict, Guarded, Phases, Off,
     MustRollBack, Qualifies, flags, boardVars, logVars
<1>1. CASE BridgeDies
  BY <1>1 DEF BridgeDies, StopBridge
<1>2. ASSUME NEW d \in Devices, BeginLoad(d) \/ FinishLoad(d)
      PROVE  CanaryInv'
  BY <1>2, LoadStep
<1>3. ASSUME NEW d \in Devices, OrphanLoads(d)
      PROVE  CanaryInv'
  <2>1. PICK img \in {"erased", "candidate"} :
          image' = [image EXCEPT ![d] = img]
    BY <1>3 DEF OrphanLoads
  <2>2. /\ orphan
        /\ UNCHANGED <<pc, status, attempted, programmed, rollback, bridge,
                       loaded, orphan, accepted, rejected, mismatch, report>>
    BY <1>3 DEF OrphanLoads
  <2>3. attempted /\ ~programmed
    BY <2>2
  <2>4. TypeOK'
    BY <2>1, <2>2
  <2> QED
    BY <2>2, <2>3, <2>4
<1> QED
  BY <1>1, <1>2, <1>3 DEF BridgeStep

(* The invariant is inductive.                                             *)
LEMMA StepCanary == CanaryInv /\ [Next]_vars => CanaryInv'
<1> SUFFICES ASSUME CanaryInv, [Next]_vars PROVE CanaryInv'
  OBVIOUS
<1>1. CASE UNCHANGED vars
  <2>1. UNCHANGED <<pc, status, attempted, programmed, rollback, bridge,
                    loaded, orphan, image, accepted, rejected, mismatch,
                    report>>
    BY <1>1 DEF vars, flags, boardVars, logVars
  <2>2. TypeOK' /\ UntouchedBefore' /\ BridgeFollowsShell'
    BY <2>1 DEF CanaryInv, TypeOK, UntouchedBefore, BridgeFollowsShell
  <2>3. LoadedIsOnBoard' /\ ProgrammedIsLoaded'
    BY <2>1 DEF CanaryInv, LoadedIsOnBoard, ProgrammedIsLoaded
  <2>4. RollbackIsDone' /\ ReportFollowsRollback'
    BY <2>1 DEF CanaryInv, RollbackIsDone, MustRollBack,
       ReportFollowsRollback
  <2>5. SuccessIsQualified'
    BY <2>1 DEF CanaryInv, SuccessIsQualified, Qualifies
  <2> QED
    BY <2>2, <2>3, <2>4, <2>5 DEF CanaryInv
<1>2. CASE Next
  BY <1>2, ScriptStep, CleanupStep, DeviceStep DEF Next, ShellStep
<1> QED
  BY <1>1, <1>2

-----------------------------------------------------------------------------
LEMMA CanaryInvariant == Spec => []CanaryInv
  BY InitCanary, StepCanary, PTL DEF Spec

(* Type correctness of the runner, for every set of devices.               *)
THEOREM CanaryTypes == Spec => []TypeOK
<1>1. CanaryInv => TypeOK
  BY DEF CanaryInv
<1> QED
  BY <1>1, CanaryInvariant, PTL

(* Wherever a step fails or a signal arrives, a board that was touched and *)
(* reported on holds the qualified image, or the rollback is known to have *)
(* failed (rollback_on_exit of the canary runner).                         *)
THEOREM CanaryRestores == Spec => []FailureRestores
<1>1. CanaryInv => FailureRestores
  BY DEF CanaryInv, FailureRestores, TypeOK, UntouchedBefore, RollbackIsDone,
     Exited, Touched, Restored, MustRollBack
<1> QED
  BY <1>1, CanaryInvariant, PTL

(* The last line about the resident image is true of every FPGA.           *)
THEOREM CanaryReport == Spec => []ReportIsTrue
<1>1. CanaryInv => ReportIsTrue
  BY DEF CanaryInv, ReportIsTrue, TypeOK, UntouchedBefore, RollbackIsDone,
     LoadedIsOnBoard, ProgrammedIsLoaded, SuccessIsQualified, AfterVerdict,
     ReportFollowsRollback, Exited, Touched, Restored, MustRollBack
<1> QED
  BY <1>1, CanaryInvariant, PTL

(* Only a candidate that mined shares on every FPGA, none of them rejected *)
(* or wrong, stays on the board when the runner succeeds.                  *)
THEOREM CanaryQualifies == Spec => []OnlyQualifiedStays
<1>1. CanaryInv => OnlyQualifiedStays
  BY DEF CanaryInv, OnlyQualifiedStays, UntouchedBefore, SuccessIsQualified,
     AfterVerdict, Exited, Touched, Qualifies
<1> QED
  BY <1>1, CanaryInvariant, PTL
=============================================================================
