------------------------------- MODULE Canary -------------------------------
(***************************************************************************)
(* The qualification runner run_jcm33_dualalign_btc3_650_canary.sh: it     *)
(* checks, programs both FPGAs with the 650 MHz candidate, mines, judges   *)
(* the log, and rolls back from its EXIT trap.  The shell, the programming *)
(* bridge it starts in the background and the signals it receives          *)
(* interleave.                                                             *)
(***************************************************************************)
EXTENDS FiniteSets

CONSTANT Devices   \* the two FPGAs of the carrier

VARIABLES
  pc, status,          \* the shell: where it is, $?
  attempted,           \* CANDIDATE_PROGRAM_ATTEMPTED
  programmed,          \* IMAGE_PROGRAMMED
  rollback,            \* ROLLBACK_RESULT
  bridge, loaded,      \* the programming bridge: its image, its log
  orphan,              \* a bridge whose pid was never noted runs, or ran
  image,               \* what each FPGA holds
  accepted, rejected, mismatch,   \* miner.log
  report               \* the line about the resident image

flags    == <<attempted, programmed, rollback>>
boardVars == <<bridge, loaded, orphan, image>>
logVars  == <<accepted, rejected, mismatch>>
vars == <<pc, status, flags, boardVars, logVars, report>>

Off == "off"
Phases == {"preflight", "probe", "program", "loading", "xvc", "mining",
           "classify", "complete", "exiting", "disarmed", "cleanup",
           "restoring", "report", "exited"}
Guarded == {"preflight", "probe", "program", "loading", "xvc", "mining",
            "classify", "complete"}

-----------------------------------------------------------------------------
(* die, set -e and the traps.                                              *)

Exit(code) == pc' = "exiting" /\ status' = code

GoOn(next) == pc' = next /\ UNCHANGED status

StopBridge == bridge' = Off /\ UNCHANGED <<loaded, orphan, image>>
StartBridge(img) ==
  bridge' = img /\ loaded' = {} /\ UNCHANGED <<orphan, image>>

\* A step that only checks: it passes, or the script dies in it.
CheckThen(phase, next) ==
  /\ pc = phase
  /\ GoOn(next) \/ Exit(1)
  /\ UNCHANGED <<flags, boardVars, logVars, report>>

-----------------------------------------------------------------------------
(* The script up to its verdict.                                           *)

\* Arguments, checksums, self-tests and build_image; --build-only stops here.
Preflight ==
  CheckThen("preflight", "probe") \/ CheckThen("preflight", "complete")

\* exit 0 of --build-only and the end of the script.
Complete ==
  /\ pc = "complete"
  /\ Exit(0)
  /\ UNCHANGED <<flags, boardVars, logVars, report>>

\* No other bridge, the carrier and the pool reachable, the ports free.
Probe == CheckThen("probe", "program")

MarkAttempt == attempted' = TRUE /\ UNCHANGED <<programmed, rollback>>
Program ==
  /\ pc = "program"
  /\ MarkAttempt
  /\ StartBridge("candidate")
  /\ GoOn("loading")
  /\ UNCHANGED <<logVars, report>>

OneLoaded == loaded # {}
AllLoaded == loaded = Devices

Loaded ==
  /\ pc = "loading" /\ AllLoaded
  /\ programmed' = TRUE
  /\ StopBridge
  /\ GoOn("xvc")
  /\ UNCHANGED <<attempted, rollback, logVars, report>>

\* wait_for_loads: the bridge died, or 120 seconds passed since the log was
\* last read, whatever has been written to it meanwhile.
BridgeGone(phase) == pc = phase /\ bridge = Off
GivesUp(phase) == pc = phase

LoadFails ==
  /\ GivesUp("loading")
  /\ Exit(1)
  /\ UNCHANGED <<flags, boardVars, logVars, report>>

StartXvc == CheckThen("xvc", "mining")

\* The canary ran its time (or the miner stopped by itself, which is fatal).
Mine ==
  /\ pc = "mining"
  /\ accepted' \in SUBSET Devices
  /\ rejected' \in BOOLEAN /\ mismatch' \in BOOLEAN
  /\ GoOn("classify") \/ Exit(1)
  /\ UNCHANGED <<flags, boardVars, report>>

AnyAccepted == accepted # {} /\ ~rejected /\ ~mismatch
Qualifies == accepted = Devices /\ ~rejected /\ ~mismatch

Classify ==
  /\ pc = "classify"
  /\ IF Qualifies THEN GoOn("complete") ELSE Exit(1)
  /\ UNCHANGED <<flags, boardVars, logVars, report>>

-----------------------------------------------------------------------------
(* Signals and cleanup.                                                    *)

\* trap 'exit 130' INT TERM.
Signal ==
  /\ pc \in Guarded
  /\ Exit(130)
  /\ UNCHANGED <<flags, boardVars, logVars, report>>

\* After CANDIDATE_PROGRAM_ATTEMPTED=1, before ACTIVE_PID=$!: if the bridge
\* has been started, nobody will stop it (it ignores INT, as every job that
\* a script starts in the background).
SignalAtLaunch ==
  /\ pc = "program"
  /\ MarkAttempt
  /\ orphan' \in BOOLEAN
  /\ Exit(130)
  /\ UNCHANGED <<bridge, loaded, image, logVars, report>>

\* trap - EXIT, then trap '' INT TERM.
DisarmExitTrap ==
  /\ pc = "exiting"
  /\ GoOn("disarmed")
  /\ UNCHANGED <<flags, boardVars, logVars, report>>

\* Between the first statement of the EXIT trap and the second trap command
\* the INT trap still exits, and no EXIT trap runs a second time.
SignalInCleanup ==
  /\ pc \in {"exiting", "disarmed"}
  /\ pc' = "exited" /\ status' = 130
  /\ UNCHANGED <<flags, boardVars, logVars, report>>

IgnoreSignals ==
  /\ pc = "disarmed"
  /\ GoOn("cleanup")
  /\ StopBridge
  /\ UNCHANGED <<flags, logVars, report>>

RollbackUnlessInterrupted == status = 1 /\ attempted
MustRollBack == status # 0 /\ attempted

SkipRollback ==
  /\ pc = "cleanup" /\ ~MustRollBack
  /\ GoOn("report")
  /\ UNCHANGED <<flags, boardVars, logVars, report>>

\* restore_qualified_587p5: wait_for_carrier, launch_program_bridge.
StartRollback ==
  /\ pc = "cleanup" /\ MustRollBack
  /\ \/ StartBridge("qualified") /\ GoOn("restoring") /\ UNCHANGED rollback
     \/ rollback' = "fail" /\ GoOn("report") /\ UNCHANGED boardVars
  /\ UNCHANGED <<attempted, programmed, logVars, report>>

RollbackPasses ==
  /\ pc = "restoring" /\ AllLoaded
  /\ programmed' = FALSE /\ rollback' = "pass"
  /\ StopBridge
  /\ GoOn("report")
  /\ UNCHANGED <<attempted, logVars, report>>

RollbackFails ==
  /\ GivesUp("restoring")
  /\ rollback' = "fail"
  /\ StopBridge
  /\ GoOn("report")
  /\ UNCHANGED <<attempted, programmed, logVars, report>>

Report ==
  /\ pc = "report"
  /\ report' = IF rollback = "pass" THEN "restored"
               ELSE IF rollback = "fail" THEN "verify"
               ELSE IF programmed THEN "candidate resident"
               ELSE "unchanged"
  /\ GoOn("exited")
  /\ UNCHANGED <<flags, boardVars, logVars>>

-----------------------------------------------------------------------------
(* The programming bridge, which the shell only watches.                   *)

\* Configuration erases the device first.
BeginLoad(d) ==
  /\ bridge # Off /\ d \notin loaded /\ image[d] # "erased"
  /\ image' = [image EXCEPT ![d] = "erased"]
  /\ UNCHANGED <<pc, status, flags, bridge, loaded, orphan, logVars, report>>

FinishLoad(d) ==
  /\ bridge # Off /\ d \notin loaded /\ image[d] = "erased"
  /\ image' = [image EXCEPT ![d] = bridge]
  /\ loaded' = loaded \cup {d}
  /\ UNCHANGED <<pc, status, flags, bridge, orphan, logVars, report>>

BridgeDies ==
  /\ bridge # Off
  /\ StopBridge
  /\ UNCHANGED <<pc, status, flags, logVars, report>>

\* It goes on with the candidate, whatever the shell and a second bridge do.
OrphanLoads(d) ==
  /\ orphan
  /\ \E img \in {"erased", "candidate"} : image' = [image EXCEPT ![d] = img]
  /\ UNCHANGED <<pc, status, flags, bridge, loaded, orphan, logVars, report>>

-----------------------------------------------------------------------------
Init ==
  /\ pc = "preflight" /\ status = 0
  /\ attempted = FALSE /\ programmed = FALSE /\ rollback = "not-needed"
  /\ bridge = Off /\ loaded = {} /\ orphan = FALSE
  /\ image = [d \in Devices |-> "previous"]
  /\ accepted = {} /\ rejected = FALSE /\ mismatch = FALSE
  /\ report = "none"

ShellStep ==
  \/ Preflight \/ Complete \/ Probe \/ Program \/ Loaded \/ LoadFails
  \/ StartXvc \/ Mine \/ Classify
  \/ DisarmExitTrap \/ IgnoreSignals \/ SkipRollback \/ StartRollback
  \/ RollbackPasses \/ RollbackFails \/ Report

BridgeStep ==
  \/ BridgeDies
  \/ \E d \in Devices : BeginLoad(d) \/ FinishLoad(d) \/ OrphanLoads(d)

Next ==
  \/ ShellStep \/ BridgeStep
  \/ Signal \/ SignalAtLaunch \/ SignalInCleanup

Spec == Init /\ [][Next]_vars

\* The shell goes on; every wait in the script has a deadline.
FairSpec == Spec /\ WF_vars(ShellStep)

-----------------------------------------------------------------------------
(* Properties.                                                             *)

TypeOK ==
  /\ pc \in Phases /\ status \in {0, 1, 130}
  /\ attempted \in BOOLEAN /\ programmed \in BOOLEAN
  /\ rollback \in {"not-needed", "pass", "fail"}
  /\ bridge \in {Off, "candidate", "qualified"} /\ loaded \subseteq Devices
  /\ orphan \in BOOLEAN
  /\ image \in [Devices -> {"previous", "erased", "candidate", "qualified"}]
  /\ accepted \subseteq Devices /\ rejected \in BOOLEAN /\ mismatch \in BOOLEAN
  /\ report \in {"none", "restored", "verify", "candidate resident",
                 "unchanged"}

Exited == pc = "exited"
Restored == image = [d \in Devices |-> "qualified"]
Touched == \E d \in Devices : image[d] # "previous"

(* usage(): "A failed or interrupted hardware canary automatically         *)
(* restores the included hardware-qualified 587.5 MHz image", or says that *)
(* it could not.  Two exceptions: a signal on the first two commands of    *)
(* cleanup leaves without a report, and one that arrives while the bridge  *)
(* is started leaves it running.                                           *)
FailureRestores ==
  Exited /\ status # 0 /\ Touched /\ report # "none" /\ ~orphan =>
    Restored \/ rollback = "fail"

(* README and PATCH_NOTES: restores the image "after pass, failure, or     *)
(* interruption".                                                          *)
EveryOutcomeRestores ==
  Exited /\ Touched /\ report # "none" /\ ~orphan =>
    Restored \/ rollback = "fail"

(* The last line about the resident image is true of both FPGAs, unless a  *)
(* bridge nobody stops goes on behind it.                                  *)
ReportIsTrue ==
  Exited =>
    /\ report = "restored" /\ ~orphan => Restored
    /\ report = "candidate resident" =>
         image = [d \in Devices |-> "candidate"]
    /\ report = "unchanged" => ~Touched

(* The candidate stays on the board only after a complete canary: shares   *)
(* accepted from both FPGAs, none rejected, no digest mismatch.            *)
OnlyQualifiedStays ==
  Exited /\ status = 0 /\ Touched =>
    accepted = Devices /\ ~rejected /\ ~mismatch

(* Whatever fails and whenever it is interrupted, the runner ends.         *)
RunnerEnds == <>Exited
=============================================================================
