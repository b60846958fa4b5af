---------------------------- MODULE LaunchProofs -----------------------------
(***************************************************************************)
(* Theorems about Launch, for every set of users, contexts, homes and      *)
(* failures of the startup.  LaunchInv of LaunchInductive carries them: as *)
(* long as the instance is unowned only the goroutine of Launch acts, and  *)
(* from then on the steps are those of Shutdown, whose lemmas apply.       *)
(***************************************************************************)
EXTENDS LaunchInductive, ShutdownProofs

USE DEF clientVars, groupVars, pathVars, shareVars, contextVars, launchVars, Goto, Callers

-----------------------------------------------------------------------------
(* Before anybody owns the instance *)

(* Nothing of the shutdown machinery runs; only the order in which an exit  *)
(* becomes known matters.                                                   *)
Quiet ==
  /\ ~started /\ ~finished /\ ~attached /\ grants = {} /\ result = {}
  /\ \A p \in Callers : ret[p] = {} /\ pc[p] = "idle"
  /\ waitDone # "none" => bridge = "reaped"
  /\ SupportedBridge /\ kids => bridge = "running"

LEMMA QuietRunInv == TypeOK /\ Quiet => RunInv /\ ShareInv
<1> SUFFICES ASSUME TypeOK, Quiet PROVE RunInv /\ ShareInv
  OBVIOUS
<1>1. OwnInv BY DEF Quiet, OwnInv
<1>2. GroupInv BY DEF Quiet, GroupInv, Terminating, Executing
<1>3. PhaseInv BY DEF Quiet, PhaseInv, Terminating, Executing
<1>4. ShareInv BY DEF Quiet, ShareInv, Terminating, Executing
<1> QED BY <1>1, <1>2, <1>3, <1>4 DEF RunInv

LEMMA UnownedQuiet ==
  ASSUME LaunchInv, lpc \in Unowned, lpc # "terminate"
  PROVE  Quiet /\ TypeOK
BY DEF LaunchInv, RunInv, GroupInv, UnownedInv, Quiet

LEMMA InitLaunchInv == LaunchInit => LaunchInv
<1> SUFFICES ASSUME LaunchInit PROVE LaunchInv
  OBVIOUS
<1>1. TypeOK
  <2>1. ephemeral \in BOOLEAN /\ home \in BOOLEAN BY DEF LaunchInit
  <2> QED BY <2>1, ContextAssumption DEF LaunchInit, CallerContexts, TypeOK, Labels, Phases, None
<1>2. Quiet BY DEF LaunchInit, Quiet
<1>3. RunInv /\ ShareInv BY <1>1, <1>2, QuietRunInv
<1>4. LaunchTypeOK BY <1>1 DEF LaunchInit, LaunchTypeOK
<1>5. UnownedInv /\ StageInv
  BY DEF LaunchInit, UnownedInv, StageInv, Unowned, BeforeBridge
<1>6. FailedLaunchLeavesNothing /\ CodeTellsPhase
  BY DEF LaunchInit, FailedLaunchLeavesNothing, CodeTellsPhase
<1> QED BY <1>3, <1>4, <1>5, <1>6 DEF LaunchInv

(* The steps before the bridge runs, and its start. *)
LEMMA PrepareKeeps ==
  ASSUME LaunchInv, PrepareHome
  PROVE  LaunchInv'
<1> USE DEF PrepareHome, Fail, Fails
<1>1. TypeOK /\ Quiet BY UnownedQuiet DEF Unowned, BeforeBridge
<1>2. TypeOK'
  <2>1. home' \in BOOLEAN BY <1>1 DEF TypeOK
  <2>2. errs' \subseteq Phases BY <1>1 DEF TypeOK, Phases
  <2> QED BY <1>1, <2>1, <2>2 DEF TypeOK
<1>3. Quiet' BY <1>1 DEF Quiet
<1>4. RunInv' /\ ShareInv' BY <1>2, <1>3, QuietRunInv, PTL
<1>5. LaunchTypeOK' BY <1>2 DEF LaunchInv, LaunchTypeOK, Returned, Codes
<1>6. UnownedInv' BY <1>3 DEF Quiet, UnownedInv, Unowned, BeforeBridge
<1>7. StageInv' BY DEF LaunchInv, StageInv, BeforeBridge
<1>8. FailedLaunchLeavesNothing' /\ CodeTellsPhase'
  BY <1>1, <1>3 DEF LaunchInv, StageInv, BeforeBridge, Quiet, FailedLaunchLeavesNothing, CodeTellsPhase
<1> QED BY <1>4, <1>5, <1>6, <1>7, <1>8 DEF LaunchInv

(* Stale files, credentials and the start of the process, and the steps of  *)
(* the loop and of the connection that leave the instance with Launch.      *)
LEMMA QuietStepsKeep ==
  ASSUME LaunchInv,
         RemoveStalePaths \/ InheritLaunchCredentials \/ StartProcess \/ BridgeGone \/ Connected
  PROVE  LaunchInv'
<1> USE DEF RemoveStalePaths, InheritLaunchCredentials, StartProcess, BridgeGone, Connected, Fail, vars
<1>1. TypeOK /\ Quiet BY UnownedQuiet DEF Unowned, BeforeBridge
<1>2. TypeOK'
  <2>1. files' \in BOOLEAN BY <1>1 DEF TypeOK
  <2>2. kids' \in BOOLEAN BY <1>1 DEF TypeOK
  <2> QED BY <1>1, <2>1, <2>2 DEF TypeOK
<1>3. Quiet' BY <1>1 DEF LaunchInv, StageInv, BeforeBridge, Quiet
<1>4. RunInv' /\ ShareInv' BY <1>2, <1>3, QuietRunInv, PTL
<1>5. LaunchTypeOK' BY <1>2 DEF LaunchInv, LaunchTypeOK, Returned, Codes
<1>6. UnownedInv'
  <2>1. lpc' # "terminate" OBVIOUS
  <2> QED BY <1>3, <2>1 DEF Quiet, UnownedInv
<1>7. StageInv' BY <1>1 DEF LaunchInv, StageInv, BeforeBridge, Quiet
<1>8. lpc' # "failed" OBVIOUS
<1> QED BY <1>4, <1>5, <1>6, <1>7, <1>8 DEF LaunchInv, FailedLaunchLeavesNothing, CodeTellsPhase

-----------------------------------------------------------------------------
(* The deadline of the startup *)

(* terminateProcess works on a bridge nobody else can know of.              *)
LEMMA StartupTimeoutKeeps ==
  ASSUME LaunchInv, StartupTimeout
  PROVE  LaunchInv'
<1> USE DEF StartupTimeout, Fail
<1>0. lpc = "poll" /\ ~recorded /\ waitDone # "taken" /\ bridge # "absent"
  BY DEF LaunchInv, StageInv
<1>1. TypeOK /\ Quiet BY UnownedQuiet DEF Unowned
<1>2. TypeOK' BY <1>1 DEF TypeOK, Labels
<1>3. OwnInv' BY <1>1 DEF TypeOK, OwnInv, Quiet
<1>4. GroupInv' BY <1>0, <1>1 DEF TypeOK, GroupInv, Quiet
<1>5. PhaseInv' BY <1>0, <1>1 DEF TypeOK, PhaseInv, Quiet, Terminating, Executing
<1>6. LaunchTypeOK' BY <1>2 DEF LaunchInv, LaunchTypeOK, Codes
<1>7. UnownedInv' BY <1>1 DEF TypeOK, Quiet, UnownedInv, Terminating
<1>8. StageInv' BY <1>0 DEF StageInv, BeforeBridge
<1> QED BY <1>2, <1>3, <1>4, <1>5, <1>6, <1>7, <1>8
        DEF LaunchInv, RunInv, FailedLaunchLeavesNothing, CodeTellsPhase

LEMMA LaunchTerminateKeeps ==
  ASSUME LaunchInv, Terminate
  PROVE  LaunchInv'
<1> USE DEF Terminate
<1>1. RunInv' BY TerminateKeeps DEF LaunchInv
<1>2. LaunchTypeOK' BY <1>1 DEF LaunchInv, LaunchTypeOK, RunInv
<1>3. /\ UNCHANGED <<started, finished, attached, grants, result, ret, recorded>>
      /\ pc' = [pc EXCEPT !["client"] = pc'["client"]] /\ pc'["client"] \in Terminating \cup {"cleanup"}
      /\ bridge # "absent" => bridge' # "absent"
  <2>1. TypeOK BY DEF LaunchInv, RunInv
  <2> QED BY <2>1 DEF TypeOK, TerminateProcessGroup, Probe, SignalTerm, Grace, Recheck, CheckAlive,
         LastCheck, SignalKill, WaitForProcessReap, Reported, Terminating
<1>4. UnownedInv' BY <1>3 DEF LaunchInv, LaunchTypeOK, TypeOK, UnownedInv, Unowned
<1>5. StageInv' BY <1>3 DEF LaunchInv, StageInv, BeforeBridge
<1> QED BY <1>1, <1>2, <1>4, <1>5 DEF LaunchInv, FailedLaunchLeavesNothing, CodeTellsPhase

(* cleanupOnError, after a start that failed, a bridge that went or the     *)
(* termination.                                                             *)
LEMMA CleanupOnErrorKeeps ==
  ASSUME LaunchInv, CleanupOnError
  PROVE  LaunchInv'
<1> USE DEF CleanupOnError, CleanupOwnedInstancePaths, Fails
<1>0. TypeOK /\ GroupInv /\ PhaseInv /\ UnownedInv /\ StageInv BY DEF LaunchInv, RunInv
<1>1. lpc \in {"cleanup", "terminate"} OBVIOUS
<1>2. TypeOK'
  <2>1. files' \in BOOLEAN BY <1>0 DEF TypeOK
  <2>2. home' \in BOOLEAN BY <1>0 DEF TypeOK
  <2>3. errs' \subseteq Phases BY <1>0 DEF TypeOK, Phases
  <2> QED BY <1>0, <2>1, <2>2, <2>3 DEF TypeOK, Labels
<1>3. Quiet' BY <1>0, <1>1 DEF TypeOK, GroupInv, UnownedInv, Unowned, Quiet
<1>4. RunInv' /\ ShareInv' BY <1>2, <1>3, QuietRunInv, PTL
<1>5. LaunchTypeOK' BY <1>2 DEF LaunchInv, LaunchTypeOK, Returned
<1>6. UnownedInv' /\ StageInv' BY DEF UnownedInv, StageInv, Unowned, BeforeBridge
<1>7. FailedLaunchLeavesNothing'
  <2>1. SUFFICES ASSUME errs' = {}
        PROVE /\ bridge \in {"absent", "reaped"} /\ (SupportedBridge => ~kids)
              /\ ~files' /\ home' = ~ephemeral
    BY DEF FailedLaunchLeavesNothing
  <2>2. errs = {} BY <2>1
  <2>3. bridge \in {"absent", "reaped"}
    BY <1>0, <1>1, <2>2 DEF StageInv, PhaseInv, UnownedInv
  <2>4. ~files' /\ home' = ~ephemeral BY <1>0, <2>1 DEF TypeOK
  <2> QED BY <1>0, <2>3, <2>4 DEF GroupInv
<1>8. CodeTellsPhase' BY <1>0, <1>1, <1>3 DEF StageInv, Quiet, CodeTellsPhase
<1> QED BY <1>4, <1>5, <1>6, <1>7, <1>8 DEF LaunchInv

-----------------------------------------------------------------------------
(* The instance is handed out *)

(* An instance that gets an owner satisfies the invariant of Shutdown: the  *)
(* report of Wait has not been taken, so that its shutdown will find it.    *)
LEMMA HandOver ==
  ASSUME LaunchInv,
         \/ SocketReady \/ SetInstance
         \/ \E step \in {"dial", "handshake"}, c \in Codes : ConnectFails(step, c)
  PROVE  RunInv' /\ ShareInv'
<1> USE DEF SocketReady, SetInstance, ConnectFails, ReadDaemonPID, Fail
<1>1. lpc \in {"poll", "dial", "handshake", "attach"} OBVIOUS
<1>2. TypeOK /\ Quiet /\ waitDone # "taken"
  BY <1>1, UnownedQuiet DEF Unowned, LaunchInv, StageInv
<1>3. TypeOK'
  <2>1. attached' \in BOOLEAN BY <1>2 DEF TypeOK
  <2>2. monitor' \in BOOLEAN BY <1>2 DEF TypeOK
  <2>3. recorded' \in BOOLEAN BY <1>2 DEF TypeOK
  <2> QED BY <1>2, <2>1, <2>2, <2>3 DEF TypeOK, Labels
<1>4. /\ UNCHANGED <<started, finished, owner, result, ret, waitDone, bridge, kids, errs, causes>>
      /\ \A p \in Callers : pc'[p] = "idle" \/ (p = "client" /\ pc'[p] = "begin" /\ grants' # {})
      /\ \A x, y \in grants' : x = y
      /\ attached' => grants' = {}
  BY <1>2 DEF TypeOK, Quiet
<1>5. OwnInv' BY <1>2, <1>4 DEF Quiet, OwnInv
<1>6. GroupInv' BY <1>2, <1>4 DEF Quiet, GroupInv, Terminating, Executing
<1>7. PhaseInv' BY <1>2, <1>4 DEF Quiet, PhaseInv, Terminating, Executing
<1>8. ShareInv' BY <1>2, <1>4 DEF Quiet, ShareInv, Terminating, Executing
<1> QED BY <1>3, <1>5, <1>6, <1>7, <1>8 DEF RunInv

LEMMA SocketReadyKeeps ==
  ASSUME LaunchInv, SocketReady
  PROVE  LaunchInv'
<1> USE DEF SocketReady
<1>1. RunInv' /\ ShareInv' BY HandOver
<1>2. TypeOK /\ Quiet BY UnownedQuiet DEF Unowned
<1>3. LaunchTypeOK' BY <1>1 DEF RunInv, LaunchInv, LaunchTypeOK, Returned
<1>4. UnownedInv' BY <1>2 DEF Quiet, UnownedInv, Unowned, BeforeBridge
<1>5. StageInv' BY DEF LaunchInv, StageInv, BeforeBridge
<1> QED BY <1>1, <1>3, <1>4, <1>5 DEF LaunchInv, FailedLaunchLeavesNothing, CodeTellsPhase

LEMMA ConnectFailsKeeps ==
  ASSUME LaunchInv,
         ConnectFails("dial", "transport_failed") \/ ConnectFails("handshake", "handshake_failed")
  PROVE  LaunchInv'
<1>1. RunInv' /\ ShareInv' BY HandOver DEF Codes
<1> USE DEF ConnectFails, Fail
<1>2. LaunchTypeOK' BY <1>1 DEF RunInv, LaunchInv, LaunchTypeOK, Codes
<1>3. UnownedInv' BY DEF UnownedInv, Unowned, BeforeBridge
<1>4. StageInv' BY DEF StageInv, BeforeBridge
<1> QED BY <1>1, <1>2, <1>3, <1>4 DEF LaunchInv, FailedLaunchLeavesNothing, CodeTellsPhase

LEMMA SetInstanceKeeps ==
  ASSUME LaunchInv, SetInstance
  PROVE  LaunchInv'
<1>1. RunInv' /\ ShareInv' BY HandOver
<1> USE DEF SetInstance
<1>2. LaunchTypeOK' BY <1>1 DEF RunInv, LaunchInv, LaunchTypeOK, Returned
<1>3. UnownedInv' BY DEF UnownedInv, Unowned, BeforeBridge
<1>4. StageInv' BY DEF StageInv, BeforeBridge
<1> QED BY <1>1, <1>2, <1>3, <1>4 DEF LaunchInv, FailedLaunchLeavesNothing, CodeTellsPhase

(* Nothing changes for RunInv and ShareInv when the variables of Shutdown   *)
(* do not.                                                                  *)
LEMMA StutterKeeps ==
  ASSUME UNCHANGED vars
  PROVE  (RunInv => RunInv') /\ (ShareInv => ShareInv')
<1> USE DEF vars
<1>1. TypeOK => TypeOK' BY DEF TypeOK
<1>2. OwnInv => OwnInv' BY DEF OwnInv
<1>3. GroupInv => GroupInv' BY DEF GroupInv
<1>4. PhaseInv => PhaseInv' BY DEF PhaseInv
<1>5. ShareInv => ShareInv' BY DEF ShareInv
<1> QED BY <1>1, <1>2, <1>3, <1>4, <1>5 DEF RunInv

(* Launch returns the error once its own Shutdown has.                      *)
LEMMA LaunchFailsKeeps ==
  ASSUME LaunchInv, LaunchFails
  PROVE  LaunchInv'
<1> USE DEF LaunchFails
<1>1. RunInv' /\ ShareInv' BY StutterKeeps DEF LaunchInv
<1>2. LaunchTypeOK' BY <1>1 DEF RunInv, LaunchInv, LaunchTypeOK, Returned
<1>3. UnownedInv' /\ StageInv' BY DEF UnownedInv, StageInv, Unowned, BeforeBridge
<1>4. finished BY DEF LaunchInv, ShareInv
<1>5. FailedLaunchLeavesNothing'
  BY <1>4 DEF vars, LaunchInv, RunInv, TypeOK, GroupInv, PhaseInv, FailedLaunchLeavesNothing
<1>6. CodeTellsPhase' BY <1>4 DEF vars, LaunchInv, StageInv, CodeTellsPhase
<1> QED BY <1>1, <1>2, <1>3, <1>5, <1>6 DEF LaunchInv

(* The steps of an owner are steps of Shutdown.                             *)
LEMMA OwnedKeeps ==
  ASSUME LaunchInv, Owned, UNCHANGED launchVars
  PROVE  LaunchInv'
<1> USE DEF Owned
<1>1. ShutdownInv' BY NextShutdownInv DEF LaunchInv, ShutdownInv, Next, Contexts
<1>2. LaunchTypeOK' BY <1>1 DEF ShutdownInv, RunInv, LaunchInv, LaunchTypeOK
<1>3. UnownedInv' BY DEF UnownedInv, Unowned, BeforeBridge
<1>4. StageInv' BY DEF LaunchInv, StageInv, BeforeBridge
<1> QED BY <1>1, <1>2, <1>3, <1>4
        DEF LaunchInv, ShutdownInv, FailedLaunchLeavesNothing, CodeTellsPhase

(* Processes may exit and contexts may end at any time. *)
LEMMA BackgroundKeeps ==
  ASSUME LaunchInv, Group \/ (\E p \in Callers : ContextEnds(p)), UNCHANGED launchVars
  PROVE  LaunchInv'
<1>1. RunInv' BY GroupKeeps, ContextEndsKeeps DEF LaunchInv
<1>2. /\ UNCHANGED <<clientVars, pathVars, shareVars, causes, errs, ret, pc>>
      /\ bridge' = bridge \/ (bridge \in {"running", "zombie"} /\ bridge' \in {"zombie", "reaped"})
      /\ waitDone' = "taken" => waitDone = "taken"
      /\ kids' => kids
  <2> USE DEF Group, BridgeExits, KidsExit, WaitForCommandExit, ContextEnds
  <2>1. TypeOK BY DEF LaunchInv, RunInv
  <2>2. UNCHANGED <<clientVars, pathVars, shareVars, causes, errs, ret, pc>> OBVIOUS
  <2>3. bridge' = bridge \/ (bridge \in {"running", "zombie"} /\ bridge' \in {"zombie", "reaped"})
    OBVIOUS
  <2>4. waitDone' = "taken" => waitDone = "taken" OBVIOUS
  <2>5. kids' => kids BY <2>1 DEF TypeOK
  <2> QED BY <2>2, <2>3, <2>4, <2>5
<1>3. ShareInv => ShareInv' BY <1>2 DEF ShareInv
<1>4. LaunchTypeOK' BY <1>1 DEF RunInv, LaunchInv, LaunchTypeOK
<1>5. UnownedInv' BY <1>2 DEF LaunchInv, UnownedInv
<1>6. StageInv' BY <1>2 DEF LaunchInv, StageInv, BeforeBridge
<1>7. FailedLaunchLeavesNothing' BY <1>2 DEF LaunchInv, FailedLaunchLeavesNothing
<1>8. CodeTellsPhase' BY <1>2 DEF LaunchInv, CodeTellsPhase
<1> QED BY <1>1, <1>3, <1>4, <1>5, <1>6, <1>7, <1>8 DEF LaunchInv

-----------------------------------------------------------------------------
(* The invariant *)

LEMMA NextLaunchInv == LaunchInv /\ [LaunchNext]_allVars => LaunchInv'
<1> SUFFICES ASSUME LaunchInv, [LaunchNext]_allVars PROVE LaunchInv'
  OBVIOUS
<1>1. CASE Starting
  BY <1>1, PrepareKeeps, QuietStepsKeep, SocketReadyKeeps, StartupTimeoutKeeps, LaunchTerminateKeeps,
     CleanupOnErrorKeeps DEF Starting
<1>2. CASE Connecting
  BY <1>2, ConnectFailsKeeps, LaunchFailsKeeps, QuietStepsKeep, SetInstanceKeeps DEF Connecting
<1>3. CASE (Owned \/ Group \/ (\E p \in Callers : ContextEnds(p))) /\ UNCHANGED launchVars
  BY <1>3, OwnedKeeps, BackgroundKeeps
<1>4. CASE UNCHANGED allVars
  <2>1. UNCHANGED vars /\ UNCHANGED launchVars BY <1>4 DEF allVars
  <2>2. RunInv' /\ (ShareInv => ShareInv') BY <2>1, StutterKeeps DEF LaunchInv
  <2>3. LaunchTypeOK' BY <2>1, <2>2 DEF RunInv, LaunchInv, LaunchTypeOK
  <2>4. UnownedInv' /\ StageInv' /\ FailedLaunchLeavesNothing' /\ CodeTellsPhase'
    BY <2>1 DEF vars, LaunchInv, UnownedInv, StageInv, FailedLaunchLeavesNothing, CodeTellsPhase
  <2> QED BY <2>1, <2>2, <2>3, <2>4 DEF LaunchInv
<1> QED BY <1>1, <1>2, <1>3, <1>4 DEF LaunchNext

(* The invariant holds in every reachable state. *)
THEOREM LaunchInvInvariant == LaunchSpec => []LaunchInv
BY InitLaunchInv, NextLaunchInv, PTL DEF LaunchSpec

-----------------------------------------------------------------------------
(* What it means for the caller of Launch and LaunchInstance *)

(* Every variable stays in its domain. *)
THEOREM LaunchTypes == LaunchSpec => []LaunchTypeOK
<1>1. LaunchInv => LaunchTypeOK BY DEF LaunchInv
<1> QED BY <1>1, LaunchInvInvariant, PTL

(* A launch that fails, and whose way back does not, leaves no process, no  *)
(* file of the bridge's and no home of the SDK's.                           *)
THEOREM FailureLeavesNothing == LaunchSpec => []FailedLaunchLeavesNothing
<1>1. LaunchInv => FailedLaunchLeavesNothing BY DEF LaunchInv
<1> QED BY <1>1, LaunchInvInvariant, PTL

(* The code of a LaunchError tells how far the launch came. *)
THEOREM CodeIsTelling == LaunchSpec => []CodeTellsPhase
<1>1. LaunchInv => CodeTellsPhase BY DEF LaunchInv
<1> QED BY <1>1, LaunchInvInvariant, PTL

(* Also for an instance that was launched here, a result of Shutdown        *)
(* without an error means that the runtime is gone.                         *)
THEOREM LaunchedCleanResult == LaunchSpec => []NilMeansClean
<1>1. LaunchInv => NilMeansClean
  <2> SUFFICES ASSUME LaunchInv PROVE NilMeansClean
    OBVIOUS
  <2>1. CASE lpc = "terminate" BY <2>1 DEF LaunchInv, UnownedInv, Unowned, NilMeansClean
  <2>2. CASE lpc # "terminate"
    BY <2>2 DEF LaunchInv, RunInv, TypeOK, GroupInv, PhaseInv, ShareInv, NilMeansClean
  <2> QED BY <2>1, <2>2
<1> QED BY <1>1, LaunchInvInvariant, PTL

(* Neither the termination after the deadline nor a shutdown sends a signal *)
(* to the process group once the exit of its leader is known.               *)
THEOREM LaunchNoLateSignal == LaunchSpec => NoSignalAfterReport
<1>1. LaunchInv /\ [LaunchNext]_allVars => [signal' # signal => waitDone # "taken"]_vars
  <2> SUFFICES ASSUME LaunchInv, LaunchNext, signal' # signal PROVE waitDone # "taken"
    BY DEF allVars, vars
  <2>1. PICK p \in Callers : SignalTerm(p) \/ SignalKill(p)
    BY DEF LaunchNext, Starting, Connecting, Owned, PrepareHome, RemoveStalePaths,
           InheritLaunchCredentials, StartProcess, SocketReady, BridgeGone, StartupTimeout, Terminate,
           CleanupOnError, ConnectFails, LaunchFails, Connected, SetInstance, vars,
           Group, BridgeExits, KidsExit, WaitForCommandExit, ClientSide, DetachInstance,
           Close, CloseEnd, StaleDisconnect, MonitorWakes, MonitorReports, BeginShutdown,
           WatchContext, ContextEnds, WatcherFires, Running, StopDaemon, TerminateProcessGroup,
           Probe, Grace, Recheck, CheckAlive, LastCheck, WaitForProcessReap, Reported,
           Cleanup, FinishShutdown, Return
  <2> QED BY <2>1 DEF LaunchInv, RunInv, GroupInv, Terminating, SignalTerm, SignalKill
<1> QED BY <1>1, LaunchInvInvariant, PTL DEF LaunchSpec, NoSignalAfterReport
=============================================================================
