--------------------------- MODULE ShutdownProofs ----------------------------
(***************************************************************************)
(* Theorems about Shutdown, for every set of users, every kind of context  *)
(* and every set of system calls that may fail.  All of them follow from   *)
(* ShutdownInv of ShutdownInductive.  The lemmas about the process group   *)
(* and its termination need only RunInv, so that LaunchProofs can use them *)
(* for a bridge that never became an instance.                             *)
(***************************************************************************)
EXTENDS ShutdownInductive, FiniteSetTheorems, TLAPS

USE DEF clientVars, groupVars, pathVars, shareVars, contextVars, Goto, Callers

-----------------------------------------------------------------------------
(* The process group *)

(* An exit is reaped before it is reported, and changes nothing the phases  *)
(* have achieved.                                                           *)
LEMMA GroupKeeps ==
  ASSUME RunInv, Group
  PROVE  RunInv'
<1> USE DEF Group, BridgeExits, KidsExit, WaitForCommandExit
<1>1. TypeOK'
  <2>1. kids' \in BOOLEAN BY DEF RunInv, TypeOK
  <2>2. bridgeDone' \in BOOLEAN BY DEF RunInv, TypeOK
  <2> QED BY <2>1, <2>2 DEF RunInv, TypeOK
<1>2. OwnInv' BY DEF RunInv, OwnInv
<1>3. GroupInv' BY DEF RunInv, TypeOK, GroupInv
<1>4. PhaseInv' BY DEF RunInv, TypeOK, PhaseInv
<1> QED BY <1>1, <1>2, <1>3, <1>4 DEF RunInv

(* The end of a context changes nothing but the context. *)
LEMMA ContextEndsKeeps ==
  ASSUME RunInv, NEW p \in Callers, ContextEnds(p)
  PROVE  RunInv'
<1> USE DEF ContextEnds
<1>1. TypeOK' BY DEF RunInv, TypeOK
<1>2. OwnInv' /\ GroupInv' /\ PhaseInv' BY DEF RunInv, OwnInv, GroupInv, PhaseInv
<1> QED BY <1>1, <1>2 DEF RunInv

-----------------------------------------------------------------------------
(* terminateProcessGroup *)

(* Every step of the termination is taken by the only goroutine that runs   *)
(* phases; it reaches the cleanup with a reaped leader or an error, and     *)
(* takes the report of Wait only on its way there.                          *)
LEMMA TerminateKeeps ==
  ASSUME RunInv, NEW p \in Callers, TerminateProcessGroup(p)
  PROVE  RunInv'
<1> USE DEF Probe, SignalTerm, Grace, Recheck, CheckAlive, LastCheck, SignalKill,
            WaitForProcessReap, Reported, Fails, TerminateProcessGroup
<1>0. TypeOK /\ OwnInv /\ GroupInv /\ PhaseInv BY DEF RunInv
<1>1. TypeOK'
  <2>1. errs' \subseteq Phases BY <1>0 DEF TypeOK, Phases
  <2>2. kids' \in BOOLEAN BY <1>0 DEF TypeOK
  <2>3. pc' \in [Callers -> Labels] BY <1>0 DEF TypeOK, Labels
  <2> QED BY <1>0, <2>1, <2>2, <2>3 DEF TypeOK
<1>2. OwnInv'
  BY <1>0 DEF TypeOK, OwnInv
<1>3. GroupInv'
  BY <1>0 DEF TypeOK, OwnInv, GroupInv, PhaseInv, Terminating, Executing
<1>4. PhaseInv'
  BY <1>0 DEF TypeOK, OwnInv, GroupInv, PhaseInv, Terminating, Executing
<1> QED BY <1>1, <1>2, <1>3, <1>4 DEF RunInv

(* A termination does not touch what the callers share, but for the errors  *)
(* collected before the result is stored.                                   *)
LEMMA TerminateShares ==
  ASSUME ShutdownInv, NEW p \in Callers, TerminateProcessGroup(p)
  PROVE  ShareInv'
<1>1. TypeOK /\ OwnInv /\ PhaseInv /\ ShareInv BY DEF ShutdownInv, RunInv
<1>2. pc[p] \in Terminating /\ pc' = [pc EXCEPT ![p] = pc'[p]] /\ pc'[p] \in Terminating \cup {"cleanup"}
  BY <1>1 DEF TypeOK, TerminateProcessGroup, Probe, SignalTerm, Grace, Recheck, CheckAlive,
         LastCheck, SignalKill, WaitForProcessReap, Reported, Terminating
<1>3. UNCHANGED <<started, finished, owner, result, causes, ret>>
  BY DEF TerminateProcessGroup, Probe, SignalTerm, Grace, Recheck, CheckAlive, LastCheck,
         SignalKill, WaitForProcessReap, Reported
<1> QED BY <1>1, <1>2, <1>3 DEF TypeOK, PhaseInv, ShareInv, OwnInv, Executing, Terminating

-----------------------------------------------------------------------------
(* The client's side *)

(* DetachInstance and Close take the instance away from the client in one   *)
(* step, so that the next of them finds none; the monitor looks again.      *)
LEMMA ClientSideKeeps ==
  ASSUME ShutdownInv, ClientSide
  PROVE  ShutdownInv'
<1> USE DEF ClientSide, DetachInstance, Close, CloseEnd, StaleDisconnect, MonitorWakes, MonitorReports
<1>0. TypeOK /\ OwnInv /\ GroupInv /\ PhaseInv /\ ShareInv BY DEF ShutdownInv, RunInv
<1>1. TypeOK'
  <2>1. attached' \in BOOLEAN BY <1>0 DEF TypeOK
  <2>2. monitor' \in BOOLEAN BY <1>0 DEF TypeOK
  <2>3. told' \in BOOLEAN BY <1>0 DEF TypeOK
  <2> QED BY <1>0, <2>1, <2>2, <2>3 DEF TypeOK, Labels
<1>2. OwnInv' BY <1>0 DEF TypeOK, OwnInv
<1>3. GroupInv' BY <1>0 DEF TypeOK, OwnInv, GroupInv, PhaseInv, ShareInv, Terminating, Executing
<1>4. PhaseInv' BY <1>0 DEF TypeOK, OwnInv, PhaseInv, ShareInv, Terminating, Executing
<1>5. ShareInv'
  <2>1. UNCHANGED <<started, finished, owner, result, errs, causes, ret>> OBVIOUS
  <2>2. \/ pc' = pc
        \/ /\ pc["client"] \in {"idle", "claimed", "unowned"}
           /\ pc' = [pc EXCEPT !["client"] = pc'["client"]]
           /\ pc'["client"] \in {"claimed", "unowned", "begin", "closed"}
    BY <1>0 DEF TypeOK
  <2> QED BY <1>0, <2>1, <2>2 DEF TypeOK, OwnInv, ShareInv, Terminating, Executing
<1> QED BY <1>1, <1>2, <1>3, <1>4, <1>5 DEF ShutdownInv, RunInv

-----------------------------------------------------------------------------
(* beginShutdown *)

(* Only the first caller becomes the owner; one that comes after the result *)
(* was stored does not even look at its context.                            *)
LEMMA BeginKeeps ==
  ASSUME ShutdownInv, NEW p \in Callers, BeginShutdown(p)
  PROVE  ShutdownInv'
<1> USE DEF BeginShutdown, MayShutDown
<1>0. TypeOK /\ OwnInv /\ GroupInv /\ PhaseInv /\ ShareInv BY DEF ShutdownInv, RunInv
<1>1. TypeOK'
  <2>1. started' \in BOOLEAN BY <1>0 DEF TypeOK
  <2> QED BY <1>0, <2>1 DEF TypeOK, Labels
<1>2. OwnInv' BY <1>0 DEF TypeOK, OwnInv
<1>3. GroupInv' BY <1>0 DEF TypeOK, OwnInv, GroupInv, PhaseInv, ShareInv, Terminating, Executing
<1>4. PhaseInv' BY <1>0 DEF TypeOK, OwnInv, PhaseInv, ShareInv, Terminating, Executing
<1>5. ShareInv'
  <2>1. pc[p] \in {"idle", "begin"} BY <1>0
  <2>2. CASE finished
    <3>1. pc' = [pc EXCEPT ![p] = "wait"] /\ UNCHANGED <<started, finished, owner, result, errs, causes, ret>>
      BY <2>2
    <3> QED BY <1>0, <2>1, <2>2, <3>1 DEF TypeOK, OwnInv, ShareInv, Terminating, Executing
  <2>3. CASE ~finished /\ started BY <1>0, <2>1, <2>3 DEF TypeOK, OwnInv, ShareInv, Terminating, Executing
  <2>4. CASE ~finished /\ ~started
    <3>1. \A q \in Callers : pc[q] \notin Executing \cup {"escalate"} BY <1>0, <2>4 DEF ShareInv
    <3>2. /\ started' /\ owner' = p /\ pc' = [pc EXCEPT ![p] = "escalate"]
          /\ UNCHANGED <<finished, result, errs, causes, ret>>
      BY <2>4
    <3> QED BY <1>0, <2>4, <3>1, <3>2 DEF TypeOK, ShareInv, Terminating, Executing
  <2> QED BY <2>2, <2>3, <2>4
<1> QED BY <1>1, <1>2, <1>3, <1>4, <1>5 DEF ShutdownInv, RunInv

(* Contexts are joined in until the result is stored, and not after. *)
LEMMA ContextsKeep ==
  ASSUME ShutdownInv, NEW p \in Callers, Contexts(p)
  PROVE  ShutdownInv'
<1> USE DEF Contexts, WatchContext, ContextEnds, WatcherFires, RequestShutdownEscalation
<1>0. TypeOK /\ OwnInv /\ GroupInv /\ PhaseInv /\ ShareInv BY DEF ShutdownInv, RunInv
<1>1. TypeOK'
  <2>1. forceKill' \in BOOLEAN BY <1>0 DEF TypeOK
  <2> QED BY <1>0, <2>1 DEF TypeOK, Labels
<1>2. OwnInv' BY <1>0 DEF TypeOK, OwnInv
<1>3. GroupInv' BY <1>0 DEF TypeOK, OwnInv, GroupInv, PhaseInv, ShareInv, Terminating, Executing
<1>4. PhaseInv'
  <2>1. UNCHANGED <<started, finished, owner, errs, recorded, daemonAsked, bridge, files, home, ephemeral>>
    OBVIOUS
  <2>2. CASE WatchContext(p)
    BY <1>0, <2>1, <2>2 DEF TypeOK, OwnInv, PhaseInv, ShareInv, Terminating, Executing
  <2>3. CASE pc' = pc BY <1>0, <2>1, <2>3 DEF PhaseInv
  <2> QED BY <2>2, <2>3
<1>5. ShareInv'
  <2>1. UNCHANGED <<started, finished, owner, result, errs, ret>> /\ (finished => causes' = causes)
    OBVIOUS
  <2>2. CASE WatchContext(p)
    <3>1. pc[p] = "escalate" /\ started /\ ~(finished /\ owner = p)
      BY <1>0, <2>2 DEF ShareInv, Executing, Terminating
    <3>2. pc' = [pc EXCEPT ![p] = IF owner = p THEN "daemon" ELSE "wait"] BY <2>2
    <3> QED BY <1>0, <2>1, <3>1, <3>2 DEF TypeOK, OwnInv, ShareInv, Terminating, Executing
  <2>3. CASE pc' = pc BY <1>0, <2>1, <2>3 DEF ShareInv
  <2> QED BY <2>2, <2>3
<1> QED BY <1>1, <1>2, <1>3, <1>4, <1>5 DEF ShutdownInv, RunInv

-----------------------------------------------------------------------------
(* runShutdown around the termination *)

LEMMA StopDaemonKeeps ==
  ASSUME ShutdownInv, NEW p \in Callers, StopDaemon(p)
  PROVE  ShutdownInv'
<1> USE DEF StopDaemon, Fails
<1>0. TypeOK /\ OwnInv /\ GroupInv /\ PhaseInv /\ ShareInv BY DEF ShutdownInv, RunInv
<1>1. TypeOK'
  <2>1. daemonAsked' \in BOOLEAN BY <1>0 DEF TypeOK
  <2>2. errs' \subseteq Phases BY <1>0 DEF TypeOK, Phases
  <2> QED BY <1>0, <2>1, <2>2 DEF TypeOK, Labels
<1>2. OwnInv' BY <1>0 DEF TypeOK, OwnInv
<1>3. GroupInv' BY <1>0 DEF TypeOK, OwnInv, GroupInv, PhaseInv, ShareInv, Terminating, Executing
<1>4. PhaseInv' BY <1>0 DEF TypeOK, OwnInv, PhaseInv, ShareInv, Terminating, Executing
<1>5. ShareInv' BY <1>0 DEF TypeOK, OwnInv, PhaseInv, ShareInv, Terminating, Executing
<1> QED BY <1>1, <1>2, <1>3, <1>4, <1>5 DEF ShutdownInv, RunInv

LEMMA CleanupKeeps ==
  ASSUME ShutdownInv, NEW p \in Callers, Cleanup(p)
  PROVE  ShutdownInv'
<1> USE DEF Cleanup, CleanupOwnedInstancePaths, Fails
<1>0. TypeOK /\ OwnInv /\ GroupInv /\ PhaseInv /\ ShareInv BY DEF ShutdownInv, RunInv
<1>1. TypeOK'
  <2>1. files' \in BOOLEAN BY <1>0 DEF TypeOK
  <2>2. home' \in BOOLEAN BY <1>0 DEF TypeOK
  <2>3. errs' \subseteq Phases BY <1>0 DEF TypeOK, Phases
  <2> QED BY <1>0, <2>1, <2>2, <2>3 DEF TypeOK, Labels
<1>2. OwnInv' BY <1>0 DEF TypeOK, OwnInv
<1>3. GroupInv' BY <1>0 DEF TypeOK, OwnInv, GroupInv, PhaseInv, ShareInv, Terminating, Executing
<1>4. PhaseInv' BY <1>0 DEF TypeOK, OwnInv, PhaseInv, ShareInv, Terminating, Executing
<1>5. ShareInv' BY <1>0 DEF TypeOK, OwnInv, PhaseInv, ShareInv, Terminating, Executing
<1> QED BY <1>1, <1>2, <1>3, <1>4, <1>5 DEF ShutdownInv, RunInv

LEMMA FinishKeeps ==
  ASSUME ShutdownInv, NEW p \in Callers, FinishShutdown(p)
  PROVE  ShutdownInv'
<1> USE DEF FinishShutdown
<1>0. TypeOK /\ OwnInv /\ GroupInv /\ PhaseInv /\ ShareInv BY DEF ShutdownInv, RunInv
<1>1. TypeOK'
  <2>1. finished' \in BOOLEAN BY <1>0 DEF TypeOK
  <2>2. result' \subseteq Results BY <1>0 DEF TypeOK, Results
  <2> QED BY <1>0, <2>1, <2>2 DEF TypeOK, Labels
<1>2. OwnInv' BY <1>0 DEF TypeOK, OwnInv
<1>3. GroupInv' BY <1>0 DEF TypeOK, OwnInv, GroupInv, PhaseInv, ShareInv, Terminating, Executing
<1>4. PhaseInv' BY <1>0 DEF TypeOK, OwnInv, PhaseInv, ShareInv, Terminating, Executing
<1>5. ShareInv' BY <1>0 DEF TypeOK, OwnInv, PhaseInv, ShareInv, Terminating, Executing
<1> QED BY <1>1, <1>2, <1>3, <1>4, <1>5 DEF ShutdownInv, RunInv

LEMMA ReturnKeeps ==
  ASSUME ShutdownInv, NEW p \in Callers, Return(p)
  PROVE  ShutdownInv'
<1> USE DEF Return
<1>0. TypeOK /\ OwnInv /\ GroupInv /\ PhaseInv /\ ShareInv BY DEF ShutdownInv, RunInv
<1>1. TypeOK' BY <1>0 DEF TypeOK, Labels
<1>2. OwnInv' BY <1>0 DEF TypeOK, OwnInv
<1>3. GroupInv' BY <1>0 DEF TypeOK, OwnInv, GroupInv, PhaseInv, ShareInv, Terminating, Executing
<1>4. PhaseInv' BY <1>0 DEF TypeOK, OwnInv, PhaseInv, ShareInv, Terminating, Executing
<1>5. ShareInv' BY <1>0 DEF TypeOK, OwnInv, PhaseInv, ShareInv, Terminating, Executing
<1> QED BY <1>1, <1>2, <1>3, <1>4, <1>5 DEF ShutdownInv, RunInv

-----------------------------------------------------------------------------
(* The invariant *)

LEMMA InitShutdownInv == Init => ShutdownInv
<1> SUFFICES ASSUME Init PROVE ShutdownInv
  OBVIOUS
<1>1. TypeOK
  BY ContextAssumption DEF Init, CallerContexts, TypeOK, Labels, Phases, None
<1>2. OwnInv /\ GroupInv /\ PhaseInv /\ ShareInv
  BY DEF Init, OwnInv, GroupInv, PhaseInv, ShareInv, Terminating, Executing, None
<1> QED BY <1>1, <1>2 DEF ShutdownInv, RunInv

LEMMA NextShutdownInv == ShutdownInv /\ [Next]_vars => ShutdownInv'
<1> SUFFICES ASSUME ShutdownInv, [Next]_vars PROVE ShutdownInv'
  OBVIOUS
<1>1. CASE Group
  <2>1. UNCHANGED <<started, finished, owner, result, causes, errs, ret, pc>>
    BY <1>1 DEF Group, BridgeExits, KidsExit, WaitForCommandExit
  <2>2. ShareInv' BY <2>1 DEF ShutdownInv, ShareInv
  <2> QED BY <1>1, <2>2, GroupKeeps DEF ShutdownInv
<1>2. CASE ClientSide BY <1>2, ClientSideKeeps
<1>3. ASSUME NEW p \in Callers, BeginShutdown(p) PROVE ShutdownInv'
  BY <1>3, BeginKeeps
<1>4. ASSUME NEW p \in Callers, Contexts(p) PROVE ShutdownInv'
  BY <1>4, ContextsKeep
<1>5. ASSUME NEW p \in Callers, TerminateProcessGroup(p) PROVE ShutdownInv'
  BY <1>5, TerminateKeeps, TerminateShares DEF ShutdownInv
<1>6. ASSUME NEW p \in Callers, StopDaemon(p) \/ Cleanup(p) \/ FinishShutdown(p) \/ Return(p)
      PROVE ShutdownInv'
  BY <1>6, StopDaemonKeeps, CleanupKeeps, FinishKeeps, ReturnKeeps
<1>7. CASE UNCHANGED vars
  <2>1. TypeOK' BY <1>7 DEF ShutdownInv, RunInv, TypeOK, vars
  <2>2. OwnInv' /\ GroupInv' /\ PhaseInv' /\ ShareInv'
    BY <1>7 DEF ShutdownInv, RunInv, OwnInv, GroupInv, PhaseInv, ShareInv, vars
  <2> QED BY <2>1, <2>2 DEF ShutdownInv, RunInv
<1> QED BY <1>1, <1>2, <1>3, <1>4, <1>5, <1>6, <1>7 DEF Next, Running

(* The invariant holds in every reachable state. *)
THEOREM ShutdownInvInvariant == Spec => []ShutdownInv
BY InitShutdownInv, NextShutdownInv, PTL DEF Spec

-----------------------------------------------------------------------------
(* What it means for the callers *)

(* DetachInstance and Close never hand out the same instance twice.         *)
THEOREM OneOwner == Spec => []OwnershipExclusive
<1>1. ASSUME ShutdownInv PROVE OwnershipExclusive
  <2>1. CASE grants = {} BY <2>1, FS_EmptySet DEF OwnershipExclusive
  <2>2. CASE grants # {}
    <3>1. PICK x : x \in grants BY <2>2
    <3>2. grants = {x} BY <1>1, <3>1 DEF ShutdownInv, RunInv, OwnInv
    <3> QED BY <3>2, FS_Singleton DEF OwnershipExclusive
  <2> QED BY <2>1, <2>2
<1> QED BY <1>1, ShutdownInvInvariant, PTL

(* All callers of Shutdown get the result of the one that ran the phases.   *)
THEOREM OneResult == Spec => []SharedResult
<1>1. ShutdownInv => SharedResult
  BY DEF ShutdownInv, ShareInv, SharedResult
<1> QED BY <1>1, ShutdownInvInvariant, PTL

(* A result without an error means that the runtime is gone.                *)
THEOREM CleanResult == Spec => []NilMeansClean
<1>1. ShutdownInv => NilMeansClean
  BY DEF ShutdownInv, RunInv, TypeOK, GroupInv, PhaseInv, ShareInv, NilMeansClean
<1> QED BY <1>1, ShutdownInvInvariant, PTL

(* watchBridgeExit never blames the bridge for an exit the SDK asked for.   *)
THEOREM OwnExitQuiet == Spec => OwnExitNotReported
<1>1. ShutdownInv /\ [Next]_vars => [told' # told => ~started]_vars
  <2> SUFFICES ASSUME ShutdownInv, Next, told' # told PROVE ~started
    BY DEF vars
  <2>1. MonitorReports
    BY DEF Next, Group, BridgeExits, KidsExit, WaitForCommandExit, ClientSide, DetachInstance,
           Close, CloseEnd, StaleDisconnect, MonitorWakes, BeginShutdown, Contexts, WatchContext,
           ContextEnds, WatcherFires, Running, StopDaemon, TerminateProcessGroup, Probe, SignalTerm,
           Grace, Recheck, CheckAlive, LastCheck, SignalKill, WaitForProcessReap, Reported,
           Cleanup, FinishShutdown, Return
  <2>2. attached BY <2>1 DEF MonitorReports
  <2> QED BY <2>2 DEF ShutdownInv, RunInv, OwnInv
<1> QED BY <1>1, ShutdownInvInvariant, PTL DEF Spec, OwnExitNotReported

(* No signal is sent to the process group once its leader's exit is known.  *)
THEOREM NoLateSignal == Spec => NoSignalAfterReport
<1>1. ShutdownInv /\ [Next]_vars => [signal' # signal => waitDone # "taken"]_vars
  <2> SUFFICES ASSUME ShutdownInv, Next, signal' # signal PROVE waitDone # "taken"
    BY DEF vars
  <2>1. PICK p \in Callers : SignalTerm(p) \/ SignalKill(p)
    BY DEF Next, Group, BridgeExits, KidsExit, WaitForCommandExit, ClientSide, DetachInstance,
           Close, CloseEnd, StaleDisconnect, MonitorWakes, MonitorReports, BeginShutdown, Contexts,
           WatchContext, ContextEnds, WatcherFires, Running, StopDaemon, TerminateProcessGroup,
           Probe, Grace, Recheck, CheckAlive, LastCheck, WaitForProcessReap, Reported,
           Cleanup, FinishShutdown, Return
  <2> QED BY <2>1 DEF ShutdownInv, RunInv, GroupInv, Terminating, SignalTerm, SignalKill
<1> QED BY <1>1, ShutdownInvInvariant, PTL DEF Spec, NoSignalAfterReport
=============================================================================
