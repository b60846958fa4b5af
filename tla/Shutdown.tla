------------------------------ MODULE Shutdown ------------------------------
(***************************************************************************)
(* The ownership and the shutdown of a private runtime: Client.Close,      *)
(* DetachInstance and watchBridgeExit (client.go), the shared shutdown of  *)
(* a launchedInstance (launch.go) and the termination of its process group *)
(* (process_unix.go).                                                      *)
(*                                                                         *)
(* "client" is Client.closeWith; Users call DetachInstance and, once one   *)
(* of them has been handed the instance, Shutdown or ShutdownInstance.     *)
(* The first caller of shutdown runs the phases, the others wait for it.   *)
(* The bridge is the leader of the process group, kids its descendants in  *)
(* the group; the goroutine of waitForCommandExit reaps the leader and     *)
(* reports it on waitDone.                                                 *)
(***************************************************************************)
EXTENDS Naturals, FiniteSets

CONSTANTS
  Users,
  SupportedBridge,   \* the leader outlives its descendants unless killed
  ContextKinds,      \* what the users' contexts may be when they call
  MayFail            \* the system calls that may fail, by phase; bounds errs

Callers == Users \cup {"client"}

ASSUME UsersAssumption == "client" \notin Users
ASSUME SupportedAssumption == SupportedBridge \in BOOLEAN
ASSUME ContextAssumption == ContextKinds \subseteq {"background", "live", "done"}
ASSUME MayFailAssumption == MayFail \subseteq {"daemon", "term", "alive", "kill", "cleanup"}

VARIABLES
  cstate,       \* c.state: "open", "closing" or "closed"
  attached,     \* c.instance # nil
  monitor,      \* c.bridgeMonitor is the monitor of this instance
  mpc,          \* watchBridgeExit: "select", "check" or "gone"
  grants,       \* whom the instance was handed to: a caller of DetachInstance, or closeWith
  told,         \* the turns were failed with ErrBridgeExited
  bridge,       \* "absent" before a launch starts it, "running", "zombie" or "reaped"
  kids,         \* descendants alive in the process group
  waitDone,     \* "none", "sent" or "taken"
  bridgeDone,   \* i.bridgeDone is closed
  recorded,     \* i.daemonPID was read at launch
  daemonAsked,  \* SIGTERM was sent to the daemon
  ephemeral,    \* the home was created by the SDK
  files, home,  \* the runtime files and the home exist
  started,      \* i.shutdownStarted
  finished,     \* i.shutdownFinished and shutdownDone closed
  owner,        \* the caller that runs the phases
  forceKill,    \* i.shutdownForceKill is closed
  causes,       \* i.shutdownContextErrs, by caller
  errs,         \* the phases that failed
  result,       \* i.shutdownErr, {} until it is stored
  ctx,          \* each caller's context: "background", "live" or "done"
  armed,        \* callers with a goroutine watching their context
  signal,       \* the last signal sent to the process group
  ret,          \* what each caller got, {} before it returns
  pc

clientVars == <<cstate, attached, monitor, mpc, grants, told>>
groupVars == <<bridge, kids, waitDone, bridgeDone>>
pathVars == <<recorded, daemonAsked, ephemeral, files, home>>
shareVars == <<started, finished, owner, result>>
contextVars == <<forceKill, causes, ctx, armed>>
vars == <<clientVars, groupVars, pathVars, shareVars, contextVars, errs, signal, ret, pc>>

None == "none"
Phases == {"daemon", "term", "alive", "kill", "reap", "cleanup"}
Results == [errs : SUBSET Phases, causes : SUBSET Callers]
Goto(p, label) == pc' = [pc EXCEPT ![p] = label]
Fails(phase) == phase \in MayFail /\ errs' = errs \cup {phase}

(* Close and Shutdown use context.Background(). *)
CallerContexts ==
  /\ ctx \in [Callers -> ContextKinds \cup {"background"}]
  /\ ctx["client"] = "background" /\ \A u \in Users : ctx[u] \in ContextKinds

(* Launch hands the instance to its client, LaunchInstance to the caller. *)
Init ==
  /\ cstate = "open" /\ told = FALSE
  /\ \/ attached = TRUE /\ monitor = TRUE /\ mpc = "select" /\ grants = {}
     \/ attached = FALSE /\ monitor = FALSE /\ mpc = "gone" /\ \E u \in Users : grants = {u}
  /\ bridge = "running" /\ kids \in BOOLEAN /\ waitDone = "none" /\ bridgeDone = FALSE
  /\ recorded \in BOOLEAN /\ daemonAsked = FALSE
  /\ ephemeral \in BOOLEAN /\ files = TRUE /\ home = TRUE
  /\ started = FALSE /\ finished = FALSE /\ owner = None /\ result = {}
  /\ forceKill = FALSE /\ causes = {} /\ armed = {}
  /\ CallerContexts
  /\ errs = {} /\ signal = None
  /\ ret = [p \in Callers |-> {}] /\ pc = [p \in Callers |-> "idle"]

-----------------------------------------------------------------------------
(* The processes of the group and the goroutine that waits for the leader *)

BridgeExits ==
  /\ bridge = "running"
  /\ SupportedBridge => ~kids
  /\ bridge' = "zombie"
  /\ UNCHANGED <<clientVars, kids, waitDone, bridgeDone, pathVars, shareVars, contextVars, errs, signal, ret, pc>>

KidsExit ==
  /\ kids
  /\ kids' = FALSE
  /\ UNCHANGED <<clientVars, bridge, waitDone, bridgeDone, pathVars, shareVars, contextVars, errs, signal, ret, pc>>

(* cmd.Wait returns, its result is sent, bridgeDone is closed. *)
WaitForCommandExit ==
  /\ \/ bridge = "zombie" /\ bridge' = "reaped" /\ UNCHANGED <<waitDone, bridgeDone>>
     \/ bridge = "reaped" /\ waitDone = "none" /\ waitDone' = "sent" /\ UNCHANGED <<bridge, bridgeDone>>
     \/ waitDone # "none" /\ ~bridgeDone /\ bridgeDone' = TRUE /\ UNCHANGED <<bridge, waitDone>>
  /\ UNCHANGED <<clientVars, kids, pathVars, shareVars, contextVars, errs, signal, ret, pc>>

-----------------------------------------------------------------------------
(* The client's side *)

(* A mutation of DetachInstance: the client keeps the instance. *)
DetachInstanceKeeping(u) ==
  /\ u \in Users /\ pc[u] = "idle"
  /\ attached /\ cstate = "open"
  /\ monitor' = FALSE
  /\ grants' = grants \cup {u}
  /\ UNCHANGED <<cstate, attached, mpc, told, groupVars, pathVars, shareVars, contextVars, errs, signal, ret, pc>>

(* Under stateMu; a refusal changes nothing. *)
DetachInstance(u) ==
  /\ u \in Users /\ pc[u] = "idle"
  /\ attached /\ cstate = "open"
  /\ attached' = FALSE
  /\ monitor' = FALSE
  /\ grants' = grants \cup {u}
  /\ UNCHANGED <<cstate, mpc, told, groupVars, pathVars, shareVars, contextVars, errs, signal, ret, pc>>

(* closeWith claims the instance in the critical section that sets           *)
(* StateClosing.                                                             *)
Close ==
  /\ pc["client"] = "idle"
  /\ cstate' = "closing"
  /\ attached' = FALSE
  /\ monitor' = FALSE
  /\ grants' = IF attached THEN grants \cup {"client"} ELSE grants
  /\ Goto("client", IF attached THEN "claimed" ELSE "unowned")
  /\ UNCHANGED <<mpc, told, groupVars, pathVars, shareVars, contextVars, errs, signal, ret>>

(* ... and shuts it down, if there was one, after setting StateClosed. *)
CloseEnd ==
  /\ pc["client"] \in {"claimed", "unowned"}
  /\ cstate' = "closed"
  /\ Goto("client", IF pc["client"] = "claimed" THEN "begin" ELSE "closed")
  /\ UNCHANGED <<attached, monitor, mpc, grants, told, groupVars, pathVars, shareVars, contextVars, errs, signal, ret>>

(* A disconnect that passed its guard before Close (module Client) still     *)
(* sets StateDisconnected.                                                   *)
StaleDisconnect ==
  /\ cstate \in {"closing", "closed"}
  /\ cstate' = "open"
  /\ UNCHANGED <<attached, monitor, mpc, grants, told, groupVars, pathVars, shareVars, contextVars, errs, signal, ret, pc>>

(* The select of watchBridgeExit: the bridge is gone, or the monitor was     *)
(* cancelled or the client closed.                                           *)
MonitorWakes ==
  /\ mpc = "select"
  /\ \/ bridgeDone /\ mpc' = "check"
     \/ ~monitor /\ mpc' = "gone"
  /\ UNCHANGED <<cstate, attached, monitor, grants, told, groupVars, pathVars, shareVars, contextVars, errs, signal, ret, pc>>

(* A mutation of MonitorReports: it trusts what the select saw. *)
MonitorReportsUnchecked ==
  /\ mpc = "check"
  /\ told' = TRUE /\ monitor' = FALSE
  /\ mpc' = "gone"
  /\ UNCHANGED <<cstate, attached, grants, groupVars, pathVars, shareVars, contextVars, errs, signal, ret, pc>>

(* Its second look, under stateMu. *)
MonitorReports ==
  /\ mpc = "check"
  /\ IF monitor /\ attached /\ cstate = "open"
     THEN told' = TRUE /\ monitor' = FALSE
     ELSE UNCHANGED <<told, monitor>>
  /\ mpc' = "gone"
  /\ UNCHANGED <<cstate, attached, grants, groupVars, pathVars, shareVars, contextVars, errs, signal, ret, pc>>

-----------------------------------------------------------------------------
(* beginShutdown and requestShutdownEscalation *)

MayShutDown(p) ==
  IF p = "client" THEN pc[p] = "begin" ELSE pc[p] = "idle" /\ grants \cap Users # {}

BeginShutdown(p) ==
  /\ MayShutDown(p)
  /\ IF finished
     THEN Goto(p, "wait") /\ UNCHANGED shareVars
     ELSE /\ started' = TRUE
          /\ owner' = IF started THEN owner ELSE p
          /\ Goto(p, "escalate")
          /\ UNCHANGED <<finished, result>>
  /\ UNCHANGED <<clientVars, groupVars, pathVars, contextVars, errs, signal, ret>>

RequestShutdownEscalation(p) ==
  IF finished THEN UNCHANGED <<causes, forceKill>>
  ELSE causes' = causes \cup {p} /\ forceKill' = TRUE

(* A context that is already done escalates at once, another is watched. *)
WatchContext(p) ==
  /\ pc[p] = "escalate"
  /\ IF ctx[p] = "done" THEN RequestShutdownEscalation(p) ELSE UNCHANGED <<causes, forceKill>>
  /\ armed' = IF ctx[p] = "live" THEN armed \cup {p} ELSE armed
  /\ Goto(p, IF owner = p THEN "daemon" ELSE "wait")
  /\ UNCHANGED <<clientVars, groupVars, pathVars, shareVars, ctx, errs, signal, ret>>

ContextEnds(p) ==
  /\ ctx[p] = "live"
  /\ ctx' = [ctx EXCEPT ![p] = "done"]
  /\ UNCHANGED <<clientVars, groupVars, pathVars, shareVars, forceKill, causes, armed, errs, signal, ret, pc>>

WatcherFires(p) ==
  /\ p \in armed /\ ctx[p] = "done"
  /\ RequestShutdownEscalation(p)
  /\ armed' = armed \ {p}
  /\ UNCHANGED <<clientVars, groupVars, pathVars, shareVars, ctx, errs, signal, ret, pc>>

-----------------------------------------------------------------------------
(* runShutdown and terminateProcessGroup, by the owner *)

(* stopProcess on the recorded daemon, or on the one the registry names now. *)
StopDaemon(p) ==
  /\ pc[p] = "daemon"
  /\ \/ daemonAsked' = TRUE /\ UNCHANGED errs
     \/ daemonAsked' = FALSE /\ Fails("daemon")
     \/ ~recorded /\ UNCHANGED <<daemonAsked, errs>>
  /\ Goto(p, "probe")
  /\ UNCHANGED <<clientVars, groupVars, recorded, ephemeral, files, home, shareVars, contextVars, signal, ret>>

(* The select on waitDone that does not block: once the result of cmd.Wait  *)
(* is there the group is left alone.                                        *)
Reported(p, otherwise) ==
  /\ waitDone' = IF waitDone = "sent" THEN "taken" ELSE waitDone
  /\ Goto(p, IF waitDone = "sent" THEN "cleanup" ELSE otherwise)
  /\ UNCHANGED <<clientVars, bridge, kids, bridgeDone, pathVars, shareVars, contextVars, errs, signal, ret>>

Probe(p) == pc[p] = "probe" /\ Reported(p, "term")

(* SIGTERM to the group; what the processes do about it is their choice. *)
SignalTerm(p) ==
  /\ pc[p] = "term"
  /\ signal' = "term"
  /\ UNCHANGED errs \/ Fails("term")
  /\ Goto(p, "grace")
  /\ UNCHANGED <<clientVars, groupVars, pathVars, shareVars, contextVars, ret>>

(* Mutations of Grace: a leader that went during the grace period is killed *)
(* all the same, or the wait has no timer.                                  *)
GraceThenKill(p) ==
  /\ pc[p] = "grace"
  /\ waitDone' = IF waitDone = "sent" THEN "taken" ELSE waitDone
  /\ Goto(p, "kill")
  /\ UNCHANGED <<clientVars, bridge, kids, bridgeDone, pathVars, shareVars, contextVars, errs, signal, ret>>

GraceForever(p) ==
  /\ pc[p] = "grace"
  /\ \/ waitDone = "sent" /\ Reported(p, "recheck")
     \/ /\ forceKill
        /\ Goto(p, "recheck")
        /\ UNCHANGED <<clientVars, groupVars, pathVars, shareVars, contextVars, errs, signal, ret>>

(* The result of Wait, or the grace timer or forceKill. *)
Grace(p) ==
  /\ pc[p] = "grace"
  /\ \/ waitDone = "sent" /\ Reported(p, "recheck")
     \/ /\ Goto(p, "recheck")
        /\ UNCHANGED <<clientVars, groupVars, pathVars, shareVars, contextVars, errs, signal, ret>>

Recheck(p) == pc[p] = "recheck" /\ Reported(p, "alive")

(* processGroupAlive: an error counts as alive. *)
CheckAlive(p) ==
  /\ pc[p] = "alive"
  /\ \/ /\ Goto(p, IF bridge # "reaped" \/ kids THEN "lastcheck" ELSE "reap")
        /\ UNCHANGED errs
     \/ /\ Goto(p, "lastcheck")
        /\ Fails("alive")
  /\ UNCHANGED <<clientVars, groupVars, pathVars, shareVars, contextVars, signal, ret>>

LastCheck(p) == pc[p] = "lastcheck" /\ Reported(p, "kill")

SignalKill(p) ==
  /\ pc[p] = "kill"
  /\ signal' = "kill"
  /\ \/ /\ bridge' = IF bridge = "running" THEN "zombie" ELSE bridge
        /\ kids' = FALSE
        /\ UNCHANGED errs
     \/ Fails("kill") /\ UNCHANGED <<bridge, kids>>
  /\ Goto(p, "reap")
  /\ UNCHANGED <<clientVars, waitDone, bridgeDone, pathVars, shareVars, contextVars, ret>>

(* A mutation of WaitForProcessReap: a timeout is not reported. *)
WaitForProcessReapQuiet(p) ==
  /\ pc[p] = "reap"
  /\ waitDone' = IF waitDone = "sent" THEN "taken" ELSE waitDone
  /\ Goto(p, "cleanup")
  /\ UNCHANGED <<clientVars, bridge, kids, bridgeDone, pathVars, shareVars, contextVars, errs, signal, ret>>

WaitForProcessReap(p) ==
  /\ pc[p] = "reap"
  /\ \/ waitDone = "sent" /\ waitDone' = "taken" /\ UNCHANGED errs
     \/ errs' = errs \cup {"reap"} /\ UNCHANGED waitDone
  /\ Goto(p, "cleanup")
  /\ UNCHANGED <<clientVars, bridge, kids, bridgeDone, pathVars, shareVars, contextVars, signal, ret>>

(* The runtime files, then the home if the SDK made it, also when the files  *)
(* could not be removed; the runtime directory lies in the home.             *)
CleanupOwnedInstancePaths ==
  \E filesLeft \in BOOLEAN, homeLeft \in BOOLEAN :
    /\ ~ephemeral => homeLeft
    /\ home' = homeLeft
    /\ files' = (filesLeft /\ homeLeft)
    /\ IF filesLeft \/ (ephemeral /\ homeLeft) THEN Fails("cleanup") ELSE UNCHANGED errs

Cleanup(p) ==
  /\ pc[p] = "cleanup"
  /\ CleanupOwnedInstancePaths
  /\ Goto(p, "finish")
  /\ UNCHANGED <<clientVars, groupVars, recorded, daemonAsked, ephemeral, shareVars, contextVars, signal, ret>>

(* A mutation of FinishShutdown: the context causes are not joined in. *)
FinishShutdownPhasesOnly(p) ==
  /\ pc[p] = "finish"
  /\ result' = {[errs |-> errs]}
  /\ finished' = TRUE
  /\ Goto(p, "wait")
  /\ UNCHANGED <<clientVars, groupVars, pathVars, started, owner, contextVars, errs, signal, ret>>

FinishShutdown(p) ==
  /\ pc[p] = "finish"
  /\ result' = {[errs |-> errs, causes |-> causes]}
  /\ finished' = TRUE
  /\ Goto(p, "wait")
  /\ UNCHANGED <<clientVars, groupVars, pathVars, started, owner, contextVars, errs, signal, ret>>

(* A mutation of Return: a caller's own context is looked at once more. *)
ReturnJoining(p) ==
  /\ pc[p] = "wait"
  /\ finished
  /\ ret' = [ret EXCEPT ![p] = {[r EXCEPT !.causes = IF ctx[p] = "done" THEN @ \cup {p} ELSE @] : r \in result}]
  /\ Goto(p, "done")
  /\ UNCHANGED <<clientVars, groupVars, pathVars, shareVars, contextVars, errs, signal>>

Return(p) ==
  /\ pc[p] = "wait"
  /\ finished
  /\ ret' = [ret EXCEPT ![p] = result]
  /\ Goto(p, "done")
  /\ UNCHANGED <<clientVars, groupVars, pathVars, shareVars, contextVars, errs, signal>>

-----------------------------------------------------------------------------
Group == BridgeExits \/ KidsExit \/ WaitForCommandExit

ClientSide ==
  \/ \E u \in Users : DetachInstance(u)
  \/ Close \/ CloseEnd \/ StaleDisconnect \/ MonitorWakes \/ MonitorReports

Contexts(p) == WatchContext(p) \/ ContextEnds(p) \/ WatcherFires(p)

TerminateProcessGroup(p) ==
  \/ Probe(p) \/ SignalTerm(p) \/ Grace(p) \/ Recheck(p) \/ CheckAlive(p)
  \/ LastCheck(p) \/ SignalKill(p) \/ WaitForProcessReap(p)

Running(p) == StopDaemon(p) \/ TerminateProcessGroup(p) \/ Cleanup(p) \/ FinishShutdown(p)

Next ==
  \/ Group \/ ClientSide
  \/ \E p \in Callers : BeginShutdown(p) \/ Contexts(p) \/ Running(p) \/ Return(p)

Spec == Init /\ [][Next]_vars

(* Goroutines run, the waits of a termination have timers and the kernel     *)
(* reports the exit of a child.                                              *)
FairShutdown ==
  /\ Spec
  /\ WF_vars(WaitForCommandExit)
  /\ WF_vars(CloseEnd \/ (pc["client"] = "begin" /\ BeginShutdown("client")))
  /\ \A p \in Callers : WF_vars(WatchContext(p) \/ Running(p) \/ Return(p))

-----------------------------------------------------------------------------
(* Properties *)

Labels ==
  {"idle", "claimed", "unowned", "closed", "begin", "escalate", "daemon", "probe", "term", "grace",
   "recheck", "alive", "lastcheck", "kill", "reap", "cleanup", "finish", "wait", "done"}

(* Every variable stays in its domain. *)
TypeOK ==
  /\ cstate \in {"open", "closing", "closed"} /\ attached \in BOOLEAN /\ monitor \in BOOLEAN
  /\ mpc \in {"select", "check", "gone"} /\ grants \subseteq Callers /\ told \in BOOLEAN
  /\ bridge \in {"absent", "running", "zombie", "reaped"} /\ kids \in BOOLEAN
  /\ waitDone \in {"none", "sent", "taken"} /\ bridgeDone \in BOOLEAN
  /\ recorded \in BOOLEAN /\ daemonAsked \in BOOLEAN /\ ephemeral \in BOOLEAN
  /\ files \in BOOLEAN /\ home \in BOOLEAN
  /\ started \in BOOLEAN /\ finished \in BOOLEAN /\ owner \in Callers \cup {None}
  /\ forceKill \in BOOLEAN /\ causes \subseteq Callers /\ armed \subseteq Callers
  /\ ctx \in [Callers -> {"background", "live", "done"}]
  /\ errs \subseteq Phases /\ signal \in {None, "term", "kill"}
  /\ result \subseteq Results /\ DOMAIN ret = Callers /\ \A p \in Callers : ret[p] \subseteq Results
  /\ pc \in [Callers -> Labels]

(* Close and DetachInstance race, also after a stale disconnect has undone   *)
(* StateClosing, and the instance goes to exactly one of them.               *)
OwnershipExclusive == Cardinality(grants) <= 1

(* Concurrent callers of Shutdown all get one and the same result. *)
SharedResult ==
  \A p, q \in Callers : ret[p] # {} /\ ret[q] # {} => ret[p] = ret[q]

(* A result without a failed phase means the runtime is gone: the leader was *)
(* reaped, no descendant is left in its group (given a supported bridge),    *)
(* the runtime files and an SDK-made home are removed, a home of the         *)
(* caller's is kept, and a recorded daemon was told to stop.                 *)
NilMeansClean ==
  (\E r \in result : r.errs = {}) =>
    /\ bridge = "reaped"
    /\ SupportedBridge => ~kids
    /\ ~files /\ (home <=> ~ephemeral)
    /\ recorded => daemonAsked

(* Turns are failed with ErrBridgeExited only for an exit that is not the    *)
(* SDK's own doing: never once a shutdown of the instance has begun.         *)
OwnExitNotReported == [][told' # told => ~started]_vars

(* After the SDK has received the result of cmd.Wait it sends no signal to   *)
(* the process group, whose number may belong to someone else by then.       *)
NoSignalAfterReport == [][signal' # signal => waitDone # "taken"]_vars

(* Every call of Shutdown returns, the owner's and those that wait for it,   *)
(* whatever the bridge does with its signals: each caller calls once, so     *)
(* there is always a later time at which no call is under way.               *)
ShutdownReturns == []<>(\A p \in Callers : pc[p] \in {"idle", "claimed", "unowned", "closed", "done"})
=============================================================================
