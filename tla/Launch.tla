------------------------------- MODULE Launch -------------------------------
(***************************************************************************)
(* The start of a private runtime (launch.go): Launch and LaunchInstance,  *)
(* from an empty home to a client or an instance in the caller's hands, or *)
(* to a LaunchError after the cleanup of what was started; and from then   *)
(* on everything module Shutdown says about the instance.                  *)
(*                                                                         *)
(* The goroutine of Launch runs the phases of terminateProcessGroup and,   *)
(* after a failed dial or handshake, Shutdown, in the place of "client":   *)
(* no client has been handed out then.  lpc is where it is:                *)
(*   prepare, stale, credentials, start   before the bridge runs           *)
(*   poll                                 the loop that waits for the API  *)
(*   terminate, cleanup, shutdown         the ways back                    *)
(*   dial, handshake, attach              Launch's client                  *)
(*   failed, client, instance             what was returned                *)
(***************************************************************************)
EXTENDS Shutdown

CONSTANTS
  Apis,          \* "Launch", "LaunchInstance" or both
  HomeKinds,     \* LaunchOptions.JcodeHome: "temp" if empty, "own", or the user's jcode home, "user"
  StartFaults    \* the calls of the startup that may fail

ASSUME ApisAssumption == Apis \subseteq {"Launch", "LaunchInstance"}
ASSUME HomeKindsAssumption == HomeKinds \subseteq {"temp", "own", "user"}
ASSUME StartFaultsAssumption ==
  StartFaults \subseteq {"home", "stale", "credentials", "start", "dial", "handshake"}

VARIABLES
  lpc,
  homeKind,
  code        \* LaunchError.Code

launchVars == <<lpc, code, homeKind>>
allVars == <<vars, launchVars>>

Codes == {"missing_binary", "startup_failed", "startup_timeout", "handshake_failed", "transport_failed"}
Returned == {"failed", "client", "instance"}

(* A home of the caller's may hold the runtime files of an earlier run, the *)
(* user's jcode home holds those of the shared runtime.                     *)
LaunchInit ==
  /\ cstate = "open" /\ attached = FALSE /\ monitor = FALSE /\ mpc = "gone" /\ grants = {} /\ told = FALSE
  /\ bridge = "absent" /\ kids = FALSE /\ waitDone = "none" /\ bridgeDone = FALSE
  /\ recorded = FALSE /\ daemonAsked = FALSE
  /\ started = FALSE /\ finished = FALSE /\ owner = None /\ result = {}
  /\ forceKill = FALSE /\ causes = {} /\ armed = {}
  /\ CallerContexts
  /\ errs = {} /\ signal = None
  /\ ret = [p \in Callers |-> {}] /\ pc = [p \in Callers |-> "idle"]
  /\ lpc = "prepare" /\ code = None
  /\ homeKind \in HomeKinds
  /\ ephemeral = (homeKind = "temp")
  /\ home = ~ephemeral
  /\ files \in BOOLEAN /\ (homeKind = "temp" => ~files) /\ (homeKind = "user" => files)

-----------------------------------------------------------------------------
(* launchInstanceWithObserver before the process runs *)

MayFailAt(step) == step \in StartFaults

Fail(c, label) == code' = c /\ lpc' = label

(* MkdirTemp and ensurePrivateDirectory, for the home and its run directory: *)
(* before the owned paths are known only a home made by the SDK is removed,  *)
(* and an error of that is dropped.                                          *)
PrepareHome ==
  /\ lpc = "prepare"
  /\ \/ home' = TRUE /\ lpc' = "stale" /\ UNCHANGED <<code, errs>>
     \/ /\ MayFailAt("home")
        /\ Fail("startup_failed", "failed")
        /\ \/ home' = ~ephemeral /\ UNCHANGED errs
           \/ ephemeral /\ home' = TRUE /\ Fails("cleanup")
  /\ UNCHANGED <<homeKind, clientVars, groupVars, recorded, daemonAsked, ephemeral, files,
                 shareVars, contextVars, signal, ret, pc>>

(* os.Remove of every owned path; an error is dropped. *)
RemoveStalePaths ==
  /\ lpc = "stale"
  /\ files' = FALSE \/ (MayFailAt("stale") /\ UNCHANGED files)
  /\ lpc' = "credentials"
  /\ UNCHANGED <<code, homeKind, clientVars, groupVars, recorded, daemonAsked, ephemeral, home,
                 shareVars, contextVars, errs, signal, ret, pc>>

(* inheritLaunchCredentials, unless InheritLogins is false: refused when the *)
(* private home is the user's own; the links and copies lie in the home and  *)
(* go with it.                                                               *)
InheritLaunchCredentials ==
  /\ lpc = "credentials"
  /\ \E inherit \in BOOLEAN :
       \/ (inherit => homeKind # "user") /\ lpc' = "start" /\ UNCHANGED code
       \/ inherit /\ (homeKind = "user" \/ MayFailAt("credentials")) /\ Fail("startup_failed", "cleanup")
  /\ UNCHANGED <<homeKind, vars>>

(* StderrPipe and startProcess.  A bridge that runs creates its files and    *)
(* may have descendants.                                                     *)
StartProcess ==
  /\ lpc = "start"
  /\ \/ /\ bridge' = "running" /\ kids' \in BOOLEAN /\ files' = TRUE
        /\ lpc' = "poll" /\ UNCHANGED code
     \/ /\ MayFailAt("start")
        /\ \E c \in {"missing_binary", "startup_failed"} : Fail(c, "cleanup")
        /\ UNCHANGED <<bridge, kids, files>>
  /\ UNCHANGED <<homeKind, clientVars, waitDone, bridgeDone, recorded, daemonAsked, ephemeral, home,
                 shareVars, contextVars, errs, signal, ret, pc>>

-----------------------------------------------------------------------------
(* The loop that waits for the API socket *)

(* The registry may name the daemon the bridge has started. *)
ReadDaemonPID == recorded' \in BOOLEAN

(* socketAccepts: the bridge or a descendant that inherited the socket       *)
(* listens, or the server of an earlier run whose socket is still there.     *)
(* LaunchInstance hands the instance to its caller.                          *)
SocketReady ==
  /\ lpc = "poll"
  /\ bridge = "running" \/ kids \/ (MayFailAt("stale") /\ homeKind # "temp")
  /\ ReadDaemonPID
  /\ \/ "Launch" \in Apis /\ lpc' = "dial" /\ UNCHANGED grants
     \/ "LaunchInstance" \in Apis /\ lpc' = "instance" /\ \E u \in Users : grants' = {u}
  /\ UNCHANGED <<code, homeKind, cstate, attached, monitor, mpc, told, groupVars, daemonAsked, ephemeral,
                 files, home, shareVars, contextVars, errs, signal, ret, pc>>

(* The bridge has gone: collectStderr, which is bounded, then the cleanup. *)
BridgeGone ==
  /\ lpc = "poll"
  /\ waitDone = "sent" /\ waitDone' = "taken"
  /\ Fail("startup_failed", "cleanup")
  /\ UNCHANGED <<homeKind, clientVars, bridge, kids, bridgeDone, pathVars, shareVars, contextVars,
                 errs, signal, ret, pc>>

(* Mutations of StartupTimeout: the group is left running, or the loop does  *)
(* not look at the deadline while the bridge lives.                          *)
StartupTimeoutAbandons ==
  /\ lpc = "poll"
  /\ Fail("startup_timeout", "cleanup")
  /\ UNCHANGED <<homeKind, vars>>

StartupTimeoutUnchecked ==
  /\ lpc = "poll" /\ bridge = "reaped"
  /\ Fail("startup_timeout", "terminate")
  /\ Goto("client", "probe")
  /\ UNCHANGED <<homeKind, clientVars, groupVars, pathVars, shareVars, contextVars, errs, signal, ret>>

(* The deadline: terminateProcess, without a forceKill channel. *)
StartupTimeout ==
  /\ lpc = "poll"
  /\ Fail("startup_timeout", "terminate")
  /\ Goto("client", "probe")
  /\ UNCHANGED <<homeKind, clientVars, groupVars, pathVars, shareVars, contextVars, errs, signal, ret>>

Terminate ==
  /\ lpc = "terminate"
  /\ TerminateProcessGroup("client")
  /\ UNCHANGED launchVars

(* cleanupOnError; its error is dropped. *)
CleanupOnError ==
  /\ lpc = "cleanup" \/ (lpc = "terminate" /\ pc["client"] = "cleanup")
  /\ CleanupOwnedInstancePaths
  /\ lpc' = "failed"
  /\ Goto("client", "idle")
  /\ UNCHANGED <<code, homeKind, clientVars, groupVars, recorded, daemonAsked, ephemeral,
                 shareVars, contextVars, signal, ret>>

-----------------------------------------------------------------------------
(* Launch: a client for the instance *)

(* A mutation of ConnectFails: the instance is not shut down. *)
ConnectFailsAbandoning(step, c) ==
  /\ lpc = step
  /\ MayFailAt(step)
  /\ Fail(c, "failed")
  /\ UNCHANGED <<homeKind, vars>>

(* instance.Shutdown(), whose error is dropped. *)
ConnectFails(step, c) ==
  /\ lpc = step
  /\ MayFailAt(step)
  /\ Fail(c, "shutdown")
  /\ grants' = {"client"}
  /\ Goto("client", "begin")
  /\ UNCHANGED <<homeKind, cstate, attached, monitor, mpc, told, groupVars, pathVars, shareVars, contextVars,
                 errs, signal, ret>>

LaunchFails ==
  /\ lpc = "shutdown" /\ pc["client"] = "done"
  /\ lpc' = "failed"
  /\ UNCHANGED <<code, homeKind, vars>>

(* dialUnix, then NewClient. *)
Connected ==
  /\ \/ lpc = "dial" /\ lpc' = "handshake"
     \/ lpc = "handshake" /\ lpc' = "attach"
  /\ UNCHANGED <<code, homeKind, vars>>

(* A mutation of SetInstance: a bridge that has already exited gets no       *)
(* monitor.                                                                  *)
SetInstanceIfRunning ==
  /\ lpc = "attach"
  /\ attached' = TRUE /\ monitor' = ~bridgeDone
  /\ mpc' = IF bridgeDone THEN "gone" ELSE "select"
  /\ lpc' = "client"
  /\ UNCHANGED <<code, homeKind, cstate, grants, told, groupVars, pathVars, shareVars, contextVars, errs,
                 signal, ret, pc>>

SetInstance ==
  /\ lpc = "attach"
  /\ attached' = TRUE /\ monitor' = TRUE /\ mpc' = "select"
  /\ lpc' = "client"
  /\ UNCHANGED <<code, homeKind, cstate, grants, told, groupVars, pathVars, shareVars, contextVars, errs,
                 signal, ret, pc>>

-----------------------------------------------------------------------------
Starting ==
  \/ PrepareHome \/ RemoveStalePaths \/ InheritLaunchCredentials \/ StartProcess
  \/ SocketReady \/ BridgeGone \/ StartupTimeout \/ Terminate \/ CleanupOnError

Connecting ==
  \/ ConnectFails("dial", "transport_failed") \/ ConnectFails("handshake", "handshake_failed")
  \/ LaunchFails \/ Connected \/ SetInstance

(* The instance has an owner: Launch itself on its way back, the client it   *)
(* returned or the caller of LaunchInstance.                                 *)
Owned ==
  /\ lpc \in {"shutdown", "client", "instance"}
  /\ \/ lpc = "client" /\ ClientSide
     \/ \E p \in Callers : BeginShutdown(p) \/ WatchContext(p) \/ WatcherFires(p) \/ Running(p) \/ Return(p)

LaunchNext ==
  \/ Starting \/ Connecting
  \/ (Owned \/ Group \/ (\E p \in Callers : ContextEnds(p))) /\ UNCHANGED launchVars

LaunchSpec == LaunchInit /\ [][LaunchNext]_allVars

(* Goroutines run, the startup loop has a deadline, every wait of a          *)
(* termination has a timer and the kernel reports the exit of a child.  A    *)
(* dial and a handshake end: the socket answers or the request times out.    *)
(* The bridge need not open its socket, nor heed a signal but SIGKILL.       *)
FairSpec ==
  /\ LaunchSpec
  /\ WF_allVars(PrepareHome \/ RemoveStalePaths \/ InheritLaunchCredentials \/ StartProcess)
  /\ WF_allVars(StartupTimeout) /\ WF_allVars(Terminate \/ CleanupOnError) /\ WF_allVars(Connecting)
  /\ WF_allVars(WaitForCommandExit /\ UNCHANGED launchVars)
  /\ WF_allVars((MonitorWakes \/ MonitorReports) /\ UNCHANGED launchVars)
  /\ WF_allVars(CloseEnd /\ UNCHANGED launchVars)
  /\ WF_allVars(pc["client"] = "begin" /\ BeginShutdown("client") /\ UNCHANGED launchVars)
  /\ \A p \in Callers :
       WF_allVars(lpc # "terminate" /\ (WatchContext(p) \/ Running(p) \/ Return(p)) /\ UNCHANGED launchVars)

-----------------------------------------------------------------------------
(* Properties *)

(* Every variable stays in its domain. *)
LaunchTypeOK ==
  /\ TypeOK
  /\ lpc \in {"prepare", "stale", "credentials", "start", "poll", "terminate", "cleanup", "dial",
              "handshake", "attach", "shutdown"} \cup Returned
  /\ homeKind \in HomeKinds
  /\ code \in Codes \cup {None}

(* A launch that fails leaves nothing behind, wherever it failed and         *)
(* whatever the bridge was doing: no process of the group, none of the       *)
(* bridge's files, no home of the SDK's; and a home of the caller's is kept. *)
(* Unless one of the steps of the way back failed.                           *)
FailedLaunchLeavesNothing ==
  lpc = "failed" /\ errs = {} =>
    /\ bridge \in {"absent", "reaped"} /\ (SupportedBridge => ~kids)
    /\ bridge # "absent" => ~files
    /\ home = ~ephemeral

(* The code of a LaunchError tells how far the launch came: before the       *)
(* bridge ran, while its socket was awaited, or after an instance existed,   *)
(* which then was shut down.                                                 *)
CodeTellsPhase ==
  lpc = "failed" =>
    CASE code = "missing_binary" -> bridge = "absent"
      [] code \in {"handshake_failed", "transport_failed"} -> finished
      [] code = "startup_timeout" -> bridge # "absent" /\ ~started
      [] OTHER -> code = "startup_failed" /\ bridge \in {"absent", "reaped"}

(* Launch and LaunchInstance return, whatever the bridge does.               *)
LaunchReturns == lpc \notin Returned ~> lpc \in Returned

(* The exit of the bridge reaches the turns of an attached client, also one  *)
(* that came before setInstance.                                             *)
BridgeExitReported == lpc = "client" /\ bridgeDone ~> told \/ ~attached
=============================================================================
