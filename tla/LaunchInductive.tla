--------------------------- MODULE LaunchInductive ---------------------------
(***************************************************************************)
(* The inductive invariant behind the theorems of LaunchProofs.  While the *)
(* launch owns what it has started nobody else does anything with it, and  *)
(* once it has handed it to somebody the invariant of Shutdown holds.      *)
(***************************************************************************)
EXTENDS Launch, ShutdownInductive

BeforeBridge == {"prepare", "stale", "credentials", "start"}
Unowned == BeforeBridge \cup {"poll", "terminate", "cleanup", "dial", "handshake", "attach"}

(* No instance has been handed out, and no goroutine but that of Launch     *)
(* runs, which is in terminateProcessGroup after the deadline.              *)
UnownedInv ==
  lpc \in Unowned =>
    /\ ~started /\ ~finished /\ ~attached /\ grants = {} /\ result = {}
    /\ \A p \in Callers :
         /\ ret[p] = {}
         /\ IF lpc = "terminate" /\ p = "client"
            THEN pc[p] \in Terminating \cup {"cleanup"}
            ELSE pc[p] = "idle"

(* What lpc and code say about the bridge.                                  *)
StageInv ==
  /\ lpc \in BeforeBridge => bridge = "absent"
  /\ lpc \in {"poll", "dial", "handshake", "attach"} => bridge # "absent" /\ waitDone # "taken"
  /\ lpc \in BeforeBridge \cup {"poll", "terminate"} => ~recorded
  /\ lpc = "terminate" => bridge # "absent" /\ code = "startup_timeout"
  /\ lpc = "cleanup" =>
       \/ code \in {"missing_binary", "startup_failed"} /\ bridge = "absent"
       \/ code = "startup_failed" /\ bridge = "reaped"
  /\ lpc = "shutdown" => code \in {"handshake_failed", "transport_failed"}

LaunchInv ==
  /\ LaunchTypeOK /\ RunInv
  /\ lpc # "terminate" => ShareInv
  /\ UnownedInv /\ StageInv
  /\ FailedLaunchLeavesNothing /\ CodeTellsPhase
=============================================================================
