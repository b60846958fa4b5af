-------------------------- MODULE ShutdownInductive --------------------------
(***************************************************************************)
(* The inductive invariant behind the theorems of ShutdownProofs, in named *)
(* parts.  OwnInv, GroupInv and PhaseInv also hold while Launch terminates *)
(* a bridge that never opened its socket; ShareInv is about a shutdown     *)
(* that has been begun.                                                    *)
(***************************************************************************)
EXTENDS Shutdown

(* terminateProcessGroup, and the whole of runShutdown. *)
Terminating == {"probe", "term", "grace", "recheck", "alive", "lastcheck", "kill", "reap"}
Executing == Terminating \cup {"daemon", "cleanup", "finish"}

(* The instance has one owner at a time, and only an owner begins a         *)
(* shutdown.                                                                *)
OwnInv ==
  /\ attached => grants = {}
  /\ \A x, y \in grants : x = y
  /\ started => grants # {} /\ owner \in Callers
  /\ pc["client"] \in {"claimed", "begin"} => grants # {}

(* The order in which an exit becomes known, and that the process group is  *)
(* not touched any more once the SDK knows of it.  What runs the phases     *)
(* outside a shutdown does so before anyone has the instance.               *)
GroupInv ==
  /\ waitDone # "none" => bridge = "reaped"
  /\ SupportedBridge /\ kids => bridge = "running"
  /\ waitDone = "taken" =>
       /\ \A p \in Callers : pc[p] \notin Terminating \cup {"daemon"}
       /\ started => pc[owner] # "escalate"
       /\ ~started => ~attached /\ grants = {}
  /\ ~started /\ (\E p \in Callers : pc[p] \in Executing) => ~attached /\ grants = {}

(* One goroutine runs the phases, and what those behind it have achieved    *)
(* stays achieved unless an error says otherwise.                           *)
PhaseInv ==
  /\ \A p, q \in Callers : pc[p] \in Executing /\ pc[q] \in Executing => p = q
  /\ \A p \in Callers :
       /\ pc[p] \in Executing => ~finished /\ (started => pc[owner] # "escalate")
       /\ pc[p] \in Executing \ {"daemon"} \/ finished =>
            "daemon" \in errs \/ (recorded => daemonAsked)
       /\ (pc[p] \in {"cleanup", "finish"} \/ finished) /\ errs = {} => bridge = "reaped"
       /\ (pc[p] = "finish" \/ finished) /\ errs = {} => ~files /\ (home <=> ~ephemeral)

(* The owner is the first caller; it runs the phases until the result is    *)
(* stored, and nobody has another result than that.                         *)
ShareInv ==
  /\ finished => started
  /\ started => pc[owner] \in IF finished THEN {"wait", "done"} ELSE Executing \cup {"escalate"}
  /\ \A p \in Callers :
       /\ pc[p] = "escalate" => started
       /\ pc[p] = "done" => finished
       /\ pc[p] \in Executing => started /\ owner = p
       /\ ret[p] # {} => finished /\ ret[p] = result
  /\ result = IF finished THEN {[errs |-> errs, causes |-> causes]} ELSE {}

RunInv == TypeOK /\ OwnInv /\ GroupInv /\ PhaseInv

ShutdownInv == RunInv /\ ShareInv
=============================================================================
