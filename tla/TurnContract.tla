---------------------------- MODULE TurnContract ----------------------------
(***************************************************************************)
(* What an owned turn promises its caller, with no goroutine, channel or   *)
(* connection in sight: one acceptance answer, one ordered stream of       *)
(* events, at most one acknowledged cancellation and one outcome.  Turn is *)
(* shown to implement it.                                                  *)
(***************************************************************************)
EXTENDS TurnEvents, Sequences

VARIABLES
  acceptance,   \* what Accepted answers: "unset", "ok" or a result kind
  outcome,      \* what Wait answers, None while the turn is live
  published,    \* every event Next ever returns, in order
  acked         \* the server acknowledged the cancellation in time

cvars == <<acceptance, outcome, published, acked>>

Live == outcome = "none"

ContractInit ==
  /\ acceptance = "unset"
  /\ outcome = "none"
  /\ published = <<>>
  /\ acked = FALSE

Accept ==
  /\ Live
  /\ acceptance = "unset"
  /\ acceptance' = "ok"
  /\ UNCHANGED <<outcome, published, acked>>

Deliver(frame) ==
  /\ Live
  /\ Disposition(frame) = "publish"
  /\ published' = Append(published, frame)
  /\ UNCHANGED <<acceptance, outcome, acked>>

Acknowledge ==
  /\ Live
  /\ acked' = TRUE
  /\ UNCHANGED <<acceptance, outcome, published>>

(* Whatever ends the turn also answers the acceptance question. *)
Resolve(kind) ==
  acceptance' = IF acceptance # "unset" THEN acceptance
                ELSE IF kind = "completed" THEN "ok" ELSE kind

(* turn_done is the last event, and the acknowledgement decides what it means. *)
Done(frame) ==
  /\ Live
  /\ Disposition(frame) = "turn_done"
  /\ outcome' = IF acked THEN "canceled" ELSE "completed"
  /\ Resolve(outcome')
  /\ published' = Append(published, frame)
  /\ UNCHANGED acked

(* Every other outcome ends the turn without another event. *)
Fail(kind) ==
  /\ Live
  /\ outcome' = kind
  /\ Resolve(kind)
  /\ UNCHANGED <<published, acked>>

ContractNext ==
  \/ Accept
  \/ Acknowledge
  \/ \E frame \in AllFrames : Deliver(frame) \/ Done(frame)
  \/ \E kind \in ResultKinds \ {"completed", "canceled"} : Fail(kind)

ContractSpec == ContractInit /\ [][ContractNext]_cvars
=============================================================================
