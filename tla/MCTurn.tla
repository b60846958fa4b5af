------------------------------- MODULE MCTurn -------------------------------
(* Small instances of Turn for TLC. *)
EXTENDS TurnInductive

Ok(kind) == [kind |-> kind, valid |-> TRUE]

(* One frame for every way dispatch treats an event, and two kinds of       *)
(* visible event so that their order shows.                                 *)
EveryBranch ==
  {Ok("message_accepted"), Ok("text_delta"), Ok("tool_exec"), Ok("turn_done"), Ok("error"),
   Ok("session_status"), Ok("files"), [kind |-> "tool_exec", valid |-> FALSE]}

Shortest == {Ok("message_accepted"), Ok("turn_done")}

LocalEndings == {"cancel", "deadline", "too_large_send"}
EveryEnding == OutsideEvents \ {"deadline", "too_large_send", "invalid", "bad_payload", "too_large"}
Endings == {"canceled", "cancel", "close", "disconnected", "write_failed"}
OnlyBadPayload == {"bad_payload"}
=============================================================================
