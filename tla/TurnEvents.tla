----------------------------- MODULE TurnEvents -----------------------------
(***************************************************************************)
(* The constant part of an owned turn: how the wire kinds of asynchronous  *)
(* events are typed and classified, what dispatch does with each of them,  *)
(* and how the error that ends a subscription becomes a TurnResult kind.   *)
(*                                                                         *)
(* A frame is [kind |-> its "ev" tag, valid |-> whether its fields decode  *)
(* into the Go type the tag selects].  Field contents are left out.        *)
(***************************************************************************)

(* TurnResultKind: every way a turn may end. *)
ResultKinds ==
  {"completed", "canceled", "lifecycle_canceled", "lifecycle_deadline_exceeded",
   "provider_error", "protocol_error", "subscriber_overflow", "bridge_exited",
   "transport_disconnected", "client_closed"}

(* Tags that decodeTypedEvent turns into a concrete event type. *)
TypedKinds ==
  {"text_delta", "reasoning_delta", "reasoning_done", "tool_start",
   "tool_input_delta", "tool_exec", "tool_done", "side_pane_images",
   "token_usage", "turn_done", "background_progress", "message_accepted",
   "permission_request", "session_status", "connection_phase",
   "session_forked", "wake_requested", "model_info", "models",
   "runtime_info", "credential_updated", "file_content", "files",
   "text_matches", "file_status", "compacted", "session_renamed"}

(* Tags the protocol package knows (knownEvents) or that stand for any tag  *)
(* it does not know; none of these has a typed event.                       *)
UntypedKinds ==
  {"hello_ok", "ok", "error", "sessions", "attached", "history", "pong",
   "unknown"}

AllFrames == [kind : TypedKinds \cup UntypedKinds, valid : BOOLEAN]

(* decodeTypedEvent fails only for a typed tag whose fields do not decode;  *)
(* every other tag becomes an UnknownEvent.                                 *)
DecodeFails(frame) == frame.kind \in TypedKinds /\ ~frame.valid

ContentKinds ==
  {"text_delta", "reasoning_delta", "tool_start", "tool_input_delta",
   "tool_done", "side_pane_images", "token_usage"}

AdvisoryKinds ==
  {"reasoning_done", "background_progress", "message_accepted",
   "session_status", "connection_phase", "model_info"}

SemanticClassOf(kind) ==
  CASE kind \in ContentKinds          -> "content_progress"
    [] kind \in AdvisoryKinds         -> "advisory_lifecycle"
    [] kind = "turn_done"             -> "terminal"
    [] kind = "permission_request"    -> "permission"
    [] kind = "tool_exec"             -> "tool_effect"
    [] OTHER                          -> "unclassified"

(* The order of the tests in Turn.dispatch: acceptance before anything      *)
(* else, then a provider error, then decoding, then the semantic class.     *)
Disposition(frame) ==
  CASE frame.kind = "message_accepted"                        -> "accept"
    [] frame.kind = "error"                                   -> "provider_error"
    [] DecodeFails(frame)                                     -> "protocol_error"
    [] SemanticClassOf(frame.kind) = "unclassified"           -> "protocol_error"
    [] SemanticClassOf(frame.kind) = "advisory_lifecycle"     -> "ignore"
    [] frame.kind = "turn_done"                               -> "turn_done"
    [] OTHER                                                  -> "publish"

(***************************************************************************)
(* The errors a subscription or a request can end with.                    *)
(*   malformed, invalid, too_large   the framing sentinels                 *)
(*   bad_payload   DecodeServerFrame's hello_ok and error payload failures *)
(*                 and any other decode error that wraps no sentinel       *)
(*   write_failed  an error of the transport's Write                       *)
(***************************************************************************)
Sentinels == {"malformed", "invalid", "too_large"}

FatalErrors == Sentinels \cup {"bad_payload"}

Errors ==
  FatalErrors \cup {"bridge_exited", "closed", "overflow", "disconnected", "write_failed"}

(* Mutation: an unrecognised error is taken for the client's own closure. *)
turnResultClosedByDefault(err) ==
  CASE err = "bridge_exited"   -> "bridge_exited"
    [] err = "overflow"        -> "subscriber_overflow"
    [] err \in Sentinels       -> "protocol_error"
    [] OTHER                   -> "client_closed"

turnResultFromSubscriptionError(err) ==
  CASE err = "bridge_exited"   -> "bridge_exited"
    [] err = "closed"          -> "client_closed"
    [] err = "overflow"        -> "subscriber_overflow"
    [] err \in Sentinels       -> "protocol_error"
    [] OTHER                   -> "transport_disconnected"
=============================================================================
