--------------------------- MODULE TurnInductive ----------------------------
(***************************************************************************)
(* The inductive invariant behind the theorems of TurnProofs, in named     *)
(* parts.  TLC checks it on small instances, TurnProofs proves it.         *)
(***************************************************************************)
EXTENDS Turn

(* The dispatcher has committed or lost: it takes no more events. *)
DispatchOver == pc["dispatcher"] \in {"unsubscribe", "exit", "done"}

(* state agrees with the result; the winner of the commit is the only one   *)
(* that unsubscribes, and nobody else closes the subscription without cause. *)
CommitInv ==
  /\ result # None <=> state = "terminal"
  /\ \A g \in Goroutines : pc[g] = "unsubscribe" => result # None
  /\ sub = "unsubscribed" => result # None
  /\ result \in {"completed", "canceled", "provider_error", "subscriber_overflow"}
       => DispatchOver
  /\ DispatchOver => result # None

(* An event in hand was taken from the channel; one that was handled was    *)
(* not the end of the turn.                                                 *)
HandInv ==
  /\ pc["dispatcher"] = "handle" => seen > 0
  /\ pc["dispatcher"] = "accepted" =>
       seen > 0 /\ feed[seen].kind = "message_accepted" /\ acceptance # "unset"
  /\ pc["dispatcher"] \in {"next", "accepted"} => seen = 0 \/ InHand # "turn_done"

(* At most one goroutine is inside disconnect, and it knows its error; only *)
(* closeWith makes the client closing or closed.                            *)
DisconnectInv ==
  /\ \A g \in Goroutines : pc[g] \in {"guard", "set", "failing"} => failure # None
  /\ \A g, h \in Goroutines :
       pc[g] \in {"guard", "set", "failing"} /\ pc[h] \in {"guard", "set", "failing"} => g = h
  /\ failure \in FatalErrors \cup {None, "disconnected"}
  /\ \A g \in Goroutines : pc[g] = "failing" => client # "connected"
  /\ client \in {"closing", "closed"} => CloseBegun

(* Every error in flight has its cause; that of a failed write at the       *)
(* latest when its disconnect is past the state.                            *)
CauseInv ==
  /\ sub \in {"disconnected", "bad_payload"} => client # "connected"
  /\ sub = "closed" => CloseBegun
  /\ sub = "bridge_exited" => bridge = "exited"
  /\ sub # "write_failed"
  /\ sendErr = "disconnected" => client # "connected"
  /\ sendErr = "write_failed" => client # "connected" \/ pc["starter"] \in {"guard", "set"}
  /\ sendErr = "closed" => CloseBegun
  /\ pc["starter"] \in {"guard", "set", "failing", "failed"} => sendErr # None
  /\ sendErr # None => pc["starter"] \notin {"notify", "write"}

(* OutcomeHasCause with the fact that the event in hand stays in hand. *)
OutcomeInv ==
  /\ result = "protocol_error" =>
       \/ seen > 0 /\ InHand = "protocol_error" /\ DispatchOver
       \/ sub \in Sentinels
       \/ sendErr = "too_large"
  /\ OutcomeHasCause

(* Until the turn ends, an ok the reader read is either recorded already or *)
(* about to be, with no event delivered since.                              *)
AckInv ==
  /\ result = None /\ ~cancelRequested =>
       \/ okAt = NoAck
       \/ pc["reader"] = "observe" /\ replyFrame = "ok" /\ okAt = Len(feed)
  /\ CancelBeforeDone

(* While the turn is live its channel has room for turn_done and holds only *)
(* content.                                                                 *)
StreamInv ==
  /\ result = None => Len(stream) - taken <= PublishLimit
  /\ result \notin {"completed", "canceled"} =>
       \A i \in 1..Len(stream) : stream[i].kind # "turn_done"
  /\ DoneEndsStream
  /\ ReservedSlot

IndInv ==
  /\ TypeOK
  /\ CommitInv
  /\ AcceptanceMatchesOutcome
  /\ HandInv
  /\ DisconnectInv
  /\ CauseInv
  /\ OutcomeInv
  /\ AckInv
  /\ StreamInv

(* CancelNilMeansSettled with what the reader has handed over and runCancel *)
(* has not read yet.                                                        *)
SettledInv ==
  /\ reply = "delivered" /\ replyFrame = "ok" => cancelRequested \/ result # None
  /\ CancelNilMeansSettled
=============================================================================
