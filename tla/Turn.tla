-------------------------------- MODULE Turn --------------------------------
(***************************************************************************)
(* One owned turn (turn.go, Session.StartTurn) over one connection of its  *)
(* Client.  The goroutines are                                             *)
(*                                                                         *)
(*   starter     StartTurn after the subscription and the Turn exist       *)
(*   reader      Client.readLoop, seen from this turn's subscription       *)
(*   dispatcher  Turn.dispatch                                             *)
(*   watcher     Turn.watchLifecycle                                       *)
(*   canceler    Turn.runCancel and the request it makes                   *)
(*   closer      Client.closeWith                                          *)
(*                                                                         *)
(* and, without a program counter of their own, the caller that consumes   *)
(* events and the bridge exit monitor.                                     *)
(*                                                                         *)
(* The two channels are kept as histories.  feed is everything the reader  *)
(* ever put into sub.events and seen what dispatch took out, so the        *)
(* channel holds feed[seen+1 ..]; stream and taken do the same for         *)
(* Turn.events.  A step is one critical section of t.mu or of the client's *)
(* locks.  Steps that only one goroutine can see are merged into the next  *)
(* shared one.                                                             *)
(***************************************************************************)
EXTENDS TurnEvents, Naturals, Sequences

CONSTANTS
  EventBuffer,   \* Options.EventBuffer after withDefaults
  Frames,        \* the asynchronous frames the server may send
  Outside,       \* which of OutsideEvents may happen to this turn
  MaxFeed        \* bound: frames put into the turn's subscription

(* What the caller, the server and the system may do to a turn: end the     *)
(* lifecycle context, Cancel, Close the client, break the connection while  *)
(* it is read or written, or kill the bridge.                               *)
OutsideEvents ==
  {"canceled", "deadline", "cancel", "close", "bridge", "write_failed", "too_large_send",
   "disconnected"} \cup FatalErrors

ASSUME EventBufferAssumption == EventBuffer \in Nat \ {0}
ASSUME FramesAssumption == Frames \subseteq AllFrames
ASSUME OutsideAssumption == Outside \subseteq OutsideEvents
ASSUME MaxFeedAssumption == MaxFeed \in Nat

VARIABLES
  state,            \* t.state
  acceptance,       \* t.acceptanceSet and t.acceptanceErr; a failure is its result kind
  result,           \* t.terminal and t.result.Kind
  stream, taken,    \* t.events: ever published, ever consumed
  eventsClosed,     \* dispatch has closed t.events
  feed, seen,       \* sub.events: ever delivered, ever taken by dispatch
  sub,              \* "open", or why closeSubscriberLocked closed it
  ctx,              \* the lifecycle context
  cancelRequested,  \* t.cancelRequested
  reply,            \* the cancel request: its pending entry and reply channel
  replyFrame,       \* the correlated reply the reader read
  okAt,             \* history: Len(feed) when the reader read the cancel's ok
  cancelErr,        \* t.cancelErr, "unset" until cancelDone is closed
  sendErr,          \* what Notify(send_message) returned
  client,           \* Client.state
  failure,          \* the error an unfinished disconnect has for the turn
  bridge,           \* the attached SDK-owned bridge process
  pc                \* where each goroutine is

turnVars == <<state, acceptance, result, stream, eventsClosed>>
subVars == <<feed, seen, sub>>
cancelVars == <<cancelRequested, reply, replyFrame, okAt, cancelErr>>
clientVars == <<client, failure, bridge>>
vars == <<turnVars, taken, subVars, ctx, cancelVars, sendErr, clientVars, pc>>

Goroutines == {"starter", "reader", "dispatcher", "watcher", "canceler", "closer"}

None == "none"
NoAck == MaxFeed + 1

-----------------------------------------------------------------------------
(* newTurn and subscribeTurn: the capacities of the two channels. *)
SubscriptionCap == EventBuffer + 2
EventsCap == EventBuffer + 1
(* Mutation: the slot for turn_done is not kept free. *)
PublishLimitFull == EventsCap

PublishLimit == EventsCap - 1

Goto(g, label) == pc' = [pc EXCEPT ![g] = label]

(* StartTurn up to turn.start: subscribed, both goroutines running, nothing *)
(* written yet, on a connected client.                                      *)
Init ==
  /\ state = "starting" /\ acceptance = "unset" /\ result = None
  /\ stream = <<>> /\ taken = 0 /\ eventsClosed = FALSE
  /\ feed = <<>> /\ seen = 0 /\ sub = "open"
  /\ ctx = "live"
  /\ cancelRequested = FALSE /\ reply = None /\ replyFrame = None
  /\ okAt = NoAck /\ cancelErr = "unset"
  /\ sendErr = None
  /\ client = "connected" /\ failure = None
  /\ bridge = IF "bridge" \in Outside THEN "attached" ELSE "absent"
  /\ pc = [g \in Goroutines |->
             CASE g = "starter"    -> "notify"
               [] g = "reader"     -> "read"
               [] g = "dispatcher" -> "next"
               [] g = "watcher"    -> "wait"
               [] OTHER            -> "idle"]

-----------------------------------------------------------------------------
(* Committing a terminal result. *)

(* Mutation: the terminal commit forgets to answer Accepted. *)
CommitWithoutAcceptance(kind) ==
  UNCHANGED acceptance /\ result' = kind /\ state' = "terminal"

(* finishTerminalLocked, for a turn that has no result yet. *)
Commit(kind) ==
  /\ acceptance' = IF acceptance # "unset" THEN acceptance
                   ELSE IF kind = "completed" THEN "ok" ELSE kind
  /\ result' = kind
  /\ state' = "terminal"

(* Mutation: a later terminal signal replaces the first. *)
FinishTerminalAgain(g, kind) ==
  Commit(kind) /\ Goto(g, "unsubscribe") /\ UNCHANGED <<stream, eventsClosed>>

(* finishTerminal: the winner closes the subscription in its next step. *)
FinishTerminal(g, kind) ==
  /\ IF result = None
     THEN Commit(kind) /\ Goto(g, "unsubscribe")
     ELSE UNCHANGED <<acceptance, result, state>> /\ Goto(g, "exit")
  /\ UNCHANGED <<stream, eventsClosed>>

(* closeSubscriberLocked: the first error stays. *)
CloseSub(err) == sub' = IF sub = "open" THEN err ELSE sub

(* Mutation: the winner leaves its subscription open. *)
UnsubscribeSkipped(g) ==
  /\ pc[g] = "unsubscribe"
  /\ Goto(g, "exit")
  /\ UNCHANGED <<turnVars, taken, subVars, ctx, cancelVars, sendErr, clientVars>>

(* finishTerminal's and finishTurnDone's trailing subscription.Close(). *)
Unsubscribe(g) ==
  /\ pc[g] = "unsubscribe"
  /\ CloseSub("unsubscribed")
  /\ Goto(g, "exit")
  /\ UNCHANGED <<turnVars, taken, feed, seen, ctx, cancelVars, sendErr, clientVars>>

-----------------------------------------------------------------------------
(* Client.disconnect, called by g with reconnectMu free.  failure is set    *)
(* while reconnectMu is held; it is the error for the subscriptions.  The   *)
(* state is read for StateClosed first and then for the other two, and set  *)
(* afterwards: Close may run in between, and is then undone.                *)

Drained == IF reply = "pending" THEN "closed" ELSE reply

Disconnect(g, err, terminal) ==
  /\ failure = None
  /\ IF client = "closed"
     THEN Goto(g, "failed") /\ UNCHANGED failure
     ELSE Goto(g, "guard") /\ failure' = IF terminal THEN err ELSE "disconnected"
  /\ UNCHANGED <<client, reply, bridge>>

DisconnectGuard(g) ==
  /\ pc[g] = "guard"
  /\ IF client = "closing" \/ (client = "disconnected" /\ failure = "disconnected")
     THEN Goto(g, "failed") /\ failure' = None
     ELSE Goto(g, "set") /\ UNCHANGED failure
  /\ UNCHANGED <<turnVars, taken, subVars, ctx, cancelVars, sendErr, client, bridge>>

(* StateDisconnected, the transport and the pending requests. *)
DisconnectSet(g) ==
  /\ pc[g] = "set"
  /\ client' = "disconnected"
  /\ reply' = Drained
  /\ Goto(g, "failing")
  /\ UNCHANGED <<turnVars, taken, subVars, ctx, cancelRequested, replyFrame, okAt, cancelErr,
                 sendErr, failure, bridge>>

(* Mutation: an ordinary disconnect leaves the turn's subscription alone. *)
FailSubscribersFatalOnly(g) ==
  /\ pc[g] = "failing"
  /\ IF failure = "disconnected" THEN UNCHANGED sub ELSE CloseSub(failure)
  /\ failure' = None
  /\ Goto(g, "failed")
  /\ UNCHANGED <<turnVars, taken, feed, seen, ctx, cancelVars, sendErr, client, bridge>>

(* The end of disconnect: failTurnSubscribers, or every subscriber. *)
FailSubscribers(g) ==
  /\ pc[g] = "failing"
  /\ CloseSub(failure)
  /\ failure' = None
  /\ Goto(g, "failed")
  /\ UNCHANGED <<turnVars, taken, feed, seen, ctx, cancelVars, sendErr, client, bridge>>

(* closeWith, once, up to the pending requests ... *)
Close ==
  /\ "close" \in Outside
  /\ pc["closer"] = "idle"
  /\ client' = "closing"
  /\ reply' = Drained
  /\ Goto("closer", "subs")
  /\ UNCHANGED <<turnVars, taken, subVars, ctx, cancelRequested, replyFrame, okAt,
                 cancelErr, sendErr, failure, bridge>>

(* ... and its last part: every subscription, then StateClosed. *)
CloseFinish ==
  /\ pc["closer"] = "subs"
  /\ CloseSub("closed")
  /\ client' = "closed"
  /\ Goto("closer", "done")
  /\ UNCHANGED <<turnVars, taken, feed, seen, ctx, cancelVars, sendErr, failure, bridge>>

(* c.closed is closed and the instance taken away. *)
CloseBegun == pc["closer"] # "idle"

(* watchBridgeExit, under stateMu, for a bridge that is still attached. *)
BridgeExit ==
  /\ "bridge" \in Outside
  /\ bridge = "attached"
  /\ ~CloseBegun
  /\ bridge' = "exited"
  /\ CloseSub("bridge_exited")
  /\ UNCHANGED <<turnVars, taken, feed, seen, ctx, cancelVars, sendErr, client, failure, pc>>

-----------------------------------------------------------------------------
(* readLoop *)

(* An event frame reaches the subscription, or overflows it. *)
ReadEvent(frame) ==
  /\ pc["reader"] = "read"
  /\ sub = "open"
  /\ IF Len(feed) - seen < SubscriptionCap
     THEN Len(feed) < MaxFeed /\ feed' = Append(feed, frame) /\ UNCHANGED sub
     ELSE sub' = "overflow" /\ UNCHANGED feed
  /\ UNCHANGED <<turnVars, taken, seen, ctx, cancelVars, sendErr, clientVars, pc>>

(* The reply to a written cancel leaves the pending map ... *)
ReadReply(r) ==
  /\ pc["reader"] = "read"
  /\ pc["canceler"] = "wait"
  /\ reply = "pending"
  /\ reply' = "removed"
  /\ replyFrame' = r
  /\ okAt' = IF r = "ok" THEN Len(feed) ELSE okAt
  /\ Goto("reader", "observe")
  /\ UNCHANGED <<turnVars, taken, subVars, ctx, cancelRequested, cancelErr, sendErr, clientVars>>

(* Mutation: the reply is handed over without the observer on the reader. *)
ObserveReplyUnobserved ==
  /\ pc["reader"] = "observe"
  /\ reply' = "delivered"
  /\ Goto("reader", "read")
  /\ UNCHANGED <<turnVars, taken, subVars, ctx, cancelRequested, replyFrame, okAt,
                 cancelErr, sendErr, clientVars>>

(* ... then requestCancel's onReply runs on the reader, which hands the     *)
(* frame over before it reads anything else.                                *)
ObserveReply ==
  /\ pc["reader"] = "observe"
  /\ IF replyFrame = "ok" /\ result = None
     THEN cancelRequested' = TRUE /\ state' = "cancel_requested"
     ELSE UNCHANGED <<cancelRequested, state>>
  /\ reply' = "delivered"
  /\ Goto("reader", "read")
  /\ UNCHANGED <<acceptance, result, stream, eventsClosed, taken, subVars, ctx,
                 replyFrame, okAt, cancelErr, sendErr, clientVars>>

(* A read error (not terminal unless a framing sentinel) or a decode error  *)
(* (always terminal) ends the reader; only the former looks at the state    *)
(* before it calls disconnect.                                              *)
ReaderFails(err) ==
  /\ pc["reader"] = "read"
  /\ err \in Outside \/ (err = "disconnected" /\ client # "connected")
  /\ IF err \in {"disconnected", "too_large"} /\ client \in {"closing", "closed"}
     THEN Goto("reader", "failed") /\ UNCHANGED <<clientVars, reply>>
     ELSE Disconnect("reader", err, err \in FatalErrors)
  /\ UNCHANGED <<turnVars, taken, subVars, ctx, cancelRequested, replyFrame, okAt,
                 cancelErr, sendErr>>

-----------------------------------------------------------------------------
(* StartTurn *)

Notify ==
  /\ pc["starter"] = "notify"
  /\ IF client = "connected"
     THEN Goto("starter", "write") /\ UNCHANGED sendErr
     ELSE /\ Goto("starter", "failed")
          /\ sendErr' = IF client = "closed" THEN "closed" ELSE "disconnected"
  /\ UNCHANGED <<turnVars, taken, subVars, ctx, cancelVars, clientVars>>

SendWritten ==
  /\ pc["starter"] = "write"
  /\ client = "connected"
  /\ Goto("starter", "mark")
  /\ UNCHANGED <<turnVars, taken, subVars, ctx, cancelVars, sendErr, clientVars>>

(* Close after Notify's state check: the closed channel refuses the write. *)
SendRefused ==
  /\ pc["starter"] = "write"
  /\ CloseBegun
  /\ sendErr' = "closed"
  /\ Goto("starter", "failed")
  /\ UNCHANGED <<turnVars, taken, subVars, ctx, cancelVars, clientVars>>

(* A write may fail by itself, and does on a closed transport. *)
WriteCanFail == "write_failed" \in Outside \/ client # "connected"

(* The write fails, or the frame is over the encoder's limit. *)
SendFails(err) ==
  /\ pc["starter"] = "write"
  /\ IF err = "too_large" THEN "too_large_send" \in Outside ELSE WriteCanFail
  /\ Disconnect("starter", err, FALSE)
  /\ sendErr' = err
  /\ UNCHANGED <<turnVars, taken, subVars, ctx, cancelRequested, replyFrame, okAt, cancelErr>>

StartFailed ==
  /\ pc["starter"] = "failed"
  /\ FinishTerminal("starter", turnResultFromSubscriptionError(sendErr))
  /\ UNCHANGED <<taken, subVars, ctx, cancelVars, sendErr, clientVars>>

markWriteComplete ==
  /\ pc["starter"] = "mark"
  /\ state' = IF state = "starting" THEN "awaiting_acceptance" ELSE state
  /\ Goto("starter", "returned")
  /\ UNCHANGED <<acceptance, result, stream, eventsClosed, taken, subVars, ctx,
                 cancelVars, sendErr, clientVars>>

-----------------------------------------------------------------------------
(* dispatch *)

(* Subscription.Next's select takes a buffered event ... *)
DispatchNext ==
  /\ pc["dispatcher"] = "next"
  /\ seen < Len(feed)
  /\ seen' = seen + 1
  /\ Goto("dispatcher", "handle")
  /\ UNCHANGED <<turnVars, taken, feed, sub, ctx, cancelVars, sendErr, clientVars>>

(* ... or, once the subscription is closed, its error, events left or not. *)
subscriptionError ==
  IF sub # "unsubscribed" THEN sub
  ELSE IF client = "closed" THEN "closed" ELSE "disconnected"

DispatchError ==
  /\ pc["dispatcher"] = "next"
  /\ sub # "open"
  /\ FinishTerminal("dispatcher", turnResultFromSubscriptionError(subscriptionError))
  /\ UNCHANGED <<taken, subVars, ctx, cancelVars, sendErr, clientVars>>

InHand == Disposition(feed[seen])

(* Mutation: message_accepted overwrites an acceptance already answered. *)
DispatchAcceptAgain ==
  /\ pc["dispatcher"] = "handle"
  /\ InHand = "accept"
  /\ acceptance' = "ok"
  /\ Goto("dispatcher", "accepted")
  /\ UNCHANGED <<state, result, stream, eventsClosed, taken, subVars, ctx, cancelVars,
                 sendErr, clientVars>>

DispatchAccept ==
  /\ pc["dispatcher"] = "handle"
  /\ InHand = "accept"
  /\ acceptance' = IF acceptance = "unset" THEN "ok" ELSE acceptance
  /\ Goto("dispatcher", "accepted")
  /\ UNCHANGED <<state, result, stream, eventsClosed, taken, subVars, ctx, cancelVars,
                 sendErr, clientVars>>

(* The second critical section of the message_accepted branch. *)
MarkAccepted ==
  /\ pc["dispatcher"] = "accepted"
  /\ state' = IF result = None /\ state # "cancel_requested" THEN "accepted" ELSE state
  /\ Goto("dispatcher", "next")
  /\ UNCHANGED <<acceptance, result, stream, eventsClosed, taken, subVars, ctx,
                 cancelVars, sendErr, clientVars>>

DispatchIgnore ==
  /\ pc["dispatcher"] = "handle"
  /\ InHand = "ignore"
  /\ Goto("dispatcher", "next")
  /\ UNCHANGED <<turnVars, taken, subVars, ctx, cancelVars, sendErr, clientVars>>

DispatchFailure ==
  /\ pc["dispatcher"] = "handle"
  /\ InHand \in {"provider_error", "protocol_error"}
  /\ FinishTerminal("dispatcher", InHand)
  /\ UNCHANGED <<taken, subVars, ctx, cancelVars, sendErr, clientVars>>

(* Mutation: an event that finds no room is dropped and the turn goes on. *)
PublishDropping ==
  /\ pc["dispatcher"] = "handle"
  /\ InHand = "publish"
  /\ stream' = IF result = None /\ Len(stream) - taken < PublishLimit
               THEN Append(stream, feed[seen]) ELSE stream
  /\ Goto("dispatcher", "next")
  /\ UNCHANGED <<state, acceptance, result, eventsClosed, taken, subVars, ctx, cancelVars,
                 sendErr, clientVars>>

(* publishEvent: room below the limit, in a turn that has no result. *)
Publish ==
  /\ pc["dispatcher"] = "handle"
  /\ InHand = "publish"
  /\ IF result = None /\ Len(stream) - taken < PublishLimit
     THEN /\ stream' = Append(stream, feed[seen])
          /\ Goto("dispatcher", "next")
          /\ UNCHANGED <<state, acceptance, result, eventsClosed>>
     ELSE FinishTerminal("dispatcher", "subscriber_overflow")
  /\ UNCHANGED <<taken, subVars, ctx, cancelVars, sendErr, clientVars>>

(* The kind finishTurnDone commits: the event first needs a slot. *)
TurnDoneKind ==
  IF Len(stream) - taken >= EventsCap THEN "subscriber_overflow"
  ELSE IF cancelRequested THEN "canceled" ELSE "completed"

(* Mutation: turn_done is sent before the terminal flag is looked at. *)
FinishTurnDoneUnchecked ==
  /\ pc["dispatcher"] = "handle"
  /\ InHand = "turn_done"
  /\ stream' = Append(stream, feed[seen])
  /\ IF result = None
     THEN Commit(TurnDoneKind) /\ Goto("dispatcher", "unsubscribe")
     ELSE Goto("dispatcher", "exit") /\ UNCHANGED <<state, acceptance, result>>
  /\ UNCHANGED <<eventsClosed, taken, subVars, ctx, cancelVars, sendErr, clientVars>>

FinishTurnDone ==
  /\ pc["dispatcher"] = "handle"
  /\ InHand = "turn_done"
  /\ IF result = None
     THEN /\ Commit(TurnDoneKind)
          /\ stream' = IF Len(stream) - taken < EventsCap
                       THEN Append(stream, feed[seen]) ELSE stream
          /\ Goto("dispatcher", "unsubscribe")
     ELSE Goto("dispatcher", "exit") /\ UNCHANGED <<state, acceptance, result, stream>>
  /\ UNCHANGED <<eventsClosed, taken, subVars, ctx, cancelVars, sendErr, clientVars>>

(* dispatch's deferred close(t.events). *)
CloseEvents ==
  /\ pc["dispatcher"] = "exit"
  /\ eventsClosed' = TRUE
  /\ Goto("dispatcher", "done")
  /\ UNCHANGED <<state, acceptance, result, stream, taken, subVars, ctx, cancelVars,
                 sendErr, clientVars>>

-----------------------------------------------------------------------------
(* The lifecycle context and watchLifecycle *)

LifecycleEnds(how) ==
  /\ how \in Outside
  /\ ctx = "live"
  /\ ctx' = how
  /\ UNCHANGED <<turnVars, taken, subVars, cancelVars, sendErr, clientVars, pc>>

LifecycleKind ==
  IF ctx = "deadline" THEN "lifecycle_deadline_exceeded" ELSE "lifecycle_canceled"

WatchLifecycle ==
  /\ pc["watcher"] = "wait"
  /\ \/ ctx # "live" /\ FinishTerminal("watcher", LifecycleKind)
     \/ result # None /\ Goto("watcher", "exit") /\ UNCHANGED turnVars
  /\ UNCHANGED <<taken, subVars, ctx, cancelVars, sendErr, clientVars>>

-----------------------------------------------------------------------------
(* The owner of the returned handle: Turn.Next and Turn.Cancel *)

(* Mutation: Next returns although nothing is buffered. *)
TakeEventEmpty ==
  /\ pc["starter"] = "returned"
  /\ taken' = taken + 1
  /\ UNCHANGED <<turnVars, subVars, ctx, cancelVars, sendErr, clientVars, pc>>

TakeEvent ==
  /\ pc["starter"] = "returned"
  /\ taken < Len(stream)
  /\ taken' = taken + 1
  /\ UNCHANGED <<turnVars, subVars, ctx, cancelVars, sendErr, clientVars, pc>>

(* cancelOnce: the first Cancel of a live turn starts runCancel. *)
Cancel ==
  /\ "cancel" \in Outside
  /\ pc["starter"] = "returned"
  /\ pc["canceler"] = "idle"
  /\ IF result # None
     THEN cancelErr' = "nil" /\ Goto("canceler", "exit")
     ELSE Goto("canceler", "check") /\ UNCHANGED cancelErr
  /\ UNCHANGED <<turnVars, taken, subVars, ctx, cancelRequested, reply, replyFrame, okAt,
                 sendErr, clientVars>>

(* runCancel's end: cancelErr is stored and cancelDone closed. *)
CancelReturns(err) ==
  /\ cancelErr' = err
  /\ Goto("canceler", "exit")

(* requestWithReplyObserver: the state check and the pending entry. *)
CancelRequest ==
  /\ pc["canceler"] = "check"
  /\ IF client = "connected"
     THEN reply' = "pending" /\ Goto("canceler", "write") /\ UNCHANGED cancelErr
     ELSE /\ CancelReturns(IF client = "closed" THEN "closed" ELSE "disconnected")
          /\ UNCHANGED reply
  /\ UNCHANGED <<turnVars, taken, subVars, ctx, cancelRequested, replyFrame, okAt,
                 sendErr, clientVars>>

CancelWritten ==
  /\ pc["canceler"] = "write"
  /\ client = "connected"
  /\ Goto("canceler", "wait")
  /\ UNCHANGED <<turnVars, taken, subVars, ctx, cancelVars, sendErr, clientVars>>

(* Close after the state check: the closed channel refuses the request. *)
CancelRefused ==
  /\ pc["canceler"] = "write"
  /\ CloseBegun
  /\ CancelReturns("closed")
  /\ reply' = None
  /\ UNCHANGED <<turnVars, taken, subVars, ctx, cancelRequested, replyFrame, okAt,
                 sendErr, clientVars>>

(* Write error: the connection is torn down; nobody reads the reply channel *)
(* again, so it does not matter that its entry was removed first.           *)
CancelWriteFails ==
  /\ pc["canceler"] = "write"
  /\ WriteCanFail
  /\ Disconnect("canceler", "write_failed", FALSE)
  /\ UNCHANGED <<turnVars, taken, subVars, ctx, cancelRequested, replyFrame, okAt,
                 cancelErr, sendErr>>

CancelWriteFailed ==
  /\ pc["canceler"] = "failed"
  /\ CancelReturns("write_failed")
  /\ UNCHANGED <<turnVars, taken, subVars, ctx, cancelRequested, reply, replyFrame, okAt,
                 sendErr, clientVars>>

(* Mutation: any reply to the cancel counts as success. *)
ReplyErrorIgnored(r) == "nil"

ReplyError(r) == IF r = "ok" THEN "nil" ELSE "rejected"

(* The request's select: the reply, a reply channel disconnect closed, the  *)
(* request timeout, or the closed client; any of those that are ready.      *)
CancelReply ==
  /\ reply = "delivered"
  /\ CancelReturns(ReplyError(replyFrame))
  /\ UNCHANGED reply

CancelAborted ==
  /\ reply = "closed"
  /\ CancelReturns("disconnected")
  /\ UNCHANGED reply

removePending == reply' = IF reply = "pending" THEN None ELSE reply

(* Mutation: the cancel request runs without the request timeout. *)
CancelTimeoutNever == FALSE /\ CancelReturns("timeout") /\ removePending

CancelTimeout == CancelReturns("timeout") /\ removePending

CancelClosed ==
  /\ CloseBegun
  /\ CancelReturns("closed")
  /\ removePending

CancelWait ==
  /\ pc["canceler"] = "wait"
  /\ \/ CancelReply
     \/ CancelAborted
     \/ CancelTimeout
     \/ CancelClosed
  /\ UNCHANGED <<turnVars, taken, subVars, ctx, cancelRequested, replyFrame, okAt,
                 sendErr, clientVars>>

-----------------------------------------------------------------------------
Starter ==
  \/ Notify \/ SendWritten \/ SendRefused \/ StartFailed \/ markWriteComplete
  \/ \E err \in {"write_failed", "too_large"} : SendFails(err)

Reader ==
  \/ \E frame \in Frames : ReadEvent(frame)
  \/ \E r \in {"ok", "error", "other"} : ReadReply(r)
  \/ ObserveReply
  \/ \E err \in FatalErrors \cup {"disconnected"} : ReaderFails(err)

Dispatcher ==
  \/ DispatchNext \/ DispatchError \/ DispatchAccept \/ MarkAccepted
  \/ DispatchIgnore \/ DispatchFailure \/ Publish \/ FinishTurnDone \/ CloseEvents

Canceler ==
  \/ CancelRequest \/ CancelWritten \/ CancelRefused \/ CancelWriteFails
  \/ CancelWriteFailed \/ CancelWait

Caller == TakeEvent \/ Cancel \/ \E how \in {"canceled", "deadline"} : LifecycleEnds(how)

ClientEnds == Close \/ CloseFinish \/ BridgeExit

Disconnecting(g) == DisconnectGuard(g) \/ DisconnectSet(g) \/ FailSubscribers(g)

Next ==
  \/ Starter \/ Reader \/ Dispatcher \/ WatchLifecycle \/ Canceler \/ Caller \/ ClientEnds
  \/ \E g \in Goroutines : Unsubscribe(g) \/ Disconnecting(g)

Spec == Init /\ [][Next]_vars

(***************************************************************************)
(* Fairness: a goroutine that can run keeps running, and the request       *)
(* timeout fires.  Nothing is assumed of the server, of the caller, or of  *)
(* a write on an open transport, which has no deadline in the code; a      *)
(* write on a closed transport does return.                                *)
(***************************************************************************)
Fairness ==
  /\ WF_vars(Dispatcher)
  /\ WF_vars(WatchLifecycle)
  /\ WF_vars(ObserveReply)
  /\ WF_vars(CloseFinish)
  /\ WF_vars(Notify \/ SendRefused \/ StartFailed \/ markWriteComplete)
  /\ WF_vars(client # "connected" /\ SendFails("write_failed"))
  /\ WF_vars(CancelRequest \/ CancelRefused \/ CancelWriteFailed \/ CancelWait)
  /\ WF_vars(client # "connected" /\ CancelWriteFails)
  /\ \A g \in Goroutines : WF_vars(Unsubscribe(g)) /\ WF_vars(Disconnecting(g))

FairSpec == Spec /\ Fairness

-----------------------------------------------------------------------------
(* Safety *)

Acceptances == {"unset", "ok"} \cup (ResultKinds \ {"completed"})

(* The variables of the turn, its subscription, its client and the         *)
(* goroutines' positions stay in their types, and the counts within the    *)
(* histories they count.                                                   *)
TypeOK ==
  /\ state \in {"starting", "awaiting_acceptance", "accepted", "cancel_requested", "terminal"}
  /\ acceptance \in Acceptances
  /\ result \in ResultKinds \cup {None}
  /\ stream \in Seq(Frames) /\ taken \in Nat /\ taken <= Len(stream)
  /\ eventsClosed \in BOOLEAN
  /\ feed \in Seq(Frames) /\ Len(feed) <= MaxFeed
  /\ seen \in Nat /\ seen <= Len(feed)
  /\ sub \in {"open", "unsubscribed"} \cup Errors
  /\ ctx \in {"live", "canceled", "deadline"}
  /\ cancelRequested \in BOOLEAN
  /\ reply \in {None, "pending", "removed", "delivered", "closed"}
  /\ replyFrame \in {None, "ok", "error", "other"}
  /\ okAt \in Nat
  /\ cancelErr \in {"unset", "nil", "timeout", "rejected", "closed", "disconnected", "write_failed"}
  /\ sendErr \in {None, "closed", "disconnected", "write_failed", "too_large"}
  /\ client \in {"connected", "disconnected", "closing", "closed"}
  /\ failure \in Errors \cup {None}
  /\ bridge \in {"absent", "attached", "exited"}
  /\ pc \in [Goroutines -> {"notify", "write", "mark", "returned", "read", "observe",
                            "next", "handle", "accepted", "done", "wait", "idle", "check",
                            "guard", "set", "failing", "failed", "unsubscribe", "exit", "subs"}]

(* The acceptance answer is consistent with the outcome: a turn that ended  *)
(* has answered, a failed acceptance is the turn's own failure, and a       *)
(* successful one was either read from the server or implied by completion  *)
(* (Turn.finishAcceptance against finishTerminalLocked).                    *)
AcceptanceMatchesOutcome ==
  /\ result # None => acceptance # "unset"
  /\ acceptance \notin {"unset", "ok"} => acceptance = result
  /\ acceptance = "ok" =>
       \/ result = "completed"
       \/ \E i \in 1..seen : feed[i].kind = "message_accepted"

Visible(frame) == Disposition(frame) \in {"publish", "turn_done"}

(* The events dispatch is done with: the one in hand is not. *)
Handled == IF pc["dispatcher"] = "handle" THEN seen - 1 ELSE seen

(* at says which delivered event each published one is. *)
Follows(at) ==
  /\ \A i \in 1..Len(stream) : stream[i] = feed[at[i]] /\ Visible(feed[at[i]])
  /\ \A i, j \in 1..Len(stream) : i < j => at[i] < at[j]
  /\ \A k \in 1..Handled :
       Visible(feed[k]) /\ (result = None \/ \E i \in 1..Len(stream) : k < at[i])
         => \E j \in 1..Len(stream) : at[j] = k

(* Turn.Next returns server order without gaps: what was published is a     *)
(* prefix of the visible events dispatch has handled, all of them while the *)
(* turn is live, whatever overflows, cancels or disconnects meanwhile.      *)
StreamIsOrdered == \E at \in [1..Len(stream) -> 1..Handled] : Follows(at)

(* The stream ends with turn_done exactly when the outcome says so.         *)
DoneEndsStream ==
  \A i \in 1..Len(stream) :
    stream[i].kind = "turn_done" <=> (i = Len(stream) /\ result \in {"completed", "canceled"})

(* The slot newTurn reserves: a buffer filled exactly to its bound never    *)
(* costs the turn its turn_done.                                            *)
ReservedSlot ==
  result = "subscriber_overflow" => seen = 0 \/ InHand # "turn_done"

(* Cancellation order: when the reader read the cancel's ok before the      *)
(* turn_done that ended the turn, the turn is not reported as completed,    *)
(* although two goroutines handle the two frames.                           *)
CancelBeforeDone == result = "completed" => okAt >= seen

(* Cancel's nil is backed by the turn: the acknowledgement is recorded, or  *)
(* the turn had already ended when it (or the Cancel) came.                 *)
CancelNilMeansSettled == cancelErr = "nil" => cancelRequested \/ result # None

(* Every outcome has the cause it names; none is an artefact of the turn    *)
(* closing its own subscription or of another goroutine's failure.          *)
OutcomeHasCause ==
  /\ result = "canceled" => cancelRequested
  /\ result = "lifecycle_canceled" => ctx = "canceled"
  /\ result = "lifecycle_deadline_exceeded" => ctx = "deadline"
  /\ result = "bridge_exited" => bridge = "exited"
  /\ result = "client_closed" => CloseBegun
  /\ result = "transport_disconnected" => client # "connected"
  /\ result = "provider_error" => seen > 0 /\ InHand = "provider_error"
  /\ result = "protocol_error" =>
       \/ seen > 0 /\ InHand = "protocol_error"
       \/ sub \in Sentinels
       \/ sendErr = "too_large"

(* The first terminal result and the first acceptance answer are final,     *)
(* and a terminal turn publishes nothing more (finishTerminalLocked).  What *)
(* dispatch and the cancel's observer have said of the state is not taken   *)
(* back by the other or by a markWriteComplete that comes late.             *)
OutcomeIsFinal ==
  [][ /\ result # None => UNCHANGED <<result, acceptance, state, stream>>
      /\ acceptance # "unset" => UNCHANGED acceptance
      /\ state = "accepted" => state' \in {"accepted", "cancel_requested", "terminal"}
      /\ state = "cancel_requested" => state' \in {"cancel_requested", "terminal"} ]_vars

(* Documented: TurnResultProtocolError "reports invalid framing, protocol   *)
(* data, or typed event data" (turn.go).  A turn ended by its subscription's *)
(* fatal decode error is classified as such.                                *)
FatalDecodeIsProtocolError ==
  [][ (/\ result = None /\ sub \in FatalErrors
       /\ pc["dispatcher"] = "next" /\ pc["dispatcher"]' = "unsubscribe")
      => result' = "protocol_error" ]_vars

(* The contract: each step is a step of TurnContract or leaves it alone.    *)
Contract == INSTANCE TurnContract WITH
  outcome <- result, published <- stream, acked <- cancelRequested

ContractHolds == Contract!ContractSpec

-----------------------------------------------------------------------------
(* Liveness *)

Ended == result # None /\ eventsClosed

(* A lost or closed connection ends the turn and its stream: no Wait,       *)
(* Accepted or Next stays blocked (failTurnSubscribers, closeWith).         *)
ConnectionLossEndsTurn == client # "connected" ~> Ended

(* The end of the lifecycle context ends the turn and its stream.           *)
LifecycleEndsTurn == ctx # "live" ~> Ended

(* Cancel returns once its request is written, and whatever it was doing    *)
(* once the connection is gone.                                             *)
CancelIsBounded ==
  /\ pc["canceler"] = "wait" ~> pc["canceler"] = "exit"
  /\ (pc["canceler"] # "idle" /\ client # "connected") ~> pc["canceler"] = "exit"
=============================================================================
