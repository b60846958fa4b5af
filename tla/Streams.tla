------------------------------ MODULE Streams -------------------------------
(***************************************************************************)
(* Event streams over one connection (client.go, session.go): the bytes    *)
(* that arrive, the reader that frames and decodes them and fans every     *)
(* event out to all registered subscriptions, their bounded channels, the  *)
(* consumers' Next and Close, Session.Send on a subscription of its own,   *)
(* disconnect and closeWith.                                               *)
(*                                                                         *)
(* Processes (pc): the "reader", the "closer" and one per sender.  A       *)
(* consumer has no state but that of its subscription.  An event is named  *)
(* by its number among the frames the server has sent.  The client starts  *)
(* connected, without an instance; Reconnect and requests are in Client.   *)
(***************************************************************************)
EXTENDS Framing

CONSTANTS
  Consumers,       \* of Subscribe, Session.Events and StartTurn
  Senders,         \* callers of Session.Send
  EventBuffer,     \* Options.EventBuffer after withDefaults
  Scripts,         \* the frames the server may send on its own, in order
  Acceptance       \* the message_accepted frame it may add for each sender

Subs == Consumers \cup Senders
Procs == Senders \cup {"reader", "closer"}

(* A frame of the server: what it is, the length of its JSON text and       *)
(* whether a CR precedes its LF.                                            *)
Kinds == {"text", "message_accepted", "error", "reply", "untagged", "array", "blank"}
Frames == [kind : Kinds, size : Nat, cr : BOOLEAN]

ASSUME ProcsAssumption ==
  /\ Consumers \cap Senders = {}
  /\ "reader" \notin Senders /\ "closer" \notin Senders
ASSUME EventBufferAssumption == EventBuffer \in Nat \ {0}
ASSUME ScriptsAssumption ==
  /\ Acceptance \in Frames /\ Acceptance.kind = "message_accepted"
  /\ \A script \in Scripts : script \in Seq(Frames)

None == "none"
Fatal == {"malformed", "too_large", "invalid"}

VARIABLES
  script,     \* frames the server has still to send
  sent,       \* frames of the server, in order (history)
  asked,      \* senders whose message the server has (history)
  answer,     \* per sender, the number of the frame that accepts its message, or 0 (history)
  wire, end,  \* bytes not yet read; "open", "eof" or "reset"
  local,      \* the SDK has closed the transport
  read,       \* frames the reader has handled (history)
  log,        \* events it has fanned out (history)
  fault,      \* the error it stopped with
  subs,       \* c.subs
  turns,      \* subscriptions made by StartTurn (sub.turn)
  events,     \* the event channel of each subscription
  errors,     \* its error channel holds an error
  shut,       \* both channels are closed
  cause,      \* sub.err
  from,       \* Len(log) when it was made (history)
  got,        \* the events taken from it (history)
  result,     \* the last error Next returned (history)
  quit,       \* closed by its owner (history)
  state, closed, mu,
  pc,
  ret         \* what Send returned

serverVars == <<script, sent, asked, answer>>
wireVars == <<wire, end, local>>
readerVars == <<read, log, fault>>
subVars == <<subs, turns, events, errors, shut, cause, from, got, result, quit>>
clientVars == <<state, closed, mu>>
vars == <<serverVars, wireVars, readerVars, subVars, clientVars, pc, ret>>

Goto(p, label) == pc' = [pc EXCEPT ![p] = label]

Init ==
  /\ script \in Scripts /\ sent = <<>> /\ asked = {} /\ answer = [d \in Senders |-> 0]
  /\ wire = <<>> /\ end = "open" /\ local = FALSE
  /\ read = 0 /\ log = <<>> /\ fault = None
  /\ subs = {} /\ turns = {} /\ events = [s \in Subs |-> <<>>] /\ errors = {} /\ shut = {}
  /\ cause = [s \in Subs |-> None] /\ from = [s \in Subs |-> -1]
  /\ got = [s \in Subs |-> <<>>] /\ result = [s \in Subs |-> None] /\ quit = {}
  /\ state = "connected" /\ closed = FALSE /\ mu = FALSE
  /\ pc = [p \in Procs |-> IF p = "reader" THEN "read" ELSE "idle"]
  /\ ret = [d \in Senders |-> None]

-----------------------------------------------------------------------------
(* The server and the network *)

(* A frame on the wire: a JSON object, unless it is an array or a blank     *)
(* line.                                                                    *)
LineLen(f) == f.size + IF f.cr THEN 2 ELSE 1

Line(i, f) ==
  [k \in 1..LineLen(f) |->
     [n |-> i, c |-> CASE k = LineLen(f) -> "LF"
                       [] f.size < k /\ k < LineLen(f) -> "CR"
                       [] k = 1 /\ k <= f.size -> IF f.kind = "array" THEN "lbracket" ELSE "lbrace"
                       [] k = f.size /\ k # 1 -> "rbrace"
                       [] 1 < k /\ k < f.size -> "x"]]

Emit(f) ==
  /\ end = "open"
  /\ sent' = Append(sent, f)
  /\ wire' = wire \o Line(Len(sent) + 1, f)
  /\ UNCHANGED <<asked, end, local, readerVars, subVars, clientVars, pc, ret>>

ServerSends ==
  /\ script # <<>>
  /\ Emit(Head(script))
  /\ script' = Tail(script)
  /\ UNCHANGED answer

ServerAccepts(d) ==
  /\ d \in asked /\ answer[d] = 0
  /\ Emit(Acceptance)
  /\ answer' = [answer EXCEPT ![d] = Len(sent) + 1]
  /\ UNCHANGED script

NetworkEnds ==
  /\ end = "open"
  /\ end' \in {"eof", "reset"}
  /\ UNCHANGED <<wire, local, serverVars, readerVars, subVars, clientVars, pc, ret>>

(* transport.Close by the SDK: what the decoder has buffered is still read. *)
CloseTransport ==
  /\ local' = TRUE
  /\ end' = IF end = "open" THEN "reset" ELSE end
  /\ UNCHANGED wire

(* What ReadBytes can return now.  Of what was on its way when the          *)
(* connection ended any prefix arrives.                                     *)
Arriving ==
  IF end # "open" THEN {SubSeq(wire, 1, k) : k \in 0..Len(ReadBytes(wire))}
  ELSE IF HasLine(wire) THEN {ReadBytes(wire)} ELSE {}

-----------------------------------------------------------------------------
(* Subscriptions *)

Capacity(s) == IF s \in turns THEN EventBuffer + 2 ELSE EventBuffer

(* subscribeOwned: under subsMu, refused once the client is closed. *)
Register(s) ==
  /\ from' = [from EXCEPT ![s] = Len(log)]
  /\ IF closed
     THEN /\ cause' = [cause EXCEPT ![s] = "closed"] /\ shut' = shut \cup {s} /\ UNCHANGED subs
     ELSE /\ subs' = subs \cup {s} /\ UNCHANGED <<cause, shut>>
  /\ UNCHANGED <<events, errors, got, result, quit>>

(* closeSubscriberLocked for every subscription in which. *)
CloseSubscribers(which, err) ==
  /\ subs' = subs \ which
  /\ cause' = [s \in Subs |-> IF s \in which \ shut THEN err ELSE cause[s]]
  /\ errors' = IF err = None THEN errors ELSE errors \cup (which \ shut)
  /\ shut' = shut \cup which

(* Subscribe, Session.Events, or the subscription of a turn. *)
Subscribe(s) ==
  /\ from[s] = -1
  /\ Register(s)
  /\ turns' = turns \/ turns' = turns \cup {s}
  /\ UNCHANGED <<serverVars, wireVars, readerVars, clientVars, pc, ret>>

(* A mutation of SubscriptionError: only the registry is asked. *)
SubscriptionErrorRegistered(s) ==
  IF s \in subs /\ cause[s] # None THEN cause[s]
  ELSE IF state = "closed" THEN "closed" ELSE "disconnected"

(* subscriptionError: a closed subscription is no longer in the registry,   *)
(* its record still has the cause.                                          *)
SubscriptionError(s) ==
  IF cause[s] # None THEN cause[s]
  ELSE IF state = "closed" THEN "closed" ELSE "disconnected"

(* The cases of the select in Subscription.Next that are ready; Go picks    *)
(* one at random.                                                           *)
NextEvent(s) ==
  /\ events[s] # <<>>
  /\ got' = [got EXCEPT ![s] = Append(@, Head(events[s]))]
  /\ events' = [events EXCEPT ![s] = Tail(@)]
  /\ UNCHANGED <<errors, result>>

NextError(s) ==
  /\ \/ s \in errors /\ errors' = errors \ {s} /\ result' = [result EXCEPT ![s] = cause[s]]
     \/ /\ s \in shut /\ (events[s] = <<>> \/ s \notin errors)
        /\ result' = [result EXCEPT ![s] = SubscriptionError(s)]
        /\ UNCHANGED errors
  /\ UNCHANGED <<got, events>>

SubscriptionNext(s) ==
  /\ from[s] # -1
  /\ NextEvent(s) \/ NextError(s)
  /\ UNCHANGED <<serverVars, wireVars, readerVars, subs, turns, shut, cause, from, quit, clientVars, pc, ret>>

(* Subscription.Close: unsubscribe looks the subscription up. *)
Unsubscribe(s) ==
  /\ quit' = quit \cup {s}
  /\ CloseSubscribers({s} \cap subs, None)
  /\ UNCHANGED <<turns, from, got>>

CloseSubscription(s) ==
  /\ from[s] # -1 /\ s \notin quit
  /\ Unsubscribe(s)
  /\ UNCHANGED <<serverVars, wireVars, readerVars, events, result, clientVars, pc, ret>>

-----------------------------------------------------------------------------
(* readLoop *)

(* DecodeServerFrame of an object. *)
Decodes(f) == f.kind # "untagged"

(* Mutations of FanOut: a full subscription only misses the event, or the   *)
(* buffer has no bound.                                                     *)
FanOutDropping(e) ==
  /\ events' = [s \in Subs |-> IF s \in subs /\ Len(events[s]) < Capacity(s)
                               THEN Append(events[s], e) ELSE events[s]]
  /\ UNCHANGED <<subs, errors, shut, cause>>

FanOutUnbounded(e) ==
  /\ events' = [s \in Subs |-> IF s \in subs THEN Append(events[s], e) ELSE events[s]]
  /\ UNCHANGED <<subs, errors, shut, cause>>

(* One event to every registered subscription, under subsMu: a full one is  *)
(* failed, the others get it.                                               *)
FanOut(e) ==
  LET full == {s \in subs : Len(events[s]) >= Capacity(s)}
  IN  /\ events' = [s \in Subs |-> IF s \in subs \ full THEN Append(events[s], e) ELSE events[s]]
      /\ CloseSubscribers(full, "overflow")

ReadEvent ==
  \E bytes \in Arriving :
    LET e == ReadFrame(bytes)[1].n
    IN  /\ pc["reader"] = "read"
        /\ ReadStatus(bytes, end) = "frame"
        /\ Decodes(sent[e])
        /\ wire' = IF HasLine(bytes) THEN Rest(wire) ELSE <<>>
        /\ read' = read + 1
        /\ IF sent[e].kind = "reply"
           THEN UNCHANGED <<log, subs, events, errors, shut, cause>>
           ELSE log' = Append(log, e) /\ FanOut(e)
        /\ UNCHANGED <<end, local, fault, serverVars, turns, from, got, result, quit, clientVars, pc, ret>>

(* An error of ReadFrame is not reported while the client closes, one of    *)
(* DecodeServerFrame always is.                                             *)
ReadFails ==
  \E bytes \in Arriving :
    LET status == ReadStatus(bytes, end)
    IN  /\ pc["reader"] = "read"
        /\ IF status = "frame"
           THEN /\ ~Decodes(sent[ReadFrame(bytes)[1].n])
                /\ fault' = "invalid" /\ Goto("reader", "lock")
           ELSE /\ fault' = status
                /\ Goto("reader", IF state \in {"closing", "closed"} THEN "stopped" ELSE "lock")
        /\ wire' = IF HasLine(bytes) THEN wire ELSE <<>>
        /\ UNCHANGED <<read, log, end, local, serverVars, subVars, clientVars, ret>>

-----------------------------------------------------------------------------
(* disconnect, by the reader with its fault or by a sender whose write      *)
(* failed                                                                   *)

Terminal(p) == p = "reader" /\ fault \in Fatal
AfterDisconnect(p) == IF p = "reader" THEN "stopped" ELSE "close"

(* The guard, setState and transport.Close; Client has the steps between.   *)
Disconnect(p) ==
  /\ pc[p] = "lock" /\ ~mu
  /\ IF state \in {"closing", "closed"} \/ (state = "disconnected" /\ ~Terminal(p))
     THEN Goto(p, AfterDisconnect(p)) /\ UNCHANGED <<state, mu, wireVars>>
     ELSE state' = "disconnected" /\ mu' = TRUE /\ CloseTransport /\ Goto(p, "fail")
  /\ UNCHANGED <<closed, serverVars, readerVars, subVars, ret>>

(* A fatal error fails every subscription, an ordinary one the turns'. *)
FailSubscribers(p) ==
  IF Terminal(p) THEN CloseSubscribers(subs, fault)
  ELSE CloseSubscribers(turns \cap subs, "disconnected")

DisconnectEnds(p) ==
  /\ pc[p] = "fail"
  /\ FailSubscribers(p)
  /\ mu' = FALSE
  /\ Goto(p, AfterDisconnect(p))
  /\ UNCHANGED <<state, closed, serverVars, wireVars, readerVars, turns, events, from, got, result, quit, ret>>

-----------------------------------------------------------------------------
(* Session.Send *)

Returns(d, value) == ret' = [ret EXCEPT ![d] = value]

(* validateSendOptions or the encoding of the request fails. *)
SendRefused(d) ==
  /\ pc[d] = "idle"
  /\ Goto(d, "done") /\ Returns(d, "option")
  /\ UNCHANGED <<serverVars, wireVars, readerVars, subVars, clientVars>>

(* With NoReply it only notifies. *)
SendNoReply(d) ==
  /\ pc[d] = "idle"
  /\ Goto(d, "notify")
  /\ UNCHANGED <<serverVars, wireVars, readerVars, subVars, clientVars, ret>>

(* A mutation of Send: the message is written first. *)
SendSubscribingLater(d) ==
  /\ pc[d] = "idle"
  /\ IF d \in asked
     THEN Register(d) /\ Goto(d, "wait") /\ UNCHANGED <<asked, turns>>
     ELSE state = "connected" /\ ~closed /\ asked' = asked \cup {d} /\ UNCHANGED <<subVars, pc>>
  /\ UNCHANGED <<script, sent, answer, wireVars, readerVars, clientVars, ret>>

(* The subscription is there before the message is written. *)
Send(d) ==
  /\ pc[d] = "idle"
  /\ Register(d)
  /\ Goto(d, "notify")
  /\ UNCHANGED <<turns, serverVars, wireVars, readerVars, clientVars, ret>>

Notify(d) ==
  /\ pc[d] = "notify"
  /\ IF state = "connected" /\ ~closed
     THEN Goto(d, "write") /\ UNCHANGED ret
     ELSE Goto(d, "close") /\ Returns(d, IF state \in {"closed", "connected"} THEN "closed" ELSE "disconnected")
  /\ UNCHANGED <<serverVars, wireVars, readerVars, subVars, clientVars>>

(* Encoder.Write: one line.  A send without a reply has no subscription. *)
Write(d) ==
  /\ pc[d] = "write"
  /\ ~local
  /\ asked' = asked \cup {d}
  /\ IF from[d] = -1
     THEN Goto(d, "done") /\ Returns(d, "written")
     ELSE Goto(d, "wait") /\ UNCHANGED ret
  /\ UNCHANGED <<script, sent, answer, wireVars, readerVars, subVars, clientVars>>

(* A frame over the limit is refused before anything is written, yet also   *)
(* ends in disconnect(err, false), like an error of the transport.          *)
WriteFails(d) ==
  /\ pc[d] = "write"
  /\ Goto(d, "lock") /\ Returns(d, "write_error")
  /\ UNCHANGED <<serverVars, wireVars, readerVars, subVars, clientVars>>

(* The loop on Next.  Any message_accepted ends it, any error event too. *)
SendNext(d) ==
  /\ pc[d] = "wait"
  /\ \/ /\ NextEvent(d)
        /\ LET kind == sent[Head(events[d])].kind
           IN  IF kind = "message_accepted" THEN Goto(d, "close") /\ Returns(d, "accepted")
               ELSE IF kind = "error" THEN Goto(d, "close") /\ Returns(d, "rejected")
               ELSE UNCHANGED <<pc, ret>>
     \/ NextError(d) /\ Goto(d, "close") /\ Returns(d, result'[d])
  /\ UNCHANGED <<serverVars, wireVars, readerVars, subs, turns, shut, cause, from, quit, clientVars>>

SendContextEnds(d) ==
  /\ pc[d] = "wait"
  /\ Goto(d, "close") /\ Returns(d, "context")
  /\ UNCHANGED <<serverVars, wireVars, readerVars, subVars, clientVars>>

(* The deferred sub.Close. *)
SendEnds(d) ==
  /\ pc[d] = "close"
  /\ Unsubscribe(d)
  /\ Goto(d, "done")
  /\ UNCHANGED <<serverVars, wireVars, readerVars, events, result, clientVars, ret>>

-----------------------------------------------------------------------------
(* closeWith *)

CloseBegins ==
  /\ pc["closer"] = "idle"
  /\ state' = "closing"
  /\ Goto("closer", "signal")
  /\ UNCHANGED <<closed, mu, serverVars, wireVars, readerVars, subVars, ret>>

(* close(c.closed), transport.Close and the end of every subscription, in    *)
(* this order, in one step: in the code c.closed may be seen closed before   *)
(* the last subscription is.                                                 *)
CloseSignal ==
  /\ pc["closer"] = "signal"
  /\ closed' = TRUE
  /\ CloseTransport
  /\ CloseSubscribers(subs, "closed")
  /\ Goto("closer", "last")
  /\ UNCHANGED <<state, mu, serverVars, readerVars, turns, events, from, got, result, quit, ret>>

CloseLast ==
  /\ pc["closer"] = "last"
  /\ state' = "closed"
  /\ Goto("closer", "done")
  /\ UNCHANGED <<closed, mu, serverVars, wireVars, readerVars, subVars, ret>>

-----------------------------------------------------------------------------
Peer == ServerSends \/ (\E d \in Senders : ServerAccepts(d)) \/ NetworkEnds

Reader == ReadEvent \/ ReadFails

Consumer(s) == Subscribe(s) \/ SubscriptionNext(s) \/ CloseSubscription(s)

Sending(d) == Notify(d) \/ Write(d) \/ WriteFails(d) \/ SendNext(d) \/ SendEnds(d)

Closing == CloseSignal \/ CloseLast

Next ==
  \/ Peer \/ Reader
  \/ \E p \in Procs : Disconnect(p) \/ DisconnectEnds(p)
  \/ \E s \in Consumers : Consumer(s)
  \/ \E d \in Senders : SendRefused(d) \/ SendNoReply(d) \/ Send(d) \/ Sending(d) \/ SendContextEnds(d)
  \/ CloseBegins \/ Closing

Spec == Init /\ [][Next]_vars

-----------------------------------------------------------------------------
(* Properties *)

Causes == Fatal \cup {"overflow", "disconnected", "closed"}
Indices == 1..Len(sent)

(* Every variable stays in its domain, and no channel holds more than its   *)
(* capacity.                                                                *)
TypeOK ==
  /\ script \in Seq(Frames) /\ sent \in Seq(Frames)
  /\ asked \subseteq Senders /\ answer \in [Senders -> 0..Len(sent)]
  /\ wire \in Seq(Bytes) /\ end \in {"open", "eof", "reset"} /\ local \in BOOLEAN
  /\ read \in 0..Len(sent) /\ log \in Seq(Indices)
  /\ fault \in Fatal \cup {"eof", "reset", None}
  /\ subs \subseteq Subs /\ turns \subseteq Consumers /\ errors \subseteq Subs /\ shut \subseteq Subs /\ quit \subseteq Subs
  /\ events \in [Subs -> Seq(Indices)] /\ \A s \in Subs : Len(events[s]) <= Capacity(s)
  /\ got \in [Subs -> Seq(Indices)] /\ from \in [Subs -> -1..Len(log)]
  /\ cause \in [Subs -> Causes \cup {None}] /\ result \in [Subs -> Causes \cup {None}]
  /\ state \in {"connected", "disconnected", "closing", "closed"}
  /\ closed \in BOOLEAN /\ mu \in BOOLEAN
  /\ pc \in [Procs -> {"idle", "read", "lock", "fail", "stopped", "notify", "write",
                       "wait", "close", "done", "signal", "last"}]
  /\ ret \in [Senders -> Causes \cup {None, "option", "written", "write_error", "accepted",
                                      "rejected", "context"}]

(* A slow subscriber costs nobody else an event: what a subscription has    *)
(* delivered and buffered is, in order and without a gap, what was fanned   *)
(* out since it was made, up to now while it is registered and otherwise up *)
(* to its end; and a registered subscription's channels are open, so the    *)
(* fan-out never sends on a closed one.                                     *)
StreamsContiguous ==
  \A s \in Subs :
    from[s] # -1 =>
      LET held == got[s] \o events[s]
      IN  /\ Len(held) <= Len(log) - from[s]
          /\ held = SubSeq(log, from[s] + 1, from[s] + Len(held))
          /\ s \in subs => s \notin shut /\ Len(held) = Len(log) - from[s]

(* A frame the reader may accept: decodable, so with the two braces of an   *)
(* object at least, and no longer than MaxSize; a CR before the LF counts.  *)
Acceptable(f) ==
  /\ f.kind \notin {"untagged", "array"} /\ f.size > 1
  /\ MaxSize > 0 => f.size <= MaxSize /\ (f.cr => f.size < MaxSize)

(* What the reader fans out is what the server sent, frame by frame, and    *)
(* nothing but events; it stops with a fatal error only at a frame that is  *)
(* not acceptable or was cut off.  A last frame that lost only its line     *)
(* ending is still delivered.                                               *)
WireFaithful ==
  /\ \A i \in 1..read : Acceptable(sent[i]) \/ (sent[i].cr /\ sent[i].size = MaxSize /\ end # "open")
  /\ \A i \in Indices : (\E k \in 1..Len(log) : log[k] = i) <=> i <= read /\ sent[i].kind # "reply"
  /\ \A j, k \in 1..Len(log) : j < k => log[j] < log[k]
  /\ fault \in Fatal => (read < Len(sent) /\ ~Acceptable(sent[read + 1])) \/ (end # "open" /\ wire = <<>>)

(* A consumer that did not close its stream is told why it ended, however   *)
(* the select chooses and however often it asks; overflow is told only to   *)
(* one whose own buffer was full.                                           *)
NextTellsCause ==
  \A s \in Subs :
    /\ result[s] # None /\ s \notin quit => s \in shut /\ result[s] = cause[s] /\ cause[s] # None
    /\ result[s] = "overflow" => Len(got[s]) + Len(events[s]) >= Capacity(s)

(* The acceptance of a message cannot slip past the Send that waits for it, *)
(* and a client that is closed or whose stream has broken for good leaves   *)
(* no Send waiting for nothing.                                             *)
SendNotStranded ==
  \A d \in Senders :
    pc[d] = "wait" /\ d \notin shut =>
      /\ answer[d] \in 1..read => \E i \in 1..Len(events[d]) : events[d][i] = answer[d]
      /\ ~closed /\ ~(fault \in Fatal /\ pc["reader"] = "stopped" /\ state # "closing")
=============================================================================
