------------------------------- MODULE Client -------------------------------
(***************************************************************************)
(* The Client's connection machinery (client.go): the handshake of         *)
(* NewClient and Reconnect, one reader goroutine per connection, correlated *)
(* requests, the registry of subscriptions, disconnect and Close.          *)
(*                                                                         *)
(* Processes (pc):                                                         *)
(*   "opener"    NewClient, then whoever calls Reconnect                   *)
(*   "closer"    closeWith                                                 *)
(*   Requesters  callers of Request, one request each                      *)
(*   Turns       callers of StartTurn: a subscription, then a notification *)
(*   Conns       the readLoop of each connection, named like it            *)
(* Reconnect and disconnect exclude each other through reconnectMu (mu).   *)
(* Each read or write of the state, the pending map or the registry is a   *)
(* step of its own where another process could come in between.  Events    *)
(* and their buffers are the subject of Turn; here a subscription is only  *)
(* open or not.                                                            *)
(***************************************************************************)
EXTENDS Naturals, Sequences

CONSTANTS
  Requesters, Turns, RawSubs,
  ConnOrder,       \* the connections in the order they are dialled; bounds them
  MaxAttempts,     \* ReconnectPolicy.MaxAttempts after withDefaults
  Resume,          \* ReconnectPolicy.Resume with a remembered session
  ReconnectFrom    \* the states in which a caller calls Reconnect, or in which reconnectMu is left
                   \* to the next of several callers, who looks only for StateClosed

Conns == {ConnOrder[i] : i \in 1..Len(ConnOrder)}
Callers == Requesters \cup Turns
Procs == Callers \cup Conns \cup {"opener", "closer"}
Ids == Requesters \cup Conns       \* a request is named after its caller or connection
Subs == Turns \cup RawSubs

States == {"connecting", "connected", "disconnected", "reconnecting", "closing", "closed"}

ASSUME ConnOrderAssumption ==
  /\ Len(ConnOrder) \in Nat \ {0}
  /\ \A i, j \in 1..Len(ConnOrder) : ConnOrder[i] = ConnOrder[j] => i = j
ASSUME ProcsAssumption ==
  /\ Requesters \cap Turns = {} /\ Callers \cap Conns = {} /\ RawSubs \cap Turns = {}
  /\ {"opener", "closer"} \cap (Callers \cup Conns) = {}
  /\ "none" \notin Ids
ASSUME MaxAttemptsAssumption == MaxAttempts \in Nat \ {0}
ASSUME ResumeAssumption == Resume \in BOOLEAN
ASSUME ReconnectFromAssumption == ReconnectFrom \subseteq States

VARIABLES
  state,      \* c.state
  closed,     \* c.closed is closed
  ready,      \* NewClient has returned a client
  cur,        \* index of the connection c.transport, c.encoder and c.decoder belong to
  open,       \* transports that are not closed
  mu,         \* c.reconnectMu is locked
  pending,    \* c.pending
  chan,       \* the reply channel of each request
  wire,       \* per connection, the requests written and not answered
  held,       \* the entry a reader has removed from pending, not yet answered
  sub,        \* per subscription: "none", "open" or "failed"
  sent,       \* the connection a turn's send_message was written on, 0 if none
  fatal,      \* readers that stopped for a framing or decode error
  phase,      \* the opener's request: "hello" or "attach"
  attempt,    \* Reconnect's loop variable
  pc

connVars == <<cur, open>>
requestVars == <<pending, chan, wire, held>>
subVars == <<sub, sent>>
openerVars == <<ready, phase, attempt>>
vars == <<state, closed, mu, connVars, requestVars, subVars, openerVars, fatal, pc>>

Cur == ConnOrder[cur]
IdOf(p) == IF p = "opener" THEN Cur ELSE p
Goto(p, label) == pc' = [pc EXCEPT ![p] = label]
ClosingOrClosed == state \in {"closing", "closed"}

(* NewClient up to its handshake: the first connection has its reader. *)
Init ==
  /\ state = "connecting" /\ closed = FALSE /\ ready = FALSE
  /\ cur = 1 /\ open = {ConnOrder[1]} /\ mu = FALSE
  /\ pending = {} /\ chan = [i \in Ids |-> "none"]
  /\ wire = [c \in Conns |-> {}] /\ held = [c \in Conns |-> "none"]
  /\ sub = [s \in Subs |-> "none"] /\ sent = [t \in Turns |-> 0]
  /\ fatal = {} /\ phase = "hello" /\ attempt = 0
  /\ pc = [p \in Procs |-> IF p = "opener" THEN "request"
                           ELSE IF p = ConnOrder[1] THEN "read"
                           ELSE IF p \in Conns THEN "unborn" ELSE "idle"]

-----------------------------------------------------------------------------
(* readLoop *)

(* A reply whose request is still pending is taken out of the map. *)
ReadReply(c, i) ==
  /\ pc[c] = "read"
  /\ i \in wire[c]
  /\ wire' = [wire EXCEPT ![c] = @ \ {i}]
  /\ IF i \in pending
     THEN pending' = pending \ {i} /\ held' = [held EXCEPT ![c] = i] /\ Goto(c, "deliver")
     ELSE UNCHANGED <<pending, held, pc>>
  /\ UNCHANGED <<state, closed, mu, connVars, chan, subVars, openerVars, fatal>>

(* pending.reply <- frame; a closed or already used channel is a crash. *)
Deliver(c) ==
  /\ pc[c] = "deliver"
  /\ chan' = [chan EXCEPT ![held[c]] = IF @ = "waiting" THEN "sent" ELSE "panic"]
  /\ held' = [held EXCEPT ![c] = "none"]
  /\ Goto(c, "read")
  /\ UNCHANGED <<state, closed, mu, connVars, pending, wire, subVars, openerVars, fatal>>

(* EOF, a transport error or a framing error, which alone is terminal. *)
ReadFails(c, terminal) ==
  /\ pc[c] = "read"
  /\ IF ClosingOrClosed
     THEN Goto(c, "stopped") /\ UNCHANGED fatal
     ELSE Goto(c, "lock") /\ fatal' = IF terminal THEN fatal \cup {c} ELSE fatal
  /\ UNCHANGED <<state, closed, mu, connVars, requestVars, subVars, openerVars>>

(* DecodeServerFrame refuses a frame: terminal, whatever the state. *)
DecodeFails(c) ==
  /\ pc[c] = "read"
  /\ Goto(c, "lock")
  /\ fatal' = fatal \cup {c}
  /\ UNCHANGED <<state, closed, mu, connVars, requestVars, subVars, openerVars>>

-----------------------------------------------------------------------------
(* disconnect, called by a reader or after a failed write *)

(* Where its caller continues. *)
AfterDisconnect(p) ==
  IF p \in Conns THEN "stopped"
  ELSE IF p \in Requesters THEN "done"
  ELSE IF p \in Turns THEN "unsubscribe" ELSE "failed"

(* The guard of disconnect reads the state once per comparison: for         *)
(* StateClosed here, for StateClosing and StateDisconnected in the next     *)
(* step, and a third time when it sets StateDisconnected.                   *)
DisconnectLock(p) ==
  /\ pc[p] = "lock"
  /\ ~mu
  /\ IF state = "closed"
     THEN Goto(p, AfterDisconnect(p)) /\ UNCHANGED mu
     ELSE Goto(p, "check") /\ mu' = TRUE
  /\ UNCHANGED <<state, closed, connVars, requestVars, subVars, openerVars, fatal>>

DisconnectCheck(p) ==
  /\ pc[p] = "check"
  /\ IF state = "closing" \/ (state = "disconnected" /\ p \notin fatal)
     THEN Goto(p, AfterDisconnect(p)) /\ mu' = FALSE
     ELSE Goto(p, "set") /\ UNCHANGED mu
  /\ UNCHANGED <<state, closed, connVars, requestVars, subVars, openerVars, fatal>>

DisconnectSet(p) ==
  /\ pc[p] = "set"
  /\ state' = "disconnected"
  /\ Goto(p, "tear")
  /\ UNCHANGED <<closed, mu, connVars, requestVars, subVars, openerVars, fatal>>

(* A mutation of Drain: the map is not replaced. *)
DrainKeepingMap ==
  /\ chan' = [i \in Ids |-> IF i \notin pending THEN chan[i]
                            ELSE IF chan[i] = "waiting" THEN "closed" ELSE "panic"]
  /\ UNCHANGED <<pending, wire, held>>

(* Every reply channel of the old map is closed. *)
Drain ==
  /\ pending' = {}
  /\ chan' = [i \in Ids |-> IF i \notin pending THEN chan[i]
                            ELSE IF chan[i] = "waiting" THEN "closed" ELSE "panic"]
  /\ UNCHANGED <<wire, held>>

(* A mutation of DisconnectTear: the requests are not released. *)
DisconnectTearSilent(p) ==
  /\ pc[p] = "tear"
  /\ open' = open \ {Cur}
  /\ Goto(p, "fail")
  /\ UNCHANGED <<state, closed, mu, cur, requestVars, subVars, openerVars, fatal>>

(* The transport that is current now is closed and the requests released. *)
DisconnectTear(p) ==
  /\ pc[p] = "tear"
  /\ open' = open \ {Cur}
  /\ Drain
  /\ Goto(p, "fail")
  /\ UNCHANGED <<state, closed, mu, cur, subVars, openerVars, fatal>>

FailSubs(which) ==
  sub' = [s \in Subs |-> IF s \in which /\ sub[s] = "open" THEN "failed" ELSE sub[s]]

(* Mutations of DisconnectFail: an ordinary error fails the raw             *)
(* subscriptions too, or not even those of the turns.                       *)
DisconnectFailAll(p) ==
  /\ pc[p] = "fail"
  /\ FailSubs(Subs)
  /\ mu' = FALSE
  /\ Goto(p, AfterDisconnect(p))
  /\ UNCHANGED <<state, closed, connVars, requestVars, sent, openerVars, fatal>>

DisconnectFailFatalOnly(p) ==
  /\ pc[p] = "fail"
  /\ FailSubs(IF p \in fatal THEN Subs ELSE {})
  /\ mu' = FALSE
  /\ Goto(p, AfterDisconnect(p))
  /\ UNCHANGED <<state, closed, connVars, requestVars, sent, openerVars, fatal>>

(* A terminal error fails every subscription, an ordinary one the turns'. *)
DisconnectFail(p) ==
  /\ pc[p] = "fail"
  /\ FailSubs(IF p \in fatal THEN Subs ELSE Turns)
  /\ mu' = FALSE
  /\ Goto(p, AfterDisconnect(p))
  /\ UNCHANGED <<state, closed, connVars, requestVars, sent, openerVars, fatal>>

-----------------------------------------------------------------------------
(* requestWithReplyObserver and Notify *)

(* The state and closed checks of a caller's Request. *)
Request(p) ==
  /\ ready
  /\ pc[p] = "idle" /\ p \in Requesters
  /\ Goto(p, IF state = "connected" /\ ~closed THEN "register" ELSE "done")
  /\ UNCHANGED <<state, closed, mu, connVars, requestVars, subVars, openerVars, fatal>>

(* A mutation of OpenerRequest: no check of c.closed. *)
OpenerRequestUnchecked ==
  /\ pc["opener"] = "request"
  /\ Goto("opener", "register")
  /\ UNCHANGED <<state, closed, mu, connVars, requestVars, subVars, openerVars, fatal>>

(* The opener's own requests skip the state check. *)
OpenerRequest ==
  /\ pc["opener"] = "request"
  /\ Goto("opener", IF closed THEN "failed" ELSE "register")
  /\ UNCHANGED <<state, closed, mu, connVars, requestVars, subVars, openerVars, fatal>>

Register(p) ==
  /\ pc[p] = "register"
  /\ pending' = pending \cup {IdOf(p)}
  /\ chan' = [chan EXCEPT ![IdOf(p)] = "waiting"]
  /\ Goto(p, "write")
  /\ UNCHANGED <<state, closed, mu, connVars, wire, held, subVars, openerVars, fatal>>

(* The frame goes to whatever connection is current when it is written. *)
Write(p) ==
  /\ pc[p] = "write"
  /\ Cur \in open
  /\ IF p \in Turns
     THEN /\ sent' = [sent EXCEPT ![p] = cur] /\ Goto(p, "live") /\ UNCHANGED wire
     ELSE /\ wire' = [wire EXCEPT ![Cur] = @ \cup {IdOf(p)}]
          /\ Goto(p, "wait") /\ UNCHANGED sent
  /\ UNCHANGED <<state, closed, mu, connVars, pending, chan, held, sub, openerVars, fatal>>

(* removePending, then disconnect(err, false). *)
WriteFails(p) ==
  /\ pc[p] = "write"
  /\ pending' = pending \ {IdOf(p)}
  /\ Goto(p, "lock")
  /\ UNCHANGED <<state, closed, mu, connVars, chan, wire, held, subVars, openerVars, fatal>>

(* The select at the end of a request: the caller learns of a reply, of a   *)
(* reply channel that was closed, of its timeout or of the closed client.   *)
Replied(p) == chan[IdOf(p)] = "sent" /\ UNCHANGED pending

(* A mutation of GaveUp: a timeout leaves the entry behind. *)
GaveUpLeaving(p) == UNCHANGED pending

GaveUp(p) ==
  \/ chan[IdOf(p)] = "closed" /\ UNCHANGED pending
  \/ pending' = pending \ {IdOf(p)}          \* timeout, or c.closed: removePending

Await(p) ==
  /\ pc[p] = "wait" /\ p \in Requesters
  /\ Replied(p) \/ GaveUp(p)
  /\ Goto(p, "done")
  /\ UNCHANGED <<state, closed, mu, connVars, chan, wire, held, subVars, openerVars, fatal>>

-----------------------------------------------------------------------------
(* Subscribe, StartTurn and Subscription.Close *)

(* A mutation of Subscribe: it does not look at c.closed. *)
SubscribeUnchecked(s) ==
  /\ ready
  /\ sub[s] = "none"
  /\ sub' = [sub EXCEPT ![s] = "open"]
  /\ IF s \in Turns THEN pc[s] = "idle" /\ Goto(s, "notify") ELSE UNCHANGED pc
  /\ UNCHANGED <<state, closed, mu, connVars, requestVars, sent, openerVars, fatal>>

(* subscribeOwned: under subsMu, refused once the client is closed. *)
Subscribe(s) ==
  /\ ready
  /\ sub[s] = "none"
  /\ sub' = [sub EXCEPT ![s] = IF closed THEN "failed" ELSE "open"]
  /\ IF s \in Turns THEN pc[s] = "idle" /\ Goto(s, "notify") ELSE UNCHANGED pc
  /\ UNCHANGED <<state, closed, mu, connVars, requestVars, sent, openerVars, fatal>>

Notify(t) ==
  /\ pc[t] = "notify"
  /\ Goto(t, IF state = "connected" /\ ~closed THEN "write" ELSE "unsubscribe")
  /\ UNCHANGED <<state, closed, mu, connVars, requestVars, subVars, openerVars, fatal>>

(* A turn that ends closes its subscription, written or not. *)
Unsubscribe(t) ==
  /\ pc[t] \in {"unsubscribe", "live"}
  /\ FailSubs({t})
  /\ Goto(t, "done")
  /\ UNCHANGED <<state, closed, mu, connVars, requestVars, sent, openerVars, fatal>>

-----------------------------------------------------------------------------
(* NewClient and Reconnect *)

(* The opener's request ends: hello, then attach_session when resuming.     *)
(* A reply may still be a refusal.                                          *)
OpenerAwait ==
  /\ pc["opener"] = "wait"
  /\ \/ /\ Replied("opener")
        /\ IF phase = "hello" /\ Resume /\ ready
           THEN phase' = "attach" /\ Goto("opener", "request")
           ELSE UNCHANGED phase /\ Goto("opener", "up")
     \/ /\ Replied("opener") \/ GaveUp("opener")
        /\ UNCHANGED phase /\ Goto("opener", "failed")
  /\ UNCHANGED <<state, closed, mu, connVars, chan, wire, held, subVars, ready, attempt, fatal>>

(* NewClient succeeds: setState(StateConnected), whatever the state is now. *)
NewClientUp ==
  /\ pc["opener"] = "up" /\ ~ready
  /\ state' = "connected"
  /\ ready' = TRUE
  /\ Goto("opener", "idle")
  /\ UNCHANGED <<closed, mu, connVars, requestVars, subVars, phase, attempt, fatal>>

(* NewClient fails: it closes the client it made and returns none. *)
NewClientFails ==
  /\ pc["opener"] = "failed" /\ ~ready
  /\ state' = "closing"
  /\ pc' = [pc EXCEPT !["opener"] = "gone", !["closer"] = "signal"]
  /\ UNCHANGED <<closed, mu, connVars, requestVars, subVars, openerVars, fatal>>

ReconnectCall ==
  /\ ready /\ pc["opener"] = "idle"
  /\ state \in ReconnectFrom
  /\ Goto("opener", "reconnect")
  /\ UNCHANGED <<state, closed, mu, connVars, requestVars, subVars, openerVars, fatal>>

ReconnectLock ==
  /\ pc["opener"] = "reconnect"
  /\ ~mu
  /\ IF state = "closed"
     THEN Goto("opener", "idle") /\ UNCHANGED mu
     ELSE Goto("opener", "begin") /\ mu' = TRUE
  /\ UNCHANGED <<state, closed, connVars, requestVars, subVars, openerVars, fatal>>

ReconnectBegin ==
  /\ pc["opener"] = "begin"
  /\ state' = "reconnecting"
  /\ attempt' = 1
  /\ Goto("opener", "dial")
  /\ UNCHANGED <<closed, mu, connVars, requestVars, subVars, ready, phase, fatal>>

(* A mutation of NextAttempt: the bound is off by one. *)
NextAttemptOneMore ==
  IF attempt <= MaxAttempts
  THEN attempt' = attempt + 1 /\ Goto("opener", "dial") /\ UNCHANGED mu
  ELSE mu' = FALSE /\ Goto("opener", "idle") /\ UNCHANGED attempt

(* The next turn of the loop, or its end with the last error. *)
NextAttempt ==
  IF attempt < MaxAttempts
  THEN attempt' = attempt + 1 /\ Goto("opener", "dial") /\ UNCHANGED mu
  ELSE mu' = FALSE /\ Goto("opener", "idle") /\ UNCHANGED attempt

(* The backoff before a later attempt is cut short by the caller's context. *)
BackoffCanceled ==
  /\ pc["opener"] = "dial" /\ attempt > 1
  /\ state' = "disconnected"
  /\ mu' = FALSE
  /\ Goto("opener", "idle")
  /\ UNCHANGED <<closed, connVars, requestVars, subVars, openerVars, fatal>>

FactoryFails ==
  /\ pc["opener"] = "dial"
  /\ NextAttempt
  /\ UNCHANGED <<state, closed, connVars, requestVars, subVars, ready, phase, fatal>>

(* installDecoder, setState(StateConnecting) and go readLoop: the previous  *)
(* transport is replaced, not closed.                                       *)
Dial ==
  /\ pc["opener"] = "dial"
  /\ cur < Len(ConnOrder)
  /\ cur' = cur + 1
  /\ open' = open \cup {ConnOrder[cur + 1]}
  /\ state' = "connecting"
  /\ phase' = "hello"
  /\ pc' = [pc EXCEPT !["opener"] = "request", ![ConnOrder[cur + 1]] = "read"]
  /\ UNCHANGED <<closed, mu, requestVars, subVars, ready, attempt, fatal>>

(* handshake or resume failed: t.Close(), StateDisconnected, continue. *)
AttemptFails ==
  /\ pc["opener"] = "failed" /\ ready
  /\ open' = open \ {Cur}
  /\ state' = "disconnected"
  /\ NextAttempt
  /\ UNCHANGED <<closed, cur, requestVars, subVars, ready, phase, fatal>>

ReconnectUp ==
  /\ pc["opener"] = "up" /\ ready
  /\ state' = "connected"
  /\ mu' = FALSE
  /\ Goto("opener", "idle")
  /\ UNCHANGED <<closed, connVars, requestVars, subVars, openerVars, fatal>>

-----------------------------------------------------------------------------
(* closeWith *)

Close ==
  /\ ready /\ pc["closer"] = "idle"
  /\ state' = "closing"
  /\ Goto("closer", "signal")
  /\ UNCHANGED <<closed, mu, connVars, requestVars, subVars, openerVars, fatal>>

(* A mutation of CloseSignal: the transport stays open. *)
CloseSignalKeepingTransport ==
  /\ pc["closer"] = "signal"
  /\ closed' = TRUE
  /\ Drain
  /\ Goto("closer", "subs")
  /\ UNCHANGED <<state, mu, connVars, subVars, openerVars, fatal>>

CloseSignal ==
  /\ pc["closer"] = "signal"
  /\ closed' = TRUE
  /\ open' = open \ {Cur}
  /\ Drain
  /\ Goto("closer", "subs")
  /\ UNCHANGED <<state, mu, cur, subVars, openerVars, fatal>>

CloseSubs ==
  /\ pc["closer"] = "subs"
  /\ FailSubs(Subs)
  /\ Goto("closer", "last")
  /\ UNCHANGED <<state, closed, mu, connVars, requestVars, sent, openerVars, fatal>>

CloseLast ==
  /\ pc["closer"] = "last"
  /\ state' = "closed"
  /\ Goto("closer", "done")
  /\ UNCHANGED <<closed, mu, connVars, requestVars, subVars, openerVars, fatal>>

-----------------------------------------------------------------------------
Reader(c) ==
  \/ \E i \in Ids : ReadReply(c, i)
  \/ Deliver(c)
  \/ \E terminal \in BOOLEAN : ReadFails(c, terminal)
  \/ DecodeFails(c)

Disconnect(p) ==
  \/ DisconnectLock(p) \/ DisconnectCheck(p) \/ DisconnectSet(p)
  \/ DisconnectTear(p) \/ DisconnectFail(p)

Requesting(p) == Request(p) \/ Register(p) \/ Write(p) \/ WriteFails(p) \/ Await(p)

Subscribing == (\E s \in Subs : Subscribe(s)) \/ (\E t \in Turns : Notify(t) \/ Unsubscribe(t))

Opener ==
  \/ OpenerRequest \/ OpenerAwait \/ NewClientUp \/ NewClientFails
  \/ ReconnectCall \/ ReconnectLock \/ ReconnectBegin \/ BackoffCanceled \/ FactoryFails
  \/ Dial \/ AttemptFails \/ ReconnectUp

Closer == Close \/ CloseSignal \/ CloseSubs \/ CloseLast

Next ==
  \/ \E c \in Conns : Reader(c)
  \/ \E p \in Procs : Disconnect(p)
  \/ \E p \in Callers \cup {"opener"} : Requesting(p)
  \/ Subscribing \/ Opener \/ Closer

Spec == Init /\ [][Next]_vars

(* Goroutines are scheduled and a Go mutex does not starve its waiters; a   *)
(* request is bounded by RequestTimeout and a factory returns.  A read or a *)
(* write is only sure to return on a closed transport.  Nothing obliges the *)
(* server to answer or a caller to call.                                    *)
Fairness ==
  /\ \A c \in Conns :
       /\ WF_vars(Deliver(c))
       /\ WF_vars(c \notin open /\ ReadFails(c, FALSE))
  /\ \A p \in Procs :
       /\ SF_vars(DisconnectLock(p))
       /\ WF_vars(DisconnectCheck(p) \/ DisconnectSet(p) \/ DisconnectTear(p) \/ DisconnectFail(p))
  /\ \A p \in Callers \cup {"opener"} :
       /\ WF_vars(Register(p))
       /\ WF_vars(Cur \notin open /\ WriteFails(p))
  /\ \A p \in Requesters : WF_vars(Await(p))
  /\ \A t \in Turns :
       /\ WF_vars(Notify(t))
       /\ WF_vars((pc[t] = "unsubscribe" \/ sub[t] = "failed") /\ Unsubscribe(t))
  /\ SF_vars(ReconnectLock)
  /\ WF_vars(OpenerRequest \/ OpenerAwait \/ NewClientUp \/ NewClientFails \/ ReconnectBegin
              \/ FactoryFails \/ Dial \/ AttemptFails \/ ReconnectUp)
  /\ WF_vars(CloseSignal \/ CloseSubs \/ CloseLast)

FairSpec == Spec /\ Fairness

-----------------------------------------------------------------------------
(* Properties *)

Labels ==
  {"idle", "unborn", "read", "deliver", "stopped", "lock", "check", "set", "tear", "fail",
   "register", "write", "wait", "done", "notify", "live", "unsubscribe", "request", "up",
   "failed", "gone", "reconnect", "begin", "dial", "signal", "subs", "last"}

(* Every variable stays in its domain; the loop of Reconnect never counts   *)
(* past MaxAttempts.                                                        *)
TypeOK ==
  /\ state \in States
  /\ closed \in BOOLEAN /\ ready \in BOOLEAN /\ mu \in BOOLEAN
  /\ cur \in 1..Len(ConnOrder) /\ open \subseteq Conns
  /\ pending \subseteq Ids
  /\ chan \in [Ids -> {"none", "waiting", "sent", "closed", "panic"}]
  /\ wire \in [Conns -> SUBSET Ids]
  /\ held \in [Conns -> Ids \cup {"none"}]
  /\ sub \in [Subs -> {"none", "open", "failed"}]
  /\ sent \in [Turns -> 0..Len(ConnOrder)]
  /\ fatal \subseteq Conns
  /\ phase \in {"hello", "attach"}
  /\ attempt \in 0..MaxAttempts
  /\ pc \in [Procs -> Labels]

(* The reader, a disconnect and Close can all reach a request's reply       *)
(* channel; whoever takes the entry out of pending is the only one to send  *)
(* on it or close it, so neither a send on a closed channel nor a second    *)
(* close can crash the program.                                             *)
NoPanic == \A i \in Ids : chan[i] # "panic"

(* A request that has returned, for whatever reason, has left no entry in   *)
(* pending.                                                                 *)
NoOrphanRequest ==
  \A p \in Requesters : pc[p] \in {"lock", "check", "set", "tear", "fail", "done"} => p \notin pending

(* Once disconnect has run, no request written on the lost connection is    *)
(* still waiting for a reply nobody will send: its channel was closed, or a *)
(* reader is about to answer it.  Without Reconnect.                        *)
RequestsReleased ==
  state = "disconnected" /\ ~mu =>
    \A p \in Requesters :
      pc[p] = "wait" => chan[p] # "waiting" \/ \E c \in Conns : held[c] = p

(* After Close no subscription is open, not even one that raced with it, so *)
(* every reader of an event stream is woken.                                *)
CloseIsComplete == pc["closer"] = "done" => \A s \in Subs : sub[s] # "open"

(* Close and Reconnect may run at the same time; when both are over no      *)
(* transport is left open.                                                  *)
NoLeakedConnection ==
  pc["closer"] = "done" /\ pc["opener"] \in {"idle", "gone"} => open = {}

(* A turn never lives on past its connection: while the client is connected *)
(* an open turn subscription whose prompt was written belongs to the        *)
(* current connection.  The ended Turn is never revived by Reconnect.       *)
TurnBoundToConnection ==
  state = "connected" =>
    \A t \in Turns : sub[t] = "open" /\ sent[t] # 0 => sent[t] = cur

(* Raw subscriptions outlive an ordinary disconnect; only Close or a        *)
(* terminal framing or decode error fails them.                             *)
RawSubscriptionsSurvive ==
  \A s \in RawSubs : sub[s] = "failed" => closed \/ fatal # {}

(* After Close every call under way returns and every reader stops.         *)
CloseReleasesAll ==
  /\ \A p \in Callers : closed /\ pc[p] # "idle" ~> pc[p] = "done"
  /\ \A c \in Conns : closed ~> pc[c] \in {"stopped", "unborn"}

(* A turn whose connection is gone is told: its subscription fails.         *)
LossFailsTurns ==
  \A t \in Turns :
    sub[t] = "open" /\ sent[t] # 0 /\ ConnOrder[sent[t]] \notin open ~> sub[t] # "open"

(* The three statements below are made by the documentation; the code does  *)
(* not keep them.                                                           *)

(* `closed` is terminal, and a disconnected client is connected again only  *)
(* by an explicit Reconnect, which first makes it reconnecting.             *)
StatesLeftAsDocumented ==
  [][/\ ready /\ state = "closed" => state' = "closed"
     /\ state = "disconnected" => state' # "connected"]_vars

(* Reconnect returns, also when it races with Close or its write has failed. *)
(* Only a write that hangs on an open connection may keep it.                *)
ReconnectReturns == ready /\ pc["opener"] \in {"reconnect", "lock"} ~> pc["opener"] \in {"idle", "write"}

(* The failure of a connection terminates that connection: once a fresh one *)
(* is up, the reader of the old one does not close it.                      *)
FreshConnectionSurvives ==
  [][\A c \in Conns : pc[c] = "tear" /\ pc'[c] = "fail" => open \ open' \subseteq {c}]_vars
=============================================================================
