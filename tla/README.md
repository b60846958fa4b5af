# jcode-go: a verification project in TLA+

jcode-go is a Go SDK that talks newline-delimited JSON to a jcode daemon. This
directory models the concurrent parts of the SDK, checks the models with TLC on
small instances and proves their safety properties with TLAPS for every value of
the constants. Paths below are relative to the repository root; the
exact lines behind each definition are in `PROJECT.json` under `map`.

    tlc -workers 2 -config Turn_endings.cfg MCTurn     one model-checking run
    tlapm TurnProofs.tla                               the proofs of one component

## 1. The system

### Components, their state and their operations

| Component | State | Operations |
|---|---|---|
| **Turn** (`turn.go`, `Session.StartTurn` in `session.go`) | `state`, acceptance answer, terminal result, bounded channel of typed events, the cancel attempt | StartTurn, dispatch, watchLifecycle, Cancel/runCancel, Accepted, Next, Wait |
| **Event classification** (`session.go`, `turn.go`) | none | decodeTypedEvent, SemanticClassOf, turnResultFromSubscriptionError |
| **Client connection** (`client.go`) | `state`, transport/encoder/decoder, `reconnectMu`, `closed` | NewClient, Reconnect, readLoop, disconnect, closeWith |
| **Requests** (`client.go`) | `pending`, one reply channel per request | Request, Notify, reply delivery, timeout |
| **Subscriptions** (`client.go`) | `subs`, per subscription an event channel, an error and `done` | Subscribe, subscribeTurn, fan-out, Subscription.Next, Close |
| **Instance ownership, bridge monitor** (`client.go`, `launch.go`) | `instance`, `bridgeMonitor` | setInstance, DetachInstance, watchBridgeExit, the claim in closeWith |
| **Instance shutdown** (`launch.go`, `process_unix.go`) | shutdown flags, force-kill channel, collected errors, the process group | beginShutdown, escalation, runShutdown, terminateProcessGroup, path cleanup |
| **Launch startup** (`launch.go`) | prepared home, started process | LaunchInstance, wait for the socket, error paths |
| **Path ownership, daemon registry** (`launch.go`) | files | readDaemonPID, cleanupOwnedInstancePaths |
| **Session operations** (`session.go`) | remembered session | CreateSession, AttachSession, ForkSession, Send |
| **Framing, protocol frames, transports** (`protocol/`, `transport/`) | buffered reader; open/closed | Encoder.Write, Decoder.ReadFrame, DecodeServerFrame, Safe.Close |
| **Connect, credentials, Windows processes, observations, examples** | — | path selection, file copies, `taskkill`, diagnostics |

### How they interact

One goroutine per connection (`readLoop`) takes frames off the transport. A
correlated reply is removed from `pending`, its observer is called and it is put
on the caller's channel; any other frame is fanned out to every subscription
under `subsMu`. A turn owns one subscription: its dispatcher takes events from
it, classifies them and publishes typed events on its own channel; a second
goroutine watches the lifecycle context; `Cancel` starts a third, which makes an
ordinary request whose reply observer runs inside `readLoop`. A read error, a
failed write, Close and the exit of the bridge all reach turns through their
subscriptions. A client may own a private instance: Close shuts it down,
DetachInstance gives it away, and the monitor reports an exit nobody asked for.

### What is hard

* Seven causes race for a turn's single outcome, and two channels with limits lie
  between the wire and the caller.
* `Cancel`'s acknowledgement and `turn_done` are handled by different goroutines,
  and their order on the wire must survive.
* `disconnect` and `Close` read and write the state in several separate critical
  sections; `Reconnect` replaces the transport while old readers may still run.
* A reply channel can be used by the reader, by `disconnect` and by `Close`.
* One reader feeds every subscription; each has a bounded channel, is closed from
  four sides and hands out events and its error through one `select`.
* The connection may end after any byte; what arrived is still read.
* A launch may fail at every step, with a bridge that runs, has gone or is just
  going, and must take back what it has made.
* Shutdown is shared by its callers, can be hurried by any of their contexts,
  and signals a process group by a number that is only valid until the leader is
  reaped.

### What makes each component correct

* **Turn**: one outcome and one acceptance answer, never revised and consistent
  with each other; the outcome names its real cause; events in server order,
  without gaps, `turn_done` last; the turn always ends when its connection or its
  context does.
* **Client**: no panic on a reply channel, no request left behind, every
  subscription closed by Close, turns closed with their connection and raw
  subscriptions not, no transport left open.
* **Streams and framing**: what a subscription delivers is what the server sent
  since it was made, without a gap, up to its end; a slow one costs nobody else an
  event; a consumer is told why its stream ended; a Send does not miss its
  acceptance.
* **Launch**: it returns; a failed one leaves nothing behind, and its code tells
  how far it came.
* **Shutdown**: one owner, one run of the phases, one result for all callers; a
  result without error means the runtime is gone; no signal after the leader's
  exit was reported; every call returns.

The complete list of what a test would hardly reach, with the property aimed at
each item, is `hazards` in `PROJECT.json`.

## 2. Modules

| Module | What it is |
|---|---|
| `TurnEvents` | frames, their classes, what `dispatch` does with each, how an error becomes a result kind (pure operators) |
| `Turn` | one owned turn on one connection, with its properties |
| `TurnContract` | what a turn promises, without goroutines, channels or connections |
| `Client` | connection, requests, subscriptions, Reconnect and Close, with its properties |
| `Shutdown` | ownership and shutdown of a private instance, with its properties |
| `Launch` | LaunchInstance and Launch; extends `Shutdown`, whose actions go on with what was started |
| `Framing` | what `ReadFrame` makes of the bytes that arrive (pure operators) |
| `Streams` | bytes, reader, fan-out, subscriptions, `Session.Send`, on top of `Framing` |
| `TurnInductive`, `ClientInductive`, `ShutdownInductive`, `LaunchInductive`, `StreamsInductive` | the inductive invariant of each component, in named parts |
| `TurnProofs`, `ClientProofs`, `ShutdownProofs`, `LaunchProofs`, `StreamsProofs` | the theorems and proofs |
| `FramingProofs` | lemmas about `Framing` that `StreamsProofs` uses |
| `MCTurn`, `MCClient`, `MCShutdown`, `MCLaunch`, `MCStreams` | values of the constants for TLC; each extends the module of the inductive invariant |

Operators whose comment begins with "Mutation" (or "A mutation of") are not part
of the model. Each is a plausible bug in the definition that follows it;
`mutants` in `PROJECT.json` says which property notices it.

### Turn

The goroutines `starter`, `reader`, `dispatcher`, `watcher`, `canceler` and
`closer` (Close, in two steps) each have a program counter; the consumer of
events and the bridge monitor are single actions. A step is one critical section of `t.mu` or of the client's
locks; code that only one goroutine can observe is merged into the next shared
step. The two channels are kept as histories: `feed` is everything put into the
subscription and `seen` how much of it `dispatch` took, `stream` and `taken` do
the same for `Turn.events`. So the contents of a channel are the tail of its
history, and order and loss can be stated about the whole run. `okAt` is the only
variable without a counterpart in the code: the length of `feed` when the
reader read the cancel's `ok`.

`Subscription.Next` is a Go `select`: when a failed subscription still has
buffered events, `DispatchNext` and `DispatchError` are both enabled. `Accepted`
and `Wait` only read what the state holds and have no action; a caller's own
context ends only that caller's wait.

`disconnect` is four steps, as in the code: it reads the state for StateClosed,
then for the other two, sets StateDisconnected and drains the requests, and fails
the subscriptions. Close may run between any of them and its StateClosed be
undone within the turn's life; `CloseBegun` stands for what is not undone, the
closed channel and the instance taken away. Reconnect is not part of a turn's life
(an ended turn is never revived) and is in `Client` alone.

### Client

`opener` is NewClient and later the callers of Reconnect, whom `reconnectMu`
makes come one after the other; `closer` is `closeWith`; there is one process per request, per turn and per connection. A
connection's reader has the connection's name and lives on when Reconnect
replaces the connection. `mu` is `reconnectMu`. The three reads of the state in
`disconnect` are three steps. A reply channel is `none`, `waiting`, `sent` or
`closed`; a send on a closed channel or a second close makes it `panic`. What the
server does is unconstrained: it answers a written request or not, and may break
the connection at any time. A reply to a request no longer pending is dropped, as
in the code.

### Shutdown

`client` is `closeWith`, `Users` call DetachInstance and then Shutdown or
ShutdownInstance. Either Launch has attached the instance to a client or
LaunchInstance has given it to a user; both are initial states. The bridge is
running, a zombie or reaped, its descendants in the group are alive or not, and
the goroutine of `waitForCommandExit` reaps, sends on `waitDone` and closes
`bridgeDone` in three steps. Every phase of the owner is an action and every
system call may fail if `MayFail` says so. The grace period ends by `waitDone`,
the timer or the force-kill channel; since a timer may fire at any time, the
last two lead to the same next step. `StaleDisconnect` is the one thing of
`Client` that matters here: a `disconnect` that undoes StateClosing. Path cleanup
is one step that removes everything or fails; its retry loop against files that
are created again meanwhile is not modelled.

### Launch

`Launch` has its own program counter, `lpc`, and the options that matter as
constants: which function is called, which kind of home it gets, which calls may
fail. The bridge is `absent` until `StartProcess`. From then on the process
group is the one of `Shutdown`: the same actions let it exit, reap it and send
on `waitDone`, and the startup timeout runs the same `TerminateProcessGroup` as a
shutdown. A failed dial or handshake runs a whole `Shutdown`; since there is no
client yet, the goroutine of Launch takes the place of `client` in it. After
`SetInstance`, or when LaunchInstance has handed the instance over, everything
`Shutdown` says applies, so its properties are checked here from the first step
of the program and not from an assumed initial state. What accepts on the socket
is the bridge or a descendant, or, if a stale socket could not be removed from a
home of the caller's, the server of an earlier run.

### Framing and Streams

A byte has a class, as far as the framing tells bytes apart, and the number of
the frame it belongs to. `ReadFrame` and `ReadStatus` follow the code's order:
read a line, compare with `MaxSize + 1`, look at the error of the read, trim,
compare with `MaxSize`, parse. A frame is an object when it begins and ends like
one, so that every proper prefix of it is refused. When a connection ends, any
prefix of the bytes on their way arrives (`Arriving`).

In `Streams` the server sends one of `Scripts` and may answer each message it was
sent. An event is the index of its frame. `log` is what was fanned out, `got`
what a consumer took, `from` the length of `log` when a subscription was made:
order and loss are statements about these. The error channel and the event
channel are separate, and `NextEvent` and `NextError` are both enabled when both
are ready, as in the `select` of `Subscription.Next`. A channel that is closed
and still holds events gives them first; a reader that finds it closed asks
`subscriptionError`. `Session.Send` is five steps: subscribe, notify, write, the
loop on Next, the deferred Close. `disconnect` is two steps here, before and
after the transport is closed; the finer ones are in `Client`. `CloseSignal`
merges `close(c.closed)`, the transport's Close and the end of the subscriptions:
in the code a Send may still wait, for a moment, when `c.closed` is closed
already, which `SendNotStranded` does not admit.

## 3. Runs

### Turn

| Run | Shows |
|---|---|
| `Turn_channels` | one frame for every way `dispatch` treats an event, both channels filling up, Cancel racing `turn_done`, a deadline: `StreamIsOrdered`, `DoneEndsStream`, `ReservedSlot`, `CancelBeforeDone`, `AcceptanceMatchesOutcome` |
| `Turn_endings` | every kind of ending racing: `CancelNilMeansSettled`, `OutcomeHasCause`, `OutcomeIsFinal`, the refinement `ContractHolds` and the inductive invariant `IndInv`, of which `TypeOK` is a part |
| `Turn_live` | `ConnectionLossEndsTurn`, `LifecycleEndsTurn`, `CancelIsBounded` |

Bounds. `EventBuffer = 1` gives channels of 3 and 2 events, so that both overflow
within `MaxFeed = 3` delivered events, which is also enough for each branch of
`dispatch` to meet a turn that is live, accepted or over; where endings race,
acceptance and `turn_done` are enough (`MaxFeed` 2, and 1 for liveness). A prompt
over the encoder's limit (`too_large_send`) and the lifecycle's deadline are in
`Turn_channels`, the other endings in `Turn_endings`.
`Outside` names what may happen from outside, so that a run spends its states on
its question. The framing errors `invalid` and `too_large` are treated like
`malformed` everywhere and occur only in the proofs; `bad_payload` has a run of
its own. The proofs have none of
these bounds but `MaxFeed`, which is an arbitrary natural number there.

### Client

| Run | Shows |
|---|---|
| `Client_connection` | a request, a turn and a raw subscription on one connection: `NoOrphanRequest`, `RequestsReleased`, `CloseIsComplete`, `RawSubscriptionsSurvive`, and under fairness `CloseReleasesAll`, `LossFailsTurns` |
| `Client_reconnect` | a request and a turn across two connections, two attempts and Resume: `NoPanic`, `TurnBoundToConnection`, `NoLeakedConnection` and the inductive invariant `ConnectionInv`, of which `TypeOK` is a part |

Bounds. A request and a turn are two independent writers: the failing write of one
starts a disconnect that must release the other. Turns meet only in the registry,
so one suffices. Two connections are what a stale reader needs, and two attempts
over them include a failed first one. `ReconnectFrom` is `{"disconnected"}`, the
documented use, by one caller at a time; called on a connected client Reconnect
replaces the transport without closing it, and `NoLeakedConnection` fails. Of
several callers, one that waited for `reconnectMu` looks only for StateClosed, so
it acts like a call in whatever state the one before it left, connected included:
it replaces the fresh connection in the same way. A larger `ReconnectFrom` is
that case, and the theorems of section 4 without a hypothesis about it hold there. `RequestsReleased` is stated
without Reconnect: with it, a request written while a handshake is under way that
then fails is released only by its timeout.

### Shutdown

| Run | Shows |
|---|---|
| `Shutdown_shared` | two users, Close and the monitor: `OwnershipExclusive`, `SharedResult`, `OwnExitNotReported`, the inductive invariant `ShutdownInv`, and under fairness `ShutdownReturns`, for the owner of the phases and for the caller that waits for it |

Bounds. Two users and Close compete for the instance. It is granted to one side:
either Close shuts it down alone, or the two users do together, as owner of the
phases and as waiter or late caller; a third user would only be a second waiter.
Every context is live and may end at any time, also before the call. No system
call fails here, and only the reap may time out, which together with the contexts
makes different results possible; every other failure is in the run of `Launch`.

### Launch

| Run | Shows |
|---|---|
| `Launch_lifecycle` | both functions, a temporary home and the user's own, every call of the startup and of the shutdown failing, the bridge exiting or ignoring signals at any time: the inductive invariant `LaunchInv`, `FailedLaunchLeavesNothing`, `CodeTellsPhase`, `NilMeansClean`, `NoSignalAfterReport`, and under fairness `LaunchReturns`, `BridgeExitReported` |

Bounds. One user: the callers of one shutdown are the question of the run above.
A home of the caller's differs from the user's own only in the refusal of
`InheritCredentials`, so two kinds suffice. `SupportedBridge` is the documented
duty of a bridge whose leader outlives its descendants; without it neither a
clean result nor a failed launch can promise an empty group, and the properties
say so.

### Streams

| Run | Shows |
|---|---|
| `Streams_fanout` | a consumer (raw or a turn) and a Send on one connection, frames at and above the limit, with both line endings, undecodable ones and replies, the connection cut at any byte, Close at any time: the inductive invariant `StreamsInv`, `StreamsContiguous`, `WireFaithful`, `NextTellsCause`, `SendNotStranded` |

Bounds. `EventBuffer = 1` lets the second event overflow a raw subscription; a
turn's, with room for three, overflows in the runs of `Turn`. `MaxSize = 4` with
frames of 2 to 5 bytes puts the limit between the frames, and the scripts hold one
frame of each kind the reader treats differently, alone or after one that is
delivered. Subscriptions meet only in the fan-out, so two of them, one of a Send,
are enough for one to fail while the other goes on. The run is for safety only: it
has 2.5 million states, and what must eventually happen to a subscription is
checked in `Client_connection`.

Deadlock checking is off in all runs: a turn, a closed client and a finished
shutdown are meant to stop.

### Fairness

Liveness is checked in `Turn_live`, `Client_connection`, `Shutdown_shared`,
`Launch_lifecycle` and `Client_reconnect_blocks`. Assumed: a goroutine that can run does run (weak
fairness per goroutine); a contended `sync.Mutex` is eventually acquired, since
Go's mutex prevents starvation (strong fairness on `reconnectMu`); timers fire
(request timeout, grace period, reap timeout); a dead transport fails the reads
and writes on it. Not assumed: that the server answers, that a write on an open
transport completes (it has no deadline), that a caller consumes events or calls
anything, that the bridge opens its socket or obeys a signal other than SIGKILL.
For a launch, a dial and a handshake end (the socket answers or the request times
out) and the kernel reports the exit of a child.

### Disagreements between the code and its documentation

Each is a run that TLC is expected to refute; `findings` quotes the sentence.

| Run | What happens |
|---|---|
| `Turn_bad_payload` | a `hello_ok` or `error` frame with a bad payload ends the turn as `transport_disconnected`: the decode error wraps no sentinel |
| `Client_state_machine` | the connection is lost right after the hello reply and NewClient sets `connected` over it; or `disconnect` read the state before Close and sets `disconnected` after it |
| `Client_reconnect_blocks` | the write of the handshake fails; `disconnect` waits for the `reconnectMu` that Reconnect holds (`ReconnectReturns` exempts a write that hangs on an open connection) |
| `Client_stale_reader` | the reader of the lost connection gets the lock after Reconnect and closes the fresh transport |

The passing runs hold in spite of these: `OwnershipExclusive` includes a state
that went back from closing, `NoLeakedConnection` includes the stale reader.

Four lesser ones are visible in the models and have no run. `Cancel` tests
`terminal` once, so a result that wins before the request is written does not
stop the write (`docs/architecture.md:244`). `message_accepted` may be dispatched
before `markWriteComplete`, so that the state goes from `starting` straight to
`accepted` (`docs/architecture.md:134`); that the late `markWriteComplete` takes
nothing back is part of `OutcomeIsFinal`. The leader may be reaped between the look
at `waitDone` and the signal that follows it (`process_unix.go:80-88`);
`NoSignalAfterReport` is what the code does guarantee.

A launch with the user's own jcode home removes the sockets in its `run`
directory before `InheritCredentials` refuses the home (`launch.go:425`); the
comment at `launch.go:5` says the launcher never mutates the shared runtime. The
order is in `Launch`; no run is stated about it, since the caller chose the home.

## 4. Proofs

Every invariant and every action property that a passing run checks is also a
theorem, for every value of the constants. Each follows from the inductive
invariant of its component, which is proved with one lemma per action (or per
action and part); TLC checks the same invariant in a run.

What is assumed of the constants is stated in the module that declares them. Sets
of goroutines are disjoint and, where a name is built in, do not hold it
(`ProcsAssumption` in `Client` and `Streams`, `ConnOrderAssumption`,
`UsersAssumption`); limits are numbers, positive where `withDefaults` makes them
so (`EventBufferAssumption`, `MaxAttemptsAssumption`, `MaxSizeAssumption`,
`MaxFeedAssumption`); the other assumptions only say which values there are
(`FramesAssumption`, `OutsideAssumption`, `ScriptsAssumption`,
`ReconnectFromAssumption`, `ContextAssumption`, `MayFailAssumption`,
`ApisAssumption`, `HomeKindsAssumption`, `StartFaultsAssumption`,
`ResumeAssumption`, `SupportedAssumption`). None of the sets needs to be finite.

### Turn (`TurnProofs`)

| Theorem | Statement |
|---|---|
| `IndInvInvariant` | `Spec => []IndInv` |
| `TypeCorrect` | `Spec => []TypeOK` |
| `AcceptanceCorrect` | acceptance and outcome agree |
| `CancelOrder` | an `ok` read before `turn_done` means the turn is not reported completed |
| `CancelSettled` | a nil from Cancel means a recorded acknowledgement or an ended turn |
| `OutcomeCause` | every outcome names its cause |
| `ServerOrder` | what `Turn.Next` returns is in server order and without gaps |
| `SlotReserved` | `turn_done` never overflows |
| `StreamEnd` | `turn_done` is the last event, exactly in completed and canceled turns |
| `ContractImplemented` | `Turn` implements `TurnContract` |
| `FinalOutcome` | outcome, acceptance and stream never change once settled, and the turn's state is never taken back |

None of the properties is inductive by itself. `CommitInv` says that a result and
the terminal state come together and that the dispatcher stops only with one,
`HandInv` what the dispatcher has in its hand, `DisconnectInv` that a single
`disconnect` is between its check and its subscribers, `CauseInv` that every error
in flight has a cause already, `OutcomeInv` that the cause outlives the commit.
`AckInv` carries the order of the two frames: until the turn ends, an `ok` the
reader has read is recorded or about to be recorded with no event delivered since,
because the observer runs in the reader. `StreamInv` keeps a slot free while the
turn is live. `IndInv` is their conjunction with `TypeOK` and
`AcceptanceMatchesOutcome`; the refinement follows step by step from it.

`StreamIsOrdered` says that there is an increasing map from the positions of
`stream` to those of `feed` that leaves out no visible event `dispatch` is done
with (once the turn is over, none before the last it published). Only the
dispatcher publishes, at the event it has in its hand, so the lemmas about the
other goroutines keep the map and `OrderGrows` extends it by one. `SettledInv`
adds to `CancelNilMeansSettled` that an `ok` handed over and not read yet by
`runCancel` is already recorded.

### Client (`ClientProofs`)

| Theorem | Statement |
|---|---|
| `ConnectionInvInvariant` | `Spec => []ConnectionInv` |
| `ClientTypes` | `Spec => []TypeOK` |
| `ReplyChannelsSafe` | no reply channel is closed twice, or used after it was closed or used |
| `PendingIsCleaned` | a request that returned has no entry in `pending` |
| `CloseFailsAll` | no subscription is open after Close |
| `RawStreamsSurvive` | a lost connection fails no raw subscription |
| `LossReleasesRequests` | without Reconnect, a lost connection leaves no request waiting |
| `NothingLeaks` | with Reconnect of a lost connection only, no transport is open at the end |
| `NoTurnIsRevived` | with Reconnect of a lost connection only, no turn outlives the connection it was written on |

`ClientInv` holds however Reconnect is used. Its centre is `RequestInv`: an entry
that a reader has taken out of `pending` is in no other hands and its channel is
unused, so of the reader, `disconnect` and Close only the one that removed an
entry ever touches the channel. `FreshInv` says that a request is registered with
a new channel, `AwaitInv` where the entry of a waiting request is, `CloseInv` what
Close has done by each of its steps. `MutexInv` is the mutual exclusion of
`reconnectMu`, including the Reconnect that waits in `disconnect` for the mutex
it holds itself.

The last three theorems have a hypothesis about `ReconnectFrom`, the states in
which Reconnect is called. For `NothingLeaks` and `NoTurnIsRevived` it is the
documented use, a client that is disconnected (or none): otherwise a transport is
replaced without being closed (section 3). `ConnInv` holds because `disconnect`
closes the transport, and `TurnInv` because it fails the turns, before it gives
the mutex back to the Reconnect that waits for it. `LossReleasesRequests` needs
that there is no Reconnect at all, for the reason given in section 3; `LossInv` is
its invariant.

### Shutdown (`ShutdownProofs`)

| Theorem | Statement |
|---|---|
| `ShutdownInvInvariant` | `Spec => []ShutdownInv` |
| `OneOwner` | Close and DetachInstance give the instance to one of them |
| `OneResult` | all callers return the one result |
| `CleanResult` | a result without error means that the runtime is gone |
| `OwnExitQuiet` | the monitor fails no turn for an exit the SDK caused |
| `NoLateSignal` | no signal goes to a group whose leader is known to be reaped |

`OwnInv` is the single owner, `GroupInv` the order in which an exit becomes known
(reaped, sent on `waitDone`, taken) and that the phases which signal the group
are over once it is taken. `PhaseInv` says for each phase what those behind it
have achieved unless they left an error; `CleanResult` is its last line.
`ShareInv` ties the result to the goroutine that runs the phases. The first three
make up `RunInv`, which also holds during a launch.

### Launch (`LaunchProofs`)

| Theorem | Statement |
|---|---|
| `LaunchInvInvariant` | `LaunchSpec => []LaunchInv` |
| `LaunchTypes` | `LaunchSpec => []LaunchTypeOK` |
| `FailureLeavesNothing` | a failed launch leaves nothing behind unless its clean-up failed |
| `CodeIsTelling` | the code of the error tells the phase |
| `LaunchedCleanResult`, `LaunchNoLateSignal` | the two results above, from the first step of the program |

`UnownedInv` says that before the instance is handed out nobody but Launch does
anything, `StageInv` what its program counter and code say about the bridge; from
the handing out on, the lemmas of `ShutdownProofs` about each action are reused
as they are.

### Streams (`StreamsProofs`, `FramingProofs`)

| Theorem | Statement |
|---|---|
| `StreamsInvInvariant` | `Spec => []StreamsInv` |
| `StreamTypes` | `Spec => []TypeOK`: no channel holds more than its capacity |
| `NoGaps` | what a subscription delivers has no gap |
| `WireIsFaithful` | what the reader hands on is what the server sent |
| `CauseIsTold` | Next names what closed the subscription |
| `SendIsNotStranded` | a Send whose acceptance arrived gets it |

`WireInv` places each frame that is not handled yet on the wire, one after the
other (`FrameAt`), so that the next line is the next frame however the bytes are
cut; `FramingProofs` says what `ReadBytes` returns when the first LF is at a
given place or there is none. `RegistryInv` is the life of a subscription,
`SendInv` that an acceptance lies behind the place where its Send subscribed,
`ControlInv` that a reader which met a fatal error has left no registered Send
behind it.

### Model-checked only

The liveness properties (`ConnectionLossEndsTurn`, `LifecycleEndsTurn`,
`CancelIsBounded`, `CloseReleasesAll`, `LossFailsTurns`, `ShutdownReturns`,
`LaunchReturns`, `BridgeExitReported`): fairness and ENABLED are outside the
prover's reach. And the four refuted runs of section 3, which are
counterexamples and need no proof.

## 5. Not modelled

* JSON, field contents, error texts and observations: no property is about them.
* Paths, permissions, the credential files and environment strings, connection to
  a shared daemon: file-system and string work done by one goroutine; `Launch`
  has the outcomes.
* `CreateSession`, `AttachSession`, `ForkSession`: one request each, whose life is
  in `Client`, and the decoding of its reply.
* `Encoder.Write` beyond success and failure: it writes one line or nothing, and a
  transport that fails in the middle of it is closed by the `disconnect` that
  follows.
* A daemon the bridge starts outside its process group, before the registry is
  read: the startup-timeout path does not know it.
* That an event belongs to the session of its subscriber: `subscribeOwned` ignores
  the session, so nothing can be stated of it.
* Windows process handling: calls `taskkill`; the architecture document excludes
  supervision there.
* A write blocked for ever on an open transport: it happens in the models (nothing
  forces a write to complete) but no property is stated of it.

## 6. Plan

Order of work, most important first:

1. **Done**: the models `TurnEvents`, `Turn`, `TurnContract`, `Client`,
   `Shutdown`, `Launch`, `Framing`, `Streams` and their runs.
2. **Done**: the proofs of every safety property the passing runs check.
3. Abstract specifications, each with its refinement proved from the inductive
   invariant that is there already: a request table in which each request is
   answered, released or timed out once, implemented by `Client`; a one-shot
   shutdown with a single result, implemented by `Shutdown`.
4. More lemmas about `Framing`: `ReadBytes` and `Rest` divide what arrived, and a
   frame of at most `MaxSize` bytes ended by LF is read back as it was written.
