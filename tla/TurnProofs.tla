----------------------------- MODULE TurnProofs -----------------------------
(***************************************************************************)
(* Theorems about Turn, for every EventBuffer, every set of frames and     *)
(* outside events and every bound on the feed.  All of them follow from    *)
(* one inductive invariant, IndInv of TurnInductive: the first part of the *)
(* module proves that each action keeps it, the second draws the           *)
(* conclusions and shows that Turn implements TurnContract.                *)
(***************************************************************************)
EXTENDS TurnInductive, TLAPS

USE DEF None, NoAck, turnVars, subVars, cancelVars, clientVars, Goroutines, Goto, CloseBegun

(* What an error at the end of a subscription can and cannot become. *)
LEMMA ErrorResult ==
  ASSUME NEW err
  PROVE  LET kind == turnResultFromSubscriptionError(err)
         IN  /\ kind \in {"bridge_exited", "client_closed", "subscriber_overflow",
                          "protocol_error", "transport_disconnected"}
             /\ kind = "bridge_exited" => err = "bridge_exited"
             /\ kind = "client_closed" => err = "closed"
             /\ kind = "subscriber_overflow" => err = "overflow"
             /\ kind = "protocol_error" <=> err \in Sentinels
             /\ kind = "transport_disconnected" =>
                  err \notin Sentinels \cup {"bridge_exited", "closed", "overflow"}
BY DEF turnResultFromSubscriptionError, Sentinels

(* Each disposition of a frame is that of its kind. *)
LEMMA DispositionKind ==
  ASSUME NEW frame \in Frames
  PROVE  /\ Disposition(frame) = "turn_done" => frame.kind = "turn_done"
         /\ Disposition(frame) = "publish" => frame.kind # "turn_done"
         /\ Disposition(frame) = "accept" => frame.kind = "message_accepted"
BY DEF Disposition, SemanticClassOf, ContentKinds, AdvisoryKinds

(* A commit answers the acceptance question, in agreement with its kind. *)
LEMMA CommitAnswers ==
  ASSUME IndInv, result = None, NEW kind \in ResultKinds, Commit(kind), UNCHANGED <<feed, seen>>
  PROVE  AcceptanceMatchesOutcome'
<1>1. acceptance \in {"unset", "ok"}
  BY DEF IndInv, TypeOK, AcceptanceMatchesOutcome, Acceptances, ResultKinds
<1>2. acceptance = "ok" => \E i \in 1..seen : feed[i].kind = "message_accepted"
  BY DEF IndInv, AcceptanceMatchesOutcome
<1> QED BY <1>1, <1>2 DEF Commit, AcceptanceMatchesOutcome, ResultKinds

-----------------------------------------------------------------------------
(* The reader *)

(* A delivered event extends the feed and disturbs no event in hand. *)
LEMMA ReadEventKeeps ==
  ASSUME IndInv, NEW frame \in Frames, ReadEvent(frame)
  PROVE  IndInv'
<1>1. /\ feed' \in Seq(Frames) /\ Len(feed) <= Len(feed') /\ Len(feed') <= MaxFeed
      /\ \A i \in 1..Len(feed) : feed'[i] = feed[i]
  <2>1. CASE Len(feed) - seen < SubscriptionCap
    <3>1. feed' = Append(feed, frame) BY <2>1 DEF ReadEvent
    <3> QED BY <3>1, MaxFeedAssumption DEF IndInv, TypeOK, ReadEvent
  <2>2. CASE ~(Len(feed) - seen < SubscriptionCap)
    BY <2>2 DEF IndInv, TypeOK, ReadEvent
  <2> QED BY <2>1, <2>2
<1>2. /\ seen > 0 => InHand' = InHand
      /\ \A i \in 1..seen : feed'[i] = feed[i]
  BY <1>1 DEF IndInv, TypeOK, ReadEvent, InHand
<1>3. TypeOK'
  BY <1>1 DEF IndInv, TypeOK, ReadEvent, Errors
<1>4. CommitInv' /\ HandInv'
  BY <1>1, <1>2 DEF IndInv, TypeOK, ReadEvent, CommitInv, DispatchOver, HandInv
<1>5. AcceptanceMatchesOutcome'
  <2>1. UNCHANGED <<result, acceptance, seen>> BY DEF ReadEvent
  <2>2. (\E i \in 1..seen : feed[i].kind = "message_accepted")
          => \E i \in 1..seen : feed'[i].kind = "message_accepted"
    BY <1>2
  <2> QED BY <2>1, <2>2 DEF IndInv, AcceptanceMatchesOutcome
<1>6. DisconnectInv' /\ CauseInv'
  BY DEF IndInv, ReadEvent, DisconnectInv, CauseInv
<1>7. OutcomeInv'
  BY <1>2 DEF IndInv, TypeOK, ReadEvent, OutcomeInv, OutcomeHasCause, DispatchOver, Sentinels
<1>8. AckInv'
  BY <1>1, MaxFeedAssumption DEF IndInv, TypeOK, ReadEvent, AckInv, CancelBeforeDone
<1>9. StreamInv'
  <2>1. UNCHANGED <<result, stream, taken, seen>> BY DEF ReadEvent, turnVars
  <2>2. ReservedSlot' BY <1>2, <2>1 DEF IndInv, TypeOK, StreamInv, ReservedSlot
  <2> QED BY <2>1, <2>2 DEF IndInv, StreamInv, DoneEndsStream
<1> QED BY <1>3, <1>4, <1>5, <1>6, <1>7, <1>8, <1>9 DEF IndInv

(* okAt becomes Len(feed) with the reader on its way to record it. *)
LEMMA ReadReplyKeeps ==
  ASSUME IndInv, NEW r \in {"ok", "error", "other"}, ReadReply(r)
  PROVE  IndInv'
<1>1. TypeOK'
  BY DEF IndInv, TypeOK, ReadReply
<1>2. CommitInv' /\ AcceptanceMatchesOutcome' /\ HandInv'
  BY DEF IndInv, TypeOK, ReadReply, CommitInv, DispatchOver, AcceptanceMatchesOutcome,
         HandInv, InHand
<1>3. DisconnectInv' /\ CauseInv'
  BY DEF IndInv, TypeOK, ReadReply, DisconnectInv, CauseInv
<1>4. OutcomeInv'
  BY DEF IndInv, TypeOK, ReadReply, OutcomeInv, OutcomeHasCause, DispatchOver, InHand
<1>5. AckInv'
  BY MaxFeedAssumption DEF IndInv, TypeOK, ReadReply, AckInv, CancelBeforeDone
<1>6. StreamInv'
  BY DEF IndInv, TypeOK, ReadReply, StreamInv, DoneEndsStream, ReservedSlot, InHand
<1> QED BY <1>1, <1>2, <1>3, <1>4, <1>5, <1>6 DEF IndInv

(* An ok is recorded unless the turn has ended, in which case nothing asks. *)
LEMMA ObserveReplyKeeps ==
  ASSUME IndInv, ObserveReply
  PROVE  IndInv'
<1>1. TypeOK'
  <2>1. cancelRequested' \in BOOLEAN
    <3>1. CASE replyFrame = "ok" /\ result = None BY <3>1 DEF ObserveReply
    <3>2. CASE ~(replyFrame = "ok" /\ result = None)
      BY <3>2 DEF IndInv, TypeOK, ObserveReply
    <3> QED BY <3>1, <3>2
  <2> QED BY <2>1 DEF IndInv, TypeOK, ObserveReply
<1>2. CommitInv'
  BY DEF IndInv, TypeOK, ObserveReply, CommitInv, DispatchOver
<1>3. AcceptanceMatchesOutcome' /\ HandInv'
  BY DEF IndInv, TypeOK, ObserveReply, AcceptanceMatchesOutcome, HandInv, InHand
<1>4. DisconnectInv' /\ CauseInv'
  BY DEF IndInv, TypeOK, ObserveReply, DisconnectInv, CauseInv
<1>5. OutcomeInv'
  BY DEF IndInv, TypeOK, ObserveReply, OutcomeInv, OutcomeHasCause, DispatchOver, InHand
<1>6. AckInv'
  BY MaxFeedAssumption DEF IndInv, TypeOK, ObserveReply, AckInv, CancelBeforeDone
<1>7. StreamInv'
  BY DEF IndInv, TypeOK, ObserveReply, StreamInv, DoneEndsStream, ReservedSlot, InHand
<1> QED BY <1>1, <1>2, <1>3, <1>4, <1>5, <1>6, <1>7 DEF IndInv

-----------------------------------------------------------------------------
(* The dispatcher *)

LEMMA DispatchErrorKeeps ==
  ASSUME IndInv, DispatchError
  PROVE  IndInv'
<1> DEFINE kind == turnResultFromSubscriptionError(subscriptionError)
<1> HIDE DEF kind
<1>1. /\ kind \in {"bridge_exited", "client_closed", "subscriber_overflow",
                   "protocol_error", "transport_disconnected"}
      /\ result = None =>
           /\ kind = "bridge_exited" => bridge = "exited"
           /\ kind = "client_closed" => CloseBegun
           /\ kind = "protocol_error" => sub \in Sentinels
           /\ kind = "transport_disconnected" => client # "connected"
  <2>1. result = None => subscriptionError = sub
    BY DEF IndInv, CommitInv, subscriptionError
  <2>2. sub \in Errors \cup {"unsubscribed"} BY DEF DispatchError, IndInv, TypeOK
  <2> QED BY <2>1, <2>2, ErrorResult
          DEF kind, IndInv, CommitInv, CauseInv, Errors, FatalErrors, Sentinels
<1>2. /\ pc["dispatcher"] = "next" /\ sub # "open"
      /\ FinishTerminal("dispatcher", kind)
      /\ UNCHANGED <<taken, subVars, ctx, cancelVars, sendErr, clientVars>>
  BY DEF DispatchError, kind
<1>3. TypeOK'
  BY <1>1, <1>2 DEF IndInv, TypeOK, FinishTerminal, Commit, Acceptances, ResultKinds
<1>4. CommitInv' /\ AcceptanceMatchesOutcome'
  <2>1. CASE result = None
    BY <1>1, <1>2, <2>1, CommitAnswers
       DEF IndInv, TypeOK, FinishTerminal, Commit, CommitInv, DispatchOver, ResultKinds
  <2>2. CASE result # None
    BY <1>2, <2>2 DEF IndInv, TypeOK, FinishTerminal, CommitInv, DispatchOver,
                      AcceptanceMatchesOutcome
  <2> QED BY <2>1, <2>2
<1>5. HandInv'
  BY <1>2 DEF IndInv, TypeOK, FinishTerminal, Commit, HandInv, InHand
<1>6. DisconnectInv' /\ CauseInv'
  BY <1>2 DEF IndInv, TypeOK, FinishTerminal, Commit, DisconnectInv, CauseInv
<1>7. OutcomeInv'
  BY <1>1, <1>2 DEF IndInv, TypeOK, FinishTerminal, Commit, OutcomeInv, OutcomeHasCause,
                    DispatchOver, InHand
<1>8. AckInv'
  BY <1>1, <1>2 DEF IndInv, TypeOK, FinishTerminal, Commit, AckInv, CancelBeforeDone
<1>9. StreamInv'
  BY <1>1, <1>2 DEF IndInv, TypeOK, FinishTerminal, Commit, HandInv, StreamInv, DoneEndsStream,
                    ReservedSlot, InHand
<1> QED BY <1>3, <1>4, <1>5, <1>6, <1>7, <1>8, <1>9 DEF IndInv

LEMMA DispatchAcceptKeeps ==
  ASSUME IndInv, DispatchAccept
  PROVE  IndInv'
<1>1. seen \in 1..Len(feed) /\ feed[seen] \in Frames /\ feed[seen].kind = "message_accepted"
  BY DispositionKind DEF IndInv, TypeOK, HandInv, DispatchAccept, InHand
<1>2. TypeOK' /\ CommitInv'
  BY DEF IndInv, TypeOK, DispatchAccept, CommitInv, DispatchOver, Acceptances
<1>3. AcceptanceMatchesOutcome'
  <2>1. (\E i \in 1..seen : feed[i].kind = "message_accepted")'
    BY <1>1 DEF DispatchAccept
  <2> QED BY <2>1 DEF IndInv, DispatchAccept, AcceptanceMatchesOutcome
<1>4. HandInv'
  BY <1>1 DEF IndInv, TypeOK, DispatchAccept, HandInv, InHand
<1>5. DisconnectInv' /\ CauseInv'
  BY DEF IndInv, TypeOK, DispatchAccept, DisconnectInv, CauseInv
<1>6. OutcomeInv' /\ AckInv'
  BY DEF IndInv, TypeOK, DispatchAccept, OutcomeInv, OutcomeHasCause, DispatchOver, InHand,
         AckInv, CancelBeforeDone
<1>7. StreamInv'
  BY DEF IndInv, TypeOK, DispatchAccept, StreamInv, DoneEndsStream, ReservedSlot, InHand
<1> QED BY <1>2, <1>3, <1>4, <1>5, <1>6, <1>7 DEF IndInv

(* A published event is content and leaves room for turn_done. *)
LEMMA PublishKeeps ==
  ASSUME IndInv, Publish
  PROVE  IndInv'
<1>1. seen \in 1..Len(feed) /\ feed[seen] \in Frames /\ feed[seen].kind # "turn_done"
  BY DispositionKind DEF IndInv, TypeOK, HandInv, Publish, InHand
<1>2. CASE result = None /\ Len(stream) - taken < PublishLimit
  <2>1. /\ stream' = Append(stream, feed[seen])
        /\ pc' = [pc EXCEPT !["dispatcher"] = "next"]
        /\ UNCHANGED <<state, acceptance, result, eventsClosed, taken, feed, seen, sub, ctx,
                       cancelVars, sendErr, clientVars>>
    BY <1>2 DEF Publish
  <2>2. /\ stream' \in Seq(Frames) /\ Len(stream') = Len(stream) + 1
        /\ \A i \in 1..Len(stream) : stream'[i] = stream[i]
        /\ stream'[Len(stream) + 1] = feed[seen]
    BY <1>1, <2>1 DEF IndInv, TypeOK
  <2>3. TypeOK' BY <2>1, <2>2 DEF IndInv, TypeOK
  <2>4. CommitInv' /\ AcceptanceMatchesOutcome' /\ HandInv'
    BY <1>2, <2>1 DEF IndInv, TypeOK, Publish, CommitInv, DispatchOver,
                      AcceptanceMatchesOutcome, HandInv, InHand
  <2>5. DisconnectInv' /\ CauseInv'
    BY <2>1 DEF IndInv, TypeOK, DisconnectInv, CauseInv
  <2>6. OutcomeInv' /\ AckInv'
    BY <1>2, <2>1 DEF IndInv, TypeOK, OutcomeInv, OutcomeHasCause, DispatchOver, InHand,
                      AckInv, CancelBeforeDone
  <2>7. StreamInv'
    BY <1>1, <1>2, <2>1, <2>2, EventBufferAssumption
       DEF IndInv, TypeOK, StreamInv, DoneEndsStream, ReservedSlot, PublishLimit, EventsCap
  <2> QED BY <2>3, <2>4, <2>5, <2>6, <2>7 DEF IndInv
<1>3. CASE ~(result = None /\ Len(stream) - taken < PublishLimit)
  <2>1. /\ FinishTerminal("dispatcher", "subscriber_overflow")
        /\ pc["dispatcher"] = "handle" /\ InHand = "publish"
        /\ UNCHANGED <<taken, feed, seen, sub, ctx, cancelVars, sendErr, clientVars>>
    BY <1>3 DEF Publish
  <2>2. TypeOK'
    BY <2>1 DEF IndInv, TypeOK, FinishTerminal, Commit, Acceptances, ResultKinds
  <2>3. CommitInv' /\ AcceptanceMatchesOutcome'
    <3>1. CASE result = None
      BY <2>1, <3>1, CommitAnswers
         DEF IndInv, TypeOK, FinishTerminal, Commit, CommitInv, DispatchOver, ResultKinds
    <3>2. CASE result # None
      BY <2>1, <3>2 DEF IndInv, TypeOK, FinishTerminal, CommitInv, DispatchOver,
                        AcceptanceMatchesOutcome
    <3> QED BY <3>1, <3>2
  <2>4. HandInv' /\ DisconnectInv' /\ CauseInv'
    BY <2>1 DEF IndInv, TypeOK, FinishTerminal, Commit, HandInv, InHand, DisconnectInv, CauseInv
  <2>5. OutcomeInv'
    BY <2>1 DEF IndInv, TypeOK, FinishTerminal, Commit, OutcomeInv, OutcomeHasCause,
                DispatchOver, InHand
  <2>6. AckInv'
    BY <2>1 DEF IndInv, TypeOK, FinishTerminal, Commit, AckInv, CancelBeforeDone
  <2>7. StreamInv'
    BY <2>1 DEF IndInv, TypeOK, FinishTerminal, Commit, StreamInv, DoneEndsStream,
                ReservedSlot, InHand
  <2> QED BY <2>2, <2>3, <2>4, <2>5, <2>6, <2>7 DEF IndInv
<1> QED BY <1>2, <1>3

(* The reserved slot: a live turn's turn_done always finds room. *)
LEMMA TurnDoneHasRoom ==
  ASSUME IndInv, result = None
  PROVE  /\ Len(stream) - taken < EventsCap
         /\ TurnDoneKind = IF cancelRequested THEN "canceled" ELSE "completed"
BY EventBufferAssumption DEF IndInv, TypeOK, StreamInv, PublishLimit, EventsCap, TurnDoneKind

LEMMA FinishTurnDoneKeeps ==
  ASSUME IndInv, FinishTurnDone
  PROVE  IndInv'
<1>1. seen \in 1..Len(feed) /\ feed[seen] \in Frames /\ feed[seen].kind = "turn_done"
  BY DispositionKind DEF IndInv, TypeOK, HandInv, FinishTurnDone, InHand
<1>2. CASE result = None
  <2>1. TurnDoneKind \in {"completed", "canceled"} /\ (TurnDoneKind = "canceled" <=> cancelRequested)
    BY <1>2, TurnDoneHasRoom DEF IndInv, TypeOK
  <2>2. /\ stream' = Append(stream, feed[seen])
        /\ Commit(TurnDoneKind)
        /\ pc' = [pc EXCEPT !["dispatcher"] = "unsubscribe"]
        /\ UNCHANGED <<eventsClosed, taken, feed, seen, sub, ctx, cancelVars, sendErr, clientVars>>
    BY <1>2, TurnDoneHasRoom DEF FinishTurnDone
  <2> DEFINE kind == TurnDoneKind
  <2> HIDE DEF kind
  <2>3. /\ kind \in {"completed", "canceled"} /\ (kind = "canceled" <=> cancelRequested)
        /\ result' = kind /\ state' = "terminal"
        /\ acceptance' = IF acceptance # "unset" THEN acceptance
                         ELSE IF kind = "completed" THEN "ok" ELSE kind
    BY <2>1, <2>2 DEF kind, Commit
  <2>4. /\ stream' \in Seq(Frames) /\ Len(stream') = Len(stream) + 1
        /\ \A i \in 1..Len(stream) : stream'[i] = stream[i]
        /\ stream'[Len(stream) + 1] = feed[seen]
    BY <1>1, <2>2 DEF IndInv, TypeOK
  <2>5. TypeOK'
    BY <2>2, <2>3, <2>4 DEF IndInv, TypeOK, Acceptances, ResultKinds
  <2>6. AcceptanceMatchesOutcome'
    BY <1>2, <2>1, <2>2, CommitAnswers DEF ResultKinds
  <2>11. CommitInv' /\ HandInv'
    BY <1>2, <2>2, <2>3 DEF IndInv, TypeOK, CommitInv, DispatchOver, HandInv, InHand
  <2>7. DisconnectInv' /\ CauseInv'
    BY <2>2 DEF IndInv, TypeOK, DisconnectInv, CauseInv
  <2>8. OutcomeInv'
    BY <1>2, <2>2, <2>3 DEF IndInv, TypeOK, OutcomeInv, OutcomeHasCause
  <2>9. AckInv'
    BY <1>2, <2>2, <2>3, MaxFeedAssumption DEF IndInv, TypeOK, AckInv, CancelBeforeDone
  <2>10. StreamInv'
    BY <1>1, <1>2, <2>2, <2>3, <2>4
       DEF IndInv, TypeOK, StreamInv, DoneEndsStream, ReservedSlot
  <2> QED BY <2>5, <2>6, <2>7, <2>8, <2>9, <2>10, <2>11 DEF IndInv
<1>3. CASE result # None
  <2>1. /\ pc' = [pc EXCEPT !["dispatcher"] = "exit"] /\ pc["dispatcher"] = "handle"
        /\ UNCHANGED <<state, acceptance, result, stream, eventsClosed, taken, feed, seen, sub,
                       ctx, cancelVars, sendErr, clientVars>>
    BY <1>3 DEF FinishTurnDone
  <2>2. TypeOK' /\ CommitInv' /\ AcceptanceMatchesOutcome' /\ HandInv'
    BY <1>3, <2>1 DEF IndInv, TypeOK, CommitInv, DispatchOver, AcceptanceMatchesOutcome,
                      HandInv, InHand
  <2>3. DisconnectInv' /\ CauseInv' /\ OutcomeInv' /\ AckInv' /\ StreamInv'
    BY <1>3, <2>1 DEF IndInv, TypeOK, DisconnectInv, CauseInv, OutcomeInv, OutcomeHasCause,
                      DispatchOver, InHand, AckInv, CancelBeforeDone, StreamInv,
                      DoneEndsStream, ReservedSlot
  <2> QED BY <2>2, <2>3 DEF IndInv
<1> QED BY <1>2, <1>3

(* The dispatcher's other steps. *)
LEMMA DispatcherKeeps ==
  ASSUME IndInv, Dispatcher
  PROVE  IndInv'
<1> USE DEF IndInv, TypeOK, CommitInv, DispatchOver, AcceptanceMatchesOutcome, HandInv, InHand,
            DisconnectInv, CauseInv, OutcomeInv, OutcomeHasCause, AckInv, CancelBeforeDone,
            StreamInv, DoneEndsStream, ReservedSlot
<1>1. ASSUME DispatchNext PROVE IndInv'
  BY <1>1, MaxFeedAssumption DEF DispatchNext
<1>2. ASSUME MarkAccepted PROVE IndInv'
  BY <1>2 DEF MarkAccepted
<1>3. ASSUME DispatchIgnore PROVE IndInv'
  BY <1>3 DEF DispatchIgnore
<1>4. ASSUME DispatchFailure PROVE IndInv'
  BY <1>4 DEF DispatchFailure, FinishTerminal, Commit, Acceptances, ResultKinds
<1>5. ASSUME CloseEvents PROVE IndInv'
  BY <1>5 DEF CloseEvents
<1> QED BY <1>1, <1>2, <1>3, <1>4, <1>5,
           DispatchErrorKeeps, DispatchAcceptKeeps, PublishKeeps, FinishTurnDoneKeeps
    DEF Dispatcher

-----------------------------------------------------------------------------
(* StartTurn *)
LEMMA StarterKeeps ==
  ASSUME IndInv, Starter
  PROVE  IndInv'
<1> USE DEF IndInv, TypeOK, CommitInv, DispatchOver, AcceptanceMatchesOutcome, HandInv, InHand,
            DisconnectInv, CauseInv, OutcomeInv, OutcomeHasCause, AckInv, CancelBeforeDone,
            StreamInv, DoneEndsStream, ReservedSlot
<1>1. ASSUME Notify PROVE IndInv'
  BY <1>1 DEF Notify
<1>2. ASSUME SendWritten PROVE IndInv'
  BY <1>2 DEF SendWritten
<1>3. ASSUME SendRefused PROVE IndInv'
  BY <1>3 DEF SendRefused
<1>4. ASSUME StartFailed PROVE IndInv'
  BY <1>4 DEF StartFailed, FinishTerminal, Commit, Acceptances, ResultKinds, turnResultFromSubscriptionError, Sentinels
<1>5. ASSUME markWriteComplete PROVE IndInv'
  BY <1>5 DEF markWriteComplete
<1>6. ASSUME NEW err \in {"write_failed", "too_large"}, SendFails(err) PROVE IndInv'
  BY <1>6 DEF SendFails, Disconnect, Drained, Errors, FatalErrors, Sentinels
<1> QED BY <1>1, <1>2, <1>3, <1>4, <1>5, <1>6 DEF Starter

(* The canceler touches the turn only through its request. *)
LEMMA CancelerKeeps ==
  ASSUME IndInv, Canceler
  PROVE  IndInv'
<1> USE DEF IndInv, TypeOK, CommitInv, DispatchOver, AcceptanceMatchesOutcome, HandInv, InHand,
            DisconnectInv, CauseInv, OutcomeInv, OutcomeHasCause, AckInv, CancelBeforeDone,
            StreamInv, DoneEndsStream, ReservedSlot
<1>1. ASSUME CancelRequest PROVE IndInv'
  BY <1>1 DEF CancelRequest, CancelReturns
<1>2. ASSUME CancelWritten PROVE IndInv'
  BY <1>2 DEF CancelWritten
<1>3. ASSUME CancelRefused PROVE IndInv'
  BY <1>3 DEF CancelRefused, CancelReturns
<1>4. ASSUME CancelWriteFails PROVE IndInv'
  BY <1>4 DEF CancelWriteFails, Disconnect, Drained, Errors, FatalErrors,
                  Sentinels
<1>5. ASSUME CancelWriteFailed PROVE IndInv'
  BY <1>5 DEF CancelWriteFailed, CancelReturns
<1>6. ASSUME CancelWait PROVE IndInv'
  BY <1>6 DEF CancelWait, CancelReply, CancelAborted, CancelTimeout, CancelClosed, CancelReturns, removePending, ReplyError
<1> QED BY <1>1, <1>2, <1>3, <1>4, <1>5, <1>6 DEF Canceler

(* The caller, the lifecycle watcher, Close, the bridge monitor, and the    *)
(* trailing steps every goroutine shares.                                   *)
LEMMA OtherStepsKeep ==
  ASSUME IndInv,
         \/ WatchLifecycle \/ Caller \/ ClientEnds
         \/ \E g \in Goroutines : Unsubscribe(g) \/ Disconnecting(g)
  PROVE  IndInv'
<1> USE DEF IndInv, TypeOK, CommitInv, DispatchOver, AcceptanceMatchesOutcome, HandInv, InHand,
            DisconnectInv, CauseInv, OutcomeInv, OutcomeHasCause, AckInv, CancelBeforeDone,
            StreamInv, DoneEndsStream, ReservedSlot
<1>1. ASSUME WatchLifecycle PROVE IndInv'
  BY <1>1 DEF WatchLifecycle, FinishTerminal, Commit, Acceptances, ResultKinds, LifecycleKind
<1>2. ASSUME TakeEvent PROVE IndInv'
  BY <1>2, EventBufferAssumption DEF TakeEvent, PublishLimit, EventsCap
<1>3. ASSUME Cancel PROVE IndInv'
  BY <1>3 DEF Cancel
<1>4. ASSUME NEW how \in {"canceled", "deadline"}, LifecycleEnds(how) PROVE IndInv'
  BY <1>4 DEF LifecycleEnds
<1>5. ASSUME Close PROVE IndInv'
  BY <1>5 DEF Close, Drained
<1>6. ASSUME CloseFinish PROVE IndInv'
  BY <1>6 DEF CloseFinish, CloseSub, Errors, FatalErrors, Sentinels
<1>7. ASSUME BridgeExit PROVE IndInv'
  BY <1>7 DEF BridgeExit, CloseSub, Errors, FatalErrors, Sentinels
<1>8. ASSUME NEW g \in Goroutines, Unsubscribe(g) PROVE IndInv'
  BY <1>8 DEF Unsubscribe, CloseSub, Sentinels
<1>9. ASSUME NEW g \in Goroutines, FailSubscribers(g) PROVE IndInv'
  BY <1>9 DEF FailSubscribers, CloseSub, Errors, FatalErrors, Sentinels
<1>10. ASSUME NEW g \in Goroutines, DisconnectGuard(g) PROVE IndInv'
  BY <1>10 DEF DisconnectGuard
<1>11. ASSUME NEW g \in Goroutines, DisconnectSet(g) PROVE IndInv'
  BY <1>11 DEF DisconnectSet, Drained
<1> QED BY <1>1, <1>2, <1>3, <1>4, <1>5, <1>6, <1>7, <1>8, <1>9, <1>10, <1>11
    DEF Caller, ClientEnds, Disconnecting

(* A lost connection reaches the turn through the reader. *)
LEMMA ReaderFailsKeeps ==
  ASSUME IndInv, NEW err \in FatalErrors \cup {"disconnected"}, ReaderFails(err)
  PROVE  IndInv'
BY DEF ReaderFails, Disconnect, Drained, FatalErrors, Sentinels, Errors, IndInv,
       TypeOK, CommitInv, DispatchOver, AcceptanceMatchesOutcome, HandInv, InHand,
       DisconnectInv, CauseInv, OutcomeInv, OutcomeHasCause, AckInv, CancelBeforeDone,
       StreamInv, DoneEndsStream, ReservedSlot

-----------------------------------------------------------------------------
(* The inductive invariant *)

LEMMA IndInvInit == Init => IndInv
<1> SUFFICES ASSUME Init PROVE IndInv
  OBVIOUS
<1>1. /\ pc["starter"] = "notify" /\ pc["reader"] = "read" /\ pc["dispatcher"] = "next"
      /\ pc["watcher"] = "wait" /\ pc["canceler"] = "idle" /\ pc["closer"] = "idle"
      /\ pc \in [Goroutines -> {"notify", "read", "next", "wait", "idle"}]
  BY DEF Init
<1>2. stream \in Seq(Frames) /\ feed \in Seq(Frames) /\ Len(stream) = 0 /\ Len(feed) = 0
  BY DEF Init
<1>3. TypeOK
  <2>1. bridge \in {"absent", "attached"} BY DEF Init
  <2>2. pc \in [Goroutines -> {"notify", "write", "mark", "returned", "read", "observe",
                              "next", "handle", "accepted", "done", "wait", "idle", "check",
                              "guard", "set", "failing", "failed", "unsubscribe", "exit", "subs"}]
    BY DEF Init
  <2>3. okAt \in Nat BY MaxFeedAssumption DEF Init
  <2>4. taken = 0 /\ seen = 0 /\ eventsClosed \in BOOLEAN /\ cancelRequested \in BOOLEAN
    BY DEF Init
  <2>5. /\ state = "starting" /\ acceptance = "unset" /\ result = None /\ sub = "open"
        /\ ctx = "live" /\ reply = None /\ replyFrame = None /\ cancelErr = "unset"
        /\ sendErr = None /\ client = "connected" /\ failure = None
    BY DEF Init
  <2> QED BY <1>2, <2>1, <2>2, <2>3, <2>4, <2>5, MaxFeedAssumption DEF TypeOK, Acceptances
<1>4. CommitInv /\ AcceptanceMatchesOutcome /\ HandInv
  BY <1>1 DEF Init, CommitInv, DispatchOver, AcceptanceMatchesOutcome, HandInv
<1>5. DisconnectInv /\ CauseInv /\ OutcomeInv
  BY <1>1 DEF Init, DisconnectInv, CauseInv, OutcomeInv, OutcomeHasCause
<1>6. AckInv /\ StreamInv
  BY <1>2, EventBufferAssumption
     DEF Init, AckInv, CancelBeforeDone, StreamInv, DoneEndsStream, ReservedSlot, PublishLimit,
         EventsCap
<1> QED BY <1>3, <1>4, <1>5, <1>6 DEF IndInv

LEMMA IndInvStep == IndInv /\ [Next]_vars => IndInv'
<1> SUFFICES ASSUME IndInv, [Next]_vars PROVE IndInv'
  OBVIOUS
<1>1. CASE Starter BY <1>1, StarterKeeps
<1>2. CASE Reader BY <1>2, ReadEventKeeps, ReadReplyKeeps, ObserveReplyKeeps, ReaderFailsKeeps DEF Reader
<1>3. CASE Dispatcher BY <1>3, DispatcherKeeps
<1>4. CASE Canceler BY <1>4, CancelerKeeps
<1>5. CASE WatchLifecycle \/ Caller \/ ClientEnds
           \/ \E g \in Goroutines : Unsubscribe(g) \/ Disconnecting(g)
  BY <1>5, OtherStepsKeep
<1>6. CASE UNCHANGED vars
  BY <1>6 DEF vars, IndInv, TypeOK, CommitInv, DispatchOver, AcceptanceMatchesOutcome,
       HandInv, InHand, DisconnectInv, CauseInv, OutcomeInv, OutcomeHasCause, AckInv,
       CancelBeforeDone, StreamInv, DoneEndsStream, ReservedSlot
<1> QED BY <1>1, <1>2, <1>3, <1>4, <1>5, <1>6 DEF Next

(* IndInv holds in every reachable state, whatever the constants. *)
THEOREM IndInvInvariant == Spec => []IndInv
BY IndInvInit, IndInvStep, PTL DEF Spec

-----------------------------------------------------------------------------
(* Conclusions *)

(* Turn, its subscription and its client keep their types. *)
THEOREM TypeCorrect == Spec => []TypeOK
<1>1. IndInv => TypeOK BY DEF IndInv
<1> QED BY <1>1, IndInvInvariant, PTL

(* Accepted never disagrees with Wait: finishAcceptance and                 *)
(* finishTerminalLocked race only for who answers.                          *)
THEOREM AcceptanceCorrect == Spec => []AcceptanceMatchesOutcome
<1>1. IndInv => AcceptanceMatchesOutcome BY DEF IndInv
<1> QED BY <1>1, IndInvInvariant, PTL

(* A cancel acknowledged before the turn_done was read is never lost,       *)
(* because the acknowledgement is recorded on the reader goroutine.         *)
THEOREM CancelOrder == Spec => []CancelBeforeDone
<1>1. IndInv => CancelBeforeDone BY DEF IndInv, AckInv
<1> QED BY <1>1, IndInvInvariant, PTL

(* The outcome names something that really happened. *)
THEOREM OutcomeCause == Spec => []OutcomeHasCause
<1>1. IndInv => OutcomeHasCause BY DEF IndInv, OutcomeInv
<1> QED BY <1>1, IndInvInvariant, PTL

(* For every EventBuffer the extra slot is enough for turn_done. *)
THEOREM SlotReserved == Spec => []ReservedSlot
<1>1. IndInv => ReservedSlot BY DEF IndInv, StreamInv
<1> QED BY <1>1, IndInvInvariant, PTL

(* turn_done is published last, and only by a turn that says so. *)
THEOREM StreamEnd == Spec => []DoneEndsStream
<1>1. IndInv => DoneEndsStream BY DEF IndInv, StreamInv
<1> QED BY <1>1, IndInvInvariant, PTL

-----------------------------------------------------------------------------
(* Turn implements TurnContract *)

(* The contract speaks of the same kinds and frames. *)
LEMMA SameEvents ==
  /\ Contract!ResultKinds = ResultKinds
  /\ Contract!AllFrames = AllFrames
  /\ \A frame : Contract!Disposition(frame) = Disposition(frame)
BY DEF Contract!ResultKinds, ResultKinds, Contract!AllFrames, AllFrames,
       Contract!TypedKinds, TypedKinds, Contract!UntypedKinds, UntypedKinds,
       Contract!Disposition, Disposition, Contract!DecodeFails, DecodeFails,
       Contract!SemanticClassOf, SemanticClassOf, Contract!ContentKinds, ContentKinds,
       Contract!AdvisoryKinds, AdvisoryKinds

(* finishTerminal is a failure of the contract, or nothing. *)
LEMMA FinishTerminalIsFail ==
  ASSUME NEW g, NEW kind \in ResultKinds \ {"completed", "canceled"},
         FinishTerminal(g, kind), UNCHANGED cancelRequested
  PROVE  [Contract!ContractNext]_(Contract!cvars)
<1>1. CASE result = None
  BY <1>1, SameEvents DEF FinishTerminal, Commit, Contract!ContractNext, Contract!Fail, Contract!Live,
                          Contract!Resolve
<1>2. CASE result # None
  BY <1>2 DEF FinishTerminal, Contract!cvars
<1> QED BY <1>1, <1>2

(* Each step of Turn is a step of the contract or leaves its variables alone. *)
LEMMA ContractStep ==
  ASSUME IndInv, [Next]_vars
  PROVE  [Contract!ContractNext]_(Contract!cvars)
<1>1. CASE Starter
  <2>1. CASE StartFailed
    BY <2>1, ErrorResult, FinishTerminalIsFail DEF StartFailed, ResultKinds
  <2> QED BY <1>1, <2>1 DEF Starter, Notify, SendWritten, SendRefused, markWriteComplete,
                            SendFails, Contract!cvars
<1>2. CASE Reader
  <2>1. CASE ObserveReply
    BY <2>1 DEF ObserveReply, Contract!ContractNext, Contract!Acknowledge, Contract!Live,
                Contract!cvars
  <2> QED BY <1>2, <2>1 DEF Reader, ReadEvent, ReadReply, ReaderFails, Contract!cvars
<1>3. CASE Dispatcher
  <2>1. CASE DispatchError
    BY <2>1, ErrorResult, FinishTerminalIsFail DEF DispatchError, ResultKinds
  <2>2. CASE DispatchFailure
    BY <2>2, FinishTerminalIsFail DEF DispatchFailure, ResultKinds
  <2>3. CASE DispatchAccept
    BY <2>3 DEF DispatchAccept, IndInv, AcceptanceMatchesOutcome, Contract!ContractNext,
                Contract!Accept, Contract!Live, Contract!cvars
  <2>4. CASE Publish
    <3>1. seen \in 1..Len(feed) /\ feed[seen] \in AllFrames
      BY <2>4, FramesAssumption DEF Publish, IndInv, TypeOK, HandInv
    <3>2. CASE result = None /\ Len(stream) - taken < PublishLimit
      <4>1. Contract!Deliver(feed[seen])
        BY <2>4, <3>2, SameEvents DEF Publish, InHand, Contract!Deliver, Contract!Live
      <4> QED BY <3>1, <4>1, SameEvents DEF Contract!ContractNext
    <3>3. CASE ~(result = None /\ Len(stream) - taken < PublishLimit)
      BY <2>4, <3>3, FinishTerminalIsFail DEF Publish, ResultKinds
    <3> QED BY <3>2, <3>3
  <2>5. CASE FinishTurnDone
    <3>1. seen \in 1..Len(feed) /\ feed[seen] \in AllFrames
      BY <2>5, FramesAssumption DEF FinishTurnDone, IndInv, TypeOK, HandInv
    <3>2. CASE result = None
      <4>1. Contract!Done(feed[seen])
        BY <2>5, <3>2, TurnDoneHasRoom, SameEvents
           DEF FinishTurnDone, Commit, InHand, Contract!Done, Contract!Live, Contract!Resolve
      <4> QED BY <3>1, <4>1, SameEvents DEF Contract!ContractNext
    <3>3. CASE result # None
      BY <2>5, <3>3 DEF FinishTurnDone, Contract!cvars
    <3> QED BY <3>2, <3>3
  <2> QED BY <1>3, <2>1, <2>2, <2>3, <2>4, <2>5
          DEF Dispatcher, DispatchNext, MarkAccepted, DispatchIgnore, CloseEvents, Contract!cvars
<1>4. CASE Canceler
  BY <1>4 DEF Canceler, CancelRequest, CancelWritten, CancelRefused, CancelWriteFails,
              CancelWriteFailed, CancelWait, Contract!cvars
<1>5. CASE WatchLifecycle
  <2>1. LifecycleKind \in ResultKinds \ {"completed", "canceled"}
    BY DEF LifecycleKind, ResultKinds
  <2> QED BY <1>5, <2>1, FinishTerminalIsFail DEF WatchLifecycle, Contract!cvars
<1>6. CASE Caller \/ ClientEnds
  BY <1>6 DEF Caller, TakeEvent, Cancel, LifecycleEnds, ClientEnds, Close, CloseFinish,
              BridgeExit, Contract!cvars
<1>7. CASE \E g \in Goroutines : Unsubscribe(g) \/ Disconnecting(g)
  BY <1>7 DEF Unsubscribe, Disconnecting, DisconnectGuard, DisconnectSet, FailSubscribers, Contract!cvars
<1>8. CASE UNCHANGED vars
  BY <1>8 DEF vars, Contract!cvars
<1> QED BY <1>1, <1>2, <1>3, <1>4, <1>5, <1>6, <1>7, <1>8 DEF Next

(* Turn, with all its goroutines and both channels, implements the contract *)
(* its caller sees.                                                         *)
THEOREM ContractImplemented == Spec => ContractHolds
<1>1. Init => Contract!ContractInit
  BY DEF Init, Contract!ContractInit
<1>2. IndInv /\ [Next]_vars => [Contract!ContractNext]_(Contract!cvars)
  BY ContractStep
<1> QED BY <1>1, <1>2, IndInvInvariant, PTL DEF Spec, ContractHolds, Contract!ContractSpec

(* How a step may change t.state. *)
StateMove ==
  \/ state' = state
  \/ state' \in {"terminal", "cancel_requested"}
  \/ state = "starting" /\ state' = "awaiting_acceptance"
  \/ state # "cancel_requested" /\ state' = "accepted"

(* Only a commit, the observer, markWriteComplete and dispatch change it. *)
LEMMA StateMoves ==
  ASSUME [Next]_vars
  PROVE  StateMove
<1> USE DEF StateMove, turnVars
<1>1. CASE Starter
  BY <1>1 DEF Starter, Notify, SendWritten, SendRefused, SendFails, Disconnect, StartFailed,
              FinishTerminal, Commit, markWriteComplete
<1>2. CASE Reader
  BY <1>2 DEF Reader, ReadEvent, ReadReply, ObserveReply, ReaderFails, Disconnect
<1>3. CASE Dispatcher
  BY <1>3 DEF Dispatcher, DispatchNext, DispatchError, DispatchAccept, MarkAccepted, DispatchIgnore,
              DispatchFailure, Publish, FinishTurnDone, CloseEvents, FinishTerminal, Commit
<1>4. CASE WatchLifecycle
  BY <1>4 DEF WatchLifecycle, FinishTerminal, Commit
<1>5. CASE Canceler \/ Caller \/ ClientEnds
  BY <1>5 DEF Canceler, CancelRequest, CancelWritten, CancelRefused, CancelWriteFails,
              CancelWriteFailed, CancelWait, Caller, TakeEvent, Cancel, LifecycleEnds, ClientEnds,
              Close, CloseFinish, BridgeExit
<1>6. CASE \E g \in Goroutines : Unsubscribe(g) \/ Disconnecting(g)
  BY <1>6 DEF Unsubscribe, Disconnecting, DisconnectGuard, DisconnectSet, FailSubscribers
<1>7. CASE UNCHANGED vars
  BY <1>7 DEF vars
<1> QED BY <1>1, <1>2, <1>3, <1>4, <1>5, <1>6, <1>7 DEF Next

(* A step of the contract never changes what was answered: together with    *)
(* the refinement, the first terminal result stands; t.state goes on.       *)
THEOREM FinalOutcome == Spec => OutcomeIsFinal
<1>1. ASSUME IndInv, IndInv', [Next]_vars
      PROVE  /\ result # None => UNCHANGED <<result, acceptance, state, stream>>
             /\ acceptance # "unset" => UNCHANGED acceptance
             /\ state = "accepted" => state' \in {"accepted", "cancel_requested", "terminal"}
             /\ state = "cancel_requested" => state' \in {"cancel_requested", "terminal"}
  <2>1. result # None => UNCHANGED <<result, acceptance, stream>>
    BY <1>1, ContractStep DEF Contract!ContractNext, Contract!cvars, Contract!Accept,
       Contract!Acknowledge, Contract!Deliver, Contract!Done, Contract!Fail, Contract!Live
  <2>2. acceptance # "unset" => UNCHANGED acceptance
    BY <1>1, ContractStep DEF Contract!ContractNext, Contract!cvars, Contract!Accept,
       Contract!Acknowledge, Contract!Deliver, Contract!Done, Contract!Fail, Contract!Resolve
  <2>3. result # None => UNCHANGED state
    BY <1>1, <2>1 DEF IndInv, CommitInv
  <2>4. state \in {"accepted", "cancel_requested"} =>
          state' \in {state, "cancel_requested", "terminal"}
    BY <1>1, StateMoves DEF StateMove
  <2> QED BY <2>1, <2>2, <2>3, <2>4
<1>2. IndInv /\ IndInv' /\ [Next]_vars =>
        [ /\ result # None => UNCHANGED <<result, acceptance, state, stream>>
          /\ acceptance # "unset" => UNCHANGED acceptance
          /\ state = "accepted" => state' \in {"accepted", "cancel_requested", "terminal"}
          /\ state = "cancel_requested" => state' \in {"cancel_requested", "terminal"} ]_vars
  BY <1>1
<1> QED BY <1>2, IndInvInvariant, PTL DEF Spec, OutcomeIsFinal

-----------------------------------------------------------------------------
(* The order of the stream *)

LEMMA HandledNat ==
  ASSUME IndInv
  PROVE  Handled \in Nat /\ Handled <= seen /\ seen <= Len(feed) /\ Len(feed) \in Nat /\ Len(stream) \in Nat
BY DEF IndInv, TypeOK, HandInv, Handled

(* A step that publishes nothing and is done with no visible event of a     *)
(* live turn keeps the order.                                               *)
LEMMA OrderStays ==
  ASSUME IndInv, StreamIsOrdered, stream' = stream, Handled' \in Nat, Handled' >= Handled,
         \A k \in 1..Handled : feed'[k] = feed[k],
         result' = None => result = None /\ \A k \in 1..Handled' : k > Handled => ~Visible(feed'[k])
  PROVE  StreamIsOrdered'
<1>1. PICK at \in [1..Len(stream) -> 1..Handled] : Follows(at) BY DEF StreamIsOrdered
<1>2. Handled \in Nat BY HandledNat
<1>3. at \in [1..Len(stream') -> 1..Handled'] BY <1>1, <1>2
<1>4. \A i \in 1..Len(stream) : at[i] \in 1..Handled BY <1>1
<1>5. \A i \in 1..Len(stream') : stream'[i] = feed'[at[i]] /\ Visible(feed'[at[i]])
  BY <1>1, <1>4 DEF Follows
<1>6. \A i, j \in 1..Len(stream') : i < j => at[i] < at[j] BY <1>1 DEF Follows
<1>7. ASSUME NEW k \in 1..Handled', Visible(feed'[k]),
             result' = None \/ \E i \in 1..Len(stream') : k < at[i]
      PROVE  \E j \in 1..Len(stream') : at[j] = k
  <2>1. k \in 1..Handled BY <1>2, <1>4, <1>7
  <2>2. Visible(feed[k]) /\ (result = None \/ \E i \in 1..Len(stream) : k < at[i]) BY <1>7, <2>1
  <2> QED BY <1>1, <2>1, <2>2 DEF Follows
<1>8. Follows(at)' BY <1>5, <1>6, <1>7 DEF Follows
<1> QED BY <1>3, <1>8 DEF StreamIsOrdered

(* Publishing the event in hand of a live turn keeps it as well. *)
LEMMA OrderGrows ==
  ASSUME IndInv, StreamIsOrdered, pc["dispatcher"] = "handle", result = None, Visible(feed[seen]),
         stream' = Append(stream, feed[seen]), feed' = feed, Handled' = seen
  PROVE  StreamIsOrdered'
<1>1. PICK at \in [1..Len(stream) -> 1..Handled] : Follows(at) BY DEF StreamIsOrdered
<1>2. /\ Handled = seen - 1 /\ Handled \in Nat /\ seen \in Nat /\ Len(stream) \in Nat
      /\ Len(stream') = Len(stream) + 1 /\ stream'[Len(stream) + 1] = feed[seen]
      /\ \A i \in 1..Len(stream) : stream'[i] = stream[i]
  BY HandledNat DEF Handled, IndInv, TypeOK, HandInv
<1>3. PICK n \in Nat : n = Len(stream) BY <1>2
<1>4. \A i \in 1..n : at[i] \in 1..Handled BY <1>1, <1>3
<1>5. PICK to \in [1..(n + 1) -> 1..seen] : to[n + 1] = seen /\ \A i \in 1..n : to[i] = at[i]
  <2> DEFINE f == [i \in 1..(n + 1) |-> IF i = n + 1 THEN seen ELSE at[i]]
  <2>1. f \in [1..(n + 1) -> 1..seen] BY <1>2, <1>3, <1>4
  <2>2. f[n + 1] = seen /\ \A i \in 1..n : f[i] = at[i] BY <1>3
  <2> HIDE DEF f
  <2> QED BY <2>1, <2>2
<1>6. \A i \in 1..(n + 1) : i \in 1..n \/ i = n + 1 BY <1>3
<1>7. \A i \in 1..(n + 1) : stream'[i] = feed'[to[i]] /\ Visible(feed'[to[i]])
  <2>1. \A i \in 1..n : stream'[i] = feed'[to[i]] /\ Visible(feed'[to[i]])
    BY <1>1, <1>2, <1>3, <1>4, <1>5 DEF Follows
  <2> QED BY <1>2, <1>3, <1>5, <1>6, <2>1
<1>8. \A i, j \in 1..(n + 1) : i < j => to[i] < to[j]
  <2> SUFFICES ASSUME NEW i \in 1..(n + 1), NEW j \in 1..(n + 1), i < j PROVE to[i] < to[j] OBVIOUS
  <2>1. i \in 1..n BY <1>3
  <2>2. CASE j \in 1..n BY <1>1, <1>3, <1>4, <1>5, <2>1, <2>2 DEF Follows
  <2>3. CASE j = n + 1 BY <1>2, <1>4, <1>5, <2>1, <2>3
  <2> QED BY <1>6, <2>2, <2>3
<1>9. ASSUME NEW k \in 1..seen, Visible(feed[k]) PROVE \E j \in 1..(n + 1) : to[j] = k
  <2>1. CASE k = seen BY <1>3, <1>5, <2>1
  <2>2. CASE k # seen
    <3>1. k \in 1..Handled BY <1>2, <2>2
    <3>2. PICK j \in 1..n : at[j] = k BY <1>1, <1>3, <1>9, <3>1 DEF Follows
    <3> QED BY <1>3, <1>5, <3>2
  <2> QED BY <2>1, <2>2
<1>10. Len(stream') = n + 1 BY <1>2, <1>3
<1>11. Follows(to)'
  <2>1. \A i \in 1..Len(stream') : stream'[i] = feed'[to[i]] /\ Visible(feed'[to[i]]) BY <1>7, <1>10
  <2>2. \A i, j \in 1..Len(stream') : i < j => to[i] < to[j] BY <1>8, <1>10
  <2>3. \A k \in 1..Handled' : Visible(feed'[k]) => \E j \in 1..Len(stream') : to[j] = k BY <1>9, <1>10
  <2> QED BY <2>1, <2>2, <2>3 DEF Follows
<1> QED BY <1>5, <1>10, <1>11 DEF StreamIsOrdered

(* Steps outside the dispatcher. *)
LEMMA OrderOutside ==
  ASSUME IndInv, StreamIsOrdered, stream' = stream, seen' = seen, result' = None => result = None,
         pc'["dispatcher"] = pc["dispatcher"], \A k \in 1..Len(feed) : feed'[k] = feed[k]
  PROVE  StreamIsOrdered'
<1>1. Handled' = Handled BY DEF Handled
<1>2. Handled \in Nat /\ Handled <= Len(feed) /\ Len(feed) \in Nat
  BY HandledNat DEF IndInv, TypeOK
<1>3. \A k \in 1..Handled : k \in 1..Len(feed) /\ ~(k > Handled) BY <1>2
<1> QED BY <1>1, <1>2, <1>3, OrderStays

(* The dispatcher. *)
LEMMA OrderDispatcher ==
  ASSUME IndInv, StreamIsOrdered, Dispatcher
  PROVE  StreamIsOrdered'
<1> USE DEF Visible
<1>0. /\ pc \in [Goroutines -> {"notify", "write", "mark", "returned", "read", "observe",
                               "next", "handle", "accepted", "done", "wait", "idle", "check",
                               "guard", "set", "failing", "failed", "unsubscribe", "exit", "subs"}]
      /\ seen \in Nat /\ (pc["dispatcher"] = "handle" => seen > 0)
  BY DEF IndInv, TypeOK, HandInv
<1>a. Handled \in Nat /\ (pc["dispatcher"] # "handle" => Handled = seen)
      /\ (pc["dispatcher"] = "handle" => Handled = seen - 1)
  BY HandledNat DEF Handled
<1>1. CASE DispatchNext
  <2>1. Handled' = Handled BY <1>0, <1>a, <1>1 DEF DispatchNext, Handled
  <2> QED BY <1>a, <1>1, <2>1, OrderStays DEF DispatchNext
<1>2. ASSUME stream' = stream, feed' = feed, seen' = seen, pc'["dispatcher"] # "handle",
             result' = None => result = None,
             result' = None /\ pc["dispatcher"] = "handle" => ~Visible(feed[seen])
      PROVE  StreamIsOrdered'
  <2>1. Handled' = seen /\ seen >= Handled BY <1>0, <1>a, <1>2 DEF Handled
  <2>2. result' = None => result = None /\ \A k \in 1..Handled' : k > Handled => ~Visible(feed'[k])
    BY <1>0, <1>a, <1>2, <2>1
  <2> QED BY <1>0, <1>a, <1>2, <2>1, <2>2, OrderStays
<1>3. CASE DispatchError \/ DispatchFailure
  BY <1>0, <1>2, <1>3 DEF DispatchError, DispatchFailure, FinishTerminal, Commit, turnResultFromSubscriptionError, InHand
<1>4. CASE DispatchAccept \/ MarkAccepted \/ DispatchIgnore \/ CloseEvents
  BY <1>0, <1>2, <1>4 DEF DispatchAccept, MarkAccepted, DispatchIgnore, CloseEvents, InHand
<1>5. CASE Publish
  <2>1. CASE result = None /\ Len(stream) - taken < PublishLimit
    <3>1. Handled' = seen BY <1>0, <1>5, <2>1 DEF Publish, Handled
    <3> QED BY <1>5, <2>1, <3>1, OrderGrows DEF Publish, InHand
  <2>2. CASE ~(result = None /\ Len(stream) - taken < PublishLimit)
    BY <1>0, <1>2, <1>5, <2>2 DEF Publish, FinishTerminal, Commit
  <2> QED BY <2>1, <2>2
<1>6. CASE FinishTurnDone
  <2>1. CASE result = None
    <3>1. Handled' = seen BY <1>0, <1>6, <2>1 DEF FinishTurnDone, Handled
    <3>2. stream' = Append(stream, feed[seen]) BY <1>6, <2>1, TurnDoneHasRoom DEF FinishTurnDone
    <3> QED BY <1>6, <2>1, <3>1, <3>2, OrderGrows DEF FinishTurnDone, InHand
  <2>2. CASE result # None
    BY <1>0, <1>2, <1>6, <2>2 DEF FinishTurnDone
  <2> QED BY <2>1, <2>2
<1> QED BY <1>1, <1>3, <1>4, <1>5, <1>6 DEF Dispatcher

LEMMA OrderStep ==
  ASSUME IndInv, StreamIsOrdered, [Next]_vars
  PROVE  StreamIsOrdered'
<1> USE DEF IndInv, TypeOK
<1>1. CASE Starter
  BY <1>1, OrderOutside DEF Starter, Notify, SendWritten, SendRefused, StartFailed, markWriteComplete,
     SendFails, Disconnect, FinishTerminal, Commit, turnResultFromSubscriptionError
<1>2. CASE Reader
  <2>1. ASSUME NEW frame \in Frames, ReadEvent(frame) PROVE StreamIsOrdered'
    <3>1. feed' = Append(feed, frame) \/ feed' = feed BY <2>1 DEF ReadEvent
    <3>2. feed \in Seq(Frames) OBVIOUS
    <3>3. \A k \in 1..Len(feed) : feed'[k] = feed[k] BY ONLY <3>1, <3>2, frame \in Frames
    <3> QED BY <2>1, <3>3, OrderOutside DEF ReadEvent
  <2>2. ASSUME NEW r \in {"ok", "error", "other"}, ReadReply(r) PROVE StreamIsOrdered'
    BY <2>2, OrderOutside DEF ReadReply
  <2>3. CASE ObserveReply BY <2>3, OrderOutside DEF ObserveReply
  <2>4. ASSUME NEW err \in FatalErrors \cup {"disconnected"}, ReaderFails(err) PROVE StreamIsOrdered'
    BY <2>4, OrderOutside DEF ReaderFails, Disconnect
  <2> QED BY <1>2, <2>1, <2>2, <2>3, <2>4 DEF Reader
<1>3. CASE Dispatcher BY <1>3, OrderDispatcher
<1>4. CASE WatchLifecycle \/ Caller \/ ClientEnds
  BY <1>4, OrderOutside DEF WatchLifecycle, FinishTerminal, Commit, LifecycleKind, Caller, TakeEvent,
     Cancel, LifecycleEnds, ClientEnds, Close, CloseFinish, BridgeExit
<1>5. CASE Canceler
  BY <1>5, OrderOutside DEF Canceler, CancelRequest, CancelWritten, CancelRefused, CancelWriteFails,
     CancelWriteFailed, CancelWait, CancelReply, CancelAborted, CancelTimeout, CancelClosed,
     CancelReturns, removePending, Disconnect
<1>6. ASSUME NEW g \in Goroutines, Unsubscribe(g) \/ Disconnecting(g) PROVE StreamIsOrdered'
  <2>1. CASE pc'["dispatcher"] = pc["dispatcher"]
    BY <1>6, <2>1, OrderOutside DEF Unsubscribe, Disconnecting, DisconnectGuard, DisconnectSet, FailSubscribers
  <2>2. CASE pc'["dispatcher"] # pc["dispatcher"]
    <3>1. Handled' = Handled BY <1>6, <2>2 DEF Unsubscribe, Disconnecting, DisconnectGuard, DisconnectSet, FailSubscribers, Handled
    <3> QED BY <1>6, <3>1, HandledNat, OrderStays DEF Unsubscribe, Disconnecting, DisconnectGuard, DisconnectSet, FailSubscribers
  <2> QED BY <2>1, <2>2
<1>7. CASE UNCHANGED vars BY <1>7, OrderOutside DEF vars
<1> QED BY <1>1, <1>2, <1>3, <1>4, <1>5, <1>6, <1>7 DEF Next

(* What Turn.Next returns is, in order and without a gap, what the server   *)
(* sent this turn, for every sequence of frames and every buffer size.      *)
THEOREM ServerOrder == Spec => []StreamIsOrdered
<1>1. Init => StreamIsOrdered
  <2> SUFFICES ASSUME Init PROVE StreamIsOrdered OBVIOUS
  <2>1. Len(stream) = 0 /\ Handled = 0 BY DEF Init, Handled
  <2>2. \A at \in [1..Len(stream) -> 1..Handled] : Follows(at) BY <2>1 DEF Follows
  <2>3. [i \in 1..Len(stream) |-> i] \in [1..Len(stream) -> 1..Handled] BY <2>1
  <2> QED BY <2>2, <2>3 DEF StreamIsOrdered
<1>2. IndInv /\ StreamIsOrdered /\ [Next]_vars => StreamIsOrdered' BY OrderStep
<1> QED BY <1>1, <1>2, IndInvInvariant, PTL DEF Spec

-----------------------------------------------------------------------------
(* Cancel *)

LEMMA SettledStep ==
  ASSUME IndInv, SettledInv, [Next]_vars
  PROVE  SettledInv'
<1> USE DEF IndInv, TypeOK, SettledInv, CancelNilMeansSettled
<1>1. CASE Starter
  BY <1>1 DEF Starter, Notify, SendWritten, SendRefused, StartFailed, markWriteComplete, SendFails,
     Disconnect, Drained, FinishTerminal, Commit
<1>2. CASE Reader
  BY <1>2 DEF Reader, ReadEvent, ReadReply, ObserveReply, ReaderFails, Disconnect, Drained
<1>3. CASE Dispatcher
  BY <1>3 DEF Dispatcher, DispatchNext, DispatchError, DispatchAccept, MarkAccepted, DispatchIgnore,
     DispatchFailure, Publish, FinishTurnDone, CloseEvents, FinishTerminal, Commit
<1>4. CASE WatchLifecycle \/ Caller \/ ClientEnds
  BY <1>4 DEF WatchLifecycle, FinishTerminal, Commit, Caller, TakeEvent, Cancel, LifecycleEnds,
     ClientEnds, Close, CloseFinish, BridgeExit, Drained
<1>5. CASE Canceler
  BY <1>5 DEF Canceler, CancelRequest, CancelWritten, CancelRefused, CancelWriteFails,
     CancelWriteFailed, CancelWait, CancelReply, CancelAborted, CancelTimeout, CancelClosed,
     CancelReturns, removePending, ReplyError, Disconnect, Drained
<1>6. ASSUME NEW g \in Goroutines, Unsubscribe(g) \/ Disconnecting(g) PROVE SettledInv'
  BY <1>6 DEF Unsubscribe, Disconnecting, DisconnectGuard, DisconnectSet, FailSubscribers, Drained
<1>7. CASE UNCHANGED vars BY <1>7 DEF vars
<1> QED BY <1>1, <1>2, <1>3, <1>4, <1>5, <1>6, <1>7 DEF Next

(* A nil from Cancel is never empty: the turn has recorded the              *)
(* acknowledgement or had ended.                                            *)
THEOREM CancelSettled == Spec => []CancelNilMeansSettled
<1>1. Init => SettledInv BY DEF Init, SettledInv, CancelNilMeansSettled
<1>2. IndInv /\ SettledInv /\ [Next]_vars => SettledInv' BY SettledStep
<1>3. SettledInv => CancelNilMeansSettled BY DEF SettledInv
<1> QED BY <1>1, <1>2, <1>3, IndInvInvariant, PTL DEF Spec
=============================================================================
