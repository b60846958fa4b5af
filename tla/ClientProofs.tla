---------------------------- MODULE ClientProofs -----------------------------
(***************************************************************************)
(* Theorems about Client, for every number of callers, turns, raw          *)
(* subscriptions, connections and attempts of Reconnect.  They follow from *)
(* the inductive invariants of ClientInductive.                            *)
(***************************************************************************)
EXTENDS ClientInductive, TLAPS

USE DEF connVars, requestVars, subVars, openerVars, Goto

(* The kinds of processes have nothing in common, and a request is named    *)
(* after its caller or the opener's connection.                             *)
LEMMA Names ==
  /\ Conns \subseteq Procs /\ Callers \subseteq Procs /\ "opener" \in Procs /\ "closer" \in Procs
  /\ \A p \in Callers : p # "opener" /\ p # "closer" /\ p \notin Conns
  /\ \A c \in Conns : c # "opener" /\ c # "closer" /\ c \notin Callers
  /\ Requesters \subseteq Ids /\ Conns \subseteq Ids /\ "none" \notin Ids
  /\ Requesters \subseteq Callers /\ Turns \subseteq Callers /\ Callers = Requesters \cup Turns
  /\ \A t \in Turns : t \notin Ids /\ t \notin RawSubs /\ t \notin Requesters
BY ProcsAssumption DEF Procs, Callers, Ids

LEMMA CurConn ==
  ASSUME TypeOK
  PROVE  /\ Cur \in Conns /\ Cur \in Ids /\ IdOf("opener") = Cur
         /\ \A p \in Callers : IdOf(p) = p
         /\ cur' = cur => Cur' = Cur
<1>1. Cur \in Conns BY DEF Cur, Conns, TypeOK
<1> QED BY <1>1, Names DEF IdOf, Cur

(* The connection that Dial installs is a new one. *)
LEMMA NextConn ==
  ASSUME TypeOK, cur < Len(ConnOrder)
  PROVE  cur + 1 \in 1..Len(ConnOrder) /\ ConnOrder[cur + 1] \in Conns /\ ConnOrder[cur + 1] # Cur
<1>1. Len(ConnOrder) \in Nat /\ cur \in 1..Len(ConnOrder) BY ConnOrderAssumption DEF TypeOK
<1>2. cur + 1 \in 1..Len(ConnOrder) /\ cur + 1 # cur BY <1>1
<1> QED BY <1>1, <1>2, ConnOrderAssumption DEF Conns, Cur

(* The loop of Reconnect goes on with the mutex held, or ends and gives it  *)
(* back.                                                                    *)
LEMMA NextAttemptStep ==
  ASSUME TypeOK, NextAttempt
  PROVE  /\ \A p \in Procs : p # "opener" => pc'[p] = pc[p]
         /\ \/ pc'["opener"] = "dial" /\ mu' = mu
            \/ pc'["opener"] = "idle" /\ mu' = FALSE
<1>1. pc \in [Procs -> Labels] /\ "opener" \in Procs BY Names DEF TypeOK
<1>2. CASE attempt < MaxAttempts BY ONLY <1>1, <1>2, NextAttempt DEF NextAttempt, Goto
<1>3. CASE ~(attempt < MaxAttempts) BY ONLY <1>1, <1>3, NextAttempt DEF NextAttempt, Goto
<1> QED BY <1>2, <1>3

-----------------------------------------------------------------------------
(* The steps, one part of the invariant after the other *)

(* Types. *)
LEMMA TypeNext ==
  ASSUME ClientInv, Next
  PROVE  TypeOK'
<1> USE DEF TypeOK, Labels, States
<1>0. TypeOK /\ LabelInv /\ RequestInv /\ FreshInv /\ AwaitInv /\ CloseInv /\ MutexInv
      /\ NoPanic /\ RawSubscriptionsSurvive
  BY DEF ClientInv
<1>1. ASSUME NEW c \in Conns, Reader(c) PROVE TypeOK'
  <2>1. ASSUME NEW i \in Ids, ReadReply(c, i) PROVE TypeOK'
    <3>1. wire' \in [Conns -> SUBSET Ids] BY <1>0, <2>1 DEF ReadReply
    <3>2. held' \in [Conns -> Ids \cup {"none"}] BY <1>0, <2>1 DEF ReadReply
    <3>3. pc' \in [Procs -> Labels] BY <1>0, Names, <2>1 DEF ReadReply
    <3>4. pending' \subseteq Ids BY <1>0, <2>1 DEF ReadReply
    <3> QED BY <1>0, <2>1, <3>1, <3>2, <3>3, <3>4 DEF ReadReply
  <2>2. CASE Deliver(c) BY <1>0, Names, CurConn, <2>2 DEF Deliver
  <2>3. ASSUME NEW terminal \in BOOLEAN, ReadFails(c, terminal) PROVE TypeOK' BY <1>0, Names, CurConn, <2>3 DEF ReadFails
  <2>4. CASE DecodeFails(c) BY <1>0, Names, CurConn, <2>4 DEF DecodeFails
  <2> QED BY <1>1, <2>1, <2>2, <2>3, <2>4 DEF Reader
<1>2. ASSUME NEW p \in Procs, Disconnect(p) PROVE TypeOK'
  <2>1. CASE DisconnectLock(p)
    <3>1. mu' \in BOOLEAN BY <1>0, <2>1 DEF DisconnectLock
    <3>2. pc' \in [Procs -> Labels] BY <1>0, <2>1 DEF DisconnectLock, AfterDisconnect
    <3> QED BY <1>0, <2>1, <3>1, <3>2 DEF DisconnectLock
  <2>2. CASE DisconnectCheck(p)
    <3>1. mu' \in BOOLEAN BY <1>0, <2>2 DEF DisconnectCheck
    <3>2. pc' \in [Procs -> Labels] BY <1>0, <2>2 DEF DisconnectCheck, AfterDisconnect
    <3> QED BY <1>0, <2>2, <3>1, <3>2 DEF DisconnectCheck
  <2>3. CASE DisconnectSet(p) BY <1>0, Names, CurConn, <2>3 DEF DisconnectSet
  <2>4. CASE DisconnectTear(p)
    <3>1. chan' \in [Ids -> {"none", "waiting", "sent", "closed", "panic"}] BY <1>0, <2>4 DEF DisconnectTear, Drain
    <3> QED BY <1>0, <2>4, <3>1 DEF DisconnectTear, Drain
  <2>5. CASE DisconnectFail(p)
    <3>1. pc' \in [Procs -> Labels] BY <1>0, <2>5 DEF DisconnectFail, AfterDisconnect
    <3>2. sub' \in [Subs -> {"none", "open", "failed"}] BY <1>0, <2>5 DEF DisconnectFail, FailSubs
    <3>3. mu' \in BOOLEAN BY <2>5 DEF DisconnectFail
    <3> QED BY <1>0, <2>5, <3>1, <3>2, <3>3 DEF DisconnectFail
  <2> QED BY <1>2, <2>1, <2>2, <2>3, <2>4, <2>5 DEF Disconnect
<1>3. ASSUME NEW p \in Callers \cup {"opener"}, Requesting(p) PROVE TypeOK'
  <2>1. CASE Request(p) BY <1>0, Names, CurConn, <2>1 DEF Request
  <2>2. CASE Register(p)
    <3>1. IdOf(p) \in Ids BY <1>0, Names, CurConn, <2>2 DEF Register, LabelInv, Disconnecting, Section
    <3>2. chan' \in [Ids -> {"none", "waiting", "sent", "closed", "panic"}] BY <1>0, <3>1, <2>2 DEF Register
    <3>3. pc' \in [Procs -> Labels] BY <1>0, Names, <2>2 DEF Register
    <3> QED BY <1>0, <2>2, <3>1, <3>2, <3>3 DEF Register
  <2>3. CASE Write(p)
    <3>1. pc' \in [Procs -> Labels] BY <1>0, Names, <2>3 DEF Write
    <3>2. CASE p \in Turns
      <4>1. sent' \in [Turns -> 0..Len(ConnOrder)] BY <1>0, <2>3, <3>2, ConnOrderAssumption DEF Write
      <4> QED BY <1>0, <2>3, <3>1, <3>2, <4>1 DEF Write
    <3>3. CASE p \notin Turns
      <4>1. IdOf(p) \in Ids BY <1>0, Names, CurConn, <1>3, <3>3
      <4>2. wire' \in [Conns -> SUBSET Ids] BY <1>0, <2>3, <3>3, <4>1 DEF Write
      <4> QED BY <1>0, <2>3, <3>1, <3>3, <4>2 DEF Write
    <3> QED BY <3>2, <3>3
  <2>4. CASE WriteFails(p)
    <3>1. pc' \in [Procs -> Labels] BY <1>0, Names, <2>4 DEF WriteFails
    <3> QED BY <1>0, <2>4, <3>1 DEF WriteFails
  <2>5. CASE Await(p)
    <3>1. pending' \subseteq pending BY <1>0, <2>5 DEF Await, Replied, GaveUp
    <3>2. pc' \in [Procs -> Labels] BY <1>0, Names, <2>5 DEF Await
    <3> QED BY <1>0, <2>5, <3>1, <3>2 DEF Await
  <2> QED BY <1>3, <2>1, <2>2, <2>3, <2>4, <2>5 DEF Requesting
<1>4. ASSUME Subscribing PROVE TypeOK'
  <2>1. ASSUME NEW s \in Subs, Subscribe(s) PROVE TypeOK' BY <1>0, Names, CurConn, <2>1 DEF Subscribe
  <2>2. ASSUME NEW t \in Turns, Notify(t) PROVE TypeOK' BY <1>0, Names, CurConn, <2>2 DEF Notify
  <2>3. ASSUME NEW t \in Turns, Unsubscribe(t) PROVE TypeOK'
    <3>1. sub' \in [Subs -> {"none", "open", "failed"}] BY <1>0, <2>3 DEF Unsubscribe, FailSubs
    <3>2. pc' \in [Procs -> Labels] BY <1>0, Names, <2>3 DEF Unsubscribe
    <3> QED BY <1>0, <2>3, <3>1, <3>2 DEF Unsubscribe
  <2> QED BY <1>4, <2>1, <2>2, <2>3 DEF Subscribing
<1>5. ASSUME Opener PROVE TypeOK'
  <2>1. CASE OpenerRequest BY <1>0, Names, CurConn, <2>1 DEF OpenerRequest
  <2>2. CASE OpenerAwait
    <3>1. pending' \subseteq pending BY <1>0, <2>2 DEF OpenerAwait, Replied, GaveUp
    <3>2. pc' \in [Procs -> Labels] BY <1>0, Names, <2>2 DEF OpenerAwait
    <3>3. phase' \in {"hello", "attach"} BY <1>0, <2>2 DEF OpenerAwait
    <3> QED BY <1>0, <2>2, <3>1, <3>2, <3>3 DEF OpenerAwait
  <2>3. CASE NewClientUp BY <1>0, Names, CurConn, <2>3 DEF NewClientUp
  <2>4. CASE NewClientFails BY <1>0, Names, CurConn, <2>4 DEF NewClientFails
  <2>5. CASE ReconnectCall BY <1>0, Names, CurConn, <2>5 DEF ReconnectCall
  <2>6. CASE ReconnectLock
    <3>1. mu' \in BOOLEAN BY <1>0, <2>6 DEF ReconnectLock
    <3>2. pc' \in [Procs -> Labels] BY <1>0, Names, <2>6 DEF ReconnectLock
    <3> QED BY <1>0, <2>6, <3>1, <3>2 DEF ReconnectLock
  <2>7. CASE ReconnectBegin
    <3>1. attempt' \in 0..MaxAttempts BY <2>7, MaxAttemptsAssumption DEF ReconnectBegin
    <3>2. pc' \in [Procs -> Labels] BY <1>0, Names, <2>7 DEF ReconnectBegin
    <3> QED BY <1>0, <2>7, <3>1, <3>2 DEF ReconnectBegin
  <2>8. CASE BackoffCanceled BY <1>0, Names, CurConn, <2>8 DEF BackoffCanceled
  <2>9. CASE FactoryFails
    <3>1. \/ attempt < MaxAttempts /\ attempt' = attempt + 1 /\ mu' = mu /\ pc' = [pc EXCEPT !["opener"] = "dial"]
          \/ mu' = FALSE /\ attempt' = attempt /\ pc' = [pc EXCEPT !["opener"] = "idle"]
      BY <2>9 DEF FactoryFails, NextAttempt
    <3>2. attempt' \in 0..MaxAttempts BY <1>0, <3>1, MaxAttemptsAssumption
    <3>3. mu' \in BOOLEAN BY <1>0, <3>1
    <3>4. pc' \in [Procs -> Labels] BY <1>0, Names, <3>1
    <3> QED BY <1>0, CurConn, <2>9, <3>2, <3>3, <3>4 DEF FactoryFails
  <2>10. CASE Dial BY <1>0, Names, CurConn, NextConn, <2>10 DEF Dial
  <2>11. CASE AttemptFails
    <3>1. \/ attempt < MaxAttempts /\ attempt' = attempt + 1 /\ mu' = mu /\ pc' = [pc EXCEPT !["opener"] = "dial"]
          \/ mu' = FALSE /\ attempt' = attempt /\ pc' = [pc EXCEPT !["opener"] = "idle"]
      BY <2>11 DEF AttemptFails, NextAttempt
    <3>2. attempt' \in 0..MaxAttempts BY <1>0, <3>1, MaxAttemptsAssumption
    <3>3. mu' \in BOOLEAN BY <1>0, <3>1
    <3>4. pc' \in [Procs -> Labels] BY <1>0, Names, <3>1
    <3> QED BY <1>0, CurConn, <2>11, <3>2, <3>3, <3>4 DEF AttemptFails
  <2>12. CASE ReconnectUp BY <1>0, Names, CurConn, <2>12 DEF ReconnectUp
  <2> QED BY <1>5, <2>1, <2>2, <2>3, <2>4, <2>5, <2>6, <2>7, <2>8, <2>9, <2>10, <2>11, <2>12 DEF Opener
<1>6. ASSUME Closer PROVE TypeOK'
  <2>1. CASE Close BY <1>0, Names, CurConn, <2>1 DEF Close
  <2>2. CASE CloseSignal
    <3>1. chan' \in [Ids -> {"none", "waiting", "sent", "closed", "panic"}] BY <1>0, <2>2 DEF CloseSignal, Drain
    <3>2. pc' \in [Procs -> Labels] BY <1>0, Names, <2>2 DEF CloseSignal
    <3>3. closed' \in BOOLEAN BY <2>2 DEF CloseSignal
    <3> QED BY <1>0, <2>2, <3>1, <3>2, <3>3 DEF CloseSignal, Drain
  <2>3. CASE CloseSubs
    <3>1. sub' \in [Subs -> {"none", "open", "failed"}] BY <1>0, <2>3 DEF CloseSubs, FailSubs
    <3>2. pc' \in [Procs -> Labels] BY <1>0, Names, <2>3 DEF CloseSubs
    <3> QED BY <1>0, <2>3, <3>1, <3>2 DEF CloseSubs
  <2>4. CASE CloseLast BY <1>0, Names, CurConn, <2>4 DEF CloseLast
  <2> QED BY <1>6, <2>1, <2>2, <2>3, <2>4 DEF Closer
<1> QED BY <1>1, <1>2, <1>3, <1>4, <1>5, <1>6 DEF Next

(* Every goroutine stays on its own path. *)
LEMMA LabelNext ==
  ASSUME ClientInv, Next
  PROVE  LabelInv'
<1> USE DEF LabelInv, TypeOK, Section, Disconnecting, AfterDisconnect, NextAttempt
<1>0. TypeOK /\ LabelInv /\ RequestInv /\ FreshInv /\ AwaitInv /\ CloseInv /\ MutexInv
      /\ NoPanic /\ RawSubscriptionsSurvive
  BY DEF ClientInv
<1>1. ASSUME NEW c \in Conns, Reader(c) PROVE LabelInv'
  BY <1>0, Names, <1>1 DEF Reader, ReadReply, Deliver, ReadFails, DecodeFails
<1>2. ASSUME NEW p \in Procs, Disconnect(p) PROVE LabelInv'
  BY <1>0, Names, <1>2 DEF Disconnect, DisconnectLock, DisconnectCheck, DisconnectSet, DisconnectTear, DisconnectFail
<1>3. ASSUME NEW p \in Callers \cup {"opener"}, Requesting(p) PROVE LabelInv'
  BY <1>0, Names, <1>3 DEF Requesting, Request, Register, Write, WriteFails, Await
<1>4. ASSUME Subscribing PROVE LabelInv'
  <2>1. ASSUME NEW s \in Subs, Subscribe(s) PROVE LabelInv' BY <1>0, Names, <2>1 DEF Subscribe
  <2>2. ASSUME NEW t \in Turns, Notify(t) PROVE LabelInv' BY <1>0, Names, <2>2 DEF Notify
  <2>3. ASSUME NEW t \in Turns, Unsubscribe(t) PROVE LabelInv' BY <1>0, Names, <2>3 DEF Unsubscribe
  <2> QED BY <1>4, <2>1, <2>2, <2>3 DEF Subscribing
<1>5. ASSUME Opener PROVE LabelInv'
  <2>1. CASE OpenerRequest BY <1>0, Names, <2>1 DEF OpenerRequest
  <2>2. CASE OpenerAwait BY <1>0, Names, <2>2 DEF OpenerAwait
  <2>3. CASE NewClientUp BY <1>0, Names, <2>3 DEF NewClientUp
  <2>4. CASE NewClientFails BY <1>0, Names, <2>4 DEF NewClientFails
  <2>5. CASE ReconnectCall BY <1>0, Names, <2>5 DEF ReconnectCall
  <2>6. CASE ReconnectLock BY <1>0, Names, <2>6 DEF ReconnectLock
  <2>7. CASE ReconnectBegin BY <1>0, Names, <2>7 DEF ReconnectBegin
  <2>8. CASE BackoffCanceled BY <1>0, Names, <2>8 DEF BackoffCanceled
  <2>9. CASE FactoryFails BY <1>0, Names, <2>9 DEF FactoryFails
  <2>10. CASE Dial BY <1>0, Names, NextConn, <2>10 DEF Dial
  <2>11. CASE AttemptFails BY <1>0, Names, <2>11 DEF AttemptFails
  <2>12. CASE ReconnectUp BY <1>0, Names, <2>12 DEF ReconnectUp
  <2> QED BY <1>5, <2>1, <2>2, <2>3, <2>4, <2>5, <2>6, <2>7, <2>8, <2>9, <2>10, <2>11, <2>12 DEF Opener
<1>6. ASSUME Closer PROVE LabelInv'
  BY <1>0, Names, <1>6 DEF Closer, Close, CloseSignal, CloseSubs, CloseLast
<1> QED BY <1>1, <1>2, <1>3, <1>4, <1>5, <1>6 DEF Next

(* A subscription that comes too late is refused. *)
LEMMA CloseNext ==
  ASSUME ClientInv, Next
  PROVE  CloseInv'
<1> USE DEF CloseInv, TypeOK, LabelInv, FailSubs, Section, Disconnecting, NextAttempt, AfterDisconnect
<1>0. TypeOK /\ LabelInv /\ RequestInv /\ FreshInv /\ AwaitInv /\ CloseInv /\ MutexInv
      /\ NoPanic /\ RawSubscriptionsSurvive
  BY DEF ClientInv
<1>1. ASSUME NEW c \in Conns, Reader(c) PROVE CloseInv'
  BY <1>0, Names, <1>1 DEF Reader, ReadReply, Deliver, ReadFails, DecodeFails
<1>2. ASSUME NEW p \in Procs, Disconnect(p) PROVE CloseInv'
  BY <1>0, Names, <1>2 DEF Disconnect, DisconnectLock, DisconnectCheck, DisconnectSet, DisconnectTear, DisconnectFail
<1>3. ASSUME NEW p \in Callers \cup {"opener"}, Requesting(p) PROVE CloseInv'
  BY <1>0, Names, <1>3 DEF Requesting, Request, Register, Write, WriteFails, Await
<1>4. ASSUME Subscribing PROVE CloseInv'
  BY <1>0, Names, <1>4 DEF Subscribing, Subscribe, Notify, Unsubscribe
<1>5. ASSUME Opener PROVE CloseInv'
  <2>1. CASE OpenerRequest BY <1>0, Names, <2>1 DEF OpenerRequest
  <2>2. CASE OpenerAwait BY <1>0, Names, <2>2 DEF OpenerAwait
  <2>3. CASE NewClientUp BY <1>0, Names, <2>3 DEF NewClientUp
  <2>4. CASE NewClientFails BY <1>0, Names, <2>4 DEF NewClientFails
  <2>5. CASE ReconnectCall BY <1>0, Names, <2>5 DEF ReconnectCall
  <2>6. CASE ReconnectLock BY <1>0, Names, <2>6 DEF ReconnectLock
  <2>7. CASE ReconnectBegin BY <1>0, Names, <2>7 DEF ReconnectBegin
  <2>8. CASE BackoffCanceled BY <1>0, Names, <2>8 DEF BackoffCanceled
  <2>9. CASE FactoryFails BY <1>0, Names, <2>9 DEF FactoryFails
  <2>10. CASE Dial BY <1>0, Names, NextConn, <2>10 DEF Dial
  <2>11. CASE AttemptFails BY <1>0, Names, <2>11 DEF AttemptFails
  <2>12. CASE ReconnectUp BY <1>0, Names, <2>12 DEF ReconnectUp
  <2> QED BY <1>5, <2>1, <2>2, <2>3, <2>4, <2>5, <2>6, <2>7, <2>8, <2>9, <2>10, <2>11, <2>12 DEF Opener
<1>6. ASSUME Closer PROVE CloseInv'
  BY <1>0, Names, <1>6 DEF Closer, Close, CloseSignal, CloseSubs, CloseLast
<1> QED BY <1>1, <1>2, <1>3, <1>4, <1>5, <1>6 DEF Next

(* One holder of reconnectMu at a time. *)
LEMMA MutexNext ==
  ASSUME ClientInv, Next
  PROVE  MutexInv'
<1> USE DEF MutexInv, TypeOK, LabelInv, Reconnecting, Section, Disconnecting, AfterDisconnect
<1>0. TypeOK /\ LabelInv /\ RequestInv /\ FreshInv /\ AwaitInv /\ CloseInv /\ MutexInv
      /\ NoPanic /\ RawSubscriptionsSurvive
  BY DEF ClientInv
<1>1. ASSUME NEW c \in Conns, Reader(c) PROVE MutexInv'
  BY <1>0, Names, <1>1 DEF Reader, ReadReply, Deliver, ReadFails, DecodeFails
<1>2. ASSUME NEW p \in Procs, Disconnect(p) PROVE MutexInv'
  BY <1>0, Names, <1>2 DEF Disconnect, DisconnectLock, DisconnectCheck, DisconnectSet, DisconnectTear, DisconnectFail
<1>3. ASSUME NEW p \in Callers \cup {"opener"}, Requesting(p) PROVE MutexInv'
  BY <1>0, Names, <1>3 DEF Requesting, Request, Register, Write, WriteFails, Await
<1>4. ASSUME Subscribing PROVE MutexInv'
  <2>1. ASSUME NEW s \in Subs, Subscribe(s) PROVE MutexInv' BY <1>0, Names, <2>1 DEF Subscribe
  <2>2. ASSUME NEW t \in Turns, Notify(t) PROVE MutexInv' BY <1>0, Names, <2>2 DEF Notify
  <2>3. ASSUME NEW t \in Turns, Unsubscribe(t) PROVE MutexInv' BY <1>0, Names, <2>3 DEF Unsubscribe
  <2> QED BY <1>4, <2>1, <2>2, <2>3 DEF Subscribing
<1>5. ASSUME Opener PROVE MutexInv'
  <2>1. CASE OpenerRequest BY <1>0, Names, <2>1 DEF OpenerRequest
  <2>2. CASE OpenerAwait BY <1>0, Names, <2>2 DEF OpenerAwait
  <2>3. CASE NewClientUp BY <1>0, Names, <2>3 DEF NewClientUp
  <2>4. CASE NewClientFails BY <1>0, Names, <2>4 DEF NewClientFails
  <2>5. CASE ReconnectCall BY <1>0, Names, <2>5 DEF ReconnectCall
  <2>6. CASE ReconnectLock BY <1>0, Names, <2>6 DEF ReconnectLock
  <2>7. CASE ReconnectBegin BY <1>0, Names, <2>7 DEF ReconnectBegin
  <2>8. CASE BackoffCanceled BY <1>0, Names, <2>8 DEF BackoffCanceled
  <2>9. CASE FactoryFails
    <3>1. Reconnecting BY <1>0, <2>9 DEF FactoryFails
    <3>2. mu /\ \A p \in Procs : pc[p] \notin Section BY <1>0, <3>1
    <3>3. NextAttempt /\ ready /\ ready' BY <1>0, <2>9 DEF FactoryFails
    <3>4. \A p \in Procs : pc'[p] \notin Section BY <1>0, <3>2, <3>3, NextAttemptStep
    <3>5. pc'["opener"] = "idle" \/ (pc'["opener"] = "dial" /\ mu') BY <1>0, <3>2, <3>3, NextAttemptStep
    <3> QED BY <3>3, <3>4, <3>5, Names
  <2>10. CASE Dial BY <1>0, Names, NextConn, <2>10 DEF Dial
  <2>11. CASE AttemptFails
    <3>1. Reconnecting BY <1>0, <2>11 DEF AttemptFails
    <3>2. mu /\ \A p \in Procs : pc[p] \notin Section BY <1>0, <3>1
    <3>3. NextAttempt /\ ready /\ ready' BY <1>0, <2>11 DEF AttemptFails
    <3>4. \A p \in Procs : pc'[p] \notin Section BY <1>0, <3>2, <3>3, NextAttemptStep
    <3>5. pc'["opener"] = "idle" \/ (pc'["opener"] = "dial" /\ mu') BY <1>0, <3>2, <3>3, NextAttemptStep
    <3> QED BY <3>3, <3>4, <3>5, Names
  <2>12. CASE ReconnectUp BY <1>0, Names, <2>12 DEF ReconnectUp
  <2> QED BY <1>5, <2>1, <2>2, <2>3, <2>4, <2>5, <2>6, <2>7, <2>8, <2>9, <2>10, <2>11, <2>12 DEF Opener
<1>6. ASSUME Closer PROVE MutexInv'
  BY <1>0, Names, <1>6 DEF Closer, Close, CloseSignal, CloseSubs, CloseLast
<1> QED BY <1>1, <1>2, <1>3, <1>4, <1>5, <1>6 DEF Next

(* Only Close and a fatal error fail a raw subscription. *)
LEMMA RawNext ==
  ASSUME ClientInv, Next
  PROVE  RawSubscriptionsSurvive'
<1> USE DEF RawSubscriptionsSurvive, CloseInv, FailSubs, Subs
<1>0. TypeOK /\ LabelInv /\ RequestInv /\ FreshInv /\ AwaitInv /\ CloseInv /\ MutexInv
      /\ NoPanic /\ RawSubscriptionsSurvive
  BY DEF ClientInv
<1>1. ASSUME NEW c \in Conns, Reader(c) PROVE RawSubscriptionsSurvive'
  BY <1>0, Names, <1>1 DEF Reader, ReadReply, Deliver, ReadFails, DecodeFails
<1>2. ASSUME NEW p \in Procs, Disconnect(p) PROVE RawSubscriptionsSurvive'
  BY <1>0, Names, <1>2 DEF Disconnect, DisconnectLock, DisconnectCheck, DisconnectSet, DisconnectTear, DisconnectFail
<1>3. ASSUME NEW p \in Callers \cup {"opener"}, Requesting(p) PROVE RawSubscriptionsSurvive'
  BY <1>0, Names, <1>3 DEF Requesting, Request, Register, Write, WriteFails, Await
<1>4. ASSUME Subscribing PROVE RawSubscriptionsSurvive'
  <2>1. ASSUME NEW s \in Subs, Subscribe(s) PROVE RawSubscriptionsSurvive' BY <1>0, Names, <2>1 DEF Subscribe
  <2>2. ASSUME NEW t \in Turns, Notify(t) PROVE RawSubscriptionsSurvive' BY <1>0, Names, <2>2 DEF Notify
  <2>3. ASSUME NEW t \in Turns, Unsubscribe(t) PROVE RawSubscriptionsSurvive' BY <1>0, Names, <2>3 DEF Unsubscribe
  <2> QED BY <1>4, <2>1, <2>2, <2>3 DEF Subscribing
<1>5. ASSUME Opener PROVE RawSubscriptionsSurvive'
  BY <1>0, Names, <1>5 DEF Opener, OpenerRequest, OpenerAwait, NewClientUp, NewClientFails, ReconnectCall, ReconnectLock, ReconnectBegin, BackoffCanceled, FactoryFails, Dial, AttemptFails, ReconnectUp
<1>6. ASSUME Closer PROVE RawSubscriptionsSurvive'
  BY <1>0, Names, <1>6 DEF Closer, Close, CloseSignal, CloseSubs, CloseLast
<1> QED BY <1>1, <1>2, <1>3, <1>4, <1>5, <1>6 DEF Next

(* A step that creates no request, answers none and leaves every reader's   *)
(* entry alone; it may give up requests of its own.                         *)
RequestsLeftAlone ==
  /\ cur' = cur /\ chan' = chan /\ held' = held /\ pending' \subseteq pending
  /\ \A i \in pending' : \/ i \in Requesters /\ pc'[i] \in {"write", "wait"}
                         \/ i = Cur /\ pc'["opener"] \in {"write", "wait"}
  /\ \A c \in Conns : /\ pc'[c] = "deliver" <=> pc[c] = "deliver"
                      /\ pc[c] = "unborn" => pc'[c] = "unborn"
  /\ \A p \in Requesters :
       /\ pc'[p] \in {"idle", "register"} => pc[p] \in {"idle", "register"}
       /\ pc'[p] \in {"write", "wait"} => pc[p] \in {"write", "wait"}
       /\ pc'[p] \in {"write", "wait"} /\ p \in pending => p \in pending'
  /\ pc'["opener"] \in {"request", "register"} => chan[Cur] \in {"none", "sent"}

(* The parts of the invariant that are about requests. *)
RequestParts == RequestInv /\ FreshInv /\ AwaitInv /\ NoPanic

(* Such a step keeps them. *)
LEMMA LeftAlone ==
  ASSUME TypeOK, RequestParts, RequestsLeftAlone
  PROVE  RequestParts'
<1> USE DEF RequestsLeftAlone, RequestParts
<1>1. Cur' = Cur BY CurConn
<1>2. RequestInv'
  <2>1. ASSUME NEW i \in pending'
        PROVE  /\ chan'[i] = "waiting"
               /\ \/ i \in Requesters /\ pc'[i] \in {"write", "wait"}
                  \/ i = Cur' /\ pc'["opener"] \in {"write", "wait"}
    BY <1>1, <2>1 DEF RequestInv
  <2>2. ASSUME NEW c \in Conns
        PROVE  /\ held'[c] # "none" => held'[c] \notin pending' /\ chan'[held'[c]] = "waiting"
               /\ held'[c] # "none" <=> pc'[c] = "deliver"
    BY <2>2 DEF RequestInv
  <2>3. \A c, e \in Conns : held'[c] # "none" /\ held'[c] = held'[e] => c = e BY DEF RequestInv
  <2> QED BY <2>1, <2>2, <2>3 DEF RequestInv
<1>3. FreshInv'
  <2>1. \A k \in 1..Len(ConnOrder) : ConnOrder[k] \in Conns BY DEF Conns
  <2> QED BY <1>1, <2>1 DEF FreshInv
<1>4. AwaitInv' BY DEF AwaitInv
<1>5. NoPanic' BY DEF NoPanic
<1> QED BY <1>2, <1>3, <1>4, <1>5

(* Closing every channel of the map, as disconnect and Close do. *)
LEMMA Drained ==
  ASSUME TypeOK, RequestParts, Drain, cur' = cur, Cur' = Cur,
         \A c \in Conns : /\ pc'[c] = "deliver" <=> pc[c] = "deliver"
                          /\ pc[c] = "unborn" => pc'[c] = "unborn",
         \A p \in Requesters : \/ pc'[p] = pc[p]
                               \/ pc'[p] \notin {"idle", "register", "write", "wait"},
         pc'["opener"] \in {"request", "register"} => pc["opener"] \in {"request", "register"}
  PROVE  RequestParts'
<1> USE DEF RequestParts
<1>1. /\ pending' = {} /\ held' = held
      /\ \A i \in pending : chan'[i] = "closed"
      /\ \A i \in Ids : i \notin pending => chan'[i] = chan[i]
  BY DEF Drain, TypeOK, RequestInv
<1>2. Requesters \subseteq Ids /\ Conns \subseteq Ids BY Names
<1>3. \A k \in 1..Len(ConnOrder) : ConnOrder[k] \in Conns BY DEF Conns
<1>4. \A c \in Conns : held[c] # "none" => held[c] \in Ids BY DEF TypeOK
<1>5. Cur \in Ids BY CurConn
<1>6. \A i \in Ids : chan[i] \in {"none", "sent"} => chan'[i] = chan[i] BY <1>1 DEF RequestInv
<1>7. RequestInv'
  <2>1. ASSUME NEW c \in Conns
        PROVE  /\ held'[c] # "none" => held'[c] \notin pending' /\ chan'[held'[c]] = "waiting"
               /\ held'[c] # "none" <=> pc'[c] = "deliver"
    BY <1>1, <1>4 DEF RequestInv
  <2>2. \A c, e \in Conns : held'[c] # "none" /\ held'[c] = held'[e] => c = e BY <1>1 DEF RequestInv
  <2> QED BY <1>1, <2>1, <2>2 DEF RequestInv
<1>8. FreshInv'
  <2>1. \A p \in Requesters : pc'[p] \in {"idle", "register"} => chan'[p] = "none" BY <1>2, <1>6 DEF FreshInv
  <2>2. \A k \in 1..Len(ConnOrder) : k > cur' => chan'[ConnOrder[k]] = "none" /\ pc'[ConnOrder[k]] = "unborn"
    BY <1>2, <1>3, <1>6 DEF FreshInv
  <2>3. pc'["opener"] \in {"request", "register"} => chan'[Cur'] \in {"none", "sent"} BY <1>5, <1>6 DEF FreshInv
  <2> QED BY <2>1, <2>2, <2>3 DEF FreshInv
<1>9. AwaitInv' BY <1>1, <1>2 DEF AwaitInv
<1>10. NoPanic' BY <1>1 DEF NoPanic
<1> QED BY <1>7, <1>8, <1>9, <1>10

(* Requests. *)
LEMMA RequestNext ==
  ASSUME ClientInv, Next
  PROVE  RequestParts'
<1> USE DEF RequestInv, FreshInv, AwaitInv, TypeOK, LabelInv, Section, Disconnecting, AfterDisconnect, NextAttempt
<1>0. TypeOK /\ LabelInv /\ RequestParts /\ RequestInv /\ FreshInv /\ AwaitInv
  BY DEF ClientInv, RequestParts
<1>a. Cur \in Conns /\ IdOf("opener") = Cur /\ (\A q \in Callers : IdOf(q) = q)
  BY <1>0, CurConn
<1>1. ASSUME NEW c \in Conns, Reader(c) PROVE RequestParts'
  <2>1. ASSUME NEW i \in Ids, ReadReply(c, i) PROVE RequestParts'
    <3>1. CASE i \notin pending
      <4>1. RequestsLeftAlone BY <1>0, <1>a, Names, <2>1, <3>1 DEF RequestsLeftAlone, ReadReply
      <4> QED BY <1>0, <4>1, LeftAlone
    <3>2. CASE i \in pending
      <4>1. /\ pending' = pending \ {i} /\ held' = [held EXCEPT ![c] = i] /\ pc' = [pc EXCEPT ![c] = "deliver"]
            /\ chan' = chan /\ cur' = cur /\ pc[c] = "read"
        BY <2>1, <3>2 DEF ReadReply
      <4>2. Cur' = Cur BY <1>0, <4>1, CurConn
      <4>3. held'[c] = i /\ \A e \in Conns : e # c => held'[e] = held[e] BY <1>0, <4>1
      <4>4. \A q \in Procs : q # c => pc'[q] = pc[q] BY <1>0, <4>1
      <4>5. pc'[c] = "deliver" BY <1>0, Names, <4>1
      <4>6. i # "none" /\ \A e \in Conns : held[e] # i BY <1>0, Names, <3>2
      <4>7. RequestInv'
        <5>1. ASSUME NEW j \in pending'
              PROVE  /\ chan'[j] = "waiting"
                     /\ \/ j \in Requesters /\ pc'[j] \in {"write", "wait"}
                        \/ j = Cur' /\ pc'["opener"] \in {"write", "wait"}
          BY <1>0, Names, <4>1, <4>2, <4>4
        <5>2. ASSUME NEW e \in Conns
              PROVE  /\ held'[e] # "none" => held'[e] \notin pending' /\ chan'[held'[e]] = "waiting"
                     /\ held'[e] # "none" <=> pc'[e] = "deliver"
          BY <1>0, Names, <3>2, <4>1, <4>3, <4>4, <4>5, <4>6
        <5>3. \A e, f \in Conns : held'[e] # "none" /\ held'[e] = held'[f] => e = f
          BY <1>0, <4>3, <4>6
        <5> QED BY <5>1, <5>2, <5>3
      <4>8. FreshInv'
        <5>1. \A k \in 1..Len(ConnOrder) : ConnOrder[k] \in Conns BY DEF Conns
        <5> QED BY <1>0, Names, <4>1, <4>2, <4>4, <5>1
      <4>9. AwaitInv' BY <1>0, Names, <4>1, <4>3, <4>4, <4>6
      <4>10. NoPanic' BY <1>0, <4>1 DEF NoPanic, RequestParts
      <4> QED BY <4>7, <4>8, <4>9, <4>10 DEF RequestParts
    <3> QED BY <3>1, <3>2
  <2>2. CASE Deliver(c)
    <3> DEFINE h == held[c]
    <3>1. h \in Ids /\ chan[h] = "waiting" /\ h \notin pending /\ pc[c] = "deliver"
      BY <1>0, <2>2 DEF Deliver
    <3>2. /\ chan' = [chan EXCEPT ![h] = "sent"] /\ held' = [held EXCEPT ![c] = "none"]
          /\ pc' = [pc EXCEPT ![c] = "read"] /\ cur' = cur /\ pending' = pending
      BY <1>0, <3>1, <2>2 DEF Deliver
    <3>3. Cur' = Cur BY <1>0, <3>2, CurConn
    <3>4. held'[c] = "none" /\ \A e \in Conns : e # c => held'[e] = held[e] BY <1>0, <3>2
    <3>5. pc'[c] = "read" /\ \A q \in Procs : q # c => pc'[q] = pc[q] BY <1>0, Names, <3>2
    <3>6. chan'[h] = "sent" /\ \A i \in Ids : i # h => chan'[i] = chan[i] BY <1>0, <3>1, <3>2
    <3>7. \A e \in Conns : e # c => held[e] # h BY <1>0, <3>1, Names
    <3>8. \A i \in Ids : chan[i] = "none" => chan'[i] = "none" BY <3>1, <3>6
    <3> HIDE DEF h
    <3>9. RequestInv'
      <4>1. ASSUME NEW j \in pending'
            PROVE  /\ chan'[j] = "waiting"
                   /\ \/ j \in Requesters /\ pc'[j] \in {"write", "wait"}
                      \/ j = Cur' /\ pc'["opener"] \in {"write", "wait"}
        BY <1>0, Names, <3>1, <3>2, <3>3, <3>5, <3>6
      <4>2. ASSUME NEW e \in Conns
            PROVE  /\ held'[e] # "none" => held'[e] \notin pending' /\ chan'[held'[e]] = "waiting"
                   /\ held'[e] # "none" <=> pc'[e] = "deliver"
        BY <1>0, Names, <3>2, <3>4, <3>5, <3>6, <3>7
      <4>3. \A e, f \in Conns : held'[e] # "none" /\ held'[e] = held'[f] => e = f BY <1>0, <3>4
      <4> QED BY <4>1, <4>2, <4>3
    <3>10. FreshInv'
      <4>1. \A k \in 1..Len(ConnOrder) : ConnOrder[k] \in Conns BY DEF Conns
      <4>2. \A p \in Requesters : pc'[p] \in {"idle", "register"} => chan'[p] = "none"
        BY <1>0, Names, <3>5, <3>8
      <4>3. \A k \in 1..Len(ConnOrder) : k > cur' => chan'[ConnOrder[k]] = "none" /\ pc'[ConnOrder[k]] = "unborn"
        BY <1>0, Names, <3>1, <3>2, <3>5, <3>8, <4>1
      <4>4. pc'["opener"] \in {"request", "register"} => chan'[Cur'] \in {"none", "sent"}
        BY <1>0, <1>a, Names, <3>3, <3>5, <3>6
      <4> QED BY <4>2, <4>3, <4>4
    <3>11. AwaitInv' BY <1>0, Names, <3>2, <3>4, <3>5, <3>6 DEF h
    <3>12. NoPanic' BY <1>0, <3>6 DEF NoPanic, RequestParts
    <3> QED BY <3>9, <3>10, <3>11, <3>12 DEF RequestParts
  <2>3. ASSUME NEW terminal \in BOOLEAN, ReadFails(c, terminal) PROVE RequestParts'
    <3>1. RequestsLeftAlone BY <1>0, <1>a, Names, <2>3 DEF RequestsLeftAlone, ReadFails
    <3> QED BY <1>0, <3>1, LeftAlone
  <2>4. CASE DecodeFails(c)
    <3>1. RequestsLeftAlone BY <1>0, <1>a, Names, <2>4 DEF RequestsLeftAlone, DecodeFails
    <3> QED BY <1>0, <3>1, LeftAlone
  <2> QED BY <1>1, <2>1, <2>2, <2>3, <2>4 DEF Reader
<1>2. ASSUME NEW p \in Procs, Disconnect(p) PROVE RequestParts'
  <2>1. CASE DisconnectLock(p)
    <3>1. RequestsLeftAlone BY <1>0, <1>a, Names, <2>1 DEF RequestsLeftAlone, DisconnectLock
    <3> QED BY <1>0, <3>1, LeftAlone
  <2>2. CASE DisconnectCheck(p)
    <3>1. RequestsLeftAlone BY <1>0, <1>a, Names, <2>2 DEF RequestsLeftAlone, DisconnectCheck
    <3> QED BY <1>0, <3>1, LeftAlone
  <2>3. CASE DisconnectSet(p)
    <3>1. RequestsLeftAlone BY <1>0, <1>a, Names, <2>3 DEF RequestsLeftAlone, DisconnectSet
    <3> QED BY <1>0, <3>1, LeftAlone
  <2>4. CASE DisconnectTear(p)
    <3>1. cur' = cur /\ Drain /\ pc[p] = "tear" /\ pc' = [pc EXCEPT ![p] = "fail"] BY <2>4 DEF DisconnectTear
    <3>2. Cur' = Cur BY <1>0, <3>1, CurConn
    <3>3. \A q \in Procs : pc'[q] = pc[q] \/ (pc[q] = "tear" /\ pc'[q] = "fail") BY <1>0, <3>1
    <3> QED BY <1>0, Names, <3>1, <3>2, <3>3, Drained
  <2>5. CASE DisconnectFail(p)
    <3>1. RequestsLeftAlone BY <1>0, <1>a, Names, <2>5 DEF RequestsLeftAlone, DisconnectFail
    <3> QED BY <1>0, <3>1, LeftAlone
  <2> QED BY <1>2, <2>1, <2>2, <2>3, <2>4, <2>5 DEF Disconnect
<1>3. ASSUME NEW p \in Callers \cup {"opener"}, Requesting(p) PROVE RequestParts'
  <2>1. CASE Request(p)
    <3>1. RequestsLeftAlone BY <1>0, <1>a, Names, <2>1 DEF RequestsLeftAlone, Request
    <3> QED BY <1>0, <3>1, LeftAlone
  <2>2. CASE Register(p)
    <3> DEFINE id == IdOf(p)
    <3>1. p \in Procs /\ p \notin Conns /\ pc[p] = "register" /\ (p \in Requesters \/ p = "opener")
      BY <1>0, <1>3, Names, <2>2 DEF Register
    <3>2. id \in Ids /\ chan[id] \in {"none", "sent"} /\ (p \in Requesters => id = p) /\ (p = "opener" => id = Cur)
      BY <1>0, <1>a, Names, <3>1
    <3>3. /\ pending' = pending \cup {id} /\ chan' = [chan EXCEPT ![id] = "waiting"] /\ held' = held
          /\ pc' = [pc EXCEPT ![p] = "write"] /\ cur' = cur
      BY <2>2 DEF Register
    <3> HIDE DEF id
    <3>4. Cur' = Cur BY <1>0, <3>3, CurConn
    <3>5. pc'[p] = "write" /\ \A q \in Procs : q # p => pc'[q] = pc[q] BY <1>0, <3>1, <3>3
    <3>6. chan'[id] = "waiting" /\ \A i \in Ids : i # id => chan'[i] = chan[i] BY <1>0, <3>2, <3>3
    <3>7. \A e \in Conns : held[e] # id \/ held[e] = "none" BY <1>0, <3>2
    <3>8. RequestInv'
      <4>1. ASSUME NEW j \in pending'
            PROVE  /\ chan'[j] = "waiting"
                   /\ \/ j \in Requesters /\ pc'[j] \in {"write", "wait"}
                      \/ j = Cur' /\ pc'["opener"] \in {"write", "wait"}
        BY <1>0, Names, <3>1, <3>2, <3>3, <3>4, <3>5, <3>6
      <4>2. ASSUME NEW e \in Conns
            PROVE  /\ held'[e] # "none" => held'[e] \notin pending' /\ chan'[held'[e]] = "waiting"
                   /\ held'[e] # "none" <=> pc'[e] = "deliver"
        BY <1>0, Names, <3>1, <3>3, <3>5, <3>6, <3>7
      <4>3. \A e, f \in Conns : held'[e] # "none" /\ held'[e] = held'[f] => e = f BY <1>0, <3>3
      <4> QED BY <4>1, <4>2, <4>3
    <3>9. FreshInv'
      <4>1. \A k \in 1..Len(ConnOrder) : ConnOrder[k] \in Conns BY DEF Conns
      <4>2. \A q \in Requesters : pc'[q] \in {"idle", "register"} => chan'[q] = "none"
        BY <1>0, <1>a, Names, <3>1, <3>2, <3>5, <3>6
      <4>3. \A k \in 1..Len(ConnOrder) : k > cur => ConnOrder[k] # id
        BY <1>0, Names, <3>1, <3>2, <4>1, ConnOrderAssumption DEF Cur
      <4>4. \A k \in 1..Len(ConnOrder) : k > cur' => chan'[ConnOrder[k]] = "none" /\ pc'[ConnOrder[k]] = "unborn"
        BY <1>0, Names, <3>1, <3>3, <3>5, <3>6, <4>1, <4>3
      <4>5. pc'["opener"] \in {"request", "register"} => chan'[Cur'] \in {"none", "sent"}
        BY <1>0, <1>a, Names, <3>1, <3>2, <3>4, <3>5, <3>6
      <4> QED BY <4>2, <4>4, <4>5
    <3>10. AwaitInv' BY <1>0, Names, <3>1, <3>2, <3>3, <3>5, <3>6
    <3>11. NoPanic' BY <1>0, <3>6 DEF NoPanic, RequestParts
    <3> QED BY <3>8, <3>9, <3>10, <3>11 DEF RequestParts
  <2>3. CASE Write(p)
    <3>1. RequestsLeftAlone BY <1>0, <1>a, Names, <2>3 DEF RequestsLeftAlone, Write
    <3> QED BY <1>0, <3>1, LeftAlone
  <2>4. CASE WriteFails(p)
    <3>1. RequestsLeftAlone BY <1>0, <1>a, Names, <2>4 DEF RequestsLeftAlone, WriteFails
    <3> QED BY <1>0, <3>1, LeftAlone
  <2>5. CASE Await(p)
    <3>1. RequestsLeftAlone BY <1>0, <1>a, Names, <2>5 DEF RequestsLeftAlone, Await, Replied, GaveUp
    <3> QED BY <1>0, <3>1, LeftAlone
  <2> QED BY <1>3, <2>1, <2>2, <2>3, <2>4, <2>5 DEF Requesting
<1>4. ASSUME Subscribing PROVE RequestParts'
  <2>1. ASSUME NEW s \in Subs, Subscribe(s) PROVE RequestParts'
    <3>1. RequestsLeftAlone BY <1>0, <1>a, Names, <2>1 DEF RequestsLeftAlone, Subscribe
    <3> QED BY <1>0, <3>1, LeftAlone
  <2>2. ASSUME NEW t \in Turns, Notify(t) PROVE RequestParts'
    <3>1. RequestsLeftAlone BY <1>0, <1>a, Names, <2>2 DEF RequestsLeftAlone, Notify
    <3> QED BY <1>0, <3>1, LeftAlone
  <2>3. ASSUME NEW t \in Turns, Unsubscribe(t) PROVE RequestParts'
    <3>1. RequestsLeftAlone BY <1>0, <1>a, Names, <2>3 DEF RequestsLeftAlone, Unsubscribe
    <3> QED BY <1>0, <3>1, LeftAlone
  <2> QED BY <1>4, <2>1, <2>2, <2>3 DEF Subscribing
<1>5. ASSUME Opener PROVE RequestParts'
  <2>1. CASE OpenerRequest
    <3>1. RequestsLeftAlone BY <1>0, <1>a, Names, <2>1 DEF RequestsLeftAlone, OpenerRequest
    <3> QED BY <1>0, <3>1, LeftAlone
  <2>2. CASE OpenerAwait
    <3>1. RequestsLeftAlone BY <1>0, <1>a, Names, <2>2 DEF RequestsLeftAlone, OpenerAwait, Replied, GaveUp
    <3> QED BY <1>0, <3>1, LeftAlone
  <2>3. CASE NewClientUp
    <3>1. RequestsLeftAlone BY <1>0, <1>a, Names, <2>3 DEF RequestsLeftAlone, NewClientUp
    <3> QED BY <1>0, <3>1, LeftAlone
  <2>4. CASE NewClientFails
    <3>1. RequestsLeftAlone BY <1>0, <1>a, Names, <2>4 DEF RequestsLeftAlone, NewClientFails
    <3> QED BY <1>0, <3>1, LeftAlone
  <2>5. CASE ReconnectCall
    <3>1. RequestsLeftAlone BY <1>0, <1>a, Names, <2>5 DEF RequestsLeftAlone, ReconnectCall
    <3> QED BY <1>0, <3>1, LeftAlone
  <2>6. CASE ReconnectLock
    <3>1. RequestsLeftAlone BY <1>0, <1>a, Names, <2>6 DEF RequestsLeftAlone, ReconnectLock
    <3> QED BY <1>0, <3>1, LeftAlone
  <2>7. CASE ReconnectBegin
    <3>1. RequestsLeftAlone BY <1>0, <1>a, Names, <2>7 DEF RequestsLeftAlone, ReconnectBegin
    <3> QED BY <1>0, <3>1, LeftAlone
  <2>8. CASE BackoffCanceled
    <3>1. RequestsLeftAlone BY <1>0, <1>a, Names, <2>8 DEF RequestsLeftAlone, BackoffCanceled
    <3> QED BY <1>0, <3>1, LeftAlone
  <2>9. CASE FactoryFails
    <3>1. RequestsLeftAlone BY <1>0, <1>a, Names, <2>9 DEF RequestsLeftAlone, FactoryFails
    <3> QED BY <1>0, <3>1, LeftAlone
  <2>10. CASE Dial
    <3> DEFINE new == ConnOrder[cur + 1]
    <3>1. cur < Len(ConnOrder) /\ pc["opener"] = "dial" BY <2>10 DEF Dial
    <3>2. cur + 1 \in 1..Len(ConnOrder) /\ new \in Conns /\ cur + 1 > cur BY <1>0, <3>1, NextConn
    <3>3. /\ cur' = cur + 1 /\ pc' = [pc EXCEPT !["opener"] = "request", ![new] = "read"]
          /\ pending' = pending /\ chan' = chan /\ held' = held
      BY <2>10 DEF Dial
    <3>4. Cur' = new BY <3>3 DEF Cur
    <3>5. chan[new] = "none" /\ pc[new] = "unborn" BY <1>0, <3>2
    <3> HIDE DEF new
    <3>6. /\ pc'["opener"] = "request" /\ pc'[new] = "read"
          /\ \A q \in Procs : q # "opener" /\ q # new => pc'[q] = pc[q]
      BY <1>0, Names, <3>2, <3>3
    <3>7. \A i \in pending : i \in Requesters /\ pc[i] \in {"write", "wait"} BY <1>0, <3>1
    <3>8. RequestInv' BY <1>0, Names, <3>2, <3>3, <3>5, <3>6, <3>7
    <3>9. FreshInv'
      <4>1. \A k \in 1..Len(ConnOrder) : k > cur' => ConnOrder[k] \in Conns /\ ConnOrder[k] # new /\ k > cur
        BY <1>0, <3>2, <3>3, ConnOrderAssumption DEF Conns, new
      <4>2. \A k \in 1..Len(ConnOrder) : k > cur' => chan'[ConnOrder[k]] = "none" /\ pc'[ConnOrder[k]] = "unborn"
        BY <1>0, Names, <3>3, <3>6, <4>1
      <4>3. \A q \in Requesters : pc'[q] \in {"idle", "register"} => chan'[q] = "none"
        BY <1>0, Names, <3>2, <3>3, <3>6
      <4>4. chan'[Cur'] \in {"none", "sent"} BY <3>3, <3>4, <3>5
      <4> QED BY <4>2, <4>3, <4>4
    <3>10. AwaitInv' BY <1>0, Names, <3>2, <3>3, <3>6
    <3>11. NoPanic' BY <1>0, <3>3 DEF NoPanic, RequestParts
    <3> QED BY <3>8, <3>9, <3>10, <3>11 DEF RequestParts
  <2>11. CASE AttemptFails
    <3>1. RequestsLeftAlone BY <1>0, <1>a, Names, <2>11 DEF RequestsLeftAlone, AttemptFails
    <3> QED BY <1>0, <3>1, LeftAlone
  <2>12. CASE ReconnectUp
    <3>1. RequestsLeftAlone BY <1>0, <1>a, Names, <2>12 DEF RequestsLeftAlone, ReconnectUp
    <3> QED BY <1>0, <3>1, LeftAlone
  <2> QED BY <1>5, <2>1, <2>2, <2>3, <2>4, <2>5, <2>6, <2>7, <2>8, <2>9, <2>10, <2>11, <2>12 DEF Opener
<1>6. ASSUME Closer PROVE RequestParts'
  <2>1. CASE Close
    <3>1. RequestsLeftAlone BY <1>0, <1>a, Names, <2>1 DEF RequestsLeftAlone, Close
    <3> QED BY <1>0, <3>1, LeftAlone
  <2>2. CASE CloseSignal
    <3>1. cur' = cur /\ Drain /\ pc' = [pc EXCEPT !["closer"] = "subs"] BY <2>2 DEF CloseSignal
    <3>2. Cur' = Cur BY <1>0, <3>1, CurConn
    <3>3. \A q \in Procs : q # "closer" => pc'[q] = pc[q] BY <1>0, <3>1
    <3> QED BY <1>0, Names, <3>1, <3>2, <3>3, Drained
  <2>3. CASE CloseSubs
    <3>1. RequestsLeftAlone BY <1>0, <1>a, Names, <2>3 DEF RequestsLeftAlone, CloseSubs
    <3> QED BY <1>0, <3>1, LeftAlone
  <2>4. CASE CloseLast
    <3>1. RequestsLeftAlone BY <1>0, <1>a, Names, <2>4 DEF RequestsLeftAlone, CloseLast
    <3> QED BY <1>0, <3>1, LeftAlone
  <2> QED BY <1>6, <2>1, <2>2, <2>3, <2>4 DEF Closer
<1> QED BY <1>1, <1>2, <1>3, <1>4, <1>5, <1>6 DEF Next

(* The variables of a client that does nothing. *)
LEMMA ClientStutter ==
  ASSUME ClientInv, UNCHANGED vars
  PROVE  ClientInv'
<1>1. TypeOK' BY DEF ClientInv, vars, TypeOK
<1>2. LabelInv' BY DEF ClientInv, vars, LabelInv
<1>3. RequestParts'
  <2>1. Cur' = Cur BY CurConn DEF vars, ClientInv
  <2> QED BY <2>1 DEF ClientInv, vars, RequestParts, RequestInv, FreshInv, AwaitInv, NoPanic
<1>4. CloseInv' BY DEF ClientInv, vars, CloseInv
<1>5. MutexInv' BY DEF ClientInv, vars, MutexInv, Reconnecting
<1>6. RawSubscriptionsSurvive' BY DEF ClientInv, vars, RawSubscriptionsSurvive
<1> QED BY <1>1, <1>2, <1>3, <1>4, <1>5, <1>6 DEF ClientInv, RequestParts

(* NewClient starts in it. *)
LEMMA ClientInit ==
  ASSUME Init
  PROVE  ClientInv
<1> USE DEF Init
<1>1. TypeOK
  <2>1. Len(ConnOrder) \in Nat \ {0} /\ 1 \in 1..Len(ConnOrder) BY ConnOrderAssumption
  <2>2. ConnOrder[1] \in Conns BY <2>1 DEF Conns
  <2>3. attempt \in 0..MaxAttempts BY MaxAttemptsAssumption
  <2>4. sent \in [Turns -> 0..Len(ConnOrder)] BY <2>1
  <2>5. pc \in [Procs -> Labels] BY DEF Labels
  <2> QED BY <2>1, <2>2, <2>3, <2>4, <2>5 DEF TypeOK, States
<1>2. /\ \A c \in Conns : pc[c] \in {"read", "unborn"}
      /\ \A p \in Callers : pc[p] = "idle"
      /\ pc["opener"] = "request" /\ pc["closer"] = "idle"
  <2>1. Len(ConnOrder) \in Nat \ {0} /\ 1 \in 1..Len(ConnOrder) BY ConnOrderAssumption
  <2>2. ConnOrder[1] \in Conns BY <2>1 DEF Conns
  <2> QED BY <2>2, Names
<1>3. LabelInv BY <1>2, Names DEF LabelInv
<1>4. RequestInv BY <1>2, Names DEF RequestInv
<1>5. FreshInv
  <2>1. \A k \in 1..Len(ConnOrder) : k > cur => ConnOrder[k] \in Conns /\ ConnOrder[k] # ConnOrder[1]
    BY ConnOrderAssumption DEF Conns
  <2>2. \A k \in 1..Len(ConnOrder) : k > cur => chan[ConnOrder[k]] = "none" /\ pc[ConnOrder[k]] = "unborn"
    BY <2>1, Names
  <2>3. Cur \in Ids BY <1>1, CurConn
  <2> QED BY <2>2, <2>3, Names DEF FreshInv
<1>6. AwaitInv BY <1>2, Names DEF AwaitInv
<1>7. CloseInv BY <1>2 DEF CloseInv
<1>8. MutexInv
  <2>1. \A p \in Procs : pc[p] \notin Section BY <1>2 DEF Procs, Section
  <2> QED BY <1>2, <2>1, Names DEF MutexInv, Reconnecting
<1>9. NoPanic BY DEF NoPanic
<1>10. RawSubscriptionsSurvive BY DEF RawSubscriptionsSurvive, Subs
<1> QED BY <1>1, <1>3, <1>4, <1>5, <1>6, <1>7, <1>8, <1>9, <1>10 DEF ClientInv

-----------------------------------------------------------------------------
(* However Reconnect is called *)

(* ClientInv is an invariant. *)
THEOREM ClientInvInvariant == Spec => []ClientInv
<1>1. ClientInv /\ [Next]_vars => ClientInv'
  <2> SUFFICES ASSUME ClientInv, [Next]_vars PROVE ClientInv' OBVIOUS
  <2>1. CASE Next
    <3>1. TypeOK' /\ LabelInv' /\ RequestParts' /\ CloseInv' /\ MutexInv' /\ RawSubscriptionsSurvive'
      BY <2>1, TypeNext, LabelNext, RequestNext, CloseNext, MutexNext, RawNext
    <3> QED BY <3>1 DEF ClientInv, RequestParts
  <2>2. CASE UNCHANGED vars BY <2>2, ClientStutter
  <2> QED BY <2>1, <2>2
<1> QED BY <1>1, ClientInit, PTL DEF Spec

(* Every variable of Client stays in its domain; the loop of Reconnect      *)
(* never counts past MaxAttempts.                                           *)
THEOREM ClientTypes == Spec => []TypeOK
<1>1. ClientInv => TypeOK BY DEF ClientInv
<1> QED BY <1>1, ClientInvInvariant, PTL

(* The readers, disconnect and Close never send on or close a reply channel *)
(* that another of them has closed or used.                                 *)
THEOREM ReplyChannelsSafe == Spec => []NoPanic
<1>1. ClientInv => NoPanic BY DEF ClientInv
<1> QED BY <1>1, ClientInvInvariant, PTL

(* Every return of Request has removed its entry from pending. *)
THEOREM PendingIsCleaned == Spec => []NoOrphanRequest
<1>1. ClientInv => NoOrphanRequest
  <2> SUFFICES ASSUME ClientInv, NEW p \in Requesters, p \in pending
               PROVE  pc[p] \notin {"lock", "check", "set", "tear", "fail", "done"}
    BY DEF NoOrphanRequest
  <2>1. Cur # p BY CurConn, Names DEF ClientInv
  <2> QED BY <2>1 DEF ClientInv, RequestInv
<1> QED BY <1>1, ClientInvInvariant, PTL

(* A Subscribe that races with Close is refused or failed by it. *)
THEOREM CloseFailsAll == Spec => []CloseIsComplete
<1>1. ClientInv => CloseIsComplete BY DEF ClientInv, CloseInv, CloseIsComplete
<1> QED BY <1>1, ClientInvInvariant, PTL

(* No ordinary disconnect and no Reconnect fails a raw subscription. *)
THEOREM RawStreamsSurvive == Spec => []RawSubscriptionsSurvive
<1>1. ClientInv => RawSubscriptionsSurvive BY DEF ClientInv
<1> QED BY <1>1, ClientInvInvariant, PTL

-----------------------------------------------------------------------------
(* When Reconnect is never called *)

(* A lost connection. *)
LEMMA LossNext ==
  ASSUME ClientInv, LossInv, ReconnectFrom = {}, Next
  PROVE  LossInv'
<1> USE DEF LossInv, Tearing, TypeOK, LabelInv, Section, Disconnecting, MutexInv
<1>0. TypeOK /\ LabelInv /\ MutexInv /\ RequestInv BY DEF ClientInv
<1>a. Cur \in Conns /\ (cur' = cur => Cur' = Cur) /\ IdOf("opener") = Cur /\ (\A q \in Callers : IdOf(q) = q)
  BY <1>0, CurConn
<1>1. ASSUME NEW c \in Conns, Reader(c) PROVE LossInv'
  <2>1. ASSUME NEW i \in Ids, ReadReply(c, i) PROVE LossInv' BY <1>0, <1>a, Names, <2>1 DEF ReadReply
  <2>2. CASE Deliver(c) BY <1>0, <1>a, Names, <2>2 DEF Deliver
  <2>3. ASSUME NEW terminal \in BOOLEAN, ReadFails(c, terminal) PROVE LossInv' BY <1>0, <1>a, Names, <2>3 DEF ReadFails
  <2>4. CASE DecodeFails(c) BY <1>0, <1>a, Names, <2>4 DEF DecodeFails
  <2> QED BY <1>1, <2>1, <2>2, <2>3, <2>4 DEF Reader
<1>2. ASSUME NEW p \in Procs, Disconnect(p) PROVE LossInv'
  <2>1. CASE DisconnectLock(p)
    BY <1>0, <1>a, Names, <2>1 DEF DisconnectLock, AfterDisconnect
  <2>2. CASE DisconnectCheck(p)
    BY <1>0, <1>a, Names, <2>2 DEF DisconnectCheck, AfterDisconnect
  <2>3. CASE DisconnectSet(p) BY <1>0, <1>a, Names, <2>3 DEF DisconnectSet
  <2>4. CASE DisconnectTear(p)
    <3>1. pending' = {} /\ open' = open \ {Cur} /\ state' = state /\ cur' = cur /\ ready' = ready
      BY <2>4 DEF DisconnectTear, Drain
    <3>2. pc' = [pc EXCEPT ![p] = "fail"] BY <2>4 DEF DisconnectTear
    <3>3. ready => pc'["opener"] = "idle" BY <1>0, <3>2, <2>4 DEF DisconnectTear
    <3> QED BY <1>a, <3>1, <3>3
  <2>5. CASE DisconnectFail(p)
    BY <1>0, <1>a, Names, <2>5 DEF DisconnectFail, AfterDisconnect
  <2> QED BY <1>2, <2>1, <2>2, <2>3, <2>4, <2>5 DEF Disconnect
<1>3. ASSUME NEW p \in Callers \cup {"opener"}, Requesting(p) PROVE LossInv'
  <2>1. CASE Request(p) BY <1>0, <1>a, Names, <2>1 DEF Request
  <2>2. CASE Register(p) BY <1>0, <1>a, Names, <2>2 DEF Register
  <2>3. CASE Write(p) BY <1>0, <1>a, Names, <2>3 DEF Write
  <2>4. CASE WriteFails(p) BY <1>0, <1>a, Names, <2>4 DEF WriteFails
  <2>5. CASE Await(p)
    BY <1>0, <1>a, Names, <2>5 DEF Await, Replied, GaveUp
  <2> QED BY <1>3, <2>1, <2>2, <2>3, <2>4, <2>5 DEF Requesting
<1>4. ASSUME Subscribing PROVE LossInv'
  <2>1. ASSUME NEW s \in Subs, Subscribe(s) PROVE LossInv' BY <1>0, <1>a, Names, <2>1 DEF Subscribe
  <2>2. ASSUME NEW t \in Turns, Notify(t) PROVE LossInv' BY <1>0, <1>a, Names, <2>2 DEF Notify
  <2>3. ASSUME NEW t \in Turns, Unsubscribe(t) PROVE LossInv' BY <1>0, <1>a, Names, <2>3 DEF Unsubscribe
  <2> QED BY <1>4, <2>1, <2>2, <2>3 DEF Subscribing
<1>5. ASSUME Opener PROVE LossInv'
  <2>1. CASE OpenerRequest BY <1>0, <1>a, Names, <2>1 DEF OpenerRequest
  <2>2. CASE OpenerAwait
    BY <1>0, <1>a, Names, <2>2 DEF OpenerAwait, Replied, GaveUp
  <2>3. CASE NewClientUp BY <1>0, <1>a, Names, <2>3 DEF NewClientUp
  <2>4. CASE NewClientFails BY <1>0, <1>a, Names, <2>4 DEF NewClientFails
  <2>5. CASE ReconnectCall BY <1>0, <1>a, Names, <2>5 DEF ReconnectCall
  <2>6. CASE ReconnectLock BY <1>0, <1>a, Names, <2>6 DEF ReconnectLock
  <2>7. CASE ReconnectBegin BY <1>0, <1>a, Names, <2>7 DEF ReconnectBegin
  <2>8. CASE BackoffCanceled BY <1>0, <1>a, Names, <2>8 DEF BackoffCanceled
  <2>9. CASE FactoryFails BY <1>0, <1>a, Names, <2>9 DEF FactoryFails
  <2>10. CASE Dial BY <1>0, <1>a, Names, NextConn, <2>10 DEF Dial
  <2>11. CASE AttemptFails BY <1>0, <1>a, Names, <2>11 DEF AttemptFails
  <2>12. CASE ReconnectUp BY <1>0, <1>a, Names, <2>12 DEF ReconnectUp
  <2> QED BY <1>5, <2>1, <2>2, <2>3, <2>4, <2>5, <2>6, <2>7, <2>8, <2>9, <2>10, <2>11, <2>12 DEF Opener
<1>6. ASSUME Closer PROVE LossInv'
  <2>1. CASE Close BY <1>0, <1>a, Names, <2>1 DEF Close
  <2>2. CASE CloseSignal
    <3>1. pending' = {} /\ open' = open \ {Cur} /\ state' = state /\ cur' = cur /\ ready' = ready
      BY <2>2 DEF CloseSignal, Drain
    <3>2. pc'["opener"] = pc["opener"] BY <1>0, Names, <2>2 DEF CloseSignal
    <3> QED BY <1>a, <3>1, <3>2
  <2>3. CASE CloseSubs BY <1>0, <1>a, Names, <2>3 DEF CloseSubs
  <2>4. CASE CloseLast BY <1>0, <1>a, Names, <2>4 DEF CloseLast
  <2> QED BY <1>6, <2>1, <2>2, <2>3, <2>4 DEF Closer
<1> QED BY <1>1, <1>2, <1>3, <1>4, <1>5, <1>6 DEF Next

(* LossInv is an invariant of a client that is never reconnected. *)
THEOREM LossInvInvariant ==
  ASSUME ReconnectFrom = {}
  PROVE  Spec => []LossInv
<1>1. Init => LossInv
  <2> SUFFICES ASSUME Init PROVE LossInv OBVIOUS
  <2>1. ConnOrder[1] \in Conns BY ClientInit, CurConn DEF ClientInv, Init, Cur
  <2>2. \A p \in Requesters : pc[p] = "idle" BY <2>1, Names DEF Init
  <2> QED BY <2>2 DEF Init, LossInv
<1>2. ClientInv /\ LossInv /\ [Next]_vars => LossInv'
  <2> SUFFICES ASSUME ClientInv, LossInv, [Next]_vars PROVE LossInv' OBVIOUS
  <2>1. CASE Next BY <2>1, LossNext
  <2>2. CASE UNCHANGED vars
    <3>1. Cur' = Cur BY <2>2, CurConn DEF vars, ClientInv
    <3> QED BY <2>2, <3>1 DEF vars, LossInv, Tearing
  <2> QED BY <2>1, <2>2
<1> QED BY <1>1, <1>2, ClientInvInvariant, PTL DEF Spec

(* A request that was written before its connection was lost is not left    *)
(* waiting: disconnect has closed its channel, or a reader is answering it, *)
(* when the mutex is free again.                                            *)
THEOREM LossReleasesRequests ==
  ASSUME ReconnectFrom = {}
  PROVE  Spec => []RequestsReleased
<1>1. ClientInv /\ LossInv => RequestsReleased
  <2> SUFFICES ASSUME ClientInv, LossInv, state = "disconnected", ~mu,
                      NEW p \in Requesters, pc[p] = "wait"
               PROVE  chan[p] # "waiting" \/ \E c \in Conns : held[c] = p
    BY DEF RequestsReleased
  <2>1. ~Tearing BY DEF ClientInv, MutexInv, Tearing, Section
  <2>2. p \notin pending BY <2>1 DEF LossInv
  <2> QED BY <2>2 DEF ClientInv, AwaitInv
<1> QED BY <1>1, ClientInvInvariant, LossInvInvariant, PTL

-----------------------------------------------------------------------------
(* When Reconnect is called on a lost connection only *)

(* Connections. *)
LEMMA ConnNext ==
  ASSUME ClientInv, ConnInv, ReconnectFrom \subseteq {"disconnected"}, Next
  PROVE  ConnInv'
<1> USE DEF ConnInv, Tearing, Replacing, Reconnecting, TypeOK, LabelInv, Section, Disconnecting, MutexInv, CloseInv, AfterDisconnect
<1>0. TypeOK /\ LabelInv /\ MutexInv /\ CloseInv BY DEF ClientInv
<1>a. Cur \in Conns /\ (cur' = cur => Cur' = Cur)
  BY <1>0, CurConn
<1>1. ASSUME NEW c \in Conns, Reader(c) PROVE ConnInv'
  <2>1. ASSUME NEW i \in Ids, ReadReply(c, i) PROVE ConnInv' BY <1>0, <1>a, Names, <2>1 DEF ReadReply
  <2>2. CASE Deliver(c) BY <1>0, <1>a, Names, <2>2 DEF Deliver
  <2>3. ASSUME NEW terminal \in BOOLEAN, ReadFails(c, terminal) PROVE ConnInv' BY <1>0, <1>a, Names, <2>3 DEF ReadFails
  <2>4. CASE DecodeFails(c) BY <1>0, <1>a, Names, <2>4 DEF DecodeFails
  <2> QED BY <1>1, <2>1, <2>2, <2>3, <2>4 DEF Reader
<1>2. ASSUME NEW p \in Procs, Disconnect(p) PROVE ConnInv'
  <2>1. CASE DisconnectLock(p) BY <1>0, <1>a, Names, <2>1 DEF DisconnectLock
  <2>2. CASE DisconnectCheck(p) BY <1>0, <1>a, Names, <2>2 DEF DisconnectCheck
  <2>3. CASE DisconnectSet(p) BY <1>0, <1>a, Names, <2>3 DEF DisconnectSet
  <2>4. CASE DisconnectTear(p) BY <1>0, <1>a, Names, <2>4 DEF DisconnectTear
  <2>5. CASE DisconnectFail(p) BY <1>0, <1>a, Names, <2>5 DEF DisconnectFail
  <2> QED BY <1>2, <2>1, <2>2, <2>3, <2>4, <2>5 DEF Disconnect
<1>3. ASSUME NEW p \in Callers \cup {"opener"}, Requesting(p) PROVE ConnInv'
  <2>1. CASE Request(p) BY <1>0, <1>a, Names, <2>1 DEF Request
  <2>2. CASE Register(p) BY <1>0, <1>a, Names, <2>2 DEF Register
  <2>3. CASE Write(p) BY <1>0, <1>a, Names, <2>3 DEF Write
  <2>4. CASE WriteFails(p) BY <1>0, <1>a, Names, <2>4 DEF WriteFails
  <2>5. CASE Await(p) BY <1>0, <1>a, Names, <2>5 DEF Await
  <2> QED BY <1>3, <2>1, <2>2, <2>3, <2>4, <2>5 DEF Requesting
<1>4. ASSUME Subscribing PROVE ConnInv'
  <2>1. ASSUME NEW s \in Subs, Subscribe(s) PROVE ConnInv' BY <1>0, <1>a, Names, <2>1 DEF Subscribe
  <2>2. ASSUME NEW t \in Turns, Notify(t) PROVE ConnInv' BY <1>0, <1>a, Names, <2>2 DEF Notify
  <2>3. ASSUME NEW t \in Turns, Unsubscribe(t) PROVE ConnInv' BY <1>0, <1>a, Names, <2>3 DEF Unsubscribe
  <2> QED BY <1>4, <2>1, <2>2, <2>3 DEF Subscribing
<1>5. ASSUME Opener PROVE ConnInv'
  <2>1. CASE OpenerRequest BY <1>0, <1>a, Names, <2>1 DEF OpenerRequest
  <2>2. CASE OpenerAwait BY <1>0, <1>a, Names, <2>2 DEF OpenerAwait
  <2>3. CASE NewClientUp BY <1>0, <1>a, Names, <2>3 DEF NewClientUp
  <2>4. CASE NewClientFails BY <1>0, <1>a, Names, <2>4 DEF NewClientFails
  <2>5. CASE ReconnectCall BY <1>0, <1>a, Names, <2>5 DEF ReconnectCall
  <2>6. CASE ReconnectLock BY <1>0, <1>a, Names, <2>6 DEF ReconnectLock
  <2>7. CASE ReconnectBegin BY <1>0, <1>a, Names, <2>7 DEF ReconnectBegin
  <2>8. CASE BackoffCanceled BY <1>0, <1>a, Names, <2>8 DEF BackoffCanceled
  <2>9. CASE FactoryFails BY <1>0, <1>a, Names, <2>9 DEF FactoryFails
  <2>10. CASE Dial
    <3> DEFINE new == ConnOrder[cur + 1]
    <3>1. Cur' = new /\ new \in Conns BY <1>0, NextConn, <2>10 DEF Dial, Cur
    <3>2. ready /\ Cur \notin open /\ pc["opener"] = "dial" BY <1>0, <2>10 DEF Dial
    <3>3. open' = {new} /\ state' = "connecting" /\ ready' = ready BY <3>2, <2>10 DEF Dial
    <3> HIDE DEF new
    <3>4. pc'["opener"] = "request" BY <1>0, Names, <3>1, <2>10 DEF Dial, new
    <3> QED BY <3>1, <3>2, <3>3, <3>4
  <2>11. CASE AttemptFails BY <1>0, <1>a, Names, <2>11 DEF AttemptFails
  <2>12. CASE ReconnectUp BY <1>0, <1>a, Names, <2>12 DEF ReconnectUp
  <2> QED BY <1>5, <2>1, <2>2, <2>3, <2>4, <2>5, <2>6, <2>7, <2>8, <2>9, <2>10, <2>11, <2>12 DEF Opener
<1>6. ASSUME Closer PROVE ConnInv'
  <2>1. CASE Close BY <1>0, <1>a, Names, <2>1 DEF Close
  <2>2. CASE CloseSignal BY <1>0, <1>a, Names, <2>2 DEF CloseSignal
  <2>3. CASE CloseSubs BY <1>0, <1>a, Names, <2>3 DEF CloseSubs
  <2>4. CASE CloseLast BY <1>0, <1>a, Names, <2>4 DEF CloseLast
  <2> QED BY <1>6, <2>1, <2>2, <2>3, <2>4 DEF Closer
<1> QED BY <1>1, <1>2, <1>3, <1>4, <1>5, <1>6 DEF Next

(* Turns. *)
LEMMA TurnNext ==
  ASSUME ClientInv, ConnInv, TurnInv, ReconnectFrom \subseteq {"disconnected"}, Next
  PROVE  TurnInv'
<1> USE DEF TurnInv, Passed, Failing, Replacing, Reconnecting, TypeOK, LabelInv, Section, Disconnecting, MutexInv, AfterDisconnect, FailSubs
<1>0. TypeOK /\ LabelInv /\ MutexInv /\ CloseInv BY DEF ClientInv
<1>a. Cur \in Conns /\ (cur' = cur => Cur' = Cur)
  BY <1>0, CurConn
<1>1. ASSUME NEW c \in Conns, Reader(c) PROVE TurnInv'
  <2>1. ASSUME NEW i \in Ids, ReadReply(c, i) PROVE TurnInv' BY <1>0, <1>a, Names, <2>1 DEF ReadReply
  <2>2. CASE Deliver(c) BY <1>0, <1>a, Names, <2>2 DEF Deliver
  <2>3. ASSUME NEW terminal \in BOOLEAN, ReadFails(c, terminal) PROVE TurnInv' BY <1>0, <1>a, Names, <2>3 DEF ReadFails
  <2>4. CASE DecodeFails(c) BY <1>0, <1>a, Names, <2>4 DEF DecodeFails
  <2> QED BY <1>1, <2>1, <2>2, <2>3, <2>4 DEF Reader
<1>2. ASSUME NEW p \in Procs, Disconnect(p) PROVE TurnInv'
  <2>1. CASE DisconnectLock(p) BY <1>0, <1>a, Names, <2>1 DEF DisconnectLock
  <2>2. CASE DisconnectCheck(p) BY <1>0, <1>a, Names, <2>2 DEF DisconnectCheck
  <2>3. CASE DisconnectSet(p) BY <1>0, <1>a, Names, <2>3 DEF DisconnectSet
  <2>4. CASE DisconnectTear(p) BY <1>0, <1>a, Names, <2>4 DEF DisconnectTear
  <2>5. CASE DisconnectFail(p)
    <3>1. \A t \in Turns : sub'[t] # "open" /\ (sub'[t] = "none" => sub[t] = "none") /\ t \in Subs
      BY <1>0, <2>5 DEF DisconnectFail, Subs
    <3>2. sent' = sent /\ \A q \in Procs : pc[q] = "idle" => pc'[q] = "idle" BY <1>0, <2>5 DEF DisconnectFail
    <3> QED BY Names, <3>1, <3>2
  <2> QED BY <1>2, <2>1, <2>2, <2>3, <2>4, <2>5 DEF Disconnect
<1>3. ASSUME NEW p \in Callers \cup {"opener"}, Requesting(p) PROVE TurnInv'
  <2>1. CASE Request(p) BY <1>0, <1>a, Names, <2>1 DEF Request
  <2>2. CASE Register(p) BY <1>0, <1>a, Names, <2>2 DEF Register
  <2>3. CASE Write(p) BY <1>0, <1>a, Names, <2>3 DEF Write
  <2>4. CASE WriteFails(p) BY <1>0, <1>a, Names, <2>4 DEF WriteFails
  <2>5. CASE Await(p) BY <1>0, <1>a, Names, <2>5 DEF Await
  <2> QED BY <1>3, <2>1, <2>2, <2>3, <2>4, <2>5 DEF Requesting
<1>4. ASSUME Subscribing PROVE TurnInv'
  <2>1. ASSUME NEW s \in Subs, Subscribe(s) PROVE TurnInv' BY <1>0, <1>a, Names, <2>1 DEF Subscribe
  <2>2. ASSUME NEW t \in Turns, Notify(t) PROVE TurnInv'
    <3>1. sub' = sub /\ sent' = sent /\ cur' = cur /\ state' = state /\ ready' = ready /\ pc[t] = "notify"
      BY <2>2 DEF Notify
    <3>2. pc'[t] \in {"write", "unsubscribe"} /\ \A q \in Procs : q # t => pc'[q] = pc[q]
      BY <1>0, Names, <2>2 DEF Notify
    <3>3. pc'[t] = "write" => state = "connected" BY <1>0, Names, <2>2 DEF Notify
    <3>4. Failing => Failing' BY <3>1, <3>2
    <3>5. Replacing' = Replacing BY Names, <3>1, <3>2
    <3>6. state = "connected" => ~Replacing BY DEF ConnInv
    <3> HIDE DEF Failing, Replacing
    <3> QED BY Names, <3>1, <3>2, <3>3, <3>4, <3>5, <3>6
  <2>3. ASSUME NEW t \in Turns, Unsubscribe(t) PROVE TurnInv'
    <3>1. sent' = sent /\ cur' = cur /\ state' = state /\ ready' = ready /\ pc[t] \in {"unsubscribe", "live"}
      BY <2>3 DEF Unsubscribe
    <3>2. pc'[t] = "done" /\ \A q \in Procs : q # t => pc'[q] = pc[q] BY <1>0, Names, <2>3 DEF Unsubscribe
    <3>3. sub'[t] # "open" /\ (sub'[t] = "none" => sub[t] = "none") /\ \A s \in Turns : s # t => sub'[s] = sub[s]
      BY <1>0, <2>3 DEF Unsubscribe, Subs
    <3>4. Failing => Failing' BY <3>1, <3>2
    <3>5. Replacing' = Replacing BY Names, <3>1, <3>2
    <3> HIDE DEF Failing, Replacing
    <3> QED BY Names, <3>1, <3>2, <3>3, <3>4, <3>5
  <2> QED BY <1>4, <2>1, <2>2, <2>3 DEF Subscribing
<1>5. ASSUME Opener PROVE TurnInv'
  <2>1. CASE OpenerRequest BY <1>0, <1>a, Names, <2>1 DEF OpenerRequest
  <2>2. CASE OpenerAwait BY <1>0, <1>a, Names, <2>2 DEF OpenerAwait
  <2>3. CASE NewClientUp BY <1>0, <1>a, Names, <2>3 DEF NewClientUp
  <2>4. CASE NewClientFails BY <1>0, <1>a, Names, <2>4 DEF NewClientFails
  <2>5. CASE ReconnectCall BY <1>0, <1>a, Names, <2>5 DEF ReconnectCall
  <2>6. CASE ReconnectLock BY <1>0, <1>a, Names, <2>6 DEF ReconnectLock
  <2>7. CASE ReconnectBegin BY <1>0, <1>a, Names, <2>7 DEF ReconnectBegin
  <2>8. CASE BackoffCanceled BY <1>0, <1>a, Names, <2>8 DEF BackoffCanceled
  <2>9. CASE FactoryFails
    <3>1. Reconnecting /\ \A q \in Procs : pc[q] \notin Section BY <1>0, <2>9 DEF FactoryFails
    <3>2. \A t \in Turns : ~Passed(t) BY <3>1
    <3>3. NextAttempt /\ sub' = sub /\ sent' = sent BY <2>9 DEF FactoryFails
    <3>4. \A q \in Callers : pc'[q] = pc[q] BY <1>0, Names, NextAttemptStep, <3>3
    <3> QED BY Names, <3>2, <3>3, <3>4
  <2>10. CASE Dial BY <1>0, <1>a, Names, NextConn, <2>10 DEF Dial
  <2>11. CASE AttemptFails
    <3>1. Reconnecting /\ \A q \in Procs : pc[q] \notin Section BY <1>0, <2>11 DEF AttemptFails
    <3>2. \A t \in Turns : ~Passed(t) BY <3>1
    <3>3. NextAttempt /\ sub' = sub /\ sent' = sent BY <2>11 DEF AttemptFails
    <3>4. \A q \in Callers : pc'[q] = pc[q] BY <1>0, Names, NextAttemptStep, <3>3
    <3> QED BY Names, <3>2, <3>3, <3>4
  <2>12. CASE ReconnectUp BY <1>0, <1>a, Names, <2>12 DEF ReconnectUp
  <2> QED BY <1>5, <2>1, <2>2, <2>3, <2>4, <2>5, <2>6, <2>7, <2>8, <2>9, <2>10, <2>11, <2>12 DEF Opener
<1>6. ASSUME Closer PROVE TurnInv'
  <2>1. CASE Close BY <1>0, <1>a, Names, <2>1 DEF Close
  <2>2. CASE CloseSignal BY <1>0, <1>a, Names, <2>2 DEF CloseSignal
  <2>3. CASE CloseSubs
    <3>1. \A t \in Turns : sub'[t] # "open" /\ (sub'[t] = "none" => sub[t] = "none")
      BY <1>0, <2>3 DEF CloseSubs, Subs
    <3>2. sent' = sent /\ \A q \in Callers : pc'[q] = pc[q] BY <1>0, Names, <2>3 DEF CloseSubs
    <3> QED BY Names, <3>1, <3>2
  <2>4. CASE CloseLast BY <1>0, <1>a, Names, <2>4 DEF CloseLast
  <2> QED BY <1>6, <2>1, <2>2, <2>3, <2>4 DEF Closer
<1> QED BY <1>1, <1>2, <1>3, <1>4, <1>5, <1>6 DEF Next

(* RebindInv is an invariant of a client whose callers reconnect only what  *)
(* they find disconnected.                                                  *)
THEOREM RebindInvInvariant ==
  ASSUME ReconnectFrom \subseteq {"disconnected"}
  PROVE  Spec => []RebindInv
<1>1. Init => RebindInv
  <2> SUFFICES ASSUME Init PROVE RebindInv OBVIOUS
  <2>1. pc["opener"] = "request" /\ \A t \in Turns : pc[t] = "idle" /\ t \in Subs /\ t \in Turns
    <3>1. ConnOrder[1] \in Conns BY ClientInit, CurConn DEF ClientInv, Init, Cur
    <3> QED BY <3>1, Names DEF Init, Subs
  <2>2. ConnInv BY <2>1 DEF Init, ConnInv, Cur, Replacing, Reconnecting
  <2>3. TurnInv BY <2>1 DEF Init, TurnInv, Passed
  <2> QED BY <2>2, <2>3 DEF RebindInv
<1>2. ClientInv /\ RebindInv /\ [Next]_vars => RebindInv'
  <2> SUFFICES ASSUME ClientInv, RebindInv, [Next]_vars PROVE RebindInv' OBVIOUS
  <2> USE DEF RebindInv
  <2>1. CASE Next BY <2>1, ConnNext, TurnNext
  <2>2. CASE UNCHANGED vars
    <3>1. Cur' = Cur BY <2>2, CurConn DEF vars, ClientInv
    <3>2. ConnInv' BY <2>2, <3>1 DEF vars, ConnInv, Tearing, Replacing, Reconnecting
    <3>3. TurnInv' BY <2>2 DEF vars, TurnInv, Passed, Failing, Replacing, Reconnecting
    <3> QED BY <3>2, <3>3
  <2> QED BY <2>1, <2>2
<1> QED BY <1>1, <1>2, ClientInvInvariant, PTL DEF Spec

(* Close and Reconnect racing in any order leave no transport open. *)
THEOREM NothingLeaks ==
  ASSUME ReconnectFrom \subseteq {"disconnected"}
  PROVE  Spec => []NoLeakedConnection
<1>1. ClientInv /\ RebindInv => NoLeakedConnection
  BY DEF ClientInv, RebindInv, CloseInv, ConnInv, NoLeakedConnection
<1> QED BY <1>1, ClientInvInvariant, RebindInvInvariant, PTL

(* Reconnect revives no turn: one that wrote its prompt on an earlier       *)
(* connection has been failed before the new connection is up.              *)
THEOREM NoTurnIsRevived ==
  ASSUME ReconnectFrom \subseteq {"disconnected"}
  PROVE  Spec => []TurnBoundToConnection
<1>1. RebindInv => TurnBoundToConnection
  BY DEF RebindInv, TurnInv, Passed, TurnBoundToConnection
<1> QED BY <1>1, RebindInvInvariant, PTL

-----------------------------------------------------------------------------
(* The invariants of Client together: each part holds as far as the callers *)
(* of Reconnect let it.                                                     *)
THEOREM ConnectionInvInvariant == Spec => []ConnectionInv
<1>1. CASE ReconnectFrom = {}
  <2>1. ClientInv /\ LossInv /\ RebindInv => ConnectionInv BY DEF ConnectionInv
  <2>2. ReconnectFrom \subseteq {"disconnected"} BY <1>1
  <2>3. (Spec => []LossInv) /\ (Spec => []RebindInv) BY <1>1, <2>2, LossInvInvariant, RebindInvInvariant
  <2> QED BY <2>1, <2>3, ClientInvInvariant, PTL
<1>2. CASE ReconnectFrom # {} /\ ReconnectFrom \subseteq {"disconnected"}
  <2>1. ClientInv /\ RebindInv => ConnectionInv BY <1>2 DEF ConnectionInv
  <2>2. Spec => []RebindInv BY <1>2, RebindInvInvariant
  <2> QED BY <2>1, <2>2, ClientInvInvariant, PTL
<1>3. CASE ~(ReconnectFrom \subseteq {"disconnected"})
  <2>1. ClientInv => ConnectionInv BY <1>3 DEF ConnectionInv
  <2> QED BY <2>1, ClientInvInvariant, PTL
<1> QED BY <1>1, <1>2, <1>3

=============================================================================
