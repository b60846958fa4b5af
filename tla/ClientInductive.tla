--------------------------- MODULE ClientInductive ---------------------------
(***************************************************************************)
(* The inductive invariants behind the theorems of ClientProofs, in named  *)
(* parts.  ClientInv holds however Reconnect is called; LossInv and        *)
(* RebindInv need that it is called at most on a lost connection.          *)
(***************************************************************************)
EXTENDS Client

(* Inside disconnect: before reconnectMu is taken, and while it is held. *)
Section == {"check", "set", "tear", "fail"}
Disconnecting == {"lock"} \cup Section

(* Where each kind of goroutine can be. *)
LabelInv ==
  /\ \A c \in Conns : pc[c] \in {"unborn", "read", "deliver", "stopped"} \cup Disconnecting
  /\ \A p \in Requesters : pc[p] \in {"idle", "register", "write", "wait", "done"} \cup Disconnecting
  /\ \A t \in Turns : pc[t] \in {"idle", "notify", "write", "live", "unsubscribe", "done"} \cup Disconnecting
  /\ pc["opener"] \in {"request", "register", "write", "wait", "up", "failed", "idle", "reconnect",
                       "begin", "dial", "gone"} \cup Disconnecting
  /\ pc["closer"] \in {"idle", "signal", "subs", "last", "done"}

(* An entry of pending belongs to a request under way; an entry that a      *)
(* reader has taken out is in no other hands, and its channel is unused.    *)
RequestInv ==
  /\ \A i \in pending :
       /\ chan[i] = "waiting"
       /\ \/ i \in Requesters /\ pc[i] \in {"write", "wait"}
          \/ i = Cur /\ pc["opener"] \in {"write", "wait"}
  /\ \A c \in Conns : held[c] # "none" => held[c] \notin pending /\ chan[held[c]] = "waiting"
  /\ \A c \in Conns : held[c] # "none" <=> pc[c] = "deliver"
  /\ \A c, e \in Conns : held[c] # "none" /\ held[c] = held[e] => c = e

(* A request that is not registered yet has a fresh channel, or one whose   *)
(* reply was received; a connection not yet dialled has no reader.          *)
FreshInv ==
  /\ \A p \in Requesters : pc[p] \in {"idle", "register"} => chan[p] = "none"
  /\ \A k \in 1..Len(ConnOrder) : k > cur => chan[ConnOrder[k]] = "none" /\ pc[ConnOrder[k]] = "unborn"
  /\ pc["opener"] \in {"request", "register"} => chan[Cur] \in {"none", "sent"}

(* A request that was registered is in the map or in the hands of a reader, *)
(* unless its channel says that it is over.                                 *)
AwaitInv ==
  \A p \in Requesters :
    pc[p] \in {"write", "wait"} => chan[p] # "none" /\ (chan[p] = "waiting" => p \in pending \/ \E c \in Conns : held[c] = p)

(* What Close has done by now. *)
CloseInv ==
  /\ closed <=> pc["closer"] \in {"subs", "last", "done"}
  /\ pc["closer"] \in {"last", "done"} => \A s \in Subs : sub[s] # "open"
  /\ ~ready /\ pc["opener"] # "gone" => pc["closer"] = "idle"

(* Reconnect has the mutex, which it still holds when it waits for it once  *)
(* more in disconnect.                                                      *)
Reconnecting ==
  ready /\ pc["opener"] \in {"begin", "dial", "request", "register", "write", "wait", "up", "failed", "lock"}

MutexInv ==
  /\ \A p \in Procs : pc[p] \in Section => mu
  /\ \A p, q \in Procs : pc[p] \in Section /\ pc[q] \in Section => p = q
  /\ Reconnecting => mu /\ \A p \in Procs : pc[p] \notin Section
  /\ ready => pc["opener"] \notin Section
  /\ pc["opener"] \in {"idle", "reconnect", "begin", "dial"} => ready

ClientInv ==
  /\ TypeOK /\ LabelInv /\ RequestInv /\ FreshInv /\ AwaitInv /\ CloseInv /\ MutexInv
  /\ NoPanic /\ RawSubscriptionsSurvive

(* A disconnect has set the state and has not closed the transport yet, or  *)
(* has not failed the turns yet.                                            *)
Tearing == \E p \in Procs : pc[p] = "tear"
Failing == \E p \in Procs : pc[p] \in {"tear", "fail"}

(* Without Reconnect: a lost connection is closed and its requests are      *)
(* released before the mutex is given back.                                 *)
LossInv ==
  /\ ready => pc["opener"] = "idle"
  /\ state = "disconnected" => Cur \notin open \/ Tearing
  /\ Cur \notin open => \A p \in Requesters : pc[p] = "wait" => p \notin pending

(* Reconnect was called and has not returned. *)
Replacing == pc["opener"] = "reconnect" \/ Reconnecting

(* With Reconnect on a lost connection only: the connection it replaces is  *)
(* closed, by the disconnect that lost it or by the attempt before.         *)
ConnInv ==
  /\ open \subseteq {Cur}
  /\ state = "disconnected" \/ pc["opener"] = "reconnect" => Cur \notin open \/ Tearing
  /\ pc["opener"] \in {"begin", "dial"} => Cur \notin open
  /\ Replacing => state # "connected"
  /\ closed => open = {} \/ (ready /\ pc["opener"] \in {"request", "failed"})

(* A turn that may write or has written, and whose subscription is open. *)
Passed(t) == sub[t] = "open" /\ (pc[t] = "write" \/ sent[t] # 0)

(* A turn that has passed its check is failed before Reconnect can install  *)
(* another connection.                                                      *)
TurnInv ==
  \A t \in Turns :
    /\ sub[t] = "none" => pc[t] = "idle" /\ sent[t] = 0
    /\ Passed(t) => /\ sent[t] \in {0, cur}
                    /\ Failing \/ (state \in {"connected", "closing", "closed"} /\ ~Replacing)

RebindInv == ConnInv /\ TurnInv

(* All of it: what holds depends on when Reconnect is called.               *)
ConnectionInv ==
  /\ ClientInv
  /\ ReconnectFrom = {} => LossInv
  /\ ReconnectFrom \subseteq {"disconnected"} => RebindInv
=============================================================================
