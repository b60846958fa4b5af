-------------------------- MODULE StreamsInductive ---------------------------
(***************************************************************************)
(* The inductive invariant behind the theorems of StreamsProofs, in named  *)
(* parts: what is on the wire, what the registry of subscriptions says,    *)
(* where a Send stands, and the state of the client.                       *)
(***************************************************************************)
EXTENDS Streams

(* Frame i lies on the wire after its first a bytes, whole, and nowhere     *)
(* else; the next byte before it belongs to the frame before.               *)
FrameAt(i, a) ==
  LET line == Line(i, sent[i])
  IN  /\ a + Len(line) <= Len(wire)
      /\ \A k \in 1..Len(line) : wire[a + k] = line[k]
      /\ \A k \in 1..Len(wire) : wire[k].n = i => k > a /\ k <= a + Len(line)
      /\ a = 0 <=> i = read + 1
      /\ a # 0 => wire[a].n = i - 1

(* The wire holds the frames that the reader has not handled yet, in order  *)
(* and one after the other, unless the connection has ended and the rest of *)
(* it was given up.                                                         *)
WireInv ==
  \/ end # "open" /\ wire = <<>>
  \/ /\ \A k \in 1..Len(wire) : wire[k].n \in (read + 1)..Len(sent)
     /\ wire # <<>> => wire[Len(wire)].n = Len(sent)
     /\ \A i \in (read + 1)..Len(sent) : \E a \in 0..Len(wire) : FrameAt(i, a)

(* A subscription is made, is registered, is closed with a cause, and keeps *)
(* that cause.                                                              *)
RegistryInv ==
  \A s \in Subs :
    /\ from[s] = -1 => /\ s \notin subs /\ s \notin shut /\ cause[s] = None /\ result[s] = None
                       /\ events[s] = <<>> /\ got[s] = <<>>
    /\ from[s] # -1 => s \in subs \/ s \in shut
    /\ s \in subs => s \notin shut /\ cause[s] = None
    /\ s \in errors => s \in shut /\ cause[s] # None
    /\ s \in shut /\ s \notin quit => cause[s] # None
    /\ cause[s] = "overflow" => Len(got[s]) + Len(events[s]) >= Capacity(s)

(* The message of a Send is accepted after its subscription was made, and   *)
(* the Send has not taken an acceptance yet while it waits.                 *)
SendInv ==
  \A d \in Senders :
    /\ pc[d] = "idle" => from[d] = -1 /\ d \notin asked
    /\ d \notin asked => answer[d] = 0
    /\ pc[d] = "wait" =>
         /\ from[d] # -1
         /\ \A i \in 1..Len(got[d]) : sent[got[d][i]].kind # "message_accepted"
    /\ pc[d] \in {"notify", "write"} => got[d] = <<>>
    /\ answer[d] # 0 => /\ sent[answer[d]].kind = "message_accepted"
                        /\ \A k \in 1..from[d] : log[k] < answer[d]

(* The state and the goroutines.  Once the stream has broken for good no    *)
(* Send that has come to its write is registered.                           *)
ControlInv ==
  /\ closed => subs = {}
  /\ state = "closed" \/ pc["closer"] = "last" => closed
  /\ pc["reader"] = "read" <=> fault = None
  /\ \A p \in Procs : pc[p] = "fail" => state # "connected"
  /\ fault \in Fatal /\ pc["reader"] = "stopped" /\ state # "closing" =>
       /\ state # "connected"
       /\ \A d \in Senders : pc[d] \in {"write", "wait"} => d \notin subs

StreamsInv ==
  /\ TypeOK /\ WireInv /\ RegistryInv /\ SendInv /\ ControlInv
  /\ StreamsContiguous /\ WireFaithful /\ NextTellsCause
=============================================================================
