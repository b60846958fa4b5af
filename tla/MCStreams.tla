------------------------------ MODULE MCStreams ------------------------------
(* An instance of Streams for TLC. *)
EXTENDS StreamsInductive

CONSTANTS s1, d1

Frame(k, n, c) == [kind |-> k, size |-> n, cr |-> c]

Accepted == Frame("message_accepted", 3, TRUE)

(* With MaxSize = 4: the largest frame ended by LF and by CR LF, one byte   *)
(* more, and every kind of frame the reader treats differently.             *)
ShortScripts ==
  {<<Frame("text", 4, FALSE), Frame("text", 5, FALSE)>>,
   <<Frame("text", 4, TRUE)>>,
   <<Frame("error", 2, TRUE)>>, <<Frame("array", 3, FALSE)>>,
   <<Frame("reply", 3, FALSE), Frame("untagged", 3, FALSE)>>}
=============================================================================
