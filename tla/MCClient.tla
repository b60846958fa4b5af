------------------------------ MODULE MCClient ------------------------------
(* Instances of Client for TLC. *)
EXTENDS ClientInductive

CONSTANTS r1, t1, w1

OneConn == <<"conn1">>
TwoConns == <<"conn1", "conn2">>

WhenDisconnected == {"disconnected"}
Never == {}
=============================================================================
