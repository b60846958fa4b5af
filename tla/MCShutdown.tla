----------------------------- MODULE MCShutdown -----------------------------
(* Instances of Shutdown for TLC.  A live context may end at any time, also  *)
(* before the call; the failures of the system calls are left to MCLaunch.   *)
EXTENDS ShutdownInductive

CONSTANTS u1, u2

LiveContext == {"live"}
NoFailure == {}
=============================================================================
