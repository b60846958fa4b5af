------------------------------ MODULE MCLaunch ------------------------------
(* Instances of Launch for TLC.  Any step of a shutdown may fail.  The      *)
(* user's home is, without inherited logins, a home like any other of the    *)
(* caller's.                                                                 *)
EXTENDS LaunchInductive

CONSTANTS u1

BothApis == {"Launch", "LaunchInstance"}
TempOrUserHome == {"temp", "user"}
LiveContext == {"live"}
EveryPhase == {"daemon", "term", "alive", "kill", "cleanup"}
EveryFault == {"home", "stale", "credentials", "start", "dial", "handshake"}
=============================================================================
