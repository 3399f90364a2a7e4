--------------------------- MODULE MCEventServer ----------------------------
(***************************************************************************)
(* Models of EventServer for TLC: two clients that come, register, go and  *)
(* come back, with two server connection ids between them.                 *)
(***************************************************************************)
EXTENDS EventServer
=============================================================================
