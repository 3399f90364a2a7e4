---------------------------- MODULE MCShmemPosix ----------------------------
(***************************************************************************)
(* Models of ShmemPosix for TLC: two creators started with the same name   *)
(* and two users, which a signal in place of the broadcast would not       *)
(* serve; two versions, so that users wait again after they have read.     *)
(***************************************************************************)
EXTENDS ShmemPosix
=============================================================================
