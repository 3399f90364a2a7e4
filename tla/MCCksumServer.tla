--------------------------- MODULE MCCksumServer ----------------------------
(***************************************************************************)
(* A model of the checksum servers for TLC: each of the four, with two     *)
(* clients that come and go, a text that fits the message and a longer one.*)
(***************************************************************************)
EXTENDS ChecksumService

MCTexts == {<<1>>, <<2, 1, 1>>}
=============================================================================
