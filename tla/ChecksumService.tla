-------------------------- MODULE ChecksumService ---------------------------
(***************************************************************************)
(* The checksum servers as they are checked and proved about: CksumServer  *)
(* on the variables of QnxChannel, with a name of its own for what ResMgr  *)
(* has too (cur), so that a proof can be about both.                       *)
(***************************************************************************)
EXTENDS QnxChannel, Sequences

CONSTANTS
  Servers,      \* the servers to look at
  Texts,        \* the texts on the clients' command lines
  MaxString     \* MAX_STRING_LEN

ASSUME CksumAssumption ==
  /\ Servers \subseteq {"server", "pulse_server", "name_lookup_server",
                        "iov_server"}
  /\ \A t \in Texts : t \in Seq(Nat \ {0})
  /\ MaxString \in Nat

VARIABLES
  server,         \* which server runs
  spc, whom,      \* where it is, the client or scoid it is handling
  msg_type, rbuf, \* the receive buffer
  cpc, program, text, pulsing

Cksum == INSTANCE CksumServer WITH cur <- whom

CksumSafe == Cksum!Spec

CksumSpec == Cksum!FairSpec

-----------------------------------------------------------------------------
(* What CksumServer states of its programs *)

CksumTypeOK == Cksum!TypeOK

ChecksumsServed == Cksum!ServerSpec

ScoidReleased == Cksum!ScoidReleased
=============================================================================
