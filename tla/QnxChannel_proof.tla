-------------------------- MODULE QnxChannel_proof --------------------------
(***************************************************************************)
(* What every server that uses a channel can rely on, whatever it does:    *)
(* lemmas on the operators of QnxChannel, for the proofs about the servers.*)
(***************************************************************************)
EXTENDS QnxChannel, TLAPS

\* A scoid is one client's.
ScoidsUnique ==
  \A c, d \in Clients : scoid[c] # NoOne /\ scoid[c] = scoid[d] => c = d

\* Who is blocked has a connection and has sent something; who is to die on
\* the reply is REPLY-blocked.
BlockedHaveSent(Messages) ==
  /\ \A c \in Clients : blocked[c] \in {"send", "reply"} =>
       scoid[c] # NoOne /\ msg[c] \in Messages
  /\ \A c \in killed : blocked[c] = "reply"

ClientIsGone(s) == \E c \in Clients : scoid[c] = s /\ blocked[c] = "dead"

\* A disconnect pulse is about a client that is dead and has its scoid still.
PulsesAreTrue == \A s \in Scoids : Disconnect(s) \in pulses => ClientIsGone(s)

ChannelInv(Messages, Answers) ==
  /\ ChannelTypeOK(Messages, Answers)
  /\ ScoidsUnique
  /\ BlockedHaveSent(Messages)
  /\ PulsesAreTrue

\* The disconnect pulse for s has been received, and s is not detached yet.
Gone(s) == ClientIsGone(s) /\ Disconnect(s) \notin pulses

\* What a step that detaches nothing leaves alone.
ScoidsStay ==
  /\ \A c \in Clients : scoid[c] # NoOne => scoid'[c] = scoid[c]
  /\ \A s \in Scoids : Gone(s) => Gone(s)'

LEMMA ChannelStarts ==
  ASSUME NEW M, NEW A, ChannelInit
  PROVE  ChannelInv(M, A)
BY ChannelAssumption
DEF ChannelInit, ChannelInv, ChannelTypeOK, ScoidsUnique, BlockedHaveSent, PulsesAreTrue

\* The clients' steps.
LEMMA NameOpenKeeps ==
  ASSUME NEW M, NEW A, ChannelInv(M, A), NEW c \in Clients, NameOpen(c)
  PROVE  ChannelInv(M, A)' /\ ScoidsStay
<1> USE ChannelAssumption DEF ChannelInv, NameOpen, ScoidsInUse
<1>1. ChannelTypeOK(M, A)'
  BY DEF ChannelTypeOK
<1>2. ScoidsUnique'
  BY DEF ChannelTypeOK, ScoidsUnique
<1>3. BlockedHaveSent(M)' /\ PulsesAreTrue' /\ ScoidsStay
  BY DEF ChannelTypeOK, BlockedHaveSent, PulsesAreTrue, ScoidsStay, Gone, ClientIsGone
<1> QED
  BY <1>1, <1>2, <1>3

LEMMA MsgSendKeeps ==
  ASSUME NEW M, NEW A, ChannelInv(M, A), NEW c \in Clients, NEW m \in M, MsgSend(c, m)
  PROVE  ChannelInv(M, A)' /\ ScoidsStay
BY ChannelAssumption
DEF ChannelInv, MsgSend, ChannelTypeOK, ScoidsUnique, BlockedHaveSent, PulsesAreTrue,
    ScoidsStay, Gone, ClientIsGone

LEMMA ClientEndsKeeps ==
  ASSUME NEW M, NEW A, ChannelInv(M, A), NEW c \in Clients, ClientEnds(c)
  PROVE  ChannelInv(M, A)' /\ ScoidsStay
<1> USE ChannelAssumption DEF ChannelInv, ClientEnds
<1>1. scoid[c] \in Scoids /\ blocked[c] # "dead"
  BY DEF ChannelTypeOK
<1>2. Disconnect(scoid[c]) # Unblock(c) /\ \A s \in Scoids : Disconnect(s) # Unblock(c)
  BY DEF Disconnect, Unblock
<1>3. \A s \in Scoids : Disconnect(s) = Disconnect(scoid[c]) => s = scoid[c]
  BY DEF Disconnect
<1>4. ChannelTypeOK(M, A)'
  BY <1>1 DEF ChannelTypeOK
<1>5. ScoidsUnique' /\ BlockedHaveSent(M)'
  BY <1>1 DEF ChannelTypeOK, ScoidsUnique, BlockedHaveSent
<1>6. \A s \in Scoids : Disconnect(s) \in pulses' =>
        Disconnect(s) \in pulses \/ (s = scoid[c] /\ blocked'[c] = "dead")
  BY <1>1, <1>2, <1>3 DEF ChannelTypeOK
<1>7. \A s \in Scoids : ClientIsGone(s) => ClientIsGone(s)' /\ s # scoid[c]
  BY <1>1 DEF ChannelTypeOK, ClientIsGone, ScoidsUnique
<1>8. PulsesAreTrue' /\ ScoidsStay
  BY <1>1, <1>6, <1>7 DEF PulsesAreTrue, ClientIsGone, ScoidsStay, Gone
<1> QED
  BY <1>4, <1>5, <1>8

LEMMA ClientRestartsKeeps ==
  ASSUME NEW M, NEW A, ChannelInv(M, A), NEW c \in Clients, ClientRestarts(c)
  PROVE  ChannelInv(M, A)' /\ ScoidsStay
BY ChannelAssumption
DEF ChannelInv, ClientRestarts, ChannelTypeOK, ScoidsUnique, BlockedHaveSent,
    PulsesAreTrue, ScoidsStay, Gone, ClientIsGone

\* The server's steps.
LEMMA MsgReceiveKeeps ==
  ASSUME NEW M, NEW A, ChannelInv(M, A), NEW c \in Clients, MsgReceive(c)
  PROVE  ChannelInv(M, A)' /\ ScoidsStay
BY ChannelAssumption
DEF ChannelInv, MsgReceive, ChannelTypeOK, ScoidsUnique, BlockedHaveSent, PulsesAreTrue,
    ScoidsStay, Gone, ClientIsGone

LEMMA ReceivePulseKeeps ==
  ASSUME NEW M, NEW A, ChannelInv(M, A), NEW p, ReceivePulse(p)
  PROVE  /\ ChannelInv(M, A)' /\ ScoidsStay
         /\ \A s \in Scoids : p = Disconnect(s) => Gone(s)'
BY ChannelAssumption
DEF ChannelInv, ReceivePulse, ChannelTypeOK, ScoidsUnique, BlockedHaveSent, PulsesAreTrue,
    ScoidsStay, Gone, ClientIsGone

LEMMA MsgReplyKeeps ==
  ASSUME NEW M, NEW A, ChannelInv(M, A), NEW c \in Clients, NEW a \in A, MsgReply(c, a)
  PROVE  ChannelInv(M, A)' /\ ScoidsStay
<1>1. CASE blocked[c] # "reply"
  BY <1>1
  DEF MsgReply, channel, ChannelInv, ChannelTypeOK, ScoidsUnique, BlockedHaveSent,
      PulsesAreTrue, ScoidsStay, Gone, ClientIsGone
<1>2. CASE blocked[c] = "reply"
  <2> USE ChannelAssumption, <1>2 DEF ChannelInv, MsgReply
  <2>1. scoid[c] \in Scoids
    BY DEF ChannelTypeOK, BlockedHaveSent
  <2>2. \A s \in Scoids : Disconnect(s) = Disconnect(scoid[c]) => s = scoid[c]
    BY DEF Disconnect
  <2>3. ChannelTypeOK(M, A)'
    BY <2>1 DEF ChannelTypeOK
  <2>4. ScoidsUnique' /\ BlockedHaveSent(M)'
    BY <2>1 DEF ChannelTypeOK, ScoidsUnique, BlockedHaveSent
  <2>5. \A s \in Scoids : Disconnect(s) \in pulses' =>
          Disconnect(s) \in pulses \/ (s = scoid[c] /\ blocked'[c] = "dead")
    BY <2>1, <2>2 DEF ChannelTypeOK
  <2>6. \A s \in Scoids : ClientIsGone(s) => ClientIsGone(s)' /\ s # scoid[c]
    BY <2>1 DEF ChannelTypeOK, ClientIsGone, ScoidsUnique
  <2>7. PulsesAreTrue' /\ ScoidsStay
    BY <2>1, <2>5, <2>6 DEF PulsesAreTrue, ClientIsGone, ScoidsStay, Gone
  <2> QED
    BY <2>3, <2>4, <2>7
<1> QED
  BY <1>1, <1>2

\* ConnectDetach is safe once the client is gone and its pulse is received, and
\* leaves every other scoid where it is.
LEMMA ConnectDetachKeeps ==
  ASSUME NEW M, NEW A, ChannelInv(M, A), NEW s \in Scoids, Gone(s), ConnectDetach(s)
  PROVE  /\ ChannelInv(M, A)'
         /\ \A c \in Clients : scoid[c] # s => scoid'[c] = scoid[c]
<1> USE ChannelAssumption DEF ChannelInv, ConnectDetach
<1>1. ChannelTypeOK(M, A)' /\ ScoidsUnique'
  BY DEF ChannelTypeOK, ScoidsUnique
<1>2. BlockedHaveSent(M)'
  BY DEF ChannelTypeOK, ScoidsUnique, BlockedHaveSent, Gone, ClientIsGone
<1>3. PulsesAreTrue'
  BY DEF ChannelTypeOK, PulsesAreTrue, Gone, ClientIsGone
<1>4. \A c \in Clients : scoid[c] # s => scoid'[c] = scoid[c]
  OBVIOUS
<1> QED
  BY <1>1, <1>2, <1>3, <1>4
-----------------------------------------------------------------------------
(* No connection leaks.  The kernel keeps a dead client's scoid until the  *)
(* server calls ConnectDetach, and tells the server once.                  *)

\* The disconnect pulse of a dead client whose scoid is still in use waits at the
\* channel, or the server has taken it and is about to detach that scoid.
NoneForgotten(Detaching) ==
  \A c \in Clients : blocked[c] = "dead" /\ scoid[c] # NoOne =>
    Disconnect(scoid[c]) \in pulses \/ scoid[c] \in Detaching

\* Only a client that is gone loses its connection.
LiveStayConnected ==
  \A c \in Clients : scoid[c] # NoOne /\ scoid'[c] # scoid[c] => blocked'[c] = "dead"

\* At first nobody is gone.
LEMMA NoneForgottenAtFirst == ChannelInit => NoneForgotten({})
BY DEF ChannelInit, NoneForgotten

\* Calls of the clients, and of the server other than the two below, forget nobody.
LEMMA CallForgetsNobody ==
  ASSUME NEW M, NEW A, ChannelInv(M, A), NEW D, NoneForgotten(D), NEW c \in Clients,
         \/ NameOpen(c) \/ (\E m : MsgSend(c, m)) \/ ClientEnds(c) \/ ClientRestarts(c)
         \/ MsgReceive(c) \/ ReceivePulse(Unblock(c)) \/ (\E a : MsgReply(c, a))
         \/ UNCHANGED channel
  PROVE  NoneForgotten(D)' /\ LiveStayConnected
<1> USE DEF ChannelInv, ChannelTypeOK
<1>1. CASE NameOpen(c)
  BY <1>1 DEF NoneForgotten, LiveStayConnected, NameOpen
<1>2. CASE \/ \E m : MsgSend(c, m)
           \/ MsgReceive(c) \/ ClientRestarts(c) \/ UNCHANGED channel
  BY <1>2
  DEF NoneForgotten, LiveStayConnected, MsgSend, MsgReceive, ClientRestarts, channel
<1>3. CASE ReceivePulse(Unblock(c))
  <2>1. \A s : Disconnect(s) # Unblock(c)
    BY DEF Disconnect, Unblock
  <2> QED
    BY <1>3, <2>1 DEF NoneForgotten, LiveStayConnected, ReceivePulse
<1>4. CASE ClientEnds(c) \/ \E a : MsgReply(c, a)
  <2>1. /\ scoid' = scoid /\ pulses \subseteq pulses'
        /\ \A d \in Clients : blocked'[d] = "dead" =>
             blocked[d] = "dead" \/ Disconnect(scoid[d]) \in pulses'
    BY <1>4 DEF ClientEnds, MsgReply, channel
  <2> QED
    BY <2>1 DEF NoneForgotten, LiveStayConnected
<1> QED
  BY <1>1, <1>2, <1>3, <1>4

\* The server takes a disconnect pulse when it is about to detach nothing else.
LEMMA DisconnectIsNoted ==
  ASSUME NEW s \in Scoids, NoneForgotten({}), ReceivePulse(Disconnect(s))
  PROVE  NoneForgotten({s})' /\ LiveStayConnected
<1>1. \A t : Disconnect(t) = Disconnect(s) => t = s
  BY DEF Disconnect
<1> QED
  BY <1>1 DEF NoneForgotten, LiveStayConnected, ReceivePulse

\* ConnectDetach gives back what the pulse was about, and nothing of a live client.
LEMMA DetachForgetsNobody ==
  ASSUME NEW M, NEW A, ChannelInv(M, A), NEW s \in Scoids, Gone(s), NoneForgotten({s}),
         ConnectDetach(s)
  PROVE  NoneForgotten({})' /\ LiveStayConnected
<1>1. NoneForgotten({})'
  BY DEF NoneForgotten, ConnectDetach
<1>2. LiveStayConnected
  BY ChannelAssumption
  DEF LiveStayConnected, ConnectDetach, Gone, ClientIsGone, ChannelInv, ScoidsUnique
<1> QED
  BY <1>1, <1>2
=============================================================================
