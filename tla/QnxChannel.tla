----------------------------- MODULE QnxChannel -----------------------------
(***************************************************************************)
(* A channel made with name_attach and the client processes that use it,   *)
(* as the servers of ipc/ rely on them.  The kernel is not part of the     *)
(* repository: the operators say what the callers see.                     *)
(*                                                                         *)
(* A client's first connection gives it a server connection id (scoid),    *)
(* which stays in use after the client's death until the server calls      *)
(* ConnectDetach on it.  A MsgSend blocks the client until the server has  *)
(* received the message (SEND-blocked) and replied (REPLY-blocked).  A     *)
(* client that is killed while REPLY-blocked stays blocked, the server     *)
(* gets an unblock pulse, and the client dies when it is replied to.  The  *)
(* pulses and messages that wait at the channel are received in any order: *)
(* their priorities decide, and the code sets none.                        *)
(*                                                                         *)
(* A rcvid stands for the client and the message it is blocked on; it is   *)
(* the client's name here, and is stale once that message is replied to.   *)
(***************************************************************************)
EXTENDS Integers

CONSTANTS
  Clients,      \* the client processes
  Scoids,       \* the server connection ids
  NoOne         \* no client, no scoid: the 0 of the sources

ASSUME ChannelAssumption == NoOne \notin Clients \cup Scoids

VARIABLES
  scoid,        \* each client's server connection id
  blocked,      \* "running", "send", "reply" or "dead"
  killed,       \* REPLY-blocked clients that die once replied to
  pulses,       \* pulses waiting at the channel
  msg,          \* the message each client is blocked on
  answer        \* what its last MsgSend returned, while it lives

channel == <<scoid, blocked, killed, pulses, msg, answer>>

Disconnect(s) == [code |-> "disconnect", of |-> s]

Unblock(c) == [code |-> "unblock", of |-> c]

ChannelInit ==
  /\ scoid = [c \in Clients |-> NoOne]
  /\ blocked = [c \in Clients |-> "running"]
  /\ killed = {} /\ pulses = {}
  /\ msg = [c \in Clients |-> NoOne]
  /\ answer = [c \in Clients |-> NoOne]

ChannelTypeOK(Messages, Answers) ==
  /\ scoid \in [Clients -> Scoids \cup {NoOne}]
  /\ blocked \in [Clients -> {"running", "send", "reply", "dead"}]
  /\ killed \in SUBSET Clients
  /\ pulses \in SUBSET ({Disconnect(s) : s \in Scoids} \cup
                        {Unblock(c) : c \in Clients})
  /\ msg \in [Clients -> Messages \cup {NoOne}]
  /\ answer \in [Clients -> Answers \cup {NoOne}]

ScoidsInUse == {scoid[c] : c \in Clients} \ {NoOne}

\* name_open, successful
NameOpen(c) ==
  /\ blocked[c] = "running" /\ scoid[c] = NoOne
  /\ \E s \in Scoids \ ScoidsInUse : scoid' = [scoid EXCEPT ![c] = s]
  /\ UNCHANGED <<blocked, killed, pulses, msg, answer>>

MsgSend(c, m) ==
  /\ blocked[c] = "running" /\ scoid[c] # NoOne
  /\ blocked' = [blocked EXCEPT ![c] = "send"]
  /\ msg' = [msg EXCEPT ![c] = m]
  /\ UNCHANGED <<scoid, killed, pulses, answer>>

MsgReceive(c) ==
  /\ blocked[c] = "send"
  /\ blocked' = [blocked EXCEPT ![c] = "reply"]
  /\ UNCHANGED <<scoid, killed, pulses, msg, answer>>

ReceivePulse(p) ==
  /\ p \in pulses /\ pulses' = pulses \ {p}
  /\ UNCHANGED <<scoid, blocked, killed, msg, answer>>

\* MsgReply and MsgError; with a stale rcvid they fail and change nothing.
MsgReply(c, a) ==
  IF blocked[c] # "reply" THEN UNCHANGED channel
  ELSE
    /\ answer' = [answer EXCEPT ![c] = IF c \in killed THEN NoOne ELSE a]
    /\ blocked' = [blocked EXCEPT ![c] =
                     IF c \in killed THEN "dead" ELSE "running"]
    /\ pulses' = pulses \cup (IF c \in killed THEN {Disconnect(scoid[c])} ELSE {})
    /\ killed' = killed \ {c}
    /\ msg' = [msg EXCEPT ![c] = NoOne]
    /\ UNCHANGED scoid

\* A client exits or is killed.
ClientEnds(c) ==
  /\ blocked[c] # "dead" /\ c \notin killed /\ scoid[c] # NoOne
  /\ IF blocked[c] = "reply"
       THEN /\ killed' = killed \cup {c}
            /\ pulses' = pulses \cup {Unblock(c)}
            /\ UNCHANGED <<blocked, msg, answer>>
       ELSE /\ blocked' = [blocked EXCEPT ![c] = "dead"]
            /\ pulses' = pulses \cup {Disconnect(scoid[c])}
            /\ msg' = [msg EXCEPT ![c] = NoOne]
            /\ answer' = [answer EXCEPT ![c] = NoOne]
            /\ UNCHANGED killed
  /\ UNCHANGED scoid

\* ConnectDetach frees the scoid.
ConnectDetach(s) ==
  /\ scoid' = [c \in Clients |-> IF scoid[c] = s THEN NoOne ELSE scoid[c]]
  /\ UNCHANGED <<blocked, killed, pulses, msg, answer>>

\* The program is started again; its process has nothing of the old one.
ClientRestarts(c) ==
  /\ blocked[c] = "dead" /\ scoid[c] = NoOne
  /\ blocked' = [blocked EXCEPT ![c] = "running"]
  /\ UNCHANGED <<scoid, killed, pulses, msg, answer>>
=============================================================================
