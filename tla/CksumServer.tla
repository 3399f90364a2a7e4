---------------------------- MODULE CksumServer -----------------------------
(***************************************************************************)
(* The checksum servers of ipc/solutions and their clients: server.c and   *)
(* pulse_server.c on a plain channel, name_lookup_server.c and             *)
(* iov_server.c on a channel made with name_attach.  One behaviour is one  *)
(* of the four servers, with clients that may be any of client.c,          *)
(* pulse_client.c, name_lookup_client.c and iov_client.c.                  *)
(*                                                                         *)
(* A text is a sequence of numbers greater than 0, NUL is 0.  The receive  *)
(* buffer is kept from one MsgReceive to the next, as in the code: a       *)
(* message overwrites only its first bytes.  iov_server uses the type in   *)
(* it and reads the text with a second call, into memory of its own.       *)
(* Errors of ChannelCreate, name_attach and MsgReceive end a server and    *)
(* are left out.                                                           *)
(***************************************************************************)
EXTENDS QnxChannel, Sequences

CONSTANTS
  Servers,      \* the servers to look at
  Texts,        \* the texts on the clients' command lines
  MaxString     \* MAX_STRING_LEN

VARIABLES
  server,       \* which server runs
  spc, cur,     \* where it is, the client or scoid it is handling
  msg_type,     \* the receive buffer: the type,
  rbuf,         \*   and the bytes after it
  cpc,          \* each client's place in its program
  program,      \* the program each client runs
  text,         \* its argument
  pulsing       \* clients whose pulse waits at the channel

buffer == <<msg_type, rbuf>>
clients == <<cpc, program, text>>
vars == <<channel, server, spc, cur, buffer, clients, pulsing>>

\* "pulse_client" is name_lookup_client as well: once connected they do the
\* same.
Programs == {"client", "pulse_client", "iov_client"}

Named == server \in {"name_lookup_server", "iov_server"}

\* What memory holds that the program has not written, or a pulse left there:
\* at worst no NUL.
Junk == [i \in 1 .. MaxString + 1 |-> 1]

\* cksum += *c, for all of them
Sum(s) ==
  LET cksum[n \in 0 .. Len(s)] == IF n = 0 THEN 0 ELSE cksum[n - 1] + s[n]
  IN  cksum[Len(s)]

\* calculate_checksum: the bytes up to the first NUL (-1: there is none)
Checksum(bytes) ==
  LET nuls == {i \in 1 .. Len(bytes) : bytes[i] = 0}
  IN  IF nuls = {} THEN -1
      ELSE Sum(SubSeq(bytes, 1, (CHOOSE i \in nuls : \A j \in nuls : i <= j) - 1))

\* Fault: strcpy in place of strlcpy.
Strcpy(t) == t

Strlcpy(t) == IF Len(t) <= MaxString THEN t ELSE SubSeq(t, 1, MaxString)

Init ==
  /\ ChannelInit
  /\ server \in Servers
  /\ spc = "receive" /\ cur = NoOne
  /\ msg_type = "none" /\ rbuf = Junk
  /\ cpc = [c \in Clients |-> "connect"]
  /\ program = [c \in Clients |-> "client"]
  /\ text = [c \in Clients |-> <<>>]
  /\ pulsing = {}

-----------------------------------------------------------------------------
(* The clients *)

\* client and pulse_client are told a pid and a chid, which may be any
\* server's; iov_client looks for the name of its own.
Reaches(p) == IF p = "iov_client" THEN {"iov_server"} ELSE Servers

\* ConnectAttach or name_open, for a client that somebody starts
Connect(c) ==
  /\ cpc[c] = "connect"
  /\ NameOpen(c)
  /\ \E p \in Programs, t \in Texts :
       /\ server \in Reaches(p)
       /\ program' = [program EXCEPT ![c] = p]
       /\ text' = [text EXCEPT ![c] = t]
       /\ cpc' = [cpc EXCEPT ![c] = IF p \in {"client", "iov_client"}
                                      THEN "send" ELSE "pulse"]
  /\ UNCHANGED <<server, spc, cur, buffer, pulsing>>

\* MsgSendPulse; bound: one pulse of a client at a time waits at the channel
SendPulse(c) ==
  /\ cpc[c] = "pulse" /\ cpc' = [cpc EXCEPT ![c] = "send"]
  /\ blocked[c] = "running" /\ c \notin pulsing
  /\ pulsing' = pulsing \cup {c}
  /\ UNCHANGED <<channel, server, spc, cur, buffer, program, text>>

\* Fault: the length in the MsgSend leaves the NUL out.
MessageNoNul(c) ==
  [type |-> IF program[c] = "iov_client" THEN "cksum_iov" ELSE "cksum",
   data_size |-> Len(text[c]), bytes |-> Strlcpy(text[c])]

\* What a client sends: client.c sends the whole structure, whatever follows
\* the NUL in it; the others send up to the NUL; iov_client has no limit.
Message(c) ==
  LET t == Strlcpy(text[c])
  IN  CASE program[c] = "iov_client" ->
             [type |-> "cksum_iov", data_size |-> Len(text[c]) + 1,
              bytes |-> Append(text[c], 0)]
        [] program[c] = "client" ->
             [type |-> "cksum", data_size |-> 0,
              bytes |-> Append(t, 0) \o SubSeq(Junk, 1, MaxString - Len(t))]
        [] OTHER ->
             [type |-> "cksum", data_size |-> 0, bytes |-> Append(t, 0)]

Send(c) ==
  /\ cpc[c] = "send" /\ cpc' = [cpc EXCEPT ![c] = "exit"]
  /\ MsgSend(c, Message(c))
  /\ UNCHANGED <<server, spc, cur, buffer, program, text, pulsing>>

\* A client that has gone has nothing of its program left.
Forget(c) ==
  /\ program' = [program EXCEPT ![c] = "client"]
  /\ text' = [text EXCEPT ![c] = <<>>]
  /\ cpc' = [cpc EXCEPT ![c] = "connect"]

\* A client exits after its answer, or is killed.  Without the flags that
\* name_attach sets, a channel holds no client back and sends no pulses.
End(c) ==
  /\ IF Named THEN ClientEnds(c)
     ELSE /\ blocked[c] # "dead" /\ scoid[c] # NoOne
          /\ blocked' = [blocked EXCEPT ![c] = "dead"]
          /\ scoid' = [scoid EXCEPT ![c] = NoOne]
          /\ msg' = [msg EXCEPT ![c] = NoOne]
          /\ answer' = [answer EXCEPT ![c] = NoOne]
          /\ UNCHANGED <<killed, pulses>>
  /\ IF blocked'[c] = "dead" THEN Forget(c) ELSE UNCHANGED clients
  /\ UNCHANGED <<server, spc, cur, buffer, pulsing>>

Restart(c) ==
  /\ ClientRestarts(c)
  /\ Forget(c)
  /\ UNCHANGED <<server, spc, cur, buffer, pulsing>>

-----------------------------------------------------------------------------
(* The server's loop *)

ServerStep(from, to) ==
  spc = from /\ spc' = to /\ UNCHANGED <<server, clients>>

\* MsgReceive of a message: its bytes go over the first of the buffer.
Receive(c) ==
  /\ ServerStep("receive", "dispatch")
  /\ MsgReceive(c)
  /\ cur' = c
  /\ msg_type' = msg[c].type
  /\ rbuf' = [i \in 1 .. MaxString + 1 |->
                IF server # "iov_server" /\ i <= Len(msg[c].bytes)
                  THEN msg[c].bytes[i] ELSE rbuf[i]]
  /\ UNCHANGED pulsing

PulseInBuffer == msg_type' = "pulse" /\ rbuf' = Junk

\* A client's pulse: reported, except that server.c, which does not look for
\* a rcvid of 0, takes it for a message.
ReceiveClientPulse(c) ==
  /\ ServerStep("receive", IF server = "server" THEN "dispatch" ELSE "receive")
  /\ c \in pulsing /\ pulsing' = pulsing \ {c}
  /\ PulseInBuffer
  /\ UNCHANGED <<channel, cur>>

ReceiveDisconnect(s) ==
  /\ ServerStep("receive", "detach")
  /\ ReceivePulse(Disconnect(s))
  /\ cur' = s
  /\ PulseInBuffer
  /\ UNCHANGED pulsing

\* Only iov_server does something about an unblock pulse.
ReceiveUnblock(c) ==
  /\ ServerStep("receive", IF server = "iov_server" THEN "unblock" ELSE "receive")
  /\ ReceivePulse(Unblock(c))
  /\ cur' = IF server = "iov_server" THEN c ELSE cur
  /\ PulseInBuffer
  /\ UNCHANGED pulsing

\* Fault: the disconnect pulse is only reported.
DetachForgotten ==
  /\ ServerStep("detach", "receive")
  /\ cur' = NoOne
  /\ UNCHANGED <<channel, buffer, pulsing>>

\* case _PULSE_CODE_DISCONNECT: ConnectDetach
Detach ==
  /\ ServerStep("detach", "receive")
  /\ ConnectDetach(cur)
  /\ cur' = NoOne
  /\ UNCHANGED <<buffer, pulsing>>

Ok(n) == [status |-> "EOK", sum |-> n]

Error(e) == [status |-> e, sum |-> 0]

Answer(from, a) ==
  /\ ServerStep(from, "receive")
  /\ IF cur = NoOne THEN UNCHANGED channel ELSE MsgReply(cur, a)
  /\ cur' = NoOne
  /\ UNCHANGED <<buffer, pulsing>>

\* case _PULSE_CODE_UNBLOCK: MsgError on the rcvid that the pulse names
AnswerUnblock == Answer("unblock", Error("interrupted"))

\* iov_server: the message must be as long as its header says.
Whole(m) == Len(m.bytes) >= m.data_size

\* The checks of the type and, in iov_server, of the length
Understood ==
  IF server = "iov_server"
    THEN msg_type = "cksum_iov" /\ Whole(msg[cur])
    ELSE msg_type = "cksum"

\* MsgError(rcvid, ENOSYS) for an unknown type (for server.c that may be a
\* pulse, with nobody to answer), EBADMSG for a message that is too short
Refuse ==
  /\ spc = "dispatch" /\ ~Understood
  /\ Answer("dispatch",
            Error(IF msg_type = "cksum_iov" THEN "EBADMSG" ELSE "ENOSYS"))

\* calculate_checksum over the receive buffer, and MsgReply
Reply ==
  /\ spc = "dispatch" /\ server # "iov_server" /\ Understood
  /\ Answer("dispatch", Ok(Checksum(rbuf)))

\* Fault: no answer when there is no memory.
MallocFailsSilently ==
  /\ spc = "dispatch" /\ server = "iov_server" /\ Understood
  /\ ServerStep("dispatch", "receive")
  /\ cur' = NoOne
  /\ UNCHANGED <<channel, buffer, pulsing>>

MallocFails ==
  /\ spc = "dispatch" /\ server = "iov_server" /\ Understood
  /\ Answer("dispatch", Error("ENOMEM"))

Malloc ==
  /\ spc = "dispatch" /\ server = "iov_server" /\ Understood
  /\ ServerStep("dispatch", "read")
  /\ UNCHANGED <<channel, cur, buffer, pulsing>>

\* MsgRead of the data, past the header, the checksum over it, and MsgReply.
\* The client cannot have gone: the channel holds it until it is replied to.
ReadAndReply ==
  /\ spc = "read"
  /\ Answer("read", Ok(Checksum(SubSeq(msg[cur].bytes, 1, msg[cur].data_size))))

-----------------------------------------------------------------------------
Client(c) == Connect(c) \/ SendPulse(c) \/ Send(c) \/ End(c) \/ Restart(c)

FromChannel ==
  \/ \E c \in Clients : Receive(c) \/ ReceiveClientPulse(c) \/ ReceiveUnblock(c)
  \/ \E s \in Scoids : ReceiveDisconnect(s)

Handle ==
  \/ Detach \/ AnswerUnblock \/ Refuse \/ Reply
  \/ MallocFails \/ Malloc \/ ReadAndReply

Next ==
  \/ FromChannel \/ Handle
  \/ \E c \in Clients : Client(c)

Spec == Init /\ [][Next]_vars

(***************************************************************************)
(* The server is scheduled, and what waits at the channel is received some *)
(* time (the kernel queues in order of arrival).  Clients owe nothing.     *)
(***************************************************************************)
Fairness ==
  /\ WF_vars(Handle)
  /\ \A c \in Clients : SF_vars(Receive(c))
  /\ \A s \in Scoids : SF_vars(ReceiveDisconnect(s))

FairSpec == Spec /\ Fairness

-----------------------------------------------------------------------------
(* Properties *)

IsMessage(m) ==
  /\ m.type \in {"cksum", "cksum_iov"}
  /\ m.data_size \in Nat
  /\ m.bytes \in Seq(Nat)
  /\ m.type = "cksum" => Len(m.bytes) <= MaxString + 1

\* The sum is never the -1 of bytes without a NUL.
IsAnswer(a) ==
  /\ a.status \in {"EOK", "EBADMSG", "ENOSYS", "ENOMEM", "interrupted"}
  /\ a.sum \in Nat

TypeOK ==
  /\ ChannelTypeOK({m \in {msg[c] : c \in Clients} \ {NoOne} : IsMessage(m)},
                   {a \in {answer[c] : c \in Clients} \ {NoOne} : IsAnswer(a)})
  /\ server \in Servers
  /\ spc \in {"receive", "detach", "unblock", "dispatch", "read"}
  /\ cur \in Clients \cup Scoids \cup {NoOne}
  /\ msg_type \in {"none", "pulse", "cksum", "cksum_iov"}
  /\ rbuf \in [1 .. MaxString + 1 -> Nat]
  /\ cpc \in [Clients -> {"connect", "pulse", "send", "exit"}]
  /\ program \in [Clients -> Programs]
  /\ text \in [Clients -> Texts \cup {<<>>}]
  /\ pulsing \in SUBSET Clients

\* What a client is told about its text: the sum of what fits, and an error
\* only where the server does not know its type or is out of memory.
Deserved(c) ==
  IF server = "iov_server"
    THEN IF program[c] = "iov_client"
           THEN {Ok(Sum(text[c])), Error("ENOMEM")}
           ELSE {Error("ENOSYS")}
    ELSE {Ok(Sum(Strlcpy(text[c])))}

Due ==
  [c \in Clients |-> IF blocked[c] \in {"send", "reply"} THEN Deserved(c) ELSE {}]

\* The four servers implement the abstract one.  Every answer is about the
\* client's own text: nothing of an earlier, longer message, of a pulse or of
\* uninitialised memory gets into the sum, no unblock pulse that comes late
\* errors a later request; and each request is answered, on every path through
\* the handler, unless its client is killed before.
Service == INSTANCE RequestServer WITH NoAnswer <- NoOne, due <- Due

ServerSpec == Service!Spec

\* "always release scoid": the connection of a client that is gone is given
\* back.
ScoidReleased ==
  \A c \in Clients : (blocked[c] = "dead") ~> (scoid[c] = NoOne)
=============================================================================
