------------------------------- MODULE ResMgr -------------------------------
(***************************************************************************)
(* rm_intro/solutions: the resource manager of /dev/example in the three   *)
(* stages of the exercise, example_initialization.c, example_read.c and    *)
(* example.c (which is example_write.c).  One behaviour is one stage.  It  *)
(* is a single thread: dispatch_block, then dispatch_handler, which calls  *)
(* io_open, io_read or io_write; what a handler returns, the resource      *)
(* manager library replies, unless it is _RESMGR_NOREPLY.                  *)
(*                                                                         *)
(* The library, and the clients' open, read, write and close, are not part *)
(* of the repository: a client that is through with the device goes away,  *)
(* and the library's own handlers look after pulses and OCBs.  Data is     *)
(* stood for by its length.  A failing set-up ends the manager and is left *)
(* out.                                                                    *)
(***************************************************************************)
EXTENDS QnxChannel

CONSTANTS
  Stages,       \* the stages to look at
  Requests,     \* what clients send
  DataSize      \* sizeof "hello "

ASSUME ResMgrAssumption ==
  /\ Stages \subseteq {"initialization", "read", "write"}
  /\ \A m \in Requests :
       \/ m.type = "open" /\ m.mode \subseteq {"read", "write"}
       \/ m.type \in {"read", "write"} /\ m.nbytes \in Nat /\ m.xtype \in BOOLEAN
  /\ DataSize \in Nat

VARIABLES
  stage,        \* which program runs
  mpc, cur,     \* where it is, the client or scoid it is handling
  nb,           \* the handlers' local variable
  buf,          \* size of the memory io_write has allocated, NoOne if none has
  ocb,          \* what each client has the device open for
  flags,        \* ioattr.flags: the times to be updated
  taken,        \* history: what stdout took of this write, NoOne if nothing
  used          \* history: the times that reads and writes should have marked

manager == <<stage, mpc, cur, nb, buf, ocb, flags, taken, used>>
vars == <<channel, manager>>

Told(n) == [errno |-> "EOK", n |-> n]
Error == [errno |-> "some error", n |-> 0]

Init ==
  /\ ChannelInit
  /\ stage \in Stages
  /\ mpc = "attach" /\ cur = NoOne
  /\ nb = 0 /\ buf = NoOne
  /\ ocb = [c \in Clients |-> NoOne]
  /\ flags = {} /\ used = {}
  /\ taken = NoOne

-----------------------------------------------------------------------------
(* main *)

Goes(from, to) == mpc = from /\ mpc' = to /\ UNCHANGED stage

\* From the dispatch structure to secpol_resmgr_attach and the first
\* dispatch_block: the name is there.
Attach ==
  /\ Goes("attach", "block")
  /\ UNCHANGED <<channel, cur, nb, buf, ocb, flags, taken, used>>

\* dispatch_block returns a message, dispatch_handler calls its handler.
GetMessage(c) ==
  /\ MsgReceive(c)
  /\ Goes("block", msg[c].type)
  /\ cur' = c
  /\ UNCHANGED <<nb, buf, ocb, flags, taken, used>>

\* ... or the pulse of a client that is gone: the library closes its OCB.
GetDisconnect(s) ==
  /\ Goes("block", "detach")
  /\ ReceivePulse(Disconnect(s))
  /\ cur' = s
  /\ ocb' = [c \in Clients |-> IF scoid[c] = s THEN NoOne ELSE ocb[c]]
  /\ UNCHANGED <<nb, buf, flags, taken, used>>

Detach ==
  /\ Goes("detach", "block")
  /\ ConnectDetach(cur)
  /\ cur' = NoOne
  /\ UNCHANGED <<nb, buf, ocb, flags, taken, used>>

\* ... or an unblock pulse: the library has no request of that client left.
GetUnblock(c) ==
  /\ Goes("block", "block")
  /\ ReceivePulse(Unblock(c))
  /\ UNCHANGED <<cur, nb, buf, ocb, flags, taken, used>>

\* The handler returns, and with an error the library replies.
Refused(from) ==
  /\ Goes(from, "block")
  /\ MsgReply(cur, Error)
  /\ cur' = NoOne /\ nb' = 0 /\ taken' = NoOne
  /\ UNCHANGED <<ocb, flags, used>>

-----------------------------------------------------------------------------
(* io_open: iofunc_open_default makes the OCB, or fails. *)

IoOpen ==
  /\ Goes("open", "block")
  /\ MsgReply(cur, Told(0))
  /\ ocb' = [ocb EXCEPT ![cur] = msg[cur].mode]
  /\ cur' = NoOne
  /\ UNCHANGED <<nb, buf, flags, taken, used>>

IoOpenFails == Refused("open") /\ UNCHANGED buf

-----------------------------------------------------------------------------
(* io_read and io_write *)

Verified == mpc \in ocb[cur]

\* iofunc_read_verify, iofunc_write_verify
NotOpenForThis ==
  /\ mpc \in {"read", "write"} /\ ~Verified
  /\ Refused(mpc) /\ UNCHANGED buf

\* No special xtypes
SpecialXtype ==
  /\ mpc \in {"read", "write"} /\ Verified /\ msg[cur].xtype
  /\ Refused(mpc) /\ UNCHANGED buf

Accepted(type) == mpc = type /\ Verified /\ ~msg[cur].xtype

ATime == {"ATIME"}
MTimes == {"MTIME", "CTIME"}

\* MsgReply(ctp->rcvid, n, ...); then the times are marked, or the handler ends.
ReplyWith(from, n, to, times) ==
  /\ Goes(from, to)
  /\ MsgReply(cur, Told(n))
  /\ used' = used \cup (IF n > 0 THEN times ELSE {})
  /\ cur' = NoOne /\ nb' = 0 /\ taken' = NoOne
  /\ UNCHANGED <<buf, ocb, flags>>

Mark(from, times) ==
  /\ Goes(from, "block")
  /\ flags' = flags \cup times
  /\ UNCHANGED <<channel, cur, nb, buf, ocb, taken, used>>

-----------------------------------------------------------------------------
(* io_read *)

\* Fault: the number of bytes that the client has asked for.
ReadAll ==
  /\ stage # "initialization" /\ Accepted("read")
  /\ LET n == msg[cur].nbytes
     IN  ReplyWith("read", n, IF n > 0 THEN "mark_read" ELSE "block", ATime)

\* The lesser of what there is and what the client has asked for.
ReadData ==
  /\ stage # "initialization" /\ Accepted("read")
  /\ LET n == IF DataSize < msg[cur].nbytes THEN DataSize ELSE msg[cur].nbytes
     IN  ReplyWith("read", n, IF n > 0 THEN "mark_read" ELSE "block", ATime)

\* The first stage: always end of file, marked if any bytes were asked for.
ReadNothing ==
  /\ stage = "initialization" /\ Accepted("read")
  /\ ReplyWith("read", 0, IF msg[cur].nbytes > 0 THEN "mark_read" ELSE "block", ATime)

MarkRead == Mark("mark_read", ATime)

-----------------------------------------------------------------------------
(* io_write *)

\* The first two stages: all of it is gone.
WriteNowhere ==
  /\ stage # "write" /\ Accepted("write")
  /\ LET n == msg[cur].nbytes
     IN  ReplyWith("write", n, IF n > 0 THEN "mark_write" ELSE "block", MTimes)

\* "if they tried to write 0 bytes, tell them it worked"
WriteNothing ==
  /\ stage = "write" /\ Accepted("write") /\ msg[cur].nbytes = 0
  /\ ReplyWith("write", 0, "block", MTimes)

ToBeWritten == stage = "write" /\ Accepted("write") /\ msg[cur].nbytes > 0

Malloc ==
  /\ ToBeWritten /\ Goes("write", "get")
  /\ buf' = msg[cur].nbytes
  /\ UNCHANGED <<channel, cur, nb, ocb, flags, taken, used>>

MallocFails == ToBeWritten /\ Refused("write") /\ UNCHANGED buf

\* resmgr_msgget: as much of the data as the client has sent
MsgGet ==
  /\ Goes("get", "output")
  /\ nb' \in 0 .. msg[cur].nbytes
  /\ UNCHANGED <<channel, cur, buf, ocb, flags, taken, used>>

\* Fault: -1 is taken for a length.
MsgGetUnchecked ==
  /\ Goes("get", "output")
  /\ nb' = -1
  /\ UNCHANGED <<channel, cur, buf, ocb, flags, taken, used>>

MsgGetFails == Refused("get") /\ buf' = NoOne

\* write(STDOUT_FILENO, buf, nb), which may take less, and free
Output ==
  /\ Goes("output", "reply")
  /\ taken' \in 0 .. nb
  /\ buf' = NoOne
  /\ UNCHANGED <<channel, cur, nb, ocb, flags, used>>

\* Fault: what write returns is not looked at.
OutputUnchecked ==
  /\ Goes("output", "reply")
  /\ buf' = NoOne
  /\ UNCHANGED <<channel, cur, nb, ocb, flags, taken, used>>

OutputFails == Refused("output") /\ buf' = NoOne

\* The number is that of the bytes offered, whatever write has returned.
WriteReply == ReplyWith("reply", nb, IF nb > 0 THEN "mark_write" ELSE "block", MTimes)

MarkWrite == Mark("mark_write", MTimes)

-----------------------------------------------------------------------------
(* The clients *)

\* open: the name leads to a connection ...
Connect(c) == mpc # "attach" /\ NameOpen(c) /\ UNCHANGED manager

\* ... on which the connect message is sent, and then reads and writes.
SendRequest(c) ==
  /\ \E m \in Requests : (m.type = "open" <=> ocb[c] = NoOne) /\ MsgSend(c, m)
  /\ UNCHANGED manager

\* close, exit, or a kill at any time; a failed open may be tried again
End(c) == ClientEnds(c) /\ UNCHANGED manager

Restart(c) == ClientRestarts(c) /\ UNCHANGED manager

-----------------------------------------------------------------------------
Receive ==
  \/ \E c \in Clients : GetMessage(c) \/ GetUnblock(c)
  \/ \E s \in Scoids : GetDisconnect(s)

Handle ==
  \/ Attach \/ Detach \/ IoOpen \/ IoOpenFails \/ NotOpenForThis \/ SpecialXtype
  \/ ReadData \/ ReadNothing \/ MarkRead
  \/ WriteNowhere \/ WriteNothing \/ Malloc \/ MallocFails
  \/ MsgGet \/ MsgGetFails \/ Output \/ OutputFails \/ WriteReply \/ MarkWrite

Client(c) == Connect(c) \/ SendRequest(c) \/ End(c) \/ Restart(c)

Next == Receive \/ Handle \/ \E c \in Clients : Client(c)

Spec == Init /\ [][Next]_vars

(***************************************************************************)
(* The manager is scheduled, its calls return, and what waits at the       *)
(* channel is received some time.  Clients owe nothing.                    *)
(***************************************************************************)
Fairness ==
  /\ WF_vars(Handle)
  /\ \A c \in Clients : SF_vars(GetMessage(c))

FairSpec == Spec /\ Fairness

-----------------------------------------------------------------------------
(* Properties *)

TypeOK ==
  /\ ChannelTypeOK(Requests, [errno : {"EOK", "some error"}, n : Nat])
  /\ stage \in Stages
  /\ mpc \in {"attach", "block", "detach", "open", "read", "write", "get",
              "output", "reply", "mark_read", "mark_write"}
  /\ cur \in Clients \cup Scoids \cup {NoOne}
  /\ nb \in Nat /\ buf \in Nat \cup {NoOne}
  /\ ocb \in [Clients -> (SUBSET {"read", "write"}) \cup {NoOne}]
  /\ flags \subseteq {"ATIME", "MTIME", "CTIME"}
  /\ taken \in Nat \cup {NoOne}
  /\ used \subseteq {"ATIME", "MTIME", "CTIME"}

\* c gets the answer to a write.
AnsweringWrite(c) ==
  /\ cur = c /\ msg[c].type = "write"
  /\ blocked[c] = "reply" /\ blocked'[c] = "running"

\* Whichever way a handler returns, it leaves the accounts in order.  No client is
\* told of an error, which it would answer with a second try, after its bytes were
\* offered to stdout; none is told of a number of bytes that were not offered, or
\* of fewer than stdout took.  Between two requests no buffer is left, and the
\* times are marked that the answers call for, in the later stages no others.
WritesAccounted ==
  [][/\ \A c \in Clients : stage = "write" /\ AnsweringWrite(c) =>
          IF answer'[c] = Error THEN taken = NoOne
          ELSE \/ taken \in 0 .. answer'[c].n
               \/ taken = NoOne /\ answer'[c].n = 0
     /\ mpc' = "block" =>
          /\ buf' = NoOne
          /\ used' \subseteq flags'
          /\ stage # "initialization" => flags' = used']_vars

\* example.c:273: "unblock the client with the correct number of bytes written".
ToldWhatWasWritten ==
  [][\A c \in Clients :
       stage = "write" /\ AnsweringWrite(c) /\ answer'[c] # Error =>
         answer'[c].n = IF taken = NoOne THEN 0 ELSE taken]_vars

\* example_initialization.c:193: "mark access time for update if any data was read".
AccessTimeOfDataRead == "ATIME" \in flags => "ATIME" \in used

\* What a request may be answered.
Deserved(c, m) ==
  IF m.type = "open" THEN {Told(0), Error}
  ELSE IF m.type \notin ocb[c] \/ m.xtype THEN {Error}
  ELSE IF m.type = "read" THEN
    {Told(n) : n \in IF stage = "initialization" THEN {0}
                     ELSE IF m.nbytes > DataSize THEN {DataSize} ELSE {m.nbytes}}
  ELSE IF stage # "write" \/ m.nbytes = 0 THEN {Told(m.nbytes)}
  ELSE {Error} \cup {Told(n) : n \in 0 .. m.nbytes}

Due ==
  [c \in Clients |->
     IF blocked[c] \in {"send", "reply"} THEN Deserved(c, msg[c]) ELSE {}]

\* The manager implements the abstract server: every handler, whichever way it
\* returns, answers its request once and with its own client's numbers, and no
\* client waits for ever.
Service == INSTANCE RequestServer WITH NoAnswer <- NoOne, due <- Due

ServerSpec == Service!Spec
=============================================================================
