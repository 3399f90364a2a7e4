----------------------- MODULE RequestServers_proof ------------------------
(***************************************************************************)
(* Proofs about the servers that owe each request one answer, in two       *)
(* chapters: the example resource manager of rm_intro, ResMgr, and the     *)
(* checksum servers of ipc, ChecksumService.  Both implement RequestServer *)
(* with the operators of QnxChannel; no theorem is about both.             *)
(***************************************************************************)
EXTENDS ResMgr, ChecksumService, QnxChannel_proof, SequenceTheorems,
        WellFoundedInduction

-----------------------------------------------------------------------------
(* ResMgr, for any number of clients and any of the three stages *)

\* Every number that a client may be told
Answers == [errno : {"EOK", "some error"}, n : Nat]

\* What a location and a variable of the manager may hold
ManagerTypeOK ==
  /\ stage \in Stages
  /\ mpc \in {"attach", "block", "detach", "open", "read", "write", "get",
              "output", "reply", "mark_read", "mark_write"}
  /\ nb \in Nat /\ buf \in Nat \cup {NoOne}
  /\ ocb \in [Clients -> (SUBSET {"read", "write"}) \cup {NoOne}]
  /\ flags \subseteq {"ATIME", "MTIME", "CTIME"}
  /\ taken \in Nat \cup {NoOne}
  /\ used \subseteq {"ATIME", "MTIME", "CTIME"}

\* Where io_write is past its checks
Writing == {"get", "output", "reply"}

\* Where the manager owes an answer
Handling == {"open", "read", "write"} \cup Writing

\* A client is REPLY-blocked exactly while the manager handles its request.
OneOpenRequest ==
  /\ mpc \in Handling => cur \in Clients /\ blocked[cur] = "reply"
  /\ \A c \in Clients : blocked[c] = "reply" => mpc \in Handling /\ cur = c

\* The handler is the one for the type of the request.
RightHandler ==
  mpc \in Handling => msg[cur].type = IF mpc \in Writing THEN "write" ELSE mpc

\* The manager detaches only what a disconnect pulse has named; otherwise it
\* has forgotten whom it looked after.
DetachesTheGone ==
  /\ mpc = "detach" => cur \in Scoids /\ Gone(cur)
  /\ mpc \notin Handling \cup {"detach"} => cur = NoOne

\* Past the checks of io_write, they still hold.
WriteIsLegal ==
  mpc \in Writing =>
    /\ stage = "write" /\ "write" \in ocb[cur]
    /\ ~msg[cur].xtype /\ msg[cur].nbytes > 0

\* The memory of io_write and what it knows of the data.
LocalsFit ==
  /\ mpc \notin {"get", "output"} => buf = NoOne
  /\ IF mpc \in {"output", "reply"} THEN nb \in 0 .. msg[cur].nbytes ELSE nb = 0
  /\ IF mpc = "reply" THEN taken \in 0 .. nb ELSE taken = NoOne

\* The times that the handler is still to mark.
ToBeMarked ==
  IF mpc = "mark_read" THEN ATime ELSE IF mpc = "mark_write" THEN MTimes ELSE {}

\* The times that replies call for are marked, or their handler is about to; in
\* the first stage a read of nothing may mark more.
TimesKept ==
  /\ used \subseteq flags \cup ToBeMarked
  /\ stage # "initialization" => used = flags \cup ToBeMarked

\* The inductive invariant
IInv ==
  /\ ChannelInv(Requests, Answers)
  /\ ManagerTypeOK
  /\ OneOpenRequest
  /\ RightHandler
  /\ DetachesTheGone
  /\ WriteIsLegal
  /\ LocalsFit
  /\ TimesKept
-----------------------------------------------------------------------------
(* What the proofs need to know of the data *)

\* Error and success are answers.
LEMMA AnswersAre == Error \in Answers /\ \A n \in Nat : Told(n) \in Answers
BY DEF Error, Told, Answers

\* What a handler knows of its request.
LEMMA RequestIs ==
  ASSUME IInv, mpc \in Handling
  PROVE  /\ cur \in Clients /\ blocked[cur] = "reply" /\ msg[cur] \in Requests
         /\ mpc = "open" =>
              msg[cur].type = "open" /\ msg[cur].mode \subseteq {"read", "write"}
         /\ mpc # "open" =>
              /\ msg[cur].type \in {"read", "write"} /\ msg[cur].type # "open"
              /\ msg[cur].nbytes \in Nat /\ msg[cur].xtype \in BOOLEAN
<1>1. cur \in Clients /\ blocked[cur] = "reply" /\ msg[cur] \in Requests
  BY DEF IInv, OneOpenRequest, ChannelInv, BlockedHaveSent
<1>2. msg[cur].type = IF mpc \in Writing THEN "write" ELSE mpc
  BY DEF IInv, RightHandler
<1>3. \/ msg[cur].type = "open" /\ msg[cur].mode \subseteq {"read", "write"}
      \/ /\ msg[cur].type \in {"read", "write"}
         /\ msg[cur].nbytes \in Nat /\ msg[cur].xtype \in BOOLEAN
  BY <1>1, ResMgrAssumption
<1> QED
  BY <1>1, <1>2, <1>3 DEF Handling, Writing

\* The manager starts with everything in order.
LEMMA InitIInv == Init => IInv
<1> SUFFICES ASSUME Init PROVE IInv
  OBVIOUS
<1> USE DEF Init
<1>1. ChannelInv(Requests, Answers)
  BY ChannelStarts
<1>2. \A c \in Clients : blocked[c] # "reply"
  BY DEF ChannelInit
<1>3. OneOpenRequest /\ RightHandler /\ DetachesTheGone /\ WriteIsLegal
  BY <1>2 DEF OneOpenRequest, RightHandler, DetachesTheGone, WriteIsLegal, Handling,
              Writing
<1> QED
  BY <1>1, <1>3
  DEF IInv, ManagerTypeOK, LocalsFit, TimesKept, ToBeMarked

\* A client's steps leave the request that is being handled as it is.
LEMMA ClientKeeps ==
  ASSUME IInv, NEW c \in Clients, Client(c)
  PROVE  IInv'
<1>1. /\ ChannelInv(Requests, Answers)' /\ ScoidsStay
      /\ UNCHANGED manager
  BY NameOpenKeeps, MsgSendKeeps, ClientEndsKeeps, ClientRestartsKeeps
  DEF IInv, Client, Connect, SendRequest, End, Restart
<1>2. \A d \in Clients :
        /\ blocked'[d] = "reply" <=> blocked[d] = "reply"
        /\ blocked[d] = "reply" => msg'[d] = msg[d]
  BY DEF IInv, ChannelInv, ChannelTypeOK, Client, Connect, SendRequest, End, Restart,
         NameOpen, MsgSend, ClientEnds, ClientRestarts
<1>3. mpc \in Handling => cur \in Clients /\ msg'[cur] = msg[cur]
  BY <1>2 DEF IInv, OneOpenRequest
<1> USE <1>1 DEF manager, IInv
<1>4. ManagerTypeOK' /\ TimesKept'
  BY DEF ManagerTypeOK, TimesKept, ToBeMarked
<1>5. OneOpenRequest'
  BY <1>2 DEF OneOpenRequest
<1>6. RightHandler' /\ WriteIsLegal' /\ LocalsFit'
  BY <1>3 DEF RightHandler, WriteIsLegal, LocalsFit, Handling, Writing
<1>7. DetachesTheGone'
  BY DEF DetachesTheGone, ScoidsStay
<1> QED
  BY <1>4, <1>5, <1>6, <1>7

\* The manager has waited in dispatch_block, and nobody is REPLY-blocked.
LEMMA ReceiveKeeps ==
  ASSUME IInv, Receive
  PROVE  IInv'
<1>1. ASSUME NEW c \in Clients, GetMessage(c) PROVE IInv'
  <2> USE <1>1 DEF GetMessage, Goes, IInv
  <2>1. ChannelInv(Requests, Answers)'
    BY MsgReceiveKeeps
  <2>2. /\ msg[c] \in Requests /\ msg'[c] = msg[c] /\ blocked'[c] = "reply"
        /\ \A d \in Clients : blocked'[d] = "reply" => d = c
        /\ mpc' \in {"open", "read", "write"} /\ mpc' = msg[c].type
    <3>1. blocked[c] = "send" /\ msg[c] \in Requests
      BY DEF MsgReceive, ChannelInv, BlockedHaveSent
    <3>2. \A d \in Clients : blocked[d] # "reply"
      BY DEF OneOpenRequest, Handling, Writing
    <3> QED
      BY <3>1, <3>2, ResMgrAssumption DEF MsgReceive, ChannelInv, ChannelTypeOK
  <2>3. ManagerTypeOK' /\ TimesKept' /\ LocalsFit'
    BY <2>2 DEF ManagerTypeOK, TimesKept, ToBeMarked, LocalsFit
  <2>4. OneOpenRequest' /\ RightHandler' /\ DetachesTheGone' /\ WriteIsLegal'
    BY <2>2 DEF OneOpenRequest, RightHandler, DetachesTheGone, WriteIsLegal, Handling,
                Writing
  <2> QED
    BY <2>1, <2>3, <2>4
<1>2. ASSUME NEW s \in Scoids, GetDisconnect(s) PROVE IInv'
  <2> USE <1>2 DEF GetDisconnect, Goes, IInv
  <2>1. ChannelInv(Requests, Answers)' /\ Gone(s)'
    BY ReceivePulseKeeps
  <2>2. \A d \in Clients : blocked'[d] # "reply"
    BY DEF OneOpenRequest, Handling, Writing, ReceivePulse
  <2>3. ManagerTypeOK' /\ TimesKept' /\ LocalsFit'
    BY DEF ManagerTypeOK, TimesKept, ToBeMarked, LocalsFit
  <2>4. OneOpenRequest' /\ RightHandler' /\ DetachesTheGone' /\ WriteIsLegal'
    BY <2>1, <2>2
    DEF OneOpenRequest, RightHandler, DetachesTheGone, WriteIsLegal, Handling, Writing
  <2> QED
    BY <2>1, <2>3, <2>4
<1>3. ASSUME NEW c \in Clients, GetUnblock(c) PROVE IInv'
  <2> USE <1>3 DEF GetUnblock, Goes, IInv
  <2>1. ChannelInv(Requests, Answers)'
    BY ReceivePulseKeeps
  <2>2. \A d \in Clients : blocked'[d] # "reply"
    BY DEF OneOpenRequest, Handling, Writing, ReceivePulse
  <2>3. ManagerTypeOK' /\ TimesKept' /\ LocalsFit'
    BY DEF ManagerTypeOK, TimesKept, ToBeMarked, LocalsFit
  <2>4. OneOpenRequest' /\ RightHandler' /\ DetachesTheGone' /\ WriteIsLegal'
    BY <2>2
    DEF OneOpenRequest, RightHandler, DetachesTheGone, WriteIsLegal, Handling, Writing
  <2> QED
    BY <2>1, <2>3, <2>4
<1> QED
  BY <1>1, <1>2, <1>3 DEF Receive

\* The handlers that answer nobody.
LEMMA ChannelKeeps ==
  ASSUME IInv, UNCHANGED channel
  PROVE  ChannelInv(Requests, Answers)' /\ \A s \in Scoids : Gone(s) => Gone(s)'
BY DEF channel, IInv, ChannelInv, ChannelTypeOK, ScoidsUnique, BlockedHaveSent,
       PulsesAreTrue, Gone, ClientIsGone

\* ConnectDetach gives back the scoid of a client that has gone.
LEMMA DetachKeeps ==
  ASSUME IInv, Detach
  PROVE  IInv'
<1> USE DEF Detach, Goes, IInv
<1>1. cur \in Scoids /\ Gone(cur)
  BY DEF DetachesTheGone
<1>2. ChannelInv(Requests, Answers)'
  BY <1>1, ConnectDetachKeeps
<1>3. \A d \in Clients : blocked'[d] # "reply"
  BY DEF OneOpenRequest, Handling, Writing, ConnectDetach
<1>4. ManagerTypeOK' /\ TimesKept' /\ LocalsFit'
  BY DEF ManagerTypeOK, TimesKept, ToBeMarked, LocalsFit
<1>5. OneOpenRequest' /\ RightHandler' /\ DetachesTheGone' /\ WriteIsLegal'
  BY <1>3 DEF OneOpenRequest, RightHandler, DetachesTheGone, WriteIsLegal, Handling,
              Writing
<1> QED
  BY <1>2, <1>4, <1>5

\* io_write between its checks and its reply.
LEMMA WritingKeeps ==
  ASSUME IInv, Malloc \/ MsgGet \/ Output
  PROVE  IInv'
<1> USE DEF Malloc, MsgGet, Output, ToBeWritten, Accepted, Verified, Goes, IInv
<1>1. /\ UNCHANGED <<channel, cur, stage, ocb, flags, used>>
      /\ mpc \in Handling \ {"open", "read"} /\ mpc' \in Writing /\ mpc # "reply"
  BY DEF Handling, Writing
<1>2. ChannelInv(Requests, Answers)'
  BY <1>1, ChannelKeeps
<1>3. /\ cur \in Clients /\ msg[cur].nbytes \in Nat /\ msg' = msg
      /\ blocked' = blocked
  BY <1>1, RequestIs DEF channel
<1>4. WriteIsLegal' /\ OneOpenRequest' /\ RightHandler' /\ DetachesTheGone'
  <2>1. OneOpenRequest' /\ RightHandler' /\ DetachesTheGone'
    BY <1>1, <1>3 DEF OneOpenRequest, RightHandler, DetachesTheGone, Handling, Writing
  <2>2. mpc \in Writing => WriteIsLegal'
    BY <1>1, <1>3 DEF WriteIsLegal
  <2>3. mpc = "write" => WriteIsLegal'
    BY <1>1, <1>3 DEF WriteIsLegal, Writing
  <2> QED
    BY <1>1, <2>1, <2>2, <2>3 DEF Handling
<1>5. LocalsFit'
  BY <1>3 DEF LocalsFit
<1>6. ManagerTypeOK' /\ TimesKept'
  BY <1>1, <1>3, <1>5 DEF ManagerTypeOK, TimesKept, ToBeMarked, LocalsFit, Writing
<1> QED
  BY <1>2, <1>4, <1>5, <1>6

\* main, and the times that are marked after the reply.
LEMMA OtherKeeps ==
  ASSUME IInv, Attach \/ MarkRead \/ MarkWrite
  PROVE  IInv'
<1> USE DEF Attach, MarkRead, MarkWrite, Mark, Goes, IInv
<1>1. /\ UNCHANGED <<channel, cur, stage, nb, buf, ocb, taken, used>>
      /\ mpc \in {"attach", "mark_read", "mark_write"} /\ mpc' = "block"
      /\ flags' = flags \cup ToBeMarked
  BY DEF ToBeMarked
<1>2. ChannelInv(Requests, Answers)' /\ blocked' = blocked
  BY <1>1, ChannelKeeps DEF channel
<1>3. OneOpenRequest' /\ RightHandler' /\ DetachesTheGone' /\ WriteIsLegal' /\ LocalsFit'
  BY <1>1, <1>2
  DEF OneOpenRequest, RightHandler, DetachesTheGone, WriteIsLegal, LocalsFit, Handling,
      Writing
<1>4. ManagerTypeOK' /\ TimesKept'
  BY <1>1 DEF ManagerTypeOK, TimesKept, ToBeMarked, ATime, MTimes
<1> QED
  BY <1>2, <1>3, <1>4

\* A handler answers its request and is done with it.
LEMMA AnswerKeeps ==
  ASSUME IInv, mpc \in Handling, NEW a \in Answers, MsgReply(cur, a),
         mpc' \in {"block", "mark_read", "mark_write"},
         cur' = NoOne, nb' = 0, taken' = NoOne, buf' = NoOne,
         UNCHANGED <<stage, flags>>,
         ocb' \in [Clients -> (SUBSET {"read", "write"}) \cup {NoOne}],
         used' \subseteq used \cup ToBeMarked',
         stage # "initialization" => used' = used \cup ToBeMarked'
  PROVE  IInv'
<1> USE DEF IInv
<1>1. cur \in Clients /\ blocked[cur] = "reply"
  BY RequestIs
<1>2. ChannelInv(Requests, Answers)'
  BY <1>1, MsgReplyKeeps
<1>3. \A d \in Clients : blocked'[d] # "reply"
  BY <1>1 DEF MsgReply, OneOpenRequest, ChannelInv, ChannelTypeOK
<1>4. OneOpenRequest' /\ RightHandler' /\ DetachesTheGone' /\ WriteIsLegal' /\ LocalsFit'
  BY <1>3
  DEF OneOpenRequest, RightHandler, DetachesTheGone, WriteIsLegal, LocalsFit, Handling,
      Writing
<1>5. ToBeMarked = {} /\ ToBeMarked' \subseteq {"ATIME", "MTIME", "CTIME"}
  BY DEF ToBeMarked, Handling, Writing, ATime, MTimes
<1>6. ManagerTypeOK' /\ TimesKept'
  BY <1>5 DEF ManagerTypeOK, TimesKept
<1> QED
  BY <1>2, <1>4, <1>6

\* An error leaves no time to be marked and no memory.
LEMMA RefusalKeeps ==
  ASSUME IInv, NEW from \in Handling, Refused(from),
         buf' = NoOne
  PROVE  IInv'
<1> USE DEF Refused, Goes
<1>1. mpc = from /\ ToBeMarked' = {}
  BY DEF ToBeMarked
<1>2. ocb' \in [Clients -> (SUBSET {"read", "write"}) \cup {NoOne}]
  BY DEF IInv, ManagerTypeOK
<1> QED
  BY <1>1, <1>2, AnswersAre, AnswerKeeps

\* A success goes on to mark the times that it calls for.
LEMMA ReplyKeeps ==
  ASSUME IInv, NEW from \in {"read", "write", "reply"}, NEW n \in Nat,
         NEW to \in {"block", "mark_read", "mark_write"}, NEW times,
         ReplyWith(from, n, to, times),
         (IF n > 0 THEN times ELSE {}) \subseteq ToBeMarked',
         stage # "initialization" => ToBeMarked' = IF n > 0 THEN times ELSE {}
  PROVE  IInv'
<1> USE DEF ReplyWith, Goes
<1>1. mpc = from /\ from \in Handling /\ buf' = NoOne
  BY DEF IInv, LocalsFit, Handling, Writing
<1>2. ocb' \in [Clients -> (SUBSET {"read", "write"}) \cup {NoOne}]
  BY DEF IInv, ManagerTypeOK
<1>3. /\ used' \subseteq used \cup ToBeMarked'
      /\ stage # "initialization" => used' = used \cup ToBeMarked'
  OBVIOUS
<1> QED
  BY <1>1, <1>2, <1>3, AnswersAre, AnswerKeeps

\* io_open
LEMMA OpenKeeps ==
  ASSUME IInv, IoOpen \/ IoOpenFails
  PROVE  IInv'
<1>1. CASE IoOpen
  <2> USE <1>1 DEF IoOpen, Goes
  <2>1. mpc \in Handling /\ ToBeMarked' = {} /\ 0 \in Nat
    BY DEF Handling, ToBeMarked
  <2>2. nb' = 0 /\ taken' = NoOne /\ buf' = NoOne
    BY DEF IInv, LocalsFit
  <2>3. ocb' \in [Clients -> (SUBSET {"read", "write"}) \cup {NoOne}]
    BY <2>1, RequestIs DEF IInv, ManagerTypeOK
  <2> QED
    BY <2>1, <2>2, <2>3, AnswersAre, AnswerKeeps
<1>2. CASE IoOpenFails
  <2>1. buf' = NoOne /\ "open" \in Handling
    BY <1>2 DEF IoOpenFails, Refused, Goes, IInv, LocalsFit, Handling
  <2> QED
    BY <1>2, <2>1, RefusalKeeps DEF IoOpenFails
<1> QED
  BY <1>1, <1>2

\* io_read and io_write refuse.
LEMMA IORefusalKeeps ==
  ASSUME IInv,
         NotOpenForThis \/ SpecialXtype \/ MallocFails \/ MsgGetFails \/ OutputFails
  PROVE  IInv'
<1>1. \E from \in Handling : Refused(from) /\ buf' = NoOne
  BY DEF NotOpenForThis, SpecialXtype, MallocFails, MsgGetFails, OutputFails, Refused,
         Goes, IInv, LocalsFit, Handling, Writing
<1> QED
  BY <1>1, RefusalKeeps

\* io_read and io_write reply.
LEMMA IOReplyKeeps ==
  ASSUME IInv, ReadData \/ ReadNothing \/ WriteNowhere \/ WriteNothing \/ WriteReply
  PROVE  IInv'
<1> USE DEF Accepted, ToBeMarked
<1>1. mpc \in {"read", "write", "reply"} => msg[cur].nbytes \in Nat
  BY RequestIs DEF Handling, Writing
<1>2. CASE ReadData
  <2> DEFINE n == IF DataSize < msg[cur].nbytes THEN DataSize ELSE msg[cur].nbytes
             to == IF n > 0 THEN "mark_read" ELSE "block"
  <2>1. stage # "initialization" /\ mpc = "read" /\ ReplyWith("read", n, to, ATime)
    BY <1>2 DEF ReadData
  <2>2. n \in Nat
    BY <1>1, <2>1, ResMgrAssumption
  <2>3. mpc' = to
    BY <2>1 DEF ReplyWith, Goes
  <2>4. ToBeMarked' = IF n > 0 THEN ATime ELSE {}
    BY <2>3
  <2> HIDE DEF n
  <2> QED
    BY <2>1, <2>2, <2>4, ReplyKeeps
<1>3. CASE ReadNothing
  <2> DEFINE to == IF msg[cur].nbytes > 0 THEN "mark_read" ELSE "block"
  <2>1. stage = "initialization" /\ mpc = "read" /\ ReplyWith("read", 0, to, ATime)
    BY <1>3 DEF ReadNothing
  <2> QED
    BY <2>1, ReplyKeeps
<1>4. CASE WriteNowhere
  <2> DEFINE n == msg[cur].nbytes
             to == IF n > 0 THEN "mark_write" ELSE "block"
  <2>1. mpc = "write" /\ ReplyWith("write", n, to, MTimes) /\ n \in Nat
    BY <1>1, <1>4 DEF WriteNowhere
  <2>2. mpc' = to
    BY <2>1 DEF ReplyWith, Goes
  <2>3. ToBeMarked' = IF n > 0 THEN MTimes ELSE {}
    BY <2>2
  <2> HIDE DEF n
  <2> QED
    BY <2>1, <2>3, ReplyKeeps
<1>5. CASE WriteNothing
  <2>1. mpc' = "block" /\ ReplyWith("write", 0, "block", MTimes)
    BY <1>5 DEF WriteNothing, ReplyWith, Goes
  <2> QED
    BY <2>1, ReplyKeeps
<1>6. CASE WriteReply
  <2> DEFINE to == IF nb > 0 THEN "mark_write" ELSE "block"
  <2>1. mpc = "reply" /\ ReplyWith("reply", nb, to, MTimes) /\ nb \in Nat
    BY <1>6 DEF WriteReply, ReplyWith, Goes, IInv, ManagerTypeOK
  <2>2. mpc' = to
    BY <2>1 DEF ReplyWith, Goes
  <2>3. ToBeMarked' = IF nb > 0 THEN MTimes ELSE {}
    BY <2>2
  <2> QED
    BY <2>1, <2>3, ReplyKeeps
<1> QED
  BY <1>2, <1>3, <1>4, <1>5, <1>6

\* Nothing changes while nobody does anything.
LEMMA StutterKeeps == IInv /\ UNCHANGED vars => IInv'
<1> SUFFICES ASSUME IInv, UNCHANGED vars PROVE IInv'
  OBVIOUS
<1>1. ChannelInv(Requests, Answers)' /\ (\A s \in Scoids : Gone(s) => Gone(s)')
  BY ChannelKeeps DEF vars
<1> QED
  BY <1>1
  DEF vars, channel, manager, IInv, ManagerTypeOK, OneOpenRequest, RightHandler,
      DetachesTheGone, WriteIsLegal, LocalsFit, TimesKept, ToBeMarked

\* Every step of the manager, of a client and of the channel keeps the invariant.
LEMMA StepIInv == IInv /\ [Next]_vars => IInv'
BY ClientKeeps, ReceiveKeeps, DetachKeeps, WritingKeeps, OtherKeeps, OpenKeeps,
   IORefusalKeeps, IOReplyKeeps, StutterKeeps
DEF Next, Handle

\* The invariant holds in every state of the manager and its clients.
THEOREM SpecIInv == Spec => []IInv
  BY InitIInv, StepIInv, PTL DEF Spec

\* The variables keep their types.
THEOREM TypeCorrect == Spec => []TypeOK
<1>1. IInv => TypeOK
  BY DEF IInv, TypeOK, ManagerTypeOK, ChannelInv, Answers, OneOpenRequest,
         DetachesTheGone, Handling, Writing
<1> QED
  BY <1>1, SpecIInv, PTL

\* Who waits for the manager is the one whose request it has in hand.
WaitsForHandler ==
  \A c \in Clients : blocked[c] = "reply" => mpc \in Handling /\ cur = c

\* example.c and the stages before it: the manager never blocks for the next
\* request with a client left REPLY-blocked, on no way out of a handler.
THEOREM NobodyLeftBlocked == Spec => []WaitsForHandler
<1>1. IInv => WaitsForHandler
  BY DEF IInv, OneOpenRequest, WaitsForHandler
<1> QED
  BY <1>1, SpecIInv, PTL

-----------------------------------------------------------------------------
(* What a client is told of its input and output *)

\* What WritesAccounted says of one answer
AnswerAccounted(c) ==
  IF answer'[c] = Error THEN taken = NoOne
  ELSE \/ taken \in 0 .. answer'[c].n
       \/ taken = NoOne /\ answer'[c].n = 0

\* WritesAccounted, of one step
StepAccounted ==
  /\ \A c \in Clients : stage = "write" /\ AnsweringWrite(c) => AnswerAccounted(c)
  /\ mpc' = "block" =>
       /\ buf' = NoOne
       /\ used' \subseteq flags'
       /\ stage # "initialization" => flags' = used'

\* At dispatch_block the memory is free and the times are marked.
LEMMA BetweenRequests ==
  ASSUME IInv, IInv', [Next]_vars, mpc' = "block"
  PROVE  /\ buf' = NoOne
         /\ used' \subseteq flags'
         /\ stage # "initialization" => flags' = used'
<1>1. stage' = stage
  BY DEF Next, Receive, Handle, Client, GetMessage, GetDisconnect, GetUnblock, Attach,
         Detach, IoOpen, IoOpenFails, NotOpenForThis, SpecialXtype, ReadData, ReadNothing,
         MarkRead, WriteNowhere, WriteNothing, Malloc, MallocFails, MsgGet, MsgGetFails,
         Output, OutputFails, WriteReply, MarkWrite, Refused, ReplyWith, Mark, Goes,
         Connect, SendRequest, End, Restart, manager, vars
<1> QED
  BY <1>1 DEF IInv, LocalsFit, TimesKept, ToBeMarked

\* In the steps that answer nobody no client leaves MsgSend.
LEMMA OnlyRepliesAnswer ==
  ASSUME IInv, [Next]_vars, NEW c \in Clients,
         blocked[c] = "reply", blocked'[c] = "running"
  PROVE  /\ cur = c
         /\ \/ \E from \in Handling \ {"reply"} : Refused(from)
            \/ IoOpen \/ ReadData \/ ReadNothing \/ WriteNowhere \/ WriteNothing
            \/ WriteReply
<1>1. cur = c /\ mpc \in Handling
  BY DEF IInv, OneOpenRequest
<1>2. blocked' # blocked
  OBVIOUS
<1>3. ~Receive
  BY <1>1 DEF Receive, GetMessage, GetDisconnect, GetUnblock, Goes, Handling, Writing
<1>4. \A d \in Clients : ~Client(d)
  BY DEF IInv, ChannelInv, ChannelTypeOK, Client, Connect, SendRequest, End, Restart,
         NameOpen, MsgSend, ClientEnds, ClientRestarts
<1>5. ~(\/ Attach \/ Detach \/ MarkRead \/ MarkWrite \/ Malloc \/ MsgGet \/ Output
        \/ UNCHANGED vars)
  BY <1>2
  DEF Attach, Detach, ConnectDetach, MarkRead, MarkWrite, Mark, Malloc, MsgGet, Output,
      channel, vars
<1>6. IoOpenFails \/ NotOpenForThis \/ SpecialXtype \/ MallocFails \/ MsgGetFails
        \/ OutputFails
      => \E from \in Handling \ {"reply"} : Refused(from)
  BY DEF IoOpenFails, NotOpenForThis, SpecialXtype, MallocFails, MsgGetFails, OutputFails,
         Handling, Writing
<1> QED
  BY <1>1, <1>3, <1>4, <1>5, <1>6 DEF Next, Handle

\* A client that goes on has been told the answer.
LEMMA AnswerIsTold ==
  ASSUME IInv, NEW c \in Clients, NEW a, MsgReply(c, a),
         blocked[c] = "reply", blocked'[c] = "running"
  PROVE  answer'[c] = a
BY DEF MsgReply, IInv, ChannelInv, ChannelTypeOK

\* The paths through io_write that answer: a refusal comes before stdout was offered
\* anything, a success with a number after it was offered that number of bytes.
LEMMA StepAnswers == IInv /\ IInv' /\ [Next]_vars => StepAccounted
<1> SUFFICES ASSUME IInv, IInv', [Next]_vars PROVE StepAccounted
  OBVIOUS
<1>1. ASSUME NEW c \in Clients, stage = "write", AnsweringWrite(c)
      PROVE  AnswerAccounted(c)
  <2> USE <1>1 DEF AnsweringWrite
  <2>1. cur = c /\ mpc \in Handling /\ mpc \notin {"open", "read"}
    BY OnlyRepliesAnswer DEF IInv, OneOpenRequest, RightHandler, Writing
  <2>2. CASE \E from \in Handling \ {"reply"} : Refused(from)
    <3>1. PICK from \in Handling \ {"reply"} : Refused(from)
      BY <2>2
    <3>2. answer'[c] = Error
      BY <2>1, <3>1, AnswerIsTold DEF Refused
    <3>3. mpc # "reply"
      BY <3>1 DEF Refused, Goes
    <3> QED
      BY <3>2, <3>3 DEF IInv, LocalsFit, AnswerAccounted
  <2>3. CASE WriteNothing
    <3>1. answer'[c] = Told(0)
      BY <2>1, <2>3, AnswerIsTold DEF WriteNothing, ReplyWith
    <3>2. answer'[c].n = 0 /\ taken = NoOne
      BY <2>3, <3>1 DEF WriteNothing, Accepted, Told, IInv, LocalsFit
    <3> QED
      BY <3>2 DEF AnswerAccounted
  <2>4. CASE WriteReply
    <3>1. answer'[c] = Told(nb) /\ mpc = "reply"
      BY <2>1, <2>4, AnswerIsTold DEF WriteReply, ReplyWith, Goes
    <3>2. taken \in 0 .. nb
      BY <3>1 DEF IInv, LocalsFit
    <3>3. answer'[c].n = nb
      BY <3>1 DEF Told
    <3>4. answer'[c].errno = "EOK" /\ Error.errno = "some error"
      BY <3>1 DEF Told, Error
    <3> QED
      BY <3>2, <3>3, <3>4 DEF AnswerAccounted
  <2> QED
    BY <2>1, <2>2, <2>3, <2>4, OnlyRepliesAnswer
    DEF IoOpen, ReadData, ReadNothing, WriteNowhere, Accepted, Goes
<1> QED
  BY <1>1, BetweenRequests DEF StepAccounted

\* example.c, io_write: no client is told of an error after its bytes were offered
\* to stdout, of a number that was not offered, or of less than stdout took;
\* between two requests no buffer is left and the times are marked that the answers
\* call for.  (The number told may be more than stdout took, and in the first stage
\* the access time is marked without an answer that calls for it: of these two the
\* runs show how.)
THEOREM WritesAreAccounted == Spec => WritesAccounted
<1>1. IInv /\ IInv' /\ [Next]_vars => StepAccounted
  BY StepAnswers
<1> QED
  BY <1>1, SpecIInv, PTL DEF Spec, WritesAccounted, StepAccounted, AnswerAccounted
-----------------------------------------------------------------------------
(* The manager implements RequestServer: a step of the channel is a step   *)
(* of the abstract server or changes neither Due nor answer.               *)

\* The requests and answers stay as they are.
Unseen == UNCHANGED <<Due, answer>>

\* What a client may be answered does not depend on another client's handle.
LEMMA SameIsUnseen == UNCHANGED <<blocked, msg, answer, ocb, stage>> => Unseen
BY DEF Unseen, Due, Deserved

\* A request is answered from what it finds: the manager's stage and the
\* client's own handle, both of which stay until the reply.
LEMMA AskRefines ==
  ASSUME IInv, NEW c \in Clients, NEW m \in Requests, MsgSend(c, m),
         UNCHANGED <<ocb, stage>>
  PROVE  Service!Ask(c)
<1> USE DEF MsgSend
<1>1. /\ blocked[c] = "running" /\ blocked' = [blocked EXCEPT ![c] = "send"]
      /\ msg' = [msg EXCEPT ![c] = m]
      /\ blocked \in [Clients -> {"running", "send", "reply", "dead"}]
      /\ msg \in [Clients -> Requests \cup {NoOne}]
  BY DEF IInv, ChannelInv, ChannelTypeOK
<1>2. Due[c] = {} /\ Due'[c] = Deserved(c, m)'
  BY <1>1 DEF Due
<1>3. Deserved(c, m)' # {}
  BY DEF Deserved
<1>4. \A d \in Clients \ {c} : Due'[d] = Due[d]
  BY <1>1 DEF Due, Deserved
<1>5. Due' = [Due EXCEPT ![c] = Due'[c]]
  <2>1. Due = [d \in Clients |-> Due[d]] /\ Due' = [d \in Clients |-> Due'[d]]
    BY DEF Due
  <2> QED
    BY <1>4, <2>1
<1> QED
  BY <1>2, <1>3, <1>5 DEF Service!Ask

\* A reply that the request calls for, or the end of a client that was killed
\* while it waited for one.
LEMMA ServeRefines ==
  ASSUME IInv, NEW c \in Clients, NEW a \in Due[c], blocked[c] = "reply", MsgReply(c, a),
         stage' = stage, \A d \in Clients \ {c} : ocb'[d] = ocb[d]
  PROVE  Service!Serve(c) \/ Service!Leave(c)
<1> USE DEF MsgReply
<1>1. /\ blocked' = [blocked EXCEPT ![c] = IF c \in killed THEN "dead" ELSE "running"]
      /\ \A d \in Clients \ {c} : blocked'[d] = blocked[d] /\ msg'[d] = msg[d]
      /\ blocked'[c] \notin {"send", "reply"}
  BY DEF IInv, ChannelInv, ChannelTypeOK
<1>2. Due'[c] = {} /\ \A d \in Clients \ {c} : Due'[d] = Due[d]
  BY <1>1 DEF Due, Deserved
<1>3. Due' = [Due EXCEPT ![c] = {}]
  BY <1>2 DEF Due
<1>4. CASE c \in killed
  BY <1>3, <1>4 DEF Service!Leave
<1>5. CASE c \notin killed
  BY <1>3, <1>5 DEF Service!Serve, IInv, ChannelInv, ChannelTypeOK
<1> QED
  BY <1>4, <1>5

\* A client asks or leaves; connecting and starting again go unseen.
LEMMA ClientRefines ==
  ASSUME IInv, NEW c \in Clients, Client(c)
  PROVE  Service!Next \/ Unseen
<1>1. UNCHANGED <<ocb, stage>>
  BY DEF Client, Connect, SendRequest, End, Restart, manager
<1>2. CASE Connect(c)
  BY <1>1, <1>2, SameIsUnseen DEF Connect, NameOpen
<1>3. CASE SendRequest(c)
  BY <1>1, <1>3, AskRefines DEF SendRequest, Service!Next
<1>4. CASE End(c)
  <2> USE <1>4 DEF End, ClientEnds
  <2>1. CASE blocked[c] = "reply"
    BY <1>1, <2>1, SameIsUnseen
  <2>2. CASE blocked[c] # "reply"
    <3>1. Due' = [Due EXCEPT ![c] = {}]
      BY <1>1, <2>2 DEF Due, Deserved, IInv, ChannelInv, ChannelTypeOK
    <3> QED
      BY <2>2, <3>1 DEF Service!Leave, Service!Next
  <2> QED
    BY <2>1, <2>2
<1>5. CASE Restart(c)
  <2>1. Due' = Due
    BY <1>1, <1>5
    DEF Restart, ClientRestarts, Due, Deserved, IInv, ChannelInv, ChannelTypeOK
  <2> QED
    BY <1>5, <2>1 DEF Restart, ClientRestarts, Unseen
<1> QED
  BY <1>2, <1>3, <1>4, <1>5 DEF Client

\* The message that the manager receives stays an open request, and the library
\* closes the handles of the dead only.
LEMMA ReceiveRefines ==
  ASSUME IInv, Receive
  PROVE  Unseen
<1>1. ASSUME NEW c \in Clients, GetMessage(c) PROVE Unseen
  <2>1. Due' = Due
    BY <1>1 DEF GetMessage, Goes, MsgReceive, Due, Deserved, IInv, ChannelInv,
                ChannelTypeOK
  <2> QED
    BY <1>1, <2>1 DEF GetMessage, MsgReceive, Unseen
<1>2. ASSUME NEW s \in Scoids, GetDisconnect(s) PROVE Unseen
  <2> USE <1>2 DEF GetDisconnect, ReceivePulse, Goes
  <2>1. \A c \in Clients : scoid[c] = s => blocked[c] = "dead"
    BY ChannelAssumption DEF IInv, ChannelInv, PulsesAreTrue, ClientIsGone, ScoidsUnique
  <2>2. \A c \in Clients : blocked[c] \in {"send", "reply"} => ocb'[c] = ocb[c]
    BY <2>1 DEF IInv, ManagerTypeOK
  <2>3. Due' = Due
    BY <2>2 DEF Due, Deserved
  <2> QED
    BY <2>3 DEF Unseen
<1>3. ASSUME NEW c \in Clients, GetUnblock(c) PROVE Unseen
  BY <1>3, SameIsUnseen DEF GetUnblock, ReceivePulse, Goes
<1> QED
  BY <1>1, <1>2, <1>3 DEF Receive

\* A refusal: the request is one that may be refused.
LEMMA RefusalRefines ==
  ASSUME IInv,
         \/ IoOpenFails \/ NotOpenForThis \/ SpecialXtype \/ MallocFails \/ MsgGetFails
         \/ OutputFails
  PROVE  Service!Next
<1>1. /\ mpc \in Handling /\ MsgReply(cur, Error) /\ UNCHANGED <<stage, ocb>>
      /\ cur \in Clients /\ blocked[cur] = "reply"
  BY RequestIs
  DEF IoOpenFails, NotOpenForThis, SpecialXtype, MallocFails, MsgGetFails, OutputFails,
      Refused, Goes, Handling, Writing
<1>2. Error \in Deserved(cur, msg[cur])
  <2>1. CASE IoOpenFails
    BY <2>1, <1>1, RequestIs DEF IoOpenFails, Refused, Goes, Deserved
  <2>2. CASE NotOpenForThis \/ SpecialXtype
    BY <2>2 DEF NotOpenForThis, SpecialXtype, Verified, Deserved, IInv, RightHandler,
                Handling, Writing
  <2>3. CASE MallocFails \/ MsgGetFails \/ OutputFails
    <3>1. /\ stage = "write" /\ msg[cur].nbytes > 0 /\ ~msg[cur].xtype
          /\ msg[cur].type = "write" /\ "write" \in ocb[cur]
      BY <2>3 DEF MallocFails, MsgGetFails, OutputFails, ToBeWritten, Accepted, Verified,
                  Refused, Goes, IInv, RightHandler, WriteIsLegal, Handling, Writing
    <3> QED
      BY <3>1 DEF Deserved
  <2> QED
    BY <2>1, <2>2, <2>3
<1>3. Error \in Due[cur]
  BY <1>1, <1>2 DEF Due
<1> QED
  BY <1>1, <1>3, ServeRefines DEF Service!Next

\* A success: the numbers are the client's own.
LEMMA SuccessRefines ==
  ASSUME IInv,
         IoOpen \/ ReadData \/ ReadNothing \/ WriteNowhere \/ WriteNothing \/ WriteReply
  PROVE  Service!Next
<1>1. mpc \in Handling /\ stage' = stage /\ \A d \in Clients \ {cur} : ocb'[d] = ocb[d]
  BY DEF IoOpen, ReadData, ReadNothing, WriteNowhere, WriteNothing, WriteReply, ReplyWith,
         Goes, Handling, Writing, IInv, ManagerTypeOK
<1>2. cur \in Clients /\ blocked[cur] = "reply"
  BY <1>1, RequestIs
<1>3. \E a \in Deserved(cur, msg[cur]) : MsgReply(cur, a)
  <2>1. CASE IoOpen
    BY <2>1, RequestIs DEF IoOpen, Goes, Deserved, Handling
  <2> USE DEF IInv, RightHandler, Handling, Writing, Accepted, Verified, ReplyWith
  <2>2. CASE ReadData \/ ReadNothing
    <3>1. /\ msg[cur].type = "read" /\ "read" \in ocb[cur] /\ ~msg[cur].xtype
      BY <2>2 DEF ReadData, ReadNothing
    <3>2. msg[cur].nbytes \in Nat /\ DataSize \in Nat
      BY <1>1, <2>2, RequestIs, ResMgrAssumption DEF ReadData, ReadNothing
    <3>3. MsgReply(cur, Told(IF stage = "initialization" THEN 0
                             ELSE IF msg[cur].nbytes > DataSize THEN DataSize
                             ELSE msg[cur].nbytes))
      BY <2>2, <3>2 DEF ReadData, ReadNothing
    <3>4. Told(IF stage = "initialization" THEN 0
               ELSE IF msg[cur].nbytes > DataSize THEN DataSize
               ELSE msg[cur].nbytes) \in Deserved(cur, msg[cur])
      BY <3>1 DEF Deserved
    <3> QED
      BY <3>3, <3>4
  <2>3. CASE WriteNowhere \/ WriteNothing \/ WriteReply
    <3>1. msg[cur].type = "write" /\ "write" \in ocb[cur] /\ ~msg[cur].xtype
      BY <2>3 DEF WriteNowhere, WriteNothing, WriteReply, Goes, WriteIsLegal
    <3>2. CASE WriteNowhere \/ WriteNothing
      <4>1. /\ MsgReply(cur, Told(msg[cur].nbytes))
            /\ stage # "write" \/ msg[cur].nbytes = 0
        BY <3>2 DEF WriteNowhere, WriteNothing
      <4>2. Told(msg[cur].nbytes) \in Deserved(cur, msg[cur])
        BY <3>1, <4>1 DEF Deserved
      <4> QED
        BY <4>1, <4>2
    <3>3. CASE WriteReply
      <4>1. /\ MsgReply(cur, Told(nb)) /\ nb \in 0 .. msg[cur].nbytes
            /\ stage = "write" /\ msg[cur].nbytes # 0
        BY <1>2, <3>3, RequestIs
        DEF WriteReply, Goes, WriteIsLegal, LocalsFit
      <4>2. Told(nb) \in Deserved(cur, msg[cur])
        BY <3>1, <4>1 DEF Deserved
      <4> QED
        BY <4>1, <4>2
    <3> QED
      BY <2>3, <3>2, <3>3
  <2> QED
    BY <2>1, <2>2, <2>3
<1>4. \E a \in Due[cur] : MsgReply(cur, a)
  BY <1>2, <1>3 DEF Due
<1> QED
  BY <1>1, <1>2, <1>4, ServeRefines DEF Service!Next

\* Every step is one of the abstract server, or unseen.
LEMMA StepRefines == IInv /\ [Next]_vars => [Service!Next]_<<Due, answer>>
<1> SUFFICES ASSUME IInv, [Next]_vars PROVE Service!Next \/ Unseen
  BY DEF Unseen
<1>1. Attach \/ Detach \/ MarkRead \/ Malloc \/ MsgGet \/ Output \/ MarkWrite
        \/ UNCHANGED vars => Unseen
  BY SameIsUnseen
  DEF Attach, Detach, ConnectDetach, MarkRead, MarkWrite, Mark, Malloc, MsgGet, Output,
      Goes, channel, manager, vars
<1> QED
  BY <1>1, ClientRefines, ReceiveRefines, RefusalRefines, SuccessRefines DEF Next, Handle

\* Each request is answered at most once, with an answer that its own client's
\* request, handle and stage call for; nobody who has not asked is told anything.
\* (That each is answered is liveness, and checked only.)
THEOREM ManagerIsSafe == Spec => Service!Safe
<1>1. Init => Service!Init
  BY DEF Init, ChannelInit, Due, Service!Init
<1>2. [][Next]_vars /\ []IInv => [][Service!Next]_<<Due, answer>>
  BY StepRefines, PTL
<1> QED
  BY <1>1, <1>2, SpecIInv, PTL DEF Spec, Service!Safe, Service!serverVars
-----------------------------------------------------------------------------
(* No connection leaks.                                                    *)

\* A client that has gone and still has its scoid is being detached, or is the next
\* to be.
NobodyForgotten == NoneForgotten(IF mpc = "detach" THEN {cur} ELSE {})

\* Only a disconnect pulse takes the manager to ConnectDetach, and that pulse is
\* about a client that is gone.
LEMMA StepForgetsNobody ==
  IInv /\ NobodyForgotten /\ [Next]_vars => NobodyForgotten' /\ LiveStayConnected
<1> SUFFICES ASSUME IInv, NobodyForgotten, [Next]_vars
             PROVE  NobodyForgotten' /\ LiveStayConnected
  OBVIOUS
<1> USE DEF IInv, NobodyForgotten
<1>1. ASSUME NEW c \in Clients, Client(c) PROVE NobodyForgotten' /\ LiveStayConnected
  <2>1. UNCHANGED <<mpc, cur>>
    BY <1>1 DEF Client, Connect, SendRequest, End, Restart, manager
  <2> QED
    BY <1>1, <2>1, CallForgetsNobody DEF Client, Connect, SendRequest, End, Restart
<1>2. ASSUME NEW s \in Scoids, GetDisconnect(s) PROVE NobodyForgotten' /\ LiveStayConnected
  BY <1>2, DisconnectIsNoted DEF GetDisconnect, Goes
<1>3. CASE Detach
  BY <1>3, DetachForgetsNobody DEF Detach, DetachesTheGone, Goes
<1>4. ASSUME NEW c \in Clients, GetMessage(c) \/ GetUnblock(c)
      PROVE  NobodyForgotten' /\ LiveStayConnected
  <2>1. mpc # "detach" /\ mpc' # "detach"
    <3>1. CASE GetUnblock(c)
      BY <3>1 DEF GetUnblock, Goes
    <3>2. CASE GetMessage(c)
      <4>1. msg[c] \in Requests
        BY <3>2 DEF GetMessage, MsgReceive, ChannelInv, BlockedHaveSent
      <4>2. msg[c].type \in {"open", "read", "write"}
        BY <4>1, ResMgrAssumption
      <4> QED
        BY <3>2, <4>2 DEF GetMessage, Goes
    <3> QED
      BY <1>4, <3>1, <3>2
  <2> QED
    BY <1>4, <2>1, CallForgetsNobody DEF GetMessage, GetUnblock
<1>5. CASE mpc \in Handling /\ mpc' # "detach" /\ \E a : MsgReply(cur, a)
  <2>1. mpc # "detach" /\ cur \in Clients
    BY <1>5 DEF Handling, Writing, OneOpenRequest
  <2> QED
    BY <1>5, <2>1, CallForgetsNobody
<1>6. CASE /\ UNCHANGED channel
           /\ UNCHANGED <<mpc, cur>> \/ (mpc # "detach" /\ mpc' # "detach")
  BY <1>6 DEF channel, NoneForgotten, LiveStayConnected
<1>7. \A f : Refused(f) /\ f \in Handling =>
        mpc \in Handling /\ mpc' # "detach" /\ \E a : MsgReply(cur, a)
  BY DEF Refused, Goes
<1>8. \A f, n, to, t : ReplyWith(f, n, to, t) /\ f \in Handling /\ to # "detach" =>
        mpc \in Handling /\ mpc' # "detach" /\ \E a : MsgReply(cur, a)
  BY DEF ReplyWith, Goes
<1>9. \/ IoOpenFails \/ NotOpenForThis \/ SpecialXtype \/ MallocFails \/ MsgGetFails
      \/ OutputFails
      => \E f \in Handling : Refused(f)
  BY DEF IoOpenFails, NotOpenForThis, SpecialXtype, MallocFails, MsgGetFails, OutputFails,
         Handling, Writing
<1>10. ReadData \/ ReadNothing \/ WriteNowhere \/ WriteNothing \/ WriteReply
       => \E f \in Handling : \E n, to, t : ReplyWith(f, n, to, t) /\ to # "detach"
  <2>1. ASSUME ReadData \/ ReadNothing \/ WriteNowhere
        PROVE  \E f \in Handling : \E n, to, t : ReplyWith(f, n, to, t) /\ to # "detach"
    <3>1. "read" \in Handling /\ "write" \in Handling
      BY DEF Handling
    <3> DEFINE next(n, mark) == IF n > 0 THEN mark ELSE "block"
    <3>2. \A n : next(n, "mark_read") # "detach" /\ next(n, "mark_write") # "detach"
      OBVIOUS
    <3>3. \/ \E n : ReplyWith("read", n, next(n, "mark_read"), ATime)
          \/ ReplyWith("read", 0, next(msg[cur].nbytes, "mark_read"), ATime)
          \/ \E n : ReplyWith("write", n, next(n, "mark_write"), MTimes)
      BY <2>1 DEF ReadData, ReadNothing, WriteNowhere
    <3> HIDE DEF next
    <3> QED
      BY <3>1, <3>2, <3>3
  <2>2. ASSUME WriteNothing \/ WriteReply
        PROVE  \E f \in Handling : \E n, to, t : ReplyWith(f, n, to, t) /\ to # "detach"
    <3>1. "write" \in Handling /\ "reply" \in Handling
      BY DEF Handling, Writing
    <3> DEFINE to == IF nb > 0 THEN "mark_write" ELSE "block"
    <3>2. to # "detach"
      OBVIOUS
    <3>3. ReplyWith("write", 0, "block", MTimes) \/ ReplyWith("reply", nb, to, MTimes)
      BY <2>2 DEF WriteNothing, WriteReply
    <3> HIDE DEF to
    <3> QED
      BY <3>1, <3>2, <3>3
  <2> QED
    BY <2>1, <2>2
<1>11. IoOpen => mpc \in Handling /\ mpc' # "detach" /\ \E a : MsgReply(cur, a)
  BY DEF IoOpen, Goes, Handling
<1>12. Attach \/ MarkRead \/ MarkWrite \/ Malloc \/ MsgGet \/ Output \/ UNCHANGED vars =>
         /\ UNCHANGED channel
         /\ UNCHANGED <<mpc, cur>> \/ (mpc # "detach" /\ mpc' # "detach")
  BY DEF Attach, MarkRead, MarkWrite, Mark, Malloc, MsgGet, Output, Goes, vars, manager
<1> QED
  BY <1>1, <1>2, <1>3, <1>4, <1>5, <1>6, <1>7, <1>8, <1>9, <1>10, <1>11, <1>12
  DEF Next, Receive, Handle

\* example.c and the stages before it: no connection leaks and none is taken away.
\* Every client that has gone is detached or its pulse still waits, also when it was
\* killed in the middle of a request; and a client that lives keeps its connection.
THEOREM ConnectionsComeBack == Spec => []NobodyForgotten /\ [][LiveStayConnected]_vars
<1>1. Init => NobodyForgotten
  BY NoneForgottenAtFirst DEF Init, NobodyForgotten
<1>2. IInv /\ NobodyForgotten /\ [Next]_vars => NobodyForgotten' /\ LiveStayConnected
  BY StepForgetsNobody
<1> QED
  BY <1>1, <1>2, SpecIInv, PTL DEF Spec

-----------------------------------------------------------------------------
(* ChecksumService, for any clients, texts and length of the buffer *)

\* What clients send: of the plain type, nothing longer than the structure.
CksumMessages ==
  {m \in [type : {"cksum", "cksum_iov"}, data_size : Nat, bytes : Seq(Nat)] :
     m.type = "cksum" => Len(m.bytes) <= MaxString + 1}

\* Every sum that a client is told is that of a text, or of what fits of it.
CksumAnswers ==
  {Cksum!Ok(Cksum!Sum(t)) : t \in Texts \cup {<<>>}} \cup
  {Cksum!Ok(Cksum!Sum(Cksum!Strlcpy(t))) : t \in Texts \cup {<<>>}} \cup
  {Cksum!Error(e) : e \in {"EBADMSG", "ENOSYS", "ENOMEM", "interrupted"}}

\* What the buffer and the clients' variables may hold
CksumTyped ==
  /\ rbuf \in [1 .. MaxString + 1 -> Nat]
  /\ program \in [Clients -> Cksum!Programs]
  /\ text \in [Clients -> Texts \cup {<<>>}]

\* Only a channel made with name_attach has pulses and holds clients back.
PlainChannel == ~Cksum!Named => killed = {} /\ pulses = {}

\* iov_client looks for its own server's name.
ProgramsReach == \A c \in Clients : program[c] = "iov_client" => server = "iov_server"

\* What a client is blocked on is still what its program and text make.
OwnMessage ==
  \A c \in Clients : blocked[c] \in {"send", "reply"} => msg[c] = Cksum!Message(c)

\* The server handles one message at a time, and nobody else is REPLY-blocked;
\* a client of a plain channel may have gone.
OneReceived ==
  /\ \A c \in Clients : blocked[c] = "reply" => spc \in {"dispatch", "read"} /\ whom = c
  /\ spc \in {"dispatch", "read", "unblock"} => whom \in Clients \cup {NoOne}
  /\ spc = "receive" => whom = NoOne
  /\ spc = "detach" => whom \in Scoids /\ Gone(whom)

\* The receive buffer holds the message of the client that is to be answered.
BufferIsMessage ==
  \A c \in Clients : spc = "dispatch" /\ blocked[c] = "reply" =>
    /\ msg_type = msg[c].type
    /\ server # "iov_server" =>
         \A i \in 1 .. Len(msg[c].bytes) : rbuf[i] = msg[c].bytes[i]

\* Only iov_server reads a second time, for a message of its own type.
ReadsIov ==
  spc = "read" =>
    /\ server = "iov_server"
    /\ \A c \in Clients : blocked[c] = "reply" => msg[c].type = "cksum_iov"

\* The inductive invariant
CksumIInv ==
  /\ ChannelInv(CksumMessages, CksumAnswers)
  /\ CksumTyped
  /\ PlainChannel
  /\ ProgramsReach
  /\ OwnMessage
  /\ OneReceived
  /\ BufferIsMessage
  /\ ReadsIov
-----------------------------------------------------------------------------
\* CksumServer's channel is the one that the channel's lemmas are about.
LEMMA SameChannel ==
  /\ Cksum!channel = channel
  /\ Cksum!ChannelInit <=> ChannelInit
  /\ \A c : Cksum!NameOpen(c) <=> NameOpen(c)
  /\ \A c, m : Cksum!MsgSend(c, m) <=> MsgSend(c, m)
  /\ \A c : Cksum!MsgReceive(c) <=> MsgReceive(c)
  /\ \A p : Cksum!ReceivePulse(p) <=> ReceivePulse(p)
  /\ \A c, a : Cksum!MsgReply(c, a) <=> MsgReply(c, a)
  /\ \A c : Cksum!ClientEnds(c) <=> ClientEnds(c)
  /\ \A s : Cksum!ConnectDetach(s) <=> ConnectDetach(s)
  /\ \A c : Cksum!ClientRestarts(c) <=> ClientRestarts(c)
  /\ \A s : Cksum!Disconnect(s) = Disconnect(s)
  /\ \A c : Cksum!Unblock(c) = Unblock(c)
<1>1. Cksum!channel = channel /\ (Cksum!ChannelInit <=> ChannelInit)
  BY DEF Cksum!channel, channel, Cksum!ChannelInit, ChannelInit
<1>2. /\ \A s : Cksum!Disconnect(s) = Disconnect(s)
      /\ \A c : Cksum!Unblock(c) = Unblock(c)
  BY DEF Cksum!Disconnect, Disconnect, Cksum!Unblock, Unblock
<1>3. \A c : Cksum!NameOpen(c) <=> NameOpen(c)
  BY DEF Cksum!NameOpen, NameOpen, Cksum!ScoidsInUse, ScoidsInUse
<1>4. /\ \A c, m : Cksum!MsgSend(c, m) <=> MsgSend(c, m)
      /\ \A c : Cksum!MsgReceive(c) <=> MsgReceive(c)
      /\ \A p : Cksum!ReceivePulse(p) <=> ReceivePulse(p)
  BY DEF Cksum!MsgSend, MsgSend, Cksum!MsgReceive, MsgReceive, Cksum!ReceivePulse,
         ReceivePulse
<1>5. \A c, a : Cksum!MsgReply(c, a) <=> MsgReply(c, a)
  <2> TAKE c, a
  <2>1. UNCHANGED Cksum!channel <=> UNCHANGED channel
    BY DEF Cksum!channel, channel
  <2>2. Cksum!Disconnect(scoid[c]) = Disconnect(scoid[c])
    BY <1>2
  <2> QED
    BY <2>1, <2>2 DEF Cksum!MsgReply, MsgReply
<1>6. \A c : Cksum!ClientEnds(c) <=> ClientEnds(c)
  BY <1>2 DEF Cksum!ClientEnds, ClientEnds
<1>7. /\ \A s : Cksum!ConnectDetach(s) <=> ConnectDetach(s)
      /\ \A c : Cksum!ClientRestarts(c) <=> ClientRestarts(c)
  BY DEF Cksum!ConnectDetach, ConnectDetach, Cksum!ClientRestarts, ClientRestarts
<1> QED
  BY <1>1, <1>2, <1>3, <1>4, <1>5, <1>6, <1>7

\* Induction, for a property of numbers that is given as the set that has it: a
\* number that is missing from the set would have a least one.
LEMMA SetInduction ==
  ASSUME NEW S, 0 \in S, \A n \in Nat : n \in S => n + 1 \in S
  PROVE  Nat \subseteq S
<1> DEFINE R == OpToRel(<, Nat)
           T == Nat \ S
<1>1. IsWellFoundedOn(R, Nat)
  BY NatLessThanWellFounded
<1>2. SUFFICES ASSUME T # {} PROVE FALSE
  OBVIOUS
<1>3. \A x, y \in Nat : x < y => <<x, y>> \in R
  BY DEF OpToRel
<1>4. PICK x \in T : \A y \in T : ~ (<<y, x>> \in R)
  <2> HIDE DEF R, T
  <2>1. T \subseteq Nat
    BY DEF T
  <2> QED
    BY <1>1, <1>2, <2>1, WFMin
<1>5. x \in Nat /\ x # 0 /\ x - 1 \in Nat /\ x - 1 < x
  BY DEF T
<1>6. x - 1 \notin T
  BY <1>3, <1>4, <1>5
<1>7. x - 1 \in S /\ (x - 1) + 1 = x
  BY <1>5, <1>6
<1>8. x \in S
  BY <1>5, <1>7
<1> QED
  BY <1>8

\* The running sum of calculate_checksum is defined at every step of its loop, for
\* a text of any length.
LEMMA SumDefined ==
  ASSUME NEW s \in Seq(Nat)
  PROVE  \E g \in [0 .. Len(s) -> Nat] :
           /\ g = [n \in 0 .. Len(s) |-> IF n = 0 THEN 0 ELSE g[n - 1] + s[n]]
<1> DEFINE Upto(m, g) ==
             g \in [0 .. m -> Nat] /\ \A n \in 0 .. m :
               g[n] = IF n = 0 THEN 0 ELSE g[n - 1] + s[n]
           Reached == {m \in Nat : m <= Len(s) => \E g : Upto(m, g)}
<1>1. Len(s) \in Nat /\ \A n \in 1 .. Len(s) : s[n] \in Nat
  BY LenProperties, ElementOfSeq
<1>2. 0 \in Reached
  <2>1. Upto(0, [n \in 0 .. 0 |-> 0])
    OBVIOUS
  <2> QED
    BY <2>1
<1>3. ASSUME NEW m \in Nat, m \in Reached PROVE m + 1 \in Reached
  <2>1. SUFFICES ASSUME m + 1 <= Len(s) PROVE \E g : Upto(m + 1, g)
    OBVIOUS
  <2>2. m <= Len(s) /\ m + 1 \in 1 .. Len(s) /\ s[m + 1] \in Nat
    BY <1>1, <2>1
  <2>3. PICK g : Upto(m, g)
    BY <1>3, <2>2
  <2> DEFINE h == [n \in 0 .. m + 1 |-> IF n = m + 1 THEN g[m] + s[m + 1] ELSE g[n]]
  <2>4. h \in [0 .. m + 1 -> Nat]
    BY <2>2, <2>3
  <2>5. ASSUME NEW n \in 0 .. m + 1
        PROVE  h[n] = IF n = 0 THEN 0 ELSE h[n - 1] + s[n]
    <3>1. CASE n = m + 1
      BY <3>1
    <3>2. CASE n # m + 1
      <4>1. /\ n \in 0 .. m /\ h[n] = g[n]
            /\ n # 0 => n - 1 \in 0 .. m + 1 /\ n - 1 # m + 1
        BY <3>2
      <4>2. n # 0 => h[n - 1] = g[n - 1]
        BY <4>1
      <4> QED
        BY <2>3, <4>1, <4>2
    <3> QED
      BY <3>1, <3>2
  <2> QED
    BY <2>4, <2>5
<1>4. Len(s) \in Reached
  <2> HIDE DEF Reached
  <2> QED
    BY <1>1, <1>2, <1>3, SetInduction
<1>5. PICK g : Upto(Len(s), g)
  BY <1>1, <1>4
<1> QED
  BY <1>5

\* calculate_checksum computes a number: the sum of no bytes is 0, and each byte is
\* added to that of the bytes before it.
LEMMA SumIsNat ==
  ASSUME NEW s \in Seq(Nat)
  PROVE  Cksum!Sum(s) \in Nat
<1> DEFINE cksum == CHOOSE f :
             f = [n \in 0 .. Len(s) |-> IF n = 0 THEN 0 ELSE f[n - 1] + s[n]]
           Fine == {m \in Nat : m <= Len(s) => cksum[m] \in Nat}
<1>1. Len(s) \in Nat /\ \A n \in 1 .. Len(s) : s[n] \in Nat
  BY LenProperties, ElementOfSeq
<1>2. cksum = [n \in 0 .. Len(s) |-> IF n = 0 THEN 0 ELSE cksum[n - 1] + s[n]]
  BY SumDefined
<1>3. Cksum!Sum(s) = cksum[Len(s)]
  BY DEF Cksum!Sum
<1> HIDE DEF cksum
<1>4. 0 \in Fine
  BY <1>1, <1>2
<1>5. ASSUME NEW m \in Nat, m \in Fine PROVE m + 1 \in Fine
  <2>1. SUFFICES ASSUME m + 1 <= Len(s) PROVE cksum[m + 1] \in Nat
    OBVIOUS
  <2>2. /\ m + 1 \in 0 .. Len(s) /\ m + 1 # 0 /\ (m + 1) - 1 = m
        /\ m <= Len(s) /\ s[m + 1] \in Nat
    BY <1>1, <2>1
  <2>3. cksum[m + 1] = cksum[m] + s[m + 1]
    BY <1>2, <2>2
  <2> QED
    BY <1>5, <2>2, <2>3
<1>6. Len(s) \in Fine
  <2> HIDE DEF Fine
  <2> QED
    BY <1>1, <1>4, <1>5, SetInduction
<1> QED
  BY <1>1, <1>3, <1>6

\* calculate_checksum: whatever follows the NUL of a text, the sum is its own.
LEMMA ChecksumIsSum ==
  ASSUME NEW t \in Seq(Nat \ {0}), NEW b \in Seq(Nat),
         Len(b) > Len(t), \A i \in 1 .. Len(t) : b[i] = t[i], b[Len(t) + 1] = 0
  PROVE  Cksum!Checksum(b) = Cksum!Sum(t)
<1> DEFINE nuls == {i \in 1 .. Len(b) : b[i] = 0}
           first == CHOOSE i \in nuls : \A j \in nuls : i <= j
<1>1. Len(t) \in Nat /\ Len(b) \in Nat /\ \A i \in 1 .. Len(t) : t[i] \in Nat \ {0}
  BY LenProperties, ElementOfSeq
<1>2. Len(t) + 1 \in nuls /\ \A j \in nuls : Len(t) + 1 <= j
  <2>1. \A j \in 1 .. Len(t) : b[j] # 0
    BY <1>1
  <2>2. Len(t) + 1 \in 1 .. Len(b)
    BY <1>1
  <2> QED
    BY <1>1, <2>1, <2>2
<1>3. first = Len(t) + 1
  <2>1. \E i \in nuls : \A j \in nuls : i <= j
    BY <1>2
  <2>2. first \in nuls /\ \A j \in nuls : first <= j
    BY <2>1
  <2> QED
    BY <1>2, <2>2, <1>1
<1>4. SubSeq(b, 1, first - 1) = t
  <2> HIDE DEF first
  <2>1. first - 1 = Len(t)
    BY <1>1, <1>3
  <2>2. /\ SubSeq(b, 1, Len(t)) \in Seq(Nat) /\ Len(SubSeq(b, 1, Len(t))) = Len(t)
        /\ \A i \in 1 .. Len(t) : SubSeq(b, 1, Len(t))[i] = b[i]
    BY <1>1, SubSeqProperties
  <2>3. t \in Seq(Nat)
    BY <1>1
  <2>4. SubSeq(b, 1, Len(t)) = t
    BY <2>2, <2>3, SeqEqual
  <2> QED
    BY <2>1, <2>4
<1> QED
  BY <1>2, <1>4 DEF Cksum!Checksum

\* strlcpy: what fits is a text that fits.
LEMMA StrlcpyFits ==
  ASSUME NEW t \in Seq(Nat \ {0})
  PROVE  Cksum!Strlcpy(t) \in Seq(Nat \ {0}) /\ Len(Cksum!Strlcpy(t)) <= MaxString
<1>1. CASE Len(t) <= MaxString
  BY <1>1 DEF Cksum!Strlcpy
<1>2. CASE ~(Len(t) <= MaxString)
  <2>1. MaxString \in Nat /\ Len(t) \in Nat /\ MaxString < Len(t)
    BY <1>2, LenProperties, CksumAssumption
  <2>2. /\ SubSeq(t, 1, MaxString) \in Seq(Nat \ {0})
        /\ Len(SubSeq(t, 1, MaxString)) = MaxString
    BY <2>1, SubSeqProperties
  <2> QED
    BY <1>2, <2>1, <2>2 DEF Cksum!Strlcpy
<1> QED
  BY <1>1, <1>2

\* What a client's message carries, up to the NUL.
Carried(c) == IF program[c] = "iov_client" THEN text[c] ELSE Cksum!Strlcpy(text[c])

\* A message is what it carries, a NUL, and whatever fits the structure: client.c
\* sends memory that it has not written, and the sum does not depend on it.
LEMMA MessageIs ==
  ASSUME CksumTyped, NEW c \in Clients, NEW m, m = Cksum!Message(c)
  PROVE  /\ m \in CksumMessages /\ Carried(c) \in Seq(Nat \ {0})
         /\ m.type = IF program[c] = "iov_client" THEN "cksum_iov" ELSE "cksum"
         /\ Len(m.bytes) > Len(Carried(c)) /\ m.bytes[Len(Carried(c)) + 1] = 0
         /\ \A i \in 1 .. Len(Carried(c)) : m.bytes[i] = Carried(c)[i]
         /\ IF program[c] = "iov_client" THEN m.data_size = Len(m.bytes)
            ELSE Len(m.bytes) <= MaxString + 1
<1> DEFINE t == Carried(c)
<1>1. text[c] \in Seq(Nat \ {0}) /\ program[c] \in Cksum!Programs
  BY EmptySeq, CksumAssumption DEF CksumTyped
<1>2. t \in Seq(Nat \ {0}) /\ t \in Seq(Nat) /\ Len(t) \in Nat
  BY <1>1, StrlcpyFits, LenProperties DEF Carried
<1>3. program[c] # "iov_client" => Len(t) <= MaxString /\ t = Cksum!Strlcpy(text[c])
  BY <1>1, StrlcpyFits DEF Carried
<1>4. /\ Append(t, 0) \in Seq(Nat) /\ Len(Append(t, 0)) = Len(t) + 1
      /\ \A i \in 1 .. Len(t) : Append(t, 0)[i] = t[i]
      /\ Append(t, 0)[Len(t) + 1] = 0
  BY <1>2, AppendProperties
<1>5. CASE program[c] = "iov_client"
  <2>1. m = [type |-> "cksum_iov", data_size |-> Len(t) + 1, bytes |-> Append(t, 0)]
    BY <1>5 DEF Cksum!Message, Carried
  <2> HIDE DEF t
  <2>2. m.bytes = Append(t, 0) /\ m.data_size = Len(t) + 1 /\ m.type = "cksum_iov"
        /\ m \in CksumMessages
    BY <1>2, <1>4, <2>1 DEF CksumMessages
  <2> QED
    BY <1>2, <1>4, <1>5, <2>2 DEF t
<1>6. CASE program[c] = "client"
  <2> DEFINE rest == SubSeq(Cksum!Junk, 1, MaxString - Len(t))
             b == Append(t, 0) \o rest
  <2>1. m = [type |-> "cksum", data_size |-> 0, bytes |-> b]
    BY <1>3, <1>6 DEF Cksum!Message
  <2>2. rest \in Seq(Nat) /\ Len(rest) = MaxString - Len(t)
    <3>1. MaxString \in Nat /\ MaxString - Len(t) \in Nat
      BY <1>2, <1>3, <1>6, CksumAssumption
    <3>2. \A i \in 1 .. MaxString - Len(t) : Cksum!Junk[i] \in Nat
      BY <1>2, <3>1 DEF Cksum!Junk
    <3> HIDE DEF t
    <3> QED
      BY <3>1, <3>2, SubSeqProperties
  <2> HIDE DEF rest, t
  <2>3. /\ b \in Seq(Nat) /\ Len(b) = MaxString + 1
        /\ \A i \in 1 .. Len(t) + 1 : b[i] = Append(t, 0)[i]
    <3>1. /\ b \in Seq(Nat) /\ Len(b) = Len(Append(t, 0)) + Len(rest)
          /\ \A i \in 1 .. Len(Append(t, 0)) + Len(rest) :
               b[i] = IF i <= Len(Append(t, 0)) THEN Append(t, 0)[i]
                      ELSE rest[i - Len(Append(t, 0))]
      BY <1>4, <2>2, ConcatProperties
    <3> HIDE DEF b
    <3>2. Len(Append(t, 0)) = Len(t) + 1 /\ Len(t) \in Nat /\ MaxString \in Nat
      BY <1>2, <1>4, CksumAssumption
    <3>3. Len(b) = MaxString + 1
      BY <2>2, <3>1, <3>2
    <3>4. Len(t) <= MaxString
      BY <1>3, <1>6
    <3>5. ASSUME NEW i \in 1 .. Len(t) + 1 PROVE b[i] = Append(t, 0)[i]
      <4>1. i \in 1 .. Len(Append(t, 0)) + Len(rest) /\ i <= Len(Append(t, 0))
        BY <2>2, <3>2, <3>4
      <4> QED
        BY <3>1, <4>1
    <3> QED
      BY <3>1, <3>3, <3>5
  <2> HIDE DEF b
  <2>4. m.bytes = b /\ m.type = "cksum" /\ m \in CksumMessages
    BY <2>1, <2>3 DEF CksumMessages
  <2>5. b[Len(t) + 1] = 0 /\ \A i \in 1 .. Len(t) : b[i] = t[i]
    <3>1. Len(t) + 1 \in 1 .. Len(t) + 1 /\ \A i \in 1 .. Len(t) : i \in 1 .. Len(t) + 1
      BY <1>2
    <3> QED
      BY <1>4, <2>3, <3>1
  <2>6. Len(b) > Len(t)
    BY <1>2, <1>3, <1>6, <2>3, CksumAssumption
  <2> QED
    BY <1>2, <1>6, <2>3, <2>4, <2>5, <2>6, CksumAssumption DEF t
<1>7. CASE program[c] \notin {"iov_client", "client"}
  <2>1. m = [type |-> "cksum", data_size |-> 0, bytes |-> Append(t, 0)]
    BY <1>3, <1>7 DEF Cksum!Message
  <2>2. Len(t) <= MaxString /\ MaxString \in Nat
    BY <1>3, <1>7, CksumAssumption
  <2> HIDE DEF t
  <2>3. m.bytes = Append(t, 0) /\ m.type = "cksum" /\ m \in CksumMessages
    <3>1. Len(Append(t, 0)) <= MaxString + 1 /\ Append(t, 0) \in Seq(Nat)
      BY <1>2, <1>4, <2>2
    <3> QED
      BY <2>1, <3>1 DEF CksumMessages
  <2> QED
    BY <1>2, <1>4, <1>7, <2>2, <2>3 DEF t
<1> QED
  BY <1>5, <1>6, <1>7

\* A message stays what it is as long as its client's program and text do.
LEMMA SameMessage ==
  ASSUME NEW c \in Clients, program'[c] = program[c], text'[c] = text[c]
  PROVE  Cksum!Message(c)' = Cksum!Message(c)
BY DEF Cksum!Message, Cksum!Strlcpy

\* The servers start with everything in order.
LEMMA CksumInit ==
  ASSUME Cksum!Init
  PROVE  CksumIInv
<1> USE DEF Cksum!Init
<1>1. ChannelInv(CksumMessages, CksumAnswers)
  BY SameChannel, ChannelStarts
<1>2. CksumTyped
  BY CksumAssumption DEF CksumTyped, Cksum!Junk, Cksum!Programs
<1> QED
  BY <1>1, <1>2, SameChannel
  DEF CksumIInv, ChannelInit, PlainChannel, ProgramsReach, OwnMessage, OneReceived,
      BufferIsMessage, ReadsIov
-----------------------------------------------------------------------------
\* What a client does leaves the message that is being handled as it is.
LEMMA ServerUndisturbed ==
  ASSUME CksumIInv, UNCHANGED <<server, spc, whom, msg_type, rbuf>>,
         \A s \in Scoids : Gone(s) => Gone(s)',
         \A d \in Clients :
           blocked'[d] = "reply" => blocked[d] = "reply" /\ msg'[d] = msg[d]
  PROVE  OneReceived' /\ BufferIsMessage' /\ ReadsIov'
<1> USE DEF CksumIInv
<1>1. OneReceived'
  BY DEF OneReceived
<1>2. BufferIsMessage'
  BY DEF BufferIsMessage
<1>3. ReadsIov'
  BY DEF ReadsIov
<1> QED
  BY <1>1, <1>2, <1>3

\* Without name_attach's flags, the end of a client only empties its place.
LEMMA PlainEndKeeps ==
  ASSUME NEW M, NEW A, ChannelInv(M, A), NEW c \in Clients,
         killed = {}, pulses = {}, scoid[c] # NoOne, blocked[c] # "dead",
         blocked' = [blocked EXCEPT ![c] = "dead"],
         scoid' = [scoid EXCEPT ![c] = NoOne],
         msg' = [msg EXCEPT ![c] = NoOne],
         answer' = [answer EXCEPT ![c] = NoOne],
         UNCHANGED <<killed, pulses>>
  PROVE  ChannelInv(M, A)' /\ \A s \in Scoids : Gone(s) => Gone(s)'
BY ChannelAssumption
DEF ChannelInv, ChannelTypeOK, ScoidsUnique, BlockedHaveSent, PulsesAreTrue, Gone,
    ClientIsGone

\* Another program and text only come while nothing of the client's is open.
LEMMA ConnectKeeps ==
  ASSUME CksumIInv, NEW c \in Clients, Cksum!Connect(c)
  PROVE  CksumIInv'
<1> USE DEF CksumIInv
<1>1. NameOpen(c) /\ UNCHANGED <<server, spc, whom, msg_type, rbuf>>
  BY SameChannel DEF Cksum!Connect, Cksum!buffer
<1>2. PICK p \in Cksum!Programs, t \in Texts :
        /\ server \in Cksum!Reaches(p)
        /\ program' = [program EXCEPT ![c] = p]
        /\ text' = [text EXCEPT ![c] = t]
  BY DEF Cksum!Connect
<1>3. UNCHANGED <<blocked, msg, killed, pulses>> /\ blocked[c] = "running"
  BY <1>1 DEF NameOpen
<1>4. ChannelInv(CksumMessages, CksumAnswers)' /\ ScoidsStay
  BY <1>1, NameOpenKeeps
<1>5. CksumTyped' /\ PlainChannel' /\ ProgramsReach'
  BY <1>1, <1>2, <1>3
  DEF CksumTyped, PlainChannel, ProgramsReach, Cksum!Named, Cksum!Reaches
<1>6. OwnMessage'
  <2> SUFFICES ASSUME NEW d \in Clients, blocked'[d] \in {"send", "reply"}
               PROVE  msg'[d] = Cksum!Message(d)'
    BY DEF OwnMessage
  <2>1. d # c /\ program'[d] = program[d] /\ text'[d] = text[d]
    BY <1>2, <1>3 DEF CksumTyped
  <2> QED
    BY <1>3, <2>1, SameMessage DEF OwnMessage
<1>7. OneReceived' /\ BufferIsMessage' /\ ReadsIov'
  BY <1>1, <1>3, <1>4, ServerUndisturbed DEF ScoidsStay
<1> QED
  BY <1>4, <1>5, <1>6, <1>7

\* A client's pulse and its message
LEMMA SendKeeps ==
  ASSUME CksumIInv, NEW c \in Clients,
         Cksum!SendPulse(c) \/ Cksum!Send(c)
  PROVE  CksumIInv'
<1> USE DEF CksumIInv
<1>1. UNCHANGED <<server, spc, whom, msg_type, rbuf, program, text>>
  BY DEF Cksum!SendPulse, Cksum!Send, Cksum!buffer
<1>2. CksumTyped' /\ ProgramsReach'
  BY <1>1 DEF CksumTyped, ProgramsReach
<1>3. \A d \in Clients : Cksum!Message(d)' = Cksum!Message(d)
  BY <1>1, SameMessage
<1>4. CASE Cksum!SendPulse(c)
  <2>1. UNCHANGED channel
    BY <1>4, SameChannel DEF Cksum!SendPulse, Cksum!channel, channel
  <2>2. ChannelInv(CksumMessages, CksumAnswers)' /\ \A s \in Scoids : Gone(s) => Gone(s)'
    BY <2>1
    DEF channel, ChannelInv, ChannelTypeOK, ScoidsUnique, BlockedHaveSent, PulsesAreTrue,
        Gone, ClientIsGone
  <2>3. PlainChannel' /\ OwnMessage'
    BY <1>1, <1>3, <2>1 DEF channel, PlainChannel, OwnMessage, Cksum!Named
  <2>4. OneReceived' /\ BufferIsMessage' /\ ReadsIov'
    BY <1>1, <2>1, <2>2, ServerUndisturbed DEF channel
  <2> QED
    BY <1>2, <2>2, <2>3, <2>4
<1>5. CASE Cksum!Send(c)
  <2> DEFINE m == Cksum!Message(c)
  <2>1. MsgSend(c, m)
    BY <1>5, SameChannel DEF Cksum!Send
  <2>2. m \in CksumMessages
    BY MessageIs
  <2>3. ChannelInv(CksumMessages, CksumAnswers)' /\ ScoidsStay
    BY <2>1, <2>2, MsgSendKeeps
  <2> HIDE DEF m
  <2>4. /\ blocked' = [blocked EXCEPT ![c] = "send"] /\ msg' = [msg EXCEPT ![c] = m]
        /\ blocked \in [Clients -> {"running", "send", "reply", "dead"}]
        /\ msg \in [Clients -> CksumMessages \cup {NoOne}]
        /\ UNCHANGED <<killed, pulses>>
    BY <2>1 DEF MsgSend, ChannelInv, ChannelTypeOK
  <2>5. OwnMessage'
    BY <1>3, <2>4 DEF OwnMessage, m
  <2>6. PlainChannel'
    BY <1>1, <2>4 DEF PlainChannel, Cksum!Named
  <2>7. \A d \in Clients :
          blocked'[d] = "reply" => blocked[d] = "reply" /\ msg'[d] = msg[d]
    BY <2>4
  <2>8. OneReceived' /\ BufferIsMessage' /\ ReadsIov'
    BY <1>1, <2>3, <2>7, ServerUndisturbed DEF ScoidsStay
  <2> QED
    BY <1>2, <2>3, <2>5, <2>6, <2>8
<1> QED
  BY <1>4, <1>5

\* A client that has gone is one that nothing is known of.
LEMMA LeavingKeeps ==
  ASSUME CksumIInv, NEW c \in Clients,
         ChannelInv(CksumMessages, CksumAnswers)', PlainChannel',
         \A s \in Scoids : Gone(s) => Gone(s)',
         \A d \in Clients \ {c} : blocked'[d] = blocked[d] /\ msg'[d] = msg[d],
         blocked'[c] \notin {"send", "reply"}, Cksum!Forget(c),
         UNCHANGED <<server, spc, whom, msg_type, rbuf>>
  PROVE  CksumIInv'
<1> USE DEF CksumIInv, Cksum!Forget
<1>1. CksumTyped' /\ ProgramsReach'
  BY DEF CksumTyped, ProgramsReach, Cksum!Programs
<1>2. OwnMessage'
  <2> SUFFICES ASSUME NEW d \in Clients, blocked'[d] \in {"send", "reply"}
               PROVE  msg'[d] = Cksum!Message(d)'
    BY DEF OwnMessage
  <2>1. d # c /\ program'[d] = program[d] /\ text'[d] = text[d]
    BY DEF CksumTyped
  <2> QED
    BY <2>1, SameMessage DEF OwnMessage
<1>3. OneReceived' /\ BufferIsMessage' /\ ReadsIov'
  BY ServerUndisturbed
<1> QED
  BY <1>1, <1>2, <1>3

\* A client ends: on a plain channel at once, on a named one not while it is
\* REPLY-blocked.
LEMMA EndKeeps ==
  ASSUME CksumIInv, NEW c \in Clients, Cksum!End(c)
  PROVE  CksumIInv'
<1> USE DEF CksumIInv
<1>1. UNCHANGED <<server, spc, whom, msg_type, rbuf>>
  BY DEF Cksum!End, Cksum!buffer
<1>2. IF blocked'[c] = "dead" THEN Cksum!Forget(c) ELSE UNCHANGED <<program, text>>
  BY DEF Cksum!End, Cksum!clients
<1>3. CASE ~Cksum!Named
  <2>1. /\ blocked[c] # "dead" /\ scoid[c] # NoOne
        /\ blocked' = [blocked EXCEPT ![c] = "dead"]
        /\ scoid' = [scoid EXCEPT ![c] = NoOne]
        /\ msg' = [msg EXCEPT ![c] = NoOne]
        /\ answer' = [answer EXCEPT ![c] = NoOne]
        /\ UNCHANGED <<killed, pulses>>
    BY <1>3 DEF Cksum!End
  <2>2. killed = {} /\ pulses = {}
    BY <1>3 DEF PlainChannel
  <2>3. ChannelInv(CksumMessages, CksumAnswers)' /\ \A s \in Scoids : Gone(s) => Gone(s)'
    BY <2>1, <2>2, PlainEndKeeps
  <2>4. /\ blocked'[c] = "dead"
        /\ \A d \in Clients \ {c} : blocked'[d] = blocked[d] /\ msg'[d] = msg[d]
    BY <2>1 DEF ChannelInv, ChannelTypeOK
  <2>5. PlainChannel'
    BY <2>1, <2>2 DEF PlainChannel
  <2> QED
    BY <1>1, <1>2, <2>3, <2>4, <2>5, LeavingKeeps
<1>4. CASE Cksum!Named
  <2>1. ClientEnds(c)
    BY <1>4, SameChannel DEF Cksum!End
  <2>2. ChannelInv(CksumMessages, CksumAnswers)' /\ ScoidsStay
    BY <2>1, ClientEndsKeeps
  <2>3. PlainChannel'
    BY <1>1, <1>4 DEF PlainChannel, Cksum!Named
  <2>4. CASE blocked[c] = "reply"
    <3>1. UNCHANGED <<blocked, msg>> /\ blocked'[c] # "dead"
      BY <2>1, <2>4 DEF ClientEnds
    <3>2. UNCHANGED <<program, text>>
      BY <1>2, <3>1
    <3>3. CksumTyped' /\ ProgramsReach'
      BY <1>1, <3>2 DEF CksumTyped, ProgramsReach
    <3>4. OwnMessage'
      BY <3>1, <3>2, SameMessage DEF OwnMessage
    <3>5. OneReceived' /\ BufferIsMessage' /\ ReadsIov'
      BY <1>1, <2>2, <3>1, ServerUndisturbed DEF ScoidsStay
    <3> QED
      BY <2>2, <2>3, <3>3, <3>4, <3>5
  <2>5. CASE blocked[c] # "reply"
    <3>1. /\ blocked' = [blocked EXCEPT ![c] = "dead"] /\ msg' = [msg EXCEPT ![c] = NoOne]
          /\ blocked \in [Clients -> {"running", "send", "reply", "dead"}]
          /\ msg \in [Clients -> CksumMessages \cup {NoOne}]
      BY <2>1, <2>5 DEF ClientEnds, ChannelInv, ChannelTypeOK
    <3>2. blocked'[c] = "dead"
      BY <3>1
    <3>3. Cksum!Forget(c)
      BY <1>2, <3>2
    <3> QED
      BY <1>1, <2>2, <2>3, <3>1, <3>2, <3>3, LeavingKeeps DEF ScoidsStay
  <2> QED
    BY <2>4, <2>5
<1> QED
  BY <1>3, <1>4

\* A new process starts with nothing.
LEMMA RestartKeeps ==
  ASSUME CksumIInv, NEW c \in Clients, Cksum!Restart(c)
  PROVE  CksumIInv'
<1> USE DEF CksumIInv
<1>1. /\ ClientRestarts(c)
      /\ Cksum!Forget(c)
      /\ UNCHANGED <<server, spc, whom, msg_type, rbuf>>
  BY SameChannel DEF Cksum!Restart, Cksum!buffer
<1>2. ChannelInv(CksumMessages, CksumAnswers)' /\ ScoidsStay
  BY <1>1, ClientRestartsKeeps
<1>3. /\ blocked' = [blocked EXCEPT ![c] = "running"] /\ UNCHANGED <<msg, killed, pulses>>
      /\ blocked \in [Clients -> {"running", "send", "reply", "dead"}]
  BY <1>1 DEF ClientRestarts, ChannelInv, ChannelTypeOK
<1>4. PlainChannel'
  BY <1>1, <1>3 DEF PlainChannel, Cksum!Named
<1> QED
  BY <1>1, <1>2, <1>3, <1>4, LeavingKeeps DEF ScoidsStay

\* All steps of the clients
LEMMA CksumClientKeeps ==
  ASSUME CksumIInv, NEW c \in Clients, Cksum!Client(c)
  PROVE  CksumIInv'
BY ConnectKeeps, SendKeeps, EndKeeps, RestartKeeps DEF Cksum!Client
-----------------------------------------------------------------------------
\* The server's own steps change nothing of what the clients have sent.
LEMMA ServerOwns ==
  ASSUME CksumIInv, UNCHANGED <<server, program, text>>,
         rbuf' \in [1 .. MaxString + 1 -> Nat],
         ~Cksum!Named => killed' = {} /\ pulses' = {},
         \A d \in Clients :
           blocked'[d] \in {"send", "reply"} =>
             blocked[d] \in {"send", "reply"} /\ msg'[d] = msg[d]
  PROVE  CksumTyped' /\ PlainChannel' /\ ProgramsReach' /\ OwnMessage'
<1> USE DEF CksumIInv
<1>1. CksumTyped' /\ PlainChannel' /\ ProgramsReach'
  BY DEF CksumTyped, PlainChannel, ProgramsReach, Cksum!Named
<1>2. OwnMessage'
  BY SameMessage DEF OwnMessage
<1> QED
  BY <1>1, <1>2

\* MsgReceive puts the message over the first bytes of the buffer.
LEMMA CksumReceiveKeeps ==
  ASSUME CksumIInv, NEW c \in Clients, Cksum!Receive(c)
  PROVE  CksumIInv'
<1> USE DEF CksumIInv
<1>1. /\ MsgReceive(c) /\ UNCHANGED <<server, program, text>>
      /\ spc = "receive" /\ spc' = "dispatch" /\ whom' = c /\ msg_type' = msg[c].type
      /\ rbuf' = [i \in 1 .. MaxString + 1 |->
                    IF server # "iov_server" /\ i <= Len(msg[c].bytes)
                      THEN msg[c].bytes[i] ELSE rbuf[i]]
  BY SameChannel DEF Cksum!Receive, Cksum!ServerStep, Cksum!clients
<1>2. ChannelInv(CksumMessages, CksumAnswers)' /\ ScoidsStay
  BY <1>1, MsgReceiveKeeps
<1>3. /\ blocked' = [blocked EXCEPT ![c] = "reply"] /\ blocked[c] = "send"
      /\ UNCHANGED <<msg, killed, pulses>>
      /\ blocked \in [Clients -> {"running", "send", "reply", "dead"}]
  BY <1>1 DEF MsgReceive, ChannelInv, ChannelTypeOK
<1>4. \A d \in Clients : blocked[d] # "reply"
  BY <1>1 DEF OneReceived
<1>5. /\ msg[c] = Cksum!Message(c) /\ msg[c].bytes \in Seq(Nat)
      /\ server # "iov_server" => Len(msg[c].bytes) <= MaxString + 1
  <2>1. msg[c] = Cksum!Message(c) /\ (server # "iov_server" => program[c] # "iov_client")
    BY <1>3 DEF OwnMessage, ProgramsReach
  <2>2. msg[c] \in CksumMessages
    BY <2>1, MessageIs
  <2> QED
    BY <2>1, <2>2, MessageIs DEF CksumMessages
<1>6. rbuf' \in [1 .. MaxString + 1 -> Nat]
  <2>1. /\ Len(msg[c].bytes) \in Nat
        /\ \A i \in 1 .. Len(msg[c].bytes) : msg[c].bytes[i] \in Nat
    BY <1>5, LenProperties, ElementOfSeq
  <2> QED
    BY <1>1, <2>1, CksumAssumption DEF CksumTyped
<1>7. CksumTyped' /\ PlainChannel' /\ ProgramsReach' /\ OwnMessage'
  BY <1>1, <1>3, <1>6, ServerOwns DEF PlainChannel
<1>8. OneReceived' /\ ReadsIov'
  BY <1>1, <1>3, <1>4 DEF OneReceived, ReadsIov
<1>9. BufferIsMessage'
  <2>1. server # "iov_server" =>
          \A i \in 1 .. Len(msg[c].bytes) : rbuf'[i] = msg[c].bytes[i]
    <3>1. Len(msg[c].bytes) \in Nat
      BY <1>5, LenProperties
    <3> QED
      BY <1>1, <1>5, <3>1, CksumAssumption
  <2>2. \A d \in Clients : blocked'[d] = "reply" => d = c
    BY <1>3, <1>4
  <2> QED
    BY <1>1, <1>3, <2>1, <2>2 DEF BufferIsMessage
<1> QED
  BY <1>2, <1>7, <1>8, <1>9

\* A pulse in the receive buffer: nobody is REPLY-blocked then.
LEMMA PulseKeeps ==
  ASSUME CksumIInv, spc = "receive", UNCHANGED <<server, program, text>>,
         ChannelInv(CksumMessages, CksumAnswers)', UNCHANGED <<blocked, killed, msg>>,
         pulses' \subseteq pulses, Cksum!PulseInBuffer,
         spc' \in {"receive", "detach", "unblock", "dispatch"},
         spc' = "receive" => whom' = NoOne,
         spc' \in {"unblock", "dispatch"} => whom' \in Clients \cup {NoOne},
         spc' = "detach" => whom' \in Scoids /\ Gone(whom)'
  PROVE  CksumIInv'
<1> USE DEF CksumIInv
<1>1. rbuf' \in [1 .. MaxString + 1 -> Nat]
  BY DEF Cksum!PulseInBuffer, Cksum!Junk
<1>2. CksumTyped' /\ PlainChannel' /\ ProgramsReach' /\ OwnMessage'
  BY <1>1, ServerOwns DEF PlainChannel
<1>3. \A d \in Clients : blocked'[d] # "reply"
  BY DEF OneReceived
<1>4. OneReceived' /\ BufferIsMessage' /\ ReadsIov'
  BY <1>3 DEF OneReceived, BufferIsMessage, ReadsIov
<1> QED
  BY <1>2, <1>4

\* The three pulses: of a client, of the kernel about an unblock, and about the end
\* of a client, whose scoid is then the one to detach.
LEMMA ReceivesPulseKeeps ==
  ASSUME CksumIInv,
         \/ \E c \in Clients : Cksum!ReceiveClientPulse(c) \/ Cksum!ReceiveUnblock(c)
         \/ \E s \in Scoids : Cksum!ReceiveDisconnect(s)
  PROVE  CksumIInv'
<1> USE DEF CksumIInv, Cksum!ServerStep
<1>1. ASSUME NEW c \in Clients, Cksum!ReceiveClientPulse(c) PROVE CksumIInv'
  <2>1. /\ spc = "receive"
        /\ UNCHANGED <<server, program, text, whom>>
        /\ UNCHANGED channel
        /\ spc' = IF server = "server" THEN "dispatch" ELSE "receive"
        /\ Cksum!PulseInBuffer
    BY <1>1, SameChannel
    DEF Cksum!ReceiveClientPulse, Cksum!clients, Cksum!channel, channel
  <2>2. whom = NoOne
    BY <2>1 DEF OneReceived
  <2>3. ChannelInv(CksumMessages, CksumAnswers)'
    BY <2>1
    DEF channel, ChannelInv, ChannelTypeOK, ScoidsUnique, BlockedHaveSent, PulsesAreTrue,
        ClientIsGone
  <2> QED
    BY <2>1, <2>2, <2>3, PulseKeeps DEF channel
<1>2. ASSUME NEW c \in Clients, Cksum!ReceiveUnblock(c) PROVE CksumIInv'
  <2>1. /\ spc = "receive" /\ UNCHANGED <<server, program, text>>
        /\ ReceivePulse(Unblock(c)) /\ Cksum!PulseInBuffer
        /\ spc' = IF server = "iov_server" THEN "unblock" ELSE "receive"
        /\ whom' = IF server = "iov_server" THEN c ELSE whom
    BY <1>2, SameChannel DEF Cksum!ReceiveUnblock, Cksum!clients
  <2>2. whom = NoOne
    BY <2>1 DEF OneReceived
  <2>3. ChannelInv(CksumMessages, CksumAnswers)'
    BY <2>1, ReceivePulseKeeps
  <2> QED
    BY <2>1, <2>2, <2>3, PulseKeeps DEF ReceivePulse
<1>3. ASSUME NEW s \in Scoids, Cksum!ReceiveDisconnect(s) PROVE CksumIInv'
  <2>1. /\ spc = "receive" /\ UNCHANGED <<server, program, text>>
        /\ ReceivePulse(Disconnect(s)) /\ Cksum!PulseInBuffer
        /\ spc' = "detach" /\ whom' = s
    BY <1>3, SameChannel DEF Cksum!ReceiveDisconnect, Cksum!clients
  <2>2. ChannelInv(CksumMessages, CksumAnswers)' /\ Gone(s)'
    BY <2>1, ReceivePulseKeeps
  <2> QED
    BY <2>1, <2>2, PulseKeeps DEF ReceivePulse
<1> QED
  BY <1>1, <1>2, <1>3

\* The scoid that is given back is that of a client that has gone.
LEMMA CksumDetachKeeps ==
  ASSUME CksumIInv, Cksum!Detach
  PROVE  CksumIInv'
<1> USE DEF CksumIInv
<1>1. /\ spc = "detach" /\ spc' = "receive" /\ whom' = NoOne /\ ConnectDetach(whom)
      /\ UNCHANGED <<server, program, text, msg_type, rbuf>>
  BY SameChannel DEF Cksum!Detach, Cksum!ServerStep, Cksum!clients, Cksum!buffer
<1>2. whom \in Scoids /\ Gone(whom)
  BY <1>1 DEF OneReceived
<1>3. ChannelInv(CksumMessages, CksumAnswers)'
  BY <1>1, <1>2, ConnectDetachKeeps
<1>4. /\ UNCHANGED <<blocked, killed, pulses, msg>>
      /\ \A d \in Clients : blocked[d] # "reply"
  BY <1>1 DEF ConnectDetach, OneReceived
<1>5. CksumTyped' /\ PlainChannel' /\ ProgramsReach' /\ OwnMessage'
  BY <1>1, <1>4, ServerOwns DEF PlainChannel, CksumTyped
<1>6. OneReceived' /\ BufferIsMessage' /\ ReadsIov'
  BY <1>1, <1>4 DEF OneReceived, BufferIsMessage, ReadsIov
<1> QED
  BY <1>3, <1>5, <1>6

\* What a client sends, to the server that has received it.
LEMMA Received ==
  ASSUME CksumIInv, NEW c \in Clients, blocked[c] = "reply"
  PROVE  /\ msg[c] = Cksum!Message(c) /\ whom = c
         /\ server # "iov_server" => program[c] # "iov_client"
         /\ spc = "dispatch" =>
              msg_type = IF program[c] = "iov_client" THEN "cksum_iov" ELSE "cksum"
         /\ program[c] = "iov_client" => msg[c].data_size = Len(msg[c].bytes)
<1> USE DEF CksumIInv
<1>1. msg[c] = Cksum!Message(c) /\ whom = c
  BY DEF OwnMessage, OneReceived
<1>2. server # "iov_server" => program[c] # "iov_client"
  BY DEF ProgramsReach
<1> QED
  BY <1>1, <1>2, MessageIs DEF BufferIsMessage

\* iov_server goes on to read only what is of its own type.
LEMMA CksumMallocKeeps ==
  ASSUME CksumIInv, Cksum!Malloc
  PROVE  CksumIInv'
<1> USE DEF CksumIInv
<1>1. /\ spc = "dispatch" /\ spc' = "read" /\ UNCHANGED channel
      /\ server = "iov_server" /\ msg_type = "cksum_iov"
      /\ UNCHANGED <<server, program, text, whom, msg_type, rbuf>>
  BY SameChannel
  DEF Cksum!Malloc, Cksum!ServerStep, Cksum!clients, Cksum!buffer, Cksum!Understood,
      Cksum!channel, channel
<1>2. ChannelInv(CksumMessages, CksumAnswers)'
  BY <1>1
  DEF channel, ChannelInv, ChannelTypeOK, ScoidsUnique, BlockedHaveSent, PulsesAreTrue,
      ClientIsGone
<1>3. CksumTyped' /\ PlainChannel' /\ ProgramsReach' /\ OwnMessage'
  BY <1>1, ServerOwns DEF channel, PlainChannel, CksumTyped
<1>4. OneReceived' /\ BufferIsMessage'
  BY <1>1 DEF channel, OneReceived, BufferIsMessage
<1>5. ReadsIov'
  BY <1>1 DEF channel, ReadsIov, BufferIsMessage
<1> QED
  BY <1>2, <1>3, <1>4, <1>5

\* The handlers that answer answer the client of the message, with what its
\* program and its text call for; a late unblock pulse answers nobody.
LEMMA AnswersAreDeserved ==
  ASSUME CksumIInv,
         \/ Cksum!AnswerUnblock \/ Cksum!Refuse \/ Cksum!Reply \/ Cksum!MallocFails
         \/ Cksum!ReadAndReply
  PROVE  \E from \in {"dispatch", "read", "unblock"} : \E a :
           /\ Cksum!Answer(from, a)
           /\ whom \in Clients /\ blocked[whom] = "reply" =>
                a \in Cksum!Deserved(whom)
<1>1. CASE Cksum!AnswerUnblock
  <2>1. Cksum!Answer("unblock", Cksum!Error("interrupted")) /\ spc = "unblock"
    BY <1>1 DEF Cksum!AnswerUnblock, Cksum!Answer, Cksum!ServerStep
  <2>2. \A c \in Clients : blocked[c] # "reply"
    BY <2>1 DEF CksumIInv, OneReceived
  <2> QED
    BY <2>1, <2>2
<1>2. CASE Cksum!Refuse
  <2> DEFINE e == Cksum!Error(IF msg_type = "cksum_iov" THEN "EBADMSG" ELSE "ENOSYS")
  <2>1. Cksum!Answer("dispatch", e) /\ spc = "dispatch" /\ ~Cksum!Understood
    BY <1>2 DEF Cksum!Refuse
  <2>2. ASSUME whom \in Clients, blocked[whom] = "reply" PROVE e \in Cksum!Deserved(whom)
    <3>1. /\ server # "iov_server" => program[whom] # "iov_client"
          /\ msg_type = IF program[whom] = "iov_client" THEN "cksum_iov" ELSE "cksum"
          /\ program[whom] = "iov_client" => msg[whom].data_size = Len(msg[whom].bytes)
      BY <2>1, <2>2, Received
    <3>2. server = "iov_server" /\ program[whom] # "iov_client"
      <4>1. CASE server # "iov_server"
        BY <2>1, <3>1, <4>1 DEF Cksum!Understood
      <4>2. CASE program[whom] = "iov_client"
        <5>1. msg[whom].bytes \in Seq(Nat)
          BY <2>2, Received, MessageIs DEF CksumIInv, CksumMessages
        <5>2. Len(msg[whom].bytes) \in Nat
          BY <5>1, LenProperties
        <5> QED
          BY <2>1, <3>1, <4>2, <5>2 DEF Cksum!Understood, Cksum!Whole
      <4> QED
        BY <4>1, <4>2
    <3>3. e = Cksum!Error("ENOSYS")
      BY <3>1, <3>2
    <3> QED
      BY <3>2, <3>3 DEF Cksum!Deserved
  <2> HIDE DEF e
  <2> QED
    BY <2>1, <2>2
<1>3. CASE Cksum!Reply
  <2> DEFINE a == Cksum!Ok(Cksum!Checksum(rbuf))
  <2>1. Cksum!Answer("dispatch", a) /\ spc = "dispatch" /\ server # "iov_server"
    BY <1>3 DEF Cksum!Reply
  <2>2. ASSUME whom \in Clients, blocked[whom] = "reply" PROVE a \in Cksum!Deserved(whom)
    <3> DEFINE t == Carried(whom)
    <3>1. program[whom] # "iov_client" /\ msg[whom] = Cksum!Message(whom)
      BY <2>1, <2>2, Received
    <3>2. /\ t \in Seq(Nat \ {0}) /\ msg[whom].bytes \in Seq(Nat)
          /\ Len(msg[whom].bytes) > Len(t) /\ msg[whom].bytes[Len(t) + 1] = 0
          /\ \A i \in 1 .. Len(t) : msg[whom].bytes[i] = t[i]
          /\ Len(msg[whom].bytes) <= MaxString + 1
      BY <2>2, <3>1, MessageIs DEF CksumIInv, CksumMessages
    <3>3. t = Cksum!Strlcpy(text[whom])
      BY <3>1 DEF Carried
    <3>4. \A i \in 1 .. Len(msg[whom].bytes) : rbuf[i] = msg[whom].bytes[i]
      BY <2>1, <2>2 DEF CksumIInv, BufferIsMessage
    <3>5. rbuf \in Seq(Nat) /\ Len(rbuf) = MaxString + 1 /\ MaxString \in Nat
      BY CksumAssumption DEF CksumIInv, CksumTyped
    <3> HIDE DEF t
    <3>6. Len(t) \in Nat /\ Len(msg[whom].bytes) \in Nat
      BY <3>2, LenProperties
    <3>7. /\ Len(rbuf) > Len(t) /\ rbuf[Len(t) + 1] = 0
          /\ \A i \in 1 .. Len(t) : rbuf[i] = t[i]
      <4>1. /\ Len(t) + 1 \in 1 .. Len(msg[whom].bytes)
            /\ \A i \in 1 .. Len(t) : i \in 1 .. Len(msg[whom].bytes)
        BY <3>2, <3>6
      <4>2. Len(rbuf) > Len(t)
        BY <3>2, <3>5, <3>6
      <4> QED
        BY <3>2, <3>4, <4>1, <4>2
    <3>8. Cksum!Checksum(rbuf) = Cksum!Sum(t)
      BY <3>2, <3>5, <3>7, ChecksumIsSum
    <3> QED
      BY <2>1, <3>3, <3>8 DEF Cksum!Deserved
  <2> HIDE DEF a
  <2> QED
    BY <2>1, <2>2
<1>4. CASE Cksum!MallocFails
  <2>1. /\ Cksum!Answer("dispatch", Cksum!Error("ENOMEM")) /\ spc = "dispatch"
        /\ server = "iov_server" /\ msg_type = "cksum_iov"
    BY <1>4 DEF Cksum!MallocFails, Cksum!Understood
  <2>2. ASSUME whom \in Clients, blocked[whom] = "reply"
        PROVE  Cksum!Error("ENOMEM") \in Cksum!Deserved(whom)
    BY <2>1, <2>2, Received DEF Cksum!Deserved
  <2> QED
    BY <2>1, <2>2
<1>5. CASE Cksum!ReadAndReply
  <2> DEFINE a == Cksum!Ok(Cksum!Checksum(SubSeq(msg[whom].bytes, 1, msg[whom].data_size)))
  <2>1. Cksum!Answer("read", a) /\ spc = "read"
    BY <1>5 DEF Cksum!ReadAndReply
  <2>2. ASSUME whom \in Clients, blocked[whom] = "reply" PROVE a \in Cksum!Deserved(whom)
    <3> DEFINE t == Carried(whom)
    <3>1. /\ server = "iov_server" /\ msg[whom].type = "cksum_iov"
          /\ msg[whom] = Cksum!Message(whom)
      BY <2>1, <2>2, Received DEF CksumIInv, ReadsIov
    <3>2. program[whom] = "iov_client"
      BY <2>2, <3>1, MessageIs DEF CksumIInv
    <3>3. /\ t \in Seq(Nat \ {0}) /\ msg[whom].bytes \in Seq(Nat)
          /\ Len(msg[whom].bytes) > Len(t) /\ msg[whom].bytes[Len(t) + 1] = 0
          /\ \A i \in 1 .. Len(t) : msg[whom].bytes[i] = t[i]
          /\ msg[whom].data_size = Len(msg[whom].bytes)
      BY <2>2, <3>1, <3>2, MessageIs DEF CksumIInv, CksumMessages
    <3>4. t = text[whom]
      BY <3>2 DEF Carried
    <3> HIDE DEF t
    <3>5. SubSeq(msg[whom].bytes, 1, msg[whom].data_size) = msg[whom].bytes
      BY <3>3
    <3>6. Cksum!Checksum(msg[whom].bytes) = Cksum!Sum(t)
      BY <3>3, ChecksumIsSum
    <3> QED
      BY <3>1, <3>2, <3>4, <3>5, <3>6 DEF Cksum!Deserved
  <2> HIDE DEF a
  <2> QED
    BY <2>1, <2>2
<1> QED
  BY <1>1, <1>2, <1>3, <1>4, <1>5

\* What is deserved is an answer.
LEMMA DeservedAreAnswers ==
  ASSUME CksumIInv, NEW c \in Clients
  PROVE  Cksum!Deserved(c) \subseteq CksumAnswers
BY DEF Cksum!Deserved, CksumAnswers, CksumIInv, CksumTyped

\* After an answer nobody is REPLY-blocked.
LEMMA CksumAnswerKeeps ==
  ASSUME CksumIInv, NEW from \in {"dispatch", "read", "unblock"}, NEW a,
         Cksum!Answer(from, a),
         whom \in Clients /\ blocked[whom] = "reply" => a \in Cksum!Deserved(whom)
  PROVE  CksumIInv'
<1> USE DEF CksumIInv
<1>1. /\ spc = from /\ spc' = "receive" /\ whom' = NoOne
      /\ UNCHANGED <<server, program, text, msg_type, rbuf>>
      /\ IF whom = NoOne THEN UNCHANGED channel ELSE MsgReply(whom, a)
  BY SameChannel
  DEF Cksum!Answer, Cksum!ServerStep, Cksum!clients, Cksum!buffer, Cksum!channel, channel
<1>2. whom \in Clients \cup {NoOne}
      /\ \A d \in Clients : blocked[d] = "reply" => d = whom
  BY <1>1 DEF OneReceived
<1>3. CASE whom \in Clients /\ blocked[whom] = "reply"
  <2>1. a \in CksumAnswers /\ MsgReply(whom, a)
    BY <1>1, <1>3, DeservedAreAnswers, ChannelAssumption
  <2>2. ChannelInv(CksumMessages, CksumAnswers)'
    BY <1>3, <2>1, MsgReplyKeeps
  <2>3. /\ \A d \in Clients : blocked'[d] # "reply"
        /\ \A d \in Clients :
             blocked'[d] \in {"send", "reply"} =>
               blocked[d] \in {"send", "reply"} /\ msg'[d] = msg[d]
        /\ killed = {} => killed' = {} /\ pulses' = pulses
    BY <1>2, <1>3, <2>1 DEF MsgReply, ChannelInv, ChannelTypeOK
  <2>4. CksumTyped' /\ PlainChannel' /\ ProgramsReach' /\ OwnMessage'
    BY <1>1, <2>3, ServerOwns DEF PlainChannel, CksumTyped
  <2>5. OneReceived' /\ BufferIsMessage' /\ ReadsIov'
    BY <1>1, <2>3 DEF OneReceived, BufferIsMessage, ReadsIov
  <2> QED
    BY <2>2, <2>4, <2>5
<1>4. CASE ~(whom \in Clients /\ blocked[whom] = "reply")
  <2>1. UNCHANGED channel
    BY <1>1, <1>2, <1>4 DEF MsgReply
  <2>2. ChannelInv(CksumMessages, CksumAnswers)'
    BY <2>1
    DEF channel, ChannelInv, ChannelTypeOK, ScoidsUnique, BlockedHaveSent, PulsesAreTrue,
        ClientIsGone
  <2>3. CksumTyped' /\ PlainChannel' /\ ProgramsReach' /\ OwnMessage'
    BY <1>1, <2>1, ServerOwns DEF channel, PlainChannel, CksumTyped
  <2>4. \A d \in Clients : blocked'[d] # "reply"
    BY <1>2, <1>4, <2>1 DEF channel
  <2>5. OneReceived' /\ BufferIsMessage' /\ ReadsIov'
    BY <1>1, <2>4 DEF OneReceived, BufferIsMessage, ReadsIov
  <2> QED
    BY <2>2, <2>3, <2>5
<1> QED
  BY <1>3, <1>4

\* Every step of the servers and the clients keeps the invariant.
LEMMA CksumStep == CksumIInv /\ [Cksum!Next]_Cksum!vars => CksumIInv'
<1> SUFFICES ASSUME CksumIInv, [Cksum!Next]_Cksum!vars PROVE CksumIInv'
  OBVIOUS
<1>1. CASE Cksum!FromChannel
  BY <1>1, CksumReceiveKeeps, ReceivesPulseKeeps DEF Cksum!FromChannel
<1>2. CASE Cksum!Handle
  <2>1. CASE \/ Cksum!AnswerUnblock \/ Cksum!Refuse \/ Cksum!Reply \/ Cksum!MallocFails
             \/ Cksum!ReadAndReply
    BY <2>1, AnswersAreDeserved, CksumAnswerKeeps
  <2> QED
    BY <1>2, <2>1, CksumDetachKeeps, CksumMallocKeeps DEF Cksum!Handle
<1>3. CASE \E c \in Clients : Cksum!Client(c)
  BY <1>3, CksumClientKeeps
<1>4. CASE UNCHANGED Cksum!vars
  <2>1. UNCHANGED <<channel, server, spc, whom, msg_type, rbuf, program, text>>
    BY <1>4 DEF Cksum!vars, Cksum!channel, Cksum!buffer, Cksum!clients, channel
  <2>2. ChannelInv(CksumMessages, CksumAnswers)' /\ \A s \in Scoids : Gone(s) => Gone(s)'
    BY <2>1
    DEF CksumIInv, channel, ChannelInv, ChannelTypeOK, ScoidsUnique, BlockedHaveSent,
        PulsesAreTrue, Gone, ClientIsGone
  <2>3. CksumTyped' /\ PlainChannel' /\ ProgramsReach' /\ OwnMessage'
    BY <2>1, ServerOwns DEF CksumIInv, channel, PlainChannel, CksumTyped
  <2>4. OneReceived' /\ BufferIsMessage' /\ ReadsIov'
    BY <2>1, <2>2, ServerUndisturbed DEF channel
  <2> QED
    BY <2>2, <2>3, <2>4 DEF CksumIInv
<1> QED
  BY <1>1, <1>2, <1>3, <1>4 DEF Cksum!Next

\* name_lookup_server.c, iov_server.c, server.c, pulse_server.c: in every state the
\* receive buffer holds the message of the one client that is to be answered, and
\* the scoid to detach is that of a client that has gone.
THEOREM CksumSpecIInv == CksumSafe => []CksumIInv
<1>1. Cksum!Init => CksumIInv
  BY CksumInit
<1>2. CksumIInv /\ [Cksum!Next]_Cksum!vars => CksumIInv'
  BY CksumStep
<1> QED
  BY <1>1, <1>2, PTL DEF CksumSafe, Cksum!Spec

\* Who waits for a checksum server is the one whose message it has in hand.
WaitsForChecksum ==
  \A c \in Clients : blocked[c] = "reply" => spc \in {"dispatch", "read"} /\ whom = c

\* server.c, pulse_server.c, name_lookup_server.c and iov_server.c: no server
\* receives again with a client left REPLY-blocked, also when a text is refused,
\* an allocation fails or the client is killed between the two reads.
THEOREM CksumNobodyLeftBlocked == CksumSafe => []WaitsForChecksum
<1>1. CksumIInv => WaitsForChecksum
  BY DEF CksumIInv, OneReceived, WaitsForChecksum
<1> QED
  BY <1>1, CksumSpecIInv, PTL

\* Where the server and the clients are, in their programs.
CksumPlaces ==
  /\ server \in Servers
  /\ spc \in {"receive", "detach", "unblock", "dispatch", "read"}
  /\ msg_type \in {"none", "pulse", "cksum", "cksum_iov"}
  /\ cpc \in [Clients -> {"connect", "pulse", "send", "exit"}]
  /\ pulsing \in SUBSET Clients

\* Every step goes from one place of a program to another.
LEMMA CksumPlacesStep ==
  CksumIInv /\ CksumPlaces /\ [Cksum!Next]_Cksum!vars => CksumPlaces'
<1> SUFFICES ASSUME CksumIInv, CksumPlaces, [Cksum!Next]_Cksum!vars PROVE CksumPlaces'
  OBVIOUS
<1> USE DEF CksumPlaces, Cksum!ServerStep, Cksum!clients, Cksum!buffer, Cksum!PulseInBuffer
<1>1. ASSUME NEW c \in Clients, Cksum!Client(c) PROVE CksumPlaces'
  <2>1. UNCHANGED <<server, spc, msg_type>>
    BY <1>1
    DEF Cksum!Client, Cksum!Connect, Cksum!SendPulse, Cksum!Send, Cksum!End, Cksum!Restart
  <2>2. cpc' \in [Clients -> {"connect", "pulse", "send", "exit"}]
    BY <1>1
    DEF Cksum!Client, Cksum!Connect, Cksum!SendPulse, Cksum!Send, Cksum!End,
        Cksum!Restart, Cksum!Forget
  <2>3. pulsing' \subseteq Clients
    BY <1>1
    DEF Cksum!Client, Cksum!Connect, Cksum!SendPulse, Cksum!Send, Cksum!End, Cksum!Restart
  <2> QED
    BY <2>1, <2>2, <2>3
<1>2. ASSUME NEW c \in Clients, Cksum!Receive(c) PROVE CksumPlaces'
  <2>1. blocked[c] = "send" /\ msg_type' = msg[c].type
    BY <1>2, SameChannel DEF Cksum!Receive, MsgReceive
  <2>2. msg[c].type \in {"cksum", "cksum_iov"}
    BY <2>1, MessageIs DEF CksumIInv, OwnMessage
  <2> QED
    BY <1>2, <2>1, <2>2 DEF Cksum!Receive
<1>3. ASSUME NEW c \in Clients, Cksum!ReceiveClientPulse(c) \/ Cksum!ReceiveUnblock(c)
      PROVE  CksumPlaces'
  BY <1>3 DEF Cksum!ReceiveClientPulse, Cksum!ReceiveUnblock
<1>4. ASSUME NEW s \in Scoids, Cksum!ReceiveDisconnect(s) PROVE CksumPlaces'
  BY <1>4 DEF Cksum!ReceiveDisconnect
<1>5. CASE Cksum!Handle
  BY <1>5
  DEF Cksum!Handle, Cksum!Detach, Cksum!AnswerUnblock, Cksum!Refuse, Cksum!Reply,
      Cksum!MallocFails, Cksum!Malloc, Cksum!ReadAndReply, Cksum!Answer
<1>6. CASE UNCHANGED Cksum!vars
  BY <1>6 DEF Cksum!vars
<1> QED
  BY <1>1, <1>2, <1>3, <1>4, <1>5, <1>6 DEF Cksum!Next, Cksum!FromChannel

\* Places, messages and answers together are what the types say; that the sums are
\* numbers needs the induction.
LEMMA CksumTypes == CksumIInv /\ CksumPlaces => CksumTypeOK
<1> SUFFICES ASSUME CksumIInv, CksumPlaces PROVE CksumTypeOK
  OBVIOUS
<1> DEFINE Sent == {m \in {msg[c] : c \in Clients} \ {NoOne} : Cksum!IsMessage(m)}
           Given == {a \in {answer[c] : c \in Clients} \ {NoOne} : Cksum!IsAnswer(a)}
<1>1. ChannelTypeOK(CksumMessages, CksumAnswers)
  BY DEF CksumIInv, ChannelInv
<1>2. \A m \in CksumMessages : Cksum!IsMessage(m)
  BY DEF CksumMessages, Cksum!IsMessage
<1>3. \A t \in Texts \cup {<<>>} : t \in Seq(Nat) /\ Cksum!Strlcpy(t) \in Seq(Nat)
  <2> TAKE t \in Texts \cup {<<>>}
  <2>1. t \in Seq(Nat \ {0})
    BY EmptySeq, CksumAssumption
  <2>2. Cksum!Strlcpy(t) \in Seq(Nat \ {0})
    BY <2>1, StrlcpyFits
  <2> QED
    BY <2>1, <2>2
<1>4. \A a \in CksumAnswers : Cksum!IsAnswer(a)
  <2>1. \A t \in Texts \cup {<<>>} :
          Cksum!Sum(t) \in Nat /\ Cksum!Sum(Cksum!Strlcpy(t)) \in Nat
    BY <1>3, SumIsNat
  <2>2. \A n \in Nat : Cksum!IsAnswer(Cksum!Ok(n))
    BY DEF Cksum!IsAnswer, Cksum!Ok
  <2>3. \A e \in {"EBADMSG", "ENOSYS", "ENOMEM", "interrupted"} :
          Cksum!IsAnswer(Cksum!Error(e))
    BY DEF Cksum!IsAnswer, Cksum!Error
  <2> QED
    BY <2>1, <2>2, <2>3 DEF CksumAnswers
<1>5. msg \in [Clients -> Sent \cup {NoOne}]
  <2>1. msg \in [Clients -> CksumMessages \cup {NoOne}]
    BY <1>1 DEF ChannelTypeOK
  <2> QED
    BY <1>2, <2>1
<1>6. answer \in [Clients -> Given \cup {NoOne}]
  <2>1. answer \in [Clients -> CksumAnswers \cup {NoOne}]
    BY <1>1 DEF ChannelTypeOK
  <2> QED
    BY <1>4, <2>1
<1> HIDE DEF Sent, Given
<1>7. Cksum!ChannelTypeOK(Sent, Given)
  BY <1>1, <1>5, <1>6
  DEF ChannelTypeOK, Cksum!ChannelTypeOK, Cksum!Disconnect, Disconnect, Cksum!Unblock,
      Unblock
<1>8. whom \in Clients \cup Scoids \cup {NoOne}
  BY DEF CksumIInv, OneReceived, CksumPlaces
<1> QED
  BY <1>7, <1>8
  DEF CksumIInv, CksumTyped, CksumPlaces, CksumTypeOK, Cksum!TypeOK, Sent, Given

\* server.c, pulse_server.c, name_lookup_server.c, iov_server.c: whatever the
\* clients, the texts and the length of the buffer, every variable holds what its
\* type says, the sum of calculate_checksum a number.
THEOREM CksumTypeCorrect == CksumSafe => []CksumTypeOK
<1>1. Cksum!Init => CksumPlaces
  BY DEF Cksum!Init, CksumPlaces
<1>2. CksumIInv /\ CksumPlaces /\ [Cksum!Next]_Cksum!vars => CksumPlaces'
  BY CksumPlacesStep
<1>3. CksumIInv /\ CksumPlaces => CksumTypeOK
  BY CksumTypes
<1>4. CksumSafe => []CksumIInv
  BY CksumSpecIInv
<1> QED
  BY <1>1, <1>2, <1>3, <1>4, PTL DEF CksumSafe, Cksum!Spec
-----------------------------------------------------------------------------
(* The four servers implement RequestServer.                               *)

\* The requests and answers stay as they are.
CksumUnseen == UNCHANGED <<Cksum!Due, answer>>

\* What a client may be answered depends on its own program and text only.
LEMMA SameDeserved ==
  ASSUME NEW c \in Clients, server' = server, program'[c] = program[c], text'[c] = text[c]
  PROVE  Cksum!Deserved(c)' = Cksum!Deserved(c)
BY DEF Cksum!Deserved, Cksum!Strlcpy

\* Steps after which the same clients wait for the same answers.
LEMMA SameDue ==
  ASSUME server' = server,
         \A c \in Clients :
           /\ blocked'[c] \in {"send", "reply"} <=> blocked[c] \in {"send", "reply"}
           /\ blocked[c] \in {"send", "reply"} =>
                program'[c] = program[c] /\ text'[c] = text[c]
  PROVE  Cksum!Due' = Cksum!Due
<1>1. \A c \in Clients : blocked[c] \in {"send", "reply"} =>
        Cksum!Deserved(c)' = Cksum!Deserved(c)
  BY SameDeserved
<1> QED
  BY <1>1 DEF Cksum!Due

\* Steps after which one client has no open request, and the others are as before.
LEMMA DueEmptied ==
  ASSUME NEW c \in Clients, server' = server, blocked'[c] \notin {"send", "reply"},
         \A d \in Clients \ {c} :
           blocked'[d] = blocked[d] /\ program'[d] = program[d] /\ text'[d] = text[d]
  PROVE  Cksum!Due' = [Cksum!Due EXCEPT ![c] = {}]
<1>1. \A d \in Clients \ {c} : Cksum!Deserved(d)' = Cksum!Deserved(d)
  BY SameDeserved
<1> QED
  BY <1>1 DEF Cksum!Due

\* A message opens a request, for what the client's program and text call for.
LEMMA CksumAskRefines ==
  ASSUME CksumIInv, NEW c \in Clients, Cksum!Send(c)
  PROVE  Cksum!Service!Ask(c)
<1>1. MsgSend(c, Cksum!Message(c)) /\ UNCHANGED <<server, program, text>>
  BY SameChannel DEF Cksum!Send
<1>2. /\ blocked' = [blocked EXCEPT ![c] = "send"] /\ blocked[c] = "running"
      /\ UNCHANGED answer /\ blocked \in [Clients -> {"running", "send", "reply", "dead"}]
  BY <1>1 DEF MsgSend, CksumIInv, ChannelInv, ChannelTypeOK
<1>3. \A d \in Clients : Cksum!Deserved(d)' = Cksum!Deserved(d)
  BY <1>1, SameDeserved
<1>4. Cksum!Deserved(c) # {}
  BY DEF Cksum!Deserved
<1>5. /\ Cksum!Due = [d \in Clients |->
           IF blocked[d] \in {"send", "reply"} THEN Cksum!Deserved(d) ELSE {}]
      /\ Cksum!Due' = [d \in Clients |->
           IF blocked'[d] \in {"send", "reply"} THEN Cksum!Deserved(d)' ELSE {}]
  BY DEF Cksum!Due
<1>6. Cksum!Due[c] = {} /\ Cksum!Due'[c] # {}
  BY <1>2, <1>3, <1>4, <1>5
<1>7. Cksum!Due' = [Cksum!Due EXCEPT ![c] = Cksum!Due'[c]]
  BY <1>2, <1>3, <1>5
<1> QED
  BY <1>2, <1>6, <1>7 DEF Cksum!Service!Ask

\* A client asks or leaves; connecting, pulses and starting again go unseen.
LEMMA CksumClientRefines ==
  ASSUME CksumIInv, NEW c \in Clients, Cksum!Client(c)
  PROVE  Cksum!Service!Next \/ CksumUnseen
<1> USE DEF CksumIInv
<1>0. blocked \in [Clients -> {"running", "send", "reply", "dead"}]
  BY DEF ChannelInv, ChannelTypeOK
<1>1. CASE Cksum!Connect(c)
  <2>1. NameOpen(c) /\ server' = server
    BY <1>1, SameChannel DEF Cksum!Connect
  <2>2. \A d \in Clients \ {c} : program'[d] = program[d] /\ text'[d] = text[d]
    BY <1>1 DEF Cksum!Connect, CksumTyped
  <2>3. UNCHANGED <<blocked, answer>> /\ blocked[c] = "running"
    BY <2>1 DEF NameOpen
  <2>4. Cksum!Due' = Cksum!Due
    BY <2>1, <2>2, <2>3, SameDue
  <2> QED
    BY <2>3, <2>4 DEF CksumUnseen
<1>2. CASE Cksum!SendPulse(c)
  <2>1. UNCHANGED <<server, program, text, blocked, answer>>
    BY <1>2 DEF Cksum!SendPulse, Cksum!channel
  <2>2. Cksum!Due' = Cksum!Due
    BY <2>1, SameDue
  <2> QED
    BY <2>1, <2>2 DEF CksumUnseen
<1>3. CASE Cksum!Send(c)
  BY <1>3, CksumAskRefines DEF Cksum!Service!Next
<1>4. CASE Cksum!End(c)
  <2>1. server' = server
    BY <1>4 DEF Cksum!End
  <2>2. IF blocked'[c] = "dead" THEN Cksum!Forget(c) ELSE UNCHANGED <<program, text>>
    BY <1>4 DEF Cksum!End, Cksum!clients
  <2>3. CASE UNCHANGED <<blocked, answer>> /\ blocked[c] # "dead"
    <3>1. UNCHANGED <<program, text>>
      BY <2>2, <2>3
    <3>2. Cksum!Due' = Cksum!Due
      BY <2>1, <2>3, <3>1, SameDue
    <3> QED
      BY <2>3, <3>2 DEF CksumUnseen
  <2>4. CASE /\ blocked' = [blocked EXCEPT ![c] = "dead"]
             /\ answer' = [answer EXCEPT ![c] = NoOne]
    <3>1. \A d \in Clients \ {c} :
            blocked'[d] = blocked[d] /\ program'[d] = program[d] /\ text'[d] = text[d]
      BY <1>0, <2>2, <2>4 DEF Cksum!Forget, CksumTyped
    <3>2. blocked'[c] = "dead"
      BY <1>0, <2>4
    <3>3. Cksum!Due' = [Cksum!Due EXCEPT ![c] = {}]
      BY <2>1, <3>1, <3>2, DueEmptied
    <3> QED
      BY <2>4, <3>3 DEF Cksum!Service!Leave, Cksum!Service!Next
  <2>5. \/ UNCHANGED <<blocked, answer>> /\ blocked[c] # "dead"
        \/ /\ blocked' = [blocked EXCEPT ![c] = "dead"]
           /\ answer' = [answer EXCEPT ![c] = NoOne]
    <3>1. CASE Cksum!Named
      BY <1>4, <3>1 DEF Cksum!End, Cksum!ClientEnds
    <3>2. CASE ~Cksum!Named
      BY <1>4, <3>2 DEF Cksum!End
    <3> QED
      BY <3>1, <3>2
  <2> QED
    BY <2>3, <2>4, <2>5
<1>5. CASE Cksum!Restart(c)
  <2>1. /\ blocked[c] = "dead" /\ blocked' = [blocked EXCEPT ![c] = "running"]
        /\ UNCHANGED <<server, answer>>
    BY <1>5 DEF Cksum!Restart, Cksum!ClientRestarts
  <2>2. \A d \in Clients \ {c} : program'[d] = program[d] /\ text'[d] = text[d]
    BY <1>5 DEF Cksum!Restart, Cksum!Forget, CksumTyped
  <2>3. \A d \in Clients :
          /\ blocked'[d] \in {"send", "reply"} <=> blocked[d] \in {"send", "reply"}
          /\ blocked[d] \in {"send", "reply"} => d # c
    BY <1>0, <2>1
  <2>4. Cksum!Due' = Cksum!Due
    BY <2>1, <2>2, <2>3, SameDue
  <2> QED
    BY <2>1, <2>4 DEF CksumUnseen
<1> QED
  BY <1>1, <1>2, <1>3, <1>4, <1>5 DEF Cksum!Client

\* A reply to the client of the message, or to nobody.
LEMMA CksumAnswerRefines ==
  ASSUME CksumIInv, NEW from \in {"dispatch", "read", "unblock"}, NEW a,
         Cksum!Answer(from, a),
         whom \in Clients /\ blocked[whom] = "reply" => a \in Cksum!Deserved(whom)
  PROVE  Cksum!Service!Next \/ CksumUnseen
<1>1. /\ spc = from /\ UNCHANGED <<server, program, text>>
      /\ IF whom = NoOne THEN UNCHANGED channel ELSE MsgReply(whom, a)
  BY SameChannel
  DEF Cksum!Answer, Cksum!ServerStep, Cksum!clients, Cksum!channel, channel
<1>2. whom \in Clients \cup {NoOne}
  BY <1>1 DEF CksumIInv, OneReceived
<1>3. CASE whom \in Clients /\ blocked[whom] = "reply"
  <2>1. /\ blocked' = [blocked EXCEPT ![whom] =
                    IF whom \in killed THEN "dead" ELSE "running"]
        /\ answer' = [answer EXCEPT ![whom] = IF whom \in killed THEN NoOne ELSE a]
        /\ blocked \in [Clients -> {"running", "send", "reply", "dead"}]
        /\ answer \in [Clients -> CksumAnswers \cup {NoOne}]
    BY <1>1, <1>3, ChannelAssumption DEF MsgReply, CksumIInv, ChannelInv, ChannelTypeOK
  <2>2. /\ blocked'[whom] \notin {"send", "reply"}
        /\ \A d \in Clients \ {whom} : blocked'[d] = blocked[d]
    BY <1>3, <2>1
  <2>3. Cksum!Due' = [Cksum!Due EXCEPT ![whom] = {}]
    BY <1>1, <1>3, <2>2, DueEmptied
  <2>4. CASE whom \in killed
    BY <1>3, <2>1, <2>3, <2>4 DEF Cksum!Service!Leave, Cksum!Service!Next
  <2>5. CASE whom \notin killed
    <3>1. a \in Cksum!Due[whom]
      BY <1>3 DEF Cksum!Due
    <3>2. Cksum!Service!Serve(whom)
      BY <1>3, <2>1, <2>3, <2>5, <3>1 DEF Cksum!Service!Serve
    <3> QED
      BY <1>3, <3>2 DEF Cksum!Service!Next
  <2> QED
    BY <2>4, <2>5
<1>4. CASE ~(whom \in Clients /\ blocked[whom] = "reply")
  <2>1. UNCHANGED channel
    BY <1>1, <1>2, <1>4 DEF MsgReply
  <2>2. Cksum!Due' = Cksum!Due
    BY <1>1, <2>1, SameDue DEF channel
  <2> QED
    BY <2>1, <2>2 DEF channel, CksumUnseen
<1> QED
  BY <1>3, <1>4

\* Everything else that the server does leaves requests and answers alone.
LEMMA CksumReceiveRefines ==
  ASSUME CksumIInv, Cksum!FromChannel \/ Cksum!Detach \/ Cksum!Malloc
  PROVE  CksumUnseen
<1>1. UNCHANGED <<server, program, text>>
  BY DEF Cksum!FromChannel, Cksum!Receive, Cksum!ReceiveClientPulse, Cksum!ReceiveUnblock,
         Cksum!ReceiveDisconnect, Cksum!Detach, Cksum!Malloc, Cksum!ServerStep,
         Cksum!clients
<1>2. answer' = answer
  BY DEF Cksum!FromChannel, Cksum!Receive, Cksum!ReceiveClientPulse, Cksum!ReceiveUnblock,
         Cksum!ReceiveDisconnect, Cksum!Detach, Cksum!Malloc, Cksum!channel,
         Cksum!MsgReceive, Cksum!ReceivePulse, Cksum!ConnectDetach
<1>3. blocked' = blocked \/ \E c \in Clients : MsgReceive(c)
  BY SameChannel
  DEF Cksum!FromChannel, Cksum!Receive, Cksum!ReceiveClientPulse, Cksum!ReceiveUnblock,
      Cksum!ReceiveDisconnect, Cksum!Detach, Cksum!Malloc, Cksum!channel,
      ReceivePulse, ConnectDetach
<1>4. \A c \in Clients :
        blocked'[c] \in {"send", "reply"} <=> blocked[c] \in {"send", "reply"}
  BY <1>3 DEF MsgReceive, CksumIInv, ChannelInv, ChannelTypeOK
<1>5. Cksum!Due' = Cksum!Due
  BY <1>1, <1>4, SameDue
<1> QED
  BY <1>2, <1>5 DEF CksumUnseen

\* Every step is one of the abstract server, or unseen.
LEMMA CksumStepRefines ==
  CksumIInv /\ [Cksum!Next]_Cksum!vars => [Cksum!Service!Next]_<<Cksum!Due, answer>>
<1> SUFFICES ASSUME CksumIInv, [Cksum!Next]_Cksum!vars
             PROVE  Cksum!Service!Next \/ CksumUnseen
  BY DEF CksumUnseen
<1>1. CASE \/ Cksum!AnswerUnblock \/ Cksum!Refuse \/ Cksum!Reply \/ Cksum!MallocFails
           \/ Cksum!ReadAndReply
  BY <1>1, AnswersAreDeserved, CksumAnswerRefines
<1>2. CASE UNCHANGED Cksum!vars
  <2>1. UNCHANGED <<server, program, text, blocked, answer>>
    BY <1>2 DEF Cksum!vars, Cksum!channel, Cksum!clients
  <2>2. Cksum!Due' = Cksum!Due
    BY <2>1, SameDue
  <2> QED
    BY <2>1, <2>2 DEF CksumUnseen
<1> QED
  BY <1>1, <1>2, CksumClientRefines, CksumReceiveRefines DEF Cksum!Next, Cksum!Handle

\* Each of the four servers answers a request at most once, with the checksum of
\* the client's own text or the error that it deserves, whatever an earlier, longer
\* message, a pulse or unwritten memory has left in the receive buffer, and whenever
\* an unblock pulse arrives; nobody who has not asked is told anything.  (That each
\* is answered is liveness, and checked only.)
THEOREM ChecksumsAreSafe == CksumSafe => Cksum!Service!Safe
<1>1. Cksum!Init => Cksum!Service!Init
  BY SameChannel DEF Cksum!Init, ChannelInit, Cksum!Due, Cksum!Service!Init
<1>2. CksumIInv /\ [Cksum!Next]_Cksum!vars => [Cksum!Service!Next]_<<Cksum!Due, answer>>
  BY CksumStepRefines
<1>3. CksumSafe => []CksumIInv
  BY CksumSpecIInv
<1> QED
  BY <1>1, <1>2, <1>3, PTL
  DEF CksumSafe, Cksum!Spec, Cksum!Service!Safe, Cksum!Service!serverVars

-----------------------------------------------------------------------------
(* No connection leaks.                                                    *)

\* A client that has gone and still has its scoid is being detached, or is the next
\* to be; on a plain channel there is none.
CksumNobodyForgotten == NoneForgotten(IF spc = "detach" THEN {whom} ELSE {})

\* Without name_attach's flags the scoid goes with its client.
LEMMA PlainEndForgetsNobody ==
  ASSUME CksumIInv, NEW c \in Clients, NEW D, NoneForgotten(D), ~Cksum!Named,
         Cksum!End(c)
  PROVE  NoneForgotten(D)' /\ LiveStayConnected
<1>1. /\ blocked' = [blocked EXCEPT ![c] = "dead"] /\ scoid' = [scoid EXCEPT ![c] = NoOne]
      /\ pulses' = pulses
      /\ blocked \in [Clients -> {"running", "send", "reply", "dead"}]
      /\ scoid \in [Clients -> Scoids \cup {NoOne}]
  BY DEF Cksum!End, CksumIInv, ChannelInv, ChannelTypeOK
<1> QED
  BY <1>1 DEF NoneForgotten, LiveStayConnected

\* Only a disconnect pulse takes a server to ConnectDetach, and that pulse is about a
\* client that is gone.
LEMMA CksumStepForgetsNobody ==
  CksumIInv /\ CksumNobodyForgotten /\ [Cksum!Next]_Cksum!vars =>
    CksumNobodyForgotten' /\ LiveStayConnected
<1> SUFFICES ASSUME CksumIInv, CksumNobodyForgotten, [Cksum!Next]_Cksum!vars
             PROVE  CksumNobodyForgotten' /\ LiveStayConnected
  OBVIOUS
<1> USE SameChannel DEF CksumIInv, CksumNobodyForgotten
<1>1. ASSUME NEW c \in Clients, Cksum!Client(c)
      PROVE  CksumNobodyForgotten' /\ LiveStayConnected
  <2>1. UNCHANGED <<spc, whom>>
    BY <1>1
    DEF Cksum!Client, Cksum!Connect, Cksum!SendPulse, Cksum!Send, Cksum!End, Cksum!Restart
  <2>2. CASE ~Cksum!Named /\ Cksum!End(c)
    BY <2>1, <2>2, PlainEndForgetsNobody
  <2>3. CASE ~(~Cksum!Named /\ Cksum!End(c))
    <3>1. \/ NameOpen(c) \/ (\E m : MsgSend(c, m)) \/ ClientEnds(c) \/ ClientRestarts(c)
          \/ UNCHANGED channel
      BY <1>1, <2>3
      DEF Cksum!Client, Cksum!Connect, Cksum!SendPulse, Cksum!Send, Cksum!End,
          Cksum!Restart, Cksum!channel, channel
    <3> QED
      BY <2>1, <3>1, CallForgetsNobody
  <2> QED
    BY <2>2, <2>3
<1>2. ASSUME NEW s \in Scoids, Cksum!ReceiveDisconnect(s)
      PROVE  CksumNobodyForgotten' /\ LiveStayConnected
  <2>1. ReceivePulse(Disconnect(s)) /\ spc = "receive" /\ spc' = "detach" /\ whom' = s
    BY <1>2 DEF Cksum!ReceiveDisconnect, Cksum!ServerStep
  <2> QED
    BY <2>1, DisconnectIsNoted
<1>3. CASE Cksum!Detach
  <2>1. ConnectDetach(whom) /\ spc = "detach" /\ spc' = "receive"
    BY <1>3 DEF Cksum!Detach, Cksum!ServerStep
  <2> QED
    BY <2>1, DetachForgetsNobody DEF OneReceived
<1>4. ASSUME NEW c \in Clients,
             Cksum!Receive(c) \/ Cksum!ReceiveClientPulse(c) \/ Cksum!ReceiveUnblock(c)
      PROVE  CksumNobodyForgotten' /\ LiveStayConnected
  <2>1. /\ spc # "detach" /\ spc' # "detach"
        /\ MsgReceive(c) \/ ReceivePulse(Unblock(c)) \/ UNCHANGED channel
    BY <1>4
    DEF Cksum!Receive, Cksum!ReceiveClientPulse, Cksum!ReceiveUnblock, Cksum!ServerStep,
        Cksum!channel, channel
  <2> QED
    BY <2>1, CallForgetsNobody
<1>5. ASSUME NEW from \in {"dispatch", "read", "unblock"}, NEW a, Cksum!Answer(from, a)
      PROVE  CksumNobodyForgotten' /\ LiveStayConnected
  <2>1. /\ spc = from /\ spc' = "receive"
        /\ IF whom = NoOne THEN UNCHANGED channel ELSE MsgReply(whom, a)
    BY <1>5 DEF Cksum!Answer, Cksum!ServerStep, Cksum!channel, channel
  <2>2. whom \in Clients \cup {NoOne}
    BY <2>1 DEF OneReceived
  <2>3. CASE whom \in Clients
    BY <2>1, <2>3, CallForgetsNobody, ChannelAssumption
  <2>4. CASE whom = NoOne
    BY <2>1, <2>4 DEF channel, NoneForgotten, LiveStayConnected
  <2> QED
    BY <2>2, <2>3, <2>4
<1>6. CASE Cksum!Malloc \/ UNCHANGED Cksum!vars
  <2>1. /\ UNCHANGED channel
        /\ UNCHANGED <<spc, whom>> \/ (spc # "detach" /\ spc' # "detach")
    BY <1>6 DEF Cksum!Malloc, Cksum!ServerStep, Cksum!vars, Cksum!channel, channel
  <2> QED
    BY <2>1 DEF channel, NoneForgotten, LiveStayConnected
<1>7. Cksum!Handle => \/ Cksum!Detach \/ Cksum!Malloc
                      \/ \E from \in {"dispatch", "read", "unblock"} :
                           \E a : Cksum!Answer(from, a)
  BY DEF Cksum!Handle, Cksum!AnswerUnblock, Cksum!Refuse, Cksum!Reply, Cksum!MallocFails,
         Cksum!ReadAndReply
<1> QED
  BY <1>1, <1>2, <1>3, <1>4, <1>5, <1>6, <1>7 DEF Cksum!Next, Cksum!FromChannel

\* name_lookup_server.c:78-81, iov_server.c:121-126: "always release scoid".  No
\* connection leaks and none is taken away: every client that has gone is detached or
\* its pulse still waits, and a client that lives keeps its connection.  (That the
\* pulse is received some time is liveness, and checked only.)
THEOREM CksumConnectionsComeBack ==
  CksumSafe => []CksumNobodyForgotten /\ [][LiveStayConnected]_Cksum!vars
<1>1. Cksum!Init => CksumNobodyForgotten
  BY NoneForgottenAtFirst, SameChannel DEF Cksum!Init, CksumNobodyForgotten
<1>2. CksumIInv /\ CksumNobodyForgotten /\ [Cksum!Next]_Cksum!vars =>
        CksumNobodyForgotten' /\ LiveStayConnected
  BY CksumStepForgetsNobody
<1> QED
  BY <1>1, <1>2, CksumSpecIInv, PTL DEF CksumSafe, Cksum!Spec
=============================================================================
