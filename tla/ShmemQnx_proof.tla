--------------------------- MODULE ShmemQnx_proof ---------------------------
(***************************************************************************)
(* Proofs about ShmemQnx, for any number of clients and scoids, and any    *)
(* sizes for which offset and length of a CHANGED that passes the first    *)
(* two comparisons cannot wrap around.                                     *)
(***************************************************************************)
EXTENDS ShmemQnx, QnxChannel_proof

Answers == {"ok", "error"}

Handling == {"get", "changed", "release", "other"}

\* The server handles one message at a time, and only its sender waits for a
\* reply; cur is that sender.
OneOpenRequest ==
  /\ mpc \in Handling =>
       /\ cur \in Clients /\ blocked[cur] = "reply" /\ msg[cur].type = mpc
       /\ \A c \in Clients : blocked[c] = "reply" => c = cur
  /\ mpc \notin Handling => \A c \in Clients : blocked[c] # "reply"

\* A scoid that is about to be detached is that of a client that is gone, and
\* not the current one.
DetachesTheGone ==
  mpc = "detach" => cur \in Scoids /\ Gone(cur) /\ client_scoid # cur

\* The current client's scoid is in use; and unless a GET has failed since, the
\* mapping is its, has a size that was asked for and allowed, and that size is
\* the one the server checks against.
CurrentMapping ==
  client_scoid # NoOne =>
    /\ client_scoid \in ScoidsInUse
    /\ ~get_failed =>
         /\ shmem_ptr # NoOne /\ scoid[shmem_ptr.of] = client_scoid
         /\ shmem_ptr.size = shmem_memory_size
         /\ shmem_memory_size \in AskedSizes /\ shmem_memory_size <= MaxSize

\* All that TypeOK says of the server's own variables.
ServerTypeOK ==
  /\ client_scoid \in Scoids \cup {NoOne}
  /\ shmem_ptr \in {NoOne} \cup [of : Clients, size : Unsigned]
  /\ shmem_memory_size \in Unsigned
  /\ mpc \in {"name_attach", "receive", "detach"} \cup Handling
  /\ cur \in Clients \cup Scoids \cup {NoOne}
  /\ read_outside \in BOOLEAN /\ answered_outside \in BOOLEAN
  /\ unmapped_wrongly \in BOOLEAN /\ get_failed \in BOOLEAN

IInv ==
  /\ ChannelInv(Messages, Answers)
  /\ ServerTypeOK
  /\ OneOpenRequest
  /\ DetachesTheGone
  /\ CurrentMapping
  /\ MappingRespected

\* The fields that a message of each type has.
LEMMA MessageFields ==
  ASSUME NEW m \in Messages
  PROVE  /\ m.type \in Handling
         /\ m.type = "get" => m.size \in AskedSizes
         /\ m.type = "changed" => m.offset \in Unsigned /\ m.length \in Unsigned
<1>1. CASE \E n \in AskedSizes : m = Get(n)
  BY <1>1 DEF Get, Handling
<1>2. CASE \E o, n \in Named : m = Changed(o, n)
  BY <1>2, ShmemQnxAssumption DEF Changed, Handling, Unsigned
<1>3. CASE m = Release
  BY <1>3 DEF Release, Handling
<1>4. CASE m = Other
  BY <1>4 DEF Other, Handling
<1> QED
  BY <1>1, <1>2, <1>3, <1>4 DEF Messages

\* A mapping that is made is not the null pointer, and has its two fields.
LEMMA MappingFields ==
  ASSUME NEW c \in Clients, NEW n \in Unsigned
  PROVE  /\ Mapping(c, n) \in [of : Clients, size : Unsigned]
         /\ Mapping(c, n) # NoOne
         /\ Mapping(c, n).of = c /\ Mapping(c, n).size = n
BY ShmemQnxAssumption DEF Mapping, Unsigned

LEMMA InitIInv == Init => IInv
<1> SUFFICES ASSUME Init PROVE IInv
  OBVIOUS
<1>1. ChannelInv(Messages, Answers)
  BY ChannelStarts DEF Init
<1>2. ServerTypeOK
  BY DEF Init, ServerTypeOK
<1>3. OneOpenRequest /\ DetachesTheGone
  BY DEF Init, ChannelInit, OneOpenRequest, DetachesTheGone, Handling
<1>4. CurrentMapping /\ MappingRespected
  BY DEF Init, CurrentMapping, MappingRespected
<1> QED
  BY <1>1, <1>2, <1>3, <1>4 DEF IInv

\* What the clients do takes nothing away from what the server relies on.
LEMMA ClientKeeps ==
  ASSUME IInv, NEW c \in Clients, ClientStep(c)
  PROVE  IInv'
<1>1. ChannelInv(Messages, Answers)' /\ ScoidsStay
  BY NameOpenKeeps, MsgSendKeeps, ClientEndsKeeps, ClientRestartsKeeps
  DEF ClientStep, IInv
<1>2. UNCHANGED server /\ ServerTypeOK'
  BY DEF ClientStep, server, object, wrongs, IInv, ServerTypeOK
<1>3. /\ \A d \in Clients : blocked'[d] = "reply" <=> blocked[d] = "reply"
      /\ \A d \in Clients : blocked[d] = "reply" => msg'[d] = msg[d]
  BY DEF ClientStep, IInv, ChannelInv, ChannelTypeOK, NameOpen, MsgSend, ClientEnds,
         ClientRestarts
<1>4. OneOpenRequest'
  BY <1>2, <1>3 DEF IInv, OneOpenRequest, server
<1>5. DetachesTheGone'
  BY <1>1, <1>2 DEF IInv, DetachesTheGone, ScoidsStay, Gone, ClientIsGone, server, object
<1>6. CurrentMapping'
  BY <1>1, <1>2, ChannelAssumption
  DEF IInv, CurrentMapping, ScoidsInUse, ScoidsStay, server, object, wrongs, ServerTypeOK
<1>7. MappingRespected'
  BY <1>2 DEF IInv, MappingRespected, server, object, wrongs
<1> QED
  BY <1>1, <1>2, <1>4, <1>5, <1>6, <1>7 DEF IInv

\* A pulse is received: that of the current client removes the mapping.
LEMMA DisconnectKeeps ==
  ASSUME IInv, NEW s \in Scoids, GetDisconnect(s)
  PROVE  IInv'
<1> USE DEF GetDisconnect, MainStep
<1>1. ChannelInv(Messages, Answers)' /\ ScoidsStay /\ Gone(s)'
  BY ReceivePulseKeeps DEF IInv
<1>2. UNCHANGED <<scoid, blocked, msg>> /\ mpc = "receive" /\ mpc' = "detach" /\ cur' = s
  BY DEF ReceivePulse
<1>3. ServerTypeOK'
  BY <1>2 DEF IInv, ServerTypeOK, Munmap, object, wrongs
<1>4. OneOpenRequest'
  BY <1>2 DEF IInv, OneOpenRequest, Handling
<1>5. client_scoid' # s
  BY ChannelAssumption DEF object
<1>6. DetachesTheGone'
  BY <1>1, <1>2, <1>5 DEF DetachesTheGone
<1>7. CASE s = client_scoid
  <2>1. client_scoid' = NoOne
    BY <1>7
  <2>2. CurrentMapping'
    BY <2>1 DEF CurrentMapping
  <2>3. ~get_failed => ~unmapped_wrongly'
    BY <1>7, ChannelAssumption DEF IInv, MappingRespected, CurrentMapping, Munmap
  <2>4. MappingRespected'
    BY <1>7, <2>3 DEF IInv, MappingRespected, Munmap
  <2> QED
    BY <1>1, <1>3, <1>4, <1>6, <2>2, <2>4 DEF IInv
<1>8. CASE s # client_scoid
  <2>1. CurrentMapping' /\ MappingRespected'
    BY <1>2, <1>8 DEF IInv, CurrentMapping, MappingRespected, ScoidsInUse, object, wrongs
  <2> QED
    BY <1>1, <1>3, <1>4, <1>6, <2>1 DEF IInv
<1> QED
  BY <1>7, <1>8

LEMMA UnblockKeeps ==
  ASSUME IInv, NEW c \in Clients, GetUnblock(c)
  PROVE  IInv'
<1> USE DEF GetUnblock, MainStep
<1>1. ChannelInv(Messages, Answers)'
  BY ReceivePulseKeeps DEF IInv
<1>2. UNCHANGED <<scoid, blocked, msg, object, mpc, cur, wrongs>> /\ mpc = "receive"
  BY DEF ReceivePulse
<1> QED
  BY <1>1, <1>2
  DEF IInv, ServerTypeOK, OneOpenRequest, DetachesTheGone, CurrentMapping, ScoidsInUse,
      MappingRespected, object, wrongs

\* ConnectDetach takes away the scoid of a client that is gone, which is not
\* the current one.
LEMMA DetachKeeps ==
  ASSUME IInv, Detach
  PROVE  IInv'
<1> USE DEF Detach, MainStep
<1>1. cur \in Scoids /\ Gone(cur) /\ client_scoid # cur
  BY DEF IInv, DetachesTheGone
<1>2. /\ ChannelInv(Messages, Answers)'
      /\ \A c \in Clients : scoid[c] # cur => scoid'[c] = scoid[c]
  BY <1>1, ConnectDetachKeeps DEF IInv
<1>3. ServerTypeOK'
  BY DEF IInv, ServerTypeOK, object, wrongs
<1>4. OneOpenRequest' /\ DetachesTheGone'
  BY DEF IInv, OneOpenRequest, DetachesTheGone, ConnectDetach, Handling
<1>5. CurrentMapping'
  BY <1>1, <1>2 DEF IInv, CurrentMapping, ScoidsInUse, ServerTypeOK, object, wrongs
<1>6. MappingRespected'
  BY DEF IInv, MappingRespected, object, wrongs
<1> QED
  BY <1>2, <1>3, <1>4, <1>5, <1>6 DEF IInv

LEMMA MessageKeeps ==
  ASSUME IInv, NEW c \in Clients, GetMessage(c)
  PROVE  IInv'
<1> USE DEF GetMessage, MainStep
<1>1. ChannelInv(Messages, Answers)'
  BY MsgReceiveKeeps DEF IInv
<1>2. /\ UNCHANGED <<scoid, msg, object, wrongs>>
      /\ mpc = "receive" /\ mpc' = msg[c].type /\ cur' = c
      /\ blocked' = [blocked EXCEPT ![c] = "reply"] /\ blocked[c] = "send"
  BY DEF MsgReceive
<1>3. mpc' \in Handling
  BY <1>2, MessageFields DEF IInv, ChannelInv, BlockedHaveSent
<1>4. OneOpenRequest'
  BY <1>2, <1>3
  DEF IInv, OneOpenRequest, Handling, ChannelInv, ChannelTypeOK
<1>5. ServerTypeOK'
  BY <1>2, <1>3 DEF IInv, ServerTypeOK, object, wrongs
<1>6. DetachesTheGone'
  BY <1>3 DEF DetachesTheGone, Handling
<1>7. CurrentMapping' /\ MappingRespected'
  BY <1>2 DEF IInv, CurrentMapping, ScoidsInUse, MappingRespected, object, wrongs
<1> QED
  BY <1>1, <1>4, <1>5, <1>6, <1>7 DEF IInv

\* A reply ends the one open request.
LEMMA ReplyKeeps ==
  ASSUME IInv, NEW type \in Handling, NEW a \in Answers, Handle(type, a)
  PROVE  /\ ChannelInv(Messages, Answers)' /\ scoid' = scoid
         /\ OneOpenRequest' /\ DetachesTheGone'
         /\ mpc' = "receive" /\ cur' = NoOne
         /\ cur \in Clients /\ msg[cur] \in Messages /\ msg[cur].type = type
         /\ scoid[cur] \in Scoids
<1> USE DEF Handle, MainStep
<1>1. /\ cur \in Clients /\ blocked[cur] = "reply" /\ msg[cur].type = type
      /\ \A c \in Clients : blocked[c] = "reply" => c = cur
      /\ mpc' = "receive" /\ cur' = NoOne
  BY DEF IInv, OneOpenRequest
<1>2. msg[cur] \in Messages /\ scoid[cur] \in Scoids
  BY <1>1 DEF IInv, ChannelInv, ChannelTypeOK, BlockedHaveSent
<1>3. ChannelInv(Messages, Answers)'
  BY <1>1, MsgReplyKeeps DEF IInv
<1>4. scoid' = scoid /\ \A c \in Clients : blocked'[c] # "reply"
  BY <1>1 DEF MsgReply, IInv, ChannelInv, ChannelTypeOK
<1>5. OneOpenRequest' /\ DetachesTheGone'
  BY <1>1, <1>4 DEF OneOpenRequest, DetachesTheGone, Handling
<1> QED
  BY <1>1, <1>2, <1>3, <1>4, <1>5

\* The handlers of GET.
LEMMA GetKeeps ==
  ASSUME IInv, GetTooBig \/ GetCreateFails \/ GetCreated
  PROVE  IInv'
<1>1. CASE GetTooBig \/ GetCreateFails
  <2>1. Handle("get", "error") /\ shmem_memory_size' = msg[cur].size /\ GetFailed
        /\ shmem_ptr' \in {shmem_ptr, NoOne} /\ client_scoid' = client_scoid
    BY <1>1 DEF GetTooBig, GetCreateFails
  <2>2. /\ ChannelInv(Messages, Answers)' /\ OneOpenRequest' /\ DetachesTheGone'
        /\ scoid' = scoid /\ mpc' = "receive" /\ cur' = NoOne
        /\ msg[cur] \in Messages /\ msg[cur].type = "get"
    BY <2>1, ReplyKeeps DEF Handling, Answers
  <2>3. shmem_memory_size' \in Unsigned
    BY <2>1, <2>2, MessageFields, ShmemQnxAssumption DEF Unsigned
  <2>4. ServerTypeOK'
    BY <2>1, <2>2, <2>3 DEF IInv, ServerTypeOK, GetFailed
  <2>5. CurrentMapping'
    BY <2>1, <2>2 DEF IInv, CurrentMapping, ScoidsInUse, GetFailed
  <2>6. MappingRespected'
    BY <2>1 DEF MappingRespected, GetFailed
  <2> QED
    BY <2>2, <2>4, <2>5, <2>6 DEF IInv
<1>2. CASE GetCreated
  <2> USE <1>2 DEF GetCreated
  <2>1. /\ ChannelInv(Messages, Answers)' /\ OneOpenRequest' /\ DetachesTheGone'
        /\ scoid' = scoid /\ mpc' = "receive" /\ cur' = NoOne
        /\ cur \in Clients /\ msg[cur] \in Messages /\ msg[cur].type = "get"
        /\ scoid[cur] \in Scoids
    BY ReplyKeeps DEF Handling, Answers
  <2>2. shmem_memory_size' \in AskedSizes /\ shmem_memory_size' \in Unsigned
    BY <2>1, MessageFields, ShmemQnxAssumption DEF Unsigned
  <2>3. /\ shmem_ptr' \in [of : Clients, size : Unsigned] /\ shmem_ptr' # NoOne
        /\ shmem_ptr'.of = cur /\ shmem_ptr'.size = shmem_memory_size'
    BY <2>1, <2>2, MappingFields
  <2>4. ServerTypeOK'
    BY <2>1, <2>2, <2>3 DEF IInv, ServerTypeOK, NewObject
  <2>5. CurrentMapping'
    BY <2>1, <2>2, <2>3, ChannelAssumption DEF CurrentMapping, ScoidsInUse
  <2>6. MappingRespected'
    BY <2>1, ChannelAssumption DEF MappingRespected, NewObject
  <2> QED
    BY <2>1, <2>4, <2>5, <2>6 DEF IInv
<1> QED
  BY <1>1, <1>2

\* The sum of two numbers that do not exceed the current size does not wrap
\* around, so that what the server checks is what it means.
LEMMA InRangeIsInside ==
  ASSUME shmem_memory_size \in Nat, shmem_memory_size <= MaxSize,
         NEW o \in Nat, NEW n \in Nat, InRange(o, n)
  PROVE  o + n <= shmem_memory_size
<1>1. n + o \in 0 .. Modulus - 1
  BY ShmemQnxAssumption DEF InRange
<1>2. (n + o) % Modulus = n + o
  BY <1>1, ShmemQnxAssumption
<1> QED
  BY <1>2 DEF InRange

LEMMA ChangedKeeps ==
  ASSUME IInv, ChangedAccepted
  PROVE  IInv'
<1> USE DEF ChangedAccepted
<1>1. /\ ChannelInv(Messages, Answers)' /\ OneOpenRequest' /\ DetachesTheGone'
      /\ scoid' = scoid /\ mpc' = "receive" /\ cur' = NoOne
      /\ cur \in Clients /\ msg[cur] \in Messages /\ msg[cur].type = "changed"
      /\ scoid[cur] \in Scoids
  BY ReplyKeeps DEF Handling, Answers
<1>2. ServerTypeOK'
  BY <1>1, ShmemQnxAssumption DEF IInv, ServerTypeOK, object
<1>3. CurrentMapping'
  BY <1>1 DEF IInv, CurrentMapping, ScoidsInUse, object
<1>4. ASSUME ~get_failed
      PROVE  ~read_outside'
  <2>1. /\ shmem_ptr # NoOne /\ shmem_ptr.size = shmem_memory_size
        /\ shmem_memory_size \in AskedSizes /\ shmem_memory_size <= MaxSize
    BY <1>1, <1>4, ChannelAssumption DEF NotCurrent, IInv, CurrentMapping
  <2>2. msg[cur].offset \in Nat /\ msg[cur].length \in Nat
    BY <1>1, MessageFields, ShmemQnxAssumption DEF Unsigned
  <2>3. shmem_memory_size \in Nat
    BY ShmemQnxAssumption DEF IInv, ServerTypeOK, Unsigned
  <2>4. msg[cur].offset + msg[cur].length <= shmem_ptr.size
    BY <2>1, <2>2, <2>3, InRangeIsInside
  <2>5. ~(msg[cur].offset + msg[cur].length > shmem_ptr.size)
    BY <2>1, <2>2, <2>3, <2>4
  <2> QED
    BY <1>4, <2>1, <2>5 DEF IInv, MappingRespected
<1>5. MappingRespected'
  BY <1>4 DEF IInv, MappingRespected, object
<1> QED
  BY <1>1, <1>2, <1>3, <1>5 DEF IInv

LEMMA ReleaseKeeps ==
  ASSUME IInv, ReleaseAccepted
  PROVE  IInv'
<1> USE DEF ReleaseAccepted
<1>1. /\ ChannelInv(Messages, Answers)' /\ OneOpenRequest' /\ DetachesTheGone'
      /\ mpc' = "receive" /\ cur' = NoOne /\ scoid[cur] \in Scoids
  BY ReplyKeeps DEF Handling, Answers
<1>2. ServerTypeOK'
  BY <1>1 DEF IInv, ServerTypeOK, Munmap
<1>3. CurrentMapping'
  BY DEF CurrentMapping
<1>4. ~get_failed => ~unmapped_wrongly'
  BY <1>1, ChannelAssumption DEF NotCurrent, IInv, CurrentMapping, MappingRespected, Munmap
<1>5. MappingRespected'
  BY <1>4 DEF IInv, MappingRespected, Munmap
<1> QED
  BY <1>1, <1>2, <1>3, <1>5 DEF IInv

\* The handlers that refuse.
LEMMA RefusalKeeps ==
  ASSUME IInv,
         \/ StrangerRefused("changed") \/ StrangerRefused("release")
         \/ ChangedOutOfRange \/ Unknown
  PROVE  IInv'
<1>1. PICK type \in Handling : Handle(type, "error") /\ UNCHANGED <<object, wrongs>>
  BY DEF StrangerRefused, ChangedOutOfRange, Unknown, Handling
<1>2. /\ ChannelInv(Messages, Answers)' /\ OneOpenRequest' /\ DetachesTheGone'
      /\ scoid' = scoid /\ mpc' = "receive" /\ cur' = NoOne
  BY <1>1, ReplyKeeps DEF Answers
<1> QED
  BY <1>1, <1>2
  DEF IInv, ServerTypeOK, CurrentMapping, ScoidsInUse, MappingRespected, object, wrongs

LEMMA NameAttachKeeps ==
  ASSUME IInv, NameAttach
  PROVE  IInv'
<1>1. /\ ChannelInv(Messages, Answers)' /\ UNCHANGED <<channel, object, cur, wrongs>>
      /\ mpc = "name_attach" /\ mpc' = "receive"
  BY DEF NameAttach, MainStep, IInv, channel, ChannelInv, ChannelTypeOK, ScoidsUnique,
         BlockedHaveSent, PulsesAreTrue, ClientIsGone
<1> QED
  BY <1>1
  DEF IInv, ServerTypeOK, OneOpenRequest, DetachesTheGone, CurrentMapping, ScoidsInUse,
      MappingRespected, Handling, channel, object, wrongs

LEMMA StutterKeeps == IInv /\ UNCHANGED vars => IInv'
BY DEF vars, channel, object, wrongs, IInv, ChannelInv, ChannelTypeOK, ScoidsUnique,
       BlockedHaveSent, PulsesAreTrue, ClientIsGone, Gone, ServerTypeOK, OneOpenRequest,
       DetachesTheGone, CurrentMapping, ScoidsInUse, MappingRespected

LEMMA StepIInv == IInv /\ [Next]_vars => IInv'
BY ClientKeeps, DisconnectKeeps, UnblockKeeps, DetachKeeps, MessageKeeps, GetKeeps,
   ChangedKeeps, ReleaseKeeps, RefusalKeeps, NameAttachKeeps, StutterKeeps
DEF Next, Handlers

\* The invariant holds in every state of the server and its clients.
THEOREM SpecIInv == Spec => []IInv
  BY InitIInv, StepIInv, PTL DEF Spec

\* The variables keep their types.
THEOREM TypeCorrect == Spec => []TypeOK
<1>1. IInv => TypeOK
  BY DEF IInv, TypeOK, ServerTypeOK, ChannelInv, Answers, Handling
<1> QED
  BY <1>1, SpecIInv, PTL

\* shmem_qnx_server.c:118-124, 140: the scoid that the server has for its current
\* client is never one that can be given to another client.
THEOREM MemoryIsItsClients == Spec => []CurrentClientsMemory
<1>1. IInv => CurrentClientsMemory
  BY DEF IInv, CurrentMapping, CurrentClientsMemory
<1> QED
  BY <1>1, SpecIInv, PTL

\* shmem_qnx_server.c:159-163, 120-123, 189-190: while no GET has failed since the
\* last one served, the range check keeps the server's reads inside the object, for
\* all offsets and lengths that unsigned holds; and the mapping of that GET is
\* unmapped with its size when its client releases it or goes, and is not unmapped
\* again.  Nothing is said of a mapping that a later GET has replaced (it stays), nor
\* of the answer, which may be written outside (AnswerInsideObject does not hold).
THEOREM MappingIsRespected == Spec => []MappingRespected
<1>1. IInv => MappingRespected
  BY DEF IInv
<1> QED
  BY <1>1, SpecIInv, PTL

\* Each branch of the server's switch ends with one reply: it never goes back
\* to MsgReceive with a client left REPLY-blocked.
THEOREM NobodyLeftBlocked == Spec => []NoReplyOwed
<1>1. IInv => NoReplyOwed
  BY DEF IInv, OneOpenRequest, NoReplyOwed, Handling
<1> QED
  BY <1>1, SpecIInv, PTL

\* A client that has gone and still has its scoid is being detached, or is the next
\* to be.
NobodyForgotten == NoneForgotten(IF mpc = "detach" THEN {cur} ELSE {})

\* Only a disconnect pulse takes the server to ConnectDetach, and that pulse is about
\* a client that is gone.
LEMMA StepForgetsNobody ==
  IInv /\ NobodyForgotten /\ [Next]_vars => NobodyForgotten' /\ LiveStayConnected
<1> SUFFICES ASSUME IInv, NobodyForgotten, [Next]_vars
             PROVE  NobodyForgotten' /\ LiveStayConnected
  OBVIOUS
<1> USE DEF IInv, NobodyForgotten, MainStep
<1>1. ASSUME NEW c \in Clients, ClientStep(c) PROVE NobodyForgotten' /\ LiveStayConnected
  <2>1. UNCHANGED <<mpc, cur>>
    BY <1>1 DEF ClientStep, server
  <2> QED
    BY <1>1, <2>1, CallForgetsNobody DEF ClientStep
<1>2. ASSUME NEW s \in Scoids, GetDisconnect(s) PROVE NobodyForgotten' /\ LiveStayConnected
  BY <1>2, DisconnectIsNoted DEF GetDisconnect
<1>3. CASE Detach
  BY <1>3, DetachForgetsNobody DEF Detach, DetachesTheGone
<1>4. ASSUME NEW c \in Clients, GetUnblock(c) \/ GetMessage(c)
      PROVE  NobodyForgotten' /\ LiveStayConnected
  <2>1. mpc' # "detach" /\ mpc # "detach"
    BY <1>4, MessageFields
    DEF GetUnblock, GetMessage, MsgReceive, ChannelInv, BlockedHaveSent, Handling
  <2> QED
    BY <1>4, <2>1, CallForgetsNobody DEF GetUnblock, GetMessage
<1>5. ASSUME NEW type \in Handling, NEW a \in Answers, Handle(type, a)
      PROVE  NobodyForgotten' /\ LiveStayConnected
  <2>1. mpc' # "detach" /\ mpc # "detach" /\ cur \in Clients
    BY <1>5 DEF Handle, Handling, OneOpenRequest
  <2> QED
    BY <1>5, <2>1, CallForgetsNobody DEF Handle
<1>6. CASE NameAttach \/ UNCHANGED vars
  <2>1. UNCHANGED channel /\ (UNCHANGED <<mpc, cur>> \/ (mpc # "detach" /\ mpc' # "detach"))
    BY <1>6 DEF NameAttach, vars
  <2> QED
    BY <2>1 DEF channel, NoneForgotten, LiveStayConnected
<1>7. Handlers => \/ NameAttach \/ Detach
                  \/ \E type \in Handling, a \in Answers : Handle(type, a)
  BY DEF Handlers, GetTooBig, GetCreateFails, GetCreated, StrangerRefused,
         ChangedOutOfRange, ChangedAccepted, ReleaseAccepted, Unknown, Handling, Answers
<1> QED
  BY <1>1, <1>2, <1>3, <1>4, <1>5, <1>6, <1>7 DEF Next

\* shmem_qnx_server.c:118-125: no connection leaks and none is taken away.  Every
\* client that has gone is detached or its pulse still waits, also when it went in
\* the middle of a request; and a client that lives keeps its connection.
THEOREM ConnectionsComeBack == Spec => []NobodyForgotten /\ [][LiveStayConnected]_vars
<1>1. Init => NobodyForgotten
  BY NoneForgottenAtFirst DEF Init, NobodyForgotten
<1>2. IInv /\ NobodyForgotten /\ [Next]_vars => NobodyForgotten' /\ LiveStayConnected
  BY StepForgetsNobody
<1> QED
  BY <1>1, <1>2, SpecIInv, PTL DEF Spec
=============================================================================
