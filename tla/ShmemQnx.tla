------------------------------ MODULE ShmemQnx ------------------------------
(***************************************************************************)
(* ipc/shmem_qnx_server.c with clients like ipc/shmem_qnx_client.c: a      *)
(* client asks for an anonymous shared memory object (GET), says that it   *)
(* has changed a part of it (CHANGED) and gives it back (RELEASE).  The    *)
(* server serves one current client; it is one thread that keeps the       *)
(* current client's scoid, the address of the object and its size.         *)
(*                                                                         *)
(* Sizes, offsets and lengths are unsigned numbers of one unit; what       *)
(* shmem_ptr points to is the live mapping it was set to, or NoOne.  The   *)
(* server's answer goes to a fixed place, which ends at AnswerEnd.  The    *)
(* bytes in the object are left out.  A mapping that shmem_ptr is set away *)
(* from (a GET that comes before the RELEASE) is out of the server's reach *)
(* and out of the model: no line unmaps it.                                *)
(***************************************************************************)
EXTENDS QnxChannel

CONSTANTS
  MaxSize,          \* the largest size the server grants (64 * 1024)
  AskedSizes,       \* the sizes that clients ask for
  Named,            \* the offsets and lengths that they name
  AnswerEnd,        \* where the answer ends (4096 + 30 + its length)
  Modulus           \* unsigned holds 0 .. Modulus - 1 (2^32)

ASSUME ShmemQnxAssumption ==
  /\ MaxSize \in Nat /\ Modulus \in Nat /\ 2 * MaxSize < Modulus
  /\ AnswerEnd \in Nat
  /\ AskedSizes \subseteq 0 .. Modulus - 1 /\ Named \subseteq 0 .. Modulus - 1
  /\ NoOne \notin [of : Clients, size : 0 .. Modulus - 1]

VARIABLES
  client_scoid,        \* the current client
  shmem_ptr,           \* the live mapping it points to, or NoOne
  shmem_memory_size,
  mpc, cur,            \* the server, the client or scoid it is handling
  (* history, each since the last GET that was served: *)
  read_outside,        \* memory outside the mapping was read,
  answered_outside,    \* was overwritten with an answer
  unmapped_wrongly,    \* munmap of what was not a live mapping
  get_failed           \* a GET was refused or could not be served

object == <<client_scoid, shmem_ptr, shmem_memory_size>>
wrongs == <<read_outside, answered_outside, unmapped_wrongly, get_failed>>
vars == <<channel, object, mpc, cur, wrongs>>

Unsigned == 0 .. Modulus - 1

Get(n) == [type |-> "get", size |-> n]
Changed(o, n) == [type |-> "changed", offset |-> o, length |-> n]
Release == [type |-> "release"]
Other == [type |-> "other"]

Messages ==
  {Get(n) : n \in AskedSizes} \cup {Changed(o, n) : o, n \in Named}
    \cup {Release, Other}

Mapping(c, n) == [of |-> c, size |-> n]

Init ==
  /\ ChannelInit
  /\ client_scoid = NoOne
  /\ shmem_ptr = NoOne /\ shmem_memory_size \in Unsigned  \* uninitialised
  /\ mpc = "name_attach" /\ cur = NoOne
  /\ read_outside = FALSE /\ answered_outside = FALSE
  /\ unmapped_wrongly = FALSE /\ get_failed = FALSE

MainStep(from, to) == mpc = from /\ mpc' = to

NameAttach ==
  /\ MainStep("name_attach", "receive")
  /\ UNCHANGED <<channel, object, cur, wrongs>>

-----------------------------------------------------------------------------
(* pulses *)

\* munmap(shmem_ptr, shmem_memory_size)
Munmap ==
  /\ unmapped_wrongly' =
       (unmapped_wrongly \/ shmem_ptr = NoOne
          \/ shmem_ptr.size # shmem_memory_size)
  /\ shmem_ptr' = NoOne
  /\ UNCHANGED <<shmem_memory_size, read_outside, answered_outside, get_failed>>

\* Fault: the client's scoid is kept, although the client has gone.
DisconnectKeepsScoid(s) ==
  /\ MainStep("receive", "detach")
  /\ ReceivePulse(Disconnect(s)) /\ cur' = s
  /\ UNCHANGED <<object, wrongs>>

\* a client went away -- was it ours?
GetDisconnect(s) ==
  /\ MainStep("receive", "detach")
  /\ ReceivePulse(Disconnect(s)) /\ cur' = s
  /\ IF s = client_scoid THEN client_scoid' = NoOne /\ Munmap
                         ELSE UNCHANGED <<object, wrongs>>

Detach ==
  /\ MainStep("detach", "receive") /\ cur' = NoOne
  /\ ConnectDetach(cur)
  /\ UNCHANGED <<object, wrongs>>

\* Other pulses are ignored.
GetUnblock(c) ==
  /\ MainStep("receive", "receive")
  /\ ReceivePulse(Unblock(c))
  /\ UNCHANGED <<object, cur, wrongs>>

-----------------------------------------------------------------------------
(* messages *)

GetMessage(c) ==
  /\ MsgReceive(c) /\ cur' = c
  /\ MainStep("receive", msg[c].type)
  /\ UNCHANGED <<object, wrongs>>

\* A handler ends with a reply to the client it has received from.
Handle(type, reply) ==
  /\ MainStep(type, "receive") /\ cur' = NoOne
  /\ MsgReply(cur, reply)

GetFailed ==
  /\ get_failed' = TRUE
  /\ UNCHANGED <<read_outside, answered_outside, unmapped_wrongly>>

\* The size is stored before it is checked.
GetTooBig ==
  /\ Handle("get", "error")
  /\ shmem_memory_size' = msg[cur].size
  /\ shmem_memory_size' > MaxSize
  /\ GetFailed
  /\ UNCHANGED <<client_scoid, shmem_ptr>>

\* create_shared_memory fails: shm_open and ftruncate leave *ptr alone, mmap
\* sets it to MAP_FAILED, and after shm_create_handle the mapping is removed.
GetCreateFails ==
  /\ Handle("get", "error")
  /\ shmem_memory_size' = msg[cur].size
  /\ shmem_memory_size' <= MaxSize
  /\ shmem_ptr' \in {shmem_ptr, NoOne}
  /\ GetFailed
  /\ UNCHANGED client_scoid

NewObject ==
  /\ read_outside' = FALSE /\ answered_outside' = FALSE
  /\ unmapped_wrongly' = FALSE /\ get_failed' = FALSE

\* Fault: no reply to a client that already has the object.
GetAgainUnanswered ==
  /\ MainStep("get", "receive") /\ cur' = NoOne
  /\ IF client_scoid = scoid[cur] THEN UNCHANGED channel
                                  ELSE MsgReply(cur, "ok")
  /\ shmem_memory_size' = msg[cur].size
  /\ shmem_memory_size' <= MaxSize
  /\ shmem_ptr' = Mapping(cur, shmem_memory_size')
  /\ client_scoid' = scoid[cur]
  /\ NewObject

\* Fault: client_scoid = msg_info.pid.
GetSavesPid ==
  /\ Handle("get", "ok")
  /\ shmem_memory_size' = msg[cur].size
  /\ shmem_memory_size' <= MaxSize
  /\ shmem_ptr' = Mapping(cur, shmem_memory_size')
  /\ client_scoid' = cur
  /\ NewObject

GetCreated ==
  /\ Handle("get", "ok")
  /\ shmem_memory_size' = msg[cur].size
  /\ shmem_memory_size' <= MaxSize
  /\ shmem_ptr' = Mapping(cur, shmem_memory_size')
  /\ client_scoid' = scoid[cur]
  /\ NewObject

NotCurrent == scoid[cur] # client_scoid

StrangerRefused(type) ==
  /\ Handle(type, "error")
  /\ NotCurrent
  /\ UNCHANGED <<object, wrongs>>

\* Fault: only the sum of offset and length is checked.
InRangeSumOnly(o, n) == (n + o) % Modulus <= shmem_memory_size

\* The server's check of a CHANGED, in unsigned arithmetic.
InRange(o, n) ==
  /\ n <= shmem_memory_size
  /\ o <= shmem_memory_size
  /\ (n + o) % Modulus <= shmem_memory_size

ChangedOutOfRange ==
  /\ Handle("changed", "error")
  /\ ~NotCurrent
  /\ ~InRange(msg[cur].offset, msg[cur].length)
  /\ UNCHANGED <<object, wrongs>>

\* The server reads the part of the object that was named and puts its
\* answer into the object.
ChangedAccepted ==
  /\ Handle("changed", "ok")
  /\ ~NotCurrent
  /\ InRange(msg[cur].offset, msg[cur].length)
  /\ read_outside' =
       \/ read_outside
       \/ /\ msg[cur].length > 0
          /\ \/ shmem_ptr = NoOne
             \/ msg[cur].offset + msg[cur].length > shmem_ptr.size
  /\ answered_outside' =
       (answered_outside \/ shmem_ptr = NoOne \/ AnswerEnd > shmem_ptr.size)
  /\ UNCHANGED <<object, unmapped_wrongly, get_failed>>

\* Fault: the mapping is left to a GET that is still to come.
ReleaseKeepsMapping ==
  /\ Handle("release", "ok")
  /\ ~NotCurrent
  /\ client_scoid' = NoOne
  /\ UNCHANGED <<shmem_ptr, shmem_memory_size, wrongs>>

ReleaseAccepted ==
  /\ Handle("release", "ok")
  /\ ~NotCurrent
  /\ client_scoid' = NoOne
  /\ Munmap

\* unknown message type
Unknown == Handle("other", "error") /\ UNCHANGED <<object, wrongs>>

-----------------------------------------------------------------------------
(* the clients: any order of messages, of which shmem_qnx_client.c's GET,  *)
(* CHANGED, RELEASE is one                                                 *)

server == <<object, mpc, cur, wrongs>>

ClientStep(c) ==
  /\ \/ mpc # "name_attach" /\ NameOpen(c)
     \/ \E m \in Messages : MsgSend(c, m)
     \/ ClientEnds(c)
     \/ ClientRestarts(c)
  /\ UNCHANGED server

-----------------------------------------------------------------------------
Handlers ==
  \/ NameAttach \/ Detach
  \/ GetTooBig \/ GetCreateFails \/ GetCreated
  \/ StrangerRefused("changed") \/ ChangedOutOfRange \/ ChangedAccepted
  \/ StrangerRefused("release") \/ ReleaseAccepted
  \/ Unknown

Next ==
  \/ Handlers
  \/ \E s \in Scoids : GetDisconnect(s)
  \/ \E c \in Clients : GetUnblock(c) \/ GetMessage(c) \/ ClientStep(c)

Spec == Init /\ [][Next]_vars

-----------------------------------------------------------------------------
(* Properties *)

TypeOK ==
  /\ ChannelTypeOK(Messages, {"ok", "error"})
  /\ client_scoid \in Scoids \cup {NoOne}
  /\ shmem_ptr \in {NoOne} \cup [of : Clients, size : Unsigned]
  /\ shmem_memory_size \in Unsigned
  /\ mpc \in {"name_attach", "receive", "detach", "get", "changed",
              "release", "other"}
  /\ cur \in Clients \cup Scoids \cup {NoOne}
  /\ read_outside \in BOOLEAN /\ answered_outside \in BOOLEAN
  /\ unmapped_wrongly \in BOOLEAN /\ get_failed \in BOOLEAN

\* The memory is its client's only: the current client's scoid is one that is
\* in use, also after failures, so that no later client inherits the memory
\* with the scoid; and as long as no GET has failed since the last one that
\* was served, the mapping is the one that was made for the current client.
CurrentClientsMemory ==
  client_scoid # NoOne =>
    /\ client_scoid \in ScoidsInUse
    /\ ~get_failed => shmem_ptr # NoOne /\ scoid[shmem_ptr.of] = client_scoid

\* The damage a failed GET does is over with the next one that is served: as
\* long as none has failed since, no CHANGED makes the server read outside the
\* object, munmap is called with a live mapping and its size, and with no
\* current client nothing is left mapped.  This is about the mapping of the GET
\* served last: the one before it, if its client had not released it, is not
\* unmapped by anything.
MappingRespected ==
  ~get_failed =>
    /\ ~read_outside /\ ~unmapped_wrongly
    /\ client_scoid = NoOne => shmem_ptr = NoOne

\* shmem_qnx_server.c:169 ("2nd page for answer") and shmem_qnx_client.c:39
\* ("second for data from server"): with no GET failed, the object that is
\* current has the place that the server's answer is copied to.
AnswerInsideObject == ~get_failed => ~answered_outside

\* shmem_qnx_server.c:159-163, whatever has happened before: where an object is
\* mapped, no CHANGED makes the server read outside it ("oh no you don't").
ReadInsideObject == shmem_ptr # NoOne => ~read_outside

\* When the server receives, it owes no client a reply.
NoReplyOwed == mpc = "receive" => \A c \in Clients : blocked[c] # "reply"
=============================================================================
