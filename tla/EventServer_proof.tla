-------------------------- MODULE EventServer_proof --------------------------
(***************************************************************************)
(* Proofs about EventServer, for any number of clients and scoids: the     *)
(* saved data is one client's, a granted registration is kept, and the     *)
(* server implements the safety part of RequestServer.                     *)
(***************************************************************************)
EXTENDS EventServer, QnxChannel_proof

Answers == {"ok", "error"}

\* Where the main thread is in the handling of a registration, of any message,
\* of a disconnect; and where it holds the mutex.
Registering ==
  {"register_lock", "save_rcvid", "save_event", "save_scoid", "register_unlock",
   "reply"}
Handling == Registering \cup {"refuse"}
Disconnecting ==
  {"disconnect_lock", "disconnect_clear", "disconnect_unlock", "detach"}
Critical ==
  {"save_rcvid", "save_event", "save_scoid", "register_unlock",
   "disconnect_clear", "disconnect_unlock"}

\* All that TypeOK says of the server's own variables.
ServerTypeOK ==
  /\ save_rcvid \in Clients \cup {NoOne}
  /\ save_scoid \in Scoids \cup {NoOne}
  /\ save_event \in Clients \cup {NoOne}
  /\ notify_count \in 0 .. CountModulus - 1
  /\ owner \in {"none", "main", "notify"}
  /\ mpc \in {"name_attach", "create", "receive", "unblock"} \cup Handling
               \cup Disconnecting
  /\ cur \in Clients \cup Scoids \cup {NoOne}
  /\ mpc = "unblock" => cur \in Clients
  /\ npc \in {"unborn", "sleep", "check", "unlock"}
  /\ last \in [Clients -> -1 .. CountModulus - 1]
  /\ misdelivered \in BOOLEAN
  /\ latest \in Clients \cup {NoOne}

\* save_data_mutex is held by the thread that is between its lock and unlock,
\* and notify_thread does not run before it is created.
MutexHeld ==
  /\ mpc \in {"name_attach", "create"} => npc = "unborn"
  /\ owner = "main" <=> mpc \in Critical
  /\ owner = "notify" <=> npc \in {"check", "unlock"}

\* The main thread handles one message at a time, that of cur, and it is a
\* registration exactly when it is handled as one.
OneOpenRequest ==
  /\ mpc \in Handling =>
       /\ cur \in Clients /\ blocked[cur] = "reply"
       /\ msg[cur] = "register" <=> mpc \in Registering
       /\ \A c \in Clients : blocked[c] = "reply" => c = cur
  /\ mpc \notin Handling => \A c \in Clients : blocked[c] # "reply"

\* A scoid that is to be detached is that of a client that is gone, and no
\* longer in the slot.
DetachesTheGone ==
  /\ mpc \in Disconnecting => cur \in Scoids /\ Gone(cur)
  /\ mpc \in {"disconnect_unlock", "detach"} => save_scoid # cur

\* The saved data is one client's except between the assignments.
SlotConsistent ==
  mpc \notin {"save_event", "save_scoid"} =>
    /\ save_rcvid = NoOne <=> save_scoid = NoOne
    /\ save_rcvid # NoOne => save_event = save_rcvid /\ scoid[save_rcvid] = save_scoid

HalfSaved == {"save_event", "save_scoid", "register_unlock", "reply"}

\* Who has been stored in the slot so far.
SlotTaken ==
  /\ mpc \in HalfSaved => save_rcvid = cur
  /\ mpc = "save_scoid" => save_event = cur

\* The last client that was granted has the slot, as long as it lives and no
\* other registration is being stored.
LatestHasSlot ==
  latest # NoOne /\ blocked[latest] # "dead" /\ mpc \notin HalfSaved =>
    save_rcvid = latest

IInv ==
  /\ ChannelInv(Requests, Answers)
  /\ ServerTypeOK
  /\ MutexHeld
  /\ OneOpenRequest
  /\ DetachesTheGone
  /\ SlotConsistent
  /\ SlotTaken
  /\ LatestHasSlot
  /\ ~misdelivered

LEMMA InitIInv == Init => IInv
<1> SUFFICES ASSUME Init PROVE IInv
  OBVIOUS
<1>1. ChannelInv(Requests, Answers)
  BY ChannelStarts DEF Init
<1>2. ServerTypeOK
  <2>1. 0 \in 0 .. CountModulus - 1 /\ -1 \in -1 .. CountModulus - 1
    BY EventServerAssumption
  <2> QED
    BY <2>1 DEF Init, ServerTypeOK
<1>3. MutexHeld
  BY DEF Init, MutexHeld, Critical
<1>4. OneOpenRequest /\ DetachesTheGone
  BY DEF Init, ChannelInit, OneOpenRequest, DetachesTheGone, Handling, Registering,
         Disconnecting
<1>5. SlotConsistent /\ SlotTaken /\ LatestHasSlot /\ ~misdelivered
  BY DEF Init, SlotConsistent, SlotTaken, LatestHasSlot, HalfSaved
<1> QED
  BY <1>1, <1>2, <1>3, <1>4, <1>5 DEF IInv

\* What the clients do takes nothing away from what the server relies on.
LEMMA ClientKeeps ==
  ASSUME IInv, NEW c \in Clients, Client(c)
  PROVE  IInv'
<1> USE DEF Client, ServerLocate, SendRequest, End, Restart
<1>1. ChannelInv(Requests, Answers)' /\ ScoidsStay
  BY NameOpenKeeps, MsgSendKeeps, ClientEndsKeeps, ClientRestartsKeeps DEF IInv
<1>2. UNCHANGED <<save_rcvid, save_scoid, save_event, notify_count, owner, mpc, cur,
                  npc, misdelivered>>
  BY DEF server, saved, delivered
<1>3. /\ \A d \in Clients : blocked'[d] = "reply" <=> blocked[d] = "reply"
      /\ \A d \in Clients : blocked[d] = "reply" => msg'[d] = msg[d]
  BY DEF IInv, ChannelInv, ChannelTypeOK, NameOpen, MsgSend, ClientEnds, ClientRestarts
<1>4. latest' # NoOne => /\ latest' = latest
                         /\ blocked[latest] = "dead" => blocked'[latest] = "dead"
  BY DEF IInv, ServerTypeOK, ChannelInv, ChannelTypeOK, NameOpen, MsgSend, ClientEnds,
         ClientRestarts, server, saved, delivered
<1>5. ServerTypeOK'
  <2>1. latest' \in Clients \cup {NoOne}
    BY <1>4 DEF IInv, ServerTypeOK
  <2>2. last' \in [Clients -> -1 .. CountModulus - 1]
    BY EventServerAssumption DEF IInv, ServerTypeOK, delivered
  <2> QED
    BY <1>2, <2>1, <2>2 DEF IInv, ServerTypeOK
<1>6. MutexHeld' /\ SlotTaken' /\ ~misdelivered'
  BY <1>2 DEF IInv, MutexHeld, SlotTaken
<1>7. OneOpenRequest'
  BY <1>2, <1>3 DEF IInv, OneOpenRequest
<1>8. DetachesTheGone'
  BY <1>1, <1>2 DEF IInv, DetachesTheGone, ScoidsStay, Gone, ClientIsGone
<1>9. SlotConsistent'
  BY <1>1, <1>2, ChannelAssumption DEF IInv, SlotConsistent, ScoidsStay, ServerTypeOK
<1>10. LatestHasSlot'
  BY <1>2, <1>4 DEF IInv, LatestHasSlot
<1> QED
  BY <1>1, <1>5, <1>6, <1>7, <1>8, <1>9, <1>10 DEF IInv

\* A step that changes nothing of the channel keeps what is known of it.
LEMMA ChannelUntouched ==
  ASSUME NEW M, NEW A, ChannelInv(M, A), UNCHANGED channel
  PROVE  ChannelInv(M, A)' /\ \A s \in Scoids : Gone(s) => Gone(s)'
BY DEF channel, ChannelInv, ChannelTypeOK, ScoidsUnique, BlockedHaveSent, PulsesAreTrue,
       ClientIsGone, Gone

\* The steps of the main thread that do not touch the channel: up to the loop,
\* the disconnect and the registration under the mutex.
LEMMA StartKeeps ==
  ASSUME IInv, NameAttach \/ CreateNotifyThread
  PROVE  IInv'
<1> USE DEF NameAttach, CreateNotifyThread, MainStep, MainGoes
<1>1. ChannelInv(Requests, Answers)' /\ UNCHANGED <<scoid, blocked, msg>>
  BY ChannelUntouched DEF IInv, channel
<1>2. /\ UNCHANGED <<saved, owner, cur, delivered, latest>>
      /\ mpc \in {"name_attach", "create"} /\ mpc' \in {"create", "receive"}
      /\ npc' = "unborn" \/ (npc' = "sleep" /\ mpc' = "receive")
  BY DEF IInv, MutexHeld
<1>3. ServerTypeOK'
  BY <1>2 DEF IInv, ServerTypeOK, saved, delivered
<1>4. MutexHeld'
  BY <1>2 DEF IInv, MutexHeld, Critical
<1>5. OneOpenRequest' /\ DetachesTheGone'
  BY <1>1, <1>2
  DEF IInv, OneOpenRequest, DetachesTheGone, Handling, Registering, Disconnecting
<1>6. SlotConsistent' /\ SlotTaken' /\ LatestHasSlot'
  BY <1>1, <1>2
  DEF IInv, SlotConsistent, SlotTaken, LatestHasSlot, HalfSaved, saved
<1> QED
  BY <1>1, <1>2, <1>3, <1>4, <1>5, <1>6 DEF IInv, delivered

LEMMA DisconnectKeeps ==
  ASSUME IInv, DisconnectLock \/ DisconnectClear \/ DisconnectUnlock
  PROVE  IInv'
<1> USE DEF DisconnectLock, DisconnectClear, DisconnectUnlock, MainLock, MainUnlock,
            MainStep, MainGoes
<1>1. /\ ChannelInv(Requests, Answers)' /\ (\A s \in Scoids : Gone(s) => Gone(s)')
      /\ UNCHANGED <<scoid, blocked, msg>>
  BY ChannelUntouched DEF IInv, channel
<1>2. /\ mpc \in {"disconnect_lock", "disconnect_clear", "disconnect_unlock"}
      /\ mpc' \in {"disconnect_clear", "disconnect_unlock", "detach"}
      /\ mpc = "disconnect_lock" => mpc' = "disconnect_clear"
      /\ UNCHANGED <<cur, npc, last, misdelivered, latest, save_event>>
  BY DEF saved, delivered
<1>3. ServerTypeOK'
  BY <1>2, EventServerAssumption DEF IInv, ServerTypeOK, Disconnecting, saved
<1>4. MutexHeld'
  BY <1>2 DEF IInv, MutexHeld, Critical, ServerTypeOK
<1>5. OneOpenRequest'
  BY <1>1, <1>2 DEF IInv, OneOpenRequest, Handling, Registering
<1>6. DetachesTheGone'
  BY <1>1, <1>2, ChannelAssumption DEF IInv, DetachesTheGone, Disconnecting, saved
<1>7. SlotConsistent' /\ SlotTaken'
  BY <1>1, <1>2 DEF IInv, SlotConsistent, SlotTaken, HalfSaved, saved
<1>8. LatestHasSlot'
  <2>1. CASE UNCHANGED <<save_rcvid, save_scoid>>
    BY <1>1, <1>2, <2>1 DEF IInv, LatestHasSlot, HalfSaved
  <2>2. CASE DisconnectClear /\ save_scoid = cur
    <3>1. PICK c \in Clients : scoid[c] = cur /\ blocked[c] = "dead"
      BY <2>2 DEF IInv, DetachesTheGone, Disconnecting, Gone, ClientIsGone
    <3>2. cur \in Scoids /\ save_rcvid \in Clients /\ scoid[save_rcvid] = cur
      BY <2>2, ChannelAssumption
      DEF IInv, DetachesTheGone, Disconnecting, SlotConsistent, ServerTypeOK
    <3>3. save_rcvid = c
      BY <3>1, <3>2, ChannelAssumption DEF IInv, ChannelInv, ScoidsUnique
    <3> QED
      BY <1>1, <1>2, <3>1, <3>3 DEF IInv, LatestHasSlot, HalfSaved
  <2> QED
    BY <2>1, <2>2 DEF saved
<1> QED
  BY <1>1, <1>2, <1>3, <1>4, <1>5, <1>6, <1>7, <1>8 DEF IInv

LEMMA RegisterKeeps ==
  ASSUME IInv, RegisterLock \/ SaveRcvid \/ SaveEvent \/ SaveScoid \/ RegisterUnlock
  PROVE  IInv'
<1> USE DEF RegisterLock, SaveRcvid, SaveEvent, SaveScoid, RegisterUnlock, MainLock,
            MainUnlock, MainStep, MainGoes
<1>1. /\ ChannelInv(Requests, Answers)' /\ UNCHANGED <<scoid, blocked, msg>>
  BY ChannelUntouched DEF IInv, channel
<1>2. /\ mpc \in Registering /\ mpc' \in Registering
      /\ UNCHANGED <<cur, npc, last, misdelivered, latest, notify_count>>
  BY DEF saved, delivered, Registering
<1>3. cur \in Clients /\ scoid[cur] \in Scoids
  BY <1>2
  DEF IInv, OneOpenRequest, Handling, ChannelInv, ChannelTypeOK, BlockedHaveSent
<1>4. ServerTypeOK'
  BY <1>2, <1>3 DEF IInv, ServerTypeOK, Registering, Handling, saved
<1>5. MutexHeld'
  BY <1>2 DEF IInv, MutexHeld, Critical, ServerTypeOK
<1>6. OneOpenRequest' /\ DetachesTheGone'
  BY <1>1, <1>2
  DEF IInv, OneOpenRequest, DetachesTheGone, Disconnecting, Handling, Registering
<1>7. SlotConsistent' /\ SlotTaken' /\ LatestHasSlot'
  BY <1>1, <1>2, <1>3, ChannelAssumption
  DEF IInv, SlotConsistent, SlotTaken, LatestHasSlot, HalfSaved, saved
<1> QED
  BY <1>1, <1>2, <1>4, <1>5, <1>6, <1>7 DEF IInv

\* The main thread receives a pulse or a message.
LEMMA ReceiveKeeps ==
  ASSUME IInv, Receive
  PROVE  IInv'
<1>1. ASSUME NEW s \in Scoids, GetDisconnect(s) PROVE IInv'
  <2> USE <1>1 DEF GetDisconnect, MainStep, MainGoes
  <2>1. ChannelInv(Requests, Answers)' /\ Gone(s)'
    BY ReceivePulseKeeps DEF IInv
  <2>2. UNCHANGED <<scoid, blocked, msg>> /\ cur' = s
        /\ mpc = "receive" /\ mpc' = "disconnect_lock"
        /\ UNCHANGED <<saved, owner, npc, delivered, latest>>
    BY DEF ReceivePulse
  <2>3. ServerTypeOK' /\ MutexHeld'
    BY <2>2
    DEF IInv, ServerTypeOK, MutexHeld, Critical, Disconnecting, saved, delivered
  <2>4. OneOpenRequest' /\ DetachesTheGone'
    BY <2>1, <2>2
    DEF IInv, OneOpenRequest, DetachesTheGone, Handling, Registering, Disconnecting
  <2>5. SlotConsistent' /\ SlotTaken' /\ LatestHasSlot'
    BY <2>2 DEF IInv, SlotConsistent, SlotTaken, LatestHasSlot, HalfSaved, saved
  <2> QED
    BY <2>1, <2>2, <2>3, <2>4, <2>5 DEF IInv, delivered
<1>2. ASSUME NEW c \in Clients, GetUnblock(c) PROVE IInv'
  <2> USE <1>2 DEF GetUnblock, MainStep, MainGoes
  <2>1. ChannelInv(Requests, Answers)'
    BY ReceivePulseKeeps DEF IInv
  <2>2. UNCHANGED <<scoid, blocked, msg>> /\ cur' = c
        /\ mpc = "receive" /\ mpc' = "unblock"
        /\ UNCHANGED <<saved, owner, npc, delivered, latest>>
    BY DEF ReceivePulse
  <2>3. ServerTypeOK' /\ MutexHeld'
    BY <2>2 DEF IInv, ServerTypeOK, MutexHeld, Critical, saved, delivered
  <2>4. OneOpenRequest' /\ DetachesTheGone'
    BY <2>2
    DEF IInv, OneOpenRequest, DetachesTheGone, Handling, Registering, Disconnecting
  <2>5. SlotConsistent' /\ SlotTaken' /\ LatestHasSlot'
    BY <2>2 DEF IInv, SlotConsistent, SlotTaken, LatestHasSlot, HalfSaved, saved
  <2> QED
    BY <2>1, <2>2, <2>3, <2>4, <2>5 DEF IInv, delivered
<1>3. ASSUME NEW c \in Clients, GetMessage(c) PROVE IInv'
  <2> USE <1>3 DEF GetMessage, MainStep, MainGoes
  <2>1. ChannelInv(Requests, Answers)'
    BY MsgReceiveKeeps DEF IInv
  <2>2. /\ UNCHANGED <<scoid, msg>> /\ cur' = c
        /\ blocked' = [blocked EXCEPT ![c] = "reply"] /\ blocked[c] = "send"
        /\ mpc = "receive"
        /\ mpc' = IF msg[c] = "register" THEN "register_lock" ELSE "refuse"
        /\ UNCHANGED <<saved, owner, npc, delivered, latest>>
    BY DEF MsgReceive
  <2>3. ServerTypeOK' /\ MutexHeld'
    BY <2>2
    DEF IInv, ServerTypeOK, MutexHeld, Critical, Handling, Registering, saved, delivered
  <2>4. OneOpenRequest' /\ DetachesTheGone'
    BY <2>2
    DEF IInv, OneOpenRequest, DetachesTheGone, Handling, Registering, Disconnecting,
        ChannelInv, ChannelTypeOK
  <2>5. SlotConsistent' /\ SlotTaken' /\ LatestHasSlot'
    BY <2>2
    DEF IInv, SlotConsistent, SlotTaken, LatestHasSlot, HalfSaved, saved, ChannelInv,
        ChannelTypeOK
  <2> QED
    BY <2>1, <2>2, <2>3, <2>4, <2>5 DEF IInv, delivered
<1> QED
  BY <1>1, <1>2, <1>3 DEF Receive

\* ConnectDetach frees a scoid that is not the slot's.
LEMMA DetachKeeps ==
  ASSUME IInv, Detach
  PROVE  IInv'
<1> USE DEF Detach, MainStep, MainGoes
<1>1. cur \in Scoids /\ Gone(cur) /\ save_scoid # cur
  BY DEF IInv, DetachesTheGone, Disconnecting
<1>2. /\ ChannelInv(Requests, Answers)'
      /\ \A c \in Clients : scoid[c] # cur => scoid'[c] = scoid[c]
  BY <1>1, ConnectDetachKeeps DEF IInv
<1>3. /\ UNCHANGED <<blocked, msg, saved, owner, npc, delivered, latest>>
      /\ mpc = "detach" /\ mpc' = "receive" /\ cur' = NoOne
  BY DEF ConnectDetach
<1>4. ServerTypeOK' /\ MutexHeld'
  BY <1>3 DEF IInv, ServerTypeOK, MutexHeld, Critical, saved, delivered
<1>5. OneOpenRequest' /\ DetachesTheGone'
  BY <1>3
  DEF IInv, OneOpenRequest, DetachesTheGone, Handling, Registering, Disconnecting
<1>6. SlotConsistent' /\ SlotTaken' /\ LatestHasSlot'
  BY <1>1, <1>2, <1>3
  DEF IInv, SlotConsistent, SlotTaken, LatestHasSlot, HalfSaved, ServerTypeOK, saved
<1> QED
  BY <1>2, <1>3, <1>4, <1>5, <1>6 DEF IInv, delivered

\* A MsgError on the rcvid of an unblock pulse finds nobody blocked: the main
\* thread has replied before it received the pulse.
LEMMA UnblockIsLate == IInv /\ AnswerUnblock => UNCHANGED channel
BY DEF IInv, OneOpenRequest, ServerTypeOK, AnswerUnblock, MainStep, MainGoes, MsgReply,
       Handling, Registering

LEMMA UnblockKeeps ==
  ASSUME IInv, AnswerUnblock
  PROVE  IInv'
<1>1. ChannelInv(Requests, Answers)' /\ UNCHANGED <<scoid, blocked, msg>>
  BY UnblockIsLate, ChannelUntouched DEF IInv, channel
<1>2. /\ UNCHANGED <<saved, owner, npc, delivered, latest>>
      /\ mpc = "unblock" /\ mpc' = "receive" /\ cur' = NoOne
  BY DEF AnswerUnblock, MainStep, MainGoes
<1>3. ServerTypeOK' /\ MutexHeld'
  BY <1>2 DEF IInv, ServerTypeOK, MutexHeld, Critical, saved, delivered
<1>4. OneOpenRequest' /\ DetachesTheGone'
  BY <1>1, <1>2
  DEF IInv, OneOpenRequest, DetachesTheGone, Handling, Registering, Disconnecting
<1>5. SlotConsistent' /\ SlotTaken' /\ LatestHasSlot'
  BY <1>1, <1>2 DEF IInv, SlotConsistent, SlotTaken, LatestHasSlot, HalfSaved, saved
<1> QED
  BY <1>1, <1>2, <1>3, <1>4, <1>5 DEF IInv, delivered

\* The reply that ends the handling of a message.
LEMMA ReplyKeeps ==
  ASSUME IInv, Refuse \/ Reply
  PROVE  IInv'
<1> USE DEF Refuse, Reply, MainStep, MainGoes
<1>1. /\ cur \in Clients /\ blocked[cur] = "reply"
      /\ \A c \in Clients : blocked[c] = "reply" => c = cur
  BY DEF IInv, OneOpenRequest, Handling, Registering
<1>2. ChannelInv(Requests, Answers)'
  BY <1>1, MsgReplyKeeps DEF IInv, Answers
<1>3. /\ UNCHANGED <<scoid, saved, owner, npc, delivered>>
      /\ mpc \in {"refuse", "reply"} /\ mpc' = "receive" /\ cur' = NoOne
      /\ mpc = "refuse" => latest' = latest
      /\ mpc = "reply" => latest' = cur
  BY <1>1 DEF MsgReply
<1>4. /\ \A c \in Clients : blocked'[c] # "reply"
      /\ \A c \in Clients : c # cur => blocked'[c] = blocked[c]
  BY <1>1 DEF MsgReply, IInv, ChannelInv, ChannelTypeOK
<1>5. ServerTypeOK' /\ MutexHeld'
  BY <1>1, <1>3 DEF IInv, ServerTypeOK, MutexHeld, Critical, saved, delivered
<1>6. OneOpenRequest' /\ DetachesTheGone'
  BY <1>3, <1>4
  DEF OneOpenRequest, DetachesTheGone, Handling, Registering, Disconnecting
<1>7. SlotConsistent' /\ SlotTaken'
  BY <1>3 DEF IInv, SlotConsistent, SlotTaken, HalfSaved, saved
<1>8. LatestHasSlot'
  BY <1>1, <1>3, <1>4
  DEF IInv, LatestHasSlot, SlotTaken, ServerTypeOK, HalfSaved, saved
<1> QED
  BY <1>2, <1>3, <1>5, <1>6, <1>7, <1>8 DEF IInv, delivered

\* notify_thread finds the slot consistent, because the main thread writes to
\* it under the mutex only.
LEMMA NotifyKeeps ==
  ASSUME IInv, NotifyThread
  PROVE  IInv'
<1> USE DEF NotifyThread, NotifyLock, Notify, NobodyToNotify, NotifyUnlock
<1>1. /\ ChannelInv(Requests, Answers)' /\ (\A s \in Scoids : Gone(s) => Gone(s)')
      /\ UNCHANGED <<scoid, blocked, msg>>
  BY ChannelUntouched DEF IInv, channel
<1>2. UNCHANGED <<save_rcvid, save_scoid, save_event, mpc, cur, latest>>
  BY DEF saved
<1>3. ~misdelivered'
  <2>1. CASE Notify
    <3>1. mpc \notin {"save_event", "save_scoid"}
      BY <2>1 DEF IInv, MutexHeld, Critical
    <3>2. save_event = save_rcvid
      BY <2>1, <3>1 DEF IInv, SlotConsistent
    <3> QED
      BY <2>1, <3>2 DEF IInv, Pulse
  <2>2. CASE ~Notify
    BY <2>2 DEF IInv, delivered
  <2> QED
    BY <2>1, <2>2
<1>4. ServerTypeOK'
  <2>1. notify_count' \in 0 .. CountModulus - 1
    <3>1. (notify_count + 1) % CountModulus \in 0 .. CountModulus - 1
      BY EventServerAssumption DEF IInv, ServerTypeOK
    <3> QED
      BY <3>1 DEF IInv, ServerTypeOK, saved
  <2>2. last' \in [Clients -> -1 .. CountModulus - 1]
    <3>1. {0, notify_count} \subseteq -1 .. CountModulus - 1
      BY EventServerAssumption DEF IInv, ServerTypeOK
    <3>2. last' = last \/ \E v \in {0, notify_count} : last' = [last EXCEPT ![save_rcvid] = v]
      BY DEF Pulse, delivered
    <3> QED
      BY <3>1, <3>2 DEF IInv, ServerTypeOK
  <2>3. owner' \in {"none", "main", "notify"} /\ npc' \in {"sleep", "check", "unlock"}
    BY DEF IInv, ServerTypeOK
  <2>4. misdelivered' \in BOOLEAN
    BY DEF IInv, ServerTypeOK, Pulse, delivered
  <2> QED
    BY <1>2, <2>1, <2>2, <2>3, <2>4 DEF IInv, ServerTypeOK
<1>5. MutexHeld'
  BY <1>2 DEF IInv, MutexHeld, Critical, ServerTypeOK
<1>6. OneOpenRequest' /\ DetachesTheGone'
  BY <1>1, <1>2
  DEF IInv, OneOpenRequest, DetachesTheGone, Handling, Registering, Disconnecting
<1>7. SlotConsistent' /\ SlotTaken' /\ LatestHasSlot'
  BY <1>1, <1>2 DEF IInv, SlotConsistent, SlotTaken, LatestHasSlot, HalfSaved
<1> QED
  BY <1>1, <1>3, <1>4, <1>5, <1>6, <1>7 DEF IInv

LEMMA StutterKeeps == IInv /\ UNCHANGED vars => IInv'
<1> SUFFICES ASSUME IInv, UNCHANGED vars PROVE IInv'
  OBVIOUS
<1>1. /\ ChannelInv(Requests, Answers)' /\ (\A s \in Scoids : Gone(s) => Gone(s)')
      /\ UNCHANGED <<scoid, blocked, msg>>
  BY ChannelUntouched DEF IInv, vars, channel
<1> QED
  BY <1>1
  DEF vars, saved, delivered, IInv, ServerTypeOK, MutexHeld, OneOpenRequest,
      DetachesTheGone, Disconnecting, SlotConsistent, SlotTaken, LatestHasSlot

LEMMA StepIInv == IInv /\ [Next]_vars => IInv'
BY ClientKeeps, StartKeeps, DisconnectKeeps, RegisterKeeps, ReceiveKeeps, DetachKeeps,
   UnblockKeeps, ReplyKeeps, NotifyKeeps, StutterKeeps
DEF Next, Main

\* The invariant holds in every state of the server and its clients.
THEOREM SpecIInv == Spec => []IInv
  BY InitIInv, StepIInv, PTL DEF Spec

\* The variables keep their types.
THEOREM TypeCorrect == Spec => []TypeOK
<1>1. IInv => TypeOK
  BY DEF IInv, TypeOK, ServerTypeOK, ChannelInv, Answers, Handling, Registering,
         Disconnecting
<1> QED
  BY <1>1, SpecIInv, PTL

\* Who waits for the server has the message in hand, and who waits for
\* save_data_mutex waits for a thread that waits for nobody.
WaitsForWork ==
  /\ \A c \in Clients : blocked[c] = "reply" => mpc \in Handling /\ cur = c
  /\ mpc \in {"register_lock", "disconnect_lock"} /\ owner # "none" =>
       owner = "notify" /\ npc \in {"check", "unlock"}
  /\ npc = "sleep" /\ owner # "none" => owner = "main" /\ mpc \in Critical

\* event_server.c:88-217 and 225-264: the main thread never receives again with a
\* client left REPLY-blocked, whatever becomes of its message, and neither thread
\* comes back to its wait with the mutex.
THEOREM NobodyLeftBlocked == Spec => []WaitsForWork
<1>1. IInv => WaitsForWork
  BY DEF IInv, ServerTypeOK, OneOpenRequest, MutexHeld, Handling, Registering, Critical,
         WaitsForWork
<1> QED
  BY <1>1, SpecIInv, PTL

\* event_server.c:114-121 and 184-188: the saved rcvid, event and scoid are one
\* client's whenever the mutex is free, and no event goes through another
\* client's rcvid.
THEOREM SlotIsConsistent == Spec => []SlotIsOneClient
<1>1. IInv => SlotIsOneClient
  BY DEF IInv, SlotIsOneClient, SavedDataAgrees, SlotConsistent, MutexHeld, Critical
<1> QED
  BY <1>1, SpecIInv, PTL

\* event_server.c:184-188: the last registration that was granted is the one
\* that is kept, and only its own client's exit removes it.
THEOREM LatestIsKept == Spec => []RegistrationKept
<1>1. IInv => RegistrationKept
  BY DEF IInv, RegistrationKept, LatestHasSlot, HalfSaved, MutexHeld, Critical
<1> QED
  BY <1>1, SpecIInv, PTL
-----------------------------------------------------------------------------
(* The server implements RequestServer: a step of the channel is a step of *)
(* the abstract server or changes neither Due nor answer.                  *)

\* The requests and answers stay as they are.
Unseen == UNCHANGED <<Due, answer>>

LEMMA SameIsUnseen == UNCHANGED <<blocked, msg, answer>> => Unseen
BY DEF Unseen, Due

LEMMA AskRefines ==
  ASSUME IInv, NEW c \in Clients, NEW m \in Requests, MsgSend(c, m)
  PROVE  Service!Ask(c)
<1> USE DEF MsgSend
<1>1. Due[c] = {} /\ Due'[c] # {}
  BY DEF Due, IInv, ChannelInv, ChannelTypeOK
<1>2. Due' = [Due EXCEPT ![c] = Due'[c]]
  BY DEF Due, IInv, ChannelInv, ChannelTypeOK
<1> QED
  BY <1>1, <1>2 DEF Service!Ask

\* A reply that the request calls for, or the end of a client that was killed
\* while it waited for one.
LEMMA ServeRefines ==
  ASSUME IInv, NEW c \in Clients, NEW a \in Due[c], blocked[c] = "reply", MsgReply(c, a)
  PROVE  Service!Serve(c) \/ Service!Leave(c)
<1> USE DEF MsgReply
<1>1. Due' = [Due EXCEPT ![c] = {}]
  BY DEF Due, IInv, ChannelInv, ChannelTypeOK
<1>2. CASE c \in killed
  BY <1>1, <1>2 DEF Service!Leave
<1>3. CASE c \notin killed
  BY <1>1, <1>3 DEF Service!Serve, IInv, ChannelInv, ChannelTypeOK
<1> QED
  BY <1>2, <1>3

LEMMA EndRefines ==
  ASSUME IInv, NEW c \in Clients, ClientEnds(c)
  PROVE  Service!Leave(c) \/ Unseen
<1> USE DEF ClientEnds
<1>1. CASE blocked[c] = "reply"
  BY <1>1, SameIsUnseen
<1>2. CASE blocked[c] # "reply"
  <2>1. Due' = [Due EXCEPT ![c] = {}]
    BY <1>2 DEF Due, IInv, ChannelInv, ChannelTypeOK
  <2> QED
    BY <1>2, <2>1 DEF Service!Leave
<1> QED
  BY <1>1, <1>2

\* A client that is started again has no request, nor has it had one.
LEMMA RestartRefines ==
  ASSUME IInv, NEW c \in Clients, ClientRestarts(c)
  PROVE  Unseen
<1>1. Due' = Due
  BY DEF ClientRestarts, Due, IInv, ChannelInv, ChannelTypeOK
<1> QED
  BY <1>1 DEF ClientRestarts, Unseen

\* The message that the server receives stays an open request.
LEMMA MessageRefines ==
  ASSUME IInv, NEW c \in Clients, MsgReceive(c)
  PROVE  Unseen
<1>1. Due' = Due
  BY DEF MsgReceive, Due, IInv, ChannelInv, ChannelTypeOK
<1> QED
  BY <1>1 DEF MsgReceive, Unseen

LEMMA ClientRefines ==
  ASSUME IInv, NEW c \in Clients, Client(c)
  PROVE  Service!Next \/ Unseen
<1>1. CASE NameOpen(c)
  BY <1>1, SameIsUnseen DEF NameOpen
<1>2. CASE \E m \in Requests : MsgSend(c, m)
  BY <1>2, AskRefines DEF Service!Next
<1>3. CASE ClientEnds(c)
  BY <1>3, EndRefines DEF Service!Next
<1>4. CASE ClientRestarts(c)
  BY <1>4, RestartRefines
<1> QED
  BY <1>1, <1>2, <1>3, <1>4 DEF Client, ServerLocate, SendRequest, End, Restart

\* The two places where the server answers give what is due.
LEMMA ReplyRefines ==
  ASSUME IInv, Refuse \/ Reply
  PROVE  Service!Next
<1>1. cur \in Clients /\ blocked[cur] = "reply"
  BY DEF IInv, OneOpenRequest, Refuse, Reply, MainStep, MainGoes, Handling, Registering
<1>2. CASE Refuse
  <2>1. msg[cur] # "register"
    BY <1>2 DEF IInv, OneOpenRequest, Refuse, MainStep, MainGoes, Handling, Registering
  <2>2. "error" \in Due[cur]
    BY <1>1, <2>1 DEF Due
  <2> QED
    BY <1>1, <1>2, <2>2, ServeRefines DEF Refuse, Service!Next
<1>3. CASE Reply
  <2>1. msg[cur] = "register"
    BY <1>3 DEF IInv, OneOpenRequest, Reply, MainGoes, Handling, Registering
  <2>2. "ok" \in Due[cur]
    BY <1>1, <2>1 DEF Due
  <2> QED
    BY <1>1, <1>3, <2>2, ServeRefines DEF Reply, Service!Next
<1> QED
  BY <1>2, <1>3

LEMMA StepRefines == IInv /\ [Next]_vars => [Service!Next]_<<Due, answer>>
<1> SUFFICES ASSUME IInv, [Next]_vars PROVE Service!Next \/ Unseen
  BY DEF Unseen
<1>1. CASE \E c \in Clients : Client(c)
  BY <1>1, ClientRefines
<1>2. CASE Refuse \/ Reply
  BY <1>2, ReplyRefines
<1>3. CASE Receive
  <2>1. CASE \E c \in Clients : GetMessage(c)
    BY <2>1, MessageRefines DEF GetMessage
  <2>2. CASE \E p \in {Disconnect(s) : s \in Scoids} \cup {Unblock(c) : c \in Clients} :
               ReceivePulse(p)
    BY <2>2, SameIsUnseen DEF ReceivePulse
  <2> QED
    BY <1>3, <2>1, <2>2 DEF Receive, GetDisconnect, GetUnblock
<1>4. CASE Detach
  BY <1>4, SameIsUnseen DEF Detach, ConnectDetach
<1>5. CASE AnswerUnblock
  BY <1>5, UnblockIsLate, SameIsUnseen DEF channel
<1>6. CASE UNCHANGED channel
  BY <1>6, SameIsUnseen DEF channel
<1>7. NotifyThread => UNCHANGED channel
  BY DEF NotifyThread, NotifyLock, Notify, NobodyToNotify, NotifyUnlock
<1>8. Main => Refuse \/ Reply \/ Detach \/ AnswerUnblock \/ UNCHANGED channel
  BY DEF Main, NameAttach, CreateNotifyThread, DisconnectLock, DisconnectClear,
         DisconnectUnlock, RegisterLock, SaveRcvid, SaveEvent, SaveScoid,
         RegisterUnlock, MainLock, MainUnlock
<1> QED
  BY <1>1, <1>2, <1>3, <1>4, <1>5, <1>6, <1>7, <1>8 DEF Next, vars

\* event_server.c:137-219: each request is answered at most once and with the
\* answer that is due; nobody who has not asked is told anything.  (That each
\* is answered is liveness, and checked only.)
THEOREM ServerIsSafe == Spec => Service!Safe
<1>1. Init => Service!Init
  BY DEF Init, ChannelInit, Due, Service!Init
<1>2. [][Next]_vars /\ []IInv => [][Service!Next]_<<Due, answer>>
  BY StepRefines, PTL
<1> QED
  BY <1>1, <1>2, SpecIInv, PTL DEF Spec, Service!Safe, Service!serverVars
-----------------------------------------------------------------------------
(* No connection leaks.                                                    *)

\* A client that has gone and still has its scoid is being looked after, or is the
\* next to be.
NobodyForgotten == NoneForgotten(IF mpc \in Disconnecting THEN {cur} ELSE {})

\* Whatever waits for the mutex on its way, a disconnect pulse gets as far as
\* ConnectDetach, and nothing else does.
LEMMA StepForgetsNobody ==
  IInv /\ NobodyForgotten /\ [Next]_vars => NobodyForgotten' /\ LiveStayConnected
<1> SUFFICES ASSUME IInv, NobodyForgotten, [Next]_vars
             PROVE  NobodyForgotten' /\ LiveStayConnected
  OBVIOUS
<1> USE DEF IInv, NobodyForgotten
<1>1. ASSUME NEW c \in Clients, Client(c) PROVE NobodyForgotten' /\ LiveStayConnected
  <2>1. UNCHANGED <<mpc, cur>>
    BY <1>1 DEF Client, ServerLocate, SendRequest, End, Restart, server
  <2> QED
    BY <1>1, <2>1, CallForgetsNobody DEF Client, ServerLocate, SendRequest, End, Restart
<1>2. ASSUME NEW s \in Scoids, GetDisconnect(s) PROVE NobodyForgotten' /\ LiveStayConnected
  BY <1>2, DisconnectIsNoted DEF GetDisconnect, MainStep, MainGoes, Disconnecting
<1>3. CASE Detach
  BY <1>3, DetachForgetsNobody
  DEF Detach, DetachesTheGone, MainStep, MainGoes, Disconnecting
<1>4. ASSUME NEW c \in Clients, GetUnblock(c) \/ GetMessage(c)
      PROVE  NobodyForgotten' /\ LiveStayConnected
  <2>1. mpc' \notin Disconnecting /\ mpc \notin Disconnecting
    BY <1>4 DEF GetUnblock, GetMessage, MainStep, MainGoes, Disconnecting
  <2> QED
    BY <1>4, <2>1, CallForgetsNobody DEF GetUnblock, GetMessage
<1>5. CASE Refuse \/ Reply
  <2>1. /\ mpc' \notin Disconnecting /\ mpc \notin Disconnecting
        /\ cur \in Clients /\ \E a : MsgReply(cur, a)
    BY <1>5
    DEF Refuse, Reply, MainStep, MainGoes, Disconnecting, OneOpenRequest, Handling,
        Registering
  <2> QED
    BY <2>1, CallForgetsNobody
<1>6. CASE /\ UNCHANGED channel
           /\ \/ UNCHANGED <<mpc, cur>>
              \/ mpc \notin Disconnecting /\ mpc' \notin Disconnecting
              \/ mpc \in Disconnecting /\ mpc' \in Disconnecting /\ cur' = cur
  BY <1>6 DEF channel, NoneForgotten, LiveStayConnected
<1>7. AnswerUnblock => UNCHANGED channel /\ mpc \notin Disconnecting
                       /\ mpc' \notin Disconnecting
  BY UnblockIsLate DEF AnswerUnblock, MainStep, MainGoes, Disconnecting
<1>8. Main => \/ Detach \/ AnswerUnblock \/ Refuse \/ Reply
              \/ /\ UNCHANGED channel
                 /\ \/ mpc \notin Disconnecting /\ mpc' \notin Disconnecting
                    \/ mpc \in Disconnecting /\ mpc' \in Disconnecting /\ cur' = cur
  BY DEF Main, NameAttach, CreateNotifyThread, DisconnectLock, DisconnectClear,
         DisconnectUnlock, RegisterLock, SaveRcvid, SaveEvent, SaveScoid,
         RegisterUnlock, MainLock, MainUnlock, MainStep, MainGoes, Disconnecting
<1>9. NotifyThread \/ UNCHANGED vars => UNCHANGED channel /\ UNCHANGED <<mpc, cur>>
  BY DEF NotifyThread, NotifyLock, Notify, NobodyToNotify, NotifyUnlock, vars
<1> QED
  BY <1>1, <1>2, <1>3, <1>4, <1>5, <1>6, <1>7, <1>8, <1>9 DEF Next, Receive

\* event_server.c:104-134: no connection leaks and none is taken away.  Every client
\* that has gone is detached or its pulse still waits, whether or not it was the one
\* in the slot and however long notify_thread keeps the mutex; and a client that
\* lives keeps its connection.
THEOREM ConnectionsComeBack == Spec => []NobodyForgotten /\ [][LiveStayConnected]_vars
<1>1. Init => NobodyForgotten
  BY NoneForgottenAtFirst DEF Init, NobodyForgotten, Disconnecting
<1>2. IInv /\ NobodyForgotten /\ [Next]_vars => NobodyForgotten' /\ LiveStayConnected
  BY StepForgetsNobody
<1> QED
  BY <1>1, <1>2, SpecIInv, PTL DEF Spec
=============================================================================
