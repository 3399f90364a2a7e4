---------------------------- MODULE EventServer -----------------------------
(***************************************************************************)
(* ipc/solutions/event_server.c with clients like ipc/solutions/           *)
(* event_client.c: the main thread handles registrations, disconnects and  *)
(* unblock pulses; notify_thread delivers the saved client's event once a  *)
(* second.  The saved data (one client's worth) is under save_data_mutex.  *)
(*                                                                         *)
(* The rcvid and the event are stood for by the client they belong to, the *)
(* pulse's value by notify_count.  Failing mutex calls, a failing          *)
(* MsgReceive and a MsgDeliverEvent that fails with EFAULT end the server  *)
(* (no such call is made with bad arguments) and are left out.             *)
(***************************************************************************)
EXTENDS QnxChannel

CONSTANTS
  Requests,        \* what clients send: "register", "bad_event", "other"
  Updateable,      \* the clients that set SIGEV_FLAG_UPDATEABLE
  CountModulus     \* bound: notify_count and pulse values modulo this

ASSUME EventServerAssumption ==
  /\ Requests \subseteq {"register", "bad_event", "other"}
  /\ Updateable \subseteq Clients
  /\ CountModulus \in Nat \ {0}

VARIABLES
  save_rcvid, save_scoid, save_event, notify_count,  \* the saved client data
  owner,         \* who holds save_data_mutex
  mpc, cur,      \* the main thread, the client or scoid it is handling
  npc,           \* notify_thread
  last,          \* value of the last pulse delivered to each client
  misdelivered,  \* history: an event was delivered with another's rcvid
  latest         \* history: the client whose registration was granted last

saved == <<save_rcvid, save_scoid, save_event, notify_count>>
delivered == <<last, misdelivered>>
vars == <<channel, saved, owner, mpc, cur, npc, delivered, latest>>

Init ==
  /\ ChannelInit
  /\ save_rcvid = NoOne /\ save_scoid = NoOne /\ save_event = NoOne
  /\ notify_count = 0
  /\ owner = "none"
  /\ mpc = "name_attach" /\ cur = NoOne
  /\ npc = "unborn"
  /\ last = [c \in Clients |-> -1]
  /\ misdelivered = FALSE /\ latest = NoOne

MainGoes(from, to) == mpc = from /\ mpc' = to /\ UNCHANGED <<npc, delivered>>

MainStep(from, to) == MainGoes(from, to) /\ UNCHANGED latest

-----------------------------------------------------------------------------
(* main *)

NameAttach ==
  /\ MainStep("name_attach", "create")
  /\ UNCHANGED <<channel, saved, owner, cur>>

CreateNotifyThread ==
  /\ mpc = "create" /\ mpc' = "receive"
  /\ npc' = "sleep"
  /\ UNCHANGED <<channel, saved, owner, cur, delivered, latest>>

GetDisconnect(s) ==
  /\ MainStep("receive", "disconnect_lock")
  /\ ReceivePulse(Disconnect(s))
  /\ cur' = s
  /\ UNCHANGED <<saved, owner>>

\* The unblock pulse: MsgError on the rcvid it names.
GetUnblock(c) ==
  /\ MainStep("receive", "unblock")
  /\ ReceivePulse(Unblock(c))
  /\ cur' = c
  /\ UNCHANGED <<saved, owner>>

AnswerUnblock ==
  /\ MainStep("unblock", "receive")
  /\ MsgReply(cur, "error")
  /\ cur' = NoOne
  /\ UNCHANGED <<saved, owner>>

\* MsgVerifyEvent and the switch on the type decide where a message goes.
GetMessage(c) ==
  /\ MainStep("receive", IF msg[c] = "register" THEN "register_lock"
                                                ELSE "refuse")
  /\ MsgReceive(c)
  /\ cur' = c
  /\ UNCHANGED <<saved, owner>>

\* MsgError(rcvid, EINVAL) or MsgError(rcvid, ENOSYS)
Refuse ==
  /\ MainStep("refuse", "receive")
  /\ MsgReply(cur, "error")
  /\ cur' = NoOne
  /\ UNCHANGED <<saved, owner>>

MainLock(from, to) ==
  /\ MainStep(from, to)
  /\ owner = "none" /\ owner' = "main"
  /\ UNCHANGED <<channel, saved, cur>>

MainUnlock(from, to) ==
  /\ MainStep(from, to)
  /\ owner' = "none"
  /\ UNCHANGED <<channel, saved, cur>>

DisconnectLock == MainLock("disconnect_lock", "disconnect_clear")

\* Fault: save_rcvid is not reset.
ClearKeepsRcvid ==
  /\ MainStep("disconnect_clear", "disconnect_unlock")
  /\ IF save_scoid = cur
       THEN save_scoid' = NoOne /\ notify_count' = 0
       ELSE UNCHANGED <<save_scoid, notify_count>>
  /\ UNCHANGED <<channel, save_rcvid, save_event, owner, cur>>

\* Fault: any client's disconnect empties the slot.
ClearAlways ==
  /\ MainStep("disconnect_clear", "disconnect_unlock")
  /\ save_scoid' = NoOne /\ save_rcvid' = NoOne /\ notify_count' = 0
  /\ UNCHANGED <<channel, save_event, owner, cur>>

\* if (save_scoid == recv_buf.pulse.scoid) clean up
DisconnectClear ==
  /\ MainStep("disconnect_clear", "disconnect_unlock")
  /\ IF save_scoid = cur
       THEN save_scoid' = NoOne /\ save_rcvid' = NoOne /\ notify_count' = 0
       ELSE UNCHANGED <<save_scoid, save_rcvid, notify_count>>
  /\ UNCHANGED <<channel, save_event, owner, cur>>

DisconnectUnlock == MainUnlock("disconnect_unlock", "detach")

\* always do the ConnectDetach(), though
Detach ==
  /\ MainStep("detach", "receive")
  /\ ConnectDetach(cur)
  /\ cur' = NoOne
  /\ UNCHANGED <<saved, owner>>

RegisterLock == MainLock("register_lock", "save_rcvid")

SaveRcvid ==
  /\ MainStep("save_rcvid", "save_event")
  /\ save_rcvid' = cur
  /\ UNCHANGED <<channel, save_scoid, save_event, notify_count, owner, cur>>

SaveEvent ==
  /\ MainStep("save_event", "save_scoid")
  /\ save_event' = cur
  /\ UNCHANGED <<channel, save_rcvid, save_scoid, notify_count, owner, cur>>

\* Fault: save_scoid = msg_info.pid.
SaveScoidPid ==
  /\ MainStep("save_scoid", "register_unlock")
  /\ save_scoid' = cur
  /\ UNCHANGED <<channel, save_rcvid, save_event, notify_count, owner, cur>>

\* save_scoid = msg_info.scoid
SaveScoid ==
  /\ MainStep("save_scoid", "register_unlock")
  /\ save_scoid' = scoid[cur]
  /\ UNCHANGED <<channel, save_rcvid, save_event, notify_count, owner, cur>>

RegisterUnlock == MainUnlock("register_unlock", "reply")

\* Fault: the reply is forgotten.
ReplyForgotten ==
  /\ MainStep("reply", "receive")
  /\ cur' = NoOne
  /\ UNCHANGED <<channel, saved, owner>>

Reply ==
  /\ MainGoes("reply", "receive")
  /\ MsgReply(cur, "ok")
  /\ latest' = cur /\ cur' = NoOne
  /\ UNCHANGED <<saved, owner>>

-----------------------------------------------------------------------------
(* notify_thread *)

NotifyLock ==
  /\ npc = "sleep" /\ npc' = "check"
  /\ owner = "none" /\ owner' = "notify"
  /\ UNCHANGED <<channel, saved, mpc, cur, delivered, latest>>

\* MsgDeliverEvent reaches a client that is alive; otherwise it fails, which
\* is reported and ignored.
Pulse(c, ev, value) ==
  /\ misdelivered' = (misdelivered \/ ev # c)
  /\ last' = IF blocked[c] = "dead" THEN last ELSE [last EXCEPT ![c] = value]

\* Fault: only an event that may be updated is delivered.
NotifyUpdateableOnly ==
  /\ npc = "check" /\ npc' = "unlock"
  /\ save_rcvid # NoOne
  /\ IF save_event \in Updateable
       THEN /\ notify_count' = (notify_count + 1) % CountModulus
            /\ Pulse(save_rcvid, save_event, notify_count)
       ELSE UNCHANGED <<notify_count, delivered>>
  /\ UNCHANGED <<channel, save_rcvid, save_scoid, save_event, owner, mpc, cur, latest>>

\* if (save_rcvid) deliver, with the count as value if that is allowed
Notify ==
  /\ npc = "check" /\ npc' = "unlock"
  /\ save_rcvid # NoOne
  /\ IF save_event \in Updateable
       THEN /\ notify_count' = (notify_count + 1) % CountModulus
            /\ Pulse(save_rcvid, save_event, notify_count)
       ELSE /\ Pulse(save_rcvid, save_event, 0)
            /\ UNCHANGED notify_count
  /\ UNCHANGED <<channel, save_rcvid, save_scoid, save_event, owner, mpc, cur, latest>>

NobodyToNotify ==
  /\ npc = "check" /\ npc' = "unlock"
  /\ save_rcvid = NoOne
  /\ UNCHANGED <<channel, saved, owner, mpc, cur, delivered, latest>>

NotifyUnlock ==
  /\ npc = "unlock" /\ npc' = "sleep"
  /\ owner' = "none"
  /\ UNCHANGED <<channel, saved, mpc, cur, delivered, latest>>

-----------------------------------------------------------------------------
(* event_client *)

server == <<saved, owner, mpc, cur, npc>>

\* server_locate: name_open is retried until the name is there.
ServerLocate(c) ==
  /\ mpc # "name_attach"
  /\ NameOpen(c)
  /\ UNCHANGED <<server, delivered, latest>>

\* The one MsgSend of a client.
SendRequest(c) ==
  /\ answer[c] = NoOne
  /\ \E m \in Requests : MsgSend(c, m)
  /\ UNCHANGED <<server, delivered, latest>>

\* An error makes the client exit; killing it can happen at any time.
End(c) == ClientEnds(c) /\ UNCHANGED <<server, delivered, latest>>

Restart(c) ==
  /\ ClientRestarts(c)
  /\ last' = [last EXCEPT ![c] = -1]
  /\ latest' = IF latest = c THEN NoOne ELSE latest
  /\ UNCHANGED <<server, misdelivered>>

-----------------------------------------------------------------------------
Main ==
  \/ NameAttach \/ CreateNotifyThread
  \/ DisconnectLock \/ DisconnectClear \/ DisconnectUnlock \/ Detach
  \/ AnswerUnblock \/ Refuse
  \/ RegisterLock \/ SaveRcvid \/ SaveEvent \/ SaveScoid \/ RegisterUnlock
  \/ Reply

Receive ==
  \/ \E s \in Scoids : GetDisconnect(s)
  \/ \E c \in Clients : GetUnblock(c) \/ GetMessage(c)

NotifyThread == NotifyLock \/ Notify \/ NobodyToNotify \/ NotifyUnlock

Client(c) == ServerLocate(c) \/ SendRequest(c) \/ End(c) \/ Restart(c)

Next ==
  \/ Main \/ Receive \/ NotifyThread
  \/ \E c \in Clients : Client(c)

Spec == Init /\ [][Next]_vars

(***************************************************************************)
(* Both server threads are scheduled, each gets the mutex if it keeps      *)
(* asking, and what waits at the channel is received some time (the kernel *)
(* queues in order of arrival).  Clients owe nothing.                      *)
(***************************************************************************)
Fairness ==
  /\ WF_vars(Main) /\ WF_vars(NotifyThread)
  /\ SF_vars(DisconnectLock \/ RegisterLock) /\ SF_vars(NotifyLock)
  /\ \A c \in Clients : SF_vars(GetMessage(c))
  /\ \A s \in Scoids : SF_vars(GetDisconnect(s))

FairSpec == Spec /\ Fairness

-----------------------------------------------------------------------------
(* Properties *)

TypeOK ==
  /\ ChannelTypeOK(Requests, {"ok", "error"})
  /\ save_rcvid \in Clients \cup {NoOne}
  /\ save_scoid \in Scoids \cup {NoOne}
  /\ save_event \in Clients \cup {NoOne}
  /\ notify_count \in 0 .. CountModulus - 1
  /\ owner \in {"none", "main", "notify"}
  /\ mpc \in {"name_attach", "create", "receive", "unblock", "refuse",
              "disconnect_lock", "disconnect_clear", "disconnect_unlock",
              "detach", "register_lock", "save_rcvid", "save_event",
              "save_scoid", "register_unlock", "reply"}
  /\ cur \in Clients \cup Scoids \cup {NoOne}
  /\ npc \in {"unborn", "sleep", "check", "unlock"}
  /\ last \in [Clients -> -1 .. CountModulus - 1]
  /\ misdelivered \in BOOLEAN
  /\ latest \in Clients \cup {NoOne}

SavedDataAgrees ==
  owner = "none" =>
    /\ save_rcvid = NoOne <=> save_scoid = NoOne
    /\ save_rcvid # NoOne => /\ save_event = save_rcvid
                             /\ scoid[save_rcvid] = save_scoid

\* With the mutex free the saved data is one client's: the rcvid, the event
\* and the scoid belong together, and the scoid has not been given back (so
\* that a new client cannot have been given it).  Hence no event is ever
\* delivered through another client's rcvid.
SlotIsOneClient ==
  /\ ~misdelivered
  /\ SavedDataAgrees

\* There is one slot for any number of clients, and the last registration that
\* was granted has it: as long as its client lives no other client's exit takes
\* the slot away.
RegistrationKept ==
  owner = "none" /\ mpc # "reply" /\ latest # NoOne /\ blocked[latest] # "dead" =>
    save_rcvid = latest

\* What a client's open request may be answered: a registration is granted,
\* everything else is refused.
Due ==
  [c \in Clients |->
     IF blocked[c] \notin {"send", "reply"} THEN {}
     ELSE IF msg[c] = "register" THEN {"ok"} ELSE {"error"}]

\* The server implements the abstract one: a late unblock pulse errors nobody
\* else's request, no request is answered twice, and each is answered unless
\* its client goes before.
Service == INSTANCE RequestServer WITH NoAnswer <- NoOne, due <- Due

ServerSpec == Service!Spec

\* The client in the slot is notified, unless it loses the slot before.
SlotClientNotified ==
  \A c \in Clients : (save_rcvid = c) ~> (last[c] # -1 \/ save_rcvid # c)
=============================================================================
