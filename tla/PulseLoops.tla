----------------------------- MODULE PulseLoops -----------------------------
(***************************************************************************)
(* The programs that wait for events in a loop: time/nonblockpulserec.c    *)
(* (bursts from a thread of its own), time/solutions/reptimer.c (a timer), *)
(* proc_thread/death_pulse.c (the process manager) and the two keyboard    *)
(* programs of interrupt/solutions (the kernel, which masks the interrupt  *)
(* when it delivers the event).  One behaviour is one of the programs.     *)
(*                                                                         *)
(* The pulses that wait at the program's private channel are a sequence of *)
(* their values: all of a program's pulses have one code and one priority. *)
(* Only death_pulse has a value to speak of, the pid.  For intsimple_kbd_  *)
(* ist.c, which has no channel, the sequence holds the interrupt that      *)
(* InterruptWait is to return.                                             *)
(***************************************************************************)
EXTENDS Integers, Sequences

CONSTANTS
  Programs,    \* the programs to look at
  Pids,        \* the processes that may die
  Burst,       \* pulses in a burst (7 in nonblockpulserec.c)
  MaxEvents    \* bound: events of a behaviour

VARIABLES
  program,     \* which program runs
  pc,          \* where it is
  waiting,     \* the values of the pulses at the channel
  to_send,     \* nonblockpulserec's sender: what is left of the burst
  line,        \* the keyboard's interrupt line is raised
  masked,      \* the kernel has masked the interrupt
  unmask_failed, \* history: an InterruptUnmask has failed
  raised,      \* history: the events so far
  seen         \* history: the events the program has received

interrupt == <<line, masked, unmask_failed>>
vars == <<program, pc, waiting, to_send, interrupt, raised, seen>>

Keyboard == {"kbd_ev", "kbd_ist"}

Init ==
  /\ program \in Programs
  /\ pc = "set_up" /\ waiting = <<>>
  /\ to_send = 0
  /\ line = FALSE /\ masked = FALSE /\ unmask_failed = FALSE
  /\ raised = <<>> /\ seen = <<>>

-----------------------------------------------------------------------------
(* Where the events come from, once the program has asked for them *)

Running == pc \notin {"set_up", "exited"}

More == Running /\ Len(raised) < MaxEvents

Deliver(v) == waiting' = Append(waiting, v) /\ raised' = Append(raised, v)

\* pulse_sender_thread: sleep(5), then a burst (bound: it fits MaxEvents)
SenderWakes ==
  /\ program = "nonblockpulserec" /\ More
  /\ to_send = 0 /\ Len(raised) + Burst <= MaxEvents
  /\ to_send' = Burst
  /\ UNCHANGED <<program, pc, waiting, interrupt, raised, seen>>

\* Fault: for (i = 0; i <= 7; i++).
SendsOneMore ==
  /\ program = "nonblockpulserec" /\ More
  /\ to_send # -1 /\ (to_send > 0 \/ raised # <<>>)
  /\ to_send' = to_send - 1
  /\ Deliver(0)
  /\ UNCHANGED <<program, pc, interrupt, seen>>

MsgSendPulse ==
  /\ Running
  /\ to_send > 0 /\ to_send' = to_send - 1
  /\ Deliver(0)
  /\ UNCHANGED <<program, pc, interrupt, seen>>

\* "MsgSendPulse", and on to the next
MsgSendPulseFails ==
  /\ Running
  /\ to_send > 0 /\ to_send' = to_send - 1
  /\ UNCHANGED <<program, pc, waiting, interrupt, raised, seen>>

TimerExpires ==
  /\ program = "reptimer" /\ More
  /\ Deliver(0)
  /\ UNCHANGED <<program, pc, to_send, interrupt, seen>>

ProcessDies(p) ==
  /\ program = "death_pulse" /\ More
  /\ \A i \in 1 .. Len(raised) : raised[i] # p
  /\ Deliver(p)
  /\ UNCHANGED <<program, pc, to_send, interrupt, seen>>

\* A key; while the line is raised another one makes no difference.
KeyPressed ==
  /\ program \in Keyboard /\ More
  /\ ~line /\ line' = TRUE
  /\ raised' = Append(raised, 0)
  /\ UNCHANGED <<program, pc, waiting, to_send, masked, unmask_failed, seen>>

\* The kernel masks the interrupt and delivers the event.
KernelDelivers ==
  /\ Running
  /\ line /\ ~masked
  /\ line' = FALSE /\ masked' = TRUE
  /\ waiting' = Append(waiting, 0)
  /\ UNCHANGED <<program, pc, to_send, unmask_failed, raised, seen>>

-----------------------------------------------------------------------------
(* The programs *)

\* ChannelCreate, ConnectAttach, and last what asks for the events
SetUp(p) ==
  /\ program = p
  /\ pc = "set_up" /\ pc' = "receive"
  /\ UNCHANGED <<program, waiting, to_send, interrupt, raised, seen>>

\* pthread_create of the sender
CreateSender == SetUp("nonblockpulserec")

\* timer_create, timer_settime
StartTimer == SetUp("reptimer")

\* MsgRegisterEvent, procmgr_event_notify
AskForDeaths == SetUp("death_pulse")

InterruptAttachEvent == SetUp("kbd_ev")

InterruptAttachThread == SetUp("kbd_ist")

\* A set-up or a receive fails; reptimer receives again.
Fails ==
  /\ pc = "set_up" \/ (pc = "receive" /\ program # "reptimer")
  /\ pc' = "exited"
  /\ UNCHANGED <<program, waiting, to_send, interrupt, raised, seen>>

Take(from, to) ==
  /\ pc = from /\ pc' = to
  /\ waiting # <<>> /\ waiting' = Tail(waiting)
  /\ seen' = Append(seen, Head(waiting))
  /\ UNCHANGED <<program, to_send, interrupt, raised>>

\* nonblockpulserec: the blocking MsgReceive starts a round
StartDrain == program = "nonblockpulserec" /\ Take("receive", "drain")

\* TimerTimeout and MsgReceivePulse find a pulse ...
DrainPulse == program = "nonblockpulserec" /\ Take("drain", "drain")

\* Fault: what is still queued is thrown away between two rounds.
DrainFlushes ==
  /\ pc = "drain" /\ pc' = "receive" /\ waiting' = <<>>
  /\ UNCHANGED <<program, to_send, interrupt, raised, seen>>

\* ... or time out, which ends the round.
DrainTimesOut ==
  /\ pc = "drain" /\ waiting = <<>>
  /\ pc' = "receive"
  /\ UNCHANGED <<program, waiting, to_send, interrupt, raised, seen>>

\* Any other error of MsgReceivePulse is taken for the timeout.
DrainFails ==
  /\ pc = "drain" /\ pc' = "receive"
  /\ UNCHANGED <<program, waiting, to_send, interrupt, raised, seen>>

\* reptimer: the pulse is reported
ReceiveTimer == program = "reptimer" /\ Take("receive", "receive")

\* death_pulse: the pid is reported
ReceiveDeath == program = "death_pulse" /\ Take("receive", "receive")

ReceiveInterrupt == program = "kbd_ev" /\ Take("receive", "unmask")

InterruptWait == program = "kbd_ist" /\ Take("receive", "unmask")

\* Fault: the interrupt is left masked.
UnmaskForgotten ==
  /\ pc = "unmask" /\ pc' = "receive"
  /\ UNCHANGED <<program, waiting, to_send, interrupt, raised, seen>>

\* in both keyboard programs
InterruptUnmask ==
  /\ pc = "unmask" /\ pc' = "receive"
  /\ masked' = FALSE
  /\ UNCHANGED <<program, waiting, to_send, line, unmask_failed, raised, seen>>

\* ... which say so if it fails, and wait for an interrupt all the same.
InterruptUnmaskFails ==
  /\ pc = "unmask" /\ pc' = "receive"
  /\ unmask_failed' = TRUE
  /\ UNCHANGED <<program, waiting, to_send, line, masked, raised, seen>>

-----------------------------------------------------------------------------
Events ==
  \/ SenderWakes \/ MsgSendPulse \/ MsgSendPulseFails \/ TimerExpires
  \/ KeyPressed \/ KernelDelivers
  \/ \E p \in Pids : ProcessDies(p)

Program ==
  \/ CreateSender \/ StartDrain \/ DrainPulse \/ DrainTimesOut \/ DrainFails
  \/ StartTimer \/ ReceiveTimer
  \/ AskForDeaths \/ ReceiveDeath
  \/ InterruptAttachEvent \/ ReceiveInterrupt
  \/ InterruptAttachThread \/ InterruptWait
  \/ InterruptUnmask \/ InterruptUnmaskFails

Next == Events \/ Program \/ Fails

Spec == Init /\ [][Next]_vars

(***************************************************************************)
(* The program is scheduled and the kernel delivers an interrupt that is   *)
(* not masked.  No event and no failure has to happen.                     *)
(***************************************************************************)
Fairness == WF_vars(Program) /\ WF_vars(KernelDelivers)

FairSpec == Spec /\ Fairness

-----------------------------------------------------------------------------
(* Properties *)

TypeOK ==
  /\ program \in Programs
  /\ pc \in {"set_up", "receive", "drain", "unmask", "exited"}
  /\ waiting \in Seq(Pids \cup {0})
  /\ to_send \in 0 .. Burst
  /\ line \in BOOLEAN /\ masked \in BOOLEAN /\ unmask_failed \in BOOLEAN
  /\ raised \in Seq(Pids \cup {0}) /\ seen \in Seq(Pids \cup {0})
  /\ Len(raised) <= MaxEvents

\* Every event is seen once, in order and with its value, or is still to be
\* seen: none falls between the drain loop's timeout and the blocking receive,
\* none is taken for another process's death, and the kernel never has an
\* interrupt to deliver on top of one that has not been unmasked.
EachEventOnce ==
  /\ raised = seen \o waiting \o (IF line THEN <<0>> ELSE <<>>)
  /\ program \in Keyboard => Len(waiting) <= 1

\* Every event gets to the program, which then gets back to where it waits for
\* the next one: the drain loop ends, and the interrupt is unmasked.  A program
\* that has ended sees nothing, and a keyboard program whose InterruptUnmask has
\* failed no interrupt any more (intsimple_kbd_ev.c:73-75).
EveryEventHandled ==
  \A k \in 1 .. MaxEvents :
    (Len(raised) >= k) ~>
      \/ Len(seen) >= k /\ pc = "receive" /\ ~masked
      \/ pc = "exited" \/ unmask_failed
=============================================================================
