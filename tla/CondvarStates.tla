--------------------------- MODULE CondvarStates ----------------------------
(***************************************************************************)
(* proc_thread/solutions/condvar.c: four threads, one per state of a state *)
(* machine.  Each waits on the one condvar until its state is current,     *)
(* moves the machine on, and broadcasts.  The threads run the same loop    *)
(* but for the state they move to, so the actions have the thread, a state *)
(* number, as parameter.  proc_thread/condvar.c is the version with two    *)
(* states, 0 and 1, and a signal.  One behaviour is one of the versions.   *)
(*                                                                         *)
(* The sources ignore the results of pthread_create and of the mutex and   *)
(* condvar calls ("error checking has been left out"); the model takes     *)
(* them to succeed.                                                        *)
(***************************************************************************)
EXTENDS Pthread, Integers

Threads == 0 .. 3

VARIABLES
  version,    \* which of the two programs it is, by its number of states
  state,      \* which state we are in
  i,          \* state_1's local variable, up to its lowest bit
  pc,         \* where each thread is
  main        \* how far main has come

lock == <<owner, waiters>>
vars == <<lock, version, state, i, pc, main>>

Init ==
  /\ PthreadInit
  /\ version \in {2, 4}
  /\ state = 0
  /\ i = 1
  /\ pc = [t \in Threads |-> "unborn"]
  /\ main = 0

\* The order in which main creates the threads, the first two in condvar.c.
CreationOrder == <<1, 0, 2, 3>>

Exited == 5

Running == main # Exited

At(t, label) == Running /\ pc[t] = label

Goto(t, label) == pc' = [pc EXCEPT ![t] = label]

-----------------------------------------------------------------------------
(* main *)

Create ==
  /\ main < version /\ main' = main + 1
  /\ Goto(CreationOrder[main + 1], "lock")
  /\ UNCHANGED <<lock, version, state, i>>

\* main's return after sleep(20)
Exit ==
  /\ main = version /\ main' = Exited
  /\ UNCHANGED <<lock, version, state, i, pc>>

-----------------------------------------------------------------------------
(* state_0, state_1, state_2, state_3 *)

Lock(t) ==
  /\ At(t, "lock") /\ Goto(t, "test")
  /\ MutexLock(t)
  /\ UNCHANGED <<waiters, version, state, i, main>>

Wait(t) ==
  /\ At(t, "test") /\ state # t
  /\ Goto(t, "waiting")
  /\ CondWait(t)
  /\ UNCHANGED <<version, state, i, main>>

Wakes(t) ==
  /\ At(t, "waiting") /\ Goto(t, "test")
  /\ CondReacquire(t)
  /\ UNCHANGED <<waiters, version, state, i, main>>

Proceeds(t) ==
  /\ At(t, "test") /\ state = t
  /\ Goto(t, "move")
  /\ UNCHANGED <<lock, version, state, i, main>>

\* condvar.c: state 0 and state 1 take turns.
MoveOfTwo(t) ==
  /\ version = 2
  /\ At(t, "move") /\ Goto(t, "notify")
  /\ state' = 1 - t
  /\ UNCHANGED <<lock, version, i, main>>

\* condvar.c: of the two threads at most one is waiting for its turn.
Signal(t) ==
  /\ version = 2
  /\ At(t, "notify") /\ Goto(t, "unlock")
  /\ CondSignal
  /\ UNCHANGED <<owner, version, state, i, main>>

\* Fault: every state goes to the next number.
MoveToNextNumber(t) ==
  /\ version = 4
  /\ At(t, "move") /\ Goto(t, "notify")
  /\ state' = t + 1
  /\ UNCHANGED <<lock, version, i, main>>

\* state = ...; in state_1 after if (++i & 0x1)
Move(t) ==
  /\ version = 4
  /\ At(t, "move") /\ Goto(t, "notify")
  /\ i' = IF t = 1 THEN (i + 1) % 2 ELSE i
  /\ state' = CASE t = 0 -> 1
                [] t = 1 -> IF i' = 1 THEN 3 ELSE 2
                [] OTHER -> 0
  /\ UNCHANGED <<lock, version, main>>

\* Fault: pthread_cond_signal, as in the two-state version.
SignalOnly(t) ==
  /\ version = 4
  /\ At(t, "notify") /\ Goto(t, "unlock")
  /\ CondSignal
  /\ UNCHANGED <<owner, version, state, i, main>>

Broadcast(t) ==
  /\ version = 4
  /\ At(t, "notify") /\ Goto(t, "unlock")
  /\ CondBroadcast
  /\ UNCHANGED <<owner, version, state, i, main>>

Unlock(t) ==
  /\ At(t, "unlock") /\ Goto(t, "lock")
  /\ MutexUnlock(t)
  /\ UNCHANGED <<waiters, version, state, i, main>>

-----------------------------------------------------------------------------
Step(t) ==
  \/ Lock(t) \/ Wait(t) \/ Wakes(t) \/ Proceeds(t)
  \/ MoveOfTwo(t) \/ Signal(t) \/ Move(t) \/ Broadcast(t) \/ Unlock(t)

Spurious ==
  /\ Running /\ \E t \in Threads : SpuriousWakeup(t)
  /\ UNCHANGED <<version, state, i, pc, main>>

Next ==
  \/ Create \/ Exit \/ Spurious
  \/ \E t \in Threads : Step(t)

Spec == Init /\ [][Next]_vars

(***************************************************************************)
(* main creates the threads, a thread that can run is scheduled, and one   *)
(* that keeps asking for the mutex gets it.  Nothing is assumed of Exit or *)
(* of spurious wakeups.                                                    *)
(***************************************************************************)
Fairness ==
  /\ WF_vars(Create)
  /\ \A t \in Threads : WF_vars(Step(t)) /\ SF_vars(Lock(t)) /\ SF_vars(Wakes(t))

FairSpec == Spec /\ Fairness

-----------------------------------------------------------------------------
(* Properties *)

TypeOK ==
  /\ PthreadTypeOK(Threads)
  /\ version \in {2, 4}
  /\ state \in 0 .. version - 1 /\ i \in {0, 1}
  /\ pc \in [Threads -> {"unborn", "lock", "test", "waiting", "move",
                         "notify", "unlock"}]
  /\ main \in 0 .. Exited

\* The threads implement the machine of their head comment and keep it going:
\* the refinement carries over StateMachine's fairness.  For two states it says
\* that a signal is enough, for four that a broadcast is.  It runs from main's
\* first pthread_create on.
Phase ==
  CASE main = 0 -> "new"
    [] main \in 1 .. version -> "running"
    [] OTHER -> "ended"

Machine == INSTANCE StateMachine
             WITH states <- version, odd <- (i = 1), phase <- Phase

MachineSpec == Machine!Spec
=============================================================================
