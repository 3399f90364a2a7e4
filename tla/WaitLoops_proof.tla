-------------------------- MODULE WaitLoops_proof ---------------------------
(***************************************************************************)
(* Proofs about the programs that wait in a loop, in three chapters: the   *)
(* two condvar programs of proc_thread that have no more state than their  *)
(* turn, ProdConsThreads and CondvarThreads, and ProcessEvents, whose      *)
(* programs wait for pulses, interrupts, signals and the deaths of         *)
(* processes.  No theorem is about two of them.                            *)
(***************************************************************************)
EXTENDS ProdConsThreads, CondvarThreads, ProcessEvents, SequenceTheorems, TLAPS

-----------------------------------------------------------------------------
(* ProdCons, for any number of products *)

TurnsHolding(t) == tpc[t] \in {"test", "work", "pass", "signal", "unlock"}

\* A thread is between its lock and its unlock exactly when it owns the mutex.
TurnsLockDiscipline == \A t \in Turns!Threads : TurnsHolding(t) <=> turn_owner = t

\* A thread works, and passes the turn, only when it has the turn.
TurnHeld == \A t \in Turns!Threads : tpc[t] \in {"work", "pass"} => ~Turns!NotMyTurn(t)

\* A thread sleeps while it is the other's turn, or while the other, which has
\* just passed the turn, is still to signal.
SleepersWaitForTheOther ==
  \A t \in turn_waiters :
    /\ tpc[t] = "waiting"
    /\ Turns!NotMyTurn(t) \/ \E u \in Turns!Threads \ {t} : tpc[u] = "signal"

\* How far the producer is ahead of the consumer follows from the turn, and
\* from whether its holder has done its work.
Ahead ==
  IF turn = 0
    THEN product = Len(consumed) + (IF tpc[Turns!Producer] = "pass" THEN 1 ELSE 0)
    ELSE product = Len(consumed) + (IF tpc[Turns!Consumer] = "pass" THEN 0 ELSE 1)

\* main starts each thread once: until then it is unborn.
TurnsBirthOrder ==
  /\ tmain = "create_consumer" => tpc[Turns!Consumer] = "unborn"
  /\ tmain \in {"create_consumer", "create_producer"} => tpc[Turns!Producer] = "unborn"

TurnsIInv ==
  /\ Turns!TypeOK
  /\ TurnsLockDiscipline
  /\ TurnHeld
  /\ SleepersWaitForTheOther
  /\ Ahead
  /\ TurnsBirthOrder

\* The two threads differ, and neither is NoThread.
LEMMA ThreadsDistinct ==
  /\ Turns!Producer # Turns!Consumer
  /\ "nobody" # Turns!Producer /\ "nobody" # Turns!Consumer
  /\ Turns!Threads = {Turns!Producer, Turns!Consumer}
  BY DEF Turns!Producer, Turns!Consumer, Turns!Threads

\* Init establishes the invariant.
LEMMA TurnsInit == Turns!Init => TurnsIInv
<1> SUFFICES ASSUME Turns!Init PROVE TurnsIInv
  OBVIOUS
<1> USE ThreadsDistinct DEF Turns!Init, Turns!PthreadInit
<1>1. Turns!TypeOK
  <2>1. <<>> \in Seq(Nat) /\ MaxProducts \in Nat
    BY EmptySeq, ProdConsAssumption
  <2> QED
    BY <2>1 DEF Turns!TypeOK, Turns!PthreadTypeOK
<1>2. /\ TurnsLockDiscipline /\ TurnHeld /\ SleepersWaitForTheOther /\ TurnsBirthOrder
  BY DEF TurnsLockDiscipline, TurnsHolding, TurnHeld, SleepersWaitForTheOther,
         TurnsBirthOrder
<1>3. Ahead
  BY EmptySeq DEF Ahead
<1> QED
  BY <1>1, <1>2, <1>3 DEF TurnsIInv

\* The steps of main, and a wakeup for nothing.
LEMMA TurnsOtherStep ==
  ASSUME TurnsIInv,
         \/ Turns!CreateConsumer \/ Turns!CreateProducer
         \/ Turns!Exit \/ Turns!Spurious
  PROVE  TurnsIInv'
<1> USE ThreadsDistinct
    DEF TurnsIInv, Turns!TypeOK, Turns!PthreadTypeOK, TurnsLockDiscipline,
        TurnsHolding, TurnHeld,
        Turns!NotMyTurn, SleepersWaitForTheOther, Ahead, TurnsBirthOrder, Turns!Goto,
        Turns!lock
<1>1. CASE Turns!CreateConsumer
  BY <1>1 DEF Turns!CreateConsumer
<1>2. CASE Turns!CreateProducer
  BY <1>2 DEF Turns!CreateProducer
<1>3. CASE Turns!Exit
  BY <1>3 DEF Turns!Exit
<1>4. CASE Turns!Spurious
  BY <1>4 DEF Turns!Spurious, Turns!SpuriousWakeup
<1> QED
  BY <1>1, <1>2, <1>3, <1>4

\* The steps that both threads have in common.
LEMMA TurnsLoopStep ==
  ASSUME TurnsIInv, NEW t \in Turns!Threads, Turns!Step(t)
  PROVE  TurnsIInv'
<1> USE ThreadsDistinct
    DEF TurnsIInv, Turns!TypeOK, Turns!PthreadTypeOK, TurnsLockDiscipline,
        TurnsHolding, TurnHeld,
        Turns!NotMyTurn, SleepersWaitForTheOther, Ahead, TurnsBirthOrder, Turns!Goto,
        Turns!At, Turns!lock
<1>1. CASE Turns!Lock(t)
  BY <1>1 DEF Turns!Lock, Turns!MutexLock
<1>2. CASE Turns!Wait(t)
  BY <1>2 DEF Turns!Wait, Turns!CondWait, Turns!MutexUnlock
<1>3. CASE Turns!Wakes(t)
  BY <1>3 DEF Turns!Wakes, Turns!CondReacquire, Turns!MutexLock
<1>4. CASE Turns!Proceeds(t)
  BY <1>4 DEF Turns!Proceeds
<1>5. CASE Turns!PassTurn(t)
  BY <1>5 DEF Turns!PassTurn
<1>6. CASE Turns!Signal(t)
  BY <1>6 DEF Turns!Signal, Turns!CondSignal
<1>7. CASE Turns!Unlock(t)
  BY <1>7 DEF Turns!Unlock, Turns!MutexUnlock
<1> QED
  BY <1>1, <1>2, <1>3, <1>4, <1>5, <1>6, <1>7 DEF Turns!Step

\* The work that a thread does with the turn and the mutex.
LEMMA TurnsWorkStep ==
  ASSUME TurnsIInv, Turns!Produce \/ Turns!Consume
  PROVE  TurnsIInv'
<1> USE ThreadsDistinct
    DEF TurnsIInv, Turns!TypeOK, Turns!PthreadTypeOK, TurnsLockDiscipline,
        TurnsHolding, TurnHeld,
        Turns!NotMyTurn, SleepersWaitForTheOther, Ahead, TurnsBirthOrder, Turns!Goto,
        Turns!At, Turns!lock
<1>1. CASE Turns!Produce
  BY <1>1, ProdConsAssumption DEF Turns!Produce
<1>2. CASE Turns!Consume
  <2>1. /\ consumed' \in Seq(Nat) /\ Len(consumed') = Len(consumed) + 1
        /\ Len(consumed) \in Nat
    BY <1>2, AppendProperties, LenProperties, ProdConsAssumption DEF Turns!Consume
  <2> QED
    BY <1>2, <2>1 DEF Turns!Consume
<1> QED
  BY <1>1, <1>2

\* Every step of the program preserves the invariant.
LEMMA TurnsStepIInv == TurnsIInv /\ [Turns!Next]_(Turns!vars) => TurnsIInv'
<1>1. ASSUME TurnsIInv, UNCHANGED Turns!vars PROVE TurnsIInv'
  BY <1>1
  DEF Turns!vars, Turns!lock, TurnsIInv, Turns!TypeOK, Turns!PthreadTypeOK,
      TurnsLockDiscipline, TurnsHolding,
      TurnHeld, Turns!NotMyTurn, SleepersWaitForTheOther, Ahead, TurnsBirthOrder
<1> QED
  BY <1>1, TurnsOtherStep, TurnsLoopStep, TurnsWorkStep, ThreadsDistinct
  DEF Turns!Next, Turns!ProducerNext, Turns!ConsumerNext

\* The invariant holds in every state of proc_thread/prodcons.c.
THEOREM TurnsSpecIInv == TurnsSafe => []TurnsIInv
  BY TurnsInit, TurnsStepIInv, PTL DEF TurnsSafe, Turns!Spec

\* The variables of proc_thread/prodcons.c keep their types.
THEOREM TurnsTypeCorrect == TurnsSafe => []TurnsTypeOK
<1>1. TurnsIInv => TurnsTypeOK
  BY DEF TurnsIInv, TurnsTypeOK
<1> QED
  BY <1>1, TurnsSpecIInv, PTL

\* prodcons.c:9-12: the producer and the consumer never both sleep on the
\* condvar, so that a signal reaches the one whose turn it is.
THEOREM OneIsAwake == TurnsSafe => []NeverBothAsleep
<1>1. TurnsIInv => NeverBothAsleep
  BY ThreadsDistinct
  DEF TurnsIInv, NeverBothAsleep, Turns!NeverBothAsleep, SleepersWaitForTheOther,
      Turns!NotMyTurn
<1> QED
  BY <1>1, TurnsSpecIInv, PTL

\* What the liveness of the handshake rests on: nobody sleeps through his turn.
NoWakeupLost ==
  \A t \in turn_waiters :
    \/ Turns!NotMyTurn(t)
    \/ \E u \in Turns!Threads \ {t} : turn_owner = u /\ tpc[u] = "signal"

\* pthread_cond_signal of prodcons.c: a thread whose turn it is sleeps only while
\* the other, with the mutex, is about to signal.
THEOREM WokenForTheTurn == TurnsSafe => []NoWakeupLost
<1>1. TurnsIInv => NoWakeupLost
  BY DEF TurnsIInv, SleepersWaitForTheOther, TurnsLockDiscipline, TurnsHolding,
         NoWakeupLost
<1> QED
  BY <1>1, TurnsSpecIInv, PTL

\* The two threads implement OrderedFeed: a product is handed over once, in
\* order, and never overwritten.
THEOREM ImplementsFeed == TurnsSafe => TurnsFeedSpec
<1> USE ThreadsDistinct
<1>1. Turns!Init => Turns!Feed!Init
  BY EmptySeq DEF Turns!Init, Turns!Feed!Init, Turns!HandedOver
<1>2. TurnsIInv /\ [Turns!Next]_(Turns!vars) => [Turns!Feed!Next]_(Turns!Feed!feedVars)
  <2> SUFFICES ASSUME TurnsIInv, [Turns!Next]_(Turns!vars)
               PROVE  Turns!Feed!Next \/ UNCHANGED Turns!Feed!feedVars
    OBVIOUS
  <2> USE DEF TurnsIInv
  <2>1. CASE Turns!Produce
    <3>1. /\ product = Len(consumed) /\ product' = product + 1
          /\ product \in 0 .. MaxProducts /\ product < MaxProducts
          /\ consumed' = consumed
      BY <2>1 DEF Turns!Produce, Turns!At, Ahead, TurnHeld, Turns!NotMyTurn,
      Turns!TypeOK
    <3>2. Turns!HandedOver = <<>> /\ Turns!HandedOver' = <<product + 1>>
      BY <3>1 DEF Turns!HandedOver
    <3>3. product + 1 \in 1 .. MaxProducts
      BY <3>1, ProdConsAssumption
    <3> QED
      BY <3>1, <3>2, <3>3 DEF Turns!Feed!Next, Turns!Feed!Accept
  <2>2. CASE Turns!Consume
    <3>1. /\ product = Len(consumed) + 1 /\ product' = product
          /\ consumed' = Append(consumed, product)
          /\ consumed \in Seq(Nat) /\ product \in Nat
      BY <2>2, ProdConsAssumption
      DEF Turns!Consume, Turns!At, Ahead, TurnHeld, Turns!NotMyTurn, Turns!TypeOK
    <3>2. Len(consumed) \in Nat /\ Len(consumed') = Len(consumed) + 1
      BY <3>1, AppendProperties, LenProperties
    <3>3. Turns!HandedOver = <<product>> /\ Turns!HandedOver' = <<>>
      BY <3>1, <3>2 DEF Turns!HandedOver
    <3> QED
      BY <3>1, <3>3 DEF Turns!Feed!Next, Turns!Feed!Emit
  <2>3. ASSUME UNCHANGED <<product, consumed>>
        PROVE  UNCHANGED Turns!Feed!feedVars
    BY <2>3 DEF Turns!Feed!feedVars, Turns!HandedOver
  <2> QED
    BY <2>1, <2>2, <2>3
    DEF Turns!Next, Turns!vars, Turns!CreateConsumer, Turns!CreateProducer,
        Turns!Exit, Turns!ProducerNext,
        Turns!ConsumerNext, Turns!Step, Turns!Lock, Turns!Wait, Turns!Wakes,
        Turns!Proceeds, Turns!PassTurn, Turns!Signal,
        Turns!Unlock, Turns!Spurious
<1> QED
  BY <1>1, <1>2, TurnsSpecIInv, PTL
  DEF TurnsSafe, Turns!Spec, TurnsFeedSpec, Turns!FeedSpec, Turns!Feed!Spec

-----------------------------------------------------------------------------
(* CondvarThreads: the type of its variables, and that its threads do      *)
(* nothing that StateMachine does not allow.  That they keep the machine   *)
(* going is liveness, which the model checker shows.                       *)

StatesHolding(t) == place[t] \in {"test", "move", "notify", "unlock"}

\* A thread is between its lock and its unlock exactly when it owns the mutex.
StatesLockDiscipline == \A t \in States!Threads : StatesHolding(t) <=> machine_owner = t

\* A thread moves the machine on only from its own state.
MovesFromOwnState == \A t \in States!Threads : place[t] = "move" => current = t

\* main starts each thread of its version once.
StatesBirthOrder ==
  /\ \A t \in States!Threads : t >= version => place[t] = "unborn"
  /\ started # States!Exited => started <= version
  /\ \A k \in 1 .. 4 :
       started < k => place[States!CreationOrder[k]] = "unborn"

\* A thread sleeps while it is another's turn, or while the one that has just
\* moved the machine is still to notify.
SleepersAreNotified ==
  \A t \in machine_waiters :
    /\ place[t] = "waiting"
    /\ current = t => \E u \in States!Threads : place[u] = "notify"

\* The inductive invariant of CondvarStates
StatesIInv ==
  /\ States!TypeOK
  /\ StatesLockDiscipline
  /\ MovesFromOwnState
  /\ StatesBirthOrder
  /\ SleepersAreNotified

\* Init establishes the invariant.
LEMMA StatesInit ==
  ASSUME States!Init
  PROVE  StatesIInv
  BY DEF States!Init, States!PthreadInit, States!PthreadTypeOK, States!Threads,
         StatesIInv, States!TypeOK, StatesLockDiscipline, StatesHolding,
         MovesFromOwnState, StatesBirthOrder, SleepersAreNotified,
         States!CreationOrder, States!Exited

\* The steps of main, and a wakeup for nothing.
LEMMA StatesOtherStep ==
  ASSUME StatesIInv, States!Create \/ States!Exit \/ States!Spurious
  PROVE  StatesIInv'
<1> USE DEF States!Threads, StatesIInv, States!TypeOK, States!PthreadTypeOK,
        StatesLockDiscipline, StatesHolding, MovesFromOwnState,
        StatesBirthOrder, SleepersAreNotified, States!CreationOrder,
        States!Exited, States!Goto, States!lock
<1>1. CASE States!Create
  BY <1>1 DEF States!Create
<1>2. CASE States!Exit
  BY <1>2 DEF States!Exit
<1>3. CASE States!Spurious
  BY <1>3 DEF States!Spurious, States!SpuriousWakeup
<1> QED
  BY <1>1, <1>2, <1>3

\* The steps of the threads.
LEMMA StatesLoopStep ==
  ASSUME StatesIInv, NEW t \in States!Threads, States!Step(t)
  PROVE  StatesIInv'
<1> USE DEF States!Threads, StatesIInv, States!TypeOK, States!PthreadTypeOK,
        StatesLockDiscipline, StatesHolding, MovesFromOwnState,
        StatesBirthOrder, SleepersAreNotified, States!CreationOrder,
        States!Exited, States!Goto, States!At, States!lock
<1>1. CASE States!Lock(t)
  BY <1>1 DEF States!Lock, States!MutexLock
<1>2. CASE States!Wait(t)
  BY <1>2 DEF States!Wait, States!CondWait, States!MutexUnlock
<1>3. CASE States!Wakes(t)
  BY <1>3 DEF States!Wakes, States!CondReacquire, States!MutexLock
<1>4. CASE States!Proceeds(t)
  BY <1>4 DEF States!Proceeds
<1>5. CASE States!MoveOfTwo(t)
  BY <1>5 DEF States!MoveOfTwo
<1>6. CASE States!Move(t)
  BY <1>6 DEF States!Move
<1>7. CASE States!Signal(t)
  <2>1. machine_waiters' \subseteq machine_waiters
    BY <1>7 DEF States!Signal, States!CondSignal
  <2>2. /\ States!At(t, "notify") /\ States!Goto(t, "unlock")
        /\ UNCHANGED <<machine_owner, version, current, visits, started>>
    BY <1>7 DEF States!Signal
  <2>3. machine_waiters' = {}
    <3>1. machine_waiters \subseteq {0, 1} \ {t} /\ t \in {0, 1}
      BY <1>7 DEF States!Signal
    <3>2. \/ machine_waiters = {} /\ machine_waiters' = machine_waiters
          \/ \E u \in machine_waiters : machine_waiters' = machine_waiters \ {u}
      BY <1>7 DEF States!Signal, States!CondSignal
    <3>3. PICK other \in {0, 1} : \A u \in machine_waiters : u = other
      BY <3>1
    <3>4. \A u \in machine_waiters : machine_waiters \ {u} = {}
      BY <3>3
    <3> QED
      BY <3>2, <3>4
  <2> QED
    BY <2>1, <2>2, <2>3
<1>8. CASE States!Broadcast(t)
  BY <1>8 DEF States!Broadcast, States!CondBroadcast
<1>9. CASE States!Unlock(t)
  BY <1>9 DEF States!Unlock, States!MutexUnlock
<1> QED
  BY <1>1, <1>2, <1>3, <1>4, <1>5, <1>6, <1>7, <1>8, <1>9 DEF States!Step

\* Every step of the program preserves the invariant.
LEMMA StatesStepIInv == StatesIInv /\ [States!Next]_(States!vars) => StatesIInv'
<1>1. ASSUME StatesIInv, UNCHANGED States!vars PROVE StatesIInv'
  BY <1>1
  DEF States!vars, States!lock, StatesIInv, States!TypeOK, States!PthreadTypeOK,
      StatesLockDiscipline, StatesHolding, MovesFromOwnState, StatesBirthOrder,
      SleepersAreNotified
<1> QED
  BY <1>1, StatesOtherStep, StatesLoopStep DEF States!Next

\* The invariant holds in every state of both condvar.c.
THEOREM StatesSpecIInv == StatesSafe => []StatesIInv
  BY StatesInit, StatesStepIInv, PTL DEF StatesSafe, States!Spec

\* The variables keep their types: state is never a state without a thread.
THEOREM StatesTypeCorrect == StatesSafe => []StatesTypeOK
<1>1. StatesIInv => StatesTypeOK
  BY DEF StatesIInv, StatesTypeOK
<1> QED
  BY <1>1, StatesSpecIInv, PTL

\* What the machine's going on rests on: nobody sleeps through his own state.
StatesNoWakeupLost ==
  \A t \in machine_waiters :
    current = t => \E u \in States!Threads : machine_owner = u /\ place[u] = "notify"

\* pthread_cond_signal of condvar.c, pthread_cond_broadcast of its solution: a
\* thread sleeps in its own state only while another, with the mutex, is about to
\* notify it.  For two threads the signal cannot wake anybody else; for four the
\* broadcast wakes the right one among the rest.
THEOREM NotifiedInOwnState == StatesSafe => []StatesNoWakeupLost
<1>1. StatesIInv => StatesNoWakeupLost
  BY DEF StatesIInv, SleepersAreNotified, StatesLockDiscipline, StatesHolding,
         StatesNoWakeupLost
<1> QED
  BY <1>1, StatesSpecIInv, PTL

\* A thread that moves the machine on has been created, so that the program runs.
LEMMA MovesWhileRunning ==
  ASSUME StatesIInv, NEW t \in States!Threads, States!At(t, "move")
  PROVE  States!Phase = "running"
<1>1. started \in 0 .. 5 /\ started # 5 /\ started <= version /\ version \in {2, 4}
  BY DEF StatesIInv, States!TypeOK, StatesBirthOrder, States!At, States!Running,
         States!Exited
<1>2. started # 0
  BY <1>1 DEF StatesIInv, StatesBirthOrder, States!At, States!CreationOrder,
              States!Threads
<1> QED
  BY <1>1, <1>2 DEF States!Phase

\* Every step of the threads is a transition that the head comment of
\* condvar.c announces, or leaves the machine where it is.
THEOREM OnlyAnnouncedTransitions ==
  StatesSafe =>
    States!Machine!Init /\ [][States!Machine!Next]_(States!Machine!machineVars)
<1>1. States!Init => States!Machine!Init
  BY DEF States!Init, States!Machine!Init, States!Phase
<1>2. StatesIInv /\ [States!Next]_(States!vars) =>
        [States!Machine!Next]_(States!Machine!machineVars)
  <2> SUFFICES ASSUME StatesIInv, [States!Next]_(States!vars)
               PROVE  States!Machine!Next \/ UNCHANGED States!Machine!machineVars
    OBVIOUS
  <2> USE DEF StatesIInv, States!TypeOK, States!Machine!Next
  <2>1. ASSUME NEW t \in States!Threads, States!MoveOfTwo(t)
        PROVE  States!Machine!Straight
    <3>1. current = t /\ t \in {0, 1} /\ current' = 1 - t /\ version = 2
          /\ UNCHANGED <<version, visits, started>>
      BY <2>1
      DEF States!MoveOfTwo, States!At, MovesFromOwnState, StatesBirthOrder,
          States!Threads
    <3>2. States!Phase = "running" /\ States!Phase' = States!Phase
      BY <2>1, <3>1, MovesWhileRunning DEF States!MoveOfTwo, States!Phase
    <3> QED
      BY <3>1, <3>2 DEF States!Machine!Straight, States!Machine!Move
  <2>2. ASSUME NEW t \in States!Threads, States!Move(t)
        PROVE  States!Machine!Straight \/ States!Machine!Branch
    <3>1. /\ current = t /\ t \in 0 .. 3 /\ version = 4
          /\ UNCHANGED <<version, started>>
      BY <2>2 DEF States!Move, States!At, MovesFromOwnState, States!Threads
    <3>2. States!Phase = "running" /\ States!Phase' = States!Phase
      BY <2>2, <3>1, MovesWhileRunning DEF States!Move, States!Phase
    <3>3. CASE t = 1
      <4>1. /\ visits' = (visits + 1) % 2
            /\ current' = IF visits' = 1 THEN 3 ELSE 2
        BY <2>2, <3>3 DEF States!Move
      <4>2. (visits' = 1) <=> ~(visits = 1)
        BY <4>1
      <4> QED
        BY <3>1, <3>3, <3>2, <4>1, <4>2
        DEF States!Machine!Branch, States!Machine!Move
    <3>4. CASE t # 1
      <4>1. visits' = visits /\ current' = IF t = 0 THEN 1 ELSE 0
        BY <2>2, <3>4 DEF States!Move
      <4> QED
        BY <3>1, <3>4, <3>2, <4>1 DEF States!Machine!Straight, States!Machine!Move
    <3> QED
      BY <3>3, <3>4
  <2>3. CASE States!Exit
    BY <2>3
    DEF States!Exit, States!Exited, States!Phase, States!Machine!Stop,
        States!Machine!Goes
  <2>4. ASSUME UNCHANGED <<version, current, visits, started>>
        PROVE  UNCHANGED States!Machine!machineVars
    BY <2>4 DEF States!Machine!machineVars, States!Phase
  <2>5. CASE States!Create
    <3>1. started = 0 => States!Machine!Start
      BY <2>5 DEF States!Create, States!Phase, States!Machine!Start, States!Machine!Goes
    <3>2. started # 0 => UNCHANGED States!Machine!machineVars
      BY <2>5 DEF States!Create, States!Phase, States!Machine!machineVars
    <3> QED
      BY <3>1, <3>2
  <2> QED
    BY <2>1, <2>2, <2>3, <2>4, <2>5
    DEF States!Next, States!vars, States!Spurious, States!Step, States!Lock,
        States!Wait, States!Wakes, States!Proceeds, States!Signal,
        States!Broadcast, States!Unlock
<1> QED
  BY <1>1, <1>2, StatesSpecIInv, PTL DEF StatesSafe, States!Spec

-----------------------------------------------------------------------------
(* ProcessEvents *)

\* The strengthening: what each program keeps besides the order of its events.

\* Only its program is in the second loop, or has an interrupt to unmask; only
\* a keyboard program has an interrupt line.
PlacesOfProgram ==
  /\ lpc = "drain" => program = "nonblockpulserec"
  /\ lpc = "unmask" => program \in Pulse!Keyboard
  /\ program \notin Pulse!Keyboard => ~line
  /\ program # "nonblockpulserec" => to_send = 0

\* A burst is begun only if all of it fits the bound.
BurstFits == Len(raised) + to_send <= MaxEvents

\* From the delivery of an interrupt to its unmask the kernel has it masked,
\* and the program is unmasking it only after it has received it.
MaskedUntilUnmask ==
  program \in Pulse!Keyboard =>
    /\ waiting # <<>> => masked /\ lpc # "unmask" /\ Len(waiting) = 1
    /\ lpc = "unmask" => masked

PulseIInv ==
  /\ Pulse!TypeOK
  /\ PlacesOfProgram
  /\ BurstFits
  /\ MaskedUntilUnmask
  /\ Pulse!EachEventOnce

\* SIGCHLD is pending only between the child's death and sigwaitinfo, and the
\* child is a zombie from its death to the parent's wait.
SignalMeansZombie ==
  /\ spc \in {"mask", "signal", "spawn"} => sleeper = "unborn" /\ ~pending
  /\ spc \in {"report", "wait"} => sleeper = "zombie" /\ ~pending
  /\ pending => spc = "sigwait" /\ sleeper = "zombie"

\* Where the mutex is while the parent waits for the child that locks it ...
MutexOfChild ==
  /\ rpc \in {"map", "mutex_init"} => mtx = "none"
  /\ rpc \in {"map", "mutex_init", "fork"} => cpc = "unborn"
  /\ rpc = "fork" => mtx = "free"
  /\ rpc = "waitpid" /\ cpc = "exit" => mtx = "child"
  /\ rpc = "waitpid" /\ cpc = "success" => mtx = "owner_dead"
  /\ rpc \in {"map", "mutex_init", "fork", "waitpid"} => tstatus = "unset"

\* ... and once the child has died with it.
MutexOfParent ==
  /\ rpc \in {"lock", "consistent", "unlock"} => tstatus = "success"
  /\ rpc \notin {"failed", "killed"} /\ tstatus = "success" => cpc = "success"
  /\ rpc = "lock" => mtx = "owner_dead"
  /\ rpc = "consistent" => mtx = "inconsistent"
  /\ rpc = "unlock" => mtx = "parent"
  /\ mtx = "inconsistent" => rpc = "consistent"
  /\ mtx = "parent" => rpc = "unlock"
  /\ mtx # "not_recoverable"
  /\ Child!MutexRecovered

ChildIInv ==
  /\ Child!TypeOK
  /\ SignalMeansZombie
  /\ MutexOfChild
  /\ MutexOfParent

-----------------------------------------------------------------------------
(* The pulse loops *)

Values == Pids \cup {0}

\* A pulse loop starts in the invariant.
LEMMA PulseInit == Pulse!Init => PulseIInv
<1> SUFFICES ASSUME Pulse!Init PROVE PulseIInv
  OBVIOUS
<1> USE ProcessEventsAssumption DEF Pulse!Init
<1>1. Pulse!TypeOK /\ Len(raised) = 0
  <2>1. <<>> \in Seq(Pids \cup {0}) /\ Len(<<>>) = 0
    BY EmptySeq
  <2>2. waiting \in Seq(Pids \cup {0}) /\ raised \in Seq(Pids \cup {0})
        /\ seen \in Seq(Pids \cup {0}) /\ Len(raised) = 0
    BY <2>1
  <2>3. to_send \in 0 .. Burst /\ 0 <= MaxEvents
    OBVIOUS
  <2> QED
    BY <2>2, <2>3 DEF Pulse!TypeOK
<1>2. PlacesOfProgram /\ BurstFits /\ MaskedUntilUnmask
  BY <1>1 DEF PlacesOfProgram, BurstFits, MaskedUntilUnmask
<1>3. Pulse!EachEventOnce
  BY EmptySeq, ConcatEmptySeq DEF Pulse!EachEventOnce
<1> QED
  BY <1>1, <1>2, <1>3 DEF PulseIInv

\* An event that is delivered joins the end of what is to be seen.
LEMMA DeliverKeepsOrder ==
  ASSUME Pulse!TypeOK, Pulse!EachEventOnce, ~line, NEW v \in Values,
         Pulse!Deliver(v), UNCHANGED <<line, seen>>
  PROVE  /\ waiting' \in Seq(Values) /\ raised' \in Seq(Values)
         /\ Len(raised') = Len(raised) + 1
         /\ raised' = seen' \o waiting' \o (IF line' THEN <<0>> ELSE <<>>)
<1> USE DEF Pulse!TypeOK, Values, Pulse!Deliver
<1>1. seen \o waiting \in Seq(Values) /\ raised = seen \o waiting
  BY ConcatProperties, ConcatEmptySeq DEF Pulse!EachEventOnce
<1>2. /\ waiting' \in Seq(Values) /\ raised' \in Seq(Values)
      /\ Len(raised') = Len(raised) + 1
  BY AppendProperties
<1>3. raised' = seen \o waiting'
  <2>1. <<v>> \in Seq(Values)
    OBVIOUS
  <2>2. raised' = (seen \o waiting) \o <<v>> /\ waiting' = waiting \o <<v>>
    BY <1>1, AppendIsConcat
  <2> QED
    BY <2>1, <2>2, ConcatAssociative
<1>4. seen \o waiting' \in Seq(Values)
  BY <1>2, ConcatProperties
<1> QED
  BY <1>2, <1>3, <1>4, ConcatEmptySeq

\* An event that is taken moves from one side to the other.
LEMMA TakeKeepsOrder ==
  ASSUME Pulse!TypeOK, Pulse!EachEventOnce, NEW from, NEW to, Pulse!Take(from, to)
  PROVE  /\ waiting' \in Seq(Values) /\ seen' \in Seq(Values)
         /\ Len(waiting') = Len(waiting) - 1
         /\ raised' = seen' \o waiting' \o (IF line' THEN <<0>> ELSE <<>>)
<1> USE DEF Pulse!TypeOK, Values, Pulse!Take, Pulse!interrupt
<1>1. /\ Head(waiting) \in Values /\ Tail(waiting) \in Seq(Values)
      /\ Len(Tail(waiting)) = Len(waiting) - 1
      /\ waiting = <<Head(waiting)>> \o Tail(waiting)
  <2>1. Head(waiting) \in Values /\ Tail(waiting) \in Seq(Values)
        /\ Len(Tail(waiting)) = Len(waiting) - 1
    BY HeadTailProperties
  <2>2. waiting = <<Head(waiting)>> \o Tail(waiting)
    BY <2>1
  <2> QED
    BY <2>1, <2>2
<1>2. <<Head(waiting)>> \in Seq(Values)
  BY <1>1
<1>3. seen' = seen \o <<Head(waiting)>> /\ seen' \in Seq(Values)
  BY <1>1, AppendIsConcat, AppendProperties
<1>4. seen' \o waiting' = seen \o waiting
  <2>1. seen \in Seq(Values) /\ waiting' = Tail(waiting)
    OBVIOUS
  <2>2. (seen \o <<Head(waiting)>>) \o Tail(waiting)
          = seen \o (<<Head(waiting)>> \o Tail(waiting))
    <3> HIDE DEF Pulse!TypeOK, Values, Pulse!Take, Pulse!interrupt
    <3> QED
      BY <2>1, <1>1, <1>2, ConcatAssociative
  <2> HIDE DEF Pulse!TypeOK, Values, Pulse!Take, Pulse!interrupt
  <2> QED
    BY <2>1, <2>2, <1>1, <1>3, Zenon
<1> QED
  BY <1>1, <1>3, <1>4 DEF Pulse!EachEventOnce

\* The events: what the sender thread, the timer, the process manager and the
\* kernel do.
LEMMA EventsKeep ==
  ASSUME PulseIInv, Pulse!Events
  PROVE  PulseIInv'
<1> USE ProcessEventsAssumption DEF PulseIInv
<1>1. CASE Pulse!SenderWakes
  <2> USE <1>1 DEF Pulse!SenderWakes, Pulse!interrupt
  <2>1. Pulse!TypeOK' /\ Pulse!EachEventOnce'
    BY DEF Pulse!TypeOK, Pulse!EachEventOnce, Pulse!Keyboard
  <2>2. PlacesOfProgram' /\ MaskedUntilUnmask'
    BY DEF PlacesOfProgram, MaskedUntilUnmask, Pulse!Keyboard
  <2>3. BurstFits'
    BY DEF BurstFits, Pulse!TypeOK
  <2> QED
    BY <2>1, <2>2, <2>3
<1>2. ASSUME NEW v \in Values, Pulse!Deliver(v),
             UNCHANGED <<program, lpc, line, masked, unmask_failed, seen>>,
             program \notin Pulse!Keyboard,
             Len(raised) + 1 + to_send' <= MaxEvents,
             to_send' \in 0 .. Burst,
             program # "nonblockpulserec" => to_send' = 0
      PROVE  PulseIInv'
  <2>1. ~line
    BY <1>2 DEF PlacesOfProgram
  <2>2. /\ waiting' \in Seq(Values) /\ raised' \in Seq(Values)
        /\ Len(raised') = Len(raised) + 1
        /\ raised' = seen' \o waiting' \o (IF line' THEN <<0>> ELSE <<>>)
    BY <1>2, <2>1, DeliverKeepsOrder
  <2>3. Pulse!TypeOK'
    BY <1>2, <2>2 DEF Pulse!TypeOK, Values
  <2>4. Pulse!EachEventOnce' /\ PlacesOfProgram' /\ MaskedUntilUnmask'
    BY <1>2, <2>2 DEF Pulse!EachEventOnce, PlacesOfProgram, MaskedUntilUnmask
  <2>5. BurstFits'
    BY <1>2, <2>2 DEF BurstFits
  <2> QED
    BY <2>3, <2>4, <2>5
<1>3. CASE Pulse!MsgSendPulse
  <2>1. program \notin Pulse!Keyboard /\ to_send' \in 0 .. Burst
        /\ Len(raised) + 1 + to_send' <= MaxEvents
    BY <1>3
    DEF Pulse!MsgSendPulse, PlacesOfProgram, Pulse!Keyboard, Pulse!TypeOK, BurstFits
  <2> QED
    BY <1>2, <1>3, <2>1
    DEF Pulse!MsgSendPulse, Pulse!interrupt, Values, PlacesOfProgram
<1>8. CASE Pulse!MsgSendPulseFails
  BY <1>8
  DEF Pulse!MsgSendPulseFails, Pulse!interrupt, Pulse!TypeOK, Pulse!EachEventOnce,
      PlacesOfProgram, MaskedUntilUnmask, BurstFits
<1>4. CASE Pulse!TimerExpires
  BY <1>2, <1>4
  DEF Pulse!TimerExpires, Pulse!interrupt, Pulse!More, Values, PlacesOfProgram,
      Pulse!Keyboard, Pulse!TypeOK
<1>5. ASSUME NEW p \in Pids, Pulse!ProcessDies(p) PROVE PulseIInv'
  BY <1>2, <1>5
  DEF Pulse!ProcessDies, Pulse!interrupt, Pulse!More, Values, PlacesOfProgram,
      Pulse!Keyboard, Pulse!TypeOK
<1>6. CASE Pulse!KeyPressed
  <2> USE <1>6 DEF Pulse!KeyPressed, Pulse!More
  <2>1. /\ seen \o waiting \in Seq(Values) /\ 0 \in Values
        /\ raised = seen \o waiting
    BY ConcatProperties, ConcatEmptySeq DEF Pulse!TypeOK, Values, Pulse!EachEventOnce
  <2>2. /\ raised' \in Seq(Values) /\ Len(raised') = Len(raised) + 1
        /\ raised' = seen' \o waiting' \o <<0>>
    BY <2>1, AppendProperties, AppendIsConcat
  <2>3. Pulse!TypeOK'
    BY <2>2 DEF Pulse!TypeOK, Values
  <2>4. Pulse!EachEventOnce'
    BY <2>2 DEF Pulse!EachEventOnce, Pulse!Keyboard
  <2>5. PlacesOfProgram' /\ MaskedUntilUnmask'
    BY DEF PlacesOfProgram, MaskedUntilUnmask, Pulse!Keyboard
  <2>6. BurstFits'
    BY <2>2 DEF BurstFits, PlacesOfProgram, Pulse!Keyboard, Pulse!TypeOK
  <2> QED
    BY <2>3, <2>4, <2>5, <2>6
<1>7. CASE Pulse!KernelDelivers
  <2> USE <1>7 DEF Pulse!KernelDelivers
  <2>1. program \in Pulse!Keyboard /\ waiting = <<>> /\ lpc # "unmask"
    BY DEF PlacesOfProgram, MaskedUntilUnmask
  <2>2. waiting' = <<0>> /\ <<0>> \in Seq(Values) /\ <<0>> # <<>> /\ Len(<<0>>) = 1
    BY <2>1 DEF Values
  <2>3. seen \in Seq(Values) /\ seen \o <<0>> \in Seq(Values)
    BY <2>2, ConcatProperties DEF Pulse!TypeOK, Values
  <2>4. raised = seen \o <<0>>
    BY <2>1, <2>3, ConcatEmptySeq DEF Pulse!EachEventOnce
  <2>5. raised' = seen' \o waiting' \o <<>>
    BY <2>2, <2>3, <2>4, ConcatEmptySeq
  <2>6. Pulse!TypeOK'
    BY <2>2 DEF Pulse!TypeOK, Values
  <2>7. Pulse!EachEventOnce'
    <3>1. line' = FALSE /\ Len(waiting') = 1
      BY <2>2
    <3> QED
      BY <2>5, <3>1 DEF Pulse!EachEventOnce
  <2>8. PlacesOfProgram' /\ MaskedUntilUnmask' /\ BurstFits'
    BY <2>1, <2>2 DEF PlacesOfProgram, MaskedUntilUnmask, BurstFits
  <2> QED
    BY <2>6, <2>7, <2>8
<1> QED
  BY <1>1, <1>3, <1>4, <1>5, <1>6, <1>7, <1>8 DEF Pulse!Events

\* The steps of the programs, and their failures.
LEMMA ProgramKeeps ==
  ASSUME PulseIInv, Pulse!Program \/ Pulse!Fails
  PROVE  PulseIInv'
<1> USE DEF PulseIInv, Pulse!interrupt
<1>1. ASSUME NEW p \in {"nonblockpulserec", "reptimer", "death_pulse", "kbd_ev",
                       "kbd_ist"},
             Pulse!SetUp(p)
      PROVE  PulseIInv'
  BY <1>1
  DEF Pulse!SetUp, Pulse!TypeOK, Pulse!EachEventOnce, PlacesOfProgram,
      MaskedUntilUnmask, BurstFits, Pulse!Keyboard
<1>2. ASSUME NEW from, NEW to, Pulse!Take(from, to),
             from \in {"receive", "drain"},
             \/ to = "unmask" /\ program \in Pulse!Keyboard
             \/ to = "drain" /\ program = "nonblockpulserec"
             \/ to = "receive" /\ program \notin Pulse!Keyboard
      PROVE  PulseIInv'
  <2> USE <1>2 DEF Pulse!Take
  <2>1. /\ waiting' \in Seq(Values) /\ seen' \in Seq(Values)
        /\ Len(waiting') = Len(waiting) - 1 /\ Len(waiting) \in Nat
        /\ raised' = seen' \o waiting' \o (IF line' THEN <<0>> ELSE <<>>)
    BY TakeKeepsOrder, LenProperties DEF Pulse!TypeOK
  <2>2. /\ lpc' = to
        /\ UNCHANGED <<program, to_send, line, masked, unmask_failed, raised>>
        /\ to \in {"receive", "drain", "unmask"}
    OBVIOUS
  <2>3. PlacesOfProgram' /\ BurstFits'
    BY DEF PlacesOfProgram, BurstFits, Pulse!Keyboard
  <2>4. MaskedUntilUnmask'
    <3>1. program \in Pulse!Keyboard => waiting' = <<>> /\ masked
      <4>1. program \in Pulse!Keyboard => masked /\ Len(waiting) = 1
        BY DEF MaskedUntilUnmask
      <4> QED
        BY <2>1, <4>1, EmptySeq
    <3> QED
      BY <3>1 DEF MaskedUntilUnmask
  <2>5. Pulse!EachEventOnce'
    <3>1. program' \in Pulse!Keyboard => Len(waiting') <= 1
      BY <2>1, <2>2 DEF Pulse!EachEventOnce
    <3> QED
      BY <2>1, <3>1 DEF Pulse!EachEventOnce
  <2>6. Pulse!TypeOK'
    BY <2>1, <2>2 DEF Pulse!TypeOK, Values
  <2> QED
    BY <2>3, <2>4, <2>5, <2>6
<1>3. ASSUME UNCHANGED <<program, waiting, to_send, line, raised, seen>>,
             lpc' \in {"receive", "exited"}, lpc' = "exited" => lpc # "unmask",
             masked' \in BOOLEAN, unmask_failed' \in BOOLEAN,
             masked' = masked \/ lpc = "unmask"
      PROVE  PulseIInv'
  <2>1. Pulse!TypeOK' /\ Pulse!EachEventOnce'
    BY <1>3 DEF Pulse!TypeOK, Pulse!EachEventOnce
  <2>2. PlacesOfProgram' /\ BurstFits'
    BY <1>3 DEF PlacesOfProgram, BurstFits
  <2>3. MaskedUntilUnmask'
    BY <1>3 DEF MaskedUntilUnmask, PlacesOfProgram
  <2> QED
    BY <2>1, <2>2, <2>3
<1>4. CASE \/ Pulse!DrainTimesOut \/ Pulse!DrainFails
           \/ Pulse!InterruptUnmask \/ Pulse!InterruptUnmaskFails \/ Pulse!Fails
  <2>1. CASE Pulse!DrainTimesOut \/ Pulse!DrainFails
    BY <1>3, <2>1 DEF Pulse!DrainTimesOut, Pulse!DrainFails, Pulse!TypeOK
  <2>2. CASE Pulse!InterruptUnmask \/ Pulse!InterruptUnmaskFails
    BY <1>3, <2>2 DEF Pulse!InterruptUnmask, Pulse!InterruptUnmaskFails, Pulse!TypeOK
  <2>3. CASE Pulse!Fails
    BY <1>3, <2>3 DEF Pulse!Fails, Pulse!TypeOK
  <2> QED
    BY <1>4, <2>1, <2>2, <2>3
<1>5. \/ \E p \in {"nonblockpulserec", "reptimer", "death_pulse", "kbd_ev", "kbd_ist"} :
           Pulse!SetUp(p)
      \/ \E from \in {"receive", "drain"}, to \in {"receive", "drain", "unmask"} :
           /\ Pulse!Take(from, to)
           /\ \/ to = "unmask" /\ program \in Pulse!Keyboard
              \/ to = "drain" /\ program = "nonblockpulserec"
              \/ to = "receive" /\ program \notin Pulse!Keyboard
      \/ Pulse!DrainTimesOut \/ Pulse!DrainFails
      \/ Pulse!InterruptUnmask \/ Pulse!InterruptUnmaskFails \/ Pulse!Fails
  BY DEF Pulse!Program, Pulse!CreateSender, Pulse!StartTimer, Pulse!AskForDeaths,
         Pulse!InterruptAttachEvent, Pulse!InterruptAttachThread, Pulse!StartDrain,
         Pulse!DrainPulse, Pulse!ReceiveTimer, Pulse!ReceiveDeath,
         Pulse!ReceiveInterrupt, Pulse!InterruptWait, Pulse!Keyboard
<1> QED
  BY <1>1, <1>2, <1>4, <1>5

-----------------------------------------------------------------------------
(* The two parents *)

\* Who is who: spawn_example's parent and child, and whoever kills the parent,
SpawnSide ==
  \/ Child!SpawnParent \/ Child!SleeperDies
  \/ Child!SpawnParentFails \/ Child!SpawnParentKilled

\* ... and shmem_mutex_recovery's.
RecoverySide ==
  \/ Child!RecoveryParent \/ Child!RecoveryChild
  \/ Child!RecoveryParentFails \/ Child!RecoveryParentKilled

\* The two parents start in the invariant.
LEMMA ChildInit == Child!Init => ChildIInv
BY DEF Child!Init, ChildIInv, Child!TypeOK, Child!Ended, Child!Dead, SignalMeansZombie,
       MutexOfChild, MutexOfParent, Child!MutexRecovered

\* spawn_example: the parent, its child, and a kill.
LEMMA SpawnKeeps ==
  ASSUME ChildIInv, SpawnSide
  PROVE  ChildIInv'
<1> USE DEF SpawnSide, Child!SpawnParent, Child!MaskSigchld, Child!AttachHandler,
            Child!PosixSpawn, Child!Sigwait, Child!ReportZombie, Child!Wait,
            Child!SpawnStep, Child!SleeperDies, Child!SpawnParentFails,
            Child!SpawnParentKilled, Child!SpawnParentEnds, Child!Ended
<1>1. UNCHANGED Child!recovery
  OBVIOUS
<1>2. Child!TypeOK' /\ SignalMeansZombie'
  <2>1. /\ spc' \in {"mask", "signal", "spawn", "sigwait", "report", "wait"}
                    \cup Child!Ended
        /\ sigchld_masked' \in BOOLEAN /\ sigfunc_set' \in BOOLEAN
        /\ sleeper' \in {"unborn", "alive", "zombie", "gone"}
    BY DEF ChildIInv, Child!TypeOK
  <2>2. pending' \in BOOLEAN
    BY DEF ChildIInv, Child!TypeOK
  <2>3. Child!TypeOK'
    BY <1>1, <2>1, <2>2 DEF ChildIInv, Child!TypeOK, Child!recovery, Child!Dead
  <2>4. SignalMeansZombie'
    BY DEF ChildIInv, Child!TypeOK, SignalMeansZombie
  <2> QED
    BY <2>3, <2>4
<1>3. MutexOfChild' /\ MutexOfParent'
  BY <1>1
  DEF ChildIInv, MutexOfChild, MutexOfParent, Child!MutexRecovered, Child!recovery
<1> QED
  BY <1>2, <1>3 DEF ChildIInv

\* shmem_mutex_recovery: the parent, its child, and a kill.
LEMMA RecoveryKeeps ==
  ASSUME ChildIInv, RecoverySide
  PROVE  ChildIInv'
<1> USE DEF RecoverySide, Child!RecoveryParent, Child!MapShared, Child!MutexInit,
            Child!Fork, Child!Waitpid, Child!LockRobust, Child!MutexConsistent,
            Child!Unlock, Child!RecoveryStep, Child!RecoveryChild, Child!ChildLocks,
            Child!ChildDies, Child!RecoveryParentFails, Child!RecoveryParentKilled,
            Child!RecoveryParentEnds, Child!Ended, Child!Dead
<1>1. UNCHANGED Child!spawn
  OBVIOUS
<1>2. Child!TypeOK'
  BY <1>1 DEF ChildIInv, Child!TypeOK, Child!spawn
<1>3. SignalMeansZombie'
  BY <1>1 DEF ChildIInv, SignalMeansZombie, Child!spawn
<1>4. MutexOfChild' /\ MutexOfParent'
  <2> USE DEF ChildIInv, MutexOfChild, MutexOfParent, Child!MutexRecovered,
              Child!TypeOK
  <2>1. CASE Child!RecoveryParent
    BY <2>1
  <2>2. CASE Child!RecoveryChild
    BY <2>2
  <2>3. CASE Child!RecoveryParentFails
    BY <2>3
  <2>4. CASE Child!RecoveryParentKilled
    BY <2>4
  <2> QED
    BY <2>1, <2>2, <2>3, <2>4
<1> QED
  BY <1>2, <1>3, <1>4 DEF ChildIInv

\* Every step preserves the invariants.
LEMMA PulseStep == PulseIInv /\ [Pulse!Next]_(Pulse!vars) => PulseIInv'
<1>1. PulseIInv /\ UNCHANGED Pulse!vars => PulseIInv'
  BY DEF Pulse!vars, Pulse!interrupt, PulseIInv, Pulse!TypeOK, PlacesOfProgram,
         BurstFits, MaskedUntilUnmask, Pulse!EachEventOnce
<1> QED
  BY <1>1, EventsKeep, ProgramKeeps DEF Pulse!Next

LEMMA ChildStep == ChildIInv /\ [Child!Next]_(Child!vars) => ChildIInv'
<1>1. ChildIInv /\ UNCHANGED Child!vars => ChildIInv'
  BY DEF Child!vars, Child!spawn, Child!recovery, ChildIInv, Child!TypeOK,
         SignalMeansZombie, MutexOfChild, MutexOfParent, Child!MutexRecovered
<1> QED
  BY <1>1, SpawnKeeps, RecoveryKeeps DEF Child!Next, SpawnSide, RecoverySide

\* The invariants hold in every state of the programs that wait for events.
THEOREM PulseSpecIInv == PulseSafe => []PulseIInv
  BY PulseInit, PulseStep, PTL DEF PulseSafe, Pulse!Spec

THEOREM ChildSpecIInv == ChildSafe => []ChildIInv
  BY ChildInit, ChildStep, PTL DEF ChildSafe, Child!Spec

\* The variables of the five pulse loops and of the two parents keep their types.
THEOREM EventsTypeCorrect == PulseSafe /\ ChildSafe => []TypesOK
<1>1. PulseIInv /\ ChildIInv => TypesOK
  BY DEF PulseIInv, ChildIInv, TypesOK
<1> QED
  BY <1>1, PulseSpecIInv, ChildSpecIInv, PTL

\* nonblockpulserec.c:66-91, reptimer.c:89-112, death_pulse.c:58-76 and
\* the loops of intsimple_kbd_ev.c and intsimple_kbd_ist.c: every pulse, expiry,
\* death and interrupt is seen once, in order and with its value, for any number
\* of events and any length of bursts.
THEOREM EventsInOrder == PulseSafe => []EachEventOnce
<1>1. PulseIInv => EachEventOnce
  BY DEF PulseIInv, EachEventOnce
<1> QED
  BY <1>1, PulseSpecIInv, PTL

\* spawn_example.c:69-76: the child that is reported to be a zombie is one,
\* whenever it died and whoever is killed.
THEOREM ZombieWhenReported == ChildSafe => []ZombieAsReported
<1>1. ChildIInv => ZombieAsReported
  BY DEF ChildIInv, SignalMeansZombie, ZombieAsReported,
         Child!ZombieAsReported
<1> QED
  BY <1>1, ChildSpecIInv, PTL

\* shmem_mutex_recovery.c:75-115: a parent that is through after its child's
\* death with the mutex locked leaves the mutex free and fit for use.
THEOREM MutexIsRecovered == ChildSafe => []MutexRecovered
<1>1. ChildIInv => MutexRecovered
  BY DEF ChildIInv, MutexOfParent, MutexRecovered, Child!MutexRecovered
<1> QED
  BY <1>1, ChildSpecIInv, PTL

-----------------------------------------------------------------------------
(* What each of them waits for is there or still to come *)

\* The signal that spawn_example's parent waits for is pending from the death
\* of its child on, and what wait cleans up is there.
SignalNotLost ==
  /\ spc \in {"signal", "spawn", "sigwait"} => sigchld_masked
  /\ spc \in {"spawn", "sigwait"} => sigfunc_set
  /\ spc = "sigwait" => sleeper = "alive" \/ (sleeper = "zombie" /\ pending)
  /\ spc = "wait" => sleeper = "zombie"

\* The child that shmem_mutex_recovery's parent waits for can take the mutex,
\* has it, or is dead, and the lock of the dead is there to be granted.
ChildCanFinish ==
  /\ rpc = "waitpid" => cpc \in {"lock", "exit"} \cup Child!Dead
  /\ rpc = "waitpid" /\ cpc = "lock" => mtx = "free"
  /\ rpc = "lock" => mtx = "owner_dead"

\* Neither parent waits for what has been missed.
NoParentWaitsInVain == SignalNotLost /\ ChildCanFinish

\* Every step keeps it.
LEMMA NoParentWaitsStep ==
  /\ ChildIInv /\ NoParentWaitsInVain /\ [Child!Next]_(Child!vars)
  => NoParentWaitsInVain'
<1> SUFFICES ASSUME ChildIInv, NoParentWaitsInVain, [Child!Next]_(Child!vars)
             PROVE  NoParentWaitsInVain'
  OBVIOUS
<1> USE DEF NoParentWaitsInVain
<1>1. CASE SpawnSide
  <2>1. UNCHANGED Child!recovery
    BY <1>1
    DEF SpawnSide, Child!SpawnParent, Child!MaskSigchld, Child!AttachHandler,
        Child!PosixSpawn, Child!Sigwait, Child!ReportZombie, Child!Wait,
        Child!SpawnStep, Child!SleeperDies, Child!SpawnParentFails,
        Child!SpawnParentKilled, Child!SpawnParentEnds
  <2>2. SignalNotLost'
    BY <1>1
    DEF SignalNotLost, ChildIInv, Child!TypeOK, SignalMeansZombie, SpawnSide,
        Child!SpawnParent, Child!MaskSigchld, Child!AttachHandler, Child!PosixSpawn,
        Child!Sigwait, Child!ReportZombie, Child!Wait, Child!SpawnStep,
        Child!SleeperDies, Child!SpawnParentFails, Child!SpawnParentKilled,
        Child!SpawnParentEnds, Child!Ended
  <2> QED
    BY <2>1, <2>2 DEF ChildCanFinish, Child!recovery
<1>2. CASE RecoverySide
  <2>1. UNCHANGED Child!spawn
    BY <1>2
    DEF RecoverySide, Child!RecoveryParent, Child!MapShared, Child!MutexInit,
        Child!Fork, Child!Waitpid, Child!LockRobust, Child!MutexConsistent,
        Child!Unlock, Child!RecoveryStep, Child!RecoveryChild, Child!ChildLocks,
        Child!ChildDies, Child!RecoveryParentFails, Child!RecoveryParentKilled,
        Child!RecoveryParentEnds
  <2>2. ChildCanFinish'
    BY <1>2
    DEF ChildCanFinish, ChildIInv, Child!TypeOK, MutexOfChild, MutexOfParent,
        RecoverySide, Child!RecoveryParent, Child!MapShared, Child!MutexInit,
        Child!Fork, Child!Waitpid, Child!LockRobust, Child!MutexConsistent,
        Child!Unlock, Child!RecoveryStep, Child!RecoveryChild, Child!ChildLocks,
        Child!ChildDies, Child!RecoveryParentFails, Child!RecoveryParentKilled,
        Child!RecoveryParentEnds, Child!Ended, Child!Dead
  <2> QED
    BY <2>1, <2>2 DEF SignalNotLost, Child!spawn
<1>3. CASE UNCHANGED Child!vars
  BY <1>3 DEF Child!vars, Child!spawn, Child!recovery, SignalNotLost, ChildCanFinish
<1> QED
  BY <1>1, <1>2, <1>3 DEF Child!Next, SpawnSide, RecoverySide

\* spawn_example.c:42-79, shmem_mutex_recovery.c:58-88: the signal of a child
\* that died early is pending, and the mutex of a dead child can be locked.  It
\* is what ParentsGetThrough needs besides fairness.
THEOREM ParentsNeverWaitInVain == ChildSafe => []NoParentWaitsInVain
<1>1. Child!Init => NoParentWaitsInVain
  BY DEF Child!Init, NoParentWaitsInVain, SignalNotLost, ChildCanFinish
<1> QED
  BY <1>1, NoParentWaitsStep, ChildSpecIInv, PTL DEF ChildSafe, Child!Spec

\* Unless an InterruptUnmask has failed, an interrupt is masked only while its
\* event waits for a keyboard program, or the program is about to unmask it, or
\* has ended.
MaskedIsInHand ==
  masked /\ ~unmask_failed =>
    /\ program \in Pulse!Keyboard
    /\ waiting # <<>> \/ lpc \in {"unmask", "exited"}

\* Every step keeps it.
LEMMA MaskedIsInHandStep ==
  PulseIInv /\ MaskedIsInHand /\ [Pulse!Next]_(Pulse!vars) => MaskedIsInHand'
<1> SUFFICES ASSUME PulseIInv, MaskedIsInHand, [Pulse!Next]_(Pulse!vars)
             PROVE  MaskedIsInHand'
  OBVIOUS
<1> USE DEF MaskedIsInHand, Pulse!interrupt
<1>1. CASE Pulse!Events
  <2>1. CASE Pulse!KernelDelivers
    <3>1. program' \in Pulse!Keyboard
      BY <2>1 DEF Pulse!KernelDelivers, PulseIInv, PlacesOfProgram
    <3>2. waiting' # <<>>
      BY <2>1, AppendProperties DEF Pulse!KernelDelivers, PulseIInv, Pulse!TypeOK
    <3> QED
      BY <3>1, <3>2
  <2>2. ASSUME NEW v \in Values, Pulse!Deliver(v),
               UNCHANGED <<program, lpc, masked, unmask_failed>>
        PROVE  MaskedIsInHand'
    <3>1. waiting' # <<>>
      BY <2>2, AppendProperties DEF Pulse!Deliver, PulseIInv, Pulse!TypeOK, Values
    <3> QED
      BY <2>2, <3>1
  <2>3. CASE Pulse!SenderWakes \/ Pulse!MsgSendPulseFails \/ Pulse!KeyPressed
    BY <2>3 DEF Pulse!SenderWakes, Pulse!MsgSendPulseFails, Pulse!KeyPressed
  <2> QED
    BY <1>1, <2>1, <2>2, <2>3
    DEF Pulse!Events, Pulse!MsgSendPulse, Pulse!TimerExpires, Pulse!ProcessDies,
        Values
<1>2. CASE Pulse!Program \/ Pulse!Fails
  <2>1. CASE Pulse!InterruptUnmask \/ Pulse!InterruptUnmaskFails
    BY <2>1 DEF Pulse!InterruptUnmask, Pulse!InterruptUnmaskFails
  <2>2. CASE Pulse!DrainTimesOut \/ Pulse!DrainFails \/ Pulse!Fails
    BY <2>2
    DEF Pulse!DrainTimesOut, Pulse!DrainFails, Pulse!Fails
  <2>3. CASE \/ Pulse!CreateSender \/ Pulse!StartTimer \/ Pulse!AskForDeaths
             \/ Pulse!InterruptAttachEvent \/ Pulse!InterruptAttachThread
    BY <2>3
    DEF Pulse!CreateSender, Pulse!StartTimer, Pulse!AskForDeaths,
        Pulse!InterruptAttachEvent, Pulse!InterruptAttachThread, Pulse!SetUp
  <2>4. CASE Pulse!ReceiveInterrupt \/ Pulse!InterruptWait
    BY <2>4
    DEF Pulse!ReceiveInterrupt, Pulse!InterruptWait, Pulse!Take, Pulse!Keyboard
  <2>5. CASE \/ Pulse!StartDrain \/ Pulse!DrainPulse \/ Pulse!ReceiveTimer
             \/ Pulse!ReceiveDeath
    BY <2>5
    DEF Pulse!StartDrain, Pulse!DrainPulse, Pulse!ReceiveTimer, Pulse!ReceiveDeath,
        Pulse!Take, Pulse!Keyboard
  <2> QED
    BY <1>2, <2>1, <2>2, <2>3, <2>4, <2>5 DEF Pulse!Program
<1>3. CASE UNCHANGED Pulse!vars
  BY <1>3 DEF Pulse!vars
<1> QED
  BY <1>1, <1>2, <1>3 DEF Pulse!Next

\* The loops of intsimple_kbd_ev.c and intsimple_kbd_ist.c: no interrupt stays
\* masked behind a program that waits for the next one, but for the failing
\* InterruptUnmask that both go on after.  It is what EveryEventHandled needs
\* besides fairness.
THEOREM UnmaskedBeforeWaiting == PulseSafe => []MaskedIsInHand
<1>1. Pulse!Init => MaskedIsInHand
  BY DEF Pulse!Init, MaskedIsInHand
<1> QED
  BY <1>1, MaskedIsInHandStep, PulseSpecIInv, PTL DEF PulseSafe, Pulse!Spec
=============================================================================
