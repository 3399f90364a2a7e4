---------------------------- MODULE CondvarQueue ----------------------------
(***************************************************************************)
(* proc_thread/condvar_queue_ex.c: dataProvider adds integers to a linked  *)
(* list in bursts, hardwareHandler takes them off one by one and writes    *)
(* them to the hardware with the mutex released.  data_ready, set by the   *)
(* provider and reset by the handler, is the condition that the handler    *)
(* waits for.  main creates the two threads, sleeps and returns, which     *)
(* ends the process whatever the threads are doing.                        *)
(*                                                                         *)
(* The list is a sequence, a pointer to one integer is a sequence of       *)
(* length 0 (NULL) or 1.  Every failing call of the C library leads to     *)
(* exit(EXIT_FAILURE), which is the same step as main's return: Exit.      *)
(***************************************************************************)
EXTENDS Pthread, Integers, Sequences

CONSTANTS BurstLimit,  \* n_loops is rand() % BurstLimit (10 in the code)
          MaxItems     \* bound: the provider adds at most MaxItems integers

ASSUME QueueAssumption ==
  /\ BurstLimit \in Nat \ {0}
  /\ MaxItems \in Nat
  /\ NoThread \notin {"hardwareHandler", "dataProvider"}

Handler == "hardwareHandler"
Provider == "dataProvider"
Threads == {Handler, Provider}

VARIABLES
  dataQueuep,       \* the shared list, front first
  data_ready,       \* is there data in the queue?
  q_n_items,        \* length of the list, read by the handler without the lock
  pc,               \* where each thread is
  main,             \* how far main has come
  data,             \* the handler's data pointer
  n_loops, i,       \* the provider's loop
  added,            \* history: every integer linked into the list, in order
  written           \* what write() has put on the hardware

queue == <<dataQueuep, data_ready, q_n_items>>
lock == <<owner, waiters>>
loop == <<n_loops, i>>
history == <<added, written>>
vars == <<lock, queue, pc, main, data, loop, history>>

Data == {n * 100 + k : n, k \in 0 .. BurstLimit}

Init ==
  /\ PthreadInit
  /\ dataQueuep = <<>> /\ data_ready = FALSE /\ q_n_items = 0
  /\ pc = [t \in Threads |-> "unborn"]
  /\ main = "create_handler"
  /\ data = <<>>
  /\ n_loops = 0 /\ i = 0
  /\ added = <<>> /\ written = <<>>

Running == main # "exited"

At(t, label) == Running /\ pc[t] = label

Goto(t, label) == pc' = [pc EXCEPT ![t] = label]

-----------------------------------------------------------------------------
(* main *)

CreateHandler ==
  /\ main = "create_handler" /\ main' = "create_provider"
  /\ Goto(Handler, "lock")
  /\ UNCHANGED <<lock, queue, data, loop, history>>

CreateProvider ==
  /\ main = "create_provider" /\ main' = "sleeping"
  /\ Goto(Provider, "burst")
  /\ UNCHANGED <<lock, queue, data, loop, history>>

\* main's return after sleep(20), or exit(EXIT_FAILURE) anywhere.
Exit ==
  /\ Running /\ main' = "exited"
  /\ UNCHANGED <<lock, queue, pc, data, loop, history>>

-----------------------------------------------------------------------------
(* hardwareHandler *)

HandlerLock ==
  /\ At(Handler, "lock") /\ Goto(Handler, "test")
  /\ MutexLock(Handler)
  /\ UNCHANGED <<waiters, queue, main, data, loop, history>>

\* while (!data_ready) pthread_cond_wait(&cond, &mutex);
HandlerWait ==
  /\ At(Handler, "test") /\ ~data_ready
  /\ Goto(Handler, "waiting")
  /\ CondWait(Handler)
  /\ UNCHANGED <<queue, main, data, loop, history>>

HandlerWakes ==
  /\ At(Handler, "waiting") /\ Goto(Handler, "test")
  /\ CondReacquire(Handler)
  /\ UNCHANGED <<waiters, queue, main, data, loop, history>>

HandlerProceeds ==
  /\ At(Handler, "test") /\ data_ready
  /\ Goto(Handler, "get")
  /\ UNCHANGED <<lock, queue, main, data, loop, history>>

\* Fault: the front node is copied but stays linked.
HandlerGetKeepsNode ==
  /\ At(Handler, "get") /\ dataQueuep # <<>>
  /\ data' = <<Head(dataQueuep)>>
  /\ Goto(Handler, "unlock_item")
  /\ UNCHANGED <<lock, queue, main, loop, history>>

\* get_data_and_remove_from_queue with an element in the list
HandlerGet ==
  /\ At(Handler, "get") /\ dataQueuep # <<>>
  /\ data' = <<Head(dataQueuep)>>
  /\ dataQueuep' = Tail(dataQueuep)
  /\ q_n_items' = q_n_items - 1
  /\ Goto(Handler, "unlock_item")
  /\ UNCHANGED <<lock, data_ready, main, loop, history>>

\* Fault: the mutex is released before the flag is reset.
HandlerQueueEmptyUnlocks ==
  /\ At(Handler, "get") /\ dataQueuep = <<>>
  /\ Goto(Handler, "reset")
  /\ MutexUnlock(Handler)
  /\ UNCHANGED <<waiters, queue, main, data, loop, history>>

\* get_data_and_remove_from_queue returns NULL
HandlerQueueEmpty ==
  /\ At(Handler, "get") /\ dataQueuep = <<>>
  /\ Goto(Handler, "reset")
  /\ UNCHANGED <<lock, queue, main, data, loop, history>>

HandlerUnlockItem ==
  /\ At(Handler, "unlock_item") /\ Goto(Handler, "write")
  /\ MutexUnlock(Handler)
  /\ UNCHANGED <<waiters, queue, main, data, loop, history>>

\* write_to_hardware(data); free(data);
HandlerWrite ==
  /\ At(Handler, "write") /\ Goto(Handler, "relock")
  /\ written' = written \o data
  /\ data' = <<>>
  /\ UNCHANGED <<lock, queue, main, loop, added>>

HandlerRelock ==
  /\ At(Handler, "relock") /\ Goto(Handler, "get")
  /\ MutexLock(Handler)
  /\ UNCHANGED <<waiters, queue, main, data, loop, history>>

HandlerResetFlag ==
  /\ At(Handler, "reset") /\ Goto(Handler, "unlock")
  /\ data_ready' = FALSE
  /\ UNCHANGED <<lock, dataQueuep, q_n_items, main, data, loop, history>>

HandlerUnlock ==
  /\ At(Handler, "unlock") /\ Goto(Handler, "lock")
  /\ MutexUnlock(Handler)
  /\ UNCHANGED <<waiters, queue, main, data, loop, history>>

-----------------------------------------------------------------------------
(* dataProvider *)

\* delay(), then n_loops = rand() % 10; an n_loops of 0 only delays again.
\* The bound keeps the whole burst within MaxItems.
ProviderBurst ==
  /\ At(Provider, "burst")
  /\ \E n \in 1 .. BurstLimit - 1 :
       /\ Len(added) + n <= MaxItems
       /\ n_loops' = n
  /\ i' = 0
  /\ Goto(Provider, "lock")
  /\ UNCHANGED <<lock, queue, main, data, history>>

\* add_to_queue
ProviderLock ==
  /\ At(Provider, "lock") /\ Goto(Provider, "link")
  /\ MutexLock(Provider)
  /\ UNCHANGED <<waiters, queue, main, data, loop, history>>

\* Fault: the new node goes to the front of the list.
ProviderLinkAtFront ==
  /\ At(Provider, "link") /\ Goto(Provider, "count")
  /\ dataQueuep' = <<n_loops * 100 + i>> \o dataQueuep
  /\ added' = Append(added, n_loops * 100 + i)
  /\ UNCHANGED <<lock, data_ready, q_n_items, main, data, loop, written>>

\* add_element_to_queue up to the link, q_n_items++ follows
ProviderLink ==
  /\ At(Provider, "link") /\ Goto(Provider, "count")
  /\ dataQueuep' = Append(dataQueuep, n_loops * 100 + i)
  /\ added' = Append(added, n_loops * 100 + i)
  /\ UNCHANGED <<lock, data_ready, q_n_items, main, data, loop, written>>

\* Fault: q_n_items++ is missing.
ProviderCountForgotten ==
  /\ At(Provider, "count") /\ Goto(Provider, "set_ready")
  /\ UNCHANGED <<lock, queue, main, data, loop, history>>

ProviderCount ==
  /\ At(Provider, "count") /\ Goto(Provider, "set_ready")
  /\ q_n_items' = q_n_items + 1
  /\ UNCHANGED <<lock, dataQueuep, data_ready, main, data, loop, history>>

\* Fault: the flag is only raised for a handler that already waits.
ProviderSetReadyIfWaiting ==
  /\ At(Provider, "set_ready") /\ Goto(Provider, "unlock")
  /\ data_ready' = (data_ready \/ Handler \in waiters)
  /\ UNCHANGED <<lock, dataQueuep, q_n_items, main, data, loop, history>>

ProviderSetReady ==
  /\ At(Provider, "set_ready") /\ Goto(Provider, "unlock")
  /\ data_ready' = TRUE
  /\ UNCHANGED <<lock, dataQueuep, q_n_items, main, data, loop, history>>

ProviderUnlock ==
  /\ At(Provider, "unlock") /\ Goto(Provider, "signal")
  /\ MutexUnlock(Provider)
  /\ UNCHANGED <<waiters, queue, main, data, loop, history>>

\* pthread_cond_signal, then the loop's i++ and i < n_loops
ProviderSignal ==
  /\ At(Provider, "signal")
  /\ CondSignal
  /\ i' = i + 1
  /\ Goto(Provider, IF i' < n_loops THEN "lock" ELSE "burst")
  /\ UNCHANGED <<owner, queue, main, data, n_loops, history>>

-----------------------------------------------------------------------------
HandlerNext ==
  \/ HandlerLock \/ HandlerWait \/ HandlerWakes \/ HandlerProceeds
  \/ HandlerGet \/ HandlerQueueEmpty \/ HandlerUnlockItem \/ HandlerWrite
  \/ HandlerRelock \/ HandlerResetFlag \/ HandlerUnlock

ProviderNext ==
  \/ ProviderBurst \/ ProviderLock \/ ProviderLink \/ ProviderCount
  \/ ProviderSetReady \/ ProviderUnlock \/ ProviderSignal

HandlerSpurious ==
  /\ Running /\ SpuriousWakeup(Handler)
  /\ UNCHANGED <<queue, pc, main, data, loop, history>>

Next ==
  \/ CreateHandler \/ CreateProvider \/ Exit
  \/ HandlerNext \/ HandlerSpurious \/ ProviderNext

Spec == Init /\ [][Next]_vars

(***************************************************************************)
(* A thread that can run is scheduled, and delay() comes to an end.  The   *)
(* threads have equal priority and the kernel hands a mutex to the thread  *)
(* that has waited longest, so a thread that keeps asking for it gets it   *)
(* (SF).  Nothing is assumed of Exit or of spurious wakeups.               *)
(***************************************************************************)
Fairness ==
  /\ WF_vars(CreateHandler) /\ WF_vars(CreateProvider)
  /\ WF_vars(HandlerNext) /\ WF_vars(ProviderNext)
  /\ SF_vars(HandlerLock) /\ SF_vars(HandlerWakes) /\ SF_vars(HandlerRelock)
  /\ SF_vars(ProviderLock)

FairSpec == Spec /\ Fairness

-----------------------------------------------------------------------------
(* Properties *)

Labels ==
  {"unborn", "lock", "test", "waiting", "get", "unlock_item", "write",
   "relock", "reset", "unlock", "burst", "link", "count", "set_ready",
   "signal"}

TypeOK ==
  /\ PthreadTypeOK(Threads)
  /\ dataQueuep \in Seq(Int) /\ data_ready \in BOOLEAN /\ q_n_items \in Nat
  /\ pc \in [Threads -> Labels]
  /\ main \in {"create_handler", "create_provider", "sleeping", "exited"}
  /\ data \in Seq(Int)
  /\ n_loops \in Nat /\ i \in Nat
  /\ added \in Seq(Int) /\ written \in Seq(Int)

InHandlerCS ==
  pc[Handler] \in {"test", "get", "unlock_item", "reset", "unlock"}

InProviderCS == pc[Provider] \in {"link", "count", "set_ready", "unlock"}

\* A thread is between its lock and its unlock exactly when it owns the
\* mutex: no path unlocks what it does not hold.
LockDiscipline ==
  /\ InHandlerCS <=> owner = Handler
  /\ InProviderCS <=> owner = Provider

\* add_to_queue links data that hardwareHandler takes off: whatever was added
\* is written, held by the handler or in the list, once and in order.
ExactlyOnceInOrder == added = written \o data \o dataQueuep

\* With the mutex free a non-empty list is announced by data_ready: the reset
\* of the flag after the drain loop never hides an element.
NoStrandedItem == owner = NoThread /\ dataQueuep # <<>> => data_ready

\* The handler does not sleep on the condvar while the flag is up, except in
\* the window in which the provider is still to signal after its unlock.
NoLostWakeup ==
  Handler \in waiters /\ data_ready => pc[Provider] \in {"unlock", "signal"}

\* The unlocked read of q_n_items in write_to_hardware sees the length of the
\* list, or one less while the provider is between its link and its count.
CountReadIsClose ==
  q_n_items = Len(dataQueuep) - (IF pc[Provider] = "count" THEN 1 ELSE 0)

\* The handler and the provider implement the abstract feed.
Feed == INSTANCE OrderedFeed
          WITH Data <- Data, pending <- data \o dataQueuep, output <- written

FeedSpec == Feed!Spec

\* Every integer that add_to_queue has linked is eventually written, unless
\* the process ends first.
EveryItemWritten ==
  \A k \in 1 .. MaxItems :
    (Len(added) >= k) ~> (Len(written) >= k \/ ~Running)
=============================================================================
