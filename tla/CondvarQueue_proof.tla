------------------------- MODULE CondvarQueue_proof -------------------------
(***************************************************************************)
(* Proofs about CondvarQueue, for every burst size and any number of       *)
(* items.                                                                  *)
(***************************************************************************)
EXTENDS CondvarQueue, SequenceTheorems, TLAPS

\* TypeOK without q_n_items >= 0, which only follows from the count.
Typed ==
  /\ PthreadTypeOK(Threads)
  /\ dataQueuep \in Seq(Int) /\ data_ready \in BOOLEAN /\ q_n_items \in Int
  /\ pc \in [Threads -> Labels]
  /\ main \in {"create_handler", "create_provider", "sleeping", "exited"}
  /\ data \in Seq(Int)
  /\ n_loops \in Nat /\ i \in Nat
  /\ added \in Seq(Int) /\ written \in Seq(Int)

\* The handler holds an integer exactly while it is on its way to the hardware.
DataHeld ==
  IF pc[Handler] \in {"unlock_item", "write"} THEN Len(data) = 1
                                              ELSE data = <<>>

\* NoStrandedItem for states in which a thread is in its critical section.
FlagCoversList ==
  /\ dataQueuep # <<>> =>
       data_ready \/ pc[Provider] \in {"count", "set_ready"}
  /\ pc[Handler] = "reset" => dataQueuep = <<>>
  /\ pc[Provider] = "count" => dataQueuep # <<>>

\* Only the handler waits, and only where its code waits.
WaitDiscipline ==
  /\ waiters \in SUBSET {Handler}
  /\ Handler \in waiters => pc[Handler] = "waiting"

\* main starts each thread once: until then it is unborn.
BirthOrder ==
  /\ main = "create_handler" => pc[Handler] = "unborn"
  /\ main \in {"create_handler", "create_provider"} => pc[Provider] = "unborn"

\* The integers of a burst stay inside Data.
LoopBounds ==
  /\ n_loops < BurstLimit /\ i <= n_loops
  /\ pc[Provider] \in {"lock", "link", "count", "set_ready", "unlock", "signal"}
       => i < n_loops

IInv ==
  /\ Typed
  /\ LoopBounds
  /\ BirthOrder
  /\ LockDiscipline
  /\ DataHeld
  /\ FlagCoversList
  /\ WaitDiscipline
  /\ NoLostWakeup
  /\ CountReadIsClose
  /\ ExactlyOnceInOrder

\* The two threads differ, and neither is NoThread.
LEMMA ThreadsDistinct ==
  /\ Handler # Provider
  /\ NoThread # Handler /\ NoThread # Provider
  /\ Handler \in Threads /\ Provider \in Threads
  BY QueueAssumption DEF Handler, Provider, Threads

\* Init establishes the invariant.
LEMMA InitIInv == Init => IInv
<1> SUFFICES ASSUME Init PROVE IInv
  OBVIOUS
<1> USE ThreadsDistinct DEF Init
<1>1. Typed
  <2>1. PthreadTypeOK(Threads)
    BY DEF PthreadInit, PthreadTypeOK
  <2>2. <<>> \in Seq(Int)
    BY EmptySeq
  <2>3. pc \in [Threads -> Labels]
    BY DEF Labels
  <2>4. 0 \in Nat /\ 0 \in Int
    OBVIOUS
  <2> QED
    BY <2>1, <2>2, <2>3, <2>4 DEF Typed
<1>2. /\ LoopBounds /\ BirthOrder
      /\ LockDiscipline /\ WaitDiscipline /\ NoLostWakeup
  BY QueueAssumption
  DEF LoopBounds, BirthOrder, LockDiscipline, WaitDiscipline, NoLostWakeup,
      PthreadInit, InHandlerCS, InProviderCS
<1>3. DataHeld /\ FlagCoversList
  BY DEF DataHeld, FlagCoversList
<1>4. CountReadIsClose /\ ExactlyOnceInOrder
  BY EmptySeq, ConcatEmptySeq DEF CountReadIsClose, ExactlyOnceInOrder
<1> QED
  BY <1>1, <1>2, <1>3, <1>4 DEF IInv

\* A step of a thread, or of main, that leaves the list, the flag, the count,
\* data and the history as they are preserves the invariant.
LEMMA ControlStep ==
  ASSUME IInv, UNCHANGED <<queue, data, history>>,
         \/ CreateHandler \/ CreateProvider \/ Exit
         \/ HandlerLock \/ HandlerWait \/ HandlerWakes \/ HandlerProceeds
         \/ HandlerQueueEmpty \/ HandlerUnlockItem \/ HandlerRelock
         \/ HandlerUnlock \/ HandlerSpurious
         \/ ProviderBurst \/ ProviderLock \/ ProviderUnlock \/ ProviderSignal
  PROVE  IInv'
<1> USE ThreadsDistinct
    DEF IInv, Typed, BirthOrder, LoopBounds, queue, history, Goto, At,
        PthreadTypeOK, Labels, lock, loop, LockDiscipline, InHandlerCS,
        InProviderCS, WaitDiscipline, NoLostWakeup, DataHeld, FlagCoversList,
        CountReadIsClose, ExactlyOnceInOrder
<1>1. CASE CreateHandler
  BY <1>1 DEF CreateHandler
<1>2. CASE CreateProvider
  BY <1>2 DEF CreateProvider
<1>3. CASE Exit
  BY <1>3 DEF Exit
<1>4. CASE HandlerLock
  BY <1>4 DEF HandlerLock, MutexLock
<1>5. CASE HandlerWait
  BY <1>5 DEF HandlerWait, CondWait, MutexUnlock
<1>6. CASE HandlerWakes
  BY <1>6 DEF HandlerWakes, CondReacquire, MutexLock
<1>7. CASE HandlerProceeds
  BY <1>7 DEF HandlerProceeds
<1>8. CASE HandlerQueueEmpty
  BY <1>8 DEF HandlerQueueEmpty
<1>9. CASE HandlerUnlockItem
  BY <1>9 DEF HandlerUnlockItem, MutexUnlock
<1>10. CASE HandlerRelock
  BY <1>10 DEF HandlerRelock, MutexLock
<1>11. CASE HandlerUnlock
  BY <1>11 DEF HandlerUnlock, MutexUnlock
<1>12. CASE HandlerSpurious
  BY <1>12 DEF HandlerSpurious, SpuriousWakeup
<1>13. CASE ProviderBurst
  BY <1>13, QueueAssumption DEF ProviderBurst
<1>14. CASE ProviderLock
  BY <1>14 DEF ProviderLock, MutexLock
<1>15. CASE ProviderUnlock
  BY <1>15 DEF ProviderUnlock, MutexUnlock
<1>16. CASE ProviderSignal
  BY <1>16 DEF ProviderSignal, CondSignal
<1> QED
  BY <1>1, <1>2, <1>3, <1>4, <1>5, <1>6, <1>7, <1>8,
     <1>9, <1>10, <1>11, <1>12, <1>13, <1>14, <1>15, <1>16

\* Concatenation of lists of integers is associative.
LEMMA Assoc ==
  \A s, t, u \in Seq(Int) : (s \o t) \o u = s \o (t \o u)
  BY ConcatAssociative, SMTT(60)

\* Taking the front off a list and putting it back in front gives the list.
LEMMA GetMovesFront ==
  ASSUME NEW q \in Seq(Int), q # <<>>
  PROVE  <<Head(q)>> \o Tail(q) = q
<1>1. /\ <<Head(q)>> \in Seq(Int) /\ Tail(q) \in Seq(Int)
      /\ Len(Tail(q)) = Len(q) - 1 /\ Len(<<Head(q)>>) = 1
      /\ <<Head(q)>>[1] = q[1]
  BY HeadTailProperties
<1>2. /\ Len(<<Head(q)>> \o Tail(q)) = Len(q)
      /\ \A k \in 1 .. Len(q) : (<<Head(q)>> \o Tail(q))[k] = q[k]
  BY <1>1, ConcatProperties, HeadTailProperties, LenProperties
<1>3. <<Head(q)>> \o Tail(q) \in Seq(Int)
  BY <1>1, ConcatProperties
<1> QED
  BY <1>2, <1>3, SeqEqual

\* An element put in front of a list is its head, the list its tail.
LEMMA PushFront ==
  ASSUME NEW q \in Seq(Int), NEW d \in Int
  PROVE  <<d>> \o q # <<>> /\ Head(<<d>> \o q) = d /\ Tail(<<d>> \o q) = q
<1> DEFINE s == <<d>> \o q
<1>1. /\ s \in Seq(Int) /\ Len(s) = 1 + Len(q) /\ Len(q) \in Nat /\ s[1] = d
      /\ \A k \in 1 .. Len(q) : s[k + 1] = q[k]
  BY ConcatProperties, LenProperties
<1> HIDE DEF s
<1>2. s # <<>>
  BY <1>1, EmptySeq
<1>3. Head(s) = d
  BY <1>1, <1>2
<1>4. Tail(s) = q
  <2>1. /\ Tail(s) \in Seq(Int) /\ Len(Tail(s)) = Len(q)
        /\ \A k \in 1 .. Len(Tail(s)) : Tail(s)[k] = s[k + 1]
    BY <1>1, <1>2, HeadTailProperties
  <2> QED
    BY <2>1, <1>1, SeqEqual
<1> QED
  BY <1>2, <1>3, <1>4 DEF s

\* add_element_to_queue: the new node is the last of the list and of added.
LEMMA LinkStep == IInv /\ ProviderLink => IInv'
<1> SUFFICES ASSUME IInv, ProviderLink PROVE IInv'
  OBVIOUS
<1> USE ThreadsDistinct
<1> DEFINE d == n_loops * 100 + i
<1>1. d \in Int /\ dataQueuep \in Seq(Int) /\ added \in Seq(Int)
  BY DEF IInv, Typed
<1>2. /\ dataQueuep' = Append(dataQueuep, d) /\ added' = Append(added, d)
      /\ dataQueuep' # <<>> /\ Len(dataQueuep') = Len(dataQueuep) + 1
      /\ dataQueuep' \in Seq(Int) /\ added' \in Seq(Int)
  BY <1>1, AppendProperties DEF ProviderLink
<1>3. UNCHANGED <<lock, data_ready, q_n_items, main, data, loop, written>>
  BY DEF ProviderLink
<1>4. pc[Provider] = "link" /\ pc' = [pc EXCEPT ![Provider] = "count"]
  BY DEF ProviderLink, At, Goto
<1> HIDE DEF d
<1>5. Typed' /\ LoopBounds' /\ BirthOrder'
  BY <1>2, <1>3, <1>4
  DEF IInv, Typed, LoopBounds, BirthOrder, PthreadTypeOK, Labels, lock, loop
<1>6. LockDiscipline' /\ WaitDiscipline' /\ NoLostWakeup' /\ DataHeld'
  BY <1>3, <1>4
  DEF IInv, Typed, LockDiscipline, InHandlerCS, InProviderCS, WaitDiscipline,
      NoLostWakeup, DataHeld, lock
<1>7. FlagCoversList'
  BY <1>2, <1>3, <1>4
  DEF IInv, Typed, FlagCoversList, LockDiscipline, InHandlerCS, InProviderCS
<1>8. CountReadIsClose'
  BY <1>2, <1>3, <1>4, LenProperties DEF IInv, Typed, CountReadIsClose
<1>9. ExactlyOnceInOrder'
  <2>1. added \o <<d>> = ((written \o data) \o dataQueuep) \o <<d>>
    BY DEF IInv, ExactlyOnceInOrder
  <2>2. written \o data \in Seq(Int)
    BY ConcatProperties DEF IInv, Typed
  <2>3. <<d>> \in Seq(Int) /\ dataQueuep \in Seq(Int)
    BY <1>1 DEF IInv, Typed
  <2>4. ((written \o data) \o dataQueuep) \o <<d>>
          = (written \o data) \o (dataQueuep \o <<d>>)
    BY <2>2, <2>3, Assoc
  <2>5. added' = added \o <<d>> /\ dataQueuep' = dataQueuep \o <<d>>
    BY <1>1, <1>2, AppendIsConcat DEF IInv, Typed
  <2> QED
    BY <2>1, <2>4, <2>5, <1>3, Zenon DEF ExactlyOnceInOrder
<1> QED
  BY <1>5, <1>6, <1>7, <1>8, <1>9 DEF IInv

\* get_data_and_remove_from_queue: the front of the list goes to data.
LEMMA GetStep == IInv /\ HandlerGet => IInv'
<1> SUFFICES ASSUME IInv, HandlerGet PROVE IInv'
  OBVIOUS
<1> USE ThreadsDistinct
<1>1. dataQueuep \in Seq(Int) /\ dataQueuep # <<>> /\ data = <<>>
  BY DEF HandlerGet, IInv, Typed, DataHeld, At
<1>2. /\ dataQueuep' \in Seq(Int) /\ data' \in Seq(Int)
      /\ Len(dataQueuep') = Len(dataQueuep) - 1
  BY <1>1, HeadTailProperties DEF HandlerGet
<1>3. data' \o dataQueuep' = dataQueuep
  BY <1>1, GetMovesFront DEF HandlerGet
<1>4. UNCHANGED <<lock, data_ready, main, loop, history>>
  BY DEF HandlerGet
<1>5. pc[Handler] = "get" /\ pc' = [pc EXCEPT ![Handler] = "unlock_item"]
  BY DEF HandlerGet, At, Goto
<1>6. CountReadIsClose'
  <2>1. q_n_items' = q_n_items - 1 /\ pc'[Provider] = pc[Provider]
    BY <1>5 DEF HandlerGet, IInv, Typed
  <2>2. Len(dataQueuep) \in Nat
    BY <1>1, LenProperties
  <2> QED
    BY <2>1, <2>2, <1>2 DEF IInv, CountReadIsClose
<1>7. Typed' /\ LoopBounds' /\ BirthOrder'
  <2>1. q_n_items' \in Int
    BY DEF HandlerGet, IInv, Typed
  <2> QED
    BY <2>1, <1>2, <1>4, <1>5
    DEF IInv, Typed, LoopBounds, BirthOrder, PthreadTypeOK, Labels, lock,
        loop, history
<1>8. LockDiscipline' /\ WaitDiscipline' /\ NoLostWakeup' /\ DataHeld'
  <2>1. Len(data') = 1
    BY DEF HandlerGet
  <2> QED
    BY <2>1, <1>4, <1>5
    DEF IInv, Typed, LockDiscipline, InHandlerCS, InProviderCS, WaitDiscipline,
        NoLostWakeup, DataHeld, lock
<1>9. FlagCoversList'
  BY <1>1, <1>4, <1>5
  DEF IInv, Typed, FlagCoversList, LockDiscipline, InHandlerCS, InProviderCS
<1>10. ExactlyOnceInOrder'
  <2>1. added = written \o dataQueuep
    BY <1>1, ConcatEmptySeq DEF IInv, Typed, ExactlyOnceInOrder
  <2>2. written' \in Seq(Int) /\ added' = added
    BY <1>7 DEF Typed, HandlerGet, history
  <2>3. written' = written
    BY DEF HandlerGet, history
  <2>4. written' \o (data' \o dataQueuep') = (written' \o data') \o dataQueuep'
    BY <2>2, <1>2, Assoc
  <2>5. added' = (written' \o data') \o dataQueuep'
    BY <2>1, <2>2, <2>3, <2>4, <1>3, Zenon
  <2> QED
    BY <2>5 DEF ExactlyOnceInOrder
<1> QED
  BY <1>6, <1>7, <1>8, <1>9, <1>10 DEF IInv

\* write_to_hardware: data moves to the hardware, outside the lock.
LEMMA WriteStep == IInv /\ HandlerWrite => IInv'
<1> SUFFICES ASSUME IInv, HandlerWrite PROVE IInv'
  OBVIOUS
<1> USE ThreadsDistinct
<1>1. /\ UNCHANGED <<lock, queue, main, loop, added>>
      /\ pc[Handler] = "write" /\ pc' = [pc EXCEPT ![Handler] = "relock"]
  BY DEF HandlerWrite, At, Goto
<1>2. written' = written \o data /\ written' \in Seq(Int) /\ data' = <<>>
  BY ConcatProperties DEF HandlerWrite, IInv, Typed
<1>3. Typed' /\ LoopBounds' /\ BirthOrder'
  BY <1>1, <1>2, EmptySeq
  DEF IInv, Typed, LoopBounds, BirthOrder, PthreadTypeOK, Labels, lock, queue,
      loop
<1>4. /\ LockDiscipline' /\ WaitDiscipline' /\ NoLostWakeup'
      /\ DataHeld' /\ FlagCoversList' /\ CountReadIsClose'
  BY <1>1, <1>2
  DEF IInv, Typed, LockDiscipline, InHandlerCS, InProviderCS, WaitDiscipline,
      NoLostWakeup, DataHeld, FlagCoversList, CountReadIsClose, lock, queue
<1>5. ExactlyOnceInOrder'
  BY <1>1, <1>2, ConcatEmptySeq
  DEF IInv, Typed, ExactlyOnceInOrder, queue
<1> QED
  BY <1>3, <1>4, <1>5 DEF IInv

\* q_n_items++, data_ready = 1 and data_ready = 0, each under the lock.
LEMMA FlagStep ==
  ASSUME IInv, ProviderCount \/ ProviderSetReady \/ HandlerResetFlag
  PROVE  IInv'
<1> USE ThreadsDistinct
    DEF IInv, Typed, LoopBounds, BirthOrder, history, Goto, At, lock,
        loop, PthreadTypeOK, Labels, LockDiscipline, InHandlerCS, InProviderCS,
        WaitDiscipline, NoLostWakeup, DataHeld, FlagCoversList,
        ExactlyOnceInOrder, CountReadIsClose
<1>1. CASE ProviderCount
  BY <1>1 DEF ProviderCount
<1>2. CASE ProviderSetReady
  BY <1>2 DEF ProviderSetReady
<1>3. CASE HandlerResetFlag
  BY <1>3 DEF HandlerResetFlag
<1> QED
  BY <1>1, <1>2, <1>3

\* Every step of the program preserves the invariant.
LEMMA StepIInv == IInv /\ [Next]_vars => IInv'
<1> SUFFICES ASSUME IInv, [Next]_vars PROVE IInv'
  OBVIOUS
<1>1. CASE UNCHANGED vars
  BY <1>1
  DEF vars, lock, queue, loop, history, IInv, Typed, LoopBounds, BirthOrder,
      PthreadTypeOK, LockDiscipline, InHandlerCS, InProviderCS, WaitDiscipline,
      NoLostWakeup,
      DataHeld, FlagCoversList, CountReadIsClose, ExactlyOnceInOrder
<1>2. CASE CreateHandler \/ CreateProvider \/ Exit
  BY <1>2, ControlStep
  DEF CreateHandler, CreateProvider, Exit, queue, history
<1>3. CASE HandlerNext
  BY <1>3, ControlStep, GetStep, WriteStep, FlagStep
  DEF HandlerNext, HandlerLock, HandlerWait, HandlerWakes, HandlerProceeds,
      HandlerQueueEmpty, HandlerUnlockItem, HandlerRelock, HandlerUnlock,
      queue, history
<1>4. CASE HandlerSpurious
  BY <1>4, ControlStep DEF HandlerSpurious, queue, history
<1>5. CASE ProviderNext
  BY <1>5, ControlStep, LinkStep, FlagStep
  DEF ProviderNext, ProviderBurst, ProviderLock, ProviderUnlock,
      ProviderSignal, queue, history
<1> QED
  BY <1>1, <1>2, <1>3, <1>4, <1>5 DEF Next

\* The invariant holds in every state of proc_thread/condvar_queue_ex.c.
THEOREM SpecIInv == Spec => []IInv
  BY InitIInv, StepIInv, PTL DEF Spec

\* The variables of proc_thread/condvar_queue_ex.c keep their types; that
\* q_n_items is never negative needs the count to follow the list.
THEOREM TypeCorrect == Spec => []TypeOK
<1>1. IInv => TypeOK
  <2> SUFFICES ASSUME IInv PROVE TypeOK
    OBVIOUS
  <2>1. Len(dataQueuep) \in Nat /\ (dataQueuep # <<>> => Len(dataQueuep) > 0)
    BY LenProperties, EmptySeq DEF IInv, Typed
  <2>2. q_n_items \in Nat
    BY <2>1 DEF IInv, Typed, CountReadIsClose, FlagCoversList
  <2> QED
    BY <2>2 DEF IInv, Typed, TypeOK
<1> QED
  BY <1>1, SpecIInv, PTL

\* A step that changes the list, its count or the flag, or that looks at the
\* flag or the list to decide on the way, is a step of the thread that owns the
\* mutex, which goes on owning it unless it goes to sleep.
TouchedByOwner ==
  /\ queue' # queue =>
       /\ owner \in Threads /\ owner' = owner
       /\ \A t \in Threads : pc'[t] # pc[t] <=> t = owner
  /\ HandlerWait \/ HandlerProceeds \/ HandlerGet \/ HandlerQueueEmpty =>
       owner = Handler /\ (HandlerWait \/ owner' = owner)

\* hardwareHandler and dataProvider use the list, q_n_items and data_ready only
\* with the mutex, whatever path they take through their loops; what is left is
\* the "unsafe access to q_n_items" of write_to_hardware, condvar_queue_ex.c:277,
\* of which CountFollowsList says what it can see.
THEOREM MutexDiscipline == Spec => [][TouchedByOwner]_vars
<1>1. IInv /\ [Next]_vars => [TouchedByOwner]_vars
  <2> SUFFICES ASSUME IInv, Next PROVE TouchedByOwner
    BY DEF vars
  <2> USE ThreadsDistinct
      DEF IInv, Typed, LockDiscipline, InHandlerCS, InProviderCS, At, Goto, lock
  <2>1. ASSUME queue' # queue
        PROVE  /\ owner \in Threads /\ owner' = owner
               /\ \A t \in Threads : pc'[t] # pc[t] <=> t = owner
    <3>1. \/ HandlerGet \/ HandlerResetFlag
          \/ ProviderLink \/ ProviderCount \/ ProviderSetReady
      BY <2>1
      DEF Next, HandlerNext, HandlerSpurious, ProviderNext, queue, CreateHandler,
          CreateProvider, Exit, HandlerLock, HandlerWait, HandlerWakes,
          HandlerProceeds, HandlerQueueEmpty, HandlerUnlockItem, HandlerWrite,
          HandlerRelock, HandlerUnlock, ProviderBurst, ProviderLock,
          ProviderUnlock, ProviderSignal
    <3>2. CASE HandlerGet \/ HandlerResetFlag
      BY <3>2 DEF HandlerGet, HandlerResetFlag, Threads
    <3>3. CASE ProviderLink \/ ProviderCount \/ ProviderSetReady
      BY <3>3 DEF ProviderLink, ProviderCount, ProviderSetReady, Threads
    <3> QED
      BY <3>1, <3>2, <3>3
  <2>2. ASSUME HandlerWait \/ HandlerProceeds \/ HandlerGet \/ HandlerQueueEmpty
        PROVE  owner = Handler /\ (HandlerWait \/ owner' = owner)
    BY <2>2 DEF HandlerWait, HandlerProceeds, HandlerGet, HandlerQueueEmpty
  <2> QED
    BY <2>1, <2>2 DEF TouchedByOwner
<1> QED
  BY <1>1, SpecIInv, PTL DEF Spec

\* Whatever add_to_queue has linked is written, in hardwareHandler's hands or
\* in the list, once and in order.
THEOREM NothingLost == Spec => []ExactlyOnceInOrder
<1>1. IInv => ExactlyOnceInOrder
  BY DEF IInv
<1> QED
  BY <1>1, SpecIInv, PTL

\* When no thread holds the mutex a non-empty list is announced by data_ready.
THEOREM NothingStranded == Spec => []NoStrandedItem
<1>1. IInv => NoStrandedItem
  BY ThreadsDistinct
  DEF IInv, NoStrandedItem, FlagCoversList, LockDiscipline, InProviderCS
<1> QED
  BY <1>1, SpecIInv, PTL

\* hardwareHandler never sleeps on the condvar with data_ready set, but for
\* the window between the provider's unlock and its signal.
THEOREM NoWakeupLost == Spec => []NoLostWakeup
<1>1. IInv => NoLostWakeup
  BY DEF IInv
<1> QED
  BY <1>1, SpecIInv, PTL

\* The unlocked read in write_to_hardware is off by at most the one element
\* that add_element_to_queue has linked and not yet counted.
THEOREM CountFollowsList == Spec => []CountReadIsClose
<1>1. IInv => CountReadIsClose
  BY DEF IInv
<1> QED
  BY <1>1, SpecIInv, PTL

\* The two threads implement OrderedFeed.
THEOREM ImplementsFeed == Spec => FeedSpec
<1> USE ThreadsDistinct
<1>1. Init => Feed!Init
  BY EmptySeq, ConcatEmptySeq DEF Init, Feed!Init
<1>2. IInv /\ [Next]_vars => [Feed!Next]_Feed!feedVars
  <2> SUFFICES ASSUME IInv, [Next]_vars
               PROVE  Feed!Next \/ UNCHANGED Feed!feedVars
    OBVIOUS
  <2> USE DEF IInv
  <2>1. CASE ProviderLink
    <3> DEFINE d == n_loops * 100 + i
    <3>1. d \in Int /\ d \in Data
      <4>1. n_loops \in 0 .. BurstLimit /\ i \in 0 .. BurstLimit
        BY QueueAssumption DEF LoopBounds, Typed
      <4> QED
        BY <4>1, QueueAssumption DEF Data
    <3>2. /\ dataQueuep' = dataQueuep \o <<d>>
          /\ data' = data /\ written' = written
      BY <2>1, <3>1, AppendIsConcat DEF ProviderLink, Typed
    <3>3. /\ data \o dataQueuep \in Seq(Int) /\ <<d>> \in Seq(Int)
          /\ data \in Seq(Int) /\ dataQueuep \in Seq(Int)
      BY <3>1, ConcatProperties DEF Typed
    <3> HIDE DEF d
    <3>4. (data \o dataQueuep) \o <<d>> = data \o (dataQueuep \o <<d>>)
      BY <3>3, Assoc
    <3>5. data' \o dataQueuep' = Append(data \o dataQueuep, d)
      BY <3>1, <3>2, <3>3, <3>4, AppendIsConcat, Zenon
    <3> QED
      BY <3>1, <3>2, <3>5 DEF Feed!Next, Feed!Accept
  <2>2. CASE HandlerGet
    <3>1. dataQueuep \in Seq(Int) /\ data = <<>> /\ written' = written
      BY <2>2 DEF HandlerGet, DataHeld, Typed, At, history
    <3>2. data' \o dataQueuep' = data \o dataQueuep
      BY <2>2, <3>1, GetMovesFront, ConcatEmptySeq DEF HandlerGet
    <3> QED
      BY <3>1, <3>2 DEF Feed!feedVars
  <2>3. CASE HandlerWrite
    <3>1. PICK d \in Int : data = <<d>>
      <4>1. data \in Seq(Int) /\ Len(data) = 1
        BY <2>3 DEF HandlerWrite, DataHeld, Typed, At
      <4>2. data[1] \in Int
        BY <4>1, 1 \in 1 .. Len(data), ElementOfSeq
      <4>3. /\ <<data[1]>> \in Seq(Int) /\ Len(<<data[1]>>) = 1
            /\ <<data[1]>>[1] = data[1]
        BY <4>2
      <4>4. data = <<data[1]>>
        BY <4>1, <4>3, SeqEqual
      <4> QED
        BY <4>2, <4>4
    <3>2. /\ dataQueuep \in Seq(Int) /\ <<d>> \in Seq(Int)
          /\ dataQueuep' = dataQueuep /\ data' = <<>> /\ written \in Seq(Int)
      BY <2>3 DEF HandlerWrite, Typed, queue
    <3>3. data' \o dataQueuep' = dataQueuep
      BY <3>2, ConcatEmptySeq
    <3>4. written' = Append(written, d)
      BY <2>3, <3>1, <3>2, AppendIsConcat DEF HandlerWrite
    <3>5. /\ data \o dataQueuep # <<>>
          /\ Head(data \o dataQueuep) = d
          /\ Tail(data \o dataQueuep) = dataQueuep
      BY <3>1, <3>2, PushFront
    <3> QED
      BY <3>3, <3>4, <3>5 DEF Feed!Next, Feed!Emit
  <2>4. ASSUME UNCHANGED <<data, dataQueuep, written>>
        PROVE  UNCHANGED Feed!feedVars
    BY <2>4 DEF Feed!feedVars
  <2> QED
    BY <2>1, <2>2, <2>3, <2>4
    DEF Next, HandlerNext, HandlerSpurious, ProviderNext, vars, queue, history,
        CreateHandler, CreateProvider, Exit, HandlerLock, HandlerWait,
        HandlerWakes, HandlerProceeds, HandlerQueueEmpty, HandlerUnlockItem,
        HandlerRelock, HandlerUnlock, HandlerResetFlag, ProviderBurst,
        ProviderLock, ProviderUnlock, ProviderSignal, ProviderCount,
        ProviderSetReady
<1> QED
  BY <1>1, <1>2, SpecIInv, PTL DEF Spec, FeedSpec, Feed!Spec
=============================================================================
