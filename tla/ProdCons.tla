------------------------------ MODULE ProdCons ------------------------------
(***************************************************************************)
(* proc_thread/prodcons.c: a producer and a consumer hand over one product *)
(* at a time.  state is 1 while a product waits to be consumed; each       *)
(* thread waits until it is its turn, works, passes the turn and signals   *)
(* with the mutex still held.  The two functions differ only in the state  *)
(* they wait for and in what they do with the product.                     *)
(*                                                                         *)
(* Every failing call of the C library leads to exit(EXIT_FAILURE), which  *)
(* is the same step as main's return: Exit.                                *)
(***************************************************************************)
EXTENDS Pthread, Integers, Sequences

CONSTANT MaxProducts   \* bound: the producer makes at most MaxProducts

Producer == "producer"
Consumer == "consumer"
Threads == {Producer, Consumer}

VARIABLES
  state,       \* 0: the producer's turn, 1: the consumer's
  product,     \* the output of the producer
  pc,          \* where each thread is
  main,        \* how far main has come
  consumed     \* history: the products the consumer has printed, in order

lock == <<owner, waiters>>
vars == <<lock, state, product, pc, main, consumed>>

Init ==
  /\ PthreadInit
  /\ state = 0 /\ product = 0
  /\ pc = [t \in Threads |-> "unborn"]
  /\ main = "create_consumer"
  /\ consumed = <<>>

Running == main # "exited"

At(t, label) == Running /\ pc[t] = label

Goto(t, label) == pc' = [pc EXCEPT ![t] = label]

-----------------------------------------------------------------------------
(* main *)

CreateConsumer ==
  /\ main = "create_consumer" /\ main' = "create_producer"
  /\ Goto(Consumer, "lock")
  /\ UNCHANGED <<lock, state, product, consumed>>

CreateProducer ==
  /\ main = "create_producer" /\ main' = "sleeping"
  /\ Goto(Producer, "lock")
  /\ UNCHANGED <<lock, state, product, consumed>>

\* main's return after sleep(20), or exit(EXIT_FAILURE) anywhere.
Exit ==
  /\ Running /\ main' = "exited"
  /\ UNCHANGED <<lock, state, product, pc, consumed>>

-----------------------------------------------------------------------------
(* the loop that both threads run *)

NotMyTurn(t) == state = IF t = Producer THEN 1 ELSE 0

Lock(t) ==
  /\ At(t, "lock") /\ Goto(t, "test")
  /\ MutexLock(t)
  /\ UNCHANGED <<waiters, state, product, main, consumed>>

Wait(t) ==
  /\ At(t, "test") /\ NotMyTurn(t)
  /\ Goto(t, "waiting")
  /\ CondWait(t)
  /\ UNCHANGED <<state, product, main, consumed>>

\* Fault: if (state == ...) in place of while (state == ...).
WakesUnchecked(t) ==
  /\ At(t, "waiting") /\ Goto(t, "work")
  /\ CondReacquire(t)
  /\ UNCHANGED <<waiters, state, product, main, consumed>>

Wakes(t) ==
  /\ At(t, "waiting") /\ Goto(t, "test")
  /\ CondReacquire(t)
  /\ UNCHANGED <<waiters, state, product, main, consumed>>

Proceeds(t) ==
  /\ At(t, "test") /\ ~NotMyTurn(t)
  /\ Goto(t, "work")
  /\ UNCHANGED <<lock, state, product, main, consumed>>

\* printf("produced %d, state %d\n", ++product, state);
Produce ==
  /\ At(Producer, "work") /\ Goto(Producer, "pass")
  /\ product < MaxProducts
  /\ product' = product + 1
  /\ UNCHANGED <<lock, state, main, consumed>>

\* printf("consumed %d, state %d\n", product, state);
Consume ==
  /\ At(Consumer, "work") /\ Goto(Consumer, "pass")
  /\ consumed' = Append(consumed, product)
  /\ UNCHANGED <<lock, state, product, main>>

\* Fault: the producer stores the product's number as the state.
PassTurnStoresProduct(t) ==
  /\ At(t, "pass") /\ Goto(t, "signal")
  /\ state' = IF t = Producer THEN product ELSE 0
  /\ UNCHANGED <<lock, product, main, consumed>>

\* state = 1 in the producer, state = 0 in the consumer
PassTurn(t) ==
  /\ At(t, "pass") /\ Goto(t, "signal")
  /\ state' = IF t = Producer THEN 1 ELSE 0
  /\ UNCHANGED <<lock, product, main, consumed>>

\* Fault: only the producer signals.
SignalByProducerOnly(t) ==
  /\ At(t, "signal") /\ Goto(t, "unlock")
  /\ IF t = Producer THEN CondSignal ELSE UNCHANGED waiters
  /\ UNCHANGED <<owner, state, product, main, consumed>>

Signal(t) ==
  /\ At(t, "signal") /\ Goto(t, "unlock")
  /\ CondSignal
  /\ UNCHANGED <<owner, state, product, main, consumed>>

\* Fault: the loop goes on with the mutex held.
UnlockForgotten(t) ==
  /\ At(t, "unlock") /\ Goto(t, "lock")
  /\ UNCHANGED <<lock, state, product, main, consumed>>

\* The unlock; do_producer_work and do_consumer_work only delay.
Unlock(t) ==
  /\ At(t, "unlock") /\ Goto(t, "lock")
  /\ MutexUnlock(t)
  /\ UNCHANGED <<waiters, state, product, main, consumed>>

-----------------------------------------------------------------------------
Step(t) ==
  \/ Lock(t) \/ Wait(t) \/ Wakes(t) \/ Proceeds(t)
  \/ PassTurn(t) \/ Signal(t) \/ Unlock(t)

ProducerNext == Step(Producer) \/ Produce

ConsumerNext == Step(Consumer) \/ Consume

Spurious ==
  /\ Running /\ \E t \in Threads : SpuriousWakeup(t)
  /\ UNCHANGED <<state, product, pc, main, consumed>>

Next ==
  \/ CreateConsumer \/ CreateProducer \/ Exit
  \/ ProducerNext \/ ConsumerNext \/ Spurious

Spec == Init /\ [][Next]_vars

(***************************************************************************)
(* A thread that can run is scheduled, and one that keeps asking for the   *)
(* mutex gets it: the kernel hands it to the longest waiter.               *)
(***************************************************************************)
Fairness ==
  /\ WF_vars(CreateConsumer) /\ WF_vars(CreateProducer)
  /\ WF_vars(ProducerNext) /\ WF_vars(ConsumerNext)
  /\ \A t \in Threads : SF_vars(Lock(t)) /\ SF_vars(Wakes(t))

FairSpec == Spec /\ Fairness

-----------------------------------------------------------------------------
(* Properties *)

TypeOK ==
  /\ PthreadTypeOK(Threads)
  /\ state \in {0, 1} /\ product \in 0 .. MaxProducts
  /\ pc \in [Threads -> {"unborn", "lock", "test", "waiting", "work", "pass",
                         "signal", "unlock"}]
  /\ main \in {"create_consumer", "create_producer", "sleeping", "exited"}
  /\ consumed \in Seq(Nat)

\* prodcons.c:9-12 uses pthread_cond_signal because one of the two threads is
\* always running: they are never both asleep.
NeverBothAsleep == waiters # Threads

\* The product is handed over or held by the consumer, never overwritten: the
\* producer is at most one ahead, and consumption is in order.
HandedOver == IF Len(consumed) < product THEN <<product>> ELSE <<>>

\* The two threads implement the abstract feed, with room for one product.
Feed == INSTANCE OrderedFeed
          WITH Data <- 1 .. MaxProducts, pending <- HandedOver,
               output <- consumed

FeedSpec == Feed!Spec

\* Every product is consumed, unless the process ends first.
EveryProductConsumed ==
  \A k \in 1 .. MaxProducts :
    (product >= k) ~> (Len(consumed) >= k \/ ~Running)
=============================================================================
