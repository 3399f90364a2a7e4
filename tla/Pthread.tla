------------------------------ MODULE Pthread ------------------------------
(***************************************************************************)
(* One POSIX mutex and one condition variable, as the programs of          *)
(* proc_thread/ and ipc/ use them.  The C library is not part of the       *)
(* repository: the operators say what the callers rely on.                 *)
(*                                                                         *)
(* owner    the thread that holds the mutex, or NoThread                   *)
(* waiters  the threads blocked inside pthread_cond_wait                   *)
(*                                                                         *)
(* A thread that pthread_cond_wait has put in waiters has released the     *)
(* mutex; once a signal, a broadcast or a spurious wakeup takes it out of  *)
(* waiters, the call still has to get the mutex back (CondReacquire)       *)
(* before it returns.                                                      *)
(***************************************************************************)
CONSTANT NoThread    \* the value of owner when the mutex is free

VARIABLES owner, waiters

PthreadInit == owner = NoThread /\ waiters = {}

PthreadTypeOK(Threads) ==
  /\ owner \in Threads \cup {NoThread}
  /\ waiters \in SUBSET Threads

MutexLock(t) == owner = NoThread /\ owner' = t

MutexUnlock(t) == owner = t /\ owner' = NoThread

\* Releasing the mutex and starting to wait are one atomic step.
CondWait(t) == MutexUnlock(t) /\ waiters' = waiters \cup {t}

CondReacquire(t) == t \notin waiters /\ MutexLock(t)

\* A signal that finds nobody waiting is lost.
CondSignal ==
  \/ waiters = {} /\ UNCHANGED waiters
  \/ \E t \in waiters : waiters' = waiters \ {t}

CondBroadcast == waiters' = {}

\* POSIX lets pthread_cond_wait return without a signal.
SpuriousWakeup(t) ==
  /\ t \in waiters
  /\ waiters' = waiters \ {t}
  /\ UNCHANGED owner
=============================================================================
