----------------------------- MODULE MutexSync ------------------------------
(***************************************************************************)
(* proc_thread/solutions/mutex_sync.c: NUMTHREADS threads repeat a check   *)
(* (lock, repair var1 if it differs from var2, unlock), a piece of work    *)
(* that counts in var3 with an atomic addition, and an update (lock, four  *)
(* volatile read-modify-writes of var1 and var2, unlock), until main sets  *)
(* done.  main then joins them and prints var1 and var2 without the lock.  *)
(*                                                                         *)
(* proc_thread/solutions/nomutex.c is the same without the mutex; as it    *)
(* stands it has one thread ("try with one thread, then with 4 to show     *)
(* problem"), so that its read-modify-writes, var3++ among them, are steps *)
(* here.  One behaviour is one of the two programs.                        *)
(*                                                                         *)
(* Every failing call of the C library leads to exit(EXIT_FAILURE): Exit.  *)
(***************************************************************************)
EXTENDS Integers, FiniteSets

CONSTANTS
  Threads,       \* the NUMTHREADS update threads of mutex_sync.c
  NoThread,      \* the value of owner when var_mutex is free
  Modulus,       \* an unsigned holds 0 .. Modulus - 1 (2^32)
  WorkPeriod,    \* do_work prints at every WorkPeriod-th addition (10000000)
  MaxLoops       \* bound: loops begun by all threads together

ASSUME MutexSyncAssumption ==
  /\ IsFiniteSet(Threads) /\ NoThread \notin Threads
  /\ Modulus \in Nat \ {0, 1} /\ WorkPeriod \in Nat \ {0} /\ MaxLoops \in Nat

VARIABLES
  workers,       \* the threads that main creates
  mutexed,       \* mutex_sync.c (TRUE) or nomutex.c
  owner,         \* who holds var_mutex
  var1, var2,    \* the variables the threads compete for
  var3,          \* do_work's counter
  done,          \* main tells the threads to exit
  pc,            \* where each thread is
  main,          \* how far main has come
  loops,         \* history: loops begun
  updates,       \* history: updates completed
  announced,     \* history: "did some work" messages
  repaired       \* history: some thread has found var1 # var2

fixed == <<workers, mutexed>>
shared == <<var1, var2, var3, done>>
history == <<loops, updates, announced, repaired>>
vars == <<fixed, owner, shared, pc, main, history>>

\* nomutex.c: NUMTHREADS is 1, and var3 starts at 0.
InitNoMutex ==
  /\ mutexed = FALSE /\ var3 = 0
  /\ \E t \in Threads : workers = {t}

Init ==
  /\ InitNoMutex \/ (mutexed = TRUE /\ var3 = 1 /\ workers = Threads)
  /\ owner = NoThread
  /\ var1 = 0 /\ var2 = 0 /\ done = FALSE
  /\ pc = [t \in Threads |-> "unborn"]
  /\ main = "creating"
  /\ loops = 0 /\ updates = 0 /\ announced = 0 /\ repaired = FALSE

Running == main # "exited"

At(t, label) == Running /\ pc[t] = label /\ UNCHANGED fixed

Goto(t, label) == pc' = [pc EXCEPT ![t] = label]

\* Fault: the variables are of a type that does not wrap.
PlusWider(x, k) == x + k

\* Unsigned arithmetic.
Plus(x, k) == (x + k) % Modulus

-----------------------------------------------------------------------------
(* main *)

\* pthread_create in main's loop; the new thread runs at once.
Create(t) ==
  /\ main = "creating" /\ t \in workers /\ pc[t] = "unborn"
  /\ Goto(t, "loop")
  /\ UNCHANGED <<fixed, owner, shared, main, history>>

\* The end of the creation loop; sleep(15) follows.
AllCreated ==
  /\ main = "creating" /\ \A t \in workers : pc[t] # "unborn"
  /\ main' = "sleeping"
  /\ UNCHANGED <<fixed, owner, shared, pc, history>>

SetDone ==
  /\ main = "sleeping" /\ main' = "joining"
  /\ done' = TRUE
  /\ UNCHANGED <<fixed, owner, var1, var2, var3, pc, history>>

\* The loop of pthread_join calls returns once all the threads have.
JoinAll ==
  /\ main = "joining" /\ \A t \in workers : pc[t] = "returned"
  /\ main' = "report"
  /\ UNCHANGED <<fixed, owner, shared, pc, history>>

\* The final printf and main's return, or exit(EXIT_FAILURE) anywhere.
Exit ==
  /\ Running /\ main' = "exited"
  /\ UNCHANGED <<fixed, owner, shared, pc, history>>

-----------------------------------------------------------------------------
(* update_thread *)

Lock(t, from, to) ==
  /\ At(t, from) /\ Goto(t, to)
  /\ owner = NoThread /\ owner' = t
  /\ UNCHANGED <<shared, main, history>>

Unlock(t, from, to) ==
  /\ At(t, from) /\ Goto(t, to)
  /\ owner = t /\ owner' = NoThread
  /\ UNCHANGED <<shared, main>>

BeginLoop(t) ==
  /\ At(t, "loop") /\ ~done
  /\ loops < MaxLoops /\ loops' = loops + 1
  /\ Goto(t, IF mutexed THEN "lock_check" ELSE "check")
  /\ UNCHANGED <<owner, shared, main, updates, announced, repaired>>

Return(t) ==
  /\ At(t, "loop") /\ done
  /\ Goto(t, "returned")
  /\ UNCHANGED <<owner, shared, main, history>>

LockCheck(t) == Lock(t, "lock_check", "check")

\* if (var1 != var2) var1 = var2;
Check(t) ==
  /\ At(t, "check") /\ Goto(t, IF mutexed THEN "unlock_check" ELSE "work")
  /\ repaired' = (repaired \/ var1 # var2)
  /\ var1' = var2
  /\ UNCHANGED <<owner, var2, var3, done, main, loops, updates, announced>>

UnlockCheck(t) == Unlock(t, "unlock_check", "work") /\ UNCHANGED history

\* Fault: var3++ in place of the atomic addition: of two additions one can be
\* lost.
WorkNotAtomic(t) ==
  /\ mutexed
  /\ At(t, "work") /\ Goto(t, "lock_update")
  /\ var3' \in {var3, Plus(var3, 1)}
  /\ announced' = announced + (IF var3 % WorkPeriod = 0 THEN 1 ELSE 0)
  /\ UNCHANGED <<owner, var1, var2, done, main, loops, updates, repaired>>

\* do_work: atomic_add_value returns the value before the addition
Work(t) ==
  /\ mutexed
  /\ At(t, "work") /\ Goto(t, "lock_update")
  /\ var3' = Plus(var3, 1)
  /\ announced' = announced + (IF var3 % WorkPeriod = 0 THEN 1 ELSE 0)
  /\ UNCHANGED <<owner, var1, var2, done, main, loops, updates, repaired>>

\* nomutex.c's do_work looks at var3 after the addition, and the update
\* follows without a lock.
WorkNoMutex(t) ==
  /\ ~mutexed
  /\ At(t, "work") /\ Goto(t, "var1_add")
  /\ var3' = Plus(var3, 1)
  /\ announced' = announced + (IF var3' % WorkPeriod = 0 THEN 1 ELSE 0)
  /\ UNCHANGED <<owner, var1, var2, done, main, loops, updates, repaired>>

\* Fault: the update runs without the mutex, as in nomutex.c.
LockUpdateForgotten(t) ==
  /\ At(t, "lock_update") /\ Goto(t, "var1_add")
  /\ UNCHANGED <<owner, shared, main, history>>

LockUpdate(t) == Lock(t, "lock_update", "var1_add")

\* var1 += 2;
AddVar1(t) ==
  /\ At(t, "var1_add") /\ Goto(t, "var1_dec")
  /\ var1' = Plus(var1, 2)
  /\ UNCHANGED <<owner, var2, var3, done, main, history>>

\* var1--;
DecVar1(t) ==
  /\ At(t, "var1_dec") /\ Goto(t, "var2_add")
  /\ var1' = Plus(var1, Modulus - 1)
  /\ UNCHANGED <<owner, var2, var3, done, main, history>>

\* var2 += 2;
AddVar2(t) ==
  /\ At(t, "var2_add") /\ Goto(t, "var2_dec")
  /\ var2' = Plus(var2, 2)
  /\ UNCHANGED <<owner, var1, var3, done, main, history>>

\* Fault: var2-- is missing.
DecVar2Forgotten(t) ==
  /\ mutexed
  /\ At(t, "var2_dec") /\ Goto(t, "unlock_update")
  /\ UNCHANGED <<owner, shared, main, history>>

\* var2--;
DecVar2(t) ==
  /\ mutexed
  /\ At(t, "var2_dec") /\ Goto(t, "unlock_update")
  /\ var2' = Plus(var2, Modulus - 1)
  /\ UNCHANGED <<owner, var1, var3, done, main, history>>

Updated ==
  /\ updates' = updates + 1
  /\ UNCHANGED <<loops, announced, repaired>>

\* nomutex.c: the update ends with var2--.
DecVar2NoMutex(t) ==
  /\ ~mutexed
  /\ At(t, "var2_dec") /\ Goto(t, "loop")
  /\ var2' = Plus(var2, Modulus - 1)
  /\ Updated
  /\ UNCHANGED <<owner, var1, var3, done, main>>

\* Fault: the mutex is not released after the update.
UnlockUpdateForgotten(t) ==
  /\ At(t, "unlock_update") /\ Goto(t, "loop")
  /\ Updated
  /\ UNCHANGED <<owner, shared, main>>

UnlockUpdate(t) == Unlock(t, "unlock_update", "loop") /\ Updated

-----------------------------------------------------------------------------
Step(t) ==
  \/ BeginLoop(t) \/ Return(t) \/ LockCheck(t) \/ Check(t) \/ UnlockCheck(t)
  \/ Work(t) \/ WorkNoMutex(t) \/ LockUpdate(t)
  \/ AddVar1(t) \/ DecVar1(t) \/ AddVar2(t) \/ DecVar2(t)
  \/ DecVar2NoMutex(t) \/ UnlockUpdate(t)

Next ==
  \/ AllCreated \/ SetDone \/ JoinAll \/ Exit
  \/ \E t \in Threads : Create(t) \/ Step(t)

Spec == Init /\ [][Next]_vars

(***************************************************************************)
(* main's sleep ends and a thread that can run is scheduled (the threads   *)
(* run round robin, at a priority of their own); one that keeps asking for *)
(* the mutex gets it.                                                      *)
(***************************************************************************)
Fairness ==
  /\ WF_vars(\E t \in Threads : Create(t)) /\ WF_vars(AllCreated)
  /\ WF_vars(SetDone) /\ WF_vars(JoinAll)
  /\ \A t \in Threads :
       WF_vars(Step(t)) /\ SF_vars(LockCheck(t)) /\ SF_vars(LockUpdate(t))

FairSpec == Spec /\ Fairness

-----------------------------------------------------------------------------
(* Properties *)

Unsigned == 0 .. Modulus - 1

TypeOK ==
  /\ workers \in SUBSET Threads /\ mutexed \in BOOLEAN
  /\ owner \in Threads \cup {NoThread}
  /\ var1 \in Unsigned /\ var2 \in Unsigned /\ var3 \in Unsigned
  /\ done \in BOOLEAN /\ repaired \in BOOLEAN
  /\ pc \in [Threads -> {"unborn", "loop", "lock_check", "check",
                         "unlock_check", "work", "lock_update", "var1_add",
                         "var1_dec", "var2_add", "var2_dec", "unlock_update",
                         "returned"}]
  /\ main \in {"creating", "sleeping", "joining", "report", "exited"}
  /\ loops \in 0 .. MaxLoops
  /\ updates \in Nat /\ announced \in Nat

\* No thread is between its first and its last write of an update.
Quiet ==
  \A t \in workers : pc[t] \notin {"var1_dec", "var2_add", "var2_dec"}

\* mutex_sync.c:158-165: with no update on its way var1 equals var2, and no
\* thread ever finds them different: the mutex sees to it, or that there is
\* one thread only.
VarsAgree ==
  /\ (owner = NoThread /\ Quiet) => var1 = var2
  /\ ~repaired

\* No update is lost: with no update on its way the variables count the
\* updates, in unsigned arithmetic; and what main prints (mutex_sync.c:149)
\* counts every loop that was begun, so that no thread is still on its way to
\* an update.
CountsUpdates ==
  /\ (owner = NoThread /\ Quiet) => var1 = updates % Modulus
  /\ main = "report" => owner = NoThread /\ updates = loops

\* mutex_sync.c:176-178: with the atomic addition (or one thread) no message is
\* skipped, one for every WorkPeriod-th piece of work (below the wrap of var3).
Works == Cardinality({t \in Threads : pc[t] \in
           {"lock_update", "var1_add", "var1_dec", "var2_add", "var2_dec",
            "unlock_update"}}) + updates

EveryPeriodAnnounced == Works < Modulus => announced = Works \div WorkPeriod

\* Once done is set main gets to its report, or the process ends early.
JoinReturns == done ~> (main \in {"report", "exited"})
=============================================================================
