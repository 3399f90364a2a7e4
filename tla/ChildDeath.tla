----------------------------- MODULE ChildDeath -----------------------------
(***************************************************************************)
(* Two parents that wait for the death of their child, side by side:       *)
(* proc_thread/spawn_example.c (SIGCHLD masked, sigwaitinfo, then wait)    *)
(* and ipc/shmem_mutex_recovery.c (the child dies with a robust mutex      *)
(* locked, the parent makes it consistent).  A child may die, and any      *)
(* process be killed, at any time.  The process manager and the mutex are  *)
(* external: what they do is what the two programs rely on.                *)
(***************************************************************************)

CONSTANT KillParents   \* whether somebody kills the parents too

VARIABLES
  spc,           \* spawn_example's parent; the last places are how it ended
  sigchld_masked,
  sigfunc_set,   \* signal(SIGCHLD, sigfunc) has been called
  pending,       \* SIGCHLD is pending
  sleeper,       \* its child: "unborn", "alive", "zombie" or "gone"
  rpc,           \* shmem_mutex_recovery's parent, likewise
  cpc,           \* its child: "unborn", "lock", "exit", or how it died
  tstatus,       \* what waitpid said of it
  mtx            \* the mutex in the shared memory

spawn == <<spc, sigchld_masked, sigfunc_set, pending, sleeper>>
recovery == <<rpc, cpc, tstatus, mtx>>
vars == <<spawn, recovery>>

Ended == {"exited", "failed", "killed"}

Init ==
  /\ spc = "mask"
  /\ sigchld_masked = FALSE /\ sigfunc_set = FALSE /\ pending = FALSE
  /\ sleeper = "unborn"
  /\ rpc = "map" /\ cpc = "unborn" /\ tstatus = "unset" /\ mtx = "none"

-----------------------------------------------------------------------------
(* spawn_example *)

SpawnStep(from, to) == spc = from /\ spc' = to /\ UNCHANGED recovery

\* Fault: SIGCHLD is not masked.
MaskForgotten ==
  SpawnStep("mask", "signal")
    /\ UNCHANGED <<sigchld_masked, sigfunc_set, pending, sleeper>>

\* sigemptyset, sigaddset, pthread_sigmask
MaskSigchld ==
  /\ SpawnStep("mask", "signal")
  /\ sigchld_masked' = TRUE
  /\ UNCHANGED <<sigfunc_set, pending, sleeper>>

\* signal(SIGCHLD, sigfunc)
AttachHandler ==
  /\ SpawnStep("signal", "spawn")
  /\ sigfunc_set' = TRUE
  /\ UNCHANGED <<sigchld_masked, pending, sleeper>>

PosixSpawn ==
  /\ SpawnStep("spawn", "sigwait")
  /\ sleeper' = "alive"
  /\ UNCHANGED <<sigchld_masked, sigfunc_set, pending>>

\* Fault: the return value of sigwaitinfo is not looked at, and another signal
\* has interrupted it.
SigwaitReturnsEarly ==
  /\ SpawnStep("sigwait", "report")
  /\ UNCHANGED <<sigchld_masked, sigfunc_set, pending, sleeper>>

\* sigwaitinfo
Sigwait ==
  /\ SpawnStep("sigwait", "report")
  /\ pending /\ pending' = FALSE
  /\ UNCHANGED <<sigchld_masked, sigfunc_set, sleeper>>

\* "pidin should now show it as a zombie", and sleep(30)
ReportZombie ==
  /\ SpawnStep("report", "wait")
  /\ UNCHANGED <<sigchld_masked, sigfunc_set, pending, sleeper>>

\* wait cleans up the zombie.
Wait ==
  /\ SpawnStep("wait", "exited")
  /\ sleeper = "zombie" /\ sleeper' = "gone"
  /\ UNCHANGED <<sigchld_masked, sigfunc_set, pending>>

\* The child sleeps 30 seconds, or less.  Its parent gets SIGCHLD: discarded
\* without a handler, pending if masked, handled at once otherwise.
SleeperDies ==
  /\ sleeper = "alive"
  /\ sleeper' = IF spc \in Ended THEN "gone" ELSE "zombie"
  /\ pending' = (sigfunc_set /\ sigchld_masked /\ spc \notin Ended)
  /\ UNCHANGED <<spc, sigchld_masked, sigfunc_set, recovery>>

\* The process manager takes over a dead parent's zombie.
SpawnParentEnds(how) ==
  /\ spc' = how /\ pending' = FALSE
  /\ sleeper' = IF sleeper = "zombie" THEN "gone" ELSE sleeper
  /\ UNCHANGED <<sigchld_masked, sigfunc_set, recovery>>

\* One of its calls fails.
SpawnParentFails ==
  /\ spc \in {"mask", "signal", "spawn", "sigwait", "wait"}
  /\ SpawnParentEnds("failed")

SpawnParentKilled ==
  /\ KillParents /\ spc \notin Ended
  /\ SpawnParentEnds("killed")

-----------------------------------------------------------------------------
(* shmem_mutex_recovery *)

RecoveryStep(from, to) == rpc = from /\ rpc' = to /\ UNCHANGED spawn

\* shm_open, ftruncate, mmap, close
MapShared ==
  /\ RecoveryStep("map", "mutex_init")
  /\ UNCHANGED <<cpc, tstatus, mtx>>

\* The mutex is robust and process-shared.
MutexInit ==
  /\ RecoveryStep("mutex_init", "fork")
  /\ mtx' = "free"
  /\ UNCHANGED <<cpc, tstatus>>

Fork ==
  /\ RecoveryStep("fork", "waitpid")
  /\ cpc' = "lock"
  /\ UNCHANGED <<tstatus, mtx>>

\* "we're the child, lock mutex and exit"
ChildLocks ==
  /\ cpc = "lock" /\ cpc' = "exit"
  /\ mtx = "free" /\ mtx' = "child"
  /\ UNCHANGED <<spawn, rpc, tstatus>>

\* The kernel marks a robust mutex whose owner dies.
ChildDies(how) ==
  /\ IF how = "success" THEN cpc = "exit" ELSE cpc \in {"lock", "exit"}
  /\ cpc' = how
  /\ mtx' = IF mtx = "child" THEN "owner_dead" ELSE mtx
  /\ UNCHANGED <<spawn, rpc, tstatus>>

Dead == {"success", "signalled"}

\* Fault: waitpid with WNOHANG, whose 0 is taken for a status.
WaitpidNoHang ==
  /\ RecoveryStep("waitpid", "lock")
  /\ tstatus' = cpc
  /\ UNCHANGED <<cpc, mtx>>

\* waitpid, WIFEXITED and WEXITSTATUS
Waitpid ==
  /\ cpc \in Dead /\ tstatus' = cpc
  /\ RecoveryStep("waitpid", IF cpc = "success" THEN "lock" ELSE "exited")
  /\ UNCHANGED <<cpc, mtx>>

\* pthread_mutex_lock returns EOWNERDEAD, and the parent has the lock
LockRobust ==
  /\ RecoveryStep("lock", "consistent")
  /\ mtx = "owner_dead" /\ mtx' = "inconsistent"
  /\ UNCHANGED <<cpc, tstatus>>

\* Fault: pthread_mutex_consistent is left out.
ConsistentForgotten ==
  /\ RecoveryStep("consistent", "unlock")
  /\ UNCHANGED <<cpc, tstatus, mtx>>

MutexConsistent ==
  /\ RecoveryStep("consistent", "unlock")
  /\ mtx' = "parent"
  /\ UNCHANGED <<cpc, tstatus>>

\* An unlock of an inconsistent mutex makes it unusable.
Unlock ==
  /\ RecoveryStep("unlock", "exited")
  /\ mtx' = IF mtx = "parent" THEN "free" ELSE "not_recoverable"
  /\ UNCHANGED <<cpc, tstatus>>

RecoveryParentEnds(how) ==
  /\ rpc' = how
  /\ mtx' = IF mtx \in {"parent", "inconsistent"} THEN "owner_dead" ELSE mtx
  /\ UNCHANGED <<spawn, cpc, tstatus>>

\* One of its calls fails; pthread_mutex_consistent and pthread_mutex_unlock
\* leave it the owner of the mutex, which dies with it.
RecoveryParentFails ==
  /\ rpc \in {"map", "mutex_init", "fork", "waitpid", "consistent", "unlock"}
  /\ RecoveryParentEnds("failed")

RecoveryParentKilled ==
  /\ KillParents /\ rpc \notin Ended
  /\ RecoveryParentEnds("killed")

-----------------------------------------------------------------------------
SpawnParent ==
  MaskSigchld \/ AttachHandler \/ PosixSpawn \/ Sigwait \/ ReportZombie \/ Wait

RecoveryParent ==
  MapShared \/ MutexInit \/ Fork \/ Waitpid \/ LockRobust \/ MutexConsistent
    \/ Unlock

RecoveryChild == ChildLocks \/ \E how \in Dead : ChildDies(how)

Next ==
  \/ SpawnParent \/ SleeperDies \/ SpawnParentFails \/ SpawnParentKilled
  \/ RecoveryParent \/ RecoveryChild \/ RecoveryParentFails \/ RecoveryParentKilled

Spec == Init /\ [][Next]_vars

(***************************************************************************)
(* Every process is scheduled, and the child that sleeps wakes up and ends *)
(* some time.  Nobody has to be killed, and no call has to fail.           *)
(***************************************************************************)
Fairness ==
  /\ WF_vars(SpawnParent) /\ WF_vars(SleeperDies)
  /\ WF_vars(RecoveryParent) /\ WF_vars(RecoveryChild)

FairSpec == Spec /\ Fairness

-----------------------------------------------------------------------------
(* Properties *)

TypeOK ==
  /\ spc \in {"mask", "signal", "spawn", "sigwait", "report", "wait"} \cup Ended
  /\ sigchld_masked \in BOOLEAN /\ sigfunc_set \in BOOLEAN
  /\ pending \in BOOLEAN
  /\ sleeper \in {"unborn", "alive", "zombie", "gone"}
  /\ rpc \in {"map", "mutex_init", "fork", "waitpid", "lock", "consistent",
              "unlock"} \cup Ended
  /\ cpc \in {"unborn", "lock", "exit"} \cup Dead
  /\ tstatus \in {"unset"} \cup Dead
  /\ mtx \in {"none", "free", "child", "owner_dead", "inconsistent", "parent",
              "not_recoverable"}

\* "Child has died, pidin should now show it as a zombie": when that is
\* printed it is so, whenever the child died.
ZombieAsReported == spc = "report" => sleeper = "zombie"

\* When the recovering parent is through after its child's death with the
\* mutex locked, the mutex is free and fit for use; wherever the parent fails or
\* is killed, the mutex can still be recovered: the next to lock it finds a dead
\* owner, or takes it as it is.
MutexRecovered ==
  /\ rpc = "exited" /\ tstatus = "success" => mtx = "free"
  /\ rpc \in Ended => mtx \in {"none", "free", "child", "owner_dead"}

\* Neither parent waits for ever, however early its child dies: the signal is
\* not lost before sigwaitinfo, and the lock of the dead is granted.
ParentsGetThrough ==
  /\ (spc = "sigwait") ~> (spc \in Ended)
  /\ (rpc = "waitpid") ~> (rpc \in Ended)
=============================================================================
