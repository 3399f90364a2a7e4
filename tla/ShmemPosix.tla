----------------------------- MODULE ShmemPosix -----------------------------
(***************************************************************************)
(* ipc/shmem_posix_creator.c and ipc/shmem_posix_user.c: a creator makes a *)
(* shared memory object under a name, initialises a process-shared mutex   *)
(* and condvar in it, sets init_flag and then updates the data once a      *)
(* second, broadcasting after the unlock.  Users open the object by name,  *)
(* wait for init_flag with bounded retries, and wait on the condvar for    *)
(* versions they have not seen.  All processes are given the same name.    *)
(*                                                                         *)
(* A creator makes at most one object, so the object carries the creator's *)
(* name; unlinking removes the name, not the object its users have mapped. *)
(* Every call of the creator's setup can fail.  The calls on the mutex and *)
(* the condvar fail only for objects that are not initialised; that users  *)
(* never touch such an object is the invariant FoundIsUsable, and their    *)
(* error exits are left out.  Memory is sequentially consistent.           *)
(*                                                                         *)
(* Any process may be killed anywhere, also with the mutex locked: it is   *)
(* process-shared but not robust, so that nobody gets it after that.       *)
(***************************************************************************)
EXTENDS Integers, FiniteSets

CONSTANTS
  Creators, Users,   \* the processes
  None,              \* no object, no process
  NumRetries,        \* get_shared_memory_pointer's num_retries (100)
  MaxVersion,        \* bound: updates of one creator
  MaxKilled          \* bound: processes that are killed

ASSUME ShmemPosixAssumption ==
  /\ None \notin Creators \cup Users /\ Creators \cap Users = {}
  /\ NumRetries \in Nat /\ MaxVersion \in Nat /\ MaxKilled \in Nat
  /\ IsFiniteSet(Creators) /\ IsFiniteSet(Users)

VARIABLES
  name,          \* the object that the name refers to
  \* the objects, each under its creator: shmem_t, and what the kernel knows
  sized, mutex_ready, cond_ready, init_flag,   \* what is set up
  data_version, text,                          \* the data
  owner, waiters,                              \* the mutex and the condvar
  cpc,           \* where each creator is
  upc,           \* where each user is
  tries,         \* tries of the user's current retry loop
  mapped,        \* the object the user has opened
  last_version,  \* the version the user has seen
  local_copy     \* local_data_copy; the text is the version it was made from

ready == <<sized, mutex_ready, cond_ready, init_flag>>
data == <<data_version, text>>
sync == <<owner, waiters>>
objects == <<ready, data, sync>>
userLocals == <<tries, mapped, last_version, local_copy>>
vars == <<name, objects, cpc, upc, userLocals>>

\* Memory of a new object is zero.
NewObjects ==
  /\ sized = [c \in Creators |-> FALSE]
  /\ mutex_ready = [c \in Creators |-> FALSE]
  /\ cond_ready = [c \in Creators |-> FALSE]
  /\ init_flag = [c \in Creators |-> FALSE]
  /\ data_version = [c \in Creators |-> 0]
  /\ text = [c \in Creators |-> 0]
  /\ owner = [c \in Creators |-> None]
  /\ waiters = [c \in Creators |-> {}]

Init ==
  /\ name = None
  /\ NewObjects
  /\ cpc = [c \in Creators |-> "shm_open"]
  /\ upc = [u \in Users |-> "shm_open"]
  /\ tries = [u \in Users |-> 0]
  /\ mapped = [u \in Users |-> None]
  /\ last_version = [u \in Users |-> 0]
  /\ local_copy = [u \in Users |-> 0]

-----------------------------------------------------------------------------
(* the creator *)

CreatorStep(c, from, to) ==
  /\ cpc[c] = from /\ cpc' = [cpc EXCEPT ![c] = to]
  /\ UNCHANGED <<upc, userLocals>>

\* shm_open with O_CREAT | O_EXCL
ShmOpen(c) ==
  /\ CreatorStep(c, "shm_open", "ftruncate")
  /\ name = None /\ name' = c
  /\ UNCHANGED objects

Ftruncate(c) ==
  /\ CreatorStep(c, "ftruncate", "mmap")
  /\ sized' = [sized EXCEPT ![c] = TRUE]
  /\ UNCHANGED <<name, mutex_ready, cond_ready, init_flag, data, sync>>

Mmap(c) == CreatorStep(c, "mmap", "mutex_init") /\ UNCHANGED <<name, objects>>

\* Fault: the object is declared usable before it is set up.
MutexInitAfterFlag(c) ==
  /\ CreatorStep(c, "mutex_init", "cond_init")
  /\ mutex_ready' = [mutex_ready EXCEPT ![c] = TRUE]
  /\ init_flag' = [init_flag EXCEPT ![c] = TRUE]
  /\ UNCHANGED <<name, sized, cond_ready, data, sync>>

MutexInit(c) ==
  /\ CreatorStep(c, "mutex_init", "cond_init")
  /\ mutex_ready' = [mutex_ready EXCEPT ![c] = TRUE]
  /\ UNCHANGED <<name, sized, cond_ready, init_flag, data, sync>>

CondInit(c) ==
  /\ CreatorStep(c, "cond_init", "set_flag")
  /\ cond_ready' = [cond_ready EXCEPT ![c] = TRUE]
  /\ UNCHANGED <<name, sized, mutex_ready, init_flag, data, sync>>

SetInitFlag(c) ==
  /\ CreatorStep(c, "set_flag", "lock")
  /\ init_flag' = [init_flag EXCEPT ![c] = TRUE]
  /\ UNCHANGED <<name, sized, mutex_ready, cond_ready, data, sync>>

SetupLabels == {"shm_open", "ftruncate", "mmap", "mutex_init", "cond_init"}

\* Fault: the creator exits and leaves the name.
ExitWithoutUnlink(c) ==
  /\ \E from \in SetupLabels : CreatorStep(c, from, "exited")
  /\ UNCHANGED <<name, objects>>

\* A call of the setup fails, shm_open for one because the name is in use:
\* unlink_and_exit removes the name, whoever made the object.
UnlinkAndExit(c) ==
  /\ \E from \in SetupLabels : CreatorStep(c, from, "exited")
  /\ name' = None
  /\ UNCHANGED objects

\* sleep(1) and pthread_mutex_lock
LockForUpdate(c) ==
  /\ CreatorStep(c, "lock", "version")
  /\ owner[c] = None /\ data_version[c] < MaxVersion
  /\ owner' = [owner EXCEPT ![c] = c]
  /\ UNCHANGED <<name, ready, data, waiters>>

NewVersion(c) ==
  /\ CreatorStep(c, "version", "text")
  /\ data_version' = [data_version EXCEPT ![c] = @ + 1]
  /\ UNCHANGED <<name, ready, text, sync>>

NewText(c) ==
  /\ CreatorStep(c, "text", "unlock")
  /\ text' = [text EXCEPT ![c] = data_version[c]]
  /\ UNCHANGED <<name, ready, data_version, sync>>

UnlockUpdate(c) ==
  /\ CreatorStep(c, "unlock", "broadcast")
  /\ owner' = [owner EXCEPT ![c] = None]
  /\ UNCHANGED <<name, ready, data, waiters>>

\* Fault: pthread_cond_signal.
SignalOneUser(c) ==
  /\ CreatorStep(c, "broadcast", "lock")
  /\ IF waiters[c] = {}
       THEN UNCHANGED waiters
       ELSE \E u \in waiters[c] :
              waiters' = [waiters EXCEPT ![c] = @ \ {u}]
  /\ UNCHANGED <<name, ready, data, owner>>

Broadcast(c) ==
  /\ CreatorStep(c, "broadcast", "lock")
  /\ waiters' = [waiters EXCEPT ![c] = {}]
  /\ UNCHANGED <<name, ready, data, owner>>

-----------------------------------------------------------------------------
(* the user *)

UserStep(u, from, to) ==
  /\ upc[u] = from /\ upc' = [upc EXCEPT ![u] = to]
  /\ UNCHANGED <<name, cpc>>

\* Fault: a try more than num_retries allows.
RetryOnceMore(u, loop) ==
  /\ tries' = [tries EXCEPT ![u] = @ + 1]
  /\ UserStep(u, loop, IF tries'[u] > NumRetries + 1 THEN "gave_up" ELSE loop)
  /\ UNCHANGED <<objects, mapped, last_version, local_copy>>

\* A loop of get_shared_memory_pointer goes round again or gives up.
Retry(u, loop) ==
  /\ tries' = [tries EXCEPT ![u] = @ + 1]
  /\ UserStep(u, loop, IF tries'[u] > NumRetries THEN "gave_up" ELSE loop)
  /\ UNCHANGED <<objects, mapped, last_version, local_copy>>

OpenByName(u) ==
  /\ UserStep(u, "shm_open", "mmap")
  /\ name # None
  /\ mapped' = [mapped EXCEPT ![u] = name]
  /\ tries' = [tries EXCEPT ![u] = 0]
  /\ UNCHANGED <<objects, last_version, local_copy>>

\* shm_open fails: no such name, or any other cause.
OpenRetry(u) == Retry(u, "shm_open")

\* mmap needs the object to have been sized.
MapObject(u) ==
  /\ UserStep(u, "mmap", "init_flag")
  /\ sized[mapped[u]]
  /\ tries' = [tries EXCEPT ![u] = 0]
  /\ UNCHANGED <<objects, mapped, last_version, local_copy>>

\* mmap fails: not sized yet, or any other cause.
MapRetry(u) == Retry(u, "mmap")

FlagSeen(u) ==
  /\ UserStep(u, "init_flag", "lock")
  /\ init_flag[mapped[u]]
  /\ UNCHANGED <<objects, userLocals>>

FlagRetry(u) ==
  /\ upc[u] = "init_flag" /\ ~init_flag[mapped[u]]
  /\ Retry(u, "init_flag")

UserAcquires(u, from) ==
  /\ UserStep(u, from, "test")
  /\ owner[mapped[u]] = None
  /\ owner' = [owner EXCEPT ![mapped[u]] = u]
  /\ UNCHANGED <<ready, data, waiters, userLocals>>

UserLock(u) == UserAcquires(u, "lock")

\* while (last_version == ptr->data_version) pthread_cond_wait(...)
UserWait(u) ==
  /\ UserStep(u, "test", "waiting")
  /\ last_version[u] = data_version[mapped[u]]
  /\ owner' = [owner EXCEPT ![mapped[u]] = None]
  /\ waiters' = [waiters EXCEPT ![mapped[u]] = @ \cup {u}]
  /\ UNCHANGED <<ready, data, userLocals>>

UserWakes(u) ==
  /\ upc[u] = "waiting" /\ u \notin waiters[mapped[u]]
  /\ UserAcquires(u, "waiting")

UserSpurious(u) ==
  /\ upc[u] = "waiting" /\ u \in waiters[mapped[u]]
  /\ waiters' = [waiters EXCEPT ![mapped[u]] = @ \ {u}]
  /\ UNCHANGED <<name, ready, data, owner, cpc, upc, userLocals>>

\* Fault: the mutex is released before the text is copied.
UserTakesVersionUnlocks(u) ==
  /\ UserStep(u, "test", "copy")
  /\ last_version[u] # data_version[mapped[u]]
  /\ last_version' = [last_version EXCEPT ![u] = data_version[mapped[u]]]
  /\ owner' = [owner EXCEPT ![mapped[u]] = None]
  /\ UNCHANGED <<ready, data, waiters, tries, mapped, local_copy>>

\* last_version = ptr->data_version
UserTakesVersion(u) ==
  /\ UserStep(u, "test", "copy")
  /\ last_version[u] # data_version[mapped[u]]
  /\ last_version' = [last_version EXCEPT ![u] = data_version[mapped[u]]]
  /\ UNCHANGED <<objects, tries, mapped, local_copy>>

\* strlcpy(local_data_copy, ptr->text, ...)
UserCopies(u) ==
  /\ UserStep(u, "copy", "unlock")
  /\ local_copy' = [local_copy EXCEPT ![u] = text[mapped[u]]]
  /\ UNCHANGED <<objects, tries, mapped, last_version>>

UserUnlock(u) ==
  /\ UserStep(u, "unlock", "lock")
  /\ owner' = [owner EXCEPT ![mapped[u]] = None]
  /\ UNCHANGED <<ready, data, waiters, userLocals>>

-----------------------------------------------------------------------------
(* kills *)

Killed == {c \in Creators : cpc[c] = "killed"} \cup
          {u \in Users : upc[u] = "killed"}

\* Fault: the kernel treats the mutex as if it were robust and hands it on.
KillReleases(c) ==
  /\ Cardinality(Killed) < MaxKilled
  /\ cpc[c] \notin {"shm_open", "exited", "killed"}
  /\ cpc' = [cpc EXCEPT ![c] = "killed"]
  /\ owner' = [owner EXCEPT ![c] = IF @ = c THEN None ELSE @]
  /\ UNCHANGED <<name, ready, data, waiters, upc, userLocals>>

\* The name, the object and the locked mutex stay.
KillCreator(c) ==
  /\ Cardinality(Killed) < MaxKilled
  /\ cpc[c] \notin {"shm_open", "exited", "killed"}
  /\ cpc' = [cpc EXCEPT ![c] = "killed"]
  /\ UNCHANGED <<name, objects, upc, userLocals>>

\* A dead user has no locals and no longer waits on the condvar.
KillUser(u) ==
  /\ Cardinality(Killed) < MaxKilled
  /\ upc[u] \notin {"shm_open", "gave_up", "killed"}
  /\ upc' = [upc EXCEPT ![u] = "killed"]
  /\ waiters' = [waiters EXCEPT ![mapped[u]] = @ \ {u}]
  /\ tries' = [tries EXCEPT ![u] = 0]
  /\ mapped' = [mapped EXCEPT ![u] = None]
  /\ last_version' = [last_version EXCEPT ![u] = 0]
  /\ local_copy' = [local_copy EXCEPT ![u] = 0]
  /\ UNCHANGED <<name, ready, data, owner, cpc>>

-----------------------------------------------------------------------------
Setup(c) ==
  \/ ShmOpen(c) \/ Ftruncate(c) \/ Mmap(c) \/ MutexInit(c) \/ CondInit(c)
  \/ SetInitFlag(c) \/ UnlinkAndExit(c)

Update(c) ==
  \/ LockForUpdate(c) \/ NewVersion(c) \/ NewText(c) \/ UnlockUpdate(c)
  \/ Broadcast(c)

User(u) ==
  \/ OpenByName(u) \/ OpenRetry(u) \/ MapObject(u) \/ MapRetry(u)
  \/ FlagSeen(u) \/ FlagRetry(u)
  \/ UserLock(u) \/ UserWait(u) \/ UserWakes(u) \/ UserTakesVersion(u)
  \/ UserCopies(u) \/ UserUnlock(u)

Next ==
  \/ \E c \in Creators : Setup(c) \/ Update(c) \/ KillCreator(c)
  \/ \E u \in Users : User(u) \/ UserSpurious(u) \/ KillUser(u)

Spec == Init /\ [][Next]_vars

(***************************************************************************)
(* A creator may be started late or never, so its setup is not fair.  Once *)
(* in its loop it goes on (sleep(1) ends), and so does a user; a process   *)
(* that keeps asking for the mutex gets it.                                *)
(***************************************************************************)
Fairness ==
  /\ \A c \in Creators : WF_vars(Update(c)) /\ SF_vars(LockForUpdate(c))
  /\ \A u \in Users : WF_vars(User(u)) /\ SF_vars(UserLock(u))
                      /\ SF_vars(UserWakes(u))

FairSpec == Spec /\ Fairness

-----------------------------------------------------------------------------
(* Properties *)

Attached == {"lock", "test", "waiting", "copy", "unlock"}

TypeOK ==
  /\ name \in Creators \cup {None}
  /\ sized \in [Creators -> BOOLEAN]
  /\ mutex_ready \in [Creators -> BOOLEAN]
  /\ cond_ready \in [Creators -> BOOLEAN]
  /\ init_flag \in [Creators -> BOOLEAN]
  /\ data_version \in [Creators -> 0 .. MaxVersion]
  /\ text \in [Creators -> 0 .. MaxVersion]
  /\ owner \in [Creators -> Creators \cup Users \cup {None}]
  /\ waiters \in [Creators -> SUBSET Users]
  /\ cpc \in [Creators -> SetupLabels \cup
       {"set_flag", "lock", "version", "text", "unlock", "broadcast", "exited",
        "killed"}]
  /\ upc \in [Users -> Attached \cup
       {"shm_open", "mmap", "init_flag", "gave_up", "killed"}]
  /\ tries \in [Users -> 0 .. NumRetries + 1]
  /\ mapped \in [Users -> Creators \cup {None}]
  /\ last_version \in [Users -> 0 .. MaxVersion]
  /\ local_copy \in [Users -> 0 .. MaxVersion]

\* What can be found is fit for use or going to be: no user locks the mutex or
\* waits on the condvar of an object that its creator has not finished setting
\* up, even one that was killed in the middle of it; and a creator that has
\* failed leaves no name behind (shmem_posix_creator.c:36), as far as it goes.
FoundIsUsable ==
  /\ \A u \in Users : upc[u] \in Attached =>
       mutex_ready[mapped[u]] /\ cond_ready[mapped[u]]
  /\ name # None => cpc[name] # "exited"

\* The text a user has copied is the text of the version it has noted, also when
\* a creator was killed with half an update done.
NoTornRead ==
  \A u \in Users : upc[u] # "copy" => local_copy[u] = last_version[u]

\* The other side of that comment: what is removed is "our object".  The name
\* of an object whose creator goes on is not taken away.
NameOutlivesOthers ==
  [][name # None /\ name' # name => cpc'[name] = "exited"]_vars

\* What a kill can cost the others: the one who would have woken them, or the
\* mutex.
Lost == {o \in Creators : cpc[o] = "killed" \/ owner[o] \in Killed}

\* A user that has not seen the version in its object gets to see it, or a
\* later one that is the current one then, unless the object is lost.
UpToDate(u) ==
  upc[u] \in Attached /\ last_version[u] = data_version[mapped[u]]

UserCatchesUp ==
  \A u \in Users :
    (upc[u] \in Attached) ~> (UpToDate(u) \/ upc[u] = "killed" \/ mapped[u] \in Lost)
=============================================================================
