-------------------------- MODULE ShmemPosix_proof --------------------------
(***************************************************************************)
(* Proofs about ShmemPosix, for any number of creators, users, retries,    *)
(* updates and kills.                                                      *)
(***************************************************************************)
EXTENDS ShmemPosix, TLAPS

\* The bounds have not been reached where they are still to be counted up to.
BoundsAhead ==
  /\ \A c \in Creators : cpc[c] = "version" => data_version[c] < MaxVersion
  /\ \A u \in Users : upc[u] \in {"shm_open", "mmap", "init_flag"} =>
       tries[u] <= NumRetries

\* init_flag says that the mutex and the condvar are ready, because the
\* creator sets it after both.
SetUpOrder ==
  \A c \in Creators :
    /\ cpc[c] \in {"cond_init", "set_flag"} => mutex_ready[c]
    /\ cpc[c] = "set_flag" => cond_ready[c]
    /\ init_flag[c] => mutex_ready[c] /\ cond_ready[c]

\* A user that is past shm_open has an object, and has seen its init_flag
\* before it goes on to the mutex.
UserHasObject ==
  \A u \in Users :
    /\ upc[u] \in Attached \cup {"mmap", "init_flag"} => mapped[u] \in Creators
    /\ upc[u] \in Attached => init_flag[mapped[u]]

\* Between its lock and its unlock a living process owns the mutex.
LockDiscipline ==
  /\ \A c \in Creators : cpc[c] \in {"version", "text", "unlock"} => owner[c] = c
  /\ \A u \in Users : upc[u] \in {"test", "copy", "unlock"} =>
       owner[mapped[u]] = u

\* The text is the version's, except while the creator owns the mutex and is
\* between the two assignments, or was killed there: then it owns it for ever.
TextFollowsVersion ==
  \A c \in Creators :
    owner[c] # c \/ cpc[c] \in {"version", "unlock"} =>
      text[c] = data_version[c]

\* What a user is about to copy is the text of the version it has noted.
CopyFollows ==
  \A u \in Users : upc[u] = "copy" => last_version[u] = data_version[mapped[u]]

IInv ==
  /\ TypeOK
  /\ BoundsAhead
  /\ SetUpOrder
  /\ UserHasObject
  /\ LockDiscipline
  /\ TextFollowsVersion
  /\ CopyFollows
  /\ FoundIsUsable
  /\ NoTornRead

\* Init establishes the invariant.
LEMMA InitIInv == Init => IInv
<1> SUFFICES ASSUME Init PROVE IInv
  OBVIOUS
<1> USE ShmemPosixAssumption DEF Init, NewObjects
<1>1. TypeOK
  BY DEF TypeOK, SetupLabels, Attached
<1>2. BoundsAhead /\ SetUpOrder /\ UserHasObject /\ LockDiscipline
  BY DEF BoundsAhead, SetUpOrder, UserHasObject, LockDiscipline, Attached
<1>3. TextFollowsVersion /\ CopyFollows /\ FoundIsUsable /\ NoTornRead
  BY DEF TextFollowsVersion, CopyFollows, FoundIsUsable, NoTornRead, Attached
<1> QED
  BY <1>1, <1>2, <1>3 DEF IInv

\* The creator's steps up to the loop.
LEMMA SetupStep ==
  ASSUME IInv, NEW c \in Creators, Setup(c)
  PROVE  IInv'
<1> USE ShmemPosixAssumption
    DEF IInv, TypeOK, BoundsAhead, SetUpOrder, UserHasObject, LockDiscipline,
        TextFollowsVersion, CopyFollows, FoundIsUsable, NoTornRead, Attached,
        SetupLabels, CreatorStep, userLocals, objects, ready, data, sync
<1>1. CASE ShmOpen(c)
  BY <1>1 DEF ShmOpen
<1>2. CASE Ftruncate(c)
  BY <1>2 DEF Ftruncate
<1>3. CASE Mmap(c)
  BY <1>3 DEF Mmap
<1>4. CASE MutexInit(c)
  BY <1>4 DEF MutexInit
<1>5. CASE CondInit(c)
  BY <1>5 DEF CondInit
<1>6. CASE SetInitFlag(c)
  BY <1>6 DEF SetInitFlag
<1>7. CASE UnlinkAndExit(c)
  BY <1>7 DEF UnlinkAndExit
<1> QED
  BY <1>1, <1>2, <1>3, <1>4, <1>5, <1>6, <1>7 DEF Setup

\* The creator's loop.
LEMMA UpdateStep ==
  ASSUME IInv, NEW c \in Creators, Update(c)
  PROVE  IInv'
<1> USE ShmemPosixAssumption
    DEF IInv, TypeOK, BoundsAhead, SetUpOrder, UserHasObject, LockDiscipline,
        TextFollowsVersion, CopyFollows, FoundIsUsable, NoTornRead, Attached,
        SetupLabels, CreatorStep, userLocals, objects, ready, data, sync
<1>1. CASE LockForUpdate(c)
  BY <1>1 DEF LockForUpdate
<1>2. CASE NewVersion(c)
  BY <1>2 DEF NewVersion
<1>3. CASE NewText(c)
  BY <1>3 DEF NewText
<1>4. CASE UnlockUpdate(c)
  BY <1>4 DEF UnlockUpdate
<1>5. CASE Broadcast(c)
  BY <1>5 DEF Broadcast
<1> QED
  BY <1>1, <1>2, <1>3, <1>4, <1>5 DEF Update

\* The user's way to the object: get_shared_memory_pointer.
LEMMA FindStep ==
  ASSUME IInv, NEW u \in Users,
         \/ OpenByName(u) \/ OpenRetry(u) \/ MapObject(u) \/ MapRetry(u)
         \/ FlagSeen(u) \/ FlagRetry(u)
  PROVE  IInv'
<1> USE ShmemPosixAssumption
    DEF IInv, TypeOK, BoundsAhead, SetUpOrder, UserHasObject, LockDiscipline,
        TextFollowsVersion, CopyFollows, FoundIsUsable, NoTornRead, Attached,
        SetupLabels, UserStep, userLocals, objects, ready, data, sync
<1>1. CASE OpenByName(u)
  BY <1>1 DEF OpenByName
<1>2. CASE OpenRetry(u)
  BY <1>2 DEF OpenRetry, Retry
<1>3. CASE MapObject(u)
  BY <1>3 DEF MapObject
<1>4. CASE MapRetry(u)
  BY <1>4 DEF MapRetry, Retry
<1>5. CASE FlagSeen(u)
  BY <1>5 DEF FlagSeen
<1>6. CASE FlagRetry(u)
  BY <1>6 DEF FlagRetry, Retry
<1> QED
  BY <1>1, <1>2, <1>3, <1>4, <1>5, <1>6

\* The user's loop, and a wakeup for nothing.
LEMMA UseStep ==
  ASSUME IInv, NEW u \in Users,
         \/ UserLock(u) \/ UserWait(u) \/ UserWakes(u) \/ UserTakesVersion(u)
         \/ UserCopies(u) \/ UserUnlock(u) \/ UserSpurious(u)
  PROVE  IInv'
<1> USE ShmemPosixAssumption
    DEF IInv, TypeOK, BoundsAhead, SetUpOrder, UserHasObject, LockDiscipline,
        TextFollowsVersion, CopyFollows, FoundIsUsable, NoTornRead, Attached,
        SetupLabels, UserStep, userLocals, objects, ready, data, sync
<1>1. CASE UserLock(u)
  BY <1>1 DEF UserLock, UserAcquires
<1>2. CASE UserWait(u)
  BY <1>2 DEF UserWait
<1>3. CASE UserWakes(u)
  BY <1>3 DEF UserWakes, UserAcquires
<1>4. CASE UserTakesVersion(u)
  BY <1>4 DEF UserTakesVersion
<1>5. CASE UserCopies(u)
  BY <1>5 DEF UserCopies
<1>6. CASE UserUnlock(u)
  BY <1>6 DEF UserUnlock
<1>7. CASE UserSpurious(u)
  BY <1>7 DEF UserSpurious
<1> QED
  BY <1>1, <1>2, <1>3, <1>4, <1>5, <1>6, <1>7

\* A kill, wherever it hits.
LEMMA KillStep ==
  ASSUME IInv,
         \/ \E c \in Creators : KillCreator(c)
         \/ \E u \in Users : KillUser(u)
  PROVE  IInv'
<1> USE ShmemPosixAssumption
    DEF IInv, TypeOK, BoundsAhead, SetUpOrder, UserHasObject, LockDiscipline,
        TextFollowsVersion, CopyFollows, FoundIsUsable, NoTornRead, Attached,
        SetupLabels, userLocals, objects, ready, data, sync
<1>1. ASSUME NEW c \in Creators, KillCreator(c) PROVE IInv'
  BY <1>1 DEF KillCreator
<1>2. ASSUME NEW u \in Users, KillUser(u) PROVE IInv'
  <2>1. /\ upc[u] \notin {"shm_open", "gave_up", "killed"}
        /\ upc' = [upc EXCEPT ![u] = "killed"]
        /\ tries' = [tries EXCEPT ![u] = 0]
        /\ mapped' = [mapped EXCEPT ![u] = None]
        /\ last_version' = [last_version EXCEPT ![u] = 0]
        /\ local_copy' = [local_copy EXCEPT ![u] = 0]
        /\ UNCHANGED <<name, ready, data, owner, cpc>>
    BY <1>2 DEF KillUser
  <2>2. waiters' \in [Creators -> SUBSET Users]
    BY <1>2 DEF KillUser
  <2>3. TypeOK' /\ BoundsAhead'
    BY <2>1, <2>2
  <2>4. SetUpOrder' /\ UserHasObject'
    BY <2>1
  <2>5. LockDiscipline'
    BY <2>1
  <2>6. TextFollowsVersion' /\ CopyFollows'
    BY <2>1
  <2>7. FoundIsUsable' /\ NoTornRead'
    BY <2>1
  <2> QED
    BY <2>3, <2>4, <2>5, <2>6, <2>7
<1> QED
  BY <1>1, <1>2

\* Every step of the processes preserves the invariant.
LEMMA StepIInv == IInv /\ [Next]_vars => IInv'
<1>1. ASSUME IInv, UNCHANGED vars PROVE IInv'
  BY <1>1
  DEF vars, userLocals, objects, ready, data, sync, IInv, TypeOK, BoundsAhead,
      SetUpOrder, UserHasObject, LockDiscipline, TextFollowsVersion, CopyFollows, FoundIsUsable, NoTornRead
<1> QED
  BY <1>1, SetupStep, UpdateStep, FindStep, UseStep, KillStep DEF Next, User

\* The invariant holds in every state of the creators and the users.
THEOREM SpecIInv == Spec => []IInv
  BY InitIInv, StepIInv, PTL DEF Spec

\* The variables keep their types; versions and retries keep their bounds.
THEOREM TypeCorrect == Spec => []TypeOK
<1>1. IInv => TypeOK
  BY DEF IInv
<1> QED
  BY <1>1, SpecIInv, PTL

\* shmem_posix_creator.c:119, shmem_posix_user.c:78: no user touches a mutex or
\* condvar that is not initialised, and shmem_posix_creator.c:36: a creator
\* that fails leaves no name.
THEOREM OnlyUsableFound == Spec => []FoundIsUsable
<1>1. IInv => FoundIsUsable
  BY DEF IInv
<1> QED
  BY <1>1, SpecIInv, PTL

\* shmem_posix_user.c:140-141: version and text are of one update, whatever is
\* killed when.
THEOREM NeverTorn == Spec => []NoTornRead
<1>1. IInv => NoTornRead
  BY DEF IInv
<1> QED
  BY <1>1, SpecIInv, PTL
-----------------------------------------------------------------------------
(* What a user that sleeps is waiting for *)

\* A user sleeps on its own object, with the version it has seen, or until the
\* creator, which has made a new one, gets to its broadcast or is killed.
SleepersWaitForNews ==
  \A c \in Creators : \A u \in waiters[c] :
    /\ upc[u] = "waiting" /\ mapped[u] = c
    /\ \/ last_version[u] = data_version[c]
       \/ cpc[c] \in {"text", "unlock", "broadcast", "killed"}

\* A creator's step: the version changes only on the way to a broadcast.
LEMMA CreatorLetsSleep ==
  ASSUME TypeOK, SleepersWaitForNews,
         NEW c \in Creators, Setup(c) \/ Update(c) \/ KillCreator(c)
  PROVE  SleepersWaitForNews'
<1> USE DEF TypeOK, SleepersWaitForNews, CreatorStep, userLocals, objects, ready, data,
            sync, SetupLabels
<1>1. CASE Setup(c)
  BY <1>1 DEF Setup, ShmOpen, Ftruncate, Mmap, MutexInit, CondInit, SetInitFlag,
              UnlinkAndExit
<1>2. CASE Update(c)
  BY <1>2 DEF Update, LockForUpdate, NewVersion, NewText, UnlockUpdate, Broadcast
<1>3. CASE KillCreator(c)
  BY <1>3 DEF KillCreator
<1> QED
  BY <1>1, <1>2, <1>3

\* A user's step: it goes to sleep with the current version, and while it sleeps
\* it does nothing.
LEMMA UserLetsSleep ==
  ASSUME IInv, SleepersWaitForNews,
         NEW u \in Users, User(u) \/ UserSpurious(u) \/ KillUser(u)
  PROVE  SleepersWaitForNews'
<1> USE DEF IInv, TypeOK, SleepersWaitForNews, UserStep, userLocals, objects, ready, data,
            sync
<1>1. CASE \/ OpenByName(u) \/ OpenRetry(u) \/ MapObject(u) \/ MapRetry(u)
           \/ FlagSeen(u) \/ FlagRetry(u)
  BY <1>1 DEF OpenByName, OpenRetry, MapObject, MapRetry, FlagSeen, FlagRetry, Retry
<1>2. CASE UserLock(u) \/ UserTakesVersion(u) \/ UserCopies(u) \/ UserUnlock(u)
  BY <1>2 DEF UserLock, UserAcquires, UserTakesVersion, UserCopies, UserUnlock
<1>3. CASE UserWait(u)
  BY <1>3 DEF UserWait, UserHasObject, Attached
<1>4. CASE UserWakes(u) \/ UserSpurious(u)
  BY <1>4 DEF UserWakes, UserSpurious, UserAcquires, UserHasObject, Attached
<1>5. CASE KillUser(u)
  BY <1>5 DEF KillUser, UserHasObject, Attached
<1> QED
  BY <1>1, <1>2, <1>3, <1>4, <1>5 DEF User

\* pthread_cond_broadcast of shmem_posix_creator.c: no user sleeps through an
\* update.  Whoever sleeps has seen the version in its object, or the creator
\* that has made another one is still to broadcast, unless it was killed first.
THEOREM NobodySleepsThrough == Spec => []SleepersWaitForNews
<1>1. Init => SleepersWaitForNews
  BY DEF Init, NewObjects, SleepersWaitForNews
<1>2. IInv /\ SleepersWaitForNews /\ [Next]_vars => SleepersWaitForNews'
  <2>1. ASSUME IInv, SleepersWaitForNews, UNCHANGED vars PROVE SleepersWaitForNews'
    BY <2>1 DEF vars, objects, data, sync, userLocals, SleepersWaitForNews
  <2> QED
    BY <2>1, CreatorLetsSleep, UserLetsSleep DEF Next, IInv
<1> QED
  BY <1>1, <1>2, SpecIInv, PTL DEF Spec
=============================================================================
