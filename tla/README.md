# Verification of the QNX tutorial programs

TLA+ models of the programs in this repository, configurations that check them
with TLC, and theorems about them with proofs for TLAPS. The repository is a
set of small programs, most of them the exercises and solutions of a course on
the QNX Neutrino OS. Each is worth little on its own and shows one mechanism:
threads that share data, a server and its clients, shared memory between
processes, pulses, interrupts, the death of a process. What can go wrong in
them goes wrong between two threads or processes, and that is what is modelled.

## 1. The system

Where a program has a starter (`proc_thread/x.c`) and a solution
(`proc_thread/solutions/x.c`) the one that is complete is modelled. Identical
copies (`prodcons.c`, `condvar_queue_ex.c`, `shmem_*`, `spawn_example.c`,
`death_pulse.c`, `nonblockpulserec.c`) exist in both places and are modelled
once.

| Component | Source | State | Operations | Talks to |
|---|---|---|---|---|
| Condvar work queue | `proc_thread/condvar_queue_ex.c` | the list, `data_ready`, `q_n_items`, a mutex and a condvar | `add_to_queue`, `get_data_and_remove_from_queue`, `write_to_hardware` | two threads over the list |
| Producer and consumer | `proc_thread/prodcons.c` | `state`, the product | produce, consume, pass the turn | two threads over one condvar |
| Condvar state machine | `proc_thread/condvar.c`, `solutions/condvar.c` | `state` | one thread per state moves it on | two or four threads over one condvar |
| Protected variables | `proc_thread/solutions/mutex_sync.c`, `nomutex.c` | `var1`, `var2`, `var3`, `done` | check, work, update; main stops and joins | threads and main over one mutex, or none |
| POSIX shared memory | `ipc/shmem_posix_creator.c`, `shmem_posix_user.c` | a named object with `init_flag`, a process-shared mutex and condvar, version and text | set up, update and broadcast; open, wait, read | processes over the object and its name |
| Event server | `ipc/solutions/event_server.c`, `event_client.c` | one saved client (rcvid, scoid, event), `notify_count` | register, disconnect, unblock; notify once a second | clients over a channel, two threads over a mutex |
| QNX shared memory | `ipc/shmem_qnx_server.c`, `shmem_qnx_client.c` | current client's scoid, mapping, size | GET, CHANGED, RELEASE, disconnect | clients over a channel, and the memory |
| Checksum servers | `ipc/solutions/server.c`, `pulse_server.c`, `name_lookup_server.c`, `iov_server.c` and four clients | the receive buffer | receive message or pulse, answer, detach | clients over a channel |
| Pulse loops | `time/nonblockpulserec.c`, `time/solutions/reptimer.c`, `proc_thread/death_pulse.c`, `interrupt/solutions/*.c` | the pulses at the channel, the interrupt's mask | receive, drain, unmask | a sender thread, a timer, the process manager, the kernel |
| Child deaths | `proc_thread/spawn_example.c`, `ipc/shmem_mutex_recovery.c` | a masked SIGCHLD, a zombie; a robust mutex | mask, spawn, sigwait, wait; fork, waitpid, recover | parent, child, process manager |
| Example resource manager | `rm_intro/solutions/example_initialization.c`, `example_read.c`, `example.c` (= `example_write.c`) | what each client has the device open for, the times to be updated, a buffer | open, read, write, in three stages of the exercise | clients through the resmgr library |
| Hello world, build files | `hello/`, makefiles, build files | none | - | - |

What is hard, and what each component must get right:

- *Work queue.* The handler releases the mutex for every item it writes, so the
  list changes between two items of one round; the flag is reset only after
  the last. Nothing may be lost, written twice, reordered or left behind; the
  signal comes after the unlock and must not be needed by a handler that is not
  yet asleep.
- *Producer/consumer, state machine.* One condvar for several conditions: a
  signal is right only if it cannot reach the wrong thread, and only the loop
  around `pthread_cond_wait` protects against spurious wakeups.
- *Protected variables.* An update is four read-modify-writes; the counters
  wrap; `main` reads without the lock after the joins.
- *POSIX shared memory.* Names, objects, initialisation and use are in
  different processes, every setup call may fail, users retry a bounded
  number of times, and any process can be killed with the mutex locked.
- *Servers.* Clients die at any time, also while they are blocked on the
  server; scoids are reused by the kernel; unblock pulses come after the reply
  they ask for; pulses and messages are received in an order the client does
  not choose; the receive buffer keeps old bytes.
- *Resource manager.* Every handler has several ways out, some after it has
  allocated memory, marked times or written to stdout; whichever it takes, the
  client gets one answer, and the answer says what was done.
- *Pulse loops, child deaths.* Events come before anybody waits for them.

Every place where one of these bites is listed with its line and the
properties that watch it under `hazards` in `PROJECT.json`.

## 2. Modules

Shared mechanisms, which stand for code outside the repository (the C library
and the kernel), say what the callers rely on:

- `Pthread`: one mutex and one condvar. A waiter that is signalled, broadcast
  to or woken for nothing must get the mutex back before its call returns; a
  signal with nobody waiting is lost; which waiter a signal wakes is open.
- `QnxChannel`: a channel made with `name_attach` and its clients: scoids,
  SEND- and REPLY-blocking, disconnect and unblock pulses, kill and restart.

Abstract specifications, which components are shown to implement:

- `OrderedFeed`: what is accepted comes out once, in order.
- `StateMachine`: the transitions that the head comment of `condvar.c`
  announces, with fairness: the machine does not stop.
- `RequestServer`: what a server owes its clients. Each open request carries
  the set of answers it may get; it is answered once, with one of them, or
  closed because its client has gone; none stays open for ever. Three servers
  are refined to it, with the answers computed from the request (and, for the
  resource manager, from the mode of the open): an answer that is about
  another client's text, an error for a request that is in order, a late
  unblock pulse that errors the client's next request and a second answer are
  all steps that the abstract server does not have.

One module per component, wrappers and `MC` modules for TLC with their `.cfg`
files, and eight `_proof` modules with the theorems (section 4):

| Module | Actions and code | Run |
|---|---|---|
| `CondvarQueue` | one action per statement between two lock operations of `hardwareHandler` (lock, test, wait, get, unlock, write, relock, reset) and of `dataProvider`/`add_to_queue`; main's creations and exit | `condvar_programs` |
| `ProdCons` | both threads' loop as actions with the thread as parameter, `Produce` and `Consume` | `condvar_programs` |
| `CondvarStates` | the loop with the state number as parameter; `version` is 2 for `condvar.c` (signal) and 4 for `solutions/condvar.c` (broadcast) | `condvar_programs` |
| `MutexSync` | every volatile read-modify-write is an action; `mutexed` tells `mutex_sync.c` from `nomutex.c`; main creates, sets `done`, joins, reports | `threads_and_events` |
| `ShmemPosix` | the creator's setup call by call, each of which may fail, its update in two writes; the user's three retry loops, wait and read in two steps; kills of either | `shmem_posix`, `shmem_posix_unlink` |
| `EventServer` | extends `QnxChannel`: the main thread's cases with the three assignments to the slot as steps of their own, and `notify_thread` | `event_server` |
| `ShmemQnx` | extends `QnxChannel`: the three messages with all their refusals, the pulses | `shmem_qnx`, `shmem_qnx_size`, `shmem_qnx_answer` |
| `CksumServer` | extends `QnxChannel`: four servers in one module; the receive buffer survives from one receive to the next; `iov_server` reads in two steps with an allocation between | `cksum_server` |
| `ResMgr` | extends `QnxChannel`: three stages in one module; `io_open`, `io_read` and `io_write` call by call with every error return; what a handler returns the library replies; `resmgr_msgget` and `write` may come up short | `res_mgr`, `res_mgr_written`, `res_mgr_atime` |
| `PulseLoops` | five programs in one module; the queue of pulses, the interrupt line and its mask; the calls that fail, among them the `InterruptUnmask` that is only reported | `threads_and_events` |
| `ChildDeath` | two parents and their children, each of which may die, fail or be killed at any point | `threads_and_events` |

Three wrappers have variables of their own, of which they instantiate a
component, the assumptions on its constants, and names for what a run and a
theorem need: `ProdConsThreads` (of `ProdCons`), `CondvarThreads` (of
`CondvarStates`) and `ProcessEvents` (of `PulseLoops` and `ChildDeath`, which
share nothing; both wait for what the kernel or the process manager reports).
`ChecksumService` is the same for `CksumServer`. The runs check and the theorems
prove the same definitions there, so that one run and one proof module can hold
several small programs.

Two run modules do that: `MCCondvarPrograms` extends `CondvarQueue` and the first
two wrappers, `MCThreadsAndEvents` extends `MutexSync` and `ProcessEvents`. A
behaviour is a run of one program, which the variable `chosen` says: it takes the
steps of its own module under its own module's fairness, and the others stay as
they start. The programs do not run side by side, and no state is counted twice.

Where one module holds several programs, a behaviour is one of them: a
variable that `Init` sets and no step changes (`version`, `mutexed`, `server`,
`stage`, `program`, `chosen`) says which.

Conventions. Variables and labels have the names of the source; `pc`, `main`,
`spc`, `cpc` are places in a program. Variables marked "history" record what
has happened and are read by properties only. An operator whose comment starts
with "Fault:" is the operator after it with a plausible mistake; it is not part
of the specification. Each property has such a fault, named in `PROJECT.json`
under `mutants`, with which it fails: the property does say something of the
code. The lines of each definition are there under `map`.

A failing library call that ends the program is the action `Exit` where other
threads' behaviour depends on it, and in `PulseLoops` (`Fails`) and `ChildDeath`
(`SpawnParentFails`, `RecoveryParentFails`) an action that leaves the program
ended and what it held in the kernel's hands: a parent that fails in
`pthread_mutex_consistent` or in `pthread_mutex_unlock` dies with the mutex. A
call whose failure is reported and passed over is an action of its own
(`MsgSendPulseFails`, `DrainFails`, `InterruptUnmaskFails`). In the servers a
failing call that ends the server or its set-up is left out. Each module's head
comment says which.

## 3. Runs

All passing runs finish their state space. Deadlock is checked for the servers,
which serve for ever (`event_server`, `shmem_qnx`, `cksum_server`, `res_mgr`);
the other programs end, or reach their bound and stop.

| Run | States | Question and answer |
|---|---|---|
| `condvar_programs` | work queue: bursts of 1 and 2, 4 items | `NoStrandedItem`: with the mutex free a non-empty list is announced by the flag. `FeedSpec`: the threads implement `OrderedFeed`: what was added is written once, in order. `EveryItemWritten`: each item gets to the hardware. |
| | `prodcons`: 4 products | `NeverBothAsleep`, the premise of the signal; `TurnsFeedSpec`, `OrderedFeed` with room for one product; `EveryProductConsumed`. |
| | `condvar`: no bound | `MachineSpec`: both versions implement `StateMachine` with its fairness; a signal is enough for two threads, not for four. |
| `threads_and_events` | `mutex_sync`: 3 threads, 9 loops, 3 bits | `VarsAgree`, `CountsUpdates` (also through the wrap, and in main's report), `EveryPeriodAnnounced` (the reason for `atomic_add_value`), `JoinReturns`. |
| | 5 pulse loops: bursts of 3, 6 events, 3 pids | `EachEventOnce` (every event is seen once, in order, with its value), `EveryEventHandled` (but for a program that has ended, and a keyboard program whose `InterruptUnmask` has failed). |
| | 2 parents, killed, failing or not | `ZombieAsReported`, `MutexRecovered` (free and fit for use, or recoverable by the next where the parent did not get through), `ParentsGetThrough`. |
| `shmem_posix` | 2 creators, 2 users, 2 versions, 1 retry, 1 kill | `FoundIsUsable` (nobody uses what is not initialised, and a creator that gives up leaves no name behind), `NoTornRead` (also after a kill in the middle of an update: the mutex of the dead is never handed on), `UserCatchesUp` (unless the creator or the owner of the mutex was killed). |
| `shmem_posix_unlink` | 2 creators, 1 user | **violated**, see below. |
| `event_server` | 2 clients, 2 scoids | `SlotIsOneClient`: the three saved values belong to one client and events go to it only. `RegistrationKept`: the registration granted last has the slot until its own client goes. `ServerSpec` (refinement of `RequestServer`), `SlotClientNotified`. |
| `shmem_qnx` | 2 clients; sizes 1 and 2 are served, 3 is refused; offsets and lengths 0, 1, 2 and -1, numbers modulo 5 | `CurrentClientsMemory` (the current scoid is one in use, after failures too); `MappingRespected` (while no GET has failed: no offset and length, also such that their sum wraps, gets a read outside, `munmap` gets the live mapping with its size, and no mapping is left when the server is free); `NoReplyOwed`. |
| `shmem_qnx_size` | size 1 is served, 2 is refused; numbers modulo 4 | **violated**, see below. |
| `shmem_qnx_answer` | as `shmem_qnx`; the answer ends at 2, an object of 1 is too small for it | **violated**, see below. |
| `cksum_server` | 4 servers, 2 clients, texts that fit and do not | `ChecksumsServed` (refinement of `RequestServer`): every answer is about the client's own text, never about what the buffer held before, and comes once. `ScoidReleased`. |
| `res_mgr` | 2 stages, 2 clients, reads of more than there is, writes of one and of no byte | `ServerSpec`; `WritesAccounted`: on every way out of a handler no error follows bytes that were offered to stdout, no client is told of fewer bytes than stdout took or of more than were offered, the buffer is freed, and the times are marked that the answers call for. |
| `res_mgr_written` | the last stage | **violated**, see below. |
| `res_mgr_atime` | the first stage | **violated**, see below. |

Why the bounds are enough. The threads' loops have no memory beyond the shared
data: two items beyond one burst let a burst arrive while the handler writes,
while it finds the list empty and while it sleeps; four products make each
thread wait, wake and be woken for nothing; nine loops pass the wrap of a
3-bit counter with all three threads under way. Two clients and two scoids
are what it takes for one client's scoid, slot, buffer or object to be taken
for another's, and clients return any number of times. Two creators race for
a name; two users are what a signal in place of the broadcast does not serve.
One retry is a retry that succeeds, or fails; a second adds only length. One
kill reaches each place once; with two, nothing that the properties speak of is
left to go wrong, because the first victim's object counts as lost. `res_mgr`
leaves out the stage `example_read.c`, whose `io_write` is that of the first
stage and whose `io_read` is that of the last; of a write of one byte
`resmgr_msgget` and `write` may get none, and the theorems have any number. An
object of one unit and one of two are what it takes to confuse two sizes.

Bounds by name: `MaxItems`, `MaxProducts`, `MaxLoops`, `MaxVersion`,
`NumRetries`, `MaxKilled`, `MaxEvents`, `Burst`; numbers that wrap: `Modulus`,
`CountModulus`.

### Disagreements found

- `shmem_posix_unlink`: `shmem_posix_creator.c:71` calls `unlink_and_exit` when
  `shm_open(O_CREAT | O_EXCL)` fails, so a creator that finds the name taken
  removes the other creator's name. Line 36 says the name is removed "on any
  failures after creating our object"; nothing was created here. The running
  creator goes on with an object that no user can find any more. `shmem_posix`
  checks the users that were already attached.
- `shmem_qnx_size`: `shmem_qnx_server.c:130` stores the size a GET asks for in
  `shmem_memory_size` before it compares it with the limit. A refused GET, also
  one of another client, thus replaces the size of the current object, and
  the range check of the current client's next CHANGED compares with a size
  that is not the object's: the read goes outside the mapping. A GET that
  `create_shared_memory` cannot serve leaves the same damage, or no mapping at
  all. `shmem_qnx` shows that the damage ends with the next GET that is served:
  its histories start anew there.

- `shmem_qnx_answer`: the answer to a CHANGED goes to 4096 + 30 from
  `shmem_ptr` (`shmem_qnx_server.c:169-170`), the "2nd page for answer" of the
  comment, the page "for data from server" of `shmem_qnx_client.c:39`. The size
  of the object is what the GET asked for, any size up to 64 * 1024, and nothing
  compares the two: with an object of one page the answer is copied behind it.
- `res_mgr_written`: `example.c:273` says "unblock the client with the correct
  number of bytes written", and line 274 replies the number of bytes offered:
  where `write()` takes fewer the client is told too many. `WritesAccounted`
  in `res_mgr` says what remains true of such answers.
- `res_mgr_atime`: `example_initialization.c:193` says "mark access time for
  update if any data was read", and line 194 looks at the number of bytes asked
  for: a read that returns end of file marks it. `WritesAccounted` holds the
  later stages to the comment.

One flaw has no run, because nothing in the repository says otherwise: a GET that
is served before the RELEASE of the object before it sets `shmem_ptr` anew
(`shmem_qnx_server.c:135`), and no line unmaps the old mapping. `ShmemQnx` keeps
the mapping that `shmem_ptr` points to, so the old one is gone from the model as
it is out of the server's reach; `MappingRespected` is about the mapping of the
GET served last and does not say that every mapping is unmapped.

### Fairness

- A thread or process that can run is scheduled (weak fairness on its steps):
  the programs use one priority, or round robin.
- A thread that keeps asking for a mutex gets it (strong fairness on the lock
  and on the return from `pthread_cond_wait`): the kernel hands a mutex to the
  longest waiter of the highest priority.
- What waits at a channel is received some time (strong fairness on each
  receive): the kernel queues in order of arrival at one priority.
- Nothing is assumed of spurious wakeups, exits, kills, new clients or failing
  calls: they may happen or not. Liveness properties are of the form "unless
  the process ends before".

## 4. Proofs

Eight modules hold theorems. They assume only the named assumptions on the
constants of their component (`QueueAssumption`, `ProdConsAssumption`,
`MutexSyncAssumption`, `ShmemPosixAssumption`, `ChannelAssumption`,
`ShmemQnxAssumption`, `EventServerAssumption`, `ProcessEventsAssumption`,
`ResMgrAssumption`, `CksumAssumption`), which TLC evaluates
in the runs, so they hold for every number of items, products, threads, events,
processes, clients and scoids, for every length of a text or a request and for
every width of the unsigned variables.

All are of one shape: a strengthening `IInv` of the wanted property,
`Init => IInv`, `IInv /\ [Next]_vars => IInv'` by cases on the actions, and the
property from `IInv`.

`CondvarQueue_proof`. The properties of the run are not inductive: that the
list is announced by the flag says nothing of the states in which a thread is
between two of its steps. `IInv` adds `LockDiscipline` (a thread is between
lock and unlock exactly when it owns the mutex), `FlagCoversList` (a non-empty
list is announced or about to be by the provider; when the handler is about to
reset the flag the list is empty), `DataHeld` (the handler has one item exactly
on its way to the hardware), `WaitDiscipline`, `NoLostWakeup`, `LoopBounds` and
`BirthOrder`. `MutexDiscipline` is an action property: a step that changes the
list, `q_n_items` or `data_ready`, or decides by the list or the flag, is a step
of the thread that owns the mutex, which goes on owning it unless it goes to
sleep. Theorems: `TypeCorrect`, `MutexDiscipline`, `NothingLost`,
`NothingStranded`, `NoWakeupLost`, `CountFollowsList` (the unlocked read of
`q_n_items` is off by one at most), `ImplementsFeed`.

`WaitLoops_proof` has three chapters, for the programs that do nothing but wait
for their turn or for an event.

- `ProdCons`: `IInv` adds that a sleeper waits for the other's turn or for a
  signal the other is about to send (`SleepersWaitForTheOther`), that a thread
  works only with the turn (`TurnHeld`), and how far the producer is ahead given
  the turn (`Ahead`). If both slept, it would be both threads' turn. Theorems:
  `TurnsTypeCorrect`, `OneIsAwake`, `WokenForTheTurn`, `ImplementsFeed`.
- `CondvarStates`: a thread about to move the machine finds it in its own state
  (`MovesFromOwnState`), because state changes only under the mutex, and one
  sleeps in its own state only while another is about to notify it
  (`SleepersAreNotified`): with two threads the notifier is awake, so that a
  signal has nobody else to wake; with four it takes the broadcast. Theorems:
  `StatesTypeCorrect`, `NotifiedInOwnState`, `OnlyAnnouncedTransitions` (the
  safety part of `MachineSpec`).
- `ProcessEvents`: that events are seen once and in order (`EachEventOnce`) is
  kept by `DeliverKeepsOrder` and `TakeKeepsOrder`, two facts about sequences.
  The bound on the events needs `BurstFits`, and the interrupts need
  `MaskedUntilUnmask`: there is one interrupt at most, because from its delivery
  to its unmask the kernel has it masked, and the program unmasks only what it
  has received. Of the parents, `SignalMeansZombie` says that SIGCHLD is pending
  only between the child's death and `sigwaitinfo`; `MutexOfChild` and
  `MutexOfParent` say who has the robust mutex at every place of either process,
  so that a parent that ends anywhere leaves it recoverable.
  Two more invariants are inductive on top of these. `NoParentWaitsInVain`: at
  `sigwaitinfo` the child lives or SIGCHLD is pending, because it was masked and
  had a handler before the child was there; at `waitpid` the child can take the
  mutex, has it or is dead. `MaskedIsInHand`: unless an `InterruptUnmask` has
  failed, an interrupt is masked only while its event waits, is in hand, or the
  program has ended. The theorems about the loops are about `PulseSafe`, those
  about the parents about `ChildSafe`: `EventsTypeCorrect` (both),
  `EventsInOrder`, `UnmaskedBeforeWaiting`; `ZombieWhenReported`,
  `MutexIsRecovered`, `ParentsNeverWaitInVain`.

`MutexSync_proof`. `Undisturbed` says that the mutex, or there being one
thread, keeps other threads out of an update; `Values` gives `var1` and `var2`
at every point of an update as a function of the number of updates;
`LoopsCounted` gives the number of loops begun as the updates done plus the
threads on their way (`Cardinality`). That `+= 2` and `--` add one modulo
2^32, at the wrap too, is `UpdateAddsOne`, which needs the uniqueness of the
remainder for a modulus that is not a literal (`DivisionUnique`). `WorkCounted`
ties `var3` and the messages to the pieces of work, `NextQuotient` says when
one more piece of work is one more message. Theorems: `TypeCorrect`,
`VariablesAgree`, `UpdatesCounted`, `MessagesFollowWork`.

`ShmemPosix_proof`. Users use only what is initialised because the creator
sets the flag last (`SetUpOrder`) and users look at it first (`UserHasObject`).
That no read is torn needs `TextFollowsVersion`: version and text differ only
while the creator owns the mutex, for ever if it was killed there, so that a
user with the mutex (`LockDiscipline`) always finds them equal, and what it is
about to copy is the text of the version it has noted (`CopyFollows`).
`SleepersWaitForNews` is inductive on top of `IInv`: who sleeps has seen the
version, or the creator has its broadcast before it, or was killed.
Theorems: `TypeCorrect`, `OnlyUsableFound`, `NeverTorn`, `NobodySleepsThrough`.

`QnxChannel_proof` has no theorem of its own but what the servers' proofs need:
for each operator of `QnxChannel` a lemma that it preserves `ChannelInv` (a
scoid is one client's; who is blocked has sent something; a disconnect pulse is
about a client that is dead and still has its scoid) and the scoids in use.
`ConnectDetachKeeps` is the one with a premise: the client is gone and its
pulse has been received. Each server shows that premise from its own state.

A second set of lemmas is about the connections that a server made with
`name_attach` has to give back. `NoneForgotten` says that whoever has gone with
a connection has his disconnect pulse at the channel or in the server's hand;
`LiveStayConnected` that no step takes the connection of a client that lives.
The servers' `NobodyForgotten` is `NoneForgotten` with what that server has in
hand, and `ConnectionsComeBack` (three theorems, and `CksumConnectionsComeBack`)
states both for each of them, also for clients killed in the middle of a
request. A handler that forgets `ConnectDetach`, or detaches before it has
received the pulse, does not preserve them. That the pulse is received and the
scoid released some time is liveness (`ScoidReleased`).

`ShmemQnx_proof`. `OneOpenRequest` (only the sender of the message in hand is
REPLY-blocked), `DetachesTheGone` (what is detached is gone and is not the
current client) and `CurrentMapping` (unless a GET has failed, the mapping is
the current client's, of the size the server checks against). `InRangeIsInside`
is the reason why the range check is sound in unsigned arithmetic: the first
two comparisons bound both numbers by a size that is less than half the range.
`MappingIsRespected` follows for the mapping of the GET served last; the answer's
place is no part of it (`shmem_qnx_answer`).
Theorems: `TypeCorrect`, `MemoryIsItsClients`, `MappingIsRespected`,
`NobodyLeftBlocked`, `ConnectionsComeBack`.

`EventServer_proof`. `SlotConsistent` holds outside the three assignments,
which run under the mutex (`MutexHeld`); the scoid in the slot cannot be given
to another client because it is cleared before the detach (`DetachesTheGone`);
a disconnect that empties the slot is that of the slot's own client, because a
scoid is one client's (`LatestHasSlot`). The refinement goes operator by
operator: a send is `Ask`, a reply `Serve`, or `Leave` if the client was killed
while it waited, a death `Leave`, and nothing else shows. An unblock pulse
finds nobody to error (`UnblockIsLate`). Theorems: `TypeCorrect`,
`SlotIsConsistent`, `LatestIsKept`, `ServerIsSafe` (the safety part of
`ServerSpec`), `NobodyLeftBlocked`, `ConnectionsComeBack`.

`RequestServers_proof` has two chapters, for the servers that handle one request
at a time. Both rest on the lemmas of `QnxChannel_proof`, as `EventServer_proof`
does, and on `OneOpenRequest` or `OneReceived`: only the client whose message is
in hand is REPLY-blocked, so that whoever is answered is the one who asked.

- `ResMgr`: `RightHandler` ties the handler to the type of the request,
  `WriteIsLegal` keeps the checks of `io_write` true past its calls, `LocalsFit`
  bounds what was got by what was asked for and what stdout took by what was
  got, and says where a buffer is allocated, and
  `TimesKept` that the times which answers call for are marked or about to be.
  `WritesAccounted` is an action property: each reply is one of five paths
  (`OnlyRepliesAnswer`), the refusals among them come before stdout has taken
  anything, and in a successful one `LocalsFit` bounds what it took. For the
  refinement every request keeps the answers it is due until the reply, because
  handle and stage stay as they are; a refusal is due where one of the checks
  or calls can fail, a success carries the client's own number. Theorems:
  `TypeCorrect`, `WritesAreAccounted`, `ManagerIsSafe` (the safety part of
  `ServerSpec`), `NobodyLeftBlocked`, `ConnectionsComeBack`.
- `CksumServer`: `OwnMessage` says that what a client is blocked on is what its
  program and text make; `BufferIsMessage` that the receive buffer begins with
  it when it is dispatched; `ReadsIov` that only `iov_server`, and only for its
  own type, reads a second time. `MessageIs` describes the three forms of a
  message: a text, its NUL, and whatever else fits; `ChecksumIsSum` says that
  the checksum of a buffer that begins so is the sum of the text, whatever
  follows. It needs where the first NUL is, and nothing of how a sum is
  computed. An unblock pulse finds nobody REPLY-blocked, and where `server.c`
  takes a pulse for a message there is nobody to answer.
  `CksumTypeOK` does need how a sum is computed: no answer is the -1 of bytes
  without a NUL (`IsAnswer`), so the sum over a text of any length has to be a
  number.
  That is an induction over data. The library's induction theorems take the
  property as an operator, which the provers cannot instantiate; `SetInduction`
  takes it as the set of the numbers that have it, and follows from
  `NatLessThanWellFounded`. With it `SumDefined` builds the running sum of
  `calculate_checksum` loop by loop, so that the recursive function of `Sum` is
  the one that its definition describes, and `SumIsNat` goes along that function.
  `CksumPlaces` and `CksumIInv` together are then `CksumTypeOK` (`CksumTypes`).
  Theorems: `CksumSpecIInv`, `CksumTypeCorrect`, `ChecksumsAreSafe` (the safety
  part of `ChecksumsServed`), `CksumNobodyLeftBlocked`, `CksumConnectionsComeBack`.

The theorems `NoWakeupLost`, `WokenForTheTurn`, `NotifiedInOwnState` and
`NobodySleepsThrough` are what the liveness of the condvar programs rests on: no
sleeper is left that nobody is going to wake. `ParentsNeverWaitInVain` is the
same for the parents (`ParentsGetThrough`), `UnmaskedBeforeWaiting` for the
keyboard programs (`EveryEventHandled`), and the servers' `NobodyLeftBlocked` and
`ConnectionsComeBack` for their clients and connections: who is REPLY-blocked
is the client in hand, and in the event server a thread that waits for the
mutex waits for one that waits for nobody.

Only model-checked: liveness, because fairness and ENABLED are outside what
TLAPS proves; with it the liveness in `MachineSpec`, in the two `ServerSpec` and
in `ChecksumsServed`, whose safety parts are theorems. Every invariant and every
action property of the passing runs is a theorem.

## 5. What is not modelled

- Memory is sequentially consistent. `shmem_posix_creator.c` writes `init_flag`
  with no barrier; on a weakly ordered machine that is one more hazard.
- A mutex or condvar call of `shmem_posix_*` that fails inside the loops: it
  takes a corrupt object, which `FoundIsUsable` excludes.
- A `pthread_mutex_lock` of `shmem_mutex_recovery.c` that fails for another reason
  than the owner's death, in the parent or in the child.
- A mapping of `shmem_qnx_server.c` that a second GET has replaced (section 3).
- Unchecked return codes are taken to succeed (`condvar.c`; "error checking
  has been left out").
- The resource manager library's own part (the other handlers, the attribute
  lock, the OCBs' offsets, which the code leaves alone) is external: it
  delivers a message to its handler and replies what the handler returns.
- The texts of messages, the bytes of the shared objects, priorities, the
  security-policy calls and all output.
- The starters that do not do their work yet (`ipc/server.c`,
  `ipc/event_server.c`, `ipc/event_client.c`, `time/reptimer.c`,
  `interrupt/intsimple.c`, `proc_thread/mutex_sync.c`, `rm_intro/example.c`).
- `hello` and the build files have no state.

## 6. Plan

The order was: the work queue, as the core, with its abstract feed and proof;
the other programs on `Pthread`; the servers on `QnxChannel`; pulses and
deaths; then the abstract server and its three refinements, the resource
manager, kills in `ShmemPosix`, the proofs about the processes of `ipc/`, those
about the pulse loops, the parents, the resource manager and the checksum
servers, and last the types of the checksum servers and what the waiting of
parents, keyboard programs and connections rests on. Every safety property of
the runs that expect to pass is a theorem. Left: `init_flag` on a weakly ordered
machine, where the write of the flag may be seen before the mutex it announces.
