-------------------------- MODULE MutexSync_proof ---------------------------
(***************************************************************************)
(* Proofs about MutexSync, for any number of threads and loops and any     *)
(* width of the unsigned variables.                                        *)
(***************************************************************************)
EXTENDS MutexSync, FiniteSetTheorems, TLAPS

\* In mutex_sync.c: where the mutex is held.
Inside == {"check", "unlock_check", "var1_add", "var1_dec", "var2_add",
           "var2_dec", "unlock_update"}

\* The mutex, or its being the only thread, keeps a thread undisturbed.
Undisturbed ==
  IF mutexed
    THEN \A t \in Threads : pc[t] \in Inside <=> owner = t
    ELSE /\ owner = NoThread
         /\ \A t, u \in workers : t = u
         /\ \A t \in Threads : pc[t] \notin {"lock_check", "unlock_check",
                                             "lock_update", "unlock_update"}

\* Only the threads that main creates run; at the end they have returned.
Lifetimes ==
  /\ \A t \in Threads : pc[t] # "unborn" => t \in workers
  /\ main = "report" => \A t \in workers : pc[t] = "returned"

\* Where var1 and var2 are on their way from one update to the next
Before == updates % Modulus
Halfway == Plus(Before, 2)
After == Plus(Halfway, Modulus - 1)

Late == {"var1_dec", "var2_add", "var2_dec", "unlock_update"}

Values ==
  /\ ~repaired
  /\ (\A t \in Threads : pc[t] \notin Late) => var1 = Before /\ var2 = Before
  /\ \A t \in Threads :
       /\ pc[t] = "var1_dec" => var1 = Halfway /\ var2 = Before
       /\ pc[t] = "var2_add" => var1 = After /\ var2 = Before
       /\ pc[t] = "var2_dec" => var1 = After /\ var2 = Halfway
       /\ pc[t] = "unlock_update" => var1 = After /\ var2 = After

\* The threads that have begun a loop and not completed its update
OnTheirWay == {t \in Threads : pc[t] \notin {"unborn", "loop", "returned"}}

LoopsCounted == loops = updates + Cardinality(OnTheirWay)

Control == TypeOK /\ Undisturbed /\ Lifetimes

IInv == Control /\ Values /\ LoopsCounted

-----------------------------------------------------------------------------
(* Unsigned arithmetic *)

\* Plus stays within an unsigned.
LEMMA PlusIsUnsigned ==
  ASSUME NEW x \in Nat, NEW k \in Nat
  PROVE  Plus(x, k) \in Unsigned
  BY MutexSyncAssumption DEF Plus, Unsigned

\* Quotient and remainder of a division are unique.
LEMMA DivisionUnique ==
  ASSUME NEW D \in Nat \ {0}, NEW q \in Int, NEW p \in Int,
         NEW r \in 0 .. D - 1, NEW s \in 0 .. D - 1,
         q * D + r = p * D + s
  PROVE  q = p /\ r = s
<1>1. q - p \in Int /\ (q - p) * D = s - r
  OBVIOUS
<1>2. q - p < 1
  <2>1. ASSUME NEW d \in Int, d >= 1 PROVE d * D >= D
    BY <2>1
  <2> QED
    BY <1>1, <2>1
<1>3. q - p > -1
  <2>1. ASSUME NEW d \in Int, d <= -1 PROVE d * D <= -D
    BY <2>1
  <2> QED
    BY <1>1, <2>1
<1>4. q - p = 0
  BY <1>1, <1>2, <1>3
<1> QED
  BY <1>1, <1>4

\* What is left of a division by Modulus is unique.
LEMMA RemainderUnique ==
  ASSUME NEW q \in Int, NEW p \in Int,
         NEW r \in Unsigned, NEW s \in Unsigned,
         q * Modulus + r = p * Modulus + s
  PROVE  r = s
  BY DivisionUnique, MutexSyncAssumption DEF Unsigned

\* The next number's quotient: one more where the division leaves nothing.
LEMMA NextQuotient ==
  ASSUME NEW D \in Nat \ {0}, NEW x \in Nat
  PROVE  (x + 1) \div D = (x \div D) + (IF (x + 1) % D = 0 THEN 1 ELSE 0)
<1> DEFINE q == x \div D
           r == x % D
           p == (x + 1) \div D
           s == (x + 1) % D
<1>1. x = q * D + r /\ q \in Int /\ r \in 0 .. D - 1
  OBVIOUS
<1>2. x + 1 = p * D + s /\ p \in Int /\ s \in 0 .. D - 1
  OBVIOUS
<1> HIDE DEF q, r, p, s
<1>3. ASSUME r = D - 1 PROVE p = q + 1 /\ s = 0
  <2>1. (q + 1) * D + 0 = p * D + s /\ q + 1 \in Int /\ 0 \in 0 .. D - 1
    BY <1>1, <1>2, <1>3
  <2>2. q + 1 = p /\ 0 = s
    BY <2>1, <1>2, DivisionUnique
  <2> QED
    BY <2>2
<1>4. ASSUME r # D - 1 PROVE p = q /\ s # 0
  <2>1. PICK n \in 0 .. D - 1 : n = r + 1
    BY <1>1, <1>4
  <2>2. q * D + n = p * D + s
    BY <1>1, <1>2, <2>1
  <2>3. q = p /\ n = s
    BY <2>2, <1>1, <1>2, DivisionUnique
  <2> QED
    BY <2>1, <2>3, <1>1
<1>5. p = q + (IF s = 0 THEN 1 ELSE 0)
  BY <1>1, <1>3, <1>4
<1> QED
  BY <1>5 DEF q, p, s

\* The next number's remainder.
LEMMA NextRemainder ==
  ASSUME NEW x \in Nat
  PROVE  (x + 1) % Modulus =
           IF x % Modulus = Modulus - 1 THEN 0 ELSE (x % Modulus) + 1
<1> USE MutexSyncAssumption
<1> DEFINE q == x \div Modulus
           r == x % Modulus
           p == (x + 1) \div Modulus
           s == (x + 1) % Modulus
<1>1. x = q * Modulus + r /\ q \in Int /\ r \in 0 .. Modulus - 1
  OBVIOUS
<1>2. x + 1 = p * Modulus + s /\ p \in Int /\ s \in 0 .. Modulus - 1
  OBVIOUS
<1> HIDE DEF q, r, p, s
<1>3. CASE r = Modulus - 1
  <2>1. (q + 1) * Modulus + 0 = p * Modulus + s
    BY <1>1, <1>2, <1>3
  <2>2. q + 1 \in Int /\ 0 \in Unsigned
    BY <1>1 DEF Unsigned
  <2> QED
    BY <2>1, <2>2, <1>2, <1>3, RemainderUnique DEF r, s, Unsigned
<1>4. CASE r # Modulus - 1
  <2>1. q * Modulus + (r + 1) = p * Modulus + s /\ r + 1 \in 0 .. Modulus - 1
    BY <1>1, <1>2, <1>4
  <2> QED
    BY <2>1, <1>1, <1>2, <1>4, RemainderUnique DEF r, s, Unsigned
<1> QED
  BY <1>3, <1>4 DEF r, s

\* var += 2; var--; adds one to the count of updates, also where it wraps.
LEMMA UpdateAddsOne ==
  ASSUME updates \in Nat
  PROVE  After = (updates + 1) % Modulus
<1> USE MutexSyncAssumption
<1> DEFINE r == updates % Modulus
<1>1. r \in 0 .. Modulus - 1
  OBVIOUS
<1>2. (updates + 1) % Modulus = (IF r = Modulus - 1 THEN 0 ELSE r + 1)
  BY NextRemainder
<1> HIDE DEF r
<1>3. ASSUME NEW x \in 0 .. Modulus - 1 PROVE x % Modulus = x
  OBVIOUS
<1>4. ASSUME NEW x \in Modulus .. Modulus + Modulus - 1
      PROVE  x % Modulus = x - Modulus
  OBVIOUS
<1>5. (r + 2) % Modulus = IF r + 2 < Modulus THEN r + 2 ELSE r + 2 - Modulus
  BY <1>1, <1>3, <1>4
<1>6. (((r + 2) % Modulus) + (Modulus - 1)) % Modulus =
        IF r = Modulus - 1 THEN 0 ELSE r + 1
  BY <1>1, <1>3, <1>4, <1>5
<1> QED
  BY <1>2, <1>6 DEF After, Halfway, Before, Plus, r

-----------------------------------------------------------------------------
(* The invariant *)

\* Init establishes the invariant.
LEMMA InitIInv == Init => IInv
<1> SUFFICES ASSUME Init PROVE IInv
  OBVIOUS
<1> USE MutexSyncAssumption DEF Init, InitNoMutex
<1>1. Control
  <2>1. /\ workers \in SUBSET Threads /\ mutexed \in BOOLEAN
        /\ mutexed \/ \A t, u \in workers : t = u
        /\ var3 \in {0, 1}
    OBVIOUS
  <2>2. 0 \in Unsigned /\ 1 \in Unsigned /\ 0 \in 0 .. MaxLoops
    BY DEF Unsigned
  <2>3. TypeOK
    BY <2>1, <2>2 DEF TypeOK
  <2>4. Undisturbed /\ Lifetimes
    BY <2>1 DEF Undisturbed, Inside, Lifetimes
  <2> QED
    BY <2>3, <2>4 DEF Control
<1>2. Values
  BY DEF Values, Before, Late
<1>3. LoopsCounted
  <2>1. OnTheirWay = {}
    BY DEF OnTheirWay
  <2> QED
    BY <2>1, FS_EmptySet DEF LoopsCounted
<1> QED
  BY <1>1, <1>2, <1>3 DEF IInv

\* Two threads are never both where the shared variables are used.
LEMMA Alone ==
  ASSUME Control, NEW t \in Threads, NEW u \in Threads,
         pc[t] \in Inside, pc[u] \in Inside
  PROVE  t = u
  BY DEF Control, Undisturbed, Lifetimes, Inside

\* main's steps preserve types, exclusion and lifetimes.
LEMMA MainControl ==
  ASSUME Control,
         \/ AllCreated \/ SetDone \/ JoinAll \/ Exit
         \/ \E t \in Threads : Create(t)
  PROVE  Control'
<1> USE MutexSyncAssumption
    DEF Control, TypeOK, Unsigned, Undisturbed, Inside, Lifetimes, fixed,
        shared, history, Goto
<1>1. CASE AllCreated
  BY <1>1 DEF AllCreated
<1>2. CASE SetDone
  BY <1>2 DEF SetDone
<1>3. CASE JoinAll
  BY <1>3 DEF JoinAll
<1>4. CASE Exit
  BY <1>4 DEF Exit
<1>5. ASSUME NEW t \in Threads, Create(t) PROVE Control'
  BY <1>5 DEF Create
<1> QED
  BY <1>1, <1>2, <1>3, <1>4, <1>5

\* The threads' steps preserve types, exclusion and lifetimes.
LEMMA ThreadControl ==
  ASSUME Control, NEW t \in Threads, Step(t)
  PROVE  Control'
<1> USE MutexSyncAssumption
    DEF Control, TypeOK, Undisturbed, Inside, Lifetimes, fixed, shared,
        history, Goto, At
<1>1. /\ var1 \in Nat /\ var2 \in Nat /\ var3 \in Nat /\ Modulus - 1 \in Nat
      /\ 2 \in Nat /\ 1 \in Nat
  BY DEF Unsigned
<1>2. CASE BeginLoop(t)
  BY <1>2 DEF BeginLoop
<1>3. CASE Return(t)
  BY <1>3 DEF Return
<1>4. CASE LockCheck(t) \/ LockUpdate(t)
  BY <1>4 DEF LockCheck, LockUpdate, Lock
<1>5. CASE Check(t)
  BY <1>5 DEF Check
<1>6. CASE UnlockCheck(t)
  BY <1>6 DEF UnlockCheck, Unlock
<1>7. CASE Work(t) \/ WorkNoMutex(t)
  <2>1. var3' \in Unsigned /\ announced' \in Nat
    BY <1>1, <1>7, PlusIsUnsigned DEF Work, WorkNoMutex
  <2> QED
    BY <1>7, <2>1 DEF Work, WorkNoMutex
<1>8. CASE AddVar1(t) \/ DecVar1(t)
  <2>1. var1' \in Unsigned
    BY <1>1, <1>8, PlusIsUnsigned DEF AddVar1, DecVar1
  <2> QED
    BY <1>8, <2>1 DEF AddVar1, DecVar1
<1>9. CASE AddVar2(t) \/ DecVar2(t) \/ DecVar2NoMutex(t)
  <2>1. var2' \in Unsigned
    BY <1>1, <1>9, PlusIsUnsigned DEF AddVar2, DecVar2, DecVar2NoMutex
  <2> QED
    BY <1>9, <2>1 DEF AddVar2, DecVar2, DecVar2NoMutex, Updated
<1>10. CASE UnlockUpdate(t)
  BY <1>10 DEF UnlockUpdate, Unlock, Updated
<1> QED
  BY <1>2, <1>3, <1>4, <1>5, <1>6, <1>7, <1>8, <1>9, <1>10 DEF Step

\* A step that leaves the variables, the count and the Late threads alone
\* preserves Values.
LEMMA QuietValues ==
  ASSUME Values, UNCHANGED <<var1, var2, updates, repaired>>,
         \A t \in Threads : (pc[t] \in Late \/ pc'[t] \in Late) => pc'[t] = pc[t]
  PROVE  Values'
  BY DEF Values, Before, Halfway, After, Late

\* The steps that read or write the variables preserve Values.
LEMMA WriteValues ==
  ASSUME Control, Values, NEW t \in Threads,
         \/ Check(t) \/ AddVar1(t) \/ DecVar1(t) \/ AddVar2(t) \/ DecVar2(t)
  PROVE  Values'
<1>1. /\ \A u \in Threads \ {t} : pc[u] \notin Late /\ pc'[u] = pc[u]
      /\ updates' = updates
  <2>1. pc[t] \in Inside /\ Late \subseteq Inside
    BY DEF Check, AddVar1, DecVar1, AddVar2, DecVar2, At, Late, Inside
  <2>2. \A u \in Threads \ {t} : pc[u] \notin Late
    BY <2>1, Alone
  <2> QED
    BY <2>2
    DEF Check, AddVar1, DecVar1, AddVar2, DecVar2, Goto, Control, TypeOK,
        history
<1>2. Before' = Before /\ Halfway' = Halfway /\ After' = After
  BY <1>1 DEF Before, Halfway, After, Plus
<1> USE <1>1, <1>2 DEF Values, Late, At, Goto, history, Control, TypeOK
<1>3. CASE Check(t)
  BY <1>3 DEF Check
<1>4. CASE AddVar1(t)
  BY <1>4 DEF AddVar1, Halfway
<1>5. CASE DecVar1(t)
  BY <1>5 DEF DecVar1, After
<1>6. CASE AddVar2(t)
  BY <1>6 DEF AddVar2, Halfway
<1>7. CASE DecVar2(t)
  BY <1>7 DEF DecVar2, After
<1> QED
  BY <1>3, <1>4, <1>5, <1>6, <1>7

\* The end of an update counts it.
LEMMA UpdatedValues ==
  ASSUME Control, Values, NEW t \in Threads,
         UnlockUpdate(t) \/ DecVar2NoMutex(t)
  PROVE  Values'
<1>1. /\ \A u \in Threads \ {t} : pc[u] \notin Late /\ pc'[u] = pc[u]
      /\ pc'[t] = "loop" /\ pc[t] \in {"unlock_update", "var2_dec"}
      /\ updates' = updates + 1 /\ updates \in Nat
  BY Alone
  DEF UnlockUpdate, DecVar2NoMutex, Unlock, Updated, At, Goto, Late, Inside,
      Control, TypeOK
<1>2. Before' = After
  BY <1>1, UpdateAddsOne DEF Before
<1>3. var1' = After /\ var2' = After /\ ~repaired'
  BY <1>1
  DEF UnlockUpdate, DecVar2NoMutex, Unlock, Updated, At, Values, shared, After
<1> QED
  BY <1>1, <1>2, <1>3 DEF Values, Late

\* Every step preserves Values.
LEMMA StepValues ==
  ASSUME Control, Values, [Next]_vars
  PROVE  Values'
<1>1. ASSUME NEW t \in Threads,
             \/ Create(t) \/ BeginLoop(t) \/ Return(t) \/ LockCheck(t)
             \/ UnlockCheck(t) \/ Work(t) \/ WorkNoMutex(t) \/ LockUpdate(t)
      PROVE  Values'
  BY <1>1, QuietValues
  DEF Create, BeginLoop, Return, LockCheck, UnlockCheck, Work, WorkNoMutex,
      LockUpdate, Lock, Unlock, At, Goto, Late, shared, history, Control, TypeOK
<1>2. CASE UNCHANGED vars \/ AllCreated \/ SetDone \/ JoinAll \/ Exit
  BY <1>2, QuietValues
  DEF vars, AllCreated, SetDone, JoinAll, Exit, shared, history
<1> QED
  BY <1>1, <1>2, WriteValues, UpdatedValues DEF Next, Step

\* Every step preserves the count of the loops.
LEMMA StepCounted ==
  ASSUME Control, LoopsCounted, [Next]_vars
  PROVE  LoopsCounted'
<1>1. IsFiniteSet(OnTheirWay)
  BY MutexSyncAssumption, FS_Subset DEF OnTheirWay
<1>2. Cardinality(OnTheirWay) \in Nat
  BY <1>1, FS_CardinalityType
<1> USE DEF Control, TypeOK, At, Goto, history
<1>3. ASSUME NEW t \in Threads, BeginLoop(t) PROVE LoopsCounted'
  <2>1. t \notin OnTheirWay /\ OnTheirWay' = OnTheirWay \cup {t}
    BY <1>3 DEF BeginLoop, OnTheirWay
  <2>2. Cardinality(OnTheirWay') = Cardinality(OnTheirWay) + 1
    BY <1>1, <2>1, FS_AddElement
  <2> QED
    BY <1>2, <1>3, <2>2 DEF BeginLoop, LoopsCounted
<1>4. ASSUME NEW t \in Threads, UnlockUpdate(t) \/ DecVar2NoMutex(t)
      PROVE  LoopsCounted'
  <2>1. t \in OnTheirWay /\ OnTheirWay' = OnTheirWay \ {t}
    BY <1>4 DEF UnlockUpdate, Unlock, DecVar2NoMutex, OnTheirWay
  <2>2. Cardinality(OnTheirWay') = Cardinality(OnTheirWay) - 1
    BY <1>1, <2>1, FS_RemoveElement
  <2> QED
    BY <1>2, <1>4, <2>2
    DEF UnlockUpdate, Unlock, DecVar2NoMutex, Updated, LoopsCounted
<1>5. ASSUME OnTheirWay' = OnTheirWay, UNCHANGED <<loops, updates>>
      PROVE  LoopsCounted'
  BY <1>5 DEF LoopsCounted
<1>6. ASSUME NEW t \in Threads,
             \/ Create(t) \/ Return(t) \/ LockCheck(t) \/ Check(t)
             \/ UnlockCheck(t) \/ Work(t) \/ WorkNoMutex(t) \/ LockUpdate(t)
             \/ AddVar1(t) \/ DecVar1(t) \/ AddVar2(t) \/ DecVar2(t)
      PROVE  OnTheirWay' = OnTheirWay /\ UNCHANGED <<loops, updates>>
  BY <1>6
  DEF Create, Return, LockCheck, Check, UnlockCheck, Work, WorkNoMutex,
      LockUpdate, Lock, Unlock, AddVar1, DecVar1, AddVar2, DecVar2, OnTheirWay
<1>7. CASE UNCHANGED vars \/ AllCreated \/ SetDone \/ JoinAll \/ Exit
  BY <1>5, <1>7 DEF vars, AllCreated, SetDone, JoinAll, Exit, OnTheirWay
<1> QED
  BY <1>3, <1>4, <1>5, <1>6, <1>7 DEF Next, Step

\* Every step preserves the invariant.
LEMMA StepIInv == IInv /\ [Next]_vars => IInv'
<1> SUFFICES ASSUME IInv, [Next]_vars PROVE IInv'
  OBVIOUS
<1>1. Control'
  <2>1. CASE UNCHANGED vars
    BY <2>1
    DEF IInv, vars, fixed, shared, history, Control, TypeOK, Undisturbed,
        Inside, Lifetimes
  <2> QED
    BY <2>1, MainControl, ThreadControl DEF IInv, Next
<1> QED
  BY <1>1, StepValues, StepCounted DEF IInv

-----------------------------------------------------------------------------
\* The invariant holds in every state of mutex_sync.c and nomutex.c.
THEOREM SpecIInv == Spec => []IInv
  BY InitIInv, StepIInv, PTL DEF Spec

\* The variables keep their types; var1, var2 and var3 wrap as unsigned.
THEOREM TypeCorrect == Spec => []TypeOK
<1>1. IInv => TypeOK
  BY DEF IInv, Control
<1> QED
  BY <1>1, SpecIInv, PTL

\* mutex_sync.c:158-165: var1 and var2 agree whenever no update is on its way,
\* and no thread ever repairs them.
THEOREM VariablesAgree == Spec => []VarsAgree
<1>1. IInv => VarsAgree
  BY MutexSyncAssumption
  DEF IInv, Control, Values, VarsAgree, Quiet, Undisturbed, Lifetimes, Inside,
      Late
<1> QED
  BY <1>1, SpecIInv, PTL

\* No update is lost, across the wrap too, and main's report comes after the
\* last one.
THEOREM UpdatesCounted == Spec => []CountsUpdates
<1>1. IInv => CountsUpdates
  <2> SUFFICES ASSUME IInv PROVE CountsUpdates
    OBVIOUS
  <2>1. owner = NoThread /\ Quiet => var1 = updates % Modulus
    BY MutexSyncAssumption
    DEF IInv, Control, Values, Quiet, Undisturbed, Lifetimes, Inside, Late,
        Before
  <2>2. ASSUME main = "report" PROVE owner = NoThread /\ updates = loops
    <3>1. OnTheirWay = {}
      BY <2>2 DEF IInv, Control, Lifetimes, OnTheirWay
    <3>2. owner = NoThread
      BY <2>2
      DEF IInv, Control, TypeOK, Lifetimes, Undisturbed, Inside
    <3> QED
      BY <3>1, <3>2, FS_EmptySet DEF IInv, Control, TypeOK, LoopsCounted
  <2> QED
    BY <2>1, <2>2 DEF CountsUpdates
<1> QED
  BY <1>1, SpecIInv, PTL
-----------------------------------------------------------------------------
(* The messages of do_work *)

\* The threads whose piece of work is done and whose update is not.
Worked ==
  {t \in Threads : pc[t] \in
     {"lock_update", "var1_add", "var1_dec", "var2_add", "var2_dec",
      "unlock_update"}}

\* var3 counts the pieces of work, in mutex_sync.c one ahead, and as long as
\* the count has not wrapped the messages follow it.
WorkCounted ==
  Works < Modulus =>
    /\ var3 = IF mutexed THEN (Works + 1) % Modulus ELSE Works
    /\ announced = Works \div WorkPeriod

LEMMA WorksCounts == TypeOK => IsFiniteSet(Worked) /\ Works \in Nat
                               /\ Works = Cardinality(Worked) + updates
<1> SUFFICES ASSUME TypeOK PROVE IsFiniteSet(Worked) /\ Works \in Nat
                                 /\ Works = Cardinality(Worked) + updates
  OBVIOUS
<1>1. IsFiniteSet(Worked)
  BY MutexSyncAssumption, FS_Subset DEF Worked
<1>2. Cardinality(Worked) \in Nat
  BY <1>1, FS_CardinalityType
<1>3. Works = Cardinality(Worked) + updates
  BY DEF Works, Worked
<1> QED
  BY <1>1, <1>2, <1>3 DEF TypeOK

\* A piece of work adds one to the count, and announces what it should.
LEMMA WorkStep ==
  ASSUME Control, Control', WorkCounted, NEW t \in Threads, Work(t) \/ WorkNoMutex(t)
  PROVE  WorkCounted'
<1> USE MutexSyncAssumption
<1>1. /\ Works \in Nat /\ Works' = Works + 1
  <2>1. t \notin Worked /\ Worked' = Worked \cup {t} /\ updates' = updates
    BY DEF Work, WorkNoMutex, At, Goto, Worked, Control, TypeOK
  <2>2. Cardinality(Worked') = Cardinality(Worked) + 1 /\ Cardinality(Worked) \in Nat
    BY <2>1, WorksCounts, FS_AddElement, FS_CardinalityType DEF Control
  <2>3. Works' = Cardinality(Worked') + updates'
    BY DEF Works, Worked
  <2> QED
    BY <2>1, <2>2, <2>3, WorksCounts DEF Control, TypeOK
<1> SUFFICES ASSUME Works + 1 < Modulus
             PROVE  /\ var3' = IF mutexed' THEN (Works + 1 + 1) % Modulus ELSE Works + 1
                    /\ announced' = (Works + 1) \div WorkPeriod
  BY <1>1 DEF WorkCounted
<1>2. /\ var3 = IF mutexed THEN (Works + 1) % Modulus ELSE Works
      /\ announced = Works \div WorkPeriod
  BY <1>1 DEF WorkCounted
<1>3. (Works + 1) % Modulus = Works + 1
  BY <1>1
<1>4. mutexed' = mutexed
  BY DEF Work, WorkNoMutex, At, fixed
<1>5. (Works + 1) \div WorkPeriod =
        announced + (IF (Works + 1) % WorkPeriod = 0 THEN 1 ELSE 0)
  BY <1>1, <1>2, NextQuotient
<1>6. CASE Work(t)
  BY <1>1, <1>2, <1>3, <1>4, <1>5, <1>6 DEF Work, Plus
<1>7. CASE WorkNoMutex(t)
  BY <1>1, <1>2, <1>3, <1>4, <1>5, <1>7 DEF WorkNoMutex, Plus
<1> QED
  BY <1>6, <1>7

\* The other steps leave the count and what follows it alone.
LEMMA OtherSteps ==
  ASSUME Control, Control', WorkCounted, [Next]_vars,
         \A t \in Threads : ~(Work(t) \/ WorkNoMutex(t))
  PROVE  WorkCounted'
<1> USE DEF Control, TypeOK, At, Goto, history
<1>1. ASSUME Works' = Works, UNCHANGED <<var3, mutexed, announced>> PROVE WorkCounted'
  BY <1>1 DEF WorkCounted
<1>2. ASSUME Worked' = Worked, updates' = updates PROVE Works' = Works
  BY <1>2 DEF Works, Worked
<1>3. ASSUME NEW t \in Threads, UnlockUpdate(t) \/ DecVar2NoMutex(t)
      PROVE  WorkCounted'
  <2>1. t \in Worked /\ Worked' = Worked \ {t} /\ updates' = updates + 1
    BY <1>3 DEF UnlockUpdate, Unlock, DecVar2NoMutex, Updated, Worked
  <2>2. /\ Cardinality(Worked') = Cardinality(Worked) - 1
        /\ Cardinality(Worked) \in Nat
    BY <2>1, WorksCounts, FS_RemoveElement, FS_CardinalityType
  <2>3. Works' = Cardinality(Worked') + updates'
    BY DEF Works, Worked
  <2>4. Works' = Works
    BY <2>1, <2>2, <2>3, WorksCounts
  <2>5. UNCHANGED <<var3, mutexed, announced>>
    BY <1>3 DEF UnlockUpdate, Unlock, DecVar2NoMutex, Updated, fixed, shared
  <2> QED
    BY <1>1, <2>4, <2>5
<1>4. ASSUME NEW t \in Threads,
             \/ Create(t) \/ BeginLoop(t) \/ Return(t) \/ LockCheck(t) \/ Check(t)
             \/ UnlockCheck(t) \/ LockUpdate(t)
             \/ AddVar1(t) \/ DecVar1(t) \/ AddVar2(t) \/ DecVar2(t)
      PROVE  WorkCounted'
  <2>1. Worked' = Worked /\ UNCHANGED <<updates, var3, mutexed, announced>>
    BY <1>4
    DEF Create, BeginLoop, Return, LockCheck, Check, UnlockCheck, LockUpdate, Lock,
        Unlock, AddVar1, DecVar1, AddVar2, DecVar2, Worked, fixed, shared
  <2> QED
    BY <1>1, <1>2, <2>1
<1>5. CASE UNCHANGED vars \/ AllCreated \/ SetDone \/ JoinAll \/ Exit
  <2>1. Worked' = Worked /\ UNCHANGED <<updates, var3, mutexed, announced>>
    BY <1>5
    DEF vars, AllCreated, SetDone, JoinAll, Exit, Worked, fixed, shared
  <2> QED
    BY <1>1, <1>2, <2>1
<1> QED
  BY <1>3, <1>4, <1>5 DEF Next, Step

LEMMA InitCounted == Init => WorkCounted
<1> SUFFICES ASSUME Init PROVE WorkCounted
  OBVIOUS
<1> USE MutexSyncAssumption DEF Init, InitNoMutex
<1>1. Worked = {} /\ Works = Cardinality(Worked) + updates
  BY DEF Worked, Works
<1>2. Works = 0
  BY <1>1, FS_EmptySet
<1>3. 1 % Modulus = 1 /\ 0 \div WorkPeriod = 0
  OBVIOUS
<1> QED
  BY <1>2, <1>3 DEF WorkCounted

\* mutex_sync.c:176-178, for any period and any width of var3: one message for
\* every WorkPeriod-th piece of work, none skipped and none twice.
THEOREM MessagesFollowWork == Spec => []EveryPeriodAnnounced
<1>1. IInv /\ IInv' /\ WorkCounted /\ [Next]_vars => WorkCounted'
  BY WorkStep, OtherSteps DEF IInv
<1>2. WorkCounted => EveryPeriodAnnounced
  BY DEF WorkCounted, EveryPeriodAnnounced
<1> QED
  BY <1>1, <1>2, InitCounted, SpecIInv, PTL DEF Spec
=============================================================================
