---------------------------- MODULE KernelProofs ----------------------------
(***************************************************************************)
(* What holds of the scheduler for any number of tasks and any arguments   *)
(* of nice(); of the ids of a task for any ids and programs; of getcwd()   *)
(* for any tasks in any tree; of the user timers for any number of timers, *)
(* any periods and any depth of nested scans; of the floppy driver for any *)
(* requests and any times of its motors, until a request overtakes a       *)
(* reset; and of the allocator of the kernel for any sizes of objects and  *)
(* any number of pages.                                                    *)
(*                                                                         *)
(* Of the timers: what a scan has still to count down follows from the     *)
(* place in the list where it is (BeforePlace), and of a timer that is     *)
(* kept, which is the first one or any before a tick comes during a scan,  *)
(* only the innermost scan can have something in its hands (Exact).        *)
(*                                                                         *)
(* Of the floppy driver: between two events it is in one phase (Phase),    *)
(* which says where it has set out for (Aimed) and that the motor has as   *)
(* many ticks as what it does may still take (Warm, Warming).              *)
(*                                                                         *)
(* Of the allocator: the pointers of the descriptors make lists (Linked)   *)
(* that have each descriptor once (Lists), and a page in a chain has the   *)
(* objects that are used and, on its list, the others (PageFits).          *)
(***************************************************************************)
EXTENDS Sched, Identity, Getcwd, UserTimers, Floppy, Malloc, FiniteSetTheorems, SequenceTheorems,
        WellFoundedInduction, NaturalsInduction, TLAPS

-----------------------------------------------------------------------------
(* The scheduler *)

Counters == [Tasks -> 0 .. 2 * MaxPriority - 1]
States   == [Tasks -> {"RUNNING", "UNINTERRUPTIBLE"}]

\* Half of the old quantum and the priority stay below twice the greatest priority, and above
\* zero: this is why the credit of a task that sleeps does not grow from reload to reload.
LEMMA ReloadedBounds ==
    ASSUME TypeOK, NEW ctr \in Counters
    PROVE  /\ Reloaded(ctr) \in Counters
           /\ \A t \in Tasks : Reloaded(ctr)[t] > 0
  <1>1. ASSUME NEW t \in Tasks
        PROVE  /\ ctr[t] \div 2 + priority[t] \in 0 .. 2 * MaxPriority - 1
               /\ ctr[t] \div 2 + priority[t] > 0
    <2>1. ctr[t] \in 0 .. 2 * MaxPriority - 1 /\ priority[t] \in 1 .. MaxPriority
      BY DEF Counters, TypeOK
    <2>2. ctr[t] \div 2 \in 0 .. MaxPriority - 1
      BY <2>1, MaxPriorityAssumption
    <2> QED
      BY <2>1, <2>2, MaxPriorityAssumption
  <1> QED
    BY <1>1 DEF Reloaded, Counters

\* The quanta by which schedule() chooses, reloaded or not.
LEMMA ConsideredType ==
    ASSUME TypeOK, NEW ctr \in Counters, NEW st \in States
    PROVE  Considered(st, ctr) \in Counters
  BY ReloadedBounds DEF Considered

\* schedule() keeps the types, and picks a task that is runnable and has a quantum, or the idle
\* task when there is none.
LEMMA ScheduleCorrect ==
    ASSUME TypeOK, NEW ctr \in Counters, NEW st \in States, schedule(st, ctr)
    PROVE  /\ counter' \in Counters
           /\ current' \in Tasks \cup {Idle}
           /\ current' # Idle => counter'[current'] > 0
           /\ current' = Idle => Runnable(st) = {}
  <1>1. counter' \in Counters /\ current' \in Tasks \cup {Idle}
    BY ConsideredType DEF schedule
  <1>2. Idle \notin Tasks
    BY DEF Idle, Tasks
  <1>3. ASSUME current' # Idle PROVE counter'[current'] > 0
    <2>1. PICK t \in Tasks : t = current'
      BY <1>1, <1>3
    <2>2. Picks(t, st, Considered(st, ctr))
      BY <1>3, <2>1 DEF schedule
    <2>3. CASE \A u \in Runnable(st) : ctr[u] = 0
      <3>1. Runnable(st) # {}
        BY <2>2 DEF Picks
      <3> QED
        BY <2>1, <2>3, <3>1, ReloadedBounds DEF schedule, Considered
    <2>4. CASE \E u \in Runnable(st) : ctr[u] # 0
      <3>1. PICK u \in Runnable(st) : ctr[u] # 0
        BY <2>4
      <3>2. Considered(st, ctr) = ctr
        BY <3>1 DEF Considered
      <3>3. ctr[u] \in Nat /\ ctr[t] \in Nat /\ ctr[u] > 0
        BY <3>1, <2>1, MaxPriorityAssumption DEF Counters, Runnable
      <3>4. ctr[u] <= ctr[t]
        BY <2>2, <3>1, <3>2, <3>3 DEF Picks
      <3> QED
        BY <2>1, <3>2, <3>3, <3>4 DEF schedule
    <2> QED
      BY <2>3, <2>4
  <1>4. ASSUME current' = Idle PROVE Runnable(st) = {}
    BY <1>2, <1>4 DEF schedule, Picks, Runnable
  <1> QED
    BY <1>1, <1>3, <1>4

\* The quanta after a tick.
LEMMA CountedDownType ==
    ASSUME TypeOK PROVE CountedDown \in Counters
  BY MaxPriorityAssumption DEF TypeOK, Counters, CountedDown

\* The running task is a task.
LEMMA CurrentTask ==
    ASSUME TypeOK, current # Idle PROVE current \in Tasks
  BY DEF TypeOK

\* Each step keeps the types, and a step that gives the processor to another task gives it to
\* one with a quantum, or to the idle task when no other is runnable.
StepCorrect ==
    /\ TypeOK'
    /\ current' \notin {current, Idle} => counter'[current'] > 0
    /\ current' = Idle /\ current # Idle => Runnable(state') = {}

\* The choice of schedule().
LEMMA NextCorrect ==
    ASSUME TypeOK, Next PROVE StepCorrect
  <1> USE DEF Counters, States
  <1>1. CASE do_timer
    BY <1>1, ScheduleCorrect, CountedDownType DEF do_timer, StepCorrect, TypeOK
  <1>2. CASE system_call
    BY <1>2, CurrentTask DEF system_call, StepCorrect, TypeOK
  <1>3. CASE ret_from_sys_call
    BY <1>3, ScheduleCorrect, CurrentTask DEF ret_from_sys_call, InKernel, StepCorrect, TypeOK
  <1>4. CASE sleep_on
    <2>1. state' \in States
      BY <1>4, CurrentTask DEF sleep_on, InKernel, TypeOK
    <2>2. counter \in Counters
      BY DEF TypeOK
    <2>3. schedule(state', counter)
      BY <1>4 DEF sleep_on
    <2>4. /\ counter' \in Counters
          /\ current' \in Tasks \cup {Idle}
          /\ current' # Idle => counter'[current'] > 0
          /\ current' = Idle => Runnable(state') = {}
      BY <2>1, <2>2, <2>3, ScheduleCorrect
    <2> QED
      BY <1>4, <2>1, <2>4 DEF sleep_on, StepCorrect, TypeOK
  <1>5. ASSUME NEW increment \in Increments, sys_nice(increment) PROVE StepCorrect
    <2>1. priority[current] - increment \in 1 .. MaxPriority
      BY <1>5, IncrementsAssumption, CurrentTask DEF sys_nice, InKernel, TypeOK
    <2> QED
      BY <1>5, <2>1, CurrentTask DEF sys_nice, InKernel, StepCorrect, TypeOK
  <1>6. ASSUME NEW t \in Tasks, wake_up(t) PROVE StepCorrect
    BY <1>6 DEF wake_up, StepCorrect, TypeOK
  <1>7. CASE IdlePause
    BY <1>7, ScheduleCorrect DEF IdlePause, StepCorrect, TypeOK
  <1> QED
    BY <1>1, <1>2, <1>3, <1>4, <1>5, <1>6, <1>7 DEF Next

\* The tasks at the start.
LEMMA InitType == Init => TypeOK
  BY MaxPriorityAssumption DEF Init, TypeOK

\* Every step keeps the types and the bounds.
LEMMA BoxCorrect == TypeOK /\ [Next]_vars => TypeOK'
  <1> SUFFICES ASSUME TypeOK, [Next]_vars PROVE TypeOK'
    OBVIOUS
  <1>1. CASE Next
    BY <1>1, NextCorrect DEF StepCorrect
  <1>2. CASE UNCHANGED vars
    BY <1>2 DEF vars, TypeOK
  <1> QED
    BY <1>1, <1>2

\* The types, and in them the bounds of the quanta: no counter reaches twice the greatest
\* priority, however long its task sleeps while the others run, and no priority falls to zero.
THEOREM QuantaBounded == Spec => []TypeOK
  BY InitType, BoxCorrect, PTL DEF Spec

\* schedule() gives the processor only to a task that has ticks left of its quantum, and the idle
\* task never takes it from a runnable task.
THEOREM PicksAreRight == Spec => PicksRight
  <1>1. TypeOK /\ [Next]_vars
          => [/\ current' \notin {current, Idle} => counter'[current'] > 0
              /\ current' = Idle /\ current # Idle => Runnable(state') = {}]_vars
    BY NextCorrect DEF StepCorrect
  <1> QED
    BY <1>1, QuantaBounded, PTL DEF Spec, PicksRight

-----------------------------------------------------------------------------
(* User and group ids *)

\* What a call does to the ids c of a task: they stay ids, who is not root gets none that it has not,
\* and who gets an error keeps all.
Keeps ==
    /\ IdentityTypes'
    /\ ~suser => /\ Uids(cred') \subseteq Uids(cred) \cup SetUids
                 /\ Gids(cred') \subseteq Gids(cred) \cup SetGids
    /\ ret' = EPERM => cred' = cred

\* setreuid(): what it sets was in one of the two ids, and a first id that is put back is the old one.
LEMMA SetreuidKeeps ==
    ASSUME IdentityTypes, NEW ruid \in Args, NEW euid \in Args, setreuid(ruid, euid)
    PROVE  Keeps
  <1>1. cred \in Creds /\ (ruid > 0 => ruid \in Ids) /\ (euid > 0 => euid \in Ids)
    BY IdentityAssumption DEF IdentityTypes, Args, Ids
  <1>2. cred' \in Creds /\ ret' \in {OK, EPERM}
    BY <1>1 DEF setreuid, Return, Creds
  <1>3. ret' = EPERM => cred' = cred
    <2> DEFINE back == [[cred EXCEPT !.uid = IF ruid > 0 THEN ruid ELSE @] EXCEPT !.uid = cred.uid]
    <2>1. back = cred
      BY <1>1 DEF Creds
    <2> HIDE DEF back
    <2>2. ret' = EPERM => cred' \in {cred, back}
      BY DEF setreuid, Return, OK, EPERM, back
    <2> QED
      BY <2>1, <2>2
  <1>4. ~suser => Uids(cred') \subseteq Uids(cred) /\ Gids(cred') = Gids(cred)
    BY <1>1 DEF setreuid, Return, Creds, Uids, Gids
  <1> QED
    BY <1>2, <1>3, <1>4 DEF Keeps, IdentityTypes

\* setregid(): its second test cannot fail for root, and the first changes nothing for the others.
LEMMA SetregidKeeps ==
    ASSUME IdentityTypes, NEW rgid \in Args, NEW egid \in Args, setregid(rgid, egid)
    PROVE  Keeps
  <1>1. cred \in Creds /\ (rgid > 0 => rgid \in Ids) /\ (egid > 0 => egid \in Ids)
    BY IdentityAssumption DEF IdentityTypes, Args, Ids
  <1>2. cred' \in Creds /\ ret' \in {OK, EPERM}
    BY <1>1 DEF setregid, Return, Creds
  <1>3. ret' = EPERM => cred' = cred
    BY <1>1 DEF setregid, Return, Creds, OK, EPERM, suser
  <1>4. ~suser => Gids(cred') \subseteq Gids(cred) /\ Uids(cred') = Uids(cred)
    BY <1>1 DEF setregid, Return, Creds, Uids, Gids
  <1> QED
    BY <1>2, <1>3, <1>4 DEF Keeps, IdentityTypes

\* setuid() and setgid() give the ids of the task itself, but to root.
LEMMA SetuidKeeps ==
    ASSUME IdentityTypes, NEW id \in Ids, setuid(id) \/ setgid(id)
    PROVE  Keeps
  <1>1. cred \in Creds
    BY DEF IdentityTypes
  <1>2. CASE setuid(id)
    <2>1. cred' \in Creds /\ ret' \in {OK, EPERM}
      BY <1>1, <1>2 DEF setuid, Return, Creds
    <2>2. ret' = EPERM => cred' = cred
      BY <1>2 DEF setuid, Return, OK, EPERM
    <2>3. ~suser => Uids(cred') \subseteq Uids(cred) /\ Gids(cred') = Gids(cred)
      BY <1>1, <1>2 DEF setuid, Return, Creds, Uids, Gids
    <2> QED
      BY <2>1, <2>2, <2>3 DEF Keeps, IdentityTypes
  <1>3. CASE setgid(id)
    <2>1. cred' \in Creds /\ ret' \in {OK, EPERM}
      BY <1>1, <1>3 DEF setgid, Return, Creds
    <2>2. ret' = EPERM => cred' = cred
      BY <1>3 DEF setgid, Return, OK, EPERM
    <2>3. ~suser => Gids(cred') \subseteq Gids(cred) /\ Uids(cred') = Uids(cred)
      BY <1>1, <1>3 DEF setgid, Return, Creds, Uids, Gids
    <2> QED
      BY <2>1, <2>2, <2>3 DEF Keeps, IdentityTypes
  <1> QED
    BY <1>2, <1>3

\* execve() gives the ids of a program.
LEMMA ExecveKeeps ==
    ASSUME IdentityTypes, NEW u \in Ids, NEW g \in Ids, execve(u, g)
    PROVE  Keeps
  <1>1. cred \in Creds
    BY DEF IdentityTypes
  <1>2. cred' \in Creds /\ ret' = OK
    BY <1>1 DEF execve, Return, Creds
  <1>3. Uids(cred') \subseteq Uids(cred) \cup SetUids
    BY <1>1 DEF execve, Return, Creds, Uids
  <1>4. Gids(cred') \subseteq Gids(cred) \cup SetGids
    BY <1>1 DEF execve, Return, Creds, Gids
  <1> QED
    BY <1>2, <1>3, <1>4 DEF Keeps, IdentityTypes, OK, EPERM

\* Every call leaves ids.
LEMMA IdentityStep == IdentityTypes /\ [IdentityNext]_identityVars => IdentityTypes'
  BY SetreuidKeeps, SetregidKeeps, SetuidKeeps, ExecveKeeps DEF IdentityNext, Keeps, IdentityTypes, identityVars

\* Root's ids, at the start.
LEMMA IdentityStart == IdentityInit => IdentityTypes
  BY IdentityAssumption DEF IdentityInit, IdentityTypes, Creds, Ids, OK

\* Ids that a task has given up do not come back, and a call that returns an error has left all ids
\* as they were, for any number of ids and any programs.
THEOREM IdsAreKept == IdentitySpec => IdsKept
  <1>1. IdentityTypes /\ [IdentityNext]_identityVars
          => [/\ ~suser => /\ Uids(cred') \subseteq Uids(cred) \cup SetUids
                           /\ Gids(cred') \subseteq Gids(cred) \cup SetGids
              /\ ret' = EPERM => cred' = cred]_identityVars
    BY SetreuidKeeps, SetregidKeeps, SetuidKeeps, ExecveKeeps DEF IdentityNext, Keeps
  <1> QED
    BY <1>1, IdentityStart, IdentityStep, PTL DEF IdentitySpec, IdsKept

-----------------------------------------------------------------------------
(* getcwd() *)

Walks == [pc : Pcs, old : Dirs \cup {None}, dir : Dirs \cup {None}, names : Seq(Dirs)]

\* What is known of a task in getcwd(): it stays below its root, it knows where it has begun, and
\* open(".") has found a descriptor.
WalkIs(t) ==
    /\ root[t] \in Ancestors(pwd[t])
    /\ walk[t].old # None => root[t] \in Ancestors(walk[t].old)
    /\ walk[t].pc \in {"chdir", "getdents"} => walk[t].old # None
    /\ walk[t].pc = "getdents" => root[t] \in Ancestors(walk[t].dir)
    /\ walk[t].pc = "open" => FreeFds(t) # {}
WalksAre == walk \in [Callers -> Walks] /\ \A t \in Callers : WalkIs(t)

GetcwdInv == GetcwdConsistent /\ WalksAre

-----------------------------------------------------------------------------
(* Directories *)

\* A directory below a lies below its parent, which is another than it and than the one above that.
LEMMA Above ==
    ASSUME NEW d \in Dirs, NEW a \in Ancestors(d)
    PROVE  /\ d # a => a \in Ancestors(up[d]) /\ up[d] # d /\ up[up[d]] # d
           /\ a \in Dirs /\ d \in Ancestors(d)
  <1>1. a \in Dirs /\ d \in Ancestors(d)
    BY DEF Ancestors
  <1>2. ASSUME d # a PROVE a \in Ancestors(up[d])
    <2>1. ASSUME NEW S \in SUBSET Dirs, up[d] \in S, \A x \in S : up[x] \in S
          PROVE  a \in S
      <3>1. S \cup {d} \in SUBSET Dirs /\ d \in S \cup {d} /\ \A x \in S \cup {d} : up[x] \in S \cup {d}
        BY <2>1
      <3>2. a \in S \cup {d}
        BY <3>1 DEF Ancestors
      <3> QED
        BY <1>2, <3>2
    <2> QED
      BY <1>1, <2>1 DEF Ancestors
  <1>3. ASSUME up[d] = d PROVE d = a
    <2>1. {d} \in SUBSET Dirs /\ d \in {d} /\ \A x \in {d} : up[x] \in {d}
      BY <1>3
    <2>2. a \in {d}
      BY <2>1 DEF Ancestors
    <2> QED
      BY <2>2
  <1>4. up[up[d]] = d => up[d] = d
    BY GetcwdAssumption
  <1> QED
    BY <1>1, <1>2, <1>3, <1>4

\* getdents() of the directory above finds the directory below by its number.
LEMMA NameIsFound ==
    ASSUME NEW d \in Dirs, NEW a \in Ancestors(d), d # a
    PROVE  my_getdents(up[d], d) = d
  BY Above DEF my_getdents

-----------------------------------------------------------------------------
(* Users of directories *)

One(b) == IF b THEN 1 ELSE 0

\* Two sets that differ in one element at most.
LEMMA OneChanges ==
    ASSUME NEW S, IsFiniteSet(S), NEW A \in SUBSET S, NEW B \in SUBSET S, NEW x \in S,
           \A y \in S \ {x} : y \in A <=> y \in B
    PROVE  /\ Cardinality(B) = Cardinality(A) + (One(x \in B) - One(x \in A))
           /\ Cardinality(A) \in Nat /\ Cardinality(B) \in Nat
  <1>1. IsFiniteSet(A) /\ IsFiniteSet(B)
    BY FS_Subset
  <1>2. Cardinality(A) \in Nat /\ Cardinality(B) \in Nat
    BY <1>1, FS_CardinalityType
  <1>3. CASE x \in A /\ x \notin B
    <2>1. B = A \ {x}
      BY <1>3
    <2> QED
      BY <1>1, <1>2, <1>3, <2>1, FS_RemoveElement DEF One
  <1>4. CASE x \notin A /\ x \in B
    <2>1. B = A \cup {x}
      BY <1>4
    <2> QED
      BY <1>1, <1>2, <1>4, <2>1, FS_AddElement DEF One
  <1>5. CASE x \in A <=> x \in B
    <2>1. B = A
      BY <1>5
    <2> QED
      BY <1>2, <1>5, <2>1 DEF One
  <1> QED
    BY <1>3, <1>4, <1>5

\* A step of one task.
OnlyOf(t) ==
    \A u \in Callers \ {t} : pwd'[u] = pwd[u] /\ walk'[u] = walk[u] /\ filp'[u] = filp[u]

\* The numbers of those that use a directory after a step of one task.
LEMMA TaskSteps ==
    ASSUME NEW t \in Callers, NEW d \in Dirs, OnlyOf(t)
    PROVE  /\ Cardinality(AsPwd(d))' = Cardinality(AsPwd(d)) + (One(pwd'[t] = d) - One(pwd[t] = d))
           /\ Cardinality(AsSearch(d))' = Cardinality(AsSearch(d))
                + (One(walk'[t].pc \in {"open", "chdir"} /\ pwd'[t] = d)
                     - One(walk[t].pc \in {"open", "chdir"} /\ pwd[t] = d))
           /\ Cardinality(AsOld(d))' = Cardinality(AsOld(d))
                + (One(walk'[t].pc \in {"chdir", "getdents"} /\ walk'[t].old = d)
                     - One(walk[t].pc \in {"chdir", "getdents"} /\ walk[t].old = d))
           /\ Cardinality(AsPwd(d)) \in Nat /\ Cardinality(AsSearch(d)) \in Nat /\ Cardinality(AsOld(d)) \in Nat
  <1>1. IsFiniteSet(Callers)
    BY GetcwdAssumption
  <1>2. /\ Cardinality(AsPwd(d))' = Cardinality(AsPwd(d)) + (One(t \in AsPwd(d)') - One(t \in AsPwd(d)))
        /\ Cardinality(AsPwd(d)) \in Nat
    <2>1. AsPwd(d) \in SUBSET Callers /\ AsPwd(d)' \in SUBSET Callers
          /\ \A y \in Callers \ {t} : y \in AsPwd(d) <=> y \in AsPwd(d)'
      BY DEF AsPwd, OnlyOf
    <2> QED
      BY <1>1, <2>1, OneChanges
  <1>3. /\ Cardinality(AsSearch(d))' = Cardinality(AsSearch(d)) + (One(t \in AsSearch(d)') - One(t \in AsSearch(d)))
        /\ Cardinality(AsSearch(d)) \in Nat
    <2>1. AsSearch(d) \in SUBSET Callers /\ AsSearch(d)' \in SUBSET Callers
          /\ \A y \in Callers \ {t} : y \in AsSearch(d) <=> y \in AsSearch(d)'
      BY DEF AsSearch, OnlyOf
    <2> QED
      BY <1>1, <2>1, OneChanges
  <1>4. /\ Cardinality(AsOld(d))' = Cardinality(AsOld(d)) + (One(t \in AsOld(d)') - One(t \in AsOld(d)))
        /\ Cardinality(AsOld(d)) \in Nat
    <2>1. AsOld(d) \in SUBSET Callers /\ AsOld(d)' \in SUBSET Callers
          /\ \A y \in Callers \ {t} : y \in AsOld(d) <=> y \in AsOld(d)'
      BY DEF AsOld, OnlyOf
    <2> QED
      BY <1>1, <2>1, OneChanges
  <1>5. /\ (t \in AsPwd(d)) = (pwd[t] = d) /\ (t \in AsPwd(d)') = (pwd'[t] = d)
        /\ (t \in AsSearch(d)) = (walk[t].pc \in {"open", "chdir"} /\ pwd[t] = d)
        /\ (t \in AsSearch(d)') = (walk'[t].pc \in {"open", "chdir"} /\ pwd'[t] = d)
        /\ (t \in AsOld(d)) = (walk[t].pc \in {"chdir", "getdents"} /\ walk[t].old = d)
        /\ (t \in AsOld(d)') = (walk'[t].pc \in {"chdir", "getdents"} /\ walk'[t].old = d)
    BY DEF AsPwd, AsSearch, AsOld
  <1> QED
    BY <1>2, <1>3, <1>4, <1>5

\* The number of the descriptors that have a directory open, after one has changed.
LEMMA FileSteps ==
    ASSUME NEW t \in Callers, NEW h \in Fds, NEW d \in Dirs,
           \A x \in (Callers \X Fds) \ {<<t, h>>} : filp'[x[1]][x[2]] = filp[x[1]][x[2]]
    PROVE  /\ Cardinality(AsFile(d))' = Cardinality(AsFile(d)) + (One(filp'[t][h] = d) - One(filp[t][h] = d))
           /\ Cardinality(AsFile(d)) \in Nat
  <1>1. IsFiniteSet(Callers \X Fds)
    <2>1. IsFiniteSet(1 .. NR_OPEN)
      BY GetcwdAssumption, FS_Interval
    <2> QED
      BY <2>1, GetcwdAssumption, FS_Product DEF Fds
  <1>2. AsFile(d) \in SUBSET (Callers \X Fds) /\ AsFile(d)' \in SUBSET (Callers \X Fds)
        /\ \A y \in (Callers \X Fds) \ {<<t, h>>} : y \in AsFile(d) <=> y \in AsFile(d)'
    BY DEF AsFile
  <1>3. <<t, h>> \in Callers \X Fds
    OBVIOUS
  <1>4. /\ Cardinality(AsFile(d))' = Cardinality(AsFile(d)) + (One(<<t, h>> \in AsFile(d)') - One(<<t, h>> \in AsFile(d)))
        /\ Cardinality(AsFile(d)) \in Nat
    BY <1>1, <1>2, <1>3, OneChanges
  <1>5. /\ (<<t, h>> \in AsFile(d)) = (filp[t][h] = d)
        /\ (<<t, h>> \in AsFile(d)') = (filp'[t][h] = d)
    BY DEF AsFile
  <1> QED
    BY <1>4, <1>5
-----------------------------------------------------------------------------
(* Paths *)

\* The names of a walk w in directory p, up to the root r.
Reached(w) == IF w.names = <<>> THEN w.old ELSE up[w.names[Len(w.names)]]
PathOf(w, p, r) ==
    /\ \A i \in 1 .. Len(w.names) : /\ w.names[i] \in Dirs \ {r}
                                    /\ w.names[i] = IF i = 1 THEN w.old ELSE up[w.names[i - 1]]
    /\ w.pc \in {"chdir", "getdents"} => w.dir = Reached(w)
    /\ w.pc = "chdir" => p = Reached(w)
    /\ w.pc = "getdents" => w.dir # r /\ p = up[Reached(w)]
    /\ w.pc = "user" /\ w.old # None => Reached(w) = r /\ p = w.old

\* The property, task by task.
LEMMA PathsAre ==
    ASSUME walk \in [Callers -> Walks]
    PROVE  NamesAreThePath <=> \A t \in Callers : PathOf(walk[t], pwd[t], root[t])
  <1>1. \A t \in Callers : (Len(walk[t].names) = 0) <=> (walk[t].names = <<>>)
    BY DEF Walks
  <1> QED
    BY <1>1 DEF NamesAreThePath, PathOf, Reached

\* A walk that has no name yet.
LEMMA FirstPath ==
    ASSUME NEW w \in Walks, NEW p, NEW r, w.names = <<>>,
           w.pc \in {"chdir", "getdents"} => w.dir = w.old,
           w.pc = "chdir" => p = w.old,
           w.pc # "getdents",
           w.pc # "user" \/ w.old = None
    PROVE  PathOf(w, p, r)
  BY DEF PathOf, Reached, Walks

\* A walk that has found one more.
LEMMA LongerPath ==
    ASSUME NEW w \in Walks, NEW p \in Dirs, NEW r \in Dirs, w.pc = "getdents", w.old # None, PathOf(w, p, r),
           NEW v \in Walks, v.pc = "chdir", v.old = w.old, v.dir = p, v.names = Append(w.names, w.dir)
    PROVE  PathOf(v, p, r)
  <1>1. w.names \in Seq(Dirs) /\ w.dir = Reached(w) /\ w.dir # r /\ p = up[w.dir]
    BY DEF PathOf, Walks
  <1>2. w.dir \in Dirs
    BY GetcwdAssumption, <1>1 DEF Walks, Reached, PathOf, None
  <1>3. PICK n \in Nat : n = Len(w.names)
    BY <1>1
  <1>4. /\ v.names \in Seq(Dirs) /\ Len(v.names) = n + 1 /\ v.names[n + 1] = w.dir /\ v.names # <<>>
        /\ \A i \in 1 .. n : v.names[i] = w.names[i]
    BY <1>1, <1>2, <1>3
  <1>5. Reached(v) = p
    BY <1>1, <1>4 DEF Reached
  <1>6. Reached(w) = IF n = 0 THEN w.old ELSE up[w.names[n]]
    BY <1>1, <1>3 DEF Reached
  <1>7. ASSUME NEW i \in 1 .. n + 1
        PROVE  /\ v.names[i] \in Dirs \ {r}
               /\ v.names[i] = IF i = 1 THEN v.old ELSE up[v.names[i - 1]]
    <2>1. CASE i = n + 1
      BY <1>1, <1>2, <1>3, <1>4, <1>6, <2>1
    <2>2. CASE i # n + 1
      <3>1. i \in 1 .. n /\ (i # 1 => i - 1 \in 1 .. n)
        BY <1>3, <2>2
      <3> QED
        BY <1>3, <1>4, <3>1 DEF PathOf
    <2> QED
      BY <2>1, <2>2
  <1> QED
    BY <1>4, <1>5, <1>7 DEF PathOf

\* A walk whose names stay.
LEMMA SamePath ==
    ASSUME NEW w \in Walks, NEW p, NEW r, w.pc = "chdir", PathOf(w, p, r),
           NEW v \in Walks, v.old = w.old, v.dir = w.dir, v.names = w.names, NEW q,
           \/ v.pc = "getdents" /\ w.dir # r /\ q = up[p]
           \/ v.pc = "user" /\ w.dir = r /\ q = w.old
    PROVE  PathOf(v, q, r)
  <1>1. Reached(v) = Reached(w) /\ Reached(w) = w.dir /\ p = w.dir
    BY DEF PathOf, Reached
  <1> QED
    BY <1>1 DEF PathOf
\* The least descriptor of a set.
LEMMA LeastIn ==
    ASSUME NEW T \in SUBSET Nat, T # {}
    PROVE  Min(T) \in T
  <1> DEFINE R == OpToRel(<, Nat)
  <1>1. IsWellFoundedOn(R, Nat)
    BY NatLessThanWellFounded
  <1>2. PICK x \in T : \A y \in T : ~(<<y, x>> \in R)
    BY <1>1, WFMin
  <1>3. \A y \in T : ~(y < x)
    BY <1>2 DEF OpToRel
  <1>4. \A y \in T : x <= y
    BY <1>3
  <1> QED
    BY <1>4 DEF Min

-----------------------------------------------------------------------------
(* Steps *)

CountsAre ==
    /\ i_count \in [Dirs -> Int] /\ b_count \in [Dirs -> 0 .. Counts - 1]
    /\ filp \in [Callers -> [Fds -> Dirs \cup {None}]]
    /\ pwd \in [Callers -> Dirs] /\ calls \in 0 .. MaxCalls /\ panic \in BOOLEAN

\* The types of the variables but walk.
LEMMA TypesAre == WalksAre => (GetcwdTypes <=> CountsAre)
  BY DEF WalksAre, Walks, GetcwdTypes, CountsAre

\* A step of one task keeps the invariant if it does so for the task and the counts.
LEMMA StepKeeps ==
    ASSUME GetcwdInv, NEW t \in Callers, OnlyOf(t), CountsAre', UsersAreCounted',
           walk' \in [Callers -> Walks], WalkIs(t)', PathOf(walk'[t], pwd'[t], root[t])
    PROVE  GetcwdInv'
  <1>1. ASSUME NEW u \in Callers PROVE WalkIs(u)'
    <2>1. CASE u = t
      BY <2>1
    <2>2. CASE u # t
      BY <2>2 DEF OnlyOf, GetcwdInv, WalksAre, WalkIs, FreeFds
    <2> QED
      BY <2>1, <2>2
  <1>2. WalksAre'
    BY <1>1 DEF WalksAre
  <1>3. \A u \in Callers : PathOf(walk[u], pwd[u], root[u])
    BY PathsAre DEF GetcwdInv, GetcwdConsistent, WalksAre
  <1>4. \A u \in Callers : PathOf(walk'[u], pwd'[u], root[u])
    BY <1>3 DEF OnlyOf
  <1>5. NamesAreThePath' <=> \A u \in Callers : PathOf(walk'[u], pwd'[u], root[u])
    <2>1. \A u \in Callers : (Len(walk'[u].names) = 0) <=> (walk'[u].names = <<>>)
      BY DEF Walks
    <2> QED
      BY <2>1 DEF NamesAreThePath, PathOf, Reached
  <1>6. GetcwdTypes'
    BY <1>2, TypesAre, PTL
  <1> QED
    BY <1>2, <1>4, <1>5, <1>6 DEF GetcwdInv, GetcwdConsistent

\* What a step relies on.
LEMMA InvIs ==
    ASSUME GetcwdInv, NEW t \in Callers
    PROVE  /\ CountsAre /\ walk \in [Callers -> Walks] /\ walk[t] \in Walks /\ WalkIs(t)
           /\ PathOf(walk[t], pwd[t], root[t]) /\ pwd[t] \in Dirs /\ root[t] \in Dirs
           /\ \A d \in Dirs : up[d] \in Dirs
  BY TypesAre, PathsAre, GetcwdAssumption DEF GetcwdInv, GetcwdConsistent, WalksAre, CountsAre

\* The users of a directory after a step, by those before.
LEMMA UsersKeep ==
    ASSUME GetcwdInv, NEW t \in Callers, NEW h \in Fds, OnlyOf(t),
           \A f \in Fds \ {h} : filp'[t][f] = filp[t][f],
           \A d \in Dirs : i_count'[d] >= i_count[d]
               + (One(pwd'[t] = d) - One(pwd[t] = d))
               + (One(walk'[t].pc \in {"open", "chdir"} /\ pwd'[t] = d)
                    - One(walk[t].pc \in {"open", "chdir"} /\ pwd[t] = d))
               + (One(walk'[t].pc \in {"chdir", "getdents"} /\ walk'[t].old = d)
                    - One(walk[t].pc \in {"chdir", "getdents"} /\ walk[t].old = d))
               + (One(filp'[t][h] = d) - One(filp[t][h] = d)),
           i_count' \in [Dirs -> Int]
    PROVE  UsersAreCounted'
  <1>1. \A x \in (Callers \X Fds) \ {<<t, h>>} : filp'[x[1]][x[2]] = filp[x[1]][x[2]]
    BY DEF OnlyOf
  <1>2. ASSUME NEW d \in Dirs
        PROVE  i_count'[d] >= Cardinality(AsPwd(d))' + Cardinality(AsSearch(d))'
                                + Cardinality(AsOld(d))' + Cardinality(AsFile(d))'
    <2>1. i_count[d] \in Int /\ i_count'[d] \in Int
      BY InvIs DEF CountsAre
    <2>2. i_count[d] >= Cardinality(AsPwd(d)) + Cardinality(AsSearch(d)) + Cardinality(AsOld(d)) + Cardinality(AsFile(d))
      BY DEF GetcwdInv, GetcwdConsistent, UsersAreCounted
    <2> DEFINE p == One(pwd'[t] = d) - One(pwd[t] = d)
               r == One(walk'[t].pc \in {"open", "chdir"} /\ pwd'[t] = d)
                      - One(walk[t].pc \in {"open", "chdir"} /\ pwd[t] = d)
               o == One(walk'[t].pc \in {"chdir", "getdents"} /\ walk'[t].old = d)
                      - One(walk[t].pc \in {"chdir", "getdents"} /\ walk[t].old = d)
               f == One(filp'[t][h] = d) - One(filp[t][h] = d)
    <2>3. p \in Int /\ r \in Int /\ o \in Int /\ f \in Int
      BY DEF One
    <2>4. /\ Cardinality(AsPwd(d))' = Cardinality(AsPwd(d)) + p
          /\ Cardinality(AsSearch(d))' = Cardinality(AsSearch(d)) + r
          /\ Cardinality(AsOld(d))' = Cardinality(AsOld(d)) + o
          /\ Cardinality(AsPwd(d)) \in Nat /\ Cardinality(AsSearch(d)) \in Nat /\ Cardinality(AsOld(d)) \in Nat
      BY TaskSteps
    <2>5. /\ Cardinality(AsFile(d))' = Cardinality(AsFile(d)) + f
          /\ Cardinality(AsFile(d)) \in Nat
      BY <1>1, FileSteps
    <2>6. i_count'[d] >= i_count[d] + p + r + o + f
      OBVIOUS
    <2> HIDE DEF p, r, o, f
    <2> QED
      BY <2>1, <2>2, <2>3, <2>4, <2>5, <2>6
  <1> QED
    BY <1>2 DEF UsersAreCounted
-----------------------------------------------------------------------------
(* The actions *)

\* getcwd() finds a descriptor, or not.
LEMMA StartKeeps ==
    ASSUME GetcwdInv, NEW t \in Callers, sys_getcwd(t)
    PROVE  GetcwdInv'
  <1>1. /\ CountsAre /\ walk \in [Callers -> Walks] /\ walk[t] \in Walks /\ WalkIs(t)
        /\ PathOf(walk[t], pwd[t], root[t]) /\ pwd[t] \in Dirs /\ root[t] \in Dirs
    BY InvIs
  <1>2. CountsAre'
    <2>1. i_count' \in [Dirs -> Int]
      BY <1>1 DEF CountsAre, sys_getcwd, my_namei, get_dir, iget
    <2>2. b_count' \in [Dirs -> 0 .. Counts - 1]
      BY <1>1 DEF CountsAre, sys_getcwd, my_namei, bread, Counts
    <2>3. calls' \in 0 .. MaxCalls /\ filp' = filp /\ pwd' = pwd /\ panic' = panic
      BY <1>1, GetcwdAssumption DEF CountsAre, sys_getcwd
    <2> QED
      BY <1>1, <2>1, <2>2, <2>3 DEF CountsAre
  <1>3. OnlyOf(t)
    BY <1>1 DEF OnlyOf, sys_getcwd
  <1>4. 1 \in Fds
    BY GetcwdAssumption DEF Fds
  <1>5. CASE FreeFds(t) = {}
    <2>1. i_count' = i_count /\ pwd' = pwd /\ walk' = walk /\ filp' = filp
      BY <1>5 DEF sys_getcwd
    <2>2. UsersAreCounted'
      BY <2>1 DEF GetcwdInv, GetcwdConsistent, UsersAreCounted, AsPwd, AsSearch, AsOld, AsFile
    <2>3. WalkIs(t)'
      BY <1>1, <2>1 DEF WalkIs, FreeFds
    <2> QED
      BY <1>1, <1>2, <1>3, <2>1, <2>2, <2>3, StepKeeps
  <1>6. CASE FreeFds(t) # {}
    <2>1. /\ i_count' = [i_count EXCEPT ![pwd[t]] = @ + 1] /\ pwd' = pwd /\ filp' = filp
          /\ walk' = [walk EXCEPT ![t] = [AtUser EXCEPT !.pc = "open"]]
      BY <1>6 DEF sys_getcwd, my_namei, get_dir, iget
    <2>2. walk' \in [Callers -> Walks] /\ walk'[t].pc = "open" /\ walk'[t].old = None /\ walk'[t].names = <<>>
      <3>1. [AtUser EXCEPT !.pc = "open"] = [pc |-> "open", old |-> None, dir |-> None, names |-> <<>>]
        BY DEF AtUser
      <3> DEFINE v == [pc |-> "open", old |-> None, dir |-> None, names |-> <<>>]
      <3>2. v \in Walks /\ v.pc = "open" /\ v.old = None /\ v.names = <<>>
        BY DEF Walks, Pcs
      <3>3. walk' = [walk EXCEPT ![t] = v]
        BY <2>1, <3>1
      <3> HIDE DEF v
      <3> QED
        BY <1>1, <3>2, <3>3
    <2>3. walk[t].pc = "user"
      BY DEF sys_getcwd, At
    <2>4. UsersAreCounted'
      <3>1. i_count' \in [Dirs -> Int] /\ \A x \in Dirs : i_count'[x] = i_count[x] + One(x = pwd[t])
        BY <1>1, <2>1 DEF One, CountsAre
      <3>2. ASSUME NEW x \in Dirs
            PROVE  i_count'[x] >= i_count[x]
                     + (One(pwd'[t] = x) - One(pwd[t] = x))
                     + (One(walk'[t].pc \in {"open", "chdir"} /\ pwd'[t] = x)
                          - One(walk[t].pc \in {"open", "chdir"} /\ pwd[t] = x))
                     + (One(walk'[t].pc \in {"chdir", "getdents"} /\ walk'[t].old = x)
                          - One(walk[t].pc \in {"chdir", "getdents"} /\ walk[t].old = x))
                     + (One(filp'[t][1] = x) - One(filp[t][1] = x))
        BY <1>1, <2>1, <2>2, <2>3, <3>1 DEF One, CountsAre
      <3> QED
        BY <1>3, <1>4, <2>1, <3>1, <3>2, UsersKeep
    <2>5. WalkIs(t)'
      BY <1>1, <1>6, <2>1, <2>2 DEF WalkIs, FreeFds
    <2>6. PathOf(walk'[t], pwd'[t], root[t])
      BY <2>2, FirstPath
    <2> QED
      BY <1>2, <1>3, <2>2, <2>4, <2>5, <2>6, StepKeeps
  <1> QED
    BY <1>5, <1>6

\* open(".") gives back one directory and counts three.
LEMMA OpenedKeeps ==
    ASSUME GetcwdInv, NEW t \in Callers, Opened(t)
    PROVE  GetcwdInv'
  <1>1. /\ CountsAre /\ walk \in [Callers -> Walks] /\ walk[t] \in Walks /\ WalkIs(t)
        /\ pwd[t] \in Dirs /\ root[t] \in Dirs
    BY InvIs
  <1>2. PICK d : d = pwd[t]
    OBVIOUS
  <1>3. PICK h \in FreeFds(t) : h = Min(FreeFds(t))
    <2>1. FreeFds(t) \in SUBSET Nat /\ FreeFds(t) # {}
      BY <1>1, GetcwdAssumption DEF FreeFds, Fds, WalkIs, Opened, At
    <2> QED
      BY <2>1, LeastIn
  <1>4. /\ i_count' = [[[[i_count EXCEPT ![d] = @ - 1] EXCEPT ![d] = @ + 1] EXCEPT ![d] = @ + 1] EXCEPT ![d] = @ + 1]
        /\ b_count' = bread(brelse(b_count, d), d)
        /\ filp' = [filp EXCEPT ![t][h] = d] /\ pwd' = pwd /\ calls' = calls
        /\ panic' \in BOOLEAN
        /\ walk' = [walk EXCEPT ![t] = [pc |-> "chdir", old |-> d, dir |-> d, names |-> <<>>]]
    BY <1>1, <1>2, <1>3 DEF Opened, my_namei, get_dir, found, find_entry, iget, iput, Panics, CountsAre
  <1>5. d \in Dirs /\ h \in Fds /\ filp[t][h] = None /\ d # None
    BY <1>1, <1>2, <1>3, GetcwdAssumption DEF FreeFds, None
  <1>6. b_count' \in [Dirs -> 0 .. Counts - 1]
    BY <1>1, <1>4, <1>5 DEF bread, brelse, Counts, CountsAre
  <1>7. i_count' \in [Dirs -> Int] /\ \A x \in Dirs : i_count'[x] = i_count[x] + (IF x = d THEN 2 ELSE 0)
    BY <1>1, <1>4, <1>5 DEF CountsAre
  <1>8. CountsAre'
    BY <1>1, <1>4, <1>5, <1>6, <1>7 DEF CountsAre
  <1>9. OnlyOf(t)
    BY <1>1, <1>4 DEF OnlyOf, CountsAre
  <1>10. /\ walk' \in [Callers -> Walks] /\ walk'[t].pc = "chdir" /\ walk'[t].old = d
         /\ walk'[t].dir = d /\ walk'[t].names = <<>>
    BY <1>1, <1>4, <1>5 DEF Walks, Pcs
  <1>11. walk[t].pc = "open"
    BY DEF Opened, At
  <1>12. filp'[t][h] = d /\ \A f \in Fds \ {h} : filp'[t][f] = filp[t][f]
    BY <1>1, <1>4, <1>5 DEF CountsAre
  <1>13. UsersAreCounted'
    BY <1>1, <1>2, <1>4, <1>5, <1>7, <1>9, <1>10, <1>11, <1>12, UsersKeep DEF One, CountsAre
  <1>14. WalkIs(t)'
    BY <1>1, <1>2, <1>4, <1>5, <1>10 DEF WalkIs
  <1>15. PathOf(walk'[t], pwd'[t], root[t])
    BY <1>2, <1>4, <1>10, FirstPath
  <1> QED
    BY <1>8, <1>9, <1>10, <1>13, <1>14, <1>15, StepKeeps

\* chdir("..") on the way, and at the root, where getcwd() returns.
LEMMA ChdirKeeps ==
    ASSUME GetcwdInv, NEW t \in Callers, Chdir(t)
    PROVE  GetcwdInv'
  <1>1. /\ CountsAre /\ walk \in [Callers -> Walks] /\ walk[t] \in Walks /\ WalkIs(t)
        /\ PathOf(walk[t], pwd[t], root[t]) /\ pwd[t] \in Dirs /\ root[t] \in Dirs
        /\ \A d \in Dirs : up[d] \in Dirs
    BY InvIs
  <1>2. PICK d \in Dirs : d = pwd[t]
    BY <1>1
  <1>3. PICK h \in Fds : h = 1
    BY GetcwdAssumption DEF Fds
  <1>4. /\ walk[t].pc = "chdir" /\ filp' = filp /\ calls' = calls /\ panic' \in BOOLEAN
        /\ walk[t].old \in Dirs /\ walk[t].dir = d
    BY <1>1, <1>2 DEF Chdir, At, Panics, CountsAre, WalkIs, PathOf, Walks
  <1>5. CASE walk[t].dir # root[t]
    <2>1. /\ i_count' = [[[i_count EXCEPT ![d] = @ - 1] EXCEPT ![up[d]] = @ + 1] EXCEPT ![d] = @ - 1]
          /\ b_count' = bread(brelse(b_count, d), up[d])
          /\ pwd' = [pwd EXCEPT ![t] = up[d]]
          /\ walk' = [walk EXCEPT ![t].pc = "getdents"]
      BY <1>2, <1>5 DEF Chdir, found, find_entry, iget, iput
    <2>2. b_count' \in [Dirs -> 0 .. Counts - 1]
      BY <1>1, <2>1 DEF bread, brelse, Counts, CountsAre
    <2>3. /\ i_count' \in [Dirs -> Int]
          /\ \A x \in Dirs : i_count'[x] = i_count[x] - (IF x = d THEN 2 ELSE 0) + (IF x = up[d] THEN 1 ELSE 0)
      BY <1>1, <2>1 DEF CountsAre
    <2>4. CountsAre'
      BY <1>1, <1>4, <2>1, <2>2, <2>3 DEF CountsAre
    <2>5. OnlyOf(t) /\ pwd'[t] = up[d]
      BY <1>1, <1>4, <2>1 DEF OnlyOf, CountsAre
    <2>6. /\ walk' \in [Callers -> Walks] /\ walk'[t].pc = "getdents" /\ walk'[t].old = walk[t].old
          /\ walk'[t].dir = walk[t].dir /\ walk'[t].names = walk[t].names
      BY <1>1, <2>1 DEF Walks, Pcs
    <2>7. UsersAreCounted'
      BY <1>1, <1>2, <1>3, <1>4, <2>3, <2>5, <2>6, UsersKeep DEF One, CountsAre
    <2>8. WalkIs(t)'
      <3>1. root[t] \in Ancestors(up[d])
        BY <1>1, <1>2, <1>4, <1>5, Above DEF WalkIs
      <3> QED
        BY <1>1, <1>2, <1>4, <2>5, <2>6, <3>1 DEF WalkIs
    <2>9. PathOf(walk'[t], pwd'[t], root[t])
      BY <1>1, <1>2, <1>4, <1>5, <2>5, <2>6, SamePath
    <2> QED
      BY <2>4, <2>5, <2>6, <2>7, <2>8, <2>9, StepKeeps
  <1>6. CASE walk[t].dir = root[t]
    <2>1. /\ i_count' = [[[[i_count EXCEPT ![d] = @ - 1] EXCEPT ![up[d]] = @ + 1] EXCEPT ![d] = @ - 1]
                           EXCEPT ![up[d]] = @ - 1]
          /\ b_count' = brelse(b_count, d)
          /\ pwd' = [pwd EXCEPT ![t] = walk[t].old]
          /\ walk' = [walk EXCEPT ![t].pc = "user"]
      BY <1>2, <1>6 DEF Chdir, found, find_entry, iget, iput
    <2>2. b_count' \in [Dirs -> 0 .. Counts - 1]
      BY <1>1, <2>1 DEF brelse, Counts, CountsAre
    <2>3. i_count' \in [Dirs -> Int] /\ \A x \in Dirs : i_count'[x] = i_count[x] - (IF x = d THEN 2 ELSE 0)
      BY <1>1, <2>1 DEF CountsAre
    <2>4. CountsAre'
      BY <1>1, <1>4, <2>1, <2>2, <2>3 DEF CountsAre
    <2>5. OnlyOf(t) /\ pwd'[t] = walk[t].old
      BY <1>1, <1>4, <2>1 DEF OnlyOf, CountsAre
    <2>6. /\ walk' \in [Callers -> Walks] /\ walk'[t].pc = "user" /\ walk'[t].old = walk[t].old
          /\ walk'[t].dir = walk[t].dir /\ walk'[t].names = walk[t].names
      BY <1>1, <2>1 DEF Walks, Pcs
    <2>7. UsersAreCounted'
      BY <1>1, <1>2, <1>3, <1>4, <2>3, <2>5, <2>6, UsersKeep DEF One, CountsAre
    <2>8. WalkIs(t)'
      BY <1>1, <1>4, <2>5, <2>6 DEF WalkIs
    <2>9. PathOf(walk'[t], pwd'[t], root[t])
      BY <1>1, <1>2, <1>4, <1>6, <2>5, <2>6, SamePath
    <2> QED
      BY <2>4, <2>5, <2>6, <2>7, <2>8, <2>9, StepKeeps
  <1> QED
    BY <1>5, <1>6

\* getdents() finds the name of the directory below.
LEMMA GetdentsKeeps ==
    ASSUME GetcwdInv, NEW t \in Callers, Getdents(t)
    PROVE  GetcwdInv'
  <1>1. /\ CountsAre /\ walk \in [Callers -> Walks] /\ walk[t] \in Walks /\ WalkIs(t)
        /\ PathOf(walk[t], pwd[t], root[t]) /\ pwd[t] \in Dirs /\ root[t] \in Dirs
        /\ \A d \in Dirs : up[d] \in Dirs
    BY InvIs
  <1>2. PICK d \in Dirs : d = pwd[t]
    BY <1>1
  <1>3. PICK h \in Fds : h = 1
    BY GetcwdAssumption DEF Fds
  <1>4. /\ walk[t].pc = "getdents" /\ filp' = filp /\ calls' = calls /\ panic' = panic /\ pwd' = pwd
        /\ walk[t].old \in Dirs /\ walk[t].names \in Seq(Dirs)
    BY <1>1 DEF Getdents, At, WalkIs, Walks
  <1>5. my_getdents(pwd[t], walk[t].dir) = walk[t].dir /\ walk[t].dir \in Dirs
    <2>1. walk[t].dir = Reached(walk[t]) /\ walk[t].dir # root[t] /\ pwd[t] = up[walk[t].dir]
      BY <1>1, <1>4 DEF PathOf
    <2>2. walk[t].dir \in Dirs
      BY <1>1, <1>4, <2>1 DEF Reached, PathOf
    <2>3. root[t] \in Ancestors(walk[t].dir)
      BY <1>1, <1>4, <2>1 DEF WalkIs
    <2> QED
      BY <2>1, <2>2, <2>3, NameIsFound
  <1>6. /\ i_count' = [[i_count EXCEPT ![d] = @ + 1] EXCEPT ![d] = @ + 1]
        /\ b_count' = bread(b_count, d)
        /\ walk' = [walk EXCEPT ![t].pc = "chdir", ![t].dir = d, ![t].names = Append(@, walk[t].dir)]
    BY <1>2, <1>5 DEF Getdents, my_namei, get_dir, iget
  <1>7. b_count' \in [Dirs -> 0 .. Counts - 1]
    BY <1>1, <1>6 DEF bread, Counts, CountsAre
  <1>8. i_count' \in [Dirs -> Int] /\ \A x \in Dirs : i_count'[x] = i_count[x] + (IF x = d THEN 2 ELSE 0)
    BY <1>1, <1>6 DEF CountsAre
  <1>9. CountsAre'
    BY <1>1, <1>4, <1>7, <1>8 DEF CountsAre
  <1>10. OnlyOf(t)
    BY <1>1, <1>4, <1>6 DEF OnlyOf
  <1>11. Append(walk[t].names, walk[t].dir) \in Seq(Dirs)
    BY <1>4, <1>5
  <1>12. /\ walk' \in [Callers -> Walks] /\ walk'[t].pc = "chdir" /\ walk'[t].old = walk[t].old
         /\ walk'[t].dir = d /\ walk'[t].names = Append(walk[t].names, walk[t].dir)
    <2> DEFINE v == [walk[t] EXCEPT !.pc = "chdir", !.dir = d, !.names = Append(walk[t].names, walk[t].dir)]
    <2>1. /\ v \in Walks /\ v.pc = "chdir" /\ v.old = walk[t].old
          /\ v.dir = d /\ v.names = Append(walk[t].names, walk[t].dir)
      BY <1>1, <1>11 DEF Walks, Pcs
    <2>2. walk' = [walk EXCEPT ![t] = v]
      BY <1>1, <1>6
    <2> HIDE DEF v
    <2> QED
      BY <1>1, <2>1, <2>2
  <1>13. UsersAreCounted'
    <2>1. \A x \in Dirs : i_count[x] \in Int
      BY <1>1 DEF CountsAre
    <2>2. ASSUME NEW x \in Dirs
          PROVE  i_count'[x] >= i_count[x]
                   + (One(pwd'[t] = x) - One(pwd[t] = x))
                   + (One(walk'[t].pc \in {"open", "chdir"} /\ pwd'[t] = x)
                        - One(walk[t].pc \in {"open", "chdir"} /\ pwd[t] = x))
                   + (One(walk'[t].pc \in {"chdir", "getdents"} /\ walk'[t].old = x)
                        - One(walk[t].pc \in {"chdir", "getdents"} /\ walk[t].old = x))
                   + (One(filp'[t][h] = x) - One(filp[t][h] = x))
      BY <1>2, <1>4, <1>8, <1>12, <2>1 DEF One
    <2> QED
      BY <1>4, <1>8, <1>10, <2>2, UsersKeep
  <1>14. WalkIs(t)'
    BY <1>1, <1>4, <1>12 DEF WalkIs
  <1>15. PathOf(walk'[t], pwd'[t], root[t])
    BY <1>1, <1>2, <1>4, <1>12, LongerPath, GetcwdAssumption DEF None
  <1> QED
    BY <1>9, <1>10, <1>12, <1>13, <1>14, <1>15, StepKeeps
\* chdir() of the program.
LEMMA ChdirToKeeps ==
    ASSUME GetcwdInv, NEW t \in Callers, NEW d \in Dirs, sys_chdir(t, d)
    PROVE  GetcwdInv'
  <1>1. /\ CountsAre /\ walk \in [Callers -> Walks] /\ walk[t] \in Walks
        /\ pwd[t] \in Dirs /\ root[t] \in Dirs
    BY InvIs
  <1>2. PICK p \in Dirs : p = pwd[t]
    BY <1>1
  <1>3. PICK h \in Fds : h = 1
    BY GetcwdAssumption DEF Fds
  <1>4. /\ walk[t].pc = "user" /\ filp' = filp /\ calls' = calls /\ panic' = panic /\ b_count' = b_count
        /\ root[t] \in Ancestors(d)
        /\ i_count' = [[i_count EXCEPT ![d] = @ + 1] EXCEPT ![p] = @ - 1]
        /\ pwd' = [pwd EXCEPT ![t] = d]
        /\ walk' = [walk EXCEPT ![t] = AtUser]
    BY <1>2 DEF sys_chdir, At, iget, iput
  <1>5. /\ i_count' \in [Dirs -> Int]
        /\ \A x \in Dirs : i_count'[x] = i_count[x] + (IF x = d THEN 1 ELSE 0) - (IF x = p THEN 1 ELSE 0)
    BY <1>1, <1>4 DEF CountsAre
  <1>6. CountsAre'
    BY <1>1, <1>4, <1>5 DEF CountsAre
  <1>7. OnlyOf(t) /\ pwd'[t] = d
    BY <1>1, <1>4 DEF OnlyOf, CountsAre
  <1>8. walk' \in [Callers -> Walks] /\ walk'[t].pc = "user" /\ walk'[t].old = None /\ walk'[t].names = <<>>
    <2>1. AtUser \in Walks /\ AtUser.pc = "user" /\ AtUser.old = None /\ AtUser.names = <<>>
      BY DEF AtUser, Walks, Pcs
    <2> QED
      BY <1>1, <1>4, <2>1
  <1>9. ASSUME NEW x \in Dirs
        PROVE  i_count'[x] >= i_count[x]
                 + (One(pwd'[t] = x) - One(pwd[t] = x))
                 + (One(walk'[t].pc \in {"open", "chdir"} /\ pwd'[t] = x)
                      - One(walk[t].pc \in {"open", "chdir"} /\ pwd[t] = x))
                 + (One(walk'[t].pc \in {"chdir", "getdents"} /\ walk'[t].old = x)
                      - One(walk[t].pc \in {"chdir", "getdents"} /\ walk[t].old = x))
                 + (One(filp'[t][h] = x) - One(filp[t][h] = x))
    <2>1. i_count[x] \in Int
      BY <1>1 DEF CountsAre
    <2> QED
      BY <1>2, <1>4, <1>5, <1>7, <1>8, <2>1 DEF One
  <1>10. UsersAreCounted'
    BY <1>4, <1>5, <1>7, <1>9, UsersKeep
  <1>11. WalkIs(t)'
    BY <1>4, <1>7, <1>8 DEF WalkIs
  <1>12. PathOf(walk'[t], pwd'[t], root[t])
    BY <1>8, FirstPath
  <1> QED
    BY <1>6, <1>7, <1>8, <1>10, <1>11, <1>12, StepKeeps

\* close().
LEMMA CloseKeeps ==
    ASSUME GetcwdInv, NEW t \in Callers, NEW h \in Fds, sys_close(t, h)
    PROVE  GetcwdInv'
  <1>1. /\ CountsAre /\ walk \in [Callers -> Walks] /\ walk[t] \in Walks /\ WalkIs(t)
        /\ PathOf(walk[t], pwd[t], root[t]) /\ pwd[t] \in Dirs /\ root[t] \in Dirs
    BY InvIs
  <1>2. PICK d \in Dirs : d = filp[t][h]
    BY <1>1 DEF CountsAre, sys_close
  <1>3. /\ walk[t].pc = "user" /\ calls' = calls /\ panic' = panic /\ b_count' = b_count
        /\ pwd' = pwd /\ walk' = walk
        /\ i_count' = [i_count EXCEPT ![d] = @ - 1]
        /\ filp' = [filp EXCEPT ![t][h] = None]
    BY <1>2 DEF sys_close, At, iput
  <1>4. i_count' \in [Dirs -> Int] /\ \A x \in Dirs : i_count'[x] = i_count[x] - (IF x = d THEN 1 ELSE 0)
    BY <1>1, <1>3 DEF CountsAre
  <1>5. CountsAre'
    BY <1>1, <1>3, <1>4 DEF CountsAre
  <1>6. OnlyOf(t) /\ filp'[t][h] = None /\ \A f \in Fds \ {h} : filp'[t][f] = filp[t][f]
    BY <1>1, <1>3 DEF OnlyOf, CountsAre
  <1>7. ASSUME NEW x \in Dirs
        PROVE  i_count'[x] >= i_count[x]
                 + (One(pwd'[t] = x) - One(pwd[t] = x))
                 + (One(walk'[t].pc \in {"open", "chdir"} /\ pwd'[t] = x)
                      - One(walk[t].pc \in {"open", "chdir"} /\ pwd[t] = x))
                 + (One(walk'[t].pc \in {"chdir", "getdents"} /\ walk'[t].old = x)
                      - One(walk[t].pc \in {"chdir", "getdents"} /\ walk[t].old = x))
                 + (One(filp'[t][h] = x) - One(filp[t][h] = x))
    <2>1. x # None /\ i_count[x] \in Int
      BY <1>1, GetcwdAssumption DEF CountsAre, None
    <2> QED
      BY <1>2, <1>3, <1>4, <1>6, <2>1 DEF One
  <1>8. UsersAreCounted'
    BY <1>4, <1>6, <1>7, UsersKeep
  <1>9. WalkIs(t)'
    BY <1>1, <1>3 DEF WalkIs
  <1>10. PathOf(walk'[t], pwd'[t], root[t])
    BY <1>1, <1>3
  <1> QED
    BY <1>1, <1>3, <1>5, <1>6, <1>8, <1>9, <1>10, StepKeeps

\* Tasks at their roots, which their pwd's count.
LEMMA GetcwdStart == GetcwdInit => GetcwdInv
  <1> SUFFICES ASSUME GetcwdInit PROVE GetcwdInv
    OBVIOUS
  <1>1. walk \in [Callers -> Walks] /\ \A t \in Callers : walk[t] = AtUser
    <2>1. AtUser \in Walks
      BY DEF AtUser, Walks, Pcs
    <2> QED
      BY <2>1 DEF GetcwdInit
  <1>2. \A t \in Callers : walk[t].pc = "user" /\ walk[t].old = None /\ walk[t].names = <<>>
    BY <1>1 DEF AtUser
  <1>3. CountsAre
    <2>1. \A d \in Dirs : Cardinality({t \in Callers : root[t] = d}) \in Int
      <3>1. ASSUME NEW d \in Dirs PROVE Cardinality({t \in Callers : root[t] = d}) \in Int
        <4>1. IsFiniteSet({t \in Callers : root[t] = d})
          BY GetcwdAssumption, FS_Subset
        <4> QED
          BY <4>1, FS_CardinalityType
      <3> QED
        BY <3>1
    <2>2. 0 \in 0 .. MaxCalls /\ 0 \in 0 .. Counts - 1
      BY GetcwdAssumption DEF Counts
    <2> QED
      BY <2>1, <2>2, GetcwdAssumption DEF CountsAre, GetcwdInit
  <1>4. WalksAre
    <2>1. \A t \in Callers : root[t] \in Ancestors(pwd[t])
      BY GetcwdAssumption DEF GetcwdInit, Ancestors
    <2> QED
      BY <1>1, <1>2, <2>1 DEF WalksAre, WalkIs
  <1>5. NamesAreThePath
    <2>1. \A t \in Callers : PathOf(walk[t], pwd[t], root[t])
      BY <1>1, <1>2, FirstPath
    <2> QED
      BY <1>1, <2>1, PathsAre
  <1>6. UsersAreCounted
    <2>1. ASSUME NEW d \in Dirs
          PROVE  i_count[d] >= Cardinality(AsPwd(d)) + Cardinality(AsSearch(d))
                                 + Cardinality(AsOld(d)) + Cardinality(AsFile(d))
      <3>1. AsSearch(d) = {} /\ AsOld(d) = {}
        BY <1>2 DEF AsSearch, AsOld
      <3>2. AsFile(d) = {}
        BY GetcwdAssumption DEF AsFile, GetcwdInit, None
      <3>3. i_count[d] = Cardinality(AsPwd(d))
        BY DEF GetcwdInit, AsPwd
      <3>4. i_count[d] \in Int
        BY <1>3 DEF CountsAre
      <3> QED
        BY <3>1, <3>2, <3>3, <3>4, FS_EmptySet
    <2> QED
      BY <2>1 DEF UsersAreCounted
  <1> QED
    BY <1>3, <1>4, <1>5, <1>6, TypesAre DEF GetcwdInv, GetcwdConsistent

\* Every step keeps the invariant.
LEMMA GetcwdStep == GetcwdInv /\ [GetcwdNext]_getcwdVars => GetcwdInv'
  <1> SUFFICES ASSUME GetcwdInv, [GetcwdNext]_getcwdVars PROVE GetcwdInv'
    OBVIOUS
  <1>1. CASE GetcwdNext
    <2>1. PICK t \in Callers : \/ sys_getcwd(t) \/ Walk(t)
                               \/ \E d \in Dirs : sys_chdir(t, d)
                               \/ \E h \in Fds : sys_close(t, h)
      BY <1>1 DEF GetcwdNext
    <2> QED
      BY <2>1, StartKeeps, OpenedKeeps, ChdirKeeps, GetdentsKeeps, ChdirToKeeps, CloseKeeps DEF Walk
  <1>2. CASE UNCHANGED getcwdVars
    <2>1. GetcwdTypes' /\ WalksAre'
      BY <1>2 DEF getcwdVars, GetcwdInv, GetcwdConsistent, GetcwdTypes, WalksAre, WalkIs, FreeFds
    <2>2. UsersAreCounted'
      BY <1>2 DEF getcwdVars, GetcwdInv, GetcwdConsistent, UsersAreCounted, AsPwd, AsSearch, AsOld, AsFile
    <2>3. NamesAreThePath'
      BY <1>2 DEF getcwdVars, GetcwdInv, GetcwdConsistent, NamesAreThePath
    <2> QED
      BY <2>1, <2>2, <2>3 DEF GetcwdInv, GetcwdConsistent
  <1> QED
    BY <1>1, <1>2

\* Names and counts are right at every step of getcwd(), for any number of tasks, with any roots, in any tree.
THEOREM GetcwdIsConsistent == GetcwdSpec => []GetcwdConsistent
  <1>1. GetcwdInv => GetcwdConsistent
    BY DEF GetcwdInv
  <1> QED
    BY <1>1, GetcwdStart, GetcwdStep, PTL DEF GetcwdSpec

-----------------------------------------------------------------------------
(* The user timers. *)

\* The scan s of the list l has still to count the timer at place i down.
Before(l, s, i) ==
    \/ s.pc \in {"load", "store"} /\ s.tmp = l[i]
    \/ \E j \in 1 .. i - 1 : l[j] = s.tmp

Ahead(i) == scans # <<>> /\ Before(timers, Top, i)

\* The timer at place i has been counted down, with what the innermost scan has in its hands.
Exact(i) ==
    LET t == timers[i] IN
    /\ age[t] + left[t] = period[t] + (IF Ahead(i) THEN 1 ELSE 0)
    /\ left[t] \in 0 .. period[t]
    /\ left[t] = 0 => scans # <<>> /\ Top.tmp = t /\ Top.pc \in {"test", "expire"}
    /\ scans # <<>> /\ Top.tmp = t /\ Top.pc = "store" => Top.reg = left[t] - 1

\* The timers of which no tick is missed.
Kept(i) == i \in DOMAIN timers /\ period[timers[i]] # 0 /\ (i = 1 \/ ~nested)

ListOK ==
    /\ \A i, j \in DOMAIN timers : timers[i] = timers[j] => i = j
    /\ \A i \in DOMAIN timers : timers[i] <= created
    /\ timers # <<>> => UL = "ready"
    /\ \A t \in Timers : t > created => age[t] = 0

CallOK ==
    /\ sysCall.name = "create" =>
         /\ sysCall.tmp = created /\ created > 0 /\ age[created] = 0 /\ left[created] = period[created]
         /\ \A i \in DOMAIN timers : timers[i] # created
    /\ sysCall.name = "destroy" /\ sysCall.tmp # NoTimer => \E i \in DOMAIN timers : timers[i] = sysCall.tmp

ScansOK ==
    /\ \A k \in DOMAIN scans : \E i \in DOMAIN timers : scans[k].tmp = timers[i]
    /\ \A k \in DOMAIN scans : k < Len(scans) => scans[k].on
    /\ \A k \in DOMAIN scans : scans[k].on => scans[k].tmp # timers[1]
    /\ ~nested => Len(scans) <= 1

TimersInv == TimersTypeOK /\ ListOK /\ CallOK /\ ScansOK /\ \A i \in DOMAIN timers : Kept(i) => Exact(i)

\* Changing, removing and adding a last element.
LEMMA LastChanged ==
    ASSUME NEW S, NEW s \in Seq(S), s # <<>>, NEW r \in S, NEW q, q = [s EXCEPT ![Len(s)] = r]
    PROVE  /\ q \in Seq(S) /\ Len(q) = Len(s) /\ DOMAIN q = DOMAIN s /\ Len(s) \in DOMAIN s /\ q # <<>>
           /\ q[Len(q)] = r /\ \A k \in DOMAIN s : k < Len(s) => q[k] = s[k]
  <1>1. Len(s) \in Nat /\ Len(s) > 0 /\ DOMAIN s = 1 .. Len(s)
    BY EmptySeq
  <1>2. Len(s) \in DOMAIN s
    BY <1>1
  <1>3. q \in Seq(S) /\ Len(q) = Len(s)
    BY <1>2, ExceptSeq
  <1> QED
    BY <1>1, <1>2, <1>3

LEMMA LastRemoved ==
    ASSUME NEW S, NEW s \in Seq(S), s # <<>>
    PROVE  LET q == SubSeq(s, 1, Len(s) - 1) IN
           q \in Seq(S) /\ Len(q) = Len(s) - 1 /\ \A k \in DOMAIN q : k \in DOMAIN s /\ k < Len(s) /\ q[k] = s[k]
  <1>1. Len(s) \in Nat /\ Len(s) > 0 /\ DOMAIN s = 1 .. Len(s)
    BY EmptySeq
  <1> QED
    BY <1>1, SubSeqProperties

LEMMA LastAdded ==
    ASSUME NEW S, NEW s \in Seq(S), NEW r \in S
    PROVE  LET q == Append(s, r) IN
           /\ q \in Seq(S) /\ Len(q) = Len(s) + 1 /\ q # <<>> /\ q[Len(q)] = r
           /\ \A k \in DOMAIN q : k < Len(q) => k \in DOMAIN s /\ q[k] = s[k]
  BY AppendProperties

\* The innermost scan.
LEMMA TopType ==
    ASSUME scans \in Seq(Scan), scans # <<>>
    PROVE  Len(scans) \in Nat /\ Len(scans) > 0 /\ Len(scans) \in DOMAIN scans /\ Top \in Scan
  <1>1. Len(scans) \in Nat /\ Len(scans) > 0 /\ DOMAIN scans = 1 .. Len(scans)
    BY EmptySeq
  <1>2. Len(scans) \in DOMAIN scans
    BY <1>1
  <1> QED
    BY <1>1, <1>2, ElementOfSeq DEF Top

\* In a list that has each timer once, a timer's next is the one at the next place.
LEMMA NextPlace ==
    ASSUME NEW l \in Seq(Timers), \A i, j \in DOMAIN l : l[i] = l[j] => i = j, NEW j \in DOMAIN l
    PROVE  /\ j = Len(l) => NextOf(l, l[j]) = NoTimer
           /\ j # Len(l) => j + 1 \in DOMAIN l /\ NextOf(l, l[j]) = l[j + 1]
  <1> DEFINE after == {i \in 2 .. Len(l) : l[i - 1] = l[j]}
  <1>1. Len(l) \in Nat /\ DOMAIN l = 1 .. Len(l) /\ j \in 1 .. Len(l)
    OBVIOUS
  <1>2. \A i \in after : i \in Int /\ i - 1 \in DOMAIN l /\ i - 1 = j /\ j + 1 <= Len(l)
    BY <1>1
  <1>3. CASE j = Len(l)
    <2>1. after = {}
      BY <1>1, <1>2, <1>3
    <2> QED
      BY <1>3, <2>1 DEF NextOf
  <1>4. CASE j # Len(l)
    <2>1. j + 1 \in 2 .. Len(l) /\ j + 1 - 1 = j /\ j + 1 \in DOMAIN l
      BY <1>1, <1>4
    <2>2. j + 1 \in after
      BY <2>1
    <2>3. \A i \in after : i = j + 1
      BY <1>1, <1>2
    <2>4. (CHOOSE i \in after : TRUE) = j + 1
      BY <2>2, <2>3
    <2> HIDE DEF after
    <2>5. NextOf(l, l[j]) = IF after = {} THEN NoTimer ELSE l[CHOOSE i \in after : TRUE]
      BY DEF NextOf, after
    <2> QED
      BY <1>4, <2>1, <2>2, <2>4, <2>5
  <1> QED
    BY <1>3, <1>4

\* The place of a scan says which timers it has still to count down.
LEMMA BeforePlace ==
    ASSUME NEW l \in Seq(Timers), \A i, j \in DOMAIN l : l[i] = l[j] => i = j,
           NEW i \in DOMAIN l, NEW j \in DOMAIN l, NEW s, s.tmp = l[j]
    PROVE  Before(l, s, i) <=> j < i \/ (j = i /\ s.pc \in {"load", "store"})
  <1>1. Len(l) \in Nat /\ DOMAIN l = 1 .. Len(l) /\ i \in Nat /\ j \in Nat /\ j > 0
    OBVIOUS
  <1>2. (\E k \in 1 .. i - 1 : l[k] = s.tmp) <=> j < i
    <2>1. ASSUME NEW k \in 1 .. i - 1, l[k] = s.tmp PROVE j < i
      BY <1>1, <2>1
    <2>2. j < i => j \in 1 .. i - 1
      BY <1>1
    <2> QED
      BY <2>1, <2>2
  <1>3. s.tmp = l[i] <=> j = i
    OBVIOUS
  <1> QED
    BY <1>2, <1>3 DEF Before

\* What the list and the scans say of one timer is what the property does.
LEMMA ExactIsOnTime == ASSUME TimersInv, NEW i, Kept(i), Exact(i) PROVE OnTime(i)
  <1> DEFINE t == timers[i]
             P(k) == \/ scans[k].pc \in {"load", "store"} /\ timers[i] = scans[k].tmp
                     \/ \E j \in 1 .. i - 1 : timers[j] = scans[k].tmp
  <1>1. scans \in Seq(Scan) /\ DOMAIN scans = 1 .. Len(scans) /\ Len(scans) \in Nat /\ i \in DOMAIN timers
    BY DEF TimersInv, TimersTypeOK, Kept
  <1>2. ASSUME NEW k \in DOMAIN scans, P(k) PROVE k = Len(scans)
    <2>1. SUFFICES ASSUME k < Len(scans) PROVE FALSE
      BY <1>1
    <2>2. nested
      BY <1>1, <2>1 DEF TimersInv, ScansOK
    <2>3. i = 1
      BY <2>2 DEF Kept
    <2>4. scans[k].tmp # timers[1]
      BY <2>1 DEF TimersInv, ScansOK
    <2> QED
      BY <1>2, <2>3, <2>4
  <1>3. Ahead(i) <=> Len(scans) \in DOMAIN scans /\ P(Len(scans))
    BY <1>1 DEF Ahead, Before, Top
  <1>4. Pending(i) = {k \in DOMAIN scans : P(k)}
    BY DEF Pending
  <1>5. Cardinality(Pending(i)) = IF Ahead(i) THEN 1 ELSE 0
    <2> HIDE DEF P
    <2>1. CASE Ahead(i)
      <3>1. Pending(i) = {Len(scans)}
        BY <1>2, <1>3, <1>4, <2>1
      <3> QED
        BY <2>1, <3>1, FS_Singleton
    <2>2. CASE ~Ahead(i)
      <3>1. Pending(i) = {}
        BY <1>2, <1>3, <1>4, <2>2
      <3> QED
        BY <2>2, <3>1, FS_EmptySet
    <2> QED
      BY <2>1, <2>2
  <1>6. left[t] = 0 => \E k \in DOMAIN scans : scans[k].tmp = t /\ scans[k].pc \in {"test", "expire"}
    <2>1. SUFFICES ASSUME left[t] = 0 PROVE \E k \in DOMAIN scans : scans[k].tmp = t /\ scans[k].pc \in {"test", "expire"}
      OBVIOUS
    <2>2. scans # <<>> /\ Top.tmp = t /\ Top.pc \in {"test", "expire"}
      BY <2>1 DEF Exact
    <2>3. Len(scans) \in DOMAIN scans
      BY <1>1, <2>2, TopType
    <2> QED
      BY <2>2, <2>3 DEF Top
  <1>7. age[t] + left[t] = period[t] + Cardinality(Pending(i)) /\ left[t] \in 0 .. period[t]
    BY <1>5 DEF Exact
  <1> QED
    BY <1>6, <1>7 DEF OnTime

LEMMA TimersRight == TimersInv => CountdownsRight
  <1> SUFFICES ASSUME TimersInv PROVE CountdownsRight
    OBVIOUS
  <1>1. \A i \in DOMAIN timers : Kept(i) => OnTime(i)
    BY ExactIsOnTime DEF TimersInv
  <1>2. FirstOnTime
    <2>1. SUFFICES ASSUME timers # <<>>, period[First(timers)] # 0 PROVE OnTime(1)
      BY DEF FirstOnTime
    <2>2. 1 \in DOMAIN timers /\ First(timers) = timers[1]
      <3>1. timers \in Seq(Timers)
        BY DEF TimersInv, TimersTypeOK
      <3> QED
        BY <2>1, <3>1, EmptySeq DEF First
    <2> QED
      BY <1>1, <2>1, <2>2 DEF Kept
  <1>3. AllOnTimeUnlessNested
    BY <1>1 DEF AllOnTimeUnlessNested, Kept
  <1> QED
    BY <1>2, <1>3 DEF CountdownsRight, TimersInv

LEMMA TimersStart == TimersInit => TimersInv
  <1> SUFFICES ASSUME TimersInit PROVE TimersInv
    OBVIOUS
  <1>1. TimersTypeOK
    <2>1. NoCall \in [name : {"none", "create", "destroy"}, tmp : Timers \cup {NoTimer}]
      BY DEF NoCall
    <2>2. 0 \in Periods \cup {0} /\ 0 \in 0 .. MaxTimers /\ 0 \in 0 .. MaxNest
      BY BoundsAssumption
    <2>3. timers \in Seq(Timers) /\ scans \in Seq(Scan) /\ Len(scans) = 0
      BY DEF TimersInit
    <2>4. left \in [Timers -> Int] /\ period \in [Timers -> Periods \cup {0}] /\ age \in [Timers -> Nat]
      BY <2>2 DEF TimersInit
    <2> QED
      BY <2>1, <2>2, <2>3, <2>4 DEF TimersInit, TimersTypeOK
  <1>2. DOMAIN timers = {} /\ DOMAIN scans = {} /\ Len(scans) = 0
    BY DEF TimersInit
  <1>3. ListOK /\ CallOK
    BY <1>2 DEF TimersInit, ListOK, CallOK, NoCall, Timers
  <1>4. ScansOK
    BY <1>2 DEF ScansOK
  <1> QED
    BY <1>1, <1>2, <1>3, <1>4 DEF TimersInv


\* The parts of the invariant that a step of a scan needs: where the innermost scan is.
LEMMA ScanPlace ==
    ASSUME TimersInv, scans # <<>>
    PROVE  /\ scans \in Seq(Scan) /\ timers \in Seq(Timers) /\ Top \in Scan /\ Len(scans) \in DOMAIN scans
           /\ \E j \in DOMAIN timers : Top.tmp = timers[j]
           /\ Top.on => Top.tmp # timers[1]
  <1>1. scans \in Seq(Scan) /\ timers \in Seq(Timers)
    BY DEF TimersInv, TimersTypeOK
  <1>2. Top \in Scan /\ Len(scans) \in DOMAIN scans
    BY <1>1, TopType
  <1> QED
    BY <1>1, <1>2 DEF TimersInv, ScansOK, Top

\* A step that changes the innermost scan, and keeps it in the list and behind the first timer if
\* interrupts are on.
LEMMA ScansChanged ==
    ASSUME TimersInv, scans # <<>>, NEW r \in Scan, scans' = [scans EXCEPT ![Len(scans)] = r],
           \E i \in DOMAIN timers : r.tmp = timers[i], r.on => r.tmp # timers[1], UNCHANGED <<timers, nested>>
    PROVE  /\ scans' \in Seq(Scan) /\ Len(scans') = Len(scans) /\ ScansOK' /\ scans' # <<>> /\ Top' = r
  <1>1. scans \in Seq(Scan) /\ Len(scans) \in Nat
    BY DEF TimersInv, TimersTypeOK
  <1>2. /\ scans' \in Seq(Scan) /\ Len(scans') = Len(scans) /\ DOMAIN scans' = DOMAIN scans /\ scans' # <<>>
        /\ scans'[Len(scans')] = r /\ \A k \in DOMAIN scans : k < Len(scans) => scans'[k] = scans[k]
    BY <1>1, LastChanged
  <1>3. Top' = r
    BY <1>2 DEF Top
  <1>4. ASSUME NEW k \in DOMAIN scans'
        PROVE  /\ \E i \in DOMAIN timers' : scans'[k].tmp = timers'[i]
               /\ k < Len(scans') => scans'[k].on
               /\ scans'[k].on => scans'[k].tmp # timers'[1]
    <2>1. k \in DOMAIN scans /\ (k < Len(scans) \/ k = Len(scans))
      BY <1>1, <1>2
    <2>2. CASE k < Len(scans)
      BY <1>2, <2>1, <2>2 DEF TimersInv, ScansOK
    <2>3. CASE k = Len(scans)
      BY <1>2, <2>1, <2>3
    <2> QED
      BY <2>1, <2>2, <2>3
  <1>5. ~nested' => Len(scans') <= 1
    BY <1>2 DEF TimersInv, ScansOK
  <1> QED
    BY <1>2, <1>3, <1>4, <1>5 DEF ScansOK

\* A step of a scan leaves the list alone, and changes the counter and the age of a timer of it at most.
LEMMA ListUnchanged ==
    ASSUME TimersInv, UNCHANGED <<UL, timers, period, created, sysCall>>,
           \A t \in Timers : (\A i \in DOMAIN timers : timers[i] # t) => left'[t] = left[t] /\ age'[t] = age[t]
    PROVE  ListOK' /\ CallOK'
  <1>1. created \in Nat /\ created <= MaxTimers /\ timers \in Seq(Timers)
    BY BoundsAssumption DEF TimersInv, TimersTypeOK
  <1>2. ASSUME NEW t \in Timers, t > created PROVE age'[t] = 0
    <2>1. \A i \in DOMAIN timers : timers[i] # t
      BY <1>1, <1>2 DEF TimersInv, ListOK, Timers
    <2> QED
      BY <1>2, <2>1 DEF TimersInv, ListOK
  <1>3. ListOK'
    BY <1>2 DEF TimersInv, ListOK
  <1>4. ASSUME sysCall.name = "create" PROVE age'[created] = 0 /\ left'[created] = period[created]
    <2>1. created \in Timers
      BY <1>1, <1>4, BoundsAssumption DEF TimersInv, CallOK, Timers
    <2> QED
      BY <1>4, <2>1 DEF TimersInv, CallOK
  <1> QED
    BY <1>3, <1>4 DEF TimersInv, CallOK

\* A period is one that a program asked for, or none.
LEMMA CountTypes ==
    ASSUME TimersInv, NEW t \in Timers
    PROVE  left[t] \in Int /\ age[t] \in Nat /\ period[t] \in Nat /\ MaxCount \in Nat
           /\ (period[t] = 0 \/ period[t] < MaxCount)
  <1>1. left \in [Timers -> Int] /\ age \in [Timers -> Nat] /\ period \in [Timers -> Periods \cup {0}]
    BY DEF TimersInv, TimersTypeOK
  <1>2. left[t] \in Int /\ age[t] \in Nat /\ period[t] \in Periods \cup {0}
    BY <1>1
  <1>3. MaxCount \in Nat /\ \A p \in Periods : p \in Nat /\ p < MaxCount
    BY BoundsAssumption, PeriodsAssumption
  <1> QED
    BY <1>2, <1>3

\* The load: the counter of a timer that is kept has not run out.
LEMMA LoadKeeps == TimersInv /\ Load => TimersInv'
  <1> SUFFICES ASSUME TimersInv, Load PROVE TimersInv'
    OBVIOUS
  <1>1. scans # <<>> /\ Top.pc = "load"
    BY DEF Load, ScanAt
  <1> DEFINE reg == Decremented(left[Top.tmp])
             r == [Top EXCEPT !.pc = "store", !.reg = reg]
  <1>2. /\ scans \in Seq(Scan) /\ timers \in Seq(Timers) /\ Top \in Scan
        /\ Top.on => Top.tmp # timers[1]
    BY <1>1, ScanPlace
  <1>3. PICK j \in DOMAIN timers : Top.tmp = timers[j]
    BY <1>1, ScanPlace
  <1>4. left \in [Timers -> Int] /\ Top.tmp \in Timers /\ MaxCount \in Nat
    BY <1>2, BoundsAssumption DEF Scan, TimersInv, TimersTypeOK
  <1>5. reg \in Int /\ (left[Top.tmp] > 0 => reg = left[Top.tmp] - 1)
    BY <1>4 DEF Decremented
  <1>6. scans' = [scans EXCEPT ![Len(scans)] = r]
    BY DEF Load, Top
  <1> HIDE DEF reg
  <1>7. r \in Scan /\ r.tmp = Top.tmp /\ r.pc = "store" /\ r.reg = reg /\ r.on = Top.on
    BY <1>2, <1>5 DEF Scan
  <1> HIDE DEF r
  <1>8. UNCHANGED <<UL, timers, left, period, created, sysCall, wild, age, nested>>
    BY DEF Load
  <1>9. scans' \in Seq(Scan) /\ Len(scans') = Len(scans) /\ ScansOK' /\ scans' # <<>> /\ Top' = r
    BY <1>1, <1>2, <1>3, <1>6, <1>7, <1>8, ScansChanged
  <1>10. TimersTypeOK'
    BY <1>8, <1>9 DEF TimersInv, TimersTypeOK
  <1>11. ListOK' /\ CallOK'
    BY <1>8, ListUnchanged
  <1>12. ASSUME NEW i \in DOMAIN timers', Kept(i)' PROVE Exact(i)'
    <2>1. i \in DOMAIN timers /\ Kept(i) /\ Exact(i)
      BY <1>8, <1>12 DEF Kept, TimersInv
    <2>2. Ahead(i)' <=> Ahead(i)
      <3>1. Before(timers, Top, i) <=> j < i \/ j = i
        BY <1>1, <1>2, <1>3, <2>1, BeforePlace DEF TimersInv, ListOK
      <3>2. Before(timers, r, i) <=> j < i \/ j = i
        BY <1>2, <1>3, <1>7, <2>1, BeforePlace DEF TimersInv, ListOK
      <3> QED
        BY <1>1, <1>8, <1>9, <3>1, <3>2 DEF Ahead
    <2>3. left[timers[i]] \in Int /\ period[timers[i]] \in Int
      <3>1. timers[i] \in Timers
        BY <1>2, <2>1
      <3> QED
        BY <3>1, CountTypes
    <2>5. left[timers[i]] # 0
      BY <1>1, <2>1 DEF Exact
    <2>6. r.tmp = timers[i] => r.reg = left[timers[i]] - 1
      BY <1>5, <1>7, <2>1, <2>3, <2>5 DEF Exact
    <2> QED
      BY <1>8, <1>9, <2>1, <2>2, <2>5, <2>6 DEF Exact
  <1> QED
    BY <1>9, <1>10, <1>11, <1>12 DEF TimersInv

\* The store: the timer at which the scan is has been counted down.
LEMMA StoreKeeps == TimersInv /\ Store => TimersInv'
  <1> SUFFICES ASSUME TimersInv, Store PROVE TimersInv'
    OBVIOUS
  <1>1. scans # <<>> /\ Top.pc = "store"
    BY DEF Store, ScanAt
  <1> DEFINE r == [Top EXCEPT !.pc = "test"]
             reg == Top.reg
             at == Top.tmp
  <1>2. /\ scans \in Seq(Scan) /\ timers \in Seq(Timers) /\ Top \in Scan
        /\ Top.on => Top.tmp # timers[1]
    BY <1>1, ScanPlace
  <1>3. PICK j \in DOMAIN timers : at = timers[j]
    BY <1>1, ScanPlace
  <1>4. left \in [Timers -> Int] /\ at \in Timers /\ reg \in Int
    BY <1>2 DEF Scan, TimersInv, TimersTypeOK
  <1>5. scans' = [scans EXCEPT ![Len(scans)] = r] /\ left' = [left EXCEPT ![at] = reg]
    BY DEF Store, Top
  <1>6. r \in Scan /\ r.tmp = at /\ r.pc = "test" /\ r.on = Top.on
    BY <1>2 DEF Scan
  <1>7. UNCHANGED <<UL, timers, period, created, sysCall, wild, age, nested>>
    BY DEF Store
  <1> HIDE DEF r
  <1>8. scans' \in Seq(Scan) /\ Len(scans') = Len(scans) /\ ScansOK' /\ scans' # <<>> /\ Top' = r
    BY <1>1, <1>2, <1>3, <1>5, <1>6, <1>7, ScansChanged
  <1> HIDE DEF at, reg
  <1>9. left' \in [Timers -> Int]
    BY <1>4, <1>5
  <1>10. TimersTypeOK'
    BY <1>7, <1>8, <1>9 DEF TimersInv, TimersTypeOK
  <1>11. ListOK' /\ CallOK'
    BY <1>3, <1>4, <1>5, <1>7, ListUnchanged
  <1>12. ASSUME NEW i \in DOMAIN timers', Kept(i)' PROVE Exact(i)'
    <2> DEFINE t == timers[i]
    <2>0. i \in DOMAIN timers /\ Kept(i) /\ Exact(i)
      BY <1>7, <1>12 DEF Kept, TimersInv
    <2>1. i \in DOMAIN timers /\ Kept(i) /\ Exact(i) /\ i \in Int /\ j \in Int
      BY <1>2, <2>0
    <2>2. t \in Timers
      BY <1>2, <2>1
    <2>3. left[t] \in Int /\ age[t] \in Nat /\ period[t] \in Nat
      BY <2>2, CountTypes
    <2>4. left[t] # 0 /\ left[t] > 0
      BY <1>1, <2>1, <2>3 DEF Exact
    <2>5. (Before(timers, Top, i) <=> j < i \/ j = i) /\ (Before(timers, r, i) <=> j < i)
      <3>1. Before(timers, Top, i) <=> j < i \/ j = i
        BY <1>1, <1>2, <1>3, <2>1, BeforePlace DEF TimersInv, ListOK, at
      <3>2. Before(timers, r, i) <=> j < i
        BY <1>2, <1>3, <1>6, <2>1, BeforePlace DEF TimersInv, ListOK
      <3> QED
        BY <3>1, <3>2
    <2>6. (Ahead(i) <=> j < i \/ j = i) /\ (Ahead(i)' <=> j < i)
      BY <1>1, <1>7, <1>8, <2>5 DEF Ahead
    <2>7. age[t] + left[t] = period[t] + (IF Ahead(i) THEN 1 ELSE 0) /\ left[t] \in 0 .. period[t]
      BY <2>1 DEF Exact
    <2>8. at = t <=> j = i
      BY <1>3, <2>1 DEF TimersInv, ListOK
    <2>9. CASE j = i
      <3>1. left'[t] = left[t] - 1
        <4>1. reg = left[t] - 1
          BY <1>1, <2>1, <2>8, <2>9 DEF Exact, at, reg
        <4> QED
          BY <1>4, <1>5, <2>8, <2>9, <4>1
      <3>2. age[t] + left[t] = period[t] + 1 /\ ~Ahead(i)'
        BY <2>1, <2>6, <2>7, <2>9
      <3>3. age'[t] + left'[t] = period'[t] + (IF Ahead(i)' THEN 1 ELSE 0) /\ left'[t] \in 0 .. period'[t]
        BY <1>7, <2>3, <2>4, <2>7, <3>1, <3>2
      <3>4. Top'.tmp = t /\ Top'.pc = "test"
        BY <1>6, <1>8, <2>8, <2>9
      <3> QED
        BY <1>7, <1>8, <3>3, <3>4 DEF Exact
    <2>10. CASE j # i
      <3>1. left'[t] = left[t]
        BY <1>4, <1>5, <2>2, <2>8, <2>10
      <3>2. Ahead(i)' <=> Ahead(i)
        BY <2>6, <2>10
      <3>3. age'[t] + left'[t] = period'[t] + (IF Ahead(i)' THEN 1 ELSE 0) /\ left'[t] \in 0 .. period'[t]
        BY <1>7, <2>7, <3>1, <3>2
      <3>4. Top'.tmp # t
        BY <1>6, <1>8, <2>8, <2>10
      <3> QED
        BY <1>7, <2>4, <3>1, <3>3, <3>4 DEF Exact
    <2> QED
      BY <2>9, <2>10
  <1> QED
    BY <1>8, <1>10, <1>11, <1>12 DEF TimersInv

\* A scan goes on to the next timer, or ends: what it has still to count down is the same, and it has
\* nothing of a timer that is kept in its hands.
LEMMA AdvanceKeeps ==
    ASSUME TimersInv, scans # <<>>, Top.pc \in {"test", "expire"}, NEW on \in BOOLEAN, Advance(on),
           UNCHANGED <<timers, nested>>
    PROVE  /\ scans' \in Seq(Scan) /\ Len(scans') \in 0 .. MaxNest /\ ScansOK'
           /\ \A i \in DOMAIN timers : i = 1 \/ ~nested =>
                 /\ Ahead(i)' <=> Ahead(i)
                 /\ scans' # <<>> => Top'.tmp # timers[i] \/ Top'.pc = "load"
  <1>1. /\ scans \in Seq(Scan) /\ timers \in Seq(Timers) /\ Top \in Scan
        /\ Len(scans) \in Nat /\ Len(scans) > 0 /\ Len(scans) <= MaxNest /\ MaxNest \in Nat
    <2>1. scans \in Seq(Scan) /\ timers \in Seq(Timers) /\ Top \in Scan
      BY ScanPlace
    <2> QED
      BY <2>1, TopType, BoundsAssumption DEF TimersInv, TimersTypeOK
  <1>2. PICK j \in DOMAIN timers : Top.tmp = timers[j]
    BY ScanPlace
  <1>3. j \in Nat /\ j > 0 /\ j <= Len(timers) /\ Len(timers) \in Nat /\ DOMAIN timers = 1 .. Len(timers)
    BY <1>1
  <1>4. \A i, k \in DOMAIN timers : timers[i] = timers[k] => i = k
    BY DEF TimersInv, ListOK
  <1>5. \A i \in DOMAIN timers : Ahead(i) <=> j < i
    BY <1>1, <1>2, <1>4, BeforePlace DEF Ahead
  <1>6. CASE j # Len(timers)
    <2> DEFINE r == [tmp |-> timers[j + 1], pc |-> "load", reg |-> 0, on |-> on]
    <2>1. j + 1 \in DOMAIN timers /\ NextOf(timers, Top.tmp) = timers[j + 1]
      BY <1>1, <1>2, <1>4, <1>6, NextPlace
    <2>2. timers[j + 1] \in Timers /\ timers[j + 1] # NoTimer
      <3>1. timers[j + 1] \in Timers
        BY <1>1, <2>1
      <3> QED
        BY <3>1 DEF Timers, NoTimer
    <2>3. scans' = [scans EXCEPT ![Len(scans)] = r]
      BY <2>1, <2>2 DEF Advance
    <2>4. r \in Scan /\ r.tmp = timers[j + 1] /\ r.pc = "load"
      BY <2>2 DEF Scan
    <2>5. timers[j + 1] # timers[1]
      BY <1>3, <1>4, <2>1
    <2> HIDE DEF r
    <2>6. scans' \in Seq(Scan) /\ Len(scans') = Len(scans) /\ ScansOK' /\ scans' # <<>> /\ Top' = r
      BY <2>1, <2>3, <2>4, <2>5, ScansChanged
    <2>7. ASSUME NEW i \in DOMAIN timers PROVE Ahead(i)' <=> j < i
      <3>1. Before(timers, r, i) <=> j + 1 < i \/ j + 1 = i
        BY <1>1, <1>4, <2>1, <2>4, BeforePlace
      <3>2. i \in Nat
        BY <1>3
      <3> QED
        BY <1>3, <2>6, <3>1, <3>2 DEF Ahead
    <2> QED
      BY <1>1, <1>5, <2>4, <2>6, <2>7
  <1>7. CASE j = Len(timers)
    <2>1. scans' = SubSeq(scans, 1, Len(scans) - 1)
      <3>1. NextOf(timers, Top.tmp) = NoTimer
        BY <1>1, <1>2, <1>4, <1>7, NextPlace
      <3> QED
        BY <3>1 DEF Advance
    <2>2. /\ scans' \in Seq(Scan) /\ Len(scans') = Len(scans) - 1
          /\ \A k \in DOMAIN scans' : k \in DOMAIN scans /\ k < Len(scans) /\ scans'[k] = scans[k]
      <3>1. scans \in Seq(Scan) /\ scans # <<>>
        BY <1>1
      <3> QED
        BY <2>1, <3>1, LastRemoved
    <2>3. ASSUME NEW k \in DOMAIN scans'
          PROVE  /\ \E i \in DOMAIN timers' : scans'[k].tmp = timers'[i]
                 /\ scans'[k].on /\ scans'[k].tmp # timers'[1]
      BY <2>2 DEF TimersInv, ScansOK
    <2>4. ~nested => Len(scans) <= 1
      BY DEF TimersInv, ScansOK
    <2>5. ScansOK'
      BY <1>1, <2>2, <2>3, <2>4 DEF ScansOK
    <2>6. Len(scans') \in 0 .. MaxNest
      BY <1>1, <2>2
    <2>7. ASSUME NEW i \in DOMAIN timers, i = 1 \/ ~nested
          PROVE  ~Ahead(i) /\ ~Ahead(i)' /\ (scans' # <<>> => Top'.tmp # timers[i])
      <3>1. ~Ahead(i)
        BY <1>3, <1>5, <1>7
      <3>2. ASSUME scans' # <<>> PROVE i = 1 /\ Top'.tmp # timers[1]
        <4>1. Len(scans') \in DOMAIN scans' /\ Len(scans') > 0
          BY <2>2, <3>2, EmptySeq
        <4>2. i = 1
          BY <1>1, <2>2, <2>4, <2>7, <4>1
        <4> QED
          BY <2>3, <4>1, <4>2 DEF Top
      <3>3. ASSUME scans' # <<>> PROVE ~Before(timers, Top', 1)
        BY <1>1, <3>2, <3>3 DEF Before
      <3> QED
        BY <3>1, <3>2, <3>3 DEF Ahead
    <2> QED
      BY <2>2, <2>5, <2>6, <2>7
  <1> QED
    BY <1>6, <1>7

\* The test: a timer whose counter is not zero is left behind, one that has run out expires.
LEMMA TestKeeps == TimersInv /\ Test => TimersInv'
  <1> SUFFICES ASSUME TimersInv, Test PROVE TimersInv'
    OBVIOUS
  <1>1. scans # <<>> /\ Top.pc = "test"
    BY DEF Test, ScanAt
  <1>2. /\ scans \in Seq(Scan) /\ timers \in Seq(Timers) /\ Top \in Scan
        /\ Top.on => Top.tmp # timers[1]
    BY <1>1, ScanPlace
  <1>3. PICK j \in DOMAIN timers : Top.tmp = timers[j]
    BY <1>1, ScanPlace
  <1>4. UNCHANGED <<UL, timers, left, period, created, sysCall, wild, age, nested>>
    BY DEF Test
  <1>5. ListOK' /\ CallOK'
    BY <1>4, ListUnchanged
  <1>6. CASE left[Top.tmp] = 0
    <2> DEFINE r == [Top EXCEPT !.pc = "expire"]
    <2>1. scans' = [scans EXCEPT ![Len(scans)] = r]
      BY <1>6 DEF Test, Top
    <2>2. r \in Scan /\ r.tmp = Top.tmp /\ r.pc = "expire" /\ r.on = Top.on
      BY <1>2 DEF Scan
    <2> HIDE DEF r
    <2>3. scans' \in Seq(Scan) /\ Len(scans') = Len(scans) /\ ScansOK' /\ scans' # <<>> /\ Top' = r
      BY <1>1, <1>2, <1>3, <1>4, <2>1, <2>2, ScansChanged
    <2>4. TimersTypeOK'
      BY <1>4, <2>3 DEF TimersInv, TimersTypeOK
    <2>5. ASSUME NEW i \in DOMAIN timers', Kept(i)' PROVE Exact(i)'
      <3>1. i \in DOMAIN timers /\ Kept(i) /\ Exact(i)
        BY <1>4, <2>5 DEF Kept, TimersInv
      <3>2. Ahead(i)' <=> Ahead(i)
        BY <1>1, <1>4, <2>2, <2>3 DEF Ahead, Before
      <3> QED
        BY <1>1, <1>4, <2>2, <2>3, <3>1, <3>2 DEF Exact
    <2> QED
      BY <1>5, <2>3, <2>4, <2>5 DEF TimersInv
  <1>7. CASE left[Top.tmp] # 0
    <2>1. Advance(Top.on) /\ Top.on \in BOOLEAN
      BY <1>2, <1>7 DEF Test, Scan
    <2>2. /\ scans' \in Seq(Scan) /\ Len(scans') \in 0 .. MaxNest /\ ScansOK'
          /\ \A i \in DOMAIN timers : i = 1 \/ ~nested =>
                /\ Ahead(i)' <=> Ahead(i)
                /\ scans' # <<>> => Top'.tmp # timers[i] \/ Top'.pc = "load"
      BY <1>1, <1>4, <2>1, AdvanceKeeps
    <2>3. TimersTypeOK'
      BY <1>4, <2>2 DEF TimersInv, TimersTypeOK
    <2>4. ASSUME NEW i \in DOMAIN timers', Kept(i)' PROVE Exact(i)'
      <3>1. i \in DOMAIN timers /\ Kept(i) /\ Exact(i) /\ (i = 1 \/ ~nested)
        BY <1>4, <2>4 DEF Kept, TimersInv
      <3>2. left[timers[i]] # 0
        BY <1>7, <3>1 DEF Exact
      <3> QED
        BY <1>4, <2>2, <3>1, <3>2 DEF Exact
    <2> QED
      BY <1>5, <2>2, <2>3, <2>4 DEF TimersInv
  <1> QED
    BY <1>6, <1>7

\* The expiry: the timer begins anew.
LEMMA ExpireKeeps == TimersInv /\ Expire => TimersInv'
  <1> SUFFICES ASSUME TimersInv, Expire PROVE TimersInv'
    OBVIOUS
  <1>1. scans # <<>> /\ Top.pc = "expire"
    BY DEF Expire, ScanAt
  <1> DEFINE at == Top.tmp
  <1>2. scans \in Seq(Scan) /\ timers \in Seq(Timers) /\ Top \in Scan
    BY <1>1, ScanPlace
  <1>3. PICK j \in DOMAIN timers : at = timers[j]
    BY <1>1, ScanPlace
  <1>4. UNCHANGED <<UL, timers, period, created, sysCall, wild, nested>>
    BY DEF Expire
  <1>5. left' = [left EXCEPT ![at] = period[at]] /\ age' = [age EXCEPT ![at] = 0]
    BY DEF Expire
  <1>6. /\ scans' \in Seq(Scan) /\ Len(scans') \in 0 .. MaxNest /\ ScansOK'
        /\ \A i \in DOMAIN timers : i = 1 \/ ~nested =>
              /\ Ahead(i)' <=> Ahead(i)
              /\ scans' # <<>> => Top'.tmp # timers[i] \/ Top'.pc = "load"
    BY <1>1, <1>4, AdvanceKeeps DEF Expire
  <1>7. at \in Timers /\ left \in [Timers -> Int] /\ age \in [Timers -> Nat] /\ period[at] \in Int
    <2>1. at \in Timers
      BY <1>2 DEF Scan
    <2>2. period[at] \in Int
      BY <2>1, CountTypes
    <2> QED
      BY <2>1, <2>2 DEF TimersInv, TimersTypeOK
  <1>8. \A i \in DOMAIN timers : Ahead(i) <=> j < i
    BY <1>1, <1>2, <1>3, BeforePlace DEF TimersInv, ListOK, Ahead
  <1> HIDE DEF at
  <1>9. left' \in [Timers -> Int] /\ age' \in [Timers -> Nat]
    BY <1>5, <1>7
  <1>10. TimersTypeOK'
    BY <1>4, <1>6, <1>9 DEF TimersInv, TimersTypeOK
  <1>11. ListOK' /\ CallOK'
    BY <1>3, <1>5, <1>7, <1>4, ListUnchanged
  <1>12. ASSUME NEW i \in DOMAIN timers', Kept(i)' PROVE Exact(i)'
    <2> DEFINE t == timers[i]
    <2>1. i \in DOMAIN timers /\ Kept(i) /\ Exact(i) /\ (i = 1 \/ ~nested)
      BY <1>4, <1>12 DEF Kept, TimersInv
    <2>2. t \in Timers /\ i \in Int /\ j \in Int
      BY <1>2, <2>1
    <2>3. period[t] \in Nat /\ period[t] # 0
      BY <2>1, <2>2, CountTypes DEF Kept
    <2>4. at = t <=> j = i
      BY <1>3, <2>1 DEF TimersInv, ListOK
    <2>5. CASE j = i
      <3>1. left'[t] = period[t] /\ age'[t] = 0 /\ ~Ahead(i)'
        BY <1>5, <1>6, <1>7, <1>8, <2>1, <2>2, <2>4, <2>5
      <3>2. age'[t] + left'[t] = period[t] + (IF Ahead(i)' THEN 1 ELSE 0) /\ left'[t] \in 0 .. period[t] /\ left'[t] # 0
        BY <2>3, <3>1
      <3> QED
        BY <1>4, <1>6, <2>1, <3>2 DEF Exact
    <2>6. CASE j # i
      <3>1. left'[t] = left[t] /\ age'[t] = age[t]
        BY <1>5, <1>7, <2>2, <2>4, <2>6
      <3>2. left[t] # 0
        BY <2>1, <2>4, <2>6 DEF Exact, at
      <3>3. /\ age[t] + left[t] = period[t] + (IF Ahead(i) THEN 1 ELSE 0)
            /\ left[t] \in 0 .. period[t]
        BY <2>1 DEF Exact
      <3>4. age'[t] + left'[t] = period[t] + (IF Ahead(i)' THEN 1 ELSE 0) /\ left'[t] \in 0 .. period[t] /\ left'[t] # 0
        BY <1>6, <2>1, <3>1, <3>2, <3>3
      <3> QED
        BY <1>4, <1>6, <2>1, <3>4 DEF Exact
    <2> QED
      BY <2>5, <2>6
  <1> QED
    BY <1>6, <1>10, <1>11, <1>12 DEF TimersInv

\* A tick: no timer that is kept is still to be counted down for an earlier one, and each is for this.
LEMMA TickKeeps == TimersInv /\ Tick => TimersInv'
  <1> SUFFICES ASSUME TimersInv, Tick PROVE TimersInv'
    OBVIOUS
  <1>1. /\ scans \in Seq(Scan) /\ timers \in Seq(Timers) /\ Len(scans) \in 0 .. MaxNest /\ MaxNest \in Nat \ {0}
        /\ age \in [Timers -> Nat] /\ MaxCount \in Nat
    BY BoundsAssumption DEF TimersInv, TimersTypeOK
  <1>2. UNCHANGED <<UL, timers, left, period, created, sysCall>> /\ nested' = (nested \/ scans # <<>>)
    BY DEF Tick
  <1>3. /\ wild' \in BOOLEAN /\ nested' \in BOOLEAN
        /\ age' \in [Timers -> Nat]
        /\ \A t \in Timers : age'[t] = IF \E i \in DOMAIN timers : timers[i] = t THEN Older(age[t]) ELSE age[t]
    <2>1. \A t \in Timers : Older(age[t]) \in Nat
      BY <1>1 DEF Older
    <2> QED
      BY <1>1, <2>1 DEF Tick, TimersInv, TimersTypeOK
  <1>4. ListOK' /\ CallOK'
    BY <1>2, <1>3, ListUnchanged
  <1>5. CASE timers = <<>>
    <2>1. scans' = scans /\ DOMAIN timers = {}
      BY <1>5 DEF Tick
    <2>2. ScansOK'
      BY <1>2, <2>1 DEF TimersInv, ScansOK
    <2>3. TimersTypeOK'
      BY <1>2, <1>3, <2>1 DEF TimersInv, TimersTypeOK
    <2> QED
      BY <1>2, <1>4, <2>1, <2>2, <2>3 DEF TimersInv
  <1>6. CASE timers # <<>>
    <2> DEFINE r == [tmp |-> timers[1], pc |-> "load", reg |-> 0, on |-> FALSE]
    <2>1. 1 \in DOMAIN timers /\ timers[1] \in Timers
      BY <1>1, <1>6, EmptySeq
    <2>2. scans' = Append(scans, r)
      BY <1>6 DEF Tick, First, TimersInv, ListOK
    <2>3. r \in Scan /\ r.tmp = timers[1] /\ r.pc = "load" /\ ~r.on
      BY <2>1 DEF Scan
    <2> HIDE DEF r
    <2>4. /\ scans' \in Seq(Scan) /\ Len(scans') = Len(scans) + 1 /\ scans' # <<>> /\ scans'[Len(scans')] = r
          /\ \A k \in DOMAIN scans' : k < Len(scans') => k \in DOMAIN scans /\ scans'[k] = scans[k]
      <3>1. scans \in Seq(Scan) /\ r \in Scan
        BY <1>1, <2>3
      <3> QED
        BY <2>2, <3>1, LastAdded
    <2>5. Top' = r
      BY <2>4 DEF Top
    <2>6. Len(scans') \in 0 .. MaxNest
      <3>1. CASE scans = <<>>
        BY <1>1, <2>4, <3>1
      <3>2. CASE scans # <<>>
        BY <1>1, <2>4, <3>2 DEF Tick
      <3> QED
        BY <3>1, <3>2
    <2>7. TimersTypeOK'
      BY <1>2, <1>3, <2>4, <2>6 DEF TimersInv, TimersTypeOK
    <2>8. ASSUME NEW k \in DOMAIN scans PROVE scans[k].on /\ scans[k].tmp # timers[1]
      <3>1. scans # <<>> /\ k \in 1 .. Len(scans)
        BY <1>1
      <3>2. Top.on
        BY <3>1 DEF Tick
      <3>3. scans[k].on
        BY <1>1, <3>1, <3>2 DEF TimersInv, ScansOK, Top
      <3> QED
        BY <3>3 DEF TimersInv, ScansOK
    <2>9. ASSUME NEW k \in DOMAIN scans'
          PROVE  /\ \E i \in DOMAIN timers' : scans'[k].tmp = timers'[i]
                 /\ k < Len(scans') => scans'[k].on
                 /\ scans'[k].on => scans'[k].tmp # timers'[1]
      <3>1. CASE k < Len(scans')
        BY <1>2, <2>4, <2>8, <3>1 DEF TimersInv, ScansOK
      <3>2. CASE k = Len(scans')
        BY <1>2, <2>1, <2>3, <2>4, <3>2
      <3>3. k \in 1 .. Len(scans') /\ Len(scans') \in Nat
        BY <2>4
      <3> QED
        BY <3>1, <3>2, <3>3
    <2>10. ~nested' => Len(scans') <= 1
      <3>1. scans = <<>> => Len(scans') <= 1
        BY <2>4
      <3>2. ~nested' => scans = <<>>
        BY <1>2
      <3> QED
        BY <3>1, <3>2, Zenon
    <2>11. ScansOK'
      BY <2>9, <2>10 DEF ScansOK
    <2>12. ASSUME NEW i \in DOMAIN timers', Kept(i)' PROVE Exact(i)'
      <3> DEFINE t == timers[i]
      <3>1. i \in DOMAIN timers /\ Kept(i) /\ Exact(i) /\ (i = 1 \/ scans = <<>>)
        BY <1>2, <2>12 DEF Kept, TimersInv
      <3>2. t \in Timers /\ i \in Nat /\ i > 0
        BY <1>1, <3>1
      <3>3. left[t] \in Int /\ age[t] \in Nat /\ period[t] \in Nat /\ MaxCount \in Nat /\ period[t] < MaxCount
        BY <3>1, <3>2, CountTypes DEF Kept
      <3>4. ~Ahead(i) /\ left[t] # 0
        <4>1. CASE scans = <<>>
          BY <3>1, <4>1 DEF Exact, Ahead
        <4>2. CASE scans # <<>>
          <5>1. Len(scans) \in DOMAIN scans
            BY <1>1, <4>2, TopType
          <5>2. i = 1 /\ Top.tmp # timers[1]
            BY <2>8, <3>1, <4>2, <5>1 DEF Top
          <5>3. ~\E j \in 1 .. 1 - 1 : timers[j] = Top.tmp
            OBVIOUS
          <5> QED
            BY <3>1, <5>2, <5>3 DEF Exact, Ahead, Before
        <4> QED
          BY <4>1, <4>2
      <3>5. age[t] + left[t] = period[t] /\ left[t] \in 0 .. period[t]
        BY <3>1, <3>3, <3>4 DEF Exact
      <3>6. age'[t] = age[t] + 1
        <4>1. age'[t] = Older(age[t])
          BY <1>3, <3>1, <3>2
        <4>2. age[t] # MaxCount
          BY <3>3, <3>4, <3>5
        <4> QED
          BY <4>1, <4>2 DEF Older
      <3>7. Ahead(i)'
        <4>1. Before(timers, r, i)
          BY <1>1, <2>1, <2>3, <3>1, <3>2, BeforePlace DEF TimersInv, ListOK
        <4> QED
          BY <1>2, <2>4, <2>5, <4>1 DEF Ahead
      <3>8. age'[t] + left[t] = period[t] + 1
        BY <3>3, <3>5, <3>6
      <3>9. timers' = timers /\ left' = left /\ period' = period /\ Top'.pc = "load"
        BY <1>2, <2>3, <2>5
      <3> HIDE DEF t
      <3> QED
        BY <3>4, <3>5, <3>7, <3>8, <3>9 DEF Exact, t
    <2> QED
      BY <1>4, <2>7, <2>11, <2>12 DEF TimersInv
  <1> QED
    BY <1>5, <1>6

\* A step between scans, after which each timer that is kept is as much below its period as it is old.
LEMMA BetweenScans ==
    ASSUME scans = <<>>, UNCHANGED <<scans, nested>>, TimersTypeOK', ListOK', CallOK',
           \A i \in DOMAIN timers' : Kept(i)' =>
              LET t == timers'[i] IN
              age'[t] + left'[t] = period'[t] + 0 /\ left'[t] \in 0 .. period'[t] /\ left'[t] # 0
    PROVE  TimersInv'
  <1>1. ScansOK'
    <2>1. DOMAIN scans' = {} /\ Len(scans') = 0
      OBVIOUS
    <2> QED
      BY <2>1 DEF ScansOK
  <1>2. \A i : ~Ahead(i)'
    BY DEF Ahead
  <1>3. \A i \in DOMAIN timers' : Kept(i)' => Exact(i)'
    BY <1>2 DEF Exact
  <1> QED
    BY <1>1, <1>3 DEF TimersInv

\* Between scans nothing of a timer that is kept is in anybody's hands.
LEMMA RestsBetweenScans ==
    ASSUME TimersInv, scans = <<>>, NEW i, Kept(i)
    PROVE  /\ age[timers[i]] + left[timers[i]] = period[timers[i]] + 0
           /\ left[timers[i]] \in 0 .. period[timers[i]] /\ left[timers[i]] # 0
  <1>1. Exact(i) /\ ~Ahead(i)
    BY DEF TimersInv, Kept, Ahead
  <1> QED
    BY <1>1 DEF Exact

\* sys_timer_create(): the new timer is in no list.
LEMMA CreateKeeps == ASSUME TimersInv, NEW p \in Periods, TimerCreate(p) PROVE TimersInv'
  <1> DEFINE new == created + 1
  <1>1. scans = <<>> /\ sysCall.name = "none" /\ created < MaxTimers
    BY DEF TimerCreate, InTask
  <1>2. created \in Nat /\ MaxTimers \in Nat /\ timers \in Seq(Timers)
    BY BoundsAssumption DEF TimersInv, TimersTypeOK
  <1>3. new \in Timers /\ new \in 0 .. MaxTimers /\ new > created /\ new > 0
    BY <1>1, <1>2 DEF Timers
  <1>4. /\ created' = new /\ left' = [left EXCEPT ![new] = p] /\ period' = [period EXCEPT ![new] = p]
        /\ sysCall' = [name |-> "create", tmp |-> new] /\ UL' \in {"raw", UL}
        /\ UL = "ready" => UL' = "ready"
        /\ UNCHANGED <<timers, scans, wild, age, nested>>
    BY DEF TimerCreate
  <1>5. \A i \in DOMAIN timers : timers[i] \in Timers /\ timers[i] # new
    BY <1>2, <1>3 DEF TimersInv, ListOK, Timers
  <1> HIDE DEF new
  <1>6. left \in [Timers -> Int] /\ period \in [Timers -> Periods \cup {0}] /\ p \in Int /\ p \in Periods \cup {0}
    <2>1. p \in Int
      BY PeriodsAssumption
    <2> QED
      BY <2>1 DEF TimersInv, TimersTypeOK
  <1>7. left' \in [Timers -> Int] /\ period' \in [Timers -> Periods \cup {0}]
    BY <1>3, <1>4, <1>6
  <1>8. sysCall' \in [name : {"none", "create", "destroy"}, tmp : Timers \cup {NoTimer}]
    BY <1>3, <1>4
  <1>9. TimersTypeOK'
    BY <1>3, <1>4, <1>7, <1>8 DEF TimersInv, TimersTypeOK
  <1>10. ListOK'
    <2>1. \A i \in DOMAIN timers : timers[i] <= created'
      BY <1>2, <1>3, <1>4, <1>5 DEF TimersInv, ListOK, Timers
    <2>2. \A t \in Timers : t > created' => t > created
      BY <1>2, <1>3, <1>4 DEF Timers, new
    <2> QED
      BY <1>4, <2>1, <2>2 DEF TimersInv, ListOK
  <1>11. CallOK'
    <2>1. age[new] = 0
      BY <1>3 DEF TimersInv, ListOK
    <2>2. left'[new] = p /\ period'[new] = p
      BY <1>3, <1>4, <1>6
    <2> QED
      BY <1>3, <1>4, <1>5, <2>1, <2>2 DEF CallOK
  <1>12. ASSUME NEW i \in DOMAIN timers', Kept(i)'
         PROVE  /\ age'[timers'[i]] + left'[timers'[i]] = period'[timers'[i]] + 0
                /\ left'[timers'[i]] \in 0 .. period'[timers'[i]] /\ left'[timers'[i]] # 0
    <2>1. i \in DOMAIN timers /\ timers[i] \in Timers /\ timers[i] # new
      BY <1>4, <1>5, <1>12
    <2>2. left'[timers[i]] = left[timers[i]] /\ period'[timers[i]] = period[timers[i]]
      BY <1>4, <1>6, <2>1
    <2>3. Kept(i)
      BY <1>4, <1>12, <2>1, <2>2 DEF Kept
    <2> QED
      BY <1>1, <1>4, <2>2, <2>3, RestsBetweenScans
  <1> QED
    BY <1>1, <1>4, <1>9, <1>10, <1>11, <1>12, BetweenScans

\* insert_user_timer(): the new timer, which is not in the list, becomes its last.
LEMMA InsertKeeps == TimersInv /\ InsertUserTimer => TimersInv'
  <1> SUFFICES ASSUME TimersInv, InsertUserTimer PROVE TimersInv'
    OBVIOUS
  <1> DEFINE new == sysCall.tmp
  <1>1. scans = <<>> /\ sysCall.name = "create"
    BY DEF InsertUserTimer, InTask
  <1>2. created \in 0 .. MaxTimers /\ MaxTimers \in Nat /\ timers \in Seq(Timers)
    BY BoundsAssumption DEF TimersInv, TimersTypeOK
  <1>3. /\ new = created /\ new \in Timers /\ age[new] = 0 /\ left[new] = period[new]
        /\ \A i \in DOMAIN timers : timers[i] # new
    BY <1>1, <1>2 DEF TimersInv, CallOK, Timers
  <1>4. UL' = "ready" /\ timers' = Append(timers, new) /\ sysCall' = NoCall
        /\ UNCHANGED <<left, period, created, scans, wild, age, nested>>
    BY DEF InsertUserTimer
  <1> HIDE DEF new
  <1>5. /\ timers' \in Seq(Timers) /\ Len(timers') = Len(timers) + 1 /\ timers'[Len(timers')] = new
        /\ \A i \in DOMAIN timers' : i < Len(timers') => i \in DOMAIN timers /\ timers'[i] = timers[i]
    BY <1>2, <1>3, <1>4, LastAdded
  <1>6. \A i \in DOMAIN timers' : i < Len(timers') \/ i = Len(timers')
    BY <1>5
  <1>7. TimersTypeOK'
    <2>1. sysCall' \in [name : {"none", "create", "destroy"}, tmp : Timers \cup {NoTimer}]
      BY <1>4 DEF NoCall
    <2> QED
      BY <1>4, <1>5, <2>1 DEF TimersInv, TimersTypeOK
  <1>8. ListOK'
    <2>1. ASSUME NEW i \in DOMAIN timers', NEW j \in DOMAIN timers', timers'[i] = timers'[j] PROVE i = j
      <3>1. CASE i < Len(timers') /\ j < Len(timers')
        BY <1>5, <2>1, <3>1 DEF TimersInv, ListOK
      <3>2. CASE i = Len(timers') \/ j = Len(timers')
        BY <1>3, <1>5, <1>6, <2>1, <3>2
      <3> QED
        BY <1>6, <3>1, <3>2
    <2>2. ASSUME NEW i \in DOMAIN timers' PROVE timers'[i] <= created
      <3>1. CASE i < Len(timers')
        BY <1>5, <3>1 DEF TimersInv, ListOK
      <3>2. CASE i = Len(timers')
        BY <1>2, <1>3, <1>5, <3>2
      <3> QED
        BY <1>6, <3>1, <3>2
    <2> QED
      BY <1>4, <2>1, <2>2 DEF TimersInv, ListOK
  <1>9. CallOK'
    BY <1>4 DEF CallOK, NoCall
  <1>10. ASSUME NEW i \in DOMAIN timers', Kept(i)'
         PROVE  /\ age'[timers'[i]] + left'[timers'[i]] = period'[timers'[i]] + 0
                /\ left'[timers'[i]] \in 0 .. period'[timers'[i]] /\ left'[timers'[i]] # 0
    <2>1. CASE i < Len(timers')
      <3>1. i \in DOMAIN timers /\ timers'[i] = timers[i]
        BY <1>5, <2>1
      <3>2. Kept(i)
        BY <1>4, <1>10, <3>1 DEF Kept
      <3> QED
        BY <1>1, <1>4, <3>1, <3>2, RestsBetweenScans
    <2>2. CASE i = Len(timers')
      <3>1. timers'[i] = new /\ period[new] # 0 /\ period[new] \in Nat
        BY <1>3, <1>4, <1>5, <1>10, <2>2, CountTypes DEF Kept
      <3> QED
        BY <1>3, <1>4, <3>1
    <2> QED
      BY <1>6, <2>1, <2>2
  <1> QED
    BY <1>1, <1>4, <1>7, <1>8, <1>9, <1>10, BetweenScans

\* The list without one place: the others keep their order.
LEMMA PlaceRemoved ==
    ASSUME NEW S, NEW l \in Seq(S), NEW n \in DOMAIN l, NEW q, q = RemoveAt(l, n)
    PROVE  /\ q \in Seq(S) /\ Len(q) = Len(l) - 1
           /\ \A i \in DOMAIN q : IF i < n THEN i \in DOMAIN l /\ q[i] = l[i] ELSE i + 1 \in DOMAIN l /\ q[i] = l[i + 1]
  <1> DEFINE a == SubSeq(l, 1, n - 1)
             b == SubSeq(l, n + 1, Len(l))
  <1>1. Len(l) \in Nat /\ DOMAIN l = 1 .. Len(l) /\ n \in 1 .. Len(l)
    OBVIOUS
  <1>2. q = a \o b
    BY DEF RemoveAt
  <1>3. a \in Seq(S) /\ Len(a) = n - 1 /\ \A i \in 1 .. n - 1 : a[i] = l[i]
    BY <1>1, SubSeqProperties
  <1>4. b \in Seq(S) /\ Len(b) = Len(l) - n /\ \A i \in 1 .. Len(l) - n : b[i] = l[n + i]
    BY <1>1, SubSeqProperties
  <1> HIDE DEF a, b
  <1>5. q \in Seq(S) /\ Len(q) = Len(a) + Len(b)
        /\ \A i \in 1 .. Len(q) : q[i] = IF i <= Len(a) THEN a[i] ELSE b[i - Len(a)]
    <2>1. a \in Seq(S) /\ b \in Seq(S) /\ Len(a) \in Nat /\ Len(b) \in Nat
      BY <1>3, <1>4
    <2>2. /\ a \o b \in Seq(S) /\ Len(a \o b) = Len(a) + Len(b)
          /\ \A i \in 1 .. Len(a) + Len(b) : (a \o b)[i] = IF i <= Len(a) THEN a[i] ELSE b[i - Len(a)]
      BY <2>1, ConcatProperties
    <2> QED
      BY <1>2, <2>2
  <1>6. Len(q) = Len(l) - 1
    BY <1>1, <1>3, <1>4, <1>5
  <1>7. ASSUME NEW i \in DOMAIN q
        PROVE  IF i < n THEN i \in DOMAIN l /\ q[i] = l[i] ELSE i + 1 \in DOMAIN l /\ q[i] = l[i + 1]
    <2>1. i \in 1 .. Len(q) /\ i \in 1 .. Len(l) - 1
      BY <1>5, <1>6
    <2>2. CASE i < n
      BY <1>1, <1>3, <1>5, <2>1, <2>2
    <2>3. CASE ~(i < n)
      <3>1. i - (n - 1) \in 1 .. Len(l) - n /\ n + (i - (n - 1)) = i + 1
        BY <1>1, <2>1, <2>3
      <3>2. q[i] = b[i - (n - 1)]
        BY <1>1, <1>3, <1>5, <2>1, <2>3
      <3> QED
        BY <1>1, <1>4, <2>1, <2>3, <3>1, <3>2
    <2> QED
      BY <2>2, <2>3
  <1> QED
    BY <1>5, <1>6, <1>7

LEMMA DestroyKeeps == TimersInv /\ TimerDestroy => TimersInv'
  <1> SUFFICES ASSUME TimersInv, TimerDestroy PROVE TimersInv'
    OBVIOUS
  <1>1. scans = <<>> /\ timers \in Seq(Timers)
    BY DEF TimerDestroy, InTask, TimersInv, TimersTypeOK
  <1>2. sysCall' = [name |-> "destroy", tmp |-> First(timers)]
        /\ UNCHANGED <<UL, timers, left, period, created, scans, wild, age, nested>>
    BY DEF TimerDestroy
  <1>3. First(timers) = NoTimer \/ (1 \in DOMAIN timers /\ First(timers) = timers[1] /\ timers[1] \in Timers)
    BY <1>1, EmptySeq DEF First
  <1>4. sysCall' \in [name : {"none", "create", "destroy"}, tmp : Timers \cup {NoTimer}]
    BY <1>2, <1>3
  <1>5. TimersTypeOK'
    BY <1>2, <1>4 DEF TimersInv, TimersTypeOK
  <1>6. ListOK'
    BY <1>2 DEF TimersInv, ListOK
  <1>7. CallOK'
    BY <1>2, <1>3 DEF CallOK
  <1>8. ASSUME NEW i \in DOMAIN timers', Kept(i)'
        PROVE  /\ age'[timers'[i]] + left'[timers'[i]] = period'[timers'[i]] + 0
               /\ left'[timers'[i]] \in 0 .. period'[timers'[i]] /\ left'[timers'[i]] # 0
    <2>1. Kept(i)
      BY <1>2, <1>8 DEF Kept
    <2> QED
      BY <1>1, <1>2, <2>1, RestsBetweenScans
  <1> QED
    BY <1>1, <1>2, <1>5, <1>6, <1>7, <1>8, BetweenScans

\* One turn of sys_timer_destroy(): the first timer of the list stays the first.
LEMMA RemoveKeeps == TimersInv /\ RemoveUserTimer => TimersInv'
  <1> SUFFICES ASSUME TimersInv, RemoveUserTimer PROVE TimersInv'
    OBVIOUS
  <1> DEFINE u == sysCall.tmp
             n == CHOOSE i \in DOMAIN timers : timers[i] = u
  <1>1. scans = <<>> /\ sysCall.name = "destroy" /\ timers \in Seq(Timers)
        /\ \A i, j \in DOMAIN timers : timers[i] = timers[j] => i = j
    BY DEF RemoveUserTimer, InTask, TimersInv, TimersTypeOK, ListOK
  <1>2. UNCHANGED <<UL, left, period, created, scans, wild, age, nested>>
    BY DEF RemoveUserTimer
  <1>3. CASE u = NoTimer
    <2>1. sysCall' = NoCall /\ timers' = timers
      BY <1>3 DEF RemoveUserTimer
    <2>2. sysCall' \in [name : {"none", "create", "destroy"}, tmp : Timers \cup {NoTimer}]
      BY <2>1 DEF NoCall
    <2>3. TimersTypeOK'
      BY <1>2, <2>1, <2>2 DEF TimersInv, TimersTypeOK
    <2>4. ListOK' /\ CallOK'
      BY <1>2, <2>1 DEF TimersInv, ListOK, CallOK, NoCall
    <2>5. ASSUME NEW i \in DOMAIN timers', Kept(i)'
          PROVE  /\ age'[timers'[i]] + left'[timers'[i]] = period'[timers'[i]] + 0
                 /\ left'[timers'[i]] \in 0 .. period'[timers'[i]] /\ left'[timers'[i]] # 0
      <3>1. Kept(i)
        BY <1>2, <2>1, <2>5 DEF Kept
      <3> QED
        BY <1>1, <1>2, <2>1, <3>1, RestsBetweenScans
    <2> QED
      BY <1>1, <1>2, <2>3, <2>4, <2>5, BetweenScans
  <1>4. CASE u # NoTimer
    <2>1. n \in DOMAIN timers /\ timers[n] = u
      BY <1>1, <1>4 DEF TimersInv, CallOK
    <2>2. /\ sysCall' = [sysCall EXCEPT !.tmp = NextOf(timers, u)]
          /\ timers' = IF u = First(timers) THEN timers ELSE RemoveAt(timers, n)
      BY <1>4 DEF RemoveUserTimer
    <2> HIDE DEF n, u
    <2>3. Len(timers) \in Nat /\ DOMAIN timers = 1 .. Len(timers) /\ 1 \in DOMAIN timers /\ First(timers) = timers[1]
          /\ n \in Nat
      <3>1. timers # <<>> /\ n \in 1 .. Len(timers) /\ Len(timers) \in Nat
        BY <1>1, <2>1
      <3> QED
        BY <1>1, <3>1 DEF First
    <2>4. NextOf(timers, u) = NoTimer \/ (n + 1 \in DOMAIN timers /\ NextOf(timers, u) = timers[n + 1])
      BY <1>1, <2>1, NextPlace
    <2>5. CASE u = First(timers)
      <3>1. timers' = timers
        BY <2>2, <2>5
      <3>2. sysCall' \in [name : {"none", "create", "destroy"}, tmp : Timers \cup {NoTimer}]
            /\ sysCall'.name = "destroy" /\ sysCall'.tmp = NextOf(timers, u)
        BY <1>1, <2>2, <2>4 DEF TimersInv, TimersTypeOK
      <3>3. TimersTypeOK'
        BY <1>2, <3>1, <3>2 DEF TimersInv, TimersTypeOK
      <3>4. ListOK' /\ CallOK'
        BY <1>2, <2>4, <3>1, <3>2 DEF TimersInv, ListOK, CallOK
      <3>5. ASSUME NEW i \in DOMAIN timers', Kept(i)'
            PROVE  /\ age'[timers'[i]] + left'[timers'[i]] = period'[timers'[i]] + 0
                   /\ left'[timers'[i]] \in 0 .. period'[timers'[i]] /\ left'[timers'[i]] # 0
        <4>1. Kept(i)
          BY <1>2, <3>1, <3>5 DEF Kept
        <4> QED
          BY <1>1, <1>2, <3>1, <4>1, RestsBetweenScans
      <3> QED
        BY <1>1, <1>2, <3>3, <3>4, <3>5, BetweenScans
    <2>6. CASE u # First(timers)
      <3>1. timers' = RemoveAt(timers, n) /\ n > 1
        BY <1>1, <2>1, <2>2, <2>3, <2>6
      <3>2. /\ timers' \in Seq(Timers) /\ Len(timers') = Len(timers) - 1
            /\ \A i \in DOMAIN timers' :
                  IF i < n THEN i \in DOMAIN timers /\ timers'[i] = timers[i]
                  ELSE i + 1 \in DOMAIN timers /\ timers'[i] = timers[i + 1]
        BY <1>1, <2>1, <3>1, PlaceRemoved
      <3>3. DOMAIN timers' = 1 .. Len(timers')
        BY <3>2
      <3>4. sysCall' \in [name : {"none", "create", "destroy"}, tmp : Timers \cup {NoTimer}]
            /\ sysCall'.name = "destroy" /\ sysCall'.tmp = NextOf(timers, u)
        BY <1>1, <2>2, <2>4 DEF TimersInv, TimersTypeOK
      <3>5. TimersTypeOK'
        BY <1>2, <3>2, <3>4 DEF TimersInv, TimersTypeOK
      <3>6. ASSUME NEW i \in DOMAIN timers', NEW j \in DOMAIN timers', timers'[i] = timers'[j] PROVE i = j
        <4>1. i \in Nat /\ j \in Nat
          BY <3>3
        <4> QED
          BY <1>1, <2>3, <3>2, <3>6, <4>1
      <3>7. \A i \in DOMAIN timers' : timers'[i] <= created
        BY <3>2 DEF TimersInv, ListOK
      <3>8. ListOK'
        <4>1. timers # <<>> /\ \A t \in Timers : t > created => age[t] = 0
          BY <2>3 DEF TimersInv, ListOK
        <4> QED
          BY <1>2, <3>6, <3>7, <4>1 DEF TimersInv, ListOK
      <3>9. CallOK'
        <4>1. CASE NextOf(timers, u) = NoTimer
          BY <3>4, <4>1 DEF CallOK
        <4>2. CASE n + 1 \in DOMAIN timers /\ NextOf(timers, u) = timers[n + 1]
          <5>1. n \in DOMAIN timers' /\ ~(n < n)
            BY <2>3, <3>1, <3>2, <3>3, <4>2
          <5>2. timers'[n] = timers[n + 1]
            BY <3>2, <5>1
          <5> QED
            BY <3>4, <4>2, <5>1, <5>2 DEF CallOK
        <4> QED
          BY <2>4, <4>1, <4>2
      <3>10. ASSUME NEW i \in DOMAIN timers', Kept(i)'
             PROVE  /\ age'[timers'[i]] + left'[timers'[i]] = period'[timers'[i]] + 0
                    /\ left'[timers'[i]] \in 0 .. period'[timers'[i]] /\ left'[timers'[i]] # 0
        <4>1. PICK k \in DOMAIN timers : timers'[i] = timers[k] /\ (i = 1 => k = 1)
          BY <2>3, <3>1, <3>2
        <4>2. Kept(k)
          BY <1>2, <3>10, <4>1 DEF Kept
        <4> QED
          BY <1>1, <1>2, <4>1, <4>2, RestsBetweenScans
      <3> QED
        BY <1>1, <1>2, <3>5, <3>8, <3>9, <3>10, BetweenScans
    <2> QED
      BY <2>5, <2>6
  <1> QED
    BY <1>3, <1>4

LEMMA TimersKeep == TimersInv /\ [TimersNext]_timerVars => TimersInv'
  <1> SUFFICES ASSUME TimersInv, [TimersNext]_timerVars PROVE TimersInv'
    OBVIOUS
  <1>1. CASE UNCHANGED timerVars
    BY <1>1 DEF timerVars, TimersInv, TimersTypeOK, ListOK, CallOK, ScansOK, Kept, Exact, Ahead, Before, Top
  <1> QED
    BY <1>1, TickKeeps, LoadKeeps, StoreKeeps, TestKeeps, ExpireKeeps, CreateKeeps, InsertKeeps, DestroyKeeps, RemoveKeeps
    DEF TimersNext, ScanStep

\* However many timers there are, whatever their periods, and however deep the scans of the clock's interrupt
\* are nested: the first timer of the list never misses a tick and expires exactly at every period, and
\* the others do as long as no tick has come during a scan.
THEOREM CountdownsAreRight == TimersSpec => []CountdownsRight
  <1> QED
    BY TimersStart, TimersKeep, TimersRight, PTL DEF TimersSpec

-----------------------------------------------------------------------------
(* The floppy driver. *)

Requests == [drive : Drives, track : Nat, errors : Nat]
Works == {"on", "transfer"}

\* The states of the driver.
FdStates ==
    [queue : Seq(Requests), reset : BOOLEAN, recalibrate : BOOLEAN, seek : BOOLEAN,
     current_drive : Drives, current_track : Nat, seek_track : Nat, selected : BOOLEAN,
     do_floppy : Handlers \cup {"none"}, busy : Seq(Handlers), age : 0 .. CommandTicks,
     drive : Drives, motors : SUBSET Drives, mon : [Drives -> 0 .. SpinTicks], moff : [Drives -> -1 .. OffTicks],
     timers : Seq([jiffies : Int, fn : Works]), wake : SUBSET {"motor", "select"}]

\* The driver has set out for the first request of its queue.
Aimed(s) ==
    /\ s.queue # <<>> /\ s.current_drive = Head(s.queue).drive /\ s.seek_track = Head(s.queue).track
    /\ ~s.seek => s.current_track = Head(s.queue).track

OnDrive(s) == s.selected /\ s.drive = s.current_drive

\* The motor is at speed and will not go off during the next n ticks; the motors have still to be looked
\* at for e ticks, which is none or one.
Warm(s, n, e) ==
    LET m == s.mon[s.current_drive]
        o == s.moff[s.current_drive] IN
    /\ s.current_drive \in s.motors /\ m < 2 + e
    /\ o = Never \/ (o >= n /\ (m = 0 => o >= n + e))

\* The motor is getting up to speed, which it will be in j ticks, or two.
Warming(s, j, e) ==
    LET m == s.mon[s.current_drive]
        o == s.moff[s.current_drive] IN
    /\ s.current_drive \in s.motors /\ m >= j + e /\ (m <= j + e \/ m <= 2)
    /\ o = Never \/ o >= 2 + 2 * CommandTicks

\* What the driver does next: nothing, as there is no request; an answer to a reset or a recalibration, a
\* seek or a transfer; or a timer.
Rests(s)      == s.timers = <<>> /\ s.busy = <<>> /\ s.do_floppy = "none"
Awaits(s, c)  == s.timers = <<>> /\ s.busy = <<c>> /\ s.do_floppy = c
Times(s, f)   ==
    /\ s.busy = <<>> /\ s.do_floppy = "none"
    /\ Len(s.timers) = 1 /\ s.timers[1].fn = f /\ s.timers[1].jiffies >= 1

Seeks(s, e) == Awaits(s, "seek") /\ Aimed(s) /\ OnDrive(s) /\ Warm(s, 2 * CommandTicks - s.age, e)
Transfers(s, e) ==
    /\ Awaits(s, "rw") /\ Aimed(s) /\ OnDrive(s) /\ s.current_track = Head(s.queue).track
    /\ Warm(s, CommandTicks - s.age, e)
Starts(s, e) == Times(s, "on") /\ Aimed(s) /\ Warming(s, s.timers[1].jiffies, e)
Selects(s, e) ==
    Times(s, "transfer") /\ Aimed(s) /\ OnDrive(s) /\ s.timers[1].jiffies <= 2
    /\ Warm(s, s.timers[1].jiffies + 2 * CommandTicks, e)

Phase(s, e) ==
    \/ Rests(s) /\ s.queue = <<>>
    \/ Awaits(s, "reset") \/ Awaits(s, "recal")
    \/ Seeks(s, e) \/ Transfers(s, e) \/ Starts(s, e) \/ Selects(s, e)

DriverOK(s, e) == s \in FdStates /\ ~s.reset /\ (s.selected => s.queue # <<>>) /\ Phase(s, e)

ChangeOK ==
    /\ change \in [at : {"user", "on", "motor", "check", "select"}, drive : Drives]
    /\ change.at = "motor" => fd.mon[change.drive] > 0 /\ change.drive \in fd.motors
    /\ change.at = "select" => fd.selected

\* The state before a request overtakes the reset, and the invariant.
FdRight == DriverOK(fd, 0) /\ fd.wake = {} /\ Len(fd.queue) <= MaxRequests /\ ChangeOK

\* What every step of the driver keeps, from s to t: who is woken is woken; the drive stays selected or its
\* sleeper is woken; a motor that gets up to speed goes on; no request is new.
Follows(s, t) ==
    /\ s.wake \subseteq t.wake
    /\ s.selected => t.selected \/ "select" \in t.wake
    /\ \A d \in Drives : d \in s.motors /\ s.mon[d] > 0 => d \in t.motors /\ t.mon[d] > 0
    /\ Len(t.queue) <= Len(s.queue)

LEMMA QueueLength == ASSUME NEW s, s \in FdStates PROVE s.queue \in Seq(Requests) /\ Len(s.queue) \in Nat
  <1>1. s.queue \in Seq(Requests)
    BY DEF FdStates
  <1> QED
    BY <1>1

LEMMA FollowsOn ==
    ASSUME NEW r, NEW s, NEW t, r \in FdStates, s \in FdStates, t \in FdStates, Follows(r, s), Follows(s, t)
    PROVE  Follows(r, t)
  <1>1. Len(r.queue) \in Nat /\ Len(s.queue) \in Nat /\ Len(t.queue) \in Nat
    BY QueueLength
  <1>2. Len(t.queue) <= Len(r.queue)
    BY <1>1, SMT DEF Follows
  <1> QED
    BY <1>2, Zenon DEF Follows

LEMMA FdNumbers ==
    /\ SpinTicks \in Nat /\ SpinTicks >= 2 /\ CommandTicks \in Nat /\ OffTicks \in Nat
    /\ OffTicks >= 2 + 2 * CommandTicks
  BY FloppyAssumption

\* A timer that is added when there is none is the only one.
LEMMA OnlyTimer ==
    ASSUME NEW s, s \in FdStates, s.timers = <<>>, NEW j \in Nat \ {0}, NEW f \in Works
    PROVE  AddTimer(s, j, f) = [s EXCEPT !.timers = <<[jiffies |-> j, fn |-> f]>>]
  <1> DEFINE Sum(g) == g = [i \in 0 .. Len(s.timers) |-> IF i = 0 THEN 0 ELSE g[i - 1] + s.timers[i].jiffies]
             sum == CHOOSE g : Sum(g)
             n == CHOOSE n \in 0 .. Len(s.timers) :
                      /\ \A i \in 1 .. n : sum[i] < j
                      /\ n = Len(s.timers) \/ sum[n + 1] >= j
  <1>1. Len(s.timers) = 0
    OBVIOUS
  <1>2. Sum([i \in {0} |-> 0])
    BY <1>1
  <1>3. Sum(sum)
    BY <1>2
  <1>4. sum[0] = 0
    BY <1>1, <1>3
  <1>5. n = 0
    BY <1>1
  <1>6. AddTimer(s, j, f) = [s EXCEPT !.timers = SubSeq(@, 1, n) \o <<[jiffies |-> j - sum[n], fn |-> f]>>
                                               \o SubSeq(@, n + 1, Len(@))]
    BY DEF AddTimer
  <1> HIDE DEF sum, n
  <1>7. j - sum[n] = j
    BY <1>4, <1>5
  <1>8. SubSeq(s.timers, 1, n) = <<>> /\ SubSeq(s.timers, n + 1, Len(s.timers)) = <<>>
    BY <1>1, <1>5
  <1>9. AddTimer(s, j, f) = [s EXCEPT !.timers = <<>> \o <<[jiffies |-> j, fn |-> f]>> \o <<>>]
    BY <1>6, <1>7, <1>8, Zenon
  <1>10. <<>> \o <<[jiffies |-> j, fn |-> f]>> \o <<>> = <<[jiffies |-> j, fn |-> f]>>
    OBVIOUS
  <1> QED
    BY <1>9, <1>10, Zenon

LEMMA OneTimer ==
    ASSUME NEW s, s \in FdStates, s.timers = <<>>, NEW j \in Nat \ {0}, NEW f \in Works
    PROVE  LET t == AddTimer(s, j, f) IN
           /\ t \in FdStates /\ t = [s EXCEPT !.timers = t.timers]
           /\ Len(t.timers) = 1 /\ t.timers[1].jiffies = j /\ t.timers[1].fn = f
           /\ Follows(s, t)
  <1> DEFINE r == <<[jiffies |-> j, fn |-> f]>>
             t == [s EXCEPT !.timers = r]
  <1>1. r \in Seq([jiffies : Int, fn : Works]) /\ Len(r) = 1 /\ r[1].jiffies = j /\ r[1].fn = f
    OBVIOUS
  <1> HIDE DEF r
  <1>2. t \in FdStates /\ t.timers = r
    BY <1>1 DEF FdStates
  <1>3. Len(s.queue) \in Nat
    BY DEF FdStates
  <1>4. Follows(s, t)
    BY <1>3 DEF FdStates, Follows
  <1>5. AddTimer(s, j, f) = t
    BY OnlyTimer DEF r
  <1> HIDE DEF t
  <1>6. t = [s EXCEPT !.timers = t.timers]
    BY <1>2 DEF t
  <1> QED
    BY <1>1, <1>2, <1>4, <1>5, <1>6

(* What the motors and the timers do to the drive that is in use. *)

\* A motor that is warm for n ticks stays so for fewer.
LEMMA WarmFor ==
    ASSUME NEW s, s \in FdStates, NEW n \in Nat, NEW k \in 0 .. n, NEW e \in 0 .. 1, Warm(s, n, e)
    PROVE  Warm(s, k, e)
  <1>1. s.mon[s.current_drive] \in Int /\ s.moff[s.current_drive] \in Int
    BY FdNumbers DEF FdStates
  <1> QED
    BY <1>1 DEF Warm, Never

\* reset_floppy().
LEMMA ResetLeads ==
    ASSUME NEW s, s \in FdStates, s.timers = <<>>, s.selected => s.queue # <<>>, NEW e
    PROVE  LET t == reset_floppy(s) IN DriverOK(t, e) /\ Follows(s, t)
  <1> DEFINE b == <<"reset">>
             t == [s EXCEPT !.reset = FALSE, !.recalibrate = TRUE, !.do_floppy = "reset", !.busy = b, !.age = 0]
  <1>1. b \in Seq(Handlers) /\ "reset" \in Handlers \cup {"none"} /\ 0 \in 0 .. CommandTicks
    BY FdNumbers DEF Handlers
  <1> HIDE DEF b
  <1>2. t \in FdStates
    BY <1>1, Zenon DEF FdStates
  <1>3. Awaits(t, "reset")
    BY DEF FdStates, Awaits, b
  <1>4. ~t.reset /\ (t.selected => t.queue # <<>>)
    BY DEF FdStates
  <1>5. Follows(s, t)
    BY QueueLength DEF FdStates, Follows
  <1>6. reset_floppy(s) = t
    BY DEF reset_floppy, b
  <1> HIDE DEF t
  <1> QED
    BY <1>2, <1>3, <1>4, <1>5, <1>6 DEF DriverOK, Phase

\* What Send does when the controller takes the command, and when it does not.
LEMMA SendTaken ==
    ASSUME NEW s, s \in FdStates, Rests(s), ~s.reset, NEW c \in Handlers
    PROVE  LET t == Send(s, c, TRUE) IN
           /\ t \in FdStates /\ t = [s EXCEPT !.do_floppy = c, !.busy = t.busy, !.age = 0]
           /\ Awaits(t, c) /\ t.age = 0 /\ Follows(s, t)
  <1> DEFINE b == <<c>>
             t == [s EXCEPT !.do_floppy = c, !.busy = b, !.age = 0]
  <1>1. b \in Seq(Handlers) /\ c \in Handlers \cup {"none"} /\ 0 \in 0 .. CommandTicks
    BY FdNumbers
  <1>2. Append(s.busy, c) = b
    BY DEF Rests
  <1>3. Send(s, c, TRUE) = t
    BY <1>2 DEF Send
  <1> HIDE DEF b
  <1>4. t \in FdStates
    BY <1>1, Zenon DEF FdStates
  <1>5. t.do_floppy = c /\ t.busy = b /\ t.age = 0 /\ t.timers = s.timers
    BY DEF FdStates
  <1>6. Awaits(t, c)
    BY <1>5 DEF Awaits, Rests, b
  <1>7. Follows(s, t)
    BY QueueLength DEF FdStates, Follows
  <1>8. t = [s EXCEPT !.do_floppy = c, !.busy = t.busy, !.age = 0]
    BY <1>5
  <1> HIDE DEF t
  <1> QED
    BY <1>3, <1>4, <1>5, <1>6, <1>7, <1>8

LEMMA SendRefused ==
    ASSUME NEW s, s \in FdStates, s.timers = <<>>, s.selected => s.queue # <<>>, NEW c, NEW ok, ~(ok /\ ~s.reset), NEW e
    PROVE  LET t == Send(s, c, ok) IN DriverOK(t, e) /\ Follows(s, t)
  <1> DEFINE q == [s EXCEPT !.seek = FALSE]
  <1>1. q \in FdStates
    BY Zenon DEF FdStates
  <1>2. q.timers = <<>> /\ (q.selected => q.queue # <<>>)
    BY DEF FdStates
  <1>3. Follows(s, q)
    BY QueueLength DEF FdStates, Follows
  <1>4. Send(s, c, ok) = reset_floppy(q)
    BY DEF Send
  <1> HIDE DEF q
  <1>5. DriverOK(reset_floppy(q), e) /\ Follows(q, reset_floppy(q))
    BY <1>1, <1>2, <1>3, ResetLeads
  <1>6. reset_floppy(q) \in FdStates
    BY <1>5 DEF DriverOK
  <1>7. Follows(s, reset_floppy(q))
    BY <1>1, <1>2, <1>3, <1>5, <1>6, FollowsOn
  <1> QED
    BY <1>4, <1>5, <1>7

\* recalibrate_floppy(), of any drive.
LEMMA RecalibrateLeads ==
    ASSUME NEW s, s \in FdStates, Rests(s), s.selected => s.queue # <<>>, ~s.reset, NEW ok \in BOOLEAN, NEW e
    PROVE  LET t == recalibrate_floppy(s, ok) IN DriverOK(t, e) /\ Follows(s, t)
  <1> DEFINE q == [s EXCEPT !.recalibrate = FALSE, !.current_track = 0, !.current_drive = 1]
  <1>1. 1 \in Drives /\ 0 \in Nat
    BY DEF Drives
  <1>2. q \in FdStates
    BY <1>1, Zenon DEF FdStates
  <1>3. Rests(q) /\ (q.selected => q.queue # <<>>) /\ ~q.reset
    BY DEF FdStates, Rests
  <1>4. Follows(s, q)
    BY QueueLength DEF FdStates, Follows
  <1>5. recalibrate_floppy(s, ok) = Send(q, "recal", ok)
    BY DEF recalibrate_floppy
  <1> HIDE DEF q
  <1>6. CASE ok
    <2> DEFINE t == Send(q, "recal", TRUE)
    <2>1. ok = TRUE
      BY <1>6
    <2>2. /\ t \in FdStates /\ t = [q EXCEPT !.do_floppy = "recal", !.busy = t.busy, !.age = 0]
          /\ Awaits(t, "recal") /\ Follows(q, t)
      BY <1>2, <1>3, SendTaken DEF Handlers
    <2> HIDE DEF t
    <2>3. t.reset = q.reset /\ t.selected = q.selected /\ t.queue = q.queue
      BY <1>2, <2>2 DEF FdStates
    <2>4. DriverOK(t, e)
      BY <1>3, <2>2, <2>3 DEF DriverOK, Phase
    <2>5. Follows(s, t)
      BY <1>2, <1>4, <2>2, FollowsOn
    <2> QED
      BY <1>5, <2>1, <2>4, <2>5 DEF t
  <1>7. CASE ~ok
    <2>1. DriverOK(Send(q, "recal", ok), e) /\ Follows(q, Send(q, "recal", ok))
      BY <1>2, <1>3, <1>7, SendRefused DEF Rests
    <2>2. Send(q, "recal", ok) \in FdStates
      BY <2>1 DEF DriverOK
    <2> QED
      BY <1>2, <1>4, <1>5, <2>1, <2>2, FollowsOn
  <1> QED
    BY <1>6, <1>7

\* A command of a seek or a transfer that the controller takes, with the drive selected.
LEMMA CommandLeads ==
    ASSUME NEW s, s \in FdStates, Rests(s), ~s.reset, Aimed(s), OnDrive(s), NEW e \in 0 .. 1, NEW ok \in BOOLEAN,
           NEW c \in {"seek", "rw"},
           c = "seek" => Warm(s, 2 * CommandTicks, e),
           c = "rw" => Warm(s, CommandTicks, e) /\ s.current_track = Head(s.queue).track
    PROVE  LET t == Send(s, c, ok) IN DriverOK(t, e) /\ Follows(s, t)
  <1>1. CASE ok
    <2> DEFINE t == Send(s, c, TRUE)
    <2>1. ok = TRUE
      BY <1>1
    <2>2. /\ t \in FdStates /\ t = [s EXCEPT !.do_floppy = c, !.busy = t.busy, !.age = 0]
          /\ Awaits(t, c) /\ t.age = 0 /\ Follows(s, t)
      BY SendTaken DEF Handlers
    <2> HIDE DEF t
    <2>3. /\ t.reset = s.reset /\ t.selected = s.selected /\ t.queue = s.queue /\ t.seek = s.seek
          /\ t.seek_track = s.seek_track /\ t.current_track = s.current_track
      BY <2>2 DEF FdStates
    <2>4. /\ t.current_drive = s.current_drive /\ t.drive = s.drive
          /\ t.mon = s.mon /\ t.moff = s.moff /\ t.motors = s.motors
      BY <2>2 DEF FdStates
    <2>5. Aimed(t) /\ OnDrive(t)
      BY <2>3, <2>4 DEF Aimed, OnDrive
    <2>6. \A n : Warm(s, n, e) => Warm(t, n, e)
      BY <2>4, Zenon DEF Warm
    <2>7. 2 * CommandTicks - t.age = 2 * CommandTicks /\ CommandTicks - t.age = CommandTicks
      BY <2>2, FdNumbers
    <2>8. Phase(t, e)
      BY <2>2, <2>3, <2>5, <2>6, <2>7 DEF Phase, Seeks, Transfers
    <2>9. t.queue # <<>>
      BY <2>5 DEF Aimed
    <2>10. DriverOK(t, e)
      BY <2>2, <2>3, <2>8, <2>9 DEF DriverOK
    <2> QED
      BY <2>1, <2>2, <2>10 DEF t
  <1>2. CASE ~ok
    BY <1>2, SendRefused DEF Rests, Aimed
  <1> QED
    BY <1>1, <1>2

\* transfer(), with the drive selected and the motor at speed for a seek and a transfer.
LEMMA TransferLeads ==
    ASSUME NEW s, s \in FdStates, Rests(s), ~s.reset, Aimed(s), OnDrive(s), NEW e \in 0 .. 1, NEW ok \in BOOLEAN,
           Warm(s, 2 * CommandTicks, e)
    PROVE  LET t == transfer(s, ok) IN DriverOK(t, e) /\ Follows(s, t)
  <1>1. 2 * CommandTicks \in Nat /\ CommandTicks \in 0 .. 2 * CommandTicks
    BY FdNumbers
  <1>2. Warm(s, CommandTicks, e)
    BY <1>1, WarmFor
  <1>3. CASE s.seek
    BY <1>3, CommandLeads DEF transfer
  <1>4. CASE ~s.seek
    BY <1>2, <1>4, CommandLeads DEF transfer, Aimed
  <1> QED
    BY <1>3, <1>4

\* floppy_on_interrupt(), when the motor is at speed.
LEMMA OnLeads ==
    ASSUME NEW s, s \in FdStates, Rests(s), ~s.reset, Aimed(s), NEW e \in 0 .. 1, NEW ok \in BOOLEAN,
           Warm(s, 2 + 2 * CommandTicks, e)
    PROVE  LET t == floppy_on_interrupt(s, ok) IN DriverOK(t, e) /\ Follows(s, t)
  <1>1. 2 + 2 * CommandTicks \in Nat /\ 2 * CommandTicks \in 0 .. 2 + 2 * CommandTicks
    BY FdNumbers
  <1>2. CASE s.current_drive # s.drive
    <2> DEFINE q == [s EXCEPT !.selected = TRUE, !.drive = s.current_drive]
               t == AddTimer(q, 2, "transfer")
    <2>1. q \in FdStates
      BY DEF FdStates
    <2>2. Rests(q) /\ ~q.reset /\ q.timers = <<>>
      BY DEF FdStates, Rests
    <2>3. Aimed(q) /\ OnDrive(q)
      BY DEF FdStates, Aimed, OnDrive
    <2>4. Follows(s, q)
      BY QueueLength DEF FdStates, Follows
    <2>5. Warm(q, 2 + 2 * CommandTicks, e)
      BY DEF FdStates, Warm
    <2>6. floppy_on_interrupt(s, ok) = t
      BY <1>2 DEF floppy_on_interrupt
    <2> HIDE DEF q
    <2>7. /\ t \in FdStates /\ t = [q EXCEPT !.timers = t.timers]
          /\ Len(t.timers) = 1 /\ t.timers[1].jiffies = 2 /\ t.timers[1].fn = "transfer" /\ Follows(q, t)
      BY <2>1, <2>2, OneTimer DEF Works
    <2> HIDE DEF t
    <2>8. /\ t.reset = q.reset /\ t.selected = q.selected /\ t.queue = q.queue /\ t.seek = q.seek
          /\ t.seek_track = q.seek_track /\ t.current_track = q.current_track /\ t.busy = q.busy
      BY <2>1, <2>7 DEF FdStates
    <2>9. /\ t.current_drive = q.current_drive /\ t.drive = q.drive /\ t.do_floppy = q.do_floppy
          /\ t.mon = q.mon /\ t.moff = q.moff /\ t.motors = q.motors
      BY <2>1, <2>7 DEF FdStates
    <2>10. Aimed(t) /\ OnDrive(t) /\ Warm(t, 2 + 2 * CommandTicks, e)
      BY <2>3, <2>5, <2>8, <2>9, Zenon DEF Aimed, OnDrive, Warm
    <2>11. Times(t, "transfer")
      BY <2>2, <2>7, <2>8, <2>9 DEF Times, Rests
    <2>12. Selects(t, e)
      BY <2>7, <2>10, <2>11 DEF Selects
    <2>13. t.queue # <<>>
      BY <2>10 DEF Aimed
    <2>14. DriverOK(t, e)
      BY <2>2, <2>7, <2>8, <2>12, <2>13 DEF DriverOK, Phase
    <2>15. Follows(s, t)
      BY <2>1, <2>4, <2>7, FollowsOn
    <2> QED
      BY <2>6, <2>14, <2>15
  <1>3. CASE s.current_drive = s.drive
    <2> DEFINE q == [s EXCEPT !.selected = TRUE]
    <2>1. q \in FdStates
      BY DEF FdStates
    <2>2. Rests(q) /\ ~q.reset
      BY DEF FdStates, Rests
    <2>3. Aimed(q) /\ OnDrive(q)
      BY <1>3 DEF FdStates, Aimed, OnDrive
    <2>4. Follows(s, q)
      BY QueueLength DEF FdStates, Follows
    <2>5. Warm(q, 2 + 2 * CommandTicks, e)
      BY DEF FdStates, Warm
    <2>6. floppy_on_interrupt(s, ok) = transfer(q, ok)
      BY <1>3 DEF floppy_on_interrupt
    <2> HIDE DEF q
    <2>7. Warm(q, 2 * CommandTicks, e)
      BY <1>1, <2>1, <2>5, WarmFor
    <2>8. DriverOK(transfer(q, ok), e) /\ Follows(q, transfer(q, ok))
      BY <2>1, <2>2, <2>3, <2>7, TransferLeads
    <2>9. transfer(q, ok) \in FdStates
      BY <2>8 DEF DriverOK
    <2> QED
      BY <2>1, <2>4, <2>6, <2>8, <2>9, FollowsOn
  <1> QED
    BY <1>2, <1>3

LEMMA FirstIs == ASSUME NEW S, NEW l \in Seq(S), l # <<>> PROVE l[1] \in S /\ Head(l) = l[1]
  OBVIOUS

LEMMA FirstTimer ==
    ASSUME NEW l \in Seq([jiffies : Int, fn : Works]), l # <<>>
    PROVE  l[1] \in [jiffies : Int, fn : Works] /\ Head(l) = l[1] /\ l[1].jiffies \in Int
  <1>1. l[1] \in [jiffies : Int, fn : Works] /\ Head(l) = l[1]
    BY FirstIs
  <1> QED
    BY <1>1

LEMMA TimeLeft ==
    ASSUME NEW s, s \in FdStates, NEW f, Times(s, f)
    PROVE  s.timers[1].jiffies \in Nat \ {0}
  <1>1. s.timers \in Seq([jiffies : Int, fn : Works])
    BY DEF FdStates
  <1>2. Len(s.timers) = 1 /\ s.timers[1].jiffies >= 1
    BY DEF Times
  <1>3. s.timers # <<>>
    BY <1>2
  <1>4. s.timers[1].jiffies \in Int
    BY <1>1, <1>3, FirstTimer
  <1> QED
    BY <1>2, <1>4

(* ticks_to_floppy_on() *)

\* What ticks_to_floppy_on() makes of the state s is q.
TicksOn(s, nr, q) ==
    /\ q \in FdStates
    /\ q = [s EXCEPT !.moff = q.moff, !.motors = q.motors, !.drive = q.drive, !.mon = q.mon]
    /\ q.drive = (IF s.selected THEN s.drive ELSE nr)
    /\ q.motors = s.motors \cup {nr}
    /\ \A d \in Drives : d # nr => q.mon[d] = s.mon[d] /\ q.moff[d] = s.moff[d]
    /\ q.moff[nr] = Never
    /\ q.mon[nr] = (IF nr \notin s.motors THEN SpinTicks
                    ELSE IF q.drive # s.drive /\ s.mon[nr] < 2 THEN 2 ELSE s.mon[nr])

LEMMA TicksOnFields ==
    ASSUME NEW s, s \in FdStates, NEW nr \in Drives
    PROVE  TicksOn(s, nr, ticks_to_floppy_on(s, nr))
  <1> DEFINE dr == IF s.selected THEN s.drive ELSE nr
             v == IF nr \notin s.motors THEN SpinTicks
                  ELSE IF dr # s.drive /\ s.mon[nr] < 2 THEN 2 ELSE s.mon[nr]
             mo == [s.moff EXCEPT ![nr] = Never]
             m == [s.mon EXCEPT ![nr] = v]
             mt == s.motors \cup {nr}
             q == [s EXCEPT !.moff = mo, !.motors = mt, !.drive = dr, !.mon = m]
  <1>1. s.mon \in [Drives -> 0 .. SpinTicks] /\ s.moff \in [Drives -> -1 .. OffTicks] /\ s.motors \in SUBSET Drives
    BY DEF FdStates
  <1>2. dr \in Drives
    BY DEF FdStates
  <1>3. v \in 0 .. SpinTicks
    BY <1>1, FdNumbers
  <1>4. Never \in -1 .. OffTicks
    BY FdNumbers DEF Never
  <1>5. ticks_to_floppy_on(s, nr) = q
    BY DEF ticks_to_floppy_on, FdStates
  <1> HIDE DEF v, dr
  <1>6. m \in [Drives -> 0 .. SpinTicks] /\ m[nr] = v /\ \A d \in Drives : d # nr => m[d] = s.mon[d]
    BY <1>1, <1>3, Zenon
  <1>7. mo \in [Drives -> -1 .. OffTicks] /\ mo[nr] = Never /\ \A d \in Drives : d # nr => mo[d] = s.moff[d]
    BY <1>1, <1>4, Zenon
  <1>8. mt \in SUBSET Drives
    BY <1>1
  <1> HIDE DEF m, mo, mt
  <1>9. q \in FdStates
    BY <1>2, <1>6, <1>7, <1>8, Zenon DEF FdStates
  <1>10. q.moff = mo /\ q.motors = mt /\ q.drive = dr /\ q.mon = m
    BY DEF FdStates
  <1>11. q = [s EXCEPT !.moff = q.moff, !.motors = q.motors, !.drive = q.drive, !.mon = q.mon]
    BY <1>10, Zenon
  <1> HIDE DEF q
  <1>12. v = (IF nr \notin s.motors THEN SpinTicks
              ELSE IF dr # s.drive /\ s.mon[nr] < 2 THEN 2 ELSE s.mon[nr])
    BY DEF v
  <1>13. dr = (IF s.selected THEN s.drive ELSE nr)
    BY DEF dr
  <1>14. mt = s.motors \cup {nr}
    BY DEF mt
  <1> QED
    BY <1>5, <1>6, <1>7, <1>9, <1>10, <1>11, <1>12, <1>13, <1>14, Zenon DEF TicksOn

\* What stays when only motors, drive and times of the motors change.
LEMMA OnlyMotors ==
    ASSUME NEW s, NEW q, s \in FdStates, q \in FdStates,
           q = [s EXCEPT !.moff = q.moff, !.motors = q.motors, !.drive = q.drive, !.mon = q.mon]
    PROVE  /\ q.queue = s.queue /\ q.reset = s.reset /\ q.recalibrate = s.recalibrate /\ q.seek = s.seek
           /\ q.current_drive = s.current_drive /\ q.current_track = s.current_track /\ q.seek_track = s.seek_track
           /\ q.selected = s.selected /\ q.do_floppy = s.do_floppy /\ q.busy = s.busy /\ q.age = s.age
           /\ q.timers = s.timers /\ q.wake = s.wake
  BY DEF FdStates

LEMMA TicksOnFollows ==
    ASSUME NEW s, s \in FdStates, NEW nr \in Drives
    PROVE  LET q == ticks_to_floppy_on(s, nr) IN q \in FdStates /\ Follows(s, q)
  <1> DEFINE q == ticks_to_floppy_on(s, nr)
  <1>1. TicksOn(s, nr, q)
    BY TicksOnFields
  <1> HIDE DEF q
  <1>2. /\ q \in FdStates
        /\ q = [s EXCEPT !.moff = q.moff, !.motors = q.motors, !.drive = q.drive, !.mon = q.mon]
        /\ q.drive = (IF s.selected THEN s.drive ELSE nr)
        /\ q.motors = s.motors \cup {nr}
        /\ \A d \in Drives : d # nr => q.mon[d] = s.mon[d] /\ q.moff[d] = s.moff[d]
        /\ q.moff[nr] = Never
        /\ q.mon[nr] = (IF nr \notin s.motors THEN SpinTicks
                        ELSE IF q.drive # s.drive /\ s.mon[nr] < 2 THEN 2 ELSE s.mon[nr])
    BY <1>1, Zenon DEF TicksOn
  <1>3. q.queue = s.queue /\ q.selected = s.selected /\ q.wake = s.wake
    BY <1>2, OnlyMotors
  <1>4. \A d \in Drives : s.mon[d] \in Nat
    BY DEF FdStates
  <1>5. \A d \in Drives : d \in s.motors /\ s.mon[d] > 0 => d \in q.motors /\ q.mon[d] > 0
    BY <1>2, <1>4, FdNumbers
  <1>6. Len(q.queue) <= Len(s.queue)
    BY <1>3, QueueLength
  <1>7. Follows(s, q)
    BY <1>3, <1>5, <1>6, Zenon DEF Follows
  <1> QED
    BY <1>2, <1>7 DEF q

\* Whoever asks for a motor does not disturb the driver: it stays on the drive that is selected.
LEMMA TicksOnKeeps ==
    ASSUME NEW s, NEW e \in 0 .. 1, DriverOK(s, e), NEW nr \in Drives
    PROVE  DriverOK(ticks_to_floppy_on(s, nr), e)
  <1> DEFINE q == ticks_to_floppy_on(s, nr)
             c == s.current_drive
  <1>1. s \in FdStates
    BY DEF DriverOK
  <1>2. TicksOn(s, nr, q)
    BY <1>1, TicksOnFields
  <1> HIDE DEF q
  <1>3. /\ q \in FdStates
        /\ q = [s EXCEPT !.moff = q.moff, !.motors = q.motors, !.drive = q.drive, !.mon = q.mon]
        /\ q.drive = (IF s.selected THEN s.drive ELSE nr)
        /\ q.motors = s.motors \cup {nr}
        /\ \A d \in Drives : d # nr => q.mon[d] = s.mon[d] /\ q.moff[d] = s.moff[d]
        /\ q.moff[nr] = Never
        /\ q.mon[nr] = (IF nr \notin s.motors THEN SpinTicks
                        ELSE IF q.drive # s.drive /\ s.mon[nr] < 2 THEN 2 ELSE s.mon[nr])
    BY <1>2, Zenon DEF TicksOn
  <1>4. /\ q.queue = s.queue /\ q.reset = s.reset /\ q.recalibrate = s.recalibrate /\ q.seek = s.seek
        /\ q.current_drive = s.current_drive /\ q.current_track = s.current_track /\ q.seek_track = s.seek_track
        /\ q.selected = s.selected /\ q.do_floppy = s.do_floppy /\ q.busy = s.busy /\ q.age = s.age
        /\ q.timers = s.timers /\ q.wake = s.wake
    BY <1>1, <1>3, OnlyMotors, Zenon
  <1>5. c \in Drives /\ s.mon[c] \in Int /\ s.moff[c] \in Int /\ q.current_drive = c
    BY <1>1, <1>4, FdNumbers DEF FdStates
  <1>6. OnDrive(s) => OnDrive(q)
    BY <1>3, <1>4 DEF OnDrive
  <1>7. ASSUME NEW n, s.selected, Warm(s, n, e) PROVE Warm(q, n, e)
    <2>1. CASE c = nr
      <3>1. q.mon[c] = s.mon[c] /\ q.moff[c] = Never /\ c \in q.motors
        BY <1>3, <1>7, <2>1 DEF Warm
      <3> QED
        BY <1>5, <1>7, <3>1, Zenon DEF Warm
    <2>2. CASE c # nr
      <3>1. q.mon[c] = s.mon[c] /\ q.moff[c] = s.moff[c] /\ (c \in s.motors => c \in q.motors)
        BY <1>3, <1>5, <2>2
      <3> QED
        BY <1>5, <1>7, <3>1, Zenon DEF Warm
    <2> QED
      BY <2>1, <2>2
  <1>8. ASSUME NEW j \in Nat \ {0}, Warming(s, j, e) PROVE Warming(q, j, e)
    <2>0. /\ c \in s.motors /\ s.mon[c] >= j + e /\ (s.mon[c] <= j + e \/ s.mon[c] <= 2)
          /\ (s.moff[c] = Never \/ s.moff[c] >= 2 + 2 * CommandTicks)
      BY <1>8, Zenon DEF Warming
    <2>1. CASE c = nr
      <3>1. q.moff[c] = Never /\ c \in q.motors /\ (q.mon[c] = s.mon[c] \/ (s.mon[c] < 2 /\ q.mon[c] = 2))
        BY <1>3, <2>0, <2>1
      <3>2. q.mon[c] >= j + e /\ (q.mon[c] <= j + e \/ q.mon[c] <= 2)
        BY <1>5, <2>0, <3>1
      <3> QED
        BY <1>5, <3>1, <3>2, Zenon DEF Warming
    <2>2. CASE c # nr
      <3>1. q.mon[c] = s.mon[c] /\ q.moff[c] = s.moff[c] /\ (c \in s.motors => c \in q.motors)
        BY <1>3, <1>5, <2>2
      <3> QED
        BY <1>5, <2>0, <3>1, Zenon DEF Warming
    <2> QED
      BY <2>1, <2>2
  <1>9. Aimed(s) => Aimed(q)
    BY <1>4, Zenon DEF Aimed
  <1>10. /\ Rests(s) => Rests(q)
         /\ \A h : Awaits(s, h) => Awaits(q, h)
         /\ \A h : Times(s, h) => Times(q, h)
    BY <1>4, Zenon DEF Rests, Awaits, Times
  <1>11. Phase(s, e)
    BY DEF DriverOK
  <1>12. OnDrive(s) => s.selected
    BY DEF OnDrive
  <1>13. Seeks(s, e) => Seeks(q, e)
    BY <1>4, <1>6, <1>7, <1>9, <1>10, <1>12, Zenon DEF Seeks
  <1>14. Transfers(s, e) => Transfers(q, e)
    BY <1>4, <1>6, <1>7, <1>9, <1>10, <1>12, Zenon DEF Transfers
  <1>15. Selects(s, e) => Selects(q, e)
    <2> SUFFICES ASSUME Selects(s, e) PROVE Selects(q, e)
      OBVIOUS
    <2>1. /\ Times(s, "transfer") /\ Aimed(s) /\ OnDrive(s) /\ s.timers[1].jiffies <= 2
          /\ Warm(s, s.timers[1].jiffies + 2 * CommandTicks, e)
      BY Zenon DEF Selects
    <2>2. Warm(q, s.timers[1].jiffies + 2 * CommandTicks, e)
      BY <1>7, <1>12, <2>1
    <2>3. q.timers = s.timers
      BY <1>4
    <2>4. Warm(q, q.timers[1].jiffies + 2 * CommandTicks, e) /\ q.timers[1].jiffies <= 2
      BY <2>1, <2>2, <2>3
    <2>5. Times(q, "transfer") /\ Aimed(q) /\ OnDrive(q)
      BY <1>6, <1>9, <1>10, <2>1
    <2> QED
      BY <2>4, <2>5, Zenon DEF Selects
  <1>16. Starts(s, e) => Starts(q, e)
    <2> SUFFICES ASSUME Starts(s, e) PROVE Starts(q, e)
      OBVIOUS
    <2>1. Times(s, "on") /\ Aimed(s) /\ Warming(s, s.timers[1].jiffies, e)
      BY Zenon DEF Starts
    <2>2. s.timers[1].jiffies \in Nat \ {0}
      BY <1>1, <2>1, TimeLeft
    <2>3. Warming(q, s.timers[1].jiffies, e)
      BY <1>8, <2>1, <2>2
    <2>4. q.timers = s.timers
      BY <1>4
    <2>5. Warming(q, q.timers[1].jiffies, e)
      BY <2>3, <2>4
    <2>6. Times(q, "on") /\ Aimed(q)
      BY <1>9, <1>10, <2>1
    <2> QED
      BY <2>5, <2>6, Zenon DEF Starts
  <1>17. Phase(q, e)
    BY <1>4, <1>10, <1>11, <1>13, <1>14, <1>15, <1>16, Zenon DEF Phase
  <1>18. DriverOK(q, e)
    BY <1>3, <1>4, <1>17, Zenon DEF DriverOK
  <1> QED
    BY <1>18 DEF q

(* The request function. *)

\* do_fd_request() of a request sets out for it.
LEMMA StartLeads ==
    ASSUME NEW s, s \in FdStates, Rests(s), ~s.reset, s.queue # <<>>, NEW ok \in BOOLEAN
    PROVE  LET t == StartRequest(s, ok) IN DriverOK(t, 0) /\ Follows(s, t)
  <1> DEFINE r == Head(s.queue)
             u == ticks_to_floppy_on(s, r.drive)
             b == s.current_drive # r.drive \/ s.current_track # r.track
             t == [u EXCEPT !.seek = b, !.current_drive = r.drive, !.seek_track = r.track]
  <1>1. r \in Requests
    BY QueueLength
  <1>2. r.drive \in Drives /\ r.track \in Nat
    BY <1>1 DEF Requests
  <1>3. TicksOn(s, r.drive, u) /\ u \in FdStates /\ Follows(s, u)
    BY <1>2, TicksOnFields, TicksOnFollows
  <1>4. StartRequest(s, ok) = IF t.mon[r.drive] > 0 THEN AddTimer(t, t.mon[r.drive], "on") ELSE floppy_on_interrupt(t, ok)
    BY DEF StartRequest
  <1> HIDE DEF u
  <1>5. /\ u.queue = s.queue /\ u.reset = s.reset /\ u.current_track = s.current_track
        /\ u.do_floppy = s.do_floppy /\ u.busy = s.busy /\ u.timers = s.timers
    <2>1. u = [s EXCEPT !.moff = u.moff, !.motors = u.motors, !.drive = u.drive, !.mon = u.mon]
      BY <1>3, Zenon DEF TicksOn
    <2> QED
      BY <1>3, <2>1, OnlyMotors, Zenon
  <1>6. r.drive \in u.motors /\ u.moff[r.drive] = Never
    BY <1>3 DEF TicksOn
  <1>7. b \in BOOLEAN
    OBVIOUS
  <1>8. b = FALSE => s.current_track = r.track
    OBVIOUS
  <1> HIDE DEF b
  <1>9. t \in FdStates
    BY <1>2, <1>3, <1>7, Zenon DEF FdStates
  <1>10. t.seek = b /\ t.current_drive = r.drive /\ t.seek_track = r.track
    BY <1>3 DEF FdStates
  <1>11. /\ t.queue = u.queue /\ t.reset = u.reset /\ t.current_track = u.current_track
         /\ t.do_floppy = u.do_floppy /\ t.busy = u.busy /\ t.timers = u.timers
    BY <1>3 DEF FdStates
  <1>12. t.motors = u.motors /\ t.moff = u.moff /\ t.mon = u.mon /\ t.wake = u.wake /\ t.selected = u.selected
    BY <1>3 DEF FdStates
  <1> HIDE DEF t
  <1>13. Rests(t) /\ ~t.reset /\ t.queue = s.queue
    BY <1>5, <1>11 DEF Rests
  <1>14. Aimed(t)
    BY <1>5, <1>7, <1>8, <1>10, <1>11 DEF Aimed
  <1>15. Len(t.queue) <= Len(u.queue)
    BY <1>3, <1>11, QueueLength
  <1>16. Follows(u, t)
    BY <1>12, <1>15, Zenon DEF Follows
  <1>17. Follows(s, t)
    BY <1>3, <1>9, <1>16, FollowsOn
  <1>18. t.mon[r.drive] \in Nat /\ r.drive \in t.motors /\ t.moff[r.drive] = Never
    <2>1. t.mon \in [Drives -> 0 .. SpinTicks]
      BY <1>9 DEF FdStates
    <2>2. t.mon[r.drive] \in 0 .. SpinTicks
      BY <1>2, <2>1
    <2> QED
      BY <1>6, <1>12, <2>2, FdNumbers
  <1>19. CASE t.mon[r.drive] > 0
    <2> DEFINE j == t.mon[r.drive]
               q == AddTimer(t, j, "on")
    <2>1. j \in Nat \ {0}
      BY <1>18, <1>19
    <2> HIDE DEF j
    <2>2. /\ q \in FdStates /\ q = [t EXCEPT !.timers = q.timers]
          /\ Len(q.timers) = 1 /\ q.timers[1].jiffies = j /\ q.timers[1].fn = "on" /\ Follows(t, q)
      BY <1>9, <1>13, <2>1, OneTimer DEF Works, Rests
    <2>3. StartRequest(s, ok) = q
      BY <1>4, <1>19 DEF j
    <2> HIDE DEF q
    <2>4. /\ q.reset = t.reset /\ q.selected = t.selected /\ q.queue = t.queue /\ q.seek = t.seek
          /\ q.seek_track = t.seek_track /\ q.current_track = t.current_track /\ q.busy = t.busy
      BY <1>9, <2>2 DEF FdStates
    <2>5. /\ q.current_drive = t.current_drive /\ q.drive = t.drive /\ q.do_floppy = t.do_floppy
          /\ q.mon = t.mon /\ q.moff = t.moff /\ q.motors = t.motors
      BY <1>9, <2>2 DEF FdStates
    <2>6. Aimed(q)
      BY <1>14, <2>4, <2>5, Zenon DEF Aimed
    <2>7. Times(q, "on")
      BY <1>13, <2>1, <2>2, <2>4, <2>5 DEF Times, Rests
    <2>8. j >= j + 0 /\ j <= j + 0
      BY <2>1
    <2>9. Warming(q, j, 0)
      BY <1>10, <1>18, <2>5, <2>8 DEF Warming, j
    <2>10. Starts(q, 0)
      BY <2>2, <2>6, <2>7, <2>9, Zenon DEF Starts
    <2>11. q.queue # <<>> /\ ~q.reset
      BY <1>13, <2>4
    <2>12. DriverOK(q, 0)
      BY <2>2, <2>10, <2>11 DEF DriverOK, Phase
    <2>13. Follows(s, q)
      BY <1>9, <1>17, <2>2, FollowsOn
    <2> QED
      BY <2>3, <2>12, <2>13
  <1>20. CASE ~(t.mon[r.drive] > 0)
    <2>1. t.mon[r.drive] = 0
      BY <1>18, <1>20
    <2>2. Warm(t, 2 + 2 * CommandTicks, 0)
      BY <1>10, <1>18, <2>1 DEF Warm
    <2>3. DriverOK(floppy_on_interrupt(t, ok), 0) /\ Follows(t, floppy_on_interrupt(t, ok))
      BY <1>9, <1>13, <1>14, <2>2, OnLeads
    <2>4. floppy_on_interrupt(t, ok) \in FdStates
      BY <2>3 DEF DriverOK
    <2>5. Follows(s, floppy_on_interrupt(t, ok))
      BY <1>9, <1>17, <2>3, <2>4, FollowsOn
    <2> QED
      BY <1>4, <1>20, <2>3, <2>5
  <1> QED
    BY <1>19, <1>20

\* Whatever state the driver starts its next request, its reset or its recalibration in, it then waits for one
\* thing, or has nothing to do.
LEMMA RequestLeads ==
    ASSUME NEW s, s \in FdStates, Rests(s), s.selected => s.queue # <<>>, NEW ok \in BOOLEAN
    PROVE  LET t == do_fd_request(s, ok) IN DriverOK(t, 0) /\ Follows(s, t)
  <1> DEFINE q == [s EXCEPT !.seek = FALSE]
  <1>1. q \in FdStates
    BY Zenon DEF FdStates
  <1>2. /\ q.queue = s.queue /\ q.reset = s.reset /\ q.selected = s.selected /\ q.wake = s.wake
        /\ q.timers = s.timers /\ q.busy = s.busy /\ q.do_floppy = s.do_floppy
        /\ q.motors = s.motors /\ q.mon = s.mon
    BY DEF FdStates
  <1>3. Rests(q) /\ (q.selected => q.queue # <<>>)
    BY <1>2 DEF Rests
  <1>4. Len(q.queue) <= Len(s.queue)
    BY <1>2, QueueLength
  <1>5. Follows(s, q)
    BY <1>2, <1>4, Zenon DEF Follows
  <1>6. do_fd_request(s, ok) = CASE s.reset                                     -> reset_floppy(q)
                                 [] ~s.reset /\ s.recalibrate                   -> recalibrate_floppy(q, ok)
                                 [] ~s.reset /\ ~s.recalibrate /\ s.queue = <<>> -> q
                                 [] OTHER                                       -> StartRequest(s, ok)
    BY DEF do_fd_request
  <1> HIDE DEF q
  <1>7. CASE s.reset
    <2>1. do_fd_request(s, ok) = reset_floppy(q)
      BY <1>6, <1>7
    <2>2. DriverOK(reset_floppy(q), 0) /\ Follows(q, reset_floppy(q))
      BY <1>1, <1>3, ResetLeads DEF Rests
    <2>3. reset_floppy(q) \in FdStates
      BY <2>2 DEF DriverOK
    <2> QED
      BY <1>1, <1>5, <2>1, <2>2, <2>3, FollowsOn
  <1>8. CASE ~s.reset /\ s.recalibrate
    <2>1. do_fd_request(s, ok) = recalibrate_floppy(q, ok)
      BY <1>6, <1>8
    <2>2. DriverOK(recalibrate_floppy(q, ok), 0) /\ Follows(q, recalibrate_floppy(q, ok))
      BY <1>1, <1>2, <1>3, <1>8, RecalibrateLeads
    <2>3. recalibrate_floppy(q, ok) \in FdStates
      BY <2>2 DEF DriverOK
    <2> QED
      BY <1>1, <1>5, <2>1, <2>2, <2>3, FollowsOn
  <1>9. CASE ~s.reset /\ ~s.recalibrate /\ s.queue = <<>>
    <2>1. do_fd_request(s, ok) = q
      BY <1>6, <1>9
    <2>2. DriverOK(q, 0)
      BY <1>1, <1>2, <1>3, <1>9 DEF DriverOK, Phase
    <2> QED
      BY <1>5, <2>1, <2>2
  <1>10. CASE ~s.reset /\ ~s.recalibrate /\ s.queue # <<>>
    <2>1. do_fd_request(s, ok) = StartRequest(s, ok)
      BY <1>6, <1>10
    <2> QED
      BY <1>10, <2>1, StartLeads
  <1> QED
    BY <1>7, <1>8, <1>9, <1>10

\* end_request(floppy_deselect()): the first request is done with, and its drive free.
LEMMA EndLeads ==
    ASSUME NEW s, s \in FdStates, Rests(s), s.queue # <<>>
    PROVE  LET t == end_request(floppy_deselect(s)) IN
           t \in FdStates /\ Rests(t) /\ ~t.selected /\ Follows(s, t)
  <1> DEFINE w == s.wake \cup {"select"}
             dr == Head(s.queue).drive
             m == [s.moff EXCEPT ![dr] = OffTicks]
             t == [s EXCEPT !.selected = FALSE, !.wake = w, !.moff = m, !.queue = Tail(s.queue)]
  <1>1. Head(s.queue) \in Requests /\ Tail(s.queue) \in Seq(Requests) /\ Len(Tail(s.queue)) <= Len(s.queue)
    BY QueueLength
  <1>2. dr \in Drives
    BY <1>1 DEF Requests
  <1>3. s.moff \in [Drives -> -1 .. OffTicks] /\ OffTicks \in -1 .. OffTicks
    BY FdNumbers DEF FdStates
  <1>4. m \in [Drives -> -1 .. OffTicks]
    BY <1>2, <1>3, Zenon
  <1>5. w \in SUBSET {"motor", "select"}
    BY DEF FdStates
  <1>6. end_request(floppy_deselect(s)) = t
    BY DEF end_request, floppy_deselect, floppy_off, FdStates
  <1> HIDE DEF m, dr, w
  <1>7. t \in FdStates
    BY <1>1, <1>4, <1>5, Zenon DEF FdStates
  <1>8. t.selected = FALSE /\ t.wake = w /\ t.queue = Tail(s.queue) /\ t.motors = s.motors /\ t.mon = s.mon
    BY DEF FdStates
  <1>9. t.timers = s.timers /\ t.busy = s.busy /\ t.do_floppy = s.do_floppy
    BY DEF FdStates
  <1> HIDE DEF t
  <1>10. Follows(s, t)
    BY <1>1, <1>8 DEF Follows, w
  <1>11. Rests(t)
    BY <1>9 DEF Rests
  <1> QED
    BY <1>6, <1>7, <1>8, <1>10, <1>11

\* bad_flp_intr().
LEMMA BadLeads ==
    ASSUME NEW s, s \in FdStates, Rests(s), s.queue # <<>>
    PROVE  LET t == bad_flp_intr(s) IN
           t \in FdStates /\ Rests(t) /\ (t.selected => t.queue # <<>>) /\ Follows(s, t)
  <1> DEFINE p == [s.queue EXCEPT ![1] = [s.queue[1] EXCEPT !.errors = s.queue[1].errors + 1]]
             a == [s EXCEPT !.queue = p]
             b == end_request(floppy_deselect(a))
             c == IF p[1].errors > MAX_ERRORS THEN b ELSE a
  <1>1. s.queue \in Seq(Requests) /\ s.queue[1] \in Requests /\ Len(s.queue) \in Nat /\ Len(s.queue) # 0
    BY QueueLength
  <1>2. [s.queue[1] EXCEPT !.errors = s.queue[1].errors + 1] \in Requests
    BY <1>1 DEF Requests
  <1>3. p \in Seq(Requests) /\ Len(p) = Len(s.queue)
    BY <1>1, <1>2
  <1>4. p # <<>>
    BY <1>1, <1>3
  <1>5. a \in FdStates
    BY <1>3, Zenon DEF FdStates
  <1>6. a.queue = p /\ a.selected = s.selected /\ a.wake = s.wake /\ a.motors = s.motors /\ a.mon = s.mon
    BY DEF FdStates
  <1>7. a.timers = s.timers /\ a.busy = s.busy /\ a.do_floppy = s.do_floppy
    BY DEF FdStates
  <1>8. bad_flp_intr(s) = IF c.queue = <<>> \/ (c.queue # <<>> /\ c.queue[1].errors > MAX_ERRORS \div 2)
                            THEN [c EXCEPT !.reset = TRUE] ELSE [c EXCEPT !.recalibrate = TRUE]
    BY <1>6 DEF bad_flp_intr, FdStates
  <1> HIDE DEF p, a
  <1>9. Rests(a)
    BY <1>7 DEF Rests
  <1>10. Follows(s, a)
    BY <1>1, <1>3, <1>6 DEF Follows
  <1>11. b \in FdStates /\ Rests(b) /\ ~b.selected /\ Follows(a, b)
    BY <1>4, <1>5, <1>6, <1>9, EndLeads
  <1> HIDE DEF b
  <1>12. Follows(s, b)
    BY <1>5, <1>10, <1>11, FollowsOn
  <1>13. c \in FdStates /\ Rests(c) /\ (c.selected => c.queue # <<>>) /\ Follows(s, c)
    BY <1>4, <1>5, <1>6, <1>9, <1>10, <1>11, <1>12
  <1> HIDE DEF c
  <1>14. ASSUME NEW t, t \in {[c EXCEPT !.reset = TRUE], [c EXCEPT !.recalibrate = TRUE]}
         PROVE  t \in FdStates /\ Rests(t) /\ (t.selected => t.queue # <<>>) /\ Follows(s, t)
    <2>1. t \in FdStates
      <3>1. [c EXCEPT !.reset = TRUE] \in FdStates
        BY <1>13, Zenon DEF FdStates
      <3>2. [c EXCEPT !.recalibrate = TRUE] \in FdStates
        BY <1>13, Zenon DEF FdStates
      <3> QED
        BY <1>14, <3>1, <3>2
    <2>2. t.queue = c.queue /\ t.selected = c.selected /\ t.wake = c.wake /\ t.motors = c.motors /\ t.mon = c.mon
      BY <1>13, <1>14 DEF FdStates
    <2>3. t.timers = c.timers /\ t.busy = c.busy /\ t.do_floppy = c.do_floppy
      BY <1>13, <1>14 DEF FdStates
    <2>4. Rests(t) /\ (t.selected => t.queue # <<>>)
      BY <1>13, <2>2, <2>3 DEF Rests
    <2>5. Follows(s, t)
      BY <1>13, <2>2, Zenon DEF Follows
    <2> QED
      BY <2>1, <2>4, <2>5
  <1> QED
    BY <1>8, <1>14

(* Interrupts. *)

\* Whatever the handler is told, the driver then waits for one thing.
LEMMA HandlerLeads ==
    ASSUME NEW s, s \in FdStates, Rests(s), ~s.reset, s.selected => s.queue # <<>>, NEW ok \in BOOLEAN,
           NEW h \in Handlers, NEW result \in Results, result = "protected" => h = "rw",
           h \in {"seek", "rw"} => Aimed(s) /\ OnDrive(s),
           h = "seek" => Warm(s, CommandTicks, 0)
    PROVE  LET t == Handler(s, h, result, ok) IN DriverOK(t, 0) /\ Follows(s, t)
  <1> DEFINE w == IF result = "none" THEN [s EXCEPT !.reset = TRUE] ELSE s
             q == [s EXCEPT !.current_track = s.seek_track]
             t == Handler(s, h, result, ok)
  <1>1. [s EXCEPT !.reset = TRUE] \in FdStates
    BY Zenon DEF FdStates
  <1>2. ASSUME NEW v, v = [s EXCEPT !.reset = TRUE]
        PROVE  /\ v.queue = s.queue /\ v.selected = s.selected /\ v.wake = s.wake /\ v.motors = s.motors /\ v.mon = s.mon
               /\ v.timers = s.timers /\ v.busy = s.busy /\ v.do_floppy = s.do_floppy
    BY <1>2 DEF FdStates
  <1>3. LET v == [s EXCEPT !.reset = TRUE] IN Rests(v) /\ v.queue = s.queue /\ v.selected = s.selected /\ Follows(s, v)
    BY <1>2, QueueLength DEF Rests, Follows
  <1>4. LET v == s IN Rests(v) /\ v.queue = s.queue /\ v.selected = s.selected /\ Follows(s, v)
    BY QueueLength DEF Follows
  <1>5. w \in FdStates /\ Rests(w) /\ w.queue = s.queue /\ w.selected = s.selected /\ Follows(s, w)
    BY <1>1, <1>3, <1>4
  <1>6. h \in {"seek", "rw"} => s.queue # <<>>
    BY DEF Aimed
  <1>7. ASSUME NEW v, v \in FdStates, Rests(v), v.selected => v.queue # <<>>, Follows(s, v), t = do_fd_request(v, ok)
        PROVE  DriverOK(t, 0) /\ Follows(s, t)
    <2>1. DriverOK(do_fd_request(v, ok), 0) /\ Follows(v, do_fd_request(v, ok))
      BY <1>7, RequestLeads
    <2>2. do_fd_request(v, ok) \in FdStates
      BY <2>1 DEF DriverOK
    <2> QED
      BY <1>7, <2>1, <2>2, FollowsOn
  <1>8. CASE h = "rw" /\ result \in {"good", "protected"}
    <2> DEFINE v == end_request(floppy_deselect(s))
    <2>1. t = do_fd_request(v, ok)
      BY <1>8 DEF Handler
    <2> HIDE DEF t
    <2>2. v \in FdStates /\ Rests(v) /\ ~v.selected /\ Follows(s, v)
      BY <1>6, <1>8, EndLeads
    <2> HIDE DEF v
    <2>3. DriverOK(t, 0) /\ Follows(s, t)
      BY <1>7, <2>1, <2>2
    <2> QED
      BY <2>3 DEF t
  <1>9. CASE h = "seek" /\ result = "good"
    <2>1. t = Send(q, "rw", ok)
      BY <1>9 DEF Handler
    <2>2. q \in FdStates
      <3>1. s.seek_track \in Nat
        BY DEF FdStates
      <3> QED
        BY <3>1, Zenon DEF FdStates
    <2>3. /\ q.queue = s.queue /\ q.reset = s.reset /\ q.selected = s.selected /\ q.seek = s.seek
          /\ q.seek_track = s.seek_track /\ q.current_track = s.seek_track /\ q.busy = s.busy /\ q.wake = s.wake
      BY DEF FdStates
    <2>4. /\ q.current_drive = s.current_drive /\ q.drive = s.drive /\ q.do_floppy = s.do_floppy
          /\ q.mon = s.mon /\ q.moff = s.moff /\ q.motors = s.motors /\ q.timers = s.timers
      BY DEF FdStates
    <2> HIDE DEF t, q
    <2>5. Rests(q) /\ ~q.reset
      BY <2>3, <2>4 DEF Rests
    <2>6. Aimed(q) /\ OnDrive(q) /\ q.current_track = Head(q.queue).track
      BY <1>9, <2>3, <2>4 DEF Aimed, OnDrive
    <2>7. Warm(q, CommandTicks, 0)
      BY <1>9, <2>4, Zenon DEF Warm
    <2>8. Len(q.queue) <= Len(s.queue)
      BY <2>3, QueueLength
    <2>9. Follows(s, q)
      BY <2>3, <2>4, <2>8, Zenon DEF Follows
    <2>10. DriverOK(t, 0) /\ Follows(q, t)
      BY <2>1, <2>2, <2>5, <2>6, <2>7, CommandLeads
    <2>11. t \in FdStates
      BY <2>10 DEF DriverOK
    <2>12. Follows(s, t)
      BY <2>2, <2>9, <2>10, <2>11, FollowsOn
    <2> QED
      BY <2>10, <2>12 DEF t
  <1>10. CASE h \in {"rw", "seek"} /\ result \in {"bad", "none"}
    <2> DEFINE v == bad_flp_intr(w)
    <2>1. t = do_fd_request(v, ok)
      BY <1>10 DEF Handler
    <2> HIDE DEF t, w
    <2>2. v \in FdStates /\ Rests(v) /\ (v.selected => v.queue # <<>>) /\ Follows(w, v)
      BY <1>5, <1>6, <1>10, BadLeads
    <2> HIDE DEF v
    <2>3. Follows(s, v)
      BY <1>5, <2>2, FollowsOn
    <2>4. DriverOK(t, 0) /\ Follows(s, t)
      BY <1>7, <2>1, <2>2, <2>3
    <2> QED
      BY <2>4 DEF t
  <1>11. CASE h = "recal"
    <2> DEFINE v == IF result = "good" THEN [w EXCEPT !.recalibrate = FALSE] ELSE [w EXCEPT !.reset = TRUE]
    <2>1. t = do_fd_request(v, ok)
      BY <1>11 DEF Handler
    <2> HIDE DEF t, w
    <2>2. v \in FdStates
      <3>1. [w EXCEPT !.recalibrate = FALSE] \in FdStates
        BY <1>5, Zenon DEF FdStates
      <3>2. [w EXCEPT !.reset = TRUE] \in FdStates
        BY <1>5, Zenon DEF FdStates
      <3> QED
        BY <3>1, <3>2
    <2>3. v.queue = w.queue /\ v.selected = w.selected /\ v.wake = w.wake /\ v.motors = w.motors /\ v.mon = w.mon
      BY <1>5 DEF FdStates
    <2>4. v.timers = w.timers /\ v.busy = w.busy /\ v.do_floppy = w.do_floppy
      BY <1>5 DEF FdStates
    <2> HIDE DEF v
    <2>5. Rests(v) /\ (v.selected => v.queue # <<>>)
      BY <1>5, <2>3, <2>4 DEF Rests
    <2>6. Follows(s, v)
      BY <1>5, <2>3, Zenon DEF Follows
    <2>7. DriverOK(t, 0) /\ Follows(s, t)
      BY <1>7, <2>1, <2>2, <2>5, <2>6
    <2> QED
      BY <2>7 DEF t
  <1>12. CASE h = "reset"
    <2>1. t = do_fd_request(w, ok)
      BY <1>12 DEF Handler
    <2> HIDE DEF t, w
    <2>2. DriverOK(t, 0) /\ Follows(s, t)
      BY <1>5, <1>7, <2>1
    <2> QED
      BY <2>2 DEF t
  <1> QED
    BY <1>8, <1>9, <1>10, <1>11, <1>12 DEF Handlers, Results

(* The steps. *)

\* Who sleeps in floppy_change() is being woken, or will be.
Sleeps(s) ==
    /\ change.at = "motor" => "motor" \in s.wake \/ (change.drive \in s.motors /\ s.mon[change.drive] > 0)
    /\ change.at = "select" => "select" \in s.wake \/ s.selected

LEMMA SleepsOn ==
    ASSUME ChangeOK, NEW s, NEW t, Follows(s, t), Sleeps(s)
    PROVE  Sleeps(t)
  <1>1. change.drive \in Drives
    BY DEF ChangeOK
  <1> QED
    BY <1>1, Zenon DEF Sleeps, Follows

LEMMA FdSleeps == FdRight => Sleeps(fd) /\ fd \in FdStates
  BY Zenon DEF FdRight, ChangeOK, DriverOK, Sleeps

\* A step that leads to a good state keeps the invariant.
LEMMA BecomeKeeps ==
    ASSUME ChangeOK, NEW s, DriverOK(s, 0), Sleeps(s), Len(s.queue) <= MaxRequests, Become(s)
    PROVE  FdRight'
  <1> DEFINE q == [s EXCEPT !.wake = {}]
  <1>1. s \in FdStates
    BY DEF DriverOK
  <1>2. q \in FdStates /\ fd' = q
    <2>1. {} \in SUBSET {"motor", "select"}
      OBVIOUS
    <2> QED
      BY <1>1, <2>1, Zenon DEF FdStates, Become
  <1>3. /\ q.queue = s.queue /\ q.reset = s.reset /\ q.recalibrate = s.recalibrate /\ q.seek = s.seek
        /\ q.current_drive = s.current_drive /\ q.current_track = s.current_track /\ q.seek_track = s.seek_track
        /\ q.selected = s.selected /\ q.do_floppy = s.do_floppy /\ q.busy = s.busy /\ q.age = s.age
    BY <1>1 DEF FdStates
  <1>4. /\ q.timers = s.timers /\ q.wake = {} /\ q.motors = s.motors /\ q.mon = s.mon /\ q.moff = s.moff
        /\ q.drive = s.drive
    BY <1>1 DEF FdStates
  <1> HIDE DEF q
  <1>5. Phase(q, 0)
    <2>1. Aimed(s) => Aimed(q)
      BY <1>3, Zenon DEF Aimed
    <2>2. OnDrive(s) => OnDrive(q)
      BY <1>3, <1>4, Zenon DEF OnDrive
    <2>3. \A n : (Warm(s, n, 0) => Warm(q, n, 0)) /\ (Warming(s, n, 0) => Warming(q, n, 0))
      BY <1>3, <1>4, Zenon DEF Warm, Warming
    <2>4. /\ Rests(s) => Rests(q)
          /\ \A h : Awaits(s, h) => Awaits(q, h)
          /\ \A h : Times(s, h) => Times(q, h)
      BY <1>3, <1>4, Zenon DEF Rests, Awaits, Times
    <2>5. Phase(s, 0)
      BY DEF DriverOK
    <2>6. (Seeks(s, 0) => Seeks(q, 0)) /\ (Transfers(s, 0) => Transfers(q, 0))
      BY <1>3, <1>4, <2>1, <2>2, <2>3, <2>4, Zenon DEF Seeks, Transfers
    <2>7. (Selects(s, 0) => Selects(q, 0)) /\ (Starts(s, 0) => Starts(q, 0))
      BY <1>3, <1>4, <2>1, <2>2, <2>3, <2>4, Zenon DEF Selects, Starts
    <2> QED
      BY <1>3, <2>4, <2>5, <2>6, <2>7, Zenon DEF Phase
  <1>6. DriverOK(q, 0)
    BY <1>2, <1>3, <1>5, Zenon DEF DriverOK
  <1>7. change' = IF change.at \in s.wake
                    THEN [change EXCEPT !.at = IF change.at = "motor" THEN "on" ELSE "check"] ELSE change
    BY DEF Become, ChangeOK
  <1>8. ChangeOK'
    <2>1. CASE change.at \in s.wake
      BY <1>7, <2>1 DEF ChangeOK
    <2>2. CASE change.at \notin s.wake
      <3>1. change' = change
        BY <1>7, <2>2
      <3>2. change.at = "motor" => fd'.mon[change.drive] > 0 /\ change.drive \in fd'.motors
        BY <1>2, <1>4, <2>2, Zenon DEF Sleeps
      <3>3. change.at = "select" => fd'.selected
        BY <1>2, <1>3, <2>2, Zenon DEF Sleeps
      <3> QED
        BY <3>1, <3>2, <3>3, Zenon DEF ChangeOK
    <2> QED
      BY <2>1, <2>2
  <1>9. DriverOK(fd', 0) /\ fd'.wake = {} /\ Len(fd'.queue) <= MaxRequests
    BY <1>2, <1>3, <1>4, <1>6
  <1> QED
    BY <1>8, <1>9 DEF FdRight

\* do_floppy_timer() brings the motors that it was one tick ahead of to where the driver expects them.
LEMMA MotorsTickKeeps ==
    ASSUME ChangeOK, NEW s, DriverOK(s, 1), Sleeps(s)
    PROVE  LET q == MotorsTick(s) IN DriverOK(q, 0) /\ Sleeps(q) /\ q.queue = s.queue
  <1> DEFINE off == {d \in s.motors : s.mon[d] = 0 /\ s.moff[d] = 0}
             mt == s.motors \ off
             w == IF change.drive \in s.motors /\ s.mon[change.drive] = 1 THEN s.wake \cup {"motor"} ELSE s.wake
             m == [d \in Drives |-> IF d \in s.motors /\ s.mon[d] > 0 THEN s.mon[d] - 1 ELSE s.mon[d]]
             mo == [d \in Drives |-> IF d \in s.motors /\ s.mon[d] = 0 /\ s.moff[d] > 0 THEN s.moff[d] - 1 ELSE s.moff[d]]
             q == [s EXCEPT !.motors = mt, !.wake = w, !.mon = m, !.moff = mo]
             c == s.current_drive
  <1>1. s \in FdStates /\ c \in Drives /\ change.drive \in Drives
    BY DEF DriverOK, FdStates, ChangeOK
  <1>2. \A d \in Drives : s.mon[d] \in 0 .. SpinTicks /\ s.moff[d] \in -1 .. OffTicks
    <2>1. s.mon \in [Drives -> 0 .. SpinTicks] /\ s.moff \in [Drives -> -1 .. OffTicks]
      BY <1>1 DEF FdStates
    <2> QED
      BY <2>1
  <1>3. \A d \in Drives : m[d] = IF d \in s.motors /\ s.mon[d] > 0 THEN s.mon[d] - 1 ELSE s.mon[d]
    OBVIOUS
  <1>4. \A d \in Drives : mo[d] = IF d \in s.motors /\ s.mon[d] = 0 /\ s.moff[d] > 0 THEN s.moff[d] - 1 ELSE s.moff[d]
    OBVIOUS
  <1>5. \A d \in Drives : m[d] \in 0 .. SpinTicks
    BY <1>2, <1>3, FdNumbers
  <1>6. \A d \in Drives : mo[d] \in -1 .. OffTicks
    BY <1>2, <1>4, FdNumbers
  <1>7. mt \in SUBSET Drives /\ w \in SUBSET {"motor", "select"}
    BY <1>1 DEF FdStates
  <1>8. \A d \in Drives : d \in mt <=> d \in s.motors /\ ~(s.mon[d] = 0 /\ s.moff[d] = 0)
    OBVIOUS
  <1>9. MotorsTick(s) = q
    BY DEF MotorsTick
  <1>10. m = [d \in Drives |-> m[d]] /\ mo = [d \in Drives |-> mo[d]]
    OBVIOUS
  <1> HIDE DEF m, mo, mt
  <1>11. m \in [Drives -> 0 .. SpinTicks] /\ mo \in [Drives -> -1 .. OffTicks]
    BY <1>5, <1>6, <1>10
  <1>12. s.wake \subseteq w /\ (change.drive \in s.motors /\ s.mon[change.drive] = 1 => "motor" \in w)
    OBVIOUS
  <1> HIDE DEF w
  <1>13. q \in FdStates
    BY <1>1, <1>7, <1>11, Zenon DEF FdStates
  <1>14. /\ q.queue = s.queue /\ q.reset = s.reset /\ q.recalibrate = s.recalibrate /\ q.seek = s.seek
         /\ q.current_drive = s.current_drive /\ q.current_track = s.current_track /\ q.seek_track = s.seek_track
         /\ q.selected = s.selected /\ q.do_floppy = s.do_floppy /\ q.busy = s.busy /\ q.age = s.age
    BY <1>1 DEF FdStates
  <1>15. /\ q.timers = s.timers /\ q.wake = w /\ q.motors = mt /\ q.mon = m /\ q.moff = mo
         /\ q.drive = s.drive
    BY <1>1 DEF FdStates
  <1> HIDE DEF q
  <1>16. ASSUME NEW n \in Nat, Warm(s, n, 1) PROVE Warm(q, n, 0)
    <2>1. /\ c \in s.motors /\ s.mon[c] < 2 + 1
          /\ (s.moff[c] = Never \/ (s.moff[c] >= n /\ (s.mon[c] = 0 => s.moff[c] >= n + 1)))
      BY <1>16, Zenon DEF Warm
    <2>2. c \in mt
      BY <1>1, <1>2, <1>8, <2>1 DEF Never
    <2>3. m[c] < 2 + 0
      BY <1>1, <1>2, <1>3, <2>1, FdNumbers
    <2>4. mo[c] = Never \/ (mo[c] >= n /\ (m[c] = 0 => mo[c] >= n + 0))
      BY <1>1, <1>2, <1>3, <1>4, <2>1, FdNumbers DEF Never
    <2> QED
      BY <1>14, <1>15, <2>2, <2>3, <2>4, Zenon DEF Warm
  <1>17. ASSUME NEW j \in Nat \ {0}, Warming(s, j, 1) PROVE Warming(q, j, 0)
    <2>1. /\ c \in s.motors /\ s.mon[c] >= j + 1 /\ (s.mon[c] <= j + 1 \/ s.mon[c] <= 2)
          /\ (s.moff[c] = Never \/ s.moff[c] >= 2 + 2 * CommandTicks)
      BY <1>17, Zenon DEF Warming
    <2>2. s.mon[c] \in Nat
      BY <1>1, <1>2, FdNumbers
    <2>3. c \in mt
      BY <1>1, <1>8, <2>1, <2>2
    <2>4. m[c] = s.mon[c] - 1 /\ mo[c] = s.moff[c]
      BY <1>1, <1>3, <1>4, <2>1, <2>2
    <2>5. m[c] >= j + 0 /\ (m[c] <= j + 0 \/ m[c] <= 2)
      BY <2>1, <2>2, <2>4
    <2> QED
      BY <1>14, <1>15, <2>1, <2>3, <2>4, <2>5, Zenon DEF Warming
  <1>18. Phase(q, 0)
    <2>1. Aimed(s) => Aimed(q)
      BY <1>14, Zenon DEF Aimed
    <2>2. OnDrive(s) => OnDrive(q)
      BY <1>14, <1>15, Zenon DEF OnDrive
    <2>3. /\ Rests(s) => Rests(q)
          /\ \A h : Awaits(s, h) => Awaits(q, h)
          /\ \A h : Times(s, h) => Times(q, h)
      BY <1>14, <1>15, Zenon DEF Rests, Awaits, Times
    <2>4. Phase(s, 1)
      BY DEF DriverOK
    <2>5. s.age \in 0 .. CommandTicks
      BY <1>1 DEF FdStates
    <2>6. 2 * CommandTicks - s.age \in Nat /\ CommandTicks - s.age \in Nat
      BY <2>5, FdNumbers
    <2>7. (Seeks(s, 1) => Seeks(q, 0)) /\ (Transfers(s, 1) => Transfers(q, 0))
      BY <1>14, <1>16, <2>1, <2>2, <2>3, <2>6, Zenon DEF Seeks, Transfers
    <2>8. ASSUME NEW h, Times(s, h) PROVE s.timers[1].jiffies \in Nat \ {0} /\ s.timers[1].jiffies + 2 * CommandTicks \in Nat
      <3>1. s.timers[1].jiffies \in Nat \ {0}
        BY <1>1, <2>8, TimeLeft
      <3> QED
        BY <3>1, FdNumbers
    <2>9. (Selects(s, 1) => Selects(q, 0)) /\ (Starts(s, 1) => Starts(q, 0))
      BY <1>15, <1>16, <1>17, <2>1, <2>2, <2>3, <2>8, Zenon DEF Selects, Starts
    <2> QED
      BY <1>14, <2>3, <2>4, <2>7, <2>9, Zenon DEF Phase
  <1>19. DriverOK(q, 0)
    BY <1>13, <1>14, <1>18, Zenon DEF DriverOK
  <1>20. change.at = "motor" => "motor" \in q.wake \/ (change.drive \in q.motors /\ q.mon[change.drive] > 0)
    <2>1. ASSUME change.drive \in s.motors, s.mon[change.drive] > 0, s.mon[change.drive] # 1
          PROVE  change.drive \in mt /\ m[change.drive] > 0
      BY <1>1, <1>2, <1>3, <1>8, <2>1, FdNumbers
    <2> QED
      BY <1>12, <1>15, <2>1 DEF Sleeps
  <1>21. change.at = "select" => "select" \in q.wake \/ q.selected
    BY <1>12, <1>14, <1>15 DEF Sleeps
  <1>22. DriverOK(q, 0) /\ Sleeps(q) /\ q.queue = s.queue
    BY <1>14, <1>19, <1>20, <1>21, Zenon DEF Sleeps
  <1> QED
    BY <1>9, <1>22

\* A tick without a timer that is due.
LEMMA FdTickKeeps == FdRight /\ FdTick => FdRight'
  <1> SUFFICES ASSUME FdRight, FdTick PROVE FdRight'
    OBVIOUS
  <1> DEFINE l == IF fd.timers = <<>> THEN fd.timers ELSE [fd.timers EXCEPT ![1].jiffies = fd.timers[1].jiffies - 1]
             a == IF fd.busy = <<>> THEN 0 ELSE fd.age + 1
             s == [fd EXCEPT !.timers = l, !.age = a]
             c == fd.current_drive
  <1>1. fd \in FdStates /\ Sleeps(fd) /\ ChangeOK /\ DriverOK(fd, 0) /\ Len(fd.queue) <= MaxRequests
    BY FdSleeps DEF FdRight
  <1>2. ~Due /\ (fd.busy = <<>> \/ fd.age < CommandTicks) /\ Become(MotorsTick(s))
    <2>1. PICK u \in {[fd EXCEPT !.timers = IF @ = <<>> THEN @ ELSE [fd.timers EXCEPT ![1].jiffies = @ - 1],
                                 !.age = IF fd.busy = <<>> THEN 0 ELSE @ + 1]} : Become(MotorsTick(u))
      BY Zenon DEF FdTick
    <2>2. u = [fd EXCEPT !.timers = IF fd.timers = <<>> THEN fd.timers ELSE [fd.timers EXCEPT ![1].jiffies = @ - 1],
                         !.age = IF fd.busy = <<>> THEN 0 ELSE fd.age + 1]
      BY <2>1, Zenon
    <2>3. [fd.timers EXCEPT ![1].jiffies = @ - 1] = [fd.timers EXCEPT ![1].jiffies = fd.timers[1].jiffies - 1]
      OBVIOUS
    <2>4. u = s
      BY <2>2, <2>3, Zenon
    <2>5. Become(MotorsTick(s))
      BY <2>1, <2>4, Zenon
    <2> QED
      BY <2>5, Zenon DEF FdTick
  <1>3. fd.age \in 0 .. CommandTicks /\ fd.timers \in Seq([jiffies : Int, fn : Works])
    BY <1>1 DEF FdStates
  <1>4. a \in 0 .. CommandTicks /\ (fd.busy # <<>> => a = fd.age + 1)
    BY <1>2, <1>3, FdNumbers
  <1>5. l \in Seq([jiffies : Int, fn : Works])
    <2>1. CASE fd.timers # <<>>
      <3>1. fd.timers[1] \in [jiffies : Int, fn : Works]
        BY <1>3, <2>1, FirstTimer
      <3>2. [fd.timers[1] EXCEPT !.jiffies = fd.timers[1].jiffies - 1] \in [jiffies : Int, fn : Works]
        BY <3>1
      <3> QED
        BY <1>3, <2>1, <3>2
    <2> QED
      BY <1>3, <2>1
  <1>6. /\ fd.timers = <<>> => l = <<>>
        /\ Len(fd.timers) = 1 => Len(l) = 1 /\ l[1].fn = fd.timers[1].fn /\ l[1].jiffies = fd.timers[1].jiffies - 1
    <2>1. CASE Len(fd.timers) = 1
      <3>0. fd.timers # <<>>
        BY <2>1
      <3>1. fd.timers[1] \in [jiffies : Int, fn : Works] /\ fd.timers # <<>>
        BY <1>3, <3>0, FirstTimer
      <3>2. l = [fd.timers EXCEPT ![1] = [fd.timers[1] EXCEPT !.jiffies = fd.timers[1].jiffies - 1]]
        BY <3>1
      <3>3. Len(l) = 1 /\ l[1] = [fd.timers[1] EXCEPT !.jiffies = fd.timers[1].jiffies - 1]
        BY <1>3, <2>1, <3>2
      <3> QED
        BY <2>1, <3>1, <3>3
    <2> QED
      BY <2>1
  <1>7. Len(fd.timers) = 1 => fd.timers[1].jiffies \in Int /\ fd.timers[1].jiffies > 1
    <2>1. ASSUME Len(fd.timers) = 1
          PROVE  fd.timers[1].jiffies \in Int /\ Head(fd.timers) = fd.timers[1] /\ fd.timers # <<>>
      <3>1. fd.timers # <<>>
        BY <2>1
      <3> QED
        BY <1>3, <3>1, FirstTimer
    <2> QED
      BY <1>2, <2>1 DEF Due
  <1> HIDE DEF l, a
  <1>8. s \in FdStates
    BY <1>1, <1>4, <1>5, Zenon DEF FdStates
  <1>9. /\ s.queue = fd.queue /\ s.reset = fd.reset /\ s.recalibrate = fd.recalibrate /\ s.seek = fd.seek
        /\ s.current_drive = fd.current_drive /\ s.current_track = fd.current_track /\ s.seek_track = fd.seek_track
        /\ s.selected = fd.selected /\ s.do_floppy = fd.do_floppy /\ s.busy = fd.busy /\ s.age = a
    BY <1>1 DEF FdStates
  <1>10. /\ s.timers = l /\ s.wake = fd.wake /\ s.motors = fd.motors /\ s.mon = fd.mon /\ s.moff = fd.moff
         /\ s.drive = fd.drive
    BY <1>1 DEF FdStates
  <1> HIDE DEF s
  <1>11. fd.mon[c] \in Nat /\ fd.moff[c] \in Int
    BY <1>1, FdNumbers DEF FdStates
  <1>12. ASSUME NEW n \in Int, NEW k \in Int, n = k + 1, Warm(fd, n, 0) PROVE Warm(s, k, 1)
    <2>1. /\ c \in fd.motors /\ fd.mon[c] < 2 + 0
          /\ (fd.moff[c] = Never \/ fd.moff[c] >= n)
      BY <1>12, Zenon DEF Warm
    <2>2. fd.mon[c] < 2 + 1 /\ (fd.moff[c] = Never \/ (fd.moff[c] >= k /\ (fd.mon[c] = 0 => fd.moff[c] >= k + 1)))
      BY <1>11, <1>12, <2>1
    <2> QED
      BY <1>9, <1>10, <2>1, <2>2, Zenon DEF Warm
  <1>13. ASSUME NEW j \in Nat, j > 1, Warming(fd, j, 0) PROVE Warming(s, j - 1, 1)
    <2>1. /\ c \in fd.motors /\ fd.mon[c] >= j + 0 /\ (fd.mon[c] <= j + 0 \/ fd.mon[c] <= 2)
          /\ (fd.moff[c] = Never \/ fd.moff[c] >= 2 + 2 * CommandTicks)
      BY <1>13, Zenon DEF Warming
    <2>2. fd.mon[c] >= (j - 1) + 1 /\ (fd.mon[c] <= (j - 1) + 1 \/ fd.mon[c] <= 2)
      BY <1>11, <1>13, <2>1
    <2> QED
      BY <1>9, <1>10, <2>1, <2>2, Zenon DEF Warming
  <1>14. Phase(s, 1)
    <2>1. Aimed(fd) => Aimed(s)
      BY <1>9, Zenon DEF Aimed
    <2>2. OnDrive(fd) => OnDrive(s)
      BY <1>9, <1>10, Zenon DEF OnDrive
    <2>3. /\ Rests(fd) => Rests(s)
          /\ \A h : Awaits(fd, h) => Awaits(s, h)
      BY <1>6, <1>9, <1>10, Zenon DEF Rests, Awaits
    <2>4. \A h : Awaits(fd, h) => fd.busy # <<>>
      BY DEF Awaits
    <2>5. fd.busy # <<>> => 2 * CommandTicks - fd.age = (2 * CommandTicks - s.age) + 1 /\ CommandTicks - fd.age = (CommandTicks - s.age) + 1
      <3>1. fd.age \in Int /\ (fd.busy # <<>> => s.age = fd.age + 1)
        BY <1>3, <1>4, <1>9, FdNumbers
      <3> QED
        BY <3>1, FdNumbers
    <2>6. 2 * CommandTicks - fd.age \in Int /\ 2 * CommandTicks - s.age \in Int /\ CommandTicks - fd.age \in Int /\ CommandTicks - s.age \in Int
      BY <1>3, <1>4, <1>9, FdNumbers
    <2>7. Seeks(fd, 0) => Seeks(s, 1)
      BY <1>12, <2>1, <2>2, <2>3, <2>4, <2>5, <2>6 DEF Seeks
    <2>8. Transfers(fd, 0) => Transfers(s, 1)
      BY <1>9, <1>12, <2>1, <2>2, <2>3, <2>4, <2>5, <2>6 DEF Transfers
    <2>9. ASSUME NEW h, Times(fd, h)
          PROVE  /\ fd.timers[1].jiffies \in Nat /\ fd.timers[1].jiffies > 1 /\ Times(s, h)
                 /\ s.timers[1].jiffies = fd.timers[1].jiffies - 1
      <3>1. Len(fd.timers) = 1 /\ fd.timers[1].fn = h /\ fd.busy = <<>> /\ fd.do_floppy = "none"
        BY <2>9 DEF Times
      <3>2. fd.timers[1].jiffies \in Nat /\ fd.timers[1].jiffies > 1 /\ fd.timers[1].jiffies - 1 >= 1
        BY <1>7, <3>1
      <3>3. Len(s.timers) = 1 /\ s.timers[1].fn = h /\ s.timers[1].jiffies = fd.timers[1].jiffies - 1
        BY <1>6, <1>10, <3>1
      <3> QED
        BY <1>9, <3>1, <3>2, <3>3 DEF Times
    <2>10. Starts(fd, 0) => Starts(s, 1)
      BY <1>13, <2>1, <2>9 DEF Starts
    <2>11. Selects(fd, 0) => Selects(s, 1)
      <3> SUFFICES ASSUME Selects(fd, 0) PROVE Selects(s, 1)
        OBVIOUS
      <3>1. /\ Times(fd, "transfer") /\ Aimed(fd) /\ OnDrive(fd) /\ fd.timers[1].jiffies <= 2
            /\ Warm(fd, fd.timers[1].jiffies + 2 * CommandTicks, 0)
        BY Zenon DEF Selects
      <3>2. /\ fd.timers[1].jiffies \in Nat /\ fd.timers[1].jiffies > 1 /\ Times(s, "transfer")
            /\ s.timers[1].jiffies = fd.timers[1].jiffies - 1
        BY <2>9, <3>1
      <3>3. /\ fd.timers[1].jiffies + 2 * CommandTicks \in Int /\ s.timers[1].jiffies + 2 * CommandTicks \in Int
            /\ fd.timers[1].jiffies + 2 * CommandTicks = (s.timers[1].jiffies + 2 * CommandTicks) + 1
            /\ s.timers[1].jiffies <= 2
        BY <3>1, <3>2, FdNumbers
      <3>4. Warm(s, s.timers[1].jiffies + 2 * CommandTicks, 1)
        BY <1>12, <3>1, <3>3
      <3> QED
        BY <2>1, <2>2, <3>1, <3>2, <3>3, <3>4 DEF Selects
    <2>12. Phase(fd, 0)
      BY <1>1 DEF DriverOK
    <2> QED
      BY <1>9, <2>3, <2>7, <2>8, <2>10, <2>11, <2>12, Zenon DEF Phase
  <1>15. DriverOK(s, 1)
    BY <1>1, <1>8, <1>9, <1>14, Zenon DEF DriverOK
  <1>16. Sleeps(s)
    BY <1>1, <1>9, <1>10, Zenon DEF Sleeps
  <1>17. DriverOK(MotorsTick(s), 0) /\ Sleeps(MotorsTick(s)) /\ MotorsTick(s).queue = s.queue
    BY <1>1, <1>15, <1>16, MotorsTickKeeps
  <1> QED
    BY <1>1, <1>2, <1>9, <1>17, BecomeKeeps

LEMMA OneLess == ASSUME NEW S, NEW l \in Seq(S), Len(l) = 1 PROVE Tail(l) = <<>>
  <1>1. Tail(l) \in Seq(S) /\ Len(Tail(l)) = 0
    OBVIOUS
  <1> QED
    BY <1>1, EmptySeq

\* A tick that runs a timer.
LEMMA TickRunsKeeps == ASSUME FdRight, NEW ok \in BOOLEAN, TickRuns(ok) PROVE FdRight'
  <1> DEFINE l == Tail(fd.timers)
             a == IF fd.busy = <<>> THEN 0 ELSE fd.age + 1
             s == [fd EXCEPT !.timers = l, !.age = a]
             t == IF Head(fd.timers).fn = "on" THEN floppy_on_interrupt(s, ok) ELSE transfer(s, ok)
             c == fd.current_drive
  <1>1. fd \in FdStates /\ Sleeps(fd) /\ ChangeOK /\ DriverOK(fd, 0) /\ Len(fd.queue) <= MaxRequests
    BY FdSleeps DEF FdRight
  <1>2. Due /\ (fd.busy = <<>> \/ fd.age < CommandTicks) /\ Become(MotorsTick(t))
    BY Zenon DEF TickRuns
  <1>3. fd.age \in 0 .. CommandTicks /\ fd.timers \in Seq([jiffies : Int, fn : Works])
    BY <1>1 DEF FdStates
  <1>4. a \in 0 .. CommandTicks
    BY <1>2, <1>3, FdNumbers
  <1>5. fd.timers # <<>> /\ Head(fd.timers) = fd.timers[1] /\ fd.timers[1].jiffies \in Int /\ fd.timers[1].jiffies <= 1
    BY <1>2, <1>3, FirstTimer DEF Due
  <1>6. l \in Seq([jiffies : Int, fn : Works])
    BY <1>3, <1>5
  <1> HIDE DEF a, l
  <1>7. s \in FdStates
    BY <1>1, <1>4, <1>6, Zenon DEF FdStates
  <1>8. /\ s.queue = fd.queue /\ s.reset = fd.reset /\ s.recalibrate = fd.recalibrate /\ s.seek = fd.seek
        /\ s.current_drive = fd.current_drive /\ s.current_track = fd.current_track /\ s.seek_track = fd.seek_track
        /\ s.selected = fd.selected /\ s.do_floppy = fd.do_floppy /\ s.busy = fd.busy
    BY <1>1 DEF FdStates
  <1>9. /\ s.timers = l /\ s.wake = fd.wake /\ s.motors = fd.motors /\ s.mon = fd.mon /\ s.moff = fd.moff
        /\ s.drive = fd.drive
    BY <1>1 DEF FdStates
  <1> HIDE DEF s
  <1>10. fd.mon[c] \in Nat /\ fd.moff[c] \in Int
    BY <1>1, FdNumbers DEF FdStates
  <1>11. ~fd.reset /\ (Starts(fd, 0) \/ Selects(fd, 0))
    BY <1>1, <1>5 DEF DriverOK, Phase, Rests, Awaits, Seeks, Transfers
  <1>12. ASSUME NEW h, Times(fd, h) PROVE fd.timers[1].jiffies = 1 /\ Head(fd.timers).fn = h /\ Rests(s)
    <2>1. Len(fd.timers) = 1 /\ fd.timers[1].fn = h /\ fd.busy = <<>> /\ fd.do_floppy = "none" /\ fd.timers[1].jiffies >= 1
      BY <1>12 DEF Times
    <2>2. l = <<>>
      BY <1>3, <2>1, OneLess DEF l
    <2>3. fd.timers[1].jiffies = 1
      BY <1>5, <2>1
    <2> QED
      BY <1>5, <1>8, <1>9, <2>1, <2>2, <2>3 DEF Rests
  <1>13. Len(s.queue) <= Len(fd.queue)
    BY <1>8, QueueLength, <1>1
  <1>14. Follows(fd, s)
    BY <1>8, <1>9, <1>13, Zenon DEF Follows
  <1>15. DriverOK(t, 1) /\ Follows(s, t)
    <2>1. CASE Starts(fd, 0)
      <3>1. Times(fd, "on") /\ Aimed(fd) /\ Warming(fd, fd.timers[1].jiffies, 0)
        BY <2>1, Zenon DEF Starts
      <3>2. fd.timers[1].jiffies = 1 /\ Head(fd.timers).fn = "on" /\ Rests(s)
        BY <1>12, <3>1
      <3>3. Warming(fd, 1, 0)
        BY <3>1, <3>2
      <3>4. /\ c \in fd.motors /\ fd.mon[c] >= 1 + 0 /\ (fd.mon[c] <= 1 + 0 \/ fd.mon[c] <= 2)
            /\ (fd.moff[c] = Never \/ fd.moff[c] >= 2 + 2 * CommandTicks)
        BY <3>3, Zenon DEF Warming
      <3>5. fd.mon[c] < 2 + 1 /\ fd.mon[c] # 0
        BY <1>10, <3>4
      <3>6. Warm(s, 2 + 2 * CommandTicks, 1)
        BY <1>8, <1>9, <3>4, <3>5, Zenon DEF Warm
      <3>7. Aimed(s)
        BY <1>8, <3>1, Zenon DEF Aimed
      <3>8. t = floppy_on_interrupt(s, ok)
        BY <3>2
      <3> HIDE DEF t
      <3> QED
        BY <1>7, <1>8, <1>11, <3>2, <3>6, <3>7, <3>8, OnLeads
    <2>2. CASE Selects(fd, 0)
      <3>1. /\ Times(fd, "transfer") /\ Aimed(fd) /\ OnDrive(fd)
            /\ Warm(fd, fd.timers[1].jiffies + 2 * CommandTicks, 0)
        BY <2>2, Zenon DEF Selects
      <3>2. fd.timers[1].jiffies = 1 /\ Head(fd.timers).fn = "transfer" /\ Rests(s)
        BY <1>12, <3>1
      <3>3. Warm(fd, 1 + 2 * CommandTicks, 0)
        BY <3>1, <3>2
      <3>4. /\ c \in fd.motors /\ fd.mon[c] < 2 + 0
            /\ (fd.moff[c] = Never \/ fd.moff[c] >= 1 + 2 * CommandTicks)
        BY <3>3, Zenon DEF Warm
      <3>5. /\ fd.mon[c] < 2 + 1
            /\ (fd.moff[c] = Never \/ (fd.moff[c] >= 2 * CommandTicks
                                         /\ (fd.mon[c] = 0 => fd.moff[c] >= 2 * CommandTicks + 1)))
        BY <1>10, <3>4, FdNumbers
      <3>6. Warm(s, 2 * CommandTicks, 1)
        BY <1>8, <1>9, <3>4, <3>5, Zenon DEF Warm
      <3>7. Aimed(s) /\ OnDrive(s)
        BY <1>8, <1>9, <3>1, Zenon DEF Aimed, OnDrive
      <3>8. t = transfer(s, ok)
        BY <3>2
      <3> HIDE DEF t
      <3> QED
        BY <1>7, <1>8, <1>11, <3>2, <3>6, <3>7, <3>8, TransferLeads
    <2> QED
      BY <1>11, <2>1, <2>2
  <1> HIDE DEF t
  <1>16. t \in FdStates
    BY <1>15 DEF DriverOK
  <1>17. Follows(fd, t)
    BY <1>1, <1>7, <1>14, <1>15, <1>16, FollowsOn
  <1>18. Sleeps(t)
    BY <1>1, <1>17, SleepsOn
  <1>19. DriverOK(MotorsTick(t), 0) /\ Sleeps(MotorsTick(t)) /\ MotorsTick(t).queue = t.queue
    BY <1>1, <1>15, <1>18, MotorsTickKeeps
  <1>20. Len(t.queue) <= MaxRequests
    <2>1. Len(t.queue) <= Len(fd.queue)
      BY <1>17 DEF Follows
    <2> QED
      BY <1>1, <1>16, <2>1, QueueLength, FloppyAssumption
  <1> QED
    BY <1>1, <1>2, <1>19, <1>20, BecomeKeeps

\* An interrupt of the controller.
LEMMA InterruptKeeps ==
    ASSUME FdRight, NEW c \in Handlers, NEW result \in Results, NEW ok \in BOOLEAN, Interrupt(c, result, ok)
    PROVE  FdRight'
  <1> DEFINE h == fd.do_floppy
             s == [fd EXCEPT !.do_floppy = "none", !.busy = Tail(fd.busy)]
             t == Handler(s, h, result, ok)
  <1>1. fd \in FdStates /\ Sleeps(fd) /\ ChangeOK /\ DriverOK(fd, 0) /\ Len(fd.queue) <= MaxRequests
    BY FdSleeps DEF FdRight
  <1>2. fd.busy # <<>> /\ (result = "protected" => h = "rw") /\ Become(t)
    BY Zenon DEF Interrupt
  <1>3. ~fd.reset /\ (fd.selected => fd.queue # <<>>)
    BY <1>1 DEF DriverOK
  <1>4. Awaits(fd, "reset") \/ Awaits(fd, "recal") \/ Seeks(fd, 0) \/ Transfers(fd, 0)
    BY <1>1, <1>2, Zenon DEF DriverOK, Phase, Rests, Times, Starts, Selects
  <1>5. h \in Handlers /\ Awaits(fd, h)
    BY <1>4 DEF Seeks, Transfers, Awaits, Handlers
  <1>6. fd.busy = <<h>> /\ fd.timers = <<>>
    BY <1>5 DEF Awaits
  <1>7. Tail(fd.busy) = <<>> /\ <<>> \in Seq(Handlers) /\ "none" \in Handlers \cup {"none"}
    BY <1>6
  <1>8. s \in FdStates
    <2>1. Tail(fd.busy) \in Seq(Handlers)
      BY <1>7, Zenon
    <2> QED
      BY <1>1, <1>7, <2>1, Zenon DEF FdStates
  <1>9. /\ s.queue = fd.queue /\ s.reset = fd.reset /\ s.recalibrate = fd.recalibrate /\ s.seek = fd.seek
        /\ s.current_drive = fd.current_drive /\ s.current_track = fd.current_track /\ s.seek_track = fd.seek_track
        /\ s.selected = fd.selected /\ s.do_floppy = "none"
    BY <1>1 DEF FdStates
  <1>10. /\ s.timers = fd.timers /\ s.wake = fd.wake /\ s.motors = fd.motors /\ s.mon = fd.mon /\ s.moff = fd.moff
         /\ s.drive = fd.drive /\ s.busy = Tail(fd.busy)
    BY <1>1 DEF FdStates
  <1> HIDE DEF s
  <1>11. Rests(s)
    BY <1>6, <1>7, <1>9, <1>10 DEF Rests
  <1>12. Len(s.queue) <= Len(fd.queue)
    BY <1>1, <1>9, QueueLength
  <1>13. Follows(fd, s)
    BY <1>9, <1>10, <1>12, Zenon DEF Follows
  <1>14. h \in {"seek", "rw"} => Seeks(fd, 0) \/ Transfers(fd, 0)
    BY <1>4 DEF Awaits
  <1>15. h \in {"seek", "rw"} => Aimed(fd) /\ OnDrive(fd)
    BY <1>14, Zenon DEF Seeks, Transfers
  <1>16. h \in {"seek", "rw"} => Aimed(s) /\ OnDrive(s)
    BY <1>9, <1>10, <1>15, Zenon DEF Aimed, OnDrive
  <1>17. h = "seek" => Warm(s, CommandTicks, 0)
    <2> SUFFICES ASSUME h = "seek" PROVE Warm(s, CommandTicks, 0)
      OBVIOUS
    <2>1. Seeks(fd, 0)
      BY <1>14 DEF Transfers, Awaits
    <2>2. Warm(fd, 2 * CommandTicks - fd.age, 0)
      BY <2>1, Zenon DEF Seeks
    <2>3. fd.age \in 0 .. CommandTicks
      BY <1>1 DEF FdStates
    <2>4. 2 * CommandTicks - fd.age \in Nat /\ CommandTicks \in 0 .. 2 * CommandTicks - fd.age /\ 0 \in 0 .. 1
      BY <2>3, FdNumbers
    <2>5. Warm(fd, CommandTicks, 0)
      BY <1>1, <2>2, <2>4, WarmFor
    <2> QED
      BY <1>9, <1>10, <2>5, Zenon DEF Warm
  <1>18. DriverOK(t, 0) /\ Follows(s, t)
    <2> HIDE DEF h
    <2> QED
      BY <1>2, <1>3, <1>5, <1>8, <1>9, <1>11, <1>16, <1>17, HandlerLeads
  <1> HIDE DEF t
  <1>19. t \in FdStates
    BY <1>18 DEF DriverOK
  <1>20. Follows(fd, t)
    BY <1>1, <1>8, <1>13, <1>18, <1>19, FollowsOn
  <1>21. Len(t.queue) <= MaxRequests
    <2>1. Len(t.queue) <= Len(fd.queue)
      BY <1>20 DEF Follows
    <2> QED
      BY <1>1, <1>19, <2>1, QueueLength, FloppyAssumption
  <1> QED
    BY <1>1, <1>2, <1>18, <1>20, <1>21, SleepsOn, BecomeKeeps

(* A request that comes while the driver still resets. *)

\* The driver waits for two things.
Two(s) == Len(s.timers) + Len(s.busy) > 1

\* It waits for the answer to one command.
Waits(s) == s \in FdStates /\ s.timers = <<>> /\ Len(s.busy) = 1 /\ ~s.reset /\ s.queue # <<>>

\* What comes of it: two things to wait for, or one.
TwoOrOne(s, t) == Two(t) \/ (DriverOK(t, 0) /\ Follows(s, t))

LEMMA SendOvertakes ==
    ASSUME NEW s, Waits(s), NEW c \in Handlers, NEW ok \in BOOLEAN
    PROVE  TwoOrOne(s, Send(s, c, ok))
  <1>1. CASE ok
    <2> DEFINE b == Append(s.busy, c)
               t == [s EXCEPT !.do_floppy = c, !.busy = b, !.age = 0]
    <2>1. Send(s, c, ok) = t
      BY <1>1 DEF Send, Waits
    <2>2. s.busy \in Seq(Handlers) /\ Len(s.busy) = 1 /\ Len(s.timers) = 0
      BY DEF Waits, FdStates
    <2>3. Len(b) = 2
      <3> DEFINE l == s.busy
      <3>1. l \in Seq(Handlers) /\ Len(l) = 1
        BY <2>2
      <3> HIDE DEF l
      <3>2. Len(Append(l, c)) = 2
        BY <3>1
      <3> QED
        BY <3>2 DEF l
    <2> HIDE DEF b
    <2>4. t.busy = b /\ t.timers = s.timers
      BY DEF Waits, FdStates
    <2> HIDE DEF t
    <2>5. Two(t)
      <3>1. Len(t.timers) = 0 /\ Len(t.busy) = 2
        BY <2>2, <2>3, <2>4
      <3> QED
        BY <3>1 DEF Two
    <2> QED
      BY <2>1, <2>5 DEF TwoOrOne
  <1>2. CASE ~ok
    <2> DEFINE q == [s EXCEPT !.seek = FALSE]
    <2>1. Send(s, c, ok) = reset_floppy(q)
      BY <1>2 DEF Send
    <2>2. q \in FdStates
      BY Zenon DEF Waits, FdStates
    <2>3. /\ q.queue = s.queue /\ q.selected = s.selected /\ q.wake = s.wake /\ q.timers = s.timers
          /\ q.motors = s.motors /\ q.mon = s.mon
      BY DEF Waits, FdStates
    <2> HIDE DEF q
    <2>4. Len(q.queue) <= Len(s.queue)
      BY <2>3, QueueLength DEF Waits
    <2>5. Follows(s, q)
      BY <2>3, <2>4, Zenon DEF Follows
    <2>6. DriverOK(reset_floppy(q), 0) /\ Follows(q, reset_floppy(q))
      BY <2>2, <2>3, ResetLeads DEF Waits
    <2>7. reset_floppy(q) \in FdStates /\ s \in FdStates
      BY <2>6 DEF DriverOK, Waits
    <2>8. Follows(s, reset_floppy(q))
      BY <2>2, <2>5, <2>6, <2>7, FollowsOn
    <2> QED
      BY <2>1, <2>6, <2>8 DEF TwoOrOne
  <1> QED
    BY <1>1, <1>2

\* What has come of it before.
LEMMA OvertakesOn ==
    ASSUME NEW s, NEW q, NEW t, s \in FdStates, q \in FdStates, Follows(s, q), TwoOrOne(q, t)
    PROVE  TwoOrOne(s, t)
  BY FollowsOn DEF TwoOrOne, DriverOK

\* A timer is a second thing.
LEMMA TimerOvertakes ==
    ASSUME NEW s, Waits(s), NEW j \in Nat \ {0}, NEW f \in Works
    PROVE  Two(AddTimer(s, j, f))
  <1> DEFINE t == AddTimer(s, j, f)
  <1>1. t = [s EXCEPT !.timers = t.timers] /\ Len(t.timers) = 1
    BY OneTimer DEF Waits
  <1> HIDE DEF t
  <1>2. t.busy = s.busy
    BY <1>1 DEF Waits, FdStates
  <1>3. Len(t.timers) + Len(t.busy) > 1
    <2>1. Len(t.timers) = 1 /\ Len(t.busy) = 1
      BY <1>1, <1>2 DEF Waits
    <2> QED
      BY <2>1
  <1> QED
    BY <1>3 DEF Two, t

LEMMA OnOvertakes ==
    ASSUME NEW s, Waits(s), NEW ok \in BOOLEAN
    PROVE  TwoOrOne(s, floppy_on_interrupt(s, ok))
  <1> DEFINE q == [s EXCEPT !.selected = TRUE]
             u == [s EXCEPT !.selected = TRUE, !.drive = s.current_drive]
             h == IF q.seek THEN "seek" ELSE "rw"
  <1>1. q \in FdStates /\ u \in FdStates
    BY Zenon DEF Waits, FdStates
  <1>2. /\ q.queue = s.queue /\ q.reset = s.reset /\ q.busy = s.busy /\ q.wake = s.wake /\ q.timers = s.timers
        /\ q.motors = s.motors /\ q.mon = s.mon /\ q.selected
    BY DEF Waits, FdStates
  <1>3. u.queue = s.queue /\ u.reset = s.reset /\ u.busy = s.busy /\ u.timers = s.timers
    BY DEF Waits, FdStates
  <1>4. floppy_on_interrupt(s, ok) = IF s.current_drive # s.drive THEN AddTimer(u, 2, "transfer") ELSE Send(q, h, ok)
    BY DEF floppy_on_interrupt, transfer
  <1> HIDE DEF q, u
  <1>5. Waits(q) /\ Waits(u)
    BY <1>1, <1>2, <1>3 DEF Waits
  <1>6. Two(AddTimer(u, 2, "transfer"))
    BY <1>5, TimerOvertakes DEF Works
  <1>7. h \in Handlers
    BY DEF Handlers
  <1> HIDE DEF h
  <1>8. TwoOrOne(q, Send(q, h, ok))
    BY <1>5, <1>7, SendOvertakes
  <1>9. Len(q.queue) <= Len(s.queue)
    BY <1>2, QueueLength DEF Waits
  <1>10. Follows(s, q)
    BY <1>2, <1>9, Zenon DEF Follows
  <1>11. TwoOrOne(s, Send(q, h, ok))
    BY <1>1, <1>8, <1>10, OvertakesOn DEF Waits
  <1> QED
    BY <1>4, <1>6, <1>11 DEF TwoOrOne

LEMMA StartOvertakes ==
    ASSUME NEW s, Waits(s), NEW ok \in BOOLEAN
    PROVE  TwoOrOne(s, StartRequest(s, ok))
  <1> DEFINE r == Head(s.queue)
             u == ticks_to_floppy_on(s, r.drive)
             b == s.current_drive # r.drive \/ s.current_track # r.track
             t == [u EXCEPT !.seek = b, !.current_drive = r.drive, !.seek_track = r.track]
  <1>1. s \in FdStates /\ s.queue # <<>>
    BY DEF Waits
  <1>2. r \in Requests
    BY <1>1, QueueLength
  <1>3. r.drive \in Drives /\ r.track \in Nat
    BY <1>2 DEF Requests
  <1>4. TicksOn(s, r.drive, u) /\ u \in FdStates /\ Follows(s, u)
    BY <1>1, <1>3, TicksOnFields, TicksOnFollows
  <1>5. StartRequest(s, ok) = IF t.mon[r.drive] > 0 THEN AddTimer(t, t.mon[r.drive], "on") ELSE floppy_on_interrupt(t, ok)
    BY DEF StartRequest
  <1> HIDE DEF u
  <1>6. u.queue = s.queue /\ u.reset = s.reset /\ u.busy = s.busy /\ u.timers = s.timers
    <2>1. u = [s EXCEPT !.moff = u.moff, !.motors = u.motors, !.drive = u.drive, !.mon = u.mon]
      BY <1>4, Zenon DEF TicksOn
    <2> QED
      BY <1>1, <1>4, <2>1, OnlyMotors, Zenon
  <1>7. b \in BOOLEAN
    OBVIOUS
  <1> HIDE DEF b
  <1>8. t \in FdStates
    BY <1>3, <1>4, <1>7, Zenon DEF FdStates
  <1>9. /\ t.queue = u.queue /\ t.reset = u.reset /\ t.busy = u.busy /\ t.timers = u.timers
        /\ t.motors = u.motors /\ t.mon = u.mon /\ t.wake = u.wake /\ t.selected = u.selected
    BY <1>4 DEF FdStates
  <1> HIDE DEF t
  <1>10. Waits(t)
    BY <1>6, <1>8, <1>9 DEF Waits
  <1>11. Len(t.queue) <= Len(u.queue)
    BY <1>4, <1>9, QueueLength
  <1>12. Follows(u, t)
    BY <1>9, <1>11, Zenon DEF Follows
  <1>13. Follows(s, t)
    BY <1>1, <1>4, <1>8, <1>12, FollowsOn
  <1>14. t.mon[r.drive] \in Nat
    <2>1. t.mon \in [Drives -> 0 .. SpinTicks]
      BY <1>8 DEF FdStates
    <2>2. t.mon[r.drive] \in 0 .. SpinTicks
      BY <1>3, <2>1
    <2> QED
      BY <2>2, FdNumbers
  <1>15. CASE t.mon[r.drive] > 0
    <2> DEFINE j == t.mon[r.drive]
    <2>1. j \in Nat \ {0}
      BY <1>14, <1>15
    <2>2. StartRequest(s, ok) = AddTimer(t, j, "on")
      BY <1>5, <1>15
    <2> HIDE DEF j
    <2>3. Two(AddTimer(t, j, "on"))
      BY <1>10, <2>1, TimerOvertakes DEF Works
    <2> QED
      BY <2>2, <2>3 DEF TwoOrOne
  <1>16. CASE ~(t.mon[r.drive] > 0)
    <2>1. TwoOrOne(t, floppy_on_interrupt(t, ok))
      BY <1>10, OnOvertakes
    <2>2. TwoOrOne(s, floppy_on_interrupt(t, ok))
      BY <1>1, <1>8, <1>13, <2>1, OvertakesOn
    <2> QED
      BY <1>5, <1>16, <2>2
  <1> QED
    BY <1>15, <1>16

\* The new request gives the driver a second thing to wait for, unless the controller is reset once more.
LEMMA RequestOvertakes ==
    ASSUME NEW s, Waits(s), NEW ok \in BOOLEAN
    PROVE  TwoOrOne(s, do_fd_request(s, ok))
  <1>1. s \in FdStates /\ ~s.reset /\ s.queue # <<>>
    BY DEF Waits
  <1>2. CASE s.recalibrate
    <2> DEFINE q == [s EXCEPT !.seek = FALSE, !.recalibrate = FALSE, !.current_track = 0, !.current_drive = 1]
    <2>1. do_fd_request(s, ok) = Send(q, "recal", ok)
      <3>1. do_fd_request(s, ok) = recalibrate_floppy([s EXCEPT !.seek = FALSE], ok)
        BY <1>1, <1>2 DEF do_fd_request
      <3> QED
        BY <1>1, <3>1 DEF recalibrate_floppy, FdStates
    <2>2. q \in FdStates
      <3>1. FALSE \in BOOLEAN /\ 0 \in Nat /\ 1 \in Drives
        BY DEF Drives
      <3> QED
        BY <1>1, <3>1, Zenon DEF FdStates
    <2>3. /\ q.queue = s.queue /\ q.reset = s.reset /\ q.busy = s.busy /\ q.wake = s.wake /\ q.timers = s.timers
          /\ q.motors = s.motors /\ q.mon = s.mon /\ q.selected = s.selected
      BY <1>1 DEF FdStates
    <2> HIDE DEF q
    <2>4. Waits(q)
      BY <2>2, <2>3 DEF Waits
    <2>5. TwoOrOne(q, Send(q, "recal", ok))
      BY <2>4, SendOvertakes DEF Handlers
    <2>6. Len(q.queue) <= Len(s.queue)
      BY <1>1, <2>3, QueueLength
    <2>7. Follows(s, q)
      BY <2>3, <2>6, Zenon DEF Follows
    <2> QED
      BY <1>1, <2>1, <2>2, <2>5, <2>7, OvertakesOn
  <1>3. CASE ~s.recalibrate
    <2>1. do_fd_request(s, ok) = StartRequest(s, ok)
      BY <1>1, <1>3 DEF do_fd_request
    <2> QED
      BY <2>1, StartOvertakes
  <1> QED
    BY <1>2, <1>3

\* A new request.
LEMMA SubmitKeeps ==
    ASSUME FdRight, NEW drive \in Drives, NEW track \in Tracks, NEW ok \in BOOLEAN, Submit(drive, track, ok),
           ~overtaken'
    PROVE  FdRight'
  <1> DEFINE r == [drive |-> drive, track |-> track, errors |-> 0]
             p == Append(fd.queue, r)
             s == [fd EXCEPT !.queue = p]
             t == IF fd.queue = <<>> THEN do_fd_request(s, ok) ELSE s
  <1>1. fd \in FdStates /\ Sleeps(fd) /\ ChangeOK /\ DriverOK(fd, 0) /\ Len(fd.queue) <= MaxRequests
    BY FdSleeps DEF FdRight
  <1>2. /\ Len(fd.queue) < MaxRequests /\ Become(t)
        /\ overtaken' = (StillResets /\ Len(t.timers) + Len(t.busy) > 1)
    BY DEF Submit
  <1>3. r \in Requests
    BY FloppyAssumption DEF Requests
  <1>4. fd.queue \in Seq(Requests) /\ Len(fd.queue) \in Nat
    BY <1>1, QueueLength
  <1> HIDE DEF r
  <1>5. p \in Seq(Requests) /\ p # <<>> /\ Len(p) = Len(fd.queue) + 1 /\ (fd.queue # <<>> => Head(p) = Head(fd.queue))
    BY <1>3, <1>4
  <1> HIDE DEF p
  <1>6. s \in FdStates
    BY <1>1, <1>5, Zenon DEF FdStates
  <1>7. /\ s.queue = p /\ s.reset = fd.reset /\ s.recalibrate = fd.recalibrate /\ s.seek = fd.seek
        /\ s.current_drive = fd.current_drive /\ s.current_track = fd.current_track /\ s.seek_track = fd.seek_track
        /\ s.selected = fd.selected /\ s.do_floppy = fd.do_floppy /\ s.busy = fd.busy /\ s.age = fd.age
    BY <1>1 DEF FdStates
  <1>8. /\ s.timers = fd.timers /\ s.wake = fd.wake /\ s.motors = fd.motors /\ s.mon = fd.mon /\ s.moff = fd.moff
        /\ s.drive = fd.drive
    BY <1>1 DEF FdStates
  <1> HIDE DEF s
  <1>9. Sleeps(s)
    BY <1>1, <1>7, <1>8, Zenon DEF Sleeps
  <1>10. Len(s.queue) \in Nat /\ Len(s.queue) <= MaxRequests
    BY <1>2, <1>4, <1>5, <1>7, FloppyAssumption
  <1>11. CASE fd.queue = <<>>
    <2>1. DriverOK(do_fd_request(s, ok), 0) /\ Follows(s, do_fd_request(s, ok))
      <3>1. CASE fd.busy = <<>>
        <4>1. \A h : ~Awaits(fd, h)
          BY <3>1 DEF Awaits
        <4>2. Rests(fd)
          BY <1>1, <1>11, <4>1, Zenon DEF DriverOK, Phase, Aimed, Seeks, Transfers, Starts, Selects
        <4>3. Rests(s) /\ s.queue # <<>>
          BY <1>5, <1>7, <1>8, <4>2 DEF Rests
        <4> QED
          BY <1>6, <4>3, RequestLeads
      <3>2. CASE fd.busy # <<>>
        <4>1. Awaits(fd, "reset") \/ Awaits(fd, "recal")
          BY <1>1, <1>11, <3>2 DEF DriverOK, Phase, Rests, Aimed, Seeks, Transfers, Starts, Selects
        <4>2. fd.timers = <<>> /\ Len(fd.busy) = 1
          BY <4>1 DEF Awaits
        <4>3. ~fd.reset
          BY <1>1 DEF DriverOK
        <4>4. Waits(s)
          BY <1>5, <1>6, <1>7, <1>8, <4>2, <4>3 DEF Waits
        <4>5. TwoOrOne(s, do_fd_request(s, ok))
          BY <4>4, RequestOvertakes
        <4>6. ~Two(do_fd_request(s, ok))
          BY <1>2, <1>11, <3>2 DEF StillResets, Two
        <4> QED
          BY <4>5, <4>6 DEF TwoOrOne
      <3> QED
        BY <3>1, <3>2
    <2>2. Sleeps(do_fd_request(s, ok))
      BY <1>1, <1>9, <2>1, SleepsOn
    <2>3. do_fd_request(s, ok) \in FdStates
      BY <2>1 DEF DriverOK
    <2>4. Len(do_fd_request(s, ok).queue) <= MaxRequests
      <3>1. Len(do_fd_request(s, ok).queue) <= Len(s.queue)
        BY <2>1 DEF Follows
      <3> QED
        BY <1>10, <2>3, <3>1, QueueLength, FloppyAssumption
    <2>5. Become(do_fd_request(s, ok))
      BY <1>2, <1>11
    <2> QED
      BY <1>1, <2>1, <2>2, <2>4, <2>5, BecomeKeeps
  <1>12. CASE fd.queue # <<>>
    <2>1. Aimed(fd) => Aimed(s)
      BY <1>5, <1>7, <1>12 DEF Aimed
    <2>2. OnDrive(fd) => OnDrive(s)
      BY <1>7, <1>8, Zenon DEF OnDrive
    <2>3. \A n : (Warm(fd, n, 0) => Warm(s, n, 0)) /\ (Warming(fd, n, 0) => Warming(s, n, 0))
      BY <1>7, <1>8, Zenon DEF Warm, Warming
    <2>4. /\ \A h : Awaits(fd, h) => Awaits(s, h)
          /\ \A h : Times(fd, h) => Times(s, h)
      BY <1>7, <1>8, Zenon DEF Awaits, Times
    <2>5. Phase(fd, 0)
      BY <1>1 DEF DriverOK
    <2>6. (Seeks(fd, 0) => Seeks(s, 0)) /\ (Transfers(fd, 0) => Transfers(s, 0))
      BY <1>5, <1>7, <1>12, <2>1, <2>2, <2>3, <2>4, Zenon DEF Seeks, Transfers
    <2>7. (Selects(fd, 0) => Selects(s, 0)) /\ (Starts(fd, 0) => Starts(s, 0))
      BY <1>8, <2>1, <2>2, <2>3, <2>4, Zenon DEF Selects, Starts
    <2>8. Phase(s, 0)
      BY <1>12, <2>4, <2>5, <2>6, <2>7, Zenon DEF Phase
    <2>9. DriverOK(s, 0)
      BY <1>1, <1>5, <1>6, <1>7, <2>8, Zenon DEF DriverOK
    <2>10. Become(s)
      BY <1>2, <1>12
    <2> QED
      BY <1>1, <1>9, <1>10, <2>9, <2>10, BecomeKeeps
  <1> QED
    BY <1>11, <1>12

\* The task in floppy_change().
LEMMA ChangeCalledKeeps == ASSUME FdRight, NEW d \in Drives, ChangeCalled(d) PROVE FdRight'
  <1>1. fd' = fd /\ change' = [at |-> "on", drive |-> d]
    BY DEF ChangeCalled
  <1>2. ChangeOK'
    BY <1>1 DEF ChangeOK
  <1>3. DriverOK(fd', 0)
    BY <1>1 DEF FdRight
  <1> QED
    BY <1>1, <1>2, <1>3 DEF FdRight

LEMMA FloppyOnKeeps == FdRight /\ FloppyOn => FdRight'
  <1> SUFFICES ASSUME FdRight, FloppyOn PROVE FdRight'
    OBVIOUS
  <1> DEFINE q == ticks_to_floppy_on(fd, change.drive)
             c == change.drive
  <1>1. fd \in FdStates /\ ChangeOK /\ DriverOK(fd, 0) /\ Len(fd.queue) <= MaxRequests /\ fd.wake = {}
    BY FdSleeps DEF FdRight
  <1>2. c \in Drives
    BY <1>1 DEF ChangeOK
  <1>3. TicksOn(fd, c, q)
    BY <1>1, <1>2, TicksOnFields
  <1>4. fd' = q /\ change' = [change EXCEPT !.at = IF fd'.mon[c] > 0 THEN "motor" ELSE "check"]
    BY DEF FloppyOn
  <1>5. DriverOK(q, 0)
    BY <1>1, <1>2, TicksOnKeeps
  <1> HIDE DEF q
  <1>6. q = [fd EXCEPT !.moff = q.moff, !.motors = q.motors, !.drive = q.drive, !.mon = q.mon] /\ q \in FdStates
    BY <1>3, Zenon DEF TicksOn
  <1>7. q.queue = fd.queue /\ q.wake = fd.wake
    BY <1>1, <1>6, OnlyMotors, Zenon
  <1>8. c \in q.motors
    BY <1>3 DEF TicksOn
  <1>9. ChangeOK'
    BY <1>1, <1>4, <1>8 DEF ChangeOK
  <1> QED
    BY <1>1, <1>4, <1>5, <1>7, <1>9 DEF FdRight

\* floppy_off() leaves the driver more time than a seek and a transfer take.
LEMMA OffKeeps ==
    ASSUME NEW s, DriverOK(s, 0), NEW nr \in Drives
    PROVE  LET q == floppy_off(s, nr) IN
           DriverOK(q, 0) /\ q.queue = s.queue /\ q.wake = s.wake
  <1> DEFINE mo == [s.moff EXCEPT ![nr] = OffTicks]
             q == [s EXCEPT !.moff = mo]
             c == s.current_drive
  <1>1. s \in FdStates /\ c \in Drives /\ 0 \in 0 .. 1
    BY DEF DriverOK, FdStates
  <1>2. s.moff \in [Drives -> -1 .. OffTicks] /\ OffTicks \in -1 .. OffTicks
    BY <1>1, FdNumbers DEF FdStates
  <1>3. mo \in [Drives -> -1 .. OffTicks] /\ mo[nr] = OffTicks /\ \A d \in Drives : d # nr => mo[d] = s.moff[d]
    BY <1>2, Zenon
  <1>4. floppy_off(s, nr) = q
    BY DEF floppy_off
  <1> HIDE DEF mo
  <1>5. q \in FdStates
    BY <1>1, <1>3, Zenon DEF FdStates
  <1>6. /\ q.queue = s.queue /\ q.reset = s.reset /\ q.recalibrate = s.recalibrate /\ q.seek = s.seek
        /\ q.current_drive = s.current_drive /\ q.current_track = s.current_track /\ q.seek_track = s.seek_track
        /\ q.selected = s.selected /\ q.do_floppy = s.do_floppy /\ q.busy = s.busy /\ q.age = s.age
    BY <1>1 DEF FdStates
  <1>7. /\ q.timers = s.timers /\ q.wake = s.wake /\ q.motors = s.motors /\ q.mon = s.mon /\ q.moff = mo
        /\ q.drive = s.drive
    BY <1>1 DEF FdStates
  <1> HIDE DEF q
  <1>8. mo[c] = OffTicks \/ mo[c] = s.moff[c]
    BY <1>1, <1>3
  <1>9. ASSUME NEW n \in Int, n <= 2 + 2 * CommandTicks, Warm(s, n, 0) PROVE Warm(q, n, 0)
    <2>1. /\ c \in s.motors /\ s.mon[c] < 2 + 0
          /\ (s.moff[c] = Never \/ (s.moff[c] >= n /\ (s.mon[c] = 0 => s.moff[c] >= n + 0)))
      BY <1>9, Zenon DEF Warm
    <2>2. OffTicks >= n /\ OffTicks >= n + 0
      BY <1>9, FdNumbers
    <2>3. mo[c] = Never \/ (mo[c] >= n /\ (s.mon[c] = 0 => mo[c] >= n + 0))
      BY <1>8, <2>1, <2>2, Zenon
    <2> QED
      BY <1>6, <1>7, <2>1, <2>3, Zenon DEF Warm
  <1>10. ASSUME NEW j, Warming(s, j, 0) PROVE Warming(q, j, 0)
    <2>1. /\ c \in s.motors /\ s.mon[c] >= j + 0 /\ (s.mon[c] <= j + 0 \/ s.mon[c] <= 2)
          /\ (s.moff[c] = Never \/ s.moff[c] >= 2 + 2 * CommandTicks)
      BY <1>10, Zenon DEF Warming
    <2>2. mo[c] = Never \/ mo[c] >= 2 + 2 * CommandTicks
      BY <1>8, <2>1, FdNumbers, Zenon
    <2> QED
      BY <1>6, <1>7, <2>1, <2>2, Zenon DEF Warming
  <1>11. Phase(q, 0)
    <2>1. Aimed(s) => Aimed(q)
      BY <1>6, Zenon DEF Aimed
    <2>2. OnDrive(s) => OnDrive(q)
      BY <1>6, <1>7, Zenon DEF OnDrive
    <2>3. /\ Rests(s) => Rests(q)
          /\ \A h : Awaits(s, h) => Awaits(q, h)
          /\ \A h : Times(s, h) => Times(q, h)
      BY <1>6, <1>7, Zenon DEF Rests, Awaits, Times
    <2>4. Phase(s, 0)
      BY DEF DriverOK
    <2>5. s.age \in 0 .. CommandTicks
      BY <1>1 DEF FdStates
    <2>6. /\ 2 * CommandTicks - s.age \in Int /\ CommandTicks - s.age \in Int
          /\ 2 * CommandTicks - s.age <= 2 + 2 * CommandTicks /\ CommandTicks - s.age <= 2 + 2 * CommandTicks
      BY <2>5, FdNumbers
    <2>7. (Seeks(s, 0) => Seeks(q, 0)) /\ (Transfers(s, 0) => Transfers(q, 0))
      BY <1>6, <1>9, <2>1, <2>2, <2>3, <2>6, Zenon DEF Seeks, Transfers
    <2>8. ASSUME NEW h, Times(s, h), s.timers[1].jiffies <= 2
          PROVE  /\ s.timers[1].jiffies + 2 * CommandTicks \in Int
                 /\ s.timers[1].jiffies + 2 * CommandTicks <= 2 + 2 * CommandTicks
      <3>1. s.timers[1].jiffies \in Nat \ {0}
        BY <1>1, <2>8, TimeLeft
      <3> QED
        BY <2>8, <3>1, FdNumbers
    <2>9. (Selects(s, 0) => Selects(q, 0)) /\ (Starts(s, 0) => Starts(q, 0))
      BY <1>7, <1>9, <1>10, <2>1, <2>2, <2>3, <2>8, Zenon DEF Selects, Starts
    <2> QED
      BY <1>6, <2>3, <2>4, <2>7, <2>9, Zenon DEF Phase
  <1>12. DriverOK(q, 0)
    BY <1>5, <1>6, <1>11, Zenon DEF DriverOK
  <1> QED
    BY <1>4, <1>6, <1>7, <1>12

LEMMA SelectedKeeps == FdRight /\ FloppySelected => FdRight'
  <1> SUFFICES ASSUME FdRight, FloppySelected PROVE FdRight'
    OBVIOUS
  <1>1. fd \in FdStates /\ ChangeOK /\ DriverOK(fd, 0) /\ Len(fd.queue) <= MaxRequests /\ fd.wake = {}
    BY FdSleeps DEF FdRight
  <1>2. CASE fd.drive = change.drive
    <2>1. fd' = floppy_off(fd, change.drive) /\ change' = [at |-> "user", drive |-> 0]
      BY <1>2 DEF FloppySelected
    <2>2. change.drive \in Drives
      BY <1>1 DEF ChangeOK
    <2>3. DriverOK(fd', 0) /\ fd'.queue = fd.queue /\ fd'.wake = fd.wake
      BY <1>1, <2>1, <2>2, OffKeeps
    <2>4. ChangeOK'
      BY <2>1 DEF ChangeOK, Drives
    <2> QED
      BY <1>1, <2>3, <2>4 DEF FdRight
  <1>3. CASE fd.drive # change.drive
    <2>1. fd' = fd /\ change' = [change EXCEPT !.at = IF fd.selected THEN "select" ELSE "on"]
      BY <1>3 DEF FloppySelected
    <2>2. ChangeOK'
      BY <1>1, <2>1 DEF ChangeOK
    <2>3. DriverOK(fd', 0)
      BY <1>1, <2>1
    <2> QED
      BY <1>1, <2>1, <2>2, <2>3 DEF FdRight
  <1> QED
    BY <1>2, <1>3

LEMMA FdStart == FdInit => FdRight
  <1> SUFFICES ASSUME FdInit PROVE FdRight
    OBVIOUS
  <1>1. /\ <<>> \in Seq(Requests) /\ <<>> \in Seq(Handlers) /\ <<>> \in Seq([jiffies : Int, fn : Works])
        /\ FALSE \in BOOLEAN /\ 0 \in Drives /\ 255 \in Nat /\ 0 \in Nat /\ "none" \in Handlers \cup {"none"}
        /\ 0 \in 0 .. CommandTicks /\ {} \in SUBSET Drives /\ {} \in SUBSET {"motor", "select"}
    BY FdNumbers DEF Drives
  <1>2. [d \in Drives |-> 0] \in [Drives -> 0 .. SpinTicks]
    BY FdNumbers
  <1>3. [d \in Drives |-> 0] \in [Drives -> -1 .. OffTicks]
    BY FdNumbers
  <1>4. fd \in FdStates
    BY <1>1, <1>2, <1>3, Zenon DEF FdInit, FdStates
  <1>5. /\ fd.queue = <<>> /\ fd.timers = <<>> /\ fd.busy = <<>> /\ fd.do_floppy = "none" /\ fd.wake = {}
        /\ fd.reset = FALSE /\ fd.selected = FALSE
    BY DEF FdInit
  <1>6. DriverOK(fd, 0)
    BY <1>4, <1>5 DEF DriverOK, Phase, Rests
  <1>7. ChangeOK
    BY DEF FdInit, ChangeOK, Drives
  <1>8. Len(fd.queue) <= MaxRequests
    BY <1>5, FloppyAssumption
  <1> QED
    BY <1>5, <1>6, <1>7, <1>8 DEF FdRight

\* The inductive invariant: it says nothing once a request has overtaken a reset.
FdInv == ~overtaken => FdRight

LEMMA FdKeeps == FdInv /\ [FdNext]_fdVars => FdInv'
  <1> SUFFICES ASSUME FdInv, [FdNext]_fdVars, ~overtaken' PROVE FdRight'
    BY DEF FdInv
  <1>1. CASE UNCHANGED fdVars
    <2>1. fd' = fd /\ change' = change /\ FdRight
      BY <1>1 DEF fdVars, FdInv
    <2>2. DriverOK(fd', 0)
      BY <2>1 DEF FdRight
    <2>3. ChangeOK'
      BY <2>1 DEF FdRight, ChangeOK
    <2> QED
      BY <2>1, <2>2, <2>3 DEF FdRight
  <1>2. CASE FdNext
    <2>1. ~overtaken
      BY <1>2 DEF FdNext, FdTick, TickRuns, Interrupt, Submit, ChangeCalled, FloppyOn, FloppySelected, GoesOn
    <2>2. FdRight
      BY <2>1 DEF FdInv
    <2> QED
      BY <1>2, <2>2, FdTickKeeps, TickRunsKeeps, InterruptKeeps, SubmitKeeps, ChangeCalledKeeps, FloppyOnKeeps, SelectedKeeps
      DEF FdNext
  <1> QED
    BY <1>1, <1>2

\* What the invariant says of the driver between two events.
LEMMA DriverRight == FdInv => DriverConsistent
  <1> SUFFICES ASSUME FdRight PROVE FdTypeOK /\ OneThread /\ SleeperIsWoken /\ TransferInPlace
    BY DEF FdInv, DriverConsistent
  <1>1. fd \in FdStates /\ ChangeOK /\ DriverOK(fd, 0) /\ Len(fd.queue) <= MaxRequests /\ fd.wake = {}
    BY FdSleeps DEF FdRight
  <1>2. Phase(fd, 0) /\ (fd.selected => fd.queue # <<>>)
    BY <1>1 DEF DriverOK
  <1>3. FdTypeOK
    <2>1. fd.mon \in [Drives -> 0 .. SpinTicks] /\ fd.moff \in [Drives -> -1 .. OffTicks]
      BY <1>1 DEF FdStates
    <2>2. \A d \in Drives : fd.mon[d] \in 0 .. SpinTicks /\ fd.moff[d] \in -1 .. OffTicks
      BY <2>1
    <2>3. /\ fd.do_floppy \in Handlers \cup {"none"} /\ fd.drive \in Drives /\ fd.current_drive \in Drives
          /\ fd.motors \subseteq Drives
      BY <1>1 DEF FdStates
    <2>4. change.at \in {"user", "on", "motor", "check", "select"}
      BY <1>1 DEF ChangeOK
    <2> QED
      BY <1>1, <2>2, <2>3, <2>4, Zenon DEF FdTypeOK
  <1>4. OneThread
    <2>1. \A h : Awaits(fd, h) => Len(fd.timers) = 0 /\ Len(fd.busy) = 1
      BY DEF Awaits
    <2>2. \A h : Times(fd, h) => Len(fd.timers) = 1 /\ Len(fd.busy) = 0
      BY DEF Times
    <2>3. fd.queue # <<>> => (\E h : Awaits(fd, h)) \/ (\E h : Times(fd, h))
      BY <1>2, Zenon DEF Phase, Seeks, Transfers, Starts, Selects
    <2>4. fd.queue # <<>> => (Len(fd.timers) = 0 /\ Len(fd.busy) = 1) \/ (Len(fd.timers) = 1 /\ Len(fd.busy) = 0)
      BY <2>1, <2>2, <2>3, Zenon
    <2>5. fd.queue # <<>> => Len(fd.timers) + Len(fd.busy) = 1
      <3> SUFFICES ASSUME fd.queue # <<>> PROVE Len(fd.timers) + Len(fd.busy) = 1
        OBVIOUS
      <3>1. CASE Len(fd.timers) = 0 /\ Len(fd.busy) = 1
        BY <3>1
      <3>2. CASE Len(fd.timers) = 1 /\ Len(fd.busy) = 0
        BY <3>2
      <3> QED
        BY <2>4, <3>1, <3>2
    <2> QED
      BY <2>5 DEF OneThread
  <1>5. SleeperIsWoken
    BY <1>1, <1>2 DEF SleeperIsWoken, ChangeOK
  <1>6. TransferInPlace
    <2> SUFFICES ASSUME fd.do_floppy = "rw"
                 PROVE  /\ fd.drive = Head(fd.queue).drive /\ fd.selected
                        /\ fd.current_track = Head(fd.queue).track
                        /\ fd.drive \in fd.motors /\ fd.mon[fd.drive] < 2
      BY DEF TransferInPlace
    <2>1. Transfers(fd, 0)
      BY <1>2 DEF Phase, Rests, Awaits, Times, Seeks, Starts, Selects
    <2>2. Aimed(fd) /\ OnDrive(fd) /\ fd.current_track = Head(fd.queue).track /\ Warm(fd, CommandTicks - fd.age, 0)
      BY <2>1, Zenon DEF Transfers
    <2>3. fd.current_drive \in fd.motors /\ fd.mon[fd.current_drive] < 2 + 0
      BY <2>2, Zenon DEF Warm
    <2>4. fd.mon[fd.current_drive] < 2
      BY <2>3
    <2> QED
      BY <2>2, <2>3, <2>4 DEF Aimed, OnDrive
  <1> QED
    BY <1>3, <1>4, <1>5, <1>6

\* The floppy driver waits for exactly one thing while there is a request, a transfer is on the drive and the track of
\* the request with the motor at speed, and a task in floppy_change() is woken: for any tracks, numbers of requests and
\* errors, and times of the motors, if the motors run long enough for a seek and a transfer, until a request comes while
\* the driver still resets after the last one has failed, and makes it wait for a second thing (overtaken).
THEOREM FloppyIsConsistent == FdSpec => []DriverConsistent
  <1>1. FdInit /\ [][FdNext]_fdVars => []FdInv
    <2>1. FdInit => FdInv
      BY FdStart DEF FdInv, FdInit
    <2> QED
      BY <2>1, FdKeeps, PTL
  <1> QED
    BY <1>1, DriverRight, PTL DEF FdSpec

-----------------------------------------------------------------------------
(* The allocator: chains *)

Linkeds == [page : PageNumbers \cup {Null}, next : Descs \cup {Null}, free : Seq(Nat), refcnt : Nat]

\* In the descriptors ds, the chain that begins with h is q.
IsChain(ds, h, q) ==
    /\ q \in Seq(Descs) /\ IsInjective(q)
    /\ h = IF q = <<>> THEN Null ELSE q[1]
    /\ \A i \in 1 .. Len(q) : ds[q[i]].next = IF i = Len(q) THEN Null ELSE q[i + 1]

\* It has the descriptors S.
Linked(ds, h, S) == \E q \in Seq(Descs) : IsChain(ds, h, q) /\ ToSet(q) = S

\* A set of numbers that is not empty has a least element.
LEMMA LeastOf ==
    ASSUME NEW T, T \subseteq Nat, T # {}
    PROVE  \E x \in T : \A y \in T : x <= y
<1> DEFINE R == OpToRel(<, Nat)
<1>1. IsWellFoundedOn(R, Nat)
  BY NatLessThanWellFounded
<1>2. PICK x \in T : \A y \in T : ~(<<y, x>> \in R)
  BY <1>1, WFMin
<1>3. \A y \in T : ~(y < x)
  BY <1>2 DEF OpToRel
<1>4. \A y \in T : x <= y
  BY <1>3
<1>5. QED
  BY <1>4

\* The least of a set of numbers is one of it.
LEMMA MinIs ==
    ASSUME NEW T, T \subseteq Nat, T # {}
    PROVE  Min(T) \in T
BY LeastOf DEF Min

\* A chain without repetitions is no longer than there are descriptors.
LEMMA ChainShort ==
    ASSUME NEW q \in Seq(Descs), IsInjective(q)
    PROVE  Len(q) \in 0 .. MaxDescs
<1>1. q \in Injection(1 .. Len(q), Descs)
  BY DEF Injection, IsInjective
<1>2. MaxDescs \in Nat /\ Len(q) \in Nat
  BY MallocAssumption
<1>3. IsFiniteSet(Descs) /\ Cardinality(Descs) = MaxDescs
  BY <1>2, FS_Interval DEF Descs
<1>4. Cardinality(1 .. Len(q)) = Len(q)
  BY <1>2, FS_Interval
<1>5. Cardinality(1 .. Len(q)) <= Cardinality(Descs)
  BY <1>1, <1>3, FS_Injection
<1>6. QED
  BY <1>2, <1>3, <1>4, <1>5

\* Following next from the first descriptor of a chain finds the chain.
LEMMA ChainIs ==
    ASSUME NEW h, NEW q, IsChain(desc, h, q)
    PROVE  From(h) = q
<1> DEFINE S == 1 .. MaxDescs + 1
           Body(f, i) == IF i = 1 THEN h ELSE IF f[i - 1] = Null THEN Null ELSE desc[f[i - 1]].next
           at == CHOOSE f : f = [i \in S |-> Body(f, i)]
           p == [i \in S |-> IF i <= Len(q) THEN q[i] ELSE Null]
<1>1. /\ q \in Seq(Descs) /\ IsInjective(q) /\ Len(q) \in 0 .. MaxDescs /\ MaxDescs \in Nat
      /\ h = IF q = <<>> THEN Null ELSE q[1]
      /\ \A i \in 1 .. Len(q) : q[i] # Null /\ q[i] \in Descs
      /\ \A i \in 1 .. Len(q) : desc[q[i]].next = IF i = Len(q) THEN Null ELSE q[i + 1]
  BY ChainShort, MallocAssumption DEF IsChain, Descs, Null
<1>2. \A i \in S : p[i] = Body(p, i)
  <2> SUFFICES ASSUME NEW i \in S PROVE p[i] = Body(p, i)
    OBVIOUS
  <2>1. CASE i = 1
    BY <1>1, <2>1
  <2>2. CASE i # 1
    <3>1. i - 1 \in S /\ i \in Nat
      BY <1>1, <2>2
    <3>2. p[i - 1] = IF i - 1 <= Len(q) THEN q[i - 1] ELSE Null
      BY <3>1
    <3>3. CASE i - 1 <= Len(q)
      BY <1>1, <2>2, <3>1, <3>2, <3>3
    <3>4. CASE ~(i - 1 <= Len(q))
      BY <1>1, <2>2, <3>1, <3>2, <3>4
    <3>5. QED
      BY <3>3, <3>4
  <2>3. QED
    BY <2>1, <2>2
<1>3. p = [i \in S |-> Body(p, i)]
  BY <1>2
<1>4. at = [i \in S |-> Body(at, i)]
  <2> HIDE DEF p
  <2>1. QED
    BY <1>3
<1>5. \A i \in S : at[i] = Body(at, i)
  <2> HIDE DEF at
  <2>1. QED
    BY <1>4
<1>6. \A i \in S : at[i] = p[i]
  <2> DEFINE T == {i \in S : at[i] # p[i]}
  <2> SUFFICES ASSUME T # {} PROVE FALSE
    OBVIOUS
  <2>1. T \subseteq Nat
    OBVIOUS
  <2>2. PICK i \in T : \A j \in T : i <= j
    BY <2>1, LeastOf
  <2>3. i \in S /\ at[i] # p[i] /\ at[i] = Body(at, i) /\ p[i] = Body(p, i)
    BY <1>2, <1>5
  <2> HIDE DEF at, p
  <2>4. i # 1
    BY <2>3
  <2>5. i - 1 \in S /\ i - 1 < i
    BY <2>3, <2>4, <1>1
  <2>6. at[i - 1] = p[i - 1]
    BY <2>2, <2>5
  <2>7. QED
    BY <2>3, <2>6
<1>7. From(h) = [i \in {j \in S : at[j] # Null} |-> at[i]]
  BY DEF From
<1>8. {j \in S : at[j] # Null} = 1 .. Len(q)
  <2> HIDE DEF at
  <2>1. QED
    BY <1>1, <1>6
<1>9. From(h) = [i \in 1 .. Len(q) |-> q[i]]
  <2> HIDE DEF at
  <2>1. \A i \in 1 .. Len(q) : i \in S /\ at[i] = q[i]
    BY <1>1, <1>6
  <2>2. QED
    BY <1>7, <1>8, <2>1
<1>10. QED
  BY <1>1, <1>9

\* The chain that is found has the descriptors of the list.
LEMMA LinkedIs ==
    ASSUME NEW h, NEW S, Linked(desc, h, S)
    PROVE  IsChain(desc, h, From(h)) /\ ToSet(From(h)) = S
BY ChainIs DEF Linked


\* What a chain has.
LEMMA ToSetIs ==
    ASSUME NEW q \in Seq(Descs), NEW e
    PROVE  e \in ToSet(q) <=> \E i \in 1 .. Len(q) : q[i] = e
BY DEF ToSet

\* The descriptors of a chain, by their places.
LEMMA ChainFacts ==
    ASSUME NEW ds, NEW h, NEW q \in Seq(Descs), IsChain(ds, h, q)
    PROVE  /\ \A i \in 1 .. Len(q) : q[i] \in ToSet(q) /\ q[i] \in Descs /\ q[i] # Null
           /\ Len(q) \in Nat
           /\ h = IF q = <<>> THEN Null ELSE q[1]
           /\ \A i \in 1 .. Len(q) : ds[q[i]].next = IF i = Len(q) THEN Null ELSE q[i + 1]
           /\ \A i, j \in 1 .. Len(q) : q[i] = q[j] => i = j
<1>1. \A i \in 1 .. Len(q) : q[i] \in ToSet(q) /\ q[i] \in Descs
  BY ToSetIs
<1>2. \A i \in 1 .. Len(q) : q[i] # Null
  BY <1>1 DEF Descs, Null
<1>3. \A i, j \in 1 .. Len(q) : q[i] = q[j] => i = j
  BY DEF IsChain, IsInjective
<1>4. QED
  BY <1>1, <1>2, <1>3 DEF IsChain

\* A chain depends on the descriptors that it has.
LEMMA ChainSame ==
    ASSUME NEW ds, NEW es, NEW h, NEW S, Linked(ds, h, S),
           \A e \in S : es[e].next = ds[e].next
    PROVE  Linked(es, h, S)
<1>1. PICK q \in Seq(Descs) : IsChain(ds, h, q) /\ ToSet(q) = S
  BY DEF Linked
<1>2. \A i \in 1 .. Len(q) : q[i] \in S
  BY <1>1, ToSetIs
<1>3. IsChain(es, h, q)
  BY <1>1, <1>2 DEF IsChain
<1>4. QED
  BY <1>1, <1>3 DEF Linked

\* The first of a chain is one of it, and no other if there is none.
LEMMA ChainFirst ==
    ASSUME NEW ds, NEW h, NEW S, Linked(ds, h, S)
    PROVE  /\ h = Null <=> S = {}
           /\ h # Null => h \in S
           /\ S \subseteq Descs
<1>1. PICK q \in Seq(Descs) : IsChain(ds, h, q) /\ ToSet(q) = S
  BY DEF Linked
<1>2. \A i \in 1 .. Len(q) : q[i] \in S /\ q[i] \in Descs /\ q[i] # Null
  BY <1>1, ChainFacts
<1>3. CASE q = <<>>
  <2>1. h = Null /\ Len(q) = 0
    BY <1>1, <1>3 DEF IsChain
  <2>2. \A e : e \notin S
    <3>1. \A e : e \in ToSet(q) <=> \E i \in 1 .. Len(q) : q[i] = e
      BY ToSetIs
    <3>2. \A i : i \notin 1 .. 0
      OBVIOUS
    <3>3. QED
      BY <1>1, <2>1, <3>1, <3>2
  <2>3. QED
    BY <2>1, <2>2
<1>4. CASE q # <<>>
  <2>1. h = q[1] /\ 1 \in 1 .. Len(q)
    BY <1>1, <1>4 DEF IsChain
  <2>2. \A e \in S : e \in Descs
    BY <1>1, <1>2, ToSetIs
  <2>3. QED
    BY <1>2, <2>1, <2>2
<1>5. QED
  BY <1>3, <1>4

\* A descriptor is put in front of a chain.
LEMMA ChainPush ==
    ASSUME NEW ds, NEW es, NEW h, NEW S, Linked(ds, h, S), NEW d \in Descs, d \notin S,
           es[d].next = h, \A e \in S : es[e].next = ds[e].next
    PROVE  Linked(es, d, S \cup {d})
<1>1. PICK q \in Seq(Descs) : IsChain(ds, h, q) /\ ToSet(q) = S
  BY DEF Linked
<1> DEFINE p == [i \in 1 .. Len(q) + 1 |-> IF i = 1 THEN d ELSE q[i - 1]]
<1>2. /\ \A i \in 1 .. Len(q) : q[i] \in S /\ q[i] \in Descs /\ q[i] # d
      /\ Len(q) \in Nat
      /\ IsInjective(q)
      /\ h = IF q = <<>> THEN Null ELSE q[1]
      /\ \A i \in 1 .. Len(q) : ds[q[i]].next = IF i = Len(q) THEN Null ELSE q[i + 1]
  BY <1>1, ToSetIs DEF IsChain
<1>3. p \in Seq(Descs) /\ Len(p) = Len(q) + 1
  BY <1>2
<1>4. p[1] = d /\ \A i \in 2 .. Len(p) : i - 1 \in 1 .. Len(q) /\ p[i] = q[i - 1]
  BY <1>2, <1>3
<1> HIDE DEF p
<1>5. IsInjective(p)
  BY <1>2, <1>3, <1>4 DEF IsInjective
<1>6. \A i \in 1 .. Len(p) : es[p[i]].next = IF i = Len(p) THEN Null ELSE p[i + 1]
  <2> SUFFICES ASSUME NEW i \in 1 .. Len(p)
               PROVE  es[p[i]].next = IF i = Len(p) THEN Null ELSE p[i + 1]
    OBVIOUS
  <2>1. CASE i = 1
    <3>1. es[p[i]].next = IF q = <<>> THEN Null ELSE q[1]
      BY <1>2, <1>4, <2>1
    <3>2. q = <<>> <=> i = Len(p)
      BY <1>2, <1>3, <2>1
    <3>3. CASE q = <<>>
      BY <3>1, <3>2, <3>3
    <3>4. CASE q # <<>>
      <4>1. 2 \in 2 .. Len(p)
        BY <1>2, <1>3, <2>1, <3>2, <3>4
      <4>2. p[i + 1] = q[1]
        BY <1>4, <2>1, <4>1
      <4>3. QED
        BY <3>1, <3>2, <3>4, <4>2
    <3>5. QED
      BY <3>3, <3>4
  <2>2. CASE i # 1
    <3>1. i \in 2 .. Len(p)
      BY <1>2, <1>3, <2>2
    <3>2. i - 1 \in 1 .. Len(q) /\ p[i] = q[i - 1]
      BY <1>4, <3>1
    <3>3. es[p[i]].next = IF i - 1 = Len(q) THEN Null ELSE q[i - 1 + 1]
      BY <1>2, <3>2
    <3>4. CASE i = Len(p)
      BY <1>2, <1>3, <3>3, <3>4
    <3>5. CASE i # Len(p)
      <4>1. i + 1 \in 2 .. Len(p) /\ (i + 1) - 1 = i /\ i - 1 + 1 = i /\ i - 1 # Len(q)
        BY <1>2, <1>3, <3>1, <3>5
      <4>2. p[i + 1] = q[i]
        BY <1>4, <4>1
      <4>3. QED
        BY <3>3, <3>5, <4>1, <4>2
    <3>6. QED
      BY <3>4, <3>5
  <2>3. QED
    BY <2>1, <2>2
<1>7. ToSet(p) = S \cup {d}
  <2>1. \A e : e \in ToSet(p) <=> \E i \in 1 .. Len(p) : p[i] = e
    BY <1>3, ToSetIs
  <2>2. \A e : e \in S <=> \E i \in 1 .. Len(q) : q[i] = e
    BY <1>1, ToSetIs
  <2>3. \A i \in 1 .. Len(q) : i + 1 \in 1 .. Len(p) /\ p[i + 1] = q[i]
    <3> SUFFICES ASSUME NEW i \in 1 .. Len(q) PROVE i + 1 \in 1 .. Len(p) /\ p[i + 1] = q[i]
      OBVIOUS
    <3>1. i + 1 \in 2 .. Len(p) /\ (i + 1) - 1 = i
      BY <1>2, <1>3
    <3>2. QED
      BY <1>4, <3>1
  <2>4. 1 \in 1 .. Len(p)
    BY <1>2, <1>3
  <2>5. \A e : e \in ToSet(p) => e \in S \cup {d}
    <3> SUFFICES ASSUME NEW e, NEW i \in 1 .. Len(p), p[i] = e PROVE e \in S \cup {d}
      BY <2>1
    <3>1. CASE i = 1
      BY <1>4, <3>1
    <3>2. CASE i # 1
      <4>1. i \in 2 .. Len(p)
        BY <1>2, <1>3, <3>2
      <4>2. QED
        BY <1>2, <1>4, <4>1
    <3>3. QED
      BY <3>1, <3>2
  <2>6. \A e : e \in S \cup {d} => e \in ToSet(p)
    <3>1. d \in ToSet(p)
      BY <1>4, <2>1, <2>4
    <3>2. ASSUME NEW e \in S PROVE e \in ToSet(p)
      <4>1. PICK i \in 1 .. Len(q) : q[i] = e
        BY <2>2
      <4>2. i + 1 \in 1 .. Len(p) /\ p[i + 1] = e
        BY <2>3, <4>1
      <4>3. QED
        BY <2>1, <4>2
    <3>3. QED
      BY <3>1, <3>2
  <2>7. QED
    BY <2>5, <2>6
<1>8. p # <<>>
  BY <1>2, <1>3
<1>9. IsChain(es, d, p)
  BY <1>3, <1>4, <1>5, <1>6, <1>8 DEF IsChain
<1>10. QED
  BY <1>3, <1>7, <1>9 DEF Linked

\* The first is taken out of a chain.
LEMMA ChainPop ==
    ASSUME NEW ds, NEW es, NEW h, NEW S, Linked(ds, h, S), h # Null,
           \A e \in S \ {h} : es[e].next = ds[e].next
    PROVE  Linked(es, ds[h].next, S \ {h})
<1>1. PICK q \in Seq(Descs) : IsChain(ds, h, q) /\ ToSet(q) = S
  BY DEF Linked
<1> DEFINE p == [i \in 1 .. Len(q) - 1 |-> q[i + 1]]
<1>2. /\ \A i \in 1 .. Len(q) : q[i] \in S /\ q[i] \in Descs
      /\ Len(q) \in Nat /\ Len(q) > 0 /\ q # <<>>
      /\ h = q[1]
      /\ \A i \in 1 .. Len(q) : ds[q[i]].next = IF i = Len(q) THEN Null ELSE q[i + 1]
      /\ \A i, j \in 1 .. Len(q) : q[i] = q[j] => i = j
  BY <1>1, ToSetIs DEF IsChain, IsInjective
<1>3. p \in Seq(Descs) /\ Len(p) = Len(q) - 1
  BY <1>2
<1>4. \A i \in 1 .. Len(p) : i + 1 \in 1 .. Len(q) /\ p[i] = q[i + 1] /\ i \in Nat
  BY <1>2, <1>3
<1> HIDE DEF p
<1>5. \A i \in 1 .. Len(p) : p[i] \in S \ {h}
  BY <1>2, <1>4
<1>6. IsInjective(p)
  <2> SUFFICES ASSUME NEW i \in 1 .. Len(p), NEW j \in 1 .. Len(p), p[i] = p[j] PROVE i = j
    BY <1>3 DEF IsInjective
  <2>1. i + 1 = j + 1
    BY <1>2, <1>4
  <2>2. QED
    BY <2>1
<1>7. \A i \in 1 .. Len(p) : es[p[i]].next = IF i = Len(p) THEN Null ELSE p[i + 1]
  <2> SUFFICES ASSUME NEW i \in 1 .. Len(p)
               PROVE  es[p[i]].next = IF i = Len(p) THEN Null ELSE p[i + 1]
    OBVIOUS
  <2>1. es[p[i]].next = IF i + 1 = Len(q) THEN Null ELSE q[i + 1 + 1]
    BY <1>2, <1>4, <1>5
  <2>2. i + 1 = Len(q) <=> i = Len(p)
    BY <1>2, <1>3, <1>4
  <2>3. CASE i = Len(p)
    BY <2>1, <2>2, <2>3
  <2>4. CASE i # Len(p)
    <3>1. i + 1 \in 1 .. Len(p)
      BY <1>2, <1>3, <1>4, <2>4
    <3>2. QED
      BY <1>4, <2>1, <2>2, <2>4, <3>1
  <2>5. QED
    BY <2>3, <2>4
<1>8. ds[h].next = IF p = <<>> THEN Null ELSE p[1]
  <2>1. ds[h].next = IF 1 = Len(q) THEN Null ELSE q[2]
    <3>1. 1 \in 1 .. Len(q) /\ 1 + 1 = 2
      BY <1>2
    <3>2. ds[q[1]].next = IF 1 = Len(q) THEN Null ELSE q[1 + 1]
      BY <1>2, <3>1
    <3>3. QED
      BY <1>2, <3>1, <3>2
  <2>2. CASE Len(q) = 1
    BY <1>3, <2>1, <2>2
  <2>3. CASE Len(q) # 1
    <3>1. 1 \in 1 .. Len(p) /\ p # <<>> /\ 1 + 1 = 2
      BY <1>2, <1>3, <2>3
    <3>2. QED
      BY <1>4, <2>1, <2>3, <3>1
  <2>4. QED
    BY <2>2, <2>3
<1>9. ToSet(p) = S \ {h}
  <2>1. \A e : e \in ToSet(p) <=> \E i \in 1 .. Len(p) : p[i] = e
    BY <1>3, ToSetIs
  <2>2. \A e : e \in S <=> \E i \in 1 .. Len(q) : q[i] = e
    BY <1>1, ToSetIs
  <2>3. ASSUME NEW e \in S, e # h PROVE e \in ToSet(p)
    <3>1. PICK i \in 1 .. Len(q) : q[i] = e
      BY <2>2, <2>3
    <3>2. i - 1 \in 1 .. Len(p) /\ (i - 1) + 1 = i
      BY <1>2, <1>3, <2>3, <3>1
    <3>3. p[i - 1] = e
      BY <1>4, <3>1, <3>2
    <3>4. QED
      BY <2>1, <3>2, <3>3
  <2>4. QED
    BY <1>5, <2>1, <2>3
<1>10. IsChain(es, ds[h].next, p)
  BY <1>3, <1>6, <1>7, <1>8 DEF IsChain
<1>11. QED
  BY <1>3, <1>9, <1>10 DEF Linked

\* One that comes after another is taken out of a chain.
LEMMA ChainUnlink ==
    ASSUME NEW ds, NEW es, NEW h, NEW S, Linked(ds, h, S), NEW e \in S, NEW d \in S,
           ds[e].next = d, es[e].next = ds[d].next,
           \A x \in S \ {d, e} : es[x].next = ds[x].next
    PROVE  Linked(es, h, S \ {d})
<1>1. PICK q \in Seq(Descs) : IsChain(ds, h, q) /\ ToSet(q) = S
  BY DEF Linked
<1>2. /\ \A i \in 1 .. Len(q) : q[i] \in S /\ q[i] \in Descs /\ q[i] # Null
      /\ Len(q) \in Nat
      /\ h = IF q = <<>> THEN Null ELSE q[1]
      /\ \A i \in 1 .. Len(q) : ds[q[i]].next = IF i = Len(q) THEN Null ELSE q[i + 1]
      /\ \A i, j \in 1 .. Len(q) : q[i] = q[j] => i = j
  BY <1>1, ChainFacts
<1>3. PICK k \in 1 .. Len(q) : q[k] = e
  BY <1>1, ToSetIs
<1>4. k + 1 \in 1 .. Len(q) /\ q[k + 1] = d /\ k \in Nat
  <2>1. PICK j \in 1 .. Len(q) : q[j] = d
    BY <1>1, ToSetIs
  <2>2. d = IF k = Len(q) THEN Null ELSE q[k + 1]
    BY <1>2, <1>3
  <2>3. k # Len(q)
    BY <1>2, <2>1, <2>2
  <2>4. QED
    BY <1>2, <2>2, <2>3
<1> DEFINE p == [i \in 1 .. Len(q) - 1 |-> IF i <= k THEN q[i] ELSE q[i + 1]]
           PlaceOf(i) == IF i <= k THEN i ELSE i + 1
<1>5. p \in Seq(Descs) /\ Len(p) = Len(q) - 1
  BY <1>2, <1>4
<1>6. \A i \in 1 .. Len(p) : PlaceOf(i) \in 1 .. Len(q) /\ p[i] = q[PlaceOf(i)] /\ i \in Nat /\ PlaceOf(i) # k + 1
  BY <1>2, <1>4, <1>5
<1> HIDE DEF p
<1>7. IsInjective(p)
  <2> SUFFICES ASSUME NEW i \in 1 .. Len(p), NEW j \in 1 .. Len(p), p[i] = p[j] PROVE i = j
    BY <1>5 DEF IsInjective
  <2>1. PlaceOf(i) = PlaceOf(j)
    BY <1>2, <1>6
  <2>2. i \in Nat /\ j \in Nat
    BY <1>6
  <2>3. QED
    BY <1>4, <2>1, <2>2
<1>8. \A i \in 1 .. Len(p) : p[i] \in S \ {d}
  BY <1>2, <1>4, <1>6
<1>9. \A i \in 1 .. Len(p) : es[p[i]].next = IF i = Len(p) THEN Null ELSE p[i + 1]
  <2> SUFFICES ASSUME NEW i \in 1 .. Len(p)
               PROVE  es[p[i]].next = IF i = Len(p) THEN Null ELSE p[i + 1]
    OBVIOUS
  <2>1. CASE i = k
    <3>1. p[i] = e
      BY <1>3, <1>6, <2>1, <1>4
    <3>2. es[p[i]].next = IF k + 1 = Len(q) THEN Null ELSE q[k + 1 + 1]
      BY <1>2, <1>4, <3>1
    <3>3. k + 1 = Len(q) <=> i = Len(p)
      BY <1>2, <1>4, <1>5, <2>1
    <3>4. CASE i = Len(p)
      BY <3>2, <3>3, <3>4
    <3>5. CASE i # Len(p)
      <4>1. i + 1 \in 1 .. Len(p) /\ PlaceOf(i + 1) = k + 1 + 1
        BY <1>2, <1>4, <1>5, <2>1, <3>5
      <4>2. QED
        BY <1>6, <3>2, <3>3, <3>5, <4>1
    <3>6. QED
      BY <3>4, <3>5
  <2>2. CASE i # k
    <3>1. p[i] \in S \ {d} /\ p[i] # e
      BY <1>2, <1>3, <1>4, <1>6, <1>8, <2>2
    <3>2. es[p[i]].next = IF PlaceOf(i) = Len(q) THEN Null ELSE q[PlaceOf(i) + 1]
      <4> HIDE DEF PlaceOf
      <4>1. PlaceOf(i) \in 1 .. Len(q) /\ p[i] = q[PlaceOf(i)]
        BY <1>6
      <4>2. es[p[i]].next = ds[q[PlaceOf(i)]].next
        BY <3>1, <4>1
      <4>3. ds[q[PlaceOf(i)]].next = IF PlaceOf(i) = Len(q) THEN Null ELSE q[PlaceOf(i) + 1]
        BY <1>2, <4>1
      <4>4. QED
        BY <4>2, <4>3
    <3>3. PlaceOf(i) = Len(q) <=> i = Len(p)
      BY <1>2, <1>4, <1>5, <1>6, <2>2
    <3>4. CASE i = Len(p)
      BY <3>2, <3>3, <3>4
    <3>5. CASE i # Len(p)
      <4>1. i + 1 \in 1 .. Len(p) /\ PlaceOf(i + 1) = PlaceOf(i) + 1
        BY <1>2, <1>4, <1>5, <1>6, <2>2, <3>5
      <4>2. QED
        BY <1>6, <3>2, <3>3, <3>5, <4>1
    <3>6. QED
      BY <3>4, <3>5
  <2>3. QED
    BY <2>1, <2>2
<1>10. h = IF p = <<>> THEN Null ELSE p[1]
  <2>1. 1 \in 1 .. Len(p) /\ PlaceOf(1) = 1 /\ p # <<>> /\ q # <<>>
    BY <1>2, <1>4, <1>5
  <2>2. QED
    BY <1>2, <1>6, <2>1
<1>11. ToSet(p) = S \ {d}
  <2>1. \A x : x \in ToSet(p) <=> \E i \in 1 .. Len(p) : p[i] = x
    BY <1>5, ToSetIs
  <2>2. \A x : x \in S <=> \E i \in 1 .. Len(q) : q[i] = x
    BY <1>1, ToSetIs
  <2>3. ASSUME NEW x \in S, x # d PROVE x \in ToSet(p)
    <3>1. PICK i \in 1 .. Len(q) : q[i] = x
      BY <2>2, <2>3
    <3>2. i # k + 1 /\ i \in Nat
      BY <1>4, <2>3, <3>1
    <3>3. CASE i <= k
      <4>1. i \in 1 .. Len(p) /\ PlaceOf(i) = i
        BY <1>2, <1>4, <1>5, <3>2, <3>3
      <4>2. QED
        BY <1>6, <2>1, <3>1, <4>1
    <3>4. CASE ~(i <= k)
      <4>1. i - 1 \in 1 .. Len(p) /\ PlaceOf(i - 1) = i
        BY <1>2, <1>4, <1>5, <3>2, <3>4
      <4>2. QED
        BY <1>6, <2>1, <3>1, <4>1
    <3>5. QED
      BY <3>3, <3>4
  <2>4. QED
    BY <1>8, <2>1, <2>3
<1>12. IsChain(es, h, p)
  BY <1>5, <1>7, <1>9, <1>10 DEF IsChain
<1>13. QED
  BY <1>5, <1>11, <1>12 DEF Linked

\* One that comes after no other is the first.
LEMMA ChainHead ==
    ASSUME NEW ds, NEW h, NEW S, Linked(ds, h, S), NEW d \in S, \A e \in S : ds[e].next # d
    PROVE  h = d
<1>1. PICK q \in Seq(Descs) : IsChain(ds, h, q) /\ ToSet(q) = S
  BY DEF Linked
<1>2. PICK k \in 1 .. Len(q) : q[k] = d
  BY <1>1, ToSetIs
<1>3. Len(q) \in Nat /\ q # <<>>
  BY <1>2
<1>4. CASE k = 1
  BY <1>1, <1>2, <1>3, <1>4 DEF IsChain
<1>5. CASE k # 1
  <2>1. k - 1 \in 1 .. Len(q) /\ k - 1 # Len(q) /\ (k - 1) + 1 = k
    BY <1>2, <1>3, <1>5
  <2>2. ds[q[k - 1]].next = q[k]
    BY <1>1, <2>1 DEF IsChain
  <2>3. q[k - 1] \in S
    BY <1>1, <2>1, ToSetIs
  <2>4. QED
    BY <1>2, <2>2, <2>3
<1>6. QED
  BY <1>4, <1>5

\* The descriptors of a range, each the next of the one before.
LEMMA ChainRange ==
    ASSUME NEW ds, NEW a \in Nat, NEW b \in Nat, a >= 1, a <= b + 1, b <= MaxDescs,
           \A e \in a .. b : ds[e].next = IF e = b THEN Null ELSE e + 1
    PROVE  Linked(ds, IF a <= b THEN a ELSE Null, a .. b)
<1> DEFINE p == [i \in 1 .. b + 1 - a |-> a + i - 1]
<1>1. MaxDescs \in Nat
  BY MallocAssumption
<1>2. \A i \in 1 .. b + 1 - a : a + i - 1 \in a .. b
  OBVIOUS
<1>3. a .. b \subseteq Descs
  BY <1>1 DEF Descs
<1>4. p \in Seq(Descs) /\ Len(p) = b + 1 - a
  <2>1. \A i \in 1 .. b + 1 - a : a + i - 1 \in Descs
    BY <1>2, <1>3
  <2>2. b + 1 - a \in Nat
    OBVIOUS
  <2>3. QED
    BY <2>1, <2>2
<1>5. \A i \in 1 .. Len(p) : p[i] = a + i - 1 /\ i \in Nat
  BY <1>4
<1> HIDE DEF p
<1>6. IsInjective(p)
  BY <1>4, <1>5 DEF IsInjective
<1>7. \A i \in 1 .. Len(p) : ds[p[i]].next = IF i = Len(p) THEN Null ELSE p[i + 1]
  <2> SUFFICES ASSUME NEW i \in 1 .. Len(p)
               PROVE  ds[p[i]].next = IF i = Len(p) THEN Null ELSE p[i + 1]
    OBVIOUS
  <2>1. p[i] \in a .. b /\ p[i] = a + i - 1
    BY <1>2, <1>4, <1>5
  <2>2. p[i] = b <=> i = Len(p)
    BY <1>4, <1>5, <2>1
  <2>3. i # Len(p) => i + 1 \in 1 .. Len(p) /\ p[i + 1] = p[i] + 1
    BY <1>4, <1>5, <2>1
  <2>4. QED
    BY <2>1, <2>2, <2>3
<1>8. ToSet(p) = a .. b
  <2>1. \A e : e \in ToSet(p) <=> \E i \in 1 .. Len(p) : p[i] = e
    BY <1>4, ToSetIs
  <2>2. \A e \in a .. b : e + 1 - a \in 1 .. Len(p) /\ a + (e + 1 - a) - 1 = e
    BY <1>4
  <2>3. \A e \in a .. b : e \in ToSet(p)
    BY <1>5, <2>1, <2>2
  <2>4. \A e \in ToSet(p) : e \in a .. b
    <3> SUFFICES ASSUME NEW i \in 1 .. Len(p) PROVE p[i] \in a .. b
      BY <2>1
    <3>1. i \in 1 .. b + 1 - a /\ p[i] = a + i - 1
      BY <1>4, <1>5
    <3>2. QED
      BY <1>2, <3>1
  <2>5. QED
    BY <2>3, <2>4
<1>9. (IF a <= b THEN a ELSE Null) = IF p = <<>> THEN Null ELSE p[1]
  <2>1. CASE a <= b
    <3>1. 1 \in 1 .. Len(p) /\ p # <<>>
      BY <1>4, <2>1
    <3>2. QED
      BY <1>5, <2>1, <3>1
  <2>2. CASE ~(a <= b)
    <3>1. Len(p) = 0
      BY <1>4, <2>2
    <3>2. QED
      BY <1>4, <2>2, <3>1
  <2>3. QED
    BY <2>1, <2>2
<1>10. IsChain(ds, IF a <= b THEN a ELSE Null, p)
  BY <1>4, <1>6, <1>7, <1>9 DEF IsChain
<1>11. QED
  BY <1>4, <1>8, <1>10 DEF Linked

-----------------------------------------------------------------------------
(* The allocator: objects *)

Objs == [page : PageNumbers, place : Nat, size : Sizes]

\* The objects of o that are in the page of the descriptor r.
Mine(r, o) == {x \in o : x.page = r.page}

\* r describes a page of objects of the size s, of which those in o are used.
PageFits(s, r, o) ==
    /\ r.page \in PageNumbers
    /\ r.free \in Seq(1 .. PerPage[s]) /\ IsInjective(r.free)
    /\ r.refcnt \in Nat /\ r.refcnt = Cardinality(Mine(r, o)) /\ r.refcnt + Len(r.free) = PerPage[s]
    /\ \A x \in Mine(r, o) : x.size = s
    /\ {x.place : x \in Mine(r, o)} = (1 .. PerPage[s]) \ ToSet(r.free)

\* A page has objects.
LEMMA PlacesAre ==
    ASSUME NEW s \in Sizes
    PROVE  PerPage[s] \in Nat \ {0} /\ 1 .. PerPage[s] \subseteq Nat
BY MallocAssumption

\* What is left of a sequence without its first.
LEMMA TailIs ==
    ASSUME NEW P, NEW q \in Seq(P), q # <<>>, IsInjective(q)
    PROVE  /\ Tail(q) \in Seq(P) /\ IsInjective(Tail(q)) /\ Len(Tail(q)) = Len(q) - 1
           /\ Head(q) \in P /\ Head(q) \in ToSet(q)
           /\ ToSet(Tail(q)) = ToSet(q) \ {Head(q)}
<1>1. Len(q) \in Nat /\ Len(q) > 0 /\ Head(q) = q[1] /\ 1 \in 1 .. Len(q) /\ DOMAIN q = 1 .. Len(q)
  BY HeadTailProperties
<1>2. Tail(q) \in Seq(P) /\ Len(Tail(q)) = Len(q) - 1
  BY HeadTailProperties
<1>3. \A i \in 1 .. Len(q) - 1 : Tail(q)[i] = q[i + 1] /\ i + 1 \in 1 .. Len(q) /\ i \in Nat
  BY <1>1
<1>4. DOMAIN Tail(q) = 1 .. Len(q) - 1
  BY <1>2
<1>5. \A i, j \in 1 .. Len(q) : q[i] = q[j] => i = j
  BY <1>1 DEF IsInjective
<1> DEFINE t == Tail(q)
<1> HIDE DEF t
<1>6. t = Tail(q)
  BY DEF t
<1>7. IsInjective(t)
  <2> SUFFICES ASSUME NEW i \in 1 .. Len(q) - 1, NEW j \in 1 .. Len(q) - 1, t[i] = t[j] PROVE i = j
    BY <1>4, <1>6 DEF IsInjective
  <2>1. i + 1 = j + 1
    BY <1>3, <1>5, <1>6
  <2>2. QED
    BY <1>3, <2>1
<1>8. \A e : e \in ToSet(t) <=> \E i \in 1 .. Len(q) - 1 : t[i] = e
  BY <1>4, <1>6 DEF ToSet
<1>9. \A e : e \in ToSet(q) <=> \E i \in 1 .. Len(q) : q[i] = e
  BY <1>1 DEF ToSet
<1>10. ASSUME NEW e \in ToSet(t) PROVE e \in ToSet(q) \ {q[1]}
  <2>1. PICK i \in 1 .. Len(q) - 1 : t[i] = e
    BY <1>8
  <2>2. e = q[i + 1] /\ i + 1 \in 1 .. Len(q) /\ i + 1 # 1
    BY <1>3, <1>6, <2>1
  <2>3. QED
    BY <1>1, <1>5, <1>9, <2>2
<1>11. ASSUME NEW e \in ToSet(q) \ {q[1]} PROVE e \in ToSet(t)
  <2>1. PICK i \in 1 .. Len(q) : q[i] = e
    BY <1>9
  <2>2. i - 1 \in 1 .. Len(q) - 1 /\ (i - 1) + 1 = i
    BY <1>1, <2>1
  <2>3. t[i - 1] = e
    BY <1>3, <1>6, <2>1, <2>2
  <2>4. QED
    BY <1>8, <2>2, <2>3
<1>12. ToSet(t) = ToSet(q) \ {q[1]}
  BY <1>10, <1>11
<1>13. QED
  BY <1>1, <1>2, <1>6, <1>7, <1>9, <1>12

\* A sequence with one more before it.
LEMMA ConsIs ==
    ASSUME NEW P, NEW q \in Seq(P), IsInjective(q), NEW x \in P, x \notin ToSet(q)
    PROVE  /\ <<x>> \o q \in Seq(P) /\ IsInjective(<<x>> \o q) /\ Len(<<x>> \o q) = Len(q) + 1
           /\ ToSet(<<x>> \o q) = ToSet(q) \cup {x}
<1> DEFINE t == <<x>> \o q
<1>1. t \in Seq(P) /\ Len(t) = Len(q) + 1 /\ Len(q) \in Nat
  OBVIOUS
<1>2. t[1] = x /\ \A i \in 2 .. Len(q) + 1 : t[i] = q[i - 1] /\ i - 1 \in 1 .. Len(q)
  BY <1>1
<1>3. DOMAIN t = 1 .. Len(q) + 1 /\ DOMAIN q = 1 .. Len(q)
  BY <1>1
<1> HIDE DEF t
<1>4. \A i, j \in 1 .. Len(q) : q[i] = q[j] => i = j
  BY <1>3 DEF IsInjective
<1>5. \A i \in 1 .. Len(q) : q[i] # x
  BY <1>3 DEF ToSet
<1>6. IsInjective(t)
  <2> SUFFICES ASSUME NEW i \in 1 .. Len(q) + 1, NEW j \in 1 .. Len(q) + 1, t[i] = t[j] PROVE i = j
    BY <1>3 DEF IsInjective
  <2>1. i = 1 \/ i \in 2 .. Len(q) + 1
    BY <1>1
  <2>2. j = 1 \/ j \in 2 .. Len(q) + 1
    BY <1>1
  <2>3. CASE i = 1 \/ j = 1
    BY <1>2, <1>5, <2>1, <2>2, <2>3
  <2>4. CASE i # 1 /\ j # 1
    <3>1. i - 1 = j - 1
      BY <1>2, <1>4, <2>1, <2>2, <2>4
    <3>2. QED
      BY <3>1
  <2>5. QED
    BY <2>3, <2>4
<1>7. \A e : e \in ToSet(t) <=> \E i \in 1 .. Len(q) + 1 : t[i] = e
  BY <1>3 DEF ToSet
<1>8. \A e : e \in ToSet(q) <=> \E i \in 1 .. Len(q) : q[i] = e
  BY <1>3 DEF ToSet
<1>9. ASSUME NEW e \in ToSet(q) PROVE e \in ToSet(t)
  <2>1. PICK i \in 1 .. Len(q) : q[i] = e
    BY <1>8
  <2>2. i + 1 \in 2 .. Len(q) + 1 /\ (i + 1) - 1 = i /\ i + 1 \in 1 .. Len(q) + 1
    BY <1>1
  <2>3. t[i + 1] = e
    BY <1>2, <2>1, <2>2
  <2>4. QED
    BY <1>7, <2>2, <2>3
<1>10. ASSUME NEW e \in ToSet(t) PROVE e \in ToSet(q) \cup {x}
  <2>1. PICK i \in 1 .. Len(q) + 1 : t[i] = e
    BY <1>7
  <2>2. CASE i = 1
    BY <1>2, <2>1, <2>2
  <2>3. CASE i # 1
    <3>1. i \in 2 .. Len(q) + 1
      BY <1>1, <2>3
    <3>2. QED
      BY <1>2, <1>8, <2>1, <3>1
  <2>4. QED
    BY <2>2, <2>3
<1>11. x \in ToSet(t)
  <2>1. 1 \in 1 .. Len(q) + 1
    BY <1>1
  <2>2. QED
    BY <1>2, <1>7, <2>1
<1>12. ToSet(t) = ToSet(q) \cup {x}
  BY <1>9, <1>10, <1>11
<1>13. QED
  BY <1>1, <1>6, <1>12 DEF t

\* The first free object is given out.
LEMMA GiveFits ==
    ASSUME NEW s \in Sizes, NEW o, o \subseteq Objs, IsFiniteSet(o), NEW r, PageFits(s, r, o), r.free # <<>>,
           NEW r2, r2.page = r.page, r2.free = Tail(r.free), r2.refcnt = r.refcnt + 1,
           NEW x, x = [page |-> r.page, place |-> Head(r.free), size |-> s]
    PROVE  x \in Objs /\ PageFits(s, r2, o \cup {x}) /\ r2.refcnt # 0
<1>1. /\ r2.free \in Seq(1 .. PerPage[s]) /\ IsInjective(r2.free) /\ Len(r2.free) = Len(r.free) - 1
      /\ x.place \in 1 .. PerPage[s] /\ x.place \in ToSet(r.free)
      /\ ToSet(r2.free) = ToSet(r.free) \ {x.place}
  <2> DEFINE q == r.free
             P == 1 .. PerPage[s]
  <2>1. q \in Seq(P) /\ IsInjective(q) /\ q # <<>>
    BY DEF PageFits
  <2>2. x.place = Head(q) /\ r2.free = Tail(q)
    OBVIOUS
  <2> HIDE DEF q, P
  <2>3. /\ Tail(q) \in Seq(P) /\ IsInjective(Tail(q)) /\ Len(Tail(q)) = Len(q) - 1
        /\ Head(q) \in P /\ Head(q) \in ToSet(q)
        /\ ToSet(Tail(q)) = ToSet(q) \ {Head(q)}
    BY <2>1, TailIs
  <2>4. /\ r2.free \in Seq(P) /\ IsInjective(r2.free) /\ Len(r2.free) = Len(q) - 1
        /\ x.place \in P /\ x.place \in ToSet(q) /\ ToSet(r2.free) = ToSet(q) \ {x.place}
    BY <2>2, <2>3
  <2>5. QED
    BY <2>4 DEF q, P
<1>2. x \in Objs /\ x.page = r.page /\ x.size = s
  BY <1>1, PlacesAre DEF Objs, PageFits
<1>3. Mine(r2, o \cup {x}) = Mine(r, o) \cup {x}
  BY <1>2 DEF Mine
<1>4. x \notin Mine(r, o)
  BY <1>1 DEF PageFits
<1>5. IsFiniteSet(Mine(r, o))
  BY FS_Subset DEF Mine
<1>6. Cardinality(Mine(r, o) \cup {x}) = Cardinality(Mine(r, o)) + 1
  BY <1>4, <1>5, FS_AddElement
<1>7. {y.place : y \in Mine(r, o) \cup {x}} = {y.place : y \in Mine(r, o)} \cup {x.place}
  OBVIOUS
<1>8. {y.place : y \in Mine(r2, o \cup {x})} = (1 .. PerPage[s]) \ ToSet(r2.free)
  BY <1>1, <1>3, <1>7 DEF PageFits
<1>9. /\ r2.refcnt \in Nat /\ r2.refcnt # 0 /\ r2.refcnt = Cardinality(Mine(r2, o \cup {x}))
      /\ r2.refcnt + Len(r2.free) = PerPage[s]
  <2> DEFINE n == Len(r.free)
             m == Len(r2.free)
             c == Cardinality(Mine(r, o))
             k == PerPage[s]
  <2>1. r.refcnt \in Nat /\ r.refcnt = c /\ r.refcnt + n = k /\ n \in Nat
    BY DEF PageFits
  <2>2. m = n - 1
    BY <1>1
  <2>3. Cardinality(Mine(r2, o \cup {x})) = c + 1
    BY <1>3, <1>6
  <2> HIDE DEF n, m, c, k
  <2>4. /\ r2.refcnt \in Nat /\ r2.refcnt # 0 /\ r2.refcnt = Cardinality(Mine(r2, o \cup {x}))
        /\ r2.refcnt + m = k
    BY <2>1, <2>2, <2>3
  <2>5. QED
    BY <2>4 DEF m, k
<1>10. \A y \in Mine(r2, o \cup {x}) : y.size = s
  BY <1>2, <1>3 DEF PageFits
<1>11. QED
  BY <1>1, <1>2, <1>8, <1>9, <1>10 DEF PageFits

\* The free objects of r with x before them.
FreeWith(r, x) == <<x.place>> \o r.free

\* An object that is used is free again.
LEMMA TakeBackFits ==
    ASSUME NEW s \in Sizes, NEW o, o \subseteq Objs, IsFiniteSet(o), NEW r, PageFits(s, r, o),
           NEW x \in o, x.page = r.page,
           NEW r2, r2.page = r.page, r2.free = FreeWith(r, x), r2.refcnt = r.refcnt - 1
    PROVE  PageFits(s, r2, o \ {x}) /\ r2.refcnt = Cardinality(Mine(r, o) \ {x}) /\ r.refcnt # 0
<1>1. x \in Mine(r, o) /\ x \in Objs
  BY DEF Mine
<1>2. x.place \in (1 .. PerPage[s]) \ ToSet(r.free)
  BY <1>1 DEF PageFits
<1>3. /\ r2.free \in Seq(1 .. PerPage[s]) /\ IsInjective(r2.free) /\ Len(r2.free) = Len(r.free) + 1
      /\ ToSet(r2.free) = ToSet(r.free) \cup {x.place}
  <2> DEFINE q == r.free
             P == 1 .. PerPage[s]
             y == x.place
  <2>1. q \in Seq(P) /\ IsInjective(q) /\ y \in P /\ y \notin ToSet(q)
    BY <1>2 DEF PageFits
  <2>2. r2.free = <<y>> \o q
    BY DEF FreeWith
  <2> HIDE DEF q, P, y
  <2>3. /\ <<y>> \o q \in Seq(P) /\ IsInjective(<<y>> \o q) /\ Len(<<y>> \o q) = Len(q) + 1
        /\ ToSet(<<y>> \o q) = ToSet(q) \cup {y}
    BY <2>1, ConsIs
  <2>4. /\ r2.free \in Seq(P) /\ IsInjective(r2.free) /\ Len(r2.free) = Len(q) + 1
        /\ ToSet(r2.free) = ToSet(q) \cup {y}
    BY <2>2, <2>3
  <2>5. QED
    BY <2>4 DEF q, P, y
<1>4. Mine(r2, o \ {x}) = Mine(r, o) \ {x}
  BY DEF Mine
<1>5. IsFiniteSet(Mine(r, o))
  BY FS_Subset DEF Mine
<1>6. Cardinality(Mine(r, o) \ {x}) = Cardinality(Mine(r, o)) - 1
  BY <1>1, <1>5, FS_RemoveElement
<1>7. \A y \in Mine(r, o) : y.place = x.place => y = x
  <2> SUFFICES ASSUME NEW y \in Mine(r, o), y.place = x.place PROVE y = x
    OBVIOUS
  <2>1. y \in Objs /\ y.page = x.page
    BY <1>1 DEF Mine
  <2>2. y.size = x.size
    BY <1>1 DEF PageFits
  <2>3. QED
    BY <1>1, <2>1, <2>2 DEF Objs
<1>8. {y.place : y \in Mine(r, o) \ {x}} = {y.place : y \in Mine(r, o)} \ {x.place}
  BY <1>7
<1>9. {y.place : y \in Mine(r2, o \ {x})} = (1 .. PerPage[s]) \ ToSet(r2.free)
  BY <1>3, <1>4, <1>8 DEF PageFits
<1>10. IsFiniteSet(Mine(r, o) \ {x})
  BY <1>5, FS_RemoveElement
<1>11. Cardinality(Mine(r, o) \ {x}) \in Nat
  BY <1>10, FS_CardinalityType
<1>12. /\ r2.refcnt \in Nat /\ r2.refcnt = Cardinality(Mine(r, o) \ {x}) /\ r.refcnt # 0
       /\ r2.refcnt + Len(r2.free) = PerPage[s]
  <2> DEFINE n == Len(r.free)
             m == Len(r2.free)
             c == Cardinality(Mine(r, o))
             b == Cardinality(Mine(r, o) \ {x})
             k == PerPage[s]
  <2>1. r.refcnt \in Nat /\ r.refcnt = c /\ r.refcnt + n = k /\ n \in Nat
    BY DEF PageFits
  <2>2. m = n + 1
    BY <1>3
  <2>3. b = c - 1 /\ b \in Nat
    BY <1>6, <1>11
  <2> HIDE DEF n, m, c, b, k
  <2>4. r2.refcnt \in Nat /\ r2.refcnt = b /\ r.refcnt # 0 /\ r2.refcnt + m = k
    BY <2>1, <2>2, <2>3
  <2>5. QED
    BY <2>4 DEF m, b, k
<1>13. \A y \in Mine(r2, o \ {x}) : y.size = s
  BY <1>4 DEF PageFits
<1>14. QED
  BY <1>3, <1>4, <1>9, <1>12, <1>13 DEF PageFits

-----------------------------------------------------------------------------
(* The allocator: its invariant *)

Chains == [Sizes -> SUBSET Descs]

\* With the descriptors ds, of which n are made, the chains that begin with ch have the
\* descriptors C, and the list that begins with fb has F: every one that is made once.
Lists(ch, fb, ds, n, C, F) ==
    /\ \A s \in Sizes : Linked(ds, ch[s], C[s])
    /\ Linked(ds, fb, F)
    /\ \A s, t \in Sizes : s # t => C[s] \cap C[t] = {}
    /\ \A s \in Sizes : C[s] \cap F = {}
    /\ F \cup UNION {C[s] : s \in Sizes} = 1 .. n
    /\ \A d \in Descs : d > n => ds[d].next = Null

\* The objects o are used in the pages of the chains C; the page of new may still have none.
HoldsBut(ds, C, o, new) ==
    /\ IsFiniteSet(o) /\ o \subseteq Objs
    /\ \A x \in o : \E s \in Sizes : \E d \in C[s] : ds[d].page = x.page
    /\ \A s, t \in Sizes : \A d \in C[s], e \in C[t] : ds[d].page = ds[e].page => d = e
    /\ \A s \in Sizes : \A d \in C[s] : PageFits(s, ds[d], o) /\ (d # new => ds[d].refcnt # 0)

Holds(ds, C, o) == HoldsBut(ds, C, o, Null)

\* What free_s() has found: the one before it may have got others in front of it.
Found(fz, ds, C, o) ==
    fz.d # Null => /\ fz.obj \in o /\ fz.size \in Sizes /\ fz.d \in C[fz.size]
                   /\ ds[fz.d].page = fz.obj.page
                   /\ fz.prev \in C[fz.size] \cup {Null}

MallocTypes ==
    /\ chain \in [Sizes -> Descs \cup {Null}] /\ free_bucket_desc \in Descs \cup {Null}
    /\ desc \in [Descs -> Linkeds] /\ made \in 0 .. MaxDescs

\* The inductive invariant.
MallocInv ==
    /\ MallocTypes
    /\ \E C \in Chains, F \in SUBSET Descs :
          /\ Lists(chain, free_bucket_desc, desc, made, C, F)
          /\ Holds(desc, C, out)
          /\ Found(freeing, desc, C, out)

\* A page that has objects may have none.
LEMMA HoldsWeaker ==
    ASSUME NEW ds, NEW C \in Chains, NEW o, NEW d, Holds(ds, C, o)
    PROVE  HoldsBut(ds, C, o, d)
<1>1. \A s \in Sizes : \A e \in C[s] : e # Null
  BY DEF Chains, Descs, Null
<1>2. QED
  BY <1>1 DEF Holds, HoldsBut

\* The descriptors when the first object of d has been given out, the object, and the objects with it.
Given(ds, d)       == [ds EXCEPT ![d].free = Tail(@), ![d].refcnt = @ + 1]
FirstOf(ds, d, s)  == [page |-> ds[d].page, place |-> Head(ds[d].free), size |-> s]
Used(o, ds, d, s)  == o \cup {FirstOf(ds, d, s)}

\* An object is given out: the descriptors stay where they are.
LEMMA GiveKeeps ==
    ASSUME NEW ds \in [Descs -> Linkeds], NEW C \in Chains, NEW o, NEW s \in Sizes, NEW d \in C[s],
           \A t \in Sizes : t # s => C[t] \cap C[s] = {}, HoldsBut(ds, C, o, d), ds[d].free # <<>>,
           NEW es, es = Given(ds, d), NEW p, p = Used(o, ds, d, s)
    PROVE  /\ es \in [Descs -> Linkeds]
           /\ Holds(es, C, p)
           /\ \A e \in Descs : es[e].next = ds[e].next /\ es[e].page = ds[e].page
<1> USE DEF Given, FirstOf, Used
<1> DEFINE x == [page |-> ds[d].page, place |-> Head(ds[d].free), size |-> s]
<1>1. d \in Descs /\ d # Null
  BY DEF Chains, Descs, Null
<1>2. ds[d] \in Linkeds
  BY <1>1
<1>3. /\ es[d].page = ds[d].page /\ es[d].next = ds[d].next
      /\ es[d].free = Tail(ds[d].free) /\ es[d].refcnt = ds[d].refcnt + 1
  BY <1>1, <1>2 DEF Linkeds
<1>4. \A e \in Descs : e # d => es[e] = ds[e]
  OBVIOUS
<1>5. o \subseteq Objs /\ IsFiniteSet(o) /\ PageFits(s, ds[d], o)
  BY DEF HoldsBut
<1>6. p = o \cup {x}
  OBVIOUS
<1>7. x \in Objs /\ PageFits(s, es[d], p) /\ es[d].refcnt # 0
  <2> DEFINE r == ds[d]
             r2 == es[d]
  <2>1. /\ r2.page = r.page /\ r2.free = Tail(r.free) /\ r2.refcnt = r.refcnt + 1
        /\ x = [page |-> r.page, place |-> Head(r.free), size |-> s] /\ r.free # <<>> /\ PageFits(s, r, o)
    BY <1>3, <1>5
  <2> HIDE DEF r, r2, x
  <2>2. x \in Objs /\ PageFits(s, r2, o \cup {x}) /\ r2.refcnt # 0
    BY <1>5, <2>1, GiveFits, ZenonT(60)
  <2>3. QED
    BY <1>6, <2>2 DEF r2
<1>8. es \in [Descs -> Linkeds]
  <2>1. es[d] \in Linkeds
    <3>1. PageFits(s, es[d], p) /\ es[d] = [ds[d] EXCEPT !.free = Tail(ds[d].free), !.refcnt = ds[d].refcnt + 1]
      BY <1>1, <1>7
    <3>2. es[d].free \in Seq(Nat) /\ es[d].refcnt \in Nat
      <4>1. es[d].free \in Seq(1 .. PerPage[s]) /\ es[d].refcnt \in Nat
        BY <3>1 DEF PageFits
      <4>2. 1 .. PerPage[s] \subseteq Nat
        BY PlacesAre
      <4> DEFINE f == es[d].free
                 P == 1 .. PerPage[s]
      <4>3. f \in Seq(P) /\ P \subseteq Nat
        BY <4>1, <4>2
      <4> HIDE DEF f, P
      <4>4. f \in Seq(Nat)
        BY <4>3
      <4>5. QED
        BY <4>1, <4>4 DEF f
    <3>3. es[d] = [page |-> ds[d].page, next |-> ds[d].next, free |-> es[d].free, refcnt |-> es[d].refcnt]
      BY <1>2, <3>1 DEF Linkeds
    <3>4. QED
      BY <1>2, <3>2, <3>3 DEF Linkeds
  <2>2. \A e \in Descs : es[e] \in Linkeds
    BY <1>4, <2>1
  <2>3. QED
    BY <2>2
<1>9. \A e \in Descs : es[e].next = ds[e].next /\ es[e].page = ds[e].page
  BY <1>3, <1>4
<1>10. \A t \in Sizes : C[t] \subseteq Descs
  BY DEF Chains
<1>11. Holds(es, C, p)
  <2>1. IsFiniteSet(p) /\ p \subseteq Objs
    BY <1>5, <1>6, <1>7, FS_AddElement
  <2>2. \A y \in p : \E t \in Sizes : \E e \in C[t] : es[e].page = y.page
    <3> SUFFICES ASSUME NEW y \in p PROVE \E t \in Sizes : \E e \in C[t] : es[e].page = y.page
      OBVIOUS
    <3>1. CASE y \in o
      <4>1. PICK t \in Sizes : \E e \in C[t] : ds[e].page = y.page
        BY <3>1 DEF HoldsBut
      <4>2. QED
        BY <1>9, <1>10, <4>1
    <3>2. CASE y = x
      BY <1>3, <3>2
    <3>3. QED
      BY <1>6, <3>1, <3>2
  <2>3. \A t, u \in Sizes : \A e \in C[t], f \in C[u] : es[e].page = es[f].page => e = f
    BY <1>9, <1>10 DEF HoldsBut
  <2>4. \A t \in Sizes : \A e \in C[t] : PageFits(t, es[e], p) /\ es[e].refcnt # 0
    <3> SUFFICES ASSUME NEW t \in Sizes, NEW e \in C[t] PROVE PageFits(t, es[e], p) /\ es[e].refcnt # 0
      OBVIOUS
    <3>1. CASE e = d
      <4>1. t = s
        BY <3>1
      <4>2. QED
        BY <1>7, <3>1, <4>1
    <3>2. CASE e # d
      <4>1. PageFits(t, ds[e], o) /\ ds[e].refcnt # 0 /\ es[e] = ds[e]
        BY <1>4, <1>10, <3>2 DEF HoldsBut
      <4>2. ds[e].page # x.page
        BY <3>2 DEF HoldsBut
      <4>3. Mine(es[e], p) = Mine(ds[e], o)
        BY <1>6, <4>1, <4>2 DEF Mine
      <4>4. es[e].page = ds[e].page /\ es[e].free = ds[e].free /\ es[e].refcnt = ds[e].refcnt
        BY <4>1, Zenon
      <4>5. PageFits(t, es[e], p)
        BY <4>1, <4>3, <4>4 DEF PageFits
      <4>6. QED
        BY <4>1, <4>4, <4>5
    <3>3. QED
      BY <3>1, <3>2
  <2>5. QED
    BY <2>1, <2>2, <2>3, <2>4 DEF Holds, HoldsBut
<1>12. QED
  BY <1>8, <1>9, <1>11

\* The lists depend on the nexts of the descriptors.
LEMMA ListsSame ==
    ASSUME NEW ch, NEW fb, NEW ds, NEW es, NEW n, NEW C \in Chains, NEW F \in SUBSET Descs,
           Lists(ch, fb, ds, n, C, F), \A d \in Descs : es[d].next = ds[d].next
    PROVE  Lists(ch, fb, es, n, C, F)
<1>1. \A s \in Sizes : C[s] \subseteq Descs
  BY DEF Chains
<1>2. \A s \in Sizes : Linked(es, ch[s], C[s])
  <2> SUFFICES ASSUME NEW s \in Sizes PROVE Linked(es, ch[s], C[s])
    OBVIOUS
  <2>1. Linked(ds, ch[s], C[s]) /\ \A e \in C[s] : es[e].next = ds[e].next
    BY <1>1 DEF Lists
  <2>2. QED
    BY <2>1, ChainSame
<1>3. Linked(es, fb, F)
  <2>1. Linked(ds, fb, F) /\ \A e \in F : es[e].next = ds[e].next
    BY DEF Lists
  <2>2. QED
    BY <2>1, ChainSame
<1>4. QED
  BY <1>2, <1>3 DEF Lists

\* What the chains are when the first free descriptor is put in front of one.
LEMMA ListsLink ==
    ASSUME NEW ch \in [Sizes -> Descs \cup {Null}], NEW d, NEW ds, NEW es, NEW n \in Nat, NEW C \in Chains,
           NEW F \in SUBSET Descs,
           Lists(ch, d, ds, n, C, F), d # Null, NEW s \in Sizes,
           es[d].next = ch[s], \A e \in Descs : e # d => es[e].next = ds[e].next
    PROVE  Lists([ch EXCEPT ![s] = d], ds[d].next, es, n, [C EXCEPT ![s] = @ \cup {d}], F \ {d}) /\ d \in F
<1>1. d \in F /\ d \in Descs
  <2>1. Linked(ds, d, F)
    BY DEF Lists
  <2>2. QED
    BY <2>1, ChainFirst
<1>2. \A t \in Sizes : C[t] \subseteq Descs /\ d \notin C[t]
  BY <1>1 DEF Chains, Lists
<1> DEFINE C2 == [C EXCEPT ![s] = @ \cup {d}]
           ch2 == [ch EXCEPT ![s] = d]
<1>3. /\ C2[s] = C[s] \cup {d} /\ \A t \in Sizes : t # s => C2[t] = C[t]
      /\ ch2[s] = d /\ \A t \in Sizes : t # s => ch2[t] = ch[t]
  BY DEF Chains
<1> HIDE DEF C2, ch2
<1>4. \A t \in Sizes : Linked(es, ch2[t], C2[t])
  <2> SUFFICES ASSUME NEW t \in Sizes PROVE Linked(es, ch2[t], C2[t])
    OBVIOUS
  <2>1. Linked(ds, ch[t], C[t]) /\ \A e \in C[t] : es[e].next = ds[e].next
    BY <1>2 DEF Lists
  <2>2. CASE t = s
    <3>1. Linked(es, d, C[s] \cup {d})
      BY <1>1, <1>2, <2>1, <2>2, ChainPush
    <3>2. QED
      BY <1>3, <2>2, <3>1
  <2>3. CASE t # s
    <3>1. Linked(es, ch[t], C[t])
      BY <2>1, ChainSame
    <3>2. QED
      BY <1>3, <2>3, <3>1
  <2>4. QED
    BY <2>2, <2>3
<1>5. Linked(es, ds[d].next, F \ {d})
  <2>1. Linked(ds, d, F) /\ \A e \in F \ {d} : es[e].next = ds[e].next
    BY DEF Lists
  <2>2. QED
    BY <2>1, ChainPop
<1>6. \A t, u \in Sizes : t # u => C2[t] \cap C2[u] = {}
  <2> SUFFICES ASSUME NEW t \in Sizes, NEW u \in Sizes, t # u PROVE C2[t] \cap C2[u] = {}
    OBVIOUS
  <2>1. C[t] \cap C[u] = {} /\ d \notin C[t] /\ d \notin C[u]
    BY <1>2 DEF Lists
  <2>2. QED
    BY <1>3, <2>1
<1>7. \A t \in Sizes : C2[t] \cap (F \ {d}) = {}
  <2> SUFFICES ASSUME NEW t \in Sizes PROVE C2[t] \cap (F \ {d}) = {}
    OBVIOUS
  <2>1. C[t] \cap F = {}
    BY DEF Lists
  <2>2. QED
    BY <1>3, <2>1
<1>8. (F \ {d}) \cup UNION {C2[t] : t \in Sizes} = 1 .. n
  <2>1. F \cup UNION {C[t] : t \in Sizes} = 1 .. n
    BY DEF Lists
  <2>2. \A e : e \in UNION {C2[t] : t \in Sizes} <=> e = d \/ e \in UNION {C[t] : t \in Sizes}
    <3>1. \A e : e \in UNION {C2[t] : t \in Sizes} <=> \E t \in Sizes : e \in C2[t]
      OBVIOUS
    <3>2. \A e : e \in UNION {C[t] : t \in Sizes} <=> \E t \in Sizes : e \in C[t]
      OBVIOUS
    <3>3. \A t \in Sizes : \A e : e \in C2[t] <=> e \in C[t] \/ (t = s /\ e = d)
      BY <1>3
    <3>4. QED
      BY <3>1, <3>2, <3>3
  <2>3. QED
    BY <1>1, <2>1, <2>2
<1>9. \A e \in Descs : e > n => es[e].next = Null
  <2> SUFFICES ASSUME NEW e \in Descs, e > n PROVE es[e].next = Null
    OBVIOUS
  <2>1. d \in 1 .. n
    BY <1>1 DEF Lists
  <2>2. e # d
    BY <2>1
  <2>3. QED
    BY <2>2 DEF Lists
<1>10. Lists(ch2, ds[d].next, es, n, C2, F \ {d})
  BY <1>4, <1>5, <1>6, <1>7, <1>8, <1>9 DEF Lists
<1>11. QED
  BY <1>1, <1>10 DEF C2, ch2

\* What the lists are when a page of descriptors has been made.
LEMMA ListsMade ==
    ASSUME NEW ch, NEW ds, NEW es, NEW n \in Nat, NEW C \in Chains, NEW F \in SUBSET Descs,
           Lists(ch, Null, ds, n, C, F), n + DescsPerPage <= MaxDescs,
           \A d \in Descs : es[d].next = IF d \in n + 1 .. n + DescsPerPage - 1 THEN d + 1 ELSE ds[d].next
    PROVE  Lists(ch, n + 1, es, n + DescsPerPage, C, n + 1 .. n + DescsPerPage)
<1>1. DescsPerPage \in Nat \ {0} /\ MaxDescs \in Nat
  BY MallocAssumption
<1> DEFINE m == n + DescsPerPage
<1>2. m \in Nat /\ m >= n + 1 /\ m <= MaxDescs
  BY <1>1
<1>3. F = {}
  <2>1. Linked(ds, Null, F)
    BY DEF Lists
  <2>2. QED
    BY <2>1, ChainFirst
<1>4. UNION {C[t] : t \in Sizes} = 1 .. n
  BY <1>3 DEF Lists
<1>5. \A t \in Sizes : C[t] \subseteq 1 .. n /\ C[t] \subseteq Descs
  BY <1>4 DEF Chains
<1>6. \A t \in Sizes : Linked(es, ch[t], C[t])
  <2> SUFFICES ASSUME NEW t \in Sizes PROVE Linked(es, ch[t], C[t])
    OBVIOUS
  <2>1. \A e \in C[t] : es[e].next = ds[e].next
    <3> SUFFICES ASSUME NEW e \in C[t] PROVE es[e].next = ds[e].next
      OBVIOUS
    <3>1. e \in Descs /\ e \in 1 .. n
      BY <1>5
    <3>2. e \notin n + 1 .. n + DescsPerPage - 1
      BY <1>1, <3>1
    <3>3. QED
      BY <3>1, <3>2
  <2>2. Linked(ds, ch[t], C[t])
    BY DEF Lists
  <2>3. QED
    BY <2>1, <2>2, ChainSame
<1>7. Linked(es, n + 1, n + 1 .. m)
  <2>1. \A e \in n + 1 .. m : es[e].next = IF e = m THEN Null ELSE e + 1
    <3> SUFFICES ASSUME NEW e \in n + 1 .. m PROVE es[e].next = IF e = m THEN Null ELSE e + 1
      OBVIOUS
    <3>1. e \in Descs /\ e > n /\ e \in Nat
      BY <1>1, <1>2 DEF Descs
    <3>2. ds[e].next = Null
      BY <3>1 DEF Lists
    <3>3. e \in n + 1 .. n + DescsPerPage - 1 <=> e # m
      BY <1>1, <3>1
    <3>4. QED
      BY <3>1, <3>2, <3>3
  <2>2. n + 1 \in Nat /\ n + 1 >= 1 /\ n + 1 <= m + 1 /\ n + 1 <= m
    BY <1>2
  <2> HIDE DEF m
  <2>3. Linked(es, IF n + 1 <= m THEN n + 1 ELSE Null, n + 1 .. m)
    BY <1>2, <2>1, <2>2, ChainRange
  <2>4. QED
    BY <2>2, <2>3
<1>8. \A t \in Sizes : C[t] \cap (n + 1 .. m) = {}
  BY <1>2, <1>5
<1>9. (n + 1 .. m) \cup UNION {C[t] : t \in Sizes} = 1 .. m
  BY <1>2, <1>4
<1>10. \A e \in Descs : e > m => es[e].next = Null
  <2> SUFFICES ASSUME NEW e \in Descs, e > m PROVE es[e].next = Null
    OBVIOUS
  <2>1. e \in Nat /\ e > n /\ e \notin n + 1 .. n + DescsPerPage - 1
    BY <1>1, <1>2 DEF Descs
  <2>2. QED
    BY <2>1 DEF Lists
<1>11. \A t, u \in Sizes : t # u => C[t] \cap C[u] = {}
  BY DEF Lists
<1>12. Lists(ch, n + 1, es, m, C, n + 1 .. m)
  BY <1>6, <1>7, <1>8, <1>9, <1>10, <1>11 DEF Lists
<1>13. QED
  BY <1>12

\* d is taken out of the chain of s, which begins with ch[s]: after another of it, or as its first.
TakenOut(ds, es, ch, ch2, C, s, d) ==
    \/ /\ \E e \in C[s] : /\ e # d /\ ds[e].next = d /\ es[e].next = ds[d].next
                          /\ \A x \in Descs : x \notin {d, e} => es[x].next = ds[x].next
       /\ ch2[s] = ch[s]
    \/ /\ ch[s] = d /\ ch2[s] = ds[d].next
       /\ \A x \in Descs : x # d => es[x].next = ds[x].next
Behind(C, s, d) == [C EXCEPT ![s] = @ \ {d}]

\* What the lists are when d has been taken out of a chain, and is the first free one.
LEMMA ListsUnlink ==
    ASSUME NEW ch \in [Sizes -> Descs \cup {Null}], NEW fb, NEW ds, NEW es, NEW n \in Nat, NEW C \in Chains,
           NEW F \in SUBSET Descs,
           Lists(ch, fb, ds, n, C, F), NEW s \in Sizes, NEW d \in C[s],
           NEW ch2, es[d].next = fb, \A t \in Sizes : t # s => ch2[t] = ch[t],
           TakenOut(ds, es, ch, ch2, C, s, d)
    PROVE  Lists(ch2, d, es, n, Behind(C, s, d), F \cup {d})
<1> USE DEF TakenOut, Behind
<1>1. \A t \in Sizes : C[t] \subseteq Descs /\ C[t] \cap F = {}
  BY DEF Chains, Lists
<1>2. d \in Descs /\ d \notin F /\ \A t \in Sizes : t # s => d \notin C[t]
  BY <1>1 DEF Lists
<1> DEFINE C2 == [C EXCEPT ![s] = @ \ {d}]
<1>3. C2[s] = C[s] \ {d} /\ \A t \in Sizes : t # s => C2[t] = C[t]
  BY DEF Chains
<1> HIDE DEF C2
<1>4. \A x \in Descs : x \notin C[s] => es[x].next = ds[x].next
  BY <1>2
<1>5. Linked(es, ch2[s], C[s] \ {d})
  <2>1. Linked(ds, ch[s], C[s])
    BY DEF Lists
  <2>2. CASE ch[s] = d /\ ch2[s] = ds[d].next /\ \A x \in Descs : x # d => es[x].next = ds[x].next
    <3>1. \A x \in C[s] \ {d} : es[x].next = ds[x].next
      BY <1>1, <2>2
    <3>2. d # Null
      BY <1>2 DEF Descs, Null
    <3>3. Linked(es, ds[d].next, C[s] \ {d})
      BY <2>1, <2>2, <3>1, <3>2, ChainPop
    <3>4. QED
      BY <2>2, <3>3
  <2>3. CASE /\ \E e \in C[s] : /\ e # d /\ ds[e].next = d /\ es[e].next = ds[d].next
                                /\ \A x \in Descs : x \notin {d, e} => es[x].next = ds[x].next
             /\ ch2[s] = ch[s]
    <3>1. PICK e \in C[s] : /\ e # d /\ ds[e].next = d /\ es[e].next = ds[d].next
                            /\ \A x \in Descs : x \notin {d, e} => es[x].next = ds[x].next
      BY <2>3
    <3>2. \A x \in C[s] \ {d, e} : es[x].next = ds[x].next
      BY <1>1, <3>1
    <3>3. Linked(es, ch[s], C[s] \ {d})
      BY <2>1, <3>1, <3>2, ChainUnlink
    <3>4. QED
      BY <2>3, <3>3
  <2>4. QED
    BY <2>2, <2>3
<1>6. \A t \in Sizes : Linked(es, ch2[t], C2[t])
  <2> SUFFICES ASSUME NEW t \in Sizes, t # s PROVE Linked(es, ch2[t], C2[t])
    BY <1>3, <1>5
  <2>1. Linked(ds, ch[t], C[t]) /\ C[t] \cap C[s] = {}
    BY DEF Lists
  <2>2. \A e \in C[t] : es[e].next = ds[e].next
    BY <1>1, <1>4, <2>1
  <2>3. Linked(es, ch[t], C[t])
    BY <2>1, <2>2, ChainSame
  <2>4. QED
    BY <1>3, <2>3
<1>7. Linked(es, d, F \cup {d})
  <2>1. Linked(ds, fb, F)
    BY DEF Lists
  <2>2. \A e \in F : es[e].next = ds[e].next
    BY <1>1, <1>4
  <2>3. QED
    BY <1>2, <2>1, <2>2, ChainPush
<1>8. \A t, u \in Sizes : t # u => C2[t] \cap C2[u] = {}
  <2> SUFFICES ASSUME NEW t \in Sizes, NEW u \in Sizes, t # u PROVE C2[t] \cap C2[u] = {}
    OBVIOUS
  <2>1. C[t] \cap C[u] = {}
    BY DEF Lists
  <2>2. QED
    BY <1>3, <2>1
<1>9. \A t \in Sizes : C2[t] \cap (F \cup {d}) = {}
  <2> SUFFICES ASSUME NEW t \in Sizes PROVE C2[t] \cap (F \cup {d}) = {}
    OBVIOUS
  <2>1. CASE t = s
    BY <1>1, <1>3, <2>1
  <2>2. CASE t # s
    BY <1>1, <1>2, <1>3, <2>2
  <2>3. QED
    BY <2>1, <2>2
<1>10. (F \cup {d}) \cup UNION {C2[t] : t \in Sizes} = 1 .. n
  <2>1. F \cup UNION {C[t] : t \in Sizes} = 1 .. n
    BY DEF Lists
  <2>2. \A e : e \in UNION {C2[t] : t \in Sizes} <=> \E t \in Sizes : e \in C2[t]
    OBVIOUS
  <2>3. \A e : e \in UNION {C[t] : t \in Sizes} <=> \E t \in Sizes : e \in C[t]
    OBVIOUS
  <2>4. \A t \in Sizes : \A e : e \in C2[t] <=> e \in C[t] /\ ~(t = s /\ e = d)
    BY <1>3
  <2>5. \A e : e # d => (e \in UNION {C2[t] : t \in Sizes} <=> e \in UNION {C[t] : t \in Sizes})
    BY <2>2, <2>3, <2>4
  <2>6. \A e \in UNION {C2[t] : t \in Sizes} : e \in UNION {C[t] : t \in Sizes}
    BY <2>2, <2>3, <2>4
  <2>7. d \in UNION {C[t] : t \in Sizes}
    BY <2>3
  <2>8. QED
    BY <2>1, <2>5, <2>6, <2>7
<1>11. \A e \in Descs : e > n => es[e].next = Null
  <2> SUFFICES ASSUME NEW e \in Descs, e > n PROVE es[e].next = Null
    OBVIOUS
  <2>1. F \cup UNION {C[t] : t \in Sizes} = 1 .. n
    BY DEF Lists
  <2>2. e \notin 1 .. n
    BY MallocAssumption DEF Descs
  <2>3. e \notin C[s]
    BY <2>1, <2>2
  <2>4. QED
    BY <1>4, <2>3 DEF Lists
<1>12. Lists(ch2, d, es, n, C2, F \cup {d})
  BY <1>6, <1>7, <1>8, <1>9, <1>10, <1>11 DEF Lists
<1>13. QED
  BY <1>12 DEF C2

-----------------------------------------------------------------------------
(* The allocator: its steps *)

\* At first there are no pages.
LEMMA MallocInitHolds == MallocInit => MallocInv
<1> SUFFICES ASSUME MallocInit PROVE MallocInv
  OBVIOUS
<1> USE DEF MallocInit
<1>1. Fresh \in Linkeds
  BY DEF Fresh, Linkeds
<1>2. MallocTypes
  BY <1>1, MallocAssumption DEF MallocTypes, Descs
<1> DEFINE C == [s \in Sizes |-> {}]
<1>3. C \in Chains /\ \A s \in Sizes : C[s] = {}
  BY DEF Chains
<1>4. Linked(desc, Null, {})
  <2>1. <<>> \in Seq(Descs) /\ ToSet(<<>>) = {} /\ IsInjective(<<>>)
    BY DEF ToSet, IsInjective
  <2>2. IsChain(desc, Null, <<>>)
    BY <2>1 DEF IsChain
  <2>3. QED
    BY <2>1, <2>2 DEF Linked
<1>5. \A d \in Descs : desc[d].next = Null
  BY DEF Fresh
<1> HIDE DEF C
<1>6. {} \cup UNION {C[s] : s \in Sizes} = 1 .. 0
  BY <1>3
<1>7. Lists(chain, free_bucket_desc, desc, made, C, {})
  BY <1>3, <1>4, <1>5, <1>6 DEF Lists
<1>8. Holds(desc, C, out)
  BY <1>3, FS_EmptySet DEF Holds, HoldsBut
<1>9. Found(freeing, desc, C, out)
  BY DEF Found, NotFreeing
<1>10. QED
  BY <1>2, <1>3, <1>7, <1>8, <1>9 DEF MallocInv

\* The chains are those of the invariant.
LEMMA ChainedAre ==
    ASSUME NEW C \in Chains, NEW F, Lists(chain, free_bucket_desc, desc, made, C, F)
    PROVE  /\ \A s \in Sizes : IsChain(desc, chain[s], From(chain[s])) /\ ToSet(From(chain[s])) = C[s]
           /\ IsChain(desc, free_bucket_desc, From(free_bucket_desc)) /\ ToSet(From(free_bucket_desc)) = F
           /\ Chained = UNION {C[s] : s \in Sizes}
           /\ UsedPages = {desc[d].page : d \in UNION {C[s] : s \in Sizes}}
<1>1. \A s \in Sizes : IsChain(desc, chain[s], From(chain[s])) /\ ToSet(From(chain[s])) = C[s]
  <2> SUFFICES ASSUME NEW s \in Sizes
               PROVE  IsChain(desc, chain[s], From(chain[s])) /\ ToSet(From(chain[s])) = C[s]
    OBVIOUS
  <2>1. Linked(desc, chain[s], C[s])
    BY DEF Lists
  <2>2. QED
    BY <2>1, LinkedIs
<1>2. IsChain(desc, free_bucket_desc, From(free_bucket_desc)) /\ ToSet(From(free_bucket_desc)) = F
  <2>1. Linked(desc, free_bucket_desc, F)
    BY DEF Lists
  <2>2. QED
    BY <2>1, LinkedIs
<1>3. Chained = UNION {C[s] : s \in Sizes}
  BY <1>1 DEF Chained
<1>4. QED
  BY <1>1, <1>2, <1>3 DEF UsedPages

\* The place that is found is one of the chain.
LEMMA PlaceFound ==
    ASSUME NEW q \in Seq(Descs), NEW P, P \subseteq DOMAIN q, FirstPlace(P) > 0
    PROVE  FirstPlace(P) \in P /\ FirstPlace(P) \in 1 .. Len(q)
<1>1. P # {}
  BY DEF FirstPlace
<1>2. P \subseteq Nat
  OBVIOUS
<1>3. FirstPlace(P) = Min(P)
  BY <1>1 DEF FirstPlace
<1>4. Min(P) \in P
  BY <1>1, <1>2, MinIs
<1>5. QED
  BY <1>3, <1>4

\* malloc() of an object of a page that there is.
LEMMA TakeObjectKeeps ==
    ASSUME MallocInv, NEW s \in Sizes, TakeObject(s)
    PROVE  MallocInv'
<1>1. MallocTypes
  BY DEF MallocInv
<1>2. PICK C \in Chains, F \in SUBSET Descs :
          /\ Lists(chain, free_bucket_desc, desc, made, C, F)
          /\ Holds(desc, C, out)
          /\ Found(freeing, desc, C, out)
  BY DEF MallocInv
<1> DEFINE q == From(chain[s])
           P == {j \in DOMAIN q : desc[q[j]].free # <<>>}
           d == q[FirstPlace(P)]
<1>3. q \in Seq(Descs) /\ ToSet(q) = C[s]
  BY <1>2, ChainedAre DEF IsChain
<1>4. FirstPlace(P) > 0 /\ GiveOut(s, d, desc) /\ UNCHANGED <<chain, free_bucket_desc, made, freeing>>
  BY DEF TakeObject
<1> HIDE DEF q
<1>5. FirstPlace(P) \in P /\ FirstPlace(P) \in 1 .. Len(q)
  BY <1>3, <1>4, PlaceFound
<1>6. d \in C[s] /\ desc[d].free # <<>>
  <2>1. d \in ToSet(q)
    BY <1>3, <1>5, ToSetIs
  <2>2. QED
    BY <1>3, <1>5, <2>1
<1>7. desc' = Given(desc, d) /\ out' = Used(out, desc, d, s)
  BY <1>4 DEF GiveOut, Given, FirstOf, Used
<1> HIDE DEF d
<1>8. \A t \in Sizes : t # s => C[t] \cap C[s] = {}
  BY <1>2 DEF Lists
<1>9. HoldsBut(desc, C, out, d) /\ desc \in [Descs -> Linkeds]
  BY <1>1, <1>2, HoldsWeaker DEF MallocTypes
<1>10. /\ desc' \in [Descs -> Linkeds]
       /\ Holds(desc', C, out')
       /\ \A e \in Descs : desc'[e].next = desc[e].next /\ desc'[e].page = desc[e].page
  <2> DEFINE ds == desc
             es == desc'
             o == out
             p == out'
  <2>1. /\ ds \in [Descs -> Linkeds] /\ d \in C[s] /\ HoldsBut(ds, C, o, d) /\ ds[d].free # <<>>
        /\ es = Given(ds, d) /\ p = Used(o, ds, d, s)
    BY <1>6, <1>7, <1>9
  <2> HIDE DEF ds, es, o, p, P
  <2>2. /\ es \in [Descs -> Linkeds]
        /\ Holds(es, C, p)
        /\ \A e \in Descs : es[e].next = ds[e].next /\ es[e].page = ds[e].page
    BY <1>8, <2>1, GiveKeeps
  <2>3. QED
    BY <2>2 DEF ds, es, p
<1>11. Lists(chain, free_bucket_desc, desc', made, C, F)
  BY <1>2, <1>10, ListsSame
<1>12. Found(freeing, desc', C, out')
  <2>1. out \subseteq out'
    BY <1>7 DEF Used
  <2>2. \A t \in Sizes : C[t] \subseteq Descs
    BY DEF Chains
  <2>3. QED
    BY <1>2, <1>10, <2>1, <2>2 DEF Found
<1>13. MallocTypes'
  BY <1>1, <1>4, <1>10 DEF MallocTypes
<1>14. QED
  BY <1>4, <1>10, <1>11, <1>12, <1>13 DEF MallocInv

\* The descriptor of a new page, the descriptors with it, and the chains with d in front of that of s.
PageOf(s, page, next) == [page |-> page, next |-> next, free |-> [i \in 1 .. PerPage[s] |-> i], refcnt |-> 0]
WithPage(ds, d, r)    == [ds EXCEPT ![d] = r]
InFront(C, s, d)       == [C EXCEPT ![s] = @ \cup {d}]

\* The page of a descriptor that is put in front of a chain fits it.
LEMMA PageLinked ==
    ASSUME NEW ds \in [Descs -> Linkeds], NEW C \in Chains, NEW o, NEW s \in Sizes, NEW d \in Descs,
           Holds(ds, C, o), \A t \in Sizes : d \notin C[t],
           NEW page \in PageNumbers, \A t \in Sizes : \A e \in C[t] : ds[e].page # page,
           NEW next \in Descs \cup {Null}, NEW es,
           es = WithPage(ds, d, PageOf(s, page, next))
    PROVE  /\ es \in [Descs -> Linkeds]
           /\ HoldsBut(es, InFront(C, s, d), o, d)
           /\ es[d].free # <<>>
<1> USE DEF WithPage, InFront
<1> DEFINE q == [i \in 1 .. PerPage[s] |-> i]
           r == PageOf(s, page, next)
           C2 == [C EXCEPT ![s] = @ \cup {d}]
           P == 1 .. PerPage[s]
<1>1. PerPage[s] \in Nat /\ PerPage[s] > 0
  BY PlacesAre
<1>2. /\ q \in Seq(P) /\ q \in Seq(Nat) /\ IsInjective(q) /\ Len(q) = PerPage[s] /\ q # <<>>
      /\ ToSet(q) = P
  BY <1>1 DEF IsInjective, ToSet
<1>3. es[d] = r /\ \A e \in Descs : e # d => es[e] = ds[e]
  OBVIOUS
<1>4. r \in Linkeds
  BY <1>2 DEF Linkeds, PageOf
<1>5. es \in [Descs -> Linkeds]
  BY <1>4
<1>6. C2[s] = C[s] \cup {d} /\ \A t \in Sizes : t # s => C2[t] = C[t]
  BY DEF Chains
<1>7. \A t \in Sizes : C[t] \subseteq Descs
  BY DEF Chains
<1>8. r.page = page /\ r.free = q /\ r.refcnt = 0
  BY DEF PageOf
<1> HIDE DEF q, r, C2
<1>9. \A x \in o : x.page # page
  BY DEF Holds, HoldsBut
<1>10. PageFits(s, r, o)
  <2>1. Mine(r, o) = {}
    BY <1>8, <1>9 DEF Mine
  <2>2. Cardinality(Mine(r, o)) = 0
    BY <2>1, FS_EmptySet
  <2>3. {x.place : x \in Mine(r, o)} = {}
    BY <2>1
  <2>4. r.refcnt + Len(r.free) = PerPage[s]
    BY <1>1, <1>2, <1>8
  <2>5. {x.place : x \in Mine(r, o)} = P \ ToSet(r.free)
    BY <1>2, <1>8, <2>3
  <2>6. r.free \in Seq(1 .. PerPage[s]) /\ IsInjective(r.free)
    BY <1>2, <1>8
  <2>7. \A x \in Mine(r, o) : x.size = s
    BY <2>1
  <2>8. r.refcnt \in Nat /\ r.refcnt = Cardinality(Mine(r, o))
    BY <1>8, <2>2
  <2>9. QED
    BY <1>8, <2>4, <2>5, <2>6, <2>7, <2>8 DEF PageFits
<1>11. HoldsBut(es, C2, o, d)
  <2>1. IsFiniteSet(o) /\ o \subseteq Objs
    BY DEF Holds, HoldsBut
  <2>2. \A x \in o : \E t \in Sizes : \E e \in C2[t] : es[e].page = x.page
    <3> SUFFICES ASSUME NEW x \in o PROVE \E t \in Sizes : \E e \in C2[t] : es[e].page = x.page
      OBVIOUS
    <3>1. PICK t \in Sizes : \E e \in C[t] : ds[e].page = x.page
      BY DEF Holds, HoldsBut
    <3>2. PICK e \in C[t] : ds[e].page = x.page
      BY <3>1
    <3>3. e \in C2[t] /\ es[e] = ds[e]
      BY <1>3, <1>6, <1>7
    <3>4. QED
      BY <3>2, <3>3
  <2>3. \A t \in Sizes : \A e \in C2[t] : (e = d /\ t = s /\ es[e] = r) \/ (e # d /\ e \in C[t] /\ es[e] = ds[e])
    BY <1>3, <1>6, <1>7
  <2>4. \A t, u \in Sizes : \A e \in C2[t], f \in C2[u] : es[e].page = es[f].page => e = f
    <3> SUFFICES ASSUME NEW t \in Sizes, NEW u \in Sizes, NEW e \in C2[t], NEW f \in C2[u], es[e].page = es[f].page
                 PROVE  e = f
      OBVIOUS
    <3>1. CASE e = d /\ f = d
      BY <3>1
    <3>2. CASE e = d /\ f # d
      BY <1>8, <2>3, <3>2
    <3>3. CASE e # d /\ f = d
      BY <1>8, <2>3, <3>3
    <3>4. CASE e # d /\ f # d
      <4>1. e \in C[t] /\ f \in C[u] /\ ds[e].page = ds[f].page
        BY <2>3, <3>4
      <4>2. QED
        BY <4>1 DEF Holds, HoldsBut
    <3>5. QED
      BY <3>1, <3>2, <3>3, <3>4
  <2>5. \A t \in Sizes : \A e \in C2[t] : PageFits(t, es[e], o) /\ (e # d => es[e].refcnt # 0)
    <3> SUFFICES ASSUME NEW t \in Sizes, NEW e \in C2[t] PROVE PageFits(t, es[e], o) /\ (e # d => es[e].refcnt # 0)
      OBVIOUS
    <3>1. CASE e = d
      BY <1>10, <2>3, <3>1
    <3>2. CASE e # d
      <4>1. e \in C[t] /\ es[e] = ds[e] /\ e # Null
        BY <1>7, <2>3, <3>2 DEF Descs, Null
      <4>2. PageFits(t, ds[e], o) /\ ds[e].refcnt # 0
        BY <4>1 DEF Holds, HoldsBut
      <4>3. QED
        BY <4>1, <4>2
    <3>3. QED
      BY <3>1, <3>2
  <2>6. QED
    BY <2>1, <2>2, <2>4, <2>5 DEF HoldsBut
<1>12. QED
  BY <1>2, <1>3, <1>5, <1>8, <1>11 DEF C2

\* The page is linked in with the descriptor d of ds, of which n are made.
LinksIn(s, d, ds, n, page) ==
    /\ GiveOut(s, d, WithPage(ds, d, PageOf(s, page, chain[s])))
    /\ chain' = [chain EXCEPT ![s] = d] /\ free_bucket_desc' = ds[d].next /\ made' = n /\ freeing' = freeing

\* What the steps of malloc() that take a page keep, from the lists with the free descriptor d.
LEMMA LinkKeeps ==
    ASSUME MallocTypes, NEW C \in Chains, NEW F \in SUBSET Descs, NEW s \in Sizes,
           NEW d, d # Null, NEW ds \in [Descs -> Linkeds], NEW n \in 0 .. MaxDescs,
           Lists(chain, d, ds, n, C, F), Holds(ds, C, out), Found(freeing, ds, C, out),
           NEW page \in PageNumbers, \A t \in Sizes : \A e \in C[t] : ds[e].page # page,
           LinksIn(s, d, ds, n, page)
    PROVE  MallocInv'
<1> DEFINE es == WithPage(ds, d, PageOf(s, page, chain[s]))
           C2 == InFront(C, s, d)
           fs == desc'
           p == out'
<1>1. d \in F /\ d \in Descs
  <2>1. Linked(ds, d, F)
    BY DEF Lists
  <2>2. QED
    BY <2>1, ChainFirst
<1>2. chain \in [Sizes -> Descs \cup {Null}] /\ chain[s] \in Descs \cup {Null}
  BY DEF MallocTypes
<1>3. \A t \in Sizes : d \notin C[t] /\ C[t] \subseteq Descs
  BY <1>1 DEF Lists, Chains
<1>4. /\ es \in [Descs -> Linkeds] /\ HoldsBut(es, C2, out, d) /\ es[d].free # <<>>
  <2> DEFINE o == out
             next == chain[s]
  <2>1. Holds(ds, C, o) /\ next \in Descs \cup {Null}
    BY <1>2
  <2>2. es = WithPage(ds, d, PageOf(s, page, next))
    OBVIOUS
  <2> HIDE DEF es, o, next
  <2>3. es \in [Descs -> Linkeds] /\ HoldsBut(es, InFront(C, s, d), o, d) /\ es[d].free # <<>>
    BY <1>1, <1>3, <2>1, <2>2, PageLinked
  <2>4. QED
    BY <2>3 DEF o
<1>5. es[d].next = chain[s] /\ \A e \in Descs : e # d => es[e].next = ds[e].next /\ es[e].page = ds[e].page
  BY <1>1 DEF PageOf, WithPage
<1>6. fs = Given(es, d) /\ p = Used(out, es, d, s)
  BY DEF GiveOut, Given, FirstOf, Used, LinksIn
<1>7. C2 \in Chains /\ d \in C2[s] /\ \A t \in Sizes : C[t] \subseteq C2[t]
  BY <1>1 DEF Chains, InFront
<1>8. Lists(chain', free_bucket_desc', es, n, C2, F \ {d})
  <2> DEFINE ch == chain
  <2>1. ch \in [Sizes -> Descs \cup {Null}] /\ Lists(ch, d, ds, n, C, F) /\ es[d].next = ch[s] /\ n \in Nat
    BY <1>2, <1>5
  <2>2. \A e \in Descs : e # d => es[e].next = ds[e].next
    BY <1>5
  <2> HIDE DEF ch, es
  <2>3. Lists([ch EXCEPT ![s] = d], ds[d].next, es, n, [C EXCEPT ![s] = @ \cup {d}], F \ {d})
    BY <2>1, <2>2, ListsLink
  <2>4. QED
    BY <2>3 DEF ch, InFront, LinksIn
<1>9. F \ {d} \in SUBSET Descs
  OBVIOUS
<1> HIDE DEF es, C2, fs, p
<1>10. \A t \in Sizes : t # s => C2[t] \cap C2[s] = {}
  BY <1>8 DEF Lists
<1>11. /\ fs \in [Descs -> Linkeds]
       /\ Holds(fs, C2, p)
       /\ \A e \in Descs : fs[e].next = es[e].next /\ fs[e].page = es[e].page
  <2> DEFINE o == out
  <2>1. HoldsBut(es, C2, o, d) /\ es[d].free # <<>> /\ es \in [Descs -> Linkeds]
    BY <1>4
  <2>2. p = Used(o, es, d, s) /\ fs = Given(es, d)
    BY <1>6
  <2>3. C2 \in Chains /\ d \in C2[s]
    BY <1>7
  <2> HIDE DEF o
  <2>4. QED
    BY <1>10, <2>1, <2>2, <2>3, GiveKeeps
<1>12. Lists(chain', free_bucket_desc', fs, n, C2, F \ {d})
  BY <1>7, <1>8, <1>9, <1>11, ListsSame
<1>13. Found(freeing', fs, C2, p)
  <2>1. out \subseteq p
    BY <1>6 DEF Used
  <2>2. \A t \in Sizes : \A e \in C[t] : e \in C2[t] /\ fs[e].page = ds[e].page
    BY <1>3, <1>5, <1>7, <1>11
  <2>3. freeing' = freeing
    BY DEF LinksIn
  <2>4. QED
    BY <2>1, <2>2, <2>3 DEF Found
<1>14. MallocTypes'
  <2>1. chain' \in [Sizes -> Descs \cup {Null}]
    BY <1>1, <1>2 DEF LinksIn
  <2>2. free_bucket_desc' \in Descs \cup {Null} /\ made' = n
    BY <1>1 DEF Linkeds, LinksIn
  <2>3. QED
    BY <1>11, <2>1, <2>2 DEF MallocTypes, fs
<1>15. made' = n
  BY DEF LinksIn
<1>16. QED
  BY <1>7, <1>9, <1>11, <1>12, <1>13, <1>14, <1>15 DEF MallocInv, fs, p

\* malloc() of an object of a new page.
LEMMA TakePageKeeps ==
    ASSUME MallocInv, NEW s \in Sizes, TakePage(s)
    PROVE  MallocInv'
<1>1. MallocTypes
  BY DEF MallocInv
<1>2. PICK C \in Chains, F \in SUBSET Descs :
          /\ Lists(chain, free_bucket_desc, desc, made, C, F)
          /\ Holds(desc, C, out)
          /\ Found(freeing, desc, C, out)
  BY DEF MallocInv
<1> DEFINE page == Min(PageNumbers \ UsedPages)
<1>3. page \in PageNumbers /\ \A t \in Sizes : \A e \in C[t] : desc[e].page # page
  <2>1. PageNumbers \ UsedPages # {} /\ PageNumbers \ UsedPages \subseteq Nat
    BY DEF TakePage, PageNumbers
  <2>2. page \in PageNumbers \ UsedPages
    BY <2>1, MinIs
  <2>3. UsedPages = {desc[d].page : d \in UNION {C[t] : t \in Sizes}}
    BY <1>2, ChainedAre
  <2> HIDE DEF page
  <2>4. QED
    BY <2>2, <2>3
<1> HIDE DEF page
<1>4. CASE free_bucket_desc # Null
  <2>1. LinksIn(s, free_bucket_desc, desc, made, page)
    BY <1>4 DEF TakePage, page, PageOf, WithPage, LinksIn
  <2>2. desc \in [Descs -> Linkeds] /\ made \in 0 .. MaxDescs
    BY <1>1 DEF MallocTypes
  <2>3. QED
    BY <1>1, <1>2, <1>3, <1>4, <2>1, <2>2, LinkKeeps
<1>5. CASE free_bucket_desc = Null
  <2> DEFINE d == made + 1
             ds == WithDescs
             n == made + DescsPerPage
  <2>1. LinksIn(s, d, ds, n, page) /\ n <= MaxDescs
    BY <1>5 DEF TakePage, page, PageOf, WithPage, LinksIn
  <2>2. made \in Nat /\ made <= MaxDescs /\ desc \in [Descs -> Linkeds] /\ MaxDescs \in Nat /\ DescsPerPage \in Nat \ {0}
    BY <1>1, MallocAssumption DEF MallocTypes
  <2>3. d \in Descs /\ d # Null /\ n \in 0 .. MaxDescs
    BY <2>1, <2>2 DEF Descs, Null
  <2>4. \A e \in Descs : ds[e] = IF e \in made + 1 .. made + DescsPerPage - 1 THEN [Fresh EXCEPT !.next = e + 1] ELSE desc[e]
    BY DEF WithDescs
  <2>5. \A e \in Descs : e \in made + 1 .. made + DescsPerPage - 1 => e + 1 \in Descs
    BY <2>1, <2>2 DEF Descs
  <2>6. ds \in [Descs -> Linkeds]
    <3> SUFFICES ASSUME NEW e \in Descs PROVE ds[e] \in Linkeds
      BY DEF WithDescs
    <3>1. CASE e \in made + 1 .. made + DescsPerPage - 1
      <4>1. ds[e] = [page |-> Null, next |-> e + 1, free |-> <<>>, refcnt |-> 0]
        BY <2>4, <3>1 DEF Fresh
      <4>2. QED
        BY <2>5, <3>1, <4>1 DEF Linkeds
    <3>2. CASE e \notin made + 1 .. made + DescsPerPage - 1
      BY <2>2, <2>4, <3>2
    <3>3. QED
      BY <3>1, <3>2
  <2>7. \A e \in Descs : ds[e].next = IF e \in made + 1 .. made + DescsPerPage - 1 THEN e + 1 ELSE desc[e].next
    <3> SUFFICES ASSUME NEW e \in Descs
                 PROVE  ds[e].next = IF e \in made + 1 .. made + DescsPerPage - 1 THEN e + 1 ELSE desc[e].next
      OBVIOUS
    <3>1. CASE e \in made + 1 .. made + DescsPerPage - 1
      BY <2>4, <3>1 DEF Fresh
    <3>2. CASE e \notin made + 1 .. made + DescsPerPage - 1
      BY <2>4, <3>2
    <3>3. QED
      BY <3>1, <3>2
  <2>8. Lists(chain, d, ds, n, C, made + 1 .. n)
    <3> DEFINE ch == chain
               es == desc
               m == made
    <3>1. Lists(ch, Null, es, m, C, F) /\ m \in Nat /\ m + DescsPerPage <= MaxDescs
      BY <1>2, <1>5, <2>1, <2>2
    <3>2. \A e \in Descs : ds[e].next = IF e \in m + 1 .. m + DescsPerPage - 1 THEN e + 1 ELSE es[e].next
      BY <2>7
    <3> HIDE DEF ds, ch, es, m
    <3>3. Lists(ch, m + 1, ds, m + DescsPerPage, C, m + 1 .. m + DescsPerPage)
      BY <3>1, <3>2, ListsMade
    <3>4. QED
      BY <3>3 DEF ch, m
  <2>9. \A t \in Sizes : \A e \in C[t] : e \in Descs /\ ds[e] = desc[e]
    <3> SUFFICES ASSUME NEW t \in Sizes, NEW e \in C[t] PROVE e \in Descs /\ ds[e] = desc[e]
      OBVIOUS
    <3>1. e \in Descs
      BY DEF Chains
    <3>2. e \in 1 .. made
      BY <1>2 DEF Lists
    <3>3. e \notin made + 1 .. made + DescsPerPage - 1
      BY <2>2, <3>2
    <3>4. QED
      BY <2>4, <3>1, <3>3
  <2>10. made + 1 .. n \in SUBSET Descs
    BY <2>2, <2>3 DEF Descs
  <2> HIDE DEF ds, d, n
  <2>11. Holds(ds, C, out)
    BY <1>2, <2>9 DEF Holds, HoldsBut
  <2>12. Found(freeing, ds, C, out)
    BY <1>2, <2>9 DEF Found
  <2>13. \A t \in Sizes : \A e \in C[t] : ds[e].page # page
    BY <1>3, <2>9
  <2> DEFINE G == made + 1 .. n
  <2>14. Lists(chain, d, ds, n, C, G) /\ G \in SUBSET Descs
    BY <2>8, <2>10
  <2> HIDE DEF G
  <2>15. QED
    BY <1>1, <1>3, <2>1, <2>3, <2>6, <2>11, <2>12, <2>13, <2>14, LinkKeeps
<1>6. QED
  BY <1>4, <1>5

\* The search of free_s().
LEMMA SearchKeeps ==
    ASSUME MallocInv, NEW obj \in out, Search(obj)
    PROVE  MallocInv'
<1>1. MallocTypes
  BY DEF MallocInv
<1>2. PICK C \in Chains, F \in SUBSET Descs :
          /\ Lists(chain, free_bucket_desc, desc, made, C, F)
          /\ Holds(desc, C, out)
          /\ Found(freeing, desc, C, out)
  BY DEF MallocInv
<1>3. UNCHANGED <<chain, free_bucket_desc, desc, made, out>>
  BY DEF Search
<1>4. PICK s \in Sizes :
        LET chained == From(chain[s])
            i == FirstPlace({j \in DOMAIN chained : desc[chained[j]].page = obj.page})
        IN /\ i > 0
           /\ freeing' = [obj |-> obj, d |-> chained[i], size |-> s, prev |-> IF i = 1 THEN Null ELSE chained[i - 1]]
  BY DEF Search
<1> DEFINE q == From(chain[s])
           P == {j \in DOMAIN q : desc[q[j]].page = obj.page}
           i == FirstPlace(P)
<1>5. q \in Seq(Descs) /\ ToSet(q) = C[s]
  BY <1>2, ChainedAre DEF IsChain
<1>6. i > 0 /\ freeing' = [obj |-> obj, d |-> q[i], size |-> s, prev |-> IF i = 1 THEN Null ELSE q[i - 1]]
  BY <1>4
<1> HIDE DEF q
<1>7. i \in P /\ i \in 1 .. Len(q)
  BY <1>5, <1>6, PlaceFound
<1> HIDE DEF i
<1>8. q[i] \in C[s] /\ desc[q[i]].page = obj.page
  <2>1. q[i] \in ToSet(q)
    BY <1>5, <1>7, ToSetIs
  <2>2. QED
    BY <1>5, <1>7, <2>1
<1>9. (IF i = 1 THEN Null ELSE q[i - 1]) \in C[s] \cup {Null}
  <2>1. CASE i = 1
    BY <2>1
  <2>2. CASE i # 1
    <3>1. i - 1 \in 1 .. Len(q)
      BY <1>5, <1>7, <2>2
    <3>2. q[i - 1] \in ToSet(q)
      BY <1>5, <3>1, ToSetIs
    <3>3. QED
      BY <1>5, <2>2, <3>2
  <2>3. QED
    BY <2>1, <2>2
<1>10. Found(freeing', desc, C, out)
  BY <1>6, <1>8, <1>9 DEF Found
<1>11. MallocTypes'
  BY <1>1, <1>3 DEF MallocTypes
<1>12. QED
  BY <1>2, <1>3, <1>10, <1>11 DEF MallocInv

\* The descriptors when the object x of d is free again, and the objects without it; and that two
\* descriptors differ in the next one only.
Returned(ds, d, x) == [ds EXCEPT ![d].free = <<x.place>> \o @, ![d].refcnt = @ - 1]
Without(o, x)      == o \ {x}
SamePage(r, r2)    == r2.page = r.page /\ r2.free = r.free /\ r2.refcnt = r.refcnt

\* The next one does not matter to a page.
LEMMA SameFits ==
    ASSUME NEW s, NEW r, NEW r2, NEW o, PageFits(s, r, o), SamePage(r, r2)
    PROVE  PageFits(s, r2, o)
BY DEF PageFits, SamePage, Mine

\* An object is free again: its page has one less, and the others have what they had.
LEMMA ReturnFits ==
    ASSUME NEW ds \in [Descs -> Linkeds], NEW C \in Chains, NEW o, NEW s \in Sizes, NEW d \in C[s],
           Holds(ds, C, o), NEW x \in o, x.page = ds[d].page,
           NEW es, es = Returned(ds, d, x), NEW p, p = Without(o, x)
    PROVE  /\ es \in [Descs -> Linkeds]
           /\ PageFits(s, es[d], p)
           /\ es[d].refcnt = ds[d].refcnt - 1
           /\ ds[d].refcnt <= 1 => Mine(ds[d], p) = {}
           /\ \A e \in Descs : es[e].next = ds[e].next /\ es[e].page = ds[e].page
           /\ \A e \in Descs : e # d => es[e] = ds[e]
           /\ \A t \in Sizes : \A e \in C[t] : e # d => PageFits(t, ds[e], p)
<1> USE DEF Returned, Without
<1>1. d \in Descs
  BY DEF Chains
<1>2. ds[d] \in Linkeds
  BY <1>1
<1>3. /\ es[d].page = ds[d].page /\ es[d].next = ds[d].next
      /\ es[d].free = <<x.place>> \o ds[d].free /\ es[d].refcnt = ds[d].refcnt - 1
  BY <1>1, <1>2 DEF Linkeds
<1>4. \A e \in Descs : e # d => es[e] = ds[e]
  OBVIOUS
<1>5. o \subseteq Objs /\ IsFiniteSet(o) /\ PageFits(s, ds[d], o)
  BY DEF Holds, HoldsBut
<1>6. PageFits(s, es[d], p) /\ es[d].refcnt = Cardinality(Mine(ds[d], o) \ {x})
  <2> DEFINE r == ds[d]
             r2 == es[d]
  <2>1. /\ r2.page = r.page /\ r2.free = FreeWith(r, x) /\ r2.refcnt = r.refcnt - 1
        /\ x.page = r.page /\ PageFits(s, r, o)
    BY <1>3, <1>5 DEF FreeWith
  <2> HIDE DEF r, r2, Returned, Without
  <2>2. PageFits(s, r2, o \ {x}) /\ r2.refcnt = Cardinality(Mine(r, o) \ {x})
    BY <1>5, <2>1, TakeBackFits
  <2>3. p = o \ {x}
    BY DEF Without
  <2>4. QED
    BY <2>2, <2>3 DEF r, r2
<1>7. es \in [Descs -> Linkeds]
  <2>1. es[d] \in Linkeds
    <3>1. es[d] = [ds[d] EXCEPT !.free = <<x.place>> \o ds[d].free, !.refcnt = ds[d].refcnt - 1]
      BY <1>1
    <3>2. es[d].free \in Seq(Nat) /\ es[d].refcnt \in Nat
      <4>1. es[d].free \in Seq(1 .. PerPage[s]) /\ es[d].refcnt \in Nat
        BY <1>6 DEF PageFits
      <4>2. 1 .. PerPage[s] \subseteq Nat
        BY PlacesAre
      <4> DEFINE f == es[d].free
                 P == 1 .. PerPage[s]
      <4>3. f \in Seq(P) /\ P \subseteq Nat
        BY <4>1, <4>2
      <4> HIDE DEF f, P
      <4>4. f \in Seq(Nat)
        BY <4>3
      <4>5. QED
        BY <4>1, <4>4 DEF f
    <3>3. es[d] = [page |-> ds[d].page, next |-> ds[d].next, free |-> es[d].free, refcnt |-> es[d].refcnt]
      BY <1>2, <3>1 DEF Linkeds
    <3>4. QED
      BY <1>2, <3>2, <3>3 DEF Linkeds
  <2>2. \A e \in Descs : es[e] \in Linkeds
    BY <1>4, <2>1
  <2>3. QED
    BY <2>2
<1>8. ds[d].refcnt <= 1 => Mine(ds[d], p) = {}
  <2> SUFFICES ASSUME ds[d].refcnt <= 1 PROVE Mine(ds[d], p) = {}
    OBVIOUS
  <2>1. Mine(ds[d], p) = Mine(ds[d], o) \ {x}
    BY DEF Mine
  <2>2. IsFiniteSet(Mine(ds[d], o) \ {x})
    <3>1. Mine(ds[d], o) \ {x} \in SUBSET o
      BY DEF Mine
    <3>2. QED
      BY <1>5, <3>1, FS_Subset
  <2>3. es[d].refcnt \in Nat /\ ds[d].refcnt \in Nat
    BY <1>5, <1>6 DEF PageFits
  <2>4. es[d].refcnt = 0
    BY <1>3, <2>3
  <2>5. QED
    BY <1>6, <2>1, <2>2, <2>4, FS_EmptySet
<1>9. \A t \in Sizes : \A e \in C[t] : e # d => PageFits(t, ds[e], p)
  <2> SUFFICES ASSUME NEW t \in Sizes, NEW e \in C[t], e # d PROVE PageFits(t, ds[e], p)
    OBVIOUS
  <2>1. PageFits(t, ds[e], o) /\ ds[e].page # ds[d].page
    BY DEF Holds, HoldsBut
  <2>2. Mine(ds[e], p) = Mine(ds[e], o)
    BY <2>1 DEF Mine
  <2>3. QED
    BY <2>1, <2>2 DEF PageFits
<1>10. \A e \in Descs : es[e].next = ds[e].next /\ es[e].page = ds[e].page
  BY <1>3, <1>4
<1>11. QED
  BY <1>3, <1>4, <1>6, <1>7, <1>8, <1>9, <1>10

\* What free_s() has found is what it takes out.
LEMMA PrevIs ==
    ASSUME MallocInv, freeing.d # Null, NEW C \in Chains, NEW F \in SUBSET Descs,
           Lists(chain, free_bucket_desc, desc, made, C, F), Found(freeing, desc, C, out)
    PROVE  \/ Prev \in C[freeing.size] /\ Prev # Null /\ desc[Prev].next = freeing.d
           \/ Prev = Null /\ chain[freeing.size] = freeing.d
<1> DEFINE s == freeing.size
           d == freeing.d
           q == From(chain[s])
<1>1. s \in Sizes /\ d \in C[s] /\ freeing.prev \in C[s] \cup {Null}
  BY DEF Found
<1>2. Linked(desc, chain[s], C[s]) /\ ToSet(q) = C[s]
  BY <1>1, ChainedAre DEF Lists
<1>3. \A e \in C[s] : e # Null
  BY <1>1 DEF Chains, Descs, Null
<1> DEFINE before == {e \in C[s] : desc[e].next = d}
           stale == IF freeing.prev = Null THEN chain[s] # d ELSE desc[freeing.prev].next # d
<1>4. Prev = IF ~stale THEN freeing.prev ELSE IF before = {} THEN Null ELSE CHOOSE e \in before : TRUE
  BY <1>2 DEF Prev
<1>5. CASE ~stale
  BY <1>1, <1>3, <1>4, <1>5
<1>6. CASE stale /\ before = {}
  <2>1. \A e \in C[s] : desc[e].next # d
    BY <1>6
  <2>2. chain[s] = d
    BY <1>1, <1>2, <2>1, ChainHead
  <2>3. QED
    BY <1>4, <1>6, <2>2
<1>7. CASE stale /\ before # {}
  <2>1. Prev \in before
    BY <1>4, <1>7
  <2>2. QED
    BY <1>3, <2>1
<1>8. QED
  BY <1>5, <1>6, <1>7

\* free_s() with interrupts off.
LEMMA FreeKeeps ==
    ASSUME MallocInv, free_s
    PROVE  MallocInv'
<1>1. MallocTypes
  BY DEF MallocInv
<1>2. PICK C \in Chains, F \in SUBSET Descs :
          /\ Lists(chain, free_bucket_desc, desc, made, C, F)
          /\ Holds(desc, C, out)
          /\ Found(freeing, desc, C, out)
  BY DEF MallocInv
<1> DEFINE d == freeing.d
           s == freeing.size
           x == freeing.obj
           es == Returned(desc, d, x)
<1>3. d # Null /\ freeing' = NotFreeing /\ made' = made /\ out' = Without(out, x)
  BY DEF free_s, Without
<1>4. s \in Sizes /\ d \in C[s] /\ x \in out /\ desc[d].page = x.page
  BY <1>2, <1>3 DEF Found
<1>5. desc \in [Descs -> Linkeds] /\ chain \in [Sizes -> Descs \cup {Null}] /\ free_bucket_desc \in Descs \cup {Null} /\ made \in Nat
  BY <1>1 DEF MallocTypes
<1>6. \A t \in Sizes : C[t] \subseteq Descs
  BY DEF Chains
<1>7. d \in Descs
  BY <1>4, <1>6
<1> DEFINE p == out'
<1>8. /\ es \in [Descs -> Linkeds]
      /\ PageFits(s, es[d], p)
      /\ es[d].refcnt = desc[d].refcnt - 1
      /\ desc[d].refcnt <= 1 => Mine(desc[d], p) = {}
      /\ \A e \in Descs : es[e].next = desc[e].next /\ es[e].page = desc[e].page
      /\ \A e \in Descs : e # d => es[e] = desc[e]
      /\ \A t \in Sizes : \A e \in C[t] : e # d => PageFits(t, desc[e], p)
  <2> DEFINE ds == desc
             o == out
  <2>1. ds \in [Descs -> Linkeds] /\ d \in C[s] /\ s \in Sizes /\ Holds(ds, C, o) /\ x \in o /\ x.page = ds[d].page
    BY <1>2, <1>4, <1>5
  <2>2. es = Returned(ds, d, x) /\ p = Without(o, x)
    BY <1>3
  <2> HIDE DEF ds, o, es, p, d, s, x
  <2>3. /\ es \in [Descs -> Linkeds]
        /\ PageFits(s, es[d], p)
        /\ es[d].refcnt = ds[d].refcnt - 1
        /\ ds[d].refcnt <= 1 => Mine(ds[d], p) = {}
        /\ \A e \in Descs : es[e].next = ds[e].next /\ es[e].page = ds[e].page
        /\ \A e \in Descs : e # d => es[e] = ds[e]
        /\ \A t \in Sizes : \A e \in C[t] : e # d => PageFits(t, ds[e], p)
    BY <2>1, <2>2, ReturnFits
  <2>4. QED
    BY <2>3 DEF ds
<1>9. Found(freeing', desc', C, out')
  BY <1>3 DEF Found, NotFreeing
<1>10. p \subseteq out /\ IsFiniteSet(p) /\ p \subseteq Objs
  <2>1. IsFiniteSet(out) /\ out \subseteq Objs
    BY <1>2 DEF Holds, HoldsBut
  <2>2. p = out \ {x}
    BY <1>3 DEF Without
  <2>3. QED
    BY <2>1, <2>2, FS_RemoveElement
<1>11. \A y \in p : \E t \in Sizes : \E e \in C[t] : desc[e].page = y.page
  BY <1>2, <1>10 DEF Holds, HoldsBut
<1>12. \A t, u \in Sizes : \A e \in C[t], f \in C[u] : desc[e].page = desc[f].page => e = f
  BY <1>2 DEF Holds, HoldsBut
<1>13. \A t \in Sizes : \A e \in C[t] : desc[e].refcnt # 0 /\ e # Null
  <2>1. \A t \in Sizes : \A e \in C[t] : e # Null
    BY <1>6 DEF Descs, Null
  <2>2. QED
    BY <1>2, <2>1 DEF Holds, HoldsBut
<1>14. desc[d].refcnt \in Nat
  BY <1>5, <1>7 DEF Linkeds
<1>15. ASSUME desc[d].refcnt > 1
       PROVE  MallocInv'
  <2>1. desc' = es /\ UNCHANGED <<chain, free_bucket_desc>>
    BY <1>15 DEF free_s, Returned
  <2> HIDE DEF es, d, s, x
  <2>2. Holds(desc', C, p)
    <3>1. \A y \in p : \E t \in Sizes : \E e \in C[t] : es[e].page = y.page
      BY <1>6, <1>8, <1>11
    <3>2. \A t, u \in Sizes : \A e \in C[t], f \in C[u] : es[e].page = es[f].page => e = f
      BY <1>6, <1>8, <1>12
    <3>3. \A t \in Sizes : \A e \in C[t] : PageFits(t, es[e], p) /\ es[e].refcnt # 0
      <4> SUFFICES ASSUME NEW t \in Sizes, NEW e \in C[t] PROVE PageFits(t, es[e], p) /\ es[e].refcnt # 0
        OBVIOUS
      <4>1. CASE e = d
        <5>1. t = s
          BY <1>2, <1>4, <4>1 DEF Lists
        <5>2. es[d].refcnt # 0
          BY <1>8, <1>14, <1>15
        <5>3. QED
          BY <1>8, <4>1, <5>1, <5>2
      <4>2. CASE e # d
        <5>1. es[e] = desc[e] /\ PageFits(t, desc[e], p) /\ desc[e].refcnt # 0
          BY <1>6, <1>8, <1>13, <4>2
        <5>2. QED
          BY <5>1
      <4>3. QED
        BY <4>1, <4>2
    <3>4. QED
      BY <1>10, <2>1, <3>1, <3>2, <3>3 DEF Holds, HoldsBut
  <2>3. Lists(chain, free_bucket_desc, es, made, C, F)
    BY <1>2, <1>8, ListsSame
  <2>4. MallocTypes'
    BY <1>1, <1>3, <1>8, <2>1 DEF MallocTypes
  <2>5. QED
    BY <1>3, <1>9, <2>1, <2>2, <2>3, <2>4 DEF MallocInv
<1>16. ASSUME ~(desc[d].refcnt > 1)
       PROVE  MallocInv'
  <2> DEFINE fs == desc'
             C2 == Behind(C, s, d)
             k == Prev
  <2>1. /\ free_bucket_desc' = d
        /\ \/ /\ k # Null /\ chain' = chain
              /\ fs = [es EXCEPT ![k].next = desc[d].next, ![d].next = free_bucket_desc]
           \/ /\ k = Null /\ chain' = [chain EXCEPT ![s] = desc[d].next]
              /\ fs = [es EXCEPT ![d].next = free_bucket_desc]
    BY <1>16 DEF free_s, Returned
  <2>2. \/ k \in C[s] /\ k # Null /\ desc[k].next = d
        \/ k = Null /\ chain[s] = d
    BY <1>2, <1>3, PrevIs
  <2>3. k # d \/ k = Null
    <3> SUFFICES ASSUME k = d, k # Null PROVE FALSE
      OBVIOUS
    <3>1. desc[d].next = d
      BY <2>2
    <3>2. Linked(desc, chain[s], C[s])
      BY <1>2, <1>4 DEF Lists
    <3>3. PICK q \in Seq(Descs) : IsChain(desc, chain[s], q) /\ ToSet(q) = C[s]
      BY <3>2 DEF Linked
    <3>4. PICK i \in 1 .. Len(q) : q[i] = d
      BY <1>4, <3>3, ToSetIs
    <3>5. d = IF i = Len(q) THEN Null ELSE q[i + 1]
      BY <3>1, <3>3, <3>4 DEF IsChain
    <3>6. i # Len(q) /\ i + 1 \in 1 .. Len(q) /\ q[i + 1] = d
      BY <1>3, <3>4, <3>5
    <3>7. i = i + 1
      BY <3>3, <3>4, <3>6, ChainFacts
    <3>8. QED
      BY <3>7
  <2> HIDE DEF es, d, s, x, k, p
  <2>4. k \in Descs \/ k = Null
    BY <1>4, <1>6, <2>2
  <2>5. desc[d].next \in Descs \cup {Null}
    BY <1>5, <1>7 DEF Linkeds
  <2>6. fs \in [Descs -> Linkeds]
    <3>1. \A r \in Linkeds : \A h \in Descs \cup {Null} : [r EXCEPT !.next = h] \in Linkeds
      BY DEF Linkeds
    <3>2. CASE k = Null
      BY <1>5, <1>7, <1>8, <2>1, <3>1, <3>2
    <3>3. CASE k # Null
      <4> DEFINE gs == [es EXCEPT ![k].next = desc[d].next]
      <4>1. gs \in [Descs -> Linkeds]
        BY <1>8, <2>4, <2>5, <3>1, <3>3
      <4>2. fs = [gs EXCEPT ![d].next = free_bucket_desc]
        BY <2>1, <3>3
      <4> HIDE DEF gs
      <4>3. QED
        BY <1>5, <1>7, <3>1, <4>1, <4>2
    <3>4. QED
      BY <3>2, <3>3
  <2>7. /\ fs[d].next = free_bucket_desc
        /\ \A e \in Descs : e # d /\ e # k => fs[e] = es[e]
        /\ k # Null => fs[k].next = desc[d].next
    <3>1. CASE k = Null
      <4>1. k \notin Descs
        BY <3>1 DEF Descs, Null
      <4>2. QED
        BY <1>7, <1>8, <2>1, <3>1, <4>1 DEF Linkeds
    <3>2. CASE k # Null
      <4>1. k \in Descs /\ k # d /\ es[k] \in Linkeds /\ es[d] \in Linkeds
        BY <1>7, <1>8, <2>3, <2>4, <3>2
      <4>2. QED
        BY <1>7, <1>8, <2>1, <3>2, <4>1 DEF Linkeds
    <3>3. QED
      BY <3>1, <3>2
  <2>8. \A e \in Descs : fs[e].page = es[e].page /\ fs[e].free = es[e].free /\ fs[e].refcnt = es[e].refcnt
    <3> SUFFICES ASSUME NEW e \in Descs
                 PROVE  fs[e].page = es[e].page /\ fs[e].free = es[e].free /\ fs[e].refcnt = es[e].refcnt
      OBVIOUS
    <3>1. es[e] \in Linkeds
      BY <1>8
    <3>2. CASE k = Null
      <4>1. CASE e = d
        <5>1. fs[e] = [es[e] EXCEPT !.next = free_bucket_desc]
          BY <1>8, <2>1, <3>2, <4>1
        <5>2. QED
          BY <3>1, <5>1 DEF Linkeds
      <4>2. CASE e # d
        <5>1. e # k
          BY <3>2 DEF Descs, Null
        <5>2. QED
          BY <2>7, <4>2, <5>1
      <4>3. QED
        BY <4>1, <4>2
    <3>3. CASE k # Null
      <4>1. k \in Descs /\ k # d
        BY <2>3, <2>4, <3>3
      <4>2. CASE e = d
        BY <1>7, <1>8, <2>1, <3>1, <3>3, <4>1, <4>2 DEF Linkeds
      <4>3. CASE e = k
        BY <1>7, <1>8, <2>1, <3>1, <3>3, <4>1, <4>3 DEF Linkeds
      <4>4. CASE e # d /\ e # k
        BY <2>7, <4>4
      <4>5. QED
        BY <4>2, <4>3, <4>4
    <3>4. QED
      BY <3>2, <3>3
  <2>9. chain' \in [Sizes -> Descs \cup {Null}] /\ \A t \in Sizes : t # s => chain'[t] = chain[t]
    BY <1>4, <1>5, <2>1, <2>5
  <2>10. Lists(chain', d, fs, made, C2, F \cup {d})
    <3> DEFINE ch == chain
               ch2 == chain'
               ds == desc
               fb == free_bucket_desc
               m == made
    <3>1. /\ ch \in [Sizes -> Descs \cup {Null}] /\ Lists(ch, fb, ds, m, C, F) /\ m \in Nat
          /\ s \in Sizes /\ d \in C[s] /\ fs[d].next = fb
      BY <1>2, <1>4, <1>5, <2>7
    <3>2. \A t \in Sizes : t # s => ch2[t] = ch[t]
      BY <2>9
    <3>3. TakenOut(ds, fs, ch, ch2, C, s, d)
      <4>1. CASE k # Null
        <5>1. k \in C[s] /\ k # d /\ desc[k].next = d /\ fs[k].next = desc[d].next /\ chain' = chain
          BY <2>1, <2>2, <2>3, <2>7, <4>1
        <5>2. \A y \in Descs : y \notin {d, k} => fs[y].next = desc[y].next
          BY <1>8, <2>7
        <5>3. QED
          BY <5>1, <5>2 DEF TakenOut
      <4>2. CASE k = Null
        <5>1. chain[s] = d /\ chain'[s] = desc[d].next
          BY <1>4, <1>5, <2>1, <2>2, <4>2
        <5>2. \A y \in Descs : y # d => fs[y].next = desc[y].next
          <6>1. k \notin Descs
            BY <4>2 DEF Descs, Null
          <6>2. QED
            BY <1>8, <2>7, <6>1
        <5>3. QED
          BY <5>1, <5>2 DEF TakenOut
      <4>3. QED
        BY <4>1, <4>2
    <3> HIDE DEF fs, C2, ch, ch2, ds, fb, m
    <3>4. Lists(ch2, d, fs, m, Behind(C, s, d), F \cup {d})
      BY <3>1, <3>2, <3>3, ListsUnlink
    <3>5. QED
      BY <3>4 DEF ch2, m, C2
  <2>11. C2 \in Chains /\ C2[s] = C[s] \ {d} /\ \A t \in Sizes : t # s => C2[t] = C[t]
    BY <1>4, <1>6 DEF Chains, Behind
  <2>12. F \cup {d} \in SUBSET Descs
    BY <1>7
  <2> HIDE DEF fs, C2
  <2>13. \A t \in Sizes : \A e \in C2[t] : e \in C[t] /\ e # d
    BY <1>2, <1>4, <2>11 DEF Lists
  <2>14. \A t \in Sizes : \A e \in C2[t] : SamePage(desc[e], fs[e])
    BY <1>6, <1>8, <2>8, <2>13 DEF SamePage
  <2>15. Holds(fs, C2, p)
    <3>1. \A y \in p : \E t \in Sizes : \E e \in C2[t] : fs[e].page = y.page
      <4> SUFFICES ASSUME NEW y \in p PROVE \E t \in Sizes : \E e \in C2[t] : fs[e].page = y.page
        OBVIOUS
      <4>1. PICK t \in Sizes : \E e \in C[t] : desc[e].page = y.page
        BY <1>11
      <4>2. PICK e \in C[t] : desc[e].page = y.page
        BY <4>1
      <4>3. e # d
        BY <1>8, <1>14, <1>16, <4>2 DEF Mine
      <4>4. e \in C2[t]
        BY <2>11, <4>3
      <4>5. fs[e].page = desc[e].page
        BY <2>14, <4>4 DEF SamePage
      <4>6. QED
        BY <4>2, <4>4, <4>5
    <3>2. \A t, u \in Sizes : \A e \in C2[t], f \in C2[u] : fs[e].page = fs[f].page => e = f
      BY <1>12, <2>13, <2>14 DEF SamePage
    <3>3. \A t \in Sizes : \A e \in C2[t] : PageFits(t, fs[e], p) /\ fs[e].refcnt # 0
      <4> SUFFICES ASSUME NEW t \in Sizes, NEW e \in C2[t] PROVE PageFits(t, fs[e], p) /\ fs[e].refcnt # 0
        OBVIOUS
      <4>1. PageFits(t, desc[e], p) /\ desc[e].refcnt # 0 /\ SamePage(desc[e], fs[e])
        BY <1>8, <1>13, <2>13, <2>14
      <4>2. PageFits(t, fs[e], p)
        BY <4>1, SameFits
      <4>3. QED
        BY <4>1, <4>2 DEF SamePage
    <3>4. QED
      BY <1>10, <3>1, <3>2, <3>3 DEF Holds, HoldsBut
  <2>16. Found(freeing', fs, C2, p)
    BY <1>3 DEF Found, NotFreeing
  <2>17. MallocTypes'
    BY <1>1, <1>3, <1>7, <2>1, <2>6, <2>9 DEF MallocTypes, fs
  <2>18. QED
    BY <1>3, <2>1, <2>10, <2>11, <2>12, <2>15, <2>16, <2>17 DEF MallocInv, fs, p
<1>17. QED
  BY <1>15, <1>16

-----------------------------------------------------------------------------
(* The allocator: the theorem *)

\* The chains of the allocator keep every descriptor, and their pages every object: for any sizes and
\* any number of pages.
THEOREM MallocInvariant == MallocSpec => []MallocInv
<1>1. MallocInit => MallocInv
  BY MallocInitHolds
<1>2. MallocInv /\ [MallocNext]_mallocVars => MallocInv'
  <2> SUFFICES ASSUME MallocInv, [MallocNext]_mallocVars PROVE MallocInv'
    OBVIOUS
  <2>1. ASSUME NEW s \in Sizes, malloc(s) PROVE MallocInv'
    BY <2>1, TakeObjectKeeps, TakePageKeeps DEF malloc
  <2>2. ASSUME NEW obj \in out, Search(obj) PROVE MallocInv'
    BY <2>2, SearchKeeps
  <2>3. CASE free_s
    BY <2>3, FreeKeeps
  <2>4. CASE UNCHANGED mallocVars
    BY <2>4 DEF mallocVars, MallocInv, MallocTypes
  <2>5. QED
    BY <2>1, <2>2, <2>3, <2>4 DEF MallocNext
<1>3. QED
  BY <1>1, <1>2, PTL DEF MallocSpec

\* An object is given out once and none is lost, and the chains hold each page, whatever a handler
\* allocates during the search of a free_s().
THEOREM AllocatorIsConsistent == MallocSpec => []MallocConsistent
<1>1. MallocInv => MallocConsistent
  <2> SUFFICES ASSUME MallocInv PROVE MallocConsistent
    OBVIOUS
  <2>1. MallocTypes
    BY DEF MallocInv
  <2>2. PICK C \in Chains, F \in SUBSET Descs :
            /\ Lists(chain, free_bucket_desc, desc, made, C, F)
            /\ Holds(desc, C, out)
    BY DEF MallocInv
  <2>3. /\ \A s \in Sizes : IsChain(desc, chain[s], From(chain[s])) /\ ToSet(From(chain[s])) = C[s]
        /\ IsChain(desc, free_bucket_desc, From(free_bucket_desc)) /\ ToSet(From(free_bucket_desc)) = F
        /\ Chained = UNION {C[s] : s \in Sizes}
        /\ UsedPages = {desc[d].page : d \in UNION {C[s] : s \in Sizes}}
    BY <2>2, ChainedAre
  <2>4. MallocTypeOK
    BY <2>1 DEF MallocTypes, MallocTypeOK, Linkeds
  <2>5. ChainsWhole
    <3>1. \A s \in Sizes : IsInjective(From(chain[s]))
      BY <2>3 DEF IsChain
    <3>2. IsInjective(From(free_bucket_desc))
      BY <2>3 DEF IsChain
    <3>3. \A s, t \in Sizes : s # t => ToSet(From(chain[s])) \cap ToSet(From(chain[t])) = {}
      BY <2>2, <2>3 DEF Lists
    <3>4. Chained \cap ToSet(From(free_bucket_desc)) = {}
      <4>1. \A s \in Sizes : C[s] \cap F = {}
        BY <2>2 DEF Lists
      <4>2. (UNION {C[s] : s \in Sizes}) \cap F = {}
        BY <4>1
      <4>3. QED
        BY <2>3, <4>2
    <3>5. Chained \cup ToSet(From(free_bucket_desc)) = 1 .. made
      BY <2>2, <2>3 DEF Lists
    <3>6. QED
      BY <3>1, <3>2, <3>3, <3>4, <3>5 DEF ChainsWhole
  <2>6. ObjectsOnce
    <3>1. \A o \in out : o.page \in UsedPages
      <4> SUFFICES ASSUME NEW o \in out PROVE o.page \in UsedPages
        OBVIOUS
      <4>1. PICK s \in Sizes : \E d \in C[s] : desc[d].page = o.page
        BY <2>2 DEF Holds, HoldsBut
      <4>2. PICK d \in C[s] : desc[d].page = o.page
        BY <4>1
      <4>3. d \in UNION {C[t] : t \in Sizes}
        OBVIOUS
      <4>4. QED
        BY <2>3, <4>2, <4>3
    <3>2. \A d, e \in Chained : desc[d].page = desc[e].page => d = e
      <4>1. \A d \in Chained : \E s \in Sizes : d \in C[s]
        BY <2>3
      <4>2. \A t, u \in Sizes : \A d \in C[t], e \in C[u] : desc[d].page = desc[e].page => d = e
        BY <2>2 DEF Holds, HoldsBut
      <4>3. QED
        BY <4>1, <4>2
    <3>3. ASSUME NEW s \in Sizes, NEW d \in C[s]
          PROVE  /\ desc[d].refcnt = Cardinality(Objects(d)) /\ desc[d].refcnt \in 1 .. PerPage[s]
                 /\ IsInjective(desc[d].free)
                 /\ \A o \in Objects(d) : o.size = s
                 /\ {o.place : o \in Objects(d)} = (1 .. PerPage[s]) \ ToSet(desc[d].free)
      <4>1. Objects(d) = Mine(desc[d], out)
        BY DEF Objects, Mine
      <4>2. d # Null
        BY DEF Chains, Descs, Null
      <4>3. PageFits(s, desc[d], out) /\ desc[d].refcnt # 0
        BY <2>2, <4>2 DEF Holds, HoldsBut
      <4> DEFINE n == Len(desc[d].free)
                 r == desc[d].refcnt
      <4>4. r \in Nat /\ r # 0 /\ n \in Nat /\ r + n = PerPage[s] /\ PerPage[s] \in Nat
        BY <4>3, PlacesAre DEF PageFits
      <4> HIDE DEF n, r
      <4>5. r \in 1 .. PerPage[s]
        BY <4>4
      <4>6. QED
        BY <4>1, <4>3, <4>5 DEF PageFits, r
    <3>4. QED
      BY <2>3, <3>1, <3>2, <3>3 DEF ObjectsOnce
  <2>7. QED
    BY <2>4, <2>5, <2>6 DEF MallocConsistent
<1>2. QED
  BY <1>1, MallocInvariant, PTL

=============================================================================
