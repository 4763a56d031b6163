-------------------------- MODULE SleepQueueProofs --------------------------
(***************************************************************************)
(* Proofs about SleepQueue, for any set of tasks: types, the wait queue of *)
(* a lock strands no sleeper, the lock is never taken from its holder, and *)
(* the head of a terminal's queue is inside interruptible_sleep_on().      *)
(***************************************************************************)
EXTENDS SleepQueue, TLAPS

\* The part of NoStrandedSleeper that is about who points to the sleepers.
Reached ==
    \A S \in SUBSET Sleepers :
        S # {} => \/ wait \in S
                  \/ \E u \in InSleepOn \ S : tmp[u] \in S

\* Every action of the specification preserves the types of the variables.
THEOREM TypeCorrect == Spec => []TypeOK
<1>1. Init => TypeOK
  BY NoTaskAssumption, MaxCharsAssumption DEF Init, TypeOK, States, Places, Wants
<1>2. TypeOK /\ [Next]_vars => TypeOK'
  <2> SUFFICES ASSUME TypeOK, [Next]_vars PROVE TypeOK'
    OBVIOUS
  <2> USE MaxCharsAssumption DEF TypeOK, States, Places, Wants, Awaken, AfterSignals, Scheduled
  <2>1. ASSUME NEW t \in Tasks, NEW w \in Wants, EnterLock(t, w) PROVE TypeOK'
    BY <2>1 DEF EnterLock, WhileLocked, SleepOn, PassLock
  <2>2. ASSUME NEW t \in Tasks, NEW w \in Wants, SleepOnReturn(t, w) PROVE TypeOK'
    BY <2>2 DEF SleepOnReturn, WhileLocked, SleepOn, PassLock
  <2>3. ASSUME NEW t \in Tasks, ReadTty(t) PROVE TypeOK'
    BY <2>3 DEF ReadTty, SleepIfEmpty
  <2>4. ASSUME NEW t \in Tasks, InterruptibleSleepOnReturn(t) PROVE TypeOK'
    <3>1. CASE ttyWait \notin {NoTask, t}
      BY <2>4, <3>1 DEF InterruptibleSleepOnReturn
    <3>2. CASE ttyWait \in {NoTask, t}
      <4>1. SleepIfEmpty(t, Awaken(state, tmp[t]), NoTask)
        BY <2>4, <3>2 DEF InterruptibleSleepOnReturn
      <4>2. Awaken(state, tmp[t]) \in [Tasks -> States]
        OBVIOUS
      <4>3. state' \in [Tasks -> States]
        BY <4>1, <4>2 DEF SleepIfEmpty
      <4>4. wait' = wait /\ holder' = holder /\ signal' = signal
        BY <2>4 DEF InterruptibleSleepOnReturn
      <4>5. QED
        BY <4>1, <4>3, <4>4 DEF SleepIfEmpty
    <3>3. QED
      BY <3>1, <3>2
  <2>5. ASSUME NEW t \in Tasks, DoSignal(t) PROVE TypeOK'
    BY <2>5 DEF DoSignal
  <2>6. ASSUME NEW t \in Tasks, SendSignal(t) PROVE TypeOK'
    BY <2>6 DEF SendSignal
  <2>7. CASE Unlock
    BY <2>7 DEF Unlock
  <2>8. CASE KeyboardInput
    BY <2>8 DEF KeyboardInput
  <2>9. CASE Tick
    BY <2>9 DEF Tick
  <2>10. CASE UNCHANGED vars
    BY <2>10 DEF vars
  <2>11. QED
    BY <2>1, <2>2, <2>3, <2>4, <2>5, <2>6, <2>7, <2>8, <2>9, <2>10 DEF Next, TaskStep
<1>3. QED
  BY <1>1, <1>2, PTL DEF Spec

-----------------------------------------------------------------------------
(* The queue of the lock. *)

\* A step that leaves the queue alone and puts nobody to sleep on it strands nobody.
LEMMA ReachedWhenFewerSleep ==
    ASSUME Reached, wait' = wait, tmp' = tmp,
           InSleepOn' = InSleepOn, Sleepers' \subseteq Sleepers
    PROVE  Reached'
  BY DEF Reached

\* sleep_on(): the old head is in tmp of the new one, so that whoever was reached still is.
\* x is the task whose state the caller has just made RUNNING: the old tmp of the sleeper.
LEMMA SleepOnReaches ==
    ASSUME TypeOK, Reached, NEW t \in Tasks, NEW w \in Wants,
           SleepOn(t, w, Awaken(state, tmp[t]))
    PROVE  Reached'
  <1> SUFFICES ASSUME NEW S \in SUBSET Sleepers', S # {}, t \notin S
               PROVE  \E u \in InSleepOn' \ S : tmp'[u] \in S
    BY DEF Reached, SleepOn
  <1>1. /\ tmp'[t] = wait
        /\ \A u \in Tasks \ {t} : tmp'[u] = tmp[u]
        /\ InSleepOn' = InSleepOn \cup {t}
    BY DEF SleepOn, TypeOK, InSleepOn
  <1>2. S \subseteq Sleepers
    BY DEF SleepOn, TypeOK, Sleepers, InSleepOn, Awaken, AfterSignals
  <1>3. tmp[t] \notin S
    BY DEF SleepOn, TypeOK, Sleepers, InSleepOn, Awaken, AfterSignals
  <1>4. CASE wait \in S
    BY <1>1, <1>4
  <1>5. CASE wait \notin S
    <2>1. PICK u \in InSleepOn \ S : tmp[u] \in S
      BY <1>2, <1>5 DEF Reached
    <2>2. u # t
      BY <2>1, <1>3
    <2>3. QED
      BY <1>1, <2>1, <2>2 DEF InSleepOn
  <1>6. QED
    BY <1>4, <1>5

\* The first sleep_on() of a task: its tmp is still NoTask, and waking nobody changes nothing.
LEMMA AwakenNobody ==
    ASSUME TypeOK PROVE Awaken(state, NoTask) = state
  BY NoTaskAssumption DEF Awaken, TypeOK

\* Outside sleep_on() and interruptible_sleep_on() the local variable tmp does not exist.
TmpOutside == \A t \in Tasks : pc[t] \in {"user", "do_exit"} => tmp[t] = NoTask

\* The inductive invariant.
QueueInv == TypeOK /\ TmpOutside /\ Reached /\ (holder = NoTask => wait = NoTask)

\* A task enters the queue of the lock.
LEMMA EnterLockQueueInv ==
    ASSUME QueueInv, NEW t \in Tasks, NEW w \in Wants, EnterLock(t, w)
    PROVE  TmpOutside' /\ Reached' /\ (holder = NoTask => wait = NoTask)'
  <1> USE DEF QueueInv
  <1>1. tmp[t] = NoTask
    BY DEF EnterLock, Scheduled, TmpOutside
  <1>2. Awaken(state, tmp[t]) = state
    BY <1>1, AwakenNobody
  <1>3. CASE holder # NoTask
    <2>1. SleepOn(t, w, Awaken(state, tmp[t]))
      BY <1>2, <1>3 DEF EnterLock, WhileLocked
    <2>2. Reached'
      BY <2>1, SleepOnReaches
    <2>3. TmpOutside' /\ (holder = NoTask => wait = NoTask)'
      BY <2>1, <1>3 DEF SleepOn, TypeOK, TmpOutside, Wants
    <2>4. QED
      BY <2>2, <2>3
  <1>4. CASE holder = NoTask
    <2>1. PassLock(t, w, state) /\ pc[t] = "user"
      BY <1>4 DEF EnterLock, WhileLocked, Scheduled
    <2>2. /\ tmp' = tmp
          /\ pc' = pc
      BY <2>1, <1>1 DEF PassLock, TypeOK
    <2>3. Reached'
      BY <2>1, <2>2, ReachedWhenFewerSleep DEF PassLock, InSleepOn, Sleepers
    <2>4. QED
      BY <2>1, <2>2, <2>3, <1>4 DEF PassLock, TmpOutside
  <1>5. QED
    BY <1>3, <1>4

\* A task returns from sleep_on().
LEMMA SleepOnReturnQueueInv ==
    ASSUME QueueInv, NEW t \in Tasks, NEW w \in Wants, SleepOnReturn(t, w)
    PROVE  TmpOutside' /\ Reached' /\ (holder = NoTask => wait = NoTask)'
  <1> USE DEF QueueInv
  <1>1. CASE holder # NoTask
    <2>1. SleepOn(t, w, Awaken(state, tmp[t]))
      BY <1>1 DEF SleepOnReturn, WhileLocked
    <2>2. Reached'
      BY <2>1, SleepOnReaches
    <2>3. TmpOutside' /\ (holder = NoTask => wait = NoTask)'
      BY <2>1, <1>1 DEF SleepOn, TypeOK, TmpOutside, Wants
    <2>4. QED
      BY <2>2, <2>3
  <1>2. CASE holder = NoTask
    <2>1. /\ PassLock(t, w, Awaken(state, tmp[t]))
          /\ wait = NoTask
      BY <1>2 DEF SleepOnReturn, WhileLocked
    <2>2. TmpOutside' /\ (holder = NoTask => wait = NoTask)'
      BY <2>1 DEF PassLock, TypeOK, TmpOutside
    <2>3. ASSUME NEW S \in SUBSET Sleepers', S # {}
          PROVE  \E u \in InSleepOn' \ S : tmp'[u] \in S
      <3>1. S \subseteq Sleepers /\ tmp[t] \notin S /\ NoTask \notin S
        BY <2>1, NoTaskAssumption
        DEF PassLock, TypeOK, Sleepers, InSleepOn, Awaken, Wants
      <3>2. PICK u \in InSleepOn \ S : tmp[u] \in S
        BY <2>1, <2>3, <3>1 DEF Reached
      <3>3. u # t
        BY <3>1, <3>2
      <3>4. u \in InSleepOn' /\ tmp'[u] = tmp[u]
        BY <2>1, <3>2, <3>3 DEF PassLock, TypeOK, InSleepOn
      <3>5. QED
        BY <3>2, <3>4
    <2>4. QED
      BY <2>2, <2>3 DEF Reached
  <1>3. QED
    BY <1>1, <1>2

\* The steps of the terminal leave the queue of the lock alone.
LEMMA TtyQueueInv ==
    ASSUME QueueInv, NEW t \in Tasks, ReadTty(t) \/ InterruptibleSleepOnReturn(t)
    PROVE  TmpOutside' /\ Reached' /\ (holder = NoTask => wait = NoTask)'
  <1> USE DEF QueueInv
  <1>1. /\ wait' = wait /\ holder' = holder
        /\ pc[t] \notin Wants
        /\ pc'[t] \notin Wants
        /\ \A u \in Tasks \ {t} : pc'[u] = pc[u] /\ tmp'[u] = tmp[u]
    BY DEF ReadTty, InterruptibleSleepOnReturn, SleepIfEmpty, Scheduled, TypeOK, Wants
  <1>2. TmpOutside'
    BY <1>1 DEF ReadTty, InterruptibleSleepOnReturn, SleepIfEmpty, Scheduled, TypeOK, TmpOutside
  <1>3. InSleepOn' = InSleepOn
    BY <1>1 DEF InSleepOn
  <1>4. \A u \in Tasks : state'[u] = "UNINTERRUPTIBLE" => state[u] = "UNINTERRUPTIBLE"
    BY DEF ReadTty, InterruptibleSleepOnReturn, SleepIfEmpty, TypeOK, Awaken, AfterSignals
  <1>5. Sleepers' \subseteq Sleepers
    BY <1>3, <1>4 DEF Sleepers, InSleepOn
  <1>6. t \notin InSleepOn /\ \A u \in InSleepOn : tmp'[u] = tmp[u]
    BY <1>1 DEF InSleepOn
  <1>7. Reached'
    BY <1>1, <1>3, <1>5, <1>6 DEF Reached
  <1>8. QED
    BY <1>1, <1>2, <1>7

\* The queue of a lock strands no sleeper, for any number of tasks and of readers and signals.
THEOREM NoStranded == Spec => []NoStrandedSleeper
<1>1. Init => QueueInv
  BY NoTaskAssumption, MaxCharsAssumption
  DEF Init, QueueInv, TypeOK, TmpOutside, Reached, Sleepers, InSleepOn, States, Places, Wants
<1>2. QueueInv /\ TypeOK' /\ [Next]_vars => QueueInv'
  <2> SUFFICES ASSUME QueueInv, TypeOK', [Next]_vars
               PROVE  TmpOutside' /\ Reached' /\ (holder = NoTask => wait = NoTask)'
    BY DEF QueueInv
  <2>1. ASSUME NEW t \in Tasks, NEW w \in Wants, EnterLock(t, w)
        PROVE  TmpOutside' /\ Reached' /\ (holder = NoTask => wait = NoTask)'
    BY <2>1, EnterLockQueueInv
  <2>2. ASSUME NEW t \in Tasks, NEW w \in Wants, SleepOnReturn(t, w)
        PROVE  TmpOutside' /\ Reached' /\ (holder = NoTask => wait = NoTask)'
    BY <2>2, SleepOnReturnQueueInv
  <2>3. ASSUME NEW t \in Tasks, ReadTty(t) \/ InterruptibleSleepOnReturn(t)
        PROVE  TmpOutside' /\ Reached' /\ (holder = NoTask => wait = NoTask)'
    BY <2>3, TtyQueueInv
  <2>4. ASSUME NEW t \in Tasks, DoSignal(t)
        PROVE  TmpOutside' /\ Reached' /\ (holder = NoTask => wait = NoTask)'
    <3>1. /\ wait' = wait /\ holder' = holder /\ tmp' = tmp
          /\ InSleepOn' = InSleepOn
          /\ Sleepers' \subseteq Sleepers
      BY <2>4 DEF DoSignal, QueueInv, TypeOK, InSleepOn, Sleepers, Scheduled, Wants, AfterSignals
    <3>2. TmpOutside'
      BY <2>4 DEF DoSignal, QueueInv, TypeOK, TmpOutside, Scheduled
    <3>3. QED
      BY <3>1, <3>2, ReachedWhenFewerSleep DEF QueueInv
  <2>5. CASE Unlock
    <3>1. /\ tmp' = tmp /\ pc' = pc /\ wait' = NoTask
          /\ InSleepOn' = InSleepOn
          /\ Sleepers' \subseteq Sleepers \ {wait}
      BY <2>5 DEF Unlock, QueueInv, TypeOK, InSleepOn, Sleepers, Awaken
    <3>2. Reached'
      BY <3>1 DEF Reached, QueueInv
    <3>3. QED
      BY <3>1, <3>2 DEF TmpOutside, QueueInv
  <2>6. ASSUME (\E t \in Tasks : SendSignal(t)) \/ KeyboardInput \/ Tick \/ UNCHANGED vars
        PROVE  TmpOutside' /\ Reached' /\ (holder = NoTask => wait = NoTask)'
    <3>1. /\ wait' = wait /\ holder' = holder /\ tmp' = tmp /\ pc' = pc
      BY <2>6 DEF SendSignal, KeyboardInput, Tick, vars
    <3>2. \A u \in Tasks : state'[u] = "UNINTERRUPTIBLE" => state[u] = "UNINTERRUPTIBLE"
      BY <2>6 DEF SendSignal, KeyboardInput, Tick, vars, Awaken, AfterSignals
    <3>3. InSleepOn' = InSleepOn /\ Sleepers' \subseteq Sleepers
      BY <3>1, <3>2 DEF InSleepOn, Sleepers
    <3>4. QED
      BY <3>1, <3>3, ReachedWhenFewerSleep DEF TmpOutside, QueueInv
  <2>7. QED
    BY <2>1, <2>2, <2>3, <2>4, <2>5, <2>6 DEF Next, TaskStep
<1>3. QueueInv => NoStrandedSleeper
  BY DEF QueueInv, Reached, NoStrandedSleeper
<1>4. QED
  BY <1>1, <1>2, <1>3, TypeCorrect, PTL DEF Spec

-----------------------------------------------------------------------------
\* A held lock stays with its holder until unlock_buffer() frees it.
THEOREM LockKept == Spec => LockNeverStolen
<1>1. [Next]_vars => [holder # NoTask => holder' \in {holder, NoTask}]_vars
  <2> SUFFICES ASSUME Next, holder # NoTask PROVE holder' \in {holder, NoTask}
    OBVIOUS
  <2>1. ASSUME NEW t \in Tasks, NEW w \in Wants, EnterLock(t, w) \/ SleepOnReturn(t, w)
        PROVE  holder' = holder
    BY <2>1 DEF EnterLock, SleepOnReturn, WhileLocked, SleepOn
  <2>2. QED
    BY <2>1 DEF Next, TaskStep, ReadTty, InterruptibleSleepOnReturn, DoSignal, SendSignal,
                Unlock, KeyboardInput, Tick
<1>2. QED
  BY <1>1, PTL DEF Spec, LockNeverStolen

-----------------------------------------------------------------------------
\* wake_up() on a terminal's queue writes to the task_struct of a task that still sleeps there.
THEOREM TtyHead == Spec => []TtyHeadInside
<1>1. Init => TtyHeadInside
  BY DEF Init, TtyHeadInside
<1>2. TypeOK /\ TtyHeadInside /\ [Next]_vars => TtyHeadInside'
  <2> SUFFICES ASSUME TypeOK, TtyHeadInside, [Next]_vars PROVE TtyHeadInside'
    OBVIOUS
  <2> USE DEF TtyHeadInside, TypeOK, Scheduled
  <2>1. ASSUME NEW t \in Tasks, NEW w \in Wants, EnterLock(t, w) \/ SleepOnReturn(t, w)
        PROVE  TtyHeadInside'
    BY <2>1 DEF EnterLock, SleepOnReturn, WhileLocked, SleepOn, PassLock, Wants
  <2>2. ASSUME NEW t \in Tasks, ReadTty(t) PROVE TtyHeadInside'
    BY <2>2 DEF ReadTty, SleepIfEmpty
  <2>3. ASSUME NEW t \in Tasks, InterruptibleSleepOnReturn(t) PROVE TtyHeadInside'
    BY <2>3 DEF InterruptibleSleepOnReturn, SleepIfEmpty
  <2>4. ASSUME NEW t \in Tasks, DoSignal(t) PROVE TtyHeadInside'
    BY <2>4 DEF DoSignal
  <2>5. CASE (\E t \in Tasks : SendSignal(t)) \/ Unlock \/ KeyboardInput \/ Tick \/ UNCHANGED vars
    BY <2>5 DEF SendSignal, Unlock, KeyboardInput, Tick, vars
  <2>6. QED
    BY <2>1, <2>2, <2>3, <2>4, <2>5 DEF Next, TaskStep
<1>3. QED
  BY <1>1, <1>2, TypeCorrect, PTL DEF Spec

=============================================================================
