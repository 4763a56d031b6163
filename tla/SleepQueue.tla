----------------------------- MODULE SleepQueue -----------------------------
(***************************************************************************)
(* The wait queues of kernel/sched.c: sleep_on(), interruptible_sleep_on() *)
(* and wake_up(), with the two kinds of client the kernel has for them:    *)
(*                                                                         *)
(*  - a lock (b_lock, i_lock, s_lock) taken by lock_xxx(), awaited by      *)
(*    wait_on_xxx() and released by unlock_xxx(); its waiters use          *)
(*    sleep_on() and sleep uninterruptibly;                                *)
(*  - the cooked queue of a terminal, whose readers use                    *)
(*    interruptible_sleep_on() in sleep_if_empty().                        *)
(*                                                                         *)
(* A queue is one task pointer. The rest of it is in the local variable    *)
(* tmp on the kernel stacks of the sleeping tasks, so that a task is woken *)
(* only by whoever points to it: the queue's head or another task's tmp.   *)
(*                                                                         *)
(* The kernel is not preempted: a task runs from the return of one call of *)
(* schedule() to its next call, and that is one action here. Interrupt     *)
(* handlers (Unlock, KeyboardInput, Tick) come between; all clients        *)
(* modelled here test their condition and go to sleep with interrupts off. *)
(* Which runnable task schedule() picks is left open.                      *)
(***************************************************************************)
EXTENDS Naturals, FiniteSets

CONSTANTS
    Tasks,     \* the tasks other than task[0], which never sleeps
    NoTask,    \* the NULL task pointer
    MaxChars   \* bound: characters waiting in the cooked queue

ASSUME NoTaskAssumption == NoTask \notin Tasks
ASSUME MaxCharsAssumption == MaxChars \in Nat \ {0}

VARIABLES
    state,     \* task_struct.state
    pc,        \* in user mode, or the kernel function that has put the task to sleep
    tmp,       \* the local variable tmp of the task's sleep_on(); NoTask outside it
    wait,      \* head of the lock's queue (b_wait, i_wait, s_wait)
    holder,    \* the task for which the lock is held; NoTask when it is free
    ttyWait,   \* head of the terminal's queue (secondary.proc_list)
    chars,     \* characters in the terminal's cooked queue
    signal     \* does the task have a pending, unblocked signal?

vars == <<state, pc, tmp, wait, holder, ttyWait, chars, signal>>

States == {"RUNNING", "INTERRUPTIBLE", "UNINTERRUPTIBLE", "ZOMBIE"}
Wants  == {"lock_buffer", "wait_on_buffer"}
Places == Wants \cup {"user", "sleep_if_empty", "do_exit"}

TypeOK ==
    /\ state   \in [Tasks -> States]
    /\ pc      \in [Tasks -> Places]
    /\ tmp     \in [Tasks -> Tasks \cup {NoTask}]
    /\ wait    \in Tasks \cup {NoTask}
    /\ holder  \in Tasks \cup {NoTask}
    /\ ttyWait \in Tasks \cup {NoTask}
    /\ chars   \in 0 .. MaxChars
    /\ signal  \in [Tasks -> BOOLEAN]

Init ==
    /\ state   = [t \in Tasks |-> "RUNNING"]
    /\ pc      = [t \in Tasks |-> "user"]
    /\ tmp     = [t \in Tasks |-> NoTask]
    /\ wait    = NoTask
    /\ holder  = NoTask
    /\ ttyWait = NoTask
    /\ chars   = 0
    /\ signal  = [t \in Tasks |-> FALSE]

-----------------------------------------------------------------------------
(* What the functions of sched.c do to the states of the tasks. *)

\* (**p).state = 0 and tmp->state = 0: the write is made whatever the task is doing now.
Awaken(st, p) == [t \in Tasks |-> IF t = p THEN "RUNNING" ELSE st[t]]

\* The first loop of schedule(): a signal wakes the task that sleeps interruptibly.
AfterSignals(st) ==
    [t \in Tasks |-> IF st[t] = "INTERRUPTIBLE" /\ signal[t] THEN "RUNNING" ELSE st[t]]

\* A task that is in the kernel at place p and that the scheduler may pick.
Scheduled(t, p) == pc[t] = p /\ state[t] = "RUNNING"

-----------------------------------------------------------------------------
(* The lock and its waiters. *)

\* sleep_on() up to its call of schedule(), for the client w and entered with the states st.
SleepOn(t, w, st) ==
    /\ tmp'   = [tmp EXCEPT ![t] = wait]
    /\ wait'  = t
    /\ pc'    = [pc EXCEPT ![t] = w]
    /\ state' = AfterSignals([st EXCEPT ![t] = "UNINTERRUPTIBLE"])
    /\ UNCHANGED holder

\* The loop of lock_buffer() or wait_on_buffer() has found the lock free.
PassLock(t, w, st) ==
    /\ holder' = IF w = "lock_buffer" THEN t ELSE holder
    /\ pc'     = [pc EXCEPT ![t] = "user"]
    /\ tmp'    = [tmp EXCEPT ![t] = NoTask]
    /\ state'  = st
    /\ UNCHANGED wait

\* The loop of lock_buffer() and wait_on_buffer(), and of their namesakes for inodes and
\* super blocks: while the lock is held, sleep_on().
WhileLocked(t, w, st) == IF holder # NoTask THEN SleepOn(t, w, st) ELSE PassLock(t, w, st)

\* lock_buffer() and wait_on_buffer() are called.
EnterLock(t, w) ==
    /\ Scheduled(t, "user")
    /\ WhileLocked(t, w, state)
    /\ UNCHANGED <<ttyWait, chars, signal>>

\* Mutated form: the woken task forgets to wake the next one (tmp is dropped).
SleepOnReturnDropsTmp(t, w) ==
    /\ Scheduled(t, w)
    /\ WhileLocked(t, w, state)
    /\ UNCHANGED <<ttyWait, chars, signal>>

\* Mutated form: "if (bh->b_lock) sleep_on()" in place of "while (bh->b_lock) sleep_on()".
SleepOnReturnNoRetest(t, w) ==
    /\ Scheduled(t, w)
    /\ PassLock(t, w, Awaken(state, tmp[t]))
    /\ UNCHANGED <<ttyWait, chars, signal>>

\* sleep_on() after schedule(): wake the next task of the queue, then test the lock again.
SleepOnReturn(t, w) ==
    /\ Scheduled(t, w)
    /\ WhileLocked(t, w, Awaken(state, tmp[t]))
    /\ UNCHANGED <<ttyWait, chars, signal>>

\* unlock_buffer(), called by the interrupt that ends the transfer, or by the holder.
Unlock ==
    /\ holder # NoTask
    /\ holder' = NoTask
    /\ state'  = Awaken(state, wait)
    /\ wait'   = NoTask
    /\ UNCHANGED <<pc, tmp, ttyWait, chars, signal>>

-----------------------------------------------------------------------------
(* The terminal and its readers. *)

\* The loop of sleep_if_empty(), entered with states st and queue head q: sleep while there
\* is neither a signal nor a character, and otherwise take a character if there is one.
SleepIfEmpty(t, st, q) ==
    IF ~signal[t] /\ chars = 0
      THEN /\ tmp'     = [tmp EXCEPT ![t] = q]
           /\ ttyWait' = t
           /\ pc'      = [pc EXCEPT ![t] = "sleep_if_empty"]
           /\ state'   = AfterSignals([st EXCEPT ![t] = "INTERRUPTIBLE"])
           /\ UNCHANGED chars
      ELSE /\ chars'   = IF chars = 0 THEN 0 ELSE chars - 1
           /\ ttyWait' = q
           /\ pc'      = [pc EXCEPT ![t] = "user"]
           /\ tmp'     = [tmp EXCEPT ![t] = NoTask]
           /\ state'   = st

\* tty_read() of one character.
ReadTty(t) ==
    /\ Scheduled(t, "user")
    /\ SleepIfEmpty(t, state, ttyWait)
    /\ UNCHANGED <<wait, holder, signal>>

\* Mutated form: interruptible_sleep_on() leaves the queue without looking at its head.
InterruptibleSleepOnReturnKeepsHead(t) ==
    /\ Scheduled(t, "sleep_if_empty")
    /\ SleepIfEmpty(t, Awaken(state, tmp[t]), ttyWait)
    /\ UNCHANGED <<wait, holder, signal>>

\* interruptible_sleep_on() after schedule(): if the task is no longer the head of the queue it
\* wakes the head and sleeps again; otherwise it empties the queue and wakes the next task.
InterruptibleSleepOnReturn(t) ==
    /\ Scheduled(t, "sleep_if_empty")
    /\ IF ttyWait \notin {NoTask, t}
         THEN /\ state' = AfterSignals([Awaken(state, ttyWait) EXCEPT ![t] = "INTERRUPTIBLE"])
              /\ UNCHANGED <<pc, tmp, ttyWait, chars>>
         ELSE SleepIfEmpty(t, Awaken(state, tmp[t]), NoTask)
    /\ UNCHANGED <<wait, holder, signal>>

\* The keyboard interrupt: copy_to_cooked() stores a character and wakes the readers' head.
KeyboardInput ==
    /\ chars < MaxChars
    /\ chars'   = chars + 1
    /\ state'   = Awaken(state, ttyWait)
    /\ ttyWait' = NoTask
    /\ UNCHANGED <<pc, tmp, wait, holder, signal>>

-----------------------------------------------------------------------------
(* Signals, the clock and the end of a task. *)

\* send_sig() or tty_intr() marks a signal; the target sees it when schedule() next runs.
SendSignal(t) ==
    /\ pc[t] # "do_exit"
    /\ signal' = [signal EXCEPT ![t] = TRUE]
    /\ UNCHANGED <<state, pc, tmp, wait, holder, ttyWait, chars>>

\* do_timer() in user mode at the end of a quantum: schedule() looks at the signals.
Tick ==
    /\ state' = AfterSignals(state)
    /\ UNCHANGED <<pc, tmp, wait, holder, ttyWait, chars, signal>>

\* ret_from_sys_call: the signal is taken. It has a handler, or it ends the task in do_exit().
DoSignal(t) ==
    /\ Scheduled(t, "user")
    /\ signal[t]
    /\ signal' = [signal EXCEPT ![t] = FALSE]
    /\ \/ UNCHANGED <<state, pc>>
       \/ /\ pc'    = [pc EXCEPT ![t] = "do_exit"]
          /\ state' = AfterSignals([state EXCEPT ![t] = "ZOMBIE"])
    /\ UNCHANGED <<tmp, wait, holder, ttyWait, chars>>

-----------------------------------------------------------------------------
TaskStep(t) ==
    \/ \E w \in Wants : EnterLock(t, w) \/ SleepOnReturn(t, w)
    \/ ReadTty(t)
    \/ InterruptibleSleepOnReturn(t)
    \/ DoSignal(t)

Next ==
    \/ \E t \in Tasks : TaskStep(t) \/ SendSignal(t)
    \/ Unlock
    \/ KeyboardInput
    \/ Tick

Spec == Init /\ [][Next]_vars

\* schedule() picks every runnable task sooner or later, and every transfer ends.
Fairness ==
    /\ \A t \in Tasks : WF_vars(\E w \in Wants : SleepOnReturn(t, w))
    /\ WF_vars(Unlock)

FairSpec == Spec /\ Fairness

-----------------------------------------------------------------------------
(* Properties *)

\* Tasks inside sleep_on(), and those of them that are asleep.
InSleepOn == {t \in Tasks : pc[t] \in Wants}
Sleepers  == {t \in InSleepOn : state[t] = "UNINTERRUPTIBLE"}

\* No lost wakeup on the lock's queue. A set of sleepers that nobody outside it points to,
\* neither the queue's head nor the tmp of another task inside sleep_on(), would sleep for
\* ever: there is none. (So every sleeper is reached from the head or from a task that has
\* been woken.) And only a held lock has a queue, so that an unlock is still to come.
NoStrandedSleeper ==
    /\ \A S \in SUBSET Sleepers :
          S # {} => \/ wait \in S
                    \/ \E u \in InSleepOn \ S : tmp[u] \in S
    /\ holder = NoTask => wait = NoTask

\* The lock passes from one task to another only by being free in between: a task woken in
\* lock_buffer() while another task took the lock goes back to sleep.
LockNeverStolen == [][holder # NoTask => holder' \in {holder, NoTask}]_vars

\* The head of the terminal's queue is a task inside interruptible_sleep_on(), never one that
\* left it for a signal or has ended, whose task_struct wake_up() would then write to.
TtyHeadInside == ttyWait # NoTask => pc[ttyWait] = "sleep_if_empty"

\* Every task that sleeps for the lock is woken, however the tasks on its queue come and go.
EverySleeperWakes == \A t \in Tasks : t \in Sleepers ~> t \notin Sleepers

=============================================================================
