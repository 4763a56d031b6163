------------------------------- MODULE Sched -------------------------------
(***************************************************************************)
(* The scheduler of kernel/sched.c: schedule(), the quantum that           *)
(* do_timer() counts down, sys_nice(), and the calls of schedule() in      *)
(* sleep_on(), at the end of a system call and in the idle task.           *)
(*                                                                         *)
(* What a task sleeps for is left out: a sleeper is woken at any time, by  *)
(* an interrupt or by another task (SleepQueue has the queues, Signals the *)
(* signals). The kernel is not preempted: a tick in kernel mode takes from *)
(* the quantum but does not call schedule().                               *)
(***************************************************************************)
EXTENDS Integers

CONSTANTS
    NTasks,      \* tasks besides task[0], in the slots 1 .. NTasks of task[]
    Increments,  \* the arguments of nice()
    MaxPriority  \* bound: the priority that a negative increment may reach

ASSUME NTasksAssumption == NTasks \in Nat
ASSUME IncrementsAssumption == Increments \subseteq Int
ASSUME MaxPriorityAssumption == MaxPriority \in Nat \ {0}

Tasks == 1 .. NTasks
Idle  == 0           \* task[0], which schedule() picks when no other task is runnable

VARIABLES
    state,     \* is the task runnable, or asleep in sleep_on()?
    counter,   \* ticks left of its quantum
    priority,
    mode,      \* the mode that the task runs in, or will when it is picked again
    current    \* the slot of the task that runs

vars == <<state, counter, priority, mode, current>>

TypeOK ==
    /\ state    \in [Tasks -> {"RUNNING", "UNINTERRUPTIBLE"}]
    /\ counter  \in [Tasks -> 0 .. 2 * MaxPriority - 1]
    /\ priority \in [Tasks -> 1 .. MaxPriority]
    /\ mode     \in [Tasks -> {"user", "kernel"}]
    /\ current  \in Tasks \cup {Idle}

\* Each task has its full quantum, and init, the task in slot 1, or the idle task runs.
Init ==
    /\ state    = [t \in Tasks |-> "RUNNING"]
    /\ priority \in [Tasks -> 1 .. MaxPriority]
    /\ counter  = priority
    /\ mode     = [t \in Tasks |-> "user"]
    /\ current  = Idle

-----------------------------------------------------------------------------
(* schedule() *)

Runnable(st) == {t \in Tasks : st[t] = "RUNNING"}

\* The tasks that the scan from the last slot to the first compares: the greatest counter
\* wins, and among equal counters the task that is met first, which has the highest slot.
Picks(t, st, ctr) ==
    /\ t \in Runnable(st)
    /\ \A u \in Runnable(st) : \/ ctr[u] < ctr[t]
                               \/ ctr[u] = ctr[t] /\ u <= t

\* Every task gets its quantum again and keeps half of what is left of the last one.
Reloaded(ctr) == [t \in Tasks |-> ctr[t] \div 2 + priority[t]]

\* The counters that the last turn of the loop sees: reloaded if the runnable tasks have all
\* used theirs up (no task runnable gives c = -1, which ends the loop too).
Considered(st, ctr) ==
    IF Runnable(st) # {} /\ \A t \in Runnable(st) : ctr[t] = 0 THEN Reloaded(ctr) ELSE ctr

\* schedule(), entered with the states st and the counters ctr.
schedule(st, ctr) ==
    /\ counter' = Considered(st, ctr)
    /\ current' \in Tasks \cup {Idle}
    /\ IF Runnable(st) = {} THEN current' = Idle ELSE Picks(current', st, Considered(st, ctr))

-----------------------------------------------------------------------------
(* The clock. *)

\* --current->counter, which do_timer() does not leave below zero.
CountedDown == [t \in Tasks |-> IF t = current /\ counter[t] > 0 THEN counter[t] - 1 ELSE counter[t]]

\* Mutated form: a tick in user mode does not end the quantum.
DoTimerKeepsTask ==
    /\ current # Idle
    /\ counter' = CountedDown
    /\ UNCHANGED <<state, priority, mode, current>>

\* do_timer(): the quantum is used up when its last tick comes; in user mode the task is then
\* preempted. (Every tick is the last of the idle task's, which calls schedule(): IdlePause.)
do_timer ==
    /\ current # Idle
    /\ IF CountedDown[current] = 0 /\ mode[current] = "user"
         THEN schedule(state, CountedDown)
         ELSE counter' = CountedDown /\ UNCHANGED current
    /\ UNCHANGED <<state, priority, mode>>

-----------------------------------------------------------------------------
(* System calls. *)

InKernel == current # Idle /\ mode[current] = "kernel"

\* int 0x80 in user mode.
system_call ==
    /\ current # Idle
    /\ mode[current] = "user"
    /\ mode' = [mode EXCEPT ![current] = "kernel"]
    /\ UNCHANGED <<state, counter, priority, current>>

\* The end of a system call: a task whose quantum was used up in kernel mode is rescheduled.
ret_from_sys_call ==
    /\ InKernel
    /\ mode' = [mode EXCEPT ![current] = "user"]
    /\ IF counter[current] = 0
         THEN schedule(state, counter)
         ELSE UNCHANGED <<counter, current>>
    /\ UNCHANGED <<state, priority>>

\* sleep_on() in a system call.
sleep_on ==
    /\ InKernel
    /\ state' = [state EXCEPT ![current] = "UNINTERRUPTIBLE"]
    /\ schedule(state', counter)
    /\ UNCHANGED <<priority, mode>>

\* Mutated form: a priority of zero is let through.
NiceToZero(increment) ==
    /\ InKernel
    /\ priority[current] - increment \in 0 .. MaxPriority
    /\ priority' = [priority EXCEPT ![current] = priority[current] - increment]
    /\ UNCHANGED <<state, counter, mode, current>>

\* sys_nice(), up to the bound; an increment that would make the priority zero is ignored.
sys_nice(increment) ==
    /\ InKernel
    /\ priority[current] - increment > 0
    /\ priority[current] - increment <= MaxPriority
    /\ priority' = [priority EXCEPT ![current] = priority[current] - increment]
    /\ UNCHANGED <<state, counter, mode, current>>

\* What a sleeping task waits for has happened.
wake_up(t) ==
    /\ state[t] = "UNINTERRUPTIBLE"
    /\ state' = [state EXCEPT ![t] = "RUNNING"]
    /\ UNCHANGED <<counter, priority, mode, current>>

\* The idle task: pause() for ever, which is schedule() for task[0].
IdlePause ==
    /\ current = Idle
    /\ schedule(state, counter)
    /\ UNCHANGED <<state, priority, mode>>

-----------------------------------------------------------------------------
Next ==
    \/ do_timer
    \/ system_call
    \/ ret_from_sys_call
    \/ sleep_on
    \/ \E increment \in Increments : sys_nice(increment)
    \/ \E t \in Tasks : wake_up(t)
    \/ IdlePause

Spec == Init /\ [][Next]_vars

\* The clock ticks, a system call that does not sleep ends, and the idle task goes on.
FairSpec ==
    /\ Spec
    /\ WF_vars(do_timer)
    /\ WF_vars(ret_from_sys_call)
    /\ WF_vars(IdlePause)

-----------------------------------------------------------------------------
(* Properties *)

\* Every runnable task gets the processor in the end, whatever the priorities, however the
\* others sleep and wake to renew their quantum, and wherever the ticks fall.
NoStarvation == \A t \in Tasks : state[t] = "RUNNING" ~> current = t

\* A task is never picked with no quantum left: schedule()'s loop, which ends only with a
\* counter that is not zero, needs one reload at most. And the idle task gets the processor only
\* when no other task is runnable.
PicksRight ==
    [][/\ current' \notin {current, Idle} => counter'[current'] > 0
       /\ current' = Idle /\ current # Idle => Runnable(state') = {}]_vars

=============================================================================
