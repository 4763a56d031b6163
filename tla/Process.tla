------------------------------ MODULE Process ------------------------------
(***************************************************************************)
(* Processes: fork.c, exit.c and the part of signal.c and sched.c by which *)
(* signals end and wake tasks.                                             *)
(*                                                                         *)
(* A step is what a task does between two calls of schedule(). An exit has *)
(* two, because the close of its files may sleep between them. KILL stands *)
(* for every signal that ends the task; that it comes while the task is in *)
(* user mode is the same as an exit.                                       *)
(*                                                                         *)
(* Left out are user ids, groups and sessions (a waitpid() is for one pid  *)
(* or for any), exit codes, times, stopped tasks, which the code never     *)
(* makes, handlers and alarms (Signals), and fork()'s copy of the memory   *)
(* (Memory) and of the files.                                              *)
(***************************************************************************)
EXTENDS Naturals, FiniteSets

CONSTANTS
    NrSlots,  \* the slots of task[] after task[0]; slot 1 is the first to be used, by init
    MaxPid,   \* the pid after which ++last_pid is negative
    Maskers,  \* bound: the slots whose tasks block SIGCHLD
    InitStays \* bound: does nobody end init, which does not exit by itself (init/main.c)?

ASSUME NrSlotsAssumption == NrSlots \in Nat /\ NrSlots > 0
ASSUME MaxPidAssumption == MaxPid \in Nat /\ MaxPid > NrSlots

Slots == 1 .. NrSlots

VARIABLES
    task,      \* task[]
    last_pid

vars == <<task, last_pid>>

Signals  == {"KILL", "CHLD"}
Pids     == 1 .. MaxPid
Any      == 0                          \* waitpid(-1)
Pcs      == {"user", "waitpid", "do_exit"}

Free  == [pid |-> 0, father |-> 0, state |-> "FREE", signal |-> {}, blocked |-> FALSE,
          pc |-> "user", arg |-> Any]
Used  == {s \in Slots : task[s].state # "FREE"}
Alive == {s \in Used : task[s].state # "ZOMBIE"}

\* blocked says whether SIGCHLD is; arg is the argument of waitpid().
TypeOK ==
    /\ task \in [Slots -> [pid : 0 .. MaxPid, father : 0 .. MaxPid,
                           state : {"FREE", "RUNNING", "INTERRUPTIBLE", "ZOMBIE"},
                           signal : SUBSET Signals, blocked : BOOLEAN, pc : Pcs, arg : 0 .. MaxPid]]
    /\ last_pid \in Pids

Init ==
    /\ task = [s \in Slots |-> IF s = 1 THEN [Free EXCEPT !.pid = 1, !.state = "RUNNING"] ELSE Free]
    /\ last_pid = 1

-----------------------------------------------------------------------------
(* The scheduler. *)

\* The signals that are pending and not blocked.
Pending(t) == t.signal \ (IF t.blocked THEN {"CHLD"} ELSE {})

\* The first loop of schedule(), which the timer and task[0] call all the time: those who sleep
\* interruptibly and have a signal are woken.
Schedule ==
    /\ task' = [s \in Slots |-> IF task[s].state = "INTERRUPTIBLE" /\ Pending(task[s]) # {}
                                  THEN [task[s] EXCEPT !.state = "RUNNING"] ELSE task[s]]
    /\ UNCHANGED last_pid

\* The task in slot s can run, and is at place p.
At(s, p) == task[s].state = "RUNNING" /\ task[s].pc = p

-----------------------------------------------------------------------------
(* fork() *)

\* How many times ++last_pid is done until it is pid.
Steps(pid) == IF pid > last_pid THEN pid - last_pid ELSE (MaxPid - last_pid) + pid

\* Mutated form: only the running tasks are looked through for the pid.
FreshPidAlive(pid) == ~ \E s \in Alive : task[s].pid = pid

FreshPid(pid) == ~ \E s \in Used : task[s].pid = pid

\* find_empty_process(): the first pid after last_pid that no task has, and the first free slot.
\* last_pid is changed also when there is none.
find_empty_process ==
    LET fresh == {p \in Pids : FreshPid(p)}
    IN last_pid' = CHOOSE p \in fresh : \A q \in fresh : Steps(p) <= Steps(q)

\* copy_process(): a copy of the father without its signals.
Fork(s) ==
    /\ At(s, "user")
    /\ find_empty_process
    /\ LET free == Slots \ Used
           nr == CHOOSE i \in free : \A j \in free : i <= j
       IN task' = IF free = {} THEN task
                  ELSE [task EXCEPT ![nr] = [task[s] EXCEPT !.pid = last_pid', !.father = task[s].pid,
                                                            !.signal = {}]]

-----------------------------------------------------------------------------
(* exit() and waitpid() *)

\* do_exit() gives the children to task 1, and tells the task in slot 1 of those that have ended.
Reparent(s) ==
    LET children == {i \in Used : task[i].father = task[s].pid}
        t1 == [i \in Slots |-> IF i \in children THEN [task[i] EXCEPT !.father = 1] ELSE task[i]]
    IN IF 1 \in Used /\ \E i \in children : task[i].state = "ZOMBIE"
         THEN [t1 EXCEPT ![1].signal = @ \cup {"CHLD"}] ELSE t1

\* do_exit(), up to the close of the files.
do_exit(s) == task' = [Reparent(s) EXCEPT ![s].pc = "do_exit"]

\* Is the task one that may end?
Mortal(s) == ~(InitStays /\ task[s].pid = 1)

Exit(s) == Mortal(s) /\ At(s, "user") /\ do_exit(s) /\ UNCHANGED last_pid

\* Mutated form: the father is not told.
TellNobody(s) ==
    [task EXCEPT ![s] = [Free EXCEPT !.pid = task[s].pid, !.father = task[s].father, !.state = "ZOMBIE"]]

\* tell_father(): if there is none, the task releases itself.
tell_father(s) ==
    LET fathers == {i \in Used : task[i].pid = task[s].father}
        zombie == [task EXCEPT ![s] = [Free EXCEPT !.pid = task[s].pid, !.father = task[s].father,
                                                   !.state = "ZOMBIE"]]
    IN IF task[s].father = 0 \/ fathers = {} THEN [task EXCEPT ![s] = Free]
       ELSE [zombie EXCEPT ![CHOOSE i \in fathers : TRUE].signal = @ \cup {"CHLD"}]

\* The rest of do_exit(). Nothing but the pids of a zombie is read again.
Zombie(s) == At(s, "do_exit") /\ task' = tell_father(s) /\ UNCHANGED last_pid

\* The children that a waitpid(arg) of the task in slot s looks at.
Children(s, arg) == {i \in Used \ {s} : task[i].father = task[s].pid /\ arg \in {Any, task[i].pid}}
Ended(s, arg)    == {i \in Children(s, arg) : task[i].state = "ZOMBIE"}

\* sys_waitpid() from repeat: the child in the last slot is released, or there is none to wait
\* for, or the task sleeps. (schedule(), which release() calls, changes nothing that is read
\* after it.)
waitpid(s, arg) ==
    LET ended == Ended(s, arg)
        i == CHOOSE i \in ended : \A j \in ended : i >= j
        back == [task EXCEPT ![s].pc = "user", ![s].arg = Any, ![s].state = "RUNNING"]
    IN IF ended # {} THEN [back EXCEPT ![i] = Free]
       ELSE IF Children(s, arg) = {} THEN back
       ELSE [task EXCEPT ![s].pc = "waitpid", ![s].arg = arg, ![s].state = "INTERRUPTIBLE"]

Waitpid(s, arg) == At(s, "user") /\ task' = waitpid(s, arg) /\ UNCHANGED last_pid

\* sys_waitpid() after schedule(): SIGCHLD is taken, and if another signal is left, blocked or
\* not, it returns -EINTR.
WaitpidReturn(s) ==
    /\ At(s, "waitpid")
    /\ LET rest == task[s].signal \ {"CHLD"}
       IN task' = IF rest # {}
                    THEN [task EXCEPT ![s].pc = "user", ![s].arg = Any, ![s].signal = rest]
                    ELSE [waitpid(s, task[s].arg) EXCEPT ![s].signal = {}]
    /\ UNCHANGED last_pid

-----------------------------------------------------------------------------
(* Signals. *)

\* send_sig()
SendKill(s) ==
    /\ Mortal(s)
    /\ task[s].pc = "waitpid"
    /\ task' = [task EXCEPT ![s].signal = @ \cup {"KILL"}]
    /\ UNCHANGED last_pid

\* The return to user mode takes a pending signal to do_signal(), that with the lowest number
\* first: SIGKILL ends the task, and SIGCHLD has no effect by default.
DoSignal(s) ==
    /\ At(s, "user")
    /\ Pending(task[s]) # {}
    /\ IF "KILL" \in task[s].signal THEN do_exit(s)
       ELSE task' = [task EXCEPT ![s].signal = @ \ {"CHLD"}]
    /\ UNCHANGED last_pid

\* sys_ssetmask()
Mask(s, b) == s \in Maskers /\ At(s, "user") /\ task' = [task EXCEPT ![s].blocked = b] /\ UNCHANGED last_pid

\* The kernel's own part of a task's steps.
InKernel(s) == Zombie(s) \/ WaitpidReturn(s) \/ DoSignal(s)

Next ==
    \/ Schedule
    \/ \E s \in Slots :
          \/ InKernel(s) \/ Fork(s) \/ Exit(s) \/ SendKill(s)
          \/ \E arg \in 0 .. MaxPid : Waitpid(s, arg)
          \/ \E b \in BOOLEAN : Mask(s, b)

\* schedule() is called again and again, and starves nobody (Sched).
Spec == Init /\ [][Next]_vars /\ WF_vars(Schedule) /\ \A s \in Slots : WF_vars(InKernel(s))

-----------------------------------------------------------------------------
(* What should hold. *)

InitAlive == 1 \in Alive /\ task[1].pid = 1

\* find_empty_process() never gives a pid twice, also after last_pid has wrapped and while zombies
\* still have theirs: getpid(), kill() and waitpid() mean one task.
PidsUnique == \A i, j \in Used : i # j => task[i].pid # task[j].pid

\* "assumption task[1] is always init": as long as it is, every zombie has a father that has not
\* ended, who can release it, whatever the order in which fathers and children end.
ZombieHasFather ==
    InitAlive => \A z \in Used \ Alive : \E s \in Alive : task[s].pid = task[z].father

\* So a father that has not blocked SIGCHLD comes out of waitpid() when the child has ended.
WaitEnds ==
    \A s \in Slots :
        (InitAlive /\ task[s].pc = "waitpid" /\ Ended(s, task[s].arg) # {} /\ ~task[s].blocked)
          ~> (task[s].pc # "waitpid" \/ ~InitAlive)

=============================================================================
