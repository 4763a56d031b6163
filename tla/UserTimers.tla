----------------------------- MODULE UserTimers -----------------------------
(***************************************************************************)
(* The periodic timers of kernel/timer.c. Tasks make them with             *)
(* sys_timer_create() and remove them with sys_timer_destroy(); every tick *)
(* of the clock, scan_user_timer_list() counts them down and posts a       *)
(* message for each that expires.                                          *)
(*                                                                         *)
(* The clock's interrupt gate turns interrupts off, but the malloc() and   *)
(* the sys_post_message() of an expiry turn them on: from the first expiry *)
(* to the end of the scan another tick may come, and the scan's steps are  *)
(* the memory accesses of the code that -O0 gives. A tick may also come    *)
(* anywhere in the system calls, but another task may not: the kernel is   *)
(* not preempted.                                                          *)
(*                                                                         *)
(* A timer is a number, in the order of creation; timer->type and UL->num  *)
(* are never read and left out. The order of the messages is in Messages.  *)
(***************************************************************************)
EXTENDS Integers, Sequences, FiniteSets, SequencesExt

CONSTANTS
    Periods,   \* the values of init_jiffies that programs ask for: milliseconds / 10
    MaxTimers, \* bound: timers ever created
    MaxNest,   \* bound: scans active at one time
    MaxCount   \* bound: how far from zero a counter is followed

ASSUME BoundsAssumption ==
    MaxTimers \in Nat /\ MaxNest \in Nat \ {0} /\ MaxCount \in Nat
ASSUME PeriodsAssumption == Periods \subseteq 0 .. MaxCount - 1

Timers == 1 .. MaxTimers
NoTimer == 0

VARIABLES
    UL,        \* the pointer UL: NULL, to a list with raw contents, or to a list
    timers,    \* the timers from UL->head->next to UL->rear
    left,      \* usr_jiffies of each timer
    period,    \* init_jiffies of each timer
    created,   \* timers created so far
    sysCall,   \* the system call in progress and how far it has got
    scans,     \* the active scans, innermost last
    wild,      \* a scan has followed the pointers of a raw list
    age,       \* history: ticks since each timer's creation or last expiry
    nested     \* history: a tick has come during a scan

timerVars == <<UL, timers, left, period, created, sysCall, scans, wild, age, nested>>

Scan == [tmp : Timers, pc : {"load", "store", "test", "expire"}, reg : Int, on : BOOLEAN]

TimersTypeOK ==
    /\ UL      \in {"null", "raw", "ready"}
    /\ timers  \in Seq(Timers)
    /\ left    \in [Timers -> Int]
    /\ period  \in [Timers -> Periods \cup {0}]
    /\ created \in 0 .. MaxTimers
    /\ sysCall \in [name : {"none", "create", "destroy"}, tmp : Timers \cup {NoTimer}]
    /\ scans   \in Seq(Scan)
    /\ Len(scans) \in 0 .. MaxNest
    /\ wild    \in BOOLEAN
    /\ age     \in [Timers -> Nat]
    /\ nested  \in BOOLEAN

NoCall == [name |-> "none", tmp |-> NoTimer]

TimersInit ==
    /\ UL      = "null"
    /\ timers  = <<>>
    /\ left    = [t \in Timers |-> 0]
    /\ period  = [t \in Timers |-> 0]
    /\ created = 0
    /\ sysCall = NoCall
    /\ scans   = <<>>
    /\ wild    = FALSE
    /\ age     = [t \in Timers |-> 0]
    /\ nested  = FALSE

-----------------------------------------------------------------------------
(* Operators on the list. *)

\* The timer's next, NoTimer at the end of the list.
NextOf(l, t) ==
    LET after == {i \in 2 .. Len(l) : l[i - 1] = t} IN
    IF after = {} THEN NoTimer ELSE l[CHOOSE i \in after : TRUE]

First(l) == IF l = <<>> THEN NoTimer ELSE l[1]

\* timer->usr_jiffies--. A timer that has got below zero does not expire for 2^32 ticks.
Decremented(n) == IF n = -MaxCount THEN n ELSE n - 1

Older(n) == IF n = MaxCount THEN n ELSE n + 1

Top == scans[Len(scans)]

\* The innermost scan goes on to the next timer, or ends; on says whether interrupts are on.
Advance(on) ==
    LET n == NextOf(timers, Top.tmp) IN
    IF n = NoTimer
      THEN scans' = SubSeq(scans, 1, Len(scans) - 1)
      ELSE scans' = [scans EXCEPT ![Len(scans)] = [tmp |-> n, pc |-> "load", reg |-> 0, on |-> on]]

-----------------------------------------------------------------------------
(* The clock. *)

\* timer_interrupt calls do_timer(), which calls scan_user_timer_list(): no task is in a scan,
\* or the innermost scan runs with interrupts on.
Tick ==
    /\ scans # <<>> => Top.on /\ Len(scans) < MaxNest
    /\ wild'   = (wild \/ UL = "raw")
    /\ scans'  = IF UL = "ready" /\ timers # <<>>
                   THEN Append(scans, [tmp |-> First(timers), pc |-> "load", reg |-> 0, on |-> FALSE])
                   ELSE scans
    /\ age'    = [t \in Timers |-> IF \E i \in DOMAIN timers : timers[i] = t
                                    THEN Older(age[t]) ELSE age[t]]
    /\ nested' = (nested \/ scans # <<>>)
    /\ UNCHANGED <<UL, timers, left, period, created, sysCall>>

ScanAt(pc) == scans # <<>> /\ Top.pc = pc

\* tmp->usr_jiffies--: the load.
Load ==
    /\ ScanAt("load")
    /\ scans' = [scans EXCEPT ![Len(scans)].pc = "store", ![Len(scans)].reg = Decremented(left[Top.tmp])]
    /\ UNCHANGED <<UL, timers, left, period, created, sysCall, wild, age, nested>>

\* tmp->usr_jiffies--: the store.
Store ==
    /\ ScanAt("store")
    /\ left'  = [left EXCEPT ![Top.tmp] = Top.reg]
    /\ scans' = [scans EXCEPT ![Len(scans)].pc = "test"]
    /\ UNCHANGED <<UL, timers, period, created, sysCall, wild, age, nested>>

\* if (tmp->usr_jiffies == 0), which reads the counter again.
Test ==
    /\ ScanAt("test")
    /\ IF left[Top.tmp] = 0
         THEN scans' = [scans EXCEPT ![Len(scans)].pc = "expire"]
         ELSE Advance(Top.on)
    /\ UNCHANGED <<UL, timers, left, period, created, sysCall, wild, age, nested>>

\* Mutated form: the counter is not reloaded.
ExpireNoReload ==
    /\ ScanAt("expire")
    /\ age'  = [age EXCEPT ![Top.tmp] = 0]
    /\ Advance(TRUE)
    /\ UNCHANGED <<UL, timers, left, period, created, sysCall, wild, nested>>

\* Mutated form: the scan ends with the first timer that expires.
ExpireEndsScan ==
    /\ ScanAt("expire")
    /\ left'  = [left EXCEPT ![Top.tmp] = period[Top.tmp]]
    /\ age'   = [age EXCEPT ![Top.tmp] = 0]
    /\ scans' = SubSeq(scans, 1, Len(scans) - 1)
    /\ UNCHANGED <<UL, timers, period, created, sysCall, wild, nested>>

\* The timer is reloaded and its message posted; malloc() and sys_post_message() do sti().
Expire ==
    /\ ScanAt("expire")
    /\ left' = [left EXCEPT ![Top.tmp] = period[Top.tmp]]
    /\ age'  = [age EXCEPT ![Top.tmp] = 0]
    /\ Advance(TRUE)
    /\ UNCHANGED <<UL, timers, period, created, sysCall, wild, nested>>

-----------------------------------------------------------------------------
(* The system calls. *)

InTask(name) == scans = <<>> /\ sysCall.name = name

\* sys_timer_create() and, for the first timer, UL = malloc(...): UserTimer_Init() has yet to
\* set the pointers in *UL, and interrupts are on.
TimerCreate(p) ==
    /\ InTask("none")
    /\ created < MaxTimers
    /\ created' = created + 1
    /\ left'    = [left EXCEPT ![created'] = p]
    /\ period'  = [period EXCEPT ![created'] = p]
    /\ sysCall' = [name |-> "create", tmp |-> created']
    /\ UL'      = IF UL = "null" THEN "raw" ELSE UL
    /\ UNCHANGED <<timers, scans, wild, age, nested>>

\* The rest of UserTimer_Init() and insert_user_timer(): the timer is appended under cli().
InsertUserTimer ==
    /\ InTask("create")
    /\ UL'      = "ready"
    /\ timers'  = Append(timers, sysCall.tmp)
    /\ sysCall' = NoCall
    /\ UNCHANGED <<left, period, created, scans, wild, age, nested>>

\* sys_timer_destroy(-1), which every timer's pid matches; without a list it returns -1.
TimerDestroy ==
    /\ InTask("none")
    /\ UL = "ready"
    /\ sysCall' = [name |-> "destroy", tmp |-> First(timers)]
    /\ UNCHANGED <<UL, timers, left, period, created, scans, wild, age, nested>>

\* One turn of the loop of sys_timer_destroy(): remove_user_timer(tmp) looks for the timer
\* whose next is tmp, from UL->head->next on. It does not find the first timer's.
RemoveUserTimer ==
    /\ InTask("destroy")
    /\ LET u == sysCall.tmp IN
         IF u = NoTimer
           THEN /\ sysCall' = NoCall
                /\ UNCHANGED timers
           ELSE /\ sysCall' = [sysCall EXCEPT !.tmp = NextOf(timers, u)]
                /\ timers'  = IF u = First(timers)
                                THEN timers
                                ELSE RemoveAt(timers, CHOOSE i \in DOMAIN timers : timers[i] = u)
    /\ UNCHANGED <<UL, left, period, created, scans, wild, age, nested>>

-----------------------------------------------------------------------------
ScanStep == Load \/ Store \/ Test \/ Expire

TimersNext ==
    \/ Tick
    \/ ScanStep
    \/ \E p \in Periods : TimerCreate(p)
    \/ InsertUserTimer
    \/ TimerDestroy
    \/ RemoveUserTimer

TimersSpec == TimersInit /\ [][TimersNext]_timerVars

\* The clock ticks, and a processor that is not interrupted goes on with the scan.
TimersFairSpec == TimersSpec /\ WF_timerVars(Tick) /\ WF_timerVars(ScanStep)

-----------------------------------------------------------------------------
(* Properties *)

\* The scans that have still to count the timer at place i down for their tick.
Pending(i) ==
    {k \in DOMAIN scans :
        \/ scans[k].pc \in {"load", "store"} /\ timers[i] = scans[k].tmp
        \/ \E j \in 1 .. i - 1 : timers[j] = scans[k].tmp}

\* The timer at place i has been counted down once for every tick, and not past zero.
OnTime(i) ==
    LET t == timers[i] IN
    /\ age[t] + left[t] = period[t] + Cardinality(Pending(i))
    /\ left[t] \in 0 .. period[t]
    /\ left[t] = 0 => \E k \in DOMAIN scans : scans[k].tmp = t /\ scans[k].pc \in {"test", "expire"}

\* The first timer of the list never misses a tick and expires exactly at every period: the
\* scan counts it down before its first sti(). (A period of zero jiffies never expires.)
FirstOnTime == timers # <<>> /\ period[First(timers)] # 0 => OnTime(1)

\* The other timers miss ticks, expire twice or get stuck below zero only after a tick has
\* come during a scan.
AllOnTimeUnlessNested ==
    ~nested => \A i \in DOMAIN timers : period[timers[i]] # 0 => OnTime(i)

\* What scan_user_timer_list() promises of its countdowns.
CountdownsRight == TimersTypeOK /\ FirstOnTime /\ AllOnTimeUnlessNested

\* The first timer goes on expiring for ever.
FirstGoesOnExpiring ==
    \A t \in Timers :
        [](First(timers) = t /\ period[t] # 0 => <>(ScanAt("expire") /\ Top.tmp = t))

=============================================================================
