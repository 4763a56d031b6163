------------------------------ MODULE Signals ------------------------------
(***************************************************************************)
(* One task and its signals: signal.c, the alarm and the pause of sched.c, *)
(* sys_sleep() of sleep.c and the return to user mode of system_call.s.    *)
(*                                                                         *)
(* The registers that do_signal() puts on the user's stack are a frame     *)
(* with the mask that the handler's restorer, which is in the library of   *)
(* the program, sets again. Programs set handlers and the mask only when   *)
(* no handler of theirs is running. A signal that ends the task is not     *)
(* followed further (Process).                                             *)
(***************************************************************************)
EXTENDS Naturals, FiniteSets, Sequences

CONSTANT MaxFrames   \* bound: handlers that run one inside another

MaxFramesAssumption == MaxFrames \in Nat

VARIABLES
    me,      \* the task: signal, blocked, sigaction, alarm (is one set?), where it is, and the
             \* local variable old_blocked of sys_sleep()
    frames,  \* the frames of its handlers on the user's stack, the innermost last
    mask     \* history: the mask that the program has set

signalVars == <<me, frames, mask>>

Number    == [USR1 |-> 10, ALRM |-> 14]
Sigs      == DOMAIN Number
Masks     == SUBSET Sigs
Handlers  == {"DFL", "IGN", "caught"}
NoMask    == [nomask |-> TRUE, saved |-> {}]
Frames    == [nomask : BOOLEAN, saved : Masks]
Action    == [handler : Handlers, oneshot : BOOLEAN, nomask : BOOLEAN, mask : Masks]

SignalsTypeOK ==
    /\ me \in [signal : Masks, blocked : Masks, sigaction : [Sigs -> Action], alarm : BOOLEAN,
               pc : {"user", "pause", "sleep", "do_exit"}, awake : BOOLEAN, old_blocked : Masks]
    /\ Len(frames) <= MaxFrames /\ \A i \in DOMAIN frames : frames[i] \in Frames
    /\ mask \in Masks

Default == [handler |-> "DFL", oneshot |-> FALSE, nomask |-> FALSE, mask |-> {}]

SignalsInit ==
    /\ me = [signal |-> {}, blocked |-> {}, sigaction |-> [s \in Sigs |-> Default], alarm |-> FALSE,
             pc |-> "user", awake |-> TRUE, old_blocked |-> {}]
    /\ frames = <<>>
    /\ mask = {}

-----------------------------------------------------------------------------
Deliverable == me.signal \ me.blocked

\* The task runs in user mode, outside its handlers.
InMain == me.pc = "user" /\ frames = <<>>

\* A signal of another task, or an alarm that is due, and with it the first loop of schedule().
Arrive(s) ==
    /\ me.pc # "do_exit"
    /\ s = "ALRM" => me.alarm
    /\ me' = [me EXCEPT !.signal = @ \cup {s}, !.alarm = @ /\ s # "ALRM",
                        !.awake = @ \/ s \notin me.blocked]
    /\ UNCHANGED <<frames, mask>>

sys_ssetmask(m) ==
    /\ InMain
    /\ me' = [me EXCEPT !.blocked = m]
    /\ mask' = m
    /\ UNCHANGED frames

SetAction(s, action) == me' = [me EXCEPT !.sigaction[s] = action]

\* sys_signal() makes a handler that is forgotten when it is called, and blocks nothing.
sys_signal(s, h) ==
    /\ InMain
    /\ SetAction(s, [handler |-> h, oneshot |-> TRUE, nomask |-> TRUE, mask |-> {}])
    /\ UNCHANGED <<frames, mask>>

\* sys_sigaction() adds the signal to the mask of its handler, if that has one.
sys_sigaction(s, nomask, m) ==
    /\ InMain
    /\ SetAction(s, [handler |-> "caught", oneshot |-> FALSE, nomask |-> nomask,
                     mask |-> IF nomask THEN {} ELSE m \cup {s}])
    /\ UNCHANGED <<frames, mask>>

sys_alarm(set) == InMain /\ me' = [me EXCEPT !.alarm = set] /\ UNCHANGED <<frames, mask>>

\* schedule() does not make a task sleep that has a signal to take.
Pause(t) == [t EXCEPT !.awake = t.signal \ t.blocked # {}]

sys_pause ==
    /\ InMain
    /\ me' = Pause([me EXCEPT !.pc = "pause"])
    /\ UNCHANGED <<frames, mask>>

\* sys_sleep() up to its pause. Every signal but SIGALRM is unblocked; SIGALRM stays blocked if
\* it was. sleep(0) sets no alarm, and takes away the one there is.
sys_sleep(zero) ==
    /\ InMain
    /\ me' = Pause([me EXCEPT !.old_blocked = me.blocked, !.blocked = @ \cap {"ALRM"},
                              !.alarm = ~zero, !.pc = "sleep"])
    /\ UNCHANGED <<frames, mask>>

\* The end of the pause, and of sys_sleep(): SIGALRM is ignored from then on.
WakeUp ==
    /\ me.pc \in {"pause", "sleep"}
    /\ me.awake
    /\ me' = IF me.pc = "pause" THEN [me EXCEPT !.pc = "user"]
             ELSE [me EXCEPT !.pc = "user", !.blocked = me.old_blocked, !.old_blocked = {},
                             !.sigaction["ALRM"] = [handler |-> "IGN", oneshot |-> TRUE,
                                                    nomask |-> TRUE, mask |-> {}]]
    /\ UNCHANGED <<frames, mask>>

\* ret_from_sys_call takes the deliverable signal with the lowest number.
Next1 == CHOOSE s \in Deliverable : \A x \in Deliverable : Number[s] <= Number[x]

\* Mutated form: the mask of the handler is saved.
FrameOfHandler(sa) ==
    IF sa.nomask THEN NoMask ELSE [nomask |-> FALSE, saved |-> me.blocked \cup sa.mask]

\* What do_signal() puts on the user's stack.
Frame(sa) == IF sa.nomask THEN NoMask ELSE [nomask |-> FALSE, saved |-> me.blocked]

do_signal ==
    /\ me.pc = "user"
    /\ Deliverable # {}
    /\ LET s  == Next1
           sa == me.sigaction[s]
           taken == [me EXCEPT !.signal = @ \ {s}]
       IN \/ sa.handler = "IGN" /\ me' = taken /\ UNCHANGED frames
          \/ sa.handler = "DFL" /\ me' = [taken EXCEPT !.pc = "do_exit"] /\ UNCHANGED frames
          \/ /\ sa.handler = "caught"
             /\ Len(frames) < MaxFrames
             /\ me' = [taken EXCEPT !.sigaction[s].handler = IF sa.oneshot THEN "DFL" ELSE @,
                                    !.blocked = @ \cup sa.mask]
             /\ frames' = Append(frames, Frame(sa))
    /\ UNCHANGED mask

\* The handler returns to its restorer.
HandlerReturn ==
    /\ me.pc = "user"
    /\ frames # <<>>
    /\ LET f == frames[Len(frames)]
       IN me' = IF f.nomask THEN me ELSE [me EXCEPT !.blocked = f.saved]
    /\ frames' = SubSeq(frames, 1, Len(frames) - 1)
    /\ UNCHANGED mask

SignalsNext ==
    \/ \E s \in Sigs : Arrive(s)
    \/ \E m \in Masks : sys_ssetmask(m)
    \/ \E s \in Sigs, h \in Handlers : sys_signal(s, h)
    \/ \E s \in Sigs, nomask \in BOOLEAN, m \in Masks : sys_sigaction(s, nomask, m)
    \/ \E b \in BOOLEAN : sys_alarm(b) \/ sys_sleep(b)
    \/ sys_pause \/ WakeUp \/ do_signal \/ HandlerReturn

\* Time passes, so that an alarm is delivered, and the scheduler starves nobody (Sched).
SignalsSpec == /\ SignalsInit /\ [][SignalsNext]_signalVars
               /\ WF_signalVars(Arrive("ALRM")) /\ WF_signalVars(WakeUp)

-----------------------------------------------------------------------------
(* What should hold. *)

\* However signals arrive during handlers and sleeps, the program has the mask that it has set
\* whenever no handler of its own is running: neither a handler that is interrupted by another
\* nor a sleep that is cut short changes it for good.
MaskComesBack == InMain => me.blocked = mask

\* sys_sleep() ends, when the number of seconds is not 0 and SIGALRM was not blocked. The alarm
\* cannot come between its setting and the pause.
SleepEnds == (me.pc = "sleep" /\ me.alarm /\ "ALRM" \notin me.blocked) ~> me.pc # "sleep"
=============================================================================
