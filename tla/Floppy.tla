------------------------------- MODULE Floppy -------------------------------
(***************************************************************************)
(* The floppy driver, floppy.c, with the timers and motors of sched.c that *)
(* it runs on, and a task in floppy_change().                              *)
(*                                                                         *)
(* A step is an interrupt, of the clock or of the controller, or a task's  *)
(* step in the kernel; each runs to its end. What the controller answers,  *)
(* and whether it takes the bytes of a command (output_byte()), is chosen  *)
(* freely, but it answers within CommandTicks.                             *)
(*                                                                         *)
(* Left out are the transfer of the data (setup_DMA()), sides, sectors and *)
(* formats (a request is for a track), the diskettes that are too small    *)
(* for the request, and the order and the slots of the requests (Blk).     *)
(***************************************************************************)
EXTENDS Integers, Sequences, FiniteSets, Functions

CONSTANTS
    Tracks,       \* the tracks that are asked for
    MaxRequests,  \* bound: the requests that wait
    MAX_ERRORS,
    SpinTicks,    \* HZ/2: until a motor is at speed
    OffTicks,     \* 3*HZ: until the motor of a drive not in use goes off
    CommandTicks  \* bound: until the controller has answered

Drives == 0 .. 1
Never  == -1       \* 10000 ticks, "very big"

\* A seek and a transfer are over before the motor of a drive that is given up in between goes off.
ASSUME FloppyAssumption ==
    /\ Tracks \subseteq Nat /\ MaxRequests \in Nat \ {0} /\ MAX_ERRORS \in Nat
    /\ SpinTicks \in Nat \ {0, 1} /\ CommandTicks \in Nat
    /\ OffTicks \in Nat /\ OffTicks >= 2 + 2 * CommandTicks

VARIABLES
    fd,      \* the driver, the controller and the timers
    change,  \* the task that calls floppy_change(): the drive that it asks about, and where it is
    overtaken \* a request has started a second thread of work (Submit); the model is not followed beyond

fdVars == <<fd, change, overtaken>>

Handlers == {"rw", "seek", "recal", "reset"}

\* queue is the list of CURRENT, do_floppy the handler of the next interrupt, and busy the commands
\* that the controller has taken and will interrupt for; age is how long ago it took the last.
\* wake is what the step wakes.
FdInit ==
    /\ fd = [queue |-> <<>>, reset |-> FALSE, recalibrate |-> FALSE, seek |-> FALSE,
             current_drive |-> 0, current_track |-> 255, seek_track |-> 0, selected |-> FALSE,
             do_floppy |-> "none", busy |-> <<>>, age |-> 0,
             drive |-> 0, motors |-> {},                       \* current_DOR
             mon |-> [d \in Drives |-> 0], moff |-> [d \in Drives |-> 0],
             timers |-> <<>>,                                  \* next_timer
             wake |-> {}]
    /\ change = [at |-> "user", drive |-> 0]
    /\ overtaken = FALSE

-----------------------------------------------------------------------------
(* Timers and motors: sched.c. Operators take the state s and give the next. *)

\* add_timer() of a positive time: the list holds differences; what comes after the new timer is not
\* corrected.
AddTimer(s, ticks, fn) ==
    LET sum[i \in 0 .. Len(s.timers)] == IF i = 0 THEN 0 ELSE sum[i - 1] + s.timers[i].jiffies
        n == CHOOSE n \in 0 .. Len(s.timers) :
                /\ \A i \in 1 .. n : sum[i] < ticks
                /\ n = Len(s.timers) \/ sum[n + 1] >= ticks
    IN [s EXCEPT !.timers = SubSeq(@, 1, n) \o <<[jiffies |-> ticks - sum[n], fn |-> fn]>>
                            \o SubSeq(@, n + 1, Len(@))]

\* ticks_to_floppy_on(): mon[nr] is then the result. The drive is selected if none is in use.
ticks_to_floppy_on(s, nr) ==
    LET drive == IF s.selected THEN s.drive ELSE nr
    IN [s EXCEPT !.moff[nr] = Never, !.motors = @ \cup {nr}, !.drive = drive,
                 !.mon[nr] = IF nr \notin s.motors THEN SpinTicks
                             ELSE IF drive # s.drive /\ @ < 2 THEN 2 ELSE @]

FdTypeOK ==
    /\ Len(fd.queue) <= MaxRequests /\ fd.do_floppy \in Handlers \cup {"none"}
    /\ fd.drive \in Drives /\ fd.current_drive \in Drives /\ fd.motors \subseteq Drives /\ fd.wake = {}
    /\ \A d \in Drives : fd.mon[d] \in 0 .. SpinTicks /\ fd.moff[d] \in -1 .. OffTicks
    /\ change.at \in {"user", "on", "motor", "check", "select"}

floppy_off(s, nr) == [s EXCEPT !.moff[nr] = OffTicks]

\* do_floppy_timer()
MotorsTick(s) ==
    LET off == {d \in s.motors : s.mon[d] = 0 /\ s.moff[d] = 0}
    IN [s EXCEPT !.motors = @ \ off,
                 !.wake = IF change.drive \in s.motors /\ s.mon[change.drive] = 1 THEN @ \cup {"motor"} ELSE @,
                 !.mon = [d \in Drives |-> IF d \in s.motors /\ @[d] > 0 THEN @[d] - 1 ELSE @[d]],
                 !.moff = [d \in Drives |-> IF d \in s.motors /\ s.mon[d] = 0 /\ @[d] > 0 THEN @[d] - 1 ELSE @[d]]]

-----------------------------------------------------------------------------
(* The request function. ok says whether the controller takes the command. *)

\* reset_floppy(): whatever the controller was doing is gone.
reset_floppy(s) ==
    [s EXCEPT !.reset = FALSE, !.recalibrate = TRUE, !.do_floppy = "reset", !.busy = <<"reset">>, !.age = 0]

\* The handler is set and the bytes are sent; if they are not taken the driver resets at once.
Send(s, command, ok) ==
    IF ok /\ ~s.reset THEN [s EXCEPT !.do_floppy = command, !.busy = Append(@, command), !.age = 0]
    ELSE reset_floppy([s EXCEPT !.seek = FALSE])

\* recalibrate_floppy(): it is always drive 1 that is recalibrated.
recalibrate_floppy(s, ok) ==
    Send([s EXCEPT !.recalibrate = FALSE, !.current_track = 0, !.current_drive = 1], "recal", ok)

transfer(s, ok) == Send(s, IF s.seek THEN "seek" ELSE "rw", ok)

\* Mutated form: the drive is not selected again.
OnInterruptUnselected(s, ok) == transfer([s EXCEPT !.selected = TRUE], ok)

floppy_on_interrupt(s, ok) ==
    IF s.current_drive # s.drive
      THEN AddTimer([s EXCEPT !.selected = TRUE, !.drive = s.current_drive], 2, "transfer")
      ELSE transfer([s EXCEPT !.selected = TRUE], ok)

\* do_fd_request() of CURRENT, when neither a reset nor a recalibration is due.
StartRequest(s, ok) ==
    LET r == Head(s.queue)
        t == [ticks_to_floppy_on(s, r.drive) EXCEPT
                !.seek = s.current_drive # r.drive \/ s.current_track # r.track,
                !.current_drive = r.drive, !.seek_track = r.track]
    IN IF t.mon[r.drive] > 0 THEN AddTimer(t, t.mon[r.drive], "on") ELSE floppy_on_interrupt(t, ok)

do_fd_request(s, ok) ==
    CASE s.reset                                               -> reset_floppy([s EXCEPT !.seek = FALSE])
      [] ~s.reset /\ s.recalibrate                             -> recalibrate_floppy([s EXCEPT !.seek = FALSE], ok)
      [] ~s.reset /\ ~s.recalibrate /\ s.queue = <<>>          -> [s EXCEPT !.seek = FALSE]
      [] OTHER                                                 -> StartRequest(s, ok)

-----------------------------------------------------------------------------
(* Interrupts. *)

floppy_deselect(s) == [s EXCEPT !.selected = FALSE, !.wake = @ \cup {"select"}]

end_request(s) == [floppy_off(s, Head(s.queue).drive) EXCEPT !.queue = Tail(@)]

\* Mutated form: failures are not counted.
BadForEver(s) == [s EXCEPT !.recalibrate = TRUE]

\* bad_flp_intr(): after the last failure CURRENT is already another request, or none, when its
\* errors are looked at: what is read at the address 0 is not small.
bad_flp_intr(s) ==
    LET counted == [s EXCEPT !.queue[1].errors = @ + 1]
        t == IF counted.queue[1].errors > MAX_ERRORS THEN end_request(floppy_deselect(counted)) ELSE counted
    IN IF t.queue = <<>> \/ (t.queue # <<>> /\ t.queue[1].errors > MAX_ERRORS \div 2)
         THEN [t EXCEPT !.reset = TRUE] ELSE [t EXCEPT !.recalibrate = TRUE]

\* What the handler h does when the result is: good; bad; write protected; or none, when result()
\* times out.
Handler(s, h, result, ok) ==
    LET t == IF result = "none" THEN [s EXCEPT !.reset = TRUE] ELSE s
    IN CASE h = "rw" /\ result \in {"good", "protected"} -> do_fd_request(end_request(floppy_deselect(t)), ok)
         [] h = "seek" /\ result = "good"                -> Send([t EXCEPT !.current_track = t.seek_track], "rw", ok)
         [] h \in {"rw", "seek"} /\ result \in {"bad", "none"} -> do_fd_request(bad_flp_intr(t), ok)
         [] h = "recal"                                  ->
              do_fd_request(IF result = "good" THEN [t EXCEPT !.recalibrate = FALSE] ELSE [t EXCEPT !.reset = TRUE], ok)
         [] h = "reset"                                  -> do_fd_request(t, ok)
         [] OTHER                                        -> \* unexpected_floppy_interrupt()
              IF result = "good" THEN [t EXCEPT !.recalibrate = TRUE] ELSE [t EXCEPT !.reset = TRUE]

\* Every step but that of a new request.
GoesOn == ~overtaken /\ UNCHANGED overtaken

\* The step leads to state s: the task in floppy_change() is woken.
Become(s) ==
    /\ fd' = [s EXCEPT !.wake = {}]
    /\ change' = IF change.at \in s.wake
                   THEN [change EXCEPT !.at = IF @ = "motor" THEN "on" ELSE "check"] ELSE change

\* floppy_interrupt: the handler is taken and cleared. The result is a good one of a transfer or a
\* seek only if that is what the controller has done.
Interrupt(command, result, ok) ==
    /\ GoesOn /\ fd.busy # <<>> /\ Head(fd.busy) = command
    /\ result = "protected" => fd.do_floppy = "rw"
    /\ result = "good" /\ fd.do_floppy \in {"rw", "seek"} => command = fd.do_floppy
    /\ \E s \in {Handler([fd EXCEPT !.do_floppy = "none", !.busy = Tail(@)], fd.do_floppy, result, ok)} : Become(s)

\* do_timer(): the first timer is run when its time has come, then the motors are looked at.
Due == fd.timers # <<>> /\ Head(fd.timers).jiffies <= 1

FdTick ==
    /\ GoesOn /\ ~Due /\ (fd.busy = <<>> \/ fd.age < CommandTicks)
    /\ \E s \in {[fd EXCEPT !.timers = IF @ = <<>> THEN @ ELSE [fd.timers EXCEPT ![1].jiffies = @ - 1],
                            !.age = IF fd.busy = <<>> THEN 0 ELSE @ + 1]} : Become(MotorsTick(s))

TickRuns(ok) ==
    /\ GoesOn /\ Due /\ (fd.busy = <<>> \/ fd.age < CommandTicks)
    /\ \E s \in {[fd EXCEPT !.timers = Tail(@), !.age = IF fd.busy = <<>> THEN 0 ELSE @ + 1]} :
       \E t \in {IF Head(fd.timers).fn = "on" THEN floppy_on_interrupt(s, ok) ELSE transfer(s, ok)} :
          Become(MotorsTick(t))

-----------------------------------------------------------------------------
(* Tasks. *)

\* After the last request has failed the driver still resets the controller, or recalibrates (bad_flp_intr()).
StillResets == fd.queue = <<>> /\ fd.busy # <<>>

\* add_request(): the driver is started if there is no request, also when it still resets. Then it waits for two
\* things, unless the controller refuses the command and is reset once more: a second thread of work, which sets
\* the seek and the track of the first and ends at a CURRENT that is not there.
Submit(drive, track, ok) ==
    /\ ~overtaken
    /\ Len(fd.queue) < MaxRequests
    /\ \E s \in {[fd EXCEPT !.queue = Append(@, [drive |-> drive, track |-> track, errors |-> 0])]} :
       \E t \in {IF fd.queue = <<>> THEN do_fd_request(s, ok) ELSE s} :
          /\ Become(t)
          /\ overtaken' = (StillResets /\ Len(t.timers) + Len(t.busy) > 1)

ChangeCalled(d) == change.at = "user" /\ change' = [at |-> "on", drive |-> d] /\ GoesOn /\ UNCHANGED fd

\* floppy_on(): it sleeps until ticks_to_floppy_on() is 0.
FloppyOn ==
    /\ GoesOn /\ change.at = "on"
    /\ fd' = ticks_to_floppy_on(fd, change.drive)
    /\ change' = [change EXCEPT !.at = IF fd'.mon[change.drive] > 0 THEN "motor" ELSE "check"]

\* floppy_change() after floppy_on(), or after the sleep for the drive.
FloppySelected ==
    /\ GoesOn /\ change.at = "check"
    /\ IF fd.drive = change.drive
         THEN fd' = floppy_off(fd, change.drive) /\ change' = [at |-> "user", drive |-> 0]
         ELSE change' = [change EXCEPT !.at = IF fd.selected THEN "select" ELSE "on"] /\ UNCHANGED fd

Results == {"good", "bad", "protected", "none"}

FdNext ==
    \/ FdTick
    \/ \E ok \in BOOLEAN :
          \/ TickRuns(ok)
          \/ \E c \in Handlers, r \in Results : Interrupt(c, r, ok)
          \/ \E d \in Drives, track \in Tracks : Submit(d, track, ok)
    \/ \E d \in Drives : ChangeCalled(d)
    \/ FloppyOn \/ FloppySelected

\* The clock goes on and the controller answers. That it takes a command once in a while, and that
\* a reset and a recalibration work out, has to be assumed: the driver gives up a request after
\* MAX_ERRORS failures of its seeks and transfers, but those others it tries for ever.
FdFairness ==
    /\ WF_fdVars(FdTick) /\ SF_fdVars(TickRuns(TRUE))
    /\ \A c \in {"reset", "recal"} : SF_fdVars(Interrupt(c, "good", TRUE))
    /\ \A c \in {"seek", "rw"} : SF_fdVars(\E r \in Results : Interrupt(c, r, TRUE))

FdSpec == FdInit /\ [][FdNext]_fdVars /\ FdFairness

-----------------------------------------------------------------------------
(* What should hold. *)

\* While there is a request, the driver waits for exactly one thing, an interrupt or a timer: it
\* never stands still, and has no two threads of work that set each other's seek and track, but for the
\* one that a request starts while the driver still resets after the last one has failed (overtaken).
OneThread ==
    fd.queue # <<>> => Len(fd.timers) + Len(fd.busy) = 1

\* A transfer is on the drive of the request, which is selected, on its track, and its motor is on
\* and at speed.
TransferInPlace ==
    (fd.do_floppy = "rw" /\ fd.busy = <<"rw">>) =>
        /\ fd.drive = Head(fd.queue).drive /\ fd.selected
        /\ fd.current_track = Head(fd.queue).track
        /\ fd.drive \in fd.motors /\ fd.mon[fd.drive] < 2

\* The task in floppy_change() sleeps only for a motor that will be at speed, or for a drive that
\* is in use.
SleeperIsWoken ==
    /\ change.at = "motor" => fd.mon[change.drive] > 0 /\ change.drive \in fd.motors
    /\ change.at = "select" => fd.selected /\ fd.queue # <<>>

\* The driver between two events, until a request overtakes its reset: one thread of work, and nobody who
\* sleeps for nothing.
DriverConsistent == ~overtaken => FdTypeOK /\ OneThread /\ SleeperIsWoken /\ TransferInPlace

\* Every request is answered, unless one overtakes a reset.
RequestsEnd == []<>(fd.queue # <<>>) => <>overtaken \/ []<><<Len(fd'.queue) < Len(fd.queue)>>_fdVars
=============================================================================
