-------------------------------- MODULE Blk --------------------------------
(***************************************************************************)
(* Block requests: ll_rw_block() and the request list of                   *)
(* kernel/blk_drv/ll_rw_blk.c and blk.h, and the hard disk driver hd.c,    *)
(* for one partition of one disk.                                          *)
(*                                                                         *)
(* The kernel is not preempted: a task runs until it sleeps, and only the  *)
(* interrupt of the disk comes in between; the place where that matters is *)
(* between the search for a free request and sleep_on(&wait_for_request).  *)
(* Waiting for a lock is a guard, and a wakeup of wait_for_request wakes   *)
(* all its sleepers (SleepQueue shows that it does, one after another).    *)
(*                                                                         *)
(* Left out are the data, the addresses in the disk's geometry and the     *)
(* panics of a controller that is never ready. A command whose data are    *)
(* not asked for in time (DRQ) fails like one that reports an error.       *)
(***************************************************************************)
EXTENDS Naturals, FiniteSets, Sequences

CONSTANTS
    Tasks,
    Blocks,      \* the numbers of the blocks asked for, each with its buffer
    Written,     \* those that tasks write
    NrSects,     \* hd[dev].nr_sects
    NR_REQUEST,
    MAX_ERRORS

ASSUME BlocksAssumption == Blocks \subseteq Nat /\ Blocks # {} /\ Written \subseteq Blocks
ASSUME NumbersAssumption == NrSects \in Nat /\ NR_REQUEST \in Nat \ {0, 1} /\ MAX_ERRORS \in Nat \ {0}

VARIABLES
    bh,       \* b_lock, b_dirt and b_uptodate of each block's buffer
    hd,       \* q: the requests from CURRENT on; do_hd, reset and recalibrate; woke is set while
              \* a step ends a request
    task,     \* where each task is in ll_rw_block(), and its arguments
    drained   \* history: the tasks that sleep for a request after the disk became idle
              \* between their search and their sleep

vars == <<bh, hd, task, drained>>

Slots == 0 .. NR_REQUEST - 1
Cmds  == {"READ", "WRITE"}
Handlers == {"none", "read_intr", "write_intr", "recal_intr"}
Pcs == {"user", "lock_buffer", "full", "asleep", "repeat"}

Requests == [slot : Slots, b : Blocks, cmd : Cmds, errors : 0 .. MAX_ERRORS, nr_sectors : 1 .. 2]
IsQueue(q) == Len(q) <= NR_REQUEST /\ \A i \in DOMAIN q : q[i] \in Requests

TypeOK ==
    /\ bh \in [Blocks -> [lock : BOOLEAN, dirt : BOOLEAN, uptodate : BOOLEAN]]
    /\ DOMAIN hd = {"q", "do_hd", "reset", "recalibrate"}
    /\ IsQueue(hd.q)
    /\ hd.do_hd \in Handlers /\ hd.reset \in BOOLEAN /\ hd.recalibrate \in BOOLEAN
    /\ task \in [Tasks -> [pc : Pcs, rw : Cmds, ahead : BOOLEAN, b : Blocks]]
    /\ drained \subseteq Tasks

InUser == [pc |-> "user", rw |-> "READ", ahead |-> FALSE, b |-> CHOOSE b \in Blocks : TRUE]

\* blk_dev_init() and hd_init().
Init ==
    /\ bh = [b \in Blocks |-> [lock |-> FALSE, dirt |-> FALSE, uptodate |-> FALSE]]
    /\ hd = [q |-> <<>>, do_hd |-> "none", reset |-> FALSE, recalibrate |-> FALSE]
    /\ task = [t \in Tasks |-> InUser]
    /\ drained = {}

-----------------------------------------------------------------------------
(* The disk's driver, as functions of its state and the buffers: a record s of bh and hd with    *)
(* woke, which says whether the step has ended a request.                                        *)

Driver(buffers, h) ==
    [bh |-> buffers, q |-> h.q, do_hd |-> h.do_hd, reset |-> h.reset,
     recalibrate |-> h.recalibrate, woke |-> FALSE]

Current(s) == Head(s.q)
sector(r)  == 2 * r.b + 2 - r.nr_sectors

\* Mutated form: nobody is woken.
EndRequestNoWake(s, uptodate) ==
    [s EXCEPT !.bh[Current(s).b].uptodate = uptodate, !.bh[Current(s).b].lock = FALSE, !.q = Tail(@)]

end_request(s, uptodate) ==
    [s EXCEPT !.bh[Current(s).b].uptodate = uptodate, !.bh[Current(s).b].lock = FALSE,
              !.q = Tail(@), !.woke = TRUE]

\* bad_rw_intr(). The second CURRENT is the next request when the first has been ended. When there
\* is none it is NULL, and CURRENT->errors is at address 8 an entry of the page directory (0x3007).
bad_rw_intr(s) ==
    LET errors == Current(s).errors + 1
        counted == [s EXCEPT !.q[1].errors = errors]
    IN IF errors >= MAX_ERRORS
         THEN [end_request(counted, FALSE) EXCEPT
                 !.reset = @ \/ Len(s.q) = 1 \/ s.q[2].errors > MAX_ERRORS \div 2]
         ELSE [counted EXCEPT !.reset = @ \/ errors > MAX_ERRORS \div 2]

\* Mutated form: the last block of the partition is refused.
InvalidLast(r) == sector(r) + 2 >= NrSects

Invalid(r) == sector(r) + 2 > NrSects

\* The beginning of do_hd_request(): the requests beyond the end of the partition are ended. A
\* request that is tried again from its second sector is tested as if it had two more.
EndInvalid(s) ==
    LET n == CHOOSE n \in 0 .. Len(s.q) : /\ \A i \in 1 .. n : Invalid(s.q[i])
                                          /\ n < Len(s.q) => ~Invalid(s.q[n + 1])
        gone == {s.q[i].b : i \in 1 .. n}
    IN [s EXCEPT !.q = SubSeq(@, n + 1, Len(@)), !.woke = @ \/ n > 0,
                 !.bh = [b \in Blocks |-> IF b \in gone THEN [@[b] EXCEPT !.lock = FALSE, !.uptodate = FALSE]
                                          ELSE @[b]]]

\* hd_out(): the handler of the interrupt that will come.
hd_out(s, handler) == [s EXCEPT !.do_hd = handler]

reset_hd(s) == hd_out([s EXCEPT !.reset = FALSE, !.recalibrate = TRUE], "recal_intr")

\* What do_hd_request() tells the disk to do.
Command(s) ==
    IF s.q = <<>>         THEN s
    ELSE IF s.reset       THEN reset_hd(s)
    ELSE IF s.recalibrate THEN hd_out([s EXCEPT !.recalibrate = FALSE], "recal_intr")
    ELSE hd_out(s, IF Current(s).cmd = "READ" THEN "read_intr" ELSE "write_intr")

\* One more sector has been read or written; only read_intr() forgets the errors.
NextSector(s) ==
    [s EXCEPT !.q[1].nr_sectors = @ - 1, !.q[1].errors = IF Current(s).cmd = "READ" THEN 0 ELSE @,
              !.do_hd = IF Current(s).cmd = "READ" THEN "read_intr" ELSE "write_intr"]

-----------------------------------------------------------------------------
(* The steps. *)

\* What the step leaves behind, s being the driver's state after it. Every end_request() wakes those asleep on wait_for_request. A task
\* that is still on its way to sleep is not woken: if no request is left, none ever will be.
Leave(after, tasks) == \E s \in {after} :
    /\ bh' = s.bh
    /\ hd' = [q |-> s.q, do_hd |-> s.do_hd, reset |-> s.reset, recalibrate |-> s.recalibrate]
    /\ task' = [t \in Tasks |-> IF s.woke /\ tasks[t].pc = "asleep" THEN [tasks[t] EXCEPT !.pc = "repeat"]
                                ELSE tasks[t]]
    /\ drained' = {t \in Tasks : \/ tasks[t].pc = "full" /\ s.q = <<>>
                                 \/ t \in drained /\ ~(s.woke /\ tasks[t].pc = "asleep")
                                                  /\ tasks[t].pc \in {"full", "asleep"}}

do_hd_request(s, tasks) == \E valid \in {EndInvalid(s)} : Leave(Command(valid), tasks)

\* The interrupt of the disk, with the result that win_result() finds.
HdInterrupt(ok) ==
    /\ hd.do_hd # "none"
    /\ \E s \in {[Driver(bh, hd) EXCEPT !.do_hd = "none"]} :
          \/ ~ok /\ \E bad \in {bad_rw_intr(s)} : do_hd_request(bad, task)
          \/ ok /\ hd.do_hd = "recal_intr" /\ do_hd_request(s, task)
          \/ ok /\ hd.do_hd # "recal_intr" /\ Current(s).nr_sectors > 1 /\ Leave(NextSector(s), task)
          \/ /\ ok /\ hd.do_hd # "recal_intr" /\ Current(s).nr_sectors = 1
             /\ \E ended \in {end_request(s, TRUE)} : do_hd_request(ended, task)

IN_ORDER(r1, r2) ==
    \/ r1.cmd = "READ" /\ r2.cmd = "WRITE"
    \/ r1.cmd = r2.cmd /\ sector(r1) < sector(r2)

\* Mutated form: a request that belongs behind the turning point is not seen to.
PlaceNoTurn(q, r) ==
    LET before == {i \in 1 .. Len(q) - 1 : IN_ORDER(q[i], r) /\ IN_ORDER(r, q[i + 1])}
    IN IF before = {} THEN Len(q) ELSE CHOOSE i \in before : \A j \in before : i <= j

\* Mutated form: the list is sorted without regard to where the disk is.
PlaceSorted(q, r) ==
    LET before == {i \in 1 .. Len(q) - 1 : IN_ORDER(r, q[i + 1])}
    IN IF before = {} THEN Len(q) ELSE CHOOSE i \in before : \A j \in before : i <= j

\* The place in the list after which add_request() puts the request.
Place(q, r) ==
    LET before == {i \in 1 .. Len(q) - 1 : /\ IN_ORDER(q[i], r) \/ ~IN_ORDER(q[i], q[i + 1])
                                           /\ IN_ORDER(r, q[i + 1])}
    IN IF before = {} THEN Len(q) ELSE CHOOSE i \in before : \A j \in before : i <= j

add_request(s0, r, tasks) ==
    \E s \in {[s0 EXCEPT !.bh[r.b].dirt = FALSE]} :
       IF s.q = <<>> THEN do_hd_request([s EXCEPT !.q = <<r>>], tasks)
       ELSE \E p \in {Place(s.q, r)} :
               Leave([s EXCEPT !.q = SubSeq(@, 1, p) \o <<r>> \o SubSeq(@, p + 1, Len(@))], tasks)

\* The requests among which a read, or a write, may choose: the last third is for reads only.
Free(cmd) == {i \in Slots : /\ cmd = "WRITE" => i < (NR_REQUEST * 2) \div 3
                            /\ \A j \in DOMAIN hd.q : hd.q[j].slot # i}

\* The task is out of make_request().
Return(t) == [task EXCEPT ![t] = InUser]

\* make_request() from repeat, for the call c = [rw, ahead, b] and with its buffer locked: a free
\* request is taken, or a read-ahead gives up, or the task will sleep.
Scan(t, c) ==
    LET free == Free(c.rw)
        locked == Driver([bh EXCEPT ![c.b].lock = TRUE], hd)
        r == [slot |-> CHOOSE i \in free : \A j \in free : i >= j, b |-> c.b, cmd |-> c.rw,
              errors |-> 0, nr_sectors |-> 2]
    IN IF free # {}    THEN add_request(locked, r, Return(t))
       ELSE IF c.ahead THEN Leave(Driver([bh EXCEPT ![c.b].lock = FALSE], hd), Return(t))
       ELSE Leave(locked, [task EXCEPT ![t] = [c EXCEPT !.pc = "full"]])

\* make_request() with the lock: the need for the transfer is tested again.
make_request(t, c) ==
    IF (c.rw = "WRITE" /\ ~bh[c.b].dirt) \/ (c.rw = "READ" /\ bh[c.b].uptodate)
      THEN Leave(Driver(bh, hd), Return(t))
      ELSE Scan(t, c)

\* No task is in the kernel without sleeping, so any may be picked.
Idle == \A t \in Tasks : task[t].pc # "full"

\* A task calls ll_rw_block(): bread() and breada() for a block that is not up to date, sys_sync()
\* for one that is dirty. lock_buffer() sleeps if the buffer is locked; a read-ahead of a locked
\* buffer is forgotten.
Call(t, rw, ahead, b) ==
    /\ Idle
    /\ task[t].pc = "user"
    /\ IF rw = "READ" THEN ~bh[b].uptodate ELSE bh[b].dirt /\ ~ahead
    /\ LET c == [pc |-> "lock_buffer", rw |-> rw, ahead |-> ahead, b |-> b]
       IN IF ~bh[b].lock THEN make_request(t, c)
          ELSE /\ ~ahead
               /\ task' = [task EXCEPT ![t] = c]
               /\ UNCHANGED <<bh, hd, drained>>

\* lock_buffer() gets the lock after having slept for it.
LockBuffer(t) ==
    /\ Idle
    /\ task[t].pc = "lock_buffer"
    /\ ~bh[task[t].b].lock
    /\ make_request(t, task[t])

\* sleep_on(&wait_for_request)
SleepOnRequest(t) ==
    /\ task[t].pc = "full"
    /\ task' = [task EXCEPT ![t].pc = "asleep"]
    /\ UNCHANGED <<bh, hd, drained>>

Repeat(t) ==
    /\ Idle
    /\ task[t].pc = "repeat"
    /\ Scan(t, task[t])

\* The users of the cache write into a buffer that is up to date, or take one over for another block.
UseBuffer(b) ==
    /\ Idle
    /\ \/ b \in Written /\ bh[b].uptodate /\ ~bh[b].dirt /\ bh' = [bh EXCEPT ![b].dirt = TRUE]
       \/ bh[b].uptodate /\ ~bh[b].dirt /\ ~bh[b].lock /\ bh' = [bh EXCEPT ![b].uptodate = FALSE]
    /\ UNCHANGED <<hd, task, drained>>

Disk == \E ok \in BOOLEAN : HdInterrupt(ok)

Next ==
    \/ Disk
    \/ \E t \in Tasks :
          \/ \E b \in Blocks, rw \in Cmds, ahead \in BOOLEAN : Call(t, rw, ahead, b)
          \/ LockBuffer(t)
          \/ SleepOnRequest(t)
          \/ Repeat(t)
    \/ \E b \in Blocks : UseBuffer(b)

\* Every command is answered by an interrupt. A task on its way to sleep gets there, and a task
\* that is woken runs.
Fairness ==
    /\ WF_vars(Disk)
    /\ \A t \in Tasks : WF_vars(SleepOnRequest(t)) /\ WF_vars(Repeat(t))

Spec == Init /\ [][Next]_vars /\ Fairness

-----------------------------------------------------------------------------
(* What should hold. *)

Writing(b) == \E i \in DOMAIN hd.q : hd.q[i].b = b /\ hd.q[i].cmd = "WRITE"

\* The panic "block not locked" never comes, and every lock is on its way to be released: a locked
\* buffer has one request in the list, or one task in make_request(), and never both.
LockedIsQueued ==
    \A b \in Blocks :
        Cardinality({i \in DOMAIN hd.q : hd.q[i].b = b})
          + Cardinality({t \in Tasks : task[t].b = b /\ task[t].pc \in {"full", "asleep", "repeat"}})
          = IF bh[b].lock THEN 1 ELSE 0

\* The list that add_request() keeps sorted turns at most once: the disk makes one sweep through
\* the reads and the writes, and then another. An insertion behind the turning point, or after a
\* retry that has moved CURRENT, does not make a third.
OneTurn == Cardinality({i \in 1 .. Len(hd.q) - 1 : ~IN_ORDER(hd.q[i], hd.q[i + 1])}) <= 1

\* The list of requests and the locks of their buffers, after every insertion, retry and end.
ListConsistent == TypeOK /\ LockedIsQueued /\ OneTurn

\* A task sleeps on wait_for_request only while a request is left whose end will wake it, except
\* when all of them ended between its search and its sleep, which interrupts do not prevent.
NoLostSlotWaiter == \A t \in Tasks : task[t].pc = "asleep" /\ t \notin drained => hd.q # <<>>

\* A transfer fails only after MAX_ERRORS errors, or because the block is not on the partition.
\* The exception is the last block of the partition: when its second sector is tried again, it is
\* tested as if two sectors were to come, and refused.
FailsOnlyAfterRetries ==
    [][\A i \in DOMAIN hd.q :
          LET r == hd.q[i]
          IN bh[r.b].lock /\ ~bh'[r.b].lock /\ ~bh'[r.b].uptodate
               => \/ 2 * r.b + 2 > NrSects
                  \/ i = 1 /\ r.errors + 1 >= MAX_ERRORS
                  \/ i = 1 /\ r.nr_sectors = 1 /\ 2 * r.b + 2 = NrSects]_vars

\* Reads go before writes; but whatever errors the disk reports, and however many reads come
\* after it, a write in the list is ended.
EveryWriteEnds == \A b \in Written : Writing(b) ~> ~Writing(b)

============================================================================
