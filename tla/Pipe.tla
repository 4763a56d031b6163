-------------------------------- MODULE Pipe --------------------------------
(***************************************************************************)
(* A pipe: read_pipe() and write_pipe() of pipe.c, get_pipe_inode() and    *)
(* the iput() of its ends.                                                 *)
(*                                                                         *)
(* The kernel is not preempted: a task goes on until it sleeps on i_wait,  *)
(* or in a page fault while it copies, which comes after the head or the   *)
(* tail has been moved. The model is followed up to the first move of      *)
(* another task in such a sleep (torn): it would read what is not there    *)
(* yet, or write over what is still to be copied.                          *)
(*                                                                         *)
(* The tasks are what fork() has made of the two ends, which share their   *)
(* files: an end is closed by its last task. A byte is its number in the   *)
(* stream. Left out are the files and descriptors of sys_pipe() and its    *)
(* failures.                                                               *)
(***************************************************************************)
EXTENDS Naturals, FiniteSets, FiniteSetsExt

CONSTANTS
    Readers, Writers, \* the tasks at the two ends
    PAGE_SIZE,        \* the bytes of the buffer, one of which stays empty
    MaxCount          \* the most bytes that a call asks for

Ends   == Readers \cup Writers
NoOne  == 0

PipeAssumption ==
    /\ Readers \cap Writers = {} /\ NoOne \notin Ends
    /\ PAGE_SIZE \in Nat \ {0, 1} /\ MaxCount \in Nat \ {0}

Places == 0 .. PAGE_SIZE - 1
Bytes  == 0 .. PAGE_SIZE
None   == PAGE_SIZE + 1

VARIABLES
    head, tail,   \* PIPE_HEAD and PIPE_TAIL
    ring,         \* the page
    open,         \* the tasks that have their end open
    end,          \* what each task is doing
    running,      \* the task that is running in the kernel
    given, taken, \* the numbers of the next byte to be written, and to be read
    torn          \* history: a pointer was moved while another task slept in its copying

pipeVars == <<head, tail, ring, open, end, running, given, taken, torn>>

Idle == [pc |-> "user", count |-> 0, from |-> 0, chars |-> 0]

\* get_pipe_inode(), in a state where nobody does anything.
PipeInit ==
    /\ head = 0 /\ tail = 0 /\ ring = [p \in Places |-> None]
    /\ open = Ends /\ end = [t \in Ends |-> Idle] /\ running = NoOne
    /\ given = 0 /\ taken = 0 /\ torn = FALSE

PipeTypeOK ==
    /\ head \in Places /\ tail \in Places /\ ring \in [Places -> Bytes \cup {None}]
    /\ open \subseteq Ends /\ running \in Ends \cup {NoOne}
    /\ \A t \in Ends : /\ end[t].pc \in {"user", "loop", "copy", "fault", "asleep"}
                       /\ end[t].count \in 0 .. MaxCount /\ end[t].chars \in 0 .. MaxCount
    /\ given \in Bytes /\ taken \in Bytes /\ torn \in BOOLEAN

PIPE_SIZE == (PAGE_SIZE + head - tail) % PAGE_SIZE

\* The i_count of the inode: the ends that are open.
i_count == Cardinality({e \in {Readers, Writers} : e \cap open # {}})

Byte(n) == n % (PAGE_SIZE + 1)

-----------------------------------------------------------------------------
(* read_pipe() and write_pipe() *)

Runs(t, pc) == running \in {t, NoOne} /\ end[t].pc = pc /\ ~torn

\* wake_up(&inode->i_wait): the first sleeper, which wakes the next.
Woken == [t \in Ends |-> IF end[t].pc = "asleep" THEN [end[t] EXCEPT !.pc = "loop"] ELSE end[t]]

\* Mutated form: a call that is done wakes nobody.
ReturnNoWake(t) == end' = [end EXCEPT ![t] = Idle] /\ running' = NoOne

\* The call is over: those who wait for bytes, or for room, are woken.
Return(t) == end' = [Woken EXCEPT ![t] = Idle] /\ running' = NoOne

\* Nothing to read, or no room: the others are woken; if the other end is closed the call is over.
Wait(t) ==
    /\ end' = IF i_count # 2 THEN [Woken EXCEPT ![t] = Idle] ELSE [Woken EXCEPT ![t].pc = "asleep"]
    /\ running' = NoOne

\* chars bytes from position from will be copied; the head or tail is already past them.
Move(t, from, size) ==
    LET chars == Min({PAGE_SIZE - from, end[t].count, size})
    IN /\ end' = [end EXCEPT ![t] = [pc |-> "copy", count |-> @.count - chars, from |-> from, chars |-> chars]]
       /\ running' = t
       /\ torn' = (\E u \in Ends \ {t} : end[u].pc = "fault")

Step(from, t) == (from + end'[t].chars) % PAGE_SIZE

Call(t, n) ==
    /\ Runs(t, "user") /\ t \in open
    /\ end' = [end EXCEPT ![t] = [Idle EXCEPT !.pc = "loop", !.count = n]]
    /\ running' = t
    /\ UNCHANGED <<head, tail, ring, open, given, taken, torn>>

ReadLoop(t) ==
    /\ t \in Readers /\ Runs(t, "loop")
    /\ \/ end[t].count = 0 /\ Return(t) /\ UNCHANGED <<tail, torn>>
       \/ end[t].count > 0 /\ PIPE_SIZE = 0 /\ Wait(t) /\ UNCHANGED <<tail, torn>>
       \/ end[t].count > 0 /\ PIPE_SIZE > 0 /\ Move(t, tail, PIPE_SIZE) /\ tail' = Step(tail, t)
    /\ UNCHANGED <<head, ring, open, given, taken>>

Room == PAGE_SIZE - 1 - PIPE_SIZE

WriteLoop(t) ==
    /\ t \in Writers /\ Runs(t, "loop")
    /\ \/ end[t].count = 0 /\ Return(t) /\ UNCHANGED <<head, torn>>
       \/ end[t].count > 0 /\ Room = 0 /\ Wait(t) /\ UNCHANGED <<head, torn>>
       \/ end[t].count > 0 /\ Room > 0 /\ Move(t, head, Room) /\ head' = Step(head, t)
    /\ UNCHANGED <<tail, ring, open, given, taken>>

\* put_fs_byte() or get_fs_byte() finds the page of the user absent, and the task sleeps for it.
Fault(t) ==
    /\ Runs(t, "copy")
    /\ end' = [end EXCEPT ![t].pc = "fault"] /\ running' = NoOne
    /\ UNCHANGED <<head, tail, ring, open, given, taken, torn>>

Copied(t) == end[t].from .. end[t].from + end[t].chars - 1

Copy(t) ==
    /\ Runs(t, "copy") \/ Runs(t, "fault")
    /\ IF t \in Writers
         THEN /\ ring' = [p \in Places |-> IF p \in Copied(t) THEN Byte(given + p - end[t].from) ELSE ring[p]]
              /\ given' = Byte(given + end[t].chars) /\ UNCHANGED taken
         ELSE taken' = Byte(taken + end[t].chars) /\ UNCHANGED <<ring, given>>
    /\ end' = [end EXCEPT ![t].pc = "loop", ![t].from = 0, ![t].chars = 0] /\ running' = t
    /\ UNCHANGED <<head, tail, open, torn>>

\* sys_close() or the end of the task; the last task of an end does iput(), which wakes the others.
Close(t) ==
    /\ Runs(t, "user") /\ t \in open
    /\ open' = open \ {t}
    /\ end' = IF open' \cap Readers = {} \/ open' \cap Writers = {} THEN Woken ELSE end
    /\ UNCHANGED <<head, tail, ring, running, given, taken, torn>>

PipeNext ==
    \E t \in Ends :
       \/ \E n \in 1 .. MaxCount : Call(t, n)
       \/ ReadLoop(t) \/ WriteLoop(t) \/ Fault(t) \/ Copy(t) \/ Close(t)

PipeSpec == PipeInit /\ [][PipeNext]_pipeVars

-----------------------------------------------------------------------------
(* What should hold. *)

InKernel(t) == end[t].pc \in {"loop", "copy", "fault"}

\* A reader gets the bytes in the order in which they were written, each once, around the end of
\* the page and with several tasks at an end: what it is to copy are the next ones, in their places.
BytesInOrder ==
    ~torn => \A t \in Readers : end[t].pc \in {"copy", "fault"} =>
                \A p \in Copied(t) : ring[p] = Byte(taken + p - end[t].from)

\* Readers and writers sleep on one queue, and none is forgotten there: if a reader sleeps although
\* there are bytes, or a writer although there is room, somebody is at work who will wake them; and
\* when one end is closed nobody sleeps.
NobodyForgotten ==
    /\ i_count # 2 => \A t \in Ends : end[t].pc # "asleep"
    /\ (\E t \in Readers : end[t].pc = "asleep") /\ PIPE_SIZE > 0 => \E t \in Ends : InKernel(t)
    /\ (\E t \in Writers : end[t].pc = "asleep") /\ Room > 0 => \E t \in Ends : InKernel(t)

\* The pipe at every step of every call.
PipeConsistent == PipeTypeOK /\ BytesInOrder /\ NobodyForgotten
=============================================================================
