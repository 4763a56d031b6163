---------------------------- MODULE BufferCache ----------------------------
(***************************************************************************)
(* The buffer cache of fs/buffer.c with its users file_read(),             *)
(* file_write(), block_read() and block_write(), one device, and the disk. *)
(*                                                                         *)
(* The kernel is not preempted: a task that runs goes on until it sleeps   *)
(* or leaves the kernel (current), and only the interrupt that ends a      *)
(* transfer comes in between. wait_on_buffer() is the guard that the       *)
(* buffer is not locked (SleepQueue shows that its sleepers are woken).    *)
(*                                                                         *)
(* The data of a block are "the newest" or not. Left out are the order of  *)
(* the free list, which only chooses among equally bad buffers, the order  *)
(* and the number of requests, and sync_inodes(); so the two passes of     *)
(* sync_dev() over the buffers, before and after sync_inodes(), are one.   *)
(***************************************************************************)
EXTENDS Naturals, FiniteSets

CONSTANTS
    Tasks,     \* the tasks that use the cache
    NoTask,
    Blocks,    \* the blocks of the device
    NoBlock,   \* the block of a buffer that has not been used yet: b_dev = 0
    NBuffers   \* NR_BUFFERS

ASSUME TasksAssumption   == IsFiniteSet(Tasks)
ASSUME NoTaskAssumption  == NoTask \notin Tasks
ASSUME NoBlockAssumption == NoBlock \notin Blocks
ASSUME NBuffersAssumption == NBuffers \in Nat \ {0}

Buffers  == 1 .. NBuffers
NoBuffer == 0

VARIABLES
    buf,       \* the buffer heads; io is the transfer for which b_lock is set, newest says
               \* whether b_data are the newest data of the block
    disk,      \* the blocks whose newest data are on the disk
    task,      \* where each task is and what its local variables are
    sleepers,  \* the tasks asleep on buffer_wait
    current,   \* the task that is running in the kernel; NoTask when any task may run
    mishap     \* history: the first event after which data may be lost, or "many"

vars == <<buf, disk, task, sleepers, current, mishap>>

\* What a task does with a block: file_read() and file_write() begin with bread(), block_read()
\* and block_write() with breada(), and block_write() of a whole block only with getblk().
Ops == {"file", "block", "whole_block"}

Pcs == {"user", "getblk", "get_hash_table", "candidate", "buffer_wait", "sync", "got", "ahead",
        "read", "copy", "brelse"}

TypeOK ==
    /\ buf \in [Buffers -> [block : Blocks \cup {NoBlock}, count : 0 .. 2 * Cardinality(Tasks),
                            dirt : BOOLEAN, uptodate : BOOLEAN, newest : BOOLEAN,
                            io : {"none", "read", "write"}]]
    /\ disk \subseteq Blocks
    /\ task \in [Tasks -> [pc : Pcs, op : Ops \cup {"sys_sync", "none"}, want : Blocks \cup {NoBlock},
                           bh : Buffers \cup {NoBuffer}, try : Buffers \cup {NoBuffer},
                           i : 0 .. NBuffers]]
    /\ sleepers \subseteq Tasks
    /\ current \in Tasks \cup {NoTask}
    /\ mishap \in {"none", "raw", "many"}

InUser == [pc |-> "user", op |-> "none", want |-> NoBlock, bh |-> NoBuffer, try |-> NoBuffer, i |-> 0]

Init ==
    /\ buf = [b \in Buffers |-> [block |-> NoBlock, count |-> 0, dirt |-> FALSE, uptodate |-> FALSE,
                                 newest |-> FALSE, io |-> "none"]]
    /\ disk = Blocks
    /\ task = [t \in Tasks |-> InUser]
    /\ sleepers = {}
    /\ current = NoTask
    /\ mishap = "none"

-----------------------------------------------------------------------------
(* The processor. *)

Locked(b) == buf[b].io # "none"

\* The task runs, or is picked by schedule(), and is at place p of the kernel.
At(t, p) == current \in {t, NoTask} /\ task[t].pc = p

\* The buffer that the task waits for in wait_on_buffer(); NoBuffer if it does not wait.
WaitsFor(t) ==
    CASE task[t].pc \in {"get_hash_table", "candidate"} -> task[t].try
      [] task[t].pc = "sync"                            -> task[t].i
      [] task[t].pc \in {"read", "brelse"}              -> task[t].bh
      [] OTHER                                          -> NoBuffer

\* wait_on_buffer() finds the buffer locked and sleeps.
WaitOnBuffer(t) ==
    /\ current = t
    /\ WaitsFor(t) # NoBuffer
    /\ Locked(WaitsFor(t))
    /\ current' = NoTask
    /\ UNCHANGED <<buf, disk, task, sleepers, mishap>>

Passed(t) == ~Locked(WaitsFor(t))

\* The task goes on, without sleeping, at place p.
GoOn(t, p) == task' = [task EXCEPT ![t].pc = p] /\ current' = t

-----------------------------------------------------------------------------
(* Finding a buffer. *)

find_buffer(k) == {b \in Buffers : buf[b].block = k}

Number(bool) == IF bool THEN 1 ELSE 0
BADNESS(b)   == 2 * Number(buf[b].dirt) + Number(Locked(b))
Unused       == {b \in Buffers : buf[b].count = 0}

\* What the scan of the free list may find: of the unused buffers, one of the least bad.
LeastBad == {b \in Unused : \A c \in Unused : BADNESS(b) <= BADNESS(c)}

\* getblk() from repeat: the block is in the cache, and is pinned by get_hash_table() ...
GetHashTable(t) ==
    /\ At(t, "getblk")
    /\ \E b \in find_buffer(task[t].want) :
          /\ buf'  = [buf EXCEPT ![b].count = @ + 1]
          /\ task' = [task EXCEPT ![t].pc = "get_hash_table", ![t].try = b]
    /\ current' = t
    /\ UNCHANGED <<disk, sleepers, mishap>>

\* ... or it is not, and an unused buffer is chosen ...
Choose(t) ==
    /\ At(t, "getblk")
    /\ find_buffer(task[t].want) = {}
    /\ \E b \in LeastBad : task' = [task EXCEPT ![t].pc = "candidate", ![t].try = b]
    /\ current' = t
    /\ UNCHANGED <<buf, disk, sleepers, mishap>>

\* ... or all are used: sleep_on(&buffer_wait).
SleepOnBufferWait(t) ==
    /\ At(t, "getblk")
    /\ find_buffer(task[t].want) = {}
    /\ Unused = {}
    /\ task'     = [task EXCEPT ![t].pc = "buffer_wait"]
    /\ sleepers' = sleepers \cup {t}
    /\ current'  = NoTask
    /\ UNCHANGED <<buf, disk, mishap>>

\* Woken on buffer_wait: repeat.
Repeat(t) ==
    /\ At(t, "buffer_wait")
    /\ t \notin sleepers
    /\ GoOn(t, "getblk")
    /\ UNCHANGED <<buf, disk, sleepers, mishap>>

\* getblk() returns b. The buffer of a read-ahead goes to try, every other to bh.
Return(t, b) ==
    /\ task' = [task EXCEPT
                  ![t].pc  = IF task[t].bh = NoBuffer THEN "got" ELSE "ahead",
                  ![t].bh  = IF task[t].bh = NoBuffer THEN b ELSE @,
                  ![t].try = IF task[t].bh = NoBuffer THEN NoBuffer ELSE b,
                  ![t].want = NoBlock]
    /\ current' = t

\* get_hash_table() after wait_on_buffer(): does the buffer still hold the block?
HashTableReturn(t) ==
    /\ At(t, "get_hash_table")
    /\ Passed(t)
    /\ LET b == task[t].try IN
         IF buf[b].block = task[t].want
           THEN Return(t, b) /\ UNCHANGED buf
           ELSE GoOn(t, "getblk") /\ buf' = [buf EXCEPT ![b].count = @ - 1]
    /\ UNCHANGED <<disk, sleepers, mishap>>

\* getblk() takes buffer b over for the block.
TakeOver(t, b) ==
    /\ buf' = [buf EXCEPT ![b] = [block |-> task[t].want, count |-> 1, dirt |-> FALSE,
                                  uptodate |-> FALSE, newest |-> FALSE, io |-> "none"]]
    /\ Return(t, b)

\* Mutated form: after sleeping, getblk() does not look whether the block has come into the cache.
CandidateNoFind(t) ==
    /\ At(t, "candidate")
    /\ Passed(t)
    /\ LET b == task[t].try IN
         IF buf[b].count # 0
           THEN GoOn(t, "getblk") /\ UNCHANGED buf
         ELSE IF buf[b].dirt
           THEN task' = [task EXCEPT ![t].pc = "sync", ![t].i = 1] /\ current' = t /\ UNCHANGED buf
           ELSE TakeOver(t, b)
    /\ UNCHANGED <<disk, sleepers, mishap>>

\* Mutated form: after sleeping, getblk() does not look whether the buffer is used now.
CandidateNoCount(t) ==
    /\ At(t, "candidate")
    /\ Passed(t)
    /\ LET b == task[t].try IN
         IF ~buf[b].dirt /\ find_buffer(task[t].want) # {}
           THEN GoOn(t, "getblk") /\ UNCHANGED buf
         ELSE IF buf[b].dirt
           THEN task' = [task EXCEPT ![t].pc = "sync", ![t].i = 1] /\ current' = t /\ UNCHANGED buf
           ELSE TakeOver(t, b)
    /\ UNCHANGED <<disk, sleepers, mishap>>

\* Mutated form: a dirty buffer is taken over without being written.
CandidateNoSync(t) ==
    /\ At(t, "candidate")
    /\ Passed(t)
    /\ LET b == task[t].try IN
         IF buf[b].count # 0 \/ find_buffer(task[t].want) # {}
           THEN GoOn(t, "getblk") /\ UNCHANGED buf
           ELSE TakeOver(t, b)
    /\ UNCHANGED <<disk, sleepers, mishap>>

\* getblk() after wait_on_buffer(bh): the buffer may be used by now, or dirty, or the block may
\* have come into the cache.
Candidate(t) ==
    /\ At(t, "candidate")
    /\ Passed(t)
    /\ LET b == task[t].try IN
         IF buf[b].count # 0 \/ (~buf[b].dirt /\ find_buffer(task[t].want) # {})
           THEN GoOn(t, "getblk") /\ UNCHANGED buf
         ELSE IF buf[b].dirt
           THEN task' = [task EXCEPT ![t].pc = "sync", ![t].i = 1] /\ current' = t /\ UNCHANGED buf
           ELSE TakeOver(t, b)
    /\ UNCHANGED <<disk, sleepers, mishap>>

-----------------------------------------------------------------------------
(* Transfers. *)

\* make_request(): the buffer is locked, and add_request() clears b_dirt.
Request(b, rw) == [buf EXCEPT ![b].io = rw, ![b].dirt = FALSE]

\* One turn of the loops of sys_sync() and sync_dev(), and their return.
Sync(t) ==
    /\ At(t, "sync")
    /\ Passed(t)
    /\ LET b == task[t].i IN buf' = IF buf[b].dirt THEN Request(b, "write") ELSE buf
    /\ IF task[t].i < NBuffers
         THEN task' = [task EXCEPT ![t].i = @ + 1] /\ current' = t
       ELSE IF task[t].op = "sys_sync"
         THEN task' = [task EXCEPT ![t] = InUser] /\ current' = NoTask
         ELSE task' = [task EXCEPT ![t].pc = "candidate", ![t].i = 0] /\ current' = t
    /\ UNCHANGED <<disk, sleepers, mishap>>

\* The interrupt that ends a read: end_request(uptodate).
EndRead(b, uptodate) ==
    /\ buf[b].io = "read"
    /\ buf' = [buf EXCEPT ![b].io = "none", ![b].uptodate = uptodate,
                          ![b].newest = uptodate /\ buf[b].block \in disk]
    /\ UNCHANGED <<disk, task, sleepers, current, mishap>>

\* The interrupt that ends a write. A buffer that has been changed meanwhile (b_dirt) may have
\* been written before or after the change.
EndWrite(b, uptodate) ==
    /\ buf[b].io = "write"
    /\ buf' = [buf EXCEPT ![b].io = "none", ![b].uptodate = uptodate]
    /\ \/ uptodate /\ buf[b].newest /\ disk' = disk \cup {buf[b].block}
       \/ uptodate /\ (buf[b].newest => buf[b].dirt) /\ disk' = disk \ {buf[b].block}
       \/ ~uptodate /\ disk' = disk
    /\ mishap' = IF uptodate THEN mishap ELSE "many"
    /\ UNCHANGED <<task, sleepers, current>>

-----------------------------------------------------------------------------
(* The users of the cache. *)

\* file_read(), file_write(), block_read() and block_write() for one block.
Start(t, op, k) ==
    /\ current = NoTask
    /\ task[t].pc = "user"
    /\ task' = [task EXCEPT ![t] = [InUser EXCEPT !.pc = "getblk", !.op = op, !.want = k]]
    /\ current' = t
    /\ UNCHANGED <<buf, disk, sleepers, mishap>>

\* sys_sync()
StartSync(t) ==
    /\ current = NoTask
    /\ task[t].pc = "user"
    /\ task' = [task EXCEPT ![t] = [InUser EXCEPT !.pc = "sync", !.op = "sys_sync", !.i = 1]]
    /\ current' = t
    /\ UNCHANGED <<buf, disk, sleepers, mishap>>

\* bread() and breada() have the buffer and read the block if that is needed.
Bread(t) ==
    /\ At(t, "got")
    /\ task[t].op # "whole_block"
    /\ LET b == task[t].bh IN buf' = IF buf[b].uptodate THEN buf ELSE Request(b, "read")
    /\ IF task[t].op = "file"
         THEN task' = [task EXCEPT ![t].pc = "read"]
         ELSE \E k \in Blocks \ {buf[task[t].bh].block} :
                 task' = [task EXCEPT ![t].pc = "getblk", ![t].want = k]
    /\ current' = t
    /\ UNCHANGED <<disk, sleepers, mishap>>

\* breada() has the buffer of the next block, tmp. It asks for bh again, not for tmp, and gives
\* tmp back without a wake_up().
ReadAhead(t) ==
    /\ At(t, "ahead")
    /\ LET bh  == task[t].bh
           tmp == task[t].try
           again == ~buf[tmp].uptodate /\ ~Locked(bh) /\ ~buf[bh].uptodate
       IN buf' = [(IF again THEN Request(bh, "read") ELSE buf) EXCEPT ![tmp].count = @ - 1]
    /\ task' = [task EXCEPT ![t].pc = "read", ![t].try = NoBuffer]
    /\ current' = t
    /\ UNCHANGED <<disk, sleepers, mishap>>

\* bread() and breada() after wait_on_buffer(): NULL is returned, or the data are there and are
\* read, or else written: file_write() sets b_dirt at once. The copying may cause a page fault,
\* in which the task may sleep.
ReadDone(t) ==
    /\ At(t, "read")
    /\ Passed(t)
    /\ LET b == task[t].bh IN
         \/ /\ task' = [task EXCEPT ![t].pc = "brelse"]
            /\ UNCHANGED buf
         \/ /\ buf[b].uptodate
            /\ task' = [task EXCEPT ![t].pc = "copy"]
            /\ buf'  = IF task[t].op = "file" THEN [buf EXCEPT ![b].dirt = TRUE] ELSE buf
    /\ current' \in {t, NoTask}
    /\ UNCHANGED <<disk, sleepers, mishap>>

\* block_write() of a whole block does not read it.
GotWhole(t) ==
    /\ At(t, "got")
    /\ task[t].op = "whole_block"
    /\ task' = [task EXCEPT ![t].pc = "copy"]
    /\ current' \in {t, NoTask}
    /\ UNCHANGED <<buf, disk, sleepers, mishap>>

\* The data have been copied from the user; now block_write() sets b_dirt.
Copy(t) ==
    /\ At(t, "copy")
    /\ LET bh == task[t].bh
           k  == buf[bh].block
           op == task[t].op
       IN /\ buf' = [b \in Buffers |->
                       IF b = bh
                         THEN [buf[b] EXCEPT !.newest = TRUE, !.dirt = @ \/ op # "file"]
                         ELSE [buf[b] EXCEPT !.newest = @ /\ buf[b].block # k]]
          /\ disk' = disk \ {k}
          /\ mishap' = IF op = "file" /\ current # t       THEN "many"
                       ELSE IF ~buf[bh].uptodate /\ mishap = "none" THEN "raw"
                       ELSE mishap
    /\ task' = [task EXCEPT ![t].pc = "brelse"]
    /\ current' = t
    /\ UNCHANGED sleepers

\* Mutated form: nobody is woken.
BrelseNoWakeUp(t) ==
    /\ At(t, "brelse")
    /\ Passed(t)
    /\ buf'  = [buf EXCEPT ![task[t].bh].count = @ - 1]
    /\ task' = [task EXCEPT ![t] = InUser]
    /\ current' = NoTask
    /\ UNCHANGED <<disk, sleepers, mishap>>

\* brelse(): wake_up(&buffer_wait) wakes one sleeper, and each wakes the next.
Brelse(t) ==
    /\ At(t, "brelse")
    /\ Passed(t)
    /\ buf'  = [buf EXCEPT ![task[t].bh].count = @ - 1]
    /\ task' = [task EXCEPT ![t] = InUser]
    /\ sleepers' = {}
    /\ current' = NoTask
    /\ UNCHANGED <<disk, mishap>>

-----------------------------------------------------------------------------
TaskStep(t) ==
    \/ WaitOnBuffer(t)
    \/ GetHashTable(t)
    \/ Choose(t)
    \/ SleepOnBufferWait(t)
    \/ Repeat(t)
    \/ HashTableReturn(t)
    \/ Candidate(t)
    \/ Sync(t)
    \/ Bread(t)
    \/ ReadAhead(t)
    \/ ReadDone(t)
    \/ GotWhole(t)
    \/ Copy(t)
    \/ Brelse(t)

EndRequest(b) == \E uptodate \in BOOLEAN : EndRead(b, uptodate) \/ EndWrite(b, uptodate)

Next ==
    \/ \E t \in Tasks : TaskStep(t) \/ StartSync(t)
    \/ \E t \in Tasks, op \in Ops, k \in Blocks : Start(t, op, k)
    \/ \E b \in Buffers : EndRequest(b)

Spec == Init /\ [][Next]_vars

-----------------------------------------------------------------------------
(* Properties *)

\* The buffers that the task has counted itself in: the one that getblk() has returned to it,
\* and the one that get_hash_table() has found for it or that it reads ahead.
Held(t) ==
    {b \in Buffers : \/ task[t].bh = b
                     \/ task[t].try = b /\ task[t].pc \in {"get_hash_table", "ahead"}}

\* A block is never in two buffers, although getblk() sleeps between looking for the block and
\* taking a buffer over for it.
OneBufferPerBlock ==
    \A b, c \in Buffers : buf[b].block = buf[c].block /\ buf[b].block # NoBlock => b = c

\* b_count is the number of tasks that use the buffer, so that brelse() never frees a free one.
CountIsHolders == \A b \in Buffers : buf[b].count = Cardinality({t \in Tasks : b \in Held(t)})

\* The cache at every step of every call: a block in one buffer, and exact counts.
BuffersConsistent == TypeOK /\ OneBufferPerBlock /\ CountIsHolders

\* A buffer that a task uses is not taken over for another block, also not by a getblk() that
\* chose it and slept before the task took it. (So the loop of get_hash_table() is never
\* repeated: "This shouldn't really happen currently".)
HeldKeepsBlock ==
    [][\A t \in Tasks : \A b \in Held(t) : buf'[b].block = buf[b].block]_vars

\* No change is lost: an up-to-date buffer has the newest data of its block, and the newest data
\* of every block are on the disk, or in a buffer that is dirty or being written. It takes a write
\* error, a fault in the middle of file_write(), or the writing of a whole block to a buffer that
\* is not up to date.
NothingLost ==
    mishap = "none" =>
        /\ \A b \in Buffers : buf[b].uptodate => buf[b].newest
        /\ \A k \in Blocks :
              \/ k \in disk
              \/ \E b \in find_buffer(k) : buf[b].newest /\ (buf[b].dirt \/ buf[b].io = "write")

\* No wakeup is lost on buffer_wait although breada() and get_hash_table() lower b_count without
\* one: while a task sleeps there and a buffer is unused, an awake task still has to brelse().
NoLostSleeper ==
    sleepers # {} /\ Unused # {} => \E t \in Tasks \ sleepers : Held(t) # {}

=============================================================================
