-------------------------- MODULE BufferCacheProofs --------------------------
(***************************************************************************)
(* Proofs about BufferCache, for any set of tasks and blocks and any       *)
(* number of buffers: a block is in one buffer, b_count is the number of   *)
(* the tasks that use the buffer, a buffer in use keeps its block, and no  *)
(* wakeup is lost on buffer_wait.                                          *)
(***************************************************************************)
EXTENDS BufferCache, FiniteSetTheorems, TLAPS

AllOps      == Ops \cup {"sys_sync", "none"}
MaybeBlock  == Blocks \cup {NoBlock}
MaybeBuffer == Buffers \cup {NoBuffer}
Turns       == 0 .. NBuffers

TaskStates  == [pc : Pcs, op : AllOps, want : MaybeBlock, bh : MaybeBuffer, try : MaybeBuffer, i : Turns]
HeadStates  == [block : MaybeBlock, count : Nat, dirt : BOOLEAN, uptodate : BOOLEAN, newest : BOOLEAN,
                io : {"none", "read", "write"}]

\* A buffer that is used, dirty or in transfer is the buffer of a block.
Heads == {h \in HeadStates : h.block = NoBlock => h.count = 0 /\ h.dirt = FALSE /\ h.io = "none"}

\* The types; of the counts only that they are numbers.
Types ==
    /\ buf \in [Buffers -> Heads]
    /\ disk \subseteq Blocks
    /\ task \in [Tasks -> TaskStates]
    /\ sleepers \subseteq Tasks
    /\ current \in Tasks \cup {NoTask}
    /\ mishap \in {"none", "raw", "many"}

\* The places of getblk(), the sync_dev() that it calls included, and those at which a task has
\* the buffer of its block.
InGetblk(s)  == s.pc \in {"getblk", "get_hash_table", "candidate", "buffer_wait"}
                \/ (s.pc = "sync" /\ s.op # "sys_sync")
HasBuffer(s) == s.pc \in {"got", "ahead", "read", "copy", "brelse"}

\* What a task knows at each place: getblk() wants a block that is not in the buffer that it was
\* called with, and what get_hash_table() has found stays the buffer of its block.
Locals(t) ==
    LET s == task[t] IN
    /\ s.pc = "user" => s = InUser
    /\ InGetblk(s) \/ HasBuffer(s) => s.op # "sys_sync"
    /\ InGetblk(s) => s.want \in Blocks /\ (s.bh # NoBuffer => buf[s.bh].block # s.want)
    /\ s.pc = "get_hash_table" => s.try \in Buffers /\ buf[s.try].block = s.want
    /\ s.pc = "candidate" => s.try \in Buffers
    /\ s.pc = "sync" => s.i \in Buffers /\ IF s.op = "sys_sync" THEN s.bh = NoBuffer ELSE s.try \in Buffers
    /\ HasBuffer(s) => s.bh \in Buffers
    /\ s.pc = "ahead" => s.try \in Buffers /\ s.try # s.bh
    /\ t \in sleepers => s.pc = "buffer_wait"

\* The inductive invariant.
CacheInv ==
    Types /\ OneBufferPerBlock /\ CountIsHolders /\ NoLostSleeper /\ \A t \in Tasks : Locals(t)

-----------------------------------------------------------------------------
(* Types. *)

\* The places where a task can be.
LEMMA PcsAre ==
    /\ "user" \in Pcs /\ "getblk" \in Pcs /\ "get_hash_table" \in Pcs /\ "candidate" \in Pcs
    /\ "buffer_wait" \in Pcs /\ "sync" \in Pcs /\ "got" \in Pcs /\ "ahead" \in Pcs
    /\ "read" \in Pcs /\ "copy" \in Pcs /\ "brelse" \in Pcs
  BY DEF Pcs

\* The numbers of buffers.
LEMMA BuffersAre ==
    /\ NoBuffer \in MaybeBuffer /\ NoBuffer \notin Buffers
    /\ \A b \in MaybeBuffer : b # NoBuffer => b \in Buffers
    /\ \A b \in Buffers : b \in MaybeBuffer /\ b \in Turns
    /\ 1 \in Buffers /\ 0 \in Turns
  BY NBuffersAssumption DEF NoBuffer, Buffers, MaybeBuffer, Turns

\* Blocks and the absence of one.
LEMMA BlocksAre ==
    NoBlock \in MaybeBlock /\ \A k \in Blocks : k \in MaybeBlock /\ k # NoBlock
  BY NoBlockAssumption DEF MaybeBlock

\* A task in user mode is well typed.
LEMMA InUserIs == InUser \in TaskStates
  BY PcsAre, BuffersAre, BlocksAre DEF InUser, TaskStates, AllOps

-----------------------------------------------------------------------------
(* Counting. *)

Holders(b) == {t \in Tasks : b \in Held(t)}

\* The users of a buffer are finitely many.
LEMMA HoldersFinite ==
    ASSUME NEW b PROVE IsFiniteSet(Holders(b)) /\ Cardinality(Holders(b)) \in 0 .. Cardinality(Tasks)
<1>1. Holders(b) \subseteq Tasks
  BY DEF Holders
<1>2. QED
  BY <1>1, TasksAssumption, FS_Subset, FS_CardinalityType

\* Counts that are exact are within the bound of TypeOK.
LEMMA TypesAreOK == Types /\ CountIsHolders => TypeOK
<1> SUFFICES ASSUME Types, CountIsHolders, NEW b \in Buffers
             PROVE  buf[b].count \in 0 .. 2 * Cardinality(Tasks)
  BY DEF Types, TypeOK, TaskStates, Heads, HeadStates, MaybeBlock, MaybeBuffer, AllOps, Turns
<1>1. buf[b].count = Cardinality(Holders(b))
  BY DEF CountIsHolders, Holders
<1>2. Cardinality(Tasks) \in Nat
  BY TasksAssumption, FS_CardinalityType
<1>3. QED
  BY <1>1, <1>2, HoldersFinite

\* An unused buffer has no holder.
LEMMA UnusedHasNoHolder ==
    ASSUME Types, CountIsHolders, NEW b \in Buffers, buf[b].count = 0, NEW t \in Tasks
    PROVE  b \notin Held(t)
<1>1. Cardinality(Holders(b)) = 0
  BY DEF CountIsHolders, Holders
<1>2. Holders(b) = {}
  BY <1>1, HoldersFinite, FS_EmptySet
<1>3. QED
  BY <1>2 DEF Holders

\* A buffer that a task holds is counted, and the buffer of a block.
LEMMA HeldIsUsed ==
    ASSUME Types, CountIsHolders, NEW t \in Tasks, NEW b \in Held(t)
    PROVE  buf[b].count \in Nat \ {0} /\ buf[b].block \in Blocks
<1>1. b \in Buffers /\ buf[b].count # 0
  BY UnusedHasNoHolder DEF Held
<1>2. QED
  BY <1>1 DEF Types, Heads, HeadStates, MaybeBlock

\* A buffer head of the invariant is one of the records.
LEMMA HeadsAre == Types => \A b \in Buffers : buf[b] \in HeadStates
  BY DEF Types, Heads

\* What may be changed in the head of a block's buffer.
LEMMA HeadsKeep ==
    ASSUME Types, NEW b \in Buffers, buf[b].block # NoBlock,
           NEW h \in HeadStates, h.block = buf[b].block, h.count = buf[b].count,
           buf' = [buf EXCEPT ![b] = h]
    PROVE  /\ buf' \in [Buffers -> Heads]
           /\ \A c \in Buffers : buf'[c].block = buf[c].block /\ buf'[c].count = buf[c].count
<1>1. h \in Heads
  BY DEF Heads
<1>2. QED
  BY <1>1 DEF Types

\* A step of a task that gets and gives back no buffer.
LEMMA HeldSame ==
    ASSUME CountIsHolders, \A u \in Tasks : Held(u)' = Held(u),
           \A b \in Buffers : buf'[b].count = buf[b].count
    PROVE  CountIsHolders'
<1>1. \A b \in Buffers : {u \in Tasks : b \in Held(u)'} = {u \in Tasks : b \in Held(u)}
  OBVIOUS
<1>2. QED
  BY <1>1 DEF CountIsHolders

\* A step in which task t gets buffer b.
LEMMA HeldMore ==
    ASSUME CountIsHolders, NEW t \in Tasks, NEW b \in Buffers, b \notin Held(t),
           \A u \in Tasks \ {t} : Held(u)' = Held(u), Held(t)' = Held(t) \cup {b},
           \A c \in Buffers : buf'[c].count = IF c = b THEN buf[c].count + 1 ELSE buf[c].count
    PROVE  CountIsHolders'
<1> SUFFICES ASSUME NEW c \in Buffers PROVE buf'[c].count = Cardinality(Holders(c)')
  BY DEF CountIsHolders, Holders
<1>1. buf[c].count = Cardinality(Holders(c))
  BY DEF CountIsHolders, Holders
<1>2. CASE c = b
  <2>1. Holders(c)' = Holders(c) \cup {t} /\ t \notin Holders(c)
    BY <1>2 DEF Holders
  <2>2. QED
    BY <1>1, <1>2, <2>1, HoldersFinite, FS_AddElement
<1>3. CASE c # b
  <2>1. Holders(c)' = Holders(c)
    BY <1>3 DEF Holders
  <2>2. QED
    BY <1>1, <1>3, <2>1
<1>4. QED
  BY <1>2, <1>3

\* A step in which task t gives buffer b back.
LEMMA HeldLess ==
    ASSUME CountIsHolders, NEW t \in Tasks, NEW b \in Buffers, b \in Held(t),
           \A u \in Tasks \ {t} : Held(u)' = Held(u), Held(t)' = Held(t) \ {b},
           \A c \in Buffers : buf'[c].count = IF c = b THEN buf[c].count - 1 ELSE buf[c].count
    PROVE  CountIsHolders'
<1> SUFFICES ASSUME NEW c \in Buffers PROVE buf'[c].count = Cardinality(Holders(c)')
  BY DEF CountIsHolders, Holders
<1>1. buf[c].count = Cardinality(Holders(c))
  BY DEF CountIsHolders, Holders
<1>2. CASE c = b
  <2>1. Holders(c)' = Holders(c) \ {t} /\ t \in Holders(c)
    BY <1>2 DEF Holders
  <2>2. QED
    BY <1>1, <1>2, <2>1, HoldersFinite, FS_RemoveElement
<1>3. CASE c # b
  <2>1. Holders(c)' = Holders(c)
    BY <1>3 DEF Holders
  <2>2. QED
    BY <1>1, <1>3, <2>1
<1>4. QED
  BY <1>2, <1>3

\* A task that does not move keeps what it knows as long as its buffers keep their blocks.
LEMMA LocalsOfOthers ==
    ASSUME Types, NEW u \in Tasks, Locals(u), task'[u] = task[u],
           \A b \in Held(u) : buf'[b].block = buf[b].block,
           u \in sleepers' => u \in sleepers
    PROVE  Locals(u)'
  BY DEF Types, TaskStates, Locals, Held, InGetblk, HasBuffer, MaybeBuffer, InUser

\* What a step of one task leaves to the others.
LEMMA OthersKeep ==
    ASSUME CacheInv, NEW t \in Tasks, \A u \in Tasks \ {t} : task'[u] = task[u],
           sleepers' \subseteq sleepers \cup {t},
           \A b \in Buffers : buf'[b].block = buf[b].block \/ buf[b].count = 0
    PROVE  \A u \in Tasks \ {t} : Held(u)' = Held(u) /\ Locals(u)'
<1> SUFFICES ASSUME NEW u \in Tasks \ {t} PROVE Held(u)' = Held(u) /\ Locals(u)'
  OBVIOUS
<1>1. Held(u)' = Held(u)
  BY DEF Held
<1>2. \A b \in Held(u) : buf'[b].block = buf[b].block
  BY UnusedHasNoHolder DEF Held, CacheInv
<1>3. QED
  BY <1>1, <1>2, LocalsOfOthers DEF CacheInv

\* A step of task t that leaves the blocks of the buffers and the counts alone, and in which t
\* holds what it held.
LEMMA StepKeepsInv ==
    ASSUME CacheInv, NEW t \in Tasks, Types', Locals(t)', Held(t)' = Held(t),
           \A u \in Tasks \ {t} : task'[u] = task[u],
           sleepers' \subseteq sleepers \cup {t}, sleepers' = sleepers \/ Unused = {},
           \A b \in Buffers : buf'[b].block = buf[b].block /\ buf'[b].count = buf[b].count
    PROVE  CacheInv'
<1>1. \A u \in Tasks \ {t} : Held(u)' = Held(u) /\ Locals(u)'
  BY OthersKeep
<1>2. CountIsHolders'
  BY <1>1, HeldSame DEF CacheInv
<1>3. OneBufferPerBlock'
  BY DEF CacheInv, OneBufferPerBlock
<1>4. NoLostSleeper'
  BY <1>1 DEF CacheInv, NoLostSleeper, Unused
<1>5. QED
  BY <1>1, <1>2, <1>3, <1>4 DEF CacheInv

\* A step after which task t is awake and holds a buffer.
LEMMA HolderIsAwake ==
    ASSUME NEW t \in Tasks, t \notin sleepers', Held(t)' # {} PROVE NoLostSleeper'
  BY DEF NoLostSleeper

-----------------------------------------------------------------------------
(* Each step keeps the invariant. *)

\* The task goes to sleep because the buffer is locked.
LEMMA WaitOnBufferKeepsInv ==
    ASSUME CacheInv, NEW t \in Tasks, WaitOnBuffer(t) PROVE CacheInv'
<1>1. UNCHANGED <<buf, disk, task, sleepers, mishap>> /\ current' = NoTask
  BY DEF WaitOnBuffer
<1>2. Types' /\ Held(t)' = Held(t) /\ Locals(t)'
  BY <1>1 DEF CacheInv, Types, Held, Locals
<1>3. QED
  BY <1>1, <1>2, StepKeepsInv DEF CacheInv

\* The choice of a candidate by getblk().
LEMMA ChooseKeepsInv ==
    ASSUME CacheInv, NEW t \in Tasks, Choose(t) PROVE CacheInv'
<1>1. PICK b \in Buffers : task' = [task EXCEPT ![t].pc = "candidate", ![t].try = b]
  BY DEF Choose, LeastBad, Unused
<1>2. task[t].pc = "getblk" /\ current' = t /\ UNCHANGED <<buf, disk, sleepers, mishap>>
  BY DEF Choose, At
<1>3. Types'
  BY <1>1, <1>2, PcsAre, BuffersAre DEF CacheInv, Types, TaskStates
<1>4. Held(t)' = Held(t)
  BY <1>1, <1>2 DEF CacheInv, Types, TaskStates, Held
<1>5. Locals(t)'
  BY <1>1, <1>2 DEF CacheInv, Types, TaskStates, Locals, InGetblk, HasBuffer
<1>6. QED
  BY <1>1, <1>2, <1>3, <1>4, <1>5, StepKeepsInv DEF CacheInv, Types

\* A task goes to sleep for a free buffer.
LEMMA BufferWaitKeepsInv ==
    ASSUME CacheInv, NEW t \in Tasks, SleepOnBufferWait(t) \/ Repeat(t) PROVE CacheInv'
<1>1. PICK p \in {"getblk", "buffer_wait"} : task' = [task EXCEPT ![t].pc = p]
  BY DEF SleepOnBufferWait, Repeat, GoOn
<1>2. /\ task[t].pc \in {"getblk", "buffer_wait"}
      /\ current' \in {t, NoTask} /\ UNCHANGED <<buf, disk, mishap>>
      /\ sleepers' \subseteq sleepers \cup {t} /\ (sleepers' = sleepers \/ Unused = {})
      /\ t \in sleepers' => task'[t].pc = "buffer_wait"
  BY <1>1 DEF SleepOnBufferWait, Repeat, GoOn, At, CacheInv, Types, TaskStates
<1>3. Types'
  BY <1>1, <1>2, PcsAre DEF CacheInv, Types, TaskStates
<1>4. Held(t)' = Held(t)
  BY <1>1, <1>2 DEF CacheInv, Types, TaskStates, Held
<1>5. Locals(t)'
  BY <1>1, <1>2 DEF CacheInv, Types, TaskStates, Locals, InGetblk, HasBuffer
<1>6. QED
  BY <1>1, <1>2, <1>3, <1>4, <1>5, StepKeepsInv DEF CacheInv, Types

\* The search of the hash table.
LEMMA GetHashTableKeepsInv ==
    ASSUME CacheInv, NEW t \in Tasks, GetHashTable(t) PROVE CacheInv'
<1>0. PICK b \in find_buffer(task[t].want) :
          /\ buf'  = [buf EXCEPT ![b].count = @ + 1]
          /\ task' = [task EXCEPT ![t].pc = "get_hash_table", ![t].try = b]
  BY DEF GetHashTable
<1>1. b \in Buffers /\ buf[b].block = task[t].want
  BY DEF find_buffer
<1>2. /\ task[t].pc = "getblk" /\ current' = t /\ buf[b].block # NoBlock
      /\ UNCHANGED <<disk, sleepers, mishap>>
  BY <1>1, BlocksAre DEF GetHashTable, At, CacheInv, Locals, InGetblk
<1>3. task[t].bh # b
  BY <1>1, <1>2 DEF CacheInv, Locals, InGetblk, Types, TaskStates, NoBuffer, Buffers
<1>4. /\ task' \in [Tasks -> TaskStates]
      /\ task'[t].bh = task[t].bh /\ task'[t].try = b /\ task'[t].pc = "get_hash_table"
  BY <1>0, <1>1, PcsAre, BuffersAre DEF CacheInv, Types, TaskStates
<1>5. Types'
  BY <1>0, <1>1, <1>2, <1>4 DEF CacheInv, Types, Heads, HeadStates
<1>6. b \notin Held(t) /\ Held(t)' = Held(t) \cup {b}
  BY <1>1, <1>2, <1>3, <1>4 DEF Held
<1>7. Locals(t)'
  BY <1>0, <1>1, <1>2 DEF CacheInv, Types, TaskStates, Heads, HeadStates, Locals, InGetblk, HasBuffer
<1>8. \A u \in Tasks \ {t} : Held(u)' = Held(u) /\ Locals(u)'
  BY <1>0, <1>1, <1>2, OthersKeep DEF CacheInv, Types, Heads, HeadStates
<1>9. CountIsHolders'
  BY <1>0, <1>1, <1>2, <1>6, <1>8, HeldMore DEF CacheInv, Types, Heads, HeadStates
<1>10. OneBufferPerBlock'
  BY <1>0, <1>1, <1>2 DEF CacheInv, Types, Heads, HeadStates, OneBufferPerBlock
<1>11. NoLostSleeper'
  BY <1>2, <1>6, HolderIsAwake DEF CacheInv, Locals
<1>12. QED
  BY <1>5, <1>7, <1>8, <1>9, <1>10, <1>11 DEF CacheInv

\* What a call does with the buffer from getblk() keeps the types.
LEMMA ReturnKeepsTypes ==
    ASSUME Types, NEW t \in Tasks, NEW b \in Buffers, Return(t, b)
    PROVE  task' \in [Tasks -> TaskStates]
<1>1. task \in [Tasks -> TaskStates] /\ b \in MaybeBuffer
  BY BuffersAre DEF Types
<1>2. CASE task[t].bh = NoBuffer
  <2>1. task' = [task EXCEPT ![t].pc = "got", ![t].bh = b, ![t].try = NoBuffer, ![t].want = NoBlock]
    BY <1>2 DEF Return
  <2>2. QED
    BY <1>1, <2>1, PcsAre, BuffersAre, BlocksAre DEF TaskStates
<1>3. CASE task[t].bh # NoBuffer
  <2>1. task' = [task EXCEPT ![t].pc = "ahead", ![t].try = b, ![t].want = NoBlock]
    BY <1>1, <1>3 DEF Return, TaskStates
  <2>2. QED
    BY <1>1, <2>1, PcsAre, BuffersAre, BlocksAre DEF TaskStates
<1>4. QED
  BY <1>2, <1>3

\* get_hash_table() has found the block, and the buffer still holds it.
LEMMA HashTableReturnKeepsInv ==
    ASSUME CacheInv, NEW t \in Tasks, HashTableReturn(t) PROVE CacheInv'
<1> DEFINE b == task[t].try
<1>1. task[t].pc = "get_hash_table" /\ b \in Buffers /\ buf[b].block = task[t].want
  BY DEF HashTableReturn, At, CacheInv, Locals
<1>2. Return(t, b) /\ UNCHANGED <<buf, disk, sleepers, mishap>>
  BY <1>1 DEF HashTableReturn
<1>3. b \in MaybeBuffer /\ NoBuffer \notin Buffers
  BY <1>1, BuffersAre
<1>4. CASE task[t].bh = NoBuffer
  <2>1. /\ task' = [task EXCEPT ![t].pc = "got", ![t].bh = b, ![t].try = NoBuffer, ![t].want = NoBlock]
        /\ current' = t
    BY <1>2, <1>4 DEF Return
  <2>2. Types'
    BY <2>1, <1>1, <1>2, ReturnKeepsTypes DEF CacheInv, Types
  <2>3. Locals(t)' /\ Held(t)' = Held(t)
    BY <2>1, <1>1, <1>2, <1>3, <1>4 DEF CacheInv, Types, TaskStates, Locals, InGetblk, HasBuffer, Held
  <2>4. QED
    BY <2>1, <2>2, <2>3, <1>2, StepKeepsInv DEF CacheInv, Types
<1>5. CASE task[t].bh # NoBuffer
  <2>1. /\ task' = [task EXCEPT ![t].pc = "ahead", ![t].bh = task[t].bh, ![t].try = b, ![t].want = NoBlock]
        /\ current' = t
    BY <1>2, <1>5 DEF Return
  <2>2. Types'
    BY <2>1, <1>1, <1>2, ReturnKeepsTypes DEF CacheInv, Types
  <2>3. task[t].bh \in Buffers /\ buf[task[t].bh].block # task[t].want
    BY <1>1, <1>5 DEF CacheInv, Types, TaskStates, MaybeBuffer, Locals, InGetblk
  <2>4. Locals(t)' /\ Held(t)' = Held(t)
    BY <2>1, <2>3, <1>1, <1>2, <1>3 DEF CacheInv, Types, TaskStates, Locals, InGetblk, HasBuffer, Held
  <2>5. QED
    BY <2>1, <2>2, <2>4, <1>2, StepKeepsInv DEF CacheInv, Types
<1>6. QED
  BY <1>4, <1>5

\* getblk() takes an unused buffer over, for a block that is in no buffer.
LEMMA TakeOverKeepsInv ==
    ASSUME CacheInv, NEW t \in Tasks, task[t].pc = "candidate",
           buf[task[t].try].count = 0, find_buffer(task[t].want) = {},
           TakeOver(t, task[t].try), UNCHANGED <<disk, sleepers, mishap>>
    PROVE  CacheInv'
<1> DEFINE b == task[t].try
<1>1. /\ b \in Buffers /\ task[t].want \in Blocks
      /\ \A c \in Buffers : buf[c].block # task[t].want
  BY DEF CacheInv, Locals, InGetblk, find_buffer
<1>2. b \in MaybeBuffer /\ NoBuffer \notin Buffers
  BY <1>1, BuffersAre
<1>3. buf' = [buf EXCEPT ![b] = [block |-> task[t].want, count |-> 1, dirt |-> FALSE,
                                 uptodate |-> FALSE, newest |-> FALSE, io |-> "none"]]
  BY DEF TakeOver
<1>4. buf' \in [Buffers -> Heads]
  <2>1. [block |-> task[t].want, count |-> 1, dirt |-> FALSE, uptodate |-> FALSE,
         newest |-> FALSE, io |-> "none"] \in Heads
    BY <1>1, BlocksAre DEF Heads, HeadStates
  <2>2. QED
    BY <1>1, <1>3, <2>1 DEF CacheInv, Types
<1>5. task' = IF task[t].bh = NoBuffer
                THEN [task EXCEPT ![t].pc = "got", ![t].bh = b, ![t].try = NoBuffer, ![t].want = NoBlock]
                ELSE [task EXCEPT ![t].pc = "ahead", ![t].bh = task[t].bh, ![t].try = b, ![t].want = NoBlock]
  BY DEF TakeOver, Return
<1>6. current' = t
  BY DEF TakeOver, Return
<1>7. Types'
  <2>1. task' \in [Tasks -> TaskStates]
    BY <1>1, ReturnKeepsTypes DEF TakeOver, CacheInv
  <2>2. QED
    BY <2>1, <1>4, <1>6 DEF CacheInv, Types
<1>8. \A u \in Tasks : b \notin Held(u)
  BY <1>1, UnusedHasNoHolder DEF CacheInv
<1>9. task[t].bh # b /\ (task[t].bh # NoBuffer => task[t].bh \in Buffers)
  BY <1>1, <1>8 DEF Held, CacheInv, Types, TaskStates, MaybeBuffer
<1>10. Held(t)' = Held(t) \cup {b}
  BY <1>1, <1>2, <1>5, <1>9 DEF CacheInv, Types, TaskStates, Held
<1>11. Locals(t)'
  BY <1>1, <1>2, <1>5, <1>9 DEF CacheInv, Types, TaskStates, Locals, InGetblk, HasBuffer
<1>12. \A u \in Tasks \ {t} : Held(u)' = Held(u) /\ Locals(u)'
  BY <1>1, <1>3, <1>5, OthersKeep DEF CacheInv, Types, Heads, HeadStates
<1>13. CountIsHolders'
  BY <1>1, <1>3, <1>8, <1>10, <1>12, HeldMore DEF CacheInv, Types, Heads, HeadStates
<1>14. OneBufferPerBlock'
  BY <1>1, <1>3 DEF CacheInv, Types, Heads, HeadStates, OneBufferPerBlock
<1>15. NoLostSleeper'
  BY <1>10, HolderIsAwake DEF CacheInv, Locals
<1>16. QED
  BY <1>7, <1>11, <1>12, <1>13, <1>14, <1>15 DEF CacheInv

\* The steps of getblk() with its candidate: wait, write it, take it over.
LEMMA CandidateKeepsInv ==
    ASSUME CacheInv, NEW t \in Tasks, Candidate(t) PROVE CacheInv'
<1> DEFINE b == task[t].try
<1>1. task[t].pc = "candidate" /\ b \in Buffers /\ UNCHANGED <<disk, sleepers, mishap>>
  BY DEF Candidate, At, CacheInv, Locals
<1>2. CASE buf[b].count # 0 \/ (~buf[b].dirt /\ find_buffer(task[t].want) # {})
  <2>1. task' = [task EXCEPT ![t].pc = "getblk"] /\ current' = t /\ buf' = buf
    BY <1>2 DEF Candidate, GoOn
  <2>2. Types'
    BY <1>1, <2>1, PcsAre DEF CacheInv, Types, TaskStates
  <2>3. Locals(t)' /\ Held(t)' = Held(t)
    BY <1>1, <2>1 DEF CacheInv, Types, TaskStates, Locals, InGetblk, HasBuffer, Held
  <2>4. QED
    BY <1>1, <2>1, <2>2, <2>3, StepKeepsInv DEF CacheInv, Types
<1>3. CASE buf[b].count = 0 /\ buf[b].dirt
  <2>1. task' = [task EXCEPT ![t].pc = "sync", ![t].i = 1] /\ current' = t /\ buf' = buf
    BY <1>3 DEF Candidate
  <2>2. 1 \in Turns /\ 1 \in Buffers
    BY BuffersAre
  <2>3. Types'
    BY <1>1, <2>1, <2>2, PcsAre DEF CacheInv, Types, TaskStates
  <2>4. task[t].op # "sys_sync"
    BY <1>1 DEF CacheInv, Locals, InGetblk
  <2>5. Locals(t)' /\ Held(t)' = Held(t)
    BY <1>1, <2>1, <2>2, <2>4 DEF CacheInv, Types, TaskStates, Locals, InGetblk, HasBuffer, Held
  <2>6. QED
    BY <1>1, <2>1, <2>3, <2>5, StepKeepsInv DEF CacheInv, Types
<1>4. CASE buf[b].count = 0 /\ ~buf[b].dirt /\ find_buffer(task[t].want) = {}
  BY <1>1, <1>4, TakeOverKeepsInv DEF Candidate
<1>5. QED
  BY <1>2, <1>3, <1>4 DEF CacheInv, Types, Heads, HeadStates

\* sys_sync() and sync_dev() within getblk(), one buffer at a time.
LEMMA SyncKeepsInv ==
    ASSUME CacheInv, NEW t \in Tasks, Sync(t) PROVE CacheInv'
<1> DEFINE b == task[t].i
<1>1. task[t].pc = "sync" /\ b \in Buffers /\ UNCHANGED <<disk, sleepers, mishap>>
  BY DEF Sync, At, CacheInv, Locals
<1>2. /\ buf' \in [Buffers -> Heads]
      /\ \A c \in Buffers : buf'[c].block = buf[c].block /\ buf'[c].count = buf[c].count
  BY <1>1 DEF Sync, Request, CacheInv, Types, Heads, HeadStates
<1>3. CASE b < NBuffers
  <2>1. task' = [task EXCEPT ![t].i = b + 1] /\ current' = t
    BY <1>3 DEF Sync
  <2>2. b + 1 \in Buffers /\ b + 1 \in Turns
    BY <1>1, <1>3, NBuffersAssumption DEF Buffers, Turns
  <2>3. Types'
    BY <1>1, <1>2, <2>1, <2>2 DEF CacheInv, Types, TaskStates
  <2>4. Held(t)' = Held(t)
    BY <1>1, <2>1 DEF CacheInv, Types, TaskStates, Held
  <2>5. Locals(t)'
    BY <1>1, <1>2, <2>1, <2>2 DEF CacheInv, Types, TaskStates, MaybeBuffer, Locals, InGetblk, HasBuffer
  <2>6. QED
    BY <1>1, <1>2, <2>1, <2>3, <2>4, <2>5, StepKeepsInv DEF CacheInv, Types
<1>4. CASE ~(b < NBuffers) /\ task[t].op = "sys_sync"
  <2>1. task' = [task EXCEPT ![t] = InUser] /\ current' = NoTask
    BY <1>4 DEF Sync
  <2>2. Types'
    BY <1>1, <1>2, <2>1, InUserIs DEF CacheInv, Types
  <2>3. task[t].bh = NoBuffer /\ t \notin sleepers
    BY <1>1, <1>4 DEF CacheInv, Locals
  <2>4. Held(t)' = Held(t)
    BY <1>1, <2>1, <2>3, BuffersAre DEF CacheInv, Types, Held, InUser
  <2>5. Locals(t)'
    BY <1>1, <2>1, <2>3 DEF CacheInv, Types, Locals, InGetblk, HasBuffer, InUser
  <2>6. QED
    BY <1>1, <1>2, <2>1, <2>2, <2>4, <2>5, StepKeepsInv DEF CacheInv, Types
<1>5. CASE ~(b < NBuffers) /\ task[t].op # "sys_sync"
  <2>1. task' = [task EXCEPT ![t].pc = "candidate", ![t].i = 0] /\ current' = t
    BY <1>5 DEF Sync
  <2>2. Types'
    BY <1>1, <1>2, <2>1, PcsAre, BuffersAre DEF CacheInv, Types, TaskStates
  <2>3. Held(t)' = Held(t)
    BY <1>1, <2>1 DEF CacheInv, Types, TaskStates, Held
  <2>4. Locals(t)'
    BY <1>1, <1>2, <1>5, <2>1 DEF CacheInv, Types, TaskStates, MaybeBuffer, Locals, InGetblk, HasBuffer
  <2>5. QED
    BY <1>1, <1>2, <2>1, <2>2, <2>3, <2>4, StepKeepsInv DEF CacheInv, Types
<1>6. QED
  BY <1>3, <1>4, <1>5

\* bread() and the writing calls, with the buffer from getblk().
LEMMA BreadKeepsInv ==
    ASSUME CacheInv, NEW t \in Tasks, Bread(t) PROVE CacheInv'
<1> DEFINE b == task[t].bh
<1>1. /\ task[t].pc = "got" /\ b \in Buffers /\ task[t].op # "sys_sync"
      /\ current' = t /\ UNCHANGED <<disk, sleepers, mishap>>
  BY DEF Bread, At, CacheInv, Locals, HasBuffer
<1>2. /\ buf' \in [Buffers -> Heads]
      /\ \A c \in Buffers : buf'[c].block = buf[c].block /\ buf'[c].count = buf[c].count
  <2>1. buf[b].block # NoBlock /\ buf[b] \in HeadStates
    BY <1>1, HeldIsUsed, HeadsAre, BlocksAre DEF Held, CacheInv
  <2>2. buf' = buf \/ buf' = [buf EXCEPT ![b].io = "read", ![b].dirt = FALSE]
    BY DEF Bread, Request
  <2>3. CASE buf' = [buf EXCEPT ![b].io = "read", ![b].dirt = FALSE]
    <3>1. [buf[b] EXCEPT !.io = "read", !.dirt = FALSE] \in HeadStates
      BY <2>1 DEF HeadStates
    <3>2. buf' = [buf EXCEPT ![b] = [buf[b] EXCEPT !.io = "read", !.dirt = FALSE]]
      BY <1>1, <2>3 DEF CacheInv, Types
    <3>3. QED
      BY <1>1, <2>1, <3>1, <3>2, HeadsKeep DEF CacheInv, HeadStates
  <2>4. QED
    BY <2>2, <2>3 DEF CacheInv, Types
<1>3. CASE task[t].op = "file"
  <2>1. task' = [task EXCEPT ![t].pc = "read"]
    BY <1>3 DEF Bread
  <2>2. Types'
    BY <1>1, <1>2, <2>1, PcsAre DEF CacheInv, Types, TaskStates
  <2>3. Held(t)' = Held(t) /\ Locals(t)'
    BY <1>1, <1>2, <2>1 DEF CacheInv, Types, TaskStates, Held, Locals, InGetblk, HasBuffer
  <2>4. QED
    BY <1>1, <1>2, <2>1, <2>2, <2>3, StepKeepsInv DEF CacheInv, Types
<1>4. CASE task[t].op # "file"
  <2>1. PICK k \in Blocks \ {buf[b].block} : task' = [task EXCEPT ![t].pc = "getblk", ![t].want = k]
    BY <1>4 DEF Bread
  <2>2. Types'
    <3>1. task' \in [Tasks -> TaskStates]
      <4>1. task \in [Tasks -> TaskStates] /\ k \in MaybeBlock
        BY BlocksAre DEF CacheInv, Types
      <4>2. QED
        BY <2>1, <4>1, PcsAre DEF TaskStates
    <3>2. QED
      BY <1>1, <1>2, <3>1 DEF CacheInv, Types
  <2>3. Held(t)' = Held(t)
    BY <1>1, <1>2, <2>1 DEF CacheInv, Types, TaskStates, Held
  <2>4. Locals(t)'
    BY <1>1, <1>2, <2>1 DEF CacheInv, Types, TaskStates, Locals, InGetblk, HasBuffer
  <2>5. QED
    BY <1>1, <1>2, <2>1, <2>2, <2>3, <2>4, StepKeepsInv DEF CacheInv, Types
<1>5. QED
  BY <1>3, <1>4

\* The buffer that is read ahead is given back.
LEMMA ReadAheadKeepsInv ==
    ASSUME CacheInv, NEW t \in Tasks, ReadAhead(t) PROVE CacheInv'
<1> DEFINE b == task[t].try
<1>1. /\ task[t].pc = "ahead" /\ b \in Buffers /\ task[t].bh \in Buffers /\ task[t].bh # b
      /\ task[t].op # "sys_sync" /\ t \notin sleepers
      /\ current' = t /\ UNCHANGED <<disk, sleepers, mishap>>
  BY DEF ReadAhead, At, CacheInv, Locals, HasBuffer
<1>2. task' = [task EXCEPT ![t].pc = "read", ![t].try = NoBuffer]
  BY DEF ReadAhead
<1>3. b \in Held(t) /\ buf[b].count \in Nat \ {0}
  BY <1>1, HeldIsUsed DEF Held, CacheInv
<1>4. buf[b].count - 1 \in Nat
  BY <1>3
<1>5. /\ buf' \in [Buffers -> Heads]
      /\ \A c \in Buffers : /\ buf'[c].block = buf[c].block
                            /\ buf'[c].count = IF c = b THEN buf[c].count - 1 ELSE buf[c].count
  <2>1. PICK mid : /\ mid = buf \/ mid = Request(task[t].bh, "read")
                   /\ buf' = [mid EXCEPT ![b].count = mid[b].count - 1]
    BY DEF ReadAhead
  <2>2. /\ mid \in [Buffers -> Heads]
        /\ \A c \in Buffers : mid[c].block = buf[c].block /\ mid[c].count = buf[c].count
    <3>1. buf[task[t].bh].block # NoBlock
      BY <1>1, HeldIsUsed, BlocksAre DEF Held, CacheInv
    <3>2. QED
      BY <1>1, <2>1, <3>1 DEF Request, CacheInv, Types, Heads, HeadStates
  <2>3. QED
    BY <1>1, <1>4, <2>1, <2>2 DEF Heads, HeadStates
<1>6. Types'
  BY <1>1, <1>2, <1>5, PcsAre, BuffersAre DEF CacheInv, Types, TaskStates
<1>7. Held(t)' = Held(t) \ {b}
  BY <1>1, <1>2, BuffersAre DEF CacheInv, Types, TaskStates, Held
<1>8. Locals(t)'
  BY <1>1, <1>2 DEF CacheInv, Types, TaskStates, Locals, InGetblk, HasBuffer
<1>9. \A u \in Tasks \ {t} : Held(u)' = Held(u) /\ Locals(u)'
  BY <1>1, <1>2, <1>5, OthersKeep DEF CacheInv, Types
<1>10. CountIsHolders'
  BY <1>1, <1>3, <1>5, <1>7, <1>9, HeldLess DEF CacheInv
<1>11. OneBufferPerBlock'
  BY <1>5 DEF CacheInv, OneBufferPerBlock
<1>12. NoLostSleeper'
  BY <1>1, <1>7, HolderIsAwake DEF Held
<1>13. QED
  BY <1>6, <1>8, <1>9, <1>10, <1>11, <1>12 DEF CacheInv

\* The return from wait_on_buffer() in bread().
LEMMA ReadDoneKeepsInv ==
    ASSUME CacheInv, NEW t \in Tasks, ReadDone(t) \/ GotWhole(t) PROVE CacheInv'
<1> DEFINE b == task[t].bh
<1>1. /\ task[t].pc \in {"read", "got"} /\ b \in Buffers /\ task[t].op # "sys_sync"
      /\ t \notin sleepers
      /\ current' \in {t, NoTask} /\ UNCHANGED <<disk, sleepers, mishap>>
  BY DEF ReadDone, GotWhole, At, CacheInv, Locals, HasBuffer
<1>2. PICK p \in {"brelse", "copy"} : task' = [task EXCEPT ![t].pc = p]
  BY DEF ReadDone, GotWhole
<1>3. /\ buf' \in [Buffers -> Heads]
      /\ \A c \in Buffers : buf'[c].block = buf[c].block /\ buf'[c].count = buf[c].count
  <2>1. buf[b].block # NoBlock
    BY <1>1, HeldIsUsed, BlocksAre DEF Held, CacheInv
  <2>2. buf' = buf \/ buf' = [buf EXCEPT ![b].dirt = TRUE]
    BY DEF ReadDone, GotWhole
  <2>3. CASE buf' = [buf EXCEPT ![b].dirt = TRUE]
    <3>1. buf[b] \in HeadStates
      BY <1>1, HeadsAre DEF CacheInv
    <3>2. [buf[b] EXCEPT !.dirt = TRUE] \in HeadStates
      BY <3>1 DEF HeadStates
    <3>3. QED
      BY <1>1, <2>1, <2>3, <3>1, <3>2, HeadsKeep DEF CacheInv, HeadStates
  <2>4. QED
    BY <2>2, <2>3 DEF CacheInv, Types
<1>4. Types'
  BY <1>1, <1>2, <1>3, PcsAre DEF CacheInv, Types, TaskStates
<1>5. Held(t)' = Held(t) /\ Locals(t)'
  BY <1>1, <1>2 DEF CacheInv, Types, TaskStates, Held, Locals, InGetblk, HasBuffer
<1>6. QED
  BY <1>1, <1>2, <1>3, <1>4, <1>5, StepKeepsInv DEF CacheInv, Types

\* The user copies data to or from the buffer.
LEMMA CopyKeepsInv ==
    ASSUME CacheInv, NEW t \in Tasks, Copy(t) PROVE CacheInv'
<1>1. /\ task[t].pc = "copy" /\ task[t].bh \in Buffers /\ task[t].op # "sys_sync"
      /\ t \notin sleepers
      /\ current' = t /\ disk' \subseteq disk /\ sleepers' = sleepers
      /\ task' = [task EXCEPT ![t].pc = "brelse"]
  BY DEF Copy, At, CacheInv, Locals, HasBuffer
<1>2. mishap' \in {"none", "raw", "many"}
  BY DEF Copy, CacheInv, Types
<1>3. /\ buf' \in [Buffers -> Heads]
      /\ \A c \in Buffers : buf'[c].block = buf[c].block /\ buf'[c].count = buf[c].count
  <2>1. buf[task[t].bh].block # NoBlock
    BY <1>1, HeldIsUsed, BlocksAre DEF Held, CacheInv
  <2>2. SUFFICES ASSUME NEW c \in Buffers
                 PROVE  /\ buf'[c] \in Heads
                        /\ buf'[c].block = buf[c].block /\ buf'[c].count = buf[c].count
    BY DEF Copy
  <2>3. CASE c = task[t].bh
    <3>1. PICK d \in BOOLEAN : buf'[c] = [buf[c] EXCEPT !.newest = TRUE, !.dirt = d]
      BY <2>3 DEF Copy
    <3>2. buf[c] \in HeadStates
      BY HeadsAre DEF CacheInv
    <3>3. buf'[c] \in HeadStates /\ buf'[c].block = buf[c].block /\ buf'[c].count = buf[c].count
      BY <3>1, <3>2 DEF HeadStates
    <3>4. QED
      BY <2>1, <2>3, <3>3 DEF Heads
  <2>4. CASE c # task[t].bh
    <3>1. PICK n \in BOOLEAN : buf'[c] = [buf[c] EXCEPT !.newest = n]
      BY <2>4 DEF Copy
    <3>2. QED
      BY <3>1 DEF CacheInv, Types, Heads, HeadStates
  <2>5. QED
    BY <2>3, <2>4
<1>4. Types'
  BY <1>1, <1>2, <1>3, PcsAre DEF CacheInv, Types, TaskStates
<1>5. Held(t)' = Held(t) /\ Locals(t)'
  BY <1>1 DEF CacheInv, Types, TaskStates, Held, Locals, InGetblk, HasBuffer
<1>6. QED
  BY <1>1, <1>3, <1>4, <1>5, StepKeepsInv DEF CacheInv, Types

\* brelse(), with its wakeup.
LEMMA BrelseKeepsInv ==
    ASSUME CacheInv, NEW t \in Tasks, Brelse(t) PROVE CacheInv'
<1> DEFINE b == task[t].bh
<1>1. /\ task[t].pc = "brelse" /\ b \in Buffers
      /\ current' = NoTask /\ sleepers' = {} /\ UNCHANGED <<disk, mishap>>
      /\ task' = [task EXCEPT ![t] = InUser]
      /\ buf' = [buf EXCEPT ![b].count = @ - 1]
  BY DEF Brelse, At, CacheInv, Locals, HasBuffer
<1>2. b \in Held(t) /\ buf[b].count \in Nat \ {0}
  BY <1>1, HeldIsUsed DEF Held, CacheInv
<1>3. buf[b].count - 1 \in Nat
  BY <1>2
<1>4. /\ buf' \in [Buffers -> Heads]
      /\ \A c \in Buffers : /\ buf'[c].block = buf[c].block
                            /\ buf'[c].count = IF c = b THEN buf[c].count - 1 ELSE buf[c].count
  BY <1>1, <1>3 DEF CacheInv, Types, Heads, HeadStates
<1>5. Types'
  BY <1>1, <1>4, InUserIs DEF CacheInv, Types
<1>6. Held(t)' = Held(t) \ {b}
  BY <1>1, BuffersAre DEF CacheInv, Types, Held, InUser
<1>7. Locals(t)'
  BY <1>1 DEF CacheInv, Types, Locals, InGetblk, HasBuffer, InUser
<1>8. \A u \in Tasks \ {t} : Held(u)' = Held(u) /\ Locals(u)'
  BY <1>1, <1>4, OthersKeep DEF CacheInv, Types
<1>9. CountIsHolders'
  BY <1>1, <1>2, <1>4, <1>6, <1>8, HeldLess DEF CacheInv
<1>10. OneBufferPerBlock'
  BY <1>4 DEF CacheInv, OneBufferPerBlock
<1>11. NoLostSleeper'
  BY <1>1 DEF NoLostSleeper
<1>12. QED
  BY <1>5, <1>7, <1>8, <1>9, <1>10, <1>11 DEF CacheInv

\* A call begins.
LEMMA StartKeepsInv ==
    ASSUME CacheInv, NEW t \in Tasks,
           (\E op \in Ops, k \in Blocks : Start(t, op, k)) \/ StartSync(t)
    PROVE  CacheInv'
<1>1. /\ task[t].pc = "user" /\ task[t] = InUser /\ t \notin sleepers
      /\ current' = t /\ UNCHANGED <<buf, disk, sleepers, mishap>>
  BY DEF Start, StartSync, CacheInv, Locals
<1>2. PICK s \in TaskStates :
          /\ task' = [task EXCEPT ![t] = s] /\ s.bh = NoBuffer
          /\ \/ s.pc = "getblk" /\ s.op # "sys_sync" /\ s.want \in Blocks
             \/ s.pc = "sync" /\ s.op = "sys_sync" /\ s.i \in Buffers
  <2>1. CASE \E op \in Ops, k \in Blocks : Start(t, op, k)
    <3>1. PICK op \in Ops, k \in Blocks : Start(t, op, k)
      BY <2>1
    <3>2. [InUser EXCEPT !.pc = "getblk", !.op = op, !.want = k] \in TaskStates
      BY PcsAre, BuffersAre, BlocksAre DEF InUser, TaskStates, AllOps
    <3>3. QED
      BY <3>1, <3>2 DEF Start, InUser, Ops
  <2>2. CASE StartSync(t)
    <3>1. [InUser EXCEPT !.pc = "sync", !.op = "sys_sync", !.i = 1] \in TaskStates
      BY PcsAre, BuffersAre, BlocksAre DEF InUser, TaskStates, AllOps
    <3>2. QED
      BY <2>2, <3>1, BuffersAre DEF StartSync, InUser
  <2>3. QED
    BY <2>1, <2>2
<1>3. Types'
  BY <1>1, <1>2 DEF CacheInv, Types
<1>4. Held(t)' = Held(t)
  BY <1>1, <1>2, BuffersAre DEF CacheInv, Types, Held, InUser
<1>5. Locals(t)'
  BY <1>1, <1>2 DEF CacheInv, Types, Locals, InGetblk, HasBuffer
<1>6. QED
  BY <1>1, <1>2, <1>3, <1>4, <1>5, StepKeepsInv DEF CacheInv, Types

\* The interrupt of the disk ends a transfer.
LEMMA EndRequestKeepsInv ==
    ASSUME CacheInv, NEW b \in Buffers, EndRequest(b) PROVE CacheInv'
<1>1. PICK uptodate \in BOOLEAN : EndRead(b, uptodate) \/ EndWrite(b, uptodate)
  BY DEF EndRequest
<1>2. UNCHANGED <<task, sleepers, current>> /\ mishap' \in {"none", "raw", "many"}
  BY <1>1 DEF EndRead, EndWrite, CacheInv, Types
<1>3. /\ buf' \in [Buffers -> Heads]
      /\ \A c \in Buffers : buf'[c].block = buf[c].block /\ buf'[c].count = buf[c].count
  BY <1>1 DEF EndRead, EndWrite, CacheInv, Types, Heads, HeadStates
<1>4. disk' \subseteq Blocks
  <2>1. CASE EndRead(b, uptodate)
    BY <2>1 DEF EndRead, CacheInv, Types
  <2>2. CASE EndWrite(b, uptodate)
    <3>1. buf[b].block \in Blocks
      BY <2>2 DEF EndWrite, CacheInv, Types, Heads, HeadStates, MaybeBlock
    <3>2. QED
      BY <2>2, <3>1 DEF EndWrite, CacheInv, Types
  <2>3. QED
    BY <1>1, <2>1, <2>2
<1>5. Types'
  BY <1>2, <1>3, <1>4 DEF CacheInv, Types
<1>6. \A u \in Tasks : Held(u)' = Held(u) /\ Locals(u)'
  BY <1>2, <1>3, LocalsOfOthers DEF CacheInv, Held
<1>7. CountIsHolders' /\ OneBufferPerBlock'
  BY <1>3, <1>6, HeldSame DEF CacheInv, OneBufferPerBlock
<1>8. NoLostSleeper'
  BY <1>2, <1>3, <1>6 DEF CacheInv, NoLostSleeper, Unused
<1>9. QED
  BY <1>5, <1>6, <1>7, <1>8 DEF CacheInv

-----------------------------------------------------------------------------
(* The theorems. *)

\* The cache after buffer_init().
LEMMA InitIsInv == Init => CacheInv
<1> SUFFICES ASSUME Init PROVE CacheInv
  OBVIOUS
<1>1. Types
  BY InUserIs, BlocksAre DEF Init, Types, Heads, HeadStates
<1>2. \A t \in Tasks : Locals(t) /\ Held(t) = {}
  BY BuffersAre DEF Init, Locals, Held, InGetblk, HasBuffer, InUser
<1>3. CountIsHolders
  <2>1. \A b \in Buffers : {t \in Tasks : b \in Held(t)} = {}
    BY <1>2
  <2>2. QED
    BY <2>1, FS_EmptySet DEF Init, CountIsHolders
<1>4. OneBufferPerBlock /\ NoLostSleeper
  BY DEF Init, OneBufferPerBlock, NoLostSleeper
<1>5. QED
  BY <1>1, <1>2, <1>3, <1>4 DEF CacheInv

\* Every step keeps the invariant of the cache.
LEMMA NextKeepsInv == CacheInv /\ [Next]_vars => CacheInv'
<1> SUFFICES ASSUME CacheInv, [Next]_vars PROVE CacheInv'
  OBVIOUS
<1>1. ASSUME NEW t \in Tasks, TaskStep(t) PROVE CacheInv'
  BY <1>1, WaitOnBufferKeepsInv, GetHashTableKeepsInv, ChooseKeepsInv, BufferWaitKeepsInv,
     HashTableReturnKeepsInv, CandidateKeepsInv, SyncKeepsInv, BreadKeepsInv, ReadAheadKeepsInv,
     ReadDoneKeepsInv, CopyKeepsInv, BrelseKeepsInv DEF TaskStep
<1>2. ASSUME NEW t \in Tasks, StartSync(t) PROVE CacheInv'
  BY <1>2, StartKeepsInv
<1>3. ASSUME NEW t \in Tasks, NEW op \in Ops, NEW k \in Blocks, Start(t, op, k) PROVE CacheInv'
  BY <1>3, StartKeepsInv
<1>4. ASSUME NEW b \in Buffers, EndRequest(b) PROVE CacheInv'
  BY <1>4, EndRequestKeepsInv
<1>5. CASE UNCHANGED vars
  <2>1. \A t \in Tasks : Held(t)' = Held(t) /\ Locals(t)'
    BY <1>5 DEF vars, CacheInv, Held, Locals, InGetblk, HasBuffer
  <2>2. QED
    BY <1>5, <2>1, HeldSame DEF vars, CacheInv, Types, OneBufferPerBlock, NoLostSleeper, Unused
<1>6. QED
  BY <1>1, <1>2, <1>3, <1>4, <1>5 DEF Next

\* The invariant of the cache.
THEOREM CacheInvariant == Spec => []CacheInv
<1>1. CacheInv /\ [Next]_vars => CacheInv'
  BY NextKeepsInv
<1>2. QED
  BY <1>1, InitIsInv, PTL DEF Spec

\* In every run of the cache, whatever tasks use it and however their sleeps and the ends of the
\* transfers interleave, a block is in one buffer and b_count is the number of the users.
THEOREM CacheIsConsistent == Spec => []BuffersConsistent
<1>1. CacheInv => BuffersConsistent
  BY TypesAreOK DEF CacheInv, BuffersConsistent
<1>2. QED
  BY <1>1, CacheInvariant, PTL

\* No wakeup is lost on buffer_wait, although breada() gives its second buffer back without one.
THEOREM NoWakeupIsLost == Spec => []NoLostSleeper
<1>1. CacheInv => NoLostSleeper
  BY DEF CacheInv
<1>2. QED
  BY <1>1, CacheInvariant, PTL

\* Only an unused buffer gets another block.
LEMMA BlocksStay ==
    ASSUME CacheInv, [Next]_vars, NEW b \in Buffers
    PROVE  buf'[b].block = buf[b].block \/ buf[b].count = 0
<1>1. ASSUME NEW t \in Tasks, TaskStep(t) PROVE buf'[b].block = buf[b].block \/ buf[b].count = 0
  <2>1. CASE HashTableReturn(t)
    BY <2>1 DEF HashTableReturn, At, CacheInv, Locals
  <2>2. CASE Candidate(t)
    BY <2>2 DEF Candidate, TakeOver, CacheInv, Types
  <2>3. CASE Sync(t) \/ Bread(t)
    <3>1. PICK c : buf' = buf \/ buf' = Request(c, "read") \/ buf' = Request(c, "write")
      BY <2>3 DEF Sync, Bread
    <3>2. buf \in [Buffers -> HeadStates]
      BY HeadsAre DEF CacheInv, Types
    <3>3. QED
      BY <3>1, <3>2 DEF Request, HeadStates
  <2>4. CASE ReadAhead(t)
    <3>1. PICK mid : /\ mid = buf \/ mid = Request(task[t].bh, "read")
                     /\ buf' = [mid EXCEPT ![task[t].try].count = @ - 1]
      BY <2>4 DEF ReadAhead
    <3>2. mid \in [Buffers -> HeadStates] /\ mid[b].block = buf[b].block
      BY <3>1, HeadsAre DEF Request, CacheInv, Types, HeadStates
    <3>3. QED
      BY <3>1, <3>2 DEF HeadStates
  <2>5. CASE Copy(t)
    <3>1. PICK d, n : \/ buf'[b] = [buf[b] EXCEPT !.newest = TRUE, !.dirt = d]
                      \/ buf'[b] = [buf[b] EXCEPT !.newest = n]
      BY <2>5 DEF Copy
    <3>2. buf[b] \in HeadStates
      BY HeadsAre DEF CacheInv
    <3>3. QED
      BY <3>1, <3>2 DEF HeadStates
  <2>6. CASE GetHashTable(t) \/ ReadDone(t) \/ Brelse(t)
    BY <2>6 DEF GetHashTable, ReadDone, Brelse, CacheInv, Types, Heads, HeadStates
  <2>7. CASE WaitOnBuffer(t) \/ Choose(t) \/ SleepOnBufferWait(t) \/ Repeat(t) \/ GotWhole(t)
    BY <2>7 DEF WaitOnBuffer, Choose, SleepOnBufferWait, Repeat, GotWhole
  <2>8. QED
    BY <1>1, <2>1, <2>2, <2>3, <2>4, <2>5, <2>6, <2>7 DEF TaskStep
<1>2. ASSUME NEW c \in Buffers, EndRequest(c) PROVE buf'[b].block = buf[b].block
  BY <1>2 DEF EndRequest, EndRead, EndWrite, CacheInv, Types, Heads, HeadStates
<1>3. CASE UNCHANGED buf
  BY <1>3
<1>4. QED
  BY <1>1, <1>2, <1>3 DEF Next, Start, StartSync, vars

\* A buffer that a task uses is not taken over for another block, also not by a getblk() that chose
\* it and slept before the task took it.
THEOREM UsedBufferKeepsItsBlock == Spec => HeldKeepsBlock
<1>1. ASSUME CacheInv, [Next]_vars
      PROVE  \A t \in Tasks : \A b \in Held(t) : buf'[b].block = buf[b].block
  BY <1>1, BlocksStay, UnusedHasNoHolder DEF Held, CacheInv
<1>2. CacheInv /\ [Next]_vars => [\A t \in Tasks : \A b \in Held(t) : buf'[b].block = buf[b].block]_vars
  BY <1>1
<1>3. QED
  BY <1>2, CacheInvariant, PTL DEF Spec, HeldKeepsBlock

-----------------------------------------------------------------------------
(* No change is lost. *)

\* What may be said of the data of a buffer: the newest data are in it exactly if it is up to
\* date, a buffer that is dirty or being written has them, and one that is being read has not.
GoodData(h) ==
    /\ h.uptodate = h.newest
    /\ h.dirt = TRUE \/ h.io = "write" => h.newest = TRUE
    /\ h.io = "read" => h.newest = FALSE

\* The buffer has data that are still to be written.
Pending(h) == h.newest = TRUE /\ (h.dirt = TRUE \/ h.io = "write")

\* A task that has just got a buffer still runs and nobody transfers the buffer; file_write()
\* keeps it dirty while it copies without a fault.
LocalData(t) ==
    LET s == task[t] IN
    /\ s.pc = "got" => current = t /\ buf[s.bh].io = "none"
    /\ s.pc = "copy" /\ s.op = "file" /\ current = t => buf[s.bh].dirt = TRUE

DataSafe ==
    /\ \A b \in Buffers : GoodData(buf[b]) /\ (buf[b].block \in Blocks \ disk => Pending(buf[b]))
    /\ \A k \in Blocks \ disk : \E b \in Buffers : buf[b].block = k
    /\ \A t \in Tasks : LocalData(t)

DataInv == mishap = "none" => DataSafe

\* A transfer that begins, of a buffer in order, leaves the buffer in order.
LEMMA RequestIsGood ==
    ASSUME NEW h \in HeadStates, GoodData(h)
    PROVE  /\ h.dirt /\ h.io = "none" =>
                LET g == [h EXCEPT !.io = "write", !.dirt = FALSE] IN
                GoodData(g) /\ Pending(g) /\ g.block = h.block
           /\ ~h.uptodate /\ h.io = "none" =>
                LET g == [h EXCEPT !.io = "read", !.dirt = FALSE] IN
                GoodData(g) /\ ~Pending(h) /\ g.block = h.block
<1>1. h.dirt = TRUE /\ h.io = "none" =>
         LET g == [h EXCEPT !.io = "write", !.dirt = FALSE] IN
         GoodData(g) /\ Pending(g) /\ g.block = h.block
  BY DEF HeadStates, GoodData, Pending
<1>2. h.uptodate = FALSE /\ h.io = "none" =>
         LET g == [h EXCEPT !.io = "read", !.dirt = FALSE] IN
         GoodData(g) /\ ~Pending(h) /\ g.block = h.block
  BY DEF HeadStates, GoodData, Pending
<1>3. h.dirt \in BOOLEAN /\ h.uptodate \in BOOLEAN
  BY DEF HeadStates
<1>4. QED
  BY <1>1, <1>2, <1>3

\* A step of task t that leaves the disk and the blocks of the buffers alone.
LEMMA StepKeepsData ==
    ASSUME CacheInv, DataSafe, NEW t \in Tasks, current \in {t, NoTask}, current' \in {t, NoTask},
           \A u \in Tasks \ {t} : task'[u] = task[u], LocalData(t)', disk' = disk,
           \A b \in Buffers : /\ buf'[b].block = buf[b].block
                              /\ GoodData(buf'[b]) /\ (Pending(buf[b]) => Pending(buf'[b]))
    PROVE  DataSafe'
<1>1. \A u \in Tasks \ {t} : LocalData(u)'
  BY NoTaskAssumption DEF DataSafe, LocalData
<1>2. \A b \in Buffers : GoodData(buf'[b]) /\ (buf'[b].block \in Blocks \ disk' => Pending(buf'[b]))
  BY DEF DataSafe
<1>3. \A k \in Blocks \ disk' : \E b \in Buffers : buf'[b].block = k
  BY DEF DataSafe
<1>4. QED
  BY <1>1, <1>2, <1>3 DEF DataSafe, GoodData, Pending

\* A step of task t that leaves the data alone.
LEMMA DataStay ==
    ASSUME CacheInv, DataSafe, NEW t \in Tasks, current \in {t, NoTask}, current' \in {t, NoTask},
           \A u \in Tasks \ {t} : task'[u] = task[u], disk' = disk, buf' = buf,
           task'[t].pc \notin {"got", "copy"}
    PROVE  DataSafe'
<1>1. LocalData(t)'
  BY DEF LocalData
<1>2. QED
  BY <1>1, StepKeepsData DEF DataSafe

\* A step that changes no data.
LEMMA QuietStepKeepsData ==
    ASSUME CacheInv, DataSafe, NEW t \in Tasks,
           \/ WaitOnBuffer(t) \/ Choose(t) \/ SleepOnBufferWait(t) \/ Repeat(t)
           \/ StartSync(t) \/ \E op \in Ops, k \in Blocks : Start(t, op, k)
    PROVE  DataSafe'
<1>1. /\ current \in {t, NoTask} /\ current' \in {t, NoTask} /\ UNCHANGED <<buf, disk>>
      /\ \A u \in Tasks \ {t} : task'[u] = task[u]
  BY DEF WaitOnBuffer, Choose, SleepOnBufferWait, Repeat, StartSync, Start, GoOn, At, CacheInv, Types
<1>2. task'[t].pc \notin {"got", "copy"}
  <2>1. CASE WaitOnBuffer(t)
    BY <2>1 DEF WaitOnBuffer, WaitsFor
  <2>2. CASE Choose(t) \/ SleepOnBufferWait(t) \/ Repeat(t)
    BY <2>2 DEF Choose, SleepOnBufferWait, Repeat, GoOn, CacheInv, Types, TaskStates
  <2>3. CASE StartSync(t) \/ \E op \in Ops, k \in Blocks : Start(t, op, k)
    BY <2>3 DEF StartSync, Start, InUser, CacheInv, Types
  <2>4. QED
    BY <2>1, <2>2, <2>3
<1>3. QED
  BY <1>1, <1>2, DataStay

\* The steps that change counts only.
LEMMA CountStepKeepsData ==
    ASSUME CacheInv, DataSafe, NEW t \in Tasks, GetHashTable(t) \/ Brelse(t)
    PROVE  DataSafe'
<1>1. /\ current \in {t, NoTask} /\ current' \in {t, NoTask} /\ disk' = disk
      /\ \A u \in Tasks \ {t} : task'[u] = task[u]
      /\ task'[t].pc \notin {"got", "copy"}
  BY DEF GetHashTable, Brelse, At, InUser, CacheInv, Types, TaskStates
<1>2. PICK b, n : buf' = [buf EXCEPT ![b].count = n]
  BY DEF GetHashTable, Brelse
<1>3. \A c \in Buffers : /\ buf'[c].block = buf[c].block /\ GoodData(buf'[c])
                         /\ Pending(buf[c]) => Pending(buf'[c])
  <2>1. buf \in [Buffers -> HeadStates] /\ \A c \in Buffers : GoodData(buf[c])
    BY HeadsAre DEF CacheInv, Types, DataSafe
  <2>2. QED
    BY <1>2, <2>1 DEF HeadStates, GoodData, Pending
<1>4. LocalData(t)'
  BY <1>1 DEF LocalData
<1>5. QED
  BY <1>1, <1>3, <1>4, StepKeepsData

\* A buffer found in the hash table.
LEMMA HashTableReturnKeepsData ==
    ASSUME CacheInv, DataSafe, NEW t \in Tasks, HashTableReturn(t) PROVE DataSafe'
<1> DEFINE b == task[t].try
<1>1. task[t].pc = "get_hash_table" /\ b \in Buffers /\ buf[b].block = task[t].want
  BY DEF HashTableReturn, At, CacheInv, Locals
<1>2. /\ Return(t, b) /\ UNCHANGED <<buf, disk>> /\ current \in {t, NoTask} /\ current' = t
      /\ buf[b].io = "none"
  BY <1>1 DEF HashTableReturn, At, Passed, WaitsFor, Locked, Return
<1>3. \A u \in Tasks \ {t} : task'[u] = task[u]
  BY <1>2 DEF Return, CacheInv, Types
<1>4. (task'[t].pc = "got" /\ task'[t].bh = b) \/ task'[t].pc = "ahead"
  BY <1>2 DEF Return, CacheInv, Types, TaskStates
<1>5. LocalData(t)'
  BY <1>2, <1>4 DEF LocalData
<1>6. QED
  BY <1>2, <1>3, <1>5, StepKeepsData DEF DataSafe

\* A buffer is taken over only when its block is safe on the disk.
LEMMA CandidateKeepsData ==
    ASSUME CacheInv, DataSafe, NEW t \in Tasks, Candidate(t) PROVE DataSafe'
<1> DEFINE b == task[t].try
<1>1. /\ task[t].pc = "candidate" /\ b \in Buffers /\ current \in {t, NoTask} /\ disk' = disk
      /\ buf[b].io = "none" /\ task[t].want \in Blocks
  BY DEF Candidate, At, CacheInv, Locals, Passed, WaitsFor, Locked, InGetblk
<1>2. CASE buf[b].count # 0 \/ buf[b].dirt \/ find_buffer(task[t].want) # {}
  <2>1. current' = t /\ buf' = buf
    BY <1>2 DEF Candidate, GoOn
  <2>2. task' = [task EXCEPT ![t].pc = "getblk"] \/ task' = [task EXCEPT ![t].pc = "sync", ![t].i = 1]
    BY <1>2 DEF Candidate, GoOn
  <2>3. task'[t].pc \notin {"got", "copy"} /\ \A u \in Tasks \ {t} : task'[u] = task[u]
    BY <2>2 DEF CacheInv, Types, TaskStates
  <2>4. QED
    BY <1>1, <2>1, <2>3, DataStay
<1>3. CASE buf[b].count = 0 /\ ~buf[b].dirt /\ find_buffer(task[t].want) = {}
  <2>1. /\ buf' = [buf EXCEPT ![b] = [block |-> task[t].want, count |-> 1, dirt |-> FALSE,
                                      uptodate |-> FALSE, newest |-> FALSE, io |-> "none"]]
        /\ Return(t, b) /\ current' = t
    BY <1>3 DEF Candidate, TakeOver, Return
  <2>2. ~Pending(buf[b])
    BY <1>1, <1>3 DEF Pending
  <2>3. buf[b].block \notin Blocks \ disk
    BY <1>1, <2>2 DEF DataSafe
  <2>4. \A c \in Buffers : buf[c].block # task[t].want
    BY <1>3 DEF find_buffer
  <2>5. task[t].want \in disk
    BY <1>1, <2>4 DEF DataSafe
  <2>6. \A c \in Buffers : GoodData(buf'[c]) /\ (buf'[c].block \in Blocks \ disk => Pending(buf'[c]))
    BY <1>1, <2>1, <2>5 DEF DataSafe, GoodData, CacheInv, Types
  <2>7. \A k \in Blocks \ disk : \E c \in Buffers : buf'[c].block = k
    BY <2>1, <2>3 DEF DataSafe, CacheInv, Types
  <2>8. \A u \in Tasks \ {t} : LocalData(u)'
    <3>1. \A u \in Tasks \ {t} : task'[u] = task[u] /\ current # u /\ current' # u
      BY <1>1, <2>1, NoTaskAssumption DEF Return, CacheInv, Types
    <3>2. QED
      BY <3>1 DEF LocalData, DataSafe
  <2>9. LocalData(t)'
    <3>1. (task'[t].pc = "got" /\ task'[t].bh = b) \/ task'[t].pc = "ahead"
      BY <2>1 DEF Return, CacheInv, Types, TaskStates
    <3>2. QED
      BY <1>1, <2>1, <3>1 DEF LocalData, CacheInv, Types
  <2>10. QED
    BY <1>1, <2>6, <2>7, <2>8, <2>9 DEF DataSafe, GoodData, Pending
<1>4. QED
  BY <1>2, <1>3

\* What a sync begins to write.
LEMMA SyncKeepsData ==
    ASSUME CacheInv, DataSafe, NEW t \in Tasks, Sync(t) PROVE DataSafe'
<1> DEFINE b == task[t].i
<1>1. /\ task[t].pc = "sync" /\ b \in Buffers /\ current \in {t, NoTask} /\ disk' = disk
      /\ buf[b].io = "none" /\ buf[b] \in HeadStates /\ GoodData(buf[b])
  BY HeadsAre DEF Sync, At, CacheInv, Locals, Passed, WaitsFor, Locked, DataSafe
<1>2. /\ current' \in {t, NoTask} /\ task'[t].pc \in {"sync", "user", "candidate"}
      /\ \A u \in Tasks \ {t} : task'[u] = task[u]
  BY <1>1 DEF Sync, InUser, CacheInv, Types, TaskStates
<1>3. CASE buf[b].dirt
  <2> DEFINE h == [buf[b] EXCEPT !.io = "write", !.dirt = FALSE]
  <2>1. buf' = [buf EXCEPT ![b] = h]
    BY <1>1, <1>3 DEF Sync, Request, CacheInv, Types
  <2>2. /\ buf'[b].block = buf[b].block /\ GoodData(buf'[b]) /\ Pending(buf'[b])
        /\ \A c \in Buffers \ {b} : buf'[c] = buf[c]
    <3>1. h.block = buf[b].block /\ GoodData(h) /\ Pending(h)
      BY <1>1, <1>3, RequestIsGood
    <3> HIDE DEF h
    <3>2. QED
      BY <1>1, <2>1, <3>1 DEF CacheInv, Types
  <2>3. LocalData(t)'
    BY <1>2 DEF LocalData
  <2>4. \A c \in Buffers : /\ buf'[c].block = buf[c].block /\ GoodData(buf'[c])
                           /\ Pending(buf[c]) => Pending(buf'[c])
    BY <2>2 DEF DataSafe
  <2>5. QED
    BY <1>1, <1>2, <2>3, <2>4, StepKeepsData
<1>4. CASE ~buf[b].dirt
  BY <1>1, <1>2, <1>4, DataStay DEF Sync
<1>5. QED
  BY <1>3, <1>4

\* A read is requested for b if it is not up to date and not locked.
LEMMA ReadRequest ==
    ASSUME CacheInv, DataSafe, NEW b \in Buffers, ~buf[b].uptodate, buf[b].io = "none",
           NEW mid, mid = Request(b, "read")
    PROVE  /\ mid \in [Buffers -> HeadStates]
           /\ \A c \in Buffers : /\ mid[c].block = buf[c].block /\ GoodData(mid[c])
                                 /\ Pending(buf[c]) => Pending(mid[c])
<1> DEFINE h == [buf[b] EXCEPT !.io = "read", !.dirt = FALSE]
<1>1. buf \in [Buffers -> HeadStates] /\ \A c \in Buffers : GoodData(buf[c])
  BY HeadsAre DEF CacheInv, Types, DataSafe
<1>2. mid = [buf EXCEPT ![b] = h]
  BY <1>1 DEF Request
<1>3. h \in HeadStates
  BY <1>1 DEF HeadStates
<1>4. GoodData(h) /\ ~Pending(buf[b]) /\ h.block = buf[b].block
  BY <1>1, RequestIsGood
<1> HIDE DEF h
<1>5. QED
  BY <1>1, <1>2, <1>3, <1>4

\* bread() begins to read a block.
LEMMA BreadKeepsData ==
    ASSUME CacheInv, DataSafe, NEW t \in Tasks, Bread(t) PROVE DataSafe'
<1> DEFINE b == task[t].bh
<1>1. /\ task[t].pc = "got" /\ b \in Buffers /\ current = t /\ current' = t /\ disk' = disk
      /\ buf[b].io = "none"
  BY DEF Bread, At, CacheInv, Locals, HasBuffer, DataSafe, LocalData
<1>2. /\ task'[t].pc \notin {"got", "copy"}
      /\ \A u \in Tasks \ {t} : task'[u] = task[u]
  BY DEF Bread, CacheInv, Types, TaskStates
<1>3. LocalData(t)'
  BY <1>2 DEF LocalData
<1>4. \A c \in Buffers : /\ buf'[c].block = buf[c].block /\ GoodData(buf'[c])
                         /\ Pending(buf[c]) => Pending(buf'[c])
  <2>1. CASE buf[b].uptodate
    BY <2>1 DEF Bread, DataSafe
  <2>2. CASE ~buf[b].uptodate
    BY <1>1, <2>2, ReadRequest DEF Bread
  <2>3. QED
    BY <2>1, <2>2
<1>5. QED
  BY <1>1, <1>2, <1>3, <1>4, StepKeepsData

\* breada() gives its second buffer back, and may begin to read the first.
LEMMA ReadAheadKeepsData ==
    ASSUME CacheInv, DataSafe, NEW t \in Tasks, ReadAhead(t) PROVE DataSafe'
<1> DEFINE b == task[t].bh
<1>1. /\ task[t].pc = "ahead" /\ b \in Buffers /\ current \in {t, NoTask}
      /\ current' = t /\ disk' = disk
  BY DEF ReadAhead, At, CacheInv, Locals, HasBuffer
<1>2. /\ task'[t].pc \notin {"got", "copy"}
      /\ \A u \in Tasks \ {t} : task'[u] = task[u]
  BY DEF ReadAhead, CacheInv, Types, TaskStates
<1>3. LocalData(t)'
  BY <1>2 DEF LocalData
<1>4. PICK mid : /\ \/ mid = buf
                    \/ mid = Request(b, "read") /\ buf[b].io = "none" /\ ~buf[b].uptodate
                 /\ buf' = [mid EXCEPT ![task[t].try].count = @ - 1]
  BY DEF ReadAhead, Locked
<1>5. /\ mid \in [Buffers -> HeadStates]
      /\ \A c \in Buffers : /\ mid[c].block = buf[c].block /\ GoodData(mid[c])
                            /\ Pending(buf[c]) => Pending(mid[c])
  <2>1. CASE mid = buf
    BY <2>1, HeadsAre DEF CacheInv, Types, DataSafe
  <2>2. QED
    BY <1>1, <1>4, <2>1, ReadRequest
<1>6. \A c \in Buffers : /\ buf'[c].block = buf[c].block /\ GoodData(buf'[c])
                         /\ Pending(buf[c]) => Pending(buf'[c])
  BY <1>4, <1>5 DEF HeadStates, GoodData, Pending
<1>7. QED
  BY <1>1, <1>2, <1>3, <1>6, StepKeepsData

\* The block is read.
LEMMA ReadDoneKeepsData ==
    ASSUME CacheInv, DataSafe, NEW t \in Tasks, ReadDone(t) \/ GotWhole(t) PROVE DataSafe'
<1> DEFINE b == task[t].bh
<1>1. /\ task[t].pc \in {"read", "got"} /\ b \in Buffers /\ current \in {t, NoTask}
      /\ current' \in {t, NoTask} /\ disk' = disk
      /\ buf[b] \in HeadStates /\ GoodData(buf[b])
  BY HeadsAre DEF ReadDone, GotWhole, At, CacheInv, Locals, HasBuffer, DataSafe
<1>2. PICK p \in {"brelse", "copy"} : task' = [task EXCEPT ![t].pc = p]
  BY DEF ReadDone, GotWhole
<1>3. /\ task'[t].pc = p /\ task'[t].bh = b /\ task'[t].op = task[t].op
      /\ \A u \in Tasks \ {t} : task'[u] = task[u]
  BY <1>2 DEF CacheInv, Types, TaskStates
<1>4. CASE buf' = buf /\ (p = "copy" => task[t].op # "file")
  <2>1. LocalData(t)'
    BY <1>3, <1>4 DEF LocalData
  <2>2. QED
    BY <1>1, <1>3, <1>4, <2>1, StepKeepsData DEF DataSafe
<1>5. CASE buf[b].uptodate /\ buf' = [buf EXCEPT ![b].dirt = TRUE]
  <2> DEFINE h == [buf[b] EXCEPT !.dirt = TRUE]
  <2>1. buf' = [buf EXCEPT ![b] = h]
    BY <1>5
  <2>2. buf[b].uptodate = TRUE
    BY <1>1, <1>5 DEF HeadStates
  <2>3. /\ h.dirt = TRUE /\ h.block = buf[b].block /\ GoodData(h)
        /\ Pending(buf[b]) => Pending(h)
    BY <1>1, <2>2 DEF HeadStates, GoodData, Pending
  <2> HIDE DEF h
  <2>4. buf'[b] = h /\ \A c \in Buffers \ {b} : buf'[c] = buf[c]
    BY <1>1, <2>1 DEF CacheInv, Types
  <2>5. \A c \in Buffers : /\ buf'[c].block = buf[c].block /\ GoodData(buf'[c])
                           /\ Pending(buf[c]) => Pending(buf'[c])
    BY <2>3, <2>4 DEF DataSafe
  <2>6. LocalData(t)'
    BY <1>3, <2>3, <2>4 DEF LocalData
  <2>7. QED
    BY <1>1, <1>3, <2>5, <2>6, StepKeepsData
<1>6. QED
  <2>1. CASE ReadDone(t)
    BY <2>1, <1>2, <1>3, <1>4, <1>5 DEF ReadDone, CacheInv, Types, TaskStates
  <2>2. CASE GotWhole(t)
    BY <2>2, <1>4 DEF GotWhole
  <2>3. QED
    BY <2>1, <2>2

\* The block is written in its only buffer, which is dirty now.
LEMMA CopyKeepsData ==
    ASSUME CacheInv, DataSafe, NEW t \in Tasks, Copy(t), mishap = "none", mishap' = "none"
    PROVE  DataSafe'
<1> DEFINE b == task[t].bh
           k == buf[b].block
<1>1. /\ task[t].pc = "copy" /\ b \in Buffers /\ current \in {t, NoTask} /\ current' = t
      /\ disk' = disk \ {k}
  BY DEF Copy, At, CacheInv, Locals, HasBuffer
<1>2. k \in Blocks /\ \A c \in Buffers \ {b} : buf[c].block # k
  BY <1>1, HeldIsUsed, BlocksAre DEF Held, CacheInv, OneBufferPerBlock
<1>3. buf[b].uptodate /\ (task[t].op = "file" => current = t)
  BY DEF Copy
<1>4. buf[b] \in HeadStates /\ GoodData(buf[b]) /\ buf[b].uptodate = TRUE
  BY <1>1, <1>3, HeadsAre DEF CacheInv, DataSafe, HeadStates
<1>5. task[t].op = "file" => buf[b].dirt = TRUE
  BY <1>1, <1>3 DEF DataSafe, LocalData
<1>6. buf'[b] = [buf[b] EXCEPT !.newest = TRUE, !.dirt = TRUE]
  <2>1. buf'[b] = [buf[b] EXCEPT !.newest = TRUE, !.dirt = buf[b].dirt \/ task[t].op # "file"]
    BY <1>1 DEF Copy
  <2>2. buf[b].dirt \/ task[t].op # "file"
    BY <1>5
  <2>3. (buf[b].dirt \/ task[t].op # "file") = TRUE
    BY <2>2
  <2>4. QED
    BY <2>1, <2>3
<1>7. buf'[b].block = k /\ GoodData(buf'[b]) /\ Pending(buf'[b])
  BY <1>4, <1>6 DEF HeadStates, GoodData, Pending
<1>8. \A c \in Buffers \ {b} : buf'[c] = buf[c]
  <2> SUFFICES ASSUME NEW c \in Buffers \ {b} PROVE buf'[c] = buf[c]
    OBVIOUS
  <2>1. buf'[c] = [buf[c] EXCEPT !.newest = buf[c].newest /\ buf[c].block # k]
    BY DEF Copy
  <2>2. buf[c] \in HeadStates /\ buf[c].block # k
    BY <1>2, HeadsAre DEF CacheInv
  <2>3. buf[c].newest \in BOOLEAN
    BY <2>2 DEF HeadStates
  <2>4. (buf[c].newest /\ buf[c].block # k) = buf[c].newest
    BY <2>2, <2>3
  <2>5. QED
    BY <2>1, <2>2, <2>4 DEF HeadStates
<1>9. task' = [task EXCEPT ![t].pc = "brelse"]
  BY DEF Copy
<1>10. LocalData(t)'
  BY <1>9 DEF LocalData, CacheInv, Types, TaskStates
<1>11. \A u \in Tasks \ {t} : LocalData(u)'
  BY <1>1, <1>9, NoTaskAssumption DEF LocalData, DataSafe
<1>12. \A c \in Buffers : GoodData(buf'[c]) /\ (buf'[c].block \in Blocks \ disk' => Pending(buf'[c]))
  BY <1>1, <1>2, <1>7, <1>8 DEF DataSafe
<1>13. \A j \in Blocks \ disk' : \E c \in Buffers : buf'[c].block = j
  BY <1>1, <1>7, <1>8 DEF DataSafe
<1>14. QED
  BY <1>10, <1>11, <1>12, <1>13 DEF DataSafe, GoodData, Pending

\* A block that is read is on the disk; a write leaves the newest data on the disk, or the buffer
\* dirty.
LEMMA EndRequestKeepsData ==
    ASSUME CacheInv, DataSafe, NEW b \in Buffers, EndRequest(b), mishap' = "none"
    PROVE  DataSafe'
<1> DEFINE k == buf[b].block
<1>1. buf[b] \in HeadStates /\ GoodData(buf[b]) /\ (k \in Blocks \ disk => Pending(buf[b]))
  BY HeadsAre DEF CacheInv, DataSafe
<1>2. PICK uptodate \in BOOLEAN : EndRead(b, uptodate) \/ EndWrite(b, uptodate)
  BY DEF EndRequest
<1>3. k \in Blocks /\ \A c \in Buffers \ {b} : buf[c].block # k
  <2>1. k \in Blocks
    BY <1>2 DEF EndRead, EndWrite, CacheInv, Types, Heads, HeadStates, MaybeBlock
  <2>2. QED
    BY <2>1, BlocksAre DEF CacheInv, OneBufferPerBlock
<1>4. UNCHANGED <<task, current>>
  BY <1>2 DEF EndRead, EndWrite
<1>5. /\ buf'[b].block = k /\ buf'[b].io = "none" /\ buf'[b].dirt = buf[b].dirt /\ GoodData(buf'[b])
      /\ \A c \in Buffers \ {b} : buf'[c] = buf[c]
      /\ disk' \subseteq disk \cup {k} /\ disk \ {k} \subseteq disk'
      /\ k \notin disk' => Pending(buf'[b])
  <2>1. CASE EndRead(b, uptodate)
    <3>1. buf[b].newest = FALSE /\ k \in disk /\ buf[b].dirt = FALSE
      BY <1>1, <1>3, <2>1 DEF EndRead, GoodData, Pending, HeadStates
    <3>2. (uptodate /\ k \in disk) = uptodate
      BY <3>1
    <3> DEFINE h == [buf[b] EXCEPT !.io = "none", !.uptodate = uptodate, !.newest = uptodate]
    <3>3. buf' = [buf EXCEPT ![b] = h] /\ disk' = disk
      BY <2>1, <3>2 DEF EndRead, CacheInv, Types
    <3>4. h.block = k /\ h.io = "none" /\ h.dirt = FALSE /\ GoodData(h)
      BY <1>1, <3>1 DEF HeadStates, GoodData
    <3> HIDE DEF h
    <3>5. QED
      BY <3>1, <3>3, <3>4 DEF CacheInv, Types
  <2>2. CASE EndWrite(b, uptodate)
    <3>1. uptodate = TRUE
      BY <2>2 DEF EndWrite
    <3> DEFINE h == [buf[b] EXCEPT !.io = "none", !.uptodate = TRUE]
    <3>2. buf' = [buf EXCEPT ![b] = h]
      BY <2>2, <3>1 DEF EndWrite, CacheInv, Types
    <3>3. buf[b].newest = TRUE
      BY <1>1, <2>2 DEF EndWrite, GoodData
    <3>4. /\ h.block = k /\ h.io = "none" /\ h.dirt = buf[b].dirt /\ GoodData(h)
          /\ buf[b].dirt = TRUE => Pending(h)
      BY <1>1, <3>3 DEF HeadStates, GoodData, Pending
    <3> HIDE DEF h
    <3>5. /\ disk' \subseteq disk \cup {k} /\ disk \ {k} \subseteq disk'
          /\ k \notin disk' => buf[b].dirt = TRUE
      BY <1>1, <2>2, <3>1, <3>3 DEF EndWrite, HeadStates
    <3>6. QED
      BY <3>2, <3>4, <3>5 DEF CacheInv, Types
  <2>3. QED
    BY <1>2, <2>1, <2>2
<1>6. \A t \in Tasks : LocalData(t)'
  <2>1. \A c \in Buffers : /\ buf[c].io = "none" => buf'[c].io = "none"
                           /\ buf'[c].dirt = buf[c].dirt
    BY <1>5
  <2>2. \A t \in Tasks : task[t].pc \in {"got", "copy"} => task[t].bh \in Buffers
    BY DEF CacheInv, Locals, HasBuffer
  <2>3. QED
    BY <1>4, <2>1, <2>2 DEF DataSafe, LocalData
<1>7. \A c \in Buffers : GoodData(buf'[c]) /\ (buf'[c].block \in Blocks \ disk' => Pending(buf'[c]))
  BY <1>3, <1>5 DEF DataSafe
<1>8. \A j \in Blocks \ disk' : \E c \in Buffers : buf'[c].block = j
  BY <1>5 DEF DataSafe
<1>9. QED
  BY <1>6, <1>7, <1>8 DEF DataSafe, GoodData, Pending

\* Every step keeps the newest data.
LEMMA NextKeepsData == CacheInv /\ DataInv /\ [Next]_vars => DataInv'
<1> SUFFICES ASSUME CacheInv, DataInv, [Next]_vars, mishap' = "none" PROVE DataSafe'
  BY DEF DataInv
<1>1. mishap = "none"
  <2>1. ASSUME NEW t \in Tasks, TaskStep(t) PROVE mishap = "none"
    <3>1. CASE Copy(t)
      BY <3>1 DEF Copy
    <3>2. QED
      BY <2>1, <3>1 DEF TaskStep, WaitOnBuffer, GetHashTable, Choose, SleepOnBufferWait, Repeat,
         HashTableReturn, Candidate, Sync, Bread, ReadAhead, ReadDone, GotWhole, Brelse
  <2>2. ASSUME NEW b \in Buffers, EndRequest(b) PROVE mishap = "none"
    BY <2>2 DEF EndRequest, EndRead, EndWrite
  <2>3. QED
    BY <2>1, <2>2 DEF Next, Start, StartSync, vars
<1>2. DataSafe
  BY <1>1 DEF DataInv
<1>3. ASSUME NEW t \in Tasks, TaskStep(t) PROVE DataSafe'
  BY <1>1, <1>2, <1>3, QuietStepKeepsData, CountStepKeepsData, HashTableReturnKeepsData,
     CandidateKeepsData, SyncKeepsData, BreadKeepsData, ReadAheadKeepsData, ReadDoneKeepsData,
     CopyKeepsData DEF TaskStep
<1>4. ASSUME NEW t \in Tasks, StartSync(t) \/ \E op \in Ops, k \in Blocks : Start(t, op, k)
      PROVE  DataSafe'
  BY <1>2, <1>4, QuietStepKeepsData
<1>5. ASSUME NEW b \in Buffers, EndRequest(b) PROVE DataSafe'
  BY <1>2, <1>5, EndRequestKeepsData
<1>6. CASE UNCHANGED vars
  BY <1>2, <1>6 DEF vars, DataSafe, GoodData, Pending, LocalData
<1>7. QED
  BY <1>3, <1>4, <1>5, <1>6 DEF Next

\* What the invariant of the data says of the blocks.
LEMMA DataSafeLosesNothing == CacheInv /\ DataInv => NothingLost
<1> SUFFICES ASSUME CacheInv, DataSafe
             PROVE  /\ \A b \in Buffers : buf[b].uptodate => buf[b].newest
                    /\ \A k \in Blocks :
                          \/ k \in disk
                          \/ \E b \in find_buffer(k) :
                                buf[b].newest /\ (buf[b].dirt \/ buf[b].io = "write")
  BY DEF DataInv, NothingLost
<1>1. \A b \in Buffers : buf[b].uptodate => buf[b].newest
  BY DEF DataSafe, GoodData
<1>2. ASSUME NEW k \in Blocks, k \notin disk
      PROVE  \E b \in find_buffer(k) : buf[b].newest /\ (buf[b].dirt \/ buf[b].io = "write")
  <2>1. PICK b \in Buffers : buf[b].block = k /\ Pending(buf[b])
    BY <1>2 DEF DataSafe
  <2>2. buf[b].newest /\ (buf[b].dirt \/ buf[b].io = "write")
    BY <2>1 DEF Pending
  <2>3. QED
    BY <2>1, <2>2 DEF find_buffer
<1>3. QED
  BY <1>1, <1>2

\* As long as there is no write error, no fault in the middle of file_write() and no write of a
\* whole block to a buffer that is not up to date, the newest data of every block are on the disk,
\* or in a buffer that is dirty or being written, and no up-to-date buffer has older ones.
THEOREM NoChangeIsLost == Spec => []NothingLost
<1>1. Init => DataInv
  <2> SUFFICES ASSUME Init PROVE DataSafe
    BY DEF DataInv
  <2>1. \A b \in Buffers : GoodData(buf[b])
    BY DEF Init, GoodData
  <2>2. \A t \in Tasks : LocalData(t)
    BY DEF Init, LocalData, InUser
  <2>3. QED
    BY <2>1, <2>2 DEF Init, DataSafe
<1>2. CacheInv /\ DataInv /\ [Next]_vars => DataInv'
  BY NextKeepsData
<1>3. Spec => []DataInv
  BY <1>1, <1>2, CacheInvariant, PTL DEF Spec
<1>4. QED
  BY <1>3, CacheInvariant, DataSafeLosesNothing, PTL

==============================================================================
