----------------------------- MODULE FileBlocks -----------------------------
(***************************************************************************)
(* The blocks of files: _bmap() of inode.c, new_block() and free_block()   *)
(* of bitmap.c, truncate(), and file_read() and file_write(), which a call *)
(* does block by block: here it is one block long.                         *)
(*                                                                         *)
(* A task may sleep in bread(), getblk() and get_hash_table(), with the    *)
(* buffer of one block in its hands, and a step is what it does from one   *)
(* such place to the next. Tasks do not lock the file. The model is        *)
(* followed up to the first state in which that does harm (Race, which     *)
(* lists how), and not beyond.                                             *)
(*                                                                         *)
(* The zones of an inode and the numbers in an indirect block are both a   *)
(* table of block numbers; what a free block holds, which nobody may use,  *)
(* is Junk. Left out are errors of the disk, times, the place in a block,  *)
(* and when tables and data are written (BufferCache).                     *)
(***************************************************************************)
EXTENDS Naturals, Sequences, FiniteSets, FiniteSetsExt, SequencesExt

CONSTANTS
    Users,    \* the tasks
    Files,    \* the inodes
    NrBlocks, \* the blocks of the data zone
    Direct,   \* 7: the zones of an inode before the indirect and the doubly indirect one
    PerBlock, \* 512: the numbers in an indirect block
    Offsets   \* the blocks of a file that are read and written

FileBlocksAssumption ==
    /\ NrBlocks \in Nat \ {0} /\ Direct \in Nat \ {0} /\ PerBlock \in Nat \ {0}
    /\ Offsets \subseteq 0 .. Direct + PerBlock + PerBlock * PerBlock - 1

Zones   == 1 .. NrBlocks
Indexes == 0 .. Max({Direct + 1, PerBlock - 1})
NoZones == [i \in Indexes |-> 0]
Junk    == [i \in Indexes |-> 1]
NoFile  == 0
Nobody  == <<>>

VARIABLES
    zmap,   \* the blocks whose bit is set
    tab,    \* the zones of the inodes and the numbers in the blocks
    data,   \* for whom a block was written: a file and an offset, or Nobody since it was cleared
    size,   \* i_size, in blocks
    user    \* what each task is doing

blockVars == <<zmap, tab, data, size, user>>

\* path are the indexes still to be followed from node, whose buffer the task holds if it is a
\* block; new is the block that new_block() is clearing; plan is what truncate() has still to free.
AtUser == [pc |-> "user", op |-> "read", file |-> NoFile, off |-> 0,
           node |-> 0, path |-> <<>>, new |-> 0, plan |-> <<>>]

BlocksInit ==
    /\ zmap = {}
    /\ tab  = [n \in Files \cup Zones |-> IF n \in Files THEN NoZones ELSE Junk]
    /\ data = [b \in Zones |-> Nobody]
    /\ size = [f \in Files |-> 0]
    /\ user = [t \in Users |-> AtUser]

BlocksTypeOK ==
    /\ zmap \subseteq Zones
    /\ tab \in [Files \cup Zones -> [Indexes -> Zones \cup {0}]]
    /\ data \in [Zones -> {Nobody} \cup (Files \X Offsets)]
    /\ size \in [Files -> 0 .. Max(Offsets) + 1]
    /\ \A t \in Users : user[t].pc \in {"user", "bmap", "new_block", "data", "truncate"}

Done(t) == user' = [user EXCEPT ![t] = AtUser]

-----------------------------------------------------------------------------
(* _bmap() and new_block() *)

\* Where the number of a block of a file is found: the indexes from the inode on.
Path(off) ==
    LET ind == off - Direct
        dind == ind - PerBlock
    IN IF off < Direct THEN <<off>>
       ELSE IF ind < PerBlock THEN <<Direct, ind>>
       ELSE <<Direct + 1, dind \div PerBlock, dind % PerBlock>>

\* The call: sys_read() stops at the end of the file.
Call(t, op, f, off) ==
    /\ user[t].pc = "user"
    /\ op = "read" => off < size[f]
    /\ user' = [user EXCEPT ![t] = [AtUser EXCEPT !.pc = "bmap", !.op = op, !.file = f, !.off = off,
                                                  !.node = f, !.path = Path(off)]]
    /\ UNCHANGED <<zmap, tab, data, size>>

Entry(t) == tab[user[t].node][Head(user[t].path)]

\* The number b has been found: the node is given back and bread(b) begins.
Down(t, b) ==
    user' = [user EXCEPT ![t].pc = IF Len(user[t].path) = 1 THEN "data" ELSE "bmap", ![t].node = b,
                         ![t].path = Tail(@), ![t].new = 0]

\* bread() has slept for the node: the number in it is followed; if there is none, a read is done
\* (the file has a hole here), and a write takes the first free block, or fails.
Bmap(t) ==
    /\ user[t].pc = "bmap"
    /\ \/ Entry(t) # 0 /\ Down(t, Entry(t)) /\ UNCHANGED zmap
       \/ Entry(t) = 0 /\ (user[t].op = "read" \/ zmap = Zones) /\ Done(t) /\ UNCHANGED zmap
       \/ /\ Entry(t) = 0 /\ user[t].op = "write" /\ zmap # Zones
          /\ LET b == Min(Zones \ zmap)
             IN /\ zmap' = zmap \cup {b}
                /\ user' = [user EXCEPT ![t].pc = "new_block", ![t].new = b]
    /\ UNCHANGED <<tab, data, size>>

\* getblk() has slept for the new block's buffer: new_block() clears it, and _bmap() stores its number.
NewBlock(t) ==
    /\ user[t].pc = "new_block"
    /\ LET b == user[t].new
       IN /\ tab' = [tab EXCEPT ![b] = NoZones, ![user[t].node][Head(user[t].path)] = b]
          /\ data' = [data EXCEPT ![b] = Nobody]
          /\ Down(t, b)
    /\ UNCHANGED <<zmap, size>>

\* bread() has slept for the data: file_read() and file_write() copy them and give the buffer back.
Copy(t) ==
    /\ user[t].pc = "data"
    /\ LET r == user[t] IN
         IF r.op = "write"
           THEN /\ data' = [data EXCEPT ![r.node] = <<r.file, r.off>>]
                /\ size' = [size EXCEPT ![r.file] = Max({@, r.off + 1})]
           ELSE UNCHANGED <<data, size>>
    /\ Done(t)
    /\ UNCHANGED <<zmap, tab>>

-----------------------------------------------------------------------------
(* truncate() and free_block() *)

\* One free_block(): the block, and the buffers that are held meanwhile.
Freeing(b, held) == [b |-> b, held |-> held]

Numbers(b) == SelectSeq([i \in 1 .. PerBlock |-> tab[b][i - 1]], LAMBDA n : n # 0)

FreeInd(b, held) ==
    IF b = 0 THEN <<>>
    ELSE [i \in DOMAIN Numbers(b) |-> Freeing(Numbers(b)[i], held \cup {b})] \o <<Freeing(b, held)>>

\* Mutated form: the doubly indirect block itself is forgotten.
FreeDindShallow(b) ==
    IF b = 0 THEN <<>>
    ELSE FlattenSeq([i \in DOMAIN Numbers(b) |-> FreeInd(Numbers(b)[i], {b})])

FreeDind(b) ==
    IF b = 0 THEN <<>>
    ELSE FlattenSeq([i \in DOMAIN Numbers(b) |-> FreeInd(Numbers(b)[i], {b})]) \o <<Freeing(b, {})>>

\* What truncate() frees, in its order: all the blocks of the file.
Plan(f) ==
    LET zones == SelectSeq([i \in 1 .. Direct |-> tab[f][i - 1]], LAMBDA n : n # 0)
    IN [i \in DOMAIN zones |-> Freeing(zones[i], {})]
       \o FreeInd(tab[f][Direct], {}) \o FreeDind(tab[f][Direct + 1])

\* The zone is cleared at once if it is a direct one, and with the last block the others are.
Cleared(t, f, b) ==
    IF Len(user[t].plan) = 1 THEN NoZones
    ELSE [i \in Indexes |-> IF i < Direct /\ tab[f][i] = b THEN 0 ELSE tab[f][i]]

\* open() with O_TRUNC, or the last iput() of a file without a name.
Truncate(t, f) ==
    /\ user[t].pc = "user"
    /\ IF Plan(f) = <<>>
         THEN size' = [size EXCEPT ![f] = 0] /\ UNCHANGED user
         ELSE /\ user' = [user EXCEPT ![t] = [AtUser EXCEPT !.pc = "truncate", !.file = f, !.plan = Plan(f)]]
              /\ UNCHANGED size
    /\ UNCHANGED <<zmap, tab, data>>

\* get_hash_table() has slept for the block's buffer, which nobody else uses, and the bit is cleared.
FreeBlock(t) ==
    /\ user[t].pc = "truncate"
    /\ LET r == user[t]
           b == Head(r.plan).b
       IN /\ zmap' = zmap \ {b}
          /\ tab' = [tab EXCEPT ![r.file] = Cleared(t, r.file, b), ![b] = Junk]
          /\ data' = [data EXCEPT ![b] = Nobody]
          /\ IF Len(r.plan) = 1
               THEN Done(t) /\ size' = [size EXCEPT ![r.file] = 0]
               ELSE user' = [user EXCEPT ![t].plan = Tail(@)] /\ UNCHANGED size

-----------------------------------------------------------------------------
\* The buffers that a task has in its hands.
InHands(t) ==
    CASE user[t].pc \in {"bmap", "new_block"} -> {user[t].node} \ Files
      [] user[t].pc = "data"                  -> {user[t].node}
      [] user[t].pc = "truncate"              -> Head(user[t].plan).held
      [] OTHER                                -> {}

At(t, pc, f) == user[t].pc = pc /\ user[t].file = f

\* The blocks of a file: those that are still to be freed while it is being truncated.
Listing(f) ==
    LET t == {u \in Users : At(u, "truncate", f)}
    IN IF t = {} THEN [i \in DOMAIN Plan(f) |-> Plan(f)[i].b]
       ELSE LET plan == user[CHOOSE u \in t : TRUE].plan IN [i \in DOMAIN plan |-> plan[i].b]

\* Where two tasks on one file get in each other's way: both store a new block in the same place,
\* and the first is lost; one truncates what the other writes or truncates; one frees a block that the other
\* reads, and free_block() finds its buffer in use, prints a message, and leaves the block allocated
\* and the buffer used for ever; one reads a number that truncate() has freed but not cleared.
Race ==
    \E t, u \in Users :
        /\ t # u /\ user[t].file = user[u].file
        /\ \/ /\ user[t].pc = "new_block" /\ user[u].pc = "new_block"
              /\ user[t].node = user[u].node /\ Head(user[t].path) = Head(user[u].path)
           \/ /\ user[t].pc = "truncate"
              /\ \/ user[u].pc = "truncate"
                 \/ user[u].pc # "user" /\ user[u].op = "write"
                 \/ Head(user[t].plan).b \in InHands(u)
                 \/ ~(InHands(u) \subseteq ToSet(Listing(user[t].file)))

BlocksNext ==
    /\ ~Race
    /\ \E t \in Users :
          \/ \E f \in Files : Truncate(t, f)
          \/ \E op \in {"read", "write"}, f \in Files, off \in Offsets : Call(t, op, f, off)
          \/ Bmap(t) \/ NewBlock(t) \/ Copy(t) \/ FreeBlock(t)

BlocksSpec == BlocksInit /\ [][BlocksNext]_blockVars

-----------------------------------------------------------------------------
(* What should hold. *)

Clearing == {t \in Users : user[t].pc = "new_block"}

\* The bitmap has the blocks of the files, each of which is in one place of one file, and those on
\* their way into one; so after every failed write and half a truncate() no block is lost, none is
\* used twice, and the panics "bit already cleared" and "count is != 1" do not come.
BlocksOwnedOnce ==
    ~Race =>
        /\ \A f \in Files : IsInjective(Listing(f))
        /\ \A f, g \in Files : f # g => ToSet(Listing(f)) \cap ToSet(Listing(g)) = {}
        /\ \A t \in Clearing, f \in Files : user[t].new \notin ToSet(Listing(f))
        /\ zmap = UNION {ToSet(Listing(f)) : f \in Files} \cup {user[t].new : t \in Clearing}

\* The block of a file where its number is found, 0 if there is none.
BlockAt(f, off) == FoldLeft(LAMBDA n, i : IF n = 0 THEN 0 ELSE tab[n][i], f, Path(off))

\* What is found in a place of a file was written there, or is zero, at the boundaries between the
\* direct, the indirect and the doubly indirect blocks too.
DataInPlace ==
    ~Race =>
        \A f \in Files, off \in Offsets :
            BlockAt(f, off) # 0 /\ ~(\E t \in Users : At(t, "truncate", f))
                => data[BlockAt(f, off)] \in {Nobody, <<f, off>>}

\* The blocks of the files at every step of every call.
BlocksConsistent == BlocksTypeOK /\ BlocksOwnedOnce /\ DataInPlace
=============================================================================
