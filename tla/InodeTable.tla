----------------------------- MODULE InodeTable -----------------------------
(***************************************************************************)
(* The table of inodes of fs/inode.c: iget(), get_empty_inode(), iput(),   *)
(* sync_inodes(), and the locks of read_inode() and write_inode(), for the *)
(* inodes of one disk.                                                     *)
(*                                                                         *)
(* The kernel is not preempted, so a step is what a task does from one     *)
(* sleep to the next: it sleeps in bread() with an inode locked, and where *)
(* it finds an inode locked (SleepQueue shows that it is woken). That an   *)
(* inode may be dirty or locked while nobody uses it, for which            *)
(* get_empty_inode() waits, is left out: UnusedIsClean says that it never  *)
(* is. No more is done once there is no unused inode: the system panics.   *)
(*                                                                         *)
(* The data of an inode are "the newest" or not. The block with an inode   *)
(* is the disk (BufferCache). Left out are links and what iput() deletes   *)
(* (FileTree), pipes (Pipe), devices and mount points, the order of the    *)
(* search for an unused inode, which are all alike, and that bread() may   *)
(* itself call sync_inodes(), by getblk() and sync_dev(), and then wait    *)
(* for the inode that its caller has locked.                               *)
(***************************************************************************)
EXTENDS Naturals, FiniteSets

CONSTANTS
    Users,    \* the tasks
    Nrs,      \* the numbers of inodes that they use
    NR_INODE

InodeTableAssumption ==
    IsFiniteSet(Users) /\ 0 \notin Nrs /\ NR_INODE \in Nat \ {0}

Slots == 1 .. NR_INODE
NoNr  == 0   \* i_num, and i_dev, of an inode from get_empty_inode()
NoSlot == 0

VARIABLES
    inode_table,  \* newest says whether the data are the newest of the inode
    on_disk,      \* the inodes whose newest data are on the disk
    caller        \* where each task is, and its local variables

inodeVars == <<inode_table, on_disk, caller>>

\* The task has an inode ("holds"), or is asleep: on the lock of the inode that iget() has found,
\* in read_inode(), on the lock of the inode that it puts, in write_inode() of iput(), on the lock
\* of an inode in sync_inodes(), or in write_inode() of sync_inodes().
Places == {"user", "found", "read", "holds", "put", "put_write", "sync", "sync_write"}

Clean  == [nr |-> NoNr, count |-> 0, dirt |-> FALSE, lock |-> FALSE, newest |-> FALSE]
Nobody == [at |-> "user", nr |-> NoNr, inode |-> NoSlot, empty |-> NoSlot]

TableInit ==
    /\ inode_table = [s \in Slots |-> Clean]
    /\ on_disk = Nrs
    /\ caller = [t \in Users |-> Nobody]

Go(t, c) == caller' = [caller EXCEPT ![t] = c]

-----------------------------------------------------------------------------
(* iget() *)

Unused == {s \in Slots : inode_table[s].count = 0}

\* The search of iget() through the table tab: the inode is there and is taken, and the empty one
\* given back; or it is locked, and waited for; or it is not there, and read_inode() begins.
Scan(t, tab, nr, empty) ==
    \/ \E s \in Slots :
          /\ tab[s].nr = nr
          /\ ~tab[s].lock
          /\ inode_table' = [tab EXCEPT ![s].count = @ + 1, ![empty].count = @ - 1]
          /\ Go(t, [at |-> "holds", nr |-> nr, inode |-> s, empty |-> NoSlot])
    \/ \E s \in Slots :
          /\ tab[s].nr = nr
          /\ tab[s].lock
          /\ inode_table' = tab
          /\ Go(t, [at |-> "found", nr |-> nr, inode |-> s, empty |-> empty])
    \/ /\ \A s \in Slots : tab[s].nr # nr
       /\ inode_table' = [tab EXCEPT ![empty].nr = nr, ![empty].lock = TRUE]
       /\ Go(t, [at |-> "read", nr |-> nr, inode |-> empty, empty |-> NoSlot])

\* get_empty_inode(), which clears what the inode was, and the search.
iget(t, nr) ==
    /\ caller[t].at = "user"
    /\ \E e \in Unused : Scan(t, [inode_table EXCEPT ![e] = [Clean EXCEPT !.count = 1]], nr, e)
    /\ UNCHANGED on_disk

\* Mutated form: the inode that was waited for is taken whatever it is now.
FoundTrusting(t) ==
    LET c == caller[t] IN
    /\ c.at = "found"
    /\ ~inode_table[c.inode].lock
    /\ inode_table' = [inode_table EXCEPT ![c.inode].count = @ + 1, ![c.empty].count = @ - 1]
    /\ Go(t, [c EXCEPT !.at = "holds", !.empty = NoSlot])
    /\ UNCHANGED on_disk

\* After wait_on_inode() iget() compares the inode again, and begins again if it has changed.
Found(t) ==
    /\ caller[t].at = "found"
    /\ ~inode_table[caller[t].inode].lock
    /\ Scan(t, inode_table, caller[t].nr, caller[t].empty)
    /\ UNCHANGED on_disk

\* read_inode() has its block.
ReadInode(t) ==
    /\ caller[t].at = "read"
    /\ inode_table' = [inode_table EXCEPT ![caller[t].inode].lock = FALSE,
                                          ![caller[t].inode].newest = caller[t].nr \in on_disk]
    /\ Go(t, [caller[t] EXCEPT !.at = "holds"])
    /\ UNCHANGED on_disk

-----------------------------------------------------------------------------
(* Changes, iput() and sync_inodes(). *)

\* A task changes the inode that it holds, whether it is locked or not, and sets i_dirt.
Change(t) ==
    /\ caller[t].at = "holds"
    /\ inode_table' = [inode_table EXCEPT ![caller[t].inode].dirt = TRUE,
                                          ![caller[t].inode].newest = TRUE]
    /\ on_disk' = on_disk \ {caller[t].nr}
    /\ UNCHANGED caller

\* iput() after wait_on_inode(): others still use the inode, or it is clean and is given up, or it
\* is written first.
Put(t) ==
    LET s == caller[t].inode IN
    /\ ~inode_table[s].lock
    /\ \/ /\ inode_table[s].count > 1 \/ ~inode_table[s].dirt
          /\ inode_table' = [inode_table EXCEPT ![s].count = @ - 1]
          /\ Go(t, Nobody)
       \/ /\ inode_table[s].count = 1
          /\ inode_table[s].dirt
          /\ inode_table' = [inode_table EXCEPT ![s].lock = TRUE]
          /\ Go(t, [caller[t] EXCEPT !.at = "put_write"])
    /\ UNCHANGED on_disk

\* iput(): the inode may be locked.
iput(t) ==
    /\ caller[t].at = "holds"
    /\ \/ Put(t)
       \/ /\ inode_table[caller[t].inode].lock
          /\ Go(t, [caller[t] EXCEPT !.at = "put"])
          /\ UNCHANGED <<inode_table, on_disk>>

PutAgain(t) == caller[t].at = "put" /\ Put(t)

\* Where the search of tab for dirty inodes stops.
Stops(tab, from) == {s \in Slots : s >= from /\ (tab[s].lock \/ tab[s].dirt)}

\* sync_inodes() goes on from inode `from`: it waits for a locked one, and writes a dirty one.
SyncFrom(t, tab, from) ==
    \/ \E s \in Stops(tab, from) :
          /\ \A r \in Stops(tab, from) : s <= r
          /\ \/ /\ tab[s].lock
                /\ inode_table' = tab
                /\ Go(t, [Nobody EXCEPT !.at = "sync", !.inode = s])
             \/ /\ ~tab[s].lock
                /\ inode_table' = [tab EXCEPT ![s].lock = TRUE]
                /\ Go(t, [Nobody EXCEPT !.at = "sync_write", !.inode = s])
    \/ /\ Stops(tab, from) = {}
       /\ inode_table' = tab
       /\ Go(t, Nobody)

sync_inodes(t) ==
    /\ caller[t].at = "user"
    /\ SyncFrom(t, inode_table, 1)
    /\ UNCHANGED on_disk

SyncAgain(t) ==
    /\ caller[t].at = "sync"
    /\ ~inode_table[caller[t].inode].lock
    /\ SyncFrom(t, inode_table, caller[t].inode)
    /\ UNCHANGED on_disk

\* write_inode() has the block: the data go there, i_dirt is cleared, and the inode unlocked.
Written(s) == [inode_table EXCEPT ![s].dirt = FALSE, ![s].lock = FALSE]

WriteInode(t) ==
    LET s == caller[t].inode
        nr == inode_table[s].nr
    IN /\ caller[t].at \in {"put_write", "sync_write"}
       /\ on_disk' = IF inode_table[s].newest THEN on_disk \cup {nr} ELSE on_disk \ {nr}
       /\ \/ /\ caller[t].at = "put_write"
             /\ inode_table' = [Written(s) EXCEPT ![s].count = @ - 1]
             /\ Go(t, Nobody)
          \/ /\ caller[t].at = "sync_write"
             /\ SyncFrom(t, Written(s), s + 1)

-----------------------------------------------------------------------------
TableStep(t) ==
    \/ \E nr \in Nrs : iget(t, nr)
    \/ Found(t)
    \/ ReadInode(t)
    \/ Change(t)
    \/ iput(t)
    \/ PutAgain(t)
    \/ sync_inodes(t)
    \/ SyncAgain(t)
    \/ WriteInode(t)

TableNext == \E t \in Users : TableStep(t)

TableSpec == TableInit /\ [][TableNext]_inodeVars

-----------------------------------------------------------------------------
(* Properties *)

InodeTypes ==
    /\ inode_table \in [Slots -> [nr : Nrs \cup {NoNr}, count : 0 .. Cardinality(Users), dirt : BOOLEAN,
                                  lock : BOOLEAN, newest : BOOLEAN]]
    /\ on_disk \subseteq Nrs
    /\ caller \in [Users -> [at : Places, nr : Nrs \cup {NoNr}, inode : Slots \cup {NoSlot},
                             empty : Slots \cup {NoSlot}]]

\* The inodes that the task has counted itself in: the one that it asked for, and the empty one
\* that it may have to give back.
Uses(t) ==
    {s \in Slots : \/ caller[t].at \in {"read", "holds", "put", "put_write"} /\ caller[t].inode = s
                   \/ caller[t].at = "found" /\ caller[t].empty = s}

\* An inode is never in the table twice, although iget() sleeps.
OneSlotPerInode ==
    \A r, s \in Slots : inode_table[r].nr = inode_table[s].nr /\ inode_table[r].nr # NoNr => r = s

\* i_count is the number of the tasks that use the inode, so that iput() never frees a free one.
CountIsUsers == \A s \in Slots : inode_table[s].count = Cardinality({t \in Users : s \in Uses(t)})

\* What a task got from iget() is and stays the inode that it asked for.
UsersHaveTheirInode ==
    \A t \in Users : caller[t].at \in {"read", "holds", "put", "put_write"} =>
                        inode_table[caller[t].inode].nr = caller[t].nr

\* An inode that nobody uses is neither dirty nor locked, so that get_empty_inode() need not wait.
UnusedIsClean ==
    \A s \in Slots : inode_table[s].count = 0 => ~inode_table[s].dirt /\ ~inode_table[s].lock

\* The newest data of every inode are on the disk, or in the table with i_dirt set; and what can
\* be used in the table is the newest.
NewestInodes ==
    /\ \A nr \in Nrs \ on_disk : \E s \in Slots : inode_table[s].nr = nr /\ inode_table[s].dirt
    /\ \A t \in Users : caller[t].at = "holds" => inode_table[caller[t].inode].newest

\* The table of inodes at every step of iget(), iput() and sync_inodes().
InodesConsistent ==
    InodeTypes /\ OneSlotPerInode /\ CountIsUsers /\ UsersHaveTheirInode /\ UnusedIsClean /\ NewestInodes

=============================================================================
