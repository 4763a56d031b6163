------------------------------ MODULE FileTree ------------------------------
(***************************************************************************)
(* Names, directories and the inodes they name: namei.c, the calls of      *)
(* open.c that go through it, and the counts that iget(), new_inode(),     *)
(* iput() and free_inode() keep.                                           *)
(*                                                                         *)
(* A task sleeps where a block or an inode may have to be read, so a step  *)
(* is what it does from one such place to the next; what it read in the    *)
(* step before, the number in an entry or that a name is free, may be out  *)
(* of date by then, and the code does not look again. The model is         *)
(* followed up to the first state in which one of these races is lost      *)
(* (Race, which lists them), and not beyond.                               *)
(*                                                                         *)
(* Left out are users and modes (a task is root, which permission() stops  *)
(* only at a deleted file), other devices and mount points, device and     *)
(* pipe inodes, the file table, times, and the blocks that hold the        *)
(* entries (FileBlocks): an entry is a position of its directory. The wait *)
(* of iput() for the inode to be written is not a step.                    *)
(***************************************************************************)
EXTENDS Naturals, Sequences, FiniteSets, FiniteSetsExt, Functions

CONSTANTS
    Tasks,
    NrInodes,  \* the inodes of the disk
    NrEntries, \* the entries that there is room for in each directory, after "." and ".."
    Paths,     \* the path names that are used: sequences of components
    Free       \* the type of an inode that is not in use

Inos == 1 .. NrInodes

ASSUME FileTreeAssumption ==
    /\ IsFiniteSet(Tasks) /\ NrInodes \in Nat \ {0} /\ NrEntries \in [Inos -> Nat \ {0}]
    /\ Paths \subseteq Seq(STRING) \ {<<>>, <<"/">>} /\ Free \notin {"REG", "DIR"}

Positions == 1 .. Max(Range(NrEntries))
Root      == 1
None      == 0

VARIABLES
    ino,  \* the inodes: on the disk, and in the inode table while they are held
    pwd,  \* current->pwd of each task
    task  \* what each task is doing

vars == <<ino, pwd, task>>

Calls == {"open", "creat", "chdir", "mknod", "mkdir", "rmdir", "unlink", "link"}
Pcs   == {"user", "open", "find", "iget", "new", "add", "linked", "rmdir", "panic"}

NoEntry == [name |-> "", ino |-> None]
Unused  == [type |-> Free, nlinks |-> 0, count |-> 0, up |-> None, entries |-> [p \in Positions |-> NoEntry]]

\* path is what is left of the path name, to the second name of a link(); dir and ino are inodes
\* that are held, or, at "iget", the number that was read in an entry; pos is the position of that
\* entry, old the inode that is being linked.
Idle == [pc |-> "user", op |-> "open", path |-> <<>>, to |-> <<>>,
         dir |-> None, ino |-> None, pos |-> None, old |-> None]

\* The mount holds the root twice, and every task as its root and at first as its pwd.
RootHeld == 2 + Cardinality(Tasks)

Init ==
    /\ ino = [n \in Inos |-> IF n = Root
                 THEN [Unused EXCEPT !.type = "DIR", !.nlinks = 2, !.up = Root,
                                     !.count = RootHeld + Cardinality(Tasks)]
                 ELSE Unused]
    /\ pwd = [t \in Tasks |-> Root]
    /\ task = [t \in Tasks |-> Idle]

TypeOK ==
    /\ \A n \in Inos :
          /\ ino[n].type \in {Free, "REG", "DIR"} /\ ino[n].up \in Inos \cup {None}
          /\ ino[n].nlinks \in 0 .. NrInodes * Max(Positions) + 2
          /\ ino[n].count \in 0 .. RootHeld + 3 * Cardinality(Tasks)
          /\ \A p \in Positions : ino[n].entries[p].ino \in Inos \cup {None}
    /\ pwd \in [Tasks -> Inos]
    /\ \A t \in Tasks : task[t].pc \in Pcs /\ task[t].op \in Calls
                        /\ {task[t].dir, task[t].ino, task[t].old} \subseteq Inos \cup {None}

-----------------------------------------------------------------------------
(* Directories and counts. *)

At(t, pc) == task[t].pc = pc

\* The positions of a directory that have the name. (".." of the root is the root.)
Matches(d, name) == {p \in Positions : ino[d].entries[p].ino # None /\ ino[d].entries[p].name = name}

\* find_entry(): the number in the first entry with the name.
find_entry(d, name) ==
    CASE name = "."  -> d
      [] name = ".." -> ino[d].up
      [] OTHER       -> IF Matches(d, name) = {} THEN None ELSE ino[d].entries[Min(Matches(d, name))].ino

\* iput() of an inode: the last holder of one without links frees it.
Dropped(i) == IF i.count = 1 /\ i.nlinks = 0 THEN Unused ELSE [i EXCEPT !.count = @ - 1]

iput(f, n) == IF n = None THEN f ELSE [f EXCEPT ![n] = Dropped(@)]

\* The task gives up, or is done: it lets go of what it holds.
Return(t, f) == ino' = f /\ task' = [task EXCEPT ![t] = Idle]

\* permission(): nobody may use a deleted file.
permission(f, n) == f[n].nlinks > 0

\* get_dir() has got to inode d, which f counts as held: it must be a directory that is not deleted.
Enter(t, f, d, r) ==
    IF f[d].type = "DIR" /\ permission(f, d)
      THEN ino' = f /\ task' = [task EXCEPT ![t] = [r EXCEPT !.pc = "find", !.dir = d, !.ino = None]]
      ELSE Return(t, iput(iput(f, d), r.old))

\* get_dir(): where a path name starts, and what is left of it then.
Start(t, path) == IF path[1] = "/" THEN Root ELSE pwd[t]
Rest(path)     == IF path[1] = "/" THEN Tail(path) ELSE path

Held(f, n) == [f EXCEPT ![n].count = @ + 1]

Call(t, op, path, to) ==
    /\ At(t, "user")
    /\ Enter(t, Held(ino, Start(t, path)), Start(t, path), [Idle EXCEPT !.op = op, !.path = Rest(path), !.to = to])
    /\ UNCHANGED pwd

-----------------------------------------------------------------------------
(* Looking up a name: get_dir(), dir_namei(), namei(), open_namei(). *)

\* The task looks for the last component, of the name that link() is to make if it is a link().
Last(r)   == Len(r.path) = 1
Making(r) == r.op \in {"creat", "mknod", "mkdir"} \/ r.old # None

\* find_entry() has slept for the directory's block. The directory is given back, unless the
\* entry is to be changed, and only then the inode of the entry asked for.
Found(t, n) ==
    LET r == task[t]
        keep == Last(r) /\ r.op \in {"rmdir", "unlink"}
    IN /\ ino' = IF keep THEN ino ELSE iput(ino, r.dir)
       /\ task' = [task EXCEPT ![t].pc = "iget", ![t].ino = n, ![t].path = Tail(@),
                               ![t].dir = IF keep THEN @ ELSE None,
                               ![t].pos = IF keep /\ Matches(r.dir, Head(r.path)) # {}
                                            THEN Min(Matches(r.dir, Head(r.path))) ELSE None]

\* Mutated form: a link() that fails does not give back the inode that it was to name.
GiveUpForgetting(t) == Return(t, iput(ino, task[t].dir))

GiveUp(t) == Return(t, iput(iput(ino, task[t].dir), task[t].old))

Find(t) ==
    /\ At(t, "find")
    /\ LET r == task[t]
           n == find_entry(r.dir, Head(r.path))
       IN \/ /\ n # None
             /\ IF Last(r) /\ Making(r) /\ r.op # "creat" THEN GiveUp(t) ELSE Found(t, n)
          \/ /\ n = None
             /\ IF ~(Last(r) /\ Making(r)) \/ (r.op = "creat" /\ ~permission(ino, r.dir)) THEN GiveUp(t)
                ELSE task' = [task EXCEPT ![t].pc = IF r.old = None THEN "new" ELSE "add"] /\ UNCHANGED ino
    /\ UNCHANGED pwd

\* iget() of the last component has slept, for a call that changes the directory it is in: unlink(),
\* and rmdir() up to where empty_dir() sleeps. f counts the inode as held, and g is f without what
\* the task holds.
Remove(t, f, g) ==
    LET r == task[t]
        n == r.ino
    IN \/ /\ r.op = "unlink"
          /\ Return(t, IF f[n].type = "DIR" THEN g
                       ELSE iput(iput([f EXCEPT ![n].nlinks = (IF @ = 0 THEN 1 ELSE @) - 1,
                                                ![r.dir].entries[r.pos] = NoEntry], n), r.dir))
       \/ /\ r.op = "rmdir"
          /\ IF f[n].count > 1 \/ n = r.dir \/ f[n].type # "DIR" THEN Return(t, g)
             ELSE ino' = f /\ task' = [task EXCEPT ![t].pc = "rmdir"]

\* iget() has slept, for a call that uses the inode: a directory on the way, the old name of a
\* link(), or the last component of open(), creat() or chdir().
Use(t, f, g) ==
    LET r == task[t]
        n == r.ino
        dir == f[n].type = "DIR"
    IN CASE r.path # <<>>                            -> Enter(t, f, n, r)
         [] r.path = <<>> /\ r.op = "link"           ->
              IF dir THEN Return(t, g)
              ELSE Enter(t, Held(f, Start(t, r.to)), Start(t, r.to), [r EXCEPT !.old = n, !.path = Rest(r.to)])
         [] r.path = <<>> /\ r.op = "chdir"          -> Return(t, IF dir THEN iput(f, pwd[t]) ELSE g)
         [] OTHER                                    ->
              IF (dir /\ r.op = "creat") \/ ~permission(f, n) THEN Return(t, g)
              ELSE ino' = f /\ task' = [task EXCEPT ![t].pc = "open"]

Iget(t) ==
    /\ At(t, "iget")
    /\ \E f \in {Held(ino, task[t].ino)} :
       \E g \in {iput(iput(f, task[t].ino), task[t].dir)} :
          IF task[t].dir = None THEN Use(t, f, g) ELSE Remove(t, f, g)
    /\ pwd' = IF task[t].op = "chdir" /\ task[t].path = <<>> /\ ino[task[t].ino].type = "DIR"
                THEN [pwd EXCEPT ![t] = task[t].ino] ELSE pwd

\* sys_rmdir() from where empty_dir() has slept.
Rmdir(t) ==
    /\ At(t, "rmdir")
    /\ LET r == task[t]
           empty == ino[r.ino].entries = Unused.entries
           f == IF empty THEN [ino EXCEPT ![r.dir].entries[r.pos] = NoEntry, ![r.dir].nlinks = @ - 1,
                                          ![r.ino].nlinks = 0]
                ELSE ino
       IN Return(t, iput(iput(f, r.ino), r.dir))
    /\ UNCHANGED pwd

-----------------------------------------------------------------------------
(* Making a name. *)

\* The inode that the task's call makes.
Made(t) ==
    LET dir == task[t].op = "mkdir"
    IN [Unused EXCEPT !.type = IF dir THEN "DIR" ELSE "REG", !.nlinks = IF dir THEN 2 ELSE 1,
                      !.up = task[t].dir, !.count = 1]

\* new_inode(): the first inode that is free, or none. mkdir() makes it a directory, and sleeps; if there is no
\* block for the directory it is freed at once.
New(t) ==
    /\ At(t, "new")
    /\ LET free == {n \in Inos : ino[n].type = Free}
       IN \/ /\ free = {} \/ task[t].op = "mkdir"
             /\ Return(t, iput(ino, task[t].dir))
          \/ /\ free # {}
             /\ ino' = [ino EXCEPT ![Min(free)] = Made(t)]
             /\ task' = [task EXCEPT ![t].pc = "add", ![t].ino = Min(free)]
    /\ UNCHANGED pwd

\* The entry p that was free names inode n; the ".." of a new directory counts as a link.
Added(t, p, n) ==
    [ino EXCEPT ![task[t].dir].entries[p] = [name |-> task[t].path[1], ino |-> n],
                ![task[t].dir].nlinks = IF task[t].op = "mkdir" THEN @ + 1 ELSE @]

\* add_entry() has slept: it takes the first free entry and does not look whether the name is
\* there by now. A creat() keeps the inode open. When there is no room, the inode is freed again,
\* and for mkdir() the block of the new directory twice: free_block() panics.
Add(t) ==
    /\ At(t, "add")
    /\ LET r == task[t]
           n == IF r.op = "link" THEN r.old ELSE r.ino
           free == {p \in 1 .. NrEntries[r.dir] : ino[r.dir].entries[p].ino = None}
       IN IF free # {}
            THEN /\ ino' = iput(iput(Added(t, Min(free), n), r.dir), IF r.op \in {"mknod", "mkdir"} THEN n ELSE None)
                 /\ task' = CASE r.op = "link"  -> [task EXCEPT ![t].pc = "linked", ![t].dir = None]
                              [] r.op = "creat" -> [task EXCEPT ![t].pc = "open", ![t].dir = None]
                              [] OTHER          -> [task EXCEPT ![t] = Idle]
          ELSE IF r.op = "mkdir" THEN task' = [task EXCEPT ![t].pc = "panic"] /\ UNCHANGED ino
          ELSE IF r.op = "link" THEN GiveUp(t)
          ELSE Return(t, iput(iput([ino EXCEPT ![n].nlinks = 0], r.dir), n))
    /\ UNCHANGED pwd

\* sys_link() counts the link after iput(dir), which may sleep.
Linked(t) ==
    /\ At(t, "linked")
    /\ Return(t, iput([ino EXCEPT ![task[t].old].nlinks = @ + 1], task[t].old))
    /\ UNCHANGED pwd

\* sys_close() of the file that open() or creat() left.
Close(t) == At(t, "open") /\ Return(t, iput(ino, task[t].ino)) /\ UNCHANGED pwd

-----------------------------------------------------------------------------
(* The races that the code does not exclude. *)

Removing(t) == task[t].dir # None /\ task[t].op \in {"unlink", "rmdir"} /\ task[t].pc \in {"iget", "rmdir"}

Race ==
    \E t \in Tasks :
       \* the number that was read in an entry is no longer that of an inode
       \/ At(t, "iget") /\ ino[task[t].ino].type = Free
       \* the ".." that is to be read is that of a removed directory, whose parent may be gone too
       \/ At(t, "find") /\ Head(task[t].path) = ".." /\ ~permission(ino, task[t].dir)
       \* the entry that is to be cleared no longer names the inode
       \/ /\ Removing(t)
          /\ IF task[t].pos = None THEN ~permission(ino, task[t].dir)
             ELSE ino[task[t].dir].entries[task[t].pos].ino # task[t].ino
       \* the directory that is to have the new entry has been removed
       \/ task[t].pc \in {"new", "add"} /\ ~permission(ino, task[t].dir)
       \* the inode that is to lose a name has one that link() has not counted yet, and no other
       \/ Removing(t) /\ task[t].op = "unlink" /\ ino[task[t].ino].nlinks = 0

Next ==
    /\ ~Race /\ \A t \in Tasks : ~At(t, "panic")
    /\ \E t \in Tasks :
          \/ Find(t) \/ Iget(t) \/ Rmdir(t) \/ New(t) \/ Add(t) \/ Linked(t) \/ Close(t)
          \/ \E op \in Calls \ {"link"}, path \in Paths : Call(t, op, path, <<>>)
          \/ \E path, to \in Paths : Call(t, "link", path, to)

Spec == Init /\ [][Next]_vars

-----------------------------------------------------------------------------
(* What should hold. *)

Naming(n)  == {e \in {i \in Inos : ino[i].type = "DIR"} \X Positions : ino[e[1]].entries[e[2]].ino = n}

\* The links of a file are its entries, and one that a creat() or mknod() is still to make; those
\* of a directory are ".", the ".." of its subdirectories, and its name: whichever calls are under way,
\* no inode is freed with a name left, and none keeps a link without one.
LinksAreEntries ==
    \A n \in Inos :
       LET making == {t \in Tasks : task[t].pc \in {"add", "panic"} /\ task[t].ino = n}
           uncounted == {t \in Tasks : At(t, "linked") /\ task[t].old = n}
           subdirs == {p \in Positions : ino[n].entries[p].ino # None /\ ino[ino[n].entries[p].ino].type = "DIR"}
       IN /\ ino[n].type = "REG" =>
                ino[n].nlinks + Cardinality(uncounted) = Cardinality(Naming(n)) + Cardinality(making)
          /\ ino[n].type = "DIR" /\ n # Root =>
                IF ino[n].nlinks = 0 THEN Naming(n) = {}
                ELSE /\ ino[n].nlinks = 2 + Cardinality(subdirs)
                     /\ Cardinality(Naming(n)) + Cardinality(making) = 1
          /\ ino[n].type = Free => Naming(n) = {}

\* The holders of an inode: a task's directory, file, or file to be linked, its pwd, and the mount.
Holders(n) ==
    Cardinality({t \in Tasks : task[t].dir = n}) + Cardinality({t \in Tasks : task[t].old = n})
    + Cardinality({t \in Tasks : task[t].ino = n /\ ~At(t, "iget")}) + Cardinality({t \in Tasks : pwd[t] = n})
    + IF n = Root THEN RootHeld ELSE 0

\* i_count is the number of holders: no path through the calls, and there are many that fail, lets
\* go of an inode twice or forgets to.
CountsAreHolders == \A n \in Inos : ino[n].count = Holders(n)

\* An inode in use can be found by a name, or somebody holds it.
NothingLeaked == \A n \in Inos \ {Root} : ino[n].type # Free => Naming(n) # {} \/ ino[n].count > 0

\* The tree and the counts at every step of every call.
TreeConsistent == TypeOK /\ LinksAreEntries /\ CountsAreHolders /\ NothingLeaked
=============================================================================
