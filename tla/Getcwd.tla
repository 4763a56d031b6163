------------------------------- MODULE Getcwd -------------------------------
(***************************************************************************)
(* The walk of getcwd() (kernel/getcwd.c): from the directory of the task  *)
(* up to its root, by chdir(".."), with a search in each directory for the *)
(* name of the one below.                                                  *)
(*                                                                         *)
(* A task may sleep wherever it reads the block of a directory, and a step *)
(* goes from there to the next such place. (It may sleep in iget() and     *)
(* iput() too, where nothing is read that a step of another task changes.) *)
(* The tree does not change: a directory that is in use, or not empty, is  *)
(* not removed (FileTree).                                                 *)
(*                                                                         *)
(* A name is the directory that it names. Left out are permissions,        *)
(* mounts, directories of more entries than the 521 bytes that getcwd()    *)
(* has for them, a chroot() that the task has not followed, the copying of *)
(* the answer to the caller's buffer, and what malloc() gives, which is    *)
(* never freed.                                                            *)
(***************************************************************************)
EXTENDS Integers, Sequences, FiniteSets, FiniteSetsExt

CONSTANTS
    Callers,   \* the tasks
    Dirs,
    up,        \* the ".." of each directory; the root is its own
    root,      \* of each task
    NR_OPEN,   \* the descriptors of a task
    MaxCalls   \* bound: the calls of getcwd()

\* The directories are a tree: no directory is above the one that is above it.
ASSUME GetcwdAssumption ==
    /\ IsFiniteSet(Callers)
    /\ up \in [Dirs -> Dirs] /\ \A d \in Dirs : up[up[d]] = d => up[d] = d
    /\ root \in [Callers -> Dirs]
    /\ NR_OPEN \in Nat \ {0} /\ MaxCalls \in Nat /\ "none" \notin Dirs

Fds     == 1 .. NR_OPEN
None    == "none"
Counts  == 256   \* b_count is an unsigned char
NrNames == 20    \* the length of pathname[]

VARIABLES
    i_count,  \* the users of each directory's inode
    b_count,  \* the users of the buffer that has its first block
    filp,     \* the directories that each task has open
    pwd,
    walk,     \* where each task is in getcwd(), and its local variables
    calls,
    panic     \* has brelse() found a buffer that nobody uses?

getcwdVars == <<i_count, b_count, filp, pwd, walk, calls, panic>>

\* Asleep in find_entry(), for open(".") and for chdir(".."), and in getdents().
Pcs == {"user", "open", "chdir", "getdents"}

AtUser == [pc |-> "user", old |-> None, dir |-> None, names |-> <<>>]

GetcwdInit ==
    /\ i_count = [d \in Dirs |-> Cardinality({t \in Callers : root[t] = d})]
    /\ b_count = [d \in Dirs |-> 0]
    /\ filp = [t \in Callers |-> [fd \in Fds |-> None]]
    /\ pwd = root
    /\ walk = [t \in Callers |-> AtUser]
    /\ calls = 0
    /\ panic = FALSE

At(t, pc)  == walk[t].pc = pc
FreeFds(t) == {fd \in Fds : filp[t][fd] = None}

-----------------------------------------------------------------------------
(* What getcwd() calls. A count is changed in f, the counts so far. *)

\* iget() and iput() of a directory's inode.
iget(f, d) == [f EXCEPT ![d] = @ + 1]
iput(f, d) == [f EXCEPT ![d] = @ - 1]

\* bread() of its block, and brelse().
bread(f, d)  == [f EXCEPT ![d] = (@ + 1) % Counts]
brelse(f, d) == [f EXCEPT ![d] = (@ - 1) % Counts]
Panics(f, d) == panic' = (panic \/ f[d] = 0)

\* get_dir() of "." and "..": the task's directory.
get_dir(f, t) == iget(f, pwd[t])

\* find_entry(): the directory of the entry ".", or of "..". That of the task's root is not taken for
\* ".": namelen is made 1 for that, but strcmp() does not look at it.
find_entry(d, name) == IF name = "." THEN d ELSE up[d]

\* my_namei(), and my_open_namei(), of "." or "..": up to where find_entry() sleeps, and from there.
my_namei(t, f, b) == i_count' = get_dir(f, t) /\ b_count' = bread(b, pwd[t])
found(f, d, name) == iget(iput(f, d), find_entry(d, name))

\* my_getdents(): the name of the entry of directory d with the number of directory n.
my_getdents(d, n) ==
    CASE n = d                           -> "."
      [] n # d /\ n = up[d]              -> ".."
      [] n # d /\ n # up[d] /\ up[n] = d -> n
      [] OTHER                           -> "unknown"

-----------------------------------------------------------------------------
(* getcwd() *)

\* my_open(".") looks for a descriptor, and for the name ".".
sys_getcwd(t) ==
    /\ At(t, "user") /\ calls < MaxCalls
    /\ calls' = calls + 1
    /\ IF FreeFds(t) = {} THEN UNCHANGED <<i_count, b_count, walk>>
       ELSE /\ my_namei(t, i_count, b_count)
            /\ walk' = [walk EXCEPT ![t] = [AtUser EXCEPT !.pc = "open"]]
    /\ UNCHANGED <<filp, pwd, panic>>

\* The directory is open, and stays so. get_dir(".") counts it, and my_chdir("..") begins.
Opened(t) ==
    LET d == pwd[t] IN
    /\ At(t, "open")
    /\ Panics(b_count, d)
    /\ my_namei(t, get_dir(found(i_count, d, "."), t), brelse(b_count, d))
    /\ filp' = [filp EXCEPT ![t][Min(FreeFds(t))] = d]
    /\ walk' = [walk EXCEPT ![t] = [pc |-> "chdir", old |-> d, dir |-> d, names |-> <<>>]]
    /\ UNCHANGED <<pwd, calls>>

\* my_chdir("..") has found the number of the directory above, gives back the one that it has
\* searched and the old one, and the loop goes on there, or ends.
Chdir(t) ==
    LET d == pwd[t]
        above == find_entry(d, "..")
        counts == iput(found(i_count, d, ".."), d)
    IN /\ At(t, "chdir")
       /\ Panics(b_count, d)
       /\ \/ /\ walk[t].dir # root[t]
             /\ i_count' = counts
             /\ pwd' = [pwd EXCEPT ![t] = above]
             /\ b_count' = bread(brelse(b_count, d), above)
             /\ walk' = [walk EXCEPT ![t].pc = "getdents"]
          \/ /\ walk[t].dir = root[t]
             /\ i_count' = iput(counts, above)
             /\ pwd' = [pwd EXCEPT ![t] = walk[t].old]
             /\ b_count' = brelse(b_count, d)
             /\ walk' = [walk EXCEPT ![t].pc = "user"]
       /\ UNCHANGED <<filp, calls>>

\* Mutated form: the directory below is given back before its variable is used again.
GetdentsGivingBack(t) ==
    /\ At(t, "getdents") /\ Len(walk[t].names) < NrNames
    /\ my_namei(t, iput(get_dir(i_count, t), walk[t].dir), b_count)
    /\ walk' = [walk EXCEPT ![t].pc = "chdir", ![t].dir = pwd[t],
                            ![t].names = Append(@, my_getdents(pwd[t], walk[t].dir))]
    /\ UNCHANGED <<filp, pwd, calls, panic>>

\* Mutated form: the directory below stays what it was.
GetdentsOfOne(t) ==
    /\ At(t, "getdents") /\ Len(walk[t].names) < NrNames
    /\ my_namei(t, get_dir(i_count, t), b_count)
    /\ walk' = [walk EXCEPT ![t].pc = "chdir", ![t].names = Append(@, my_getdents(pwd[t], walk[t].dir))]
    /\ UNCHANGED <<filp, pwd, calls, panic>>

\* my_getdents() has read the block, and does not release it. The name is put behind those found so
\* far, get_dir(".") counts the directory, and my_chdir("..") begins.
Getdents(t) ==
    /\ At(t, "getdents") /\ Len(walk[t].names) < NrNames
    /\ my_namei(t, get_dir(i_count, t), b_count)
    /\ walk' = [walk EXCEPT ![t].pc = "chdir", ![t].dir = pwd[t],
                            ![t].names = Append(@, my_getdents(pwd[t], walk[t].dir))]
    /\ UNCHANGED <<filp, pwd, calls, panic>>

-----------------------------------------------------------------------------
(* What else tasks do with directories. *)

\* The directories from d up to the root.
Ancestors(d) == {a \in Dirs : \A S \in SUBSET Dirs : (d \in S /\ \A x \in S : up[x] \in S) => a \in S}

\* chdir() to a directory below the task's root.
sys_chdir(t, d) ==
    /\ At(t, "user") /\ root[t] \in Ancestors(d)
    /\ i_count' = iput(iget(i_count, d), pwd[t])
    /\ pwd' = [pwd EXCEPT ![t] = d]
    /\ walk' = [walk EXCEPT ![t] = AtUser]
    /\ UNCHANGED <<b_count, filp, calls, panic>>

\* close() of what getcwd() has left open.
sys_close(t, fd) ==
    /\ At(t, "user") /\ filp[t][fd] # None
    /\ i_count' = iput(i_count, filp[t][fd])
    /\ filp' = [filp EXCEPT ![t][fd] = None]
    /\ UNCHANGED <<b_count, pwd, walk, calls, panic>>

Walk(t) == Opened(t) \/ Chdir(t) \/ Getdents(t)

GetcwdNext ==
    /\ ~panic
    /\ \E t \in Callers : \/ sys_getcwd(t) \/ Walk(t)
                          \/ \E d \in Dirs : sys_chdir(t, d)
                          \/ \E fd \in Fds : sys_close(t, fd)

\* A sleep for a block ends (Blk, BufferCache).
GetcwdSpec == GetcwdInit /\ [][GetcwdNext]_getcwdVars /\ \A t \in Callers : WF_getcwdVars(Walk(t))

-----------------------------------------------------------------------------
(* What should hold. *)

GetcwdTypes ==
    /\ i_count \in [Dirs -> Int] /\ b_count \in [Dirs -> 0 .. Counts - 1]
    /\ filp \in [Callers -> [Fds -> Dirs \cup {None}]]
    /\ pwd \in [Callers -> Dirs] /\ calls \in 0 .. MaxCalls /\ panic \in BOOLEAN
    /\ \A t \in Callers : /\ walk[t].pc \in Pcs
                          /\ walk[t].old \in Dirs \cup {None} /\ walk[t].dir \in Dirs \cup {None}

\* Those that use directory d: by their pwd, as the directory that get_dir() has counted for a search,
\* and as the one that getcwd() will go back to; and the descriptors that have it open.
AsPwd(d)    == {t \in Callers : pwd[t] = d}
AsSearch(d) == {t \in Callers : walk[t].pc \in {"open", "chdir"} /\ pwd[t] = d}
AsOld(d)    == {t \in Callers : walk[t].pc \in {"chdir", "getdents"} /\ walk[t].old = d}
AsFile(d)   == {x \in Callers \X Fds : filp[x[1]][x[2]] = d}

\* Nobody uses a directory that is not counted for him, although chdir("..") gives back the count
\* of the directory that getcwd() returns to: it is the one of get_dir() that is never given back.
UsersAreCounted ==
    \A d \in Dirs : i_count[d] >= Cardinality(AsPwd(d)) + Cardinality(AsSearch(d))
                                    + Cardinality(AsOld(d)) + Cardinality(AsFile(d))

\* The names are those of the directories from the task's up to the one reached, and when getcwd()
\* returns, up to the root.
NamesAreThePath ==
    \A t \in Callers :
       LET w == walk[t]
           n == Len(w.names)
           reached == IF n = 0 THEN w.old ELSE up[w.names[n]]
       IN /\ \A i \in 1 .. n : /\ w.names[i] \in Dirs \ {root[t]}
                               /\ w.names[i] = IF i = 1 THEN w.old ELSE up[w.names[i - 1]]
          /\ w.pc \in {"chdir", "getdents"} => w.dir = reached
          /\ w.pc = "chdir" => pwd[t] = reached
          /\ w.pc = "getdents" => w.dir # root[t] /\ pwd[t] = up[reached]
          /\ w.pc = "user" /\ w.old # None => reached = root[t] /\ pwd[t] = w.old

\* The counts and the names at every step of getcwd().
GetcwdConsistent == GetcwdTypes /\ UsersAreCounted /\ NamesAreThePath

\* getcwd() comes to the root and returns.
GetcwdReturns == \A t \in Callers : walk[t].pc # "user" ~> walk[t].pc = "user"

\* brelse() never finds a buffer that nobody uses: "Trying to free free buffer" (buffer.c:262).
NoFreeOfFree == ~panic
=============================================================================
