----------------------------- MODULE FileTable -----------------------------
(***************************************************************************)
(* Descriptors and the file table: open.c, fcntl.c, sys_pipe(), what       *)
(* fork(), execve() and exit() do to the files of a task, and getcwd(),    *)
(* which opens "." and does not close it.                                  *)
(*                                                                         *)
(* A task may sleep in open_namei(), in get_empty_inode(), and in the      *)
(* iput() of a file that it closes, with its slot of the table taken or    *)
(* the next descriptors still to be closed; a step is what it does from    *)
(* one such place to the next. An inode is only the reference to it that   *)
(* a file keeps: which inodes there are, and the paths, are in FileTree.   *)
(* Left out are the modes, flags and positions of files, and terminals.    *)
(***************************************************************************)
EXTENDS Naturals, FiniteSets, FiniteSetsExt

CONSTANTS
    Users,    \* the tasks
    NR_OPEN,  \* the descriptors of a task
    NR_FILE   \* the slots of the file table

FileTableAssumption == IsFiniteSet(Users) /\ NR_OPEN \in Nat \ {0} /\ NR_FILE \in Nat \ {0}

Fds   == 0 .. NR_OPEN - 1
Slots == 1 .. NR_FILE
NULL  == 0

VARIABLES
    filp, close_on_exec, \* of each task
    f_count,             \* of each slot of file_table
    refs,                \* the references to inodes that files have got and not given back
    doing                \* where each task is: the call, and its descriptors and slots

tableVars == <<filp, close_on_exec, f_count, refs, doing>>

AtUser == [pc |-> "user", fd |-> 0, other |-> 0]
Ended  == [AtUser EXCEPT !.pc = "ended"]

\* The tasks have been started, with nothing open yet.
TableInit ==
    /\ filp = [t \in Users |-> [fd \in Fds |-> NULL]]
    /\ close_on_exec = [t \in Users |-> {}]
    /\ f_count = [f \in Slots |-> 0]
    /\ refs = 0
    /\ doing = [t \in Users |-> AtUser]

TableTypeOK ==
    /\ filp \in [Users -> [Fds -> Slots \cup {NULL}]] /\ close_on_exec \in [Users -> SUBSET Fds]
    /\ f_count \in [Slots -> 0 .. Cardinality(Users) * NR_OPEN] /\ refs \in 0 .. NR_FILE
    /\ \A t \in Users : /\ doing[t].pc \in {"user", "open", "pipe", "dup2", "exec", "exit", "ended"}
                        /\ doing[t].fd \in Fds /\ doing[t].other \in Fds

At(t, pc)  == doing[t].pc = pc
FreeFds(t) == {fd \in Fds : filp[t][fd] = NULL}
FreeSlots  == {f \in Slots : f_count[f] = 0}
Return(t)  == doing' = [doing EXCEPT ![t] = AtUser]

-----------------------------------------------------------------------------
(* open() and close() *)

\* The slot is taken, before anything sleeps.
TakeSlot(t, fd, f) == filp' = [filp EXCEPT ![t][fd] = f] /\ f_count' = [f_count EXCEPT ![f] = @ + 1]

sys_open(t) ==
    /\ At(t, "user") /\ FreeFds(t) # {}
    /\ LET fd == Min(FreeFds(t))
       IN /\ close_on_exec' = [close_on_exec EXCEPT ![t] = @ \ {fd}]
          /\ IF FreeSlots = {}
               THEN UNCHANGED <<filp, f_count, doing>>
               ELSE /\ TakeSlot(t, fd, Min(FreeSlots))
                    /\ doing' = [doing EXCEPT ![t] = [AtUser EXCEPT !.pc = "open", !.fd = fd]]
    /\ UNCHANGED refs

\* open_namei() has found the inode.
Opened(t) ==
    /\ At(t, "open")
    /\ f_count' = [f_count EXCEPT ![filp[t][doing[t].fd]] = 1] /\ refs' = refs + 1
    /\ Return(t)
    /\ UNCHANGED <<filp, close_on_exec>>

\* It has not, or the task has no terminal and the inode is given back.
NotOpened(t) ==
    /\ At(t, "open")
    /\ f_count' = [f_count EXCEPT ![filp[t][doing[t].fd]] = 0]
    /\ filp' = [filp EXCEPT ![t][doing[t].fd] = NULL]
    /\ Return(t)
    /\ UNCHANGED <<close_on_exec, refs>>

\* getcwd() opens "." in the same way, walks up, and returns without closing it.
sys_getcwd(t) == sys_open(t)

\* Mutated form: the mark is not cleared.
ClosedKeepsMark(t, fd) ==
    LET f == filp[t][fd]
    IN /\ UNCHANGED close_on_exec
       /\ IF f = NULL THEN UNCHANGED <<filp, f_count, refs>>
          ELSE /\ filp' = [filp EXCEPT ![t][fd] = NULL]
               /\ f_count' = [f_count EXCEPT ![f] = @ - 1]
               /\ refs' = IF f_count[f] = 1 THEN refs - 1 ELSE refs

\* The last descriptor of a file gives back the inode.
Closed(t, fd) ==
    LET f == filp[t][fd]
    IN /\ close_on_exec' = [close_on_exec EXCEPT ![t] = @ \ {fd}]
       /\ IF f = NULL THEN UNCHANGED <<filp, f_count, refs>>
          ELSE /\ filp' = [filp EXCEPT ![t][fd] = NULL]
               /\ f_count' = [f_count EXCEPT ![f] = @ - 1]
               /\ refs' = IF f_count[f] = 1 THEN refs - 1 ELSE refs

sys_close(t, fd) == At(t, "user") /\ Closed(t, fd) /\ UNCHANGED doing

-----------------------------------------------------------------------------
(* dup(), dup2() and fcntl() *)

\* The first free descriptor from arg on is another one for the file of fd.
dupfd(t, fd, arg) ==
    LET to == {d \in FreeFds(t) : d >= arg}
    IN /\ IF filp[t][fd] = NULL \/ to = {}
            THEN UNCHANGED <<filp, close_on_exec, f_count>>
            ELSE /\ close_on_exec' = [close_on_exec EXCEPT ![t] = @ \ {Min(to)}]
                 /\ TakeSlot(t, Min(to), filp[t][fd])
       /\ UNCHANGED refs

\* dup(), which has arg 0, and F_DUPFD.
Dup(t, fd, arg) == At(t, "user") /\ dupfd(t, fd, arg) /\ UNCHANGED doing

\* dup2() closes newfd, also when it is oldfd, and may sleep there.
sys_dup2(t, oldfd, newfd) ==
    /\ At(t, "user") /\ Closed(t, newfd)
    /\ doing' = [doing EXCEPT ![t] = [pc |-> "dup2", fd |-> oldfd, other |-> newfd]]

Dup2Closed(t) == At(t, "dup2") /\ dupfd(t, doing[t].fd, doing[t].other) /\ Return(t)

\* F_SETFD with 1 or 0
SetCloseOnExec(t, fd) ==
    /\ At(t, "user") /\ filp[t][fd] # NULL
    /\ \E s \in {close_on_exec[t] \cup {fd}, close_on_exec[t] \ {fd}} :
          close_on_exec' = [close_on_exec EXCEPT ![t] = s]
    /\ UNCHANGED <<filp, f_count, refs, doing>>

-----------------------------------------------------------------------------
(* pipe() *)

\* Two slots and two descriptors; what has been taken is given back when there is only one.
sys_pipe(t) ==
    /\ At(t, "user") /\ Cardinality(FreeSlots) >= 2 /\ Cardinality(FreeFds(t)) >= 2
    /\ LET r == Min(FreeFds(t))
           w == Min(FreeFds(t) \ {r})
           f == Min(FreeSlots)
           g == Min(FreeSlots \ {f})
       IN /\ filp' = [filp EXCEPT ![t][r] = f, ![t][w] = g]
          /\ f_count' = [f_count EXCEPT ![f] = 1, ![g] = 1]
          /\ doing' = [doing EXCEPT ![t] = [pc |-> "pipe", fd |-> r, other |-> w]]
    /\ UNCHANGED <<close_on_exec, refs>>

\* get_pipe_inode() has slept in get_empty_inode(): there is a page for the pipe.
Piped(t) == At(t, "pipe") /\ refs' = refs + 2 /\ Return(t) /\ UNCHANGED <<filp, close_on_exec, f_count>>

NotPiped(t) ==
    /\ At(t, "pipe")
    /\ LET r == doing[t].fd
           w == doing[t].other
       IN /\ filp' = [filp EXCEPT ![t][r] = NULL, ![t][w] = NULL]
          /\ f_count' = [f_count EXCEPT ![filp[t][r]] = 0, ![filp[t][w]] = 0]
    /\ Return(t) /\ UNCHANGED <<close_on_exec, refs>>

-----------------------------------------------------------------------------
(* fork(), execve() and exit() *)

\* copy_process(): the child has the descriptors of its father.
Fork(t, u) ==
    /\ At(t, "user") /\ At(u, "ended")
    /\ filp' = [filp EXCEPT ![u] = filp[t]]
    /\ close_on_exec' = [close_on_exec EXCEPT ![u] = close_on_exec[t]]
    /\ f_count' = [f \in Slots |-> f_count[f] + Cardinality({fd \in Fds : filp[t][fd] = f})]
    /\ doing' = [doing EXCEPT ![u] = AtUser]
    /\ UNCHANGED refs

\* The calls that close one descriptor after another, and may sleep after each.
Begin(t, call) ==
    /\ At(t, "user") /\ doing' = [doing EXCEPT ![t].pc = call]
    /\ UNCHANGED <<filp, close_on_exec, f_count, refs>>

\* do_execve()
ExecCloses(t) ==
    /\ At(t, "exec")
    /\ IF close_on_exec[t] # {} THEN Closed(t, Min(close_on_exec[t])) /\ UNCHANGED doing
       ELSE Return(t) /\ UNCHANGED <<filp, close_on_exec, f_count, refs>>

\* do_exit()
ExitCloses(t) ==
    /\ At(t, "exit")
    /\ IF FreeFds(t) # Fds THEN Closed(t, Min(Fds \ FreeFds(t))) /\ UNCHANGED doing
       ELSE doing' = [doing EXCEPT ![t] = Ended] /\ UNCHANGED <<filp, close_on_exec, f_count, refs>>

TableNext ==
    \E t \in Users :
       \/ sys_open(t) \/ Opened(t) \/ NotOpened(t) \/ sys_getcwd(t)
       \/ \E fd, d \in Fds : sys_close(t, fd) \/ Dup(t, fd, d) \/ sys_dup2(t, fd, d) \/ SetCloseOnExec(t, fd)
       \/ Dup2Closed(t) \/ sys_pipe(t) \/ Piped(t) \/ NotPiped(t)
       \/ \E u \in Users : Fork(t, u)
       \/ Begin(t, "exec") \/ Begin(t, "exit") \/ ExecCloses(t) \/ ExitCloses(t)

TableSpec == TableInit /\ [][TableNext]_tableVars

-----------------------------------------------------------------------------
(* What should hold. *)

Places(f) == {d \in Users \X Fds : filp[d[1]][d[2]] = f}

\* The slots that are taken by a call that has no inode for them yet.
Unfinished ==
    {filp[t][doing[t].fd] : t \in {u \in Users : doing[u].pc \in {"open", "pipe"}}}
    \cup {filp[t][doing[t].other] : t \in {u \in Users : At(u, "pipe")}}

\* A file is counted once for each descriptor, of whichever task: its slot is not taken again while
\* one is left, the last close() gives its inode back and none before, and a call that fails half way
\* leaves no slot taken. A file that a call is still opening belongs to one descriptor.
CountsAreDescriptors ==
    /\ \A f \in Slots : f_count[f] = Cardinality(Places(f))
    /\ \A f \in Unfinished : Cardinality(Places(f)) = 1
    /\ refs = Cardinality({f \in Slots : f_count[f] > 0} \ Unfinished)

\* A descriptor that is not open is not marked to be closed by execve(): pipe(), which does not clear
\* the mark, gives out none that the next program will not get.
MarksAreOpen == \A t \in Users : close_on_exec[t] \subseteq Fds \ FreeFds(t)

\* A task that has ended has no file open.
EndedHasNone == \A t \in Users : At(t, "ended") => FreeFds(t) = Fds

\* The table and the descriptors at every step of every call.
FilesConsistent == TableTypeOK /\ CountsAreDescriptors /\ MarksAreOpen /\ EndedHasNone
=============================================================================
