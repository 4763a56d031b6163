------------------------------- MODULE Memory -------------------------------
(***************************************************************************)
(* The memory manager, mm/memory.c: the page counts mem_map, the page      *)
(* tables, copy-on-write after fork(), demand loading and the sharing of   *)
(* clean pages between the tasks that run the same program.                *)
(*                                                                         *)
(* A task has one page table, all tasks run one program, and the kernel is *)
(* not preempted (current). An interrupt handler can call malloc(), which  *)
(* takes pages with get_free_page(), anywhere in the system calls and page *)
(* faults of a task, which run with interrupts on: get_free_page() is      *)
(* therefore two steps here, the scan and the marking.                     *)
(***************************************************************************)
EXTENDS Integers, FiniteSets, FiniteSetsExt

CONSTANTS
    NTasks,    \* task slots other than that of task[0]
    Addrs,     \* pages of the address space of a task
    Image,     \* those of them that lie below end_data and are loaded from the program
    NPages,    \* pages of memory
    MaxHeap    \* bound: pages that malloc() takes

ASSUME NumbersAssumption == NTasks \in Nat \ {0} /\ NPages \in Nat \ {0} /\ MaxHeap \in Nat
ASSUME ImageAssumption == Image \subseteq Addrs

Tasks  == 1 .. NTasks
Pages  == 1 .. NPages
None   == 0
NotYet == -1

VARIABLES
    mem_map,   \* how often each page is used
    struct,    \* the page of each task_struct; None for a free slot
    zombie,    \* the tasks that have ended and wait to be released
    dir,       \* the page that is the task's page table; None if it has none yet
    table,     \* the task's page table: entries [page, rw, dirty], page None if not present
    call,      \* what the kernel is doing for the task
    heap,      \* the pages that malloc() has taken
    current,   \* the task that runs in the kernel; None when any task may run
    twice      \* history: get_free_page() has given a page out twice

vars == <<mem_map, struct, zombie, dir, table, call, heap, current, twice>>

Absent == [page |-> None, rw |-> FALSE, dirty |-> FALSE]
Entry(p) == [page |-> p, rw |-> TRUE, dirty |-> FALSE]    \* page | 7

Pcs == {"user", "fork", "fork_table", "share", "empty", "load", "loading", "put",
        "un_wp", "verify", "store"}

TypeOK ==
    /\ mem_map \in [Pages -> 0 .. NTasks]
    /\ struct  \in [Tasks -> Pages \cup {None}]
    /\ zombie  \subseteq Tasks
    /\ dir     \in [Tasks -> Pages \cup {None}]
    /\ table   \in [Tasks -> [Addrs -> [page : Pages \cup {None}, rw : BOOLEAN, dirty : BOOLEAN]]]
    /\ call    \in [Tasks -> [pc : Pcs, back : {"user", "store"}, addr : Addrs \cup {None},
                              page : Pages \cup {None}, found : Pages \cup {None, NotYet}]]
    /\ heap    \subseteq Pages
    /\ current \in Tasks \cup {None}
    /\ twice \in BOOLEAN

InUser == [pc |-> "user", back |-> "user", addr |-> None, page |-> None, found |-> NotYet]

\* init, the first task that fork() has made, has not touched its memory yet.
Init ==
    /\ mem_map = [p \in Pages |-> IF p = NPages THEN 1 ELSE 0]
    /\ struct  = [t \in Tasks |-> IF t = 1 THEN NPages ELSE None]
    /\ zombie  = {}
    /\ dir     = [t \in Tasks |-> None]
    /\ table   = [t \in Tasks |-> [a \in Addrs |-> Absent]]
    /\ call    = [t \in Tasks |-> InUser]
    /\ heap    = {}
    /\ current = None
    /\ twice   = FALSE

-----------------------------------------------------------------------------
(* Tasks, places and page counts. *)

Alive == {t \in Tasks : struct[t] # None} \ zombie

\* The task runs, or is picked by schedule(), and is at place pc of the kernel. Once a page has
\* been given out twice there is nothing more to say: the model stops there.
At(t, pc) == ~twice /\ t \in Alive /\ current \in {t, None} /\ call[t].pc = pc

InUserMode(t) == At(t, "user") /\ current = None

Going(t, c) == call' = [call EXCEPT ![t] = c] /\ current' = t
Leave(t)    == call' = [call EXCEPT ![t] = InUser] /\ current' = None

\* A system call is about to store to address a.
ToStore(t, a) == call' = [call EXCEPT ![t] = [InUser EXCEPT !.pc = "store", !.addr = a]]

\* The end of a page fault: back to user mode, or to the store that caused it in the kernel.
Back(t) ==
    IF call[t].back = "user" THEN Leave(t) ELSE ToStore(t, call[t].addr) /\ current' = t

FreePages(m) == {p \in Pages : m[p] = 0}

\* What get_free_page() finds: the first (actually last) free page.
LastFree == IF FreePages(mem_map) = {} THEN None ELSE Max(FreePages(mem_map))

\* The places where a task calls get_free_page().
NeedsPage(t) ==
    \/ call[t].pc \in {"fork", "fork_table", "empty", "load", "un_wp"}
    \/ call[t].pc \in {"share", "put"} /\ dir[t] = None

\* get_free_page(): the scan of mem_map, up to the conditional jump.
Scan(t) ==
    /\ At(t, call[t].pc)
    /\ NeedsPage(t)
    /\ call[t].found = NotYet
    /\ Going(t, [call[t] EXCEPT !.found = LastFree])
    /\ UNCHANGED <<mem_map, struct, zombie, dir, table, heap, twice>>

Found(t)    == call[t].found
Got(t, pc)  == At(t, pc) /\ Found(t) \in Pages
Fails(t, pc) == At(t, pc) /\ Found(t) = None

\* get_free_page(): the marking of the page that the scan has found.
Marked(t) == [mem_map EXCEPT ![Found(t)] = 1]
Mark(t)   == twice' = (twice \/ mem_map[Found(t)] # 0)

\* How often the task's page table uses the page.
Uses(t, p) == Cardinality({a \in Addrs : table[t][a].page = p})

\* free_page_tables(), from the counts m on.
FreeTables(t, m) ==
    [p \in Pages |-> m[p] - Uses(t, p) - (IF dir[t] = p THEN 1 ELSE 0)]

\* do_exit() from the counts m on: the task_struct stays until the father's wait().
DoExit(t, m) ==
    /\ mem_map' = FreeTables(t, m)
    /\ dir'    = [dir EXCEPT ![t] = None]
    /\ table'  = [table EXCEPT ![t] = [a \in Addrs |-> Absent]]
    /\ zombie' = zombie \cup {t}
    /\ Leave(t)
    /\ UNCHANGED <<struct, heap, twice>>

FreePage(m, p) == [m EXCEPT ![p] = @ - 1]

-----------------------------------------------------------------------------
(* fork(), exit(), wait() and exec(). *)

\* sys_fork(): a free slot is found, and a page for the task_struct is asked for.
Fork(t) ==
    /\ InUserMode(t)
    /\ \E c \in Tasks : struct[c] = None
    /\ Going(t, [InUser EXCEPT !.pc = "fork"])
    /\ UNCHANGED <<mem_map, struct, zombie, dir, table, heap, twice>>

Slot == CHOOSE c \in Tasks : struct[c] = None /\ \A d \in Tasks : struct[d] = None => c <= d

\* copy_process(): the task_struct has its page; a page table follows if the task has one.
ForkStruct(t) ==
    /\ Got(t, "fork")
    /\ mem_map' = Marked(t)
    /\ Mark(t)
    /\ IF dir[t] = None
         THEN /\ struct' = [struct EXCEPT ![Slot] = Found(t)]
              /\ Leave(t)
         ELSE /\ Going(t, [InUser EXCEPT !.pc = "fork_table", !.page = Found(t)])
              /\ UNCHANGED struct
    /\ UNCHANGED <<zombie, dir, table, heap>>

\* Mutated form: the parent keeps its right to write to the pages.
CopyPageTablesParentWrites(t) ==
    /\ Got(t, "fork_table")
    /\ mem_map' = [p \in Pages |-> Marked(t)[p] + Uses(t, p)]
    /\ Mark(t)
    /\ struct' = [struct EXCEPT ![Slot] = call[t].page]
    /\ dir'    = [dir EXCEPT ![Slot] = Found(t)]
    /\ table'  = [table EXCEPT ![Slot] = [a \in Addrs |-> [table[t][a] EXCEPT !.rw = FALSE]]]
    /\ Leave(t)
    /\ UNCHANGED <<zombie, heap>>

\* copy_page_tables(): every page is shared, and nobody may write to it.
CopyPageTables(t) ==
    /\ Got(t, "fork_table")
    /\ mem_map' = [p \in Pages |-> Marked(t)[p] + Uses(t, p)]
    /\ Mark(t)
    /\ LET shared == [a \in Addrs |-> [table[t][a] EXCEPT !.rw = FALSE]] IN
         table' = [table EXCEPT ![t] = shared, ![Slot] = shared]
    /\ struct' = [struct EXCEPT ![Slot] = call[t].page]
    /\ dir'    = [dir EXCEPT ![Slot] = Found(t)]
    /\ Leave(t)
    /\ UNCHANGED <<zombie, heap>>

\* No page: -EAGAIN, and the page of the task_struct is given back.
ForkFails(t) ==
    /\ Fails(t, "fork") \/ Fails(t, "fork_table")
    /\ mem_map' = IF call[t].page = None THEN mem_map ELSE FreePage(mem_map, call[t].page)
    /\ Leave(t)
    /\ UNCHANGED <<struct, zombie, dir, table, heap, twice>>

\* exit(), but never of the last task: init stays.
Exit(t) ==
    /\ InUserMode(t)
    /\ Alive # {t}
    /\ DoExit(t, mem_map)

\* release(), in the father's wait().
Release(t) ==
    /\ ~twice /\ current = None
    /\ t \in zombie
    /\ mem_map' = FreePage(mem_map, struct[t])
    /\ struct'  = [struct EXCEPT ![t] = None]
    /\ zombie'  = zombie \ {t}
    /\ UNCHANGED <<dir, table, call, heap, current, twice>>

\* do_execve(), here of the same program: the memory is given back and loaded on demand.
Exec(t) ==
    /\ InUserMode(t)
    /\ mem_map' = FreeTables(t, mem_map)
    /\ dir'   = [dir EXCEPT ![t] = None]
    /\ table' = [table EXCEPT ![t] = [a \in Addrs |-> Absent]]
    /\ UNCHANGED <<struct, zombie, call, heap, current, twice>>

-----------------------------------------------------------------------------
(* Pages that are not present. *)

\* The tasks that have the page present and clean: share_page() takes the one in the last slot.
Sharers(t, a) ==
    {u \in Alive \ {t} : dir[u] # None /\ table[u][a].page # None /\ ~table[u][a].dirty}

\* do_no_page(): a page of zeroes, a page that another task has, or a page to be loaded.
DoNoPage(t, a, back) ==
    /\ table[t][a].page = None
    /\ Going(t, [InUser EXCEPT !.addr = a, !.back = back,
                               !.pc = IF a \notin Image THEN "empty"
                                      ELSE IF Sharers(t, a) = {} THEN "load"
                                      ELSE "share"])
    /\ UNCHANGED <<mem_map, struct, zombie, dir, table, heap, twice>>

\* An access in user mode.
NoPage(t, a) ==
    /\ InUserMode(t)
    /\ DoNoPage(t, a, "user")

\* try_to_share(): the entry of task u is write-protected and copied.
ShareWith(t, u, m) ==
    LET a == call[t].addr
        e == [table[u][a] EXCEPT !.rw = FALSE]
    IN /\ table'   = [table EXCEPT ![u][a] = e, ![t][a] = e]
       /\ mem_map' = [m EXCEPT ![e.page] = @ + 1]

\* share_page(), with a page table for the task if it has none.
Share(t) ==
    /\ At(t, "share")
    /\ LET u == Max(Sharers(t, call[t].addr)) IN
         \/ /\ dir[t] # None
            /\ ShareWith(t, u, mem_map)
            /\ UNCHANGED <<dir, twice>>
         \/ /\ dir[t] = None
            /\ Found(t) \in Pages
            /\ ShareWith(t, u, Marked(t))
            /\ Mark(t)
            /\ dir' = [dir EXCEPT ![t] = Found(t)]
    /\ Back(t)
    /\ UNCHANGED <<struct, zombie, heap>>

\* get_empty_page() and do_no_page() have their page. To load it the task sleeps.
PageGot(t) ==
    /\ Got(t, "empty") \/ Got(t, "load")
    /\ mem_map' = Marked(t)
    /\ Mark(t)
    /\ call' = [call EXCEPT ![t].pc = "put", ![t].page = Found(t), ![t].found = NotYet]
    /\ current' = IF call[t].pc = "load" THEN None ELSE t
    /\ UNCHANGED <<struct, zombie, dir, table, heap>>

\* put_page(), with a page table for the task if it has none.
PutPage(t) ==
    /\ At(t, "put")
    /\ table' = [table EXCEPT ![t][call[t].addr] = Entry(call[t].page)]
    /\ \/ /\ dir[t] # None
          /\ UNCHANGED <<mem_map, dir, twice>>
       \/ /\ dir[t] = None
          /\ Found(t) \in Pages
          /\ mem_map' = Marked(t)
          /\ Mark(t)
          /\ dir' = [dir EXCEPT ![t] = Found(t)]
    /\ Back(t)
    /\ UNCHANGED <<struct, zombie, heap>>

\* Mutated form: the page that could not be put is not given back.
OutOfMemoryKeepsPage(t) ==
    /\ \/ Fails(t, "empty") \/ Fails(t, "load") \/ Fails(t, "un_wp")
       \/ (Fails(t, "share") \/ Fails(t, "put")) /\ dir[t] = None
    /\ DoExit(t, mem_map)

\* oom(): the task is ended; a page that could not be put is given back first.
OutOfMemory(t) ==
    /\ \/ Fails(t, "empty") \/ Fails(t, "load") \/ Fails(t, "un_wp")
       \/ (Fails(t, "share") \/ Fails(t, "put")) /\ dir[t] = None
    /\ DoExit(t, IF call[t].page = None THEN mem_map ELSE FreePage(mem_map, call[t].page))

-----------------------------------------------------------------------------
(* Pages that are present and write-protected. *)

Protected(t, a) == table[t][a].page # None /\ ~table[t][a].rw

\* do_wp_page() for a write in user mode: un_wp_page() copies the page ...
WpPage(t, a) ==
    /\ InUserMode(t)
    /\ Protected(t, a)
    /\ mem_map[table[t][a].page] # 1
    /\ Going(t, [InUser EXCEPT !.pc = "un_wp", !.addr = a])
    /\ UNCHANGED <<mem_map, struct, zombie, dir, table, heap, twice>>

\* ... or lets the task write to it if nobody else has it.
WpPageAlone(t, a) ==
    /\ InUserMode(t)
    /\ Protected(t, a)
    /\ mem_map[table[t][a].page] = 1
    /\ table' = [table EXCEPT ![t][a].rw = TRUE]
    /\ UNCHANGED <<mem_map, struct, zombie, dir, call, heap, current, twice>>

\* verify_area() has returned: the system call may sleep before it stores.
Verified(t, a) == ToStore(t, a) /\ current' = None

\* un_wp_page() has a new page and copies the old one to it.
UnWpPage(t) ==
    /\ Got(t, "un_wp")
    /\ mem_map' = FreePage(Marked(t), table[t][call[t].addr].page)
    /\ Mark(t)
    /\ table' = [table EXCEPT ![t][call[t].addr] = Entry(Found(t))]
    /\ IF call[t].back = "user" THEN Leave(t) ELSE Verified(t, call[t].addr)
    /\ UNCHANGED <<struct, zombie, dir, heap>>

-----------------------------------------------------------------------------
(* Stores. *)

\* A store in user mode. Only of a page of the program does it matter whether it is dirty.
UserStore(t, a) ==
    /\ InUserMode(t)
    /\ a \in Image
    /\ table[t][a].rw
    /\ table' = [table EXCEPT ![t][a].dirty = TRUE]
    /\ UNCHANGED <<mem_map, struct, zombie, dir, call, heap, current, twice>>

\* A system call that will store to address a: verify_area() calls write_verify(), which makes
\* a page that is present writable.
Verify(t, a) ==
    /\ InUserMode(t)
    /\ IF Protected(t, a) /\ mem_map[table[t][a].page] # 1
         THEN Going(t, [InUser EXCEPT !.pc = "un_wp", !.back = "store", !.addr = a]) /\ UNCHANGED table
         ELSE /\ Verified(t, a)
              /\ table' = IF Protected(t, a) THEN [table EXCEPT ![t][a].rw = TRUE] ELSE table
    /\ UNCHANGED <<mem_map, struct, zombie, dir, heap, twice>>

\* put_fs_byte() to a page that is not present.
StoreFaults(t) ==
    /\ At(t, "store")
    /\ DoNoPage(t, call[t].addr, "store")

\* put_fs_byte(): the processor lets the kernel write to every page that is present.
KernelStore(t) ==
    /\ At(t, "store")
    /\ table[t][call[t].addr].page # None
    /\ table' = [table EXCEPT ![t][call[t].addr].dirty = call[t].addr \in Image]
    /\ Leave(t)
    /\ UNCHANGED <<mem_map, struct, zombie, dir, heap, twice>>

-----------------------------------------------------------------------------
\* malloc() takes a page for a bucket, between cli() and sti(): in an interrupt handler that
\* allocates a message, or in a system call.
Malloc ==
    /\ ~twice
    /\ Cardinality(heap) < MaxHeap
    /\ LastFree # None
    /\ mem_map' = [mem_map EXCEPT ![LastFree] = 1]
    /\ heap'    = heap \cup {LastFree}
    /\ UNCHANGED <<struct, zombie, dir, table, call, current, twice>>

TaskStep(t) ==
    \/ Scan(t)
    \/ Fork(t) \/ ForkStruct(t) \/ CopyPageTables(t) \/ ForkFails(t)
    \/ Exit(t) \/ Release(t) \/ Exec(t)
    \/ Share(t) \/ PageGot(t) \/ PutPage(t) \/ OutOfMemory(t)
    \/ UnWpPage(t)
    \/ StoreFaults(t) \/ KernelStore(t)

AccessStep(t, a) ==
    NoPage(t, a) \/ WpPage(t, a) \/ WpPageAlone(t, a) \/ UserStore(t, a) \/ Verify(t, a)

Next ==
    \/ \E t \in Tasks : TaskStep(t)
    \/ \E t \in Tasks, a \in Addrs : AccessStep(t, a)
    \/ Malloc

Spec == Init /\ [][Next]_vars

-----------------------------------------------------------------------------
(* Properties *)

\* The uses of a page: as a task_struct, a page table or a page of malloc(), as a page of a
\* task, and in the hands of a task that has taken it and not yet put it anywhere.
Refs(p) ==
    Cardinality({t \in Tasks : struct[t] = p}) + Cardinality({t \in Tasks : dir[t] = p})
    + Cardinality({ta \in Tasks \X Addrs : table[ta[1]][ta[2]].page = p})
    + Cardinality({t \in Tasks : call[t].page = p})
    + (IF p \in heap THEN 1 ELSE 0)

\* mem_map counts the uses of every page, at every step of every system call and fault and on
\* all their error paths: no page is lost, and none is free that somebody uses.
CountsAreUses == ~twice => \A p \in Pages : mem_map[p] = Refs(p)

\* The memory at every step of every call and fault, however they fail.
PagesConsistent == TypeOK /\ CountsAreUses

\* Copy on write: a task may write only to a page that nobody else uses, neither another task
\* nor the kernel.
WritableIsPrivate ==
    ~twice => \A t \in Tasks, a \in Addrs : table[t][a].rw => Refs(table[t][a].page) = 1

=============================================================================
