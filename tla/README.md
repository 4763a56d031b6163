# A TLA+ verification of the Linux 0.11 kernel with mouse, graphics and messages

The repository is Linux 0.11 with additions: system calls of an earlier lab (`getdents`, `getcwd`,
`sleep`, `execve2`), and a mouse driver, a graphics mode, a message queue, user timers and a small
game that tests them. This directory holds TLA+ modules translated from that code, TLC
configurations that check them on small instances, and proofs that TLAPS checks.

## 1. Inventory

### How the parts run

One processor, interrupts, no kernel preemption: a task in the kernel runs until it calls
`schedule()` or returns to user mode, and only interrupt handlers come in between, unless `cli()`
keeps them out. Most races of this code are therefore of two kinds: *a task sleeps between looking
and acting* (buffers, inodes, names, blocks, pages, pipes), and *an interrupt handler uses what the
interrupted code was using* (messages, timers, `malloc()`, `get_free_page()`, requests, the queues
of terminals). A step of a model ends where the code sleeps or where an interrupt can come in.

### Components

| Component | State | Operations | Hard part | Correct when |
|---|---|---|---|---|
| Wait queues (`sched.c`) | a task pointer per queue, a `tmp` on each sleeper's stack | `sleep_on`, `interruptible_sleep_on`, `wake_up` | the queue is a chain through kernel stacks | no lost wakeup, no pointer to a task that left |
| Scheduler (`sched.c`, `system_call.s`) | `state`, `counter`, `priority` | `schedule`, `do_timer`, `nice` | starvation, growth of quanta | every runnable task runs; idle only if nothing else |
| Processes (`fork.c`, `exit.c`) | task table, pids, fathers | fork, exit, waitpid, kill | orphans, pids that wrap | a zombie has somebody to collect it; a wait ends |
| Signals (`signal.c`, `sleep.c`) | masks, handlers, alarms | sigaction, kill, alarm, pause, sleep | a handler inside a handler or a sleep | masks come back, a sleep ends |
| Messages (`message.c`) | linked list, head and rear | post from interrupts, get from tasks | first post runs with interrupts on | a FIFO that loses nothing |
| User timers (`timer.c`) | list with counters | create, scan, destroy | a scan interrupted by the next tick | each expires at each period |
| Kernel allocator (`malloc.c`) | chains of pages of objects | `malloc`, `free_s` | search with interrupts on | an object given once, none lost |
| Mouse (`mouse.2.s`, `readmouse.c`) | byte counter, signs, cursor | one handler per byte | out of step, edges of the screen | cursor on the screen, clicks only from flags |
| Memory (`memory.c`, `page.s`) | `mem_map`, page tables | page faults, copying of tables, sharing | copy-on-write, sharing, exhaustion | counts exact, writable pages private |
| Buffer cache (`buffer.c`) | buffer heads, hash table, free list | `getblk`, `bread`, `breada`, `brelse`, `sync` | sleeping between search and use | one buffer per block, no lost data |
| Block requests, hard disk (`ll_rw_blk.c`, `blk.h`, `hd.c`) | slots, sorted list, `do_hd`, `reset`, `recalibrate` | `make_request`, `add_request`, `end_request`, interrupts | elevator, full table, errors | every request ended once, none starved |
| Floppy (`floppy.c`, timers of `sched.c`) | selection, motors, seek and track, timers | interrupts, `add_timer`, retries | restarts from many places | one thread of work (but for a request during the reset after a last failure), transfers in place |
| Names, inodes (`namei.c`, `open.c`, `inode.c`) | directories, links, counts | walk, open, mkdir, rmdir, link, unlink | error paths that must give back what they hold | links are entries, counts are holders |
| Table of inodes (`inode.c`) | slots with counts, locks and dirt | `iget`, `get_empty_inode`, `iput`, `sync_inodes` | sleeping between search and use | an inode in one slot, no change lost |
| Blocks of files (`bitmap.c`, `truncate.c`, `_bmap`, `file_dev.c`) | bit map, zone lists | new, free, map, truncate, read, write | allocation sleeps | a block has one owner, data stay in place |
| Descriptors (`open.c`, `fcntl.c`, `pipe.c`, `getcwd.c`) | `filp`, `close_on_exec`, `f_count` | open, close, dup, pipe, fork, exec, exit | failures between two steps | a file counted once per descriptor |
| `getcwd` (`getcwd.c`) | `pwd`, counts of inodes and of a buffer, names found | walk up with `chdir("..")`, search below | counts that are given back twice or never; a walk that must meet its root | names are the path, a directory in use is counted |
| User and group ids (`sys.c`) | six ids of a task | setreuid, setuid, setregid, setgid, the ids of a program | a call that fails between two assignments; ids given up | no id comes back, a failed call changes none |
| Pipes (`pipe.c`) | head, tail, one queue | read, write, close | two ends on one queue | FIFO, nobody forgotten |
| Terminals (`tty_io.c`, `rs_io.s`) | three queues, `secondary.data` | interrupts, `tty_read`, `tty_write` | counts of lines, full queues | lines counted right, calls end |
| Keyboard (`keyboard.S`) | `mode`, `leds`, `e0` | one handler per code | pairs of keys, full queue | modes are the keys held, sequences whole |
| Console (`console.c`) | origin, position, region | characters and sequences | the window moves in the memory | looks like a plain screen |
| Loading, graphics, printing, boot, tools | – | – | – | not modelled, see 7 |

### Interactions

Tasks enter by system calls and page faults; devices by interrupts. The mouse and the clock
interrupt post messages, for which they call `malloc()`, which calls `get_free_page()`; the game
takes them. File reads and writes go through descriptors, names, inodes and block maps to the
buffer cache, from there to the request list and the disk driver, whose interrupt unlocks the
buffer and wakes its sleepers. `fork()` and `exit()` work on the task table, the memory and the
descriptors; page faults read the program through the buffer cache and sleep there. The keyboard
and the serial lines fill the queues that `tty_read()` empties, and echo to the console.

The modules meet at these interfaces: what one proves, another takes as a step. `SleepQueue` shows
that `wake_up()` reaches every sleeper in turn, so in `Blk`, `Pipe` and `BufferCache` a wakeup makes
all sleepers runnable at once. `Sched!NoStarvation` is why a runnable task's next step is weakly fair elsewhere.
`Blk` shows that transfers end, which `SleepQueue` (`Unlock`) and `BufferCache` (its disk) take.
`Malloc` has the interrupts of `Messages` and `UserTimers` as its callers. `FileTree` has an inode
once for each number, which is what `InodeTable` shows; `FileTable` only counts references to inodes.

`PROJECT.json` lists the hazards, each at its line, with the properties that cover it.

## 2. Modules

| Module | Models | State and actions |
|---|---|---|
| `SleepQueue` | wait queues with a lock (`b_lock`) and a terminal as clients | `wait`, `ttyWait` are the queue heads, `tmp` the locals of `sleep_on()`; an action goes from a return of `schedule()` to the next call |
| `Sched` | `schedule()`, `do_timer()`, `nice()`, tail of a system call | `state`, `counter`, `priority`, `current`; a pass of the loop over all tasks is the operators `Picks` and `Reloaded` |
| `Process` | fork, exit, waitpid, kill | `task` is `task[]` with where each task is, `last_pid`; an exit has two steps |
| `Signals` | one task's masks, handlers, alarm, pause, sleep, `do_signal()` | `me` is the task, `frames` what `do_signal()` left on its stack |
| `Messages` | `message.c` | every memory access of a first post is a step, because interrupts are on; later posts and gets are one step |
| `Mailbox` | abstract specification of `Messages` | a FIFO, or a dead queue; `Messages!AsMailbox` is the refinement mapping |
| `Pipe` | `pipe.c` with readers and writers that share the ends | `head`, `tail`, `ring`; copying may fault and sleep |
| `UserTimers` | `timer.c` | one step per memory access of a scan, a stack of nested scans, one system call |
| `Malloc` | `lib/malloc.c` | descriptors in chains; `free_s()` is two steps |
| `Mouse` | `readmouse()` and the device | the byte counter, sign and overflow bits and the arithmetic of the cursor; `phase` is what the device means |
| `Memory` | `memory.c` with what fork, exit, wait, exec and system calls do to memory | `mem_map`, `table`; `get_free_page()` is the two steps `Scan` and marking |
| `BufferCache` | `buffer.c` with `file_read/write`, `block_read/write`, and the disk's interrupt | a buffer head is a record; `task[t].pc` is where the task sleeps or goes on; data are "newest" or not |
| `Blk` | `ll_rw_blk.c`, `blk.h`, `hd.c` | `hd.q` is the list, `hd.do_hd` the handler that waits; `Disk` is any interrupt |
| `Floppy` | `floppy.c` and the kernel timers | `fd` is the driver with its timers and what the controller is busy with, `change` a task in `floppy_change()` |
| `FileTree` | `namei.c` and the counts of inodes | `ino`, `pwd`; `task[t].pc` is the place in the call that may sleep |
| `FileBlocks` | `_bmap`, `new_block`, `free_block`, `truncate`, reads and writes | `zmap`, `tab` (all tables of zones), `data` (for whom a block was written) |
| `InodeTable` | `iget`, `get_empty_inode`, `iput`, `sync_inodes`, locks of inodes | `inode_table` has the slots, `caller` where each task is and its local variables |
| `FileTable` | descriptors and files | `filp`, `close_on_exec`, `f_count` |
| `Tty` | a serial line with reader, writer and interrupts | `tt` has the queues and where the two calls are |
| `Keyboard` | `keyboard.S` and the keys | `kb` has the modes, the keys held and the queue |
| `Console` | `console.c` | `mem` is the video memory, `con` the window and the cursor |
| `Screen` | abstract specification of `Console` | rows of characters, no memory and no window; `Console!Seen` is the mapping |
| `Getcwd` | the walk of `getcwd()`, with chdir and close around it | `walk` is where each task is in it and its local variables, `i_count` and `b_count` the users of each directory's inode and first block; a step goes from one read of a directory to the next |
| `Identity` | the calls that set user and group ids | `cred` has the ids; one call is one step |
| `MC...` | instances for TLC | constants that a `.cfg` cannot write, symmetry, sums |
| `SleepQueueProofs`, `BufferCacheProofs`, `MemoryProofs`, `BlkProofs` | theorems about one module | |
| `KernelProofs`, `CharDeviceProofs`, `FileProofs`, `ProcessProofs` | theorems about `Sched`, `Identity`, `Getcwd`, `UserTimers`, `Floppy` and `Malloc`; about `Mouse`, `Keyboard`, `Console` and `Tty`; about `InodeTable`, `FileTable` and `FileTree`; and about `Process`, `Messages`, `Signals` and `Pipe` | each with the instances of an `MC...` module where it has them |

Each module's header says what it leaves out. A definition under "Mutated form" is not part of
the specification: it changes one definition as a plausible bug would, and is there to show that a
property can fail.

`MCProcess`, `MCFileTree`, `MCConsole`, `MCKernel` and `MCUserTimers` hold several modules *side by side*: in a
behaviour only one of them moves (`which`, where fairness or a property depends on it), and the
others stay in their initial states. Their states are added and not multiplied, a property speaks
of its own module, and fairness is asked only of the one that moves. They are parts of one
subsystem that share no state in the models; one run answers for each subsystem.

## 3. Runs

| Run | Instance | Shows |
|---|---|---|
| `sleep_queue` | 3 tasks, 1 character | `NoStrandedSleeper`: no set of sleepers without a pointer from outside; `LockNeverStolen`; `TtyHeadInside`: no queue head points to a task that left; `EverySleeperWakes` |
| `kernel` | 3 tasks, priorities up to 3; 4 ids, programs with an owner and with a group; 2 tasks, 4 directories on 3 levels, roots of their own, 2 descriptors, 3 calls | `NobodyStarves`: a task that can run runs in the end; `PicksRight`: the loop of `schedule()` ends after one reload, and the idle task runs only when no other can; `IdsKept`: who is not root gets only ids that it has or a program gives, and a call that fails has changed none; `GetcwdConsistent`: the names are those of the path at every step, and a directory that is used is counted; `GetcwdReturns` |
| `process` | 3 slots and 4 pids; 2 handlers; 5 posts and 3 nested handlers; 2 readers and 2 writers of 3 bytes | `TasksConsistent`: pids are unique over wraps, each zombie has a father who lives; `WaitsEnd`: `waitpid()` and `sleep()` end; `HandlersConsistent`: when no handler runs the program's own mask is set; `MessagesConsistent` and `ImplementsMailbox` (refinement); `PipeConsistent`: bytes come in order, and nobody sleeps while there is something for him |
| `user_timers` | 3 timers of 0 to 2 ticks, 2 nested scans; pages of 1 and 2 objects | `CountdownsRight`: the first timer is always on time, the others if no tick came in a scan; `FirstGoesOnExpiring`; `MallocConsistent`: objects are given once, and the chains hold each page |
| `memory` | 2 slots, 2 addresses, 6 pages | `PagesConsistent`: `mem_map` is exact on all paths, those of exhaustion too; `WritableIsPrivate` |
| `buffer_cache` | 2 tasks, 3 blocks, 2 buffers | `BuffersConsistent`: one buffer per block, counts are holders; `HeldKeepsBlock`, `NothingLost` without I/O errors, `NoLostSleeper` |
| `blk` | 2 tasks, 4 blocks, 3 slots, 3 errors | `ListConsistent`: a locked buffer has one request, and the list turns at most once; `NoLostSlotWaiter`; `FailsOnlyAfterRetries`; `EveryWriteEnds` although reads overtake writes |
| `floppy` | 2 drives, 2 requests, times of 3, 6 and 1 ticks | `DriverConsistent`: one thread of work, transfers only on the right drive and track with the motor at speed, the sleeper for a drive is woken; `RequestsEnd`; both until a request comes into the reset after a last failure (`overtaken`) |
| `files` | 2 tasks, 3 inodes; 2 files on 4 blocks; 3 descriptors, 2 files in the table; 3 tasks, 2 inodes in 4 slots | `TreeConsistent`: links are entries, counts are holders, no inode is lost; `BlocksConsistent`: a block has one owner and data are where they were written; `FilesConsistent`: a file is counted once per descriptor, marks are of open ones; `InodesConsistent`: an inode is in one slot, counts are users, no change is lost |
| `tty` | queues of 4, 3 characters typed | `DataIsLines`: `secondary.data` is the number of lines; `CallsEnd`: reads and writes end |
| `console` | 6 bytes: flags, steps past the edges, 0xFA; 6 keys, a queue of 5; screen of 2 by 3 in a memory of 4 lines | `PacketsUnderstood`: the cursor stays on the screen, driver and device are in step up to a data byte 0xFA, and a click does not move the cursor; `KeyboardConsistent`: modes are the keys held, sequences whole; `ScreenConsistent`: the position and its address agree and every store is inside the memory; `ImplementsScreen` (refinement) |
| `getcwd_often` | 1 task, 2 directories, 300 calls, counts of 8 bits as in the code | *violation* of `NoFreeOfFree`: the buffers that `getdents()` keeps make `brelse()` panic |

The type invariants are conjuncts of the `...Consistent` properties.

### Bounds

Three tasks are the least for a chain of two `tmp` pointers and one intruder, and for a father, a
child and init; four pids wrap after three forks with two still in use. Five posts and three
handlers allow a handler to interrupt a handler that interrupted the first post and leave the queue
in every shape. Two handlers are the least to have one inside another, with different masks. A
page of three bytes is full with two, and a call of three has to sleep in its middle. Three timers
give a first, a middle and a last. Pages of one and two objects are empty, part full and full; two
descriptors a page make the chain of free descriptors run out. Two buffers for three blocks force
`getblk()` to sleep and to take buffers over; six pages hold two tasks with a shared page and its
copy, one too few for everything, so that memory runs out at each place that asks for a page. Three
slots leave two for writes, and four blocks make a sweep with its turn. Six sectors make
block 2 the last of the partition and put block 3 off it. Two drives make the selection change; a motor
that runs down in six ticks is still on, or off, when the next request comes. A root with room for
one entry fills, with an inode left for the `mkdir()` that then fails. Four blocks with one direct
zone and two numbers in a table give a file direct, indirect and doubly indirect blocks, and fill
the disk. Three descriptors and two files let `pipe()` fail after its first file and after its
first descriptor. Queues of four run over by echo. A memory one line longer than the screen makes
the window run to its end and be copied back. Three levels give a walk a first, a middle and a last
turn, and two tasks give and take the same directories; the count of a buffer has its real width, so
that only many calls make it wrap. Four ids are root, two users and a program's owner. `Word` is small so that unsigned arithmetic wraps in
reach of the parameters.

`MaxChars`, `MaxCount`, `MaxPriority`, `MaxHeap`, `MaxPosts`, `MaxNest`, `MaxTimers`, `MaxPid`,
`MaxFrames`, `MaxRequests`, `CommandTicks`, `MaxDescs`, `MaxWire`, `MaxTyped`, `MaxNr`, `MaxCalls` and `MaxId` bound
counters and say so where they are declared.

### Where a model stops

Deadlock is checked in `sleep_queue`, `kernel`, `user_timers` and `console`.
The others may stop, and only for these reasons. `process`: all is posted and taken; all ends of the
pipe are closed; the task is ended by a signal. `buffer_cache`: `breada()` holds a buffer and asks
for another, and with as few buffers as tasks all can wait; the kernel has far more buffers than
tasks. `blk`: a task that sleeps for a request after all of them have ended (`drained`) keeps its buffer
locked, and the other task may wait for that lock. `memory`, `files`, `floppy`, the
pipe and the serial line stop in a state from which the code does harm that is known and listed
(section 4), because what follows would only be its consequences: once a page has been given out twice
(`~twice`), once two tasks have won a race on one file or one name (`Race` in `FileBlocks` and
`FileTree`), once a byte is copied late (`torn` in `Pipe`), once a character is erased that a reader is fetching
(`torn` in `Tty`), once a request has started a second thread of work in the floppy driver (`overtaken` in `Floppy`).
`getcwd()` stops before a twentieth name, for which its array has no place (`getcwd.c:56`, `:92`). So what these runs show is short of those states, and the guards say exactly
which they are.

### Fairness

* `SleepQueue`: weak fairness of a woken task's return (`schedule()` starves nobody, which
  `Sched!NoStarvation` shows) and of `Unlock` (a transfer ends; the drivers retry a bounded number
  of times and then fail the request).
* `Sched`: weak fairness of the clock (the timer chip), of the end of a system call (none loops for
  ever) and of the idle loop. Nothing is assumed of sleepers or of who wakes them.
* `Process`: weak fairness of `schedule()` and of the steps of a task in the kernel; what a task
  does in user mode is not assumed. `Signals`: the alarm's time comes, and a woken task runs.
* `UserTimers`: weak fairness of the clock and of the innermost scan, which a processor goes on
  with when no interrupt comes.
* `Blk`: every command is answered by an interrupt (the code has nothing for the other case), a
  task on its way to sleep gets there, and a woken task runs. That a command succeeds is not
  assumed.
* `Floppy`: the clock ticks. A command is answered, and the controller takes one, a reset and a
  recalibration once in a while (strong fairness): the driver gives a request up after
  `MAX_ERRORS` failures of its seeks and transfers, but tries those others for ever. That a seek or
  a transfer ever succeeds is not assumed.
* `Getcwd`: weak fairness of a task's steps in `getcwd()`: each is the end of a sleep for a block, which
  `Blk` and `BufferCache` show to come.
* `Tty`: the line transmits; the scheduler gives a runnable task the processor again and again
  (strong fairness, since the other task may keep it for a while).

`Messages`, `Mouse`, `Malloc`, `BufferCache`, `Memory`, `Pipe`, `FileTree`, `FileBlocks`,
`FileTable`, `InodeTable`, `Identity`, `Keyboard` and `Console` have safety properties only.

## 4. Disagreements and harm found while modelling

One run expects a violation. In `getcwd_often`, `my_getdents()` never releases the buffer that it has
read (`getcwd.c:427`): its count is an unsigned char, and after 255 calls below one directory the next
`brelse()` panics with "Trying to free free buffer" (`buffer.c:262`).

The models follow the code in the following as well, and their properties say what holds short of them.

* `do_exit()` can return, although `exit.c:134` calls that impossible: a reader of the terminal
  leaves its queue for a signal and ends, and the next reader's stale `tmp` makes the zombie
  runnable (`sched.c:185`). `TtyHeadInside` is what does hold.
* `setreuid(-1,0)` changes nothing and returns 0, since ids are set only `if (euid>0)` (`sys.c:138`),
  although `sys.c:122` says that users may make the real id the effective one.
* `timer_destroy(-1)` leaves the first timer on the list (`timer.c:32`).
* A `block_write()` of a whole block never marks its buffer up to date, and the next `bread()` reads
  the old block over it (`block_dev.c:28`; `mishap` in `BufferCache`). An error of a write or a fault
  in the middle of `file_write()` loses data, too.
* `get_free_page()` can give a page out twice, when an interrupt that calls `malloc()` comes between
  its scan and its mark (`memory.c:67`; `twice` in `Memory`).
* `verify_area()` skips a page that is absent; the store then brings in a shared page, and the
  kernel writes to it in spite of its protection (`memory.c:266`).
* A message that is posted while the first post is interrupted can be lost, and the queue can be
  dead from then on (`message.c:65`; the dead queue of `Mailbox`).
* A task that finds no free request sleeps on if all requests end between its search and its sleep,
  until another task's request ends; it keeps its buffer locked, and if the others wait for that
  lock, all sleep for ever (`ll_rw_blk.c:129`; `drained` in `Blk`).
* The retry of the second sector of a partition's last block is refused, since it is tested as if
  two sectors were to come (`FailsOnlyAfterRetries` has the exception). A command whose interrupt does not come
  is waited for ever.
* Floppy: a recalibration is always for drive 1; resets, recalibrations and bytes that the
  controller refuses are not counted as errors and are tried for ever. After the last error of the last request
  the controller is still reset or recalibrated, with no `CURRENT` (`floppy.c:233-244`). A request that comes then is
  started by `add_request()`, and once more by `recal_interrupt()` when the recalibration ends (`floppy.c:343-351`): two threads of
  work await two interrupts or timers and set each other's seek and track (`overtaken` in `Floppy`, which
  marks the state in which the driver waits for the second thing).
* Names: two tasks can create one name twice; an inode can be freed between an entry's reading
  and `iget()`; a directory can be removed before a new entry goes into it, or while a task looks up its `..` and
  its parent goes too (`Race` in `FileTree`).
  `mkdir()` on a full disk frees its block twice, which is a panic (`namei.c:525`).
* Two tasks that extend one file can lose a block (`inode.c:83`); a truncation under a reader leaves
  the block allocated, or ends in a panic (`bitmap.c:61`, `:99`; `Race` in `FileBlocks`).
* `dup2(fd, fd)` closes `fd`. `getcwd()` leaves its descriptor open, so that twenty calls use all of
  them up, and keeps counts of the directories on the way; only because of these the count that it forgets to take when it
  goes back to `olddir` (`getcwd.c:157`) is not missed, as `GetcwdConsistent` shows.
* `read_pipe()` and `write_pipe()` move their pointer before they copy, and the copying may fault and
  sleep (`torn` in `Pipe`). The erase and kill characters take `head` back in the interrupt (`tty_io.c:178`,
  `:193`), over a character that a reader has fetched and for which it has not yet stored `tail` (`GETCH`, `:267`): `tail` is then
  ahead of `head` (`torn` in `Tty`).
* A reader of a terminal that has a part of a line calls `schedule()` again and again and keeps
  the processor busy; an echo to a full queue empties it; `TCFLSH` leaves the lines that are cooked.
  `getcwd()` does not test that its array has a place for another name (`getcwd.c:56`, `:92`).
* A father that has blocked SIGCHLD sleeps on in `waitpid()` although its child has ended;
  `sleep(0)` lasts until a signal comes.
* Keyboard: Pause sends Num-lock's code and toggles it; num and scroll lock toggle on auto-repeat; `func` tests
  for room with the `%ecx` of the interrupted code. Console: the escapes `7` and `8` compare the
  column and not the character; `con_write()` is entered again by the echo of a key.

## 5. Proofs

No theorem uses fairness, and each is for every value of the constants under the
assumptions that the modules declare: `NoTask` is no task and `NoOne` no end of a pipe, tasks are
finitely many, bounds are natural numbers, there is a block and more than one request, a task has a descriptor, a motor takes two ticks at least and runs on long enough, `Bytes` are bytes that include 0xFA, the arguments of
`nice()` are integers, there are more pids than tasks, a page has an object of each size. Each has the same form: an
invariant holds at the start, each action keeps it (one lemma an action), and it implies the
property. The invariants below were checked by TLC on the instances of the runs before they were proved,
but for `CatchesUp` of the keyboard and `Lists` of the allocator, which TLC cannot evaluate (they say that a function
or a sequence exists); of the latter it checks `ChainsWhole`, which says the same of the sequences that `From` finds.

* **`SleepQueueProofs`** `TypeCorrect`, `NoStranded`, `LockKept`, `TtyHead`, for any set of tasks.
  `NoStrandedSleeper` is about a set of sleepers, and is inductive only with `TmpOutside`: outside
  `sleep_on()` a task has no `tmp`. Without it the induction fails where a task enters the queue,
  as its old `tmp` would be overwritten. `QueueInv` is `TypeOK`, `TmpOutside`, `Reached` (some
  pointer from outside into every set of sleepers) and that only a held lock has a queue. A sleeper
  that enters becomes the head and its `tmp` the old head, so a set loses its pointer only if the
  new head is in it (`SleepOnReaches`); a task that is woken leaves the sleepers, and a subset of
  what was reached is reached (`ReachedWhenFewerSleep`). `LockKept` and `TtyHead` follow
  from the type invariant with one case per action.
* **`KernelProofs`**, scheduler: `QuantaBounded`, `PicksAreRight`, for any number of tasks and
  any increments. The invariant is that no quantum reaches twice the greatest priority and no
  priority reaches zero; `ReloadedBounds` shows that halving and adding the priority keeps that,
  and that a reloaded quantum is positive, so that the loop of `schedule()` needs one reload.
* **`KernelProofs`**, ids: `IdsAreKept`. The invariant is the types; that
  `setregid()` need not put its first id back is in `SetregidKeeps`.
* **`KernelProofs`**, getcwd: `GetcwdIsConsistent`, for any finite set of tasks with any roots, in any directories of which
  none is above the one that is above it. The invariant adds that a task stays below its root (`WalkIs`), so that the search finds the
  directory below by its number and takes it neither for `.` nor for `..` (`Above`, `NameIsFound`). `Ancestors` is what every
  set that has the directory and is closed under `..` has, so that no induction over the tree is needed. A step changes each number of
  users by what it changes for its task (`OneChanges`, `UsersKeep`).
* **`KernelProofs`**, user timers: `CountdownsAreRight`, for any numbers of timers, periods and nested scans. The invariant
  (`TimersInv`) says of each timer of which no tick is missed (`Kept`) how many ticks it has to go exactly, with what
  the innermost scan has in its hands (`Exact`): one more than it should if that scan has still to come to it (`Ahead`). A tick comes in a
  scan only behind the first timer (`ScansOK`), which is why the first misses none and the others may.
* **`KernelProofs`**, floppy: `FloppyIsConsistent`, for any tracks, numbers of requests and errors, and times of the motors, whatever the
  controller answers and until a request overtakes a reset (`overtaken`, section 4), if a motor that is given up runs on for longer than a seek and a transfer take (`FloppyAssumption`; in the code
  3 seconds). `Phase` is what the driver waits for, and what it has made sure of before: where it has set out for (`Aimed`), that the
  drive is selected, and for how many ticks its motor stays at speed (`Warm`) or that it gets there in time (`Warming`). `DriverOK` is
  stated of any state, one with the motors a tick behind included, because in one interrupt the driver may end a request, reset, start the
  next and then count its motors. Without the ticks that are left the induction fails where a task in `floppy_change()` gives
  the motor up that the driver uses (`OffKeeps`). `Follows` is what no step of the driver takes from a sleeper.
  `FdRight` is all of that, and the invariant is `~overtaken => FdRight`: a request that comes while the driver still resets is
  either put where the reset goes on (the controller has refused its command), or is overtaken (`RequestOvertakes`).
* **`KernelProofs`**, allocator: `AllocatorIsConsistent`, for any sizes of objects and numbers of pages and descriptors,
  whatever handlers allocate during the search of a `free_s()`. The invariant has each chain as the set of its
  descriptors: `Linked` says that some order of the set, each element once, is that of the `next` fields, and `Lists` that the
  chains and the free descriptors divide those that are made among them. That `From` is this order (`ChainIs`) is shown
  with the least place where it would not be. `PageFits`: the used objects of a page are those that are not on the list of its
  descriptor, and `refcnt` is their number. `Found`: what the search has found stays in its chain, because handlers only
  put pages in front; so the `prev` that `free_s()` ends up with is the one before (`PrevIs`).
* **`CharDeviceProofs`**, mouse: `PacketsAreUnderstood`, `MouseTypes`, for every sequence of bytes. The cursor:
  each case of `readmouse()` ends with a position cut to the screen (`NewXOnScreen`,
  `NewYOnScreen`). The packets: as long as the device has not slipped, `phase` and the driver's counter
  agree and the driver's bits are those of the packet in progress.
* **`CharDeviceProofs`**, keyboard: `KeyboardIsConsistent`, for any of the keys that `KeyboardAssumption` lists, any number of codes on the wire
  and any size of the queue. `CatchesUp`: the codes on the wire lead from the driver's modes to
  modes that fit the keys. `Leads` names the modes at each place of the wire instead of computing
  them, so no induction over the sequence is needed: a key makes the wire longer (`LeadsOn`, with a
  lemma for what each kind of key sends), an interrupt takes its first code (`LeadsTail`). In the
  queue each character is its sequence's last or is followed by the next (`Whole`).
* **`CharDeviceProofs`**, console: `ScreenIsConsistent`, for a screen, a memory and numbers of any size, on displays
  that scroll by moving the window and on those that copy. The invariant is the property and the types, of any
  cursor and memory (`InWindow`, `Inside`), because a character may wrap, scroll and be stored in one step.
  Every store is a `Fill` or a `Move` (`FillInside`, `MoveInside`) or in the cursor's line; what is
  nonlinear is in `Products` and `CursorPlace`. Lines that come or go are a recursive function, which is
  shown to exist and to stay in the invariant through a least counterexample (`Iterate`, `Stays`).
  `ConsoleImplementsScreen` is the step by step refinement of `Screen`. The sequences that `Screen` joins are shown to be functions
  of the line (`RowsAreViews`) or the column (`CharsAreViews`), and a screen is known by its cells (`SameRows`). A cell
  has one address (`SameCell`), a line's addresses come before the next line's (`CellOrder`), so each
  copy or erasure in the memory is one on the screen (`RegionCells`, `CharsInMemory`), and a
  window that moves or is copied back shows the lines one further up (`WindowCells`). Lines that go one at a time go
  together (`UpTwice`), and no more than there are. No character that comes or goes is a stutter.
* **`CharDeviceProofs`**, terminal: `LinesAreCounted`, for queues of any size, until `torn`. The invariant is the property, of any state (`Counted`),
  because an interrupt cooks and erases several characters in one step; a lemma each for
  a character that comes, that is taken or erased.
* **`BufferCacheProofs`** `CacheIsConsistent`, `UsedBufferKeepsItsBlock`, `NoWakeupIsLost` and
  `NoChangeIsLost`, for any numbers of tasks, blocks and buffers. `CacheInv` adds to the properties what
  each task relies on at each place where it may have slept (`Locals`): the buffer from
  the hash table is of the wanted block, the two buffers of `breada()` differ, only who waits in `getblk()`
  is a sleeper. Counts are the numbers of holders, so that a
  step is followed by how it changes one task's set of held buffers. `DataInv` is the second
  induction: as long as there was no `mishap`, the data of a block that are not on the disk are in its buffer, which is
  dirty or being written; it needs that the buffer of a writer that has not slept since `bread()` is not in transfer.
* **`FileProofs`**, inodes: `TableIsConsistent`, for any numbers of tasks, inodes and slots. The invariant says
  which slot each task relies on: the empty one that `iget()` has taken before it searches again,
  the one that it has locked, the one that it uses. It is stated of any table and tasks, so that what
  `iget()` does in one step (gives its empty slot up, takes the one found) is proved as two changes in a row.
* **`FileProofs`**, files: `FilesAreConsistent`, for any finite set of tasks and any numbers of descriptors and slots.
  The invariant names the descriptors that a call has taken and not finished (`HalvesOf`): each has a slot of its own
  and no mark, so that giving it up frees the slot, and nobody can have closed or copied it; `refs` counts the files
  that are not theirs. `pipe()` is two takings, two successes or two failures in a row (`TakeOne`, `FinishOne`, `AbandonOne`).
* **`FileProofs`**, names: `TreeIsConsistent`, for any finite set of tasks, any number of inodes, room in each directory and
  paths. `TreeInv` adds what a task holds at each place where it may sleep (`PlaceOf`, `HoldsOf`), that an inode not in use
  is as it was at first, that a removed directory is empty, that a directory is named where its `..` is (`ShapeOf`),
  and that a new inode has no name and no other holder than its maker until it is entered (`NewInode`, `Unreached`): without
  that a call that finds no room could free an inode that another task has linked. Two facts carry the steps: the number of holders
  changes by what one task holds (`Own`, `Balance`, `HoldersFollow`), and an entry that changes adds or takes a name of one inode
  and a subdirectory of one directory (`EntryChanges`). `iput()` is proved once, for what is still to be let go of, freed or not
  (`DropKeeps`). The proof is of the runs up to the first race that is lost (`Race`): its `..` clause was found by it, as a new
  inode can be reached that way, on trees too deep for the run.
* **`BlkProofs`** `ListIsConsistent`, `SlotWaitersAreWoken` and `FailuresHaveReasons`, for any numbers of tasks, blocks and
  requests, whatever the disk reports. `Sound` is what the list keeps: a slot and a block for each request, only the first
  tried, one turn at most. It is a lemma each for what is done to a list: the end of the first requests, a retry, an
  insertion (`LongerIsSound`; that one at the end makes no third sweep is `NoThirdSweep`: a list
  that turns and has no place for the request must end before it). `LocksOK`: a lock is a request's or a waiting
  task's. `BlkStep` follows one step for the invariant and for the reasons of a failure, which need that only the first request
  can be in its second sector.
* **`MemoryProofs`** `CountsAreRight` and `WritersAreAlone`, for any numbers of tasks, addresses and
  pages, on all paths of fork, exit, exec and page faults, those of exhausted memory
  too. A page's count is the number of the tasks that have it, each at the one address (`OneAddress`),
  or one if it is the kernel's (`Owners`: a task structure, a page table, a page in the hands of a call).
  An interrupt may take the page that `get_free_page()` has found but not marked: the pages are then
  counted as if `malloc()` did not have it, so the invariant says that *some* set of pages fits as that of `malloc()`, which
  is `heap` unless a page was given out twice. `Knows` says what a call relies on after it has slept.
* **`ProcessProofs`**, messages: `MessagesAreConsistent`, and `MessagesImplementMailbox`, the step by
  step refinement of `Mailbox`, for any number of messages and depth of interrupts. The handlers in the middle of a
  post are a stack; one at most has begun to make the list, those below it have not stored
  anything, those above are posts in one step. `EndKnown`: `rear` is at the end of the list or, for ever,
  at a message that is not on it; the first is the mailbox's FIFO, the second its dead queue.
* **`ProcessProofs`**, signals: `HandlersAreConsistent`. The first frame that has saved a mask has saved that of
  the program, and if none has, it is the one in force (`MaskKept`); a sleep has saved it, too.
* **`ProcessProofs`**, pipe: `PipeIsConsistent`, for any page size, lengths of calls and numbers of readers
  and writers. `Alone`: one task at most is between the move of a pointer and the end of its copying (as long as
  the model goes on, section 3). `Contents`: in the page lie the next bytes of the stream from `tail` to `head`, with
  those that a reader is copying and without those that a writer is. The arithmetic of the ring is in lemmas of
  its own (`TailMoves`, `HeadMoves`, `ReadLeaves`, `WriteJoins`). `NobodyForgotten` is inductive by itself: a step
  leaves nobody asleep, or leaves somebody in the kernel, or puts the only sleeper to sleep.
* **`ProcessProofs`**, tasks: `TasksAreConsistent`, for any numbers of tasks and pids, also when init may end. `TasksOK` is
  stated of any table, because `waitpid()` and `do_exit()` change two tasks in one step: every task has its own pid, and a
  father that has not begun to exit, unless that is task 1 or nobody. `ExitKeeps`: who begins to exit has given its
  children away; `ForkKeeps`: the child's father is in user mode, and its pid is nobody's, as there are more
  pids than tasks (`FreshExists`). `InitAlive` is needed only at the end, where task 1 is the father.

Only model-checked: liveness (all properties whose name says `Ends`, `Wakes`, `NobodyStarves`,
`FirstGoesOnExpiring`), which is out of this prover's reach; and
the properties of `FileBlocks`: what a file has, and what a truncation frees, is gathered there by selections and
folds over the numbers of its blocks, and the facts about those need induction over sequences.

## 6. What the models abstract

Data are abstracted to what the properties tell apart: a block is "newest" or not, or for whom it
was written; a page has no contents; a message, a byte of a pipe or a character of a key is its
number. The drawing of the cursor, `printk()`, permissions and the order of free lists are left
out. The free page that `get_free_page()` finds is the last free one, as in the code; `getblk()` may
take any of the least bad buffers. In `Memory` one page table serves the whole address space and
all tasks run one program; in `BufferCache` there is one device, and the two passes of `sync_dev()`
are one because `sync_inodes()` is left out. In `Blk` there is one partition of one disk. Waiting
for a lock is a guard where the queue does not matter, and a wakeup is of all sleepers at once.

What a single definition leaves out of the code that it stands for:

* `SleepQueue!SleepIfEmpty`: a signal is one that is not blocked. The loop of `tty_io.c:130` ends for a blocked one too,
  which there is none of in this model.
* `BufferCache!Bread` and `Sync`: `make_request()` finds a free request; the sleep for one is in `Blk`.
* `Memory!CopyPageTables` and `UnWpPage`: the pages below 1 MB, which `mem_map` does not count (`memory.c:173`, `:180`, `:227`,
  `:234`), are left out: only task 0 has them, and task 1 until it runs a program. There is one page table to copy.
* `Process!Fork`: a fork that fails for want of memory leaves what one that finds no slot leaves, so the two are one.
* `FileTable!sys_pipe`: with one slot or one descriptor left, what is taken is given back before anything sleeps
  (`pipe.c:82-96`); that nothing changes is a step that is not there.
* `FileTree!Walk`: paths do not end in a slash (`namei.c:313`, `:352`, `:424`).
* `Tty`: `TCSETSF` is a flush of what was typed; the new settings are as the old ones.

## 7. Not modelled, and why

Boot code, the build tool, the printing functions and the floating-point stub have no concurrent
state. `graphics.c` writes pixels. The game is a client and gives the inputs of `UserTimers` and
`Messages`. The ram disk copies synchronously. Of program loading, what it does to memory and files
is in `Memory` and `FileTable`; headers and arguments are data. Of the parts that are modelled
these are missing: mounting; `bread_page()` and a change of disks in
the buffer cache; the contents of pages; `lseek()`, `stat()`, `ioctl()`, flags and positions of files; process groups and
stopped tasks; VMIN, VTIME, stop characters and the conversion of output; attributes and replies of
the console; the bytes of the names in `getcwd()`, mounted directories and such as are longer than its buffer, and the
system call `getdents()`.

## 8. Plan

1. Done: all modules of section 2; theorems about wait queues, scheduler, mouse, keyboard, console, buffers, requests, inodes,
   files, memory, tasks, messages, masks, pipes, ids, `getcwd()`, user timers, the lines of a terminal, the floppy driver,
   the tree of files and the allocator.
2. Proofs: the owners of `FileBlocks`.
3. Models: the contents of pages, for the hazard at `memory.c:236`; `getblk()` with `sync_inodes()`, for the one at
   `buffer.c:235`; VMIN and VTIME.
