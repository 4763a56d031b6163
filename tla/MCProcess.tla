----------------------------- MODULE MCProcess -----------------------------
(***************************************************************************)
(* What tasks tell each other. Process with three tasks, so that a child   *)
(* can lose its father and be given to init, and four pids, so that        *)
(* last_pid wraps; beside it Signals with two handlers one inside the      *)
(* other; and Messages with five messages and up to three handlers in the  *)
(* middle of a post, so that the first post is interrupted twice; and Pipe *)
(* with two readers and two writers of a page of three bytes. Only one of  *)
(* the four runs (which): their states are not multiplied.                 *)
(***************************************************************************)
EXTENDS Process, Sequences

CONSTANTS MaxFrames, MaxPosts, MaxNest, Readers, Writers, PAGE_SIZE, MaxCount
VARIABLES
    me, frames, mask,
    msgL, list, rear, stack, posted, wild, taken, disturbed,
    head, tail, ring, open, end, running, given, got, torn,
    which

S == INSTANCE Signals
M == INSTANCE Messages
P == INSTANCE Pipe WITH taken <- got

ASSUME ConstantsAssumption ==
    S!MaxFramesAssumption /\ M!MaxPostsAssumption /\ M!MaxNestAssumption /\ P!PipeAssumption

signalVars  == <<me, frames, mask>>
messageVars == <<msgL, list, rear, stack, posted, wild, taken, disturbed>>
pipeVars    == <<head, tail, ring, open, end, running, given, got, torn>>

MCInit == Init /\ S!SignalsInit /\ M!Init /\ P!PipeInit
          /\ which \in {"tasks", "signals", "messages", "pipe"}
MCNext ==
    /\ \/ which = "tasks" /\ Next /\ UNCHANGED <<signalVars, messageVars, pipeVars>>
       \/ which = "signals" /\ S!SignalsNext /\ UNCHANGED <<vars, messageVars, pipeVars>>
       \/ which = "messages" /\ M!Next /\ UNCHANGED <<vars, signalVars, pipeVars>>
       \/ which = "pipe" /\ P!PipeNext /\ UNCHANGED <<vars, signalVars, messageVars>>
    /\ UNCHANGED which

\* Fairness is that of the one that runs.
MCSpec ==
    /\ MCInit /\ [][MCNext]_<<vars, signalVars, messageVars, pipeVars, which>>
    /\ WF_vars(which = "tasks" /\ Schedule)
    /\ \A s \in Slots : WF_vars(which = "tasks" /\ InKernel(s))
    /\ WF_signalVars(which = "signals" /\ S!Arrive("ALRM"))
    /\ WF_signalVars(which = "signals" /\ S!WakeUp)

\* Pids mean one task, also after last_pid has wrapped (fork.c), and a zombie has somebody who can
\* collect it (exit.c).
TasksConsistent == TypeOK /\ PidsUnique /\ ZombieHasFather

\* A handler's mask lasts as long as the handler (signal.c).
HandlersConsistent == S!SignalsTypeOK /\ S!MaskComesBack

\* A posted message stays on the list until it is taken, unless the first post was interrupted
\* (message.c).
MessagesConsistent == M!TypeOK /\ M!NothingLost

\* A pipe keeps its bytes in order and forgets nobody (pipe.c).
PipeConsistent == P!PipeConsistent

\* A task that waits for a child, and one that sleeps for a time, goes on (exit.c, sleep.c).
WaitsEnd == WaitEnds /\ S!SleepEnds
ImplementsMailbox == M!ImplementsMailbox
=============================================================================
