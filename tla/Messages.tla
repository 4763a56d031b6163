------------------------------ MODULE Messages ------------------------------
(***************************************************************************)
(* The message queue of kernel/message.c. Messages are posted by interrupt *)
(* handlers, readmouse() and scan_user_timer_list(), and taken by tasks    *)
(* with sys_get_message().                                                 *)
(*                                                                         *)
(* sys_post_message() begins with cli(), but the first call has to make    *)
(* the list, and malloc() ends with sti(): the rest of the first post runs *)
(* with interrupts on and other posts may come in the middle of it, at any *)
(* of its memory accesses. Posts that find the list made are not           *)
(* interrupted and are one step. So are gets, which no post can be in the  *)
(* middle of: handlers run in kernel mode and are not preempted.           *)
(*                                                                         *)
(* MsgL->num is left out (nothing reads it), and so is post_message() from *)
(* a program (none does; the kernel would link the program's own pointer). *)
(***************************************************************************)
EXTENDS Naturals, Sequences

CONSTANTS
    MaxPosts,  \* bound: messages posted
    MaxNest    \* bound: handlers in the middle of a post at one time

MaxPostsAssumption == MaxPosts \in Nat
MaxNestAssumption == MaxNest \in Nat \ {0}

Msgs == 1 .. MaxPosts   \* messages, numbered in the order in which their post begins
HeadNode == 0               \* the list's head node; not a message

VARIABLES
    msgL,      \* the pointer MsgL: NULL, to a MsgList with raw contents, or to a list
    list,      \* the messages reached from MsgL->head->next
    rear,      \* the node MsgL->rear points to: HeadNode or a message
    stack,     \* the handlers in the middle of sys_post_message(), innermost last
    posted,    \* messages whose post has begun
    wild,      \* a post has stored through the pointers of a raw MsgList
    taken,     \* history: messages that sys_get_message() has returned
    disturbed  \* history: a handler has interrupted the first post

vars == <<msgL, list, rear, stack, posted, wild, taken, disturbed>>

Handlers == {"readmouse", "do_timer"}
Pcs      == {"post", "alloc", "init", "next", "test", "link", "rear", "null"}

TypeOK ==
    /\ msgL   \in {"null", "raw", "ready"}
    /\ list   \in Seq(Msgs)
    /\ rear   \in Msgs \cup {HeadNode}
    /\ stack  \in Seq([by : Handlers, msg : Msgs, pc : Pcs, at : Msgs \cup {HeadNode}])
    /\ Len(stack) \in 0 .. MaxNest
    /\ posted \in 0 .. MaxPosts
    /\ wild   \in BOOLEAN
    /\ taken  \in 0 .. MaxPosts
    /\ disturbed \in BOOLEAN

Init ==
    /\ msgL   = "null"
    /\ list   = <<>>
    /\ rear   = HeadNode
    /\ stack  = <<>>
    /\ posted = 0
    /\ wild   = FALSE
    /\ taken  = 0
    /\ disturbed = FALSE

-----------------------------------------------------------------------------
(* Operators on the list and on the stack of handlers. *)

Elements(l) == {l[i] : i \in DOMAIN l}

\* The list as far as its element m: the store m->next = NULL, or of another node.
UpTo(l, m) ==
    IF m \in Elements(l)
      THEN SubSeq(l, 1, CHOOSE i \in DOMAIN l : l[i] = m)
      ELSE l

\* The store at->next = m. What it does to the list depends on whether at is on the list.
Link(l, at, m) ==
    CASE at = HeadNode          -> <<m>>
      [] at \in Elements(l) -> Append(UpTo(l, at), m)
      [] OTHER              -> l

Top       == stack[Len(stack)]
Return    == stack' = SubSeq(stack, 1, Len(stack) - 1)
Goto(p)   == stack' = [stack EXCEPT ![Len(stack)].pc = p]
At(p)     == stack # <<>> /\ Top.pc = p

-----------------------------------------------------------------------------
(* Posting a message. *)

\* A handler has filled in a new message and calls sys_post_message(), over whatever handler
\* it has interrupted. The mouse's interrupt is acknowledged only at its end.
Interrupt(h) ==
    /\ posted < MaxPosts
    /\ Len(stack) < MaxNest
    /\ h = "readmouse" => \A i \in DOMAIN stack : stack[i].by # h
    /\ posted' = posted + 1
    /\ stack'  = Append(stack, [by |-> h, msg |-> posted + 1, pc |-> "post", at |-> HeadNode])
    /\ disturbed' = (disturbed \/ \E i \in DOMAIN stack : stack[i].pc # "post")
    /\ UNCHANGED <<msgL, list, rear, wild, taken>>

\* Mutated form: a message is put in front of the list.
PostInFront ==
    /\ At("post")
    /\ msgL = "ready"
    /\ list' = <<Top.msg>> \o list
    /\ rear' = IF rear = HeadNode THEN Top.msg ELSE rear
    /\ Return
    /\ UNCHANGED <<msgL, posted, wild, taken, disturbed>>

\* sys_post_message() when the list is made: cli(), append, sti().
Post ==
    /\ At("post")
    /\ msgL = "ready"
    /\ list' = Link(list, rear, Top.msg)
    /\ rear' = Top.msg
    /\ Return
    /\ UNCHANGED <<msgL, posted, wild, taken, disturbed>>

\* ... when another handler has set MsgL but not yet head and rear, which MsgList_Init()
\* overwrites later: the message is lost and the store through rear goes astray.
PostToRaw ==
    /\ At("post")
    /\ msgL = "raw"
    /\ wild' = TRUE
    /\ Return
    /\ UNCHANGED <<msgL, list, rear, posted, taken, disturbed>>

\* ... when MsgL is NULL: the list is allocated, and malloc() does sti().
PostFirst ==
    /\ At("post")
    /\ msgL = "null"
    /\ Goto("alloc")
    /\ UNCHANGED <<msgL, list, rear, posted, wild, taken, disturbed>>

\* MsgL = malloc(...), over a list that another handler may have made meanwhile.
SetMsgL ==
    /\ At("alloc")
    /\ msgL' = "raw"
    /\ list' = <<>>
    /\ rear' = HeadNode
    /\ Goto("init")
    /\ UNCHANGED <<posted, wild, taken, disturbed>>

\* MsgList_Init(): ML->head = malloc(...); ML->rear = ML->head. ML->head->next is still raw,
\* which nobody sees: a get cannot come before the end of this post.
SetHeadAndRear ==
    /\ At("init")
    /\ msgL' = "ready"
    /\ list' = <<>>
    /\ rear' = HeadNode
    /\ Goto("next")
    /\ UNCHANGED <<posted, wild, taken, disturbed>>

\* MsgList_Init(): ML->head->next = NULL.
SetHeadNext ==
    /\ At("next")
    /\ list' = <<>>
    /\ Goto("test")
    /\ UNCHANGED <<msgL, rear, posted, wild, taken, disturbed>>

\* The test MsgL->rear == MsgL->head, which chooses the node to link the message to.
TestRear ==
    /\ At("test")
    /\ stack' = [stack EXCEPT ![Len(stack)].pc = "link", ![Len(stack)].at = rear]
    /\ UNCHANGED <<msgL, list, rear, posted, wild, taken, disturbed>>

\* MsgL->head->next = msg or MsgL->rear->next = msg.
LinkMessage ==
    /\ At("link")
    /\ list' = Link(list, Top.at, Top.msg)
    /\ Goto("rear")
    /\ UNCHANGED <<msgL, rear, posted, wild, taken, disturbed>>

\* MsgL->rear = msg.
SetRear ==
    /\ At("rear")
    /\ rear' = Top.msg
    /\ Goto("null")
    /\ UNCHANGED <<msgL, list, posted, wild, taken, disturbed>>

\* msg->next = NULL, and the first post is over.
SetMessageNext ==
    /\ At("null")
    /\ list' = UpTo(list, Top.msg)
    /\ Return
    /\ UNCHANGED <<msgL, rear, posted, wild, taken, disturbed>>

-----------------------------------------------------------------------------
(* Taking a message. *)

\* Mutated form: taking the only message leaves rear where it was.
GetKeepsRear ==
    /\ stack = <<>>
    /\ msgL = "ready"
    /\ list # <<>>
    /\ list'  = Tail(list)
    /\ taken' = taken + 1
    /\ UNCHANGED <<msgL, rear, stack, posted, wild, disturbed>>

\* sys_get_message() when there is one (otherwise it returns -1 and changes nothing).
Get ==
    /\ stack = <<>>
    /\ msgL = "ready"
    /\ list # <<>>
    /\ IF rear = list[1]
         THEN rear' = HeadNode /\ list' = <<>>
         ELSE rear' = rear /\ list' = Tail(list)
    /\ taken' = taken + 1
    /\ UNCHANGED <<msgL, stack, posted, wild, disturbed>>

-----------------------------------------------------------------------------
FirstPost ==
    \/ PostFirst
    \/ SetMsgL
    \/ SetHeadAndRear
    \/ SetHeadNext
    \/ TestRear
    \/ LinkMessage
    \/ SetRear
    \/ SetMessageNext

Next ==
    \/ \E h \in Handlers : Interrupt(h)
    \/ FirstPost
    \/ PostToRaw
    \/ Post
    \/ Get

Spec == Init /\ [][Next]_vars

-----------------------------------------------------------------------------
(* Properties *)

\* The list is not made, or a handler is in the middle of making it.
Starting ==
    \/ msgL # "ready"
    \/ \E i \in DOMAIN stack : stack[i].pc # "post"

\* MsgL->rear is the end of the list that starts at MsgL->head.
Joined == rear = IF list = <<>> THEN HeadNode ELSE list[Len(list)]

\* The queue that kernel/message.c implements: cli() and sti() make posts and gets atomic
\* once the list is made, whatever handler interrupts whatever other.
AsMailbox ==
    INSTANCE Mailbox WITH
        mode  <- IF Starting THEN "starting" ELSE IF Joined THEN "working" ELSE "dead",
        queue <- IF Starting THEN <<>> ELSE list

ImplementsMailbox == AsMailbox!Spec

\* A message is lost, the queue is dead or a store goes astray only if a handler interrupted
\* the first post: otherwise every message posted has been taken, waits on a list whose end is
\* rear, or is still in the hands of its handler.
NothingLost ==
    ~Starting /\ ~disturbed =>
        /\ posted = taken + Len(list) + Len(stack)
        /\ Joined
        /\ ~wild

=============================================================================
