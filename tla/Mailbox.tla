------------------------------ MODULE Mailbox ------------------------------
(***************************************************************************)
(* What the message queue of kernel/message.c promises to the program that *)
(* reads it: nothing while the list is being made by the first post, and   *)
(* from then on either a strict first-in first-out queue that loses no     *)
(* message, for ever, or a dead one that accepts nothing more, for ever.   *)
(***************************************************************************)
EXTENDS Naturals, Sequences

CONSTANT Msgs

VARIABLES
    mode,      \* "starting", "working" or "dead"
    queue      \* the messages that get_message() will return, in order

Init == mode = "starting" /\ queue = <<>>

\* The first post has been made. What it leaves depends on the posts that came in its middle.
Start ==
    /\ mode = "starting"
    /\ mode'  \in {"working", "dead"}
    /\ queue' \in Seq(Msgs)

Put ==
    /\ mode = "working"
    /\ \E m \in Msgs : queue' = Append(queue, m)
    /\ UNCHANGED mode

Get ==
    /\ mode # "starting"
    /\ queue # <<>>
    /\ queue' = Tail(queue)
    /\ UNCHANGED mode

Next == Start \/ Put \/ Get

Spec == Init /\ [][Next]_<<mode, queue>>

=============================================================================
