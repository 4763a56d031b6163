---------------------------- MODULE ProcessProofs ----------------------------
(***************************************************************************)
(* Proofs about what tasks tell each other, with the instances of          *)
(* MCProcess: the message queue, the masks of a task, a pipe, and the pids *)
(* and fathers of the tasks.                                               *)
(*                                                                         *)
(* Of the queue: no message is lost unless the first post is interrupted,  *)
(* and whatever interrupts it the queue implements Mailbox. The handlers   *)
(* in the middle of a post are a stack. One of them at most has begun to   *)
(* make the list (a maker): those below it are still in malloc() or before *)
(* their cli(), and those above it, which find MsgL set, are posts in one  *)
(* step. What they do to the list of the maker leaves rear either at the   *)
(* end of the list or at a message that is not on it, and that is for      *)
(* ever.                                                                   *)
(*                                                                         *)
(* Of the masks: what do_signal() has saved in the frame of the outermost  *)
(* handler is the mask that the program has set.                           *)
(*                                                                         *)
(* Of the pipe: one task at most is between the move of a pointer and the  *)
(* end of its copying, and the bytes between tail and head, with those     *)
(* that are being read and without those that are being written, are the   *)
(* next of the stream.                                                     *)
(*                                                                         *)
(* Of the tasks: each has a pid of its own, and a father that has not      *)
(* begun to exit unless it was given to task 1: who begins to exit has no  *)
(* child any more, and only who has not can fork.                          *)
(***************************************************************************)
EXTENDS MCProcess, FiniteSetTheorems, WellFoundedInduction, NaturalsInduction, TLAPS

Frames == [by : M!Handlers, msg : M!Msgs, pc : M!Pcs, at : M!Msgs \cup {M!HeadNode}]
Depth  == 1 .. Len(stack)

\* The places of a handler that has begun to make the list, and after its message is linked.
Making == {"init", "next", "test", "link", "rear", "null"}
Linked == {"rear", "null"}

On(l, m) == \E i \in 1 .. Len(l) : l[i] = m
Distinct(l) == \A i, j \in 1 .. Len(l) : l[i] = l[j] => i = j

QueueTypes ==
    /\ msgL \in {"null", "raw", "ready"} /\ wild \in BOOLEAN /\ disturbed \in BOOLEAN
    /\ list \in Seq(M!Msgs) /\ rear \in M!Msgs \cup {M!HeadNode}
    /\ stack \in Seq(Frames) /\ Len(stack) <= MaxNest
    /\ posted \in 0 .. MaxPosts /\ taken \in Nat

\* Every handler has its own message, and above a maker there are only posts in one step.
Stacked ==
    /\ \A i, j \in Depth : stack[i].msg = stack[j].msg => i = j
    /\ \A i \in Depth : stack[i].msg <= posted
    /\ \A i, j \in Depth : i < j /\ stack[i].pc \in Making => stack[j].pc = "post"

\* MsgL and the places of the handlers.
Made ==
    /\ msgL = "null" => \A i \in Depth : stack[i].pc \in {"post", "alloc"}
    /\ msgL = "raw" => \E i \in Depth : stack[i].pc = "init"
    /\ \A i \in Depth : stack[i].pc = "init" => msgL = "raw"
    /\ \A i \in Depth : stack[i].pc \in Making \ {"init"} => msgL = "ready"

\* The list has each message once, and none that is still to be linked.
Listed ==
    /\ Distinct(list) /\ rear <= posted
    /\ \A m \in M!Msgs : On(list, m) => m <= posted
    /\ \A i \in Depth : stack[i].pc \notin Linked => ~On(list, stack[i].msg)
    /\ \A i \in Depth : stack[i].pc # "null" => rear # stack[i].msg

\* rear is at a message that is not on the list.
Stray == rear # M!HeadNode /\ ~On(list, rear)

\* rear is at the end of the list or at a message that is not on it. Between the two stores of the
\* maker its message is at the end, or not on the list.
EndKnown ==
    /\ msgL = "ready" /\ (\A i \in Depth : stack[i].pc # "rear") => M!Joined \/ Stray
    /\ \A i \in Depth : stack[i].pc = "rear" /\ On(list, stack[i].msg) => list[Len(list)] = stack[i].msg

\* A message that has been linked is on the list although its handler has not returned.
Twofold == IF \E i \in Depth : stack[i].pc \in Linked THEN 1 ELSE 0

Counted == taken + Len(list) + Len(stack) <= posted + Twofold

\* The first post is alone as long as no handler has interrupted it.
Calm ==
    ~disturbed =>
        /\ ~wild
        /\ taken + Len(list) + Len(stack) = posted + Twofold
        /\ \A i \in Depth : i # Len(stack) => stack[i].pc = "post"
        /\ msgL = "null" \/ (\E i \in Depth : stack[i].pc \in {"alloc", "init", "next", "test", "link"}) =>
             list = <<>> /\ rear = M!HeadNode
        /\ \A i \in Depth : /\ stack[i].pc = "link" => stack[i].at = M!HeadNode
                            /\ stack[i].pc \in Linked => list = <<stack[i].msg>>
        /\ (\A i \in Depth : stack[i].pc # "rear") => M!Joined

QueueInv == QueueTypes /\ Stacked /\ Made /\ Listed /\ EndKnown /\ Counted /\ Calm

-----------------------------------------------------------------------------
(* Lists. *)

\* A message is a number above that of the head node.
LEMMA MsgsAre ==
    /\ MaxPosts \in Nat /\ MaxNest \in Nat \ {0}
    /\ \A m \in M!Msgs : m \in Nat /\ m # M!HeadNode /\ m <= MaxPosts
    /\ M!HeadNode = 0
  BY ConstantsAssumption DEF M!MaxPostsAssumption, M!MaxNestAssumption, M!Msgs, M!HeadNode

\* The elements of a list.
LEMMA ElementsAre ==
    ASSUME NEW E, NEW l \in Seq(E), NEW m
    PROVE  m \in M!Elements(l) <=> On(l, m)
  BY DEF M!Elements, On

\* A list as far as one of its elements.
LEMMA UpToIs ==
    ASSUME NEW E, NEW l \in Seq(E), NEW m
    PROVE  /\ ~On(l, m) => M!UpTo(l, m) = l
           /\ On(l, m) => \E n \in 1 .. Len(l) : l[n] = m /\ M!UpTo(l, m) = SubSeq(l, 1, n)
<1>1. CASE ~On(l, m)
  BY <1>1, ElementsAre DEF M!UpTo
<1>2. CASE On(l, m)
  <2> DEFINE n == CHOOSE i \in DOMAIN l : l[i] = m
  <2>1. n \in DOMAIN l /\ l[n] = m
    BY <1>2 DEF On
  <2>2. M!UpTo(l, m) = SubSeq(l, 1, n)
    BY <1>2, ElementsAre DEF M!UpTo
  <2>3. n \in 1 .. Len(l)
    BY <2>1
  <2> HIDE DEF n
  <2>4. QED
    BY <1>2, <2>1, <2>2, <2>3
<1>3. QED
  BY <1>1, <1>2

\* The first elements of a list.
LEMMA PrefixIs ==
    ASSUME NEW E, NEW l \in Seq(E), NEW n \in 0 .. Len(l)
    PROVE  /\ SubSeq(l, 1, n) \in Seq(E) /\ Len(SubSeq(l, 1, n)) = n
           /\ \A i \in 1 .. n : SubSeq(l, 1, n)[i] = l[i]
  OBVIOUS

\* Storing to the pointer next of a node: the list goes on with the new message after some of its
\* elements, or stays as it is.
LEMMA LinkIs ==
    ASSUME NEW l \in Seq(M!Msgs), NEW at \in M!Msgs \cup {M!HeadNode}, NEW m \in M!Msgs
    PROVE  \/ /\ M!Link(l, at, m) = l
              /\ at # M!HeadNode /\ ~On(l, at)
           \/ \E n \in 0 .. Len(l) :
                /\ M!Link(l, at, m) \in Seq(M!Msgs)
                /\ Len(M!Link(l, at, m)) = n + 1
                /\ \A i \in 1 .. n : M!Link(l, at, m)[i] = l[i]
                /\ M!Link(l, at, m)[n + 1] = m
                /\ IF at = M!HeadNode THEN n = 0 ELSE n > 0 /\ l[n] = at
<1>1. CASE at = M!HeadNode
  <2>1. at \notin M!Elements(l)
    BY <1>1, ElementsAre, MsgsAre DEF On
  <2>2. M!Link(l, at, m) = <<m>>
    BY <1>1, <2>1 DEF M!Link
  <2>3. 0 \in 0 .. Len(l) /\ <<m>> \in Seq(M!Msgs) /\ Len(<<m>>) = 0 + 1 /\ <<m>>[0 + 1] = m
    OBVIOUS
  <2>4. QED
    BY <1>1, <2>2, <2>3
<1>2. CASE at # M!HeadNode /\ ~On(l, at)
  <2>1. M!Link(l, at, m) = l
    BY <1>2, ElementsAre DEF M!Link
  <2>2. QED
    BY <1>2, <2>1
<1>3. CASE at # M!HeadNode /\ On(l, at)
  <2>1. M!Link(l, at, m) = Append(M!UpTo(l, at), m)
    BY <1>3, ElementsAre DEF M!Link
  <2>2. PICK n \in 1 .. Len(l) : l[n] = at /\ M!UpTo(l, at) = SubSeq(l, 1, n)
    BY <1>3, UpToIs
  <2> DEFINE q == SubSeq(l, 1, n)
             r == Append(q, m)
  <2>3. q \in Seq(M!Msgs) /\ Len(q) = n /\ \A i \in 1 .. n : q[i] = l[i]
    BY PrefixIs
  <2> HIDE DEF q
  <2>4. r \in Seq(M!Msgs) /\ Len(r) = n + 1 /\ r[n + 1] = m /\ \A i \in 1 .. n : r[i] = l[i]
    BY <2>3
  <2> HIDE DEF r
  <2>5. M!Link(l, at, m) = r
    BY <2>1, <2>2 DEF r, q
  <2>6. QED
    BY <1>3, <2>2, <2>4, <2>5
<1>4. QED
  BY <1>1, <1>2, <1>3

\* Storing a new message: what is on the list afterwards, and where it ends.
LinkMakes(l, at, m, r) ==
    /\ r \in Seq(M!Msgs) /\ Distinct(r) /\ Len(r) <= Len(l) + 1
    /\ \A x : On(r, x) => On(l, x) \/ x = m
    /\ \/ r = l /\ at # M!HeadNode /\ ~On(l, at)
       \/ /\ Len(r) > 0 /\ r[Len(r)] = m
          /\ \A x : On(r, x) /\ x # m /\ x # at => l[Len(l)] # x

\* What Link does to the pointers is what LinkMakes says of the list.
LEMMA LinkKeeps ==
    ASSUME NEW l \in Seq(M!Msgs), NEW at \in M!Msgs \cup {M!HeadNode}, NEW m \in M!Msgs,
           Distinct(l), ~On(l, m)
    PROVE  LinkMakes(l, at, m, M!Link(l, at, m))
<1> SUFFICES ASSUME NEW r, r = M!Link(l, at, m) PROVE LinkMakes(l, at, m, r)
  OBVIOUS
<1>1. CASE r = l /\ at # M!HeadNode /\ ~On(l, at)
  BY <1>1 DEF LinkMakes
<1>2. ASSUME NEW n \in 0 .. Len(l), r \in Seq(M!Msgs), Len(r) = n + 1, \A i \in 1 .. n : r[i] = l[i],
             r[n + 1] = m, IF at = M!HeadNode THEN n = 0 ELSE n > 0 /\ l[n] = at
      PROVE  /\ r \in Seq(M!Msgs) /\ Distinct(r) /\ Len(r) <= Len(l) + 1
             /\ \A x : On(r, x) => On(l, x) \/ x = m
             /\ Len(r) > 0 /\ r[Len(r)] = m
             /\ \A x : On(r, x) /\ x # m /\ x # at => l[Len(l)] # x
  <2>1. \A i \in 1 .. n : i \in 1 .. Len(l) /\ l[i] # m
    BY DEF On
  <2>2. \A i \in 1 .. n + 1 : i \in 1 .. n \/ i = n + 1
    OBVIOUS
  <2>3. Distinct(r)
    BY <1>2, <2>1, <2>2 DEF Distinct
  <2>4. \A x : On(r, x) /\ x # m => \E i \in 1 .. n : l[i] = x
    BY <1>2, <2>2 DEF On
  <2>5. ASSUME NEW x, On(r, x), x # m, x # at
        PROVE  l[Len(l)] # x
    <3>1. PICK i \in 1 .. n : l[i] = x
      BY <2>4, <2>5
    <3>2. n > 0 /\ l[n] = at /\ i < n /\ i < Len(l) /\ Len(l) \in 1 .. Len(l)
      BY <1>2, <2>5, <3>1
    <3>3. QED
      BY <3>1, <3>2, <2>1 DEF Distinct
  <2>6. \A x : On(r, x) => On(l, x) \/ x = m
    BY <2>1, <2>4 DEF On
  <2>7. QED
    BY <1>2, <2>3, <2>5, <2>6
<1>3. QED
  BY <1>1, <1>2, LinkIs DEF LinkMakes

\* A message that is stored after the end of the list is its new end.
LEMMA LinkAtEnd ==
    ASSUME NEW l \in Seq(M!Msgs), NEW at \in M!Msgs \cup {M!HeadNode}, NEW m \in M!Msgs, Distinct(l),
           at = IF l = <<>> THEN M!HeadNode ELSE l[Len(l)]
    PROVE  M!Link(l, at, m) = Append(l, m)
<1>1. CASE l = <<>>
  <2>1. at = M!HeadNode /\ ~On(l, at)
    BY <1>1 DEF On
  <2>2. at \notin M!Elements(l)
    BY <2>1, ElementsAre
  <2>3. M!Link(l, at, m) = <<m>>
    BY <2>1, <2>2 DEF M!Link
  <2>4. QED
    BY <1>1, <2>3
<1>2. CASE l # <<>>
  <2>1. Len(l) \in 1 .. Len(l) /\ at = l[Len(l)]
    BY <1>2
  <2>2. at \in M!Msgs /\ On(l, at)
    BY <2>1 DEF On
  <2>3. at # M!HeadNode /\ at \in M!Elements(l)
    BY <2>2, MsgsAre, ElementsAre
  <2>4. M!Link(l, at, m) = Append(M!UpTo(l, at), m)
    BY <2>3 DEF M!Link
  <2>5. PICK n \in 1 .. Len(l) : l[n] = at /\ M!UpTo(l, at) = SubSeq(l, 1, n)
    BY <2>2, UpToIs
  <2>6. n = Len(l)
    BY <2>1, <2>5 DEF Distinct
  <2>7. SubSeq(l, 1, n) = l
    BY <2>6
  <2>8. QED
    BY <2>4, <2>5, <2>7
<1>3. QED
  BY <1>1, <1>2

\* Ending the list at one of its elements.
LEMMA UpToKeeps ==
    ASSUME NEW l \in Seq(M!Msgs), NEW m \in M!Msgs, Distinct(l), NEW r, r = M!UpTo(l, m)
    PROVE  /\ r \in Seq(M!Msgs) /\ Distinct(r) /\ Len(r) <= Len(l)
           /\ \A x : On(r, x) => On(l, x)
           /\ \/ r = l
              \/ Len(l) > 0 /\ ~On(r, l[Len(l)])
<1>1. CASE ~On(l, m)
  BY <1>1, UpToIs
<1>2. ASSUME NEW n \in 1 .. Len(l), r = SubSeq(l, 1, n)
      PROVE  /\ r \in Seq(M!Msgs) /\ Distinct(r) /\ Len(r) <= Len(l)
             /\ \A x : On(r, x) => On(l, x)
             /\ \/ r = l
                \/ Len(l) > 0 /\ ~On(r, l[Len(l)])
  <2>1. r \in Seq(M!Msgs) /\ Len(r) = n /\ \A i \in 1 .. n : r[i] = l[i]
    BY <1>2, PrefixIs
  <2>2. \A i \in 1 .. n : i \in 1 .. Len(l)
    OBVIOUS
  <2>3. Distinct(r) /\ \A x : On(r, x) => On(l, x)
    BY <2>1, <2>2 DEF Distinct, On
  <2>4. CASE n = Len(l)
    <3>1. r = l
      BY <1>2, <2>4
    <3>2. QED
      BY <2>1, <2>3, <3>1
  <2>5. CASE n # Len(l)
    <3>1. Len(l) \in 1 .. Len(l) /\ n < Len(l)
      BY <2>5
    <3>2. ~On(r, l[Len(l)])
      BY <2>1, <2>2, <3>1 DEF On, Distinct
    <3>3. QED
      BY <2>1, <2>3, <3>1, <3>2
  <2>6. QED
    BY <2>4, <2>5
<1>3. QED
  BY <1>1, <1>2, UpToIs

\* Taking the first element of a list.
LEMMA TailIs ==
    ASSUME NEW l \in Seq(M!Msgs), l # <<>>, Distinct(l), NEW r, r = Tail(l)
    PROVE  /\ r \in Seq(M!Msgs) /\ Distinct(r) /\ Len(r) = Len(l) - 1 /\ Len(l) \in Nat \ {0}
           /\ \A x : On(r, x) => On(l, x)
           /\ Len(r) > 0 => r[Len(r)] = l[Len(l)]
<1>1. r \in Seq(M!Msgs) /\ Len(r) = Len(l) - 1 /\ Len(l) \in Nat \ {0}
  OBVIOUS
<1>2. \A i \in 1 .. Len(r) : r[i] = l[i + 1] /\ i + 1 \in 1 .. Len(l)
  BY <1>1
<1>3. Distinct(r) /\ \A x : On(r, x) => On(l, x)
  BY <1>1, <1>2 DEF Distinct, On
<1>4. Len(r) > 0 => r[Len(r)] = l[Len(l)]
  BY <1>1, <1>2
<1>5. QED
  BY <1>1, <1>3, <1>4

-----------------------------------------------------------------------------
(* The stack of handlers. *)

\* The handler that runs.
LEMMA TopIs ==
    ASSUME QueueTypes, NEW p, M!At(p)
    PROVE  /\ Len(stack) \in Nat \ {0} /\ Len(stack) \in Depth /\ M!Top = stack[Len(stack)]
           /\ stack[Len(stack)].pc = p /\ stack[Len(stack)].msg \in M!Msgs
           /\ stack[Len(stack)].at \in M!Msgs \cup {M!HeadNode}
           /\ \A i \in Depth : stack[i].msg \in M!Msgs
<1>1. stack \in Seq(Frames) /\ stack # <<>> /\ stack[Len(stack)].pc = p
  BY DEF QueueTypes, M!At, M!Top
<1>2. Len(stack) \in Nat \ {0}
  BY <1>1
<1>3. \A i \in Depth : stack[i] \in Frames
  BY <1>1 DEF Depth
<1>4. \A i \in Depth : stack[i].msg \in M!Msgs /\ stack[i].at \in M!Msgs \cup {M!HeadNode}
  BY <1>3 DEF Frames
<1>5. Len(stack) \in Depth
  BY <1>2 DEF Depth
<1>6. QED
  BY <1>1, <1>2, <1>4, <1>5 DEF M!Top

\* Below a handler that is not before its cli() there is no maker.
LEMMA NoneBelow ==
    ASSUME QueueTypes, Stacked, NEW p, M!At(p), p # "post"
    PROVE  \A i \in Depth : i # Len(stack) => stack[i].pc \notin Making
<1>1. Len(stack) \in Depth /\ stack[Len(stack)].pc = p
  BY TopIs
<1>2. \A i \in Depth : i # Len(stack) => i < Len(stack)
  BY <1>1 DEF Depth
<1>3. QED
  BY <1>1, <1>2 DEF Stacked

\* A handler returns to the one it has interrupted.
LEMMA ReturnIs ==
    ASSUME QueueTypes, NEW p, M!At(p), M!Return
    PROVE  /\ stack' \in Seq(Frames) /\ Len(stack') = Len(stack) - 1
           /\ Depth' = Depth \ {Len(stack)}
           /\ \A i \in Depth' : stack'[i] = stack[i]
<1>1. stack \in Seq(Frames) /\ Len(stack) \in Nat \ {0}
  BY TopIs DEF QueueTypes
<1>2. PICK n \in 0 .. Len(stack) : n = Len(stack) - 1
  BY <1>1
<1>3. stack' = SubSeq(stack, 1, n)
  BY <1>2 DEF M!Return
<1>4. /\ SubSeq(stack, 1, n) \in Seq(Frames) /\ Len(SubSeq(stack, 1, n)) = n
      /\ \A i \in 1 .. n : SubSeq(stack, 1, n)[i] = stack[i]
  BY <1>1, PrefixIs
<1>5. stack' \in Seq(Frames) /\ Len(stack') = n /\ \A i \in 1 .. n : stack'[i] = stack[i]
  BY <1>3, <1>4
<1>6. QED
  BY <1>1, <1>2, <1>5 DEF Depth

\* A handler goes on to its next step, perhaps with a node it has read.
LEMMA GotoIs ==
    ASSUME QueueTypes, NEW p, M!At(p), NEW q \in M!Pcs,
           \/ M!Goto(q)
           \/ \E a \in M!Msgs \cup {M!HeadNode} :
                 stack' = [stack EXCEPT ![Len(stack)].pc = q, ![Len(stack)].at = a]
    PROVE  /\ stack' \in Seq(Frames) /\ Len(stack') = Len(stack) /\ Depth' = Depth
           /\ \A i \in Depth : i # Len(stack) => stack'[i] = stack[i]
           /\ \A i \in Depth : stack'[i].msg = stack[i].msg
           /\ stack'[Len(stack)].pc = q
           /\ M!Goto(q) => \A i \in Depth : stack'[i].at = stack[i].at
<1>1. stack \in Seq(Frames) /\ Len(stack) \in 1 .. Len(stack)
  BY TopIs DEF QueueTypes
<1>2. \A i \in 1 .. Len(stack) : stack[i] \in Frames
  BY <1>1
<1>3. CASE M!Goto(q)
  <2>1. PICK f : f = [stack[Len(stack)] EXCEPT !.pc = q]
    OBVIOUS
  <2>2. stack' = [stack EXCEPT ![Len(stack)] = f]
    BY <1>3, <2>1 DEF M!Goto
  <2>3. f \in Frames /\ f.pc = q /\ f.msg = stack[Len(stack)].msg /\ f.at = stack[Len(stack)].at
    BY <1>1, <1>2, <2>1 DEF Frames
  <2>4. /\ stack' \in Seq(Frames) /\ Len(stack') = Len(stack) /\ stack'[Len(stack)] = f
        /\ \A i \in 1 .. Len(stack) : i # Len(stack) => stack'[i] = stack[i]
    BY <1>1, <2>2, <2>3
  <2>5. QED
    BY <2>3, <2>4 DEF Depth
<1>4. CASE ~M!Goto(q)
  <2>1. PICK a \in M!Msgs \cup {M!HeadNode} :
               stack' = [stack EXCEPT ![Len(stack)].pc = q, ![Len(stack)].at = a]
    BY <1>4
  <2>2. PICK f : f = [stack[Len(stack)] EXCEPT !.pc = q, !.at = a]
    OBVIOUS
  <2>3. stack' = [stack EXCEPT ![Len(stack)] = f]
    BY <1>1, <2>1, <2>2
  <2>4. f \in Frames /\ f.pc = q /\ f.msg = stack[Len(stack)].msg
    BY <1>1, <1>2, <2>2 DEF Frames
  <2>5. /\ stack' \in Seq(Frames) /\ Len(stack') = Len(stack) /\ stack'[Len(stack)] = f
        /\ \A i \in 1 .. Len(stack) : i # Len(stack) => stack'[i] = stack[i]
    BY <1>1, <2>3, <2>4
  <2>6. QED
    BY <1>4, <2>4, <2>5 DEF Depth
<1>5. QED
  BY <1>3, <1>4

-----------------------------------------------------------------------------
(* Every step keeps QueueInv. *)

\* The start has no handlers and no list.
LEMMA QueueInit == M!Init => QueueInv
<1> SUFFICES ASSUME M!Init PROVE QueueInv
  OBVIOUS
<1>1. /\ msgL = "null" /\ list = <<>> /\ rear = M!HeadNode /\ stack = <<>> /\ posted = 0
      /\ wild = FALSE /\ taken = 0 /\ disturbed = FALSE
  BY DEF M!Init
<1>2. Len(list) = 0 /\ Len(stack) = 0 /\ Depth = {}
  BY <1>1 DEF Depth
<1>3. QueueTypes
  <2>1. list \in Seq(M!Msgs) /\ stack \in Seq(Frames)
    BY <1>1
  <2>2. wild \in BOOLEAN /\ disturbed \in BOOLEAN
    BY <1>1
  <2>3. posted \in 0 .. MaxPosts /\ taken \in Nat /\ Len(stack) <= MaxNest
    BY <1>1, <1>2, MsgsAre
  <2>4. QED
    BY <1>1, <2>1, <2>2, <2>3 DEF QueueTypes
<1>4. Stacked /\ Made
  BY <1>1, <1>2 DEF Stacked, Made
<1>5. Listed /\ EndKnown
  BY <1>1, <1>2, MsgsAre DEF Listed, EndKnown, Distinct, On
<1>6. Counted /\ Calm
  BY <1>1, <1>2 DEF Counted, Calm, Twofold, M!Joined
<1>7. QED
  BY <1>3, <1>4, <1>5, <1>6 DEF QueueInv

\* Another post begins: its message is newer than any on the list.
LEMMA InterruptKeeps ==
    ASSUME QueueInv, NEW h \in M!Handlers, M!Interrupt(h)
    PROVE  QueueInv'
<1> USE DEF QueueInv
<1>1. PICK f : f = [by |-> h, msg |-> posted + 1, pc |-> "post", at |-> M!HeadNode]
  OBVIOUS
<1>2. /\ posted < MaxPosts /\ Len(stack) < MaxNest /\ posted' = posted + 1 /\ stack' = Append(stack, f)
      /\ disturbed' = (disturbed \/ \E i \in DOMAIN stack : stack[i].pc # "post")
      /\ msgL' = msgL /\ list' = list /\ rear' = rear /\ wild' = wild /\ taken' = taken
  BY <1>1 DEF M!Interrupt
<1>3. stack \in Seq(Frames) /\ posted \in Nat /\ posted + 1 \in M!Msgs
  BY <1>2, MsgsAre DEF QueueTypes, M!Msgs
<1>4. f \in Frames /\ f.msg = posted + 1 /\ f.pc = "post"
  BY <1>1, <1>3 DEF Frames, M!Pcs
<1>5. /\ stack' \in Seq(Frames) /\ Len(stack') = Len(stack) + 1 /\ stack'[Len(stack) + 1] = f
      /\ \A i \in 1 .. Len(stack) : stack'[i] = stack[i]
  BY <1>2, <1>3, <1>4
<1>6. /\ Depth' = Depth \cup {Len(stack) + 1} /\ Len(stack) + 1 \notin Depth
      /\ \A i \in Depth : stack'[i] = stack[i] /\ i < Len(stack) + 1
      /\ DOMAIN stack = Depth
  BY <1>3, <1>5 DEF Depth
<1>7. QueueTypes'
  BY <1>2, <1>3, <1>5, MsgsAre DEF QueueTypes
<1>8. \A i \in Depth : stack[i] \in Frames /\ i \in Nat
  BY <1>3 DEF Depth
<1>9. \A i \in Depth : stack[i].msg \in Nat /\ stack[i].msg <= posted
  BY <1>8, MsgsAre DEF Frames, Stacked
<1>10. Stacked'
  <2>1. \A i, j \in Depth' : stack'[i].msg = stack'[j].msg => i = j
    BY <1>3, <1>4, <1>5, <1>6, <1>9 DEF Stacked
  <2>2. \A i \in Depth' : stack'[i].msg <= posted'
    BY <1>2, <1>3, <1>4, <1>5, <1>6, <1>9
  <2>3. \A i, j \in Depth' : i < j /\ stack'[i].pc \in Making => stack'[j].pc = "post"
    BY <1>3, <1>4, <1>5, <1>6, <1>8 DEF Stacked, Making
  <2>4. QED
    BY <2>1, <2>2, <2>3 DEF Stacked
<1>11. Made'
  BY <1>2, <1>4, <1>5, <1>6 DEF Made, Making
<1>12. rear \in Nat /\ \A m : On(list, m) => m \in Nat
  BY MsgsAre DEF QueueTypes, On
<1>13. Listed'
  <2>1. Distinct(list)' /\ rear' <= posted' /\ \A m \in M!Msgs : On(list', m) => m <= posted'
    BY <1>2, <1>3, <1>12, MsgsAre DEF Listed, Distinct
  <2>2. \A i \in Depth' : stack'[i].pc \notin Linked => ~On(list', stack'[i].msg)
    BY <1>2, <1>3, <1>4, <1>5, <1>6 DEF Listed
  <2>3. \A i \in Depth' : stack'[i].pc # "null" => rear' # stack'[i].msg
    BY <1>2, <1>3, <1>4, <1>5, <1>6, <1>12 DEF Listed
  <2>4. QED
    BY <2>1, <2>2, <2>3 DEF Listed
<1>14. EndKnown'
  BY <1>2, <1>4, <1>5, <1>6 DEF EndKnown, M!Joined, Stray, On
<1>15. Twofold' = Twofold
  BY <1>4, <1>5, <1>6 DEF Twofold, Linked
<1>16. Len(list) \in Nat /\ Len(stack) \in Nat /\ taken \in Nat /\ Twofold \in {0, 1}
  BY DEF QueueTypes, Twofold
<1>17. Counted'
  BY <1>2, <1>3, <1>5, <1>15, <1>16 DEF Counted
<1>18. Calm'
  <2> SUFFICES ASSUME ~disturbed' PROVE Calm'
    BY DEF Calm
  <2>1. ~disturbed /\ \A i \in Depth : stack[i].pc = "post"
    BY <1>2, <1>6
  <2>2. \A i \in Depth' : stack'[i].pc = "post"
    BY <1>4, <1>5, <1>6, <2>1
  <2>3. taken' + Len(list') + Len(stack') = posted' + Twofold'
    BY <1>2, <1>3, <1>5, <1>15, <1>16, <2>1 DEF Calm
  <2>4. (M!Joined /\ ~wild /\ (msgL = "null" => list = <<>> /\ rear = M!HeadNode))'
    BY <1>2, <2>1 DEF Calm, M!Joined
  <2>5. QED
    BY <2>2, <2>3, <2>4 DEF Calm, Linked
<1>19. QED
  BY <1>7, <1>10, <1>11, <1>13, <1>14, <1>17, <1>18

\* What the proofs of the steps of the handler that runs have in common.
LEMMA NumbersAre ==
    ASSUME QueueTypes
    PROVE  /\ Len(list) \in Nat /\ Len(stack) \in Nat /\ taken \in Nat /\ posted \in Nat
           /\ Twofold \in {0, 1} /\ rear \in Nat /\ list \in Seq(M!Msgs)
           /\ rear \in M!Msgs \cup {M!HeadNode}
           /\ \A m : On(list, m) => m \in M!Msgs
  BY MsgsAre DEF QueueTypes, Twofold, On

\* A post in one step appends its message, or leaves the list alone and rear at a message that is
\* not on it.
LEMMA PostKeeps ==
    ASSUME QueueInv, M!Post
    PROVE  QueueInv'
<1> USE DEF QueueInv
<1>1. M!At("post") /\ msgL = "ready" /\ M!Return
  BY DEF M!Post
<1>2. PICK n, m : n = Len(stack) /\ m = stack[n].msg
  OBVIOUS
<1>3. /\ n \in Nat \ {0} /\ n \in Depth /\ stack[n].pc = "post" /\ m \in M!Msgs
      /\ \A i \in Depth : stack[i].msg \in M!Msgs
  BY <1>1, <1>2, TopIs
<1>4. /\ list' = M!Link(list, rear, m) /\ rear' = m
      /\ msgL' = msgL /\ posted' = posted /\ wild' = wild /\ taken' = taken /\ disturbed' = disturbed
  BY <1>1, <1>2, TopIs DEF M!Post
<1>5. /\ stack' \in Seq(Frames) /\ Len(stack') = n - 1 /\ Depth' = Depth \ {n}
      /\ \A i \in Depth' : stack'[i] = stack[i]
  BY <1>1, <1>2, ReturnIs
<1>6. /\ Len(list) \in Nat /\ taken \in Nat /\ posted \in Nat /\ Twofold \in {0, 1} /\ list \in Seq(M!Msgs)
      /\ rear \in M!Msgs \cup {M!HeadNode}
  BY NumbersAre
<1>7. ~On(list, m) /\ m <= posted /\ Distinct(list)
  BY <1>2, <1>3 DEF Listed, Linked, Stacked
<1>8. /\ list' \in Seq(M!Msgs) /\ Distinct(list') /\ Len(list') <= Len(list) + 1
      /\ \A x : On(list', x) => On(list, x) \/ x = m
      /\ \/ list' = list /\ rear # M!HeadNode /\ ~On(list, rear)
         \/ /\ Len(list') > 0 /\ list'[Len(list')] = m
            /\ \A x : On(list', x) /\ x # m /\ x # rear => list[Len(list)] # x
  <2>1. LinkMakes(list, rear, m, M!Link(list, rear, m))
    BY <1>3, <1>6, <1>7, LinkKeeps
  <2>2. LinkMakes(list, rear, m, list')
    BY <1>4, <2>1
  <2>3. QED
    BY <2>2 DEF LinkMakes
<1>9. QueueTypes'
  BY <1>2, <1>3, <1>4, <1>5, <1>8, MsgsAre DEF QueueTypes
<1>10. Stacked' /\ Made'
  <2>1. Stacked'
    BY <1>4, <1>5 DEF Stacked
  <2>2. Made'
    BY <1>1, <1>4, <1>5 DEF Made
  <2>3. QED
    BY <2>1, <2>2
<1>11. \A i \in Depth' : stack'[i].msg # m /\ stack'[i].msg \in M!Msgs
  BY <1>2, <1>3, <1>5 DEF Stacked
<1>12. Listed'
  <2>1. \A x \in M!Msgs : On(list', x) => x <= posted'
    BY <1>4, <1>7, <1>8 DEF Listed
  <2>2. \A i \in Depth' : stack'[i].pc \notin Linked => ~On(list', stack'[i].msg)
    BY <1>5, <1>8, <1>11 DEF Listed
  <2>3. QED
    BY <1>4, <1>7, <1>8, <1>11, <2>1, <2>2 DEF Listed
<1>13. EndKnown'
  <2>1. M!Joined' \/ Stray'
    <3>1. CASE list' = list
      BY <1>3, <1>4, <1>7, <3>1, MsgsAre DEF Stray
    <3>2. CASE Len(list') > 0 /\ list'[Len(list')] = m
      <4>1. list' # <<>>
        BY <1>8, <3>2
      <4>2. QED
        BY <1>4, <3>2, <4>1 DEF M!Joined
    <3>3. QED
      BY <1>8, <3>1, <3>2
  <2>2. ASSUME NEW i \in Depth', stack'[i].pc = "rear", On(list', stack'[i].msg)
        PROVE  list'[Len(list')] = stack'[i].msg
    <3>1. PICK x : x = stack[i].msg
      OBVIOUS
    <3>2. i \in Depth /\ stack[i].pc = "rear" /\ On(list', x) /\ x # m /\ stack'[i].msg = x
      BY <1>5, <1>11, <2>2, <3>1
    <3>3. list[Len(list)] = x /\ rear # x
      BY <1>8, <3>1, <3>2 DEF EndKnown, Listed
    <3>4. QED
      BY <1>8, <3>2, <3>3
  <2>3. QED
    BY <2>1, <2>2 DEF EndKnown
<1>14. Twofold' = Twofold
  BY <1>3, <1>5 DEF Twofold, Linked
<1>15. Counted'
  BY <1>2, <1>3, <1>4, <1>5, <1>6, <1>8, <1>14 DEF Counted, QueueTypes
<1>16. Calm'
  <2> SUFFICES ASSUME ~disturbed' PROVE Calm'
    BY DEF Calm
  <2>1. ~disturbed /\ \A i \in Depth : stack[i].pc = "post"
    BY <1>2, <1>3, <1>4 DEF Calm
  <2>2. M!Joined
    BY <2>1 DEF Calm
  <2>3. list' = Append(list, m)
    BY <1>3, <1>4, <1>6, <1>7, <2>2, LinkAtEnd DEF M!Joined
  <2>4. Len(list') = Len(list) + 1 /\ list'[Len(list')] = m /\ list' # <<>>
    BY <1>3, <1>6, <2>3
  <2>5. taken' + Len(list') + Len(stack') = posted' + Twofold'
    BY <1>2, <1>3, <1>4, <1>5, <1>6, <1>14, <2>1, <2>4 DEF Calm
  <2>6. M!Joined'
    BY <1>4, <2>4 DEF M!Joined
  <2>7. \A i \in Depth' : stack'[i].pc = "post"
    BY <1>5, <2>1
  <2>8. ~wild' /\ msgL' # "null"
    BY <1>1, <1>4, <2>1 DEF Calm
  <2>9. QED
    BY <2>5, <2>6, <2>7, <2>8 DEF Calm, Linked
<1>17. QED
  BY <1>9, <1>10, <1>12, <1>13, <1>15, <1>16

\* A post to a raw list happens only when the maker has been interrupted.
LEMMA PostToRawKeeps ==
    ASSUME QueueInv, M!PostToRaw
    PROVE  QueueInv'
<1> USE DEF QueueInv
<1>1. M!At("post") /\ msgL = "raw" /\ M!Return
  BY DEF M!PostToRaw
<1>2. PICK n : n = Len(stack)
  OBVIOUS
<1>3. n \in Nat \ {0} /\ n \in Depth /\ stack[n].pc = "post"
  BY <1>1, <1>2, TopIs
<1>4. /\ wild' = TRUE /\ list' = list /\ rear' = rear
      /\ msgL' = msgL /\ posted' = posted /\ taken' = taken /\ disturbed' = disturbed
  BY DEF M!PostToRaw
<1>5. /\ stack' \in Seq(Frames) /\ Len(stack') = n - 1 /\ Depth' = Depth \ {n}
      /\ \A i \in Depth' : stack'[i] = stack[i]
  BY <1>1, <1>2, ReturnIs
<1>6. Len(list) \in Nat /\ taken \in Nat /\ posted \in Nat /\ Twofold \in {0, 1}
  BY NumbersAre
<1>7. QueueTypes'
  BY <1>2, <1>3, <1>4, <1>5, MsgsAre DEF QueueTypes
<1>8. Stacked'
  BY <1>4, <1>5 DEF Stacked
<1>9. Made'
  BY <1>1, <1>3, <1>4, <1>5 DEF Made
<1>10. Listed'
  BY <1>4, <1>5 DEF Listed
<1>11. EndKnown'
  BY <1>1, <1>4, <1>5 DEF EndKnown, Made, Making
<1>12. Twofold' = Twofold
  BY <1>3, <1>5 DEF Twofold, Linked
<1>13. Counted'
  BY <1>2, <1>3, <1>4, <1>5, <1>6, <1>12 DEF Counted
<1>14. disturbed
  BY <1>1, <1>2, <1>3 DEF Made, Calm
<1>15. Calm'
  BY <1>4, <1>14 DEF Calm
<1>16. QED
  BY <1>7, <1>8, <1>9, <1>10, <1>11, <1>13, <1>15

\* The first post finds no list.
LEMMA PostFirstKeeps ==
    ASSUME QueueInv, M!PostFirst
    PROVE  QueueInv'
<1> USE DEF QueueInv
<1>1. M!At("post") /\ msgL = "null" /\ M!Goto("alloc") /\ "alloc" \in M!Pcs
  BY DEF M!PostFirst, M!Pcs
<1>2. PICK n : n = Len(stack)
  OBVIOUS
<1>3. n \in Nat \ {0} /\ n \in Depth /\ stack[n].pc = "post"
  BY <1>1, <1>2, TopIs
<1>4. /\ msgL' = msgL /\ list' = list /\ rear' = rear
      /\ posted' = posted /\ wild' = wild /\ taken' = taken /\ disturbed' = disturbed
  BY DEF M!PostFirst
<1>5. /\ stack' \in Seq(Frames) /\ Len(stack') = n /\ Depth' = Depth
      /\ \A i \in Depth : i # n => stack'[i] = stack[i]
      /\ \A i \in Depth : stack'[i].msg = stack[i].msg
      /\ stack'[n].pc = "alloc"
  BY <1>1, <1>2, GotoIs
<1>6. QueueTypes'
  BY <1>2, <1>4, <1>5 DEF QueueTypes
<1>7. \A i \in Depth : stack[i].pc \in {"post", "alloc"}
  BY <1>1 DEF Made
<1>8. \A i \in Depth : stack'[i].pc \in {"post", "alloc"}
  BY <1>5, <1>7
<1>9. Stacked' /\ Made'
  BY <1>1, <1>4, <1>5, <1>8 DEF Stacked, Made, Making
<1>10. Listed'
  BY <1>4, <1>5, <1>7 DEF Listed, Linked
<1>11. EndKnown'
  BY <1>1, <1>4, <1>5, <1>8 DEF EndKnown
<1>12. Twofold' = Twofold
  BY <1>5, <1>7, <1>8 DEF Twofold, Linked
<1>13. Counted'
  BY <1>2, <1>4, <1>5, <1>12 DEF Counted
<1>14. Calm'
  <2> SUFFICES ASSUME ~disturbed' PROVE Calm'
    BY DEF Calm
  <2>1. ~disturbed /\ list = <<>> /\ rear = M!HeadNode /\ M!Joined
    BY <1>1, <1>4, <1>7 DEF Calm
  <2>2. taken' + Len(list') + Len(stack') = posted' + Twofold'
    BY <1>2, <1>4, <1>5, <1>12, <2>1 DEF Calm
  <2>3. \A i \in Depth' : i # Len(stack') => stack'[i].pc = "post"
    BY <1>2, <1>4, <1>5, <2>1 DEF Calm
  <2>4. ~wild' /\ list' = <<>> /\ rear' = M!HeadNode /\ M!Joined'
    BY <1>4, <2>1 DEF Calm, M!Joined
  <2>5. QED
    BY <1>5, <1>8, <2>2, <2>3, <2>4 DEF Calm, Linked
<1>15. QED
  BY <1>6, <1>9, <1>10, <1>11, <1>13, <1>14

\* The maker stores MsgL: what it points to is raw.
LEMMA SetMsgLKeeps ==
    ASSUME QueueInv, M!SetMsgL
    PROVE  QueueInv'
<1> USE DEF QueueInv
<1>1. M!At("alloc") /\ M!Goto("init") /\ "init" \in M!Pcs
  BY DEF M!SetMsgL, M!Pcs
<1>2. PICK n : n = Len(stack)
  OBVIOUS
<1>3. n \in Nat \ {0} /\ n \in Depth /\ stack[n].pc = "alloc" /\ \A i \in Depth : stack[i].msg \in M!Msgs
  BY <1>1, <1>2, TopIs
<1>4. /\ msgL' = "raw" /\ list' = <<>> /\ rear' = M!HeadNode
      /\ posted' = posted /\ wild' = wild /\ taken' = taken /\ disturbed' = disturbed
  BY DEF M!SetMsgL
<1>5. /\ stack' \in Seq(Frames) /\ Len(stack') = n /\ Depth' = Depth
      /\ \A i \in Depth : i # n => stack'[i] = stack[i]
      /\ \A i \in Depth : stack'[i].msg = stack[i].msg
      /\ stack'[n].pc = "init"
  BY <1>1, <1>2, GotoIs
<1>6. \A i \in Depth : i # n => stack[i].pc \notin Making
  BY <1>1, <1>2, NoneBelow
<1>7. QueueTypes'
  BY <1>2, <1>4, <1>5 DEF QueueTypes
<1>8. Stacked'
  <2>1. \A i, j \in Depth : i < j => i # n
    BY <1>2, <1>3 DEF Depth
  <2>2. QED
    BY <1>4, <1>5, <1>6, <2>1 DEF Stacked
<1>9. Made'
  BY <1>3, <1>4, <1>5, <1>6 DEF Made, Making
<1>10. /\ Len(list) \in Nat /\ taken \in Nat /\ posted \in Nat /\ Twofold \in {0, 1}
       /\ Len(list') = 0 /\ \A x : ~On(list', x)
  BY <1>4, NumbersAre DEF On
<1>11. Listed'
  BY <1>3, <1>4, <1>5, <1>10, MsgsAre DEF Listed, Distinct
<1>12. EndKnown'
  BY <1>4, <1>10 DEF EndKnown
<1>13. Twofold' = Twofold
  BY <1>3, <1>5 DEF Twofold, Linked
<1>14. Counted'
  BY <1>2, <1>3, <1>4, <1>5, <1>10, <1>13 DEF Counted
<1>15. Calm'
  <2> SUFFICES ASSUME ~disturbed' PROVE Calm'
    BY DEF Calm
  <2>1. ~disturbed /\ list = <<>> /\ \A i \in Depth : i # n => stack[i].pc = "post"
    BY <1>2, <1>3, <1>4 DEF Calm
  <2>2. taken' + Len(list') + Len(stack') = posted' + Twofold'
    BY <1>2, <1>4, <1>5, <1>13, <2>1 DEF Calm
  <2>3. \A i \in Depth' : i # Len(stack') => stack'[i].pc = "post"
    BY <1>5, <2>1
  <2>4. ~wild' /\ M!Joined'
    BY <1>4, <2>1 DEF Calm, M!Joined
  <2>5. \A i \in Depth' : stack'[i].pc \in {"post", "init"}
    BY <1>5, <2>1
  <2>6. QED
    BY <1>4, <2>2, <2>3, <2>4, <2>5 DEF Calm, Linked
<1>16. QED
  BY <1>7, <1>8, <1>9, <1>11, <1>12, <1>14, <1>15

\* The maker stores head and rear: the list is empty.
LEMMA SetHeadAndRearKeeps ==
    ASSUME QueueInv, M!SetHeadAndRear
    PROVE  QueueInv'
<1> USE DEF QueueInv
<1>1. M!At("init") /\ M!Goto("next") /\ "next" \in M!Pcs
  BY DEF M!SetHeadAndRear, M!Pcs
<1>2. PICK n : n = Len(stack)
  OBVIOUS
<1>3. n \in Nat \ {0} /\ n \in Depth /\ stack[n].pc = "init" /\ \A i \in Depth : stack[i].msg \in M!Msgs
  BY <1>1, <1>2, TopIs
<1>4. /\ msgL' = "ready" /\ list' = <<>> /\ rear' = M!HeadNode
      /\ posted' = posted /\ wild' = wild /\ taken' = taken /\ disturbed' = disturbed
  BY DEF M!SetHeadAndRear
<1>5. /\ stack' \in Seq(Frames) /\ Len(stack') = n /\ Depth' = Depth
      /\ \A i \in Depth : i # n => stack'[i] = stack[i]
      /\ \A i \in Depth : stack'[i].msg = stack[i].msg
      /\ stack'[n].pc = "next"
  BY <1>1, <1>2, GotoIs
<1>6. \A i \in Depth : i # n => stack[i].pc \notin Making
  BY <1>1, <1>2, NoneBelow
<1>7. QueueTypes'
  BY <1>2, <1>4, <1>5 DEF QueueTypes
<1>8. Stacked'
  <2>1. \A i, j \in Depth : i < j => i # n
    BY <1>2, <1>3 DEF Depth
  <2>2. QED
    BY <1>4, <1>5, <1>6, <2>1 DEF Stacked
<1>9. Made'
  BY <1>3, <1>4, <1>5, <1>6 DEF Made, Making
<1>10. /\ Len(list) \in Nat /\ taken \in Nat /\ posted \in Nat /\ Twofold \in {0, 1}
       /\ Len(list') = 0 /\ \A x : ~On(list', x)
  BY <1>4, NumbersAre DEF On
<1>11. Listed'
  BY <1>3, <1>4, <1>5, <1>10, MsgsAre DEF Listed, Distinct
<1>12. EndKnown'
  BY <1>4, <1>10 DEF EndKnown, M!Joined
<1>13. Twofold' = Twofold
  BY <1>3, <1>5 DEF Twofold, Linked
<1>14. Counted'
  BY <1>2, <1>3, <1>4, <1>5, <1>10, <1>13 DEF Counted
<1>15. Calm'
  <2> SUFFICES ASSUME ~disturbed' PROVE Calm'
    BY DEF Calm
  <2>1. ~disturbed /\ list = <<>> /\ \A i \in Depth : i # n => stack[i].pc = "post"
    BY <1>2, <1>3, <1>4 DEF Calm
  <2>2. taken' + Len(list') + Len(stack') = posted' + Twofold'
    BY <1>2, <1>4, <1>5, <1>13, <2>1 DEF Calm
  <2>3. \A i \in Depth' : i # Len(stack') => stack'[i].pc = "post"
    BY <1>5, <2>1
  <2>4. ~wild' /\ M!Joined'
    BY <1>4, <2>1 DEF Calm, M!Joined
  <2>5. \A i \in Depth' : stack'[i].pc \in {"post", "next"}
    BY <1>5, <2>1
  <2>6. QED
    BY <1>4, <2>2, <2>3, <2>4, <2>5 DEF Calm, Linked
<1>16. QED
  BY <1>7, <1>8, <1>9, <1>11, <1>12, <1>14, <1>15

\* The maker empties the list, whatever was posted to it: rear may point to such a message.
LEMMA SetHeadNextKeeps ==
    ASSUME QueueInv, M!SetHeadNext
    PROVE  QueueInv'
<1> USE DEF QueueInv
<1>1. M!At("next") /\ M!Goto("test") /\ "test" \in M!Pcs
  BY DEF M!SetHeadNext, M!Pcs
<1>2. PICK n : n = Len(stack)
  OBVIOUS
<1>3. n \in Nat \ {0} /\ n \in Depth /\ stack[n].pc = "next" /\ \A i \in Depth : stack[i].msg \in M!Msgs
  BY <1>1, <1>2, TopIs
<1>4. /\ msgL' = msgL /\ list' = <<>> /\ rear' = rear
      /\ posted' = posted /\ wild' = wild /\ taken' = taken /\ disturbed' = disturbed
  BY DEF M!SetHeadNext
<1>5. /\ stack' \in Seq(Frames) /\ Len(stack') = n /\ Depth' = Depth
      /\ \A i \in Depth : i # n => stack'[i] = stack[i]
      /\ \A i \in Depth : stack'[i].msg = stack[i].msg
      /\ stack'[n].pc = "test"
  BY <1>1, <1>2, GotoIs
<1>6. \A i \in Depth : i # n => stack[i].pc \notin Making
  BY <1>1, <1>2, NoneBelow
<1>7. QueueTypes'
  BY <1>2, <1>4, <1>5 DEF QueueTypes
<1>8. Stacked'
  <2>1. \A i, j \in Depth : i < j => i # n
    BY <1>2, <1>3 DEF Depth
  <2>2. QED
    BY <1>4, <1>5, <1>6, <2>1 DEF Stacked
<1>9. msgL = "ready"
  BY <1>3 DEF Made, Making
<1>10. Made'
  BY <1>3, <1>4, <1>5, <1>6, <1>9 DEF Made, Making
<1>11. /\ Len(list) \in Nat /\ taken \in Nat /\ posted \in Nat /\ Twofold \in {0, 1}
       /\ Len(list') = 0 /\ \A x : ~On(list', x)
  BY <1>4, NumbersAre DEF On
<1>13. Listed'
  BY <1>3, <1>4, <1>5, <1>6, <1>11 DEF Listed, Distinct
<1>14. EndKnown'
  BY <1>4, <1>11 DEF EndKnown, M!Joined, Stray
<1>15. Twofold' = Twofold
  BY <1>3, <1>5 DEF Twofold, Linked
<1>16. Counted'
  BY <1>2, <1>3, <1>4, <1>5, <1>11, <1>15 DEF Counted
<1>17. Calm'
  <2> SUFFICES ASSUME ~disturbed' PROVE Calm'
    BY DEF Calm
  <2>1. /\ ~disturbed /\ list = <<>> /\ rear = M!HeadNode
        /\ \A i \in Depth : i # n => stack[i].pc = "post"
    BY <1>2, <1>3, <1>4 DEF Calm
  <2>2. taken' + Len(list') + Len(stack') = posted' + Twofold'
    BY <1>2, <1>4, <1>5, <1>15, <2>1 DEF Calm
  <2>3. \A i \in Depth' : i # Len(stack') => stack'[i].pc = "post"
    BY <1>5, <2>1
  <2>4. ~wild' /\ M!Joined'
    BY <1>4, <2>1 DEF Calm, M!Joined
  <2>5. \A i \in Depth' : stack'[i].pc \in {"post", "test"}
    BY <1>5, <2>1
  <2>6. QED
    BY <1>4, <2>1, <2>2, <2>3, <2>4, <2>5 DEF Calm, Linked
<1>18. QED
  BY <1>7, <1>8, <1>10, <1>13, <1>14, <1>16, <1>17

\* The maker reads rear.
LEMMA TestRearKeeps ==
    ASSUME QueueInv, M!TestRear
    PROVE  QueueInv'
<1> USE DEF QueueInv
<1>1. /\ M!At("test") /\ "link" \in M!Pcs /\ rear \in M!Msgs \cup {M!HeadNode}
      /\ stack' = [stack EXCEPT ![Len(stack)].pc = "link", ![Len(stack)].at = rear]
  BY NumbersAre DEF M!TestRear, M!Pcs
<1>2. PICK n : n = Len(stack)
  OBVIOUS
<1>3. n \in Nat \ {0} /\ n \in Depth /\ stack[n].pc = "test" /\ \A i \in Depth : stack[i].msg \in M!Msgs
  BY <1>1, <1>2, TopIs
<1>4. /\ msgL' = msgL /\ list' = list /\ rear' = rear
      /\ posted' = posted /\ wild' = wild /\ taken' = taken /\ disturbed' = disturbed
  BY DEF M!TestRear
<1>5. /\ stack' \in Seq(Frames) /\ Len(stack') = n /\ Depth' = Depth
      /\ \A i \in Depth : i # n => stack'[i] = stack[i]
      /\ \A i \in Depth : stack'[i].msg = stack[i].msg
      /\ stack'[n].pc = "link"
  BY <1>1, <1>2, GotoIs
<1>6. stack'[n].at = rear
  <2>1. stack \in Seq(Frames) /\ n \in 1 .. Len(stack) /\ stack[n] \in Frames
    BY <1>2, <1>3 DEF QueueTypes
  <2>2. stack' = [stack EXCEPT ![n].pc = "link", ![n].at = rear]
    BY <1>1, <1>2
  <2>3. PICK f : f = [stack[n] EXCEPT !.pc = "link", !.at = rear]
    OBVIOUS
  <2>4. stack' = [stack EXCEPT ![n] = f]
    BY <2>1, <2>2, <2>3
  <2>5. f.at = rear
    BY <2>1, <2>3 DEF Frames
  <2>6. QED
    BY <2>1, <2>4, <2>5
<1>7. \A i \in Depth : i # n => stack[i].pc \notin Making
  BY <1>1, <1>2, NoneBelow
<1>8. QueueTypes'
  BY <1>2, <1>4, <1>5 DEF QueueTypes
<1>9. Stacked'
  <2>1. \A i, j \in Depth : i < j => i # n
    BY <1>2, <1>3 DEF Depth
  <2>2. QED
    BY <1>4, <1>5, <1>7, <2>1 DEF Stacked
<1>10. msgL = "ready"
  BY <1>3 DEF Made, Making
<1>11. Made'
  BY <1>3, <1>4, <1>5, <1>7, <1>10 DEF Made, Making
<1>12. Listed'
  BY <1>3, <1>4, <1>5 DEF Listed, Linked
<1>13. EndKnown'
  BY <1>3, <1>4, <1>5 DEF EndKnown, M!Joined, Stray
<1>14. Twofold' = Twofold
  BY <1>3, <1>5 DEF Twofold, Linked
<1>15. Counted'
  BY <1>2, <1>4, <1>5, <1>14 DEF Counted
<1>16. Calm'
  <2> SUFFICES ASSUME ~disturbed' PROVE Calm'
    BY DEF Calm
  <2>1. /\ ~disturbed /\ list = <<>> /\ rear = M!HeadNode
        /\ \A i \in Depth : i # n => stack[i].pc = "post"
    BY <1>2, <1>3, <1>4 DEF Calm
  <2>2. taken' + Len(list') + Len(stack') = posted' + Twofold'
    BY <1>2, <1>4, <1>5, <1>14, <2>1 DEF Calm
  <2>3. \A i \in Depth' : i # Len(stack') => stack'[i].pc = "post"
    BY <1>5, <2>1
  <2>4. ~wild' /\ M!Joined'
    BY <1>4, <2>1 DEF Calm, M!Joined
  <2>5. \A i \in Depth' : stack'[i].pc = "post" \/ i = n
    BY <1>5, <2>1
  <2>6. QED
    BY <1>4, <1>5, <1>6, <2>1, <2>2, <2>3, <2>4, <2>5 DEF Calm, Linked
<1>17. QED
  BY <1>8, <1>9, <1>11, <1>12, <1>13, <1>15, <1>16

\* The maker links its message, which is the end of the list then, or is not on it.
LEMMA LinkMessageKeeps ==
    ASSUME QueueInv, M!LinkMessage
    PROVE  QueueInv'
<1> USE DEF QueueInv
<1>1. M!At("link") /\ M!Goto("rear") /\ "rear" \in M!Pcs
  BY DEF M!LinkMessage, M!Pcs
<1>2. PICK n, m, a : n = Len(stack) /\ m = stack[n].msg /\ a = stack[n].at
  OBVIOUS
<1>3. /\ n \in Nat \ {0} /\ n \in Depth /\ stack[n].pc = "link" /\ m \in M!Msgs
      /\ a \in M!Msgs \cup {M!HeadNode} /\ \A i \in Depth : stack[i].msg \in M!Msgs
  BY <1>1, <1>2, TopIs
<1>4. /\ msgL' = msgL /\ list' = M!Link(list, a, m) /\ rear' = rear
      /\ posted' = posted /\ wild' = wild /\ taken' = taken /\ disturbed' = disturbed
  BY <1>1, <1>2, TopIs DEF M!LinkMessage
<1>5. /\ stack' \in Seq(Frames) /\ Len(stack') = n /\ Depth' = Depth
      /\ \A i \in Depth : i # n => stack'[i] = stack[i]
      /\ \A i \in Depth : stack'[i].msg = stack[i].msg
      /\ stack'[n].pc = "rear"
  BY <1>1, <1>2, GotoIs
<1>6. \A i \in Depth : i # n => stack[i].pc \notin Making
  BY <1>1, <1>2, NoneBelow
<1>7. /\ Len(list) \in Nat /\ taken \in Nat /\ posted \in Nat /\ list \in Seq(M!Msgs)
  BY NumbersAre
<1>8. ~On(list, m) /\ m <= posted /\ Distinct(list)
  BY <1>2, <1>3 DEF Listed, Linked, Stacked
<1>9. /\ list' \in Seq(M!Msgs) /\ Distinct(list') /\ Len(list') <= Len(list) + 1
      /\ \A x : On(list', x) => On(list, x) \/ x = m
      /\ list' = list \/ (Len(list') > 0 /\ list'[Len(list')] = m)
  <2>1. LinkMakes(list, a, m, M!Link(list, a, m))
    BY <1>3, <1>7, <1>8, LinkKeeps
  <2>2. LinkMakes(list, a, m, list')
    BY <1>4, <2>1
  <2>3. QED
    BY <2>2 DEF LinkMakes
<1>10. QueueTypes'
  BY <1>2, <1>4, <1>5, <1>9 DEF QueueTypes
<1>11. Stacked'
  <2>1. \A i, j \in Depth : i < j => i # n
    BY <1>2, <1>3 DEF Depth
  <2>2. QED
    BY <1>4, <1>5, <1>6, <2>1 DEF Stacked
<1>12. msgL = "ready"
  BY <1>3 DEF Made, Making
<1>13. Made'
  BY <1>3, <1>4, <1>5, <1>6, <1>12 DEF Made, Making
<1>14. Listed'
  <2>1. \A x \in M!Msgs : On(list', x) => x <= posted'
    BY <1>4, <1>8, <1>9 DEF Listed
  <2>2. \A i \in Depth : i # n => stack[i].msg # m
    BY <1>2, <1>3 DEF Stacked
  <2>3. \A i \in Depth' : stack'[i].pc \notin Linked => ~On(list', stack'[i].msg)
    BY <1>3, <1>5, <1>9, <2>2 DEF Listed, Linked
  <2>4. \A i \in Depth' : stack'[i].pc # "null" => rear' # stack'[i].msg
    BY <1>3, <1>4, <1>5 DEF Listed
  <2>5. QED
    BY <1>4, <1>9, <2>1, <2>3, <2>4 DEF Listed
<1>15. EndKnown'
  <2>1. ASSUME NEW i \in Depth', stack'[i].pc = "rear", On(list', stack'[i].msg)
        PROVE  list'[Len(list')] = stack'[i].msg
    <3>1. i = n /\ stack'[i].msg = m /\ On(list', m)
      BY <1>2, <1>3, <1>5, <1>6, <2>1 DEF Making
    <3>2. QED
      BY <1>8, <1>9, <3>1
  <2>2. QED
    BY <1>3, <1>5, <2>1 DEF EndKnown
<1>16. Twofold = 0 /\ Twofold' = 1
  BY <1>3, <1>5, <1>6 DEF Twofold, Linked, Making
<1>17. Counted'
  BY <1>2, <1>3, <1>4, <1>5, <1>7, <1>9, <1>10, <1>16 DEF Counted, QueueTypes
<1>18. Calm'
  <2> SUFFICES ASSUME ~disturbed' PROVE Calm'
    BY DEF Calm
  <2>1. /\ ~disturbed /\ list = <<>> /\ rear = M!HeadNode /\ a = M!HeadNode
        /\ \A i \in Depth : i # n => stack[i].pc = "post"
    BY <1>2, <1>3, <1>4 DEF Calm
  <2>2. list' = <<m>>
    <3>1. M!Link(list, a, m) = Append(list, m)
      BY <1>3, <1>7, <1>8, <2>1, LinkAtEnd
    <3>2. QED
      BY <1>4, <2>1, <3>1
  <2>3. Len(list') = 1 /\ Len(list) = 0
    BY <2>1, <2>2
  <2>4. taken' + Len(list') + Len(stack') = posted' + Twofold'
    <3>1. taken + Len(list) + n = posted
      <4>1. taken + Len(list) + n = posted + Twofold
        BY <1>2, <2>1 DEF Calm
      <4>2. QED
        BY <1>7, <1>16, <4>1
    <3>2. QED
      BY <1>3, <1>4, <1>5, <1>7, <1>16, <2>3, <3>1
  <2>5. \A i \in Depth' : i # Len(stack') => stack'[i].pc = "post"
    BY <1>5, <2>1
  <2>6. ~wild' /\ stack'[n].msg = m
    BY <1>2, <1>3, <1>4, <1>5, <2>1 DEF Calm
  <2>7. \A i \in Depth' : stack'[i].pc = "post" \/ i = n
    BY <1>5, <2>1
  <2>8. QED
    BY <1>3, <1>4, <1>5, <1>12, <2>2, <2>4, <2>5, <2>6, <2>7 DEF Calm, Linked
<1>19. QED
  BY <1>10, <1>11, <1>13, <1>14, <1>15, <1>17, <1>18

\* The maker stores its message in rear, which is the end of the list, or is not on it for ever.
LEMMA SetRearKeeps ==
    ASSUME QueueInv, M!SetRear
    PROVE  QueueInv'
<1> USE DEF QueueInv
<1>1. M!At("rear") /\ M!Goto("null") /\ "null" \in M!Pcs
  BY DEF M!SetRear, M!Pcs
<1>2. PICK n, m : n = Len(stack) /\ m = stack[n].msg
  OBVIOUS
<1>3. /\ n \in Nat \ {0} /\ n \in Depth /\ stack[n].pc = "rear" /\ m \in M!Msgs
      /\ \A i \in Depth : stack[i].msg \in M!Msgs
  BY <1>1, <1>2, TopIs
<1>4. /\ msgL' = msgL /\ list' = list /\ rear' = m
      /\ posted' = posted /\ wild' = wild /\ taken' = taken /\ disturbed' = disturbed
  BY <1>1, <1>2, TopIs DEF M!SetRear
<1>5. /\ stack' \in Seq(Frames) /\ Len(stack') = n /\ Depth' = Depth
      /\ \A i \in Depth : i # n => stack'[i] = stack[i]
      /\ \A i \in Depth : stack'[i].msg = stack[i].msg
      /\ stack'[n].pc = "null"
  BY <1>1, <1>2, GotoIs
<1>6. \A i \in Depth : i # n => stack[i].pc \notin Making /\ stack[i].msg # m
  BY <1>1, <1>2, <1>3, NoneBelow DEF Stacked
<1>7. QueueTypes'
  BY <1>2, <1>3, <1>4, <1>5 DEF QueueTypes
<1>8. Stacked'
  <2>1. \A i, j \in Depth : i < j => i # n
    BY <1>2, <1>3 DEF Depth
  <2>2. QED
    BY <1>4, <1>5, <1>6, <2>1 DEF Stacked
<1>9. msgL = "ready"
  BY <1>3 DEF Made, Making
<1>10. Made'
  BY <1>3, <1>4, <1>5, <1>6, <1>9 DEF Made, Making
<1>11. m <= posted
  BY <1>2, <1>3 DEF Stacked
<1>12. Listed'
  BY <1>3, <1>4, <1>5, <1>6, <1>11 DEF Listed, Linked
<1>13. M!Joined' \/ Stray'
  <2>1. CASE On(list, m)
    <3>1. list[Len(list)] = m
      BY <1>2, <1>3, <2>1 DEF EndKnown
    <3>2. list # <<>>
      BY <2>1 DEF On
    <3>3. QED
      BY <1>4, <3>1, <3>2 DEF M!Joined
  <2>2. CASE ~On(list, m)
    BY <1>3, <1>4, <2>2, MsgsAre DEF Stray
  <2>3. QED
    BY <2>1, <2>2
<1>14. EndKnown'
  BY <1>3, <1>5, <1>6, <1>13 DEF EndKnown, Making
<1>15. Twofold' = Twofold
  BY <1>3, <1>5 DEF Twofold, Linked
<1>16. Counted'
  BY <1>2, <1>4, <1>5, <1>15 DEF Counted
<1>17. Calm'
  <2> SUFFICES ASSUME ~disturbed' PROVE Calm'
    BY DEF Calm
  <2>1. /\ ~disturbed /\ list = <<m>> /\ \A i \in Depth : i # n => stack[i].pc = "post"
    BY <1>2, <1>3, <1>4 DEF Calm, Linked
  <2>2. M!Joined'
    <3>1. list' # <<>> /\ list'[Len(list')] = m
      BY <1>4, <2>1
    <3>2. QED
      BY <1>4, <3>1 DEF M!Joined
  <2>3. taken' + Len(list') + Len(stack') = posted' + Twofold'
    BY <1>2, <1>4, <1>5, <1>15, <2>1 DEF Calm
  <2>4. \A i \in Depth' : i # Len(stack') => stack'[i].pc = "post"
    BY <1>5, <2>1
  <2>5. ~wild' /\ stack'[n].msg = m
    BY <1>2, <1>3, <1>4, <1>5, <2>1 DEF Calm
  <2>6. \A i \in Depth' : stack'[i].pc = "post" \/ i = n
    BY <1>5, <2>1
  <2>7. QED
    BY <1>3, <1>4, <1>5, <1>9, <2>1, <2>2, <2>3, <2>4, <2>5, <2>6 DEF Calm, Linked
<1>18. QED
  BY <1>7, <1>8, <1>10, <1>12, <1>14, <1>16, <1>17

\* The maker ends the list at its message. If that cuts off the node rear points to, then that
\* one is not on the list for ever.
LEMMA SetMessageNextKeeps ==
    ASSUME QueueInv, M!SetMessageNext
    PROVE  QueueInv'
<1> USE DEF QueueInv
<1>1. M!At("null") /\ M!Return
  BY DEF M!SetMessageNext
<1>2. PICK n, m : n = Len(stack) /\ m = stack[n].msg
  OBVIOUS
<1>3. /\ n \in Nat \ {0} /\ n \in Depth /\ stack[n].pc = "null" /\ m \in M!Msgs
  BY <1>1, <1>2, TopIs
<1>4. /\ msgL' = msgL /\ list' = M!UpTo(list, m) /\ rear' = rear
      /\ posted' = posted /\ wild' = wild /\ taken' = taken /\ disturbed' = disturbed
  BY <1>1, <1>2, TopIs DEF M!SetMessageNext
<1>5. /\ stack' \in Seq(Frames) /\ Len(stack') = n - 1 /\ Depth' = Depth \ {n}
      /\ \A i \in Depth' : stack'[i] = stack[i]
  BY <1>1, <1>2, ReturnIs
<1>6. \A i \in Depth : i # n => stack[i].pc \notin Making
  BY <1>1, <1>2, NoneBelow
<1>7. /\ Len(list) \in Nat /\ taken \in Nat /\ posted \in Nat /\ list \in Seq(M!Msgs)
      /\ Distinct(list)
  BY NumbersAre DEF Listed
<1>8. /\ list' \in Seq(M!Msgs) /\ Distinct(list') /\ Len(list') <= Len(list)
      /\ \A x : On(list', x) => On(list, x)
      /\ list' = list \/ (Len(list) > 0 /\ ~On(list', list[Len(list)]))
  BY <1>3, <1>4, <1>7, UpToKeeps
<1>9. QueueTypes'
  BY <1>2, <1>3, <1>4, <1>5, <1>8, MsgsAre DEF QueueTypes
<1>10. Stacked'
  BY <1>4, <1>5 DEF Stacked
<1>11. msgL = "ready"
  BY <1>3 DEF Made, Making
<1>12. Made'
  BY <1>4, <1>5, <1>6, <1>11 DEF Made
<1>13. Listed'
  BY <1>4, <1>5, <1>8 DEF Listed
<1>14. M!Joined \/ Stray
  BY <1>3, <1>6, <1>11 DEF EndKnown, Making
<1>15. M!Joined' \/ Stray'
  <2>1. CASE Stray
    BY <1>4, <1>8, <2>1 DEF Stray
  <2>2. CASE M!Joined /\ list' = list
    BY <1>4, <2>2 DEF M!Joined
  <2>3. CASE M!Joined /\ Len(list) > 0 /\ ~On(list', list[Len(list)])
    <3>1. rear = list[Len(list)] /\ Len(list) \in 1 .. Len(list)
      BY <1>7, <2>3 DEF M!Joined
    <3>2. rear \in M!Msgs
      BY <1>7, <3>1
    <3>3. QED
      BY <1>4, <2>3, <3>1, <3>2, MsgsAre DEF Stray
  <2>4. QED
    BY <1>8, <1>14, <2>1, <2>2, <2>3
<1>16. EndKnown'
  BY <1>5, <1>6, <1>15 DEF EndKnown, Making
<1>17. Twofold = 1 /\ Twofold' = 0
  BY <1>3, <1>5, <1>6 DEF Twofold, Linked, Making
<1>18. Counted'
  BY <1>2, <1>3, <1>4, <1>5, <1>7, <1>8, <1>9, <1>17 DEF Counted, QueueTypes
<1>19. Calm'
  <2> SUFFICES ASSUME ~disturbed' PROVE Calm'
    BY DEF Calm
  <2>1. ~disturbed /\ list = <<m>> /\ \A i \in Depth : i # n => stack[i].pc = "post"
    BY <1>2, <1>3, <1>4 DEF Calm, Linked
  <2>2. M!Joined
    BY <1>3, <2>1 DEF Calm
  <2>3. list' = list
    <3>1. CASE ~On(list', list[Len(list)])
      <4>1. PICK k \in 1 .. Len(list) : M!UpTo(list, m) = SubSeq(list, 1, k)
        <5>1. 1 \in 1 .. Len(list) /\ list[1] = m
          BY <2>1
        <5>2. On(list, m)
          BY <5>1 DEF On
        <5>3. QED
          BY <1>7, <5>2, UpToIs
      <4>2. k = 1 /\ Len(list) = 1
        BY <2>1, <4>1
      <4>3. SubSeq(list, 1, k) = list
        BY <1>7, <4>2
      <4>4. QED
        BY <1>4, <4>1, <4>3
    <3>2. QED
      BY <1>8, <3>1
  <2>4. M!Joined'
    BY <1>4, <2>2, <2>3 DEF M!Joined
  <2>5. taken' + Len(list') + Len(stack') = posted' + Twofold'
    <3>1. taken + Len(list) + n = posted + 1
      BY <1>2, <1>17, <2>1 DEF Calm
    <3>2. Len(list') = Len(list)
      BY <2>3
    <3>3. QED
      BY <1>3, <1>4, <1>5, <1>7, <1>17, <3>1, <3>2
  <2>6. \A i \in Depth' : stack'[i].pc = "post"
    BY <1>5, <2>1
  <2>7. ~wild' /\ msgL' # "null"
    BY <1>4, <1>11, <2>1 DEF Calm
  <2>8. QED
    BY <2>4, <2>5, <2>6, <2>7 DEF Calm, Linked
<1>20. QED
  BY <1>9, <1>10, <1>12, <1>13, <1>16, <1>18, <1>19

\* A get takes the first message. rear is moved only if that was the last one.
LEMMA GetKeeps ==
    ASSUME QueueInv, M!Get
    PROVE  QueueInv'
<1> USE DEF QueueInv
<1>1. /\ stack = <<>> /\ msgL = "ready" /\ list # <<>> /\ stack' = stack
      /\ msgL' = msgL /\ taken' = taken + 1 /\ posted' = posted /\ wild' = wild /\ disturbed' = disturbed
  BY DEF M!Get
<1>2. Depth = {} /\ Depth' = {} /\ Len(stack) = 0 /\ Len(stack') = 0
  BY <1>1 DEF Depth
<1>3. /\ Len(list) \in Nat /\ taken \in Nat /\ posted \in Nat /\ list \in Seq(M!Msgs)
      /\ rear \in M!Msgs \cup {M!HeadNode} /\ Distinct(list)
      /\ Twofold = 0 /\ Twofold' = 0
  BY <1>2, NumbersAre DEF Listed, Twofold
<1>4. M!Joined \/ Stray
  BY <1>1, <1>2 DEF EndKnown
<1>5. Len(list) > 0 /\ 1 \in 1 .. Len(list) /\ Len(list) \in 1 .. Len(list)
  BY <1>1, <1>3
<1>6. CASE rear = list[1]
  <2>1. rear' = M!HeadNode /\ list' = <<>>
    BY <1>6 DEF M!Get
  <2>2. Len(list) = 1
    <3>1. On(list, rear)
      BY <1>5, <1>6 DEF On
    <3>2. rear = list[Len(list)]
      BY <1>1, <1>4, <3>1 DEF M!Joined, Stray
    <3>3. QED
      BY <1>3, <1>5, <1>6, <3>2 DEF Distinct
  <2>3. Len(list') = 0 /\ \A x : ~On(list', x)
    BY <2>1 DEF On
  <2>4. QueueTypes'
    BY <1>1, <1>3, <2>1 DEF QueueTypes
  <2>5. Stacked' /\ Made'
    BY <1>1, <1>2 DEF Stacked, Made
  <2>6. Listed'
    BY <1>1, <1>2, <1>3, <2>1, <2>3, MsgsAre DEF Listed, Distinct
  <2>7. M!Joined'
    BY <2>1 DEF M!Joined
  <2>8. EndKnown' /\ Counted'
    BY <1>1, <1>2, <1>3, <2>2, <2>3, <2>7 DEF EndKnown, Counted
  <2>9. Calm'
    BY <1>1, <1>2, <1>3, <2>1, <2>2, <2>3, <2>7 DEF Calm
  <2>10. QED
    BY <2>4, <2>5, <2>6, <2>8, <2>9
<1>7. CASE rear # list[1]
  <2>1. rear' = rear /\ list' = Tail(list)
    BY <1>7 DEF M!Get
  <2>2. /\ list' \in Seq(M!Msgs) /\ Distinct(list') /\ Len(list') = Len(list) - 1
        /\ \A x : On(list', x) => On(list, x)
        /\ Len(list') > 0 => list'[Len(list')] = list[Len(list)]
    BY <1>1, <1>3, <2>1, TailIs
  <2>3. QueueTypes'
    BY <1>1, <1>3, <2>1, <2>2 DEF QueueTypes
  <2>4. Stacked' /\ Made'
    BY <1>1, <1>2 DEF Stacked, Made
  <2>5. Listed'
    BY <1>1, <1>2, <2>1, <2>2 DEF Listed
  <2>6. M!Joined => M!Joined'
    <3> SUFFICES ASSUME M!Joined PROVE M!Joined'
      OBVIOUS
    <3>1. rear = list[Len(list)]
      BY <1>1 DEF M!Joined
    <3>2. Len(list) > 1
      BY <1>5, <1>7, <3>1
    <3>3. Len(list') > 0 /\ list' # <<>>
      BY <1>3, <2>2, <3>2
    <3>4. QED
      BY <2>1, <2>2, <3>1, <3>3 DEF M!Joined
  <2>7. Stray => Stray'
    BY <2>1, <2>2 DEF Stray
  <2>8. EndKnown' /\ Counted'
    BY <1>1, <1>2, <1>3, <1>4, <2>2, <2>6, <2>7 DEF EndKnown, Counted
  <2>9. Calm'
    <3> SUFFICES ASSUME ~disturbed' PROVE Calm'
      BY DEF Calm
    <3>1. M!Joined /\ taken + Len(list) + Len(stack) = posted + Twofold /\ ~wild
      BY <1>1, <1>2 DEF Calm
    <3>2. QED
      BY <1>1, <1>2, <1>3, <2>2, <2>6, <3>1 DEF Calm
  <2>10. QED
    BY <2>3, <2>4, <2>5, <2>8, <2>9
<1>8. QED
  BY <1>6, <1>7

\* Every step of the queue keeps the invariant, and so does a step of something else.
LEMMA QueueNext == QueueInv /\ [M!Next]_M!vars => QueueInv'
<1> SUFFICES ASSUME QueueInv, [M!Next]_M!vars PROVE QueueInv'
  OBVIOUS
<1>1. ASSUME NEW h \in M!Handlers, M!Interrupt(h) PROVE QueueInv'
  BY <1>1, InterruptKeeps
<1>2. CASE M!FirstPost
  BY <1>2, PostFirstKeeps, SetMsgLKeeps, SetHeadAndRearKeeps, SetHeadNextKeeps, TestRearKeeps,
     LinkMessageKeeps, SetRearKeeps, SetMessageNextKeeps DEF M!FirstPost
<1>3. CASE M!PostToRaw
  BY <1>3, PostToRawKeeps
<1>4. CASE M!Post
  BY <1>4, PostKeeps
<1>5. CASE M!Get
  BY <1>5, GetKeeps
<1>6. CASE UNCHANGED M!vars
  <2>1. /\ msgL' = msgL /\ list' = list /\ rear' = rear /\ stack' = stack
        /\ posted' = posted /\ wild' = wild /\ taken' = taken /\ disturbed' = disturbed
    BY <1>6 DEF M!vars
  <2>2. Depth' = Depth
    BY <2>1 DEF Depth
  <2>3. (QueueTypes /\ Stacked /\ Made /\ Listed)'
    BY <2>1, <2>2 DEF QueueInv, QueueTypes, Stacked, Made, Listed
  <2>4. (EndKnown /\ Counted /\ Calm)'
    BY <2>1, <2>2 DEF QueueInv, EndKnown, Counted, Calm, M!Joined, Stray, Twofold
  <2>5. QED
    BY <2>3, <2>4 DEF QueueInv
<1>7. QED
  BY <1>1, <1>2, <1>3, <1>4, <1>5, <1>6 DEF M!Next

\* What the invariant says of a queue that has been made.
LEMMA QueueIsConsistent == QueueInv => MessagesConsistent
<1> SUFFICES ASSUME QueueInv PROVE MessagesConsistent
  OBVIOUS
<1>1. /\ Len(list) \in Nat /\ Len(stack) \in Nat /\ taken \in Nat /\ posted \in Nat /\ Twofold \in {0, 1}
      /\ posted <= MaxPosts
  BY NumbersAre, MsgsAre DEF QueueInv, QueueTypes
<1>2. Twofold = 1 => Len(stack) > 0
  <2>1. Twofold = 1 => \E i \in Depth : stack[i].pc \in Linked
    BY DEF Twofold
  <2>2. QED
    BY <1>1, <2>1 DEF Depth
<1>3. taken <= posted
  BY <1>1, <1>2 DEF QueueInv, Counted
<1>4. M!TypeOK
  <2>1. taken \in 0 .. MaxPosts /\ posted \in 0 .. MaxPosts /\ Len(stack) \in 0 .. MaxNest
    BY <1>1, <1>3, MsgsAre DEF QueueInv, QueueTypes
  <2>2. stack \in Seq([by : M!Handlers, msg : M!Msgs, pc : M!Pcs, at : M!Msgs \cup {M!HeadNode}])
    BY DEF QueueInv, QueueTypes, Frames
  <2>3. QED
    BY <2>1, <2>2 DEF M!TypeOK, QueueInv, QueueTypes
<1>5. DOMAIN stack = Depth
  BY DEF QueueInv, QueueTypes, Depth
<1>6. M!NothingLost
  <2> SUFFICES ASSUME ~M!Starting, ~disturbed
               PROVE  posted = taken + Len(list) + Len(stack) /\ M!Joined /\ ~wild
    BY DEF M!NothingLost
  <2>1. \A i \in Depth : stack[i].pc = "post"
    BY <1>5 DEF M!Starting
  <2>2. Twofold = 0
    BY <2>1 DEF Twofold, Linked
  <2>3. taken + Len(list) + Len(stack) = posted + Twofold /\ M!Joined /\ ~wild
    BY <2>1 DEF QueueInv, Calm
  <2>4. QED
    BY <1>1, <2>2, <2>3
<1>7. QED
  BY <1>4, <1>6 DEF MessagesConsistent

\* The invariant of the queue.
THEOREM QueueInvariant == M!Spec => []QueueInv
<1>1. M!Init => QueueInv
  BY QueueInit
<1>2. QueueInv /\ [M!Next]_M!vars => QueueInv'
  BY QueueNext
<1>3. QED
  BY <1>1, <1>2, PTL DEF M!Spec

\* A message is lost, the queue is dead or a store goes astray only if a handler interrupted the
\* first post, however many handlers interrupt one another (message.c).
THEOREM MessagesAreConsistent == M!Spec => []MessagesConsistent
  BY QueueInvariant, QueueIsConsistent, PTL

-----------------------------------------------------------------------------
(* The queue implements Mailbox. *)

Mode  == IF M!Starting THEN "starting" ELSE IF M!Joined THEN "working" ELSE "dead"
Queue == IF M!Starting THEN <<>> ELSE list

\* A queue that is being made.
LEMMA StartingIs ==
    ASSUME QueueTypes
    PROVE  M!Starting <=> msgL # "ready" \/ \E i \in Depth : stack[i].pc # "post"
<1>1. DOMAIN stack = Depth
  BY DEF QueueTypes, Depth
<1>2. QED
  BY <1>1 DEF M!Starting

\* A node that is not on the list is not its end: a dead queue is not working.
LEMMA StrayIsNotEnd ==
    ASSUME NEW l \in Seq(M!Msgs), NEW r, r # M!HeadNode, ~On(l, r)
    PROVE  r # IF l = <<>> THEN M!HeadNode ELSE l[Len(l)]
<1>1. CASE l = <<>>
  BY <1>1
<1>2. CASE l # <<>>
  <2>1. Len(l) \in 1 .. Len(l)
    BY <1>2
  <2>2. l[Len(l)] # r
    BY <2>1 DEF On
  <2>3. QED
    BY <1>2, <2>2
<1>3. QED
  BY <1>1, <1>2

\* The first steps of the first post happen while the queue is being made.
LEMMA MakingStutters ==
    ASSUME QueueInv, QueueInv', [M!Next]_M!vars, M!Starting, M!Starting'
    PROVE  UNCHANGED <<Mode, Queue>>
  BY DEF Mode, Queue

\* A post in one step puts a message in a queue that works, and does nothing to a dead one.
LEMMA PostIsPut ==
    ASSUME QueueInv, QueueInv', M!Post, ~M!Starting
    PROVE  [M!AsMailbox!Next]_<<Mode, Queue>>
<1> USE DEF QueueInv
<1>1. M!At("post") /\ msgL = "ready" /\ M!Return
  BY DEF M!Post
<1>2. PICK n, m : n = Len(stack) /\ m = stack[n].msg
  OBVIOUS
<1>3. n \in Depth /\ stack[n].pc = "post" /\ m \in M!Msgs
  BY <1>1, <1>2, TopIs
<1>4. list' = M!Link(list, rear, m) /\ rear' = m /\ msgL' = msgL
  BY <1>1, <1>2, TopIs DEF M!Post
<1>5. Depth' \subseteq Depth /\ \A i \in Depth' : stack'[i] = stack[i]
  BY <1>1, <1>2, ReturnIs
<1>6. list \in Seq(M!Msgs) /\ rear \in M!Msgs \cup {M!HeadNode} /\ Distinct(list) /\ ~On(list, m)
  BY <1>2, <1>3, NumbersAre DEF Listed, Linked
<1>7. msgL = "ready" /\ \A i \in Depth : stack[i].pc = "post"
  BY StartingIs
<1>8. ~M!Starting'
  <2>1. msgL' = "ready" /\ \A i \in Depth' : stack'[i].pc = "post"
    BY <1>4, <1>5, <1>7
  <2>2. DOMAIN stack' = Depth'
    BY DEF QueueTypes, Depth
  <2>3. QED
    BY <2>1, <2>2 DEF M!Starting
<1>9. M!Joined \/ Stray
  BY <1>7 DEF EndKnown
<1>10. CASE M!Joined
  <2>1. list' = Append(list, m)
    BY <1>3, <1>4, <1>6, <1>10, LinkAtEnd DEF M!Joined
  <2>2. list' # <<>> /\ list'[Len(list')] = m
    BY <1>3, <1>6, <2>1
  <2>3. M!Joined'
    BY <1>4, <2>2 DEF M!Joined
  <2>4. M!AsMailbox!Put
    BY <1>3, <1>8, <1>10, <2>1, <2>3 DEF M!AsMailbox!Put
  <2>5. QED
    BY <2>4 DEF M!AsMailbox!Next
<1>11. CASE Stray
  <2>1. ~M!Joined
    BY <1>6, <1>11, StrayIsNotEnd DEF Stray, M!Joined
  <2>2. rear \notin M!Elements(list) /\ rear # M!HeadNode
    BY <1>6, <1>11, ElementsAre DEF Stray
  <2>3. list' = list
    BY <1>4, <2>2 DEF M!Link
  <2>4. Stray'
    BY <1>3, <1>4, <1>6, <2>3, MsgsAre DEF Stray
  <2>5. ~M!Joined'
    <3>1. list' \in Seq(M!Msgs) /\ rear' # M!HeadNode /\ ~On(list', rear')
      BY <1>6, <2>3, <2>4 DEF Stray
    <3>2. QED
      BY <3>1, StrayIsNotEnd DEF M!Joined
  <2>6. QED
    BY <1>8, <2>1, <2>3, <2>5 DEF Mode, Queue
<1>12. QED
  BY <1>9, <1>10, <1>11

\* A get takes the first message, and the queue goes on as it was.
LEMMA GetIsGet ==
    ASSUME QueueInv, QueueInv', M!Get
    PROVE  [M!AsMailbox!Next]_<<Mode, Queue>>
<1> USE DEF QueueInv
<1>1. stack = <<>> /\ msgL = "ready" /\ list # <<>> /\ stack' = stack /\ msgL' = msgL
  BY DEF M!Get
<1>2. Depth = {} /\ DOMAIN stack = {} /\ DOMAIN stack' = {}
  BY <1>1 DEF Depth
<1>3. ~M!Starting /\ ~M!Starting'
  BY <1>1, <1>2 DEF M!Starting
<1>4. M!Joined \/ Stray
  BY <1>1, <1>2 DEF EndKnown
<1>5. list \in Seq(M!Msgs) /\ Distinct(list) /\ Len(list) \in Nat \ {0}
  BY <1>1, NumbersAre DEF Listed
<1>6. 1 \in 1 .. Len(list) /\ Len(list) \in 1 .. Len(list)
  BY <1>5
<1>7. CASE M!Joined
  <2>1. rear = list[Len(list)]
    BY <1>1, <1>7 DEF M!Joined
  <2>2. list' = Tail(list) /\ M!Joined'
    <3>1. CASE rear = list[1]
      <4>1. Len(list) = 1
        BY <1>5, <1>6, <2>1, <3>1 DEF Distinct
      <4>2. Tail(list) \in Seq(M!Msgs) /\ Len(Tail(list)) = 0
        BY <1>5, <4>1
      <4>3. \A t \in Seq(M!Msgs) : Len(t) = 0 => t = <<>>
        OBVIOUS
      <4>4. Tail(list) = <<>>
        BY <4>2, <4>3, Zenon
      <4>5. QED
        BY <3>1, <4>4 DEF M!Get, M!Joined
    <3>2. CASE rear # list[1]
      <4>1. Len(list) > 1
        BY <1>5, <2>1, <3>2
      <4>2. rear' = rear /\ list' = Tail(list)
        BY <3>2 DEF M!Get
      <4>3. /\ list' \in Seq(M!Msgs) /\ Len(list') > 0
            /\ Len(list') > 0 => list'[Len(list')] = list[Len(list)]
        BY <1>1, <1>5, <4>1, <4>2, TailIs
      <4>4. list' # <<>> /\ list'[Len(list')] = list[Len(list)]
        BY <4>3
      <4>5. QED
        BY <2>1, <4>2, <4>4 DEF M!Joined
    <3>3. QED
      BY <3>1, <3>2
  <2>3. M!AsMailbox!Get
    BY <1>1, <1>3, <1>7, <2>2 DEF M!AsMailbox!Get
  <2>4. QED
    BY <2>3 DEF M!AsMailbox!Next
<1>8. CASE Stray
  <2>1. rear # list[1]
    BY <1>6, <1>8 DEF Stray, On
  <2>2. rear' = rear /\ list' = Tail(list)
    BY <2>1 DEF M!Get
  <2>3. \A x : On(list', x) => On(list, x)
    BY <1>1, <1>5, <2>2, TailIs
  <2>4. Stray'
    BY <1>8, <2>2, <2>3 DEF Stray
  <2>5. ~M!Joined /\ ~M!Joined'
    <3>1. list' \in Seq(M!Msgs) /\ rear' # M!HeadNode /\ ~On(list', rear')
      BY <2>4 DEF Stray, QueueTypes
    <3>2. rear # M!HeadNode /\ ~On(list, rear)
      BY <1>8 DEF Stray
    <3>3. QED
      BY <1>5, <3>1, <3>2, StrayIsNotEnd DEF M!Joined
  <2>6. M!AsMailbox!Get
    BY <1>1, <1>3, <2>2, <2>5 DEF M!AsMailbox!Get
  <2>7. QED
    BY <2>6 DEF M!AsMailbox!Next
<1>9. QED
  BY <1>4, <1>7, <1>8

\* Every step of the queue is a step of the mailbox, or none: the first post starts it at its end.
LEMMA StepIsStep ==
    QueueInv /\ QueueInv' /\ [M!Next]_M!vars => [M!AsMailbox!Next]_<<Mode, Queue>>
<1> SUFFICES ASSUME QueueInv, QueueInv', [M!Next]_M!vars
             PROVE  [M!AsMailbox!Next]_<<Mode, Queue>>
  OBVIOUS
<1>1. CASE M!Starting /\ M!Starting'
  BY <1>1, MakingStutters
<1>2. CASE M!Starting /\ ~M!Starting'
  <2>1. Mode = "starting" /\ Mode' \in {"working", "dead"} /\ Queue' \in Seq(M!Msgs)
    BY <1>2 DEF Mode, Queue, QueueInv, QueueTypes
  <2>2. M!AsMailbox!Start
    BY <2>1 DEF M!AsMailbox!Start, Mode, Queue
  <2>3. QED
    BY <2>2 DEF M!AsMailbox!Next
<1>3. CASE ~M!Starting
  <2>1. msgL = "ready" /\ \A i \in Depth : stack[i].pc = "post"
    BY <1>3, StartingIs DEF QueueInv
  <2>2. ASSUME NEW p, M!At(p) PROVE p = "post"
    BY <2>1, <2>2, TopIs DEF QueueInv
  <2>3. CASE M!Post
    BY <1>3, <2>3, PostIsPut
  <2>4. CASE M!Get
    BY <2>4, GetIsGet
  <2>5. CASE M!PostToRaw \/ M!FirstPost
    BY <2>1, <2>2, <2>5 DEF M!PostToRaw, M!FirstPost, M!PostFirst, M!SetMsgL, M!SetHeadAndRear,
       M!SetHeadNext, M!TestRear, M!LinkMessage, M!SetRear, M!SetMessageNext
  <2>6. ASSUME NEW h \in M!Handlers, M!Interrupt(h) PROVE UNCHANGED <<Mode, Queue>>
    <3>1. PICK f : f = [by |-> h, msg |-> posted + 1, pc |-> "post", at |-> M!HeadNode]
      OBVIOUS
    <3>2. stack' = Append(stack, f) /\ f.pc = "post" /\ msgL' = msgL /\ list' = list /\ rear' = rear
      BY <2>6, <3>1 DEF M!Interrupt
    <3>3. stack \in Seq(Frames) /\ stack' \in Seq(Frames)
      BY DEF QueueInv, QueueTypes
    <3>4. \A i \in DOMAIN stack' : stack'[i].pc = "post"
      BY <2>1, <3>2, <3>3 DEF Depth
    <3>5. ~M!Starting' /\ M!Joined' = M!Joined
      BY <2>1, <3>2, <3>4 DEF M!Starting, M!Joined
    <3>6. QED
      BY <1>3, <3>2, <3>5 DEF Mode, Queue
  <2>7. CASE UNCHANGED M!vars
    BY <2>7 DEF M!vars, Mode, Queue, M!Starting, M!Joined
  <2>8. QED
    BY <2>3, <2>4, <2>5, <2>6, <2>7 DEF M!Next
<1>4. QED
  BY <1>1, <1>2, <1>3

\* The queue of message.c is a strict first-in first-out queue that loses no message, for ever, or a
\* dead one, for ever: it depends on what interrupted the first post, and on nothing else.
THEOREM MessagesImplementMailbox == M!Spec => ImplementsMailbox
<1>1. M!Init => M!AsMailbox!Init
  BY DEF M!Init, M!AsMailbox!Init, M!Starting
<1>2. QueueInv /\ QueueInv' /\ [M!Next]_M!vars => [M!AsMailbox!Next]_<<Mode, Queue>>
  BY StepIsStep
<1>3. M!Spec => []QueueInv
  BY QueueInvariant
<1>4. QED
  BY <1>1, <1>2, <1>3, PTL
     DEF M!Spec, ImplementsMailbox, M!ImplementsMailbox, M!AsMailbox!Spec, Mode, Queue

-----------------------------------------------------------------------------
(* The mask of a task. *)

\* A handler that has no mask of its own blocks nothing.
ActionsFit == \A s \in S!Sigs : me.sigaction[s].nomask => me.sigaction[s].mask = {}

\* The first frame that has a mask has that of the program. If none has, it is in force.
FirstMasked(i) == ~frames[i].nomask /\ \A j \in DOMAIN frames : j < i => frames[j].nomask

MaskKept ==
    /\ me.pc = "user" =>
         /\ (\A i \in DOMAIN frames : frames[i].nomask) => me.blocked = mask
         /\ \A i \in DOMAIN frames : FirstMasked(i) => frames[i].saved = mask
    /\ me.pc = "pause" => frames = <<>> /\ me.blocked = mask
    /\ me.pc = "sleep" => frames = <<>> /\ me.old_blocked = mask

FramesAre == frames \in Seq(S!Frames)

MaskInv == S!SignalsTypeOK /\ FramesAre /\ ActionsFit /\ MaskKept

\* The names of the signals and the fields of a task.
LEMMA SigsAre == S!Sigs = {"USR1", "ALRM"}
  BY DEF S!Sigs, S!Number

\* A task whose fields are of their types is of its type.
LEMMA MeIs ==
    ASSUME S!SignalsTypeOK
    PROVE  /\ me.signal \in S!Masks /\ me.blocked \in S!Masks /\ me.alarm \in BOOLEAN
           /\ me.sigaction \in [S!Sigs -> S!Action] /\ me.awake \in BOOLEAN /\ me.old_blocked \in S!Masks
           /\ me.pc \in {"user", "pause", "sleep", "do_exit"} /\ mask \in S!Masks
  BY DEF S!SignalsTypeOK

\* The start: nothing is masked.
LEMMA MaskInit == S!SignalsInit => MaskInv
<1> SUFFICES ASSUME S!SignalsInit PROVE MaskInv
  OBVIOUS
<1>1. /\ frames = <<>> /\ mask = {}
      /\ me = [signal |-> {}, blocked |-> {}, sigaction |-> [s \in S!Sigs |-> S!Default],
               alarm |-> FALSE, pc |-> "user", awake |-> TRUE, old_blocked |-> {}]
  BY DEF S!SignalsInit
<1>2. S!Default \in S!Action /\ {} \in S!Masks /\ S!Default.mask = {}
  BY DEF S!Default, S!Action, S!Handlers, S!Masks
<1>3. [s \in S!Sigs |-> S!Default] \in [S!Sigs -> S!Action]
  BY <1>2
<1>4. /\ me \in [signal : S!Masks, blocked : S!Masks, sigaction : [S!Sigs -> S!Action], alarm : BOOLEAN,
                 pc : {"user", "pause", "sleep", "do_exit"}, awake : BOOLEAN, old_blocked : S!Masks]
      /\ me.blocked = {} /\ me.pc = "user" /\ me.sigaction = [s \in S!Sigs |-> S!Default]
  BY <1>1, <1>2, <1>3
<1>5. Len(frames) = 0 /\ DOMAIN frames = {} /\ frames \in Seq(S!Frames)
  BY <1>1
<1>6. 0 <= MaxFrames
  BY ConstantsAssumption DEF S!MaxFramesAssumption
<1>7. S!SignalsTypeOK
  BY <1>1, <1>2, <1>4, <1>5, <1>6 DEF S!SignalsTypeOK
<1>8. ActionsFit
  BY <1>2, <1>4 DEF ActionsFit
<1>9. QED
  BY <1>1, <1>4, <1>5, <1>7, <1>8 DEF MaskInv, FramesAre, MaskKept

\* A step outside the handlers' frames: it keeps the types, and what the mask should be.
LEMMA MaskStep ==
    ASSUME MaskInv, frames' = frames,
           NEW signal \in S!Masks, NEW blocked \in S!Masks, NEW sigaction \in [S!Sigs -> S!Action],
           NEW alarm \in BOOLEAN, NEW pc \in {"user", "pause", "sleep", "do_exit"},
           NEW awake \in BOOLEAN, NEW old \in S!Masks,
           me' = [signal |-> signal, blocked |-> blocked, sigaction |-> sigaction, alarm |-> alarm,
                  pc |-> pc, awake |-> awake, old_blocked |-> old],
           mask' \in S!Masks,
           \A s \in S!Sigs : sigaction[s].nomask => sigaction[s].mask = {},
           \/ pc = me.pc /\ blocked = me.blocked /\ old = me.old_blocked /\ mask' = mask
           \/ pc = "do_exit"
           \/ /\ frames = <<>>
              /\ pc \in {"user", "pause"} => blocked = mask'
              /\ pc = "sleep" => old = mask'
    PROVE  MaskInv'
<1>1. /\ me' \in [signal : S!Masks, blocked : S!Masks, sigaction : [S!Sigs -> S!Action], alarm : BOOLEAN,
                  pc : {"user", "pause", "sleep", "do_exit"}, awake : BOOLEAN, old_blocked : S!Masks]
      /\ me'.pc = pc /\ me'.blocked = blocked /\ me'.old_blocked = old /\ me'.sigaction = sigaction
  OBVIOUS
<1>2. S!SignalsTypeOK' /\ FramesAre'
  BY <1>1 DEF MaskInv, S!SignalsTypeOK, FramesAre
<1>3. ActionsFit'
  BY <1>1 DEF ActionsFit
<1>4. MaskKept'
  <2>1. CASE pc = me.pc /\ blocked = me.blocked /\ old = me.old_blocked /\ mask' = mask
    BY <1>1, <2>1 DEF MaskInv, MaskKept, FirstMasked
  <2>2. CASE pc = "do_exit"
    BY <1>1, <2>2 DEF MaskKept
  <2>3. CASE /\ frames = <<>>
             /\ pc \in {"user", "pause"} => blocked = mask'
             /\ pc = "sleep" => old = mask'
    <3>1. DOMAIN frames' = {} /\ frames' = <<>>
      BY <2>3
    <3>2. QED
      BY <1>1, <2>3, <3>1 DEF MaskKept
  <2>4. QED
    BY <2>1, <2>2, <2>3
<1>5. QED
  BY <1>2, <1>3, <1>4 DEF MaskInv

\* The record of a task that is left after a change of some of its fields.
LEMMA MeExcept ==
    ASSUME S!SignalsTypeOK
    PROVE  me = [signal |-> me.signal, blocked |-> me.blocked, sigaction |-> me.sigaction,
                 alarm |-> me.alarm, pc |-> me.pc, awake |-> me.awake, old_blocked |-> me.old_blocked]
  BY DEF S!SignalsTypeOK

\* Every step of the task and of those who signal it keeps the invariant.
LEMMA MaskNext == MaskInv /\ [S!SignalsNext]_signalVars => MaskInv'
<1> SUFFICES ASSUME MaskInv, [S!SignalsNext]_signalVars PROVE MaskInv'
  OBVIOUS
<1> DEFINE Task(signal, blocked, sigaction, alarm, pc, awake, old) ==
             [signal |-> signal, blocked |-> blocked, sigaction |-> sigaction, alarm |-> alarm,
              pc |-> pc, awake |-> awake, old_blocked |-> old]
<1>1. /\ S!SignalsTypeOK /\ ActionsFit
      /\ me = Task(me.signal, me.blocked, me.sigaction, me.alarm, me.pc, me.awake, me.old_blocked)
  BY MeExcept DEF MaskInv
<1>2. /\ me.signal \in S!Masks /\ me.blocked \in S!Masks /\ me.alarm \in BOOLEAN
      /\ me.sigaction \in [S!Sigs -> S!Action] /\ me.awake \in BOOLEAN /\ me.old_blocked \in S!Masks
      /\ me.pc \in {"user", "pause", "sleep", "do_exit"} /\ mask \in S!Masks
  BY <1>1, MeIs
<1>3. \A s \in S!Sigs : me.sigaction[s].nomask => me.sigaction[s].mask = {}
  BY <1>1 DEF ActionsFit
<1>4. S!InMain => frames = <<>> /\ me.blocked = mask /\ me.pc = "user"
  <2>1. S!InMain => frames = <<>> /\ me.pc = "user" /\ DOMAIN frames = {}
    BY DEF S!InMain
  <2>2. QED
    BY <2>1 DEF MaskInv, MaskKept
<1>5. ASSUME NEW s \in S!Sigs, S!Arrive(s) PROVE MaskInv'
  <2>1. PICK signal, alarm, awake : /\ signal = me.signal \cup {s} /\ alarm = (me.alarm /\ s # "ALRM")
                                    /\ awake = (me.awake \/ s \notin me.blocked)
    OBVIOUS
  <2>2. signal \in S!Masks /\ alarm \in BOOLEAN /\ awake \in BOOLEAN
    BY <1>2, <2>1 DEF S!Masks
  <2>3. me' = Task(signal, me.blocked, me.sigaction, alarm, me.pc, awake, me.old_blocked)
    BY <1>1, <1>5, <2>1 DEF S!Arrive
  <2>4. frames' = frames /\ mask' = mask
    BY <1>5 DEF S!Arrive
  <2>5. QED
    BY <1>2, <1>3, <2>2, <2>3, <2>4, MaskStep
<1>6. ASSUME NEW m \in S!Masks, S!sys_ssetmask(m) PROVE MaskInv'
  <2>1. /\ me' = Task(me.signal, m, me.sigaction, me.alarm, me.pc, me.awake, me.old_blocked)
        /\ frames' = frames /\ mask' = m /\ me.pc = "user" /\ frames = <<>>
    BY <1>1, <1>4, <1>6 DEF S!sys_ssetmask
  <2>2. QED
    BY <1>2, <1>3, <2>1, MaskStep
<1>7. ASSUME NEW s \in S!Sigs, NEW action \in S!Action, S!SetAction(s, action),
             action.nomask => action.mask = {}, UNCHANGED <<frames, mask>>
      PROVE  MaskInv'
  <2>1. PICK sigaction : sigaction = [me.sigaction EXCEPT ![s] = action]
    OBVIOUS
  <2>2. sigaction \in [S!Sigs -> S!Action]
    BY <1>2, <2>1
  <2>3. \A t \in S!Sigs : sigaction[t].nomask => sigaction[t].mask = {}
    BY <1>2, <1>3, <1>7, <2>1
  <2>4. me' = Task(me.signal, me.blocked, sigaction, me.alarm, me.pc, me.awake, me.old_blocked)
    BY <1>1, <1>7, <2>1 DEF S!SetAction
  <2>5. frames' = frames /\ mask' = mask
    BY <1>7
  <2>6. QED
    BY <1>2, <2>2, <2>3, <2>4, <2>5, MaskStep
<1>8. ASSUME NEW s \in S!Sigs, NEW h \in S!Handlers, S!sys_signal(s, h) PROVE MaskInv'
  <2>1. PICK action : action = [handler |-> h, oneshot |-> TRUE, nomask |-> TRUE, mask |-> {}]
    OBVIOUS
  <2>2. action \in S!Action /\ action.mask = {}
    BY <2>1 DEF S!Action, S!Masks
  <2>3. S!SetAction(s, action) /\ UNCHANGED <<frames, mask>>
    BY <1>8, <2>1 DEF S!sys_signal
  <2>4. QED
    BY <1>7, <2>2, <2>3
<1>9. ASSUME NEW s \in S!Sigs, NEW nomask \in BOOLEAN, NEW m \in S!Masks, S!sys_sigaction(s, nomask, m)
      PROVE  MaskInv'
  <2>1. PICK action : action = [handler |-> "caught", oneshot |-> FALSE, nomask |-> nomask,
                                mask |-> IF nomask THEN {} ELSE m \cup {s}]
    OBVIOUS
  <2>2. (IF nomask THEN {} ELSE m \cup {s}) \in S!Masks
    BY DEF S!Masks
  <2>3. action \in S!Action
    BY <2>1, <2>2 DEF S!Action, S!Handlers
  <2>4. action.nomask => action.mask = {}
    BY <2>1
  <2>5. S!SetAction(s, action) /\ UNCHANGED <<frames, mask>>
    BY <1>9, <2>1 DEF S!sys_sigaction
  <2>6. QED
    BY <1>7, <2>3, <2>4, <2>5
<1>10. ASSUME NEW b \in BOOLEAN, S!sys_alarm(b) PROVE MaskInv'
  <2>1. /\ me' = Task(me.signal, me.blocked, me.sigaction, b, me.pc, me.awake, me.old_blocked)
        /\ frames' = frames /\ mask' = mask
    BY <1>1, <1>10 DEF S!sys_alarm
  <2>2. QED
    BY <1>2, <1>3, <2>1, MaskStep
<1>11. CASE S!sys_pause
  <2>1. PICK t : t = Task(me.signal, me.blocked, me.sigaction, me.alarm, "pause", me.awake, me.old_blocked)
    OBVIOUS
  <2>2. me' = S!Pause(t) /\ frames' = frames /\ mask' = mask
    BY <1>1, <1>11, <2>1 DEF S!sys_pause
  <2>3. PICK awake : awake = (t.signal \ t.blocked # {})
    OBVIOUS
  <2>4. me' = Task(me.signal, me.blocked, me.sigaction, me.alarm, "pause", awake, me.old_blocked)
    BY <2>1, <2>2, <2>3 DEF S!Pause
  <2>5. awake \in BOOLEAN /\ frames = <<>> /\ me.blocked = mask
    BY <1>4, <1>11, <2>3 DEF S!sys_pause
  <2>6. QED
    BY <1>2, <1>3, <2>2, <2>4, <2>5, MaskStep
<1>12. ASSUME NEW zero \in BOOLEAN, S!sys_sleep(zero) PROVE MaskInv'
  <2>1. PICK blocked : blocked = me.blocked \cap {"ALRM"}
    OBVIOUS
  <2>2. PICK alarm \in BOOLEAN : alarm = ~zero
    OBVIOUS
  <2>3. PICK t : t = [me EXCEPT !.old_blocked = me.blocked, !.blocked = blocked,
                                !.alarm = alarm, !.pc = "sleep"]
    OBVIOUS
  <2>4. me' = S!Pause(t)
    BY <1>12, <2>1, <2>2, <2>3 DEF S!sys_sleep
  <2>5. t = Task(me.signal, blocked, me.sigaction, alarm, "sleep", me.awake, me.blocked)
    BY <1>1, <2>3
  <2>7. frames' = frames /\ mask' = mask /\ S!InMain
    BY <1>12 DEF S!sys_sleep
  <2>8. PICK awake \in BOOLEAN : awake = (t.signal \ t.blocked # {})
    OBVIOUS
  <2>9. me' = Task(me.signal, blocked, me.sigaction, alarm, "sleep", awake, me.blocked)
    BY <2>4, <2>5, <2>8 DEF S!Pause
  <2>10. blocked \in S!Masks /\ frames = <<>> /\ me.blocked = mask
    BY <1>2, <1>4, <2>1, <2>7 DEF S!Masks
  <2>11. QED
    BY <1>2, <1>3, <2>7, <2>9, <2>10, MaskStep
<1>13. CASE S!WakeUp
  <2>1. frames' = frames /\ mask' = mask
    BY <1>13 DEF S!WakeUp
  <2>2. CASE me.pc = "pause"
    <3>1. me' = Task(me.signal, me.blocked, me.sigaction, me.alarm, "user", me.awake, me.old_blocked)
      BY <1>1, <1>13, <2>2 DEF S!WakeUp
    <3>2. frames = <<>> /\ me.blocked = mask
      BY <2>2 DEF MaskInv, MaskKept
    <3>3. QED
      BY <1>2, <1>3, <2>1, <3>1, <3>2, MaskStep
  <2>3. CASE me.pc = "sleep"
    <3>1. PICK action : action = [handler |-> "IGN", oneshot |-> TRUE, nomask |-> TRUE, mask |-> {}]
      OBVIOUS
    <3>2. action \in S!Action /\ action.mask = {}
      BY <3>1 DEF S!Action, S!Masks, S!Handlers
    <3>3. PICK sigaction : sigaction = [me.sigaction EXCEPT !["ALRM"] = action]
      OBVIOUS
    <3>4. sigaction \in [S!Sigs -> S!Action]
      BY <1>2, <3>2, <3>3
    <3>5. \A s \in S!Sigs : sigaction[s].nomask => sigaction[s].mask = {}
      BY <1>2, <1>3, <3>2, <3>3
    <3>6. PICK old : old = me.old_blocked /\ old \in S!Masks
      BY <1>2
    <3>7. PICK none \in S!Masks : none = {}
      BY DEF S!Masks
    <3>8. me' = Task(me.signal, old, sigaction, me.alarm, "user", me.awake, none)
      BY <1>1, <1>13, <2>3, <3>1, <3>3, <3>6, <3>7 DEF S!WakeUp
    <3>9. frames = <<>> /\ old = mask'
      BY <2>1, <2>3, <3>6 DEF MaskInv, MaskKept
    <3>10. mask' \in S!Masks /\ frames' = frames
      BY <1>2, <2>1
    <3>11. QED
      <4>1. me.signal \in S!Masks /\ me.alarm \in BOOLEAN /\ me.awake \in BOOLEAN
        BY <1>2
      <4>2. old \in S!Masks /\ none \in S!Masks /\ "user" \in {"user", "pause", "sleep", "do_exit"}
        BY <3>6
      <4>3. "user" \in {"user", "pause"} => old = mask'
        BY <3>9
      <4>4. QED
        BY <3>4, <3>5, <3>8, <3>9, <3>10, <4>1, <4>2, <4>3, MaskStep
  <2>4. QED
    BY <1>13, <2>2, <2>3 DEF S!WakeUp
<1>14. CASE S!do_signal
  <2>1. PICK s : s = S!Next1
    OBVIOUS
  <2>2. PICK sa, signal : sa = me.sigaction[s] /\ signal = me.signal \ {s}
    OBVIOUS
  <2>3. s \in S!Sigs /\ sa \in S!Action /\ signal \in S!Masks
    <3>1. S!Deliverable \subseteq {"USR1", "ALRM"} /\ S!Deliverable # {}
      BY <1>2, <1>14, SigsAre DEF S!Deliverable, S!Masks, S!do_signal
    <3>2. \E t \in S!Deliverable : \A x \in S!Deliverable : S!Number[t] <= S!Number[x]
      <4>1. S!Number["USR1"] = 10 /\ S!Number["ALRM"] = 14
        BY DEF S!Number
      <4>2. CASE "USR1" \in S!Deliverable
        <5>1. \A x \in S!Deliverable : S!Number["USR1"] <= S!Number[x]
          BY <3>1, <4>1
        <5>2. QED
          BY <4>2, <5>1
      <4>3. CASE "USR1" \notin S!Deliverable
        <5>1. S!Deliverable = {"ALRM"}
          BY <3>1, <4>3
        <5>2. QED
          BY <4>1, <5>1
      <4>4. QED
        BY <4>2, <4>3
    <3>3. s \in S!Deliverable
      BY <2>1, <3>2 DEF S!Next1
    <3>4. s \in S!Sigs
      BY <3>1, <3>3, SigsAre
    <3>5. QED
      BY <1>2, <2>2, <3>4 DEF S!Masks
  <2>4. PICK rest : rest = [me EXCEPT !.signal = signal]
    OBVIOUS
  <2>5. rest = Task(signal, me.blocked, me.sigaction, me.alarm, me.pc, me.awake, me.old_blocked)
    BY <1>1, <2>4
  <2>6. me.pc = "user" /\ mask' = mask
    BY <1>14 DEF S!do_signal
  <2>7. \/ sa.handler = "IGN" /\ me' = rest /\ UNCHANGED frames
        \/ sa.handler = "DFL" /\ me' = [rest EXCEPT !.pc = "do_exit"] /\ UNCHANGED frames
        \/ /\ sa.handler = "caught"
           /\ Len(frames) < MaxFrames
           /\ me' = [rest EXCEPT !.sigaction[s].handler = IF sa.oneshot THEN "DFL" ELSE @,
                                  !.blocked = @ \cup sa.mask]
           /\ frames' = Append(frames, S!Frame(sa))
    BY <1>14, <2>1, <2>2, <2>4 DEF S!do_signal
  <2>8. CASE sa.handler = "IGN" /\ me' = rest /\ UNCHANGED frames
    <3>1. me' = Task(signal, me.blocked, me.sigaction, me.alarm, me.pc, me.awake, me.old_blocked)
      BY <2>5, <2>8
    <3>2. QED
      BY <1>2, <1>3, <2>3, <2>6, <2>8, <3>1, MaskStep
  <2>9. CASE sa.handler = "DFL" /\ me' = [rest EXCEPT !.pc = "do_exit"] /\ UNCHANGED frames
    <3>1. me' = Task(signal, me.blocked, me.sigaction, me.alarm, "do_exit", me.awake, me.old_blocked)
      BY <2>5, <2>9
    <3>2. QED
      <4>1. mask' \in S!Masks /\ frames' = frames /\ "do_exit" \in {"user", "pause", "sleep", "do_exit"}
        BY <1>2, <2>6, <2>9
      <4>2. signal \in S!Masks
        BY <2>3
      <4>3. QED
        BY <1>2, <1>3, <3>1, <4>1, <4>2, MaskStep
  <2>10. CASE /\ sa.handler = "caught"
              /\ Len(frames) < MaxFrames
              /\ me' = [rest EXCEPT !.sigaction[s].handler = IF sa.oneshot THEN "DFL" ELSE @,
                                     !.blocked = @ \cup sa.mask]
              /\ frames' = Append(frames, S!Frame(sa))
    <3>1. PICK action : action = [sa EXCEPT !.handler = IF sa.oneshot THEN "DFL" ELSE @]
      OBVIOUS
    <3>2. action \in S!Action /\ action.nomask = sa.nomask /\ action.mask = sa.mask
      BY <2>3, <3>1 DEF S!Action, S!Handlers
    <3>3. PICK sigaction : sigaction = [me.sigaction EXCEPT ![s] = action]
      OBVIOUS
    <3>4. sigaction \in [S!Sigs -> S!Action]
      BY <1>2, <2>3, <3>2, <3>3
    <3>5. \A t \in S!Sigs : sigaction[t].nomask => sigaction[t].mask = {}
      BY <1>2, <1>3, <2>2, <2>3, <3>2, <3>3
    <3>6. PICK blocked : blocked = me.blocked \cup sa.mask
      OBVIOUS
    <3>7. blocked \in S!Masks
      BY <1>2, <2>3, <3>6 DEF S!Masks, S!Action
    <3>8. me' = Task(signal, blocked, sigaction, me.alarm, me.pc, me.awake, me.old_blocked)
      <4>1. rest.sigaction = me.sigaction /\ rest.blocked = me.blocked
        BY <2>5
      <4>2. [me.sigaction EXCEPT ![s].handler = IF sa.oneshot THEN "DFL" ELSE @] = sigaction
        BY <1>2, <2>2, <2>3, <3>1, <3>3
      <4>3. me' = [rest EXCEPT !.sigaction = sigaction, !.blocked = blocked]
        BY <2>5, <2>10, <3>6, <4>1, <4>2
      <4>4. QED
        BY <2>5, <4>3
    <3>9. PICK f : f = S!Frame(sa)
      OBVIOUS
    <3>10. f \in S!Frames /\ f.nomask = sa.nomask /\ (~f.nomask => f.saved = me.blocked)
      <4>1. sa.nomask \in BOOLEAN
        BY <2>3 DEF S!Action
      <4>2. CASE sa.nomask
        BY <3>9, <4>1, <4>2 DEF S!Frame, S!NoMask, S!Frames, S!Masks
      <4>3. CASE ~sa.nomask
        BY <1>2, <3>9, <4>1, <4>3 DEF S!Frame, S!Frames
      <4>4. QED
        BY <4>2, <4>3
    <3>11. frames \in Seq(S!Frames) /\ frames' = Append(frames, f)
      BY <2>10, <3>9 DEF MaskInv, FramesAre
    <3>12. PICK n : n = Len(frames)
      OBVIOUS
    <3>13. /\ frames' \in Seq(S!Frames) /\ Len(frames') = n + 1 /\ frames'[n + 1] = f /\ n \in Nat
           /\ \A i \in 1 .. n : frames'[i] = frames[i]
           /\ DOMAIN frames = 1 .. n /\ DOMAIN frames' = 1 .. n + 1
           /\ \A i \in DOMAIN frames' : frames'[i] \in S!Frames
      BY <3>10, <3>11, <3>12
    <3>14. n < MaxFrames /\ MaxFrames \in Nat
      BY <2>10, <3>12, ConstantsAssumption DEF S!MaxFramesAssumption
    <3>15. /\ me' \in [signal : S!Masks, blocked : S!Masks, sigaction : [S!Sigs -> S!Action],
                        alarm : BOOLEAN, pc : {"user", "pause", "sleep", "do_exit"}, awake : BOOLEAN,
                        old_blocked : S!Masks]
           /\ me'.pc = "user" /\ me'.blocked = blocked /\ me'.sigaction = sigaction
      BY <1>2, <2>3, <2>6, <3>4, <3>7, <3>8
    <3>16. S!SignalsTypeOK' /\ FramesAre'
      BY <1>2, <2>6, <3>13, <3>14, <3>15 DEF S!SignalsTypeOK, FramesAre
    <3>17. ActionsFit'
      BY <3>5, <3>15 DEF ActionsFit
    <3>18. /\ (\A i \in 1 .. n : frames[i].nomask) => me.blocked = mask
           /\ \A i \in 1 .. n : FirstMasked(i) => frames[i].saved = mask
      BY <2>6, <3>13 DEF MaskInv, MaskKept
    <3>19. f.nomask => blocked = me.blocked
      BY <1>3, <2>2, <2>3, <3>6, <3>10
    <3>20. (\A i \in 1 .. n + 1 : frames'[i].nomask) => blocked = mask
      BY <3>13, <3>18, <3>19
    <3>21. ASSUME NEW i \in 1 .. n + 1, ~frames'[i].nomask,
                  \A j \in 1 .. n + 1 : j < i => frames'[j].nomask
           PROVE  frames'[i].saved = mask
      <4>1. CASE i = n + 1
        BY <3>10, <3>13, <3>18, <3>21, <4>1
      <4>2. CASE i # n + 1
        BY <3>13, <3>18, <3>21, <4>2 DEF FirstMasked
      <4>3. QED
        BY <4>1, <4>2
    <3>22. MaskKept'
      BY <2>6, <3>13, <3>15, <3>20, <3>21 DEF MaskKept, FirstMasked
    <3>23. QED
      BY <3>16, <3>17, <3>22 DEF MaskInv
  <2>11. QED
    BY <2>7, <2>8, <2>9, <2>10
<1>15. CASE S!HandlerReturn
  <2>1. PICK n, f : n = Len(frames) /\ f = frames[n]
    OBVIOUS
  <2>2. /\ me.pc = "user" /\ frames # <<>> /\ mask' = mask
        /\ frames' = SubSeq(frames, 1, n - 1)
        /\ me' = IF f.nomask THEN me ELSE [me EXCEPT !.blocked = f.saved]
    BY <1>15, <2>1 DEF S!HandlerReturn
  <2>3. frames \in Seq(S!Frames) /\ n \in Nat \ {0} /\ n <= MaxFrames /\ DOMAIN frames = 1 .. n
    BY <2>1, <2>2 DEF MaskInv, FramesAre, S!SignalsTypeOK
  <2>4. f \in S!Frames /\ f.saved \in S!Masks /\ f.nomask \in BOOLEAN
    <3>1. f \in S!Frames
      BY <2>1, <2>3
    <3>2. QED
      BY <3>1 DEF S!Frames
  <2>5. PICK k \in 0 .. n : k = n - 1
    BY <2>3
  <2>6. /\ frames' \in Seq(S!Frames) /\ Len(frames') = k /\ \A i \in 1 .. k : frames'[i] = frames[i]
        /\ DOMAIN frames' = 1 .. k /\ \A i \in DOMAIN frames' : frames'[i] \in S!Frames
    <3>1. k \in 0 .. Len(frames) /\ frames' = SubSeq(frames, 1, k)
      BY <2>1, <2>2, <2>5
    <3>2. /\ SubSeq(frames, 1, k) \in Seq(S!Frames) /\ Len(SubSeq(frames, 1, k)) = k
          /\ \A i \in 1 .. k : SubSeq(frames, 1, k)[i] = frames[i]
      BY <2>3, <3>1, PrefixIs
    <3>3. frames' \in Seq(S!Frames) /\ Len(frames') = k /\ \A i \in 1 .. k : frames'[i] = frames[i]
      BY <3>1, <3>2
    <3>4. QED
      BY <3>3
  <2>7. PICK blocked : blocked = IF f.nomask THEN me.blocked ELSE f.saved
    OBVIOUS
  <2>8. blocked \in S!Masks
    BY <1>2, <2>4, <2>7
  <2>9. me' = Task(me.signal, blocked, me.sigaction, me.alarm, me.pc, me.awake, me.old_blocked)
    <3>1. CASE f.nomask
      BY <1>1, <2>2, <2>7, <3>1
    <3>2. CASE ~f.nomask
      BY <1>1, <2>2, <2>7, <3>2
    <3>3. QED
      BY <3>1, <3>2
  <2>10. /\ me' \in [signal : S!Masks, blocked : S!Masks, sigaction : [S!Sigs -> S!Action],
                      alarm : BOOLEAN, pc : {"user", "pause", "sleep", "do_exit"}, awake : BOOLEAN,
                      old_blocked : S!Masks]
         /\ me'.pc = "user" /\ me'.blocked = blocked /\ me'.sigaction = me.sigaction
    BY <1>2, <2>2, <2>8, <2>9
  <2>11. k <= MaxFrames
    BY <2>3, <2>5, ConstantsAssumption DEF S!MaxFramesAssumption
  <2>12. S!SignalsTypeOK' /\ FramesAre'
    BY <1>2, <2>2, <2>6, <2>10, <2>11 DEF S!SignalsTypeOK, FramesAre
  <2>13. ActionsFit'
    BY <1>3, <2>10 DEF ActionsFit
  <2>14. /\ (\A i \in 1 .. n : frames[i].nomask) => me.blocked = mask
         /\ \A i \in 1 .. n : FirstMasked(i) => frames[i].saved = mask
    BY <2>2, <2>3 DEF MaskInv, MaskKept
  <2>15. (\A i \in 1 .. k : frames[i].nomask) => blocked = mask
    <3> SUFFICES ASSUME \A i \in 1 .. k : frames[i].nomask PROVE blocked = mask
      OBVIOUS
    <3>1. \A i \in 1 .. n : i < n => frames[i].nomask
      BY <2>3, <2>5
    <3>2. CASE f.nomask
      BY <2>1, <2>3, <2>7, <2>14, <3>1, <3>2
    <3>3. CASE ~f.nomask
      <4>1. FirstMasked(n) /\ n \in 1 .. n
        BY <2>1, <2>3, <3>1, <3>3 DEF FirstMasked
      <4>2. QED
        BY <2>1, <2>7, <2>14, <3>3, <4>1
    <3>4. QED
      BY <3>2, <3>3
  <2>16. ASSUME NEW i \in 1 .. k, ~frames[i].nomask, \A j \in 1 .. k : j < i => frames[j].nomask
         PROVE  frames[i].saved = mask
    <3>1. i \in 1 .. n /\ \A j \in 1 .. n : j < i => frames[j].nomask
      BY <2>3, <2>5, <2>16
    <3>2. FirstMasked(i)
      BY <2>3, <2>16, <3>1 DEF FirstMasked
    <3>3. QED
      BY <2>14, <3>1, <3>2
  <2>17. MaskKept'
    BY <2>2, <2>6, <2>10, <2>15, <2>16 DEF MaskKept, FirstMasked
  <2>18. QED
    BY <2>12, <2>13, <2>17 DEF MaskInv
<1>16. CASE UNCHANGED signalVars
  <2>1. me' = me /\ frames' = frames /\ mask' = mask
    BY <1>16 DEF signalVars
  <2>2. QED
    BY <2>1 DEF MaskInv, S!SignalsTypeOK, FramesAre, ActionsFit, MaskKept, FirstMasked
<1>17. QED
  BY <1>5, <1>6, <1>8, <1>9, <1>10, <1>11, <1>12, <1>13, <1>14, <1>15, <1>16 DEF S!SignalsNext

\* The invariant of the mask.
THEOREM MaskInvariant == S!SignalsSpec => []MaskInv
<1>1. S!SignalsInit => MaskInv
  BY MaskInit
<1>2. MaskInv /\ [S!SignalsNext]_signalVars => MaskInv'
  BY MaskNext
<1>3. S!signalVars = signalVars
  BY DEF S!signalVars, signalVars
<1>4. QED
  BY <1>1, <1>2, <1>3, PTL DEF S!SignalsSpec, S!signalVars, signalVars

\* However many handlers run one inside another, and whenever a sleep is cut short, the program has
\* the mask that it has set whenever no handler of its own is running (signal.c, sleep.c).
THEOREM HandlersAreConsistent == S!SignalsSpec => []HandlersConsistent
<1>1. MaskInv => HandlersConsistent
  <2> SUFFICES ASSUME MaskInv PROVE HandlersConsistent
    OBVIOUS
  <2>1. S!InMain => DOMAIN frames = {} /\ me.pc = "user"
    BY DEF S!InMain
  <2>2. S!MaskComesBack
    BY <2>1 DEF MaskInv, MaskKept, S!MaskComesBack
  <2>3. QED
    BY <2>2 DEF MaskInv, HandlersConsistent
<1>2. QED
  BY <1>1, MaskInvariant, PTL

-----------------------------------------------------------------------------
(* A pipe. *)

\* A task whose pointer has been moved, and whose bytes are still to be copied.
Busy(t) == end[t].pc \in {"copy", "fault"}

\* In the page r lie len bytes from start, those after the number x and before the number g.
Holds(r, g, x, start, len) ==
    /\ g = P!Byte(x + len)
    /\ \A k \in 0 .. len - 1 : r[(start + k) % PAGE_SIZE] = P!Byte(x + k)

PipeTypes ==
    /\ P!PipeTypeOK
    /\ end \in [P!Ends -> [pc : {"user", "loop", "copy", "fault", "asleep"}, count : 0 .. MaxCount,
                           from : P!Places, chars : 0 .. MaxCount]]

\* One task at most is between the move of a pointer and the end of its copying, as long as none
\* has been moved meanwhile.
Alone ==
    /\ \A t \in P!Ends : end[t].pc = "copy" => running = t
    /\ ~torn => \A t, u \in P!Ends : Busy(t) /\ Busy(u) => t = u

\* What lies in the page: the bytes between tail and head, with those that are being read, without
\* those that are being written.
Contents ==
    ~torn =>
        /\ (\A t \in P!Ends : ~Busy(t)) => Holds(ring, given, got, tail, P!PIPE_SIZE)
        /\ \A t \in Readers : Busy(t) =>
             /\ end[t].from + end[t].chars <= PAGE_SIZE
             /\ tail = (end[t].from + end[t].chars) % PAGE_SIZE
             /\ P!PIPE_SIZE + end[t].chars < PAGE_SIZE
             /\ Holds(ring, given, got, end[t].from, P!PIPE_SIZE + end[t].chars)
        /\ \A t \in Writers : Busy(t) =>
             /\ end[t].from + end[t].chars <= PAGE_SIZE
             /\ head = (end[t].from + end[t].chars) % PAGE_SIZE
             /\ end[t].chars <= P!PIPE_SIZE
             /\ Holds(ring, given, got, tail, P!PIPE_SIZE - end[t].chars)

PipeInv == PipeTypes /\ Alone /\ Contents /\ P!NobodyForgotten

\* The constants of the pipe.
LEMMA PipeConstants ==
    /\ PAGE_SIZE \in Nat \ {0, 1} /\ MaxCount \in Nat \ {0} /\ PAGE_SIZE \in Nat \ {0}
    /\ PAGE_SIZE + 1 \in Nat \ {0}
    /\ Readers \cap Writers = {} /\ P!NoOne \notin P!Ends /\ P!Ends = Readers \cup Writers
    /\ P!Places = 0 .. PAGE_SIZE - 1 /\ P!Bytes = 0 .. PAGE_SIZE
<1>1. P!PipeAssumption
  BY ConstantsAssumption
<1>2. QED
  BY <1>1 DEF P!PipeAssumption, P!Ends, P!Places, P!Bytes

\* The remainder of a number that is less than twice the divisor.
LEMMA ModIs ==
    ASSUME NEW n \in Nat \ {0}, NEW x \in 0 .. n - 1
    PROVE  x % n = x /\ (x + n) % n = x
  OBVIOUS

\* The remainder, when one subtraction is enough.
LEMMA WrapIs ==
    ASSUME NEW n \in Nat \ {0}, NEW x \in Nat, x < n + n
    PROVE  x % n = (IF x < n THEN x ELSE x - n) /\ x % n \in 0 .. n - 1
<1>1. CASE x < n
  <2>1. x \in 0 .. n - 1
    BY <1>1
  <2>2. QED
    BY <1>1, <2>1, ModIs
<1>2. CASE ~(x < n)
  <2>1. PICK y \in 0 .. n - 1 : x = y + n
    <3>1. x - n \in 0 .. n - 1 /\ x = (x - n) + n
      BY <1>2
    <3>2. QED
      BY <3>1
  <2>2. x % n = y
    BY <2>1, ModIs
  <2>3. QED
    BY <1>2, <2>1, <2>2
<1>3. QED
  BY <1>1, <1>2

\* The number of bytes between two places.
Size(h, t) == (PAGE_SIZE + h - t) % PAGE_SIZE

\* The number of bytes, without a remainder.
LEMMA SizeIs ==
    ASSUME NEW h \in P!Places, NEW t \in P!Places
    PROVE  Size(h, t) = (IF h < t THEN PAGE_SIZE + h - t ELSE h - t) /\ Size(h, t) \in 0 .. PAGE_SIZE - 1
<1>1. h \in 0 .. PAGE_SIZE - 1 /\ t \in 0 .. PAGE_SIZE - 1 /\ PAGE_SIZE \in Nat \ {0}
  BY PipeConstants
<1>2. PICK x : x = PAGE_SIZE + h - t
  OBVIOUS
<1>3. x \in Nat /\ x < PAGE_SIZE + PAGE_SIZE
  BY <1>1, <1>2
<1>4. x % PAGE_SIZE = (IF x < PAGE_SIZE THEN x ELSE x - PAGE_SIZE) /\ x % PAGE_SIZE \in 0 .. PAGE_SIZE - 1
  BY <1>1, <1>3, WrapIs
<1>5. Size(h, t) = x % PAGE_SIZE
  BY <1>2 DEF Size
<1>6. CASE h < t
  BY <1>1, <1>2, <1>4, <1>5, <1>6
<1>7. CASE ~(h < t)
  BY <1>1, <1>2, <1>4, <1>5, <1>7
<1>8. QED
  BY <1>6, <1>7

\* A place some bytes further on, and the number of a byte.
LEMMA PlaceIs ==
    ASSUME NEW p \in P!Places, NEW k \in 0 .. PAGE_SIZE
    PROVE  /\ (p + k) % PAGE_SIZE = (IF p + k < PAGE_SIZE THEN p + k ELSE p + k - PAGE_SIZE)
           /\ (p + k) % PAGE_SIZE \in P!Places
<1>1. p \in 0 .. PAGE_SIZE - 1 /\ PAGE_SIZE \in Nat \ {0}
  BY PipeConstants
<1>2. PICK x : x = p + k
  OBVIOUS
<1>3. x \in Nat /\ x < PAGE_SIZE + PAGE_SIZE
  BY <1>1, <1>2
<1>4. x % PAGE_SIZE = (IF x < PAGE_SIZE THEN x ELSE x - PAGE_SIZE) /\ x % PAGE_SIZE \in 0 .. PAGE_SIZE - 1
  BY <1>1, <1>3, WrapIs
<1>5. QED
  BY <1>2, <1>4, PipeConstants

\* The number of a byte some bytes later.
LEMMA ByteIs ==
    ASSUME NEW x \in P!Bytes, NEW k \in 0 .. PAGE_SIZE
    PROVE  /\ P!Byte(x + k) = (IF x + k < PAGE_SIZE + 1 THEN x + k ELSE x + k - (PAGE_SIZE + 1))
           /\ P!Byte(x + k) \in P!Bytes
<1>1. x \in 0 .. PAGE_SIZE /\ PAGE_SIZE \in Nat \ {0}
  BY PipeConstants
<1>2. PICK y, n : y = x + k /\ n = PAGE_SIZE + 1
  OBVIOUS
<1>3. n \in Nat \ {0} /\ y \in Nat /\ y < n + n
  BY <1>1, <1>2
<1>4. y % n = (IF y < n THEN y ELSE y - n) /\ y % n \in 0 .. n - 1
  BY <1>3, WrapIs
<1>5. P!Byte(x + k) = y % n
  BY <1>2 DEF P!Byte
<1>6. 0 .. n - 1 = P!Bytes
  BY <1>1, <1>2, PipeConstants
<1>7. QED
  BY <1>2, <1>4, <1>5, <1>6

\* Moving the tail, and moving the head.
LEMMA TailMoves ==
    ASSUME NEW h \in P!Places, NEW t \in P!Places, NEW c \in Nat, c <= Size(h, t), c <= PAGE_SIZE - t
    PROVE  (t + c) % PAGE_SIZE \in P!Places /\ Size(h, (t + c) % PAGE_SIZE) = Size(h, t) - c
<1>1. h \in 0 .. PAGE_SIZE - 1 /\ t \in 0 .. PAGE_SIZE - 1 /\ PAGE_SIZE \in Nat \ {0}
  BY PipeConstants
<1>2. c \in 0 .. PAGE_SIZE
  BY <1>1
<1>3. PICK u : u = (t + c) % PAGE_SIZE
  OBVIOUS
<1>4. u = (IF t + c < PAGE_SIZE THEN t + c ELSE t + c - PAGE_SIZE) /\ u \in P!Places
  BY <1>2, <1>3, PlaceIs
<1>5. Size(h, t) = (IF h < t THEN PAGE_SIZE + h - t ELSE h - t)
  BY SizeIs
<1>6. Size(h, u) = (IF h < u THEN PAGE_SIZE + h - u ELSE h - u)
  BY <1>4, SizeIs
<1>7. Size(h, u) = Size(h, t) - c
  BY <1>1, <1>4, <1>5, <1>6
<1>8. QED
  BY <1>3, <1>4, <1>7

\* The same of the head.
LEMMA HeadMoves ==
    ASSUME NEW h \in P!Places, NEW t \in P!Places, NEW c \in Nat, c <= PAGE_SIZE - 1 - Size(h, t),
           c <= PAGE_SIZE - h
    PROVE  (h + c) % PAGE_SIZE \in P!Places /\ Size((h + c) % PAGE_SIZE, t) = Size(h, t) + c
<1>1. h \in 0 .. PAGE_SIZE - 1 /\ t \in 0 .. PAGE_SIZE - 1 /\ PAGE_SIZE \in Nat \ {0}
  BY PipeConstants
<1>2. c \in 0 .. PAGE_SIZE
  BY <1>1
<1>3. PICK u : u = (h + c) % PAGE_SIZE
  OBVIOUS
<1>4. u = (IF h + c < PAGE_SIZE THEN h + c ELSE h + c - PAGE_SIZE) /\ u \in P!Places
  BY <1>2, <1>3, PlaceIs
<1>5. Size(h, t) = (IF h < t THEN PAGE_SIZE + h - t ELSE h - t)
  BY SizeIs
<1>6. Size(u, t) = (IF u < t THEN PAGE_SIZE + u - t ELSE u - t)
  BY <1>4, SizeIs
<1>7. Size(u, t) = Size(h, t) + c
  BY <1>1, <1>4, <1>5, <1>6
<1>8. QED
  BY <1>3, <1>4, <1>7

\* The bytes that are read leave the page.
LEMMA ReadLeaves ==
    ASSUME NEW r, NEW g, NEW x \in P!Bytes, NEW from \in P!Places, NEW c \in Nat, NEW len \in Nat,
           from + c <= PAGE_SIZE, len + c < PAGE_SIZE, Holds(r, g, x, from, len + c)
    PROVE  Holds(r, g, P!Byte(x + c), (from + c) % PAGE_SIZE, len)
<1>1. PAGE_SIZE \in Nat \ {0} /\ from \in 0 .. PAGE_SIZE - 1 /\ x \in 0 .. PAGE_SIZE /\ P!Bytes = 0 .. PAGE_SIZE
  BY PipeConstants
<1>2. c \in 0 .. PAGE_SIZE /\ len \in 0 .. PAGE_SIZE /\ len + c \in 0 .. PAGE_SIZE
  BY <1>1
<1>3. PICK y, u : y = P!Byte(x + c) /\ u = (from + c) % PAGE_SIZE
  OBVIOUS
<1>4. /\ y = (IF x + c < PAGE_SIZE + 1 THEN x + c ELSE x + c - (PAGE_SIZE + 1)) /\ y \in P!Bytes
      /\ u = (IF from + c < PAGE_SIZE THEN from + c ELSE from + c - PAGE_SIZE) /\ u \in P!Places
  BY <1>2, <1>3, ByteIs, PlaceIs
<1>5. ASSUME NEW k \in 0 .. len
      PROVE  P!Byte(y + k) = P!Byte(x + (c + k))
  <2>1. k \in 0 .. PAGE_SIZE /\ c + k \in 0 .. PAGE_SIZE
    BY <1>1, <1>2
  <2>2. P!Byte(y + k) = (IF y + k < PAGE_SIZE + 1 THEN y + k ELSE y + k - (PAGE_SIZE + 1))
    BY <1>4, <2>1, ByteIs
  <2>3. P!Byte(x + (c + k)) = (IF x + (c + k) < PAGE_SIZE + 1 THEN x + (c + k)
                               ELSE x + (c + k) - (PAGE_SIZE + 1))
    BY <2>1, ByteIs
  <2>4. QED
    BY <1>1, <1>2, <1>4, <2>1, <2>2, <2>3
<1>6. ASSUME NEW k \in 0 .. len - 1
      PROVE  (u + k) % PAGE_SIZE = (from + (c + k)) % PAGE_SIZE
  <2>1. k \in 0 .. PAGE_SIZE /\ c + k \in 0 .. PAGE_SIZE
    BY <1>1, <1>2
  <2>2. (u + k) % PAGE_SIZE = (IF u + k < PAGE_SIZE THEN u + k ELSE u + k - PAGE_SIZE)
    BY <1>4, <2>1, PlaceIs
  <2>3. (from + (c + k)) % PAGE_SIZE = (IF from + (c + k) < PAGE_SIZE THEN from + (c + k)
                                        ELSE from + (c + k) - PAGE_SIZE)
    BY <2>1, PlaceIs
  <2>4. QED
    BY <1>1, <1>2, <1>4, <2>1, <2>2, <2>3
<1>7. g = P!Byte(y + len)
  <2>1. g = P!Byte(x + (c + len))
    <3>1. len + c = c + len
      BY <1>2
    <3>2. QED
      BY <3>1 DEF Holds
  <2>2. len \in 0 .. len
    OBVIOUS
  <2>3. QED
    BY <1>5, <2>1, <2>2
<1>8. ASSUME NEW k \in 0 .. len - 1
      PROVE  r[(u + k) % PAGE_SIZE] = P!Byte(y + k)
  <2>1. c + k \in 0 .. (len + c) - 1 /\ k \in 0 .. len
    OBVIOUS
  <2>2. r[(from + (c + k)) % PAGE_SIZE] = P!Byte(x + (c + k))
    BY <2>1 DEF Holds
  <2>3. QED
    BY <1>5, <1>6, <2>1, <2>2
<1>9. QED
  BY <1>3, <1>7, <1>8 DEF Holds

\* The bytes that are written come behind those that lie in the page.
LEMMA WriteJoins ==
    ASSUME NEW r, NEW g \in P!Bytes, NEW x \in P!Bytes, NEW t \in P!Places, NEW from \in P!Places,
           NEW c \in Nat, from + c <= PAGE_SIZE, c <= Size((from + c) % PAGE_SIZE, t),
           Holds(r, g, x, t, Size((from + c) % PAGE_SIZE, t) - c),
           NEW q, q = [p \in P!Places |-> IF p \in from .. from + c - 1 THEN P!Byte(g + p - from) ELSE r[p]]
    PROVE  Holds(q, P!Byte(g + c), x, t, Size((from + c) % PAGE_SIZE, t))
<1>1. /\ PAGE_SIZE \in Nat \ {0} /\ from \in 0 .. PAGE_SIZE - 1 /\ x \in 0 .. PAGE_SIZE /\ g \in 0 .. PAGE_SIZE
      /\ t \in 0 .. PAGE_SIZE - 1 /\ P!Bytes = 0 .. PAGE_SIZE /\ P!Places = 0 .. PAGE_SIZE - 1
  BY PipeConstants
<1>2. PICK h : h = (from + c) % PAGE_SIZE
  OBVIOUS
<1>3. c \in 0 .. PAGE_SIZE
  BY <1>1
<1>4. h = (IF from + c < PAGE_SIZE THEN from + c ELSE from + c - PAGE_SIZE) /\ h \in P!Places
  BY <1>2, <1>3, PlaceIs
<1>5. PICK size : size = Size(h, t)
  OBVIOUS
<1>6. size = (IF h < t THEN PAGE_SIZE + h - t ELSE h - t) /\ size \in 0 .. PAGE_SIZE - 1
  BY <1>4, <1>5, SizeIs
<1>7. c <= size /\ Holds(r, g, x, t, size - c)
  BY <1>2, <1>5
<1>8. PICK old : old = size - c
  OBVIOUS
<1>9. old \in 0 .. PAGE_SIZE /\ old + c = size /\ old + c < PAGE_SIZE
  BY <1>1, <1>3, <1>6, <1>7, <1>8
<1>10. /\ g = P!Byte(x + old)
       /\ \A k \in 0 .. old - 1 : r[(t + k) % PAGE_SIZE] = P!Byte(x + k)
  BY <1>7, <1>8 DEF Holds
<1>11. g = (IF x + old < PAGE_SIZE + 1 THEN x + old ELSE x + old - (PAGE_SIZE + 1))
  BY <1>9, <1>10, ByteIs
<1>12. ASSUME NEW k \in 0 .. c
       PROVE  P!Byte(g + k) = P!Byte(x + (old + k))
  <2>1. k \in 0 .. PAGE_SIZE /\ old + k \in 0 .. PAGE_SIZE
    BY <1>1, <1>3, <1>9
  <2>2. P!Byte(g + k) = (IF g + k < PAGE_SIZE + 1 THEN g + k ELSE g + k - (PAGE_SIZE + 1))
    BY <2>1, ByteIs
  <2>3. P!Byte(x + (old + k)) = (IF x + (old + k) < PAGE_SIZE + 1 THEN x + (old + k)
                                 ELSE x + (old + k) - (PAGE_SIZE + 1))
    BY <2>1, ByteIs
  <2>4. QED
    BY <1>1, <1>9, <1>11, <2>1, <2>2, <2>3
<1>13. P!Byte(g + c) = P!Byte(x + size)
  <2>1. c \in 0 .. c
    BY <1>3
  <2>2. QED
    BY <1>9, <1>12, <2>1
<1>14. ASSUME NEW k \in 0 .. size - 1
       PROVE  q[(t + k) % PAGE_SIZE] = P!Byte(x + k)
  <2>1. k \in 0 .. PAGE_SIZE
    BY <1>1, <1>6
  <2>2. PICK p : p = (t + k) % PAGE_SIZE
    OBVIOUS
  <2>3. p = (IF t + k < PAGE_SIZE THEN t + k ELSE t + k - PAGE_SIZE) /\ p \in P!Places
    BY <2>1, <2>2, PlaceIs
  <2>4. CASE k < old
    <3>1. p \notin from .. from + c - 1
      BY <1>1, <1>3, <1>4, <1>6, <1>9, <2>1, <2>3, <2>4
    <3>2. q[p] = r[p]
      BY <2>3, <3>1
    <3>3. k \in 0 .. old - 1
      BY <1>9, <2>4
    <3>4. QED
      BY <1>10, <2>2, <3>2, <3>3
  <2>5. CASE ~(k < old)
    <3>1. PICK j \in 0 .. c - 1 : k = old + j
      <4>1. k - old \in 0 .. c - 1 /\ k = old + (k - old)
        BY <1>3, <1>6, <1>9, <2>5
      <4>2. QED
        BY <4>1
    <3>2. p = from + j
      BY <1>1, <1>3, <1>4, <1>6, <1>9, <2>1, <2>3, <3>1
    <3>3. p \in from .. from + c - 1 /\ g + p - from = g + j
      BY <1>1, <1>3, <3>1, <3>2
    <3>4. q[p] = P!Byte(g + j)
      BY <2>3, <3>3
    <3>5. j \in 0 .. c
      BY <1>3, <3>1
    <3>6. QED
      BY <1>12, <2>2, <3>1, <3>4, <3>5
  <2>6. QED
    BY <2>4, <2>5
<1>15. Holds(q, P!Byte(g + c), x, t, size)
  BY <1>13, <1>14 DEF Holds
<1>16. QED
  BY <1>2, <1>5, <1>15

\* The number of open ends is 2 exactly when both ends are open.
LEMMA CountIs ==
    P!i_count = 2 <=> Readers \cap open # {} /\ Writers \cap open # {}
<1>1. PICK ends : ends = {e \in {Readers, Writers} : e \cap open # {}}
  OBVIOUS
<1>2. P!i_count = Cardinality(ends)
  BY <1>1 DEF P!i_count, P!Cardinality, Cardinality
<1>3. /\ IsFiniteSet({}) /\ Cardinality({}) = 0
      /\ \A x : IsFiniteSet({x}) /\ Cardinality({x}) = 1
  BY FS_EmptySet, FS_Singleton
<1>4. CASE Readers \cap open # {} /\ Writers \cap open # {}
  <2>1. Readers # Writers
    BY <1>4, PipeConstants
  <2>2. ends = {Readers} \cup {Writers}
    BY <1>1, <1>4
  <2>3. Cardinality({Readers} \cup {Writers})
          = IF Writers \in {Readers} THEN Cardinality({Readers}) ELSE Cardinality({Readers}) + 1
    BY <1>3, FS_AddElement
  <2>4. Cardinality(ends) = 2
    <3>1. Writers \notin {Readers}
      BY <2>1
    <3>2. Cardinality({Readers}) = 1
      BY <1>3
    <3>3. Cardinality({Readers} \cup {Writers}) = 1 + 1
      BY <2>3, <3>1, <3>2
    <3>4. QED
      BY <2>2, <3>3
  <2>5. QED
    BY <1>2, <1>4, <2>4
<1>5. CASE ~(Readers \cap open # {} /\ Writers \cap open # {})
  <2>1. ends = {} \/ (\E x : ends = {x})
    <3>1. ends = {} \/ ends = {Readers} \/ ends = {Writers}
      BY <1>1, <1>5
    <3>2. QED
      BY <3>1
  <2>2. Cardinality(ends) \in {0, 1}
    BY <1>3, <2>1
  <2>3. QED
    BY <1>2, <1>5, <2>2
<1>6. QED
  BY <1>4, <1>5

\* The records of the tasks.
CallSet == [pc : {"user", "loop", "copy", "fault", "asleep"}, count : 0 .. MaxCount,
            from : P!Places, chars : 0 .. MaxCount]

\* What the types say of each variable.
LEMMA CallsAre ==
    ASSUME PipeTypes
    PROVE  /\ end \in [P!Ends -> CallSet] /\ head \in P!Places /\ tail \in P!Places
           /\ ring \in [P!Places -> P!Bytes \cup {P!None}] /\ open \subseteq P!Ends
           /\ running \in P!Ends \cup {P!NoOne} /\ given \in P!Bytes /\ got \in P!Bytes /\ torn \in BOOLEAN
           /\ P!PIPE_SIZE = Size(head, tail) /\ P!PIPE_SIZE \in 0 .. PAGE_SIZE - 1
           /\ P!Room = PAGE_SIZE - 1 - Size(head, tail)
           /\ \A t \in P!Ends : end[t] \in CallSet
<1>1. /\ end \in [P!Ends -> CallSet] /\ head \in P!Places /\ tail \in P!Places
      /\ ring \in [P!Places -> P!Bytes \cup {P!None}] /\ open \subseteq P!Ends
      /\ running \in P!Ends \cup {P!NoOne} /\ given \in P!Bytes /\ got \in P!Bytes /\ torn \in BOOLEAN
  BY DEF PipeTypes, P!PipeTypeOK, CallSet
<1>2. P!PIPE_SIZE = Size(head, tail)
  BY DEF P!PIPE_SIZE, Size
<1>3. Size(head, tail) \in 0 .. PAGE_SIZE - 1
  BY <1>1, SizeIs
<1>4. QED
  BY <1>1, <1>2, <1>3 DEF P!Room

\* A new state of the pipe is of its types.
LEMMA PipeTypesNext ==
    ASSUME end' \in [P!Ends -> CallSet], head' \in P!Places, tail' \in P!Places,
           ring' \in [P!Places -> P!Bytes \cup {P!None}], open' \subseteq P!Ends,
           running' \in P!Ends \cup {P!NoOne}, given' \in P!Bytes, got' \in P!Bytes, torn' \in BOOLEAN
    PROVE  PipeTypes'
<1>1. \A t \in P!Ends : /\ end'[t].pc \in {"user", "loop", "copy", "fault", "asleep"}
                        /\ end'[t].count \in 0 .. MaxCount /\ end'[t].chars \in 0 .. MaxCount
  <2>1. \A t \in P!Ends : end'[t] \in CallSet
    OBVIOUS
  <2>2. QED
    BY <2>1 DEF CallSet
<1>2. P!PipeTypeOK'
  BY <1>1 DEF P!PipeTypeOK
<1>3. QED
  BY <1>2 DEF PipeTypes, CallSet

\* The start: the page is empty.
LEMMA PipeInit == P!PipeInit => PipeInv
<1> SUFFICES ASSUME P!PipeInit PROVE PipeInv
  OBVIOUS
<1>1. /\ head = 0 /\ tail = 0 /\ ring = [p \in P!Places |-> P!None]
      /\ open = P!Ends /\ end = [t \in P!Ends |-> P!Idle] /\ running = P!NoOne
      /\ given = 0 /\ got = 0 /\ torn = FALSE
  BY DEF P!PipeInit
<1>2. 0 \in P!Places /\ 0 \in P!Bytes /\ 0 \in 0 .. MaxCount /\ 0 \in 0 .. PAGE_SIZE
  BY PipeConstants
<1>3. P!Idle \in CallSet /\ P!Idle.pc = "user"
  BY <1>2 DEF P!Idle, CallSet
<1>4. end \in [P!Ends -> CallSet] /\ \A t \in P!Ends : end[t].pc = "user" /\ end[t] \in CallSet
  BY <1>1, <1>3
<1>5. ring \in [P!Places -> P!Bytes \cup {P!None}]
  BY <1>1
<1>6. PipeTypes
  <2>1. \A t \in P!Ends : /\ end[t].pc \in {"user", "loop", "copy", "fault", "asleep"}
                          /\ end[t].count \in 0 .. MaxCount /\ end[t].chars \in 0 .. MaxCount
    BY <1>4 DEF CallSet
  <2>2. P!PipeTypeOK
    BY <1>1, <1>2, <1>5, <2>1 DEF P!PipeTypeOK
  <2>3. QED
    BY <1>4, <2>2 DEF PipeTypes, CallSet
<1>7. \A t \in P!Ends : ~Busy(t) /\ end[t].pc # "asleep"
  BY <1>4 DEF Busy
<1>8. Alone
  BY <1>4, <1>7 DEF Alone
<1>9. P!PIPE_SIZE = 0
  BY <1>1, <1>2, CallsAre, <1>6, SizeIs
<1>10. Holds(ring, given, got, tail, 0)
  <2>1. P!Byte(0 + 0) = 0
    BY <1>2, PipeConstants, ByteIs
  <2>2. 0 .. 0 - 1 = {}
    OBVIOUS
  <2>3. QED
    BY <1>1, <2>1, <2>2 DEF Holds
<1>11. Contents
  BY <1>7, <1>9, <1>10, PipeConstants DEF Contents
<1>12. P!NobodyForgotten
  BY <1>7, PipeConstants DEF P!NobodyForgotten
<1>13. QED
  BY <1>6, <1>8, <1>11, <1>12 DEF PipeInv

\* The minimum of three numbers.
LEMMA LeastOfThree ==
    ASSUME NEW a \in Nat, NEW b \in Nat, NEW c \in Nat
    PROVE  /\ P!Min({a, b, c}) \in {a, b, c}
           /\ P!Min({a, b, c}) <= a /\ P!Min({a, b, c}) <= b /\ P!Min({a, b, c}) <= c
<1>1. \E x \in {a, b, c} : \A y \in {a, b, c} : x <= y
  <2>1. CASE a <= b /\ a <= c
    BY <2>1
  <2>2. CASE b <= a /\ b <= c
    BY <2>2
  <2>3. CASE c <= a /\ c <= b
    BY <2>3
  <2>4. QED
    BY <2>1, <2>2, <2>3
<1>2. PICK x : x = P!Min({a, b, c})
  OBVIOUS
<1>3. x \in {a, b, c} /\ \A y \in {a, b, c} : x <= y
  BY <1>1, <1>2 DEF P!Min
<1>4. QED
  BY <1>2, <1>3

\* Who runs in the kernel is not held up by the copying of another task.
LEMMA RunnerIs ==
    ASSUME PipeInv, NEW t \in P!Ends, NEW pc, P!Runs(t, pc)
    PROVE  /\ torn = FALSE /\ end[t].pc = pc
           /\ \A u \in P!Ends : u # t => end[u].pc # "copy"
<1>1. running \in {t, P!NoOne} /\ end[t].pc = pc /\ ~torn
  BY DEF P!Runs
<1>2. torn \in BOOLEAN
  BY CallsAre DEF PipeInv
<1>3. \A u \in P!Ends : end[u].pc = "copy" => running = u
  BY DEF PipeInv, Alone
<1>4. QED
  BY <1>1, <1>2, <1>3, PipeConstants

\* A step that moves neither pointer nor bytes, and does not change who copies what.
LEMMA ContentsKept ==
    ASSUME PipeTypes, Contents, torn' = torn,
           head' = head, tail' = tail, ring' = ring, given' = given, got' = got,
           \A u \in P!Ends : (end'[u].pc \in {"copy", "fault"}) <=> Busy(u),
           \A u \in P!Ends : Busy(u) => end'[u].from = end[u].from /\ end'[u].chars = end[u].chars
    PROVE  Contents'
<1>1. SUFFICES ASSUME ~torn' PROVE Contents'
  BY DEF Contents
<1>2. P!PIPE_SIZE' = P!PIPE_SIZE
  BY DEF P!PIPE_SIZE
<1>3. \A u \in P!Ends : Busy(u)' <=> Busy(u)
  BY DEF Busy
<1>4. \A x, s, n : Holds(ring, given, got, s, n)' <=> Holds(ring, given, got, s, n)
  OBVIOUS
<1>5. (\A t \in P!Ends : ~Busy(t)') => Holds(ring, given, got, tail, P!PIPE_SIZE)'
  BY <1>1, <1>2, <1>3 DEF Contents
<1>6. ASSUME NEW t \in Readers, Busy(t)'
      PROVE  /\ end'[t].from + end'[t].chars <= PAGE_SIZE
             /\ tail' = (end'[t].from + end'[t].chars) % PAGE_SIZE
             /\ P!PIPE_SIZE' + end'[t].chars < PAGE_SIZE
             /\ Holds(ring', given', got', end'[t].from, P!PIPE_SIZE' + end'[t].chars)
  <2>1. t \in P!Ends
    BY PipeConstants
  <2>2. Busy(t) /\ end'[t].from = end[t].from /\ end'[t].chars = end[t].chars
    BY <1>3, <1>6, <2>1
  <2>3. QED
    BY <1>1, <1>2, <2>2 DEF Contents
<1>7. ASSUME NEW t \in Writers, Busy(t)'
      PROVE  /\ end'[t].from + end'[t].chars <= PAGE_SIZE
             /\ head' = (end'[t].from + end'[t].chars) % PAGE_SIZE
             /\ end'[t].chars <= P!PIPE_SIZE'
             /\ Holds(ring', given', got', tail', P!PIPE_SIZE' - end'[t].chars)
  <2>1. t \in P!Ends
    BY PipeConstants
  <2>2. Busy(t) /\ end'[t].from = end[t].from /\ end'[t].chars = end[t].chars
    BY <1>3, <1>7, <2>1
  <2>3. QED
    BY <1>1, <1>2, <2>2 DEF Contents
<1>8. QED
  BY <1>5, <1>6, <1>7 DEF Contents

\* Of NobodyForgotten, after a step that leaves nobody asleep, ...
LEMMA NobodySleeps ==
    ASSUME \A u \in P!Ends : end'[u].pc # "asleep"
    PROVE  P!NobodyForgotten'
  BY PipeConstants DEF P!NobodyForgotten

\* ... and after one that puts nobody to sleep, closes no end and leaves a task at work.
LEMMA SomebodyWorks ==
    ASSUME P!NobodyForgotten, open' = open,
           \A u \in P!Ends : end'[u].pc = "asleep" => end[u].pc = "asleep",
           NEW t \in P!Ends, end'[t].pc \in {"loop", "copy", "fault"}
    PROVE  P!NobodyForgotten'
<1>1. P!i_count' = P!i_count
  BY DEF P!i_count
<1>2. P!i_count' # 2 => \A u \in P!Ends : end'[u].pc # "asleep"
  BY <1>1 DEF P!NobodyForgotten
<1>3. \E u \in P!Ends : P!InKernel(u)'
  BY DEF P!InKernel
<1>4. QED
  BY <1>2, <1>3 DEF P!NobodyForgotten

\* wake_up() changes only those who sleep.
LEMMA WokenIs ==
    ASSUME end \in [P!Ends -> CallSet]
    PROVE  /\ P!Woken \in [P!Ends -> CallSet]
           /\ \A u \in P!Ends : P!Woken[u].pc # "asleep"
           /\ \A u \in P!Ends : end[u].pc # "asleep" => P!Woken[u] = end[u]
           /\ \A u \in P!Ends : end[u].pc = "asleep" => P!Woken[u].pc = "loop"
<1>1. ASSUME NEW u \in P!Ends, end[u].pc = "asleep"
      PROVE  [end[u] EXCEPT !.pc = "loop"] \in CallSet /\ [end[u] EXCEPT !.pc = "loop"].pc = "loop"
  <2>1. end[u] \in CallSet
    OBVIOUS
  <2>2. QED
    BY <2>1 DEF CallSet
<1>2. \A u \in P!Ends : P!Woken[u] = IF end[u].pc = "asleep" THEN [end[u] EXCEPT !.pc = "loop"] ELSE end[u]
  BY DEF P!Woken
<1>3. P!Woken \in [P!Ends -> CallSet]
  BY <1>1 DEF P!Woken
<1>4. QED
  BY <1>1, <1>2, <1>3

\* What the records of a task are after a step that changes only its own.
LEMMA IdleIs ==
    /\ P!Idle \in CallSet /\ P!Idle.pc = "user"
    /\ \A n \in 1 .. MaxCount : /\ [P!Idle EXCEPT !.pc = "loop", !.count = n] \in CallSet
                                /\ [P!Idle EXCEPT !.pc = "loop", !.count = n].pc = "loop"
<1>1. 0 \in P!Places /\ 0 \in 0 .. MaxCount
  BY PipeConstants
<1>2. P!Idle \in CallSet /\ P!Idle.pc = "user"
  BY <1>1 DEF P!Idle, CallSet
<1>3. ASSUME NEW n \in 1 .. MaxCount
      PROVE  /\ [P!Idle EXCEPT !.pc = "loop", !.count = n] \in CallSet
             /\ [P!Idle EXCEPT !.pc = "loop", !.count = n].pc = "loop"
  <2>1. n \in 0 .. MaxCount
    BY PipeConstants
  <2>2. QED
    BY <1>2, <2>1 DEF CallSet
<1>4. QED
  BY <1>2, <1>3

\* A task begins a call.
LEMMA CallStep ==
    ASSUME PipeInv, NEW t \in P!Ends, NEW n \in 1 .. MaxCount, P!Call(t, n)
    PROVE  PipeInv'
<1>1. PipeTypes /\ Contents /\ P!NobodyForgotten /\ Alone
  BY DEF PipeInv
<1>2. P!Runs(t, "user")
  BY DEF P!Call
<1>3. torn = FALSE /\ end[t].pc = "user" /\ \A u \in P!Ends : u # t => end[u].pc # "copy"
  BY <1>2, RunnerIs
<1>4. PICK r : r = [P!Idle EXCEPT !.pc = "loop", !.count = n]
  OBVIOUS
<1>5. r \in CallSet /\ r.pc = "loop"
  BY <1>4, IdleIs
<1>6. /\ end' = [end EXCEPT ![t] = r] /\ running' = t
      /\ UNCHANGED <<head, tail, ring, open, given, got, torn>>
  BY <1>4 DEF P!Call
<1>7. end \in [P!Ends -> CallSet]
  BY <1>1, CallsAre
<1>8. end' \in [P!Ends -> CallSet] /\ end'[t].pc = "loop" /\ \A u \in P!Ends : u # t => end'[u] = end[u]
  BY <1>5, <1>6, <1>7
<1>9. PipeTypes'
  BY <1>1, <1>6, <1>8, CallsAre, PipeTypesNext
<1>10. \A u \in P!Ends : (end'[u].pc \in {"copy", "fault"}) <=> Busy(u)
  BY <1>3, <1>8 DEF Busy
<1>11. \A u \in P!Ends : Busy(u) => u # t
  BY <1>3 DEF Busy
<1>12. Contents'
  BY <1>1, <1>6, <1>8, <1>10, <1>11, ContentsKept
<1>13. Alone'
  <2>1. \A u \in P!Ends : Busy(u)' <=> Busy(u)
    BY <1>10 DEF Busy
  <2>2. \A u \in P!Ends : end'[u].pc = "copy" => running' = u
    BY <1>3, <1>8
  <2>3. QED
    BY <1>1, <1>6, <2>1, <2>2 DEF Alone
<1>14. P!NobodyForgotten'
  BY <1>1, <1>3, <1>6, <1>8, SomebodyWorks
<1>15. QED
  BY <1>9, <1>12, <1>13, <1>14 DEF PipeInv

\* A task stops running in the loop of a call, and nothing is copied: whoever goes to sleep, or
\* is woken, copies nothing either.
LEMMA LoopLeft ==
    ASSUME PipeInv, NEW t \in P!Ends, P!Runs(t, "loop"),
           end' \in [P!Ends -> CallSet], end'[t].pc \in {"user", "asleep"},
           \A u \in P!Ends : u # t => end'[u] = P!Woken[u],
           running' = P!NoOne, UNCHANGED <<head, tail, ring, open, given, got, torn>>
    PROVE  PipeTypes' /\ Alone' /\ Contents'
<1>1. PipeTypes /\ Contents /\ Alone
  BY DEF PipeInv
<1>2. torn = FALSE /\ end[t].pc = "loop" /\ \A u \in P!Ends : u # t => end[u].pc # "copy"
  BY RunnerIs
<1>3. end \in [P!Ends -> CallSet]
  BY <1>1, CallsAre
<1>4. ASSUME NEW u \in P!Ends
      PROVE  /\ (end'[u].pc \in {"copy", "fault"}) <=> Busy(u)
             /\ Busy(u) => end'[u] = end[u]
  <2>1. CASE u = t
    BY <1>2, <2>1 DEF Busy
  <2>2. CASE u # t /\ end[u].pc = "asleep"
    BY <1>3, <2>2, WokenIs DEF Busy
  <2>3. CASE u # t /\ end[u].pc # "asleep"
    BY <1>3, <2>3, WokenIs DEF Busy
  <2>4. QED
    BY <2>1, <2>2, <2>3
<1>5. PipeTypes'
  <2>1. running' \in P!Ends \cup {P!NoOne}
    OBVIOUS
  <2>2. QED
    BY <1>1, <2>1, CallsAre, PipeTypesNext
<1>6. Contents'
  BY <1>1, <1>4, ContentsKept
<1>7. Alone'
  <2>1. \A u \in P!Ends : Busy(u)' <=> Busy(u)
    BY <1>4 DEF Busy
  <2>2. \A u \in P!Ends : end'[u].pc # "copy"
    BY <1>2, <1>4 DEF Busy
  <2>3. QED
    BY <1>1, <2>1, <2>2 DEF Alone
<1>8. QED
  BY <1>5, <1>6, <1>7

\* The call is over.
LEMMA ReturnStep ==
    ASSUME PipeInv, NEW t \in P!Ends, P!Runs(t, "loop"), end' = [P!Woken EXCEPT ![t] = P!Idle],
           running' = P!NoOne, UNCHANGED <<head, tail, ring, open, given, got, torn>>
    PROVE  PipeInv'
<1>1. end \in [P!Ends -> CallSet]
  BY CallsAre DEF PipeInv
<1>2. /\ P!Woken \in [P!Ends -> CallSet] /\ P!Idle \in CallSet /\ P!Idle.pc = "user"
      /\ \A u \in P!Ends : P!Woken[u].pc # "asleep"
  BY <1>1, WokenIs, IdleIs
<1>3. /\ end' \in [P!Ends -> CallSet] /\ end'[t].pc = "user"
      /\ \A u \in P!Ends : u # t => end'[u] = P!Woken[u]
  BY <1>2
<1>4. PipeTypes' /\ Alone' /\ Contents'
  BY <1>3, LoopLeft
<1>5. P!NobodyForgotten'
  BY <1>2, <1>3, NobodySleeps
<1>6. QED
  BY <1>4, <1>5 DEF PipeInv

\* The task sleeps, as a reader of an empty page or a writer of a full one.
LEMMA SleepStep ==
    ASSUME PipeInv, NEW t \in P!Ends, P!Runs(t, "loop"), end' = [P!Woken EXCEPT ![t].pc = "asleep"],
           P!i_count = 2, t \in Readers => P!PIPE_SIZE = 0, t \in Writers => P!Room = 0,
           running' = P!NoOne, UNCHANGED <<head, tail, ring, open, given, got, torn>>
    PROVE  PipeInv'
<1>1. end \in [P!Ends -> CallSet]
  BY CallsAre DEF PipeInv
<1>2. P!Woken \in [P!Ends -> CallSet] /\ \A u \in P!Ends : P!Woken[u].pc # "asleep"
  BY <1>1, WokenIs
<1>3. [P!Woken[t] EXCEPT !.pc = "asleep"] \in CallSet /\ [P!Woken[t] EXCEPT !.pc = "asleep"].pc = "asleep"
  <2>1. P!Woken[t] \in CallSet
    BY <1>2
  <2>2. QED
    BY <2>1 DEF CallSet
<1>4. /\ end' \in [P!Ends -> CallSet] /\ end'[t].pc = "asleep"
      /\ \A u \in P!Ends : u # t => end'[u] = P!Woken[u]
  BY <1>2, <1>3
<1>5. PipeTypes' /\ Alone' /\ Contents'
  BY <1>4, LoopLeft
<1>6. P!i_count' = 2 /\ P!PIPE_SIZE' = P!PIPE_SIZE /\ P!Room' = P!Room
  BY DEF P!i_count, P!PIPE_SIZE, P!Room
<1>7. \A u \in P!Ends : end'[u].pc = "asleep" => u = t
  BY <1>2, <1>4
<1>8. (\E u \in Readers : end'[u].pc = "asleep") => ~(P!PIPE_SIZE' > 0)
  BY <1>6, <1>7, PipeConstants
<1>9. (\E u \in Writers : end'[u].pc = "asleep") => ~(P!Room' > 0)
  BY <1>6, <1>7, PipeConstants
<1>10. P!NobodyForgotten'
  BY <1>6, <1>8, <1>9 DEF P!NobodyForgotten
<1>11. QED
  BY <1>5, <1>10 DEF PipeInv

\* Nothing to copy: the task sleeps, or the call is over because the other end is closed.
LEMMA WaitStep ==
    ASSUME PipeInv, NEW t \in P!Ends, P!Runs(t, "loop"), P!Wait(t),
           t \in Readers => P!PIPE_SIZE = 0, t \in Writers => P!Room = 0,
           UNCHANGED <<head, tail, ring, open, given, got, torn>>
    PROVE  PipeInv'
<1>1. running' = P!NoOne
  BY DEF P!Wait
<1>2. CASE P!i_count # 2
  <2>1. end' = [P!Woken EXCEPT ![t] = P!Idle]
    BY <1>2 DEF P!Wait
  <2>2. QED
    BY <1>1, <2>1, ReturnStep
<1>3. CASE P!i_count = 2
  <2>1. end' = [P!Woken EXCEPT ![t].pc = "asleep"]
    BY <1>3 DEF P!Wait
  <2>2. QED
    BY <1>1, <1>3, <2>1, SleepStep
<1>4. QED
  BY <1>2, <1>3

\* A pointer is moved: c bytes from its old place are still to be copied.
Moved(t, from, size, c) ==
    /\ c \in 1 .. MaxCount /\ c <= PAGE_SIZE - from /\ c <= size
    /\ end' \in [P!Ends -> CallSet]
    /\ end'[t].pc = "copy" /\ end'[t].from = from /\ end'[t].chars = c
    /\ \A u \in P!Ends : u # t => end'[u] = end[u]

\* What a move of a pointer does.
LEMMA MoveIs ==
    ASSUME PipeInv, NEW t \in P!Ends, P!Runs(t, "loop"), NEW from \in P!Places,
           NEW size \in 1 .. PAGE_SIZE, end[t].count > 0, P!Move(t, from, size)
    PROVE  /\ \E c \in 1 .. MaxCount : Moved(t, from, size, c)
           /\ running' = t /\ torn' \in BOOLEAN
           /\ ~torn' => \A u \in P!Ends : ~Busy(u)
<1>1. torn = FALSE /\ end[t].pc = "loop" /\ \A u \in P!Ends : u # t => end[u].pc # "copy"
  BY RunnerIs
<1>2. end \in [P!Ends -> CallSet] /\ end[t] \in CallSet
  BY CallsAre DEF PipeInv
<1>3. PICK n : n = end[t].count
  OBVIOUS
<1>4. n \in 1 .. MaxCount
  <2>1. n \in 0 .. MaxCount
    BY <1>2, <1>3 DEF CallSet
  <2>2. QED
    BY <1>3, <2>1
<1>5. /\ MaxCount \in Nat /\ PAGE_SIZE \in Nat /\ from \in 0 .. PAGE_SIZE - 1
      /\ PAGE_SIZE - from \in 1 .. PAGE_SIZE
  BY PipeConstants
<1>6. PICK c : c = P!Min({PAGE_SIZE - from, n, size})
  OBVIOUS
<1>7. c \in {PAGE_SIZE - from, n, size} /\ c <= PAGE_SIZE - from /\ c <= n /\ c <= size
  <2>1. PAGE_SIZE - from \in Nat /\ n \in Nat /\ size \in Nat
    BY <1>4, <1>5
  <2>2. QED
    BY <1>6, <2>1, LeastOfThree
<1>8. c \in 1 .. MaxCount /\ n - c \in 0 .. MaxCount
  BY <1>4, <1>5, <1>7
<1>9. PICK r : r = [pc |-> "copy", count |-> n - c, from |-> from, chars |-> c]
  OBVIOUS
<1>10. r \in CallSet /\ r.pc = "copy" /\ r.from = from /\ r.chars = c
  BY <1>8, <1>9 DEF CallSet
<1>11. /\ end' = [end EXCEPT ![t] = r] /\ running' = t
       /\ torn' = (\E u \in P!Ends \ {t} : end[u].pc = "fault")
  BY <1>3, <1>6, <1>9 DEF P!Move
<1>12. /\ end' \in [P!Ends -> CallSet] /\ end'[t] = r
       /\ \A u \in P!Ends : u # t => end'[u] = end[u]
  BY <1>2, <1>10, <1>11
<1>13. Moved(t, from, size, c)
  BY <1>7, <1>8, <1>10, <1>12 DEF Moved
<1>14. ~torn' => \A u \in P!Ends : ~Busy(u)
  BY <1>1, <1>11 DEF Busy
<1>15. QED
  BY <1>8, <1>11, <1>13, <1>14

\* After the move one task copies, and it is at work.
LEMMA MoverIs ==
    ASSUME PipeInv, NEW t \in P!Ends, P!Runs(t, "loop"), NEW from, NEW size,
           NEW c \in 1 .. MaxCount, Moved(t, from, size, c), running' = t, open' = open,
           ~torn' => \A u \in P!Ends : ~Busy(u)
    PROVE  /\ Alone' /\ P!NobodyForgotten'
           /\ ~torn' => \A u \in P!Ends : Busy(u)' <=> u = t
<1>1. P!NobodyForgotten
  BY DEF PipeInv
<1>2. \A u \in P!Ends : u # t => end[u].pc # "copy"
  BY RunnerIs
<1>3. end'[t].pc = "copy" /\ \A u \in P!Ends : u # t => end'[u] = end[u]
  BY DEF Moved
<1>4. ~torn' => \A u \in P!Ends : Busy(u)' <=> u = t
  BY <1>3 DEF Busy
<1>5. \A u \in P!Ends : end'[u].pc = "copy" => running' = u
  BY <1>2, <1>3
<1>6. Alone'
  BY <1>4, <1>5 DEF Alone
<1>7. P!NobodyForgotten'
  BY <1>1, <1>3, SomebodyWorks
<1>8. QED
  BY <1>4, <1>6, <1>7

\* A reader at the head of its loop.
LEMMA ReadLoopStep ==
    ASSUME PipeInv, NEW t \in P!Ends, P!ReadLoop(t)
    PROVE  PipeInv'
<1>1. t \in Readers /\ P!Runs(t, "loop") /\ UNCHANGED <<head, ring, open, given, got>>
  BY DEF P!ReadLoop
<1>2. t \notin Writers
  BY <1>1, PipeConstants
<1>3. CASE end[t].count = 0 /\ P!Return(t) /\ UNCHANGED <<tail, torn>>
  <2>1. end' = [P!Woken EXCEPT ![t] = P!Idle] /\ running' = P!NoOne
    BY <1>3 DEF P!Return
  <2>2. QED
    BY <1>1, <1>3, <2>1, ReturnStep
<1>4. CASE end[t].count > 0 /\ P!PIPE_SIZE = 0 /\ P!Wait(t) /\ UNCHANGED <<tail, torn>>
  BY <1>1, <1>2, <1>4, WaitStep
<1>5. CASE end[t].count > 0 /\ P!PIPE_SIZE > 0 /\ P!Move(t, tail, P!PIPE_SIZE) /\ tail' = P!Step(tail, t)
  <2>1. /\ PipeTypes /\ Contents
        /\ head \in P!Places /\ tail \in P!Places /\ P!PIPE_SIZE = Size(head, tail)
        /\ P!PIPE_SIZE \in 0 .. PAGE_SIZE - 1
    BY CallsAre DEF PipeInv
  <2>2. PICK size : size = P!PIPE_SIZE
    OBVIOUS
  <2>3. size \in 1 .. PAGE_SIZE /\ size < PAGE_SIZE
    BY <1>5, <2>1, <2>2, PipeConstants
  <2>4. /\ \E c \in 1 .. MaxCount : Moved(t, tail, size, c)
        /\ running' = t /\ torn' \in BOOLEAN
        /\ ~torn' => \A u \in P!Ends : ~Busy(u)
    BY <1>1, <1>5, <2>1, <2>2, <2>3, MoveIs
  <2>5. PICK c \in 1 .. MaxCount : Moved(t, tail, size, c)
    BY <2>4
  <2>6. /\ c \in Nat /\ c <= PAGE_SIZE - tail /\ c <= size
        /\ end' \in [P!Ends -> CallSet] /\ end'[t].from = tail /\ end'[t].chars = c
    BY <2>5, PipeConstants DEF Moved
  <2>7. /\ Alone' /\ P!NobodyForgotten'
        /\ ~torn' => \A u \in P!Ends : Busy(u)' <=> u = t
    BY <1>1, <2>4, <2>5, MoverIs
  <2>8. tail' = (tail + c) % PAGE_SIZE
    BY <1>5, <2>6 DEF P!Step
  <2>9. tail' \in P!Places /\ Size(head, tail') = size - c
    BY <2>1, <2>2, <2>6, <2>8, TailMoves
  <2>10. PipeTypes'
    <3>1. running' \in P!Ends \cup {P!NoOne}
      BY <2>4
    <3>2. QED
      BY <1>1, <2>1, <2>4, <2>6, <2>9, <3>1, CallsAre, PipeTypesNext
  <2>11. P!PIPE_SIZE' = size - c
    BY <1>1, <2>9 DEF P!PIPE_SIZE, Size
  <2>12. Contents'
    <3>1. SUFFICES ASSUME ~torn' PROVE Contents'
      BY DEF Contents
    <3>2. \A u \in P!Ends : ~Busy(u)
      BY <2>4, <3>1
    <3>3. torn = FALSE
      BY <1>1, RunnerIs
    <3>4. Holds(ring, given, got, tail, size)
      BY <2>1, <2>2, <3>2, <3>3 DEF Contents
    <3>5. tail + c <= PAGE_SIZE /\ (size - c) + c = size /\ (size - c) + c < PAGE_SIZE
      BY <2>1, <2>3, <2>6, PipeConstants
    <3>6. Holds(ring', given', got', tail, (size - c) + c)
      BY <1>1, <3>4, <3>5 DEF Holds
    <3>7. ASSUME NEW u \in Readers, Busy(u)'
          PROVE  /\ end'[u].from + end'[u].chars <= PAGE_SIZE
                 /\ tail' = (end'[u].from + end'[u].chars) % PAGE_SIZE
                 /\ P!PIPE_SIZE' + end'[u].chars < PAGE_SIZE
                 /\ Holds(ring', given', got', end'[u].from, P!PIPE_SIZE' + end'[u].chars)
      <4>1. u = t
        BY <2>7, <3>1, <3>7, PipeConstants
      <4>2. QED
        BY <2>6, <2>8, <2>11, <3>5, <3>6, <4>1
    <3>8. \A u \in Writers : ~Busy(u)'
      BY <1>2, <2>7, <3>1, PipeConstants
    <3>9. Busy(t)'
      BY <2>7, <3>1
    <3>10. QED
      BY <3>7, <3>8, <3>9 DEF Contents
  <2>13. QED
    BY <2>7, <2>10, <2>12 DEF PipeInv
<1>6. QED
  BY <1>3, <1>4, <1>5 DEF P!ReadLoop

\* A writer at the head of its loop.
LEMMA WriteLoopStep ==
    ASSUME PipeInv, NEW t \in P!Ends, P!WriteLoop(t)
    PROVE  PipeInv'
<1>1. t \in Writers /\ P!Runs(t, "loop") /\ UNCHANGED <<tail, ring, open, given, got>>
  BY DEF P!WriteLoop
<1>2. t \notin Readers
  BY <1>1, PipeConstants
<1>3. CASE end[t].count = 0 /\ P!Return(t) /\ UNCHANGED <<head, torn>>
  <2>1. end' = [P!Woken EXCEPT ![t] = P!Idle] /\ running' = P!NoOne
    BY <1>3 DEF P!Return
  <2>2. QED
    BY <1>1, <1>3, <2>1, ReturnStep
<1>4. CASE end[t].count > 0 /\ P!Room = 0 /\ P!Wait(t) /\ UNCHANGED <<head, torn>>
  BY <1>1, <1>2, <1>4, WaitStep
<1>5. CASE end[t].count > 0 /\ P!Room > 0 /\ P!Move(t, head, P!Room) /\ head' = P!Step(head, t)
  <2>1. /\ PipeTypes /\ Contents
        /\ head \in P!Places /\ tail \in P!Places /\ P!PIPE_SIZE = Size(head, tail)
        /\ P!PIPE_SIZE \in 0 .. PAGE_SIZE - 1 /\ P!Room = PAGE_SIZE - 1 - Size(head, tail)
    BY CallsAre DEF PipeInv
  <2>2. PICK room, size : room = P!Room /\ size = P!PIPE_SIZE
    OBVIOUS
  <2>3. room \in 1 .. PAGE_SIZE /\ room = PAGE_SIZE - 1 - size /\ size \in 0 .. PAGE_SIZE - 1
    BY <1>5, <2>1, <2>2, PipeConstants
  <2>4. /\ \E c \in 1 .. MaxCount : Moved(t, head, room, c)
        /\ running' = t /\ torn' \in BOOLEAN
        /\ ~torn' => \A u \in P!Ends : ~Busy(u)
    BY <1>1, <1>5, <2>1, <2>2, <2>3, MoveIs
  <2>5. PICK c \in 1 .. MaxCount : Moved(t, head, room, c)
    BY <2>4
  <2>6. /\ c \in Nat /\ c <= PAGE_SIZE - head /\ c <= room
        /\ end' \in [P!Ends -> CallSet] /\ end'[t].from = head /\ end'[t].chars = c
    BY <2>5, PipeConstants DEF Moved
  <2>7. /\ Alone' /\ P!NobodyForgotten'
        /\ ~torn' => \A u \in P!Ends : Busy(u)' <=> u = t
    BY <1>1, <2>4, <2>5, MoverIs
  <2>8. head' = (head + c) % PAGE_SIZE
    BY <1>5, <2>6 DEF P!Step
  <2>9. head' \in P!Places /\ Size(head', tail) = size + c
    BY <2>1, <2>2, <2>6, <2>8, HeadMoves
  <2>10. PipeTypes'
    <3>1. running' \in P!Ends \cup {P!NoOne}
      BY <2>4
    <3>2. QED
      BY <1>1, <2>1, <2>4, <2>6, <2>9, <3>1, CallsAre, PipeTypesNext
  <2>11. P!PIPE_SIZE' = size + c
    BY <1>1, <2>9 DEF P!PIPE_SIZE, Size
  <2>12. Contents'
    <3>1. SUFFICES ASSUME ~torn' PROVE Contents'
      BY DEF Contents
    <3>2. \A u \in P!Ends : ~Busy(u)
      BY <2>4, <3>1
    <3>3. torn = FALSE
      BY <1>1, RunnerIs
    <3>4. Holds(ring, given, got, tail, size)
      BY <2>1, <2>2, <3>2, <3>3 DEF Contents
    <3>5. head + c <= PAGE_SIZE /\ (size + c) - c = size /\ c <= size + c
      BY <2>1, <2>3, <2>6, PipeConstants
    <3>6. Holds(ring', given', got', tail', (size + c) - c)
      BY <1>1, <3>4, <3>5 DEF Holds
    <3>7. ASSUME NEW u \in Writers, Busy(u)'
          PROVE  /\ end'[u].from + end'[u].chars <= PAGE_SIZE
                 /\ head' = (end'[u].from + end'[u].chars) % PAGE_SIZE
                 /\ end'[u].chars <= P!PIPE_SIZE'
                 /\ Holds(ring', given', got', tail', P!PIPE_SIZE' - end'[u].chars)
      <4>1. u = t
        BY <2>7, <3>1, <3>7, PipeConstants
      <4>2. QED
        BY <2>6, <2>8, <2>11, <3>5, <3>6, <4>1
    <3>8. \A u \in Readers : ~Busy(u)'
      BY <1>2, <2>7, <3>1, PipeConstants
    <3>9. Busy(t)'
      BY <2>7, <3>1
    <3>10. QED
      BY <3>7, <3>8, <3>9 DEF Contents
  <2>13. QED
    BY <2>7, <2>10, <2>12 DEF PipeInv
<1>6. QED
  BY <1>3, <1>4, <1>5 DEF P!WriteLoop

\* The user's page is absent: the task sleeps with the pointer moved and the bytes not yet copied.
LEMMA FaultStep ==
    ASSUME PipeInv, NEW t \in P!Ends, P!Fault(t)
    PROVE  PipeInv'
<1>1. PipeTypes /\ Contents /\ P!NobodyForgotten /\ Alone
  BY DEF PipeInv
<1>2. /\ P!Runs(t, "copy") /\ end' = [end EXCEPT ![t].pc = "fault"] /\ running' = P!NoOne
      /\ UNCHANGED <<head, tail, ring, open, given, got, torn>>
  BY DEF P!Fault
<1>3. torn = FALSE /\ end[t].pc = "copy" /\ \A u \in P!Ends : u # t => end[u].pc # "copy"
  BY <1>2, RunnerIs
<1>4. end \in [P!Ends -> CallSet] /\ end[t] \in CallSet
  BY <1>1, CallsAre
<1>5. /\ [end[t] EXCEPT !.pc = "fault"] \in CallSet
      /\ [end[t] EXCEPT !.pc = "fault"].pc = "fault"
      /\ [end[t] EXCEPT !.pc = "fault"].from = end[t].from
      /\ [end[t] EXCEPT !.pc = "fault"].chars = end[t].chars
  BY <1>4 DEF CallSet
<1>6. /\ end' \in [P!Ends -> CallSet] /\ end'[t].pc = "fault"
      /\ end'[t].from = end[t].from /\ end'[t].chars = end[t].chars
      /\ \A u \in P!Ends : u # t => end'[u] = end[u]
  BY <1>2, <1>4, <1>5
<1>7. \A u \in P!Ends : /\ (end'[u].pc \in {"copy", "fault"}) <=> Busy(u)
                        /\ end'[u].from = end[u].from /\ end'[u].chars = end[u].chars
  BY <1>3, <1>6 DEF Busy
<1>8. PipeTypes'
  <2>1. running' \in P!Ends \cup {P!NoOne}
    BY <1>2
  <2>2. QED
    BY <1>1, <1>2, <1>6, <2>1, CallsAre, PipeTypesNext
<1>9. Contents'
  BY <1>1, <1>2, <1>7, ContentsKept
<1>10. Alone'
  <2>1. \A u \in P!Ends : Busy(u)' <=> Busy(u)
    BY <1>7 DEF Busy
  <2>2. \A u \in P!Ends : end'[u].pc # "copy"
    BY <1>3, <1>6
  <2>3. QED
    BY <1>1, <1>2, <2>1, <2>2 DEF Alone
<1>11. P!NobodyForgotten'
  BY <1>1, <1>2, <1>6, SomebodyWorks
<1>12. QED
  BY <1>8, <1>9, <1>10, <1>11 DEF PipeInv

\* The record of a task whose copying is done.
LEMMA CopiedIs ==
    ASSUME end \in [P!Ends -> CallSet], NEW t \in P!Ends,
           end' = [end EXCEPT ![t].pc = "loop", ![t].from = 0, ![t].chars = 0]
    PROVE  /\ end' \in [P!Ends -> CallSet] /\ end'[t].pc = "loop"
           /\ \A u \in P!Ends : u # t => end'[u] = end[u]
<1>1. 0 \in P!Places /\ 0 \in 0 .. MaxCount
  BY PipeConstants
<1>2. end[t] \in CallSet
  OBVIOUS
<1>3. PICK r : r = [end[t] EXCEPT !.pc = "loop", !.from = 0, !.chars = 0]
  OBVIOUS
<1>4. r \in CallSet /\ r.pc = "loop"
  BY <1>1, <1>2, <1>3 DEF CallSet
<1>5. end' = [end EXCEPT ![t] = r]
  BY <1>3
<1>6. QED
  BY <1>4, <1>5

\* The bytes are copied, and the task goes on in its loop.
LEMMA CopyStep ==
    ASSUME PipeInv, NEW t \in P!Ends, P!Copy(t)
    PROVE  PipeInv'
<1>1. PipeTypes /\ Contents /\ P!NobodyForgotten /\ Alone
  BY DEF PipeInv
<1>2. /\ end' = [end EXCEPT ![t].pc = "loop", ![t].from = 0, ![t].chars = 0] /\ running' = t
      /\ UNCHANGED <<head, tail, open, torn>>
  BY DEF P!Copy
<1>3. torn = FALSE /\ Busy(t) /\ \A u \in P!Ends : u # t => end[u].pc # "copy"
  <2>1. P!Runs(t, "copy") \/ P!Runs(t, "fault")
    BY DEF P!Copy
  <2>2. QED
    BY <2>1, RunnerIs DEF Busy
<1>4. /\ end \in [P!Ends -> CallSet] /\ end[t] \in CallSet
      /\ head \in P!Places /\ tail \in P!Places /\ given \in P!Bytes /\ got \in P!Bytes
      /\ ring \in [P!Places -> P!Bytes \cup {P!None}] /\ open \subseteq P!Ends
      /\ P!PIPE_SIZE = Size(head, tail) /\ P!PIPE_SIZE \in 0 .. PAGE_SIZE - 1
  BY <1>1, CallsAre
<1>5. /\ end' \in [P!Ends -> CallSet] /\ end'[t].pc = "loop"
      /\ \A u \in P!Ends : u # t => end'[u] = end[u]
  BY <1>2, <1>4, CopiedIs
<1>6. \A u \in P!Ends : ~Busy(u)'
  <2>1. \A u \in P!Ends : Busy(u) => u = t
    BY <1>1, <1>3 DEF Alone
  <2>2. QED
    BY <1>5, <2>1 DEF Busy
<1>7. PICK from, c : from = end[t].from /\ c = end[t].chars
  OBVIOUS
<1>8. from \in P!Places /\ from \in 0 .. PAGE_SIZE - 1 /\ c \in Nat
  BY <1>4, <1>7, PipeConstants DEF CallSet
<1>9. P!PIPE_SIZE' = P!PIPE_SIZE
  BY <1>2 DEF P!PIPE_SIZE
<1>10. /\ ring' \in [P!Places -> P!Bytes \cup {P!None}] /\ given' \in P!Bytes /\ got' \in P!Bytes
       /\ Holds(ring', given', got', tail, P!PIPE_SIZE)
  <2>1. CASE t \notin Writers
    <3>1. t \in Readers
      BY <2>1, PipeConstants
    <3>2. got' = P!Byte(got + c) /\ UNCHANGED <<ring, given>>
      BY <1>7, <2>1 DEF P!Copy
    <3>3. /\ from + c <= PAGE_SIZE /\ tail = (from + c) % PAGE_SIZE /\ P!PIPE_SIZE + c < PAGE_SIZE
          /\ Holds(ring, given, got, from, P!PIPE_SIZE + c)
      BY <1>1, <1>3, <1>7, <3>1 DEF Contents
    <3>4. P!PIPE_SIZE \in Nat /\ c \in 0 .. PAGE_SIZE
      BY <1>4, <1>8, <3>3, PipeConstants
    <3>5. Holds(ring, given, P!Byte(got + c), tail, P!PIPE_SIZE)
      BY <1>4, <1>8, <3>3, <3>4, ReadLeaves
    <3>6. P!Byte(got + c) \in P!Bytes
      BY <1>4, <3>4, ByteIs
    <3>7. QED
      BY <1>4, <3>2, <3>5, <3>6
  <2>2. CASE t \in Writers
    <3>1. /\ ring' = [p \in P!Places |-> IF p \in from .. from + c - 1 THEN P!Byte(given + p - from)
                                         ELSE ring[p]]
          /\ given' = P!Byte(given + c) /\ UNCHANGED got
      BY <1>7, <2>2 DEF P!Copy, P!Copied
    <3>2. /\ from + c <= PAGE_SIZE /\ head = (from + c) % PAGE_SIZE /\ c <= P!PIPE_SIZE
          /\ Holds(ring, given, got, tail, P!PIPE_SIZE - c)
      BY <1>1, <1>3, <1>7, <2>2 DEF Contents
    <3>3. c \in 0 .. PAGE_SIZE
      BY <1>8, <3>2, PipeConstants
    <3>4. c <= Size((from + c) % PAGE_SIZE, tail) /\ Holds(ring, given, got, tail, Size((from + c) % PAGE_SIZE, tail) - c)
      BY <1>4, <3>2
    <3>5. PICK q : q = ring'
      OBVIOUS
    <3>6. Holds(q, P!Byte(given + c), got, tail, Size((from + c) % PAGE_SIZE, tail))
      BY <1>4, <1>8, <3>1, <3>2, <3>4, <3>5, WriteJoins
    <3>7. Holds(ring', given', got', tail, P!PIPE_SIZE)
      BY <1>4, <3>1, <3>2, <3>5, <3>6
    <3>8. P!Byte(given + c) \in P!Bytes
      BY <1>4, <3>3, ByteIs
    <3>9. ASSUME NEW p \in P!Places, p \in from .. from + c - 1
          PROVE  P!Byte(given + p - from) \in P!Bytes
      <4>1. PICK k : k = p - from
        OBVIOUS
      <4>2. k \in 0 .. PAGE_SIZE /\ given + p - from = given + k
        BY <1>4, <1>8, <3>3, <3>9, <4>1, PipeConstants
      <4>3. QED
        BY <1>4, <4>2, ByteIs
    <3>10. ring' \in [P!Places -> P!Bytes \cup {P!None}]
      BY <1>4, <3>1, <3>9
    <3>11. QED
      BY <1>4, <3>1, <3>7, <3>8, <3>10
  <2>3. QED
    BY <2>1, <2>2
<1>11. PipeTypes'
  <2>1. running' \in P!Ends \cup {P!NoOne} /\ torn' \in BOOLEAN
    BY <1>2, <1>3
  <2>2. QED
    BY <1>2, <1>4, <1>5, <1>10, <2>1, PipeTypesNext
<1>12. Alone'
  <2>1. \A u \in P!Ends : end'[u].pc # "copy"
    BY <1>6 DEF Busy
  <2>2. QED
    BY <1>6, <2>1 DEF Alone
<1>13. Contents'
  <2>1. Holds(ring', given', got', tail', P!PIPE_SIZE')
    BY <1>2, <1>9, <1>10
  <2>2. QED
    BY <1>6, <2>1, PipeConstants DEF Contents
<1>14. P!NobodyForgotten'
  BY <1>1, <1>2, <1>5, SomebodyWorks
<1>15. QED
  BY <1>11, <1>12, <1>13, <1>14 DEF PipeInv

\* A task closes its end; the last one wakes those at the other end.
LEMMA CloseStep ==
    ASSUME PipeInv, NEW t \in P!Ends, P!Close(t)
    PROVE  PipeInv'
<1>1. PipeTypes /\ Contents /\ P!NobodyForgotten /\ Alone
  BY DEF PipeInv
<1>2. /\ P!Runs(t, "user") /\ t \in open /\ open' = open \ {t}
      /\ end' = IF open' \cap Readers = {} \/ open' \cap Writers = {} THEN P!Woken ELSE end
      /\ UNCHANGED <<head, tail, ring, running, given, got, torn>>
  BY DEF P!Close
<1>3. end \in [P!Ends -> CallSet]
  BY <1>1, CallsAre
<1>4. end' \in [P!Ends -> CallSet]
  BY <1>2, <1>3, WokenIs
<1>5. ASSUME NEW u \in P!Ends
      PROVE  /\ (end'[u].pc \in {"copy", "fault"}) <=> Busy(u)
             /\ Busy(u) => end'[u] = end[u]
             /\ end'[u].pc = "copy" => end[u].pc = "copy"
  <2>1. CASE end' = end
    BY <2>1 DEF Busy
  <2>2. CASE end' = P!Woken /\ end[u].pc = "asleep"
    BY <1>3, <2>2, WokenIs DEF Busy
  <2>3. CASE end' = P!Woken /\ end[u].pc # "asleep"
    BY <1>3, <2>3, WokenIs DEF Busy
  <2>4. QED
    BY <1>2, <2>1, <2>2, <2>3
<1>6. PipeTypes'
  <2>1. open' \subseteq P!Ends
    BY <1>1, <1>2, CallsAre
  <2>2. QED
    BY <1>1, <1>2, <1>4, <2>1, CallsAre, PipeTypesNext
<1>7. Contents'
  BY <1>1, <1>2, <1>5, ContentsKept
<1>8. Alone'
  <2>1. \A u \in P!Ends : Busy(u)' <=> Busy(u)
    BY <1>5 DEF Busy
  <2>2. \A u \in P!Ends : end'[u].pc = "copy" => running' = u
    BY <1>1, <1>2, <1>5 DEF Alone
  <2>3. QED
    BY <1>1, <1>2, <2>1, <2>2 DEF Alone
<1>9. P!NobodyForgotten'
  <2>1. CASE open' \cap Readers = {} \/ open' \cap Writers = {}
    <3>1. end' = P!Woken
      BY <1>2, <2>1
    <3>2. QED
      BY <1>3, <3>1, WokenIs, NobodySleeps
  <2>2. CASE ~(open' \cap Readers = {} \/ open' \cap Writers = {})
    <3>1. end' = end
      BY <1>2, <2>2
    <3>2. (P!i_count = 2 <=> Readers \cap open # {} /\ Writers \cap open # {})'
      BY CountIs, PTL
    <3>3. P!i_count' = 2
      BY <2>2, <3>2
    <3>4. Readers \cap open # {} /\ Writers \cap open # {}
      BY <1>2, <2>2
    <3>5. P!PIPE_SIZE' = P!PIPE_SIZE /\ P!Room' = P!Room
      BY <1>2 DEF P!PIPE_SIZE, P!Room
    <3>6. (\E u \in P!Ends : P!InKernel(u)) => (\E u \in P!Ends : P!InKernel(u)')
      BY <3>1 DEF P!InKernel
    <3>7. QED
      BY <1>1, <3>1, <3>3, <3>5, <3>6 DEF P!NobodyForgotten
  <2>3. QED
    BY <2>1, <2>2
<1>10. QED
  BY <1>6, <1>7, <1>8, <1>9 DEF PipeInv

\* The invariant of a pipe.
THEOREM PipeInvariant == P!PipeSpec => []PipeInv
<1>1. PipeInv /\ [P!PipeNext]_(P!pipeVars) => PipeInv'
  <2> SUFFICES ASSUME PipeInv, [P!PipeNext]_(P!pipeVars) PROVE PipeInv'
    OBVIOUS
  <2>1. CASE UNCHANGED P!pipeVars
    <3>1. UNCHANGED <<head, tail, ring, open, end, running, given, got, torn>>
      BY <2>1 DEF P!pipeVars
    <3>2. PipeInv' <=> PipeInv
      BY <3>1 DEF PipeInv, PipeTypes, P!PipeTypeOK, Alone, Contents, Busy, Holds, P!PIPE_SIZE,
                  P!NobodyForgotten, P!InKernel, P!Room, P!i_count
    <3>3. QED
      BY <3>2
  <2>2. ASSUME NEW t \in P!Ends, NEW n \in 1 .. MaxCount, P!Call(t, n) PROVE PipeInv'
    BY <2>2, CallStep
  <2>3. ASSUME NEW t \in P!Ends, P!ReadLoop(t) PROVE PipeInv'
    BY <2>3, ReadLoopStep
  <2>4. ASSUME NEW t \in P!Ends, P!WriteLoop(t) PROVE PipeInv'
    BY <2>4, WriteLoopStep
  <2>5. ASSUME NEW t \in P!Ends, P!Fault(t) PROVE PipeInv'
    BY <2>5, FaultStep
  <2>6. ASSUME NEW t \in P!Ends, P!Copy(t) PROVE PipeInv'
    BY <2>6, CopyStep
  <2>7. ASSUME NEW t \in P!Ends, P!Close(t) PROVE PipeInv'
    BY <2>7, CloseStep
  <2>8. QED
    BY <2>1, <2>2, <2>3, <2>4, <2>5, <2>6, <2>7 DEF P!PipeNext
<1>2. QED
  BY PipeInit, <1>1, PTL DEF P!PipeSpec

\* What the runs check of the pipe holds at every step: a reader gets the bytes in the order of
\* their writing, and nobody is forgotten asleep.
THEOREM PipeIsConsistent == P!PipeSpec => []PipeConsistent
<1>1. PipeInv => PipeConsistent
  <2> SUFFICES ASSUME PipeInv PROVE PipeConsistent
    OBVIOUS
  <2>1. PipeTypes /\ Contents /\ P!NobodyForgotten
    BY DEF PipeInv
  <2>2. P!BytesInOrder
    <3>1. SUFFICES ASSUME ~torn, NEW t \in Readers, end[t].pc \in {"copy", "fault"}, NEW p \in P!Copied(t)
                   PROVE  ring[p] = P!Byte(got + p - end[t].from)
      BY DEF P!BytesInOrder
    <3>2. t \in P!Ends
      BY PipeConstants
    <3>3. end[t] \in CallSet /\ got \in P!Bytes /\ P!PIPE_SIZE \in 0 .. PAGE_SIZE - 1
      BY <2>1, <3>2, CallsAre
    <3>4. PICK from, c, size : from = end[t].from /\ c = end[t].chars /\ size = P!PIPE_SIZE
      OBVIOUS
    <3>5. /\ from \in P!Places /\ from \in 0 .. PAGE_SIZE - 1 /\ c \in Nat /\ size \in Nat
          /\ got \in 0 .. PAGE_SIZE /\ PAGE_SIZE \in Nat
      BY <3>3, <3>4, PipeConstants DEF CallSet
    <3>6. from + c <= PAGE_SIZE /\ Holds(ring, given, got, from, size + c)
      BY <2>1, <3>1, <3>4 DEF Contents, Busy
    <3>7. p \in from .. from + c - 1
      BY <3>4 DEF P!Copied
    <3>8. PICK k : k = p - from
      OBVIOUS
    <3>9. /\ k \in 0 .. size + c - 1 /\ k \in 0 .. PAGE_SIZE /\ from + k = p /\ from + k < PAGE_SIZE
          /\ got + p - from = got + k
      BY <3>5, <3>6, <3>7, <3>8
    <3>10. (from + k) % PAGE_SIZE = p
      BY <3>5, <3>9, PlaceIs
    <3>11. ring[(from + k) % PAGE_SIZE] = P!Byte(got + k)
      <4>1. PICK len : len = size + c
        OBVIOUS
      <4>2. Holds(ring, given, got, from, len)
        BY <3>6, <4>1
      <4>3. k \in 0 .. len - 1
        BY <3>5, <3>9, <4>1
      <4>4. \A j \in 0 .. len - 1 : ring[(from + j) % PAGE_SIZE] = P!Byte(got + j)
        BY <4>2 DEF Holds
      <4>5. QED
        BY <4>3, <4>4
    <3>12. QED
      BY <3>4, <3>9, <3>10, <3>11
  <2>3. QED
    BY <2>1, <2>2 DEF PipeTypes, P!PipeConsistent, PipeConsistent
<1>2. QED
  BY <1>1, PipeInvariant, PTL

-----------------------------------------------------------------------------
(* Processes. *)

Tasks == [pid : 0 .. MaxPid, father : 0 .. MaxPid,
          state : {"FREE", "RUNNING", "INTERRUPTIBLE", "ZOMBIE"},
          signal : SUBSET Signals, blocked : BOOLEAN, pc : Pcs, arg : 0 .. MaxPid]

\* A task that has the pid f and has not begun to exit.
HasFather(tb, f) ==
    \E s \in Slots : /\ tb[s].pid = f /\ tb[s].state \in {"RUNNING", "INTERRUPTIBLE"}
                     /\ tb[s].pc # "do_exit"

\* The table of the tasks: every task has its own pid, and a father that has not begun to exit,
\* or was given to task 1.
TasksOK(tb) ==
    /\ tb \in [Slots -> Tasks]
    /\ \A s \in Slots : tb[s].state # "FREE" => tb[s].pid # 0
    /\ \A i, j \in Slots : tb[i].state # "FREE" /\ tb[j].state # "FREE" /\ i # j => tb[i].pid # tb[j].pid
    /\ \A c \in Slots : tb[c].state # "FREE" => tb[c].father \in {0, 1} \/ HasFather(tb, tb[c].father)
    /\ \A c \in Slots : tb[c].state = "ZOMBIE" => tb[c].father # 0

TaskInv == TasksOK(task) /\ last_pid \in Pids

\* Of the tasks only what the invariant does not look at has changed.
Alike(r, t) ==
    /\ r.pid = t.pid /\ r.father = t.father /\ (r.pc = "do_exit" <=> t.pc = "do_exit")
    /\ \/ r.state = t.state
       \/ r.state \in {"RUNNING", "INTERRUPTIBLE"} /\ t.state \in {"RUNNING", "INTERRUPTIBLE"}

LEMMA AlikeKeeps ==
    ASSUME NEW tb, TasksOK(tb), NEW tb2 \in [Slots -> Tasks], \A s \in Slots : Alike(tb2[s], tb[s])
    PROVE  TasksOK(tb2)
<1>1. \A s \in Slots : /\ tb2[s].pid = tb[s].pid /\ tb2[s].father = tb[s].father
                       /\ tb2[s].state # "FREE" => tb[s].state # "FREE"
                       /\ tb2[s].state = "ZOMBIE" => tb[s].state = "ZOMBIE"
  BY DEF Alike
<1>2. \A f : HasFather(tb, f) => HasFather(tb2, f)
  BY DEF Alike, HasFather
<1>3. QED
  BY <1>1, <1>2 DEF TasksOK

\* release(): a zombie, or a task that ends without a father, is nobody's father.
LEMMA ReleaseKeeps ==
    ASSUME NEW tb, TasksOK(tb), NEW i \in Slots, tb[i].state = "ZOMBIE" \/ tb[i].pc = "do_exit",
           NEW tb2, tb2 = [tb EXCEPT ![i] = Free]
    PROVE  TasksOK(tb2)
<1>1. Free \in Tasks /\ Free.state = "FREE"
  BY MaxPidAssumption DEF Free, Tasks, Pcs, Any
<1>2. tb2 \in [Slots -> Tasks] /\ tb2[i] = Free /\ \A s \in Slots : s # i => tb2[s] = tb[s]
  BY <1>1 DEF TasksOK
<1>3. \A f : HasFather(tb, f) => HasFather(tb2, f)
  BY <1>2 DEF HasFather
<1>4. QED
  BY <1>1, <1>2, <1>3 DEF TasksOK

\* do_exit() finds a new father for every child.
LEMMA ExitKeeps ==
    ASSUME TaskInv, NEW s \in Slots, At(s, "user"), do_exit(s)
    PROVE  TasksOK(task')
<1>1. task \in [Slots -> Tasks] /\ TasksOK(task)
  BY DEF TaskInv, TasksOK
<1>2. PICK children : children = {i \in Used : task[i].father = task[s].pid}
  OBVIOUS
<1>3. PICK t1 : t1 = [i \in Slots |-> IF i \in children THEN [task[i] EXCEPT !.father = 1] ELSE task[i]]
  OBVIOUS
<1>4. ASSUME NEW i \in Slots
      PROVE  /\ t1[i] \in Tasks /\ t1[i].pid = task[i].pid /\ t1[i].state = task[i].state /\ t1[i].pc = task[i].pc
             /\ t1[i].father = IF i \in children THEN 1 ELSE task[i].father
  <2>1. task[i] \in Tasks /\ 1 \in 0 .. MaxPid
    BY <1>1, MaxPidAssumption, NrSlotsAssumption
  <2>2. CASE i \in children
    BY <1>3, <2>1, <2>2 DEF Tasks
  <2>3. CASE i \notin children
    BY <1>3, <2>1, <2>3
  <2>4. QED
    BY <2>2, <2>3
<1>5. t1 \in [Slots -> Tasks]
  BY <1>3, <1>4
<1>6. PICK t2 : t2 = Reparent(s)
  OBVIOUS
<1>7. /\ t2 \in [Slots -> Tasks]
      /\ \A i \in Slots : t2[i].pid = t1[i].pid /\ t2[i].father = t1[i].father /\ t2[i].state = t1[i].state /\ t2[i].pc = t1[i].pc
  <2>1. CASE 1 \in Used /\ \E i \in children : task[i].state = "ZOMBIE"
    <3>1. t2 = [t1 EXCEPT ![1].signal = @ \cup {"CHLD"}]
      BY <1>2, <1>3, <1>6, <2>1 DEF Reparent
    <3>2. 1 \in Slots
      BY <2>1 DEF Used
    <3>3. PICK r : r = [t1[1] EXCEPT !.signal = @ \cup {"CHLD"}]
      OBVIOUS
    <3>4. t1[1] \in Tasks
      BY <1>5, <3>2
    <3>5. r \in Tasks /\ r.pid = t1[1].pid /\ r.father = t1[1].father /\ r.state = t1[1].state /\ r.pc = t1[1].pc
      BY <3>3, <3>4 DEF Tasks, Signals
    <3>6. t2 = [t1 EXCEPT ![1] = r]
      BY <3>1, <3>3
    <3>7. QED
      BY <1>5, <3>2, <3>5, <3>6
  <2>2. CASE ~(1 \in Used /\ \E i \in children : task[i].state = "ZOMBIE")
    <3>1. t2 = t1
      BY <1>2, <1>3, <1>6, <2>2 DEF Reparent
    <3>2. QED
      BY <1>5, <3>1
  <2>3. QED
    BY <2>1, <2>2
<1>8. /\ task' \in [Slots -> Tasks]
      /\ task'[s].pc = "do_exit" /\ \A i \in Slots : i # s => task'[i].pc = t2[i].pc
      /\ \A i \in Slots : task'[i].pid = t2[i].pid /\ task'[i].father = t2[i].father /\ task'[i].state = t2[i].state
  <2>1. task' = [t2 EXCEPT ![s].pc = "do_exit"]
    BY <1>6 DEF do_exit
  <2>2. PICK r : r = [t2[s] EXCEPT !.pc = "do_exit"]
    OBVIOUS
  <2>3. r \in Tasks /\ r.pid = t2[s].pid /\ r.father = t2[s].father /\ r.state = t2[s].state /\ r.pc = "do_exit"
    <3>1. t2[s] \in Tasks
      BY <1>7
    <3>2. QED
      BY <2>2, <3>1 DEF Tasks, Pcs
  <2>4. task' = [t2 EXCEPT ![s] = r]
    BY <2>1, <2>2
  <2>5. QED
    BY <1>7, <2>3, <2>4
<1>9. \A i \in Slots : /\ task'[i].pid = task[i].pid /\ task'[i].state = task[i].state
                       /\ task'[i].father = IF i \in children THEN 1 ELSE task[i].father
                       /\ i # s => task'[i].pc = task[i].pc
  BY <1>4, <1>7, <1>8
<1>10. ASSUME NEW c \in Slots, task'[c].state # "FREE"
       PROVE  task'[c].father \in {0, 1} \/ HasFather(task', task'[c].father)
  <2>1. CASE c \in children
    BY <1>9, <2>1
  <2>2. CASE c \notin children
    <3>1. task'[c].father = task[c].father /\ task[c].state # "FREE" /\ task[c].father # task[s].pid
      BY <1>2, <1>9, <1>10, <2>2 DEF Used
    <3>2. CASE task[c].father \in {0, 1}
      BY <3>1, <3>2
    <3>3. CASE HasFather(task, task[c].father)
      <4>1. PICK f \in Slots : /\ task[f].pid = task[c].father /\ task[f].state \in {"RUNNING", "INTERRUPTIBLE"}
                               /\ task[f].pc # "do_exit"
        BY <3>3 DEF HasFather
      <4>2. f # s
        BY <3>1, <4>1
      <4>3. QED
        BY <1>9, <3>1, <4>1, <4>2 DEF HasFather
    <3>4. QED
      BY <1>1, <3>1, <3>2, <3>3 DEF TasksOK
  <2>3. QED
    BY <2>1, <2>2
<1>11. \A c \in Slots : task'[c].state = "ZOMBIE" => task'[c].father # 0
  BY <1>1, <1>9 DEF TasksOK
<1>12. /\ \A i \in Slots : task'[i].state # "FREE" => task'[i].pid # 0
       /\ \A i, j \in Slots : task'[i].state # "FREE" /\ task'[j].state # "FREE" /\ i # j => task'[i].pid # task'[j].pid
  BY <1>1, <1>9 DEF TasksOK
<1>13. QED
  BY <1>8, <1>10, <1>11, <1>12 DEF TasksOK

\* tell_father(): a task that has begun to exit ends.
LEMMA ZombieKeeps ==
    ASSUME TaskInv, NEW s \in Slots, At(s, "do_exit"), task' = tell_father(s)
    PROVE  TasksOK(task')
<1>1. task \in [Slots -> Tasks] /\ TasksOK(task) /\ task[s].pc = "do_exit" /\ task[s].state = "RUNNING"
  BY DEF TaskInv, TasksOK, At
<1>2. PICK fathers : fathers = {i \in Used : task[i].pid = task[s].father}
  OBVIOUS
<1>3. CASE task[s].father = 0 \/ fathers = {}
  <2>1. task' = [task EXCEPT ![s] = Free]
    BY <1>2, <1>3 DEF tell_father
  <2>2. QED
    BY <1>1, <2>1, ReleaseKeeps
<1>4. CASE ~(task[s].father = 0 \/ fathers = {})
  <2>1. PICK r : r = [Free EXCEPT !.pid = task[s].pid, !.father = task[s].father, !.state = "ZOMBIE"]
    OBVIOUS
  <2>2. r \in Tasks /\ r.pid = task[s].pid /\ r.father = task[s].father /\ r.state = "ZOMBIE" /\ r.pc = "user"
    <3>1. task[s] \in Tasks /\ 0 \in 0 .. MaxPid
      BY <1>1, MaxPidAssumption
    <3>2. QED
      BY <2>1, <3>1 DEF Tasks, Free, Pcs, Any
  <2>3. PICK zombie : zombie = [task EXCEPT ![s] = r]
    OBVIOUS
  <2>4. zombie \in [Slots -> Tasks] /\ zombie[s] = r /\ \A i \in Slots : i # s => zombie[i] = task[i]
    BY <1>1, <2>2, <2>3
  <2>5. TasksOK(zombie)
    <3>1. \A f : HasFather(task, f) => HasFather(zombie, f)
      BY <1>1, <2>4 DEF HasFather
    <3>2. \A i \in Slots : /\ zombie[i].pid = task[i].pid /\ zombie[i].father = task[i].father
                           /\ zombie[i].state # "FREE" => task[i].state # "FREE"
      BY <1>1, <2>2, <2>4
    <3>3. \A i \in Slots : zombie[i].state = "ZOMBIE" => zombie[i].father # 0
      BY <1>1, <1>4, <2>2, <2>4 DEF TasksOK
    <3>4. QED
      BY <1>1, <2>4, <3>1, <3>2, <3>3 DEF TasksOK
  <2>6. PICK f \in Slots : f = CHOOSE i \in fathers : TRUE
    BY <1>2, <1>4 DEF Used
  <2>7. task' = [zombie EXCEPT ![f].signal = @ \cup {"CHLD"}]
    BY <1>2, <1>4, <2>1, <2>3, <2>6 DEF tell_father
  <2>8. task' \in [Slots -> Tasks] /\ \A i \in Slots : Alike(task'[i], zombie[i])
    <3>1. PICK x : x = [zombie[f] EXCEPT !.signal = @ \cup {"CHLD"}]
      OBVIOUS
    <3>2. zombie[f] \in Tasks
      BY <2>4
    <3>3. x \in Tasks /\ Alike(x, zombie[f])
      BY <3>1, <3>2 DEF Tasks, Signals, Alike
    <3>4. task' = [zombie EXCEPT ![f] = x]
      BY <2>7, <3>1
    <3>5. QED
      BY <2>4, <3>3, <3>4 DEF Alike
  <2>9. QED
    BY <2>5, <2>8, AlikeKeeps
<1>5. QED
  BY <1>3, <1>4

LEMMA LeastOf ==
    ASSUME NEW T, T \subseteq Nat, T # {}
    PROVE  \E x \in T : \A y \in T : x <= y
<1> DEFINE R == OpToRel(<, Nat)
<1>1. IsWellFoundedOn(R, Nat)
  BY NatLessThanWellFounded
<1>2. PICK x \in T : \A y \in T : ~(<<y, x>> \in R)
  BY <1>1, WFMin
<1>3. \A y \in T : ~(y < x)
  BY <1>2 DEF OpToRel
<1>4. \A y \in T : x <= y
  BY <1>3
<1>5. QED
  BY <1>4

\* There are more pids than tasks, so one is free.
LEMMA FreshExists == \E p \in Pids : FreshPid(p)
<1>1. SUFFICES ASSUME \A p \in Pids : ~FreshPid(p)
               PROVE  FALSE
  OBVIOUS
<1>2. PICK f : f = [p \in Pids |-> CHOOSE s \in Used : task[s].pid = p]
  OBVIOUS
<1>3. \A p \in Pids : f[p] \in Used /\ task[f[p]].pid = p
  BY <1>1, <1>2 DEF FreshPid
<1>4. f \in [Pids -> Slots]
  BY <1>2, <1>3 DEF Used
<1>5. IsFiniteSet(Pids) /\ Cardinality(Pids) = MaxPid
  <2>1. 1 \in Int /\ MaxPid \in Int /\ ~(1 > MaxPid)
    BY MaxPidAssumption, NrSlotsAssumption
  <2>2. QED
    BY <2>1, FS_Interval DEF Pids
<1>6. IsFiniteSet(Slots) /\ Cardinality(Slots) = NrSlots
  <2>1. 1 \in Int /\ NrSlots \in Int /\ ~(1 > NrSlots)
    BY NrSlotsAssumption
  <2>2. QED
    BY <2>1, FS_Interval DEF Slots
<1>7. Cardinality(Slots) < Cardinality(Pids)
  BY <1>5, <1>6, MaxPidAssumption, NrSlotsAssumption
<1>8. PICK p \in Pids, q \in Pids : p # q /\ f[p] = f[q]
  BY <1>4, <1>5, <1>6, <1>7, FS_PigeonHole
<1>9. QED
  BY <1>3, <1>8

\* find_empty_process() finds one of them.
LEMMA FoundIsFresh ==
    ASSUME TaskInv, find_empty_process
    PROVE  last_pid' \in Pids /\ FreshPid(last_pid')
<1>1. PICK fresh : fresh = {p \in Pids : FreshPid(p)}
  OBVIOUS
<1>2. fresh # {} /\ fresh \subseteq Pids
  BY <1>1, FreshExists
<1>3. \A p \in Pids : Steps(p) \in Nat
  BY MaxPidAssumption DEF TaskInv, Steps, Pids
<1>4. PICK T : T = {Steps(p) : p \in fresh}
  OBVIOUS
<1>5. T \subseteq Nat /\ T # {}
  BY <1>2, <1>3, <1>4
<1>6. PICK x \in T : \A y \in T : x <= y
  BY <1>5, LeastOf
<1>7. PICK p \in fresh : Steps(p) = x
  BY <1>4, <1>6
<1>8. \A q \in fresh : Steps(p) <= Steps(q)
  BY <1>4, <1>6, <1>7
<1>9. last_pid' = CHOOSE r \in fresh : \A q \in fresh : Steps(r) <= Steps(q)
  BY <1>1 DEF find_empty_process
<1>10. last_pid' \in fresh
  BY <1>8, <1>9
<1>11. QED
  BY <1>1, <1>10

\* fork(): the child has a pid of its own, and a father that runs.
LEMMA ForkKeeps ==
    ASSUME TaskInv, NEW s \in Slots, Fork(s)
    PROVE  TaskInv'
<1>1. task \in [Slots -> Tasks] /\ TasksOK(task) /\ task[s].state = "RUNNING" /\ task[s].pc = "user"
  BY DEF TaskInv, TasksOK, Fork, At
<1>2. last_pid' \in Pids /\ FreshPid(last_pid')
  BY FoundIsFresh DEF Fork
<1>3. PICK free : free = Slots \ Used
  OBVIOUS
<1>4. CASE free = {}
  <2>1. task' = task
    BY <1>3, <1>4 DEF Fork
  <2>2. QED
    BY <1>1, <1>2, <2>1 DEF TaskInv
<1>5. CASE free # {}
  <2>1. free \subseteq Nat
    BY <1>3, NrSlotsAssumption DEF Slots
  <2>2. \E i \in free : \A j \in free : i <= j
    BY <1>5, <2>1, LeastOf
  <2>3. PICK nr : nr = CHOOSE i \in free : \A j \in free : i <= j
    OBVIOUS
  <2>4. nr \in Slots /\ task[nr].state = "FREE"
    <3>1. nr \in free
      BY <2>2, <2>3
    <3>2. QED
      BY <1>3, <3>1 DEF Used
  <2>5. PICK c : c = [task[s] EXCEPT !.pid = last_pid', !.father = task[s].pid, !.signal = {}]
    OBVIOUS
  <2>6. c \in Tasks /\ c.pid = last_pid' /\ c.father = task[s].pid /\ c.state = "RUNNING" /\ c.pc = "user"
    <3>1. task[s] \in Tasks /\ last_pid' \in 0 .. MaxPid
      BY <1>1, <1>2 DEF Pids
    <3>2. QED
      BY <1>1, <2>5, <3>1 DEF Tasks
  <2>7. task' = [task EXCEPT ![nr] = c]
    BY <1>3, <1>5, <2>3, <2>5 DEF Fork
  <2>8. task' \in [Slots -> Tasks] /\ task'[nr] = c /\ \A i \in Slots : i # nr => task'[i] = task[i]
    BY <1>1, <2>4, <2>6, <2>7
  <2>9. \A f : HasFather(task, f) => HasFather(task', f)
    BY <2>4, <2>8 DEF HasFather
  <2>10. HasFather(task', c.father)
    BY <1>1, <2>4, <2>6, <2>8 DEF HasFather
  <2>11. \A i \in Slots : task'[i].state # "FREE" /\ i # nr => task'[i].pid # last_pid'
    BY <1>2, <2>8 DEF FreshPid, Used
  <2>12. last_pid' # 0
    BY <1>2 DEF Pids
  <2>13. /\ \A i \in Slots : task'[i].state # "FREE" => task'[i].pid # 0
         /\ \A i, j \in Slots : task'[i].state # "FREE" /\ task'[j].state # "FREE" /\ i # j => task'[i].pid # task'[j].pid
    BY <1>1, <2>6, <2>8, <2>11, <2>12 DEF TasksOK
  <2>14. /\ \A i \in Slots : task'[i].state # "FREE" => task'[i].father \in {0, 1} \/ HasFather(task', task'[i].father)
         /\ \A i \in Slots : task'[i].state = "ZOMBIE" => task'[i].father # 0
    BY <1>1, <2>6, <2>8, <2>9, <2>10 DEF TasksOK
  <2>15. QED
    BY <1>2, <2>8, <2>13, <2>14 DEF TaskInv, TasksOK
<1>6. QED
  BY <1>4, <1>5

\* A step that changes one task in what the invariant does not look at.
LEMMA OneAlike ==
    ASSUME NEW tb, TasksOK(tb), NEW s \in Slots, NEW r \in Tasks, Alike(r, tb[s]),
           NEW tb2, tb2 = [tb EXCEPT ![s] = r]
    PROVE  TasksOK(tb2)
<1>1. tb2 \in [Slots -> Tasks] /\ tb2[s] = r /\ \A i \in Slots : i # s => tb2[i] = tb[i]
  BY DEF TasksOK
<1>2. \A i \in Slots : Alike(tb2[i], tb[i])
  BY <1>1 DEF Alike
<1>3. QED
  BY <1>1, <1>2, AlikeKeeps

\* waitpid(): the task runs on or sleeps, and the child that it has found is released.
LEMMA WaitpidKeeps ==
    ASSUME TaskInv, NEW s \in Slots, task[s].state = "RUNNING", task[s].pc \in {"user", "waitpid"},
           NEW arg \in 0 .. MaxPid
    PROVE  TasksOK(waitpid(s, arg)) /\ waitpid(s, arg)[s].pc \in {"user", "waitpid"}
<1>1. task \in [Slots -> Tasks] /\ TasksOK(task) /\ task[s] \in Tasks
  BY DEF TaskInv, TasksOK
<1>2. PICK back : back = [task EXCEPT ![s].pc = "user", ![s].arg = Any, ![s].state = "RUNNING"]
  OBVIOUS
<1>3. PICK sleep : sleep = [task EXCEPT ![s].pc = "waitpid", ![s].arg = arg, ![s].state = "INTERRUPTIBLE"]
  OBVIOUS
<1>4. /\ TasksOK(back) /\ back[s].pc = "user"
      /\ \A i \in Slots : i # s => back[i] = task[i]
  <2>1. PICK r : r = [task[s] EXCEPT !.pc = "user", !.arg = Any, !.state = "RUNNING"]
    OBVIOUS
  <2>2. r \in Tasks /\ Alike(r, task[s]) /\ r.pc = "user"
    <3>1. task[s].pc # "do_exit" /\ task[s].state = "RUNNING" /\ Any \in 0 .. MaxPid
      BY MaxPidAssumption DEF Any
    <3>2. r.pid = task[s].pid /\ r.father = task[s].father /\ r.state = "RUNNING" /\ r.pc = "user"
      BY <1>1, <2>1 DEF Tasks
    <3>3. r \in Tasks
      BY <1>1, <2>1, <3>1 DEF Tasks, Pcs
    <3>4. QED
      BY <3>1, <3>2, <3>3 DEF Alike
  <2>3. back = [task EXCEPT ![s] = r]
    BY <1>1, <1>2, <2>1
  <2>4. TasksOK(back)
    BY <1>1, <2>2, <2>3, OneAlike
  <2>5. QED
    BY <1>1, <2>2, <2>3, <2>4
<1>5. TasksOK(sleep) /\ sleep[s].pc = "waitpid"
  <2>1. PICK r : r = [task[s] EXCEPT !.pc = "waitpid", !.arg = arg, !.state = "INTERRUPTIBLE"]
    OBVIOUS
  <2>2. r \in Tasks /\ Alike(r, task[s]) /\ r.pc = "waitpid"
    <3>1. task[s].pc # "do_exit" /\ task[s].state = "RUNNING"
      OBVIOUS
    <3>2. r.pid = task[s].pid /\ r.father = task[s].father /\ r.state = "INTERRUPTIBLE" /\ r.pc = "waitpid"
      BY <1>1, <2>1 DEF Tasks
    <3>3. r \in Tasks
      BY <1>1, <2>1 DEF Tasks, Pcs
    <3>4. QED
      BY <3>1, <3>2, <3>3 DEF Alike
  <2>3. sleep = [task EXCEPT ![s] = r]
    BY <1>1, <1>3, <2>1
  <2>4. TasksOK(sleep)
    BY <1>1, <2>2, <2>3, OneAlike
  <2>5. QED
    BY <1>1, <2>2, <2>3, <2>4
<1>6. PICK ended : ended = Ended(s, arg)
  OBVIOUS
<1>7. ended \subseteq Slots /\ \A i \in ended : i # s /\ task[i].state = "ZOMBIE"
  BY <1>6 DEF Ended, Children, Used
<1>8. CASE ended # {}
  <2>1. PICK i \in ended : i = CHOOSE k \in ended : \A j \in ended : k >= j
    <3>1. \E k \in ended : \A j \in ended : k >= j
      <4>1. PICK T : T = {NrSlots - k : k \in ended}
        OBVIOUS
      <4>2. T \subseteq Nat /\ T # {}
        <5>1. \A k \in ended : NrSlots - k \in Nat
          BY <1>7, NrSlotsAssumption DEF Slots
        <5>2. QED
          BY <1>8, <4>1, <5>1
      <4>3. PICK x \in T : \A y \in T : x <= y
        BY <4>2, LeastOf
      <4>4. PICK k \in ended : x = NrSlots - k
        BY <4>1, <4>3
      <4>5. \A j \in ended : NrSlots - k <= NrSlots - j
        BY <4>1, <4>3, <4>4
      <4>6. \A j \in ended : k >= j
        BY <1>7, <4>5, NrSlotsAssumption DEF Slots
      <4>7. QED
        BY <4>6
    <3>2. QED
      BY <3>1
  <2>2. waitpid(s, arg) = [back EXCEPT ![i] = Free]
    BY <1>2, <1>6, <1>8, <2>1 DEF waitpid
  <2>3. i \in Slots /\ i # s /\ back[i].state = "ZOMBIE"
    BY <1>4, <1>7, <2>1
  <2>4. TasksOK([back EXCEPT ![i] = Free])
    BY <1>4, <2>3, ReleaseKeeps
  <2>5. [back EXCEPT ![i] = Free][s] = back[s]
    BY <1>4, <2>3 DEF TasksOK
  <2>6. QED
    BY <1>4, <2>2, <2>4, <2>5
<1>9. CASE ended = {}
  <2>1. waitpid(s, arg) = back \/ waitpid(s, arg) = sleep
    BY <1>2, <1>3, <1>6, <1>9 DEF waitpid
  <2>2. QED
    BY <1>4, <1>5, <2>1
<1>10. QED
  BY <1>8, <1>9

LEMMA WaitpidReturnKeeps ==
    ASSUME TaskInv, NEW s \in Slots, WaitpidReturn(s)
    PROVE  TasksOK(task')
<1>1. /\ task \in [Slots -> Tasks] /\ TasksOK(task) /\ task[s] \in Tasks
      /\ task[s].pc = "waitpid" /\ task[s].state = "RUNNING"
  BY DEF TaskInv, TasksOK, WaitpidReturn, At
<1>2. PICK rest : rest = task[s].signal \ {"CHLD"}
  OBVIOUS
<1>3. CASE rest # {}
  <2>1. task' = [task EXCEPT ![s].pc = "user", ![s].arg = Any, ![s].signal = rest]
    BY <1>2, <1>3 DEF WaitpidReturn
  <2>2. PICK r : r = [task[s] EXCEPT !.pc = "user", !.arg = Any, !.signal = rest]
    OBVIOUS
  <2>3. r \in Tasks /\ Alike(r, task[s])
    <3>1. rest \in SUBSET Signals
      BY <1>1, <1>2 DEF Tasks
    <3>2. QED
      <4>1. Any \in 0 .. MaxPid
        BY MaxPidAssumption DEF Any
      <4>2. r.pid = task[s].pid /\ r.father = task[s].father /\ r.state = "RUNNING" /\ r.pc = "user"
        BY <1>1, <2>2 DEF Tasks
      <4>3. r \in Tasks
        BY <1>1, <2>2, <3>1, <4>1 DEF Tasks, Pcs
      <4>4. QED
        BY <1>1, <4>2, <4>3 DEF Alike
  <2>4. task' = [task EXCEPT ![s] = r]
    BY <1>1, <2>1, <2>2
  <2>5. QED
    BY <1>1, <2>3, <2>4, OneAlike
<1>4. CASE rest = {}
  <2>1. task[s].arg \in 0 .. MaxPid
    BY <1>1 DEF Tasks
  <2>2. PICK w : w = waitpid(s, task[s].arg)
    OBVIOUS
  <2>3. TasksOK(w)
    BY <1>1, <2>1, <2>2, WaitpidKeeps
  <2>4. task' = [w EXCEPT ![s].signal = {}]
    BY <1>2, <1>4, <2>2 DEF WaitpidReturn
  <2>5. PICK r : r = [w[s] EXCEPT !.signal = {}]
    OBVIOUS
  <2>6. w[s] \in Tasks
    BY <2>3 DEF TasksOK
  <2>7. r \in Tasks /\ Alike(r, w[s])
    BY <2>5, <2>6 DEF Tasks, Alike
  <2>8. task' = [w EXCEPT ![s] = r]
    BY <2>4, <2>5
  <2>9. QED
    BY <2>3, <2>7, <2>8, OneAlike
<1>5. QED
  BY <1>3, <1>4

LEMMA ScheduleKeeps ==
    ASSUME TaskInv, Schedule
    PROVE  TasksOK(task')
<1>1. task \in [Slots -> Tasks] /\ TasksOK(task)
  BY DEF TaskInv, TasksOK
<1>2. ASSUME NEW s \in Slots
      PROVE  task'[s] \in Tasks /\ Alike(task'[s], task[s])
  <2>1. task[s] \in Tasks
    BY <1>1
  <2>2. task'[s] = IF task[s].state = "INTERRUPTIBLE" /\ Pending(task[s]) # {}
                     THEN [task[s] EXCEPT !.state = "RUNNING"] ELSE task[s]
    BY DEF Schedule
  <2>3. CASE task[s].state = "INTERRUPTIBLE" /\ Pending(task[s]) # {}
    BY <2>1, <2>2, <2>3 DEF Tasks, Alike
  <2>4. CASE ~(task[s].state = "INTERRUPTIBLE" /\ Pending(task[s]) # {})
    BY <2>1, <2>2, <2>4 DEF Alike
  <2>5. QED
    BY <2>3, <2>4
<1>3. task' \in [Slots -> Tasks]
  BY <1>2 DEF Schedule
<1>4. QED
  BY <1>1, <1>2, <1>3, AlikeKeeps

\* A signal is sent, taken without an effect, or masked.
LEMMA SignalKeeps ==
    ASSUME TaskInv, NEW s \in Slots,
           \/ SendKill(s)
           \/ DoSignal(s) /\ ~("KILL" \in task[s].signal)
           \/ \E b \in BOOLEAN : Mask(s, b)
    PROVE  TasksOK(task')
<1>1. task \in [Slots -> Tasks] /\ TasksOK(task) /\ task[s] \in Tasks
  BY DEF TaskInv, TasksOK
<1>2. CASE SendKill(s)
  <2>1. PICK r : r = [task[s] EXCEPT !.signal = @ \cup {"KILL"}]
    OBVIOUS
  <2>2. r \in Tasks /\ Alike(r, task[s])
    BY <1>1, <2>1 DEF Tasks, Signals, Alike
  <2>3. task' = [task EXCEPT ![s] = r]
    BY <1>1, <1>2, <2>1 DEF SendKill
  <2>4. QED
    BY <1>1, <2>2, <2>3, OneAlike
<1>3. CASE DoSignal(s) /\ ~("KILL" \in task[s].signal)
  <2>1. PICK r : r = [task[s] EXCEPT !.signal = @ \ {"CHLD"}]
    OBVIOUS
  <2>2. r \in Tasks /\ Alike(r, task[s])
    BY <1>1, <2>1 DEF Tasks, Signals, Alike
  <2>3. task' = [task EXCEPT ![s] = r]
    BY <1>1, <1>3, <2>1 DEF DoSignal
  <2>4. QED
    BY <1>1, <2>2, <2>3, OneAlike
<1>4. ASSUME NEW b \in BOOLEAN, Mask(s, b)
      PROVE  TasksOK(task')
  <2>1. PICK r : r = [task[s] EXCEPT !.blocked = b]
    OBVIOUS
  <2>2. r \in Tasks /\ Alike(r, task[s])
    BY <1>1, <2>1 DEF Tasks, Alike
  <2>3. task' = [task EXCEPT ![s] = r]
    BY <1>1, <1>4, <2>1 DEF Mask
  <2>4. QED
    BY <1>1, <2>2, <2>3, OneAlike
<1>5. QED
  BY <1>2, <1>3, <1>4

LEMMA TaskInit == Init => TaskInv
<1>1. SUFFICES ASSUME Init PROVE TaskInv
  OBVIOUS
<1>2. PICK r : r = [Free EXCEPT !.pid = 1, !.state = "RUNNING"]
  OBVIOUS
<1>3. 1 \in Pids /\ 1 \in Slots /\ 1 \in 0 .. MaxPid /\ 0 \in 0 .. MaxPid
  BY MaxPidAssumption, NrSlotsAssumption DEF Pids, Slots
<1>4. Free \in Tasks /\ Free.state = "FREE"
  BY <1>3 DEF Free, Tasks, Pcs, Any
<1>5. r \in Tasks /\ r.pid = 1 /\ r.father = 0 /\ r.state = "RUNNING"
  BY <1>2, <1>3 DEF Free, Tasks, Pcs, Any
<1>6. \A s \in Slots : task[s] = IF s = 1 THEN r ELSE Free
  BY <1>1, <1>2 DEF Init
<1>7. task \in [Slots -> Tasks]
  BY <1>1, <1>4, <1>5, <1>6 DEF Init
<1>8. TasksOK(task)
  BY <1>4, <1>5, <1>6, <1>7 DEF TasksOK
<1>9. QED
  <2>1. last_pid = 1
    BY <1>1 DEF Init
  <2>2. QED
    BY <1>3, <1>8, <2>1 DEF TaskInv

LEMMA TaskStep == TaskInv /\ [Next]_vars => TaskInv'
<1>1. SUFFICES ASSUME TaskInv, [Next]_vars
               PROVE  TaskInv'
  OBVIOUS
<1>2. TasksOK(task) /\ last_pid \in Pids
  BY <1>1 DEF TaskInv
<1>3. ASSUME TasksOK(task'), UNCHANGED last_pid
      PROVE  TaskInv'
  BY <1>2, <1>3 DEF TaskInv
<1>4. CASE Schedule
  <2>1. TasksOK(task') /\ UNCHANGED last_pid
    BY <1>1, <1>4, ScheduleKeeps DEF Schedule
  <2>2. QED
    BY <1>3, <2>1
<1>5. ASSUME NEW s \in Slots, Zombie(s)
      PROVE  TaskInv'
  <2>1. At(s, "do_exit") /\ task' = tell_father(s) /\ UNCHANGED last_pid
    BY <1>5 DEF Zombie
  <2>2. TasksOK(task')
    BY <1>1, <2>1, ZombieKeeps
  <2>3. QED
    BY <1>3, <2>1, <2>2
<1>6. ASSUME NEW s \in Slots, WaitpidReturn(s)
      PROVE  TaskInv'
  <2>1. TasksOK(task') /\ UNCHANGED last_pid
    BY <1>1, <1>6, WaitpidReturnKeeps DEF WaitpidReturn
  <2>2. QED
    BY <1>3, <2>1
<1>7. ASSUME NEW s \in Slots, DoSignal(s)
      PROVE  TaskInv'
  <2>1. UNCHANGED last_pid
    BY <1>7 DEF DoSignal
  <2>2. CASE "KILL" \in task[s].signal
    <3>1. At(s, "user") /\ do_exit(s)
      BY <1>7, <2>2 DEF DoSignal
    <3>2. TasksOK(task')
      BY <1>1, <3>1, ExitKeeps
    <3>3. QED
      BY <1>3, <2>1, <3>2
  <2>3. CASE ~("KILL" \in task[s].signal)
    <3>1. TasksOK(task')
      BY <1>1, <1>7, <2>3, SignalKeeps
    <3>2. QED
      BY <1>3, <2>1, <3>1
  <2>4. QED
    BY <2>2, <2>3
<1>8. ASSUME NEW s \in Slots, Fork(s)
      PROVE  TaskInv'
  BY <1>1, <1>8, ForkKeeps
<1>9. ASSUME NEW s \in Slots, Exit(s)
      PROVE  TaskInv'
  <2>1. At(s, "user") /\ do_exit(s) /\ UNCHANGED last_pid
    BY <1>9 DEF Exit
  <2>2. TasksOK(task')
    BY <1>1, <2>1, ExitKeeps
  <2>3. QED
    BY <1>3, <2>1, <2>2
<1>10. ASSUME NEW s \in Slots, SendKill(s)
       PROVE  TaskInv'
  <2>1. UNCHANGED last_pid
    BY <1>10 DEF SendKill
  <2>2. TasksOK(task')
    BY <1>1, <1>10, SignalKeeps
  <2>3. QED
    BY <1>3, <2>1, <2>2
<1>11. ASSUME NEW s \in Slots, NEW arg \in 0 .. MaxPid, Waitpid(s, arg)
       PROVE  TaskInv'
  <2>1. task[s].state = "RUNNING" /\ task[s].pc = "user" /\ task' = waitpid(s, arg) /\ UNCHANGED last_pid
    BY <1>11 DEF Waitpid, At
  <2>2. TasksOK(waitpid(s, arg))
    BY <1>1, <2>1, WaitpidKeeps
  <2>3. QED
    BY <1>3, <2>1, <2>2
<1>12. ASSUME NEW s \in Slots, NEW b \in BOOLEAN, Mask(s, b)
       PROVE  TaskInv'
  <2>1. UNCHANGED last_pid
    BY <1>12 DEF Mask
  <2>2. TasksOK(task')
    BY <1>1, <1>12, SignalKeeps
  <2>3. QED
    BY <1>3, <2>1, <2>2
<1>13. CASE UNCHANGED vars
  BY <1>2, <1>13 DEF TaskInv, vars
<1>14. QED
  BY <1>1, <1>4, <1>5, <1>6, <1>7, <1>8, <1>9, <1>10, <1>11, <1>12, <1>13 DEF Next, InKernel

\* Every task has a pid of its own, and a father who has not begun to exit, unless it was given to
\* task 1 or has none (fork.c, exit.c).
THEOREM TaskInvAlways == Spec => []TaskInv
<1>1. QED
  BY TaskInit, TaskStep, PTL DEF Spec

\* find_empty_process() gives no pid twice, however often last_pid has wrapped; and as long as
\* task 1 lives, every zombie has a living father, whatever the order of the exits.
THEOREM TasksAreConsistent == Spec => []TasksConsistent
<1>1. TaskInv => TasksConsistent
  <2>1. SUFFICES ASSUME TaskInv PROVE TasksConsistent
    OBVIOUS
  <2>2. TypeOK
    BY <2>1 DEF TaskInv, TasksOK, Tasks, TypeOK
  <2>3. PidsUnique
    BY <2>1 DEF TaskInv, TasksOK, PidsUnique, Used
  <2>4. ASSUME InitAlive, NEW z \in Used \ Alive
        PROVE  \E s \in Alive : task[s].pid = task[z].father
    <3>1. z \in Slots /\ task[z].state = "ZOMBIE"
      BY DEF Used, Alive
    <3>2. task[z].father # 0 /\ (task[z].father \in {0, 1} \/ HasFather(task, task[z].father))
      BY <2>1, <3>1 DEF TaskInv, TasksOK
    <3>3. CASE task[z].father = 1
      BY <2>4, <3>3 DEF InitAlive
    <3>4. CASE HasFather(task, task[z].father)
      BY <3>4 DEF HasFather, Alive, Used
    <3>5. QED
      BY <3>2, <3>3, <3>4
  <2>5. QED
    BY <2>2, <2>3, <2>4 DEF TasksConsistent, ZombieHasFather
<1>2. QED
  BY <1>1, TaskInvAlways, PTL

==============================================================================
