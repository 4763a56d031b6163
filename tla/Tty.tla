-------------------------------- MODULE Tty --------------------------------
(***************************************************************************)
(* A serial terminal: the queues of tty_io.c, the interrupts of rs_io.s    *)
(* and serial.c, a task that reads and a task that writes.                 *)
(*                                                                         *)
(* The interrupts are those of an interrupt gate: each is one step, with   *)
(* do_tty_interrupt() and the echo. They come between any two steps of a   *)
(* task, and in the middle of PUTCH and of GETCH; a task that is in the    *)
(* kernel keeps the processor until it sleeps or calls schedule().         *)
(*                                                                         *)
(* Of the write queue only head is kept, counted from tail; canon stands   *)
(* for ICANON and ISIG. Left out are the translations of characters, VTIME *)
(* and VMIN (0 and 1, as INIT_C_CC sets them), and the stop character,     *)
(* which sets a flag that nothing reads.                                   *)
(* The model stops when a character that is being read is erased (torn).   *)
(***************************************************************************)
EXTENDS Integers, Sequences, FiniteSets, SequencesExt

CONSTANTS
    TTY_BUF_SIZE, \* the places of a queue
    startup,      \* 256: with so many characters left the writer is woken
    Room,         \* 128: the room a writer waits for
    Margin,       \* 20: with more room than this a line is waited for
    MaxTyped,     \* bound: the characters that arrive
    MaxNr         \* bound: the characters that a call reads or writes

ASSUME TtyAssumption ==
    /\ TTY_BUF_SIZE \in Nat /\ startup \in Nat /\ Room \in Nat /\ Margin \in Nat
    /\ startup + Room < TTY_BUF_SIZE /\ Margin < TTY_BUF_SIZE
    /\ MaxTyped \in Nat /\ MaxNr \in Nat

VARIABLE tt

ttyVars == <<tt>>

Typed == {"a", "nl", "eof", "erase", "kill", "intr"}
Eols == {"nl", "eof"}

\* tx: the transmit interrupt is enabled. signal has the tasks with a signal. rd and wr are the
\* calls: where they are, the characters to go, and the character or the head that was fetched.
TtyInit ==
    \E canon, echo \in BOOLEAN :
        tt = [canon |-> canon, echo |-> echo, read_q |-> <<>>, secondary |-> <<>>, data |-> 0,
              head |-> 0, tx |-> FALSE, signal |-> {}, typed |-> 0, torn |-> FALSE,
              rd |-> [at |-> "user", nr |-> 0, c |-> "a"],
              wr |-> [at |-> "user", nr |-> 0, h |-> 0]]

Inc(i) == (i + 1) % TTY_BUF_SIZE
FULL(q) == Len(q) = TTY_BUF_SIZE - 1
LEFT == TTY_BUF_SIZE - 1 - tt.head   \* of the write queue

-----------------------------------------------------------------------------
(* copy_to_cooked(). Operators take the state s and give the next one. *)

\* n times PUTCH to the write queue, which nothing keeps from running over, and rs_write().
Echo(s, n) ==
    IF ~s.echo \/ n = 0 THEN s
    ELSE LET head == (s.head + n) % TTY_BUF_SIZE
         IN [s EXCEPT !.head = head, !.tx = @ \/ head # 0]

\* The characters at the end that erase and kill may take: those after the last end of line.
Erasable(s) ==
    LET q == s.secondary
    IN {n \in 0 .. Len(q) : \A i \in Len(q) - n + 1 .. Len(q) : q[i] \notin Eols}

Erase(s, n) ==
    [Echo(s, n) EXCEPT !.secondary = SubSeq(@, 1, Len(@) - n), !.tx = @ \/ (s.echo /\ n > 1)]

\* Mutated form: a line that ends with EOF is not counted.
StoreNl(s, c) ==
    [Echo(s, 1) EXCEPT !.secondary = Append(@, c), !.data = IF c = "nl" THEN @ + 1 ELSE @]

\* An ordinary character, or an end of line.
Store(s, c) ==
    [Echo(s, IF c \in {"nl", "eof", "intr"} THEN 2 ELSE 1)
        EXCEPT !.secondary = Append(@, c), !.data = IF c \in Eols THEN @ + 1 ELSE @]

\* One turn of the loop.
CookOne(s, c) ==
    LET max == CHOOSE n \in Erasable(s) : \A m \in Erasable(s) : m <= n
    IN CASE s.canon /\ c = "kill"  -> Erase(s, max)
         [] s.canon /\ c = "erase" -> Erase(s, IF max > 0 THEN 1 ELSE 0)
         [] s.canon /\ c = "intr"  -> [s EXCEPT !.signal = {"rd", "wr"}]   \* tty_intr(): the group
         [] OTHER                  -> Store(s, c)

copy_to_cooked(s) ==
    LET cook[n \in 0 .. Len(s.read_q)] ==
            IF n = 0 THEN s
            ELSE LET t == cook[n - 1]
                 IN IF FULL(t.secondary) THEN t
                    ELSE CookOne([t EXCEPT !.read_q = Tail(@)], Head(t.read_q))
    IN [cook[Len(s.read_q)] EXCEPT !.rd.at = IF @ = "asleep" THEN "ready" ELSE @]

-----------------------------------------------------------------------------
(* rs_io.s *)

\* read_char: a character for which the queue has no room is lost.
read_char(c) ==
    /\ ~tt.torn /\ tt.typed < MaxTyped
    /\ \E s \in {[tt EXCEPT !.typed = @ + 1, !.read_q = IF FULL(@) THEN @ ELSE Append(@, c)]} :
          tt' = copy_to_cooked(s)

\* Mutated form: the writer is woken when there is too little room, and not again.
WakesEarly(chars) == chars = startup + 2

\* Whether write_char wakes the writer: chars is what is left before it sends one.
Wakes(chars) == chars <= startup \/ chars = 1

\* write_char: a character goes out; when there is none left the interrupt is disabled.
write_char ==
    /\ ~tt.torn /\ tt.tx
    /\ tt' = [tt EXCEPT !.head = IF @ = 0 THEN 0 ELSE @ - 1,
                        !.wr.h = IF tt.wr.at = "store" /\ tt.head # 0 THEN (@ - 1) % TTY_BUF_SIZE ELSE @,
                        !.tx = tt.head > 1,
                        !.wr.at = IF @ = "asleep" /\ Wakes(tt.head) THEN "ready" ELSE @]

-----------------------------------------------------------------------------
(* The tasks. *)

\* Nobody else is in the kernel, other than asleep or waiting for the processor.
Free(other) == other.at \in {"user", "asleep", "ready", "scheduled"}

\* A task that sleeps is woken by a signal, in schedule().
Signalled ==
    /\ ~tt.torn
    /\ \/ "rd" \in tt.signal /\ tt.rd.at = "asleep" /\ tt' = [tt EXCEPT !.rd.at = "ready"]
       \/ "wr" \in tt.signal /\ tt.wr.at = "asleep" /\ tt' = [tt EXCEPT !.wr.at = "ready"]

CallRead(nr) ==
    /\ ~tt.torn /\ tt.rd.at = "user" /\ Free(tt.wr)
    /\ tt' = [tt EXCEPT !.rd.at = "loop", !.rd.nr = nr]

\* A return to the user; the signals are taken.
ReadReturns(s) == [s EXCEPT !.rd = [at |-> "user", nr |-> 0, c |-> "a"], !.signal = @ \ {"rd"}]

\* sleep_if_empty(): with interrupts off.
SleepsIfEmpty == tt.secondary = <<>>

\* A partial line: the task waits for the rest of it, without sleeping.
Partial == tt.canon /\ tt.secondary # <<>> /\ tt.data = 0 /\ TTY_BUF_SIZE - 1 - Len(tt.secondary) > Margin

\* The outer loop of tty_read(), up to the fetch of a character.
ReadLoop ==
    /\ ~tt.torn /\ Free(tt.wr)
    /\ tt.rd.at = "loop" \/ tt.rd.at = "ready"
    /\ \/ "rd" \in tt.signal /\ tt' = ReadReturns(tt)
       \/ "rd" \notin tt.signal /\ SleepsIfEmpty /\ tt' = [tt EXCEPT !.rd.at = "asleep"]
       \/ "rd" \notin tt.signal /\ ~SleepsIfEmpty /\ Partial /\ tt' = [tt EXCEPT !.rd.at = "loop"]
       \/ /\ "rd" \notin tt.signal /\ ~SleepsIfEmpty /\ ~Partial
          /\ tt' = [tt EXCEPT !.rd.at = "take", !.rd.c = Head(tt.secondary)]

\* The rest of GETCH, and the inner loop: it goes on behind the end of a line.
Take ==
    /\ ~tt.torn /\ tt.rd.at = "take"
    /\ IF tt.secondary = <<>> \/ Head(tt.secondary) # tt.rd.c
         THEN tt' = [tt EXCEPT !.torn = TRUE]
         ELSE \E s \in {[tt EXCEPT !.secondary = Tail(@), !.data = IF tt.rd.c \in Eols THEN @ - 1 ELSE @,
                                   !.rd.nr = @ - 1]} :
                tt' = IF (tt.canon /\ tt.rd.c = "eof") \/ s.rd.nr = 0 \/ s.secondary = <<>>
                        THEN ReadReturns(s)
                        ELSE [s EXCEPT !.rd.c = Head(s.secondary)]

CallWrite(nr) ==
    /\ ~tt.torn /\ tt.wr.at = "user" /\ Free(tt.rd)
    /\ tt' = [tt EXCEPT !.wr.at = "loop", !.wr.nr = nr]

WriteReturns(s) == [s EXCEPT !.wr = [at |-> "user", nr |-> 0, h |-> 0], !.signal = @ \ {"wr"}]

\* sleep_if_full(): a task that has slept waits for Room, one that has not for any room.
WriteLoop ==
    /\ ~tt.torn /\ Free(tt.rd) /\ tt.wr.at \in {"loop", "ready", "scheduled"}
    /\ tt' = IF "wr" \in tt.signal THEN WriteReturns(tt)
             ELSE [tt EXCEPT !.wr.at = IF LEFT < (IF tt.wr.at = "ready" THEN Room ELSE 1) THEN "asleep" ELSE "fetch"]

\* The inner loop, to where PUTCH has fetched head, or rs_write() and schedule().
Fetch ==
    /\ ~tt.torn /\ tt.wr.at = "fetch"
    /\ tt' = IF tt.wr.nr > 0 /\ LEFT > 0 THEN [tt EXCEPT !.wr.at = "store", !.wr.h = tt.head]
             ELSE LET s == [tt EXCEPT !.tx = @ \/ tt.head # 0]
                  IN IF tt.wr.nr = 0 THEN WriteReturns(s) ELSE [s EXCEPT !.wr.at = "scheduled", !.wr.h = 0]

StoreHead ==
    /\ ~tt.torn /\ tt.wr.at = "store"
    /\ tt' = [tt EXCEPT !.head = Inc(tt.wr.h), !.wr.nr = @ - 1, !.wr.at = "fetch", !.wr.h = 0]

\* TCFLSH of a third task empties the queue of what was typed (as TCSETSF does), that of what is written,
\* or both; what the line discipline has cooked stays.
Flush ==
    /\ ~tt.torn /\ Free(tt.rd) /\ Free(tt.wr)
    /\ \E q \in {tt.read_q, <<>>}, h \in {tt.head, 0} : tt' = [tt EXCEPT !.read_q = q, !.head = h]

TtyNext ==
    \/ \E c \in Typed : read_char(c)
    \/ write_char \/ Signalled \/ Flush
    \/ \E nr \in 1 .. MaxNr : CallRead(nr) \/ CallWrite(nr)
    \/ ReadLoop \/ Take \/ WriteLoop \/ Fetch \/ StoreHead

\* The line transmits, and the scheduler gives a task that can run the processor again and again.
TtyFairness ==
    /\ WF_ttyVars(write_char) /\ WF_ttyVars(Signalled)
    /\ SF_ttyVars(ReadLoop) /\ SF_ttyVars(WriteLoop)
    /\ WF_ttyVars(Take) /\ WF_ttyVars(Fetch) /\ WF_ttyVars(StoreHead)

TtySpec == TtyInit /\ [][TtyNext]_ttyVars /\ TtyFairness

-----------------------------------------------------------------------------

\* secondary.data, which says whether a line is there, counts the ends of lines that are in the
\* queue, also when lines are erased, read in part, or longer than the queue.
DataIsLines == tt.torn \/ tt.data = Cardinality({i \in DOMAIN tt.secondary : tt.secondary[i] \in Eols})

\* A task that reads returns once there is a line, or, without ICANON, a character, although it may
\* have gone to sleep just before.
ReadEnds ==
    (tt.rd.at # "user" /\ IF tt.canon THEN tt.data > 0 ELSE tt.secondary # <<>>) ~> (tt.rd.at = "user" \/ tt.torn)

\* A task that writes more than the queue takes is woken whenever there is room, and comes to its
\* end, whatever is echoed between; a reader that polls for the rest of a line holds it up.
WriteEnds ==
    tt.wr.at # "user" ~> (tt.wr.at = "user" \/ tt.torn \/ (tt.rd.at = "loop" /\ Partial))

\* Neither call sleeps for ever.
CallsEnd == ReadEnds /\ WriteEnds
=============================================================================
