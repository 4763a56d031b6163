------------------------------ MODULE Keyboard ------------------------------
(***************************************************************************)
(* The keyboard interrupt, keyboard.S, and the keys behind it.             *)
(*                                                                         *)
(* A key sends codes, the interrupt takes them one at a time, and what it  *)
(* makes of them goes to the read queue of the console, from which         *)
(* copy_to_cooked() takes characters. An interrupt is one step: the next   *)
(* one cannot come before the controller is told (outb 0x20).              *)
(*                                                                         *)
(* A character is the key it is for, and where it stands in what the key   *)
(* sends. Left out are the maps of the national keyboards, what the        *)
(* keyboard answers when its lights are set, and the shifts that it        *)
(* invents around the grey keys (E0 2A), which the driver takes for real.  *)
(***************************************************************************)
EXTENDS Integers, Sequences

CONSTANTS
    Keys,      \* the keys that are used
    MaxWire,   \* bound: the codes that wait in the keyboard when a key moves
    size       \* of the queue

VARIABLE kb

kbVars == <<kb>>

\* The keys that share a code with another one, which comes after E0, and the code.
Grey == [rctrl |-> "ctrl", altgr |-> "alt", slash |-> "minus", left |-> "pad4"]

KeyboardAssumption ==
    /\ Keys \subseteq DOMAIN Grey \cup {"lshift", "rshift", "ctrl", "alt", "caps", "num", "scroll",
                                        "a", "minus", "pad4", "del", "f1", "pause"}
    /\ MaxWire \in Nat /\ size \in Nat \ {0}

Modifiers == {"lshift", "rshift", "ctrl", "rctrl", "alt", "altgr"}

\* mode and leds are the bits that are set ("held" is 0x80: the caps key is down). wire is what the
\* keyboard has still to send. down, last and capsOn are the keys that are down, the one that
\* repeats, and whether caps was pressed an odd number of times.
KbInit == kb = [mode |-> {}, leds |-> {"num"}, e0 |-> 0, queue |-> <<>>, dead |-> FALSE,
                wire |-> <<>>, down |-> {}, last |-> "none", capsOn |-> FALSE]

-----------------------------------------------------------------------------
(* The keyboard. *)

Code(c, up) == [code |-> c, up |-> up]

\* What a key sends. Pause sends all of it when it is pressed, and with ctrl down it is break: E0 46.
Sends(k, up) ==
    CASE k \in DOMAIN Grey               -> <<Code("E0", FALSE), Code(Grey[k], up)>>
      [] k = "pause" /\ up                -> <<>>
      [] k = "pause" /\ ~up /\ kb.down \cap {"ctrl", "rctrl"} = {} ->
             <<Code("E1", FALSE), Code("ctrl", FALSE), Code("num", FALSE),
               Code("E1", FALSE), Code("ctrl", TRUE), Code("num", TRUE)>>
      [] k = "pause" /\ ~up /\ kb.down \cap {"ctrl", "rctrl"} # {} ->
             <<Code("E0", FALSE), Code("scroll", FALSE), Code("E0", FALSE), Code("scroll", TRUE)>>
      [] OTHER                            -> <<Code(k, up)>>

Press(k) ==
    /\ ~kb.dead /\ k \notin kb.down /\ Len(kb.wire) <= MaxWire
    /\ kb' = [kb EXCEPT !.down = @ \cup {k}, !.last = k, !.wire = @ \o Sends(k, FALSE),
                        !.capsOn = IF k = "caps" THEN ~@ ELSE @]

\* A key that stays down sends its code again and again; pause does not.
KeyRepeat(k) ==
    /\ ~kb.dead /\ k \in kb.down /\ kb.last = k /\ k # "pause" /\ Len(kb.wire) <= MaxWire
    /\ kb' = [kb EXCEPT !.wire = @ \o Sends(k, FALSE)]

Release(k) ==
    /\ ~kb.dead /\ k \in kb.down /\ Len(kb.wire) <= MaxWire
    /\ kb' = [kb EXCEPT !.down = @ \ {k}, !.last = IF @ = k THEN "none" ELSE @,
                        !.wire = @ \o Sends(k, TRUE)]

-----------------------------------------------------------------------------
(* The interrupt. Operators take the state s and give the next one. *)

\* Mutated form: head is stored after each character.
PutAsItGoes(s, k, n) ==
    LET room == size - 1 - Len(s.queue)
    IN [s EXCEPT !.queue = @ \o [i \in 1 .. (IF n <= room THEN n ELSE room) |-> [key |-> k, at |-> i, of |-> n]]]

\* The n characters of k, or nothing when they fill the queue.
put_queue(s, k, n) ==
    IF Len(s.queue) + n >= size THEN s
    ELSE [s EXCEPT !.queue = @ \o [i \in 1 .. n |-> [key |-> k, at |-> i, of |-> n]]]

\* A control or alt code after E0 (or E1) is the right one: addb %al,%al.
Side(s, c) == IF s.e0 = 0 THEN c ELSE IF c = "ctrl" THEN "rctrl" ELSE "altgr"

\* ctrl, alt, lshift, rshift
Make(s, c) == [s EXCEPT !.mode = @ \cup {IF c \in {"ctrl", "alt"} THEN Side(s, c) ELSE c}]

\* unctrl, unalt, unlshift, unrshift
Break(s, c) == [s EXCEPT !.mode = @ \ {IF c \in {"ctrl", "alt"} THEN Side(s, c) ELSE c}]

Toggled(set, x) == IF x \in set THEN set \ {x} ELSE set \cup {x}

caps(s) ==
    IF "held" \in s.mode THEN s
    ELSE [s EXCEPT !.leds = Toggled(@, "caps"), !.mode = Toggled(@, "caps") \cup {"held"}]

uncaps(s) == [s EXCEPT !.mode = @ \ {"held"}]

\* cursor: a digit, or ESC [ and a letter; ctrl, alt and del reboot.
cursor(s, c) ==
    IF c = "del" /\ s.mode \cap {"ctrl", "rctrl"} # {} /\ s.mode \cap {"alt", "altgr"} # {}
      THEN [s EXCEPT !.dead = TRUE]
    ELSE put_queue(s, c, IF s.e0 = 1 \/ "num" \notin s.leds \/ s.mode \cap {"lshift", "rshift"} # {}
                           THEN IF c = "del" THEN 4 ELSE 3   \* del: ESC [ 3 ~
                           ELSE 1)

\* do_self: most keys have nothing in the map of alt-gr.
do_self(s, c) == IF "altgr" \in s.mode THEN s ELSE put_queue(s, c, 1)

minus(s) == IF s.e0 = 1 THEN put_queue(s, "slash", 1) ELSE do_self(s, "minus")

\* func: whether there is room is read from %ecx, which is what the interrupted code had there.
func(s, c, ecx) == IF ecx THEN put_queue(s, c, 4) ELSE s

\* key_table: what is called for a code.
key_table(s, b, ecx) ==
    CASE b.code \in Modifiers /\ ~b.up          -> Make(s, b.code)
      [] b.code \in Modifiers /\ b.up           -> Break(s, b.code)
      [] b.code = "caps" /\ ~b.up               -> caps(s)
      [] b.code = "caps" /\ b.up                -> uncaps(s)
      [] b.code \in {"num", "scroll"} /\ ~b.up  -> [s EXCEPT !.leds = Toggled(@, b.code)]
      [] b.code \in {"pad4", "del"} /\ ~b.up    -> cursor(s, b.code)
      [] b.code = "f1" /\ ~b.up                 -> func(s, b.code, ecx)
      [] b.code = "minus" /\ ~b.up              -> minus(s)
      [] b.code = "a" /\ ~b.up                  -> do_self(s, b.code)
      [] OTHER                                  -> s

keyboard_interrupt ==
    /\ ~kb.dead /\ kb.wire # <<>>
    /\ \E b \in {Head(kb.wire)}, s \in {[kb EXCEPT !.wire = Tail(@)]}, ecx \in BOOLEAN :
          kb' = CASE b.code = "E0" -> [s EXCEPT !.e0 = 1]
                  [] b.code = "E1" -> [s EXCEPT !.e0 = 2]
                  [] OTHER         -> [key_table(s, b, ecx) EXCEPT !.e0 = 0]

\* copy_to_cooked() takes a character.
GetChar == /\ ~kb.dead /\ kb.queue # <<>> /\ kb' = [kb EXCEPT !.queue = Tail(@)]

\* die: jmp die
Die == kb.dead /\ UNCHANGED kb

KbNext ==
    \/ \E k \in Keys : Press(k) \/ KeyRepeat(k) \/ Release(k)
    \/ keyboard_interrupt \/ GetChar \/ Die

KbSpec == KbInit /\ [][KbNext]_kbVars

-----------------------------------------------------------------------------

\* When the keyboard has nothing more to send, the modes say which modifiers are down, and the right
\* ones are told from the left ones, whatever was pressed and repeated between; caps lock, in the
\* mode and in the light, has changed once for every time that its key went down.
ModesFollowKeys ==
    kb.wire = <<>> /\ ~kb.dead =>
        /\ kb.mode \cap Modifiers = kb.down \cap Modifiers /\ kb.e0 = 0
        /\ ("held" \in kb.mode) = ("caps" \in kb.down)
        /\ ("caps" \in kb.mode) = kb.capsOn /\ ("caps" \in kb.leds) = kb.capsOn

\* Also when the queue fills, what a key sends is in it to its end, and nothing comes between.
SequencesWhole ==
    \A i \in 1 .. Len(kb.queue) :
        kb.queue[i].at < kb.queue[i].of =>
            i < Len(kb.queue) /\ kb.queue[i + 1] = [kb.queue[i] EXCEPT !.at = @ + 1]
=============================================================================
