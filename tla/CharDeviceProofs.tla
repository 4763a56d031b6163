-------------------------- MODULE CharDeviceProofs --------------------------
(***************************************************************************)
(* Proofs about the character devices, with the instances of MCConsole:    *)
(* mouse, keyboard and console; and about the serial terminal.             *)
(*                                                                         *)
(* Of the mouse: what holds for every set of bytes that a device may send. *)
(*                                                                         *)
(* Of the keyboard: however many codes are on the wire, what they lead to  *)
(* is modes that fit the keys. What a code does to the modes is After, and *)
(* that a sequence of codes leads from one to another, Leads, says that    *)
(* there are modes for each place in between, so that it needs no          *)
(* recursion: a key that moves makes the sequence longer (LeadsOn), and    *)
(* an interrupt takes its first code (LeadsTail).                          *)
(*                                                                         *)
(* Of the console, whatever the size of its screen and its memory: every   *)
(* store is made through Fill, Move or a cell of the cursor's line. The    *)
(* products of lines and columns are in a few lemmas (Products,            *)
(* CursorPlace, Addresses), after which addresses are sums. That it        *)
(* implements Screen is shown line by line: RowsOf is what is seen, the    *)
(* sequences of Screen are the functions UpView, DownView, InView and      *)
(* OutView of lines and columns, and each change of the memory is shown to *)
(* be one of them cell by cell (SameRows).                                 *)
(*                                                                         *)
(* Of the serial terminal, for queues of any size: the lines of a queue    *)
(* are the places where one ends (LinesIn), which one more character, one  *)
(* less at the front, and a cut behind the last end of a line change as    *)
(* the code counts; and the function by which copy_to_cooked() turns is an *)
(* iteration, each turn of which keeps the count.                          *)
(***************************************************************************)
EXTENDS MCConsole, Tty, FiniteSetTheorems, FunctionTheorems, SequenceTheorems, WellFoundedInduction, NaturalsInduction, TLAPS

-----------------------------------------------------------------------------
(* The mouse. *)

\* The type invariant, with the cursor on the screen, which the types of the positions need.
Inv == TypeOK /\ OnScreen

\* A bit is a truth value.
LEMMA BitType == \A byte, mask : Bit(byte, mask) \in BOOLEAN
  BY DEF Bit

\* The driver at the start.
LEMMA InitInv == Init => Inv
  <1> SUFFICES ASSUME Init PROVE Inv
    OBVIOUS
  <1>1. TypeOK
    <2>1. clicks \subseteq Messages
      BY DEF Init
    <2>2. mouse_input_count \in 0 .. 3 /\ phase \in 0 .. 3 /\ x_position \in Int /\ y_position \in Int
      BY DEF Init
    <2> QED
      BY <2>1, <2>2, Zenon DEF Init, TypeOK
  <1>2. OnScreen
    BY DEF Init, OnScreen, vga_width, vga_height
  <1> QED
    BY <1>1, <1>2 DEF Inv

\* What a byte leaves of the device is well typed.
LEMMA SendType ==
    ASSUME TypeOK, NEW byte \in Bytes, Send(byte)
    PROVE  phase' \in 0 .. 3 /\ slipped' \in BOOLEAN
  BY BytesAssumption DEF TypeOK, Send, ACK

\* Each case of the switch leaves the cursor on the screen.
LEMMA NewXOnScreen ==
    ASSUME NEW x \in Int, x_overflow \in BOOLEAN, x_sign \in BOOLEAN
    PROVE  NewX(x) \in 0 .. vga_width
  BY DEF NewX, vga_width, cursor_side

\* The same of the other coordinate.
LEMMA NewYOnScreen ==
    ASSUME NEW y \in Int, y_overflow \in BOOLEAN, y_sign \in BOOLEAN
    PROVE  NewY(y) \in 0 .. vga_height
  BY DEF NewY, vga_height, cursor_side

\* One byte taken by readmouse().
LEMMA ReadMouseInv ==
    ASSUME Inv, NEW byte \in Bytes, mouse_interrupt(byte)
    PROVE  Inv'
  <1>1. phase' \in 0 .. 3 /\ slipped' \in BOOLEAN
    BY SendType DEF Inv, mouse_interrupt
  <1>2. moved' \in BOOLEAN
    BY DEF mouse_interrupt, Inv, TypeOK
  <1>3. byte \in Int /\ byte - 256 \in Int
    BY BytesAssumption
  <1>4. CASE Ignored(byte) \/ Acknowledged(byte)
    BY <1>1, <1>2, <1>4 DEF Ignored, Acknowledged, Inv, TypeOK, OnScreen, flags, Messages
  <1>5. CASE ReadFlags(byte)
    <2>1. /\ mouse_left_down' \in BOOLEAN /\ mouse_right_down' \in BOOLEAN
          /\ x_overflow' \in BOOLEAN /\ y_overflow' \in BOOLEAN
          /\ x_sign' \in BOOLEAN /\ y_sign' \in BOOLEAN
      BY <1>5, BitType DEF ReadFlags
    <2> QED
      BY <1>1, <1>2, <1>5, <2>1 DEF ReadFlags, Inv, TypeOK, OnScreen, Messages
  <1>6. CASE ReadX(byte)
    <2> DEFINE x == IF ButtonDown THEN x_position ELSE x_position + Signed(x_sign, byte)
    <2>1. x \in Int
      BY <1>3 DEF Inv, TypeOK, Signed
    <2>2. x_position' \in 0 .. vga_width
      BY <1>6, <2>1, NewXOnScreen DEF ReadX, Inv, TypeOK
    <2> QED
      BY <1>1, <1>2, <1>6, <2>2 DEF ReadX, Inv, TypeOK, OnScreen, flags, Messages, vga_width
  <1>7. CASE ReadY(byte)
    <2> DEFINE y == IF ButtonDown THEN y_position ELSE y_position - Signed(y_sign, byte)
    <2>1. y \in Int
      BY <1>3 DEF Inv, TypeOK, Signed
    <2>2. y_position' \in 0 .. vga_height
      BY <1>7, <2>1, NewYOnScreen DEF ReadY, Inv, TypeOK
    <2> QED
      BY <1>1, <1>2, <1>7, <2>2 DEF ReadY, Inv, TypeOK, OnScreen, flags, Messages, vga_height
  <1> QED
    BY <1>4, <1>5, <1>6, <1>7 DEF mouse_interrupt, readmouse

\* Every step keeps the invariant of the cursor.
LEMMA NextInv == Inv /\ [Next]_vars => Inv'
  <1> SUFFICES ASSUME Inv, [Next]_vars PROVE Inv'
    OBVIOUS
  <1>1. CASE Next
    BY <1>1, ReadMouseInv DEF Next
  <1>2. CASE UNCHANGED vars
    BY <1>2 DEF vars, flags, Inv, TypeOK, OnScreen
  <1> QED
    BY <1>1, <1>2

\* As long as no byte of a packet was 0xFA, whether the cursor has moved since the packet began is
\* known at each byte.
MovedSoFar ==
    ~slipped => /\ phase \in {0, 2} => ~moved
                /\ phase = 3 /\ ButtonDown /\ ~x_overflow => ~moved
                /\ phase = 1 /\ ButtonDown /\ ~x_overflow /\ ~y_overflow => ~moved

PacketInv == Inv /\ InStep /\ MovedSoFar

\* On the screen, a position to which nothing was added is left as it is.
LEMMA EdgesKeep ==
    /\ \A x \in 0 .. vga_width  : x_overflow = FALSE => NewX(x) = x
    /\ \A y \in 0 .. vga_height : y_overflow = FALSE => NewY(y) = y
  BY DEF NewX, NewY, vga_width, vga_height

\* The driver takes the byte for what the device sent it as.
LEMMA StepInStep ==
    ASSUME PacketInv, NEW byte \in Bytes, mouse_interrupt(byte), ~slipped'
    PROVE  /\ ~slipped /\ mouse_input_count = phase /\ InStep'
           /\ phase = 0 => Ignored(byte) \/ Acknowledged(byte)
           /\ phase = 1 => ReadFlags(byte)
           /\ phase = 2 => ReadX(byte)
           /\ phase = 3 => ReadY(byte)
  <1>1. ~slipped /\ (phase = 0 \/ byte # ACK)
    BY DEF mouse_interrupt, Send, PacketInv, Inv, TypeOK
  <1>2. mouse_input_count = phase /\ phase \in 0 .. 3 /\ (clicks # {} => phase = 2)
    BY <1>1 DEF PacketInv, InStep, Inv, TypeOK
  <1>3. phase' = CASE phase = 0 -> IF byte = ACK THEN 1 ELSE 0
                   [] phase = 3 -> 1
                   [] OTHER     -> phase + 1
    BY DEF mouse_interrupt, Send
  <1>4. CASE phase = 0
    <2>1. Ignored(byte) \/ Acknowledged(byte)
      BY <1>2, <1>4 DEF mouse_interrupt, readmouse, ReadFlags, ReadX, ReadY
    <2> QED
      BY <1>1, <1>2, <1>3, <1>4, <2>1 DEF Ignored, Acknowledged, InStep
  <1>5. CASE phase = 1
    <2>1. ReadFlags(byte)
      BY <1>1, <1>2, <1>5 DEF mouse_interrupt, readmouse, Ignored, Acknowledged, ReadX, ReadY
    <2> QED
      BY <1>1, <1>2, <1>3, <1>5, <2>1 DEF ReadFlags, InStep
  <1>6. CASE phase = 2
    <2>1. ReadX(byte)
      BY <1>1, <1>2, <1>6 DEF mouse_interrupt, readmouse, Ignored, Acknowledged, ReadFlags, ReadY
    <2> QED
      BY <1>1, <1>2, <1>3, <1>6, <2>1 DEF ReadX, InStep
  <1>7. CASE phase = 3
    <2>1. ReadY(byte)
      BY <1>1, <1>2, <1>7 DEF mouse_interrupt, readmouse, Ignored, Acknowledged, ReadFlags, ReadX
    <2> QED
      BY <1>1, <1>2, <1>3, <1>7, <2>1 DEF ReadY, InStep
  <1> QED
    BY <1>2, <1>4, <1>5, <1>6, <1>7

\* A byte of a packet moves the cursor only if it says so.
LEMMA StepMovedSoFar ==
    ASSUME PacketInv, NEW byte \in Bytes, mouse_interrupt(byte), ~slipped'
    PROVE  MovedSoFar'
  <1>1. /\ phase \in 0 .. 3 /\ ~slipped /\ MovedSoFar
        /\ x_position \in 0 .. vga_width /\ y_position \in 0 .. vga_height
        /\ x_overflow \in BOOLEAN /\ y_overflow \in BOOLEAN
    BY StepInStep DEF PacketInv, Inv, TypeOK, OnScreen
  <1>2. /\ phase' = CASE phase = 0 -> IF byte = ACK THEN 1 ELSE 0
                      [] phase = 3 -> 1
                      [] OTHER     -> phase + 1
        /\ moved' <=> \/ phase # 1 /\ moved
                      \/ <<x_position, y_position>>' # <<x_position, y_position>>
    BY DEF mouse_interrupt, Send
  <1>3. CASE phase = 0
    <2>1. UNCHANGED <<x_position, y_position>>
      BY <1>3, StepInStep DEF Ignored, Acknowledged
    <2>2. ~moved'
      BY <1>1, <1>2, <1>3, <2>1 DEF MovedSoFar
    <2> QED
      BY <2>2 DEF MovedSoFar
  <1>4. CASE phase = 1
    <2>1. UNCHANGED <<x_position, y_position>>
      BY <1>4, StepInStep DEF ReadFlags
    <2>2. ~moved'
      BY <1>1, <1>2, <1>4, <2>1
    <2> QED
      BY <2>2 DEF MovedSoFar
  <1>5. CASE phase = 2
    <2>1. ReadX(byte) /\ ~moved /\ phase' = 3
      BY <1>1, <1>2, <1>5, StepInStep DEF MovedSoFar
    <2>2. ASSUME ButtonDown, ~x_overflow PROVE x_position' = x_position
      BY <1>1, <2>1, <2>2, EdgesKeep DEF ReadX
    <2>3. (ButtonDown /\ ~x_overflow)' => ButtonDown /\ ~x_overflow
      BY <2>1 DEF ReadX, flags, ButtonDown
    <2>4. y_position' = y_position
      BY <2>1 DEF ReadX
    <2> QED
      BY <1>2, <2>1, <2>2, <2>3, <2>4 DEF MovedSoFar
  <1>6. CASE phase = 3
    <2>1. ReadY(byte) /\ phase' = 1
      BY <1>1, <1>2, <1>6, StepInStep
    <2>2. ASSUME ButtonDown, ~y_overflow PROVE y_position' = y_position
      BY <1>1, <2>1, <2>2, EdgesKeep DEF ReadY
    <2>3. (ButtonDown /\ ~x_overflow /\ ~y_overflow)' => ButtonDown /\ ~x_overflow /\ ~y_overflow
      BY <2>1 DEF ReadY, flags, ButtonDown
    <2>4. x_position' = x_position
      BY <2>1 DEF ReadY
    <2> QED
      BY <1>1, <1>2, <1>6, <2>1, <2>2, <2>3, <2>4 DEF MovedSoFar
  <1> QED
    BY <1>1, <1>3, <1>4, <1>5, <1>6

\* Every step keeps the driver in step with the device.
LEMMA NextPacketInv == PacketInv /\ [Next]_vars => PacketInv'
  <1> SUFFICES ASSUME PacketInv, [Next]_vars PROVE PacketInv'
    OBVIOUS
  <1>1. Inv'
    BY NextInv DEF PacketInv
  <1>2. CASE Next
    <2>1. PICK byte \in Bytes : mouse_interrupt(byte)
      BY <1>2 DEF Next
    <2>2. CASE slipped'
      BY <1>1, <2>2 DEF PacketInv, InStep, MovedSoFar
    <2>3. CASE ~slipped'
      BY <1>1, <2>1, <2>3, StepInStep, StepMovedSoFar DEF PacketInv
    <2> QED
      BY <2>2, <2>3
  <1>3. CASE UNCHANGED vars
    BY <1>1, <1>3 DEF vars, flags, PacketInv, InStep, MovedSoFar, ButtonDown
  <1> QED
    BY <1>2, <1>3

\* Whatever bytes the device sends, and however far the driver is out of step with its packets,
\* the cursor of readmouse() stays within the 320 by 200 pixels of the screen; and until a byte of
\* a packet happens to be 0xFA, every byte is taken for what it is, and a click does not move the
\* cursor.
THEOREM PacketsAreUnderstood == Spec => []PacketsUnderstood
  <1>1. Init => PacketInv
    BY InitInv DEF Init, PacketInv, InStep, MovedSoFar
  <1>2. PacketInv => PacketsUnderstood
    BY DEF PacketInv, PacketsUnderstood, Inv, MovedSoFar, ClickDoesNotMove
  <1> QED
    BY <1>1, <1>2, NextPacketInv, PTL DEF Spec

\* The types of the driver's variables.
THEOREM MouseTypes == Spec => []TypeOK
  <1>1. Inv => TypeOK
    BY DEF Inv
  <1> QED
    BY InitInv, NextInv, <1>1, PTL DEF Spec

-----------------------------------------------------------------------------
(* The keyboard. *)

\* What the driver keeps of a code: s is the modes, the lights and e0 before it.
Now(s) == [mode |-> s.mode, leds |-> s.leds, e0 |-> s.e0]

ModeAfter(s, b) ==
    IF b.code \in K!Modifiers
      THEN LET m == IF b.code \in {"ctrl", "alt"} THEN K!Side(s, b.code) ELSE b.code
           IN IF b.up THEN s.mode \ {m} ELSE s.mode \cup {m}
    ELSE IF b.code = "caps" /\ b.up THEN s.mode \ {"held"}
    ELSE IF b.code = "caps" /\ "held" \notin s.mode THEN K!Toggled(s.mode, "caps") \cup {"held"}
    ELSE s.mode

LedsAfter(s, b) ==
    IF ~b.up /\ (b.code \in {"num", "scroll"} \/ (b.code = "caps" /\ "held" \notin s.mode))
      THEN K!Toggled(s.leds, b.code) ELSE s.leds

After(s, b) ==
    IF b.code = "E0" THEN [mode |-> s.mode, leds |-> s.leds, e0 |-> 1]
    ELSE IF b.code = "E1" THEN [mode |-> s.mode, leds |-> s.leds, e0 |-> 2]
    ELSE [mode |-> ModeAfter(s, b), leds |-> LedsAfter(s, b), e0 |-> 0]

\* When all codes of w have been taken, what was a is z: r has what it was in between.
Leads(a, w, z) ==
    \E r : /\ r[0] = a /\ r[Len(w)] = z
           /\ \A i \in 1 .. Len(w) : r[i] = After(r[i - 1], w[i])

\* The modes and lights are those of the keys that are down.
Fits(z, down, capsOn) ==
    /\ z.e0 = 0
    /\ z.mode \cap K!Modifiers = down \cap K!Modifiers
    /\ "held" \in z.mode <=> "caps" \in down
    /\ "caps" \in z.mode <=> capsOn
    /\ "caps" \in z.leds <=> capsOn

Codes == [code : Keys \cup {"E0", "E1", "ctrl", "alt", "minus", "pad4", "num", "scroll"}, up : BOOLEAN]
KeyChars == {"a", "minus", "slash", "pad4", "del", "f1"}
KbChars == [key : KeyChars, at : Nat, of : Nat]

Kbs == [mode : SUBSET (K!Modifiers \cup {"held", "caps"}), leds : SUBSET {"num", "scroll", "caps"},
        e0 : 0 .. 2, queue : Seq(KbChars), dead : BOOLEAN, wire : Seq(Codes),
        down : SUBSET Keys, last : Keys \cup {"none"}, capsOn : BOOLEAN]

\* In the queue q a character is the last of its sequence, or the next one follows.
Whole(q) ==
    \A i \in 1 .. Len(q) :
        q[i].at < q[i].of => i < Len(q) /\ q[i + 1] = [q[i] EXCEPT !.at = @ + 1]

\* What is on its way makes the driver's modes those of the keys.
CatchesUp == ~kb.dead => \E z : Leads(Now(kb), kb.wire, z) /\ Fits(z, kb.down, kb.capsOn)

KbInv == kb \in Kbs /\ CatchesUp /\ Whole(kb.queue)

LEMMA LeadsNone ==
    ASSUME NEW a
    PROVE  Leads(a, <<>>, a) /\ \A z : Leads(a, <<>>, z) => z = a
<1>1. [i \in {0} |-> a][0] = a /\ Len(<<>>) = 0
  OBVIOUS
<1>2. Leads(a, <<>>, a)
  <2>1. PICK r : r = [i \in {0} |-> a]
    OBVIOUS
  <2>2. r[0] = a /\ r[Len(<<>>)] = a
    BY <1>1, <2>1
  <2>3. \A i \in 1 .. Len(<<>>) : r[i] = After(r[i - 1], <<>>[i])
    BY <1>1
  <2>4. QED
    BY <2>2, <2>3 DEF Leads
<1>3. ASSUME NEW z, Leads(a, <<>>, z)
      PROVE  z = a
  BY <1>1, <1>3 DEF Leads
<1>4. QED
  BY <1>2, <1>3

LEMMA LeadsOne ==
    ASSUME NEW a, NEW b
    PROVE  Leads(a, <<b>>, After(a, b))
<1>1. PICK r : r = [i \in 0 .. 1 |-> IF i = 0 THEN a ELSE After(a, b)]
  OBVIOUS
<1>2. r[0] = a /\ r[1] = After(a, b) /\ Len(<<b>>) = 1 /\ <<b>>[1] = b
  BY <1>1
<1>3. \A i \in 1 .. 1 : r[i] = After(r[i - 1], <<b>>[i])
  BY <1>2
<1>4. QED
  BY <1>2, <1>3 DEF Leads

LEMMA LeadsOn ==
    ASSUME NEW S, NEW v \in Seq(S), NEW w \in Seq(S), NEW a, NEW y, NEW z,
           Leads(a, v, y), Leads(y, w, z)
    PROVE  Leads(a, v \o w, z)
<1>1. PICK p : p[0] = a /\ p[Len(v)] = y /\ \A i \in 1 .. Len(v) : p[i] = After(p[i - 1], v[i])
  BY DEF Leads
<1>2. PICK q : q[0] = y /\ q[Len(w)] = z /\ \A i \in 1 .. Len(w) : q[i] = After(q[i - 1], w[i])
  BY DEF Leads
<1>3. PICK u : u = v \o w
  OBVIOUS
<1>4. /\ Len(v) \in Nat /\ Len(w) \in Nat /\ Len(u) = Len(v) + Len(w)
      /\ \A i \in 1 .. Len(u) : u[i] = IF i <= Len(v) THEN v[i] ELSE w[i - Len(v)]
  BY <1>3
<1>5. PICK r : r = [i \in 0 .. Len(u) |-> IF i <= Len(v) THEN p[i] ELSE q[i - Len(v)]]
  OBVIOUS
<1>6. \A i \in 0 .. Len(u) : r[i] = IF i <= Len(v) THEN p[i] ELSE q[i - Len(v)]
  BY <1>5
<1>7. r[0] = a
  BY <1>1, <1>4, <1>6
<1>8. r[Len(u)] = z
  <2>1. CASE Len(w) = 0
    BY <1>1, <1>2, <1>4, <1>6, <2>1
  <2>2. CASE Len(w) # 0
    <3>1. r[Len(u)] = q[Len(u) - Len(v)] /\ Len(u) - Len(v) = Len(w)
      BY <1>4, <1>6, <2>2
    <3>2. QED
      BY <1>2, <3>1
  <2>3. QED
    BY <2>1, <2>2
<1>9. ASSUME NEW i \in 1 .. Len(u)
      PROVE  r[i] = After(r[i - 1], u[i])
  <2>1. i \in 0 .. Len(u) /\ i - 1 \in 0 .. Len(u)
    BY <1>4
  <2>2. CASE i <= Len(v)
    <3>1. r[i] = p[i] /\ r[i - 1] = p[i - 1] /\ u[i] = v[i] /\ i \in 1 .. Len(v)
      BY <1>4, <1>6, <2>1, <2>2
    <3>2. QED
      BY <1>1, <3>1
  <2>3. CASE i = Len(v) + 1
    <3>1. r[i] = q[1] /\ r[i - 1] = q[0] /\ u[i] = w[1] /\ 1 \in 1 .. Len(w)
      <4>1. i - Len(v) = 1 /\ i - 1 = Len(v) /\ ~(i <= Len(v)) /\ Len(w) >= 1
        BY <1>4, <2>3
      <4>2. r[i] = q[1] /\ r[i - 1] = p[Len(v)] /\ u[i] = w[1]
        BY <1>4, <1>6, <2>1, <4>1
      <4>3. QED
        BY <1>1, <1>2, <1>4, <4>1, <4>2
    <3>2. q[1] = After(q[1 - 1], w[1])
      BY <1>2, <3>1
    <3>3. QED
      BY <3>1, <3>2
  <2>4. CASE i > Len(v) + 1
    <3>1. PICK j : j = i - Len(v)
      OBVIOUS
    <3>2. j \in 1 .. Len(w) /\ j - 1 = (i - 1) - Len(v) /\ ~(i <= Len(v)) /\ ~(i - 1 <= Len(v))
      BY <1>4, <2>4, <3>1
    <3>3. r[i] = q[j] /\ r[i - 1] = q[j - 1] /\ u[i] = w[j]
      BY <1>4, <1>6, <2>1, <3>1, <3>2
    <3>4. q[j] = After(q[j - 1], w[j])
      BY <1>2, <3>2
    <3>5. QED
      BY <3>3, <3>4
  <2>5. QED
    BY <1>4, <2>2, <2>3, <2>4
<1>10. QED
  BY <1>3, <1>7, <1>8, <1>9 DEF Leads

LEMMA LeadsTail ==
    ASSUME NEW S, NEW w \in Seq(S), w # <<>>, NEW a, NEW z, Leads(a, w, z)
    PROVE  Leads(After(a, Head(w)), Tail(w), z)
<1>1. PICK p : p[0] = a /\ p[Len(w)] = z /\ \A i \in 1 .. Len(w) : p[i] = After(p[i - 1], w[i])
  BY DEF Leads
<1>2. PICK t : t = Tail(w)
  OBVIOUS
<1>3. Len(w) \in Nat /\ Len(w) >= 1 /\ Len(t) = Len(w) - 1 /\ \A i \in 1 .. Len(t) : t[i] = w[i + 1]
  BY <1>2
<1>4. Head(w) = w[1]
  OBVIOUS
<1>5. PICK r : r = [i \in 0 .. Len(t) |-> p[i + 1]]
  OBVIOUS
<1>6. \A i \in 0 .. Len(t) : r[i] = p[i + 1]
  BY <1>5
<1>7. r[0] = After(a, Head(w))
  <2>1. p[1] = After(p[1 - 1], w[1])
    BY <1>1, <1>3
  <2>2. r[0] = p[1]
    <3>1. 0 \in 0 .. Len(t) /\ 0 + 1 = 1
      BY <1>3
    <3>2. QED
      BY <1>6, <3>1
  <2>3. QED
    BY <1>1, <1>4, <2>1, <2>2
<1>8. r[Len(t)] = z
  <2>1. Len(t) \in 0 .. Len(t) /\ Len(t) + 1 = Len(w)
    BY <1>3
  <2>2. QED
    BY <1>1, <1>6, <2>1
<1>9. ASSUME NEW i \in 1 .. Len(t)
      PROVE  r[i] = After(r[i - 1], t[i])
  <2>1. i \in 0 .. Len(t) /\ i - 1 \in 0 .. Len(t) /\ (i - 1) + 1 = i /\ (i + 1) - 1 = i /\ i + 1 \in 1 .. Len(w)
    BY <1>3
  <2>2. r[i] = p[i + 1] /\ r[i - 1] = p[i] /\ t[i] = w[i + 1]
    BY <1>3, <1>6, <2>1
  <2>3. p[i + 1] = After(p[(i + 1) - 1], w[i + 1])
    BY <1>1, <2>1
  <2>4. QED
    BY <2>1, <2>2, <2>3
<1>10. QED
  BY <1>2, <1>7, <1>8, <1>9 DEF Leads

LEMMA LeadsTwo ==
    ASSUME NEW a, NEW S, NEW b \in S, NEW c \in S
    PROVE  Leads(a, <<b, c>>, After(After(a, b), c))
<1>1. <<b>> \in Seq(S) /\ <<c>> \in Seq(S) /\ <<b, c>> = <<b>> \o <<c>>
  <2>1. <<b>> \in Seq(S) /\ <<c>> \in Seq(S)
    OBVIOUS
  <2>2. <<b, c>> = <<b>> \o <<c>>
    <3>1. PICK u : u = <<b>> \o <<c>>
      OBVIOUS
    <3>2. u \in Seq(S) /\ Len(u) = 2 /\ u[1] = b /\ u[2] = c
      BY <2>1, <3>1
    <3>3. u = <<u[1], u[2]>>
      BY <3>2
    <3>4. QED
      BY <3>1, <3>2, <3>3
  <2>3. QED
    BY <2>1, <2>2
<1>2. Leads(a, <<b>>, After(a, b)) /\ Leads(After(a, b), <<c>>, After(After(a, b), c))
  BY LeadsOne
<1>3. QED
  BY <1>1, <1>2, LeadsOn

LEMMA LeadsFour ==
    ASSUME NEW a, NEW S, NEW b \in S, NEW c \in S, NEW d \in S, NEW e \in S
    PROVE  Leads(a, <<b, c, d, e>>, After(After(After(After(a, b), c), d), e))
<1>1. <<b, c>> \in Seq(S) /\ <<d, e>> \in Seq(S) /\ <<b, c, d, e>> = <<b, c>> \o <<d, e>>
  OBVIOUS
<1>2. PICK y : y = After(After(a, b), c)
  OBVIOUS
<1>3. Leads(a, <<b, c>>, y) /\ Leads(y, <<d, e>>, After(After(y, d), e))
  BY <1>2, LeadsTwo
<1>4. Leads(a, <<b, c, d, e>>, After(After(y, d), e))
  BY <1>1, <1>3, LeadsOn
<1>5. QED
  BY <1>2, <1>4

LEMMA LeadsSix ==
    ASSUME NEW a, NEW S, NEW b \in S, NEW c \in S, NEW d \in S, NEW e \in S, NEW f \in S, NEW g \in S
    PROVE  Leads(a, <<b, c, d, e, f, g>>, After(After(After(After(After(After(a, b), c), d), e), f), g))
<1>1. <<b, c, d, e>> \in Seq(S) /\ <<f, g>> \in Seq(S) /\ <<b, c, d, e, f, g>> = <<b, c, d, e>> \o <<f, g>>
  OBVIOUS
<1>2. PICK y : y = After(After(After(After(a, b), c), d), e)
  OBVIOUS
<1>3. Leads(a, <<b, c, d, e>>, y) /\ Leads(y, <<f, g>>, After(After(y, f), g))
  BY <1>2, LeadsTwo, LeadsFour
<1>4. Leads(a, <<b, c, d, e, f, g>>, After(After(y, f), g))
  BY <1>1, <1>3, LeadsOn
<1>5. QED
  BY <1>2, <1>4

LEMMA CodeIs ==
    ASSUME NEW c, NEW u \in BOOLEAN
    PROVE  K!Code(c, u).code = c /\ K!Code(c, u).up = u
  BY DEF K!Code

\* What a code does: E0 and E1, a modifier, a light, and any other but caps.
LEMMA AfterPrefix ==
    ASSUME NEW s, NEW b
    PROVE  /\ b.code = "E0" => After(s, b) = [mode |-> s.mode, leds |-> s.leds, e0 |-> 1]
           /\ b.code = "E1" => After(s, b) = [mode |-> s.mode, leds |-> s.leds, e0 |-> 2]
  BY DEF After

LEMMA AfterModifier ==
    ASSUME NEW s, NEW b, b.code \in {"lshift", "rshift", "ctrl", "alt"},
           NEW m, m = IF b.code \in {"ctrl", "alt"} THEN K!Side(s, b.code) ELSE b.code
    PROVE  /\ b.up => After(s, b) = [mode |-> s.mode \ {m}, leds |-> s.leds, e0 |-> 0]
           /\ ~b.up => After(s, b) = [mode |-> s.mode \cup {m}, leds |-> s.leds, e0 |-> 0]
<1>1. After(s, b) = [mode |-> ModeAfter(s, b), leds |-> LedsAfter(s, b), e0 |-> 0]
  BY DEF After
<1>2. LedsAfter(s, b) = s.leds
  BY DEF LedsAfter
<1>3. b.code \in K!Modifiers
  BY DEF K!Modifiers
<1>4. ModeAfter(s, b) = IF b.up THEN s.mode \ {m} ELSE s.mode \cup {m}
  BY <1>3 DEF ModeAfter
<1>5. QED
  BY <1>1, <1>2, <1>4

LEMMA AfterLight ==
    ASSUME NEW s, NEW b, b.code \in {"num", "scroll"}
    PROVE  After(s, b) = [mode |-> s.mode, leds |-> IF b.up THEN s.leds ELSE K!Toggled(s.leds, b.code), e0 |-> 0]
<1>1. After(s, b) = [mode |-> ModeAfter(s, b), leds |-> LedsAfter(s, b), e0 |-> 0]
  BY DEF After
<1>2. ModeAfter(s, b) = s.mode
  BY DEF ModeAfter, K!Modifiers
<1>3. LedsAfter(s, b) = IF b.up THEN s.leds ELSE K!Toggled(s.leds, b.code)
  BY DEF LedsAfter
<1>4. QED
  BY <1>1, <1>2, <1>3

LEMMA AfterOther ==
    ASSUME NEW s, NEW b, b.code \notin K!Modifiers \cup {"E0", "E1", "num", "scroll", "caps"}
    PROVE  After(s, b) = [mode |-> s.mode, leds |-> s.leds, e0 |-> 0]
<1>1. After(s, b) = [mode |-> ModeAfter(s, b), leds |-> LedsAfter(s, b), e0 |-> 0]
  BY DEF After
<1>2. ModeAfter(s, b) = s.mode /\ LedsAfter(s, b) = s.leds
  BY DEF ModeAfter, LedsAfter
<1>3. QED
  BY <1>1, <1>2

\* The caps key: its first code toggles the lock and the light, and its repetitions do not.
LEMMA AfterCaps ==
    ASSUME NEW s, NEW up \in BOOLEAN
    PROVE  /\ After(s, K!Code("caps", up)).mode =
                IF up THEN s.mode \ {"held"}
                ELSE IF "held" \in s.mode THEN s.mode
                ELSE K!Toggled(s.mode, "caps") \cup {"held"}
           /\ After(s, K!Code("caps", up)).leds =
                IF up \/ "held" \in s.mode THEN s.leds ELSE K!Toggled(s.leds, "caps")
           /\ After(s, K!Code("caps", up)).e0 = 0
<1>1. PICK b : b = K!Code("caps", up)
  OBVIOUS
<1>2. b.code = "caps" /\ b.up = up
  BY <1>1 DEF K!Code
<1>3. After(s, b) = [mode |-> ModeAfter(s, b), leds |-> LedsAfter(s, b), e0 |-> 0]
  BY <1>2 DEF After
<1>4. ModeAfter(s, b) = IF up THEN s.mode \ {"held"}
                        ELSE IF "held" \in s.mode THEN s.mode
                        ELSE K!Toggled(s.mode, "caps") \cup {"held"}
  BY <1>2 DEF ModeAfter, K!Modifiers
<1>5. LedsAfter(s, b) = IF up \/ "held" \in s.mode THEN s.leds ELSE K!Toggled(s.leds, "caps")
  BY <1>2 DEF LedsAfter
<1>6. QED
  BY <1>1, <1>3, <1>4, <1>5

LEMMA GreyKeys ==
    /\ DOMAIN K!Grey = {"rctrl", "altgr", "slash", "left"}
    /\ K!Grey["rctrl"] = "ctrl" /\ K!Grey["altgr"] = "alt" /\ K!Grey["slash"] = "minus" /\ K!Grey["left"] = "pad4"
  BY DEF K!Grey

\* How a key moves: up is what it sends, down and capsOn become down2 and capsOn2.
KeyMoves(k, up, down, down2, capsOn, capsOn2) ==
    \/ /\ ~up /\ k \notin down /\ down2 = down \cup {k}
       /\ capsOn2 = IF k = "caps" THEN ~capsOn ELSE capsOn
    \/ ~up /\ k \in down /\ k # "pause" /\ down2 = down /\ capsOn2 = capsOn
    \/ up /\ k \in down /\ down2 = down \ {k} /\ capsOn2 = capsOn

\* What a modifier does to the modes.
LEMMA ModifierFits ==
    ASSUME NEW z, NEW down, NEW capsOn \in BOOLEAN, Fits(z, down, capsOn),
           NEW k \in K!Modifiers, NEW up \in BOOLEAN, NEW down2, NEW capsOn2,
           KeyMoves(k, up, down, down2, capsOn, capsOn2),
           NEW y, y = [mode |-> IF up THEN z.mode \ {k} ELSE z.mode \cup {k}, leds |-> z.leds, e0 |-> 0]
    PROVE  Fits(y, down2, capsOn2)
<1>1. k \notin {"held", "caps"}
  BY DEF K!Modifiers
<1>2. capsOn2 = capsOn /\ down2 = IF up THEN down \ {k} ELSE down \cup {k}
  BY <1>1 DEF KeyMoves
<1>3. y.mode \cap K!Modifiers = down2 \cap K!Modifiers
  BY <1>2 DEF Fits
<1>4. QED
  BY <1>1, <1>2, <1>3 DEF Fits

LEMMA CapsFits ==
    ASSUME NEW z, NEW down, NEW capsOn \in BOOLEAN, Fits(z, down, capsOn),
           NEW up \in BOOLEAN, NEW down2, NEW capsOn2, KeyMoves("caps", up, down, down2, capsOn, capsOn2)
    PROVE  Fits(After(z, K!Code("caps", up)), down2, capsOn2)
<1>1. PICK y : y = After(z, K!Code("caps", up))
  OBVIOUS
<1>2. /\ y.mode = IF up THEN z.mode \ {"held"}
                  ELSE IF "held" \in z.mode THEN z.mode
                  ELSE K!Toggled(z.mode, "caps") \cup {"held"}
      /\ y.leds = IF up \/ "held" \in z.mode THEN z.leds ELSE K!Toggled(z.leds, "caps")
      /\ y.e0 = 0
  BY <1>1, AfterCaps
<1>3. "held" \notin K!Modifiers /\ "caps" \notin K!Modifiers
  BY DEF K!Modifiers
<1>4. down2 \cap K!Modifiers = down \cap K!Modifiers
  BY <1>3 DEF KeyMoves
<1>5. y.mode \cap K!Modifiers = z.mode \cap K!Modifiers
  BY <1>2, <1>3 DEF K!Toggled
<1>6. CASE up
  <2>1. "caps" \notin down2 /\ capsOn2 = capsOn
    BY <1>6 DEF KeyMoves
  <2>2. "held" \notin y.mode /\ ("caps" \in y.mode <=> "caps" \in z.mode) /\ y.leds = z.leds
    BY <1>2, <1>6
  <2>3. QED
    BY <1>1, <1>2, <1>4, <1>5, <2>1, <2>2 DEF Fits
<1>7. CASE ~up /\ "held" \in z.mode
  <2>1. "caps" \in down2 /\ capsOn2 = capsOn
    BY <1>7 DEF Fits, KeyMoves
  <2>2. y.mode = z.mode /\ y.leds = z.leds
    BY <1>2, <1>7
  <2>3. QED
    BY <1>1, <1>2, <1>4, <1>5, <1>7, <2>1, <2>2 DEF Fits
<1>8. CASE ~up /\ "held" \notin z.mode
  <2>1. "caps" \notin down /\ "caps" \in down2 /\ capsOn2 = ~capsOn
    BY <1>8 DEF Fits, KeyMoves
  <2>2. "held" \in y.mode /\ ("caps" \in y.mode <=> "caps" \notin z.mode) /\ ("caps" \in y.leds <=> "caps" \notin z.leds)
    BY <1>2, <1>8 DEF K!Toggled
  <2>3. QED
    BY <1>1, <1>2, <1>4, <1>5, <2>1, <2>2 DEF Fits
<1>9. QED
  BY <1>6, <1>7, <1>8

\* A key that is neither changes no mode and not the light of caps lock.
LEMMA OtherFits ==
    ASSUME NEW z, NEW down, NEW capsOn \in BOOLEAN, Fits(z, down, capsOn),
           NEW k, k \notin K!Modifiers \cup {"caps"}, NEW up \in BOOLEAN, NEW down2, NEW capsOn2,
           KeyMoves(k, up, down, down2, capsOn, capsOn2),
           NEW y, y.e0 = 0, y.mode \cap K!Modifiers = z.mode \cap K!Modifiers,
           "held" \in y.mode <=> "held" \in z.mode, "caps" \in y.mode <=> "caps" \in z.mode,
           "caps" \in y.leds <=> "caps" \in z.leds
    PROVE  Fits(y, down2, capsOn2)
<1>1. capsOn2 = capsOn /\ down2 \cap K!Modifiers = down \cap K!Modifiers /\ ("caps" \in down2 <=> "caps" \in down)
  BY DEF KeyMoves
<1>2. QED
  BY <1>1 DEF Fits
\* What a key sends leads from modes that fit the keys to modes that fit them again.
LEMMA SendsFit ==
    ASSUME NEW z, NEW k \in Keys, NEW up \in BOOLEAN, kb.capsOn \in BOOLEAN, Fits(z, kb.down, kb.capsOn),
           NEW down2, NEW capsOn2, KeyMoves(k, up, kb.down, down2, kb.capsOn, capsOn2)
    PROVE  /\ K!Sends(k, up) \in Seq(Codes)
           /\ \E y : Leads(z, K!Sends(k, up), y) /\ Fits(y, down2, capsOn2)
<1>1. \A c, u : u \in BOOLEAN /\ c \in Keys \cup {"E0", "E1", "ctrl", "alt", "minus", "pad4", "num", "scroll"}
                  => K!Code(c, u) \in Codes
  BY DEF K!Code, Codes
<1>2. z.e0 = 0
  BY DEF Fits
<1>3. PICK w : w = K!Sends(k, up)
  OBVIOUS
<1>4. CASE k \in DOMAIN K!Grey
  <2>1. PICK g : g = K!Grey[k]
    OBVIOUS
  <2>2. w = <<K!Code("E0", FALSE), K!Code(g, up)>>
    BY <1>3, <1>4, <2>1, GreyKeys DEF K!Sends
  <2>3. g \in {"ctrl", "alt", "minus", "pad4"}
    BY <1>4, <2>1, GreyKeys
  <2>4. PICK b \in Codes, c \in Codes : b = K!Code("E0", FALSE) /\ c = K!Code(g, up)
    BY <1>1, <2>3
  <2>codes. b.code = "E0" /\ c.code = g /\ c.up = up
    BY <2>4 DEF K!Code
  <2>5. PICK x, y : x = After(z, b) /\ y = After(x, c)
    OBVIOUS
  <2>6. w \in Seq(Codes) /\ Leads(z, w, y)
    <3>1. w = <<b, c>>
      BY <2>2, <2>4
    <3>2. QED
      BY <2>5, <3>1, LeadsTwo
  <2>7. x = [mode |-> z.mode, leds |-> z.leds, e0 |-> 1]
    BY <2>5, <2>codes, AfterPrefix
  <2>8. CASE k \in {"rctrl", "altgr"}
    <3>1. g \in {"ctrl", "alt"} /\ K!Side(x, g) = k
      BY <2>1, <2>7, <2>8, GreyKeys DEF K!Side
    <3>2. y = [mode |-> IF up THEN x.mode \ {k} ELSE x.mode \cup {k}, leds |-> x.leds, e0 |-> 0]
      BY <2>5, <2>codes, <3>1, AfterModifier
    <3>3. y = [mode |-> IF up THEN z.mode \ {k} ELSE z.mode \cup {k}, leds |-> z.leds, e0 |-> 0]
      BY <2>7, <3>2
    <3>4. k \in K!Modifiers
      BY <2>8 DEF K!Modifiers
    <3>5. Fits(y, down2, capsOn2)
      BY <3>3, <3>4, ModifierFits
    <3>6. QED
      BY <1>3, <2>6, <3>5
  <2>9. CASE k \in {"slash", "left"}
    <3>1. g \notin K!Modifiers \cup {"E0", "E1", "num", "scroll", "caps"}
      BY <2>1, <2>9, GreyKeys DEF K!Modifiers
    <3>2. y = [mode |-> x.mode, leds |-> x.leds, e0 |-> 0]
      BY <2>5, <2>codes, <3>1, AfterOther
    <3>3. y.mode = z.mode /\ y.leds = z.leds /\ y.e0 = 0
      BY <2>7, <3>2
    <3>4. k \notin K!Modifiers \cup {"caps"}
      BY <2>9 DEF K!Modifiers
    <3>5. Fits(y, down2, capsOn2)
      BY <3>3, <3>4, OtherFits
    <3>6. QED
      BY <1>3, <2>6, <3>5
  <2>10. QED
    BY <1>4, <2>8, <2>9, GreyKeys
<1>5. CASE k = "pause" /\ up
  <2>1. w = <<>>
    BY <1>3, <1>5, GreyKeys DEF K!Sends
  <2>2. w \in Seq(Codes) /\ Leads(z, w, z)
    BY <2>1, LeadsNone
  <2>3. k \notin K!Modifiers \cup {"caps"}
    BY <1>5 DEF K!Modifiers
  <2>4. Fits(z, down2, capsOn2)
    BY <1>2, <2>3, OtherFits
  <2>5. QED
    BY <1>3, <2>2, <2>4
<1>6. CASE k = "pause" /\ ~up /\ kb.down \cap {"ctrl", "rctrl"} = {}
  <2>1. w = <<K!Code("E1", FALSE), K!Code("ctrl", FALSE), K!Code("num", FALSE),
              K!Code("E1", FALSE), K!Code("ctrl", TRUE), K!Code("num", TRUE)>>
    BY <1>3, <1>6, GreyKeys DEF K!Sends
  <2>2. PICK b \in Codes, c \in Codes, d \in Codes, e \in Codes, f \in Codes :
           /\ b = K!Code("E1", FALSE) /\ c = K!Code("ctrl", FALSE) /\ d = K!Code("num", FALSE)
           /\ e = K!Code("ctrl", TRUE) /\ f = K!Code("num", TRUE)
    BY <1>1
  <2>codes. /\ b.code = "E1" /\ c.code = "ctrl" /\ ~c.up /\ d.code = "num" /\ ~d.up
        /\ e.code = "ctrl" /\ e.up /\ f.code = "num" /\ f.up
    BY <2>2 DEF K!Code
  <2>3. PICK x1, x2, x3, x4, x5, y :
           /\ x1 = After(z, b) /\ x2 = After(x1, c) /\ x3 = After(x2, d)
           /\ x4 = After(x3, b) /\ x5 = After(x4, e) /\ y = After(x5, f)
    OBVIOUS
  <2>4. w \in Seq(Codes) /\ Leads(z, w, y)
    <3>1. w = <<b, c, d, b, e, f>>
      BY <2>1, <2>2
    <3>2. QED
      BY <2>3, <3>1, LeadsSix
  <2>5. x1 = [mode |-> z.mode, leds |-> z.leds, e0 |-> 2]
    BY <2>3, <2>codes, AfterPrefix
  <2>6. x2 = [mode |-> z.mode \cup {"rctrl"}, leds |-> z.leds, e0 |-> 0]
    <3>1. K!Side(x1, "ctrl") = "rctrl"
      BY <2>5 DEF K!Side
    <3>2. x2 = [mode |-> x1.mode \cup {"rctrl"}, leds |-> x1.leds, e0 |-> 0]
      BY <2>3, <2>codes, <3>1, AfterModifier
    <3>3. QED
      BY <2>5, <3>2
  <2>7. x3 = [mode |-> z.mode \cup {"rctrl"}, leds |-> K!Toggled(z.leds, "num"), e0 |-> 0]
    <3>1. x3 = [mode |-> x2.mode, leds |-> K!Toggled(x2.leds, "num"), e0 |-> 0]
      BY <2>3, <2>codes, AfterLight
    <3>2. QED
      BY <2>6, <3>1
  <2>8. x4 = [mode |-> z.mode \cup {"rctrl"}, leds |-> K!Toggled(z.leds, "num"), e0 |-> 2]
    <3>1. x4 = [mode |-> x3.mode, leds |-> x3.leds, e0 |-> 2]
      BY <2>3, <2>codes, AfterPrefix
    <3>2. QED
      BY <2>7, <3>1
  <2>9. x5 = [mode |-> (z.mode \cup {"rctrl"}) \ {"rctrl"}, leds |-> K!Toggled(z.leds, "num"), e0 |-> 0]
    <3>1. K!Side(x4, "ctrl") = "rctrl"
      BY <2>8 DEF K!Side
    <3>2. x5 = [mode |-> x4.mode \ {"rctrl"}, leds |-> x4.leds, e0 |-> 0]
      BY <2>3, <2>codes, <3>1, AfterModifier
    <3>3. QED
      BY <2>8, <3>2
  <2>10. y = [mode |-> (z.mode \cup {"rctrl"}) \ {"rctrl"}, leds |-> K!Toggled(z.leds, "num"), e0 |-> 0]
    <3>1. y = [mode |-> x5.mode, leds |-> x5.leds, e0 |-> 0]
      BY <2>3, <2>codes, AfterLight
    <3>2. QED
      BY <2>9, <3>1
  <2>11. "rctrl" \notin z.mode
    BY <1>6 DEF Fits, K!Modifiers
  <2>12. y.mode = z.mode /\ ("caps" \in y.leds <=> "caps" \in z.leds) /\ y.e0 = 0
    BY <2>10, <2>11 DEF K!Toggled
  <2>13. k \notin K!Modifiers \cup {"caps"}
    BY <1>6 DEF K!Modifiers
  <2>14. Fits(y, down2, capsOn2)
    BY <2>12, <2>13, OtherFits
  <2>15. QED
    BY <1>3, <2>4, <2>14
<1>7. CASE k = "pause" /\ ~up /\ kb.down \cap {"ctrl", "rctrl"} # {}
  <2>1. w = <<K!Code("E0", FALSE), K!Code("scroll", FALSE), K!Code("E0", FALSE), K!Code("scroll", TRUE)>>
    BY <1>3, <1>7, GreyKeys DEF K!Sends
  <2>2. PICK b \in Codes, c \in Codes, d \in Codes :
           b = K!Code("E0", FALSE) /\ c = K!Code("scroll", FALSE) /\ d = K!Code("scroll", TRUE)
    BY <1>1
  <2>codes. b.code = "E0" /\ c.code = "scroll" /\ ~c.up /\ d.code = "scroll" /\ d.up
    BY <2>2 DEF K!Code
  <2>3. PICK x1, x2, x3, y : x1 = After(z, b) /\ x2 = After(x1, c) /\ x3 = After(x2, b) /\ y = After(x3, d)
    OBVIOUS
  <2>4. w \in Seq(Codes) /\ Leads(z, w, y)
    <3>1. w = <<b, c, b, d>>
      BY <2>1, <2>2
    <3>2. QED
      BY <2>3, <3>1, LeadsFour
  <2>5. x1.mode = z.mode /\ x1.leds = z.leds
    BY <2>3, <2>codes, AfterPrefix
  <2>6. x2.mode = z.mode /\ x2.leds = K!Toggled(z.leds, "scroll")
    BY <2>3, <2>codes, <2>5, AfterLight
  <2>7. x3.mode = z.mode /\ x3.leds = K!Toggled(z.leds, "scroll")
    BY <2>3, <2>codes, <2>6, AfterPrefix
  <2>8. y.mode = z.mode /\ y.leds = K!Toggled(z.leds, "scroll") /\ y.e0 = 0
    BY <2>3, <2>codes, <2>7, AfterLight
  <2>9. "caps" \in y.leds <=> "caps" \in z.leds
    BY <2>8 DEF K!Toggled
  <2>10. k \notin K!Modifiers \cup {"caps"}
    BY <1>7 DEF K!Modifiers
  <2>11. Fits(y, down2, capsOn2)
    BY <2>8, <2>9, <2>10, OtherFits
  <2>12. QED
    BY <1>3, <2>4, <2>11
<1>8. CASE k \notin DOMAIN K!Grey /\ k # "pause"
  <2>1. w = <<K!Code(k, up)>>
    BY <1>3, <1>8 DEF K!Sends
  <2>2. PICK b \in Codes : b = K!Code(k, up) /\ b.code = k /\ b.up = up
    BY <1>1, CodeIs
  <2>3. PICK y : y = After(z, b)
    OBVIOUS
  <2>4. w \in Seq(Codes) /\ Leads(z, w, y)
    BY <2>1, <2>2, <2>3, LeadsOne
  <2>5. CASE k \in {"lshift", "rshift", "ctrl", "alt"}
    <3>1. k \in K!Modifiers
      BY <2>5 DEF K!Modifiers
    <3>2. (IF k \in {"ctrl", "alt"} THEN K!Side(z, k) ELSE k) = k
      BY <1>2 DEF K!Side
    <3>3. y = [mode |-> IF up THEN z.mode \ {k} ELSE z.mode \cup {k}, leds |-> z.leds, e0 |-> 0]
      BY <2>2, <2>3, <2>5, <3>2, AfterModifier
    <3>4. Fits(y, down2, capsOn2)
      BY <3>1, <3>3, ModifierFits
    <3>5. QED
      BY <1>3, <2>4, <3>4
  <2>6. CASE k = "caps"
    <3>1. Fits(y, down2, capsOn2)
      BY <2>2, <2>3, <2>6, CapsFits
    <3>2. QED
      BY <1>3, <2>4, <3>1
  <2>7. CASE k \in {"num", "scroll"}
    <3>1. y = [mode |-> z.mode, leds |-> IF up THEN z.leds ELSE K!Toggled(z.leds, k), e0 |-> 0]
      BY <2>2, <2>3, <2>7, AfterLight
    <3>2. y.mode = z.mode /\ y.e0 = 0 /\ ("caps" \in y.leds <=> "caps" \in z.leds)
      BY <2>7, <3>1 DEF K!Toggled
    <3>3. k \notin K!Modifiers \cup {"caps"}
      BY <2>7 DEF K!Modifiers
    <3>4. Fits(y, down2, capsOn2)
      BY <3>2, <3>3, OtherFits
    <3>5. QED
      BY <1>3, <2>4, <3>4
  <2>8. CASE k \in {"a", "minus", "pad4", "del", "f1"}
    <3>1. k \notin K!Modifiers \cup {"E0", "E1", "num", "scroll", "caps"}
      BY <2>8 DEF K!Modifiers
    <3>2. y = [mode |-> z.mode, leds |-> z.leds, e0 |-> 0]
      BY <2>2, <2>3, <3>1, AfterOther
    <3>3. y.mode = z.mode /\ y.leds = z.leds /\ y.e0 = 0
      BY <3>2
    <3>4. Fits(y, down2, capsOn2)
      BY <3>1, <3>3, OtherFits
    <3>5. QED
      BY <1>3, <2>4, <3>4
  <2>9. k \in {"lshift", "rshift", "ctrl", "alt", "caps", "num", "scroll", "a", "minus", "pad4", "del", "f1"}
    BY <1>8, KeysAssumption, GreyKeys DEF K!KeyboardAssumption
  <2>10. QED
    BY <2>5, <2>6, <2>7, <2>8, <2>9
<1>9. QED
  BY <1>4, <1>5, <1>6, <1>7, <1>8
\* Only the queue has changed.
Queued(s2, s) ==
    /\ s2.mode = s.mode /\ s2.leds = s.leds /\ s2.e0 = s.e0 /\ s2.dead = s.dead /\ s2.wire = s.wire
    /\ s2.down = s.down /\ s2.last = s.last /\ s2.capsOn = s.capsOn

\* put_queue() puts a sequence into the queue to its end, or nothing.
LEMMA PutKeeps ==
    ASSUME NEW s \in Kbs, Whole(s.queue), NEW k \in KeyChars, NEW n \in Nat, NEW s2, s2 = K!put_queue(s, k, n)
    PROVE  s2 \in Kbs /\ Whole(s2.queue) /\ Queued(s2, s)
<1>1. CASE Len(s.queue) + n >= size
  BY <1>1 DEF K!put_queue, Queued
<1>2. CASE ~(Len(s.queue) + n >= size)
  <2>1. PICK add : add = [i \in 1 .. n |-> [key |-> k, at |-> i, of |-> n]]
    OBVIOUS
  <2>2. add \in Seq(KbChars) /\ Len(add) = n /\ \A i \in 1 .. n : add[i] = [key |-> k, at |-> i, of |-> n]
    <3>1. \A i \in 1 .. n : [key |-> k, at |-> i, of |-> n] \in KbChars
      BY DEF KbChars
    <3>2. QED
      BY <2>1, <3>1
  <2>3. s.queue \in Seq(KbChars) /\ Len(s.queue) \in Nat
    BY DEF Kbs
  <2>4. PICK q : q = s.queue \o add
    OBVIOUS
  <2>5. /\ q \in Seq(KbChars) /\ Len(q) = Len(s.queue) + n
        /\ \A i \in 1 .. Len(q) : q[i] = IF i <= Len(s.queue) THEN s.queue[i] ELSE add[i - Len(s.queue)]
    <3>1. PICK u : u = s.queue
      OBVIOUS
    <3>2. u \in Seq(KbChars) /\ q = u \o add
      BY <2>3, <2>4, <3>1
    <3>3. /\ q \in Seq(KbChars) /\ Len(q) = Len(u) + n
          /\ \A i \in 1 .. Len(q) : q[i] = IF i <= Len(u) THEN u[i] ELSE add[i - Len(u)]
      BY <2>2, <3>2
    <3>4. QED
      BY <3>1, <3>3
  <2>6. s2 = [s EXCEPT !.queue = q]
    BY <1>2, <2>1, <2>4 DEF K!put_queue
  <2>7. s2 \in Kbs /\ s2.queue = q /\ Queued(s2, s)
    BY <2>5, <2>6 DEF Kbs, Queued
  <2>8. ASSUME NEW i \in 1 .. Len(q), q[i].at < q[i].of
        PROVE  i < Len(q) /\ q[i + 1] = [q[i] EXCEPT !.at = @ + 1]
    <3>1. CASE i <= Len(s.queue)
      <4>1. i \in 1 .. Len(s.queue) /\ q[i] = s.queue[i]
        BY <2>3, <2>5, <3>1
      <4>2. i < Len(s.queue) /\ s.queue[i + 1] = [s.queue[i] EXCEPT !.at = @ + 1]
        BY <2>8, <4>1 DEF Whole
      <4>3. i + 1 \in 1 .. Len(q) /\ i + 1 <= Len(s.queue)
        BY <2>3, <2>5, <4>1, <4>2
      <4>4. q[i + 1] = s.queue[i + 1]
        BY <2>5, <4>3
      <4>5. QED
        BY <2>3, <2>5, <4>1, <4>2, <4>4
    <3>2. CASE ~(i <= Len(s.queue))
      <4>1. PICK j : j = i - Len(s.queue)
        OBVIOUS
      <4>2. j \in 1 .. n /\ q[i] = [key |-> k, at |-> j, of |-> n]
        <5>1. PICK L \in Nat : L = Len(s.queue)
          BY <2>3
        <5>2. i \in 1 .. (L + n) /\ ~(i <= L) /\ j = i - L
          BY <2>5, <3>2, <4>1, <5>1
        <5>3. j \in 1 .. n
          BY <5>1, <5>2
        <5>4. q[i] = add[j]
          BY <2>5, <3>2, <4>1
        <5>5. QED
          BY <2>2, <5>3, <5>4
      <4>3. j < n
        BY <2>8, <4>2
      <4>4. i + 1 \in 1 .. Len(q) /\ ~(i + 1 <= Len(s.queue)) /\ (i + 1) - Len(s.queue) = j + 1 /\ j + 1 \in 1 .. n
        <5>1. PICK L \in Nat : L = Len(s.queue)
          BY <2>3
        <5>2. i \in 1 .. (L + n) /\ ~(i <= L) /\ j = i - L /\ Len(q) = L + n
          BY <2>5, <3>2, <4>1, <5>1
        <5>3. i + 1 \in 1 .. (L + n) /\ ~(i + 1 <= L) /\ (i + 1) - L = j + 1 /\ j + 1 \in 1 .. n
          BY <4>3, <5>1, <5>2
        <5>4. QED
          BY <5>1, <5>2, <5>3
      <4>5. q[i + 1] = [key |-> k, at |-> j + 1, of |-> n]
        BY <2>2, <2>5, <4>4
      <4>6. [q[i] EXCEPT !.at = @ + 1] = [key |-> k, at |-> j + 1, of |-> n]
        BY <4>2
      <4>7. QED
        BY <2>3, <2>5, <4>2, <4>3, <4>4, <4>5, <4>6
    <3>3. QED
      BY <3>1, <3>2
  <2>9. QED
    BY <2>7, <2>8 DEF Whole
<1>3. QED
  BY <1>1, <1>2

\* What is called for a code changes the modes as After says, and keeps the rest.
Handled(s2, s, b) ==
    /\ s2 \in Kbs /\ Whole(s2.queue)
    /\ s2.mode = ModeAfter(s, b) /\ s2.leds = LedsAfter(s, b)
    /\ s2.wire = s.wire /\ s2.down = s.down /\ s2.last = s.last /\ s2.capsOn = s.capsOn

LEMMA QueuedIsHandled ==
    ASSUME NEW s, NEW s2 \in Kbs, Whole(s2.queue), Queued(s2, s),
           NEW b, b.code \notin K!Modifiers \cup {"num", "scroll", "caps"} \/ (b.up /\ b.code \in {"num", "scroll"})
    PROVE  Handled(s2, s, b)
<1>1. ModeAfter(s, b) = s.mode /\ LedsAfter(s, b) = s.leds
  BY DEF ModeAfter, LedsAfter, K!Modifiers
<1>2. QED
  BY <1>1 DEF Handled, Queued

LEMMA CursorHandles ==
    ASSUME NEW s \in Kbs, Whole(s.queue), NEW b, b.code \in {"pad4", "del"}
    PROVE  Handled(K!cursor(s, b.code), s, b)
<1>1. PICK s2 : s2 = K!cursor(s, b.code)
  OBVIOUS
<1>2. b.code \notin K!Modifiers \cup {"num", "scroll", "caps"} /\ b.code \in KeyChars
  BY DEF K!Modifiers, KeyChars
<1>3. CASE b.code = "del" /\ s.mode \cap {"ctrl", "rctrl"} # {} /\ s.mode \cap {"alt", "altgr"} # {}
  <2>1. s2 = [s EXCEPT !.dead = TRUE]
    BY <1>1, <1>3 DEF K!cursor
  <2>2. /\ s2 \in Kbs /\ s2.queue = s.queue /\ s2.mode = s.mode /\ s2.leds = s.leds /\ s2.wire = s.wire
        /\ s2.down = s.down /\ s2.last = s.last /\ s2.capsOn = s.capsOn
    BY <2>1 DEF Kbs
  <2>3. ModeAfter(s, b) = s.mode /\ LedsAfter(s, b) = s.leds
    BY <1>2 DEF ModeAfter, LedsAfter
  <2>4. QED
    BY <1>1, <2>2, <2>3 DEF Handled
<1>4. CASE ~(b.code = "del" /\ s.mode \cap {"ctrl", "rctrl"} # {} /\ s.mode \cap {"alt", "altgr"} # {})
  <2>1. PICK n \in Nat : s2 = K!put_queue(s, b.code, n)
    <3>1. PICK n : n = IF s.e0 = 1 \/ "num" \notin s.leds \/ s.mode \cap {"lshift", "rshift"} # {}
                         THEN IF b.code = "del" THEN 4 ELSE 3 ELSE 1
      OBVIOUS
    <3>2. s2 = K!put_queue(s, b.code, n)
      BY <1>1, <1>4, <3>1 DEF K!cursor
    <3>3. n \in Nat
      BY <3>1
    <3>4. QED
      BY <3>2, <3>3
  <2>2. s2 \in Kbs /\ Whole(s2.queue) /\ Queued(s2, s)
    BY <1>2, <2>1, PutKeeps
  <2>3. QED
    BY <1>1, <1>2, <2>2, QueuedIsHandled
<1>5. QED
  BY <1>3, <1>4

LEMMA KeyHandles ==
    ASSUME NEW s \in Kbs, Whole(s.queue), NEW b \in Codes, b.code \notin {"E0", "E1"}, NEW ecx \in BOOLEAN
    PROVE  Handled(K!key_table(s, b, ecx), s, b)
<1>1. PICK s2 : s2 = K!key_table(s, b, ecx)
  OBVIOUS
<1>2. b.up \in BOOLEAN
  BY DEF Codes
<1>3. Queued(s, s)
  BY DEF Queued
<1>4. CASE b.code \in K!Modifiers
  <2>1. PICK m : m = IF b.code \in {"ctrl", "alt"} THEN K!Side(s, b.code) ELSE b.code
    OBVIOUS
  <2>2. m \in K!Modifiers
    BY <1>4, <2>1 DEF K!Side, K!Modifiers
  <2>3. LedsAfter(s, b) = s.leds /\ ModeAfter(s, b) = IF b.up THEN s.mode \ {m} ELSE s.mode \cup {m}
    BY <1>4, <2>1 DEF LedsAfter, ModeAfter, K!Modifiers
  <2>4. s2 = [s EXCEPT !.mode = IF b.up THEN s.mode \ {m} ELSE s.mode \cup {m}]
    <3>1. CASE b.up
      <4>1. s2 = K!Break(s, b.code)
        BY <1>1, <1>4, <3>1 DEF K!key_table, K!Modifiers
      <4>2. QED
        BY <2>1, <3>1, <4>1 DEF K!Break
    <3>2. CASE ~b.up
      <4>1. s2 = K!Make(s, b.code)
        BY <1>1, <1>4, <3>2 DEF K!key_table, K!Modifiers
      <4>2. QED
        BY <2>1, <3>2, <4>1 DEF K!Make
    <3>3. QED
      BY <3>1, <3>2
  <2>5. (IF b.up THEN s.mode \ {m} ELSE s.mode \cup {m}) \in SUBSET (K!Modifiers \cup {"held", "caps"})
    BY <2>2 DEF Kbs
  <2>6. QED
    BY <1>1, <2>3, <2>4, <2>5 DEF Handled, Kbs
<1>5. CASE b.code = "caps"
  <2>1. b.code \notin K!Modifiers
    BY <1>5 DEF K!Modifiers
  <2>2. CASE b.up
    <3>1. s2 = [s EXCEPT !.mode = @ \ {"held"}]
      BY <1>1, <1>5, <2>1, <2>2 DEF K!key_table, K!uncaps
    <3>2. ModeAfter(s, b) = s.mode \ {"held"} /\ LedsAfter(s, b) = s.leds
      BY <1>5, <2>1, <2>2 DEF ModeAfter, LedsAfter
    <3>3. QED
      BY <1>1, <3>1, <3>2 DEF Handled, Kbs
  <2>3. CASE ~b.up /\ "held" \in s.mode
    <3>1. s2 = s
      BY <1>1, <1>5, <2>1, <2>3 DEF K!key_table, K!caps
    <3>2. ModeAfter(s, b) = s.mode /\ LedsAfter(s, b) = s.leds
      BY <1>5, <2>1, <2>3 DEF ModeAfter, LedsAfter
    <3>3. QED
      BY <1>1, <3>1, <3>2 DEF Handled
  <2>4. CASE ~b.up /\ "held" \notin s.mode
    <3>1. PICK m, l : m = K!Toggled(s.mode, "caps") \cup {"held"} /\ l = K!Toggled(s.leds, "caps")
      OBVIOUS
    <3>2. s2 = [s EXCEPT !.leds = l, !.mode = m]
      BY <1>1, <1>5, <2>1, <2>4, <3>1 DEF K!key_table, K!caps
    <3>3. ModeAfter(s, b) = m /\ LedsAfter(s, b) = l
      BY <1>5, <2>1, <2>4, <3>1 DEF ModeAfter, LedsAfter
    <3>4. m \in SUBSET (K!Modifiers \cup {"held", "caps"}) /\ l \in SUBSET {"num", "scroll", "caps"}
      BY <3>1 DEF Kbs, K!Toggled
    <3>5. s2 \in Kbs
      BY <3>2, <3>4 DEF Kbs
    <3>6. /\ s2.mode = m /\ s2.leds = l /\ s2.queue = s.queue /\ s2.wire = s.wire
          /\ s2.down = s.down /\ s2.last = s.last /\ s2.capsOn = s.capsOn
      BY <3>2 DEF Kbs
    <3>7. QED
      BY <1>1, <3>3, <3>5, <3>6 DEF Handled
  <2>5. QED
    BY <2>2, <2>3, <2>4
<1>6. CASE b.code \in {"num", "scroll"} /\ ~b.up
  <2>1. PICK l : l = K!Toggled(s.leds, b.code)
    OBVIOUS
  <2>2. s2 = [s EXCEPT !.leds = l]
    BY <1>1, <1>6, <2>1 DEF K!key_table, K!Modifiers
  <2>3. ModeAfter(s, b) = s.mode /\ LedsAfter(s, b) = l
    BY <1>6, <2>1 DEF ModeAfter, LedsAfter, K!Modifiers
  <2>4. l \in SUBSET {"num", "scroll", "caps"}
    BY <1>6, <2>1 DEF Kbs, K!Toggled
  <2>5. QED
    BY <1>1, <2>2, <2>3, <2>4 DEF Handled, Kbs
<1>7. CASE b.code \in {"pad4", "del"} /\ ~b.up
  <2>1. s2 = K!cursor(s, b.code)
    BY <1>1, <1>7 DEF K!key_table, K!Modifiers
  <2>2. QED
    BY <1>1, <1>7, <2>1, CursorHandles
<1>8. CASE b.code \in {"f1", "minus", "a"} /\ ~b.up
  <2>1. s2 = s \/ \E k \in KeyChars, n \in Nat : s2 = K!put_queue(s, k, n)
    <3>1. b.code \notin K!Modifiers
      BY <1>8 DEF K!Modifiers
    <3>2. CASE b.code = "f1"
      BY <1>1, <1>8, <3>1, <3>2 DEF K!key_table, K!func, KeyChars
    <3>3. CASE b.code = "minus"
      BY <1>1, <1>8, <3>1, <3>3 DEF K!key_table, K!minus, K!do_self, KeyChars
    <3>4. CASE b.code = "a"
      BY <1>1, <1>8, <3>1, <3>4 DEF K!key_table, K!do_self, KeyChars
    <3>5. QED
      BY <1>8, <3>2, <3>3, <3>4
  <2>2. s2 \in Kbs /\ Whole(s2.queue) /\ Queued(s2, s)
    BY <1>3, <2>1, PutKeeps
  <2>3. b.code \notin K!Modifiers \cup {"num", "scroll", "caps"}
    BY <1>8 DEF K!Modifiers
  <2>4. QED
    BY <1>1, <2>2, <2>3, QueuedIsHandled
<1>9. CASE /\ b.code \notin K!Modifiers \cup {"caps"}
           /\ ~(b.code \in {"num", "scroll", "pad4", "del", "f1", "minus", "a"} /\ ~b.up)
  <2>1. s2 = s
    BY <1>1, <1>9 DEF K!key_table
  <2>2. b.code \notin K!Modifiers \cup {"num", "scroll", "caps"} \/ (b.up /\ b.code \in {"num", "scroll"})
    BY <1>9
  <2>3. QED
    BY <1>1, <1>3, <2>1, <2>2, QueuedIsHandled
<1>10. QED
  BY <1>2, <1>4, <1>5, <1>6, <1>7, <1>8, <1>9
\* The interrupt takes a code from the wire: what the rest leads to is the same.
LEMMA InterruptKeeps ==
    ASSUME KbInv, K!keyboard_interrupt
    PROVE  KbInv'
<1>1. kb \in Kbs /\ ~kb.dead /\ kb.wire \in Seq(Codes) /\ kb.wire # <<>> /\ Whole(kb.queue)
  BY DEF KbInv, K!keyboard_interrupt, Kbs
<1>2. PICK b \in {Head(kb.wire)}, s \in {[kb EXCEPT !.wire = Tail(@)]}, ecx \in BOOLEAN :
         kb' = CASE b.code = "E0" -> [s EXCEPT !.e0 = 1]
                 [] b.code = "E1" -> [s EXCEPT !.e0 = 2]
                 [] OTHER         -> [K!key_table(s, b, ecx) EXCEPT !.e0 = 0]
  BY DEF K!keyboard_interrupt
<1>3. b \in Codes /\ Tail(kb.wire) \in Seq(Codes)
  BY <1>1, <1>2
<1>4. /\ s \in Kbs /\ s.wire = Tail(kb.wire) /\ s.queue = kb.queue /\ s.mode = kb.mode /\ s.leds = kb.leds
      /\ s.e0 = kb.e0 /\ s.down = kb.down /\ s.last = kb.last /\ s.capsOn = kb.capsOn
  BY <1>1, <1>2, <1>3 DEF Kbs
<1>5. ModeAfter(s, b) = ModeAfter(Now(kb), b) /\ LedsAfter(s, b) = LedsAfter(Now(kb), b)
  BY <1>4 DEF ModeAfter, LedsAfter, Now, K!Side
<1>6. /\ kb' \in Kbs /\ Whole(kb'.queue) /\ Now(kb') = After(Now(kb), b)
      /\ kb'.wire = Tail(kb.wire) /\ kb'.down = kb.down /\ kb'.capsOn = kb.capsOn
  <2>1. CASE b.code \in {"E0", "E1"}
    <3>1. PICK e \in 1 .. 2 : e = IF b.code = "E0" THEN 1 ELSE 2
      BY <2>1
    <3>2. kb' = [s EXCEPT !.e0 = e]
      BY <1>2, <2>1, <3>1
    <3>3. kb' \in Kbs
      <4>1. e \in 0 .. 2
        BY <3>1
      <4>2. QED
        BY <1>4, <3>2, <4>1 DEF Kbs
    <3>4. /\ kb'.queue = kb.queue /\ kb'.wire = Tail(kb.wire) /\ kb'.down = kb.down /\ kb'.capsOn = kb.capsOn
          /\ kb'.mode = kb.mode /\ kb'.leds = kb.leds /\ kb'.e0 = e
      BY <1>4, <3>2 DEF Kbs
    <3>5. After(Now(kb), b) = [mode |-> kb.mode, leds |-> kb.leds, e0 |-> e]
      BY <2>1, <3>1, AfterPrefix DEF Now
    <3>6. QED
      BY <1>1, <3>3, <3>4, <3>5 DEF Now
  <2>2. CASE b.code \notin {"E0", "E1"}
    <3>1. PICK t : t = K!key_table(s, b, ecx)
      OBVIOUS
    <3>2. Handled(t, s, b)
      BY <1>1, <1>3, <1>4, <2>2, <3>1, KeyHandles
    <3>3. kb' = [t EXCEPT !.e0 = 0]
      BY <1>2, <2>2, <3>1
    <3>4. t \in Kbs /\ Whole(t.queue)
      BY <3>2 DEF Handled
    <3>5. /\ kb' \in Kbs /\ kb'.queue = t.queue /\ kb'.wire = t.wire /\ kb'.down = t.down /\ kb'.capsOn = t.capsOn
          /\ kb'.mode = t.mode /\ kb'.leds = t.leds /\ kb'.e0 = 0
      <4>1. kb' \in Kbs
        <5>1. PICK e \in 0 .. 2 : e = 0
          OBVIOUS
        <5>2. kb' = [t EXCEPT !.e0 = e]
          BY <3>3, <5>1
        <5>3. QED
          BY <3>4, <5>2 DEF Kbs
      <4>2. /\ kb'.queue = t.queue /\ kb'.wire = t.wire /\ kb'.down = t.down /\ kb'.capsOn = t.capsOn
            /\ kb'.mode = t.mode /\ kb'.leds = t.leds /\ kb'.e0 = 0
        BY <3>3, <3>4 DEF Kbs
      <4>3. QED
        BY <4>1, <4>2
    <3>6. After(Now(kb), b) = [mode |-> ModeAfter(s, b), leds |-> LedsAfter(s, b), e0 |-> 0]
      BY <1>5, <2>2 DEF After
    <3>7. Now(kb') = After(Now(kb), b)
      BY <3>2, <3>5, <3>6 DEF Handled, Now
    <3>8. QED
      BY <1>4, <3>2, <3>4, <3>5, <3>7 DEF Handled
  <2>3. QED
    BY <2>1, <2>2
<1>7. PICK z : Leads(Now(kb), kb.wire, z) /\ Fits(z, kb.down, kb.capsOn)
  BY <1>1 DEF KbInv, CatchesUp
<1>8. Leads(Now(kb'), kb'.wire, z) /\ Fits(z, kb'.down, kb'.capsOn)
  BY <1>1, <1>2, <1>6, <1>7, LeadsTail
<1>9. CatchesUp'
  BY <1>8 DEF CatchesUp
<1>10. QED
  BY <1>6, <1>9 DEF KbInv

\* A key that moves adds to the wire what makes up for it.
LEMMA KeyKeeps ==
    ASSUME KbInv, NEW k \in Keys, K!Press(k) \/ K!KeyRepeat(k) \/ K!Release(k)
    PROVE  KbInv'
<1>1. kb \in Kbs /\ ~kb.dead /\ kb.wire \in Seq(Codes) /\ kb.capsOn \in BOOLEAN /\ kb.down \subseteq Keys
  BY DEF KbInv, Kbs, K!Press, K!KeyRepeat, K!Release
<1>2. PICK z : Leads(Now(kb), kb.wire, z) /\ Fits(z, kb.down, kb.capsOn)
  BY <1>1 DEF KbInv, CatchesUp
<1>3. PICK up \in BOOLEAN, down2 \in SUBSET Keys, capsOn2 \in BOOLEAN, last2 \in Keys \cup {"none"} :
         /\ KeyMoves(k, up, kb.down, down2, kb.capsOn, capsOn2)
         /\ kb' = [kb EXCEPT !.down = down2, !.last = last2, !.capsOn = capsOn2, !.wire = kb.wire \o K!Sends(k, up)]
  <2>1. CASE K!Press(k)
    <3>1. PICK down2 \in SUBSET Keys, capsOn2 \in BOOLEAN :
             down2 = kb.down \cup {k} /\ capsOn2 = IF k = "caps" THEN ~kb.capsOn ELSE kb.capsOn
      BY <1>1
    <3>2. kb' = [kb EXCEPT !.down = down2, !.last = k, !.wire = kb.wire \o K!Sends(k, FALSE), !.capsOn = capsOn2]
      BY <2>1, <3>1 DEF K!Press
    <3>3. kb' = [kb EXCEPT !.down = down2, !.last = k, !.capsOn = capsOn2, !.wire = kb.wire \o K!Sends(k, FALSE)]
      BY <1>1, <3>2 DEF Kbs
    <3>4. KeyMoves(k, FALSE, kb.down, down2, kb.capsOn, capsOn2)
      BY <2>1, <3>1 DEF KeyMoves, K!Press
    <3>5. QED
      BY <3>3, <3>4
  <2>2. CASE K!KeyRepeat(k)
    <3>1. kb' = [kb EXCEPT !.wire = kb.wire \o K!Sends(k, FALSE)]
      BY <2>2 DEF K!KeyRepeat
    <3>2. kb' = [kb EXCEPT !.down = kb.down, !.last = kb.last, !.capsOn = kb.capsOn,
                           !.wire = kb.wire \o K!Sends(k, FALSE)]
      BY <1>1, <3>1 DEF Kbs
    <3>3. KeyMoves(k, FALSE, kb.down, kb.down, kb.capsOn, kb.capsOn)
      BY <2>2 DEF KeyMoves, K!KeyRepeat
    <3>4. kb.last \in Keys \cup {"none"}
      BY <1>1 DEF Kbs
    <3>5. QED
      BY <1>1, <3>2, <3>3, <3>4
  <2>3. CASE K!Release(k)
    <3>1. PICK down2 \in SUBSET Keys, last2 \in Keys \cup {"none"} :
             down2 = kb.down \ {k} /\ last2 = IF kb.last = k THEN "none" ELSE kb.last
      BY <1>1 DEF Kbs
    <3>2. kb' = [kb EXCEPT !.down = down2, !.last = last2, !.wire = kb.wire \o K!Sends(k, TRUE)]
      BY <2>3, <3>1 DEF K!Release
    <3>3. kb' = [kb EXCEPT !.down = down2, !.last = last2, !.capsOn = kb.capsOn, !.wire = kb.wire \o K!Sends(k, TRUE)]
      BY <1>1, <3>2 DEF Kbs
    <3>4. KeyMoves(k, TRUE, kb.down, down2, kb.capsOn, kb.capsOn)
      BY <2>3, <3>1 DEF KeyMoves, K!Release
    <3>5. QED
      BY <1>1, <3>3, <3>4
  <2>4. QED
    BY <2>1, <2>2, <2>3
<1>4. PICK w \in Seq(Codes) : w = K!Sends(k, up) /\ \E y : Leads(z, w, y) /\ Fits(y, down2, capsOn2)
  BY <1>1, <1>2, <1>3, SendsFit
<1>5. PICK y : Leads(z, w, y) /\ Fits(y, down2, capsOn2)
  BY <1>4
<1>6. kb' = [kb EXCEPT !.down = down2, !.last = last2, !.capsOn = capsOn2, !.wire = kb.wire \o w]
  BY <1>3, <1>4
<1>7. kb.wire \o w \in Seq(Codes)
  BY <1>1, <1>4
<1>8. kb' \in Kbs
  BY <1>1, <1>3, <1>6, <1>7 DEF Kbs
<1>9. /\ kb'.wire = kb.wire \o w /\ kb'.down = down2 /\ kb'.capsOn = capsOn2 /\ kb'.queue = kb.queue
      /\ kb'.mode = kb.mode /\ kb'.leds = kb.leds /\ kb'.e0 = kb.e0
  BY <1>1, <1>6 DEF Kbs
<1>10. Leads(Now(kb'), kb'.wire, y) /\ Fits(y, kb'.down, kb'.capsOn)
  <2>1. Leads(Now(kb), kb.wire \o w, y)
    BY <1>1, <1>2, <1>4, <1>5, LeadsOn
  <2>2. Now(kb') = Now(kb)
    BY <1>9 DEF Now
  <2>3. QED
    BY <1>5, <1>9, <2>1, <2>2
<1>11. CatchesUp' /\ Whole(kb'.queue)
  BY <1>9, <1>10 DEF CatchesUp, KbInv
<1>12. QED
  BY <1>8, <1>11 DEF KbInv

\* A character is taken from the queue: the rest is whole.
LEMMA GetCharKeeps ==
    ASSUME KbInv, K!GetChar
    PROVE  KbInv'
<1>1. kb \in Kbs /\ kb.queue \in Seq(KbChars) /\ kb.queue # <<>> /\ kb' = [kb EXCEPT !.queue = Tail(@)]
  BY DEF KbInv, Kbs, K!GetChar
<1>2. PICK q \in Seq(KbChars), t \in Seq(KbChars) : q = kb.queue /\ t = Tail(q)
  <2>1. PICK q \in Seq(KbChars) : q = kb.queue /\ q # <<>>
    BY <1>1
  <2>2. Tail(q) \in Seq(KbChars)
    BY <2>1
  <2>3. QED
    BY <2>1, <2>2
<1>3. q # <<>> /\ Len(q) \in Nat /\ Len(t) = Len(q) - 1 /\ \A i \in 1 .. Len(t) : t[i] = q[i + 1]
  BY <1>1, <1>2
<1>4. /\ kb' \in Kbs /\ kb'.queue = t
      /\ kb'.wire = kb.wire /\ kb'.down = kb.down /\ kb'.capsOn = kb.capsOn /\ kb'.dead = kb.dead
      /\ kb'.mode = kb.mode /\ kb'.leds = kb.leds /\ kb'.e0 = kb.e0
  BY <1>1, <1>2 DEF Kbs
<1>5. Whole(t)
  <2>1. Whole(q)
    BY <1>2 DEF KbInv
  <2>2. ASSUME NEW i \in 1 .. Len(t), t[i].at < t[i].of
        PROVE  i < Len(t) /\ t[i + 1] = [t[i] EXCEPT !.at = @ + 1]
    <3>1. i + 1 \in 1 .. Len(q) /\ t[i] = q[i + 1]
      BY <1>3
    <3>2. i + 1 < Len(q) /\ q[(i + 1) + 1] = [q[i + 1] EXCEPT !.at = @ + 1]
      BY <2>1, <2>2, <3>1 DEF Whole
    <3>3. i + 1 \in 1 .. Len(t)
      BY <1>3, <3>2
    <3>4. t[i + 1] = q[(i + 1) + 1]
      BY <1>3, <3>3
    <3>5. QED
      BY <1>3, <3>1, <3>2, <3>4
  <2>3. QED
    BY <2>2 DEF Whole
<1>6. CatchesUp'
  BY <1>4 DEF KbInv, CatchesUp, Now
<1>7. QED
  BY <1>4, <1>5, <1>6 DEF KbInv

LEMMA KbStart == K!KbInit => KbInv
<1>1. SUFFICES ASSUME K!KbInit PROVE KbInv
  OBVIOUS
<1>2. /\ kb.mode = {} /\ kb.leds = {"num"} /\ kb.e0 = 0 /\ kb.queue = <<>> /\ kb.wire = <<>>
      /\ kb.down = {} /\ kb.capsOn = FALSE
  BY <1>1 DEF K!KbInit
<1>3. kb \in Kbs
  BY <1>1 DEF K!KbInit, Kbs
<1>4. Leads(Now(kb), kb.wire, Now(kb))
  BY <1>2, LeadsNone
<1>5. Fits(Now(kb), kb.down, kb.capsOn)
  BY <1>2 DEF Fits, Now
<1>6. Whole(kb.queue)
  BY <1>2 DEF Whole
<1>7. QED
  BY <1>3, <1>4, <1>5, <1>6 DEF KbInv, CatchesUp

\* What is on the wire makes the modes those of the keys, and no sequence in the queue is cut.
THEOREM KbInvAlways == K!KbSpec => []KbInv
<1>1. KbInv /\ [K!KbNext]_K!kbVars => KbInv'
  <2>1. SUFFICES ASSUME KbInv, [K!KbNext]_K!kbVars PROVE KbInv'
    OBVIOUS
  <2>2. ASSUME NEW k \in Keys, K!Press(k) \/ K!KeyRepeat(k) \/ K!Release(k)
        PROVE  KbInv'
    BY <2>1, <2>2, KeyKeeps
  <2>3. CASE K!keyboard_interrupt
    BY <2>1, <2>3, InterruptKeeps
  <2>4. CASE K!GetChar
    BY <2>1, <2>4, GetCharKeeps
  <2>5. CASE UNCHANGED kb
    BY <2>1, <2>5 DEF KbInv, CatchesUp
  <2>6. QED
    BY <2>1, <2>2, <2>3, <2>4, <2>5 DEF K!KbNext, K!Die, K!kbVars
<1>2. QED
  BY <1>1, KbStart, PTL DEF K!KbSpec

\* When the keyboard has sent all, the driver's modes are those of the keys, whatever was pressed,
\* repeated and released meanwhile; and what a key sends is in the queue to its end or not at all.
THEOREM KeyboardIsConsistent == K!KbSpec => []KeyboardConsistent
<1>1. KbInv => KeyboardConsistent
  <2>1. SUFFICES ASSUME KbInv PROVE KeyboardConsistent
    OBVIOUS
  <2>2. K!SequencesWhole
    BY <2>1 DEF KbInv, Whole, K!SequencesWhole
  <2>3. ASSUME kb.wire = <<>>, ~kb.dead
        PROVE  Fits(Now(kb), kb.down, kb.capsOn)
    BY <2>1, <2>3, LeadsNone DEF KbInv, CatchesUp
  <2>4. K!ModesFollowKeys
    <3>1. SUFFICES ASSUME kb.wire = <<>>, ~kb.dead
                   PROVE  /\ kb.mode \cap K!Modifiers = kb.down \cap K!Modifiers /\ kb.e0 = 0
                          /\ ("held" \in kb.mode) = ("caps" \in kb.down)
                          /\ ("caps" \in kb.mode) = kb.capsOn /\ ("caps" \in kb.leds) = kb.capsOn
      BY DEF K!ModesFollowKeys
    <3>2. kb.capsOn \in BOOLEAN
      BY <2>1 DEF KbInv, Kbs
    <3>3. QED
      BY <2>3, <3>1, <3>2 DEF Fits, Now
  <2>5. QED
    BY <2>2, <2>4 DEF KeyboardConsistent
<1>2. QED
  BY <1>1, KbInvAlways, PTL

-----------------------------------------------------------------------------
(* The console. *)

\* What the cells hold, a cursor with its window, and a memory, when they are well typed.
Cells    == Chars \cup {Blank, Other}
Cursors  == [origin : Int, scr_end : Int, pos : Int, x : Int, y : Int]
Memories == [Memory -> Cells]

\* No store has left the video memory (StoresInside), of any memory.
Inside(m) == m \in Memories /\ \A i \in Memory : m[i] = Other <=> i \notin 0 .. video_mem_end - 1

\* The window, and the cursor in a line of it, if not yet in a column.
InWindow(c) ==
    /\ c \in Cursors
    /\ c.y \in 0 .. Lines - 1
    /\ c.pos = c.origin + c.y * Cols + c.x
    /\ c.origin >= 0 /\ c.scr_end = c.origin + Lines * Cols /\ c.scr_end <= video_mem_end

\* The cursor and the window of CursorInStep, of any cursor.
OnLine(c) == InWindow(c) /\ c.x \in 0 .. Cols

\* The lines that scroll are lines of the screen.
Scrolls == top \in Int /\ bottom \in Int /\ 0 <= top /\ top < bottom /\ bottom <= Lines

\* The inductive invariant.
ConInv == ega \in BOOLEAN /\ Inside(mem) /\ OnLine(con) /\ Scrolls

\* The sizes that ConsoleAssumption allows.
LEMMA Sizes ==
    /\ Cols \in Nat /\ Cols > 0 /\ Lines \in Nat /\ Lines > 0 /\ MemLines \in Nat
    /\ Word \in Nat /\ Word > 0 /\ TabStop \in Nat /\ TabStop > 0
  BY ConsoleAssumption DEF ConsoleAssumption

\* Lines are counted in cells.
LEMMA Products ==
    ASSUME NEW a \in Int, NEW b \in Int
    PROVE  /\ a * Cols \in Int /\ Cols * a = a * Cols
           /\ Cols * (a + 1) = a * Cols + Cols /\ Cols * (a - 1) = a * Cols - Cols
           /\ (b - a - 1) * Cols = b * Cols - a * Cols - Cols
           /\ a >= 0 => a * Cols >= 0
           /\ a <= b => a * Cols <= b * Cols
           /\ a < b => a * Cols + Cols <= b * Cols
  <1>1. Cols \in Nat
    BY Sizes
  <1>2. a * Cols \in Int /\ b * Cols \in Int
    BY <1>1
  <1>3. /\ Cols * a = a * Cols
        /\ Cols * (a + 1) = a * Cols + Cols /\ Cols * (a - 1) = a * Cols - Cols
        /\ (b - a - 1) * Cols = b * Cols - a * Cols - Cols
    BY <1>1
  <1>4. \A n \in Nat : n * Cols >= 0
    BY <1>1
  <1>5. a >= 0 => a * Cols >= 0
    BY <1>4
  <1>6. a <= b => a * Cols <= b * Cols
    <2>1. (b - a) * Cols = b * Cols - a * Cols
      BY <1>1
    <2>2. a <= b => b - a \in Nat
      OBVIOUS
    <2> QED
      BY <2>1, <2>2, <1>4, <1>2
  <1>7. a < b => a * Cols + Cols <= b * Cols
    <2>2. a < b => b - a - 1 \in Nat
      OBVIOUS
    <2> QED
      BY <1>3, <2>2, <1>4, <1>2, <1>1
  <1> QED
    BY <1>2, <1>3, <1>5, <1>6, <1>7

\* Cells of the video memory that become blank.
LEMMA FillInside ==
    ASSUME NEW m, Inside(m), NEW at \in Int, NEW n \in Int, n > 0 => at >= 0 /\ at + n <= video_mem_end
    PROVE  Inside(Fill(m, at, n))
  <1>1. video_mem_end \in Int /\ Memory \subseteq Int
    BY Products, Sizes DEF video_mem_end, Memory
  <1>2. Blank # Other /\ Blank \in Cells
    BY DEF Blank, Other, Cells
  <1> QED
    BY <1>1, <1>2 DEF Fill, Inside, Memories

\* Cells of the video memory that are copied to others.
LEMMA MoveInside ==
    ASSUME NEW m, Inside(m), NEW to \in Int, NEW from \in Int, NEW n \in Int,
           n > 0 => /\ to >= 0 /\ to + n <= video_mem_end
                    /\ from >= 0 /\ from + n <= video_mem_end
    PROVE  Inside(Move(m, to, from, n))
  <1>1. video_mem_end \in Int /\ Memory = -Cols .. video_mem_end + Cols - 1 /\ Cols \in Nat
    BY Products, Sizes DEF video_mem_end, Memory
  <1>2. ASSUME NEW i \in Memory, i \in to .. to + n - 1
        PROVE  /\ from + (i - to) \in Memory /\ from + (i - to) \in 0 .. video_mem_end - 1
               /\ i \in 0 .. video_mem_end - 1
    BY <1>1, <1>2
  <1> QED
    BY <1>1, <1>2 DEF Move, Inside, Memories

\* A line of the screen lies in the video memory.
LEMMA Places ==
    ASSUME NEW c, InWindow(c), NEW l \in Int, 0 <= l, l < Lines
    PROVE  /\ c.origin \in Int /\ c.scr_end \in Int /\ c.pos \in Int /\ c.x \in Int /\ c.y \in Int
           /\ video_mem_end \in Int /\ Cols \in Int /\ Cols > 0 /\ l * Cols \in Int /\ Lines * Cols \in Int
           /\ l * Cols >= 0 /\ l * Cols + Cols <= Lines * Cols
           /\ c.origin + l * Cols + Cols <= video_mem_end
  <1>1. c.origin \in Int /\ c.scr_end \in Int /\ c.pos \in Int /\ c.x \in Int /\ c.y \in Int
    BY DEF InWindow, Cursors
  <1>2. Cols \in Int /\ Cols > 0 /\ Lines \in Int /\ video_mem_end \in Int
    BY Sizes, Products DEF video_mem_end
  <1>3. l * Cols \in Int /\ Lines * Cols \in Int /\ l * Cols >= 0 /\ l * Cols + Cols <= Lines * Cols
    BY <1>2, Products
  <1> QED
    BY <1>1, <1>2, <1>3 DEF InWindow

\* scrup() and scrdown() of some lines copy and blank only these lines.
LEMMA RegionUpInside ==
    ASSUME NEW c, InWindow(c), NEW m, Inside(m), NEW t \in Int, NEW b \in Int, 0 <= t, t < b, b <= Lines
    PROVE  Inside(RegionUp(c, m, t, b)) /\ Inside(scrdown(c, m, t, b))
  <1> DEFINE lt == t * Cols
             lb == b * Cols
             ll == Lines * Cols
  <1>1. /\ c.origin \in Int /\ c.origin >= 0 /\ video_mem_end \in Int /\ Cols \in Int /\ Cols > 0
        /\ lt \in Int /\ lb \in Int /\ ll \in Int /\ lt >= 0 /\ lt + Cols <= lb /\ lb <= ll
        /\ c.origin + ll <= video_mem_end
    <2>1. Lines \in Int /\ Lines * Cols \in Int /\ b * Cols \in Int /\ t * Cols \in Int
      BY Sizes, Products
    <2> QED
      BY <2>1, Products, Sizes DEF InWindow, Cursors, video_mem_end
  <1>2. /\ Cols * t = lt /\ Cols * (t + 1) = lt + Cols /\ (b - t - 1) * Cols = lb - lt - Cols
        /\ Cols * (b - 1) = lb - Cols
    BY Products
  <1> HIDE DEF lt, lb, ll
  <1>3. /\ Inside(Move(m, c.origin + lt, c.origin + lt + Cols, lb - lt - Cols))
        /\ Inside(Move(m, c.origin + lt + Cols, c.origin + lt, lb - lt - Cols))
    BY <1>1, MoveInside
  <1>4. Inside(Fill(Move(m, c.origin + lt, c.origin + lt + Cols, lb - lt - Cols), c.origin + lb - Cols, Cols))
    BY <1>1, <1>3, FillInside
  <1>5. Inside(Fill(Move(m, c.origin + lt + Cols, c.origin + lt, lb - lt - Cols), c.origin + lt, Cols))
    BY <1>1, <1>3, FillInside
  <1>6. /\ c.origin + (lt + Cols) = c.origin + lt + Cols
        /\ c.origin + (lb - Cols) = c.origin + lb - Cols
    BY <1>1
  <1> QED
    BY <1>2, <1>4, <1>5, <1>6 DEF RegionUp, scrdown

\* What is known of the cursor's place: ll and ly are products.
LEMMA CursorPlace ==
    ASSUME NEW c, InWindow(c)
    PROVE  /\ c \in Cursors
           /\ c.origin \in Int /\ c.scr_end \in Int /\ c.pos \in Int /\ c.x \in Int /\ c.y \in Int
           /\ video_mem_end \in Int /\ Cols \in Int /\ Cols > 0 /\ Lines \in Int
           /\ \E ll \in Int, ly \in Int :
                 /\ ll = Lines * Cols /\ ly = c.y * Cols
                 /\ (Lines - 1) * Cols = ll - Cols /\ (c.y + 1) * Cols = ly + Cols
                 /\ (c.y - 1) * Cols = ly - Cols
                 /\ 0 <= ly /\ ly + Cols <= ll
                 /\ c.pos = c.origin + ly + c.x
                 /\ c.origin >= 0 /\ c.scr_end = c.origin + ll /\ c.scr_end <= video_mem_end
  <1>1. /\ c \in Cursors /\ c.y \in Int /\ c.y >= 0 /\ c.y < Lines
        /\ c.pos = c.origin + c.y * Cols + c.x
        /\ c.origin >= 0 /\ c.scr_end = c.origin + Lines * Cols /\ c.scr_end <= video_mem_end
    BY Sizes DEF InWindow
  <1>2. c.origin \in Int /\ c.scr_end \in Int /\ c.pos \in Int /\ c.x \in Int
    BY <1>1 DEF Cursors
  <1>3. Cols \in Int /\ Cols > 0 /\ Lines \in Int /\ MemLines \in Int
    BY Sizes
  <1>4. video_mem_end \in Int
    BY <1>3, Products DEF video_mem_end
  <1>5. /\ Lines * Cols \in Int /\ c.y * Cols \in Int /\ 0 <= c.y * Cols /\ c.y * Cols + Cols <= Lines * Cols
    BY <1>1, <1>3, Products
  <1>6. /\ (Lines - 1) * Cols = Lines * Cols - Cols
        /\ (c.y + 1) * Cols = c.y * Cols + Cols /\ (c.y - 1) * Cols = c.y * Cols - Cols
    BY <1>1, <1>3
  <1> QED
    BY <1>1, <1>2, <1>3, <1>4, <1>5, <1>6

\* scrup() of the whole screen: the window has gone on by a line, or is back at the start.
LEMMA WindowDownKeeps ==
    ASSUME NEW c, InWindow(c), NEW m, Inside(m)
    PROVE  LET r == WindowDown(c, m) IN InWindow(r.con) /\ r.con.x = c.x /\ Inside(r.mem)
  <1>1. PICK ll \in Int, ly \in Int :
                 /\ ll = Lines * Cols /\ ly = c.y * Cols
                 /\ (Lines - 1) * Cols = ll - Cols
                 /\ 0 <= ly /\ ly + Cols <= ll
                 /\ c.pos = c.origin + ly + c.x
                 /\ c.origin >= 0 /\ c.scr_end = c.origin + ll /\ c.scr_end <= video_mem_end
    BY CursorPlace
  <1>2. /\ c \in Cursors
        /\ c.origin \in Int /\ c.scr_end \in Int /\ c.pos \in Int /\ c.x \in Int /\ c.y \in Int
        /\ video_mem_end \in Int /\ Cols \in Int /\ Cols > 0
    BY CursorPlace
  <1>3. CASE c.scr_end + Cols > video_mem_end
    <2> DEFINE d == WindowDown(c, m).con
    <2>1. d = [c EXCEPT !.origin = 0, !.scr_end = c.scr_end - c.origin, !.pos = c.pos - c.origin]
      BY <1>3 DEF WindowDown
    <2>2. WindowDown(c, m).mem = Fill(Move(m, 0, c.origin + Cols, ll - Cols), ll - Cols, Cols)
      BY <1>3, <1>1 DEF WindowDown
    <2>3. Inside(Move(m, 0, c.origin + Cols, ll - Cols))
      BY <1>1, <1>2, MoveInside
    <2>4. Inside(WindowDown(c, m).mem)
      BY <1>1, <1>2, <2>2, <2>3, FillInside
    <2> HIDE DEF d
    <2>5. c.scr_end - c.origin \in Int /\ c.pos - c.origin \in Int
      BY <1>2
    <2>6. /\ d \in Cursors /\ d.origin = 0 /\ d.scr_end = c.scr_end - c.origin
          /\ d.pos = c.pos - c.origin /\ d.x = c.x /\ d.y = c.y
      <3>1. PICK o \in Int, e \in Int, p \in Int : o = 0 /\ e = c.scr_end - c.origin /\ p = c.pos - c.origin
        BY <2>5
      <3>2. d = [c EXCEPT !.origin = o, !.scr_end = e, !.pos = p]
        BY <2>1, <3>1
      <3>3. /\ d \in Cursors /\ d.origin = o /\ d.scr_end = e
            /\ d.pos = p /\ d.x = c.x /\ d.y = c.y
        BY <1>2, <3>2 DEF Cursors
      <3> QED
        BY <3>1, <3>3
    <2>7. d.pos = d.origin + ly + d.x /\ d.scr_end = d.origin + ll /\ d.scr_end <= video_mem_end
      BY <1>1, <1>2, <2>6
    <2>8. InWindow(d)
      BY <1>1, <2>6, <2>7 DEF InWindow
    <2> QED
      BY <2>4, <2>6, <2>8 DEF d
  <1>4. CASE ~(c.scr_end + Cols > video_mem_end)
    <2> DEFINE d == WindowDown(c, m).con
    <2>1. d = [c EXCEPT !.origin = c.origin + Cols, !.scr_end = c.scr_end + Cols, !.pos = c.pos + Cols]
      BY <1>4 DEF WindowDown
    <2>2. WindowDown(c, m).mem = Fill(m, c.scr_end, Cols)
      BY <1>4 DEF WindowDown
    <2>4. Inside(WindowDown(c, m).mem)
      BY <1>1, <1>2, <1>4, <2>2, FillInside
    <2> HIDE DEF d
    <2>5. c.origin + Cols \in Int /\ c.scr_end + Cols \in Int /\ c.pos + Cols \in Int
      BY <1>2
    <2>6. /\ d \in Cursors /\ d.origin = c.origin + Cols /\ d.scr_end = c.scr_end + Cols
          /\ d.pos = c.pos + Cols /\ d.x = c.x /\ d.y = c.y
      BY <1>2, <2>1, <2>5 DEF Cursors
    <2>7. /\ d.pos = d.origin + ly + d.x /\ d.scr_end = d.origin + ll /\ d.scr_end <= video_mem_end
          /\ d.origin >= 0
      BY <1>1, <1>2, <1>4, <2>6
    <2>8. InWindow(d)
      BY <1>1, <2>6, <2>7 DEF InWindow
    <2> QED
      BY <2>4, <2>6, <2>8 DEF d
  <1> QED
    BY <1>3, <1>4

\* scrup(), one way or the other.
LEMMA ScrupKeeps ==
    ASSUME NEW c, InWindow(c), NEW m, Inside(m), NEW t \in Int, NEW b \in Int, 0 <= t, t < b, b <= Lines
    PROVE  LET r == scrup(c, m, t, b) IN InWindow(r.con) /\ r.con.x = c.x /\ Inside(r.mem)
  BY WindowDownKeeps, RegionUpInside DEF scrup

\* A line feed, with the cursor in any column.
LEMMA LfKeeps ==
    ASSUME NEW c, InWindow(c), NEW m, Inside(m), Scrolls
    PROVE  LET r == lf(c, m) IN InWindow(r.con) /\ r.con.x = c.x /\ Inside(r.mem)
  <1>1. CASE c.y + 1 < bottom
    <2> DEFINE d == [c EXCEPT !.y = c.y + 1, !.pos = c.pos + Cols]
    <2>1. lf(c, m) = [con |-> d, mem |-> m]
      BY <1>1 DEF lf
    <2>2. PICK ly \in Int : /\ ly = c.y * Cols /\ (c.y + 1) * Cols = ly + Cols
                            /\ c.pos = c.origin + ly + c.x
      BY CursorPlace
    <2>3. /\ c \in Cursors /\ c.y + 1 \in Int /\ c.pos + Cols \in Int /\ c.x \in Int /\ c.origin \in Int
          /\ Cols \in Int /\ c.y + 1 \in 0 .. Lines - 1
      <3>1. c.y \in 0 .. Lines - 1 /\ Lines \in Int
        BY CursorPlace DEF InWindow
      <3>2. c.y + 1 \in 0 .. Lines - 1
        BY <1>1, <3>1 DEF Scrolls
      <3> QED
        BY <3>1, <3>2, CursorPlace
    <2>4. /\ d \in Cursors /\ d.origin = c.origin /\ d.scr_end = c.scr_end
          /\ d.pos = c.pos + Cols /\ d.x = c.x /\ d.y = c.y + 1
      BY <2>3 DEF Cursors
    <2> HIDE DEF d
    <2>5. d.pos = d.origin + d.y * Cols + d.x
      BY <2>2, <2>3, <2>4
    <2>6. InWindow(d)
      BY <2>3, <2>4, <2>5 DEF InWindow
    <2> QED
      BY <2>1, <2>4, <2>6
  <1>2. CASE ~(c.y + 1 < bottom)
    BY <1>2, ScrupKeeps DEF lf, Scrolls
  <1> QED
    BY <1>1, <1>2

\* A cursor that moves in its line.
LEMMA InLine ==
    ASSUME NEW c, InWindow(c), NEW n \in Int
    PROVE  LET d == [c EXCEPT !.x = c.x + n, !.pos = c.pos + n]
           IN  InWindow(d) /\ d.x = c.x + n
  <1>1. PICK ly \in Int : ly = c.y * Cols /\ c.pos = c.origin + ly + c.x
    BY CursorPlace
  <1>2. c \in Cursors /\ c.pos \in Int /\ c.x \in Int /\ c.origin \in Int
    BY CursorPlace
  <1>3. PICK x \in Int, p \in Int : x = c.x + n /\ p = c.pos + n
    BY <1>2
  <1> DEFINE d == [c EXCEPT !.x = c.x + n, !.pos = c.pos + n]
  <1>4. d = [c EXCEPT !.x = x, !.pos = p]
    BY <1>3
  <1> HIDE DEF d
  <1>5. /\ d \in Cursors /\ d.origin = c.origin /\ d.scr_end = c.scr_end
        /\ d.y = c.y /\ d.x = x /\ d.pos = p
    BY <1>2, <1>4 DEF Cursors
  <1>6. d.pos = d.origin + ly + d.x
    BY <1>1, <1>2, <1>3, <1>5
  <1>7. InWindow(d) /\ d.x = c.x + n
    BY <1>1, <1>3, <1>5, <1>6 DEF InWindow
  <1> QED
    BY <1>7 DEF d

\* A cursor past the last column is back in the first ones.
LEMMA WrappedKeeps ==
    ASSUME NEW c, InWindow(c), Inside(mem), Scrolls
    PROVE  LET r == Wrapped(c) IN
               /\ InWindow(r.con) /\ Inside(r.mem)
               /\ r.con.x = IF c.x >= Cols THEN c.x - Cols ELSE c.x
  <1>1. CASE c.x >= Cols
    <2> DEFINE d == [c EXCEPT !.x = @ - Cols, !.pos = @ - Cols]
    <2>1. Wrapped(c) = lf(d, mem)
      BY <1>1 DEF Wrapped
    <2>2. c.pos \in Int /\ c.x \in Int /\ Cols \in Int
      BY CursorPlace
    <2>3. PICK n \in Int : n = -Cols
      BY <2>2
    <2>4. d = [c EXCEPT !.x = c.x + n, !.pos = c.pos + n] /\ c.x - Cols = c.x + n
      BY <2>2, <2>3
    <2> HIDE DEF d
    <2>5. InWindow(d) /\ d.x = c.x - Cols
      BY <2>4, InLine, Zenon
    <2> QED
      BY <1>1, <2>1, <2>5, LfKeeps
  <1>2. CASE ~(c.x >= Cols)
    BY <1>2 DEF Wrapped
  <1> QED
    BY <1>1, <1>2

\* What becomes of the screen is again a cursor in its window and a memory with no stray store.
LEMMA BecomesKeeps ==
    ASSUME ConInv, NEW r, Becomes(r), OnLine(r.con), Inside(r.mem)
    PROVE  ConInv'
  BY DEF ConInv, Becomes, Scrolls, OnLine, InWindow, Inside, Memories

\* gotoxy() goes to a place of the screen, or nowhere.
LEMMA GotoKeeps ==
    ASSUME NEW c, OnLine(c), NEW x \in Int, x >= 0, NEW y \in Int, y >= 0
    PROVE  OnLine(gotoxy(c, x, y))
  <1>1. CASE x > Cols \/ y >= Lines
    BY <1>1 DEF gotoxy
  <1>2. CASE ~(x > Cols \/ y >= Lines)
    <2>1. /\ c \in Cursors /\ c.origin \in Int /\ Cols \in Int /\ Lines \in Int /\ y * Cols \in Int
      BY CursorPlace, Products DEF OnLine
    <2>2. PICK p \in Int : p = c.origin + y * Cols + x
      BY <2>1
    <2> DEFINE d == gotoxy(c, x, y)
    <2>3. d = [c EXCEPT !.x = x, !.y = y, !.pos = p]
      BY <1>2, <2>2 DEF gotoxy
    <2> HIDE DEF d
    <2>4. /\ d \in Cursors /\ d.origin = c.origin /\ d.scr_end = c.scr_end
          /\ d.pos = p /\ d.x = x /\ d.y = y
      BY <2>1, <2>2, <2>3 DEF Cursors
    <2>5. x \in 0 .. Cols /\ y \in 0 .. Lines - 1
      BY <1>2, <2>1
    <2>6. InWindow(d)
      BY <2>2, <2>4, <2>5 DEF InWindow, OnLine
    <2> QED
      BY <2>4, <2>5, <2>6 DEF OnLine, d
  <1> QED
    BY <1>1, <1>2

\* An action that is a gotoxy().
LEMMA MovesKeeps ==
    ASSUME ConInv, NEW x \in Int, x >= 0, NEW y \in Int, y >= 0, Moves(gotoxy(con, x, y))
    PROVE  ConInv'
  <1>1. OnLine(gotoxy(con, x, y)) /\ Inside(mem)
    BY GotoKeeps DEF ConInv
  <1> QED
    BY <1>1, BecomesKeeps DEF Moves

\* An action that only stores.
LEMMA StoresKeeps ==
    ASSUME ConInv, NEW m, Inside(m), Stores(m)
    PROVE  ConInv'
  BY BecomesKeeps DEF Stores, ConInv

\* The numbers of an escape sequence are what remains modulo Word.
LEMMA Unsigned == \A n \in Int : U(n) \in Int /\ U(n) >= 0
  BY Sizes DEF U

\* What the numbers of an escape sequence are made into.
LEMMA Parameters ==
    ASSUME NEW p \in 0 .. Word - 1
    PROVE  /\ p \in Int /\ p >= 0
           /\ Less1(p) \in Int /\ Less1(p) >= 0
           /\ AtLeast1(p) \in Int /\ AtLeast1(p) >= 1
           /\ \A most \in Nat \ {0} : Times(p, most) \in 1 .. most
  BY Sizes DEF Less1, AtLeast1, Times

\* A character is stored at the cursor, which has wrapped before.
LEMMA PutCharKeeps ==
    ASSUME ConInv, NEW char \in Chars, PutChar(char)
    PROVE  ConInv'
  <1> DEFINE w == Wrapped(con)
             d == [w.con EXCEPT !.x = w.con.x + 1, !.pos = w.con.pos + 1]
             m == [w.mem EXCEPT ![w.con.pos] = char]
  <1>1. Becomes([con |-> d, mem |-> m])
    BY DEF PutChar
  <1>2. /\ InWindow(w.con) /\ Inside(w.mem)
        /\ w.con.x = IF con.x >= Cols THEN con.x - Cols ELSE con.x
    BY WrappedKeeps DEF ConInv, OnLine
  <1>d. d = [w.con EXCEPT !.x = w.con.x + 1, !.pos = w.con.pos + 1]
    OBVIOUS
  <1> HIDE DEF w, d
  <1>3. w.con.x \in 0 .. Cols - 1
    <2>1. con.x \in 0 .. Cols /\ Cols \in Nat /\ Cols > 0
      BY Sizes DEF ConInv, OnLine
    <2> QED
      BY <1>2, <2>1
  <1>4. OnLine(d)
    <2>1. InWindow(d) /\ d.x = w.con.x + 1
      <3>1. PICK n \in Int : n = 1
        OBVIOUS
      <3>2. d = [w.con EXCEPT !.x = w.con.x + n, !.pos = w.con.pos + n] /\ w.con.x + 1 = w.con.x + n
        BY <1>d, <3>1
      <3> QED
        BY <1>2, <3>2, InLine, Zenon
    <2>2. w.con.x + 1 \in 0 .. Cols
      BY <1>3, Sizes
    <2> QED
      BY <2>1, <2>2 DEF OnLine
  <1>5. w.con.pos \in Int /\ w.con.pos >= 0 /\ w.con.pos < video_mem_end
    <2>1. PICK ll \in Int, ly \in Int :
                 /\ 0 <= ly /\ ly + Cols <= ll
                 /\ w.con.pos = w.con.origin + ly + w.con.x
                 /\ w.con.origin >= 0 /\ w.con.scr_end = w.con.origin + ll /\ w.con.scr_end <= video_mem_end
      BY <1>2, CursorPlace
    <2>2. /\ w.con.origin \in Int /\ w.con.scr_end \in Int /\ w.con.x \in Int /\ video_mem_end \in Int
          /\ Cols \in Int /\ w.con.pos \in Int
      BY <1>2, CursorPlace
    <2> QED
      BY <2>1, <2>2, <1>3
  <1>6. Inside(m)
    <2>1. video_mem_end \in Int
      BY <1>2, CursorPlace
    <2>2. char \in Cells /\ char # Other
      BY DEF Cells, Chars, Other
    <2>3. w.mem \in Memories /\ \A i \in Memory : w.mem[i] = Other <=> i \notin 0 .. video_mem_end - 1
      BY <1>2 DEF Inside
    <2>4. w.con.pos \in 0 .. video_mem_end - 1
      BY <1>5, <2>1
    <2>5. m \in Memories
      BY <2>2, <2>3 DEF Memories
    <2>6. \A i \in Memory : m[i] = IF i = w.con.pos THEN char ELSE w.mem[i]
      BY <2>3 DEF Memories
    <2>7. \A i \in Memory : m[i] = Other <=> i \notin 0 .. video_mem_end - 1
      BY <2>2, <2>3, <2>4, <2>6
    <2> QED
      BY <2>5, <2>7 DEF Inside
  <1> HIDE DEF m
  <1> QED
    BY <1>1, <1>4, <1>6, BecomesKeeps

\* LF, VT and FF.
LEMMA LineFeedKeeps ==
    ASSUME ConInv, LineFeed PROVE ConInv'
  <1>1. /\ InWindow(lf(con, mem).con) /\ Inside(lf(con, mem).mem) /\ lf(con, mem).con.x = con.x
    BY LfKeeps DEF ConInv, OnLine
  <1> QED
    BY <1>1, BecomesKeeps DEF LineFeed, OnLine, ConInv

\* ri(): to the line above, or the lines scroll down.
LEMMA ReverseFeedKeeps ==
    ASSUME ConInv, ReverseFeed PROVE ConInv'
  <1>1. CASE con.y > top
    <2> DEFINE d == [con EXCEPT !.y = con.y - 1, !.pos = con.pos - Cols]
    <2>1. Becomes([con |-> d, mem |-> mem])
      BY <1>1 DEF ReverseFeed, Moves
    <2>2. PICK ly \in Int : /\ ly = con.y * Cols /\ (con.y - 1) * Cols = ly - Cols
                            /\ con.pos = con.origin + ly + con.x
      BY CursorPlace DEF ConInv, OnLine
    <2>3. /\ con \in Cursors /\ con.pos \in Int /\ con.x \in Int /\ con.origin \in Int /\ con.y \in 0 .. Lines - 1
          /\ Cols \in Int /\ Lines \in Int
      BY CursorPlace DEF ConInv, OnLine, InWindow
    <2>4. PICK y \in Int, p \in Int : y = con.y - 1 /\ p = con.pos - Cols
      BY <2>3
    <2>5. d = [con EXCEPT !.y = y, !.pos = p]
      BY <2>4
    <2> HIDE DEF d
    <2>6. /\ d \in Cursors /\ d.origin = con.origin /\ d.scr_end = con.scr_end
          /\ d.y = y /\ d.x = con.x /\ d.pos = p
      BY <2>3, <2>5 DEF Cursors
    <2>7. y \in 0 .. Lines - 1
      BY <1>1, <2>3, <2>4 DEF ConInv, Scrolls
    <2>8. p = con.origin + (con.y - 1) * Cols + con.x
      BY <2>2, <2>3, <2>4
    <2>9. OnLine(d)
      BY <2>4, <2>6, <2>7, <2>8 DEF OnLine, InWindow, ConInv
    <2> QED
      BY <2>1, <2>9, BecomesKeeps DEF ConInv
  <1>2. CASE ~(con.y > top)
    <2>1. Inside(scrdown(con, mem, top, bottom))
      BY RegionUpInside DEF ConInv, Scrolls, OnLine
    <2> QED
      BY <1>2, <2>1, StoresKeeps DEF ReverseFeed
  <1> QED
    BY <1>1, <1>2

\* A cursor that moves in its line and stays on it.
LEMMA ShiftKeeps ==
    ASSUME ConInv, NEW n \in Int, con.x + n \in 0 .. Cols
    PROVE  OnLine([con EXCEPT !.x = con.x + n, !.pos = con.pos + n])
  BY InLine DEF ConInv, OnLine

\* cr().
LEMMA CarriageReturnKeeps ==
    ASSUME ConInv, CarriageReturn PROVE ConInv'
  <1>1. con.pos \in Int /\ con.x \in Int /\ Cols \in Nat
    BY CursorPlace, Sizes DEF ConInv, OnLine
  <1>2. PICK n \in Int : n = -con.x
    BY <1>1
  <1>3. /\ [con EXCEPT !.pos = @ - con.x, !.x = 0] = [con EXCEPT !.x = con.x + n, !.pos = con.pos + n]
        /\ con.x + n \in 0 .. Cols
    <2>1. con.x + n = 0 /\ con.pos + n = con.pos - con.x
      BY <1>1, <1>2
    <2>2. [con EXCEPT !.pos = @ - con.x, !.x = 0] = [con EXCEPT !.x = 0, !.pos = con.pos - con.x]
      BY DEF ConInv, OnLine, InWindow, Cursors
    <2>3. con.x + n \in 0 .. Cols
      BY <1>1, <2>1
    <2> QED
      BY <2>1, <2>2, <2>3, Zenon
  <1> QED
    BY <1>3, ShiftKeeps, BecomesKeeps DEF CarriageReturn, Moves, ConInv

\* Backspace stops in the first column.
LEMMA BackspaceKeeps ==
    ASSUME ConInv, Backspace PROVE ConInv'
  <1>1. con.pos \in Int /\ con.x \in 0 .. Cols /\ Cols \in Nat
    BY CursorPlace, Sizes DEF ConInv, OnLine
  <1>2. PICK n \in Int : n = -1
    OBVIOUS
  <1>3. /\ [con EXCEPT !.pos = @ - 1, !.x = @ - 1] = [con EXCEPT !.x = con.x + n, !.pos = con.pos + n]
        /\ con.x + n \in 0 .. Cols
    <2>1. con.x + n = con.x - 1 /\ con.pos + n = con.pos - 1
      BY <1>1, <1>2
    <2>2. [con EXCEPT !.pos = @ - 1, !.x = @ - 1] = [con EXCEPT !.x = con.x - 1, !.pos = con.pos - 1]
      BY DEF ConInv, OnLine, InWindow, Cursors
    <2>3. con.x + n \in 0 .. Cols
      BY <1>1, <2>1 DEF Backspace
    <2> QED
      BY <2>1, <2>2, <2>3, Zenon
  <1> QED
    BY <1>3, ShiftKeeps, BecomesKeeps DEF Backspace, Moves, ConInv

\* del() blanks the cell before the cursor.
LEMMA DelKeeps ==
    ASSUME ConInv, Del PROVE ConInv'
  <1> DEFINE d == [con EXCEPT !.pos = @ - 1, !.x = @ - 1]
             m == [mem EXCEPT ![con.pos - 1] = Blank]
  <1>1. con.pos \in Int /\ con.x \in 0 .. Cols /\ Cols \in Nat /\ con.x > 0
    BY CursorPlace, Sizes DEF ConInv, OnLine, Del
  <1>2. PICK n \in Int : n = -1
    OBVIOUS
  <1>3. d = [con EXCEPT !.x = con.x + n, !.pos = con.pos + n] /\ con.x + n \in 0 .. Cols
    <2>1. con.x + n = con.x - 1 /\ con.pos + n = con.pos - 1
      BY <1>1, <1>2
    <2>2. d = [con EXCEPT !.x = con.x - 1, !.pos = con.pos - 1]
      BY DEF ConInv, OnLine, InWindow, Cursors
    <2>3. con.x + n \in 0 .. Cols
      BY <1>1, <2>1
    <2> QED
      BY <2>1, <2>2, <2>3, Zenon
  <1>4. Becomes([con |-> d, mem |-> m])
    BY DEF Del
  <1> HIDE DEF d
  <1>5. OnLine(d)
    BY <1>3, ShiftKeeps
  <1>6. Inside(m)
    <2>1. PICK ll \in Int, ly \in Int :
             /\ 0 <= ly /\ ly + Cols <= ll /\ con.pos = con.origin + ly + con.x
             /\ con.origin >= 0 /\ con.scr_end = con.origin + ll /\ con.scr_end <= video_mem_end
      BY CursorPlace DEF ConInv, OnLine
    <2>2. con.origin \in Int /\ con.scr_end \in Int /\ video_mem_end \in Int
      BY CursorPlace DEF ConInv, OnLine
    <2>3. con.pos - 1 \in 0 .. video_mem_end - 1
      BY <1>1, <2>1, <2>2
    <2>4. mem \in Memories /\ \A i \in Memory : mem[i] = Other <=> i \notin 0 .. video_mem_end - 1
      BY DEF Inside, ConInv
    <2>5. Blank \in Cells /\ Blank # Other
      BY DEF Cells, Blank, Other
    <2>6. m \in Memories
      BY <2>4, <2>5 DEF Memories
    <2>7. \A i \in Memory : m[i] = IF i = con.pos - 1 THEN Blank ELSE mem[i]
      BY <2>4 DEF Memories
    <2>8. \A i \in Memory : m[i] = Other <=> i \notin 0 .. video_mem_end - 1
      BY <2>3, <2>4, <2>5, <2>7
    <2> QED
      BY <2>6, <2>8 DEF Inside
  <1> HIDE DEF m
  <1> QED
    BY <1>4, <1>5, <1>6, BecomesKeeps

\* A line is as long as a tab, or longer.
LEMMA TabFits == TabStop <= Cols
  <1>1. TabStop \in Nat /\ TabStop > 0 /\ Cols \in Nat /\ Cols > 0 /\ Cols % TabStop = 0
    BY ConsoleAssumption DEF ConsoleAssumption
  <1> QED
    BY <1>1

\* A tab wraps by less than a line.
LEMMA TabKeeps ==
    ASSUME ConInv, Tab PROVE ConInv'
  <1>1. con.pos \in Int /\ con.x \in 0 .. Cols /\ Cols \in Nat /\ Cols > 0 /\ TabStop \in Nat /\ TabStop > 0
    BY CursorPlace, Sizes DEF ConInv, OnLine
  <1>2. PICK n \in Int : n = TabStop - (con.x % TabStop) /\ n \in 1 .. TabStop
    BY <1>1
  <1> DEFINE t == [con EXCEPT !.x = con.x + n, !.pos = con.pos + n]
  <1>3. IF t.x > Cols THEN Becomes(Wrapped(t)) ELSE Becomes([con |-> t, mem |-> mem])
    BY <1>2 DEF Tab, Moves
  <1>4. InWindow(t) /\ t.x = con.x + n
    BY InLine DEF ConInv, OnLine
  <1> HIDE DEF t
  <1>5. CASE t.x > Cols
    <2>1. t.x >= Cols /\ t.x - Cols \in 0 .. Cols
      BY <1>1, <1>2, <1>4, <1>5, TabFits
    <2>2. InWindow(Wrapped(t).con) /\ Inside(Wrapped(t).mem) /\ Wrapped(t).con.x = t.x - Cols
      BY <1>4, <2>1, WrappedKeeps DEF ConInv
    <2> QED
      BY <1>3, <1>5, <2>1, <2>2, BecomesKeeps DEF OnLine
  <1>6. CASE ~(t.x > Cols)
    <2>1. OnLine(t)
      BY <1>1, <1>2, <1>4, <1>6 DEF OnLine
    <2> QED
      BY <1>3, <1>6, <2>1, BecomesKeeps DEF ConInv
  <1> QED
    BY <1>5, <1>6

\* The cursor's line and the window, in addresses.
LEMMA Addresses ==
    ASSUME ConInv
    PROVE  /\ con.pos \in Int /\ con.origin \in Int /\ con.scr_end \in Int /\ video_mem_end \in Int
           /\ Cols \in Nat /\ Cols > 0 /\ Lines \in Nat /\ Lines > 0
           /\ con.x \in Int /\ 0 <= con.x /\ con.x <= Cols /\ con.y \in 0 .. Lines - 1
           /\ 0 <= con.origin /\ con.origin <= con.pos - con.x
           /\ con.pos - con.x + Cols <= con.scr_end /\ con.scr_end <= video_mem_end
           /\ Cols * Lines = con.scr_end - con.origin
  <1>1. PICK ll \in Int, ly \in Int :
             /\ ll = Lines * Cols /\ 0 <= ly /\ ly + Cols <= ll /\ con.pos = con.origin + ly + con.x
             /\ con.origin >= 0 /\ con.scr_end = con.origin + ll /\ con.scr_end <= video_mem_end
    BY CursorPlace DEF ConInv, OnLine
  <1>2. /\ con.pos \in Int /\ con.origin \in Int /\ con.scr_end \in Int /\ video_mem_end \in Int
        /\ con.x \in 0 .. Cols /\ con.y \in 0 .. Lines - 1
    BY CursorPlace DEF ConInv, OnLine, InWindow
  <1>3. Cols \in Nat /\ Cols > 0 /\ Lines \in Nat /\ Lines > 0
    BY Sizes
  <1>4. Cols * Lines = ll
    BY <1>1, <1>3
  <1> QED
    BY <1>1, <1>2, <1>3, <1>4

\* csi_J().
LEMMA EraseDisplayKeeps ==
    ASSUME ConInv, NEW p \in 0 .. Word - 1, EraseDisplay(p) PROVE ConInv'
  <1>1. Inside(mem)
    BY DEF ConInv
  <1>2. /\ Inside(Fill(mem, con.pos, con.scr_end - con.pos))
        /\ Inside(Fill(mem, con.origin, con.pos - con.origin))
        /\ Inside(Fill(mem, con.origin, con.scr_end - con.origin))
    BY <1>1, Addresses, FillInside
  <1>3. /\ p = 0 => Stores(Fill(mem, con.pos, con.scr_end - con.pos))
        /\ p = 1 => Stores(Fill(mem, con.origin, con.pos - con.origin))
        /\ p = 2 => Stores(Fill(mem, con.origin, con.scr_end - con.origin))
        /\ p \in 0 .. 2
    BY Addresses DEF EraseDisplay
  <1> QED
    BY <1>2, <1>3, StoresKeeps

\* csi_K().
LEMMA EraseLineKeeps ==
    ASSUME ConInv, NEW p \in 0 .. Word - 1, EraseLine(p) PROVE ConInv'
  <1>1. Inside(mem)
    BY DEF ConInv
  <1> DEFINE n == IF con.x < Cols THEN con.x ELSE Cols
  <1>2. n \in 0 .. Cols
    BY Addresses
  <1>3. /\ p = 0 => Stores(Fill(mem, con.pos, Cols - con.x))
        /\ p = 1 => Stores(Fill(mem, con.pos - con.x, n))
        /\ p = 2 => Stores(Fill(mem, con.pos - con.x, Cols))
        /\ p \in 0 .. 2
    BY DEF EraseLine
  <1> HIDE DEF n
  <1>4. /\ Inside(Fill(mem, con.pos, Cols - con.x))
        /\ Inside(Fill(mem, con.pos - con.x, n))
        /\ Inside(Fill(mem, con.pos - con.x, Cols))
    BY <1>1, <1>2, Addresses, FillInside
  <1> QED
    BY <1>3, <1>4, StoresKeeps

\* How many characters come or go is at most what is left of the line.
LEMMA CharsFit ==
    ASSUME ConInv, NEW p \in 0 .. Word - 1
    PROVE  AtMost(Times(p, Cols), Cols - con.x) \in 0 .. Cols - con.x
  <1>1. Times(p, Cols) \in 1 .. Cols
    BY Parameters, Addresses
  <1> QED
    BY <1>1, Addresses DEF AtMost

\* csi_at().
LEMMA InsertCharsKeeps ==
    ASSUME ConInv, NEW p \in 0 .. Word - 1, InsertChars(p) PROVE ConInv'
  <1>1. PICK n \in 0 .. Cols - con.x : n = AtMost(Times(p, Cols), Cols - con.x)
    BY CharsFit
  <1>2. Stores(Fill(Move(mem, con.pos + n, con.pos, Cols - con.x - n), con.pos, n))
    BY <1>1 DEF InsertChars
  <1>3. Inside(Move(mem, con.pos + n, con.pos, Cols - con.x - n))
    BY Addresses, MoveInside DEF ConInv
  <1>4. Inside(Fill(Move(mem, con.pos + n, con.pos, Cols - con.x - n), con.pos, n))
    BY <1>3, Addresses, FillInside
  <1> QED
    BY <1>2, <1>4, StoresKeeps

\* csi_P().
LEMMA DeleteCharsKeeps ==
    ASSUME ConInv, NEW p \in 0 .. Word - 1, DeleteChars(p) PROVE ConInv'
  <1>1. PICK n \in 0 .. Cols - con.x : n = AtMost(Times(p, Cols), Cols - con.x)
    BY CharsFit
  <1>2. Stores(Fill(Move(mem, con.pos, con.pos + n, Cols - con.x - n), con.pos + Cols - con.x - n, n))
    BY <1>1 DEF DeleteChars
  <1>3. Inside(Move(mem, con.pos, con.pos + n, Cols - con.x - n))
    BY Addresses, MoveInside DEF ConInv
  <1>4. Inside(Fill(Move(mem, con.pos, con.pos + n, Cols - con.x - n), con.pos + Cols - con.x - n, n))
    BY <1>3, Addresses, FillInside
  <1> QED
    BY <1>2, <1>4, StoresKeeps

-----------------------------------------------------------------------------
(* Lines that come and go, one after the other: a recursion over their number, of which the library's *)
(* induction cannot speak, and a least counterexample can.                                            *)

\* A set of numbers that is not empty has a least element.
LEMMA LeastOf ==
    ASSUME NEW T, T \subseteq Nat, T # {}
    PROVE  \E x \in T : \A y \in T : x <= y
  <1> DEFINE R == OpToRel(<, Nat)
  <1>1. IsWellFoundedOn(R, Nat)
    BY NatLessThanWellFounded
  <1>2. PICK x \in T : \A y \in T : ~(<<y, x>> \in R)
    BY <1>1, WFMin
  <1>3. \A y \in T : ~(y < x)
    BY <1>2 DEF OpToRel
  <1> QED
    BY <1>3

\* f holds what becomes of a by applying G up to N times.
IsIteration(f, G, a, N) == f = [i \in 0 .. N |-> IF i = 0 THEN a ELSE G[f[i - 1]]]

\* A function can be applied any number of times.
LEMMA Iterate ==
    ASSUME NEW S, NEW G \in [S -> S], NEW a \in S, NEW N \in Nat
    PROVE  \E f \in [0 .. N -> S] : IsIteration(f, G, a, N)
  <1> DEFINE Missing == {n \in Nat : ~\E f \in [0 .. n -> S] : IsIteration(f, G, a, n)}
  <1>1. SUFFICES ASSUME Missing # {} PROVE FALSE
    OBVIOUS
  <1>2. PICK n \in Missing : \A k \in Missing : n <= k
    BY <1>1, LeastOf
  <1>3. n \in Nat /\ ~\E f \in [0 .. n -> S] : IsIteration(f, G, a, n)
    BY <1>2
  <1>4. n # 0
    <2>1. [i \in 0 .. 0 |-> a] \in [0 .. 0 -> S]
      OBVIOUS
    <2>2. IsIteration([i \in 0 .. 0 |-> a], G, a, 0)
      BY DEF IsIteration
    <2> QED
      BY <1>3, <2>1, <2>2
  <1>5. n - 1 \in Nat /\ n - 1 \notin Missing
    BY <1>2, <1>3, <1>4
  <1>6. PICK f \in [0 .. n - 1 -> S] : IsIteration(f, G, a, n - 1)
    BY <1>5
  <1> DEFINE g == [i \in 0 .. n |-> IF i = n THEN G[f[n - 1]] ELSE f[i]]
  <1>7. g \in [0 .. n -> S]
    <2>1. f[n - 1] \in S
      BY <1>5, <1>6
    <2>2. \A i \in 0 .. n : i # n => i \in 0 .. n - 1
      BY <1>3
    <2> QED
      BY <1>6, <2>1, <2>2
  <1>8. IsIteration(g, G, a, n)
    <2>1. \A i \in 0 .. n - 1 : f[i] = IF i = 0 THEN a ELSE G[f[i - 1]]
      BY <1>6 DEF IsIteration
    <2>2. ASSUME NEW i \in 0 .. n PROVE g[i] = IF i = 0 THEN a ELSE G[g[i - 1]]
      <3>1. CASE i = n
        <4>1. i - 1 \in 0 .. n /\ i - 1 # n /\ g[i - 1] = f[n - 1]
          BY <1>3, <1>4, <3>1
        <4> QED
          BY <1>4, <3>1, <4>1
      <3>2. CASE i # n /\ i # 0
        <4>1. i \in 0 .. n - 1 /\ i - 1 \in 0 .. n /\ i - 1 # n
          BY <1>3, <3>2
        <4> QED
          BY <2>1, <3>2, <4>1
      <3>3. CASE i = 0
        <4>1. i \in 0 .. n - 1 /\ i # n
          BY <1>3, <1>4, <3>3
        <4> QED
          BY <2>1, <3>3, <4>1
      <3> QED
        BY <3>1, <3>2, <3>3
    <2> QED
      BY <2>2 DEF IsIteration
  <1> QED
    BY <1>3, <1>7, <1>8

\* What begins in a set, and leaves it in no step, stays in it.
LEMMA Stays ==
    ASSUME NEW S, NEW N \in Nat, NEW f, f[0] \in S,
           \A i \in 0 .. N : i # 0 /\ f[i - 1] \in S => f[i] \in S
    PROVE  \A i \in 0 .. N : f[i] \in S
  <1> DEFINE Outside == {i \in 0 .. N : f[i] \notin S}
  <1>1. SUFFICES ASSUME Outside # {} PROVE FALSE
    OBVIOUS
  <1>2. Outside \subseteq Nat
    OBVIOUS
  <1>3. PICK i \in Outside : \A k \in Outside : i <= k
    BY <1>1, <1>2, LeastOf
  <1>4. i # 0
    BY <1>3
  <1>5. i - 1 \in 0 .. N /\ i - 1 \notin Outside
    BY <1>3, <1>4
  <1> QED
    BY <1>3, <1>4, <1>5

\* What holds of nothing, and of a number if it does of the one before, holds of each.
LEMMA CountUp ==
    ASSUME NEW N \in Nat, NEW T, 0 \in T, \A i \in 0 .. N : i # 0 /\ i - 1 \in T => i \in T
    PROVE  0 .. N \subseteq T
  <1> DEFINE f == [i \in 0 .. N |-> i]
  <1>1. f[0] \in T
    OBVIOUS
  <1>2. \A i \in 0 .. N : i # 0 => i - 1 \in 0 .. N /\ f[i - 1] = i - 1 /\ f[i] = i
    OBVIOUS
  <1>3. \A i \in 0 .. N : i # 0 /\ f[i - 1] \in T => f[i] \in T
    BY <1>2
  <1>4. \A i \in 0 .. N : f[i] = i
    OBVIOUS
  <1> HIDE DEF f
  <1>5. \A i \in 0 .. N : f[i] \in T
    BY <1>1, <1>3, Stays
  <1> QED
    BY <1>4, <1>5

\* The memories, and the screens, that lines come to or go from.
Insides == {m \in Memories : Inside(m)}
Screens == {s \in [con : Cursors, mem : Memories] : InWindow(s.con) /\ s.con.x = con.x /\ Inside(s.mem)}

\* csi_L(): the memory after each line that is inserted.
LEMMA InsertedLines ==
    ASSUME ConInv, NEW p \in 0 .. Word - 1, InsertLines(p)
    PROVE  \E f : /\ f = [i \in 0 .. Lines |-> IF i = 0 THEN mem ELSE scrdown(con, f[i - 1], con.y, Lines)]
                  /\ \A i \in 0 .. Lines : f[i] \in Insides
                  /\ Stores(f[Times(p, Lines)])
  <1> DEFINE m[i \in 0 .. Lines] == IF i = 0 THEN mem ELSE scrdown(con, m[i - 1], con.y, Lines)
             G == [k \in Insides |-> scrdown(con, k, con.y, Lines)]
  <1>1. Stores(m[Times(p, Lines)])
    BY DEF InsertLines
  <1>2. G \in [Insides -> Insides]
    <2>1. \A k \in Insides : Inside(scrdown(con, k, con.y, Lines))
      BY Addresses, RegionUpInside DEF Insides, ConInv, OnLine
    <2> QED
      BY <2>1 DEF Insides, Inside
  <1>3. mem \in Insides /\ Lines \in Nat
    BY Sizes DEF ConInv, Insides, Inside
  <1>4. PICK f \in [0 .. Lines -> Insides] : IsIteration(f, G, mem, Lines)
    BY <1>2, <1>3, Iterate
  <1>5. f = [i \in 0 .. Lines |-> IF i = 0 THEN mem ELSE scrdown(con, f[i - 1], con.y, Lines)]
    <2>1. \A i \in 0 .. Lines : i # 0 => i - 1 \in 0 .. Lines
      BY <1>3
    <2>2. \A i \in 0 .. Lines : i # 0 => G[f[i - 1]] = scrdown(con, f[i - 1], con.y, Lines)
      BY <2>1
    <2> QED
      BY <1>4, <2>2 DEF IsIteration
  <1>6. m = [i \in 0 .. Lines |-> IF i = 0 THEN mem ELSE scrdown(con, m[i - 1], con.y, Lines)]
    BY <1>5
  <1> HIDE DEF m
  <1>7. m[0] \in Insides
    BY <1>3, <1>6
  <1>8. \A i \in 0 .. Lines : i # 0 /\ m[i - 1] \in Insides => m[i] \in Insides
    <2>1. \A k \in Insides : scrdown(con, k, con.y, Lines) \in Insides
      BY <1>2
    <2> QED
      BY <1>6, <2>1
  <1>9. \A i \in 0 .. Lines : m[i] \in Insides
    BY <1>3, <1>7, <1>8, Stays
  <1> QED
    BY <1>1, <1>6, <1>9

\* csi_L(): each line that is inserted scrolls the rest down.
LEMMA InsertLinesKeeps ==
    ASSUME ConInv, NEW p \in 0 .. Word - 1, InsertLines(p) PROVE ConInv'
  <1>1. PICK f : (\A i \in 0 .. Lines : f[i] \in Insides) /\ Stores(f[Times(p, Lines)])
    BY InsertedLines
  <1>2. Times(p, Lines) \in 0 .. Lines
    BY Parameters, Sizes
  <1> QED
    BY <1>1, <1>2, StoresKeeps DEF Insides

\* csi_M(): the screen after each line that is deleted, which may move the window.
LEMMA DeletedLines ==
    ASSUME ConInv, NEW p \in 0 .. Word - 1, DeleteLines(p)
    PROVE  \E f : /\ f = [i \in 0 .. Lines |-> IF i = 0 THEN [con |-> con, mem |-> mem]
                              ELSE scrup(f[i - 1].con, f[i - 1].mem, f[i - 1].con.y, Lines)]
                  /\ \A i \in 0 .. Lines : f[i] \in Screens
                  /\ Becomes(f[Times(p, Lines)])
  <1> DEFINE r[i \in 0 .. Lines] == IF i = 0 THEN [con |-> con, mem |-> mem]
                                    ELSE LET l == r[i - 1] IN scrup(l.con, l.mem, l.con.y, Lines)
             G == [k \in Screens |-> scrup(k.con, k.mem, k.con.y, Lines)]
             start == [con |-> con, mem |-> mem]
  <1>1. Becomes(r[Times(p, Lines)])
    BY DEF DeleteLines
  <1>2. \A k \in Screens : scrup(k.con, k.mem, k.con.y, Lines) \in Screens
    <2> TAKE k \in Screens
    <2> DEFINE s == scrup(k.con, k.mem, k.con.y, Lines)
    <2>1. /\ InWindow(k.con) /\ Inside(k.mem) /\ k.con.x = con.x
          /\ k.con.y \in Int /\ 0 <= k.con.y /\ k.con.y < Lines /\ Lines \in Int /\ Lines <= Lines
      BY Sizes DEF Screens, InWindow
    <2>2. InWindow(s.con) /\ s.con.x = k.con.x /\ Inside(s.mem)
      BY <2>1, ScrupKeeps
    <2>3. s = [con |-> s.con, mem |-> s.mem]
      BY DEF scrup, WindowDown
    <2>4. s.con \in Cursors /\ s.mem \in Memories
      BY <2>2 DEF InWindow, Inside
    <2> HIDE DEF s
    <2>5. s \in [con : Cursors, mem : Memories]
      BY <2>3, <2>4
    <2>6. s \in Screens
      BY <2>1, <2>2, <2>5 DEF Screens
    <2> QED
      BY <2>6 DEF s
  <1>3. start \in Screens /\ Lines \in Nat
    BY Sizes DEF ConInv, Screens, Inside, OnLine, InWindow
  <1>4. PICK f \in [0 .. Lines -> Screens] : IsIteration(f, G, start, Lines)
    BY <1>2, <1>3, Iterate
  <1>5. f = [i \in 0 .. Lines |-> IF i = 0 THEN [con |-> con, mem |-> mem]
                                  ELSE LET l == f[i - 1] IN scrup(l.con, l.mem, l.con.y, Lines)]
    <2>1. \A i \in 0 .. Lines : i # 0 => i - 1 \in 0 .. Lines
      BY <1>3
    <2>2. \A i \in 0 .. Lines : i # 0 => G[f[i - 1]] = scrup(f[i - 1].con, f[i - 1].mem, f[i - 1].con.y, Lines)
      BY <2>1
    <2> QED
      BY <1>4, <2>2 DEF IsIteration
  <1>6. r = [i \in 0 .. Lines |-> IF i = 0 THEN [con |-> con, mem |-> mem]
                                  ELSE scrup(r[i - 1].con, r[i - 1].mem, r[i - 1].con.y, Lines)]
    BY <1>5
  <1> HIDE DEF r
  <1>7. r[0] \in Screens
    BY <1>3, <1>6
  <1>8. \A i \in 0 .. Lines : i # 0 /\ r[i - 1] \in Screens => r[i] \in Screens
    BY <1>6, <1>2
  <1>9. \A i \in 0 .. Lines : r[i] \in Screens
    BY <1>3, <1>7, <1>8, Stays
  <1> QED
    BY <1>1, <1>6, <1>9

\* csi_M(): each line that is deleted may move the window.
LEMMA DeleteLinesKeeps ==
    ASSUME ConInv, NEW p \in 0 .. Word - 1, DeleteLines(p) PROVE ConInv'
  <1>1. PICK f : (\A i \in 0 .. Lines : f[i] \in Screens) /\ Becomes(f[Times(p, Lines)])
    BY DeletedLines
  <1>2. Times(p, Lines) \in 0 .. Lines
    BY Parameters, Sizes
  <1>3. f[Times(p, Lines)] \in Screens
    BY <1>1, <1>2
  <1> QED
    BY <1>1, <1>3, BecomesKeeps DEF Screens, OnLine, ConInv

-----------------------------------------------------------------------------
(* Jumps, the lines that scroll, and the theorem. *)

\* The sequences that move the cursor, also by more than there is room for.
LEMMA GotoSequencesKeep ==
    ASSUME ConInv, NEW p \in 0 .. Word - 1, Goto(p) PROVE ConInv'
  <1> DEFINE n == AtLeast1(p)
  <1>1. /\ n \in Int /\ Less1(p) \in Int /\ Less1(p) >= 0
        /\ con.x \in Int /\ con.x >= 0 /\ con.y \in Int /\ con.y >= 0
        /\ con.y + 1 \in Int /\ con.y + 1 >= 0 /\ 0 \in Int /\ 0 >= 0
        /\ con.y - n \in Int /\ con.y + n \in Int /\ con.x + n \in Int /\ con.x - n \in Int
    BY Parameters, Addresses
  <1>2. /\ U(con.y - n) \in Int /\ U(con.y - n) >= 0 /\ U(con.y + n) \in Int /\ U(con.y + n) >= 0
        /\ U(con.x - n) \in Int /\ U(con.x - n) >= 0 /\ U(con.x + n) \in Int /\ U(con.x + n) >= 0
    BY <1>1, Unsigned
  <1>3. \E x \in Int, y \in Int : x >= 0 /\ y >= 0 /\ Moves(gotoxy(con, x, y))
    <2> HIDE DEF n
    <2>1. PICK c \in {
          gotoxy(con, Less1(p), con.y), gotoxy(con, con.x, Less1(p)),
          gotoxy(con, con.x, U(con.y - n)), gotoxy(con, con.x, U(con.y + n)),
          gotoxy(con, U(con.x + n), con.y), gotoxy(con, U(con.x - n), con.y),
          gotoxy(con, 0, U(con.y + n)), gotoxy(con, 0, U(con.y - n)), gotoxy(con, 0, con.y + 1)} : Moves(c)
      BY DEF Goto, n
    <2> QED
      BY <1>1, <1>2, <2>1
  <1> QED
    BY <1>3, MovesKeeps

\* CSI H and CSI f.
LEMMA GotoXYKeeps ==
    ASSUME ConInv, NEW p \in 0 .. Word - 1, NEW q \in 0 .. Word - 1, GotoXY(p, q) PROVE ConInv'
  BY Parameters, MovesKeeps DEF GotoXY

\* restore_cur().
LEMMA RestoreKeeps ==
    ASSUME ConInv, Restore PROVE ConInv'
  <1>1. PICK x \in 0 .. Cols, y \in 0 .. Lines - 1 : Moves(gotoxy(con, x, y))
    BY DEF Restore
  <1>2. x \in Int /\ x >= 0 /\ y \in Int /\ y >= 0
    BY Sizes
  <1> QED
    BY <1>1, <1>2, MovesKeeps

\* CSI r takes only lines of the screen, in order.
LEMMA SetRegionKeeps ==
    ASSUME ConInv, NEW p \in 0 .. Word - 1, NEW q \in 0 .. Word - 1, SetRegion(p, q) PROVE ConInv'
  <1>1. Scrolls'
    <2>1. /\ Less1(p) \in Int /\ Less1(p) >= 0 /\ q \in Int /\ Lines \in Int
      BY Parameters, Sizes
    <2> QED
      BY <2>1 DEF SetRegion, Scrolls
  <1> QED
    BY <1>1 DEF SetRegion, ConInv, OnLine, InWindow, Inside, Memories

\* The screen at the start.
LEMMA ConStart == ConInit => ConInv
  <1> SUFFICES ASSUME ConInit PROVE ConInv
    OBVIOUS
  <1>1. Inside(mem)
    BY DEF ConInit, Inside, Memories, Cells, Blank, Other
  <1>2. OnLine(con)
    <2>1. Lines * Cols \in Int /\ video_mem_end \in Int /\ Lines * Cols <= video_mem_end /\ 0 * Cols = 0
      <3>1. Lines <= MemLines
        BY ConsoleAssumption DEF ConsoleAssumption
      <3> QED
        BY <3>1, Sizes, Products DEF video_mem_end
    <2> QED
      BY <2>1, Sizes DEF ConInit, OnLine, InWindow, Cursors
  <1>3. Scrolls
    BY Sizes DEF ConInit, Scrolls
  <1> QED
    BY <1>1, <1>2, <1>3 DEF ConInit, ConInv

\* Every step.
LEMMA ConNextKeeps == ConInv /\ [ConNext]_conVars => ConInv'
  <1> SUFFICES ASSUME ConInv, [ConNext]_conVars PROVE ConInv'
    OBVIOUS
  <1>1. CASE \E char \in Chars : PutChar(char)
    BY <1>1, PutCharKeeps
  <1>2. CASE LineFeed \/ ReverseFeed \/ CarriageReturn \/ Backspace \/ Del \/ Tab
    BY <1>2, LineFeedKeeps, ReverseFeedKeeps, CarriageReturnKeeps, BackspaceKeeps, DelKeeps, TabKeeps
  <1>3. ASSUME NEW p \in 0 .. Word - 1,
               \/ EraseDisplay(p) \/ EraseLine(p)
               \/ InsertLines(p) \/ DeleteLines(p) \/ InsertChars(p) \/ DeleteChars(p)
        PROVE ConInv'
    BY <1>3, EraseDisplayKeeps, EraseLineKeeps, InsertLinesKeeps, DeleteLinesKeeps, InsertCharsKeeps, DeleteCharsKeeps
  <1>4. ASSUME NEW p \in 0 .. Word - 1,
               Goto(p) \/ \E q \in 0 .. Word - 1 : GotoXY(p, q) \/ SetRegion(p, q)
        PROVE ConInv'
    BY <1>4, GotoSequencesKeep, GotoXYKeeps, SetRegionKeeps
  <1>5. CASE Restore
    BY <1>5, RestoreKeeps
  <1>6. CASE UNCHANGED conVars
    BY <1>6 DEF conVars, ConInv, Scrolls, OnLine, InWindow, Inside, Memories
  <1> QED
    BY <1>1, <1>2, <1>3, <1>4, <1>5, <1>6 DEF ConNext

\* After any characters and sequences, on a screen of any size, whether or not it scrolls by moving its
\* window (WindowDown), the cursor's address fits its place, and no store has left the video memory.
THEOREM ScreenIsConsistent == ConSpec => []ScreenConsistent
  <1>1. ConInv => ScreenConsistent
    BY DEF ConInv, Scrolls, OnLine, InWindow, Inside, ScreenConsistent, CursorInStep, StoresInside
  <1> QED
    BY <1>1, ConStart, ConNextKeeps, PTL DEF ConSpec

-----------------------------------------------------------------------------
(* What is seen of the console: it implements Screen. *)

\* The cell in a line and a column, both from 0, and the lines that are seen.
Addr(c, l, k) == c.origin + l * Cols + k
RowsOf(c, m)  == [l \in 1 .. Lines |-> [k \in 1 .. Cols |-> m[c.origin + (l - 1) * Cols + k - 1]]]
Screenfuls    == [1 .. Lines -> [1 .. Cols -> Cells]]

\* A cell is at or after the start of a line if its line is not before it.
LEMMA LineOfCell ==
    ASSUME NEW l \in Int, NEW k \in 0 .. Cols - 1, NEW a \in Int
    PROVE  /\ l * Cols + k \in Int
           /\ l * Cols + k >= a * Cols <=> l >= a
           /\ l * Cols + k < a * Cols <=> l < a
           /\ (l + 1) * Cols = l * Cols + Cols /\ (l - 1) * Cols = l * Cols - Cols
  <1>1. Cols \in Int /\ Cols > 0 /\ k >= 0 /\ k < Cols /\ k \in Int
    BY Sizes
  <1>2. l * Cols \in Int /\ a * Cols \in Int
    BY <1>1
  <1>3. l >= a => l * Cols >= a * Cols
    BY Products
  <1>4. l < a => l * Cols + Cols <= a * Cols
    BY Products
  <1>5. (l + 1) * Cols = l * Cols + Cols /\ (l - 1) * Cols = l * Cols - Cols
    BY <1>1
  <1> QED
    BY <1>1, <1>2, <1>3, <1>4, <1>5

\* Two cells are one if line and column are.
LEMMA SameCell ==
    ASSUME NEW c, InWindow(c), NEW l \in Int, NEW k \in 0 .. Cols - 1, NEW a \in Int, NEW b \in 0 .. Cols - 1
    PROVE  Addr(c, l, k) = Addr(c, a, b) <=> l = a /\ k = b
  <1>1. Cols \in Int /\ Cols > 0 /\ k \in Int /\ b \in Int /\ c.origin \in Int
    BY CursorPlace
  <1>2. l * Cols \in Int /\ a * Cols \in Int
    BY <1>1
  <1>3. l < a => l * Cols + Cols <= a * Cols
    BY Products
  <1>4. a < l => a * Cols + Cols <= l * Cols
    BY Products
  <1>5. l = a => l * Cols = a * Cols
    OBVIOUS
  <1> QED
    BY <1>1, <1>2, <1>3, <1>4, <1>5 DEF Addr

\* The cells of the screen are cells of the memory.
LEMMA CellIn ==
    ASSUME NEW c, InWindow(c), NEW l \in 0 .. Lines - 1, NEW k \in 0 .. Cols - 1
    PROVE  Addr(c, l, k) \in Int /\ Addr(c, l, k) \in 0 .. video_mem_end - 1 /\ Addr(c, l, k) \in Memory
  <1>1. PICK ll \in Int : ll = Lines * Cols /\ c.origin >= 0 /\ c.origin + ll <= video_mem_end
    BY CursorPlace
  <1>2. c.origin \in Int /\ video_mem_end \in Int /\ Cols \in Int /\ Cols > 0 /\ Lines \in Int /\ l \in Int
    BY CursorPlace
  <1>3. l * Cols \in Int /\ l * Cols >= 0 /\ l * Cols + Cols <= ll
    BY <1>1, <1>2, Products
  <1>4. Addr(c, l, k) \in 0 .. video_mem_end - 1
    BY <1>1, <1>2, <1>3 DEF Addr
  <1>5. Memory = -Cols .. video_mem_end + Cols - 1
    BY Sizes, Products DEF Memory, video_mem_end
  <1> QED
    BY <1>2, <1>4, <1>5

\* What is seen in a line and a column.
LEMMA SeenCell ==
    ASSUME NEW c, InWindow(c), NEW m \in Memories
    PROVE  /\ RowsOf(c, m) \in Screenfuls
           /\ \A l \in 1 .. Lines, k \in 1 .. Cols : RowsOf(c, m)[l][k] = m[Addr(c, l - 1, k - 1)]
  <1>1. Cols \in Int /\ Lines \in Int /\ c.origin \in Int
    BY CursorPlace
  <1>2. ASSUME NEW l \in 1 .. Lines, NEW k \in 1 .. Cols
        PROVE  /\ c.origin + (l - 1) * Cols + k - 1 = Addr(c, l - 1, k - 1)
               /\ m[Addr(c, l - 1, k - 1)] \in Cells
    <2>1. l - 1 \in 0 .. Lines - 1 /\ k - 1 \in 0 .. Cols - 1
      BY <1>1
    <2>2. Addr(c, l - 1, k - 1) \in Memory
      BY <2>1, CellIn
    <2>3. (l - 1) * Cols \in Int
      BY <1>1
    <2> QED
      BY <1>1, <2>2, <2>3 DEF Addr, Memories
  <1>3. \A l \in 1 .. Lines, k \in 1 .. Cols : RowsOf(c, m)[l][k] = m[Addr(c, l - 1, k - 1)]
    BY <1>2 DEF RowsOf
  <1>4. RowsOf(c, m) \in Screenfuls
    BY <1>2 DEF RowsOf, Screenfuls
  <1> QED
    BY <1>3, <1>4

\* A screen is known by its cells.
LEMMA SameRows ==
    ASSUME NEW r \in Screenfuls, NEW s \in Screenfuls,
           \A l \in 1 .. Lines, k \in 1 .. Cols : r[l][k] = s[l][k]
    PROVE  r = s
  <1>1. /\ r = [l \in 1 .. Lines |-> r[l]] /\ s = [l \in 1 .. Lines |-> s[l]]
        /\ \A l \in 1 .. Lines : r[l] \in [1 .. Cols -> Cells] /\ s[l] \in [1 .. Cols -> Cells]
    BY DEF Screenfuls
  <1>2. ASSUME NEW l \in 1 .. Lines PROVE r[l] = s[l]
    <2>1. r[l] = [k \in 1 .. Cols |-> r[l][k]] /\ s[l] = [k \in 1 .. Cols |-> s[l][k]]
      BY <1>1
    <2>2. [k \in 1 .. Cols |-> r[l][k]] = [k \in 1 .. Cols |-> s[l][k]]
      OBVIOUS
    <2> QED
      BY <2>1, <2>2, Zenon
  <1>3. [l \in 1 .. Lines |-> r[l]] = [l \in 1 .. Lines |-> s[l]]
    BY <1>2
  <1> QED
    BY <1>1, <1>3, Zenon

\* The cells after scrup() and scrdown() of some lines.
LEMMA RegionCells ==
    ASSUME NEW c, InWindow(c), NEW m \in Memories, NEW t \in Int, NEW b \in Int, 0 <= t, t < b, b <= Lines,
           NEW l \in 0 .. Lines - 1, NEW k \in 0 .. Cols - 1
    PROVE  /\ RegionUp(c, m, t, b)[Addr(c, l, k)] =
                IF l < t \/ l >= b THEN m[Addr(c, l, k)]
                ELSE IF l = b - 1 THEN Blank ELSE m[Addr(c, l + 1, k)]
           /\ scrdown(c, m, t, b)[Addr(c, l, k)] =
                IF l < t \/ l >= b THEN m[Addr(c, l, k)]
                ELSE IF l = t THEN Blank ELSE m[Addr(c, l - 1, k)]
  <1> DEFINE i == Addr(c, l, k)
  <1>1. PICK lt \in Int, lb \in Int, li \in Int : lt = t * Cols /\ lb = b * Cols /\ li = l * Cols
    <2>1. Cols \in Int /\ l \in Int
      BY Sizes
    <2>2. t * Cols \in Int /\ b * Cols \in Int /\ l * Cols \in Int
      BY <2>1
    <2> QED
      BY <2>2
  <1>2. /\ c.origin \in Int /\ Cols \in Int /\ Cols > 0 /\ l \in Int /\ k \in Int /\ Lines \in Int
        /\ i = c.origin + li + k /\ i \in Int /\ i \in Memory
    BY <1>1, CursorPlace, CellIn DEF Addr
  <1>3. /\ Cols * t = lt /\ Cols * (t + 1) = lt + Cols /\ (b - t - 1) * Cols = lb - lt - Cols
        /\ Cols * (b - 1) = lb - Cols
    BY <1>1, Products
  <1>4. /\ li + k >= lt <=> l >= t
        /\ li + k >= lb <=> l >= b
    BY <1>1, <1>2, LineOfCell
  <1>5. /\ li + k >= lt + Cols <=> l >= t + 1
        /\ li + k >= lb - Cols <=> l >= b - 1
    <2>1. (t + 1) * Cols = lt + Cols /\ (b - 1) * Cols = lb - Cols
      BY <1>1, <1>2
    <2> QED
      BY <1>1, <1>2, <2>1, LineOfCell
  <1>6. Addr(c, l + 1, k) = i + Cols /\ Addr(c, l - 1, k) = i - Cols
    BY <1>1, <1>2, LineOfCell DEF Addr
  <1> HIDE DEF i
  <1>7. RegionUp(c, m, t, b)[i] =
            IF l < t \/ l >= b THEN m[i] ELSE IF l = b - 1 THEN Blank ELSE m[i + Cols]
    <2> DEFINE v == Move(m, c.origin + lt, c.origin + (lt + Cols), lb - lt - Cols)
    <2>1. RegionUp(c, m, t, b) = Fill(v, c.origin + (lb - Cols), Cols)
      BY <1>3 DEF RegionUp
    <2>2. v[i] = IF l >= t /\ l < b - 1 THEN m[i + Cols] ELSE m[i]
      <3>1. i \in c.origin + lt .. c.origin + lt + (lb - lt - Cols) - 1 <=> l >= t /\ l < b - 1
        BY <1>2, <1>4, <1>5
      <3>2. c.origin + (lt + Cols) + (i - (c.origin + lt)) = i + Cols
        BY <1>2
      <3> QED
        BY <1>2, <3>1, <3>2 DEF Move
    <2> HIDE DEF v
    <2>3. i \in c.origin + (lb - Cols) .. c.origin + (lb - Cols) + Cols - 1 <=> l = b - 1
      BY <1>2, <1>4, <1>5
    <2>4. Fill(v, c.origin + (lb - Cols), Cols)[i] = IF l = b - 1 THEN Blank ELSE v[i]
      BY <1>2, <2>3 DEF Fill
    <2> QED
      BY <1>2, <2>1, <2>2, <2>4
  <1>8. scrdown(c, m, t, b)[i] =
            IF l < t \/ l >= b THEN m[i] ELSE IF l = t THEN Blank ELSE m[i - Cols]
    <2> DEFINE v == Move(m, c.origin + (lt + Cols), c.origin + lt, lb - lt - Cols)
    <2>1. scrdown(c, m, t, b) = Fill(v, c.origin + lt, Cols)
      BY <1>3 DEF scrdown
    <2>2. v[i] = IF l >= t + 1 /\ l < b THEN m[i - Cols] ELSE m[i]
      <3>1. i \in c.origin + (lt + Cols) .. c.origin + (lt + Cols) + (lb - lt - Cols) - 1 <=> l >= t + 1 /\ l < b
        BY <1>2, <1>4, <1>5
      <3>2. c.origin + lt + (i - (c.origin + (lt + Cols))) = i - Cols
        BY <1>2
      <3> QED
        BY <1>2, <3>1, <3>2 DEF Move
    <2> HIDE DEF v
    <2>3. i \in c.origin + lt .. c.origin + lt + Cols - 1 <=> l = t
      BY <1>2, <1>4, <1>5
    <2>4. Fill(v, c.origin + lt, Cols)[i] = IF l = t THEN Blank ELSE v[i]
      BY <1>2, <2>3 DEF Fill
    <2> QED
      BY <1>2, <2>1, <2>2, <2>4
  <1> QED
    BY <1>6, <1>7, <1>8 DEF i

\* The cells after scrup() of the whole screen, in the window as it is then.
LEMMA WindowCells ==
    ASSUME NEW c, InWindow(c), NEW m \in Memories, NEW l \in 0 .. Lines - 1, NEW k \in 0 .. Cols - 1
    PROVE  WindowDown(c, m).mem[Addr(WindowDown(c, m).con, l, k)] =
               IF l = Lines - 1 THEN Blank ELSE m[Addr(c, l + 1, k)]
  <1>1. PICK ll \in Int :
             /\ ll = Lines * Cols /\ (Lines - 1) * Cols = ll - Cols
             /\ c.origin >= 0 /\ c.scr_end = c.origin + ll /\ c.scr_end <= video_mem_end
    BY CursorPlace
  <1>2. /\ c \in Cursors /\ c.origin \in Int /\ c.scr_end \in Int /\ video_mem_end \in Int
        /\ Cols \in Int /\ Cols > 0 /\ Lines \in Int /\ l \in Int /\ k \in Int
    BY CursorPlace
  <1>3. PICK li \in Int : li = l * Cols
    BY <1>2
  <1>4. li + k < ll /\ (li + k >= ll - Cols <=> l = Lines - 1) /\ li + k >= 0
    <2>1. li + k >= (Lines - 1) * Cols <=> l >= Lines - 1
      BY <1>2, <1>3, LineOfCell
    <2>2. li + k < Lines * Cols <=> l < Lines
      BY <1>2, <1>3, LineOfCell
    <2>3. li >= 0
      BY <1>2, <1>3, Products
    <2> QED
      BY <1>1, <1>2, <2>1, <2>2, <2>3
  <1>5. Addr(c, l + 1, k) = c.origin + Cols + li + k
    BY <1>2, <1>3, LineOfCell DEF Addr
  <1>6. Memory = -Cols .. video_mem_end + Cols - 1
    BY Sizes, Products DEF Memory, video_mem_end
  <1> DEFINE d == WindowDown(c, m).con
             i == Addr(d, l, k)
  <1>7. CASE c.scr_end + Cols > video_mem_end
    <2>1. d.origin = 0
      BY <1>2, <1>7 DEF WindowDown, Cursors
    <2>2. WindowDown(c, m).mem = Fill(Move(m, 0, c.origin + Cols, ll - Cols), ll - Cols, Cols)
      BY <1>1, <1>7 DEF WindowDown
    <2>3. i = li + k
      BY <1>2, <1>3, <2>1 DEF Addr
    <2> HIDE DEF i, d
    <2>4. i \in Memory
      <3>1. i \in Int /\ 0 <= i /\ i < ll
        BY <1>2, <1>3, <1>4, <2>3
      <3>2. ll <= video_mem_end
        BY <1>1, <1>2
      <3>3. -Cols <= 0 /\ video_mem_end <= video_mem_end + Cols - 1 /\ -Cols \in Int
        BY <1>2
      <3> QED
        BY <1>1, <1>2, <1>6, <3>1, <3>2, <3>3
    <2> DEFINE v == Move(m, 0, c.origin + Cols, ll - Cols)
    <2>5. l # Lines - 1 => v[i] = m[c.origin + Cols + li + k]
      <3>1. l # Lines - 1 => i \in 0 .. 0 + (ll - Cols) - 1
        BY <1>1, <1>2, <1>4, <2>3
      <3>2. c.origin + Cols + (i - 0) = c.origin + Cols + li + k
        BY <1>2, <2>3
      <3> QED
        BY <2>4, <3>1, <3>2 DEF Move
    <2> HIDE DEF v
    <2>6. i \in ll - Cols .. ll - Cols + Cols - 1 <=> l = Lines - 1
      BY <1>1, <1>2, <1>4, <2>3
    <2>7. Fill(v, ll - Cols, Cols)[i] = IF l = Lines - 1 THEN Blank ELSE v[i]
      BY <2>4, <2>6 DEF Fill
    <2> QED
      BY <1>5, <2>2, <2>5, <2>7 DEF v, i, d
  <1>8. CASE ~(c.scr_end + Cols > video_mem_end)
    <2>1. d.origin = c.origin + Cols
      BY <1>2, <1>8 DEF WindowDown, Cursors
    <2>2. WindowDown(c, m).mem = Fill(m, c.scr_end, Cols)
      BY <1>8 DEF WindowDown
    <2>3. i = c.origin + Cols + li + k
      BY <1>2, <1>3, <2>1 DEF Addr
    <2> HIDE DEF i, d
    <2>4. i \in Memory
      BY <1>1, <1>2, <1>4, <1>6, <1>8, <2>3
    <2>5. i \in c.scr_end .. c.scr_end + Cols - 1 <=> l = Lines - 1
      BY <1>1, <1>2, <1>4, <2>3
    <2>6. Fill(m, c.scr_end, Cols)[i] = IF l = Lines - 1 THEN Blank ELSE m[i]
      BY <2>4, <2>5 DEF Fill
    <2> QED
      BY <1>5, <2>2, <2>3, <2>6 DEF i, d
  <1> QED
    BY <1>7, <1>8

-----------------------------------------------------------------------------
(* The sequences of Screen, line by line. *)

\* What lines t + 1 to b are when they have lost n, as functions.
UpView(r, t, b, n) ==
    [l \in 1 .. Lines |-> IF l <= t \/ l > b THEN r[l] ELSE IF l <= b - n THEN r[l + n] ELSE Seen!BlankRow]
DownView(r, t, b, n) ==
    [l \in 1 .. Lines |-> IF l <= t \/ l > b THEN r[l] ELSE IF l <= t + n THEN Seen!BlankRow ELSE r[l - n]]

\* Two sequences that are joined.
LEMMA Joined ==
    ASSUME NEW S, NEW p \in Seq(S), NEW q \in Seq(S)
    PROVE  /\ p \o q \in Seq(S) /\ Len(p \o q) = Len(p) + Len(q)
           /\ \A i \in 1 .. Len(p) : (p \o q)[i] = p[i]
           /\ \A i \in 1 .. Len(q) : (p \o q)[Len(p) + i] = q[i]
  <1>0. Len(p) \in Nat /\ Len(q) \in Nat
    BY LenProperties
  <1>1. /\ p \o q \in Seq(S) /\ Len(p \o q) = Len(p) + Len(q)
        /\ \A i \in 1 .. Len(p) + Len(q) : (p \o q)[i] = IF i <= Len(p) THEN p[i] ELSE q[i - Len(p)]
    BY ConcatProperties
  <1>2. \A i \in 1 .. Len(p) : i \in 1 .. Len(p) + Len(q) /\ i <= Len(p)
    BY <1>0
  <1>3. \A i \in 1 .. Len(q) : /\ Len(p) + i \in 1 .. Len(p) + Len(q)
                               /\ ~(Len(p) + i <= Len(p)) /\ (Len(p) + i) - Len(p) = i
    BY <1>0
  <1> QED
    BY <1>1, <1>2, <1>3

\* Where the parts of w are.
IsFour(w, p, q, u, v) ==
    /\ w = [i \in 1 .. Len(p) + Len(q) + Len(u) + Len(v) |-> w[i]]
    /\ \A i \in 1 .. Len(p) : w[i] = p[i]
    /\ \A i \in 1 .. Len(q) : w[Len(p) + i] = q[i]
    /\ \A i \in 1 .. Len(u) : w[Len(p) + Len(q) + i] = u[i]
    /\ \A i \in 1 .. Len(v) : w[Len(p) + Len(q) + Len(u) + i] = v[i]

\* Four sequences that are joined have the four parts.
LEMMA FourJoined == \A S : \A p, q, u, v \in Seq(S) : IsFour(p \o q \o u \o v, p, q, u, v)
  <1> TAKE S
  <1> TAKE p, q, u, v \in Seq(S)
  <1> DEFINE x == p \o q
             y == x \o u
             w == y \o v
  <1>0. Len(p) \in Nat /\ Len(q) \in Nat /\ Len(u) \in Nat /\ Len(v) \in Nat
    BY LenProperties
  <1>1. /\ x \in Seq(S) /\ Len(x) = Len(p) + Len(q)
        /\ \A i \in 1 .. Len(p) : x[i] = p[i]
        /\ \A i \in 1 .. Len(q) : x[Len(p) + i] = q[i]
    BY Joined
  <1> HIDE DEF x
  <1>2. x \in Seq(S)
    BY <1>1
  <1>3. /\ y \in Seq(S) /\ Len(y) = Len(x) + Len(u)
        /\ \A i \in 1 .. Len(x) : y[i] = x[i]
        /\ \A i \in 1 .. Len(u) : y[Len(x) + i] = u[i]
    BY <1>2, Joined
  <1> HIDE DEF y
  <1>4. y \in Seq(S)
    BY <1>3
  <1>5. /\ w \in Seq(S) /\ Len(w) = Len(y) + Len(v)
        /\ \A i \in 1 .. Len(y) : w[i] = y[i]
        /\ \A i \in 1 .. Len(v) : w[Len(y) + i] = v[i]
    BY <1>4, Joined
  <1> HIDE DEF w
  <1>6. w = [i \in 1 .. Len(p) + Len(q) + Len(u) + Len(v) |-> w[i]]
    <2>1. Len(w) = Len(p) + Len(q) + Len(u) + Len(v)
      BY <1>0, <1>1, <1>3, <1>5
    <2> QED
      BY <1>5, <2>1, LenProperties
  <1>7. /\ \A i \in 1 .. Len(p) : i \in 1 .. Len(x) /\ i \in 1 .. Len(y)
        /\ \A i \in 1 .. Len(q) : Len(p) + i \in 1 .. Len(x) /\ Len(p) + i \in 1 .. Len(y)
        /\ \A i \in 1 .. Len(u) : Len(p) + Len(q) + i = Len(x) + i /\ Len(x) + i \in 1 .. Len(y)
        /\ \A i \in 1 .. Len(v) : Len(p) + Len(q) + Len(u) + i = Len(y) + i
    BY <1>0, <1>1, <1>3
  <1>8. \A i \in 1 .. Len(p) : w[i] = p[i]
    BY <1>1, <1>3, <1>5, <1>7
  <1>9. \A i \in 1 .. Len(q) : w[Len(p) + i] = q[i]
    BY <1>1, <1>3, <1>5, <1>7
  <1>10. \A i \in 1 .. Len(u) : w[Len(p) + Len(q) + i] = u[i]
    BY <1>3, <1>5, <1>7
  <1>11. \A i \in 1 .. Len(v) : w[Len(p) + Len(q) + Len(u) + i] = v[i]
    BY <1>5, <1>7
  <1> QED
    BY <1>6, <1>8, <1>9, <1>10, <1>11 DEF w, y, x, IsFour

\* p is the part of r after m that has length k.
IsPart(p, S, r, m, k) == p \in Seq(S) /\ Len(p) = k /\ \A i \in 1 .. k : p[i] = r[m + i]

\* A part of a sequence, given how long it is.
LEMMA PartOf ==
    \A S, r : \A m \in Int, k \in Nat, a, b \in Int :
        a = m + 1 /\ b = m + k /\ (\A i \in 1 .. k : r[m + i] \in S) => IsPart(SubSeq(r, a, b), S, r, m, k)
  <1> SUFFICES ASSUME NEW S, NEW r, NEW m \in Int, NEW k \in Nat, NEW a \in Int, NEW b \in Int,
                      a = m + 1, b = m + k, \A i \in 1 .. k : r[m + i] \in S
               PROVE  IsPart(SubSeq(r, a, b), S, r, m, k)
    OBVIOUS
  <1>1. a \in Int /\ b \in Int /\ b - a + 1 = k /\ (a <= b <=> 1 <= k)
    OBVIOUS
  <1>2. \A i \in a .. b : r[i] \in S
    <2>1. \A i \in a .. b : i - m \in 1 .. k /\ m + (i - m) = i
      OBVIOUS
    <2> QED
      BY <2>1
  <1>3. \A i \in 1 .. k : a + i - 1 = m + i
    OBVIOUS
  <1>4. /\ SubSeq(r, a, b) \in Seq(S)
        /\ Len(SubSeq(r, a, b)) = IF a <= b THEN b - a + 1 ELSE 0
        /\ \A i \in 1 .. b - a + 1 : SubSeq(r, a, b)[i] = r[a + i - 1]
    BY <1>1, <1>2, SubSeqProperties
  <1>5. Len(SubSeq(r, a, b)) = k
    BY <1>1, <1>4
  <1> QED
    BY <1>1, <1>3, <1>4, <1>5 DEF IsPart

\* Up and Down of Screen are these.
LEMMA RowsAreViews ==
    ASSUME NEW r \in Screenfuls, NEW t \in Int, NEW b \in Int, NEW n \in Int,
           0 <= t, 0 <= n, t + n <= b, b <= Lines
    PROVE  Seen!Up(r, t, b, n) = UpView(r, t, b, n) /\ Seen!Down(r, t, b, n) = DownView(r, t, b, n)
  <1> DEFINE S == [1 .. Cols -> Cells]
             p == SubSeq(r, 1, t)
             q == SubSeq(r, b + 1, Lines)
             u == SubSeq(r, t + n + 1, b)
             d == SubSeq(r, t + 1, b - n)
             z == Seen!BlankRows(n)
  <1>1. Lines \in Nat /\ (\A l \in 1 .. Lines : r[l] \in S) /\ Seen!BlankRow \in S
    BY Sizes DEF Screenfuls, Seen!BlankRow, Cells
  <1>2. PICK k \in Nat, e \in Nat : k = b - t - n /\ e = Lines - b
    <2>1. b - t - n \in Nat /\ Lines - b \in Nat
      BY <1>1
    <2> QED
      BY <2>1, Zenon
  <1>3. t \in Nat /\ n \in Nat /\ Lines = t + k + n + e /\ Lines = t + n + k + e /\ b = t + n + k
    BY <1>2, <1>1
  <1>4. p \in Seq(S) /\ Len(p) = t /\ \A i \in 1 .. t : p[i] = r[i]
    <2>1. \A i \in 1 .. t : r[0 + i] \in S /\ 0 + i = i
      BY <1>1
    <2>2. 0 \in Int /\ 1 \in Int /\ 1 = 0 + 1 /\ t = 0 + t
      OBVIOUS
    <2>3. IsPart(p, S, r, 0, t)
      BY <1>3, <2>1, <2>2, PartOf
    <2> QED
      BY <2>1, <2>3 DEF IsPart
  <1>5. q \in Seq(S) /\ Len(q) = e /\ \A i \in 1 .. e : q[i] = r[b + i]
    <2>1. \A i \in 1 .. e : r[b + i] \in S
      BY <1>1, <1>2, <1>3
    <2>2. Lines = b + e /\ Lines \in Int /\ b + 1 \in Int
      BY <1>1, <1>2
    <2>3. IsPart(q, S, r, b, e)
      BY <2>1, <2>2, PartOf
    <2> QED
      BY <2>3 DEF IsPart
  <1>6. u \in Seq(S) /\ Len(u) = k /\ \A i \in 1 .. k : u[i] = r[t + n + i]
    <2>1. \A i \in 1 .. k : r[t + n + i] \in S
      BY <1>1, <1>3
    <2>2. t + n \in Int /\ t + n + 1 \in Int /\ b = t + n + k
      BY <1>3
    <2>3. IsPart(u, S, r, t + n, k)
      BY <2>1, <2>2, PartOf
    <2> QED
      BY <2>3 DEF IsPart
  <1>7. d \in Seq(S) /\ Len(d) = k /\ \A i \in 1 .. k : d[i] = r[t + i]
    <2>1. \A i \in 1 .. k : r[t + i] \in S
      BY <1>1, <1>3
    <2>2. b - n = t + k /\ b - n \in Int /\ t + 1 \in Int
      BY <1>3
    <2>3. IsPart(d, S, r, t, k)
      BY <2>1, <2>2, PartOf
    <2> QED
      BY <2>3 DEF IsPart
  <1>8. z \in Seq(S) /\ Len(z) = n /\ \A i \in 1 .. n : z[i] = Seen!BlankRow
    BY <1>1, <1>3 DEF Seen!BlankRows
  <1>9. Seen!Up(r, t, b, n) = p \o u \o z \o q /\ Seen!Down(r, t, b, n) = p \o z \o d \o q
    BY DEF Seen!Up, Seen!Down
  <1> HIDE DEF p, q, u, d, z, S
  <1>10. p \o u \o z \o q = UpView(r, t, b, n)
    <2> DEFINE w == p \o u \o z \o q
    <2>0. p \in Seq(S) /\ u \in Seq(S) /\ z \in Seq(S) /\ q \in Seq(S)
      BY <1>4, <1>5, <1>6, <1>8
    <2>a. IsFour(w, p, u, z, q)
      BY <2>0, FourJoined
    <2> HIDE DEF w
    <2>1.          /\ w = [i \in 1 .. t + k + n + e |-> w[i]]
                   /\ \A i \in 1 .. t : w[i] = p[i]
                   /\ \A i \in 1 .. k : w[t + i] = u[i]
                   /\ \A i \in 1 .. n : w[t + k + i] = z[i]
                   /\ \A i \in 1 .. e : w[t + k + n + i] = q[i]
      BY <2>a, <1>4, <1>5, <1>6, <1>8 DEF IsFour
    <2>2. ASSUME NEW l \in 1 .. Lines PROVE w[l] = UpView(r, t, b, n)[l]
      <3>0. UpView(r, t, b, n)[l] =
               IF l <= t \/ l > b THEN r[l] ELSE IF l <= b - n THEN r[l + n] ELSE Seen!BlankRow
        BY DEF UpView
      <3>1. CASE l <= t
        <4>1. l \in 1 .. t
          BY <3>1, <1>3
        <4> QED
          BY <3>0, <3>1, <4>1, <1>4, <2>1
      <3>2. CASE l > t /\ l <= t + k
        <4>1. PICK i \in 1 .. k : l = t + i
          <5>1. l - t \in 1 .. k /\ l = t + (l - t)
            BY <3>2
          <5> QED
            BY <5>1
        <4>2. ~(l <= t \/ l > b) /\ l <= b - n /\ l + n = t + n + i
          BY <1>3, <3>2, <4>1
        <4> QED
          BY <3>0, <4>1, <4>2, <1>6, <2>1
      <3>3. CASE l > t + k /\ l <= t + k + n
        <4>1. PICK i \in 1 .. n : l = t + k + i
          <5>1. l - (t + k) \in 1 .. n /\ l = t + k + (l - (t + k))
            BY <3>3
          <5> QED
            BY <5>1
        <4>2. ~(l <= t \/ l > b) /\ ~(l <= b - n)
          BY <1>3, <3>3
        <4> QED
          BY <3>0, <4>1, <4>2, <1>8, <2>1
      <3>4. CASE l > t + k + n
        <4>1. PICK i \in 1 .. e : l = t + k + n + i
          <5>1. l - (t + k + n) \in 1 .. e /\ l = t + k + n + (l - (t + k + n))
            BY <1>3, <3>4
          <5> QED
            BY <5>1
        <4>2. l > b /\ l = b + i
          BY <1>3, <3>4, <4>1
        <4>3. w[t + k + n + i] = q[i] /\ q[i] = r[b + i]
          BY <1>5, <2>1
        <4> QED
          BY <3>0, <4>1, <4>2, <4>3
      <3> QED
        BY <3>1, <3>2, <3>3, <3>4
    <2>3. w = [l \in 1 .. Lines |-> w[l]]
      BY <1>3, <2>1
    <2>4. UpView(r, t, b, n) = [i \in 1 .. Lines |-> UpView(r, t, b, n)[i]]
      BY DEF UpView
    <2>5. w = UpView(r, t, b, n)
      BY <2>2, <2>3, <2>4
    <2> QED
      BY <2>5 DEF w
  <1>11. p \o z \o d \o q = DownView(r, t, b, n)
    <2> DEFINE w == p \o z \o d \o q
    <2>0. p \in Seq(S) /\ z \in Seq(S) /\ d \in Seq(S) /\ q \in Seq(S)
      BY <1>4, <1>5, <1>7, <1>8
    <2>a. IsFour(w, p, z, d, q)
      BY <2>0, FourJoined
    <2> HIDE DEF w
    <2>1.          /\ w = [i \in 1 .. t + n + k + e |-> w[i]]
                   /\ \A i \in 1 .. t : w[i] = p[i]
                   /\ \A i \in 1 .. n : w[t + i] = z[i]
                   /\ \A i \in 1 .. k : w[t + n + i] = d[i]
                   /\ \A i \in 1 .. e : w[t + n + k + i] = q[i]
      BY <2>a, <1>4, <1>5, <1>7, <1>8 DEF IsFour
    <2>2. ASSUME NEW l \in 1 .. Lines PROVE w[l] = DownView(r, t, b, n)[l]
      <3>0. DownView(r, t, b, n)[l] =
               IF l <= t \/ l > b THEN r[l] ELSE IF l <= t + n THEN Seen!BlankRow ELSE r[l - n]
        BY DEF DownView
      <3>1. CASE l <= t
        <4>1. l \in 1 .. t
          BY <3>1, <1>3
        <4> QED
          BY <3>0, <3>1, <4>1, <1>4, <2>1
      <3>2. CASE l > t /\ l <= t + n
        <4>1. PICK i \in 1 .. n : l = t + i
          <5>1. l - t \in 1 .. n /\ l = t + (l - t)
            BY <3>2
          <5> QED
            BY <5>1
        <4>2. ~(l <= t \/ l > b) /\ l <= t + n
          BY <1>3, <3>2
        <4> QED
          BY <3>0, <4>1, <4>2, <1>8, <2>1
      <3>3. CASE l > t + n /\ l <= t + n + k
        <4>1. PICK i \in 1 .. k : l = t + n + i
          <5>1. l - (t + n) \in 1 .. k /\ l = t + n + (l - (t + n))
            BY <3>3
          <5> QED
            BY <5>1
        <4>2. ~(l <= t \/ l > b) /\ ~(l <= t + n) /\ l - n = t + i
          BY <1>3, <3>3, <4>1
        <4> QED
          BY <3>0, <4>1, <4>2, <1>7, <2>1
      <3>4. CASE l > t + n + k
        <4>1. PICK i \in 1 .. e : l = t + n + k + i
          <5>1. l - (t + n + k) \in 1 .. e /\ l = t + n + k + (l - (t + n + k))
            BY <1>3, <3>4
          <5> QED
            BY <5>1
        <4>2. l > b /\ l = b + i
          BY <1>3, <3>4, <4>1
        <4>3. w[t + n + k + i] = q[i] /\ q[i] = r[b + i]
          BY <1>5, <2>1
        <4> QED
          BY <3>0, <4>1, <4>2, <4>3
      <3> QED
        BY <3>1, <3>2, <3>3, <3>4
    <2>3. w = [l \in 1 .. Lines |-> w[l]]
      BY <1>3, <2>1
    <2>4. DownView(r, t, b, n) = [i \in 1 .. Lines |-> DownView(r, t, b, n)[i]]
      BY DEF DownView
    <2>5. w = DownView(r, t, b, n)
      BY <2>2, <2>3, <2>4
    <2> QED
      BY <2>5 DEF w
  <1> QED
    BY <1>9, <1>10, <1>11

\* A blank line, and a screen that has lost or got some lines.
LEMMA ViewTypes ==
    ASSUME NEW r \in Screenfuls, NEW t \in Int, NEW b \in Int, NEW n \in Int, 0 <= t, 0 <= n, b <= Lines
    PROVE  /\ Seen!BlankRow \in [1 .. Cols -> Cells]
           /\ UpView(r, t, b, n) \in Screenfuls /\ DownView(r, t, b, n) \in Screenfuls
  <1>1. Seen!BlankRow \in [1 .. Cols -> Cells]
    BY DEF Seen!BlankRow, Cells
  <1>2. Lines \in Int
    BY Sizes
  <1>3. ASSUME NEW l \in 1 .. Lines
        PROVE  /\ ~(l <= t \/ l > b) /\ l <= b - n => l + n \in 1 .. Lines
               /\ ~(l <= t \/ l > b) /\ ~(l <= t + n) => l - n \in 1 .. Lines
    BY <1>2
  <1>4. UpView(r, t, b, n) \in Screenfuls
    BY <1>1, <1>3 DEF UpView, Screenfuls
  <1>5. DownView(r, t, b, n) \in Screenfuls
    BY <1>1, <1>3 DEF DownView, Screenfuls
  <1> QED
    BY <1>1, <1>4, <1>5

\* The same screen, when lines have scrolled in the memory.
LEMMA RegionRows ==
    ASSUME NEW c, InWindow(c), NEW m, Inside(m), NEW t \in Int, NEW b \in Int, 0 <= t, t < b, b <= Lines
    PROVE  /\ RowsOf(c, RegionUp(c, m, t, b)) = UpView(RowsOf(c, m), t, b, 1)
           /\ RowsOf(c, scrdown(c, m, t, b)) = DownView(RowsOf(c, m), t, b, 1)
  <1> DEFINE up == RegionUp(c, m, t, b)
             dn == scrdown(c, m, t, b)
             r == RowsOf(c, m)
  <1>1. m \in Memories /\ up \in Memories /\ dn \in Memories
    BY RegionUpInside DEF Inside
  <1>2. r \in Screenfuls /\ RowsOf(c, up) \in Screenfuls /\ RowsOf(c, dn) \in Screenfuls
    BY <1>1, SeenCell
  <1>3. UpView(r, t, b, 1) \in Screenfuls /\ DownView(r, t, b, 1) \in Screenfuls
    <2>1. 1 \in Int /\ 0 <= 1
      OBVIOUS
    <2> QED
      BY <1>2, <2>1, ViewTypes
  <1>4. ASSUME NEW l \in 1 .. Lines, NEW k \in 1 .. Cols
        PROVE  /\ RowsOf(c, up)[l][k] = UpView(r, t, b, 1)[l][k]
               /\ RowsOf(c, dn)[l][k] = DownView(r, t, b, 1)[l][k]
    <2>1. PICK y \in 0 .. Lines - 1, x \in 0 .. Cols - 1 : y = l - 1 /\ x = k - 1
      BY Sizes
    <2>2. /\ RowsOf(c, up)[l][k] = up[Addr(c, y, x)]
          /\ RowsOf(c, dn)[l][k] = dn[Addr(c, y, x)]
          /\ r[l][k] = m[Addr(c, y, x)]
      BY <1>1, <2>1, SeenCell
    <2>3. /\ up[Addr(c, y, x)] = IF y < t \/ y >= b THEN m[Addr(c, y, x)]
                                 ELSE IF y = b - 1 THEN Blank ELSE m[Addr(c, y + 1, x)]
          /\ dn[Addr(c, y, x)] = IF y < t \/ y >= b THEN m[Addr(c, y, x)]
                                 ELSE IF y = t THEN Blank ELSE m[Addr(c, y - 1, x)]
      BY <1>1, RegionCells
    <2>4. Seen!BlankRow[k] = Blank
      BY DEF Seen!BlankRow
    <2>5. Lines \in Int /\ Cols \in Int /\ y = l - 1 /\ l \in Int
      BY Sizes, <2>1
    <2>6. UpView(r, t, b, 1)[l][k] = IF l <= t \/ l > b THEN r[l][k]
                                     ELSE IF l <= b - 1 THEN r[l + 1][k] ELSE Blank
      BY <2>4 DEF UpView
    <2>7. DownView(r, t, b, 1)[l][k] = IF l <= t \/ l > b THEN r[l][k]
                                       ELSE IF l <= t + 1 THEN Blank ELSE r[l - 1][k]
      BY <2>4 DEF DownView
    <2>8. ~(l <= t \/ l > b) /\ l <= b - 1 => r[l + 1][k] = m[Addr(c, y + 1, x)]
      <3>1. SUFFICES ASSUME l <= b - 1 PROVE r[l + 1][k] = m[Addr(c, y + 1, x)]
        OBVIOUS
      <3>2. l + 1 \in 1 .. Lines /\ (l + 1) - 1 = y + 1
        BY <2>5, <3>1
      <3> QED
        BY <1>1, <2>1, <3>2, SeenCell
    <2>9. ~(l <= t \/ l > b) /\ ~(l <= t + 1) => r[l - 1][k] = m[Addr(c, y - 1, x)]
      <3>1. SUFFICES ASSUME ~(l <= t + 1) PROVE r[l - 1][k] = m[Addr(c, y - 1, x)]
        OBVIOUS
      <3>2. l - 1 \in 1 .. Lines /\ (l - 1) - 1 = y - 1
        BY <2>5, <3>1
      <3> QED
        BY <1>1, <2>1, <3>2, SeenCell
    <2>10. (y < t \/ y >= b <=> l <= t \/ l > b)
      BY <2>5
    <2>11. ~(l <= t \/ l > b) => (y = b - 1 <=> ~(l <= b - 1)) /\ (y = t <=> l <= t + 1)
      BY <2>5
    <2> QED
      BY <2>2, <2>3, <2>6, <2>7, <2>8, <2>9, <2>10, <2>11
  <1> HIDE DEF up, dn, r
  <1>5. RowsOf(c, up) = UpView(r, t, b, 1)
    BY <1>2, <1>3, <1>4, SameRows
  <1>6. RowsOf(c, dn) = DownView(r, t, b, 1)
    BY <1>2, <1>3, <1>4, SameRows
  <1> QED
    BY <1>5, <1>6 DEF up, dn, r

\* So is it when the window has gone on.
LEMMA WindowRows ==
    ASSUME NEW c, InWindow(c), NEW m, Inside(m)
    PROVE  LET w == WindowDown(c, m)
           IN  RowsOf(w.con, w.mem) = UpView(RowsOf(c, m), 0, Lines, 1) /\ w.con.y = c.y
  <1> DEFINE w == WindowDown(c, m)
             d == w.con
             v == w.mem
             r == RowsOf(c, m)
  <1>1. m \in Memories /\ v \in Memories /\ InWindow(d)
    BY WindowDownKeeps DEF Inside
  <1>2. r \in Screenfuls /\ RowsOf(d, v) \in Screenfuls
    BY <1>1, SeenCell
  <1>3. UpView(r, 0, Lines, 1) \in Screenfuls
    <2>1. 1 \in Int /\ 0 <= 1 /\ 0 \in Int /\ 0 <= 0 /\ Lines \in Int /\ Lines <= Lines
      BY Sizes
    <2> QED
      BY <1>2, <2>1, ViewTypes
  <1>4. ASSUME NEW l \in 1 .. Lines, NEW k \in 1 .. Cols
        PROVE  RowsOf(d, v)[l][k] = UpView(r, 0, Lines, 1)[l][k]
    <2>1. PICK y \in 0 .. Lines - 1, x \in 0 .. Cols - 1 : y = l - 1 /\ x = k - 1
      BY Sizes
    <2>2. RowsOf(d, v)[l][k] = v[Addr(d, y, x)]
      BY <1>1, <2>1, SeenCell
    <2>3. v[Addr(d, y, x)] = IF y = Lines - 1 THEN Blank ELSE m[Addr(c, y + 1, x)]
      BY <1>1, WindowCells
    <2>4. Seen!BlankRow[k] = Blank
      BY DEF Seen!BlankRow
    <2>5. Lines \in Int /\ Cols \in Int /\ y = l - 1 /\ l \in Int /\ l >= 1 /\ l <= Lines
      BY Sizes, <2>1
    <2>6. UpView(r, 0, Lines, 1)[l][k] = IF l <= Lines - 1 THEN r[l + 1][k] ELSE Blank
      <3>1. ~(l <= 0 \/ l > Lines)
        BY <2>5
      <3> QED
        BY <2>4, <3>1 DEF UpView
    <2>7. l <= Lines - 1 => r[l + 1][k] = m[Addr(c, y + 1, x)]
      <3>1. SUFFICES ASSUME l <= Lines - 1 PROVE r[l + 1][k] = m[Addr(c, y + 1, x)]
        OBVIOUS
      <3>2. l + 1 \in 1 .. Lines /\ (l + 1) - 1 = y + 1
        BY <2>5, <3>1
      <3> QED
        BY <1>1, <2>1, <3>2, SeenCell
    <2>8. y = Lines - 1 <=> ~(l <= Lines - 1)
      BY <2>5
    <2> QED
      BY <2>2, <2>3, <2>6, <2>7, <2>8
  <1>5. d.y = c.y
    BY CursorPlace DEF WindowDown, Cursors
  <1> HIDE DEF d, v, r
  <1>6. RowsOf(d, v) = UpView(r, 0, Lines, 1)
    BY <1>2, <1>3, <1>4, SameRows
  <1> QED
    BY <1>5, <1>6 DEF d, v, r

\* scrup(), as it is seen.
LEMMA ScrupRows ==
    ASSUME NEW c, InWindow(c), NEW m, Inside(m), NEW t \in Int, NEW b \in Int, 0 <= t, t < b, b <= Lines
    PROVE  LET w == scrup(c, m, t, b)
           IN  RowsOf(w.con, w.mem) = UpView(RowsOf(c, m), t, b, 1) /\ w.con.y = c.y
  BY RegionRows, WindowRows DEF scrup

\* What is seen depends on where the window begins.
LEMMA SameWindow == \A c, d, m : c.origin = d.origin => RowsOf(c, m) = RowsOf(d, m)
  BY DEF RowsOf

\* A line feed, as it is seen.
LEMMA LfRows ==
    ASSUME NEW c, InWindow(c), NEW m, Inside(m), Scrolls
    PROVE  LET w == lf(c, m)
               r == RowsOf(c, m)
           IN  /\ c.y + 1 < bottom => w.con.y = c.y + 1 /\ RowsOf(w.con, w.mem) = r
               /\ ~(c.y + 1 < bottom) => w.con.y = c.y /\ RowsOf(w.con, w.mem) = UpView(r, top, bottom, 1)
  <1>1. CASE c.y + 1 < bottom
    <2> DEFINE d == [c EXCEPT !.y = c.y + 1, !.pos = c.pos + Cols]
    <2>1. lf(c, m) = [con |-> d, mem |-> m]
      BY <1>1 DEF lf
    <2>2. c \in Cursors
      BY CursorPlace
    <2>3. d.origin = c.origin /\ d.y = c.y + 1
      BY <2>2 DEF Cursors
    <2> HIDE DEF d
    <2> QED
      BY <1>1, <2>1, <2>3, SameWindow
  <1>2. CASE ~(c.y + 1 < bottom)
    BY <1>2, ScrupRows DEF lf, Scrolls
  <1> QED
    BY <1>1, <1>2

\* A cursor past the last column that goes on in the next line, as it is seen.
LEMMA WrappedRows ==
    ASSUME NEW c, InWindow(c), Inside(mem), Scrolls
    PROVE  LET w == Wrapped(c)
               r == RowsOf(c, mem)
           IN  /\ c.x >= Cols /\ c.y + 1 < bottom => w.con.y = c.y + 1 /\ RowsOf(w.con, w.mem) = r
               /\ c.x >= Cols /\ ~(c.y + 1 < bottom) =>
                      w.con.y = c.y /\ RowsOf(w.con, w.mem) = UpView(r, top, bottom, 1)
               /\ ~(c.x >= Cols) => w.con = c /\ w.mem = mem
  <1>1. CASE c.x >= Cols
    <2> DEFINE d == [c EXCEPT !.x = @ - Cols, !.pos = @ - Cols]
    <2>1. Wrapped(c) = lf(d, mem)
      BY <1>1 DEF Wrapped
    <2>2. c.pos \in Int /\ c.x \in Int /\ Cols \in Int /\ c \in Cursors
      BY CursorPlace
    <2>3. PICK n \in Int : n = -Cols
      BY <2>2
    <2>4. d = [c EXCEPT !.x = c.x + n, !.pos = c.pos + n]
      BY <2>2, <2>3
    <2>5. d.y = c.y /\ d.origin = c.origin
      BY <2>2 DEF Cursors
    <2> HIDE DEF d
    <2>6. InWindow(d)
      BY <2>4, InLine, Zenon
    <2>7. RowsOf(d, mem) = RowsOf(c, mem)
      BY <2>5, SameWindow
    <2> QED
      BY <1>1, <2>1, <2>5, <2>6, <2>7, LfRows
  <1>2. CASE ~(c.x >= Cols)
    BY <1>2 DEF Wrapped
  <1> QED
    BY <1>1, <1>2

\* A store in a cell, as it is seen.
LEMMA StoreRows ==
    ASSUME NEW c, InWindow(c), NEW m \in Memories, NEW l \in 0 .. Lines - 1, NEW k \in 0 .. Cols - 1, NEW v \in Cells
    PROVE  /\ [m EXCEPT ![Addr(c, l, k)] = v] \in Memories
           /\ RowsOf(c, [m EXCEPT ![Addr(c, l, k)] = v]) = [RowsOf(c, m) EXCEPT ![l + 1][k + 1] = v]
  <1> DEFINE i == Addr(c, l, k)
             n == [m EXCEPT ![i] = v]
             r == RowsOf(c, m)
             s == [r EXCEPT ![l + 1][k + 1] = v]
  <1>1. i \in Memory /\ n \in Memories /\ r \in Screenfuls /\ RowsOf(c, n) \in Screenfuls
    <2>1. i \in Memory
      BY CellIn
    <2>2. n \in Memories
      BY DEF Memories
    <2> QED
      BY <2>1, <2>2, SeenCell
  <1>2. PICK a \in 1 .. Lines, b \in 1 .. Cols : a = l + 1 /\ b = k + 1
    BY Sizes
  <1>3. \A z \in Memory : n[z] = IF z = i THEN v ELSE m[z]
    BY <1>1 DEF Memories
  <1>4. s = [r EXCEPT ![a][b] = v]
    BY <1>2
  <1>5. s \in Screenfuls
    BY <1>1, <1>4 DEF Screenfuls
  <1> HIDE DEF n, r
  <1>6. ASSUME NEW y \in 1 .. Lines, NEW x \in 1 .. Cols
        PROVE  RowsOf(c, n)[y][x] = s[y][x]
    <2>1. PICK yy \in 0 .. Lines - 1, xx \in 0 .. Cols - 1 : yy = y - 1 /\ xx = x - 1
      BY Sizes
    <2>2. RowsOf(c, n)[y][x] = n[Addr(c, yy, xx)] /\ r[y][x] = m[Addr(c, yy, xx)]
      BY <1>1, <2>1, SeenCell DEF r
    <2>3. Addr(c, yy, xx) = i <=> yy = l /\ xx = k
      BY SameCell
    <2>4. yy = l /\ xx = k <=> y = a /\ x = b
      BY <1>2, <2>1
    <2>5. s[y][x] = IF y = a /\ x = b THEN v ELSE r[y][x]
      <3>1. r \in [1 .. Lines -> [1 .. Cols -> Cells]] /\ r[a] \in [1 .. Cols -> Cells]
        BY <1>1 DEF Screenfuls
      <3>2. s[y] = IF y = a THEN [r[a] EXCEPT ![b] = v] ELSE r[y]
        BY <1>4, <3>1
      <3>3. [r[a] EXCEPT ![b] = v][x] = IF x = b THEN v ELSE r[a][x]
        BY <3>1
      <3> QED
        BY <3>2, <3>3
    <2>6. Addr(c, yy, xx) \in Memory
      BY CellIn
    <2> QED
      BY <1>3, <2>2, <2>3, <2>4, <2>5, <2>6
  <1> HIDE DEF i, s
  <1>7. RowsOf(c, n) = s
    BY <1>1, <1>5, <1>6, SameRows
  <1> QED
    BY <1>1, <1>7 DEF i, n, r, s

\* Cells that become blank, as it is seen.
LEMMA FillRows ==
    ASSUME NEW c, InWindow(c), NEW m \in Memories, NEW at \in Int, NEW n \in Int
    PROVE  RowsOf(c, Fill(m, at, n)) =
               [l \in 1 .. Lines |-> [k \in 1 .. Cols |->
                   IF Addr(c, l - 1, k - 1) \in at .. at + n - 1 THEN Blank ELSE RowsOf(c, m)[l][k]]]
  <1> DEFINE f == Fill(m, at, n)
             r == RowsOf(c, m)
             s == [l \in 1 .. Lines |-> [k \in 1 .. Cols |->
                       IF Addr(c, l - 1, k - 1) \in at .. at + n - 1 THEN Blank ELSE r[l][k]]]
  <1>1. f \in Memories
    BY DEF Fill, Memories, Cells
  <1>2. r \in Screenfuls /\ RowsOf(c, f) \in Screenfuls
    BY <1>1, SeenCell
  <1>3. s \in Screenfuls
    BY <1>2 DEF Screenfuls, Cells
  <1>4. ASSUME NEW y \in 1 .. Lines, NEW x \in 1 .. Cols
        PROVE  RowsOf(c, f)[y][x] = s[y][x]
    <2>1. PICK yy \in 0 .. Lines - 1, xx \in 0 .. Cols - 1 : yy = y - 1 /\ xx = x - 1
      BY Sizes
    <2>2. RowsOf(c, f)[y][x] = f[Addr(c, yy, xx)] /\ r[y][x] = m[Addr(c, yy, xx)]
      BY <1>1, <2>1, SeenCell
    <2>3. Addr(c, yy, xx) \in Memory
      BY CellIn
    <2>4. f[Addr(c, yy, xx)] = IF Addr(c, yy, xx) \in at .. at + n - 1 THEN Blank ELSE m[Addr(c, yy, xx)]
      BY <2>3 DEF Fill
    <2>5. s[y][x] = IF Addr(c, yy, xx) \in at .. at + n - 1 THEN Blank ELSE r[y][x]
      BY <2>1
    <2> QED
      BY <2>2, <2>4, <2>5
  <1> HIDE DEF f, r, s
  <1>5. RowsOf(c, f) = s
    BY <1>2, <1>3, <1>4, SameRows
  <1> QED
    BY <1>5 DEF f, r, s

-----------------------------------------------------------------------------
(* The actions, as they are seen. *)

\* What becomes of the screen, as it is seen.
LEMMA BecomesSeen ==
    ASSUME NEW s, Becomes(s)
    PROVE  /\ con' = s.con /\ mem' = s.mem /\ RowsOf(con', mem') = RowsOf(s.con, s.mem)
           /\ top' = top /\ bottom' = bottom
  BY DEF Becomes

\* No change is seen.
LEMMA NothingSeen ==
    ASSUME RowsOf(con', mem') = RowsOf(con, mem), con'.x = con.x, con'.y = con.y, top' = top, bottom' = bottom
    PROVE  UNCHANGED Seen!seen
  BY DEF Seen!seen, RowsOf

\* A character goes where the cursor is, or to the start of the next line.
LEMMA PutCharSeen ==
    ASSUME ConInv, NEW char \in Chars, PutChar(char)
    PROVE  Seen!PutChar(char)
  <1> DEFINE w == Wrapped(con)
             d == [w.con EXCEPT !.pos = @ + 1, !.x = @ + 1]
             m == [w.mem EXCEPT ![w.con.pos] = char]
             r == RowsOf(con, mem)
  <1>1. Becomes([con |-> d, mem |-> m])
    BY DEF PutChar
  <1>2. /\ InWindow(con) /\ Inside(mem) /\ Scrolls /\ con.x \in 0 .. Cols /\ con.y \in 0 .. Lines - 1
    BY DEF ConInv, OnLine, InWindow
  <1>3. /\ InWindow(w.con) /\ Inside(w.mem)
        /\ w.con.x = IF con.x >= Cols THEN con.x - Cols ELSE con.x
    BY <1>2, WrappedKeeps
  <1>4. /\ con.x >= Cols /\ con.y + 1 < bottom => w.con.y = con.y + 1 /\ RowsOf(w.con, w.mem) = r
        /\ con.x >= Cols /\ ~(con.y + 1 < bottom) =>
               w.con.y = con.y /\ RowsOf(w.con, w.mem) = UpView(r, top, bottom, 1)
        /\ ~(con.x >= Cols) => w.con = con /\ w.mem = mem
    BY <1>2, WrappedRows
  <1> HIDE DEF w, r
  <1>5. d.origin = w.con.origin /\ d.x = w.con.x + 1 /\ d.y = w.con.y
    <2>1. w.con \in Cursors
      BY <1>3 DEF InWindow
    <2> QED
      BY <2>1 DEF Cursors
  <1> HIDE DEF d
  <1>6. w.con.x \in 0 .. Cols - 1 /\ w.con.y \in 0 .. Lines - 1 /\ w.con.pos = Addr(w.con, w.con.y, w.con.x)
    BY <1>2, <1>3, Sizes DEF InWindow, Addr
  <1>7. RowsOf(w.con, m) = [RowsOf(w.con, w.mem) EXCEPT ![w.con.y + 1][w.con.x + 1] = char]
    <2>1. char \in Cells /\ w.mem \in Memories
      BY <1>3 DEF Cells, Inside
    <2> QED
      BY <1>3, <1>6, <2>1, StoreRows
  <1> HIDE DEF m
  <1>8. /\ con'.x = w.con.x + 1 /\ con'.y = w.con.y
        /\ RowsOf(con', mem') = [RowsOf(w.con, w.mem) EXCEPT ![w.con.y + 1][w.con.x + 1] = char]
        /\ top' = top /\ bottom' = bottom
    <2>1. RowsOf(d, m) = RowsOf(w.con, m)
      BY <1>5, SameWindow
    <2> QED
      BY <1>1, <1>5, <1>7, <2>1, BecomesSeen
  <1>9. Seen!Up(r, top, bottom, 1) = UpView(r, top, bottom, 1)
    <2>1. r \in Screenfuls
      BY <1>2, SeenCell DEF r, Inside
    <2>2. 1 \in Int /\ 0 <= 1 /\ top + 1 <= bottom
      BY <1>2 DEF Scrolls
    <2> QED
      BY <1>2, <2>1, <2>2, RowsAreViews DEF Scrolls
  <1>10. CASE con.x < Cols
    <2>1. ~(con.x >= Cols)
      BY <1>2, <1>10, Sizes
    <2>2. con'.x = con.x + 1 /\ con'.y = con.y /\ RowsOf(con', mem') = [r EXCEPT ![con.y + 1][con.x + 1] = char]
      BY <1>4, <1>8, <2>1 DEF r
    <2> QED
      BY <1>8, <1>10, <2>2 DEF Seen!PutChar, Seen!Region, RowsOf, r
  <1>11. CASE ~(con.x < Cols)
    <2>1. con.x >= Cols /\ con.x = Cols /\ w.con.x = 0 /\ 0 + 1 = 1
      BY <1>2, <1>3, <1>11, Sizes
    <2>2. con'.x = 1 /\ con'.y = w.con.y /\ RowsOf(con', mem') = [RowsOf(w.con, w.mem) EXCEPT ![con'.y + 1][1] = char]
      BY <1>8, <2>1
    <2>3. CASE con.y + 1 < bottom
      <3>1. con'.x = 1 /\ con'.y = con.y + 1 /\ RowsOf(con', mem') = [r EXCEPT ![con'.y + 1][1] = char]
        BY <1>4, <2>1, <2>2, <2>3
      <3> QED
        BY <1>8, <1>11, <2>3, <3>1 DEF Seen!PutChar, Seen!Region, RowsOf, r
    <2>4. CASE ~(con.y + 1 < bottom)
      <3>1. /\ con'.x = 1 /\ con'.y = con.y
            /\ RowsOf(con', mem') = [Seen!Up(r, top, bottom, 1) EXCEPT ![con'.y + 1][1] = char]
        BY <1>4, <1>9, <2>1, <2>2, <2>4
      <3> QED
        BY <1>8, <1>11, <2>4, <3>1 DEF Seen!PutChar, Seen!Region, RowsOf, r
    <2> QED
      BY <2>3, <2>4
  <1> QED
    BY <1>10, <1>11

\* To the next line: the rows of a line feed.
LEMMA FeedSeen ==
    ASSUME ConInv, RowsOf(con', mem') = IF con.y + 1 < bottom THEN RowsOf(con, mem)
                                        ELSE UpView(RowsOf(con, mem), top, bottom, 1),
           con'.y = IF con.y + 1 < bottom THEN con.y + 1 ELSE con.y
    PROVE  Seen!NewLine(RowsOf(con, mem))
  <1> DEFINE r == RowsOf(con, mem)
  <1>1. Seen!Up(r, top, bottom, 1) = UpView(r, top, bottom, 1)
    <2>1. r \in Screenfuls
      BY SeenCell DEF Inside, ConInv, OnLine
    <2>2. 1 \in Int /\ 0 <= 1 /\ top + 1 <= bottom
      BY DEF Scrolls, ConInv
    <2> QED
      BY <2>1, <2>2, RowsAreViews DEF Scrolls, ConInv
  <1>2. /\ con.y + 1 < bottom => con'.y = con.y + 1 /\ RowsOf(con', mem') = r
        /\ ~(con.y + 1 < bottom) => con'.y = con.y /\ RowsOf(con', mem') = Seen!Up(r, top, bottom, 1)
    BY <1>1
  <1> QED
    BY <1>2 DEF Seen!NewLine, RowsOf

\* LF, VT and FF.
LEMMA LineFeedSeen ==
    ASSUME ConInv, LineFeed PROVE Seen!Feed
  <1> DEFINE w == lf(con, mem)
  <1>1. Becomes(w)
    BY DEF LineFeed
  <1>2. InWindow(con) /\ Inside(mem) /\ Scrolls
    BY DEF ConInv, OnLine
  <1>3. w.con.x = con.x
    BY <1>2, LfKeeps
  <1>4. /\ con.y + 1 < bottom => w.con.y = con.y + 1 /\ RowsOf(w.con, w.mem) = RowsOf(con, mem)
        /\ ~(con.y + 1 < bottom) =>
               w.con.y = con.y /\ RowsOf(w.con, w.mem) = UpView(RowsOf(con, mem), top, bottom, 1)
    BY <1>2, LfRows
  <1> HIDE DEF w
  <1>5. /\ con'.x = con.x /\ con'.y = w.con.y /\ RowsOf(con', mem') = RowsOf(w.con, w.mem)
        /\ top' = top /\ bottom' = bottom
    BY <1>1, <1>3, BecomesSeen
  <1>6. Seen!NewLine(RowsOf(con, mem))
    BY <1>4, <1>5, FeedSeen
  <1> QED
    BY <1>5, <1>6 DEF Seen!Feed, Seen!NewLine, Seen!Region, RowsOf

\* ri().
LEMMA ReverseFeedSeen ==
    ASSUME ConInv, ReverseFeed PROVE Seen!ReverseFeed
  <1> DEFINE r == RowsOf(con, mem)
  <1>1. InWindow(con) /\ Inside(mem) /\ Scrolls /\ con \in Cursors
    BY DEF ConInv, OnLine, InWindow
  <1>2. CASE con.y > top
    <2> DEFINE d == [con EXCEPT !.y = @ - 1, !.pos = @ - Cols]
    <2>1. Becomes([con |-> d, mem |-> mem])
      BY <1>2 DEF ReverseFeed, Moves
    <2>2. d.origin = con.origin /\ d.x = con.x /\ d.y = con.y - 1
      BY <1>1 DEF Cursors
    <2> HIDE DEF d
    <2>3. /\ con'.x = con.x /\ con'.y = con.y - 1 /\ RowsOf(con', mem') = r /\ top' = top /\ bottom' = bottom
      BY <2>1, <2>2, BecomesSeen, SameWindow
    <2> QED
      BY <1>2, <2>3 DEF Seen!ReverseFeed, Seen!Region, RowsOf
  <1>3. CASE ~(con.y > top)
    <2>1. Becomes([con |-> con, mem |-> scrdown(con, mem, top, bottom)])
      BY <1>3 DEF ReverseFeed, Stores
    <2>2. RowsOf(con, scrdown(con, mem, top, bottom)) = DownView(r, top, bottom, 1)
      BY <1>1, RegionRows DEF Scrolls
    <2>3. Seen!Down(r, top, bottom, 1) = DownView(r, top, bottom, 1)
      <3>1. r \in Screenfuls
        BY <1>1, SeenCell DEF Inside
      <3>2. 1 \in Int /\ 0 <= 1 /\ top + 1 <= bottom
        BY <1>1 DEF Scrolls
      <3> QED
        BY <1>1, <3>1, <3>2, RowsAreViews DEF Scrolls
    <2>4. /\ con'.x = con.x /\ con'.y = con.y /\ RowsOf(con', mem') = Seen!Down(r, top, bottom, 1)
          /\ top' = top /\ bottom' = bottom
      BY <2>1, <2>2, <2>3, BecomesSeen
    <2> QED
      BY <1>3, <2>4 DEF Seen!ReverseFeed, Seen!Region, RowsOf
  <1> QED
    BY <1>2, <1>3

\* del().
LEMMA DelSeen ==
    ASSUME ConInv, Del PROVE Seen!Del
  <1> DEFINE d == [con EXCEPT !.pos = @ - 1, !.x = @ - 1]
             m == [mem EXCEPT ![con.pos - 1] = Blank]
             r == RowsOf(con, mem)
  <1>1. Becomes([con |-> d, mem |-> m]) /\ con.x > 0
    BY DEF Del
  <1>2. InWindow(con) /\ mem \in Memories /\ con \in Cursors /\ con.x \in 0 .. Cols /\ con.y \in 0 .. Lines - 1
    BY DEF ConInv, OnLine, InWindow, Inside
  <1>3. d.origin = con.origin /\ d.x = con.x - 1 /\ d.y = con.y
    BY <1>2 DEF Cursors
  <1> HIDE DEF d
  <1>4. PICK k \in 0 .. Cols - 1 : k = con.x - 1 /\ k + 1 = con.x
    BY <1>1, <1>2, Sizes
  <1>5. con.pos - 1 = Addr(con, con.y, k)
    <2>1. PICK ly \in Int : ly = con.y * Cols /\ con.pos = con.origin + ly + con.x
      BY <1>2, CursorPlace
    <2>2. con.origin \in Int /\ con.x \in Int
      BY <1>2, CursorPlace
    <2> QED
      BY <1>4, <2>1, <2>2 DEF Addr
  <1>6. RowsOf(con, m) = [r EXCEPT ![con.y + 1][con.x] = Blank]
    <2>1. Blank \in Cells
      BY DEF Cells
    <2> QED
      BY <1>2, <1>4, <1>5, <2>1, StoreRows
  <1> HIDE DEF m
  <1>7. /\ con'.x = con.x - 1 /\ con'.y = con.y /\ RowsOf(con', mem') = [r EXCEPT ![con.y + 1][con.x] = Blank]
        /\ top' = top /\ bottom' = bottom
    BY <1>1, <1>3, <1>6, BecomesSeen, SameWindow
  <1> QED
    BY <1>1, <1>7 DEF Seen!Del, Seen!Region, RowsOf

\* A move of the cursor alone.
LEMMA MovedSeen ==
    ASSUME ConInv, ConInv', NEW c, Moves(c), c.origin = con.origin
    PROVE  Seen!Goto
  <1>1. RowsOf(con', mem') = RowsOf(con, mem) /\ top' = top /\ bottom' = bottom
    BY BecomesSeen, SameWindow DEF Moves
  <1>2. con'.x \in 0 .. Cols /\ con'.y \in 0 .. Lines - 1
    BY DEF ConInv, OnLine, InWindow
  <1> QED
    BY <1>1, <1>2 DEF Seen!Goto, Seen!Region, RowsOf

\* cr() and backspace.
LEMMA BackSeen ==
    ASSUME ConInv, ConInv', CarriageReturn \/ Backspace PROVE Seen!Goto
  <1>1. con \in Cursors
    BY DEF ConInv, OnLine, InWindow
  <1>2. CASE CarriageReturn
    <2>1. [con EXCEPT !.pos = @ - con.x, !.x = 0].origin = con.origin
      BY <1>1 DEF Cursors
    <2> QED
      BY <1>2, <2>1, MovedSeen DEF CarriageReturn
  <1>3. CASE Backspace
    <2>1. [con EXCEPT !.pos = @ - 1, !.x = @ - 1].origin = con.origin
      BY <1>1 DEF Cursors
    <2> QED
      BY <1>3, <2>1, MovedSeen DEF Backspace
  <1> QED
    BY <1>2, <1>3

\* gotoxy() does not move the window.
LEMMA GotoSeen ==
    ASSUME ConInv, ConInv', NEW x, NEW y, Moves(gotoxy(con, x, y)) PROVE Seen!Goto
  <1>1. gotoxy(con, x, y).origin = con.origin
    BY DEF gotoxy, ConInv, OnLine, InWindow, Cursors
  <1> QED
    BY <1>1, MovedSeen

\* The sequences that are a gotoxy().
LEMMA GotoSequencesSeen ==
    ASSUME ConInv, ConInv', NEW p \in 0 .. Word - 1, NEW q \in 0 .. Word - 1,
           Goto(p) \/ GotoXY(p, q) \/ Restore
    PROVE  Seen!Goto
  <1>1. \E x, y : Moves(gotoxy(con, x, y))
    BY DEF Goto, GotoXY, Restore
  <1> QED
    BY <1>1, GotoSeen

\* CSI r.
LEMMA SetRegionSeen ==
    ASSUME ConInv, ConInv', NEW p \in 0 .. Word - 1, NEW q \in 0 .. Word - 1, SetRegion(p, q)
    PROVE  Seen!SetRegion
  <1>1. UNCHANGED <<con, mem>> /\ Scrolls'
    BY DEF SetRegion, ConInv
  <1>2. top' \in 0 .. Lines - 1 /\ bottom' \in top' + 1 .. Lines
    <2>1. top' \in Int /\ bottom' \in Int /\ 0 <= top' /\ top' < bottom' /\ bottom' <= Lines
      BY <1>1 DEF Scrolls
    <2>2. Lines \in Int
      BY Sizes
    <2>3. top' \in 0 .. Lines - 1
      BY <2>1, <2>2
    <2>4. \A t, b, n \in Int : 0 <= t /\ t < b /\ b <= n => t \in 0 .. n - 1 /\ b \in t + 1 .. n
      OBVIOUS
    <2> QED
      BY <2>1, <2>2, <2>4
  <1> QED
    BY <1>1, <1>2 DEF Seen!SetRegion

\* The next tab stop, from a column of the line and from the one past it.
LEMMA TabStops ==
    ASSUME NEW x \in 0 .. Cols
    PROVE  LET n == TabStop - (x % TabStop)
           IN  /\ n \in Int
               /\ x < Cols => x + n = TabStop * (x \div TabStop + 1) /\ x + n <= Cols
               /\ x = Cols => n = TabStop
  <1>1. TabStop \in Nat /\ TabStop > 0 /\ Cols \in Nat /\ Cols > 0 /\ Cols % TabStop = 0
    BY ConsoleAssumption DEF ConsoleAssumption
  <1>2. \A a \in Nat : /\ a \div TabStop \in Nat /\ a % TabStop \in 0 .. TabStop - 1
                       /\ a = TabStop * (a \div TabStop) + (a % TabStop)
    BY <1>1
  <1>3. PICK d \in Nat, m \in Nat, e \in Nat : d = x \div TabStop /\ m = x % TabStop /\ e = Cols \div TabStop
    BY <1>1, <1>2
  <1>4. x = TabStop * d + m /\ m < TabStop /\ Cols = TabStop * e
    <2>1. x \in Nat /\ Cols \in Nat
      BY <1>1
    <2>2. m \in 0 .. TabStop - 1 /\ x = TabStop * d + m
      BY <1>2, <1>3, <2>1
    <2>3. Cols = TabStop * e + (Cols % TabStop)
      BY <1>2, <1>3, <2>1
    <2>4. TabStop * e \in Int
      BY <1>1
    <2> QED
      BY <1>1, <2>2, <2>3, <2>4
  <1>5. TabStop * (d + 1) = TabStop * d + TabStop /\ TabStop * d \in Int
    BY <1>1
  <1>6. x < Cols => TabStop * (d + 1) <= Cols
    <2>1. SUFFICES ASSUME x < Cols, e < d + 1 PROVE FALSE
      <3>1. d + 1 <= e => TabStop * (d + 1) <= TabStop * e
        <4>1. SUFFICES ASSUME d + 1 <= e PROVE TabStop * (d + 1) <= TabStop * e
          OBVIOUS
        <4>2. PICK g \in Nat : e = (d + 1) + g
          <5>1. e - (d + 1) \in Nat /\ e = (d + 1) + (e - (d + 1))
            BY <4>1
          <5> QED
            BY <5>1
        <4>3. /\ TabStop * e = TabStop * (d + 1) + TabStop * g /\ TabStop * g >= 0
              /\ TabStop * (d + 1) \in Int /\ TabStop * g \in Int
          BY <1>1, <4>2
        <4> QED
          BY <4>3
      <3> QED
        BY <1>4, <3>1
    <2>2. PICK g \in Nat : d = e + g
      <3>1. d - e \in Nat /\ d = e + (d - e)
        BY <2>1
      <3> QED
        BY <3>1
    <2>3. TabStop * d = TabStop * e + TabStop * g /\ TabStop * g >= 0 /\ TabStop * e \in Int /\ TabStop * g \in Int
      BY <1>1, <2>2
    <2> QED
      BY <1>1, <1>4, <2>1, <2>3
  <1>7. x < Cols => x + (TabStop - m) = TabStop * (d + 1)
    BY <1>1, <1>4, <1>5
  <1> QED
    BY <1>1, <1>3, <1>6, <1>7

\* A tab, in a line and past its last column.
LEMMA TabSeen ==
    ASSUME ConInv, ConInv', Tab PROVE Seen!Tab
  <1>1. /\ con.x \in 0 .. Cols /\ Cols \in Int /\ con.x \in Int /\ TabStop \in Int /\ TabStop > 0
        /\ InWindow(con) /\ Inside(mem) /\ Scrolls /\ con \in Cursors
    BY Sizes DEF ConInv, OnLine, InWindow
  <1>2. PICK n \in Int : /\ n = TabStop - (con.x % TabStop)
                         /\ con.x < Cols => con.x + n = TabStop * (con.x \div TabStop + 1) /\ con.x + n <= Cols
                         /\ con.x = Cols => n = TabStop
    BY <1>1, TabStops
  <1> DEFINE t == [con EXCEPT !.x = con.x + n, !.pos = con.pos + n]
  <1>3. IF t.x > Cols THEN Becomes(Wrapped(t)) ELSE Moves(t)
    BY <1>2 DEF Tab
  <1>4. InWindow(t) /\ t.x = con.x + n /\ t.origin = con.origin /\ t.y = con.y
    BY <1>1, InLine DEF Cursors
  <1> HIDE DEF t
  <1>5. CASE con.x < Cols
    <2>1. Moves(t)
      BY <1>1, <1>2, <1>3, <1>4, <1>5
    <2>2. con' = t /\ RowsOf(con', mem') = RowsOf(con, mem) /\ top' = top /\ bottom' = bottom
      BY <1>4, <2>1, BecomesSeen, SameWindow DEF Moves
    <2>3. con'.x = TabStop * (con.x \div TabStop + 1) /\ con'.y = con.y
      BY <1>2, <1>4, <1>5, <2>2
    <2> QED
      BY <1>5, <2>2, <2>3 DEF Seen!Tab, Seen!Region, RowsOf
  <1>6. CASE ~(con.x < Cols)
    <2>1. con.x = Cols /\ t.x = Cols + TabStop /\ t.x > Cols /\ t.x >= Cols /\ t.x - Cols = TabStop
      <3>1. con.x = Cols
        BY <1>1, <1>6
      <3>2. n = TabStop
        BY <1>2, <3>1
      <3>3. t.x = Cols + TabStop
        BY <1>4, <3>1, <3>2
      <3> QED
        BY <1>1, <3>1, <3>3
    <2> DEFINE w == Wrapped(t)
    <2>2. Becomes(w)
      BY <1>3, <2>1
    <2>3. w.con.x = TabStop
      BY <1>1, <1>4, <2>1, WrappedKeeps
    <2>4. RowsOf(t, mem) = RowsOf(con, mem)
      BY <1>4, SameWindow
    <2>5. /\ con.y + 1 < bottom => w.con.y = con.y + 1 /\ RowsOf(w.con, w.mem) = RowsOf(con, mem)
          /\ ~(con.y + 1 < bottom) =>
                 w.con.y = con.y /\ RowsOf(w.con, w.mem) = UpView(RowsOf(con, mem), top, bottom, 1)
      BY <1>1, <1>4, <2>1, <2>4, WrappedRows
    <2> HIDE DEF w
    <2>6. /\ con'.x = TabStop /\ con'.y = w.con.y /\ RowsOf(con', mem') = RowsOf(w.con, w.mem)
          /\ top' = top /\ bottom' = bottom
      BY <2>2, <2>3, BecomesSeen
    <2>7. Seen!NewLine(RowsOf(con, mem))
      BY <2>5, <2>6, FeedSeen
    <2> QED
      BY <1>6, <2>6, <2>7 DEF Seen!Tab, Seen!NewLine, Seen!Region, RowsOf
  <1> QED
    BY <1>5, <1>6

\* What a store shows.
LEMMA StoresSeen ==
    ASSUME NEW m, Stores(m)
    PROVE  /\ RowsOf(con', mem') = RowsOf(con, m) /\ con' = con /\ top' = top /\ bottom' = bottom
           /\ con'.x = con.x /\ con'.y = con.y
  BY BecomesSeen DEF Stores

\* Rows in which the cells between two addresses are blank.
Blanked(from, to) ==
    [l \in 1 .. Lines |-> [k \in 1 .. Cols |->
        IF from <= Addr(con, l - 1, k - 1) /\ Addr(con, l - 1, k - 1) < to THEN Blank ELSE RowsOf(con, mem)[l][k]]]

\* The cells that a store makes blank.
LEMMA FillSeen ==
    ASSUME ConInv, NEW at \in Int, NEW n \in Int, Stores(Fill(mem, at, n))
    PROVE  RowsOf(con', mem') = Blanked(at, at + n)
  <1>1. InWindow(con) /\ mem \in Memories
    BY DEF ConInv, OnLine, Inside
  <1>2. RowsOf(con', mem') = [l \in 1 .. Lines |-> [k \in 1 .. Cols |->
               IF Addr(con, l - 1, k - 1) \in at .. at + n - 1 THEN Blank ELSE RowsOf(con, mem)[l][k]]]
    BY <1>1, FillRows, StoresSeen
  <1>3. ASSUME NEW l \in 1 .. Lines, NEW k \in 1 .. Cols
        PROVE  Addr(con, l - 1, k - 1) \in at .. at + n - 1 <=>
                   at <= Addr(con, l - 1, k - 1) /\ Addr(con, l - 1, k - 1) < at + n
    <2>1. l - 1 \in 0 .. Lines - 1 /\ k - 1 \in 0 .. Cols - 1
      BY Sizes
    <2>2. Addr(con, l - 1, k - 1) \in Int
      BY <1>1, <2>1, CellIn
    <2> QED
      BY <2>2
  <1> QED
    BY <1>2, <1>3 DEF Blanked

\* Addresses in the order of lines and columns.
LEMMA CellOrder ==
    ASSUME ConInv, NEW l \in 0 .. Lines - 1, NEW k \in 0 .. Cols - 1
    PROVE  /\ con.origin <= Addr(con, l, k) /\ Addr(con, l, k) < con.scr_end
           /\ con.pos <= Addr(con, l, k) <=> l > con.y \/ (l = con.y /\ k >= con.x)
           /\ con.pos - con.x <= Addr(con, l, k) <=> l >= con.y
           /\ Addr(con, l, k) < con.pos - con.x + Cols <=> l <= con.y
  <1>1. InWindow(con) /\ con.x \in 0 .. Cols /\ con.y \in 0 .. Lines - 1
    BY DEF ConInv, OnLine, InWindow
  <1>2. PICK ll \in Int, ly \in Int :
             /\ ll = Lines * Cols /\ ly = con.y * Cols /\ (con.y + 1) * Cols = ly + Cols
             /\ con.pos = con.origin + ly + con.x /\ con.scr_end = con.origin + ll
    BY <1>1, CursorPlace
  <1>3. /\ con.origin \in Int /\ Cols \in Int /\ Cols > 0 /\ Lines \in Int /\ con.x \in Int /\ con.y \in Int
        /\ l \in Int /\ k \in Int /\ con.y + 1 \in Int
    BY <1>1, CursorPlace
  <1>4. PICK li \in Int : li = l * Cols
    BY <1>3
  <1>5. Addr(con, l, k) = con.origin + li + k
    BY <1>4 DEF Addr
  <1>6. /\ li + k >= ly <=> l >= con.y
        /\ li + k >= ly + Cols <=> l >= con.y + 1
        /\ li + k < ll
        /\ li >= 0
    <2>1. li + k >= con.y * Cols <=> l >= con.y
      BY <1>3, <1>4, LineOfCell
    <2>2. li + k >= (con.y + 1) * Cols <=> l >= con.y + 1
      BY <1>3, <1>4, LineOfCell
    <2>3. li + k < Lines * Cols <=> l < Lines
      BY <1>3, <1>4, LineOfCell
    <2>4. li >= 0
      BY <1>3, <1>4, Products
    <2> QED
      BY <1>2, <1>3, <2>1, <2>2, <2>3, <2>4
  <1>7. l = con.y => li = ly
    BY <1>2, <1>4
  <1> QED
    BY <1>1, <1>2, <1>3, <1>5, <1>6, <1>7

\* The six ways to erase.
LEMMA EraseIs ==
    ASSUME con'.x = con.x, con'.y = con.y, top' = top, bottom' = bottom,
           LET r == RowsOf(con, mem)
               y == con.y
               x == con.x
               s == RowsOf(con', mem')
           IN  \/ s = [l \in 1 .. Lines |-> [k \in 1 .. Cols |-> IF l - 1 = y /\ k - 1 < x THEN Blank ELSE r[l][k]]]
               \/ s = [l \in 1 .. Lines |-> [k \in 1 .. Cols |-> IF l - 1 = y /\ k - 1 >= x THEN Blank ELSE r[l][k]]]
               \/ s = [l \in 1 .. Lines |-> [k \in 1 .. Cols |-> IF l - 1 = y THEN Blank ELSE r[l][k]]]
               \/ s = [l \in 1 .. Lines |-> [k \in 1 .. Cols |->
                          IF l - 1 < y \/ (l - 1 = y /\ k - 1 < x) THEN Blank ELSE r[l][k]]]
               \/ s = [l \in 1 .. Lines |-> [k \in 1 .. Cols |->
                          IF l - 1 > y \/ (l - 1 = y /\ k - 1 >= x) THEN Blank ELSE r[l][k]]]
               \/ s = [l \in 1 .. Lines |-> [k \in 1 .. Cols |-> IF TRUE THEN Blank ELSE r[l][k]]]
    PROVE  Seen!EraseCells
  BY DEF Seen!EraseCells, Seen!Erase, RowsOf

\* csi_J().
LEMMA EraseDisplaySeen ==
    ASSUME ConInv, NEW p \in 0 .. Word - 1, EraseDisplay(p) PROVE Seen!EraseCells
  <1> DEFINE r == RowsOf(con, mem)
  <1>1. /\ con.pos \in Int /\ con.origin \in Int /\ con.scr_end \in Int
        /\ Cols * Lines = con.scr_end - con.origin /\ Cols \in Int /\ Lines \in Int
        /\ con.x \in Int /\ con.y \in Int
    BY Addresses
  <1>2. /\ p = 0 => Stores(Fill(mem, con.pos, con.scr_end - con.pos))
        /\ p = 1 => Stores(Fill(mem, con.origin, con.pos - con.origin))
        /\ p = 2 => Stores(Fill(mem, con.origin, con.scr_end - con.origin))
        /\ p \in 0 .. 2
    BY <1>1 DEF EraseDisplay
  <1>3. \E m : Stores(m)
    BY <1>2
  <1>4. con'.x = con.x /\ con'.y = con.y /\ top' = top /\ bottom' = bottom
    BY <1>3, StoresSeen
  <1>5. ASSUME NEW l \in 1 .. Lines, NEW k \in 1 .. Cols
        PROVE  LET a == Addr(con, l - 1, k - 1)
               IN  /\ con.origin <= a /\ a < con.scr_end /\ a \in Int
                   /\ con.pos <= a <=> l - 1 > con.y \/ (l - 1 = con.y /\ k - 1 >= con.x)
                   /\ a < con.pos <=> l - 1 < con.y \/ (l - 1 = con.y /\ k - 1 < con.x)
    <2>1. PICK ll \in 0 .. Lines - 1, kk \in 0 .. Cols - 1 : ll = l - 1 /\ kk = k - 1
      BY <1>1
    <2>2. /\ con.origin <= Addr(con, ll, kk) /\ Addr(con, ll, kk) < con.scr_end
          /\ con.pos <= Addr(con, ll, kk) <=> ll > con.y \/ (ll = con.y /\ kk >= con.x)
      BY CellOrder
    <2>3. Addr(con, ll, kk) \in Int
      BY CellIn DEF ConInv, OnLine
    <2>4. Addr(con, ll, kk) < con.pos <=> ll < con.y \/ (ll = con.y /\ kk < con.x)
      BY <1>1, <2>2, <2>3
    <2> QED
      BY <2>1, <2>2, <2>3, <2>4
  <1>6. CASE p = 0
    <2>1. con.pos + (con.scr_end - con.pos) = con.scr_end /\ con.scr_end - con.pos \in Int
      BY <1>1
    <2>2. RowsOf(con', mem') = Blanked(con.pos, con.scr_end)
      BY <1>1, <1>2, <1>6, <2>1, FillSeen
    <2>3. Blanked(con.pos, con.scr_end) =
             [l \in 1 .. Lines |-> [k \in 1 .. Cols |->
                 IF l - 1 > con.y \/ (l - 1 = con.y /\ k - 1 >= con.x) THEN Blank ELSE r[l][k]]]
      BY <1>5 DEF Blanked
    <2> QED
      BY <1>4, <2>2, <2>3, EraseIs
  <1>7. CASE p = 1
    <2>1. con.origin + (con.pos - con.origin) = con.pos /\ con.pos - con.origin \in Int
      BY <1>1
    <2>2. RowsOf(con', mem') = Blanked(con.origin, con.pos)
      BY <1>1, <1>2, <1>7, <2>1, FillSeen
    <2>3. Blanked(con.origin, con.pos) =
             [l \in 1 .. Lines |-> [k \in 1 .. Cols |->
                 IF l - 1 < con.y \/ (l - 1 = con.y /\ k - 1 < con.x) THEN Blank ELSE r[l][k]]]
      BY <1>5 DEF Blanked
    <2> QED
      BY <1>4, <2>2, <2>3, EraseIs
  <1>8. CASE p = 2
    <2>1. con.origin + (con.scr_end - con.origin) = con.scr_end /\ con.scr_end - con.origin \in Int
      BY <1>1
    <2>2. RowsOf(con', mem') = Blanked(con.origin, con.scr_end)
      BY <1>1, <1>2, <1>8, <2>1, FillSeen
    <2>3. Blanked(con.origin, con.scr_end) =
             [l \in 1 .. Lines |-> [k \in 1 .. Cols |-> IF TRUE THEN Blank ELSE r[l][k]]]
      BY <1>5 DEF Blanked
    <2> QED
      BY <1>4, <2>2, <2>3, EraseIs
  <1> QED
    BY <1>2, <1>6, <1>7, <1>8

\* csi_K().
LEMMA EraseLineSeen ==
    ASSUME ConInv, NEW p \in 0 .. Word - 1, EraseLine(p) PROVE Seen!EraseCells
  <1> DEFINE r == RowsOf(con, mem)
  <1>1. /\ con.pos \in Int /\ con.origin \in Int /\ con.scr_end \in Int
        /\ Cols \in Int /\ Lines \in Int /\ con.x \in Int /\ 0 <= con.x /\ con.x <= Cols /\ con.y \in Int
    BY Addresses
  <1>2. PICK n \in Int : n = (IF con.x < Cols THEN con.x ELSE Cols) /\ n = con.x
    BY <1>1
  <1>3. /\ p = 0 => Stores(Fill(mem, con.pos, Cols - con.x))
        /\ p = 1 => Stores(Fill(mem, con.pos - con.x, con.x))
        /\ p = 2 => Stores(Fill(mem, con.pos - con.x, Cols))
        /\ p \in 0 .. 2
    BY <1>2 DEF EraseLine
  <1>4. con'.x = con.x /\ con'.y = con.y /\ top' = top /\ bottom' = bottom
    <2>1. \E m : Stores(m)
      BY <1>3
    <2> QED
      BY <2>1, StoresSeen
  <1>5. PICK start \in Int, end \in Int :
             /\ start = con.pos - con.x /\ end = con.pos - con.x + Cols
             /\ con.pos + (Cols - con.x) = end /\ start + con.x = con.pos /\ start + Cols = end
             /\ Cols - con.x \in Int
    BY <1>1
  <1>6. ASSUME NEW l \in 1 .. Lines, NEW k \in 1 .. Cols
        PROVE  LET a == Addr(con, l - 1, k - 1)
               IN  /\ start <= a /\ a < con.pos <=> l - 1 = con.y /\ k - 1 < con.x
                   /\ con.pos <= a /\ a < end <=> l - 1 = con.y /\ k - 1 >= con.x
                   /\ start <= a /\ a < end <=> l - 1 = con.y
    <2>1. PICK ll \in 0 .. Lines - 1, kk \in 0 .. Cols - 1 : ll = l - 1 /\ kk = k - 1
      BY <1>1
    <2>2. /\ con.pos <= Addr(con, ll, kk) <=> ll > con.y \/ (ll = con.y /\ kk >= con.x)
          /\ start <= Addr(con, ll, kk) <=> ll >= con.y
          /\ Addr(con, ll, kk) < end <=> ll <= con.y
      BY <1>5, CellOrder
    <2>3. Addr(con, ll, kk) \in Int
      BY CellIn DEF ConInv, OnLine
    <2>4. ll \in Int /\ kk \in Int
      OBVIOUS
    <2>5. /\ start <= Addr(con, ll, kk) /\ Addr(con, ll, kk) < con.pos <=> ll = con.y /\ kk < con.x
          /\ con.pos <= Addr(con, ll, kk) /\ Addr(con, ll, kk) < end <=> ll = con.y /\ kk >= con.x
          /\ start <= Addr(con, ll, kk) /\ Addr(con, ll, kk) < end <=> ll = con.y
      BY <1>1, <2>2, <2>3, <2>4
    <2> QED
      BY <2>1, <2>5
  <1>7. CASE p = 0
    <2>1. RowsOf(con', mem') = Blanked(con.pos, end)
      BY <1>1, <1>3, <1>5, <1>7, FillSeen
    <2>2. Blanked(con.pos, end) =
             [l \in 1 .. Lines |-> [k \in 1 .. Cols |->
                 IF l - 1 = con.y /\ k - 1 >= con.x THEN Blank ELSE r[l][k]]]
      BY <1>6 DEF Blanked
    <2> QED
      BY <1>4, <2>1, <2>2, EraseIs
  <1>8. CASE p = 1
    <2>1. RowsOf(con', mem') = Blanked(start, con.pos)
      BY <1>1, <1>3, <1>5, <1>8, FillSeen
    <2>2. Blanked(start, con.pos) =
             [l \in 1 .. Lines |-> [k \in 1 .. Cols |->
                 IF l - 1 = con.y /\ k - 1 < con.x THEN Blank ELSE r[l][k]]]
      BY <1>6 DEF Blanked
    <2> QED
      BY <1>4, <2>1, <2>2, EraseIs
  <1>9. CASE p = 2
    <2>1. RowsOf(con', mem') = Blanked(start, end)
      BY <1>1, <1>3, <1>5, <1>9, FillSeen
    <2>2. Blanked(start, end) =
             [l \in 1 .. Lines |-> [k \in 1 .. Cols |-> IF l - 1 = con.y THEN Blank ELSE r[l][k]]]
      BY <1>6 DEF Blanked
    <2> QED
      BY <1>4, <2>1, <2>2, EraseIs
  <1> QED
    BY <1>3, <1>7, <1>8, <1>9

\* Lines that go one at a time go together.
LEMMA UpTwice ==
    ASSUME NEW r \in Screenfuls, NEW t \in Int, NEW n \in Int, 0 <= t, 0 <= n, t < Lines
    PROVE  /\ UpView(r, t, Lines, 0) = r
           /\ t + n + 1 <= Lines => UpView(UpView(r, t, Lines, n), t, Lines, 1) = UpView(r, t, Lines, n + 1)
           /\ t + n = Lines => UpView(UpView(r, t, Lines, n), t, Lines, 1) = UpView(r, t, Lines, n)
  <1>1. Lines \in Int /\ r = [l \in 1 .. Lines |-> r[l]]
    BY Sizes DEF Screenfuls
  <1>2. UpView(r, t, Lines, 0) = r
    <2>1. ASSUME NEW l \in 1 .. Lines
          PROVE  (IF l <= t \/ l > Lines THEN r[l] ELSE IF l <= Lines - 0 THEN r[l + 0] ELSE Seen!BlankRow) = r[l]
      BY <1>1
    <2>2. UpView(r, t, Lines, 0) = [l \in 1 .. Lines |-> r[l]]
      BY <2>1 DEF UpView
    <2> QED
      BY <1>1, <2>2, Zenon
  <1> DEFINE u == UpView(r, t, Lines, n)
  <1>3. ASSUME NEW l \in 1 .. Lines
        PROVE  u[l] = IF l <= t THEN r[l] ELSE IF l <= Lines - n THEN r[l + n] ELSE Seen!BlankRow
    BY <1>1 DEF UpView
  <1> HIDE DEF u
  <1>4. UpView(u, t, Lines, 1) =
            [l \in 1 .. Lines |-> IF l <= t THEN r[l] ELSE IF l <= Lines - (n + 1) THEN r[l + (n + 1)] ELSE Seen!BlankRow]
    <2>1. ASSUME NEW l \in 1 .. Lines
          PROVE  (IF l <= t \/ l > Lines THEN u[l] ELSE IF l <= Lines - 1 THEN u[l + 1] ELSE Seen!BlankRow) =
                 IF l <= t THEN r[l] ELSE IF l <= Lines - (n + 1) THEN r[l + (n + 1)] ELSE Seen!BlankRow
      <3>1. CASE l <= t
        BY <1>3, <3>1
      <3>2. CASE ~(l <= t) /\ l <= Lines - 1
        <4>1. /\ l + 1 \in 1 .. Lines /\ ~(l + 1 <= t) /\ ~(l <= t \/ l > Lines)
              /\ (l + 1 <= Lines - n <=> l <= Lines - (n + 1)) /\ (l + 1) + n = l + (n + 1)
          <5>1. Lines \in Int
            BY <1>1
          <5>2. l + 1 \in 1 .. Lines /\ ~(l + 1 <= t) /\ ~(l <= t \/ l > Lines)
            BY <3>2, <5>1
          <5>3. (l + 1 <= Lines - n <=> l <= Lines - (n + 1)) /\ (l + 1) + n = l + (n + 1)
            BY <5>1
          <5> QED
            BY <5>2, <5>3
        <4>2. u[l + 1] = IF l + 1 <= Lines - n THEN r[(l + 1) + n] ELSE Seen!BlankRow
          BY <1>3, <4>1
        <4> QED
          BY <3>2, <4>1, <4>2
      <3>3. CASE ~(l <= t) /\ ~(l <= Lines - 1)
        <4>1. ~(l <= Lines - (n + 1)) /\ ~(l > Lines)
          BY <1>1, <3>3
        <4> QED
          BY <3>3, <4>1
      <3> QED
        BY <3>1, <3>2, <3>3
    <2> QED
      BY <2>1 DEF UpView
  <1>5. t + n + 1 <= Lines => UpView(u, t, Lines, 1) = UpView(r, t, Lines, n + 1)
    <2>1. \A l \in 1 .. Lines : ~(l > Lines)
      BY <1>1
    <2> QED
      BY <1>4, <2>1 DEF UpView
  <1>6. t + n = Lines => UpView(u, t, Lines, 1) = u
    <2>1. SUFFICES ASSUME t + n = Lines PROVE UpView(u, t, Lines, 1) = u
      OBVIOUS
    <2>2. ASSUME NEW l \in 1 .. Lines
          PROVE  /\ ~(l > Lines) /\ (~(l <= t) => ~(l <= Lines - n) /\ ~(l <= Lines - (n + 1)))
      BY <1>1, <2>1
    <2>3. u = [l \in 1 .. Lines |-> IF l <= t THEN r[l] ELSE Seen!BlankRow]
      BY <2>2 DEF u, UpView
    <2>4. UpView(u, t, Lines, 1) = [l \in 1 .. Lines |-> IF l <= t THEN r[l] ELSE Seen!BlankRow]
      BY <1>4, <2>2
    <2> QED
      BY <2>3, <2>4, Zenon
  <1> QED
    BY <1>2, <1>5, <1>6 DEF u

\* Lines that come one at a time come together.
LEMMA DownTwice ==
    ASSUME NEW r \in Screenfuls, NEW t \in Int, NEW n \in Int, 0 <= t, 0 <= n, t < Lines
    PROVE  /\ DownView(r, t, Lines, 0) = r
           /\ DownView(DownView(r, t, Lines, n), t, Lines, 1) = DownView(r, t, Lines, n + 1)
           /\ t + n = Lines => DownView(r, t, Lines, n + 1) = DownView(r, t, Lines, n)
  <1>1. Lines \in Int /\ r = [l \in 1 .. Lines |-> r[l]]
    BY Sizes DEF Screenfuls
  <1>2. DownView(r, t, Lines, 0) = r
    <2>1. ASSUME NEW l \in 1 .. Lines
          PROVE  (IF l <= t \/ l > Lines THEN r[l] ELSE IF l <= t + 0 THEN Seen!BlankRow ELSE r[l - 0]) = r[l]
      BY <1>1
    <2>2. DownView(r, t, Lines, 0) = [l \in 1 .. Lines |-> r[l]]
      BY <2>1 DEF DownView
    <2> QED
      BY <1>1, <2>2, Zenon
  <1> DEFINE u == DownView(r, t, Lines, n)
  <1>3. ASSUME NEW l \in 1 .. Lines
        PROVE  u[l] = IF l <= t THEN r[l] ELSE IF l <= t + n THEN Seen!BlankRow ELSE r[l - n]
    BY <1>1 DEF DownView
  <1> HIDE DEF u
  <1>4. DownView(u, t, Lines, 1) =
            [l \in 1 .. Lines |-> IF l <= t THEN r[l] ELSE IF l <= t + (n + 1) THEN Seen!BlankRow ELSE r[l - (n + 1)]]
    <2>1. ASSUME NEW l \in 1 .. Lines
          PROVE  (IF l <= t \/ l > Lines THEN u[l] ELSE IF l <= t + 1 THEN Seen!BlankRow ELSE u[l - 1]) =
                 IF l <= t THEN r[l] ELSE IF l <= t + (n + 1) THEN Seen!BlankRow ELSE r[l - (n + 1)]
      <3>1. CASE l <= t
        BY <1>3, <3>1
      <3>2. CASE ~(l <= t) /\ ~(l <= t + 1)
        <4>1. /\ l - 1 \in 1 .. Lines /\ ~(l - 1 <= t) /\ ~(l <= t \/ l > Lines)
              /\ (l - 1 <= t + n <=> l <= t + (n + 1)) /\ (l - 1) - n = l - (n + 1)
          <5>1. Lines \in Int
            BY <1>1
          <5>2. l - 1 \in 1 .. Lines /\ ~(l - 1 <= t) /\ ~(l <= t \/ l > Lines)
            BY <3>2, <5>1
          <5>3. (l - 1 <= t + n <=> l <= t + (n + 1)) /\ (l - 1) - n = l - (n + 1)
            BY <5>1
          <5> QED
            BY <5>2, <5>3
        <4>2. u[l - 1] = IF l - 1 <= t + n THEN Seen!BlankRow ELSE r[(l - 1) - n]
          BY <1>3, <4>1
        <4> QED
          BY <3>2, <4>1, <4>2
      <3>3. CASE ~(l <= t) /\ l <= t + 1
        <4>1. l <= t + (n + 1) /\ ~(l > Lines)
          BY <1>1, <3>3
        <4> QED
          BY <3>3, <4>1
      <3> QED
        BY <3>1, <3>2, <3>3
    <2> QED
      BY <2>1 DEF DownView
  <1>5. DownView(u, t, Lines, 1) = DownView(r, t, Lines, n + 1)
    <2>1. \A l \in 1 .. Lines : ~(l > Lines)
      BY <1>1
    <2> QED
      BY <1>4, <2>1 DEF DownView
  <1>6. t + n = Lines => DownView(r, t, Lines, n + 1) = DownView(r, t, Lines, n)
    <2>1. SUFFICES ASSUME t + n = Lines PROVE DownView(r, t, Lines, n + 1) = DownView(r, t, Lines, n)
      OBVIOUS
    <2>2. ASSUME NEW l \in 1 .. Lines PROVE l <= t + n /\ l <= t + (n + 1)
      BY <1>1, <2>1
    <2> QED
      BY <2>2 DEF DownView
  <1> QED
    BY <1>2, <1>5, <1>6 DEF u

\* Lines that have come or gone.
LEMMA LinesSeen ==
    ASSUME ConInv, con'.x = con.x, con'.y = con.y, top' = top, bottom' = bottom, NEW n \in 1 .. Lines - con.y,
           \/ RowsOf(con', mem') = UpView(RowsOf(con, mem), con.y, Lines, n)
           \/ RowsOf(con', mem') = DownView(RowsOf(con, mem), con.y, Lines, n)
    PROVE  Seen!LinesInOut(n)
  <1> DEFINE r == RowsOf(con, mem)
  <1>1. r \in Screenfuls
    BY SeenCell DEF Inside, ConInv, OnLine
  <1>2. con.y \in Int /\ n \in Int /\ 0 <= con.y /\ 0 <= n /\ con.y + n <= Lines /\ Lines \in Int /\ Lines <= Lines
    BY Addresses
  <1>3. Seen!Up(r, con.y, Lines, n) = UpView(r, con.y, Lines, n) /\ Seen!Down(r, con.y, Lines, n) = DownView(r, con.y, Lines, n)
    BY <1>1, <1>2, RowsAreViews
  <1>4. RowsOf(con', mem') \in {Seen!Up(r, con.y, Lines, n), Seen!Down(r, con.y, Lines, n)}
    BY <1>3
  <1> QED
    BY <1>4 DEF Seen!LinesInOut, RowsOf

\* csi_L().
LEMMA InsertLinesSeen ==
    ASSUME ConInv, NEW p \in 0 .. Word - 1, InsertLines(p)
    PROVE  \E n \in 1 .. Lines - con.y : Seen!LinesInOut(n)
  <1> DEFINE r == RowsOf(con, mem)
  <1>1. PICK f : /\ f = [i \in 0 .. Lines |-> IF i = 0 THEN mem ELSE scrdown(con, f[i - 1], con.y, Lines)]
                 /\ \A i \in 0 .. Lines : f[i] \in Insides
                 /\ Stores(f[Times(p, Lines)])
    BY InsertedLines
  <1>2. /\ r \in Screenfuls /\ InWindow(con) /\ con.y \in Int /\ 0 <= con.y /\ con.y < Lines
        /\ Lines \in Int /\ Lines \in Nat /\ Lines <= Lines
    BY SeenCell, Addresses DEF Inside, ConInv, OnLine
  <1> DEFINE T == {i \in 0 .. Lines : \E n \in 0 .. Lines - con.y :
                       (i # 0 => n # 0) /\ RowsOf(con, f[i]) = DownView(r, con.y, Lines, n)}
  <1>3. 0 \in T
    <2>1. DownView(r, con.y, Lines, 0) = r
      <3>1. 0 \in Int /\ 0 <= 0
        OBVIOUS
      <3> QED
        BY <1>2, <3>1, DownTwice
    <2>2. f[0] = mem
      BY <1>1, <1>2
    <2>3. 0 \in 0 .. Lines - con.y /\ 0 \in 0 .. Lines
      BY <1>2
    <2> QED
      BY <2>1, <2>2, <2>3
  <1>4. ASSUME NEW i \in 0 .. Lines, i # 0, i - 1 \in T PROVE i \in T
    <2>1. PICK n \in 0 .. Lines - con.y : RowsOf(con, f[i - 1]) = DownView(r, con.y, Lines, n)
      BY <1>4
    <2>2. f[i] = scrdown(con, f[i - 1], con.y, Lines)
      BY <1>1, <1>4
    <2>3. Inside(f[i - 1])
      BY <1>1, <1>4 DEF Insides
    <2>4. RowsOf(con, f[i]) = DownView(DownView(r, con.y, Lines, n), con.y, Lines, 1)
      BY <1>2, <2>1, <2>2, <2>3, RegionRows
    <2>5. n \in Int /\ 0 <= n
      OBVIOUS
    <2>6. /\ RowsOf(con, f[i]) = DownView(r, con.y, Lines, n + 1)
          /\ con.y + n = Lines => DownView(r, con.y, Lines, n + 1) = DownView(r, con.y, Lines, n)
      BY <1>2, <2>4, <2>5, DownTwice
    <2>7. CASE con.y + n = Lines
      <3>1. n # 0
        BY <1>2, <2>7
      <3> QED
        BY <2>6, <2>7, <3>1
    <2>8. CASE con.y + n # Lines
      <3>1. n + 1 \in 0 .. Lines - con.y /\ n + 1 # 0
        BY <1>2, <2>5, <2>8
      <3> QED
        BY <2>6, <3>1
    <2> QED
      BY <2>7, <2>8
  <1> HIDE DEF T
  <1>5. 0 .. Lines \subseteq T
    BY <1>2, <1>3, <1>4, CountUp
  <1>6. Times(p, Lines) \in 0 .. Lines /\ Times(p, Lines) # 0
    BY Parameters, Sizes
  <1>7. PICK n \in 0 .. Lines - con.y :
             n # 0 /\ RowsOf(con, f[Times(p, Lines)]) = DownView(r, con.y, Lines, n)
    BY <1>5, <1>6 DEF T
  <1>8. n \in 1 .. Lines - con.y
    BY <1>7
  <1>9. RowsOf(con', mem') = DownView(r, con.y, Lines, n) /\ con' = con /\ top' = top /\ bottom' = bottom
    BY <1>1, <1>7, StoresSeen
  <1>10. Seen!LinesInOut(n)
    BY <1>8, <1>9, LinesSeen
  <1> QED
    BY <1>8, <1>10

\* csi_M().
LEMMA DeleteLinesSeen ==
    ASSUME ConInv, NEW p \in 0 .. Word - 1, DeleteLines(p)
    PROVE  \E n \in 1 .. Lines - con.y : Seen!LinesInOut(n)
  <1> DEFINE r == RowsOf(con, mem)
  <1>1. PICK f : /\ f = [i \in 0 .. Lines |-> IF i = 0 THEN [con |-> con, mem |-> mem]
                              ELSE scrup(f[i - 1].con, f[i - 1].mem, f[i - 1].con.y, Lines)]
                 /\ \A i \in 0 .. Lines : f[i] \in Screens
                 /\ Becomes(f[Times(p, Lines)])
    BY DeletedLines
  <1>2. /\ r \in Screenfuls /\ con.y \in Int /\ 0 <= con.y /\ con.y < Lines
        /\ Lines \in Int /\ Lines \in Nat /\ Lines <= Lines
    BY SeenCell, Addresses DEF Inside, ConInv, OnLine
  <1> DEFINE T == {i \in 0 .. Lines : f[i].con.y = con.y /\ \E n \in 0 .. Lines - con.y :
                       (i # 0 => n # 0) /\ RowsOf(f[i].con, f[i].mem) = UpView(r, con.y, Lines, n)}
  <1>3. 0 \in T
    <2>1. UpView(r, con.y, Lines, 0) = r
      <3>1. 0 \in Int /\ 0 <= 0
        OBVIOUS
      <3> QED
        BY <1>2, <3>1, UpTwice
    <2>2. f[0] = [con |-> con, mem |-> mem]
      BY <1>1, <1>2
    <2>3. 0 \in 0 .. Lines - con.y /\ 0 \in 0 .. Lines
      BY <1>2
    <2> QED
      BY <2>1, <2>2, <2>3
  <1>4. ASSUME NEW i \in 0 .. Lines, i # 0, i - 1 \in T PROVE i \in T
    <2>1. PICK n \in 0 .. Lines - con.y :
               f[i - 1].con.y = con.y /\ RowsOf(f[i - 1].con, f[i - 1].mem) = UpView(r, con.y, Lines, n)
      BY <1>4
    <2>2. f[i] = scrup(f[i - 1].con, f[i - 1].mem, con.y, Lines)
      BY <1>1, <1>4, <2>1
    <2>3. InWindow(f[i - 1].con) /\ Inside(f[i - 1].mem)
      BY <1>1, <1>4 DEF Screens
    <2>4. /\ RowsOf(f[i].con, f[i].mem) = UpView(UpView(r, con.y, Lines, n), con.y, Lines, 1)
          /\ f[i].con.y = con.y
      BY <1>2, <2>1, <2>2, <2>3, ScrupRows
    <2>5. n \in Int /\ 0 <= n
      OBVIOUS
    <2>6. /\ con.y + n + 1 <= Lines => RowsOf(f[i].con, f[i].mem) = UpView(r, con.y, Lines, n + 1)
          /\ con.y + n = Lines => RowsOf(f[i].con, f[i].mem) = UpView(r, con.y, Lines, n)
      BY <1>2, <2>4, <2>5, UpTwice
    <2>7. CASE con.y + n = Lines
      <3>1. n # 0
        BY <1>2, <2>7
      <3> QED
        BY <2>4, <2>6, <2>7, <3>1
    <2>8. CASE con.y + n # Lines
      <3>1. n + 1 \in 0 .. Lines - con.y /\ n + 1 # 0 /\ con.y + n + 1 <= Lines
        BY <1>2, <2>5, <2>8
      <3> QED
        BY <2>4, <2>6, <3>1
    <2> QED
      BY <2>7, <2>8
  <1> HIDE DEF T
  <1>5. 0 .. Lines \subseteq T
    BY <1>2, <1>3, <1>4, CountUp
  <1>6. Times(p, Lines) \in 0 .. Lines /\ Times(p, Lines) # 0
    BY Parameters, Sizes
  <1> DEFINE s == f[Times(p, Lines)]
  <1>7. PICK n \in 0 .. Lines - con.y :
             n # 0 /\ s.con.y = con.y /\ RowsOf(s.con, s.mem) = UpView(r, con.y, Lines, n)
    BY <1>5, <1>6 DEF T
  <1>8. n \in 1 .. Lines - con.y
    BY <1>7
  <1>9. s.con.x = con.x
    BY <1>1, <1>6 DEF Screens
  <1> HIDE DEF s
  <1>10. /\ RowsOf(con', mem') = UpView(r, con.y, Lines, n) /\ con'.x = con.x /\ con'.y = con.y
         /\ top' = top /\ bottom' = bottom
    <2>1. Becomes(s)
      BY <1>1 DEF s
    <2> QED
      BY <1>7, <1>9, <2>1, BecomesSeen
  <1>11. Seen!LinesInOut(n)
    BY <1>8, <1>10, LinesSeen
  <1> QED
    BY <1>8, <1>11

\* A line that has got n blanks at x, or lost n characters.
InView(row, x, n)  == [k \in 1 .. Cols |-> IF k <= x THEN row[k] ELSE IF k <= x + n THEN Blank ELSE row[k - n]]
OutView(row, x, n) == [k \in 1 .. Cols |-> IF k <= x THEN row[k] ELSE IF k <= Cols - n THEN row[k + n] ELSE Blank]

\* Where the parts of w are.
IsThree(w, p, q, u) ==
    /\ w = [i \in 1 .. Len(p) + Len(q) + Len(u) |-> w[i]]
    /\ \A i \in 1 .. Len(p) : w[i] = p[i]
    /\ \A i \in 1 .. Len(q) : w[Len(p) + i] = q[i]
    /\ \A i \in 1 .. Len(u) : w[Len(p) + Len(q) + i] = u[i]

\* Three sequences that are joined have the three parts.
LEMMA ThreeJoined == \A S : \A p, q, u \in Seq(S) : IsThree(p \o q \o u, p, q, u)
  <1> TAKE S
  <1> TAKE p, q, u \in Seq(S)
  <1> DEFINE x == p \o q
             w == x \o u
  <1>0. Len(p) \in Nat /\ Len(q) \in Nat /\ Len(u) \in Nat
    BY LenProperties
  <1>1. /\ x \in Seq(S) /\ Len(x) = Len(p) + Len(q)
        /\ \A i \in 1 .. Len(p) : x[i] = p[i]
        /\ \A i \in 1 .. Len(q) : x[Len(p) + i] = q[i]
    BY Joined
  <1> HIDE DEF x
  <1>2. x \in Seq(S)
    BY <1>1
  <1>3. /\ w \in Seq(S) /\ Len(w) = Len(x) + Len(u)
        /\ \A i \in 1 .. Len(x) : w[i] = x[i]
        /\ \A i \in 1 .. Len(u) : w[Len(x) + i] = u[i]
    BY <1>2, Joined
  <1> HIDE DEF w
  <1>4. w = [i \in 1 .. Len(p) + Len(q) + Len(u) |-> w[i]]
    <2>1. Len(w) = Len(p) + Len(q) + Len(u)
      BY <1>0, <1>1, <1>3
    <2> QED
      BY <1>3, <2>1, LenProperties
  <1>5. /\ \A i \in 1 .. Len(p) : i \in 1 .. Len(x)
        /\ \A i \in 1 .. Len(q) : Len(p) + i \in 1 .. Len(x)
        /\ \A i \in 1 .. Len(u) : Len(p) + Len(q) + i = Len(x) + i
    BY <1>0, <1>1
  <1>6. \A i \in 1 .. Len(p) : w[i] = p[i]
    BY <1>1, <1>3, <1>5
  <1>7. \A i \in 1 .. Len(q) : w[Len(p) + i] = q[i]
    BY <1>1, <1>3, <1>5
  <1>8. \A i \in 1 .. Len(u) : w[Len(p) + Len(q) + i] = u[i]
    BY <1>3, <1>5
  <1> QED
    BY <1>4, <1>6, <1>7, <1>8 DEF w, x, IsThree

\* Three sequences of known lengths that are joined to a function on 1 .. n.
LEMMA ThreeParts == \A S, v : \A p, q, u \in Seq(S) : IsThree(v, p, q, u) => p \o q \o u = v
  <1> SUFFICES ASSUME NEW S, NEW v, NEW p \in Seq(S), NEW q \in Seq(S), NEW u \in Seq(S), IsThree(v, p, q, u)
               PROVE  p \o q \o u = v
    OBVIOUS
  <1> DEFINE w == p \o q \o u
  <1>1. IsThree(w, p, q, u)
    BY ThreeJoined
  <1> HIDE DEF w
  <1>2. PICK a \in Nat, b \in Nat, c \in Nat : a = Len(p) /\ b = Len(q) /\ c = Len(u)
    BY LenProperties
  <1>3. ASSUME NEW l \in 1 .. a + b + c PROVE w[l] = v[l]
    <2>1. CASE l <= a
      <3>1. l \in 1 .. Len(p)
        BY <1>2, <2>1
      <3> QED
        BY <1>1, <3>1 DEF IsThree
    <2>2. CASE l > a /\ l <= a + b
      <3>1. l - a \in 1 .. b /\ l = a + (l - a)
        BY <1>2, <2>2
      <3>2. PICK i \in 1 .. b : l = a + i
        BY <3>1
      <3> QED
        BY <1>1, <1>2, <3>2 DEF IsThree
    <2>3. CASE l > a + b
      <3>1. l - (a + b) \in 1 .. c /\ l = a + b + (l - (a + b))
        BY <1>2, <2>3
      <3>2. PICK i \in 1 .. c : l = a + b + i
        BY <3>1
      <3> QED
        BY <1>1, <1>2, <3>2 DEF IsThree
    <2> QED
      BY <2>1, <2>2, <2>3
  <1>4. w = [l \in 1 .. a + b + c |-> w[l]] /\ v = [l \in 1 .. a + b + c |-> v[l]]
    BY <1>1, <1>2 DEF IsThree
  <1>5. [l \in 1 .. a + b + c |-> w[l]] = [l \in 1 .. a + b + c |-> v[l]]
    BY <1>3
  <1>6. w = v
    BY <1>4, <1>5, Zenon
  <1> QED
    BY <1>6 DEF w

\* The sequences of CharsInOut are these.
LEMMA CharsAreViews ==
    ASSUME NEW r \in [1 .. Cols -> Cells], NEW x \in Int, NEW n \in Int, 0 <= x, 0 <= n, x + n <= Cols
    PROVE  LET z == [i \in 1 .. n |-> Blank]
           IN  /\ SubSeq(r, 1, x) \o z \o SubSeq(r, x + 1, Cols - n) = InView(r, x, n)
               /\ SubSeq(r, 1, x) \o SubSeq(r, x + n + 1, Cols) \o z = OutView(r, x, n)
  <1> DEFINE p == SubSeq(r, 1, x)
             d == SubSeq(r, x + 1, Cols - n)
             u == SubSeq(r, x + n + 1, Cols)
             z == [i \in 1 .. n |-> Blank]
  <1>1. Cols \in Nat /\ (\A i \in 1 .. Cols : r[i] \in Cells) /\ Blank \in Cells
    BY Sizes DEF Cells
  <1>2. PICK k \in Nat : k = Cols - x - n
    BY <1>1
  <1>3. x \in Nat /\ n \in Nat /\ Cols = x + k + n /\ Cols = x + n + k
    BY <1>1, <1>2
  <1>4. p \in Seq(Cells) /\ Len(p) = x /\ \A i \in 1 .. x : p[i] = r[i]
    <2>1. \A i \in 1 .. x : r[0 + i] \in Cells /\ 0 + i = i
      BY <1>1, <1>3
    <2>2. 0 \in Int /\ 1 \in Int /\ 1 = 0 + 1 /\ x = 0 + x
      OBVIOUS
    <2>3. IsPart(p, Cells, r, 0, x)
      BY <1>3, <2>1, <2>2, PartOf
    <2> QED
      BY <2>1, <2>3 DEF IsPart
  <1>5. d \in Seq(Cells) /\ Len(d) = k /\ \A i \in 1 .. k : d[i] = r[x + i]
    <2>1. \A i \in 1 .. k : r[x + i] \in Cells
      BY <1>1, <1>3
    <2>2. Cols - n = x + k /\ Cols - n \in Int /\ x + 1 \in Int
      BY <1>3
    <2>3. IsPart(d, Cells, r, x, k)
      BY <2>1, <2>2, PartOf
    <2> QED
      BY <2>3 DEF IsPart
  <1>6. u \in Seq(Cells) /\ Len(u) = k /\ \A i \in 1 .. k : u[i] = r[x + n + i]
    <2>1. \A i \in 1 .. k : r[x + n + i] \in Cells
      BY <1>1, <1>3
    <2>2. x + n \in Int /\ x + n + 1 \in Int /\ Cols = x + n + k /\ Cols \in Int
      BY <1>3
    <2>3. IsPart(u, Cells, r, x + n, k)
      BY <2>1, <2>2, PartOf
    <2> QED
      BY <2>3 DEF IsPart
  <1>7. z \in Seq(Cells) /\ Len(z) = n /\ \A i \in 1 .. n : z[i] = Blank
    BY <1>1, <1>3
  <1> HIDE DEF p, d, u, z
  <1>8. p \o z \o d = InView(r, x, n)
    <2> DEFINE v == InView(r, x, n)
    <2>1. v = [i \in 1 .. Len(p) + Len(z) + Len(d) |-> v[i]]
      BY <1>3, <1>4, <1>5, <1>7 DEF InView
    <2>2. \A i \in 1 .. Cols : v[i] = IF i <= x THEN r[i] ELSE IF i <= x + n THEN Blank ELSE r[i - n]
      BY DEF InView
    <2> HIDE DEF v
    <2>3. \A i \in 1 .. Len(p) : v[i] = p[i]
      <3>1. \A i \in 1 .. x : i \in 1 .. Cols /\ i <= x
        BY <1>3
      <3> QED
        BY <1>4, <2>2, <3>1
    <2>4. \A i \in 1 .. Len(z) : v[Len(p) + i] = z[i]
      <3>1. \A i \in 1 .. n : x + i \in 1 .. Cols /\ ~(x + i <= x) /\ x + i <= x + n
        BY <1>3
      <3> QED
        BY <1>4, <1>7, <2>2, <3>1
    <2>5. \A i \in 1 .. Len(d) : v[Len(p) + Len(z) + i] = d[i]
      <3>1. \A i \in 1 .. k : /\ x + n + i \in 1 .. Cols /\ ~(x + n + i <= x) /\ ~(x + n + i <= x + n)
                              /\ (x + n + i) - n = x + i
        BY <1>3
      <3>2. \A i \in 1 .. k : v[x + n + i] = r[x + i]
        BY <2>2, <3>1
      <3>3. \A i \in 1 .. k : d[i] = r[x + i]
        BY <1>5
      <3>4. Len(p) = x /\ Len(z) = n /\ Len(d) = k
        BY <1>4, <1>5, <1>7
      <3> QED
        BY <3>2, <3>3, <3>4
    <2>6. IsThree(v, p, z, d)
      BY <2>1, <2>3, <2>4, <2>5 DEF IsThree
    <2>7. p \o z \o d = v
      BY <1>4, <1>5, <1>7, <2>6, ThreeParts
    <2> QED
      BY <2>7 DEF v
  <1>9. p \o u \o z = OutView(r, x, n)
    <2> DEFINE v == OutView(r, x, n)
    <2>1. v = [i \in 1 .. Len(p) + Len(u) + Len(z) |-> v[i]]
      BY <1>3, <1>4, <1>6, <1>7 DEF OutView
    <2>2. \A i \in 1 .. Cols : v[i] = IF i <= x THEN r[i] ELSE IF i <= Cols - n THEN r[i + n] ELSE Blank
      BY DEF OutView
    <2> HIDE DEF v
    <2>3. \A i \in 1 .. Len(p) : v[i] = p[i]
      <3>1. \A i \in 1 .. x : i \in 1 .. Cols /\ i <= x
        BY <1>3
      <3> QED
        BY <1>4, <2>2, <3>1
    <2>4. \A i \in 1 .. Len(u) : v[Len(p) + i] = u[i]
      <3>1. \A i \in 1 .. k : /\ x + i \in 1 .. Cols /\ ~(x + i <= x) /\ x + i <= Cols - n
                              /\ (x + i) + n = x + n + i
        BY <1>3
      <3> QED
        BY <1>4, <1>6, <2>2, <3>1
    <2>5. \A i \in 1 .. Len(z) : v[Len(p) + Len(u) + i] = z[i]
      <3>1. \A i \in 1 .. n : x + k + i \in 1 .. Cols /\ ~(x + k + i <= x) /\ ~(x + k + i <= Cols - n)
        BY <1>3
      <3> QED
        BY <1>4, <1>6, <1>7, <2>2, <3>1
    <2>6. IsThree(v, p, u, z)
      BY <2>1, <2>3, <2>4, <2>5 DEF IsThree
    <2>7. p \o u \o z = v
      BY <1>4, <1>6, <1>7, <2>6, ThreeParts
    <2> QED
      BY <2>7 DEF v
  <1> QED
    BY <1>8, <1>9 DEF p, d, u, z

\* The cells of the cursor's line, by their addresses.
LEMMA LineCells ==
    ASSUME ConInv, NEW l \in 0 .. Lines - 1, NEW k \in 0 .. Cols - 1,
           NEW a \in Int, NEW b \in Int, 0 <= a, b <= Cols
    PROVE  /\ con.pos - con.x + a <= Addr(con, l, k) /\ Addr(con, l, k) < con.pos - con.x + b
                  <=> l = con.y /\ a <= k /\ k < b
           /\ l = con.y => Addr(con, l, k) = con.pos - con.x + k
  <1>1. /\ con.pos - con.x <= Addr(con, l, k) <=> l >= con.y
        /\ Addr(con, l, k) < con.pos - con.x + Cols <=> l <= con.y
    BY CellOrder
  <1>2. con.pos \in Int /\ con.x \in Int /\ con.y \in Int /\ Cols \in Int /\ l \in Int /\ k \in Int /\ con.origin \in Int
    BY Addresses
  <1>3. l = con.y => Addr(con, l, k) = con.pos - con.x + k
    <2>1. PICK ly \in Int : ly = con.y * Cols /\ con.pos = con.origin + ly + con.x
      BY CursorPlace DEF ConInv, OnLine
    <2> QED
      BY <1>2, <2>1 DEF Addr
  <1>4. Addr(con, l, k) \in Int
    BY CellIn DEF ConInv, OnLine
  <1> QED
    BY <1>1, <1>2, <1>3, <1>4

\* A line of the screen is replaced.
LEMMA LineSeen ==
    ASSUME ConInv, NEW m \in Memories, NEW v \in [1 .. Cols -> Cells],
           \A l \in 0 .. Lines - 1, k \in 0 .. Cols - 1 :
              m[Addr(con, l, k)] = IF l = con.y THEN v[k + 1] ELSE mem[Addr(con, l, k)]
    PROVE  RowsOf(con, m) = [RowsOf(con, mem) EXCEPT ![con.y + 1] = v]
  <1> DEFINE r == RowsOf(con, mem)
             s == [r EXCEPT ![con.y + 1] = v]
  <1>1. InWindow(con) /\ mem \in Memories /\ con.y \in 0 .. Lines - 1
    BY DEF ConInv, OnLine, Inside, InWindow
  <1>2. r \in Screenfuls /\ RowsOf(con, m) \in Screenfuls
    BY <1>1, SeenCell
  <1>3. PICK y \in 1 .. Lines : y = con.y + 1
    BY <1>1, Sizes
  <1>4. s \in Screenfuls /\ \A l \in 1 .. Lines : s[l] = IF l = y THEN v ELSE r[l]
    BY <1>2, <1>3 DEF Screenfuls
  <1>5. ASSUME NEW l \in 1 .. Lines, NEW k \in 1 .. Cols
        PROVE  RowsOf(con, m)[l][k] = s[l][k]
    <2>1. PICK ll \in 0 .. Lines - 1, kk \in 0 .. Cols - 1 : ll = l - 1 /\ kk = k - 1 /\ kk + 1 = k
      BY Sizes
    <2>2. RowsOf(con, m)[l][k] = m[Addr(con, ll, kk)] /\ RowsOf(con, mem)[l][k] = mem[Addr(con, ll, kk)]
      BY <1>1, <2>1, SeenCell
    <2>3. ll = con.y <=> l = y
      BY <1>1, <1>3, <2>1
    <2> HIDE DEF r, s
    <2> QED
      BY <1>4, <2>1, <2>2, <2>3 DEF r
  <1> HIDE DEF r, s
  <1>6. RowsOf(con, m) = s
    BY <1>2, <1>4, <1>5, SameRows
  <1> QED
    BY <1>6 DEF s, r

\* The cursor's line, when characters come to it or go from it in the memory.
LEMMA CharsInMemory ==
    ASSUME ConInv, NEW n \in 0 .. Cols - con.x
    PROVE  LET row == RowsOf(con, mem)[con.y + 1]
               in  == Fill(Move(mem, con.pos + n, con.pos, Cols - con.x - n), con.pos, n)
               out == Fill(Move(mem, con.pos, con.pos + n, Cols - con.x - n), con.pos + Cols - con.x - n, n)
           IN  /\ RowsOf(con, in) = [RowsOf(con, mem) EXCEPT ![con.y + 1] = InView(row, con.x, n)]
               /\ RowsOf(con, out) = [RowsOf(con, mem) EXCEPT ![con.y + 1] = OutView(row, con.x, n)]
  <1> DEFINE row == RowsOf(con, mem)[con.y + 1]
  <1>1. /\ InWindow(con) /\ mem \in Memories /\ con.y \in 0 .. Lines - 1 /\ con.pos \in Int
        /\ Cols \in Int /\ con.x \in Int /\ 0 <= con.x /\ con.x <= Cols /\ n \in Int /\ 0 <= n /\ con.x + n <= Cols
    BY Addresses DEF ConInv, OnLine, Inside
  <1>2. row \in [1 .. Cols -> Cells] /\ \A k \in 0 .. Cols - 1 : row[k + 1] = mem[Addr(con, con.y, k)]
    <2>1. RowsOf(con, mem) \in Screenfuls
      BY <1>1, SeenCell
    <2>2. con.y + 1 \in 1 .. Lines /\ con.y + 1 - 1 = con.y
      BY <1>1, Sizes
    <2>3. \A k \in 0 .. Cols - 1 : k + 1 \in 1 .. Cols /\ k + 1 - 1 = k
      BY <1>1
    <2>4. \A k \in 0 .. Cols - 1 : row[k + 1] = mem[Addr(con, con.y, k)]
      <3>1. PICK y \in 1 .. Lines : y = con.y + 1 /\ y - 1 = con.y
        BY <1>1, Sizes
      <3>2. TAKE k \in 0 .. Cols - 1
      <3>3. PICK j \in 1 .. Cols : j = k + 1 /\ j - 1 = k
        BY <2>3
      <3>4. RowsOf(con, mem)[y][j] = mem[Addr(con, y - 1, j - 1)]
        BY <1>1, SeenCell
      <3> QED
        BY <3>1, <3>3, <3>4
    <2> QED
      BY <2>1, <2>2, <2>4 DEF Screenfuls
  <1> HIDE DEF row
  <1>3. PICK s \in Int, len \in Int :
             /\ s = con.pos - con.x /\ con.pos = s + con.x /\ len = Cols - con.x - n
             /\ con.pos + Cols - con.x - n = s + con.x + len
    BY <1>1
  <1>4. InView(row, con.x, n) \in [1 .. Cols -> Cells] /\ OutView(row, con.x, n) \in [1 .. Cols -> Cells]
    <2>1. \A k \in 1 .. Cols : /\ ~(k <= con.x) /\ ~(k <= con.x + n) => k - n \in 1 .. Cols
                               /\ k <= Cols - n => k + n \in 1 .. Cols
      BY <1>1
    <2>2. Blank \in Cells
      BY DEF Cells
    <2> QED
      BY <1>2, <2>1, <2>2 DEF InView, OutView
  <1>5. ASSUME NEW l \in 0 .. Lines - 1, NEW k \in 0 .. Cols - 1
        PROVE  /\ Addr(con, l, k) \in Int /\ Addr(con, l, k) \in Memory
               /\ l = con.y => Addr(con, l, k) = s + k
               /\ \A a, b \in Int : 0 <= a /\ a + b <= Cols =>
                     (Addr(con, l, k) \in s + a .. s + a + b - 1 <=> l = con.y /\ a <= k /\ k < a + b)
    <2>1. Addr(con, l, k) \in Int /\ Addr(con, l, k) \in Memory
      BY <1>1, CellIn
    <2>2. ASSUME NEW a \in Int, NEW b \in Int, 0 <= a, a + b <= Cols
          PROVE  Addr(con, l, k) \in s + a .. s + a + b - 1 <=> l = con.y /\ a <= k /\ k < a + b
      <3>1. PICK e \in Int : e = a + b /\ e <= Cols
        BY <2>2
      <3>2. s + a <= Addr(con, l, k) /\ Addr(con, l, k) < s + e <=> l = con.y /\ a <= k /\ k < e
        BY <1>3, <2>2, <3>1, LineCells
      <3> QED
        BY <2>1, <3>1, <3>2
    <2>3. l = con.y => Addr(con, l, k) = s + k
      <3>1. 0 \in Int /\ 0 <= 0 /\ 0 <= Cols
        BY <1>1
      <3> QED
        BY <1>3, <3>1, LineCells
    <2> QED
      BY <2>1, <2>2, <2>3
  <1>6. RowsOf(con, Fill(Move(mem, con.pos + n, con.pos, Cols - con.x - n), con.pos, n)) =
             [RowsOf(con, mem) EXCEPT ![con.y + 1] = InView(row, con.x, n)]
    <2> DEFINE g == Move(mem, con.pos + n, con.pos, Cols - con.x - n)
               m == Fill(g, con.pos, n)
    <2>1. m \in Memories
      <3>1. Inside(g)
        BY <1>1, Addresses, MoveInside DEF ConInv
      <3>2. Inside(m)
        BY <1>1, <3>1, Addresses, FillInside
      <3> QED
        BY <3>2 DEF Inside
    <2>2. ASSUME NEW l \in 0 .. Lines - 1, NEW k \in 0 .. Cols - 1
          PROVE  m[Addr(con, l, k)] = IF l = con.y THEN InView(row, con.x, n)[k + 1] ELSE mem[Addr(con, l, k)]
      <3> DEFINE i == Addr(con, l, k)
      <3>1. i \in con.pos .. con.pos + n - 1 <=> l = con.y /\ con.x <= k /\ k < con.x + n
        BY <1>1, <1>3, <1>5
      <3>2. i \in con.pos + n .. con.pos + n + (Cols - con.x - n) - 1 <=> l = con.y /\ con.x + n <= k
        <4>1. PICK a \in Int : a = con.x + n /\ 0 <= a /\ a + len = Cols
          BY <1>1, <1>3
        <4>2. i \in s + a .. s + a + len - 1 <=> l = con.y /\ a <= k /\ k < a + len
          BY <1>3, <1>5, <4>1
        <4>3. con.pos + n = s + a /\ con.pos + n + (Cols - con.x - n) - 1 = s + a + len - 1
          BY <1>1, <1>3, <4>1
        <4>4. k < a + len
          BY <1>1, <4>1
        <4> QED
          BY <4>1, <4>2, <4>3, <4>4
      <3>3. i \in Memory /\ i \in Int /\ (l = con.y => i = s + k)
        BY <1>5
      <3>4. g[i] = IF l = con.y /\ con.x + n <= k THEN mem[con.pos + (i - (con.pos + n))] ELSE mem[i]
        BY <3>2, <3>3 DEF Move
      <3> HIDE DEF g
      <3>5. m[i] = IF l = con.y /\ con.x <= k /\ k < con.x + n THEN Blank ELSE g[i]
        BY <3>1, <3>3 DEF Fill
      <3> HIDE DEF m
      <3>6. ASSUME l = con.y PROVE m[i] = InView(row, con.x, n)[k + 1]
        <4>1. k + 1 \in 1 .. Cols /\ k \in Int
          BY <1>1
        <4>2. InView(row, con.x, n)[k + 1] =
                 IF k + 1 <= con.x THEN row[k + 1] ELSE IF k + 1 <= con.x + n THEN Blank ELSE row[(k + 1) - n]
          BY <4>1 DEF InView
        <4>3. row[k + 1] = mem[i]
          BY <1>2, <3>6
        <4>4. CASE k < con.x
          <5>1. k + 1 <= con.x /\ ~(con.x <= k) /\ ~(con.x + n <= k)
            BY <1>1, <4>1, <4>4
          <5> QED
            BY <3>4, <3>5, <4>2, <4>3, <5>1
        <4>5. CASE con.x <= k /\ k < con.x + n
          <5>1. ~(k + 1 <= con.x) /\ k + 1 <= con.x + n
            BY <1>1, <4>1, <4>5
          <5> QED
            BY <3>5, <3>6, <4>2, <4>5, <5>1
        <4>6. CASE con.x + n <= k
          <5>1. /\ ~(k + 1 <= con.x) /\ ~(k + 1 <= con.x + n) /\ ~(k < con.x + n)
                /\ k - n \in 0 .. Cols - 1 /\ (k + 1) - n = (k - n) + 1
            BY <1>1, <4>1, <4>6
          <5>2. con.pos + (i - (con.pos + n)) = s + (k - n)
            BY <1>1, <1>3, <3>3, <3>6, <4>1
          <5>3. Addr(con, con.y, k - n) = s + (k - n)
            BY <1>1, <1>5, <5>1
          <5>4. row[(k + 1) - n] = mem[s + (k - n)]
            BY <1>2, <5>1, <5>3
          <5> QED
            BY <3>4, <3>5, <3>6, <4>2, <4>6, <5>1, <5>2, <5>4
        <4> QED
          BY <1>1, <4>1, <4>4, <4>5, <4>6
      <3>7. l # con.y => m[i] = mem[i]
        BY <3>4, <3>5
      <3> QED
        BY <3>6, <3>7
    <2> HIDE DEF m
    <2>3. RowsOf(con, m) = [RowsOf(con, mem) EXCEPT ![con.y + 1] = InView(row, con.x, n)]
      BY <1>4, <2>1, <2>2, LineSeen
    <2> QED
      BY <2>3 DEF m
  <1>7. RowsOf(con, Fill(Move(mem, con.pos, con.pos + n, Cols - con.x - n), con.pos + Cols - con.x - n, n)) =
             [RowsOf(con, mem) EXCEPT ![con.y + 1] = OutView(row, con.x, n)]
    <2> DEFINE g == Move(mem, con.pos, con.pos + n, Cols - con.x - n)
               m == Fill(g, con.pos + Cols - con.x - n, n)
    <2>1. m \in Memories
      <3>1. Inside(g)
        BY <1>1, Addresses, MoveInside DEF ConInv
      <3>2. Inside(m)
        BY <1>1, <3>1, Addresses, FillInside
      <3> QED
        BY <3>2 DEF Inside
    <2>2. ASSUME NEW l \in 0 .. Lines - 1, NEW k \in 0 .. Cols - 1
          PROVE  m[Addr(con, l, k)] = IF l = con.y THEN OutView(row, con.x, n)[k + 1] ELSE mem[Addr(con, l, k)]
      <3> DEFINE i == Addr(con, l, k)
      <3>1. i \in con.pos .. con.pos + (Cols - con.x - n) - 1 <=> l = con.y /\ con.x <= k /\ k < Cols - n
        <4>1. con.x + len <= Cols /\ con.x + len = Cols - n
          BY <1>1, <1>3
        <4>2. i \in s + con.x .. s + con.x + len - 1 <=> l = con.y /\ con.x <= k /\ k < con.x + len
          BY <1>1, <1>3, <1>5, <4>1
        <4> QED
          BY <1>3, <4>1, <4>2
      <3>2. i \in con.pos + Cols - con.x - n .. con.pos + Cols - con.x - n + n - 1 <=> l = con.y /\ Cols - n <= k
        <4>1. PICK a \in Int : a = Cols - n /\ 0 <= a /\ a + n = Cols /\ a + n <= Cols
          BY <1>1
        <4>2. i \in s + a .. s + a + n - 1 <=> l = con.y /\ a <= k /\ k < a + n
          <5>1. n \in Int
            BY <1>1
          <5> QED
            BY <1>5, <4>1, <5>1
        <4>3. con.pos + Cols - con.x - n = s + a
          BY <1>1, <1>3, <4>1
        <4>4. k < a + n
          BY <1>1, <4>1
        <4> QED
          BY <4>1, <4>2, <4>3, <4>4
      <3>3. i \in Memory /\ i \in Int /\ (l = con.y => i = s + k)
        BY <1>5
      <3>4. g[i] = IF l = con.y /\ con.x <= k /\ k < Cols - n THEN mem[con.pos + n + (i - con.pos)] ELSE mem[i]
        BY <3>1, <3>3 DEF Move
      <3> HIDE DEF g
      <3>5. m[i] = IF l = con.y /\ Cols - n <= k THEN Blank ELSE g[i]
        BY <3>2, <3>3 DEF Fill
      <3> HIDE DEF m
      <3>6. ASSUME l = con.y PROVE m[i] = OutView(row, con.x, n)[k + 1]
        <4>1. k + 1 \in 1 .. Cols /\ k \in Int
          BY <1>1
        <4>2. OutView(row, con.x, n)[k + 1] =
                 IF k + 1 <= con.x THEN row[k + 1] ELSE IF k + 1 <= Cols - n THEN row[(k + 1) + n] ELSE Blank
          BY <4>1 DEF OutView
        <4>3. row[k + 1] = mem[i]
          BY <1>2, <3>6
        <4>4. CASE k < con.x
          <5>1. k + 1 <= con.x /\ ~(con.x <= k) /\ ~(Cols - n <= k)
            BY <1>1, <4>1, <4>4
          <5> QED
            BY <3>4, <3>5, <4>2, <4>3, <5>1
        <4>5. CASE con.x <= k /\ k < Cols - n
          <5>1. /\ ~(k + 1 <= con.x) /\ k + 1 <= Cols - n /\ ~(Cols - n <= k)
                /\ k + n \in 0 .. Cols - 1 /\ (k + 1) + n = (k + n) + 1
            BY <1>1, <4>1, <4>5
          <5>2. con.pos + n + (i - con.pos) = s + (k + n)
            BY <1>1, <1>3, <3>3, <3>6, <4>1
          <5>3. Addr(con, con.y, k + n) = s + (k + n)
            BY <1>1, <1>5, <5>1
          <5>4. row[(k + 1) + n] = mem[s + (k + n)]
            BY <1>2, <5>1, <5>3
          <5> QED
            BY <3>4, <3>5, <3>6, <4>2, <4>5, <5>1, <5>2, <5>4
        <4>6. CASE Cols - n <= k
          <5>1. ~(k + 1 <= con.x) /\ ~(k + 1 <= Cols - n)
            BY <1>1, <4>1, <4>6
          <5> QED
            BY <3>5, <3>6, <4>2, <4>6, <5>1
        <4> QED
          BY <1>1, <4>1, <4>4, <4>5, <4>6
      <3>7. l # con.y => m[i] = mem[i]
        BY <3>4, <3>5
      <3> QED
        BY <3>6, <3>7
    <2> HIDE DEF m
    <2>3. RowsOf(con, m) = [RowsOf(con, mem) EXCEPT ![con.y + 1] = OutView(row, con.x, n)]
      BY <1>4, <2>1, <2>2, LineSeen
    <2> QED
      BY <2>3 DEF m
  <1> QED
    BY <1>6, <1>7 DEF row

\* csi_at() and csi_P(), of no character and of some.
LEMMA CharsSeen ==
    ASSUME ConInv, NEW p \in 0 .. Word - 1, InsertChars(p) \/ DeleteChars(p)
    PROVE  (\E n \in 1 .. Cols - con.x : Seen!CharsInOut(n)) \/ UNCHANGED Seen!seen
  <1> DEFINE r == RowsOf(con, mem)
             row == r[con.y + 1]
  <1>1. PICK n \in 0 .. Cols - con.x : n = AtMost(Times(p, Cols), Cols - con.x)
    BY CharsFit
  <1> DEFINE in  == Fill(Move(mem, con.pos + n, con.pos, Cols - con.x - n), con.pos, n)
             out == Fill(Move(mem, con.pos, con.pos + n, Cols - con.x - n), con.pos + Cols - con.x - n, n)
  <1>2. Stores(in) \/ Stores(out)
    BY <1>1 DEF InsertChars, DeleteChars
  <1>3. /\ RowsOf(con, in) = [r EXCEPT ![con.y + 1] = InView(row, con.x, n)]
        /\ RowsOf(con, out) = [r EXCEPT ![con.y + 1] = OutView(row, con.x, n)]
    BY CharsInMemory
  <1> HIDE DEF in, out
  <1>4. /\ con'.x = con.x /\ con'.y = con.y /\ top' = top /\ bottom' = bottom
        /\ \/ RowsOf(con', mem') = [r EXCEPT ![con.y + 1] = InView(row, con.x, n)]
           \/ RowsOf(con', mem') = [r EXCEPT ![con.y + 1] = OutView(row, con.x, n)]
    BY <1>2, <1>3, StoresSeen
  <1>5. /\ con.x \in Int /\ 0 <= con.x /\ con.x <= Cols /\ Cols \in Int /\ n \in Int /\ 0 <= n /\ con.x + n <= Cols
    BY Addresses
  <1>6. r \in Screenfuls /\ con.y + 1 \in 1 .. Lines
    BY SeenCell, Sizes DEF ConInv, OnLine, InWindow, Inside
  <1>7. row \in [1 .. Cols -> Cells] /\ r = [l \in 1 .. Lines |-> r[l]]
    BY <1>6 DEF Screenfuls
  <1>8. CASE n = 0
    <2>1. row = [k \in 1 .. Cols |-> row[k]]
      BY <1>7
    <2>2. InView(row, con.x, n) = row /\ OutView(row, con.x, n) = row
      <3>1. ASSUME NEW k \in 1 .. Cols
            PROVE  /\ (IF k <= con.x THEN row[k] ELSE IF k <= con.x + n THEN Blank ELSE row[k - n]) = row[k]
                   /\ (IF k <= con.x THEN row[k] ELSE IF k <= Cols - n THEN row[k + n] ELSE Blank) = row[k]
        <4> HIDE DEF row
        <4>1. k - n = k /\ k + n = k /\ con.x + n = con.x /\ k <= Cols - n
          BY <1>5, <1>8
        <4> QED
          BY <4>1
      <3>2. InView(row, con.x, n) = [k \in 1 .. Cols |-> row[k]] /\ OutView(row, con.x, n) = [k \in 1 .. Cols |-> row[k]]
        BY <3>1 DEF InView, OutView
      <3> QED
        BY <2>1, <3>2, Zenon
    <2>3. [r EXCEPT ![con.y + 1] = row] = r
      BY <1>7
    <2>4. RowsOf(con', mem') = r
      BY <1>4, <2>2, <2>3
    <2> QED
      BY <1>4, <2>4, NothingSeen
  <1>9. CASE n # 0
    <2>1. n \in 1 .. Cols - con.x
      BY <1>9
    <2> DEFINE z == [i \in 1 .. n |-> Blank]
    <2>2. /\ SubSeq(row, 1, con.x) \o z \o SubSeq(row, con.x + 1, Cols - n) = InView(row, con.x, n)
          /\ SubSeq(row, 1, con.x) \o SubSeq(row, con.x + n + 1, Cols) \o z = OutView(row, con.x, n)
      BY <1>5, <1>7, CharsAreViews
    <2>3. RowsOf(con', mem') \in
             {[r EXCEPT ![con.y + 1] = SubSeq(row, 1, con.x) \o z \o SubSeq(row, con.x + 1, Cols - n)],
              [r EXCEPT ![con.y + 1] = SubSeq(row, 1, con.x) \o SubSeq(row, con.x + n + 1, Cols) \o z]}
      BY <1>4, <2>2
    <2>4. Seen!CharsInOut(n)
      BY <1>4, <2>3 DEF Seen!CharsInOut, RowsOf
    <2> QED
      BY <2>1, <2>4
  <1> QED
    BY <1>8, <1>9

\* The screen is blank at the start.
LEMMA StartSeen == ConInit => Seen!SeenInit
  <1> SUFFICES ASSUME ConInit PROVE Seen!SeenInit
    OBVIOUS
  <1>1. InWindow(con) /\ mem \in Memories
    BY ConStart DEF ConInv, OnLine, Inside
  <1>2. ASSUME NEW l \in 1 .. Lines, NEW k \in 1 .. Cols PROVE RowsOf(con, mem)[l][k] = Blank
    <2>1. PICK y \in 0 .. Lines - 1, x \in 0 .. Cols - 1 : y = l - 1 /\ x = k - 1
      BY Sizes
    <2>2. RowsOf(con, mem)[l][k] = mem[Addr(con, y, x)]
      BY <1>1, <2>1, SeenCell
    <2>3. Addr(con, y, x) \in 0 .. video_mem_end - 1 /\ Addr(con, y, x) \in Memory
      BY <1>1, CellIn
    <2> QED
      BY <2>2, <2>3 DEF ConInit
  <1>3. Seen!BlankRows(Lines) \in Screenfuls /\ \A l \in 1 .. Lines, k \in 1 .. Cols : Seen!BlankRows(Lines)[l][k] = Blank
    BY DEF Seen!BlankRows, Seen!BlankRow, Screenfuls, Cells
  <1>4. RowsOf(con, mem) \in Screenfuls
    BY <1>1, SeenCell
  <1>5. RowsOf(con, mem) = Seen!BlankRows(Lines)
    BY <1>2, <1>3, <1>4, SameRows
  <1>6. con.x = 0 /\ con.y = 0 /\ top = 0 /\ bottom = Lines
    BY DEF ConInit
  <1> QED
    BY <1>5, <1>6 DEF Seen!SeenInit, RowsOf

\* Every step is a step of the plain screen, or none.
LEMMA StepSeen == ConInv /\ ConInv' /\ [ConNext]_conVars => [Seen!SeenNext]_Seen!seen
  <1> SUFFICES ASSUME ConInv, ConInv', [ConNext]_conVars PROVE Seen!SeenNext \/ UNCHANGED Seen!seen
    BY DEF Seen!seen
  <1> USE DEF Seen!SeenNext
  <1>1. CASE \E char \in Chars : PutChar(char)
    BY <1>1, PutCharSeen
  <1>2. CASE LineFeed \/ ReverseFeed \/ Del \/ Tab
    BY <1>2, LineFeedSeen, ReverseFeedSeen, DelSeen, TabSeen
  <1>3. CASE CarriageReturn \/ Backspace
    BY <1>3, BackSeen
  <1>4. ASSUME NEW p \in 0 .. Word - 1, EraseDisplay(p) \/ EraseLine(p)
        PROVE  Seen!SeenNext
    BY <1>4, EraseDisplaySeen, EraseLineSeen
  <1>5. ASSUME NEW p \in 0 .. Word - 1, InsertLines(p) \/ DeleteLines(p)
        PROVE  Seen!SeenNext
    BY <1>5, InsertLinesSeen, DeleteLinesSeen
  <1>6. ASSUME NEW p \in 0 .. Word - 1, InsertChars(p) \/ DeleteChars(p)
        PROVE  Seen!SeenNext \/ UNCHANGED Seen!seen
    BY <1>6, CharsSeen
  <1>7. ASSUME NEW p \in 0 .. Word - 1, Goto(p) \/ \E q \in 0 .. Word - 1 : GotoXY(p, q) \/ SetRegion(p, q)
        PROVE  Seen!SeenNext
    BY <1>7, GotoSequencesSeen, SetRegionSeen
  <1>8. CASE Restore
    <2>1. 0 \in 0 .. Word - 1
      BY Sizes
    <2> QED
      BY <1>8, <2>1, GotoSequencesSeen
  <1>9. CASE UNCHANGED conVars
    BY <1>9 DEF conVars, Seen!seen
  <1> QED
    BY <1>1, <1>2, <1>3, <1>4, <1>5, <1>6, <1>7, <1>8, <1>9 DEF ConNext

\* What con_write() shows, on a screen of any size and whether or not it scrolls by moving its window, is
\* what a plain screen of lines would show: the window in the video memory, its wrapping to the start and the
\* copies of lines cannot be told from lines that scroll.
THEOREM ConsoleImplementsScreen == ConSpec => ImplementsScreen
  <1>1. ConInit /\ [][ConNext]_conVars => []ConInv
    BY ConStart, ConNextKeeps, PTL
  <1>2. ConInit /\ [][ConNext]_conVars => Seen!SeenInit /\ [][Seen!SeenNext]_Seen!seen
    BY <1>1, StartSeen, StepSeen, PTL
  <1> QED
    BY <1>2 DEF ConSpec, ImplementsScreen, Seen!SeenSpec

-----------------------------------------------------------------------------
(* The serial terminal. *)

\* Where a call of read() or write() can be.
CallPlaces == {"user", "loop", "asleep", "ready", "take", "fetch", "store", "scheduled"}

TtyStates ==
    [canon : BOOLEAN, echo : BOOLEAN, read_q : Seq(Typed), secondary : Seq(Typed), data : Int, head : Int,
     tx : BOOLEAN, signal : SUBSET {"rd", "wr"}, typed : Int, torn : BOOLEAN,
     rd : [at : CallPlaces, nr : Int, c : Typed], wr : [at : CallPlaces, nr : Int, h : Int]]

LinesIn(q) == Cardinality({i \in DOMAIN q : q[i] \in Eols})

\* secondary.data is right in the state s.
Counted(s) == s \in TtyStates /\ s.data = LinesIn(s.secondary)

TtyInv == tt \in TtyStates /\ (tt.torn \/ Counted(tt))

\* The places of a queue are finitely many.
LEMMA PlacesFinite ==
    ASSUME NEW q \in Seq(Typed)
    PROVE  IsFiniteSet({i \in DOMAIN q : q[i] \in Eols}) /\ LinesIn(q) \in Nat
  <1>1. IsFiniteSet(1 .. Len(q)) /\ DOMAIN q = 1 .. Len(q) /\ Len(q) \in Nat
    BY FS_Interval
  <1>2. {i \in DOMAIN q : q[i] \in Eols} \subseteq 1 .. Len(q)
    BY <1>1
  <1>3. IsFiniteSet({i \in DOMAIN q : q[i] \in Eols})
    BY <1>1, <1>2, FS_Subset
  <1> QED
    BY <1>3, FS_CardinalityType DEF LinesIn

\* A character that is appended is a line more if it ends one.
LEMMA LinesAppended ==
    ASSUME NEW q \in Seq(Typed), NEW c \in Typed
    PROVE  /\ c \in Eols => LinesIn(Append(q, c)) = LinesIn(q) + 1
           /\ c \notin Eols => LinesIn(Append(q, c)) = LinesIn(q)
  <1> DEFINE S == {i \in DOMAIN q : q[i] \in Eols}
             R == {i \in DOMAIN Append(q, c) : Append(q, c)[i] \in Eols}
             n == Len(q) + 1
  <1>1. /\ DOMAIN q = 1 .. Len(q) /\ DOMAIN Append(q, c) = 1 .. n /\ Len(q) \in Nat
        /\ Append(q, c)[n] = c /\ \A i \in 1 .. Len(q) : Append(q, c)[i] = q[i]
    OBVIOUS
  <1>2. IsFiniteSet(S) /\ n \notin S /\ Cardinality(S) \in Nat
    <2>1. n \notin S
      BY <1>1
    <2>2. IsFiniteSet(S)
      BY PlacesFinite
    <2> QED
      BY <2>1, <2>2, FS_CardinalityType
  <1>3. ASSUME c \in Eols PROVE LinesIn(Append(q, c)) = LinesIn(q) + 1
    <2>1. R = S \cup {n}
      BY <1>1, <1>3
    <2> QED
      BY <1>2, <1>3, <2>1, FS_AddElement DEF LinesIn
  <1>4. ASSUME c \notin Eols PROVE LinesIn(Append(q, c)) = LinesIn(q)
    <2>1. R = S
      BY <1>1, <1>4
    <2> QED
      BY <1>2, <1>4, <2>1 DEF LinesIn
  <1> QED
    BY <1>3, <1>4, Zenon

\* A queue without its first character has a line less if that ends one.
LEMMA LinesTaken ==
    ASSUME NEW q \in Seq(Typed), q # <<>>
    PROVE  /\ Head(q) \in Eols => LinesIn(Tail(q)) = LinesIn(q) - 1
           /\ Head(q) \notin Eols => LinesIn(Tail(q)) = LinesIn(q)
  <1> DEFINE S == {i \in DOMAIN q : q[i] \in Eols}
             R == {i \in DOMAIN Tail(q) : Tail(q)[i] \in Eols}
             f == [i \in R |-> i + 1]
  <1>1. /\ Len(q) \in Nat \ {0} /\ DOMAIN q = 1 .. Len(q) /\ DOMAIN Tail(q) = 1 .. Len(q) - 1
        /\ Head(q) = q[1] /\ \A i \in 1 .. Len(q) - 1 : Tail(q)[i] = q[i + 1]
        /\ Tail(q) \in Seq(Typed)
    OBVIOUS
  <1>2. IsFiniteSet(S) /\ IsFiniteSet(R) /\ Cardinality(S) \in Nat
    BY <1>1, PlacesFinite, FS_CardinalityType
  <1>3. Cardinality(R) = Cardinality(S \ {1})
    <2>1. f \in Bijection(R, S \ {1})
      <3>1. f \in [R -> S \ {1}]
        BY <1>1
      <3>2. \A i, j \in R : f[i] = f[j] => i = j
        BY <1>1
      <3>3. \A k \in S \ {1} : \E i \in R : f[i] = k
        <4> TAKE k \in S \ {1}
        <4>1. k - 1 \in R /\ f[k - 1] = k
          BY <1>1
        <4> QED
          BY <4>1
      <3> QED
        BY <3>1, <3>2, <3>3, Fun_IsBij
    <2>2. ExistsBijection(R, S \ {1})
      BY <2>1 DEF ExistsBijection
    <2>3. IsFiniteSet(S \ {1})
      BY <1>2, FS_RemoveElement
    <2> QED
      BY <1>2, <2>2, <2>3, FS_Bijection
  <1>4. ASSUME q[1] \in Eols PROVE LinesIn(Tail(q)) = LinesIn(q) - 1
    <2>1. 1 \in S
      BY <1>1, <1>4
    <2>2. Cardinality(S \ {1}) = Cardinality(S) - 1
      BY <1>2, <2>1, FS_RemoveElement
    <2> QED
      BY <1>1, <1>2, <1>3, <1>4, <2>2 DEF LinesIn
  <1>5. ASSUME q[1] \notin Eols PROVE LinesIn(Tail(q)) = LinesIn(q)
    <2>1. S \ {1} = S
      BY <1>1, <1>5
    <2> QED
      BY <1>1, <1>2, <1>3, <1>5, <2>1 DEF LinesIn
  <1> QED
    BY <1>1, <1>4, <1>5, Zenon

\* No line goes with characters that end none.
LEMMA LinesCut ==
    ASSUME NEW q \in Seq(Typed), NEW n \in 0 .. Len(q), \A i \in Len(q) - n + 1 .. Len(q) : q[i] \notin Eols
    PROVE  SubSeq(q, 1, Len(q) - n) \in Seq(Typed) /\ LinesIn(SubSeq(q, 1, Len(q) - n)) = LinesIn(q)
  <1> DEFINE p == SubSeq(q, 1, Len(q) - n)
  <1>1. /\ Len(q) \in Nat /\ DOMAIN q = 1 .. Len(q) /\ DOMAIN p = 1 .. Len(q) - n /\ p \in Seq(Typed)
        /\ \A i \in 1 .. Len(q) - n : p[i] = q[i]
    OBVIOUS
  <1>2. {i \in DOMAIN p : p[i] \in Eols} = {i \in DOMAIN q : q[i] \in Eols}
    BY <1>1
  <1> QED
    BY <1>1, <1>2 DEF LinesIn


-----------------------------------------------------------------------------

\* The cooking of a character is about one state and the next: it keeps what still has to be cooked.
Kept(s, t) == t.read_q = s.read_q /\ t.torn = s.torn

LEMMA EchoKeeps ==
    ASSUME NEW s \in TtyStates, NEW n \in Nat
    PROVE  Echo(s, n) \in TtyStates /\ Kept(s, Echo(s, n))
           /\ Echo(s, n).secondary = s.secondary /\ Echo(s, n).data = s.data /\ Echo(s, n).signal = s.signal
  <1> DEFINE head == (s.head + n) % TTY_BUF_SIZE
             on == s.tx \/ head # 0
             t == [s EXCEPT !.head = head, !.tx = on]
  <1>1. head \in Int /\ on \in BOOLEAN
    <2>1. s.head \in Int /\ s.tx \in BOOLEAN /\ TTY_BUF_SIZE \in Nat \ {0}
      BY TtyAssumption DEF TtyStates
    <2> QED
      BY <2>1
  <1>2. Echo(s, n) = s \/ Echo(s, n) = t
    BY DEF Echo
  <1> HIDE DEF head, on
  <1>3. t \in TtyStates /\ Kept(s, t) /\ t.secondary = s.secondary /\ t.data = s.data /\ t.signal = s.signal
    BY <1>1 DEF TtyStates, Kept
  <1> QED
    BY <1>2, <1>3 DEF Kept

\* Characters are erased only behind the last end of a line.
LEMMA EraseKeeps ==
    ASSUME NEW s, Counted(s), NEW n \in Erasable(s)
    PROVE  Counted(Erase(s, n)) /\ Kept(s, Erase(s, n))
  <1> DEFINE e == Echo(s, n)
             q == s.secondary
             cut == SubSeq(q, 1, Len(q) - n)
             on == e.tx \/ (s.echo /\ n > 1)
             t == [e EXCEPT !.secondary = cut, !.tx = on]
  <1>1. s \in TtyStates /\ q \in Seq(Typed) /\ n \in 0 .. Len(q) /\ \A i \in Len(q) - n + 1 .. Len(q) : q[i] \notin Eols
    BY DEF Counted, TtyStates, Erasable
  <1>2. n \in Nat
    BY <1>1
  <1>3. e \in TtyStates /\ Kept(s, e) /\ e.secondary = q /\ e.data = s.data
    BY <1>1, <1>2, EchoKeeps
  <1>4. cut \in Seq(Typed) /\ LinesIn(cut) = LinesIn(q)
    BY <1>1, LinesCut
  <1>5. Erase(s, n) = t
    BY <1>3 DEF Erase
  <1>6. on \in BOOLEAN
    BY <1>1, <1>2, <1>3 DEF TtyStates
  <1> HIDE DEF e, cut, on, q
  <1>7. t \in TtyStates /\ Kept(e, t) /\ t.secondary = cut /\ t.data = e.data
    BY <1>3, <1>4, <1>6 DEF TtyStates, Kept
  <1>8. s.data = LinesIn(q)
    BY DEF Counted, q
  <1> QED
    BY <1>3, <1>4, <1>5, <1>7, <1>8 DEF Counted, Kept

\* What is stored is counted if it ends a line.
LEMMA StoreKeeps ==
    ASSUME NEW s, Counted(s), NEW c \in Typed
    PROVE  Counted(Store(s, c)) /\ Kept(s, Store(s, c))
  <1> DEFINE n == IF c \in {"nl", "eof", "intr"} THEN 2 ELSE 1
             e == Echo(s, n)
             longer == Append(s.secondary, c)
             count == IF c \in Eols THEN s.data + 1 ELSE s.data
             t == [e EXCEPT !.secondary = longer, !.data = count]
  <1>1. s \in TtyStates /\ s.secondary \in Seq(Typed) /\ s.data \in Int /\ s.data = LinesIn(s.secondary) /\ n \in Nat
    BY DEF Counted, TtyStates
  <1>2. e \in TtyStates /\ Kept(s, e) /\ e.secondary = s.secondary /\ e.data = s.data
    BY <1>1, EchoKeeps
  <1>3. longer \in Seq(Typed)
    BY <1>1
  <1>4. LinesIn(longer) = count /\ count \in Int
    BY <1>1, LinesAppended
  <1>5. Store(s, c) = t
    BY <1>2 DEF Store
  <1> HIDE DEF e, longer, count
  <1>6. t \in TtyStates /\ Kept(e, t) /\ t.secondary = longer /\ t.data = count
    BY <1>2, <1>3, <1>4 DEF TtyStates, Kept
  <1> QED
    BY <1>2, <1>4, <1>5, <1>6 DEF Counted, Kept

\* There is a longest part that may be erased, and with it every shorter one.
LEMMA ErasableHasMax ==
    ASSUME NEW s, Counted(s)
    PROVE  LET max == CHOOSE n \in Erasable(s) : \A m \in Erasable(s) : m <= n
           IN  max \in Erasable(s) /\ (IF max > 0 THEN 1 ELSE 0) \in Erasable(s)
  <1> DEFINE q == s.secondary
             max == CHOOSE n \in Erasable(s) : \A m \in Erasable(s) : m <= n
             T == {k \in Nat : k <= Len(q) /\ Len(q) - k \in Erasable(s)}
  <1>1. q \in Seq(Typed) /\ Len(q) \in Nat
    BY DEF Counted, TtyStates
  <1>2. \A n : n \in Erasable(s) <=> n \in 0 .. Len(q) /\ \A i \in Len(q) - n + 1 .. Len(q) : q[i] \notin Eols
    BY DEF Erasable
  <1>3. 0 \in Erasable(s)
    BY <1>1, <1>2
  <1> HIDE DEF q
  <1>4. Len(q) \in T
    BY <1>1, <1>3
  <1>5. PICK k \in T : \A m \in T : k <= m
    BY <1>4, LeastOf
  <1>6. Len(q) - k \in Erasable(s)
    BY <1>5
  <1>7. \A m \in Erasable(s) : m <= Len(q) - k
    <2> TAKE m \in Erasable(s)
    <2>1. m \in 0 .. Len(q)
      BY <1>2
    <2>2. Len(q) - m \in Nat /\ Len(q) - m <= Len(q) /\ Len(q) - (Len(q) - m) = m
      BY <1>1, <2>1
    <2>3. k <= Len(q) - m
      BY <1>5, <2>2
    <2> QED
      BY <1>1, <1>5, <2>1, <2>3
  <1>8. max \in Erasable(s)
    BY <1>6, <1>7
  <1> HIDE DEF max
  <1>9. max > 0 => 1 \in Erasable(s)
    <2>1. max \in 0 .. Len(q) /\ \A i \in Len(q) - max + 1 .. Len(q) : q[i] \notin Eols
      BY <1>2, <1>8
    <2>2. max > 0 => 1 \in 0 .. Len(q) /\ \A i \in Len(q) - 1 + 1 .. Len(q) : q[i] \notin Eols
      BY <1>1, <2>1
    <2> QED
      BY <1>2, <2>2
  <1> QED
    BY <1>3, <1>8, <1>9 DEF max

\* One turn of the loop of copy_to_cooked().
LEMMA CookKeeps ==
    ASSUME NEW s, Counted(s), NEW c \in Typed
    PROVE  Counted(CookOne(s, c)) /\ Kept(s, CookOne(s, c))
  <1> DEFINE max == CHOOSE n \in Erasable(s) : \A m \in Erasable(s) : m <= n
             t == [s EXCEPT !.signal = {"rd", "wr"}]
  <1>1. max \in Erasable(s) /\ (IF max > 0 THEN 1 ELSE 0) \in Erasable(s)
    BY ErasableHasMax
  <1>2. Counted(t) /\ Kept(s, t)
    BY DEF Counted, TtyStates, Kept
  <1>3. \/ CookOne(s, c) = Erase(s, max)
        \/ CookOne(s, c) = Erase(s, IF max > 0 THEN 1 ELSE 0)
        \/ CookOne(s, c) = t
        \/ CookOne(s, c) = Store(s, c)
    BY DEF CookOne
  <1> HIDE DEF max
  <1> QED
    BY <1>1, <1>2, <1>3, EraseKeeps, StoreKeeps, Zenon

\* What the loop does to a state whose read queue is not empty.
Turn(t) ==
    IF FULL(t.secondary) THEN t ELSE CookOne([t EXCEPT !.read_q = Tail(@)], Head(t.read_q))

LEMMA TurnKeeps ==
    ASSUME NEW t, Counted(t), t.read_q # <<>>
    PROVE  /\ Counted(Turn(t)) /\ Turn(t).torn = t.torn
           /\ ~FULL(t.secondary) => Len(Turn(t).read_q) = Len(t.read_q) - 1
  <1> DEFINE r == [t EXCEPT !.read_q = Tail(@)]
             c == Head(t.read_q)
  <1>1. t \in TtyStates /\ t.read_q \in Seq(Typed) /\ Tail(t.read_q) \in Seq(Typed) /\ c \in Typed
        /\ Len(Tail(t.read_q)) = Len(t.read_q) - 1
    BY DEF Counted, TtyStates
  <1>2. Counted(r) /\ r.torn = t.torn /\ r.read_q = Tail(t.read_q)
    BY <1>1 DEF Counted, TtyStates
  <1> HIDE DEF r, c
  <1>3. Counted(CookOne(r, c)) /\ Kept(r, CookOne(r, c))
    BY <1>1, <1>2, CookKeeps
  <1>4. Turn(t) = IF FULL(t.secondary) THEN t ELSE CookOne(r, c)
    BY DEF Turn, r, c
  <1> QED
    BY <1>1, <1>2, <1>3, <1>4 DEF Kept

\* copy_to_cooked(), however many characters it finds: a least counterexample to what its loop keeps.
LEMMA CopyKeeps ==
    ASSUME NEW s, Counted(s)
    PROVE  Counted(copy_to_cooked(s)) /\ copy_to_cooked(s).torn = s.torn
  <1> DEFINE N == Len(s.read_q)
             cook[n \in 0 .. N] ==
               IF n = 0 THEN s
               ELSE LET t == cook[n - 1]
                    IN IF FULL(t.secondary) THEN t
                       ELSE CookOne([t EXCEPT !.read_q = Tail(@)], Head(t.read_q))
             Queues == {t \in TtyStates : Counted(t) /\ t.torn = s.torn}
             G == [t \in Queues |-> IF t.read_q = <<>> THEN t ELSE Turn(t)]
             end == IF cook[N].rd.at = "asleep" THEN "ready" ELSE cook[N].rd.at
  <1>1. copy_to_cooked(s) = [cook[N] EXCEPT !.rd.at = end]
    BY DEF copy_to_cooked
  <1>2. N \in Nat /\ s \in Queues /\ s.read_q \in Seq(Typed)
    BY DEF Counted, TtyStates
  <1>3. \A t \in Queues : t.read_q # <<>> => Turn(t) \in Queues
    BY TurnKeeps DEF Counted
  <1>4. G \in [Queues -> Queues]
    BY <1>3
  <1>5. PICK f \in [0 .. N -> Queues] : IsIteration(f, G, s, N)
    BY <1>2, <1>4, Iterate
  <1>6. f[0] = s /\ \A i \in 0 .. N : i # 0 => i - 1 \in 0 .. N /\ f[i - 1] \in Queues /\ f[i] = G[f[i - 1]]
    <2> HIDE DEF G, Queues
    <2>1. 0 \in 0 .. N /\ \A i \in 0 .. N : i # 0 => i - 1 \in 0 .. N
      BY <1>2
    <2>2. \A i \in 0 .. N : f[i] = IF i = 0 THEN s ELSE G[f[i - 1]]
      BY <1>5, Zenon DEF IsIteration
    <2> QED
      BY <1>5, <2>1, <2>2
  <1> DEFINE Long == {i \in 0 .. N : FULL(f[i].secondary) \/ Len(f[i].read_q) = N - i}
  <1>7. \A i \in 0 .. N : i # 0 /\ i - 1 \in Long => i \in Long /\ f[i] = Turn(f[i - 1])
    <2> SUFFICES ASSUME NEW i \in 0 .. N, i # 0, i - 1 \in Long PROVE i \in Long /\ f[i] = Turn(f[i - 1])
      OBVIOUS
    <2> DEFINE t == f[i - 1]
    <2>1. t \in Queues /\ f[i] = (IF t.read_q = <<>> THEN t ELSE Turn(t))
      BY <1>6
    <2>2. FULL(t.secondary) \/ Len(t.read_q) = N - (i - 1)
      OBVIOUS
    <2>3. t.read_q \in Seq(Typed) /\ Counted(t)
      BY <2>1 DEF TtyStates
    <2> HIDE DEF t
    <2>4. CASE FULL(t.secondary)
      <3>1. Turn(t) = t
        BY <2>4 DEF Turn
      <3> QED
        BY <2>1, <2>4, <3>1 DEF t
    <2>5. CASE ~FULL(t.secondary)
      <3>1. Len(t.read_q) = N - (i - 1) /\ t.read_q # <<>>
        BY <1>2, <2>2, <2>3, <2>5
      <3>2. f[i] = Turn(t)
        BY <2>1, <3>1
      <3>3. Len(Turn(t).read_q) = Len(t.read_q) - 1
        BY <2>3, <2>5, <3>1, TurnKeeps
      <3>4. Len(f[i].read_q) = N - i
        BY <1>2, <3>1, <3>2, <3>3
      <3> QED
        BY <3>2, <3>4 DEF t
    <2> QED
      BY <2>4, <2>5
  <1>8. 0 \in Long
    BY <1>2, <1>6
  <1>9. 0 .. N \subseteq Long
    <2> HIDE DEF Long
    <2> QED
      BY <1>2, <1>7, <1>8, CountUp
  <1>10. \A i \in 0 .. N : i # 0 => f[i] = Turn(f[i - 1])
    BY <1>6, <1>7, <1>9
  <1>11. f = [i \in 0 .. N |-> IF i = 0 THEN s
                               ELSE LET t == f[i - 1]
                                    IN IF FULL(t.secondary) THEN t
                                       ELSE CookOne([t EXCEPT !.read_q = Tail(@)], Head(t.read_q))]
    <2>1. f = [i \in 0 .. N |-> IF i = 0 THEN s ELSE Turn(f[i - 1])]
      BY <1>5, <1>6, <1>10
    <2> QED
      BY <2>1 DEF Turn
  <1>12. cook = [i \in 0 .. N |-> IF i = 0 THEN s ELSE Turn(cook[i - 1])]
    <2>1. cook = [i \in 0 .. N |-> IF i = 0 THEN s
                               ELSE LET t == cook[i - 1]
                                    IN IF FULL(t.secondary) THEN t
                                       ELSE CookOne([t EXCEPT !.read_q = Tail(@)], Head(t.read_q))]
      BY <1>11
    <2> QED
      BY <2>1 DEF Turn
  <1> HIDE DEF cook
  <1>13. \A i \in 0 .. N : cook[i] = f[i]
    <2> DEFINE T == {i \in 0 .. N : cook[i] = f[i]}
    <2>1. 0 \in T
      BY <1>2, <1>6, <1>12
    <2>2. \A i \in 0 .. N : i # 0 /\ i - 1 \in T => i \in T
      BY <1>6, <1>10, <1>12
    <2>3. 0 .. N \subseteq T
      <3> HIDE DEF T
      <3> QED
        BY <1>2, <2>1, <2>2, CountUp
    <2> QED
      BY <2>3
  <1>14. Counted(cook[N]) /\ cook[N].torn = s.torn
    BY <1>2, <1>5, <1>13
  <1> DEFINE last == cook[N]
             t == [last EXCEPT !.rd.at = end]
  <1>15. end \in CallPlaces
    BY <1>14 DEF Counted, TtyStates, CallPlaces
  <1> HIDE DEF last, end
  <1>16. Counted(last) /\ last.torn = s.torn
    BY <1>14 DEF last
  <1>17. Counted(t) /\ t.torn = last.torn
    BY <1>15, <1>16 DEF Counted, TtyStates
  <1> QED
    BY <1>1, <1>16, <1>17 DEF last

\* Where the calls can be, and the characters of a call that is not one.
LEMMA PlaceNames ==
    /\ "user" \in CallPlaces /\ "loop" \in CallPlaces /\ "asleep" \in CallPlaces /\ "ready" \in CallPlaces /\ "take" \in CallPlaces
    /\ "fetch" \in CallPlaces /\ "store" \in CallPlaces /\ "scheduled" \in CallPlaces /\ "a" \in Typed
  BY DEF CallPlaces, Typed

LEMMA ReadCharKeeps == ASSUME TtyInv, NEW c \in Typed, read_char(c) PROVE TtyInv'
  <1> DEFINE q == IF FULL(tt.read_q) THEN tt.read_q ELSE Append(tt.read_q, c)
             n == tt.typed + 1
             s == [tt EXCEPT !.typed = n, !.read_q = q]
  <1>1. tt' = copy_to_cooked(s) /\ ~tt.torn
    BY DEF read_char
  <1>2. tt \in TtyStates /\ Counted(tt) /\ q \in Seq(Typed) /\ n \in Int
    BY <1>1 DEF TtyInv, TtyStates
  <1> HIDE DEF q, n
  <1>3. Counted(s)
    BY <1>2 DEF Counted, TtyStates
  <1> HIDE DEF s
  <1>4. Counted(tt')
    BY <1>1, <1>3, CopyKeeps
  <1> QED
    BY <1>4 DEF TtyInv, Counted

\* A step that leaves the cooked characters and their count as they are.
LEMMA UncookedKeeps ==
    ASSUME TtyInv, tt' \in TtyStates, tt'.secondary = tt.secondary, tt'.data = tt.data, tt'.torn = tt.torn
    PROVE  TtyInv'
  BY DEF TtyInv, Counted

LEMMA WriteCharKeeps == TtyInv /\ write_char => TtyInv'
  <1> SUFFICES ASSUME TtyInv, write_char PROVE TtyInv'
    OBVIOUS
  <1> DEFINE head == IF tt.head = 0 THEN 0 ELSE tt.head - 1
             h == IF tt.wr.at = "store" /\ tt.head # 0 THEN (tt.wr.h - 1) % TTY_BUF_SIZE ELSE tt.wr.h
             tx == tt.head > 1
             at == IF tt.wr.at = "asleep" /\ Wakes(tt.head) THEN "ready" ELSE tt.wr.at
  <1>1. tt \in TtyStates /\ head \in Int /\ h \in Int /\ tx \in BOOLEAN /\ at \in CallPlaces
    BY TtyAssumption, PlaceNames DEF TtyInv, TtyStates
  <1>2. tt' = [tt EXCEPT !.head = head, !.wr.h = h, !.tx = tx, !.wr.at = at]
    BY DEF write_char
  <1> HIDE DEF head, h, tx, at
  <1>3. tt' \in TtyStates /\ tt'.secondary = tt.secondary /\ tt'.data = tt.data /\ tt'.torn = tt.torn
    BY <1>1, <1>2 DEF TtyStates
  <1> QED
    BY <1>3, UncookedKeeps

LEMMA SignalledKeeps == TtyInv /\ Signalled => TtyInv'
  <1> SUFFICES ASSUME TtyInv, Signalled PROVE TtyInv'
    OBVIOUS
  <1>1. tt' \in TtyStates /\ tt'.secondary = tt.secondary /\ tt'.data = tt.data /\ tt'.torn = tt.torn
    BY PlaceNames DEF TtyInv, TtyStates, Signalled
  <1> QED
    BY <1>1, UncookedKeeps

LEMMA CallKeeps == ASSUME TtyInv, NEW nr \in Int, CallRead(nr) \/ CallWrite(nr) PROVE TtyInv'
  <1>1. tt \in TtyStates
    BY DEF TtyInv
  <1>2. CASE tt' = [tt EXCEPT !.rd.at = "loop", !.rd.nr = nr]
    <2>1. tt' \in TtyStates /\ tt'.secondary = tt.secondary /\ tt'.data = tt.data /\ tt'.torn = tt.torn
      BY <1>1, <1>2, PlaceNames DEF TtyStates
    <2> QED
      BY <2>1, UncookedKeeps
  <1>3. CASE tt' = [tt EXCEPT !.wr.at = "loop", !.wr.nr = nr]
    <2>1. tt' \in TtyStates /\ tt'.secondary = tt.secondary /\ tt'.data = tt.data /\ tt'.torn = tt.torn
      BY <1>1, <1>3, PlaceNames DEF TtyStates
    <2> QED
      BY <2>1, UncookedKeeps
  <1> QED
    BY <1>2, <1>3 DEF CallRead, CallWrite

\* The returns change the calls and the signals.
LEMMA ReadReturnKeeps ==
    ASSUME NEW s \in TtyStates
    PROVE  /\ ReadReturns(s) \in TtyStates /\ ReadReturns(s).secondary = s.secondary
           /\ ReadReturns(s).data = s.data /\ ReadReturns(s).torn = s.torn
  <1> DEFINE rd == [at |-> "user", nr |-> 0, c |-> "a"]
             signal == s.signal \ {"rd"}
  <1>1. rd \in [at : CallPlaces, nr : Int, c : Typed]
    BY PlaceNames
  <1>2. signal \in SUBSET {"rd", "wr"}
    BY DEF TtyStates
  <1>3. ReadReturns(s) = [s EXCEPT !.rd = rd, !.signal = signal]
    BY DEF ReadReturns
  <1> HIDE DEF rd, signal
  <1> QED
    BY <1>1, <1>2, <1>3 DEF TtyStates

LEMMA WriteReturnKeeps ==
    ASSUME NEW s \in TtyStates
    PROVE  /\ WriteReturns(s) \in TtyStates /\ WriteReturns(s).secondary = s.secondary
           /\ WriteReturns(s).data = s.data /\ WriteReturns(s).torn = s.torn
  <1> DEFINE wr == [at |-> "user", nr |-> 0, h |-> 0]
             signal == s.signal \ {"wr"}
  <1>1. wr \in [at : CallPlaces, nr : Int, h : Int]
    BY PlaceNames
  <1>2. signal \in SUBSET {"rd", "wr"}
    BY DEF TtyStates
  <1>3. WriteReturns(s) = [s EXCEPT !.wr = wr, !.signal = signal]
    BY DEF WriteReturns
  <1> HIDE DEF wr, signal
  <1> QED
    BY <1>1, <1>2, <1>3 DEF TtyStates

LEMMA ReadLoopKeeps == TtyInv /\ ReadLoop => TtyInv'
  <1> SUFFICES ASSUME TtyInv, ReadLoop PROVE TtyInv'
    OBVIOUS
  <1>1. tt \in TtyStates /\ (tt.secondary # <<>> => Head(tt.secondary) \in Typed)
    BY DEF TtyInv, TtyStates
  <1>2. \/ tt' = ReadReturns(tt)
        \/ tt' = [tt EXCEPT !.rd.at = "asleep"]
        \/ tt' = [tt EXCEPT !.rd.at = "loop"]
        \/ tt.secondary # <<>> /\ tt' = [tt EXCEPT !.rd.at = "take", !.rd.c = Head(tt.secondary)]
    BY DEF ReadLoop, SleepsIfEmpty
  <1>3. CASE tt' = ReadReturns(tt)
    BY <1>1, <1>3, ReadReturnKeeps, UncookedKeeps
  <1>4. ASSUME NEW at \in CallPlaces, tt' = [tt EXCEPT !.rd.at = at] PROVE TtyInv'
    <2>1. tt' \in TtyStates /\ tt'.secondary = tt.secondary /\ tt'.data = tt.data /\ tt'.torn = tt.torn
      BY <1>1, <1>4 DEF TtyStates
    <2> QED
      BY <2>1, UncookedKeeps
  <1>5. ASSUME NEW c \in Typed, tt' = [tt EXCEPT !.rd.at = "take", !.rd.c = c] PROVE TtyInv'
    <2>1. tt' \in TtyStates /\ tt'.secondary = tt.secondary /\ tt'.data = tt.data /\ tt'.torn = tt.torn
      BY <1>1, <1>5, PlaceNames DEF TtyStates
    <2> QED
      BY <2>1, UncookedKeeps
  <1> QED
    BY <1>1, <1>2, <1>3, <1>4, <1>5, PlaceNames

\* The character that is taken is counted off if it ends a line.
LEMMA TakeKeeps == TtyInv /\ Take => TtyInv'
  <1> SUFFICES ASSUME TtyInv, Take PROVE TtyInv'
    OBVIOUS
  <1>1. tt \in TtyStates /\ tt.torn \in BOOLEAN /\ Counted(tt)
    BY DEF TtyInv, TtyStates, Take
  <1>2. CASE tt' = [tt EXCEPT !.torn = TRUE]
    BY <1>1, <1>2 DEF TtyInv, TtyStates
  <1>3. CASE tt' # [tt EXCEPT !.torn = TRUE]
    <2> DEFINE q == Tail(tt.secondary)
               n == IF tt.rd.c \in Eols THEN tt.data - 1 ELSE tt.data
               nr == tt.rd.nr - 1
               s == [tt EXCEPT !.secondary = q, !.data = n, !.rd.nr = nr]
    <2>1. tt.secondary # <<>> /\ Head(tt.secondary) = tt.rd.c
      BY <1>3 DEF Take
    <2>2. \/ tt' = ReadReturns(s)
          \/ s.secondary # <<>> /\ tt' = [s EXCEPT !.rd.c = Head(s.secondary)]
      BY <1>3 DEF Take
    <2>3. q \in Seq(Typed) /\ n \in Int /\ nr \in Int /\ LinesIn(q) = n
      <3>1. tt.secondary \in Seq(Typed) /\ tt.data \in Int /\ tt.rd.nr \in Int /\ tt.data = LinesIn(tt.secondary)
        BY <1>1 DEF Counted, TtyStates
      <3>2. q \in Seq(Typed) /\ nr \in Int /\ n \in Int
        BY <2>1, <3>1
      <3> QED
        BY <2>1, <3>1, <3>2, LinesTaken
    <2> HIDE DEF q, n, nr
    <2>4. s \in TtyStates /\ s.secondary = q /\ s.data = n
      BY <1>1, <2>3 DEF TtyStates
    <2>5. Counted(s)
      BY <2>3, <2>4 DEF Counted
    <2> HIDE DEF s
    <2>6. CASE tt' = ReadReturns(s)
      BY <2>4, <2>5, <2>6, ReadReturnKeeps DEF TtyInv, Counted
    <2>7. CASE s.secondary # <<>> /\ tt' = [s EXCEPT !.rd.c = Head(s.secondary)]
      <3>1. Head(s.secondary) \in Typed
        BY <2>3, <2>4, <2>7
      <3>2. tt' \in TtyStates /\ tt'.secondary = s.secondary /\ tt'.data = s.data
        BY <2>4, <2>7, <3>1 DEF TtyStates
      <3> QED
        BY <2>5, <3>2 DEF TtyInv, Counted
    <2> QED
      BY <2>2, <2>6, <2>7
  <1> QED
    BY <1>2, <1>3

LEMMA WriteKeeps == TtyInv /\ (WriteLoop \/ Fetch \/ StoreHead) => TtyInv'
  <1> SUFFICES ASSUME TtyInv, WriteLoop \/ Fetch \/ StoreHead PROVE TtyInv'
    OBVIOUS
  <1>1. tt \in TtyStates
    BY DEF TtyInv
  <1>2. ASSUME NEW at \in CallPlaces, tt' = [tt EXCEPT !.wr.at = at] PROVE TtyInv'
    <2>1. tt' \in TtyStates /\ tt'.secondary = tt.secondary /\ tt'.data = tt.data /\ tt'.torn = tt.torn
      BY <1>1, <1>2 DEF TtyStates
    <2> QED
      BY <2>1, UncookedKeeps
  <1>3. CASE WriteLoop
    <2>1. \/ tt' = WriteReturns(tt)
          \/ tt' = [tt EXCEPT !.wr.at = "asleep"]
          \/ tt' = [tt EXCEPT !.wr.at = "fetch"]
      BY <1>3 DEF WriteLoop
    <2>2. CASE tt' = WriteReturns(tt)
      BY <1>1, <2>2, WriteReturnKeeps, UncookedKeeps
    <2> QED
      BY <1>2, <2>1, <2>2, PlaceNames
  <1>4. CASE Fetch
    <2> DEFINE on == tt.tx \/ tt.head # 0
               s == [tt EXCEPT !.tx = on]
    <2>1. \/ tt' = [tt EXCEPT !.wr.at = "store", !.wr.h = tt.head]
          \/ tt' = WriteReturns(s)
          \/ tt' = [s EXCEPT !.wr.at = "scheduled", !.wr.h = 0]
      BY <1>4 DEF Fetch
    <2>2. on \in BOOLEAN /\ tt.head \in Int /\ 0 \in Int
      BY <1>1 DEF TtyStates
    <2> HIDE DEF on
    <2>3. s \in TtyStates /\ s.secondary = tt.secondary /\ s.data = tt.data /\ s.torn = tt.torn
      BY <1>1, <2>2 DEF TtyStates
    <2> HIDE DEF s
    <2>4. CASE tt' = WriteReturns(s)
      BY <2>3, <2>4, WriteReturnKeeps, UncookedKeeps
    <2>5. ASSUME NEW t \in TtyStates, NEW at \in CallPlaces, NEW h \in Int, tt' = [t EXCEPT !.wr.at = at, !.wr.h = h],
                 t.secondary = tt.secondary, t.data = tt.data, t.torn = tt.torn
          PROVE  TtyInv'
      <3>1. tt' \in TtyStates /\ tt'.secondary = t.secondary /\ tt'.data = t.data /\ tt'.torn = t.torn
        BY <2>5 DEF TtyStates
      <3> QED
        BY <2>5, <3>1, UncookedKeeps
    <2> QED
      BY <1>1, <2>1, <2>2, <2>3, <2>4, <2>5, PlaceNames
  <1>5. CASE StoreHead
    <2> DEFINE head == Inc(tt.wr.h)
               nr == tt.wr.nr - 1
    <2>1. head \in Int /\ nr \in Int /\ 0 \in Int
      BY <1>1, TtyAssumption DEF TtyStates, Inc
    <2>2. tt' = [tt EXCEPT !.head = head, !.wr.nr = nr, !.wr.at = "fetch", !.wr.h = 0]
      BY <1>5 DEF StoreHead
    <2> HIDE DEF head, nr
    <2>3. tt' \in TtyStates /\ tt'.secondary = tt.secondary /\ tt'.data = tt.data /\ tt'.torn = tt.torn
      BY <1>1, <2>1, <2>2, PlaceNames DEF TtyStates
    <2> QED
      BY <2>3, UncookedKeeps
  <1> QED
    BY <1>3, <1>4, <1>5

LEMMA FlushKeeps == TtyInv /\ Flush => TtyInv'
  <1> SUFFICES ASSUME TtyInv, Flush PROVE TtyInv'
    OBVIOUS
  <1>1. tt \in TtyStates /\ <<>> \in Seq(Typed)
    BY DEF TtyInv
  <1>2. PICK q \in {tt.read_q, <<>>}, h \in {tt.head, 0} : tt' = [tt EXCEPT !.read_q = q, !.head = h]
    BY DEF Flush
  <1>3. q \in Seq(Typed) /\ h \in Int
    <2>1. tt.read_q \in Seq(Typed) /\ tt.head \in Int
      BY <1>1 DEF TtyStates
    <2>2. q = tt.read_q \/ q = <<>>
      BY <1>2
    <2>3. q \in Seq(Typed)
      BY <1>1, <2>1, <2>2
    <2>4. h \in Int
      BY <1>2, <2>1
    <2>5. QED
      BY <2>3, <2>4
  <1>4. tt' \in TtyStates /\ tt'.secondary = tt.secondary /\ tt'.data = tt.data /\ tt'.torn = tt.torn
    BY <1>1, <1>2, <1>3 DEF TtyStates
  <1> QED
    BY <1>4, UncookedKeeps

LEMMA TtyStart == TtyInit => TtyInv
  <1> SUFFICES ASSUME TtyInit PROVE TtyInv
    OBVIOUS
  <1>1. tt \in TtyStates /\ tt.secondary = <<>> /\ tt.data = 0
    BY PlaceNames DEF TtyInit, TtyStates, Typed
  <1>2. LinesIn(<<>>) = 0
    <2>1. {i \in DOMAIN <<>> : <<>>[i] \in Eols} = {}
      OBVIOUS
    <2> QED
      BY <2>1, FS_EmptySet DEF LinesIn
  <1> QED
    BY <1>1, <1>2 DEF TtyInv, Counted

LEMMA TtyKeeps == TtyInv /\ [TtyNext]_ttyVars => TtyInv'
  <1> SUFFICES ASSUME TtyInv, [TtyNext]_ttyVars PROVE TtyInv'
    OBVIOUS
  <1>1. ASSUME NEW nr \in 1 .. MaxNr, CallRead(nr) \/ CallWrite(nr) PROVE TtyInv'
    BY <1>1, CallKeeps
  <1>2. CASE UNCHANGED ttyVars
    BY <1>2 DEF ttyVars, TtyInv, Counted
  <1> QED
    BY <1>1, <1>2, ReadCharKeeps, WriteCharKeeps, SignalledKeeps, FlushKeeps, ReadLoopKeeps, TakeKeeps, WriteKeeps
    DEF TtyNext

\* The number of lines that the terminal counts, secondary.data, is the number of the ends of lines in the
\* queue after any characters, erasures, reads and overflows, for queues of any size.
THEOREM LinesAreCounted == TtySpec => []DataIsLines
  <1>1. TtyInv => DataIsLines
    BY DEF TtyInv, Counted, LinesIn, DataIsLines
  <1> QED
    BY <1>1, TtyStart, TtyKeeps, PTL DEF TtySpec
=============================================================================
