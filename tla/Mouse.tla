------------------------------- MODULE Mouse -------------------------------
(***************************************************************************)
(* The mouse driver, readmouse() of kernel/chr_drv/readmouse.c, which the  *)
(* mouse's interrupt calls with each byte, and the device that sends the   *)
(* bytes: an acknowledgement (0xFA) when console.c enables it, and then    *)
(* packets of three bytes, flags, dx and dy. The driver takes any 0xFA for *)
(* the acknowledgement, also when it is data.                              *)
(***************************************************************************)
EXTENDS Integers

CONSTANT Bytes     \* the bytes that the device may send

ACK == 250         \* 0xFA

ASSUME BytesAssumption == Bytes \subseteq 0 .. 255 /\ ACK \in Bytes

VARIABLES
    mouse_input_count, mouse_left_down, mouse_right_down,
    x_overflow, y_overflow, x_sign, y_sign, x_position, y_position,
    clicks,    \* the messages that the last byte has posted
    phase,     \* the device: 0 before its acknowledgement, then the place of its next byte
    slipped,   \* history: a byte of a packet was 0xFA
    moved      \* history: the cursor has moved since the packet began

flags == <<mouse_left_down, mouse_right_down, x_overflow, y_overflow, x_sign, y_sign>>
vars  == <<mouse_input_count, flags, x_position, y_position, clicks, phase, slipped, moved>>

vga_width   == 320
vga_height  == 200
cursor_side == 6

Messages == {"MSG_MOUSE_CLICK_LEFT", "MSG_MOUSE_CLICK_RIGHT"}

TypeOK ==
    /\ mouse_input_count \in 0 .. 3
    /\ mouse_left_down \in BOOLEAN /\ mouse_right_down \in BOOLEAN
    /\ x_overflow \in BOOLEAN /\ y_overflow \in BOOLEAN
    /\ x_sign \in BOOLEAN /\ y_sign \in BOOLEAN
    /\ x_position \in Int /\ y_position \in Int
    /\ clicks \subseteq Messages
    /\ phase \in 0 .. 3
    /\ slipped \in BOOLEAN
    /\ moved \in BOOLEAN

Init ==
    /\ mouse_input_count = 0
    /\ mouse_left_down = FALSE /\ mouse_right_down = FALSE
    /\ x_overflow = FALSE /\ y_overflow = FALSE
    /\ x_sign = FALSE /\ y_sign = FALSE
    /\ x_position = 100 /\ y_position = 100
    /\ clicks = {}
    /\ phase = 0
    /\ slipped = FALSE
    /\ moved = FALSE

-----------------------------------------------------------------------------
(* The driver. *)

Bit(byte, mask) == (byte \div mask) % 2 = 1

\* (int)(sign | mousecode), where a sign that is set is 0xffffff00.
Signed(sign, byte) == IF sign THEN byte - 256 ELSE byte

ButtonDown == mouse_left_down \/ mouse_right_down

\* A byte before the acknowledgement: no case of the switch.
Ignored(byte) ==
    /\ mouse_input_count = 0
    /\ byte # ACK
    /\ clicks' = {}
    /\ UNCHANGED <<mouse_input_count, flags, x_position, y_position>>

\* 0xFA: whatever the driver was expecting, the next byte is taken for the flags of a packet.
Acknowledged(byte) ==
    /\ byte = ACK
    /\ mouse_input_count' = 1
    /\ clicks' = {}
    /\ UNCHANGED <<flags, x_position, y_position>>

\* case 1: the buttons, signs and overflows. A button that is down posts its message.
ReadFlags(byte) ==
    /\ mouse_input_count = 1
    /\ byte # ACK
    /\ mouse_left_down'  = Bit(byte, 1)
    /\ mouse_right_down' = Bit(byte, 2)
    /\ x_sign'     = Bit(byte, 16)
    /\ y_sign'     = Bit(byte, 32)
    /\ x_overflow' = Bit(byte, 64)
    /\ y_overflow' = Bit(byte, 128)
    /\ clicks' = {m \in Messages : IF m = "MSG_MOUSE_CLICK_LEFT" THEN Bit(byte, 1) ELSE Bit(byte, 2)}
    /\ mouse_input_count' = 2
    /\ UNCHANGED <<x_position, y_position>>

\* What case 2 makes of the position x that the movement leads to.
NewX(x) ==
    CASE x_overflow /\ ~x_sign -> 3 * cursor_side
      [] x_overflow /\ x_sign  -> vga_width - 3 * cursor_side
      [] ~x_overflow -> CASE x < 0         -> 20
                          [] x > vga_width -> vga_width - 20
                          [] OTHER         -> x

\* What case 3 makes of the position y that the movement leads to.
NewY(y) ==
    CASE y_overflow /\ ~y_sign -> 2 * cursor_side
      [] y_overflow /\ y_sign  -> vga_height - 2 * cursor_side
      [] ~y_overflow -> CASE y > vga_height -> vga_height - 10
                          [] y < 0          -> 10
                          [] OTHER          -> y

\* case 2: the movement along x, which a button that is down undoes.
ReadX(byte) ==
    /\ mouse_input_count = 2
    /\ byte # ACK
    /\ x_position' = NewX(IF ButtonDown THEN x_position ELSE x_position + Signed(x_sign, byte))
    /\ mouse_input_count' = 3
    /\ clicks' = {}
    /\ UNCHANGED <<flags, y_position>>

\* Mutated form: the counter goes on after the last byte of a packet.
ReadYNoReset(byte) ==
    /\ mouse_input_count = 3
    /\ byte # ACK
    /\ y_position' = NewY(IF ButtonDown THEN y_position ELSE y_position - Signed(y_sign, byte))
    /\ mouse_input_count' = mouse_input_count + 1
    /\ clicks' = {}
    /\ UNCHANGED <<flags, x_position>>

\* case 3: the movement along y, which grows downwards, and which a button undoes.
ReadY(byte) ==
    /\ mouse_input_count = 3
    /\ byte # ACK
    /\ y_position' = NewY(IF ButtonDown THEN y_position ELSE y_position - Signed(y_sign, byte))
    /\ mouse_input_count' = 1
    /\ clicks' = {}
    /\ UNCHANGED <<flags, x_position>>

readmouse(byte) ==
    \/ Ignored(byte)
    \/ Acknowledged(byte)
    \/ ReadFlags(byte)
    \/ ReadX(byte)
    \/ ReadY(byte)

-----------------------------------------------------------------------------
(* The device. *)

\* The device sends a byte: before it is enabled its acknowledgement or a byte that is not its
\* own, then packets. The flags of a packet have bit 3 set.
Send(byte) ==
    /\ phase = 1 => Bit(byte, 8)
    /\ phase' = CASE phase = 0 -> IF byte = ACK THEN 1 ELSE 0
                  [] phase = 3 -> 1
                  [] OTHER     -> phase + 1
    /\ slipped' = (slipped \/ (phase # 0 /\ byte = ACK))

\* mouse_interrupt() of mouse.2.s: the byte is read from the controller and given to readmouse().
mouse_interrupt(byte) ==
    /\ Send(byte)
    /\ readmouse(byte)
    /\ moved' = (\/ phase # 1 /\ moved
                 \/ <<x_position, y_position>>' # <<x_position, y_position>>)

Next == \E byte \in Bytes : mouse_interrupt(byte)

Spec == Init /\ [][Next]_vars

-----------------------------------------------------------------------------
(* Properties *)

\* The cursor stays on the screen, whatever bytes come and however out of step they are taken.
OnScreen == x_position \in 0 .. vga_width /\ y_position \in 0 .. vga_height

\* The driver takes every byte for what the device meant, and so posts clicks only for the
\* flags of a packet, until a byte of a packet happens to be 0xFA.
InStep ==
    ~slipped => /\ mouse_input_count = phase
                /\ clicks # {} => phase = 2

\* A packet with a button down does not move the cursor: what case 2 and case 3 take back is
\* exactly what they have added, also at the edges.
ClickDoesNotMove ==
    ~slipped /\ phase = 1 /\ ButtonDown /\ ~x_overflow /\ ~y_overflow => ~moved

\* What the decoding promises of the packets.
PacketsUnderstood == OnScreen /\ InStep /\ ClickDoesNotMove

=============================================================================
