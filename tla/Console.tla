------------------------------ MODULE Console ------------------------------
(***************************************************************************)
(* The console: console.c. The screen is a window in the video memory that *)
(* an EGA moves to scroll (origin, scr_end); the cursor is kept twice, as  *)
(* x and y and as an address.                                              *)
(*                                                                         *)
(* A step is one character of con_write(), or a whole escape sequence: the *)
(* states 0 to 4 and par[] of con_write() only say how much of one has     *)
(* been read. An address counts cells, a character and its attribute, from *)
(* the start of the video memory. Unsigned arithmetic is modulo Word.      *)
(*                                                                         *)
(* Left out are attributes (csi_m), the bell, the answer of respond(),     *)
(* which types characters (Tty), and the registers that show the window    *)
(* and the cursor: set_origin() and set_cursor() follow each change.       *)
(***************************************************************************)
EXTENDS Integers

CONSTANTS
    video_num_columns, video_num_lines,
    MemLines,     \* the lines that the video memory has room for
    TabStop,      \* 8
    Word          \* 2^32

Cols  == video_num_columns
Lines == video_num_lines

ASSUME ConsoleAssumption ==
    /\ Cols \in Nat \ {0} /\ Cols % 2 = 0 /\ Cols % TabStop = 0
    /\ Lines \in Nat \ {0} /\ MemLines \in Nat /\ MemLines >= Lines
    /\ TabStop \in Nat \ {0} /\ Word \in Nat /\ Word > Cols + 1 /\ Word > Lines + 1

VARIABLES
    ega,         \* video_type: does the display scroll by moving the window?
    mem,         \* the video memory, and a line of other memory before and after it
    con,         \* the window and the cursor: origin, scr_end, pos, x, y
    top, bottom  \* the lines that scroll, from top to before bottom

conVars == <<ega, mem, con, top, bottom>>

Memory        == -Cols .. (MemLines + 1) * Cols - 1
video_mem_end == MemLines * Cols
Blank         == " "
Chars         == {"c"}
Other         == "-"   \* other memory

ConInit ==
    /\ ega \in BOOLEAN
    /\ mem = [i \in Memory |-> IF i \in 0 .. video_mem_end - 1 THEN Blank ELSE Other]
    /\ con = [origin |-> 0, scr_end |-> Lines * Cols, pos |-> 0, x |-> 0, y |-> 0]
    /\ top = 0 /\ bottom = Lines

-----------------------------------------------------------------------------
(* Stores. *)

\* rep stosw, and rep movsl in the direction that fits.
Fill(m, at, n)       == [i \in Memory |-> IF i \in at .. at + n - 1 THEN Blank ELSE m[i]]
Move(m, to, from, n) == [i \in Memory |-> IF i \in to .. to + n - 1 THEN m[from + (i - to)] ELSE m[i]]

\* gotoxy(): x may be one past the last column. Another place leaves the cursor where it is.
gotoxy(c, new_x, new_y) ==
    IF new_x > Cols \/ new_y >= Lines THEN c
    ELSE [c EXCEPT !.x = new_x, !.y = new_y, !.pos = c.origin + new_y * Cols + new_x]

\* scrup() of the lines from t to before b, when the window stays where it is.
RegionUp(c, m, t, b) ==
    Fill(Move(m, c.origin + Cols * t, c.origin + Cols * (t + 1), (b - t - 1) * Cols),
         c.origin + Cols * (b - 1), Cols)

\* Mutated form: the cursor is not moved back with the window.
WindowDownKeepsPos(c, m) ==
    IF c.scr_end + Cols > video_mem_end
      THEN [con |-> [c EXCEPT !.origin = 0, !.scr_end = @ - c.origin, !.pos = @ + Cols],
            mem |-> Fill(Move(m, 0, c.origin + Cols, (Lines - 1) * Cols), (Lines - 1) * Cols, Cols)]
      ELSE [con |-> [c EXCEPT !.origin = @ + Cols, !.scr_end = @ + Cols, !.pos = @ + Cols],
            mem |-> Fill(m, c.scr_end, Cols)]

\* scrup() of the whole screen of an EGA: the window moves down a line, or is copied to the start of
\* the memory. Both the lines that are left and the cursor, which keeps its place, go with it.
WindowDown(c, m) ==
    IF c.scr_end + Cols > video_mem_end
      THEN [con |-> [c EXCEPT !.origin = 0, !.scr_end = @ - c.origin, !.pos = @ - c.origin],
            mem |-> Fill(Move(m, 0, c.origin + Cols, (Lines - 1) * Cols), (Lines - 1) * Cols, Cols)]
      ELSE [con |-> [c EXCEPT !.origin = @ + Cols, !.scr_end = @ + Cols, !.pos = @ + Cols],
            mem |-> Fill(m, c.scr_end, Cols)]

scrup(c, m, t, b) ==
    IF ega /\ t = 0 /\ b = Lines THEN WindowDown(c, m) ELSE [con |-> c, mem |-> RegionUp(c, m, t, b)]

scrdown(c, m, t, b) ==
    Fill(Move(m, c.origin + Cols * (t + 1), c.origin + Cols * t, (b - t - 1) * Cols), c.origin + Cols * t, Cols)

\* lf(): below the last line that scrolls the cursor stays where it is, and the lines above scroll.
lf(c, m) ==
    IF c.y + 1 < bottom THEN [con |-> [c EXCEPT !.y = @ + 1, !.pos = @ + Cols], mem |-> m]
    ELSE scrup(c, m, top, bottom)

-----------------------------------------------------------------------------
(* Characters. *)

Becomes(r) == con' = r.con /\ mem' = r.mem /\ UNCHANGED <<ega, top, bottom>>
Moves(c)   == Becomes([con |-> c, mem |-> mem])
Stores(m)  == Becomes([con |-> con, mem |-> m])

\* The cursor that is past the last column goes to the next line.
Wrapped(c) == IF c.x >= Cols THEN lf([c EXCEPT !.x = @ - Cols, !.pos = @ - Cols], mem) ELSE [con |-> c, mem |-> mem]

PutChar(char) ==
    \E r \in {Wrapped(con)} :
       Becomes([con |-> [r.con EXCEPT !.pos = @ + 1, !.x = @ + 1], mem |-> [r.mem EXCEPT ![r.con.pos] = char]])

LineFeed       == Becomes(lf(con, mem))
ReverseFeed    == IF con.y > top THEN Moves([con EXCEPT !.y = @ - 1, !.pos = @ - Cols])
                  ELSE Stores(scrdown(con, mem, top, bottom))
CarriageReturn == Moves([con EXCEPT !.pos = @ - con.x, !.x = 0])
Backspace      == con.x > 0 /\ Moves([con EXCEPT !.pos = @ - 1, !.x = @ - 1])
Del            == con.x > 0 /\ Becomes([con |-> [con EXCEPT !.pos = @ - 1, !.x = @ - 1],
                                        mem |-> [mem EXCEPT ![con.pos - 1] = Blank]])

\* A tab past the last column goes on in the next line; one that ends there does not yet.
Tab ==
    LET c == TabStop - (con.x % TabStop)
        t == [con EXCEPT !.x = @ + c, !.pos = @ + c]
    IN IF t.x > Cols THEN Becomes(Wrapped(t)) ELSE Moves(t)

-----------------------------------------------------------------------------
(* Escape sequences; p and q are par[0] and par[1]. *)

U(n)        == n % Word
AtLeast1(n) == IF n = 0 THEN 1 ELSE n
Less1(n)    == IF n = 0 THEN 0 ELSE n - 1

GotoXY(p, q) == Moves(gotoxy(con, Less1(q), Less1(p)))

Goto(p) ==
    LET n == AtLeast1(p)
    IN \E c \in {
          gotoxy(con, Less1(p), con.y), gotoxy(con, con.x, Less1(p)),
          gotoxy(con, con.x, U(con.y - n)), gotoxy(con, con.x, U(con.y + n)),
          gotoxy(con, U(con.x + n), con.y), gotoxy(con, U(con.x - n), con.y),
          gotoxy(con, 0, U(con.y + n)), gotoxy(con, 0, U(con.y - n)), gotoxy(con, 0, con.y + 1)} : Moves(c)

\* csi_J()
EraseDisplay(p) ==
    /\ p \in 0 .. 2
    /\ Stores(CASE p = 0 -> Fill(mem, con.pos, con.scr_end - con.pos)
                [] p = 1 -> Fill(mem, con.origin, con.pos - con.origin)
                [] p = 2 -> Fill(mem, con.origin, Cols * Lines))

\* Mutated form: as many cells as the line has are erased from the cursor on.
EraseLineFromPos(p) ==
    /\ p \in 0 .. 2 /\ (p = 0 => con.x < Cols)
    /\ Stores(CASE p = 0 -> Fill(mem, con.pos, Cols)
                [] p = 1 -> Fill(mem, con.pos - con.x, IF con.x < Cols THEN con.x ELSE Cols)
                [] p = 2 -> Fill(mem, con.pos - con.x, Cols))

\* csi_K()
EraseLine(p) ==
    /\ p \in 0 .. 2 /\ (p = 0 => con.x < Cols)
    /\ Stores(CASE p = 0 -> Fill(mem, con.pos, Cols - con.x)
                [] p = 1 -> Fill(mem, con.pos - con.x, IF con.x < Cols THEN con.x ELSE Cols)
                [] p = 2 -> Fill(mem, con.pos - con.x, Cols))

\* How often csi_L(), csi_M(), csi_at() and csi_P() do a thing.
Times(p, most) == IF p > most THEN most ELSE AtLeast1(p)
AtMost(n, most) == IF n > most THEN most ELSE n

\* csi_L(), csi_M(): from the cursor's line to the last, whatever the lines that scroll.
InsertLines(p) ==
    LET m[i \in 0 .. Lines] == IF i = 0 THEN mem ELSE scrdown(con, m[i - 1], con.y, Lines)
    IN Stores(m[Times(p, Lines)])

DeleteLines(p) ==
    LET r[i \in 0 .. Lines] == IF i = 0 THEN [con |-> con, mem |-> mem]
                               ELSE LET l == r[i - 1] IN scrup(l.con, l.mem, l.con.y, Lines)
    IN Becomes(r[Times(p, Lines)])

\* csi_at(), csi_P(): in the cursor's line, nothing when it is past the last column.
InsertChars(p) ==
    LET n == AtMost(Times(p, Cols), Cols - con.x)
    IN Stores(Fill(Move(mem, con.pos + n, con.pos, Cols - con.x - n), con.pos, n))

DeleteChars(p) ==
    LET n == AtMost(Times(p, Cols), Cols - con.x)
    IN Stores(Fill(Move(mem, con.pos, con.pos + n, Cols - con.x - n), con.pos + Cols - con.x - n, n))

\* CSI r: the lines that scroll, from p to q.
SetRegion(p, q) ==
    LET b == IF q = 0 THEN Lines ELSE q
    IN /\ Less1(p) < b /\ b <= Lines
       /\ top' = Less1(p) /\ bottom' = b
       /\ UNCHANGED <<ega, mem, con>>

\* restore_cur(). What save_cur() saved is some place of the screen, and is not kept. A Restore is
\* also what an ESC does before any other character when the cursor is in column 56: the code compares x,
\* not the character, with '8'.
Restore == \E x \in 0 .. Cols, y \in 0 .. Lines - 1 : Moves(gotoxy(con, x, y))

ConNext ==
    \/ \E char \in Chars : PutChar(char)
    \/ LineFeed \/ ReverseFeed \/ CarriageReturn \/ Backspace \/ Del \/ Tab
    \/ \E p \in 0 .. Word - 1 :
          \/ EraseDisplay(p) \/ EraseLine(p)
          \/ InsertLines(p) \/ DeleteLines(p) \/ InsertChars(p) \/ DeleteChars(p)
          \/ Goto(p) \/ \E q \in 0 .. Word - 1 : GotoXY(p, q) \/ SetRegion(p, q)
    \/ Restore

ConSpec == ConInit /\ [][ConNext]_conVars

-----------------------------------------------------------------------------
(* What should hold. *)

\* The address of the cursor and its place agree after every sequence of scrolls, jumps and
\* wrapped lines, and the window lies in the video memory.
CursorInStep ==
    /\ con.x \in 0 .. Cols /\ con.y \in 0 .. Lines - 1
    /\ con.pos = con.origin + con.y * Cols + con.x
    /\ 0 <= top /\ top < bottom /\ bottom <= Lines
    /\ con.origin >= 0 /\ con.scr_end = con.origin + Lines * Cols /\ con.scr_end <= video_mem_end

\* Nothing is stored outside the video memory.
StoresInside == \A i \in Memory : mem[i] = Other <=> i \notin 0 .. video_mem_end - 1

\* The cursor, the window and the memory around it after every character.
ScreenConsistent == CursorInStep /\ StoresInside

\* What is seen is a plain screen: that the window moves in the memory cannot be told from it.
Seen == INSTANCE Screen WITH
    rows <- [l \in 1 .. Lines |-> [c \in 1 .. Cols |-> mem[con.origin + (l - 1) * Cols + c - 1]]],
    cx <- con.x, cy <- con.y

ImplementsScreen == Seen!SeenSpec
=============================================================================
