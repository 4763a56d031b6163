------------------------------- MODULE Screen -------------------------------
(***************************************************************************)
(* What a console promises: lines of characters, a cursor, and lines that  *)
(* scroll. There is no memory, no address and no window in it. Console     *)
(* implements it.                                                          *)
(***************************************************************************)
EXTENDS Integers, Sequences

CONSTANTS Cols, Lines, Chars, Blank, TabStop

VARIABLES
    rows,         \* the lines, from 1, as sequences of characters
    cx, cy,       \* the cursor, from 0; cx may be one past the last column
    top, bottom   \* lines top + 1 to bottom scroll

seen == <<rows, cx, cy, top, bottom>>

BlankRow == [c \in 1 .. Cols |-> Blank]
BlankRows(n) == [l \in 1 .. n |-> BlankRow]

SeenInit == rows = BlankRows(Lines) /\ cx = 0 /\ cy = 0 /\ top = 0 /\ bottom = Lines

\* Lines t + 1 to b lose n at their start, or at their end.
Up(r, t, b, n) ==
    SubSeq(r, 1, t) \o SubSeq(r, t + n + 1, b) \o BlankRows(n) \o SubSeq(r, b + 1, Lines)
Down(r, t, b, n) ==
    SubSeq(r, 1, t) \o BlankRows(n) \o SubSeq(r, t + 1, b - n) \o SubSeq(r, b + 1, Lines)

Region == UNCHANGED <<top, bottom>>

\* To the next line, which scrolls if there is none.
NewLine(r) == IF cy + 1 < bottom THEN cy' = cy + 1 /\ rows' = r ELSE cy' = cy /\ rows' = Up(r, top, bottom, 1)

PutChar(c) ==
    /\ Region
    /\ IF cx < Cols THEN cx' = cx + 1 /\ cy' = cy /\ rows' = [rows EXCEPT ![cy + 1][cx + 1] = c]
       ELSE /\ cx' = 1
            /\ cy' = IF cy + 1 < bottom THEN cy + 1 ELSE cy
            /\ rows' = [(IF cy + 1 < bottom THEN rows ELSE Up(rows, top, bottom, 1)) EXCEPT ![cy' + 1][1] = c]

Tab ==
    /\ Region
    /\ IF cx < Cols THEN cx' = TabStop * (cx \div TabStop + 1) /\ UNCHANGED <<rows, cy>>
       ELSE cx' = TabStop /\ NewLine(rows)

Feed        == Region /\ cx' = cx /\ NewLine(rows)
ReverseFeed == /\ Region /\ cx' = cx
               /\ IF cy > top THEN cy' = cy - 1 /\ rows' = rows
                  ELSE cy' = cy /\ rows' = Down(rows, top, bottom, 1)
Del         == Region /\ cx > 0 /\ cx' = cx - 1 /\ cy' = cy /\ rows' = [rows EXCEPT ![cy + 1][cx] = Blank]
Goto        == Region /\ cx' \in 0 .. Cols /\ cy' \in 0 .. Lines - 1 /\ rows' = rows
SetRegion   == top' \in 0 .. Lines - 1 /\ bottom' \in top' + 1 .. Lines /\ UNCHANGED <<rows, cx, cy>>

\* The cells at which P holds become blank; c and l are a column and a line from 0.
Erase(P(_, _)) ==
    [l \in 1 .. Lines |-> [c \in 1 .. Cols |-> IF P(c - 1, l - 1) THEN Blank ELSE rows[l][c]]]

EraseCells ==
    LET BeforeInLine(c, l) == l = cy /\ c < cx
        AfterInLine(c, l)  == l = cy /\ c >= cx
        Line(c, l)         == l = cy
        Before(c, l)       == l < cy \/ BeforeInLine(c, l)
        After(c, l)        == l > cy \/ AfterInLine(c, l)
        All(c, l)          == TRUE
    IN /\ rows' \in {Erase(BeforeInLine), Erase(AfterInLine), Erase(Line), Erase(Before), Erase(After), Erase(All)}
       /\ UNCHANGED <<cx, cy, top, bottom>>

\* n lines are put in before the cursor's, or taken out from it on.
LinesInOut(n) ==
    /\ rows' \in {Up(rows, cy, Lines, n), Down(rows, cy, Lines, n)}
    /\ UNCHANGED <<cx, cy, top, bottom>>

\* So are n characters of its line.
CharsInOut(n) ==
    LET row == rows[cy + 1]
        blanks == [i \in 1 .. n |-> Blank]
    IN /\ rows' \in {[rows EXCEPT ![cy + 1] = SubSeq(row, 1, cx) \o blanks \o SubSeq(row, cx + 1, Cols - n)],
                     [rows EXCEPT ![cy + 1] = SubSeq(row, 1, cx) \o SubSeq(row, cx + n + 1, Cols) \o blanks]}
       /\ UNCHANGED <<cx, cy, top, bottom>>

SeenNext ==
    \/ \E c \in Chars : PutChar(c)
    \/ Tab \/ Feed \/ Goto \/ ReverseFeed \/ Del \/ SetRegion \/ EraseCells
    \/ \E n \in 1 .. Lines - cy : LinesInOut(n)
    \/ \E n \in 1 .. Cols - cx : CharsInOut(n)

SeenSpec == SeenInit /\ [][SeenNext]_seen
=============================================================================
