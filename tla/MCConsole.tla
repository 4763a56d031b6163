----------------------------- MODULE MCConsole -----------------------------
(***************************************************************************)
(* The console and its input. Mouse with flags that have a button, each    *)
(* sign and each overflow, and movements by which the cursor reaches and   *)
(* passes every edge of the screen; beside it Keyboard with keys on both   *)
(* sides of E0, a queue of five, and ctrl, alt and del; and Console with a *)
(* screen of two columns and three lines in a memory of four lines. Only   *)
(* one of the three runs: their states are not multiplied.                 *)
(***************************************************************************)
EXTENDS Mouse, Console

CONSTANTS Keys, MaxWire, size
VARIABLE kb

K == INSTANCE Keyboard

ASSUME KeysAssumption == K!KeyboardAssumption

MCBytes == {10, 24, 40, 200, 248, ACK}

\* While mouse or keyboard run the display is one that scrolls by copying.
MCInit == Init /\ K!KbInit /\ ConInit
MCNext ==
    \/ ~ega /\ ConInit /\ K!KbInit /\ Next /\ UNCHANGED <<kb, conVars>>
    \/ ~ega /\ Init /\ ConInit /\ K!KbNext /\ UNCHANGED <<vars, conVars>>
    \/ Init /\ K!KbInit /\ ConNext /\ UNCHANGED <<vars, kb>>

MCSpec == MCInit /\ [][MCNext]_<<vars, kb, conVars>>

\* The modes are those of the keys that are held, and no sequence of characters is cut (keyboard.S).
KeyboardConsistent == K!ModesFollowKeys /\ K!SequencesWhole
=============================================================================
