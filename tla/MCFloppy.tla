------------------------------ MODULE MCFloppy ------------------------------
(* Floppy for TLC: requests for both drives, two waiting, two errors for   *)
(* each, motors that need three ticks and go off after six, and a          *)
(* controller that answers within one tick. It stops where a request has   *)
(* overtaken a reset.                                                      *)
EXTENDS Floppy
=============================================================================
