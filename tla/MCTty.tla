------------------------------- MODULE MCTty -------------------------------
(* Tty for TLC: queues of four, three characters that arrive, and calls    *)
(* for one or two, with and without the line discipline and the echo.      *)
EXTENDS Tty
=============================================================================
