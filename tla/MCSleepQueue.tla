---------------------------- MODULE MCSleepQueue ----------------------------
(* SleepQueue for TLC: three tasks, the least number with a head, a middle *)
(* and a newcomer, and one character in the cooked queue.                  *)
EXTENDS SleepQueue
=============================================================================
