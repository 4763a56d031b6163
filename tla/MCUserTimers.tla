---------------------------- MODULE MCUserTimers ----------------------------
(***************************************************************************)
(* UserTimers with three timers, so that a scan can be interrupted before, *)
(* at and after a timer of the list, with periods of none, one and two     *)
(* ticks, and up to two scans at one time; and beside it Malloc, from      *)
(* which the scan takes its messages, with pages of one and of two objects *)
(* and chains of up to three pages. Only one of the two runs (which):      *)
(* their states are not multiplied.                                        *)
(***************************************************************************)
EXTENDS UserTimers, Malloc, TLC

VARIABLE which

MCPerPage == (1 :> 2) @@ (2 :> 1)

MCInit == TimersInit /\ MallocInit /\ which \in {"timers", "allocator"}
MCNext ==
    /\ \/ which = "timers" /\ TimersNext /\ UNCHANGED mallocVars
       \/ which = "allocator" /\ MallocNext /\ UNCHANGED timerVars
    /\ UNCHANGED which

\* Fairness is that of the timers.
MCSpec ==
    /\ MCInit /\ [][MCNext]_<<timerVars, mallocVars, which>>
    /\ WF_timerVars(which = "timers" /\ Tick) /\ WF_timerVars(which = "timers" /\ ScanStep)
=============================================================================
