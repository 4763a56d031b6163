----------------------------- MODULE MCKernel -----------------------------
(***************************************************************************)
(* What one task is to the kernel. Sched with three tasks and priorities   *)
(* from one to three; beside it Identity with four ids, of which two are   *)
(* those of programs, and Getcwd with two tasks in a tree of three levels, *)
(* one of them with a root of its own. Only one of the three runs (which): *)
(* their states are not multiplied.                                        *)
(***************************************************************************)
EXTENDS Sched, Identity, MCGetcwd

VARIABLE which

MCIncrements == {-1, 1}

MCInit ==
    /\ Init /\ IdentityInit /\ GetcwdInit
    /\ which \in {"scheduler", "ids", "getcwd"}
    /\ which # "scheduler" => \A t \in Tasks : priority[t] = MaxPriority

MCNext ==
    /\ \/ which = "scheduler" /\ Next /\ UNCHANGED <<identityVars, getcwdVars>>
       \/ which = "ids" /\ IdentityNext /\ UNCHANGED <<vars, getcwdVars>>
       \/ which = "getcwd" /\ GetcwdNext /\ UNCHANGED <<vars, identityVars>>
    /\ UNCHANGED which

\* Fairness is that of the one that runs.
MCSpec ==
    /\ MCInit /\ [][MCNext]_<<vars, identityVars, getcwdVars, which>>
    /\ WF_vars(which = "scheduler" /\ do_timer)
    /\ WF_vars(which = "scheduler" /\ ret_from_sys_call)
    /\ WF_vars(which = "scheduler" /\ IdlePause)
    /\ \A t \in Callers : WF_getcwdVars(which = "getcwd" /\ Walk(t))

\* A task that can run is run in the end (sched.c).
NobodyStarves == which = "scheduler" => NoStarvation
=============================================================================
