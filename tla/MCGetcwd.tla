------------------------------ MODULE MCGetcwd ------------------------------
(* Getcwd for TLC: one task and many calls in a tree of two directories;   *)
(* and, for MCKernel, two tasks with different roots in a tree of three    *)
(* levels.                                                                 *)
EXTENDS Getcwd, TLC

CONSTANTS r, a, b, c, t1, t2

Up      == (r :> r) @@ (a :> r) @@ (b :> a) @@ (c :> r)
Root    == (t1 :> r) @@ (t2 :> a)
UpTwo   == (r :> r) @@ (a :> r)
RootOne == t1 :> r
=============================================================================
