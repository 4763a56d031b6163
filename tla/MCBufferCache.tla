--------------------------- MODULE MCBufferCache ---------------------------
(***************************************************************************)
(* Two tasks, three blocks and two buffers: fewer buffers than blocks, so  *)
(* that buffers are taken over, and as few as it takes for both to be held *)
(* so that getblk() sleeps. Tasks and blocks are interchangeable.          *)
(***************************************************************************)
EXTENDS BufferCache, TLC

Symmetry == Permutations(Tasks) \cup Permutations(Blocks)

=============================================================================
