------------------------------- MODULE MCBlk -------------------------------
(***************************************************************************)
(* Two tasks, three blocks of a partition of six sectors and one beyond    *)
(* it; three requests, of which two can be writes; three errors per        *)
(* request, so that the controller is reset before the last try. Only one  *)
(* block is written.                                                       *)
(***************************************************************************)
EXTENDS Blk
=============================================================================
