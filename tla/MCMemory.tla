------------------------------ MODULE MCMemory ------------------------------
(***************************************************************************)
(* Two task slots, an address space of one page of the program and one of  *)
(* zeroes, and six pages of memory: two task_structs, two page tables, one *)
(* page that both share and one for its copy. Seven would be needed for    *)
(* everything, so that memory runs out at each place where a page is asked *)
(* for. One page goes to malloc().                                         *)
(***************************************************************************)
EXTENDS Memory
=============================================================================
