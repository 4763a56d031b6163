----------------------------- MODULE MCFileTree -----------------------------
(***************************************************************************)
(* FileTree with two tasks and three inodes: a root that one entry fills,  *)
(* so that an inode is left over for a mkdir() that finds no room, and     *)
(* other directories of two; paths from the root, from the task's          *)
(* directory, through a directory, and out of it again. And FileBlocks     *)
(* with two tasks and two files on a disk of four blocks, which one file   *)
(* can fill, one direct zone, and two numbers in an indirect block, so     *)
(* that a file has blocks of each kind. And FileTable with two tasks that  *)
(* have three descriptors each, and a table of two files, which a pipe     *)
(* fills. And InodeTable with three tasks, two inodes, and a table of      *)
(* four, one more than the tasks: as one finds its inode locked, a second  *)
(* may give it up and take it again for the other. Only one of the four    *)
(* runs (which): their states are not multiplied.                          *)
(***************************************************************************)
EXTENDS FileTree, TLC

CONSTANTS Files, NrBlocks, Direct, PerBlock, Offsets, NR_OPEN, NR_FILE, Callers, NR_INODE
VARIABLES
    zmap, tab, data, size, user,
    filp, close_on_exec, f_count, refs, doing,
    inode_table, on_disk, caller,
    which

B == INSTANCE FileBlocks WITH Users <- Tasks
F == INSTANCE FileTable WITH Users <- Tasks
I == INSTANCE InodeTable WITH Users <- Callers, Nrs <- Files

ASSUME ConstantsAssumption ==
    B!FileBlocksAssumption /\ F!FileTableAssumption /\ I!InodeTableAssumption

blockVars == <<zmap, tab, data, size, user>>
tableVars == <<filp, close_on_exec, f_count, refs, doing>>
inodeVars == <<inode_table, on_disk, caller>>

MCInit == Init /\ B!BlocksInit /\ F!TableInit /\ I!TableInit
          /\ which \in {"tree", "blocks", "table", "inodes"}
MCNext ==
    /\ \/ which = "tree" /\ Next /\ UNCHANGED <<blockVars, tableVars, inodeVars>>
       \/ which = "blocks" /\ B!BlocksNext /\ UNCHANGED <<vars, tableVars, inodeVars>>
       \/ which = "table" /\ F!TableNext /\ UNCHANGED <<vars, blockVars, inodeVars>>
       \/ which = "inodes" /\ I!TableNext /\ UNCHANGED <<vars, blockVars, tableVars>>
    /\ UNCHANGED which

MCSpec == MCInit /\ [][MCNext]_<<vars, blockVars, tableVars, inodeVars, which>>

Entries == (1 :> 1) @@ (2 :> 2) @@ (3 :> 2)
PathsSmall == {<<"a">>, <<"/", "b">>, <<"a", "b">>, <<"a", "..", "b">>}
Symmetry == Permutations(Tasks) \cup Permutations(Files)

\* The blocks of files are owned once and found where they were put (inode.c, bitmap.c, truncate.c).
BlocksConsistent == which = "blocks" => B!BlocksConsistent

\* The file table counts the descriptors (open.c, fcntl.c, pipe.c, fork.c, exec.c, exit.c).
FilesConsistent == which = "table" => F!FilesConsistent

\* The inode table keeps each inode once, counts its users, and loses no change (inode.c).
InodesConsistent == which = "inodes" => I!InodesConsistent
=============================================================================
