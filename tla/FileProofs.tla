----------------------------- MODULE FileProofs -----------------------------
(***************************************************************************)
(* Proofs about InodeTable, FileTable and FileTree, with the instances of  *)
(* the first two in MCFileTree.                                            *)
(*                                                                         *)
(* For any set of tasks and of inodes and any size of the table, no inode  *)
(* is in the inode table twice, i_count is the number of the tasks that    *)
(* use an inode, none of them sees it become another one, and no change of *)
(* an inode is lost. For any set of tasks and any numbers of descriptors   *)
(* and slots, the file table counts the descriptors. And for any set of    *)
(* tasks and of paths, any number of inodes and any room in the            *)
(* directories, the links of an inode are its entries, i_count is the      *)
(* number of its holders, and no inode in use is lost.                     *)
(*                                                                         *)
(* The invariants are stated of any values, not only of the variables,     *)
(* because steps are proved as changes one after another: iget() and the   *)
(* end of a write in sync_inodes() as two, pipe() as two open()s, and a    *)
(* call on a path as what it does to the tree and then one iput() after    *)
(* the other, so that CountsOf has what is still to be let go of.          *)
(***************************************************************************)
EXTENDS MCFileTree, FiniteSetTheorems, WellFoundedInduction, NaturalsInduction, TLAPS

-----------------------------------------------------------------------------
(* The inode table: its invariant. *)
MaybeNr   == Files \cup {I!NoNr}
MaybeSlot == I!Slots \cup {I!NoSlot}
Inodes == [nr : MaybeNr, count : Nat, dirt : BOOLEAN, lock : BOOLEAN, newest : BOOLEAN]
Locals == [at : I!Places, nr : MaybeNr, inode : MaybeSlot, empty : MaybeSlot]

Typed(itab, disk, cal) ==
    itab \in [I!Slots -> Inodes] /\ disk \subseteq Files /\ cal \in [Callers -> Locals]

Has(c)     == c.at \in {"read", "holds", "put", "put_write"}
Locks(c)   == c.at \in {"read", "put_write", "sync_write"}
UsesOf(c)  == {s \in I!Slots : (Has(c) /\ c.inode = s) \/ (c.at = "found" /\ c.empty = s)}
UsersOf(cal, s) == {t \in Callers : s \in UsesOf(cal[t])}

\* i_count is the number of users.
Counted(itab, cal) == \A s \in I!Slots : itab[s].count = Cardinality(UsersOf(cal, s))

\* No inode is in the table twice.
Once(itab) == \A r, s \in I!Slots : itab[r].nr = itab[s].nr /\ itab[r].nr # I!NoNr => r = s

\* What a task at each place knows of the inode that it has: nobody else uses the empty one of
\* iget(), the one that is being read, and the one that iput() writes.
KnowsFound(itab, c) ==
    c.at = "found" =>
        /\ c.nr \in Files /\ c.inode \in I!Slots /\ c.empty \in I!Slots
        /\ itab[c.empty] = [I!Clean EXCEPT !.count = 1]
KnowsHas(itab, c) ==
    /\ Has(c) => c.nr \in Files /\ c.inode \in I!Slots /\ itab[c.inode].nr = c.nr
    /\ c.at = "read" => itab[c.inode].dirt = FALSE
    /\ c.at \in {"read", "put_write"} => itab[c.inode].count = 1
    /\ c.at \in {"holds", "put"} => itab[c.inode].newest = TRUE
KnowsLock(itab, c) ==
    /\ c.at = "sync" => c.inode \in I!Slots
    /\ Locks(c) => c.inode \in I!Slots /\ itab[c.inode].lock = TRUE
    /\ c.at \in {"put_write", "sync_write"} => itab[c.inode].dirt = TRUE
Knows(itab, c) == KnowsFound(itab, c) /\ KnowsHas(itab, c) /\ KnowsLock(itab, c)

\* No two tasks have locked the same inode.
LocksDiffer(cal) ==
    \A t, u \in Callers : Locks(cal[t]) /\ Locks(cal[u]) /\ cal[t].inode = cal[u].inode => t = u

\* An unused inode is clean, a dirty one has the newest data, and so has every one that is
\* not being read.
GoodSlot(i) ==
    /\ i.count = 0 => i.dirt = FALSE /\ i.lock = FALSE
    /\ i.dirt = TRUE => i.nr # I!NoNr
    /\ i.nr # I!NoNr /\ (i.lock = FALSE \/ i.dirt = TRUE) => i.newest = TRUE

\* What is not on the disk is in a dirty inode.
Saved(itab, disk) == \A nr \in Files \ disk : \E s \in I!Slots : itab[s].nr = nr /\ itab[s].dirt = TRUE

\* The inductive invariant.
Inv(itab, disk, cal) ==
    /\ Typed(itab, disk, cal)
    /\ Counted(itab, cal)
    /\ Once(itab)
    /\ \A t \in Callers : Knows(itab, cal[t])
    /\ LocksDiffer(cal)
    /\ \A s \in I!Slots : GoodSlot(itab[s])
    /\ Saved(itab, disk)

TableInv == Inv(inode_table, on_disk, caller)

-----------------------------------------------------------------------------
(* Types and counts. *)

\* The instance has a Cardinality of its own, which is the same.
LEMMA SameCardinality == \A T : I!Cardinality(T) = Cardinality(T)
  BY DEF I!Cardinality, Cardinality

\* Numbers and slots that are not none.
LEMMA ValuesAre ==
    /\ \A nr \in Files : nr \in MaybeNr /\ nr # I!NoNr
    /\ \A s \in I!Slots : s \in MaybeSlot /\ s # I!NoSlot
    /\ I!NoNr \in MaybeNr /\ I!NoSlot \in MaybeSlot
    /\ \A nr \in MaybeNr : nr # I!NoNr => nr \in Files
    /\ IsFiniteSet(Callers)
  BY ConstantsAssumption DEF I!InodeTableAssumption, I!IsFiniteSet, IsFiniteSet, MaybeNr, MaybeSlot, I!NoNr, I!NoSlot, I!Slots

\* The places are places.
LEMMA PlacesAre ==
    /\ "user" \in I!Places /\ "found" \in I!Places /\ "read" \in I!Places /\ "holds" \in I!Places
    /\ "put" \in I!Places /\ "put_write" \in I!Places /\ "sync" \in I!Places /\ "sync_write" \in I!Places
  BY DEF I!Places

\* The inode of get_empty_inode() and the task that has none.
LEMMA FreshAre ==
    I!Clean \in Inodes /\ [I!Clean EXCEPT !.count = 1] \in Inodes /\ I!Nobody \in Locals
  BY ValuesAre, PlacesAre DEF I!Clean, I!Nobody, Inodes, Locals

\* The tasks that use an inode are finitely many.
LEMMA UsersFinite ==
    ASSUME NEW cal, NEW s
    PROVE  IsFiniteSet(UsersOf(cal, s)) /\ Cardinality(UsersOf(cal, s)) \in 0 .. Cardinality(Callers)
<1>1. UsersOf(cal, s) \subseteq Callers
  BY DEF UsersOf
<1>2. QED
  BY <1>1, ValuesAre, FS_Subset, FS_CardinalityType

\* The count of an inode that a task uses is not zero.
LEMMA UsedIsCounted ==
    ASSUME NEW itab, NEW cal, Counted(itab, cal), NEW s \in I!Slots, NEW t \in Callers,
           s \in UsesOf(cal[t])
    PROVE  itab[s].count # 0
<1>1. t \in UsersOf(cal, s)
  BY DEF UsersOf
<1>2. QED
  BY <1>1, UsersFinite, FS_EmptySet DEF Counted

\* An inode whose count is one has one user.
LEMMA SoleUser ==
    ASSUME NEW itab, NEW cal, Counted(itab, cal), NEW s \in I!Slots, itab[s].count = 1,
           NEW t \in Callers, s \in UsesOf(cal[t]), NEW u \in Callers, s \in UsesOf(cal[u])
    PROVE  t = u
<1>1. t \in UsersOf(cal, s) /\ u \in UsersOf(cal, s)
  BY DEF UsersOf
<1>2. Cardinality(UsersOf(cal, s)) = 1
  BY DEF Counted
<1>3. PICK x : UsersOf(cal, s) = {x}
  BY <1>2, UsersFinite, FS_Singleton
<1>4. QED
  BY <1>1, <1>3

\* When one task changes what it uses, the counts of the inodes follow it.
LEMMA Recount ==
    ASSUME NEW itab, NEW tab2, NEW cal \in [Callers -> Locals], NEW t \in Callers, NEW c \in Locals,
           Counted(itab, cal),
           \A s \in I!Slots : tab2[s].count = itab[s].count + (IF s \in UsesOf(c) THEN 1 ELSE 0)
                                                          - (IF s \in UsesOf(cal[t]) THEN 1 ELSE 0)
    PROVE  Counted(tab2, [cal EXCEPT ![t] = c])
<1> DEFINE cal2 == [cal EXCEPT ![t] = c]
<1> SUFFICES ASSUME NEW s \in I!Slots PROVE tab2[s].count = Cardinality(UsersOf(cal2, s))
  BY DEF Counted
<1>1. cal2[t] = c /\ \A u \in Callers : u # t => cal2[u] = cal[u]
  OBVIOUS
<1>2. itab[s].count = Cardinality(UsersOf(cal, s)) /\ Cardinality(UsersOf(cal, s)) \in Nat
  BY UsersFinite, FS_CardinalityType DEF Counted
<1>3. tab2[s].count = itab[s].count + (IF s \in UsesOf(c) THEN 1 ELSE 0)
                                   - (IF s \in UsesOf(cal[t]) THEN 1 ELSE 0)
  OBVIOUS
<1> HIDE DEF cal2
<1>4. CASE s \in UsesOf(c)
  <2>1. UsersOf(cal2, s) = UsersOf(cal, s) \cup {t}
    BY <1>1, <1>4 DEF UsersOf
  <2>2. t \in UsersOf(cal, s) <=> s \in UsesOf(cal[t])
    BY DEF UsersOf
  <2>3. Cardinality(UsersOf(cal, s) \cup {t}) =
          IF t \in UsersOf(cal, s) THEN Cardinality(UsersOf(cal, s)) ELSE Cardinality(UsersOf(cal, s)) + 1
    BY UsersFinite, FS_AddElement
  <2>4. QED
    BY <2>1, <2>2, <2>3, <1>2, <1>3, <1>4
<1>5. CASE s \notin UsesOf(c)
  <2>1. UsersOf(cal2, s) = UsersOf(cal, s) \ {t}
    BY <1>1, <1>5 DEF UsersOf
  <2>2. t \in UsersOf(cal, s) <=> s \in UsesOf(cal[t])
    BY DEF UsersOf
  <2>3. Cardinality(UsersOf(cal, s) \ {t}) =
          IF t \in UsersOf(cal, s) THEN Cardinality(UsersOf(cal, s)) - 1 ELSE Cardinality(UsersOf(cal, s))
    BY UsersFinite, FS_RemoveElement
  <2>4. QED
    BY <2>1, <2>2, <2>3, <1>2, <1>3, <1>5
<1>6. QED
  BY <1>4, <1>5

\* A task that neither uses nor has locked an inode knows as much when this one changes.
LEMMA KnowsKept ==
    ASSUME NEW itab, NEW tab2, NEW e, NEW c, Knows(itab, c), e \notin UsesOf(c),
           ~(Locks(c) /\ c.inode = e), \A s \in I!Slots : s # e => tab2[s] = itab[s]
    PROVE  Knows(tab2, c)
<1>1. KnowsFound(tab2, c)
  BY DEF Knows, KnowsFound, UsesOf
<1>2. KnowsHas(tab2, c)
  BY DEF Knows, KnowsHas, UsesOf, Has
<1>3. KnowsLock(tab2, c)
  BY DEF Knows, KnowsLock, Locks
<1>4. QED
  BY <1>1, <1>2, <1>3 DEF Knows

-----------------------------------------------------------------------------
(* The changes that the actions are made of. *)

\* get_empty_inode() takes an unused inode, for iget().
LEMMA TakeEmpty ==
    ASSUME NEW itab, NEW disk, NEW cal, Inv(itab, disk, cal), NEW t \in Callers, cal[t].at = "user",
           NEW nr \in Files, NEW e \in I!Slots, itab[e].count = 0
    PROVE  Inv([itab EXCEPT ![e] = [I!Clean EXCEPT !.count = 1]], disk,
               [cal EXCEPT ![t] = [at |-> "found", nr |-> nr, inode |-> e, empty |-> e]])
<1> DEFINE i == [I!Clean EXCEPT !.count = 1]
           c == [at |-> "found", nr |-> nr, inode |-> e, empty |-> e]
           tab2 == [itab EXCEPT ![e] = i]
           cal2 == [cal EXCEPT ![t] = c]
<1>1. itab \in [I!Slots -> Inodes] /\ cal \in [Callers -> Locals] /\ disk \subseteq Files
  BY DEF Inv, Typed
<1>2. i.nr = I!NoNr /\ i.count = 1 /\ i.dirt = FALSE /\ i.lock = FALSE /\ i.newest = FALSE
  BY DEF I!Clean
<1>3. c \in Locals /\ c.at = "found" /\ c.nr = nr /\ c.inode = e /\ c.empty = e
  BY ValuesAre, PlacesAre DEF Locals
<1>4. tab2[e] = i /\ \A s \in I!Slots : s # e => tab2[s] = itab[s]
  BY <1>1
<1>5. cal2[t] = c /\ \A u \in Callers : u # t => cal2[u] = cal[u]
  BY <1>1
<1>6. Typed(tab2, disk, cal2)
  BY <1>1, <1>3, FreshAre DEF Typed
<1>7. Counted(tab2, cal2)
  <2> HIDE DEF i, c, tab2
  <2>1. UsesOf(cal[t]) = {} /\ UsesOf(c) = {e}
    BY <1>3 DEF UsesOf, Has
  <2>2. \A s \in I!Slots : itab[s].count \in Nat
    BY <1>1 DEF Inodes
  <2>3. \A s \in I!Slots : tab2[s].count = itab[s].count + (IF s \in UsesOf(c) THEN 1 ELSE 0)
                                                       - (IF s \in UsesOf(cal[t]) THEN 1 ELSE 0)
    BY <2>1, <2>2, <1>2, <1>4
  <2>4. QED
    BY <2>3, <1>1, <1>3, Recount DEF Inv
<1> HIDE DEF i, c, tab2, cal2
<1>8. Once(tab2)
  BY <1>2, <1>4 DEF Inv, Once
<1>9. ASSUME NEW u \in Callers PROVE Knows(tab2, cal2[u])
  <2>1. CASE u = t
    BY <2>1, <1>2, <1>3, <1>4, <1>5 DEF i, Knows, KnowsFound, KnowsHas, KnowsLock, Has, Locks
  <2>2. CASE u # t
    <3>1. Knows(itab, cal[u]) /\ e \notin UsesOf(cal[u]) /\ ~(Locks(cal[u]) /\ cal[u].inode = e)
      BY UsedIsCounted DEF Inv, GoodSlot, Knows, KnowsLock
    <3>2. QED
      BY <3>1, <2>2, <1>4, <1>5, KnowsKept
  <2>3. QED
    BY <2>1, <2>2
<1>10. LocksDiffer(cal2)
  BY <1>3, <1>5 DEF Inv, LocksDiffer, Locks
<1>11. \A s \in I!Slots : GoodSlot(tab2[s])
  BY <1>2, <1>4 DEF Inv, GoodSlot
<1>12. Saved(tab2, disk)
  BY <1>2, <1>4 DEF Inv, Saved, GoodSlot
<1>13. QED
  BY <1>6, <1>7, <1>8, <1>9, <1>10, <1>11, <1>12 DEF Inv, i, c, tab2, cal2

\* iget() finds the inode, unlocked, takes it and gives the empty one back.
LEMMA TakeFound ==
    ASSUME NEW itab, NEW disk, NEW cal, Inv(itab, disk, cal), NEW t \in Callers, cal[t].at = "found",
           NEW f \in I!Slots, itab[f].nr = cal[t].nr, itab[f].lock = FALSE
    PROVE  Inv([itab EXCEPT ![f].count = @ + 1, ![cal[t].empty].count = @ - 1], disk,
               [cal EXCEPT ![t] = [at |-> "holds", nr |-> cal[t].nr, inode |-> f, empty |-> I!NoSlot]])
<1> DEFINE e == cal[t].empty
           c == [at |-> "holds", nr |-> cal[t].nr, inode |-> f, empty |-> I!NoSlot]
           tab2 == [itab EXCEPT ![f].count = @ + 1, ![e].count = @ - 1]
           cal2 == [cal EXCEPT ![t] = c]
<1>1. itab \in [I!Slots -> Inodes] /\ cal \in [Callers -> Locals] /\ disk \subseteq Files
  BY DEF Inv, Typed
<1>2. e \in I!Slots /\ cal[t].nr \in Files /\ itab[e].nr = I!NoNr /\ itab[e].count = 1
      /\ itab[e].dirt = FALSE /\ itab[e].lock = FALSE
  BY DEF Inv, Knows, KnowsFound, I!Clean
<1>3. c \in Locals /\ c.at = "holds" /\ c.nr = cal[t].nr /\ c.inode = f
  BY <1>2, ValuesAre, PlacesAre DEF Locals
<1>4. f # e /\ itab[f].newest = TRUE /\ itab[f].nr \in Files
  BY <1>2, ValuesAre DEF Inv, GoodSlot
<1>5. /\ tab2 \in [I!Slots -> Inodes]
      /\ tab2[f] = [itab[f] EXCEPT !.count = itab[f].count + 1]
      /\ tab2[e] = [itab[e] EXCEPT !.count = itab[e].count - 1]
      /\ \A s \in I!Slots : s # e /\ s # f => tab2[s] = itab[s]
  BY <1>1, <1>2, <1>4 DEF Inodes
<1>6. \A s \in I!Slots : /\ tab2[s].nr = itab[s].nr /\ tab2[s].dirt = itab[s].dirt
                         /\ tab2[s].lock = itab[s].lock /\ tab2[s].newest = itab[s].newest
                         /\ itab[s].count \in Nat
                         /\ tab2[s].count = IF s = f THEN itab[s].count + 1
                                            ELSE IF s = e THEN itab[s].count - 1 ELSE itab[s].count
  BY <1>1, <1>2, <1>4, <1>5 DEF Inodes
<1>7. cal2[t] = c /\ \A u \in Callers : u # t => cal2[u] = cal[u]
  BY <1>1
<1>8. Typed(tab2, disk, cal2)
  BY <1>1, <1>3, <1>5 DEF Typed
<1>9. Counted(tab2, cal2)
  <2> HIDE DEF c, tab2
  <2>1. UsesOf(cal[t]) = {e} /\ UsesOf(c) = {f}
    BY <1>2, <1>3 DEF UsesOf, Has
  <2>2. \A s \in I!Slots : tab2[s].count = itab[s].count + (IF s \in UsesOf(c) THEN 1 ELSE 0)
                                                       - (IF s \in UsesOf(cal[t]) THEN 1 ELSE 0)
    BY <2>1, <1>4, <1>6
  <2>3. QED
    BY <2>2, <1>1, <1>3, Recount DEF Inv
<1> HIDE DEF e, c, tab2, cal2
<1>10. Once(tab2)
  BY <1>6 DEF Inv, Once
<1>11. ASSUME NEW u \in Callers PROVE Knows(tab2, cal2[u])
  <2>1. CASE u = t
    BY <2>1, <1>2, <1>3, <1>4, <1>6, <1>7 DEF Knows, KnowsFound, KnowsHas, KnowsLock, Has, Locks
  <2>2. CASE u # t
    <3>1. Knows(itab, cal[u])
      BY DEF Inv
    <3>2. e \notin UsesOf(cal[u])
      <4>1. e \in UsesOf(cal[t])
        BY <1>2 DEF UsesOf, e
      <4>2. QED
        BY <4>1, <2>2, <1>2, SoleUser DEF Inv
    <3>3. ~(cal[u].at = "found" /\ cal[u].empty = f)
      BY <3>1, <1>4, ValuesAre DEF Knows, KnowsFound, I!Clean
    <3>4. ~(Locks(cal[u]) /\ cal[u].inode = f)
      BY <3>1 DEF Knows, KnowsLock
    <3>5. KnowsFound(tab2, cal2[u])
      BY <3>1, <3>2, <3>3, <2>2, <1>5, <1>7 DEF Knows, KnowsFound, UsesOf
    <3>6. KnowsHas(tab2, cal2[u])
      BY <3>1, <3>2, <3>4, <2>2, <1>6, <1>7 DEF Knows, KnowsHas, UsesOf, Has, Locks
    <3>7. KnowsLock(tab2, cal2[u])
      BY <3>1, <2>2, <1>6, <1>7 DEF Knows, KnowsLock, Locks
    <3>8. QED
      BY <3>5, <3>6, <3>7 DEF Knows
  <2>3. QED
    BY <2>1, <2>2
<1>12. LocksDiffer(cal2)
  BY <1>3, <1>7 DEF Inv, LocksDiffer, Locks
<1>13. \A s \in I!Slots : GoodSlot(tab2[s])
  BY <1>2, <1>4, <1>6 DEF Inv, GoodSlot
<1>14. Saved(tab2, disk)
  BY <1>6 DEF Inv, Saved
<1>15. QED
  BY <1>8, <1>9, <1>10, <1>11, <1>12, <1>13, <1>14 DEF Inv, e, c, tab2, cal2

\* A task goes to sleep on the lock of an inode, in iget(), in iput() or in sync_inodes(), or has
\* nothing more to do in sync_inodes(): what it uses and has locked stays the same.
LEMMA OnlyMoves ==
    ASSUME NEW itab, NEW disk, NEW cal, Inv(itab, disk, cal), NEW t \in Callers, NEW c \in Locals,
           UsesOf(c) = UsesOf(cal[t]), ~Locks(c), Knows(itab, c)
    PROVE  Inv(itab, disk, [cal EXCEPT ![t] = c])
<1> DEFINE cal2 == [cal EXCEPT ![t] = c]
<1>1. itab \in [I!Slots -> Inodes] /\ cal \in [Callers -> Locals] /\ disk \subseteq Files
  BY DEF Inv, Typed
<1>2. cal2[t] = c /\ \A u \in Callers : u # t => cal2[u] = cal[u]
  BY <1>1
<1>3. Typed(itab, disk, cal2)
  BY <1>1 DEF Typed
<1>4. Counted(itab, cal2)
  <2>1. \A s \in I!Slots : itab[s].count \in Nat
    BY <1>1 DEF Inodes
  <2>2. \A s \in I!Slots : itab[s].count = itab[s].count + (IF s \in UsesOf(c) THEN 1 ELSE 0)
                                                      - (IF s \in UsesOf(cal[t]) THEN 1 ELSE 0)
    BY <2>1
  <2>3. QED
    BY <2>2, <1>1, Recount DEF Inv
<1> HIDE DEF cal2
<1>5. \A u \in Callers : Knows(itab, cal2[u])
  BY <1>2 DEF Inv
<1>6. LocksDiffer(cal2)
  BY <1>2 DEF Inv, LocksDiffer
<1>7. QED
  BY <1>3, <1>4, <1>5, <1>6 DEF Inv, cal2

\* iget() does not find the inode, and read_inode() locks the empty one.
LEMMA BeginRead ==
    ASSUME NEW itab, NEW disk, NEW cal, Inv(itab, disk, cal), NEW t \in Callers, cal[t].at = "found",
           \A s \in I!Slots : itab[s].nr # cal[t].nr
    PROVE  Inv([itab EXCEPT ![cal[t].empty].nr = cal[t].nr, ![cal[t].empty].lock = TRUE], disk,
               [cal EXCEPT ![t] = [at |-> "read", nr |-> cal[t].nr, inode |-> cal[t].empty,
                                   empty |-> I!NoSlot]])
<1> DEFINE e == cal[t].empty
           c == [at |-> "read", nr |-> cal[t].nr, inode |-> e, empty |-> I!NoSlot]
           tab2 == [itab EXCEPT ![e].nr = cal[t].nr, ![e].lock = TRUE]
           cal2 == [cal EXCEPT ![t] = c]
<1>1. itab \in [I!Slots -> Inodes] /\ cal \in [Callers -> Locals] /\ disk \subseteq Files
  BY DEF Inv, Typed
<1>2. e \in I!Slots /\ cal[t].nr \in Files /\ itab[e].nr = I!NoNr /\ itab[e].count = 1
      /\ itab[e].dirt = FALSE /\ itab[e].lock = FALSE /\ itab[e].newest = FALSE
  BY DEF Inv, Knows, KnowsFound, I!Clean
<1>3. c \in Locals /\ c.at = "read" /\ c.nr = cal[t].nr /\ c.inode = e
  BY <1>2, ValuesAre, PlacesAre DEF Locals
<1>4. /\ tab2 \in [I!Slots -> Inodes]
      /\ tab2[e].nr = cal[t].nr /\ tab2[e].count = 1 /\ tab2[e].dirt = FALSE
      /\ tab2[e].lock = TRUE
      /\ \A s \in I!Slots : s # e => tab2[s] = itab[s]
  BY <1>1, <1>2, ValuesAre DEF Inodes
<1>5. cal2[t] = c /\ \A u \in Callers : u # t => cal2[u] = cal[u]
  BY <1>1
<1>6. Typed(tab2, disk, cal2)
  BY <1>1, <1>3, <1>4 DEF Typed
<1>7. Counted(tab2, cal2)
  <2> HIDE DEF c, tab2
  <2>1. UsesOf(cal[t]) = {e} /\ UsesOf(c) = {e}
    BY <1>2, <1>3 DEF UsesOf, Has
  <2>2. \A s \in I!Slots : itab[s].count \in Nat
    BY <1>1 DEF Inodes
  <2>3. \A s \in I!Slots : tab2[s].count = itab[s].count + (IF s \in UsesOf(c) THEN 1 ELSE 0)
                                                       - (IF s \in UsesOf(cal[t]) THEN 1 ELSE 0)
    BY <2>1, <2>2, <1>2, <1>4
  <2>4. QED
    BY <2>3, <1>1, <1>3, Recount DEF Inv
<1> HIDE DEF c, tab2, cal2
<1>8. Once(tab2)
  BY <1>4 DEF Inv, Once
<1>9. ASSUME NEW u \in Callers, u # t
      PROVE  Knows(itab, cal[u]) /\ e \notin UsesOf(cal[u]) /\ ~(Locks(cal[u]) /\ cal[u].inode = e)
  <2>1. e \in UsesOf(cal[t])
    BY <1>2 DEF UsesOf
  <2>2. e \notin UsesOf(cal[u])
    BY <2>1, <1>2, <1>9, SoleUser DEF Inv
  <2>3. QED
    BY <2>2, <1>2 DEF Inv, Knows, KnowsLock
<1>10. ASSUME NEW u \in Callers PROVE Knows(tab2, cal2[u])
  <2>1. CASE u = t
    BY <2>1, <1>2, <1>3, <1>4, <1>5 DEF Knows, KnowsFound, KnowsHas, KnowsLock, Has, Locks
  <2>2. CASE u # t
    BY <2>2, <1>9, <1>4, <1>5, KnowsKept
  <2>3. QED
    BY <2>1, <2>2
<1>11. LocksDiffer(cal2)
  BY <1>3, <1>5, <1>9 DEF Inv, LocksDiffer
<1>12. \A s \in I!Slots : GoodSlot(tab2[s])
  BY <1>4 DEF Inv, GoodSlot
<1>13. Saved(tab2, disk)
  BY <1>2, <1>4 DEF Inv, Saved
<1>14. QED
  BY <1>6, <1>7, <1>8, <1>10, <1>11, <1>12, <1>13 DEF Inv, c, tab2, cal2

\* read_inode() has the data of the inode, which are the newest.
LEMMA EndRead ==
    ASSUME NEW itab, NEW disk, NEW cal, Inv(itab, disk, cal), NEW t \in Callers, cal[t].at = "read"
    PROVE  Inv([itab EXCEPT ![cal[t].inode].lock = FALSE,
                           ![cal[t].inode].newest = cal[t].nr \in disk], disk,
               [cal EXCEPT ![t] = [cal[t] EXCEPT !.at = "holds"]])
<1> DEFINE e == cal[t].inode
           c == [cal[t] EXCEPT !.at = "holds"]
           tab2 == [itab EXCEPT ![e].lock = FALSE, ![e].newest = cal[t].nr \in disk]
           cal2 == [cal EXCEPT ![t] = c]
<1>1. itab \in [I!Slots -> Inodes] /\ cal \in [Callers -> Locals] /\ disk \subseteq Files
  BY DEF Inv, Typed
<1>2. e \in I!Slots /\ cal[t].nr \in Files /\ itab[e].nr = cal[t].nr /\ itab[e].count = 1
      /\ itab[e].dirt = FALSE
  BY DEF Inv, Knows, KnowsHas, Has
<1>3. c \in Locals /\ c.at = "holds" /\ c.nr = cal[t].nr /\ c.inode = e
  BY <1>1, PlacesAre DEF Locals
<1>4. cal[t].nr \in disk
  BY <1>2, ValuesAre DEF Inv, Saved, Once
<1>5. /\ tab2 \in [I!Slots -> Inodes]
      /\ tab2[e].nr = cal[t].nr /\ tab2[e].count = 1 /\ tab2[e].dirt = FALSE
      /\ tab2[e].lock = FALSE /\ tab2[e].newest = TRUE
      /\ \A s \in I!Slots : s # e => tab2[s] = itab[s]
  BY <1>1, <1>2, <1>4 DEF Inodes
<1>6. cal2[t] = c /\ \A u \in Callers : u # t => cal2[u] = cal[u]
  BY <1>1
<1>7. Typed(tab2, disk, cal2)
  BY <1>1, <1>3, <1>5 DEF Typed
<1>8. Counted(tab2, cal2)
  <2> HIDE DEF c, tab2
  <2>1. UsesOf(cal[t]) = {e} /\ UsesOf(c) = {e}
    BY <1>2, <1>3 DEF UsesOf, Has
  <2>2. \A s \in I!Slots : itab[s].count \in Nat
    BY <1>1 DEF Inodes
  <2>3. \A s \in I!Slots : tab2[s].count = itab[s].count + (IF s \in UsesOf(c) THEN 1 ELSE 0)
                                                       - (IF s \in UsesOf(cal[t]) THEN 1 ELSE 0)
    BY <2>1, <2>2, <1>2, <1>5
  <2>4. QED
    BY <2>3, <1>1, <1>3, Recount DEF Inv
<1> HIDE DEF c, tab2, cal2
<1>9. Once(tab2)
  BY <1>2, <1>5 DEF Inv, Once
<1>10. ASSUME NEW u \in Callers, u # t
       PROVE  Knows(itab, cal[u]) /\ e \notin UsesOf(cal[u]) /\ ~(Locks(cal[u]) /\ cal[u].inode = e)
  <2>1. e \in UsesOf(cal[t])
    BY <1>2 DEF UsesOf, Has
  <2>2. e \notin UsesOf(cal[u])
    BY <2>1, <1>2, <1>10, SoleUser DEF Inv
  <2>3. QED
    BY <2>2, <1>10 DEF Inv, LocksDiffer, Locks
<1>11. ASSUME NEW u \in Callers PROVE Knows(tab2, cal2[u])
  <2>1. CASE u = t
    BY <2>1, <1>2, <1>3, <1>5, <1>6 DEF Knows, KnowsFound, KnowsHas, KnowsLock, Has, Locks
  <2>2. CASE u # t
    BY <2>2, <1>10, <1>5, <1>6, KnowsKept
  <2>3. QED
    BY <2>1, <2>2
<1>12. LocksDiffer(cal2)
  BY <1>3, <1>6 DEF Inv, LocksDiffer, Locks
<1>13. \A s \in I!Slots : GoodSlot(tab2[s])
  BY <1>5 DEF Inv, GoodSlot
<1>14. Saved(tab2, disk)
  BY <1>2, <1>5 DEF Inv, Saved
<1>15. QED
  BY <1>7, <1>8, <1>9, <1>11, <1>12, <1>13, <1>14 DEF Inv, c, tab2, cal2

\* A task changes the inode that it holds.
LEMMA Dirty ==
    ASSUME NEW itab, NEW disk, NEW cal, Inv(itab, disk, cal), NEW t \in Callers, cal[t].at = "holds"
    PROVE  Inv([itab EXCEPT ![cal[t].inode].dirt = TRUE, ![cal[t].inode].newest = TRUE],
               disk \ {cal[t].nr}, cal)
<1> DEFINE e == cal[t].inode
           tab2 == [itab EXCEPT ![e].dirt = TRUE, ![e].newest = TRUE]
<1>1. itab \in [I!Slots -> Inodes] /\ cal \in [Callers -> Locals] /\ disk \subseteq Files
  BY DEF Inv, Typed
<1>2. e \in I!Slots /\ cal[t].nr \in Files /\ itab[e].nr = cal[t].nr
  BY DEF Inv, Knows, KnowsHas, Has
<1>3. /\ tab2 \in [I!Slots -> Inodes]
      /\ tab2[e].dirt = TRUE /\ tab2[e].newest = TRUE
      /\ \A s \in I!Slots : s # e => tab2[s] = itab[s]
      /\ \A s \in I!Slots : /\ tab2[s].nr = itab[s].nr /\ tab2[s].count = itab[s].count
                           /\ tab2[s].lock = itab[s].lock
  BY <1>1, <1>2 DEF Inodes
<1>4. e \in UsesOf(cal[t]) /\ itab[e].count # 0
  BY <1>2, UsedIsCounted DEF UsesOf, Has, Inv
<1> HIDE DEF tab2
<1>5. Typed(tab2, disk \ {cal[t].nr}, cal)
  BY <1>1, <1>3 DEF Typed
<1>6. Counted(tab2, cal) /\ Once(tab2)
  BY <1>3 DEF Inv, Counted, Once
<1>7. ASSUME NEW u \in Callers PROVE Knows(tab2, cal[u])
  <2>1. Knows(itab, cal[u])
    BY DEF Inv
  <2>2. ~(cal[u].at = "found" /\ cal[u].empty = e)
    BY <2>1, <1>2, ValuesAre DEF Knows, KnowsFound, I!Clean
  <2>3. ~(cal[u].at = "read" /\ cal[u].inode = e)
    <3> SUFFICES ASSUME cal[u].at = "read", cal[u].inode = e PROVE FALSE
      OBVIOUS
    <3>1. e \in UsesOf(cal[u]) /\ itab[e].count = 1
      BY <2>1, <1>2 DEF Knows, KnowsHas, UsesOf, Has
    <3>2. t = u
      BY <3>1, <1>2, <1>4, SoleUser DEF Inv
    <3>3. QED
      BY <3>2
  <2>4. KnowsFound(tab2, cal[u])
    BY <2>1, <2>2, <1>3 DEF Knows, KnowsFound
  <2>5. KnowsHas(tab2, cal[u])
    BY <2>1, <2>3, <1>3 DEF Knows, KnowsHas, Has
  <2>6. KnowsLock(tab2, cal[u])
    BY <2>1, <1>3 DEF Knows, KnowsLock, Locks
  <2>7. QED
    BY <2>4, <2>5, <2>6 DEF Knows
<1>8. \A s \in I!Slots : GoodSlot(tab2[s])
  BY <1>2, <1>3, <1>4, ValuesAre DEF Inv, GoodSlot
<1>9. Saved(tab2, disk \ {cal[t].nr})
  BY <1>2, <1>3 DEF Inv, Saved
<1>10. QED
  BY <1>5, <1>6, <1>7, <1>8, <1>9 DEF Inv, tab2

\* iput() gives up an inode that others use as well, or that is clean.
LEMMA UserGivesUp ==
    ASSUME NEW itab, NEW disk, NEW cal, Inv(itab, disk, cal), NEW t \in Callers,
           cal[t].at \in {"holds", "put"}, itab[cal[t].inode].lock = FALSE,
           itab[cal[t].inode].count > 1 \/ itab[cal[t].inode].dirt = FALSE
    PROVE  Inv([itab EXCEPT ![cal[t].inode].count = @ - 1], disk, [cal EXCEPT ![t] = I!Nobody])
<1> DEFINE e == cal[t].inode
           tab2 == [itab EXCEPT ![e].count = @ - 1]
           cal2 == [cal EXCEPT ![t] = I!Nobody]
<1>1. itab \in [I!Slots -> Inodes] /\ cal \in [Callers -> Locals] /\ disk \subseteq Files
  BY DEF Inv, Typed
<1>2. e \in I!Slots /\ cal[t].nr \in Files /\ itab[e].nr = cal[t].nr
  BY DEF Inv, Knows, KnowsHas, Has
<1>3. UsesOf(cal[t]) = {e} /\ itab[e].count # 0
  <2>1. UsesOf(cal[t]) = {e}
    BY <1>2 DEF UsesOf, Has
  <2>2. QED
    BY <2>1, <1>2, UsedIsCounted DEF Inv
<1>4. /\ tab2 \in [I!Slots -> Inodes]
      /\ itab[e].count \in Nat /\ tab2[e].count = itab[e].count - 1
      /\ \A s \in I!Slots : s # e => tab2[s] = itab[s]
      /\ \A s \in I!Slots : /\ tab2[s].nr = itab[s].nr /\ tab2[s].dirt = itab[s].dirt
                           /\ tab2[s].lock = itab[s].lock /\ tab2[s].newest = itab[s].newest
  BY <1>1, <1>2, <1>3 DEF Inodes
<1>5. cal2[t] = I!Nobody /\ \A u \in Callers : u # t => cal2[u] = cal[u]
  BY <1>1
<1>6. I!Nobody.at = "user"
  BY DEF I!Nobody
<1>7. Typed(tab2, disk, cal2)
  BY <1>1, <1>4, FreshAre DEF Typed
<1>8. Counted(tab2, cal2)
  <2> HIDE DEF tab2
  <2>1. UsesOf(I!Nobody) = {}
    BY <1>6 DEF UsesOf, Has
  <2>2. \A s \in I!Slots : itab[s].count \in Nat
    BY <1>1 DEF Inodes
  <2>3. \A s \in I!Slots : tab2[s].count = itab[s].count + (IF s \in UsesOf(I!Nobody) THEN 1 ELSE 0)
                                                       - (IF s \in UsesOf(cal[t]) THEN 1 ELSE 0)
    BY <2>1, <2>2, <1>3, <1>4
  <2>4. QED
    BY <2>3, <1>1, FreshAre, Recount DEF Inv
<1> HIDE DEF tab2, cal2
<1>9. Once(tab2)
  BY <1>4 DEF Inv, Once
<1>10. ASSUME NEW u \in Callers PROVE Knows(tab2, cal2[u])
  <2>1. CASE u = t
    BY <2>1, <1>5, <1>6 DEF Knows, KnowsFound, KnowsHas, KnowsLock, Has, Locks
  <2>2. CASE u # t
    <3>1. Knows(itab, cal[u])
      BY DEF Inv
    <3>2. ~(cal[u].at = "found" /\ cal[u].empty = e)
      BY <3>1, <1>2, ValuesAre DEF Knows, KnowsFound, I!Clean
    <3>3. ~(cal[u].at \in {"read", "put_write"} /\ cal[u].inode = e)
      BY <3>1 DEF Knows, KnowsLock, Locks
    <3>4. KnowsFound(tab2, cal2[u])
      BY <3>1, <3>2, <2>2, <1>4, <1>5 DEF Knows, KnowsFound
    <3>5. KnowsHas(tab2, cal2[u])
      BY <3>1, <3>3, <2>2, <1>4, <1>5 DEF Knows, KnowsHas, Has
    <3>6. KnowsLock(tab2, cal2[u])
      BY <3>1, <2>2, <1>4, <1>5 DEF Knows, KnowsLock, Locks
    <3>7. QED
      BY <3>4, <3>5, <3>6 DEF Knows
  <2>3. QED
    BY <2>1, <2>2
<1>11. LocksDiffer(cal2)
  BY <1>5, <1>6 DEF Inv, LocksDiffer, Locks
<1>12. \A s \in I!Slots : GoodSlot(tab2[s])
  BY <1>4 DEF Inv, GoodSlot
<1>13. Saved(tab2, disk)
  BY <1>4 DEF Inv, Saved
<1>14. QED
  BY <1>7, <1>8, <1>9, <1>10, <1>11, <1>12, <1>13 DEF Inv, tab2, cal2

\* write_inode(), called by iput() or by sync_inodes(), locks a dirty inode.
LEMMA BeginWrite ==
    ASSUME NEW itab, NEW disk, NEW cal, Inv(itab, disk, cal), NEW t \in Callers, NEW c \in Locals,
           UsesOf(c) = UsesOf(cal[t]), NEW e \in I!Slots, c.inode = e, itab[e].dirt = TRUE,
           itab[e].lock = FALSE,
           \/ c.at = "sync_write"
           \/ c.at = "put_write" /\ itab[e].count = 1 /\ c.nr \in Files /\ itab[e].nr = c.nr
    PROVE  Inv([itab EXCEPT ![e].lock = TRUE], disk, [cal EXCEPT ![t] = c])
<1> DEFINE tab2 == [itab EXCEPT ![e].lock = TRUE]
           cal2 == [cal EXCEPT ![t] = c]
<1>1. itab \in [I!Slots -> Inodes] /\ cal \in [Callers -> Locals] /\ disk \subseteq Files
  BY DEF Inv, Typed
<1>2. /\ tab2 \in [I!Slots -> Inodes]
      /\ tab2[e].lock = TRUE
      /\ \A s \in I!Slots : s # e => tab2[s] = itab[s]
      /\ \A s \in I!Slots : /\ tab2[s].nr = itab[s].nr /\ tab2[s].dirt = itab[s].dirt
                           /\ tab2[s].count = itab[s].count /\ tab2[s].newest = itab[s].newest
                           /\ itab[s].count \in Nat
  BY <1>1 DEF Inodes
<1>3. cal2[t] = c /\ \A u \in Callers : u # t => cal2[u] = cal[u]
  BY <1>1
<1>4. Typed(tab2, disk, cal2)
  BY <1>1, <1>2 DEF Typed
<1>5. Counted(tab2, cal2)
  <2> HIDE DEF tab2
  <2>1. \A s \in I!Slots : tab2[s].count = itab[s].count + (IF s \in UsesOf(c) THEN 1 ELSE 0)
                                                       - (IF s \in UsesOf(cal[t]) THEN 1 ELSE 0)
    BY <1>2
  <2>2. QED
    BY <2>1, <1>1, Recount DEF Inv
<1> HIDE DEF tab2, cal2
<1>6. Once(tab2)
  BY <1>2 DEF Inv, Once
<1>7. ASSUME NEW u \in Callers PROVE Knows(tab2, cal2[u])
  <2>1. CASE u = t
    BY <2>1, <1>2, <1>3 DEF Knows, KnowsFound, KnowsHas, KnowsLock, Has, Locks
  <2>2. CASE u # t
    <3>1. Knows(itab, cal[u])
      BY DEF Inv
    <3>2. ~(cal[u].at = "found" /\ cal[u].empty = e)
      BY <3>1 DEF Knows, KnowsFound, I!Clean
    <3>3. KnowsFound(tab2, cal2[u])
      BY <3>1, <3>2, <2>2, <1>2, <1>3 DEF Knows, KnowsFound
    <3>4. KnowsHas(tab2, cal2[u])
      BY <3>1, <2>2, <1>2, <1>3 DEF Knows, KnowsHas, Has
    <3>5. KnowsLock(tab2, cal2[u])
      BY <3>1, <2>2, <1>2, <1>3 DEF Knows, KnowsLock, Locks
    <3>6. QED
      BY <3>3, <3>4, <3>5 DEF Knows
  <2>3. QED
    BY <2>1, <2>2
<1>8. LocksDiffer(cal2)
  <2>1. \A u \in Callers : ~(Locks(cal[u]) /\ cal[u].inode = e)
    BY DEF Inv, Knows, KnowsLock
  <2>2. QED
    BY <2>1, <1>3 DEF Inv, LocksDiffer
<1>9. \A s \in I!Slots : GoodSlot(tab2[s])
  BY <1>2 DEF Inv, GoodSlot
<1>10. Saved(tab2, disk)
  BY <1>2 DEF Inv, Saved
<1>11. QED
  BY <1>4, <1>5, <1>6, <1>7, <1>8, <1>9, <1>10 DEF Inv, tab2, cal2

\* write_inode() has the block: the newest data are on the disk, the inode is clean and unlocked,
\* and iput() gives it up.
LEMMA EndWrite ==
    ASSUME NEW itab, NEW disk, NEW cal, Inv(itab, disk, cal), NEW t \in Callers,
           cal[t].at \in {"put_write", "sync_write"},
           NEW e \in I!Slots, cal[t].inode = e,
           NEW tab2 \in [I!Slots -> Inodes],
           tab2[e].nr = itab[e].nr, tab2[e].newest = itab[e].newest,
           tab2[e].dirt = FALSE, tab2[e].lock = FALSE,
           tab2[e].count = itab[e].count - (IF cal[t].at = "put_write" THEN 1 ELSE 0),
           \A s \in I!Slots : s # e => tab2[s] = itab[s]
    PROVE  Inv(tab2, disk \cup {itab[e].nr}, [cal EXCEPT ![t] = I!Nobody])
<1> DEFINE cal2 == [cal EXCEPT ![t] = I!Nobody]
<1>1. itab \in [I!Slots -> Inodes] /\ cal \in [Callers -> Locals] /\ disk \subseteq Files
  BY DEF Inv, Typed
<1>2. itab[e].dirt = TRUE /\ itab[e].lock = TRUE /\ itab[e].newest = TRUE /\ itab[e].nr \in Files
  <2>1. itab[e].dirt = TRUE /\ itab[e].lock = TRUE
    BY DEF Inv, Knows, KnowsLock, Locks
  <2>2. itab[e].nr \in MaybeNr
    BY <1>1 DEF Inodes
  <2>3. QED
    BY <2>1, <2>2, ValuesAre DEF Inv, GoodSlot
<1>3. UsesOf(cal[t]) = IF cal[t].at = "put_write" THEN {e} ELSE {}
  BY DEF UsesOf, Has
<1>4. cal2[t] = I!Nobody /\ \A u \in Callers : u # t => cal2[u] = cal[u]
  BY <1>1
<1>5. I!Nobody.at = "user"
  BY DEF I!Nobody
<1>6. Typed(tab2, disk \cup {itab[e].nr}, cal2)
  BY <1>1, <1>2, FreshAre DEF Typed
<1>7. Counted(tab2, cal2)
  <2>1. UsesOf(I!Nobody) = {}
    BY <1>5 DEF UsesOf, Has
  <2>2. \A s \in I!Slots : itab[s].count \in Nat
    BY <1>1 DEF Inodes
  <2>3. \A s \in I!Slots : tab2[s].count = itab[s].count + (IF s \in UsesOf(I!Nobody) THEN 1 ELSE 0)
                                                       - (IF s \in UsesOf(cal[t]) THEN 1 ELSE 0)
    BY <2>1, <2>2, <1>3
  <2>4. QED
    BY <2>3, <1>1, FreshAre, Recount DEF Inv
<1> HIDE DEF cal2
<1>8. Once(tab2)
  BY DEF Inv, Once
<1>9. ASSUME NEW u \in Callers PROVE Knows(tab2, cal2[u])
  <2>1. CASE u = t
    BY <2>1, <1>4, <1>5 DEF Knows, KnowsFound, KnowsHas, KnowsLock, Has, Locks
  <2>2. CASE u # t
    <3>1. Knows(itab, cal[u])
      BY DEF Inv
    <3>2. ~(Locks(cal[u]) /\ cal[u].inode = e)
      BY <2>2 DEF Inv, LocksDiffer, Locks
    <3>3. CASE cal[t].at = "put_write"
      <4>1. itab[e].count = 1 /\ e \in UsesOf(cal[t])
        BY <3>3, <1>3 DEF Inv, Knows, KnowsHas
      <4>2. e \notin UsesOf(cal[u])
        BY <4>1, <2>2, SoleUser DEF Inv
      <4>3. QED
        BY <4>2, <3>1, <3>2, <2>2, <1>4, KnowsKept
    <3>4. CASE cal[t].at = "sync_write"
      <4>1. tab2[e].count = itab[e].count
        BY <3>4, <1>1 DEF Inodes
      <4>2. ~(cal[u].at = "found" /\ cal[u].empty = e)
        BY <3>1, <1>2 DEF Knows, KnowsFound, I!Clean
      <4>3. KnowsFound(tab2, cal2[u])
        BY <3>1, <4>2, <2>2, <1>4 DEF Knows, KnowsFound
      <4>4. KnowsHas(tab2, cal2[u])
        BY <3>1, <4>1, <2>2, <1>4 DEF Knows, KnowsHas, Has
      <4>5. KnowsLock(tab2, cal2[u])
        BY <3>1, <3>2, <2>2, <1>4 DEF Knows, KnowsLock, Locks
      <4>6. QED
        BY <4>3, <4>4, <4>5 DEF Knows
    <3>5. QED
      BY <3>3, <3>4
  <2>3. QED
    BY <2>1, <2>2
<1>10. LocksDiffer(cal2)
  BY <1>4, <1>5 DEF Inv, LocksDiffer, Locks
<1>11. \A s \in I!Slots : GoodSlot(tab2[s])
  BY <1>2 DEF Inv, GoodSlot
<1>12. Saved(tab2, disk \cup {itab[e].nr})
  BY DEF Inv, Saved
<1>13. QED
  BY <1>6, <1>7, <1>8, <1>9, <1>10, <1>11, <1>12 DEF Inv, cal2

-----------------------------------------------------------------------------
(* The actions. *)

\* What the flags of a table say as conditions.
LEMMA FlagsAre ==
    ASSUME NEW itab, NEW disk, NEW cal, Inv(itab, disk, cal), NEW s \in I!Slots
    PROVE  /\ itab[s].lock <=> itab[s].lock = TRUE
           /\ itab[s].dirt <=> itab[s].dirt = TRUE
           /\ itab[s].newest <=> itab[s].newest = TRUE
           /\ itab[s].count \in Nat
  BY DEF Inv, Typed, Inodes

\* The search of iget(), of a task that has its empty inode.
LEMMA ScanKeepsInv ==
    ASSUME NEW itab, NEW cal, Inv(itab, on_disk, cal), NEW t \in Callers, cal[t].at = "found",
           NEW nr, cal[t].nr = nr, NEW e, cal[t].empty = e,
           \A c : [caller EXCEPT ![t] = c] = [cal EXCEPT ![t] = c],
           I!Scan(t, itab, nr, e), UNCHANGED on_disk
    PROVE  TableInv'
<1>1. cal \in [Callers -> Locals] /\ e \in I!Slots /\ nr \in Files
  BY DEF Inv, Typed, Knows, KnowsFound
<1>2. ASSUME NEW s \in I!Slots, itab[s].nr = nr, ~itab[s].lock,
             inode_table' = [itab EXCEPT ![s].count = @ + 1, ![e].count = @ - 1],
             I!Go(t, [at |-> "holds", nr |-> nr, inode |-> s, empty |-> I!NoSlot])
      PROVE  TableInv'
  <2>1. itab[s].lock = FALSE
    BY <1>2, FlagsAre
  <2>2. Inv([itab EXCEPT ![s].count = @ + 1, ![cal[t].empty].count = @ - 1], on_disk,
            [cal EXCEPT ![t] = [at |-> "holds", nr |-> cal[t].nr, inode |-> s, empty |-> I!NoSlot]])
    BY <2>1, <1>2, TakeFound
  <2>3. QED
    BY <2>2, <1>2 DEF TableInv, I!Go
<1>3. ASSUME NEW s \in I!Slots, itab[s].nr = nr, inode_table' = itab,
             I!Go(t, [at |-> "found", nr |-> nr, inode |-> s, empty |-> e])
      PROVE  TableInv'
  <2> DEFINE c == [at |-> "found", nr |-> nr, inode |-> s, empty |-> e]
  <2>1. c \in Locals /\ ~Locks(c) /\ UsesOf(c) = UsesOf(cal[t])
    BY <1>1, ValuesAre, PlacesAre DEF Locals, Locks, UsesOf, Has
  <2>2. Knows(itab, c)
    BY <1>1 DEF Inv, Knows, KnowsFound, KnowsHas, KnowsLock, Has, Locks
  <2>3. Inv(itab, on_disk, [cal EXCEPT ![t] = c])
    BY <2>1, <2>2, OnlyMoves
  <2>4. QED
    BY <2>3, <1>3 DEF TableInv, I!Go
<1>4. ASSUME \A s \in I!Slots : itab[s].nr # nr,
             inode_table' = [itab EXCEPT ![e].nr = nr, ![e].lock = TRUE],
             I!Go(t, [at |-> "read", nr |-> nr, inode |-> e, empty |-> I!NoSlot])
      PROVE  TableInv'
  <2>1. Inv([itab EXCEPT ![e].nr = nr, ![e].lock = TRUE], on_disk,
            [cal EXCEPT ![t] = [at |-> "read", nr |-> nr, inode |-> e, empty |-> I!NoSlot]])
    BY <1>4, BeginRead
  <2>2. QED
    BY <2>1, <1>4 DEF TableInv, I!Go
<1>5. QED
  BY <1>2, <1>3, <1>4 DEF I!Scan

\* iget() with get_empty_inode(): it takes the empty inode, and searches.
LEMMA IgetKeepsInv ==
    ASSUME TableInv, NEW t \in Callers, NEW nr \in Files, I!iget(t, nr)
    PROVE  TableInv'
<1>1. caller \in [Callers -> Locals]
  BY DEF TableInv, Inv, Typed
<1>2. PICK e \in I!Unused : I!Scan(t, [inode_table EXCEPT ![e] = [I!Clean EXCEPT !.count = 1]], nr, e)
  BY DEF I!iget
<1> DEFINE c == [at |-> "found", nr |-> nr, inode |-> e, empty |-> e]
           itab == [inode_table EXCEPT ![e] = [I!Clean EXCEPT !.count = 1]]
           cal == [caller EXCEPT ![t] = c]
<1>3. Inv(itab, on_disk, cal)
  BY TakeEmpty DEF TableInv, I!iget, I!Unused
<1>4. cal[t] = c /\ \A d : [caller EXCEPT ![t] = d] = [cal EXCEPT ![t] = d]
  BY <1>1
<1>5. c.at = "found" /\ c.nr = nr /\ c.empty = e
  OBVIOUS
<1>6. I!Scan(t, itab, nr, e) /\ UNCHANGED on_disk
  BY <1>2 DEF I!iget
<1> HIDE DEF c, itab, cal
<1>7. QED
  BY <1>3, <1>4, <1>5, <1>6, ScanKeepsInv

\* iget() goes on when the inode that it waited for is unlocked.
LEMMA FoundKeepsInv ==
    ASSUME TableInv, NEW t \in Callers, I!Found(t)
    PROVE  TableInv'
<1>1. Inv(inode_table, on_disk, caller) /\ caller[t].at = "found" /\ UNCHANGED on_disk
      /\ I!Scan(t, inode_table, caller[t].nr, caller[t].empty)
  BY DEF TableInv, I!Found
<1>2. \A c : [caller EXCEPT ![t] = c] = [caller EXCEPT ![t] = c]
  OBVIOUS
<1>3. QED
  BY <1>1, <1>2, ScanKeepsInv

\* The end of read_inode().
LEMMA ReadInodeKeepsInv ==
    ASSUME TableInv, NEW t \in Callers, I!ReadInode(t)
    PROVE  TableInv'
<1>1. Inv([inode_table EXCEPT ![caller[t].inode].lock = FALSE,
                              ![caller[t].inode].newest = caller[t].nr \in on_disk], on_disk,
          [caller EXCEPT ![t] = [caller[t] EXCEPT !.at = "holds"]])
  BY EndRead DEF TableInv, I!ReadInode
<1> DEFINE itab == [inode_table EXCEPT ![caller[t].inode].lock = FALSE,
                                      ![caller[t].inode].newest = caller[t].nr \in on_disk]
           cal == [caller EXCEPT ![t] = [caller[t] EXCEPT !.at = "holds"]]
<1>2. inode_table' = itab /\ caller' = cal /\ on_disk' = on_disk
  BY DEF I!ReadInode, I!Go
<1>3. Inv(itab, on_disk, cal)
  BY <1>1
<1> HIDE DEF itab, cal
<1>4. QED
  BY <1>2, <1>3 DEF TableInv

\* A task changes its inode.
LEMMA ChangeKeepsInv ==
    ASSUME TableInv, NEW t \in Callers, I!Change(t)
    PROVE  TableInv'
<1> DEFINE itab == [inode_table EXCEPT ![caller[t].inode].dirt = TRUE,
                                      ![caller[t].inode].newest = TRUE]
           disk == on_disk \ {caller[t].nr}
<1>1. inode_table' = itab /\ caller' = caller /\ on_disk' = disk
  BY DEF I!Change
<1>2. Inv(itab, disk, caller)
  BY Dirty DEF TableInv, I!Change
<1> HIDE DEF itab, disk
<1>3. QED
  BY <1>1, <1>2 DEF TableInv

\* iput() has the inode unlocked.
LEMMA PutKeepsInv ==
    ASSUME TableInv, NEW t \in Callers, caller[t].at \in {"holds", "put"}, I!Put(t)
    PROVE  TableInv'
<1> DEFINE e == caller[t].inode
<1>1. caller \in [Callers -> Locals] /\ e \in I!Slots /\ caller[t].nr \in Files
      /\ inode_table[e].nr = caller[t].nr
  BY DEF TableInv, Inv, Typed, Knows, KnowsHas, Has
<1>2. inode_table[e].lock = FALSE /\ (~inode_table[e].dirt <=> inode_table[e].dirt = FALSE)
  BY <1>1, FlagsAre DEF TableInv, I!Put
<1>3. ASSUME inode_table[e].count > 1 \/ ~inode_table[e].dirt,
             inode_table' = [inode_table EXCEPT ![e].count = @ - 1], I!Go(t, I!Nobody)
      PROVE  TableInv'
  BY <1>2, <1>3, UserGivesUp DEF TableInv, I!Go, I!Put
<1>4. ASSUME inode_table[e].count = 1, inode_table[e].dirt,
             inode_table' = [inode_table EXCEPT ![e].lock = TRUE],
             I!Go(t, [caller[t] EXCEPT !.at = "put_write"])
      PROVE  TableInv'
  <2> DEFINE c == [caller[t] EXCEPT !.at = "put_write"]
  <2>1. c \in Locals /\ c.at = "put_write" /\ c.inode = e /\ c.nr = caller[t].nr
    BY <1>1, PlacesAre DEF Locals
  <2>2. UsesOf(c) = UsesOf(caller[t])
    BY <2>1 DEF UsesOf, Has
  <2>3. inode_table[e].dirt = TRUE
    BY <1>1, <1>4, FlagsAre DEF TableInv
  <2>4. Inv([inode_table EXCEPT ![e].lock = TRUE], on_disk, [caller EXCEPT ![t] = c])
    <3> HIDE DEF c
    <3>1. QED
      BY <2>1, <2>2, <2>3, <1>1, <1>2, <1>4, BeginWrite DEF TableInv
  <2>5. QED
    BY <2>4, <1>4 DEF TableInv, I!Go, I!Put
<1>5. QED
  BY <1>3, <1>4 DEF I!Put

\* iput().
LEMMA IputKeepsInv ==
    ASSUME TableInv, NEW t \in Callers, I!iput(t)
    PROVE  TableInv'
<1> DEFINE c == [caller[t] EXCEPT !.at = "put"]
<1>1. CASE I!Put(t)
  BY <1>1, PutKeepsInv DEF I!iput
<1>2. CASE I!Go(t, c) /\ UNCHANGED <<inode_table, on_disk>>
  <2>1. caller \in [Callers -> Locals] /\ caller[t].at = "holds" /\ Knows(inode_table, caller[t])
    BY DEF TableInv, Inv, Typed, I!iput
  <2>2. c \in Locals /\ c.at = "put" /\ c.inode = caller[t].inode /\ c.nr = caller[t].nr
    BY <2>1, PlacesAre DEF Locals
  <2> HIDE DEF c
  <2>3. UsesOf(c) = UsesOf(caller[t]) /\ ~Locks(c)
    BY <2>1, <2>2 DEF UsesOf, Has, Locks
  <2>4. Knows(inode_table, c)
    BY <2>1, <2>2 DEF Knows, KnowsFound, KnowsHas, KnowsLock, Has, Locks
  <2>5. Inv(inode_table, on_disk, [caller EXCEPT ![t] = c])
    BY <2>2, <2>3, <2>4, OnlyMoves DEF TableInv
  <2>6. QED
    BY <2>5, <1>2 DEF TableInv, I!Go
<1>3. QED
  BY <1>1, <1>2 DEF I!iput

\* sync_inodes() goes on from some inode, of a task that uses none.
LEMMA SyncFromKeepsInv ==
    ASSUME NEW itab, NEW cal, NEW disk, Inv(itab, disk, cal), NEW t \in Callers,
           cal[t].at \in {"user", "sync"}, NEW from,
           \A c : [caller EXCEPT ![t] = c] = [cal EXCEPT ![t] = c],
           I!SyncFrom(t, itab, from), on_disk' = disk
    PROVE  TableInv'
<1>1. cal \in [Callers -> Locals] /\ UsesOf(cal[t]) = {}
  BY DEF Inv, Typed, UsesOf, Has
<1>2. ASSUME NEW s \in I!Slots, inode_table' = itab, I!Go(t, [I!Nobody EXCEPT !.at = "sync", !.inode = s])
      PROVE  TableInv'
  <2> DEFINE c == [I!Nobody EXCEPT !.at = "sync", !.inode = s]
  <2>1. c \in Locals /\ c.at = "sync" /\ c.inode = s
    BY ValuesAre, PlacesAre DEF Locals, I!Nobody
  <2> HIDE DEF c
  <2>2. UsesOf(c) = UsesOf(cal[t]) /\ ~Locks(c) /\ Knows(itab, c)
    BY <2>1, <1>1 DEF UsesOf, Has, Locks, Knows, KnowsFound, KnowsHas, KnowsLock
  <2>3. Inv(itab, disk, [cal EXCEPT ![t] = c])
    BY <2>1, <2>2, OnlyMoves
  <2>4. QED
    BY <2>3, <1>2 DEF TableInv, I!Go, c
<1>3. ASSUME NEW s \in I!Slots, itab[s].dirt, ~itab[s].lock,
             inode_table' = [itab EXCEPT ![s].lock = TRUE],
             I!Go(t, [I!Nobody EXCEPT !.at = "sync_write", !.inode = s])
      PROVE  TableInv'
  <2> DEFINE c == [I!Nobody EXCEPT !.at = "sync_write", !.inode = s]
  <2>1. c \in Locals /\ c.at = "sync_write" /\ c.inode = s
    BY ValuesAre, PlacesAre DEF Locals, I!Nobody
  <2> HIDE DEF c
  <2>2. UsesOf(c) = UsesOf(cal[t])
    BY <2>1, <1>1 DEF UsesOf, Has
  <2>3. itab[s].dirt = TRUE /\ itab[s].lock = FALSE
    BY <1>3, FlagsAre
  <2>4. Inv([itab EXCEPT ![s].lock = TRUE], disk, [cal EXCEPT ![t] = c])
    BY <2>1, <2>2, <2>3, BeginWrite
  <2>5. QED
    BY <2>4, <1>3 DEF TableInv, I!Go, c
<1>4. ASSUME inode_table' = itab, I!Go(t, I!Nobody)
      PROVE  TableInv'
  <2>1. I!Nobody.at = "user"
    BY DEF I!Nobody
  <2>2. UsesOf(I!Nobody) = UsesOf(cal[t]) /\ ~Locks(I!Nobody) /\ Knows(itab, I!Nobody)
    BY <2>1, <1>1 DEF UsesOf, Has, Locks, Knows, KnowsFound, KnowsHas, KnowsLock
  <2>3. Inv(itab, disk, [cal EXCEPT ![t] = I!Nobody])
    BY <2>2, FreshAre, OnlyMoves
  <2>4. QED
    BY <2>3, <1>4 DEF TableInv, I!Go
<1>5. QED
  BY <1>2, <1>3, <1>4 DEF I!SyncFrom, I!Stops

\* The table after a write of inode e.
LEMMA WrittenIs ==
    ASSUME inode_table \in [I!Slots -> Inodes], NEW e \in I!Slots
    PROVE  /\ I!Written(e) \in [I!Slots -> Inodes]
           /\ I!Written(e)[e].nr = inode_table[e].nr /\ I!Written(e)[e].count = inode_table[e].count
           /\ I!Written(e)[e].newest = inode_table[e].newest
           /\ I!Written(e)[e].dirt = FALSE /\ I!Written(e)[e].lock = FALSE
           /\ \A s \in I!Slots : s # e => I!Written(e)[s] = inode_table[s]
<1> DEFINE i == [inode_table[e] EXCEPT !.dirt = FALSE, !.lock = FALSE]
<1>1. /\ i \in Inodes /\ i.nr = inode_table[e].nr /\ i.count = inode_table[e].count
      /\ i.newest = inode_table[e].newest /\ i.dirt = FALSE /\ i.lock = FALSE
  BY DEF Inodes
<1>2. I!Written(e) = [inode_table EXCEPT ![e] = i]
  BY DEF I!Written
<1> HIDE DEF i
<1>3. QED
  BY <1>1, <1>2

\* write_inode() has its block: iput() is over, and sync_inodes() goes on.
LEMMA WriteInodeKeepsInv ==
    ASSUME TableInv, NEW t \in Callers, I!WriteInode(t)
    PROVE  TableInv'
<1> DEFINE e == caller[t].inode
           nr == inode_table[e].nr
           disk == on_disk \cup {nr}
<1>1. /\ inode_table \in [I!Slots -> Inodes] /\ caller \in [Callers -> Locals] /\ e \in I!Slots
      /\ inode_table[e].dirt = TRUE /\ inode_table[e].newest = TRUE
      /\ caller[t].at = "put_write" => e \in UsesOf(caller[t])
  <2>1. inode_table \in [I!Slots -> Inodes] /\ caller \in [Callers -> Locals]
    BY DEF TableInv, Inv, Typed
  <2>2. e \in I!Slots /\ inode_table[e].dirt = TRUE
    BY DEF TableInv, Inv, Knows, KnowsLock, Locks, I!WriteInode
  <2>3. inode_table[e].newest = TRUE
    BY <2>2 DEF TableInv, Inv, GoodSlot
  <2>4. QED
    BY <2>1, <2>2, <2>3 DEF UsesOf, Has
<1>2. on_disk' = disk
  BY <1>1 DEF I!WriteInode
<1>3. ASSUME caller[t].at = "put_write", inode_table' = [I!Written(e) EXCEPT ![e].count = @ - 1],
             I!Go(t, I!Nobody)
      PROVE  TableInv'
  <2> DEFINE tab2 == [I!Written(e) EXCEPT ![e].count = @ - 1]
  <2>1. inode_table[e].count \in Nat \ {0}
    BY <1>1, <1>3, UsedIsCounted, FlagsAre DEF TableInv, Inv
  <2>2. /\ tab2 \in [I!Slots -> Inodes]
        /\ tab2[e].nr = inode_table[e].nr /\ tab2[e].newest = inode_table[e].newest
        /\ tab2[e].dirt = FALSE /\ tab2[e].lock = FALSE
        /\ tab2[e].count = inode_table[e].count - 1
        /\ \A s \in I!Slots : s # e => tab2[s] = inode_table[s]
    <3>1. I!Written(e) \in [I!Slots -> Inodes] /\ I!Written(e)[e].count = inode_table[e].count
      BY <1>1, WrittenIs
    <3>2. tab2 = [I!Written(e) EXCEPT ![e] = [I!Written(e)[e] EXCEPT !.count = inode_table[e].count - 1]]
      BY <3>1
    <3>3. tab2[e] = [I!Written(e)[e] EXCEPT !.count = inode_table[e].count - 1] /\ I!Written(e)[e] \in Inodes
          /\ inode_table[e].count - 1 \in Nat
      BY <3>1, <3>2, <2>1, <1>1
    <3> HIDE DEF tab2, e
    <3>4. tab2[e] \in Inodes /\ tab2[e].nr = I!Written(e)[e].nr /\ tab2[e].newest = I!Written(e)[e].newest
          /\ tab2[e].dirt = I!Written(e)[e].dirt /\ tab2[e].lock = I!Written(e)[e].lock
          /\ tab2[e].count = inode_table[e].count - 1
      BY <3>3 DEF Inodes
    <3>5. \A s \in I!Slots : s # e => tab2[s] = I!Written(e)[s]
      BY <3>1, <3>2
    <3>6. tab2 \in [I!Slots -> Inodes]
      BY <3>1, <3>2, <3>3, <3>4
    <3>7. QED
      BY <3>4, <3>5, <3>6, <1>1, WrittenIs
  <2> HIDE DEF tab2
  <2>3. Inv(tab2, disk, [caller EXCEPT ![t] = I!Nobody])
    BY <2>2, <1>1, <1>3, EndWrite DEF TableInv
  <2>4. QED
    BY <2>3, <1>2, <1>3 DEF TableInv, I!Go, tab2
<1>4. ASSUME caller[t].at = "sync_write", I!SyncFrom(t, I!Written(e), e + 1)
      PROVE  TableInv'
  <2> DEFINE tab2 == I!Written(e)
             cal2 == [caller EXCEPT ![t] = I!Nobody]
  <2>1. inode_table[e].count \in Nat
    BY <1>1 DEF Inodes
  <2>2. /\ tab2 \in [I!Slots -> Inodes]
        /\ tab2[e].nr = inode_table[e].nr /\ tab2[e].newest = inode_table[e].newest
        /\ tab2[e].dirt = FALSE /\ tab2[e].lock = FALSE
        /\ tab2[e].count = inode_table[e].count
        /\ \A s \in I!Slots : s # e => tab2[s] = inode_table[s]
    BY <1>1, WrittenIs
  <2>3. cal2[t].at = "user" /\ \A c : [caller EXCEPT ![t] = c] = [cal2 EXCEPT ![t] = c]
    BY <1>1 DEF I!Nobody
  <2> HIDE DEF tab2
  <2>4. Inv(tab2, disk, cal2)
    <3>1. tab2[e].count = inode_table[e].count - (IF caller[t].at = "put_write" THEN 1 ELSE 0)
      BY <2>1, <2>2, <1>4
    <3>2. QED
      BY <3>1, <2>2, <1>1, <1>4, EndWrite DEF TableInv
  <2>5. I!SyncFrom(t, tab2, e + 1)
    BY <1>4 DEF tab2
  <2> HIDE DEF cal2
  <2>6. QED
    BY <2>3, <2>4, <2>5, <1>2, SyncFromKeepsInv
<1>5. QED
  BY <1>3, <1>4 DEF I!WriteInode

-----------------------------------------------------------------------------
(* The theorems. *)

\* The invariant holds at first.
LEMMA InitEstablishesInv == I!TableInit => TableInv
<1> SUFFICES ASSUME I!TableInit PROVE TableInv
  OBVIOUS
<1>1. I!Clean.nr = I!NoNr /\ I!Clean.count = 0 /\ I!Clean.dirt = FALSE /\ I!Clean.lock = FALSE
  BY DEF I!Clean
<1>2. I!Nobody.at = "user"
  BY DEF I!Nobody
<1>3. Typed(inode_table, on_disk, caller)
  BY FreshAre DEF I!TableInit, Typed
<1>4. Counted(inode_table, caller)
  <2>1. \A s \in I!Slots : UsersOf(caller, s) = {}
    BY <1>2 DEF I!TableInit, UsersOf, UsesOf, Has
  <2>2. QED
    BY <2>1, <1>1, FS_EmptySet DEF I!TableInit, Counted
<1>5. \A t \in Callers : Knows(inode_table, caller[t])
  BY <1>2 DEF I!TableInit, Knows, KnowsFound, KnowsHas, KnowsLock, Has, Locks
<1>6. QED
  BY <1>1, <1>2, <1>3, <1>4, <1>5
     DEF I!TableInit, TableInv, Inv, Once, LocksDiffer, Locks, GoodSlot, Saved

\* The invariant of the table of inodes holds in every state.
THEOREM TableInvariant == I!TableSpec => []TableInv
<1>1. I!TableInit => TableInv
  BY InitEstablishesInv
<1>2. TableInv /\ [I!TableNext]_I!inodeVars => TableInv'
  <2> SUFFICES ASSUME TableInv, [I!TableNext]_I!inodeVars PROVE TableInv'
    OBVIOUS
  <2>1. ASSUME NEW t \in Callers, I!TableStep(t) PROVE TableInv'
    <3>1. CASE \E nr \in Files : I!iget(t, nr)
      BY <3>1, IgetKeepsInv
    <3>2. CASE I!PutAgain(t)
      BY <3>2, PutKeepsInv DEF I!PutAgain
    <3>3. CASE I!sync_inodes(t)
      BY <3>3, SyncFromKeepsInv DEF I!sync_inodes, TableInv
    <3>4. CASE I!SyncAgain(t)
      BY <3>4, SyncFromKeepsInv DEF I!SyncAgain, TableInv
    <3>5. QED
      BY <2>1, <3>1, <3>2, <3>3, <3>4, FoundKeepsInv, ReadInodeKeepsInv, ChangeKeepsInv, IputKeepsInv,
         WriteInodeKeepsInv DEF I!TableStep
  <2>2. CASE UNCHANGED I!inodeVars
    BY <2>2 DEF I!inodeVars, TableInv
  <2>3. QED
    BY <2>1, <2>2 DEF I!TableNext
<1>3. QED
  BY <1>1, <1>2, PTL DEF I!TableSpec

\* What is checked of the table follows from the invariant.
LEMMA InvIsConsistent == TableInv => I!InodesConsistent
<1> SUFFICES ASSUME TableInv PROVE I!InodesConsistent
  OBVIOUS
<1>1. inode_table \in [I!Slots -> Inodes] /\ on_disk \subseteq Files /\ caller \in [Callers -> Locals]
  BY DEF TableInv, Inv, Typed
<1>2. \A s \in I!Slots : UsersOf(caller, s) = {t \in Callers : s \in I!Uses(t)}
  BY DEF UsersOf, UsesOf, I!Uses, Has
<1>3. I!CountIsUsers
  BY <1>2, SameCardinality DEF TableInv, Inv, Counted, I!CountIsUsers
<1>4. I!InodeTypes
  <2>1. \A s \in I!Slots : inode_table[s].count \in 0 .. Cardinality(Callers)
    BY UsersFinite DEF TableInv, Inv, Counted
  <2>2. QED
    BY <2>1, <1>1, SameCardinality DEF I!InodeTypes, Inodes, Locals, MaybeNr, MaybeSlot
<1>5. I!OneSlotPerInode /\ I!UsersHaveTheirInode
  BY DEF TableInv, Inv, Once, Knows, KnowsHas, Has, I!OneSlotPerInode, I!UsersHaveTheirInode
<1>6. I!UnusedIsClean
  BY FlagsAre DEF TableInv, Inv, GoodSlot, I!UnusedIsClean
<1>7. I!NewestInodes
  BY FlagsAre DEF TableInv, Inv, Knows, KnowsHas, Has, Saved, I!NewestInodes
<1>8. QED
  BY <1>3, <1>4, <1>5, <1>6, <1>7 DEF I!InodesConsistent

\* Although iget() sleeps between its search and its taking of an inode, no inode is in the table
\* twice; i_count is the number of the tasks that use it, none of which sees it become another;
\* an unused inode is clean; and the newest data of each are on the disk or in a dirty inode.
THEOREM TableIsConsistent == I!TableSpec => [](I!InodesConsistent /\ InodesConsistent)
<1>1. TableInv => I!InodesConsistent /\ InodesConsistent
  BY InvIsConsistent DEF InodesConsistent
<1>2. QED
  BY <1>1, TableInvariant, PTL

-----------------------------------------------------------------------------
(* The file table: its invariant. *)

MaybeFile == F!Slots \cup {F!NULL}
Filps     == [Tasks -> [F!Fds -> MaybeFile]]
Marks     == [Tasks -> SUBSET F!Fds]
Doings    == [pc : {"user", "open", "pipe", "dup2", "exec", "exit", "ended"}, fd : F!Fds, other : F!Fds]

\* The descriptors tb that have the file f.
PlacesOf(tb, f) == {d \in Tasks \X F!Fds : tb[d[1]][d[2]] = f}

\* The descriptors of the task t that have the file f.
FdsOf(tb, t, f) == {fd \in F!Fds : tb[t][fd] = f}

\* The files of the descriptors half, those of calls that have no inode for them yet, and the others.
HalfFiles(tb, half) == {f \in F!Slots : \E t \in Tasks : \E fd \in half[t] : tb[t][fd] = f}
Whole(tb, cnt, half) == {f \in F!Slots : cnt[f] # 0} \ HalfFiles(tb, half)

\* The descriptors tb, marks ce, counts cnt and references rf are in order, with the descriptors half
\* taken and not finished: these have a file of their own and no mark, and the references are the
\* files that are whole.
InOrder(tb, ce, cnt, rf, half) ==
    /\ tb \in Filps /\ ce \in Marks /\ cnt \in [F!Slots -> Nat] /\ rf \in Nat /\ half \in Marks
    /\ \A f \in F!Slots : cnt[f] = Cardinality(PlacesOf(tb, f))
    /\ \A t \in Tasks : \A fd \in half[t] :
         tb[t][fd] \in F!Slots /\ PlacesOf(tb, tb[t][fd]) = {<<t, fd>>} /\ fd \notin ce[t]
    /\ \A t \in Tasks : \A fd \in ce[t] : tb[t][fd] # F!NULL
    /\ rf = Cardinality(Whole(tb, cnt, half))

\* The descriptors that a call has taken and not finished.
HalfOf(c) == IF c.pc = "open" THEN {c.fd} ELSE IF c.pc = "pipe" THEN {c.fd, c.other} ELSE {}
HalvesOf(dg) == [t \in Tasks |-> HalfOf(dg[t])]

\* One descriptor, one count or the marks of one task are changed. These are operators, and not
\* written out in the lemmas, so that a lemma about a change is an instance for the provers to find.
SetTo(tb, q, t, fd, f) ==
    q \in Filps /\ \A u \in Tasks, d \in F!Fds : q[u][d] = IF u = t /\ d = fd THEN f ELSE tb[u][d]
CountTo(cnt, c, f, n) ==
    c \in [F!Slots -> Nat] /\ \A g \in F!Slots : c[g] = IF g = f THEN n ELSE cnt[g]
MarkTo(m, h, t, S) ==
    h \in Marks /\ \A u \in Tasks : h[u] = IF u = t THEN S ELSE m[u]
Without(m, h, t, fd) == MarkTo(m, h, t, m[t] \ {fd})
FileIs(tb, t, fd, f) == tb[t][fd] = f
Forked(tb, q, t, u) ==
    q \in Filps /\ \A x \in Tasks, d \in F!Fds : q[x][d] = IF x = u THEN tb[t][d] ELSE tb[x][d]

\* And the tasks dg are where that says; one that has ended has no file open.
FilesInvOf(tb, ce, cnt, rf, dg) ==
    /\ dg \in [Tasks -> Doings]
    /\ InOrder(tb, ce, cnt, rf, HalvesOf(dg))
    /\ \A t \in Tasks : dg[t].pc = "pipe" => dg[t].fd # dg[t].other
    /\ \A t \in Tasks : dg[t].pc = "ended" => \A fd \in F!Fds : tb[t][fd] = F!NULL

FilesInv == FilesInvOf(filp, close_on_exec, f_count, refs, doing)

-----------------------------------------------------------------------------
(* Numbers and sets. *)

\* Tasks, descriptors and slots are finite sets, and no slot is NULL.
LEMMA FileSetsAre ==
    /\ IsFiniteSet(Tasks) /\ IsFiniteSet(F!Fds) /\ IsFiniteSet(F!Slots) /\ IsFiniteSet(Tasks \X F!Fds)
    /\ Cardinality(F!Fds) = NR_OPEN /\ Cardinality(F!Slots) = NR_FILE
    /\ Cardinality(Tasks \X F!Fds) = Cardinality(Tasks) * NR_OPEN
    /\ NR_OPEN \in Nat \ {0} /\ NR_FILE \in Nat \ {0} /\ 0 \in F!Fds
    /\ F!NULL \notin F!Slots /\ F!Fds \subseteq Nat /\ F!Slots \subseteq Nat
    /\ \A T : F!Cardinality(T) = Cardinality(T)
<1>1. \A T : F!Cardinality(T) = Cardinality(T) /\ (F!IsFiniteSet(T) <=> IsFiniteSet(T))
  BY DEF F!Cardinality, Cardinality, F!IsFiniteSet, IsFiniteSet
<1>2. IsFiniteSet(Tasks) /\ NR_OPEN \in Nat \ {0} /\ NR_FILE \in Nat \ {0}
  BY <1>1, ConstantsAssumption DEF F!FileTableAssumption
<1>3. IsFiniteSet(F!Fds) /\ Cardinality(F!Fds) = NR_OPEN
  <2>1. /\ IsFiniteSet(0 .. NR_OPEN - 1)
        /\ Cardinality(0 .. NR_OPEN - 1) = IF 0 > NR_OPEN - 1 THEN 0 ELSE (NR_OPEN - 1) - 0 + 1
    BY <1>2, FS_Interval
  <2>2. QED
    BY <1>2, <2>1 DEF F!Fds
<1>4. IsFiniteSet(F!Slots) /\ Cardinality(F!Slots) = NR_FILE
  <2>1. /\ IsFiniteSet(1 .. NR_FILE)
        /\ Cardinality(1 .. NR_FILE) = IF 1 > NR_FILE THEN 0 ELSE NR_FILE - 1 + 1
    BY <1>2, FS_Interval
  <2>2. QED
    BY <1>2, <2>1 DEF F!Slots
<1>5. IsFiniteSet(Tasks \X F!Fds) /\ Cardinality(Tasks \X F!Fds) = Cardinality(Tasks) * NR_OPEN
  BY <1>2, <1>3, FS_Product
<1>6. F!NULL \notin F!Slots /\ 0 \in F!Fds /\ F!Fds \subseteq Nat /\ F!Slots \subseteq Nat
  BY <1>2 DEF F!NULL, F!Slots, F!Fds
<1>7. QED
  BY <1>1, <1>2, <1>3, <1>4, <1>5, <1>6

\* A set of numbers that is not empty has a least element.
LEMMA LeastIs ==
    ASSUME NEW T, T \subseteq Nat, T # {}
    PROVE  F!Min(T) \in T
<1> DEFINE R == OpToRel(<, Nat)
<1>1. IsWellFoundedOn(R, Nat)
  BY NatLessThanWellFounded
<1>2. PICK x \in T : \A y \in T : ~(<<y, x>> \in R)
  BY <1>1, WFMin
<1>3. \A y \in T : ~(y < x)
  BY <1>2 DEF OpToRel
<1>4. \A y \in T : x <= y
  BY <1>3
<1>5. QED
  BY <1>4 DEF F!Min

\* A file has at most as many descriptors as there are.
LEMMA PlacesFinite ==
    ASSUME NEW tb, NEW f
    PROVE  IsFiniteSet(PlacesOf(tb, f)) /\ Cardinality(PlacesOf(tb, f)) \in 0 .. Cardinality(Tasks) * NR_OPEN
<1>1. PlacesOf(tb, f) \in SUBSET (Tasks \X F!Fds)
  BY DEF PlacesOf
<1>2. IsFiniteSet(PlacesOf(tb, f)) /\ Cardinality(PlacesOf(tb, f)) <= Cardinality(Tasks \X F!Fds)
  BY <1>1, FileSetsAre, FS_Subset
<1>3. Cardinality(PlacesOf(tb, f)) \in Nat /\ Cardinality(Tasks \X F!Fds) \in Nat
  BY <1>2, FileSetsAre, FS_CardinalityType
<1>4. QED
  BY <1>2, <1>3, FileSetsAre

\* A file that no descriptor has, and one that a descriptor has.
LEMMA PlacesCount ==
    ASSUME NEW tb, NEW f
    PROVE  /\ Cardinality(PlacesOf(tb, f)) = 0 <=> PlacesOf(tb, f) = {}
           /\ \A t \in Tasks, fd \in F!Fds : <<t, fd>> \in PlacesOf(tb, f) <=> tb[t][fd] = f
<1>1. Cardinality(PlacesOf(tb, f)) = 0 <=> PlacesOf(tb, f) = {}
  BY PlacesFinite, FS_EmptySet
<1>2. ASSUME NEW t \in Tasks, NEW fd \in F!Fds
      PROVE  <<t, fd>> \in PlacesOf(tb, f) <=> tb[t][fd] = f
  BY DEF PlacesOf
<1>3. QED
  BY <1>1, <1>2

\* The three changes, as the model writes them.
LEMMA SetToIs ==
    /\ \A tb \in Filps, t \in Tasks, fd \in F!Fds, f \in MaybeFile : SetTo(tb, [tb EXCEPT ![t][fd] = f], t, fd, f)
    /\ \A cnt \in [F!Slots -> Nat], f \in F!Slots, n \in Nat : CountTo(cnt, [cnt EXCEPT ![f] = n], f, n)
    /\ \A m \in Marks, t \in Tasks, S \in SUBSET F!Fds : MarkTo(m, [m EXCEPT ![t] = S], t, S)
<1>1. ASSUME NEW tb \in Filps, NEW t \in Tasks, NEW fd \in F!Fds, NEW f \in MaybeFile
      PROVE  SetTo(tb, [tb EXCEPT ![t][fd] = f], t, fd, f)
  BY DEF SetTo, Filps
<1>2. \A cnt \in [F!Slots -> Nat], f \in F!Slots, n \in Nat : CountTo(cnt, [cnt EXCEPT ![f] = n], f, n)
  BY DEF CountTo
<1>3. \A m \in Marks, t \in Tasks, S \in SUBSET F!Fds : MarkTo(m, [m EXCEPT ![t] = S], t, S)
  BY DEF MarkTo, Marks
<1>4. QED
  BY <1>1, <1>2, <1>3

\* One descriptor gets a file.
LEMMA PlacesPut ==
    ASSUME NEW tb \in Filps, NEW t \in Tasks, NEW fd \in F!Fds, tb[t][fd] = F!NULL, NEW f \in F!Slots,
           NEW q, SetTo(tb, q, t, fd, f)
    PROVE  /\ PlacesOf(q, f) = PlacesOf(tb, f) \cup {<<t, fd>>}
           /\ Cardinality(PlacesOf(q, f)) = Cardinality(PlacesOf(tb, f)) + 1
           /\ \A g \in F!Slots : g # f => PlacesOf(q, g) = PlacesOf(tb, g)
<1>1. \A u \in Tasks, d \in F!Fds : q[u][d] = IF u = t /\ d = fd THEN f ELSE tb[u][d]
  BY DEF SetTo
<1>2. \A g \in F!Slots : g # F!NULL
  BY FileSetsAre
<1>3. PlacesOf(q, f) = PlacesOf(tb, f) \cup {<<t, fd>>}
  BY <1>1 DEF PlacesOf
<1>4. \A g \in F!Slots : g # f => PlacesOf(q, g) = PlacesOf(tb, g)
  BY <1>1, <1>2 DEF PlacesOf
<1>5. <<t, fd>> \notin PlacesOf(tb, f)
  BY <1>2, PlacesCount
<1>6. Cardinality(PlacesOf(q, f)) = Cardinality(PlacesOf(tb, f)) + 1
  BY <1>3, <1>5, PlacesFinite, FS_AddElement
<1>7. QED
  BY <1>3, <1>4, <1>6

\* One descriptor loses its file.
LEMMA PlacesCut ==
    ASSUME NEW tb \in Filps, NEW t \in Tasks, NEW fd \in F!Fds, NEW f \in F!Slots, FileIs(tb, t, fd, f),
           NEW q, SetTo(tb, q, t, fd, F!NULL)
    PROVE  /\ PlacesOf(q, f) = PlacesOf(tb, f) \ {<<t, fd>>}
           /\ Cardinality(PlacesOf(q, f)) = Cardinality(PlacesOf(tb, f)) - 1
           /\ \A g \in F!Slots : g # f => PlacesOf(q, g) = PlacesOf(tb, g)
<1>1. \A u \in Tasks, d \in F!Fds : q[u][d] = IF u = t /\ d = fd THEN F!NULL ELSE tb[u][d]
  BY DEF SetTo
<1>2. \A g \in F!Slots : g # F!NULL
  BY FileSetsAre
<1>3. PlacesOf(q, f) = PlacesOf(tb, f) \ {<<t, fd>>}
  BY <1>1, <1>2 DEF PlacesOf
<1>4. \A g \in F!Slots : g # f => PlacesOf(q, g) = PlacesOf(tb, g)
  BY <1>1, <1>2 DEF PlacesOf, FileIs
<1>5. <<t, fd>> \in PlacesOf(tb, f)
  BY PlacesCount DEF FileIs
<1>6. Cardinality(PlacesOf(q, f)) = Cardinality(PlacesOf(tb, f)) - 1
  BY <1>3, <1>5, PlacesFinite, FS_RemoveElement
<1>7. QED
  BY <1>3, <1>4, <1>6

\* There are at most as many files as slots.
LEMMA WholeFinite ==
    ASSUME NEW tb, NEW cnt, NEW half
    PROVE  IsFiniteSet(Whole(tb, cnt, half)) /\ Cardinality(Whole(tb, cnt, half)) \in 0 .. NR_FILE
<1>1. Whole(tb, cnt, half) \in SUBSET F!Slots
  BY DEF Whole
<1>2. IsFiniteSet(Whole(tb, cnt, half)) /\ Cardinality(Whole(tb, cnt, half)) <= NR_FILE
  BY <1>1, FileSetsAre, FS_Subset
<1>3. QED
  BY <1>2, FileSetsAre, FS_CardinalityType
-----------------------------------------------------------------------------
(* What a step of a call does to the descriptors and the table. *)

\* A descriptor that is not open is neither marked nor half taken, and its file has no other name.
LEMMA FreeIsFree ==
    ASSUME NEW tb, NEW ce, NEW cnt, NEW rf, NEW half, InOrder(tb, ce, cnt, rf, half),
           NEW t \in Tasks, NEW fd \in F!Fds, tb[t][fd] = F!NULL
    PROVE  fd \notin ce[t] /\ fd \notin half[t] /\ [ce EXCEPT ![t] = @ \ {fd}] = ce
<1>1. fd \notin ce[t] /\ fd \notin half[t]
  BY FileSetsAre DEF InOrder
<1>2. ce[t] \ {fd} = ce[t]
  BY <1>1
<1>3. QED
  BY <1>1, <1>2 DEF InOrder, Marks

\* A file of a descriptor that no call is half way with belongs to none that is.
LEMMA NotHalf ==
    ASSUME NEW tb, NEW ce, NEW cnt, NEW rf, NEW half, InOrder(tb, ce, cnt, rf, half),
           NEW t \in Tasks, NEW fd \in F!Fds, tb[t][fd] # F!NULL, fd \notin half[t]
    PROVE  /\ tb[t][fd] \in F!Slots
           /\ \A u \in Tasks : \A d \in half[u] : tb[u][d] # tb[t][fd]
           /\ tb[t][fd] \notin HalfFiles(tb, half)
           /\ cnt[tb[t][fd]] \in Nat \ {0}
<1>1. tb[t][fd] \in F!Slots
  BY DEF InOrder, Filps, MaybeFile
<1>2. <<t, fd>> \in PlacesOf(tb, tb[t][fd])
  BY PlacesCount
<1>3. ASSUME NEW u \in Tasks, NEW d \in half[u], tb[u][d] = tb[t][fd] PROVE FALSE
  <2>1. PlacesOf(tb, tb[t][fd]) = {<<u, d>>}
    BY <1>3 DEF InOrder
  <2>2. QED
    BY <1>2, <2>1
<1>4. cnt[tb[t][fd]] \in Nat \ {0}
  <2>1. Cardinality(PlacesOf(tb, tb[t][fd])) # 0
    BY <1>2, PlacesCount
  <2>2. QED
    BY <1>1, <2>1 DEF InOrder
<1>5. QED
  BY <1>1, <1>3, <1>4 DEF HalfFiles

\* A free slot is taken for a free descriptor.
LEMMA TakeOne ==
    ASSUME NEW tb, NEW ce, NEW cnt, NEW rf, NEW half, InOrder(tb, ce, cnt, rf, half),
           NEW t \in Tasks, NEW fd \in F!Fds, tb[t][fd] = F!NULL, NEW f \in F!Slots, cnt[f] = 0,
           NEW q, SetTo(tb, q, t, fd, f), NEW c, CountTo(cnt, c, f, 1),
           NEW h, MarkTo(half, h, t, half[t] \cup {fd})
    PROVE  InOrder(q, ce, c, rf, h)
<1>1. /\ tb \in Filps /\ ce \in Marks /\ cnt \in [F!Slots -> Nat] /\ rf \in Nat /\ half \in Marks
      /\ q \in Filps /\ c \in [F!Slots -> Nat] /\ h \in Marks
  BY DEF InOrder, SetTo, CountTo, MarkTo
<1>2. /\ \A u \in Tasks, d \in F!Fds : q[u][d] = IF u = t /\ d = fd THEN f ELSE tb[u][d]
      /\ \A g \in F!Slots : c[g] = IF g = f THEN 1 ELSE cnt[g]
      /\ \A u \in Tasks : h[u] = IF u = t THEN half[t] \cup {fd} ELSE half[u]
  BY DEF SetTo, CountTo, MarkTo
<1>3. fd \notin ce[t] /\ fd \notin half[t]
  BY FreeIsFree
<1>4. /\ PlacesOf(q, f) = PlacesOf(tb, f) \cup {<<t, fd>>}
      /\ Cardinality(PlacesOf(q, f)) = Cardinality(PlacesOf(tb, f)) + 1
      /\ \A g \in F!Slots : g # f => PlacesOf(q, g) = PlacesOf(tb, g)
  BY <1>1, PlacesPut
<1>5. Cardinality(PlacesOf(tb, f)) = 0 /\ PlacesOf(tb, f) = {}
  <2>1. Cardinality(PlacesOf(tb, f)) = 0
    BY DEF InOrder
  <2>2. QED
    BY <2>1, PlacesCount
<1>6. \A u \in Tasks, d \in F!Fds : tb[u][d] # f
  BY <1>5, PlacesCount
<1>7. \A g \in F!Slots : c[g] = Cardinality(PlacesOf(q, g))
  <2>1. c[f] = Cardinality(PlacesOf(q, f))
    <3>1. c[f] = 1
      BY <1>2
    <3>2. Cardinality(PlacesOf(q, f)) = 0 + 1
      BY <1>4, <1>5
    <3>3. QED
      BY <3>1, <3>2
  <2>2. \A g \in F!Slots : g # f => c[g] = cnt[g] /\ Cardinality(PlacesOf(q, g)) = Cardinality(PlacesOf(tb, g))
    BY <1>2, <1>4
  <2>3. \A g \in F!Slots : cnt[g] = Cardinality(PlacesOf(tb, g))
    BY DEF InOrder
  <2>4. QED
    BY <2>1, <2>2, <2>3
<1>8. ASSUME NEW u \in Tasks, NEW d \in h[u]
      PROVE  q[u][d] \in F!Slots /\ PlacesOf(q, q[u][d]) = {<<u, d>>} /\ d \notin ce[u]
  <2>0. d \in F!Fds
    BY <1>1 DEF Marks
  <2>1. CASE u = t /\ d = fd
    BY <1>2, <1>3, <1>4, <1>5, <2>0, <2>1
  <2>2. CASE ~(u = t /\ d = fd)
    <3>1. d \in half[u] /\ q[u][d] = tb[u][d]
      BY <1>1, <1>2, <2>0, <2>2 DEF Marks
    <3>2. tb[u][d] \in F!Slots /\ PlacesOf(tb, tb[u][d]) = {<<u, d>>} /\ d \notin ce[u] /\ tb[u][d] # f
      BY <3>1, <1>6, <2>0 DEF InOrder
    <3>3. QED
      BY <3>1, <3>2, <1>4
  <2>3. QED
    BY <2>1, <2>2
<1>9. \A u \in Tasks : \A d \in ce[u] : q[u][d] # F!NULL
  BY <1>1, <1>2, FileSetsAre DEF InOrder, Marks
<1>10. Whole(q, c, h) = Whole(tb, cnt, half)
  <2>1. \A g \in F!Slots : g \in HalfFiles(q, h) <=> (g \in HalfFiles(tb, half) \/ g = f)
    <3>1. f \in HalfFiles(q, h)
      <4>1. fd \in h[t] /\ q[t][fd] = f
        BY <1>1, <1>2 DEF Marks
      <4>2. QED
        BY <4>1 DEF HalfFiles
    <3>2. ASSUME NEW g \in F!Slots, g # f PROVE g \in HalfFiles(q, h) <=> g \in HalfFiles(tb, half)
      <4>1. \A u \in Tasks : \A d \in half[u] : d \in F!Fds /\ d \in h[u] /\ q[u][d] = tb[u][d]
        BY <1>1, <1>2, <1>3 DEF Marks
      <4>2. \A u \in Tasks : \A d \in h[u] : q[u][d] = g => d \in half[u]
        BY <1>1, <1>2, <3>2 DEF Marks
      <4>3. QED
        BY <4>1, <4>2 DEF HalfFiles
    <3>3. QED
      BY <3>1, <3>2
  <2>2. \A g \in F!Slots : c[g] # 0 <=> (cnt[g] # 0 \/ g = f)
    BY <1>1, <1>2
  <2>3. QED
    BY <2>1, <2>2 DEF Whole
<1>11. QED
  BY <1>1, <1>7, <1>8, <1>9, <1>10 DEF InOrder

\* What a call that is half way with a descriptor knows of its file.
LEMMA HalfKnows ==
    ASSUME NEW tb, NEW ce, NEW cnt, NEW rf, NEW half, InOrder(tb, ce, cnt, rf, half),
           NEW t \in Tasks, NEW fd \in half[t], NEW f, FileIs(tb, t, fd, f),
           NEW h, Without(half, h, t, fd)
    PROVE  /\ fd \in F!Fds /\ f \in F!Slots /\ cnt[f] = 1 /\ PlacesOf(tb, f) = {<<t, fd>>}
           /\ \A u \in Tasks : \A d : d \in h[u] <=> d \in half[u] /\ ~(u = t /\ d = fd)
           /\ \A u \in Tasks, d \in F!Fds : tb[u][d] = f => u = t /\ d = fd
           /\ \A g : g \in HalfFiles(tb, h) <=> g \in HalfFiles(tb, half) /\ g # f
           /\ f \in HalfFiles(tb, half)
<1>0. half \in Marks /\ fd \in F!Fds /\ tb[t][fd] = f
  BY DEF InOrder, Marks, FileIs
<1>1. half \in Marks /\ fd \in F!Fds /\ f \in F!Slots /\ PlacesOf(tb, f) = {<<t, fd>>}
  BY <1>0 DEF InOrder
<1>2. cnt[f] = 1
  <2>1. cnt[f] = Cardinality({<<t, fd>>})
    BY <1>1 DEF InOrder
  <2>2. QED
    BY <2>1, FS_Singleton
<1>3. \A u \in Tasks : \A d : d \in h[u] <=> d \in half[u] /\ ~(u = t /\ d = fd)
  BY DEF MarkTo, Without
<1>4. \A u \in Tasks, d \in F!Fds : tb[u][d] = f => u = t /\ d = fd
  BY <1>1, PlacesCount
<1>5. \A u \in Tasks : \A d \in half[u] : d \in F!Fds
  BY <1>1 DEF Marks
<1>6. f \in HalfFiles(tb, half)
  BY <1>0, <1>1 DEF HalfFiles
<1>7. ASSUME NEW g PROVE g \in HalfFiles(tb, h) <=> g \in HalfFiles(tb, half) /\ g # f
  <2>1. ASSUME NEW u \in Tasks, NEW d, tb[u][d] = g, g \in F!Slots
        PROVE  d \in h[u] <=> d \in half[u] /\ g # f
    BY <1>0, <1>3, <1>4, <1>5, <2>1
  <2>2. QED
    BY <2>1 DEF HalfFiles
<1>8. QED
  BY <1>1, <1>2, <1>3, <1>4, <1>6, <1>7

\* The call has its inode: the file is whole.
LEMMA FinishOne ==
    ASSUME NEW tb, NEW ce, NEW cnt, NEW rf, NEW half, InOrder(tb, ce, cnt, rf, half),
           NEW t \in Tasks, NEW fd \in half[t], NEW f, FileIs(tb, t, fd, f),
           NEW h, Without(half, h, t, fd)
    PROVE  InOrder(tb, ce, cnt, rf + 1, h) /\ f \in F!Slots /\ cnt[f] = 1
<1>1. /\ fd \in F!Fds /\ f \in F!Slots /\ cnt[f] = 1 /\ PlacesOf(tb, f) = {<<t, fd>>}
      /\ \A u \in Tasks : \A d : d \in h[u] <=> d \in half[u] /\ ~(u = t /\ d = fd)
      /\ \A g : g \in HalfFiles(tb, h) <=> g \in HalfFiles(tb, half) /\ g # f
      /\ f \in HalfFiles(tb, half)
  BY HalfKnows
<1>2. /\ tb \in Filps /\ ce \in Marks /\ cnt \in [F!Slots -> Nat] /\ rf \in Nat /\ h \in Marks
      /\ rf = Cardinality(Whole(tb, cnt, half))
  BY DEF InOrder, MarkTo, Without
<1>3. Whole(tb, cnt, h) = Whole(tb, cnt, half) \cup {f} /\ f \notin Whole(tb, cnt, half)
  <2>1. \A g : g \in Whole(tb, cnt, h) <=> g \in F!Slots /\ cnt[g] # 0 /\ ~(g \in HalfFiles(tb, half) /\ g # f)
    BY <1>1 DEF Whole
  <2>2. \A g : g \in Whole(tb, cnt, half) <=> g \in F!Slots /\ cnt[g] # 0 /\ g \notin HalfFiles(tb, half)
    BY DEF Whole
  <2>3. \A g : g \in Whole(tb, cnt, h) <=> g \in Whole(tb, cnt, half) \/ g = f
    BY <1>1, <2>1, <2>2
  <2>4. QED
    BY <1>1, <2>2, <2>3
<1>4. Cardinality(Whole(tb, cnt, h)) = rf + 1
  BY <1>2, <1>3, WholeFinite, FS_AddElement
<1>5. \A u \in Tasks : \A d \in h[u] :
        tb[u][d] \in F!Slots /\ PlacesOf(tb, tb[u][d]) = {<<u, d>>} /\ d \notin ce[u]
  BY <1>1 DEF InOrder
<1>6. InOrder(tb, ce, cnt, rf + 1, h)
  BY <1>2, <1>4, <1>5 DEF InOrder
<1>7. QED
  BY <1>1, <1>6

\* The call has failed: the slot and the descriptor are free again.
LEMMA AbandonOne ==
    ASSUME NEW tb, NEW ce, NEW cnt, NEW rf, NEW half, InOrder(tb, ce, cnt, rf, half),
           NEW t \in Tasks, NEW fd \in half[t], NEW f, FileIs(tb, t, fd, f),
           NEW h, Without(half, h, t, fd),
           NEW q, SetTo(tb, q, t, fd, F!NULL), NEW c, CountTo(cnt, c, f, 0)
    PROVE  InOrder(q, ce, c, rf, h)
<1>1. /\ fd \in F!Fds /\ f \in F!Slots /\ cnt[f] = 1 /\ PlacesOf(tb, f) = {<<t, fd>>}
      /\ \A u \in Tasks : \A d : d \in h[u] <=> d \in half[u] /\ ~(u = t /\ d = fd)
      /\ \A u \in Tasks, d \in F!Fds : tb[u][d] = f => u = t /\ d = fd
      /\ \A g : g \in HalfFiles(tb, h) <=> g \in HalfFiles(tb, half) /\ g # f
      /\ f \in HalfFiles(tb, half)
  BY HalfKnows
<1>2. /\ tb \in Filps /\ ce \in Marks /\ cnt \in [F!Slots -> Nat] /\ rf \in Nat /\ half \in Marks
      /\ rf = Cardinality(Whole(tb, cnt, half)) /\ fd \notin ce[t]
      /\ q \in Filps /\ h \in Marks /\ c \in [F!Slots -> Nat]
  BY DEF InOrder, SetTo, MarkTo, Without, CountTo
<1>3. /\ PlacesOf(q, f) = PlacesOf(tb, f) \ {<<t, fd>>}
      /\ Cardinality(PlacesOf(q, f)) = Cardinality(PlacesOf(tb, f)) - 1
      /\ \A g \in F!Slots : g # f => PlacesOf(q, g) = PlacesOf(tb, g)
  <2>1. tb \in Filps /\ fd \in F!Fds /\ f \in F!Slots
    BY <1>1, <1>2
  <2>2. QED
    BY <2>1, PlacesCut
<1>4. /\ \A u \in Tasks, d \in F!Fds : q[u][d] = IF u = t /\ d = fd THEN F!NULL ELSE tb[u][d]
      /\ \A g \in F!Slots : c[g] = IF g = f THEN 0 ELSE cnt[g]
  BY DEF SetTo, CountTo
<1>5. \A g \in F!Slots : c[g] = Cardinality(PlacesOf(q, g))
  <2>1. Cardinality(PlacesOf(tb, f)) = 1
    BY <1>1 DEF InOrder
  <2>2. c[f] = Cardinality(PlacesOf(q, f))
    <3>1. c[f] = 0
      BY <1>1, <1>4
    <3>2. Cardinality(PlacesOf(q, f)) = 1 - 1
      BY <1>3, <2>1
    <3>3. QED
      BY <3>1, <3>2
  <2>3. \A g \in F!Slots : g # f => c[g] = cnt[g] /\ Cardinality(PlacesOf(q, g)) = Cardinality(PlacesOf(tb, g))
    BY <1>3, <1>4
  <2>4. \A g \in F!Slots : cnt[g] = Cardinality(PlacesOf(tb, g))
    BY DEF InOrder
  <2>5. QED
    BY <2>2, <2>3, <2>4
<1>6. \A u \in Tasks : \A d \in h[u] : d \in F!Fds /\ q[u][d] = tb[u][d] /\ tb[u][d] # f
  BY <1>1, <1>2, <1>4 DEF Marks
<1>7. \A u \in Tasks : \A d \in h[u] :
        q[u][d] \in F!Slots /\ PlacesOf(q, q[u][d]) = {<<u, d>>} /\ d \notin ce[u]
  <2> SUFFICES ASSUME NEW u \in Tasks, NEW d \in h[u]
               PROVE  q[u][d] \in F!Slots /\ PlacesOf(q, q[u][d]) = {<<u, d>>} /\ d \notin ce[u]
    OBVIOUS
  <2>1. tb[u][d] \in F!Slots /\ PlacesOf(tb, tb[u][d]) = {<<u, d>>} /\ d \notin ce[u]
    BY <1>1 DEF InOrder
  <2>2. QED
    BY <2>1, <1>3, <1>6
<1>8. \A u \in Tasks : \A d \in ce[u] : q[u][d] # F!NULL
  <2>1. \A u \in Tasks : \A d \in ce[u] : d \in F!Fds /\ ~(u = t /\ d = fd) /\ tb[u][d] # F!NULL
    BY <1>1, <1>2 DEF InOrder, Marks
  <2>2. QED
    BY <2>1, <1>4
<1>9. Whole(q, c, h) = Whole(tb, cnt, half)
  <2>1. HalfFiles(q, h) = HalfFiles(tb, h)
    BY <1>6 DEF HalfFiles
  <2>2. QED
    BY <2>1, <1>1, <1>4 DEF Whole
<1>10. QED
  BY <1>2, <1>5, <1>7, <1>8, <1>9 DEF InOrder
\* A mark is taken away.
LEMMA UnmarkOne ==
    ASSUME NEW tb, NEW ce, NEW cnt, NEW rf, NEW half, InOrder(tb, ce, cnt, rf, half),
           NEW t \in Tasks, NEW fd \in F!Fds, NEW m, Without(ce, m, t, fd)
    PROVE  InOrder(tb, m, cnt, rf, half) /\ fd \notin m[t]
<1>1. m \in Marks /\ \A u \in Tasks : \A d \in m[u] : d \in ce[u]
  BY DEF Without, MarkTo
<1>2. fd \notin m[t]
  BY DEF Without, MarkTo
<1>3. QED
  BY <1>1, <1>2 DEF InOrder

\* A descriptor that no call is half way with is closed: the last one of its file gives the inode back.
LEMMA CloseOne ==
    ASSUME NEW tb, NEW ce, NEW cnt, NEW rf, NEW half, InOrder(tb, ce, cnt, rf, half),
           NEW t \in Tasks, NEW fd \in F!Fds, fd \notin half[t], fd \notin ce[t],
           NEW f, FileIs(tb, t, fd, f), f # F!NULL,
           NEW q, SetTo(tb, q, t, fd, F!NULL), NEW c, CountTo(cnt, c, f, cnt[f] - 1)
    PROVE  InOrder(q, ce, c, IF cnt[f] = 1 THEN rf - 1 ELSE rf, half)
<1>1. /\ tb \in Filps /\ ce \in Marks /\ cnt \in [F!Slots -> Nat] /\ rf \in Nat /\ half \in Marks
      /\ rf = Cardinality(Whole(tb, cnt, half))
      /\ q \in Filps /\ c \in [F!Slots -> Nat]
  BY DEF InOrder, SetTo, CountTo
<1>2. /\ f \in F!Slots /\ f \notin HalfFiles(tb, half) /\ cnt[f] \in Nat \ {0}
      /\ \A u \in Tasks : \A d \in half[u] : tb[u][d] # f
  <2>1. tb[t][fd] = f
    BY DEF FileIs
  <2>2. QED
    BY <2>1, NotHalf
<1>3. /\ PlacesOf(q, f) = PlacesOf(tb, f) \ {<<t, fd>>}
      /\ Cardinality(PlacesOf(q, f)) = Cardinality(PlacesOf(tb, f)) - 1
      /\ \A g \in F!Slots : g # f => PlacesOf(q, g) = PlacesOf(tb, g)
  <2>1. tb \in Filps /\ f \in F!Slots
    BY <1>1, <1>2
  <2>2. QED
    BY <2>1, PlacesCut
<1>4. /\ \A u \in Tasks, d \in F!Fds : q[u][d] = IF u = t /\ d = fd THEN F!NULL ELSE tb[u][d]
      /\ \A g \in F!Slots : c[g] = IF g = f THEN cnt[f] - 1 ELSE cnt[g]
  BY DEF SetTo, CountTo
<1>5. \A g \in F!Slots : c[g] = Cardinality(PlacesOf(q, g))
  <2>1. \A g \in F!Slots : cnt[g] = Cardinality(PlacesOf(tb, g))
    BY DEF InOrder
  <2>2. c[f] = Cardinality(PlacesOf(q, f))
    <3>1. c[f] = cnt[f] - 1
      BY <1>2, <1>4
    <3>2. cnt[f] = Cardinality(PlacesOf(tb, f))
      BY <1>2, <2>1
    <3>3. QED
      BY <1>3, <3>1, <3>2
  <2>3. \A g \in F!Slots : g # f => c[g] = cnt[g] /\ Cardinality(PlacesOf(q, g)) = Cardinality(PlacesOf(tb, g))
    BY <1>3, <1>4
  <2>4. QED
    BY <2>1, <2>2, <2>3
<1>6. \A u \in Tasks : \A d \in half[u] : d \in F!Fds /\ q[u][d] = tb[u][d]
  BY <1>1, <1>4 DEF Marks
<1>7. \A u \in Tasks : \A d \in half[u] :
        q[u][d] \in F!Slots /\ PlacesOf(q, q[u][d]) = {<<u, d>>} /\ d \notin ce[u]
  <2> SUFFICES ASSUME NEW u \in Tasks, NEW d \in half[u]
               PROVE  q[u][d] \in F!Slots /\ PlacesOf(q, q[u][d]) = {<<u, d>>} /\ d \notin ce[u]
    OBVIOUS
  <2>1. tb[u][d] \in F!Slots /\ PlacesOf(tb, tb[u][d]) = {<<u, d>>} /\ d \notin ce[u]
    BY DEF InOrder
  <2>2. QED
    BY <2>1, <1>2, <1>3, <1>6
<1>8. \A u \in Tasks : \A d \in ce[u] : q[u][d] # F!NULL
  <2>1. \A u \in Tasks : \A d \in ce[u] : d \in F!Fds /\ ~(u = t /\ d = fd) /\ tb[u][d] # F!NULL
    BY <1>1 DEF InOrder, Marks
  <2>2. QED
    BY <2>1, <1>4
<1>9. HalfFiles(q, half) = HalfFiles(tb, half)
  BY <1>6 DEF HalfFiles
<1>10. CASE cnt[f] = 1
  <2>1. f \in Whole(tb, cnt, half)
    BY <1>2 DEF Whole
  <2>2. \A g \in F!Slots : c[g] # 0 <=> cnt[g] # 0 /\ g # f
    BY <1>4, <1>10
  <2>3. Whole(q, c, half) = Whole(tb, cnt, half) \ {f}
    BY <1>9, <2>2 DEF Whole
  <2>4. Cardinality(Whole(q, c, half)) = rf - 1
    <3>1. Cardinality(Whole(tb, cnt, half) \ {f}) = Cardinality(Whole(tb, cnt, half)) - 1
      BY <2>1, WholeFinite, FS_RemoveElement
    <3>2. QED
      BY <1>1, <2>3, <3>1
  <2>5. Cardinality(Whole(q, c, half)) \in Nat
    BY WholeFinite
  <2>6. InOrder(q, ce, c, rf - 1, half)
    BY <1>1, <1>5, <1>7, <1>8, <2>4, <2>5 DEF InOrder
  <2>7. QED
    BY <1>10, <2>6
<1>11. CASE cnt[f] # 1
  <2>1. \A g \in F!Slots : c[g] # 0 <=> cnt[g] # 0
    BY <1>2, <1>4, <1>11
  <2>2. Whole(q, c, half) = Whole(tb, cnt, half)
    BY <1>9, <2>1 DEF Whole
  <2>3. InOrder(q, ce, c, rf, half)
    BY <1>1, <1>5, <1>7, <1>8, <2>2 DEF InOrder
  <2>4. QED
    BY <1>11, <2>3
<1>12. QED
  BY <1>10, <1>11

\* A free descriptor becomes another one of a file that is open.
LEMMA DupOne ==
    ASSUME NEW tb, NEW ce, NEW cnt, NEW rf, NEW half, InOrder(tb, ce, cnt, rf, half),
           NEW t \in Tasks, NEW fd \in F!Fds, tb[t][fd] = F!NULL,
           NEW old \in F!Fds, old \notin half[t], NEW f, FileIs(tb, t, old, f), f # F!NULL,
           NEW q, SetTo(tb, q, t, fd, f), NEW c, CountTo(cnt, c, f, cnt[f] + 1)
    PROVE  InOrder(q, ce, c, rf, half)
<1>1. /\ tb \in Filps /\ ce \in Marks /\ cnt \in [F!Slots -> Nat] /\ rf \in Nat /\ half \in Marks
      /\ rf = Cardinality(Whole(tb, cnt, half))
      /\ q \in Filps /\ c \in [F!Slots -> Nat]
  BY DEF InOrder, SetTo, CountTo
<1>2. /\ f \in F!Slots /\ f \notin HalfFiles(tb, half) /\ cnt[f] \in Nat \ {0}
      /\ \A u \in Tasks : \A d \in half[u] : tb[u][d] # f
  <2>1. tb[t][old] = f
    BY DEF FileIs
  <2>2. QED
    BY <2>1, NotHalf
<1>3. /\ PlacesOf(q, f) = PlacesOf(tb, f) \cup {<<t, fd>>}
      /\ Cardinality(PlacesOf(q, f)) = Cardinality(PlacesOf(tb, f)) + 1
      /\ \A g \in F!Slots : g # f => PlacesOf(q, g) = PlacesOf(tb, g)
  <2>1. tb \in Filps /\ f \in F!Slots
    BY <1>1, <1>2
  <2>2. QED
    BY <2>1, PlacesPut
<1>4. /\ \A u \in Tasks, d \in F!Fds : q[u][d] = IF u = t /\ d = fd THEN f ELSE tb[u][d]
      /\ \A g \in F!Slots : c[g] = IF g = f THEN cnt[f] + 1 ELSE cnt[g]
  BY DEF SetTo, CountTo
<1>5. \A g \in F!Slots : c[g] = Cardinality(PlacesOf(q, g))
  <2>1. \A g \in F!Slots : cnt[g] = Cardinality(PlacesOf(tb, g))
    BY DEF InOrder
  <2>2. c[f] = Cardinality(PlacesOf(q, f))
    <3>1. c[f] = cnt[f] + 1
      BY <1>2, <1>4
    <3>2. cnt[f] = Cardinality(PlacesOf(tb, f))
      BY <1>2, <2>1
    <3>3. QED
      BY <1>3, <3>1, <3>2
  <2>3. \A g \in F!Slots : g # f => c[g] = cnt[g] /\ Cardinality(PlacesOf(q, g)) = Cardinality(PlacesOf(tb, g))
    BY <1>3, <1>4
  <2>4. QED
    BY <2>1, <2>2, <2>3
<1>6. \A u \in Tasks : \A d \in half[u] : d \in F!Fds /\ q[u][d] = tb[u][d]
  <2>1. fd \notin half[t]
    BY FreeIsFree
  <2>2. QED
    BY <1>1, <1>4, <2>1 DEF Marks
<1>7. \A u \in Tasks : \A d \in half[u] :
        q[u][d] \in F!Slots /\ PlacesOf(q, q[u][d]) = {<<u, d>>} /\ d \notin ce[u]
  <2> SUFFICES ASSUME NEW u \in Tasks, NEW d \in half[u]
               PROVE  q[u][d] \in F!Slots /\ PlacesOf(q, q[u][d]) = {<<u, d>>} /\ d \notin ce[u]
    OBVIOUS
  <2>1. tb[u][d] \in F!Slots /\ PlacesOf(tb, tb[u][d]) = {<<u, d>>} /\ d \notin ce[u]
    BY DEF InOrder
  <2>2. QED
    BY <2>1, <1>2, <1>3, <1>6
<1>8. \A u \in Tasks : \A d \in ce[u] : q[u][d] # F!NULL
  <2>1. \A u \in Tasks : \A d \in ce[u] : d \in F!Fds /\ tb[u][d] # F!NULL
    BY <1>1 DEF InOrder, Marks
  <2>2. QED
    BY <2>1, <1>2, <1>4, FileSetsAre
<1>9. HalfFiles(q, half) = HalfFiles(tb, half)
  BY <1>6 DEF HalfFiles
<1>10. Whole(q, c, half) = Whole(tb, cnt, half)
  <2>1. \A g \in F!Slots : c[g] # 0 <=> cnt[g] # 0
    BY <1>2, <1>4
  <2>2. QED
    BY <1>9, <2>1 DEF Whole
<1>11. QED
  BY <1>1, <1>5, <1>7, <1>8, <1>10 DEF InOrder

\* fork() gives the child each file of its father once for each of his descriptors.
LEMMA PlacesFork ==
    ASSUME NEW tb, NEW t \in Tasks, NEW u \in Tasks, u # t, NEW q,
           Forked(tb, q, t, u), NEW g, \A d \in F!Fds : tb[u][d] # g
    PROVE  /\ PlacesOf(q, g) = PlacesOf(tb, g) \cup ({u} \X FdsOf(tb, t, g))
           /\ Cardinality(PlacesOf(q, g)) = Cardinality(PlacesOf(tb, g)) + Cardinality(FdsOf(tb, t, g))
<1> DEFINE S == FdsOf(tb, t, g)
           P == {u} \X S
<1>1. PlacesOf(q, g) = PlacesOf(tb, g) \cup P
  BY DEF PlacesOf, FdsOf, Forked
<1>2. PlacesOf(tb, g) \cap P = {}
  BY DEF PlacesOf
<1>3. IsFiniteSet(S) /\ Cardinality(S) \in Nat
  <2>1. S \subseteq F!Fds
    BY DEF FdsOf
  <2>2. IsFiniteSet(S)
    BY <2>1, FileSetsAre, FS_Subset
  <2>3. QED
    BY <2>2, FS_CardinalityType
<1>4. IsFiniteSet({u}) /\ Cardinality({u}) = 1
  BY FS_Singleton
<1> HIDE DEF S
<1>5. IsFiniteSet(P) /\ Cardinality(P) = 1 * Cardinality(S)
  BY <1>3, <1>4, FS_Product
<1> HIDE DEF P
<1>6. Cardinality(PlacesOf(tb, g) \cup P) = Cardinality(PlacesOf(tb, g)) + Cardinality(P)
  <2>1. Cardinality(PlacesOf(tb, g) \cup P)
          = Cardinality(PlacesOf(tb, g)) + Cardinality(P) - Cardinality(PlacesOf(tb, g) \cap P)
    BY <1>5, PlacesFinite, FS_Union
  <2>2. Cardinality(PlacesOf(tb, g) \cap P) = 0
    BY <1>2, FS_EmptySet
  <2>3. Cardinality(PlacesOf(tb, g)) \in Nat /\ Cardinality(P) \in Nat
    BY <1>3, <1>5, PlacesFinite
  <2>4. QED
    BY <2>1, <2>2, <2>3
<1>7. Cardinality(P) = Cardinality(S)
  BY <1>3, <1>5
<1>8. QED
  BY <1>1, <1>6, <1>7 DEF S, P

\* The child of a task that is in no call.
LEMMA ForkOne ==
    ASSUME NEW tb, NEW ce, NEW cnt, NEW rf, NEW half, InOrder(tb, ce, cnt, rf, half),
           NEW t \in Tasks, NEW u \in Tasks, u # t, half[t] = {}, half[u] = {},
           \A d \in F!Fds : tb[u][d] = F!NULL,
           NEW q, Forked(tb, q, t, u),
           NEW m, MarkTo(ce, m, u, ce[t]),
           NEW c, c \in [F!Slots -> Nat], \A g \in F!Slots : c[g] = cnt[g] + Cardinality(FdsOf(tb, t, g))
    PROVE  InOrder(q, m, c, rf, half)
<1>1. /\ tb \in Filps /\ ce \in Marks /\ cnt \in [F!Slots -> Nat] /\ rf \in Nat /\ half \in Marks
      /\ rf = Cardinality(Whole(tb, cnt, half)) /\ m \in Marks
      /\ \A x \in Tasks : m[x] = IF x = u THEN ce[t] ELSE ce[x]
      /\ q \in Filps /\ \A x \in Tasks, d \in F!Fds : q[x][d] = IF x = u THEN tb[t][d] ELSE tb[x][d]
  BY DEF InOrder, MarkTo, Forked
<1>2. ASSUME NEW g \in F!Slots
      PROVE  /\ PlacesOf(q, g) = PlacesOf(tb, g) \cup ({u} \X FdsOf(tb, t, g))
             /\ Cardinality(PlacesOf(q, g)) = Cardinality(PlacesOf(tb, g)) + Cardinality(FdsOf(tb, t, g))
  <2>1. \A d \in F!Fds : tb[u][d] # g
    BY FileSetsAre
  <2>2. QED
    BY <2>1, PlacesFork
<1>3. \A g \in F!Slots : c[g] = Cardinality(PlacesOf(q, g))
  <2>1. \A g \in F!Slots : cnt[g] = Cardinality(PlacesOf(tb, g))
    BY DEF InOrder
  <2>2. QED
    BY <1>2, <2>1
<1>4. \A x \in Tasks : \A d \in half[x] : d \in F!Fds /\ x # u /\ x # t /\ q[x][d] = tb[x][d]
  BY <1>1 DEF Marks
<1>5. \A x \in Tasks : \A d \in half[x] :
        q[x][d] \in F!Slots /\ PlacesOf(q, q[x][d]) = {<<x, d>>} /\ d \notin m[x]
  <2> SUFFICES ASSUME NEW x \in Tasks, NEW d \in half[x]
               PROVE  q[x][d] \in F!Slots /\ PlacesOf(q, q[x][d]) = {<<x, d>>} /\ d \notin m[x]
    OBVIOUS
  <2>1. PICK g : g = tb[x][d]
    OBVIOUS
  <2>2. g \in F!Slots /\ PlacesOf(tb, g) = {<<x, d>>} /\ d \notin ce[x] /\ x # u /\ x # t /\ q[x][d] = g
    BY <1>4, <2>1 DEF InOrder
  <2>3. FdsOf(tb, t, g) = {}
    <3>1. \A e \in F!Fds : tb[t][e] = g => <<t, e>> \in PlacesOf(tb, g)
      BY PlacesCount
    <3>2. QED
      BY <2>2, <3>1 DEF FdsOf
  <2>4. PlacesOf(q, g) = PlacesOf(tb, g)
    BY <1>2, <2>2, <2>3
  <2>5. QED
    BY <1>1, <2>2, <2>4
<1>6. \A x \in Tasks : \A d \in m[x] : q[x][d] # F!NULL
  BY <1>1 DEF InOrder, Marks
<1>7. Whole(q, c, half) = Whole(tb, cnt, half)
  <2>1. HalfFiles(q, half) = HalfFiles(tb, half)
    BY <1>4 DEF HalfFiles
  <2>2. ASSUME NEW g \in F!Slots PROVE c[g] # 0 <=> cnt[g] # 0
    <3>1. cnt[g] = 0 => PlacesOf(tb, g) = {}
      BY PlacesCount DEF InOrder
    <3>2. PlacesOf(tb, g) = {} => PlacesOf(q, g) = {}
      <4>1. \A e \in F!Fds : tb[t][e] = g => <<t, e>> \in PlacesOf(tb, g)
        BY PlacesCount
      <4>2. PlacesOf(tb, g) = {} => FdsOf(tb, t, g) = {}
        BY <4>1 DEF FdsOf
      <4>3. QED
        BY <1>2, <4>2
    <3>3. PlacesOf(q, g) = {} => PlacesOf(tb, g) = {}
      BY <1>2
    <3>4. c[g] = 0 <=> PlacesOf(q, g) = {}
      BY <1>3, PlacesCount
    <3>5. cnt[g] = 0 <=> PlacesOf(tb, g) = {}
      BY PlacesCount DEF InOrder
    <3>6. QED
      BY <3>2, <3>3, <3>4, <3>5
  <2>3. QED
    BY <2>1, <2>2 DEF Whole
<1>8. QED
  BY <1>1, <1>3, <1>5, <1>6, <1>7 DEF InOrder

\* A descriptor that is open is marked.
LEMMA MarkOne ==
    ASSUME NEW tb, NEW ce, NEW cnt, NEW rf, NEW half, InOrder(tb, ce, cnt, rf, half),
           NEW t \in Tasks, NEW fd \in F!Fds, fd \notin half[t], tb[t][fd] # F!NULL,
           NEW m, MarkTo(ce, m, t, ce[t] \cup {fd})
    PROVE  InOrder(tb, m, cnt, rf, half)
<1>1. m \in Marks /\ \A u \in Tasks : \A d : d \in m[u] <=> d \in ce[u] \/ (u = t /\ d = fd)
  BY DEF MarkTo
<1>2. QED
  BY <1>1 DEF InOrder

-----------------------------------------------------------------------------
(* The calls. *)

\* The other tasks have the descriptors that they had.
OthersKeep(tb, q, t) == \A u \in Tasks : u # t => \A d \in F!Fds : q[u][d] = tb[u][d]

\* A call goes from one place to another.
LEMMA HalvesChange ==
    ASSUME NEW dg \in [Tasks -> Doings], NEW t \in Tasks, NEW c \in Doings,
           NEW dh, dh = [dg EXCEPT ![t] = c]
    PROVE  /\ HalvesOf(dg)[t] = HalfOf(dg[t]) /\ HalvesOf(dg) \in Marks
           /\ MarkTo(HalvesOf(dg), HalvesOf(dh), t, HalfOf(c))
<1>1. \A b \in Doings : HalfOf(b) \subseteq F!Fds
  BY DEF HalfOf, Doings
<1>2. HalvesOf(dg) \in Marks /\ \A u \in Tasks : HalvesOf(dg)[u] = HalfOf(dg[u])
  BY <1>1 DEF HalvesOf, Marks
<1>3. dh \in [Tasks -> Doings] /\ \A u \in Tasks : dh[u] = IF u = t THEN c ELSE dg[u]
  OBVIOUS
<1>4. HalvesOf(dh) \in Marks /\ \A u \in Tasks : HalvesOf(dh)[u] = HalfOf(dh[u])
  BY <1>1, <1>3 DEF HalvesOf, Marks
<1>5. MarkTo(HalvesOf(dg), HalvesOf(dh), t, HalfOf(c))
  BY <1>2, <1>3, <1>4 DEF MarkTo
<1>6. QED
  BY <1>2, <1>5

\* What is left to show of a step, when the table is in order after it.
LEMMA StepKeeps ==
    ASSUME NEW tb, NEW ce, NEW cnt, NEW rf, NEW dg, FilesInvOf(tb, ce, cnt, rf, dg),
           NEW t \in Tasks, NEW c \in Doings, NEW dh, dh = [dg EXCEPT ![t] = c],
           c.pc = "pipe" => c.fd # c.other,
           NEW q, c.pc = "ended" => \A d \in F!Fds : q[t][d] = F!NULL, OthersKeep(tb, q, t),
           NEW m, NEW n, NEW r, InOrder(q, m, n, r, HalvesOf(dh))
    PROVE  FilesInvOf(q, m, n, r, dh)
<1>1. /\ dg \in [Tasks -> Doings]
      /\ \A u \in Tasks : dg[u].pc = "pipe" => dg[u].fd # dg[u].other
      /\ \A u \in Tasks : dg[u].pc = "ended" => \A d \in F!Fds : tb[u][d] = F!NULL
  BY DEF FilesInvOf
<1>2. dh \in [Tasks -> Doings] /\ \A u \in Tasks : dh[u] = IF u = t THEN c ELSE dg[u]
  BY <1>1
<1>3. \A u \in Tasks : dh[u].pc = "pipe" => dh[u].fd # dh[u].other
  BY <1>1, <1>2
<1>4. \A u \in Tasks : dh[u].pc = "ended" => \A d \in F!Fds : q[u][d] = F!NULL
  BY <1>1, <1>2 DEF OthersKeep
<1>5. QED
  BY <1>2, <1>3, <1>4 DEF FilesInvOf

\* Where a call can be.
LEMMA PlacesToBe ==
    /\ F!AtUser \in Doings /\ F!Ended \in Doings
    /\ \A b \in Doings, p \in {"open", "pipe", "exec", "exit"} : [b EXCEPT !.pc = p] \in Doings
    /\ HalfOf(F!AtUser) = {} /\ HalfOf(F!Ended) = {} /\ F!AtUser.pc = "user" /\ F!Ended.pc = "ended"
    /\ \A b \in Doings : b.pc \notin {"open", "pipe"} => HalfOf(b) = {}
<1>1. F!AtUser \in Doings
  BY FileSetsAre DEF F!AtUser, Doings
<1>2. \A b \in Doings, p \in {"open", "pipe", "exec", "exit", "ended"} :
        [b EXCEPT !.pc = p] \in Doings /\ [b EXCEPT !.pc = p].pc = p
  BY DEF Doings
<1>3. F!Ended \in Doings /\ F!Ended.pc = "ended"
  BY <1>1, <1>2 DEF F!Ended
<1>4. F!AtUser.pc = "user"
  BY DEF F!AtUser
<1>5. \A b \in Doings : b.pc \notin {"open", "pipe"} => HalfOf(b) = {}
  BY DEF HalfOf
<1>6. QED
  BY <1>1, <1>2, <1>3, <1>4, <1>5

\* A close, in whichever call.
LEMMA ClosedKeeps ==
    ASSUME FilesInv, NEW t \in Tasks, NEW fd \in F!Fds, HalfOf(doing[t]) = {}, F!Closed(t, fd)
    PROVE  /\ InOrder(filp', close_on_exec', f_count', refs', HalvesOf(doing))
           /\ OthersKeep(filp, filp', t) /\ \A d \in F!Fds : filp[t][d] = F!NULL => filp'[t][d] = F!NULL
<1>1. PICK half : half = HalvesOf(doing)
  OBVIOUS
<1>2. InOrder(filp, close_on_exec, f_count, refs, half) /\ half[t] = {}
  BY <1>1 DEF FilesInv, FilesInvOf, HalvesOf
<1>3. filp \in Filps /\ f_count \in [F!Slots -> Nat] /\ close_on_exec \in Marks
  BY <1>2 DEF InOrder
<1>4. PICK f : f = filp[t][fd]
  OBVIOUS
<1>5. close_on_exec' = [close_on_exec EXCEPT ![t] = @ \ {fd}]
  BY DEF F!Closed
<1>6. Without(close_on_exec, close_on_exec', t, fd)
  <2>1. close_on_exec[t] \ {fd} \in SUBSET F!Fds
    BY <1>3 DEF Marks
  <2>2. QED
    BY <1>3, <1>5, <2>1, SetToIs DEF Without
<1>7. InOrder(filp, close_on_exec', f_count, refs, half) /\ fd \notin close_on_exec'[t]
  BY <1>2, <1>6, UnmarkOne
<1>8. CASE f = F!NULL
  <2>1. filp' = filp /\ f_count' = f_count /\ refs' = refs
    BY <1>4, <1>8 DEF F!Closed
  <2>2. QED
    BY <1>1, <1>7, <2>1 DEF OthersKeep
<1>9. CASE f # F!NULL
  <2>1. /\ filp' = [filp EXCEPT ![t][fd] = F!NULL]
        /\ f_count' = [f_count EXCEPT ![f] = f_count[f] - 1]
        /\ refs' = IF f_count[f] = 1 THEN refs - 1 ELSE refs
    BY <1>4, <1>9 DEF F!Closed
  <2>2. f \in F!Slots /\ f_count[f] \in Nat \ {0}
    BY <1>2, <1>4, <1>9, NotHalf
  <2>3. SetTo(filp, filp', t, fd, F!NULL)
    BY <1>3, <2>1, SetToIs DEF MaybeFile
  <2>4. CountTo(f_count, f_count', f, f_count[f] - 1)
    <3>1. f_count[f] - 1 \in Nat
      BY <2>2
    <3>2. QED
      BY <1>3, <2>1, <2>2, <3>1, SetToIs
  <2>5. FileIs(filp, t, fd, f)
    BY <1>4 DEF FileIs
  <2>6. InOrder(filp', close_on_exec', f_count', IF f_count[f] = 1 THEN refs - 1 ELSE refs, half)
    <3>1. fd \notin half[t]
      BY <1>2
    <3>2. QED
      BY <1>7, <1>9, <2>3, <2>4, <2>5, <3>1, CloseOne
  <2>7. OthersKeep(filp, filp', t) /\ \A d \in F!Fds : filp[t][d] = F!NULL => filp'[t][d] = F!NULL
    BY <2>3 DEF SetTo, OthersKeep
  <2>8. QED
    BY <1>1, <2>1, <2>6, <2>7
<1>10. QED
  BY <1>8, <1>9

\* Another descriptor for a file, in whichever call.
LEMMA DupfdKeeps ==
    ASSUME FilesInv, NEW t \in Tasks, NEW fd \in F!Fds, NEW arg \in F!Fds, HalfOf(doing[t]) = {},
           F!dupfd(t, fd, arg)
    PROVE  /\ InOrder(filp', close_on_exec', f_count', refs', HalvesOf(doing))
           /\ OthersKeep(filp, filp', t)
<1>1. PICK half : half = HalvesOf(doing)
  OBVIOUS
<1>2. InOrder(filp, close_on_exec, f_count, refs, half) /\ half[t] = {}
  BY <1>1 DEF FilesInv, FilesInvOf, HalvesOf
<1>3. filp \in Filps /\ f_count \in [F!Slots -> Nat] /\ close_on_exec \in Marks
  BY <1>2 DEF InOrder
<1>4. PICK to : to = {d \in F!FreeFds(t) : d >= arg}
  OBVIOUS
<1>5. CASE filp[t][fd] = F!NULL \/ to = {}
  <2>1. filp' = filp /\ close_on_exec' = close_on_exec /\ f_count' = f_count /\ refs' = refs
    BY <1>4, <1>5 DEF F!dupfd
  <2>2. QED
    BY <1>1, <1>2, <2>1 DEF OthersKeep
<1>6. CASE filp[t][fd] # F!NULL /\ to # {}
  <2>1. PICK d : d = F!Min(to)
    OBVIOUS
  <2>2. PICK f : f = filp[t][fd]
    OBVIOUS
  <2>3. d \in F!Fds /\ filp[t][d] = F!NULL
    <3>1. to \subseteq Nat
      BY <1>4, FileSetsAre DEF F!FreeFds
    <3>2. d \in to
      BY <1>6, <2>1, <3>1, LeastIs
    <3>3. QED
      BY <1>4, <3>2 DEF F!FreeFds
  <2>4. /\ close_on_exec' = [close_on_exec EXCEPT ![t] = @ \ {d}]
        /\ filp' = [filp EXCEPT ![t][d] = f]
        /\ f_count' = [f_count EXCEPT ![f] = f_count[f] + 1] /\ refs' = refs
    BY <1>4, <1>6, <2>1, <2>2 DEF F!dupfd, F!TakeSlot
  <2>5. close_on_exec' = close_on_exec
    BY <1>2, <2>3, <2>4, FreeIsFree
  <2>6. f \in F!Slots
    BY <1>3, <1>6, <2>2 DEF Filps, MaybeFile
  <2>7. SetTo(filp, filp', t, d, f)
    BY <1>3, <2>3, <2>4, <2>6, SetToIs DEF MaybeFile
  <2>8. CountTo(f_count, f_count', f, f_count[f] + 1)
    <3>1. f_count[f] + 1 \in Nat
      BY <1>3, <2>6
    <3>2. QED
      BY <1>3, <2>4, <2>6, <3>1, SetToIs
  <2>9. FileIs(filp, t, fd, f) /\ f # F!NULL /\ fd \notin half[t]
    BY <1>2, <1>6, <2>2 DEF FileIs
  <2>10. InOrder(filp', close_on_exec, f_count', refs, half)
    BY <1>2, <2>3, <2>7, <2>8, <2>9, DupOne
  <2>11. OthersKeep(filp, filp', t)
    BY <2>7 DEF SetTo, OthersKeep
  <2>12. QED
    BY <1>1, <2>4, <2>5, <2>10, <2>11
<1>7. QED
  BY <1>5, <1>6

\* open() and getcwd(): the descriptor and the slot are free, and taken together.
LEMMA OpenKeeps ==
    ASSUME FilesInv, NEW t \in Tasks, F!sys_open(t) PROVE FilesInv'
<1>1. PICK half : half = HalvesOf(doing)
  OBVIOUS
<1>2. /\ InOrder(filp, close_on_exec, f_count, refs, half) /\ doing \in [Tasks -> Doings]
      /\ doing[t].pc = "user"
  BY <1>1 DEF FilesInv, FilesInvOf, F!sys_open, F!At
<1>3. filp \in Filps /\ f_count \in [F!Slots -> Nat] /\ close_on_exec \in Marks
  BY <1>2 DEF InOrder
<1>4. PICK fd : fd = F!Min(F!FreeFds(t))
  OBVIOUS
<1>5. fd \in F!Fds /\ filp[t][fd] = F!NULL
  <2>1. F!FreeFds(t) \subseteq Nat /\ F!FreeFds(t) # {}
    BY FileSetsAre DEF F!FreeFds, F!sys_open
  <2>2. fd \in F!FreeFds(t)
    BY <1>4, <2>1, LeastIs
  <2>3. QED
    BY <2>2 DEF F!FreeFds
<1>6. close_on_exec' = close_on_exec /\ refs' = refs
  <2>1. close_on_exec' = [close_on_exec EXCEPT ![t] = @ \ {fd}] /\ refs' = refs
    BY <1>4 DEF F!sys_open
  <2>2. QED
    BY <1>2, <1>5, <2>1, FreeIsFree
<1>7. CASE F!FreeSlots = {}
  <2>1. filp' = filp /\ f_count' = f_count /\ doing' = doing
    BY <1>7 DEF F!sys_open
  <2>2. QED
    BY <1>6, <2>1 DEF FilesInv
<1>8. CASE F!FreeSlots # {}
  <2>1. PICK f : f = F!Min(F!FreeSlots)
    OBVIOUS
  <2>2. f \in F!Slots /\ f_count[f] = 0
    <3>1. F!FreeSlots \subseteq Nat
      BY FileSetsAre DEF F!FreeSlots
    <3>2. f \in F!FreeSlots
      BY <1>8, <2>1, <3>1, LeastIs
    <3>3. QED
      BY <3>2 DEF F!FreeSlots
  <2>3. PICK c : c = [F!AtUser EXCEPT !.pc = "open", !.fd = fd]
    OBVIOUS
  <2>4. /\ filp' = [filp EXCEPT ![t][fd] = f] /\ f_count' = [f_count EXCEPT ![f] = f_count[f] + 1]
        /\ doing' = [doing EXCEPT ![t] = c]
    BY <1>4, <1>8, <2>1, <2>3 DEF F!sys_open, F!TakeSlot
  <2>5. c \in Doings /\ c.pc = "open" /\ HalfOf(c) = {fd}
    <3>1. c = [pc |-> "open", fd |-> fd, other |-> 0]
      BY <2>3 DEF F!AtUser
    <3>2. QED
      BY <1>5, <3>1, FileSetsAre DEF Doings, HalfOf
  <2>6. SetTo(filp, filp', t, fd, f)
    BY <1>3, <1>5, <2>2, <2>4, SetToIs DEF MaybeFile
  <2>7. CountTo(f_count, f_count', f, 1)
    <3>1. f_count' = [f_count EXCEPT ![f] = 1]
      <4>1. f_count[f] + 1 = 1
        BY <2>2
      <4>2. QED
        BY <2>4, <4>1
    <3>2. QED
      BY <1>3, <2>2, <3>1, SetToIs
  <2>8. MarkTo(half, HalvesOf(doing'), t, half[t] \cup {fd})
    <3>1. half[t] = HalfOf(doing[t]) /\ MarkTo(half, HalvesOf(doing'), t, HalfOf(c))
      BY <1>1, <1>2, <2>4, <2>5, HalvesChange
    <3>2. half[t] \cup {fd} = HalfOf(c)
      BY <1>2, <2>5, <3>1, PlacesToBe
    <3>3. QED
      BY <3>1, <3>2
  <2>9. InOrder(filp', close_on_exec, f_count', refs, HalvesOf(doing'))
    BY <1>2, <1>5, <2>2, <2>6, <2>7, <2>8, TakeOne
  <2>10. OthersKeep(filp, filp', t)
    BY <2>6 DEF SetTo, OthersKeep
  <2>11. QED
    BY <1>6, <2>4, <2>5, <2>9, <2>10, StepKeeps DEF FilesInv
<1>9. QED
  BY <1>7, <1>8

\* open() has its inode.
LEMMA OpenedKeeps ==
    ASSUME FilesInv, NEW t \in Tasks, F!Opened(t) PROVE FilesInv'
<1>1. PICK half : half = HalvesOf(doing)
  OBVIOUS
<1>2. /\ InOrder(filp, close_on_exec, f_count, refs, half) /\ doing \in [Tasks -> Doings]
      /\ doing[t].pc = "open"
  BY <1>1 DEF FilesInv, FilesInvOf, F!Opened, F!At
<1>3. PICK fd : fd = doing[t].fd
  OBVIOUS
<1>4. PICK f : f = filp[t][fd]
  OBVIOUS
<1>5. /\ filp' = filp /\ close_on_exec' = close_on_exec /\ refs' = refs + 1
      /\ f_count' = [f_count EXCEPT ![f] = 1] /\ doing' = [doing EXCEPT ![t] = F!AtUser]
  BY <1>3, <1>4 DEF F!Opened, F!Return
<1>6. half[t] = {fd}
  <2>1. half[t] = HalfOf(doing[t])
    BY <1>1 DEF HalvesOf
  <2>2. QED
    BY <1>2, <1>3, <2>1 DEF HalfOf
<1>7. Without(half, HalvesOf(doing'), t, fd)
  <2>1. MarkTo(half, HalvesOf(doing'), t, HalfOf(F!AtUser))
    BY <1>1, <1>2, <1>5, HalvesChange, PlacesToBe
  <2>2. half[t] \ {fd} = HalfOf(F!AtUser)
    BY <1>6, PlacesToBe
  <2>3. QED
    BY <2>1, <2>2 DEF Without
<1>8. InOrder(filp, close_on_exec, f_count, refs + 1, HalvesOf(doing')) /\ f \in F!Slots /\ f_count[f] = 1
  <2>1. FileIs(filp, t, fd, f) /\ fd \in half[t]
    BY <1>4, <1>6 DEF FileIs
  <2>2. QED
    BY <1>2, <1>7, <2>1, FinishOne
<1>9. f_count' = f_count
  BY <1>2, <1>5, <1>8 DEF InOrder
<1>10. OthersKeep(filp, filp', t)
  BY <1>5 DEF OthersKeep
<1>11. QED
  BY <1>5, <1>8, <1>9, <1>10, PlacesToBe, StepKeeps DEF FilesInv

\* open() has failed.
LEMMA NotOpenedKeeps ==
    ASSUME FilesInv, NEW t \in Tasks, F!NotOpened(t) PROVE FilesInv'
<1>1. PICK half : half = HalvesOf(doing)
  OBVIOUS
<1>2. /\ InOrder(filp, close_on_exec, f_count, refs, half) /\ doing \in [Tasks -> Doings]
      /\ doing[t].pc = "open"
  BY <1>1 DEF FilesInv, FilesInvOf, F!NotOpened, F!At
<1>3. PICK fd : fd = doing[t].fd
  OBVIOUS
<1>4. PICK f : f = filp[t][fd]
  OBVIOUS
<1>5. /\ filp' = [filp EXCEPT ![t][fd] = F!NULL] /\ close_on_exec' = close_on_exec /\ refs' = refs
      /\ f_count' = [f_count EXCEPT ![f] = 0] /\ doing' = [doing EXCEPT ![t] = F!AtUser]
  BY <1>3, <1>4 DEF F!NotOpened, F!Return
<1>6. half[t] = {fd}
  <2>1. half[t] = HalfOf(doing[t])
    BY <1>1 DEF HalvesOf
  <2>2. QED
    BY <1>2, <1>3, <2>1 DEF HalfOf
<1>7. Without(half, HalvesOf(doing'), t, fd)
  <2>1. MarkTo(half, HalvesOf(doing'), t, HalfOf(F!AtUser))
    BY <1>1, <1>2, <1>5, HalvesChange, PlacesToBe
  <2>2. half[t] \ {fd} = HalfOf(F!AtUser)
    BY <1>6, PlacesToBe
  <2>3. QED
    BY <2>1, <2>2 DEF Without
<1>8. /\ FileIs(filp, t, fd, f) /\ fd \in half[t]
      /\ filp \in Filps /\ f_count \in [F!Slots -> Nat] /\ fd \in F!Fds /\ f \in F!Slots
  BY <1>2, <1>4, <1>6 DEF FileIs, InOrder, Marks
<1>9. SetTo(filp, filp', t, fd, F!NULL)
  BY <1>5, <1>8, SetToIs DEF MaybeFile
<1>10. CountTo(f_count, f_count', f, 0)
  BY <1>5, <1>8, SetToIs
<1>11. InOrder(filp', close_on_exec, f_count', refs, HalvesOf(doing'))
  BY <1>2, <1>7, <1>8, <1>9, <1>10, AbandonOne
<1>12. OthersKeep(filp, filp', t)
  BY <1>9 DEF SetTo, OthersKeep
<1>13. QED
  BY <1>5, <1>11, <1>12, PlacesToBe, StepKeeps DEF FilesInv

\* A step that has changed no table, or has put it in order, and is half way with no descriptor.
LEMMA PlainStep ==
    ASSUME FilesInv, NEW t \in Tasks, NEW c \in Doings, doing' = [doing EXCEPT ![t] = c],
           HalfOf(doing[t]) = {}, c.pc \notin {"open", "pipe"},
           c.pc = "ended" => \A d \in F!Fds : filp'[t][d] = F!NULL,
           InOrder(filp', close_on_exec', f_count', refs', HalvesOf(doing)), OthersKeep(filp, filp', t)
    PROVE  FilesInv'
<1>1. doing \in [Tasks -> Doings]
  BY DEF FilesInv, FilesInvOf
<1>2. HalvesOf(doing') = HalvesOf(doing)
  <2>1. HalfOf(c) = HalfOf(doing[t])
    BY PlacesToBe
  <2>2. \A u \in Tasks : HalfOf(doing'[u]) = HalfOf(doing[u])
    BY <1>1, <2>1
  <2>3. QED
    BY <2>2 DEF HalvesOf
<1>3. QED
  BY <1>2, StepKeeps DEF FilesInv

\* close(), and dup2(), which closes first.
LEMMA CloseKeeps ==
    ASSUME FilesInv, NEW t \in Tasks, NEW fd \in F!Fds, NEW d \in F!Fds,
           F!sys_close(t, fd) \/ F!sys_dup2(t, fd, d)
    PROVE  FilesInv'
<1>1. doing \in [Tasks -> Doings] /\ doing[t].pc = "user"
  BY DEF FilesInv, FilesInvOf, F!sys_close, F!sys_dup2, F!At
<1>2. HalfOf(doing[t]) = {}
  BY <1>1, PlacesToBe
<1>3. CASE F!sys_close(t, fd)
  <2>1. F!Closed(t, fd) /\ doing' = [doing EXCEPT ![t] = doing[t]]
    BY <1>1, <1>3 DEF F!sys_close
  <2>2. /\ InOrder(filp', close_on_exec', f_count', refs', HalvesOf(doing)) /\ OthersKeep(filp, filp', t)
    BY <1>2, <2>1, ClosedKeeps
  <2>3. doing[t] \in Doings /\ doing[t].pc \notin {"open", "pipe", "ended"}
    BY <1>1
  <2>4. QED
    BY <1>2, <2>1, <2>2, <2>3, PlainStep
<1>4. CASE F!sys_dup2(t, fd, d)
  <2>1. PICK c : c = [pc |-> "dup2", fd |-> fd, other |-> d]
    OBVIOUS
  <2>2. F!Closed(t, d) /\ doing' = [doing EXCEPT ![t] = c]
    BY <1>4, <2>1 DEF F!sys_dup2
  <2>3. /\ InOrder(filp', close_on_exec', f_count', refs', HalvesOf(doing)) /\ OthersKeep(filp, filp', t)
    BY <1>2, <2>2, ClosedKeeps
  <2>4. c \in Doings /\ c.pc = "dup2"
    BY <2>1 DEF Doings
  <2>5. QED
    BY <1>2, <2>2, <2>3, <2>4, PlainStep
<1>5. QED
  BY <1>3, <1>4

\* dup(), and the second half of dup2().
LEMMA DupKeeps ==
    ASSUME FilesInv, NEW t \in Tasks, NEW fd \in F!Fds, NEW d \in F!Fds,
           F!Dup(t, fd, d) \/ F!Dup2Closed(t)
    PROVE  FilesInv'
<1>1. doing \in [Tasks -> Doings] /\ doing[t].pc \in {"user", "dup2"}
  BY DEF FilesInv, FilesInvOf, F!Dup, F!Dup2Closed, F!At
<1>2. HalfOf(doing[t]) = {} /\ doing[t] \in Doings
  BY <1>1, PlacesToBe
<1>3. CASE F!Dup(t, fd, d)
  <2>1. F!dupfd(t, fd, d) /\ doing' = [doing EXCEPT ![t] = doing[t]]
    BY <1>1, <1>3 DEF F!Dup
  <2>2. /\ InOrder(filp', close_on_exec', f_count', refs', HalvesOf(doing)) /\ OthersKeep(filp, filp', t)
    BY <1>2, <2>1, DupfdKeeps
  <2>3. QED
    BY <1>1, <1>2, <2>1, <2>2, PlainStep
<1>4. CASE F!Dup2Closed(t)
  <2>1. F!dupfd(t, doing[t].fd, doing[t].other) /\ doing' = [doing EXCEPT ![t] = F!AtUser]
    BY <1>4 DEF F!Dup2Closed, F!Return
  <2>2. doing[t].fd \in F!Fds /\ doing[t].other \in F!Fds
    BY <1>2 DEF Doings
  <2>3. /\ InOrder(filp', close_on_exec', f_count', refs', HalvesOf(doing)) /\ OthersKeep(filp, filp', t)
    BY <1>2, <2>1, <2>2, DupfdKeeps
  <2>4. QED
    BY <1>2, <2>1, <2>3, PlainStep, PlacesToBe
<1>5. QED
  BY <1>3, <1>4

\* F_SETFD.
LEMMA SetKeeps ==
    ASSUME FilesInv, NEW t \in Tasks, NEW fd \in F!Fds, F!SetCloseOnExec(t, fd) PROVE FilesInv'
<1>1. /\ doing \in [Tasks -> Doings] /\ doing[t].pc = "user"
      /\ InOrder(filp, close_on_exec, f_count, refs, HalvesOf(doing))
  BY DEF FilesInv, FilesInvOf, F!SetCloseOnExec, F!At
<1>2. /\ filp[t][fd] # F!NULL
      /\ filp' = filp /\ f_count' = f_count /\ refs' = refs /\ doing' = [doing EXCEPT ![t] = doing[t]]
  BY <1>1 DEF F!SetCloseOnExec
<1>3. HalfOf(doing[t]) = {} /\ doing[t] \in Doings /\ fd \notin HalvesOf(doing)[t]
  BY <1>1, PlacesToBe DEF HalvesOf
<1>4. PICK s \in {close_on_exec[t] \cup {fd}, close_on_exec[t] \ {fd}} :
           close_on_exec' = [close_on_exec EXCEPT ![t] = s]
  BY DEF F!SetCloseOnExec
<1>5. InOrder(filp, close_on_exec', f_count, refs, HalvesOf(doing))
  <2>1. close_on_exec \in Marks /\ s \in SUBSET F!Fds
    BY <1>1, <1>4 DEF InOrder, Marks
  <2>2. MarkTo(close_on_exec, close_on_exec', t, s)
    BY <1>4, <2>1, SetToIs
  <2>3. CASE s = close_on_exec[t] \cup {fd}
    BY <1>1, <1>2, <1>3, <2>2, <2>3, MarkOne
  <2>4. CASE s = close_on_exec[t] \ {fd}
    BY <1>1, <2>2, <2>4, UnmarkOne DEF Without
  <2>5. QED
    BY <1>4, <2>3, <2>4
<1>6. OthersKeep(filp, filp', t)
  BY <1>2 DEF OthersKeep
<1>7. QED
  BY <1>1, <1>2, <1>3, <1>5, <1>6, PlainStep

\* execve() and exit() begin.
LEMMA BeginKeeps ==
    ASSUME FilesInv, NEW t \in Tasks, NEW call \in {"exec", "exit"}, F!Begin(t, call) PROVE FilesInv'
<1>1. /\ doing \in [Tasks -> Doings] /\ doing[t].pc = "user"
      /\ InOrder(filp, close_on_exec, f_count, refs, HalvesOf(doing))
  BY DEF FilesInv, FilesInvOf, F!Begin, F!At
<1>2. PICK c : c = [doing[t] EXCEPT !.pc = call]
  OBVIOUS
<1>3. /\ filp' = filp /\ close_on_exec' = close_on_exec /\ f_count' = f_count /\ refs' = refs
      /\ doing' = [doing EXCEPT ![t] = c]
  BY <1>2 DEF F!Begin
<1>4. HalfOf(doing[t]) = {} /\ c \in Doings /\ c.pc = call
  <2>1. doing[t] \in Doings
    BY <1>1
  <2>2. HalfOf(doing[t]) = {}
    BY <1>1, <2>1, PlacesToBe
  <2>3. c.pc = call /\ c \in Doings
    BY <1>2, <2>1 DEF Doings
  <2>4. QED
    BY <2>2, <2>3
<1>5. OthersKeep(filp, filp', t)
  BY <1>3 DEF OthersKeep
<1>6. QED
  BY <1>1, <1>3, <1>4, <1>5, PlainStep

\* execve() closes what is marked.
LEMMA ExecKeeps ==
    ASSUME FilesInv, NEW t \in Tasks, F!ExecCloses(t) PROVE FilesInv'
<1>1. /\ doing \in [Tasks -> Doings] /\ doing[t].pc = "exec" /\ doing[t] \in Doings
      /\ InOrder(filp, close_on_exec, f_count, refs, HalvesOf(doing))
  BY DEF FilesInv, FilesInvOf, F!ExecCloses, F!At
<1>2. HalfOf(doing[t]) = {}
  BY <1>1, PlacesToBe
<1>3. CASE close_on_exec[t] # {}
  <2>1. PICK fd : fd = F!Min(close_on_exec[t])
    OBVIOUS
  <2>2. F!Closed(t, fd) /\ doing' = [doing EXCEPT ![t] = doing[t]]
    BY <1>1, <1>3, <2>1 DEF F!ExecCloses
  <2>3. fd \in F!Fds
    <3>1. close_on_exec[t] \subseteq F!Fds
      BY <1>1 DEF InOrder, Marks
    <3>2. fd \in close_on_exec[t]
      BY <1>3, <2>1, <3>1, LeastIs, FileSetsAre
    <3>3. QED
      BY <3>1, <3>2
  <2>4. /\ InOrder(filp', close_on_exec', f_count', refs', HalvesOf(doing)) /\ OthersKeep(filp, filp', t)
    BY <1>2, <2>2, <2>3, ClosedKeeps
  <2>5. QED
    BY <1>1, <1>2, <2>2, <2>4, PlainStep
<1>4. CASE close_on_exec[t] = {}
  <2>1. /\ filp' = filp /\ close_on_exec' = close_on_exec /\ f_count' = f_count /\ refs' = refs
        /\ doing' = [doing EXCEPT ![t] = F!AtUser]
    BY <1>4 DEF F!ExecCloses, F!Return
  <2>2. OthersKeep(filp, filp', t)
    BY <2>1 DEF OthersKeep
  <2>3. QED
    BY <1>1, <1>2, <2>1, <2>2, PlainStep, PlacesToBe
<1>5. QED
  BY <1>3, <1>4

\* exit() closes what is open.
LEMMA ExitKeeps ==
    ASSUME FilesInv, NEW t \in Tasks, F!ExitCloses(t) PROVE FilesInv'
<1>1. /\ doing \in [Tasks -> Doings] /\ doing[t].pc = "exit" /\ doing[t] \in Doings
      /\ InOrder(filp, close_on_exec, f_count, refs, HalvesOf(doing))
  BY DEF FilesInv, FilesInvOf, F!ExitCloses, F!At
<1>2. HalfOf(doing[t]) = {}
  BY <1>1, PlacesToBe
<1>3. CASE F!FreeFds(t) # F!Fds
  <2>1. PICK fd : fd = F!Min(F!Fds \ F!FreeFds(t))
    OBVIOUS
  <2>2. F!Closed(t, fd) /\ doing' = [doing EXCEPT ![t] = doing[t]]
    BY <1>1, <1>3, <2>1 DEF F!ExitCloses
  <2>3. fd \in F!Fds
    <3>1. F!Fds \ F!FreeFds(t) \subseteq Nat /\ F!Fds \ F!FreeFds(t) # {}
      BY <1>3, FileSetsAre DEF F!FreeFds
    <3>2. fd \in F!Fds \ F!FreeFds(t)
      BY <2>1, <3>1, LeastIs
    <3>3. QED
      BY <3>2
  <2>4. /\ InOrder(filp', close_on_exec', f_count', refs', HalvesOf(doing)) /\ OthersKeep(filp, filp', t)
    BY <1>2, <2>2, <2>3, ClosedKeeps
  <2>5. QED
    BY <1>1, <1>2, <2>2, <2>4, PlainStep
<1>4. CASE F!FreeFds(t) = F!Fds
  <2>1. /\ filp' = filp /\ close_on_exec' = close_on_exec /\ f_count' = f_count /\ refs' = refs
        /\ doing' = [doing EXCEPT ![t] = F!Ended]
    BY <1>4 DEF F!ExitCloses
  <2>2. OthersKeep(filp, filp', t)
    BY <2>1 DEF OthersKeep
  <2>3. \A d \in F!Fds : filp'[t][d] = F!NULL
    BY <1>4, <2>1 DEF F!FreeFds
  <2>4. F!Ended \in Doings /\ F!Ended.pc \notin {"open", "pipe"}
    BY PlacesToBe
  <2>5. QED
    BY <1>1, <1>2, <2>1, <2>2, <2>3, <2>4, PlainStep
<1>5. QED
  BY <1>3, <1>4

\* fork() gives a task that has ended the descriptors of its father.
LEMMA ForkKeeps ==
    ASSUME FilesInv, NEW t \in Tasks, NEW u \in Tasks, F!Fork(t, u) PROVE FilesInv'
<1>1. /\ doing \in [Tasks -> Doings] /\ doing[t].pc = "user" /\ doing[u].pc = "ended" /\ t # u
      /\ InOrder(filp, close_on_exec, f_count, refs, HalvesOf(doing))
      /\ \A d \in F!Fds : filp[u][d] = F!NULL
  BY DEF FilesInv, FilesInvOf, F!Fork, F!At
<1>2. /\ filp \in Filps /\ f_count \in [F!Slots -> Nat] /\ close_on_exec \in Marks
      /\ HalfOf(doing[t]) = {} /\ HalfOf(doing[u]) = {}
  BY <1>1, PlacesToBe DEF InOrder
<1>3. /\ filp' = [filp EXCEPT ![u] = filp[t]] /\ close_on_exec' = [close_on_exec EXCEPT ![u] = close_on_exec[t]]
      /\ f_count' = [f \in F!Slots |-> f_count[f] + F!Cardinality({fd \in F!Fds : filp[t][fd] = f})]
      /\ doing' = [doing EXCEPT ![u] = F!AtUser] /\ refs' = refs
  BY DEF F!Fork
<1>4. Forked(filp, filp', t, u) /\ OthersKeep(filp, filp', u)
  BY <1>2, <1>3 DEF Forked, Filps, OthersKeep
<1>5. MarkTo(close_on_exec, close_on_exec', u, close_on_exec[t])
  BY <1>2, <1>3, SetToIs DEF Marks
<1>6. f_count' \in [F!Slots -> Nat] /\ \A g \in F!Slots : f_count'[g] = f_count[g] + Cardinality(FdsOf(filp, t, g))
  <2>1. ASSUME NEW g \in F!Slots
        PROVE  F!Cardinality({fd \in F!Fds : filp[t][fd] = g}) = Cardinality(FdsOf(filp, t, g))
    BY FileSetsAre DEF FdsOf
  <2>2. ASSUME NEW g \in F!Slots PROVE Cardinality(FdsOf(filp, t, g)) \in Nat
    <3>1. FdsOf(filp, t, g) \in SUBSET F!Fds
      BY DEF FdsOf
    <3>2. QED
      BY <3>1, FileSetsAre, FS_Subset, FS_CardinalityType
  <2>3. QED
    BY <1>2, <1>3, <2>1, <2>2
<1>7. InOrder(filp', close_on_exec', f_count', refs, HalvesOf(doing))
  <2>1. HalvesOf(doing)[t] = {} /\ HalvesOf(doing)[u] = {}
    BY <1>2 DEF HalvesOf
  <2>2. QED
    BY <1>1, <1>4, <1>5, <1>6, <2>1, ForkOne
<1>8. QED
  BY <1>2, <1>3, <1>4, <1>7, PlainStep, PlacesToBe

\* What a task that is in pipe() holds.
LEMMA PipeHalf ==
    ASSUME FilesInv, NEW t \in Tasks, doing[t].pc = "pipe",
           NEW r, r = doing[t].fd, NEW w, w = doing[t].other
    PROVE  HalvesOf(doing)[t] = {r, w} /\ r # w /\ r \in F!Fds /\ w \in F!Fds /\ doing[t] \in Doings
<1>1. doing[t] \in Doings /\ r # w
  BY DEF FilesInv, FilesInvOf
<1>2. HalvesOf(doing)[t] = {r, w}
  BY DEF HalvesOf, HalfOf
<1>3. QED
  BY <1>1, <1>2 DEF Doings

\* pipe() has its page.
LEMMA PipedKeeps ==
    ASSUME FilesInv, NEW t \in Tasks, F!Piped(t) PROVE FilesInv'
<1>1. PICK half : half = HalvesOf(doing)
  OBVIOUS
<1>2. /\ InOrder(filp, close_on_exec, f_count, refs, half) /\ doing \in [Tasks -> Doings]
      /\ doing[t].pc = "pipe"
  BY <1>1 DEF FilesInv, FilesInvOf, F!Piped, F!At
<1>3. PICK r : r = doing[t].fd
  OBVIOUS
<1>4. PICK w : w = doing[t].other
  OBVIOUS
<1>5. half[t] = {r, w} /\ r # w /\ half \in Marks
  BY <1>1, <1>2, <1>3, <1>4, PipeHalf DEF InOrder
<1>6. /\ filp' = filp /\ close_on_exec' = close_on_exec /\ refs' = refs + 2
      /\ f_count' = f_count /\ doing' = [doing EXCEPT ![t] = F!AtUser]
  BY DEF F!Piped, F!Return
<1>7. PICK h : h = [half EXCEPT ![t] = {w}]
  OBVIOUS
<1>8. Without(half, h, t, r)
  <2>1. half[t] \ {r} = {w} /\ {w} \in SUBSET F!Fds
    BY <1>5 DEF Marks
  <2>2. QED
    BY <1>5, <1>7, <2>1, SetToIs DEF Without
<1>9. InOrder(filp, close_on_exec, f_count, refs + 1, h)
  <2>1. FileIs(filp, t, r, filp[t][r]) /\ r \in half[t]
    BY <1>5 DEF FileIs
  <2>2. QED
    BY <1>2, <1>8, <2>1, FinishOne
<1>10. h[t] = {w} /\ \A u \in Tasks : u # t => h[u] = half[u]
  BY <1>5, <1>7 DEF Marks
<1>11. Without(h, HalvesOf(doing'), t, w)
  <2>1. MarkTo(half, HalvesOf(doing'), t, HalfOf(F!AtUser))
    BY <1>1, <1>2, <1>6, HalvesChange, PlacesToBe
  <2>2. h[t] \ {w} = {} /\ HalfOf(F!AtUser) = {}
    BY <1>10, PlacesToBe
  <2>3. QED
    BY <1>10, <2>1, <2>2 DEF Without, MarkTo
<1>12. InOrder(filp, close_on_exec, f_count, (refs + 1) + 1, HalvesOf(doing'))
  <2>1. FileIs(filp, t, w, filp[t][w]) /\ w \in h[t]
    BY <1>10 DEF FileIs
  <2>2. QED
    BY <1>9, <1>11, <2>1, FinishOne
<1>13. (refs + 1) + 1 = refs + 2
  BY <1>2 DEF InOrder
<1>14. InOrder(filp', close_on_exec', f_count', refs', HalvesOf(doing'))
  BY <1>6, <1>12, <1>13
<1>15. OthersKeep(filp, filp', t)
  BY <1>6 DEF OthersKeep
<1>16. QED
  BY <1>6, <1>14, <1>15, PlacesToBe, StepKeeps DEF FilesInv

\* pipe() has failed: both descriptors and both slots are given back.
LEMMA NotPipedKeeps ==
    ASSUME FilesInv, NEW t \in Tasks, F!NotPiped(t) PROVE FilesInv'
<1>1. PICK half : half = HalvesOf(doing)
  OBVIOUS
<1>2. /\ InOrder(filp, close_on_exec, f_count, refs, half) /\ doing \in [Tasks -> Doings]
      /\ doing[t].pc = "pipe"
  BY <1>1 DEF FilesInv, FilesInvOf, F!NotPiped, F!At
<1>3. PICK r : r = doing[t].fd
  OBVIOUS
<1>4. PICK w : w = doing[t].other
  OBVIOUS
<1>5. half[t] = {r, w} /\ r # w /\ half \in Marks /\ r \in F!Fds /\ w \in F!Fds
  BY <1>1, <1>2, <1>3, <1>4, PipeHalf DEF InOrder
<1>6. PICK f : f = filp[t][r]
  OBVIOUS
<1>7. PICK g : g = filp[t][w]
  OBVIOUS
<1>8. /\ filp \in Filps /\ f_count \in [F!Slots -> Nat] /\ f \in F!Slots /\ g \in F!Slots
      /\ FileIs(filp, t, r, f) /\ r \in half[t]
  BY <1>2, <1>5, <1>6, <1>7 DEF InOrder, FileIs
<1>9. PICK q : q = [filp EXCEPT ![t][r] = F!NULL]
  OBVIOUS
<1>10. PICK c : c = [f_count EXCEPT ![f] = 0]
  OBVIOUS
<1>11. /\ filp' = [q EXCEPT ![t][w] = F!NULL] /\ close_on_exec' = close_on_exec /\ refs' = refs
       /\ f_count' = [c EXCEPT ![g] = 0] /\ doing' = [doing EXCEPT ![t] = F!AtUser]
  BY <1>3, <1>4, <1>6, <1>7, <1>9, <1>10 DEF F!NotPiped, F!Return
<1>12. PICK h : h = [half EXCEPT ![t] = {w}]
  OBVIOUS
<1>13. Without(half, h, t, r)
  <2>1. half[t] \ {r} = {w} /\ {w} \in SUBSET F!Fds
    BY <1>5 DEF Marks
  <2>2. QED
    BY <1>5, <1>12, <2>1, SetToIs DEF Without
<1>14. SetTo(filp, q, t, r, F!NULL) /\ CountTo(f_count, c, f, 0)
  BY <1>5, <1>8, <1>9, <1>10, SetToIs DEF MaybeFile
<1>15. InOrder(q, close_on_exec, c, refs, h)
  BY <1>2, <1>8, <1>13, <1>14, AbandonOne
<1>16. h[t] = {w} /\ \A u \in Tasks : u # t => h[u] = half[u]
  BY <1>5, <1>12 DEF Marks
<1>17. Without(h, HalvesOf(doing'), t, w)
  <2>1. MarkTo(half, HalvesOf(doing'), t, HalfOf(F!AtUser))
    BY <1>1, <1>2, <1>11, HalvesChange, PlacesToBe
  <2>2. h[t] \ {w} = {} /\ HalfOf(F!AtUser) = {}
    BY <1>16, PlacesToBe
  <2>3. QED
    BY <1>16, <2>1, <2>2 DEF Without, MarkTo
<1>18. FileIs(q, t, w, g) /\ w \in h[t]
  BY <1>5, <1>7, <1>14, <1>16 DEF FileIs, SetTo
<1>19. SetTo(q, filp', t, w, F!NULL) /\ CountTo(c, f_count', g, 0)
  <2>1. q \in Filps /\ c \in [F!Slots -> Nat]
    BY <1>14 DEF SetTo, CountTo
  <2>2. QED
    BY <1>5, <1>8, <1>11, <2>1, SetToIs DEF MaybeFile
<1>20. InOrder(filp', close_on_exec, f_count', refs, HalvesOf(doing'))
  BY <1>15, <1>17, <1>18, <1>19, AbandonOne
<1>21. OthersKeep(filp, filp', t)
  BY <1>14, <1>19 DEF SetTo, OthersKeep
<1>22. QED
  BY <1>11, <1>20, <1>21, PlacesToBe, StepKeeps DEF FilesInv

\* A set of two or more has a least element, and one that is the least of the others.
LEMMA TwoLeast ==
    ASSUME NEW T, T \subseteq Nat, IsFiniteSet(T), F!Cardinality(T) >= 2
    PROVE  F!Min(T) \in T /\ F!Min(T \ {F!Min(T)}) \in T \ {F!Min(T)}
<1>1. Cardinality(T) \in Nat /\ Cardinality(T) >= 2
  BY FileSetsAre, FS_CardinalityType
<1>2. T # {}
  <2>1. Cardinality({}) = 0
    BY FS_EmptySet
  <2>2. QED
    BY <1>1, <2>1
<1>3. PICK x : x = F!Min(T)
  OBVIOUS
<1>4. x \in T
  BY <1>2, <1>3, LeastIs
<1>5. T \ {x} # {}
  <2>1. Cardinality(T \ {x}) = Cardinality(T) - 1
    BY <1>4, FS_RemoveElement
  <2>2. Cardinality({}) = 0
    BY FS_EmptySet
  <2>3. QED
    BY <1>1, <2>1, <2>2
<1>6. F!Min(T \ {x}) \in T \ {x}
  BY <1>5, LeastIs
<1>7. QED
  BY <1>3, <1>4, <1>6

\* pipe() takes two descriptors and two slots.
LEMMA PipeKeeps ==
    ASSUME FilesInv, NEW t \in Tasks, F!sys_pipe(t) PROVE FilesInv'
<1>1. PICK half : half = HalvesOf(doing)
  OBVIOUS
<1>2. /\ InOrder(filp, close_on_exec, f_count, refs, half) /\ doing \in [Tasks -> Doings]
      /\ doing[t].pc = "user"
  BY <1>1 DEF FilesInv, FilesInvOf, F!sys_pipe, F!At
<1>3. filp \in Filps /\ f_count \in [F!Slots -> Nat] /\ half \in Marks /\ half[t] = {}
  <2>1. filp \in Filps /\ f_count \in [F!Slots -> Nat] /\ half \in Marks
    BY <1>2 DEF InOrder
  <2>2. half[t] = HalfOf(doing[t]) /\ doing[t] \in Doings
    BY <1>1, <1>2 DEF HalvesOf
  <2>3. QED
    BY <1>2, <2>1, <2>2, PlacesToBe
<1>4. PICK r : r = F!Min(F!FreeFds(t))
  OBVIOUS
<1>5. PICK w : w = F!Min(F!FreeFds(t) \ {r})
  OBVIOUS
<1>6. PICK f : f = F!Min(F!FreeSlots)
  OBVIOUS
<1>7. PICK g : g = F!Min(F!FreeSlots \ {f})
  OBVIOUS
<1>8. r \in F!Fds /\ w \in F!Fds /\ r # w /\ filp[t][r] = F!NULL /\ filp[t][w] = F!NULL
  <2>1. F!FreeFds(t) \in SUBSET F!Fds /\ F!Cardinality(F!FreeFds(t)) >= 2
    BY DEF F!FreeFds, F!sys_pipe
  <2>2. IsFiniteSet(F!FreeFds(t)) /\ F!FreeFds(t) \subseteq Nat
    BY <2>1, FileSetsAre, FS_Subset
  <2>3. r \in F!FreeFds(t) /\ w \in F!FreeFds(t) \ {r}
    BY <1>4, <1>5, <2>1, <2>2, TwoLeast
  <2>4. QED
    BY <2>3 DEF F!FreeFds
<1>9. f \in F!Slots /\ g \in F!Slots /\ f # g /\ f_count[f] = 0 /\ f_count[g] = 0
  <2>1. F!FreeSlots \in SUBSET F!Slots /\ F!Cardinality(F!FreeSlots) >= 2
    BY DEF F!FreeSlots, F!sys_pipe
  <2>2. IsFiniteSet(F!FreeSlots) /\ F!FreeSlots \subseteq Nat
    BY <2>1, FileSetsAre, FS_Subset
  <2>3. f \in F!FreeSlots /\ g \in F!FreeSlots \ {f}
    BY <1>6, <1>7, <2>1, <2>2, TwoLeast
  <2>4. QED
    BY <2>3 DEF F!FreeSlots
<1>10. PICK q : q = [filp EXCEPT ![t][r] = f]
  OBVIOUS
<1>11. PICK c : c = [f_count EXCEPT ![f] = 1]
  OBVIOUS
<1>12. PICK d : d = [pc |-> "pipe", fd |-> r, other |-> w]
  OBVIOUS
<1>13. /\ filp' = [q EXCEPT ![t][w] = g] /\ f_count' = [c EXCEPT ![g] = 1]
       /\ doing' = [doing EXCEPT ![t] = d] /\ close_on_exec' = close_on_exec /\ refs' = refs
  BY <1>4, <1>5, <1>6, <1>7, <1>10, <1>11, <1>12 DEF F!sys_pipe
<1>14. d \in Doings /\ d.pc = "pipe" /\ d.fd # d.other /\ HalfOf(d) = {r, w}
  BY <1>8, <1>12 DEF Doings, HalfOf
<1>15. PICK h : h = [half EXCEPT ![t] = {r}]
  OBVIOUS
<1>16. MarkTo(half, h, t, half[t] \cup {r})
  <2>1. half[t] \cup {r} = {r} /\ {r} \in SUBSET F!Fds
    BY <1>3, <1>8
  <2>2. QED
    BY <1>3, <1>15, <2>1, SetToIs
<1>17. SetTo(filp, q, t, r, f) /\ CountTo(f_count, c, f, 1)
  BY <1>3, <1>8, <1>9, <1>10, <1>11, SetToIs DEF MaybeFile
<1>18. InOrder(q, close_on_exec, c, refs, h)
  BY <1>2, <1>8, <1>9, <1>16, <1>17, TakeOne
<1>19. /\ q \in Filps /\ c \in [F!Slots -> Nat] /\ q[t][w] = F!NULL /\ c[g] = 0
       /\ h[t] = {r} /\ \A u \in Tasks : u # t => h[u] = half[u]
  BY <1>3, <1>8, <1>9, <1>15, <1>17 DEF SetTo, CountTo, Marks
<1>20. MarkTo(h, HalvesOf(doing'), t, h[t] \cup {w})
  <2>1. MarkTo(half, HalvesOf(doing'), t, HalfOf(d))
    BY <1>1, <1>2, <1>13, <1>14, HalvesChange
  <2>2. h[t] \cup {w} = HalfOf(d)
    BY <1>14, <1>19
  <2>3. QED
    BY <1>19, <2>1, <2>2 DEF MarkTo
<1>21. SetTo(q, filp', t, w, g) /\ CountTo(c, f_count', g, 1)
  BY <1>8, <1>9, <1>13, <1>19, SetToIs DEF MaybeFile
<1>22. InOrder(filp', close_on_exec, f_count', refs, HalvesOf(doing'))
  BY <1>8, <1>9, <1>18, <1>19, <1>20, <1>21, TakeOne
<1>23. OthersKeep(filp, filp', t)
  BY <1>17, <1>21 DEF SetTo, OthersKeep
<1>24. QED
  BY <1>13, <1>14, <1>22, <1>23, StepKeeps DEF FilesInv

-----------------------------------------------------------------------------
(* The invariant. *)

\* The slots of the model that are taken and not finished are those of the half taken descriptors.
LEMMA UnfinishedAre ==
    ASSUME FilesInv
    PROVE  /\ F!Unfinished = HalfFiles(filp, HalvesOf(doing))
           /\ \A f \in F!Unfinished : f \in F!Slots /\ F!Cardinality(F!Places(f)) = 1
<1>1. PICK half : half = HalvesOf(doing)
  OBVIOUS
<1>2. doing \in [Tasks -> Doings] /\ InOrder(filp, close_on_exec, f_count, refs, half)
  BY <1>1 DEF FilesInv, FilesInvOf
<1>3. \A t \in Tasks : half[t] = HalfOf(doing[t])
  BY <1>1 DEF HalvesOf
<1>4. \A t \in Tasks : \A fd \in half[t] : filp[t][fd] \in F!Slots /\ PlacesOf(filp, filp[t][fd]) = {<<t, fd>>}
  BY <1>2 DEF InOrder
<1>5. \A f : f \in F!Unfinished <=> \E t \in Tasks : \E fd \in half[t] : filp[t][fd] = f
  <2>1. ASSUME NEW f PROVE f \in F!Unfinished <=>
                \E t \in Tasks : \/ doing[t].pc \in {"open", "pipe"} /\ f = filp[t][doing[t].fd]
                                 \/ doing[t].pc = "pipe" /\ f = filp[t][doing[t].other]
    BY DEF F!Unfinished, F!At
  <2>2. ASSUME NEW f, NEW t \in Tasks
        PROVE  (\E fd \in half[t] : filp[t][fd] = f) <=>
                 \/ doing[t].pc \in {"open", "pipe"} /\ f = filp[t][doing[t].fd]
                 \/ doing[t].pc = "pipe" /\ f = filp[t][doing[t].other]
    BY <1>3 DEF HalfOf
  <2>3. QED
    BY <2>1, <2>2
<1>6. F!Unfinished = HalfFiles(filp, half)
  BY <1>4, <1>5 DEF HalfFiles
<1>7. ASSUME NEW f \in F!Unfinished PROVE f \in F!Slots /\ F!Cardinality(F!Places(f)) = 1
  <2>1. PICK t \in Tasks : \E fd \in half[t] : filp[t][fd] = f
    BY <1>5
  <2>2. PICK fd \in half[t] : filp[t][fd] = f
    BY <2>1
  <2>3. f \in F!Slots /\ PlacesOf(filp, f) = {<<t, fd>>}
    BY <1>4, <2>2
  <2>4. F!Places(f) = {<<t, fd>>}
    BY <2>3 DEF F!Places, PlacesOf
  <2>5. Cardinality({<<t, fd>>}) = 1
    BY FS_Singleton
  <2>6. QED
    BY <2>3, <2>4, <2>5, FileSetsAre
<1>8. QED
  BY <1>1, <1>6, <1>7

\* The inductive invariant is at least what should hold of the table.
LEMMA FilesInvImplies ==
    ASSUME FilesInv PROVE F!FilesConsistent
<1>1. /\ doing \in [Tasks -> Doings] /\ InOrder(filp, close_on_exec, f_count, refs, HalvesOf(doing))
      /\ \A t \in Tasks : doing[t].pc = "ended" => \A fd \in F!Fds : filp[t][fd] = F!NULL
  BY DEF FilesInv, FilesInvOf
<1>2. /\ filp \in Filps /\ close_on_exec \in Marks /\ f_count \in [F!Slots -> Nat] /\ refs \in Nat
      /\ \A f \in F!Slots : f_count[f] = Cardinality(PlacesOf(filp, f))
      /\ \A t \in Tasks : \A fd \in close_on_exec[t] : filp[t][fd] # F!NULL
      /\ refs = Cardinality(Whole(filp, f_count, HalvesOf(doing)))
  BY <1>1 DEF InOrder
<1>3. F!TableTypeOK
  <2>1. f_count \in [F!Slots -> 0 .. F!Cardinality(Tasks) * NR_OPEN]
    <3>1. ASSUME NEW f \in F!Slots PROVE f_count[f] \in 0 .. F!Cardinality(Tasks) * NR_OPEN
      <4>1. Cardinality(PlacesOf(filp, f)) \in 0 .. Cardinality(Tasks) * NR_OPEN
        BY PlacesFinite
      <4>2. F!Cardinality(Tasks) = Cardinality(Tasks)
        BY FileSetsAre
      <4>3. QED
        BY <1>2, <4>1, <4>2
    <3>2. QED
      BY <1>2, <3>1
  <2>2. refs \in 0 .. NR_FILE
    BY <1>2, WholeFinite
  <2>3. \A t \in Tasks : /\ doing[t].pc \in {"user", "open", "pipe", "dup2", "exec", "exit", "ended"}
                         /\ doing[t].fd \in F!Fds /\ doing[t].other \in F!Fds
    BY <1>1 DEF Doings
  <2>4. filp \in [Tasks -> [F!Fds -> F!Slots \cup {F!NULL}]] /\ close_on_exec \in [Tasks -> SUBSET F!Fds]
    BY <1>2 DEF Filps, Marks, MaybeFile
  <2>5. QED
    BY <2>1, <2>2, <2>3, <2>4 DEF F!TableTypeOK
<1>4. F!CountsAreDescriptors
  <2>1. \A f \in F!Slots : f_count[f] = F!Cardinality(F!Places(f))
    <3>1. ASSUME NEW f \in F!Slots PROVE f_count[f] = F!Cardinality(F!Places(f))
      <4>1. F!Places(f) = PlacesOf(filp, f)
        BY DEF F!Places, PlacesOf
      <4>2. F!Cardinality(PlacesOf(filp, f)) = Cardinality(PlacesOf(filp, f))
        BY FileSetsAre
      <4>3. QED
        BY <1>2, <4>1, <4>2
    <3>2. QED
      BY <3>1
  <2>2. \A f \in F!Unfinished : F!Cardinality(F!Places(f)) = 1
    BY UnfinishedAre
  <2>3. refs = F!Cardinality({f \in F!Slots : f_count[f] > 0} \ F!Unfinished)
    <3>1. {f \in F!Slots : f_count[f] > 0} \ F!Unfinished = Whole(filp, f_count, HalvesOf(doing))
      <4>1. F!Unfinished = HalfFiles(filp, HalvesOf(doing))
        BY UnfinishedAre
      <4>2. \A f \in F!Slots : f_count[f] > 0 <=> f_count[f] # 0
        BY <1>2
      <4>3. QED
        BY <4>1, <4>2 DEF Whole
    <3>2. F!Cardinality(Whole(filp, f_count, HalvesOf(doing))) = Cardinality(Whole(filp, f_count, HalvesOf(doing)))
      BY FileSetsAre
    <3>3. QED
      BY <1>2, <3>1, <3>2
  <2>4. QED
    BY <2>1, <2>2, <2>3 DEF F!CountsAreDescriptors
<1>5. F!MarksAreOpen
  BY <1>2 DEF F!MarksAreOpen, F!FreeFds, Marks
<1>6. F!EndedHasNone
  BY <1>1 DEF F!EndedHasNone, F!FreeFds, F!At
<1>7. QED
  BY <1>3, <1>4, <1>5, <1>6 DEF F!FilesConsistent

\* The table is in order at the start.
LEMMA FilesInit ==
    ASSUME F!TableInit PROVE FilesInv
<1>1. /\ filp = [t \in Tasks |-> [fd \in F!Fds |-> F!NULL]] /\ close_on_exec = [t \in Tasks |-> {}]
      /\ f_count = [f \in F!Slots |-> 0] /\ refs = 0 /\ doing = [t \in Tasks |-> F!AtUser]
  BY DEF F!TableInit
<1>2. HalvesOf(doing) = [t \in Tasks |-> {}]
  BY <1>1, PlacesToBe DEF HalvesOf
<1>3. \A f \in F!Slots : Cardinality(PlacesOf(filp, f)) = 0
  <2>1. \A f \in F!Slots : PlacesOf(filp, f) = {}
    BY <1>1, FileSetsAre DEF PlacesOf
  <2>2. QED
    BY <2>1, FS_EmptySet
<1>4. Cardinality(Whole(filp, f_count, HalvesOf(doing))) = 0
  <2>1. Whole(filp, f_count, HalvesOf(doing)) = {}
    BY <1>1 DEF Whole
  <2>2. QED
    BY <2>1, FS_EmptySet
<1>5. filp \in Filps /\ close_on_exec \in Marks /\ f_count \in [F!Slots -> Nat] /\ HalvesOf(doing) \in Marks
  BY <1>1, <1>2 DEF Filps, Marks, MaybeFile
<1>6. InOrder(filp, close_on_exec, f_count, refs, HalvesOf(doing))
  BY <1>1, <1>2, <1>3, <1>4, <1>5 DEF InOrder
<1>7. doing \in [Tasks -> Doings] /\ \A t \in Tasks : doing[t].pc = "user"
  BY <1>1, PlacesToBe
<1>8. QED
  BY <1>6, <1>7 DEF FilesInv, FilesInvOf

\* Every step of every call keeps the table in order.
LEMMA FilesNext ==
    ASSUME FilesInv, F!TableNext PROVE FilesInv'
<1>1. PICK t \in Tasks :
        \/ F!sys_open(t) \/ F!Opened(t) \/ F!NotOpened(t) \/ F!sys_getcwd(t)
        \/ \E fd, d \in F!Fds : F!sys_close(t, fd) \/ F!Dup(t, fd, d) \/ F!sys_dup2(t, fd, d) \/ F!SetCloseOnExec(t, fd)
        \/ F!Dup2Closed(t) \/ F!sys_pipe(t) \/ F!Piped(t) \/ F!NotPiped(t)
        \/ \E u \in Tasks : F!Fork(t, u)
        \/ F!Begin(t, "exec") \/ F!Begin(t, "exit") \/ F!ExecCloses(t) \/ F!ExitCloses(t)
  BY DEF F!TableNext
<1>2. CASE F!sys_open(t) \/ F!sys_getcwd(t)
  BY <1>2, OpenKeeps DEF F!sys_getcwd
<1>3. CASE F!Opened(t)
  BY <1>3, OpenedKeeps
<1>4. CASE F!NotOpened(t)
  BY <1>4, NotOpenedKeeps
<1>5. ASSUME NEW fd \in F!Fds, NEW d \in F!Fds, F!sys_close(t, fd) \/ F!sys_dup2(t, fd, d) PROVE FilesInv'
  BY <1>5, CloseKeeps
<1>6. ASSUME NEW fd \in F!Fds, NEW d \in F!Fds, F!Dup(t, fd, d) \/ F!Dup2Closed(t) PROVE FilesInv'
  BY <1>6, DupKeeps
<1>7. ASSUME NEW fd \in F!Fds, F!SetCloseOnExec(t, fd) PROVE FilesInv'
  BY <1>7, SetKeeps
<1>8. CASE F!Dup2Closed(t)
  BY <1>6, <1>8, FileSetsAre
<1>9. CASE F!sys_pipe(t)
  BY <1>9, PipeKeeps
<1>10. CASE F!Piped(t)
  BY <1>10, PipedKeeps
<1>11. CASE F!NotPiped(t)
  BY <1>11, NotPipedKeeps
<1>12. ASSUME NEW u \in Tasks, F!Fork(t, u) PROVE FilesInv'
  BY <1>12, ForkKeeps
<1>13. CASE F!Begin(t, "exec") \/ F!Begin(t, "exit")
  BY <1>13, BeginKeeps
<1>14. CASE F!ExecCloses(t)
  BY <1>14, ExecKeeps
<1>15. CASE F!ExitCloses(t)
  BY <1>15, ExitKeeps
<1>16. QED
  BY <1>1, <1>2, <1>3, <1>4, <1>5, <1>6, <1>7, <1>8, <1>9, <1>10, <1>11, <1>12, <1>13, <1>14, <1>15

\* The inductive invariant.
THEOREM FilesInvariant == F!TableSpec => []FilesInv
<1>1. F!TableInit => FilesInv
  BY FilesInit
<1>2. FilesInv /\ [F!TableNext]_(F!tableVars) => FilesInv'
  <2>1. CASE UNCHANGED F!tableVars
    BY <2>1 DEF F!tableVars, FilesInv
  <2>2. QED
    BY <2>1, FilesNext
<1>3. QED
  BY <1>1, <1>2, PTL DEF F!TableSpec

\* For every number of tasks, descriptors and slots: a file is counted once for each descriptor of
\* whichever task, a slot half taken has one, the references to inodes are the files that are whole,
\* marked descriptors are open, and a task that has ended has none. The conjunct that the run checks
\* says so of the runs of the file table.
THEOREM FilesAreConsistent == F!TableSpec => [](F!FilesConsistent /\ FilesConsistent)
<1>1. FilesInv => F!FilesConsistent /\ FilesConsistent
  BY FilesInvImplies DEF FilesConsistent
<1>2. QED
  BY <1>1, FilesInvariant, PTL

-----------------------------------------------------------------------------
(* The tree and the counts: the invariant. *)
MaybeIno  == Inos \cup {None}
EntryRecs == [name : STRING \cup {""}, ino : MaybeIno]
InodeRecs == [type : {Free, "REG", "DIR"}, nlinks : Nat, count : Nat, up : MaybeIno,
              entries : [Positions -> EntryRecs]]
TaskRecs  == [pc : Pcs, op : Calls, path : Seq(STRING), to : Seq(STRING),
              dir : MaybeIno, ino : MaybeIno, pos : Positions \cup {None}, old : MaybeIno]

TreeTyped(f, k, w) == f \in [Inos -> InodeRecs] /\ k \in [Tasks -> TaskRecs] /\ w \in [Tasks -> Inos]

NamingOf(f, n)  == {e \in {i \in Inos : f[i].type = "DIR"} \X Positions : f[e[1]].entries[e[2]].ino = n}
SubdirsOf(f, n) == {p \in Positions : f[n].entries[p].ino # None /\ f[f[n].entries[p].ino].type = "DIR"}
MakingOf(k, n)    == {t \in Tasks : k[t].pc \in {"add", "panic"} /\ k[t].ino = n}
UncountedOf(k, n) == {t \in Tasks : k[t].pc = "linked" /\ k[t].old = n}

DirOf(k, n)  == {t \in Tasks : k[t].dir = n}
OldOf(k, n)  == {t \in Tasks : k[t].old = n}
FileOf(k, n) == {t \in Tasks : k[t].ino = n /\ ~(k[t].pc = "iget")}
PwdOf(w, n)  == {t \in Tasks : w[t] = n}
HoldersOf(k, w, n) ==
    Cardinality(DirOf(k, n)) + Cardinality(OldOf(k, n)) + Cardinality(FileOf(k, n)) + Cardinality(PwdOf(w, n))
    + IF n = Root THEN RootHeld ELSE 0

\* How often a task holds an inode.
Same(x, y) == IF x = y THEN 1 ELSE 0
In(x, T)   == IF x \in T THEN 1 ELSE 0
Own(r, n)  == Same(r.dir, n) + Same(r.old, n) + IF r.pc = "iget" THEN 0 ELSE Same(r.ino, n)

\* i_count is the number of the holders, and of those that are still to let go: of a and of b.
CountsOf(f, k, w, a, b) ==
    \A n \in Inos : f[n].count = HoldersOf(k, w, n) + Same(n, a) + Same(n, b)

\* An inode that is not in use is as it was at first, and one that nobody names or holds is not in
\* use; a directory is named where its ".." is, and the root nowhere.
Bare(f, n) == \A p \in Positions : f[n].entries[p].ino = None
ShapeOf(f) ==
    /\ f[Root].type = "DIR" /\ f[Root].nlinks # 0 /\ f[Root].up = Root /\ NamingOf(f, Root) = {}
    /\ \A n \in Inos :
          /\ f[n].type = Free => f[n] = Unused
          /\ f[n].type = "DIR" => f[n].up # None /\ \A e \in NamingOf(f, n) : e[1] = f[n].up
          /\ f[n].nlinks = 0 /\ f[n].count = 0 => f[n].type = Free

\* The links of one inode: "." and ".." too, and a new inode has one that it is still to be named by.
LinkAt(f, k, n) ==
    /\ f[n].type = "REG" =>
          f[n].nlinks + Cardinality(UncountedOf(k, n)) = Cardinality(NamingOf(f, n)) + Cardinality(MakingOf(k, n))
    /\ f[n].type = "DIR" =>
          IF f[n].nlinks = 0 THEN NamingOf(f, n) = {} /\ Bare(f, n)
          ELSE /\ f[n].nlinks = 2 + Cardinality(SubdirsOf(f, n))
               /\ n # Root => Cardinality(NamingOf(f, n)) + Cardinality(MakingOf(k, n)) = 1
    /\ f[n].type = Free => NamingOf(f, n) = {}

LinksOf(f, k) == \A n \in Inos : LinkAt(f, k, n)

\* What a task holds at each place.
PlaceOf(r) ==
    /\ r.op = "link" <=> r.to # <<>>
    /\ r.to # <<>> => Rest(r.to) # <<>>
    /\ r.pc = "user"   => r.dir = None /\ r.ino = None /\ r.old = None
    /\ r.pc = "find"   => r.dir # None /\ r.ino = None /\ r.path # <<>> /\ (r.old # None => r.op = "link")
    /\ r.pc = "iget"   => /\ r.ino # None /\ (r.old # None => r.op = "link" /\ r.path # <<>>)
                          /\ r.dir # None => r.op \in {"unlink", "rmdir"} /\ r.path = <<>>
    /\ r.pc = "open"   => r.dir = None /\ r.old = None /\ r.ino # None
    /\ r.pc = "new"    => r.dir # None /\ r.ino = None /\ r.old = None /\ r.op \in {"creat", "mknod", "mkdir"} /\ r.path # <<>>
    /\ r.pc = "add"    => /\ r.dir # None /\ r.op \in {"creat", "mknod", "mkdir", "link"} /\ r.path # <<>>
                          /\ IF r.op = "link" THEN r.ino = None /\ r.old # None ELSE r.ino # None /\ r.old = None
    /\ r.pc = "linked" => r.op = "link" /\ r.dir = None /\ r.ino = None /\ r.old # None
    /\ r.pc = "rmdir"  => r.op = "rmdir" /\ r.dir # None /\ r.ino # None /\ r.old = None /\ r.ino # r.dir
    /\ r.pc = "panic"  => r.op = "mkdir" /\ r.dir # None /\ r.ino # None /\ r.old = None

\* The inodes that it holds are what they were when it came by them; a name that is to be removed and
\* is not an entry is "." or "..".
HoldsOf(f, r) ==
    /\ r.dir # None => f[r.dir].type = "DIR"
    /\ r.old # None => f[r.old].type = "REG"
    /\ r.pc = "rmdir" => f[r.ino].type = "DIR"
    /\ r.pc \in {"iget", "rmdir"} /\ r.dir # None /\ r.pos = None => r.ino = r.dir \/ r.ino = f[r.dir].up

\* A new inode, and that nobody else can have come by it.
IsMaking(r) == r.pc \in {"add", "panic"} /\ r.ino # None
NewInode(f, r) ==
    IsMaking(r) =>
       /\ NamingOf(f, r.ino) = {} /\ Bare(f, r.ino) /\ f[r.ino].count = 1 /\ f[r.ino].up = r.dir
       /\ IF r.op = "mkdir" THEN f[r.ino].type = "DIR" /\ f[r.ino].nlinks = 2
          ELSE f[r.ino].type = "REG" /\ f[r.ino].nlinks = 1
Unreached(k) == \A t, u \in Tasks : IsMaking(k[t]) /\ k[u].pc = "iget" => k[u].ino # k[t].ino

TasksOf(f, k, w) ==
    /\ \A t \in Tasks : PlaceOf(k[t]) /\ HoldsOf(f, k[t]) /\ NewInode(f, k[t]) /\ f[w[t]].type = "DIR"
    /\ Unreached(k)

TreeInvOf(f, k, w, a, b) ==
    /\ TreeTyped(f, k, w)
    /\ CountsOf(f, k, w, a, b)
    /\ ShapeOf(f)
    /\ LinksOf(f, k)
    /\ TasksOf(f, k, w)

TreeInv == TreeInvOf(ino, task, pwd, None, None)

-----------------------------------------------------------------------------
(* Sets and numbers. *)

\* A set of numbers that is not empty has a least one.
LEMMA LeastOf ==
    ASSUME NEW T, T \subseteq Nat, T # {}
    PROVE  Min(T) \in T
<1> DEFINE R == OpToRel(<, Nat)
<1>1. IsWellFoundedOn(R, Nat)
  BY NatLessThanWellFounded
<1>2. PICK x \in T : \A y \in T : ~(<<y, x>> \in R)
  BY <1>1, WFMin
<1>3. \A y \in T : ~(y < x)
  BY <1>2 DEF OpToRel
<1>4. \A y \in T : x <= y
  BY <1>3
<1>5. QED
  BY <1>4 DEF Min

\* A finite set of numbers has a greatest one: that with the fewest greater ones.
LEMMA GreatestOf ==
    ASSUME NEW T, T \subseteq Nat, T # {}, IsFiniteSet(T)
    PROVE  Max(T) \in T /\ \A x \in T : x <= Max(T)
<1> DEFINE Above(x) == {y \in T : y > x}
           C == {Cardinality(Above(x)) : x \in T}
<1>1. \A x \in T : IsFiniteSet(Above(x)) /\ Cardinality(Above(x)) \in Nat
  BY FS_Subset, FS_CardinalityType
<1>2. C \subseteq Nat /\ C # {}
  BY <1>1
<1>3. Min(C) \in C /\ \A c \in C : ~(c < Min(C))
  <2> DEFINE R == OpToRel(<, Nat)
  <2>1. IsWellFoundedOn(R, Nat)
    BY NatLessThanWellFounded
  <2> HIDE DEF C
  <2>2. PICK x \in C : \A y \in C : ~(<<y, x>> \in R)
    BY <1>2, <2>1, WFMin
  <2>3. \A y \in C : ~(y < x)
    BY <1>2, <2>2 DEF OpToRel
  <2>4. \A y \in C : x <= y
    BY <1>2, <2>3
  <2>5. Min(C) \in C /\ \A y \in C : Min(C) <= y
    BY <2>4 DEF Min
  <2>6. \A y \in C : Min(C) \in Nat /\ y \in Nat /\ Min(C) <= y
    BY <1>2, <2>5
  <2>7. QED
    BY <2>5, <2>6
<1>4. PICK x \in T : Cardinality(Above(x)) = Min(C)
  BY <1>3
<1>5. ASSUME NEW y \in T, y > x PROVE FALSE
  <2>1. Above(y) \subseteq Above(x) /\ y \in Above(x) /\ y \notin Above(y)
    <3>1. y \in Nat /\ x \in Nat /\ T \subseteq Nat
      OBVIOUS
    <3>2. \A z \in T : z > y => z > x
      BY <1>5, <3>1
    <3>3. ~(y > y)
      BY <3>1
    <3>4. QED
      BY <1>5, <3>2, <3>3
  <2>2. Above(y) # Above(x)
    BY <2>1
  <2> HIDE DEF Above
  <2>3. Cardinality(Above(y)) <= Cardinality(Above(x)) /\ Cardinality(Above(y)) # Cardinality(Above(x))
    BY <1>1, <2>1, <2>2, FS_Subset
  <2>4. Cardinality(Above(y)) < Cardinality(Above(x))
    BY <1>1, <2>3
  <2>5. Cardinality(Above(y)) \in C
    OBVIOUS
  <2>6. QED
    BY <1>3, <1>4, <2>4, <2>5
<1>6. \A y \in T : x >= y
  BY <1>5
<1>7. QED
  BY <1>6 DEF Max

\* What the assumption on the constants says of the sets that the model is built from.
LEMMA TreeSetsAre ==
    /\ IsFiniteSet(Tasks) /\ Cardinality(Tasks) \in Nat /\ RootHeld \in Nat /\ RootHeld > 1
    /\ IsFiniteSet(Inos) /\ Cardinality(Inos) = NrInodes /\ Root \in Inos /\ None \notin Inos /\ Inos \subseteq Nat
    /\ Max(Range(NrEntries)) \in Nat \ {0} /\ Positions = 1 .. Max(Range(NrEntries)) /\ Max(Positions) = Max(Range(NrEntries))
    /\ IsFiniteSet(Positions) /\ Cardinality(Positions) = Max(Positions) /\ Positions \subseteq Nat \ {0}
    /\ \A n \in Inos : 1 .. NrEntries[n] \subseteq Positions
    /\ Free # "REG" /\ Free # "DIR"
<1>1. /\ IsFiniteSet(Tasks) /\ NrInodes \in Nat \ {0} /\ NrEntries \in [Inos -> Nat \ {0}]
      /\ Free # "REG" /\ Free # "DIR"
  BY FileTreeAssumption
<1>2. IsFiniteSet(Inos) /\ Cardinality(Inos) = NrInodes /\ Root \in Inos /\ None \notin Inos /\ Inos \subseteq Nat
  BY <1>1, FS_Interval DEF Inos, Root, None
<1>3. Cardinality(Tasks) \in Nat /\ RootHeld \in Nat /\ RootHeld > 1
  BY <1>1, FS_CardinalityType DEF RootHeld
<1> DEFINE E == Range(NrEntries)
           M == Max(E)
<1>4. E = {NrEntries[n] : n \in Inos}
  BY <1>1 DEF Range
<1>5. IsFiniteSet(E)
  <2>1. NrEntries \in Surjection(Inos, E)
    BY <1>1, <1>4 DEF Surjection
  <2>2. QED
    BY <1>2, <2>1, FS_Surjection
<1>6. E \subseteq Nat /\ E # {} /\ \A n \in Inos : NrEntries[n] \in E
  BY <1>1, <1>2, <1>4
<1>7. M \in E /\ \A x \in E : x <= M
  BY <1>5, <1>6, GreatestOf
<1>8. M \in Nat \ {0}
  BY <1>1, <1>2, <1>4, <1>7
<1>9. Positions = 1 .. M
  BY DEF Positions
<1>10. IsFiniteSet(Positions) /\ Cardinality(Positions) = M /\ Positions \subseteq Nat \ {0}
  <2> HIDE DEF M
  <2>1. M \in Nat /\ M - 1 + 1 = M /\ 1 <= M
    BY <1>8
  <2>2. IsFiniteSet(1 .. M) /\ Cardinality(1 .. M) = M
    BY <2>1, FS_Interval
  <2>3. QED
    BY <1>9, <2>1, <2>2
<1>11. Max(Positions) = M
  <2>1. M \in Positions /\ \A y \in Positions : M >= y
    BY <1>8, <1>9
  <2>2. \A x \in Positions : (\A y \in Positions : x >= y) => x = M
    BY <1>8, <1>9, <2>1
  <2>3. QED
    BY <2>1, <2>2 DEF Max
<1>12. \A n \in Inos : 1 .. NrEntries[n] \subseteq Positions
  BY <1>1, <1>6, <1>7, <1>8, <1>9
<1>13. QED
  BY <1>1, <1>2, <1>3, <1>8, <1>9, <1>10, <1>11, <1>12

\* When one task alone joins or leaves a set of tasks, its size follows.
LEMMA OneMoves ==
    ASSUME NEW S, NEW T, S \subseteq Tasks, T \subseteq Tasks, NEW t \in Tasks,
           \A u \in Tasks \ {t} : u \in S <=> u \in T
    PROVE  /\ IsFiniteSet(S) /\ IsFiniteSet(T) /\ Cardinality(S) \in Nat /\ Cardinality(T) \in Nat
           /\ Cardinality(T) + In(t, S) = Cardinality(S) + In(t, T)
           /\ In(t, S) <= Cardinality(S)
<1>1. /\ IsFiniteSet(S) /\ IsFiniteSet(T) /\ Cardinality(S) \in Nat /\ Cardinality(T) \in Nat
      /\ IsFiniteSet(S \ {t}) /\ Cardinality(S \ {t}) \in Nat /\ S \ {t} = T \ {t}
  BY TreeSetsAre, FS_Subset, FS_CardinalityType
<1>2. t \in S => Cardinality(S \ {t}) = Cardinality(S) - 1
  BY <1>1, FS_RemoveElement
<1>3. t \in T => Cardinality(T \ {t}) = Cardinality(T) - 1
  BY <1>1, FS_RemoveElement
<1>4. t \notin S => S \ {t} = S
  OBVIOUS
<1>5. t \notin T => T \ {t} = T
  OBVIOUS
<1> DEFINE a == Cardinality(S \ {t})
<1>s. Cardinality(T \ {t}) = a
  BY <1>1
<1>6. Cardinality(S) = a + In(t, S)
  <2>1. CASE t \in S
    BY <1>1, <1>2, <2>1 DEF Same, In
  <2>2. CASE t \notin S
    BY <1>1, <1>4, <2>2 DEF Same, In
  <2>3. QED
    BY <2>1, <2>2
<1>7. Cardinality(T) = a + In(t, T)
  <2>1. CASE t \in T
    BY <1>1, <1>3, <1>s, <2>1 DEF Same, In
  <2>2. CASE t \notin T
    BY <1>1, <1>5, <1>s, <2>2 DEF Same, In
  <2>3. QED
    BY <2>1, <2>2
<1>8. In(t, S) \in Nat /\ In(t, T) \in Nat
  BY DEF Same, In
<1>9. QED
  BY <1>1, <1>6, <1>7, <1>8

\* How often a task holds an inode is a number.
LEMMA BitsAre ==
    /\ \A x, y : Same(x, y) \in {0, 1} /\ In(x, y) \in {0, 1} /\ (x = y <=> Same(x, y) = 1) /\ Same(x, y) = Same(y, x)
    /\ \A r, n : Own(r, n) \in Nat
BY DEF Same, In, Own

\* The number of holders is a number.
LEMMA HoldersNat ==
    ASSUME NEW k, NEW w, NEW n
    PROVE  HoldersOf(k, w, n) \in Nat
<1>1. IsFiniteSet(DirOf(k, n)) /\ IsFiniteSet(OldOf(k, n)) /\ IsFiniteSet(FileOf(k, n)) /\ IsFiniteSet(PwdOf(w, n))
  BY TreeSetsAre, FS_Subset DEF DirOf, OldOf, FileOf, PwdOf
<1>2. QED
  BY <1>1, FS_CardinalityType, TreeSetsAre DEF HoldersOf

\* When one task changes what it holds, the numbers of holders follow it.
LEMMA HoldersFollow ==
    ASSUME NEW k \in [Tasks -> TaskRecs], NEW w \in [Tasks -> Inos], NEW t \in Tasks,
           NEW k2 \in [Tasks -> TaskRecs], NEW w2 \in [Tasks -> Inos],
           \A u \in Tasks \ {t} : k2[u] = k[u] /\ w2[u] = w[u], NEW n \in Inos
    PROVE  /\ HoldersOf(k, w, n) \in Nat /\ HoldersOf(k2, w2, n) \in Nat
           /\ HoldersOf(k2, w2, n) + Own(k[t], n) + Same(w[t], n) = HoldersOf(k, w, n) + Own(k2[t], n) + Same(w2[t], n)
           /\ Own(k[t], n) + Same(w[t], n) + Same(n, Root) <= HoldersOf(k, w, n)
<1>r. PICK r : r = k2[t]
  OBVIOUS
<1>x. PICK x : x = w2[t]
  OBVIOUS
<1>1. k2[t] = r /\ w2[t] = x /\ \A u \in Tasks \ {t} : k2[u] = k[u] /\ w2[u] = w[u]
  BY <1>r, <1>x
<1>2. /\ Cardinality(DirOf(k, n)) \in Nat /\ Cardinality(DirOf(k2, n)) \in Nat
      /\ Cardinality(DirOf(k2, n)) + Same(k[t].dir, n) = Cardinality(DirOf(k, n)) + Same(r.dir, n)
      /\ Same(k[t].dir, n) <= Cardinality(DirOf(k, n))
  <2> DEFINE S == DirOf(k, n)
             T == DirOf(k2, n)
  <2>1. S \subseteq Tasks /\ T \subseteq Tasks /\ (\A u \in Tasks \ {t} : u \in S <=> u \in T)
    BY <1>1 DEF DirOf
  <2>2. In(t, S) = Same(k[t].dir, n) /\ In(t, T) = Same(r.dir, n)
    BY <1>1 DEF DirOf, In, Same
  <2> HIDE DEF S, T
  <2>3. /\ Cardinality(S) \in Nat /\ Cardinality(T) \in Nat
        /\ Cardinality(T) + In(t, S) = Cardinality(S) + In(t, T)
        /\ In(t, S) <= Cardinality(S)
    BY <2>1, OneMoves
  <2>4. QED
    BY <2>2, <2>3 DEF S, T
<1>3. /\ Cardinality(OldOf(k, n)) \in Nat /\ Cardinality(OldOf(k2, n)) \in Nat
      /\ Cardinality(OldOf(k2, n)) + Same(k[t].old, n) = Cardinality(OldOf(k, n)) + Same(r.old, n)
      /\ Same(k[t].old, n) <= Cardinality(OldOf(k, n))
  <2> DEFINE S == OldOf(k, n)
             T == OldOf(k2, n)
  <2>1. S \subseteq Tasks /\ T \subseteq Tasks /\ (\A u \in Tasks \ {t} : u \in S <=> u \in T)
    BY <1>1 DEF OldOf
  <2>2. In(t, S) = Same(k[t].old, n) /\ In(t, T) = Same(r.old, n)
    BY <1>1 DEF OldOf, In, Same
  <2> HIDE DEF S, T
  <2>3. /\ Cardinality(S) \in Nat /\ Cardinality(T) \in Nat
        /\ Cardinality(T) + In(t, S) = Cardinality(S) + In(t, T)
        /\ In(t, S) <= Cardinality(S)
    BY <2>1, OneMoves
  <2>4. QED
    BY <2>2, <2>3 DEF S, T
<1>4. /\ Cardinality(FileOf(k, n)) \in Nat /\ Cardinality(FileOf(k2, n)) \in Nat
      /\ Cardinality(FileOf(k2, n)) + (IF k[t].pc = "iget" THEN 0 ELSE Same(k[t].ino, n))
           = Cardinality(FileOf(k, n)) + (IF r.pc = "iget" THEN 0 ELSE Same(r.ino, n))
      /\ (IF k[t].pc = "iget" THEN 0 ELSE Same(k[t].ino, n)) <= Cardinality(FileOf(k, n))
  <2> DEFINE S == FileOf(k, n)
             T == FileOf(k2, n)
  <2>1. S \subseteq Tasks /\ T \subseteq Tasks /\ (\A u \in Tasks \ {t} : u \in S <=> u \in T)
    BY <1>1 DEF FileOf
  <2>2. /\ In(t, S) = (IF k[t].pc = "iget" THEN 0 ELSE Same(k[t].ino, n))
        /\ In(t, T) = (IF r.pc = "iget" THEN 0 ELSE Same(r.ino, n))
    BY <1>1 DEF FileOf, In, Same
  <2> HIDE DEF S, T
  <2>3. /\ Cardinality(S) \in Nat /\ Cardinality(T) \in Nat
        /\ Cardinality(T) + In(t, S) = Cardinality(S) + In(t, T)
        /\ In(t, S) <= Cardinality(S)
    BY <2>1, OneMoves
  <2>4. QED
    BY <2>2, <2>3 DEF S, T
<1>5. /\ Cardinality(PwdOf(w, n)) \in Nat /\ Cardinality(PwdOf(w2, n)) \in Nat
      /\ Cardinality(PwdOf(w2, n)) + Same(w[t], n) = Cardinality(PwdOf(w, n)) + Same(x, n)
      /\ Same(w[t], n) <= Cardinality(PwdOf(w, n))
  <2> DEFINE S == PwdOf(w, n)
             T == PwdOf(w2, n)
  <2>1. S \subseteq Tasks /\ T \subseteq Tasks /\ (\A u \in Tasks \ {t} : u \in S <=> u \in T)
    BY <1>1 DEF PwdOf
  <2>2. In(t, S) = Same(w[t], n) /\ In(t, T) = Same(x, n)
    BY <1>1 DEF PwdOf, In, Same
  <2> HIDE DEF S, T
  <2>3. /\ Cardinality(S) \in Nat /\ Cardinality(T) \in Nat
        /\ Cardinality(T) + In(t, S) = Cardinality(S) + In(t, T)
        /\ In(t, S) <= Cardinality(S)
    BY <2>1, OneMoves
  <2>4. QED
    BY <2>2, <2>3 DEF S, T
<1>6. RootHeld \in Nat /\ RootHeld > 1
  BY TreeSetsAre
<1>7. HoldersOf(k, w, n) \in Nat /\ HoldersOf(k2, w2, n) \in Nat
  BY <1>2, <1>3, <1>4, <1>5, <1>6 DEF HoldersOf
<1>8. HoldersOf(k2, w2, n) + Own(k[t], n) + Same(w[t], n) = HoldersOf(k, w, n) + Own(r, n) + Same(x, n)
  BY <1>2, <1>3, <1>4, <1>5, <1>6, BitsAre DEF HoldersOf, Own
<1>9. Own(k[t], n) + Same(w[t], n) + Same(n, Root) <= HoldersOf(k, w, n)
  <2>1. Same(n, Root) <= IF n = Root THEN RootHeld ELSE 0
    BY <1>6 DEF Same, In
  <2>2. QED
    BY <1>2, <1>3, <1>4, <1>5, <1>6, <2>1, BitsAre DEF HoldersOf, Own
<1>10. QED
  BY <1>1, <1>7, <1>8, <1>9

\* A task between two calls holds nothing.
LEMMA IdleIs ==
    /\ Idle \in TaskRecs /\ Idle.pc = "user" /\ \A n \in Inos : Own(Idle, n) = 0
    /\ Idle.dir = None /\ Idle.ino = None /\ Idle.old = None /\ Idle.op = "open" /\ Idle.to = <<>>
<1>1. Idle \in TaskRecs
  BY DEF Idle, TaskRecs, Pcs, Calls, MaybeIno, None
<1>2. Idle.pc = "user" /\ Idle.dir = None /\ Idle.ino = None /\ Idle.old = None /\ Idle.op = "open" /\ Idle.to = <<>>
  BY DEF Idle
<1>3. \A n \in Inos : n # None
  BY TreeSetsAre
<1>4. QED
  BY <1>1, <1>2, <1>3 DEF Own, Same, In

\* What two tasks hold of an inode is at most the number of its holders.
LEMMA HeldByBoth ==
    ASSUME NEW k \in [Tasks -> TaskRecs], NEW w \in [Tasks -> Inos], NEW t \in Tasks, NEW u \in Tasks \ {t},
           NEW n \in Inos
    PROVE  Own(k[t], n) + Own(k[u], n) + Same(w[u], n) <= HoldersOf(k, w, n)
<1>1. PICK r \in TaskRecs : Own(r, n) = 0
  BY IdleIs
<1>2. PICK k2 \in [Tasks -> TaskRecs] : k2 = [k EXCEPT ![t] = r]
  OBVIOUS
<1>3. k2[t] = r /\ \A v \in Tasks \ {t} : k2[v] = k[v] /\ w[v] = w[v]
  BY <1>2
<1>4. /\ HoldersOf(k, w, n) \in Nat /\ HoldersOf(k2, w, n) \in Nat
      /\ HoldersOf(k2, w, n) + Own(k[t], n) + Same(w[t], n) = HoldersOf(k, w, n) + Own(k2[t], n) + Same(w[t], n)
  BY <1>3, HoldersFollow
<1>5. Own(k2[u], n) + Same(w[u], n) + Same(n, Root) <= HoldersOf(k2, w, n)
  <2>1. \A v \in Tasks \ {u} : k2[v] = k2[v] /\ w[v] = w[v]
    OBVIOUS
  <2>2. QED
    BY <2>1, HoldersFollow
<1>6. Own(k2[t], n) = 0 /\ Own(k2[u], n) = Own(k[u], n)
  BY <1>1, <1>3
<1>7. Same(w[t], n) \in Nat /\ Own(k[t], n) \in Nat /\ Own(k[u], n) \in Nat /\ Same(w[u], n) \in Nat
      /\ Same(n, Root) \in Nat
  BY BitsAre
<1>8. QED
  BY <1>4, <1>5, <1>6, <1>7

\* An inode is held as often as one task holds it, at least, and more often when another holds it too.
LEMMA HeldAtLeast ==
    ASSUME NEW f, NEW k, NEW w, NEW a, NEW b, TreeTyped(f, k, w), CountsOf(f, k, w, a, b), NEW n \in Inos, NEW t \in Tasks
    PROVE  /\ f[n].count \in Nat /\ f[n].count = HoldersOf(k, w, n) + Same(n, a) + Same(n, b)
           /\ Own(k[t], n) + Same(w[t], n) + Same(n, Root) <= HoldersOf(k, w, n)
           /\ \A u \in Tasks \ {t} : Own(k[t], n) + Own(k[u], n) + Same(w[u], n) <= HoldersOf(k, w, n)
           /\ HoldersOf(k, w, n) \in Nat
<1>1. k \in [Tasks -> TaskRecs] /\ w \in [Tasks -> Inos] /\ f[n].count \in Nat /\ k[t] \in TaskRecs /\ w[t] \in Inos
  BY DEF TreeTyped, InodeRecs
<1>2. f[n].count = HoldersOf(k, w, n) + Same(n, a) + Same(n, b)
  BY DEF CountsOf
<1>3. Own(k[t], n) + Same(w[t], n) + Same(n, Root) <= HoldersOf(k, w, n) /\ HoldersOf(k, w, n) \in Nat
  <2>1. \A v \in Tasks \ {t} : k[v] = k[v] /\ w[v] = w[v]
    OBVIOUS
  <2>2. QED
    BY <1>1, <2>1, HoldersFollow
<1>4. \A u \in Tasks \ {t} : Own(k[t], n) + Own(k[u], n) + Same(w[u], n) <= HoldersOf(k, w, n)
  BY <1>1, HeldByBoth
<1>5. QED
  BY <1>1, <1>2, <1>3, <1>4

\* What follows for one inode: if nobody holds it, no task has it; if one task does and it is held once,
\* nobody else has it.
LEMMA NobodyHolds ==
    ASSUME NEW f, NEW k, NEW w, NEW a, NEW b, TreeTyped(f, k, w), CountsOf(f, k, w, a, b), NEW n \in Inos,
           HoldersOf(k, w, n) = 0
    PROVE  /\ n # Root /\ \A t \in Tasks : Own(k[t], n) = 0 /\ w[t] # n
           /\ MakingOf(k, n) = {} /\ UncountedOf(k, n) = {}
<1>1. ASSUME NEW t \in Tasks PROVE Own(k[t], n) = 0 /\ w[t] # n /\ n # Root
  <2>1. Own(k[t], n) + Same(w[t], n) + Same(n, Root) <= 0
    BY HeldAtLeast
  <2>2. Own(k[t], n) = 0 /\ Same(w[t], n) = 0 /\ Same(n, Root) = 0
    BY <2>1, BitsAre
  <2>3. QED
    BY <2>2 DEF Same, In
<1>2. MakingOf(k, n) = {} /\ UncountedOf(k, n) = {}
  BY <1>1 DEF Own, Same, In, MakingOf, UncountedOf
<1>3. n # Root
  <2>1. /\ DirOf(k, n) \subseteq Tasks /\ OldOf(k, n) \subseteq Tasks /\ FileOf(k, n) \subseteq Tasks
        /\ PwdOf(w, n) \subseteq Tasks
    BY DEF DirOf, OldOf, FileOf, PwdOf
  <2>3. /\ Cardinality(DirOf(k, n)) \in Nat /\ Cardinality(OldOf(k, n)) \in Nat /\ Cardinality(FileOf(k, n)) \in Nat
        /\ Cardinality(PwdOf(w, n)) \in Nat
    BY <2>1, TreeSetsAre, FS_Subset, FS_CardinalityType
  <2>2. QED
    BY <2>3, TreeSetsAre DEF HoldersOf
<1>4. QED
  BY <1>1, <1>2, <1>3

\* The task that holds an inode counted once is its only holder.
LEMMA SoleHolder ==
    ASSUME NEW f, NEW k, NEW w, NEW a, NEW b, TreeTyped(f, k, w), CountsOf(f, k, w, a, b), NEW n \in Inos,
           f[n].count = 1, NEW u \in Tasks, Own(k[u], n) # 0
    PROVE  /\ n # a /\ n # b /\ n # Root
           /\ \A t \in Tasks : w[t] # n /\ (t # u => Own(k[t], n) = 0)
<1>1. /\ 1 = HoldersOf(k, w, n) + Same(n, a) + Same(n, b)
      /\ Own(k[u], n) + Same(w[u], n) + Same(n, Root) <= HoldersOf(k, w, n)
      /\ \A t \in Tasks \ {u} : Own(k[u], n) + Own(k[t], n) + Same(w[t], n) <= HoldersOf(k, w, n)
      /\ HoldersOf(k, w, n) \in Nat
  BY HeldAtLeast
<1>2. Same(n, a) = 0 /\ Same(n, b) = 0 /\ Same(n, Root) = 0 /\ Same(w[u], n) = 0 /\ HoldersOf(k, w, n) = 1 /\ Own(k[u], n) = 1
  BY <1>1, BitsAre
<1>3. \A t \in Tasks \ {u} : Own(k[t], n) = 0 /\ Same(w[t], n) = 0
  BY <1>1, <1>2, BitsAre
<1>4. QED
  BY <1>2, <1>3 DEF Same, In

\* Only the counts differ: names and links are the same.
OnlyCounts(f, g) ==
    \A n \in Inos : g[n].type = f[n].type /\ g[n].nlinks = f[n].nlinks /\ g[n].up = f[n].up /\ g[n].entries = f[n].entries

\* An entry names an inode or none.
LEMMA EntriesAre ==
    ASSUME NEW f \in [Inos -> InodeRecs], NEW n \in Inos, NEW p \in Positions
    PROVE  f[n].entries[p] \in EntryRecs /\ f[n].entries[p].ino \in MaybeIno
<1>1. f[n].entries \in [Positions -> EntryRecs]
  BY DEF InodeRecs
<1>2. f[n].entries[p] \in EntryRecs
  BY <1>1
<1>3. QED
  BY <1>2 DEF EntryRecs

\* Where only counts change, the same entries name the same inodes.
LEMMA NamesFollow ==
    ASSUME NEW f \in [Inos -> InodeRecs], NEW g \in [Inos -> InodeRecs], OnlyCounts(f, g)
    PROVE  \A n \in Inos : NamingOf(g, n) = NamingOf(f, n) /\ SubdirsOf(g, n) = SubdirsOf(f, n) /\ (Bare(g, n) <=> Bare(f, n))
<1>1. \A n \in Inos : NamingOf(g, n) = NamingOf(f, n)
  BY DEF OnlyCounts, NamingOf
<1>2. \A n \in Inos, p \in Positions : f[n].entries[p].ino \in MaybeIno
  BY EntriesAre
<1>3. \A n \in Inos : SubdirsOf(g, n) = SubdirsOf(f, n)
  BY <1>2 DEF OnlyCounts, SubdirsOf, MaybeIno
<1>4. QED
  BY <1>1, <1>3 DEF OnlyCounts, Bare

\* Where only counts change, the links stay as many as the names.
LEMMA LinksFollow ==
    ASSUME NEW f \in [Inos -> InodeRecs], NEW g \in [Inos -> InodeRecs], OnlyCounts(f, g), NEW k, LinksOf(f, k)
    PROVE  LinksOf(g, k)
BY NamesFollow DEF OnlyCounts, LinksOf, LinkAt

\* Where only counts change, what a task holds is of the same type.
LEMMA HoldsFollow ==
    ASSUME NEW f \in [Inos -> InodeRecs], NEW g \in [Inos -> InodeRecs], OnlyCounts(f, g), NEW r \in TaskRecs,
           PlaceOf(r), HoldsOf(f, r)
    PROVE  HoldsOf(g, r)
<1>1. /\ r.dir # None => r.dir \in Inos
      /\ r.old # None => r.old \in Inos
      /\ r.pc = "rmdir" => r.ino \in Inos
  BY DEF TaskRecs, MaybeIno, PlaceOf
<1>2. QED
  BY <1>1 DEF HoldsOf, OnlyCounts

\* Where only counts change, and not that of a new inode, it stays as it must be.
LEMMA NewFollows ==
    ASSUME NEW f \in [Inos -> InodeRecs], NEW g \in [Inos -> InodeRecs], OnlyCounts(f, g), NEW r, NewInode(f, r),
           IsMaking(r) => r.ino \in Inos, IsMaking(r) => g[r.ino].count = f[r.ino].count
    PROVE  NewInode(g, r)
<1> SUFFICES ASSUME IsMaking(r) PROVE NewInode(g, r)
  BY DEF NewInode
<1>1. NamingOf(g, r.ino) = NamingOf(f, r.ino) /\ (Bare(g, r.ino) <=> Bare(f, r.ino))
  BY NamesFollow
<1>2. /\ g[r.ino].type = f[r.ino].type /\ g[r.ino].nlinks = f[r.ino].nlinks /\ g[r.ino].up = f[r.ino].up
      /\ g[r.ino].count = f[r.ino].count
  BY DEF OnlyCounts
<1>3. QED
  BY <1>1, <1>2 DEF NewInode

\* An inode that is not in use has no links, no holders and no entries.
LEMMA UnusedIs ==
    /\ Unused \in InodeRecs /\ Unused.type = Free /\ Unused.nlinks = 0 /\ Unused.count = 0 /\ Unused.up = None
    /\ \A p \in Positions : Unused.entries[p] = NoEntry
    /\ NoEntry \in EntryRecs /\ NoEntry.ino = None
<1>1. NoEntry \in EntryRecs /\ NoEntry.ino = None
  BY DEF NoEntry, MaybeIno, EntryRecs
<1>2. [p \in Positions |-> NoEntry] \in [Positions -> EntryRecs]
  BY <1>1
<1>3. Unused \in InodeRecs
  BY <1>2 DEF Unused, InodeRecs, MaybeIno
<1>4. QED
  BY <1>1, <1>3 DEF Unused

\* The last holder of an inode without links lets go of it.
LEMMA LastKeeps ==
    ASSUME NEW f, NEW k, NEW w, NEW a \in Inos, NEW b, TreeInvOf(f, k, w, a, b),
           f[a].count = 1, f[a].nlinks = 0
    PROVE  TreeInvOf([f EXCEPT ![a] = Unused], k, w, None, b)
<1>g. PICK g : g = [f EXCEPT ![a] = Unused]
  OBVIOUS
<1>1. /\ f \in [Inos -> InodeRecs] /\ k \in [Tasks -> TaskRecs] /\ w \in [Tasks -> Inos]
      /\ TreeTyped(f, k, w) /\ CountsOf(f, k, w, a, b)
  BY DEF TreeInvOf, TreeTyped
<1>2. g \in [Inos -> InodeRecs] /\ g[a] = Unused /\ \A n \in Inos \ {a} : g[n] = f[n]
  BY <1>1, <1>g, UnusedIs
<1>3. TreeTyped(g, k, w)
  BY <1>1, <1>2 DEF TreeTyped
<1>4. HoldersOf(k, w, a) = 0 /\ a # b
  <2>1. CASE Tasks = {}
    <3>1. HoldersOf(k, w, a) \in Nat
      BY HoldersNat
    <3>2. 1 = HoldersOf(k, w, a) + Same(a, a) + Same(a, b)
      BY <1>1 DEF CountsOf
    <3>3. QED
      BY <3>1, <3>2, BitsAre
  <2>2. CASE Tasks # {}
    <3>1. PICK t \in Tasks : TRUE
      BY <2>2
    <3>2. 1 = HoldersOf(k, w, a) + Same(a, a) + Same(a, b) /\ HoldersOf(k, w, a) \in Nat
      BY <1>1, <3>1, HeldAtLeast
    <3>3. QED
      BY <3>2, BitsAre
  <2>3. QED
    BY <2>1, <2>2
<1>5. /\ a # Root /\ \A t \in Tasks : Own(k[t], a) = 0 /\ w[t] # a
      /\ MakingOf(k, a) = {} /\ UncountedOf(k, a) = {}
  BY <1>1, <1>4, NobodyHolds
<1>6. CountsOf(g, k, w, None, b)
  <2>1. \A n \in Inos : None # n
    BY TreeSetsAre
  <2>2. ASSUME NEW n \in Inos PROVE g[n].count = HoldersOf(k, w, n) + Same(n, None) + Same(n, b)
    <3>1. CASE n = a
      BY <1>2, <1>4, <2>1, <3>1, UnusedIs DEF Same
    <3>2. CASE n # a
      BY <1>1, <1>2, <2>1, <3>2 DEF CountsOf, Same
    <3>3. QED
      BY <3>1, <3>2
  <2>3. QED
    BY <2>2 DEF CountsOf
<1>7. /\ f[a].type # Free /\ NamingOf(f, a) = {}
      /\ f[a].type = "DIR" => Bare(f, a)
  <2>1. f[a].type # Free
    BY <1>1, UnusedIs DEF TreeInvOf, ShapeOf
  <2>2. f[a].type = "DIR" => NamingOf(f, a) = {} /\ Bare(f, a)
    BY DEF TreeInvOf, LinksOf, LinkAt
  <2>3. CASE f[a].type = "REG"
    <3>1. f[a].nlinks + Cardinality({}) = Cardinality(NamingOf(f, a)) + Cardinality({})
      BY <1>5, <2>3 DEF TreeInvOf, LinksOf, LinkAt
    <3>2. IsFiniteSet(NamingOf(f, a))
      BY TreeSetsAre, FS_Product, FS_Subset DEF NamingOf
    <3>3. Cardinality(NamingOf(f, a)) = 0
      BY <3>1, <3>2, FS_EmptySet, FS_CardinalityType
    <3>4. QED
      BY <2>3, <3>2, <3>3, FS_EmptySet, TreeSetsAre
  <2>4. QED
    BY <1>1, <2>1, <2>2, <2>3 DEF InodeRecs
<1>8. \A n \in Inos : NamingOf(g, n) = NamingOf(f, n)
  <2> SUFFICES ASSUME NEW n \in Inos, NEW i \in Inos, NEW p \in Positions
               PROVE  g[i].type = "DIR" /\ g[i].entries[p].ino = n <=> f[i].type = "DIR" /\ f[i].entries[p].ino = n
    BY DEF NamingOf
  <2>1. n # None
    BY TreeSetsAre
  <2>2. CASE i = a
    BY <1>2, <1>7, <2>1, <2>2, TreeSetsAre, UnusedIs DEF Bare
  <2>3. CASE i # a
    BY <1>2, <2>3
  <2>4. QED
    BY <2>2, <2>3
<1>9. \A n \in Inos \ {a} : f[n].type = "DIR" => SubdirsOf(g, n) = SubdirsOf(f, n)
  <2> SUFFICES ASSUME NEW n \in Inos \ {a}, f[n].type = "DIR" PROVE SubdirsOf(g, n) = SubdirsOf(f, n)
    OBVIOUS
  <2>1. \A p \in Positions : f[n].entries[p].ino \in MaybeIno /\ f[n].entries[p].ino # a
    <3>1. \A p \in Positions : f[n].entries[p].ino \in MaybeIno
      BY <1>1, EntriesAre
    <3>2. \A p \in Positions : f[n].entries[p].ino = a => <<n, p>> \in NamingOf(f, a)
      BY DEF NamingOf
    <3>3. QED
      BY <1>7, <3>1, <3>2
  <2>2. QED
    BY <1>2, <2>1 DEF SubdirsOf, MaybeIno
<1>10. ShapeOf(g)
  <2>1. g[Root].type = "DIR" /\ g[Root].nlinks # 0 /\ g[Root].up = Root /\ NamingOf(g, Root) = {}
    BY <1>2, <1>5, <1>8, TreeSetsAre DEF TreeInvOf, ShapeOf
  <2>2. ASSUME NEW n \in Inos
        PROVE  /\ g[n].type = Free => g[n] = Unused
               /\ g[n].type = "DIR" => g[n].up # None /\ \A e \in NamingOf(g, n) : e[1] = g[n].up
               /\ g[n].nlinks = 0 /\ g[n].count = 0 => g[n].type = Free
    <3>1. CASE n = a
      BY <1>2, <3>1, UnusedIs, TreeSetsAre
    <3>2. CASE n # a
      BY <1>2, <1>8, <3>2 DEF TreeInvOf, ShapeOf
    <3>3. QED
      BY <3>1, <3>2
  <2>3. QED
    BY <2>1, <2>2 DEF ShapeOf
<1>11. LinksOf(g, k)
  <2> SUFFICES ASSUME NEW n \in Inos
               PROVE  /\ g[n].type = "REG" =>
                            g[n].nlinks + Cardinality(UncountedOf(k, n)) = Cardinality(NamingOf(g, n)) + Cardinality(MakingOf(k, n))
                      /\ g[n].type = "DIR" =>
                            IF g[n].nlinks = 0 THEN NamingOf(g, n) = {} /\ Bare(g, n)
                            ELSE /\ g[n].nlinks = 2 + Cardinality(SubdirsOf(g, n))
                                 /\ n # Root => Cardinality(NamingOf(g, n)) + Cardinality(MakingOf(k, n)) = 1
                      /\ g[n].type = Free => NamingOf(g, n) = {}
    BY DEF LinksOf, LinkAt
  <2>1. CASE n = a
    BY <1>2, <1>7, <1>8, <2>1, UnusedIs, TreeSetsAre
  <2>2. CASE n # a
    <3>1. g[n] = f[n] /\ NamingOf(g, n) = NamingOf(f, n) /\ (Bare(g, n) <=> Bare(f, n))
      BY <1>2, <1>8, <2>2 DEF Bare
    <3>2. g[n].type = "DIR" => SubdirsOf(g, n) = SubdirsOf(f, n)
      BY <1>9, <2>2, <3>1
    <3>3. QED
      BY <3>1, <3>2 DEF TreeInvOf, LinksOf, LinkAt
  <2>3. QED
    BY <2>1, <2>2
<1>12. TasksOf(g, k, w)
  <2>1. ASSUME NEW t \in Tasks PROVE PlaceOf(k[t]) /\ HoldsOf(g, k[t]) /\ NewInode(g, k[t]) /\ g[w[t]].type = "DIR"
    <3>1. /\ k[t].dir \in MaybeIno /\ k[t].old \in MaybeIno /\ k[t].ino \in MaybeIno /\ w[t] \in Inos /\ w[t] # a
          /\ k[t].dir # a /\ k[t].old # a /\ (k[t].pc # "iget" => k[t].ino # a)
      BY <1>1, <1>5, BitsAre DEF TaskRecs, Own
    <3>2. PlaceOf(k[t]) /\ HoldsOf(f, k[t]) /\ NewInode(f, k[t]) /\ f[w[t]].type = "DIR"
      BY DEF TreeInvOf, TasksOf
    <3>3. HoldsOf(g, k[t])
      <4>1. k[t].pc = "rmdir" => k[t].ino # None /\ k[t].dir # None
        BY <3>2 DEF PlaceOf
      <4>2. QED
        BY <1>2, <3>1, <3>2, <4>1 DEF HoldsOf, MaybeIno
    <3>4. NewInode(g, k[t])
      BY <1>2, <1>8, <3>1, <3>2 DEF NewInode, IsMaking, Bare, MaybeIno
    <3>5. QED
      BY <1>2, <3>1, <3>2, <3>3, <3>4
  <2>2. QED
    BY <2>1 DEF TreeInvOf, TasksOf
<1>13. QED
  BY <1>3, <1>6, <1>10, <1>11, <1>12, <1>g DEF TreeInvOf

\* Only counts and what a task holds change.
LEMMA OthersFollow ==
    ASSUME NEW f, NEW k, NEW w, NEW a, NEW b, TreeInvOf(f, k, w, a, b),
           NEW g, NEW c, NEW d, TreeTyped(g, k, w), OnlyCounts(f, g), CountsOf(g, k, w, c, d),
           \A n \in Inos : f[n].type = Free => g[n].count = 0,
           \A n \in Inos : f[n].nlinks = 0 /\ g[n].count = 0 => f[n].type = Free,
           \A t \in Tasks : IsMaking(k[t]) => g[k[t].ino].count = 1
    PROVE  TreeInvOf(g, k, w, c, d)
<1>1. /\ f \in [Inos -> InodeRecs] /\ k \in [Tasks -> TaskRecs] /\ w \in [Tasks -> Inos] /\ g \in [Inos -> InodeRecs]
  BY DEF TreeInvOf, TreeTyped
<1>2. \A n \in Inos : NamingOf(g, n) = NamingOf(f, n) /\ SubdirsOf(g, n) = SubdirsOf(f, n) /\ (Bare(g, n) <=> Bare(f, n))
  BY <1>1, NamesFollow
<1>3. LinksOf(g, k)
  BY <1>1, LinksFollow DEF TreeInvOf
<1>4. \A n \in Inos : f[n].type = Free => g[n] = Unused
  <2> SUFFICES ASSUME NEW n \in Inos, f[n].type = Free PROVE g[n] = Unused
    OBVIOUS
  <2>1. f[n] = Unused /\ g[n].count = 0
    BY DEF TreeInvOf, ShapeOf
  <2>2. f[n] \in InodeRecs /\ g[n] \in InodeRecs
    BY <1>1
  <2>3. /\ g[n].type = f[n].type /\ g[n].nlinks = f[n].nlinks /\ g[n].up = f[n].up /\ g[n].entries = f[n].entries
        /\ g[n].count = f[n].count
    BY <2>1, UnusedIs DEF OnlyCounts
  <2>4. g[n] = f[n]
    BY <2>2, <2>3 DEF InodeRecs
  <2>5. QED
    BY <2>1, <2>4
<1>5. ShapeOf(g)
  BY <1>2, <1>4, TreeSetsAre DEF TreeInvOf, ShapeOf, OnlyCounts
<1>6. TasksOf(g, k, w)
  <2>1. ASSUME NEW t \in Tasks PROVE PlaceOf(k[t]) /\ HoldsOf(g, k[t]) /\ NewInode(g, k[t]) /\ g[w[t]].type = "DIR"
    <3>1. PlaceOf(k[t]) /\ HoldsOf(f, k[t]) /\ NewInode(f, k[t]) /\ f[w[t]].type = "DIR" /\ k[t] \in TaskRecs /\ w[t] \in Inos
      BY <1>1 DEF TreeInvOf, TasksOf
    <3>2. HoldsOf(g, k[t])
      BY <1>1, <3>1, HoldsFollow
    <3>3. NewInode(g, k[t])
      <4>1. IsMaking(k[t]) => k[t].ino \in Inos /\ g[k[t].ino].count = 1
        BY <3>1 DEF IsMaking, TaskRecs, MaybeIno
      <4>2. QED
        BY <1>2, <3>1, <4>1 DEF NewInode, OnlyCounts
    <3>4. QED
      BY <3>1, <3>2, <3>3 DEF OnlyCounts
  <2>2. QED
    BY <2>1 DEF TreeInvOf, TasksOf
<1>7. QED
  BY <1>3, <1>5, <1>6 DEF TreeInvOf

\* iput() of what is still to be let go of keeps the invariant, whether or not it frees the inode.
LEMMA DropKeeps ==
    ASSUME NEW f, NEW k, NEW w, NEW a \in MaybeIno, NEW b, TreeInvOf(f, k, w, a, b)
    PROVE  TreeInvOf(iput(f, a), k, w, None, b)
<1>1. CASE a = None
  BY <1>1 DEF iput
<1>2. CASE a # None
  <2>1. /\ a \in Inos /\ f \in [Inos -> InodeRecs] /\ f[a].count \in Nat /\ iput(f, a) = [f EXCEPT ![a] = Dropped(f[a])]
        /\ k \in [Tasks -> TaskRecs] /\ w \in [Tasks -> Inos]
        /\ TreeTyped(f, k, w) /\ CountsOf(f, k, w, a, b)
    BY <1>2 DEF MaybeIno, TreeInvOf, TreeTyped, InodeRecs, iput
  <2>2. CASE f[a].count = 1 /\ f[a].nlinks = 0
    <3>1. Dropped(f[a]) = Unused
      BY <2>2 DEF Dropped
    <3>2. TreeInvOf([f EXCEPT ![a] = Unused], k, w, None, b)
      BY <2>1, <2>2, LastKeeps
    <3>3. QED
      BY <2>1, <3>1, <3>2
  <2>3. CASE ~(f[a].count = 1 /\ f[a].nlinks = 0)
    <3>g. PICK g : g = iput(f, a)
      OBVIOUS
    <3>1. f[a].count > 0 /\ \A t \in Tasks : IsMaking(k[t]) => k[t].ino # a
      <4>1. f[a].count = HoldersOf(k, w, a) + Same(a, a) + Same(a, b)
        BY <2>1 DEF CountsOf
      <4>2. HoldersOf(k, w, a) \in Nat
        BY HoldersNat
      <4>3. f[a].count > 0
        BY <4>1, <4>2, BitsAre
      <4>4. ASSUME NEW t \in Tasks, IsMaking(k[t]) PROVE k[t].ino # a
        <5>1. f[k[t].ino].count = 1
          BY <4>4 DEF TreeInvOf, TasksOf, NewInode
        <5>2. k[t].pc # "iget"
          BY <4>4 DEF IsMaking
        <5>3. k[t].ino = a => Own(k[t], a) > 0
          BY <5>2, BitsAre DEF Own
        <5>4. k[t].ino = a => f[a].count = HoldersOf(k, w, a) + Same(a, a) + Same(a, b) /\ Own(k[t], a) + Same(w[t], a) + Same(a, Root) <= HoldersOf(k, w, a)
          BY <2>1, HeldAtLeast
        <5>5. QED
          BY <4>2, <5>1, <5>3, <5>4, BitsAre
      <4>5. QED
        BY <4>3, <4>4
    <3>2. Dropped(f[a]) = [f[a] EXCEPT !.count = @ - 1]
      BY <2>3 DEF Dropped
    <3>3. /\ g \in [Inos -> InodeRecs] /\ g[a] = [f[a] EXCEPT !.count = f[a].count - 1]
          /\ \A n \in Inos \ {a} : g[n] = f[n]
      <4>1. f[a] \in InodeRecs /\ f[a].count - 1 \in Nat
        BY <2>1, <3>1
      <4>2. [f[a] EXCEPT !.count = f[a].count - 1] \in InodeRecs
        BY <4>1 DEF InodeRecs
      <4>3. QED
        BY <2>1, <3>2, <3>g, <4>2
    <3>4. g[a].count = f[a].count - 1 /\ OnlyCounts(f, g)
      BY <2>1, <3>3 DEF OnlyCounts, InodeRecs
    <3>5. TreeTyped(g, k, w)
      BY <2>1, <3>3 DEF TreeTyped
    <3>6. CountsOf(g, k, w, None, b)
      <4>1. ASSUME NEW n \in Inos PROVE g[n].count = HoldersOf(k, w, n) + Same(n, None) + Same(n, b)
        <5>1. f[n].count = HoldersOf(k, w, n) + Same(n, a) + Same(n, b) /\ f[n].count \in Nat /\ HoldersOf(k, w, n) \in Nat
          BY <2>1, HoldersNat DEF CountsOf, InodeRecs
        <5>2. Same(n, None) = 0
          BY TreeSetsAre DEF Same
        <5>3. CASE n = a
          BY <3>4, <5>1, <5>2, <5>3, BitsAre
        <5>4. CASE n # a
          BY <3>3, <5>1, <5>2, <5>4, BitsAre
        <5>5. QED
          BY <5>3, <5>4
      <4>2. QED
        BY <4>1 DEF CountsOf
    <3>7. \A n \in Inos : f[n].type = Free => g[n].count = 0
      <4>1. \A n \in Inos : f[n].type = Free => f[n].count = 0
        BY UnusedIs DEF TreeInvOf, ShapeOf
      <4>2. QED
        BY <3>1, <3>3, <4>1, <2>1
    <3>8. \A n \in Inos : f[n].nlinks = 0 /\ g[n].count = 0 => f[n].type = Free
      <4>1. \A n \in Inos : f[n].nlinks = 0 /\ f[n].count = 0 => f[n].type = Free
        BY DEF TreeInvOf, ShapeOf
      <4>2. f[a].nlinks = 0 => g[a].count # 0
        BY <2>1, <2>3, <3>4
      <4>3. QED
        BY <3>3, <4>1, <4>2
    <3>9. \A t \in Tasks : IsMaking(k[t]) => g[k[t].ino].count = 1
      <4>1. \A t \in Tasks : IsMaking(k[t]) => k[t].ino \in Inos /\ f[k[t].ino].count = 1
        BY <2>1 DEF IsMaking, TaskRecs, MaybeIno, TreeInvOf, TasksOf, NewInode
      <4>2. QED
        BY <3>1, <3>3, <4>1
    <3>10. TreeInvOf(g, k, w, None, b)
      BY <3>4, <3>5, <3>6, <3>7, <3>8, <3>9, OthersFollow
    <3>11. QED
      BY <3>10, <3>g
  <2>4. QED
    BY <2>2, <2>3
<1>3. QED
  BY <1>1, <1>2

\* What a task gives up.
LEMMA LetGo ==
    ASSUME NEW f, NEW k, NEW w, NEW a \in MaybeIno, NEW b \in MaybeIno, TreeInvOf(f, k, w, a, b)
    PROVE  TreeInvOf(iput(iput(f, a), b), k, w, None, None)
<1>1. TreeInvOf(iput(f, a), k, w, None, b)
  BY DropKeeps
<1>2. TreeInvOf(iput(f, a), k, w, b, None)
  <2>1. \A n \in Inos : HoldersOf(k, w, n) + Same(n, b) + Same(n, None) = HoldersOf(k, w, n) + Same(n, None) + Same(n, b)
    BY HoldersNat, BitsAre
  <2>2. QED
    BY <1>1, <2>1 DEF TreeInvOf, CountsOf
<1>3. QED
  BY <1>2, DropKeeps

-----------------------------------------------------------------------------
(* Steps in which only counts and what one task holds change. *)

\* Task t moves and no other one does, and likewise its directory.
Moved(k, l, t, r) == l \in [Tasks -> TaskRecs] /\ l[t] = r /\ \A u \in Tasks \ {t} : l[u] = k[u]
PwdMoved(w, v, t, x) == v \in [Tasks -> Inos] /\ v[t] = x /\ \A u \in Tasks \ {t} : v[u] = w[u]

\* The task is neither making an inode nor about to count a link.
Quiet(r) == ~IsMaking(r) /\ r.pc # "linked"

\* Inode m can be held once more: it is in use, and no new one.
Known(f, k, m) == m # None => f[m].type # Free /\ \A u \in Tasks : IsMaking(k[u]) => m # k[u].ino

\* What the task held and takes, it holds afterwards or is still to let go of.
Balance(q, y, m, r, x, a, b) ==
    \A n \in Inos : Own(q, n) + Same(y, n) + Same(n, m) = Own(r, n) + Same(x, n) + Same(n, a) + Same(n, b)

\* Inode m, if it is one, is held once more.
HeldAlso(f, m) == IF m = None THEN f ELSE Held(f, m)

\* Holding an inode once more changes its count only.
LEMMA HeldAlsoIs ==
    ASSUME NEW f \in [Inos -> InodeRecs], NEW m \in MaybeIno
    PROVE  /\ HeldAlso(f, m) \in [Inos -> InodeRecs] /\ OnlyCounts(f, HeldAlso(f, m))
           /\ \A n \in Inos : HeldAlso(f, m)[n].count = f[n].count + Same(n, m)
<1>1. CASE m = None
  <2>1. \A n \in Inos : Same(n, m) = 0 /\ f[n].count \in Nat
    BY <1>1, TreeSetsAre DEF Same, InodeRecs
  <2>2. QED
    BY <1>1, <2>1 DEF HeldAlso, OnlyCounts
<1>2. CASE m # None
  <2>1. m \in Inos /\ f[m] \in InodeRecs /\ f[m].count \in Nat
    BY <1>2 DEF MaybeIno, InodeRecs
  <2>2. PICK i : i = [f[m] EXCEPT !.count = f[m].count + 1]
    OBVIOUS
  <2>3. /\ i \in InodeRecs /\ i.count = f[m].count + 1
        /\ i.type = f[m].type /\ i.nlinks = f[m].nlinks /\ i.up = f[m].up /\ i.entries = f[m].entries
    BY <2>1, <2>2 DEF InodeRecs
  <2>4. HeldAlso(f, m) = [f EXCEPT ![m] = i]
    BY <1>2, <2>2 DEF HeldAlso, Held
  <2>5. HeldAlso(f, m) \in [Inos -> InodeRecs] /\ HeldAlso(f, m)[m] = i /\ \A n \in Inos \ {m} : HeldAlso(f, m)[n] = f[n]
    BY <2>1, <2>3, <2>4
  <2>6. OnlyCounts(f, HeldAlso(f, m))
    BY <2>3, <2>5 DEF OnlyCounts
  <2>7. ASSUME NEW n \in Inos PROVE HeldAlso(f, m)[n].count = f[n].count + Same(n, m)
    <3>1. CASE n = m
      BY <2>3, <2>5, <3>1 DEF Same
    <3>2. CASE n # m
      BY <2>5, <3>2 DEF Same, InodeRecs
    <3>3. QED
      BY <3>1, <3>2
  <2>8. QED
    BY <2>5, <2>6, <2>7
<1>3. QED
  BY <1>1, <1>2

\* A task that is not making an inode moves to another place, and what it holds balances.
LEMMA MoveKeeps ==
    ASSUME NEW f, NEW k, NEW w, TreeInvOf(f, k, w, None, None), NEW t \in Tasks, NEW r \in TaskRecs, NEW x \in Inos,
           NEW m \in MaybeIno, NEW a \in MaybeIno, NEW b \in MaybeIno,
           NEW l, Moved(k, l, t, r), NEW v, PwdMoved(w, v, t, x),
           Quiet(k[t]), Quiet(r), PlaceOf(r), HoldsOf(f, r), f[x].type = "DIR",
           r.pc = "iget" => \A u \in Tasks : IsMaking(k[u]) => r.ino # k[u].ino,
           Known(f, k, m), Balance(k[t], w[t], m, r, x, a, b)
    PROVE  TreeInvOf(HeldAlso(f, m), l, v, a, b)
<1>g. PICK g : g = HeldAlso(f, m)
  OBVIOUS
<1>1. /\ f \in [Inos -> InodeRecs] /\ k \in [Tasks -> TaskRecs] /\ w \in [Tasks -> Inos]
      /\ TreeTyped(f, k, w) /\ CountsOf(f, k, w, None, None)
      /\ ShapeOf(f) /\ LinksOf(f, k) /\ TasksOf(f, k, w)
  BY DEF TreeInvOf, TreeTyped
<1>2. /\ g \in [Inos -> InodeRecs] /\ OnlyCounts(f, g) /\ \A n \in Inos : g[n].count = f[n].count + Same(n, m)
  BY <1>1, <1>g, HeldAlsoIs
<1>3. /\ l \in [Tasks -> TaskRecs] /\ v \in [Tasks -> Inos] /\ l[t] = r /\ v[t] = x
      /\ \A u \in Tasks \ {t} : l[u] = k[u] /\ v[u] = w[u]
  BY DEF Moved, PwdMoved
<1>4. TreeTyped(g, l, v)
  BY <1>2, <1>3 DEF TreeTyped
<1>5. \A n \in Inos : MakingOf(l, n) = MakingOf(k, n) /\ UncountedOf(l, n) = UncountedOf(k, n)
  <2> SUFFICES ASSUME NEW n \in Inos, NEW u \in Tasks
               PROVE  /\ l[u].pc \in {"add", "panic"} /\ l[u].ino = n <=> k[u].pc \in {"add", "panic"} /\ k[u].ino = n
                      /\ l[u].pc = "linked" /\ l[u].old = n <=> k[u].pc = "linked" /\ k[u].old = n
    BY DEF MakingOf, UncountedOf
  <2>1. n # None
    BY TreeSetsAre
  <2>2. QED
    BY <1>3, <2>1 DEF Quiet, IsMaking
<1>6. CountsOf(g, l, v, a, b)
  <2> SUFFICES ASSUME NEW n \in Inos PROVE g[n].count = HoldersOf(l, v, n) + Same(n, a) + Same(n, b)
    BY DEF CountsOf
  <2>1. HoldersOf(l, v, n) + Own(k[t], n) + Same(w[t], n) = HoldersOf(k, w, n) + Own(l[t], n) + Same(v[t], n)
    BY <1>1, <1>3, HoldersFollow
  <2>2. f[n].count = HoldersOf(k, w, n) + Same(n, None) + Same(n, None) /\ Same(n, None) = 0
    BY <1>1, TreeSetsAre DEF CountsOf, Same
  <2>3. Own(k[t], n) + Same(w[t], n) + Same(n, m) = Own(r, n) + Same(x, n) + Same(n, a) + Same(n, b)
    BY DEF Balance
  <2>4. HoldersOf(l, v, n) \in Nat /\ HoldersOf(k, w, n) \in Nat
    BY HoldersNat
  <2>5. QED
    <3>1. g[n].count = f[n].count + Same(n, m) /\ l[t] = r /\ v[t] = x
      BY <1>2, <1>3
    <3>2. /\ Own(k[t], n) \in Nat /\ Own(r, n) \in Nat /\ Same(w[t], n) \in Nat /\ Same(x, n) \in Nat
          /\ Same(n, a) \in Nat /\ Same(n, b) \in Nat /\ Same(n, m) \in Nat
      BY BitsAre
    <3>3. QED
      BY <2>1, <2>2, <2>3, <2>4, <3>1, <3>2
<1>7. \A n \in Inos : NamingOf(g, n) = NamingOf(f, n) /\ SubdirsOf(g, n) = SubdirsOf(f, n) /\ (Bare(g, n) <=> Bare(f, n))
  BY <1>1, <1>2, NamesFollow
<1>8. LinksOf(g, l)
  <2>1. LinksOf(g, k)
    BY <1>1, <1>2, LinksFollow
  <2>2. QED
    BY <1>5, <2>1 DEF LinksOf, LinkAt
<1>9. ShapeOf(g)
  <2>1. ASSUME NEW n \in Inos PROVE /\ f[n].type = Free => g[n] = Unused
                                    /\ f[n].nlinks = 0 /\ g[n].count = 0 => f[n].type = Free
    <3>1. f[n] \in InodeRecs /\ g[n] \in InodeRecs /\ f[n].count \in Nat
      BY <1>1, <1>2 DEF InodeRecs
    <3>2. /\ g[n].type = f[n].type /\ g[n].nlinks = f[n].nlinks /\ g[n].up = f[n].up /\ g[n].entries = f[n].entries
      BY <1>2 DEF OnlyCounts
    <3>3. f[n].type = Free => Same(n, m) = 0
      BY TreeSetsAre DEF Known, Same
    <3>4. f[n].type = Free => g[n] = f[n]
      BY <1>2, <3>1, <3>2, <3>3 DEF InodeRecs
    <3>5. g[n].count = 0 => f[n].count = 0
      BY <1>2, <3>1, BitsAre
    <3>6. QED
      BY <1>1, <3>4, <3>5 DEF ShapeOf
  <2>2. QED
    BY <1>1, <1>2, <1>7, <2>1, TreeSetsAre DEF ShapeOf, OnlyCounts
<1>10. TasksOf(g, l, v)
  <2>1. ASSUME NEW u \in Tasks
        PROVE PlaceOf(l[u]) /\ HoldsOf(f, l[u]) /\ NewInode(f, l[u]) /\ f[v[u]].type = "DIR"
    <3>1. CASE u = t
      <4>1. NewInode(f, r)
        BY DEF Quiet, NewInode
      <4>2. l[u] = r /\ v[u] = x
        BY <1>3, <3>1
      <4>3. QED
        BY <4>1, <4>2
    <3>2. CASE u # t
      <4>1. l[u] = k[u] /\ v[u] = w[u]
        BY <1>3, <3>2
      <4>2. QED
        BY <1>1, <4>1 DEF TasksOf
    <3>3. QED
      BY <3>1, <3>2
  <2>2. ASSUME NEW u \in Tasks
        PROVE PlaceOf(l[u]) /\ HoldsOf(g, l[u]) /\ NewInode(g, l[u]) /\ g[v[u]].type = "DIR"
    <3>1. l[u] \in TaskRecs /\ v[u] \in Inos
      BY <1>3
    <3>2. HoldsOf(g, l[u])
      BY <1>1, <1>2, <2>1, <3>1, HoldsFollow
    <3>3. NewInode(g, l[u])
      <4>1. IsMaking(l[u]) => l[u].ino \in Inos /\ l[u].ino # m
        <5>1. IsMaking(l[u]) => l[u] = k[u]
          <6>1. CASE u = t
            BY <1>3, <6>1 DEF Quiet
          <6>2. CASE u # t
            BY <1>3, <6>2
          <6>3. QED
            BY <6>1, <6>2
        <5>2. IsMaking(l[u]) => l[u].ino \in Inos
          BY <3>1 DEF IsMaking, TaskRecs, MaybeIno
        <5>3. QED
          BY <5>1, <5>2, TreeSetsAre DEF Known
      <4>2. IsMaking(l[u]) => g[l[u].ino].count = f[l[u].ino].count
        BY <1>2, <4>1, <1>1 DEF Same, InodeRecs
      <4>3. QED
        BY <1>1, <1>2, <2>1, <4>1, <4>2, NewFollows
    <3>4. QED
      BY <1>2, <2>1, <3>1, <3>2, <3>3 DEF OnlyCounts
  <2>3. Unreached(l)
    <3> SUFFICES ASSUME NEW u \in Tasks, NEW z \in Tasks, IsMaking(l[u]), l[z].pc = "iget" PROVE l[z].ino # l[u].ino
      BY DEF Unreached
    <3>1. l[u] = k[u] /\ u # t
      BY <1>3 DEF Quiet
    <3>2. CASE z = t
      BY <1>3, <3>1, <3>2
    <3>3. CASE z # t
      BY <1>1, <1>3, <3>1, <3>3 DEF TasksOf, Unreached
    <3>4. QED
      BY <3>2, <3>3
  <2>4. QED
    BY <2>2, <2>3 DEF TasksOf
<1>11. QED
  BY <1>4, <1>6, <1>8, <1>9, <1>10, <1>g DEF TreeInvOf

\* What the invariant says of the variables.
LEMMA TreeIs ==
    ASSUME TreeInv
    PROVE  /\ ino \in [Inos -> InodeRecs] /\ task \in [Tasks -> TaskRecs] /\ pwd \in [Tasks -> Inos]
           /\ TreeTyped(ino, task, pwd) /\ CountsOf(ino, task, pwd, None, None)
           /\ ShapeOf(ino) /\ LinksOf(ino, task) /\ TasksOf(ino, task, pwd)
           /\ \A t \in Tasks : PlaceOf(task[t]) /\ HoldsOf(ino, task[t]) /\ NewInode(ino, task[t]) /\ ino[pwd[t]].type = "DIR"
           /\ Unreached(task)
BY DEF TreeInv, TreeInvOf, TreeTyped, TasksOf

\* An inode that a task holds, or is the root or the directory of one, is in use, and no new one of
\* another task.
LEMMA HeldIsKnown ==
    ASSUME TreeInv, NEW t \in Tasks, ~IsMaking(task[t]), NEW m \in Inos, Own(task[t], m) # 0 \/ pwd[t] = m \/ m = Root
    PROVE  Known(ino, task, m)
<1>1. TreeTyped(ino, task, pwd) /\ CountsOf(ino, task, pwd, None, None) /\ TasksOf(ino, task, pwd) /\ ShapeOf(ino)
  BY TreeIs
<1>2. ino[m].type # Free
  <2>1. ino[m].count = HoldersOf(task, pwd, m) + Same(m, None) + Same(m, None)
        /\ Own(task[t], m) + Same(pwd[t], m) + Same(m, Root) <= HoldersOf(task, pwd, m) /\ HoldersOf(task, pwd, m) \in Nat
    BY <1>1, HeldAtLeast
  <2>2. Own(task[t], m) + Same(pwd[t], m) + Same(m, Root) > 0 /\ Same(m, None) \in Nat
    BY BitsAre
  <2>3. Own(task[t], m) + Same(pwd[t], m) + Same(m, Root) \in Nat
    BY BitsAre
  <2>4. ino[m].count # 0
    BY <2>1, <2>2, <2>3
  <2>5. QED
    BY <1>1, <2>4, UnusedIs DEF ShapeOf
<1>3. ASSUME NEW u \in Tasks, IsMaking(task[u]) PROVE m # task[u].ino
  <2> SUFFICES ASSUME m = task[u].ino PROVE FALSE
    OBVIOUS
  <2>1. ino[m].count = 1 /\ task[u].pc # "iget" /\ u # t
    BY <1>1, <1>3 DEF TasksOf, NewInode, IsMaking
  <2>2. Own(task[u], m) # 0
    BY <2>1, BitsAre DEF Own
  <2>3. m # Root /\ pwd[t] # m /\ Own(task[t], m) = 0
    BY <1>1, <2>1, <2>2, SoleHolder
  <2>4. QED
    BY <2>3
<1>4. QED
  BY <1>2, <1>3 DEF Known

\* A call that is over lets go of what it held.
LEMMA ReturnKeeps ==
    ASSUME TreeInv, NEW t \in Tasks, NEW m \in MaybeIno, NEW a \in MaybeIno, NEW b \in MaybeIno, NEW x \in Inos,
           Quiet(task[t]), Known(ino, task, m), PwdMoved(pwd, pwd', t, x), ino[x].type = "DIR",
           Balance(task[t], pwd[t], m, Idle, x, a, b),
           Return(t, iput(iput(HeldAlso(ino, m), a), b))
    PROVE  TreeInv'
<1>1. Moved(task, task', t, Idle)
  BY TreeIs, IdleIs DEF Return, Moved
<1>2. Quiet(Idle) /\ PlaceOf(Idle) /\ HoldsOf(ino, Idle) /\ Idle.pc # "iget" /\ Idle \in TaskRecs
  BY IdleIs DEF Quiet, IsMaking, PlaceOf, HoldsOf
<1>3. TreeInvOf(HeldAlso(ino, m), task', pwd', a, b)
  BY <1>1, <1>2, MoveKeeps DEF TreeInv
<1>4. TreeInvOf(iput(iput(HeldAlso(ino, m), a), b), task', pwd', None, None)
  BY <1>3, LetGo
<1>5. QED
  BY <1>4 DEF Return, TreeInv

\* A step that does not change the directory of the task.
LEMMA PwdKept ==
    ASSUME TreeInv, NEW t \in Tasks
    PROVE  PwdMoved(pwd, pwd, t, pwd[t]) /\ ino[pwd[t]].type = "DIR" /\ pwd[t] \in Inos
BY TreeIs DEF PwdMoved

\* A call that fails lets go of its directory and of the inode that it was to name.
LEMMA GiveUpKeeps ==
    ASSUME TreeInv, NEW t \in Tasks, GiveUp(t), pwd' = pwd, task[t].ino = None, task[t].pc \in {"find", "add"}
    PROVE  TreeInv'
<1>1. Quiet(task[t])
  BY DEF Quiet, IsMaking
<1>2. task[t].dir \in MaybeIno /\ task[t].old \in MaybeIno
  BY TreeIs DEF TaskRecs
<1>3. Balance(task[t], pwd[t], None, Idle, pwd[t], task[t].dir, task[t].old)
  <2> SUFFICES ASSUME NEW n \in Inos
               PROVE  Own(task[t], n) + Same(pwd[t], n) + Same(n, None)
                      = Own(Idle, n) + Same(pwd[t], n) + Same(n, task[t].dir) + Same(n, task[t].old)
    BY DEF Balance
  <2>1. Same(n, None) = 0 /\ Own(Idle, n) = 0 /\ Same(task[t].ino, n) = 0
    BY IdleIs, TreeSetsAre DEF Same
  <2>2. Own(task[t], n) = Same(n, task[t].dir) + Same(n, task[t].old)
    BY <2>1, BitsAre DEF Own
  <2>3. QED
    BY <2>1, <2>2, BitsAre
<1>4. Known(ino, task, None) /\ HeldAlso(ino, None) = ino /\ None \in MaybeIno
  BY DEF Known, HeldAlso, MaybeIno
<1>5. QED
  BY <1>1, <1>2, <1>3, <1>4, PwdKept, ReturnKeeps DEF GiveUp

\* close() keeps the invariant.
LEMMA TreeClose ==
    ASSUME TreeInv, NEW t \in Tasks, Close(t)
    PROVE  TreeInv'
<1>1. task[t].pc = "open" /\ task[t].dir = None /\ task[t].old = None /\ task[t].ino \in MaybeIno /\ pwd' = pwd
  BY TreeIs DEF Close, At, PlaceOf, TaskRecs
<1>2. Quiet(task[t])
  BY <1>1 DEF Quiet, IsMaking
<1>3. Balance(task[t], pwd[t], None, Idle, pwd[t], task[t].ino, None)
  <2> SUFFICES ASSUME NEW n \in Inos
               PROVE  Own(task[t], n) + Same(pwd[t], n) + Same(n, None)
                      = Own(Idle, n) + Same(pwd[t], n) + Same(n, task[t].ino) + Same(n, None)
    BY DEF Balance
  <2>1. Same(n, None) = 0 /\ Own(Idle, n) = 0 /\ Same(None, n) = 0
    BY IdleIs, TreeSetsAre DEF Same
  <2>2. Own(task[t], n) = Same(n, task[t].ino)
    BY <1>1, <2>1, BitsAre DEF Own
  <2>3. QED
    BY <2>1, <2>2, BitsAre
<1>4. Known(ino, task, None) /\ HeldAlso(ino, None) = ino /\ None \in MaybeIno
  BY DEF Known, HeldAlso, MaybeIno
<1>5. Return(t, iput(iput(HeldAlso(ino, None), task[t].ino), None))
  BY <1>4 DEF Close, iput
<1>6. QED
  BY <1>1, <1>2, <1>3, <1>4, <1>5, PwdKept, ReturnKeeps

\* The number that is found in a directory is not that of a new inode: a name, its directory, or
\* the parent of a directory that has not been removed.
LEMMA FoundIs ==
    ASSUME TreeInv, NEW t \in Tasks, task[t].pc = "find", NEW name,
           name = ".." => permission(ino, task[t].dir), NEW n, n = find_entry(task[t].dir, name), n # None
    PROVE  /\ n \in Inos /\ \A u \in Tasks : IsMaking(task[u]) => n # task[u].ino
           /\ Matches(task[t].dir, name) = {} => n = task[t].dir \/ n = ino[task[t].dir].up
           /\ Matches(task[t].dir, name) # {} => Min(Matches(task[t].dir, name)) \in Positions
<1>d. PICK d : d = task[t].dir
  OBVIOUS
<1>1. /\ d \in Inos /\ ino[d].type = "DIR" /\ ino[d].up \in MaybeIno /\ ~IsMaking(task[t]) /\ Own(task[t], d) # 0
  <2>1. d \in Inos /\ ino[d].type = "DIR" /\ ~IsMaking(task[t])
    BY <1>d, TreeIs DEF PlaceOf, HoldsOf, TaskRecs, MaybeIno, IsMaking
  <2>2. Own(task[t], d) # 0
    BY <1>d, BitsAre DEF Own
  <2>3. QED
    BY <2>1, <2>2, TreeIs DEF InodeRecs
<1>2. Matches(d, name) # {} => /\ Min(Matches(d, name)) \in Matches(d, name) /\ Matches(d, name) \subseteq Positions
  <2>1. Matches(d, name) \subseteq Positions /\ Matches(d, name) \subseteq Nat
    BY TreeSetsAre DEF Matches
  <2>2. QED
    BY <2>1, LeastOf
<1>3. ASSUME NEW m \in Inos, NamingOf(ino, m) # {}, NEW u \in Tasks, IsMaking(task[u]) PROVE m # task[u].ino
  BY <1>3, TreeIs DEF NewInode
<1>4. \A u \in Tasks : IsMaking(task[u]) => d # task[u].ino
  BY <1>1, HeldIsKnown, TreeSetsAre DEF Known
<1>5. CASE name = "."
  BY <1>d, <1>1, <1>2, <1>4, <1>5 DEF find_entry
<1>6. CASE name = ".."
  <2>1. n = ino[d].up /\ n \in Inos
    BY <1>d, <1>1, <1>6 DEF find_entry, MaybeIno
  <2>2. \A u \in Tasks : IsMaking(task[u]) => n # task[u].ino
    <3>1. CASE d = Root
      BY <1>4, <2>1, <3>1, TreeIs DEF ShapeOf
    <3>2. CASE d # Root
      <4>1. ino[d].nlinks # 0
        BY <1>d, <1>1, <1>6, TreeIs DEF permission, InodeRecs
      <4>2. Cardinality(NamingOf(ino, d)) + Cardinality(MakingOf(task, d)) = 1
        BY <1>1, <3>2, <4>1, TreeIs DEF LinksOf, LinkAt
      <4>3. MakingOf(task, d) = {}
        BY <1>1, <1>4, TreeSetsAre DEF MakingOf, IsMaking
      <4>4. NamingOf(ino, d) # {}
        BY <4>2, <4>3, FS_EmptySet
      <4>5. PICK e : e \in NamingOf(ino, d)
        BY <4>4
      <4>6. e[1] = n /\ e[2] \in Positions /\ ino[n].entries[e[2]].ino = d /\ d # None
        BY <1>1, <2>1, <4>5, TreeIs, TreeSetsAre DEF ShapeOf, NamingOf
      <4>7. QED
        BY <4>6, TreeIs DEF NewInode, Bare
    <3>3. QED
      BY <3>1, <3>2
  <2>3. QED
    BY <1>d, <1>2, <2>1, <2>2
<1>7. CASE name # "." /\ name # ".."
  <2>1. Matches(d, name) # {} /\ n = ino[d].entries[Min(Matches(d, name))].ino
    BY <1>d, <1>7 DEF find_entry
  <2>2. n \in Inos /\ NamingOf(ino, n) # {}
    <3>1. PICK p \in Positions : p = Min(Matches(d, name))
      BY <1>2, <2>1
    <3>2. n \in Inos
      BY <1>1, <2>1, <3>1, TreeIs, EntriesAre DEF MaybeIno
    <3>3. <<d, p>> \in NamingOf(ino, n)
      BY <1>1, <2>1, <3>1 DEF NamingOf
    <3>4. QED
      BY <3>2, <3>3
  <2>3. QED
    BY <1>d, <1>2, <1>3, <2>1, <2>2
<1>8. QED
  BY <1>5, <1>6, <1>7

\* Path names are not used up before they are looked up.
LEMMA PathsAre ==
    /\ \A p \in Paths : p \in Seq(STRING) /\ p # <<>> /\ Rest(p) \in Seq(STRING) /\ Rest(p) # <<>>
    /\ \A p \in Seq(STRING) : p # <<>> => Len(p) \in Nat \ {0} /\ Tail(p) \in Seq(STRING) /\ (Tail(p) = <<>> <=> Len(p) = 1)
<1>1. \A p \in Seq(STRING) : p # <<>> => Len(p) \in Nat \ {0} /\ Tail(p) \in Seq(STRING) /\ (Tail(p) = <<>> <=> Len(p) = 1)
  <2> SUFFICES ASSUME NEW p \in Seq(STRING), p # <<>>
               PROVE Len(p) \in Nat \ {0} /\ Tail(p) \in Seq(STRING) /\ (Tail(p) = <<>> <=> Len(p) = 1)
    OBVIOUS
  <2>1. Len(p) \in Nat \ {0} /\ Tail(p) \in Seq(STRING) /\ Len(Tail(p)) = Len(p) - 1
    OBVIOUS
  <2>2. \A q \in Seq(STRING) : q = <<>> <=> Len(q) = 0
    OBVIOUS
  <2>3. Tail(p) = <<>> <=> Len(p) - 1 = 0
    BY <2>1, <2>2
  <2>4. QED
    BY <2>1, <2>3
<1>2. ASSUME NEW p \in Paths PROVE p \in Seq(STRING) /\ p # <<>> /\ Rest(p) \in Seq(STRING) /\ Rest(p) # <<>>
  <2>1. p \in Seq(STRING) /\ p # <<>> /\ p # <<"/">>
    BY FileTreeAssumption
  <2>2. CASE p[1] = "/"
    <3>1. Len(p) # 1
      BY <2>1, <2>2
    <3>2. QED
      BY <1>1, <2>1, <2>2, <3>1 DEF Rest
  <2>3. CASE p[1] # "/"
    BY <2>1, <2>3 DEF Rest
  <2>4. QED
    BY <2>1, <2>2, <2>3
<1>3. QED
  BY <1>1, <1>2

\* get_dir() takes the next directory: k are the tasks before, as they are but for what this one holds.
LEMMA EnterKeeps ==
    ASSUME NEW f, NEW k, NEW w, TreeInvOf(f, k, w, None, None), NEW t \in Tasks,
           task \in [Tasks -> TaskRecs], \A u \in Tasks \ {t} : k[u] = task[u], pwd' = w,
           Quiet(k[t]), NEW d \in Inos, Known(f, k, d), NEW r \in TaskRecs,
           r.path # <<>>, r.op = "link" <=> r.to # <<>>, r.to # <<>> => Rest(r.to) # <<>>,
           r.old # None => r.op = "link" /\ f[r.old].type = "REG",
           \A n \in Inos : Own(k[t], n) = Same(n, r.old),
           NEW g, g = HeldAlso(f, d), Enter(t, g, d, r)
    PROVE  TreeInv'
<1>1. /\ f \in [Inos -> InodeRecs] /\ w \in [Tasks -> Inos] /\ TasksOf(f, k, w) /\ d \in MaybeIno /\ r.old \in MaybeIno
      /\ None \in MaybeIno
  BY DEF TreeInvOf, TreeTyped, MaybeIno, TaskRecs
<1>2. OnlyCounts(f, g)
  BY <1>1, HeldAlsoIs
<1>3. PwdMoved(w, w, t, w[t]) /\ w[t] \in Inos /\ f[w[t]].type = "DIR"
  BY <1>1 DEF PwdMoved, TasksOf
<1>4. CASE g[d].type = "DIR" /\ permission(g, d)
  <2>1. PICK q : q = [r EXCEPT !.pc = "find", !.dir = d, !.ino = None]
    OBVIOUS
  <2>2. /\ q \in TaskRecs /\ q.pc = "find" /\ q.dir = d /\ q.ino = None /\ q.old = r.old /\ q.op = r.op
        /\ q.path = r.path /\ q.to = r.to
    BY <1>1, <2>1 DEF TaskRecs, Pcs
  <2>3. ino' = g /\ task' = [task EXCEPT ![t] = q]
    BY <1>4, <2>1 DEF Enter
  <2>4. Moved(k, task', t, q)
    BY <2>2, <2>3 DEF Moved
  <2>5. Quiet(q)
    BY <2>2 DEF Quiet, IsMaking
  <2>6. PlaceOf(q)
    BY <2>2, TreeSetsAre DEF PlaceOf
  <2>7. HoldsOf(f, q)
    BY <1>2, <1>4, <2>2 DEF HoldsOf, OnlyCounts
  <2>8. Balance(k[t], w[t], d, q, w[t], None, None)
    <3> SUFFICES ASSUME NEW n \in Inos
                 PROVE  Own(k[t], n) + Same(w[t], n) + Same(n, d) = Own(q, n) + Same(w[t], n) + Same(n, None) + Same(n, None)
      BY DEF Balance
    <3>1. Same(n, None) = 0 /\ Same(None, n) = 0
      BY TreeSetsAre DEF Same
    <3>2. Own(q, n) = Same(n, d) + Same(n, r.old)
      BY <2>2, <3>1, BitsAre DEF Own
    <3>3. QED
      BY <3>1, <3>2, BitsAre
  <2>9. TreeInvOf(g, task', w, None, None)
    BY <1>1, <1>3, <2>2, <2>4, <2>5, <2>6, <2>7, <2>8, MoveKeeps
  <2>10. QED
    BY <2>3, <2>9 DEF TreeInv
<1>5. CASE ~(g[d].type = "DIR" /\ permission(g, d))
  <2>1. ino' = iput(iput(g, d), r.old) /\ task' = [task EXCEPT ![t] = Idle]
    BY <1>5 DEF Enter, Return
  <2>2. Moved(k, task', t, Idle)
    BY <2>1, IdleIs DEF Moved
  <2>3. Quiet(Idle) /\ PlaceOf(Idle) /\ HoldsOf(f, Idle) /\ Idle.pc # "iget" /\ Idle \in TaskRecs
    BY IdleIs DEF Quiet, IsMaking, PlaceOf, HoldsOf
  <2>4. Balance(k[t], w[t], d, Idle, w[t], d, r.old)
    <3> SUFFICES ASSUME NEW n \in Inos
                 PROVE  Own(k[t], n) + Same(w[t], n) + Same(n, d) = Own(Idle, n) + Same(w[t], n) + Same(n, d) + Same(n, r.old)
      BY DEF Balance
    <3>1. QED
      BY IdleIs, BitsAre
  <2>5. TreeInvOf(g, task', w, d, r.old)
    BY <1>1, <1>3, <2>2, <2>3, <2>4, MoveKeeps
  <2>6. TreeInvOf(iput(iput(g, d), r.old), task', w, None, None)
    BY <1>1, <2>5, LetGo
  <2>7. QED
    BY <2>1, <2>6 DEF TreeInv
<1>6. QED
  BY <1>4, <1>5

\* A call that begins keeps the invariant.
LEMMA TreeCall ==
    ASSUME TreeInv, NEW t \in Tasks, NEW op \in Calls, NEW path \in Paths, NEW to \in Paths \cup {<<>>},
           op = "link" <=> to # <<>>, Call(t, op, path, to)
    PROVE  TreeInv'
<1>1. /\ task[t].pc = "user" /\ task[t].dir = None /\ task[t].ino = None /\ task[t].old = None /\ pwd' = pwd
      /\ task \in [Tasks -> TaskRecs] /\ pwd[t] \in Inos
  BY TreeIs DEF Call, At, PlaceOf
<1>2. PICK d : d = Start(t, path)
  OBVIOUS
<1>3. d \in Inos /\ (d = Root \/ pwd[t] = d)
  BY <1>1, <1>2, TreeSetsAre DEF Start
<1>4. Quiet(task[t]) /\ ~IsMaking(task[t])
  BY <1>1 DEF Quiet, IsMaking
<1>5. Known(ino, task, d)
  BY <1>3, <1>4, HeldIsKnown
<1>6. PICK r : r = [Idle EXCEPT !.op = op, !.path = Rest(path), !.to = to]
  OBVIOUS
<1>7. /\ r \in TaskRecs /\ r.op = op /\ r.path = Rest(path) /\ r.to = to /\ r.old = None
  <2>1. Rest(path) \in Seq(STRING) /\ to \in Seq(STRING)
    <3>1. Idle.to \in Seq(STRING) /\ Idle.to = <<>>
      BY IdleIs DEF TaskRecs
    <3>2. QED
      BY <3>1, PathsAre
  <2>2. QED
    BY <1>6, <2>1, IdleIs DEF TaskRecs
<1>8. r.path # <<>> /\ (r.op = "link" <=> r.to # <<>>) /\ (r.to # <<>> => Rest(r.to) # <<>>)
  BY <1>7, PathsAre
<1>9. \A n \in Inos : Own(task[t], n) = Same(n, r.old)
  BY <1>1, <1>7, TreeSetsAre DEF Own, Same
<1>10. Enter(t, HeldAlso(ino, d), d, r)
  BY <1>2, <1>3, <1>6, TreeSetsAre DEF Call, HeldAlso
<1>11. QED
  BY <1>1, <1>3, <1>4, <1>5, <1>7, <1>8, <1>9, <1>10, EnterKeeps DEF TreeInv

\* find_entry() and what follows it keep the invariant.
LEMMA TreeFind ==
    ASSUME TreeInv, ~Race, NEW t \in Tasks, Find(t)
    PROVE  TreeInv'
<1>r. PICK r : r = task[t]
  OBVIOUS
<1>n. PICK n : n = find_entry(r.dir, Head(r.path))
  OBVIOUS
<1>1. /\ r.pc = "find" /\ r \in TaskRecs /\ pwd' = pwd /\ PlaceOf(r) /\ HoldsOf(ino, r) /\ task \in [Tasks -> TaskRecs]
  BY <1>r, TreeIs DEF Find, At
<1>2. /\ r.dir \in Inos /\ r.ino = None /\ r.path \in Seq(STRING) /\ r.path # <<>> /\ r.old \in MaybeIno
      /\ r.old # None => r.op = "link"
      /\ r.dir \in MaybeIno /\ None \in MaybeIno /\ r.op \in Calls
  BY <1>1 DEF PlaceOf, TaskRecs, MaybeIno
<1>3. Head(r.path) = ".." => permission(ino, r.dir)
  BY <1>1, <1>r DEF Race, At
<1>4. Quiet(r) /\ ~IsMaking(r)
  BY <1>1 DEF Quiet, IsMaking
<1>5. CASE GiveUp(t)
  BY <1>1, <1>2, <1>5, <1>r, GiveUpKeeps
<1>6. CASE n # None /\ ~(Last(r) /\ Making(r) /\ r.op # "creat") /\ Found(t, n)
  <2> DEFINE keep == Last(r) /\ r.op \in {"rmdir", "unlink"}
  <2>p. PICK p : p = IF keep /\ Matches(r.dir, Head(r.path)) # {} THEN Min(Matches(r.dir, Head(r.path))) ELSE None
    OBVIOUS
  <2>d. PICK d : d = IF keep THEN r.dir ELSE None
    OBVIOUS
  <2>e. PICK e : e = IF keep THEN None ELSE r.dir
    OBVIOUS
  <2>1. /\ n \in Inos /\ \A u \in Tasks : IsMaking(task[u]) => n # task[u].ino
        /\ Matches(r.dir, Head(r.path)) = {} => n = r.dir \/ n = ino[r.dir].up
        /\ Matches(r.dir, Head(r.path)) # {} => Min(Matches(r.dir, Head(r.path))) \in Positions
    BY <1>1, <1>3, <1>6, <1>n, <1>r, FoundIs
  <2>2. PICK q : q = [r EXCEPT !.pc = "iget", !.ino = n, !.path = Tail(r.path), !.dir = d, !.pos = p]
    OBVIOUS
  <2>3. /\ q \in TaskRecs /\ q.pc = "iget" /\ q.ino = n /\ q.path = Tail(r.path) /\ q.dir = d /\ q.pos = p
        /\ q.old = r.old /\ q.op = r.op /\ q.to = r.to
    <3>1. Tail(r.path) \in Seq(STRING) /\ d \in MaybeIno /\ p \in Positions \cup {None} /\ n \in MaybeIno
      BY <1>2, <2>1, <2>p, <2>d, PathsAre, TreeSetsAre DEF MaybeIno, None
    <3>2. QED
      BY <1>1, <2>2, <3>1 DEF TaskRecs, Pcs
  <2>4. /\ task' = [task EXCEPT ![t] = q]
        /\ ino' = iput(iput(HeldAlso(ino, None), e), None)
    <3>1. task' = [task EXCEPT ![t] = q]
      BY <1>1, <1>6, <1>r, <2>2, <2>p, <2>d DEF Found
    <3>2. ino' = IF keep THEN ino ELSE iput(ino, r.dir)
      BY <1>6, <1>r DEF Found
    <3>3. QED
      BY <2>e, <3>1, <3>2 DEF HeldAlso, iput
  <2>5. Moved(task, task', t, q)
    BY <1>1, <2>3, <2>4 DEF Moved
  <2>6. Quiet(q)
    BY <2>3 DEF Quiet, IsMaking
  <2>7. PlaceOf(q)
    <3>1. r.old # None => ~Last(r)
      BY <1>2, <1>6 DEF Making
    <3>2. ~Last(r) => Tail(r.path) # <<>>
      BY <1>2, PathsAre DEF Last
    <3>3. d # None => keep /\ Tail(r.path) = <<>>
      BY <1>2, <2>d, PathsAre DEF Last
    <3>4. n # None
      BY <1>6
    <3>5. (r.op = "link" <=> r.to # <<>>) /\ (r.to # <<>> => Rest(r.to) # <<>>)
      BY <1>1 DEF PlaceOf
    <3>6. QED
      BY <1>2, <2>3, <3>1, <3>2, <3>3, <3>4, <3>5 DEF PlaceOf
  <2>8. HoldsOf(ino, q)
    <3>1. d # None => keep /\ d = r.dir
      BY <2>d
    <3>2. d # None /\ p = None => Matches(r.dir, Head(r.path)) = {}
      BY <2>1, <2>p, <3>1, TreeSetsAre DEF None
    <3>3. QED
      BY <1>1, <1>2, <2>1, <2>3, <3>1, <3>2 DEF HoldsOf, PlaceOf
  <2>9. Balance(r, pwd[t], None, q, pwd[t], e, None)
    <3> SUFFICES ASSUME NEW m \in Inos
                 PROVE  Own(r, m) + Same(pwd[t], m) + Same(m, None) = Own(q, m) + Same(pwd[t], m) + Same(m, e) + Same(m, None)
      BY DEF Balance
    <3>1. Same(m, None) = 0 /\ Same(None, m) = 0
      BY TreeSetsAre DEF Same
    <3>2. Own(r, m) = Same(m, r.dir) + Same(m, r.old)
      BY <1>1, <1>2, <3>1, BitsAre DEF Own
    <3>3. Own(q, m) = Same(m, d) + Same(m, r.old)
      BY <2>3, <3>1, BitsAre DEF Own
    <3>4. Same(m, r.dir) = Same(m, d) + Same(m, e)
      BY <2>d, <2>e, <3>1, BitsAre
    <3>5. QED
      BY <3>1, <3>2, <3>3, <3>4, BitsAre
  <2>10. Known(ino, task, None) /\ e \in MaybeIno
    BY <1>2, <2>e DEF Known
  <2>11. TreeInvOf(HeldAlso(ino, None), task', pwd, e, None)
    BY <1>2, <1>4, <1>r, <2>1, <2>3, <2>5, <2>6, <2>7, <2>8, <2>9, <2>10, PwdKept, MoveKeeps DEF TreeInv
  <2>12. TreeInvOf(iput(iput(HeldAlso(ino, None), e), None), task', pwd, None, None)
    BY <1>2, <2>10, <2>11, LetGo
  <2>13. QED
    BY <1>1, <2>4, <2>12 DEF TreeInv
<1>7. CASE n = None /\ Last(r) /\ Making(r) /\ ino' = ino
           /\ task' = [task EXCEPT ![t].pc = IF r.old = None THEN "new" ELSE "add"]
  <2>1. PICK q : q = [r EXCEPT !.pc = IF r.old = None THEN "new" ELSE "add"]
    OBVIOUS
  <2>2. /\ q \in TaskRecs /\ q.pc = (IF r.old = None THEN "new" ELSE "add") /\ q.ino = r.ino /\ q.path = r.path
        /\ q.dir = r.dir /\ q.old = r.old /\ q.op = r.op /\ q.to = r.to
    BY <1>1, <2>1 DEF TaskRecs, Pcs
  <2>3. Moved(task, task', t, q)
    BY <1>1, <1>7, <1>r, <2>1, <2>2 DEF Moved
  <2>4. Quiet(q)
    BY <1>2, <2>2 DEF Quiet, IsMaking
  <2>5. PlaceOf(q)
    <3>1. (r.op = "link" <=> r.to # <<>>) /\ (r.to # <<>> => Rest(r.to) # <<>>)
      BY <1>1 DEF PlaceOf
    <3>2. r.old = None => r.op \in {"creat", "mknod", "mkdir"}
      BY <1>7 DEF Making
    <3>3. CASE r.old = None
      BY <1>2, <2>2, <3>1, <3>2, <3>3, TreeSetsAre DEF PlaceOf
    <3>4. CASE r.old # None
      BY <1>2, <2>2, <3>1, <3>4, TreeSetsAre DEF PlaceOf
    <3>5. QED
      BY <3>3, <3>4
  <2>6. HoldsOf(ino, q)
    BY <1>1, <2>2 DEF HoldsOf
  <2>7. Balance(r, pwd[t], None, q, pwd[t], None, None)
    <3>1. \A m : Own(q, m) = Own(r, m)
      BY <1>1, <2>2 DEF Own
    <3>2. \A m \in Inos : Same(m, None) = 0
      BY TreeSetsAre DEF Same
    <3>3. QED
      BY <3>1, <3>2, BitsAre DEF Balance
  <2>8. Known(ino, task, None) /\ q.pc # "iget"
    BY <2>2 DEF Known
  <2>9. TreeInvOf(HeldAlso(ino, None), task', pwd, None, None)
    BY <1>2, <1>4, <1>r, <2>2, <2>3, <2>4, <2>5, <2>6, <2>7, <2>8, PwdKept, MoveKeeps DEF TreeInv
  <2>10. QED
    BY <1>1, <1>7, <2>9 DEF TreeInv, HeldAlso
<1>8. QED
  BY <1>5, <1>6, <1>7, <1>n, <1>r DEF Find

\* The inode of which a task has the number can be held: it is in use, and no new one.
LEMMA NumberIsKnown ==
    ASSUME TreeInv, ~Race, NEW t \in Tasks, task[t].pc = "iget"
    PROVE  Known(ino, task, task[t].ino) /\ task[t].ino \in Inos
<1>1. task[t].ino \in Inos
  BY TreeIs DEF PlaceOf, TaskRecs, MaybeIno
<1>2. ino[task[t].ino].type # Free
  BY DEF Race, At
<1>3. \A u \in Tasks : IsMaking(task[u]) => task[t].ino # task[u].ino
  BY TreeIs DEF Unreached
<1>4. QED
  BY <1>1, <1>2, <1>3 DEF Known

\* iget() has slept, and the call ends: the inode is let go of, with the directory if it is still held.
LEMMA TreeIgetEnds ==
    ASSUME TreeInv, ~Race, NEW t \in Tasks, task[t].pc = "iget", task[t].old = None, pwd' = pwd,
           Return(t, iput(iput(Held(ino, task[t].ino), task[t].ino), task[t].dir))
    PROVE  TreeInv'
<1>r. PICK r : r = task[t]
  OBVIOUS
<1>1. Known(ino, task, r.ino) /\ r.ino \in Inos /\ r.ino \in MaybeIno /\ r.dir \in MaybeIno
  BY <1>r, NumberIsKnown, TreeIs DEF MaybeIno, TaskRecs
<1>2. Quiet(r)
  BY <1>r DEF Quiet, IsMaking
<1>3. HeldAlso(ino, r.ino) = Held(ino, r.ino)
  BY <1>1, TreeSetsAre DEF HeldAlso
<1>4. Balance(r, pwd[t], r.ino, Idle, pwd[t], r.ino, r.dir)
  <2> SUFFICES ASSUME NEW n \in Inos
               PROVE  Own(r, n) + Same(pwd[t], n) + Same(n, r.ino)
                      = Own(Idle, n) + Same(pwd[t], n) + Same(n, r.ino) + Same(n, r.dir)
    BY DEF Balance
  <2>1. Same(r.old, n) = 0
    BY <1>r, TreeSetsAre DEF Same
  <2>2. Own(r, n) = Same(n, r.dir)
    BY <1>r, <2>1, BitsAre DEF Own
  <2>3. QED
    BY <2>2, IdleIs, BitsAre
<1>5. QED
  BY <1>1, <1>2, <1>3, <1>4, <1>r, PwdKept, ReturnKeeps

\* iget() has slept, and the task keeps the inode: at "open" or at "rmdir".
LEMMA TreeIgetKeeps ==
    ASSUME TreeInv, ~Race, NEW t \in Tasks, task[t].pc = "iget", task[t].old = None,
           NEW pc, NEW l, NEW q, q = [task[t] EXCEPT !.pc = pc], Moved(task, l, t, q),
           \/ pc = "open" /\ task[t].dir = None
           \/ pc = "rmdir" /\ task[t].dir # None /\ task[t].op = "rmdir" /\ ino[task[t].ino].type = "DIR"
              /\ task[t].ino # task[t].dir
    PROVE  /\ TreeInvOf(Held(ino, task[t].ino), l, pwd, None, None)
           /\ q \in TaskRecs /\ q.pc = pc /\ q.op = task[t].op /\ q.path = task[t].path /\ q.to = task[t].to
           /\ q.dir = task[t].dir /\ q.ino = task[t].ino /\ q.old = None
<1>r. PICK r : r = task[t]
  OBVIOUS
<1>1. /\ r \in TaskRecs /\ PlaceOf(r) /\ HoldsOf(ino, r) /\ r.pc = "iget" /\ r.old = None
      /\ Known(ino, task, r.ino) /\ r.ino \in Inos /\ r.ino \in MaybeIno /\ None \in MaybeIno
  BY <1>r, NumberIsKnown, TreeIs DEF MaybeIno
<1>2. /\ q \in TaskRecs /\ q.pc = pc /\ q.op = r.op /\ q.path = r.path /\ q.to = r.to
      /\ q.dir = r.dir /\ q.ino = r.ino /\ q.old = None /\ q.pos = r.pos
  BY <1>1, <1>r DEF TaskRecs, Pcs
<1>3. Quiet(r) /\ Quiet(q)
  BY <1>1, <1>2 DEF Quiet, IsMaking
<1>4. PlaceOf(q)
  <2>1. (r.op = "link" <=> r.to # <<>>) /\ (r.to # <<>> => Rest(r.to) # <<>>) /\ r.ino # None
    BY <1>1 DEF PlaceOf
  <2>2. CASE pc = "open"
    BY <1>2, <1>r, <2>1, <2>2 DEF PlaceOf
  <2>3. CASE pc = "rmdir"
    BY <1>2, <1>r, <2>1, <2>3 DEF PlaceOf
  <2>4. QED
    BY <2>2, <2>3
<1>5. HoldsOf(ino, q)
  BY <1>1, <1>2, <1>r DEF HoldsOf
<1>6. Balance(r, pwd[t], r.ino, q, pwd[t], None, None)
  <2> SUFFICES ASSUME NEW n \in Inos
               PROVE  Own(r, n) + Same(pwd[t], n) + Same(n, r.ino)
                      = Own(q, n) + Same(pwd[t], n) + Same(n, None) + Same(n, None)
    BY DEF Balance
  <2>1. Same(r.old, n) = 0 /\ Same(q.old, n) = 0 /\ Same(n, None) = 0
    BY <1>1, <1>2, TreeSetsAre DEF Same
  <2>2. Own(r, n) = Same(n, r.dir)
    BY <1>1, <2>1, BitsAre DEF Own
  <2>3. Own(q, n) = Same(n, r.dir) + Same(n, r.ino)
    BY <1>2, <2>1, BitsAre DEF Own
  <2>4. QED
    BY <2>1, <2>2, <2>3, BitsAre
<1>7. HeldAlso(ino, r.ino) = Held(ino, r.ino)
  BY <1>1, TreeSetsAre DEF HeldAlso
<1>8. q.pc # "iget"
  BY <1>2
<1>9. TreeInvOf(HeldAlso(ino, r.ino), l, pwd, None, None)
  BY <1>1, <1>2, <1>3, <1>4, <1>5, <1>6, <1>8, <1>r, PwdKept, MoveKeeps DEF TreeInv
<1>10. QED
  BY <1>2, <1>7, <1>9, <1>r

\* iget() for a call that uses the inode keeps the invariant.
LEMMA TreeUse ==
    ASSUME TreeInv, ~Race, NEW t \in Tasks, Iget(t), task[t].dir = None
    PROVE  TreeInv'
<1>r. PICK r : r = task[t]
  OBVIOUS
<1>n. PICK n : n = r.ino
  OBVIOUS
<1>f. PICK f : f = Held(ino, n)
  OBVIOUS
<1>g. PICK g : g = iput(iput(f, n), r.dir)
  OBVIOUS
<1>1. /\ r.pc = "iget" /\ r \in TaskRecs /\ PlaceOf(r) /\ HoldsOf(ino, r) /\ task \in [Tasks -> TaskRecs] /\ r.dir = None
      /\ Known(ino, task, n) /\ n \in Inos /\ pwd[t] \in Inos /\ ino \in [Inos -> InodeRecs] /\ n \in MaybeIno
  BY <1>r, <1>n, TreeIs, NumberIsKnown DEF Iget, At, MaybeIno
<1>2. Use(t, f, g)
  BY <1>r, <1>n, <1>f, <1>g DEF Iget
<1>3. pwd' = IF r.op = "chdir" /\ r.path = <<>> /\ ino[n].type = "DIR" THEN [pwd EXCEPT ![t] = n] ELSE pwd
  BY <1>r, <1>n DEF Iget
<1>4. /\ HeldAlso(ino, n) = f /\ OnlyCounts(ino, f)
  BY <1>1, <1>f, HeldAlsoIs, TreeSetsAre DEF HeldAlso
<1>5. Quiet(r) /\ ~IsMaking(r)
  BY <1>1 DEF Quiet, IsMaking
<1>6. r.old # None => r.op = "link" /\ r.path # <<>>
  BY <1>1 DEF PlaceOf
<1>7. (r.op = "link" <=> r.to # <<>>) /\ (r.to # <<>> => Rest(r.to) # <<>>)
  BY <1>1 DEF PlaceOf
<1>8. f[n].type = ino[n].type
  BY <1>1, <1>4 DEF OnlyCounts
<1>9. CASE r.path # <<>>
  <2>1. Enter(t, f, n, r) /\ pwd' = pwd
    BY <1>2, <1>3, <1>9, <1>n, <1>r DEF Use
  <2>2. \A m \in Inos : Own(r, m) = Same(m, r.old)
    <3>1. \A m \in Inos : Same(None, m) = 0
      BY TreeSetsAre DEF Same
    <3>2. QED
      BY <1>1, <3>1, BitsAre DEF Own
  <2>3. r.old # None => r.op = "link" /\ ino[r.old].type = "REG"
    BY <1>1, <1>6 DEF HoldsOf
  <2>4. QED
    BY <1>1, <1>4, <1>5, <1>7, <1>9, <1>r, <2>1, <2>2, <2>3, EnterKeeps DEF TreeInv
<1>10. CASE r.path = <<>> /\ r.op = "link"
  <2>1. pwd' = pwd /\ r.old = None
    BY <1>3, <1>6, <1>10
  <2>2. CASE ino[n].type = "DIR"
    <3>1. Return(t, g)
      BY <1>2, <1>8, <1>10, <1>n, <1>r, <2>2 DEF Use
    <3>2. QED
      BY <1>1, <1>f, <1>g, <1>n, <1>r, <2>1, <3>1, TreeIgetEnds
  <2>3. CASE ino[n].type # "DIR"
    <3>d. PICK d : d = Start(t, r.to)
      OBVIOUS
    <3>q. PICK q : q = [r EXCEPT !.pc = "open"]
      OBVIOUS
    <3>l. PICK l : l = [task EXCEPT ![t] = q]
      OBVIOUS
    <3>p. PICK p : p = [r EXCEPT !.old = n, !.path = Rest(r.to)]
      OBVIOUS
    <3>1. Enter(t, Held(f, d), d, p)
      BY <1>2, <1>8, <1>10, <1>n, <1>r, <2>3, <3>d, <3>p DEF Use
    <3>2. q \in TaskRecs
      BY <1>1, <3>q DEF TaskRecs, Pcs
    <3>3. Moved(task, l, t, q)
      BY <1>1, <3>l, <3>2 DEF Moved
    <3>4. /\ TreeInvOf(f, l, pwd, None, None)
          /\ q.pc = "open" /\ q.dir = None /\ q.ino = n /\ q.old = None
      BY <1>1, <1>f, <1>n, <1>r, <2>1, <3>3, <3>q, TreeIgetKeeps
    <3>5. d \in Inos /\ (d = Root \/ pwd[t] = d)
      BY <1>1, <3>d, TreeSetsAre DEF Start
    <3>6. Known(f, l, d)
      <4>1. Known(ino, task, d)
        BY <1>5, <1>r, <3>5, HeldIsKnown
      <4>2. \A u \in Tasks : IsMaking(l[u]) => IsMaking(task[u]) /\ l[u].ino = task[u].ino
        BY <3>3, <3>4 DEF Moved, IsMaking
      <4>3. QED
        BY <1>4, <3>5, <4>1, <4>2 DEF Known, OnlyCounts
    <3>7. p \in TaskRecs /\ p.old = n /\ p.path = Rest(r.to) /\ p.op = r.op /\ p.to = r.to
      <4>1. Rest(r.to) \in Seq(STRING)
        <5>1. r.to \in Seq(STRING) /\ r.to # <<>>
          BY <1>1, <1>7, <1>10 DEF TaskRecs
        <5>2. QED
          BY <5>1, PathsAre DEF Rest
      <4>2. QED
        BY <1>1, <3>p, <4>1 DEF TaskRecs
    <3>8. p.path # <<>> /\ (p.op = "link" <=> p.to # <<>>) /\ (p.to # <<>> => Rest(p.to) # <<>>)
      BY <1>7, <1>10, <3>7
    <3>9. p.old # None => p.op = "link" /\ f[p.old].type = "REG"
      <4>1. ino[n].type \in {Free, "REG", "DIR"}
        BY <1>1 DEF InodeRecs
      <4>2. ino[n].type = "REG"
        BY <1>1, <2>3, <4>1, TreeSetsAre DEF Known
      <4>3. QED
        BY <1>8, <1>10, <3>7, <4>2
    <3>10. \A m \in Inos : Own(l[t], m) = Same(m, p.old)
      <4>1. \A m \in Inos : Same(None, m) = 0
        BY TreeSetsAre DEF Same
      <4>2. QED
        BY <3>3, <3>4, <3>7, <4>1, BitsAre DEF Own, Moved
    <3>11. Quiet(l[t])
      BY <3>3, <3>4 DEF Moved, Quiet, IsMaking
    <3>12. \A u \in Tasks \ {t} : l[u] = task[u]
      BY <3>3 DEF Moved
    <3>13. Held(f, d) = HeldAlso(f, d)
      BY <3>5, TreeSetsAre DEF HeldAlso
    <3>14. QED
      BY <1>1, <2>1, <3>1, <3>4, <3>5, <3>6, <3>7, <3>8, <3>9, <3>10, <3>11, <3>12, <3>13, EnterKeeps
  <2>4. QED
    BY <2>2, <2>3
<1>11. CASE r.path = <<>> /\ r.op = "chdir"
  <2>1. r.old = None
    BY <1>6, <1>11
  <2>2. CASE ino[n].type = "DIR"
    <3>1. Return(t, iput(iput(HeldAlso(ino, n), pwd[t]), None)) /\ pwd' = [pwd EXCEPT ![t] = n]
      BY <1>2, <1>3, <1>4, <1>8, <1>11, <1>n, <1>r, <2>2 DEF Use, iput
    <3>2. PwdMoved(pwd, pwd', t, n)
      BY <1>1, <3>1, TreeIs DEF PwdMoved
    <3>3. Balance(r, pwd[t], n, Idle, n, pwd[t], None)
      <4> SUFFICES ASSUME NEW m \in Inos
                   PROVE  Own(r, m) + Same(pwd[t], m) + Same(m, n) = Own(Idle, m) + Same(n, m) + Same(m, pwd[t]) + Same(m, None)
        BY DEF Balance
      <4>1. Same(None, m) = 0 /\ Same(m, None) = 0
        BY TreeSetsAre DEF Same
      <4>2. Own(r, m) = 0 /\ Own(Idle, m) = 0
        BY <1>1, <2>1, <4>1, IdleIs DEF Own
      <4>3. Same(m, n) = Same(n, m) /\ Same(m, pwd[t]) = Same(pwd[t], m)
        BY BitsAre
      <4>4. QED
        BY <4>1, <4>2, <4>3, BitsAre
    <3>4. pwd[t] \in MaybeIno /\ None \in MaybeIno
      BY <1>1 DEF MaybeIno
    <3>5. QED
      BY <1>1, <1>5, <1>r, <2>2, <3>1, <3>2, <3>3, <3>4, ReturnKeeps
  <2>3. CASE ino[n].type # "DIR"
    <3>1. Return(t, g) /\ pwd' = pwd
      BY <1>2, <1>3, <1>8, <1>11, <1>n, <1>r, <2>3 DEF Use
    <3>2. QED
      BY <1>1, <1>f, <1>g, <1>n, <1>r, <2>1, <3>1, TreeIgetEnds
  <2>4. QED
    BY <2>2, <2>3
<1>12. CASE r.path = <<>> /\ r.op # "link" /\ r.op # "chdir"
  <2>1. pwd' = pwd /\ r.old = None
    BY <1>3, <1>6, <1>12
  <2>2. CASE Return(t, g)
    BY <1>1, <1>f, <1>g, <1>n, <1>r, <2>1, <2>2, TreeIgetEnds
  <2>3. CASE ino' = f /\ task' = [task EXCEPT ![t].pc = "open"]
    <3>1. PICK q : q = [r EXCEPT !.pc = "open"]
      OBVIOUS
    <3>2. q \in TaskRecs
      BY <1>1, <3>1 DEF TaskRecs, Pcs
    <3>3. Moved(task, task', t, q)
      BY <1>1, <1>r, <2>3, <3>1, <3>2 DEF Moved
    <3>4. TreeInvOf(f, task', pwd, None, None)
      BY <1>1, <1>f, <1>n, <1>r, <2>1, <3>1, <3>3, TreeIgetKeeps
    <3>5. QED
      BY <2>1, <2>3, <3>4 DEF TreeInv
  <2>4. QED
    BY <1>2, <1>12, <1>n, <1>r, <2>2, <2>3 DEF Use
<1>13. QED
  BY <1>9, <1>10, <1>11, <1>12


-----------------------------------------------------------------------------
(* Steps that change names and links. *)

\* What names and links say of the shape of the tree, of one inode.
ShapeAt(f, n) ==
    /\ n = Root => f[n].nlinks # 0 /\ NamingOf(f, n) = {}
    /\ f[n].type = "DIR" => \A e \in NamingOf(f, n) : e[1] = f[n].up
    /\ f[n].nlinks = 0 /\ f[n].count = 0 => f[n].type = Free

\* The number of the holders follows what the task holds.
LEMMA HoldersMove ==
    ASSUME NEW k \in [Tasks -> TaskRecs], NEW w \in [Tasks -> Inos], NEW t \in Tasks, NEW r,
           NEW l, Moved(k, l, t, r), NEW n \in Inos
    PROVE  HoldersOf(l, w, n) + Own(k[t], n) + Same(w[t], n) = HoldersOf(k, w, n) + Own(l[t], n) + Same(w[t], n)
<1>1. l \in [Tasks -> TaskRecs] /\ \A u \in Tasks \ {t} : l[u] = k[u] /\ w[u] = w[u]
  BY DEF Moved
<1>2. QED
  BY <1>1, HoldersFollow

\* The counts are those of before, and one more of inode m.
OneMoreOf(g, m) == \A i \in Inos : g[i].count = ino[i].count + Same(i, m)

\* The counts are right after a step in which what the task holds balances.
LEMMA CountsFollow ==
    ASSUME TreeInv, NEW t \in Tasks, NEW r \in TaskRecs, NEW l, Moved(task, l, t, r),
           NEW g \in [Inos -> InodeRecs], NEW m, NEW a, NEW b, OneMoreOf(g, m),
           Balance(task[t], pwd[t], m, r, pwd[t], a, b)
    PROVE  CountsOf(g, l, pwd, a, b)
<1>0. \A u \in Tasks \ {t} : l[u] = task[u] /\ pwd[u] = pwd[u]
  BY DEF Moved
<1>1. /\ l \in [Tasks -> TaskRecs] /\ l[t] = r
      /\ task \in [Tasks -> TaskRecs] /\ pwd \in [Tasks -> Inos]
  BY TreeIs DEF Moved
<1> SUFFICES ASSUME NEW n \in Inos PROVE g[n].count = HoldersOf(l, pwd, n) + Same(n, a) + Same(n, b)
  BY DEF CountsOf
<1>2. HoldersOf(l, pwd, n) + Own(task[t], n) + Same(pwd[t], n) = HoldersOf(task, pwd, n) + Own(l[t], n) + Same(pwd[t], n)
  BY <1>1, HoldersMove
<1>3. ino[n].count = HoldersOf(task, pwd, n) + Same(n, None) + Same(n, None) /\ Same(n, None) = 0
  BY TreeIs, TreeSetsAre DEF CountsOf, Same
<1>4. Own(task[t], n) + Same(pwd[t], n) + Same(n, m) = Own(r, n) + Same(pwd[t], n) + Same(n, a) + Same(n, b)
  BY DEF Balance
<1>5. HoldersOf(l, pwd, n) \in Nat /\ HoldersOf(task, pwd, n) \in Nat
  BY HoldersNat
<1>6. g[n].count = ino[n].count + Same(n, m) /\ l[t] = r
  BY <1>1 DEF OneMoreOf
<1>7. /\ Own(task[t], n) \in Nat /\ Own(r, n) \in Nat /\ Same(pwd[t], n) \in Nat
      /\ Same(n, a) \in Nat /\ Same(n, b) \in Nat /\ Same(n, m) \in Nat
  BY BitsAre
<1>8. QED
  BY <1>2, <1>3, <1>4, <1>5, <1>6, <1>7

\* A step changes a directory d, that the task holds, and an inode n, that is in use, and nothing of
\* the other ones.
Elsewhere(g, d, n) ==
    /\ \A m \in Inos : g[m].type = ino[m].type /\ g[m].up = ino[m].up
    /\ \A m \in Inos \ {d, n} : g[m] = ino[m]
    /\ \A m \in Inos \ {n} : NamingOf(g, m) = NamingOf(ino, m)
    /\ \A m \in Inos \ {d} : SubdirsOf(g, m) = SubdirsOf(ino, m) /\ (Bare(g, m) <=> Bare(ino, m))

\* They are no new inodes of other tasks, and what this one makes or counts is n.
NotOthers(t, d, n) == \A u \in Tasks \ {t} : IsMaking(task[u]) => task[u].ino # d /\ task[u].ino # n
Makes(q, n)        == (IsMaking(q) => q.ino = n) /\ (q.pc = "linked" => q.old = n)

\* A step that changes one directory and one inode keeps the invariant, if it is right for the two.
LEMMA StructureKeeps ==
    ASSUME TreeInv, NEW t \in Tasks, NEW r \in TaskRecs, NEW l, Moved(task, l, t, r),
           NEW g \in [Inos -> InodeRecs], NEW d \in Inos, NEW n \in Inos, NEW a, NEW b, CountsOf(g, l, pwd, a, b),
           ino[d].type # Free, ino[n].type # Free, Elsewhere(g, d, n), NotOthers(t, d, n), Makes(task[t], n), Makes(r, n),
           LinkAt(g, l, d), LinkAt(g, l, n), ShapeAt(g, d), ShapeAt(g, n),
           PlaceOf(r), HoldsOf(g, r), NewInode(g, r), r.pc # "iget",
           IsMaking(r) => IsMaking(task[t])
    PROVE  TreeInvOf(g, l, pwd, a, b)
<1> USE DEF Elsewhere, NotOthers, Makes
<1>1. /\ ino \in [Inos -> InodeRecs] /\ task \in [Tasks -> TaskRecs] /\ pwd \in [Tasks -> Inos]
      /\ ShapeOf(ino) /\ LinksOf(ino, task)
      /\ \A u \in Tasks : PlaceOf(task[u]) /\ HoldsOf(ino, task[u]) /\ NewInode(ino, task[u]) /\ ino[pwd[u]].type = "DIR"
      /\ Unreached(task)
  BY TreeIs
<1>2. /\ l \in [Tasks -> TaskRecs] /\ l[t] = r /\ \A u \in Tasks \ {t} : l[u] = task[u]
  BY DEF Moved
<1>3. TreeTyped(g, l, pwd)
  BY <1>1, <1>2 DEF TreeTyped
<1>4. \A m \in Inos \ {n} : MakingOf(l, m) = MakingOf(task, m) /\ UncountedOf(l, m) = UncountedOf(task, m)
  <2> SUFFICES ASSUME NEW m \in Inos \ {n}, NEW u \in Tasks
               PROVE  /\ l[u].pc \in {"add", "panic"} /\ l[u].ino = m <=> task[u].pc \in {"add", "panic"} /\ task[u].ino = m
                      /\ l[u].pc = "linked" /\ l[u].old = m <=> task[u].pc = "linked" /\ task[u].old = m
    BY DEF MakingOf, UncountedOf
  <2>1. m # None
    BY TreeSetsAre
  <2>2. QED
    BY <1>2, <2>1 DEF IsMaking
<1>5. \A m \in Inos : LinkAt(g, l, m)
  <2> SUFFICES ASSUME NEW m \in Inos, m # d, m # n PROVE LinkAt(g, l, m)
    OBVIOUS
  <2>1. /\ g[m] = ino[m] /\ NamingOf(g, m) = NamingOf(ino, m) /\ SubdirsOf(g, m) = SubdirsOf(ino, m)
        /\ (Bare(g, m) <=> Bare(ino, m)) /\ MakingOf(l, m) = MakingOf(task, m) /\ UncountedOf(l, m) = UncountedOf(task, m)
    BY <1>4
  <2>2. LinkAt(ino, task, m)
    BY <1>1 DEF LinksOf, LinkAt
  <2>3. QED
    BY <2>1, <2>2 DEF LinkAt
<1>6. LinksOf(g, l)
  BY <1>5 DEF LinksOf, LinkAt
<1>7. \A m \in Inos : ShapeAt(g, m)
  <2> SUFFICES ASSUME NEW m \in Inos, m # d, m # n PROVE ShapeAt(g, m)
    OBVIOUS
  <2>1. g[m] = ino[m] /\ NamingOf(g, m) = NamingOf(ino, m)
    OBVIOUS
  <2>2. QED
    BY <1>1, <2>1 DEF ShapeOf, ShapeAt
<1>8. ShapeOf(g)
  <2>1. g[Root].type = "DIR" /\ g[Root].up = Root /\ g[Root].nlinks # 0 /\ NamingOf(g, Root) = {}
    BY <1>1, <1>7, TreeSetsAre DEF ShapeOf, ShapeAt
  <2>2. ASSUME NEW m \in Inos PROVE /\ g[m].type = Free => g[m] = Unused
                                    /\ g[m].type = "DIR" => g[m].up # None
    BY <1>1 DEF ShapeOf
  <2>3. QED
    BY <1>7, <2>1, <2>2 DEF ShapeOf, ShapeAt
<1>9. ASSUME NEW u \in Tasks PROVE PlaceOf(l[u]) /\ HoldsOf(g, l[u]) /\ NewInode(g, l[u]) /\ g[pwd[u]].type = "DIR"
  <2>1. g[pwd[u]].type = "DIR"
    BY <1>1
  <2>2. CASE u = t
    BY <1>2, <2>1, <2>2
  <2>3. CASE u # t
    <3>1. l[u] = task[u] /\ task[u] \in TaskRecs /\ PlaceOf(task[u]) /\ HoldsOf(ino, task[u]) /\ NewInode(ino, task[u])
      BY <1>1, <1>2, <2>3
    <3>2. HoldsOf(g, task[u])
      <4>1. /\ task[u].dir # None => task[u].dir \in Inos
            /\ task[u].old # None => task[u].old \in Inos
            /\ task[u].pc = "rmdir" => task[u].ino \in Inos
        BY <3>1 DEF TaskRecs, MaybeIno, PlaceOf
      <4>2. QED
        BY <3>1, <4>1 DEF HoldsOf
    <3>3. NewInode(g, task[u])
      <4> SUFFICES ASSUME IsMaking(task[u]) PROVE NewInode(g, task[u])
        BY DEF NewInode
      <4>1. task[u].ino \in Inos /\ task[u].ino # d /\ task[u].ino # n
        BY <2>3, <3>1 DEF IsMaking, TaskRecs, MaybeIno
      <4>2. QED
        BY <3>1, <4>1 DEF NewInode
    <3>4. QED
      BY <2>1, <3>1, <3>2, <3>3
  <2>4. QED
    BY <2>2, <2>3
<1>10. Unreached(l)
  <2> SUFFICES ASSUME NEW u \in Tasks, NEW z \in Tasks, IsMaking(l[u]), l[z].pc = "iget" PROVE l[z].ino # l[u].ino
    BY DEF Unreached
  <2>1. z # t /\ l[z] = task[z]
    BY <1>2
  <2>2. CASE u = t
    <3>1. IsMaking(task[t]) /\ r.ino = task[t].ino /\ l[u] = r
      BY <1>2, <2>2
    <3>2. QED
      BY <1>1, <2>1, <2>2, <3>1 DEF Unreached
  <2>3. CASE u # t
    BY <1>1, <1>2, <2>1, <2>3 DEF Unreached
  <2>4. QED
    BY <2>2, <2>3
<1>11. QED
  BY <1>3, <1>6, <1>8, <1>9, <1>10 DEF TreeInvOf, TasksOf

\* The sets that are counted are finite.
LEMMA SetsOfNames ==
    ASSUME NEW f, NEW n
    PROVE  /\ IsFiniteSet(NamingOf(f, n)) /\ Cardinality(NamingOf(f, n)) \in Nat
           /\ IsFiniteSet(SubdirsOf(f, n)) /\ Cardinality(SubdirsOf(f, n)) \in Nat
<1>1. IsFiniteSet(NamingOf(f, n))
  BY TreeSetsAre, FS_Product, FS_Subset DEF NamingOf
<1>2. IsFiniteSet(SubdirsOf(f, n))
  BY TreeSetsAre, FS_Subset DEF SubdirsOf
<1>3. QED
  BY <1>1, <1>2, FS_CardinalityType

\* A set with one element more.
LEMMA OneMore ==
    ASSUME NEW S, NEW T, IsFiniteSet(S), NEW z, z \notin S, T = S \cup {z}
    PROVE  Cardinality(T) = Cardinality(S) + 1 /\ Cardinality(S) \in Nat
BY FS_AddElement, FS_CardinalityType

\* An inode counts as a subdirectory where it is named.
Sub(f, x) == IF x # None /\ f[x].type = "DIR" THEN 1 ELSE 0

\* One entry of a directory, that named x, names y: None if it is free.
EntryMoved(f, g, d, p, x, y) ==
    /\ x # y /\ f[d].type = "DIR" /\ f[d].entries[p].ino = x /\ g[d].entries[p].ino = y
    /\ \A n \in Inos : g[n].type = f[n].type
    /\ \A n \in Inos \ {d} : g[n].entries = f[n].entries
    /\ \A q \in Positions \ {p} : g[d].entries[q] = f[d].entries[q]

EntryFollows(f, g, d, p, x, y) ==
    /\ \A n \in Inos : n # x /\ n # y => NamingOf(g, n) = NamingOf(f, n)
    /\ x # None => /\ NamingOf(g, x) = NamingOf(f, x) \ {<<d, p>>} /\ <<d, p>> \in NamingOf(f, x)
                   /\ Cardinality(NamingOf(f, x)) = Cardinality(NamingOf(g, x)) + 1
    /\ y # None => /\ NamingOf(g, y) = NamingOf(f, y) \cup {<<d, p>>}
                   /\ Cardinality(NamingOf(g, y)) = Cardinality(NamingOf(f, y)) + 1
    /\ \A n \in Inos \ {d} : SubdirsOf(g, n) = SubdirsOf(f, n) /\ (Bare(g, n) <=> Bare(f, n))
    /\ Cardinality(SubdirsOf(g, d)) + Sub(f, x) = Cardinality(SubdirsOf(f, d)) + Sub(f, y)

\* One entry changes: the names of two inodes and the subdirectories of one follow.
LEMMA EntryChanges ==
    ASSUME NEW f \in [Inos -> InodeRecs], NEW g \in [Inos -> InodeRecs], NEW d \in Inos, NEW p \in Positions,
           NEW x \in MaybeIno, NEW y \in MaybeIno, EntryMoved(f, g, d, p, x, y)
    PROVE  EntryFollows(f, g, d, p, x, y)
<1> USE DEF EntryMoved
<1>1. \A n \in Inos, i \in Inos, q \in Positions :
          <<i, q>> \in NamingOf(g, n) <=> IF i = d /\ q = p THEN n = y ELSE <<i, q>> \in NamingOf(f, n)
  BY DEF NamingOf
<1>2. \A n \in Inos : <<d, p>> \in NamingOf(f, n) <=> n = x
  BY DEF NamingOf
<1>3. \A n : NamingOf(g, n) \subseteq Inos \X Positions /\ NamingOf(f, n) \subseteq Inos \X Positions
  BY DEF NamingOf
<1>4. ASSUME NEW n \in Inos, n # x, n # y PROVE NamingOf(g, n) = NamingOf(f, n)
  <2>1. \A i \in Inos, q \in Positions : <<i, q>> \in NamingOf(g, n) <=> <<i, q>> \in NamingOf(f, n)
    BY <1>1, <1>2, <1>4
  <2>2. ASSUME NEW e \in Inos \X Positions PROVE e \in NamingOf(g, n) <=> e \in NamingOf(f, n)
    BY <2>1
  <2>3. QED
    BY <1>3, <2>2
<1>5. ASSUME x # None PROVE /\ NamingOf(g, x) = NamingOf(f, x) \ {<<d, p>>} /\ <<d, p>> \in NamingOf(f, x)
                            /\ Cardinality(NamingOf(f, x)) = Cardinality(NamingOf(g, x)) + 1
  <2>1. x \in Inos
    BY <1>5 DEF MaybeIno
  <2>2. NamingOf(g, x) = NamingOf(f, x) \ {<<d, p>>} /\ <<d, p>> \in NamingOf(f, x)
    BY <1>1, <1>2, <1>3, <2>1
  <2>3. NamingOf(f, x) = NamingOf(g, x) \cup {<<d, p>>} /\ <<d, p>> \notin NamingOf(g, x)
    BY <2>2
  <2>4. QED
    BY <2>2, <2>3, OneMore, SetsOfNames
<1>6. ASSUME y # None PROVE /\ NamingOf(g, y) = NamingOf(f, y) \cup {<<d, p>>}
                            /\ Cardinality(NamingOf(g, y)) = Cardinality(NamingOf(f, y)) + 1
  <2>1. y \in Inos
    BY <1>6 DEF MaybeIno
  <2>2. NamingOf(g, y) = NamingOf(f, y) \cup {<<d, p>>} /\ <<d, p>> \notin NamingOf(f, y)
    BY <1>1, <1>2, <1>3, <2>1
  <2>3. QED
    BY <2>2, OneMore, SetsOfNames
<1>7. \A n \in Inos, q \in Positions : f[n].entries[q].ino \in MaybeIno
  BY EntriesAre
<1>8. \A n \in Inos \ {d} : SubdirsOf(g, n) = SubdirsOf(f, n) /\ (Bare(g, n) <=> Bare(f, n))
  <2> SUFFICES ASSUME NEW n \in Inos \ {d} PROVE SubdirsOf(g, n) = SubdirsOf(f, n) /\ (Bare(g, n) <=> Bare(f, n))
    OBVIOUS
  <2>1. g[n].entries = f[n].entries
    OBVIOUS
  <2>2. QED
    BY <1>7, <2>1 DEF SubdirsOf, Bare, MaybeIno
<1>9. Cardinality(SubdirsOf(g, d)) + Sub(f, x) = Cardinality(SubdirsOf(f, d)) + Sub(f, y)
  <2>s. PICK S : S = SubdirsOf(f, d) \ {p}
    OBVIOUS
  <2>0. IsFiniteSet(S) /\ Cardinality(S) \in Nat
    BY <2>s, SetsOfNames, FS_Subset, FS_CardinalityType
  <2>1. Cardinality(SubdirsOf(f, d)) = Cardinality(S) + Sub(f, x)
    <3>1. CASE x # None /\ f[x].type = "DIR"
      <4>1. p \in SubdirsOf(f, d)
        BY <3>1 DEF SubdirsOf
      <4>2. SubdirsOf(f, d) = S \cup {p} /\ p \notin S
        BY <2>s, <4>1
      <4>3. Sub(f, x) = 1
        BY <3>1 DEF Sub
      <4>4. QED
        BY <2>0, <4>2, <4>3, OneMore
    <3>2. CASE ~(x # None /\ f[x].type = "DIR")
      <4>1. p \notin SubdirsOf(f, d)
        BY <3>2 DEF SubdirsOf
      <4>2. SubdirsOf(f, d) = S
        BY <2>s, <4>1
      <4>3. Sub(f, x) = 0
        BY <3>2 DEF Sub
      <4>4. QED
        BY <2>0, <4>2, <4>3
    <3>3. QED
      BY <3>1, <3>2
  <2>2. Cardinality(SubdirsOf(g, d)) = Cardinality(S) + Sub(f, y)
    <3>0. SubdirsOf(g, d) \ {p} = S
      <4> SUFFICES ASSUME NEW q \in Positions \ {p} PROVE q \in SubdirsOf(g, d) <=> q \in SubdirsOf(f, d)
        BY <2>s DEF SubdirsOf
      <4>1. g[d].entries[q] = f[d].entries[q] /\ f[d].entries[q].ino \in MaybeIno
        BY <1>7
      <4>2. QED
        BY <4>1 DEF SubdirsOf, MaybeIno
    <3>1. CASE y # None /\ f[y].type = "DIR"
      <4>1. p \in SubdirsOf(g, d)
        BY <3>1 DEF SubdirsOf, MaybeIno
      <4>2. SubdirsOf(g, d) = S \cup {p} /\ p \notin S
        BY <3>0, <4>1
      <4>3. Sub(f, y) = 1
        BY <3>1 DEF Sub
      <4>4. QED
        BY <2>0, <4>2, <4>3, OneMore
    <3>2. CASE ~(y # None /\ f[y].type = "DIR")
      <4>1. p \notin SubdirsOf(g, d)
        BY <3>2 DEF SubdirsOf, MaybeIno
      <4>2. SubdirsOf(g, d) = S
        BY <3>0, <4>1
      <4>3. Sub(f, y) = 0
        BY <3>2 DEF Sub
      <4>4. QED
        BY <2>0, <4>2, <4>3
    <3>3. QED
      BY <3>1, <3>2
  <2>3. Sub(f, x) \in Nat /\ Sub(f, y) \in Nat
    BY DEF Sub
  <2>4. QED
    BY <2>0, <2>1, <2>2, <2>3
<1>10. QED
  BY <1>4, <1>5, <1>6, <1>8, <1>9 DEF EntryFollows

\* A task that makes no inode and counts no link is in none of the sets of those that do.
LEMMA QuietSets ==
    ASSUME NEW k, NEW l, NEW t \in Tasks, NEW r, Moved(k, l, t, r), Quiet(k[t]), Quiet(r)
    PROVE  \A n \in Inos : MakingOf(l, n) = MakingOf(k, n) /\ UncountedOf(l, n) = UncountedOf(k, n)
<1> SUFFICES ASSUME NEW n \in Inos, NEW u \in Tasks
             PROVE  /\ l[u].pc \in {"add", "panic"} /\ l[u].ino = n <=> k[u].pc \in {"add", "panic"} /\ k[u].ino = n
                    /\ l[u].pc = "linked" /\ l[u].old = n <=> k[u].pc = "linked" /\ k[u].old = n
  BY DEF MakingOf, UncountedOf
<1>1. n # None
  BY TreeSetsAre
<1>2. QED
  BY <1>1 DEF Moved, Quiet, IsMaking

\* An inode that a task holds is counted.
LEMMA HeldCount ==
    ASSUME TreeInv, NEW t \in Tasks, NEW m \in Inos, Own(task[t], m) # 0
    PROVE  ino[m].count # 0 /\ ino[m].count \in Nat
<1>1. TreeTyped(ino, task, pwd) /\ CountsOf(ino, task, pwd, None, None)
  BY TreeIs
<1>2. ino[m].count = HoldersOf(task, pwd, m) + Same(m, None) + Same(m, None) /\ ino[m].count \in Nat
      /\ Own(task[t], m) + Same(pwd[t], m) + Same(m, Root) <= HoldersOf(task, pwd, m) /\ HoldersOf(task, pwd, m) \in Nat
  BY <1>1, HeldAtLeast
<1>3. QED
  BY <1>2, BitsAre

\* A directory that has not been removed, and is no new one, is named in its parent.
LEMMA UpIs ==
    ASSUME TreeInv, NEW d \in Inos, ino[d].type = "DIR", ino[d].nlinks # 0,
           \A u \in Tasks : IsMaking(task[u]) => d # task[u].ino
    PROVE  /\ ino[d].up \in Inos /\ ino[ino[d].up].type = "DIR"
           /\ d = Root => ino[d].up = Root
           /\ d # Root => \E p \in Positions : ino[ino[d].up].entries[p].ino = d
<1>1. ino[d].up \in Inos
  BY TreeIs DEF ShapeOf, InodeRecs, MaybeIno
<1>2. CASE d = Root
  BY <1>1, <1>2, TreeIs DEF ShapeOf
<1>3. CASE d # Root
  <2>1. Cardinality(NamingOf(ino, d)) + Cardinality(MakingOf(task, d)) = 1
    BY <1>3, TreeIs DEF LinksOf, LinkAt
  <2>2. MakingOf(task, d) = {}
    BY TreeSetsAre DEF MakingOf, IsMaking
  <2>3. NamingOf(ino, d) # {}
    BY <2>1, <2>2, FS_EmptySet
  <2>4. PICK e : e \in NamingOf(ino, d)
    BY <2>3
  <2>5. e[1] = ino[d].up /\ e[2] \in Positions /\ ino[e[1]].entries[e[2]].ino = d /\ ino[e[1]].type = "DIR"
    BY <2>4, TreeIs DEF ShapeOf, NamingOf
  <2>6. QED
    BY <1>1, <1>3, <2>5
<1>4. QED
  BY <1>2, <1>3

\* What the invariant says of one inode.
LEMMA TreeAt ==
    ASSUME TreeInv, NEW n \in Inos
    PROVE  /\ ino[n] \in InodeRecs /\ ino[n].nlinks \in Nat /\ ino[n].count \in Nat /\ ino[n].type \in {Free, "REG", "DIR"}
           /\ ino[n].entries \in [Positions -> EntryRecs]
           /\ LinkAt(ino, task, n) /\ ShapeAt(ino, n)
<1>1. ino[n] \in InodeRecs
  BY TreeIs
<1>2. LinkAt(ino, task, n)
  BY TreeIs DEF LinksOf, LinkAt
<1>3. ShapeAt(ino, n)
  BY TreeIs DEF ShapeOf, ShapeAt
<1>4. QED
  BY <1>1, <1>2, <1>3 DEF InodeRecs

\* The call is over: a name was removed.
LEMMA StructureEnds ==
    ASSUME TreeInv, NEW t \in Tasks,
           NEW g \in [Inos -> InodeRecs], NEW d \in Inos, NEW n \in Inos, NEW m, NEW a \in MaybeIno, NEW b \in MaybeIno,
           OneMoreOf(g, m),
           Balance(task[t], pwd[t], m, Idle, pwd[t], a, b),
           ino[d].type # Free, ino[n].type # Free, Elsewhere(g, d, n), NotOthers(t, d, n), Makes(task[t], n),
           NEW l, Moved(task, l, t, Idle),
           LinkAt(g, l, d), LinkAt(g, l, n), ShapeAt(g, d), ShapeAt(g, n),
           pwd' = pwd, task' = l, ino' = iput(iput(g, a), b)
    PROVE  TreeInv'
<1>1. Quiet(Idle) /\ PlaceOf(Idle) /\ HoldsOf(g, Idle) /\ Idle.pc # "iget" /\ Idle \in TaskRecs /\ NewInode(g, Idle)
      /\ ~IsMaking(Idle) /\ Makes(Idle, n)
  BY IdleIs DEF Makes, Quiet, IsMaking, PlaceOf, HoldsOf, NewInode
<1>2. CountsOf(g, l, pwd, a, b)
  BY <1>1, CountsFollow
<1>3. TreeInvOf(g, l, pwd, a, b)
  BY <1>1, <1>2, StructureKeeps
<1>4. TreeInvOf(iput(iput(g, a), b), l, pwd, None, None)
  BY <1>3, LetGo
<1>5. QED
  BY <1>4 DEF TreeInv

\* unlink() clears the entry and takes a link off: what is left is right.
LEMMA UnlinkKeeps ==
    ASSUME TreeInv, NEW t \in Tasks, NEW d \in Inos, NEW n \in Inos, NEW p \in Positions, NEW x \in Nat,
           task[t].pc = "iget", task[t].dir = d, task[t].ino = n, task[t].old = None,
           ino[d].type = "DIR", ino[n].type = "REG", ino[d].entries[p].ino = n, ino[n].nlinks = x + 1,
           Known(ino, task, n), Known(ino, task, d),
           NEW g \in [Inos -> InodeRecs],
           g[n].count = ino[n].count + 1, g[n].nlinks = x, g[n].type = ino[n].type, g[n].up = ino[n].up,
           g[n].entries = ino[n].entries,
           g[d].count = ino[d].count, g[d].nlinks = ino[d].nlinks, g[d].type = ino[d].type, g[d].up = ino[d].up,
           g[d].entries[p] = NoEntry, \A q \in Positions \ {p} : g[d].entries[q] = ino[d].entries[q],
           \A m \in Inos \ {d, n} : g[m] = ino[m],
           Return(t, iput(iput(g, n), d)), pwd' = pwd
    PROVE  TreeInv'
<1>1. ino[d].type = "DIR" /\ ino[n].type = "REG" /\ d # n /\ n # None /\ d # None
  BY TreeSetsAre
<1>2. Quiet(task[t]) /\ ~IsMaking(task[t])
  BY DEF Quiet, IsMaking
<1>5. \A u \in Tasks : IsMaking(task[u]) => task[u].ino # d /\ task[u].ino # n
  BY <1>1 DEF Known
<1>10. /\ \A m \in Inos : g[m].type = ino[m].type /\ g[m].up = ino[m].up
       /\ \A m \in Inos \ {d} : g[m].entries = ino[m].entries
       /\ \A m \in Inos : g[m].count = ino[m].count + Same(m, n)
  <2>1. \A m \in Inos : ino[m].count \in Nat
    BY TreeAt
  <2>2. ASSUME NEW m \in Inos PROVE g[m].count = ino[m].count + Same(m, n)
    BY <2>1 DEF Same
  <2>3. QED
    BY <2>2
<1>11. /\ \A m \in Inos \ {n} : NamingOf(g, m) = NamingOf(ino, m)
       /\ Cardinality(NamingOf(ino, n)) = Cardinality(NamingOf(g, n)) + 1
       /\ \A m \in Inos \ {d} : SubdirsOf(g, m) = SubdirsOf(ino, m) /\ (Bare(g, m) <=> Bare(ino, m))
       /\ Cardinality(SubdirsOf(g, d)) + Sub(ino, n) = Cardinality(SubdirsOf(ino, d)) + Sub(ino, None)
  <2>0. /\ n \in MaybeIno /\ None \in MaybeIno /\ n # None /\ ino \in [Inos -> InodeRecs]
    BY <1>1, TreeIs, TreeSetsAre DEF MaybeIno
  <2>y. PICK y \in MaybeIno : y = None
    BY <2>0
  <2>1. EntryMoved(ino, g, d, p, n, y)
    BY <1>1, <1>10, <2>y, UnusedIs DEF EntryMoved
  <2>3. EntryFollows(ino, g, d, p, n, y)
    BY <2>0, <2>1, EntryChanges
  <2>4. QED
    BY <2>0, TreeSetsAre, <2>3, <2>y DEF EntryFollows
<1>l. PICK l : l = [task EXCEPT ![t] = Idle]
  OBVIOUS
<1>12. Moved(task, l, t, Idle)
  BY <1>l, TreeIs, IdleIs DEF Moved
<1>13. \A m \in Inos : MakingOf(l, m) = MakingOf(task, m) /\ UncountedOf(l, m) = UncountedOf(task, m)
  <2>1. Quiet(Idle)
    BY IdleIs DEF Quiet, IsMaking
  <2>2. QED
    BY <1>2, <1>12, <2>1, QuietSets
<1>14. LinkAt(g, l, d)
  <2>1. Cardinality(SubdirsOf(g, d)) = Cardinality(SubdirsOf(ino, d))
    <3>1. Sub(ino, n) = 0 /\ Sub(ino, None) = 0
      BY <1>1, TreeSetsAre DEF Sub
    <3>2. QED
      BY <1>11, <3>1, SetsOfNames
  <2>2. LinkAt(ino, task, d) /\ ~Bare(ino, d)
    BY <1>1, TreeAt DEF Bare
  <2>3. NamingOf(g, d) = NamingOf(ino, d) /\ MakingOf(l, d) = MakingOf(task, d) /\ g[d].nlinks = ino[d].nlinks
        /\ g[d].type = "DIR"
    BY <1>1, <1>11, <1>13
  <2>4. QED
    BY <1>1, <2>1, <2>2, <2>3, TreeSetsAre DEF LinkAt
<1>15. LinkAt(g, l, n)
  <2>1. LinkAt(ino, task, n)
    BY <1>1, TreeAt
  <2>2. ino[n].nlinks + Cardinality(UncountedOf(l, n)) = Cardinality(NamingOf(ino, n)) + Cardinality(MakingOf(l, n))
    BY <1>1, <1>13, <2>1 DEF LinkAt
  <2>3. Cardinality(UncountedOf(l, n)) \in Nat /\ Cardinality(MakingOf(l, n)) \in Nat
    BY TreeSetsAre, FS_Subset, FS_CardinalityType DEF UncountedOf, MakingOf
  <2>4. x + Cardinality(UncountedOf(l, n)) = Cardinality(NamingOf(g, n)) + Cardinality(MakingOf(l, n))
    BY <1>11, <2>2, <2>3, SetsOfNames
  <2>5. QED
    BY <2>4, TreeSetsAre DEF LinkAt
<1>16. ShapeAt(g, d)
  <2>1. ShapeAt(ino, d) /\ NamingOf(g, d) = NamingOf(ino, d)
    BY <1>1, <1>11, TreeAt
  <2>2. QED
    BY <2>1 DEF ShapeAt
<1>17. ShapeAt(g, n)
  <2>1. n # Root
    BY <1>1, TreeIs, TreeSetsAre DEF ShapeOf
  <2>2. g[n].count # 0
    <3>1. ino[n].count \in Nat /\ g[n].count = ino[n].count + 1
      BY TreeAt
    <3>2. QED
      BY <3>1
  <2>3. QED
    BY <1>1, <2>1, <2>2, TreeSetsAre DEF ShapeAt
<1>18. Balance(task[t], pwd[t], n, Idle, pwd[t], n, d)
  <2> SUFFICES ASSUME NEW m \in Inos
               PROVE  Own(task[t], m) + Same(pwd[t], m) + Same(m, n) = Own(Idle, m) + Same(pwd[t], m) + Same(m, n) + Same(m, d)
    BY DEF Balance
  <2>1. Same(task[t].old, m) = 0
    BY <1>1, TreeSetsAre DEF Same
  <2>2. Own(task[t], m) = Same(m, d)
    BY <1>1, <2>1, BitsAre DEF Own
  <2>3. QED
    BY <2>2, IdleIs, BitsAre
<1>19. ino[d].type # Free /\ ino[n].type # Free
  BY <1>1, TreeSetsAre
<1>20. task' = l /\ ino' = iput(iput(g, n), d) /\ pwd' = pwd
  BY <1>l DEF Return
<1>21. OneMoreOf(g, n) /\ Elsewhere(g, d, n) /\ NotOthers(t, d, n) /\ Makes(task[t], n)
  BY <1>2, <1>5, <1>10, <1>11 DEF OneMoreOf, Elsewhere, NotOthers, Makes
<1>22. n \in MaybeIno /\ d \in MaybeIno
  BY DEF MaybeIno
<1>23. QED
  BY <1>12, <1>14, <1>15, <1>16, <1>17, <1>18, <1>19, <1>20, <1>21, <1>22, StructureEnds

\* The inodes with the entry cleared and the link taken off.
Unlinked(f, n, d, p) == [f EXCEPT ![n].nlinks = (IF @ = 0 THEN 1 ELSE @) - 1, ![d].entries[p] = NoEntry]

\* g is what unlink() makes of the inodes, one of which had x + 1 links.
IsUnlinked(g, n, d, p, x) ==
    /\ g[n].count = ino[n].count + 1 /\ g[n].nlinks = x /\ g[n].type = ino[n].type /\ g[n].up = ino[n].up
    /\ g[n].entries = ino[n].entries
    /\ g[d].count = ino[d].count /\ g[d].nlinks = ino[d].nlinks /\ g[d].type = ino[d].type /\ g[d].up = ino[d].up
    /\ g[d].entries[p] = NoEntry /\ \A q \in Positions \ {p} : g[d].entries[q] = ino[d].entries[q]
    /\ \A m \in Inos \ {d, n} : g[m] = ino[m]

\* unlink() changes one entry and one number of links.
LEMMA UnlinkedIs ==
    ASSUME TreeInv, NEW n \in Inos, NEW d \in Inos, n # d, NEW p \in Positions, NEW x \in Nat, x + 1 = ino[n].nlinks,
           NEW g, g = Unlinked(Held(ino, n), n, d, p)
    PROVE  g \in [Inos -> InodeRecs] /\ IsUnlinked(g, n, d, p, x)
<1>f. PICK f : f = Held(ino, n)
  OBVIOUS
<1>1. /\ ino \in [Inos -> InodeRecs] /\ ino[n] \in InodeRecs /\ ino[d] \in InodeRecs /\ ino[n].count \in Nat
      /\ ino[d].entries \in [Positions -> EntryRecs] /\ ino[n].nlinks # 0 /\ ino[n].nlinks - 1 = x
  <2>1. /\ ino \in [Inos -> InodeRecs] /\ ino[n] \in InodeRecs /\ ino[d] \in InodeRecs /\ ino[n].count \in Nat
        /\ ino[d].entries \in [Positions -> EntryRecs]
    BY TreeIs, TreeAt
  <2>2. \A y : y = x + 1 => y # 0 /\ y - 1 = x
    OBVIOUS
  <2>3. QED
    BY <2>1, <2>2
<1>i. PICK i : i = [ino[n] EXCEPT !.count = ino[n].count + 1, !.nlinks = x]
  OBVIOUS
<1>e. PICK e : e = [ino[d].entries EXCEPT ![p] = NoEntry]
  OBVIOUS
<1>j. PICK j : j = [ino[d] EXCEPT !.entries = e]
  OBVIOUS
<1>2. /\ i \in InodeRecs /\ i.count = ino[n].count + 1 /\ i.nlinks = x /\ i.type = ino[n].type /\ i.up = ino[n].up
      /\ i.entries = ino[n].entries
  <2>1. ino[n].count + 1 \in Nat
    BY <1>1
  <2>2. QED
    BY <1>1, <1>i, <2>1 DEF InodeRecs
<1>3. e \in [Positions -> EntryRecs] /\ e[p] = NoEntry /\ \A q \in Positions \ {p} : e[q] = ino[d].entries[q]
  BY <1>1, <1>e, UnusedIs
<1>4. /\ j \in InodeRecs /\ j.count = ino[d].count /\ j.nlinks = ino[d].nlinks /\ j.type = ino[d].type
      /\ j.up = ino[d].up /\ j.entries = e
  BY <1>1, <1>3, <1>j DEF InodeRecs
<1>h. PICK h : h = [ino[n] EXCEPT !.count = ino[n].count + 1]
  OBVIOUS
<1>5. f = [ino EXCEPT ![n] = h]
  BY <1>1, <1>f, <1>h DEF Held
<1>6. h.nlinks = ino[n].nlinks /\ [h EXCEPT !.nlinks = x] = i
  BY <1>1, <1>h, <1>i DEF InodeRecs
<1>7. (IF h.nlinks = 0 THEN 1 ELSE h.nlinks) - 1 = x
  BY <1>1, <1>6
<1>8. f[n] = h /\ f[d] = ino[d] /\ (\A m \in Inos \ {d, n} : f[m] = ino[m]) /\ DOMAIN f = Inos
  BY <1>1, <1>5
<1>9. g = [[f EXCEPT ![n] = [h EXCEPT !.nlinks = x]] EXCEPT ![d] = [ino[d] EXCEPT !.entries = e]]
  BY <1>7, <1>8, <1>e, <1>f DEF Unlinked
<1>10. g[n] = i /\ g[d] = j /\ (\A m \in Inos \ {d, n} : g[m] = ino[m]) /\ g \in [Inos -> InodeRecs]
  <2>1. g[n] = i /\ g[d] = j /\ \A m \in Inos \ {d, n} : g[m] = ino[m]
    BY <1>6, <1>8, <1>9, <1>j
  <2>2. DOMAIN g = Inos /\ g = [m \in Inos |-> g[m]]
    BY <1>8, <1>9
  <2>3. \A m \in Inos : g[m] \in InodeRecs
    BY <1>1, <1>2, <1>4, <2>1
  <2>4. QED
    BY <2>1, <2>2, <2>3
<1>11. QED
  BY <1>2, <1>3, <1>4, <1>10 DEF IsUnlinked

\* unlink() of a file.
LEMMA TreeUnlink ==
    ASSUME TreeInv, ~Race, NEW t \in Tasks, task[t].pc = "iget", task[t].dir # None, task[t].op = "unlink",
           ino[task[t].ino].type # "DIR", pwd' = pwd,
           NEW d, d = task[t].dir, NEW n, n = task[t].ino, NEW p, p = task[t].pos,
           NEW f, f = Held(ino, n),
           NEW g, g = Unlinked(f, n, d, p), Return(t, iput(iput(g, n), d))
    PROVE  TreeInv'
<1>r. PICK r : r = task[t]
  OBVIOUS
<1>1. /\ r \in TaskRecs /\ PlaceOf(r) /\ HoldsOf(ino, r) /\ d \in Inos /\ n \in Inos /\ ino[d].type = "DIR"
      /\ r.old = None /\ p \in Positions \cup {None} /\ d \in MaybeIno /\ n \in MaybeIno /\ None \in MaybeIno
      /\ r.pc = "iget" /\ r.dir = d /\ r.ino = n /\ r.pos = p /\ r.op = "unlink"
  BY <1>r, TreeIs DEF PlaceOf, HoldsOf, TaskRecs, MaybeIno
<1>2. Quiet(r) /\ ~IsMaking(r)
  BY <1>1 DEF Quiet, IsMaking
<1>3. Known(ino, task, n) /\ Known(ino, task, d)
  <2>1. Own(task[t], d) # 0
    BY <1>1, <1>r, BitsAre DEF Own
  <2>2. QED
    BY <1>1, <1>2, <1>r, <2>1, NumberIsKnown, HeldIsKnown
<1>4. n # None /\ d # None /\ d # n /\ ino[n].type = "REG"
  BY <1>1, <1>3, TreeAt, TreeSetsAre DEF Known
<1>5. \A u \in Tasks : IsMaking(task[u]) => task[u].ino # d /\ task[u].ino # n
  BY <1>3, <1>4 DEF Known
<1>6. ino[n].nlinks # 0
  BY <1>1, <1>r DEF Race, Removing
<1>7. p # None
  <2> SUFFICES ASSUME p = None PROVE FALSE
    OBVIOUS
  <2>1. n = ino[d].up
    BY <1>1, <1>4 DEF HoldsOf
  <2>2. permission(ino, d)
    BY <1>1, <1>r DEF Race, Removing
  <2>3. ino[d].nlinks # 0
    BY <1>1, <2>2, TreeAt DEF permission
  <2>4. ino[ino[d].up].type = "DIR"
    BY <1>1, <1>5, <2>3, UpIs
  <2>5. QED
    BY <1>4, <2>1, <2>4
<1>8. p \in Positions /\ ino[d].entries[p].ino = n
  BY <1>1, <1>7, <1>r DEF Race, Removing
<1>x. PICK x \in Nat : x + 1 = ino[n].nlinks
  <2>1. ino[n].nlinks \in Nat
    BY <1>1, TreeAt
  <2>2. ino[n].nlinks - 1 \in Nat /\ ino[n].nlinks - 1 + 1 = ino[n].nlinks
    BY <1>6, <2>1
  <2>3. QED
    BY <2>2
<1>9. g \in [Inos -> InodeRecs] /\ IsUnlinked(g, n, d, p, x)
  BY <1>1, <1>4, <1>8, <1>x, UnlinkedIs
<1>10. QED
  BY <1>1, <1>3, <1>4, <1>8, <1>9, <1>r, <1>x, UnlinkKeeps DEF IsUnlinked


\* rmdir() of an empty directory: what it has changed.
LEMMA RmdirKeeps ==
    ASSUME TreeInv, NEW t \in Tasks, NEW d \in Inos, NEW n \in Inos, NEW p \in Positions, NEW x \in Nat,
           task[t].pc = "rmdir", task[t].dir = d, task[t].ino = n, task[t].old = None, d # n,
           ino[d].type = "DIR", ino[n].type = "DIR", ino[d].entries[p].ino = n, ino[d].nlinks = x + 1, Bare(ino, n),
           Known(ino, task, n), Known(ino, task, d),
           NEW g \in [Inos -> InodeRecs],
           g[n].count = ino[n].count, g[n].nlinks = 0, g[n].type = ino[n].type, g[n].up = ino[n].up,
           g[n].entries = ino[n].entries,
           g[d].count = ino[d].count, g[d].nlinks = x, g[d].type = ino[d].type, g[d].up = ino[d].up,
           g[d].entries[p] = NoEntry, \A q \in Positions \ {p} : g[d].entries[q] = ino[d].entries[q],
           \A m \in Inos \ {d, n} : g[m] = ino[m],
           Return(t, iput(iput(g, n), d)), pwd' = pwd
    PROVE  TreeInv'
<1>1. ino[d].type = "DIR" /\ ino[n].type = "DIR" /\ d # n /\ n # None /\ d # None
  BY TreeSetsAre
<1>2. Quiet(task[t]) /\ ~IsMaking(task[t])
  BY DEF Quiet, IsMaking
<1>5. \A u \in Tasks : IsMaking(task[u]) => task[u].ino # d /\ task[u].ino # n
  BY <1>1 DEF Known
<1>10. /\ \A m \in Inos : g[m].type = ino[m].type /\ g[m].up = ino[m].up
       /\ \A m \in Inos \ {d} : g[m].entries = ino[m].entries
       /\ \A m \in Inos : g[m].count = ino[m].count + Same(m, None)
  <2>1. \A m \in Inos : ino[m].count \in Nat /\ Same(m, None) = 0
    BY TreeAt, TreeSetsAre DEF Same
  <2>2. ASSUME NEW m \in Inos PROVE g[m].count = ino[m].count + Same(m, None)
    <3>1. g[m].count = ino[m].count
      OBVIOUS
    <3>2. QED
      BY <2>1, <3>1
  <2>3. QED
    BY <2>2
<1>11. /\ \A m \in Inos \ {n} : NamingOf(g, m) = NamingOf(ino, m)
       /\ Cardinality(NamingOf(ino, n)) = Cardinality(NamingOf(g, n)) + 1 /\ NamingOf(ino, n) # {}
       /\ \A m \in Inos \ {d} : SubdirsOf(g, m) = SubdirsOf(ino, m) /\ (Bare(g, m) <=> Bare(ino, m))
       /\ Cardinality(SubdirsOf(g, d)) + Sub(ino, n) = Cardinality(SubdirsOf(ino, d)) + Sub(ino, None)
  <2>0. /\ n \in MaybeIno /\ None \in MaybeIno /\ n # None /\ ino \in [Inos -> InodeRecs]
    BY <1>1, TreeIs, TreeSetsAre DEF MaybeIno
  <2>y. PICK y \in MaybeIno : y = None
    BY <2>0
  <2>1. EntryMoved(ino, g, d, p, n, y)
    BY <1>1, <1>10, <2>y, UnusedIs DEF EntryMoved
  <2>3. EntryFollows(ino, g, d, p, n, y)
    BY <2>0, <2>1, EntryChanges
  <2>4. QED
    BY <2>0, TreeSetsAre, <2>3, <2>y DEF EntryFollows
<1>l. PICK l : l = [task EXCEPT ![t] = Idle]
  OBVIOUS
<1>12. Moved(task, l, t, Idle)
  BY <1>l, TreeIs, IdleIs DEF Moved
<1>13. \A m \in Inos : MakingOf(l, m) = MakingOf(task, m) /\ UncountedOf(l, m) = UncountedOf(task, m)
  <2>1. Quiet(Idle)
    BY IdleIs DEF Quiet, IsMaking
  <2>2. QED
    BY <1>2, <1>12, <2>1, QuietSets
<1>14. LinkAt(g, l, d) /\ g[d].nlinks # 0
  <2>1. Cardinality(SubdirsOf(g, d)) + 1 = Cardinality(SubdirsOf(ino, d))
    <3>1. Sub(ino, n) = 1 /\ Sub(ino, None) = 0
      BY <1>1, TreeSetsAre DEF Sub
    <3>2. QED
      BY <1>11, <3>1, SetsOfNames
  <2>2. LinkAt(ino, task, d) /\ ~Bare(ino, d)
    BY <1>1, TreeAt DEF Bare
  <2>3. NamingOf(g, d) = NamingOf(ino, d) /\ MakingOf(l, d) = MakingOf(task, d) /\ g[d].type = "DIR"
    BY <1>1, <1>11, <1>13
  <2>4. x = 2 + Cardinality(SubdirsOf(g, d)) /\ x # 0
    <3>1. ino[d].nlinks = 2 + Cardinality(SubdirsOf(ino, d))
      BY <1>1, <2>2, TreeSetsAre DEF LinkAt
    <3>2. QED
      BY <2>1, <3>1, SetsOfNames
  <2>5. d # Root => Cardinality(NamingOf(g, d)) + Cardinality(MakingOf(l, d)) = 1
    BY <1>1, <2>2, <2>3, TreeSetsAre DEF LinkAt
  <2>6. QED
    BY <1>1, <2>3, <2>4, <2>5, TreeSetsAre DEF LinkAt
<1>15. NamingOf(g, n) = {} /\ n # Root
  <2>1. n # Root
    BY <1>11, TreeIs DEF ShapeOf
  <2>2. LinkAt(ino, task, n)
    BY <1>1, TreeAt
  <2>3. Cardinality(NamingOf(ino, n)) + Cardinality(MakingOf(task, n)) = 1
    BY <1>1, <1>11, <2>1, <2>2 DEF LinkAt
  <2>4. Cardinality(MakingOf(task, n)) \in Nat
    BY TreeSetsAre, FS_Subset, FS_CardinalityType DEF MakingOf
  <2>5. Cardinality(NamingOf(g, n)) = 0
    BY <1>11, <2>3, <2>4, SetsOfNames
  <2>6. QED
    BY <2>1, <2>5, SetsOfNames, FS_EmptySet
<1>16. LinkAt(g, l, n)
  BY <1>1, <1>11, <1>15, TreeSetsAre DEF LinkAt
<1>17. ShapeAt(g, d)
  <2>1. ShapeAt(ino, d) /\ NamingOf(g, d) = NamingOf(ino, d)
    BY <1>1, <1>11, TreeAt
  <2>2. QED
    BY <1>14, <2>1 DEF ShapeAt
<1>18. ShapeAt(g, n)
  <2>1. Own(task[t], n) # 0
    BY BitsAre DEF Own
  <2>2. ino[n].count # 0
    BY <2>1, HeldCount
  <2>3. QED
    BY <1>15, <2>2 DEF ShapeAt
<1>19. Balance(task[t], pwd[t], None, Idle, pwd[t], n, d)
  <2> SUFFICES ASSUME NEW m \in Inos
               PROVE  Own(task[t], m) + Same(pwd[t], m) + Same(m, None) = Own(Idle, m) + Same(pwd[t], m) + Same(m, n) + Same(m, d)
    BY DEF Balance
  <2>1. Same(task[t].old, m) = 0 /\ Same(m, None) = 0
    BY TreeSetsAre DEF Same
  <2>2. Own(task[t], m) = Same(m, d) + Same(m, n)
    BY <2>1, BitsAre DEF Own
  <2>3. QED
    BY <2>1, <2>2, IdleIs, BitsAre
<1>20. ino[d].type # Free /\ ino[n].type # Free
  BY <1>1, TreeSetsAre
<1>21. task' = l /\ ino' = iput(iput(g, n), d) /\ pwd' = pwd
  BY <1>l DEF Return
<1>22. OneMoreOf(g, None) /\ Elsewhere(g, d, n) /\ NotOthers(t, d, n) /\ Makes(task[t], n)
  BY <1>2, <1>5, <1>10, <1>11 DEF OneMoreOf, Elsewhere, NotOthers, Makes
<1>23. n \in MaybeIno /\ d \in MaybeIno
  BY DEF MaybeIno
<1>24. QED
  BY <1>12, <1>14, <1>16, <1>17, <1>18, <1>19, <1>20, <1>21, <1>22, <1>23, StructureEnds

\* sys_rmdir() from where empty_dir() has slept.
LEMMA TreeRmdir ==
    ASSUME TreeInv, ~Race, NEW t \in Tasks, Rmdir(t)
    PROVE  TreeInv'
<1>r. PICK r : r = task[t]
  OBVIOUS
<1>d. PICK d : d = r.dir
  OBVIOUS
<1>n. PICK n : n = r.ino
  OBVIOUS
<1>p. PICK p : p = r.pos
  OBVIOUS
<1>1. /\ r \in TaskRecs /\ HoldsOf(ino, r) /\ d \in Inos /\ n \in Inos /\ d # n /\ ino[d].type = "DIR"
      /\ ino[n].type = "DIR" /\ r.old = None /\ p \in Positions \cup {None} /\ d \in MaybeIno /\ n \in MaybeIno
      /\ r.pc = "rmdir" /\ r.dir = d /\ r.ino = n /\ r.pos = p /\ r.op = "rmdir" /\ pwd' = pwd
  BY <1>r, <1>d, <1>n, <1>p, TreeIs DEF PlaceOf, HoldsOf, TaskRecs, MaybeIno, Rmdir, At
<1>2. Quiet(r) /\ ~IsMaking(r)
  BY <1>1 DEF Quiet, IsMaking
<1>3. Known(ino, task, n) /\ Known(ino, task, d)
  <2>1. Own(task[t], d) # 0 /\ Own(task[t], n) # 0
    BY <1>1, <1>r, BitsAre DEF Own
  <2>2. QED
    BY <1>1, <1>2, <1>r, <2>1, HeldIsKnown
<1>4. n # None /\ d # None
  BY <1>1, TreeSetsAre
<1>5. \A u \in Tasks : IsMaking(task[u]) => task[u].ino # d /\ task[u].ino # n
  BY <1>3, <1>4 DEF Known
<1>6. CASE ino[n].entries # Unused.entries
  <2>1. Return(t, iput(iput(ino, n), d))
    BY <1>1, <1>6, <1>r DEF Rmdir
  <2>2. Balance(r, pwd[t], None, Idle, pwd[t], n, d)
    <3> SUFFICES ASSUME NEW m \in Inos
                 PROVE  Own(r, m) + Same(pwd[t], m) + Same(m, None) = Own(Idle, m) + Same(pwd[t], m) + Same(m, n) + Same(m, d)
      BY DEF Balance
    <3>1. Same(r.old, m) = 0 /\ Same(m, None) = 0
      BY <1>1, TreeSetsAre DEF Same
    <3>2. Own(r, m) = Same(m, d) + Same(m, n)
      BY <1>1, <3>1, BitsAre DEF Own
    <3>3. QED
      BY <3>1, <3>2, IdleIs, BitsAre
  <2>3. Known(ino, task, None) /\ HeldAlso(ino, None) = ino /\ None \in MaybeIno
    BY DEF Known, HeldAlso, MaybeIno
  <2>4. QED
    BY <1>1, <1>2, <1>r, <2>1, <2>2, <2>3, PwdKept, ReturnKeeps
<1>7. CASE ino[n].entries = Unused.entries
  <2>1. Bare(ino, n)
    BY <1>7, UnusedIs DEF Bare
  <2>2. p # None
    <3> SUFFICES ASSUME p = None PROVE FALSE
      OBVIOUS
    <3>1. n = ino[d].up
      BY <1>1, <1>4 DEF HoldsOf
    <3>2. permission(ino, d)
      BY <1>1, <1>4, <1>r DEF Race, Removing
    <3>3. ino[d].nlinks # 0
      BY <1>1, <3>2, TreeAt DEF permission
    <3>4. /\ d = Root => ino[d].up = Root
          /\ d # Root => \E q \in Positions : ino[ino[d].up].entries[q].ino = d
      BY <1>1, <1>5, <3>3, UpIs
    <3>5. QED
      BY <1>1, <1>4, <2>1, <3>1, <3>4 DEF Bare
  <2>3. p \in Positions /\ ino[d].entries[p].ino = n
    BY <1>1, <1>4, <2>2, <1>r DEF Race, Removing
  <2>x. PICK x \in Nat : ino[d].nlinks = x + 1
    <3>1. ino[d].nlinks # 0
      BY <1>1, <1>4, <2>3, TreeAt DEF LinkAt, Bare
    <3>2. ino[d].nlinks \in Nat
      BY <1>1, TreeAt
    <3>3. ino[d].nlinks - 1 \in Nat /\ ino[d].nlinks = ino[d].nlinks - 1 + 1
      BY <3>1, <3>2
    <3>4. QED
      BY <3>3
  <2>g. PICK g : g = [ino EXCEPT ![d].entries[p] = NoEntry, ![d].nlinks = @ - 1, ![n].nlinks = 0]
    OBVIOUS
  <2>4. Return(t, iput(iput(g, n), d))
    BY <1>1, <1>7, <1>r, <2>g DEF Rmdir
  <2>5. /\ g \in [Inos -> InodeRecs]
        /\ g[n].count = ino[n].count /\ g[n].nlinks = 0 /\ g[n].type = ino[n].type /\ g[n].up = ino[n].up
        /\ g[n].entries = ino[n].entries
        /\ g[d].count = ino[d].count /\ g[d].nlinks = x /\ g[d].type = ino[d].type /\ g[d].up = ino[d].up
        /\ g[d].entries[p] = NoEntry /\ \A q \in Positions \ {p} : g[d].entries[q] = ino[d].entries[q]
        /\ \A m \in Inos \ {d, n} : g[m] = ino[m]
    <3>1. /\ ino \in [Inos -> InodeRecs] /\ ino[n] \in InodeRecs /\ ino[d] \in InodeRecs
          /\ ino[d].entries \in [Positions -> EntryRecs] /\ ino[d].nlinks - 1 = x
      <4>1. ino[d].nlinks - 1 = x
        BY <2>x
      <4>2. QED
        BY <1>1, <4>1, TreeIs, TreeAt
    <3>i. PICK i : i = [ino[n] EXCEPT !.nlinks = 0]
      OBVIOUS
    <3>e. PICK e : e = [ino[d].entries EXCEPT ![p] = NoEntry]
      OBVIOUS
    <3>h. PICK h : h = [ino[d] EXCEPT !.entries = e]
      OBVIOUS
    <3>j. PICK j : j = [h EXCEPT !.nlinks = x]
      OBVIOUS
    <3>2. /\ i \in InodeRecs /\ i.count = ino[n].count /\ i.nlinks = 0 /\ i.type = ino[n].type /\ i.up = ino[n].up
          /\ i.entries = ino[n].entries
      BY <3>1, <3>i DEF InodeRecs
    <3>3. e \in [Positions -> EntryRecs] /\ e[p] = NoEntry /\ \A q \in Positions \ {p} : e[q] = ino[d].entries[q]
      BY <2>3, <3>1, <3>e, UnusedIs
    <3>4. h \in InodeRecs /\ h.nlinks - 1 = x
      BY <3>1, <3>3, <3>h DEF InodeRecs
    <3>5. /\ j \in InodeRecs /\ j.count = ino[d].count /\ j.nlinks = x /\ j.type = ino[d].type
          /\ j.up = ino[d].up /\ j.entries = e
      BY <2>x, <3>1, <3>3, <3>4, <3>h, <3>j DEF InodeRecs
    <3>6. g[n] = i
      BY <1>1, <2>g, <3>1, <3>i
    <3>7. g[d] = j
      BY <1>1, <2>g, <3>1, <3>4, <3>e, <3>h, <3>j
    <3>8. (\A m \in Inos \ {d, n} : g[m] = ino[m]) /\ g \in [Inos -> InodeRecs]
      <4>1. (\A m \in Inos \ {d, n} : g[m] = ino[m]) /\ DOMAIN g = Inos /\ g = [m \in Inos |-> g[m]]
        BY <1>1, <2>g, <3>1
      <4>2. \A m \in Inos : g[m] \in InodeRecs
        BY <3>1, <3>2, <3>5, <3>6, <3>7, <4>1
      <4>3. QED
        BY <4>1, <4>2
    <3>9. QED
      BY <3>2, <3>3, <3>5, <3>6, <3>7, <3>8
  <2>6. QED
    BY <1>1, <1>3, <1>r, <2>1, <2>3, <2>4, <2>5, <2>x, RmdirKeeps
<1>8. QED
  BY <1>6, <1>7

\* iget() of the last component has slept, for a call that changes the directory it is in.
LEMMA TreeRemove ==
    ASSUME TreeInv, ~Race, NEW t \in Tasks, Iget(t), task[t].dir # None
    PROVE  TreeInv'
<1>r. PICK r : r = task[t]
  OBVIOUS
<1>n. PICK n : n = r.ino
  OBVIOUS
<1>d. PICK d : d = r.dir
  OBVIOUS
<1>f. PICK f : f = Held(ino, n)
  OBVIOUS
<1>g. PICK g : g = iput(iput(f, n), d)
  OBVIOUS
<1>1. /\ r.pc = "iget" /\ r \in TaskRecs /\ r.dir # None /\ r.old = None /\ r.op \in {"unlink", "rmdir"}
      /\ n \in Inos /\ ino \in [Inos -> InodeRecs] /\ task \in [Tasks -> TaskRecs]
  <2>1. r.pc = "iget" /\ r \in TaskRecs /\ PlaceOf(r) /\ r.dir # None
    BY <1>r, TreeIs DEF Iget, At
  <2>2. n \in Inos
    BY <1>r, <1>n, <2>1, NumberIsKnown
  <2>3. QED
    BY <2>1, <2>2, TreeIs DEF PlaceOf
<1>2. Remove(t, f, g)
  BY <1>r, <1>n, <1>d, <1>f, <1>g DEF Iget
<1>3. pwd' = pwd
  BY <1>1, <1>r DEF Iget
<1>4. f[n].type = ino[n].type
  <2>1. n \in MaybeIno /\ HeldAlso(ino, n) = f
    BY <1>1, <1>f, TreeSetsAre DEF HeldAlso, MaybeIno
  <2>2. QED
    BY <1>1, <2>1, HeldAlsoIs DEF OnlyCounts
<1>5. CASE Return(t, g)
  BY <1>1, <1>3, <1>5, <1>r, <1>n, <1>d, <1>f, <1>g, TreeIgetEnds
<1>6. CASE r.op = "unlink" /\ f[n].type # "DIR"
  <2>1. Return(t, iput(iput(Unlinked(f, n, d, r.pos), n), d))
    BY <1>2, <1>6, <1>r, <1>n, <1>d DEF Remove, Unlinked
  <2>2. QED
    BY <1>1, <1>3, <1>4, <1>6, <1>r, <1>n, <1>d, <1>f, <2>1, TreeUnlink
<1>7. CASE r.op = "rmdir" /\ n # r.dir /\ f[n].type = "DIR" /\ ino' = f /\ task' = [task EXCEPT ![t].pc = "rmdir"]
  <2>1. PICK q : q = [r EXCEPT !.pc = "rmdir"]
    OBVIOUS
  <2>2. q \in TaskRecs
    BY <1>1, <2>1 DEF TaskRecs, Pcs
  <2>3. Moved(task, task', t, q)
    BY <1>1, <1>7, <1>r, <2>1, <2>2 DEF Moved
  <2>4. /\ task[t].pc = "iget" /\ task[t].old = None /\ task[t].dir # None /\ task[t].op = "rmdir"
        /\ ino[task[t].ino].type = "DIR" /\ task[t].ino # task[t].dir /\ q = [task[t] EXCEPT !.pc = "rmdir"]
    BY <1>1, <1>4, <1>7, <1>n, <1>r, <2>1
  <2>5. TreeInvOf(Held(ino, task[t].ino), task', pwd, None, None)
    BY <2>3, <2>4, TreeIgetKeeps
  <2>6. f = Held(ino, task[t].ino)
    BY <1>f, <1>n, <1>r
  <2>7. QED
    BY <1>3, <1>7, <2>5, <2>6 DEF TreeInv
<1>8. QED
  BY <1>1, <1>2, <1>5, <1>6, <1>7, <1>n, <1>r DEF Remove

\* iget() and what follows it keep the invariant.
LEMMA TreeIget ==
    ASSUME TreeInv, ~Race, NEW t \in Tasks, Iget(t)
    PROVE  TreeInv'
BY TreeUse, TreeRemove


\* Names do not change where types and entries do not.
LEMMA NamesSame ==
    ASSUME NEW f \in [Inos -> InodeRecs], NEW g \in [Inos -> InodeRecs],
           \A n \in Inos : g[n].type = f[n].type /\ g[n].entries = f[n].entries
    PROVE  \A n \in Inos : NamingOf(g, n) = NamingOf(f, n) /\ SubdirsOf(g, n) = SubdirsOf(f, n) /\ (Bare(g, n) <=> Bare(f, n))
<1>1. \A n \in Inos : NamingOf(g, n) = NamingOf(f, n)
  BY DEF NamingOf
<1>2. \A n \in Inos, p \in Positions : f[n].entries[p].ino \in MaybeIno
  BY EntriesAre
<1>3. \A n \in Inos : SubdirsOf(g, n) = SubdirsOf(f, n)
  BY <1>2 DEF SubdirsOf, MaybeIno
<1>4. QED
  BY <1>1, <1>3 DEF Bare

\* What a task holds is no new inode of another task.
LEMMA NotOthersIs ==
    ASSUME TreeInv, NEW t \in Tasks, NEW m \in Inos, Own(task[t], m) # 0
    PROVE  \A u \in Tasks \ {t} : IsMaking(task[u]) => task[u].ino # m
<1> SUFFICES ASSUME NEW u \in Tasks \ {t}, IsMaking(task[u]), task[u].ino = m PROVE FALSE
  OBVIOUS
<1>1. TreeTyped(ino, task, pwd) /\ CountsOf(ino, task, pwd, None, None)
  BY TreeIs
<1>2. ino[m].count = 1 /\ task[u].pc # "iget"
  BY TreeIs DEF NewInode, IsMaking
<1>3. Own(task[u], m) # 0
  BY <1>2, BitsAre DEF Own
<1>4. Own(task[t], m) = 0
  BY <1>1, <1>2, <1>3, SoleHolder
<1>5. QED
  BY <1>4

\* A new inode is held by its task alone.
LEMMA NewIs ==
    ASSUME TreeInv, NEW t \in Tasks, IsMaking(task[t]), NEW n, n = task[t].ino, NEW d, d = task[t].dir
    PROVE  /\ n \in Inos /\ n # Root /\ d \in Inos /\ d # n /\ ino[d].type = "DIR" /\ ino[n].count = 1 /\ ino[n].up = d
           /\ NamingOf(ino, n) = {} /\ Bare(ino, n) /\ UncountedOf(task, n) = {} /\ MakingOf(task, n) = {t}
           /\ NotOthers(t, d, n) /\ Own(task[t], d) # 0 /\ Own(task[t], n) # 0 /\ task[t].old = None
<1>1. TreeTyped(ino, task, pwd) /\ CountsOf(ino, task, pwd, None, None) /\ task[t] \in TaskRecs /\ PlaceOf(task[t])
      /\ HoldsOf(ino, task[t]) /\ NewInode(ino, task[t])
  BY TreeIs
<1>2. /\ n \in Inos /\ d \in Inos /\ ino[d].type = "DIR" /\ ino[n].count = 1 /\ ino[n].up = d
      /\ NamingOf(ino, n) = {} /\ Bare(ino, n) /\ task[t].pc \in {"add", "panic"} /\ n # None /\ d # None
      /\ task[t].old = None
  BY <1>1 DEF IsMaking, PlaceOf, NewInode, HoldsOf, TaskRecs, MaybeIno
<1>3. Own(task[t], n) # 0 /\ Own(task[t], d) # 0
  BY <1>2, BitsAre DEF Own
<1>4. n # Root /\ \A u \in Tasks : u # t => Own(task[u], n) = 0
  BY <1>1, <1>2, <1>3, SoleHolder
<1>5. d # n
  <2> SUFFICES ASSUME d = n PROVE FALSE
    OBVIOUS
  <2>1. ino[n].count = HoldersOf(task, pwd, n) + Same(n, None) + Same(n, None)
        /\ Own(task[t], n) + Same(pwd[t], n) + Same(n, Root) <= HoldersOf(task, pwd, n) /\ HoldersOf(task, pwd, n) \in Nat
    BY <1>1, <1>2, HeldAtLeast
  <2>2. Same(task[t].dir, n) = 1 /\ Same(task[t].ino, n) = 1
    BY DEF Same
  <2>3. Own(task[t], n) > 1
    BY <1>2, <2>2, BitsAre DEF Own
  <2>4. Own(task[t], n) \in Nat
    BY BitsAre
  <2>5. QED
    BY <1>2, <2>1, <2>3, <2>4, BitsAre
<1>6. UncountedOf(task, n) = {} /\ MakingOf(task, n) = {t}
  <2>1. \A u \in Tasks \ {t} : task[u].old # n /\ (task[u].pc # "iget" => task[u].ino # n)
    BY <1>4, BitsAre DEF Own
  <2>2. QED
    BY <1>2, <2>1 DEF UncountedOf, MakingOf
<1>7. NotOthers(t, d, n)
  <2>1. \A u \in Tasks \ {t} : IsMaking(task[u]) => task[u].ino # d
    BY <1>2, <1>3, NotOthersIs
  <2>2. \A u \in Tasks \ {t} : IsMaking(task[u]) => task[u].ino # n
    BY <1>2, <1>3, NotOthersIs
  <2>3. QED
    BY <2>1, <2>2 DEF NotOthers
<1>8. QED
  BY <1>2, <1>3, <1>4, <1>5, <1>6, <1>7

\* sys_link() counts the link.
LEMMA TreeLinked ==
    ASSUME TreeInv, NEW t \in Tasks, Linked(t)
    PROVE  TreeInv'
<1>n. PICK n : n = task[t].old
  OBVIOUS
<1>1. /\ n \in Inos /\ ino[n].type = "REG" /\ task[t].pc = "linked" /\ task[t].dir = None /\ task[t].ino = None
      /\ pwd' = pwd /\ n \in MaybeIno /\ None \in MaybeIno
      /\ ino \in [Inos -> InodeRecs] /\ ino[n] \in InodeRecs /\ ino[n].nlinks \in Nat /\ task[t].old = n
  <2>1. n \in Inos /\ ino[n].type = "REG" /\ task[t].pc = "linked" /\ task[t].dir = None /\ task[t].ino = None
        /\ pwd' = pwd
    BY <1>n, TreeIs DEF PlaceOf, HoldsOf, TaskRecs, MaybeIno, Linked, At
  <2>2. QED
    BY <1>n, <2>1, TreeIs, TreeAt DEF MaybeIno
<1>2. ~IsMaking(task[t]) /\ Own(task[t], n) # 0
  BY <1>1, BitsAre DEF IsMaking, Own
<1>3. NotOthers(t, n, n)
  BY <1>1, <1>2, NotOthersIs DEF NotOthers
<1>i. PICK i : i = [ino[n] EXCEPT !.nlinks = ino[n].nlinks + 1]
  OBVIOUS
<1>g. PICK g : g = [ino EXCEPT ![n] = i]
  OBVIOUS
<1>4. /\ i \in InodeRecs /\ i.nlinks = ino[n].nlinks + 1 /\ i.count = ino[n].count /\ i.type = ino[n].type
      /\ i.up = ino[n].up /\ i.entries = ino[n].entries
  <2>1. ino[n].nlinks + 1 \in Nat
    BY <1>1
  <2>2. QED
    BY <1>1, <1>i, <2>1 DEF InodeRecs
<1>5. g \in [Inos -> InodeRecs] /\ g[n] = i /\ \A m \in Inos \ {n} : g[m] = ino[m]
  BY <1>1, <1>4, <1>g
<1>6. \A m \in Inos : g[m].type = ino[m].type /\ g[m].entries = ino[m].entries /\ g[m].up = ino[m].up /\ g[m].count = ino[m].count
  BY <1>4, <1>5
<1>7. \A m \in Inos : NamingOf(g, m) = NamingOf(ino, m) /\ SubdirsOf(g, m) = SubdirsOf(ino, m) /\ (Bare(g, m) <=> Bare(ino, m))
  BY <1>1, <1>5, <1>6, NamesSame
<1>8. OneMoreOf(g, None) /\ Elsewhere(g, n, n) /\ Makes(task[t], n)
  <2>1. \A m \in Inos : ino[m].count + Same(m, None) = ino[m].count
    BY TreeAt, TreeSetsAre DEF Same
  <2>2. OneMoreOf(g, None)
    BY <1>6, <2>1 DEF OneMoreOf
  <2>3. Elsewhere(g, n, n)
    BY <1>5, <1>6, <1>7 DEF Elsewhere
  <2>4. QED
    BY <1>1, <1>2, <2>2, <2>3 DEF Makes
<1>l. PICK l : l = [task EXCEPT ![t] = Idle]
  OBVIOUS
<1>9. Moved(task, l, t, Idle)
  BY <1>l, TreeIs, IdleIs DEF Moved
<1>10. LinkAt(g, l, n)
  <2>1. Cardinality(UncountedOf(l, n)) + 1 = Cardinality(UncountedOf(task, n)) /\ Cardinality(UncountedOf(l, n)) \in Nat
    <3> DEFINE S == UncountedOf(task, n)
               T == UncountedOf(l, n)
    <3>1. S \subseteq Tasks /\ T \subseteq Tasks /\ \A u \in Tasks \ {t} : u \in S <=> u \in T
      BY <1>9 DEF UncountedOf, Moved
    <3>2. In(t, S) = 1 /\ In(t, T) = 0
      BY <1>1, <1>9, IdleIs DEF In, UncountedOf, Moved
    <3> HIDE DEF S, T
    <3>3. /\ Cardinality(S) \in Nat /\ Cardinality(T) \in Nat
          /\ Cardinality(T) + In(t, S) = Cardinality(S) + In(t, T)
      BY <3>1, OneMoves
    <3>4. QED
      BY <3>2, <3>3 DEF S, T
  <2>2. MakingOf(l, n) = MakingOf(task, n)
    BY <1>1, <1>9, IdleIs DEF MakingOf, Moved
  <2>3. ino[n].nlinks + Cardinality(UncountedOf(task, n)) = Cardinality(NamingOf(ino, n)) + Cardinality(MakingOf(task, n))
    BY <1>1, TreeAt DEF LinkAt
  <2>4. i.nlinks + Cardinality(UncountedOf(l, n)) = Cardinality(NamingOf(g, n)) + Cardinality(MakingOf(l, n))
    BY <1>1, <1>4, <1>7, <2>1, <2>2, <2>3
  <2>5. QED
    BY <1>1, <1>4, <1>5, <2>4, TreeSetsAre DEF LinkAt
<1>11. ShapeAt(g, n)
  <2>1. n # Root /\ i.nlinks # 0
    BY <1>1, <1>4, TreeIs, TreeSetsAre DEF ShapeOf
  <2>2. QED
    BY <1>1, <1>4, <1>5, <2>1, TreeSetsAre DEF ShapeAt
<1>12. Balance(task[t], pwd[t], None, Idle, pwd[t], n, None)
  <2> SUFFICES ASSUME NEW m \in Inos
               PROVE  Own(task[t], m) + Same(pwd[t], m) + Same(m, None) = Own(Idle, m) + Same(pwd[t], m) + Same(m, n) + Same(m, None)
    BY DEF Balance
  <2>1. Same(None, m) = 0 /\ Same(m, None) = 0
    BY TreeSetsAre DEF Same
  <2>2. Own(task[t], m) = Same(m, n)
    BY <1>1, <2>1, BitsAre DEF Own
  <2>3. QED
    BY <2>1, <2>2, IdleIs, BitsAre
<1>13. task' = l /\ ino' = iput(iput(g, n), None) /\ pwd' = pwd
  <2>1. g = [ino EXCEPT ![n].nlinks = @ + 1]
    BY <1>1, <1>g, <1>i
  <2>2. QED
    BY <1>1, <1>l, <2>1 DEF Linked, Return, iput
<1>14. ino[n].type # Free
  BY <1>1, TreeSetsAre
<1>15. QED
  BY <1>1, <1>3, <1>5, <1>8, <1>9, <1>10, <1>11, <1>12, <1>13, <1>14, StructureEnds

\* An entry of directory d that was free names inode n.
EntryMade(g, d, p, n) ==
    /\ g[d].entries[p].ino = n /\ \A q \in Positions \ {p} : g[d].entries[q] = ino[d].entries[q]
    /\ g[d].nlinks = ino[d].nlinks + Sub(ino, n) /\ g[d].type = ino[d].type /\ g[d].up = ino[d].up
    /\ g[d].count = ino[d].count
    /\ \A m \in Inos \ {d} : g[m] = ino[m]

\* Task t may enter inode n, that it makes or links, at the free position p of directory d.
MayEnter(t, d, p, n) ==
    /\ task[t].pc = "add" /\ task[t].dir = d /\ d # n /\ ino[d].type = "DIR" /\ ino[d].nlinks # 0
    /\ ino[d].entries[p].ino = None /\ ino[n].type \in {"REG", "DIR"} /\ NotOthers(t, d, n) /\ Makes(task[t], n)

\* An entry was made: the names, the links of the directory and the counts are right.
LEMMA AddIs ==
    ASSUME TreeInv, NEW t \in Tasks, NEW d \in Inos, NEW p \in Positions, NEW n \in Inos, MayEnter(t, d, p, n),
           NEW g \in [Inos -> InodeRecs], EntryMade(g, d, p, n), NEW q, Makes(q, n), NEW l, Moved(task, l, t, q)
    PROVE  /\ Elsewhere(g, d, n) /\ OneMoreOf(g, None) /\ LinkAt(g, l, d) /\ ShapeAt(g, d)
           /\ NamingOf(g, n) = NamingOf(ino, n) \cup {<<d, p>>}
           /\ Cardinality(NamingOf(g, n)) = Cardinality(NamingOf(ino, n)) + 1
           /\ SubdirsOf(g, n) = SubdirsOf(ino, n) /\ (Bare(g, n) <=> Bare(ino, n)) /\ g[n] = ino[n]
<1>1. d # n /\ n # None /\ d # None /\ ino[d].type = "DIR" /\ ino[d].nlinks # 0 /\ ino \in [Inos -> InodeRecs]
      /\ n \in MaybeIno /\ None \in MaybeIno
  BY TreeIs, TreeSetsAre DEF MayEnter, MaybeIno
<1>2. /\ \A m \in Inos : g[m].type = ino[m].type /\ g[m].up = ino[m].up /\ g[m].count = ino[m].count
      /\ \A m \in Inos \ {d} : g[m].entries = ino[m].entries
      /\ \A m \in Inos \ {d} : g[m] = ino[m]
  BY DEF EntryMade
<1>3. /\ \A m \in Inos \ {n} : NamingOf(g, m) = NamingOf(ino, m)
      /\ NamingOf(g, n) = NamingOf(ino, n) \cup {<<d, p>>}
      /\ Cardinality(NamingOf(g, n)) = Cardinality(NamingOf(ino, n)) + 1
      /\ \A m \in Inos \ {d} : SubdirsOf(g, m) = SubdirsOf(ino, m) /\ (Bare(g, m) <=> Bare(ino, m))
      /\ Cardinality(SubdirsOf(g, d)) = Cardinality(SubdirsOf(ino, d)) + Sub(ino, n)
  <2>x. PICK x \in MaybeIno : x = None
    BY <1>1
  <2>1. EntryMoved(ino, g, d, p, x, n)
    BY <1>1, <1>2, <2>x DEF EntryMoved, EntryMade, MayEnter
  <2>2. EntryFollows(ino, g, d, p, x, n)
    BY <1>1, <2>1, EntryChanges
  <2>3. Sub(ino, x) = 0
    BY <2>x DEF Sub
  <2>4. Cardinality(SubdirsOf(g, d)) = Cardinality(SubdirsOf(ino, d)) + Sub(ino, n)
    <3>1. Cardinality(SubdirsOf(g, d)) + Sub(ino, x) = Cardinality(SubdirsOf(ino, d)) + Sub(ino, n)
      BY <2>2 DEF EntryFollows
    <3>2. Cardinality(SubdirsOf(g, d)) \in Nat
      BY SetsOfNames
    <3>3. QED
      BY <2>3, <3>1, <3>2
  <2>5. QED
    BY <1>1, <2>2, <2>4, <2>x, TreeSetsAre DEF EntryFollows
<1>4. Elsewhere(g, d, n)
  BY <1>2, <1>3 DEF Elsewhere
<1>5. OneMoreOf(g, None)
  <2>1. \A m \in Inos : ino[m].count + Same(m, None) = ino[m].count
    BY TreeAt, TreeSetsAre DEF Same
  <2>2. QED
    BY <1>2, <2>1 DEF OneMoreOf
<1>6. MakingOf(l, d) = MakingOf(task, d)
  <2>1. Makes(task[t], n) /\ l[t] = q /\ \A u \in Tasks \ {t} : l[u] = task[u]
    BY DEF MayEnter, Moved
  <2>2. QED
    BY <1>1, <2>1 DEF MakingOf, Makes, IsMaking
<1>7. LinkAt(ino, task, d) /\ ShapeAt(ino, d) /\ ino[d].nlinks \in Nat
  BY TreeAt
<1>8. g[d].nlinks = 2 + Cardinality(SubdirsOf(g, d)) /\ g[d].nlinks # 0
  <2>1. ino[d].nlinks = 2 + Cardinality(SubdirsOf(ino, d)) /\ g[d].nlinks = ino[d].nlinks + Sub(ino, n)
    BY <1>1, <1>7, TreeSetsAre DEF LinkAt, EntryMade
  <2>2. Sub(ino, n) \in Nat /\ Cardinality(SubdirsOf(ino, d)) \in Nat
    BY SetsOfNames DEF Sub
  <2>3. QED
    BY <1>3, <2>1, <2>2
<1>9. LinkAt(g, l, d)
  BY <1>1, <1>2, <1>3, <1>6, <1>7, <1>8, TreeSetsAre DEF LinkAt
<1>10. ShapeAt(g, d)
  BY <1>1, <1>2, <1>3, <1>7, <1>8 DEF ShapeAt
<1>11. QED
  BY <1>1, <1>2, <1>3, <1>4, <1>5, <1>9, <1>10

\* link(): the inode gets a name that it does not count yet.
LEMMA LinkAdds ==
    ASSUME TreeInv, NEW t \in Tasks, NEW d \in Inos, NEW p \in Positions, NEW n \in Inos, MayEnter(t, d, p, n),
           NEW g \in [Inos -> InodeRecs], EntryMade(g, d, p, n),
           task[t].op = "link", n = task[t].old, pwd' = pwd,
           ino' = iput(g, d), task' = [task EXCEPT ![t].pc = "linked", ![t].dir = None]
    PROVE  TreeInv'
<1>r. PICK r : r = task[t]
  OBVIOUS
<1>1. /\ r \in TaskRecs /\ PlaceOf(r) /\ HoldsOf(ino, r) /\ r.pc = "add" /\ r.dir = d /\ r.old = n /\ r.ino = None
      /\ r.op = "link" /\ ino[n].type = "REG" /\ n # None /\ n \in MaybeIno /\ None \in MaybeIno /\ d \in MaybeIno
      /\ task \in [Tasks -> TaskRecs] /\ ino[d].type = "DIR"
  BY <1>r, TreeIs, TreeSetsAre DEF MayEnter, PlaceOf, HoldsOf, MaybeIno
<1>q. PICK q : q = [r EXCEPT !.pc = "linked", !.dir = None]
  OBVIOUS
<1>2. /\ q \in TaskRecs /\ q.pc = "linked" /\ q.dir = None /\ q.ino = None /\ q.old = n /\ q.op = "link"
      /\ q.path = r.path /\ q.to = r.to
  BY <1>1, <1>q DEF TaskRecs, Pcs
<1>l. PICK l : l = task'
  OBVIOUS
<1>3. Moved(task, l, t, q)
  BY <1>1, <1>2, <1>l, <1>q, <1>r DEF Moved
<1>4. Makes(q, n) /\ ~IsMaking(q) /\ Makes(r, n) /\ ~IsMaking(r)
  BY <1>1, <1>2 DEF Makes, IsMaking
<1>5. /\ Elsewhere(g, d, n) /\ OneMoreOf(g, None) /\ LinkAt(g, l, d) /\ ShapeAt(g, d)
      /\ Cardinality(NamingOf(g, n)) = Cardinality(NamingOf(ino, n)) + 1 /\ g[n] = ino[n]
  BY <1>3, <1>4, AddIs
<1>6. LinkAt(g, l, n)
  <2>1. Cardinality(UncountedOf(l, n)) = Cardinality(UncountedOf(task, n)) + 1 /\ Cardinality(UncountedOf(task, n)) \in Nat
    <3> DEFINE S == UncountedOf(task, n)
               T == UncountedOf(l, n)
    <3>1. S \subseteq Tasks /\ T \subseteq Tasks /\ \A u \in Tasks \ {t} : u \in S <=> u \in T
      BY <1>3 DEF UncountedOf, Moved
    <3>2. In(t, S) = 0 /\ In(t, T) = 1
      BY <1>1, <1>2, <1>3, <1>r DEF In, UncountedOf, Moved
    <3> HIDE DEF S, T
    <3>3. /\ Cardinality(S) \in Nat /\ Cardinality(T) \in Nat
          /\ Cardinality(T) + In(t, S) = Cardinality(S) + In(t, T)
      BY <3>1, OneMoves
    <3>4. QED
      BY <3>2, <3>3 DEF S, T
  <2>2. MakingOf(l, n) = MakingOf(task, n)
    BY <1>1, <1>2, <1>3, <1>r DEF MakingOf, Moved
  <2>3. ino[n].nlinks + Cardinality(UncountedOf(task, n)) = Cardinality(NamingOf(ino, n)) + Cardinality(MakingOf(task, n))
    BY <1>1, TreeAt DEF LinkAt
  <2>4. Cardinality(MakingOf(l, n)) \in Nat /\ ino[n].nlinks \in Nat
    BY TreeAt, TreeSetsAre, FS_Subset, FS_CardinalityType DEF MakingOf
  <2>5. ino[n].nlinks + Cardinality(UncountedOf(l, n)) = Cardinality(NamingOf(g, n)) + Cardinality(MakingOf(l, n))
    BY <1>5, <2>1, <2>2, <2>3, <2>4, SetsOfNames
  <2>6. QED
    BY <1>1, <1>5, <2>5, TreeSetsAre DEF LinkAt
<1>7. Own(task[t], n) # 0 /\ Own(task[t], d) # 0
  BY <1>1, <1>r, BitsAre DEF Own
<1>8. ShapeAt(g, n)
  <2>1. n # Root /\ ino[n].count # 0
    BY <1>1, <1>7, HeldCount, TreeIs, TreeSetsAre DEF ShapeOf
  <2>2. QED
    BY <1>1, <1>5, <2>1, TreeSetsAre DEF ShapeAt
<1>9. Balance(task[t], pwd[t], None, q, pwd[t], d, None)
  <2> SUFFICES ASSUME NEW m \in Inos
               PROVE  Own(task[t], m) + Same(pwd[t], m) + Same(m, None) = Own(q, m) + Same(pwd[t], m) + Same(m, d) + Same(m, None)
    BY DEF Balance
  <2>1. Same(None, m) = 0 /\ Same(m, None) = 0
    BY TreeSetsAre DEF Same
  <2>2. Own(task[t], m) = Same(m, d) + Same(m, n) /\ Own(q, m) = Same(m, n)
    BY <1>1, <1>2, <1>r, <2>1, BitsAre DEF Own
  <2>3. QED
    BY <2>1, <2>2, BitsAre
<1>10. CountsOf(g, l, pwd, d, None)
  BY <1>2, <1>3, <1>5, <1>9, CountsFollow
<1>11. PlaceOf(q) /\ HoldsOf(g, q) /\ NewInode(g, q)
  <2>1. (r.op = "link" <=> r.to # <<>>) /\ (r.to # <<>> => Rest(r.to) # <<>>)
    BY <1>1 DEF PlaceOf
  <2>2. QED
    BY <1>1, <1>2, <1>4, <1>5, <2>1 DEF PlaceOf, HoldsOf, NewInode
<1>12. ino[d].type # Free /\ ino[n].type # Free /\ NotOthers(t, d, n) /\ q.pc # "iget" /\ Makes(task[t], n)
  BY <1>1, <1>2, TreeSetsAre DEF MayEnter
<1>13. TreeInvOf(g, l, pwd, d, None)
  BY <1>2, <1>3, <1>4, <1>5, <1>6, <1>8, <1>10, <1>11, <1>12, StructureKeeps
<1>14. TreeInvOf(iput(g, d), l, pwd, None, None)
  BY <1>1, <1>13, DropKeeps
<1>15. QED
  BY <1>14, <1>l DEF TreeInv

\* creat(), mknod() or mkdir(): the new inode gets its name.
LEMMA NewAdds ==
    ASSUME TreeInv, NEW t \in Tasks, NEW d \in Inos, NEW p \in Positions, NEW n \in Inos, MayEnter(t, d, p, n),
           NEW g \in [Inos -> InodeRecs], EntryMade(g, d, p, n), IsMaking(task[t]), n = task[t].ino,
           NEW q \in TaskRecs, NEW l, Moved(task, l, t, q), NEW b \in MaybeIno,
           Quiet(q), PlaceOf(q), HoldsOf(g, q), q.pc # "iget", Balance(task[t], pwd[t], None, q, pwd[t], d, b)
    PROVE  TreeInvOf(iput(iput(g, d), b), l, pwd, None, None)
<1>1. /\ n # Root /\ d # n /\ ino[d].type = "DIR" /\ ino[n].count = 1 /\ ino[n].up = d
      /\ NamingOf(ino, n) = {} /\ Bare(ino, n) /\ UncountedOf(task, n) = {} /\ MakingOf(task, n) = {t}
      /\ NewInode(ino, task[t]) /\ Makes(task[t], n) /\ NotOthers(t, d, n)
  <2>1. d = task[t].dir /\ Makes(task[t], n)
    BY DEF MayEnter
  <2>2. /\ n # Root /\ d # n /\ ino[d].type = "DIR" /\ ino[n].count = 1 /\ ino[n].up = d
        /\ NamingOf(ino, n) = {} /\ Bare(ino, n) /\ UncountedOf(task, n) = {} /\ MakingOf(task, n) = {t}
        /\ NotOthers(t, d, n)
    BY <2>1, NewIs
  <2>3. NewInode(ino, task[t])
    BY TreeIs
  <2>4. QED
    BY <2>1, <2>2, <2>3
<1>2. Makes(q, n) /\ ~IsMaking(q) /\ q.pc # "linked"
  BY DEF Quiet, Makes
<1>3. /\ Elsewhere(g, d, n) /\ OneMoreOf(g, None) /\ LinkAt(g, l, d) /\ ShapeAt(g, d)
      /\ NamingOf(g, n) = NamingOf(ino, n) \cup {<<d, p>>}
      /\ Cardinality(NamingOf(g, n)) = Cardinality(NamingOf(ino, n)) + 1
      /\ SubdirsOf(g, n) = SubdirsOf(ino, n) /\ g[n] = ino[n]
  BY <1>2, AddIs
<1>4. MakingOf(l, n) = {} /\ UncountedOf(l, n) = {}
  <2>1. l[t] = q /\ \A u \in Tasks \ {t} : l[u] = task[u]
    BY DEF Moved
  <2>2. QED
    BY <1>1, <1>2, <2>1, TreeSetsAre DEF MakingOf, UncountedOf, IsMaking
<1>5. Cardinality(NamingOf(g, n)) = 1 /\ NamingOf(g, n) = {<<d, p>>} /\ Cardinality({}) = 0
  BY <1>1, <1>3, FS_EmptySet
<1>6. SubdirsOf(g, n) = {}
  BY <1>1, <1>3 DEF SubdirsOf, Bare
<1>7. \/ g[n].type = "DIR" /\ g[n].nlinks = 2
      \/ g[n].type = "REG" /\ g[n].nlinks = 1
  BY <1>1, <1>3 DEF NewInode
<1>8. LinkAt(g, l, n)
  <2>1. CASE g[n].type = "DIR" /\ g[n].nlinks = 2
    BY <1>1, <1>4, <1>5, <1>6, <2>1, TreeSetsAre DEF LinkAt
  <2>2. CASE g[n].type = "REG" /\ g[n].nlinks = 1
    BY <1>1, <1>4, <1>5, <2>2, TreeSetsAre DEF LinkAt
  <2>3. QED
    BY <1>7, <2>1, <2>2
<1>9. ShapeAt(g, n)
  BY <1>1, <1>3, <1>5, <1>7 DEF ShapeAt
<1>10. NewInode(g, q) /\ ino[d].type # Free /\ ino[n].type # Free
  BY <1>1, <1>2, <1>3, <1>7, TreeSetsAre DEF NewInode
<1>11. CountsOf(g, l, pwd, d, b)
  BY <1>3, CountsFollow
<1>12. TreeInvOf(g, l, pwd, d, b)
  BY <1>1, <1>2, <1>3, <1>8, <1>9, <1>10, <1>11, StructureKeeps
<1>13. d \in MaybeIno
  BY DEF MaybeIno
<1>14. QED
  BY <1>12, <1>13, LetGo

\* There is no room for the name: the new inode loses its link, and is let go of.
LEMMA NoRoom ==
    ASSUME TreeInv, NEW t \in Tasks, task[t].pc = "add", task[t].op \in {"creat", "mknod"}, pwd' = pwd,
           NEW d, d = task[t].dir, NEW n, n = task[t].ino,
           Return(t, iput(iput([ino EXCEPT ![n].nlinks = 0], d), n))
    PROVE  TreeInv'
<1>0. IsMaking(task[t]) /\ NewInode(ino, task[t]) /\ ino \in [Inos -> InodeRecs]
  BY TreeIs DEF PlaceOf, IsMaking
<1>1. /\ n \in Inos /\ n # Root /\ d \in Inos /\ d # n /\ ino[d].type = "DIR" /\ ino[n].count = 1
      /\ NamingOf(ino, n) = {} /\ UncountedOf(task, n) = {} /\ MakingOf(task, n) = {t}
      /\ NotOthers(t, d, n) /\ task[t].old = None
  BY <1>0, NewIs
<1>2. ino[n].type = "REG" /\ ino[n] \in InodeRecs
  BY <1>0, <1>1 DEF NewInode
<1>i. PICK i : i = [ino[n] EXCEPT !.nlinks = 0]
  OBVIOUS
<1>g. PICK g : g = [ino EXCEPT ![n] = i]
  OBVIOUS
<1>4. /\ i \in InodeRecs /\ i.nlinks = 0 /\ i.count = ino[n].count /\ i.type = ino[n].type
      /\ i.up = ino[n].up /\ i.entries = ino[n].entries
  BY <1>2, <1>i DEF InodeRecs
<1>5. g \in [Inos -> InodeRecs] /\ g[n] = i /\ \A m \in Inos \ {n} : g[m] = ino[m]
  BY <1>0, <1>1, <1>4, <1>g
<1>6. \A m \in Inos : g[m].type = ino[m].type /\ g[m].entries = ino[m].entries /\ g[m].up = ino[m].up /\ g[m].count = ino[m].count
  BY <1>4, <1>5
<1>7. \A m \in Inos : NamingOf(g, m) = NamingOf(ino, m) /\ SubdirsOf(g, m) = SubdirsOf(ino, m) /\ (Bare(g, m) <=> Bare(ino, m))
  BY <1>0, <1>5, <1>6, NamesSame
<1>8. OneMoreOf(g, None) /\ Elsewhere(g, d, n) /\ Makes(task[t], n)
  <2>1. \A m \in Inos : ino[m].count + Same(m, None) = ino[m].count
    BY TreeAt, TreeSetsAre DEF Same
  <2>2. OneMoreOf(g, None)
    BY <1>6, <2>1 DEF OneMoreOf
  <2>3. Elsewhere(g, d, n)
    BY <1>5, <1>6, <1>7 DEF Elsewhere
  <2>4. QED
    BY <2>2, <2>3 DEF Makes
<1>l. PICK l : l = [task EXCEPT ![t] = Idle]
  OBVIOUS
<1>9. Moved(task, l, t, Idle)
  BY <1>l, TreeIs, IdleIs DEF Moved
<1>10. LinkAt(g, l, n)
  <2>1. MakingOf(l, n) = {} /\ UncountedOf(l, n) = {}
    BY <1>1, <1>9, IdleIs DEF MakingOf, UncountedOf, Moved
  <2>2. QED
    BY <1>1, <1>2, <1>4, <1>5, <1>7, <2>1, FS_EmptySet, TreeSetsAre DEF LinkAt
<1>11. LinkAt(g, l, d)
  <2>1. MakingOf(l, d) = MakingOf(task, d)
    BY <1>1, <1>9, IdleIs, TreeSetsAre DEF MakingOf, Moved
  <2>2. LinkAt(ino, task, d) /\ g[d] = ino[d]
    BY <1>1, <1>5, TreeAt
  <2>3. QED
    BY <1>1, <1>7, <2>1, <2>2, TreeSetsAre DEF LinkAt
<1>12. ShapeAt(g, n)
  BY <1>1, <1>2, <1>4, <1>5, TreeSetsAre DEF ShapeAt
<1>13. ShapeAt(g, d)
  <2>1. ShapeAt(ino, d) /\ g[d] = ino[d] /\ NamingOf(g, d) = NamingOf(ino, d)
    BY <1>1, <1>5, <1>7, TreeAt
  <2>2. QED
    BY <2>1 DEF ShapeAt
<1>14. Balance(task[t], pwd[t], None, Idle, pwd[t], d, n)
  <2> SUFFICES ASSUME NEW m \in Inos
               PROVE  Own(task[t], m) + Same(pwd[t], m) + Same(m, None) = Own(Idle, m) + Same(pwd[t], m) + Same(m, d) + Same(m, n)
    BY DEF Balance
  <2>1. Same(task[t].old, m) = 0 /\ Same(m, None) = 0
    BY <1>1, TreeSetsAre DEF Same
  <2>2. Own(task[t], m) = Same(m, d) + Same(m, n)
    BY <2>1, BitsAre DEF Own
  <2>3. QED
    BY <2>1, <2>2, IdleIs, BitsAre
<1>15. task' = l /\ ino' = iput(iput(g, d), n) /\ pwd' = pwd
  BY <1>1, <1>g, <1>i, <1>l DEF Return
<1>16. ino[n].type # Free /\ ino[d].type # Free /\ n \in MaybeIno /\ d \in MaybeIno
  BY <1>1, <1>2, TreeSetsAre DEF MaybeIno
<1>17. QED
  BY <1>1, <1>5, <1>8, <1>9, <1>10, <1>11, <1>12, <1>13, <1>14, <1>15, <1>16, StructureEnds

\* mkdir() frees the block of the new directory twice.
LEMMA AddPanics ==
    ASSUME TreeInv, NEW t \in Tasks, task[t].pc = "add", task[t].op = "mkdir", pwd' = pwd, ino' = ino,
           task' = [task EXCEPT ![t].pc = "panic"]
    PROVE  TreeInv'
<1>r. PICK r : r = task[t]
  OBVIOUS
<1>n. PICK n : n = r.ino
  OBVIOUS
<1>d. PICK d : d = r.dir
  OBVIOUS
<1>0. IsMaking(r) /\ NewInode(ino, r) /\ ino \in [Inos -> InodeRecs] /\ task \in [Tasks -> TaskRecs] /\ r \in TaskRecs
      /\ PlaceOf(r) /\ HoldsOf(ino, r) /\ r.pc = "add" /\ r.op = "mkdir"
  BY <1>r, TreeIs DEF PlaceOf, IsMaking
<1>1. n \in Inos /\ d \in Inos /\ ino[d].type = "DIR" /\ NotOthers(t, d, n) /\ r.old = None
  BY <1>0, <1>r, <1>n, <1>d, NewIs
<1>q. PICK q : q = [r EXCEPT !.pc = "panic"]
  OBVIOUS
<1>2. /\ q \in TaskRecs /\ q.pc = "panic" /\ q.dir = r.dir /\ q.ino = r.ino /\ q.old = r.old /\ q.op = r.op
      /\ q.path = r.path /\ q.to = r.to
  BY <1>0, <1>q DEF TaskRecs, Pcs
<1>l. PICK l : l = task'
  OBVIOUS
<1>3. Moved(task, l, t, q)
  BY <1>0, <1>2, <1>l, <1>q, <1>r DEF Moved
<1>4. \A m \in Inos : MakingOf(l, m) = MakingOf(task, m) /\ UncountedOf(l, m) = UncountedOf(task, m)
  BY <1>0, <1>2, <1>3, <1>r DEF MakingOf, UncountedOf, Moved
<1>5. \A m \in Inos : LinkAt(ino, l, m) /\ ShapeAt(ino, m)
  BY <1>4, TreeAt DEF LinkAt
<1>6. OneMoreOf(ino, None) /\ Elsewhere(ino, d, n) /\ Makes(r, n) /\ Makes(q, n) /\ IsMaking(q)
  <2>1. \A m \in Inos : ino[m].count + Same(m, None) = ino[m].count
    BY TreeAt, TreeSetsAre DEF Same
  <2>2. QED
    BY <1>0, <1>2, <1>n, <2>1 DEF OneMoreOf, Elsewhere, Makes, IsMaking
<1>7. Balance(r, pwd[t], None, q, pwd[t], None, None)
  <2>1. \A m : Own(q, m) = Own(r, m)
    BY <1>0, <1>2 DEF Own
  <2>2. \A m \in Inos : Same(m, None) = 0
    BY TreeSetsAre DEF Same
  <2>3. QED
    BY <2>1, <2>2, BitsAre DEF Balance
<1>8. CountsOf(ino, l, pwd, None, None)
  BY <1>0, <1>2, <1>3, <1>6, <1>7, <1>r, CountsFollow
<1>9. PlaceOf(q) /\ HoldsOf(ino, q) /\ NewInode(ino, q) /\ q.pc # "iget"
  BY <1>0, <1>2, <1>6 DEF PlaceOf, HoldsOf, NewInode
<1>10. ino[d].type # Free /\ ino[n].type # Free
  BY <1>0, <1>1, <1>n, TreeSetsAre DEF NewInode
<1>11. TreeInvOf(ino, l, pwd, None, None)
  BY <1>0, <1>1, <1>2, <1>3, <1>5, <1>6, <1>8, <1>9, <1>10, <1>r, StructureKeeps
<1>12. QED
  BY <1>11, <1>l DEF TreeInv

\* add_entry() makes one entry, and mkdir() counts the "..".
LEMMA AddedIs ==
    ASSUME TreeInv, NEW t \in Tasks, NEW d \in Inos, d = task[t].dir, NEW p \in Positions, NEW n \in Inos,
           task[t].path # <<>>, Sub(ino, n) = (IF task[t].op = "mkdir" THEN 1 ELSE 0)
    PROVE  Added(t, p, n) \in [Inos -> InodeRecs] /\ EntryMade(Added(t, p, n), d, p, n)
<1>r. PICK r : r = task[t]
  OBVIOUS
<1>1. /\ ino \in [Inos -> InodeRecs] /\ ino[d] \in InodeRecs /\ ino[d].entries \in [Positions -> EntryRecs]
      /\ ino[d].nlinks \in Nat /\ r.path \in Seq(STRING) /\ r.path # <<>> /\ d = r.dir
      /\ Sub(ino, n) = (IF r.op = "mkdir" THEN 1 ELSE 0)
  BY <1>r, TreeIs, TreeAt DEF TaskRecs
<1>c. PICK c : c = [name |-> r.path[1], ino |-> n]
  OBVIOUS
<1>2. c \in EntryRecs /\ c.ino = n
  <2>1. r.path[1] \in STRING
    BY <1>1
  <2>2. QED
    BY <1>c, <2>1 DEF EntryRecs, MaybeIno
<1>e. PICK e : e = [ino[d].entries EXCEPT ![p] = c]
  OBVIOUS
<1>h. PICK h : h = [ino[d] EXCEPT !.entries = e]
  OBVIOUS
<1>j. PICK j : j = [h EXCEPT !.nlinks = ino[d].nlinks + Sub(ino, n)]
  OBVIOUS
<1>3. e \in [Positions -> EntryRecs] /\ e[p] = c /\ \A q \in Positions \ {p} : e[q] = ino[d].entries[q]
  BY <1>1, <1>2, <1>e
<1>4. h \in InodeRecs /\ h.nlinks = ino[d].nlinks
  BY <1>1, <1>3, <1>h DEF InodeRecs
<1>5. /\ j \in InodeRecs /\ j.count = ino[d].count /\ j.nlinks = ino[d].nlinks + Sub(ino, n) /\ j.type = ino[d].type
      /\ j.up = ino[d].up /\ j.entries = e
  <2>1. ino[d].nlinks + Sub(ino, n) \in Nat
    BY <1>1
  <2>2. QED
    BY <1>1, <1>3, <1>4, <1>h, <1>j, <2>1 DEF InodeRecs
<1>6. (IF r.op = "mkdir" THEN h.nlinks + 1 ELSE h.nlinks) = ino[d].nlinks + Sub(ino, n)
  BY <1>1, <1>4
<1>g. PICK g : g = [ino EXCEPT ![d].entries[p] = c, ![d].nlinks = IF r.op = "mkdir" THEN @ + 1 ELSE @]
  OBVIOUS
<1>7. g[d] = j
  BY <1>1, <1>6, <1>e, <1>g, <1>h, <1>j
<1>8. (\A m \in Inos \ {d} : g[m] = ino[m]) /\ g \in [Inos -> InodeRecs]
  <2>1. (\A m \in Inos \ {d} : g[m] = ino[m]) /\ DOMAIN g = Inos /\ g = [m \in Inos |-> g[m]]
    BY <1>1, <1>g
  <2>2. \A m \in Inos : g[m] \in InodeRecs
    BY <1>1, <1>5, <1>7, <2>1
  <2>3. QED
    BY <2>1, <2>2
<1>9. g = Added(t, p, n)
  BY <1>1, <1>c, <1>g, <1>r DEF Added
<1>10. EntryMade(g, d, p, n)
  BY <1>2, <1>3, <1>5, <1>7, <1>8 DEF EntryMade
<1>11. QED
  BY <1>8, <1>9, <1>10

\* add_entry() and what follows it keep the invariant, whether or not there is room.
LEMMA TreeAdd ==
    ASSUME TreeInv, ~Race, NEW t \in Tasks, Add(t)
    PROVE  TreeInv'
<1>r. PICK r : r = task[t]
  OBVIOUS
<1>d. PICK d : d = r.dir
  OBVIOUS
<1>n. PICK n : n = IF r.op = "link" THEN r.old ELSE r.ino
  OBVIOUS
<1>f. PICK free : free = {p \in 1 .. NrEntries[d] : ino[d].entries[p].ino = None}
  OBVIOUS
<1>1. /\ r \in TaskRecs /\ PlaceOf(r) /\ HoldsOf(ino, r) /\ NewInode(ino, r) /\ r.pc = "add" /\ r.path # <<>>
      /\ pwd' = pwd /\ d \in Inos /\ ino[d].type = "DIR" /\ n \in Inos
      /\ r.op \in {"creat", "mknod", "mkdir", "link"} /\ d \in MaybeIno /\ n \in MaybeIno /\ None \in MaybeIno
      /\ task \in [Tasks -> TaskRecs]
  <2>1. r \in TaskRecs /\ PlaceOf(r) /\ HoldsOf(ino, r) /\ NewInode(ino, r) /\ r.pc = "add" /\ pwd' = pwd
        /\ task \in [Tasks -> TaskRecs]
    BY <1>r, TreeIs DEF Add, At
  <2>2. QED
    BY <1>d, <1>n, <2>1 DEF PlaceOf, HoldsOf, TaskRecs, MaybeIno
<1>2. ino[d].nlinks # 0
  <2>1. permission(ino, d)
    BY <1>1, <1>d, <1>r DEF Race
  <2>2. QED
    BY <1>1, <2>1, TreeAt DEF permission
<1>3. r.op # "link" => IsMaking(r) /\ n = r.ino /\ r.old = None
  BY <1>1, <1>n DEF IsMaking, PlaceOf
<1>4. CASE free # {}
  <2>p. PICK p : p = Min(free)
    OBVIOUS
  <2>1. p \in Positions /\ ino[d].entries[p].ino = None
    <3>1. free \subseteq Positions /\ free \subseteq Nat
      BY <1>1, <1>f, TreeSetsAre
    <3>2. p \in free
      BY <1>4, <2>p, <3>1, LeastOf
    <3>3. QED
      BY <1>f, <3>1, <3>2
  <2>2. Sub(ino, n) = (IF r.op = "mkdir" THEN 1 ELSE 0) /\ ino[n].type \in {"REG", "DIR"}
    <3>1. CASE r.op = "link"
      <4>1. ino[n].type = "REG"
        BY <1>1, <1>n, <3>1 DEF PlaceOf, HoldsOf
      <4>2. QED
        BY <3>1, <4>1 DEF Sub
    <3>2. CASE r.op # "link"
      <4>1. IF r.op = "mkdir" THEN ino[n].type = "DIR" ELSE ino[n].type = "REG"
        BY <1>1, <1>3, <3>2 DEF NewInode
      <4>2. n # None
        BY <1>1, TreeSetsAre
      <4>3. QED
        BY <4>1, <4>2 DEF Sub
    <3>3. QED
      BY <3>1, <3>2
  <2>3. d # n /\ NotOthers(t, d, n) /\ Makes(r, n)
    <3>1. CASE r.op = "link"
      <4>1. ino[n].type = "REG" /\ r.old = n /\ ~IsMaking(r)
        BY <1>1, <1>n, <3>1 DEF PlaceOf, HoldsOf, IsMaking
      <4>2. Own(r, d) # 0 /\ Own(r, n) # 0
        BY <1>d, <4>1, BitsAre DEF Own
      <4>3. NotOthers(t, d, n)
        BY <1>1, <1>r, <4>2, NotOthersIs DEF NotOthers
      <4>4. QED
        BY <1>1, <4>1, <4>3 DEF Makes
    <3>2. CASE r.op # "link"
      <4>1. d # n /\ NotOthers(t, d, n)
        BY <1>3, <1>d, <1>r, <3>2, NewIs
      <4>2. QED
        BY <1>1, <1>3, <3>2, <4>1 DEF Makes
    <3>3. QED
      BY <3>1, <3>2
  <2>4. MayEnter(t, d, p, n)
    BY <1>1, <1>2, <1>d, <1>r, <2>1, <2>2, <2>3 DEF MayEnter
  <2>g. PICK g : g = Added(t, p, n)
    OBVIOUS
  <2>5. g \in [Inos -> InodeRecs] /\ EntryMade(g, d, p, n)
    BY <1>1, <1>d, <1>r, <2>1, <2>2, <2>g, AddedIs
  <2>6. /\ ino' = iput(iput(g, d), IF r.op \in {"mknod", "mkdir"} THEN n ELSE None)
        /\ task' = CASE r.op = "link"  -> [task EXCEPT ![t].pc = "linked", ![t].dir = None]
                     [] r.op = "creat" -> [task EXCEPT ![t].pc = "open", ![t].dir = None]
                     [] OTHER          -> [task EXCEPT ![t] = Idle]
    BY <1>4, <1>d, <1>f, <1>n, <1>r, <2>g, <2>p DEF Add
  <2>7. CASE r.op = "link"
    <3>1. task' = [task EXCEPT ![t].pc = "linked", ![t].dir = None]
      BY <2>6, <2>7
    <3>2. ino' = iput(g, d)
      BY <2>6, <2>7 DEF iput
    <3>3. task[t].op = "link" /\ n = task[t].old
      BY <1>n, <1>r, <2>7
    <3>4. QED
      BY <1>1, <2>1, <2>4, <2>5, <3>1, <3>2, <3>3, LinkAdds
  <2>8. CASE r.op = "creat"
    <3>q. PICK q : q = [r EXCEPT !.pc = "open", !.dir = None]
      OBVIOUS
    <3>1. task' = [task EXCEPT ![t].pc = "open", ![t].dir = None] /\ ino' = iput(iput(g, d), None)
      BY <2>6, <2>8
    <3>2. /\ q \in TaskRecs /\ q.pc = "open" /\ q.dir = None /\ q.ino = n /\ q.old = None /\ q.op = "creat"
          /\ q.to = r.to
      BY <1>1, <1>3, <2>8, <3>q DEF TaskRecs, Pcs
    <3>3. Moved(task, task', t, q)
      BY <1>1, <1>r, <3>1, <3>2, <3>q DEF Moved
    <3>4. n # None
      BY <1>1, TreeSetsAre
    <3>5. Quiet(q) /\ PlaceOf(q) /\ HoldsOf(g, q) /\ q.pc # "iget"
      BY <1>1, <2>8, <3>2, <3>4 DEF Quiet, IsMaking, PlaceOf, HoldsOf
    <3>6. Balance(r, pwd[t], None, q, pwd[t], d, None)
      <4> SUFFICES ASSUME NEW m \in Inos
                   PROVE  Own(r, m) + Same(pwd[t], m) + Same(m, None) = Own(q, m) + Same(pwd[t], m) + Same(m, d) + Same(m, None)
        BY DEF Balance
      <4>1. Same(None, m) = 0 /\ Same(m, None) = 0
        BY TreeSetsAre DEF Same
      <4>2. Own(r, m) = Same(m, d) + Same(m, n) /\ Own(q, m) = Same(m, n)
        BY <1>1, <1>3, <1>d, <2>8, <3>2, <4>1, BitsAre DEF Own
      <4>3. QED
        BY <4>1, <4>2, BitsAre
    <3>7. TreeInvOf(iput(iput(g, d), None), task', pwd, None, None)
      BY <1>1, <1>3, <1>r, <2>1, <2>4, <2>5, <2>8, <3>2, <3>3, <3>5, <3>6, NewAdds
    <3>8. QED
      BY <1>1, <3>1, <3>7 DEF TreeInv
  <2>9. CASE r.op \in {"mknod", "mkdir"}
    <3>1. task' = [task EXCEPT ![t] = Idle] /\ ino' = iput(iput(g, d), n)
      BY <2>6, <2>9
    <3>2. Moved(task, task', t, Idle)
      BY <1>1, <3>1, IdleIs DEF Moved
    <3>3. Quiet(Idle) /\ PlaceOf(Idle) /\ HoldsOf(g, Idle) /\ Idle.pc # "iget" /\ Idle \in TaskRecs
      BY IdleIs DEF Quiet, IsMaking, PlaceOf, HoldsOf
    <3>4. Balance(r, pwd[t], None, Idle, pwd[t], d, n)
      <4> SUFFICES ASSUME NEW m \in Inos
                   PROVE  Own(r, m) + Same(pwd[t], m) + Same(m, None) = Own(Idle, m) + Same(pwd[t], m) + Same(m, d) + Same(m, n)
        BY DEF Balance
      <4>1. Same(None, m) = 0 /\ Same(m, None) = 0
        BY TreeSetsAre DEF Same
      <4>2. Own(r, m) = Same(m, d) + Same(m, n)
        BY <1>1, <1>3, <1>d, <2>9, <4>1, BitsAre DEF Own
      <4>3. QED
        BY <4>1, <4>2, IdleIs, BitsAre
    <3>5. TreeInvOf(iput(iput(g, d), n), task', pwd, None, None)
      BY <1>1, <1>3, <1>r, <2>1, <2>4, <2>5, <2>9, <3>2, <3>3, <3>4, NewAdds
    <3>6. QED
      BY <1>1, <3>1, <3>5 DEF TreeInv
  <2>10. QED
    BY <1>1, <2>7, <2>8, <2>9
<1>5. CASE free = {}
  <2>1. CASE r.op = "mkdir"
    <3>1. task' = [task EXCEPT ![t].pc = "panic"] /\ ino' = ino
      BY <1>5, <1>d, <1>f, <1>r, <2>1 DEF Add
    <3>2. QED
      BY <1>1, <1>r, <2>1, <3>1, AddPanics
  <2>2. CASE r.op = "link"
    <3>1. GiveUp(t)
      BY <1>5, <1>d, <1>f, <1>r, <2>2 DEF Add
    <3>2. r.ino = None
      BY <1>1, <2>2 DEF PlaceOf
    <3>3. QED
      BY <1>1, <1>r, <3>1, <3>2, GiveUpKeeps
  <2>3. CASE r.op \in {"creat", "mknod"}
    <3>1. Return(t, iput(iput([ino EXCEPT ![n].nlinks = 0], d), n))
      BY <1>5, <1>d, <1>f, <1>n, <1>r, <2>3 DEF Add
    <3>2. QED
      BY <1>1, <1>3, <1>d, <1>r, <2>3, <3>1, NoRoom
  <2>4. QED
    BY <1>1, <2>1, <2>2, <2>3
<1>6. QED
  BY <1>4, <1>5

\* new_inode(): inode n was free, and is now that of the name that the task is to make.
Fresh(g, n, i) == g[n] = i /\ \A m \in Inos \ {n} : g[m] = ino[m]

\* Task t has got the new inode n.
Starts(k, l, t, n) == k[t].pc = "new" /\ l[t].pc = "add" /\ l[t].ino = n /\ \A u \in Tasks \ {t} : l[u] = k[u]

\* A task that has got a new inode is the one that makes it.
LEMMA StartsMaking ==
    ASSUME NEW k, NEW l, NEW t \in Tasks, NEW n, Starts(k, l, t, n), NEW m
    PROVE  /\ MakingOf(l, m) = IF m = n THEN MakingOf(k, n) \cup {t} ELSE MakingOf(k, m)
           /\ UncountedOf(l, m) = UncountedOf(k, m)
<1>1. UncountedOf(l, m) = UncountedOf(k, m)
  BY DEF Starts, UncountedOf
<1>2. CASE m = n
  BY <1>1, <1>2 DEF Starts, MakingOf
<1>3. CASE m # n
  BY <1>1, <1>3 DEF Starts, MakingOf
<1>4. QED
  BY <1>2, <1>3

\* As long as no race is lost, the inode that iget() reads is in use.
LEMMA IgetUsed ==
    ASSUME ~Race, NEW t \in Tasks, task[t].pc = "iget"
    PROVE  ino[task[t].ino].type # Free
BY DEF Race, At

\* A new inode has the link that its name will be, and a directory that of its "." too.
LEMMA FreshLinks ==
    ASSUME NEW g, NEW l, NEW n \in Inos, n # Root, NEW t, NamingOf(g, n) = {}, SubdirsOf(g, n) = {},
           MakingOf(l, n) = {t}, UncountedOf(l, n) = {},
           \/ g[n].type = "DIR" /\ g[n].nlinks = 2
           \/ g[n].type = "REG" /\ g[n].nlinks = 1
    PROVE  LinkAt(g, l, n)
<1>1. /\ Cardinality(NamingOf(g, n)) = 0 /\ Cardinality(SubdirsOf(g, n)) = 0
      /\ Cardinality(MakingOf(l, n)) = 1 /\ Cardinality(UncountedOf(l, n)) = 0
  BY FS_Singleton, FS_EmptySet
<1>2. QED
  BY <1>1, TreeSetsAre DEF LinkAt

\* new_inode() keeps the invariant when it takes an inode that is not in use.
LEMMA FreshKeeps ==
    ASSUME TreeInv, ~Race, NEW t \in Tasks, task[t].pc = "new", NEW d \in Inos, d = task[t].dir,
           NEW n \in Inos, ino[n].type = Free, NEW i \in InodeRecs,
           i.type = (IF task[t].op = "mkdir" THEN "DIR" ELSE "REG"), i.nlinks = (IF task[t].op = "mkdir" THEN 2 ELSE 1),
           i.up = d, i.count = 1, \A p \in Positions : i.entries[p].ino = None,
           NEW g \in [Inos -> InodeRecs], Fresh(g, n, i),
           NEW q \in TaskRecs, q = [task[t] EXCEPT !.pc = "add", !.ino = n], NEW l, Moved(task, l, t, q)
    PROVE  TreeInvOf(g, l, pwd, None, None)
<1>r. PICK r : r = task[t]
  OBVIOUS
<1>1. /\ ino \in [Inos -> InodeRecs] /\ task \in [Tasks -> TaskRecs] /\ pwd \in [Tasks -> Inos]
      /\ TreeTyped(ino, task, pwd) /\ CountsOf(ino, task, pwd, None, None)
      /\ ShapeOf(ino) /\ LinksOf(ino, task) /\ Unreached(task)
      /\ \A u \in Tasks : PlaceOf(task[u]) /\ HoldsOf(ino, task[u]) /\ NewInode(ino, task[u]) /\ ino[pwd[u]].type = "DIR"
  BY TreeIs
<1>2. /\ r \in TaskRecs /\ PlaceOf(r) /\ HoldsOf(ino, r) /\ r.pc = "new" /\ r.dir = d /\ r.ino = None /\ r.old = None
      /\ r.op \in {"creat", "mknod", "mkdir"} /\ r.path # <<>> /\ ino[d].type = "DIR" /\ d # n /\ n # None /\ d # None
  <2>1. r \in TaskRecs /\ PlaceOf(r) /\ HoldsOf(ino, r) /\ r.pc = "new" /\ r.dir = d
    BY <1>1, <1>r
  <2>2. ino[d].type = "DIR" /\ n # None /\ d # None
    BY <2>1, TreeSetsAre DEF HoldsOf
  <2>3. QED
    BY <2>1, <2>2, TreeSetsAre DEF PlaceOf
<1>3. /\ q.pc = "add" /\ q.dir = d /\ q.ino = n /\ q.old = None /\ q.op = r.op /\ q.path = r.path /\ q.to = r.to
  BY <1>2, <1>r DEF TaskRecs
<1>4. l \in [Tasks -> TaskRecs] /\ l[t] = q /\ \A u \in Tasks \ {t} : l[u] = task[u]
  BY DEF Moved
<1>5. g[n] = i /\ \A m \in Inos \ {n} : g[m] = ino[m]
  BY DEF Fresh
<1>6. ino[n].count = 0 /\ NamingOf(ino, n) = {} /\ n # Root
  <2>1. ino[n] = Unused /\ n # Root
    BY <1>1, TreeSetsAre DEF ShapeOf
  <2>2. QED
    BY <1>1, <2>1, UnusedIs DEF LinksOf, LinkAt
<1>7. (\A u \in Tasks : Own(task[u], n) = 0 /\ pwd[u] # n) /\ MakingOf(task, n) = {} /\ UncountedOf(task, n) = {}
  <2>1. HoldersOf(task, pwd, n) \in Nat /\ ino[n].count = HoldersOf(task, pwd, n) + Same(n, None) + Same(n, None)
    BY <1>1, HoldersNat DEF CountsOf
  <2>2. HoldersOf(task, pwd, n) = 0
    BY <1>6, <2>1, BitsAre
  <2>3. QED
    BY <1>1, <2>2, NobodyHolds
<1>8. CountsOf(g, l, pwd, None, None)
  <2>1. OneMoreOf(g, n)
    <3>1. \A m \in Inos : ino[m].count \in Nat
      BY TreeAt
    <3>2. ASSUME NEW m \in Inos PROVE g[m].count = ino[m].count + Same(m, n)
      <4>1. CASE m = n
        BY <1>5, <1>6, <4>1 DEF Same
      <4>2. CASE m # n
        BY <1>5, <3>1, <4>2 DEF Same
      <4>3. QED
        BY <4>1, <4>2
    <3>3. QED
      BY <3>2 DEF OneMoreOf
  <2>2. Balance(r, pwd[t], n, q, pwd[t], None, None)
    <3> SUFFICES ASSUME NEW m \in Inos
                 PROVE  Own(r, m) + Same(pwd[t], m) + Same(m, n) = Own(q, m) + Same(pwd[t], m) + Same(m, None) + Same(m, None)
      BY DEF Balance
    <3>1. Same(None, m) = 0 /\ Same(m, None) = 0
      BY TreeSetsAre DEF Same
    <3>2. Own(r, m) = Same(m, d) /\ Own(q, m) = Same(m, d) + Same(m, n)
      BY <1>2, <1>3, <3>1, BitsAre DEF Own
    <3>3. QED
      BY <3>1, <3>2, BitsAre
  <2>3. QED
    BY <1>r, <2>1, <2>2, CountsFollow
<1>9. \A m \in Inos : NamingOf(g, m) = NamingOf(ino, m)
  <2> SUFFICES ASSUME NEW m \in Inos, NEW j \in Inos, NEW p \in Positions
               PROVE  g[j].type = "DIR" /\ g[j].entries[p].ino = m <=> ino[j].type = "DIR" /\ ino[j].entries[p].ino = m
    BY DEF NamingOf
  <2>1. m # None
    BY TreeSetsAre
  <2>2. CASE j = n
    BY <1>5, <2>1, <2>2, TreeSetsAre
  <2>3. CASE j # n
    BY <1>5, <2>3
  <2>4. QED
    BY <2>2, <2>3
<1>10. \A m \in Inos \ {n} : (Bare(g, m) <=> Bare(ino, m)) /\ (ino[m].type = "DIR" => SubdirsOf(g, m) = SubdirsOf(ino, m))
  <2> SUFFICES ASSUME NEW m \in Inos \ {n}
               PROVE  (Bare(g, m) <=> Bare(ino, m)) /\ (ino[m].type = "DIR" => SubdirsOf(g, m) = SubdirsOf(ino, m))
    OBVIOUS
  <2>1. Bare(g, m) <=> Bare(ino, m)
    BY <1>5 DEF Bare
  <2>2. ASSUME ino[m].type = "DIR" PROVE SubdirsOf(g, m) = SubdirsOf(ino, m)
    <3>1. \A p \in Positions : ino[m].entries[p].ino \in MaybeIno
      BY <1>1, EntriesAre
    <3>2. \A p \in Positions : ino[m].entries[p].ino = n => <<m, p>> \in NamingOf(ino, n)
      BY <2>2 DEF NamingOf
    <3>3. \A p \in Positions : ino[m].entries[p].ino # n
      BY <1>6, <3>2
    <3>4. QED
      BY <1>5, <3>1, <3>3 DEF SubdirsOf, MaybeIno
  <2>3. QED
    BY <2>1, <2>2
<1>11. Bare(g, n) /\ SubdirsOf(g, n) = {}
  BY <1>5 DEF Bare, SubdirsOf
<1>12. i.type \in {"DIR", "REG"} /\ i.nlinks # 0
  OBVIOUS
<1>13. ShapeOf(g)
  <2>1. g[Root].type = "DIR" /\ g[Root].nlinks # 0 /\ g[Root].up = Root /\ NamingOf(g, Root) = {}
    BY <1>1, <1>5, <1>6, <1>9, TreeSetsAre DEF ShapeOf
  <2>2. ASSUME NEW m \in Inos
        PROVE  /\ g[m].type = Free => g[m] = Unused
               /\ g[m].type = "DIR" => g[m].up # None /\ \A e \in NamingOf(g, m) : e[1] = g[m].up
               /\ g[m].nlinks = 0 /\ g[m].count = 0 => g[m].type = Free
    <3>1. CASE m = n
      BY <1>2, <1>5, <1>6, <1>9, <1>12, <3>1, TreeSetsAre
    <3>2. CASE m # n
      BY <1>1, <1>5, <1>9, <3>2 DEF ShapeOf
    <3>3. QED
      BY <3>1, <3>2
  <2>3. QED
    BY <2>1, <2>2 DEF ShapeOf
<1>s. Starts(task, l, t, n)
  BY <1>2, <1>3, <1>4, <1>r DEF Starts
<1>14. \A m \in Inos \ {n} : MakingOf(l, m) = MakingOf(task, m) /\ UncountedOf(l, m) = UncountedOf(task, m)
  BY <1>s, StartsMaking
<1>15. MakingOf(l, n) = {t} /\ UncountedOf(l, n) = {}
  BY <1>7, <1>s, StartsMaking
<1>16. LinksOf(g, l)
  <2> SUFFICES ASSUME NEW m \in Inos PROVE LinkAt(g, l, m)
    BY DEF LinksOf, LinkAt
  <2>1. CASE m = n
    <3>1. \/ g[n].type = "DIR" /\ g[n].nlinks = 2
          \/ g[n].type = "REG" /\ g[n].nlinks = 1
      BY <1>5
    <3>2. QED
      BY <1>6, <1>9, <1>11, <1>15, <2>1, <3>1, FreshLinks
  <2>2. CASE m # n
    <3>1. g[m] = ino[m] /\ LinkAt(ino, task, m)
      BY <1>5, <2>2, TreeAt
    <3>2. QED
      BY <1>9, <1>10, <1>14, <2>2, <3>1 DEF LinkAt
  <2>3. QED
    BY <2>1, <2>2
<1>17. ASSUME NEW u \in Tasks PROVE PlaceOf(l[u]) /\ HoldsOf(g, l[u]) /\ NewInode(g, l[u]) /\ g[pwd[u]].type = "DIR"
  <2>1. g[pwd[u]].type = "DIR"
    BY <1>1, <1>5, <1>7
  <2>2. CASE u = t
    <3>1. PlaceOf(q)
      <4>1. (r.op = "link" <=> r.to # <<>>) /\ (r.to # <<>> => Rest(r.to) # <<>>)
        BY <1>2 DEF PlaceOf
      <4>2. QED
        BY <1>2, <1>3, <4>1 DEF PlaceOf
    <3>2. HoldsOf(g, q)
      BY <1>2, <1>3, <1>5 DEF HoldsOf
    <3>3. NewInode(g, q)
      <4>1. NamingOf(g, n) = {}
        BY <1>6, <1>9
      <4>2. QED
        BY <1>3, <1>5, <1>11, <1>r, <4>1 DEF NewInode
    <3>4. QED
      BY <1>4, <2>1, <2>2, <3>1, <3>2, <3>3
  <2>3. CASE u # t
    <3>1. l[u] = task[u] /\ task[u] \in TaskRecs /\ PlaceOf(task[u]) /\ HoldsOf(ino, task[u]) /\ NewInode(ino, task[u])
      BY <1>1, <1>4, <2>3
    <3>2. task[u].dir # n /\ task[u].old # n /\ (task[u].pc # "iget" => task[u].ino # n)
      BY <1>7, BitsAre DEF Own
    <3>3. HoldsOf(g, task[u])
      <4>1. /\ task[u].dir # None => task[u].dir \in Inos
            /\ task[u].old # None => task[u].old \in Inos
            /\ task[u].pc = "rmdir" => task[u].ino \in Inos
        BY <3>1 DEF TaskRecs, MaybeIno, PlaceOf
      <4>2. QED
        BY <1>5, <3>1, <3>2, <4>1 DEF HoldsOf
    <3>4. NewInode(g, task[u])
      <4> SUFFICES ASSUME IsMaking(task[u]) PROVE NewInode(g, task[u])
        BY DEF NewInode
      <4>1. task[u].ino \in Inos /\ task[u].ino # n
        BY <3>1, <3>2 DEF IsMaking, TaskRecs, MaybeIno
      <4>2. QED
        BY <1>5, <1>9, <1>10, <3>1, <4>1 DEF NewInode
    <3>5. QED
      BY <2>1, <3>1, <3>3, <3>4
  <2>4. QED
    BY <2>2, <2>3
<1>18. Unreached(l)
  <2> SUFFICES ASSUME NEW u \in Tasks, NEW z \in Tasks, IsMaking(l[u]), l[z].pc = "iget" PROVE l[z].ino # l[u].ino
    BY DEF Unreached
  <2>1. z # t /\ l[z] = task[z]
    BY <1>3, <1>4
  <2>2. CASE u = t
    <3>1. ino[task[z].ino].type # Free
      BY <2>1, IgetUsed
    <3>2. l[u].ino = n /\ l[z].ino = task[z].ino
      BY <1>3, <1>4, <2>1, <2>2
    <3>3. ino[n].type = Free
      OBVIOUS
    <3>4. task[z].ino # n
      BY <3>1, <3>3
    <3>5. QED
      BY <3>2, <3>4
  <2>3. CASE u # t
    BY <1>1, <1>4, <2>1, <2>3 DEF Unreached
  <2>4. QED
    BY <2>2, <2>3
<1>19. TreeTyped(g, l, pwd)
  BY <1>1, <1>4 DEF TreeTyped
<1>20. QED
  BY <1>8, <1>13, <1>16, <1>17, <1>18, <1>19 DEF TreeInvOf, TasksOf

\* new_inode() and what follows it keep the invariant, whether or not an inode is left.
LEMMA TreeNew ==
    ASSUME TreeInv, ~Race, NEW t \in Tasks, New(t)
    PROVE  TreeInv'
<1>r. PICK r : r = task[t]
  OBVIOUS
<1>d. PICK d : d = r.dir
  OBVIOUS
<1>f. PICK free : free = {n \in Inos : ino[n].type = Free}
  OBVIOUS
<1>1. /\ r \in TaskRecs /\ r.pc = "new" /\ pwd' = pwd /\ d \in Inos /\ r.ino = None /\ r.old = None /\ d \in MaybeIno
      /\ None \in MaybeIno /\ task \in [Tasks -> TaskRecs] /\ ino \in [Inos -> InodeRecs]
  <2>1. r \in TaskRecs /\ PlaceOf(r) /\ r.pc = "new" /\ pwd' = pwd /\ task \in [Tasks -> TaskRecs] /\ ino \in [Inos -> InodeRecs]
    BY <1>r, TreeIs DEF New, At
  <2>2. QED
    BY <1>d, <2>1 DEF PlaceOf, TaskRecs, MaybeIno
<1>2. Quiet(r)
  BY <1>1 DEF Quiet, IsMaking
<1>3. CASE Return(t, iput(ino, d))
  <2>1. Return(t, iput(iput(HeldAlso(ino, None), d), None))
    BY <1>3 DEF HeldAlso, iput
  <2>2. Balance(r, pwd[t], None, Idle, pwd[t], d, None)
    <3> SUFFICES ASSUME NEW m \in Inos
                 PROVE  Own(r, m) + Same(pwd[t], m) + Same(m, None) = Own(Idle, m) + Same(pwd[t], m) + Same(m, d) + Same(m, None)
      BY DEF Balance
    <3>1. Same(None, m) = 0 /\ Same(m, None) = 0
      BY TreeSetsAre DEF Same
    <3>2. Own(r, m) = Same(m, d)
      BY <1>1, <1>d, <3>1, BitsAre DEF Own
    <3>3. QED
      BY <3>1, <3>2, IdleIs, BitsAre
  <2>3. Known(ino, task, None)
    BY DEF Known
  <2>4. QED
    BY <1>1, <1>2, <1>r, <2>1, <2>2, <2>3, PwdKept, ReturnKeeps
<1>4. CASE /\ free # {} /\ ino' = [ino EXCEPT ![Min(free)] = Made(t)]
           /\ task' = [task EXCEPT ![t].pc = "add", ![t].ino = Min(free)]
  <2>n. PICK n : n = Min(free)
    OBVIOUS
  <2>1. n \in Inos /\ ino[n].type = Free
    <3>1. free \subseteq Nat
      BY <1>f, TreeSetsAre
    <3>2. n \in free
      BY <1>4, <2>n, <3>1, LeastOf
    <3>3. QED
      BY <1>f, <3>2
  <2>i. PICK i : i = Made(t)
    OBVIOUS
  <2>2. /\ i \in InodeRecs /\ i.type = (IF r.op = "mkdir" THEN "DIR" ELSE "REG")
        /\ i.nlinks = (IF r.op = "mkdir" THEN 2 ELSE 1) /\ i.up = d /\ i.count = 1
        /\ i.entries = Unused.entries
    <3>1. CASE r.op = "mkdir"
      BY <1>1, <1>d, <1>r, <2>i, <3>1, UnusedIs DEF InodeRecs, Made
    <3>2. CASE r.op # "mkdir"
      BY <1>1, <1>d, <1>r, <2>i, <3>2, UnusedIs DEF InodeRecs, Made
    <3>3. QED
      BY <3>1, <3>2
  <2>3. \A p \in Positions : i.entries[p].ino = None
    BY <2>2, UnusedIs
  <2>4. ino' = [ino EXCEPT ![n] = i] /\ task' = [task EXCEPT ![t].pc = "add", ![t].ino = n]
    BY <1>4, <2>i, <2>n
  <2>q. PICK q : q = [r EXCEPT !.pc = "add", !.ino = n]
    OBVIOUS
  <2>5. q \in TaskRecs
    BY <1>1, <2>1, <2>q DEF TaskRecs, Pcs, MaybeIno
  <2>6. Moved(task, task', t, q)
    BY <1>1, <1>r, <2>4, <2>5, <2>q DEF Moved
  <2>7. ino' \in [Inos -> InodeRecs] /\ Fresh(ino', n, i)
    BY <1>1, <2>1, <2>2, <2>4 DEF Fresh
  <2>8. TreeInvOf(ino', task', pwd, None, None)
    BY <1>1, <1>d, <1>r, <2>1, <2>2, <2>3, <2>5, <2>6, <2>7, <2>q, FreshKeeps
  <2>9. QED
    BY <1>1, <2>8 DEF TreeInv
<1>5. QED
  <2>1. \/ Return(t, iput(ino, task[t].dir))
        \/ /\ free # {} /\ ino' = [ino EXCEPT ![Min(free)] = Made(t)]
           /\ task' = [task EXCEPT ![t].pc = "add", ![t].ino = Min(free)]
    BY <1>f DEF New
  <2>2. QED
    BY <1>3, <1>4, <1>d, <1>r, <2>1


\* The invariant is a statement about the variables only.
LEMMA TreeStays ==
    ASSUME TreeInv, ino' = ino, task' = task, pwd' = pwd
    PROVE  TreeInv'
BY DEF TreeInv

\* Every step of a run that has not lost a race keeps the invariant.
LEMMA TreeNext ==
    ASSUME TreeInv, [Next]_vars
    PROVE  TreeInv'
<1>1. CASE UNCHANGED vars
  BY <1>1, TreeStays DEF vars
<1>2. CASE Next
  <2>1. ~Race
    BY <1>2 DEF Next
  <2>2. PICK t \in Tasks :
          \/ Find(t) \/ Iget(t) \/ Rmdir(t) \/ New(t) \/ Add(t) \/ Linked(t) \/ Close(t)
          \/ \E op \in Calls \ {"link"}, path \in Paths : Call(t, op, path, <<>>)
          \/ \E path, to \in Paths : Call(t, "link", path, to)
    BY <1>2 DEF Next
  <2>3. CASE Find(t)
    BY <2>1, <2>3, TreeFind
  <2>4. CASE Iget(t)
    BY <2>1, <2>4, TreeIget
  <2>5. CASE Rmdir(t)
    BY <2>1, <2>5, TreeRmdir
  <2>6. CASE New(t)
    BY <2>1, <2>6, TreeNew
  <2>7. CASE Add(t)
    BY <2>1, <2>7, TreeAdd
  <2>8. CASE Linked(t)
    BY <2>8, TreeLinked
  <2>9. CASE Close(t)
    BY <2>9, TreeClose
  <2>10. CASE \E op \in Calls \ {"link"}, path \in Paths : Call(t, op, path, <<>>)
    BY <2>10, TreeCall
  <2>11. CASE \E path, to \in Paths : Call(t, "link", path, to)
    <3>1. PICK path \in Paths, to \in Paths : Call(t, "link", path, to)
      BY <2>11
    <3>2. to # <<>> /\ "link" \in Calls
      BY PathsAre DEF Calls
    <3>3. QED
      BY <3>1, <3>2, TreeCall
  <2>12. QED
    BY <2>2, <2>3, <2>4, <2>5, <2>6, <2>7, <2>8, <2>9, <2>10, <2>11
<1>3. QED
  BY <1>1, <1>2

-----------------------------------------------------------------------------
(* At first. *)

\* At first the root is the only inode in use, the directory of every task, and empty.
LEMMA FirstIs ==
    ASSUME Init
    PROVE  /\ TreeTyped(ino, task, pwd)
           /\ ino[Root].type = "DIR" /\ ino[Root].nlinks = 2 /\ ino[Root].up = Root /\ Bare(ino, Root)
           /\ ino[Root].count = RootHeld + Cardinality(Tasks)
           /\ \A n \in Inos \ {Root} : ino[n] = Unused
           /\ \A t \in Tasks : task[t] = Idle /\ pwd[t] = Root
<1>i. PICK i : i = [Unused EXCEPT !.type = "DIR", !.nlinks = 2, !.up = Root, !.count = RootHeld + Cardinality(Tasks)]
  OBVIOUS
<1>1. /\ i \in InodeRecs /\ i.type = "DIR" /\ i.nlinks = 2 /\ i.up = Root /\ i.count = RootHeld + Cardinality(Tasks)
      /\ i.entries = Unused.entries
  <2>1. RootHeld + Cardinality(Tasks) \in Nat /\ Root \in MaybeIno
    BY TreeSetsAre DEF MaybeIno
  <2>2. QED
    BY <1>i, <2>1, UnusedIs DEF InodeRecs
<1>2. ino = [n \in Inos |-> IF n = Root THEN i ELSE Unused] /\ pwd = [t \in Tasks |-> Root] /\ task = [t \in Tasks |-> Idle]
  BY <1>i DEF Init
<1>3. TreeTyped(ino, task, pwd)
  BY <1>1, <1>2, UnusedIs, IdleIs, TreeSetsAre DEF TreeTyped
<1>4. ino[Root] = i /\ (\A n \in Inos \ {Root} : ino[n] = Unused) /\ \A t \in Tasks : task[t] = Idle /\ pwd[t] = Root
  BY <1>2, TreeSetsAre
<1>5. Bare(ino, Root)
  BY <1>1, <1>4, UnusedIs DEF Bare
<1>6. QED
  BY <1>1, <1>3, <1>4, <1>5

\* The first state satisfies the invariant.
LEMMA TreeFirst ==
    ASSUME Init
    PROVE  TreeInv
<1>1. /\ TreeTyped(ino, task, pwd)
      /\ ino[Root].type = "DIR" /\ ino[Root].nlinks = 2 /\ ino[Root].up = Root /\ Bare(ino, Root)
      /\ ino[Root].count = RootHeld + Cardinality(Tasks)
      /\ \A n \in Inos \ {Root} : ino[n] = Unused
      /\ \A t \in Tasks : task[t] = Idle /\ pwd[t] = Root
  BY FirstIs
<1>2. /\ Root \in Inos /\ None \notin Inos /\ RootHeld \in Nat /\ Cardinality(Tasks) \in Nat /\ Free # "DIR" /\ Free # "REG"
      /\ Cardinality({}) = 0
  BY TreeSetsAre, FS_EmptySet
<1>3. ASSUME NEW n \in Inos PROVE NamingOf(ino, n) = {}
  <2> SUFFICES ASSUME NEW e \in NamingOf(ino, n) PROVE FALSE
    OBVIOUS
  <2>1. e[1] \in Inos /\ ino[e[1]].type = "DIR" /\ e[2] \in Positions /\ ino[e[1]].entries[e[2]].ino = n
    BY DEF NamingOf
  <2>2. e[1] = Root
    BY <1>1, <1>2, <2>1, UnusedIs
  <2>3. QED
    BY <1>1, <1>2, <2>1, <2>2 DEF Bare
<1>4. ASSUME NEW n \in Inos PROVE MakingOf(task, n) = {} /\ UncountedOf(task, n) = {}
  BY <1>1, IdleIs DEF MakingOf, UncountedOf
<1>5. CountsOf(ino, task, pwd, None, None)
  <2> SUFFICES ASSUME NEW n \in Inos
               PROVE  ino[n].count = HoldersOf(task, pwd, n) + Same(n, None) + Same(n, None)
    BY DEF CountsOf
  <2>1. Same(n, None) = 0
    BY <1>2 DEF Same
  <2>2. DirOf(task, n) = {} /\ OldOf(task, n) = {} /\ FileOf(task, n) = {}
    BY <1>1, <1>2, IdleIs DEF DirOf, OldOf, FileOf
  <2>3. CASE n = Root
    <3>1. PwdOf(pwd, n) = Tasks
      BY <1>1, <2>3 DEF PwdOf
    <3>2. HoldersOf(task, pwd, n) = Cardinality(Tasks) + RootHeld
      BY <1>2, <2>2, <2>3, <3>1 DEF HoldersOf
    <3>3. QED
      BY <1>1, <1>2, <2>1, <2>3, <3>2
  <2>4. CASE n # Root
    <3>1. PwdOf(pwd, n) = {}
      BY <1>1, <2>4 DEF PwdOf
    <3>2. HoldersOf(task, pwd, n) = 0
      BY <1>2, <2>2, <2>4, <3>1 DEF HoldersOf
    <3>3. QED
      BY <1>1, <2>1, <2>4, <3>2, UnusedIs
  <2>5. QED
    BY <2>3, <2>4
<1>6. ShapeOf(ino)
  <2>1. ASSUME NEW n \in Inos
        PROVE  /\ ino[n].type = Free => ino[n] = Unused
               /\ ino[n].type = "DIR" => ino[n].up # None /\ \A e \in NamingOf(ino, n) : e[1] = ino[n].up
               /\ ino[n].nlinks = 0 /\ ino[n].count = 0 => ino[n].type = Free
    <3>1. CASE n = Root
      BY <1>1, <1>2, <1>3, <3>1
    <3>2. CASE n # Root
      BY <1>1, <1>2, <3>2, UnusedIs
    <3>3. QED
      BY <3>1, <3>2
  <2>2. ino[Root].type = "DIR" /\ ino[Root].nlinks # 0 /\ ino[Root].up = Root /\ NamingOf(ino, Root) = {}
    BY <1>1, <1>2, <1>3
  <2>3. QED
    BY <2>1, <2>2 DEF ShapeOf
<1>7. LinksOf(ino, task)
  <2> SUFFICES ASSUME NEW n \in Inos PROVE LinkAt(ino, task, n)
    BY DEF LinksOf, LinkAt
  <2>1. CASE n = Root
    <3>1. SubdirsOf(ino, Root) = {}
      BY <1>1 DEF Bare, SubdirsOf
    <3>2. QED
      BY <1>1, <1>2, <2>1, <3>1 DEF LinkAt
  <2>2. CASE n # Root
    BY <1>1, <1>2, <1>3, <2>2, UnusedIs DEF LinkAt
  <2>3. QED
    BY <2>1, <2>2
<1>8. ASSUME NEW t \in Tasks
      PROVE  PlaceOf(task[t]) /\ HoldsOf(ino, task[t]) /\ NewInode(ino, task[t]) /\ ino[pwd[t]].type = "DIR"
  <2>1. PlaceOf(Idle) /\ HoldsOf(ino, Idle) /\ NewInode(ino, Idle)
    BY IdleIs DEF PlaceOf, HoldsOf, NewInode, IsMaking
  <2>2. QED
    BY <1>1, <2>1
<1>9. Unreached(task)
  BY <1>1, IdleIs DEF Unreached, IsMaking
<1>10. QED
  BY <1>1, <1>5, <1>6, <1>7, <1>8, <1>9 DEF TreeInv, TreeInvOf, TasksOf

\* The invariant holds at every step of every call (namei.c, open.c).
THEOREM TreeInvariant == Spec => []TreeInv
<1>1. Init => TreeInv
  BY TreeFirst
<1>2. TreeInv /\ [Next]_vars => TreeInv'
  BY TreeNext
<1>3. QED
  BY <1>1, <1>2, PTL DEF Spec

-----------------------------------------------------------------------------
(* What the invariant says of the links and the counts. *)

\* A name is one of NrInodes * Max(Positions) entries.
LEMMA NamesAtMost ==
    ASSUME NEW n
    PROVE  IsFiniteSet(NamingOf(ino, n)) /\ Cardinality(NamingOf(ino, n)) \in Nat
           /\ Cardinality(NamingOf(ino, n)) <= NrInodes * Max(Positions)
<1>1. IsFiniteSet(Inos \X Positions) /\ Cardinality(Inos \X Positions) = NrInodes * Max(Positions)
  BY TreeSetsAre, FS_Product
<1>2. NamingOf(ino, n) \subseteq Inos \X Positions
  BY DEF NamingOf
<1>3. QED
  BY <1>1, <1>2, FS_Subset, FS_CardinalityType

\* The links of an inode are at most as many as its names, or 2 and its subdirectories.
LEMMA LinksAtMost ==
    ASSUME TreeInv, NEW n \in Inos
    PROVE  ino[n].nlinks \in 0 .. NrInodes * Max(Positions) + 2
<1>1. /\ ino[n].nlinks \in Nat /\ ino[n].type \in {Free, "REG", "DIR"} /\ LinkAt(ino, task, n)
  BY TreeAt
<1>2. /\ NrInodes \in Nat \ {0} /\ Max(Positions) \in Nat \ {0} /\ Free # "REG" /\ Free # "DIR"
      /\ IsFiniteSet(Positions) /\ Cardinality(Positions) = Max(Positions) /\ IsFiniteSet(Tasks)
  <2>1. NrInodes \in Nat \ {0}
    BY FileTreeAssumption
  <2>2. QED
    BY <2>1, TreeSetsAre
<1>3. NrInodes * Max(Positions) \in Nat /\ Max(Positions) <= NrInodes * Max(Positions)
  <2> DEFINE m == Max(Positions)
  <2>1. NrInodes \in Nat /\ NrInodes >= 1 /\ m \in Nat
    BY <1>2
  <2>2. \A a, b \in Nat : a >= 1 => a * b \in Nat /\ b <= a * b
    OBVIOUS
  <2> HIDE DEF m
  <2>3. NrInodes * m \in Nat /\ m <= NrInodes * m
    BY <2>1, <2>2
  <2>4. QED
    BY <2>3 DEF m
<1>4. CASE ino[n].type = Free
  <2>1. ino[n].nlinks = 0
    BY <1>4, TreeIs, UnusedIs DEF ShapeOf
  <2>2. QED
    BY <1>3, <2>1
<1>5. CASE ino[n].type = "DIR"
  <2>1. IsFiniteSet(SubdirsOf(ino, n)) /\ Cardinality(SubdirsOf(ino, n)) <= Cardinality(Positions)
        /\ Cardinality(SubdirsOf(ino, n)) \in Nat
    BY <1>2, FS_Subset, FS_CardinalityType DEF SubdirsOf
  <2>2. ino[n].nlinks = 0 \/ ino[n].nlinks = 2 + Cardinality(SubdirsOf(ino, n))
    BY <1>1, <1>5 DEF LinkAt
  <2>3. QED
    BY <1>1, <1>2, <1>3, <2>1, <2>2
<1>6. CASE ino[n].type = "REG"
  <2>1. /\ ino[n].nlinks + Cardinality(UncountedOf(task, n)) = Cardinality(NamingOf(ino, n)) + Cardinality(MakingOf(task, n))
    BY <1>1, <1>6 DEF LinkAt
  <2>2. Cardinality(UncountedOf(task, n)) \in Nat
    BY <1>2, FS_Subset, FS_CardinalityType DEF UncountedOf
  <2>3. CASE MakingOf(task, n) = {}
    <3>1. Cardinality(MakingOf(task, n)) = 0
      BY <2>3, FS_EmptySet
    <3>2. QED
      BY <1>1, <1>3, <2>1, <2>2, <3>1, NamesAtMost
  <2>4. CASE MakingOf(task, n) # {}
    <3>1. PICK t \in MakingOf(task, n) : TRUE
      BY <2>4
    <3>2. t \in Tasks /\ task[t].ino = n /\ IsMaking(task[t])
      BY <3>1, TreeSetsAre DEF MakingOf, IsMaking
    <3>3. NewInode(ino, task[t])
      BY <3>2, TreeIs
    <3>4. ino[n].nlinks = 1
      BY <1>2, <1>6, <3>2, <3>3 DEF NewInode
    <3>5. QED
      BY <1>3, <3>4
  <2>5. QED
    BY <2>3, <2>4
<1>7. QED
  BY <1>1, <1>4, <1>5, <1>6

\* No task holds an inode both as its file and as the one to be linked.
LEMMA HoldersAtMost ==
    ASSUME TreeInv, NEW n \in Inos
    PROVE  ino[n].count \in 0 .. RootHeld + 3 * Cardinality(Tasks)
<1>1. ino[n].count \in Nat /\ ino[n].count = HoldersOf(task, pwd, n) + Same(n, None) + Same(n, None)
  BY TreeAt, TreeIs DEF CountsOf
<1>2. n # None /\ IsFiniteSet(Tasks) /\ Cardinality(Tasks) \in Nat /\ RootHeld \in Nat
  BY TreeSetsAre
<1>3. Same(n, None) = 0
  BY <1>2 DEF Same
<1>4. ASSUME NEW S, S \subseteq Tasks PROVE IsFiniteSet(S) /\ Cardinality(S) \in Nat /\ Cardinality(S) <= Cardinality(Tasks)
  BY <1>2, <1>4, FS_Subset, FS_CardinalityType
<1>5. DirOf(task, n) \subseteq Tasks /\ OldOf(task, n) \subseteq Tasks /\ FileOf(task, n) \subseteq Tasks /\ PwdOf(pwd, n) \subseteq Tasks
  BY DEF DirOf, OldOf, FileOf, PwdOf
<1>6. OldOf(task, n) \cap FileOf(task, n) = {}
  <2> SUFFICES ASSUME NEW t \in Tasks, task[t].old = n, task[t].ino = n, task[t].pc # "iget" PROVE FALSE
    BY DEF OldOf, FileOf
  <2>1. PlaceOf(task[t]) /\ task[t].pc \in Pcs
    BY TreeIs DEF TaskRecs
  <2>2. QED
    BY <1>2, <2>1 DEF PlaceOf, Pcs
<1>7. Cardinality(OldOf(task, n)) + Cardinality(FileOf(task, n)) <= Cardinality(Tasks)
  <2>1. Cardinality(OldOf(task, n) \cup FileOf(task, n)) = Cardinality(OldOf(task, n)) + Cardinality(FileOf(task, n)) - Cardinality(OldOf(task, n) \cap FileOf(task, n))
    BY <1>4, <1>5, FS_Union
  <2>2. Cardinality(OldOf(task, n) \cap FileOf(task, n)) = 0
    BY <1>6, FS_EmptySet
  <2>3. Cardinality(OldOf(task, n) \cup FileOf(task, n)) <= Cardinality(Tasks)
    <3>1. OldOf(task, n) \cup FileOf(task, n) \subseteq Tasks
      BY <1>5
    <3>2. QED
      BY <1>4, <3>1
  <2>4. Cardinality(OldOf(task, n)) \in Nat /\ Cardinality(FileOf(task, n)) \in Nat
    BY <1>4, <1>5
  <2>5. QED
    BY <1>2, <2>1, <2>2, <2>3, <2>4
<1>8. /\ Cardinality(DirOf(task, n)) \in Nat /\ Cardinality(DirOf(task, n)) <= Cardinality(Tasks)
      /\ Cardinality(PwdOf(pwd, n)) \in Nat /\ Cardinality(PwdOf(pwd, n)) <= Cardinality(Tasks)
      /\ Cardinality(OldOf(task, n)) \in Nat /\ Cardinality(FileOf(task, n)) \in Nat
  BY <1>4, <1>5
<1>9. HoldersOf(task, pwd, n) \in Nat /\ HoldersOf(task, pwd, n) <= RootHeld + 3 * Cardinality(Tasks)
  BY <1>2, <1>7, <1>8 DEF HoldersOf
<1>10. QED
  BY <1>1, <1>2, <1>3, <1>9

\* The invariant implies the property.
LEMMA TreeInvImplies == TreeInv => TreeConsistent
<1> SUFFICES ASSUME TreeInv PROVE TreeConsistent
  OBVIOUS
<1>1. /\ ino \in [Inos -> InodeRecs] /\ task \in [Tasks -> TaskRecs] /\ pwd \in [Tasks -> Inos]
      /\ TreeTyped(ino, task, pwd) /\ CountsOf(ino, task, pwd, None, None)
      /\ ShapeOf(ino) /\ LinksOf(ino, task)
  BY TreeIs
<1>2. TypeOK
  <2>1. ASSUME NEW n \in Inos
        PROVE  ino[n].type \in {Free, "REG", "DIR"} /\ ino[n].up \in Inos \cup {None}
               /\ \A p \in Positions : ino[n].entries[p].ino \in Inos \cup {None}
    <3>1. ino[n] \in InodeRecs
      BY <1>1
    <3>2. QED
      BY <1>1, <3>1, EntriesAre DEF InodeRecs, MaybeIno
  <2>2. ASSUME NEW t \in Tasks
        PROVE  task[t].pc \in Pcs /\ task[t].op \in Calls /\ {task[t].dir, task[t].ino, task[t].old} \subseteq Inos \cup {None}
    <3>1. task[t] \in TaskRecs
      BY <1>1
    <3>2. QED
      BY <3>1 DEF TaskRecs, MaybeIno
  <2>3. QED
    BY <1>1, <2>1, <2>2, LinksAtMost, HoldersAtMost DEF TypeOK
<1>3. LinksAreEntries
  <2>1. \A n \in Inos : NamingOf(ino, n) = Naming(n)
    BY DEF NamingOf, Naming
  <2>2. QED
    BY <1>1, <2>1 DEF LinksAreEntries, LinksOf, LinkAt, MakingOf, UncountedOf, SubdirsOf, At
<1>4. CountsAreHolders
  <2> SUFFICES ASSUME NEW n \in Inos PROVE ino[n].count = Holders(n)
    BY DEF CountsAreHolders
  <2>1. HoldersOf(task, pwd, n) = Holders(n)
    BY DEF HoldersOf, Holders, DirOf, OldOf, FileOf, PwdOf, At
  <2>2. Same(n, None) = 0 /\ HoldersOf(task, pwd, n) \in Nat
    BY TreeSetsAre, HoldersNat DEF Same
  <2>3. QED
    BY <1>1, <2>1, <2>2 DEF CountsOf
<1>5. NothingLeaked
  <2> SUFFICES ASSUME NEW n \in Inos \ {Root}, ino[n].type # Free, NamingOf(ino, n) = {} PROVE ino[n].count > 0
    BY DEF NothingLeaked, Naming, NamingOf
  <2>1. ino[n].count \in Nat /\ ino[n].nlinks \in Nat /\ LinkAt(ino, task, n) /\ ino[n].type \in {Free, "REG", "DIR"}
    BY TreeAt
  <2>2. CASE MakingOf(task, n) = {}
    <3>1. Cardinality(MakingOf(task, n)) = 0 /\ Cardinality(NamingOf(ino, n)) = 0
      BY <2>2, FS_EmptySet
    <3>2. Cardinality(UncountedOf(task, n)) \in Nat
      BY TreeSetsAre, FS_Subset, FS_CardinalityType DEF UncountedOf
    <3>3. ino[n].nlinks = 0
      BY <2>1, <3>1, <3>2 DEF LinkAt
    <3>4. QED
      BY <1>1, <2>1, <3>3 DEF ShapeOf
  <2>3. CASE MakingOf(task, n) # {}
    <3>1. PICK t \in MakingOf(task, n) : TRUE
      BY <2>3
    <3>2. t \in Tasks /\ task[t].ino = n /\ IsMaking(task[t])
      BY <3>1, TreeSetsAre DEF MakingOf, IsMaking
    <3>3. QED
      BY <3>2, TreeIs DEF NewInode
  <2>4. QED
    BY <2>2, <2>3
<1>6. QED
  BY <1>2, <1>3, <1>4, <1>5 DEF TreeConsistent

\* At every step of every call, the links of an inode are its entries, its count is that of its
\* holders, and no inode in use is lost (namei.c, open.c, inode.c).
THEOREM TreeIsConsistent == Spec => []TreeConsistent
BY TreeInvariant, TreeInvImplies, PTL
==============================================================================
