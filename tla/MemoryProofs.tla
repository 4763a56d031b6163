---------------------------- MODULE MemoryProofs -----------------------------
(***************************************************************************)
(* Proofs about Memory, for any number of tasks, addresses and pages:      *)
(* mem_map counts the uses of every page, and a page that a task may write *)
(* to is used by nobody else.                                              *)
(*                                                                         *)
(* A page that get_free_page() has found may be taken by malloc() before   *)
(* it is marked, and is then given out twice. The counts follow as if it   *)
(* had not been in the heap: the invariant is stated of any set h of pages *)
(* of malloc(), which is the heap as long as no page is given out twice,   *)
(* and of the counts m.                                                    *)
(***************************************************************************)
EXTENDS Memory, FiniteSetTheorems, WellFoundedInduction, NaturalsInduction, TLAPS

MaybePage == Pages \cup {None}
Founds    == Pages \cup {None, NotYet}
MaybeTask == Tasks \cup {None}
Entries   == [page : MaybePage, rw : BOOLEAN, dirty : BOOLEAN]
Tables    == [Tasks -> [Addrs -> Entries]]
Calls     == [pc : Pcs, back : {"user", "store"}, addr : Addrs \cup {None}, page : MaybePage, found : Founds]

\* What the kernel has pages for: a task_struct, a page table, and what is in the hands of a task.
Owners == Tasks \X {"struct", "dir", "hand"}
Owned  == [Owners -> MaybePage]

\* The page has an owner in k, or is malloc()'s.
InKernel(k, h, p) == p \in h \/ \E x \in Owners : k[x] = p

\* The tasks that have the page in their memory ta.
UsersOf(ta, p) == {t \in Tasks : \E a \in Addrs : ta[t][a].page = p}

\* The counts m say how many tasks have a page, and are one for those of the kernel, which no
\* task has.
Counted(m, k, ta, h) ==
    \A p \in Pages : /\ InKernel(k, h, p) => m[p] = 1 /\ UsersOf(ta, p) = {}
                     /\ ~InKernel(k, h, p) => m[p] = Cardinality(UsersOf(ta, p))

\* No page is used twice in the kernel.
Once(k, h) ==
    /\ \A x, y \in Owners : k[x] # None /\ k[x] = k[y] => x = y
    /\ \A x \in Owners : k[x] \notin h

\* All that have a page have it at one address.
OneAddress(ta) ==
    \A t, u \in Tasks, a, b \in Addrs :
        ta[t][a].page # None /\ ta[t][a].page = ta[u][b].page => a = b

\* A task that may write to a page is its only user.
WriterAlone(ta) ==
    \A t \in Tasks, a \in Addrs : ta[t][a].rw = TRUE =>
        /\ ta[t][a].page # None
        /\ \A u \in Tasks, b \in Addrs : ta[u][b].page = ta[t][a].page => u = t

\* The pages are in order: counts m, pages k of the kernel, memory ta of the tasks, heap h.
InOrder(m, k, ta, h) ==
    /\ m \in [Pages -> Nat] /\ k \in Owned /\ ta \in Tables /\ h \subseteq Pages
    /\ Counted(m, k, ta, h)
    /\ Once(k, h)
    /\ OneAddress(ta)
    /\ WriterAlone(ta)

-----------------------------------------------------------------------------
(* Numbers and sets. *)

\* Tasks and pages are numbers, and none is not one of them.
LEMMA NumbersAre ==
    /\ None \notin Pages /\ None \notin Tasks /\ NotYet \notin Pages /\ None # NotYet
    /\ None \in MaybePage /\ \A p \in Pages : p \in MaybePage
    /\ \A p \in MaybePage : p # None => p \in Pages
  BY NumbersAssumption DEF None, NotYet, Pages, Tasks, MaybePage

\* A set of numbers from 1 to n that is not empty has a greatest and a least element.
LEMMA HasMaxAndMin ==
    ASSUME NEW n \in Nat, NEW S, S \subseteq 1 .. n, S # {}
    PROVE  /\ Max(S) \in S
           /\ \E x \in S : \A y \in S : x <= y
<1> DEFINE R == OpToRel(<, Nat)
<1>1. IsWellFoundedOn(R, Nat)
  BY NatLessThanWellFounded
<1>2. \A T \in SUBSET Nat : T # {} => \E x \in T : \A y \in T : x <= y
  <2> SUFFICES ASSUME NEW T, T \subseteq Nat, T # {} PROVE \E x \in T : \A y \in T : x <= y
    OBVIOUS
  <2>1. PICK x \in T : \A y \in T : ~(<<y, x>> \in R)
    BY <1>1, WFMin
  <2>2. \A y \in T : ~(y < x)
    BY <2>1 DEF OpToRel
  <2>3. QED
    BY <2>2
<1>3. \E x \in S : \A y \in S : x <= y
  BY <1>2
<1>4. \E x \in S : \A y \in S : x >= y
  <2> DEFINE T == {y \in Nat : \E x \in S : y = n - x}
  <2>1. \A x \in S : x \in Nat /\ n - x \in Nat
    OBVIOUS
  <2>2. T \subseteq Nat /\ \A x \in S : n - x \in T
    BY <2>1
  <2>3. PICK z \in T : \A y \in T : z <= y
    <3>1. T # {}
      BY <2>2
    <3> HIDE DEF T
    <3>2. QED
      BY <3>1, <2>2, <1>2
  <2>4. PICK x \in S : z = n - x
    OBVIOUS
  <2>5. \A y \in S : n - x <= n - y
    BY <2>2, <2>3, <2>4
  <2>6. QED
    BY <2>1, <2>5
<1>5. QED
  BY <1>3, <1>4 DEF Max

\* The users of a page are finitely many.
LEMMA UsersFinite ==
    ASSUME NEW ta, NEW p
    PROVE  IsFiniteSet(UsersOf(ta, p)) /\ Cardinality(UsersOf(ta, p)) \in 0 .. NTasks
<1>1. IsFiniteSet(Tasks) /\ Cardinality(Tasks) = NTasks
  BY NumbersAssumption, FS_Interval DEF Tasks
<1>2. UsersOf(ta, p) \subseteq Tasks
  BY DEF UsersOf
<1>3. QED
  BY <1>1, <1>2, FS_Subset, FS_CardinalityType, NumbersAssumption

\* How often a task uses a page: once or not at all.
UsesIn(ta, t, p) == Cardinality({a \in Addrs : ta[t][a].page = p})

\* No task has a page at two addresses.
LEMMA UsesAre ==
    ASSUME NEW ta, OneAddress(ta), NEW t \in Tasks, NEW p \in Pages
    PROVE  UsesIn(ta, t, p) = IF t \in UsersOf(ta, p) THEN 1 ELSE 0
<1> DEFINE A == {a \in Addrs : ta[t][a].page = p}
<1>1. CASE t \in UsersOf(ta, p)
  <2>1. PICK a \in Addrs : ta[t][a].page = p
    BY <1>1 DEF UsersOf
  <2>2. A = {a}
    BY <2>1, NumbersAre DEF OneAddress
  <2>3. QED
    BY <2>2, <1>1, FS_Singleton DEF UsesIn
<1>2. CASE t \notin UsersOf(ta, p)
  <2>1. A = {}
    BY <1>2 DEF UsersOf
  <2>2. QED
    BY <2>1, <1>2, FS_EmptySet DEF UsesIn
<1>3. QED
  BY <1>1, <1>2

-----------------------------------------------------------------------------
(* Pages of the kernel. *)

\* A page that is used by nobody, unless malloc() has it, gets an owner.
LEMMA TakePage ==
    ASSUME NEW m, NEW k, NEW ta, NEW h, InOrder(m, k, ta, h), NEW o \in Owners, k[o] = None,
           NEW p \in Pages, UsersOf(ta, p) = {}, ~InKernel(k, h \ {p}, p)
    PROVE  InOrder([m EXCEPT ![p] = 1], [k EXCEPT ![o] = p], ta, h \ {p})
<1> DEFINE m2 == [m EXCEPT ![p] = 1]
           k2 == [k EXCEPT ![o] = p]
           h2 == h \ {p}
<1>1. /\ m2 \in [Pages -> Nat] /\ k2 \in Owned /\ h2 \subseteq Pages
      /\ m2[p] = 1 /\ \A q \in Pages : q # p => m2[q] = m[q]
      /\ k2[o] = p /\ \A x \in Owners : x # o => k2[x] = k[x]
  BY NumbersAre DEF InOrder, Owned
<1>2. \A x \in Owners : k[x] # p
  BY DEF InKernel
<1>3. \A q \in Pages : q # p => (InKernel(k2, h2, q) <=> InKernel(k, h, q))
  BY <1>1, NumbersAre DEF InKernel
<1>4. InKernel(k2, h2, p)
  BY <1>1 DEF InKernel
<1> HIDE DEF m2, k2
<1>5. Counted(m2, k2, ta, h2)
  BY <1>1, <1>3, <1>4 DEF InOrder, Counted
<1>6. Once(k2, h2)
  BY <1>1, <1>2 DEF InOrder, Once
<1>7. QED
  BY <1>1, <1>5, <1>6 DEF InOrder, m2, k2

\* free_page() of a page of the kernel.
LEMMA DropPage ==
    ASSUME NEW m, NEW k, NEW ta, NEW h, InOrder(m, k, ta, h), NEW o \in Owners, NEW p \in Pages,
           k[o] = p
    PROVE  m[p] = 1 /\ InOrder([m EXCEPT ![p] = @ - 1], [k EXCEPT ![o] = None], ta, h)
<1> DEFINE m2 == [m EXCEPT ![p] = @ - 1]
           k2 == [k EXCEPT ![o] = None]
<1>1. InKernel(k, h, p) /\ m[p] = 1 /\ UsersOf(ta, p) = {} /\ p \notin h
  BY DEF InKernel, InOrder, Counted, Once
<1>2. /\ m2 \in [Pages -> Nat] /\ k2 \in Owned
      /\ m2[p] = 0 /\ \A q \in Pages : q # p => m2[q] = m[q]
      /\ k2[o] = None /\ \A x \in Owners : x # o => k2[x] = k[x]
  BY <1>1, NumbersAre DEF InOrder, Owned
<1>3. \A q \in Pages : q # p => (InKernel(k2, h, q) <=> InKernel(k, h, q))
  BY <1>2, NumbersAre DEF InKernel
<1>4. ~InKernel(k2, h, p)
  BY <1>1, <1>2, NumbersAre DEF InKernel, InOrder, Once
<1> HIDE DEF m2, k2
<1>5. Counted(m2, k2, ta, h)
  BY <1>1, <1>2, <1>3, <1>4, FS_EmptySet DEF InOrder, Counted
<1>6. Once(k2, h)
  <2>1. None \notin h
    BY NumbersAre DEF InOrder
  <2>2. QED
    BY <2>1, <1>2 DEF InOrder, Once
<1>7. QED
  BY <1>1, <1>2, <1>5, <1>6 DEF InOrder, m2, k2

\* A page of the kernel changes hands.
LEMMA MovePage ==
    ASSUME NEW m, NEW k, NEW ta, NEW h, InOrder(m, k, ta, h), NEW x \in Owners, NEW y \in Owners,
           x # y, k[y] = None
    PROVE  InOrder(m, [k EXCEPT ![x] = None, ![y] = k[x]], ta, h)
<1> DEFINE k2 == [k EXCEPT ![x] = None, ![y] = k[x]]
<1>1. /\ k2 \in Owned /\ k2[x] = None /\ k2[y] = k[x]
      /\ \A z \in Owners : z # x /\ z # y => k2[z] = k[z]
  BY NumbersAre DEF InOrder, Owned
<1>2. \A q \in Pages : InKernel(k2, h, q) <=> InKernel(k, h, q)
  BY <1>1, NumbersAre DEF InKernel
<1> HIDE DEF k2
<1>3. Counted(m, k2, ta, h)
  BY <1>2 DEF InOrder, Counted
<1>4. Once(k2, h)
  <2>1. \A z, w \in Owners : k2[z] # None /\ k2[z] = k2[w] => z = w
    BY <1>1 DEF InOrder, Once
  <2>2. k2[x] \notin h /\ k2[y] \notin h
    BY <1>1, NumbersAre DEF InOrder, Once
  <2>3. \A z \in Owners : k2[z] \notin h
    BY <1>1, <2>2 DEF InOrder, Once
  <2>4. QED
    BY <2>1, <2>3 DEF Once
<1>5. QED
  BY <1>1, <1>3, <1>4 DEF InOrder, k2

\* malloc() takes a free page.
LEMMA HeapPage ==
    ASSUME NEW m, NEW k, NEW ta, NEW h, InOrder(m, k, ta, h), NEW p \in Pages, m[p] = 0
    PROVE  InOrder([m EXCEPT ![p] = 1], k, ta, h \cup {p})
<1> DEFINE m2 == [m EXCEPT ![p] = 1]
           h2 == h \cup {p}
<1>1. ~InKernel(k, h, p) /\ UsersOf(ta, p) = {}
  BY UsersFinite, FS_EmptySet DEF InOrder, Counted
<1>2. /\ m2 \in [Pages -> Nat] /\ m2[p] = 1 /\ \A q \in Pages : q # p => m2[q] = m[q]
  BY DEF InOrder
<1>3. \A q \in Pages : q # p => (InKernel(k, h2, q) <=> InKernel(k, h, q))
  BY DEF InKernel
<1>4. InKernel(k, h2, p)
  BY DEF InKernel
<1> HIDE DEF m2
<1>5. Counted(m2, k, ta, h2)
  BY <1>1, <1>2, <1>3, <1>4 DEF InOrder, Counted
<1>6. Once(k, h2)
  BY <1>1, NumbersAre DEF InOrder, Once, InKernel
<1>7. QED
  BY <1>2, <1>5, <1>6 DEF InOrder, m2

-----------------------------------------------------------------------------
(* Pages of the tasks. *)

\* free_page_tables(): all pages of a task's memory.
LEMMA DropRow ==
    ASSUME NEW m, NEW k, NEW ta, NEW h, InOrder(m, k, ta, h), NEW t \in Tasks
    PROVE  InOrder([p \in Pages |-> m[p] - UsesIn(ta, t, p)], k,
                   [ta EXCEPT ![t] = [a \in Addrs |-> Absent]], h)
<1> DEFINE m2 == [p \in Pages |-> m[p] - UsesIn(ta, t, p)]
           ta2 == [ta EXCEPT ![t] = [a \in Addrs |-> Absent]]
<1>1. Absent \in Entries /\ Absent.page = None /\ Absent.rw = FALSE
  BY NumbersAre DEF Absent, Entries
<1>2. ta2 \in Tables
  BY <1>1 DEF InOrder, Tables
<1>3. /\ \A a \in Addrs : ta2[t][a] = Absent
      /\ \A u \in Tasks, a \in Addrs : u # t => ta2[u][a] = ta[u][a]
  BY DEF InOrder, Tables
<1> HIDE DEF ta2
<1>4. ASSUME NEW p \in Pages
      PROVE  /\ UsersOf(ta2, p) = UsersOf(ta, p) \ {t}
             /\ m2[p] = m[p] - (IF t \in UsersOf(ta, p) THEN 1 ELSE 0)
             /\ InKernel(k, h, p) => m2[p] = 1 /\ UsersOf(ta2, p) = {}
             /\ ~InKernel(k, h, p) => m2[p] = Cardinality(UsersOf(ta2, p))
             /\ m2[p] \in Nat
  <2>1. UsersOf(ta2, p) = UsersOf(ta, p) \ {t}
    BY <1>1, <1>3, NumbersAre DEF UsersOf
  <2>2. m2[p] = m[p] - (IF t \in UsersOf(ta, p) THEN 1 ELSE 0)
    BY UsesAre DEF InOrder
  <2>3. Cardinality(UsersOf(ta, p) \ {t}) =
          IF t \in UsersOf(ta, p) THEN Cardinality(UsersOf(ta, p)) - 1 ELSE Cardinality(UsersOf(ta, p))
    BY UsersFinite, FS_RemoveElement
  <2>4. m[p] \in Nat /\ Cardinality(UsersOf(ta2, p)) \in Nat
    BY UsersFinite DEF InOrder
  <2> HIDE DEF m2
  <2>5. CASE InKernel(k, h, p)
    BY <2>1, <2>2, <2>4, <2>5 DEF InOrder, Counted
  <2>6. CASE ~InKernel(k, h, p)
    <3>1. m2[p] = Cardinality(UsersOf(ta2, p))
      BY <2>1, <2>2, <2>3, <2>6, UsersFinite DEF InOrder, Counted
    <3>2. QED
      BY <2>1, <2>2, <2>4, <2>6, <3>1
  <2>7. QED
    BY <2>5, <2>6
<1>5. m2 \in [Pages -> Nat]
  BY <1>4
<1>6. Counted(m2, k, ta2, h)
  BY <1>4 DEF Counted
<1> HIDE DEF m2
<1>7. OneAddress(ta2) /\ WriterAlone(ta2)
  BY <1>1, <1>3, NumbersAre DEF InOrder, OneAddress, WriterAlone
<1>8. QED
  BY <1>2, <1>5, <1>6, <1>7 DEF InOrder, m2, ta2

\* copy_page_tables(): the pages of task t get one more user each, and nobody may write to them.
LEMMA CopyRow ==
    ASSUME NEW m, NEW k, NEW ta, NEW h, InOrder(m, k, ta, h), NEW t \in Tasks, NEW c \in Tasks,
           \A a \in Addrs : ta[c][a].page = None,
           NEW row, row = [a \in Addrs |-> [ta[t][a] EXCEPT !.rw = FALSE]]
    PROVE  InOrder([p \in Pages |-> m[p] + UsesIn(ta, t, p)], k,
                   [ta EXCEPT ![t] = row, ![c] = row], h)
<1> DEFINE m2 == [p \in Pages |-> m[p] + UsesIn(ta, t, p)]
           ta2 == [ta EXCEPT ![t] = row, ![c] = row]
<1>1. /\ row \in [Addrs -> Entries]
      /\ \A a \in Addrs : row[a].page = ta[t][a].page /\ row[a].rw = FALSE
  <2>1. ASSUME NEW a \in Addrs
        PROVE  row[a] \in Entries /\ row[a].page = ta[t][a].page /\ row[a].rw = FALSE
    <3>1. ta[t][a] \in Entries
      BY DEF InOrder, Tables
    <3>2. row[a] = [ta[t][a] EXCEPT !.rw = FALSE]
      OBVIOUS
    <3>3. QED
      BY <3>1, <3>2 DEF Entries
  <2>2. QED
    BY <2>1
<1>2. ta2 \in Tables
  BY <1>1 DEF InOrder, Tables
<1>3. /\ ta2[t] = row /\ ta2[c] = row
      /\ \A u \in Tasks : u # t /\ u # c => ta2[u] = ta[u]
  BY DEF InOrder, Tables
<1> HIDE DEF ta2
<1>4. ASSUME NEW p \in Pages
      PROVE  /\ m2[p] \in Nat
             /\ InKernel(k, h, p) => m2[p] = 1 /\ UsersOf(ta2, p) = {}
             /\ ~InKernel(k, h, p) => m2[p] = Cardinality(UsersOf(ta2, p))
  <2>1. m2[p] = m[p] + (IF t \in UsersOf(ta, p) THEN 1 ELSE 0)
    BY UsesAre DEF InOrder
  <2>2. m[p] \in Nat /\ Cardinality(UsersOf(ta, p)) \in Nat
    BY UsersFinite DEF InOrder
  <2> HIDE DEF m2
  <2>3. CASE t \in UsersOf(ta, p)
    <3>1. UsersOf(ta2, p) = UsersOf(ta, p) \cup {c}
      BY <1>1, <1>3, <2>3, NumbersAre DEF UsersOf
    <3>2. c \notin UsersOf(ta, p)
      BY NumbersAre DEF UsersOf
    <3>3. Cardinality(UsersOf(ta, p) \cup {c}) = Cardinality(UsersOf(ta, p)) + 1
      BY <3>2, UsersFinite, FS_AddElement
    <3>4. ~InKernel(k, h, p)
      BY <2>3 DEF InOrder, Counted
    <3>5. QED
      BY <3>1, <3>3, <3>4, <2>1, <2>2, <2>3 DEF InOrder, Counted
  <2>4. CASE t \notin UsersOf(ta, p)
    <3>1. UsersOf(ta2, p) = UsersOf(ta, p)
      BY <1>1, <1>3, <2>4, NumbersAre DEF UsersOf
    <3>2. QED
      BY <3>1, <2>1, <2>2, <2>4 DEF InOrder, Counted
  <2>5. QED
    BY <2>3, <2>4
<1>5. m2 \in [Pages -> Nat]
  BY <1>4
<1>6. Counted(m2, k, ta2, h)
  BY <1>4 DEF Counted
<1> HIDE DEF m2
<1>7. \A u \in Tasks, a \in Addrs :
        \E v \in Tasks : ta2[u][a].page = ta[v][a].page
  BY <1>1, <1>3
<1>8. OneAddress(ta2)
  <2> SUFFICES ASSUME NEW u \in Tasks, NEW v \in Tasks, NEW a \in Addrs, NEW b \in Addrs,
                      ta2[u][a].page # None, ta2[u][a].page = ta2[v][b].page
               PROVE  a = b
    BY DEF OneAddress
  <2>1. PICK x \in Tasks : ta2[u][a].page = ta[x][a].page
    BY <1>7
  <2>2. PICK y \in Tasks : ta2[v][b].page = ta[y][b].page
    BY <1>7
  <2>3. ta[x][a].page # None /\ ta[x][a].page = ta[y][b].page
    BY <2>1, <2>2
  <2>4. OneAddress(ta)
    BY DEF InOrder
  <2>5. QED
    BY <2>3, <2>4 DEF OneAddress
<1>9. WriterAlone(ta2)
  BY <1>1, <1>3 DEF InOrder, WriterAlone
<1>10. QED
  BY <1>2, <1>5, <1>6, <1>8, <1>9 DEF InOrder, m2, ta2

\* try_to_share(): task t gets the page that task u has at the address, and neither may write to it.
LEMMA ShareEntry ==
    ASSUME NEW m, NEW k, NEW ta, NEW h, InOrder(m, k, ta, h), NEW t \in Tasks, NEW u \in Tasks,
           t # u, NEW a \in Addrs, ta[t][a].page = None, NEW q \in Pages, ta[u][a].page = q,
           NEW e, e = [ta[u][a] EXCEPT !.rw = FALSE]
    PROVE  InOrder([m EXCEPT ![q] = @ + 1], k, [ta EXCEPT ![u][a] = e, ![t][a] = e], h)
<1> DEFINE m2 == [m EXCEPT ![q] = @ + 1]
           ta2 == [ta EXCEPT ![u][a] = e, ![t][a] = e]
<1>1. e \in Entries /\ e.page = q /\ e.rw = FALSE
  <2>1. ta[u][a] \in Entries
    BY DEF InOrder, Tables
  <2>2. QED
    BY <2>1 DEF Entries
<1>2. ta \in Tables /\ \A v \in Tasks, b \in Addrs : ta[v][b] \in Entries
  BY DEF InOrder, Tables
<1>3. /\ ta2 \in Tables
      /\ ta2[t][a] = e /\ ta2[u][a] = e
      /\ \A v \in Tasks, b \in Addrs : ~(b = a /\ v \in {t, u}) => ta2[v][b] = ta[v][b]
  BY <1>1, <1>2 DEF Tables
<1>4. /\ m[q] \in Nat /\ m2 \in [Pages -> Nat] /\ m2[q] = m[q] + 1
      /\ \A p \in Pages : p # q => m2[p] = m[p]
  BY DEF InOrder
<1> HIDE DEF m2, ta2
<1>5. u \in UsersOf(ta, q) /\ ~InKernel(k, h, q) /\ m[q] = Cardinality(UsersOf(ta, q))
  <2>1. u \in UsersOf(ta, q)
    BY DEF UsersOf
  <2>2. QED
    BY <2>1 DEF InOrder, Counted
<1>6. t \notin UsersOf(ta, q)
  <2>1. OneAddress(ta)
    BY DEF InOrder
  <2>2. ASSUME NEW b \in Addrs, ta[t][b].page = q PROVE FALSE
    BY <2>1, <2>2, NumbersAre DEF OneAddress
  <2>3. QED
    BY <2>2 DEF UsersOf
<1>7. UsersOf(ta2, q) = UsersOf(ta, q) \cup {t}
  BY <1>1, <1>3 DEF UsersOf
<1>8. m2[q] = Cardinality(UsersOf(ta2, q))
  <2>1. Cardinality(UsersOf(ta, q) \cup {t}) = Cardinality(UsersOf(ta, q)) + 1
    BY <1>6, UsersFinite, FS_AddElement
  <2>2. QED
    BY <2>1, <1>4, <1>5, <1>7
<1>9. \A p \in Pages : p # q => UsersOf(ta2, p) = UsersOf(ta, p)
  <2>1. \A p \in Pages, v \in Tasks, b \in Addrs : p # q => (ta2[v][b].page = p <=> ta[v][b].page = p)
    BY <1>1, <1>3, NumbersAre
  <2>2. QED
    BY <2>1 DEF UsersOf
<1>10. Counted(m2, k, ta2, h)
  BY <1>4, <1>5, <1>8, <1>9 DEF InOrder, Counted
<1>11. \A v \in Tasks, b \in Addrs : \E w \in Tasks : ta2[v][b].page = ta[w][b].page
  BY <1>1, <1>3
<1>12. OneAddress(ta2)
  <2> SUFFICES ASSUME NEW v \in Tasks, NEW w \in Tasks, NEW b \in Addrs, NEW c \in Addrs,
                      ta2[v][b].page # None, ta2[v][b].page = ta2[w][c].page
               PROVE  b = c
    BY DEF OneAddress
  <2>1. PICK x \in Tasks : ta2[v][b].page = ta[x][b].page
    BY <1>11
  <2>2. PICK y \in Tasks : ta2[w][c].page = ta[y][c].page
    BY <1>11
  <2>3. ta[x][b].page # None /\ ta[x][b].page = ta[y][c].page
    BY <2>1, <2>2
  <2>4. OneAddress(ta)
    BY DEF InOrder
  <2>5. QED
    BY <2>3, <2>4 DEF OneAddress
<1>13. WriterAlone(ta2)
  <2> SUFFICES ASSUME NEW v \in Tasks, NEW b \in Addrs, ta2[v][b].rw = TRUE
               PROVE  /\ ta2[v][b].page # None
                      /\ \A w \in Tasks, c \in Addrs : ta2[w][c].page = ta2[v][b].page => w = v
    BY DEF WriterAlone
  <2>1. ta2[v][b] = ta[v][b]
    BY <1>1, <1>3
  <2>2. ta[v][b].page # None /\ \A w \in Tasks, c \in Addrs : ta[w][c].page = ta[v][b].page => w = v
    BY <2>1 DEF InOrder, WriterAlone
  <2>3. ta[v][b].page # q
    <3>1. CASE v = u
      <4>1. b # a
        BY <3>1, <1>1, <1>3
      <4>2. OneAddress(ta)
        BY DEF InOrder
      <4>3. QED
        BY <4>1, <4>2, <2>2 DEF OneAddress
    <3>2. CASE v # u
      BY <3>2, <2>2
    <3>3. QED
      BY <3>1, <3>2
  <2>4. \A w \in Tasks, c \in Addrs : ta2[w][c].page # q => ta2[w][c] = ta[w][c]
    BY <1>1, <1>3
  <2>5. QED
    BY <2>1, <2>2, <2>3, <2>4
<1>14. QED
  BY <1>3, <1>4, <1>10, <1>12, <1>13 DEF InOrder, m2, ta2

\* un_wp_page() of a page that nobody else has, and the dirty bit: the page stays.
LEMMA SetEntry ==
    ASSUME NEW m, NEW k, NEW ta, NEW h, InOrder(m, k, ta, h), NEW t \in Tasks, NEW a \in Addrs,
           NEW e \in Entries, e.page = ta[t][a].page,
           e.rw = TRUE => ta[t][a].rw = TRUE \/ (ta[t][a].page # None /\ m[ta[t][a].page] = 1)
    PROVE  InOrder(m, k, [ta EXCEPT ![t][a] = e], h)
<1> DEFINE ta2 == [ta EXCEPT ![t][a] = e]
<1>1. /\ ta2 \in Tables /\ ta2[t][a] = e
      /\ \A v \in Tasks, b \in Addrs : ~(b = a /\ v = t) => ta2[v][b] = ta[v][b]
  BY DEF InOrder, Tables
<1> HIDE DEF ta2
<1>2. \A v \in Tasks, b \in Addrs : ta2[v][b].page = ta[v][b].page
  BY <1>1
<1>3. \A p : UsersOf(ta2, p) = UsersOf(ta, p)
  BY <1>2 DEF UsersOf
<1>4. Counted(m, k, ta2, h)
  BY <1>3 DEF InOrder, Counted
<1>5. OneAddress(ta2)
  BY <1>2 DEF InOrder, OneAddress
<1>6. WriterAlone(ta2)
  <2> SUFFICES ASSUME NEW v \in Tasks, NEW b \in Addrs, ta2[v][b].rw = TRUE
               PROVE  /\ ta2[v][b].page # None
                      /\ \A w \in Tasks, c \in Addrs : ta2[w][c].page = ta2[v][b].page => w = v
    BY DEF WriterAlone
  <2> SUFFICES /\ ta[v][b].page # None
               /\ \A w \in Tasks, c \in Addrs : ta[w][c].page = ta[v][b].page => w = v
    BY <1>2
  <2>1. CASE ta[v][b].rw = TRUE
    BY <2>1 DEF InOrder, WriterAlone
  <2>2. CASE ta[v][b].rw # TRUE
    <3>1. v = t /\ b = a /\ ta[t][a].page # None /\ m[ta[t][a].page] = 1
      BY <2>2, <1>1
    <3> DEFINE q == ta[t][a].page
    <3>2. q \in Pages
      <4>1. ta[t][a] \in Entries
        BY DEF InOrder, Tables
      <4>2. QED
        BY <4>1, <3>1, NumbersAre DEF Entries
    <3>3. t \in UsersOf(ta, q)
      BY DEF UsersOf
    <3>4. Cardinality(UsersOf(ta, q)) = 1
      BY <3>1, <3>2, <3>3 DEF InOrder, Counted
    <3>5. PICK x : UsersOf(ta, q) = {x}
      BY <3>4, UsersFinite, FS_Singleton
    <3>6. \A w \in Tasks, c \in Addrs : ta[w][c].page = q => w = t
      BY <3>3, <3>5 DEF UsersOf
    <3>7. QED
      BY <3>1, <3>6
  <2>3. QED
    BY <2>1, <2>2
<1>7. QED
  BY <1>1, <1>4, <1>5, <1>6 DEF InOrder, ta2

\* put_page(), and un_wp_page() of a page that others have: the page in the hands of the task goes
\* to its memory, and the page that was there, if any, has one user less.
LEMMA PutEntry ==
    ASSUME NEW m, NEW k, NEW ta, NEW h, InOrder(m, k, ta, h), NEW t \in Tasks, NEW a \in Addrs,
           NEW o \in Owners, NEW p \in Pages, k[o] = p, NEW q, q = ta[t][a].page,
           NEW m2 \in [Pages -> Int],
           \A r \in Pages : m2[r] = IF r = q THEN m[r] - 1 ELSE m[r]
    PROVE  InOrder(m2, [k EXCEPT ![o] = None], [ta EXCEPT ![t][a] = Entry(p)], h)
<1> DEFINE k2 == [k EXCEPT ![o] = None]
           e == Entry(p)
           ta2 == [ta EXCEPT ![t][a] = e]
<1>1. e \in Entries /\ e.page = p
  BY NumbersAre DEF Entry, Entries
<1>2. /\ k2 \in Owned /\ k2[o] = None /\ \A x \in Owners : x # o => k2[x] = k[x]
  BY NumbersAre DEF InOrder, Owned
<1>3. ta \in Tables /\ \A v \in Tasks, b \in Addrs : ta[v][b] \in Entries
  BY DEF InOrder, Tables
<1>4. /\ ta2 \in Tables /\ ta2[t][a] = e
      /\ \A v \in Tasks, b \in Addrs : ~(b = a /\ v = t) => ta2[v][b] = ta[v][b]
  BY <1>1, <1>3 DEF Tables
<1> HIDE DEF k2, e, ta2
<1>5. InKernel(k, h, p) /\ m[p] = 1 /\ UsersOf(ta, p) = {} /\ p \notin h /\ q # p
  <2>1. InKernel(k, h, p)
    BY DEF InKernel
  <2>2. m[p] = 1 /\ UsersOf(ta, p) = {}
    BY <2>1 DEF InOrder, Counted
  <2>3. p \notin h
    BY DEF InOrder, Once
  <2>4. QED
    BY <2>1, <2>2, <2>3 DEF UsersOf
<1>6. \A v \in Tasks, b \in Addrs : ta[v][b].page # p
  BY <1>5 DEF UsersOf
<1>7. ~InKernel(k2, h, p) /\ UsersOf(ta2, p) = {t} /\ m2[p] = 1
  <2>1. ~InKernel(k2, h, p)
    BY <1>2, <1>5, NumbersAre DEF InKernel, InOrder, Once
  <2>2. UsersOf(ta2, p) = {t}
    BY <1>1, <1>4, <1>6 DEF UsersOf
  <2>3. QED
    BY <2>1, <2>2, <1>5
<1>8. ASSUME q \in Pages
      PROVE  /\ ~InKernel(k, h, q) /\ ~InKernel(k2, h, q)
             /\ m2[q] = Cardinality(UsersOf(ta2, q))
  <2>1. t \in UsersOf(ta, q)
    BY DEF UsersOf
  <2>2. ~InKernel(k, h, q) /\ m[q] = Cardinality(UsersOf(ta, q))
    BY <1>8, <2>1 DEF InOrder, Counted
  <2>3. ~InKernel(k2, h, q)
    BY <2>2, <1>2, <1>8, NumbersAre DEF InKernel
  <2>4. UsersOf(ta2, q) = UsersOf(ta, q) \ {t}
    <3>1. \A b \in Addrs : ta2[t][b].page # q
      <4> SUFFICES ASSUME NEW b \in Addrs, b # a, ta[t][b].page = q PROVE FALSE
        BY <1>1, <1>4, <1>5
      <4>1. OneAddress(ta)
        BY DEF InOrder
      <4>2. QED
        BY <4>1, <1>8, NumbersAre DEF OneAddress
    <3>2. QED
      BY <3>1, <1>4 DEF UsersOf
  <2>5. Cardinality(UsersOf(ta, q) \ {t}) =
          IF t \in UsersOf(ta, q) THEN Cardinality(UsersOf(ta, q)) - 1 ELSE Cardinality(UsersOf(ta, q))
    <3>1. IsFiniteSet(UsersOf(ta, q))
      BY UsersFinite
    <3>2. QED
      BY <3>1, FS_RemoveElement
  <2>6. m2[q] = m[q] - 1
    BY <1>8
  <2>7. QED
    BY <2>1, <2>2, <2>3, <2>4, <2>5, <2>6
<1>9. ASSUME NEW r \in Pages, r # p, r # q
      PROVE  UsersOf(ta2, r) = UsersOf(ta, r) /\ (InKernel(k2, h, r) <=> InKernel(k, h, r))
  <2>1. UsersOf(ta2, r) = UsersOf(ta, r)
    BY <1>1, <1>4, <1>9 DEF UsersOf
  <2>2. QED
    BY <2>1, <1>2, <1>9, NumbersAre DEF InKernel
<1>10. Counted(m2, k2, ta2, h)
  <2> SUFFICES ASSUME NEW r \in Pages
               PROVE  /\ InKernel(k2, h, r) => m2[r] = 1 /\ UsersOf(ta2, r) = {}
                      /\ ~InKernel(k2, h, r) => m2[r] = Cardinality(UsersOf(ta2, r))
    BY DEF Counted
  <2>1. CASE r = p
    BY <2>1, <1>7, FS_Singleton
  <2>2. CASE r = q
    BY <2>2, <1>8
  <2>3. CASE r # p /\ r # q
    <3>1. m2[r] = m[r]
      BY <2>3
    <3>2. QED
      BY <2>3, <3>1, <1>9 DEF InOrder, Counted
  <2>4. QED
    BY <2>1, <2>2, <2>3
<1>11. m2 \in [Pages -> Nat]
  <2>1. \A r \in Pages : m2[r] \in Nat
    BY <1>10, UsersFinite DEF Counted
  <2>2. QED
    BY <2>1
<1>12. Once(k2, h)
  <2>1. None \notin h
    BY NumbersAre DEF InOrder
  <2>2. QED
    BY <2>1, <1>2 DEF InOrder, Once
<1>13. OneAddress(ta2)
  <2>1. OneAddress(ta)
    BY DEF InOrder
  <2>2. \A v \in Tasks, b \in Addrs : ta2[v][b].page = p => v = t /\ b = a
    BY <1>4, <1>6
  <2>3. QED
    BY <2>1, <2>2, <1>1, <1>4 DEF OneAddress
<1>14. WriterAlone(ta2)
  <2>1. WriterAlone(ta)
    BY DEF InOrder
  <2>2. \A v \in Tasks, b \in Addrs : ta2[v][b].page = p => v = t /\ b = a
    BY <1>4, <1>6
  <2>3. QED
    BY <2>1, <2>2, <1>1, <1>4, NumbersAre DEF WriterAlone
<1>15. QED
  BY <1>2, <1>4, <1>10, <1>11, <1>12, <1>13, <1>14 DEF InOrder, k2, e, ta2

-----------------------------------------------------------------------------
(* The invariant. *)

\* The owners' pages in the tables st and d and in the calls c.
KernelPages(st, d, c) ==
    [x \in Owners |-> IF x[2] = "struct" THEN st[x[1]] ELSE IF x[2] = "dir" THEN d[x[1]] ELSE c[x[1]].page]

Kernel == KernelPages(struct, dir, call)

MemoryTypes ==
    /\ struct \in [Tasks -> MaybePage] /\ dir \in [Tasks -> MaybePage]
    /\ zombie \subseteq Tasks /\ heap \subseteq Pages
    /\ table \in Tables /\ call \in [Tasks -> Calls]
    /\ current \in MaybeTask /\ twice \in BOOLEAN

\* A task that has ended has no memory and is in no call.
Ended ==
    /\ \A t \in Tasks : t \in zombie => struct[t] # None
    /\ \A t \in Tasks : dir[t] = None => \A a \in Addrs : table[t][a].page = None
    /\ \A t \in Tasks : t \notin Alive => dir[t] = None /\ call[t] = InUser

\* The page is used by nobody, unless malloc() has it.
Unused(p, h) == UsersOf(table, p) = {} /\ ~InKernel(Kernel, h \ {p}, p)

\* The places where a task may be while another runs.
Asleep == {"user", "load", "put", "store"}

\* What a call relies on from one step to the next.
Knows(t, h) ==
    LET c == call[t] IN
        /\ t # current => c.found = NotYet /\ c.pc \in Asleep
        /\ c.page # None <=> c.pc \in {"fork_table", "put"}
        /\ c.found \in Pages => Unused(c.found, h)
        /\ c.pc \in {"fork", "fork_table"} => \E d \in Tasks : struct[d] = None
        /\ c.pc \in {"share", "empty", "load", "put"} => c.addr \in Addrs /\ table[t][c.addr].page = None
        /\ c.pc = "share" => Sharers(t, c.addr) # {}
        /\ c.pc = "un_wp" => c.addr \in Addrs /\ table[t][c.addr].page # None
        /\ c.pc = "store" => c.addr \in Addrs

\* The pages are in order with the pages h of malloc().
Fits(h) ==
    /\ InOrder(mem_map, Kernel, table, h)
    /\ \A t \in Tasks : Knows(t, h)
    /\ ~twice => h = heap

MemoryInv == MemoryTypes /\ Ended /\ \E h \in SUBSET Pages : Fits(h)

-----------------------------------------------------------------------------
(* The pages of the kernel in the tables. *)

\* The owners are the tasks, each with three kinds of pages.
LEMMA OwnersAre ==
    ASSUME NEW st \in [Tasks -> MaybePage], NEW d \in [Tasks -> MaybePage], NEW c \in [Tasks -> Calls]
    PROVE  /\ KernelPages(st, d, c) \in Owned
           /\ \A t \in Tasks :
                /\ <<t, "struct">> \in Owners /\ KernelPages(st, d, c)[<<t, "struct">>] = st[t]
                /\ <<t, "dir">> \in Owners /\ KernelPages(st, d, c)[<<t, "dir">>] = d[t]
                /\ <<t, "hand">> \in Owners /\ KernelPages(st, d, c)[<<t, "hand">>] = c[t].page
<1>1. \A t \in Tasks : c[t].page \in MaybePage
  BY DEF Calls
<1>2. QED
  BY <1>1 DEF KernelPages, Owned, Owners

\* An owner is a task and what it has the page for.
LEMMA OwnerIs ==
    ASSUME NEW x \in Owners
    PROVE  /\ x = <<x[1], x[2]>> /\ x[1] \in Tasks /\ x[2] \in {"struct", "dir", "hand"}
           /\ \A t, w : x = <<t, w>> <=> x[1] = t /\ x[2] = w
  BY DEF Owners

\* The pages of the kernel, in every state.
LEMMA KernelIs ==
    ASSUME MemoryTypes
    PROVE  /\ Kernel \in Owned
           /\ \A t \in Tasks :
                /\ <<t, "struct">> \in Owners /\ Kernel[<<t, "struct">>] = struct[t]
                /\ <<t, "dir">> \in Owners /\ Kernel[<<t, "dir">>] = dir[t]
                /\ <<t, "hand">> \in Owners /\ Kernel[<<t, "hand">>] = call[t].page
  BY OwnersAre DEF Kernel, MemoryTypes

\* The pages of the kernel after a step are those that the tables then say.
LEMMA KernelBecomes ==
    ASSUME MemoryTypes', NEW k \in Owned,
           \A t \in Tasks : /\ k[<<t, "struct">>] = struct'[t]
                            /\ k[<<t, "dir">>] = dir'[t]
                            /\ k[<<t, "hand">>] = call'[t].page
    PROVE  Kernel' = k
<1>1. /\ Kernel' \in Owned
      /\ \A t \in Tasks : /\ Kernel'[<<t, "struct">>] = struct'[t]
                          /\ Kernel'[<<t, "dir">>] = dir'[t]
                          /\ Kernel'[<<t, "hand">>] = call'[t].page
  BY OwnersAre DEF Kernel, MemoryTypes
<1> DEFINE k2 == Kernel'
<1>2. /\ k2 \in Owned
      /\ \A t \in Tasks : /\ k2[<<t, "struct">>] = k[<<t, "struct">>]
                          /\ k2[<<t, "dir">>] = k[<<t, "dir">>]
                          /\ k2[<<t, "hand">>] = k[<<t, "hand">>]
  BY <1>1
<1> HIDE DEF k2
<1>3. \A x \in Owners : k2[x] = k[x]
  <2> SUFFICES ASSUME NEW x \in Owners PROVE k2[x] = k[x]
    OBVIOUS
  <2>1. PICK t \in Tasks : x \in {<<t, "struct">>, <<t, "dir">>, <<t, "hand">>}
    BY OwnerIs
  <2>2. QED
    BY <1>2, <2>1
<1>4. k2 = k
  BY <1>2, <1>3 DEF Owned
<1>5. QED
  BY <1>4 DEF k2

\* A call goes on with the same page.
LEMMA KernelSame ==
    ASSUME NEW st, NEW d, NEW c, NEW c2, \A u \in Tasks : c2[u].page = c[u].page
    PROVE  KernelPages(st, d, c2) = KernelPages(st, d, c)
  BY OwnerIs DEF KernelPages

-----------------------------------------------------------------------------
(* Steps. *)

\* A page that mem_map says is free is used by nobody.
LEMMA FreeIsUnused ==
    ASSUME NEW m, NEW k, NEW ta, NEW h, InOrder(m, k, ta, h), NEW p \in Pages, m[p] = 0
    PROVE  ~InKernel(k, h, p) /\ UsersOf(ta, p) = {} /\ ~InKernel(k, h \ {p}, p) /\ p \notin h
<1>1. ~InKernel(k, h, p) /\ UsersOf(ta, p) = {}
  BY UsersFinite, FS_EmptySet DEF InOrder, Counted
<1>2. QED
  BY <1>1 DEF InKernel

\* The calls that the steps make.
LEMMA CallsAre ==
    /\ InUser \in Calls
    /\ InUser.pc = "user" /\ InUser.back = "user" /\ InUser.addr = None
    /\ InUser.page = None /\ InUser.found = NotYet
  BY NumbersAre DEF InUser, Calls, Pcs, Founds

\* A task that does not run knows what it knew.
LEMMA OtherKnows ==
    ASSUME NEW t \in Tasks, NEW u \in Tasks, u # t, NEW h, NEW h2, Knows(u, h),
           current \in {t, None}, current' \in {t, None}, call'[u] = call[u],
           call[u] = InUser \/ \A a \in Addrs : table'[u][a].page = table[u][a].page
    PROVE  Knows(u, h2)'
<1>1. call[u].found = NotYet /\ call[u].pc \in Asleep
  BY NumbersAre DEF Knows
<1>2. CASE call[u] = InUser
  BY <1>1, <1>2, CallsAre, NumbersAre DEF Knows
<1>3. CASE \A a \in Addrs : table'[u][a].page = table[u][a].page
  BY <1>1, <1>3, NumbersAre DEF Knows, Asleep
<1>4. QED
  BY <1>2, <1>3

\* A step of task t keeps the invariant if it does so for the pages and for the task.
LEMMA StepKeeps ==
    ASSUME NEW t \in Tasks, NEW h, Fits(h), NEW h2 \in SUBSET Pages,
           MemoryTypes', Ended', InOrder(mem_map', Kernel', table', h2), Knows(t, h2)',
           ~twice' => h2 = heap',
           current \in {t, None}, current' \in {t, None},
           \A u \in Tasks : u # t =>
               /\ call'[u] = call[u]
               /\ call[u] = InUser \/ \A a \in Addrs : table'[u][a].page = table[u][a].page
    PROVE  MemoryInv'
<1>1. ASSUME NEW u \in Tasks PROVE Knows(u, h2)'
  <2>1. CASE u = t
    BY <2>1
  <2>2. CASE u # t
    BY <2>2, OtherKnows DEF Fits
  <2>3. QED
    BY <2>1, <2>2
<1>2. Fits(h2)'
  BY <1>1 DEF Fits
<1>3. QED
  BY <1>2 DEF MemoryInv

\* A step of a call that keeps its page leaves the pages of the kernel alone.
LEMMA SameKernel ==
    ASSUME MemoryTypes, NEW t \in Tasks, NEW c \in Calls, c.page = call[t].page,
           call' = [call EXCEPT ![t] = c], struct' = struct, dir' = dir
    PROVE  Kernel' = Kernel
<1>1. Kernel' = KernelPages(struct, dir, call')
  BY DEF Kernel
<1>2. \A u \in Tasks : call'[u].page = call[u].page
  BY DEF MemoryTypes
<1>3. KernelPages(struct, dir, call') = KernelPages(struct, dir, call)
  BY <1>2, KernelSame
<1>4. QED
  BY <1>1, <1>3 DEF Kernel

\* Ended stays true if the tasks stay the same, and only task t, which is alive, gets a call or
\* a page table.
LEMMA EndedStays ==
    ASSUME MemoryTypes, Ended, NEW t \in Alive, struct' = struct, zombie' = zombie,
           NEW c, call' = [call EXCEPT ![t] = c],
           dir' \in [Tasks -> MaybePage], \A u \in Tasks : u # t => dir'[u] = dir[u],
           \A u \in Tasks : dir'[u] = None => \A a \in Addrs : table'[u][a].page = None
    PROVE  Ended'
<1>1. Alive' = Alive
  BY DEF Alive
<1>2. \A u \in Tasks : u # t => call'[u] = call[u]
  BY DEF MemoryTypes
<1>3. QED
  BY <1>1, <1>2 DEF Ended

\* A step of task t that changes only its call.
LEMMA QuietKeeps ==
    ASSUME MemoryInv, NEW t \in Tasks, At(t, call[t].pc), NEW c \in Calls, c.page = call[t].page,
           call' = [call EXCEPT ![t] = c], current' \in {t, None},
           UNCHANGED <<mem_map, struct, zombie, dir, table, heap, twice>>,
           \A h \in SUBSET Pages : Fits(h) => Knows(t, h)'
    PROVE  MemoryInv'
<1>1. PICK h \in SUBSET Pages : Fits(h)
  BY DEF MemoryInv
<1>2. MemoryTypes'
  BY NumbersAre DEF MemoryInv, MemoryTypes, MaybeTask
<1>3. Ended'
  BY EndedStays DEF MemoryInv, MemoryTypes, At, Ended
<1>4. Kernel' = Kernel
  BY SameKernel DEF MemoryInv
<1>5. InOrder(mem_map', Kernel', table', h) /\ (~twice' => h = heap')
  BY <1>1, <1>4 DEF Fits
<1>6. \A u \in Tasks : u # t => call'[u] = call[u] /\ \A a \in Addrs : table'[u][a].page = table[u][a].page
  BY DEF MemoryInv, MemoryTypes
<1>7. current \in {t, None}
  BY DEF At
<1>8. Knows(t, h)'
  BY <1>1
<1>9. QED
  BY <1>1, <1>2, <1>3, <1>5, <1>6, <1>7, <1>8, StepKeeps

\* The types of a task's call and of its memory.
LEMMA TaskTypes ==
    ASSUME MemoryTypes, NEW t \in Tasks
    PROVE  /\ call[t] \in Calls /\ call[t].pc \in Pcs /\ call[t].back \in {"user", "store"}
           /\ call[t].addr \in Addrs \cup {None} /\ call[t].page \in MaybePage /\ call[t].found \in Founds
           /\ struct[t] \in MaybePage /\ dir[t] \in MaybePage
           /\ \A a \in Addrs : table[t][a] \in Entries /\ table[t][a].page \in MaybePage
<1>1. call[t] \in Calls /\ struct[t] \in MaybePage /\ dir[t] \in MaybePage
  BY DEF MemoryTypes
<1>2. \A a \in Addrs : table[t][a] \in Entries
  BY DEF MemoryTypes, Tables
<1>3. QED
  BY <1>1, <1>2 DEF Calls, Entries

\* What get_free_page() finds is a free page.
LEMMA LastFreeIs ==
    /\ LastFree \in MaybePage
    /\ LastFree # None => LastFree \in Pages /\ mem_map[LastFree] = 0
<1>1. CASE FreePages(mem_map) = {}
  BY <1>1, NumbersAre DEF LastFree
<1>2. CASE FreePages(mem_map) # {}
  <2>1. FreePages(mem_map) \subseteq 1 .. NPages /\ NPages \in Nat
    BY NumbersAssumption DEF FreePages, Pages
  <2>2. Max(FreePages(mem_map)) \in FreePages(mem_map)
    BY <1>2, <2>1, HasMaxAndMin
  <2>3. QED
    BY <1>2, <2>2, NumbersAre DEF LastFree, FreePages
<1>3. QED
  BY <1>1, <1>2

\* get_free_page() finds a page.
LEMMA ScanKeeps ==
    ASSUME MemoryInv, NEW t \in Tasks, Scan(t)
    PROVE  MemoryInv'
<1>1. PICK c : c = [call[t] EXCEPT !.found = LastFree]
  OBVIOUS
<1>2. /\ At(t, call[t].pc) /\ call' = [call EXCEPT ![t] = c] /\ current' = t
      /\ UNCHANGED <<mem_map, struct, zombie, dir, table, heap, twice>>
  BY <1>1 DEF Scan, Going
<1>3. call[t] \in Calls
  BY TaskTypes DEF MemoryInv
<1>4. /\ c \in Calls /\ c.page = call[t].page /\ c.found = LastFree
      /\ c.pc = call[t].pc /\ c.addr = call[t].addr
  BY <1>1, <1>3, LastFreeIs, NumbersAre DEF Calls, Founds, MaybePage
<1>5. call'[t] = c
  BY <1>2 DEF MemoryInv, MemoryTypes
<1>6. Kernel' = Kernel
  <2>1. c \in Calls /\ c.page = call[t].page /\ struct' = struct /\ dir' = dir
        /\ call' = [call EXCEPT ![t] = c]
    BY <1>2, <1>4
  <2>2. QED
    BY <2>1, SameKernel DEF MemoryInv
<1>7. ASSUME NEW h \in SUBSET Pages, Fits(h) PROVE Knows(t, h)'
  <2>1. c.found \in Pages => Unused(c.found, h)'
    <3> SUFFICES ASSUME c.found \in Pages
                 PROVE  UsersOf(table', c.found) = {} /\ ~InKernel(Kernel', h \ {c.found}, c.found)
      BY DEF Unused
    <3>1. mem_map[c.found] = 0
      BY <1>4, LastFreeIs, NumbersAre
    <3>2. InOrder(mem_map, Kernel, table, h)
      BY <1>7 DEF Fits
    <3>3. UsersOf(table, c.found) = {} /\ ~InKernel(Kernel, h \ {c.found}, c.found)
      BY <3>1, <3>2, FreeIsUnused
    <3>4. QED
      BY <3>3, <1>2, <1>6
  <2>2. Knows(t, h)
    BY <1>7 DEF Fits
  <2>3. Sharers(t, c.addr)' = Sharers(t, c.addr)
    BY <1>2, <1>4, <1>5 DEF Sharers, Alive
  <2>4. QED
    BY <2>1, <2>2, <2>3, <1>2, <1>4, <1>5 DEF Knows
<1>8. QED
  BY <1>2, <1>4, <1>7, QuietKeeps

\* sys_fork() asks for a page.
LEMMA ForkKeeps ==
    ASSUME MemoryInv, NEW t \in Tasks, Fork(t)
    PROVE  MemoryInv'
<1> DEFINE c == [InUser EXCEPT !.pc = "fork"]
<1>1. /\ At(t, call[t].pc) /\ call[t].pc = "user"
      /\ call' = [call EXCEPT ![t] = c] /\ current' = t
      /\ UNCHANGED <<mem_map, struct, zombie, dir, table, heap, twice>>
      /\ \E d \in Tasks : struct[d] = None
  BY DEF Fork, Going, InUserMode, At
<1>2. c \in Calls /\ c.page = None /\ c.pc = "fork" /\ c.found = NotYet
  BY CallsAre DEF Calls, Pcs
<1>3. call'[t] = c
  BY <1>1 DEF MemoryInv, MemoryTypes
<1> HIDE DEF c
<1>4. ASSUME NEW h \in SUBSET Pages, Fits(h) PROVE Knows(t, h)' /\ call[t].page = None
  <2>1. Knows(t, h)
    BY <1>4 DEF Fits
  <2>2. call[t].page = None
    BY <2>1, <1>1 DEF Knows
  <2>3. QED
    BY <2>2, <1>1, <1>2, <1>3, NumbersAre DEF Knows
<1>5. call[t].page = None
  BY <1>4 DEF MemoryInv
<1>6. QED
  BY <1>1, <1>2, <1>4, <1>5, QuietKeeps

\* Most steps begin with no page in hand.
LEMMA HandIs ==
    ASSUME MemoryInv, NEW t \in Tasks
    PROVE  call[t].page # None <=> call[t].pc \in {"fork_table", "put"}
  BY DEF MemoryInv, Fits, Knows

\* A task in user mode has not found a page.
LEMMA FoundIs ==
    ASSUME MemoryInv, NEW t \in Tasks, current = None
    PROVE  call[t].found = NotYet
  BY NumbersAre DEF MemoryInv, Fits, Knows

\* Going to another place with empty hands.
LEMMA GoesKeeps ==
    ASSUME MemoryInv, NEW t \in Tasks, At(t, call[t].pc), call[t].page = None,
           NEW c \in Calls, c.page = None, c.found = NotYet,
           call' = [call EXCEPT ![t] = c], current' \in {t, None}, current' = t \/ c.pc \in Asleep,
           c.pc \in {"user", "share", "empty", "load", "un_wp", "store"},
           c.pc \in {"share", "empty", "load"} => c.addr \in Addrs /\ table[t][c.addr].page = None,
           c.pc = "share" => Sharers(t, c.addr) # {},
           c.pc = "un_wp" => c.addr \in Addrs /\ table[t][c.addr].page # None,
           c.pc = "store" => c.addr \in Addrs,
           UNCHANGED <<mem_map, struct, zombie, dir, table, heap, twice>>
    PROVE  MemoryInv'
<1>1. call'[t] = c
  BY DEF MemoryInv, MemoryTypes
<1>2. Sharers(t, c.addr)' = Sharers(t, c.addr)
  BY DEF Sharers, Alive
<1>3. ASSUME NEW h \in SUBSET Pages PROVE Knows(t, h)'
  BY <1>1, <1>2, NumbersAre DEF Knows
<1>4. c.page = call[t].page
  OBVIOUS
<1>5. QED
  BY <1>3, <1>4, QuietKeeps

\* do_no_page() for an address that is absent.
LEMMA DoNoPageKeeps ==
    ASSUME MemoryInv, NEW t \in Tasks, At(t, call[t].pc), call[t].page = None, NEW a \in Addrs,
           NEW back \in {"user", "store"}, DoNoPage(t, a, back)
    PROVE  MemoryInv'
<1>1. PICK c : c = [InUser EXCEPT !.addr = a, !.back = back,
                                  !.pc = IF a \notin Image THEN "empty"
                                         ELSE IF Sharers(t, a) = {} THEN "load"
                                         ELSE "share"]
  OBVIOUS
<1>2. /\ c \in Calls /\ c.page = None /\ c.found = NotYet /\ c.addr = a
      /\ c.pc \in {"empty", "load", "share"} /\ (c.pc = "share" => Sharers(t, a) # {})
  BY <1>1, CallsAre DEF Calls, Pcs
<1>3. /\ call' = [call EXCEPT ![t] = c] /\ current' = t /\ table[t][a].page = None
      /\ UNCHANGED <<mem_map, struct, zombie, dir, table, heap, twice>>
  BY <1>1 DEF DoNoPage, Going
<1>4. QED
  BY <1>2, <1>3, GoesKeeps

\* An access of the task to an absent page.
LEMMA NoPageKeeps ==
    ASSUME MemoryInv, NEW t \in Tasks, NEW a \in Addrs, NoPage(t, a)
    PROVE  MemoryInv'
<1>1. At(t, call[t].pc) /\ call[t].pc = "user" /\ DoNoPage(t, a, "user")
  BY DEF NoPage, InUserMode, At
<1>2. call[t].page = None
  BY <1>1, HandIs
<1>3. QED
  BY <1>1, <1>2, DoNoPageKeeps

\* A store by the kernel that faults.
LEMMA StoreFaultsKeeps ==
    ASSUME MemoryInv, NEW t \in Tasks, StoreFaults(t)
    PROVE  MemoryInv'
<1>1. At(t, call[t].pc) /\ call[t].pc = "store" /\ DoNoPage(t, call[t].addr, "store")
  BY DEF StoreFaults, At
<1>2. call[t].page = None
  BY <1>1, HandIs
<1>3. call[t].addr \in Addrs
  BY <1>1 DEF MemoryInv, Fits, Knows
<1>4. PICK a \in Addrs : a = call[t].addr
  BY <1>3
<1>5. DoNoPage(t, a, "store")
  BY <1>1, <1>4
<1>6. QED
  BY <1>1, <1>2, <1>5, DoNoPageKeeps

\* do_wp_page() for a page with other users: a copy is to be made.
LEMMA WpPageKeeps ==
    ASSUME MemoryInv, NEW t \in Tasks, NEW a \in Addrs, WpPage(t, a)
    PROVE  MemoryInv'
<1>1. PICK c : c = [InUser EXCEPT !.pc = "un_wp", !.addr = a]
  OBVIOUS
<1>2. c \in Calls /\ c.page = None /\ c.found = NotYet /\ c.addr = a /\ c.pc = "un_wp"
  BY <1>1, CallsAre DEF Calls, Pcs
<1>3. /\ At(t, call[t].pc) /\ call[t].pc = "user" /\ table[t][a].page # None
      /\ call' = [call EXCEPT ![t] = c] /\ current' = t
      /\ UNCHANGED <<mem_map, struct, zombie, dir, table, heap, twice>>
  BY <1>1 DEF WpPage, InUserMode, At, Protected, Going
<1>4. call[t].page = None
  BY <1>3, HandIs
<1>5. QED
  BY <1>2, <1>3, <1>4, GoesKeeps

\* A step that changes the bits of an entry, and ends in user mode or before a store.
LEMMA EntryKeeps ==
    ASSUME MemoryInv, NEW t \in Tasks, At(t, call[t].pc), call[t].page = None,
           NEW c \in Calls, c.page = None, c.found = NotYet,
           call' = [call EXCEPT ![t] = c], current' \in {t, None},
           c.pc \in {"user", "store"}, c.pc = "store" => c.addr \in Addrs,
           NEW a \in Addrs, NEW e \in Entries, e.page = table[t][a].page,
           e.rw = TRUE => \/ table[t][a].rw = TRUE
                          \/ table[t][a].page # None /\ mem_map[table[t][a].page] = 1,
           table' = [table EXCEPT ![t][a] = e],
           UNCHANGED <<mem_map, struct, zombie, dir, heap, twice>>
    PROVE  MemoryInv'
<1>1. PICK h \in SUBSET Pages : Fits(h)
  BY DEF MemoryInv
<1>2. call'[t] = c /\ \A u \in Tasks : u # t => call'[u] = call[u]
  BY DEF MemoryInv, MemoryTypes
<1>3. Kernel' = Kernel
  BY SameKernel DEF MemoryInv
<1>4. InOrder(mem_map, Kernel, table', h)
  BY <1>1, SetEntry DEF Fits
<1>5. InOrder(mem_map', Kernel', table', h) /\ (~twice' => h = heap')
  BY <1>1, <1>3, <1>4 DEF Fits
<1>6. MemoryTypes'
  <2>1. table' \in Tables
    BY <1>4 DEF InOrder
  <2>2. call' \in [Tasks -> Calls]
    BY DEF MemoryInv, MemoryTypes
  <2>3. QED
    BY <2>1, <2>2 DEF MemoryInv, MemoryTypes, MaybeTask
<1>7. \A u \in Tasks, b \in Addrs : table'[u][b].page = table[u][b].page
  BY DEF MemoryInv, MemoryTypes, Tables
<1>8. Ended'
  <2>1. t \in Alive /\ dir' \in [Tasks -> MaybePage] /\ \A u \in Tasks : dir'[u] = dir[u]
    BY DEF At, MemoryInv, MemoryTypes
  <2>2. \A u \in Tasks : dir'[u] = None => \A b \in Addrs : table'[u][b].page = None
    BY <1>7 DEF MemoryInv, Ended
  <2>3. QED
    BY <2>1, <2>2, EndedStays DEF MemoryInv
<1>9. Knows(t, h)'
  BY <1>2, NumbersAre DEF Knows, Asleep
<1>10. current \in {t, None}
  BY DEF At
<1>11. QED
  BY <1>1, <1>2, <1>5, <1>6, <1>7, <1>8, <1>9, <1>10, StepKeeps

\* The bits of an entry with TRUE as rw or as dirty.
LEMMA BitsAre ==
    ASSUME NEW e \in Entries
    PROVE  /\ [e EXCEPT !.rw = TRUE] \in Entries /\ [e EXCEPT !.rw = TRUE].page = e.page
           /\ \A b \in BOOLEAN :
                /\ [e EXCEPT !.dirty = b] \in Entries /\ [e EXCEPT !.dirty = b].page = e.page
                /\ [e EXCEPT !.dirty = b].rw = e.rw
  BY DEF Entries

\* do_wp_page() for a page without them: the task may write to it.
LEMMA WpPageAloneKeeps ==
    ASSUME MemoryInv, NEW t \in Tasks, NEW a \in Addrs, WpPageAlone(t, a)
    PROVE  MemoryInv'
<1>1. /\ At(t, call[t].pc) /\ call[t].pc = "user" /\ table[t][a].page # None
      /\ mem_map[table[t][a].page] = 1
      /\ table' = [table EXCEPT ![t][a].rw = TRUE]
      /\ UNCHANGED <<mem_map, struct, zombie, dir, call, heap, current, twice>>
  BY DEF WpPageAlone, InUserMode, At, Protected
<1>2. PICK e : e = [table[t][a] EXCEPT !.rw = TRUE]
  OBVIOUS
<1>3. table[t][a] \in Entries
  BY TaskTypes DEF MemoryInv
<1>4. e \in Entries /\ e.page = table[t][a].page
  BY <1>2, <1>3, BitsAre
<1>5. table' = [table EXCEPT ![t][a] = e]
  BY <1>1, <1>2 DEF MemoryInv, MemoryTypes, Tables
<1>6. PICK c : c = call[t]
  OBVIOUS
<1>7. c \in Calls /\ call' = [call EXCEPT ![t] = c] /\ current' \in {t, None}
  BY <1>1, <1>6 DEF MemoryInv, MemoryTypes, At
<1>8. c.page = None /\ c.found = NotYet /\ c.pc = "user" /\ call[t].page = None
  BY <1>1, <1>6, HandIs, FoundIs DEF WpPageAlone, InUserMode
<1>9. e.rw = TRUE => \/ table[t][a].rw = TRUE
                     \/ table[t][a].page # None /\ mem_map[table[t][a].page] = 1
  BY <1>1
<1>10. At(t, call[t].pc) /\ UNCHANGED <<mem_map, struct, zombie, dir, heap, twice>>
  BY <1>1
<1>11. c.pc \in {"user", "store"} /\ (c.pc = "store" => c.addr \in Addrs)
  BY <1>8
<1>12. QED
  BY <1>4, <1>5, <1>7, <1>8, <1>9, <1>10, <1>11, EntryKeeps

\* A store of the task itself.
LEMMA UserStoreKeeps ==
    ASSUME MemoryInv, NEW t \in Tasks, NEW a \in Addrs, UserStore(t, a)
    PROVE  MemoryInv'
<1>1. /\ At(t, call[t].pc) /\ call[t].pc = "user"
      /\ table' = [table EXCEPT ![t][a].dirty = TRUE]
      /\ UNCHANGED <<mem_map, struct, zombie, dir, call, heap, current, twice>>
  BY DEF UserStore, InUserMode, At
<1>2. PICK e : e = [table[t][a] EXCEPT !.dirty = TRUE]
  OBVIOUS
<1>3. table[t][a] \in Entries
  BY TaskTypes DEF MemoryInv
<1>4. e \in Entries /\ e.page = table[t][a].page /\ e.rw = table[t][a].rw
  BY <1>2, <1>3, BitsAre
<1>5. table' = [table EXCEPT ![t][a] = e]
  BY <1>1, <1>2 DEF MemoryInv, MemoryTypes, Tables
<1>6. PICK c : c = call[t]
  OBVIOUS
<1>7. c \in Calls /\ call' = [call EXCEPT ![t] = c] /\ current' \in {t, None}
  BY <1>1, <1>6 DEF MemoryInv, MemoryTypes, At
<1>8. c.page = None /\ c.found = NotYet /\ c.pc = "user" /\ call[t].page = None
  BY <1>1, <1>6, HandIs, FoundIs DEF UserStore, InUserMode
<1>9. e.rw = TRUE => \/ table[t][a].rw = TRUE
                     \/ table[t][a].page # None /\ mem_map[table[t][a].page] = 1
  BY <1>4
<1>10. At(t, call[t].pc) /\ UNCHANGED <<mem_map, struct, zombie, dir, heap, twice>>
  BY <1>1
<1>11. c.pc \in {"user", "store"} /\ (c.pc = "store" => c.addr \in Addrs)
  BY <1>8
<1>12. QED
  BY <1>4, <1>5, <1>7, <1>8, <1>9, <1>10, <1>11, EntryKeeps

\* A store of the kernel for the task.
LEMMA KernelStoreKeeps ==
    ASSUME MemoryInv, NEW t \in Tasks, KernelStore(t)
    PROVE  MemoryInv'
<1>1. PICK a : a = call[t].addr
  OBVIOUS
<1>2. /\ At(t, call[t].pc) /\ call[t].pc = "store"
      /\ table' = [table EXCEPT ![t][a].dirty = a \in Image]
      /\ call' = [call EXCEPT ![t] = InUser] /\ current' = None
      /\ UNCHANGED <<mem_map, struct, zombie, dir, heap, twice>>
  BY <1>1 DEF KernelStore, At, Leave
<1>3. a \in Addrs
  BY <1>1, <1>2 DEF MemoryInv, Fits, Knows
<1>4. PICK b, e : b \in BOOLEAN /\ (b <=> a \in Image) /\ e = [table[t][a] EXCEPT !.dirty = b]
  OBVIOUS
<1>5. table[t][a] \in Entries
  BY <1>3, TaskTypes DEF MemoryInv
<1>6. e \in Entries /\ e.page = table[t][a].page /\ e.rw = table[t][a].rw
  BY <1>4, <1>5, BitsAre
<1>7. table' = [table EXCEPT ![t][a] = e]
  <2>1. b = (a \in Image)
    BY <1>4
  <2>2. QED
    BY <2>1, <1>2, <1>3, <1>4 DEF MemoryInv, MemoryTypes, Tables
<1>8. call[t].page = None
  BY <1>2, HandIs
<1>9. e.rw = TRUE => \/ table[t][a].rw = TRUE
                     \/ table[t][a].page # None /\ mem_map[table[t][a].page] = 1
  BY <1>6
<1>10. QED
  BY <1>9, <1>2, <1>3, <1>6, <1>7, <1>8, CallsAre, EntryKeeps

\* A system call verifies the area that it will store to.
LEMMA VerifyKeeps ==
    ASSUME MemoryInv, NEW t \in Tasks, NEW a \in Addrs, Verify(t, a)
    PROVE  MemoryInv'
<1>1. /\ At(t, call[t].pc) /\ call[t].pc = "user"
      /\ UNCHANGED <<mem_map, struct, zombie, dir, heap, twice>>
  BY DEF Verify, InUserMode, At
<1>2. call[t].page = None
  BY <1>1, HandIs
<1>3. table[t][a] \in Entries
  BY TaskTypes DEF MemoryInv
<1>4. CASE Protected(t, a) /\ mem_map[table[t][a].page] # 1
  <2>1. PICK c : c = [InUser EXCEPT !.pc = "un_wp", !.back = "store", !.addr = a]
    OBVIOUS
  <2>2. c \in Calls /\ c.page = None /\ c.found = NotYet /\ c.addr = a /\ c.pc = "un_wp"
    BY <2>1, CallsAre DEF Calls, Pcs
  <2>3. call' = [call EXCEPT ![t] = c] /\ current' = t /\ table[t][a].page # None /\ table' = table
    BY <1>4, <2>1 DEF Verify, Going, Protected
  <2>4. QED
    BY <1>1, <1>2, <2>2, <2>3, GoesKeeps
<1>5. CASE ~(Protected(t, a) /\ mem_map[table[t][a].page] # 1)
  <2>1. PICK c : c = [InUser EXCEPT !.pc = "store", !.addr = a]
    OBVIOUS
  <2>2. c \in Calls /\ c.page = None /\ c.found = NotYet /\ c.addr = a /\ c.pc = "store"
    BY <2>1, CallsAre DEF Calls, Pcs
  <2>3. call' = [call EXCEPT ![t] = c] /\ current' = None
    BY <1>5, <2>1 DEF Verify, Verified, ToStore
  <2>4. PICK e : e = IF Protected(t, a) THEN [table[t][a] EXCEPT !.rw = TRUE] ELSE table[t][a]
    OBVIOUS
  <2>5. e \in Entries /\ e.page = table[t][a].page
    BY <1>3, <2>4, BitsAre
  <2>6. table' = [table EXCEPT ![t][a] = e]
    <3>1. table' = IF Protected(t, a) THEN [table EXCEPT ![t][a].rw = TRUE] ELSE table
      BY <1>5 DEF Verify
    <3>2. QED
      BY <2>4, <3>1 DEF MemoryInv, MemoryTypes, Tables
  <2>7. e.rw = TRUE => \/ table[t][a].rw = TRUE
                       \/ table[t][a].page # None /\ mem_map[table[t][a].page] = 1
    BY <1>5, <2>4 DEF Protected
  <2>8. QED
    BY <1>1, <1>2, <2>2, <2>3, <2>5, <2>6, <2>7, EntryKeeps
<1>6. QED
  BY <1>4, <1>5

-----------------------------------------------------------------------------
(* Pages that are given back. *)

\* The page in the hands of a task is given back, if there is one.
LEMMA DropHand ==
    ASSUME MemoryInv, NEW t \in Tasks, NEW h, Fits(h)
    PROVE  InOrder(IF call[t].page = None THEN mem_map ELSE FreePage(mem_map, call[t].page),
                   [Kernel EXCEPT ![<<t, "hand">>] = None], table, h)
<1> DEFINE o == <<t, "hand">>
<1>1. o \in Owners /\ Kernel[o] = call[t].page /\ Kernel \in Owned
  BY KernelIs DEF MemoryInv
<1>2. InOrder(mem_map, Kernel, table, h)
  BY DEF Fits
<1> HIDE DEF o
<1>3. CASE call[t].page = None
  <2>1. [Kernel EXCEPT ![o] = None] = Kernel
    BY <1>1, <1>3 DEF Owned
  <2>2. QED
    BY <1>2, <1>3, <2>1 DEF o
<1>4. CASE call[t].page # None
  <2>1. PICK p \in Pages : p = call[t].page
    BY <1>4, TaskTypes, NumbersAre DEF MemoryInv
  <2>2. Kernel[o] = p
    BY <1>1, <2>1
  <2>3. InOrder([mem_map EXCEPT ![p] = @ - 1], [Kernel EXCEPT ![o] = None], table, h)
    BY <1>1, <1>2, <2>2, DropPage
  <2>4. QED
    BY <1>4, <2>1, <2>3 DEF o, FreePage
<1>5. QED
  BY <1>3, <1>4

\* free_page_tables(): the memory of a task and its page table are given back.
LEMMA DropMemory ==
    ASSUME MemoryTypes, NEW t \in Tasks, NEW m, NEW k, NEW h, InOrder(m, k, table, h),
           NEW o \in Owners, k[o] = dir[t]
    PROVE  InOrder(FreeTables(t, m), [k EXCEPT ![o] = None],
                   [table EXCEPT ![t] = [a \in Addrs |-> Absent]], h)
<1> DEFINE m2 == [p \in Pages |-> m[p] - UsesIn(table, t, p)]
           m3 == FreeTables(t, m)
           ta == [table EXCEPT ![t] = [a \in Addrs |-> Absent]]
<1>1. InOrder(m2, k, ta, h)
  BY DropRow
<1>2. m3 = [p \in Pages |-> m2[p] - (IF dir[t] = p THEN 1 ELSE 0)]
  BY DEF FreeTables, Uses, UsesIn
<1>3. m2 \in [Pages -> Nat] /\ k \in Owned
  BY <1>1 DEF InOrder
<1> HIDE DEF m2, m3, ta
<1>4. CASE dir[t] = None
  <2>1. m3 = m2
    BY <1>2, <1>3, <1>4, NumbersAre
  <2>2. [k EXCEPT ![o] = None] = k
    BY <1>3, <1>4 DEF Owned
  <2>3. QED
    BY <1>1, <2>1, <2>2 DEF m3, ta
<1>5. CASE dir[t] # None
  <2>1. PICK d \in Pages : dir[t] = d
    BY <1>5, TaskTypes, NumbersAre
  <2>2. InOrder([m2 EXCEPT ![d] = @ - 1], [k EXCEPT ![o] = None], ta, h)
    BY <1>1, <2>1, DropPage
  <2>3. m3 = [m2 EXCEPT ![d] = @ - 1]
    <3>1. m3 = [p \in Pages |-> m2[p] - (IF d = p THEN 1 ELSE 0)]
      BY <1>2, <2>1
    <3>2. \A p \in Pages : m2[p] - (IF d = p THEN 1 ELSE 0) = IF p = d THEN m2[d] - 1 ELSE m2[p]
      BY <1>3
    <3>3. QED
      BY <1>3, <3>1, <3>2
  <2>4. QED
    BY <2>2, <2>3 DEF m3, ta
<1>6. QED
  BY <1>4, <1>5

\* A fork that fails gives back what it has.
LEMMA ForkFailsKeeps ==
    ASSUME MemoryInv, NEW t \in Tasks, ForkFails(t)
    PROVE  MemoryInv'
<1>1. /\ At(t, call[t].pc)
      /\ mem_map' = IF call[t].page = None THEN mem_map ELSE FreePage(mem_map, call[t].page)
      /\ call' = [call EXCEPT ![t] = InUser] /\ current' = None
      /\ UNCHANGED <<struct, zombie, dir, table, heap, twice>>
  BY DEF ForkFails, Fails, At, Leave
<1>2. PICK h \in SUBSET Pages : Fits(h)
  BY DEF MemoryInv
<1>3. call'[t] = InUser /\ \A u \in Tasks : u # t => call'[u] = call[u]
  BY <1>1 DEF MemoryInv, MemoryTypes
<1>4. MemoryTypes'
  BY <1>1, CallsAre DEF MemoryInv, MemoryTypes, MaybeTask
<1> DEFINE k == [Kernel EXCEPT ![<<t, "hand">>] = None]
<1>5. k \in Owned
  BY KernelIs, NumbersAre DEF MemoryInv, Owned
<1>6. \A u \in Tasks : /\ k[<<u, "struct">>] = struct'[u]
                       /\ k[<<u, "dir">>] = dir'[u]
                       /\ k[<<u, "hand">>] = call'[u].page
  BY <1>1, <1>3, KernelIs, CallsAre DEF MemoryInv, Owned
<1>7. Kernel' = k
  BY <1>4, <1>5, <1>6, KernelBecomes
<1>8. InOrder(mem_map', Kernel', table', h)
  BY <1>1, <1>2, <1>7, DropHand
<1> HIDE DEF k
<1>9. Ended'
  <2>1. t \in Alive /\ dir' \in [Tasks -> MaybePage] /\ \A u \in Tasks : dir'[u] = dir[u]
    BY <1>1 DEF At, MemoryInv, MemoryTypes
  <2>2. \A u \in Tasks : dir'[u] = None => \A b \in Addrs : table'[u][b].page = None
    BY <1>1 DEF MemoryInv, Ended
  <2>3. QED
    BY <1>1, <2>1, <2>2, EndedStays DEF MemoryInv
<1>10. Knows(t, h)'
  BY <1>3, CallsAre, NumbersAre DEF Knows, Asleep
<1>11. current \in {t, None} /\ current' \in {t, None} /\ (~twice' => h = heap') /\ table' = table
  BY <1>1, <1>2 DEF At, Fits
<1>12. QED
  BY <1>2, <1>3, <1>4, <1>8, <1>9, <1>10, <1>11, StepKeeps

\* exit() and oom(): m are the counts without the page in the hands of the task.
LEMMA DoExitKeeps ==
    ASSUME MemoryInv, NEW t \in Tasks, At(t, call[t].pc), NEW m, NEW h \in SUBSET Pages, Fits(h),
           InOrder(m, [Kernel EXCEPT ![<<t, "hand">>] = None], table, h), DoExit(t, m)
    PROVE  MemoryInv'
<1> DEFINE k == [Kernel EXCEPT ![<<t, "hand">>] = None]
           k2 == [k EXCEPT ![<<t, "dir">>] = None]
<1>1. /\ mem_map' = FreeTables(t, m)
      /\ dir' = [dir EXCEPT ![t] = None]
      /\ table' = [table EXCEPT ![t] = [a \in Addrs |-> Absent]]
      /\ zombie' = zombie \cup {t}
      /\ call' = [call EXCEPT ![t] = InUser] /\ current' = None
      /\ UNCHANGED <<struct, heap, twice>>
  BY DEF DoExit, Leave
<1>2. k \in Owned /\ k[<<t, "dir">>] = dir[t] /\ k2 \in Owned
  BY KernelIs, NumbersAre DEF MemoryInv, Owned
<1>3. call'[t] = InUser /\ \A u \in Tasks : u # t => call'[u] = call[u]
  BY <1>1 DEF MemoryInv, MemoryTypes
<1>4. dir'[t] = None /\ \A u \in Tasks : u # t => dir'[u] = dir[u]
  BY <1>1 DEF MemoryInv, MemoryTypes
<1>5. /\ \A a \in Addrs : table'[t][a].page = None
      /\ \A u \in Tasks : u # t => table'[u] = table[u]
  BY <1>1 DEF MemoryInv, MemoryTypes, Tables, Absent
<1>6. InOrder(mem_map', k2, table', h)
  <2>1. <<t, "dir">> \in Owners
    BY KernelIs DEF MemoryInv
  <2>2. InOrder(m, k, table, h) /\ MemoryTypes
    BY DEF MemoryInv
  <2> HIDE DEF k
  <2>3. QED
    BY <1>1, <1>2, <2>1, <2>2, DropMemory
<1>7. MemoryTypes'
  <2>1. table' \in Tables
    BY <1>6 DEF InOrder
  <2>2. call' \in [Tasks -> Calls]
    BY <1>1, CallsAre DEF MemoryInv, MemoryTypes
  <2>3. dir' \in [Tasks -> MaybePage]
    BY <1>1, NumbersAre DEF MemoryInv, MemoryTypes
  <2>4. QED
    BY <1>1, <2>1, <2>2, <2>3 DEF MemoryInv, MemoryTypes, MaybeTask
<1>8. \A u \in Tasks : /\ k2[<<u, "struct">>] = struct'[u]
                       /\ k2[<<u, "dir">>] = dir'[u]
                       /\ k2[<<u, "hand">>] = call'[u].page
  BY <1>1, <1>3, <1>4, KernelIs, CallsAre DEF MemoryInv, Owned
<1>9. Kernel' = k2
  BY <1>2, <1>7, <1>8, KernelBecomes
<1> HIDE DEF k, k2
<1>10. Ended'
  <2>1. Alive' = Alive \ {t} /\ t \in Alive
    BY <1>1 DEF Alive, At
  <2>2. \A u \in Tasks : u \in zombie' => struct'[u] # None
    BY <1>1, <2>1 DEF MemoryInv, Ended, Alive
  <2>3. \A u \in Tasks : dir'[u] = None => \A a \in Addrs : table'[u][a].page = None
    BY <1>4, <1>5 DEF MemoryInv, Ended
  <2>4. \A u \in Tasks : u \notin Alive' => dir'[u] = None /\ call'[u] = InUser
    BY <1>3, <1>4, <2>1 DEF MemoryInv, Ended
  <2>5. QED
    BY <2>2, <2>3, <2>4 DEF Ended
<1>11. Knows(t, h)'
  BY <1>3, CallsAre, NumbersAre DEF Knows, Asleep
<1>12. current \in {t, None} /\ current' \in {t, None} /\ (~twice' => h = heap')
  BY <1>1 DEF At, Fits
<1>13. InOrder(mem_map', Kernel', table', h)
  BY <1>6, <1>9
<1>14. QED
  BY <1>3, <1>5, <1>7, <1>10, <1>11, <1>12, <1>13, StepKeeps

\* A task ends.
LEMMA ExitKeeps ==
    ASSUME MemoryInv, NEW t \in Tasks, Exit(t)
    PROVE  MemoryInv'
<1>1. At(t, call[t].pc) /\ call[t].pc = "user" /\ DoExit(t, mem_map)
  BY DEF Exit, InUserMode, At
<1>2. PICK h \in SUBSET Pages : Fits(h)
  BY DEF MemoryInv
<1>3. call[t].page = None
  BY <1>1, HandIs
<1>4. InOrder(mem_map, [Kernel EXCEPT ![<<t, "hand">>] = None], table, h)
  BY <1>2, <1>3, DropHand
<1>5. QED
  BY <1>1, <1>2, <1>4, DoExitKeeps

\* A task ends because there is no page.
LEMMA OutOfMemoryKeeps ==
    ASSUME MemoryInv, NEW t \in Tasks, OutOfMemory(t)
    PROVE  MemoryInv'
<1> DEFINE m == IF call[t].page = None THEN mem_map ELSE FreePage(mem_map, call[t].page)
<1>1. At(t, call[t].pc) /\ DoExit(t, m)
  BY DEF OutOfMemory, Fails, At
<1>2. PICK h \in SUBSET Pages : Fits(h)
  BY DEF MemoryInv
<1>3. InOrder(m, [Kernel EXCEPT ![<<t, "hand">>] = None], table, h)
  BY <1>2, DropHand
<1> HIDE DEF m
<1>4. QED
  BY <1>1, <1>2, <1>3, DoExitKeeps

\* exec() frees the memory of the task.
LEMMA ExecKeeps ==
    ASSUME MemoryInv, NEW t \in Tasks, Exec(t)
    PROVE  MemoryInv'
<1> DEFINE k2 == [Kernel EXCEPT ![<<t, "dir">>] = None]
<1>1. /\ At(t, call[t].pc) /\ current = None /\ call[t].pc = "user"
      /\ mem_map' = FreeTables(t, mem_map)
      /\ dir' = [dir EXCEPT ![t] = None]
      /\ table' = [table EXCEPT ![t] = [a \in Addrs |-> Absent]]
      /\ UNCHANGED <<struct, zombie, call, heap, current, twice>>
  BY DEF Exec, InUserMode, At
<1>2. PICK h \in SUBSET Pages : Fits(h)
  BY DEF MemoryInv
<1>3. k2 \in Owned
  BY KernelIs, NumbersAre DEF MemoryInv, Owned
<1>4. dir'[t] = None /\ \A u \in Tasks : u # t => dir'[u] = dir[u]
  BY <1>1 DEF MemoryInv, MemoryTypes
<1>5. /\ \A a \in Addrs : table'[t][a].page = None
      /\ \A u \in Tasks : u # t => table'[u] = table[u]
  BY <1>1 DEF MemoryInv, MemoryTypes, Tables, Absent
<1>6. InOrder(mem_map', k2, table', h)
  <2>1. <<t, "dir">> \in Owners /\ Kernel[<<t, "dir">>] = dir[t]
    BY KernelIs DEF MemoryInv
  <2>2. InOrder(mem_map, Kernel, table, h) /\ MemoryTypes
    BY <1>2 DEF MemoryInv, Fits
  <2>3. QED
    BY <1>1, <2>1, <2>2, DropMemory
<1>7. MemoryTypes'
  <2>1. table' \in Tables
    BY <1>6 DEF InOrder
  <2>2. dir' \in [Tasks -> MaybePage]
    BY <1>1, NumbersAre DEF MemoryInv, MemoryTypes
  <2>3. QED
    BY <1>1, <2>1, <2>2 DEF MemoryInv, MemoryTypes
<1>8. \A u \in Tasks : /\ k2[<<u, "struct">>] = struct'[u]
                       /\ k2[<<u, "dir">>] = dir'[u]
                       /\ k2[<<u, "hand">>] = call'[u].page
  BY <1>1, <1>4, KernelIs DEF MemoryInv, Owned
<1>9. Kernel' = k2
  BY <1>3, <1>7, <1>8, KernelBecomes
<1> HIDE DEF k2
<1>10. Ended'
  <2>1. \A u \in Tasks : dir'[u] = None => \A a \in Addrs : table'[u][a].page = None
    BY <1>4, <1>5 DEF MemoryInv, Ended
  <2>2. \A u \in Tasks : u \notin Alive => dir'[u] = None /\ call'[u] = InUser
    BY <1>1, <1>4 DEF MemoryInv, Ended
  <2>3. QED
    BY <1>1, <2>1, <2>2 DEF MemoryInv, Ended, Alive
<1>11. Knows(t, h)'
  <2>1. call[t].page = None /\ call[t].found = NotYet
    BY <1>1, HandIs, FoundIs
  <2>2. QED
    BY <1>1, <2>1, NumbersAre DEF Knows, Asleep
<1>12. current \in {t, None} /\ current' \in {t, None} /\ (~twice' => h = heap') /\ call' = call
  BY <1>1, <1>2 DEF Fits
<1>13. InOrder(mem_map', Kernel', table', h)
  BY <1>6, <1>9
<1>14. QED
  BY <1>2, <1>5, <1>7, <1>10, <1>11, <1>12, <1>13, StepKeeps

\* The father releases a zombie.
LEMMA ReleaseKeeps ==
    ASSUME MemoryInv, NEW t \in Tasks, Release(t)
    PROVE  MemoryInv'
<1> DEFINE k2 == [Kernel EXCEPT ![<<t, "struct">>] = None]
<1>1. /\ ~twice /\ current = None /\ t \in zombie
      /\ mem_map' = FreePage(mem_map, struct[t])
      /\ struct' = [struct EXCEPT ![t] = None] /\ zombie' = zombie \ {t}
      /\ UNCHANGED <<dir, table, call, heap, current, twice>>
  BY DEF Release
<1>2. PICK h \in SUBSET Pages : Fits(h)
  BY DEF MemoryInv
<1>3. PICK p \in Pages : p = struct[t]
  BY <1>1, TaskTypes, NumbersAre DEF MemoryInv, Ended
<1>4. k2 \in Owned
  BY KernelIs, NumbersAre DEF MemoryInv, Owned
<1>5. struct'[t] = None /\ \A u \in Tasks : u # t => struct'[u] = struct[u]
  BY <1>1 DEF MemoryInv, MemoryTypes
<1>6. InOrder(mem_map', k2, table', h)
  <2>1. <<t, "struct">> \in Owners /\ Kernel[<<t, "struct">>] = p
    BY <1>3, KernelIs DEF MemoryInv
  <2>2. InOrder(mem_map, Kernel, table, h)
    BY <1>2 DEF Fits
  <2>3. InOrder([mem_map EXCEPT ![p] = @ - 1], k2, table, h)
    BY <2>1, <2>2, DropPage
  <2>4. QED
    BY <1>1, <1>3, <2>3 DEF FreePage
<1>7. MemoryTypes'
  BY <1>1, NumbersAre DEF MemoryInv, MemoryTypes
<1>8. \A u \in Tasks : /\ k2[<<u, "struct">>] = struct'[u]
                       /\ k2[<<u, "dir">>] = dir'[u]
                       /\ k2[<<u, "hand">>] = call'[u].page
  BY <1>1, <1>5, KernelIs DEF MemoryInv, Owned
<1>9. Kernel' = k2
  BY <1>4, <1>7, <1>8, KernelBecomes
<1> HIDE DEF k2
<1>10. Ended'
  <2>1. Alive' = Alive
    BY <1>1, <1>5 DEF Alive
  <2>2. \A u \in Tasks : u \in zombie' => struct'[u] # None
    BY <1>1, <1>5 DEF MemoryInv, Ended
  <2>3. QED
    BY <1>1, <2>1, <2>2 DEF MemoryInv, Ended
<1>11. Knows(t, h)'
  <2>1. call[t] = InUser
    BY <1>1 DEF MemoryInv, Ended, Alive
  <2>2. QED
    BY <1>1, <2>1, CallsAre, NumbersAre DEF Knows, Asleep
<1>12. current \in {t, None} /\ current' \in {t, None} /\ (~twice' => h = heap')
  BY <1>1, <1>2 DEF Fits
<1>13. InOrder(mem_map', Kernel', table', h) /\ call' = call /\ table' = table
  BY <1>1, <1>6, <1>9
<1>14. QED
  BY <1>2, <1>7, <1>10, <1>11, <1>12, <1>13, StepKeeps

\* An interrupt takes a page for malloc().
LEMMA MallocKeeps ==
    ASSUME MemoryInv, Malloc
    PROVE  MemoryInv'
<1>1. /\ ~twice /\ LastFree # None
      /\ mem_map' = [mem_map EXCEPT ![LastFree] = 1] /\ heap' = heap \cup {LastFree}
      /\ UNCHANGED <<struct, zombie, dir, table, call, current, twice>>
  BY DEF Malloc
<1>2. PICK h \in SUBSET Pages : Fits(h)
  BY DEF MemoryInv
<1>3. PICK p \in Pages : p = LastFree /\ mem_map[p] = 0
  BY <1>1, LastFreeIs
<1>4. MemoryTypes'
  BY <1>1, <1>3 DEF MemoryInv, MemoryTypes
<1>5. Ended'
  BY <1>1 DEF MemoryInv, Ended, Alive
<1>6. Kernel' = Kernel
  BY <1>1 DEF Kernel
<1>7. InOrder(mem_map', Kernel', table', h \cup {p})
  <2>1. InOrder([mem_map EXCEPT ![p] = 1], Kernel, table, h \cup {p})
    BY <1>2, <1>3, HeapPage DEF Fits
  <2>2. QED
    BY <2>1, <1>1, <1>3, <1>6
<1>8. ASSUME NEW t \in Tasks PROVE Knows(t, h \cup {p})'
  <2>1. Knows(t, h)
    BY <1>2 DEF Fits
  <2>2. call[t].found \in Pages => Unused(call[t].found, h \cup {p})'
    BY <2>1, <1>1, <1>6 DEF Knows, Unused, InKernel
  <2>3. Sharers(t, call[t].addr)' = Sharers(t, call[t].addr)
    BY <1>1 DEF Sharers, Alive
  <2>4. QED
    BY <1>1, <2>1, <2>2, <2>3 DEF Knows
<1>9. h \cup {p} \in SUBSET Pages /\ (~twice' => h \cup {p} = heap')
  BY <1>1, <1>2, <1>3 DEF Fits
<1>10. Fits(h \cup {p})'
  BY <1>7, <1>8, <1>9 DEF Fits
<1>11. QED
  BY <1>4, <1>5, <1>9, <1>10 DEF MemoryInv

-----------------------------------------------------------------------------
(* Pages that get_free_page() gives out. *)

\* get_free_page() marks the page it has found, for owner o. If malloc() has taken the page in
\* the meantime, it is given out twice.
LEMMA MarkPage ==
    ASSUME MemoryInv, NEW t \in Tasks, ~twice, NEW p \in Pages, Found(t) = p, NEW h, Fits(h),
           NEW o \in Owners, Kernel[o] = None
    PROVE  /\ InOrder(Marked(t), [Kernel EXCEPT ![o] = p], table, h \ {p})
           /\ Mark(t) => (~twice' => h \ {p} = heap)
<1>1. InOrder(mem_map, Kernel, table, h) /\ h = heap
  BY DEF Fits
<1>2. UsersOf(table, p) = {} /\ ~InKernel(Kernel, h \ {p}, p)
  BY DEF Fits, Knows, Found, Unused
<1>3. InOrder([mem_map EXCEPT ![p] = 1], [Kernel EXCEPT ![o] = p], table, h \ {p})
  BY <1>1, <1>2, TakePage
<1>4. mem_map[p] = 0 => p \notin h
  BY <1>1, FreeIsUnused
<1>5. QED
  BY <1>1, <1>3, <1>4 DEF Marked, Mark

\* The slot that fork() finds: a free one.
LEMMA SlotIs ==
    ASSUME MemoryInv, NEW t \in Alive, \E d \in Tasks : struct[d] = None
    PROVE  /\ Slot \in Tasks /\ struct[Slot] = None /\ Slot # t
           /\ dir[Slot] = None /\ call[Slot] = InUser /\ Slot \notin Alive
           /\ \A a \in Addrs : table[Slot][a].page = None
<1> DEFINE S == {c \in Tasks : struct[c] = None}
<1>1. S \subseteq 1 .. NTasks /\ NTasks \in Nat /\ S # {}
  BY NumbersAssumption DEF Tasks
<1> HIDE DEF S
<1>2. \E x \in S : \A y \in S : x <= y
  BY <1>1, HasMaxAndMin
<1>3. Slot \in Tasks /\ struct[Slot] = None
  BY <1>2 DEF Slot, S
<1>4. QED
  BY <1>3 DEF MemoryInv, Ended, Alive

\* A step of task t that changes its memory: k are the pages of the kernel after it, h2 those of
\* malloc().
LEMMA MemoryStepKeeps ==
    ASSUME MemoryInv, NEW t \in Tasks, At(t, call[t].pc), NEW h, Fits(h), NEW h2 \in SUBSET Pages,
           struct' = struct, zombie' = zombie, heap' = heap, twice' \in BOOLEAN, ~twice' => h2 = heap,
           NEW c \in Calls, call' = [call EXCEPT ![t] = c], current' \in {t, None},
           dir' \in [Tasks -> MaybePage], \A u \in Tasks : u # t => dir'[u] = dir[u],
           NEW k \in Owned, InOrder(mem_map', k, table', h2),
           \A u \in Tasks : /\ k[<<u, "struct">>] = struct[u]
                            /\ k[<<u, "dir">>] = dir'[u]
                            /\ k[<<u, "hand">>] = IF u = t THEN c.page ELSE call[u].page,
           \A u \in Tasks, a \in Addrs : u # t => table'[u][a].page = table[u][a].page,
           dir'[t] = None => \A a \in Addrs : table'[t][a].page = None,
           Knows(t, h2)'
    PROVE  MemoryInv'
<1>1. call'[t] = c /\ \A u \in Tasks : u # t => call'[u] = call[u]
  BY DEF MemoryInv, MemoryTypes
<1>2. MemoryTypes'
  <2>1. table' \in Tables
    BY DEF InOrder
  <2>2. call' \in [Tasks -> Calls]
    BY DEF MemoryInv, MemoryTypes
  <2>3. QED
    BY <2>1, <2>2 DEF MemoryInv, MemoryTypes, MaybeTask
<1>3. Kernel' = k
  BY <1>1, <1>2, KernelBecomes
<1>4. Ended'
  <2>1. t \in Alive
    BY DEF At
  <2>2. \A u \in Tasks : dir'[u] = None => \A a \in Addrs : table'[u][a].page = None
    BY DEF MemoryInv, Ended
  <2>3. QED
    BY <2>1, <2>2, EndedStays DEF MemoryInv
<1>5. InOrder(mem_map', Kernel', table', h2) /\ (~twice' => h2 = heap') /\ current \in {t, None}
  BY <1>3 DEF At
<1>6. QED
  BY <1>1, <1>2, <1>4, <1>5, StepKeeps

\* A call that ends, or is about to store.
Lands(c) ==
    /\ c \in Calls /\ c.page = None /\ c.found = NotYet /\ c.pc \in {"user", "store"}
    /\ c.pc = "store" => c.addr \in Addrs

\* The end of a page fault.
LEMMA BackIs ==
    ASSUME NEW t \in Tasks, NEW a \in Addrs, call[t].addr = a, Back(t)
    PROVE  \E c : Lands(c) /\ call' = [call EXCEPT ![t] = c] /\ current' \in {t, None}
<1>1. CASE call[t].back = "user"
  <2>1. Lands(InUser)
    BY CallsAre DEF Lands
  <2>2. QED
    BY <1>1, <2>1 DEF Back, Leave
<1>2. CASE call[t].back # "user"
  <2>1. Lands([InUser EXCEPT !.pc = "store", !.addr = a])
    BY CallsAre DEF Lands, Calls, Pcs
  <2>2. QED
    BY <1>2, <2>1 DEF Back, ToStore
<1>3. QED
  BY <1>1, <1>2

\* A task that has landed relies on nothing.
LEMMA LandedKnows ==
    ASSUME NEW t \in Tasks, NEW c, Lands(c), call'[t] = c, NEW h
    PROVE  Knows(t, h)'
  BY NumbersAre DEF Knows, Lands, Asleep

\* A page that was found is marked, and goes where the call wants it.
LEMMA PageGotKeeps ==
    ASSUME MemoryInv, NEW t \in Tasks, PageGot(t)
    PROVE  MemoryInv'
<1>1. PICK p \in Pages : p = Found(t)
  BY DEF PageGot, Got
<1>2. PICK c : c = [call[t] EXCEPT !.pc = "put", !.page = p, !.found = NotYet]
  OBVIOUS
<1>3. /\ At(t, call[t].pc) /\ ~twice /\ call[t].pc \in {"empty", "load"}
      /\ mem_map' = Marked(t) /\ Mark(t)
      /\ current' \in {t, None}
      /\ UNCHANGED <<struct, zombie, dir, table, heap>>
  BY DEF PageGot, Got, At
<1>4. call' = [call EXCEPT ![t] = c] /\ call'[t] = c
  BY <1>1, <1>2 DEF PageGot, Found, MemoryInv, MemoryTypes
<1>5. /\ c \in Calls /\ c.page = p /\ c.found = NotYet /\ c.pc = "put"
      /\ c.addr = call[t].addr
  <2>1. call[t] \in Calls
    BY TaskTypes DEF MemoryInv
  <2>2. QED
    BY <1>2, <2>1, NumbersAre DEF Calls, Founds, Pcs
<1>6. PICK h \in SUBSET Pages : Fits(h)
  BY DEF MemoryInv
<1>7. call[t].page = None /\ c.addr \in Addrs /\ table[t][c.addr].page = None
  BY <1>3, <1>5, <1>6 DEF Fits, Knows
<1> DEFINE k == [Kernel EXCEPT ![<<t, "hand">>] = p]
<1>8. PICK h2 \in SUBSET Pages : h2 = h \ {p}
  OBVIOUS
<1>9. InOrder(mem_map', k, table', h2) /\ (~twice' => h2 = heap)
  <2>1. <<t, "hand">> \in Owners /\ Kernel[<<t, "hand">>] = None
    BY <1>7, KernelIs DEF MemoryInv
  <2>2. QED
    BY <1>1, <1>3, <1>6, <1>8, <2>1, MarkPage
<1>10. k \in Owned
  BY <1>9 DEF InOrder
<1>11. \A u \in Tasks : /\ k[<<u, "struct">>] = struct[u]
                        /\ k[<<u, "dir">>] = dir'[u]
                        /\ k[<<u, "hand">>] = IF u = t THEN c.page ELSE call[u].page
  BY <1>3, <1>5, KernelIs DEF MemoryInv, Owned
<1> HIDE DEF k
<1>12. Knows(t, h2)'
  BY <1>3, <1>4, <1>5, <1>7, NumbersAre DEF Knows, Asleep
<1>13. /\ twice' \in BOOLEAN
       /\ dir' \in [Tasks -> MaybePage] /\ \A u \in Tasks : dir'[u] = dir[u]
       /\ dir'[t] = None => \A a \in Addrs : table'[t][a].page = None
       /\ \A u \in Tasks, a \in Addrs : table'[u][a].page = table[u][a].page
  BY <1>3 DEF MemoryInv, MemoryTypes, Mark, Ended
<1>14. At(t, call[t].pc) /\ struct' = struct /\ zombie' = zombie /\ heap' = heap /\ current' \in {t, None}
  BY <1>3
<1>15. QED
  BY <1>4, <1>5, <1>6, <1>9, <1>10, <1>11, <1>12, <1>13, <1>14, MemoryStepKeeps

\* The task has a page table, or gets the page that get_free_page() has found for it.
LEMMA TableReady ==
    ASSUME MemoryInv, NEW t \in Tasks, ~twice, NEW h \in SUBSET Pages, Fits(h), NEW m,
           \/ dir[t] # None /\ m = mem_map /\ UNCHANGED <<dir, twice>>
           \/ /\ dir[t] = None /\ Found(t) \in Pages /\ m = Marked(t) /\ Mark(t)
              /\ dir' = [dir EXCEPT ![t] = Found(t)]
    PROVE  /\ twice' \in BOOLEAN
           /\ dir' \in [Tasks -> MaybePage] /\ dir'[t] # None
           /\ \A u \in Tasks : u # t => dir'[u] = dir[u]
           /\ \E h2 \in SUBSET Pages, k \in Owned :
                /\ InOrder(m, k, table, h2)
                /\ ~twice' => h2 = heap
                /\ \A u \in Tasks : /\ k[<<u, "struct">>] = struct[u]
                                    /\ k[<<u, "dir">>] = dir'[u]
                                    /\ k[<<u, "hand">>] = call[u].page
<1>1. CASE dir[t] # None /\ m = mem_map /\ UNCHANGED <<dir, twice>>
  <2>1. /\ InOrder(m, Kernel, table, h) /\ (~twice' => h = heap) /\ Kernel \in Owned
        /\ \A u \in Tasks : /\ Kernel[<<u, "struct">>] = struct[u]
                            /\ Kernel[<<u, "dir">>] = dir'[u]
                            /\ Kernel[<<u, "hand">>] = call[u].page
    BY <1>1, KernelIs DEF Fits, MemoryInv
  <2>2. \E h2 \in SUBSET Pages, k \in Owned :
          /\ InOrder(m, k, table, h2)
          /\ ~twice' => h2 = heap
          /\ \A u \in Tasks : /\ k[<<u, "struct">>] = struct[u]
                              /\ k[<<u, "dir">>] = dir'[u]
                              /\ k[<<u, "hand">>] = call[u].page
    BY <2>1
  <2>3. QED
    BY <1>1, <2>2 DEF MemoryInv, MemoryTypes
<1>2. CASE /\ dir[t] = None /\ Found(t) \in Pages /\ m = Marked(t) /\ Mark(t)
           /\ dir' = [dir EXCEPT ![t] = Found(t)]
  <2>1. PICK p \in Pages : p = Found(t)
    BY <1>2
  <2> DEFINE k == [Kernel EXCEPT ![<<t, "dir">>] = p]
             h2 == h \ {p}
  <2>2. InOrder(m, k, table, h2) /\ (~twice' => h2 = heap)
    <3>1. <<t, "dir">> \in Owners /\ Kernel[<<t, "dir">>] = None
      BY <1>2, KernelIs DEF MemoryInv
    <3>2. QED
      BY <1>2, <2>1, <3>1, MarkPage
  <2>3. k \in Owned /\ h2 \in SUBSET Pages
    BY <2>2 DEF InOrder
  <2>4. /\ dir' \in [Tasks -> MaybePage] /\ dir'[t] = p /\ p # None
        /\ \A u \in Tasks : u # t => dir'[u] = dir[u]
    BY <1>2, <2>1, NumbersAre DEF MemoryInv, MemoryTypes
  <2>5. \A u \in Tasks : /\ k[<<u, "struct">>] = struct[u]
                         /\ k[<<u, "dir">>] = dir'[u]
                         /\ k[<<u, "hand">>] = call[u].page
    BY <2>4, KernelIs DEF MemoryInv, Owned
  <2>6. twice' \in BOOLEAN
    BY <1>2 DEF Mark
  <2> HIDE DEF k, h2
  <2>7. QED
    BY <2>2, <2>3, <2>4, <2>5, <2>6
<1>3. QED
  BY <1>1, <1>2

\* put_page() maps the page of a program.
LEMMA PutPageKeeps ==
    ASSUME MemoryInv, NEW t \in Tasks, PutPage(t)
    PROVE  MemoryInv'
<1>1. PICK h \in SUBSET Pages : Fits(h)
  BY DEF MemoryInv
<1>2. /\ At(t, call[t].pc) /\ ~twice /\ call[t].pc = "put"
      /\ table' = [table EXCEPT ![t][call[t].addr] = Entry(call[t].page)]
      /\ Back(t)
      /\ UNCHANGED <<struct, zombie, heap>>
  BY DEF PutPage, At
<1>3. PICK a \in Addrs, p \in Pages : call[t].addr = a /\ table[t][a].page = None /\ call[t].page = p
  <2>1. call[t].addr \in Addrs /\ table[t][call[t].addr].page = None /\ call[t].page # None
    BY <1>1, <1>2 DEF Fits, Knows
  <2>2. call[t].page \in Pages
    BY <2>1, TaskTypes, NumbersAre DEF MemoryInv
  <2>3. QED
    BY <2>1, <2>2
<1>4. \/ dir[t] # None /\ mem_map' = mem_map /\ UNCHANGED <<dir, twice>>
      \/ /\ dir[t] = None /\ Found(t) \in Pages /\ mem_map' = Marked(t) /\ Mark(t)
         /\ dir' = [dir EXCEPT ![t] = Found(t)]
  BY DEF PutPage
<1>5. PICK m : m = mem_map'
  OBVIOUS
<1>6. /\ twice' \in BOOLEAN
      /\ dir' \in [Tasks -> MaybePage] /\ dir'[t] # None
      /\ \A u \in Tasks : u # t => dir'[u] = dir[u]
      /\ \E h2 \in SUBSET Pages, k \in Owned :
           /\ InOrder(m, k, table, h2)
           /\ ~twice' => h2 = heap
           /\ \A u \in Tasks : /\ k[<<u, "struct">>] = struct[u]
                               /\ k[<<u, "dir">>] = dir'[u]
                               /\ k[<<u, "hand">>] = call[u].page
  BY <1>1, <1>2, <1>4, <1>5, TableReady
<1>7. PICK h2 \in SUBSET Pages, k \in Owned :
           /\ InOrder(m, k, table, h2)
           /\ ~twice' => h2 = heap
           /\ \A u \in Tasks : /\ k[<<u, "struct">>] = struct[u]
                               /\ k[<<u, "dir">>] = dir'[u]
                               /\ k[<<u, "hand">>] = call[u].page
  BY <1>6
<1>8. PICK c : Lands(c) /\ call' = [call EXCEPT ![t] = c] /\ current' \in {t, None}
  BY <1>2, <1>3, BackIs
<1> DEFINE k2 == [k EXCEPT ![<<t, "hand">>] = None]
<1>9. InOrder(m, k2, [table EXCEPT ![t][a] = Entry(p)], h2)
  <2>1. <<t, "hand">> \in Owners /\ k[<<t, "hand">>] = p
    BY <1>3, <1>7, KernelIs DEF MemoryInv
  <2>2. PICK q : q = table[t][a].page
    OBVIOUS
  <2>3. m \in [Pages -> Int] /\ \A r \in Pages : m[r] = IF r = q THEN m[r] - 1 ELSE m[r]
    BY <1>3, <1>7, <2>2, NumbersAre DEF InOrder
  <2>4. QED
    BY <1>7, <2>1, <2>2, <2>3, PutEntry
<1>10. InOrder(mem_map', k2, table', h2) /\ k2 \in Owned
  BY <1>2, <1>3, <1>5, <1>9 DEF InOrder
<1>11. \A u \in Tasks : /\ k2[<<u, "struct">>] = struct[u]
                        /\ k2[<<u, "dir">>] = dir'[u]
                        /\ k2[<<u, "hand">>] = IF u = t THEN c.page ELSE call[u].page
  BY <1>7, <1>8, KernelIs DEF Owned, MemoryInv, Lands
<1> HIDE DEF k2
<1>12. call'[t] = c /\ c \in Calls
  BY <1>8 DEF MemoryInv, MemoryTypes, Lands
<1>13. Knows(t, h2)'
  BY <1>8, <1>12, LandedKnows
<1>14. \A u \in Tasks, b \in Addrs : u # t => table'[u][b].page = table[u][b].page
  BY <1>2 DEF MemoryInv, MemoryTypes, Tables
<1>15. At(t, call[t].pc) /\ struct' = struct /\ zombie' = zombie /\ heap' = heap
  BY <1>2
<1>16. QED
  BY <1>1, <1>6, <1>7, <1>8, <1>10, <1>11, <1>12, <1>13, <1>14, <1>15, MemoryStepKeeps

\* try_to_share() maps the page of another task.
LEMMA ShareKeeps ==
    ASSUME MemoryInv, NEW t \in Tasks, Share(t)
    PROVE  MemoryInv'
<1>1. PICK h \in SUBSET Pages : Fits(h)
  BY DEF MemoryInv
<1>2. At(t, call[t].pc) /\ ~twice /\ call[t].pc = "share" /\ Back(t) /\ UNCHANGED <<struct, zombie, heap>>
  BY DEF Share, At
<1>3. PICK a \in Addrs : call[t].addr = a /\ table[t][a].page = None /\ Sharers(t, a) # {}
  BY <1>1, <1>2 DEF Fits, Knows
<1>4. PICK u \in Tasks : u = Max(Sharers(t, a)) /\ u \in Sharers(t, a)
  <2>1. Sharers(t, a) \subseteq 1 .. NTasks /\ NTasks \in Nat
    BY NumbersAssumption DEF Sharers, Alive, Tasks
  <2>2. Max(Sharers(t, a)) \in Sharers(t, a)
    BY <1>3, <2>1, HasMaxAndMin
  <2>3. QED
    BY <2>2 DEF Sharers, Alive
<1>5. PICK e : e = [table[u][a] EXCEPT !.rw = FALSE]
  OBVIOUS
<1>6. PICK q \in Pages : table[u][a].page = q /\ e.page = q
  <2>1. table[u][a] \in Entries /\ table[u][a].page # None
    BY <1>4, TaskTypes DEF Sharers, MemoryInv
  <2>2. QED
    BY <1>5, <2>1, NumbersAre DEF Entries
<1>7. PICK m : /\ table' = [table EXCEPT ![u][a] = e, ![t][a] = e]
               /\ mem_map' = [m EXCEPT ![q] = @ + 1]
               /\ \/ dir[t] # None /\ m = mem_map /\ UNCHANGED <<dir, twice>>
                  \/ /\ dir[t] = None /\ Found(t) \in Pages /\ m = Marked(t) /\ Mark(t)
                     /\ dir' = [dir EXCEPT ![t] = Found(t)]
  <2>1. \A x : ShareWith(t, u, x) => /\ table' = [table EXCEPT ![u][a] = e, ![t][a] = e]
                                     /\ mem_map' = [x EXCEPT ![q] = @ + 1]
    BY <1>3, <1>5, <1>6 DEF ShareWith
  <2>2. CASE dir[t] # None /\ ShareWith(t, u, mem_map) /\ UNCHANGED <<dir, twice>>
    BY <2>1, <2>2
  <2>3. CASE /\ dir[t] = None /\ Found(t) \in Pages /\ ShareWith(t, u, Marked(t)) /\ Mark(t)
             /\ dir' = [dir EXCEPT ![t] = Found(t)]
    BY <2>1, <2>3
  <2>4. QED
    BY <1>3, <1>4, <2>2, <2>3 DEF Share
<1>8. /\ twice' \in BOOLEAN
      /\ dir' \in [Tasks -> MaybePage] /\ dir'[t] # None
      /\ \A v \in Tasks : v # t => dir'[v] = dir[v]
      /\ \E h2 \in SUBSET Pages, k \in Owned :
           /\ InOrder(m, k, table, h2)
           /\ ~twice' => h2 = heap
           /\ \A v \in Tasks : /\ k[<<v, "struct">>] = struct[v]
                               /\ k[<<v, "dir">>] = dir'[v]
                               /\ k[<<v, "hand">>] = call[v].page
  BY <1>1, <1>2, <1>7, TableReady
<1>9. PICK h2 \in SUBSET Pages, k \in Owned :
           /\ InOrder(m, k, table, h2)
           /\ ~twice' => h2 = heap
           /\ \A v \in Tasks : /\ k[<<v, "struct">>] = struct[v]
                               /\ k[<<v, "dir">>] = dir'[v]
                               /\ k[<<v, "hand">>] = call[v].page
  BY <1>8
<1>10. PICK c : Lands(c) /\ call' = [call EXCEPT ![t] = c] /\ current' \in {t, None}
  BY <1>2, <1>3, BackIs
<1>11. InOrder(mem_map', k, table', h2)
  <2>1. t # u
    BY <1>4 DEF Sharers
  <2>2. InOrder([m EXCEPT ![q] = @ + 1], k, [table EXCEPT ![u][a] = e, ![t][a] = e], h2)
    BY <1>3, <1>5, <1>6, <1>9, <2>1, ShareEntry
  <2>3. QED
    BY <1>7, <2>2
<1>12. call'[t] = c /\ c \in Calls /\ call[t].page = None /\ c.page = None
  BY <1>2, <1>10, HandIs DEF MemoryInv, MemoryTypes, Lands
<1>13. \A v \in Tasks : /\ k[<<v, "struct">>] = struct[v]
                        /\ k[<<v, "dir">>] = dir'[v]
                        /\ k[<<v, "hand">>] = IF v = t THEN c.page ELSE call[v].page
  BY <1>9, <1>12
<1>14. Knows(t, h2)'
  BY <1>10, <1>12, LandedKnows
<1>15. \A v \in Tasks, b \in Addrs : v # t => table'[v][b].page = table[v][b].page
  BY <1>6, <1>7 DEF MemoryInv, MemoryTypes, Tables
<1>16. At(t, call[t].pc) /\ struct' = struct /\ zombie' = zombie /\ heap' = heap
  BY <1>2
<1>17. QED
  BY <1>1, <1>8, <1>9, <1>10, <1>11, <1>12, <1>13, <1>14, <1>15, <1>16, MemoryStepKeeps

\* un_wp_page() maps the copy.
LEMMA UnWpPageKeeps ==
    ASSUME MemoryInv, NEW t \in Tasks, UnWpPage(t)
    PROVE  MemoryInv'
<1>1. PICK h \in SUBSET Pages : Fits(h)
  BY DEF MemoryInv
<1>2. PICK p \in Pages : p = Found(t)
  BY DEF UnWpPage, Got
<1>3. /\ At(t, call[t].pc) /\ ~twice /\ call[t].pc = "un_wp" /\ Mark(t)
      /\ UNCHANGED <<struct, zombie, dir, heap>>
  BY DEF UnWpPage, Got, At
<1>4. PICK a \in Addrs, q \in Pages : call[t].addr = a /\ table[t][a].page = q
  <2>1. call[t].addr \in Addrs /\ table[t][call[t].addr].page # None
    BY <1>1, <1>3 DEF Fits, Knows
  <2>2. table[t][call[t].addr].page \in Pages
    BY <2>1, TaskTypes, NumbersAre DEF MemoryInv
  <2>3. QED
    BY <2>1, <2>2
<1>5. PICK m : m = Marked(t)
  OBVIOUS
<1>6. mem_map' = [m EXCEPT ![q] = @ - 1] /\ table' = [table EXCEPT ![t][a] = Entry(p)]
  BY <1>2, <1>4, <1>5 DEF UnWpPage, FreePage
<1>7. PICK c : Lands(c) /\ call' = [call EXCEPT ![t] = c] /\ current' \in {t, None}
  <2>1. CASE call[t].back = "user"
    <3>1. Lands(InUser)
      BY CallsAre DEF Lands
    <3>2. QED
      BY <2>1, <3>1 DEF UnWpPage, Leave
  <2>2. CASE call[t].back # "user"
    <3>1. Lands([InUser EXCEPT !.pc = "store", !.addr = a])
      BY CallsAre DEF Lands, Calls, Pcs
    <3>2. QED
      BY <1>4, <2>2, <3>1 DEF UnWpPage, Verified, ToStore
  <2>3. QED
    BY <2>1, <2>2
<1>8. PICK h2 \in SUBSET Pages : h2 = h \ {p}
  OBVIOUS
<1>9. call[t].page = None
  BY <1>3, HandIs
<1> DEFINE o == <<t, "hand">>
           k == [Kernel EXCEPT ![o] = p]
<1>10. o \in Owners /\ Kernel[o] = None /\ Kernel \in Owned
  BY <1>9, KernelIs DEF MemoryInv
<1>11. InOrder(m, k, table, h2) /\ (~twice' => h2 = heap)
  BY <1>1, <1>2, <1>3, <1>5, <1>8, <1>10, MarkPage
<1>12. k[o] = p /\ [k EXCEPT ![o] = None] = Kernel
  BY <1>10 DEF Owned
<1> HIDE DEF k, o
<1>13. InOrder(mem_map', Kernel, table', h2)
  <2> DEFINE m2 == [m EXCEPT ![q] = @ - 1]
  <2>1. \A r \in Pages : m[r] \in Nat
    BY <1>11 DEF InOrder
  <2>2. m2 \in [Pages -> Int] /\ \A r \in Pages : m2[r] = IF r = q THEN m[r] - 1 ELSE m[r]
    BY <1>11, <2>1 DEF InOrder
  <2> HIDE DEF m2
  <2>3. q = table[t][a].page
    BY <1>4
  <2>4. InOrder(m2, [k EXCEPT ![o] = None], [table EXCEPT ![t][a] = Entry(p)], h2)
    <3>1. InOrder(m, k, table, h2) /\ o \in Owners /\ k[o] = p
      BY <1>10, <1>11, <1>12
    <3>2. QED
      BY <2>2, <2>3, <3>1, PutEntry
  <2>5. QED
    BY <1>6, <1>12, <2>4 DEF m2
<1>14. call'[t] = c /\ c \in Calls
  BY <1>7 DEF MemoryInv, MemoryTypes, Lands
<1>15. \A u \in Tasks : /\ Kernel[<<u, "struct">>] = struct[u]
                        /\ Kernel[<<u, "dir">>] = dir'[u]
                        /\ Kernel[<<u, "hand">>] = IF u = t THEN c.page ELSE call[u].page
  BY <1>3, <1>7, <1>9, KernelIs DEF MemoryInv, Lands
<1>16. Knows(t, h2)'
  BY <1>7, <1>14, LandedKnows
<1>17. \A u \in Tasks, b \in Addrs : u # t => table'[u][b].page = table[u][b].page
  BY <1>6 DEF MemoryInv, MemoryTypes, Tables
<1>18. /\ twice' \in BOOLEAN
       /\ dir' \in [Tasks -> MaybePage] /\ dir'[t] # None /\ \A u \in Tasks : dir'[u] = dir[u]
  <2>1. dir[t] # None
    BY <1>4, NumbersAre DEF MemoryInv, Ended
  <2>2. QED
    BY <1>3, <2>1 DEF Mark, MemoryInv, MemoryTypes
<1>19. At(t, call[t].pc) /\ struct' = struct /\ zombie' = zombie /\ heap' = heap
  BY <1>3
<1>20. QED
  BY <1>1, <1>7, <1>10, <1>11, <1>13, <1>14, <1>15, <1>16, <1>17, <1>18, <1>19, MemoryStepKeeps

\* The page for the task_struct of a fork.
LEMMA ForkStructKeeps ==
    ASSUME MemoryInv, NEW t \in Tasks, ForkStruct(t)
    PROVE  MemoryInv'
<1>1. PICK h \in SUBSET Pages : Fits(h)
  BY DEF MemoryInv
<1>2. PICK p \in Pages : p = Found(t)
  BY DEF ForkStruct, Got
<1>3. /\ At(t, call[t].pc) /\ ~twice /\ call[t].pc = "fork" /\ Mark(t) /\ mem_map' = Marked(t)
      /\ UNCHANGED <<zombie, dir, table, heap>>
  BY DEF ForkStruct, Got, At
<1>4. \E d \in Tasks : struct[d] = None
  BY <1>1, <1>3 DEF Fits, Knows
<1>5. call[t].page = None /\ t \in Alive
  BY <1>3, HandIs DEF At
<1>6. PICK h2 \in SUBSET Pages : h2 = h \ {p}
  OBVIOUS
<1>7. CASE dir[t] = None
  <2>1. PICK s \in Tasks : /\ s = Slot /\ struct[s] = None /\ s # t /\ s \notin Alive
    BY <1>4, <1>5, SlotIs
  <2>2. struct' = [struct EXCEPT ![s] = p] /\ call' = [call EXCEPT ![t] = InUser] /\ current' = None
    BY <1>2, <1>7, <2>1 DEF ForkStruct, Leave
  <2> DEFINE o == <<s, "struct">>
             k == [Kernel EXCEPT ![o] = p]
  <2>3. o \in Owners /\ Kernel[o] = None /\ Kernel \in Owned
    BY <2>1, KernelIs DEF MemoryInv
  <2>4. InOrder(mem_map', k, table, h2) /\ (~twice' => h2 = heap)
    BY <1>1, <1>2, <1>3, <1>6, <2>3, MarkPage
  <2>5. k \in Owned
    BY <2>4 DEF InOrder
  <2>6. struct'[s] = p /\ \A u \in Tasks : u # s => struct'[u] = struct[u]
    BY <2>2 DEF MemoryInv, MemoryTypes
  <2>7. call'[t] = InUser /\ \A u \in Tasks : u # t => call'[u] = call[u]
    BY <2>2 DEF MemoryInv, MemoryTypes
  <2>8. \A u \in Tasks : /\ k[<<u, "struct">>] = struct'[u]
                         /\ k[<<u, "dir">>] = dir'[u]
                         /\ k[<<u, "hand">>] = call'[u].page
    BY <1>3, <1>5, <2>6, <2>7, CallsAre, KernelIs DEF MemoryInv, Owned
  <2> HIDE DEF k, o
  <2>9. MemoryTypes'
    <3>1. struct' \in [Tasks -> MaybePage] /\ call' \in [Tasks -> Calls]
      BY <2>2, CallsAre, NumbersAre DEF MemoryInv, MemoryTypes
    <3>2. QED
      BY <1>3, <2>2, <3>1 DEF MemoryInv, MemoryTypes, Mark, MaybeTask
  <2>10. Kernel' = k
    BY <2>5, <2>8, <2>9, KernelBecomes
  <2>11. Ended'
    <3>1. \A u \in Tasks : u \notin Alive' => u \notin Alive
      BY <1>3, <2>1, <2>6, NumbersAre DEF Alive
    <3>2. \A u \in Tasks : u \in zombie' => struct'[u] # None
      BY <1>3, <2>1, <2>6, NumbersAre DEF MemoryInv, Ended
    <3>3. \A u \in Tasks : u \notin Alive' => dir'[u] = None /\ call'[u] = InUser
      BY <1>3, <2>7, <3>1 DEF MemoryInv, Ended
    <3>4. \A u \in Tasks : dir'[u] = None => \A a \in Addrs : table'[u][a].page = None
      BY <1>3 DEF MemoryInv, Ended
    <3>5. QED
      BY <3>2, <3>3, <3>4 DEF Ended
  <2>12. Knows(t, h2)'
    BY <2>7, CallsAre, NumbersAre DEF Knows, Asleep
  <2>13. InOrder(mem_map', Kernel', table', h2) /\ (~twice' => h2 = heap')
    BY <1>3, <2>4, <2>10
  <2>14. current \in {t, None} /\ current' \in {t, None} /\ table' = table
    BY <1>3, <2>2 DEF At
  <2>15. QED
    BY <1>1, <2>7, <2>9, <2>11, <2>12, <2>13, <2>14, StepKeeps
<1>8. CASE dir[t] # None
  <2>1. PICK c : c = [InUser EXCEPT !.pc = "fork_table", !.page = p]
    OBVIOUS
  <2>2. c \in Calls /\ c.page = p /\ c.found = NotYet /\ c.pc = "fork_table"
    BY <2>1, CallsAre, NumbersAre DEF Calls, Pcs
  <2>3. call' = [call EXCEPT ![t] = c] /\ current' = t /\ struct' = struct
    BY <1>2, <1>8, <2>1 DEF ForkStruct, Going
  <2> DEFINE o == <<t, "hand">>
             k == [Kernel EXCEPT ![o] = p]
  <2>4. o \in Owners /\ Kernel[o] = None /\ Kernel \in Owned
    BY <1>5, KernelIs DEF MemoryInv
  <2>5. InOrder(mem_map', k, table', h2) /\ (~twice' => h2 = heap)
    BY <1>1, <1>2, <1>3, <1>6, <2>4, MarkPage
  <2>6. k \in Owned
    BY <2>5 DEF InOrder
  <2>7. \A u \in Tasks : /\ k[<<u, "struct">>] = struct[u]
                         /\ k[<<u, "dir">>] = dir'[u]
                         /\ k[<<u, "hand">>] = IF u = t THEN c.page ELSE call[u].page
    BY <1>3, <2>2, KernelIs DEF MemoryInv, Owned
  <2> HIDE DEF k, o
  <2>8. call'[t] = c
    BY <2>3 DEF MemoryInv, MemoryTypes
  <2>9. Knows(t, h2)'
    BY <1>4, <2>2, <2>3, <2>8, NumbersAre DEF Knows
  <2>10. /\ twice' \in BOOLEAN /\ dir' \in [Tasks -> MaybePage] /\ dir'[t] # None
         /\ \A u \in Tasks : dir'[u] = dir[u]
         /\ \A u \in Tasks, a \in Addrs : table'[u][a].page = table[u][a].page
    BY <1>3, <1>8 DEF MemoryInv, MemoryTypes, Mark
  <2>11. At(t, call[t].pc) /\ zombie' = zombie /\ heap' = heap
    BY <1>3
  <2>12. QED
    BY <1>1, <2>2, <2>3, <2>5, <2>6, <2>7, <2>9, <2>10, <2>11, MemoryStepKeeps
<1>9. QED
  BY <1>7, <1>8

\* copy_page_tables(): father and child share all pages, read-only.
LEMMA CopyPageTablesKeeps ==
    ASSUME MemoryInv, NEW t \in Tasks, CopyPageTables(t)
    PROVE  MemoryInv'
<1>1. PICK h \in SUBSET Pages : Fits(h)
  BY DEF MemoryInv
<1>2. PICK p \in Pages : p = Found(t)
  BY DEF CopyPageTables, Got
<1>3. /\ At(t, call[t].pc) /\ ~twice /\ call[t].pc = "fork_table" /\ Mark(t)
      /\ call' = [call EXCEPT ![t] = InUser] /\ current' = None
      /\ UNCHANGED <<zombie, heap>>
  BY DEF CopyPageTables, Got, At, Leave
<1>4. \E d \in Tasks : struct[d] = None
  BY <1>1, <1>3 DEF Fits, Knows
<1>5. PICK r \in Pages : r = call[t].page
  <2>1. call[t].page # None
    BY <1>3, HandIs
  <2>2. QED
    BY <2>1, TaskTypes, NumbersAre DEF MemoryInv
<1>6. t \in Alive
  BY <1>3 DEF At
<1>7. PICK s \in Tasks : /\ s = Slot /\ struct[s] = None /\ s # t /\ s \notin Alive
                         /\ dir[s] = None /\ call[s] = InUser
                         /\ \A a \in Addrs : table[s][a].page = None
  BY <1>4, <1>6, SlotIs
<1>8. PICK h2 \in SUBSET Pages : h2 = h \ {p}
  OBVIOUS
<1>9. PICK m : m = Marked(t)
  OBVIOUS
<1>10. PICK row : row = [a \in Addrs |-> [table[t][a] EXCEPT !.rw = FALSE]]
  OBVIOUS
<1>11. /\ mem_map' = [q \in Pages |-> m[q] + UsesIn(table, t, q)]
       /\ table' = [table EXCEPT ![t] = row, ![s] = row]
       /\ struct' = [struct EXCEPT ![s] = r]
       /\ dir' = [dir EXCEPT ![s] = p]
  BY <1>2, <1>5, <1>7, <1>9, <1>10 DEF CopyPageTables, Uses, UsesIn
<1> DEFINE x == <<t, "hand">>
           y == <<s, "struct">>
           o == <<s, "dir">>
           k == [Kernel EXCEPT ![o] = p]
           k2 == [k EXCEPT ![x] = None, ![y] = k[x]]
<1>12. /\ x \in Owners /\ y \in Owners /\ o \in Owners /\ x # y /\ x # o /\ y # o
       /\ Kernel[x] = r /\ Kernel[y] = None /\ Kernel[o] = None /\ Kernel \in Owned
  BY <1>5, <1>7, KernelIs DEF MemoryInv
<1>13. InOrder(m, k, table, h2) /\ (~twice' => h2 = heap)
  BY <1>1, <1>2, <1>3, <1>8, <1>9, <1>12, MarkPage
<1>14. k[x] = r /\ k[y] = None /\ k \in Owned
  BY <1>12, <1>13 DEF Owned, InOrder
<1>15. InOrder(m, k2, table, h2)
  <2> HIDE DEF k, x, y
  <2>1. QED
    BY <1>12, <1>13, <1>14, MovePage
<1>16. k2 \in Owned
  BY <1>15 DEF InOrder
<1>17. InOrder(mem_map', k2, table', h2)
  <2> HIDE DEF k2
  <2>1. InOrder([q \in Pages |-> m[q] + UsesIn(table, t, q)], k2, [table EXCEPT ![t] = row, ![s] = row], h2)
    <3>1. \A a \in Addrs : table[s][a].page = None
      BY <1>7
    <3>2. QED
      BY <1>10, <1>15, <3>1, CopyRow
  <2>2. QED
    BY <1>11, <2>1
<1>18. /\ struct'[s] = r /\ \A u \in Tasks : u # s => struct'[u] = struct[u]
       /\ dir'[s] = p /\ \A u \in Tasks : u # s => dir'[u] = dir[u]
  BY <1>11 DEF MemoryInv, MemoryTypes
<1>19. call'[t] = InUser /\ \A u \in Tasks : u # t => call'[u] = call[u]
  BY <1>3 DEF MemoryInv, MemoryTypes
<1>20. \A u \in Tasks : u # t /\ u # s => table'[u] = table[u]
  BY <1>11 DEF MemoryInv, MemoryTypes, Tables
<1>21. MemoryTypes'
  <2>1. struct' \in [Tasks -> MaybePage] /\ dir' \in [Tasks -> MaybePage] /\ call' \in [Tasks -> Calls]
    BY <1>3, <1>11, CallsAre, NumbersAre DEF MemoryInv, MemoryTypes
  <2>2. table' \in Tables
    BY <1>17 DEF InOrder
  <2>3. QED
    BY <1>3, <2>1, <2>2 DEF MemoryInv, MemoryTypes, Mark, MaybeTask
<1>22. \A u \in Tasks : /\ k2[<<u, "struct">>] = struct'[u]
                        /\ k2[<<u, "dir">>] = dir'[u]
                        /\ k2[<<u, "hand">>] = call'[u].page
  <2>1. /\ k2[x] = None /\ k2[y] = r /\ k2[o] = p
        /\ \A z \in Owners : z \notin {x, y, o} => k2[z] = Kernel[z]
    BY <1>12, <1>14 DEF Owned
  <2> HIDE DEF k2, k
  <2>2. QED
    BY <1>12, <1>18, <1>19, <2>1, CallsAre, KernelIs DEF MemoryInv
<1>23. Kernel' = k2
  BY <1>16, <1>21, <1>22, KernelBecomes
<1> HIDE DEF k, k2, x, y, o
<1>24. Ended'
  <2>1. \A u \in Tasks : u \notin Alive' => u \notin Alive
    BY <1>3, <1>7, <1>18, NumbersAre DEF Alive
  <2>2. \A u \in Tasks : u \in zombie' => struct'[u] # None
    BY <1>3, <1>7, <1>18, NumbersAre DEF MemoryInv, Ended
  <2>3. s \in Alive'
    BY <1>3, <1>7, <1>18, NumbersAre DEF Alive, MemoryInv, Ended
  <2>4. \A u \in Tasks : u \notin Alive' => dir'[u] = None /\ call'[u] = InUser
    BY <1>18, <1>19, <2>1, <2>3 DEF MemoryInv, Ended
  <2>5. \A u \in Tasks : dir'[u] = None => \A a \in Addrs : table'[u][a].page = None
    <3>1. CASE dir[t] = None
      <4>1. \A a \in Addrs : table[t][a].page = None /\ table[t][a] \in Entries
        BY <3>1, TaskTypes DEF MemoryInv, Ended
      <4>2. \A a \in Addrs : row[a] = [table[t][a] EXCEPT !.rw = FALSE]
        BY <1>10
      <4>3. \A a \in Addrs : row[a].page = None
        BY <4>1, <4>2 DEF Entries
      <4>4. table'[t] = row
        BY <1>11 DEF MemoryInv, MemoryTypes, Tables
      <4>5. QED
        BY <1>18, <1>20, <4>3, <4>4, NumbersAre DEF MemoryInv, Ended
    <3>2. CASE dir[t] # None
      BY <1>7, <1>18, <1>20, <3>2, NumbersAre DEF MemoryInv, Ended
    <3>3. QED
      BY <3>1, <3>2
  <2>6. QED
    BY <2>2, <2>4, <2>5 DEF Ended
<1>25. Knows(t, h2)'
  BY <1>19, CallsAre, NumbersAre DEF Knows, Asleep
<1>26. InOrder(mem_map', Kernel', table', h2) /\ (~twice' => h2 = heap')
  BY <1>3, <1>13, <1>17, <1>23
<1>27. current \in {t, None} /\ current' \in {t, None}
  BY <1>3 DEF At
<1>28. \A u \in Tasks : u # t =>
         /\ call'[u] = call[u]
         /\ call[u] = InUser \/ \A a \in Addrs : table'[u][a].page = table[u][a].page
  BY <1>7, <1>19, <1>20
<1>29. QED
  BY <1>1, <1>21, <1>24, <1>25, <1>26, <1>27, <1>28, StepKeeps

-----------------------------------------------------------------------------
(* The invariant holds. *)

\* The start: one task, and nothing shared.
LEMMA InitFits == Init => MemoryInv
<1> SUFFICES ASSUME Init PROVE MemoryInv
  OBVIOUS
<1>1. NPages \in Pages /\ 1 \in Tasks
  BY NumbersAssumption DEF Pages, Tasks
<1>2. Absent \in Entries /\ Absent.page = None /\ Absent.rw = FALSE
  BY NumbersAre DEF Absent, Entries
<1>3. /\ \A t \in Tasks : dir[t] = None /\ call[t] = InUser
      /\ \A t \in Tasks : struct[t] = IF t = 1 THEN NPages ELSE None
      /\ \A t \in Tasks, a \in Addrs : table[t][a] = Absent
      /\ \A p \in Pages : mem_map[p] = IF p = NPages THEN 1 ELSE 0
  BY DEF Init
<1>4. table \in Tables /\ mem_map \in [Pages -> Nat]
  BY <1>2 DEF Init, Tables
<1>5. MemoryTypes
  BY <1>1, <1>4, CallsAre, NumbersAre DEF Init, MemoryTypes, MaybeTask
<1>6. Ended
  BY <1>1, <1>2, <1>3, NumbersAre DEF Init, Ended, Alive
<1>7. \A x \in Owners : Kernel[x] = IF x = <<1, "struct">> THEN NPages ELSE None
  <2> SUFFICES ASSUME NEW x \in Owners
               PROVE  Kernel[x] = IF x = <<1, "struct">> THEN NPages ELSE None
    OBVIOUS
  <2>1. PICK t \in Tasks : x \in {<<t, "struct">>, <<t, "dir">>, <<t, "hand">>}
    BY OwnerIs
  <2>2. CASE x = <<t, "struct">>
    BY <1>3, <1>5, <2>2, KernelIs
  <2>3. CASE x = <<t, "dir">>
    BY <1>3, <1>5, <2>3, KernelIs
  <2>4. CASE x = <<t, "hand">>
    BY <1>3, <1>5, <2>4, KernelIs, CallsAre
  <2>5. QED
    BY <2>1, <2>2, <2>3, <2>4
<1>8. <<1, "struct">> \in Owners /\ Kernel \in Owned
  BY <1>1, <1>5, KernelIs
<1>9. \A p \in Pages : UsersOf(table, p) = {} /\ (InKernel(Kernel, {}, p) <=> p = NPages)
  BY <1>1, <1>2, <1>3, <1>7, <1>8, NumbersAre DEF UsersOf, InKernel
<1>10. Counted(mem_map, Kernel, table, {})
  BY <1>3, <1>9, FS_EmptySet DEF Counted
<1>11. Once(Kernel, {}) /\ OneAddress(table) /\ WriterAlone(table)
  BY <1>2, <1>3, <1>7 DEF Once, OneAddress, WriterAlone
<1>12. InOrder(mem_map, Kernel, table, {})
  BY <1>4, <1>8, <1>10, <1>11 DEF InOrder
<1>13. \A t \in Tasks : Knows(t, {})
  BY <1>3, CallsAre, NumbersAre DEF Knows, Asleep
<1>14. Fits({})
  BY <1>12, <1>13 DEF Fits, Init
<1>15. QED
  BY <1>5, <1>6, <1>14 DEF MemoryInv

\* Every step keeps the pages in order.
LEMMA NextFits == MemoryInv /\ [Next]_vars => MemoryInv'
<1> SUFFICES ASSUME MemoryInv, [Next]_vars PROVE MemoryInv'
  OBVIOUS
<1>1. ASSUME NEW t \in Tasks, TaskStep(t) PROVE MemoryInv'
  BY <1>1, ScanKeeps, ForkKeeps, ForkStructKeeps, CopyPageTablesKeeps, ForkFailsKeeps, ExitKeeps,
     ReleaseKeeps, ExecKeeps, ShareKeeps, PageGotKeeps, PutPageKeeps, OutOfMemoryKeeps,
     UnWpPageKeeps, StoreFaultsKeeps, KernelStoreKeeps DEF TaskStep
<1>2. ASSUME NEW t \in Tasks, NEW a \in Addrs, AccessStep(t, a) PROVE MemoryInv'
  BY <1>2, NoPageKeeps, WpPageKeeps, WpPageAloneKeeps, UserStoreKeeps, VerifyKeeps DEF AccessStep
<1>3. CASE Malloc
  BY <1>3, MallocKeeps
<1>4. CASE UNCHANGED vars
  <2>1. Kernel' = Kernel
    BY <1>4 DEF vars, Kernel
  <2>2. MemoryTypes' /\ Ended'
    BY <1>4 DEF vars, MemoryInv, MemoryTypes, Ended, Alive
  <2>3. PICK h \in SUBSET Pages : Fits(h)
    BY DEF MemoryInv
  <2>4. ASSUME NEW t \in Tasks PROVE Knows(t, h)'
    <3>1. Knows(t, h)
      BY <2>3 DEF Fits
    <3>2. call[t].found \in Pages => Unused(call[t].found, h)'
      BY <1>4, <2>1, <3>1 DEF Knows, Unused, vars
    <3>3. Sharers(t, call[t].addr)' = Sharers(t, call[t].addr)
      BY <1>4 DEF Sharers, Alive, vars
    <3>4. QED
      BY <1>4, <3>1, <3>2, <3>3 DEF Knows, vars
  <2>5. Fits(h)'
    BY <1>4, <2>1, <2>3, <2>4 DEF Fits, vars
  <2>6. QED
    BY <2>2, <2>5 DEF MemoryInv
<1>5. QED
  BY <1>1, <1>2, <1>3, <1>4 DEF Next

\* The invariant of the memory manager: the pages are in order, and every call knows where it is.
THEOREM MemoryInvariant == Spec => []MemoryInv
  BY InitFits, NextFits, PTL DEF Spec

-----------------------------------------------------------------------------
(* The properties. *)

\* The entries for a page are as many as its users.
LEMMA EntriesAre ==
    ASSUME OneAddress(table), NEW p \in Pages
    PROVE  Cardinality({ta \in Tasks \X Addrs : table[ta[1]][ta[2]].page = p})
             = Cardinality(UsersOf(table, p))
<1> DEFINE S == UsersOf(table, p)
           T == {ta \in Tasks \X Addrs : table[ta[1]][ta[2]].page = p}
<1>1. CASE S = {}
  <2>1. T = {}
    BY <1>1 DEF UsersOf
  <2>2. QED
    BY <1>1, <2>1
<1>2. CASE S # {}
  <2>1. PICK u \in Tasks, a \in Addrs : table[u][a].page = p
    BY <1>2 DEF UsersOf
  <2>2. \A t \in Tasks, b \in Addrs : table[t][b].page = p => b = a
    BY <2>1, NumbersAre DEF OneAddress
  <2> DEFINE f == [t \in S |-> <<t, a>>]
  <2>3. \A t \in S : t \in Tasks /\ table[t][a].page = p
    BY <2>2 DEF UsersOf
  <2>4. \A ta \in T : ta = <<ta[1], a>> /\ ta[1] \in S
    BY <2>2 DEF UsersOf
  <2>5. f \in [S -> T]
    BY <2>3
  <2>6. \A t, v \in S : f[t] = f[v] => t = v
    OBVIOUS
  <2>7. \A ta \in T : \E t \in S : f[t] = ta
    BY <2>4
  <2> HIDE DEF f, S, T
  <2>8. f \in Bijection(S, T)
    BY <2>5, <2>6, <2>7 DEF Bijection, Injection, Surjection, IsInjective
  <2>9. IsFiniteSet(S) /\ ExistsBijection(S, T)
    BY <2>8, UsersFinite DEF ExistsBijection, S
  <2>10. Cardinality(T) = Cardinality(S)
    BY <2>9, FS_Bijection
  <2>11. QED
    BY <2>10 DEF S, T
<1>3. QED
  BY <1>1, <1>2

\* As long as no page is given out twice, mem_map counts the uses of a page.
LEMMA RefsAre ==
    ASSUME MemoryInv, ~twice, NEW p \in Pages
    PROVE  /\ mem_map[p] = Refs(p) /\ mem_map[p] \in 0 .. NTasks
           /\ UsersOf(table, p) # {} => Refs(p) = Cardinality(UsersOf(table, p))
<1> DEFINE S1 == {t \in Tasks : struct[t] = p}
           S2 == {t \in Tasks : dir[t] = p}
           S3 == {ta \in Tasks \X Addrs : table[ta[1]][ta[2]].page = p}
           S4 == {t \in Tasks : call[t].page = p}
           U  == UsersOf(table, p)
<1>1. InOrder(mem_map, Kernel, table, heap)
  BY DEF MemoryInv, Fits
<1>2. /\ InKernel(Kernel, heap, p) => mem_map[p] = 1 /\ U = {}
      /\ ~InKernel(Kernel, heap, p) => mem_map[p] = Cardinality(U)
  BY <1>1 DEF InOrder, Counted
<1>3. Cardinality(S3) = Cardinality(U) /\ Cardinality(U) \in 0 .. NTasks
  BY <1>1, EntriesAre, UsersFinite DEF InOrder
<1>4. \A t \in Tasks : /\ <<t, "struct">> \in Owners /\ Kernel[<<t, "struct">>] = struct[t]
                       /\ <<t, "dir">> \in Owners /\ Kernel[<<t, "dir">>] = dir[t]
                       /\ <<t, "hand">> \in Owners /\ Kernel[<<t, "hand">>] = call[t].page
  BY KernelIs DEF MemoryInv
<1>5. Refs(p) = Cardinality(S1) + Cardinality(S2) + Cardinality(S3) + Cardinality(S4)
                + (IF p \in heap THEN 1 ELSE 0)
  BY DEF Refs
<1>6. Once(Kernel, heap) /\ NTasks \in Nat \ {0} /\ p # None
  BY <1>1, NumbersAre, NumbersAssumption DEF InOrder
<1>7. CASE \E x \in Owners : Kernel[x] = p
  <2>1. PICK x \in Owners : Kernel[x] = p
    BY <1>7
  <2>2. PICK t \in Tasks : x \in {<<t, "struct">>, <<t, "dir">>, <<t, "hand">>}
    BY OwnerIs
  <2>3. \A y \in Owners : Kernel[y] = p => y = x
    BY <1>6, <2>1 DEF Once
  <2>4. p \notin heap /\ InKernel(Kernel, heap, p)
    BY <1>6, <2>1 DEF Once, InKernel
  <2>5. ASSUME x = <<t, "struct">> PROVE Cardinality(S1) + Cardinality(S2) + Cardinality(S4) = 1
    <3>1. S1 = {t} /\ S2 = {} /\ S4 = {}
      BY <1>4, <2>1, <2>3, <2>5
    <3> HIDE DEF S1, S2, S4
    <3>2. Cardinality(S1) = 1 /\ Cardinality(S2) = 0 /\ Cardinality(S4) = 0
      BY <3>1, FS_EmptySet, FS_Singleton
    <3>3. QED
      BY <3>2
  <2>6. ASSUME x = <<t, "dir">> PROVE Cardinality(S1) + Cardinality(S2) + Cardinality(S4) = 1
    <3>1. S1 = {} /\ S2 = {t} /\ S4 = {}
      BY <1>4, <2>1, <2>3, <2>6
    <3> HIDE DEF S1, S2, S4
    <3>2. Cardinality(S1) = 0 /\ Cardinality(S2) = 1 /\ Cardinality(S4) = 0
      BY <3>1, FS_EmptySet, FS_Singleton
    <3>3. QED
      BY <3>2
  <2>7. ASSUME x = <<t, "hand">> PROVE Cardinality(S1) + Cardinality(S2) + Cardinality(S4) = 1
    <3>1. S1 = {} /\ S2 = {} /\ S4 = {t}
      BY <1>4, <2>1, <2>3, <2>7
    <3> HIDE DEF S1, S2, S4
    <3>2. Cardinality(S1) = 0 /\ Cardinality(S2) = 0 /\ Cardinality(S4) = 1
      BY <3>1, FS_EmptySet, FS_Singleton
    <3>3. QED
      BY <3>2
  <2>8. Cardinality(S1) + Cardinality(S2) + Cardinality(S4) = 1
    BY <2>2, <2>5, <2>6, <2>7
  <2> HIDE DEF S1, S2, S3, S4, U
  <2>9. Cardinality(S3) = 0
    BY <1>2, <1>3, <2>4, FS_EmptySet
  <2>10. Cardinality(S1) \in Nat /\ Cardinality(S2) \in Nat /\ Cardinality(S4) \in Nat
    <3>1. IsFiniteSet(Tasks)
      BY <1>6, FS_Interval DEF Tasks
    <3>2. IsFiniteSet(S1) /\ IsFiniteSet(S2) /\ IsFiniteSet(S4)
      BY <3>1, FS_Subset DEF S1, S2, S4
    <3>3. QED
      BY <3>2, FS_CardinalityType
  <2>11. QED
    BY <1>2, <1>5, <1>6, <2>4, <2>8, <2>9, <2>10 DEF U
<1>8. CASE ~\E x \in Owners : Kernel[x] = p
  <2>1. S1 = {} /\ S2 = {} /\ S4 = {}
    BY <1>4, <1>8
  <2>2. InKernel(Kernel, heap, p) <=> p \in heap
    BY <1>8 DEF InKernel
  <2> HIDE DEF S1, S2, S3, S4, U
  <2>3. Cardinality(S1) = 0 /\ Cardinality(S2) = 0 /\ Cardinality(S4) = 0
    BY <2>1, FS_EmptySet
  <2>4. U = {} => Cardinality(U) = 0
    BY FS_EmptySet
  <2>5. QED
    BY <1>2, <1>3, <1>5, <1>6, <2>2, <2>3, <2>4 DEF U
<1>9. QED
  BY <1>7, <1>8

\* The memory at every step of every call and fault: the types, and mem_map counts the uses of
\* every page, however the call fails.
THEOREM CountsAreRight == Spec => []PagesConsistent
<1>1. MemoryInv => PagesConsistent
  <2> SUFFICES ASSUME MemoryInv PROVE PagesConsistent
    OBVIOUS
  <2>1. CountsAreUses
    BY RefsAre DEF CountsAreUses
  <2>2. mem_map \in [Pages -> 0 .. NTasks]
    <3>1. PICK h \in SUBSET Pages : InOrder(mem_map, Kernel, table, h)
      BY DEF MemoryInv, Fits
    <3>2. \A p \in Pages : mem_map[p] \in 0 .. NTasks
      BY <3>1, UsersFinite, NumbersAssumption DEF InOrder, Counted
    <3>3. QED
      BY <3>1, <3>2 DEF InOrder
  <2>3. TypeOK
    BY <2>2 DEF TypeOK, MemoryInv, MemoryTypes, MaybePage, MaybeTask, Tables, Entries, Calls, Founds
  <2>4. QED
    BY <2>1, <2>3 DEF PagesConsistent
<1>2. QED
  BY <1>1, MemoryInvariant, PTL

\* Copy on write: a page that a task may write to is used by nobody else.
THEOREM WritersAreAlone == Spec => []WritableIsPrivate
<1>1. MemoryInv => WritableIsPrivate
  <2> SUFFICES ASSUME MemoryInv, ~twice, NEW t \in Tasks, NEW a \in Addrs, table[t][a].rw
               PROVE  Refs(table[t][a].page) = 1
    BY DEF WritableIsPrivate
  <2>1. table[t][a] \in Entries /\ table[t][a].page \in MaybePage
    BY TaskTypes DEF MemoryInv
  <2>2. table[t][a].rw = TRUE
    BY <2>1 DEF Entries
  <2>3. WriterAlone(table)
    BY DEF MemoryInv, Fits, InOrder
  <2>4. PICK p \in Pages : /\ p = table[t][a].page
                           /\ \A u \in Tasks, b \in Addrs : table[u][b].page = p => u = t
    BY <2>1, <2>2, <2>3, NumbersAre DEF WriterAlone
  <2>5. UsersOf(table, p) = {t}
    BY <2>4 DEF UsersOf
  <2>6. Refs(p) = Cardinality({t})
    BY <2>5, RefsAre
  <2>7. Cardinality({t}) = 1
    BY FS_Singleton
  <2>8. QED
    BY <2>4, <2>6, <2>7
<1>2. QED
  BY <1>1, MemoryInvariant, PTL

==============================================================================
