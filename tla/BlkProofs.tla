------------------------------ MODULE BlkProofs ------------------------------
(***************************************************************************)
(* Proofs about Blk, for any tasks and blocks, any number of requests, and *)
(* whatever errors the disk reports.                                       *)
(***************************************************************************)
EXTENDS Blk, FiniteSetTheorems, SequenceTheorems, WellFoundedInduction, NaturalsInduction, TLAPS

Buffers == [Blocks -> [lock : BOOLEAN, dirt : BOOLEAN, uptodate : BOOLEAN]]
Calls   == [pc : Pcs, rw : Cmds, ahead : BOOLEAN, b : Blocks]

\* The order of the list, which turns at most once.
Turns(q, i) == ~IN_ORDER(q[i], q[i + 1])
TurnsOnce(q) == \A i, j \in 1 .. Len(q) - 1 : Turns(q, i) /\ Turns(q, j) => i = j

\* Requests have a slot and a block each, and only the first has been tried.
Sound(q) ==
    /\ q \in Seq(Requests)
    /\ \A i, j \in 1 .. Len(q) : i # j => q[i].slot # q[j].slot /\ q[i].b # q[j].b
    /\ \A i \in 1 .. Len(q) : q[i].errors < MAX_ERRORS /\ (i > 1 => q[i].nr_sectors = 2)
    /\ TurnsOnce(q)

\* p is q without its first n requests; q with its first one changed; q with r after the p first.
IsRest(q, n, p)     == p \in Seq(Requests) /\ Len(p) = Len(q) - n /\ \A i \in 1 .. Len(p) : p[i] = q[i + n]
IsRetry(q, r, p)    == /\ p \in Seq(Requests) /\ Len(p) = Len(q) /\ p[1] = r
                       /\ \A i \in 1 .. Len(p) : i # 1 => p[i] = q[i]
IsLonger(q, at, r, p) == /\ p \in Seq(Requests) /\ Len(p) = Len(q) + 1 /\ p[at + 1] = r
                         /\ \A i \in 1 .. at : p[i] = q[i]
                         /\ \A i \in at + 1 .. Len(q) : p[i + 1] = q[i]

-----------------------------------------------------------------------------
(* The list. *)

\* A set of numbers that is not empty has a least element.
LEMMA LeastOf ==
    ASSUME NEW T, T \subseteq Nat, T # {}
    PROVE  \E x \in T : \A y \in T : x <= y
<1> DEFINE R == OpToRel(<, Nat)
<1>1. IsWellFoundedOn(R, Nat)
  BY NatLessThanWellFounded
<1>2. PICK x \in T : \A y \in T : ~(<<y, x>> \in R)
  BY <1>1, WFMin
<1>3. \A y \in T : ~(y < x)
  BY <1>2 DEF OpToRel
<1>4. \A y \in T : x <= y
  BY <1>3
<1>5. QED
  BY <1>4

\* The order of two requests for different blocks does not depend on their second sectors.
LEMMA OrderByBlock ==
    ASSUME NEW r \in Requests, NEW s \in Requests, r.b # s.b
    PROVE  /\ IN_ORDER(r, s) <=> (r.cmd = "READ" /\ s.cmd = "WRITE") \/ (r.cmd = s.cmd /\ r.b < s.b)
           /\ ~IN_ORDER(r, s) => IN_ORDER(s, r)
<1>1. r.b \in Nat /\ s.b \in Nat /\ r.nr_sectors \in 1 .. 2 /\ s.nr_sectors \in 1 .. 2
  BY BlocksAssumption DEF Requests
<1>2. sector(r) < sector(s) <=> r.b < s.b
  BY <1>1 DEF sector
<1>3. sector(s) < sector(r) <=> s.b < r.b
  BY <1>1 DEF sector
<1>4. r.cmd \in {"READ", "WRITE"} /\ s.cmd \in {"READ", "WRITE"}
  BY DEF Requests, Cmds
<1>5. QED
  BY <1>1, <1>2, <1>3, <1>4 DEF IN_ORDER

\* What is left of the list.
LEMMA RestIsSound ==
    ASSUME NEW q, Sound(q), NEW n \in 0 .. Len(q), NEW p, IsRest(q, n, p)
    PROVE  Sound(p)
<1>1. q \in Seq(Requests) /\ Len(q) \in Nat /\ p \in Seq(Requests) /\ Len(p) = Len(q) - n
  BY LenProperties DEF Sound, IsRest
<1>2. \A i \in 1 .. Len(p) : p[i] = q[i + n] /\ i + n \in 1 .. Len(q)
  BY <1>1 DEF IsRest
<1>3. \A i, j \in 1 .. Len(p) : i # j => p[i].slot # p[j].slot /\ p[i].b # p[j].b
  <2> SUFFICES ASSUME NEW i \in 1 .. Len(p), NEW j \in 1 .. Len(p), i # j
               PROVE  p[i].slot # p[j].slot /\ p[i].b # p[j].b
    OBVIOUS
  <2>1. p[i] = q[i + n] /\ p[j] = q[j + n] /\ i + n \in 1 .. Len(q) /\ j + n \in 1 .. Len(q)
    BY <1>2
  <2>2. i + n # j + n
    BY <1>1
  <2>3. QED
    BY <2>1, <2>2 DEF Sound
<1>4. \A i \in 1 .. Len(p) : p[i].errors < MAX_ERRORS /\ (i > 1 => p[i].nr_sectors = 2)
  <2>1. \A i \in 1 .. Len(p) : i > 1 => i + n > 1
    BY <1>1
  <2>2. QED
    BY <1>2, <2>1 DEF Sound
<1>5. TurnsOnce(p)
  <2> SUFFICES ASSUME NEW i \in 1 .. Len(p) - 1, NEW j \in 1 .. Len(p) - 1, Turns(p, i), Turns(p, j)
               PROVE  i = j
    BY DEF TurnsOnce
  <2>1. ASSUME NEW k \in 1 .. Len(p) - 1, Turns(p, k) PROVE k + n \in 1 .. Len(q) - 1 /\ Turns(q, k + n)
    <3>1. k \in 1 .. Len(p) /\ k + 1 \in 1 .. Len(p) /\ k + n \in 1 .. Len(q) - 1 /\ (k + 1) + n = (k + n) + 1
      BY <1>1
    <3>2. p[k] = q[k + n] /\ p[k + 1] = q[(k + n) + 1]
      <4>1. p[k] = q[k + n] /\ p[k + 1] = q[(k + 1) + n]
        BY <1>2, <3>1
      <4>2. QED
        BY <3>1, <4>1
    <3>3. QED
      BY <2>1, <3>1, <3>2 DEF Turns
  <2>2. i + n = j + n
    BY <2>1 DEF Sound, TurnsOnce
  <2>3. QED
    BY <1>1, <2>2
<1>6. QED
  BY <1>1, <1>3, <1>4, <1>5 DEF Sound

\* The first request is tried again, or goes on with its second sector.
LEMMA RetryIsSound ==
    ASSUME NEW q, Sound(q), q # <<>>, NEW r \in Requests, r.slot = q[1].slot, r.b = q[1].b, r.cmd = q[1].cmd,
           r.errors < MAX_ERRORS, NEW p, IsRetry(q, r, p)
    PROVE  Sound(p)
<1>1. q \in Seq(Requests) /\ Len(q) \in Nat \ {0} /\ p \in Seq(Requests) /\ Len(p) = Len(q)
  BY LenProperties, EmptySeq DEF Sound, IsRetry
<1>2. \A i \in 1 .. Len(p) : p[i] = IF i = 1 THEN r ELSE q[i]
  BY DEF IsRetry
<1>3. \A i \in 1 .. Len(p) : p[i].slot = q[i].slot /\ p[i].b = q[i].b /\ p[i].cmd = q[i].cmd
  BY <1>2
<1>4. \A i, j \in 1 .. Len(p) : i # j => p[i].slot # p[j].slot /\ p[i].b # p[j].b
  BY <1>1, <1>3 DEF Sound
<1>5. \A i \in 1 .. Len(p) : p[i].errors < MAX_ERRORS /\ (i > 1 => p[i].nr_sectors = 2)
  BY <1>1, <1>2 DEF Sound
<1>6. TurnsOnce(p)
  <2>1. ASSUME NEW k \in 1 .. Len(p) - 1 PROVE Turns(p, k) <=> Turns(q, k)
    <3>1. k \in 1 .. Len(q) /\ k + 1 \in 1 .. Len(q) /\ k # k + 1
      BY <1>1
    <3>2. q[k] \in Requests /\ q[k + 1] \in Requests /\ p[k] \in Requests /\ p[k + 1] \in Requests
      BY <1>1, <3>1, ElementOfSeq
    <3>3. q[k].b # q[k + 1].b /\ p[k].b # p[k + 1].b
      BY <1>1, <1>4, <3>1 DEF Sound
    <3>4. /\ p[k].b = q[k].b /\ p[k].cmd = q[k].cmd
          /\ p[k + 1].b = q[k + 1].b /\ p[k + 1].cmd = q[k + 1].cmd
      BY <1>1, <1>3, <3>1
    <3>5. IN_ORDER(p[k], p[k + 1]) <=> IN_ORDER(q[k], q[k + 1])
      BY <3>2, <3>3, <3>4, OrderByBlock
    <3>6. QED
      BY <3>5 DEF Turns
  <2>2. QED
    BY <1>1, <2>1 DEF TurnsOnce, Sound
<1>7. QED
  BY <1>1, <1>4, <1>5, <1>6 DEF Sound

\* Where add_request() puts a request: before one that comes after it, at the first place where that
\* makes no new turn, or at the end, if there is no such place.
LEMMA PlaceIs ==
    ASSUME NEW q, q \in Seq(Requests), q # <<>>, NEW r, NEW at, at = Place(q, r)
    PROVE  /\ at \in 1 .. Len(q)
           /\ \/ /\ at < Len(q)
                 /\ IN_ORDER(q[at], r) \/ Turns(q, at)
                 /\ IN_ORDER(r, q[at + 1])
              \/ /\ at = Len(q)
                 /\ \A i \in 1 .. Len(q) - 1 : ~((IN_ORDER(q[i], r) \/ Turns(q, i)) /\ IN_ORDER(r, q[i + 1]))
<1>1. Len(q) \in Nat \ {0}
  BY EmptySeq
<1>2. PICK before : before = {i \in 1 .. Len(q) - 1 : /\ IN_ORDER(q[i], r) \/ ~IN_ORDER(q[i], q[i + 1])
                                                     /\ IN_ORDER(r, q[i + 1])}
  OBVIOUS
<1>3. at = IF before = {} THEN Len(q) ELSE CHOOSE i \in before : \A j \in before : i <= j
  BY <1>2 DEF Place
<1>4. CASE before = {}
  <2>1. at = Len(q)
    BY <1>3, <1>4
  <2>2. \A i \in 1 .. Len(q) - 1 : ~((IN_ORDER(q[i], r) \/ Turns(q, i)) /\ IN_ORDER(r, q[i + 1]))
    BY <1>2, <1>4 DEF Turns
  <2>3. QED
    BY <1>1, <2>1, <2>2
<1>5. CASE before # {}
  <2>1. before \subseteq Nat
    BY <1>2
  <2>2. \E i \in before : \A j \in before : i <= j
    BY <1>5, <2>1, LeastOf
  <2>3. at \in before
    BY <1>3, <1>5, <2>2
  <2>4. QED
    BY <1>1, <1>2, <2>3 DEF Turns
<1>6. QED
  BY <1>4, <1>5

\* A list that turns somewhere and has no place for r is not asked to turn again at its end.
LEMMA NoThirdSweep ==
    ASSUME NEW q, Sound(q), NEW r \in Requests, \A i \in 1 .. Len(q) : q[i].b # r.b,
           \A i \in 1 .. Len(q) - 1 : ~((IN_ORDER(q[i], r) \/ Turns(q, i)) /\ IN_ORDER(r, q[i + 1])),
           NEW k \in 1 .. Len(q) - 1, Turns(q, k)
    PROVE  IN_ORDER(q[Len(q)], r)
<1> SUFFICES ASSUME ~IN_ORDER(q[Len(q)], r) PROVE FALSE
  OBVIOUS
<1>1. q \in Seq(Requests) /\ Len(q) \in Nat
  BY LenProperties DEF Sound
<1>2. \A i \in 1 .. Len(q) : q[i] \in Requests /\ (~IN_ORDER(q[i], r) => IN_ORDER(r, q[i]))
                                               /\ (~IN_ORDER(r, q[i]) => IN_ORDER(q[i], r))
  BY <1>1, ElementOfSeq, OrderByBlock
<1>3. IN_ORDER(r, q[Len(q)])
  BY <1>1, <1>2
<1>4. ~IN_ORDER(r, q[k + 1])
  OBVIOUS
<1>5. PICK T : T = {x \in k + 2 .. Len(q) : IN_ORDER(r, q[x])}
  OBVIOUS
<1>6. T \subseteq Nat /\ T # {}
  <2>1. k + 1 # Len(q)
    BY <1>3, <1>4
  <2>2. Len(q) \in T
    BY <1>1, <1>3, <1>5, <2>1
  <2>3. QED
    BY <1>1, <1>5, <2>2
<1>7. PICK x \in T : \A y \in T : x <= y
  BY <1>6, LeastOf
<1>8. x \in k + 2 .. Len(q) /\ IN_ORDER(r, q[x])
  BY <1>5
<1>9. PICK i \in 1 .. Len(q) - 1 : i = x - 1 /\ i + 1 = x
  BY <1>1, <1>8
<1>10. ~IN_ORDER(r, q[i])
  <2>1. CASE i = k + 1
    BY <1>4, <2>1
  <2>2. CASE i # k + 1
    <3>1. i \in k + 2 .. Len(q) /\ i < x
      BY <1>1, <1>8, <1>9, <2>2
    <3>2. i \notin T
      BY <1>6, <1>7, <3>1
    <3>3. QED
      BY <1>5, <3>1, <3>2
  <2>3. QED
    BY <2>1, <2>2
<1>11. IN_ORDER(q[i], r)
  BY <1>1, <1>2, <1>10
<1>12. QED
  BY <1>8, <1>9, <1>11

\* A new request in its place.
LEMMA LongerIsSound ==
    ASSUME NEW q, Sound(q), q # <<>>, NEW r \in Requests, r.errors = 0, r.nr_sectors = 2,
           \A i \in 1 .. Len(q) : q[i].b # r.b /\ q[i].slot # r.slot,
           NEW at, at = Place(q, r), NEW p, IsLonger(q, at, r, p)
    PROVE  Sound(p)
<1>1. q \in Seq(Requests) /\ Len(q) \in Nat \ {0} /\ p \in Seq(Requests) /\ Len(p) = Len(q) + 1
  BY EmptySeq DEF Sound, IsLonger
<1>2. /\ at \in 1 .. Len(q)
      /\ \/ /\ at < Len(q)
            /\ IN_ORDER(q[at], r) \/ Turns(q, at)
            /\ IN_ORDER(r, q[at + 1])
         \/ /\ at = Len(q)
            /\ \A i \in 1 .. Len(q) - 1 : ~((IN_ORDER(q[i], r) \/ Turns(q, i)) /\ IN_ORDER(r, q[i + 1]))
  BY <1>1, PlaceIs
<1>3. ASSUME NEW i \in 1 .. Len(p)
      PROVE  /\ i <= at => p[i] = q[i] /\ i \in 1 .. Len(q)
             /\ i = at + 1 => p[i] = r
             /\ i > at + 1 => p[i] = q[i - 1] /\ i - 1 \in 1 .. Len(q)
  <2>1. i <= at => i \in 1 .. at /\ i \in 1 .. Len(q)
    BY <1>1, <1>2
  <2>2. i > at + 1 => i - 1 \in at + 1 .. Len(q) /\ (i - 1) + 1 = i /\ i - 1 \in 1 .. Len(q)
    BY <1>1, <1>2
  <2>3. QED
    BY <2>1, <2>2 DEF IsLonger
<1>4. \A i, j \in 1 .. Len(p) : i # j => p[i].slot # p[j].slot /\ p[i].b # p[j].b
  <2> SUFFICES ASSUME NEW i \in 1 .. Len(p), NEW j \in 1 .. Len(p), i < j
               PROVE  p[i].slot # p[j].slot /\ p[i].b # p[j].b
    BY <1>1
  <2>1. CASE i = at + 1
    <3>1. p[i] = r /\ p[j] = q[j - 1] /\ j - 1 \in 1 .. Len(q)
      BY <1>2, <1>3, <2>1
    <3>2. QED
      BY <3>1
  <2>2. CASE j = at + 1
    <3>1. p[j] = r /\ p[i] = q[i] /\ i \in 1 .. Len(q)
      BY <1>1, <1>2, <1>3, <2>2
    <3>2. QED
      BY <3>1
  <2>3. CASE i <= at /\ j <= at
    <3>1. p[i] = q[i] /\ p[j] = q[j] /\ i \in 1 .. Len(q) /\ j \in 1 .. Len(q) /\ i # j
      BY <1>1, <1>3, <2>3
    <3>2. QED
      BY <3>1 DEF Sound
  <2>4. CASE i <= at /\ j > at + 1
    <3>1. p[i] = q[i] /\ p[j] = q[j - 1] /\ i \in 1 .. Len(q) /\ j - 1 \in 1 .. Len(q) /\ i # j - 1
      BY <1>1, <1>2, <1>3, <2>4
    <3>2. QED
      BY <3>1 DEF Sound
  <2>5. CASE i > at + 1 /\ j > at + 1
    <3>1. p[i] = q[i - 1] /\ p[j] = q[j - 1] /\ i - 1 \in 1 .. Len(q) /\ j - 1 \in 1 .. Len(q) /\ i - 1 # j - 1
      BY <1>1, <1>2, <1>3, <2>5
    <3>2. QED
      BY <3>1 DEF Sound
  <2>6. QED
    BY <1>1, <1>2, <2>1, <2>2, <2>3, <2>4, <2>5
<1>5. ASSUME NEW i \in 1 .. Len(p) PROVE p[i].errors < MAX_ERRORS /\ (i > 1 => p[i].nr_sectors = 2)
  <2>1. CASE i <= at
    BY <1>3, <2>1 DEF Sound
  <2>2. CASE i = at + 1
    BY <1>3, <2>2, NumbersAssumption
  <2>3. CASE i > at + 1
    <3>1. p[i] = q[i - 1] /\ i - 1 \in 1 .. Len(q) /\ i - 1 > 1
      BY <1>1, <1>2, <1>3, <2>3
    <3>2. QED
      BY <3>1 DEF Sound
  <2>4. QED
    BY <1>1, <1>2, <2>1, <2>2, <2>3
<1>6. ASSUME NEW k \in 1 .. Len(p) - 1
      PROVE  /\ k < at => k \in 1 .. Len(q) - 1 /\ (Turns(p, k) <=> Turns(q, k))
             /\ k = at => (Turns(p, k) <=> ~IN_ORDER(q[at], r))
             /\ k = at + 1 => (Turns(p, k) <=> ~IN_ORDER(r, q[at + 1]))
             /\ k > at + 1 => k - 1 \in 1 .. Len(q) - 1 /\ (Turns(p, k) <=> Turns(q, k - 1))
  <2>1. k \in 1 .. Len(p) /\ k + 1 \in 1 .. Len(p)
    BY <1>1
  <2>2. ASSUME k < at PROVE k \in 1 .. Len(q) - 1 /\ p[k] = q[k] /\ p[k + 1] = q[k + 1]
    <3>1. k <= at /\ k + 1 <= at /\ k \in 1 .. Len(q) - 1
      BY <1>1, <1>2, <2>2
    <3>2. QED
      BY <1>3, <2>1, <3>1
  <2>3. ASSUME k = at PROVE p[k] = q[at] /\ p[k + 1] = r
    BY <1>2, <1>3, <2>1, <2>3
  <2>4. ASSUME k = at + 1 PROVE p[k] = r /\ p[k + 1] = q[at + 1]
    <3>1. k + 1 > at + 1 /\ (k + 1) - 1 = at + 1
      BY <1>2, <2>4
    <3>2. QED
      BY <1>3, <2>1, <2>4, <3>1
  <2>5. ASSUME k > at + 1 PROVE k - 1 \in 1 .. Len(q) - 1 /\ p[k] = q[k - 1] /\ p[k + 1] = q[(k - 1) + 1]
    <3>1. k + 1 > at + 1 /\ (k + 1) - 1 = (k - 1) + 1 /\ k - 1 \in 1 .. Len(q) - 1
      BY <1>1, <1>2, <2>5
    <3>2. p[k + 1] = q[(k + 1) - 1] /\ p[k] = q[k - 1]
      BY <1>3, <2>1, <2>5, <3>1
    <3>3. QED
      BY <3>1, <3>2
  <2>6. QED
    BY <2>2, <2>3, <2>4, <2>5 DEF Turns
<1>7. ASSUME NEW i \in 1 .. Len(p) - 1, NEW j \in 1 .. Len(p) - 1, Turns(p, i), Turns(p, j), i < j
      PROVE  FALSE
  <2> USE <1>7
  <2>1. \A k, l \in 1 .. Len(q) - 1 : Turns(q, k) /\ Turns(q, l) => k = l
    BY DEF Sound, TurnsOnce
  <2>2. CASE at < Len(q) /\ (IN_ORDER(q[at], r) \/ Turns(q, at)) /\ IN_ORDER(r, q[at + 1])
    <3>1. at \in 1 .. Len(q) - 1
      BY <1>1, <1>2, <2>2
    <3>2. j # at + 1 /\ i # at + 1
      BY <1>6, <2>2
    <3>3. j > at + 1 => j - 1 \in 1 .. Len(q) - 1 /\ Turns(q, j - 1)
      BY <1>6
    <3>4. i > at + 1 => i - 1 \in 1 .. Len(q) - 1 /\ Turns(q, i - 1)
      BY <1>6
    <3>5. i <= at => i \in 1 .. Len(q) - 1 /\ Turns(q, i)
      BY <1>1, <1>2, <1>6, <2>2, <3>1
    <3>6. j <= at => j \in 1 .. Len(q) - 1 /\ Turns(q, j)
      BY <1>1, <1>2, <1>6, <2>2, <3>1
    <3>7. CASE i <= at /\ j <= at
      BY <1>1, <2>1, <3>5, <3>6, <3>7
    <3>8. CASE i <= at /\ j > at + 1
      <4>1. i = j - 1
        BY <2>1, <3>3, <3>5, <3>8
      <4>2. QED
        BY <1>1, <1>2, <3>8, <4>1
    <3>9. CASE i > at + 1 /\ j > at + 1
      <4>1. i - 1 = j - 1
        BY <2>1, <3>3, <3>4, <3>9
      <4>2. QED
        BY <1>1, <1>2, <4>1
    <3>10. QED
      BY <1>1, <1>2, <3>2, <3>7, <3>8, <3>9
  <2>3. CASE /\ at = Len(q)
             /\ \A k \in 1 .. Len(q) - 1 : ~((IN_ORDER(q[k], r) \/ Turns(q, k)) /\ IN_ORDER(r, q[k + 1]))
    <3>1. i < at /\ (j < at \/ j = at)
      BY <1>1, <2>3
    <3>2. i \in 1 .. Len(q) - 1 /\ Turns(q, i)
      BY <1>6, <3>1
    <3>3. CASE j < at
      BY <1>1, <1>6, <2>1, <3>2, <3>3
    <3>4. CASE j = at
      <4>1. ~IN_ORDER(q[at], r)
        BY <1>6, <3>4
      <4>2. IN_ORDER(q[Len(q)], r)
        BY <2>3, <3>2, NoThirdSweep
      <4>3. QED
        BY <2>3, <4>1, <4>2
    <3>5. QED
      BY <3>1, <3>3, <3>4
  <2>4. QED
    BY <1>2, <2>2, <2>3
<1>8. TurnsOnce(p)
  <2> SUFFICES ASSUME NEW i \in 1 .. Len(p) - 1, NEW j \in 1 .. Len(p) - 1, Turns(p, i), Turns(p, j)
               PROVE  i = j
    BY DEF TurnsOnce
  <2>1. i \in Nat /\ j \in Nat
    BY <1>1
  <2>2. ~(i < j) /\ ~(j < i)
    BY <1>7
  <2>3. QED
    BY <2>1, <2>2
<1>9. QED
  BY <1>1, <1>4, <1>5, <1>8 DEF Sound

-----------------------------------------------------------------------------
(* The requests and the locks. *)

\* c is a call that holds the buffer of b.
Waits(c, b) == c.b = b /\ c.pc \in {"full", "asleep", "repeat"}
Queued(q, b) == \E i \in 1 .. Len(q) : q[i].b = b
Held(tasks, b) == \E t \in Tasks : Waits(tasks[t], b)

\* A locked buffer has one request, or one task.
LocksOK(buffers, q, tasks) ==
    /\ \A b \in Blocks : buffers[b].lock <=> Queued(q, b) \/ Held(tasks, b)
    /\ \A b \in Blocks : ~(Queued(q, b) /\ Held(tasks, b))
    /\ \A t, u \in Tasks, b \in Blocks : Waits(tasks[t], b) /\ Waits(tasks[u], b) => t = u

\* buffers2 is buffers with those of the first n requests of q unlocked.
Unlocks(buffers, q, n, buffers2) ==
    /\ buffers2 \in Buffers
    /\ \A b \in Blocks : buffers2[b].lock <=> buffers[b].lock /\ ~ \E i \in 1 .. n : q[i].b = b

\* The first n requests are ended.
LEMMA LocksAfterEnd ==
    ASSUME NEW buffers, NEW q, NEW tasks, LocksOK(buffers, q, tasks), Sound(q), NEW n \in 0 .. Len(q),
           NEW p, IsRest(q, n, p), NEW buffers2, Unlocks(buffers, q, n, buffers2)
    PROVE  LocksOK(buffers2, p, tasks)
<1>1. q \in Seq(Requests) /\ Len(q) \in Nat /\ p \in Seq(Requests) /\ Len(p) = Len(q) - n
  BY LenProperties DEF Sound, IsRest
<1>2. ASSUME NEW b \in Blocks PROVE Queued(p, b) <=> Queued(q, b) /\ ~ \E i \in 1 .. n : q[i].b = b
  <2>1. ASSUME Queued(p, b) PROVE Queued(q, b) /\ ~ \E i \in 1 .. n : q[i].b = b
    <3>1. PICK i \in 1 .. Len(p) : p[i].b = b
      BY <2>1 DEF Queued
    <3>2. q[i + n].b = b /\ i + n \in 1 .. Len(q)
      BY <1>1, <3>1 DEF IsRest
    <3>3. ASSUME NEW j \in 1 .. n PROVE q[j].b # b
      <4>1. j \in 1 .. Len(q) /\ j # i + n
        BY <1>1
      <4>2. QED
        BY <3>2, <4>1 DEF Sound
    <3>4. QED
      BY <3>2, <3>3 DEF Queued
  <2>2. ASSUME Queued(q, b), ~ \E i \in 1 .. n : q[i].b = b PROVE Queued(p, b)
    <3>1. PICK i \in 1 .. Len(q) : q[i].b = b
      BY <2>2 DEF Queued
    <3>2. i - n \in 1 .. Len(p) /\ (i - n) + n = i
      BY <1>1, <2>2, <3>1
    <3>3. p[i - n] = q[i]
      BY <3>2 DEF IsRest
    <3>4. QED
      BY <3>1, <3>2, <3>3 DEF Queued
  <2>3. QED
    BY <2>1, <2>2
<1>3. ASSUME NEW b \in Blocks, \E i \in 1 .. n : q[i].b = b PROVE Queued(q, b)
  BY <1>1, <1>3 DEF Queued
<1>4. \A b \in Blocks : buffers2[b].lock <=> buffers[b].lock /\ ~ \E i \in 1 .. n : q[i].b = b
  BY DEF Unlocks
<1>5. QED
  BY <1>2, <1>3, <1>4 DEF LocksOK

\* The list that is left after its first request, or its first n.
LEMMA TailIsRest ==
    ASSUME NEW q \in Seq(Requests), q # <<>>
    PROVE  IsRest(q, 1, Tail(q)) /\ Head(q) = q[1] /\ q[1] \in Requests /\ Len(q) \in Nat \ {0}
<1>1. Len(q) \in Nat \ {0}
  BY EmptySeq
<1>2. q[1] \in Requests
  BY <1>1, ElementOfSeq
<1>3. QED
  BY <1>1, <1>2, HeadTailProperties DEF IsRest

LEMMA SubSeqIsRest ==
    ASSUME NEW q \in Seq(Requests), NEW n \in 0 .. Len(q)
    PROVE  IsRest(q, n, SubSeq(q, n + 1, Len(q)))
<1>1. Len(q) \in Nat
  BY LenProperties
<1>2. \A i \in n + 1 .. Len(q) : q[i] \in Requests
  BY <1>1, ElementOfSeq
<1>3. n + 1 \in Int /\ Len(q) \in Int
  BY <1>1
<1>4. PICK p : p = SubSeq(q, n + 1, Len(q))
  OBVIOUS
<1>5. /\ p \in Seq(Requests)
      /\ Len(p) = IF n + 1 <= Len(q) THEN Len(q) - (n + 1) + 1 ELSE 0
      /\ \A i \in 1 .. Len(q) - (n + 1) + 1 : p[i] = q[n + 1 + i - 1]
  BY <1>2, <1>3, <1>4, SubSeqProperties
<1>6. Len(p) = Len(q) - n
  BY <1>1, <1>5
<1>7. \A i \in 1 .. Len(p) : p[i] = q[i + n]
  BY <1>1, <1>5, <1>6
<1>8. QED
  BY <1>4, <1>5, <1>6, <1>7 DEF IsRest

\* The list with another request.
LEMMA InsertIsLonger ==
    ASSUME NEW q \in Seq(Requests), NEW r \in Requests, NEW at \in 1 .. Len(q)
    PROVE  IsLonger(q, at, r, SubSeq(q, 1, at) \o <<r>> \o SubSeq(q, at + 1, Len(q)))
<1>1. Len(q) \in Nat
  BY LenProperties
<1>2. PICK front : front = SubSeq(q, 1, at)
  OBVIOUS
<1>3. PICK rest : rest = SubSeq(q, at + 1, Len(q))
  OBVIOUS
<1>4. front \in Seq(Requests) /\ Len(front) = at /\ \A i \in 1 .. at : front[i] = q[i]
  <2>1. \A i \in 1 .. at : q[i] \in Requests
    BY <1>1, ElementOfSeq
  <2>2. /\ front \in Seq(Requests)
        /\ Len(front) = IF 1 <= at THEN at - 1 + 1 ELSE 0
        /\ \A i \in 1 .. at - 1 + 1 : front[i] = q[1 + i - 1]
    BY <1>1, <1>2, <2>1, SubSeqProperties
  <2>3. QED
    BY <1>1, <2>2
<1>5. rest \in Seq(Requests) /\ Len(rest) = Len(q) - at /\ \A i \in 1 .. Len(rest) : rest[i] = q[i + at]
  BY <1>1, <1>3, SubSeqIsRest DEF IsRest
<1>6. <<r>> \in Seq(Requests) /\ Len(<<r>>) = 1 /\ <<r>>[1] = r
  OBVIOUS
<1>7. PICK mid : mid = front \o <<r>>
  OBVIOUS
<1>8. /\ mid \in Seq(Requests) /\ Len(mid) = at + 1
      /\ \A i \in 1 .. at + 1 : mid[i] = IF i <= at THEN front[i] ELSE <<r>>[i - at]
  BY <1>4, <1>6, <1>7, ConcatProperties
<1>9. \A i \in 1 .. at : mid[i] = q[i]
  BY <1>1, <1>4, <1>8
<1>10. mid[at + 1] = r
  BY <1>1, <1>6, <1>8
<1>11. PICK p : p = mid \o rest
  OBVIOUS
<1>12. /\ p \in Seq(Requests) /\ Len(p) = (at + 1) + (Len(q) - at)
       /\ \A i \in 1 .. (at + 1) + (Len(q) - at) : p[i] = IF i <= at + 1 THEN mid[i] ELSE rest[i - (at + 1)]
  <2>1. /\ p \in Seq(Requests) /\ Len(p) = Len(mid) + Len(rest)
        /\ \A i \in 1 .. Len(mid) + Len(rest) : p[i] = IF i <= Len(mid) THEN mid[i] ELSE rest[i - Len(mid)]
    <3>1. mid \in Seq(Requests) /\ rest \in Seq(Requests)
      BY <1>5, <1>8
    <3>2. QED
      BY <1>11, <3>1, ConcatProperties
  <2>2. Len(mid) = at + 1 /\ Len(rest) = Len(q) - at
    BY <1>5, <1>8
  <2>3. QED
    BY <2>1, <2>2
<1>13. Len(p) = Len(q) + 1
  BY <1>1, <1>12
<1>14. p[at + 1] = r /\ \A i \in 1 .. at : p[i] = q[i]
  BY <1>1, <1>9, <1>10, <1>12
<1>15. \A i \in at + 1 .. Len(q) : p[i + 1] = q[i]
  <2> SUFFICES ASSUME NEW i \in at + 1 .. Len(q) PROVE p[i + 1] = q[i]
    OBVIOUS
  <2>1. i - at \in 1 .. Len(rest) /\ (i - at) + at = i /\ (i + 1) - (at + 1) = i - at
    BY <1>1, <1>5
  <2>2. i + 1 \in 1 .. (at + 1) + (Len(q) - at) /\ ~(i + 1 <= at + 1)
    BY <1>1
  <2>3. p[i + 1] = rest[(i + 1) - (at + 1)]
    BY <1>12, <2>2
  <2>4. QED
    BY <1>5, <2>1, <2>3
<1>16. QED
  BY <1>2, <1>3, <1>7, <1>11, <1>12, <1>13, <1>14, <1>15 DEF IsLonger

-----------------------------------------------------------------------------
(* The functions of the driver. *)

Drivers == [bh : Buffers, q : Seq(Requests), do_hd : Handlers,
            reset : BOOLEAN, recalibrate : BOOLEAN, woke : BOOLEAN]

\* The requests and the locks of a state of the driver agree with each other and the tasks.
Good(s, tasks) == s \in Drivers /\ Sound(s.q) /\ LocksOK(s.bh, s.q, tasks)

\* e is s with its first n requests ended.
Ended(s, n, e) ==
    /\ e \in Drivers /\ n \in 0 .. Len(s.q) /\ IsRest(s.q, n, e.q) /\ Unlocks(s.bh, s.q, n, e.bh)
    /\ e.do_hd = s.do_hd /\ (s.woke \/ n > 0 => e.woke)

LEMMA EndedIsGood ==
    ASSUME NEW s, NEW tasks, Good(s, tasks), NEW n, NEW e, Ended(s, n, e)
    PROVE  Good(e, tasks) /\ (e.q = <<>> => e.woke \/ s.q = <<>>)
<1>1. Sound(s.q) /\ LocksOK(s.bh, s.q, tasks) /\ e \in Drivers
  BY DEF Good, Ended
<1>2. n \in 0 .. Len(s.q) /\ IsRest(s.q, n, e.q) /\ Unlocks(s.bh, s.q, n, e.bh)
  BY DEF Ended
<1>3. Sound(e.q)
  BY <1>1, <1>2, RestIsSound
<1>4. LocksOK(e.bh, e.q, tasks)
  BY <1>1, <1>2, LocksAfterEnd
<1>5. e.q = <<>> => e.woke \/ s.q = <<>>
  <2>1. s.q \in Seq(Requests) /\ e.q \in Seq(Requests)
    BY <1>1, <1>3 DEF Sound
  <2>2. Len(e.q) = Len(s.q) - n
    BY <1>2 DEF IsRest
  <2>3. s.q # <<>> => Len(s.q) \in Nat \ {0}
    BY <2>1, EmptySeq
  <2>4. e.q = <<>> => Len(e.q) = 0
    BY EmptySeq
  <2>5. e.q = <<>> /\ s.q # <<>> => n > 0
    BY <1>2, <2>2, <2>3, <2>4
  <2>6. QED
    BY <2>5 DEF Ended
<1>6. QED
  BY <1>1, <1>3, <1>4, <1>5 DEF Good

\* end_request() ends the first.
LEMMA EndRequestIs ==
    ASSUME NEW s \in Drivers, s.q # <<>>, NEW u \in BOOLEAN, NEW e, e = end_request(s, u)
    PROVE  /\ Ended(s, 1, e)
           /\ e.bh[s.q[1].b].uptodate = u
           /\ \A b \in Blocks : b # s.q[1].b => e.bh[b] = s.bh[b]
<1>1. s.bh \in Buffers /\ s.q \in Seq(Requests)
  BY DEF Drivers
<1>2. Head(s.q) = s.q[1] /\ s.q[1] \in Requests /\ IsRest(s.q, 1, Tail(s.q)) /\ 1 \in 0 .. Len(s.q)
  BY <1>1, TailIsRest
<1>3. PICK f \in Blocks : f = s.q[1].b
  BY <1>2 DEF Requests
<1>4. PICK buffers : buffers = [s.bh EXCEPT ![f].uptodate = u, ![f].lock = FALSE]
  OBVIOUS
<1>5. buffers \in Buffers
  BY <1>1, <1>3, <1>4 DEF Buffers
<1>6. /\ buffers[f].uptodate = u /\ ~buffers[f].lock
      /\ \A b \in Blocks : b # f => buffers[b] = s.bh[b]
  BY <1>1, <1>3, <1>4 DEF Buffers
<1>7. /\ e.bh = buffers /\ e.q = Tail(s.q) /\ e.woke = TRUE /\ e.do_hd = s.do_hd
      /\ e.reset = s.reset /\ e.recalibrate = s.recalibrate
  BY <1>2, <1>3, <1>4 DEF end_request, Current, Drivers
<1>8. e \in Drivers
  <2>1. Tail(s.q) \in Seq(Requests)
    BY <1>2 DEF IsRest
  <2>2. e = [bh |-> buffers, q |-> Tail(s.q), do_hd |-> s.do_hd, reset |-> s.reset,
             recalibrate |-> s.recalibrate, woke |-> TRUE]
    BY <1>2, <1>3, <1>4 DEF end_request, Current, Drivers
  <2>3. QED
    BY <1>5, <2>1, <2>2 DEF Drivers
<1>9. Unlocks(s.bh, s.q, 1, buffers)
  <2>1. ASSUME NEW b \in Blocks PROVE (\E i \in 1 .. 1 : s.q[i].b = b) <=> b = f
    BY <1>3
  <2>2. QED
    BY <1>5, <1>6, <2>1 DEF Unlocks
<1>10. QED
  BY <1>2, <1>3, <1>6, <1>7, <1>8, <1>9 DEF Ended

\* The invalid requests at the front are ended, and no other.
LEMMA EndInvalidIs ==
    ASSUME NEW s \in Drivers, NEW e, e = EndInvalid(s)
    PROVE  /\ \E n : Ended(s, n, e)
           /\ \A b \in Blocks : e.bh[b] # s.bh[b] => \E i \in 1 .. Len(s.q) : s.q[i].b = b /\ Invalid(s.q[i])
<1>1. s.bh \in Buffers /\ s.q \in Seq(Requests) /\ s.woke \in BOOLEAN
  BY DEF Drivers
<1>2. Len(s.q) \in Nat
  BY <1>1, LenProperties
<1> DEFINE Front(n) == (\A i \in 1 .. n : Invalid(s.q[i])) /\ (n < Len(s.q) => ~Invalid(s.q[n + 1]))
<1>3. \E n \in 0 .. Len(s.q) : Front(n)
  <2>1. PICK T : T = {n \in 0 .. Len(s.q) : n < Len(s.q) => ~Invalid(s.q[n + 1])}
    OBVIOUS
  <2>2. T \subseteq Nat /\ Len(s.q) \in T
    BY <1>2, <2>1
  <2>3. PICK n \in T : \A y \in T : n <= y
    BY <2>2, LeastOf
  <2>4. ASSUME NEW i \in 1 .. n PROVE Invalid(s.q[i])
    <3>1. i - 1 \in 0 .. Len(s.q) /\ i - 1 < Len(s.q) /\ (i - 1) + 1 = i /\ ~(n <= i - 1)
      BY <1>2, <2>1, <2>2, <2>3
    <3>2. i - 1 \notin T
      BY <2>3, <3>1
    <3>3. QED
      BY <2>1, <3>1, <3>2
  <2>5. QED
    BY <2>1, <2>3, <2>4
<1>4. PICK n : n = CHOOSE m \in 0 .. Len(s.q) : Front(m)
  OBVIOUS
<1>5. n \in 0 .. Len(s.q) /\ \A i \in 1 .. n : Invalid(s.q[i])
  <2> HIDE DEF Front
  <2>1. n \in 0 .. Len(s.q) /\ Front(n)
    BY <1>3, <1>4
  <2>2. QED
    BY <2>1 DEF Front
<1>6. PICK gone : gone = {s.q[i].b : i \in 1 .. n}
  OBVIOUS
<1>7. PICK buffers : buffers = [b \in Blocks |-> IF b \in gone THEN [s.bh[b] EXCEPT !.lock = FALSE, !.uptodate = FALSE]
                                                 ELSE s.bh[b]]
  OBVIOUS
<1>8. PICK rest : rest = SubSeq(s.q, n + 1, Len(s.q))
  OBVIOUS
<1>9. e = [s EXCEPT !.q = rest, !.woke = s.woke \/ n > 0, !.bh = buffers]
  BY <1>4, <1>6, <1>7, <1>8 DEF EndInvalid
<1>10. IsRest(s.q, n, rest)
  BY <1>1, <1>5, <1>8, SubSeqIsRest
<1>11. buffers \in Buffers
  BY <1>1, <1>7 DEF Buffers
<1>12. Unlocks(s.bh, s.q, n, buffers)
  <2>1. ASSUME NEW b \in Blocks PROVE buffers[b].lock <=> s.bh[b].lock /\ ~ \E i \in 1 .. n : s.q[i].b = b
    <3>1. b \in gone <=> \E i \in 1 .. n : s.q[i].b = b
      BY <1>6
    <3>2. s.bh[b] \in [lock : BOOLEAN, dirt : BOOLEAN, uptodate : BOOLEAN]
      BY <1>1 DEF Buffers
    <3>3. b \in gone => ~buffers[b].lock
      BY <1>7, <3>2
    <3>4. b \notin gone => buffers[b] = s.bh[b]
      BY <1>7
    <3>5. QED
      BY <3>1, <3>3, <3>4
  <2>2. QED
    BY <1>11, <2>1 DEF Unlocks
<1>13. e.bh = buffers /\ e.q = rest /\ (s.woke \/ n > 0 => e.woke) /\ e.do_hd = s.do_hd
  BY <1>9 DEF Drivers
<1>14. e \in Drivers
  <2>1. rest \in Seq(Requests) /\ (s.woke \/ n > 0) \in BOOLEAN
    BY <1>10 DEF IsRest
  <2>2. QED
    BY <1>9, <1>11, <2>1 DEF Drivers
<1>15. Ended(s, n, e)
  BY <1>5, <1>10, <1>12, <1>13, <1>14 DEF Ended
<1>16. ASSUME NEW b \in Blocks, e.bh[b] # s.bh[b]
       PROVE  \E i \in 1 .. Len(s.q) : s.q[i].b = b /\ Invalid(s.q[i])
  <2>1. b \in gone
    BY <1>7, <1>13, <1>16
  <2>2. PICK i \in 1 .. n : s.q[i].b = b
    BY <1>6, <2>1
  <2>3. i \in 1 .. Len(s.q)
    BY <1>2, <1>5
  <2>4. QED
    BY <1>5, <2>2, <2>3
<1>17. QED
  BY <1>15, <1>16

\* A driver with requests starts a command.
LEMMA CommandIs ==
    ASSUME NEW s \in Drivers, s.do_hd = "none", NEW c, c = Command(s)
    PROVE  /\ c \in Drivers /\ c.q = s.q /\ c.bh = s.bh /\ c.woke = s.woke
           /\ c.do_hd = "none" <=> c.q = <<>>
<1>1. s = [bh |-> s.bh, q |-> s.q, do_hd |-> s.do_hd, reset |-> s.reset,
           recalibrate |-> s.recalibrate, woke |-> s.woke]
  BY DEF Drivers
<1>2. CASE s.q = <<>>
  BY <1>2 DEF Command
<1>3. CASE s.q # <<>> /\ s.reset
  <2>1. c = [[s EXCEPT !.reset = FALSE, !.recalibrate = TRUE] EXCEPT !.do_hd = "recal_intr"]
    BY <1>3 DEF Command, reset_hd, hd_out
  <2>2. QED
    BY <1>3, <2>1 DEF Drivers, Handlers
<1>4. CASE s.q # <<>> /\ ~s.reset /\ s.recalibrate
  <2>1. c = [[s EXCEPT !.recalibrate = FALSE] EXCEPT !.do_hd = "recal_intr"]
    BY <1>4 DEF Command, hd_out
  <2>2. QED
    BY <1>4, <2>1 DEF Drivers, Handlers
<1>5. CASE s.q # <<>> /\ ~s.reset /\ ~s.recalibrate
  <2>1. PICK h \in {"read_intr", "write_intr"} : c = [s EXCEPT !.do_hd = h]
    BY <1>5 DEF Command, hd_out
  <2>2. QED
    BY <1>5, <2>1 DEF Drivers, Handlers
<1>6. QED
  BY <1>2, <1>3, <1>4, <1>5

\* The first request of a list is replaced.
LEMMA ExceptIsRetry ==
    ASSUME NEW q \in Seq(Requests), q # <<>>, NEW r \in Requests, r.b = q[1].b, NEW p, p = [q EXCEPT ![1] = r]
    PROVE  IsRetry(q, r, p) /\ p # <<>> /\ \A b \in Blocks : Queued(p, b) <=> Queued(q, b)
<1>1. Len(q) \in Nat \ {0} /\ 1 \in 1 .. Len(q)
  BY EmptySeq
<1>2. /\ p \in Seq(Requests) /\ Len(p) = Len(q)
      /\ \A j \in 1 .. Len(q) : p[j] = IF j = 1 THEN r ELSE q[j]
  BY <1>1, ExceptSeq
<1>3. IsRetry(q, r, p)
  BY <1>1, <1>2 DEF IsRetry
<1>4. p # <<>>
  BY <1>1, <1>2, EmptySeq
<1>5. \A j \in 1 .. Len(q) : p[j].b = q[j].b
  BY <1>2
<1>6. QED
  BY <1>2, <1>3, <1>4, <1>5 DEF Queued

\* Every request of p is one of q, as far as its place on the disk is concerned.
From(p, q) == \A i \in 1 .. Len(p) : \E j \in 1 .. Len(q) : p[i].b = q[j].b /\ p[i].nr_sectors = q[j].nr_sectors

\* bad_rw_intr() ends the first request when it has failed too often, or leaves it to be tried again.
LEMMA BadIsGood ==
    ASSUME NEW s, NEW tasks, Good(s, tasks), s.q # <<>>, NEW e, e = bad_rw_intr(s)
    PROVE  /\ Good(e, tasks) /\ e.do_hd = s.do_hd /\ (e.q = <<>> => e.woke)
           /\ \A b \in Blocks : e.bh[b] # s.bh[b] => b = s.q[1].b /\ s.q[1].errors + 1 >= MAX_ERRORS
           /\ From(e.q, s.q)
<1>1. s \in Drivers /\ Sound(s.q) /\ LocksOK(s.bh, s.q, tasks)
  BY DEF Good
<1>2. PICK q \in Seq(Requests) : q = s.q
  BY <1>1 DEF Drivers
<1>3. Head(q) = q[1] /\ q[1] \in Requests /\ Len(q) \in Nat \ {0} /\ 1 \in 1 .. Len(q)
  BY <1>2, TailIsRest
<1>4. q[1].errors \in 0 .. MAX_ERRORS /\ q[1].errors < MAX_ERRORS /\ MAX_ERRORS \in Nat
  BY <1>1, <1>2, <1>3, NumbersAssumption DEF Sound, Requests
<1>5. PICK errors \in 0 .. MAX_ERRORS : errors = q[1].errors + 1
  BY <1>4
<1>6. PICK r : r = [q[1] EXCEPT !.errors = errors]
  OBVIOUS
<1>7. /\ r \in Requests /\ r.b = q[1].b /\ r.slot = q[1].slot /\ r.cmd = q[1].cmd
      /\ r.nr_sectors = q[1].nr_sectors /\ r.errors = errors
  BY <1>3, <1>6 DEF Requests
<1>8. PICK p : p = [q EXCEPT ![1] = r]
  OBVIOUS
<1>9. IsRetry(q, r, p) /\ p # <<>> /\ \A b \in Blocks : Queued(p, b) <=> Queued(q, b)
  BY <1>2, <1>7, <1>8, ExceptIsRetry
<1>10. PICK counted : counted = [s EXCEPT !.q[1].errors = errors]
  OBVIOUS
<1>11. counted = [s EXCEPT !.q = p]
  BY <1>1, <1>2, <1>3, <1>6, <1>8, <1>10 DEF Drivers
<1>12. p \in Seq(Requests) /\ Len(p) = Len(q) /\ p[1] = r
  BY <1>9 DEF IsRetry
<1>13. /\ counted \in Drivers /\ counted.q = p /\ counted.bh = s.bh /\ counted.do_hd = s.do_hd
       /\ counted.woke = s.woke
  BY <1>1, <1>11, <1>12 DEF Drivers
<1>14. From(p, q)
  <2>1. \A i \in 1 .. Len(p) : p[i].b = q[i].b /\ p[i].nr_sectors = q[i].nr_sectors
    BY <1>7, <1>9, <1>12 DEF IsRetry
  <2>2. QED
    BY <1>12, <2>1 DEF From
<1>15. CASE errors >= MAX_ERRORS
  <2> DEFINE u == FALSE
  <2>1. PICK ended : ended = end_request(counted, u)
    OBVIOUS
  <2>2. PICK reset \in BOOLEAN : e = [ended EXCEPT !.reset = reset]
    <3>1. e = [ended EXCEPT !.reset = @ \/ Len(s.q) = 1 \/ s.q[2].errors > MAX_ERRORS \div 2]
      BY <1>2, <1>3, <1>5, <1>10, <1>15, <2>1 DEF bad_rw_intr, Current
    <3>2. (ended.reset \/ Len(s.q) = 1 \/ s.q[2].errors > MAX_ERRORS \div 2) \in BOOLEAN
      OBVIOUS
    <3>3. QED
      BY <3>1, <3>2
  <2>3. /\ Ended(counted, 1, ended)
        /\ \A b \in Blocks : b # p[1].b => ended.bh[b] = s.bh[b]
    <3>1. counted \in Drivers /\ counted.q # <<>> /\ u \in BOOLEAN
      BY <1>9, <1>13
    <3> HIDE DEF u
    <3>2. /\ Ended(counted, 1, ended)
          /\ \A b \in Blocks : b # counted.q[1].b => ended.bh[b] = counted.bh[b]
      BY <2>1, <3>1, EndRequestIs
    <3>3. QED
      BY <1>13, <3>2
  <2>4. ended \in Drivers /\ ended.woke /\ ended.do_hd = s.do_hd /\ IsRest(p, 1, ended.q) /\ Unlocks(s.bh, p, 1, ended.bh)
    BY <1>13, <2>3 DEF Ended
  <2>5. e \in Drivers /\ e.woke /\ e.do_hd = s.do_hd /\ e.q = ended.q /\ e.bh = ended.bh
    BY <2>2, <2>4 DEF Drivers
  <2>6. \A i \in 1 .. Len(e.q) : e.q[i] = p[i + 1] /\ e.q[i] = q[i + 1] /\ i + 1 \in 1 .. Len(q)
    <3>1. Len(e.q) = Len(q) - 1 /\ \A i \in 1 .. Len(e.q) : e.q[i] = p[i + 1]
      BY <1>12, <2>4, <2>5 DEF IsRest
    <3>2. \A i \in 1 .. Len(e.q) : i + 1 \in 1 .. Len(p) /\ i + 1 # 1
      BY <1>3, <1>12, <3>1
    <3>3. QED
      BY <1>9, <1>12, <3>1, <3>2 DEF IsRetry
  <2>7. IsRest(q, 1, e.q)
    BY <1>12, <2>4, <2>5, <2>6 DEF IsRest
  <2>8. Unlocks(s.bh, q, 1, e.bh)
    <3>1. \A b \in Blocks : (\E i \in 1 .. 1 : p[i].b = b) <=> (\E i \in 1 .. 1 : q[i].b = b)
      BY <1>7, <1>12
    <3>2. QED
      BY <2>4, <2>5, <3>1 DEF Unlocks
  <2>9. Ended(s, 1, e)
    BY <1>2, <1>3, <2>5, <2>7, <2>8 DEF Ended
  <2>10. Good(e, tasks)
    BY <2>9, EndedIsGood
  <2>11. \A b \in Blocks : e.bh[b] # s.bh[b] => b = s.q[1].b /\ s.q[1].errors + 1 >= MAX_ERRORS
    BY <1>2, <1>5, <1>7, <1>12, <1>15, <2>3, <2>5
  <2>12. From(e.q, q)
    BY <2>6 DEF From
  <2>13. QED
    BY <1>2, <2>5, <2>10, <2>11, <2>12
<1>16. CASE ~(errors >= MAX_ERRORS)
  <2>1. PICK reset \in BOOLEAN : e = [counted EXCEPT !.reset = reset]
    <3>1. e = [counted EXCEPT !.reset = @ \/ errors > MAX_ERRORS \div 2]
      BY <1>2, <1>3, <1>5, <1>10, <1>16 DEF bad_rw_intr, Current
    <3>2. (counted.reset \/ errors > MAX_ERRORS \div 2) \in BOOLEAN
      OBVIOUS
    <3>3. QED
      BY <3>1, <3>2
  <2>2. e \in Drivers /\ e.q = p /\ e.bh = s.bh /\ e.do_hd = s.do_hd
    BY <1>13, <2>1 DEF Drivers
  <2>3. Sound(p)
    <3>1. r.errors < MAX_ERRORS
      BY <1>4, <1>7, <1>16
    <3>2. Sound(q) /\ q # <<>>
      BY <1>1, <1>2
    <3>3. QED
      BY <1>7, <1>9, <3>1, <3>2, RetryIsSound
  <2>4. LocksOK(e.bh, p, tasks)
    BY <1>1, <1>2, <1>9, <2>2 DEF LocksOK
  <2>5. QED
    BY <1>2, <1>9, <1>14, <2>2, <2>3, <2>4 DEF Good
<1>17. QED
  BY <1>15, <1>16

\* NextSector() leaves the first request with one sector to go, and waits for its interrupt.
LEMMA NextSectorIsGood ==
    ASSUME NEW s, NEW tasks, Good(s, tasks), s.q # <<>>, s.q[1].nr_sectors > 1, NEW e, e = NextSector(s)
    PROVE  Good(e, tasks) /\ e.do_hd # "none" /\ e.q # <<>> /\ e.bh = s.bh
<1>1. s \in Drivers /\ Sound(s.q) /\ LocksOK(s.bh, s.q, tasks)
  BY DEF Good
<1>2. PICK q \in Seq(Requests) : q = s.q
  BY <1>1 DEF Drivers
<1>3. Head(q) = q[1] /\ q[1] \in Requests /\ Len(q) \in Nat \ {0} /\ 1 \in 1 .. Len(q)
  BY <1>2, TailIsRest
<1>4. PICK errors \in 0 .. MAX_ERRORS : errors = (IF q[1].cmd = "READ" THEN 0 ELSE q[1].errors) /\ errors < MAX_ERRORS
  BY <1>1, <1>2, <1>3, NumbersAssumption DEF Sound, Requests
<1>5. PICK r : r = [q[1] EXCEPT !.nr_sectors = q[1].nr_sectors - 1, !.errors = errors]
  OBVIOUS
<1>6. r \in Requests /\ r.b = q[1].b /\ r.slot = q[1].slot /\ r.cmd = q[1].cmd /\ r.errors = errors
  <2>1. q[1].nr_sectors \in 1 .. 2 /\ q[1].nr_sectors > 1
    BY <1>2, <1>3 DEF Requests
  <2>2. q[1].nr_sectors - 1 \in 1 .. 2
    BY <2>1
  <2>3. QED
    BY <1>3, <1>5, <2>2 DEF Requests
<1>7. PICK p : p = [q EXCEPT ![1] = r]
  OBVIOUS
<1>8. IsRetry(q, r, p) /\ p # <<>> /\ \A b \in Blocks : Queued(p, b) <=> Queued(q, b)
  BY <1>2, <1>6, <1>7, ExceptIsRetry
<1>9. PICK h \in {"read_intr", "write_intr"} : h = IF q[1].cmd = "READ" THEN "read_intr" ELSE "write_intr"
  OBVIOUS
<1>10. e = [s EXCEPT !.q = p, !.do_hd = h]
  <2>1. e = [s EXCEPT !.q[1].nr_sectors = @ - 1, !.q[1].errors = errors, !.do_hd = h]
    <3>1. Current(s) = q[1] /\ Current(s).errors = s.q[1].errors
      BY <1>2, <1>3 DEF Current
    <3>2. (IF Current(s).cmd = "READ" THEN 0 ELSE s.q[1].errors) = errors
      BY <1>2, <1>4, <3>1
    <3>3. (IF Current(s).cmd = "READ" THEN "read_intr" ELSE "write_intr") = h
      BY <1>9, <3>1
    <3>4. QED
      BY <1>1, <1>2, <1>3, <3>2, <3>3 DEF NextSector, Drivers
  <2>2. [q EXCEPT ![1].nr_sectors = @ - 1, ![1].errors = errors] = p
    BY <1>3, <1>5, <1>7
  <2>3. QED
    BY <1>1, <1>2, <1>3, <2>1, <2>2 DEF Drivers
<1>11. p \in Seq(Requests)
  BY <1>8 DEF IsRetry
<1>12. e \in Drivers /\ e.q = p /\ e.bh = s.bh /\ e.do_hd = h
  BY <1>1, <1>10, <1>11 DEF Drivers, Handlers
<1>13. Sound(p)
  <2>1. Sound(q) /\ q # <<>> /\ r.errors < MAX_ERRORS
    BY <1>1, <1>2, <1>4, <1>6
  <2>2. QED
    BY <1>6, <1>8, <2>1, RetryIsSound
<1>14. LocksOK(e.bh, p, tasks)
  BY <1>1, <1>2, <1>8, <1>12 DEF LocksOK
<1>15. QED
  BY <1>8, <1>12, <1>13, <1>14 DEF Good

-----------------------------------------------------------------------------
(* The inductive invariant. *)

Disks == [q : Seq(Requests), do_hd : Handlers, reset : BOOLEAN, recalibrate : BOOLEAN]

\* The disk is busy when there is a request; and who will sleep has one to wait for, or is in drained.
BlkInv ==
    /\ bh \in Buffers /\ hd \in Disks /\ task \in [Tasks -> Calls] /\ drained \subseteq Tasks
    /\ Sound(hd.q)
    /\ LocksOK(bh, hd.q, task)
    /\ hd.do_hd = "none" <=> hd.q = <<>>
    /\ \A t \in Tasks : task[t].pc \in {"full", "asleep"} /\ t \notin drained => hd.q # <<>>

\* Where an action starts.
LEMMA DriverIs ==
    ASSUME BlkInv, NEW buffers \in Buffers, NEW s, s = Driver(buffers, hd)
    PROVE  /\ s \in Drivers /\ s.bh = buffers /\ s.q = hd.q /\ s.do_hd = hd.do_hd /\ ~s.woke /\ Sound(s.q)
           /\ s.do_hd = "none" <=> s.q = <<>>
  BY DEF BlkInv, Driver, Drivers, Disks

\* The locks depend on who waits.
LEMMA SameWaiters ==
    ASSUME NEW buffers, NEW q, NEW tasks, LocksOK(buffers, q, tasks), NEW tasks2,
           \A t \in Tasks, b \in Blocks : Waits(tasks2[t], b) <=> Waits(tasks[t], b)
    PROVE  LocksOK(buffers, q, tasks2)
  BY DEF LocksOK, Held

\* What every action leaves behind.
LEMMA LeaveKeeps ==
    ASSUME BlkInv, NEW s, NEW tasks \in [Tasks -> Calls], Good(s, tasks), s.do_hd = "none" <=> s.q = <<>>,
           s.q = <<>> => s.woke \/ hd.q = <<>>,
           \A t \in Tasks : tasks[t].pc = "asleep" => task[t].pc = "asleep",
           Leave(s, tasks)
    PROVE  BlkInv' /\ bh' = s.bh /\ hd'.q = s.q
<1>1. /\ bh' = s.bh
      /\ hd' = [q |-> s.q, do_hd |-> s.do_hd, reset |-> s.reset, recalibrate |-> s.recalibrate]
      /\ task' = [t \in Tasks |-> IF s.woke /\ tasks[t].pc = "asleep" THEN [tasks[t] EXCEPT !.pc = "repeat"]
                                  ELSE tasks[t]]
      /\ drained' = {t \in Tasks : \/ tasks[t].pc = "full" /\ s.q = <<>>
                                   \/ t \in drained /\ ~(s.woke /\ tasks[t].pc = "asleep")
                                                    /\ tasks[t].pc \in {"full", "asleep"}}
  BY DEF Leave
<1>2. s \in Drivers /\ Sound(s.q) /\ LocksOK(s.bh, s.q, tasks)
  BY DEF Good
<1>3. bh' \in Buffers /\ hd' \in Disks /\ drained' \subseteq Tasks /\ hd'.q = s.q /\ hd'.do_hd = s.do_hd
  BY <1>1, <1>2 DEF Drivers, Disks
<1>4. ASSUME NEW t \in Tasks
      PROVE  /\ task'[t] \in Calls
             /\ \A b \in Blocks : Waits(task'[t], b) <=> Waits(tasks[t], b)
             /\ task'[t].pc = "full" => tasks[t].pc = "full"
             /\ task'[t].pc = "asleep" => tasks[t].pc = "asleep" /\ ~s.woke
  <2>1. tasks[t] \in Calls
    OBVIOUS
  <2>2. CASE s.woke /\ tasks[t].pc = "asleep"
    <3>1. task'[t] = [tasks[t] EXCEPT !.pc = "repeat"]
      BY <1>1, <2>2
    <3>2. task'[t] \in Calls /\ task'[t].pc = "repeat" /\ task'[t].b = tasks[t].b
      BY <2>1, <3>1 DEF Calls, Pcs
    <3>3. QED
      BY <2>2, <3>2 DEF Waits
  <2>3. CASE ~(s.woke /\ tasks[t].pc = "asleep")
    <3>1. task'[t] = tasks[t]
      BY <1>1, <2>3
    <3>2. QED
      BY <2>1, <2>3, <3>1
  <2>4. QED
    BY <2>2, <2>3
<1>5. task' \in [Tasks -> Calls]
  BY <1>1, <1>4
<1>6. LocksOK(bh', hd'.q, task')
  BY <1>1, <1>2, <1>3, <1>4, SameWaiters
<1>7. ASSUME NEW t \in Tasks, task'[t].pc \in {"full", "asleep"}, t \notin drained' PROVE hd'.q # <<>>
  <2>1. CASE task'[t].pc = "full"
    BY <1>1, <1>3, <1>4, <1>7, <2>1
  <2>2. CASE task'[t].pc = "asleep"
    <3>1. tasks[t].pc = "asleep" /\ ~s.woke /\ task[t].pc = "asleep"
      BY <1>4, <2>2
    <3>2. t \notin drained
      BY <1>1, <1>7, <3>1
    <3>3. hd.q # <<>>
      BY <3>1, <3>2 DEF BlkInv
    <3>4. QED
      BY <1>3, <3>1, <3>3
  <2>3. QED
    BY <1>7, <2>1, <2>2
<1>8. QED
  BY <1>1, <1>2, <1>3, <1>5, <1>6, <1>7 DEF BlkInv

\* do_hd_request() when no command runs: the invalid requests are ended, and no other.
LEMMA HdRequestKeeps ==
    ASSUME BlkInv, NEW s, NEW tasks \in [Tasks -> Calls], Good(s, tasks), s.do_hd = "none",
           s.q = <<>> => s.woke \/ hd.q = <<>>,
           \A t \in Tasks : tasks[t].pc = "asleep" => task[t].pc = "asleep",
           do_hd_request(s, tasks)
    PROVE  /\ BlkInv'
           /\ \A b \in Blocks : bh'[b] # s.bh[b] => \E i \in 1 .. Len(s.q) : s.q[i].b = b /\ Invalid(s.q[i])
<1>1. PICK e : e = EndInvalid(s)
  OBVIOUS
<1>2. PICK c : c = Command(e)
  OBVIOUS
<1>3. Leave(c, tasks)
  BY <1>1, <1>2 DEF do_hd_request
<1>4. s \in Drivers
  BY DEF Good
<1>5. PICK n : Ended(s, n, e)
  BY <1>1, <1>4, EndInvalidIs
<1>6. \A b \in Blocks : e.bh[b] # s.bh[b] => \E i \in 1 .. Len(s.q) : s.q[i].b = b /\ Invalid(s.q[i])
  BY <1>1, <1>4, EndInvalidIs
<1>7. Good(e, tasks) /\ (e.q = <<>> => e.woke \/ s.q = <<>>)
  BY <1>5, EndedIsGood
<1>8. e \in Drivers /\ e.do_hd = "none" /\ (s.woke => e.woke)
  BY <1>5 DEF Ended
<1>9. /\ c \in Drivers /\ c.q = e.q /\ c.bh = e.bh /\ c.woke = e.woke
      /\ c.do_hd = "none" <=> c.q = <<>>
  BY <1>2, <1>8, CommandIs
<1>10. Good(c, tasks)
  BY <1>7, <1>9 DEF Good
<1>11. c.q = <<>> => c.woke \/ hd.q = <<>>
  BY <1>7, <1>8, <1>9
<1>12. BlkInv' /\ bh' = c.bh
  BY <1>3, <1>9, <1>10, <1>11, LeaveKeeps
<1>13. QED
  BY <1>6, <1>9, <1>12

\* What lets the transfer of request i fail, and that it does: the parts of FailsOnlyAfterRetries.
MayFail(i) ==
    \/ 2 * hd.q[i].b + 2 > NrSects
    \/ i = 1 /\ hd.q[i].errors + 1 >= MAX_ERRORS
    \/ i = 1 /\ hd.q[i].nr_sectors = 1 /\ 2 * hd.q[i].b + 2 = NrSects
Fails(i) == bh[hd.q[i].b].lock /\ ~bh'[hd.q[i].b].lock /\ ~bh'[hd.q[i].b].uptodate

\* A request of the list that is refused is beyond the end, or in its second sector.
LEMMA RefusedMayFail ==
    ASSUME BlkInv, NEW q, q \in Seq(Requests), From(q, hd.q), NEW k \in 1 .. Len(hd.q),
           NEW j \in 1 .. Len(q), q[j].b = hd.q[k].b, Invalid(q[j])
    PROVE  MayFail(k)
<1>1. Sound(hd.q) /\ hd.q \in Seq(Requests)
  BY DEF BlkInv, Sound
<1>2. PICK l \in 1 .. Len(hd.q) : q[j].b = hd.q[l].b /\ q[j].nr_sectors = hd.q[l].nr_sectors
  BY DEF From
<1>3. l = k
  BY <1>1, <1>2 DEF Sound
<1>4. hd.q[k] \in Requests
  BY <1>1, ElementOfSeq
<1>5. hd.q[k].b \in Nat /\ hd.q[k].nr_sectors \in 1 .. 2
  BY <1>4, BlocksAssumption DEF Requests
<1>6. (2 * hd.q[k].b + 2 - hd.q[k].nr_sectors) + 2 > NrSects
  BY <1>2, <1>3 DEF Invalid, sector
<1>7. k > 1 => hd.q[k].nr_sectors = 2
  BY <1>1 DEF Sound
<1>8. k \in Nat \ {0}
  OBVIOUS
<1>9. CASE hd.q[k].nr_sectors = 2
  BY <1>5, <1>6, <1>9, NumbersAssumption DEF MayFail
<1>10. CASE hd.q[k].nr_sectors = 1
  <2>1. k = 1
    BY <1>7, <1>8, <1>10
  <2>2. 2 * hd.q[k].b + 2 > NrSects \/ 2 * hd.q[k].b + 2 = NrSects
    <3>1. PICK x \in Nat : x = 2 * hd.q[k].b
      BY <1>5
    <3>2. (x + (2 - 1)) + 2 > NrSects
      BY <1>6, <1>10, <3>1
    <3>3. NrSects \in Nat
      BY NumbersAssumption
    <3>4. x + 2 > NrSects \/ x + 2 = NrSects
      BY <3>2, <3>3
    <3>5. QED
      BY <3>1, <3>4
  <2>3. QED
    BY <1>10, <2>1, <2>2 DEF MayFail
<1>11. QED
  BY <1>5, <1>9, <1>10

-----------------------------------------------------------------------------
(* The steps. *)

LEMMA InterruptKeeps ==
    ASSUME BlkInv, NEW ok \in BOOLEAN, HdInterrupt(ok)
    PROVE  BlkInv' /\ \A i \in 1 .. Len(hd.q) : Fails(i) => MayFail(i)
<1> DEFINE d == Driver(bh, hd)
<1>1. PICK s : /\ s = [d EXCEPT !.do_hd = "none"]
               /\ \/ ~ok /\ \E bad \in {bad_rw_intr(s)} : do_hd_request(bad, task)
                  \/ ok /\ hd.do_hd = "recal_intr" /\ do_hd_request(s, task)
                  \/ ok /\ hd.do_hd # "recal_intr" /\ Current(s).nr_sectors > 1 /\ Leave(NextSector(s), task)
                  \/ /\ ok /\ hd.do_hd # "recal_intr" /\ Current(s).nr_sectors = 1
                     /\ \E ended \in {end_request(s, TRUE)} : do_hd_request(ended, task)
  BY DEF HdInterrupt
<1>2. /\ d \in Drivers /\ d.bh = bh /\ d.q = hd.q /\ ~d.woke /\ Sound(d.q)
  BY DriverIs DEF BlkInv
<1> HIDE DEF d
<1>3. s \in Drivers /\ s.bh = bh /\ s.q = hd.q /\ s.do_hd = "none" /\ Sound(s.q)
  BY <1>1, <1>2 DEF Drivers, Handlers
<1>4. /\ Good(s, task) /\ task \in [Tasks -> Calls]
      /\ \A t \in Tasks : task[t].pc = "asleep" => task[t].pc = "asleep"
  BY <1>3 DEF Good, BlkInv
<1>5. hd.q # <<>> /\ hd.q \in Seq(Requests) /\ Sound(hd.q)
  BY DEF BlkInv, HdInterrupt, Sound
<1>6. /\ Head(hd.q) = hd.q[1] /\ hd.q[1] \in Requests /\ Len(hd.q) \in Nat \ {0}
      /\ IsRest(hd.q, 1, Tail(hd.q))
  BY <1>5, TailIsRest
<1>7. \A i \in 1 .. Len(hd.q) : hd.q[i] \in Requests /\ hd.q[i].b \in Blocks
  <2>1. \A i \in 1 .. Len(hd.q) : hd.q[i] \in Requests
    BY <1>5, ElementOfSeq
  <2>2. QED
    BY <2>1 DEF Requests
<1>8. ASSUME ~ok, NEW bad, bad = bad_rw_intr(s), do_hd_request(bad, task)
      PROVE  BlkInv' /\ \A i \in 1 .. Len(hd.q) : Fails(i) => MayFail(i)
  <2>1. /\ Good(bad, task) /\ bad.do_hd = s.do_hd /\ (bad.q = <<>> => bad.woke)
        /\ \A b \in Blocks : bad.bh[b] # s.bh[b] => b = s.q[1].b /\ s.q[1].errors + 1 >= MAX_ERRORS
        /\ From(bad.q, s.q)
    BY <1>3, <1>4, <1>5, <1>8, BadIsGood
  <2>2. /\ BlkInv'
        /\ \A b \in Blocks : bh'[b] # bad.bh[b] => \E i \in 1 .. Len(bad.q) : bad.q[i].b = b /\ Invalid(bad.q[i])
    <3>1. bad.do_hd = "none" /\ (bad.q = <<>> => bad.woke \/ hd.q = <<>>) /\ Good(bad, task)
      BY <1>3, <2>1
    <3>2. QED
      BY <1>4, <1>8, <3>1, HdRequestKeeps
  <2>3. bad.q \in Seq(Requests) /\ From(bad.q, hd.q)
    BY <1>3, <2>1 DEF Good, Sound
  <2>4. ASSUME NEW i \in 1 .. Len(hd.q), Fails(i) PROVE MayFail(i)
    <3>1. PICK b \in Blocks : b = hd.q[i].b
      BY <1>7
    <3>2. CASE bh'[b] # bad.bh[b]
      <4>1. PICK j \in 1 .. Len(bad.q) : bad.q[j].b = b /\ Invalid(bad.q[j])
        BY <2>2, <3>2
      <4>2. QED
        BY <2>3, <3>1, <4>1, RefusedMayFail
    <3>3. CASE bh'[b] = bad.bh[b]
      <4>1. bad.bh[b] # s.bh[b]
        BY <1>3, <2>4, <3>1, <3>3 DEF Fails
      <4>2. b = hd.q[1].b /\ hd.q[1].errors + 1 >= MAX_ERRORS
        BY <1>3, <2>1, <4>1
      <4>3. i = 1
        <5>1. 1 \in 1 .. Len(hd.q) /\ hd.q[1].b = hd.q[i].b
          BY <1>6, <3>1, <4>2
        <5>2. QED
          BY <1>5, <5>1 DEF Sound
      <4>4. QED
        BY <4>2, <4>3 DEF MayFail
    <3>4. QED
      BY <3>2, <3>3
  <2>5. QED
    BY <2>2, <2>4
<1>9. ASSUME do_hd_request(s, task) PROVE BlkInv' /\ \A i \in 1 .. Len(hd.q) : Fails(i) => MayFail(i)
  <2>1. /\ BlkInv'
        /\ \A b \in Blocks : bh'[b] # s.bh[b] => \E i \in 1 .. Len(s.q) : s.q[i].b = b /\ Invalid(s.q[i])
    <3>1. s.q = <<>> => s.woke \/ hd.q = <<>>
      BY <1>3
    <3>2. QED
      BY <1>3, <1>4, <1>9, <3>1, HdRequestKeeps
  <2>2. ASSUME NEW i \in 1 .. Len(hd.q), Fails(i) PROVE MayFail(i)
    <3>1. bh'[hd.q[i].b] # bh[hd.q[i].b]
      BY <2>2 DEF Fails
    <3>2. PICK j \in 1 .. Len(hd.q) : hd.q[j].b = hd.q[i].b /\ Invalid(hd.q[j])
      BY <1>3, <1>7, <2>1, <3>1
    <3>3. From(hd.q, hd.q)
      BY DEF From
    <3>4. QED
      BY <1>5, <3>2, <3>3, RefusedMayFail
  <2>3. QED
    BY <2>1, <2>2
<1>10. ASSUME Current(s).nr_sectors > 1, Leave(NextSector(s), task)
       PROVE  BlkInv' /\ \A i \in 1 .. Len(hd.q) : Fails(i) => MayFail(i)
  <2>1. PICK e : e = NextSector(s)
    OBVIOUS
  <2>2. s.q[1].nr_sectors > 1 /\ s.q # <<>>
    BY <1>3, <1>5, <1>6, <1>10 DEF Current
  <2>3. Good(e, task) /\ e.do_hd # "none" /\ e.q # <<>> /\ e.bh = s.bh
    BY <1>4, <2>1, <2>2, NextSectorIsGood
  <2>4. Leave(e, task)
    BY <1>10, <2>1
  <2>5. BlkInv' /\ bh' = bh
    BY <1>3, <1>4, <2>3, <2>4, LeaveKeeps
  <2>6. QED
    BY <2>5 DEF Fails
<1>11. ASSUME NEW ended, ended = end_request(s, TRUE), do_hd_request(ended, task)
       PROVE  BlkInv' /\ \A i \in 1 .. Len(hd.q) : Fails(i) => MayFail(i)
  <2> DEFINE u == TRUE
  <2>1. u
    OBVIOUS
  <2>2. ended = end_request(s, u) /\ u \in BOOLEAN
    BY <1>11
  <2> HIDE DEF u
  <2>3. /\ Ended(s, 1, ended)
        /\ ended.bh[s.q[1].b].uptodate = u
        /\ \A b \in Blocks : b # s.q[1].b => ended.bh[b] = s.bh[b]
    <3>1. s \in Drivers /\ s.q # <<>>
      BY <1>3, <1>5
    <3>2. QED
      BY <2>2, <3>1, EndRequestIs
  <2>4. Good(ended, task) /\ ended.woke /\ ended.do_hd = "none" /\ IsRest(hd.q, 1, ended.q)
    <3>1. Good(ended, task)
      BY <1>4, <2>3, EndedIsGood
    <3>2. QED
      BY <1>3, <2>3, <3>1 DEF Ended
  <2>5. /\ BlkInv'
        /\ \A b \in Blocks : bh'[b] # ended.bh[b] => \E i \in 1 .. Len(ended.q) : ended.q[i].b = b /\ Invalid(ended.q[i])
    <3>1. ended.q = <<>> => ended.woke \/ hd.q = <<>>
      BY <2>4
    <3>2. QED
      BY <1>4, <1>11, <2>4, <3>1, HdRequestKeeps
  <2>6. ended.q \in Seq(Requests) /\ From(ended.q, hd.q)
    <3>1. \A i \in 1 .. Len(ended.q) : ended.q[i] = hd.q[i + 1] /\ i + 1 \in 1 .. Len(hd.q)
      BY <1>6, <2>4 DEF IsRest
    <3>2. QED
      BY <2>4, <3>1 DEF From, IsRest
  <2>7. ASSUME NEW i \in 1 .. Len(hd.q), Fails(i) PROVE MayFail(i)
    <3>1. PICK b \in Blocks : b = hd.q[i].b
      BY <1>7
    <3>2. bh'[b] # ended.bh[b]
      <4>1. bh[b].lock /\ ~bh'[b].lock /\ ~bh'[b].uptodate
        BY <2>7, <3>1 DEF Fails
      <4>2. CASE b = s.q[1].b
        <5>1. ended.bh[b].uptodate
          BY <2>1, <2>3, <4>2
        <5>2. QED
          BY <4>1, <5>1
      <4>3. CASE b # s.q[1].b
        <5>1. ended.bh[b] = bh[b]
          BY <1>3, <2>3, <4>3
        <5>2. QED
          BY <4>1, <5>1
      <4>4. QED
        BY <4>2, <4>3
    <3>3. PICK j \in 1 .. Len(ended.q) : ended.q[j].b = b /\ Invalid(ended.q[j])
      BY <2>5, <3>2
    <3>4. QED
      BY <2>6, <3>1, <3>3, RefusedMayFail
  <2>8. QED
    BY <2>5, <2>7
<1>12. QED
  BY <1>1, <1>8, <1>9, <1>10, <1>11

\* c is the call of t, and its buffer is locked by t, or by none.
Mine(t, c) ==
    /\ ~Queued(hd.q, c.b)
    /\ \A u \in Tasks : Waits(task[u], c.b) => u = t
    /\ \A b \in Blocks : Waits(task[t], b) => b = c.b

\* The locks, when only t and its buffer change.
LEMMA LocksOfMine ==
    ASSUME BlkInv, NEW t \in Tasks, NEW c \in Calls, Mine(t, c), NEW buffers \in Buffers, NEW q, NEW tasks,
           \A b \in Blocks : b # c.b => (buffers[b].lock <=> bh[b].lock) /\ (Queued(q, b) <=> Queued(hd.q, b)),
           \A u \in Tasks : u # t => tasks[u] = task[u],
           \A b \in Blocks : Waits(tasks[t], b) => b = c.b,
           buffers[c.b].lock <=> Queued(q, c.b) \/ Waits(tasks[t], c.b),
           ~(Queued(q, c.b) /\ Waits(tasks[t], c.b))
    PROVE  LocksOK(buffers, q, tasks)
<1>1. LocksOK(bh, hd.q, task)
  BY DEF BlkInv
<1>2. ASSUME NEW b \in Blocks, b # c.b PROVE Held(tasks, b) <=> Held(task, b)
  BY <1>2 DEF Held, Mine
<1>3. Held(tasks, c.b) <=> Waits(tasks[t], c.b)
  BY DEF Held, Mine
<1>4. \A u, v \in Tasks, b \in Blocks : Waits(tasks[u], b) /\ Waits(tasks[v], b) => u = v
  <2> SUFFICES ASSUME NEW u \in Tasks, NEW v \in Tasks, NEW b \in Blocks, Waits(tasks[u], b), Waits(tasks[v], b)
               PROVE  u = v
    OBVIOUS
  <2>1. CASE b = c.b
    BY <2>1 DEF Mine
  <2>2. CASE b # c.b
    BY <1>1, <2>2 DEF LocksOK
  <2>3. QED
    BY <2>1, <2>2
<1>5. ASSUME NEW b \in Blocks PROVE /\ buffers[b].lock <=> Queued(q, b) \/ Held(tasks, b)
                                    /\ ~(Queued(q, b) /\ Held(tasks, b))
  <2>1. CASE b = c.b
    BY <1>3, <2>1
  <2>2. CASE b # c.b
    <3>1. /\ bh[b].lock <=> Queued(hd.q, b) \/ Held(task, b)
          /\ ~(Queued(hd.q, b) /\ Held(task, b))
      BY <1>1 DEF LocksOK
    <3>2. QED
      BY <1>2, <2>2, <3>1
  <2>3. QED
    BY <2>1, <2>2
<1>6. QED
  BY <1>4, <1>5 DEF LocksOK

\* A task that has returned is typed, and waits for nothing.
LEMMA ReturnIs ==
    ASSUME BlkInv, NEW t \in Tasks
    PROVE  /\ Return(t) \in [Tasks -> Calls]
           /\ Return(t)[t].pc = "user" /\ \A u \in Tasks : u # t => Return(t)[u] = task[u]
           /\ \A b \in Blocks : ~Waits(Return(t)[t], b)
           /\ \A u \in Tasks : Return(t)[u].pc = "asleep" => task[u].pc = "asleep"
<1>1. InUser \in Calls /\ InUser.pc = "user"
  <2>1. (CHOOSE b \in Blocks : TRUE) \in Blocks
    BY BlocksAssumption
  <2>2. QED
    BY <2>1 DEF InUser, Calls, Pcs, Cmds
<1>2. task \in [Tasks -> Calls]
  BY DEF BlkInv
<1>3. Return(t) \in [Tasks -> Calls] /\ Return(t)[t] = InUser /\ \A u \in Tasks : u # t => Return(t)[u] = task[u]
  BY <1>1, <1>2 DEF Return
<1>4. QED
  BY <1>1, <1>3 DEF Waits

\* The slot that make_request() takes is a free one.
LEMMA SlotIsFree ==
    ASSUME NEW cmd, Free(cmd) # {}, NEW slot, slot = CHOOSE i \in Free(cmd) : \A j \in Free(cmd) : i >= j
    PROVE  slot \in Slots /\ \A j \in DOMAIN hd.q : hd.q[j].slot # slot
<1>1. Free(cmd) \subseteq 0 .. NR_REQUEST - 1 /\ NR_REQUEST \in Nat
  BY NumbersAssumption DEF Free, Slots
<1>2. PICK T : T = {NR_REQUEST - i : i \in Free(cmd)}
  OBVIOUS
<1>3. T \subseteq Nat /\ T # {}
  BY <1>1, <1>2
<1>4. PICK x \in T : \A y \in T : x <= y
  BY <1>3, LeastOf
<1>5. PICK i \in Free(cmd) : x = NR_REQUEST - i
  BY <1>2
<1>6. \A j \in Free(cmd) : i >= j
  <2> SUFFICES ASSUME NEW j \in Free(cmd) PROVE i >= j
    OBVIOUS
  <2>1. NR_REQUEST - i <= NR_REQUEST - j
    BY <1>2, <1>4, <1>5
  <2>2. QED
    BY <1>1, <2>1
<1>7. slot \in Free(cmd)
  BY <1>6
<1>8. QED
  BY <1>7 DEF Free

\* The request is put into the list, or is the list, and started at once.
LEMMA AddRequestKeeps ==
    ASSUME BlkInv, NEW t \in Tasks, NEW c \in Calls, Mine(t, c),
           NEW r \in Requests, r.b = c.b, r.errors = 0, r.nr_sectors = 2,
           \A j \in DOMAIN hd.q : hd.q[j].slot # r.slot,
           NEW buffers \in Buffers, buffers = [bh EXCEPT ![c.b].lock = TRUE],
           add_request(Driver(buffers, hd), r, Return(t))
    PROVE  BlkInv' /\ \A i \in 1 .. Len(hd.q) : Queued(hd'.q, hd.q[i].b)
<1>1. PICK b \in Blocks : b = c.b /\ b = r.b
  BY DEF Calls
<1>2. bh \in Buffers /\ hd.q \in Seq(Requests) /\ Sound(hd.q)
  BY DEF BlkInv, Sound
<1>3. PICK clean : clean = [buffers EXCEPT ![b].dirt = FALSE]
  OBVIOUS
<1>4. clean \in Buffers /\ clean[b].lock /\ \A x \in Blocks : x # b => clean[x] = bh[x]
  BY <1>1, <1>2, <1>3 DEF Buffers
<1>5. PICK d : d = Driver(buffers, hd)
  OBVIOUS
<1>6. /\ d \in Drivers /\ d.bh = buffers /\ d.q = hd.q /\ d.do_hd = hd.do_hd /\ ~d.woke
      /\ d.do_hd = "none" <=> d.q = <<>>
  BY <1>5, DriverIs
<1>7. PICK s : s = [d EXCEPT !.bh = clean]
  OBVIOUS
<1>8. s = [d EXCEPT !.bh[r.b].dirt = FALSE]
  BY <1>1, <1>3, <1>6, <1>7 DEF Drivers
<1>9. /\ s \in Drivers /\ s.bh = clean /\ s.q = hd.q /\ s.do_hd = hd.do_hd
      /\ s.do_hd = "none" <=> s.q = <<>>
  BY <1>4, <1>6, <1>7 DEF Drivers
<1>10. /\ Return(t) \in [Tasks -> Calls]
       /\ \A u \in Tasks : u # t => Return(t)[u] = task[u]
       /\ \A x \in Blocks : ~Waits(Return(t)[t], x)
       /\ \A u \in Tasks : Return(t)[u].pc = "asleep" => task[u].pc = "asleep"
  BY ReturnIs
<1>11. ASSUME NEW p, \A x \in Blocks : Queued(p, x) <=> Queued(hd.q, x) \/ x = b
       PROVE  LocksOK(clean, p, Return(t))
  <2>1. \A x \in Blocks : x # c.b => (clean[x].lock <=> bh[x].lock) /\ (Queued(p, x) <=> Queued(hd.q, x))
    BY <1>1, <1>4, <1>11
  <2>2. clean[c.b].lock /\ Queued(p, c.b) /\ ~Waits(Return(t)[t], c.b)
    BY <1>1, <1>4, <1>10, <1>11
  <2>3. QED
    BY <1>4, <1>10, <2>1, <2>2, LocksOfMine
<1>12. \A i \in 1 .. Len(hd.q) : hd.q[i].b # r.b /\ hd.q[i].slot # r.slot
  <2>1. \A i \in 1 .. Len(hd.q) : hd.q[i].b # r.b
    BY <1>1 DEF Mine, Queued
  <2>2. QED
    BY <1>2, <2>1, LenProperties
<1>13. CASE s.q = <<>>
  <2>1. PICK one : one = [s EXCEPT !.q = <<r>>]
    OBVIOUS
  <2>2. do_hd_request(one, Return(t))
    BY <1>5, <1>8, <1>13, <2>1 DEF add_request
  <2>3. <<r>> \in Seq(Requests) /\ Len(<<r>>) = 1 /\ <<r>>[1] = r
    OBVIOUS
  <2>4. one \in Drivers /\ one.q = <<r>> /\ one.bh = clean /\ one.do_hd = "none"
    BY <1>9, <1>13, <2>1, <2>3 DEF Drivers
  <2>5. \A x \in Blocks : Queued(<<r>>, x) <=> Queued(hd.q, x) \/ x = b
    <3>1. Len(hd.q) = 0
      BY <1>9, <1>13, EmptySeq
    <3>2. \A x \in Blocks : ~Queued(hd.q, x)
      BY <3>1 DEF Queued
    <3>3. \A x \in Blocks : Queued(<<r>>, x) <=> x = b
      BY <1>1, <2>3 DEF Queued
    <3>4. QED
      BY <3>2, <3>3
  <2>6. Sound(<<r>>)
    BY <2>3, NumbersAssumption DEF Sound, TurnsOnce
  <2>7. Good(one, Return(t))
    BY <1>11, <2>4, <2>5, <2>6 DEF Good
  <2>8. one.q = <<>> => one.woke \/ hd.q = <<>>
    BY <1>9, <1>13
  <2>9. BlkInv'
    BY <1>10, <2>2, <2>4, <2>7, <2>8, HdRequestKeeps
  <2>10. Len(hd.q) = 0
    BY <1>9, <1>13, EmptySeq
  <2>11. QED
    BY <2>9, <2>10
<1>14. CASE s.q # <<>>
  <2>1. PICK at : at = Place(hd.q, r)
    OBVIOUS
  <2>2. at \in 1 .. Len(hd.q)
    BY <1>2, <1>9, <1>14, <2>1, PlaceIs
  <2>3. PICK p : p = SubSeq(hd.q, 1, at) \o <<r>> \o SubSeq(hd.q, at + 1, Len(hd.q))
    OBVIOUS
  <2>4. IsLonger(hd.q, at, r, p)
    BY <1>2, <2>2, <2>3, InsertIsLonger
  <2>5. PICK more : more = [s EXCEPT !.q = p]
    OBVIOUS
  <2>6. Leave(more, Return(t))
    <3>1. more = [s EXCEPT !.q = SubSeq(@, 1, at) \o <<r>> \o SubSeq(@, at + 1, Len(@))]
      BY <1>9, <2>3, <2>5 DEF Drivers
    <3>2. Place(s.q, r) = at
      BY <1>9, <2>1
    <3>3. QED
      BY <1>5, <1>8, <1>14, <3>1, <3>2 DEF add_request
  <2>7. Len(hd.q) \in Nat \ {0} /\ p \in Seq(Requests) /\ Len(p) = Len(hd.q) + 1
    BY <1>2, <1>9, <1>14, <2>4, EmptySeq DEF IsLonger
  <2>8. p # <<>>
    BY <2>7, EmptySeq
  <2>9. \A x \in Blocks : Queued(p, x) <=> Queued(hd.q, x) \/ x = b
    <3>1. ASSUME NEW x \in Blocks, Queued(p, x) PROVE Queued(hd.q, x) \/ x = b
      <4>1. PICK i \in 1 .. Len(p) : p[i].b = x
        BY <3>1 DEF Queued
      <4>2. CASE i <= at
        <5>1. i \in 1 .. at /\ i \in 1 .. Len(hd.q)
          BY <2>2, <2>7, <4>2
        <5>2. hd.q[i].b = x
          BY <2>4, <4>1, <5>1 DEF IsLonger
        <5>3. QED
          BY <5>1, <5>2 DEF Queued
      <4>3. CASE i = at + 1
        BY <1>1, <2>4, <4>1, <4>3 DEF IsLonger
      <4>4. CASE i > at + 1
        <5>1. i - 1 \in at + 1 .. Len(hd.q) /\ i - 1 \in 1 .. Len(hd.q) /\ (i - 1) + 1 = i
          BY <2>2, <2>7, <4>4
        <5>2. hd.q[i - 1].b = x
          BY <2>4, <4>1, <5>1 DEF IsLonger
        <5>3. QED
          BY <5>1, <5>2 DEF Queued
      <4>5. QED
        BY <2>2, <2>7, <4>2, <4>3, <4>4
    <3>2. ASSUME NEW x \in Blocks, Queued(hd.q, x) PROVE Queued(p, x)
      <4>1. PICK i \in 1 .. Len(hd.q) : hd.q[i].b = x
        BY <3>2 DEF Queued
      <4>2. CASE i <= at
        <5>1. i \in 1 .. at /\ i \in 1 .. Len(p)
          BY <2>2, <2>7, <4>2
        <5>2. p[i].b = x
          BY <2>4, <4>1, <5>1 DEF IsLonger
        <5>3. QED
          BY <5>1, <5>2 DEF Queued
      <4>3. CASE i > at
        <5>1. i \in at + 1 .. Len(hd.q) /\ i + 1 \in 1 .. Len(p)
          BY <2>2, <2>7, <4>3
        <5>2. p[i + 1].b = x
          BY <2>4, <4>1, <5>1 DEF IsLonger
        <5>3. QED
          BY <5>1, <5>2 DEF Queued
      <4>4. QED
        BY <2>2, <2>7, <4>2, <4>3
    <3>3. Queued(p, b)
      <4>1. at + 1 \in 1 .. Len(p) /\ p[at + 1] = r
        BY <2>2, <2>4, <2>7 DEF IsLonger
      <4>2. QED
        BY <1>1, <4>1 DEF Queued
    <3>4. QED
      BY <3>1, <3>2, <3>3
  <2>10. Sound(p)
    <3>1. hd.q # <<>>
      BY <1>9, <1>14
    <3>2. QED
      BY <1>2, <1>12, <2>1, <2>4, <3>1, LongerIsSound
  <2>11. more \in Drivers /\ more.q = p /\ more.bh = clean /\ more.do_hd = s.do_hd
    BY <1>9, <2>5, <2>7 DEF Drivers
  <2>12. Good(more, Return(t)) /\ more.q # <<>> /\ more.do_hd # "none"
    BY <1>9, <1>11, <1>14, <2>8, <2>9, <2>10, <2>11 DEF Good
  <2>13. BlkInv' /\ hd'.q = p
    BY <1>10, <2>6, <2>11, <2>12, LeaveKeeps
  <2>14. \A i \in 1 .. Len(hd.q) : Queued(hd'.q, hd.q[i].b)
    <3>1. ASSUME NEW i \in 1 .. Len(hd.q) PROVE hd.q[i].b \in Blocks /\ Queued(hd.q, hd.q[i].b)
      <4>1. hd.q[i] \in Requests
        BY <1>2, ElementOfSeq
      <4>2. QED
        BY <4>1 DEF Requests, Queued
    <3>2. QED
      BY <2>9, <2>13, <3>1
  <2>15. QED
    BY <2>13, <2>14
<1>15. QED
  BY <1>13, <1>14

\* make_request() from repeat: the list has another request, or the call gives up, or waits.
LEMMA ScanKeeps ==
    ASSUME BlkInv, NEW t \in Tasks, NEW c \in Calls, Mine(t, c), Scan(t, c)
    PROVE  BlkInv' /\ \A i \in 1 .. Len(hd.q) : Queued(hd'.q, hd.q[i].b)
<1>1. PICK b \in Blocks : b = c.b
  BY DEF Calls
<1>2. bh \in Buffers /\ hd.q \in Seq(Requests) /\ Sound(hd.q) /\ task \in [Tasks -> Calls]
  BY DEF BlkInv, Sound
<1>3. PICK buffers : buffers = [bh EXCEPT ![c.b].lock = TRUE]
  OBVIOUS
<1>4. buffers \in Buffers /\ buffers[b].lock /\ \A x \in Blocks : x # b => buffers[x] = bh[x]
  BY <1>1, <1>2, <1>3 DEF Buffers
<1>5. /\ Return(t) \in [Tasks -> Calls]
      /\ \A u \in Tasks : u # t => Return(t)[u] = task[u]
      /\ \A x \in Blocks : ~Waits(Return(t)[t], x)
      /\ \A u \in Tasks : Return(t)[u].pc = "asleep" => task[u].pc = "asleep"
  BY ReturnIs
<1>6. ~Queued(hd.q, b)
  BY <1>1 DEF Mine
<1>7. \A i \in 1 .. Len(hd.q) : Queued(hd.q, hd.q[i].b)
  BY DEF Queued
<1>8. CASE Free(c.rw) # {}
  <2>1. PICK slot : slot = CHOOSE i \in Free(c.rw) : \A j \in Free(c.rw) : i >= j
    OBVIOUS
  <2>2. slot \in Slots /\ \A j \in DOMAIN hd.q : hd.q[j].slot # slot
    BY <1>8, <2>1, SlotIsFree
  <2>3. PICK r : r = [slot |-> slot, b |-> c.b, cmd |-> c.rw, errors |-> 0, nr_sectors |-> 2]
    OBVIOUS
  <2>4. r \in Requests /\ r.b = c.b /\ r.errors = 0 /\ r.nr_sectors = 2 /\ r.slot = slot
    BY <1>1, <2>2, <2>3, NumbersAssumption DEF Requests, Calls
  <2>5. add_request(Driver(buffers, hd), r, Return(t))
    BY <1>3, <1>8, <2>1, <2>3 DEF Scan
  <2>6. QED
    BY <1>3, <1>4, <2>2, <2>4, <2>5, AddRequestKeeps
<1>9. CASE Free(c.rw) = {} /\ c.ahead
  <2>1. PICK open : open = [bh EXCEPT ![c.b].lock = FALSE]
    OBVIOUS
  <2>2. open \in Buffers /\ ~open[b].lock /\ \A x \in Blocks : x # b => open[x] = bh[x]
    BY <1>1, <1>2, <2>1 DEF Buffers
  <2>3. PICK s : s = Driver(open, hd)
    OBVIOUS
  <2>4. Leave(s, Return(t))
    BY <1>9, <2>1, <2>3 DEF Scan
  <2>5. /\ s \in Drivers /\ s.bh = open /\ s.q = hd.q /\ Sound(s.q)
        /\ s.do_hd = "none" <=> s.q = <<>>
    BY <2>2, <2>3, DriverIs
  <2>6. LocksOK(open, hd.q, Return(t))
    <3>1. ~open[c.b].lock /\ ~Queued(hd.q, c.b) /\ ~Waits(Return(t)[t], c.b)
      BY <1>1, <1>5, <1>6, <2>2
    <3>2. \A x \in Blocks : x # c.b => (open[x].lock <=> bh[x].lock) /\ (Queued(hd.q, x) <=> Queued(hd.q, x))
      BY <1>1, <2>2
    <3>3. QED
      BY <1>5, <2>2, <3>1, <3>2, LocksOfMine
  <2>7. Good(s, Return(t)) /\ (s.q = <<>> => s.woke \/ hd.q = <<>>)
    BY <2>5, <2>6 DEF Good
  <2>8. BlkInv' /\ hd'.q = hd.q
    BY <1>5, <2>4, <2>5, <2>7, LeaveKeeps
  <2>9. QED
    BY <1>7, <2>8
<1>10. CASE Free(c.rw) = {} /\ ~c.ahead
  <2>1. PICK full : full = [c EXCEPT !.pc = "full"]
    OBVIOUS
  <2>2. full \in Calls /\ full.pc = "full" /\ full.b = b
    BY <1>1, <2>1 DEF Calls, Pcs
  <2>3. PICK tasks : tasks = [task EXCEPT ![t] = full]
    OBVIOUS
  <2>4. tasks \in [Tasks -> Calls] /\ tasks[t] = full /\ \A u \in Tasks : u # t => tasks[u] = task[u]
    BY <1>2, <2>2, <2>3
  <2>5. PICK s : s = Driver(buffers, hd)
    OBVIOUS
  <2>6. Leave(s, tasks)
    BY <1>3, <1>10, <2>1, <2>3, <2>5 DEF Scan
  <2>7. /\ s \in Drivers /\ s.bh = buffers /\ s.q = hd.q /\ Sound(s.q)
        /\ s.do_hd = "none" <=> s.q = <<>>
    BY <1>4, <2>5, DriverIs
  <2>8. LocksOK(buffers, hd.q, tasks)
    <3>1. Waits(tasks[t], b) /\ \A x \in Blocks : Waits(tasks[t], x) => x = b
      BY <2>2, <2>4 DEF Waits
    <3>2. buffers[c.b].lock /\ ~Queued(hd.q, c.b) /\ Waits(tasks[t], c.b)
      BY <1>1, <1>4, <1>6, <3>1
    <3>3. \A x \in Blocks : x # c.b => (buffers[x].lock <=> bh[x].lock) /\ (Queued(hd.q, x) <=> Queued(hd.q, x))
      BY <1>1, <1>4
    <3>4. \A x \in Blocks : Waits(tasks[t], x) => x = c.b
      BY <1>1, <3>1
    <3>5. QED
      BY <1>4, <2>4, <3>2, <3>3, <3>4, LocksOfMine
  <2>9. Good(s, tasks) /\ (s.q = <<>> => s.woke \/ hd.q = <<>>)
    BY <2>7, <2>8 DEF Good
  <2>10. \A u \in Tasks : tasks[u].pc = "asleep" => task[u].pc = "asleep"
    BY <2>2, <2>4
  <2>11. BlkInv' /\ hd'.q = hd.q
    BY <2>4, <2>6, <2>7, <2>9, <2>10, LeaveKeeps
  <2>12. QED
    BY <1>7, <2>11
<1>11. QED
  BY <1>8, <1>9, <1>10

\* A task that is not in make_request(), and whose buffer is not locked, gets it.
LEMMA MakeRequestKeeps ==
    ASSUME BlkInv, NEW t \in Tasks, NEW c \in Calls, ~bh[c.b].lock, task[t].pc \in {"user", "lock_buffer"},
           make_request(t, c)
    PROVE  BlkInv' /\ \A i \in 1 .. Len(hd.q) : Queued(hd'.q, hd.q[i].b)
<1>1. LocksOK(bh, hd.q, task) /\ bh \in Buffers /\ c.b \in Blocks
  BY DEF BlkInv, Calls
<1>2. ~Queued(hd.q, c.b) /\ ~Held(task, c.b)
  BY <1>1 DEF LocksOK
<1>3. \A b \in Blocks : ~Waits(task[t], b)
  BY DEF Waits
<1>4. Mine(t, c)
  BY <1>2, <1>3 DEF Mine, Held
<1>5. CASE Scan(t, c)
  BY <1>4, <1>5, ScanKeeps
<1>6. CASE Leave(Driver(bh, hd), Return(t))
  <2>1. PICK s : s = Driver(bh, hd)
    OBVIOUS
  <2>2. /\ s \in Drivers /\ s.bh = bh /\ s.q = hd.q /\ Sound(s.q)
        /\ s.do_hd = "none" <=> s.q = <<>>
    BY <1>1, <2>1, DriverIs
  <2>3. /\ Return(t) \in [Tasks -> Calls]
        /\ \A u \in Tasks : u # t => Return(t)[u] = task[u]
        /\ \A x \in Blocks : ~Waits(Return(t)[t], x)
        /\ \A u \in Tasks : Return(t)[u].pc = "asleep" => task[u].pc = "asleep"
    BY ReturnIs
  <2>4. \A u \in Tasks, b \in Blocks : Waits(Return(t)[u], b) <=> Waits(task[u], b)
    BY <1>3, <2>3
  <2>5. LocksOK(bh, hd.q, Return(t))
    BY <1>1, <2>4, SameWaiters
  <2>6. Good(s, Return(t)) /\ (s.q = <<>> => s.woke \/ hd.q = <<>>)
    BY <2>2, <2>5 DEF Good
  <2>7. BlkInv' /\ hd'.q = hd.q
    BY <1>6, <2>1, <2>2, <2>3, <2>6, LeaveKeeps
  <2>8. QED
    BY <2>7 DEF Queued
<1>7. QED
  BY <1>5, <1>6 DEF make_request

\* A task moves, and neither the locks nor the list change.
LEMMA MoveKeeps ==
    ASSUME BlkInv, NEW t \in Tasks, NEW c \in Calls, task' = [task EXCEPT ![t] = c], UNCHANGED <<bh, hd, drained>>,
           \A b \in Blocks : Waits(c, b) <=> Waits(task[t], b),
           c.pc \in {"full", "asleep"} => task[t].pc \in {"full", "asleep"}
    PROVE  BlkInv'
<1>1. task \in [Tasks -> Calls] /\ LocksOK(bh, hd.q, task)
  BY DEF BlkInv
<1>2. task' \in [Tasks -> Calls] /\ task'[t] = c /\ \A u \in Tasks : u # t => task'[u] = task[u]
  BY <1>1
<1>3. \A u \in Tasks, b \in Blocks : Waits(task'[u], b) <=> Waits(task[u], b)
  BY <1>2
<1>4. LocksOK(bh, hd.q, task')
  BY <1>1, <1>3, SameWaiters
<1>5. \A u \in Tasks : task'[u].pc \in {"full", "asleep"} /\ u \notin drained => hd.q # <<>>
  BY <1>2 DEF BlkInv
<1>6. QED
  BY <1>2, <1>4, <1>5 DEF BlkInv

LEMMA CallKeeps ==
    ASSUME BlkInv, NEW t \in Tasks, NEW rw \in Cmds, NEW ahead \in BOOLEAN, NEW b \in Blocks, Call(t, rw, ahead, b)
    PROVE  BlkInv' /\ \A i \in 1 .. Len(hd.q) : Queued(hd'.q, hd.q[i].b)
<1>1. PICK c : c = [pc |-> "lock_buffer", rw |-> rw, ahead |-> ahead, b |-> b]
  OBVIOUS
<1>2. c \in Calls /\ c.b = b /\ c.pc = "lock_buffer"
  BY <1>1 DEF Calls, Pcs
<1>3. task[t].pc = "user"
  BY DEF Call
<1>4. CASE ~bh[b].lock
  <2>1. make_request(t, c)
    BY <1>1, <1>4 DEF Call
  <2>2. QED
    BY <1>2, <1>3, <1>4, <2>1, MakeRequestKeeps
<1>5. CASE bh[b].lock
  <2>1. task' = [task EXCEPT ![t] = c] /\ UNCHANGED <<bh, hd, drained>>
    BY <1>1, <1>5 DEF Call
  <2>2. \A x \in Blocks : ~Waits(c, x) /\ ~Waits(task[t], x)
    BY <1>2, <1>3 DEF Waits
  <2>3. BlkInv'
    BY <1>2, <2>1, <2>2, MoveKeeps
  <2>4. QED
    BY <2>1, <2>3 DEF Queued
<1>6. QED
  BY <1>4, <1>5

LEMMA LockBufferKeeps ==
    ASSUME BlkInv, NEW t \in Tasks, LockBuffer(t)
    PROVE  BlkInv' /\ \A i \in 1 .. Len(hd.q) : Queued(hd'.q, hd.q[i].b)
<1>1. task[t] \in Calls
  BY DEF BlkInv
<1>2. QED
  BY <1>1, MakeRequestKeeps DEF LockBuffer

LEMMA SleepOnRequestKeeps ==
    ASSUME BlkInv, NEW t \in Tasks, SleepOnRequest(t)
    PROVE  BlkInv' /\ \A i \in 1 .. Len(hd.q) : Queued(hd'.q, hd.q[i].b)
<1>1. task[t] \in Calls /\ task \in [Tasks -> Calls]
  BY DEF BlkInv
<1>2. PICK c : c = [task[t] EXCEPT !.pc = "asleep"]
  OBVIOUS
<1>3. c \in Calls /\ c.pc = "asleep" /\ c.b = task[t].b
  BY <1>1, <1>2 DEF Calls, Pcs
<1>4. task[t].pc = "full" /\ task' = [task EXCEPT ![t] = c] /\ UNCHANGED <<bh, hd, drained>>
  BY <1>1, <1>2 DEF SleepOnRequest
<1>5. \A b \in Blocks : Waits(c, b) <=> Waits(task[t], b)
  BY <1>3, <1>4 DEF Waits
<1>6. BlkInv'
  BY <1>3, <1>4, <1>5, MoveKeeps
<1>7. QED
  BY <1>4, <1>6 DEF Queued

LEMMA RepeatKeeps ==
    ASSUME BlkInv, NEW t \in Tasks, Repeat(t)
    PROVE  BlkInv' /\ \A i \in 1 .. Len(hd.q) : Queued(hd'.q, hd.q[i].b)
<1>1. task[t] \in Calls /\ LocksOK(bh, hd.q, task) /\ task[t].pc = "repeat" /\ Scan(t, task[t])
  BY DEF BlkInv, Repeat
<1>2. task[t].b \in Blocks /\ Waits(task[t], task[t].b)
  BY <1>1 DEF Calls, Waits
<1>3. ~Queued(hd.q, task[t].b) /\ \A u \in Tasks : Waits(task[u], task[t].b) => u = t
  BY <1>1, <1>2 DEF LocksOK, Held
<1>4. \A b \in Blocks : Waits(task[t], b) => b = task[t].b
  BY DEF Waits
<1>5. Mine(t, task[t])
  BY <1>3, <1>4 DEF Mine
<1>6. QED
  BY <1>1, <1>5, ScanKeeps

LEMMA UseBufferKeeps ==
    ASSUME BlkInv, NEW b \in Blocks, UseBuffer(b)
    PROVE  BlkInv' /\ \A i \in 1 .. Len(hd.q) : Queued(hd'.q, hd.q[i].b)
<1>1. bh \in Buffers /\ LocksOK(bh, hd.q, task)
  BY DEF BlkInv
<1>2. bh' \in Buffers /\ (\A x \in Blocks : bh'[x].lock = bh[x].lock) /\ UNCHANGED <<hd, task, drained>>
  <2>1. UNCHANGED <<hd, task, drained>>
    BY DEF UseBuffer
  <2>2. CASE bh' = [bh EXCEPT ![b].dirt = TRUE]
    BY <1>1, <2>1, <2>2 DEF Buffers
  <2>3. CASE bh' = [bh EXCEPT ![b].uptodate = FALSE]
    BY <1>1, <2>1, <2>3 DEF Buffers
  <2>4. QED
    BY <2>2, <2>3 DEF UseBuffer
<1>3. LocksOK(bh', hd.q, task)
  BY <1>1, <1>2 DEF LocksOK
<1>4. BlkInv'
  BY <1>2, <1>3 DEF BlkInv
<1>5. QED
  BY <1>2, <1>4 DEF Queued

LEMMA BlkInit == Init => BlkInv
<1> SUFFICES ASSUME Init PROVE BlkInv
  OBVIOUS
<1>1. bh \in Buffers /\ hd \in Disks /\ drained \subseteq Tasks /\ hd.q = <<>> /\ hd.do_hd = "none"
  BY DEF Init, Buffers, Disks, Handlers
<1>2. InUser \in Calls /\ InUser.pc = "user"
  <2>1. (CHOOSE b \in Blocks : TRUE) \in Blocks
    BY BlocksAssumption
  <2>2. QED
    BY <2>1 DEF InUser, Calls, Pcs, Cmds
<1>3. task \in [Tasks -> Calls] /\ \A t \in Tasks : task[t].pc = "user"
  BY <1>2 DEF Init
<1>4. Sound(<<>>)
  BY EmptySeq DEF Sound, TurnsOnce
<1>5. LocksOK(bh, hd.q, task)
  <2>1. \A b \in Blocks : ~Queued(hd.q, b)
    BY <1>1, EmptySeq DEF Queued
  <2>2. \A t \in Tasks, b \in Blocks : ~Waits(task[t], b)
    BY <1>3 DEF Waits
  <2>3. \A b \in Blocks : ~bh[b].lock
    BY DEF Init
  <2>4. QED
    BY <2>1, <2>2, <2>3 DEF LocksOK, Held
<1>6. QED
  BY <1>1, <1>3, <1>4, <1>5 DEF BlkInv

\* The invariant is kept, and a transfer fails only for one of the three reasons.
LEMMA BlkStep ==
    ASSUME BlkInv, [Next]_vars
    PROVE  BlkInv' /\ \A i \in 1 .. Len(hd.q) : Fails(i) => MayFail(i)
<1>1. CASE UNCHANGED vars
  BY <1>1 DEF vars, BlkInv, Fails
<1>2. CASE Disk
  BY <1>2, InterruptKeeps DEF Disk
<1>3. ASSUME BlkInv', \A i \in 1 .. Len(hd.q) : Queued(hd'.q, hd.q[i].b)
      PROVE  BlkInv' /\ \A i \in 1 .. Len(hd.q) : Fails(i) => MayFail(i)
  <2>1. hd.q \in Seq(Requests) /\ LocksOK(bh', hd'.q, task')
    BY <1>3 DEF BlkInv, Sound
  <2>2. ASSUME NEW i \in 1 .. Len(hd.q) PROVE bh'[hd.q[i].b].lock
    <3>1. hd.q[i] \in Requests
      BY <2>1, ElementOfSeq
    <3>2. hd.q[i].b \in Blocks
      BY <3>1 DEF Requests
    <3>3. QED
      BY <1>3, <2>1, <3>2 DEF LocksOK
  <2>3. QED
    BY <1>3, <2>2 DEF Fails
<1>4. CASE \E t \in Tasks : \/ \E b \in Blocks, rw \in Cmds, ahead \in BOOLEAN : Call(t, rw, ahead, b)
                            \/ LockBuffer(t)
                            \/ SleepOnRequest(t)
                            \/ Repeat(t)
  BY <1>3, <1>4, CallKeeps, LockBufferKeeps, SleepOnRequestKeeps, RepeatKeeps
<1>5. CASE \E b \in Blocks : UseBuffer(b)
  BY <1>3, <1>5, UseBufferKeeps
<1>6. QED
  BY <1>1, <1>2, <1>4, <1>5 DEF Next

-----------------------------------------------------------------------------
(* The theorems. *)

\* Every reachable state has the inductive invariant.
THEOREM BlkInvAlways == Spec => []BlkInv
<1>1. BlkInv /\ [Next]_vars => BlkInv'
  BY BlkStep
<1>2. QED
  BY BlkInit, <1>1, PTL DEF Spec

\* A set with at most one element has at most one.
LEMMA AtMostOne ==
    ASSUME NEW S, \A x, y \in S : x = y
    PROVE  IsFiniteSet(S) /\ Cardinality(S) = IF S = {} THEN 0 ELSE 1
<1>1. CASE S = {}
  BY <1>1, FS_EmptySet
<1>2. CASE S # {}
  <2>1. PICK x : S = {x}
    BY <1>2
  <2>2. QED
    BY <1>2, <2>1, FS_Singleton
<1>3. QED
  BY <1>1, <1>2

\* There are never more requests than the array has slots.
LEMMA RequestsFit ==
    ASSUME NEW q, Sound(q)
    PROVE  Len(q) <= NR_REQUEST
<1>1. q \in Seq(Requests) /\ Len(q) \in Nat
  BY LenProperties DEF Sound
<1>2. PICK f : f = [i \in 1 .. Len(q) |-> q[i].slot]
  OBVIOUS
<1>3. f \in Injection(1 .. Len(q), Slots)
  <2>1. \A i \in 1 .. Len(q) : q[i] \in Requests
    BY <1>1, ElementOfSeq
  <2>2. \A i \in 1 .. Len(q) : q[i].slot \in Slots
    BY <2>1 DEF Requests
  <2>3. f \in [1 .. Len(q) -> Slots]
    BY <1>2, <2>2
  <2>4. \A i, j \in 1 .. Len(q) : f[i] = f[j] => i = j
    BY <1>2 DEF Sound
  <2>5. QED
    BY <2>3, <2>4 DEF Injection, IsInjective
<1>4. IsFiniteSet(Slots) /\ Cardinality(Slots) = NR_REQUEST
  <2>1. 0 \in Int /\ NR_REQUEST - 1 \in Int /\ ~(0 > NR_REQUEST - 1) /\ (NR_REQUEST - 1) - 0 + 1 = NR_REQUEST
    BY NumbersAssumption
  <2>2. QED
    BY <2>1, FS_Interval DEF Slots
<1>5. Cardinality(1 .. Len(q)) <= NR_REQUEST
  BY <1>3, <1>4, FS_Injection
<1>6. Cardinality(1 .. Len(q)) = Len(q)
  BY <1>1, FS_Interval
<1>7. QED
  BY <1>5, <1>6

\* The invariant says that the list is consistent.
LEMMA BlkInvConsistent ==
    ASSUME BlkInv
    PROVE  ListConsistent
<1>1. hd.q \in Seq(Requests) /\ Len(hd.q) \in Nat /\ DOMAIN hd.q = 1 .. Len(hd.q) /\ Sound(hd.q)
  BY LenProperties DEF BlkInv, Sound
<1>2. TypeOK
  <2>1. IsQueue(hd.q)
    <3>1. \A i \in DOMAIN hd.q : hd.q[i] \in Requests
      BY <1>1, ElementOfSeq
    <3>2. QED
      BY <1>1, <3>1, RequestsFit DEF IsQueue
  <2>2. DOMAIN hd = {"q", "do_hd", "reset", "recalibrate"}
    BY DEF BlkInv, Disks
  <2>3. hd.do_hd \in Handlers /\ hd.reset \in BOOLEAN /\ hd.recalibrate \in BOOLEAN
    BY DEF BlkInv, Disks
  <2>4. QED
    BY <2>1, <2>2, <2>3 DEF TypeOK, BlkInv, Buffers, Calls
<1>3. ASSUME NEW b \in Blocks
      PROVE  Cardinality({i \in DOMAIN hd.q : hd.q[i].b = b})
               + Cardinality({t \in Tasks : task[t].b = b /\ task[t].pc \in {"full", "asleep", "repeat"}})
               = IF bh[b].lock THEN 1 ELSE 0
  <2>1. PICK R : R = {i \in DOMAIN hd.q : hd.q[i].b = b}
    OBVIOUS
  <2>2. PICK W : W = {t \in Tasks : task[t].b = b /\ task[t].pc \in {"full", "asleep", "repeat"}}
    OBVIOUS
  <2>3. LocksOK(bh, hd.q, task)
    BY DEF BlkInv
  <2>4. /\ R # {} <=> Queued(hd.q, b)
        /\ W # {} <=> Held(task, b)
    BY <1>1, <2>1, <2>2 DEF Queued, Held, Waits
  <2>5. \A i, j \in R : i = j
    BY <1>1, <2>1 DEF Sound
  <2>6. \A t, u \in W : t = u
    BY <2>2, <2>3 DEF LocksOK, Waits
  <2>7. Cardinality(R) = (IF R = {} THEN 0 ELSE 1) /\ Cardinality(W) = (IF W = {} THEN 0 ELSE 1)
    BY <2>5, <2>6, AtMostOne
  <2>8. (bh[b].lock <=> R # {} \/ W # {}) /\ ~(R # {} /\ W # {})
    BY <2>3, <2>4 DEF LocksOK
  <2>9. Cardinality(R) + Cardinality(W) = IF bh[b].lock THEN 1 ELSE 0
    BY <2>7, <2>8
  <2>10. QED
    BY <2>1, <2>2, <2>9
<1>4. OneTurn
  <2>1. PICK S : S = {i \in 1 .. Len(hd.q) - 1 : ~IN_ORDER(hd.q[i], hd.q[i + 1])}
    OBVIOUS
  <2>2. \A i, j \in S : i = j
    BY <1>1, <2>1 DEF Sound, TurnsOnce, Turns
  <2>3. Cardinality(S) <= 1
    BY <2>2, AtMostOne
  <2>4. QED
    BY <2>1, <2>3 DEF OneTurn
<1>5. QED
  BY <1>2, <1>3, <1>4 DEF ListConsistent, LockedIsQueued

\* add_request(), end_request() and the retries of hd.c keep the list in one turn of the disk and its
\* locks with their owners: nobody ends a request whose buffer is not locked, and no lock is lost.
THEOREM ListIsConsistent == Spec => []ListConsistent
  BY BlkInvAlways, BlkInvConsistent, PTL

\* Who sleeps on wait_for_request has a request to wait for, unless the interrupts took the last one
\* between make_request()'s search and its sleep_on().
THEOREM SlotWaitersAreWoken == Spec => []NoLostSlotWaiter
<1>1. BlkInv => NoLostSlotWaiter
  BY DEF BlkInv, NoLostSlotWaiter
<1>2. QED
  BY BlkInvAlways, <1>1, PTL

\* do_hd_request() and bad_rw_intr() fail a transfer only when it is beyond the end of the partition
\* or has met MAX_ERRORS errors, or is the last block's second sector tried again.
THEOREM FailuresHaveReasons == Spec => FailsOnlyAfterRetries
<1>1. BlkInv /\ [Next]_vars
        => [\A i \in DOMAIN hd.q :
              LET r == hd.q[i]
              IN bh[r.b].lock /\ ~bh'[r.b].lock /\ ~bh'[r.b].uptodate
                   => \/ 2 * r.b + 2 > NrSects
                      \/ i = 1 /\ r.errors + 1 >= MAX_ERRORS
                      \/ i = 1 /\ r.nr_sectors = 1 /\ 2 * r.b + 2 = NrSects]_vars
  <2> SUFFICES ASSUME BlkInv, [Next]_vars, NEW i \in DOMAIN hd.q, Fails(i)
               PROVE  MayFail(i)
    BY DEF Fails, MayFail
  <2>1. i \in 1 .. Len(hd.q)
    BY LenProperties DEF BlkInv, Sound
  <2>2. QED
    BY <2>1, BlkStep
<1>2. QED
  BY BlkInvAlways, <1>1, PTL DEF Spec, FailsOnlyAfterRetries

==============================================================================
