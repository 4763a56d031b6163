------------------------------- MODULE Malloc -------------------------------
(***************************************************************************)
(* The allocator of the kernel, lib/malloc.c: the pages of objects of one  *)
(* size, their descriptors, and the chains of descriptors.                 *)
(*                                                                         *)
(* malloc() works with interrupts off and is one step, also when a handler *)
(* of the mouse or the timer calls it. free_s() looks for the descriptor   *)
(* with interrupts on, and then takes it out of the chain with interrupts  *)
(* off: two steps, with handlers in between. Only tasks free, and the      *)
(* kernel is not preempted, so that no two free_s() overlap.               *)
(*                                                                         *)
(* get_free_page() is taken as atomic (Memory), and memory never runs out  *)
(* of pages, which would be a panic. An object is its place in its page.   *)
(***************************************************************************)
EXTENDS Naturals, Sequences, FiniteSets, FiniteSetsExt, SequencesExt

CONSTANTS
    Sizes,      \* the places of bucket_dir
    PerPage,    \* the objects of each size in a page
    DescsPerPage, \* 256: the descriptors in a page
    NPages,     \* the pages that there are
    MaxDescs    \* bound: the descriptors that are ever made

ASSUME MallocAssumption ==
    PerPage \in [Sizes -> Nat \ {0}] /\ DescsPerPage \in Nat \ {0} /\ NPages \in Nat \ {0} /\ MaxDescs \in Nat

PageNumbers == 1 .. NPages
Descs == 1 .. MaxDescs
Null  == 0

VARIABLES
    chain,     \* bucket_dir[].chain
    free_bucket_desc,
    desc,      \* the bucket_descs
    made,      \* the descriptors that have been made: those of the first pages
    out,       \* the objects that are used: page, place and size
    freeing    \* the object that free_s() is about, and what it has found

mallocVars == <<chain, free_bucket_desc, desc, made, out, freeing>>

Fresh == [page |-> Null, next |-> Null, free |-> <<>>, refcnt |-> 0]
NotFreeing == [obj |-> [page |-> Null, place |-> Null, size |-> Null], d |-> Null, prev |-> Null, size |-> Null]

MallocInit ==
    /\ chain = [s \in Sizes |-> Null] /\ free_bucket_desc = Null
    /\ desc = [d \in Descs |-> Fresh] /\ made = 0
    /\ out = {} /\ freeing = NotFreeing

\* The descriptors of a chain that begins with d.
From(d) ==
    LET at[i \in 1 .. MaxDescs + 1] == IF i = 1 THEN d ELSE IF at[i - 1] = Null THEN Null ELSE desc[at[i - 1]].next
    IN [i \in {j \in 1 .. MaxDescs + 1 : at[j] # Null} |-> at[i]]

\* The first of the places P of a chain, 0 if there is none.
FirstPlace(P) == IF P = {} THEN 0 ELSE Min(P)

Chained   == UNION {ToSet(From(chain[s])) : s \in Sizes}
UsedPages == {desc[d].page : d \in Chained}

MallocTypeOK ==
    /\ chain \in [Sizes -> Descs \cup {Null}] /\ free_bucket_desc \in Descs \cup {Null} /\ made \in 0 .. MaxDescs
    /\ \A d \in Descs : /\ desc[d].page \in PageNumbers \cup {Null} /\ desc[d].next \in Descs \cup {Null}
                        /\ desc[d].refcnt \in Nat

-----------------------------------------------------------------------------
(* malloc() *)

\* The first object of the descriptor is given out.
GiveOut(s, d, descs) ==
    /\ desc' = [descs EXCEPT ![d].free = Tail(@), ![d].refcnt = @ + 1]
    /\ out' = out \cup {[page |-> descs[d].page, place |-> Head(descs[d].free), size |-> s]}

\* There is a page of this size with a free object.
TakeObject(s) ==
    LET chained == From(chain[s])
        i == FirstPlace({j \in DOMAIN chained : desc[chained[j]].free # <<>>})
    IN /\ i > 0
       /\ GiveOut(s, chained[i], desc)
       /\ UNCHANGED <<chain, free_bucket_desc, made, freeing>>

\* init_bucket_desc(): the descriptors as they are when the page has been chained.
WithDescs ==
    [d \in Descs |-> IF d \in made + 1 .. made + DescsPerPage - 1 THEN [Fresh EXCEPT !.next = d + 1] ELSE desc[d]]

\* No page of this size has a free object: a descriptor, if need be from a new page of them, is
\* taken for a new page, and becomes the first of the chain.
TakePage(s) ==
    LET new == free_bucket_desc = Null
        d == IF new THEN made + 1 ELSE free_bucket_desc
        descs == IF new THEN WithDescs ELSE desc
    IN /\ \A e \in ToSet(From(chain[s])) : desc[e].free = <<>>
       /\ new => made + DescsPerPage <= MaxDescs
       /\ PageNumbers \ UsedPages # {}
       /\ made' = IF new THEN made + DescsPerPage ELSE made
       /\ free_bucket_desc' = descs[d].next
       /\ GiveOut(s, d, [descs EXCEPT ![d] = [page |-> Min(PageNumbers \ UsedPages), next |-> chain[s],
                                              free |-> [i \in 1 .. PerPage[s] |-> i], refcnt |-> 0]])
       /\ chain' = [chain EXCEPT ![s] = d]
       /\ UNCHANGED freeing

\* malloc(), of a task or of an interrupt handler.
malloc(s) == TakeObject(s) \/ TakePage(s)

-----------------------------------------------------------------------------
(* free_s() *)

\* The search, with interrupts on: the descriptor of the object's page and the one before it.
Search(obj) ==
    /\ freeing.d = Null
    /\ \E s \in Sizes :
          LET chained == From(chain[s])
              i == FirstPlace({j \in DOMAIN chained : desc[chained[j]].page = obj.page})
          IN /\ i > 0
             /\ freeing' = [obj |-> obj, d |-> chained[i], size |-> s, prev |-> IF i = 1 THEN Null ELSE chained[i - 1]]
    /\ UNCHANGED <<chain, free_bucket_desc, desc, made, out>>

\* Mutated form: what the search has found is not looked at again.
PrevUnchecked == freeing.prev

\* "We need to make sure that prev is still accurate. It may not be, if someone rudely interrupted us."
Prev ==
    LET before == {e \in ToSet(From(chain[freeing.size])) : desc[e].next = freeing.d}
        stale == IF freeing.prev = Null THEN chain[freeing.size] # freeing.d
                 ELSE desc[freeing.prev].next # freeing.d
    IN IF ~stale THEN freeing.prev ELSE IF before = {} THEN Null ELSE CHOOSE e \in before : TRUE

\* The rest, with interrupts off: the object is free; a page without used objects is given back
\* and its descriptor goes to the free ones.
free_s ==
    LET d == freeing.d
        descs == [desc EXCEPT ![d].free = <<freeing.obj.place>> \o @, ![d].refcnt = @ - 1]
    IN /\ d # Null
       /\ IF desc[d].refcnt > 1
            THEN desc' = descs /\ UNCHANGED <<chain, free_bucket_desc>>
            ELSE /\ free_bucket_desc' = d
                 /\ IF Prev # Null
                      THEN /\ desc' = [descs EXCEPT ![Prev].next = desc[d].next, ![d].next = free_bucket_desc]
                           /\ UNCHANGED chain
                      ELSE /\ desc' = [descs EXCEPT ![d].next = free_bucket_desc]
                           /\ chain' = [chain EXCEPT ![freeing.size] = desc[d].next]
       /\ out' = out \ {freeing.obj}
       /\ freeing' = NotFreeing
       /\ UNCHANGED made

MallocNext == (\E s \in Sizes : malloc(s)) \/ (\E obj \in out : Search(obj)) \/ free_s

MallocSpec == MallocInit /\ [][MallocNext]_mallocVars

-----------------------------------------------------------------------------
(* What should hold. *)

Objects(d) == {o \in out : o.page = desc[d].page}

\* The chains and the list of the free descriptors have every descriptor once, whatever a handler did
\* during the search: the panics "Bad address" and "malloc bucket chains corrupted" do not come.
ChainsWhole ==
    /\ \A s \in Sizes : IsInjective(From(chain[s]))
    /\ IsInjective(From(free_bucket_desc))
    /\ \A s, t \in Sizes : s # t => ToSet(From(chain[s])) \cap ToSet(From(chain[t])) = {}
    /\ Chained \cap ToSet(From(free_bucket_desc)) = {}
    /\ Chained \cup ToSet(From(free_bucket_desc)) = 1 .. made

\* An object is given out once: it is used or free in its page, of its size, which is given back
\* when none is used and never before.
ObjectsOnce ==
    /\ \A o \in out : o.page \in UsedPages
    /\ \A d, e \in Chained : desc[d].page = desc[e].page => d = e
    /\ \A s \in Sizes : \A d \in ToSet(From(chain[s])) :
          /\ desc[d].refcnt = Cardinality(Objects(d)) /\ desc[d].refcnt \in 1 .. PerPage[s]
          /\ IsInjective(desc[d].free)
          /\ \A o \in Objects(d) : o.size = s
          /\ {o.place : o \in Objects(d)} = 1 .. PerPage[s] \ ToSet(desc[d].free)

\* The allocator after every call.
MallocConsistent == MallocTypeOK /\ ChainsWhole /\ ObjectsOnce
=============================================================================
