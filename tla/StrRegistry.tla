---------------------------- MODULE StrRegistry ----------------------------
(***************************************************************************)
(* lib/b_string.c: the registry that gives a string an id.  Whoever inserts*)
(* a string or registers by its id holds a reference until it deletes it;  *)
(* the last one frees the element, and the ids at the end are given again. *)
(***************************************************************************)
EXTENDS Integers, FiniteSets, FiniteSetsExt

CONSTANTS
  Users,         \* threads that share the registry
  Strings,
  Forced,        \* ids given with BK_STR_REGISTRY_FLAG_FORCE
  Room,          \* largest id of the model
  Refs,          \* how many references a user holds at most; bounds the model
  Elements       \* elements that are not in use, by which the model tells them apart

VARIABLES
  registry,      \* bsr_registry: id -> its element, or 0
  nextIndex,     \* bsr_next_index
  element,       \* element -> bsre_str, bsre_id and bsre_ref, and whether it is freed
  userAt,        \* user -> where it is in bk_string_registry_delete_id
  holds,         \* <<user, id>> -> references it was given and has not deleted
  outside,       \* history: bsr_registry was read before its first entry
  wildElement    \* history: a freed element was used

srvars == <<registry, nextIndex, element, userAt, holds, outside, wildElement>>

Ids == 0 .. Room
Free == [str |-> "", id |-> 0, ref |-> 0, freed |-> TRUE]

Init ==
  /\ registry = [id \in Ids |-> 0] /\ nextIndex = 1
  /\ element = [e \in Elements |-> Free]
  /\ userAt = [u \in Users |-> 0] /\ holds = [p \in Users \X Ids |-> 0]
  /\ outside = FALSE /\ wildElement = FALSE

Listed == {id \in 0 .. nextIndex - 1 : registry[id] # 0}
Wild == \E id \in Listed : element[registry[id]].freed
Found(str) == {id \in Listed : element[registry[id]].str = str}
Held(u) == FoldSet(LAMBDA id, n : n + holds[<<u, id>>], 0, Ids)
Idle(u) == userAt[u] = 0
CanHold(u) == Idle(u) /\ Held(u) < Refs

\* bsre_create: malloc may return what was freed
Unused == {e \in Elements : element[e].freed /\ \A id \in Ids : registry[id] # e}
NewElement == CHOOSE e \in Unused : \A other \in Unused : e <= other

NewOf(str, id) == [str |-> str, id |-> id, ref |-> 1, freed |-> FALSE]

Reference(u, id, e, fresh) ==
  /\ element' = [element EXCEPT ![e] = IF fresh # "" THEN NewOf(fresh, id)
                                                   ELSE [@ EXCEPT !.ref = @ + 1]]
  /\ holds' = [holds EXCEPT ![<<u, id>>] = @ + 1]
  /\ registry' = [registry EXCEPT ![id] = e]

\* bk_string_registry_insert without an id: the string's own, or the next.
\* The search compares with every element listed.
Insert(u, str) ==
  /\ CanHold(u) /\ UNCHANGED <<userAt, outside>>
  /\ wildElement' = (wildElement \/ Wild)
  /\ IF Found(str) # {}
     THEN LET id == Min(Found(str)) IN
          Reference(u, id, registry[id], "") /\ UNCHANGED nextIndex
     ELSE /\ nextIndex <= Room /\ Unused # {}
          /\ Reference(u, nextIndex, NewElement, str) /\ nextIndex' = nextIndex + 1

\* ... with FORCE and an id: new when the id has none, an error when it has
\* another string, which takes the new reference back
InsertForced(u, str, id) ==
  /\ CanHold(u) /\ Unused # {} /\ UNCHANGED <<userAt, outside>>
  /\ nextIndex' = IF id >= nextIndex THEN id + 1 ELSE nextIndex
  /\ wildElement' = (wildElement \/ (id \in Listed /\ element[registry[id]].freed))
  /\ IF id \notin Listed THEN Reference(u, id, NewElement, str)
     ELSE IF element[registry[id]].str = str THEN Reference(u, id, registry[id], "")
     ELSE UNCHANGED <<registry, element, holds>>

\* bk_string_registry_register_by_id
RegisterById(u, id) ==
  /\ CanHold(u) /\ id # 0 /\ id \in Listed
  /\ wildElement' = (wildElement \/ element[registry[id]].freed)
  /\ Reference(u, id, registry[id], "") /\ UNCHANGED <<nextIndex, userAt, outside>>

\* bk_string_registry_delete_id, by one that holds it.  The last reference
\* frees the element, which is unlisted in a step of its own.
LastOne(ref) == ref <= 0
Delete(u, id) ==
  /\ Idle(u) /\ holds[<<u, id>>] > 0
  /\ LET e == registry[id] ref == element[e].ref - 1 IN
     /\ wildElement' = (wildElement \/ element[e].freed)
     /\ element' = [element EXCEPT ![e].ref = ref, ![e].freed = LastOne(ref)]
     /\ userAt' = [userAt EXCEPT ![u] = IF LastOne(ref) THEN id ELSE 0]
  /\ holds' = [holds EXCEPT ![<<u, id>>] = @ - 1]
  /\ UNCHANGED <<registry, nextIndex, outside>>

\* Mutant: the end of the registry is cut one too far
ShrunkTooFar(reg, id) ==
  IF id # nextIndex - 1 THEN nextIndex
  ELSE Max({i \in 0 .. id : reg[i] # 0} \union {0})
\* The ids at the end that have no element are given again, and none is left
\* of them to stop at when there is no element at all
Shrunk(reg, id) ==
  IF id # nextIndex - 1 THEN nextIndex
  ELSE IF \A i \in 0 .. id : reg[i] = 0 THEN 0
  ELSE Max({i \in 0 .. id : reg[i] # 0}) + 1

Unlist(u) ==
  /\ ~Idle(u)
  /\ LET id == userAt[u] reg == [registry EXCEPT ![id] = 0] IN
     /\ registry' = reg
     /\ nextIndex' = Shrunk(reg, id)
     /\ outside' = (outside \/ nextIndex' = 0)
  /\ userAt' = [userAt EXCEPT ![u] = 0]
  /\ UNCHANGED <<element, holds, wildElement>>

\* What comes after an access outside the registry is undefined
Next ==
  /\ ~outside /\ ~wildElement
  /\ \E u \in Users :
       \/ \E str \in Strings : Insert(u, str) \/ \E id \in Forced : InsertForced(u, str, id)
       \/ \E id \in Ids \ {0} : RegisterById(u, id) \/ Delete(u, id)
       \/ Unlist(u)

Spec == Init /\ [][Next]_srvars /\ \A u \in Users : WF_srvars(Unlist(u))
-----------------------------------------------------------------------------
\* Whoever holds an id finds its string under it: the element is listed, has
\* as many references as there are holders, and no second one has its string
\* unless an id was forced.
IdsTrue ==
  ~outside /\ ~wildElement =>
    /\ \A u \in Users, id \in Ids : holds[<<u, id>>] > 0 =>
         /\ id \in Listed /\ ~element[registry[id]].freed /\ element[registry[id]].id = id
         /\ element[registry[id]].ref = FoldSet(LAMBDA v, n : n + holds[<<v, id>>], 0, Users)
    /\ Forced = {} => \A i, j \in Listed :
         ~element[registry[i]].freed /\ ~element[registry[j]].freed
           /\ element[registry[i]].str = element[registry[j]].str => i = j

\* "id == 0 is reserved and never assigned" (b_string.c:2381), and nothing is
\* read before the registry's first entry.
ZeroReserved == ~outside /\ \A u \in Users : holds[<<u, 0>>] = 0

\* No user touches an element another has freed.
NoWildElement == ~wildElement
=============================================================================
