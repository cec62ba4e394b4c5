-------------------------------- MODULE BkDll -------------------------------
(***************************************************************************)
(* include/libbk_inline.h and lib/b_dll.c: a doubly linked list whose links*)
(* are the first two fields of the objects on it.  dlModel is the list it  *)
(* promises: in front, at the end or in order, with or without duplicates. *)
(***************************************************************************)
EXTENDS Integers, Sequences, SequencesExt, FiniteSets

CONSTANTS
  Objects,       \* gde's, the program's own structures
  Key(_),        \* what oo_cmp compares
  Kinds          \* the gdh_flags of the list: sets of "ordered", "unique"

VARIABLES
  dlFlags,       \* gdh_flags
  dlHead, dlTail,
  dlNext, dlPrev,  \* gde_next and gde_prev of every object
  dlIter,        \* an iterator: di_direction and di_current, and what it returned
  dlModel,       \* the objects that were inserted and not deleted, in order
  dlRet          \* what the last insertion returned, and the old object if any

dvars == <<dlFlags, dlHead, dlTail, dlNext, dlPrev, dlIter, dlModel, dlRet>>

Null == 0
NoIter == [dir |-> "", current |-> Null, given |-> <<>>]
Ordered == "ordered" \in dlFlags
Unique(uniq) == uniq \/ "unique" \in dlFlags

\* bk_dll_create
Init ==
  /\ dlFlags \in Kinds
  /\ dlHead = Null /\ dlTail = Null
  /\ dlNext = [o \in Objects |-> Null] /\ dlPrev = [o \in Objects |-> Null]
  /\ dlIter = NoIter /\ dlModel = <<>> /\ dlRet = "DICT_OK"
-----------------------------------------------------------------------------
(* The links *)

Links == [head |-> dlHead, tail |-> dlTail, next |-> dlNext, prev |-> dlPrev]
Put(links) ==
  dlHead' = links.head /\ dlTail' = links.tail /\ dlNext' = links.next /\ dlPrev' = links.prev

\* BK_DLL_INSERT_BEFORE and BK_DLL_INSERT_AFTER: an empty list leaves the new
\* object's links as they are
InsertBefore(l, new, cur) ==
  IF cur = Null THEN [l EXCEPT !.head = new, !.tail = new]
  ELSE [head |-> IF l.prev[cur] = Null THEN new ELSE l.head,
        tail |-> l.tail,
        next |-> [o \in Objects |-> IF o = l.prev[cur] THEN new ELSE IF o = new THEN cur ELSE l.next[o]],
        prev |-> [l.prev EXCEPT ![new] = l.prev[cur], ![cur] = new]]

\* Mutant: the old tail is not linked to the new one
AfterUnlinked(l, new, cur) ==
  IF cur = Null THEN [l EXCEPT !.head = new, !.tail = new]
  ELSE [l EXCEPT !.tail = new, !.prev[new] = cur]
InsertAfter(l, new, cur) ==
  IF cur = Null THEN [l EXCEPT !.head = new, !.tail = new]
  ELSE [head |-> l.head,
        tail |-> IF l.next[cur] = Null THEN new ELSE l.tail,
        prev |-> [o \in Objects |-> IF o = l.next[cur] THEN new ELSE IF o = new THEN cur ELSE l.prev[o]],
        next |-> [l.next EXCEPT ![new] = l.next[cur], ![cur] = new]]

\* The objects from one on, as far as there are objects: a longer walk goes
\* round and round
RECURSIVE Walk(_, _, _)
Walk(links, at, steps) ==
  IF at = Null \/ steps = 0 THEN <<>> ELSE <<at>> \o Walk(links, links[at], steps - 1)
Forward == Walk(dlNext, dlHead, Len(dlModel) + 1)
Backward == Walk(dlPrev, dlTail, Len(dlModel) + 1)

Equal(o) == {i \in DOMAIN dlModel : Key(dlModel[i]) = Key(o)}
Same(o) == SelectSeq(Forward, LAMBDA g : Key(g) = Key(o))

\* In an ordered list, the first object the new one goes before: of those not
\* less, or of the greater ones when equal ones are skipped as duplicates
Later(o, uniq) == SelectSeq(Forward, LAMBDA g : Key(g) > Key(o) \/ (~Unique(uniq) /\ Key(g) = Key(o)))
-----------------------------------------------------------------------------
(* Operations *)

\* What the list promises of an insertion
Promised(o, uniq, append) ==
  IF Unique(uniq) /\ Equal(o) # {} THEN dlModel
  ELSE IF Ordered
  THEN LET n == Cardinality({i \in DOMAIN dlModel : Key(dlModel[i]) < Key(o)}) IN
       SubSeq(dlModel, 1, n) \o <<o>> \o SubSeq(dlModel, n + 1, Len(dlModel))
  ELSE IF append THEN Append(dlModel, o) ELSE <<o>> \o dlModel

\* bk_dll_insert_internal.  In an ordered list the object is put before the
\* later one, and then at the end.
Insert(o, uniq, append) ==
  /\ o \notin Range(dlModel)
  /\ LET dup == Unique(uniq) /\ Same(o) # <<>>
         l == IF Ordered /\ Later(o, uniq) # <<>> THEN InsertBefore(Links, o, Head(Later(o, uniq))) ELSE Links IN
     /\ dlRet' = IF dup THEN "DICT_ERR" ELSE "DICT_OK"
     /\ Put(IF dup THEN l ELSE IF Ordered \/ append THEN InsertAfter(l, o, l.tail) ELSE InsertBefore(l, o, l.head))
  /\ dlModel' = Promised(o, uniq, append)
  /\ UNCHANGED <<dlFlags, dlIter>>

\* bk_dll_insert, bk_dll_insert_uniq, bk_dll_append and bk_dll_append_uniq
Inserts(o) == \E uniq, append \in BOOLEAN : Insert(o, uniq, append)

\* Mutant: the deleted object keeps its links
KeepsLinks(o) == dlNext[o]
Unlinked(o) == Null

\* bk_dll_delete
Delete(o) ==
  /\ o \in Range(dlModel)
  /\ LET n == dlNext[o] p == dlPrev[o] IN
     /\ dlTail' = IF n = Null THEN p ELSE dlTail
     /\ dlHead' = IF p = Null THEN n ELSE dlHead
     /\ dlPrev' = [x \in Objects |-> IF x = o THEN Null ELSE IF x = n THEN p ELSE dlPrev[x]]
     /\ dlNext' = [x \in Objects |-> IF x = o THEN Unlinked(o) ELSE IF x = p THEN n ELSE dlNext[x]]
  /\ dlModel' = SelectSeq(dlModel, LAMBDA x : x # o)
  \* an iterator is not to meet what is deleted, its current above all
  /\ dlIter' = NoIter
  /\ UNCHANGED <<dlFlags, dlRet>>

\* bk_dll_iterate and bk_dll_nextobj
Iterate(dir) ==
  /\ dlIter' = [dir |-> dir, current |-> IF dir = "start" THEN dlHead ELSE dlTail, given |-> <<>>]
  /\ UNCHANGED <<dlFlags, dlHead, dlTail, dlNext, dlPrev, dlModel, dlRet>>
NextObj ==
  /\ dlIter.current # Null /\ Len(dlIter.given) <= Len(dlModel)
  /\ dlIter' = [dlIter EXCEPT !.given = Append(@, dlIter.current),
                              !.current = IF dlIter.dir = "start" THEN dlNext[@] ELSE dlPrev[@]]
  /\ UNCHANGED <<dlFlags, dlHead, dlTail, dlNext, dlPrev, dlModel, dlRet>>

Next ==
  \/ \E o \in Objects : \/ Inserts(o)
                        \/ Delete(o)
  \/ \E dir \in {"start", "end"} : Iterate(dir)
  \/ NextObj

Spec == Init /\ [][Next]_dvars
-----------------------------------------------------------------------------
\* From the head and from the tail the links give the promised list, and what
\* is not on it has no links into it.
ListTrue ==
  /\ Forward = dlModel
  /\ Backward = Reverse(dlModel)
  /\ \A o \in Objects \ Range(dlModel) : dlNext[o] = Null /\ dlPrev[o] = Null

\* An iterator that nothing was inserted before gives every object once.
IterationTrue ==
  dlIter.dir # "" /\ dlIter.current = Null /\ Len(dlIter.given) = Len(dlModel) =>
    dlIter.given = IF dlIter.dir = "start" THEN dlModel ELSE Reverse(dlModel)
=============================================================================
