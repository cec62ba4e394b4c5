------------------------------ MODULE DynStats ------------------------------
(***************************************************************************)
(* lib/b_dyn_stats.c: statistics a program registers by name, with what    *)
(* tells their values, and gives out as XML.  Each operation holds the     *)
(* list's recursive lock; every live thread has a statistic of its own,    *)
(* which comes and goes when the XML is made.                              *)
(***************************************************************************)
EXTENDS Integers, Sequences, FiniteSets, SequencesExt

CONSTANTS
  StatNames,     \* names a program registers, each a tuple, as those of threads
  Builtins,      \* those bk_global_dynamic_stats_register does, in its order
  Ignored,       \* those of them the configuration says to ignore
  Callers,       \* the threads that call
  Values,        \* what the value of a statistic is set to, from 0 on
  Idempotents,   \* values of BK_DYNAMIC_STAT_REGISTER_FLAG_IDEMPOTENT
  Priority(_),   \* name -> bds_priority
  Asked,         \* priorities up to which a client, or the XML, wants statistics
  Opaques        \* how many opaque data are given; bounds the model

VARIABLES
  bdsl,          \* bdsl_list in the order of insertion, which its comparison keeps
  rlock,         \* bdsl_rlock: who holds it and how often
  live,          \* the thread list
  xml,           \* who makes the XML, where it is and what it has put out
  cursor,        \* a client's way through the list with bk_dynamic_stats_getnext
  opaqueLeft,    \* opaque data not given yet
  destroyed      \* history: how often the destroy callback of each was called

dsvars == <<bdsl, rlock, live, xml, cursor, opaqueLeft, destroyed>>

Kinds == {"int", "string"}
Nobody == [by |-> "none", pc |-> "none", priority |-> 0, out |-> <<>>, had |-> {}, lived |-> {}]
NoCursor == [on |-> FALSE, at |-> 0, gone |-> FALSE, priority |-> 0, seen |-> <<>>, had |-> {}, told |-> 1]
ThreadStat(t) == <<"cpu", t>>
\* A statistic has no flags when it is made, and is given none later.
Stat(name, kind, opaque, tid) ==
  [name |-> name, kind |-> kind, opaque |-> opaque, tid |-> tid, value |-> 0, flags |-> {}]

Init ==
  /\ bdsl = <<>> /\ rlock = [holder |-> "none", count |-> 0]
  /\ live = Callers
  /\ xml = Nobody /\ cursor = NoCursor
  /\ opaqueLeft = Opaques /\ destroyed = [o \in 1 .. Opaques |-> 0]

\* Who can take the lock, and the lock when a call that leaves it taken so often ends.
CanLock(t) == rlock.holder \in {"none", t} /\ xml.pc \in {"none", "threads"}
Leaves(t, n) == IF n = 0 THEN rlock ELSE [holder |-> t, count |-> rlock.count + n]

Named(name) == {i \in DOMAIN bdsl : bdsl[i].name = name}     \* stat_search
Names == {bdsl[i].name : i \in DOMAIN bdsl}
-----------------------------------------------------------------------------
\* The mutant destroys the opaque data of a registration that succeeds.
DestroyAny(fails) == TRUE
DestroyIf(fails) == fails

\* bk_dynamic_stat_register_simple, and with a value: a name that is there fails,
\* unless the caller does not mind and the kind is the same; then the lock stays.
\* With another kind the caller is told of a statistic that is not in the list.
Register(t, name, kind, idempotent) ==
  LET there == Named(name) # {}
      same == there /\ bdsl[CHOOSE i \in Named(name) : TRUE].kind = kind
      bds == Stat(name, kind, opaqueLeft, "none")
  IN /\ CanLock(t) /\ opaqueLeft > 0
     /\ opaqueLeft' = opaqueLeft - 1
     /\ bdsl' = IF there THEN bdsl ELSE Append(bdsl, bds)
     /\ destroyed' = [destroyed EXCEPT ![opaqueLeft] = IF DestroyIf(there /\ (same \/ ~idempotent)) THEN @ + 1 ELSE @]
     /\ rlock' = Leaves(t, IF idempotent /\ same THEN 1 ELSE 0)
     /\ UNCHANGED <<live, xml, cursor>>

\* bk_dynamic_stat_preregistration: the configuration may have one ignored.
Wanted(name) == name \notin Ignored

\* bk_dynamic_stat_register: one that is to be ignored leaves the lock taken.
RegisterConfigured(t, name, kind, idempotent) ==
  IF Wanted(name) THEN Register(t, name, kind, idempotent)
  ELSE /\ CanLock(t) /\ opaqueLeft > 0
       /\ opaqueLeft' = opaqueLeft - 1
       /\ rlock' = Leaves(t, 1)
       /\ UNCHANGED <<bdsl, live, xml, cursor, destroyed>>

\* bk_dynamic_stat_register_with_value, of statistics that are not there.
WithValue(names) == [i \in DOMAIN names |-> Stat(names[i], "int", 0, "none")]

\* bk_global_dynamic_stats_register: each of the library's own, until one fails; one
\* that is to be ignored leaves the lock taken.
RegisterGlobal(t) ==
  LET fails == SelectInSeq(Builtins, LAMBDA name : Wanted(name) /\ name \in Names)
      done == IF fails = 0 THEN Builtins ELSE SubSeq(Builtins, 1, fails - 1)
      wanted == SelectSeq(done, Wanted)
  IN /\ CanLock(t)
     /\ bdsl' = bdsl \o WithValue(wanted)
     /\ rlock' = Leaves(t, Len(done) - Len(wanted))
     /\ bdsl' # bdsl \/ rlock' # rlock
     /\ UNCHANGED <<live, xml, cursor, opaqueLeft, destroyed>>

At(name) == CHOOSE i \in Named(name) : TRUE

\* bk_dynamic_stat_set.
SetValue(t, name, value) ==
  /\ CanLock(t) /\ Named(name) # {}
  /\ bdsl' = [bdsl EXCEPT ![At(name)].value = value]
  /\ UNCHANGED <<rlock, live, xml, cursor, opaqueLeft, destroyed>>

\* bk_dynamic_stat_increment: a string is not one to be incremented.
Increment(t, name) ==
  /\ CanLock(t) /\ Named(name) # {}
  /\ bdsl[At(name)].kind = "int" /\ bdsl[At(name)].value + 1 \in Values
  /\ bdsl' = [bdsl EXCEPT ![At(name)].value = @ + 1]
  /\ UNCHANGED <<rlock, live, xml, cursor, opaqueLeft, destroyed>>

\* bk_dynamic_stat_attr_update, without the lock: it asks the flags of the statistic,
\* not its own, what to change.
Updated(bds, opaque) == IF "OPAQUE" \in bds.flags THEN [bds EXCEPT !.opaque = opaque] ELSE bds
AttrUpdate(name) ==
  /\ Named(name) # {} /\ opaqueLeft > 0
  /\ opaqueLeft' = opaqueLeft - 1
  /\ bdsl' = [bdsl EXCEPT ![At(name)] = Updated(@, opaqueLeft)]
  /\ LET old == bdsl[At(name)] IN
     destroyed' = IF "DESTROY_OPAQUE" \in old.flags THEN [destroyed EXCEPT ![old.opaque] = @ + 1] ELSE destroyed
  /\ UNCHANGED <<rlock, live, xml, cursor>>

\* Statistics leave the list and stay allocated: those before a client's place, and
\* the one at it.
Only(Kept(_)) ==
  /\ bdsl' = SelectSeq(bdsl, Kept)
  /\ cursor' = IF ~cursor.on THEN cursor
               ELSE [cursor EXCEPT !.at = Cardinality({i \in 1 .. @ : Kept(bdsl[i])}),
                                   !.gone = @ \/ (cursor.at > 0 /\ ~Kept(bdsl[cursor.at])),
                                   !.had = @ \ {bds.name : bds \in {b \in ToSet(bdsl) : ~Kept(b)}}]

\* bk_dynamic_stat_deregister: its opaque data stays too.
Deregister(t, name) ==
  /\ CanLock(t) /\ Named(name) # {}
  /\ Only(LAMBDA bds : bds.name # name)
  /\ UNCHANGED <<rlock, live, xml, opaqueLeft, destroyed>>
-----------------------------------------------------------------------------
(* bk_dynamic_stats_getnext, by a client that gives the last one back each time *)

Passes(bds, priority) == priority >= Priority(bds.name)

IterationStarts(priority) ==
  /\ ~cursor.on /\ cursor.seen = <<>>
  /\ cursor' = [NoCursor EXCEPT !.on = TRUE, !.priority = priority,
                                !.had = {bds.name : bds \in {b \in ToSet(bdsl) : Passes(b, priority)}}]
  /\ UNCHANGED <<bdsl, rlock, live, xml, opaqueLeft, destroyed>>

\* The mutant begins anew each time.
FromStart == 1
FromCursor == cursor.at + 1

\* A client is told the value, and by the return of extract_value that it was: 0, as
\* at the end, when the statistic it holds stays the same.
ExtractValue == 0

\* The first statistic behind the last one that has the priority.  One that is no
\* longer listed may have no successor: the tree, which is external, compares.
GetNext(t) ==
  /\ CanLock(t) /\ cursor.on
  /\ LET those == {i \in FromCursor .. Len(bdsl) : Passes(bdsl[i], cursor.priority)}
         next == CHOOSE i \in those : \A j \in those : i <= j
     IN \/ /\ those = {} \/ cursor.gone
           /\ cursor' = [cursor EXCEPT !.on = FALSE, !.told = 0]
        \/ /\ those # {}
           /\ cursor' = [cursor EXCEPT !.at = next, !.gone = FALSE, !.seen = Append(@, bdsl[next].name),
                                       !.told = ExtractValue]
  /\ UNCHANGED <<bdsl, rlock, live, xml, opaqueLeft, destroyed>>
-----------------------------------------------------------------------------
(* bk_dynamic_stats_XML_create *)

\* manage_thread_stats, with the thread list locked: statistics of threads that have
\* gone go, as far as the list has a successor of one that went, and each thread
\* without one gets it.  The mutant lets none go.
AllStats(bds) == TRUE
Stays(bds) == bds.tid = "none" \/ bds.tid \in live
FirstGone == SelectInSeq(bdsl, LAMBDA bds : ~Stays(bds))
NewThreads == SetToSeq({t \in live : Named(ThreadStat(t)) = {}})

XmlStarts(t, priority) ==
  /\ xml = Nobody /\ rlock.holder \in {"none", t} /\ t \in live
  /\ Only(Stays) \/ (FirstGone # 0 /\ Only(LAMBDA bds : bds # bdsl[FirstGone]))
  /\ xml' = [Nobody EXCEPT !.by = t, !.pc = "joins", !.priority = priority, !.lived = live]
  /\ UNCHANGED <<rlock, live, opaqueLeft, destroyed>>

XmlJoins ==
  /\ xml.pc = "joins" /\ rlock.holder \in {"none", xml.by}
  /\ bdsl' = bdsl \o [i \in DOMAIN NewThreads |-> Stat(ThreadStat(NewThreads[i]), "int", 0, NewThreads[i])]
  /\ xml' = [xml EXCEPT !.pc = "threads"]
  /\ UNCHANGED <<rlock, live, cursor, opaqueLeft, destroyed>>

Shown(bds) == <<bds.name, bds.value>>
Wanting == SelectSeq(bdsl, LAMBDA bds : Passes(bds, xml.priority))

\* thread_cpu_time_update of some statistic fails.
NoClock == \E i \in DOMAIN bdsl : bdsl[i].tid \notin live \cup {"none"}

\* The lock is taken and every statistic told to bring its value up to date; a thread
\* that has gone has no clock to read, and the XML fails.
XmlUpdates ==
  /\ xml.pc = "threads" /\ rlock.holder \in {"none", xml.by}
  /\ xml' = IF NoClock THEN [xml EXCEPT !.pc = "failed"]
            ELSE [xml EXCEPT !.pc = "puts", !.had = {Shown(bds) : bds \in ToSet(Wanting)}]
  /\ UNCHANGED <<bdsl, rlock, live, cursor, opaqueLeft, destroyed>>

XmlPuts ==
  /\ xml.pc = "puts" /\ Len(xml.out) < Len(Wanting)
  /\ xml' = [xml EXCEPT !.out = Append(@, Shown(Wanting[Len(@) + 1]))]
  /\ UNCHANGED <<bdsl, rlock, live, cursor, opaqueLeft, destroyed>>

XmlEnds ==
  /\ xml.pc = "failed" \/ (xml.pc = "puts" /\ Len(xml.out) = Len(Wanting))
  /\ xml' = Nobody
  /\ UNCHANGED <<bdsl, rlock, live, cursor, opaqueLeft, destroyed>>

\* A thread ends, which is not in a call, and while the list of threads is not locked.
ThreadEnds(t) ==
  /\ t \in live /\ xml.by # t /\ xml.pc # "joins"
  /\ live' = live \ {t}
  /\ UNCHANGED <<bdsl, rlock, xml, cursor, opaqueLeft, destroyed>>

Next ==
  \/ \E priority \in Asked : IterationStarts(priority)
  \/ XmlJoins \/ XmlUpdates \/ XmlPuts \/ XmlEnds
  \/ \E t \in live :
       \/ \E priority \in Asked : XmlStarts(t, priority)
       \/ GetNext(t) \/ ThreadEnds(t) \/ RegisterGlobal(t)
       \/ \E name \in StatNames : \/ Deregister(t, name)
                                  \/ \E kind \in Kinds, i \in Idempotents : RegisterConfigured(t, name, kind, i)
                                  \/ \E value \in Values : SetValue(t, name, value)
                                  \/ Increment(t, name) \/ AttrUpdate(name)

Spec == Init /\ [][Next]_dsvars
-----------------------------------------------------------------------------
\* A client that goes through the list sees once each statistic of its priority that
\* was there all the time, whatever others register and take away meanwhile, unless
\* they took away the one it stood on when it was told of the end.
IterationComplete ==
  /\ \A i, j \in DOMAIN cursor.seen : i # j /\ cursor.seen[i] \in cursor.had => cursor.seen[i] # cursor.seen[j]
  /\ ~cursor.on /\ ~cursor.gone => cursor.had \subseteq ToSet(cursor.seen)

\* A client can tell by the return value whether it was given one: "0 if there is
\* value", that is none, and "1 on success" (b_dyn_stats.c:1495).
EndTold == cursor.on => cursor.told = 1

\* What a program gives with a statistic is destroyed at most once, and not while
\* the statistic is listed.
OpaqueOnce ==
  /\ \A o \in 1 .. Opaques : destroyed[o] <= 1
  /\ \A i \in DOMAIN bdsl : bdsl[i].opaque # 0 => destroyed[bdsl[i].opaque] = 0

\* The XML has every statistic of its priority with the value it had when it was
\* begun, each thread that lived then among them and none that did not.
XmlComplete ==
  xml.pc = "puts" /\ Len(xml.out) = Len(Wanting) =>
    /\ ToSet(xml.out) = xml.had
    /\ \A t \in Callers : xml.priority >= Priority(ThreadStat(t)) =>
         (ThreadStat(t) \in {shown[1] : shown \in ToSet(xml.out)} <=> t \in xml.lived)

\* The XML fails for a thread that ended while it was made, not for one that had gone
\* before.
FailsForTheDying == xml.pc = "failed" => ~(xml.lived \subseteq live)

\* Nobody holds the lock when no call is made.
LockComesFree == rlock.holder = "none"

\* The XML is made, though threads end meanwhile.
XmlSucceeds == xml.pc # "failed"
=============================================================================
