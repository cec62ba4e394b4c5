-------------------------------- MODULE Stats --------------------------------
(***************************************************************************)
(* lib/b_stats.c: how long what the program does took: one node for each   *)
(* name, made when it is first met, with a lock of its own.  A node times  *)
(* one thing at a time; others add what they measured themselves.          *)
(***************************************************************************)
EXTENDS Integers, Sequences, SequencesExt

CONSTANTS
  Timers,        \* threads that start and end the timing of the node
  Adders,        \* threads that add to it
  Preset,        \* the node is made before the threads are
  UMax,          \* UINT_MAX, the first minimum
  UQuad,         \* 2^64: a u_quad_t wraps there
  Clock          \* how far time goes; bounds the model

VARIABLES
  bnode,         \* the node of the name, or none
  statLock,      \* bsn_lock: the thread that holds it
  at,            \* thread -> where it is and what it has read
  now,           \* gettimeofday, never 0
  samples,       \* history: what the threads measured or were to add
  raced,         \* history: a thread was ending a timing when another was past its test
  statRounds     \* how often each thread may go on; bounds the model

stvars == <<bnode, statLock, at, now, samples, raced, statRounds>>

StatThreads == Timers \cup Adders
None == [there |-> FALSE, min |-> UMax, max |-> 0, sum |-> 0, count |-> 0, start |-> 0]
Idle == [pc |-> "idle", time |-> 0, next |-> "idle", node |-> None]

Init ==
  /\ bnode = [None EXCEPT !.there = Preset]
  /\ statLock = "none" /\ now = 1 /\ samples = <<>> /\ raced = FALSE
  /\ at = [t \in StatThreads |-> Idle]
  /\ statRounds = [t \in StatThreads |-> 2]

Goes(t, pc) == at' = [at EXCEPT ![t].pc = pc]
-----------------------------------------------------------------------------
\* bk_stat_start and bk_stat_add: the node of that name, or a new one.
Search(t, next, usec) ==
  /\ at[t].pc = "idle" /\ statRounds[t] > 0
  /\ statRounds' = [statRounds EXCEPT ![t] = @ - 1]
  /\ at' = [at EXCEPT ![t] = [pc |-> IF bnode.there THEN next ELSE "create", time |-> usec, next |-> next, node |-> None]]
  /\ samples' = IF next = "add" THEN Append(samples, usec) ELSE samples
  /\ UNCHANGED <<bnode, statLock, now>>

\* bk_stat_nodelist_create: a name is there once; who comes second is told nothing
\* and measures nothing.
Create(t) ==
  /\ at[t].pc = "create"
  /\ IF bnode.there THEN Goes(t, "idle") /\ UNCHANGED bnode
     ELSE Goes(t, at[t].next) /\ bnode' = [None EXCEPT !.there = TRUE]
  /\ UNCHANGED <<statLock, now, samples, statRounds>>

\* bk_stat_node_start: a node that is timed already is left alone.
NodeStart(t) ==
  /\ at[t].pc = "start"
  /\ Goes(t, IF bnode.start # 0 THEN "idle" ELSE "start lock")
  /\ UNCHANGED <<bnode, statLock, now, samples, statRounds>>

NodeStarts(t) ==
  /\ at[t].pc = "start lock" /\ statLock = "none"
  /\ bnode' = [bnode EXCEPT !.start = now]
  /\ Goes(t, "timing")
  /\ UNCHANGED <<statLock, now, samples, statRounds>>

\* bk_stat_end finds the node by its name, and does nothing when there is none.
Ends(t) == at[t].pc \in {"timing", "idle"} /\ bnode.there

\* bk_stat_node_end: it looks, and reads the time, before it has the lock; it does not
\* look again when it has it.  The mutant does not look.
Anyhow(t) == TRUE
Started(t) == bnode.start # 0

NodeEnd(t) ==
  /\ Ends(t)
  /\ at' = [at EXCEPT ![t] = IF Started(t) THEN [@ EXCEPT !.pc = "end lock", !.time = now] ELSE Idle]
  /\ UNCHANGED <<bnode, statLock, now, samples, statRounds>>

Counted(node, usec) ==
  [node EXCEPT !.min = IF usec < @ THEN usec ELSE @,
               !.max = IF usec > @ THEN usec ELSE @,
               !.sum = (@ + usec) % UQuad, !.count = @ + 1]

NodeEnds(t) ==
  /\ at[t].pc = "end lock" /\ statLock = "none"
  /\ LET usec == (at[t].time - bnode.start) % UQuad IN
     /\ bnode' = [Counted(bnode, usec) EXCEPT !.start = 0]
     /\ samples' = Append(samples, usec)
  /\ Goes(t, "idle")
  /\ UNCHANGED <<statLock, now, statRounds>>

\* bk_stat_node_add, in two steps: what is read under the lock is written under it.
\* The mutant takes no lock.
Unlocked(t) == "none"
LockedBy(t) == t

NodeAdd(t) ==
  /\ at[t].pc = "add" /\ statLock = "none"
  /\ statLock' = LockedBy(t)
  /\ at' = [at EXCEPT ![t] = [@ EXCEPT !.pc = "adding", !.node = bnode]]
  /\ UNCHANGED <<bnode, now, samples, statRounds>>

NodeAdds(t) ==
  /\ at[t].pc = "adding"
  /\ bnode' = Counted(at[t].node, at[t].time)
  /\ statLock' = "none"
  /\ at' = [at EXCEPT ![t] = Idle]
  /\ UNCHANGED <<now, samples, statRounds>>

Tick ==
  /\ now < Clock
  /\ now' = now + 1
  /\ UNCHANGED <<bnode, statLock, at, samples, statRounds>>

Next ==
  /\ \/ Tick
     \/ \E t \in Timers : Search(t, "start", 0) \/ NodeStart(t) \/ NodeStarts(t) \/ NodeEnd(t) \/ NodeEnds(t)
     \/ \E t \in Adders : (\E usec \in {1, UMax + 1} : Search(t, "add", usec)) \/ NodeAdd(t) \/ NodeAdds(t)
     \/ \E t \in StatThreads : Create(t)
  /\ raced' = (raced \/ \E t, u \in Timers :
       t # u /\ at'[t].pc = "end lock" /\ at'[u].pc \in {"start lock", "end lock"})

Spec == Init /\ [][Next]_stvars
-----------------------------------------------------------------------------
Sum(seq) == FoldLeft(LAMBDA x, y : x + y, 0, seq)
AllIdle == \A t \in Adders : at[t].pc = "idle"

\* Once nobody is adding, the node has counted every sample and their sum, and none
\* is more than its maximum, however many threads time and add.
SamplesCounted ==
  AllIdle => /\ bnode.count = Len(samples) /\ bnode.sum = Sum(samples) % UQuad
             /\ \A i \in DOMAIN samples : samples[i] <= bnode.max

\* No timing is longer than the program has run, whichever thread starts and ends
\* it, unless one had tested the node and waited for its lock while another did.
Timed == Adders = {} => \A i \in DOMAIN samples : samples[i] < now
TimesTrue == ~raced => Timed

\* ... and whoever waits: bk_stat_end is "MT-SAFE" (b_stats.c:365).
TimesSafe == Timed

\* The minimum is one of the samples once there is one.
MinTrue == AllIdle /\ bnode.count > 0 => \E i \in DOMAIN samples : samples[i] = bnode.min
=============================================================================
