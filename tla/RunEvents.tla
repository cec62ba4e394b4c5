----------------------------- MODULE RunEvents -----------------------------
(***************************************************************************)
(* The event queue of lib/b_run.c, with its clock, its memory, cron jobs   *)
(* and the end of the run: bk_run_enqueue_delta, bk_run_enqueue_cron,      *)
(* bk_run_dequeue, bk_run_checkeventq, bk_run_event_cron and the events'   *)
(* part of bk_run_destroy, in a program without threads.  RunLoop has the  *)
(* rest of bk_run_once.                                                    *)
(*                                                                         *)
(* Times are relative to the present moment, in microseconds: the clock    *)
(* ticking makes all of them one less.  An entry of the queue that was     *)
(* freed is "free"; it serves again only when nothing points to it.        *)
(***************************************************************************)
EXTENDS Integers, Sequences, FiniteSets

CONSTANTS
  Plain, Cron,        \* events that happen once, and cron jobs
  Node, None,         \* malloc'ed queue entries, and no entry
  Delays,             \* what events are enqueued for, in milliseconds
  Interval,           \* brec_interval, in milliseconds
  MsPerSec, UsPerMs,  \* 1000 and 1000 in the code
  MaxLag,             \* how late the program may be
  Budget,             \* how many calls it makes
  MaxStack            \* activations under which it calls bk_run_once

Job == Plain \cup Cron
ASSUME JobAssumption == Plain \cap Cron = {} /\ None \notin Node
ASSUME TimeAssumption == /\ Delays \subseteq Nat /\ {Interval, MaxLag, Budget} \subseteq Nat
                         /\ {MsPerSec, UsPerMs} \subseteq Nat \ {0}

VARIABLES
  stack,      \* activations, the running one last
  node,       \* queue entries: state, bre_when and whose it is
  handle,     \* what the program keeps: a plain event's entry, or a cron's
              \* struct br_equeuecron, which is then TRUE
  equeue,     \* brec_equeue, None for a cron that is not
  last,       \* starttime of a cron's last call, LongAgo at most
  indestroy,  \* BK_RUN_FLAG_IN_DESTROY
  wild,       \* freed memory was used or freed again
  left        \* calls left

memory == <<node, handle, equeue>>
vars == <<stack, memory, last, indestroy, wild, left>>
-----------------------------------------------------------------------------
Us(ms) == ms * UsPerMs
\* bk_run_event_cron: the part below a second is taken for microseconds.
\* The mutant takes the seconds for milliseconds too.
PeriodShort == Interval
Period == (Interval \div MsPerSec) * MsPerSec * UsPerMs + (Interval % MsPerSec)

LongAgo == -(Us(Interval) + MaxLag)

Unset == 1
Frame(at) == [at |-> at, job |-> None, node |-> None, start |-> Unset]
Top == stack[Len(stack)]
Below == SubSeq(stack, 1, Len(stack) - 1)
Running(at) == stack # <<>> /\ Top.at = at

Free == [state |-> "free", when |-> 0, job |-> None]
Queued == {m \in Node : node[m].state = "queued"}
\* The mutant has the order of the queue the wrong way round.
LastDue == {m \in Queued : \A other \in Queued : node[other].when <= node[m].when}
\* pq_head, by br_equeue's order
FirstDue == {m \in Queued : \A other \in Queued : node[m].when <= node[other].when}
Pointers == {handle[e] : e \in Plain} \cup {equeue[c] : c \in Cron}
            \cup {stack[i].node : i \in DOMAIN stack}
\* malloc: which of the entries that nothing points to makes no difference.
Fresh == LET unused == {m \in Node : node[m].state = "free" /\ m \notin Pointers}
         IN {m \in unused : m = CHOOSE n \in unused : TRUE}
Insert(m, when, job) == node' = [node EXCEPT ![m] = [state |-> "queued", when |-> when, job |-> job]]
\* free(), which must not come twice.
Release(m) ==
  /\ node' = [node EXCEPT ![m] = Free]
  /\ wild' = (wild \/ node[m].state = "free")

Init ==
  /\ stack = <<Frame("main")>>
  /\ node = [m \in Node |-> Free]
  /\ handle = [j \in Job |-> IF j \in Plain THEN None ELSE FALSE]
  /\ equeue = [c \in Cron |-> None]
  /\ last = [c \in Cron |-> LongAgo]
  /\ indestroy = FALSE /\ wild = FALSE
  /\ left = Budget
-----------------------------------------------------------------------------
(* The program: its main program and the events' functions. *)

\* What functions do when they are told of the end is not counted.
MayCall == /\ Running("main") \/ Running("user")
           /\ ~wild
           /\ IF indestroy THEN left' = left ELSE left > 0 /\ left' = left - 1

\* The mutant enqueues although the run is being destroyed.
EnqueueAlways(e, ms) ==
  /\ MayCall /\ handle[e] = None
  /\ \E m \in Fresh : Insert(m, Us(ms), e) /\ handle' = [handle EXCEPT ![e] = m]
  /\ UNCHANGED <<stack, equeue, last, indestroy, wild>>

Enqueue(e, ms) ==
  /\ MayCall /\ ~indestroy /\ handle[e] = None
  /\ \E m \in Fresh : Insert(m, Us(ms), e) /\ handle' = [handle EXCEPT ![e] = m]
  /\ UNCHANGED <<stack, equeue, last, indestroy, wild>>

EnqueueCron(c) ==
  /\ MayCall /\ ~indestroy /\ equeue[c] = None
  /\ \E m \in Fresh : Insert(m, Us(Interval), c) /\ equeue' = [equeue EXCEPT ![c] = m]
  /\ handle' = [handle EXCEPT ![c] = TRUE]
  /\ UNCHANGED <<stack, last, indestroy, wild>>

\* The mutant leaves the entry in the queue.
DequeueOnlyFrees(e) ==
  /\ MayCall /\ handle[e] # None
  /\ handle' = [handle EXCEPT ![e] = None]
  /\ UNCHANGED <<stack, node, equeue, last, indestroy, wild>>

\* bk_run_dequeue takes the entry out if it is there, and frees it.
Dequeue(e) ==
  /\ MayCall /\ handle[e] # None
  /\ Release(handle[e])
  /\ handle' = [handle EXCEPT ![e] = None]
  /\ UNCHANGED <<stack, equeue, last, indestroy>>

\* With BK_RUN_DEQUEUE_CRON it frees the struct br_equeuecron too.
DequeueCron(c) ==
  /\ MayCall /\ handle[c]
  /\ Release(equeue[c])
  /\ handle' = [handle EXCEPT ![c] = FALSE]
  /\ equeue' = [equeue EXCEPT ![c] = None]
  /\ last' = [last EXCEPT ![c] = LongAgo]
  /\ UNCHANGED <<stack, indestroy>>

\* A function calls bk_run_once.
RunOnce ==
  /\ MayCall /\ Running("user") /\ ~indestroy /\ Len(stack) < MaxStack
  /\ stack' = Append(stack, Frame("check"))
  /\ UNCHANGED <<memory, last, indestroy, wild>>

FunctionReturns ==
  /\ Running("user") /\ ~wild
  /\ stack' = Below
  /\ UNCHANGED <<memory, last, indestroy, wild, left>>

\* bk_run_run's next turn.
Turn ==
  /\ Running("main") /\ ~indestroy /\ ~wild
  /\ stack' = Append(stack, Frame("check"))
  /\ UNCHANGED <<memory, last, indestroy, wild, left>>
-----------------------------------------------------------------------------
(* bk_run_checkeventq *)

\* starttime, taken when there is an event to compare it with.
Start == IF Top.start = Unset THEN 0 ELSE Top.start

\* The function is called, and forgets the handle; its entry is freed after.
Call(m, below, frame) ==
  stack' = below \o <<[Frame("release") EXCEPT !.node = m], frame>>
Take(m) == node' = [node EXCEPT ![m].state = "out"]

RunDue(m) ==
  /\ Running("check") /\ ~wild /\ m \in FirstDue /\ node[m].when <= Start
  /\ Take(m)
  /\ LET job == node[m].job
         frame == [Frame(IF job \in Cron THEN "cron" ELSE "user") EXCEPT !.job = job, !.start = Start]
     IN /\ Call(m, Append(Below, [Top EXCEPT !.start = Start]), frame)
        /\ handle' = IF job \in Plain THEN [handle EXCEPT ![job] = None] ELSE handle
  /\ UNCHANGED <<equeue, last, indestroy, wild, left>>

EndCheck ==
  /\ Running("check") /\ ~wild
  /\ \A m \in FirstDue : node[m].when > Start
  /\ stack' = Below
  /\ UNCHANGED <<memory, last, indestroy, wild, left>>

\* free(top)
FreeTop ==
  /\ Running("release") /\ ~wild
  /\ Release(Top.node)
  /\ stack' = Below
  /\ UNCHANGED <<handle, equeue, last, indestroy, left>>

\* The mutant forgets to keep the new entry.
CronForgets(c) ==
  /\ Running("cron") /\ ~wild /\ Top.job = c
  /\ \E m \in Fresh : Insert(m, Top.start + Period, c) /\ UNCHANGED equeue
  /\ last' = [last EXCEPT ![c] = Top.start]
  /\ stack' = Append(Below, [Top EXCEPT !.at = "user"])
  /\ UNCHANGED <<handle, indestroy, wild, left>>

\* The mutant does not enqueue the next call.
CronOnce(c) ==
  /\ Running("cron") /\ ~wild /\ Top.job = c
  /\ last' = [last EXCEPT ![c] = Top.start]
  /\ stack' = Append(Below, [Top EXCEPT !.at = "user"])
  /\ UNCHANGED <<memory, indestroy, wild, left>>

\* bk_run_event_cron enqueues the next call, then calls the function.
CronAgain(c) ==
  /\ Running("cron") /\ ~wild /\ Top.job = c
  /\ \E m \in Fresh : Insert(m, Top.start + Period, c) /\ equeue' = [equeue EXCEPT ![c] = m]
  /\ last' = [last EXCEPT ![c] = Top.start]
  /\ stack' = Append(Below, [Top EXCEPT !.at = "user"])
  /\ UNCHANGED <<handle, indestroy, wild, left>>
-----------------------------------------------------------------------------
(* bk_run_destroy tells every event of the end. *)

Destroy ==
  /\ MayCall /\ Running("main") /\ ~indestroy
  /\ indestroy' = TRUE
  /\ stack' = Append(stack, Frame("destroy"))
  /\ UNCHANGED <<memory, last, wild>>

\* The mutant takes a cron job for an event.
TellEvent(m) ==
  /\ Running("destroy") /\ ~wild /\ m \in FirstDue
  /\ Take(m)
  /\ Call(m, stack, [Frame("user") EXCEPT !.job = node[m].job, !.start = 0])
  /\ handle' = [handle EXCEPT ![node[m].job] = None]
  /\ UNCHANGED <<equeue, last, indestroy, wild, left>>

\* The function is told, with BK_RUN_DESTROY, and forgets its handle.
Tell(m) ==
  /\ Running("destroy") /\ ~wild /\ m \in FirstDue
  /\ Take(m)
  /\ Call(m, stack, [Frame("user") EXCEPT !.job = node[m].job, !.start = 0])
  /\ handle' = [handle EXCEPT ![node[m].job] = IF node[m].job \in Plain THEN None ELSE FALSE]
  /\ UNCHANGED <<equeue, last, indestroy, wild, left>>

\* The queue is destroyed and the run freed.
EndDestroy ==
  /\ Running("destroy") /\ ~wild /\ Queued = {}
  /\ stack' = <<>>
  /\ UNCHANGED <<memory, last, indestroy, wild, left>>
-----------------------------------------------------------------------------
\* The clock.
Tick ==
  /\ ~wild /\ stack # <<>>
  /\ \A m \in Queued : node[m].when > -MaxLag
  /\ \A i \in DOMAIN stack : stack[i].start > -MaxLag
  /\ node' = [m \in Node |-> IF m \in Queued THEN [node[m] EXCEPT !.when = @ - 1] ELSE node[m]]
  /\ stack' = [i \in DOMAIN stack |-> [stack[i] EXCEPT !.start = IF @ = Unset THEN @ ELSE @ - 1]]
  /\ last' = [c \in Cron |-> IF last[c] > LongAgo THEN last[c] - 1 ELSE last[c]]
  /\ UNCHANGED <<handle, equeue, indestroy, wild, left>>

Calls ==
  \/ \E e \in Plain, ms \in Delays : Enqueue(e, ms)
  \/ \E c \in Cron : EnqueueCron(c) \/ DequeueCron(c)
  \/ \E e \in Plain : Dequeue(e)
  \/ RunOnce \/ Destroy
Loop ==
  \/ FunctionReturns \/ Turn \/ EndCheck \/ FreeTop \/ EndDestroy
  \/ \E m \in Node : RunDue(m) \/ Tell(m)
  \/ \E c \in Cron : CronAgain(c)

Next == Calls \/ Loop \/ Tick
Spec == Init /\ [][Next]_vars
\* Functions return, the loop goes on, and so does the clock.
LiveSpec == Spec /\ WF_vars(Loop) /\ WF_vars(Tick)
-----------------------------------------------------------------------------
TypeOK ==
  /\ \A i \in DOMAIN stack :
       /\ stack[i].at \in {"main", "check", "user", "cron", "release", "destroy"}
       /\ stack[i].job \in Job \cup {None} /\ stack[i].node \in Node \cup {None}
       /\ stack[i].start \in -MaxLag .. Unset
  /\ \A m \in Node : /\ node[m].state \in {"free", "queued", "out"}
                     /\ node[m].when \in Int /\ node[m].job \in Job \cup {None}
  /\ \A e \in Plain : handle[e] \in Node \cup {None}
  /\ \A c \in Cron : handle[c] \in BOOLEAN
  /\ equeue \in [Cron -> Node \cup {None}]
  /\ last \in [Cron -> LongAgo .. 0]
  /\ indestroy \in BOOLEAN /\ wild \in BOOLEAN /\ left \in 0 .. Budget

\* No queue entry is freed twice or used when it was freed.
NoWildPointer == ~wild

\* What is queued is what the program, or the cron job, has the handle of, so
\* that what is dequeued never runs; and a cron job has its one next call
\* queued unless it is just being called.
HandlesTrue ==
  /\ \A m \in Queued : LET job == node[m].job
                       IN IF job \in Plain THEN handle[job] = m ELSE equeue[job] = m
  /\ \A e \in Plain : handle[e] # None => handle[e] \in Queued
  /\ \A c \in Cron : handle[c] => \/ equeue[c] \in Queued
                                  \/ \E i \in DOMAIN stack : stack[i].at = "cron" /\ stack[i].job = c

\* The whole seconds of an interval.
Seconds(ms) == (ms \div MsPerSec) * MsPerSec

\* A cron job's calls are at least the whole seconds of its interval apart, for
\* every interval, however late the program is and however the queue is run.
CronSpacing ==
  [][\A c \in Cron : CronAgain(c) => Top.start - last[c] >= Us(Seconds(Interval))]_vars

\* Its calls are its interval apart: not so when that has a part below a second.
CronOnTime == [][\A c \in Cron : CronAgain(c) => Top.start - last[c] >= Us(Interval)]_vars

\* An event that is queued is called or dequeued, whatever cron jobs there are.
EventHappens == \A e \in Plain : handle[e] # None ~> handle[e] = None \/ wild

\* A cron job is called again and again until it is dequeued or the run ends.
CronRecurs ==
  \A c \in Cron : handle[c] ~> \/ \E i \in DOMAIN stack : stack[i].job = c
                               \/ ~handle[c]

\* The destruction of a run ends, although functions that are told of it call
\* back: nothing new is enqueued.
DestroyEnds == indestroy ~> stack = <<>>
=============================================================================
