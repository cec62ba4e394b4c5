--------------------------- MODULE RunEventsProofs ---------------------------
(***************************************************************************)
(* The event queue of lib/b_run.c, for any number of events, cron jobs and *)
(* entries, nested as deep as the program likes: no entry is used when it  *)
(* was freed, handles are true, and cron jobs keep their period.           *)
(*                                                                         *)
(* bk_run_checkeventq frees an entry after the function it was for, which  *)
(* may have enqueued, dequeued and run the queue meanwhile.  The invariant *)
(* follows each entry from the activation that will free it, and each cron *)
(* job through the moment when its entry is taken and the next not queued. *)
(***************************************************************************)
EXTENDS RunEvents, TLAPS

\* What an activation and an entry of the queue are.
FrameSet == [at : {"main", "check", "user", "cron", "release", "destroy"},
             job : Job \cup {None}, node : Node \cup {None}, start : -MaxLag .. Unset]
EntrySet == [state : {"free", "queued", "out"}, when : Int, job : Job \cup {None}]

\* The types, the ranges of the times among them.
TypeInv ==
  /\ stack \in Seq(FrameSet)
  /\ node \in [Node -> EntrySet]
  /\ DOMAIN handle = Job
  /\ \A e \in Plain : handle[e] \in Node \cup {None}
  /\ \A c \in Cron : handle[c] \in BOOLEAN
  /\ equeue \in [Cron -> Node \cup {None}]
  /\ last \in [Cron -> LongAgo .. 0]
  /\ indestroy \in BOOLEAN
  /\ left \in 0 .. Budget

\* A queued entry is the one its job has the handle of; a cron job's is due its
\* period after the last call.
EntryTrue(m) ==
  node[m].state = "queued" =>
    \/ node[m].job \in Plain /\ handle[node[m].job] = m
    \/ /\ node[m].job \in Cron /\ handle[node[m].job] /\ equeue[node[m].job] = m
       /\ node[m].when >= -MaxLag /\ node[m].when >= last[node[m].job] + Period
\* A handle is of an entry that is queued for it.
HandleTrue(e) ==
  handle[e] # None => node[handle[e]].state = "queued" /\ node[handle[e]].job = e
\* A cron job has its entry queued, or is just being called.
CronTrue(c) ==
  handle[c] => \/ /\ equeue[c] \in Node /\ node[equeue[c]].state = "queued"
                  /\ node[equeue[c]].job = c
               \/ Running("cron") /\ Top.job = c
\* Each activation that will free an entry has one of its own, out of the queue.
ReleaseTrue(i) ==
  stack[i].at = "release" =>
    /\ stack[i].node \in Node /\ node[stack[i].node].state = "out"
    /\ \A j \in DOMAIN stack : stack[j].at = "release" /\ stack[j].node = stack[i].node => j = i
\* A cron job being called is at the top, enqueued no more, and its period is over.
CallTrue(i) ==
  stack[i].at = "cron" =>
    /\ i = Len(stack) /\ stack[i].job \in Cron /\ handle[stack[i].job]
    /\ \A m \in Node : node[m].state = "queued" => node[m].job # stack[i].job
    /\ stack[i].start <= 0 /\ stack[i].start >= last[stack[i].job] + Period
\* The inductive invariant.
IInv ==
  /\ TypeInv /\ wild \in BOOLEAN /\ ~wild
  /\ \A m \in Node : EntryTrue(m)
  /\ \A e \in Plain : HandleTrue(e)
  /\ \A c \in Cron : CronTrue(c)
  /\ \A i \in DOMAIN stack : ReleaseTrue(i) /\ CallTrue(i)

-----------------------------------------------------------------------------
(* Times, and the start.                                                   *)

\* A period is no longer than the interval, and as long for whole seconds: the
\* remainder is taken for microseconds.
LEMMA PeriodBound == /\ Period \in Nat /\ Us(Interval) \in Nat /\ Period <= Us(Interval)
                     /\ Us(Seconds(Interval)) \in Nat /\ Us(Seconds(Interval)) <= Period
<1> DEFINE q == Interval \div MsPerSec
           r == Interval % MsPerSec
           t == q * MsPerSec
<1>1. /\ Interval \in Nat /\ MsPerSec \in Nat /\ MsPerSec > 0 /\ UsPerMs \in Nat /\ UsPerMs > 0
  BY TimeAssumption
<1>2. q \in Nat /\ r \in Nat /\ t \in Nat /\ Interval = t + r
  <2>1. q \in Int /\ r \in 0 .. (MsPerSec - 1) /\ Interval = MsPerSec * q + r
    BY <1>1, Z3
  <2>2. q >= 0
    BY <2>1, <1>1, Z3
  <2> QED
    BY <2>1, <2>2, <1>1, Z3
<1>3. t * UsPerMs \in Nat /\ r * UsPerMs \in Nat /\ r * UsPerMs >= r
  <2> HIDE DEF q, r, t
  <2> QED BY <1>1, <1>2, Z3
<1>4. Us(Interval) = t * UsPerMs + r * UsPerMs
  <2> HIDE DEF q, r, t
  <2> QED BY <1>1, <1>2, Z3 DEF Us
<1>5. Period = t * UsPerMs + r
  BY DEF Period
<1>6. Us(Seconds(Interval)) = t * UsPerMs
  BY DEF Us, Seconds
<1> HIDE DEF q, r, t
<1> QED
  BY <1>2, <1>3, <1>4, <1>5, <1>6

\* The constants' times compared.
LEMMA Times == /\ MaxLag \in Nat /\ LongAgo \in Int /\ LongAgo <= -MaxLag
               /\ LongAgo + Us(Interval) = -MaxLag /\ LongAgo + Period <= -MaxLag
               /\ Us(Interval) \in Nat /\ Period \in Nat /\ Period <= Us(Interval)
<1>1. MaxLag \in Nat
  BY TimeAssumption
<1> QED
  BY <1>1, PeriodBound DEF LongAgo

\* The invariant holds at the start.
LEMMA Initially == Init => IInv
<1> SUFFICES ASSUME Init PROVE IInv
  OBVIOUS
<1>1. Frame("main") \in FrameSet /\ Frame("main").at = "main"
  BY Times DEF Frame, FrameSet, Unset
<1>2. stack \in Seq(FrameSet) /\ DOMAIN stack = {1} /\ stack[1].at = "main"
  BY <1>1 DEF Init
<1>3. TypeInv
  <2>1. node \in [Node -> EntrySet]
    BY DEF Init, Free, EntrySet
  <2>2. last \in [Cron -> LongAgo .. 0]
    BY Times DEF Init
  <2>3. left \in 0 .. Budget
    BY TimeAssumption DEF Init
  <2>4. /\ DOMAIN handle = Job /\ \A e \in Plain : handle[e] \in Node \cup {None}
        /\ \A c \in Cron : handle[c] \in BOOLEAN
    BY JobAssumption DEF Init, Job
  <2> QED
    BY <1>2, <2>1, <2>2, <2>3, <2>4 DEF TypeInv, Init
<1>4. \A m \in Node : EntryTrue(m)
  BY DEF Init, Free, EntryTrue
<1>5. \A e \in Plain : HandleTrue(e)
  BY DEF Init, HandleTrue, Job
<1>6. \A c \in Cron : CronTrue(c)
  BY JobAssumption DEF Init, CronTrue, Job
<1>7. \A i \in DOMAIN stack : ReleaseTrue(i) /\ CallTrue(i)
  BY <1>2 DEF ReleaseTrue, CallTrue
<1> QED
  BY <1>3, <1>4, <1>5, <1>6, <1>7 DEF IInv, Init

-----------------------------------------------------------------------------
(* Steps that leave the queue alone.                                       *)

\* What calls and the next turn do to the stack.
Added(f) == stack' = Append(stack, f)
Removed == stack' = Below

\* A new activation leaves those below.
LEMMA Adding ==
  ASSUME stack \in Seq(FrameSet), NEW f \in FrameSet, Added(f)
  PROVE  /\ stack' \in Seq(FrameSet) /\ Len(stack') = Len(stack) + 1
         /\ \A i \in 1 .. Len(stack) : stack'[i] = stack[i]
         /\ stack'[Len(stack')] = f
  BY DEF Added

\* A return leaves those below.
LEMMA Removing ==
  ASSUME stack \in Seq(FrameSet), stack # <<>>
  PROVE  /\ Below \in Seq(FrameSet) /\ Len(Below) = Len(stack) - 1
         /\ \A i \in 1 .. Len(Below) : Below[i] = stack[i]
         /\ Len(stack) \in Nat /\ Len(stack) > 0
<1>1. Len(stack) \in Nat /\ Len(stack) > 0
  OBVIOUS
<1>2. Len(stack) - 1 \in Nat /\ 1 \in Int
  BY <1>1
<1>3. \A i \in 1 .. Len(stack) - 1 : i \in 1 .. Len(stack)
  BY <1>1
<1>4. Below = [i \in 1 .. Len(stack) - 1 |-> stack[i]]
  BY <1>1 DEF Below
<1>5. \A i \in 1 .. Len(stack) - 1 : stack[i] \in FrameSet
  BY <1>3
<1>6. Below \in [1 .. Len(stack) - 1 -> FrameSet]
  BY <1>4, <1>5
<1>7. Below \in Seq(FrameSet) /\ Len(Below) = Len(stack) - 1
  BY <1>6, <1>2, <1>4
<1> QED
  BY <1>1, <1>4, <1>7

\* A cron job is being called at the top only.
LEMMA OnTop ==
  ASSUME IInv, stack # <<>>, Top.at # "cron"
  PROVE  \A i \in DOMAIN stack : stack[i].at # "cron"
  BY DEF IInv, CallTrue, Top

\* A step that leaves the queue alone, and adds or removes activations that have
\* no entry to free, keeps the invariant.
LEMMA Quiet ==
  ASSUME IInv, stack # <<>>, Top.at # "cron",
         stack' \in Seq(FrameSet), UNCHANGED <<memory, last, wild>>,
         indestroy' \in BOOLEAN, left' \in 0 .. Budget,
         \A i \in 1 .. Len(stack') : \/ i <= Len(stack) /\ stack'[i] = stack[i]
                                     \/ stack'[i].at \notin {"release", "cron"}
  PROVE  IInv'
<1> USE DEF memory
<1>1. TypeInv'
  BY DEF IInv, TypeInv
<1>2. \A m \in Node : EntryTrue(m)'
  BY DEF IInv, EntryTrue
<1>3. \A e \in Plain : HandleTrue(e)'
  BY DEF IInv, HandleTrue
<1>4. \A c \in Cron : CronTrue(c)'
  BY DEF IInv, CronTrue, Running
<1>5. ASSUME NEW i \in DOMAIN stack', stack'[i].at \in {"release", "cron"}
      PROVE  i \in DOMAIN stack /\ stack'[i] = stack[i]
  <2>1. stack \in Seq(FrameSet)
    BY DEF IInv, TypeInv
  <2> QED
    BY <1>5, <2>1
<1>6. ASSUME NEW i \in DOMAIN stack'
      PROVE  ReleaseTrue(i)' /\ CallTrue(i)'
  <2>1. CallTrue(i)'
    BY <1>5, <1>6, OnTop DEF CallTrue
  <2>2. ReleaseTrue(i)'
    BY <1>5, <1>6 DEF ReleaseTrue, IInv
  <2> QED
    BY <2>1, <2>2
<1> QED
  BY <1>1, <1>2, <1>3, <1>4, <1>6 DEF IInv

\* The program calls when no cron job is between its entries.
LEMMA Calling ==
  ASSUME IInv, MayCall
  PROVE  /\ stack # <<>> /\ Top.at # "cron" /\ left' \in 0 .. Budget /\ ~wild
         /\ stack \in Seq(FrameSet)
<1>1. left \in 0 .. Budget /\ stack \in Seq(FrameSet)
  BY DEF IInv, TypeInv
<1> QED
  BY <1>1, TimeAssumption DEF MayCall, Running

\* Activations are of the type.
LEMMA FrameType == \A at \in {"main", "check", "user", "cron", "release", "destroy"} :
  Frame(at) \in FrameSet /\ Frame(at).at = at
  BY Times DEF Frame, FrameSet, Unset

\* A nested bk_run_once keeps the invariant.
LEMMA RunOnceSafe == IInv /\ RunOnce => IInv'
<1> SUFFICES ASSUME IInv, RunOnce PROVE IInv'
  OBVIOUS
<1>1. MayCall /\ Added(Frame("check")) /\ UNCHANGED <<memory, last, indestroy, wild>>
  BY DEF RunOnce, Added
<1> QED
  BY <1>1, Calling, FrameType, Adding, Quiet DEF IInv, TypeInv

\* bk_run_destroy begins.
LEMMA DestroySafe == IInv /\ Destroy => IInv'
<1> SUFFICES ASSUME IInv, Destroy PROVE IInv'
  OBVIOUS
<1>1. MayCall /\ Added(Frame("destroy")) /\ UNCHANGED <<memory, last, wild>> /\ indestroy'
  BY DEF Destroy, Added
<1> QED
  BY <1>1, Calling, FrameType, Adding, Quiet DEF IInv, TypeInv, Destroy

\* bk_run_run takes its next turn.
LEMMA TurnSafe == IInv /\ Turn => IInv'
<1> SUFFICES ASSUME IInv, Turn PROVE IInv'
  OBVIOUS
<1>1. /\ Added(Frame("check")) /\ UNCHANGED <<memory, last, indestroy, wild, left>>
      /\ stack # <<>> /\ Top.at # "cron"
  BY DEF Turn, Added, Running
<1> QED
  BY <1>1, FrameType, Adding, Quiet DEF IInv, TypeInv

\* An activation that has no entry returns.
LEMMA ReturnSafe ==
  ASSUME IInv, stack # <<>>, Top.at # "cron", stack' = Below,
         UNCHANGED <<memory, last, indestroy, wild, left>>
  PROVE  IInv'
  BY Removing, Quiet DEF IInv, TypeInv

\* bk_run_destroy ends.
LEMMA EndDestroySafe == IInv /\ EndDestroy => IInv'
<1> SUFFICES ASSUME IInv, EndDestroy PROVE IInv'
  OBVIOUS
<1>1. /\ stack' = <<>> /\ UNCHANGED <<memory, last, indestroy, wild, left>>
      /\ stack # <<>> /\ Top.at # "cron"
  BY DEF EndDestroy, Running
<1>2. stack' \in Seq(FrameSet) /\ Len(stack') = 0
  BY <1>1
<1> QED
  BY <1>1, <1>2, Quiet DEF IInv, TypeInv

-----------------------------------------------------------------------------
(* Enqueueing and dequeueing.                                              *)

\* Jobs are events or cron jobs.
LEMMA NoneApart == None \notin Node /\ \A j \in Job : j \in Plain \/ j \in Cron
  BY JobAssumption DEF Job

\* The memory's part of an enqueue: a fresh entry is nobody's.
LEMMA FreshEntry ==
  ASSUME NEW m \in Fresh
  PROVE  /\ m \in Node /\ node[m].state = "free"
         /\ \A e \in Plain : handle[e] # m
         /\ \A c \in Cron : equeue[c] # m
         /\ \A i \in DOMAIN stack : stack[i].node # m
  BY DEF Fresh, Pointers

\* A new entry is queued, and the others are as they were.
LEMMA Inserting ==
  ASSUME IInv, NEW m \in Node, NEW when \in Int, NEW job \in Job, Insert(m, when, job)
  PROVE  /\ node' \in [Node -> EntrySet]
         /\ node'[m].state = "queued" /\ node'[m].when = when /\ node'[m].job = job
         /\ \A n \in Node \ {m} : node'[n] = node[n]
<1>1. node \in [Node -> EntrySet]
  BY DEF IInv, TypeInv
<1>2. [state |-> "queued", when |-> when, job |-> job] \in EntrySet
  BY DEF EntrySet
<1> QED
  BY <1>1, <1>2 DEF Insert

\* An entry that is not free yet is freed once.
LEMMA Freeing ==
  ASSUME IInv, NEW m \in Node, Release(m), node[m].state # "free"
  PROVE  /\ node' \in [Node -> EntrySet] /\ wild' \in BOOLEAN /\ ~wild'
         /\ node'[m].state = "free"
         /\ \A n \in Node \ {m} : node'[n] = node[n]
<1>1. node \in [Node -> EntrySet] /\ wild \in BOOLEAN /\ ~wild
  BY DEF IInv, TypeInv
<1>2. Free \in EntrySet /\ Free.state = "free"
  BY DEF EntrySet, Free
<1>3. wild' \in BOOLEAN /\ ~wild'
  BY <1>1 DEF Release
<1> QED
  BY <1>1, <1>2, <1>3 DEF Release

\* A step that leaves the stack alone when no cron job is being called, and the
\* entries that are being run.
LEMMA StackAlone ==
  ASSUME IInv, stack # <<>>, Top.at # "cron", UNCHANGED stack,
         \A m \in Node : node[m].state = "out" => node'[m] = node[m]
  PROVE  \A i \in DOMAIN stack' : ReleaseTrue(i)' /\ CallTrue(i)'
<1> SUFFICES ASSUME NEW i \in DOMAIN stack
             PROVE  ReleaseTrue(i)' /\ CallTrue(i)'
  OBVIOUS
<1>1. stack'[i].at # "cron"
  BY OnTop
<1>2. ReleaseTrue(i)
  BY DEF IInv
<1>3. ReleaseTrue(i)'
  BY <1>2 DEF ReleaseTrue
<1> QED
  BY <1>1, <1>3 DEF CallTrue

\* bk_run_enqueue_delta keeps the invariant: the entry is nobody's before.
LEMMA EnqueueSafe ==
  ASSUME IInv, NEW e \in Plain, NEW ms \in Delays, Enqueue(e, ms)
  PROVE  IInv'
<1>1. MayCall /\ handle[e] = None /\ UNCHANGED <<stack, equeue, last, indestroy, wild>>
  BY DEF Enqueue
<1>2. PICK m \in Fresh : Insert(m, Us(ms), e) /\ handle' = [handle EXCEPT ![e] = m]
  BY DEF Enqueue
<1>3. Us(ms) \in Int /\ e \in Job /\ e \notin Cron
  BY TimeAssumption, JobAssumption DEF Us, Job
<1>4. /\ m \in Node /\ node[m].state = "free"
      /\ \A c \in Cron : equeue[c] # m
      /\ \A i \in DOMAIN stack : stack[i].node # m
  BY <1>2, FreshEntry
<1>5. /\ node' \in [Node -> EntrySet]
      /\ node'[m].state = "queued" /\ node'[m].job = e
      /\ \A n \in Node \ {m} : node'[n] = node[n]
  BY <1>2, <1>3, <1>4, Inserting
<1>6. /\ DOMAIN handle' = Job /\ handle'[e] = m
      /\ \A j \in Job \ {e} : handle'[j] = handle[j]
  BY <1>2, <1>3 DEF IInv, TypeInv
<1>7. stack # <<>> /\ Top.at # "cron" /\ left' \in 0 .. Budget
  BY <1>1, Calling
<1>8. TypeInv'
  <2>1. \A x \in Plain : handle'[x] \in Node \cup {None}
    BY <1>4, <1>6 DEF IInv, TypeInv, Job
  <2>2. \A c \in Cron : handle'[c] \in BOOLEAN
    BY <1>3, <1>6 DEF IInv, TypeInv, Job
  <2> QED
    BY <1>1, <1>3, <1>5, <1>6, <1>7, <2>1, <2>2 DEF IInv, TypeInv
<1>9. ASSUME NEW n \in Node PROVE EntryTrue(n)'
  <2>1. CASE n = m
    BY <2>1, <1>5, <1>6 DEF EntryTrue
  <2>2. CASE n # m
    <3>1. node'[n] = node[n] /\ EntryTrue(n)
      BY <2>2, <1>5 DEF IInv
    <3>2. node[n].state = "queued" => node[n].job # e
      BY <3>1, <1>1, <1>3, NoneApart DEF EntryTrue
    <3> QED
      BY <3>1, <3>2, <1>1, <1>6 DEF EntryTrue, Job
  <2> QED
    BY <2>1, <2>2
<1>10. ASSUME NEW x \in Plain PROVE HandleTrue(x)'
  <2>1. CASE x = e
    BY <2>1, <1>5, <1>6 DEF HandleTrue
  <2>2. CASE x # e
    <3>1. HandleTrue(x) /\ handle'[x] = handle[x] /\ handle[x] \in Node \cup {None}
      BY <2>2, <1>6 DEF IInv, TypeInv, Job
    <3> QED
      BY <3>1, <1>4, <1>5 DEF HandleTrue
  <2> QED
    BY <2>1, <2>2
<1>11. ASSUME NEW c \in Cron PROVE CronTrue(c)'
  <2>1. CronTrue(c) /\ handle'[c] = handle[c] /\ ~Running("cron") /\ ~Running("cron")'
    BY <1>1, <1>3, <1>6, <1>7 DEF IInv, Job, Running, Top
  <2> QED
    BY <2>1, <1>1, <1>4, <1>5 DEF CronTrue
<1>12. \A i \in DOMAIN stack' : ReleaseTrue(i)' /\ CallTrue(i)'
  BY <1>1, <1>4, <1>5, <1>7, StackAlone
<1> QED
  BY <1>1, <1>7, <1>8, <1>9, <1>10, <1>11, <1>12, Calling DEF IInv

\* bk_run_enqueue_cron keeps the invariant.
LEMMA EnqueueCronSafe ==
  ASSUME IInv, NEW c \in Cron, EnqueueCron(c)
  PROVE  IInv'
<1>1. MayCall /\ equeue[c] = None /\ UNCHANGED <<stack, last, indestroy, wild>>
  BY DEF EnqueueCron
<1>2. PICK m \in Fresh : Insert(m, Us(Interval), c) /\ equeue' = [equeue EXCEPT ![c] = m]
  BY DEF EnqueueCron
<1>3. Us(Interval) \in Int /\ c \in Job /\ c \notin Plain
  BY Times, JobAssumption DEF Job
<1>4. /\ m \in Node /\ node[m].state = "free"
      /\ \A e \in Plain : handle[e] # m
      /\ \A i \in DOMAIN stack : stack[i].node # m
  BY <1>2, FreshEntry
<1>5. /\ node' \in [Node -> EntrySet]
      /\ node'[m].state = "queued" /\ node'[m].job = c /\ node'[m].when = Us(Interval)
      /\ \A n \in Node \ {m} : node'[n] = node[n]
  BY <1>2, <1>3, <1>4, Inserting
<1>6. /\ handle' = [handle EXCEPT ![c] = TRUE] /\ DOMAIN handle = Job
      /\ equeue \in [Cron -> Node \cup {None}] /\ last \in [Cron -> LongAgo .. 0]
  BY DEF IInv, TypeInv, EnqueueCron
<1>7. /\ DOMAIN handle' = Job /\ handle'[c] /\ equeue'[c] = m
      /\ \A j \in Job \ {c} : handle'[j] = handle[j]
      /\ \A d \in Cron \ {c} : equeue'[d] = equeue[d]
  BY <1>2, <1>3, <1>6
<1>8. stack # <<>> /\ Top.at # "cron" /\ left' \in 0 .. Budget
  BY <1>1, Calling
<1>9. TypeInv'
  <2>1. equeue' \in [Cron -> Node \cup {None}]
    BY <1>2, <1>4, <1>6
  <2>2. \A d \in Cron : handle'[d] \in BOOLEAN
    BY <1>3, <1>7 DEF IInv, TypeInv, Job
  <2>3. \A e \in Plain : handle'[e] \in Node \cup {None}
    BY <1>3, <1>7 DEF IInv, TypeInv, Job
  <2> QED
    BY <1>1, <1>5, <1>7, <1>8, <2>1, <2>2, <2>3 DEF IInv, TypeInv
<1>10. ASSUME NEW n \in Node PROVE EntryTrue(n)'
  <2>1. CASE n = m
    <3>1. last'[c] \in LongAgo .. 0
      BY <1>1, <1>6
    <3>2. Us(Interval) >= -MaxLag /\ Us(Interval) >= last'[c] + Period
      BY <3>1, Times
    <3> QED
      BY <2>1, <1>5, <1>7, <3>2 DEF EntryTrue
  <2>2. CASE n # m
    <3>1. node'[n] = node[n] /\ EntryTrue(n)
      BY <2>2, <1>5 DEF IInv
    <3>2. node[n].state = "queued" => node[n].job # c
      BY <3>1, <1>1, <1>3, NoneApart DEF EntryTrue
    <3> QED
      BY <3>1, <3>2, <1>1, <1>7 DEF EntryTrue, Job
  <2> QED
    BY <2>1, <2>2
<1>11. ASSUME NEW e \in Plain PROVE HandleTrue(e)'
  <2>1. HandleTrue(e) /\ handle'[e] = handle[e] /\ handle[e] \in Node \cup {None}
    BY <1>3, <1>7 DEF IInv, TypeInv, Job
  <2> QED
    BY <2>1, <1>4, <1>5 DEF HandleTrue
<1>12. ASSUME NEW d \in Cron PROVE CronTrue(d)'
  <2>1. CASE d = c
    BY <2>1, <1>4, <1>5, <1>7 DEF CronTrue
  <2>2. CASE d # c
    <3>1. CronTrue(d) /\ handle'[d] = handle[d] /\ equeue'[d] = equeue[d]
      BY <2>2, <1>7 DEF IInv, Job
    <3>2. ~Running("cron") /\ ~Running("cron")'
      BY <1>1, <1>8 DEF Running, Top
    <3> QED
      BY <3>1, <3>2, <1>4, <1>5 DEF CronTrue
  <2> QED
    BY <2>1, <2>2
<1>13. \A i \in DOMAIN stack' : ReleaseTrue(i)' /\ CallTrue(i)'
  BY <1>1, <1>4, <1>5, <1>8, StackAlone
<1> QED
  BY <1>1, <1>9, <1>10, <1>11, <1>12, <1>13, Calling DEF IInv

\* An entry that a handle has is queued, and no other handle has it.
LEMMA Handled ==
  ASSUME IInv, NEW e \in Plain, handle[e] # None
  PROVE  /\ handle[e] \in Node /\ node[handle[e]].state = "queued" /\ node[handle[e]].job = e
         /\ \A n \in Node : node[n].state = "queued" /\ node[n].job = e => n = handle[e]
<1>1. HandleTrue(e) /\ handle[e] \in Node \cup {None} /\ e \notin Cron
  BY JobAssumption DEF IInv, TypeInv
<1>2. ASSUME NEW n \in Node, node[n].state = "queued", node[n].job = e
      PROVE  n = handle[e]
  BY <1>1, <1>2 DEF IInv, EntryTrue
<1> QED
  BY <1>1, <1>2 DEF HandleTrue

\* A cron job's entry is queued when the program runs, and no other is its.
LEMMA CronHandled ==
  ASSUME IInv, NEW c \in Cron, handle[c], stack # <<>>, Top.at # "cron"
  PROVE  /\ equeue[c] \in Node /\ node[equeue[c]].state = "queued" /\ node[equeue[c]].job = c
         /\ \A n \in Node : node[n].state = "queued" /\ node[n].job = c => n = equeue[c]
<1>1. CronTrue(c) /\ c \notin Plain
  BY JobAssumption DEF IInv
<1>2. ASSUME NEW n \in Node, node[n].state = "queued", node[n].job = c
      PROVE  n = equeue[c]
  BY <1>1, <1>2 DEF IInv, EntryTrue
<1> QED
  BY <1>1, <1>2 DEF CronTrue, Running

\* bk_run_dequeue keeps the invariant: what it frees is queued, and nobody
\* else's.
LEMMA DequeueSafe ==
  ASSUME IInv, NEW e \in Plain, Dequeue(e)
  PROVE  IInv'
<1> DEFINE m == handle[e]
<1>1. /\ MayCall /\ m # None /\ Release(m) /\ UNCHANGED <<stack, equeue, last, indestroy>>
      /\ handle' = [handle EXCEPT ![e] = None]
  BY DEF Dequeue
<1>2. /\ m \in Node /\ node[m].state = "queued" /\ node[m].job = e
      /\ \A n \in Node : node[n].state = "queued" /\ node[n].job = e => n = m
  BY <1>1, Handled
<1>3. e \in Job /\ e \notin Cron
  BY JobAssumption DEF Job
<1>4. /\ node' \in [Node -> EntrySet] /\ wild' \in BOOLEAN /\ ~wild' /\ node'[m].state = "free"
      /\ \A n \in Node \ {m} : node'[n] = node[n]
  BY <1>1, <1>2, Freeing
<1>5. /\ DOMAIN handle' = Job /\ handle'[e] = None
      /\ \A j \in Job \ {e} : handle'[j] = handle[j]
  BY <1>1, <1>3 DEF IInv, TypeInv
<1>6. stack # <<>> /\ Top.at # "cron" /\ left' \in 0 .. Budget
  BY <1>1, Calling
<1>7. TypeInv'
  BY <1>1, <1>3, <1>4, <1>5, <1>6 DEF IInv, TypeInv, Job
<1> HIDE DEF m
<1>8. ASSUME NEW n \in Node PROVE EntryTrue(n)'
  <2>1. CASE n = m
    BY <2>1, <1>4 DEF EntryTrue
  <2>2. CASE n # m
    <3>1. node'[n] = node[n] /\ EntryTrue(n) /\ (node[n].state = "queued" => node[n].job # e)
      BY <2>2, <1>2, <1>4 DEF IInv
    <3> QED
      BY <3>1, <1>1, <1>5 DEF EntryTrue, Job
  <2> QED
    BY <2>1, <2>2
<1>9. ASSUME NEW x \in Plain PROVE HandleTrue(x)'
  <2>1. CASE x = e
    BY <2>1, <1>5 DEF HandleTrue
  <2>2. CASE x # e
    <3>1. HandleTrue(x) /\ handle'[x] = handle[x] /\ handle[x] \in Node \cup {None}
      BY <2>2, <1>5 DEF IInv, TypeInv, Job
    <3> QED
      BY <2>2, <3>1, <1>2, <1>4 DEF HandleTrue
  <2> QED
    BY <2>1, <2>2
<1>10. ASSUME NEW c \in Cron PROVE CronTrue(c)'
  <2>1. CronTrue(c) /\ handle'[c] = handle[c] /\ ~Running("cron") /\ ~Running("cron")' /\ c # e
    BY <1>1, <1>3, <1>5, <1>6 DEF IInv, Job, Running, Top
  <2> QED
    BY <2>1, <1>1, <1>2, <1>4 DEF CronTrue
<1>11. \A i \in DOMAIN stack' : ReleaseTrue(i)' /\ CallTrue(i)'
  BY <1>1, <1>2, <1>4, <1>6, StackAlone
<1> QED
  BY <1>4, <1>7, <1>8, <1>9, <1>10, <1>11 DEF IInv

\* bk_run_dequeue of a cron job keeps the invariant: its entry is queued when a
\* function may call, its own included.
LEMMA DequeueCronSafe ==
  ASSUME IInv, NEW c \in Cron, DequeueCron(c)
  PROVE  IInv'
<1> DEFINE m == equeue[c]
<1>1. /\ MayCall /\ handle[c] /\ Release(m) /\ UNCHANGED <<stack, indestroy>>
      /\ handle' = [handle EXCEPT ![c] = FALSE] /\ equeue' = [equeue EXCEPT ![c] = None]
      /\ last' = [last EXCEPT ![c] = LongAgo]
  BY DEF DequeueCron
<1>2. stack # <<>> /\ Top.at # "cron" /\ left' \in 0 .. Budget
  BY <1>1, Calling
<1>3. /\ m \in Node /\ node[m].state = "queued" /\ node[m].job = c
      /\ \A n \in Node : node[n].state = "queued" /\ node[n].job = c => n = m
  BY <1>1, <1>2, CronHandled
<1>4. c \in Job /\ c \notin Plain
  BY JobAssumption DEF Job
<1>5. /\ node' \in [Node -> EntrySet] /\ wild' \in BOOLEAN /\ ~wild' /\ node'[m].state = "free"
      /\ \A n \in Node \ {m} : node'[n] = node[n]
  BY <1>1, <1>3, Freeing
<1>6. /\ DOMAIN handle = Job
      /\ equeue \in [Cron -> Node \cup {None}] /\ last \in [Cron -> LongAgo .. 0]
  BY DEF IInv, TypeInv
<1>7. /\ DOMAIN handle' = Job /\ handle'[c] = FALSE
      /\ \A j \in Job \ {c} : handle'[j] = handle[j]
      /\ \A d \in Cron \ {c} : equeue'[d] = equeue[d] /\ last'[d] = last[d]
  BY <1>1, <1>4, <1>6
<1>8. TypeInv'
  <2>1. equeue' \in [Cron -> Node \cup {None}]
    BY <1>1, <1>6
  <2>2. last' \in [Cron -> LongAgo .. 0]
    BY <1>1, <1>6, Times
  <2>3. \A d \in Cron : handle'[d] \in BOOLEAN
    BY <1>4, <1>7 DEF IInv, TypeInv, Job
  <2>4. \A e \in Plain : handle'[e] \in Node \cup {None}
    BY <1>4, <1>7 DEF IInv, TypeInv, Job
  <2> QED
    BY <1>1, <1>2, <1>5, <1>7, <2>1, <2>2, <2>3, <2>4 DEF IInv, TypeInv
<1> HIDE DEF m
<1>9. ASSUME NEW n \in Node PROVE EntryTrue(n)'
  <2>1. CASE n = m
    BY <2>1, <1>5 DEF EntryTrue
  <2>2. CASE n # m
    <3>1. node'[n] = node[n] /\ EntryTrue(n) /\ (node[n].state = "queued" => node[n].job # c)
      BY <2>2, <1>3, <1>5 DEF IInv
    <3> QED
      BY <3>1, <1>7 DEF EntryTrue, Job
  <2> QED
    BY <2>1, <2>2
<1>10. ASSUME NEW e \in Plain PROVE HandleTrue(e)'
  <2>1. HandleTrue(e) /\ handle'[e] = handle[e] /\ handle[e] \in Node \cup {None} /\ e # c
    BY <1>4, <1>7 DEF IInv, TypeInv, Job
  <2> QED
    BY <2>1, <1>3, <1>5 DEF HandleTrue
<1>11. ASSUME NEW d \in Cron PROVE CronTrue(d)'
  <2>1. CASE d = c
    BY <2>1, <1>7 DEF CronTrue
  <2>2. CASE d # c
    <3>1. CronTrue(d) /\ handle'[d] = handle[d] /\ equeue'[d] = equeue[d]
      BY <2>2, <1>7 DEF IInv, Job
    <3>2. ~Running("cron") /\ ~Running("cron")'
      BY <1>1, <1>2 DEF Running, Top
    <3> QED
      BY <2>2, <3>1, <3>2, <1>3, <1>5 DEF CronTrue
  <2> QED
    BY <2>1, <2>2
<1>12. \A i \in DOMAIN stack' : ReleaseTrue(i)' /\ CallTrue(i)'
  BY <1>1, <1>2, <1>3, <1>5, StackAlone
<1> QED
  BY <1>5, <1>8, <1>9, <1>10, <1>11, <1>12 DEF IInv

-----------------------------------------------------------------------------
(* An entry is run, told of the end and freed.                             *)

\* bk_run_checkeventq and bk_run_destroy call a function: two activations more,
\* and the first of them has the entry to free.
LEMMA Stacking ==
  ASSUME NEW below \in Seq(FrameSet), NEW f \in FrameSet, NEW g \in FrameSet
  PROVE  LET s == below \o <<f, g>>
         IN /\ s \in Seq(FrameSet) /\ Len(s) = Len(below) + 2
            /\ \A i \in 1 .. Len(below) : s[i] = below[i]
            /\ s[Len(below) + 1] = f /\ s[Len(below) + 2] = g
<1> DEFINE t == <<f, g>>
           s == below \o t
<1>1. t \in Seq(FrameSet) /\ Len(t) = 2 /\ t[1] = f /\ t[2] = g
  OBVIOUS
<1>2. Len(below) \in Nat
  OBVIOUS
<1>3. s \in Seq(FrameSet) /\ Len(s) = Len(below) + Len(t)
  <2> HIDE DEF t
  <2>1. t \in Seq(FrameSet)
    BY <1>1
  <2> QED
    BY <2>1
<1>4. \A i \in 1 .. Len(below) : s[i] = below[i]
  <2> HIDE DEF t
  <2> QED BY <1>1, <1>2
<1>5. s[Len(below) + 1] = t[1] /\ s[Len(below) + 2] = t[2]
  <2> HIDE DEF t
  <2> QED BY SMTT(40), <1>1, <1>2
<1> QED
  BY <1>1, <1>3, <1>4, <1>5

\* The entry that is first in the queue is taken out of it and its function
\* called, with the activations below as they were.
Handed(m, below, frame) ==
  /\ m \in Node /\ node[m].state = "queued"
  /\ Take(m) /\ Call(m, below, frame)
  /\ below \in Seq(FrameSet)
  /\ \A i \in 1 .. Len(below) : /\ below[i].at \notin {"cron"}
                                /\ below[i].at = "release" => i \in DOMAIN stack /\ below[i] = stack[i]
  /\ frame \in FrameSet /\ frame.at \in {"user", "cron"} /\ frame.job = node[m].job
  /\ frame.at = "cron" => /\ node[m].job \in Cron
                          /\ frame.start <= 0 /\ frame.start >= last[node[m].job] + Period
  /\ IF node[m].job \in Plain THEN handle' = [handle EXCEPT ![node[m].job] = None]
     ELSE IF frame.at = "cron" THEN handle' = handle
                               ELSE handle' = [handle EXCEPT ![node[m].job] = FALSE]
  /\ UNCHANGED <<equeue, last, indestroy, wild, left>>

\* The stack of a call.
LEMMA HandedStack ==
  ASSUME IInv, NEW m \in Node, NEW below, NEW frame, Handed(m, below, frame)
  PROVE  /\ stack' \in Seq(FrameSet) /\ Len(stack') = Len(below) + 2 /\ Len(below) \in Nat
         /\ \A i \in 1 .. Len(below) : stack'[i] = below[i]
         /\ stack'[Len(below) + 1].at = "release" /\ stack'[Len(below) + 1].node = m
         /\ stack'[Len(below) + 2] = frame
<1> DEFINE f == [Frame("release") EXCEPT !.node = m]
<1>1. f \in FrameSet /\ f.at = "release" /\ f.node = m
  BY Times DEF Frame, FrameSet, Unset
<1>2. below \in Seq(FrameSet) /\ frame \in FrameSet /\ stack' = below \o <<f, frame>>
  BY DEF Handed, Call
<1> HIDE DEF f
<1>3. Len(below) \in Nat
  BY <1>2
<1> QED
  BY <1>1, <1>2, <1>3, Stacking

\* Handing an entry to its function keeps the invariant: the activation that will
\* free it has it alone.
LEMMA HandedSafe ==
  ASSUME IInv, NEW m \in Node, NEW below, NEW frame, Handed(m, below, frame),
         stack # <<>>, Top.at # "cron"
  PROVE  IInv'
<1> DEFINE job == node[m].job
           l == Len(below)
<1>1. /\ node[m].state = "queued" /\ Take(m)
      /\ frame.job = job /\ frame.at \in {"user", "cron"}
      /\ UNCHANGED <<equeue, last, indestroy, wild, left>>
  BY DEF Handed
<1>2. EntryTrue(m) /\ node \in [Node -> EntrySet]
  BY DEF IInv, TypeInv
<1>3. job \in Job /\ (job \in Cron => job \notin Plain) /\ (job \in Plain \/ job \in Cron)
  BY <1>1, <1>2, JobAssumption DEF EntryTrue, Job
<1>4. /\ node' \in [Node -> EntrySet] /\ node'[m].state = "out" /\ node'[m].job = job
      /\ \A n \in Node \ {m} : node'[n] = node[n]
  BY <1>1, <1>2 DEF Take, EntrySet
<1>5. \A n \in Node : node[n].state = "queued" /\ node[n].job = job => n = m
  <2> SUFFICES ASSUME NEW n \in Node, node[n].state = "queued", node[n].job = job
               PROVE  n = m
    OBVIOUS
  <2>1. EntryTrue(n)
    BY DEF IInv
  <2> QED
    BY <1>1, <1>2, <1>3, <2>1 DEF EntryTrue
<1>6. /\ stack' \in Seq(FrameSet) /\ Len(stack') = l + 2 /\ l \in Nat
      /\ \A i \in 1 .. l : stack'[i] = below[i]
      /\ stack'[l + 1].at = "release" /\ stack'[l + 1].node = m
      /\ stack'[l + 2] = frame
  BY HandedStack
<1>7. /\ DOMAIN handle' = Job
      /\ \A j \in Job \ {job} : handle'[j] = handle[j]
      /\ job \in Plain => handle'[job] = None
      /\ frame.at = "cron" => job \in Cron /\ handle'[job] = handle[job]
      /\ job \in Cron /\ frame.at = "user" => handle'[job] = FALSE
  <2>1. DOMAIN handle = Job
    BY DEF IInv, TypeInv
  <2> QED
    BY <1>1, <1>3, <2>1 DEF Handed
<1>8. TypeInv'
  <2>1. \A e \in Plain : handle'[e] \in Node \cup {None}
    BY <1>3, <1>7 DEF IInv, TypeInv, Job
  <2>2. \A c \in Cron : handle'[c] \in BOOLEAN
    BY <1>1, <1>3, <1>7 DEF IInv, TypeInv, Job
  <2> QED
    BY <1>1, <1>4, <1>6, <1>7, <2>1, <2>2 DEF IInv, TypeInv
<1>9. frame.at = "cron" => handle'[job]
  BY <1>1, <1>2, <1>3, <1>7 DEF EntryTrue
<1>10. frame.at = "cron" => frame.start <= 0 /\ frame.start >= last'[job] + Period
  BY <1>1 DEF Handed
<1>11. \A i \in 1 .. l : /\ below[i].at # "cron"
                         /\ below[i].at = "release" => i \in DOMAIN stack /\ below[i] = stack[i]
  BY DEF Handed
<1>12. stack \in Seq(FrameSet)
  BY DEF IInv, TypeInv
<1> HIDE DEF job, l
<1>13. ASSUME NEW n \in Node PROVE EntryTrue(n)'
  <2>1. CASE n = m
    BY <2>1, <1>4 DEF EntryTrue
  <2>2. CASE n # m
    <3>1. node'[n] = node[n] /\ EntryTrue(n) /\ (node[n].state = "queued" => node[n].job # job)
      BY <2>2, <1>4, <1>5 DEF IInv
    <3> QED
      BY <3>1, <1>1, <1>7 DEF EntryTrue, Job
  <2> QED
    BY <2>1, <2>2
<1>14. ASSUME NEW e \in Plain PROVE HandleTrue(e)'
  <2>1. CASE e = job
    BY <2>1, <1>7 DEF HandleTrue
  <2>2. CASE e # job
    <3>1. HandleTrue(e) /\ handle'[e] = handle[e] /\ handle[e] \in Node \cup {None}
      BY <2>2, <1>7 DEF IInv, TypeInv, Job
    <3>2. handle[e] # None => handle[e] # m
      BY <3>1, <2>2 DEF HandleTrue, job
    <3> QED
      BY <3>1, <3>2, <1>4 DEF HandleTrue
  <2> QED
    BY <2>1, <2>2
<1>15. ASSUME NEW c \in Cron PROVE CronTrue(c)'
  <2>1. CASE c # job
    <3>1. CronTrue(c) /\ handle'[c] = handle[c] /\ equeue'[c] = equeue[c] /\ ~Running("cron")
      BY <2>1, <1>1, <1>7 DEF IInv, Job, Running
    <3>2. handle[c] => equeue[c] # m
      BY <3>1, <2>1 DEF CronTrue, job
    <3> QED
      BY <3>1, <3>2, <1>4 DEF CronTrue
  <2>2. CASE c = job /\ frame.at = "user"
    BY <2>2, <1>7 DEF CronTrue
  <2>3. CASE c = job /\ frame.at = "cron"
    <3>1. stack' # <<>> /\ Top' = frame
      BY <1>6 DEF Top
    <3> QED
      BY <3>1, <2>3, <1>1 DEF CronTrue, Running
  <2> QED
    BY <2>1, <2>2, <2>3, <1>1
<1>16. ASSUME NEW i \in DOMAIN stack' PROVE ReleaseTrue(i)' /\ CallTrue(i)'
  <2>1. i \in 1 .. l \/ i = l + 1 \/ i = l + 2
    BY <1>6
  <2>2. \A j \in 1 .. l : stack'[j].at = "release" => stack'[j].node # m
    BY <1>1, <1>6, <1>11 DEF IInv, ReleaseTrue
  <2>3. CASE i \in 1 .. l
    <3>1. stack'[i].at # "cron"
      BY <2>3, <1>6, <1>11
    <3>2. ASSUME stack'[i].at = "release"
          PROVE  /\ i \in DOMAIN stack /\ stack'[i] = stack[i] /\ ReleaseTrue(i)
                 /\ stack'[i].node # m
      BY <3>2, <2>2, <2>3, <1>6, <1>11 DEF IInv
    <3>3. ASSUME stack'[i].at = "release"
          PROVE  stack'[i].node \in Node /\ node'[stack'[i].node].state = "out"
      BY <3>2, <3>3, <1>4 DEF ReleaseTrue
    <3>4. ASSUME stack'[i].at = "release", NEW j \in DOMAIN stack', stack'[j].at = "release",
                 stack'[j].node = stack'[i].node
          PROVE  j = i
      <4>1. j \in 1 .. l
        BY <3>2, <3>4, <1>1, <1>6
      <4>2. j \in DOMAIN stack /\ stack'[j] = stack[j]
        BY <4>1, <3>4, <1>6, <1>11
      <4> QED
        BY <4>2, <3>2, <3>4 DEF ReleaseTrue
    <3> QED
      BY <3>1, <3>3, <3>4 DEF ReleaseTrue, CallTrue
  <2>4. CASE i = l + 1
    <3>1. \A j \in DOMAIN stack' : stack'[j].at = "release" /\ stack'[j].node = m => j = i
      BY <2>2, <2>4, <1>1, <1>6
    <3> QED
      BY <3>1, <2>4, <1>4, <1>6 DEF ReleaseTrue, CallTrue
  <2>5. CASE i = l + 2
    <3>1. frame.at = "cron" => \A n \in Node : node'[n].state = "queued" => node'[n].job # job
      BY <1>4, <1>5
    <3> QED
      BY <3>1, <2>5, <1>1, <1>6, <1>7, <1>9, <1>10 DEF ReleaseTrue, CallTrue
  <2> QED
    BY <2>1, <2>3, <2>4, <2>5
<1> QED
  BY <1>1, <1>8, <1>13, <1>14, <1>15, <1>16 DEF IInv

\* The activation that runs.
LEMMA TopFrame ==
  ASSUME IInv, stack # <<>>
  PROVE  /\ stack \in Seq(FrameSet) /\ Len(stack) \in DOMAIN stack /\ Top \in FrameSet
         /\ Len(stack) \in Nat /\ Len(stack) > 0 /\ Top = stack[Len(stack)]
<1>1. stack \in Seq(FrameSet) /\ Len(stack) \in Nat /\ Len(stack) > 0
  BY DEF IInv, TypeInv
<1>2. Len(stack) \in DOMAIN stack
  BY <1>1
<1> QED
  BY <1>1, <1>2 DEF Top

\* starttime is not later than now.
LEMMA StartPast ==
  ASSUME IInv, stack # <<>>
  PROVE  Start \in -MaxLag .. 0
<1>1. Top.start \in -MaxLag .. Unset
  BY TopFrame DEF FrameSet
<1> QED
  BY <1>1, Times DEF Start, Unset

\* bk_run_checkeventq notes its start, and those below are as they were.
LEMMA CheckStack ==
  ASSUME IInv, Running("check"), NEW f \in FrameSet, f.at = "check"
  PROVE  LET below == Append(Below, f)
         IN /\ below \in Seq(FrameSet)
            /\ \A i \in 1 .. Len(below) :
                 /\ below[i].at # "cron"
                 /\ below[i].at = "release" => i \in DOMAIN stack /\ below[i] = stack[i]
<1>1. stack # <<>> /\ Top.at # "cron"
  BY DEF Running
<1>2. stack \in Seq(FrameSet) /\ Len(stack) \in Nat /\ Len(stack) > 0
  BY <1>1, TopFrame
<1>3. /\ Below \in Seq(FrameSet) /\ Len(Below) = Len(stack) - 1
      /\ \A i \in 1 .. Len(Below) : Below[i] = stack[i]
  BY <1>1, <1>2, Removing
<1>4. \A i \in DOMAIN stack : stack[i].at # "cron"
  BY <1>1, OnTop
<1> DEFINE below == Append(Below, f)
<1> HIDE DEF Below
<1>5. /\ below \in Seq(FrameSet) /\ Len(below) = Len(stack)
      /\ \A i \in 1 .. Len(Below) : below[i] = Below[i]
      /\ below[Len(stack)] = f
  BY <1>2, <1>3
<1> HIDE DEF below
<1>6. ASSUME NEW i \in 1 .. Len(below)
      PROVE  /\ below[i].at # "cron"
             /\ below[i].at = "release" => i \in DOMAIN stack /\ below[i] = stack[i]
  <2>1. CASE i = Len(stack)
    BY <2>1, <1>5
  <2>2. CASE i # Len(stack)
    <3>1. i \in 1 .. Len(Below) /\ i \in DOMAIN stack
      BY <2>2, <1>2, <1>3, <1>5
    <3>2. below[i] = stack[i]
      BY <3>1, <1>3, <1>5
    <3> QED
      BY <3>1, <3>2, <1>4
  <2> QED
    BY <2>1, <2>2
<1> QED
  BY <1>5, <1>6 DEF below

\* What the activation of a function is.
LEMMA FrameOf ==
  ASSUME NEW at, NEW job, NEW start
  PROVE  [Frame(at) EXCEPT !.job = job, !.start = start] =
           [at |-> at, job |-> job, node |-> None, start |-> start]
<1> DEFINE g == [Frame(at) EXCEPT !.job = job]
           f == [Frame(at) EXCEPT !.job = job, !.start = start]
<1>1. g = [at |-> at, job |-> job, node |-> None, start |-> Unset]
  BY DEF Frame
<1>2. f = [g EXCEPT !.start = start]
  BY Zenon
<1> HIDE DEF f, g
<1>3. f = [at |-> at, job |-> job, node |-> None, start |-> start]
  BY <1>1, <1>2
<1> QED
  BY <1>3 DEF f

\* bk_run_checkeventq calls what is due.
LEMMA RunDueSafe ==
  ASSUME IInv, NEW m \in Node, RunDue(m)
  PROVE  IInv'
<1> DEFINE job == node[m].job
           f == [Top EXCEPT !.start = Start]
           below == Append(Below, f)
           at == IF job \in Cron THEN "cron" ELSE "user"
           frame == [Frame(at) EXCEPT !.job = job, !.start = Start]
<1>1. /\ Running("check") /\ m \in FirstDue /\ node[m].when <= Start /\ Take(m)
      /\ Call(m, below, frame)
      /\ handle' = IF job \in Plain THEN [handle EXCEPT ![job] = None] ELSE handle
      /\ UNCHANGED <<equeue, last, indestroy, wild, left>>
  BY DEF RunDue
<1>2. stack # <<>> /\ Top.at = "check" /\ node[m].state = "queued"
  BY <1>1 DEF Running, FirstDue, Queued
<1>3. Start \in -MaxLag .. 0 /\ Start \in Int /\ Start <= 0
  BY <1>2, StartPast, Times
<1>4. EntryTrue(m) /\ node[m].when \in Int
  BY DEF IInv, TypeInv, EntrySet
<1>5. job \in Job /\ (job \in Cron => job \notin Plain) /\ (job \notin Cron => job \in Plain)
  BY <1>2, <1>4, JobAssumption DEF EntryTrue, Job
<1>6. f \in FrameSet /\ f.at = "check"
  <2>1. Top \in FrameSet
    BY <1>2, TopFrame
  <2> QED
    BY <2>1, <1>2, <1>3, Times DEF FrameSet, Unset
<1>7. frame \in FrameSet /\ frame.at = at /\ frame.job = job /\ frame.start = Start
  <2>1. at \in {"user", "cron"}
    OBVIOUS
  <2>2. job \in Job /\ Start \in -MaxLag .. 0
    BY <1>3, <1>5
  <2>3. frame = [at |-> at, job |-> job, node |-> None, start |-> Start]
    BY FrameOf, Zenon
  <2> HIDE DEF at, frame, job
  <2> QED
    BY <2>1, <2>2, <2>3, Times DEF FrameSet, Unset
<1>8. job \in Cron => Start >= last[job] + Period
  <2> SUFFICES ASSUME job \in Cron PROVE Start >= last[job] + Period
    OBVIOUS
  <2>1. node[m].when >= last[job] + Period
    BY <1>2, <1>4, <1>5 DEF EntryTrue
  <2>2. last[job] \in Int
    BY Times DEF IInv, TypeInv
  <2> QED
    BY <1>1, <1>3, <1>4, <2>1, <2>2, Times
<1>9. /\ below \in Seq(FrameSet)
      /\ \A i \in 1 .. Len(below) :
           /\ below[i].at # "cron"
           /\ below[i].at = "release" => i \in DOMAIN stack /\ below[i] = stack[i]
  BY <1>1, <1>6, CheckStack
<1>10. at \in {"user", "cron"} /\ (at = "cron" <=> job \in Cron)
  OBVIOUS
<1> HIDE DEF below, frame, f, at
<1>11. Handed(m, below, frame)
  <2>1. /\ \A i \in 1 .. Len(below) :
             /\ below[i].at \notin {"cron"}
             /\ below[i].at = "release" => i \in DOMAIN stack /\ below[i] = stack[i]
    BY <1>9
  <2>2. IF job \in Plain THEN handle' = [handle EXCEPT ![job] = None]
        ELSE IF frame.at = "cron" THEN handle' = handle
                                  ELSE handle' = [handle EXCEPT ![job] = FALSE]
    BY <1>1, <1>5, <1>7, <1>10
  <2>3. frame.at = "cron" => job \in Cron /\ frame.start <= 0 /\ frame.start >= last[job] + Period
    BY <1>3, <1>7, <1>8, <1>10
  <2>4. /\ frame \in FrameSet /\ frame.at \in {"user", "cron"} /\ frame.job = job
        /\ below \in Seq(FrameSet)
    BY <1>7, <1>9, <1>10
  <2> QED
    BY <1>1, <1>2, <2>1, <2>2, <2>3, <2>4 DEF Handed
<1> QED
  BY <1>2, <1>11, HandedSafe

\* bk_run_destroy tells an event of the end.
LEMMA TellSafe ==
  ASSUME IInv, NEW m \in Node, Tell(m)
  PROVE  IInv'
<1> DEFINE job == node[m].job
           frame == [Frame("user") EXCEPT !.job = job, !.start = 0]
<1>1. /\ Running("destroy") /\ m \in FirstDue /\ Take(m)
      /\ Call(m, stack, frame)
      /\ handle' = [handle EXCEPT ![job] = IF job \in Plain THEN None ELSE FALSE]
      /\ UNCHANGED <<equeue, last, indestroy, wild, left>>
  BY DEF Tell
<1>2. stack # <<>> /\ Top.at # "cron" /\ node[m].state = "queued"
  BY <1>1 DEF Running, FirstDue, Queued
<1>3. EntryTrue(m)
  BY DEF IInv
<1>4. job \in Job
  BY <1>2, <1>3 DEF EntryTrue, Job
<1>5. frame \in FrameSet /\ frame.at = "user" /\ frame.job = job
  <2>1. 0 \in -MaxLag .. 0
    BY Times
  <2>2. frame = [at |-> "user", job |-> job, node |-> None, start |-> 0]
    BY FrameOf, Zenon
  <2> HIDE DEF frame, job
  <2> QED
    BY <1>4, <2>1, <2>2, Times DEF FrameSet, Unset
<1>6. stack \in Seq(FrameSet) /\ \A i \in DOMAIN stack : stack[i].at # "cron"
  BY <1>2, TopFrame, OnTop
<1> HIDE DEF frame
<1>7. Handed(m, stack, frame)
  <2>1. /\ \A i \in 1 .. Len(stack) :
             /\ stack[i].at \notin {"cron"}
             /\ stack[i].at = "release" => i \in DOMAIN stack /\ stack[i] = stack[i]
    BY <1>6
  <2>2. IF job \in Plain THEN handle' = [handle EXCEPT ![job] = None]
        ELSE IF frame.at = "cron" THEN handle' = handle
                                  ELSE handle' = [handle EXCEPT ![job] = FALSE]
    BY <1>1, <1>5
  <2> QED
    BY <1>1, <1>2, <1>5, <1>6, <2>1, <2>2 DEF Handed
<1> QED
  BY <1>2, <1>7, HandedSafe

\* bk_run_checkeventq returns.
LEMMA EndCheckSafe == IInv /\ EndCheck => IInv'
<1> SUFFICES ASSUME IInv, EndCheck PROVE IInv'
  OBVIOUS
<1>1. /\ stack # <<>> /\ Top.at # "cron" /\ stack' = Below
      /\ UNCHANGED <<memory, last, indestroy, wild, left>>
  BY DEF EndCheck, Running
<1> QED
  BY <1>1, ReturnSafe

\* A function returns.
LEMMA FunctionReturnsSafe == IInv /\ FunctionReturns => IInv'
<1> SUFFICES ASSUME IInv, FunctionReturns PROVE IInv'
  OBVIOUS
<1>1. /\ stack # <<>> /\ Top.at # "cron" /\ stack' = Below
      /\ UNCHANGED <<memory, last, indestroy, wild, left>>
  BY DEF FunctionReturns, Running
<1> QED
  BY <1>1, ReturnSafe

\* The entry is freed after its function: nobody has it.
LEMMA FreeTopSafe == IInv /\ FreeTop => IInv'
<1> SUFFICES ASSUME IInv, FreeTop PROVE IInv'
  OBVIOUS
<1> DEFINE m == Top.node
           l == Len(stack)
<1>1. /\ stack # <<>> /\ Top.at = "release" /\ Release(m) /\ stack' = Below
      /\ UNCHANGED <<handle, equeue, last, indestroy, left>>
  BY DEF FreeTop, Running
<1>2. stack \in Seq(FrameSet) /\ l \in DOMAIN stack /\ Top = stack[l] /\ l \in Nat /\ l > 0
  BY <1>1, TopFrame
<1>3. /\ m \in Node /\ node[m].state = "out"
      /\ \A j \in DOMAIN stack : stack[j].at = "release" /\ stack[j].node = m => j = l
  BY <1>1, <1>2 DEF IInv, ReleaseTrue
<1>4. /\ node' \in [Node -> EntrySet] /\ wild' \in BOOLEAN /\ ~wild' /\ node'[m].state = "free"
      /\ \A n \in Node \ {m} : node'[n] = node[n]
  BY <1>1, <1>3, Freeing
<1>5. /\ stack' \in Seq(FrameSet) /\ Len(stack') = l - 1
      /\ \A i \in 1 .. Len(stack') : stack'[i] = stack[i]
  BY <1>1, <1>2, Removing
<1>6. \A i \in DOMAIN stack : stack[i].at # "cron"
  BY <1>1, OnTop
<1>7. TypeInv'
  BY <1>1, <1>4, <1>5 DEF IInv, TypeInv
<1> HIDE DEF m, l
<1>8. ASSUME NEW n \in Node PROVE EntryTrue(n)'
  <2>1. EntryTrue(n) /\ (node'[n].state = "queued" => node'[n] = node[n])
    BY <1>4 DEF IInv
  <2> QED
    BY <2>1, <1>1 DEF EntryTrue
<1>9. ASSUME NEW e \in Plain PROVE HandleTrue(e)'
  <2>1. HandleTrue(e) /\ handle[e] \in Node \cup {None}
    BY DEF IInv, TypeInv
  <2> QED
    BY <2>1, <1>1, <1>3, <1>4 DEF HandleTrue
<1>10. ASSUME NEW c \in Cron PROVE CronTrue(c)'
  <2>1. CronTrue(c) /\ ~Running("cron")
    BY <1>1 DEF IInv, Running
  <2> QED
    BY <2>1, <1>1, <1>3, <1>4 DEF CronTrue
<1>11. ASSUME NEW i \in DOMAIN stack' PROVE ReleaseTrue(i)' /\ CallTrue(i)'
  <2>1. \A j \in DOMAIN stack' : j \in DOMAIN stack /\ j # l /\ stack'[j] = stack[j]
    BY <1>2, <1>5
  <2>2. stack'[i].at # "cron"
    BY <2>1, <1>6
  <2>3. ReleaseTrue(i)
    BY <2>1 DEF IInv
  <2>4. stack'[i].at = "release" => stack'[i].node # m
    BY <2>1, <1>3
  <2>5. stack'[i].at = "release" =>
          stack'[i].node \in Node /\ node'[stack'[i].node].state = "out"
    BY <2>1, <2>3, <2>4, <1>4 DEF ReleaseTrue
  <2>6. ReleaseTrue(i)'
    BY <2>1, <2>3, <2>5 DEF ReleaseTrue
  <2> QED
    BY <2>2, <2>6 DEF CallTrue
<1> QED
  BY <1>4, <1>7, <1>8, <1>9, <1>10, <1>11 DEF IInv

-----------------------------------------------------------------------------
(* Cron jobs, and the clock.                                               *)

\* A cron job being called has a handle, no entry, and its period over.
LEMMA CronRunning ==
  ASSUME IInv, Running("cron"), NEW c, Top.job = c
  PROVE  /\ c \in Cron /\ handle[c]
         /\ \A m \in Node : node[m].state = "queued" => node[m].job # c
         /\ Top.start \in -MaxLag .. 0 /\ Top.start >= last[c] + Period
<1>1. stack # <<>> /\ Top.at = "cron"
  BY DEF Running
<1>2. Len(stack) \in DOMAIN stack /\ Top \in FrameSet /\ Top = stack[Len(stack)]
  BY <1>1, TopFrame
<1>3. CallTrue(Len(stack))
  BY <1>2 DEF IInv
<1>4. Top.start \in -MaxLag .. Unset
  BY <1>2 DEF FrameSet
<1> QED
  BY <1>1, <1>2, <1>3, <1>4, Times DEF CallTrue, Unset

\* bk_run_event_cron enqueues the next call, a period after this one.
LEMMA CronAgainSafe ==
  ASSUME IInv, NEW c \in Cron, CronAgain(c)
  PROVE  IInv'
<1> DEFINE f == [Top EXCEPT !.at = "user"]
           l == Len(stack)
<1>1. /\ Running("cron") /\ Top.job = c
      /\ last' = [last EXCEPT ![c] = Top.start]
      /\ stack' = Append(Below, f)
      /\ UNCHANGED <<handle, indestroy, wild, left>>
  BY DEF CronAgain
<1>2. PICK m \in Fresh : Insert(m, Top.start + Period, c) /\ equeue' = [equeue EXCEPT ![c] = m]
  BY DEF CronAgain
<1>3. /\ handle[c] /\ \A n \in Node : node[n].state = "queued" => node[n].job # c
      /\ Top.start \in -MaxLag .. 0
  BY <1>1, CronRunning
<1>4. c \in Job /\ c \notin Plain
  BY JobAssumption DEF Job
<1>5. /\ m \in Node /\ node[m].state = "free"
      /\ \A e \in Plain : handle[e] # m
      /\ \A i \in DOMAIN stack : stack[i].node # m
  BY <1>2, FreshEntry
<1>6. Top.start \in Int /\ Top.start + Period \in Int
      /\ Top.start + Period >= -MaxLag /\ Top.start \in LongAgo .. 0
  BY <1>3, Times
<1>7. /\ node' \in [Node -> EntrySet]
      /\ node'[m].state = "queued" /\ node'[m].job = c /\ node'[m].when = Top.start + Period
      /\ \A n \in Node \ {m} : node'[n] = node[n]
  BY <1>2, <1>4, <1>5, <1>6, Inserting
<1>8. stack # <<>> /\ Top.at = "cron"
  BY <1>1 DEF Running
<1>9. stack \in Seq(FrameSet) /\ l \in DOMAIN stack /\ l \in Nat /\ l > 0 /\ Top = stack[l]
      /\ Top \in FrameSet
  BY <1>8, TopFrame
<1>10. f \in FrameSet /\ f.at = "user"
  BY <1>9 DEF FrameSet
<1>11. /\ Below \in Seq(FrameSet) /\ Len(Below) = l - 1
       /\ \A i \in 1 .. Len(Below) : Below[i] = stack[i]
  BY <1>8, <1>9, Removing
<1>12. /\ stack' \in Seq(FrameSet) /\ Len(stack') = l /\ stack'[l] = f
       /\ \A i \in 1 .. l - 1 : stack'[i] = stack[i]
  <2> HIDE DEF f, Below
  <2> QED BY <1>1, <1>9, <1>10, <1>11
<1>13. equeue \in [Cron -> Node \cup {None}] /\ last \in [Cron -> LongAgo .. 0]
  BY DEF IInv, TypeInv
<1>14. /\ equeue'[c] = m /\ last'[c] = Top.start
       /\ \A d \in Cron \ {c} : equeue'[d] = equeue[d] /\ last'[d] = last[d]
  BY <1>1, <1>2, <1>13
<1>15. \A i \in 1 .. l - 1 : stack[i].at # "cron"
  BY <1>9 DEF IInv, CallTrue
<1> HIDE DEF f, l
<1>16. TypeInv'
  <2>1. equeue' \in [Cron -> Node \cup {None}]
    BY <1>2, <1>5, <1>13
  <2>2. last' \in [Cron -> LongAgo .. 0]
    BY <1>1, <1>6, <1>13
  <2> QED
    BY <1>1, <1>7, <1>12, <2>1, <2>2 DEF IInv, TypeInv
<1>17. ASSUME NEW n \in Node PROVE EntryTrue(n)'
  <2>1. CASE n = m
    BY <2>1, <1>1, <1>3, <1>6, <1>7, <1>14 DEF EntryTrue
  <2>2. CASE n # m
    <3>1. node'[n] = node[n] /\ EntryTrue(n) /\ (node[n].state = "queued" => node[n].job # c)
      BY <2>2, <1>3, <1>7 DEF IInv
    <3> QED
      BY <3>1, <1>1, <1>14 DEF EntryTrue
  <2> QED
    BY <2>1, <2>2
<1>18. ASSUME NEW e \in Plain PROVE HandleTrue(e)'
  <2>1. HandleTrue(e) /\ handle[e] \in Node \cup {None}
    BY DEF IInv, TypeInv
  <2> QED
    BY <2>1, <1>1, <1>5, <1>7 DEF HandleTrue
<1>19. ASSUME NEW d \in Cron PROVE CronTrue(d)'
  <2>1. CASE d = c
    BY <2>1, <1>5, <1>7, <1>14 DEF CronTrue
  <2>2. CASE d # c
    <3>1. CronTrue(d) /\ equeue'[d] = equeue[d] /\ Top.job # d
      BY <2>2, <1>1, <1>14 DEF IInv
    <3> QED
      BY <3>1, <1>1, <1>5, <1>7 DEF CronTrue
  <2> QED
    BY <2>1, <2>2
<1>20. ASSUME NEW i \in DOMAIN stack' PROVE ReleaseTrue(i)' /\ CallTrue(i)'
  <2>1. ASSUME NEW j \in DOMAIN stack'
        PROVE  /\ stack'[j].at # "cron"
               /\ stack'[j].at = "release" => j \in DOMAIN stack /\ stack'[j] = stack[j]
    <3>1. CASE j = l
      BY <3>1, <1>10, <1>12
    <3>2. CASE j # l
      BY <3>2, <1>9, <1>12, <1>15
    <3> QED
      BY <3>1, <3>2
  <2>2. ASSUME stack'[i].at = "release"
        PROVE  /\ stack'[i].node \in Node /\ node'[stack'[i].node].state = "out"
               /\ ReleaseTrue(i)
    <3>1. ReleaseTrue(i) /\ stack'[i] = stack[i]
      BY <2>1, <2>2 DEF IInv
    <3>2. stack[i].node \in Node /\ node[stack[i].node].state = "out"
      BY <3>1, <2>2 DEF ReleaseTrue
    <3> QED
      BY <3>1, <3>2, <1>5, <1>7
  <2>3. ReleaseTrue(i)'
    BY <2>1, <2>2 DEF ReleaseTrue
  <2> QED
    BY <2>1, <2>3 DEF CallTrue
<1> QED
  BY <1>1, <1>16, <1>17, <1>18, <1>19, <1>20 DEF IInv

\* Times move together; a call long ago stays long ago.
LEMMA TickSafe == IInv /\ Tick => IInv'
<1> SUFFICES ASSUME IInv, Tick PROVE IInv'
  OBVIOUS
<1>1. /\ stack # <<>>
      /\ \A m \in Queued : node[m].when > -MaxLag
      /\ \A i \in DOMAIN stack : stack[i].start > -MaxLag
      /\ node' = [m \in Node |-> IF m \in Queued THEN [node[m] EXCEPT !.when = @ - 1] ELSE node[m]]
      /\ stack' = [i \in DOMAIN stack |-> [stack[i] EXCEPT !.start = IF @ = Unset THEN @ ELSE @ - 1]]
      /\ last' = [c \in Cron |-> IF last[c] > LongAgo THEN last[c] - 1 ELSE last[c]]
      /\ UNCHANGED <<handle, equeue, indestroy, wild, left>>
  BY DEF Tick
<1>2. /\ stack \in Seq(FrameSet) /\ node \in [Node -> EntrySet] /\ last \in [Cron -> LongAgo .. 0]
  BY DEF IInv, TypeInv
<1>3. ASSUME NEW m \in Node
      PROVE  /\ node'[m] \in EntrySet
             /\ node'[m].state = node[m].state /\ node'[m].job = node[m].job
             /\ node[m].state = "queued" => /\ node'[m].when = node[m].when - 1
                                            /\ node'[m].when >= -MaxLag
  <2>1. node[m] \in EntrySet /\ node[m].when \in Int
    BY <1>2 DEF EntrySet
  <2>2. CASE m \in Queued
    <3>1. node'[m] = [node[m] EXCEPT !.when = node[m].when - 1]
      BY <1>1, <2>2
    <3>2. node'[m].when = node[m].when - 1 /\ node[m].when > -MaxLag
      BY <3>1, <2>1, <2>2, <1>1 DEF EntrySet
    <3>3. /\ node'[m] \in EntrySet
          /\ node'[m].state = node[m].state /\ node'[m].job = node[m].job
      BY <3>1, <2>1 DEF EntrySet
    <3> QED
      BY <3>2, <3>3, <2>1, Times
  <2>3. CASE m \notin Queued
    BY <1>1, <2>1, <2>3 DEF Queued
  <2> QED
    BY <2>2, <2>3
<1>4. ASSUME NEW i \in DOMAIN stack
      PROVE  /\ stack'[i] \in FrameSet
             /\ stack'[i].at = stack[i].at /\ stack'[i].job = stack[i].job
             /\ stack'[i].node = stack[i].node
             /\ stack[i].start <= 0 => stack'[i].start = stack[i].start - 1
  <2>1. stack[i] \in FrameSet /\ stack[i].start \in -MaxLag .. Unset /\ stack[i].start > -MaxLag
    <3>1. stack[i] \in FrameSet
      BY <1>2
    <3>2. stack[i].start > -MaxLag
      BY <1>1
    <3> QED
      BY <3>1, <3>2 DEF FrameSet
  <2>2. stack'[i] = [stack[i] EXCEPT !.start = IF stack[i].start = Unset THEN stack[i].start
                                               ELSE stack[i].start - 1]
    BY <1>1
  <2>3. CASE stack[i].start = Unset
    <3>1. stack'[i] = stack[i]
      BY <2>1, <2>2, <2>3 DEF FrameSet
    <3> QED
      BY <3>1, <2>1, <2>3 DEF Unset
  <2>4. CASE stack[i].start # Unset
    <3>1. stack'[i] = [stack[i] EXCEPT !.start = stack[i].start - 1]
      BY <2>2, <2>4
    <3>2. stack[i].start - 1 \in -MaxLag .. Unset
      BY <2>1, Times DEF Unset
    <3> QED
      BY <3>1, <3>2, <2>1 DEF FrameSet
  <2> QED
    BY <2>3, <2>4
<1>5. ASSUME NEW c \in Cron
      PROVE  last'[c] \in LongAgo .. 0 /\ (last'[c] = last[c] - 1 \/ last'[c] = LongAgo)
  BY <1>1, <1>2, Times
<1>6. DOMAIN stack' = DOMAIN stack /\ stack' \in Seq(FrameSet) /\ Len(stack') = Len(stack)
  <2>1. DOMAIN stack = 1 .. Len(stack) /\ Len(stack) \in Nat
    BY <1>2
  <2>2. DOMAIN stack' = DOMAIN stack
    BY <1>1
  <2>3. stack' \in [1 .. Len(stack) -> FrameSet]
    <3>1. stack' = [i \in 1 .. Len(stack) |-> stack'[i]]
      BY <1>1, <2>1
    <3> QED
      BY <3>1, <2>1, <1>4
  <2> QED
    BY <2>1, <2>2, <2>3
<1>7. TypeInv'
  <2>1. node' \in [Node -> EntrySet]
    BY <1>1, <1>3
  <2>2. last' \in [Cron -> LongAgo .. 0]
    BY <1>1, <1>5
  <2> QED
    BY <1>1, <1>6, <2>1, <2>2 DEF IInv, TypeInv
<1>8. ASSUME NEW n \in Node PROVE EntryTrue(n)'
  <2>1. EntryTrue(n) /\ node[n].when \in Int
    BY <1>2 DEF IInv, EntrySet
  <2>2. CASE node[n].job \in Cron
    <3>1. last[node[n].job] \in Int /\ last'[node[n].job] \in Int
      BY <2>2, <1>2, <1>5, Times
    <3>2. node[n].state = "queued" /\ node[n].when >= last[node[n].job] + Period
            => node'[n].when >= last'[node[n].job] + Period
      BY <3>1, <2>1, <2>2, <1>3, <1>5, Times
    <3> QED
      BY <3>2, <2>1, <2>2, <1>1, <1>3 DEF EntryTrue
  <2>3. CASE node[n].job \notin Cron
    BY <2>1, <2>3, <1>1, <1>3 DEF EntryTrue
  <2> QED
    BY <2>2, <2>3
<1>9. ASSUME NEW e \in Plain PROVE HandleTrue(e)'
  <2>1. HandleTrue(e) /\ handle[e] \in Node \cup {None}
    BY DEF IInv, TypeInv
  <2> QED
    BY <2>1, <1>1, <1>3 DEF HandleTrue
<1>10. ASSUME NEW c \in Cron PROVE CronTrue(c)'
  <2>1. CronTrue(c)
    BY DEF IInv
  <2>2. Running("cron") /\ Top.job = c => Running("cron")' /\ Top'.job = c
    <3>1. Len(stack) \in DOMAIN stack /\ stack' # <<>>
      BY <1>1, <1>2, <1>6
    <3> QED
      BY <3>1, <1>4, <1>6 DEF Running, Top
  <2> QED
    BY <2>1, <2>2, <1>1, <1>3 DEF CronTrue
<1>11. ASSUME NEW i \in DOMAIN stack' PROVE ReleaseTrue(i)' /\ CallTrue(i)'
  <2>1. ReleaseTrue(i) /\ CallTrue(i) /\ i \in DOMAIN stack
    BY <1>6 DEF IInv
  <2>2. ReleaseTrue(i)'
    BY <2>1, <1>3, <1>4, <1>6 DEF ReleaseTrue
  <2>3. CASE stack[i].at = "cron"
    <3> DEFINE c == stack[i].job
    <3>1. /\ i = Len(stack) /\ c \in Cron /\ handle[c]
          /\ \A m \in Node : node[m].state = "queued" => node[m].job # c
          /\ stack[i].start <= 0 /\ stack[i].start >= last[c] + Period
      BY <2>1, <2>3 DEF CallTrue
    <3>2. stack[i].start \in -MaxLag .. Unset /\ stack[i].start > -MaxLag
      <4>1. stack[i] \in FrameSet
        BY <2>1, <1>2
      <4>2. stack[i].start > -MaxLag
        BY <2>1, <1>1
      <4> QED
        BY <4>1, <4>2 DEF FrameSet
    <3>3. stack'[i].start = stack[i].start - 1 /\ stack'[i].job = c
      BY <2>1, <3>1, <1>4
    <3>4. last[c] \in Int /\ last'[c] \in Int
      BY <3>1, <1>2, <1>5, Times
    <3>5. stack'[i].start <= 0 /\ stack'[i].start >= last'[c] + Period
      <4>1. stack[i].start \in Int /\ -MaxLag <= stack[i].start - 1
        BY <3>2, Times
      <4>2. last'[c] = last[c] - 1 \/ last'[c] = LongAgo
        BY <3>1, <1>5
      <4>3. stack'[i].start <= 0
        BY <3>1, <3>3, <4>1
      <4>4. CASE last'[c] = last[c] - 1
        <5> HIDE DEF c
        <5> QED BY SMTT(40), <3>1, <3>3, <3>4, <4>1, <4>3, <4>4, Times
      <4>5. CASE last'[c] = LongAgo
        <5> HIDE DEF c
        <5> QED BY <3>3, <3>4, <4>1, <4>3, <4>5, Times
      <4> QED
        BY <4>2, <4>4, <4>5
    <3> QED
      <4>1. /\ i = Len(stack') /\ handle'[c]
            /\ \A m \in Node : node'[m].state = "queued" => node'[m].job # c
        BY <3>1, <1>1, <1>3, <1>6
      <4> HIDE DEF c
      <4> QED
        BY <2>2, <3>1, <3>3, <3>5, <4>1 DEF CallTrue
  <2>4. CASE stack[i].at # "cron"
    <3>1. stack'[i].at # "cron"
      BY <2>1, <2>4, <1>4
    <3> QED
      BY <2>2, <3>1 DEF CallTrue
  <2> QED
    BY <2>2, <2>3, <2>4
<1> QED
  BY <1>1, <1>7, <1>8, <1>9, <1>10, <1>11 DEF IInv

\* Every step keeps the invariant.
LEMMA NextSafe == IInv /\ [Next]_vars => IInv'
<1> SUFFICES ASSUME IInv, [Next]_vars PROVE IInv'
  OBVIOUS
<1>1. CASE Calls
  BY <1>1, EnqueueSafe, EnqueueCronSafe, DequeueSafe, DequeueCronSafe, RunOnceSafe, DestroySafe
     DEF Calls
<1>2. CASE Loop
  BY <1>2, FunctionReturnsSafe, TurnSafe, EndCheckSafe, FreeTopSafe, EndDestroySafe, RunDueSafe,
     TellSafe, CronAgainSafe DEF Loop
<1>3. CASE Tick
  BY <1>3, TickSafe
<1>4. CASE UNCHANGED vars
  BY <1>4 DEF vars, memory, IInv, TypeInv, EntryTrue, HandleTrue, CronTrue, ReleaseTrue, CallTrue,
     Running, Top
<1> QED
  BY <1>1, <1>2, <1>3, <1>4 DEF Next

-----------------------------------------------------------------------------
(* The invariant, and what it gives.                                       *)

\* The invariant always holds.
THEOREM Inductive == Spec => []IInv
<1>1. Init => IInv
  BY Initially
<1>2. IInv /\ [Next]_vars => IInv'
  BY NextSafe
<1> QED
  BY <1>1, <1>2, PTL DEF Spec

\* Every variable keeps its type; the times stay in their ranges.
THEOREM TypeCorrect == Spec => []TypeOK
<1>1. IInv => TypeOK
  <2> SUFFICES ASSUME IInv PROVE TypeOK
    OBVIOUS
  <2>1. TypeInv /\ wild \in BOOLEAN
    BY DEF IInv
  <2>2. ASSUME NEW i \in DOMAIN stack
        PROVE  /\ stack[i].at \in {"main", "check", "user", "cron", "release", "destroy"}
               /\ stack[i].job \in Job \cup {None} /\ stack[i].node \in Node \cup {None}
               /\ stack[i].start \in -MaxLag .. Unset
    <3>1. stack[i] \in FrameSet
      BY <2>1 DEF TypeInv
    <3> QED
      BY <3>1 DEF FrameSet
  <2>3. ASSUME NEW m \in Node
        PROVE  /\ node[m].state \in {"free", "queued", "out"}
               /\ node[m].when \in Int /\ node[m].job \in Job \cup {None}
    <3>1. node[m] \in EntrySet
      BY <2>1 DEF TypeInv
    <3> QED
      BY <3>1 DEF EntrySet
  <2> QED
    BY <2>1, <2>2, <2>3 DEF TypeOK, TypeInv
<1> QED
  BY <1>1, Inductive, PTL

\* No entry is freed twice or used when it was freed, whatever functions enqueue,
\* dequeue and run in whichever activation.
THEOREM NothingWild == Spec => []NoWildPointer
<1>1. IInv => NoWildPointer
  BY DEF IInv, NoWildPointer
<1> QED
  BY <1>1, Inductive, PTL

\* Handles are true: what is queued is what the program, or the cron job, has.
THEOREM HandlesHold == Spec => []HandlesTrue
<1>1. IInv => HandlesTrue
  <2> SUFFICES ASSUME IInv PROVE HandlesTrue
    OBVIOUS
  <2>1. ASSUME NEW m \in Queued
        PROVE  IF node[m].job \in Plain THEN handle[node[m].job] = m ELSE equeue[node[m].job] = m
    <3>1. m \in Node /\ node[m].state = "queued" /\ EntryTrue(m)
      BY DEF Queued, IInv
    <3> QED
      BY <3>1, JobAssumption DEF EntryTrue
  <2>2. ASSUME NEW e \in Plain, handle[e] # None PROVE handle[e] \in Queued
    BY <2>2, Handled DEF Queued
  <2>3. ASSUME NEW c \in Cron, handle[c]
        PROVE  \/ equeue[c] \in Queued
               \/ \E i \in DOMAIN stack : stack[i].at = "cron" /\ stack[i].job = c
    <3>1. CronTrue(c)
      BY DEF IInv
    <3>2. CASE Running("cron") /\ Top.job = c
      BY <3>2, TopFrame DEF Running
    <3> QED
      BY <2>3, <3>1, <3>2 DEF CronTrue, Queued
  <2> QED
    BY <2>1, <2>2, <2>3 DEF HandlesTrue
<1> QED
  BY <1>1, Inductive, PTL

\* A cron job's calls are its period apart, as bk_run_event_cron takes it.
CronPeriodic == [][\A c \in Cron : CronAgain(c) => Top.start - last[c] >= Period]_vars

\* A cron job's calls are its period apart, for every interval.
THEOREM CronKeepsPeriod == Spec => CronPeriodic
<1>1. IInv => [\A c \in Cron : CronAgain(c) => Top.start - last[c] >= Period]_vars
  <2> SUFFICES ASSUME IInv, NEW c \in Cron, CronAgain(c)
               PROVE  Top.start - last[c] >= Period
    OBVIOUS
  <2>1. Running("cron") /\ Top.job = c
    BY DEF CronAgain
  <2>2. last[c] \in Int
    BY Times DEF IInv, TypeInv
  <2> QED
    BY <2>1, <2>2, CronRunning, Times
<1> QED
  BY <1>1, Inductive, PTL DEF CronPeriodic

\* A cron job's calls are at least the whole seconds of its interval apart, for
\* every interval.
THEOREM CronKeepsSeconds == Spec => CronSpacing
<1>1. IInv => [\A c \in Cron : CronAgain(c) => Top.start - last[c] >= Us(Seconds(Interval))]_vars
  <2> SUFFICES ASSUME IInv, NEW c \in Cron, CronAgain(c)
               PROVE  Top.start - last[c] >= Us(Seconds(Interval))
    OBVIOUS
  <2>1. Running("cron") /\ Top.job = c
    BY DEF CronAgain
  <2>2. last[c] \in Int
    BY Times DEF IInv, TypeInv
  <2> QED
    BY <2>1, <2>2, CronRunning, Times, PeriodBound
<1> QED
  BY <1>1, Inductive, PTL DEF CronSpacing
=============================================================================
