----------------------------- MODULE RunThreads -----------------------------
(***************************************************************************)
(* lib/b_run.c with BK_USING_PTHREADS: several threads share one bk_run.   *)
(* Runners call bk_run_run, users change what it serves.  br_lock is held  *)
(* only for a moment, so an object whose function is running is guarded by *)
(* a soft lock (brof_userid, brf_userid) with a condition for those who    *)
(* would remove it, and a runner in select(2) is woken by a byte on a      *)
(* socket of its own.                                                      *)
(***************************************************************************)
EXTENDS Integers, FiniteSets

CONSTANTS
  Runners, Users,  \* threads
  Funcs, Fds,      \* on-demand functions, descriptors with handlers
  Calls,           \* which calls users make
  Budget           \* how many they make; bounds the model

Threads == Runners \cup Users
Obj == Funcs \cup Fds
NoOne == "no one"

VARIABLES
  at,              \* where each thread is
  present,         \* objects in br_ondemand_funcs and br_fdassoc
  userid,          \* their soft locks
  raised,          \* functions with *brof_demand set, descriptors with input
  wanted,          \* br_readset
  holder,          \* who keeps br_lock between looking at userid and waiting
  selectcount,     \* br_selectcount
  wakes,           \* bytes on br_runfd, up to one for each runner
  event,           \* whether an event is on br_equeue, and due
  runOver,         \* BK_RUN_FLAG_RUN_OVER
  abortOnce,       \* BK_RUN_FLAG_ABORT_RUN_ONCE
  calls,           \* calls left
  stolen           \* history: descriptors of which a runner gave back the soft
                   \* lock of another

rtvars == <<at, present, userid, raised, wanted, holder, selectcount, wakes,
            event, runOver, abortOnce, calls, stolen>>
objects == <<present, userid, raised, wanted>>
waking == <<selectcount, wakes>>
queues == <<event, runOver>>

Home(t) == [pc |-> IF t \in Runners THEN "run" ELSE "user",
            obj |-> NoOne, old |-> FALSE, todo |-> {}, copy |-> {}, block |-> TRUE]

Init ==
  /\ at = [t \in Threads |-> Home(t)]
  /\ present = Obj /\ userid = [o \in Obj |-> NoOne]
  /\ raised = {} /\ wanted = {} /\ holder = NoOne
  /\ selectcount = 0 /\ wakes = 0
  /\ event = FALSE /\ runOver = FALSE /\ abortOnce = FALSE
  /\ calls = Budget /\ stolen = {}

Pc(t, pc) == at[t].pc = pc
Set(t, frame) == at' = [at EXCEPT ![t] = frame]
Go(t, pc) == Set(t, [at[t] EXCEPT !.pc = pc])
Free == holder = NoOne

\* bk_run_select_changed; the mutant of bk_run_setpref forgets it.
Woken == IF selectcount > 0 /\ wakes < Cardinality(Runners) THEN wakes + 1 ELSE wakes
NotWoken == wakes
WokenBySetpref == Woken

\* Nobody else is in the object's function: the mutant does not look.
Regardless(o, t) == TRUE
Unused(o, t) == userid[o] \in {NoOne, t}
-----------------------------------------------------------------------------
(* bk_run_run and bk_run_once *)

Begin(r) ==
  /\ Pc(r, "run")
  /\ IF runOver THEN Go(r, "over") /\ UNCHANGED abortOnce
     ELSE /\ abortOnce' = FALSE
          /\ Set(r, [Home(r) EXCEPT !.pc = "demand", !.todo = Funcs])
  /\ UNCHANGED <<objects, holder, waking, queues, calls, stolen>>

\* The soft lock is taken under br_lock; the mutant takes one that is taken.
Taken(o) == FALSE
InUse(o) == userid[o] # NoOne

Serve(r, o, pc) ==
  /\ Pc(r, pc) /\ Free /\ o \in at[r].todo \cap present
  /\ IF InUse(o)
     THEN Set(r, [at[r] EXCEPT !.todo = @ \ {o}]) /\ UNCHANGED userid
     ELSE /\ userid' = [userid EXCEPT ![o] = r]
          /\ Set(r, [at[r] EXCEPT !.todo = @ \ {o}, !.pc = "in", !.obj = o, !.old = FALSE])
  /\ UNCHANGED <<present, raised, wanted, holder, waking, queues, abortOnce, calls, stolen>>

Demand(r, f) == f \in Funcs \cap raised /\ Serve(r, f, "demand")

\* The function does what it is there for: the demand or the input is gone.
ServeEnds(r) ==
  /\ Pc(r, "in")
  /\ raised' = IF at[r].old THEN raised ELSE raised \ {at[r].obj}
  /\ Go(r, "served")
  /\ UNCHANGED <<present, userid, wanted, holder, waking, queues, abortOnce, calls, stolen>>

\* The threads that wait for the condition of o, as it is registered now
Waiters(o) == {t \in Threads : Pc(t, "waiting") /\ at[t].obj = o /\ ~at[t].old}

\* brof_destroy wakes them all, brf_destroy none.
Destroyed(o, threads) ==
  [t \in Threads |-> IF o \in Funcs /\ t \in Waiters(o) THEN [threads[t] EXCEPT !.pc = "again"] ELSE threads[t]]

\* It removes itself, bk_run_on_demand_remove or bk_run_close from inside.
ServeRemoves(r) ==
  /\ Pc(r, "in") /\ Free /\ at[r].obj \in present /\ ~at[r].old /\ calls > 0
  /\ at[r].obj \in Funcs \/ "selfclose" \in Calls
  /\ present' = present \ {at[r].obj}
  /\ calls' = calls - 1
  /\ at' = Destroyed(at[r].obj, IF at[r].obj \in Fds THEN [at EXCEPT ![r].pc = "closing"] ELSE at)
  /\ UNCHANGED <<userid, raised, wanted, holder, waking, queues, abortOnce, stolen>>

\* What is registered is looked for again, unlocked and one waiter woken: with
\* br_lock for a descriptor, without it for a function.  The number may have been
\* registered anew, and another thread be in that handler: its lock goes then.
Served(r) ==
  LET o == at[r].obj
      back == [at[r] EXCEPT !.pc = IF o \in Funcs THEN "demand" ELSE "fds", !.obj = NoOne, !.old = FALSE]
  IN
  /\ Pc(r, "served") /\ (o \in Fds => Free)
  /\ userid' = IF o \in present THEN [userid EXCEPT ![o] = NoOne] ELSE userid
  /\ stolen' = IF o \in present /\ ~Unused(o, r) THEN stolen \cup {o} ELSE stolen
  /\ IF o \in present /\ Waiters(o) # {}
     THEN \E t \in Waiters(o) : at' = [at EXCEPT ![r] = back, ![t].pc = "again"]
     ELSE Set(r, back)
  /\ UNCHANGED <<present, raised, wanted, holder, waking, queues, abortOnce, calls>>

\* No function is left to call.  bk_run_checkeventq runs the event that is due;
\* otherwise the timeout is infinite.
Events(r) ==
  /\ Pc(r, "demand") /\ Free
  /\ at[r].todo \cap present \cap raised = {}
  /\ event' = FALSE
  /\ IF abortOnce THEN Go(r, "end") ELSE Set(r, [at[r] EXCEPT !.pc = "prepare", !.block = ~event])
  /\ UNCHANGED <<objects, holder, waking, runOver, abortOnce, calls, stolen>>

\* br_selectcount counts from the copying of the sets on.
EnterSelect(r) ==
  /\ Pc(r, "prepare") /\ Free
  /\ IF abortOnce THEN Go(r, "end") /\ UNCHANGED selectcount
     ELSE /\ selectcount' = selectcount + 1
          /\ Set(r, [at[r] EXCEPT !.pc = "select", !.copy = wanted])
  /\ UNCHANGED <<objects, holder, wakes, queues, abortOnce, calls, stolen>>

\* select returns for input or the byte, or at once if it was not to block.
LeaveSelect(r) ==
  /\ Pc(r, "select") /\ Free
  /\ \/ wakes > 0 \/ ~at[r].block \/ at[r].copy \cap raised # {}
  /\ selectcount' = selectcount - 1
  /\ IF abortOnce THEN Go(r, "end")
     ELSE Set(r, [at[r] EXCEPT !.pc = IF wakes > 0 THEN "discard" ELSE "fds",
                               !.todo = at[r].copy \cap raised])
  /\ UNCHANGED <<objects, holder, wakes, queues, abortOnce, calls, stolen>>

\* bk_run_handler_discard leaves the byte for the others that are in select: the
\* mutant takes it whoever is.
LastOut == TRUE
NoneSelects == selectcount = 0

Discard(r) ==
  /\ Pc(r, "discard") /\ Free
  /\ wakes' = IF NoneSelects THEN 0 ELSE wakes
  /\ Go(r, "fds")
  /\ UNCHANGED <<objects, holder, selectcount, queues, abortOnce, calls, stolen>>

\* A descriptor that is not wanted any more is passed over.
Activity(r, d) == d \in Fds \cap wanted /\ ~abortOnce /\ Serve(r, d, "fds")

EndFds(r) ==
  /\ Pc(r, "fds") /\ Free
  /\ abortOnce \/ at[r].todo \cap present \cap wanted = {}
  /\ Go(r, "end")
  /\ UNCHANGED <<objects, holder, waking, queues, abortOnce, calls, stolen>>

\* Every bk_run_once ends so, and makes the other runners end theirs.
EndOnce(r) ==
  /\ Pc(r, "end") /\ Free
  /\ abortOnce' = TRUE
  /\ Go(r, "run")
  /\ UNCHANGED <<objects, holder, waking, queues, calls, stolen>>
-----------------------------------------------------------------------------
(* The users *)

May(u, call) == Pc(u, "user") /\ Free /\ calls > 0 /\ call \in Calls /\ calls' = calls - 1

\* bk_run_setpref to want reading, or no longer
Setpref(u, d) ==
  /\ May(u, "setpref") /\ d \in Fds \cap present
  /\ \/ d \notin wanted /\ wanted' = wanted \cup {d} /\ wakes' = WokenBySetpref
     \/ d \in wanted /\ wanted' = wanted \ {d} /\ UNCHANGED wakes
  /\ UNCHANGED <<at, present, userid, raised, holder, selectcount, queues, abortOnce, stolen>>

Enqueue(u) ==
  /\ May(u, "enqueue") /\ ~event
  /\ event' = TRUE /\ wakes' = Woken
  /\ UNCHANGED <<at, objects, holder, selectcount, runOver, abortOnce, stolen>>

SetRunOver(u) ==
  /\ May(u, "over") /\ ~runOver
  /\ runOver' = TRUE /\ wakes' = Woken
  /\ UNCHANGED <<at, objects, holder, selectcount, event, abortOnce, stolen>>

\* bk_run_handle, from a handler or outside: what the number was registered for
\* before is not what it is registered for now.
Register(t, d) ==
  /\ Pc(t, "user") \/ Pc(t, "in")
  /\ Free /\ calls > 0 /\ "register" \in Calls /\ calls' = calls - 1
  /\ d \in Fds \ present /\ present' = present \cup {d}
  /\ userid' = [userid EXCEPT ![d] = NoOne]
  /\ stolen' = stolen \ {d} /\ raised' = raised \ {d}
  /\ at' = [q \in Threads |-> [at[q] EXCEPT !.old = @ \/ at[q].obj = d]]
  /\ UNCHANGED <<wanted, holder, waking, queues, abortOnce>>

\* The demand is raised, or input arrives.
Raise(o) ==
  /\ calls > 0 /\ calls' = calls - 1
  /\ o \notin raised /\ raised' = raised \cup {o}
  /\ UNCHANGED <<at, present, userid, wanted, holder, waking, queues, abortOnce, stolen>>

Remove(u, o) ==
  /\ \/ May(u, "remove") /\ o \in present
     \/ Pc(u, "again") /\ at[u].obj = o /\ Free /\ UNCHANGED calls
  /\ IF o \in present /\ ~Unused(o, u)
     THEN /\ holder' = u /\ Set(u, [at[u] EXCEPT !.pc = "busy", !.obj = o, !.old = FALSE])
          /\ UNCHANGED present
     ELSE /\ present' = present \ {o}
          /\ at' = Destroyed(o, [at EXCEPT ![u] = IF o \in Fds \cap present
                                                 THEN [Home(u) EXCEPT !.pc = "closing", !.obj = o]
                                                 ELSE Home(u)])
          /\ UNCHANGED holder
  /\ UNCHANGED <<userid, raised, wanted, waking, queues, abortOnce, stolen>>

Waits(u) ==
  /\ Pc(u, "busy")
  /\ holder' = NoOne
  /\ Go(u, "waiting")
  /\ UNCHANGED <<objects, waking, queues, abortOnce, calls, stolen>>

\* bk_run_close tells the handler, of which it alone has the bk_run_fdassoc now,
\* and then takes the number out of the sets, whoever has registered it since.
CloseTold(t) ==
  /\ Pc(t, "closing") /\ Free
  /\ wanted' = wanted \ {at[t].obj}
  /\ IF t \in Runners THEN Go(t, "in") ELSE Set(t, Home(t))
  /\ UNCHANGED <<present, userid, raised, holder, waking, queues, abortOnce, calls, stolen>>
-----------------------------------------------------------------------------
Runs(r) ==
  \/ Begin(r) \/ ServeEnds(r) \/ CloseTold(r) \/ Served(r) \/ Events(r)
  \/ EnterSelect(r) \/ LeaveSelect(r) \/ Discard(r) \/ EndFds(r) \/ EndOnce(r)
  \/ \E f \in Funcs : Demand(r, f)
  \/ \E d \in Fds : Activity(r, d)

Proceeds(u) == Waits(u) \/ CloseTold(u) \/ \E o \in Obj : Pc(u, "again") /\ Remove(u, o)

Next ==
  \/ \E r \in Runners : Runs(r) \/ ServeRemoves(r)
  \/ \E u \in Users : \/ Waits(u) \/ CloseTold(u) \/ Enqueue(u) \/ SetRunOver(u)
                      \/ \E o \in Obj : Remove(u, o)
                      \/ \E d \in Fds : Setpref(u, d)
  \/ \E t \in Threads, d \in Fds : Register(t, d)
  \/ \E o \in Obj : Raise(o)

Fairness == /\ \A r \in Runners : WF_rtvars(Runs(r))
            /\ \A u \in Users : WF_rtvars(Proceeds(u))

Spec == Init /\ [][Next]_rtvars /\ Fairness
-----------------------------------------------------------------------------
In(t, o) == at[t].obj = o /\ ~at[t].old /\ at[t].pc \in {"in", "closing"}

\* Two threads are never in the function of one object at the same time, the
\* handler that bk_run_close calls included, unless a runner that came back from
\* what the number was before has released the lock of what it is now.
OneAtATime ==
  \A o \in Obj : Cardinality({t \in Threads : In(t, o)}) <= 1 \/ o \in stolen

\* A runner gives back no soft lock but its own.
NoneStolen == stolen = {}

\* A thread that removes an object with bk_run_close or bk_run_on_demand_remove
\* finds no other in its function, so what the function uses can be freed.
RemovedAlone ==
  \A u \in Users, o \in Obj :
    Remove(u, o) /\ o \in (present \ present') \ stolen => ~\E r \in Runners : In(r, o)
GoneWhenRemoved == [][RemovedAlone]_rtvars

\* A runner that sleeps though a descriptor it knows nothing of was asked for
\* has a byte waiting for it, whoever else has woken since.
StaleIsWoken ==
  \A r \in Runners : Pc(r, "select") /\ ~(wanted \subseteq at[r].copy) => wakes > 0

\* A descriptor that has input and is wanted is served, closed, or unwanted, or
\* the run is over.
WantServed ==
  \A d \in Fds : d \in wanted \cap raised ~> (d \notin wanted \cap raised \/ runOver)

\* bk_run_close comes back, once the handler it waits for does.
CloseReturns == \A u \in Users, d \in Fds : at[u].obj = d ~> at[u].obj = NoOne

\* bk_run_set_run_over ends bk_run_run, bk_run_select_changed being there to
\* "Verify that select will not block after some changes we just made".
OverEnds == \A r \in Runners : runOver ~> Pc(r, "over")

\* bk_run_on_demand_remove comes back as well.
RemoveReturns == \A u \in Users, f \in Funcs : at[u].obj = f ~> at[u].obj = NoOne
=============================================================================
