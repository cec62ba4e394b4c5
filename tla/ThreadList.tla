----------------------------- MODULE ThreadList -----------------------------
(***************************************************************************)
(* lib/b_thread.c: the list of threads.  bk_thread_create puts a thread on *)
(* it, the cleanup handler of a thread that ends takes it off, and         *)
(* bk_thread_kill_others cancels all but its caller and waits until they   *)
(* are gone.  The first call also lists the main thread, which has no      *)
(* cleanup handler.                                                        *)
(***************************************************************************)
EXTENDS Naturals, FiniteSets

CONSTANTS
  Main, Kids,
  Killers,         \* who calls bk_thread_kill_others
  Hasty            \* whether a thread may end, or create another, before
                   \* bk_thread_create has returned to its creator

Thread == {Main} \cup Kids
Nobody == "nobody"

VARIABLES
  where,           \* what each thread does
  creating,        \* the thread each is creating
  listed,          \* threads with a node in btl_list
  marked,          \* nodes with BK_THREADNODE_FLAG_CANCELED
  cancelled,       \* threads pthread_cancel was called for
  btlLock,         \* who holds btl_lock
  wildThread       \* a thread that is gone was cancelled, or an environment in
                   \* use was destroyed

tvars == <<where, creating, listed, marked, cancelled, btlLock, wildThread>>

Init ==
  /\ where = [t \in Thread |-> IF t = Main THEN "running" ELSE "none"]
  /\ creating = [t \in Thread |-> Nobody]
  /\ listed = {} /\ marked = {} /\ cancelled = {}
  /\ btlLock = Nobody /\ wildThread = FALSE

At(t, w) == where[t] = w
Goes(t, w) == where' = [where EXCEPT ![t] = w]
Alive(t) == where[t] \notin {"none", "gone"}

\* bk_threadlist_lock and bk_threadlist_unlock
CanLock == btlLock = Nobody

\* pthread_testcancel, once the lock is held
Tests(t) == t \in cancelled
-----------------------------------------------------------------------------
(* bk_thread_create *)

\* bk_threadnode_create and bk_threadnode_destroy
NodeCreated(p, k) == creating' = [creating EXCEPT ![p] = k]
NodeDestroyed(p) == creating' = [creating EXCEPT ![p] = Nobody]

Create(p, k) ==
  /\ At(p, "running") /\ CanLock
  /\ At(k, "none") /\ \A t \in Thread : creating[t] # k
  /\ Hasty \/ p = Main \/ Main \in listed
  /\ IF Tests(p)
     THEN Goes(p, "dying") /\ UNCHANGED <<creating, btlLock>>
     ELSE /\ Goes(p, "creating") /\ btlLock' = p
          /\ NodeCreated(p, k)
  /\ UNCHANGED <<listed, marked, cancelled, wildThread>>

\* bk_general_thread_init or pthread_create fails: the node, and the environment
\* with it, are destroyed without having been listed.
CreateFails(p) ==
  /\ At(p, "creating")
  /\ Goes(p, "running") /\ btlLock' = Nobody
  /\ NodeDestroyed(p)
  /\ UNCHANGED <<listed, marked, cancelled, wildThread>>

Spawn(p) ==
  /\ At(p, "creating")
  /\ where' = [where EXCEPT ![p] = "inserting", ![creating[p]] = "running"]
  /\ UNCHANGED <<creating, listed, marked, cancelled, btlLock, wildThread>>

Insert(p) ==
  /\ At(p, "inserting")
  /\ listed' = listed \cup {creating[p]} /\ btlLock' = Nobody
  /\ Goes(p, "counting")
  /\ UNCHANGED <<creating, marked, cancelled, wildThread>>

\* With one thread on the list, which is read without the lock, this is taken for
\* the first call, and its caller for the main thread.
Count(p) ==
  /\ At(p, "counting")
  /\ Goes(p, IF Cardinality(listed) = 1 THEN "listing" ELSE "running")
  /\ creating' = [creating EXCEPT ![p] = Nobody]
  /\ UNCHANGED <<listed, marked, cancelled, btlLock, wildThread>>

\* A node is known by its environment, so a thread that is listed cannot be again,
\* and the error path destroys that environment.
ListMain(p) ==
  /\ At(p, "listing") /\ CanLock
  /\ IF Tests(p)
     THEN Goes(p, "dying") /\ UNCHANGED <<listed, wildThread>>
     ELSE /\ Goes(p, "running")
          /\ listed' = listed \cup {p} /\ wildThread' = (wildThread \/ p \in listed)
  /\ UNCHANGED <<creating, marked, cancelled, btlLock>>
-----------------------------------------------------------------------------
(* bk_thread_continue, bk_thread_cleanup and bk_thread_tnode_done *)

BeingCreated(t) == \E p \in Thread : creating[p] = t

\* The thread's function returns, and it marks its own node.
Returns(t) ==
  /\ t \in Kids /\ At(t, "running") /\ (Hasty \/ ~BeingCreated(t))
  /\ marked' = marked \cup ({t} \cap listed)
  /\ Goes(t, "dying")
  /\ UNCHANGED <<creating, listed, cancelled, btlLock, wildThread>>

\* A cancelled thread meets a cancellation point.
Dies(t) ==
  /\ At(t, "running") /\ t \in cancelled /\ (Hasty \/ ~BeingCreated(t))
  /\ Goes(t, "dying")
  /\ UNCHANGED <<creating, listed, marked, cancelled, btlLock, wildThread>>

\* The list is searched without the lock; a thread that is not on it yet leaves
\* without taking itself off, and the main thread does in any case.
Cleanup(t) ==
  /\ At(t, "dying")
  /\ Goes(t, IF t \in listed \cap Kids THEN "leaving" ELSE "gone")
  /\ UNCHANGED <<creating, listed, marked, cancelled, btlLock, wildThread>>

\* One who waits is told, and nothing happens if nobody does.
Signalled(t) == IF \E w \in Thread : At(w, "waiting") THEN {w \in Thread : At(w, "waiting")} ELSE {t}

TnodeDone(t) ==
  /\ At(t, "leaving") /\ CanLock
  /\ listed' = listed \ {t} /\ marked' = marked \ {t}
  /\ \E w \in Signalled(t) : where' = [where EXCEPT ![w] = "checking", ![t] = "gone"]
  /\ UNCHANGED <<creating, cancelled, btlLock, wildThread>>
-----------------------------------------------------------------------------
(* bk_thread_kill_others *)

\* The mutant goes on when all that is left is cancelled.
AllMarked(t) == listed \subseteq marked \cup {t}
OnlyOne(t) == listed \subseteq {t}

\* The nodes that are not marked yet; the mutant cancels those that end, too.
AllOthers(t) == listed \ {t}
Victims(t) == listed \ (marked \cup {t})

\* The lock is kept from there to the waiting.
KillOthers(t) ==
  /\ t \in Killers /\ At(t, "running") /\ CanLock
  /\ IF Tests(t)
     THEN Goes(t, "dying") /\ UNCHANGED <<marked, cancelled, wildThread>>
     ELSE /\ cancelled' = cancelled \cup Victims(t)
          /\ marked' = marked \cup Victims(t)
          /\ wildThread' = (wildThread \/ \E v \in Victims(t) : ~Alive(v) \/ At(v, "dying"))
          /\ Goes(t, IF OnlyOne(t) THEN "alone" ELSE "waiting")
  /\ UNCHANGED <<creating, listed, btlLock>>

\* Woken, it has the lock and looks whether it is the only one; if so it goes on
\* to end the process.  pthread_cond_wait is a cancellation point, at which the
\* lock is taken again, and the handler that would release it is not there now.
Check(t) ==
  /\ CanLock /\ (At(t, "checking") \/ (At(t, "waiting") /\ t \in cancelled))
  /\ btlLock' = IF At(t, "waiting") THEN t ELSE Nobody
  /\ Goes(t, IF At(t, "waiting") THEN "dying" ELSE IF OnlyOne(t) THEN "alone" ELSE "waiting")
  /\ UNCHANGED <<creating, listed, marked, cancelled, wildThread>>
-----------------------------------------------------------------------------
Proceeds(t) ==
  \/ Spawn(t) \/ Insert(t) \/ Count(t) \/ ListMain(t)
  \/ Dies(t) \/ Cleanup(t) \/ TnodeDone(t) \/ Check(t)

Next ==
  \E t \in Thread :
    \/ Proceeds(t) \/ Returns(t) \/ KillOthers(t) \/ CreateFails(t)
    \/ \E k \in Kids : Create(t, k)

Fairness == \A t \in Thread : WF_tvars(Proceeds(t))
Spec == Init /\ [][Next]_tvars /\ Fairness
-----------------------------------------------------------------------------
\* pthread_cancel names only threads that have not ended, which is what nodes are
\* marked for, and no thread loses its environment while it runs.
NoWildThread == ~wildThread

\* When bk_thread_kill_others returns in the main thread no other thread runs, nor
\* comes into being later, whoever kills as well and however early threads end: "No
\* new threads should be created, since bk_thread_create has a cancellation point".
AloneWhenKilled == At(Main, "alone") => \A k \in Kids : ~Alive(k)

\* And in any thread: one that is created and kills before the main thread is
\* listed leaves the main thread, which goes on to create others.
AloneWhoever ==
  \A t \in Thread : At(t, "alone") => \A k \in Thread \ {t} : ~Alive(k)

\* It does return: the others "take themselves off the thread list".  The main
\* thread, which has no cleanup handler, does not.
KillReturns == \A t \in Killers : At(t, "checking") ~> (At(t, "alone") \/ At(t, "gone"))

\* It returns in the main thread if not in one that is alone before.
KillEnds == At(Main, "checking") ~> (At(Main, "gone") \/ \E t \in Thread : At(t, "alone"))
=============================================================================
