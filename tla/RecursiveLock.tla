--------------------------- MODULE RecursiveLock ---------------------------
(***************************************************************************)
(* lib/b_thread.c: bk_recursive_lock_grab and _release.  Every thread      *)
(* counts in a place of its own (thread-specific data, made on the first   *)
(* grab and destroyed with the last release) how often it has the lock,    *)
(* and only the first grab and the last release touch the mutex.           *)
(***************************************************************************)
EXTENDS Integers, FiniteSets

CONSTANTS Grabbers, MaxDepth  \* threads; how deep they nest, a bound of the model

VARIABLES
  counter,         \* thread -> its counter, or NoCounter
  mutex,           \* the threads that have brl_lock
  inside,          \* history: thread -> grabs that returned 0 and are not released
  locking          \* where each thread is

lvars == <<counter, mutex, inside, locking>>
NoCounter == -1

Init ==
  /\ counter = [t \in Grabbers |-> NoCounter]
  /\ mutex = {}
  /\ inside = [t \in Grabbers |-> 0]
  /\ locking = [t \in Grabbers |-> "out"]

Is(t, where) == locking[t] = where
To(t, where) == locking' = [locking EXCEPT ![t] = where]

\* ctrp_create, which may fail before or after it has its memory
Grab(t) ==
  /\ Is(t, "out") /\ inside[t] < MaxDepth
  /\ \/ /\ counter' = [counter EXCEPT ![t] = IF @ = NoCounter THEN 0 ELSE @]
        /\ To(t, IF counter'[t] = 0 THEN "lock" ELSE "count")
     \/ counter[t] = NoCounter /\ UNCHANGED <<counter, locking>>
  /\ UNCHANGED <<mutex, inside>>

GrabLocks(t) ==
  /\ Is(t, "lock") /\ mutex = {}
  /\ mutex' = {t} /\ To(t, "count")
  /\ UNCHANGED <<counter, inside>>

GrabCounts(t) ==
  /\ Is(t, "count")
  /\ counter' = [counter EXCEPT ![t] = @ + 1]
  /\ inside' = [inside EXCEPT ![t] = @ + 1]
  /\ To(t, "out")
  /\ UNCHANGED mutex

\* The mutant unlocks with every release.
EveryOne(count) == TRUE
LastOne(count) == count = 0

\* A thread without a counter is told that it does not have the lock.
Release(t) ==
  /\ Is(t, "out")
  /\ IF counter[t] <= 0 THEN UNCHANGED <<counter, locking, inside>>
     ELSE LET left == counter[t] - 1 IN
          /\ counter' = [counter EXCEPT ![t] = IF LastOne(left) THEN NoCounter ELSE left]
          /\ inside' = [inside EXCEPT ![t] = @ - 1]
          /\ To(t, IF LastOne(left) THEN "unlock" ELSE "out")
  /\ UNCHANGED mutex

ReleaseUnlocks(t) ==
  /\ Is(t, "unlock")
  /\ mutex' = mutex \ {t} /\ To(t, "out")
  /\ UNCHANGED <<counter, inside>>

Next == \E t \in Grabbers :
  Grab(t) \/ GrabLocks(t) \/ GrabCounts(t) \/ Release(t) \/ ReleaseUnlocks(t)

Fairness == \A t \in Grabbers : SF_lvars(GrabLocks(t)) /\ WF_lvars(GrabCounts(t) \/ ReleaseUnlocks(t))
Spec == Init /\ [][Next]_lvars /\ Fairness
-----------------------------------------------------------------------------
\* Between a grab that returned and the release that balances it no other thread
\* is, however they nest, and the mutex is the thread's as long as it is inside.
Exclusive ==
  /\ Cardinality({t \in Grabbers : inside[t] > 0}) <= 1
  /\ \A t \in Grabbers : inside[t] > 0 => mutex = {t}
=============================================================================
