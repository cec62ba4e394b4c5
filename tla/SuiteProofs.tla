---------------------------- MODULE SuiteProofs -----------------------------
(***************************************************************************)
(* Proofs about six parts of the suites of processes and of data that      *)
(* threads, callbacks and processes share: the recursive lock, the list of *)
(* threads, threads that share a bk_run, the cancelling of descriptors,    *)
(* polling I/O, and the memory that is mapped.  They hold for any number   *)
(* of threads, objects, descriptors, processes and calls.                  *)
(***************************************************************************)
EXTENDS Integers, Sequences, FiniteSets, FiniteSetTheorems, WellFoundedInduction, TLAPS

CONSTANTS
  Grabbers, MaxDepth,                           \* of RecursiveLock
  Main, Kids, Killers, Hasty,                   \* of ThreadList
  Runners, Users, Funcs, Fds, Calls, Budget,    \* of RunThreads
  CancelFds, Administrators, Again,             \* of RunCancel
  Threaded, Sync, Linger, Input, ReadMax,       \* of PollIo
  WriteMax, Writes, DiesInUse, OwnThread,
  Clients, Slots, Gens, Attaches                \* of ShmMap

VARIABLES
  counter, mutex, inside, locking,
  where, creating, listed, marked, cancelled, btlLock, wildThread,
  at, present, userid, raised, wanted, holder, selectcount, wakes, event, runOver,
  abortOnce, calls, stolen,
  bfcs, runFlags, admin, other, registered, wildBfc, isCancelled, crossed,
  bpi, pid, src, prog, user, got, wildBpi,
  names, segs, cmds, creator, clients

K == INSTANCE RecursiveLock
L == INSTANCE ThreadList
R == INSTANCE RunThreads
B == INSTANCE RunCancel
P == INSTANCE PollIo
M == INSTANCE ShmMap
-----------------------------------------------------------------------------
(* The recursive lock                                                      *)

\* How a thread's counter, its grabs and its place go together, and that it has the mutex
\* from the first grab to the last release.
LockOf(t) ==
  \/ locking[t] = "out" /\ counter[t] = K!NoCounter /\ inside[t] = 0
  \/ locking[t] = "lock" /\ counter[t] = 0 /\ inside[t] = 0
  \/ locking[t] = "out" /\ counter[t] = inside[t] /\ inside[t] \in Nat \ {0} /\ mutex = {t}
  \/ locking[t] = "count" /\ counter[t] = inside[t] /\ inside[t] \in Nat /\ mutex = {t}
  \/ locking[t] = "unlock" /\ counter[t] = K!NoCounter /\ inside[t] = 0 /\ mutex = {t}

LockInv ==
  /\ counter \in [Grabbers -> Int] /\ inside \in [Grabbers -> Nat]
  /\ locking \in [Grabbers -> {"out", "lock", "count", "unlock"}]
  /\ \A t \in Grabbers : LockOf(t)

\* Every step keeps it: only who finds the mutex free has it, and others wait.
LEMMA LockStep == LockInv /\ [K!Next]_(K!lvars) => LockInv'
<1> SUFFICES ASSUME LockInv, [K!Next]_(K!lvars) PROVE LockInv'
  OBVIOUS
<1> USE DEF LockInv, LockOf, K!NoCounter, K!Is, K!To
<1>1. ASSUME NEW t \in Grabbers, K!Grab(t) PROVE LockInv'
  BY <1>1 DEF K!Grab
<1>2. ASSUME NEW t \in Grabbers, K!GrabLocks(t) PROVE LockInv'
  BY <1>2 DEF K!GrabLocks
<1>3. ASSUME NEW t \in Grabbers, K!GrabCounts(t) PROVE LockInv'
  BY <1>3 DEF K!GrabCounts
<1>4. ASSUME NEW t \in Grabbers, K!Release(t) PROVE LockInv'
  BY <1>4 DEF K!Release, K!LastOne
<1>5. ASSUME NEW t \in Grabbers, K!ReleaseUnlocks(t) PROVE LockInv'
  BY <1>5 DEF K!ReleaseUnlocks
<1>6. CASE UNCHANGED K!lvars
  BY <1>6 DEF K!lvars
<1> QED BY <1>1, <1>2, <1>3, <1>4, <1>5, <1>6 DEF K!Next

\* The instance counts as this module does.
LEMMA LockCounts == \A S : K!Cardinality(S) = Cardinality(S)
BY DEF Cardinality, K!Cardinality

\* A recursive lock has one holder, to any depth, for any number of threads.
THEOREM ExclusiveHolds == K!Spec => []K!Exclusive
<1>1. K!Init => LockInv
  BY DEF K!Init, K!NoCounter, LockInv, LockOf
<1>2. LockInv => K!Exclusive
  <2> SUFFICES ASSUME LockInv PROVE K!Exclusive
    OBVIOUS
  <2>1. \A t \in Grabbers : inside[t] > 0 => mutex = {t}
    BY DEF LockInv, LockOf
  <2> DEFINE S == {t \in Grabbers : inside[t] > 0}
  <2>2. S = {} \/ \E t \in Grabbers : S = {t}
    BY <2>1
  <2> HIDE DEF S
  <2>3. Cardinality(S) <= 1
    <3>1. Cardinality({}) = 0
      BY FS_EmptySet
    <3>2. \A t \in Grabbers : Cardinality({t}) = 1
      BY FS_Singleton
    <3> QED BY <2>2, <3>1, <3>2
  <2>4. Cardinality({t \in Grabbers : inside[t] > 0}) <= 1
    BY <2>3 DEF S
  <2> QED BY <2>1, <2>4, LockCounts DEF K!Exclusive
<1> QED BY <1>1, <1>2, LockStep, PTL DEF K!Spec

-----------------------------------------------------------------------------
(* The list of threads                                                     *)

\* The first thread is no other's child.
ListAssumption == Main \notin Kids /\ L!Nobody \notin L!Thread

\* And no thread ends or makes others before who made it has heard of it.
HeardOf == ListAssumption /\ ~Hasty

Places == {"none", "running", "creating", "inserting", "counting", "listing", "dying", "leaving",
           "gone", "checking", "waiting", "alone"}
ListTypes ==
  /\ where \in [L!Thread -> Places] /\ creating \in [L!Thread -> Kids \cup {L!Nobody}]
  /\ listed \subseteq L!Thread /\ marked \subseteq L!Thread /\ cancelled \subseteq L!Thread
  /\ IsFiniteSet(listed)

\* The creator of a thread has the lock until the thread is listed, and the first
\* thread's is neither cancelled nor over until the list is counted.
Creates(p) == where[p] \in {"creating", "inserting", "counting"}
CreatorOf(p) ==
  /\ creating[p] # L!Nobody <=> Creates(p)
  /\ where[p] \in {"creating", "inserting"} => btlLock = p /\ creating[p] \notin cancelled
  /\ where[p] = "creating" => where[creating[p]] = "none"
  /\ where[p] = "inserting" => where[creating[p]] = "running" /\ creating[p] \notin listed
  /\ p \in Kids /\ Creates(p) => Main \in listed
  /\ p = Main /\ where[p] = "counting" /\ creating[p] \notin cancelled =>
       /\ creating[p] \in listed
       /\ where[creating[p]] \notin {"dying", "leaving"}

\* A thread is listed as long as it lives, and marked once it is cancelled or ends.
BeingInserted(k) == \E p \in L!Thread : where[p] = "inserting" /\ creating[p] = k
KidOf(k) ==
  /\ where[k] # "listing"
  /\ k \in listed <=> L!Alive(k) /\ ~BeingInserted(k)
  /\ where[k] = "none" => k \notin cancelled
  /\ where[k] \in {"dying", "leaving"} => k \in marked
  /\ k \in cancelled \cap listed => k \in marked

MainIs ==
  /\ where[Main] \notin {"none", "leaving"}
  /\ where[Main] = "listing" => Main \notin listed
  /\ where[Main] \in {"dying", "gone"} => Main \in cancelled
  /\ Main \in cancelled => Main \in listed /\ Main \in marked

\* Where threads are cancelled, one who killed them is left.
KillerIs ==
  cancelled = {} \/ \E t \in L!Thread \ cancelled : where[t] \in {"checking", "waiting", "alone"}

OneCreator ==
  \A p, q \in L!Thread : creating[p] = creating[q] /\ creating[p] # L!Nobody => p = q

ListInv ==
  /\ ListTypes /\ ~wildThread /\ MainIs /\ OneCreator /\ KillerIs
  /\ \A p \in L!Thread : CreatorOf(p)
  /\ \A k \in Kids : KidOf(k)

\* The list is counted as this module counts.
LEMMA ListCounts == \A S : L!Cardinality(S) = Cardinality(S)
BY DEF Cardinality, L!Cardinality

\* Who has the lock keeps others from it.
LEMMA LockFree ==
  ASSUME HeardOf, ListInv, L!CanLock
  PROVE  /\ \A p \in L!Thread : where[p] \notin {"creating", "inserting"}
         /\ \A k \in Kids : ~BeingInserted(k)
<1>1. \A p \in L!Thread : where[p] \notin {"creating", "inserting"}
  BY DEF L!CanLock, ListInv, CreatorOf, HeardOf, ListAssumption
<1> QED BY <1>1 DEF BeingInserted

\* bk_thread_create: cancelled, the caller ends with its node marked; or it takes the lock.
LEMMA CreateStep ==
  ASSUME HeardOf, ListInv, NEW p \in L!Thread, NEW k \in Kids, L!Create(p, k)
  PROVE  ListInv'
<1> USE DEF HeardOf, ListAssumption, L!Thread
<1>1. /\ where[p] = "running" /\ where[k] = "none" /\ \A t \in L!Thread : creating[t] # k
      /\ (p = Main \/ Main \in listed)
      /\ UNCHANGED <<listed, marked, cancelled, wildThread>>
  BY DEF L!Create, L!At
<1>2. /\ \A q \in L!Thread : where[q] \notin {"creating", "inserting"}
      /\ \A q \in Kids : ~BeingInserted(q)
  BY LockFree DEF L!Create
<1>3. CASE /\ p \in cancelled /\ where' = [where EXCEPT ![p] = "dying"]
           /\ UNCHANGED <<creating, btlLock>>
  <2>1. ListTypes'
    BY <1>1, <1>3 DEF ListInv, ListTypes, Places
  <2>2. p \in listed /\ p \in marked
    BY <1>1, <1>2, <1>3 DEF ListInv, ListTypes, KidOf, MainIs, L!Alive
  <2>3. \A q \in L!Thread : CreatorOf(q)'
    BY <1>1, <1>2, <1>3, <2>2 DEF ListInv, ListTypes, CreatorOf, Creates
  <2>4. \A q \in Kids : ~BeingInserted(q)'
    BY <1>2, <1>3 DEF ListInv, ListTypes, BeingInserted
  <2>5. \A q \in Kids : KidOf(q)'
    BY <1>1, <1>2, <1>3, <2>2, <2>4 DEF ListInv, ListTypes, KidOf, L!Alive
  <2>6. MainIs' /\ OneCreator' /\ KillerIs'
    BY <1>1, <1>3, <2>2 DEF ListInv, ListTypes, MainIs, OneCreator, KillerIs, L!Alive
  <2> QED BY <1>1, <2>1, <2>3, <2>5, <2>6 DEF ListInv
<1>4. CASE /\ where' = [where EXCEPT ![p] = "creating"] /\ btlLock' = p
           /\ creating' = [creating EXCEPT ![p] = k]
  <2>1. ListTypes'
    BY <1>1, <1>4 DEF ListInv, ListTypes, Places
  <2>2. k # p /\ k \notin cancelled
    BY <1>1 DEF ListInv, KidOf
  <2>3. \A q \in L!Thread : CreatorOf(q)'
    BY <1>1, <1>2, <1>4, <2>2 DEF ListInv, ListTypes, CreatorOf, Creates
  <2>4. \A q \in Kids : ~BeingInserted(q)'
    BY <1>2, <1>4 DEF ListInv, ListTypes, BeingInserted
  <2>5. \A q \in Kids : KidOf(q)'
    BY <1>1, <1>2, <1>4, <2>4 DEF ListInv, ListTypes, KidOf, L!Alive
  <2>6. MainIs' /\ OneCreator' /\ KillerIs'
    BY <1>1, <1>4 DEF ListInv, ListTypes, MainIs, OneCreator, KillerIs, L!Alive
  <2> QED BY <1>1, <2>1, <2>3, <2>5, <2>6 DEF ListInv
<1> QED BY <1>3, <1>4 DEF L!Create, L!Tests, L!Goes, L!NodeCreated

\* Nothing comes of it, and nothing was listed.
LEMMA CreateFailsStep ==
  ASSUME HeardOf, ListInv, NEW p \in L!Thread, L!CreateFails(p) PROVE ListInv'
<1> USE DEF HeardOf, ListAssumption, L!Thread
<1>1. /\ where[p] = "creating" /\ where' = [where EXCEPT ![p] = "running"]
      /\ creating' = [creating EXCEPT ![p] = L!Nobody]
      /\ UNCHANGED <<listed, marked, cancelled, wildThread>>
  BY DEF L!CreateFails, L!At, L!Goes, L!NodeDestroyed
<1>2. \A q \in L!Thread \ {p} : where[q] \notin {"creating", "inserting"}
  BY <1>1 DEF ListInv, CreatorOf
<1>3. ListTypes'
  BY <1>1 DEF ListInv, ListTypes, Places
<1>4. \A q \in L!Thread : CreatorOf(q)'
  BY <1>1, <1>2 DEF ListInv, ListTypes, CreatorOf, Creates
<1>5. \A q \in Kids : ~BeingInserted(q)' /\ ~BeingInserted(q)
  BY <1>1, <1>2 DEF ListInv, ListTypes, BeingInserted
<1>6. \A q \in Kids : KidOf(q)'
  BY <1>1, <1>5 DEF ListInv, ListTypes, KidOf, L!Alive
<1>7. MainIs' /\ OneCreator' /\ KillerIs'
  BY <1>1 DEF ListInv, ListTypes, MainIs, OneCreator, KillerIs, L!Alive
<1> QED BY <1>1, <1>3, <1>4, <1>6, <1>7 DEF ListInv

\* The thread is there, and its creator has the lock until it is listed.
LEMMA SpawnStep ==
  ASSUME HeardOf, ListInv, NEW p \in L!Thread, L!Spawn(p) PROVE ListInv'
<1> USE DEF HeardOf, ListAssumption, L!Thread
<1> DEFINE k == creating[p]
<1>1. /\ where[p] = "creating"
      /\ where' = [where EXCEPT ![p] = "inserting", ![k] = "running"]
      /\ UNCHANGED <<creating, listed, marked, cancelled, btlLock, wildThread>>
  BY DEF L!Spawn, L!At
<1>2. /\ k \in Kids /\ where[k] = "none" /\ k # p /\ k \notin cancelled /\ k \notin listed
  BY <1>1 DEF ListInv, ListTypes, CreatorOf, Creates, KidOf, L!Alive
<1>3. \A q \in L!Thread \ {p} : where[q] \notin {"creating", "inserting"} /\ creating[q] # k
  BY <1>1, <1>2 DEF ListInv, CreatorOf, OneCreator
<1> HIDE DEF k
<1>4. /\ where' \in [L!Thread -> Places] /\ where'[p] = "inserting" /\ where'[k] = "running"
      /\ \A q \in L!Thread \ {p, k} : where'[q] = where[q]
  BY <1>1, <1>2 DEF ListInv, ListTypes, Places
<1>5. ListTypes'
  BY <1>1, <1>4 DEF ListInv, ListTypes
<1>6. \A q \in L!Thread : CreatorOf(q)'
  <2>1. \A q \in L!Thread \ {p, k} : CreatorOf(q)'
    BY <1>1, <1>2, <1>3, <1>4 DEF ListInv, ListTypes, CreatorOf, Creates
  <2>2. CreatorOf(p)'
    BY <1>1, <1>2, <1>4 DEF ListInv, ListTypes, CreatorOf, Creates, k
  <2>3. ASSUME NEW q \in L!Thread, q = k PROVE CreatorOf(q)'
    <3>1. creating[q] = L!Nobody
      BY <1>2, <2>3 DEF ListInv, CreatorOf, Creates
    <3>2. where'[q] = "running" /\ creating' = creating /\ q # Main
      BY <1>1, <1>2, <1>4, <2>3
    <3> QED BY <3>1, <3>2 DEF CreatorOf, Creates, L!Nobody
  <2> QED BY <2>1, <2>2, <2>3
<1>7. \A q \in Kids : BeingInserted(q)' <=> q = k
  BY <1>1, <1>2, <1>3, <1>4 DEF BeingInserted, k
<1>8. \A q \in Kids : ~BeingInserted(q)
  BY <1>1, <1>3 DEF BeingInserted
<1>9. \A q \in Kids : KidOf(q)'
  BY <1>1, <1>2, <1>4, <1>7, <1>8 DEF ListInv, ListTypes, KidOf, L!Alive
<1>10. MainIs'
  <2>1. Main # k
    BY <1>2
  <2> QED BY <1>1, <1>4, <2>1 DEF ListInv, MainIs
<1>11. OneCreator' /\ KillerIs'
  BY <1>1, <1>2, <1>4 DEF ListInv, OneCreator, KillerIs
<1> QED BY <1>1, <1>5, <1>6, <1>9, <1>10, <1>11 DEF ListInv

\* The thread is listed, and its creator lets the lock go.
LEMMA InsertStep ==
  ASSUME HeardOf, ListInv, NEW p \in L!Thread, L!Insert(p) PROVE ListInv'
<1> USE DEF HeardOf, ListAssumption, L!Thread, L!Nobody
<1> DEFINE k == creating[p]
<1>1. /\ where[p] = "inserting" /\ where' = [where EXCEPT ![p] = "counting"]
      /\ listed' = listed \cup {k}
      /\ UNCHANGED <<creating, marked, cancelled, wildThread>>
  BY DEF L!Insert, L!At, L!Goes
<1>2. k \in Kids /\ where[k] = "running" /\ k # p /\ k \notin cancelled /\ k \notin listed
  BY <1>1 DEF ListInv, ListTypes, CreatorOf, Creates
<1>3. \A q \in L!Thread \ {p} : where[q] \notin {"creating", "inserting"} /\ creating[q] # k
  BY <1>1, <1>2 DEF ListInv, CreatorOf, OneCreator
<1>4. IsFiniteSet(listed \cup {k})
  BY FS_AddElement DEF ListInv, ListTypes
<1>5. \A q \in Kids : ~BeingInserted(q)' /\ (BeingInserted(q) <=> q = k)
  BY <1>1, <1>3 DEF ListInv, ListTypes, BeingInserted
<1> HIDE DEF k
<1>6. ListTypes'
  BY <1>1, <1>2, <1>4 DEF ListInv, ListTypes, Places
<1>7. \A q \in L!Thread \ {p} : CreatorOf(q)'
  BY <1>1, <1>2, <1>3 DEF ListInv, ListTypes, CreatorOf, Creates
<1>8. CreatorOf(p)'
  BY <1>1, <1>2 DEF ListInv, ListTypes, CreatorOf, Creates, k
<1>9. \A q \in Kids : KidOf(q)'
  BY <1>1, <1>2, <1>5 DEF ListInv, ListTypes, KidOf, L!Alive
<1>10. MainIs' /\ OneCreator' /\ KillerIs'
  BY <1>1, <1>2 DEF ListInv, ListTypes, MainIs, OneCreator, KillerIs, L!Alive
<1> QED BY <1>1, <1>6, <1>7, <1>8, <1>9, <1>10 DEF ListInv

\* Two threads on the list are not one.
LEMMA NotOne ==
  ASSUME NEW S, IsFiniteSet(S), NEW a \in S, NEW b \in S, a # b
  PROVE  L!Cardinality(S) # 1
<1>1. ASSUME Cardinality(S) = 1 PROVE FALSE
  <2>1. PICK c : S = {c}
    BY <1>1, FS_Singleton
  <2> QED BY <2>1
<1> QED BY <1>1, ListCounts

\* Only the first thread, before it is listed, finds one thread on the list.
LEMMA CountStep ==
  ASSUME HeardOf, ListInv, NEW p \in L!Thread, L!Count(p) PROVE ListInv'
<1> USE DEF HeardOf, ListAssumption, L!Thread, L!Nobody
<1>1. /\ where[p] = "counting" /\ creating' = [creating EXCEPT ![p] = L!Nobody]
      /\ UNCHANGED <<listed, marked, cancelled, btlLock, wildThread>>
  BY DEF L!Count, L!At
<1>2. PICK w \in {"listing", "running"} :
        where' = [where EXCEPT ![p] = w] /\ (w = "listing" => L!Cardinality(listed) = 1)
  BY DEF L!Count, L!Goes
<1>3. w = "listing" => p = Main /\ Main \notin listed
  <2> SUFFICES ASSUME w = "listing" PROVE p = Main /\ Main \notin listed
    OBVIOUS
  <2>1. IsFiniteSet(listed) /\ L!Cardinality(listed) = 1
    BY <1>2 DEF ListInv, ListTypes
  <2>2. ASSUME p \in Kids PROVE FALSE
    <3>1. Main \in listed
      BY <1>1, <2>2 DEF ListInv, CreatorOf, Creates
    <3>2. ~BeingInserted(p)
      BY <1>1 DEF ListInv, CreatorOf, BeingInserted
    <3>3. p \in listed
      BY <1>1, <2>2, <3>2 DEF ListInv, KidOf, L!Alive
    <3> QED BY <2>1, <2>2, <3>1, <3>3, NotOne
  <2>3. ASSUME p = Main, Main \in listed PROVE FALSE
    <3>1. CASE creating[p] \notin cancelled
      <4>1. creating[p] \in listed /\ creating[p] \in Kids
        BY <1>1, <2>3, <3>1 DEF ListInv, ListTypes, CreatorOf, Creates
      <4> QED BY <2>1, <2>3, <4>1, NotOne
    <3>2. CASE creating[p] \in cancelled
      <4>1. PICK t \in Kids : where[t] \in {"checking", "waiting", "alone"}
        BY <1>1, <2>3, <3>2 DEF ListInv, KillerIs
      <4>2. ~BeingInserted(t)
        BY <4>1 DEF ListInv, CreatorOf, BeingInserted
      <4>3. t \in listed
        BY <4>1, <4>2 DEF ListInv, KidOf, L!Alive
      <4> QED BY <2>1, <2>3, <4>1, <4>3, NotOne
    <3> QED BY <3>1, <3>2
  <2> QED BY <2>2, <2>3
<1>4. ListTypes'
  BY <1>1, <1>2 DEF ListInv, ListTypes, Places
<1>5. \A q \in L!Thread : CreatorOf(q)'
  BY <1>1, <1>2 DEF ListInv, ListTypes, CreatorOf, Creates
<1>6. \A q \in Kids : BeingInserted(q)' <=> BeingInserted(q)
  BY <1>1, <1>2 DEF ListInv, ListTypes, BeingInserted
<1>7. \A q \in Kids : KidOf(q)'
  BY <1>1, <1>2, <1>3, <1>6 DEF ListInv, ListTypes, KidOf, L!Alive
<1>8. MainIs' /\ OneCreator' /\ KillerIs'
  BY <1>1, <1>2, <1>3 DEF ListInv, ListTypes, MainIs, OneCreator, KillerIs, L!Alive
<1> QED BY <1>1, <1>4, <1>5, <1>7, <1>8 DEF ListInv

\* So the first thread is listed once.
LEMMA ListMainStep ==
  ASSUME HeardOf, ListInv, NEW p \in L!Thread, L!ListMain(p) PROVE ListInv'
<1> USE DEF HeardOf, ListAssumption, L!Thread, L!Nobody
<1>1. where[p] = "listing"
  BY DEF L!ListMain, L!At
<1>2. p = Main /\ Main \notin listed /\ p \notin cancelled
  BY <1>1 DEF ListInv, ListTypes, KidOf, MainIs
<1>3. /\ where' = [where EXCEPT ![p] = "running"] /\ listed' = listed \cup {Main}
      /\ UNCHANGED <<creating, marked, cancelled, btlLock>> /\ ~wildThread'
  BY <1>2 DEF L!ListMain, L!Tests, L!Goes, ListInv
<1>4. IsFiniteSet(listed \cup {Main})
  BY FS_AddElement DEF ListInv, ListTypes
<1>5. ListTypes'
  BY <1>3, <1>4 DEF ListInv, ListTypes, Places
<1>6. \A q \in L!Thread : CreatorOf(q)'
  BY <1>1, <1>2, <1>3 DEF ListInv, ListTypes, CreatorOf, Creates
<1>7. \A q \in Kids : BeingInserted(q)' <=> BeingInserted(q)
  BY <1>1, <1>3 DEF ListInv, ListTypes, BeingInserted
<1>8. \A q \in Kids : KidOf(q)'
  BY <1>2, <1>3, <1>7 DEF ListInv, ListTypes, KidOf, L!Alive
<1>9. MainIs' /\ OneCreator' /\ KillerIs'
  BY <1>1, <1>2, <1>3 DEF ListInv, ListTypes, MainIs, OneCreator, KillerIs, L!Alive
<1> QED BY <1>3, <1>5, <1>6, <1>8, <1>9 DEF ListInv

\* A thread ends, of itself or cancelled: it is marked by then.
LEMMA EndsStep ==
  ASSUME HeardOf, ListInv, NEW t \in L!Thread, L!Returns(t) \/ L!Dies(t) PROVE ListInv'
<1> USE DEF HeardOf, ListAssumption, L!Thread, L!Nobody
<1>1. /\ where[t] = "running" /\ where' = [where EXCEPT ![t] = "dying"]
      /\ UNCHANGED <<creating, listed, cancelled, btlLock, wildThread>>
      /\ marked \subseteq marked' /\ marked' \subseteq marked \cup {t}
      /\ \A p \in L!Thread : creating[p] # t
  BY DEF L!Returns, L!Dies, L!At, L!Goes, L!BeingCreated
<1>2. t = Main => t \in cancelled
  BY DEF L!Returns, L!Dies
<1>3. t \in listed
  BY <1>1, <1>2 DEF ListInv, KidOf, MainIs, L!Alive, BeingInserted
<1>4. t \in marked'
  BY <1>2, <1>3 DEF L!Returns, L!Dies, ListInv, KidOf, MainIs
<1>5. ListTypes'
  BY <1>1, <1>2 DEF ListInv, ListTypes, Places
<1>6. \A q \in L!Thread : CreatorOf(q)'
  BY <1>1, <1>2 DEF ListInv, ListTypes, CreatorOf, Creates
<1>7. \A q \in Kids : BeingInserted(q)' <=> BeingInserted(q)
  BY <1>1 DEF ListInv, ListTypes, BeingInserted
<1>8. \A q \in Kids : KidOf(q)'
  BY <1>1, <1>2, <1>4, <1>7 DEF ListInv, ListTypes, KidOf, L!Alive
<1>9. MainIs' /\ OneCreator' /\ KillerIs'
  BY <1>1, <1>2 DEF ListInv, ListTypes, MainIs, OneCreator, KillerIs, L!Alive
<1> QED BY <1>1, <1>5, <1>6, <1>8, <1>9 DEF ListInv

\* A thread that ends is on the list, and goes to take itself off.
LEMMA CleanupStep ==
  ASSUME HeardOf, ListInv, NEW t \in L!Thread, L!Cleanup(t) PROVE ListInv'
<1> USE DEF HeardOf, ListAssumption, L!Thread, L!Nobody
<1>1. /\ where[t] = "dying"
      /\ UNCHANGED <<creating, listed, marked, cancelled, btlLock, wildThread>>
  BY DEF L!Cleanup, L!At
<1>2. ~BeingInserted(t)
  BY <1>1 DEF ListInv, CreatorOf, BeingInserted
<1>3. PICK w \in {"leaving", "gone"} :
        where' = [where EXCEPT ![t] = w] /\ (w = "leaving" <=> t \in Kids)
  BY <1>1, <1>2 DEF L!Cleanup, L!Goes, ListInv, KidOf, L!Alive
<1>4. ListTypes'
  BY <1>1, <1>3 DEF ListInv, ListTypes, Places
<1>5. \A q \in L!Thread : CreatorOf(q)'
  BY <1>1, <1>3 DEF ListInv, ListTypes, CreatorOf, Creates
<1>6. \A q \in Kids : BeingInserted(q)' <=> BeingInserted(q)
  BY <1>1, <1>3 DEF ListInv, ListTypes, BeingInserted
<1>7. \A q \in Kids : KidOf(q)'
  BY <1>1, <1>3, <1>6 DEF ListInv, ListTypes, KidOf, L!Alive
<1>8. MainIs' /\ OneCreator' /\ KillerIs'
  BY <1>1, <1>3 DEF ListInv, ListTypes, MainIs, OneCreator, KillerIs, L!Alive
<1> QED BY <1>1, <1>4, <1>5, <1>7, <1>8 DEF ListInv

\* The thread takes itself off, and tells those who wait.
LEMMA TnodeDoneStep ==
  ASSUME HeardOf, ListInv, NEW t \in L!Thread, L!TnodeDone(t) PROVE ListInv'
<1> USE DEF HeardOf, ListAssumption, L!Thread, L!Nobody
<1>1. /\ where[t] = "leaving" /\ listed' = listed \ {t} /\ marked' = marked \ {t}
      /\ UNCHANGED <<creating, cancelled, btlLock, wildThread>>
  BY DEF L!TnodeDone, L!At
<1>2. /\ \A q \in L!Thread : where[q] \notin {"creating", "inserting"}
      /\ \A q \in Kids : ~BeingInserted(q)
  BY LockFree DEF L!TnodeDone
<1>3. t \in Kids
  BY <1>1 DEF ListInv, MainIs
<1>4. /\ where' \in [L!Thread -> Places] /\ where'[t] = "gone"
      /\ \A q \in L!Thread \ {t} :
           where'[q] = where[q] \/ (where[q] = "waiting" /\ where'[q] = "checking")
  <2>1. PICK w \in L!Signalled(t) : where' = [where EXCEPT ![w] = "checking", ![t] = "gone"]
    BY DEF L!TnodeDone
  <2>2. w \in L!Thread /\ (w = t \/ where[w] = "waiting")
    BY <2>1 DEF L!Signalled, L!At
  <2> QED BY <2>1, <2>2 DEF ListInv, ListTypes, Places
<1>5. IsFiniteSet(listed \ {t})
  BY FS_RemoveElement DEF ListInv, ListTypes
<1>6. ListTypes'
  BY <1>1, <1>4, <1>5 DEF ListInv, ListTypes
<1>7. \A q \in L!Thread : CreatorOf(q)'
  <2> SUFFICES ASSUME NEW q \in L!Thread PROVE CreatorOf(q)'
    OBVIOUS
  <2>1. CASE q = t
    BY <2>1, <1>1, <1>3, <1>4 DEF ListInv, CreatorOf, Creates
  <2>2. CASE q # t /\ ~Creates(q)
    BY <2>2, <1>1, <1>4 DEF ListInv, CreatorOf, Creates
  <2>3. CASE q # t /\ Creates(q)
    <3>1. where[q] = "counting" /\ where'[q] = "counting"
      BY <2>3, <1>2, <1>4 DEF Creates
    <3>2. q = Main /\ creating[q] \notin cancelled => creating[q] # t
      BY <3>1, <1>1 DEF ListInv, CreatorOf
    <3>3. q = Main /\ creating[q] \notin cancelled =>
            where'[creating[q]] \notin {"dying", "leaving"} /\ creating[q] \in Kids
      BY <3>1, <3>2, <1>4 DEF ListInv, CreatorOf, Creates, ListTypes
    <3> QED BY <3>1, <3>2, <3>3, <1>1, <1>3 DEF ListInv, CreatorOf, Creates
  <2> QED BY <2>1, <2>2, <2>3
<1>8. \A q \in Kids : ~BeingInserted(q)'
  BY <1>1, <1>2, <1>4 DEF BeingInserted
<1>9. \A q \in Kids : KidOf(q)'
  BY <1>1, <1>2, <1>4, <1>8 DEF ListInv, KidOf, L!Alive
<1>10. MainIs' /\ OneCreator' /\ KillerIs'
  BY <1>1, <1>3, <1>4 DEF ListInv, MainIs, OneCreator, KillerIs, L!Alive
<1> QED BY <1>1, <1>6, <1>7, <1>9, <1>10 DEF ListInv

\* Only threads that live and have not begun to end are cancelled.
LEMMA KillStep ==
  ASSUME HeardOf, ListInv, NEW t \in L!Thread, L!KillOthers(t) PROVE ListInv'
<1> USE DEF HeardOf, ListAssumption, L!Thread, L!Nobody
<1>1. /\ where[t] = "running" /\ UNCHANGED <<creating, listed, btlLock>>
  BY DEF L!KillOthers, L!At
<1>2. /\ \A q \in L!Thread : where[q] \notin {"creating", "inserting"}
      /\ \A q \in Kids : ~BeingInserted(q)
  BY LockFree DEF L!KillOthers
<1>3. CASE t \in cancelled
  <2>1. where' = [where EXCEPT ![t] = "dying"] /\ UNCHANGED <<marked, cancelled, wildThread>>
    BY <1>3 DEF L!KillOthers, L!Tests, L!Goes
  <2>2. t \in listed /\ t \in marked
    BY <1>1, <1>2, <1>3 DEF ListInv, ListTypes, KidOf, MainIs, L!Alive
  <2>3. ListTypes'
    BY <1>1, <2>1 DEF ListInv, ListTypes, Places
  <2>4. \A q \in L!Thread : CreatorOf(q)'
    BY <1>1, <1>2, <1>3, <2>1 DEF ListInv, ListTypes, CreatorOf, Creates
  <2>5. \A q \in Kids : ~BeingInserted(q)'
    BY <1>1, <1>2, <2>1 DEF ListInv, ListTypes, BeingInserted
  <2>6. \A q \in Kids : KidOf(q)'
    BY <1>1, <1>2, <2>1, <2>2, <2>5 DEF ListInv, ListTypes, KidOf, L!Alive
  <2>7. MainIs' /\ OneCreator' /\ KillerIs'
    BY <1>1, <1>3, <2>1, <2>2 DEF ListInv, ListTypes, MainIs, OneCreator, KillerIs
  <2> QED BY <2>1, <2>3, <2>4, <2>6, <2>7 DEF ListInv
<1>4. CASE t \notin cancelled
  <2> DEFINE V == L!Victims(t)
  <2>1. PICK w \in {"alone", "waiting"} : where' = [where EXCEPT ![t] = w]
    BY <1>4 DEF L!KillOthers, L!Tests, L!Goes
  <2>2. /\ cancelled' = cancelled \cup V /\ marked' = marked \cup V
        /\ wildThread' = (wildThread \/ \E v \in V : ~L!Alive(v) \/ L!At(v, "dying"))
    BY <1>4 DEF L!KillOthers, L!Tests
  <2>3. V \subseteq listed /\ V \cap marked = {} /\ t \notin V
    BY DEF L!Victims
  <2>4. \A v \in V : L!Alive(v) /\ where[v] \notin {"dying", "leaving"}
    <3>1. \A v \in V \cap Kids : L!Alive(v) /\ where[v] \notin {"dying", "leaving"}
      BY <2>3 DEF ListInv, KidOf
    <3>2. Main \in V => L!Alive(Main) /\ where[Main] \notin {"dying", "leaving"}
      BY <2>3 DEF ListInv, MainIs, L!Alive
    <3> QED BY <3>1, <3>2, <2>3 DEF ListInv, ListTypes
  <2> HIDE DEF V
  <2>5. ~wildThread'
    BY <2>2, <2>4 DEF ListInv, L!At
  <2>6. ListTypes'
    BY <1>1, <2>1, <2>2, <2>3 DEF ListInv, ListTypes, Places
  <2>7. \A q \in L!Thread : CreatorOf(q)'
    BY <1>1, <1>2, <2>1, <2>2 DEF ListInv, ListTypes, CreatorOf, Creates
  <2>8. \A q \in Kids : ~BeingInserted(q)'
    BY <1>1, <1>2, <2>1 DEF ListInv, ListTypes, BeingInserted
  <2>9. \A q \in Kids : KidOf(q)'
    BY <1>1, <1>2, <2>1, <2>2, <2>3, <2>4, <2>8 DEF ListInv, ListTypes, KidOf, L!Alive
  <2>10. MainIs' /\ OneCreator'
    BY <1>1, <1>4, <2>1, <2>2, <2>3 DEF ListInv, ListTypes, MainIs, OneCreator
  <2>11. KillerIs'
    BY <1>4, <2>1, <2>2, <2>3 DEF ListInv, ListTypes, KillerIs
  <2> QED BY <2>5, <2>6, <2>7, <2>9, <2>10, <2>11 DEF ListInv
<1> QED BY <1>3, <1>4

\* Who is woken looks at the list, waits on or, cancelled, begins to end.
LEMMA CheckStep ==
  ASSUME HeardOf, ListInv, NEW t \in L!Thread, L!Check(t) PROVE ListInv'
<1> USE DEF HeardOf, ListAssumption, L!Thread, L!Nobody
<1>1. /\ where[t] \in {"checking", "waiting"}
      /\ UNCHANGED <<creating, listed, marked, cancelled, wildThread>>
  BY DEF L!Check, L!At
<1>2. /\ \A q \in L!Thread : where[q] \notin {"creating", "inserting"}
      /\ \A q \in Kids : ~BeingInserted(q)
  BY LockFree DEF L!Check
<1>3. PICK w \in {"alone", "waiting", "dying"} :
        where' = [where EXCEPT ![t] = w] /\ (w = "dying" => t \in cancelled)
  BY DEF L!Check, L!Goes, L!At
<1>4. w = "dying" => t \in listed /\ t \in marked
  BY <1>1, <1>2, <1>3 DEF ListInv, KidOf, MainIs, L!Alive
<1>5. ListTypes'
  BY <1>1, <1>3 DEF ListInv, ListTypes, Places
<1>6. \A q \in L!Thread : CreatorOf(q)'
  BY <1>1, <1>2, <1>3 DEF ListInv, ListTypes, CreatorOf, Creates
<1>7. \A q \in Kids : ~BeingInserted(q)'
  BY <1>1, <1>2, <1>3 DEF ListInv, ListTypes, BeingInserted
<1>8. \A q \in Kids : KidOf(q)'
  BY <1>1, <1>2, <1>3, <1>4, <1>7 DEF ListInv, ListTypes, KidOf, L!Alive
<1>9. MainIs' /\ OneCreator' /\ KillerIs'
  BY <1>1, <1>3, <1>4 DEF ListInv, ListTypes, MainIs, OneCreator, KillerIs
<1> QED BY <1>1, <1>5, <1>6, <1>8, <1>9 DEF ListInv

\* Every step keeps the invariant.
LEMMA ListStep == HeardOf /\ ListInv /\ [L!Next]_(L!tvars) => ListInv'
<1> SUFFICES ASSUME HeardOf, ListInv, [L!Next]_(L!tvars) PROVE ListInv'
  OBVIOUS
<1>1. ASSUME NEW t \in L!Thread, L!Proceeds(t) PROVE ListInv'
  BY <1>1, SpawnStep, InsertStep, CountStep, ListMainStep, EndsStep, CleanupStep, TnodeDoneStep,
     CheckStep DEF L!Proceeds
<1>2. CASE UNCHANGED L!tvars
  BY <1>2 DEF L!tvars, ListInv, ListTypes, MainIs, OneCreator, CreatorOf, Creates, KidOf,
     BeingInserted, KillerIs, L!Alive, L!Thread, L!Nobody
<1> QED BY <1>1, <1>2, EndsStep, KillStep, CreateFailsStep, CreateStep DEF L!Next

\* With one thread and nothing listed it holds.
LEMMA ListBegins == HeardOf /\ L!Init => ListInv
<1> SUFFICES ASSUME HeardOf, L!Init PROVE ListInv
  OBVIOUS
<1> USE DEF HeardOf, ListAssumption, L!Thread, L!Nobody, L!Init
<1>1. ListTypes
  BY FS_EmptySet DEF ListTypes, Places
<1>2. \A p \in L!Thread : CreatorOf(p)
  BY DEF CreatorOf, Creates
<1>3. \A k \in Kids : KidOf(k)
  BY DEF KidOf, L!Alive
<1>4. MainIs /\ OneCreator /\ KillerIs
  BY DEF MainIs, OneCreator, KillerIs
<1> QED BY <1>1, <1>2, <1>3, <1>4 DEF ListInv

\* The list, the marks and the lock agree with what each thread does.
THEOREM ThreadListInductive == HeardOf => (L!Spec => []ListInv)
<1> SUFFICES ASSUME HeardOf PROVE L!Spec => []ListInv
  OBVIOUS
<1>1. L!Init => ListInv
  BY ListBegins
<1>2. ListInv /\ [L!Next]_(L!tvars) => ListInv'
  BY ListStep
<1> QED BY <1>1, <1>2, PTL DEF L!Spec

\* No thread is cancelled that has ended, and none listed twice.
THEOREM NoWildThreadHolds == HeardOf => (L!Spec => []L!NoWildThread)
<1> SUFFICES ASSUME HeardOf PROVE L!Spec => []L!NoWildThread
  OBVIOUS
<1>1. ListInv => L!NoWildThread
  BY DEF ListInv, L!NoWildThread
<1>2. L!Spec => []ListInv
  BY ThreadListInductive
<1> QED BY <1>1, <1>2, PTL

\* Of those who live and are no longer being listed, each is on the list: so who has the
\* lock and finds the list its own is alone, whether or not others kill or end early.
AloneInv ==
  /\ where \in [L!Thread -> Places] /\ creating \in [L!Thread -> Kids \cup {L!Nobody}]
  /\ \A p \in L!Thread : where[p] \in {"creating", "inserting"} =>
       btlLock = p /\ creating[p] \in Kids
  /\ \A p \in L!Thread : where[p] = "creating" => where[creating[p]] = "none"
  /\ \A k \in Kids : L!Alive(k) => k \in listed \/ BeingInserted(k)
  /\ where[Main] = "alone" => \A k \in Kids : ~L!Alive(k)

\* The creator has the lock and goes on to list what it creates.
LEMMA AloneCreates ==
  ASSUME ListAssumption, AloneInv, NEW p \in L!Thread,
         L!CreateFails(p) \/ L!Spawn(p) \/ L!Insert(p)
  PROVE  AloneInv'
<1> USE DEF ListAssumption, L!Thread, L!Nobody, Places
<1>1. where[p] \in {"creating", "inserting"} /\ btlLock = p /\ creating[p] \in Kids
  BY DEF L!CreateFails, L!Spawn, L!Insert, L!At, AloneInv
<1>2. \A q \in L!Thread \ {p} : where[q] \notin {"creating", "inserting"}
  BY <1>1 DEF AloneInv
<1>3. \A k \in Kids : L!Alive(k) => k \in listed \/ (where[p] = "inserting" /\ creating[p] = k)
  BY <1>1, <1>2 DEF AloneInv, BeingInserted
<1>4. where[Main] # "alone"
  BY <1>1 DEF AloneInv, L!Alive
<1>5. CASE L!CreateFails(p)
  BY <1>1, <1>2, <1>3, <1>4, <1>5
     DEF AloneInv, BeingInserted, L!CreateFails, L!At, L!Goes, L!NodeDestroyed, L!Alive
<1>6. CASE L!Spawn(p)
  <2> DEFINE c == creating[p]
  <2>1. /\ where[p] = "creating" /\ c \in Kids /\ c # p
        /\ where' = [where EXCEPT ![p] = "inserting", ![c] = "running"]
        /\ UNCHANGED <<creating, listed, btlLock>>
    BY <1>1, <1>6 DEF L!Spawn, L!At, AloneInv
  <2> HIDE DEF c
  <2>2. /\ where' \in [L!Thread -> Places] /\ where'[p] = "inserting" /\ where'[c] = "running"
        /\ \A q \in L!Thread \ {p, c} : where'[q] = where[q]
    BY <2>1 DEF AloneInv
  <2>3. \A k \in Kids : k = c => BeingInserted(k)'
    BY <2>1, <2>2 DEF BeingInserted, c
  <2>4. \A k \in Kids : L!Alive(k)' => k \in listed' \/ BeingInserted(k)'
    <3>1. \A k \in Kids \ {c} : L!Alive(k)' => L!Alive(k)
      BY <2>1, <2>2 DEF L!Alive
    <3>2. \A k \in Kids \ {c} : L!Alive(k)' => k \in listed'
      BY <1>3, <2>1, <3>1
    <3> QED BY <2>3, <3>2
  <2>5. \A q \in L!Thread : where'[q] \in {"creating", "inserting"} => q = p
    BY <1>2, <2>2
  <2>6. where'[Main] # "alone"
    BY <1>4, <2>1, <2>2
  <2> QED BY <1>1, <2>1, <2>2, <2>4, <2>5, <2>6 DEF AloneInv
<1>7. CASE L!Insert(p)
  <2>1. /\ where[p] = "inserting" /\ where' = [where EXCEPT ![p] = "counting"]
        /\ listed' = listed \cup {creating[p]} /\ UNCHANGED creating
    BY <1>7 DEF L!Insert, L!At, L!Goes
  <2> QED BY <1>2, <1>3, <1>4, <2>1 DEF AloneInv, L!Alive
<1> QED BY <1>5, <1>6, <1>7

\* Others do not touch what a creator holds, and take none off the list that live.
LEMMA AloneOthers ==
  ASSUME ListAssumption, AloneInv, NEW p \in L!Thread,
         \/ L!Count(p) \/ L!ListMain(p) \/ L!Dies(p) \/ L!Cleanup(p) \/ L!Returns(p)
  PROVE  AloneInv'
<1> USE DEF ListAssumption, L!Thread, L!Nobody, Places
<1>1. PICK w \in {"running", "listing", "dying", "leaving", "gone"} :
        where' = [where EXCEPT ![p] = w] /\ L!Alive(p)
  BY DEF L!Count, L!ListMain, L!Dies, L!Cleanup, L!Returns, L!At, L!Goes, L!Alive
<1>2. where[p] \in {"counting", "listing", "running", "dying"}
  BY DEF L!Count, L!ListMain, L!Dies, L!Cleanup, L!Returns, L!At
<1>3. /\ \A q \in L!Thread \ {p} : creating'[q] = creating[q]
      /\ listed \subseteq listed' /\ btlLock' = btlLock
  BY DEF L!Count, L!ListMain, L!Dies, L!Cleanup, L!Returns, AloneInv
<1>4. \A k \in Kids : BeingInserted(k) => BeingInserted(k)'
  BY <1>1, <1>2, <1>3 DEF BeingInserted, AloneInv
<1>5. where[Main] = "alone" => p = Main
  BY <1>1 DEF AloneInv
<1>6. where'[Main] # "alone"
  BY <1>1, <1>2, <1>5 DEF AloneInv
<1>7. \A k \in Kids : L!Alive(k)' => L!Alive(k)
  BY <1>1 DEF AloneInv, L!Alive
<1>8. \A q \in L!Thread : where'[q] \in {"creating", "inserting"} => q # p /\ where'[q] = where[q]
  BY <1>1 DEF AloneInv
<1>9. \A q \in L!Thread : where[q] = "none" => where'[q] = "none"
  BY <1>1, <1>2 DEF AloneInv
<1>10. where' \in [L!Thread -> Places] /\ creating' \in [L!Thread -> Kids \cup {L!Nobody}]
  BY <1>1 DEF AloneInv, L!Count, L!ListMain, L!Dies, L!Cleanup, L!Returns
<1>11. \A k \in Kids : L!Alive(k)' => k \in listed' \/ BeingInserted(k)'
  BY <1>3, <1>4, <1>7 DEF AloneInv
<1>12. \A q \in L!Thread : where'[q] = "creating" => where'[creating'[q]] = "none"
  BY <1>3, <1>8, <1>9 DEF AloneInv
<1> QED BY <1>3, <1>6, <1>8, <1>10, <1>11, <1>12 DEF AloneInv

\* Who has the lock does so while nobody is being listed.
LEMMA AloneLocks ==
  ASSUME ListAssumption, AloneInv, NEW p \in L!Thread,
         \/ L!TnodeDone(p) \/ L!Check(p) \/ L!KillOthers(p) \/ \E k \in Kids : L!Create(p, k)
  PROVE  AloneInv'
<1> USE DEF ListAssumption, L!Thread, L!Nobody, Places
<1>1. \A q \in L!Thread : where[q] \notin {"creating", "inserting"}
  BY DEF L!TnodeDone, L!Check, L!KillOthers, L!Create, L!CanLock, AloneInv
<1>2. \A k \in Kids : L!Alive(k) => k \in listed
  BY <1>1 DEF AloneInv, BeingInserted
<1>3. CASE L!TnodeDone(p)
  <2>1. PICK w \in L!Signalled(p) : where' = [where EXCEPT ![w] = "checking", ![p] = "gone"]
    BY <1>3 DEF L!TnodeDone
  <2>2. w \in L!Thread /\ (w = p \/ where[w] = "waiting") /\ where[p] = "leaving"
    BY <1>3, <2>1 DEF L!TnodeDone, L!Signalled, L!At
  <2>3. /\ where' \in [L!Thread -> Places] /\ where'[p] = "gone"
        /\ \A q \in L!Thread : where'[q] = where[q] \/ q = p \/ (q = w /\ where'[q] = "checking")
    BY <2>1, <2>2 DEF AloneInv
  <2>4. listed' = listed \ {p} /\ UNCHANGED creating
    BY <1>3 DEF L!TnodeDone
  <2>5. \A k \in Kids : L!Alive(k)' => L!Alive(k) /\ k # p
    BY <2>2, <2>3 DEF L!Alive
  <2>6. where'[Main] = "alone" => where[Main] = "alone"
    BY <2>2, <2>3
  <2> QED BY <1>1, <1>2, <2>2, <2>3, <2>4, <2>5, <2>6 DEF AloneInv
<1>4. CASE L!Check(p) \/ L!KillOthers(p)
  <2>1. PICK w \in {"alone", "waiting", "dying"} :
          where' = [where EXCEPT ![p] = w] /\ (w = "alone" => listed \subseteq {p})
    BY <1>4 DEF L!Check, L!KillOthers, L!Goes, L!OnlyOne
  <2>2. where[p] \in {"checking", "waiting", "running"} /\ UNCHANGED <<creating, listed>>
    BY <1>4 DEF L!Check, L!KillOthers, L!At
  <2>3. where'[Main] = "alone" => \A k \in Kids : ~L!Alive(k)'
    <3>1. CASE p = Main
      BY <1>2, <2>1, <3>1 DEF AloneInv, L!Alive
    <3>2. CASE p # Main
      BY <2>1, <2>2, <3>2 DEF AloneInv, L!Alive
    <3> QED BY <3>1, <3>2
  <2> QED BY <1>1, <1>2, <2>1, <2>2, <2>3 DEF AloneInv, L!Alive
<1>5. ASSUME NEW k \in Kids, L!Create(p, k) PROVE AloneInv'
  <2>1. /\ where[p] = "running" /\ where[k] = "none" /\ UNCHANGED listed
    BY <1>5 DEF L!Create, L!At
  <2>2. where[Main] # "alone"
    BY <2>1 DEF AloneInv, L!Alive
  <2>3. CASE where' = [where EXCEPT ![p] = "dying"] /\ UNCHANGED <<creating, btlLock>>
    BY <1>1, <1>2, <2>1, <2>2, <2>3 DEF AloneInv, L!Alive
  <2>4. CASE /\ where' = [where EXCEPT ![p] = "creating"] /\ btlLock' = p
             /\ creating' = [creating EXCEPT ![p] = k]
    BY <1>1, <1>2, <2>1, <2>2, <2>4 DEF AloneInv, L!Alive
  <2> QED BY <1>5, <2>3, <2>4 DEF L!Create, L!Goes, L!NodeCreated
<1> QED BY <1>3, <1>4, <1>5

\* The main thread that has killed the others is alone.
THEOREM AloneWhenKilledHolds == ListAssumption => (L!Spec => []L!AloneWhenKilled)
<1> SUFFICES ASSUME ListAssumption PROVE L!Spec => []L!AloneWhenKilled
  OBVIOUS
<1>1. L!Init => AloneInv
  BY DEF L!Init, AloneInv, ListAssumption, L!Thread, L!Nobody, Places, L!Alive
<1>2. AloneInv /\ [L!Next]_(L!tvars) => AloneInv'
  <2> SUFFICES ASSUME AloneInv, [L!Next]_(L!tvars) PROVE AloneInv'
    OBVIOUS
  <2>1. CASE UNCHANGED L!tvars
    BY <2>1 DEF L!tvars, AloneInv, BeingInserted, L!Alive, L!Thread
  <2> QED BY <2>1, AloneCreates, AloneOthers, AloneLocks DEF L!Next, L!Proceeds
<1>3. AloneInv => L!AloneWhenKilled
  BY DEF AloneInv, L!AloneWhenKilled, L!At
<1> QED BY <1>1, <1>2, <1>3, PTL DEF L!Spec

-----------------------------------------------------------------------------
(* Threads that share a bk_run                                             *)

\* Users and runners are different threads, none of them nobody, and runners finitely many.
RunAssumption ==
  Runners \cap Users = {} /\ R!NoOne \notin R!Threads /\ IsFiniteSet(Runners)

RunnerPcs == {"run", "over", "demand", "in", "served", "closing", "prepare", "select", "discard", "fds", "end"}
UserPcs == {"user", "busy", "waiting", "again", "closing"}
InFunction == {"in", "served", "closing"}
Frame == [pc : RunnerPcs \cup UserPcs, obj : R!Obj \cup {R!NoOne}, todo : SUBSET R!Obj,
          copy : SUBSET R!Obj, block : BOOLEAN, old : BOOLEAN]

FrameOk(t, f) ==
  /\ f \in Frame
  /\ t \in Runners => f.pc \in RunnerPcs
  /\ t \in Users => f.pc \in UserPcs
  /\ f.pc \in InFunction => f.obj \in R!Obj

AtTypes == at \in [R!Threads -> Frame] /\ \A t \in R!Threads : FrameOk(t, at[t])

RunTypes ==
  /\ present \subseteq R!Obj /\ wanted \subseteq R!Obj /\ raised \subseteq R!Obj
  /\ userid \in [R!Obj -> Runners \cup {R!NoOne}]
  /\ selectcount \in Int /\ wakes \in Nat
  /\ event \in BOOLEAN

\* A runner has what it serves, from before the function to after it.
Serving(t, o) == t \in Runners /\ at[t].obj = o /\ ~at[t].old /\ at[t].pc \in InFunction
Closing(t, o) == t \in Users /\ at[t].obj = o /\ ~at[t].old /\ at[t].pc = "closing"

SoftLocked ==
  \A r \in Runners, o \in R!Obj \ stolen : Serving(r, o) => userid[o] = r

\* Who closes a descriptor has taken it from the others.
ClosedAlone ==
  \A u \in Users, o \in R!Obj :
    Closing(u, o) =>
      /\ o \notin present
      /\ \A v \in Users : Closing(v, o) => v = u
      /\ o \notin stolen => \A r \in Runners : ~Serving(r, o)

\* Those in select are counted.
Selecting == {r \in Runners : at[r].pc = "select"}
Counted == selectcount = Cardinality(Selecting)

Locks == SoftLocked /\ ClosedAlone
RunInv == AtTypes /\ RunTypes /\ Locks /\ Counted /\ R!StaleIsWoken

\* The runners are counted as this module counts.
LEMMA RunCounts == \A S : R!Cardinality(S) = Cardinality(S)
BY DEF Cardinality, R!Cardinality

\* Those who wait for the condition of an object are woken.
LEMMA AgainOk ==
  ASSUME RunAssumption, AtTypes, NEW t \in R!Threads, at[t].pc = "waiting"
  PROVE  FrameOk(t, [at[t] EXCEPT !.pc = "again"]) /\ t \in Users /\ t \notin Runners
<1>1. FrameOk(t, at[t]) /\ at[t] \in Frame
  BY DEF AtTypes
<1>2. t \in Users /\ t \notin Runners
  BY <1>1 DEF FrameOk, RunnerPcs, R!Threads
<1>3. /\ [at[t] EXCEPT !.pc = "again"] \in Frame
      /\ [at[t] EXCEPT !.pc = "again"].pc = "again"
  BY <1>1 DEF Frame, UserPcs
<1> QED BY <1>2, <1>3 DEF FrameOk, UserPcs, InFunction

\* A thread that is woken waits no longer.
Wakes(q) == at[q].pc = "waiting" /\ at'[q] = [at[q] EXCEPT !.pc = "again"]

\* One thread goes to another place, and may wake others that wait.
Stirs(t, f) ==
  /\ FrameOk(t, f)
  /\ at' = [q \in R!Threads |-> at'[q]]
  /\ at'[t] = f
  /\ \A q \in R!Threads \ {t} : at'[q] = at[q] \/ Wakes(q)

\* Mostly it wakes nobody.
LEMMA MovesStirs ==
  ASSUME AtTypes, NEW t \in R!Threads, NEW f, FrameOk(t, f), at' = [at EXCEPT ![t] = f]
  PROVE  Stirs(t, f)
BY DEF Stirs, AtTypes

\* Every frame stays one.
LEMMA StirsTypes ==
  ASSUME RunAssumption, AtTypes, NEW t \in R!Threads, NEW f, Stirs(t, f)
  PROVE  AtTypes'
<1>1. \A q \in R!Threads : FrameOk(q, at'[q])
  <2>1. FrameOk(t, at'[t])
    BY DEF Stirs
  <2>2. \A q \in R!Threads : Wakes(q) => FrameOk(q, at'[q])
    BY AgainOk DEF Wakes
  <2>3. \A q \in R!Threads : at'[q] = at[q] => FrameOk(q, at'[q])
    BY DEF AtTypes
  <2> QED BY <2>1, <2>2, <2>3 DEF Stirs
<1>2. at' \in [R!Threads -> Frame]
  BY <1>1 DEF Stirs, FrameOk
<1>3. \A q \in R!Threads : FrameOk(q, at'[q]) => FrameOk(q, at[q])'
  BY DEF FrameOk, Frame, R!Obj, R!NoOne
<1> QED BY <1>1, <1>2, <1>3 DEF AtTypes, R!Threads, Frame, R!Obj, R!NoOne

\* What a thread that is woken was and is
LEMMA WokenPlaces ==
  ASSUME RunAssumption, AtTypes, NEW t \in R!Threads, NEW f, Stirs(t, f),
         NEW q \in R!Threads \ {t}
  PROVE  /\ at'[q].pc \in {"in", "served", "closing", "select"} \/
            at[q].pc \in {"in", "served", "closing", "select"} => at'[q] = at[q]
<1>1. CASE at'[q] = at[q]
  BY <1>1
<1>2. CASE Wakes(q)
  <2>1. at[q] \in Frame
    BY DEF AtTypes
  <2>2. at[q].pc = "waiting" /\ at'[q].pc = "again"
    BY <1>2, <2>1 DEF Wakes, Frame
  <2> QED BY <2>2
<1> QED BY <1>1, <1>2 DEF Stirs

\* A thread that neither enters nor leaves a function keeps the soft locks.
LEMMA LocksQuiet ==
  ASSUME RunAssumption, AtTypes, Locks, NEW t \in R!Threads, NEW f, Stirs(t, f),
         f.pc \notin InFunction, userid' = userid, present' \subseteq present,
         stolen' = stolen
  PROVE  Locks'
<1>1. \A r, o : Serving(r, o)' => Serving(r, o)
  BY WokenPlaces DEF Serving, Stirs, InFunction, R!Threads
<1>2. \A u, o : Closing(u, o)' => Closing(u, o)
  BY WokenPlaces DEF Closing, Stirs, InFunction, R!Threads
<1>3. SoftLocked'
  BY <1>1 DEF Locks, SoftLocked, R!Obj
<1>4. ClosedAlone'
  BY <1>1, <1>2 DEF Locks, ClosedAlone, R!Obj
<1> QED BY <1>3, <1>4 DEF Locks

\* So does one that stays in its function, or goes from inside it to the end.
LEMMA LocksInside ==
  ASSUME RunAssumption, AtTypes, Locks, NEW t \in Runners, NEW f, Stirs(t, f),
         at[t].pc \in InFunction, f.pc \in InFunction, f.obj = at[t].obj, f.old = at[t].old,
         userid' = userid, present' \subseteq present, stolen' = stolen
  PROVE  Locks'
<1>0. t \notin Users /\ t \in R!Threads
  BY DEF RunAssumption, R!Threads
<1>1. \A r, o : Serving(r, o)' => Serving(r, o)
  BY <1>0, WokenPlaces DEF Serving, Stirs, InFunction, R!Threads
<1>2. \A u, o : Closing(u, o)' => Closing(u, o)
  BY <1>0, WokenPlaces DEF Closing, Stirs, InFunction, R!Threads
<1>3. SoftLocked'
  BY <1>1 DEF Locks, SoftLocked, R!Obj
<1>4. ClosedAlone'
  BY <1>1, <1>2 DEF Locks, ClosedAlone, R!Obj
<1> QED BY <1>3, <1>4 DEF Locks

\* The count of those in select stays what it is when nobody enters or leaves.
LEMMA CountSame ==
  ASSUME RunAssumption, AtTypes, Counted, NEW t \in R!Threads, NEW f, Stirs(t, f),
         f.pc # "select", at[t].pc # "select", selectcount' = selectcount
  PROVE  Counted'
<1>1. Selecting' = Selecting
  BY WokenPlaces DEF Selecting, Stirs, R!Threads
<1> QED BY <1>1 DEF Counted

\* No runner in select misses a byte when none enters it.
LEMMA StaleSame ==
  ASSUME RunAssumption, AtTypes, R!StaleIsWoken, NEW t \in R!Threads, NEW f, Stirs(t, f),
         f.pc # "select", wanted' \subseteq wanted, wakes > 0 => wakes' > 0
  PROVE  R!StaleIsWoken'
<1>1. \A r \in Runners : at'[r].pc = "select" => at'[r] = at[r]
  BY WokenPlaces DEF Stirs, R!Threads
<1> QED BY <1>1 DEF R!StaleIsWoken, R!Pc

\* A runner goes to a place outside the functions.
LEMMA Goes ==
  ASSUME RunAssumption, AtTypes, NEW r \in Runners, NEW pc \in RunnerPcs \ InFunction
  PROVE  FrameOk(r, [at[r] EXCEPT !.pc = pc]) /\ [at[r] EXCEPT !.pc = pc].pc = pc
         /\ [at[r] EXCEPT !.pc = pc].copy = at[r].copy
<1>1. r \in R!Threads /\ r \notin Users /\ at[r] \in Frame
  BY DEF AtTypes, RunAssumption, R!Threads
<1>2. pc # "closing" /\ pc \in RunnerPcs \cup UserPcs
  BY DEF RunnerPcs, InFunction
<1>3. /\ [at[r] EXCEPT !.pc = pc] \in Frame
      /\ [at[r] EXCEPT !.pc = pc].pc = pc
      /\ [at[r] EXCEPT !.pc = pc].copy = at[r].copy
  BY <1>1, <1>2 DEF Frame
<1> QED BY <1>1, <1>2, <1>3 DEF FrameOk, InFunction

\* A step that touches neither the functions nor select
LEMMA QuietStep ==
  ASSUME RunAssumption, RunInv, NEW t \in R!Threads, NEW f, Stirs(t, f),
         f.pc \notin InFunction, f.pc # "select", at[t].pc # "select",
         userid' = userid, present' \subseteq present, wanted' \subseteq wanted,
         wakes > 0 => wakes' > 0, selectcount' = selectcount, stolen' = stolen, RunTypes'
  PROVE  RunInv'
<1>1. AtTypes'
  BY StirsTypes DEF RunInv
<1>2. Locks'
  BY LocksQuiet DEF RunInv
<1>3. Counted'
  BY CountSame DEF RunInv
<1>4. R!StaleIsWoken'
  BY StaleSame DEF RunInv
<1> QED BY <1>1, <1>2, <1>3, <1>4 DEF RunInv

\* Nobody selects when the count says so.
LEMMA NoneCounted ==
  ASSUME RunAssumption, Counted
  PROVE  /\ Cardinality(Selecting) \in Nat /\ IsFiniteSet(Selecting)
         /\ selectcount = 0 => Selecting = {}
         /\ selectcount <= Cardinality(Runners) /\ selectcount >= 0
         /\ Cardinality(Runners) \in Nat
<1>1. Selecting \subseteq Runners /\ IsFiniteSet(Runners)
  BY DEF Selecting, RunAssumption
<1>2. IsFiniteSet(Selecting) /\ Cardinality(Selecting) <= Cardinality(Runners)
      /\ Cardinality(Selecting) \in Nat /\ Cardinality(Runners) \in Nat
  BY <1>1, FS_Subset, FS_CardinalityType
<1>3. Cardinality(Selecting) = 0 => Selecting = {}
  BY <1>2, FS_EmptySet
<1> QED BY <1>2, <1>3 DEF Counted

\* bk_run_select_changed leaves a byte when somebody selects.
LEMMA WokenWakes ==
  ASSUME RunAssumption, RunInv
  PROVE  /\ R!Woken \in Nat /\ (wakes > 0 => R!Woken > 0)
         /\ Selecting # {} => R!Woken > 0
<1>1. wakes \in Nat /\ selectcount \in Int
  BY DEF RunInv, RunTypes
<1>2. R!Cardinality(Runners) = Cardinality(Runners)
  BY RunCounts
<1>3. Counted
  BY DEF RunInv
<1>4. Cardinality(Runners) \in Nat /\ selectcount >= 0 /\ selectcount <= Cardinality(Runners)
      /\ (selectcount = 0 => Selecting = {})
  BY <1>3, NoneCounted
<1>5. CASE selectcount > 0 /\ wakes < R!Cardinality(Runners)
  BY <1>1, <1>5 DEF R!Woken
<1>6. CASE ~(selectcount > 0 /\ wakes < R!Cardinality(Runners))
  BY <1>1, <1>2, <1>4, <1>6 DEF R!Woken
<1> QED BY <1>5, <1>6

\* A runner begins a pass, or stops.
LEMMA BeginStep == ASSUME RunAssumption, RunInv, NEW r \in Runners, R!Begin(r) PROVE RunInv'
<1> DEFINE g == [R!Home(r) EXCEPT !.pc = "demand", !.todo = Funcs]
           h == [at[r] EXCEPT !.pc = "over"]
<1>1. r \in R!Threads /\ at[r].pc = "run" /\ r \notin Users
  BY DEF R!Begin, R!Pc, R!Threads, RunAssumption
<1>2. /\ present' = present /\ userid' = userid /\ raised' = raised /\ wanted' = wanted
      /\ selectcount' = selectcount /\ wakes' = wakes /\ event' = event
      /\ stolen' = stolen
  BY DEF R!Begin, R!objects, R!waking, R!queues
<1>3. RunTypes'
  BY <1>2 DEF RunInv, RunTypes, R!Obj, R!NoOne
<1>4. AtTypes
  BY DEF RunInv
<1>5. FrameOk(r, g) /\ g.pc = "demand"
  BY <1>1 DEF FrameOk, Frame, RunnerPcs, UserPcs, InFunction, R!Home, R!Obj
<1>6. FrameOk(r, h) /\ h.pc = "over"
  BY <1>4, Goes DEF RunnerPcs, InFunction
<1>7. at' = [at EXCEPT ![r] = g] \/ at' = [at EXCEPT ![r] = h]
  BY DEF R!Begin, R!Set, R!Go
<1> HIDE DEF g, h
<1>8. Stirs(r, g) \/ Stirs(r, h)
  BY <1>1, <1>4, <1>5, <1>6, <1>7, MovesStirs
<1>9. wakes > 0 => wakes' > 0
  BY <1>2
<1> QED BY <1>1, <1>2, <1>3, <1>5, <1>6, <1>8, <1>9, QuietStep DEF InFunction

\* The event that is due is run.
LEMMA EventsStep == ASSUME RunAssumption, RunInv, NEW r \in Runners, R!Events(r) PROVE RunInv'
<1> DEFINE g == [at[r] EXCEPT !.pc = "prepare", !.block = ~event]
           h == [at[r] EXCEPT !.pc = "end"]
<1>1. r \in R!Threads /\ at[r].pc = "demand" /\ r \notin Users
  BY DEF R!Events, R!Pc, R!Threads, RunAssumption
<1>2. /\ present' = present /\ userid' = userid /\ raised' = raised /\ wanted' = wanted
      /\ selectcount' = selectcount /\ wakes' = wakes /\ event' = FALSE
      /\ stolen' = stolen
  BY DEF R!Events, R!objects, R!waking
<1>3. RunTypes'
  BY <1>2 DEF RunInv, RunTypes, R!Obj, R!NoOne
<1>4. AtTypes /\ at[r] \in Frame /\ event \in BOOLEAN
  BY <1>1 DEF RunInv, AtTypes, RunTypes
<1>5. FrameOk(r, g) /\ g.pc = "prepare"
  BY <1>1, <1>4 DEF FrameOk, Frame, RunnerPcs, UserPcs, InFunction
<1>6. FrameOk(r, h) /\ h.pc = "end"
  BY <1>4, Goes DEF RunnerPcs, InFunction
<1>7. at' = [at EXCEPT ![r] = g] \/ at' = [at EXCEPT ![r] = h]
  BY DEF R!Events, R!Set, R!Go
<1> HIDE DEF g, h
<1>8. Stirs(r, g) \/ Stirs(r, h)
  BY <1>1, <1>4, <1>5, <1>6, <1>7, MovesStirs
<1>9. wakes > 0 => wakes' > 0
  BY <1>2
<1> QED BY <1>1, <1>2, <1>3, <1>5, <1>6, <1>8, <1>9, QuietStep DEF InFunction

\* The end of a pass
LEMMA EndStep ==
  ASSUME RunAssumption, RunInv, NEW r \in Runners, R!EndFds(r) \/ R!EndOnce(r) PROVE RunInv'
<1>1. r \in R!Threads /\ at[r].pc # "select" /\ r \notin Users
  BY DEF R!EndFds, R!EndOnce, R!Pc, R!Threads, RunAssumption
<1>2. /\ present' = present /\ userid' = userid /\ raised' = raised /\ wanted' = wanted
      /\ selectcount' = selectcount /\ wakes' = wakes /\ event' = event
      /\ stolen' = stolen
  BY DEF R!EndFds, R!EndOnce, R!objects, R!waking, R!queues
<1>3. RunTypes'
  BY <1>2 DEF RunInv, RunTypes, R!Obj, R!NoOne
<1>4. AtTypes
  BY DEF RunInv
<1>5. PICK pc \in {"run", "end"} : at' = [at EXCEPT ![r] = [at[r] EXCEPT !.pc = pc]]
  BY DEF R!EndFds, R!EndOnce, R!Go, R!Set
<1> DEFINE g == [at[r] EXCEPT !.pc = pc]
<1>6. FrameOk(r, g) /\ g.pc = pc
  BY <1>4, Goes DEF RunnerPcs, InFunction
<1>7. at' = [at EXCEPT ![r] = g]
  BY <1>5
<1> HIDE DEF g
<1>8. Stirs(r, g)
  BY <1>1, <1>4, <1>6, <1>7, MovesStirs
<1>9. wakes > 0 => wakes' > 0
  BY <1>2
<1> QED BY <1>1, <1>2, <1>3, <1>5, <1>6, <1>8, <1>9, QuietStep DEF InFunction

\* select
LEMMA DiscardStep == ASSUME RunAssumption, RunInv, NEW r \in Runners, R!Discard(r) PROVE RunInv'
<1> DEFINE g == [at[r] EXCEPT !.pc = "fds"]
<1>1. r \in R!Threads /\ at[r].pc = "discard" /\ r \notin Users
  BY DEF R!Discard, R!Pc, R!Threads, RunAssumption
<1>2. /\ present' = present /\ userid' = userid /\ raised' = raised /\ wanted' = wanted
      /\ selectcount' = selectcount /\ event' = event
      /\ stolen' = stolen
      /\ wakes' = IF selectcount = 0 THEN 0 ELSE wakes
  BY DEF R!Discard, R!objects, R!queues, R!NoneSelects
<1>3. RunTypes'
  BY <1>2 DEF RunInv, RunTypes, R!Obj, R!NoOne
<1>4. AtTypes /\ Counted /\ Locks /\ R!StaleIsWoken
  BY DEF RunInv
<1>6. FrameOk(r, g) /\ g.pc = "fds"
  BY <1>4, Goes DEF RunnerPcs, InFunction
<1>7. at' = [at EXCEPT ![r] = g]
  BY DEF R!Discard, R!Go, R!Set
<1> HIDE DEF g
<1>8. Stirs(r, g)
  BY <1>1, <1>4, <1>6, <1>7, MovesStirs
<1>9. CASE selectcount = 0
  <2>1. Selecting = {}
    BY <1>4, <1>9, NoneCounted
  <2>2. Counted'
    BY <1>1, <1>2, <1>4, <1>6, <1>8, CountSame
  <2>3. Selecting' = {}
    BY <2>1, <1>1, <1>4, <1>6, <1>8, WokenPlaces DEF Selecting, Stirs, R!Threads
  <2>4. R!StaleIsWoken'
    BY <2>3 DEF R!StaleIsWoken, Selecting, R!Pc
  <2>5. AtTypes' /\ Locks'
    BY <1>1, <1>2, <1>4, <1>6, <1>8, StirsTypes, LocksQuiet DEF InFunction
  <2> QED BY <2>2, <2>4, <2>5, <1>3 DEF RunInv
<1>10. CASE selectcount # 0
  <2>1. wakes > 0 => wakes' > 0
    BY <1>2, <1>10
  <2> QED BY <2>1, <1>1, <1>2, <1>3, <1>6, <1>8, QuietStep DEF InFunction
<1> QED BY <1>9, <1>10

\* Who enters is counted, and knows all that is wanted.
LEMMA EnterStep == ASSUME RunAssumption, RunInv, NEW r \in Runners, R!EnterSelect(r) PROVE RunInv'
<1>1. r \in R!Threads /\ at[r].pc = "prepare" /\ r \notin Users
  BY DEF R!EnterSelect, R!Pc, R!Threads, RunAssumption
<1>2. /\ present' = present /\ userid' = userid /\ raised' = raised /\ wanted' = wanted
      /\ event' = event /\ wakes' = wakes /\ stolen' = stolen
  BY DEF R!EnterSelect, R!objects, R!queues
<1>4. AtTypes /\ Counted /\ Locks /\ R!StaleIsWoken /\ RunTypes
  BY DEF RunInv
<1>5. CASE at' = [at EXCEPT ![r] = [at[r] EXCEPT !.pc = "end"]] /\ selectcount' = selectcount
  <2> DEFINE g == [at[r] EXCEPT !.pc = "end"]
  <2>1. FrameOk(r, g) /\ g.pc = "end"
    BY <1>4, Goes DEF RunnerPcs, InFunction
  <2>2. at' = [at EXCEPT ![r] = g]
    BY <1>5
  <2>3. RunTypes'
    BY <1>2, <1>4, <1>5 DEF RunTypes, R!Obj, R!NoOne
  <2> HIDE DEF g
  <2>4. Stirs(r, g)
    BY <1>1, <1>4, <2>1, <2>2, MovesStirs
  <2>5. wakes > 0 => wakes' > 0
    BY <1>2
  <2> QED BY <1>1, <1>2, <1>5, <2>1, <2>3, <2>4, <2>5, QuietStep DEF InFunction
<1>6. CASE /\ selectcount' = selectcount + 1
           /\ at' = [at EXCEPT ![r] = [at[r] EXCEPT !.pc = "select", !.copy = wanted]]
  <2> DEFINE g == [at[r] EXCEPT !.pc = "select", !.copy = wanted]
  <2>0. at[r] \in Frame /\ wanted \subseteq R!Obj
    BY <1>1, <1>4 DEF AtTypes, RunTypes
  <2>1. FrameOk(r, g) /\ g.pc = "select" /\ g.copy = wanted
    BY <1>1, <2>0 DEF FrameOk, Frame, RunnerPcs, UserPcs, InFunction
  <2>2. at' = [at EXCEPT ![r] = g]
    BY <1>6
  <2>3. RunTypes'
    <3>1. selectcount' \in Int
      BY <1>4, <1>6 DEF RunTypes
    <3> QED BY <3>1, <1>2, <1>4 DEF RunTypes, R!Obj, R!NoOne
  <2> HIDE DEF g
  <2>4. Stirs(r, g)
    BY <1>1, <1>4, <2>1, <2>2, MovesStirs
  <2>5. AtTypes' /\ Locks'
    BY <1>1, <1>2, <1>4, <2>1, <2>4, StirsTypes, LocksQuiet DEF InFunction
  <2>6. Selecting' = Selecting \cup {r} /\ r \notin Selecting
    BY <1>1, <1>4, <2>1, <2>4, WokenPlaces DEF Selecting, Stirs, R!Threads
  <2>7. Cardinality(Selecting \cup {r}) = Cardinality(Selecting) + 1
    BY <1>4, <2>6, NoneCounted, FS_AddElement
  <2>8. Counted'
    BY <1>4, <1>6, <2>6, <2>7 DEF Counted
  <2>9. R!StaleIsWoken'
    <3>1. at'[r].copy = wanted'
      BY <2>1, <2>4, <1>2 DEF Stirs
    <3>2. \A q \in Runners \ {r} : at'[q].pc = "select" => at'[q] = at[q]
      BY <1>4, <1>1, <2>4, WokenPlaces DEF R!Threads
    <3> QED BY <3>1, <3>2, <1>2, <1>4 DEF R!StaleIsWoken, R!Pc
  <2> QED BY <2>3, <2>5, <2>8, <2>9 DEF RunInv
<1> QED BY <1>5, <1>6 DEF R!EnterSelect, R!Go, R!Set

\* Who leaves is counted no more.
LEMMA LeaveStep == ASSUME RunAssumption, RunInv, NEW r \in Runners, R!LeaveSelect(r) PROVE RunInv'
<1>1. r \in R!Threads /\ at[r].pc = "select" /\ r \notin Users
  BY DEF R!LeaveSelect, R!Pc, R!Threads, RunAssumption
<1>2. /\ present' = present /\ userid' = userid /\ raised' = raised /\ wanted' = wanted
      /\ event' = event /\ wakes' = wakes /\ selectcount' = selectcount - 1
      /\ stolen' = stolen
  BY DEF R!LeaveSelect, R!objects, R!queues
<1>3. AtTypes /\ Counted /\ Locks /\ R!StaleIsWoken /\ RunTypes /\ at[r] \in Frame
  BY <1>1 DEF RunInv, AtTypes
<1>4. RunTypes'
  <2>1. selectcount' \in Int
    BY <1>2, <1>3 DEF RunTypes
  <2>2. /\ present' = present /\ userid' = userid /\ raised' = raised /\ wanted' = wanted
        /\ event' = event /\ wakes' = wakes
    BY <1>2
  <2> QED BY <2>1, <2>2, <1>3 DEF RunTypes, R!Obj, R!NoOne
<1>5. PICK g : /\ at' = [at EXCEPT ![r] = g] /\ FrameOk(r, g)
               /\ g.pc \notin InFunction /\ g.pc # "select"
  <2> DEFINE a == [at[r] EXCEPT !.pc = "end"]
             b == [at[r] EXCEPT !.pc = IF wakes > 0 THEN "discard" ELSE "fds",
                                !.todo = at[r].copy \cap raised]
  <2>1. at' = [at EXCEPT ![r] = a] \/ at' = [at EXCEPT ![r] = b]
    BY DEF R!LeaveSelect, R!Go, R!Set
  <2>2. FrameOk(r, a) /\ a.pc = "end"
    BY <1>3, Goes DEF RunnerPcs, InFunction
  <2>3. FrameOk(r, b) /\ b.pc \in {"discard", "fds"}
    BY <1>1, <1>3 DEF FrameOk, Frame, RunnerPcs, UserPcs, InFunction
  <2> HIDE DEF a, b
  <2> QED BY <2>1, <2>2, <2>3 DEF InFunction
<1>6. Stirs(r, g)
  BY <1>1, <1>3, <1>5, MovesStirs
<1>7. AtTypes' /\ Locks'
  BY <1>1, <1>2, <1>3, <1>5, <1>6, StirsTypes, LocksQuiet
<1>8. Selecting' = Selecting \ {r} /\ r \in Selecting
  BY <1>1, <1>3, <1>5, <1>6, WokenPlaces DEF Selecting, Stirs, R!Threads
<1>9. Cardinality(Selecting \ {r}) = Cardinality(Selecting) - 1
  BY <1>3, <1>8, NoneCounted, FS_RemoveElement
<1>10. Counted'
  BY <1>2, <1>3, <1>8, <1>9 DEF Counted
<1>11. R!StaleIsWoken'
  BY <1>1, <1>2, <1>3, <1>5, <1>6, StaleSame
<1> QED BY <1>4, <1>7, <1>10, <1>11 DEF RunInv

\* The function is called, for the demand or the input.
LEMMA ServeStep ==
  ASSUME RunAssumption, RunInv, NEW r \in Runners, NEW o \in R!Obj, NEW pc \in {"demand", "fds"},
         R!Serve(r, o, pc)
  PROVE  RunInv'
<1>1. r \in R!Threads /\ at[r].pc = pc /\ r \notin Users /\ o \in present
  BY DEF R!Serve, R!Pc, R!Threads, RunAssumption
<1>2. /\ present' = present /\ raised' = raised /\ wanted' = wanted
      /\ event' = event /\ wakes' = wakes /\ selectcount' = selectcount
      /\ stolen' = stolen
  BY DEF R!Serve, R!queues, R!waking
<1>3. AtTypes /\ Counted /\ Locks /\ R!StaleIsWoken /\ RunTypes /\ at[r] \in Frame
  BY <1>1 DEF RunInv, AtTypes
<1>4. CASE at' = [at EXCEPT ![r] = [at[r] EXCEPT !.todo = @ \ {o}]] /\ userid' = userid
  <2> DEFINE g == [at[r] EXCEPT !.todo = @ \ {o}]
  <2>1. FrameOk(r, g) /\ g.pc = pc
    BY <1>1, <1>3 DEF FrameOk, Frame, RunnerPcs, UserPcs, InFunction
  <2>2. RunTypes'
    BY <1>2, <1>3, <1>4 DEF RunTypes, R!Obj, R!NoOne
  <2> HIDE DEF g
  <2>3. Stirs(r, g)
    BY <1>1, <1>3, <1>4, <2>1, MovesStirs DEF g
  <2>4. wakes > 0 => wakes' > 0
    BY <1>2
  <2> QED BY <1>1, <1>2, <1>4, <2>1, <2>2, <2>3, <2>4, QuietStep DEF InFunction
<1>5. CASE /\ userid[o] = R!NoOne /\ userid' = [userid EXCEPT ![o] = r]
           /\ at' = [at EXCEPT ![r] = [at[r] EXCEPT !.todo = @ \ {o}, !.pc = "in",
                                                   !.obj = o, !.old = FALSE]]
  <2> DEFINE g == [at[r] EXCEPT !.todo = @ \ {o}, !.pc = "in", !.obj = o, !.old = FALSE]
  <2>1. FrameOk(r, g) /\ g.pc = "in" /\ g.obj = o
    BY <1>1, <1>3 DEF FrameOk, Frame, RunnerPcs, UserPcs, InFunction
  <2>2. RunTypes'
    BY <1>2, <1>3, <1>5 DEF RunTypes, R!Obj, R!NoOne
  <2> HIDE DEF g
  <2>3. Stirs(r, g)
    BY <1>1, <1>3, <1>5, <2>1, MovesStirs DEF g
  <2>4. AtTypes' /\ Counted' /\ R!StaleIsWoken'
    BY <1>1, <1>2, <1>3, <2>1, <2>3, StirsTypes, CountSame, StaleSame
  <2>5. \A q, p : Serving(q, p)' => (q # r /\ Serving(q, p)) \/ (q = r /\ p = o)
    BY <1>3, <1>1, <2>1, <2>3, WokenPlaces DEF Serving, Stirs, R!Threads, InFunction
  <2>6. \A u, p : Closing(u, p)' => Closing(u, p)
    BY <1>3, <1>1, <2>1, <2>3, WokenPlaces DEF Closing, Stirs, R!Threads
  <2>7. o \notin stolen => \A q \in Runners : ~Serving(q, o)
    BY <1>3, <1>5 DEF Locks, SoftLocked, RunAssumption, R!Threads
  <2>8. \A u \in Users : ~Closing(u, o)
    BY <1>1, <1>3 DEF Locks, ClosedAlone
  <2>9. SoftLocked'
    BY <1>2, <1>3, <1>5, <2>5, <2>7 DEF Locks, SoftLocked, R!Obj, RunTypes
  <2>10. ClosedAlone'
    BY <1>2, <1>3, <2>5, <2>6, <2>8 DEF Locks, ClosedAlone, R!Obj
  <2> QED BY <2>2, <2>4, <2>9, <2>10 DEF RunInv, Locks
<1> QED BY <1>4, <1>5 DEF R!Serve, R!Set, R!InUse

\* The function is over, with the object there or not.
LEMMA ServeEndsStep ==
  ASSUME RunAssumption, RunInv, NEW r \in Runners, R!ServeEnds(r) PROVE RunInv'
<1> DEFINE g == [at[r] EXCEPT !.pc = "served"]
<1>1. r \in R!Threads /\ at[r].pc = "in" /\ r \notin Users
  BY DEF R!ServeEnds, R!Pc, R!Threads, RunAssumption
<1>2. /\ present' = present /\ userid' = userid /\ raised' \subseteq raised /\ wanted' = wanted
      /\ selectcount' = selectcount /\ wakes' = wakes /\ event' = event
      /\ stolen' = stolen
  BY DEF R!ServeEnds, R!waking, R!queues
<1>3. AtTypes /\ Counted /\ Locks /\ R!StaleIsWoken /\ RunTypes
      /\ at[r] \in Frame /\ at[r].obj \in R!Obj
  BY <1>1 DEF RunInv, AtTypes, FrameOk, InFunction
<1>4. RunTypes'
  BY <1>2, <1>3 DEF RunTypes, R!Obj, R!NoOne
<1>5. FrameOk(r, g) /\ g.pc = "served" /\ g.obj = at[r].obj /\ g.old = at[r].old
  BY <1>1, <1>3 DEF FrameOk, Frame, RunnerPcs, UserPcs, InFunction
<1>6. at' = [at EXCEPT ![r] = g]
  BY DEF R!ServeEnds, R!Go, R!Set
<1> HIDE DEF g
<1>7. Stirs(r, g)
  BY <1>1, <1>3, <1>5, <1>6, MovesStirs
<1>8. Locks'
  BY <1>1, <1>2, <1>3, <1>5, <1>7, LocksInside DEF InFunction
<1>9. AtTypes' /\ Counted' /\ R!StaleIsWoken'
  BY <1>1, <1>2, <1>3, <1>5, <1>7, StirsTypes, CountSame, StaleSame
<1> QED BY <1>4, <1>8, <1>9 DEF RunInv

\* brof_destroy wakes all that wait.
LEMMA DestroyedStirs ==
  ASSUME RunAssumption, AtTypes, NEW t \in R!Threads, NEW f, FrameOk(t, f), NEW o,
         at[t].pc # "waiting", at' = R!Destroyed(o, [at EXCEPT ![t] = f])
  PROVE  Stirs(t, f)
<1> DEFINE threads == [at EXCEPT ![t] = f]
<1>1. threads[t] = f /\ \A q \in R!Threads \ {t} : threads[q] = at[q]
  BY DEF AtTypes
<1>2. \A q \in R!Waiters(o) : q \in R!Threads /\ q # t /\ at[q].pc = "waiting"
  BY DEF R!Waiters, R!Pc
<1> HIDE DEF threads
<1>3. at' = [q \in R!Threads |-> IF o \in Funcs /\ q \in R!Waiters(o)
                                 THEN [threads[q] EXCEPT !.pc = "again"] ELSE threads[q]]
  BY DEF R!Destroyed, threads
<1>4. at'[t] = f
  BY <1>1, <1>2, <1>3
<1>5. ASSUME NEW q \in R!Threads \ {t} PROVE at'[q] = at[q] \/ Wakes(q)
  <2>1. threads[q] = at[q]
    BY <1>1
  <2>2. CASE o \in Funcs /\ q \in R!Waiters(o)
    <3>1. at'[q] = [at[q] EXCEPT !.pc = "again"]
      BY <1>3, <2>1, <2>2
    <3> QED BY <3>1, <2>2, <1>2 DEF Wakes
  <2>3. CASE ~(o \in Funcs /\ q \in R!Waiters(o))
    BY <1>3, <2>1, <2>3
  <2> QED BY <2>2, <2>3
<1> QED BY <1>3, <1>4, <1>5 DEF Stirs

\* The function removes what it serves, and stays in it or tells the handler so.
LEMMA ServeRemovesStep ==
  ASSUME RunAssumption, RunInv, NEW r \in Runners, R!ServeRemoves(r) PROVE RunInv'
<1> DEFINE f == IF at[r].obj \in Fds THEN [at[r] EXCEPT !.pc = "closing"] ELSE at[r]
<1>1. r \in R!Threads /\ at[r].pc = "in" /\ r \notin Users
  BY DEF R!ServeRemoves, R!Pc, R!Threads, RunAssumption
<1>2. /\ present' \subseteq present /\ userid' = userid /\ raised' = raised
      /\ wanted' \subseteq wanted
      /\ selectcount' = selectcount /\ wakes' = wakes /\ event' = event
      /\ stolen' = stolen
  BY DEF R!ServeRemoves, R!waking, R!queues
<1>3. AtTypes /\ Counted /\ Locks /\ R!StaleIsWoken /\ RunTypes
      /\ FrameOk(r, at[r]) /\ at[r] \in Frame
  BY <1>1 DEF RunInv, AtTypes
<1>4. RunTypes'
  BY <1>2, <1>3 DEF RunTypes, R!Obj, R!NoOne
<1>5. /\ FrameOk(r, f) /\ f.pc \in {"in", "closing"}
      /\ f.obj = at[r].obj /\ f.old = at[r].old
  <2>1. [at[r] EXCEPT !.pc = "closing"] \in Frame
    BY <1>3 DEF Frame, RunnerPcs
  <2>2. /\ [at[r] EXCEPT !.pc = "closing"].pc = "closing"
        /\ [at[r] EXCEPT !.pc = "closing"].obj = at[r].obj
        /\ [at[r] EXCEPT !.pc = "closing"].old = at[r].old
    BY <1>3 DEF Frame
  <2>3. FrameOk(r, [at[r] EXCEPT !.pc = "closing"])
    BY <1>1, <1>3, <2>1, <2>2 DEF FrameOk, RunnerPcs, InFunction
  <2> QED BY <1>1, <1>3, <2>2, <2>3
<1>6. at' = R!Destroyed(at[r].obj, [at EXCEPT ![r] = f])
  <2>1. at = [at EXCEPT ![r] = at[r]]
    BY <1>3, <1>1 DEF AtTypes
  <2>2. [at EXCEPT ![r].pc = "closing"] = [at EXCEPT ![r] = [at[r] EXCEPT !.pc = "closing"]]
    BY <1>3, <1>1 DEF AtTypes
  <2> QED BY <2>1, <2>2 DEF R!ServeRemoves
<1> HIDE DEF f
<1>7. Stirs(r, f)
  BY <1>1, <1>3, <1>5, <1>6, DestroyedStirs
<1>8. Locks'
  BY <1>1, <1>2, <1>3, <1>5, <1>7, LocksInside DEF InFunction
<1>9. AtTypes' /\ Counted' /\ R!StaleIsWoken'
  BY <1>1, <1>2, <1>3, <1>5, <1>7, StirsTypes, CountSame, StaleSame
<1> QED BY <1>4, <1>8, <1>9 DEF RunInv

\* The handler is told of the close of its descriptor, and goes on.
LEMMA ToldInsideStep ==
  ASSUME RunAssumption, RunInv, NEW r \in Runners, R!CloseTold(r) PROVE RunInv'
<1> DEFINE g == [at[r] EXCEPT !.pc = "in"]
<1>1. r \in R!Threads /\ at[r].pc = "closing" /\ r \notin Users
  BY DEF R!CloseTold, R!Pc, R!Threads, RunAssumption
<1>2. /\ present' = present /\ userid' = userid /\ raised' = raised
      /\ wanted' \subseteq wanted
      /\ selectcount' = selectcount /\ wakes' = wakes /\ event' = event
      /\ stolen' = stolen
  BY DEF R!CloseTold, R!waking, R!queues
<1>3. AtTypes /\ Counted /\ Locks /\ R!StaleIsWoken /\ RunTypes
      /\ at[r] \in Frame /\ at[r].obj \in R!Obj
  BY <1>1 DEF RunInv, AtTypes, FrameOk, InFunction
<1>4. RunTypes'
  BY <1>2, <1>3 DEF RunTypes, R!Obj, R!NoOne
<1>5. FrameOk(r, g) /\ g.pc = "in" /\ g.obj = at[r].obj /\ g.old = at[r].old
  BY <1>1, <1>3 DEF FrameOk, Frame, RunnerPcs, UserPcs, InFunction
<1>6. at' = [at EXCEPT ![r] = g]
  BY DEF R!CloseTold, R!Go, R!Set
<1> HIDE DEF g
<1>7. Stirs(r, g)
  BY <1>1, <1>3, <1>5, <1>6, MovesStirs
<1>8. Locks'
  BY <1>1, <1>2, <1>3, <1>5, <1>7, LocksInside DEF InFunction
<1>9. AtTypes' /\ Counted' /\ R!StaleIsWoken'
  BY <1>1, <1>2, <1>3, <1>5, <1>7, StirsTypes, CountSame, StaleSame
<1> QED BY <1>4, <1>8, <1>9 DEF RunInv

\* The soft lock is let go, if the number is registered; whose it was is known.
LEMMA ServedStep ==
  ASSUME RunAssumption, RunInv, NEW r \in Runners, R!Served(r) PROVE RunInv'
<1> DEFINE o == at[r].obj
           back == [at[r] EXCEPT !.pc = IF o \in Funcs THEN "demand" ELSE "fds",
                                 !.obj = R!NoOne, !.old = FALSE]
<1>1. r \in R!Threads /\ at[r].pc = "served" /\ r \notin Users
  BY DEF R!Served, R!Pc, R!Threads, RunAssumption
<1>2. /\ present' = present /\ raised' = raised /\ wanted' = wanted
      /\ selectcount' = selectcount /\ wakes' = wakes /\ event' = event
      /\ userid' = IF o \in present THEN [userid EXCEPT ![o] = R!NoOne] ELSE userid
      /\ stolen' = IF o \in present /\ ~R!Unused(o, r) THEN stolen \cup {o} ELSE stolen
  BY DEF R!Served, R!waking, R!queues
<1>3. AtTypes /\ Counted /\ Locks /\ R!StaleIsWoken /\ RunTypes
      /\ at[r] \in Frame /\ o \in R!Obj
  BY <1>1 DEF RunInv, AtTypes, FrameOk, InFunction
<1>4. RunTypes'
  <2>1. userid' \in [R!Obj -> Runners \cup {R!NoOne}]
    BY <1>2, <1>3 DEF RunTypes
  <2>2. /\ present' = present /\ raised' = raised /\ wanted' = wanted
        /\ selectcount' = selectcount /\ wakes' = wakes /\ event' = event
    BY <1>2
  <2> QED BY <2>1, <2>2, <1>3 DEF RunTypes, R!Obj, R!NoOne
<1>5. FrameOk(r, back) /\ back.pc \in {"demand", "fds"}
  BY <1>1, <1>3 DEF FrameOk, Frame, RunnerPcs, UserPcs, InFunction
<1>6. at' = [at EXCEPT ![r] = back]
      \/ \E t \in R!Waiters(o) : at' = [at EXCEPT ![r] = back, ![t].pc = "again"]
  BY DEF R!Served, R!Set
<1> HIDE DEF back
<1>7. Stirs(r, back)
  <2>1. CASE at' = [at EXCEPT ![r] = back]
    BY <2>1, <1>1, <1>3, <1>5, MovesStirs
  <2>2. ASSUME NEW t \in R!Waiters(o), at' = [at EXCEPT ![r] = back, ![t].pc = "again"]
        PROVE Stirs(r, back)
    <3>1. t \in R!Threads /\ t # r /\ at[t].pc = "waiting"
      BY <1>1 DEF R!Waiters, R!Pc
    <3>2. /\ at' = [q \in R!Threads |-> at'[q]] /\ at'[r] = back
          /\ at'[t] = [at[t] EXCEPT !.pc = "again"]
          /\ \A q \in R!Threads \ {r, t} : at'[q] = at[q]
      BY <2>2, <3>1, <1>1, <1>3 DEF AtTypes
    <3> QED BY <3>1, <3>2, <1>5 DEF Stirs, Wakes
  <2> QED BY <1>6, <2>1, <2>2
<1>8. AtTypes' /\ Counted' /\ R!StaleIsWoken'
  BY <1>1, <1>2, <1>3, <1>5, <1>7, StirsTypes, CountSame, StaleSame
<1>9. \A q, p : Serving(q, p)' => Serving(q, p) /\ q # r
  BY <1>1, <1>3, <1>5, <1>7, WokenPlaces DEF Serving, Stirs, R!Threads, InFunction
<1>10. \A u, p : Closing(u, p)' => Closing(u, p)
  BY <1>1, <1>3, <1>5, <1>7, WokenPlaces DEF Closing, Stirs, R!Threads
<1>11. SoftLocked'
  <2>1. o \notin stolen /\ R!Unused(o, r) => \A q \in Runners \ {r} : ~Serving(q, o)
    BY <1>1, <1>3 DEF Locks, SoftLocked, RunAssumption, R!Unused, R!Threads
  <2>2. \A p \in R!Obj : p # o => userid'[p] = userid[p]
    BY <1>2, <1>3 DEF RunTypes
  <2>3. stolen \subseteq stolen' /\ (o \notin present => userid' = userid)
        /\ (o \in present /\ o \notin stolen' => o \notin stolen /\ R!Unused(o, r))
    BY <1>2
  <2> HIDE DEF o
  <2> QED BY <1>3, <1>9, <2>1, <2>2, <2>3 DEF Locks, SoftLocked, R!Obj
<1>12. ClosedAlone'
  <2>1. stolen \subseteq stolen'
    BY <1>2
  <2> QED BY <2>1, <1>2, <1>3, <1>9, <1>10 DEF Locks, ClosedAlone, R!Obj
<1> QED BY <1>4, <1>8, <1>11, <1>12 DEF RunInv, Locks

\* The users' calls that move no thread.  What they change wakes who sleeps over it.
LEMMA StayStep ==
  ASSUME RunAssumption, RunInv, UNCHANGED <<at, present, userid, selectcount, stolen>>,
         \/ wanted' \subseteq wanted /\ wakes' = wakes
         \/ wanted' \subseteq R!Obj /\ wakes' = R!Woken,
         raised' \subseteq R!Obj, event' \in BOOLEAN
  PROVE  RunInv'
<1>1. AtTypes /\ Counted /\ Locks /\ R!StaleIsWoken /\ RunTypes
  BY DEF RunInv
<1>2. AtTypes'
  BY <1>1 DEF AtTypes, FrameOk, Frame, R!Threads, R!Obj, R!NoOne
<1>3. Locks'
  BY <1>1 DEF Locks, SoftLocked, ClosedAlone, Serving, Closing, R!Obj
<1>4. Selecting' = Selecting
  BY DEF Selecting
<1>5. Counted'
  BY <1>1, <1>4 DEF Counted
<1>6. R!Woken \in Nat /\ (Selecting # {} => R!Woken > 0)
  BY WokenWakes
<1>7. RunTypes'
  <2>1. wakes' \in Nat /\ wanted' \subseteq R!Obj
    BY <1>1, <1>6 DEF RunTypes
  <2> QED BY <2>1, <1>1 DEF RunTypes, R!Obj, R!NoOne
<1>8. R!StaleIsWoken'
  <2>1. CASE wanted' \subseteq wanted /\ wakes' = wakes
    BY <2>1, <1>1 DEF R!StaleIsWoken, R!Pc
  <2>2. CASE wakes' = R!Woken
    BY <2>2, <1>6, <1>4 DEF R!StaleIsWoken, R!Pc, Selecting
  <2> QED BY <2>1, <2>2
<1> QED BY <1>2, <1>3, <1>5, <1>7, <1>8 DEF RunInv

\* bk_run_setpref and its like
LEMMA CallsStep ==
  ASSUME RunAssumption, RunInv, NEW u \in Users,
         R!Enqueue(u) \/ R!SetRunOver(u) \/ (\E d \in Fds : R!Setpref(u, d))
         \/ (\E o \in R!Obj : R!Raise(o))
  PROVE  RunInv'
<1>1. RunTypes
  BY DEF RunInv
<1>2. UNCHANGED <<at, present, userid, selectcount, stolen>>
  BY DEF R!Enqueue, R!SetRunOver, R!Setpref, R!Raise, R!objects, R!waking, R!queues
<1>3. raised' \subseteq R!Obj
  BY <1>1 DEF R!Enqueue, R!SetRunOver, R!Setpref, R!Raise, R!objects, RunTypes
<1>4. event' \in BOOLEAN
  BY <1>1 DEF R!Enqueue, R!SetRunOver, R!Setpref, R!Raise, R!queues, RunTypes
<1>5. \/ wanted' \subseteq wanted /\ wakes' = wakes
      \/ wanted' \subseteq R!Obj /\ wakes' = R!Woken
  <2>1. CASE R!Enqueue(u) \/ R!SetRunOver(u)
    BY <2>1, <1>1 DEF R!Enqueue, R!SetRunOver, R!objects, RunTypes
  <2>2. CASE \E d \in Fds : R!Setpref(u, d)
    BY <2>2, <1>1 DEF R!Setpref, R!WokenBySetpref, RunTypes, R!Obj
  <2>3. CASE \E o \in R!Obj : R!Raise(o)
    BY <2>3 DEF R!Raise, R!waking
  <2> QED BY <2>1, <2>2, <2>3
<1> QED BY <1>2, <1>3, <1>4, <1>5, StayStep

\* Input arrives without a user, too.
LEMMA RaiseStep == ASSUME RunAssumption, RunInv, NEW o \in R!Obj, R!Raise(o) PROVE RunInv'
<1>1. raised' \subseteq R!Obj /\ event' \in BOOLEAN /\ wanted' = wanted /\ wakes' = wakes
  BY DEF R!Raise, RunInv, RunTypes, R!waking, R!queues
<1>2. UNCHANGED <<at, present, userid, selectcount, stolen>>
  BY DEF R!Raise, R!waking
<1> QED BY <1>1, <1>2, StayStep

\* Waiting for the condition, and telling the handler
LEMMA UserAt ==
  ASSUME RunAssumption, RunInv, NEW u \in Users
  PROVE  /\ AtTypes /\ u \in R!Threads /\ u \notin Runners /\ at[u] \in Frame
         /\ FrameOk(u, R!Home(u)) /\ R!Home(u).pc = "user"
         /\ at[u].pc # "select" /\ at[u].pc \in UserPcs
<1>1. AtTypes /\ u \in R!Threads /\ u \notin Runners
  BY DEF RunInv, R!Threads, RunAssumption
<1>2. at[u] \in Frame /\ at[u].pc \in UserPcs
  BY <1>1 DEF AtTypes, FrameOk
<1>3. FrameOk(u, R!Home(u)) /\ R!Home(u).pc = "user"
  BY <1>1 DEF FrameOk, Frame, R!Home, UserPcs, InFunction
<1> QED BY <1>1, <1>2, <1>3 DEF UserPcs

\* A user goes to wait, or comes back from telling the handler.
LEMMA WaitStep ==
  ASSUME RunAssumption, RunInv, NEW u \in Users, R!Waits(u) \/ R!CloseTold(u) PROVE RunInv'
<1>1. /\ present' = present /\ userid' = userid /\ raised' = raised
      /\ wanted' \subseteq wanted
      /\ selectcount' = selectcount /\ wakes' = wakes /\ event' = event
      /\ stolen' = stolen
  BY DEF R!Waits, R!CloseTold, R!objects, R!waking, R!queues
<1>2. RunTypes'
  BY <1>1 DEF RunInv, RunTypes, R!Obj, R!NoOne
<1> DEFINE g == [at[u] EXCEPT !.pc = "waiting"]
<1>3. FrameOk(u, g) /\ g.pc = "waiting"
  BY UserAt DEF FrameOk, Frame, UserPcs, InFunction
<1>4. at' = [at EXCEPT ![u] = g] \/ at' = [at EXCEPT ![u] = R!Home(u)]
  BY UserAt DEF R!Waits, R!CloseTold, R!Go, R!Set
<1> HIDE DEF g
<1>5. Stirs(u, g) \/ Stirs(u, R!Home(u))
  BY <1>3, <1>4, UserAt, MovesStirs
<1>6. wakes > 0 => wakes' > 0
  BY <1>1
<1> QED BY <1>1, <1>2, <1>3, <1>5, <1>6, UserAt, QuietStep DEF InFunction

\* The object is there: only when nobody is in its function is it taken away.
LEMMA UnusedAlone ==
  ASSUME RunAssumption, RunInv, NEW u \in Users, NEW o \in R!Obj \ stolen,
         R!Unused(o, u)
  PROVE  \A r \in Runners : ~Serving(r, o)
BY DEF R!Unused, RunInv, Locks, SoftLocked, RunAssumption, R!Threads

\* bk_run_close and bk_run_on_demand_remove
LEMMA RemoveStep ==
  ASSUME RunAssumption, RunInv, NEW u \in Users, NEW o \in R!Obj, R!Remove(u, o) PROVE RunInv'
<1>1. /\ present' \subseteq present /\ userid' = userid /\ raised' = raised
      /\ wanted' = wanted
      /\ selectcount' = selectcount /\ wakes' = wakes /\ event' = event
      /\ stolen' = stolen
  BY DEF R!Remove, R!waking, R!queues
<1>2. AtTypes /\ Counted /\ Locks /\ R!StaleIsWoken /\ RunTypes
  BY DEF RunInv
<1>3. RunTypes'
  BY <1>1, <1>2 DEF RunTypes, R!Obj, R!NoOne
<1>4. wakes > 0 => wakes' > 0
  BY <1>1
<1>5. at[u].pc \in {"user", "again"}
  BY DEF R!Remove, R!May, R!Pc
<1>6. CASE /\ o \in present /\ ~R!Unused(o, u)
           /\ at' = [at EXCEPT ![u] = [at[u] EXCEPT !.pc = "busy", !.obj = o, !.old = FALSE]]
  <2> DEFINE g == [at[u] EXCEPT !.pc = "busy", !.obj = o, !.old = FALSE]
  <2>1. FrameOk(u, g) /\ g.pc = "busy"
    BY UserAt DEF FrameOk, Frame, UserPcs, InFunction
  <2>2. at' = [at EXCEPT ![u] = g]
    BY <1>6
  <2> HIDE DEF g
  <2>3. Stirs(u, g)
    BY <2>1, <2>2, UserAt, MovesStirs
  <2> QED BY <1>1, <1>3, <1>4, <2>1, <2>3, UserAt, QuietStep DEF InFunction
<1>7. CASE /\ o \notin Fds \cap present
           /\ at' = R!Destroyed(o, [at EXCEPT ![u] = R!Home(u)])
  <2>1. Stirs(u, R!Home(u))
    BY <1>5, <1>7, UserAt, DestroyedStirs
  <2> QED BY <1>1, <1>3, <1>4, <2>1, UserAt, QuietStep DEF InFunction
<1>8. CASE /\ o \in Fds \cap present /\ R!Unused(o, u) /\ present' = present \ {o}
           /\ at' = R!Destroyed(o, [at EXCEPT ![u] = [R!Home(u) EXCEPT !.pc = "closing",
                                                                       !.obj = o]])
  <2> DEFINE g == [R!Home(u) EXCEPT !.pc = "closing", !.obj = o]
  <2>1. FrameOk(u, g) /\ g.pc = "closing" /\ g.obj = o
    BY UserAt DEF FrameOk, Frame, UserPcs, InFunction, R!Home
  <2>2. at' = R!Destroyed(o, [at EXCEPT ![u] = g])
    BY <1>8
  <2> HIDE DEF g
  <2>3. Stirs(u, g)
    BY <1>5, <2>1, <2>2, UserAt, DestroyedStirs
  <2>4. AtTypes' /\ Counted' /\ R!StaleIsWoken'
    BY <1>1, <1>2, <1>4, <2>1, <2>3, UserAt, StirsTypes, CountSame, StaleSame
  <2>5. \A q, p : Serving(q, p)' => Serving(q, p)
    BY <1>2, <2>1, <2>3, UserAt, WokenPlaces DEF Serving, Stirs, R!Threads, InFunction
  <2>6. \A v, p : Closing(v, p)' => Closing(v, p) \/ (v = u /\ p = o)
    BY <1>2, <2>1, <2>3, UserAt, WokenPlaces DEF Closing, Stirs, R!Threads
  <2>7. o \notin stolen => \A r \in Runners : ~Serving(r, o)
    BY <1>8, UnusedAlone
  <2>8. \A v \in Users : ~Closing(v, o)
    BY <1>2, <1>8 DEF Locks, ClosedAlone
  <2>9. \A p : ~Closing(u, p)
    BY <1>5 DEF Closing
  <2>10. SoftLocked'
    BY <1>1, <1>2, <2>5 DEF Locks, SoftLocked, R!Obj
  <2>11. ClosedAlone'
    <3> SUFFICES ASSUME NEW v \in Users, NEW p \in R!Obj, Closing(v, p)'
                 PROVE  /\ p \notin present'
                        /\ \A w \in Users : Closing(w, p)' => w = v
                        /\ p \notin stolen => \A r \in Runners : ~Serving(r, p)'
      BY <1>1 DEF ClosedAlone, R!Obj
    <3>1. CASE p = o
      BY <3>1, <1>8, <2>5, <2>6, <2>7, <2>8
    <3>2. CASE p # o
      BY <3>2, <1>1, <1>2, <2>5, <2>6 DEF Locks, ClosedAlone
    <3> QED BY <3>1, <3>2
  <2> QED BY <1>3, <2>4, <2>10, <2>11 DEF RunInv, Locks
<1>9. QED
  <2>1. CASE o \in present /\ ~R!Unused(o, u)
    BY <2>1, <1>6 DEF R!Remove, R!Set
  <2>2. CASE ~(o \in present /\ ~R!Unused(o, u)) /\ o \notin Fds \cap present
    BY <2>2, <1>7 DEF R!Remove
  <2>3. CASE R!Unused(o, u) /\ o \in Fds \cap present
    BY <2>3, <1>8 DEF R!Remove
  <2> QED BY <2>1, <2>2, <2>3

\* What the number was before nobody waits for or closes any more.
LEMMA RegisterStep ==
  ASSUME RunAssumption, RunInv, NEW t \in R!Threads, NEW d \in Fds, R!Register(t, d)
  PROVE  RunInv'
<1>1. AtTypes /\ Counted /\ Locks /\ R!StaleIsWoken /\ RunTypes
  BY DEF RunInv
<1>2. /\ present' = present \cup {d} /\ raised' \subseteq raised /\ wanted' = wanted
      /\ selectcount' = selectcount /\ wakes' = wakes /\ event' = event
      /\ stolen' = stolen \ {d} /\ userid' = [userid EXCEPT ![d] = R!NoOne]
  BY DEF R!Register, R!waking, R!queues
<1>3. d \in R!Obj
  BY DEF R!Obj
<1>4. RunTypes'
  <2>1. userid' \in [R!Obj -> Runners \cup {R!NoOne}]
    BY <1>1, <1>2 DEF RunTypes
  <2>2. present' \subseteq R!Obj /\ raised' \subseteq R!Obj
    BY <1>1, <1>2, <1>3 DEF RunTypes
  <2> QED BY <1>1, <1>2, <2>1, <2>2 DEF RunTypes, R!Obj, R!NoOne
<1>5. at' = [q \in R!Threads |-> [at[q] EXCEPT !.old = @ \/ at[q].obj = d]]
  BY DEF R!Register
<1>6. ASSUME NEW q \in R!Threads
      PROVE  /\ FrameOk(q, at'[q])
             /\ at'[q].pc = at[q].pc /\ at'[q].obj = at[q].obj /\ at'[q].copy = at[q].copy
             /\ at'[q].old = (at[q].old \/ at[q].obj = d)
  <2>1. at[q] \in Frame /\ FrameOk(q, at[q])
    BY <1>1 DEF AtTypes
  <2>2. at'[q] = [at[q] EXCEPT !.old = @ \/ at[q].obj = d]
    BY <1>5
  <2>3. /\ at'[q] \in Frame /\ at'[q].pc = at[q].pc /\ at'[q].obj = at[q].obj
        /\ at'[q].copy = at[q].copy /\ at'[q].old = (at[q].old \/ at[q].obj = d)
    BY <2>1, <2>2 DEF Frame
  <2> QED BY <2>1, <2>3 DEF FrameOk
<1>7. AtTypes'
  <2>1. at' \in [R!Threads -> Frame]
    BY <1>5, <1>6 DEF FrameOk
  <2>2. \A q \in R!Threads : FrameOk(q, at'[q]) => FrameOk(q, at[q])'
    BY DEF FrameOk, Frame, R!Obj, R!NoOne
  <2> QED BY <1>6, <2>1, <2>2 DEF AtTypes, R!Threads, Frame, R!Obj, R!NoOne
<1>8. \A q \in Runners : \A o : Serving(q, o)' => Serving(q, o) /\ o # d
  BY <1>6 DEF Serving, R!Threads
<1>9. \A u \in Users : \A o : Closing(u, o)' => Closing(u, o) /\ o # d
  BY <1>6 DEF Closing, R!Threads
<1>10. SoftLocked'
  <2>1. \A o \in R!Obj : o # d => userid'[o] = userid[o]
    BY <1>1, <1>2 DEF RunTypes
  <2> QED BY <1>1, <1>2, <1>8, <2>1 DEF Locks, SoftLocked, R!Obj
<1>11. ClosedAlone'
  BY <1>1, <1>2, <1>8, <1>9 DEF Locks, ClosedAlone, R!Obj
<1>12. Selecting' = Selecting
  BY <1>6 DEF Selecting, R!Threads
<1>13. Counted'
  BY <1>1, <1>2, <1>12 DEF Counted
<1>14. R!StaleIsWoken'
  BY <1>1, <1>2, <1>6 DEF R!StaleIsWoken, R!Pc, R!Threads
<1> QED BY <1>4, <1>7, <1>10, <1>11, <1>13, <1>14 DEF RunInv, Locks

\* Every step
LEMMA RunStep == RunAssumption /\ RunInv /\ [R!Next]_(R!rtvars) => RunInv'
<1> SUFFICES ASSUME RunAssumption, RunInv, [R!Next]_(R!rtvars) PROVE RunInv'
  OBVIOUS
<1>1. ASSUME NEW r \in Runners, R!Runs(r) PROVE RunInv'
  <2>1. ASSUME NEW f \in Funcs, R!Demand(r, f) PROVE RunInv'
    BY <2>1, ServeStep DEF R!Demand, R!Obj
  <2>2. ASSUME NEW d \in Fds, R!Activity(r, d) PROVE RunInv'
    BY <2>2, ServeStep DEF R!Activity, R!Obj
  <2> QED BY <1>1, <2>1, <2>2, BeginStep, ServeEndsStep, ServedStep, EventsStep, EnterStep,
             LeaveStep, DiscardStep, EndStep, ToldInsideStep DEF R!Runs
<1>2. ASSUME NEW u \in Users, R!Enqueue(u) \/ R!SetRunOver(u) \/ \E d \in Fds : R!Setpref(u, d)
      PROVE RunInv'
  BY <1>2, CallsStep
<1>3. CASE UNCHANGED R!rtvars
  <2>1. /\ UNCHANGED <<at, present, userid, selectcount, stolen>> /\ wanted' \subseteq wanted
        /\ wakes' = wakes /\ raised' \subseteq R!Obj /\ event' \in BOOLEAN
    BY <1>3 DEF R!rtvars, RunInv, RunTypes
  <2> QED BY <2>1, StayStep
<1> QED BY <1>1, <1>2, <1>3, ServeRemovesStep, RemoveStep, WaitStep, RaiseStep,
          RegisterStep DEF R!Next

\* At first nobody is anywhere.
LEMMA RunBegins == RunAssumption /\ R!Init => RunInv
<1> SUFFICES ASSUME RunAssumption, R!Init PROVE RunInv
  OBVIOUS
<1>1. \A t \in R!Threads : at[t] = R!Home(t)
  BY DEF R!Init
<1>2. \A t \in R!Threads : FrameOk(t, R!Home(t)) /\ R!Home(t).pc \in {"run", "user"}
  BY DEF R!Home, FrameOk, Frame, RunnerPcs, UserPcs, InFunction, R!Threads, RunAssumption
<1>3. AtTypes
  BY <1>1, <1>2 DEF AtTypes, R!Init, FrameOk
<1>4. RunTypes
  <2>1. event \in BOOLEAN
    BY DEF R!Init
  <2>2. /\ present = R!Obj /\ userid = [o \in R!Obj |-> R!NoOne] /\ raised = {} /\ wanted = {}
        /\ selectcount = 0 /\ wakes = 0
    BY DEF R!Init
  <2> QED BY <2>1, <2>2 DEF RunTypes
<1>5. Locks
  BY <1>1, <1>2 DEF Locks, SoftLocked, ClosedAlone, Serving, Closing, R!Threads, InFunction
<1>6. Selecting = {}
  BY <1>1, <1>2 DEF Selecting, R!Threads
<1>7. Counted
  BY <1>6, FS_EmptySet DEF Counted, R!Init
<1>8. R!StaleIsWoken
  BY <1>6 DEF R!StaleIsWoken, Selecting, R!Pc
<1> QED BY <1>3, <1>4, <1>5, <1>7, <1>8 DEF RunInv

\* The function of one object has one thread in it.
LEMMA Alone == RunAssumption /\ RunInv => R!OneAtATime
<1> SUFFICES ASSUME RunAssumption, RunInv, NEW o \in R!Obj \ stolen
             PROVE  R!Cardinality({t \in R!Threads : R!In(t, o)}) <= 1
  BY DEF R!OneAtATime
<1> DEFINE S == {t \in R!Threads : R!In(t, o)}
<1>1. \A t \in S : Serving(t, o) \/ Closing(t, o)
  BY DEF R!In, RunInv, AtTypes, FrameOk, Serving, Closing, R!Threads, RunnerPcs, UserPcs, InFunction
<1>2. \A r, q : Serving(r, o) /\ Serving(q, o) => r = q
  BY DEF Serving, RunInv, Locks, SoftLocked
<1>3. \A r, q : Closing(r, o) => ~Serving(q, o)
  BY DEF Serving, Closing, RunInv, Locks, ClosedAlone
<1>4. \A r, q : Closing(r, o) /\ Closing(q, o) => r = q
  BY DEF Closing, RunInv, Locks, ClosedAlone
<1>5. \A r, q \in S : r = q
  BY <1>1, <1>2, <1>3, <1>4
<1>6. S = {} \/ \E t \in S : S = {t}
  BY <1>5
<1> HIDE DEF S
<1>7. Cardinality(S) <= 1
  <2>1. Cardinality({}) = 0
    BY FS_EmptySet
  <2>2. \A t \in S : Cardinality({t}) = 1
    BY FS_Singleton
  <2> QED BY <1>6, <2>1, <2>2
<1> QED BY <1>7, RunCounts DEF S

\* The soft locks, the count and the bytes agree with where each thread is.
THEOREM RunThreadsInductive == RunAssumption => (R!Spec => []RunInv)
<1> SUFFICES ASSUME RunAssumption PROVE R!Spec => []RunInv
  OBVIOUS
<1>1. R!Init => RunInv
  BY RunBegins
<1>2. RunInv /\ [R!Next]_(R!rtvars) => RunInv'
  BY RunStep
<1> QED BY <1>1, <1>2, PTL DEF R!Spec

\* No two threads are in the function of one object, whatever is registered anew, unless
\* a runner has given back the soft lock of another.
THEOREM OneAtATimeHolds == RunAssumption => (R!Spec => []R!OneAtATime)
<1> SUFFICES ASSUME RunAssumption PROVE R!Spec => []R!OneAtATime
  OBVIOUS
<1>1. RunInv => R!OneAtATime
  BY Alone
<1>2. R!Spec => []RunInv
  BY RunThreadsInductive
<1> QED BY <1>1, <1>2, PTL

\* No runner sleeps over a descriptor it knows nothing of without a byte to wake it.
THEOREM StaleIsWokenHolds == RunAssumption => (R!Spec => []R!StaleIsWoken)
<1>1. RunInv => R!StaleIsWoken
  BY DEF RunInv
<1> QED BY <1>1, RunThreadsInductive, PTL

\* Who removes an object finds no other in its function.
THEOREM GoneWhenRemovedHolds == RunAssumption => (R!Spec => R!GoneWhenRemoved)
<1> SUFFICES ASSUME RunAssumption PROVE R!Spec => R!GoneWhenRemoved
  OBVIOUS
<1>1. RunInv /\ [R!Next]_(R!rtvars) => [R!RemovedAlone]_(R!rtvars)
  <2> SUFFICES ASSUME RunInv, NEW u \in Users, NEW o \in R!Obj, R!Remove(u, o),
                      o \in (present \ present') \ stolen, NEW r \in Runners
               PROVE  ~R!In(r, o)
    BY DEF R!RemovedAlone
  <2>1. R!Unused(o, u)
    BY DEF R!Remove
  <2>2. ~Serving(r, o)
    BY <2>1, UnusedAlone
  <2>3. at[r].pc \in RunnerPcs
    BY DEF RunInv, AtTypes, FrameOk, R!Threads
  <2> QED BY <2>2, <2>3 DEF R!In, Serving, RunnerPcs, InFunction
<1>2. R!Spec => []RunInv
  BY RunThreadsInductive
<1> QED BY <1>1, <1>2, PTL DEF R!Spec, R!GoneWhenRemoved
-----------------------------------------------------------------------------
(* Cancelling descriptors                                                  *)

Bfc == [fd : CancelFds, id : Int, want : SUBSET B!How, is : SUBSET B!How]
CancelPcs == {"idle", "found", "record", "recorded", "flags", "flagged"}
Canceller == [pc : CancelPcs, bfc : Int, how : SUBSET B!How, want : SUBSET B!How,
              is : SUBSET B!How]

CancelTypes ==
  /\ bfcs \subseteq Bfc /\ registered \in Int /\ registered >= 0
  /\ admin \in [Administrators -> Canceller]
  /\ runFlags \subseteq B!How /\ other.is \subseteq B!How

\* An id is one bfc's, and who holds on to an old one will not meet it again.
Numbered ==
  /\ \A b \in bfcs : b.id <= registered
  /\ \A b, c \in bfcs : b.id = c.id \/ b.fd = c.fd => b = c
  /\ \A a \in Administrators : admin[a].bfc <= registered

\* That this was done to the bfc is known, or about to be.
Telling(a, b, h) == admin[a].pc \in {"flags", "flagged"} /\ admin[a].bfc = b.id /\ h \in admin[a].how
Known(b, h) ==
  \/ [fd |-> b.fd, how |-> h] \in isCancelled
  \/ \E a \in Administrators : Telling(a, b, h)

\* What a bfc says was done to it was, and so was what administrators have read of it.
Done == \A b \in bfcs : \A h \in b.is : Known(b, h)
Copied ==
  \A a \in Administrators, b \in bfcs :
    admin[a].pc = "recorded" /\ admin[a].bfc = b.id => \A h \in admin[a].is : Known(b, h)

CancelInv == CancelTypes /\ Numbered /\ Done /\ Copied

\* The search finds the descriptor's own.
LEMMA FoundOf == \A fd : B!Of(fd) # {} => B!Found(fd) \in bfcs /\ B!Found(fd).fd = fd
BY DEF B!Of, B!Found

\* The bfc goes, or wants less than it did.
LEMMA DropStep ==
  ASSUME CancelInv, NEW fd \in CancelFds, NEW how \in SUBSET B!How, B!Drop(fd, how),
         admin' = admin, other' = other, registered' \in {registered, registered + 1}
  PROVE  CancelInv'
<1> DEFINE b == B!Found(fd)
           less == [b EXCEPT !.want = @ \ how]
<1>0. registered \in Int /\ registered' \in Int /\ registered <= registered' /\ registered' >= 0
  BY DEF CancelInv, CancelTypes
<1>1. runFlags' \subseteq B!How
  BY DEF B!Drop, B!FlagsLeft, CancelInv, CancelTypes
<1>2. \A c \in bfcs : c.id \in Int /\ c.id <= registered /\ c.id <= registered'
  <2>1. \A c \in bfcs : c.id \in Int /\ c.id <= registered
    BY DEF CancelInv, CancelTypes, Numbered, Bfc
  <2> QED BY <1>0, <2>1
<1>3. \A a \in Administrators : admin'[a].bfc <= registered'
  <2>1. \A a \in Administrators : admin[a].bfc \in Int /\ admin[a].bfc <= registered
    BY DEF CancelInv, CancelTypes, Numbered, Canceller
  <2> QED BY <1>0, <2>1
<1>4. CASE UNCHANGED <<bfcs, isCancelled>>
  <2>1. CancelTypes'
    BY <1>0, <1>1, <1>4 DEF CancelInv, CancelTypes, Bfc, Canceller, B!How
  <2>2. Numbered'
    BY <1>2, <1>3, <1>4 DEF CancelInv, Numbered
  <2>3. Done' /\ Copied'
    BY <1>4 DEF CancelInv, Done, Copied, Known, Telling
  <2> QED BY <2>1, <2>2, <2>3 DEF CancelInv
<1>5. CASE B!Of(fd) # {} /\ bfcs' = (bfcs \ {b}) \cup {less} /\ isCancelled' = isCancelled
  <2>1. b \in bfcs /\ b \in Bfc
    BY <1>5, FoundOf DEF CancelInv, CancelTypes
  <2>2. less \in Bfc /\ less.fd = b.fd /\ less.id = b.id /\ less.is = b.is
    BY <2>1 DEF Bfc
  <2> HIDE DEF b, less
  <2>3. CancelTypes'
    BY <1>0, <1>1, <1>5, <2>2 DEF CancelInv, CancelTypes, Bfc, Canceller, B!How
  <2>4. Numbered'
    BY <1>2, <1>3, <1>5, <2>1, <2>2 DEF CancelInv, CancelTypes, Numbered, Bfc
  <2>5. Done' /\ Copied'
    BY <1>5, <2>1, <2>2 DEF CancelInv, Done, Copied, Known, Telling
  <2> QED BY <2>3, <2>4, <2>5 DEF CancelInv
<1>6. CASE /\ B!Of(fd) # {} /\ bfcs' = bfcs \ {b}
           /\ isCancelled' = {c \in isCancelled : c.fd # fd}
  <2>1. b \in bfcs /\ b.fd = fd
    BY <1>6, FoundOf
  <2> HIDE DEF b
  <2>2. CancelTypes'
    BY <1>0, <1>1, <1>6 DEF CancelInv, CancelTypes, Bfc, Canceller, B!How
  <2>3. Numbered'
    BY <1>2, <1>3, <1>6 DEF CancelInv, Numbered
  <2>4. \A c \in bfcs' : c.fd # fd
    BY <1>6, <2>1 DEF CancelInv, Numbered
  <2>5. \A c \in bfcs' : \A h : Known(c, h) => Known(c, h)'
    BY <1>6, <2>4 DEF Known, Telling
  <2>6. Done' /\ Copied'
    BY <1>6, <2>5 DEF CancelInv, Done, Copied
  <2> QED BY <2>2, <2>3, <2>6 DEF CancelInv
<1> QED BY <1>4, <1>5, <1>6 DEF B!Drop

\* A registration, first or second
LEMMA RegisteredStep ==
  ASSUME CancelInv, NEW fd \in CancelFds, NEW how \in SUBSET B!How, B!Register(fd, how)
  PROVE  CancelInv'
<1>1. admin' = admin /\ other' = other /\ registered' = registered + 1
  BY DEF B!Register
<1>2. CASE B!Of(fd) # {}
  BY <1>1, <1>2, DropStep DEF B!Register
<1>3. CASE B!Of(fd) = {}
  <2> DEFINE b == [fd |-> fd, id |-> registered + 1, want |-> how, is |-> {}]
  <2>1. bfcs' = bfcs \cup {b} /\ isCancelled' = isCancelled /\ runFlags' = runFlags
    BY <1>3 DEF B!Register
  <2>2. b \in Bfc /\ b.id = registered + 1 /\ b.fd = fd /\ b.is = {}
    BY DEF Bfc, CancelInv, CancelTypes
  <2>3. \A c \in bfcs : c.fd # fd /\ c.id <= registered /\ c.id \in Int
    BY <1>3 DEF B!Of, CancelInv, CancelTypes, Numbered, Bfc
  <2>4. \A a \in Administrators : admin[a].bfc \in Int /\ admin[a].bfc <= registered
    BY DEF CancelInv, CancelTypes, Numbered, Canceller
  <2>5. registered \in Int /\ registered >= 0
    BY DEF CancelInv, CancelTypes
  <2> HIDE DEF b
  <2>6. CancelTypes'
    BY <1>1, <2>1, <2>2, <2>5 DEF CancelInv, CancelTypes, Bfc, Canceller, B!How
  <2>7. Numbered'
    <3>1. \A c \in bfcs' : c.id <= registered'
      BY <1>1, <2>1, <2>2, <2>3, <2>5
    <3>2. \A c, d \in bfcs' : c.id = d.id \/ c.fd = d.fd => c = d
      BY <2>1, <2>2, <2>3, <2>5 DEF CancelInv, Numbered
    <3>3. \A a \in Administrators : admin'[a].bfc <= registered'
      BY <1>1, <2>4, <2>5
    <3> QED BY <3>1, <3>2, <3>3 DEF Numbered
  <2>8. Done'
    BY <1>1, <2>1, <2>2 DEF CancelInv, Done, Known, Telling
  <2>9. Copied'
    <3>1. \A a \in Administrators : admin[a].bfc # b.id
      BY <2>2, <2>4, <2>5
    <3> QED BY <1>1, <2>1, <3>1 DEF CancelInv, Copied, Known, Telling
  <2> QED BY <2>6, <2>7, <2>8, <2>9 DEF CancelInv
<1> QED BY <1>2, <1>3

\* An administrator goes on, and goes on telling what it was about to tell.
LEMMA AdminStep ==
  ASSUME CancelInv, NEW a \in Administrators, NEW f \in Canceller,
         admin' = [admin EXCEPT ![a] = f], UNCHANGED <<bfcs, isCancelled, registered, runFlags, other>>,
         f.bfc <= registered, \A b, h : Telling(a, b, h) => Telling(a, b, h)',
         f.pc = "recorded" => \A b \in bfcs : f.bfc = b.id => \A h \in f.is : Known(b, h)
  PROVE  CancelInv'
<1>1. admin'[a] = f /\ \A c \in Administrators \ {a} : admin'[c] = admin[c]
  BY DEF CancelInv, CancelTypes
<1>2. CancelTypes'
  BY DEF CancelInv, CancelTypes, Bfc, Canceller, B!How
<1>3. Numbered'
  BY <1>1 DEF CancelInv, Numbered
<1>4. \A b, h : Known(b, h) => Known(b, h)'
  BY <1>1 DEF Known, Telling
<1>5. Done' /\ Copied'
  BY <1>1, <1>4 DEF CancelInv, Done, Copied
<1> QED BY <1>2, <1>3, <1>5 DEF CancelInv

\* It finds a bfc, looks at what is wanted, reads flags, or holds on to what is gone.
LEMMA CancelReads ==
  ASSUME CancelInv, NEW a \in Administrators,
         \/ \E fd \in CancelFds, h \in B!How : B!Cancel(a, fd, {h})
         \/ B!CancelsWild(a) \/ B!CancelTests(a) \/ B!RecordReads(a) \/ B!FlagsRead(a)
  PROVE  CancelInv'
<1>1. /\ admin[a] \in Canceller /\ admin[a].bfc <= registered
      /\ registered \in Int /\ registered >= 0
  BY DEF CancelInv, CancelTypes, Numbered
<1>2. B!Idle \in Canceller /\ B!Idle.bfc <= registered /\ B!Idle.pc = "idle"
  BY <1>1 DEF B!Idle, Canceller, CancelPcs
<1>3. ASSUME NEW fd \in CancelFds, NEW h \in B!How, B!Cancel(a, fd, {h}) PROVE CancelInv'
  <2> DEFINE f == [B!Idle EXCEPT !.pc = "found", !.bfc = B!Found(fd).id, !.how = {h}]
  <2>0. B!Found(fd) \in bfcs
    BY <1>3, FoundOf DEF B!Cancel
  <2>1. B!Found(fd).id \in Int /\ B!Found(fd).id <= registered
    BY <2>0 DEF CancelInv, CancelTypes, Numbered, Bfc
  <2>2. f \in Canceller /\ f.pc = "found" /\ f.bfc <= registered
    BY <2>1 DEF B!Idle, Canceller, CancelPcs
  <2>3. /\ admin[a].pc = "idle" /\ admin' = [admin EXCEPT ![a] = f]
        /\ UNCHANGED <<bfcs, isCancelled, registered, runFlags, other>>
    BY <1>3 DEF B!Cancel, B!At
  <2>4. \A b, g : ~Telling(a, b, g)
    BY <2>3 DEF Telling
  <2> HIDE DEF f
  <2> QED BY <2>2, <2>3, <2>4, AdminStep
<1>4. ASSUME B!CancelsWild(a) PROVE CancelInv'
  <2>1. /\ admin[a].pc \in {"found", "record", "recorded"} /\ admin' = [admin EXCEPT ![a] = B!Idle]
        /\ UNCHANGED <<bfcs, isCancelled, registered, runFlags, other>>
    BY <1>4 DEF B!CancelsWild, B!Goes
  <2>2. \A b, g : ~Telling(a, b, g)
    BY <2>1 DEF Telling
  <2> QED BY <1>2, <2>1, <2>2, AdminStep
<1>5. ASSUME B!CancelTests(a) PROVE CancelInv'
  <2> DEFINE f == [admin[a] EXCEPT !.pc = "record"]
  <2>1. f \in Canceller /\ f.bfc <= registered /\ f.pc = "record"
    BY <1>1 DEF Canceller, CancelPcs
  <2>2. /\ admin[a].pc = "found"
        /\ admin' = [admin EXCEPT ![a] = f] \/ admin' = [admin EXCEPT ![a] = B!Idle]
        /\ UNCHANGED <<bfcs, isCancelled, registered, runFlags, other>>
    BY <1>5 DEF B!CancelTests, B!Goes, B!At
  <2>3. \A b, g : ~Telling(a, b, g)
    BY <2>2 DEF Telling
  <2> HIDE DEF f
  <2> QED BY <1>2, <2>1, <2>2, <2>3, AdminStep
<1>6. ASSUME B!RecordReads(a) PROVE CancelInv'
  <2>1. PICK b \in bfcs :
          /\ b.id = admin[a].bfc
          /\ admin' = [admin EXCEPT ![a] = [admin[a] EXCEPT !.pc = "recorded", !.want = b.want,
                                                            !.is = b.is]]
    BY <1>6 DEF B!RecordReads, B!Goes, B!Held
  <2> DEFINE f == [admin[a] EXCEPT !.pc = "recorded", !.want = b.want, !.is = b.is]
  <2>2. b \in Bfc
    BY DEF CancelInv, CancelTypes
  <2>3. f \in Canceller /\ f.bfc = admin[a].bfc /\ f.is = b.is
    BY <1>1, <2>2 DEF Canceller, CancelPcs, Bfc
  <2>4. /\ admin[a].pc = "record" /\ admin' = [admin EXCEPT ![a] = f]
        /\ UNCHANGED <<bfcs, isCancelled, registered, runFlags, other>>
    BY <1>6, <2>1 DEF B!RecordReads, B!At
  <2>5. \A c, g : ~Telling(a, c, g)
    BY <2>4 DEF Telling
  <2> HIDE DEF f
  <2>6. \A c \in bfcs : f.bfc = c.id => \A h \in f.is : Known(c, h)
    BY <2>1, <2>3 DEF CancelInv, Numbered, Done
  <2> QED BY <1>1, <2>3, <2>4, <2>5, <2>6, AdminStep
<1>7. ASSUME B!FlagsRead(a) PROVE CancelInv'
  <2> DEFINE f == [admin[a] EXCEPT !.pc = "flagged", !.is = runFlags]
  <2>1. f \in Canceller /\ f.bfc = admin[a].bfc /\ f.how = admin[a].how /\ f.pc = "flagged"
    BY <1>1 DEF Canceller, CancelPcs, CancelInv, CancelTypes
  <2>2. /\ admin' = [admin EXCEPT ![a] = f]
        /\ UNCHANGED <<bfcs, isCancelled, registered, runFlags, other>>
    BY <1>7 DEF B!FlagsRead, B!Goes
  <2> HIDE DEF f
  <2>3. admin'[a] = f
    BY <2>2 DEF CancelInv, CancelTypes
  <2>4. \A b, h : Telling(a, b, h) => Telling(a, b, h)'
    BY <2>1, <2>3 DEF Telling
  <2> QED BY <1>1, <2>1, <2>2, <2>4, AdminStep
<1> QED BY <1>3, <1>4, <1>5, <1>6, <1>7

\* It writes back the record it has read, with what it does, which it is telling now.
LEMMA RecordStep ==
  ASSUME CancelInv, NEW a \in Administrators, B!RecordWrites(a) PROVE CancelInv'
<1>1. PICK b \in bfcs :
        /\ b.id = admin[a].bfc
        /\ bfcs' = (bfcs \ {b}) \cup
                   {[b EXCEPT !.want = admin[a].want, !.is = admin[a].is \cup admin[a].how]}
  BY DEF B!RecordWrites, B!Held
<1>n. PICK n : n = [b EXCEPT !.want = admin[a].want, !.is = admin[a].is \cup admin[a].how]
  OBVIOUS
<1> DEFINE f == [admin[a] EXCEPT !.pc = "flags", !.want = {}, !.is = {}]
<1>2. /\ admin[a].pc = "recorded" /\ admin' = [admin EXCEPT ![a] = f]
      /\ UNCHANGED <<isCancelled, registered, runFlags, other>>
  BY DEF B!RecordWrites, B!At, B!Goes
<1>3. /\ admin[a] \in Canceller /\ b \in Bfc /\ admin[a].bfc <= registered
  BY DEF CancelInv, CancelTypes, Numbered
<1>4. /\ n \in Bfc /\ n.fd = b.fd /\ n.id = b.id /\ n.is = admin[a].is \cup admin[a].how
  BY <1>3, <1>n DEF Bfc, Canceller
<1>5. f \in Canceller /\ f.bfc = admin[a].bfc /\ f.how = admin[a].how /\ f.pc = "flags"
  BY <1>3 DEF Canceller, CancelPcs
<1>6. bfcs' = (bfcs \ {b}) \cup {n}
  BY <1>1, <1>n
<1> HIDE DEF f
<1>7. admin'[a] = f /\ \A c \in Administrators \ {a} : admin'[c] = admin[c]
  BY <1>2 DEF CancelInv, CancelTypes
<1>8. CancelTypes'
  BY <1>2, <1>4, <1>5, <1>6 DEF CancelInv, CancelTypes, Bfc, Canceller, B!How
<1>9. Numbered'
  BY <1>1, <1>2, <1>3, <1>4, <1>5, <1>6, <1>7 DEF CancelInv, Numbered
<1>10. \A c, h : Known(c, h) => Known(c, h)'
  BY <1>2, <1>7 DEF Known, Telling
<1>11. \A h : Known(b, h)' => Known(n, h)'
  BY <1>4 DEF Known, Telling
<1>12. \A h \in admin[a].how : Known(n, h)'
  BY <1>1, <1>4, <1>5, <1>7 DEF Known, Telling
<1>13. \A h \in admin[a].is : Known(n, h)'
  BY <1>1, <1>2, <1>10, <1>11 DEF CancelInv, Copied
<1>14. Done'
  BY <1>4, <1>6, <1>10, <1>12, <1>13 DEF CancelInv, Done
<1>15. Copied'
  <2> SUFFICES ASSUME NEW c \in Administrators, NEW d \in bfcs', admin'[c].pc = "recorded",
                      admin'[c].bfc = d.id, NEW h \in admin'[c].is
               PROVE  Known(d, h)'
    BY DEF Copied
  <2>1. c # a /\ admin'[c] = admin[c]
    BY <1>5, <1>7
  <2>2. CASE d = n
    BY <2>1, <2>2, <1>4, <1>10, <1>11 DEF CancelInv, Copied
  <2>3. CASE d \in bfcs
    BY <2>1, <2>3, <1>10 DEF CancelInv, Copied
  <2> QED BY <1>6, <2>2, <2>3
<1> QED BY <1>8, <1>9, <1>14, <1>15 DEF CancelInv

\* It writes back br_flags, and has told.
LEMMA WrittenFlagsStep ==
  ASSUME CancelInv, NEW a \in Administrators, B!FlagsWritten(a) PROVE CancelInv'
<1>1. /\ admin' = [admin EXCEPT ![a] = B!Idle]
      /\ UNCHANGED <<bfcs, registered, other>> /\ runFlags' = admin[a].is \cup admin[a].how
      /\ isCancelled \subseteq isCancelled'
      /\ \A b \in bfcs, h \in admin[a].how :
           b.id = admin[a].bfc => [fd |-> b.fd, how |-> h] \in isCancelled'
  <2>1. isCancelled' = isCancelled \cup {[fd |-> b.fd, how |-> h] : b \in B!Held(a), h \in admin[a].how}
    BY DEF B!FlagsWritten
  <2>2. \A b \in bfcs, h \in admin[a].how :
          b.id = admin[a].bfc => [fd |-> b.fd, how |-> h] \in isCancelled'
    BY <2>1 DEF B!Held
  <2>3. isCancelled \subseteq isCancelled'
    BY <2>1
  <2> QED BY <2>2, <2>3 DEF B!FlagsWritten, B!Goes
<1>2. /\ admin'[a] = B!Idle /\ \A c \in Administrators \ {a} : admin'[c] = admin[c]
      /\ admin[a] \in Canceller /\ registered >= 0
  BY <1>1 DEF CancelInv, CancelTypes
<1>3. B!Idle \in Canceller /\ B!Idle.bfc = 0 /\ B!Idle.pc = "idle"
  BY DEF B!Idle, Canceller, CancelPcs
<1>4. CancelTypes'
  <2>1. runFlags' \subseteq B!How
    BY <1>1, <1>2 DEF Canceller
  <2> QED BY <1>1, <1>3, <2>1 DEF CancelInv, CancelTypes, Bfc, Canceller, B!How
<1>5. Numbered'
  BY <1>1, <1>2, <1>3 DEF CancelInv, Numbered
<1>6. ASSUME NEW b \in bfcs, NEW h, Known(b, h) PROVE Known(b, h)'
  <2>1. CASE [fd |-> b.fd, how |-> h] \in isCancelled
    BY <1>1, <2>1 DEF Known
  <2>2. CASE Telling(a, b, h)
    BY <1>1, <2>2 DEF Known, Telling
  <2>3. ASSUME NEW c \in Administrators \ {a}, Telling(c, b, h) PROVE Known(b, h)'
    BY <1>2, <2>3 DEF Known, Telling
  <2> QED BY <1>6, <2>1, <2>2, <2>3 DEF Known
<1>7. Done' /\ Copied'
  BY <1>1, <1>2, <1>3, <1>6 DEF CancelInv, Done, Copied
<1> QED BY <1>4, <1>5, <1>7 DEF CancelInv

\* Every step keeps it.
LEMMA CancelStep == CancelInv /\ [B!Next]_(B!rcvars) => CancelInv'
<1> SUFFICES ASSUME CancelInv, [B!Next]_(B!rcvars) PROVE CancelInv'
  OBVIOUS
<1>1. ASSUME NEW fd \in CancelFds, NEW how \in SUBSET B!How, B!Unregister(fd, how)
      PROVE CancelInv'
  <2>1. /\ admin' = admin /\ other' = other /\ registered' \in {registered, registered + 1}
        /\ B!Drop(fd, how)
    BY <1>1 DEF B!Unregister
  <2> QED BY <2>1, DropStep
<1>2. ASSUME B!OtherReads \/ B!OtherWrites PROVE CancelInv'
  <2>1. /\ UNCHANGED <<bfcs, admin, registered, isCancelled>>
        /\ runFlags' \subseteq B!How /\ other'.is \subseteq B!How
    BY <1>2 DEF B!OtherReads, B!OtherWrites, B!Nobody, CancelInv, CancelTypes
  <2>2. CancelTypes'
    BY <2>1 DEF CancelInv, CancelTypes, Bfc, Canceller, B!How
  <2> QED BY <2>1, <2>2 DEF CancelInv, Numbered, Done, Copied, Known, Telling
<1>3. CASE UNCHANGED B!rcvars
  <2>1. CancelTypes'
    BY <1>3 DEF B!rcvars, CancelInv, CancelTypes, Bfc, Canceller, B!How
  <2> QED BY <1>3, <2>1 DEF B!rcvars, CancelInv, Numbered, Done, Copied, Known, Telling
<1> QED BY <1>1, <1>2, <1>3, RegisteredStep, CancelReads, RecordStep, WrittenFlagsStep DEF B!Next

\* At first nobody is registered.
LEMMA CancelBegins == B!Init => CancelInv
<1> SUFFICES ASSUME B!Init PROVE CancelInv
  OBVIOUS
<1>1. B!Idle \in Canceller /\ B!Idle.pc = "idle" /\ B!Idle.bfc = 0
  BY DEF B!Idle, Canceller, CancelPcs
<1>2. admin = [a \in Administrators |-> B!Idle] /\ bfcs = {} /\ registered = 0
      /\ runFlags = {} /\ other.is = {}
  BY DEF B!Init, B!Nobody
<1> QED BY <1>1, <1>2 DEF CancelInv, CancelTypes, Numbered, Done, Copied

\* Nothing is told of a descriptor that was not done to it, however the reads and writes
\* of the two words of flags fall, and though descriptors come and go.
THEOREM NothingElseSeenHolds == B!Spec => []B!NothingElseSeen
<1>1. CancelInv => B!NothingElseSeen
  <2> SUFFICES ASSUME CancelInv, NEW fd \in CancelFds, NEW how \in B!How, B!Is(fd, how)
               PROVE  [fd |-> fd, how |-> how] \in isCancelled \/ B!BeingTold(fd, how)
    BY DEF B!NothingElseSeen
  <2>1. PICK b \in bfcs : b.fd = fd /\ how \in b.is
    BY DEF B!Is, B!Of
  <2> QED BY <2>1 DEF CancelInv, Done, Known, Telling, B!BeingTold, B!Of
<1> QED BY <1>1, CancelBegins, CancelStep, PTL DEF B!Spec
-----------------------------------------------------------------------------
(* Polling I/O                                                             *)

\* The records the program and the handle share
Bpi(b) ==
  b \in [flags : {b.flags}, throttle : {b.throttle}, outstanding : Int, alive : {b.alive}]
Lives == {"open", "write dead", "closing", "gone"}
Src(s) ==
  s \in [read : {s.read}, allowed : {s.allowed}, out : Nat, life : Lives, written : {s.written}]
Prog(p) ==
  p \in [pc : {p.pc}, timeout : {p.timeout}, armed : {p.armed}]

\* The handle is told of while it is there, goes with the bpi once that is closed, and
\* what the bpi counts as outstanding is what the handle has.
PollOf(b, s, closed) ==
  /\ ~closed => b.alive /\ "DONT_DESTROY" \in b.flags
  /\ closed => \/ s.life = "gone" /\ ~b.alive
               \/ "DONT_DESTROY" \notin b.flags
  /\ "IOH_DEAD" \in b.flags => s.life = "gone"
  /\ s.life = "gone" => closed \/ "IOH_DEAD" \in b.flags
  /\ s.life = "closing" => closed
  /\ b.alive /\ "WRITE_DEAD" \notin b.flags => b.outstanding = s.out

PollInv == Bpi(bpi) /\ Src(src) /\ Prog(prog) /\ PollOf(bpi, src, prog.pc = "closed")

\* The state's formula, of the next state.
LEMMA PollNext ==
  ASSUME Bpi(bpi'), Src(src'), Prog(prog'), PollOf(bpi', src', prog'.pc = "closed")
  PROVE  PollInv'
BY DEF PollInv, Bpi, Src, Prog, PollOf

\* What is known of their fields
LEMMA Fields ==
  /\ \A s : Src(s) => s.out \in Nat /\ s.out \in Int /\ s.life \in Lives
  /\ \A b : Bpi(b) => b.outstanding \in Int
BY DEF Src, Bpi

\* The handle's output
LEMMA OutField ==
  ASSUME NEW s, Src(s), NEW n \in Nat, NEW t, t = [s EXCEPT !.out = n]
  PROVE  Src(t) /\ t.out = n /\ t.life = s.life
BY DEF Src

\* The output, and how many buffers were written
LEMMA WrittenField ==
  ASSUME NEW s, Src(s), NEW n \in Nat, NEW w, NEW t, t = [s EXCEPT !.out = n, !.written = w]
  PROVE  Src(t) /\ t.out = n /\ t.life = s.life
BY DEF Src

\* The life
LEMMA LifeField ==
  ASSUME NEW s, Src(s), NEW l \in Lives, NEW t, t = [s EXCEPT !.life = l]
  PROVE  Src(t) /\ t.out = s.out /\ t.life = l
BY DEF Src

\* The life, and what was to be written
LEMMA LostField ==
  ASSUME NEW s, Src(s), NEW n \in Nat, NEW l \in Lives, NEW t,
         t = [s EXCEPT !.out = n, !.life = l]
  PROVE  Src(t) /\ t.out = n /\ t.life = l
BY DEF Src

\* What is outstanding
LEMMA CountField ==
  ASSUME NEW b, Bpi(b), NEW n \in Int, NEW c, c = [b EXCEPT !.outstanding = n]
  PROVE  Bpi(c) /\ c.flags = b.flags /\ c.alive = b.alive /\ c.outstanding = n
BY DEF Bpi

\* What is outstanding, and the flags
LEMMA FlagsField ==
  ASSUME NEW b, Bpi(b), NEW n \in Int, NEW f, NEW c,
         c = [b EXCEPT !.outstanding = n, !.flags = f]
  PROVE  Bpi(c) /\ c.flags = f /\ c.alive = b.alive /\ c.outstanding = n
BY DEF Bpi

\* The bpi that goes
LEMMA AliveField ==
  ASSUME NEW b, Bpi(b), NEW n \in Int, NEW a, NEW c,
         c = [b EXCEPT !.alive = a, !.outstanding = n]
  PROVE  Bpi(c) /\ c.flags = b.flags /\ c.alive = a
BY DEF Bpi

\* Who is woken goes on, and was not closed.
LEMMA WakeProg ==
  ASSUME Prog(prog), NEW pc, P!Wake(pc), pc # "closed"
  PROVE  Prog(prog') /\ (prog'.pc = "closed" <=> prog.pc = "closed")
BY DEF Prog, P!Wake, P!Pc

\* The program goes to another place.
LEMMA ToProg ==
  ASSUME Prog(prog), NEW pc, P!To(pc) PROVE Prog(prog') /\ prog'.pc = pc
BY DEF Prog, P!To

\* A call returns.
LEMMA ReturnProg ==
  ASSUME Prog(prog), P!Return PROVE Prog(prog') /\ prog'.pc = "idle"
BY DEF Prog, P!Return

\* Nothing that matters changes.
Alike(b, s) ==
  /\ Bpi(b) /\ Src(s) /\ b.alive = bpi.alive /\ b.outstanding = bpi.outstanding
  /\ \A f \in {"DONT_DESTROY", "IOH_DEAD", "WRITE_DEAD"} : f \in b.flags <=> f \in bpi.flags
  /\ s.out = src.out /\ s.life = src.life

\* The invariant then stays.
LEMMA AlikeStep ==
  ASSUME PollInv, Alike(bpi', src'), Prog(prog'), prog'.pc = "closed" <=> prog.pc = "closed"
  PROVE  PollInv'
BY PollNext DEF PollInv, Alike, PollOf

\* bk_polling_io_throttle and _unthrottle
LEMMA ThrottleAlike ==
  ASSUME Bpi(bpi), Src(src), NEW b, NEW s, Alike(b, s)
  PROVE  /\ Alike(P!Throttle(b, s).b, P!Throttle(b, s).s)
         /\ Alike(P!Unthrottle(b, s).b, P!Unthrottle(b, s).s)
<1>1. ASSUME NEW n, NEW a PROVE Alike([b EXCEPT !.throttle = n], [s EXCEPT !.allowed = a])
  BY DEF Alike, Bpi, Src
<1>2. /\ P!Throttle(b, s).b = [b EXCEPT !.throttle = b.throttle + 1]
      /\ P!Throttle(b, s).s = [s EXCEPT !.allowed = s.allowed /\ b.throttle # 0]
  BY Zenon DEF P!Throttle, Alike, Bpi, Src
<1>3. \/ P!Unthrottle(b, s) = [b |-> b, s |-> s]
      \/ P!Unthrottle(b, s) =
           [b |-> [b EXCEPT !.throttle = IF b.throttle = 0 THEN 0 ELSE b.throttle - 1],
            s |-> [s EXCEPT !.allowed = s.allowed \/ b.throttle = 1]]
  BY Zenon DEF P!Unthrottle
<1> QED BY <1>1, <1>2, <1>3

\* What is queued, and throttles when the queue is full
LEMMA GotAlike == ASSUME PollInv, P!GotData PROVE Alike(bpi', src')
<1> DEFINE s == [src EXCEPT !.read = @ + 1]
           b == [bpi EXCEPT !.flags = @ \cup {"SELF_THROTTLE"}]
<1>1. Alike(bpi, s) /\ Alike(b, s)
  BY DEF PollInv, Alike, Bpi, Src
<1>2. \/ bpi' = P!Throttle(b, s).b /\ src' = P!Throttle(b, s).s
      \/ src' = s /\ bpi' = bpi
  BY Zenon DEF P!GotData
<1>3. Alike(P!Throttle(b, s).b, P!Throttle(b, s).s)
  BY <1>1, ThrottleAlike DEF PollInv
<1> QED BY <1>1, <1>2, <1>3

\* The handle's callbacks: what comes
LEMMA GotStep == ASSUME PollInv, P!GotData \/ P!GotEnd PROVE PollInv'
<1> DEFINE s == [src EXCEPT !.read = @ + 1]
<1>1. Alike(bpi, s)
  BY DEF PollInv, Alike, Bpi, Src
<1>2. Prog(prog') /\ (prog'.pc = "closed" <=> prog.pc = "closed")
  BY WakeProg DEF PollInv, P!GotData, P!GotEnd
<1>3. CASE P!GotData
  BY <1>2, <1>3, GotAlike, AlikeStep
<1>4. CASE P!GotEnd
  <2>1. PICK f \in {"SAW_EOF", "READ_DEAD"} : bpi' = [bpi EXCEPT !.flags = bpi.flags \cup {f}]
    BY <1>4 DEF P!GotEnd, P!With
  <2>2. src' = s
    BY <1>4 DEF P!GotEnd
  <2>3. Alike(bpi', src')
    BY <1>1, <2>1, <2>2 DEF PollInv, Alike, Bpi
  <2> QED BY <1>2, <2>3, AlikeStep
<1> QED BY <1>3, <1>4

\* What has gone, or fails
LEMMA WrittenStep == ASSUME PollInv, P!Written PROVE PollInv'
<1>1. Prog(prog') /\ (prog'.pc = "closed" <=> prog.pc = "closed")
  BY WakeProg DEF PollInv, P!Written
<1>2. /\ src.out > 0 /\ src' = [src EXCEPT !.out = src.out - 1]
      /\ bpi' = [bpi EXCEPT !.outstanding = bpi.outstanding - 1]
  BY Zenon DEF P!Written
<1>5. Src(src) /\ Bpi(bpi) /\ src.out \in Nat /\ bpi.outstanding \in Int
  BY Fields DEF PollInv
<1>6. src.out - 1 \in Nat /\ bpi.outstanding - 1 \in Int
  BY <1>2, <1>5
<1>3. Bpi(bpi') /\ bpi'.flags = bpi.flags /\ bpi'.alive = bpi.alive
      /\ bpi'.outstanding = bpi.outstanding - 1
  BY <1>2, <1>5, <1>6, CountField
<1>4. Src(src') /\ src'.life = src.life /\ src'.out = src.out - 1
  BY <1>2, <1>5, <1>6, OutField
<1>7. PollOf(bpi', src', prog'.pc = "closed")
  BY <1>1, <1>3, <1>4, <1>5 DEF PollInv, PollOf
<1> QED BY <1>1, <1>3, <1>4, <1>7, PollNext

\* An error, after which the count says nothing any more
LEMMA WriteErrorStep == ASSUME PollInv, P!WriteError PROVE PollInv'
<1>1. Prog(prog') /\ (prog'.pc = "closed" <=> prog.pc = "closed")
  BY WakeProg DEF PollInv, P!WriteError
<1> DEFINE n == bpi.outstanding - src.out - 1
           f == bpi.flags \cup {"WRITE_DEAD"}
<1>2. /\ src.life = "open" /\ src' = [src EXCEPT !.out = 0, !.life = "write dead"]
      /\ bpi' = [bpi EXCEPT !.outstanding = n, !.flags = f]
  BY Zenon DEF P!WriteError, P!With
<1>5. Src(src) /\ Bpi(bpi) /\ n \in Int
  BY Fields DEF PollInv
<1> HIDE DEF n
<1>3. Bpi(bpi') /\ bpi'.flags = f /\ bpi'.alive = bpi.alive
  BY <1>2, <1>5 DEF Bpi
<1>4. Src(src') /\ src'.life = "write dead"
  <2>1. 0 \in Nat /\ "write dead" \in Lives
    BY DEF Lives
  <2> QED BY <1>2, <1>5, <2>1 DEF Src
<1>6. PollOf(bpi', src', prog'.pc = "closed")
  BY <1>1, <1>2, <1>3, <1>4 DEF PollInv, PollOf
<1> QED BY <1>1, <1>3, <1>4, <1>6, PollNext

\* The handle goes, and the bpi with it when it was closed.
LEMMA GoesStep == ASSUME PollInv, P!IohGoes PROVE PollInv'
<1>0. src.life # "gone" \/ prog.pc = "closed"
  BY DEF P!IohGoes, P!Running, PollInv, PollOf
<1>1. /\ src' = [src EXCEPT !.life = "gone", !.out = 0]
      /\ Src(src') /\ src'.life = "gone" /\ src'.out = 0
  <2>1. src' = [src EXCEPT !.out = 0, !.life = "gone"]
    BY DEF P!IohGoes, PollInv, Src
  <2>2. Src(src) /\ 0 \in Nat /\ "gone" \in Lives
    BY DEF PollInv, Lives
  <2>3. Src(src') /\ src'.life = "gone" /\ src'.out = 0
    BY <2>1, <2>2 DEF Src
  <2> QED BY <2>3 DEF P!IohGoes
<1>2. CASE "DONT_DESTROY" \notin bpi.flags
  <2>1. bpi' = [bpi EXCEPT !.alive = FALSE, !.outstanding = 0] /\ prog' = prog
    BY <1>2 DEF P!IohGoes, P!Flag
  <2>2. Bpi(bpi') /\ ~bpi'.alive /\ bpi'.flags = bpi.flags
    <3>1. 0 \in Int /\ Bpi(bpi)
      BY DEF PollInv
    <3> QED BY <2>1, <3>1 DEF Bpi
  <2>3. PollOf(bpi', src', prog'.pc = "closed")
    BY <1>1, <1>2, <2>1, <2>2 DEF PollInv, PollOf
  <2> QED BY <1>1, <2>1, <2>2, <2>3, PollNext DEF PollInv
<1>3. CASE "DONT_DESTROY" \in bpi.flags
  <2> DEFINE n == bpi.outstanding - src.out
             f == bpi.flags \cup {"IOH_DEAD"}
  <2>0. bpi' = [bpi EXCEPT !.flags = f, !.outstanding = n] /\ P!Wake("read sleep")
    BY <1>3, Zenon DEF P!IohGoes, P!Flag, P!With
  <2>1. bpi' = [bpi EXCEPT !.outstanding = n, !.flags = f] /\ P!Wake("read sleep")
    <3> HIDE DEF n, f
    <3> QED BY <2>0 DEF PollInv, Bpi
  <2>2. Prog(prog') /\ (prog'.pc = "closed" <=> prog.pc = "closed")
    BY <2>1, WakeProg DEF PollInv
  <2>4. Bpi(bpi) /\ n \in Int /\ (bpi.outstanding = src.out => n = 0)
    BY Fields DEF PollInv
  <2> HIDE DEF n
  <2>3. Bpi(bpi') /\ bpi'.flags = f /\ bpi'.alive = bpi.alive /\ bpi'.outstanding = n
    BY <2>1, <2>4 DEF Bpi
  <2>5. PollOf(bpi', src', prog'.pc = "closed")
    BY <1>0, <1>1, <1>3, <2>2, <2>3, <2>4 DEF PollInv, PollOf
  <2> QED BY <1>1, <2>2, <2>3, <2>5, PollNext
<1> QED BY <1>2, <1>3

\* The program's steps that only go elsewhere
LEMMA ProgOnly ==
  ASSUME PollInv, UNCHANGED <<bpi, src>>, Prog(prog'),
         prog'.pc = "closed" <=> prog.pc = "closed"
  PROVE  PollInv'
<1>1. Alike(bpi', src')
  BY DEF PollInv, Alike
<1> QED BY <1>1, AlikeStep

\* They are these.
LEMMA ReadStep ==
  ASSUME PollInv,
         \/ P!TimeoutFires \/ P!RunReturns \/ P!ReadGivesUp \/ P!ReadWaits \/ P!Sleeps
         \/ P!SyncWaits \/ \E t \in P!Timeouts : P!Read(t) \/ P!Write(t)
  PROVE  PollInv'
<1> SUFFICES Prog(prog') /\ (prog'.pc = "closed" <=> prog.pc = "closed")
  BY ProgOnly DEF P!TimeoutFires, P!RunReturns, P!ReadGivesUp, P!ReadWaits, P!Sleeps,
                  P!SyncWaits, P!Read, P!Write
<1> USE DEF PollInv, Prog, P!To, P!Return, P!Pc
<1>1. CASE P!TimeoutFires
  BY <1>1 DEF P!TimeoutFires
<1>2. CASE P!RunReturns
  <2>1. PICK pc \in {"read", "write", "sync", "linger"} : prog' = [prog EXCEPT !.pc = pc]
    BY <1>2 DEF P!RunReturns
  <2> QED BY <1>2, <2>1 DEF P!RunReturns
<1>3. CASE P!ReadGivesUp
  BY <1>3 DEF P!ReadGivesUp
<1>4. CASE P!ReadWaits
  BY <1>4 DEF P!ReadWaits
<1>5. CASE P!Sleeps
  BY <1>5 DEF P!Sleeps
<1>6. CASE P!SyncWaits
  BY <1>6 DEF P!SyncWaits
<1>7. ASSUME NEW t \in P!Timeouts, P!Read(t) \/ P!Write(t)
      PROVE Prog(prog') /\ (prog'.pc = "closed" <=> prog.pc = "closed")
  <2>1. prog.pc = "idle"
    BY <1>7 DEF P!Read, P!Write
  <2>2. \/ prog' = prog
        \/ \E pc \in {"read", "write"} : \E a :
             prog' = [prog EXCEPT !.pc = pc, !.timeout = t, !.armed = a]
    BY <1>7, Zenon DEF P!Read, P!Write
  <2> QED BY <2>1, <2>2
<1> QED BY <1>1, <1>2, <1>3, <1>4, <1>5, <1>6, <1>7

\* A record is taken
LEMMA TakesAlike == ASSUME PollInv, P!ReadTakes PROVE Alike(bpi', src')
<1> DEFINE b == [bpi EXCEPT !.flags = @ \ {"SELF_THROTTLE"}]
<1>1. \/ bpi' = P!Unthrottle(b, src).b /\ src' = P!Unthrottle(b, src).s
      \/ bpi' = bpi /\ src' = src
  BY Zenon DEF P!ReadTakes
<1>2. Alike(b, src) /\ Alike(bpi, src)
  BY DEF PollInv, Alike, Bpi
<1> HIDE DEF b
<1>3. Alike(P!Unthrottle(b, src).b, P!Unthrottle(b, src).s)
  BY <1>2, ThrottleAlike DEF PollInv
<1> QED BY <1>1, <1>2, <1>3

\* The program throttles: a step of the count, or of what the handle may read
LEMMA UserAlike == ASSUME PollInv, P!UserThrottles PROVE Alike(bpi', src') /\ prog' = prog
<1>0. Alike(bpi, src)
  BY DEF PollInv, Alike
<1>1. CASE P!ThrottleTests
  BY <1>0, <1>1 DEF P!ThrottleTests
<1>2. CASE P!ThrottleCounts
  BY <1>0, <1>2 DEF P!ThrottleCounts, Alike, Bpi, PollInv
<1>3. CASE P!UnthrottleCounts
  <2>1. \E n : bpi' = [bpi EXCEPT !.throttle = n]
    BY <1>3, Zenon DEF P!UnthrottleCounts
  <2>2. src' = src /\ prog' = prog
    BY <1>3 DEF P!UnthrottleCounts
  <2> QED BY <1>0, <2>1, <2>2 DEF Alike, Bpi, PollInv
<1>4. CASE P!ThrottleAllows
  <2>1. \E a : src' = [src EXCEPT !.allowed = a]
    BY <1>4, Zenon DEF P!ThrottleAllows
  <2>2. bpi' = bpi /\ prog' = prog
    BY <1>4 DEF P!ThrottleAllows
  <2> QED BY <1>0, <2>1, <2>2 DEF Alike, Src, PollInv
<1> QED BY <1>1, <1>2, <1>3, <1>4 DEF P!UserThrottles

\* bk_polling_io_read takes it.
LEMMA TakesStep == ASSUME PollInv, P!ReadTakes PROVE PollInv'
<1>1. Prog(prog') /\ prog'.pc = "idle" /\ prog.pc = "read"
  BY ReturnProg DEF PollInv, P!ReadTakes, P!Pc
<1> QED BY <1>1, TakesAlike, AlikeStep

\* bk_polling_io_throttle of the program
LEMMA UserThrottlesStep == ASSUME PollInv, P!UserThrottles PROVE PollInv'
<1>1. prog' = prog /\ Prog(prog)
  BY UserAlike DEF PollInv
<1> QED BY <1>1, UserAlike, AlikeStep

\* What the handle takes is counted.
LEMMA TriesStep == ASSUME PollInv, P!WriteTries PROVE PollInv'
<1> DEFINE taken == src.life = "open" /\ src.out < WriteMax
<1>0. prog.pc = "write" /\ Src(src) /\ Bpi(bpi) /\ Prog(prog)
  BY DEF P!WriteTries, P!Pc, PollInv
<1>1. CASE UNCHANGED <<src, bpi>> /\ P!To(IF Threaded THEN "write about to sleep" ELSE "write run")
  <2>1. PICK pc \in {"write about to sleep", "write run"} : P!To(pc)
    BY <1>1, Zenon
  <2>2. Prog(prog') /\ prog'.pc # "closed"
    BY <1>0, <2>1, ToProg
  <2> QED BY <1>0, <1>1, <2>2, ProgOnly
<1>2. CASE /\ src' = [src EXCEPT !.out = IF taken THEN @ + 1 ELSE @, !.written = @ + 1]
           /\ bpi' = [bpi EXCEPT !.outstanding = @ + (IF taken THEN 1 ELSE 0),
                                 !.flags = IF src.life # "open"
                                           THEN bpi.flags \cup {"WRITE_DEAD"} ELSE @]
           /\ P!To("sync") \/ P!Return
  <2> DEFINE out == IF taken THEN src.out + 1 ELSE src.out
             n == bpi.outstanding + (IF taken THEN 1 ELSE 0)
             f == IF src.life # "open" THEN bpi.flags \cup {"WRITE_DEAD"} ELSE bpi.flags
  <2>1. Prog(prog') /\ prog'.pc # "closed"
    BY <1>0, <1>2, ToProg, ReturnProg
  <2>2. src.out \in Int /\ bpi.outstanding \in Int /\ out \in Nat /\ n \in Int
    BY <1>0, Fields
  <2>3. out - src.out = n - bpi.outstanding
    BY <2>2
  <2>4. bpi' = [bpi EXCEPT !.outstanding = n, !.flags = f]
    BY <1>2, Zenon
  <2>5. \E w : src' = [src EXCEPT !.out = out, !.written = w]
    BY <1>2, Zenon
  <2>6. \A x : x \in bpi.flags => x \in f
    OBVIOUS
  <2>7. f = bpi.flags \/ f = bpi.flags \cup {"WRITE_DEAD"}
    OBVIOUS
  <2> HIDE DEF out, n, f
  <2>8. Src(src') /\ src'.life = src.life /\ src'.out = out
    BY <1>0, <2>2, <2>5 DEF Src
  <2>9. Bpi(bpi') /\ bpi'.alive = bpi.alive /\ bpi'.outstanding = n /\ bpi'.flags = f
    BY <1>0, <2>2, <2>4 DEF Bpi
  <2>10. PollOf(bpi', src', prog'.pc = "closed")
    BY <1>0, <2>1, <2>2, <2>3, <2>7, <2>8, <2>9 DEF PollInv, PollOf
  <2> QED BY <2>1, <2>8, <2>9, <2>10, PollNext
<1> QED BY <1>1, <1>2, Zenon DEF P!WriteTries, P!Counts, P!With

\* bk_polling_io_close
LEMMA CloseStep ==
  ASSUME PollInv, NEW how \in {"", "LINGER", "DONT_LINGER"}, P!Close(how) PROVE PollInv'
<1> DEFINE linger == (P!Flag("LINGER") \/ how = "LINGER") /\ how # "DONT_LINGER"
                     /\ ~P!Flag("WRITE_DEAD")
           set == (bpi.flags \ {"LINGER"}) \cup (IF linger THEN {"LINGER"} ELSE {})
                  \cup (IF how = "DONT_LINGER" \/ P!Flag("WRITE_DEAD")
                        THEN {"DONT_LINGER"} ELSE {})
           dead == "IOH_DEAD" \in bpi.flags
<1>1. prog.pc = "idle" /\ P!To(IF dead THEN "closed" ELSE "linger")
  BY DEF P!Close, P!Flag, P!Pc
<1>2. Prog(prog') /\ (prog'.pc = "closed" <=> dead)
  BY <1>1, ToProg DEF PollInv
<1>3. /\ bpi' = [bpi EXCEPT !.flags = set, !.alive = ~dead]
      /\ src' = [src EXCEPT !.read = P!Len(Input)]
  BY DEF P!Close, P!Flag
<1>4. \A f \in {"DONT_DESTROY", "IOH_DEAD", "WRITE_DEAD"} : f \in set <=> f \in bpi.flags
  OBVIOUS
<1> HIDE DEF set
<1>5. Bpi(bpi') /\ bpi'.outstanding = bpi.outstanding /\ bpi'.flags = set /\ bpi'.alive = ~dead
  BY <1>3 DEF PollInv, Bpi
<1>6. Src(src') /\ src'.life = src.life /\ src'.out = src.out
  BY <1>3 DEF PollInv, Src
<1>7. PollOf(bpi', src', prog'.pc = "closed")
  BY <1>1, <1>2, <1>4, <1>5, <1>6 DEF PollInv, PollOf
<1> QED BY <1>2, <1>5, <1>6, <1>7, PollNext

\* It waits for the output, or closes the handle and goes with it.
LEMMA LingerStep ==
  ASSUME PollInv, P!LingerWaits PROVE PollInv'
<1>0. prog.pc = "linger"
  BY DEF P!LingerWaits, P!Pc
<1>1. CASE P!To("linger run") /\ UNCHANGED <<bpi, src>>
  <2>1. Prog(prog') /\ prog'.pc = "linger run"
    BY <1>1, ToProg DEF PollInv
  <2> QED BY <1>0, <1>1, <2>1, ProgOnly
<1>2. CASE /\ P!To("closed") /\ bpi' = [bpi EXCEPT !.flags = @ \ {"DONT_DESTROY"}]
           /\ src' = [src EXCEPT !.life = IF @ = "gone" THEN @ ELSE "closing"]
  <2>1. Prog(prog') /\ prog'.pc = "closed"
    BY <1>2, ToProg DEF PollInv
  <2>2. /\ Bpi(bpi') /\ bpi'.alive = bpi.alive /\ bpi'.outstanding = bpi.outstanding
        /\ bpi'.flags = bpi.flags \ {"DONT_DESTROY"}
    BY <1>2 DEF PollInv, Bpi
  <2>3. /\ Src(src') /\ src'.out = src.out
        /\ src'.life = IF src.life = "gone" THEN "gone" ELSE "closing"
    <3> DEFINE l == IF src.life = "gone" THEN "gone" ELSE "closing"
    <3>1. src' = [src EXCEPT !.life = l] /\ Src(src)
      BY <1>2, Zenon DEF PollInv
    <3>2. l \in Lives
      BY DEF Lives
    <3> HIDE DEF l
    <3>3. Src(src') /\ src'.out = src.out /\ src'.life = l
      BY <3>1, <3>2, LifeField
    <3> QED BY <3>3 DEF l
  <2>4. PollOf(bpi', src', prog'.pc = "closed")
    BY <1>0, <2>1, <2>2, <2>3 DEF PollInv, PollOf
  <2> QED BY <2>1, <2>2, <2>3, <2>4, PollNext
<1> QED BY <1>1, <1>2 DEF P!LingerWaits

\* Every step keeps it
LEMMA PollStep == PollInv /\ [P!Next]_(P!pvars) => PollInv'
<1> SUFFICES ASSUME PollInv, [P!Next]_(P!pvars) PROVE PollInv'
  OBVIOUS
<1>1. CASE UNCHANGED P!pvars
  BY <1>1 DEF P!pvars, PollInv, Bpi, Src, Prog, PollOf
<1>2. CASE P!Next
  <2>1. CASE P!ProgDoes
    BY <2>1, ReadStep, TakesStep, TriesStep, LingerStep DEF P!ProgDoes
  <2>2. CASE P!UserThrottles \/ \E how \in {"", "LINGER", "DONT_LINGER"} : P!Close(how)
    BY <2>2, UserThrottlesStep, CloseStep
  <2>3. CASE P!TimeoutFires \/ \E t \in P!Timeouts : P!Read(t) \/ P!Write(t)
    BY <2>3, ReadStep
  <2>4. CASE P!GotData \/ P!GotEnd \/ P!Written \/ P!WriteError \/ P!IohGoes
    BY <2>4, GotStep, WrittenStep, WriteErrorStep, GoesStep
  <2> QED BY <1>2, <2>1, <2>2, <2>3, <2>4 DEF P!Next
<1> QED BY <1>1, <1>2

\* It holds when the bpi was made
LEMMA PollBegins == P!Init => PollInv
BY DEF P!Init, PollInv, Bpi, Src, Prog, PollOf, Lives

\* However the handle and the program interleave, and whoever runs the handle: as long as
\* writing has not failed, bpi_wroutstanding is what the handle still has to write.
THEOREM OutstandingTrueHolds == P!Spec => []P!OutstandingTrue
<1>1. PollInv => P!OutstandingTrue
  BY DEF PollInv, PollOf, P!OutstandingTrue, P!Flag
<1> QED BY <1>1, PollStep, PollBegins, PTL DEF P!Spec

\* What a call needs of a handle that does not die below it: where the handle is used
\* it is there.
Where(u) == u \in [pc : {u.pc}, throttles : {u.throttles}]
Lingers ==
  /\ ~wildBpi /\ Where(user)
  /\ user.pc \in {"disallow", "allow"} => src.life # "gone"
  /\ prog.pc \in {"linger", "linger run"} => src.life # "gone"
  /\ src.life = "gone" /\ prog.pc = "closed" => ~bpi.alive

\* What most steps leave as it is
Calm ==
  /\ wildBpi' = wildBpi /\ bpi'.alive = bpi.alive /\ user' = user
  /\ src'.life = "gone" => src.life = "gone"
  /\ prog'.pc = "closed" => prog.pc = "closed"
  /\ prog'.pc \in {"linger", "linger run"} => prog.pc \in {"linger", "linger run"}

\* They keep that.
LEMMA CalmStep == Lingers /\ Calm => Lingers'
<1> SUFFICES ASSUME Lingers, Calm PROVE Lingers'
  OBVIOUS
<1>1. ~wildBpi' /\ Where(user')
  BY Zenon DEF Lingers, Calm
<1>4. user'.pc \in {"disallow", "allow"} => src'.life # "gone"
  BY DEF Lingers, Calm
<1>2. prog'.pc \in {"linger", "linger run"} => src'.life # "gone"
  BY DEF Lingers, Calm
<1>3. src'.life = "gone" /\ prog'.pc = "closed" => ~bpi'.alive
  BY DEF Lingers, Calm
<1> QED BY <1>1, <1>2, <1>3, <1>4 DEF Lingers

\* Throttling leaves the lives.
LEMMA ThrottleCalm ==
  ASSUME Bpi(bpi), Src(src), NEW b, NEW s, Alike(b, s)
  PROVE  /\ P!Throttle(b, s).b.alive = bpi.alive /\ P!Throttle(b, s).s.life = src.life
         /\ P!Unthrottle(b, s).b.alive = bpi.alive /\ P!Unthrottle(b, s).s.life = src.life
BY ThrottleAlike DEF Alike

\* The handle's callbacks leave them.
LEMMA ToldCalm ==
  ASSUME PollInv, UNCHANGED user, P!GotData \/ P!GotEnd \/ P!Written \/ P!WriteError
  PROVE  Calm
<1> USE DEF PollInv, Calm
<1>0. ASSUME NEW pc \in {"read sleep", "write sleep"}, P!Wake(pc)
      PROVE  prog'.pc \in {"closed", "linger", "linger run"} => prog'.pc = prog.pc
  BY <1>0 DEF Prog, P!Wake, P!Pc
<1>1. CASE P!GotData
  <2>1. Alike(bpi', src')
    BY <1>1, GotAlike
  <2>2. bpi'.alive = bpi.alive /\ src'.life = src.life
    BY <2>1 DEF Alike
  <2>3. P!Wake("read sleep") /\ wildBpi' = wildBpi
    BY <1>1 DEF P!GotData
  <2> QED BY <1>0, <2>2, <2>3
<1>2. CASE P!GotEnd
  BY <1>0, <1>2, Zenon DEF P!GotEnd, Bpi, Src
<1>3. CASE P!Written
  BY <1>0, <1>3, Zenon DEF P!Written, Bpi, Src
<1>4. CASE P!WriteError
  BY <1>0, <1>4, Zenon DEF P!WriteError, Bpi, Src
<1> QED BY <1>1, <1>2, <1>3, <1>4

\* So do the program's steps that close nothing.
LEMMA ReadCalm ==
  ASSUME PollInv, UNCHANGED user,
         \/ P!TimeoutFires \/ P!RunReturns \/ P!ReadGivesUp \/ P!ReadWaits \/ P!Sleeps
         \/ P!SyncWaits \/ P!WriteTries \/ P!ReadTakes
         \/ \E t \in P!Timeouts : P!Read(t) \/ P!Write(t)
  PROVE  Calm
<1> USE DEF PollInv, Prog, P!To, P!Return, P!Pc, Calm
<1>1. CASE P!TimeoutFires
  BY <1>1 DEF P!TimeoutFires
<1>2. CASE P!RunReturns
  BY <1>2 DEF P!RunReturns
<1>3. CASE P!ReadGivesUp
  BY <1>3 DEF P!ReadGivesUp
<1>4. CASE P!ReadWaits
  BY <1>4 DEF P!ReadWaits
<1>5. CASE P!Sleeps
  BY <1>5 DEF P!Sleeps
<1>6. CASE P!SyncWaits
  BY <1>6 DEF P!SyncWaits
<1>7. CASE P!WriteTries
  BY <1>7, Zenon DEF P!WriteTries, Bpi, Src
<1>8. CASE P!ReadTakes
  <2>1. bpi'.alive = bpi.alive /\ src'.life = src.life
    BY <1>8, TakesAlike DEF Alike
  <2>2. wildBpi' = wildBpi
    BY <1>8, Zenon DEF P!ReadTakes
  <2>3. prog'.pc = "idle" \/ prog'.pc = prog.pc
    BY <1>8 DEF P!ReadTakes
  <2> QED BY <2>1, <2>2, <2>3
<1>9. ASSUME NEW t \in P!Timeouts, P!Read(t) \/ P!Write(t) PROVE Calm
  BY <1>9 DEF P!Read, P!Write
<1> QED BY <1>1, <1>2, <1>3, <1>4, <1>5, <1>6, <1>7, <1>8, <1>9

\* Every step keeps it, a handle that does not die then being assumed.
LEMMA LingersStep == ~DiesInUse /\ PollInv /\ Lingers /\ [P!Next]_(P!pvars) => Lingers'
<1> SUFFICES ASSUME ~DiesInUse, PollInv, Lingers, [P!Next]_(P!pvars) PROVE Lingers'
  OBVIOUS
<1>1. CASE UNCHANGED P!pvars
  BY <1>1 DEF P!pvars, Lingers
<1>2. CASE UNCHANGED user /\ P!IohGoes
  <2>1. /\ prog.pc \notin {"linger", "linger run"} /\ wildBpi' = wildBpi
        /\ src.life # "gone" /\ user' = user /\ user.pc \notin {"disallow", "allow"}
    BY <1>2 DEF P!IohGoes, P!Running
  <2>2. CASE "DONT_DESTROY" \notin bpi.flags
    <3>1. ~bpi'.alive /\ prog' = prog
      BY <1>2, <2>2, Zenon DEF P!IohGoes, P!Flag, PollInv, Bpi
    <3> QED BY <2>1, <3>1, Zenon DEF Lingers
  <2>3. CASE "DONT_DESTROY" \in bpi.flags
    <3>1. prog.pc # "closed" /\ P!Wake("read sleep")
      BY <1>2, <2>1, <2>3 DEF P!IohGoes, P!Flag, PollInv, PollOf
    <3>2. prog'.pc \notin {"closed", "linger", "linger run"}
      BY <2>1, <3>1 DEF P!Wake, P!Pc, PollInv, Prog
    <3> QED BY <2>1, <3>2 DEF Lingers
  <2> QED BY <2>2, <2>3
<1>3. ASSUME UNCHANGED user, NEW how \in {"", "LINGER", "DONT_LINGER"}, P!Close(how)
      PROVE Lingers'
  <2>1. /\ prog.pc = "idle" /\ user' = user /\ wildBpi' = wildBpi /\ src'.life = src.life
        /\ bpi'.alive = ("IOH_DEAD" \notin bpi.flags)
    BY <1>3, Zenon DEF P!Close, P!Flag, P!Pc, PollInv, Bpi, Src
  <2>2. CASE "IOH_DEAD" \in bpi.flags
    <3>1. P!To("closed")
      BY <1>3, <2>2 DEF P!Close, P!Flag
    <3>2. prog'.pc = "closed"
      BY <3>1, ToProg DEF PollInv
    <3> QED BY <2>1, <2>2, <3>2 DEF Lingers
  <2>3. CASE "IOH_DEAD" \notin bpi.flags
    <3>1. P!To("linger")
      BY <1>3, <2>3 DEF P!Close, P!Flag
    <3>2. prog'.pc = "linger"
      BY <3>1, ToProg DEF PollInv
    <3>3. src.life # "gone"
      BY <2>1, <2>3 DEF PollInv, PollOf
    <3> QED BY <2>1, <3>2, <3>3 DEF Lingers
  <2> QED BY <2>2, <2>3
<1>4. CASE UNCHANGED user /\ P!LingerWaits
  <2>1. src.life # "gone" /\ prog.pc = "linger" /\ user' = user
    BY <1>4 DEF P!LingerWaits, P!Pc, Lingers
  <2>2. CASE P!To("linger run") /\ UNCHANGED <<bpi, src, wildBpi>>
    <3>1. prog'.pc = "linger run"
      BY <2>2, ToProg DEF PollInv
    <3> QED BY <2>1, <2>2, <3>1 DEF Lingers
  <2>3. CASE /\ P!To("closed")
             /\ src' = [src EXCEPT !.life = IF @ = "gone" THEN @ ELSE "closing"]
             /\ wildBpi' = (wildBpi \/ src.life = "gone")
    <3>1. prog'.pc = "closed"
      BY <2>3, ToProg DEF PollInv
    <3>2. src'.life = "closing"
      BY <2>1, <2>3 DEF PollInv, Src
    <3> QED BY <2>1, <2>3, <3>1, <3>2 DEF Lingers
  <2> QED BY <1>4, <2>2, <2>3 DEF P!LingerWaits
<1>5. CASE P!UserThrottles
  <2>1. prog' = prog /\ bpi'.alive = bpi.alive /\ src'.life = src.life
    BY <1>5, UserAlike DEF Alike
  <2>2. ~wildBpi'
    BY <1>5, Zenon DEF P!UserThrottles, P!ThrottleTests, P!ThrottleCounts,
                       P!UnthrottleCounts, P!ThrottleAllows, Lingers
  <2>3. /\ \E pc \in {"disallow", "count", "allow", "idle"} : \E n :
             user' = [user EXCEPT !.pc = pc] \/ user' = [pc |-> pc, throttles |-> n]
        /\ src.life # "gone" \/ user'.pc \notin {"disallow", "allow"}
    <3>1. CASE P!ThrottleTests
      <4>1. PICK pc \in {"disallow", "count"} : user' = [user EXCEPT !.pc = pc]
        BY <3>1 DEF P!ThrottleTests
      <4> QED BY <3>1, <4>1 DEF P!ThrottleTests, P!MayThrottle
    <3>2. CASE P!ThrottleCounts
      <4>1. user' = [pc |-> "idle", throttles |-> 1]
        BY <3>2 DEF P!ThrottleCounts
      <4> QED BY <4>1
    <3>3. CASE P!UnthrottleCounts
      <4>1. PICK pc \in {"allow", "idle"} : user' = [pc |-> pc, throttles |-> 0]
        BY <3>3 DEF P!UnthrottleCounts
      <4> QED BY <3>3, <4>1 DEF P!UnthrottleCounts, P!MayThrottle
    <3>4. CASE P!ThrottleAllows
      <4>1. PICK pc \in {"idle", "count"} : user' = [user EXCEPT !.pc = pc]
        BY <3>4 DEF P!ThrottleAllows
      <4>2. user'.pc = pc
        BY <4>1 DEF Lingers, Where
      <4> QED BY <4>1, <4>2
    <3> QED BY <1>5, <3>1, <3>2, <3>3, <3>4 DEF P!UserThrottles
  <2>4. Where(user')
    BY <2>3 DEF Lingers, Where
  <2> QED BY <2>1, <2>2, <2>3, <2>4 DEF Lingers
<1>6. CASE UNCHANGED user /\ (P!GotData \/ P!GotEnd \/ P!Written \/ P!WriteError)
  BY <1>6, ToldCalm, CalmStep
<1>7. CASE UNCHANGED user /\ (P!TimeoutFires \/ \E t \in P!Timeouts : P!Read(t) \/ P!Write(t))
  BY <1>7, ReadCalm, CalmStep
<1>8. CASE UNCHANGED user /\ P!ProgDoes
  BY <1>4, <1>8, ReadCalm, CalmStep DEF P!ProgDoes
<1> QED BY <1>1, <1>2, <1>3, <1>5, <1>6, <1>7, <1>8 DEF P!Next

\* A handle that dies neither while a close waits for its output nor under a call that
\* allows or forbids it to read is not used when it is gone, whichever thread throttles,
\* and the bpi goes with it.
THEOREM NoWildBpiHolds == ~DiesInUse => (P!Spec => []P!NoWildBpi)
<1> SUFFICES ASSUME ~DiesInUse PROVE P!Spec => []P!NoWildBpi
  OBVIOUS
<1>1. P!Init => Lingers
  BY DEF P!Init, Lingers, Where
<1>2. PollInv /\ Lingers /\ [P!Next]_(P!pvars) => Lingers'
  BY LingersStep
<1>3. Lingers => P!NoWildBpi
  BY DEF Lingers, P!NoWildBpi, P!Pc
<1> QED BY <1>1, <1>2, <1>3, PollStep, PollBegins, PTL DEF P!Spec
-----------------------------------------------------------------------------
(* The memory that is mapped                                               *)

MapAssumption == Slots \in Nat /\ Gens \in Nat /\ Attaches \in [Clients -> Nat]

Taken == [pid : Clients \cup {"none"}, state : {"EMPTY", "PREP", "INIT", "CLOSE"}]
Header == [state : {"blank", "READY", "CLOSE"}, fresh : BOOLEAN, numattach : Int,
           giving : BOOLEAN, client : [M!Bucket -> Taken]]
Cmd == [op : {"attach", "detach", "destroy"}, pid : Clients \cup {"none"}]
Opened == {"shm", "map", "validate", "detach", "attach", "find", "look", "attached"}
AskerPlaces == Opened \cup {"idle", "dead"}
Asker == [pc : AskerPlaces, mq : Int, shm : Int, bucket : Int, left : Int]

NamesAre(n, gen) == n \in [mq : {0, gen}, shm : 0 .. gen]
CreatorIs(r) ==
  /\ r \in [pc : {"down", "queue", "segment", "managing", "destroying", "destroyed"},
            gen : 0 .. Gens]
  /\ r.pc # "down" => r.gen \in 1 .. Gens

MapTypes ==
  /\ NamesAre(names, creator.gen) /\ CreatorIs(creator)
  /\ segs \in [1 .. Gens -> Header]
  /\ cmds \in [1 .. Gens -> {<<>>} \cup {<<m>> : m \in Cmd}]
  /\ clients \in [Clients -> Asker]

\* What a queue holds of a client that gives back its buckets
Detach(c) == <<[op |-> "detach", pid |-> c]>>

\* Where a client is, with the headers ss, the queues qs and the last generation gen: it
\* has given back nothing through a later queue than the one it has open, nothing through
\* that one either once it has asked for a bucket, and what it has got is its own.
AskerIs(c, k, ss, qs, gen) ==
  /\ k.mq \in 0 .. gen
  /\ k.pc \in Opened => k.mq >= 1
  /\ k.pc # "idle" => \A q \in 1 .. Gens : qs[q] = Detach(c) => q <= k.mq
  /\ k.pc \in Opened \ {"shm"} => k.shm \in 1 .. gen
  /\ k.pc \in {"find", "look", "attached"} => qs[k.mq] # Detach(c)
  /\ k.pc = "attached" => /\ k.bucket \in M!Bucket
                          /\ ss[k.shm].client[k.bucket] = [pid |-> c, state |-> "INIT"]

Occupied(s) == {x \in M!Bucket : s.client[x].state # "EMPTY"}
Due(s) == IF s.giving THEN 1 ELSE 0
UsedIn(s) == Cardinality(Occupied(s)) <= s.numattach + Due(s)

\* Nothing is given back through a queue that is not there.
Sent(qs, gen) == \A q \in 1 .. Gens, c \in Clients : qs[q] = Detach(c) => q <= gen

MapInv ==
  /\ MapTypes /\ Sent(cmds, creator.gen)
  /\ \A g \in 1 .. Gens : UsedIn(segs[g])
  /\ \A c \in Clients : AskerIs(c, clients[c], segs, cmds, creator.gen)

\* A set of numbers has a least one.
LEMMA FirstOf ==
  ASSUME NEW S \in SUBSET Nat, S # {}
  PROVE  (CHOOSE x \in S : \A y \in S : x <= y) \in S
<1>1. IsWellFoundedOn(OpToRel(<, Nat), Nat)
  BY NatLessThanWellFounded
<1>2. PICK m \in S : \A x \in S : ~(<<x, m>> \in OpToRel(<, Nat))
  BY <1>1, WFMin
<1>3. \A x \in S : ~(x < m)
  BY <1>2 DEF OpToRel
<1>4. \A x \in S : m <= x
  BY <1>3
<1> QED BY <1>4

\* The buckets are finitely many, and so are those of them that are occupied.
LEMMA OccupiedFinite ==
  ASSUME MapAssumption, NEW S \in SUBSET M!Bucket
  PROVE  IsFiniteSet(S) /\ Cardinality(S) \in Nat
<1>1. IsFiniteSet(M!Bucket)
  BY FS_Interval DEF MapAssumption, M!Bucket
<1> QED BY <1>1, FS_Subset, FS_CardinalityType

\* Fewer buckets are counted still.
LEMMA FewerCounted ==
  ASSUME MapAssumption, NEW s \in Header, NEW t \in Header, UsedIn(s),
         t.numattach = s.numattach, t.giving = s.giving, Occupied(t) \subseteq Occupied(s)
  PROVE  UsedIn(t)
<1>1. IsFiniteSet(Occupied(s)) /\ Cardinality(Occupied(s)) \in Nat
  BY OccupiedFinite DEF Occupied
<1>2. Cardinality(Occupied(t)) \in Nat
  BY OccupiedFinite DEF Occupied
<1>3. Cardinality(Occupied(t)) <= Cardinality(Occupied(s))
  BY <1>1, FS_Subset
<1>4. s.numattach \in Int /\ Due(s) \in Int /\ Due(t) = Due(s)
  BY DEF Header, Due
<1> QED BY <1>1, <1>2, <1>3, <1>4 DEF UsedIn

\* What the creator does for a client that gives back its buckets
LEMMA DetachedKeeps ==
  ASSUME MapAssumption, NEW s \in Header, UsedIn(s), NEW c
  PROVE  LET t == M!Detached(s, c) IN
         /\ t \in Header /\ UsedIn(t)
         /\ \A x \in M!Bucket : s.client[x].pid # c => t.client[x] = s.client[x]
<1> DEFINE f == [x \in M!Bucket |-> IF s.client[x].pid = c
                                    THEN [s.client[x] EXCEPT !.state = "EMPTY"]
                                    ELSE s.client[x]]
           t == M!Detached(s, c)
<1>1. t = [s EXCEPT !.client = f]
  BY Zenon DEF M!Detached, M!Empties, Header
<1>2. f \in [M!Bucket -> Taken]
  BY DEF Header, Taken
<1>3. \A x \in M!Bucket : /\ s.client[x].pid # c => f[x] = s.client[x]
                          /\ f[x].state # "EMPTY" => s.client[x].state # "EMPTY"
  BY DEF Header, Taken
<1> HIDE DEF f
<1>4. t \in Header /\ t.client = f /\ t.numattach = s.numattach /\ t.giving = s.giving
  BY <1>1, <1>2 DEF Header
<1> HIDE DEF t
<1>5. Occupied(t) \subseteq Occupied(s)
  BY <1>3, <1>4 DEF Occupied
<1> QED BY <1>3, <1>4, <1>5, FewerCounted DEF t

\* What it does for one that asks for a bucket
LEMMA GivenKeeps ==
  ASSUME MapAssumption, NEW s \in Header, UsedIn(s), ~s.giving, NEW c \in Clients \cup {"none"}
  PROVE  LET t == M!Given(s, c) IN
         /\ t \in Header /\ UsedIn(t)
         /\ \A x \in M!Bucket : s.client[x].state # "EMPTY" => t.client[x] = s.client[x]
<1>1. CASE M!EmptyBucket(s) = {}
  BY <1>1 DEF M!Given
<1>2. CASE M!EmptyBucket(s) # {}
  <2> DEFINE E == M!EmptyBucket(s)
             first == CHOOSE x \in E : \A y \in E : x <= y
             t == M!Given(s, c)
  <2>1. first \in E
    <3>1. E \in SUBSET Nat
      BY DEF M!EmptyBucket, M!Bucket, MapAssumption
    <3> HIDE DEF E
    <3> QED BY <1>2, <3>1, FirstOf DEF E
  <2>2. t = [s EXCEPT !.giving = TRUE, !.client[first] = [pid |-> c, state |-> "PREP"]]
    BY <1>2, Zenon DEF M!Given
  <2>3. first \in M!Bucket /\ s.client[first].state = "EMPTY"
    BY <2>1 DEF M!EmptyBucket
  <2> HIDE DEF first, t
  <2> DEFINE f == [s.client EXCEPT ![first] = [pid |-> c, state |-> "PREP"]]
  <2>4. /\ f \in [M!Bucket -> Taken]
        /\ \A x \in M!Bucket : x # first => f[x] = s.client[x]
    BY <2>3 DEF Header, Taken
  <2>5. s.numattach \in Int /\ Due(s) = 0
    BY DEF Header, Due
  <2>6. t = [s EXCEPT !.giving = TRUE, !.client = f]
    BY <2>2 DEF Header
  <2> HIDE DEF f
  <2>7. t \in Header /\ t.client = f /\ t.numattach = s.numattach /\ Due(t) = 1
    BY <2>4, <2>5, <2>6 DEF Header, Due
  <2>8. \A x \in M!Bucket : s.client[x].state # "EMPTY" => t.client[x] = s.client[x]
    BY <2>3, <2>4, <2>7
  <2>9. Occupied(t) \subseteq Occupied(s) \cup {first}
    BY <2>4, <2>7 DEF Occupied
  <2>10. UsedIn(t)
    <3>1. IsFiniteSet(Occupied(s)) /\ Cardinality(Occupied(s)) \in Nat
      BY OccupiedFinite DEF Occupied
    <3>2. first \notin Occupied(s)
      BY <2>3 DEF Occupied
    <3>3. /\ IsFiniteSet(Occupied(s) \cup {first})
          /\ Cardinality(Occupied(s) \cup {first}) = Cardinality(Occupied(s)) + 1
      BY <3>1, <3>2, FS_AddElement
    <3>4. Cardinality(Occupied(t)) <= Cardinality(Occupied(s) \cup {first})
      BY <2>9, <3>3, FS_Subset
    <3>5. Cardinality(Occupied(t)) \in Nat
      BY OccupiedFinite DEF Occupied
    <3> QED BY <2>5, <2>7, <3>1, <3>3, <3>4, <3>5 DEF UsedIn
  <2> QED BY <2>7, <2>8, <2>10 DEF t
<1> QED BY <1>1, <1>2

\* And when it counts that
LEMMA CountedKeeps ==
  ASSUME MapAssumption, NEW s \in Header, UsedIn(s), s.giving
  PROVE  LET t == M!Counted(s) IN t \in Header /\ UsedIn(t) /\ t.client = s.client
<1> DEFINE t == M!Counted(s)
<1>1. s.numattach \in Int /\ s.numattach + 1 \in Int /\ Due(s) = 1
  BY DEF Header, Due
<1>2. t = [s EXCEPT !.giving = FALSE, !.numattach = s.numattach + 1]
  BY DEF M!Counted
<1> HIDE DEF t
<1>3. t \in Header /\ t.client = s.client /\ t.numattach = s.numattach + 1 /\ ~t.giving
  BY <1>1, <1>2 DEF Header
<1>6. Due(t) = 0
  BY <1>3 DEF Due
<1>4. Occupied(t) = Occupied(s) /\ Cardinality(Occupied(s)) \in Nat
  BY <1>3, OccupiedFinite DEF Occupied
<1>5. UsedIn(t)
  BY <1>1, <1>3, <1>4, <1>6 DEF UsedIn
<1> QED BY <1>3, <1>5 DEF t

\* What a client makes of a bucket that is not empty
LEMMA MarkKeeps ==
  ASSUME MapAssumption, NEW s \in Header, UsedIn(s), NEW b \in M!Bucket,
         s.client[b].state # "EMPTY", NEW st \in {"INIT", "CLOSE"},
         NEW t, t = [s EXCEPT !.client[b].state = st]
  PROVE  /\ t \in Header /\ UsedIn(t)
         /\ \A x \in M!Bucket : x # b => t.client[x] = s.client[x]
<1> DEFINE v == [s.client[b] EXCEPT !.state = st]
           f == [s.client EXCEPT ![b] = v]
<1>1. v \in Taken /\ v = [pid |-> s.client[b].pid, state |-> st]
  BY DEF Header, Taken
<1>2. t = [s EXCEPT !.client = f]
  BY DEF Header
<1> HIDE DEF v
<1>3. f \in [M!Bucket -> Taken] /\ f[b] = v /\ \A x \in M!Bucket : x # b => f[x] = s.client[x]
  BY <1>1 DEF Header
<1> HIDE DEF f
<1>4. t \in Header /\ t.client = f /\ t.numattach = s.numattach /\ t.giving = s.giving
  BY <1>2, <1>3 DEF Header
<1>5. Occupied(t) \subseteq Occupied(s)
  BY <1>3, <1>4 DEF Occupied
<1>6. UsedIn(t)
  BY <1>4, <1>5, FewerCounted
<1> QED BY <1>3, <1>4, <1>6

\* A step of the creator's, or of time: a client that stays where it is does not mind a
\* later creator, fewer commands, and headers in which its bucket is as it was.
LEMMA CreatorStep ==
  ASSUME MapAssumption, MapInv, clients' = clients, MapTypes',
         creator.gen <= creator'.gen,
         \A q \in 1 .. Gens : cmds'[q] # cmds[q] => \A c \in Clients : cmds'[q] # Detach(c),
         \A g \in 1 .. Gens : UsedIn(segs'[g]),
         \A c \in Clients : clients[c].pc = "attached" =>
           segs'[clients[c].shm].client[clients[c].bucket]
             = segs[clients[c].shm].client[clients[c].bucket]
  PROVE  MapInv'
<1>1. ASSUME NEW c \in Clients PROVE AskerIs(c, clients'[c], segs', cmds', creator'.gen)
  <2>1. /\ clients[c] \in Asker /\ clients'[c] = clients[c]
        /\ creator.gen \in 0 .. Gens /\ creator'.gen \in 0 .. Gens
    BY DEF MapInv, MapTypes, CreatorIs
  <2>2. AskerIs(c, clients[c], segs, cmds, creator.gen)
    BY DEF MapInv
  <2>3. \A q \in 1 .. Gens : cmds'[q] = Detach(c) => cmds[q] = Detach(c)
    OBVIOUS
  <2>4. clients[c].pc = "attached" =>
          segs'[clients[c].shm].client[clients[c].bucket]
            = segs[clients[c].shm].client[clients[c].bucket]
    OBVIOUS
  <2>5. creator.gen <= creator'.gen /\ Gens \in Nat
    BY DEF MapAssumption
  <2> DEFINE k == clients[c]
             gen == creator'.gen
  <2>6. /\ k.mq \in 0 .. gen /\ (k.pc \in Opened => k.mq >= 1)
        /\ k.pc \in Opened \ {"shm"} => k.shm \in 1 .. gen
    BY <2>1, <2>2, <2>5 DEF AskerIs
  <2>7. k.pc # "idle" => \A q \in 1 .. Gens : cmds'[q] = Detach(c) => q <= k.mq
    BY <2>2, <2>3 DEF AskerIs
  <2>8. k.pc \in {"find", "look", "attached"} => cmds'[k.mq] # Detach(c)
    <3>1. k.pc \in {"find", "look", "attached"} => k.mq \in 1 .. Gens
      BY <2>1, <2>2, <2>5 DEF AskerIs, Opened
    <3> QED BY <2>2, <2>3, <3>1 DEF AskerIs
  <2>9. k.pc = "attached" => /\ k.bucket \in M!Bucket
                             /\ segs'[k.shm].client[k.bucket] = [pid |-> c, state |-> "INIT"]
    BY <2>2, <2>4 DEF AskerIs
  <2>10. AskerIs(c, k, segs', cmds', gen)
    <3> HIDE DEF k, gen
    <3> QED BY <2>6, <2>7, <2>8, <2>9 DEF AskerIs
  <2> QED BY <2>1, <2>10
<1>2. Sent(cmds', creator'.gen)
  <2>1. \A q \in 1 .. Gens, c \in Clients : cmds'[q] = Detach(c) => cmds[q] = Detach(c)
    OBVIOUS
  <2>2. creator.gen \in Int /\ creator'.gen \in Int /\ Sent(cmds, creator.gen)
    BY DEF MapInv, MapTypes, CreatorIs, MapAssumption
  <2> QED BY <2>1, <2>2 DEF Sent
<1> QED BY <1>1, <1>2 DEF MapInv, Sent, AskerIs, UsedIn, Occupied, Due, Detach, M!Bucket

\* The creator goes elsewhere.
LEMMA CreatorGoes ==
  ASSUME MapAssumption, CreatorIs(creator),
         NEW pc \in {"down", "queue", "segment", "managing", "destroying", "destroyed"},
         creator.pc # "down", creator' = [creator EXCEPT !.pc = pc]
  PROVE  CreatorIs(creator') /\ creator'.gen = creator.gen /\ creator.gen \in 1 .. Gens
BY DEF CreatorIs, MapAssumption

\* The creator's steps that leave the headers and the queues
LEMMA SegmentStep ==
  ASSUME MapAssumption, MapInv,
         M!CreateQueue \/ M!CreateSegment \/ M!CreateFails \/ M!CreatorDies
  PROVE  MapInv'
<1> USE DEF M!Gen, M!CreatorAt, M!CreatorTo
<1>0. CreatorIs(creator) /\ NamesAre(names, creator.gen) /\ creator.gen \in Int /\ Gens \in Int
  BY DEF MapInv, MapTypes, CreatorIs, MapAssumption
<1>1. /\ UNCHANGED <<segs, cmds, clients>> /\ creator.gen <= creator'.gen
      /\ CreatorIs(creator') /\ NamesAre(names', creator'.gen)
  <2>1. CASE M!CreateQueue
    <3>1. creator' = [pc |-> "queue", gen |-> creator.gen + 1] /\ creator.gen < Gens
      BY <2>1 DEF M!CreateQueue
    <3>2. CreatorIs(creator') /\ creator'.gen = creator.gen + 1
      BY <1>0, <3>1 DEF CreatorIs
    <3>3. names' = [names EXCEPT !.mq = creator.gen + 1]
      BY <2>1 DEF M!CreateQueue
    <3>4. NamesAre(names', creator.gen + 1)
      BY <1>0, <3>3 DEF NamesAre
    <3> QED BY <1>0, <2>1, <3>2, <3>4 DEF M!CreateQueue
  <2>2. CASE M!CreateSegment
    <3>1. CreatorIs(creator') /\ creator'.gen = creator.gen
      BY <1>0, <2>2, CreatorGoes DEF M!CreateSegment
    <3>2. names' = [names EXCEPT !.shm = creator.gen]
      BY <2>2 DEF M!CreateSegment
    <3>3. NamesAre(names', creator.gen)
      BY <1>0, <3>2 DEF NamesAre, CreatorIs
    <3> QED BY <1>0, <2>2, <3>1, <3>3 DEF M!CreateSegment
  <2>3. CASE M!CreatorDies
    <3>1. CreatorIs(creator') /\ creator'.gen = creator.gen
      BY <1>0, <2>3, CreatorGoes DEF M!CreatorDies
    <3> QED BY <1>0, <2>3, <3>1 DEF M!CreatorDies
  <2>4. CASE M!CreateFails
    <3>1. CreatorIs(creator') /\ creator'.gen = creator.gen
      BY <1>0, <2>4, CreatorGoes DEF M!CreateFails
    <3>2. names' = [mq |-> 0, shm |-> 0] /\ creator.gen \in Nat
      BY <1>0, <2>4 DEF M!CreateFails, CreatorIs
    <3>3. NamesAre(names', creator.gen)
      BY <3>2 DEF NamesAre
    <3> QED BY <1>0, <2>4, <3>1, <3>3 DEF M!CreateFails
  <2> QED BY <2>1, <2>2, <2>3, <2>4
<1>3. MapTypes'
  BY <1>1 DEF MapInv, MapTypes
<1>2. \A g \in 1 .. Gens : UsedIn(segs'[g])
  BY <1>1 DEF MapInv
<1> QED BY <1>1, <1>2, <1>3, CreatorStep

\* A header in which the buckets do not change
LEMMA HeaderStep ==
  ASSUME MapAssumption, MapInv, UNCHANGED <<names, cmds, clients>>,
         creator' = creator \/ \E pc \in {"managing", "destroying"} :
                                creator' = [creator EXCEPT !.pc = pc] /\ creator.pc # "down",
         NEW g \in 1 .. Gens, NEW h \in Header, segs' = [segs EXCEPT ![g] = h],
         h.client = segs[g].client, UsedIn(h)
  PROVE  MapInv'
<1>0. CreatorIs(creator') /\ creator'.gen = creator.gen /\ creator.gen \in Int
  BY CreatorGoes DEF MapInv, MapTypes, CreatorIs, MapAssumption
<1>1. MapTypes'
  BY <1>0 DEF MapInv, MapTypes
<1>3. \A f \in 1 .. Gens : segs'[f] = IF f = g THEN h ELSE segs[f]
  BY DEF MapInv, MapTypes
<1>4. \A f \in 1 .. Gens : UsedIn(segs'[f])
  BY <1>3 DEF MapInv
<1>5. ASSUME NEW c \in Clients, clients[c].pc = "attached"
      PROVE  clients[c].shm \in 1 .. Gens
  <2>1. AskerIs(c, clients[c], segs, cmds, creator.gen) /\ creator.gen \in 0 .. Gens
    BY DEF MapInv, MapTypes, CreatorIs
  <2>2. clients[c].shm \in 1 .. creator.gen
    BY <1>5, <2>1 DEF AskerIs, Opened
  <2> QED BY <2>1, <2>2 DEF MapAssumption
<1>6. ASSUME NEW c \in Clients, clients[c].pc = "attached"
      PROVE  segs'[clients[c].shm].client = segs[clients[c].shm].client
  BY <1>3, <1>5, <1>6
<1> QED BY <1>0, <1>1, <1>4, <1>6, CreatorStep

\* The number of the buckets stays, too.
LEMMA SameUsed ==
  ASSUME NEW s, NEW h, UsedIn(s), h.client = s.client, h.numattach = s.numattach,
         h.giving = s.giving
  PROVE  UsedIn(h)
<1>1. Occupied(h) = Occupied(s) /\ Due(h) = Due(s)
  BY DEF Occupied, Due
<1> QED BY <1>1 DEF UsedIn

\* bk_shmmap_create's header, the creator's close, and time
LEMMA HeadersStep ==
  ASSUME MapAssumption, MapInv,
         M!CreateReady \/ M!CreatorCloses \/ M!Refresh \/ \E g \in 1 .. Gens : M!GrowsOld(g)
  PROVE  MapInv'
<1>0. \A g \in 1 .. Gens : segs[g] \in Header /\ UsedIn(segs[g])
  BY DEF MapInv, MapTypes
<1>1. CASE M!CreateReady
  <2> DEFINE h == [segs[creator.gen] EXCEPT !.state = "READY", !.fresh = TRUE]
  <2>1. /\ creator.gen \in 1 .. Gens /\ creator.pc # "down"
        /\ segs' = [segs EXCEPT ![creator.gen] = h]
        /\ creator' = [creator EXCEPT !.pc = "managing"] /\ UNCHANGED <<names, cmds, clients>>
    BY <1>1 DEF M!CreateReady, M!Gen, M!CreatorAt, M!CreatorTo,
         MapInv, MapTypes, CreatorIs
  <2>2. /\ h \in Header /\ h.client = segs[creator.gen].client
        /\ h.numattach = segs[creator.gen].numattach /\ h.giving = segs[creator.gen].giving
    BY <1>0, <2>1 DEF Header
  <2> HIDE DEF h
  <2>3. UsedIn(h)
    BY <1>0, <2>1, <2>2, SameUsed
  <2> QED BY <2>1, <2>2, <2>3, HeaderStep
<1>2. CASE M!CreatorCloses
  <2> DEFINE h == [segs[creator.gen] EXCEPT !.state = "CLOSE"]
  <2>1. /\ creator.gen \in 1 .. Gens /\ creator.pc # "down"
        /\ segs' = [segs EXCEPT ![creator.gen] = h]
        /\ creator' = [creator EXCEPT !.pc = "destroying"]
        /\ UNCHANGED <<names, cmds, clients>>
    BY <1>2 DEF M!CreatorCloses, M!Gen, M!CreatorAt, M!CreatorTo,
         MapInv, MapTypes, CreatorIs
  <2>2. /\ h \in Header /\ h.client = segs[creator.gen].client
        /\ h.numattach = segs[creator.gen].numattach /\ h.giving = segs[creator.gen].giving
    BY <1>0, <2>1 DEF Header
  <2> HIDE DEF h
  <2>3. UsedIn(h)
    BY <1>0, <2>1, <2>2, SameUsed
  <2> QED BY <2>1, <2>2, <2>3, HeaderStep
<1>4. CASE M!Refresh
  <2> DEFINE h == [segs[creator.gen] EXCEPT !.fresh = TRUE]
  <2>1. /\ creator.gen \in 1 .. Gens /\ segs' = [segs EXCEPT ![creator.gen] = h]
        /\ UNCHANGED <<names, cmds, creator, clients>>
    BY <1>4 DEF M!Refresh, M!Gen, M!CreatorAt, MapInv, MapTypes, CreatorIs
  <2>2. /\ h \in Header /\ h.client = segs[creator.gen].client
        /\ h.numattach = segs[creator.gen].numattach /\ h.giving = segs[creator.gen].giving
    BY <1>0, <2>1 DEF Header
  <2> HIDE DEF h
  <2>3. UsedIn(h)
    BY <1>0, <2>1, <2>2, SameUsed
  <2> QED BY <2>1, <2>2, <2>3, HeaderStep
<1>3. ASSUME NEW g \in 1 .. Gens, M!GrowsOld(g) PROVE MapInv'
  <2> DEFINE h == [segs[g] EXCEPT !.fresh = FALSE]
  <2>1. segs' = [segs EXCEPT ![g] = h] /\ UNCHANGED <<names, cmds, creator, clients>>
    BY <1>3 DEF M!GrowsOld
  <2>2. /\ h \in Header /\ h.client = segs[g].client
        /\ h.numattach = segs[g].numattach /\ h.giving = segs[g].giving
    BY <1>0 DEF Header
  <2> HIDE DEF h
  <2>3. UsedIn(h)
    BY <1>0, <2>2, SameUsed
  <2> QED BY <2>1, <2>2, <2>3, HeaderStep
<1> QED BY <1>1, <1>2, <1>3, <1>4

\* bk_shmmap_destroy of the creator sends its command.
LEMMA DestroysStep == ASSUME MapAssumption, MapInv, M!CreatorDestroys PROVE MapInv'
<1> DEFINE m == [op |-> "destroy", pid |-> "none"]
<1>1. /\ creator.gen \in 1 .. Gens /\ cmds[creator.gen] = <<>>
      /\ creator' = [creator EXCEPT !.pc = "destroyed"] /\ UNCHANGED <<names, segs, clients>>
      /\ cmds' = [cmds EXCEPT ![creator.gen] = Append(cmds[creator.gen], m)]
  BY DEF M!CreatorDestroys, M!Room, M!Send, M!Gen, M!CreatorAt, M!CreatorTo,
         MapInv, MapTypes, CreatorIs
<1>2. m \in Cmd /\ \A c \in Clients : <<m>> # Detach(c)
  BY DEF Cmd, Detach
<1>3. Append(cmds[creator.gen], m) = <<m>>
  BY <1>1
<1> HIDE DEF m
<1>4. cmds' = [cmds EXCEPT ![creator.gen] = <<m>>]
  BY <1>1, <1>3
<1>5. CreatorIs(creator') /\ creator'.gen = creator.gen /\ creator.gen \in Int
  BY <1>1, CreatorGoes DEF MapInv, MapTypes, MapAssumption, M!CreatorDestroys, M!CreatorAt
<1>6. cmds' \in [1 .. Gens -> {<<>>} \cup {<<d>> : d \in Cmd}]
  BY <1>2, <1>4 DEF MapInv, MapTypes
<1>7. MapTypes'
  BY <1>1, <1>5, <1>6 DEF MapInv, MapTypes
<1>8. \A q \in 1 .. Gens : cmds'[q] # cmds[q] => cmds'[q] = <<m>>
  BY <1>1, <1>4 DEF MapInv, MapTypes
<1>9. \A q \in 1 .. Gens : cmds'[q] # cmds[q] => \A c \in Clients : cmds'[q] # Detach(c)
  BY <1>2, <1>8
<1>10. \A g \in 1 .. Gens : UsedIn(segs'[g])
  BY <1>1 DEF MapInv
<1>11. creator.gen <= creator'.gen /\ clients' = clients /\ segs' = segs
  BY <1>1, <1>5
<1> QED BY <1>7, <1>9, <1>10, <1>11, CreatorStep

\* bk_shmmap_manage does what a command says: what a client gives back is not what it has
\* been given since, and nobody is given what is another's.
LEMMA ManageStep == ASSUME MapAssumption, MapInv, M!Manage PROVE MapInv'
<1> DEFINE G == creator.gen
           m == Head(cmds[G])
<1>1. G \in 1 .. Gens /\ creator.pc # "down" /\ cmds[G] # <<>> /\ clients' = clients
      /\ G \in Int
  BY DEF M!Manage, M!ManageThread, M!Gen, MapInv, MapTypes, CreatorIs, MapAssumption
<1>2. PICK d \in Cmd : cmds[G] = <<d>>
  BY <1>1 DEF MapInv, MapTypes
<1>3. m = d /\ Tail(cmds[G]) = <<>>
  BY <1>2
<1>4. cmds' = [cmds EXCEPT ![G] = <<>>]
  BY <1>3 DEF M!Manage, M!Gen
<1>5. \A q \in 1 .. Gens : cmds'[q] # cmds[q] => \A c \in Clients : cmds'[q] # Detach(c)
  BY <1>1, <1>4 DEF MapInv, MapTypes, Detach
<1>0. cmds' \in [1 .. Gens -> {<<>>} \cup {<<e>> : e \in Cmd}]
  BY <1>4 DEF MapInv, MapTypes
<1>6. CASE \/ segs' = segs /\ creator' = [creator EXCEPT !.pc = "down"] /\ names' = names
           \/ segs' = segs /\ creator' = [creator EXCEPT !.pc = "down"]
              /\ names' = [mq |-> 0, shm |-> 0]
  <2>2. CreatorIs(creator') /\ creator'.gen = creator.gen
    BY <1>1, <1>6, CreatorGoes DEF MapInv, MapTypes
  <2>3. NamesAre(names', creator.gen)
    BY <1>1, <1>6 DEF MapInv, MapTypes, NamesAre
  <2>1. MapTypes' /\ creator'.gen = creator.gen
    BY <1>0, <1>1, <1>6, <2>2, <2>3 DEF MapInv, MapTypes
  <2> QED BY <1>1, <1>5, <1>6, <2>1, CreatorStep DEF MapInv
<1>7. ASSUME NEW h, UNCHANGED <<names, creator>>, segs' = [segs EXCEPT ![G] = h],
             \/ d.op = "attach" /\ h = M!Given(segs[G], d.pid)
             \/ d.op # "attach" /\ d.op # "destroy" /\ h = M!Detached(segs[G], d.pid)
      PROVE  MapInv'
  <2>1. segs[G] \in Header /\ UsedIn(segs[G]) /\ d.pid \in Clients \cup {"none"}
        /\ ~segs[G].giving
    BY <1>1 DEF MapInv, MapTypes, Cmd, M!Manage, M!Gen
  <2>2. h \in Header /\ UsedIn(h)
    BY <1>7, <2>1, GivenKeeps, DetachedKeeps
  <2>3. \A f \in 1 .. Gens : segs'[f] = IF f = G THEN h ELSE segs[f]
    BY <1>7 DEF MapInv, MapTypes
  <2>4. \A f \in 1 .. Gens : UsedIn(segs'[f])
    BY <2>2, <2>3 DEF MapInv
  <2>7. segs' \in [1 .. Gens -> Header]
    BY <1>7, <2>2 DEF MapInv, MapTypes
  <2>5. MapTypes'
    BY <1>0, <1>1, <1>7, <2>7 DEF MapInv, MapTypes
  <2>6. ASSUME NEW c \in Clients, clients[c].pc = "attached"
        PROVE  /\ segs'[clients[c].shm].client[clients[c].bucket]
                    = segs[clients[c].shm].client[clients[c].bucket]
    <3> DEFINE k == clients[c]
    <3>1. /\ k.shm \in 1 .. Gens /\ k.mq \in 1 .. G /\ k.bucket \in M!Bucket
          /\ segs[k.shm].client[k.bucket] = [pid |-> c, state |-> "INIT"]
      BY <1>1, <2>6 DEF MapInv, MapTypes, CreatorIs, AskerIs, Opened, MapAssumption
    <3>2. cmds[G] # Detach(c)
      BY <1>1, <2>6, <3>1 DEF MapInv, AskerIs
    <3> HIDE DEF k
    <3>3. CASE k.shm # G
      BY <2>3, <3>1, <3>3 DEF k
    <3>4. CASE k.shm = G
      <4>1. d.op = "attach" => h.client[k.bucket] = segs[G].client[k.bucket]
        BY <1>7, <2>1, <3>1, <3>4, GivenKeeps
      <4>2. d.op # "attach" /\ d.op # "destroy" => d.op = "detach"
        BY DEF Cmd
      <4>3. d.op = "detach" => d.pid # c
        BY <1>2, <3>2 DEF Cmd, Detach
      <4>4. d.op # "attach" /\ d.op # "destroy" => h.client[k.bucket] = segs[G].client[k.bucket]
        BY <1>7, <2>1, <3>1, <3>4, <4>2, <4>3, DetachedKeeps
      <4> QED BY <1>1, <1>7, <2>3, <3>4, <4>1, <4>4 DEF k
    <3> QED BY <3>3, <3>4
  <2> QED BY <1>1, <1>5, <1>7, <2>4, <2>5, <2>6, CreatorStep
<1> QED
  BY <1>3, <1>6, <1>7, Zenon DEF M!Manage, M!Gen, M!CreatorTo

\* It counts a bucket it has given, or dies of it.
LEMMA CountsStep == ASSUME MapAssumption, MapInv, M!ManageCounts PROVE MapInv'
<1> DEFINE G == creator.gen
           h == M!Counted(segs[G])
<1>1. G \in 1 .. Gens /\ creator.pc # "down" /\ segs[G].giving
      /\ UNCHANGED <<names, cmds, clients>>
  BY DEF M!ManageCounts, M!ManageThread, M!Gen, MapInv, MapTypes, CreatorIs
<1>2. CASE segs' = [segs EXCEPT ![G] = h] /\ creator' = creator
  <2>1. segs[G] \in Header /\ UsedIn(segs[G])
    BY <1>1 DEF MapInv, MapTypes
  <2>2. h \in Header /\ UsedIn(h) /\ h.client = segs[G].client
    BY <1>1, <2>1, CountedKeeps
  <2> HIDE DEF h
  <2> QED BY <1>1, <1>2, <2>2, HeaderStep
<1>3. CASE segs' = segs /\ creator' = [creator EXCEPT !.pc = "down"]
  <2>1. CreatorIs(creator') /\ creator'.gen = creator.gen /\ creator.gen \in Int
    BY <1>1, <1>3, CreatorGoes DEF MapInv, MapTypes, MapAssumption
  <2>2. MapTypes'
    BY <1>1, <1>3, <2>1 DEF MapInv, MapTypes
  <2>3. \A g \in 1 .. Gens : UsedIn(segs'[g])
    BY <1>3 DEF MapInv
  <2> QED BY <1>1, <1>3, <2>1, <2>2, <2>3, CreatorStep
<1> QED BY <1>2, <1>3, Zenon DEF M!ManageCounts, M!Gen, M!CreatorTo

\* A client goes elsewhere.
LEMMA AskerGoes ==
  ASSUME NEW k \in Asker, NEW pc \in AskerPlaces, NEW j, j = [k EXCEPT !.pc = pc]
  PROVE  /\ j \in Asker /\ j.pc = pc /\ j.mq = k.mq /\ j.shm = k.shm /\ j.bucket = k.bucket
BY DEF Asker

\* A client's step that sends nothing and marks no bucket
LEMMA OnlyClientStep ==
  ASSUME MapAssumption, MapInv, NEW c \in Clients, NEW k \in Asker,
         clients' = [clients EXCEPT ![c] = k], UNCHANGED <<names, segs, cmds, creator>>,
         AskerIs(c, k, segs, cmds, creator.gen)
  PROVE  MapInv'
<1>1. MapTypes'
  BY DEF MapInv, MapTypes
<1>2. \A d \in Clients : clients'[d] = IF d = c THEN k ELSE clients[d]
  BY DEF MapInv, MapTypes
<1>3. ASSUME NEW d \in Clients PROVE AskerIs(d, clients'[d], segs', cmds', creator'.gen)
  <2>1. CASE d = c
    BY <1>2, <2>1
  <2>2. CASE d # c
    BY <1>2, <2>2 DEF MapInv
  <2> QED BY <2>1, <2>2
<1> QED BY <1>1, <1>3 DEF MapInv, Sent, AskerIs, UsedIn, Occupied, Due, Detach, M!Bucket

\* bk_shmmap_attach fails, or the client lets go.
LEMMA FailedIs ==
  ASSUME MapAssumption, MapTypes, NEW c \in Clients, NEW k,
         k = [M!Unattached EXCEPT !.left = clients[c].left], NEW ss, NEW qs
  PROVE  k \in Asker /\ k.pc = "idle" /\ AskerIs(c, k, ss, qs, creator.gen)
<1>1. k \in Asker /\ k.pc = "idle" /\ k.mq = 0
  BY DEF M!Unattached, MapTypes, Asker, AskerPlaces
<1>2. 0 \in 0 .. creator.gen
  BY DEF MapTypes, CreatorIs, MapAssumption
<1> QED BY <1>1, <1>2 DEF AskerIs, Opened

\* bk_shmmap_attach: the queue and the segment are opened by name
LEMMA OpensStep ==
  ASSUME MapAssumption, MapInv, NEW c \in Clients, M!OpenQueue(c) \/ M!OpenSegment(c)
  PROVE  MapInv'
<1> DEFINE k == clients[c]
<1>0. /\ k \in Asker /\ AskerIs(c, k, segs, cmds, creator.gen) /\ MapTypes
      /\ creator.gen \in 0 .. Gens /\ creator.gen \in Int
      /\ NamesAre(names, creator.gen)
  BY DEF MapInv, MapTypes, CreatorIs, MapAssumption
<1>1. CASE M!OpenQueue(c)
  <2> DEFINE left == k.left - 1
             j == [k EXCEPT !.pc = "shm", !.mq = creator.gen, !.left = left]
  <2>1. names.mq = creator.gen /\ creator.gen >= 1 /\ left \in Int
    BY <1>0, <1>1 DEF M!OpenQueue, NamesAre, Asker
  <2>2. clients' = [clients EXCEPT ![c] = j] /\ UNCHANGED <<names, segs, cmds, creator>>
    BY <1>1, <2>1, Zenon DEF M!OpenQueue, M!OnlyClient
  <2>3. j \in Asker /\ j.pc = "shm" /\ j.mq = creator.gen
    <3>1. creator.gen \in Int /\ left \in Int /\ k \in Asker /\ "shm" \in AskerPlaces
      BY <1>0, <2>1 DEF AskerPlaces, Opened
    <3> HIDE DEF left
    <3> QED BY <3>1 DEF Asker
  <2> HIDE DEF j
  <2>4. ASSUME NEW q \in 1 .. Gens, cmds[q] = Detach(c) PROVE q <= creator.gen
    BY <2>4 DEF MapInv, Sent
  <2>5. AskerIs(c, j, segs, cmds, creator.gen)
    BY <1>0, <2>1, <2>3, <2>4 DEF AskerIs
  <2> QED BY <2>2, <2>3, <2>5, OnlyClientStep
<1>2. CASE M!OpenSegment(c)
  <2>1. CASE names.shm = 0
    <3> DEFINE j == [M!Unattached EXCEPT !.left = clients[c].left]
    <3>1. clients' = [clients EXCEPT ![c] = j] /\ UNCHANGED <<names, segs, cmds, creator>>
      BY <1>2, <2>1 DEF M!OpenSegment, M!Fails, M!OnlyClient
    <3> HIDE DEF j
    <3> QED BY <1>0, <3>1, FailedIs, OnlyClientStep DEF j
  <2>2. CASE names.shm # 0
    <3> DEFINE j == [k EXCEPT !.pc = "map", !.shm = names.shm]
    <3>1. clients' = [clients EXCEPT ![c] = j] /\ UNCHANGED <<names, segs, cmds, creator>>
      BY <1>2, <2>2, Zenon DEF M!OpenSegment, M!OnlyClient
    <3>2. names.shm \in 1 .. creator.gen
      BY <1>0, <2>2 DEF NamesAre
    <3>3. j \in Asker /\ j.pc = "map" /\ j.mq = k.mq /\ j.shm = names.shm
      <4>1. names.shm \in Int /\ k \in Asker /\ "map" \in AskerPlaces
        BY <1>0, <3>2 DEF AskerPlaces, Opened
      <4> QED BY <4>1 DEF Asker
    <3>4. k.pc = "shm"
      BY <1>2 DEF M!OpenSegment, M!At
    <3> HIDE DEF j
    <3>5. AskerIs(c, j, segs, cmds, creator.gen)
      BY <1>0, <3>2, <3>3, <3>4 DEF AskerIs, Opened
    <3> QED BY <3>1, <3>3, <3>5, OnlyClientStep
  <2> QED BY <2>1, <2>2
<1> QED BY <1>1, <1>2

\* It goes on, having got nothing of what it is not to have twice.
LEMMA GoesOn ==
  ASSUME MapAssumption, MapInv, NEW c \in Clients, UNCHANGED <<names, segs, cmds, creator>>,
         NEW pc, M!To(c, pc),
         \/ clients[c].pc \in {"map", "validate", "detach"}
            /\ pc \in {"validate", "detach", "attach"}
         \/ clients[c].pc \in {"find", "look"} /\ pc \in {"find", "look"}
         \/ clients[c].pc # "idle" /\ pc = "dead"
  PROVE  MapInv'
<1> DEFINE k == clients[c]
           j == [k EXCEPT !.pc = pc]
<1>1. k \in Asker /\ AskerIs(c, k, segs, cmds, creator.gen)
  BY DEF MapInv, MapTypes
<1>2. clients' = [clients EXCEPT ![c] = j]
  BY Zenon DEF M!To
<1>3. pc \in AskerPlaces
  BY DEF AskerPlaces, Opened
<1>4. j \in Asker /\ j.pc = pc /\ j.mq = k.mq /\ j.shm = k.shm /\ j.bucket = k.bucket
  BY <1>1, <1>3, AskerGoes
<1> HIDE DEF j
<1>5. AskerIs(c, j, segs, cmds, creator.gen)
  BY <1>1, <1>4 DEF AskerIs, Opened
<1> QED BY <1>2, <1>4, <1>5, OnlyClientStep

\* Or fails.
LEMMA GivesUp ==
  ASSUME MapAssumption, MapInv, NEW c \in Clients, UNCHANGED <<names, segs, cmds, creator>>,
         M!Fails(c)
  PROVE  MapInv'
<1> DEFINE j == [M!Unattached EXCEPT !.left = clients[c].left]
<1>1. clients' = [clients EXCEPT ![c] = j] /\ MapTypes
  BY DEF M!Fails, MapInv
<1> HIDE DEF j
<1> QED BY <1>1, FailedIs, OnlyClientStep DEF j

\* The steps that only look
LEMMA LooksStep ==
  ASSUME MapAssumption, MapInv, NEW c \in Clients,
         M!MapHeader(c) \/ M!Validate(c) \/ M!FindBucket(c) \/ M!ClientDies(c)
  PROVE  MapInv'
<1> USE DEF M!At, M!OnlyClient
<1>1. CASE M!MapHeader(c)
  BY <1>1, GoesOn, GivesUp DEF M!MapHeader
<1>2. CASE M!Validate(c)
  BY <1>2, GoesOn, GivesUp DEF M!Validate
<1>3. CASE M!FindBucket(c)
  BY <1>3, GoesOn, GivesUp DEF M!FindBucket
<1>4. CASE M!ClientDies(c)
  BY <1>4, GoesOn DEF M!ClientDies
<1> QED BY <1>1, <1>2, <1>3, <1>4

\* A command goes into an empty queue.
LEMMA SendStep ==
  ASSUME MapAssumption, MapInv, NEW c \in Clients, UNCHANGED <<names, segs, creator>>,
         M!Room(clients[c].mq), NEW op \in {"attach", "detach"}, M!Send(clients[c].mq, op, c),
         NEW k \in Asker, clients' = [clients EXCEPT ![c] = k],
         k.mq = clients[c].mq, k.shm = clients[c].shm,
         \/ op = "detach" /\ clients[c].pc = "detach" /\ k.pc = "detach"
         \/ op = "attach" /\ clients[c].pc = "attach" /\ k.pc = "find"
  PROVE  MapInv'
<1> DEFINE G == clients[c].mq
           m == [op |-> op, pid |-> c]
<1>1. /\ AskerIs(c, clients[c], segs, cmds, creator.gen) /\ creator.gen \in 0 .. Gens
      /\ clients[c] \in Asker /\ Gens \in Nat
  BY DEF MapInv, MapTypes, CreatorIs, MapAssumption
<1>2. G \in 1 .. Gens /\ G <= creator.gen
  BY <1>1 DEF AskerIs, Opened, Asker
<1>3. cmds[G] = <<>>
  BY <1>2 DEF M!Room, MapInv, MapTypes
<1>4. cmds' = [cmds EXCEPT ![G] = <<m>>]
  BY <1>3 DEF M!Send
<1>5. m \in Cmd
  BY DEF Cmd
<1>6. MapTypes'
  BY <1>4, <1>5 DEF MapInv, MapTypes
<1>7. /\ \A d \in Clients : clients'[d] = IF d = c THEN k ELSE clients[d]
      /\ \A q \in 1 .. Gens : cmds'[q] = IF q = G THEN <<m>> ELSE cmds[q]
  BY <1>4 DEF MapInv, MapTypes
<1>8. \A d : <<m>> = Detach(d) => d = c /\ op = "detach"
  BY DEF Detach
<1> HIDE DEF m
<1>9. AskerIs(c, k, segs, cmds', creator.gen)
  <2>1. k.pc # "idle" => \A q \in 1 .. Gens : cmds'[q] = Detach(c) => q <= k.mq
    BY <1>1, <1>2, <1>7 DEF AskerIs, Asker
  <2>2. k.pc \in {"find", "look", "attached"} => cmds'[k.mq] # Detach(c)
    BY <1>2, <1>7, <1>8
  <2> QED BY <1>1, <2>1, <2>2 DEF AskerIs, Opened
<1>10. ASSUME NEW d \in Clients, d # c PROVE AskerIs(d, clients[d], segs, cmds', creator.gen)
  <2>1. AskerIs(d, clients[d], segs, cmds, creator.gen) /\ clients[d] \in Asker
    BY DEF MapInv, MapTypes
  <2>2. \A q \in 1 .. Gens : cmds'[q] = Detach(d) => cmds[q] = Detach(d)
    BY <1>7, <1>8, <1>10
  <2>3. clients[d].pc \in Opened => clients[d].mq \in 1 .. Gens
    BY <1>1, <2>1 DEF AskerIs, Asker
  <2>4. clients[d].pc \in {"find", "look", "attached"} => cmds'[clients[d].mq] # Detach(d)
    BY <2>1, <2>2, <2>3 DEF AskerIs, Opened
  <2> QED BY <2>1, <2>2, <2>4 DEF AskerIs
<1>11. \A d \in Clients : AskerIs(d, clients'[d], segs', cmds', creator'.gen)
  BY <1>7, <1>9, <1>10
<1>12. Sent(cmds', creator.gen)
  BY <1>2, <1>7, <1>8 DEF MapInv, Sent
<1> QED BY <1>6, <1>11, <1>12 DEF MapInv, Sent, Detach, UsedIn, Occupied, Due, M!Bucket

\* What is sent: a client's buckets from before, until it has none
LEMMA SendsStep ==
  ASSUME MapAssumption, MapInv, NEW c \in Clients, M!DetachOld(c) \/ M!SendAttach(c)
  PROVE  MapInv'
<1>0. clients[c] \in Asker /\ DOMAIN clients = Clients
  BY DEF MapInv, MapTypes
<1>1. CASE M!DetachOld(c)
  <2>1. CASE /\ M!Room(clients[c].mq) /\ M!Send(clients[c].mq, "detach", c)
             /\ clients' = clients /\ UNCHANGED <<names, segs, creator>>
    <3>1. clients' = [clients EXCEPT ![c] = clients[c]] /\ clients[c].pc = "detach"
      BY <1>1, <2>1 DEF M!DetachOld, M!At, MapInv, MapTypes
    <3> QED BY <1>0, <2>1, <3>1, SendStep
  <2>2. CASE (M!Fails(c) \/ M!To(c, "attach")) /\ UNCHANGED <<names, segs, cmds, creator>>
    <3>1. clients[c].pc = "detach"
      BY <1>1 DEF M!DetachOld, M!At
    <3> QED BY <2>2, <3>1, GivesUp, GoesOn
  <2> QED BY <1>1, <2>1, <2>2 DEF M!DetachOld
<1>2. CASE M!SendAttach(c)
  <2> DEFINE j == [clients[c] EXCEPT !.pc = "find"]
  <2>1. clients' = [clients EXCEPT ![c] = j]
    BY <1>2, Zenon DEF M!SendAttach, M!To
  <2>2. j \in Asker /\ j.pc = "find" /\ j.mq = clients[c].mq /\ j.shm = clients[c].shm
    BY <1>0, AskerGoes DEF AskerPlaces, Opened
  <2> HIDE DEF j
  <2>3. /\ M!Room(clients[c].mq) /\ M!Send(clients[c].mq, "attach", c) /\ clients[c].pc = "attach"
        /\ UNCHANGED <<names, segs, creator>>
    BY <1>2 DEF M!SendAttach, M!At
  <2> QED BY <2>1, <2>2, <2>3, SendStep
<1> QED BY <1>1, <1>2

\* A client marks a bucket of its own.
LEMMA MarkStep ==
  ASSUME MapAssumption, MapInv, NEW c \in Clients, UNCHANGED <<names, cmds, creator>>,
         NEW b \in M!Bucket, NEW g \in 1 .. Gens, NEW st \in {"INIT", "CLOSE"},
         segs[g].client[b].pid = c, segs[g].client[b].state # "EMPTY",
         segs' = [segs EXCEPT ![g].client[b].state = st],
         NEW k \in Asker, clients' = [clients EXCEPT ![c] = k],
         AskerIs(c, k, segs', cmds, creator.gen)
  PROVE  MapInv'
<1> DEFINE h == [segs[g] EXCEPT !.client[b].state = st]
<1>1. segs[g] \in Header /\ UsedIn(segs[g]) /\ segs' = [segs EXCEPT ![g] = h]
  BY DEF MapInv, MapTypes
<1>2. /\ h \in Header /\ UsedIn(h)
      /\ \A x \in M!Bucket : x # b => h.client[x] = segs[g].client[x]
  <2> DEFINE s == segs[g]
  <2>1. /\ s \in Header /\ UsedIn(s) /\ s.client[b].state # "EMPTY"
        /\ h = [s EXCEPT !.client[b].state = st]
    BY <1>1
  <2> HIDE DEF s, h
  <2>2. /\ h \in Header /\ UsedIn(h)
        /\ \A x \in M!Bucket : x # b => h.client[x] = s.client[x]
    BY <2>1, MarkKeeps
  <2> QED BY <2>2 DEF s
<1> HIDE DEF h
<1>3. /\ \A f \in 1 .. Gens : segs'[f] = IF f = g THEN h ELSE segs[f]
      /\ \A d \in Clients : clients'[d] = IF d = c THEN k ELSE clients[d]
  BY <1>1 DEF MapInv, MapTypes
<1>4. MapTypes'
  BY <1>1, <1>2 DEF MapInv, MapTypes
<1>5. \A f \in 1 .. Gens : UsedIn(segs'[f])
  BY <1>2, <1>3 DEF MapInv
<1>6. ASSUME NEW d \in Clients, d # c PROVE AskerIs(d, clients[d], segs', cmds, creator.gen)
  <2>1. /\ AskerIs(d, clients[d], segs, cmds, creator.gen) /\ creator.gen \in 0 .. Gens
        /\ Gens \in Nat
    BY DEF MapInv, MapTypes, CreatorIs, MapAssumption
  <2>2. ASSUME clients[d].pc = "attached"
        PROVE  segs'[clients[d].shm].client[clients[d].bucket] = [pid |-> d, state |-> "INIT"]
    <3>1. /\ clients[d].shm \in 1 .. Gens /\ clients[d].bucket \in M!Bucket
          /\ segs[clients[d].shm].client[clients[d].bucket] = [pid |-> d, state |-> "INIT"]
      BY <2>1, <2>2 DEF AskerIs, Opened
    <3>2. clients[d].shm # g \/ clients[d].bucket # b
      BY <1>6, <3>1
    <3> QED BY <1>2, <1>3, <3>1, <3>2
  <2> QED BY <2>1, <2>2 DEF AskerIs
<1>7. ASSUME NEW d \in Clients PROVE AskerIs(d, clients'[d], segs', cmds', creator'.gen)
  <2>1. cmds' = cmds /\ creator' = creator
    OBVIOUS
  <2>2. CASE d = c
    BY <1>3, <2>1, <2>2, Zenon
  <2>3. CASE d # c
    <3>1. clients'[d] = clients[d]
      BY <1>3, <2>3
    <3> QED BY <1>6, <2>1, <2>3, <3>1, Zenon
  <2> QED BY <2>2, <2>3
<1> QED BY <1>4, <1>5, <1>7 DEF MapInv, Sent, Detach, UsedIn, Occupied, Due, M!Bucket

\* A client finds the bucket it was given, or not, and gives it back.
LEMMA BucketStep ==
  ASSUME MapAssumption, MapInv, NEW c \in Clients, M!LookForBucket(c) \/ M!ClientDestroys(c)
  PROVE  MapInv'
<1> DEFINE k == clients[c]
           g == k.shm
<1>0. /\ k \in Asker /\ AskerIs(c, k, segs, cmds, creator.gen) /\ MapTypes
      /\ creator.gen \in 0 .. Gens /\ Gens \in Nat
  BY DEF MapInv, MapTypes, CreatorIs, MapAssumption
<1>1. ASSUME M!LookForBucket(c), M!Prepared(c) = {} PROVE MapInv'
  <2>1. k.pc = "look" /\ M!To(c, "find") /\ UNCHANGED <<names, segs, cmds, creator>>
    BY <1>1 DEF M!LookForBucket, M!At
  <2> QED BY <2>1, GoesOn
<1>2. ASSUME M!LookForBucket(c), M!Prepared(c) # {} PROVE MapInv'
  <2> DEFINE E == M!Prepared(c)
             x == CHOOSE b \in E : \A y \in E : b <= y
             j == [k EXCEPT !.pc = "attached", !.bucket = x]
  <2>1. k.pc = "look" /\ g \in 1 .. Gens
    BY <1>0, <1>2 DEF M!LookForBucket, M!At, AskerIs, Opened
  <2>2. x \in E
    <3>1. E \in SUBSET Nat
      BY DEF M!Prepared, M!Bucket, MapAssumption
    <3> HIDE DEF E
    <3> QED BY <1>2, <3>1, FirstOf DEF E
  <2>3. /\ segs' = [segs EXCEPT ![g].client[x].state = "INIT"]
        /\ clients' = [clients EXCEPT ![c] = j] /\ UNCHANGED <<names, cmds, creator>>
    BY <1>2, Zenon DEF M!LookForBucket
  <2>4. x \in M!Bucket /\ segs[g].client[x].pid = c /\ segs[g].client[x].state = "PREP"
    BY <2>2 DEF M!Prepared, M!Mine, M!Seg
  <2> HIDE DEF x, E
  <2>5. j \in Asker /\ j.pc = "attached" /\ j.mq = k.mq /\ j.shm = k.shm /\ j.bucket = x
    <3>1. x \in Int /\ "attached" \in AskerPlaces
      BY <2>4 DEF M!Bucket, AskerPlaces, Opened
    <3> QED BY <1>0, <3>1 DEF Asker
  <2>6. segs'[g].client[x] = [pid |-> c, state |-> "INIT"]
    <3>1. segs[g] \in Header /\ UsedIn(segs[g]) /\ DOMAIN segs = 1 .. Gens
      BY <2>1 DEF MapInv, MapTypes
    <3>2. segs'[g] = [segs[g] EXCEPT !.client[x].state = "INIT"]
      BY <2>1, <2>3, <3>1
    <3>3. segs[g].client \in [M!Bucket -> Taken] /\ segs[g].client[x] \in Taken
      BY <2>4, <3>1 DEF Header
    <3>4. segs'[g].client[x] = [segs[g].client[x] EXCEPT !.state = "INIT"]
      BY <2>4, <3>1, <3>2, <3>3 DEF Header
    <3> QED BY <2>4, <3>3, <3>4 DEF Taken
  <2> HIDE DEF j
  <2>7. AskerIs(c, j, segs', cmds, creator.gen)
    BY <1>0, <2>1, <2>4, <2>5, <2>6 DEF AskerIs, Opened
  <2> QED BY <2>1, <2>3, <2>4, <2>5, <2>7, MarkStep
<1>3. CASE M!ClientDestroys(c)
  <2> DEFINE j == [M!Unattached EXCEPT !.left = clients[c].left]
  <2>1. k.pc = "attached"
    BY <1>3 DEF M!ClientDestroys, M!At
  <2>2. /\ g \in 1 .. Gens /\ k.bucket \in M!Bucket
        /\ segs[g].client[k.bucket] = [pid |-> c, state |-> "INIT"]
    BY <1>0, <2>1 DEF AskerIs, Opened
  <2>3. /\ segs' = [segs EXCEPT ![g].client[k.bucket].state = "CLOSE"]
        /\ clients' = [clients EXCEPT ![c] = j] /\ UNCHANGED <<names, cmds, creator>>
    BY <1>3 DEF M!ClientDestroys, M!Fails
  <2> HIDE DEF j
  <2>4. j \in Asker /\ AskerIs(c, j, segs', cmds, creator.gen)
    BY <1>0, FailedIs DEF j
  <2>5. segs[g].client[k.bucket].pid = c /\ segs[g].client[k.bucket].state # "EMPTY"
    BY <2>2
  <2> QED BY <2>2, <2>3, <2>4, <2>5, MarkStep
<1> QED BY <1>1, <1>2, <1>3

\* Every step keeps it
LEMMA MapStep == MapAssumption /\ MapInv /\ [M!Next]_(M!smvars) => MapInv'
<1> SUFFICES ASSUME MapAssumption, MapInv, [M!Next]_(M!smvars) PROVE MapInv'
  OBVIOUS
<1>1. CASE UNCHANGED M!smvars
  BY <1>1 DEF M!smvars, MapInv, MapTypes, Sent, NamesAre, CreatorIs, AskerIs, Detach, UsedIn,
              Occupied, Due, M!Bucket
<1>2. ASSUME NEW c \in Clients,
             M!Client(c) \/ M!OpenQueue(c) \/ M!ClientDestroys(c) \/ M!ClientDies(c)
      PROVE  MapInv'
  BY <1>2, OpensStep, LooksStep, SendsStep, BucketStep DEF M!Client
<1> QED BY <1>1, <1>2, SegmentStep, HeadersStep, DestroysStep, ManageStep, CountsStep DEF M!Next

\* Nothing is there at first.
LEMMA MapBegins == MapAssumption /\ M!Init => MapInv
<1> SUFFICES ASSUME MapAssumption, M!Init PROVE MapInv
  OBVIOUS
<1> USE DEF M!Init
<1>1. names = [mq |-> 0, shm |-> 0] /\ creator = [pc |-> "down", gen |-> 0]
  OBVIOUS
<1>2. NamesAre(names, creator.gen) /\ CreatorIs(creator)
  BY <1>1 DEF NamesAre, CreatorIs, MapAssumption
<1>3. M!Blank \in Header /\ Occupied(M!Blank) = {} /\ M!Blank.numattach = 0
      /\ Due(M!Blank) = 0
  BY DEF M!Blank, M!Empty, Header, Taken, Occupied, Due
<1>4. segs \in [1 .. Gens -> Header] /\ \A h \in 1 .. Gens : UsedIn(segs[h])
  <2>1. \A h \in 1 .. Gens : segs[h] = M!Blank
    OBVIOUS
  <2>2. UsedIn(M!Blank)
    BY <1>3, FS_EmptySet DEF UsedIn
  <2>3. segs \in [1 .. Gens -> Header]
    BY <1>3
  <2> QED BY <2>1, <2>2, <2>3
<1>5. cmds \in [1 .. Gens -> {<<>>} \cup {<<m>> : m \in Cmd}] /\ Sent(cmds, creator.gen)
  BY DEF Sent, Detach
<1>6. ASSUME NEW c \in Clients
      PROVE  /\ clients[c] \in Asker /\ AskerIs(c, clients[c], segs, cmds, creator.gen)
  <2>1. clients[c] \in Asker /\ clients[c].pc = "idle" /\ clients[c].mq = 0
    BY DEF M!Unattached, Asker, AskerPlaces, MapAssumption
  <2> QED BY <1>1, <2>1 DEF AskerIs, Opened
<1>7. clients \in [Clients -> Asker]
  BY <1>6
<1> QED BY <1>2, <1>4, <1>5, <1>6, <1>7 DEF MapInv, MapTypes

\* Whatever a client has got of a segment, and of one that was there before, is as it
\* should be, for any number of clients, buckets, creations and attaches.
THEOREM ShmMapInductive == MapAssumption => (M!Spec => []MapInv)
<1> SUFFICES ASSUME MapAssumption PROVE M!Spec => []MapInv
  OBVIOUS
<1>1. M!Init => MapInv
  BY MapBegins
<1>2. MapInv /\ [M!Next]_(M!smvars) => MapInv'
  BY MapStep
<1> QED BY <1>1, <1>2, PTL DEF M!Spec

\* An attached client has a bucket of its own, which neither another client, dead or alive,
\* nor a command that comes late, nor a creator that starts again takes from it.
THEOREM BucketOwnedHolds == MapAssumption => (M!Spec => []M!BucketOwned)
<1> SUFFICES ASSUME MapAssumption PROVE M!Spec => []M!BucketOwned
  OBVIOUS
<1>1. MapInv => M!BucketOwned
  <2> SUFFICES ASSUME MapInv, NEW c \in Clients, clients[c].pc = "attached"
               PROVE  /\ segs[clients[c].shm].client[clients[c].bucket]
                          = [pid |-> c, state |-> "INIT"]
                      /\ \A d \in Clients \ {c} :
                           clients[d].pc = "attached" /\ clients[d].shm = clients[c].shm
                             => clients[d].bucket # clients[c].bucket
    BY DEF M!BucketOwned, M!At, M!Seg
  <2>1. \A d \in Clients : clients[d].pc = "attached" =>
          segs[clients[d].shm].client[clients[d].bucket] = [pid |-> d, state |-> "INIT"]
    BY DEF MapInv, AskerIs
  <2>2. \A d : [pid |-> c, state |-> "INIT"] = [pid |-> d, state |-> "INIT"] => d = c
    OBVIOUS
  <2>3. ASSUME NEW d \in Clients \ {c}, clients[d].pc = "attached",
               clients[d].shm = clients[c].shm, clients[d].bucket = clients[c].bucket
        PROVE  FALSE
    BY <2>1, <2>2, <2>3
  <2> QED BY <2>1, <2>3
<1> QED BY <1>1, ShmMapInductive, PTL

\* sh_numattach counts every bucket that is taken but the one that was given last, if it is
\* not counted yet.
THEOREM AttachCountedHolds == MapAssumption => (M!Spec => []M!AttachCounted)
<1> SUFFICES ASSUME MapAssumption PROVE M!Spec => []M!AttachCounted
  OBVIOUS
<1>1. \A S : M!Cardinality(S) = Cardinality(S)
  BY DEF Cardinality, M!Cardinality
<1>2. MapInv => M!AttachCounted
  BY <1>1 DEF MapInv, UsedIn, Occupied, Due, M!AttachCounted
<1> QED BY <1>2, ShmMapInductive, PTL
=============================================================================
