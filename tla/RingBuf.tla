------------------------------- MODULE RingBuf -------------------------------
(***************************************************************************)
(* The ring buffer of lib/b_ringbuf.c: a bounded queue between writer and  *)
(* reader threads that takes no lock on its data while it has room and     *)
(* items, and falls back on one mutex and one condition variable to sleep. *)
(*                                                                         *)
(* Each hand points to the slot it used last.  Every access to a shared    *)
(* word of the ring is a step of its own, in program order (the code's     *)
(* "Please do not reorder these statements": the hands and slots are       *)
(* volatile); a broadcast is merged with the test that decides on it,      *)
(* which loses nothing because a wait may also end spuriously.             *)
(***************************************************************************)
EXTENDS Integers, Sequences

CONSTANTS
    Writers,      \* threads that call bk_ring_write
    Readers,      \* threads that call bk_ring_read
    Pollers,      \* threads that call bk_ring_length
    Destroyer,    \* the thread that calls bk_ring_destroy
    Size,         \* br_size
    Items,        \* what is written; may contain NULL
    NULL,
    DEADBEEF,     \* the address that marks a consumed slot
    NoLock,       \* threads that pass BK_RING_NOLOCK
    WaitChoices,  \* which values of BK_RING_WAIT reads and writes may pass
    DestroyWaits, \* whether bk_ring_destroy is given BK_RING_WAIT
    MaxPuts       \* bound on the number of items ever written

Threads == Writers \cup Readers \cup Pollers \cup {Destroyer}
Nobody  == "nobody"
Mutexes == {"br_lock", "br_rlock", "br_wlock"}

ASSUME SizeAssumption  == Size \in Nat \ {0}       \* bk_ring_create's test
ASSUME ValueAssumption == DEADBEEF \notin Items /\ MaxPuts \in Nat
ASSUME FlagAssumption  == WaitChoices \subseteq BOOLEAN /\ DestroyWaits \in BOOLEAN
ASSUME RoleAssumption  ==
    /\ Writers \cap Readers = {}
    /\ Pollers \cap (Writers \cup Readers) = {}
    /\ Destroyer \notin Writers \cup Readers \cup Pollers
    /\ Nobody \notin Threads
\* Only a caller that is alone on its side may pass BK_RING_NOLOCK.
ASSUME NoLockAssumption ==
    /\ \A w \in NoLock \cap Writers : Writers = {w}
    /\ \A r \in NoLock \cap Readers : Readers = {r}

PcValues == {"idle", "lock", "test", "use", "stuck", "recheck", "sleep", "woken",
             "rise", "poison", "publish", "notify", "unlock", "looked",
             "dlock", "dtest", "dsawr", "dsaww", "dunlock", "free"} \cup Mutexes

VARIABLES
    br_rhand, br_whand,  \* slot read last, slot written last
    br_ring,             \* the slots
    asleep,              \* br_readasleep and br_writeasleep, by side
    closing,             \* BK_RING_CLOSING of br_flags
    mutex,               \* holder of each mutex
    waiting,             \* threads blocked in pthread_cond_wait on br_cond
    pc,                  \* where each thread is
    opaque, wait, ret,   \* each thread's argument, BK_RING_WAIT, result
    hand,                \* the copy of a hand that a poller or the destroyer made
    fate,                \* "live", "aborted" (abort() ran) or "freed"
    put, got,            \* history: items published, items taken
    seen                 \* history: items taken when a poller read br_rhand,
                         \* items put when the destroyer started

shared == <<br_rhand, br_whand, br_ring>>
locals == <<opaque, wait, ret, hand>>
hist   == <<put, got, seen>>
vars   == <<shared, asleep, closing, mutex, waiting, pc, locals, fate, hist>>
------------------------------------------------------------------------------
Slots        == 0 .. Size - 1
HandPlusOneNoWrap(n) == n + 1      \* mutant

HandPlusOne(n) == (n + 1) % Size
WriteAllowedNoWrap == br_rhand # br_whand + 1    \* mutant

WriteAllowed == br_rhand # HandPlusOne(br_whand)
ReadAllowed  == br_rhand # br_whand

Side(t)    == IF t \in Writers THEN "write" ELSE "read"
SideLock(t) == IF t \in Writers THEN "br_wlock" ELSE "br_rlock"
Allowed(t) == IF t \in Writers THEN WriteAllowed ELSE ReadAllowed

Goto(t, from, to) == fate = "live" /\ pc[t] = from /\ pc' = [pc EXCEPT ![t] = to]
Acquire(t, m) == mutex[m] = Nobody /\ mutex' = [mutex EXCEPT ![m] = t]
Release(m)    == mutex' = [mutex EXCEPT ![m] = Nobody]
Broadcast(c)  == waiting' = IF c THEN {} ELSE waiting

Init ==
    /\ br_rhand = Size - 1 /\ br_whand = Size - 1
    /\ br_ring = [s \in Slots |-> NULL]
    /\ asleep = [s \in {"write", "read"} |-> FALSE]
    /\ closing = FALSE
    /\ mutex = [m \in Mutexes |-> Nobody]
    /\ waiting = {}
    /\ pc = [t \in Threads |-> "idle"]
    /\ opaque = [t \in Threads |-> NULL]
    /\ wait = [t \in Threads |-> FALSE]
    /\ ret = [t \in Threads |-> NULL]
    /\ hand = [t \in Threads |-> 0]
    /\ fate = "live"
    /\ put = <<>> /\ got = <<>>
    /\ seen = [t \in Threads |-> 0]
------------------------------------------------------------------------------
(* What reading and writing have in common: the side's lock, the test for  *)
(* progress, and the way to sleep.                                         *)

\* A call starts; a write on a ring that is closing is refused at the door.
BeginWrite(w) ==
    /\ Goto(w, "idle", "lock")
    /\ ~closing
    /\ Len(put) < MaxPuts
    /\ \E o \in Items, f \in WaitChoices :
          opaque' = [opaque EXCEPT ![w] = o] /\ wait' = [wait EXCEPT ![w] = f]
    /\ UNCHANGED <<shared, asleep, closing, mutex, waiting, ret, hand, fate, hist>>

BeginRead(r) ==
    /\ Goto(r, "idle", "lock")
    /\ \E f \in WaitChoices : wait' = [wait EXCEPT ![r] = f]
    /\ UNCHANGED <<shared, asleep, closing, mutex, waiting, opaque, ret, hand, fate, hist>>

\* Mutant: the side's lock is never taken.
TakeSideLockAlways(t) ==
    /\ Goto(t, "lock", "test")
    /\ UNCHANGED <<shared, asleep, closing, mutex, waiting, locals, fate, hist>>

TakeSideLock(t) ==
    /\ Goto(t, "lock", "test")
    /\ IF t \in NoLock THEN UNCHANGED mutex ELSE Acquire(t, SideLock(t))
    /\ UNCHANGED <<shared, asleep, closing, waiting, locals, fate, hist>>

\* The head of "while we can make no forward progress".
Test(t) ==
    /\ Goto(t, "test", IF Allowed(t) THEN "use" ELSE "stuck")
    /\ UNCHANGED <<shared, asleep, closing, mutex, waiting, locals, fate, hist>>

\* No progress: give up if the ring is closing or the caller will not wait.
GiveUp(t) ==
    /\ Goto(t, "stuck", "unlock")
    /\ closing \/ ~wait[t]
    /\ ret' = [ret EXCEPT ![t] = IF t \in Readers THEN NULL ELSE IF closing THEN -1 ELSE 0]
    /\ UNCHANGED <<shared, asleep, closing, mutex, waiting, opaque, wait, hand, fate, hist>>

\* Mutant: no broadcast before going to sleep.
AnnounceSilently(t) ==
    /\ Goto(t, "stuck", "recheck")
    /\ ~closing /\ wait[t]
    /\ Acquire(t, "br_lock")
    /\ asleep' = [asleep EXCEPT ![Side(t)] = TRUE]
    /\ UNCHANGED <<shared, closing, waiting, locals, fate, hist>>

\* No progress: announce under br_lock that this side is about to sleep.
Announce(t) ==
    /\ Goto(t, "stuck", "recheck")
    /\ ~closing /\ wait[t]
    /\ Acquire(t, "br_lock")
    /\ asleep' = [asleep EXCEPT ![Side(t)] = TRUE]
    /\ Broadcast(TRUE)
    /\ UNCHANGED <<shared, closing, locals, fate, hist>>

\* The second look, with br_lock held.
Recheck(t) ==
    /\ Goto(t, "recheck", IF ~Allowed(t) /\ ~closing THEN "sleep" ELSE "rise")
    /\ UNCHANGED <<shared, asleep, closing, mutex, waiting, locals, fate, hist>>

\* pthread_cond_wait: the mutex is released and the thread blocks, atomically.
Sleep(t) ==
    /\ Goto(t, "sleep", "woken")
    /\ waiting' = waiting \cup {t}
    /\ Release("br_lock")
    /\ UNCHANGED <<shared, asleep, closing, locals, fate, hist>>

\* pthread_cond_wait returns once br_lock is regained.
Wake(t) ==
    /\ Goto(t, "woken", IF t = Destroyer THEN "dtest" ELSE "rise")
    /\ t \notin waiting
    /\ Acquire(t, "br_lock")
    /\ UNCHANGED <<shared, asleep, closing, waiting, locals, fate, hist>>

\* POSIX lets a wait end with no signal.
SpuriousWakeup(t) ==
    /\ fate = "live"
    /\ t \in waiting
    /\ waiting' = waiting \ {t}
    /\ UNCHANGED <<shared, asleep, closing, mutex, pc, locals, fate, hist>>

\* Mutant: whoever was woken takes it that progress is possible.
RiseHasty(t) ==
    /\ Goto(t, "rise", "use")
    /\ asleep' = [asleep EXCEPT ![Side(t)] = FALSE]
    /\ Release("br_lock")
    /\ UNCHANGED <<shared, closing, waiting, locals, fate, hist>>

Rise(t) ==
    /\ Goto(t, "rise", "test")
    /\ asleep' = [asleep EXCEPT ![Side(t)] = FALSE]
    /\ Release("br_lock")
    /\ UNCHANGED <<shared, closing, waiting, locals, fate, hist>>

\* unlockexit: leave the call; its locals go with it.
Return(t) ==
    /\ Goto(t, "unlock", "idle")
    /\ IF t \in NoLock THEN UNCHANGED mutex ELSE Release(SideLock(t))
    /\ opaque' = [opaque EXCEPT ![t] = NULL]
    /\ wait' = [wait EXCEPT ![t] = FALSE]
    /\ ret' = [ret EXCEPT ![t] = NULL]
    /\ UNCHANGED <<shared, asleep, closing, waiting, hand, fate, hist>>
------------------------------------------------------------------------------
(* The data part of bk_ring_write.                                         *)

Store(w) ==
    /\ Goto(w, "use", "publish")
    /\ br_ring' = [br_ring EXCEPT ![HandPlusOne(br_whand)] = opaque[w]]
    /\ UNCHANGED <<br_rhand, br_whand, asleep, closing, mutex, waiting, locals, fate, hist>>

PublishWrite(w) ==
    /\ Goto(w, "publish", "notify")
    /\ br_whand' = HandPlusOne(br_whand)
    /\ ret' = [ret EXCEPT ![w] = 1]
    /\ put' = Append(put, opaque[w])
    /\ UNCHANGED <<br_rhand, br_ring, asleep, closing, mutex, waiting, opaque, wait, hand, fate, got, seen>>

\* The wake-up is sent without br_lock, and only if a reader said it sleeps
\* or the item is the NULL that marks the end.
NotifyReader(w) ==
    /\ Goto(w, "notify", "unlock")
    /\ Broadcast(asleep["read"] \/ opaque[w] = NULL)
    /\ UNCHANGED <<shared, asleep, closing, mutex, locals, fate, hist>>

WriterStep(w) ==
    \/ BeginWrite(w) \/ TakeSideLock(w) \/ Test(w) \/ GiveUp(w) \/ Announce(w)
    \/ Recheck(w) \/ Sleep(w) \/ Wake(w) \/ Rise(w) \/ Return(w)
    \/ Store(w) \/ PublishWrite(w) \/ NotifyReader(w)
------------------------------------------------------------------------------
(* The data part of bk_ring_read.                                          *)

Take(r) ==
    /\ Goto(r, "use", "poison")
    /\ ret' = [ret EXCEPT ![r] = br_ring[HandPlusOne(br_rhand)]]
    /\ got' = Append(got, br_ring[HandPlusOne(br_rhand)])
    /\ UNCHANGED <<shared, asleep, closing, mutex, waiting, opaque, wait, hand, fate, put, seen>>

Poison(r) ==
    /\ Goto(r, "poison", "publish")
    /\ br_ring' = [br_ring EXCEPT ![HandPlusOne(br_rhand)] = DEADBEEF]
    /\ UNCHANGED <<br_rhand, br_whand, asleep, closing, mutex, waiting, locals, fate, hist>>

PublishRead(r) ==
    /\ Goto(r, "publish", "notify")
    /\ br_rhand' = HandPlusOne(br_rhand)
    /\ UNCHANGED <<br_whand, br_ring, asleep, closing, mutex, waiting, locals, fate, hist>>

NotifyWriter(r) ==
    /\ Goto(r, "notify", "unlock")
    /\ Broadcast(asleep["write"] \/ closing \/ ret[r] = NULL)
    /\ UNCHANGED <<shared, asleep, closing, mutex, locals, fate, hist>>

ReaderStep(r) ==
    \/ BeginRead(r) \/ TakeSideLock(r) \/ Test(r) \/ GiveUp(r) \/ Announce(r)
    \/ Recheck(r) \/ Sleep(r) \/ Wake(r) \/ Rise(r) \/ Return(r)
    \/ Take(r) \/ Poison(r) \/ PublishRead(r) \/ NotifyWriter(r)
------------------------------------------------------------------------------
(* bk_ring_length, which looks at the two hands with no lock at all.       *)

DistanceNoWrap(rhand, whand) == whand - rhand     \* mutant

\* Modular distance from the read hand to the write hand.
Distance(rhand, whand) == IF whand < rhand THEN whand + Size - rhand ELSE whand - rhand

\* 1 while a reader has taken an item whose slot it has not given back yet.
Consuming == IF \E r \in Readers : pc[r] \in {"poison", "publish"} THEN 1 ELSE 0

LookAtReadHand(p) ==
    /\ Goto(p, "idle", "looked")
    /\ hand' = [hand EXCEPT ![p] = br_rhand]
    /\ seen' = [seen EXCEPT ![p] = Len(got) - Consuming]
    /\ UNCHANGED <<shared, asleep, closing, mutex, waiting, opaque, wait, ret, fate, put, got>>

LookAtWriteHand(p) ==
    /\ Goto(p, "looked", "idle")
    /\ ret' = [ret EXCEPT ![p] = Distance(hand[p], br_whand)]
    /\ UNCHANGED <<shared, asleep, closing, mutex, waiting, opaque, wait, hand, fate, hist>>

PollerStep(p) == LookAtReadHand(p) \/ LookAtWriteHand(p)
------------------------------------------------------------------------------
(* bk_ring_destroy.  The program stands still once it has aborted or the   *)
(* ring has been freed.                                                    *)

BeginDestroy ==
    /\ Goto(Destroyer, "idle", "dlock")
    /\ closing' = TRUE
    /\ seen' = [seen EXCEPT ![Destroyer] = Len(put)]
    /\ UNCHANGED <<shared, asleep, mutex, waiting, locals, fate, put, got>>

DestroyLock ==
    /\ Goto(Destroyer, "dlock", "dtest")
    /\ Acquire(Destroyer, "br_lock")
    /\ UNCHANGED <<shared, asleep, closing, waiting, locals, fate, hist>>

\* With BK_RING_WAIT, compare the hands, which nothing keeps still: C leaves open
\* which of the two is read first, and a side in flight may move it before the other
\* is read.
DestroyLook ==
    /\ \/ DestroyWaits /\ Goto(Destroyer, "dtest", "dsawr") /\ hand' = [hand EXCEPT ![Destroyer] = br_rhand]
       \/ DestroyWaits /\ Goto(Destroyer, "dtest", "dsaww") /\ hand' = [hand EXCEPT ![Destroyer] = br_whand]
       \/ ~DestroyWaits /\ Goto(Destroyer, "dtest", "dunlock") /\ UNCHANGED hand
    /\ UNCHANGED <<shared, asleep, closing, mutex, waiting, opaque, wait, ret, fate, hist>>

\* The hand that is read second
OtherHand == IF pc[Destroyer] = "dsawr" THEN br_whand ELSE br_rhand

\* Mutant: waits for room instead of for the drain.
DestroyTestRoom ==
    /\ pc[Destroyer] \in {"dsawr", "dsaww"}
    /\ Goto(Destroyer, pc[Destroyer], IF ~WriteAllowed THEN "sleep" ELSE "dunlock")
    /\ Broadcast(~WriteAllowed)
    /\ UNCHANGED <<shared, asleep, closing, mutex, locals, fate, hist>>

\* Wait as long as there seems to be something left to read.
DestroyTest ==
    /\ pc[Destroyer] \in {"dsawr", "dsaww"}
    /\ Goto(Destroyer, pc[Destroyer], IF hand[Destroyer] # OtherHand THEN "sleep" ELSE "dunlock")
    /\ Broadcast(hand[Destroyer] # OtherHand)
    /\ UNCHANGED <<shared, asleep, closing, mutex, locals, fate, hist>>

DestroyUnlock ==
    /\ Goto(Destroyer, "dunlock", "br_lock")
    /\ Release("br_lock")
    /\ UNCHANGED <<shared, asleep, closing, waiting, locals, fate, hist>>

\* The mutexes are destroyed one by one, pc naming the next; destroying one
\* that is held fails with EBUSY and the code calls abort().
AfterMutex == [br_lock |-> "br_rlock", br_rlock |-> "br_wlock", br_wlock |-> "free"]
DestroyMutex ==
    /\ pc[Destroyer] \in Mutexes
    /\ Goto(Destroyer, pc[Destroyer], AfterMutex[pc[Destroyer]])
    /\ fate' = IF mutex[pc[Destroyer]] = Nobody THEN "live" ELSE "aborted"
    /\ UNCHANGED <<shared, asleep, closing, mutex, waiting, locals, hist>>

Free ==
    /\ Goto(Destroyer, "free", "idle")
    /\ fate' = "freed"
    /\ UNCHANGED <<shared, asleep, closing, mutex, waiting, locals, hist>>

DestroyerStep ==
    \/ BeginDestroy \/ DestroyLock \/ DestroyLook \/ DestroyTest \/ Sleep(Destroyer)
    \/ Wake(Destroyer) \/ DestroyUnlock \/ DestroyMutex \/ Free
------------------------------------------------------------------------------
RunNext ==
    \/ \E w \in Writers : WriterStep(w)
    \/ \E r \in Readers : ReaderStep(r)
    \/ \E p \in Pollers : PollerStep(p)
    \/ \E t \in Threads : SpuriousWakeup(t)

Next == RunNext \/ DestroyerStep

Spec == Init /\ [][Next]_vars

\* Threads are scheduled: a call once begun goes on, and a mutex that keeps
\* being released is won in the end.  Nothing obliges a thread to begin a call.
Proceeds(t) ==
    /\ WF_vars(pc[t] # "idle" /\ IF t \in Writers THEN WriterStep(t) ELSE ReaderStep(t))
    /\ SF_vars(TakeSideLock(t) \/ Announce(t) \/ Wake(t))

\* The code's own assumption: "the reader will eventually try to read again".
ReadsAgain == \A r \in Readers : WF_vars(BeginRead(r))

OpenSpec == Init /\ [][RunNext]_vars

LiveSpec ==
    /\ Init /\ [][RunNext]_vars
    /\ \A t \in Writers \cup Readers : Proceeds(t)
    /\ ReadsAgain
------------------------------------------------------------------------------
TypeOK ==
    /\ br_rhand \in Slots /\ br_whand \in Slots
    /\ br_ring \in [Slots -> Items \cup {NULL, DEADBEEF}]
    /\ asleep \in [{"write", "read"} -> BOOLEAN]
    /\ closing \in BOOLEAN
    /\ mutex \in [Mutexes -> Threads \cup {Nobody}]
    /\ waiting \in SUBSET (Writers \cup Readers \cup {Destroyer})
    /\ pc \in [Threads -> PcValues]
    /\ opaque \in [Threads -> Items \cup {NULL}]
    /\ wait \in [Threads -> BOOLEAN]
    /\ ret \in [Threads -> Items \cup {NULL, DEADBEEF} \cup Int]
    /\ hand \in [Threads -> Slots]
    /\ fate \in {"live", "aborted", "freed"}
    /\ put \in Seq(Items) /\ got \in Seq(Items \cup {NULL, DEADBEEF})
    /\ seen \in [Threads -> Int]

\* The items in the ring, oldest first, without one a reader already took.
Length == Distance(br_rhand, br_whand) - Consuming
Queue  == [i \in 1 .. Length |-> br_ring[(br_rhand + Consuming + i) % Size]]

\* Readers get the items in the order they were written, none lost, none twice,
\* and never the mark of a slot already read, whatever the interleaving of
\* slot and hand accesses.
Fifo == put = got \o Queue

\* The writer that fills a slot and the reader that empties one, which share no
\* lock, are never at the same slot.
SlotsApart ==
    \A w \in Writers, r \in Readers :
        /\ pc[w] \in {"use", "publish"}
        /\ pc[r] \in {"use", "poison", "publish"}
        => HandPlusOne(br_whand) # HandPlusOne(br_rhand)

\* "We will NOT ever have both people sleeping at the same time".
NeverBothAsleep == \A w \in Writers, r \in Readers : ~({w, r} \subseteq waiting)

\* The ring implements a channel that holds one item less than its size.
Chan == INSTANCE Channel WITH queue <- Queue, Capacity <- Size - 1
ImplementsChannel == Chan!Spec

\* bk_ring_length is exact (items written by the time it looks at the write
\* hand, less those read when it looked at the read hand) unless a whole ring's
\* worth went by in between.
LengthExact ==
    [][\A p \in Pollers :
        LookAtWriteHand(p) /\ Len(put) - seen[p] < Size
            => ret'[p] = Len(put) - seen[p]]_vars

\* A write that waits for room gets out of bk_ring_write, although the wake-up
\* of the reader can be lost, as long as the readers keep reading.
WriteReturns == \A w \in Writers : pc[w] # "idle" ~> pc[w] = "idle"

\* bk_ring_destroy with BK_RING_WAIT does not free a ring before everything that
\* was in it has been read, although readers that find it closing give up, if no
\* write that was under way stores an item after the ring began to close.
DrainedWhenFreed ==
    DestroyWaits /\ fate = "freed" /\ Len(put) = seen[Destroyer] => Len(got) = Len(put)

\* The same whatever is under way.  It does not hold: the destroyer takes the read
\* hand of a full ring, a reader makes room, a writer that was let in before the
\* ring closed fills it, and the write hand is then where the read hand was.
DrainedWithWriters == DestroyWaits /\ fate = "freed" => Len(got) >= seen[Destroyer]

\* bk_ring_destroy aborts if a mutex is still held: the code asserts it is not.
NeverAborts == fate # "aborted"

=============================================================================
