---------------------------- MODULE RingBufProofs ----------------------------
(***************************************************************************)
(* The ring buffer is correct for every number of threads, every size and  *)
(* every set of items: readers get the items in order, the two sides never *)
(* meet at a slot, the ring implements a bounded channel, its length is    *)
(* exact, and it is freed when it was drained.                             *)
(*                                                                         *)
(* The strengthening says which thread may be past a side's lock (so there *)
(* is one on each side at most), what the test each side made still means, *)
(* and what every slot between the hands holds.                            *)
(***************************************************************************)
EXTENDS RingBuf, SequenceTheorems, TLAPS

WriterPc == {"idle", "lock", "test", "use", "stuck", "recheck", "sleep", "woken",
             "rise", "publish", "notify", "unlock"}
ReaderPc == WriterPc \cup {"poison"}
InCall   == ReaderPc \ {"idle", "lock"}

RoleInv ==
    /\ \A w \in Writers : pc[w] \in WriterPc /\ (pc[w] # "idle" => opaque[w] \in Items)
    /\ \A r \in Readers : pc[r] \in ReaderPc

\* A thread past the side's lock holds it, unless it is the side's only thread.
LockInv ==
    \A t \in Writers \cup Readers :
        pc[t] \in InCall /\ t \notin NoLock => mutex[SideLock(t)] = t

\* The progress a side saw stays until it has used it.
HandInv ==
    /\ \A w \in Writers :
          /\ pc[w] \in {"use", "publish"} => WriteAllowed
          /\ pc[w] = "publish" => br_ring[HandPlusOne(br_whand)] = opaque[w]
    /\ \A r \in Readers : pc[r] \in {"use", "poison", "publish"} => ReadAllowed

Wrap(x) == IF x < Size THEN x ELSE x - Size

\* What was put is what was taken, then the slots between the hands.
DataInv ==
    /\ Len(put) = Len(got) + Length
    /\ \A i \in 1 .. Len(got) : put[i] = got[i]
    /\ \A i \in 1 .. Length : put[Len(got) + i] = br_ring[Wrap(br_rhand + Consuming + i)]

IInv == TypeOK /\ RoleInv /\ LockInv /\ HandInv /\ DataInv
------------------------------------------------------------------------------
(* Arithmetic of the hands.                                                *)

\* Within two turns of the ring, % Size is a wrap.
LEMMA WrapIsMod ==
    ASSUME NEW x \in Nat, x < Size + Size
    PROVE  x % Size = Wrap(x)
  BY SizeAssumption, SMT DEF Wrap

\* HAND_PLUS_ONE stays on the ring and wraps at its end.
LEMMA PlusOne ==
    ASSUME NEW n \in Slots
    PROVE  HandPlusOne(n) \in Slots /\ HandPlusOne(n) = Wrap(n + 1)
  <1>1. n + 1 \in Nat /\ n + 1 < Size + Size
    BY SizeAssumption DEF Slots
  <1>2. HandPlusOne(n) = Wrap(n + 1)
    BY <1>1, WrapIsMod DEF HandPlusOne
  <1>. QED
    BY <1>2, SizeAssumption DEF Slots, Wrap

\* The distance between the hands is less than the size, zero only when they meet.
LEMMA DistanceBound ==
    ASSUME NEW r \in Slots, NEW w \in Slots
    PROVE  /\ Distance(r, w) \in 0 .. Size - 1
           /\ Distance(r, w) = 0 <=> r = w
           /\ r # Wrap(w + 1) => /\ Distance(r, w) < Size - 1
                                 /\ Distance(r, Wrap(w + 1)) = Distance(r, w) + 1
           /\ r # w => Distance(Wrap(r + 1), w) = Distance(r, w) - 1
  BY SizeAssumption DEF Slots, Distance, Wrap

\* Different slots have different successors.
LEMMA PlusOneDiffers ==
    ASSUME NEW m \in Slots, NEW n \in Slots, m # n
    PROVE  HandPlusOne(m) # HandPlusOne(n)
  <1>1. Wrap(m + 1) # Wrap(n + 1)
    BY SizeAssumption DEF Wrap, Slots
  <1>. QED
    BY <1>1, PlusOne

\* The slots between the hands are on the ring, differ from the one that is
\* written next, and all but the first differ from the one that is read next.
LEMMA QueueSlot ==
    ASSUME NEW r \in Slots, NEW w \in Slots, NEW i \in 1 .. Distance(r, w)
    PROVE  /\ Wrap(r + i) \in Slots
           /\ Wrap(r + i) # Wrap(w + 1)
           /\ i # 1 => Wrap(r + i) # Wrap(r + 1)
  BY SizeAssumption DEF Slots, Distance, Wrap
------------------------------------------------------------------------------
\* At most one thread of each side is past the side's lock.
LEMMA Alone ==
    ASSUME RoleInv, LockInv
    PROVE  /\ \A v, w \in Writers : pc[v] \in InCall /\ pc[w] \in InCall => v = w
           /\ \A q, r \in Readers : pc[q] \in InCall /\ pc[r] \in InCall => q = r
  BY NoLockAssumption, RoleAssumption DEF LockInv, SideLock

\* Typing and the roles' program counters are inductive together.
LEMMA TypingStep ==
    ASSUME TypeOK, RoleInv, [Next]_vars
    PROVE  TypeOK' /\ RoleInv'
  <1>. USE RoleAssumption, SizeAssumption, FlagAssumption
       DEF TypeOK, RoleInv, Threads, PcValues, WriterPc, ReaderPc, Goto, shared, locals, hist
  <1>1. ASSUME NEW w \in Writers, BeginWrite(w)
       PROVE  TypeOK' /\ RoleInv'
    BY <1>1 DEF BeginWrite
  <1>2. ASSUME NEW w \in Writers, Store(w)
       PROVE  TypeOK' /\ RoleInv'
    BY <1>2, PlusOne DEF Store
  <1>3. ASSUME NEW w \in Writers, PublishWrite(w)
       PROVE  TypeOK' /\ RoleInv'
    BY <1>3, PlusOne DEF PublishWrite
  <1>4. ASSUME NEW w \in Writers, NotifyReader(w)
       PROVE  TypeOK' /\ RoleInv'
    BY <1>4 DEF NotifyReader, Broadcast
  <1>5. ASSUME NEW t \in Writers \cup Readers, TakeSideLock(t)
       PROVE  TypeOK' /\ RoleInv'
    BY <1>5 DEF TakeSideLock, Acquire, SideLock, Mutexes
  <1>6. ASSUME NEW t \in Writers \cup Readers, Test(t)
       PROVE  TypeOK' /\ RoleInv'
    BY <1>6 DEF Test
  <1>7. ASSUME NEW t \in Writers \cup Readers, GiveUp(t)
       PROVE  TypeOK' /\ RoleInv'
    BY <1>7 DEF GiveUp
  <1>8. ASSUME NEW t \in Writers \cup Readers, Announce(t)
       PROVE  TypeOK' /\ RoleInv'
    BY <1>8 DEF Announce, Acquire, Broadcast, Side, Mutexes
  <1>9. ASSUME NEW t \in Writers \cup Readers, Recheck(t)
       PROVE  TypeOK' /\ RoleInv'
    BY <1>9 DEF Recheck
  <1>10. ASSUME NEW t \in Writers \cup Readers \cup {Destroyer}, Sleep(t)
       PROVE  TypeOK' /\ RoleInv'
    BY <1>10 DEF Sleep, Release, Mutexes
  <1>11. ASSUME NEW t \in Writers \cup Readers \cup {Destroyer}, Wake(t)
       PROVE  TypeOK' /\ RoleInv'
    BY <1>11 DEF Wake, Acquire, Mutexes
  <1>12. ASSUME NEW t \in Writers \cup Readers, Rise(t)
       PROVE  TypeOK' /\ RoleInv'
    BY <1>12 DEF Rise, Release, Side, Mutexes
  <1>13. ASSUME NEW t \in Writers \cup Readers, Return(t)
       PROVE  TypeOK' /\ RoleInv'
    BY <1>13 DEF Return, Release, SideLock, Mutexes
  <1>14. ASSUME NEW r \in Readers, BeginRead(r)
       PROVE  TypeOK' /\ RoleInv'
    BY <1>14 DEF BeginRead
  <1>15. ASSUME NEW r \in Readers, Take(r)
       PROVE  TypeOK' /\ RoleInv'
    BY <1>15, PlusOne DEF Take
  <1>16. ASSUME NEW r \in Readers, Poison(r)
       PROVE  TypeOK' /\ RoleInv'
    BY <1>16, PlusOne DEF Poison
  <1>17. ASSUME NEW r \in Readers, PublishRead(r)
       PROVE  TypeOK' /\ RoleInv'
    BY <1>17, PlusOne DEF PublishRead
  <1>18. ASSUME NEW r \in Readers, NotifyWriter(r)
       PROVE  TypeOK' /\ RoleInv'
    BY <1>18 DEF NotifyWriter, Broadcast
  <1>19. ASSUME NEW p \in Pollers, LookAtReadHand(p)
       PROVE  TypeOK' /\ RoleInv'
    BY <1>19 DEF LookAtReadHand, Consuming
  <1>20. ASSUME NEW p \in Pollers, LookAtWriteHand(p)
       PROVE  TypeOK' /\ RoleInv'
    BY <1>20 DEF LookAtWriteHand, Distance, Slots
  <1>21. ASSUME BeginDestroy
       PROVE  TypeOK' /\ RoleInv'
    BY <1>21 DEF BeginDestroy
  <1>22. ASSUME DestroyLock
       PROVE  TypeOK' /\ RoleInv'
    BY <1>22 DEF DestroyLock, Acquire, Mutexes
  <1>23. ASSUME DestroyTest
       PROVE  TypeOK' /\ RoleInv'
    BY <1>23 DEF DestroyTest, Broadcast
  <1>29. ASSUME DestroyLook
       PROVE  TypeOK' /\ RoleInv'
    <2>1. br_rhand \in Slots /\ br_whand \in Slots /\ Destroyer \in Threads
      OBVIOUS
    <2>2. hand' \in [Threads -> Slots]
      BY <1>29, <2>1 DEF DestroyLook
    <2>3. /\ pc' \in [Threads -> PcValues] /\ \A t \in Threads \ {Destroyer} : pc'[t] = pc[t]
          /\ UNCHANGED <<shared, asleep, closing, mutex, waiting, opaque, wait, ret, fate, hist>>
      BY <1>29 DEF DestroyLook
    <2>. QED
      BY <2>2, <2>3
  <1>24. ASSUME DestroyUnlock
       PROVE  TypeOK' /\ RoleInv'
    BY <1>24 DEF DestroyUnlock, Release, Mutexes
  <1>25. ASSUME DestroyMutex
       PROVE  TypeOK' /\ RoleInv'
    BY <1>25 DEF DestroyMutex, Mutexes, AfterMutex
  <1>26. ASSUME Free
       PROVE  TypeOK' /\ RoleInv'
    BY <1>26 DEF Free
  <1>27. ASSUME NEW t \in Threads, SpuriousWakeup(t)
       PROVE  TypeOK' /\ RoleInv'
    BY <1>27 DEF SpuriousWakeup
  <1>28. CASE UNCHANGED vars
    BY <1>28 DEF vars
  <1>. QED
    BY <1>1, <1>2, <1>3, <1>4, <1>5, <1>6, <1>7, <1>8, <1>9, <1>10, <1>11, <1>12, <1>13, <1>14,
       <1>15, <1>16, <1>17, <1>18, <1>19, <1>20, <1>21, <1>22, <1>23, <1>24, <1>25, <1>26, <1>27,
       <1>28, <1>29
       DEF Next, RunNext, WriterStep, ReaderStep, PollerStep, DestroyerStep

\* Holding the side's lock is inductive.
LEMMA LockStep ==
    ASSUME TypeOK, RoleInv, LockInv, [Next]_vars
    PROVE  LockInv'
  <1>. USE RoleAssumption DEF TypeOK, LockInv, RoleInv, Threads, Mutexes, SideLock,
           InCall, WriterPc, ReaderPc, Goto
  <1>1. ASSUME NEW t \in Writers \cup Readers, TakeSideLock(t)
        PROVE  LockInv'
    BY <1>1 DEF TakeSideLock, Acquire
  <1>2. ASSUME NEW t \in Writers \cup Readers, Return(t)
        PROVE  LockInv'
    BY <1>2, NoLockAssumption DEF Return, Release
  <1>3. ASSUME NEW t \in Writers \cup Readers, Announce(t) \/ Rise(t)
        PROVE  LockInv'
    <2>1. CASE Announce(t)
      BY <2>1 DEF Announce, Acquire
    <2>2. CASE Rise(t)
      BY <2>2 DEF Rise, Release
    <2>. QED
      BY <1>3, <2>1, <2>2
  <1>4. ASSUME NEW t \in Writers \cup Readers \cup {Destroyer}, Sleep(t) \/ Wake(t)
        PROVE  LockInv'
    <2>1. CASE Sleep(t)
      BY <2>1 DEF Sleep, Release
    <2>2. CASE Wake(t)
      BY <2>2 DEF Wake, Acquire
    <2>. QED
      BY <1>4, <2>1, <2>2
  <1>5. ASSUME NEW t \in Writers \cup Readers,
               \/ Test(t) \/ GiveUp(t) \/ Recheck(t) \/ BeginWrite(t) \/ Store(t)
               \/ PublishWrite(t) \/ NotifyReader(t) \/ BeginRead(t) \/ Take(t)
               \/ Poison(t) \/ PublishRead(t) \/ NotifyWriter(t)
        PROVE  LockInv'
    BY <1>5 DEF Test, GiveUp, Recheck, BeginWrite, Store, PublishWrite, NotifyReader,
                BeginRead, Take, Poison, PublishRead, NotifyWriter
  <1>6. ASSUME NEW p \in Pollers, PollerStep(p)
        PROVE  LockInv'
    BY <1>6 DEF PollerStep, LookAtReadHand, LookAtWriteHand
  <1>7. ASSUME DestroyLock \/ DestroyUnlock
        PROVE  LockInv'
    BY <1>7 DEF DestroyLock, DestroyUnlock, Acquire, Release
  <1>8. ASSUME BeginDestroy \/ DestroyLook \/ DestroyTest \/ DestroyMutex \/ Free
        PROVE  LockInv'
    BY <1>8 DEF BeginDestroy, DestroyLook, DestroyTest, DestroyMutex, Free
  <1>9. ASSUME NEW t \in Threads, SpuriousWakeup(t)
        PROVE  LockInv'
    BY <1>9 DEF SpuriousWakeup
  <1>10. CASE UNCHANGED vars
    BY <1>10 DEF vars
  <1>. QED
    BY <1>1, <1>2, <1>3, <1>4, <1>5, <1>6, <1>7, <1>8, <1>9, <1>10
       DEF Next, RunNext, WriterStep, ReaderStep, DestroyerStep

\* Steps that move no hand, no slot and no writer or reader to or from its use
\* of a slot; the steps they are not are the ones the data depends on.
StillStep ==
    \/ \E w \in Writers : BeginWrite(w) \/ NotifyReader(w)
    \/ \E r \in Readers : BeginRead(r) \/ NotifyWriter(r)
    \/ \E t \in Writers \cup Readers :
          TakeSideLock(t) \/ GiveUp(t) \/ Announce(t) \/ Recheck(t) \/ Rise(t) \/ Return(t)
    \/ \E t \in Writers \cup Readers \cup {Destroyer} : Sleep(t) \/ Wake(t)
    \/ \E p \in Pollers : PollerStep(p)
    \/ BeginDestroy \/ DestroyLock \/ DestroyLook \/ DestroyTest \/ DestroyUnlock
    \/ DestroyMutex \/ Free
    \/ \E t \in Threads : SpuriousWakeup(t)
    \/ UNCHANGED vars

\* The slot a thread is about to use or give back, by where it is.
AtSlot == {"use", "poison", "publish"}

\* What a still step leaves alone.
LEMMA StillFrame ==
    ASSUME TypeOK, RoleInv, StillStep
    PROVE  /\ UNCHANGED <<shared, put, got>>
           /\ Consuming' = Consuming
           /\ \A t \in Writers \cup Readers :
                 pc'[t] \in AtSlot => pc'[t] = pc[t] /\ opaque'[t] = opaque[t]
  <1>. USE RoleAssumption DEF TypeOK, Threads, Goto, AtSlot
  <1>1. UNCHANGED <<shared, put, got>>
    BY DEF StillStep, BeginWrite, NotifyReader, BeginRead, NotifyWriter, TakeSideLock, GiveUp,
           Announce, Recheck, Rise, Return, Sleep, Wake, PollerStep, LookAtReadHand,
           LookAtWriteHand, BeginDestroy, DestroyLock, DestroyLook, DestroyTest, DestroyUnlock,
           DestroyMutex, Free, SpuriousWakeup, vars, hist
  <1>2. \A t \in Writers \cup Readers :
          /\ pc'[t] \in AtSlot <=> pc[t] \in AtSlot
          /\ pc'[t] \in AtSlot => pc'[t] = pc[t] /\ opaque'[t] = opaque[t]
    <2>1. CASE \/ \E w \in Writers : BeginWrite(w) \/ NotifyReader(w)
               \/ \E r \in Readers : BeginRead(r) \/ NotifyWriter(r)
      BY <2>1 DEF BeginWrite, NotifyReader, BeginRead, NotifyWriter, locals
    <2>2. CASE \E t \in Writers \cup Readers : TakeSideLock(t) \/ GiveUp(t) \/ Announce(t)
      BY <2>2 DEF TakeSideLock, GiveUp, Announce, Acquire, Broadcast, locals
    <2>3. CASE \E t \in Writers \cup Readers : Recheck(t) \/ Rise(t) \/ Return(t)
      BY <2>3 DEF Recheck, Rise, Return, locals
    <2>4. CASE \E t \in Writers \cup Readers \cup {Destroyer} : Sleep(t) \/ Wake(t)
      BY <2>4 DEF Sleep, Wake, locals
    <2>5. CASE \E p \in Pollers : PollerStep(p)
      BY <2>5 DEF PollerStep, LookAtReadHand, LookAtWriteHand, locals
    <2>6. CASE BeginDestroy \/ DestroyLock \/ DestroyLook \/ DestroyTest \/ DestroyUnlock \/ Free
      BY <2>6 DEF BeginDestroy, DestroyLock, DestroyLook, DestroyTest, DestroyUnlock, Free, locals
    <2>7. CASE DestroyMutex
      BY <2>7 DEF DestroyMutex, locals
    <2>8. CASE UNCHANGED vars \/ \E t \in Threads : SpuriousWakeup(t)
      BY <2>8 DEF SpuriousWakeup, vars, locals
    <2>. QED
      BY <2>1, <2>2, <2>3, <2>4, <2>5, <2>6, <2>7, <2>8 DEF StillStep
  <1>. QED
    BY <1>1, <1>2 DEF Consuming

\* What a side saw stays true until it has used it: the other side only ever
\* makes room or adds items.
LEMMA HandStep ==
    ASSUME TypeOK, RoleInv, LockInv, HandInv, [Next]_vars
    PROVE  HandInv'
  <1>. USE RoleAssumption DEF Threads, Goto, InCall, WriterPc, ReaderPc
  <1>1. /\ \A v, w \in Writers : pc[v] \in InCall /\ pc[w] \in InCall => v = w
        /\ \A q, r \in Readers : pc[q] \in InCall /\ pc[r] \in InCall => q = r
    BY Alone
  <1>2. CASE StillStep
    BY <1>2, StillFrame DEF HandInv, shared, AtSlot, WriteAllowed, ReadAllowed, HandPlusOne
  <1>3. ASSUME NEW t \in Writers \cup Readers, Test(t)
        PROVE  HandInv'
    BY <1>3 DEF Test, Allowed, HandInv, TypeOK, shared, locals, WriteAllowed, ReadAllowed
  <1>4. ASSUME NEW w \in Writers, Store(w)
        PROVE  HandInv'
    BY <1>1, <1>4, PlusOne DEF Store, HandInv, TypeOK, locals, WriteAllowed, ReadAllowed
  <1>5. ASSUME NEW w \in Writers, PublishWrite(w)
        PROVE  HandInv'
    BY <1>1, <1>5 DEF PublishWrite, HandInv, TypeOK, WriteAllowed, ReadAllowed
  <1>6. ASSUME NEW r \in Readers, Take(r)
        PROVE  HandInv'
    BY <1>1, <1>6 DEF Take, HandInv, TypeOK, shared, WriteAllowed, ReadAllowed
  <1>7. ASSUME NEW r \in Readers, Poison(r)
        PROVE  HandInv'
    <2>1. HandPlusOne(br_rhand) # HandPlusOne(br_whand)
      BY <1>7, PlusOneDiffers DEF Poison, HandInv, TypeOK, ReadAllowed
    <2>. QED
      BY <1>1, <1>7, <2>1, PlusOne DEF Poison, HandInv, TypeOK, locals, WriteAllowed, ReadAllowed
  <1>8. ASSUME NEW r \in Readers, PublishRead(r)
        PROVE  HandInv'
    <2>1. HandPlusOne(br_rhand) # HandPlusOne(br_whand)
      BY <1>8, PlusOneDiffers DEF PublishRead, HandInv, TypeOK, ReadAllowed
    <2>. QED
      BY <1>1, <1>8, <2>1 DEF PublishRead, HandInv, TypeOK, locals, WriteAllowed, ReadAllowed
  <1>. QED
    BY <1>2, <1>3, <1>4, <1>5, <1>6, <1>7, <1>8
       DEF Next, RunNext, WriterStep, ReaderStep, DestroyerStep, StillStep

\* A reader is consuming exactly while it is between taking an item and
\* publishing its hand.
LEMMA ConsumingIs ==
    ASSUME RoleInv, LockInv, NEW r \in Readers, pc[r] \in InCall
    PROVE  Consuming = IF pc[r] \in {"poison", "publish"} THEN 1 ELSE 0
  BY Alone DEF Consuming, InCall, ReaderPc, WriterPc

\* The slot of an item that is in the ring.
LEMMA SlotAfter ==
    ASSUME br_rhand \in Slots, br_whand \in Slots, Consuming \in {0, 1},
           NEW i \in 1 .. Length
    PROVE  /\ Wrap(br_rhand + Consuming + i) \in Slots
           /\ Wrap(br_rhand + Consuming + i) # Wrap(br_whand + 1)
           /\ Consuming = 1 => Wrap(br_rhand + Consuming + i) # Wrap(br_rhand + 1)
  <1>1. Distance(br_rhand, br_whand) \in Nat
    BY DistanceBound, SizeAssumption
  <1>2. Consuming + i \in 1 .. Distance(br_rhand, br_whand)
    BY <1>1 DEF Length
  <1>3. br_rhand + (Consuming + i) = br_rhand + Consuming + i
    BY <1>1 DEF Length, Slots
  <1>4. Consuming = 1 => Consuming + i # 1
    BY <1>1 DEF Length
  <1>. QED
    BY <1>2, <1>3, <1>4, QueueSlot

\* The history and the slots stay in agreement.
LEMMA DataStep ==
    ASSUME IInv, [Next]_vars
    PROVE  DataInv'
  <1>. USE RoleAssumption, SizeAssumption DEF IInv, Threads, Goto
  <1>1. /\ br_rhand \in Slots /\ br_whand \in Slots
        /\ Consuming \in {0, 1}
        /\ Length \in Int
        /\ put \in Seq(Items) /\ got \in Seq(Items \cup {NULL, DEADBEEF})
    BY SMTT(40), DistanceBound DEF TypeOK, Length, Consuming
  <1>2. CASE StillStep
    BY <1>2, StillFrame DEF DataInv, Length, shared, Distance
  <1>3. ASSUME NEW t \in Writers \cup Readers, Test(t)
        PROVE  DataInv'
    <2>1. UNCHANGED <<shared, put, got>>
      BY <1>3 DEF Test, hist
    <2>2. Consuming' = Consuming
      BY <1>3 DEF Test, Consuming, TypeOK
    <2>. QED
      BY <2>1, <2>2 DEF DataInv, Length, shared, Distance
  <1>4. ASSUME NEW w \in Writers, Store(w)
        PROVE  DataInv'
    <2>1. Consuming' = Consuming /\ UNCHANGED <<br_rhand, br_whand, put, got>>
      BY <1>4 DEF Store, Consuming, TypeOK, hist
    <2>2. \A i \in 1 .. Length : /\ Wrap(br_rhand + Consuming + i) \in Slots
                                 /\ Wrap(br_rhand + Consuming + i) # HandPlusOne(br_whand)
      BY <1>1, SlotAfter, PlusOne
    <2>. QED
      BY <1>1, <1>4, <2>1, <2>2 DEF Store, DataInv, Length, Distance, TypeOK
  <1>5. ASSUME NEW w \in Writers, PublishWrite(w)
        PROVE  DataInv'
    <2>1. Consuming' = Consuming /\ UNCHANGED <<br_rhand, br_ring, got>>
      BY <1>5 DEF PublishWrite, Consuming, TypeOK
    <2>2. /\ WriteAllowed /\ (Consuming = 1 => ReadAllowed)
          /\ br_ring[HandPlusOne(br_whand)] = opaque[w]
          /\ put' = Append(put, opaque[w]) /\ opaque[w] \in Items
          /\ br_whand' = Wrap(br_whand + 1)
      BY <1>1, <1>5, PlusOne DEF PublishWrite, HandInv, Consuming, RoleInv
    <2>3. Length' = Length + 1 /\ Length >= 0
      <3>1. br_rhand # Wrap(br_whand + 1)
        BY <1>1, <2>2, PlusOne DEF WriteAllowed
      <3>2. Distance(br_rhand', br_whand') = Distance(br_rhand, br_whand) + 1
        BY <1>1, <2>1, <2>2, <3>1, DistanceBound
      <3>3. /\ Distance(br_rhand, br_whand) \in Nat
            /\ Consuming = 1 => Distance(br_rhand, br_whand) # 0
        BY <1>1, <2>2, DistanceBound DEF ReadAllowed
      <3>. QED
        BY <1>1, <2>1, <3>2, <3>3 DEF Length
    <2>4. Wrap(br_rhand + Consuming + Length + 1) = HandPlusOne(br_whand)
      BY <1>1, PlusOne DEF Length, Distance, Wrap, Slots
    <2>5. /\ Len(put') = Len(put) + 1
          /\ \A i \in 1 .. Len(put) : put'[i] = put[i]
          /\ put'[Len(put) + 1] = opaque[w]
      BY <1>1, <2>2
    <2>6. /\ Len(put') = Len(got') + Length'
          /\ \A i \in 1 .. Len(got') : put'[i] = got'[i]
      BY <1>1, <2>1, <2>3, <2>5 DEF DataInv
    <2>7. ASSUME NEW i \in 1 .. Length'
          PROVE  put'[Len(got') + i] = br_ring'[Wrap(br_rhand' + Consuming' + i)]
      <3>1. CASE i = Length + 1
        <4>1. Len(got') + i = Len(put) + 1
          BY <1>1, <2>1, <3>1 DEF DataInv
        <4>2. Wrap(br_rhand' + Consuming' + i) = HandPlusOne(br_whand)
          <5>1. br_rhand' + Consuming' + i = br_rhand + Consuming + Length + 1
            BY <1>1, <2>1, <3>1 DEF Slots
          <5>. QED
            BY <2>4, <5>1
        <4>. QED
          BY <2>1, <2>2, <2>5, <4>1, <4>2
      <3>2. CASE i \in 1 .. Length
        <4>1. Len(got) + i \in 1 .. Len(put)
          BY <1>1, <3>2 DEF DataInv
        <4>. QED
          BY <2>1, <2>5, <3>2, <4>1 DEF DataInv
      <3>. QED
        BY <1>1, <2>3, <3>1, <3>2
    <2>. QED
      BY <2>6, <2>7 DEF DataInv
  <1>6. ASSUME NEW r \in Readers, Take(r)
        PROVE  DataInv'
    <2>1. Consuming = 0 /\ Consuming' = 1
      BY <1>6, ConsumingIs DEF Take, Consuming, TypeOK, InCall, ReaderPc, WriterPc
    <2>2. /\ ReadAllowed /\ UNCHANGED <<shared, put>>
          /\ got' = Append(got, br_ring[HandPlusOne(br_rhand)])
          /\ HandPlusOne(br_rhand) = Wrap(br_rhand + 1)
      BY <1>1, <1>6, PlusOne DEF Take, HandInv
    <2>3. Length' = Length - 1 /\ Length >= 1
      BY <1>1, <2>1, <2>2, DistanceBound DEF Length, ReadAllowed, shared, Distance
    <2>4. put[Len(got) + 1] = br_ring[Wrap(br_rhand + 1)]
      <3>1. 1 \in 1 .. Length /\ br_rhand + 0 + 1 = br_rhand + 1
        BY <1>1, <2>3 DEF Slots
      <3>. QED
        BY <2>1, <3>1 DEF DataInv
    <2>5. /\ Len(got') = Len(got) + 1
          /\ \A i \in 1 .. Len(got) : got'[i] = got[i]
          /\ got'[Len(got) + 1] = put[Len(got) + 1]
      BY <1>1, <2>2, <2>4, PlusOne DEF TypeOK
    <2>6. \A i \in 1 .. Length' : put[Len(got') + i] = br_ring[Wrap(br_rhand + 1 + i)]
      <3>1. \A i \in 1 .. Length' : i + 1 \in 1 .. Length
        BY <1>1, <2>3
      <3>2. \A i \in 1 .. Length' : put[Len(got) + (i + 1)] = br_ring[Wrap(br_rhand + 0 + (i + 1))]
        BY <2>1, <3>1 DEF DataInv
      <3>. QED
        BY <1>1, <2>3, <2>5, <3>2 DEF Slots
    <2>7. /\ Len(put) = Len(got') + Length'
          /\ \A i \in 1 .. Len(got') : put[i] = got'[i]
      <3>1. Len(put) = Len(got') + Length'
        BY <1>1, <2>3, <2>5 DEF DataInv
      <3>2. \A i \in 1 .. Len(got') : i \in 1 .. Len(got) \/ i = Len(got) + 1
        BY <1>1, <2>5
      <3>. QED
        BY <2>5, <3>1, <3>2 DEF DataInv
    <2>. QED
      BY <2>1, <2>2, <2>6, <2>7 DEF DataInv, shared
  <1>7. ASSUME NEW r \in Readers, Poison(r)
        PROVE  DataInv'
    <2>1. Consuming = 1 /\ Consuming' = 1
      BY <1>7, ConsumingIs DEF Poison, Consuming, TypeOK, InCall, ReaderPc, WriterPc
    <2>2. /\ ReadAllowed /\ UNCHANGED <<br_rhand, br_whand, put, got>>
          /\ br_ring' = [br_ring EXCEPT ![HandPlusOne(br_rhand)] = DEADBEEF]
          /\ HandPlusOne(br_rhand) = Wrap(br_rhand + 1)
      BY <1>1, <1>7, PlusOne DEF Poison, HandInv, hist
    <2>3. \A i \in 1 .. Length : /\ Wrap(br_rhand + 1 + i) # Wrap(br_rhand + 1)
                                 /\ Wrap(br_rhand + 1 + i) \in Slots
      BY <1>1, <2>1, SlotAfter
    <2>. QED
      BY <1>1, <2>1, <2>2, <2>3 DEF DataInv, Length, Distance, TypeOK
  <1>8. ASSUME NEW r \in Readers, PublishRead(r)
        PROVE  DataInv'
    <2>1. Consuming = 1 /\ Consuming' = 0
      BY <1>8, Alone, ConsumingIs DEF PublishRead, Consuming, TypeOK, InCall, ReaderPc, WriterPc
    <2>2. /\ ReadAllowed /\ UNCHANGED <<br_ring, br_whand, put, got>>
          /\ br_rhand' = Wrap(br_rhand + 1)
      BY <1>1, <1>8, PlusOne DEF PublishRead, HandInv, hist
    <2>3. Length' = Length
      BY <1>1, <2>1, <2>2, DistanceBound DEF Length, ReadAllowed
    <2>4. \A i \in 1 .. Length : Wrap(br_rhand' + i) = Wrap(br_rhand + 1 + i)
      BY <1>1, <2>1, <2>2 DEF ReadAllowed, Length, Distance, Wrap, Slots
    <2>5. \A i \in 1 .. Length : br_rhand' + 0 + i = br_rhand' + i
      BY <1>1, <2>2 DEF Wrap, Slots
    <2>. QED
      BY <2>1, <2>2, <2>3, <2>4, <2>5 DEF DataInv
  <1>. QED
    BY <1>2, <1>3, <1>4, <1>5, <1>6, <1>7, <1>8
       DEF Next, RunNext, WriterStep, ReaderStep, DestroyerStep, StillStep
------------------------------------------------------------------------------
\* The strengthened invariant holds.
THEOREM Inductive == Spec => []IInv
  <1>1. Init => IInv
    <2>. SUFFICES ASSUME Init PROVE IInv
      OBVIOUS
    <2>. USE RoleAssumption, SizeAssumption DEF Init
    <2>1. TypeOK
      <3>1. br_rhand \in Slots /\ br_whand \in Slots /\ hand \in [Threads -> Slots]
        BY DEF Slots
      <3>2. put \in Seq(Items) /\ got \in Seq(Items \cup {NULL, DEADBEEF})
        OBVIOUS
      <3>3. /\ asleep \in [{"write", "read"} -> BOOLEAN]
            /\ mutex \in [Mutexes -> Threads \cup {Nobody}]
            /\ pc \in [Threads -> PcValues]
        BY DEF PcValues, Mutexes
      <3>4. /\ br_ring \in [Slots -> Items \cup {NULL, DEADBEEF}]
            /\ opaque \in [Threads -> Items \cup {NULL}]
            /\ wait \in [Threads -> BOOLEAN]
            /\ ret \in [Threads -> Items \cup {NULL, DEADBEEF} \cup Int]
            /\ seen \in [Threads -> Int]
        OBVIOUS
      <3>. QED
        BY <3>1, <3>2, <3>3, <3>4 DEF TypeOK
    <2>2. RoleInv /\ LockInv /\ HandInv
      BY DEF RoleInv, LockInv, HandInv, Threads, WriterPc, ReaderPc, InCall
    <2>3. Length = 0
      BY DEF Length, Distance, Consuming, Threads
    <2>. QED
      BY <2>1, <2>2, <2>3 DEF IInv, DataInv
  <1>2. IInv /\ [Next]_vars => IInv'
    BY TypingStep, LockStep, HandStep, DataStep DEF IInv
  <1>. QED
    BY <1>1, <1>2, PTL DEF Spec

\* Every variable has its type: hands stay on the ring, and no thread is
\* anywhere but in the code of its role.
THEOREM TypeCorrect == Spec => []TypeOK
  <1>1. IInv => TypeOK
    BY DEF IInv
  <1>. QED
    BY <1>1, Inductive, PTL
------------------------------------------------------------------------------
\* The queue is what is put and not got.
QueueInv ==
    /\ Queue \in Seq(Items) /\ Len(Queue) = Len(put) - Len(got)
    /\ Len(Queue) \in 0 .. Size - 1
    /\ \A i \in 1 .. Len(Queue) : Queue[i] = put[Len(got) + i]

\* It follows from the invariant.
LEMMA QueueIs == IInv => QueueInv
  <1>. SUFFICES ASSUME IInv PROVE QueueInv
    OBVIOUS
  <1>1. /\ br_rhand \in Slots /\ br_whand \in Slots /\ Consuming \in {0, 1}
        /\ put \in Seq(Items) /\ got \in Seq(Items \cup {NULL, DEADBEEF})
    BY DEF IInv, TypeOK, Consuming
  <1>2. Length \in 0 .. Size - 1
    <2>1. Consuming = 1 => br_rhand # br_whand
      BY DEF IInv, HandInv, Consuming, ReadAllowed
    <2>. QED
      BY <1>1, <2>1, DistanceBound, SizeAssumption DEF Length
  <1>3. ASSUME NEW i \in 1 .. Length
        PROVE  Queue[i] = put[Len(got) + i] /\ Queue[i] \in Items
    <2>1. br_rhand + Consuming + i \in Nat /\ br_rhand + Consuming + i < Size + Size
      <3>1. Distance(br_rhand, br_whand) \in 0 .. Size - 1
        BY <1>1, DistanceBound
      <3>2. Consuming + i <= Size - 1
        BY <1>1, <3>1, SizeAssumption DEF Length
      <3>. QED
        BY <1>1, <3>2, SizeAssumption DEF Slots
    <2>2. Queue[i] = br_ring[Wrap(br_rhand + Consuming + i)]
      BY <2>1, WrapIsMod DEF Queue
    <2>3. Len(got) + i \in 1 .. Len(put)
      BY <1>1, <1>2 DEF IInv, DataInv
    <2>. QED
      BY <1>1, <2>2, <2>3 DEF IInv, DataInv
  <1>4. Queue \in [1 .. Length -> Items]
    BY <1>3 DEF Queue
  <1>5. Queue \in Seq(Items) /\ Len(Queue) = Length
    BY <1>2, <1>4
  <1>6. Len(Queue) = Len(put) - Len(got)
    BY <1>1, <1>2, <1>5 DEF IInv, DataInv
  <1>. QED
    BY <1>2, <1>3, <1>5, <1>6 DEF QueueInv

\* Every read gets the oldest item, none is lost, none is repeated, and no mark
\* of a slot already read is ever handed out.
THEOREM FifoHolds == Spec => []Fifo
  <1>1. IInv => Fifo
    <2>. SUFFICES ASSUME IInv PROVE Fifo
      OBVIOUS
    <2>1. /\ put \in Seq(Items) /\ got \in Seq(Items \cup {NULL, DEADBEEF})
          /\ Queue \in Seq(Items) /\ Len(got \o Queue) = Len(put)
      BY QueueIs DEF IInv, TypeOK, QueueInv
    <2>2. ASSUME NEW i \in 1 .. Len(put)
          PROVE  put[i] = (got \o Queue)[i]
      <3>1. CASE i \in 1 .. Len(got)
        BY <2>1, <3>1 DEF IInv, DataInv
      <3>2. CASE i - Len(got) \in 1 .. Len(Queue)
        BY <2>1, <3>2, QueueIs DEF QueueInv
      <3>. QED
        BY <2>1, <3>1, <3>2, QueueIs DEF QueueInv
    <2>3. /\ got \o Queue \in Seq(Items \cup {NULL, DEADBEEF})
          /\ put \in Seq(Items \cup {NULL, DEADBEEF})
      BY <2>1
    <2>. QED
      BY <2>1, <2>2, <2>3, SeqEqual DEF Fifo
  <1>. QED
    BY <1>1, Inductive, PTL

\* The writer and the reader never use the same slot, although neither holds a
\* lock the other takes.
THEOREM SlotsApartHolds == Spec => []SlotsApart
  <1>1. IInv => SlotsApart
    BY PlusOneDiffers DEF IInv, TypeOK, HandInv, SlotsApart, ReadAllowed
  <1>. QED
    BY <1>1, Inductive, PTL
------------------------------------------------------------------------------
(* Sleeping.  Whoever is about to wait holds br_lock and has woken everyone *)
(* else, so not even two threads of one side ever wait at once.             *)

Sleepers == Writers \cup Readers \cup {Destroyer}

SleepInv ==
    /\ \A t \in Sleepers :
          /\ pc[t] \in {"recheck", "sleep", "rise", "dtest", "dsawr", "dsaww", "dunlock"}
                => mutex["br_lock"] = t
          /\ pc[t] \in {"recheck", "sleep"} => waiting = {}
    /\ \A s, t \in waiting : s = t

\* The rule about sleeping is inductive.
LEMMA SleepStep ==
    ASSUME TypeOK, RoleInv, SleepInv, [Next]_vars
    PROVE  SleepInv'
  <1>. USE RoleAssumption DEF TypeOK, SleepInv, Sleepers, Threads, Mutexes, SideLock, RoleInv,
           WriterPc, ReaderPc, Goto
  <1>1. ASSUME NEW t \in Writers \cup Readers, TakeSideLock(t)
        PROVE  SleepInv'
    BY <1>1 DEF TakeSideLock, Acquire
  <1>2. ASSUME NEW t \in Writers \cup Readers, Test(t)
        PROVE  SleepInv'
    BY <1>2 DEF Test
  <1>3. ASSUME NEW t \in Writers \cup Readers, GiveUp(t)
        PROVE  SleepInv'
    BY <1>3 DEF GiveUp
  <1>4. ASSUME NEW t \in Writers \cup Readers, Announce(t)
        PROVE  SleepInv'
    BY <1>4 DEF Announce, Acquire, Broadcast
  <1>5. ASSUME NEW t \in Writers \cup Readers, Recheck(t)
        PROVE  SleepInv'
    BY <1>5 DEF Recheck
  <1>6. ASSUME NEW t \in Sleepers, Sleep(t)
        PROVE  SleepInv'
    BY <1>6 DEF Sleep, Release
  <1>7. ASSUME NEW t \in Sleepers, Wake(t)
        PROVE  SleepInv'
    BY <1>7 DEF Wake, Acquire
  <1>8. ASSUME NEW t \in Writers \cup Readers, Rise(t)
        PROVE  SleepInv'
    BY <1>8 DEF Rise, Release
  <1>9. ASSUME NEW t \in Writers \cup Readers, Return(t)
        PROVE  SleepInv'
    BY <1>9 DEF Return, Release
  <1>10. ASSUME NEW w \in Writers, BeginWrite(w) \/ Store(w) \/ PublishWrite(w)
        PROVE  SleepInv'
    <2>1. CASE BeginWrite(w)
      BY <2>1 DEF BeginWrite
    <2>2. CASE Store(w)
      BY <2>2 DEF Store
    <2>3. CASE PublishWrite(w)
      BY <2>3 DEF PublishWrite
    <2>. QED
      BY <1>10, <2>1, <2>2, <2>3
  <1>11. ASSUME NEW t \in Writers \cup Readers, NotifyReader(t) \/ NotifyWriter(t)
        PROVE  SleepInv'
    BY <1>11 DEF NotifyReader, NotifyWriter, Broadcast
  <1>12. ASSUME NEW r \in Readers, BeginRead(r) \/ Take(r) \/ Poison(r) \/ PublishRead(r)
        PROVE  SleepInv'
    <2>1. CASE BeginRead(r) \/ Take(r)
      BY <2>1 DEF BeginRead, Take
    <2>2. CASE Poison(r) \/ PublishRead(r)
      BY <2>2 DEF Poison, PublishRead
    <2>. QED
      BY <1>12, <2>1, <2>2
  <1>13. ASSUME NEW p \in Pollers, PollerStep(p)
        PROVE  SleepInv'
    BY <1>13 DEF PollerStep, LookAtReadHand, LookAtWriteHand
  <1>14. ASSUME BeginDestroy \/ DestroyMutex \/ Free
        PROVE  SleepInv'
    BY <1>14 DEF BeginDestroy, DestroyMutex, AfterMutex, Free
  <1>15. ASSUME DestroyLock
        PROVE  SleepInv'
    BY <1>15 DEF DestroyLock, Acquire
  <1>16. ASSUME DestroyTest
        PROVE  SleepInv'
    <2>1. /\ pc[Destroyer] \in {"dsawr", "dsaww"} /\ UNCHANGED <<mutex, asleep>>
          /\ \/ pc' = [pc EXCEPT ![Destroyer] = "sleep"] /\ waiting' = {}
             \/ pc' = [pc EXCEPT ![Destroyer] = "dunlock"] /\ UNCHANGED waiting
      BY <1>16, Zenon DEF DestroyTest, Broadcast
    <2>. QED
      BY <2>1
  <1>20. ASSUME DestroyLook
        PROVE  SleepInv'
    <2>1. \/ pc' = [pc EXCEPT ![Destroyer] = "dsawr"] \/ pc' = [pc EXCEPT ![Destroyer] = "dsaww"]
          \/ pc' = [pc EXCEPT ![Destroyer] = "dunlock"]
      BY <1>20 DEF DestroyLook
    <2>. QED
      BY <1>20, <2>1 DEF DestroyLook
  <1>17. ASSUME DestroyUnlock
        PROVE  SleepInv'
    BY <1>17 DEF DestroyUnlock, Release
  <1>18. ASSUME NEW t \in Threads, SpuriousWakeup(t)
        PROVE  SleepInv'
    BY <1>18 DEF SpuriousWakeup
  <1>19. CASE UNCHANGED vars
    BY <1>19 DEF vars
  <1>. QED
    BY <1>1, <1>2, <1>3, <1>4, <1>5, <1>6, <1>7, <1>8, <1>9, <1>10,
       <1>11, <1>12, <1>13, <1>14, <1>15, <1>16, <1>17, <1>18, <1>19, <1>20
       DEF Next, RunNext, WriterStep, ReaderStep, DestroyerStep

\* "We will NOT ever have both people sleeping at the same time".
THEOREM NeverBothAsleepHolds == Spec => []NeverBothAsleep
  <1>1. Init => SleepInv
    BY DEF Init, SleepInv, Sleepers, Threads
  <1>2. IInv /\ SleepInv /\ [Next]_vars => SleepInv'
    BY SleepStep DEF IInv
  <1>3. SleepInv => NeverBothAsleep
    BY RoleAssumption DEF SleepInv, NeverBothAsleep
  <1>. QED
    BY <1>1, <1>2, <1>3, Inductive, PTL DEF Spec
------------------------------------------------------------------------------
(* bk_ring_length and bk_ring_destroy.                                     *)

\* Until a whole ring went by, the hand that a poller has in its local is as far behind
\* the write hand as the history says.
PollInv ==
    \A p \in Pollers :
        pc[p] = "looked" /\ Len(put) - seen[p] < Size
            => Distance(hand[p], br_whand) = Len(put) - seen[p]

\* Where the destroyer is when it waits no more.
Drained == {"dunlock", "free"} \cup Mutexes

\* As long as nothing is put after the destroyer began, the write hand stays where it
\* was read; a read hand that is found there was read when the ring was empty; and
\* everything has been taken when the destroyer goes on.
DrainInv ==
    /\ seen[Destroyer] <= Len(put)
    /\ Len(put) = seen[Destroyer] =>
         /\ pc[Destroyer] = "dsaww" => hand[Destroyer] = br_whand
         /\ pc[Destroyer] = "dsawr" /\ hand[Destroyer] = br_whand => Len(got) = Len(put)
         /\ DestroyWaits /\ (pc[Destroyer] \in Drained \/ fate = "freed") => Len(got) = Len(put)

\* A step but for the ones that the lengths are about leaves them alone.
QuietStep ==
    \/ StillStep /\ ~(\E p \in Pollers : PollerStep(p)) /\ ~BeginDestroy /\ ~DestroyLook
    \/ \E t \in Writers \cup Readers : Test(t) \/ Store(t) \/ Take(t) \/ Poison(t) \/ PublishRead(t)

\* What such a step leaves alone.
LEMMA QuietFrame ==
    ASSUME TypeOK, RoleInv, QuietStep
    PROVE  /\ UNCHANGED <<br_whand, put, hand, seen>>
           /\ \A p \in Pollers : pc'[p] = pc[p]
           /\ Len(got') >= Len(got)
  <1>. USE RoleAssumption DEF TypeOK, Threads, Goto
  <1>1. CASE StillStep /\ ~(\E p \in Pollers : PollerStep(p)) /\ ~BeginDestroy /\ ~DestroyLook
    <2>1. UNCHANGED <<br_whand, put, hand, seen, got>>
      BY <1>1 DEF StillStep, BeginWrite, NotifyReader, BeginRead, NotifyWriter, TakeSideLock,
           GiveUp, Announce, Recheck, Rise, Return, Sleep, Wake, DestroyLock, DestroyTest,
           DestroyUnlock, DestroyMutex, Free, SpuriousWakeup, vars, hist, shared, locals
    <2>2. \A p \in Pollers : pc'[p] = pc[p]
      <3>1. CASE \/ \E w \in Writers : BeginWrite(w) \/ NotifyReader(w)
                 \/ \E r \in Readers : BeginRead(r) \/ NotifyWriter(r)
        BY <3>1 DEF BeginWrite, NotifyReader, BeginRead, NotifyWriter
      <3>2. CASE \E t \in Writers \cup Readers : TakeSideLock(t) \/ GiveUp(t)
        BY <3>2 DEF TakeSideLock, GiveUp
      <3>3. CASE \E t \in Writers \cup Readers : Announce(t) \/ Recheck(t)
        BY <3>3 DEF Announce, Recheck
      <3>4. CASE \E t \in Writers \cup Readers : Rise(t) \/ Return(t)
        BY <3>4 DEF Rise, Return
      <3>5. CASE \E t \in Writers \cup Readers \cup {Destroyer} : Sleep(t) \/ Wake(t)
        BY <3>5 DEF Sleep, Wake
      <3>6. CASE DestroyLock \/ DestroyTest \/ DestroyUnlock \/ DestroyMutex \/ Free
        BY <3>6 DEF DestroyLock, DestroyTest, DestroyUnlock, DestroyMutex, Free
      <3>7. CASE UNCHANGED vars \/ \E t \in Threads : SpuriousWakeup(t)
        BY <3>7 DEF vars, SpuriousWakeup
      <3>. QED
        BY <1>1, <3>1, <3>2, <3>3, <3>4, <3>5, <3>6, <3>7 DEF StillStep
    <2>. QED
      BY <2>1, <2>2
  <1>2. ASSUME NEW t \in Writers \cup Readers,
               Test(t) \/ Store(t) \/ Take(t) \/ Poison(t) \/ PublishRead(t)
        PROVE  /\ UNCHANGED <<br_whand, put, hand, seen>>
               /\ \A p \in Pollers : pc'[p] = pc[p]
               /\ got' = got \/ got' = Append(got, br_ring[HandPlusOne(br_rhand)])
    BY <1>2 DEF Test, Store, Take, Poison, PublishRead, hist, shared, locals
  <1>. QED
    BY <1>1, <1>2 DEF QuietStep

\* What a poller saw stays as far behind, one item for each that is put.
LEMMA PollStep ==
    ASSUME IInv, PollInv, [Next]_vars
    PROVE  PollInv'
  <1>. USE RoleAssumption
  <1>1. TypeOK /\ RoleInv /\ br_rhand \in Slots /\ br_whand \in Slots /\ Len(put) \in Nat
        /\ seen \in [Threads -> Int] /\ hand \in [Threads -> Slots] /\ Size \in Nat
    BY SizeAssumption DEF IInv, TypeOK
  <1>2. CASE QuietStep
    BY <1>1, <1>2, QuietFrame DEF PollInv
  <1>3. ASSUME NEW w \in Writers, PublishWrite(w), NEW p \in Pollers, pc'[p] = "looked",
               Len(put') - seen'[p] < Size
        PROVE  Distance(hand'[p], br_whand') = Len(put') - seen'[p]
    <2>1. /\ pc[p] = "looked" /\ hand' = hand /\ seen' = seen
          /\ br_whand' = Wrap(br_whand + 1) /\ put' = Append(put, opaque[w])
      BY <1>1, <1>3, PlusOne DEF PublishWrite, Goto, TypeOK, Threads
    <2>2. Len(put') = Len(put) + 1
      BY <1>1, <2>1 DEF TypeOK
    <2>3. hand[p] \in Slots /\ seen[p] \in Int
      BY <1>1 DEF Threads
    <2>4. Len(put) - seen[p] < Size - 1
      BY <1>1, <1>3, <2>1, <2>2, <2>3
    <2>5. Distance(hand[p], br_whand) = Len(put) - seen[p]
      BY <1>1, <2>1, <2>3, <2>4 DEF PollInv
    <2>6. hand[p] # Wrap(br_whand + 1)
      BY <1>1, <2>3, <2>4, <2>5, SizeAssumption DEF Slots, Wrap, Distance
    <2>7. Distance(hand[p], Wrap(br_whand + 1)) = Distance(hand[p], br_whand) + 1
      BY <1>1, <2>3, <2>6, DistanceBound
    <2>. QED
      BY <1>1, <2>1, <2>2, <2>3, <2>5, <2>7
  <1>4. ASSUME NEW q \in Pollers, LookAtReadHand(q)
        PROVE  PollInv'
    <2>1. /\ hand' = [hand EXCEPT ![q] = br_rhand] /\ UNCHANGED <<br_whand, put>>
          /\ seen' = [seen EXCEPT ![q] = Len(got) - Consuming]
          /\ \A p \in Pollers \ {q} : pc'[p] = pc[p]
      BY <1>1, <1>4 DEF LookAtReadHand, shared, Goto, TypeOK
    <2>2. Distance(br_rhand, br_whand) = Len(put) - (Len(got) - Consuming)
      <3>1. Distance(br_rhand, br_whand) \in Int
        BY <1>1, DistanceBound
      <3>2. Len(got) \in Nat /\ Consuming \in {0, 1}
        BY <1>1 DEF TypeOK, Consuming
      <3>. QED
        BY <1>1, <3>1, <3>2 DEF IInv, DataInv, Length
    <2>3. hand'[q] = br_rhand /\ seen'[q] = Len(got) - Consuming
      BY <1>1, <2>1 DEF Threads
    <2>4. \A p \in Pollers \ {q} : hand'[p] = hand[p] /\ seen'[p] = seen[p]
      BY <1>1, <2>1 DEF Threads
    <2>. QED
      BY <2>1, <2>2, <2>3, <2>4 DEF PollInv
  <1>5. ASSUME NEW q \in Pollers, LookAtWriteHand(q)
        PROVE  PollInv'
    BY <1>1, <1>5 DEF LookAtWriteHand, PollInv, shared, hist, Goto, TypeOK
  <1>6. CASE BeginDestroy
    <2>1. /\ UNCHANGED <<br_whand, put, hand>>
          /\ \A p \in Pollers : pc'[p] = pc[p] /\ seen'[p] = seen[p]
      BY <1>1, <1>6 DEF BeginDestroy, shared, locals, Goto, TypeOK, Threads
    <2>. QED
      BY <2>1 DEF PollInv
  <1>7. (\E w \in Writers : PublishWrite(w)) => PollInv'
    BY <1>3 DEF PollInv
  <1>8. CASE DestroyLook
    <2>1. /\ UNCHANGED <<br_whand, put, seen>>
          /\ \A p \in Pollers : pc'[p] = pc[p] /\ hand'[p] = hand[p]
      BY <1>1, <1>8 DEF DestroyLook, shared, hist, Goto, TypeOK, Threads
    <2>. QED
      BY <2>1 DEF PollInv
  <1>. QED
    BY <1>2, <1>4, <1>5, <1>6, <1>7, <1>8 DEF QuietStep, StillStep,
       Next, RunNext, WriterStep, ReaderStep, PollerStep, DestroyerStep

\* When the hands meet, everything that was put has been taken.
LEMMA EmptyIs ==
    ASSUME IInv, br_rhand = br_whand
    PROVE  Len(got) = Len(put)
  <1>1. Consuming = 0
    BY DEF IInv, HandInv, Consuming, ReadAllowed
  <1>2. Distance(br_rhand, br_whand) = 0
    BY DistanceBound DEF IInv, TypeOK
  <1>. QED
    BY <1>1, <1>2 DEF IInv, DataInv, Length, TypeOK

\* No more is taken than was put.
TakenInv == Len(got) <= Len(put)
LEMMA NoMoreTaken == IInv => TakenInv
  <1>. SUFFICES ASSUME IInv PROVE Len(got) <= Len(put)
    BY DEF TakenInv
  <1>1. Consuming \in {0, 1} /\ (Consuming = 1 => ReadAllowed)
    BY DEF IInv, HandInv, Consuming
  <1>2. Distance(br_rhand, br_whand) \in Nat /\ (ReadAllowed => Distance(br_rhand, br_whand) # 0)
    BY DistanceBound, SizeAssumption DEF IInv, TypeOK, ReadAllowed
  <1>. QED
    BY <1>1, <1>2 DEF IInv, DataInv, Length, TypeOK

\* A destroyer that goes on saw the hands meet, and nothing that was taken comes back.
LEMMA DrainStep ==
    ASSUME IInv, IInv', TakenInv', DrainInv, [Next]_vars
    PROVE  DrainInv'
  <1>. USE RoleAssumption
  <1>1. /\ TypeOK /\ RoleInv /\ Len(put) \in Nat /\ Len(got) \in Nat
        /\ seen \in [Threads -> Int] /\ pc \in [Threads -> PcValues] /\ seen[Destroyer] \in Int
        /\ hand \in [Threads -> Slots] /\ Destroyer \in Threads
    BY DEF IInv, TypeOK, Threads
  <1>2. CASE QuietStep /\ ~DestroyTest
    <2>1. /\ put' = put /\ seen' = seen /\ hand' = hand /\ br_whand' = br_whand
          /\ Len(got') >= Len(got) /\ Len(got') \in Nat
      <3>1. got' \in Seq(Items \cup {NULL, DEADBEEF})
        BY DEF IInv, TypeOK
      <3>. QED
        BY <1>1, <1>2, <3>1, QuietFrame
    <2>2. Len(got') <= Len(put')
      BY DEF TakenInv
    <2>3. /\ pc'[Destroyer] \in Drained \/ fate' = "freed"
               => pc[Destroyer] \in Drained \/ fate = "freed"
          /\ pc'[Destroyer] \in {"dsawr", "dsaww"} => pc'[Destroyer] = pc[Destroyer]
      <3>. USE <1>1 DEF Goto, Drained, Mutexes, Threads, AfterMutex
      <3>1. CASE DestroyMutex
        BY <3>1 DEF DestroyMutex
      <3>2. CASE Free \/ DestroyUnlock \/ DestroyLock
        BY <3>2 DEF Free, DestroyUnlock, DestroyLock
      <3>3. CASE \E t \in Writers \cup Readers \cup {Destroyer} : Sleep(t) \/ Wake(t)
        BY <3>3 DEF Sleep, Wake
      <3>4. CASE \/ \E w \in Writers : BeginWrite(w) \/ NotifyReader(w)
                 \/ \E r \in Readers : BeginRead(r) \/ NotifyWriter(r)
        BY <3>4 DEF BeginWrite, NotifyReader, BeginRead, NotifyWriter
      <3>5. CASE \E t \in Writers \cup Readers :
                   TakeSideLock(t) \/ GiveUp(t) \/ Announce(t) \/ Recheck(t) \/ Rise(t) \/ Return(t)
        BY <3>5 DEF TakeSideLock, GiveUp, Announce, Recheck, Rise, Return
      <3>6. CASE \E t \in Writers \cup Readers :
                   Test(t) \/ Store(t) \/ Take(t) \/ Poison(t) \/ PublishRead(t)
        BY <3>6 DEF Test, Store, Take, Poison, PublishRead
      <3>7. CASE UNCHANGED vars \/ \E t \in Threads : SpuriousWakeup(t)
        BY <3>7 DEF vars, SpuriousWakeup
      <3>. QED
        BY <1>2, <3>1, <3>2, <3>3, <3>4, <3>5, <3>6, <3>7 DEF QuietStep, StillStep
    <2>. QED
      BY <1>1, <2>1, <2>2, <2>3 DEF DrainInv
  <1>3. CASE DestroyTest
    <2>1. /\ UNCHANGED <<put, got, seen, fate, hand, br_whand>> /\ fate = "live"
          /\ pc[Destroyer] \in {"dsawr", "dsaww"}
          /\ pc' = [pc EXCEPT ![Destroyer] =
                      IF hand[Destroyer] # OtherHand THEN "sleep" ELSE "dunlock"]
      BY <1>3 DEF DestroyTest, Goto, hist, locals, shared
    <2>2. Len(put) = seen[Destroyer] /\ hand[Destroyer] = OtherHand => Len(got) = Len(put)
      BY <2>1, EmptyIs DEF DrainInv, OtherHand
    <2>3. /\ pc'[Destroyer] \in Drained => hand[Destroyer] = OtherHand
          /\ pc'[Destroyer] \notin {"dsawr", "dsaww"}
      BY <1>1, <2>1 DEF Drained, Mutexes, Threads
    <2>. QED
      BY <1>1, <2>1, <2>2, <2>3 DEF DrainInv
  <1>4. ASSUME NEW w \in Writers, PublishWrite(w)
        PROVE  DrainInv'
    <2>1. UNCHANGED seen /\ put' = Append(put, opaque[w])
      BY <1>1, <1>4 DEF PublishWrite
    <2>2. Len(put') = Len(put) + 1
      BY <2>1 DEF IInv, TypeOK
    <2>. QED
      BY <1>1, <2>1, <2>2 DEF DrainInv
  <1>5. ASSUME NEW p \in Pollers, PollerStep(p)
        PROVE  DrainInv'
    <2>1. UNCHANGED <<put, got, fate, br_whand>> /\ pc'[Destroyer] = pc[Destroyer]
          /\ seen'[Destroyer] = seen[Destroyer] /\ hand'[Destroyer] = hand[Destroyer]
      BY <1>1, <1>5 DEF PollerStep, LookAtReadHand, LookAtWriteHand, Goto, hist, shared, Threads
    <2>. QED
      BY <2>1 DEF DrainInv
  <1>6. CASE BeginDestroy
    <2>1. /\ UNCHANGED <<put, got, fate>> /\ fate = "live" /\ pc'[Destroyer] = "dlock"
          /\ seen'[Destroyer] = Len(put)
      BY <1>1, <1>6 DEF BeginDestroy, Goto, Threads
    <2>. QED
      BY <1>1, <2>1 DEF DrainInv, Drained, Mutexes
  <1>7. CASE DestroyLook
    <2>1. /\ UNCHANGED <<put, got, seen, fate, br_whand>> /\ fate = "live"
          /\ \/ pc'[Destroyer] = "dsawr" /\ hand'[Destroyer] = br_rhand
             \/ pc'[Destroyer] = "dsaww" /\ hand'[Destroyer] = br_whand
             \/ pc'[Destroyer] = "dunlock" /\ ~DestroyWaits
      BY <1>1, <1>7 DEF DestroyLook, Goto, hist, shared, Threads
    <2>2. hand'[Destroyer] = br_whand /\ pc'[Destroyer] = "dsawr" => Len(got) = Len(put)
      BY <2>1, EmptyIs
    <2>. QED
      BY <1>1, <2>1, <2>2 DEF DrainInv, Drained, Mutexes
  <1>. QED
    BY <1>2, <1>3, <1>4, <1>5, <1>6, <1>7 DEF QuietStep, StillStep,
       Next, RunNext, WriterStep, ReaderStep, DestroyerStep

\* bk_ring_length is exact unless a whole ring's worth went by between its two looks.
THEOREM LengthExactHolds == Spec => LengthExact
  <1>1. Init => PollInv
    BY RoleAssumption DEF Init, PollInv, Threads
  <1>2. IInv /\ PollInv /\ [Next]_vars => PollInv'
    BY PollStep
  <1>3. PollInv /\ IInv => [\A p \in Pollers :
          LookAtWriteHand(p) /\ Len(put) - seen[p] < Size => ret'[p] = Len(put) - seen[p]]_vars
    BY DEF PollInv, LookAtWriteHand, Goto, IInv, TypeOK, Threads
  <1>. QED
    BY <1>1, <1>2, <1>3, Inductive, PTL DEF Spec, LengthExact

\* A destroyer that waits frees the ring only when all that was in it was read, if
\* nothing was written after it began.
THEOREM DrainedWhenFreedHolds == Spec => []DrainedWhenFreed
  <1>1. Init => DrainInv
    BY RoleAssumption DEF Init, DrainInv, Threads, Drained, Mutexes
  <1>2. IInv /\ IInv' /\ TakenInv' /\ DrainInv /\ [Next]_vars => DrainInv'
    BY DrainStep
  <1>3. DrainInv => DrainedWhenFreed
    BY DEF DrainInv, DrainedWhenFreed
  <1>. QED
    BY <1>1, <1>2, <1>3, Inductive, NoMoreTaken, PTL DEF Spec
------------------------------------------------------------------------------
(* Refinement.  Publishing the write hand is the channel's Put, taking an   *)
(* item is its Get; every other step leaves the channel alone.             *)

\* A step that leaves the history alone leaves the queue alone.
LEMMA QueueStutters ==
    ASSUME IInv, IInv', QueueInv, QueueInv', UNCHANGED <<put, got>>
    PROVE  Queue' = Queue
  <1>1. /\ Queue \in Seq(Items) /\ Queue' \in Seq(Items) /\ Len(Queue') = Len(Queue)
        /\ \A i \in 1 .. Len(Queue) : Queue'[i] = Queue[i]
    BY DEF QueueInv
  <1>. QED
    BY <1>1

\* PublishWrite puts one item.
LEMMA PutStep ==
    ASSUME IInv, IInv', QueueInv, QueueInv', NEW w \in Writers, PublishWrite(w)
    PROVE  Chan!Put(1)
  <1>1. put' = Append(put, opaque[w]) /\ got' = got
    BY DEF PublishWrite
  <1>2. put \in Seq(Items) /\ put' \in Seq(Items) /\ got \in Seq(Items \cup {NULL, DEADBEEF})
    BY DEF IInv, TypeOK
  <1>3. opaque[w] \in Items
    BY DEF IInv, RoleInv, PublishWrite, Goto
  <1>4. Len(put') = Len(put) + 1 /\ \A i \in 1 .. Len(put) : put'[i] = put[i]
    BY <1>1, <1>2, <1>3
  <1>5. /\ Queue \in Seq(Items) /\ Queue' \in Seq(Items)
        /\ Len(Queue') = Len(Queue) + 1 /\ Len(Queue') <= Size - 1
    BY <1>1, <1>2, <1>4, SizeAssumption DEF QueueInv
  <1>6. \A i \in 1 .. Len(Queue) : Queue'[i] = Queue[i]
    <2>1. ASSUME NEW i \in 1 .. Len(Queue)
          PROVE  Queue'[i] = Queue[i]
      <3>1. i \in 1 .. Len(Queue') /\ Len(got') = Len(got)
        BY <1>1, <1>5
      <3>2. Queue[i] = put[Len(got) + i] /\ Queue'[i] = put'[Len(got) + i]
        BY <3>1 DEF QueueInv
      <3>3. Len(got) + i \in 1 .. Len(put)
        BY <1>2, <1>5 DEF QueueInv
      <3>. QED
        BY <1>4, <3>2, <3>3
    <2>. QED
      BY <2>1
  <1>7. SubSeq(Queue', 1, Len(Queue)) = Queue
    <2>1. /\ SubSeq(Queue', 1, Len(Queue)) \in Seq(Items)
          /\ Len(SubSeq(Queue', 1, Len(Queue))) = Len(Queue)
          /\ \A i \in 1 .. Len(Queue) : SubSeq(Queue', 1, Len(Queue))[i] = Queue'[i]
      BY <1>5
    <2>. QED
      BY <1>5, <1>6, <2>1
  <1>8. \A i \in Len(Queue) + 1 .. Len(Queue') : Queue'[i] \in Items
    BY <1>5
  <1>. QED
    BY <1>5, <1>7, <1>8 DEF Chan!Put

\* Take gets one item.
LEMMA GetStep ==
    ASSUME IInv, IInv', QueueInv, QueueInv', NEW r \in Readers, Take(r)
    PROVE  Chan!Get(1) /\ 1 <= Size - 1
  <1>1. put' = put /\ got' = Append(got, br_ring[HandPlusOne(br_rhand)])
    BY DEF Take
  <1>2. put \in Seq(Items) /\ got \in Seq(Items \cup {NULL, DEADBEEF}) /\ Len(got') = Len(got) + 1
    BY <1>1 DEF IInv, TypeOK
  <1>3. /\ Queue \in Seq(Items) /\ Queue' \in Seq(Items)
        /\ Len(Queue') = Len(Queue) - 1 /\ 1 <= Len(Queue) /\ Len(Queue) <= Size - 1
    BY <1>1, <1>2, SizeAssumption DEF QueueInv
  <1>4. ASSUME NEW i \in 1 .. Len(Queue')
        PROVE  Queue'[i] = Queue[i + 1]
    <2>1. i + 1 \in 1 .. Len(Queue)
      BY <1>3
    <2>2. Queue[i + 1] = put[Len(got) + (i + 1)] /\ Queue'[i] = put[Len(got') + i]
      BY <1>1, <2>1 DEF QueueInv
    <2>. QED
      BY <1>2, <1>3, <2>2
  <1>5. Queue' = SubSeq(Queue, 1 + 1, Len(Queue))
    <2>1. /\ SubSeq(Queue, 2, Len(Queue)) \in Seq(Items)
          /\ Len(SubSeq(Queue, 2, Len(Queue))) = Len(Queue) - 1
          /\ \A i \in 1 .. Len(Queue) - 1 : SubSeq(Queue, 2, Len(Queue))[i] = Queue[i + 1]
      BY <1>3
    <2>. QED
      BY <1>3, <1>4, <2>1
  <1>. QED
    BY <1>3, <1>5, SizeAssumption DEF Chan!Get

\* The ring is a bounded channel that holds one item less than it has slots.
THEOREM RingImplementsChannel == Spec => ImplementsChannel
  <1>1. IInv /\ Init => Chan!Init
    <2>. SUFFICES ASSUME IInv, Init PROVE Queue = <<>>
      BY DEF Chan!Init
    <2>1. Queue \in Seq(Items) /\ Len(Queue) = 0
      BY QueueIs DEF Init, QueueInv
    <2>. QED
      BY <2>1
  <1>2. IInv /\ IInv' /\ QueueInv /\ QueueInv' /\ [Next]_vars => [Chan!Next]_Queue
    <2>. SUFFICES ASSUME IInv, IInv', QueueInv, QueueInv', [Next]_vars
                  PROVE  Chan!Next \/ Queue' = Queue
      OBVIOUS
    <2>1. CASE \E w \in Writers : PublishWrite(w)
      <3>1. Chan!Put(1) /\ 1 \in 1 .. Size - 1
        BY <2>1, PutStep, SizeAssumption DEF Chan!Put, QueueInv
      <3>. QED
        BY <3>1 DEF Chan!Next
    <2>2. CASE \E r \in Readers : Take(r)
      <3>1. Chan!Get(1) /\ 1 \in 1 .. Size - 1
        BY <2>2, GetStep, SizeAssumption
      <3>. QED
        BY <3>1 DEF Chan!Next
    <2>3. CASE UNCHANGED <<put, got>>
      BY <2>3, QueueStutters
    <2>4. \/ \E w \in Writers : PublishWrite(w)
          \/ \E r \in Readers : Take(r)
          \/ UNCHANGED <<put, got>>
      BY StillFrame DEF Next, RunNext, WriterStep, ReaderStep, DestroyerStep, StillStep, Test,
         Store, Poison, PublishRead, hist, IInv
    <2>. QED
      BY <2>1, <2>2, <2>3, <2>4
  <1>. QED
    BY <1>1, <1>2, Inductive, QueueIs, PTL DEF Spec, Chan!Spec, ImplementsChannel
==============================================================================
