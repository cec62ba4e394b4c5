--------------------------- MODULE RunLoopProofs ----------------------------
(***************************************************************************)
(* The run loop of lib/b_run.c, for any number of descriptors, functions,  *)
(* events and signals, and bk_run_once nested as deep as the program       *)
(* likes: no dead state is acted on, the loop sleeps only with nothing to  *)
(* do, select looks at what is registered, and no pass leaves out a        *)
(* descriptor that select reported.                                        *)
(*                                                                         *)
(* The invariant is a conjunction over the stack: what each activation may *)
(* rely on, by its program counter.  A step replaces the activations at    *)
(* the top; what those below rely on is kept, because all that they need   *)
(* of a step is in Turned: that they are as they were, and that they will  *)
(* be told when a bk_run_once ran meanwhile.                               *)
(***************************************************************************)
EXTENDS RunLoop, FiniteSetTheorems, SequenceTheorems, WellFoundedInduction, TLAPS

\* What the stack is made of.
Activation == UserFrame \cup OnceFrame \cup [kind : {"run"}]
\* Activation i is of bk_run_once and at pc.
OnceAt(i, pc) == stack[i].kind = "once" /\ stack[i].pc = pc

\* At its select, bk_run_once runs, and has something to sleep for.
SleepOf(i) ==
  OnceAt(i, "select") =>
    /\ i = Len(stack)
    /\ stack[i].timeout # "zero" => /\ ~over /\ ~dontblock /\ ~stack[i].noblock /\ ~stack[i].ran
                                    /\ funcs \cap Idle = {}
    /\ stack[i].timeout = "forever" => Queued = {} /\ stack[i].ret = 0
\* While the events run, the timeout is as the flags said when they began; they can
\* change only in an event's function.
TimeoutOf(i) ==
  OnceAt(i, "events") =>
    /\ stack[i].timeout \in {"none", "zero"}
    /\ stack[i].timeout = "none" /\ ~stack[i].ran
         => i = Len(stack) /\ ~over /\ ~dontblock /\ ~stack[i].noblock
\* A pass over what is not the last select's belongs to a bk_run_once that was told
\* to abort, or will be when the one above ends.
FreshOf(i) ==
  OnceAt(i, "dispatch") /\ ~stack[i].fresh
    => abort \/ \E j \in DOMAIN stack : j > i /\ stack[j].kind = "once"
\* Who called a function of a list is at that list.
CallerOf(i) ==
  stack[i].kind = "user" /\ stack[i].why \in {"demand", "poll", "idle"}
    => i > 1 /\ OnceAt(i - 1, stack[i].why)
\* The descriptors with something in sets.
SomeIn(sets) == {fd \in Fd : sets[fd] # {}}
\* The descriptors a pass has before it.
Remaining(f) == {fd \in Fd : f.x <= fd /\ f.copy[fd] # {}}
\* A pass has what select reported of the present registrations before it, and
\* counts at least as many descriptors as that.
PassOf(i) ==
  OnceAt(i, "dispatch") =>
    /\ \A fd \in Fd : stack[i].told[fd] \subseteq stack[i].copy[fd]
    /\ Cardinality(Remaining(stack[i])) <= stack[i].ret
\* What an activation may rely on.
Sound(i) == SleepOf(i) /\ TimeoutOf(i) /\ FreshOf(i) /\ CallerOf(i) /\ PassOf(i)
\* The registered descriptors are those select can look at.
InRange == \A fd \in assoc : fd < selectn
\* The inductive invariant.
IInv == TypeOK /\ InRange /\ \A i \in DOMAIN stack : Sound(i)

\* The program sets preferences of registered descriptors only.
RegisteredOnly == "setprefnone" \notin Calls
\* The handler told of a close is of a descriptor that is not registered.
CloseOf(i) == stack[i].kind = "user" /\ stack[i].why = "close" => stack[i].fd \in Fd \ assoc
\* The inductive invariant of descriptors, when numbers rest.
FdInv == RegisteredOnly /\ SelectMatchesRegistry /\ \A i \in DOMAIN stack : CloseOf(i)
\* A step keeps the invariants.
Goes == IInv' /\ (FdInv /\ Rest => FdInv')

\* TypeOK without the stack, and InRange.
VarsOK ==
  /\ over \in BOOLEAN /\ dontblock \in BOOLEAN /\ abort \in BOOLEAN
  /\ assoc \subseteq Fd /\ selectn \in 0 .. MaxFd + 1
  /\ want \in [Fd -> SUBSET Type] /\ wish \in [Fd -> SUBSET Type]
  /\ equeue \in [Event -> {"none", "later", "due"}]
  /\ funcs \subseteq Poll \cup Idle \cup Demand /\ demand \subseteq Demand
  /\ handled \subseteq Sig /\ signums \in [Sig -> Nat]
  /\ beensignaled \in BOOLEAN /\ crashed \in BOOLEAN
  /\ ready \in [Fd -> SUBSET Type] /\ pending \subseteq Sig
  /\ left \in 0 .. Budget
  /\ \A fd \in assoc : fd < selectn

-----------------------------------------------------------------------------
(* Types: activations, and sets of descriptors.                            *)

\* The stack is a sequence of activations.
LEMMA StackType == TypeOK => stack \in Seq(Activation)
  BY DEF TypeOK, Activation

\* TypeOK in its two parts.
LEMMA TypeParts == TypeOK /\ InRange <=> stack \in Seq(Activation) /\ VarsOK
  BY DEF TypeOK, Activation, VarsOK, InRange

\* The same of the next state.
LEMMA TypePartsNext == TypeOK' /\ InRange' <=> stack' \in Seq(Activation) /\ VarsOK'
  BY DEF TypeOK, Activation, VarsOK, InRange, UserFrame, OnceFrame, Fd, Pc, Func

\* Which activations are of bk_run_once.
LEMMA OnceIs == ASSUME NEW f \in Activation, f.kind = "once" PROVE f \in OnceFrame
  BY DEF Activation, UserFrame, OnceFrame

\* Which activations are of the program's functions.
LEMMA UserIs == ASSUME NEW f \in Activation, f.kind = "user" PROVE f \in UserFrame
  BY DEF Activation, UserFrame, OnceFrame

\* The fields of an activation of bk_run_once.
LEMMA OnceFields ==
  ASSUME NEW f \in OnceFrame
  PROVE  /\ f.kind = "once" /\ f.pc \in Pc /\ f.noblock \in BOOLEAN /\ f.todo \in SUBSET Func
         /\ f.usedelta \in BOOLEAN /\ f.ran \in BOOLEAN
         /\ f.timeout \in {"none", "zero", "finite", "forever"} /\ f.ret \in Int
         /\ f.copy \in [Fd -> SUBSET Type] /\ f.told \in [Fd -> SUBSET Type]
         /\ f.x \in Int /\ f.fresh \in BOOLEAN
  BY DEF OnceFrame

\* What bk_run_once changes of its activation, a few fields at a time.
LEMMA WithTodo ==
  ASSUME NEW f \in OnceFrame, NEW T \in SUBSET Func
  PROVE  LET g == [f EXCEPT !.todo = T]
         IN /\ g \in OnceFrame /\ g.pc = f.pc /\ g.noblock = f.noblock /\ g.ran = f.ran
            /\ g.timeout = f.timeout /\ g.ret = f.ret /\ g.copy = f.copy
            /\ g.told = f.told /\ g.fresh = f.fresh /\ g.x = f.x
  BY DEF OnceFrame

\* Another told.
LEMMA WithTold ==
  ASSUME NEW f \in OnceFrame, NEW told \in [Fd -> SUBSET Type]
  PROVE  LET g == [f EXCEPT !.told = told]
         IN /\ g \in OnceFrame /\ g.pc = f.pc /\ g.noblock = f.noblock /\ g.ran = f.ran
            /\ g.timeout = f.timeout /\ g.ret = f.ret /\ g.copy = f.copy
            /\ g.told = told /\ g.fresh = f.fresh /\ g.x = f.x
  BY DEF OnceFrame

\* Another fresh.
LEMMA WithFresh ==
  ASSUME NEW f \in OnceFrame, NEW fresh \in BOOLEAN
  PROVE  LET g == [f EXCEPT !.fresh = fresh]
         IN /\ g \in OnceFrame /\ g.pc = f.pc /\ g.noblock = f.noblock /\ g.ran = f.ran
            /\ g.timeout = f.timeout /\ g.ret = f.ret /\ g.copy = f.copy
            /\ g.told = f.told /\ g.fresh = fresh /\ g.x = f.x
  BY DEF OnceFrame

\* Another pc.
LEMMA WithPc ==
  ASSUME NEW f \in OnceFrame, NEW pc \in Pc
  PROVE  LET g == [f EXCEPT !.pc = pc]
         IN /\ g \in OnceFrame /\ g.pc = pc /\ g.noblock = f.noblock /\ g.ran = f.ran
            /\ g.timeout = f.timeout /\ g.ret = f.ret /\ g.copy = f.copy
            /\ g.told = f.told /\ g.fresh = f.fresh /\ g.todo = f.todo
  BY DEF OnceFrame

\* Another x.
LEMMA WithX ==
  ASSUME NEW f \in OnceFrame, NEW x \in Int
  PROVE  LET g == [f EXCEPT !.x = x]
         IN g \in OnceFrame /\ g.pc = f.pc
  BY DEF OnceFrame

\* A poll function gave a time.
LEMMA WithUsedelta ==
  ASSUME NEW f \in OnceFrame
  PROVE  LET g == [f EXCEPT !.usedelta = TRUE]
         IN g \in OnceFrame /\ g.pc = f.pc
  BY DEF OnceFrame

\* The next list of functions.
LEMMA WithPcTodo ==
  ASSUME NEW f \in OnceFrame, NEW pc \in Pc, NEW T \in SUBSET Func
  PROVE  LET g == [f EXCEPT !.pc = pc, !.todo = T]
         IN /\ g \in OnceFrame /\ g.pc = pc /\ g.copy = f.copy /\ g.told = f.told
            /\ g.fresh = f.fresh
  BY DEF OnceFrame

\* An event has run.
LEMMA WithRan ==
  ASSUME NEW f \in OnceFrame, NEW T \in SUBSET Func
  PROVE  LET g == [f EXCEPT !.todo = T, !.ran = TRUE]
         IN g \in OnceFrame /\ g.pc = f.pc /\ g.timeout = f.timeout /\ g.ran
  BY DEF OnceFrame

\* Where bk_run_once goes after its select: only with something ready to its
\* handlers.
LEMMA AfterSelectIs ==
  ASSUME NEW f \in OnceFrame, NEW ret \in Int, NEW sets \in [Fd -> SUBSET Type]
  PROVE  LET g == AfterSelect(f, ret, sets)
         IN /\ g \in OnceFrame /\ g.copy = sets /\ g.told = f.told /\ g.fresh = f.fresh
            /\ g.pc \in {"dispatch", "signals", "idle"}
            /\ g.pc = "dispatch" => ret > 0
            /\ g.x = 0 /\ g.ret = ret
<1> DEFINE x == 0
           h == [f EXCEPT !.ret = ret, !.copy = sets, !.x = x]
           pc == IF ret > 0 THEN "dispatch" ELSE IF f.ran THEN "signals" ELSE "idle"
           T == IF ret > 0 \/ f.ran THEN {} ELSE funcs \cap Idle
<1>1. /\ h \in OnceFrame /\ h.copy = sets /\ h.told = f.told /\ h.fresh = f.fresh
      /\ h.x = x /\ h.ret = ret
  <2>1. x \in Int
    OBVIOUS
  <2> HIDE DEF x
  <2> QED
    BY <2>1 DEF OnceFrame
<1>2. /\ pc \in Pc /\ pc \in {"dispatch", "signals", "idle"} /\ (pc = "dispatch" => ret > 0)
      /\ T \in SUBSET Func
  BY DEF Pc, Func
<1> HIDE DEF h, pc, T
<1> DEFINE g == [h EXCEPT !.pc = pc, !.todo = T]
<1>3. /\ g \in OnceFrame /\ g.pc = pc /\ g.copy = h.copy /\ g.told = h.told
      /\ g.fresh = h.fresh /\ g.x = h.x /\ g.ret = h.ret
  BY <1>1, <1>2 DEF OnceFrame
<1> HIDE DEF g
<1>4. /\ g \in OnceFrame /\ g.copy = sets /\ g.told = f.told /\ g.fresh = f.fresh
      /\ g.pc \in {"dispatch", "signals", "idle"}
      /\ g.pc = "dispatch" => ret > 0
      /\ g.x = 0 /\ g.ret = ret
  BY <1>1, <1>2, <1>3
<1> QED
  BY <1>4, Zenon DEF AfterSelect, g, h, pc, T, x

\* bk_run_once when its select returned.
SelectedFrame(f, ret, sets, reported) ==
  [AfterSelect(f, ret, sets) EXCEPT !.told = reported, !.fresh = TRUE]

\* The same, with what select reported.
LEMMA SelectedIs ==
  ASSUME NEW f \in OnceFrame, NEW ret \in Int, NEW sets \in [Fd -> SUBSET Type],
         NEW reported \in [Fd -> SUBSET Type], NEW g, g = SelectedFrame(f, ret, sets, reported)
  PROVE  /\ g \in OnceFrame /\ g.copy = sets /\ g.told = reported /\ g.fresh
         /\ g.pc \in {"dispatch", "signals", "idle"}
         /\ g.pc = "dispatch" => ret > 0
         /\ g.x = 0 /\ g.ret = ret
<1> DEFINE h == AfterSelect(f, ret, sets)
<1>1. /\ h \in OnceFrame /\ h.copy = sets /\ h.pc \in {"dispatch", "signals", "idle"}
      /\ h.pc = "dispatch" => ret > 0
      /\ h.x = 0 /\ h.ret = ret
  BY AfterSelectIs
<1> HIDE DEF h
<1>2. /\ g \in OnceFrame /\ g.copy = h.copy /\ g.told = reported /\ g.fresh /\ g.pc = h.pc
      /\ g.x = h.x /\ g.ret = h.ret
  <2>1. g = [h EXCEPT !.told = reported, !.fresh = TRUE]
    BY DEF h, SelectedFrame
  <2> QED
    BY <1>1, <2>1 DEF OnceFrame
<1> QED
  BY <1>1, <1>2

\* A set of numbers has a least one.
LEMMA LeastOf ==
  ASSUME NEW S \in SUBSET Nat, S # {}
  PROVE  Least(S) \in S /\ \A x \in S : Least(S) <= x
<1>1. IsWellFoundedOn(OpToRel(<, Nat), Nat)
  BY NatLessThanWellFounded
<1>2. PICK m \in S : \A x \in S : ~(<<x, m>> \in OpToRel(<, Nat))
  BY <1>1, WFMin
<1>3. \A x \in S : ~(x < m)
  BY <1>2 DEF OpToRel
<1>4. \A x \in S : m <= x
  BY <1>3
<1> QED
  BY <1>4 DEF Least

\* A set of descriptors has a greatest one.
LEMMA GreatestOf ==
  ASSUME NEW S \in SUBSET Fd, S # {}
  PROVE  \E m \in S : \A x \in S : x <= m
<1> DEFINE T == {MaxFd - x : x \in S}
<1>0. MaxFd \in Int /\ \A x \in S : x \in Int /\ 0 <= x /\ x <= MaxFd
  BY SizesAssumption DEF Fd
<1>1. T \in SUBSET Nat /\ T # {}
  BY <1>0
<1>2. Least(T) \in T /\ \A y \in T : Least(T) <= y
  <2> HIDE DEF T
  <2> QED
    BY <1>1, LeastOf
<1>3. PICK m \in S : Least(T) = MaxFd - m
  BY <1>2
<1>4. \A x \in S : MaxFd - m <= MaxFd - x
  BY <1>2, <1>3
<1>5. \A x \in S : x <= m
  BY <1>0, <1>4
<1> QED
  BY <1>5

\* With Highest bk_run_close finds br_selectn anew: all descriptors are below it.
LEMMA HighestIs ==
  ASSUME NEW S \in SUBSET Fd
  PROVE  Highest(S) \in 0 .. MaxFd + 1 /\ \A fd \in S : fd < Highest(S)
<1>1. CASE S = {}
  <2>1. 0 \in 0 .. MaxFd + 1
    BY SizesAssumption
  <2> QED
    BY <1>1, <2>1, SizesAssumption DEF Highest
<1>2. CASE S # {}
  <2> DEFINE m == CHOOSE fd \in S : \A other \in S : other <= fd
  <2>1. m \in S /\ \A x \in S : x <= m
    BY <1>2, GreatestOf
  <2>2. Highest(S) = 1 + m
    BY <1>2 DEF Highest
  <2> HIDE DEF m
  <2>3. MaxFd \in Int /\ \A x \in S : x \in Int /\ 0 <= x /\ x <= MaxFd
    BY SizesAssumption DEF Fd
  <2> QED
    BY <2>1, <2>2, <2>3
<1> QED
  BY <1>1, <1>2

\* There are finitely many descriptors.
LEMMA FdFinite == IsFiniteSet(Fd)
  BY FS_Interval, SizesAssumption DEF Fd

\* select returns a number, and no fewer than the descriptors it reports.
LEMMA BitsAre ==
  ASSUME NEW sets \in [Fd -> SUBSET Type]
  PROVE  /\ Bits(sets) \in Nat
         /\ Cardinality(SomeIn(sets)) <= Bits(sets)
<1> DEFINE U == UNION {{fd} \X sets[fd] : fd \in Fd}
           S == {fd \in Fd : sets[fd] # {}}
           some == [fd \in S |-> <<fd, CHOOSE t \in sets[fd] : TRUE>>]
<1>1. U \subseteq Fd \X Type
  OBVIOUS
<1>2. IsFiniteSet(Fd \X Type)
  BY FdFinite, FS_Product, TypesAssumption
<1>3. IsFiniteSet(U)
  BY <1>1, <1>2, FS_Subset
<1>4. \A fd \in S : some[fd] \in U /\ some[fd][1] = fd
  OBVIOUS
<1>5. some \in Injection(S, U)
  <2>1. some \in [S -> U]
    <3>1. DOMAIN some = S /\ some = [fd \in DOMAIN some |-> some[fd]]
      OBVIOUS
    <3> HIDE DEF some, S, U
    <3> QED
      BY <1>4, <3>1
  <2>2. \A a, b \in S : some[a] = some[b] => a = b
    <3> HIDE DEF some, S, U
    <3> QED
      BY <1>4
  <2> HIDE DEF some, S, U
  <2> QED
    BY <2>1, <2>2 DEF Injection, IsInjective
<1>6. Cardinality(S) <= Cardinality(U)
  <2> HIDE DEF some, S, U
  <2> QED
    BY <1>3, <1>5, FS_Injection
<1> QED
  BY <1>3, <1>6, FS_CardinalityType DEF Bits, SomeIn

-----------------------------------------------------------------------------
(* Every step keeps the variables' types.                                  *)

\* The calls left.
LEMMA SpentLeft ==
  ASSUME VarsOK, NEW call, Spend(call)
  PROVE  left' \in 0 .. Budget
<1>1. left \in 0 .. Budget /\ left > 0 /\ left' = left - 1 /\ Budget \in Nat
  BY SizesAssumption DEF VarsOK, Spend
<1> QED
  BY <1>1

\* The end of bk_run_close keeps the types.
LEMMA ClearTyped ==
  ASSUME VarsOK, NEW fd, NEW S \in SUBSET Fd, ClearFd(fd, S), S \subseteq assoc
  PROVE  /\ want' \in [Fd -> SUBSET Type] /\ selectn' \in 0 .. MaxFd + 1
         /\ \A d \in S : d < selectn'
  BY HighestIs DEF VarsOK, ClearFd

\* The signal handled next is one that was raised.
LEMMA RaisedLeast ==
  ASSUME Raised # {}
  PROVE  Least(Raised) \in Sig /\ Least(Raised) \in Nat /\ signums[Least(Raised)] > 0
<1>1. Raised \in SUBSET Nat
  BY DEF Raised, Sig
<1>2. Least(Raised) \in Raised
  BY <1>1, LeastOf
<1> QED
  BY <1>1, <1>2 DEF Raised

\* The program's calls keep the types.
LEMMA ProgramTyped == ASSUME VarsOK, ProgramCalls PROVE VarsOK'
<1>1. ASSUME NEW fd \in Fd, NEW wanted \in SUBSET Type, Handle(fd, wanted) PROVE VarsOK'
  <2>1. selectn' \in 0 .. MaxFd + 1
    BY <1>1, SizesAssumption DEF VarsOK, Handle, Fd
  <2>2. \A d \in assoc' : d < selectn'
    BY <1>1 DEF VarsOK, Handle, Fd
  <2> QED
    BY <1>1, <2>1, <2>2, SpentLeft DEF VarsOK, Handle, MayCall, flags, lists, signals
<1>2. ASSUME NEW fd \in Fd, NEW wanted \in SUBSET Type, Setpref(fd, wanted) PROVE VarsOK'
  BY <1>2, SpentLeft DEF VarsOK, Setpref, MayAsk, MayCall, flags, lists, signals, kernel
<1>3. ASSUME NEW fd \in Fd, NEW tell \in BOOLEAN, Close(fd, tell) PROVE VarsOK'
  <2>1. /\ want' \in [Fd -> SUBSET Type] /\ selectn' \in 0 .. MaxFd + 1
        /\ \A d \in assoc' : d < selectn'
    <3>1. CASE tell
      BY <1>3, <3>1 DEF VarsOK, Close
    <3>2. CASE ~tell
      <4>1. /\ ClearFd(fd, assoc \ {fd}) /\ assoc \ {fd} \in SUBSET Fd
            /\ assoc' = assoc \ {fd}
        BY <1>3, <3>2 DEF VarsOK, Close
      <4> QED
        BY <4>1, ClearTyped
    <3> QED
      BY <3>1, <3>2
  <2> QED
    BY <1>3, <2>1, SpentLeft DEF VarsOK, Close, MayCall, flags, lists, signals, kernel
<1>4. ASSUME NEW e \in Event, Enqueue(e) PROVE VarsOK'
  BY <1>4, SpentLeft DEF VarsOK, Enqueue, MayCall, flags, fds, signals, kernel
<1>5. ASSUME NEW e \in Event, Dequeue(e) PROVE VarsOK'
  BY <1>5, SpentLeft DEF VarsOK, Dequeue, MayCall, flags, fds, signals, kernel
<1>6. ASSUME NEW f \in Poll \cup Idle \cup Demand, AddFunc(f) PROVE VarsOK'
  BY <1>6, SpentLeft DEF VarsOK, AddFunc, MayCall, flags, fds, signals, kernel
<1>7. ASSUME NEW f \in Poll \cup Idle \cup Demand, RemoveFunc(f) PROVE VarsOK'
  BY <1>7, SpentLeft DEF VarsOK, RemoveFunc, MayCall, flags, fds, signals, kernel
<1>8. ASSUME NEW f \in Demand, SetDemand(f) PROVE VarsOK'
  BY <1>8, SpentLeft DEF VarsOK, SetDemand, MayCall, flags, fds, signals, kernel
<1>9. ASSUME NEW s \in Sig, NEW enable \in BOOLEAN, NEW clear \in BOOLEAN, Signal(s, enable, clear)
      PROVE  VarsOK'
  BY <1>9, SpentLeft DEF VarsOK, Signal, MayCall, flags, fds, lists
<1>10. ASSUME SetRunOver PROVE VarsOK'
  BY <1>10, SpentLeft DEF VarsOK, SetRunOver, MayCall, fds, lists, signals, kernel
<1>11. ASSUME SetDontBlock PROVE VarsOK'
  BY <1>11, SpentLeft DEF VarsOK, SetDontBlock, MayCall, fds, lists, signals, kernel
<1>12. ASSUME RunRun PROVE VarsOK'
  BY <1>12, SpentLeft DEF VarsOK, RunRun, MayCall, fds, lists, signals, kernel
<1>13. ASSUME NEW noblock \in BOOLEAN, RunOnce(noblock) PROVE VarsOK'
  BY <1>13, SpentLeft DEF VarsOK, RunOnce, MayCall, fds, lists, signals, kernel
<1>14. ASSUME ReturnFailure PROVE VarsOK'
  BY <1>14, SpentLeft DEF VarsOK, ReturnFailure, MayCall, flags, fds, lists, signals, kernel
<1> QED
  BY <1>1, <1>2, <1>3, <1>4, <1>5, <1>6, <1>7, <1>8, <1>9, <1>10, <1>11, <1>12, <1>13,
     <1>14 DEF ProgramCalls

\* Returns keep the types.
LEMMA ReturnsTyped == ASSUME VarsOK, Returns PROVE VarsOK'
<1>1. ASSUME Return PROVE VarsOK'
  BY <1>1 DEF VarsOK, Return, flags, fds, lists, signals
<1>2. ASSUME ReturnDelta PROVE VarsOK'
  BY <1>2 DEF VarsOK, ReturnDelta, flags, fds, lists, signals, kernel
<1>3. ASSUME ReturnFromClose PROVE VarsOK'
  <2>1. /\ want' \in [Fd -> SUBSET Type] /\ selectn' \in 0 .. MaxFd + 1
        /\ \A d \in assoc' : d < selectn'
    BY <1>3, ClearTyped DEF ReturnFromClose, VarsOK
  <2> QED
    BY <1>3, <2>1 DEF VarsOK, ReturnFromClose, flags, lists, signals, kernel
<1> QED
  BY <1>1, <1>2, <1>3 DEF Returns

\* The loop's steps keep the types.
LEMMA LoopTyped == ASSUME VarsOK, LoopSteps PROVE VarsOK'
<1>1. ASSUME RunTurn PROVE VarsOK'
  BY <1>1 DEF VarsOK, RunTurn, fds, lists, signals, kernel
<1>2. ASSUME NEW pc \in {"demand", "poll", "idle"}, NEW f \in Func, Visit(pc, f) PROVE VarsOK'
  BY <1>2 DEF VarsOK, Visit, flags, fds, lists, signals, kernel
<1>3. ASSUME EndDemand PROVE VarsOK'
  BY <1>3 DEF VarsOK, EndDemand, flags, fds, lists, signals, kernel
<1>4. ASSUME EndPoll PROVE VarsOK'
  BY <1>4 DEF VarsOK, EndPoll, flags, fds, lists, signals, kernel
<1>5. ASSUME NEW e \in Event, RunEvent(e) PROVE VarsOK'
  BY <1>5 DEF VarsOK, RunEvent, flags, fds, signals, kernel
<1>6. ASSUME PrepareSelect PROVE VarsOK'
  BY <1>6 DEF VarsOK, PrepareSelect, flags, fds, lists, signals, kernel
<1>7. ASSUME DeadSelect PROVE VarsOK'
  BY <1>7 DEF VarsOK, DeadSelect, fds, lists, signals, kernel
<1>8. ASSUME SelectReady PROVE VarsOK'
  BY <1>8 DEF VarsOK, SelectReady, flags, fds, lists, signals, kernel
<1>9. ASSUME SelectTimeout PROVE VarsOK'
  BY <1>9 DEF VarsOK, SelectTimeout, flags, fds, lists, signals, kernel
<1>10. ASSUME SelectInterrupted PROVE VarsOK'
  BY <1>10 DEF VarsOK, SelectInterrupted, Deliver, flags, fds, lists
<1>11. ASSUME NEW fd \in Fd, DispatchTo(fd) PROVE VarsOK'
  BY <1>11 DEF VarsOK, DispatchTo, flags, fds, lists, signals, kernel
<1>12. ASSUME EndDispatch PROVE VarsOK'
  BY <1>12 DEF VarsOK, EndDispatch, flags, fds, lists, signals, kernel
<1>13. ASSUME EndIdle PROVE VarsOK'
  BY <1>13 DEF VarsOK, EndIdle, flags, fds, lists, signals, kernel
<1>14. ASSUME ScanSignals PROVE VarsOK'
  BY <1>14 DEF VarsOK, ScanSignals, flags, fds, lists, kernel
<1>15. ASSUME CallSignalHandler PROVE VarsOK'
  <2> DEFINE s == Least(Raised)
  <2>1. s \in Sig /\ signums[s] > 0
    BY <1>15, RaisedLeast DEF CallSignalHandler
  <2>2. signums' = [signums EXCEPT ![s] = signums[s] - 1] /\ crashed' = (s \notin handled)
    BY <1>15 DEF CallSignalHandler
  <2> HIDE DEF s
  <2>3. signums' \in [Sig -> Nat] /\ crashed' \in BOOLEAN
    BY <2>1, <2>2 DEF VarsOK
  <2> QED
    BY <1>15, <2>3 DEF VarsOK, CallSignalHandler, flags, fds, lists, kernel
<1>16. ASSUME EndScan PROVE VarsOK'
  BY <1>16 DEF VarsOK, EndScan, flags, fds, lists, signals, kernel
<1>17. ASSUME Finish PROVE VarsOK'
  BY <1>17 DEF VarsOK, Finish, LeaveFlags, fds, lists, signals, kernel
<1>18. ASSUME AbortRunOnce PROVE VarsOK'
  BY <1>18 DEF VarsOK, AbortRunOnce, LeaveFlags, fds, lists, signals, kernel
<1>19. ASSUME Error PROVE VarsOK'
  BY <1>19 DEF VarsOK, Error, LeaveFlags, fds, lists, signals, kernel
<1> QED
  BY <1>1, <1>2, <1>3, <1>4, <1>5, <1>6, <1>7, <1>8, <1>9, <1>10, <1>11, <1>12, <1>13, <1>14, <1>15,
     <1>16, <1>17, <1>18, <1>19 DEF LoopSteps

\* The world keeps the types.
LEMMA WorldTyped == ASSUME VarsOK, World PROVE VarsOK'
<1>1. ASSUME NEW fd \in Fd, NEW t \in Type, Arrive(fd, t) PROVE VarsOK'
  BY <1>1 DEF VarsOK, Arrive, flags, fds, lists, signals
<1>2. ASSUME NEW e \in Event, ClockReaches(e) PROVE VarsOK'
  BY <1>2 DEF VarsOK, ClockReaches, flags, fds, signals, kernel
<1>3. ASSUME NEW s \in Sig, Kill(s) PROVE VarsOK'
  BY <1>3, SpentLeft DEF VarsOK, Kill,  flags, fds, lists, signals
<1>4. ASSUME SelectFails PROVE VarsOK'
  BY <1>4, SpentLeft DEF VarsOK, SelectFails,  flags, fds, lists, signals, kernel
<1> QED
  BY <1>1, <1>2, <1>3, <1>4 DEF World

-----------------------------------------------------------------------------
(* Stacks.                                                                 *)

\* The running activation.
LEMMA TopFrame ==
  ASSUME TypeOK, stack # <<>>
  PROVE  /\ stack \in Seq(Activation) /\ Len(stack) \in Nat /\ Len(stack) > 0
         /\ Len(stack) \in DOMAIN stack /\ Top = stack[Len(stack)] /\ Top \in Activation
<1>1. stack \in Seq(Activation) /\ Len(stack) \in Nat /\ Len(stack) > 0
  BY StackType
<1>2. Len(stack) \in DOMAIN stack
  BY <1>1
<1>3. stack[Len(stack)] \in Activation
  BY <1>1, <1>2
<1> QED
  BY <1>1, <1>2, <1>3 DEF Top

\* What is left of a sequence.
LEMMA Prefix ==
  ASSUME NEW s \in Seq(Activation), NEW n \in 0 .. Len(s)
  PROVE  LET t == SubSeq(s, 1, n)
         IN /\ t \in Seq(Activation) /\ Len(t) = n /\ n \in Nat
            /\ \A i \in 1 .. n : t[i] = s[i] /\ i \in DOMAIN s
<1>1. Len(s) \in Nat /\ n \in Nat /\ n <= Len(s) /\ 1 \in Int
  OBVIOUS
<1>2. \A i \in 1 .. n : i \in 1 .. Len(s)
  BY <1>1
<1> DEFINE t == SubSeq(s, 1, n)
<1>3. t = [i \in 1 .. n |-> s[i]]
  BY <1>1
<1>4. \A i \in 1 .. n : s[i] \in Activation
  BY <1>2
<1>5. t \in [1 .. n -> Activation]
  BY <1>3, <1>4
<1>6. t \in Seq(Activation) /\ Len(t) = n
  BY <1>1, <1>3, <1>5
<1> QED
  BY <1>1, <1>2, <1>3, <1>6

\* An activation is put on.
LEMMA PushOne ==
  ASSUME NEW s \in Seq(Activation), NEW f \in Activation
  PROVE  LET t == Append(s, f)
         IN /\ t \in Seq(Activation) /\ Len(t) = Len(s) + 1 /\ Len(s) \in Nat
            /\ \A i \in 1 .. Len(s) : t[i] = s[i]
            /\ t[Len(s) + 1] = f
  OBVIOUS

\* Two are put on.
LEMMA PushTwo ==
  ASSUME NEW s \in Seq(Activation), NEW f \in Activation, NEW g \in Activation
  PROVE  LET t == s \o <<f, g>>
         IN /\ t \in Seq(Activation) /\ Len(t) = Len(s) + 2 /\ Len(s) \in Nat
            /\ \A i \in 1 .. Len(s) : t[i] = s[i]
            /\ t[Len(s) + 1] = f /\ t[Len(s) + 2] = g
<1> DEFINE u == <<f, g>>
           t == s \o u
<1>1. u \in Seq(Activation) /\ Len(u) = 2 /\ u[1] = f /\ u[2] = g
  OBVIOUS
<1>2. Len(s) \in Nat
  OBVIOUS
<1>3. t \in Seq(Activation) /\ Len(t) = Len(s) + Len(u)
  <2> HIDE DEF u
  <2>1. u \in Seq(Activation)
    BY <1>1
  <2> QED
    BY <2>1
<1>4. \A i \in 1 .. Len(s) : t[i] = s[i]
  <2> HIDE DEF u
  <2> QED BY <1>1, <1>2
<1>5. t[Len(s) + 1] = u[1] /\ t[Len(s) + 2] = u[2]
  <2> HIDE DEF u
  <2>1. u \in Seq(Activation) /\ Len(u) = 2
    BY <1>1
  <2>2. \A i \in 1 .. Len(s) + Len(u) : t[i] = IF i <= Len(s) THEN s[i] ELSE u[i - Len(s)]
    BY <2>1, ConcatProperties
  <2>3. Len(s) + 1 \in 1 .. Len(s) + Len(u) /\ Len(s) + 2 \in 1 .. Len(s) + Len(u)
    BY <2>1, <1>2
  <2>4. (Len(s) + 1) - Len(s) = 1 /\ (Len(s) + 2) - Len(s) = 2
    BY <1>2
  <2> QED
    BY <2>2, <2>3, <2>4, <1>2
<1> QED
  BY <1>1, <1>2, <1>3, <1>4, <1>5

-----------------------------------------------------------------------------
(* What a step leaves of the invariant below the top.                      *)

\* The step leaves activation i as far as the invariant goes.  It may be outdated
\* only by a bk_run_once above it.
Kept(i) ==
  /\ i \in DOMAIN stack /\ stack'[i].kind = stack[i].kind
  /\ stack[i].kind # "once" => stack'[i] = stack[i]
  /\ stack[i].kind = "once" =>
       /\ stack'[i].pc = stack[i].pc /\ stack'[i].noblock = stack[i].noblock
       /\ stack'[i].ran = stack[i].ran /\ stack'[i].timeout = stack[i].timeout
       /\ stack'[i].ret = stack[i].ret /\ stack'[i].copy = stack[i].copy
       /\ stack'[i].x = stack[i].x
       /\ \A fd \in Fd : stack'[i].told[fd] \subseteq stack[i].told[fd]
       /\ \/ stack'[i].fresh = stack[i].fresh
          \/ \E j \in DOMAIN stack' : j > i /\ stack'[j].kind = "once"
\* The step replaces the activations from n on, and bk_run_once below n is told, or
\* will be, when one was among them.
Turned(n) ==
  /\ n \in 0 .. Len(stack) /\ n <= Len(stack') /\ stack' \in Seq(Activation)
  /\ \A i \in 1 .. n : Kept(i)
  /\ n = Len(stack) => n = 0 \/ stack[n].kind # "once"
  /\ \/ abort'
     \/ \E j \in (n + 1) .. Len(stack') : stack'[j].kind = "once"
     \/ abort' = abort /\ \A j \in (n + 1) .. Len(stack) : stack[j].kind # "once"

\* Numbers of activations below n.
LEMMA Below_n ==
  ASSUME TypeOK, NEW n, Turned(n)
  PROVE  /\ n \in Nat /\ Len(stack) \in Nat /\ Len(stack') \in Nat
         /\ \A i \in 1 .. n : i \in DOMAIN stack /\ i \in DOMAIN stack' /\ i \in Nat
         /\ DOMAIN stack = 1 .. Len(stack) /\ DOMAIN stack' = 1 .. Len(stack')
<1>1. stack \in Seq(Activation) /\ stack' \in Seq(Activation)
  BY StackType DEF Turned
<1>2. n \in 0 .. Len(stack) /\ n <= Len(stack')
  BY DEF Turned
<1> QED
  BY <1>1, <1>2

\* An activation that is kept relies on what it did.
LEMMA OldSound ==
  ASSUME IInv, NEW n, Turned(n), NEW i \in 1 .. n
  PROVE  Sound(i)'
<1>1. /\ n \in Nat /\ Len(stack) \in Nat /\ Len(stack') \in Nat
      /\ \A k \in 1 .. n : k \in DOMAIN stack /\ k \in DOMAIN stack' /\ k \in Nat
      /\ DOMAIN stack = 1 .. Len(stack) /\ DOMAIN stack' = 1 .. Len(stack')
  BY Below_n DEF IInv
<1>2. Kept(i) /\ i \in DOMAIN stack /\ Sound(i)
  BY <1>1 DEF Turned, IInv
<1>3. stack[i].kind = "once" => i # Len(stack)
  <2>1. i \in Nat /\ 1 <= i /\ i <= n
    BY <1>1
  <2>2. n <= Len(stack)
    <3>1. n \in 0 .. Len(stack)
      BY DEF Turned
    <3> QED
      BY <3>1, <1>1
  <2>5. n \in Nat /\ Len(stack) \in Nat
    BY <1>1
  <2>3. n # 0 /\ (n # Len(stack) => i # Len(stack))
    BY <2>1, <2>2, <2>5
  <2>4. n = Len(stack) => stack[n].kind # "once"
    BY <2>3 DEF Turned
  <2> QED
    BY <2>3, <2>4
<1>4. SleepOf(i)'
  BY <1>2, <1>3 DEF SleepOf, Sound, Kept, OnceAt
<1>5. TimeoutOf(i)'
  BY <1>2, <1>3 DEF TimeoutOf, Sound, Kept, OnceAt
<1>6. FreshOf(i)'
  <2> SUFFICES ASSUME OnceAt(i, "dispatch")', ~stack'[i].fresh, ~abort',
                      ~\E j \in DOMAIN stack' : j > i /\ stack'[j].kind = "once"
               PROVE  FALSE
    BY DEF FreshOf
  <2>1. OnceAt(i, "dispatch") /\ ~stack[i].fresh
    BY <1>2 DEF Kept, OnceAt
  <2>2. abort \/ \E j \in DOMAIN stack : j > i /\ stack[j].kind = "once"
    BY <1>2, <2>1 DEF Sound, FreshOf
  <2>3. abort' = abort /\ \A j \in (n + 1) .. Len(stack) : stack[j].kind # "once"
    <3>1. \A j \in (n + 1) .. Len(stack') : j \in DOMAIN stack' /\ j > i
      BY <1>1
    <3> QED
      BY <3>1 DEF Turned
  <2>4. PICK j \in DOMAIN stack : j > i /\ stack[j].kind = "once"
    BY <2>2, <2>3
  <2>5. j \in 1 .. n
    BY <1>1, <2>3, <2>4
  <2> QED
    BY <1>1, <2>4, <2>5 DEF Turned, Kept
<1>7. CallerOf(i)'
  <2> SUFFICES ASSUME stack'[i].kind = "user", stack'[i].why \in {"demand", "poll", "idle"}
               PROVE  /\ i > 1 /\ stack'[i - 1].kind = "once"
                      /\ stack'[i - 1].pc = stack'[i].why
    BY DEF CallerOf, OnceAt
  <2>1. i > 1 /\ OnceAt(i - 1, stack[i].why) /\ stack'[i] = stack[i]
    BY <1>2 DEF Sound, CallerOf, Kept
  <2>2. i - 1 \in 1 .. n
    BY <1>1, <2>1
  <2>3. Kept(i - 1)
    BY <2>2 DEF Turned
  <2> QED
    BY <2>1, <2>3 DEF Kept, OnceAt
<1>8. PassOf(i)'
  <2> SUFFICES ASSUME OnceAt(i, "dispatch")'
               PROVE  /\ \A fd \in Fd : stack'[i].told[fd] \subseteq stack'[i].copy[fd]
                      /\ Cardinality(Remaining(stack'[i])) <= stack'[i].ret
    BY DEF PassOf, Remaining, Fd
  <2>1. /\ OnceAt(i, "dispatch") /\ stack'[i].copy = stack[i].copy /\ stack'[i].x = stack[i].x
        /\ stack'[i].ret = stack[i].ret
        /\ \A fd \in Fd : stack'[i].told[fd] \subseteq stack[i].told[fd]
    BY <1>2 DEF Kept, OnceAt
  <2>2. /\ \A fd \in Fd : stack[i].told[fd] \subseteq stack[i].copy[fd]
        /\ Cardinality(Remaining(stack[i])) <= stack[i].ret
    BY <1>2, <2>1 DEF Sound, PassOf
  <2>3. Remaining(stack'[i]) = Remaining(stack[i])
    BY <2>1 DEF Remaining
  <2> QED
    BY <2>1, <2>2, <2>3
<1> QED
  BY <1>4, <1>5, <1>6, <1>7, <1>8 DEF Sound

\* An activation that relies on nothing.
Dull(f) ==
  /\ f.kind = "once" => f.pc \notin {"select", "events", "dispatch"}
  /\ f.kind = "user" => f.why \notin {"demand", "poll", "idle", "close"}

\* Nothing to show of it.
LEMMA DullSound ==
  ASSUME NEW i, Dull(stack'[i])
  PROVE  Sound(i)' /\ CloseOf(i)'
  BY DEF Dull, Sound, SleepOf, TimeoutOf, FreshOf, CallerOf, OnceAt, PassOf, CloseOf

\* A handler that is still told of a close is: its number rests.
LEMMA OldFd ==
  ASSUME TypeOK, NEW n, Turned(n), NEW i \in 1 .. n, CloseOf(i), Rest
  PROVE  CloseOf(i)'
<1>1. Kept(i) /\ i \in DOMAIN stack
  BY Below_n DEF Turned
<1> SUFFICES ASSUME stack'[i].kind = "user", stack'[i].why = "close"
             PROVE  stack'[i].fd \in Fd \ assoc'
  BY DEF CloseOf, Fd
<1>2. stack'[i] = stack[i] /\ stack[i].kind = "user"
  BY <1>1 DEF Kept
<1>3. stack[i].fd \in Fd \ assoc
  BY <1>2 DEF CloseOf
<1>4. stack[i] = User("close", stack[i].fd)
  <2>1. stack[i] \in UserFrame
    BY <1>1, <1>2, StackType, UserIs
  <2> QED
    BY <1>2, <2>1 DEF UserFrame, User
<1> QED
  BY <1>1, <1>2, <1>3, <1>4 DEF Rest, BeingClosed

\* What the registry asks of a step that replaces the activations from n on.
Matches(n) == FdInv /\ Turned(n) => SelectMatchesRegistry'

\* Enough to show of a step: what the new activations rely on, and the registry.
LEMMA Covered ==
  ASSUME NEW n, TypeOK' /\ InRange', Turned(n), IInv,
         \A i \in (n + 1) .. Len(stack') : Sound(i)' /\ (FdInv => CloseOf(i)'), Matches(n)
  PROVE  Goes
<1>0. TypeOK
  BY DEF IInv
<1>1. \A i \in DOMAIN stack' : i \in 1 .. n \/ i \in (n + 1) .. Len(stack')
  BY <1>0, Below_n
<1>2. IInv'
  BY <1>1, OldSound DEF IInv
<1>3. ASSUME FdInv, Rest PROVE FdInv'
  <2>1. \A i \in 1 .. n : CloseOf(i)
    BY <1>0, <1>3, Below_n DEF FdInv
  <2>2. \A i \in 1 .. n : CloseOf(i)'
    BY <1>0, <1>3, <2>1, OldFd
  <2>3. \A i \in DOMAIN stack' : CloseOf(i)'
    BY <1>1, <1>3, <2>2
  <2>4. SelectMatchesRegistry'
    BY <1>3 DEF Matches
  <2>5. RegisteredOnly'
    BY <1>3 DEF FdInv, RegisteredOnly
  <2> QED
    BY <2>3, <2>4, <2>5 DEF FdInv
<1> QED
  BY <1>2, <1>3 DEF Goes

\* No handler told of a close is among those replaced.
NoClose(n) == \A j \in (n + 1) .. Len(stack) : ~(stack[j].kind = "user" /\ stack[j].why = "close")

\* Whoever is told of a close still is.
LEMMA CloseStays ==
  ASSUME TypeOK, NEW n, Turned(n), NoClose(n), NEW fd,
         \E i \in DOMAIN stack : stack[i] = User("close", fd)
  PROVE  \E i \in DOMAIN stack' : stack'[i] = User("close", fd)
<1>1. PICK i \in DOMAIN stack : stack[i] = User("close", fd)
  OBVIOUS
<1>2. stack[i].kind = "user" /\ stack[i].why = "close"
  BY <1>1 DEF User
<1>3. i \in 1 .. n
  <2>1. i \in 1 .. n \/ i \in (n + 1) .. Len(stack)
    BY Below_n
  <2> QED
    BY <1>2, <2>1 DEF NoClose
<1>4. stack'[i] = stack[i] /\ i \in DOMAIN stack'
  BY <1>2, <1>3, Below_n DEF Turned, Kept
<1> QED
  BY <1>1, <1>4

\* The registry matches what is selected when neither changes.
LEMMA StillMatches ==
  ASSUME TypeOK, NEW n, UNCHANGED fds, NoClose(n)
  PROVE  Matches(n)
<1> SUFFICES ASSUME FdInv, Turned(n) PROVE SelectMatchesRegistry'
  BY DEF Matches
<1>1. assoc' = assoc /\ want' = want /\ selectn' = selectn /\ wish' = wish
  BY DEF fds
<1>2. \A fd \in Fd : want[fd] # {} /\ fd \notin assoc
                     => \E i \in DOMAIN stack' : stack'[i] = User("close", fd)
  BY CloseStays DEF FdInv, SelectMatchesRegistry, BeingClosed
<1>3. \A fd \in assoc : fd < selectn /\ want[fd] = wish[fd]
  BY DEF FdInv, SelectMatchesRegistry, BeingClosed
<1>4. \A fd \in assoc' : fd < selectn' /\ want'[fd] = wish'[fd]
  BY <1>1, <1>3
<1>5. \A fd \in Fd : want'[fd] # {}
                     => fd \in assoc' \/ \E i \in DOMAIN stack' : stack'[i] = User("close", fd)
  BY <1>1, <1>2
<1> QED
  BY <1>4, <1>5 DEF SelectMatchesRegistry, BeingClosed, Fd, User

\* An activation that is as it was.
LEMMA SameKept ==
  ASSUME NEW i \in DOMAIN stack, stack'[i] = stack[i]
  PROVE  Kept(i)
  BY DEF Kept

\* A call that leaves the stack alone.
LEMMA UserTurned ==
  ASSUME TypeOK, Running("user"), UNCHANGED <<stack, abort>>
  PROVE  Turned(Len(stack)) /\ Len(stack') = Len(stack) /\ stack' \in Seq(Activation)
<1>1. /\ stack # <<>> /\ Top.kind = "user"
  BY DEF Running
<1>2. /\ stack \in Seq(Activation) /\ Len(stack) \in Nat /\ Len(stack) > 0
      /\ Top = stack[Len(stack)]
  BY <1>1, TopFrame
<1>3. \A i \in 1 .. Len(stack) : Kept(i)
  BY <1>2, SameKept
<1> QED
  BY <1>1, <1>2, <1>3 DEF Turned

\* A call that leaves the stack alone keeps the invariants if the registry matches.
LEMMA UserSafe ==
  ASSUME IInv, VarsOK', Running("user"), UNCHANGED <<stack, abort>>, Matches(Len(stack))
  PROVE  Goes
<1>1. /\ Turned(Len(stack)) /\ Len(stack') = Len(stack) /\ TypeOK
      /\ Len(stack) \in Nat /\ stack' \in Seq(Activation)
  BY UserTurned, TopFrame DEF IInv, Running
<1>2. (Len(stack) + 1) .. Len(stack') = {}
  BY <1>1
<1>3. TypeOK' /\ InRange'
  BY <1>1, TypePartsNext
<1> QED
  BY <1>1, <1>2, <1>3, Covered

-----------------------------------------------------------------------------
(* Stacks with something changed in every bk_run_once under way.           *)

\* g is activation f, as far as the invariants go; old says that it may be outdated
\* by a new select.
Alike(f, g, old) ==
  /\ g.kind = f.kind
  /\ f.kind # "once" => g = f
  /\ f.kind = "once" =>
       /\ g.pc = f.pc /\ g.noblock = f.noblock /\ g.ran = f.ran /\ g.timeout = f.timeout
       /\ g.ret = f.ret /\ g.copy = f.copy
       /\ g.x = f.x /\ \A fd \in Fd : g.told[fd] \subseteq f.told[fd]
       /\ old \/ g.fresh = f.fresh
\* The first n activations are what b has.
Base(b, n, old) ==
  /\ b \in Seq(Activation) /\ Len(b) = n /\ n \in 0 .. Len(stack)
  /\ \A i \in 1 .. n : Alike(stack[i], b[i], old)

\* The stack becomes b.
LEMMA BaseZero ==
  ASSUME TypeOK, NEW b, NEW n, Base(b, n, FALSE), stack' = b
  PROVE  /\ stack' \in Seq(Activation) /\ Len(stack') = n /\ n \in Nat
         /\ \A i \in 1 .. n : Kept(i)
<1>1. stack \in Seq(Activation) /\ Len(stack) \in Nat /\ DOMAIN stack = 1 .. Len(stack)
  BY StackType
<1>2. n \in Nat /\ n <= Len(stack)
  BY <1>1 DEF Base
<1>3. \A i \in 1 .. n : i \in DOMAIN stack
  BY <1>1, <1>2
<1>4. \A i \in 1 .. n : Alike(stack[i], stack'[i], FALSE)
  BY DEF Base
<1>5. \A i \in 1 .. n : Kept(i)
  BY <1>3, <1>4 DEF Alike, Kept
<1> QED
  BY <1>2, <1>5 DEF Base

\* The stack becomes b and one more.
LEMMA BaseOne ==
  ASSUME TypeOK, NEW b, NEW n, NEW old \in BOOLEAN, Base(b, n, old), NEW f \in Activation,
         stack' = Append(b, f), old => f.kind = "once"
  PROVE  /\ stack' \in Seq(Activation) /\ Len(stack') = n + 1 /\ n \in Nat /\ stack'[n + 1] = f
         /\ \A i \in 1 .. n : Kept(i)
<1>1. stack \in Seq(Activation) /\ Len(stack) \in Nat /\ DOMAIN stack = 1 .. Len(stack)
  BY StackType
<1>2. n \in Nat /\ n <= Len(stack)
  BY <1>1 DEF Base
<1>3. \A i \in 1 .. n : i \in DOMAIN stack
  BY <1>1, <1>2
<1>4. /\ stack' \in Seq(Activation) /\ Len(stack') = n + 1 /\ stack'[n + 1] = f
      /\ \A i \in 1 .. n : stack'[i] = b[i]
  BY PushOne DEF Base
<1>5. \A i \in 1 .. n : Alike(stack[i], stack'[i], old)
  BY <1>4 DEF Base
<1>6. old => \A i \in 1 .. n : n + 1 \in DOMAIN stack' /\ n + 1 > i
  BY <1>2, <1>4
<1>7. ASSUME NEW i \in 1 .. n PROVE Kept(i)
  <2>1. i \in DOMAIN stack /\ Alike(stack[i], stack'[i], old)
    BY <1>3, <1>5
  <2>2. old => \E j \in DOMAIN stack' : j > i /\ stack'[j].kind = "once"
    BY <1>4, <1>6
  <2> QED
    BY <2>1, <2>2 DEF Alike, Kept
<1> QED
  BY <1>2, <1>4, <1>7

\* The stack becomes b and two more.
LEMMA BaseTwo ==
  ASSUME TypeOK, NEW b, NEW n, Base(b, n, FALSE), NEW f \in Activation, NEW g \in Activation,
         stack' = b \o <<f, g>>
  PROVE  /\ stack' \in Seq(Activation) /\ Len(stack') = n + 2 /\ n \in Nat
         /\ stack'[n + 1] = f /\ stack'[n + 2] = g
         /\ \A i \in 1 .. n : Kept(i)
<1>1. stack \in Seq(Activation) /\ Len(stack) \in Nat /\ DOMAIN stack = 1 .. Len(stack)
  BY StackType
<1>2. n \in Nat /\ n <= Len(stack)
  BY <1>1 DEF Base
<1>3. \A i \in 1 .. n : i \in DOMAIN stack
  BY <1>1, <1>2
<1>4. /\ stack' \in Seq(Activation) /\ Len(stack') = n + 2
      /\ stack'[n + 1] = f /\ stack'[n + 2] = g
      /\ \A i \in 1 .. n : stack'[i] = b[i]
  BY ZenonT(60), PushTwo DEF Base
<1>5. \A i \in 1 .. n : Alike(stack[i], stack'[i], FALSE)
  BY <1>4 DEF Base
<1>6. \A i \in 1 .. n : Kept(i)
  BY <1>3, <1>5 DEF Alike, Kept
<1> QED
  BY <1>2, <1>4, <1>6

\* BK_RUN_FLAG_ABORT_RUN_ONCE is set when a bk_run_once was among those replaced.
Told(n) == abort' \/ (abort' = abort /\ \A j \in (n + 1) .. Len(stack) : stack[j].kind # "once")
\* A bk_run_once never runs on as it was.
NotOnce(n) == n = Len(stack) => n = 0 \/ stack[n].kind # "once"

\* Enough to show when activations go.
LEMMA SafeZero ==
  ASSUME IInv, VarsOK', NEW b, NEW n, Base(b, n, FALSE), stack' = b, NotOnce(n), Told(n), Matches(n)
  PROVE  Goes
<1>1. /\ stack' \in Seq(Activation) /\ Len(stack') = n /\ n \in Nat
      /\ \A i \in 1 .. n : Kept(i)
  BY BaseZero DEF IInv
<1>2. Turned(n)
  BY <1>1 DEF Turned, Base, NotOnce, Told
<1>3. (n + 1) .. Len(stack') = {}
  BY <1>1
<1>4. TypeOK' /\ InRange'
  BY <1>1, TypePartsNext
<1> QED
  BY <1>2, <1>3, <1>4, Covered DEF IInv

\* Enough to show when one is put in the place of those that go.
LEMMA SafeOne ==
  ASSUME IInv, VarsOK', NEW b, NEW n, NEW old \in BOOLEAN, Base(b, n, old), NEW f \in Activation,
         stack' = Append(b, f), old => f.kind = "once",
         NotOnce(n), Told(n) \/ f.kind = "once", Sound(n + 1)', FdInv => CloseOf(n + 1)', Matches(n)
  PROVE  Goes
<1>1. /\ stack' \in Seq(Activation) /\ Len(stack') = n + 1 /\ n \in Nat /\ stack'[n + 1] = f
      /\ \A i \in 1 .. n : Kept(i)
  BY BaseOne DEF IInv
<1>2. n <= Len(stack') /\ n + 1 \in (n + 1) .. Len(stack')
  BY <1>1
<1>3. Turned(n)
  BY <1>1, <1>2 DEF Turned, Base, NotOnce, Told
<1>4. \A i \in (n + 1) .. Len(stack') : i = n + 1
  BY <1>1
<1>5. TypeOK' /\ InRange'
  BY <1>1, TypePartsNext
<1> QED
  BY <1>3, <1>4, <1>5, Covered DEF IInv

\* Enough to show when two are.
LEMMA SafeTwo ==
  ASSUME IInv, VarsOK', NEW b, NEW n, Base(b, n, FALSE), NEW f \in Activation,
         NEW g \in Activation, stack' = b \o <<f, g>>,
         NotOnce(n), f.kind = "once", Sound(n + 1)', Sound(n + 2)',
         FdInv => CloseOf(n + 1)' /\ CloseOf(n + 2)', Matches(n)
  PROVE  Goes
<1>1. /\ stack' \in Seq(Activation) /\ Len(stack') = n + 2 /\ n \in Nat
      /\ stack'[n + 1] = f /\ stack'[n + 2] = g
      /\ \A i \in 1 .. n : Kept(i)
  BY BaseTwo DEF IInv
<1>2. n <= Len(stack') /\ n + 1 \in (n + 1) .. Len(stack')
  BY <1>1
<1>3. Turned(n)
  BY <1>1, <1>2 DEF Turned, Base, NotOnce
<1>4. \A i \in (n + 1) .. Len(stack') : i = n + 1 \/ i = n + 2
  BY <1>1
<1>5. TypeOK' /\ InRange'
  BY <1>1, TypePartsNext
<1> QED
  BY <1>3, <1>4, <1>5, Covered DEF IInv

\* The first n activations as they are.
LEMMA PrefixBase ==
  ASSUME TypeOK, NEW n \in 0 .. Len(stack)
  PROVE  Base(SubSeq(stack, 1, n), n, FALSE)
<1>1. stack \in Seq(Activation)
  BY StackType
<1>2. \A f : Alike(f, f, FALSE)
  BY DEF Alike
<1> QED
  BY <1>1, <1>2, Prefix DEF Base

\* All but the running one.
LEMMA BelowBase ==
  ASSUME TypeOK, stack # <<>>
  PROVE  /\ Base(Below, Len(stack) - 1, FALSE) /\ NotOnce(Len(stack) - 1)
         /\ (Len(stack) - 1) + 1 = Len(stack) /\ (Len(stack) - 1) + 2 = Len(stack) + 1
         /\ Len(stack) - 1 \in Nat
         /\ abort' \/ (abort' = abort /\ Top.kind # "once") => Told(Len(stack) - 1)
<1>1. Len(stack) \in Nat /\ Len(stack) > 0 /\ Top = stack[Len(stack)]
  BY TopFrame
<1>2. /\ Len(stack) - 1 \in 0 .. Len(stack) /\ Len(stack) - 1 # Len(stack)
      /\ (Len(stack) - 1) + 1 = Len(stack) /\ (Len(stack) - 1) + 2 = Len(stack) + 1
      /\ Len(stack) - 1 \in Nat
      /\ \A j \in (Len(stack) - 1 + 1) .. Len(stack) : j = Len(stack)
  BY <1>1
<1>3. Base(Below, Len(stack) - 1, FALSE)
  BY <1>2, PrefixBase DEF Below
<1>4. NotOnce(Len(stack) - 1)
  BY <1>2 DEF NotOnce
<1>5. ASSUME abort' \/ (abort' = abort /\ Top.kind # "once") PROVE Told(Len(stack) - 1)
  <2>1. \A j \in (Len(stack) - 1 + 1) .. Len(stack) : stack[j] = Top
    BY <1>1, <1>2
  <2> QED
    BY <1>5, <2>1 DEF Told
<1> QED
  BY <1>2, <1>3, <1>4, <1>5

\* All of them, when a function or bk_run_run runs.
LEMMA WholeBase ==
  ASSUME TypeOK, stack # <<>>, Top.kind # "once"
  PROVE  /\ Base(stack, Len(stack), FALSE) /\ NotOnce(Len(stack)) /\ Len(stack) \in Nat
         /\ abort' = abort => Told(Len(stack))
<1>1. stack \in Seq(Activation) /\ Len(stack) \in Nat /\ Len(stack) > 0 /\ Top = stack[Len(stack)]
  BY TopFrame
<1>2. \A f : Alike(f, f, FALSE)
  BY DEF Alike
<1>3. Len(stack) \in 0 .. Len(stack) /\ (Len(stack) + 1) .. Len(stack) = {}
  BY <1>1
<1> QED
  BY <1>1, <1>2, <1>3 DEF Base, NotOnce, Told

\* A stack with something changed in every bk_run_once under way.
Mapped(s, old) ==
  /\ s = [i \in DOMAIN stack |-> s[i]]
  /\ \A i \in DOMAIN stack : s[i] \in Activation /\ Alike(stack[i], s[i], old)

\* Parts of it.
LEMMA MappedBase ==
  ASSUME TypeOK, NEW s, NEW old \in BOOLEAN, Mapped(s, old)
  PROVE  /\ \A n \in 0 .. Len(stack) : Base(SubSeq(s, 1, n), n, old)
         /\ Base(s, Len(stack), old)
<1>1. stack \in Seq(Activation) /\ Len(stack) \in Nat /\ DOMAIN stack = 1 .. Len(stack)
  BY StackType
<1>2. s = [i \in 1 .. Len(stack) |-> s[i]] /\ \A i \in 1 .. Len(stack) : s[i] \in Activation
  BY <1>1 DEF Mapped
<1>3. s \in [1 .. Len(stack) -> Activation]
  BY <1>2
<1>4. s \in Seq(Activation) /\ Len(s) = Len(stack)
  BY <1>1, <1>3
<1>5. \A i \in 1 .. Len(stack) : Alike(stack[i], s[i], old)
  BY <1>1 DEF Mapped
<1>6. Base(s, Len(stack), old)
  BY <1>1, <1>4, <1>5 DEF Base
<1>7. ASSUME NEW n \in 0 .. Len(stack) PROVE Base(SubSeq(s, 1, n), n, old)
  <2>1. \A i \in 1 .. n : i \in 1 .. Len(stack)
    BY <1>1
  <2> QED
    BY <1>4, <1>5, <2>1, Prefix DEF Base
<1> QED
  BY <1>6, <1>7

\* bk_run_close changes what was told of its descriptor only.
LEMMA ClosedMapped ==
  ASSUME TypeOK, NEW fd \in Fd
  PROVE  Mapped(Closed(fd), FALSE)
<1> DEFINE s == Closed(fd)
<1>1. ASSUME NEW i \in DOMAIN stack PROVE s[i] \in Activation /\ Alike(stack[i], s[i], FALSE)
  <2>0. stack[i] \in Activation
    BY StackType
  <2>1. CASE stack[i].kind # "once"
    BY <2>0, <2>1 DEF Closed, Alike
  <2>2. CASE stack[i].kind = "once"
    <3>1. stack[i] \in OnceFrame
      BY <2>0, <2>2, OnceIs
    <3>2. stack[i].told \in [Fd -> SUBSET Type]
      BY <3>1, OnceFields
    <3> DEFINE told == [stack[i].told EXCEPT ![fd] = {}]
    <3>3. told \in [Fd -> SUBSET Type] /\ \A x \in Fd : told[x] \subseteq stack[i].told[x]
      <4>1. \A x \in Fd : {} \in SUBSET Type
        OBVIOUS
      <4>2. told \in [Fd -> SUBSET Type]
        BY <3>2, <4>1
      <4>3. \A x \in Fd : told[x] = {} \/ told[x] = stack[i].told[x]
        BY <3>2
      <4> QED
        BY <4>2, <4>3
    <3>4. s[i] = [stack[i] EXCEPT !.told = told]
      BY <2>2 DEF Closed
    <3> HIDE DEF told, s
    <3> DEFINE g == [stack[i] EXCEPT !.told = told]
    <3>5. /\ g \in OnceFrame /\ g.pc = stack[i].pc /\ g.noblock = stack[i].noblock
          /\ g.ran = stack[i].ran /\ g.timeout = stack[i].timeout /\ g.ret = stack[i].ret
          /\ g.copy = stack[i].copy /\ g.told = told /\ g.fresh = stack[i].fresh
          /\ g.x = stack[i].x
      BY <3>1, <3>3, WithTold
    <3>6. g.kind = "once"
      BY <3>5, OnceFields
    <3> HIDE DEF g
    <3>7. g \in Activation /\ Alike(stack[i], g, FALSE)
      BY <2>2, <3>3, <3>5, <3>6 DEF Alike, Activation
    <3> QED
      BY <3>4, <3>7 DEF g
  <2> QED
    BY <2>1, <2>2
<1>2. s = [i \in DOMAIN stack |-> s[i]]
  BY DEF Closed
<1> HIDE DEF s
<1>3. Mapped(s, FALSE)
  BY <1>1, <1>2 DEF Mapped
<1> QED
  BY <1>3 DEF s

\* bk_run_dequeue changes what is to be run only.
LEMMA DequeuedMapped ==
  ASSUME TypeOK, NEW e \in Event
  PROVE  Mapped(Dequeued(e), FALSE)
<1> DEFINE s == Dequeued(e)
<1>1. ASSUME NEW i \in DOMAIN stack PROVE s[i] \in Activation /\ Alike(stack[i], s[i], FALSE)
  <2>0. stack[i] \in Activation
    BY StackType
  <2>1. CASE stack[i].kind # "once"
    BY <2>0, <2>1 DEF Dequeued, Alike
  <2>2. CASE stack[i].kind = "once"
    <3>1. stack[i] \in OnceFrame
      BY <2>0, <2>2, OnceIs
    <3> DEFINE v == stack[i].todo \ {e}
    <3>2. v \in SUBSET Func
      BY <3>1, OnceFields
    <3>3. s[i] = [stack[i] EXCEPT !.todo = v]
      BY <2>2 DEF Dequeued
    <3> HIDE DEF v, s
    <3> DEFINE g == [stack[i] EXCEPT !.todo = v]
    <3>4. /\ g \in OnceFrame /\ g.pc = stack[i].pc /\ g.noblock = stack[i].noblock
          /\ g.ran = stack[i].ran /\ g.timeout = stack[i].timeout /\ g.ret = stack[i].ret
          /\ g.copy = stack[i].copy /\ g.told = stack[i].told /\ g.fresh = stack[i].fresh
          /\ g.x = stack[i].x
      BY <3>1, <3>2, WithTodo
    <3>5. g.kind = "once"
      BY <3>4, OnceFields
    <3> HIDE DEF g
    <3>6. g \in Activation /\ Alike(stack[i], g, FALSE)
      BY <2>2, <3>4, <3>5 DEF Alike, Activation
    <3> QED
      BY <3>3, <3>6 DEF g
  <2> QED
    BY <2>1, <2>2
<1>2. s = [i \in DOMAIN stack |-> s[i]]
  BY DEF Dequeued
<1> HIDE DEF s
<1>3. Mapped(s, FALSE)
  BY <1>1, <1>2 DEF Mapped
<1> QED
  BY <1>3 DEF s

\* bk_run_enqueue changes what is to be run only.
LEMMA JoinedMapped ==
  ASSUME TypeOK, NEW e \in Event
  PROVE  Mapped(JoinedBy(e), FALSE)
<1> DEFINE s == JoinedBy(e)
<1>1. ASSUME NEW i \in DOMAIN stack PROVE s[i] \in Activation /\ Alike(stack[i], s[i], FALSE)
  <2>0. stack[i] \in Activation
    BY StackType
  <2>1. CASE stack[i].kind # "once"
    BY <2>0, <2>1 DEF JoinedBy, Alike
  <2>3. CASE stack[i].kind = "once" /\ ~(stack[i].pc = "events")
    BY <2>0, <2>3 DEF JoinedBy, Alike
  <2>2. CASE stack[i].kind = "once" /\ stack[i].pc = "events"
    <3>1. stack[i] \in OnceFrame
      BY <2>0, <2>2, OnceIs
    <3> DEFINE v == stack[i].todo \cup {e}
    <3>2. v \in SUBSET Func
      BY <3>1, OnceFields DEF Func
    <3>3. s[i] = [stack[i] EXCEPT !.todo = v]
      BY <2>2 DEF JoinedBy
    <3> HIDE DEF v, s
    <3> DEFINE g == [stack[i] EXCEPT !.todo = v]
    <3>4. /\ g \in OnceFrame /\ g.pc = stack[i].pc /\ g.noblock = stack[i].noblock
          /\ g.ran = stack[i].ran /\ g.timeout = stack[i].timeout /\ g.ret = stack[i].ret
          /\ g.copy = stack[i].copy /\ g.told = stack[i].told /\ g.fresh = stack[i].fresh
          /\ g.x = stack[i].x
      BY <3>1, <3>2, WithTodo
    <3>5. g.kind = "once"
      BY <3>4, OnceFields
    <3> HIDE DEF g
    <3>6. g \in Activation /\ Alike(stack[i], g, FALSE)
      BY <2>2, <3>4, <3>5 DEF Alike, Activation
    <3> QED
      BY <3>3, <3>6 DEF g
  <2> QED
    BY <2>1, <2>2, <2>3
<1>2. s = [i \in DOMAIN stack |-> s[i]]
  BY DEF JoinedBy
<1> HIDE DEF s
<1>3. Mapped(s, FALSE)
  BY <1>1, <1>2 DEF Mapped
<1> QED
  BY <1>3 DEF s

\* A select outdates what the others reported.
LEMMA OutdatedMapped ==
  ASSUME TypeOK
  PROVE  Mapped(Outdated, TRUE)
<1> DEFINE s == Outdated
<1>1. ASSUME NEW i \in DOMAIN stack PROVE s[i] \in Activation /\ Alike(stack[i], s[i], TRUE)
  <2>0. stack[i] \in Activation
    BY StackType
  <2>1. CASE stack[i].kind # "once"
    BY <2>0, <2>1 DEF Outdated, Alike
  <2>2. CASE stack[i].kind = "once"
    <3>1. stack[i] \in OnceFrame
      BY <2>0, <2>2, OnceIs
    <3> DEFINE v == FALSE
    <3>2. v \in BOOLEAN
      BY <3>1, OnceFields
    <3>3. s[i] = [stack[i] EXCEPT !.fresh = v]
      BY <2>2 DEF Outdated
    <3> HIDE DEF v, s
    <3> DEFINE g == [stack[i] EXCEPT !.fresh = v]
    <3>4. /\ g \in OnceFrame /\ g.pc = stack[i].pc /\ g.noblock = stack[i].noblock
          /\ g.ran = stack[i].ran /\ g.timeout = stack[i].timeout /\ g.ret = stack[i].ret
          /\ g.copy = stack[i].copy /\ g.told = stack[i].told /\ g.x = stack[i].x
      BY <3>1, <3>2, WithFresh
    <3>5. g.kind = "once"
      BY <3>4, OnceFields
    <3> HIDE DEF g
    <3>6. g \in Activation /\ Alike(stack[i], g, TRUE)
      BY <2>2, <3>4, <3>5 DEF Alike, Activation
    <3> QED
      BY <3>3, <3>6 DEF g
  <2> QED
    BY <2>1, <2>2
<1>2. s = [i \in DOMAIN stack |-> s[i]]
  BY DEF Outdated
<1> HIDE DEF s
<1>3. Mapped(s, TRUE)
  BY <1>1, <1>2 DEF Mapped
<1> QED
  BY <1>3 DEF s

-----------------------------------------------------------------------------
(* Steps of one kind.                                                      *)

\* What is known when bk_run_once runs.
LEMMA OnceTop ==
  ASSUME IInv, NEW pc, InOnce(pc), NEW n, n = Len(stack)
  PROVE  /\ TypeOK /\ VarsOK /\ stack # <<>> /\ n \in Nat /\ n > 0 /\ n \in DOMAIN stack
         /\ Top = stack[n] /\ Top \in OnceFrame /\ Top.kind = "once" /\ Top.pc = pc
         /\ stack[n].pc = pc /\ OnceAt(n, pc) /\ Sound(n)
         /\ Base(Below, n - 1, FALSE) /\ NotOnce(n - 1) /\ (n - 1) + 1 = n /\ (n - 1) + 2 = n + 1
         /\ n - 1 \in Nat /\ NoClose(n - 1) /\ (abort' => Told(n - 1))
<1>1. TypeOK /\ stack # <<>> /\ Top.kind = "once" /\ Top.pc = pc
  BY DEF IInv, InOnce, Running
<1>2. n \in Nat /\ n > 0 /\ n \in DOMAIN stack /\ Top = stack[n] /\ Top \in OnceFrame
  BY <1>1, TopFrame, OnceIs
<1>3. /\ Base(Below, n - 1, FALSE) /\ NotOnce(n - 1) /\ (n - 1) + 1 = n /\ (n - 1) + 2 = n + 1
      /\ n - 1 \in Nat /\ (abort' => Told(n - 1))
  BY <1>1, BelowBase
<1>4. NoClose(n - 1)
  <2>1. \A j \in (n - 1 + 1) .. Len(stack) : j = n
    BY <1>2
  <2> QED
    BY <1>1, <1>2, <2>1 DEF NoClose
<1>5. OnceAt(n, pc) /\ Sound(n)
  BY <1>1, <1>2 DEF OnceAt, IInv
<1>6. VarsOK
  BY <1>1, TypeParts DEF IInv
<1> QED
  BY <1>1, <1>2, <1>3, <1>4, <1>5, <1>6

\* What is known when one of the program's functions runs.
LEMMA UserTop ==
  ASSUME IInv, Running("user"), NEW n, n = Len(stack)
  PROVE  /\ TypeOK /\ VarsOK /\ stack # <<>> /\ n \in Nat /\ n > 0 /\ n \in DOMAIN stack
         /\ Top = stack[n] /\ Top \in UserFrame /\ Top.kind = "user" /\ Sound(n)
         /\ Base(Below, n - 1, FALSE) /\ NotOnce(n - 1) /\ n - 1 \in Nat
         /\ Base(stack, n, FALSE) /\ NotOnce(n) /\ NoClose(n)
         /\ (abort' = abort => Told(n) /\ Told(n - 1))
<1>1. TypeOK /\ stack # <<>> /\ Top.kind = "user"
  BY DEF IInv, Running
<1>2. n \in Nat /\ n > 0 /\ n \in DOMAIN stack /\ Top = stack[n] /\ Top \in UserFrame
  BY <1>1, TopFrame, UserIs
<1>3. /\ Base(Below, n - 1, FALSE) /\ NotOnce(n - 1)
      /\ n - 1 \in Nat /\ (abort' = abort => Told(n - 1))
  BY <1>1, BelowBase
<1>4. Base(stack, n, FALSE) /\ NotOnce(n) /\ (abort' = abort => Told(n))
  BY <1>1, WholeBase
<1>5. NoClose(n)
  <2>1. (n + 1) .. Len(stack) = {}
    BY <1>2
  <2> QED
    BY <2>1 DEF NoClose
<1>6. VarsOK /\ Sound(n)
  BY <1>1, <1>2, TypeParts DEF IInv
<1> QED
  BY <1>1, <1>2, <1>3, <1>4, <1>5, <1>6

\* The stack when bk_run_once goes on.
LEMMA BecomeIs ==
  ASSUME IInv, NEW pc, InOnce(pc), NEW n, n = Len(stack), NEW f \in OnceFrame, Become(f)
  PROVE  stack'[n] = f /\ Len(stack') = n /\ n \in Nat /\ f.kind = "once"
<1>1. /\ TypeOK /\ Base(Below, n - 1, FALSE) /\ (n - 1) + 1 = n /\ n \in Nat
  BY OnceTop
<1>2. f \in Activation /\ f.kind = "once"
  BY OnceFields DEF Activation
<1>3. stack' = Append(Below, f)
  BY DEF Become
<1> QED
  BY <1>1, <1>2, <1>3, BaseOne

\* bk_run_once goes on.
LEMMA BecomeSafe ==
  ASSUME IInv, VarsOK', NEW pc, InOnce(pc), NEW n, n = Len(stack), NEW f \in OnceFrame, Become(f),
         Sound(n)', FdInv => CloseOf(n)', UNCHANGED fds
  PROVE  Goes
<1>1. /\ TypeOK /\ Base(Below, n - 1, FALSE) /\ NotOnce(n - 1) /\ (n - 1) + 1 = n
      /\ NoClose(n - 1)
  BY OnceTop
<1>2. f \in Activation /\ f.kind = "once"
  BY OnceFields DEF Activation
<1>3. stack' = Append(Below, f)
  BY DEF Become
<1>4. Matches(n - 1)
  BY <1>1, StillMatches
<1>5. PICK m : m = n - 1
  OBVIOUS
<1>6. Sound(m + 1)' /\ (FdInv => CloseOf(m + 1)')
  BY <1>1, <1>5
<1> QED
  BY <1>1, <1>2, <1>3, <1>4, <1>5, <1>6, SafeOne

\* bk_run_once goes on to where it relies on nothing.
LEMMA BecomeDull ==
  ASSUME IInv, VarsOK', NEW pc, InOnce(pc), NEW f \in OnceFrame, Become(f),
         f.pc \notin {"select", "events", "dispatch"}, UNCHANGED fds
  PROVE  Goes
<1>0. PICK n : n = Len(stack)
  OBVIOUS
<1>1. stack'[n] = f /\ f.kind = "once"
  BY <1>0, BecomeIs
<1>2. Sound(n)' /\ CloseOf(n)'
  BY <1>1, DullSound DEF Dull
<1> QED
  BY <1>0, <1>2, BecomeSafe

\* The stack when bk_run_once calls.
LEMMA CallIs ==
  ASSUME IInv, NEW pc, InOnce(pc), NEW n, n = Len(stack), NEW f \in OnceFrame,
         NEW u \in UserFrame, CallFrom(f, u)
  PROVE  /\ stack'[n] = f /\ stack'[n + 1] = u /\ Len(stack') = n + 1 /\ n \in Nat
         /\ f.kind = "once" /\ u.kind = "user"
<1>1. /\ TypeOK /\ Base(Below, n - 1, FALSE) /\ (n - 1) + 1 = n /\ n \in Nat /\ (n - 1) + 2 = n + 1
  BY OnceTop
<1>2. f \in Activation /\ f.kind = "once" /\ u \in Activation /\ u.kind = "user"
  BY OnceFields DEF Activation, UserFrame
<1>3. stack' = Below \o <<f, u>>
  BY DEF CallFrom
<1>4. PICK m : m = n - 1
  OBVIOUS
<1>5. /\ stack' \in Seq(Activation) /\ Len(stack') = m + 2 /\ m \in Nat
      /\ stack'[m + 1] = f /\ stack'[m + 2] = u
  <2>1. TypeOK /\ Base(Below, m, FALSE)
    BY <1>1, <1>4
  <2> QED
    BY <1>2, <1>3, <2>1, BaseTwo, Zenon
<1>6. m + 1 = n /\ m + 2 = n + 1
  BY <1>1, <1>4
<1> QED
  BY <1>1, <1>2, <1>5, <1>6

\* bk_run_once calls a function.
LEMMA CallSafe ==
  ASSUME IInv, VarsOK', NEW pc, InOnce(pc), NEW n, n = Len(stack), NEW f \in OnceFrame,
         NEW u \in UserFrame, CallFrom(f, u), u.why # "close",
         Sound(n)', FdInv => CloseOf(n)', CallerOf(n + 1)', UNCHANGED fds
  PROVE  Goes
<1>1. /\ TypeOK /\ Base(Below, n - 1, FALSE) /\ NotOnce(n - 1) /\ (n - 1) + 1 = n
      /\ NoClose(n - 1) /\ (n - 1) + 2 = n + 1
  BY OnceTop
<1>2. f \in Activation /\ f.kind = "once" /\ u \in Activation /\ u.kind = "user"
  BY OnceFields DEF Activation, UserFrame
<1>3. stack' = Below \o <<f, u>>
  BY DEF CallFrom
<1>4. Matches(n - 1)
  BY <1>1, StillMatches
<1>5. stack'[n + 1] = u
  BY CallIs
<1>6. Sound(n + 1)' /\ CloseOf(n + 1)'
  BY <1>2, <1>5 DEF Sound, SleepOf, TimeoutOf, FreshOf, PassOf, CloseOf, OnceAt
<1>7. PICK m : m = n - 1
  OBVIOUS
<1>8. Sound(m + 1)' /\ (FdInv => CloseOf(m + 1)') /\ Sound(m + 2)' /\ CloseOf(m + 2)'
  BY <1>1, <1>6, <1>7
<1> QED
  BY <1>1, <1>2, <1>3, <1>4, <1>7, <1>8, SafeTwo

\* The running activation returns.
LEMMA PopSafe ==
  ASSUME IInv, VarsOK', stack # <<>>, stack' = Below,
         abort' \/ (abort' = abort /\ Top.kind # "once"), Matches(Len(stack) - 1)
  PROVE  Goes
<1>1. TypeOK
  BY DEF IInv
<1>2. Base(Below, Len(stack) - 1, FALSE) /\ NotOnce(Len(stack) - 1) /\ Told(Len(stack) - 1)
  BY <1>1, BelowBase
<1> QED
  BY <1>1, <1>2, SafeZero

\* A call that leaves stack and registry alone.
LEMMA StaySafe ==
  ASSUME IInv, VarsOK', Running("user"), UNCHANGED <<stack, abort, fds>>
  PROVE  Goes
<1>1. TypeOK /\ NoClose(Len(stack))
  BY UserTop
<1>2. Matches(Len(stack))
  BY <1>1, StillMatches
<1> QED
  BY <1>2, UserSafe

-----------------------------------------------------------------------------
(* The program's calls.                                                    *)

\* bk_run_handle keeps the invariants.
LEMMA HandleSafe ==
  ASSUME IInv, VarsOK', NEW fd \in Fd, NEW wanted \in SUBSET Type, Handle(fd, wanted)
  PROVE  Goes
<1>1. /\ Running("user") /\ UNCHANGED <<stack, abort>> /\ assoc' = assoc \cup {fd}
      /\ fd \notin assoc
      /\ want' = [want EXCEPT ![fd] = wanted] /\ wish' = [wish EXCEPT ![fd] = wanted]
      /\ selectn' = IF selectn < fd + 1 THEN fd + 1 ELSE selectn
  BY DEF Handle, MayCall, flags
<1>2. TypeOK /\ VarsOK
  BY <1>1, UserTop
<1>3. SelectMatchesRegistry => SelectMatchesRegistry'
  <2> SUFFICES ASSUME SelectMatchesRegistry
               PROVE  SelectMatchesRegistry'
    OBVIOUS
  <2>1. fd \in Int /\ selectn \in Int /\ selectn <= selectn' /\ fd < selectn' /\ selectn' \in Int
    BY <1>1, <1>2 DEF VarsOK, Fd
  <2>2. \A x \in Fd : x # fd => want'[x] = want[x] /\ wish'[x] = wish[x]
    BY <1>1, <1>2 DEF VarsOK
  <2>3. want'[fd] = wish'[fd]
    BY <1>1, <1>2 DEF VarsOK
  <2>4. ASSUME NEW x \in assoc' PROVE x < selectn' /\ want'[x] = wish'[x]
    <3>1. CASE x = fd
      BY <2>1, <2>3, <3>1
    <3>2. CASE x # fd
      <4>1. x \in assoc /\ x \in Fd
        BY <1>1, <1>2, <3>2 DEF VarsOK
      <4>2. x < selectn /\ want[x] = wish[x]
        BY <4>1 DEF SelectMatchesRegistry, BeingClosed
      <4>3. x \in Int
        BY <4>1 DEF Fd
      <4>4. x < selectn'
        BY <2>1, <4>2, <4>3
      <4> QED
        BY <2>2, <3>2, <4>1, <4>2, <4>4
    <3> QED
      BY <3>1, <3>2
  <2>5. ASSUME NEW x \in Fd, want'[x] # {}
        PROVE  x \in assoc' \/ \E i \in DOMAIN stack' : stack'[i] = User("close", x)
    BY <1>1, <2>2, <2>5 DEF SelectMatchesRegistry, BeingClosed
  <2> QED
    BY <2>4, <2>5 DEF SelectMatchesRegistry, BeingClosed, Fd, User
<1>4. Matches(Len(stack))
  BY <1>3 DEF Matches, FdInv
<1> QED
  BY <1>1, <1>4, UserSafe

\* bk_run_setpref keeps the invariants.
LEMMA SetprefSafe ==
  ASSUME IInv, VarsOK', NEW fd \in Fd, NEW wanted \in SUBSET Type, Setpref(fd, wanted)
  PROVE  Goes
<1>1. /\ Running("user") /\ UNCHANGED <<stack, abort>> /\ assoc' = assoc
      /\ RegisteredOnly => fd \in assoc
      /\ want' = [want EXCEPT ![fd] = wanted] /\ wish' = [wish EXCEPT ![fd] = wanted]
      /\ selectn' = selectn
  BY DEF Setpref, MayAsk, MayCall, Spend, RegisteredOnly, flags
<1>2. TypeOK /\ VarsOK
  BY <1>1, UserTop
<1>3. FdInv => SelectMatchesRegistry'
  <2> SUFFICES ASSUME FdInv
               PROVE  SelectMatchesRegistry'
    OBVIOUS
  <2>2. \A x \in Fd : x # fd => want'[x] = want[x] /\ wish'[x] = wish[x]
    BY <1>1, <1>2 DEF VarsOK
  <2>3. want'[fd] = wish'[fd]
    BY <1>1, <1>2 DEF VarsOK
  <2>4. ASSUME NEW x \in assoc' PROVE x < selectn' /\ want'[x] = wish'[x]
    <3>1. x \in Fd /\ x < selectn /\ want[x] = wish[x]
      BY <1>1, <1>2 DEF VarsOK, FdInv, SelectMatchesRegistry, BeingClosed
    <3> QED
      BY <1>1, <2>2, <2>3, <3>1
  <2>5. ASSUME NEW x \in Fd, want'[x] # {}
        PROVE  x \in assoc' \/ \E i \in DOMAIN stack' : stack'[i] = User("close", x)
    BY <1>1, <2>2, <2>5 DEF FdInv, SelectMatchesRegistry, BeingClosed
  <2> QED
    BY <2>4, <2>5 DEF SelectMatchesRegistry, BeingClosed, Fd, User
<1>4. Matches(Len(stack))
  BY <1>3 DEF Matches
<1> QED
  BY <1>1, <1>4, UserSafe

\* What the end of bk_run_close does to the registry.
LEMMA ClearMatches ==
  ASSUME VarsOK, NEW fd \in Fd, fd \notin assoc', assoc' \subseteq assoc, ClearFd(fd, assoc'),
         wish' = [wish EXCEPT ![fd] = {}] \/ wish' = wish, SelectMatchesRegistry,
         \A x \in Fd : (\E i \in DOMAIN stack : stack[i] = User("close", x)) /\ x # fd
                       => \E i \in DOMAIN stack' : stack'[i] = User("close", x),
         \A x \in assoc : x \in assoc' \/ x = fd
  PROVE  SelectMatchesRegistry'
<1>1. /\ want' = [want EXCEPT ![fd] = {}]
      /\ selectn' = IF selectn = fd + 1 THEN Highest(assoc') ELSE selectn
  BY DEF ClearFd
<1>2. \A x \in Fd : x # fd => want'[x] = want[x] /\ wish'[x] = wish[x]
  BY <1>1 DEF VarsOK
<1>3. ASSUME NEW x \in assoc' PROVE x < selectn' /\ want'[x] = wish'[x]
  <2>1. x \in assoc /\ x \in Fd /\ x # fd
    BY <1>3 DEF VarsOK
  <2>2. x < selectn /\ want[x] = wish[x]
    BY <2>1 DEF SelectMatchesRegistry, BeingClosed
  <2>3. assoc' \in SUBSET Fd
    BY DEF VarsOK
  <2>4. x < selectn'
    BY <1>1, <1>3, <2>2, <2>3, HighestIs
  <2> QED
    BY <1>2, <2>1, <2>2, <2>4
<1>4. ASSUME NEW x \in Fd, want'[x] # {}
      PROVE  x \in assoc' \/ \E i \in DOMAIN stack' : stack'[i] = User("close", x)
  <2>1. x # fd
    BY <1>1, <1>4 DEF VarsOK
  <2>2. x \in assoc \/ \E i \in DOMAIN stack : stack[i] = User("close", x)
    BY <1>2, <1>4, <2>1 DEF SelectMatchesRegistry, BeingClosed
  <2> QED
    BY <2>1, <2>2
<1> QED
  BY <1>3, <1>4 DEF SelectMatchesRegistry, BeingClosed, Fd, User

\* bk_run_close without telling the handler keeps the invariants.
LEMMA CloseQuietlySafe ==
  ASSUME IInv, VarsOK', NEW fd \in Fd, Close(fd, FALSE)
  PROVE  Goes
<1>1. /\ Running("user") /\ abort' = abort /\ assoc' = assoc \ {fd} /\ fd \in assoc
      /\ wish' = [wish EXCEPT ![fd] = {}] /\ stack' = Closed(fd) /\ ClearFd(fd, assoc')
  BY DEF Close, MayCall, flags
<1>2. /\ TypeOK /\ VarsOK /\ NotOnce(Len(stack)) /\ Told(Len(stack)) /\ NoClose(Len(stack))
  BY <1>1, UserTop
<1>3. Base(Closed(fd), Len(stack), FALSE)
  BY <1>1, <1>2, ClosedMapped, MappedBase
<1>4. Matches(Len(stack))
  <2> SUFFICES ASSUME FdInv, Turned(Len(stack)) PROVE SelectMatchesRegistry'
    BY DEF Matches
  <2>1. \A x \in Fd : (\E i \in DOMAIN stack : stack[i] = User("close", x)) /\ x # fd
                       => \E i \in DOMAIN stack' : stack'[i] = User("close", x)
    BY <1>2, CloseStays
  <2> QED
    BY <1>1, <1>2, <2>1, ClearMatches DEF FdInv
<1> QED
  BY <1>1, <1>2, <1>3, <1>4, SafeZero

\* bk_run_close keeps the invariants up to telling the handler.
LEMMA CloseTellingSafe ==
  ASSUME IInv, VarsOK', NEW fd \in Fd, Close(fd, TRUE)
  PROVE  Goes
<1>1. /\ Running("user") /\ abort' = abort /\ assoc' = assoc \ {fd} /\ fd \in assoc
      /\ wish' = [wish EXCEPT ![fd] = {}] /\ stack' = Append(Closed(fd), User("close", fd))
      /\ want' = want /\ selectn' = selectn
  BY DEF Close, MayCall, flags
<1>0. PICK n : n = Len(stack)
  OBVIOUS
<1>2. /\ TypeOK /\ VarsOK /\ NotOnce(n) /\ Told(n) /\ NoClose(n)
  BY <1>0, <1>1, UserTop
<1>3. Base(Closed(fd), n, FALSE)
  BY <1>0, <1>1, <1>2, ClosedMapped, MappedBase
<1>4. User("close", fd) \in Activation
  BY DEF User, Activation, UserFrame
<1>5. /\ stack' \in Seq(Activation) /\ Len(stack') = n + 1 /\ n \in Nat
      /\ stack'[n + 1] = User("close", fd)
  BY <1>1, <1>2, <1>3, <1>4, BaseOne
<1>6. /\ stack'[n + 1].kind = "user" /\ stack'[n + 1].why = "close" /\ stack'[n + 1].fd = fd
  BY <1>5 DEF User
<1>7. Sound(n + 1)' /\ CloseOf(n + 1)'
  BY <1>1, <1>6 DEF Sound, SleepOf, TimeoutOf, FreshOf, CallerOf, OnceAt, PassOf, CloseOf, Fd
<1>8. Matches(n)
  <2> SUFFICES ASSUME FdInv, Turned(n) PROVE SelectMatchesRegistry'
    BY DEF Matches
  <2>1. \A x \in Fd : (\E i \in DOMAIN stack : stack[i] = User("close", x))
                       => \E i \in DOMAIN stack' : stack'[i] = User("close", x)
    BY <1>2, CloseStays
  <2>2. \E i \in DOMAIN stack' : stack'[i] = User("close", fd)
    BY <1>5
  <2>3. \A x \in Fd : x # fd => wish'[x] = wish[x]
    BY <1>1, <1>2 DEF VarsOK
  <2>4. ASSUME NEW x \in assoc' PROVE x < selectn' /\ want'[x] = wish'[x]
    <3>1. x \in assoc /\ x # fd /\ x \in Fd
      BY <1>1, <1>2 DEF VarsOK
    <3> QED
      BY <1>1, <2>3, <3>1 DEF FdInv, SelectMatchesRegistry, BeingClosed
  <2>5. ASSUME NEW x \in Fd, want'[x] # {}
        PROVE  x \in assoc' \/ \E i \in DOMAIN stack' : stack'[i] = User("close", x)
    BY <1>1, <2>1, <2>2, <2>5 DEF FdInv, SelectMatchesRegistry, BeingClosed
  <2> QED
    BY <2>4, <2>5 DEF SelectMatchesRegistry, BeingClosed, Fd, User
<1> QED
  BY <1>1, <1>2, <1>3, <1>4, <1>7, <1>8, SafeOne

\* bk_run_enqueue keeps the invariants.
LEMMA EnqueueSafe ==
  ASSUME IInv, VarsOK', NEW e \in Event, Enqueue(e)
  PROVE  Goes
<1>1. /\ Running("user") /\ abort' = abort /\ UNCHANGED fds
      /\ stack' = stack \/ stack' = JoinedBy(e)
  BY DEF Enqueue, MayCall, flags
<1>2. /\ TypeOK /\ NotOnce(Len(stack)) /\ Told(Len(stack)) /\ NoClose(Len(stack))
      /\ Base(stack, Len(stack), FALSE)
  BY <1>1, UserTop
<1>3. Base(JoinedBy(e), Len(stack), FALSE)
  BY <1>2, JoinedMapped, MappedBase
<1>4. Matches(Len(stack))
  BY <1>1, <1>2, StillMatches
<1> QED
  BY <1>1, <1>2, <1>3, <1>4, SafeZero

\* bk_run_dequeue keeps the invariants.
LEMMA DequeueSafe ==
  ASSUME IInv, VarsOK', NEW e \in Event, Dequeue(e)
  PROVE  Goes
<1>1. /\ Running("user") /\ abort' = abort /\ UNCHANGED fds
      /\ stack' = Dequeued(e)
  BY DEF Dequeue, MayCall, flags
<1>2. /\ TypeOK /\ NotOnce(Len(stack)) /\ Told(Len(stack)) /\ NoClose(Len(stack))
  BY <1>1, UserTop
<1>3. Base(Dequeued(e), Len(stack), FALSE)
  BY <1>2, DequeuedMapped, MappedBase
<1>4. Matches(Len(stack))
  BY <1>1, <1>2, StillMatches
<1> QED
  BY <1>1, <1>2, <1>3, <1>4, SafeZero

\* The program calls bk_run_run.
LEMMA RunRunSafe ==
  ASSUME IInv, VarsOK', RunRun
  PROVE  Goes
<1>1. /\ Running("user") /\ abort' = abort /\ UNCHANGED fds
      /\ stack' = Append(stack, [kind |-> "run"])
  BY DEF RunRun, MayCall
<1>0. PICK n : n = Len(stack)
  OBVIOUS
<1>2. /\ TypeOK /\ NotOnce(n) /\ Told(n) /\ NoClose(n) /\ Base(stack, n, FALSE)
  BY <1>0, <1>1, UserTop
<1>3. [kind |-> "run"] \in Activation
  BY DEF Activation
<1>4. stack'[n + 1] = [kind |-> "run"]
  BY <1>1, <1>2, <1>3, BaseOne
<1>5. Sound(n + 1)' /\ CloseOf(n + 1)'
  BY <1>4, DullSound DEF Dull
<1>6. Matches(n)
  BY <1>1, <1>2, StillMatches
<1> QED
  BY <1>1, <1>2, <1>3, <1>5, <1>6, SafeOne

\* bk_run_once on entry.
LEMMA OnceIsFrame ==
  ASSUME NEW noblock \in BOOLEAN
  PROVE  Once(noblock) \in OnceFrame /\ Once(noblock).kind = "once" /\ Once(noblock).pc = "demand"
<1>1. NoFds \in [Fd -> SUBSET Type]
  BY DEF NoFds
<1>2. funcs \cap Demand \in SUBSET Func
  BY DEF Func
<1> QED
  BY <1>1, <1>2 DEF Once, OnceFrame, Pc

\* bk_run_once is called, by one of the program's functions or by bk_run_run.
LEMMA EnterSafe ==
  ASSUME IInv, VarsOK', stack # <<>>, Top.kind # "once", NEW noblock \in BOOLEAN,
         stack' = Append(stack, Once(noblock)), UNCHANGED fds
  PROVE  Goes
<1>0. PICK n : n = Len(stack)
  OBVIOUS
<1>1. TypeOK
  BY DEF IInv
<1>2. /\ NotOnce(n) /\ Base(stack, n, FALSE) /\ n \in Nat
  BY <1>0, <1>1, WholeBase
<1>3. NoClose(n)
  <2>1. (n + 1) .. Len(stack) = {}
    BY <1>0, <1>2
  <2> QED
    BY <2>1 DEF NoClose
<1>4. Once(noblock) \in Activation /\ Once(noblock).kind = "once" /\ Once(noblock).pc = "demand"
  BY OnceIsFrame DEF Activation
<1>5. stack'[n + 1] = Once(noblock)
  BY <1>1, <1>2, <1>4, BaseOne
<1>6. Sound(n + 1)' /\ CloseOf(n + 1)'
  BY <1>4, <1>5, DullSound DEF Dull
<1>7. Matches(n)
  BY <1>1, <1>3, StillMatches
<1> QED
  BY <1>1, <1>2, <1>4, <1>6, <1>7, SafeOne

\* bk_run_run calls bk_run_once, or ends.
LEMMA RunTurnSafe ==
  ASSUME IInv, VarsOK', RunTurn
  PROVE  Goes
<1>1. /\ stack # <<>> /\ Top.kind = "run" /\ UNCHANGED fds
  BY DEF RunTurn, Running
<1>2. CASE over
  <2>1. stack' = Below /\ abort' = abort
    BY <1>2 DEF RunTurn
  <2>2. NoClose(Len(stack) - 1)
    <3>1. Len(stack) \in Nat /\ Top = stack[Len(stack)] /\ TypeOK
      BY <1>1, TopFrame DEF IInv
    <3>2. \A j \in (Len(stack) - 1 + 1) .. Len(stack) : j = Len(stack)
      BY <3>1
    <3> QED
      BY <1>1, <3>1, <3>2 DEF NoClose
  <2>3. Matches(Len(stack) - 1)
    BY <1>1, <2>2, StillMatches DEF IInv
  <2> QED
    BY <1>1, <2>1, <2>3, PopSafe
<1>3. CASE ~over
  BY <1>1, <1>3, EnterSafe DEF RunTurn
<1> QED
  BY <1>2, <1>3

-----------------------------------------------------------------------------
(* Returns, and bk_run_once up to its select.                              *)

\* The bk_run_once that called an on-demand, poll or idle function.
LEMMA CallerIs ==
  ASSUME IInv, Running("user"), Top.why \in {"demand", "poll", "idle"}, NEW n, n = Len(stack)
  PROVE  /\ TypeOK /\ n - 1 \in DOMAIN stack /\ stack[n - 1] \in OnceFrame
         /\ stack[n - 1].kind = "once" /\ stack[n - 1].pc = Top.why
         /\ n - 2 \in 0 .. Len(stack) /\ (n - 2) + 1 = n - 1 /\ n \in Nat
         /\ NotOnce(n - 2) /\ NoClose(n - 2) /\ Base(SubSeq(stack, 1, n - 2), n - 2, FALSE)
<1>1. /\ TypeOK /\ VarsOK /\ stack # <<>> /\ n \in Nat /\ Top = stack[n] /\ Top.kind = "user"
      /\ Sound(n)
  BY UserTop
<1>2. n > 1 /\ stack[n - 1].kind = "once" /\ stack[n - 1].pc = Top.why
  BY <1>1 DEF Sound, CallerOf, OnceAt
<1>3. stack \in Seq(Activation) /\ DOMAIN stack = 1 .. Len(stack)
  BY <1>1, StackType
<1>4. /\ n - 1 \in DOMAIN stack /\ n - 2 \in 0 .. Len(stack)
      /\ (n - 2) + 1 = n - 1 /\ n - 2 # Len(stack)
  BY <1>1, <1>2, <1>3
<1>5. stack[n - 1] \in OnceFrame
  BY <1>2, <1>3, <1>4, OnceIs
<1>6. NoClose(n - 2)
  <2>1. \A j \in (n - 2 + 1) .. Len(stack) : j = n - 1 \/ j = n
    BY <1>1
  <2>2. ~(stack[n - 1].kind = "user") /\ ~(stack[n].why = "close")
    BY <1>1, <1>2
  <2> QED
    BY <2>1, <2>2 DEF NoClose
<1>7. NotOnce(n - 2)
  BY <1>4 DEF NotOnce
<1>8. Base(SubSeq(stack, 1, n - 2), n - 2, FALSE)
  BY <1>1, <1>4, PrefixBase
<1> QED
  BY <1>1, <1>2, <1>4, <1>5, <1>6, <1>7, <1>8

\* Such a function returns, and its caller goes on.
LEMMA BackSafe ==
  ASSUME IInv, VarsOK', Running("user"), Top.why \in {"demand", "poll", "idle"},
         NEW f \in OnceFrame, f.pc \notin {"select", "events", "dispatch"},
         stack' = Append(SubSeq(stack, 1, Len(stack) - 2), f), UNCHANGED fds
  PROVE  Goes
<1>0. PICK n : n = Len(stack)
  OBVIOUS
<1>1. /\ TypeOK /\ n - 2 \in 0 .. Len(stack) /\ n \in Nat
      /\ NotOnce(n - 2) /\ NoClose(n - 2) /\ Base(SubSeq(stack, 1, n - 2), n - 2, FALSE)
  BY <1>0, CallerIs
<1>2. PICK m : m = n - 2
  OBVIOUS
<1>3. /\ NotOnce(m) /\ NoClose(m) /\ Base(SubSeq(stack, 1, m), m, FALSE)
      /\ stack' = Append(SubSeq(stack, 1, m), f)
  BY <1>0, <1>1, <1>2
<1>4. f \in Activation /\ f.kind = "once"
  BY OnceFields DEF Activation
<1>5. stack'[m + 1] = f
  BY <1>1, <1>3, <1>4, BaseOne
<1>6. Sound(m + 1)' /\ CloseOf(m + 1)'
  BY <1>4, <1>5, DullSound DEF Dull
<1>7. Matches(m)
  BY <1>1, <1>3, StillMatches
<1> QED
  BY <1>3, <1>4, <1>6, <1>7, SafeOne

\* A poll function gives a time.
LEMMA ReturnDeltaSafe ==
  ASSUME IInv, VarsOK', ReturnDelta
  PROVE  Goes
<1> DEFINE g == [stack[Len(stack) - 1] EXCEPT !.usedelta = TRUE]
<1>1. /\ Running("user") /\ Top.why = "poll" /\ UNCHANGED fds
      /\ stack' = Append(SubSeq(stack, 1, Len(stack) - 2), g)
  BY DEF ReturnDelta
<1>2. stack[Len(stack) - 1] \in OnceFrame /\ stack[Len(stack) - 1].pc = "poll"
  BY <1>1, CallerIs
<1>3. g \in OnceFrame /\ g.pc = "poll"
  BY <1>2, WithUsedelta
<1> HIDE DEF g
<1> QED
  BY <1>1, <1>3, BackSafe

\* A function fails.
LEMMA ReturnFailureSafe ==
  ASSUME IInv, VarsOK', ReturnFailure
  PROVE  Goes
<1> DEFINE g == [stack[Len(stack) - 1] EXCEPT !.pc = "error"]
<1>1. /\ Running("user") /\ Top.why \in {"demand", "poll", "idle"} /\ UNCHANGED fds
      /\ stack' = Append(SubSeq(stack, 1, Len(stack) - 2), g)
  BY DEF ReturnFailure, MayCall
<1>2. stack[Len(stack) - 1] \in OnceFrame
  BY <1>1, CallerIs
<1>3. g \in OnceFrame /\ g.pc = "error"
  BY <1>2, WithPc DEF Pc
<1> HIDE DEF g
<1> QED
  BY <1>1, <1>3, BackSafe

\* A function returns.
LEMMA ReturnSafe ==
  ASSUME IInv, VarsOK', Return
  PROVE  Goes
<1>1. /\ Running("user") /\ stack # <<>> /\ Top.kind = "user" /\ Top.why # "close"
      /\ stack' = Below /\ abort' = abort /\ UNCHANGED fds
  BY DEF Return, Running, flags
<1>2. NoClose(Len(stack) - 1)
  <2>1. Len(stack) \in Nat /\ Top = stack[Len(stack)]
    BY <1>1, UserTop
  <2>2. \A j \in (Len(stack) - 1 + 1) .. Len(stack) : j = Len(stack)
    BY <2>1
  <2> QED
    BY <1>1, <2>1, <2>2 DEF NoClose
<1>3. Matches(Len(stack) - 1)
  BY <1>1, <1>2, StillMatches DEF IInv
<1> QED
  BY <1>1, <1>3, PopSafe

\* bk_run_close goes on after its handler: the descriptor is not registered, and
\* not looked at any more.
LEMMA ReturnFromCloseSafe ==
  ASSUME IInv, VarsOK', ReturnFromClose
  PROVE  Goes
<1>1. /\ Running("user") /\ stack # <<>> /\ Top.kind = "user" /\ Top.why = "close"
      /\ stack' = Below /\ abort' = abort /\ assoc' = assoc /\ wish' = wish
      /\ ClearFd(Top.fd, assoc')
  BY DEF ReturnFromClose, Running, flags
<1>0. PICK n : n = Len(stack)
  OBVIOUS
<1>2. /\ TypeOK /\ VarsOK /\ n \in Nat /\ n > 0 /\ n \in DOMAIN stack
      /\ Top = stack[n] /\ Top \in UserFrame
      /\ Base(Below, n - 1, FALSE)
  BY <1>0, <1>1, UserTop
<1>3. \A i \in 1 .. n - 1 : i \in DOMAIN stack' /\ stack'[i].kind = stack[i].kind
                          /\ (stack[i].kind = "user" => stack'[i] = stack[i])
  <2>1. /\ stack' \in Seq(Activation) /\ Len(stack') = n - 1
        /\ \A i \in 1 .. n - 1 : Kept(i)
    BY <1>1, <1>2, BaseZero
  <2> QED
    BY <1>2, <2>1 DEF Kept
<1>4. ASSUME FdInv PROVE SelectMatchesRegistry'
  <2>1. Top.fd \in Fd /\ Top.fd \notin assoc
    BY <1>1, <1>2, <1>4 DEF FdInv, CloseOf
  <2>2. ASSUME NEW x \in Fd, x # Top.fd, \E i \in DOMAIN stack : stack[i] = User("close", x)
        PROVE  \E i \in DOMAIN stack' : stack'[i] = User("close", x)
    <3>1. PICK i \in DOMAIN stack : stack[i] = User("close", x)
      BY <2>2
    <3>2. stack[i].fd = x /\ stack[i].kind = "user"
      BY <3>1 DEF User
    <3>3. i # n
      BY <1>2, <2>2, <3>2
    <3>4. i \in 1 .. n - 1
      <4>1. DOMAIN stack = 1 .. n
        BY <1>0, <1>2, StackType
      <4> QED
        BY <1>2, <3>3, <4>1
    <3> QED
      BY <1>3, <3>1, <3>2, <3>4
  <2>3. ClearFd(Top.fd, assoc')
    BY <1>1
  <2> QED
    BY <1>1, <1>2, <1>4, <2>1, <2>2, <2>3, ClearMatches DEF FdInv
<1>5. Matches(Len(stack) - 1)
  BY <1>4 DEF Matches
<1> QED
  BY <1>1, <1>5, PopSafe
\* The next function of a list.
LEMMA VisitSafe ==
  ASSUME IInv, VarsOK', NEW pc \in {"demand", "poll", "idle"}, NEW e \in Func, Visit(pc, e)
  PROVE  Goes
<1> DEFINE f == [Top EXCEPT !.todo = Top.todo \ {e}]
           u == User(pc, -1)
<1>0. PICK n : n = Len(stack)
  OBVIOUS
<1>1. InOnce(pc) /\ UNCHANGED fds /\ (CallFrom(f, u) \/ Become(f))
  BY DEF Visit
<1>2. Top \in OnceFrame /\ Top.pc = pc
  BY <1>0, <1>1, OnceTop
<1>3. f \in OnceFrame /\ f.pc = pc
  <2>1. Top.todo \ {e} \in SUBSET Func
    BY <1>2, OnceFields
  <2> QED
    BY <1>2, <2>1, WithTodo
<1>4. u \in UserFrame /\ u.why = pc /\ u.why # "close" /\ u.kind = "user"
  BY DEF User, UserFrame
<1> HIDE DEF f, u
<1>5. CASE Become(f)
  BY <1>1, <1>3, <1>5, BecomeDull
<1>6. CASE CallFrom(f, u)
  <2>1. /\ stack'[n] = f /\ stack'[n + 1] = u /\ n \in Nat /\ f.kind = "once"
    BY <1>0, <1>1, <1>3, <1>4, <1>6, CallIs
  <2>2. Sound(n)' /\ CloseOf(n)'
    BY <1>3, <2>1, DullSound DEF Dull
  <2>3. CallerOf(n + 1)'
    <3>1. (n + 1) - 1 = n /\ n + 1 > 1
      <4>1. n > 0 /\ n \in Nat
        BY <1>0, <1>1, OnceTop
      <4> QED
        BY <4>1
    <3> QED
      BY <1>3, <1>4, <2>1, <3>1 DEF CallerOf, OnceAt
  <2> QED
    BY <1>0, <1>1, <1>3, <1>4, <1>6, <2>2, <2>3, CallSafe
<1> QED
  BY <1>1, <1>5, <1>6

\* The on-demand functions are done.
LEMMA EndDemandSafe ==
  ASSUME IInv, VarsOK', EndDemand
  PROVE  Goes
<1> DEFINE T == funcs \cap Poll
           f == [Top EXCEPT !.pc = "poll", !.todo = T]
<1>1. InOnce("demand") /\ Become(f) /\ UNCHANGED fds
  BY DEF EndDemand
<1>2. Top \in OnceFrame
  BY <1>1, OnceTop
<1>3. T \in SUBSET Func /\ "poll" \in Pc
  BY DEF Pc, Func
<1> HIDE DEF T
<1>4. f \in OnceFrame /\ f.pc = "poll"
  BY <1>2, <1>3, WithPcTodo
<1> HIDE DEF f
<1> QED
  BY <1>1, <1>4, BecomeDull

\* The poll functions are done.
LEMMA EndPollSafe ==
  ASSUME IInv, VarsOK', EndPoll
  PROVE  Goes
<1> DEFINE timeout == IF MustNotBlock THEN "zero" ELSE "none"
           T == Due
           f == [Top EXCEPT !.pc = "events", !.todo = T, !.timeout = timeout]
<1>0. PICK n : n = Len(stack)
  OBVIOUS
<1>1. InOnce("poll") /\ Become(f) /\ UNCHANGED fds /\ over' = over /\ dontblock' = dontblock
  BY DEF EndPoll, flags
<1>2. Top \in OnceFrame
  BY <1>1, OnceTop
<1>3. timeout \in {"none", "zero"} /\ (timeout = "none" => ~over /\ ~dontblock /\ ~Top.noblock)
  BY DEF MustNotBlock
<1>7. T \in SUBSET Func /\ "events" \in Pc
  BY DEF Pc, Func, Due
<1> HIDE DEF T, timeout
<1>4. /\ f \in OnceFrame /\ f.pc = "events" /\ f.timeout = timeout /\ f.noblock = Top.noblock
  <2>1. timeout \in {"none", "zero", "finite", "forever"}
    BY <1>3
  <2> QED
    BY <1>2, <1>7, <2>1 DEF OnceFrame
<1> HIDE DEF f
<1>5. stack'[n] = f /\ Len(stack') = n /\ f.kind = "once"
  BY <1>0, <1>1, <1>4, BecomeIs
<1>6. Sound(n)' /\ CloseOf(n)'
  BY <1>1, <1>3, <1>4, <1>5
     DEF Sound, SleepOf, TimeoutOf, FreshOf, CallerOf, PassOf, CloseOf, OnceAt
<1> QED
  BY <1>0, <1>1, <1>4, <1>6, BecomeSafe

\* The next event.
LEMMA RunEventSafe ==
  ASSUME IInv, VarsOK', NEW e \in Event, RunEvent(e)
  PROVE  Goes
<1> DEFINE f == [Top EXCEPT !.todo = Top.todo \ {e}, !.ran = TRUE]
           u == User("event", -1)
<1>0. PICK n : n = Len(stack)
  OBVIOUS
<1>1. /\ InOnce("events") /\ UNCHANGED fds
      /\ stack' = SubSeq(Dequeued(e), 1, n - 1) \o <<f, u>>
  BY <1>0 DEF RunEvent
<1>2. /\ Top \in OnceFrame /\ Top.pc = "events" /\ TypeOK /\ NotOnce(n - 1) /\ NoClose(n - 1)
      /\ n \in Nat /\ n > 0 /\ Top = stack[n] /\ Sound(n) /\ OnceAt(n, "events")
  BY <1>0, <1>1, OnceTop
<1>3. f \in OnceFrame /\ f.pc = "events" /\ f.timeout = Top.timeout /\ f.ran
  <2>1. Top.todo \ {e} \in SUBSET Func
    BY <1>2, OnceFields
  <2> QED
    BY <1>2, <2>1, WithRan
<1>4. u \in Activation /\ u.why = "event" /\ u.kind = "user"
  BY DEF User, UserFrame, Activation
<1> HIDE DEF f, u
<1>5. PICK m : m = n - 1
  OBVIOUS
<1>6. m \in 0 .. Len(stack)
  BY <1>0, <1>2, <1>5
<1>7. Base(SubSeq(Dequeued(e), 1, m), m, FALSE)
  BY <1>2, <1>6, DequeuedMapped, MappedBase
<1>8. f \in Activation /\ f.kind = "once"
  BY <1>3, OnceFields DEF Activation
<1>9. stack' = SubSeq(Dequeued(e), 1, m) \o <<f, u>>
  BY <1>1, <1>5
<1>10. /\ stack'[m + 1] = f /\ stack'[m + 2] = u
  <2>1. TypeOK
    BY <1>2
  <2>2. f \in Activation
    BY <1>8
  <2>3. u \in Activation
    BY <1>4
  <2> QED
    BY <2>1, <2>2, <2>3, <1>7, <1>9, BaseTwo, Zenon
<1>11. f.timeout \in {"none", "zero"}
  BY <1>2, <1>3 DEF Sound, TimeoutOf
<1>12. Sound(m + 1)' /\ CloseOf(m + 1)'
  BY <1>3, <1>8, <1>10, <1>11
     DEF Sound, SleepOf, TimeoutOf, FreshOf, CallerOf, PassOf, CloseOf, OnceAt
<1>13. Sound(m + 2)' /\ CloseOf(m + 2)'
  BY <1>4, <1>10, DullSound DEF Dull
<1>14. Matches(m) /\ NotOnce(m)
  BY <1>1, <1>2, <1>5, StillMatches
<1> QED
  BY <1>4, <1>7, <1>8, <1>9, <1>12, <1>13, <1>14, SafeTwo

\* The timeout is found: with nothing run since the flags were looked at, they are
\* as they were.
LEMMA PrepareSelectSafe ==
  ASSUME IInv, VarsOK', PrepareSelect
  PROVE  Goes
<1> DEFINE timeout == SelectArg
           ret == IF Queued = {} THEN 0 ELSE 1
           f == [Top EXCEPT !.timeout = timeout, !.copy = want, !.ret = ret]
           g == [f EXCEPT !.pc = "select"]
<1>0. PICK n : n = Len(stack)
  OBVIOUS
<1>1. /\ InOnce("events") /\ UNCHANGED <<fds, flags, lists>>
      /\ Become(AfterSelect(f, 0, want)) \/ Become(g)
  BY DEF PrepareSelect
<1>2. /\ Top \in OnceFrame /\ Top.pc = "events" /\ VarsOK
      /\ Top = stack[n] /\ Sound(n) /\ OnceAt(n, "events")
  BY <1>0, <1>1, OnceTop
<1>3. /\ Top.timeout \in {"none", "zero"}
      /\ Top.timeout = "none" /\ ~Top.ran => ~over /\ ~dontblock /\ ~Top.noblock
  BY <1>2 DEF Sound, TimeoutOf
<1>4. /\ timeout \in {"none", "zero", "finite", "forever"}
      /\ timeout # "zero" => /\ ~over /\ ~dontblock /\ ~Top.noblock /\ ~Top.ran
                             /\ funcs \cap Idle = {}
      /\ timeout = "forever" => Queued = {} /\ ret = 0
      /\ ret \in Int
  BY <1>3 DEF SelectArg
<1>5. want \in [Fd -> SUBSET Type]
  BY <1>2 DEF VarsOK
<1> HIDE DEF timeout, ret
<1>6. /\ f \in OnceFrame /\ f.timeout = timeout /\ f.ret = ret
      /\ f.ran = Top.ran /\ f.noblock = Top.noblock
  <2>1. Top \in OnceFrame /\ ret \in Int /\ timeout \in {"none", "zero", "finite", "forever"}
    BY <1>2, <1>4
  <2> QED
    BY <2>1, <1>5 DEF OnceFrame
<1> HIDE DEF f
<1>7. CASE Become(AfterSelect(f, 0, want))
  <2> DEFINE h == AfterSelect(f, 0, want)
  <2>1. h \in OnceFrame /\ h.pc \in {"signals", "idle"}
    <3>1. 0 \in Int /\ ~(0 > 0)
      OBVIOUS
    <3>2. /\ h \in OnceFrame /\ h.pc \in {"dispatch", "signals", "idle"}
          /\ h.pc = "dispatch" => 0 > 0
      BY <1>5, <1>6, <3>1, AfterSelectIs, Zenon
    <3> QED
      BY <3>1, <3>2
  <2> HIDE DEF h
  <2>2. Become(h)
    BY <1>7 DEF h
  <2> QED
    BY <1>1, <2>1, <2>2, BecomeDull
<1>8. CASE Become(g)
  <2>1. /\ g \in OnceFrame /\ g.pc = "select" /\ g.timeout = timeout /\ g.ret = ret
        /\ g.ran = Top.ran /\ g.noblock = Top.noblock
    BY <1>6, WithPc DEF Pc
  <2> HIDE DEF g
  <2>2. stack'[n] = g /\ Len(stack') = n /\ g.kind = "once"
    BY <1>0, <1>1, <1>8, <2>1, BecomeIs
  <2>3. over' = over /\ dontblock' = dontblock /\ funcs' = funcs /\ Queued' = Queued
    BY <1>1 DEF flags, lists, Queued
  <2>4. SleepOf(n)'
    BY <1>4, <2>1, <2>2, <2>3 DEF SleepOf, OnceAt
  <2>5. Sound(n)' /\ CloseOf(n)'
    BY <2>1, <2>2, <2>4 DEF Sound, TimeoutOf, FreshOf, CallerOf, PassOf, CloseOf, OnceAt
  <2> QED
    BY <1>0, <1>1, <1>8, <2>1, <2>5, BecomeSafe
<1> QED
  BY <1>1, <1>7, <1>8

\* A select that nothing could end.
LEMMA DeadSelectSafe ==
  ASSUME IInv, VarsOK', DeadSelect
  PROVE  Goes
<1> DEFINE f == AfterSelect(Top, Top.ret, Top.copy)
<1>0. PICK n : n = Len(stack)
  OBVIOUS
<1>1. InOnce("select") /\ Become(f) /\ UNCHANGED fds /\ Top.timeout = "forever"
  BY DEF DeadSelect, Dead
<1>2. /\ Top \in OnceFrame /\ Top = stack[n] /\ Sound(n) /\ OnceAt(n, "select")
  BY <1>0, <1>1, OnceTop
<1>3. Top.ret = 0
  BY <1>1, <1>2 DEF Sound, SleepOf
<1>4. f \in OnceFrame /\ f.pc \in {"signals", "idle"}
  BY <1>2, <1>3, OnceFields, AfterSelectIs
<1> HIDE DEF f
<1> QED
  BY <1>1, <1>4, BecomeDull

\* A select returns.
LEMMA SelectedSafe ==
  ASSUME IInv, VarsOK', InOnce("select"), NEW ret \in Int, NEW sets \in [Fd -> SUBSET Type],
         NEW reported \in [Fd -> SUBSET Type],
         ret > 0 => sets = reported /\ Cardinality(SomeIn(sets)) <= ret,
         Selected(ret, sets, reported), UNCHANGED fds
  PROVE  Goes
<1> DEFINE g == SelectedFrame(Top, ret, sets, reported)
<1>0. PICK n : n = Len(stack)
  OBVIOUS
<1>1. stack' = Append(SubSeq(Outdated, 1, n - 1), g)
  BY <1>0 DEF Selected, SelectedFrame
<1>2. /\ Top \in OnceFrame /\ TypeOK /\ NotOnce(n - 1) /\ NoClose(n - 1) /\ n \in Nat /\ n > 0
  BY <1>0, OnceTop
<1>3. /\ g \in OnceFrame /\ g.copy = sets /\ g.told = reported /\ g.fresh
      /\ g.pc \in {"dispatch", "signals", "idle"}
      /\ g.pc = "dispatch" => ret > 0
      /\ g.x = 0 /\ g.ret = ret
  BY <1>2, SelectedIs
<1> HIDE DEF g
<1>4. PICK m : m = n - 1
  OBVIOUS
<1>5. m \in 0 .. Len(stack)
  BY <1>0, <1>2, <1>4
<1>6. Base(SubSeq(Outdated, 1, m), m, TRUE)
  BY <1>2, <1>5, OutdatedMapped, MappedBase
<1>7. g \in Activation /\ g.kind = "once"
  BY <1>3, OnceFields DEF Activation
<1>8. stack' = Append(SubSeq(Outdated, 1, m), g)
  BY <1>1, <1>4
<1>9. stack'[m + 1] = g
  BY <1>2, <1>6, <1>7, <1>8, BaseOne
<1>10. Sound(m + 1)'
  <2>1. g.pc = "dispatch" => /\ \A fd \in Fd : g.told[fd] \subseteq g.copy[fd]
                            /\ Cardinality(Remaining(g)) <= g.ret
    <3>1. Remaining(g) = SomeIn(sets)
      BY <1>3 DEF Remaining, SomeIn, Fd
    <3> QED
      BY <1>3, <3>1
  <2>2. PassOf(m + 1)'
    BY <1>9, <2>1 DEF PassOf, OnceAt, Remaining, Fd
  <2> QED
    BY <1>3, <1>7, <1>9, <2>2 DEF Sound, SleepOf, TimeoutOf, FreshOf, CallerOf, OnceAt
<1>11. CloseOf(m + 1)'
  BY <1>3, <1>7, <1>9 DEF PassOf, CloseOf, OnceAt
<1>12. Matches(m) /\ NotOnce(m)
  BY <1>2, <1>4, StillMatches
<1> QED
  BY <1>6, <1>7, <1>8, <1>10, <1>11, <1>12, SafeOne

-----------------------------------------------------------------------------
(* bk_run_once from its select on, and the world.                          *)

\* A select returns with what is ready.
LEMMA SelectReadySafe ==
  ASSUME IInv, VarsOK', SelectReady
  PROVE  Goes
<1> DEFINE reported == Reported(Top.copy)
<1>1. /\ InOnce("select") /\ UNCHANGED fds /\ Selected(Bits(reported), reported, reported)
  BY DEF SelectReady
<1>2. Top \in OnceFrame /\ VarsOK
  BY <1>1, OnceTop
<1>3. reported \in [Fd -> SUBSET Type]
  <2>1. Top.copy \in [Fd -> SUBSET Type]
    BY <1>2, OnceFields
  <2> QED
    BY <2>1 DEF Reported
<1> HIDE DEF reported
<1>4. Bits(reported) \in Int /\ Cardinality(SomeIn(reported)) <= Bits(reported)
  <2>1. /\ Bits(reported) \in Nat
        /\ Cardinality(SomeIn(reported)) <= Bits(reported)
    BY <1>3, BitsAre, Zenon
  <2> QED
    BY <2>1
<1> QED
  BY <1>1, <1>3, <1>4, SelectedSafe

\* A select times out.
LEMMA SelectTimeoutSafe ==
  ASSUME IInv, VarsOK', SelectTimeout
  PROVE  Goes
<1>1. /\ InOnce("select") /\ UNCHANGED fds /\ Selected(0, NoFds, NoFds)
  BY DEF SelectTimeout
<1>2. NoFds \in [Fd -> SUBSET Type]
  BY DEF NoFds
<1>3. 0 \in Int /\ ~(0 > 0)
  OBVIOUS
<1> QED
  BY <1>1, <1>2, <1>3, SelectedSafe

\* A select is interrupted.
LEMMA SelectInterruptedSafe ==
  ASSUME IInv, VarsOK', SelectInterrupted
  PROVE  Goes
<1>1. /\ InOnce("select") /\ UNCHANGED fds /\ Selected(-1, Top.copy, NoFds)
  BY DEF SelectInterrupted
<1>2. NoFds \in [Fd -> SUBSET Type]
  BY DEF NoFds
<1>3. Top.copy \in [Fd -> SUBSET Type]
  BY <1>1, OnceTop, OnceFields
<1>4. -1 \in Int /\ ~(-1 > 0)
  OBVIOUS
<1> QED
  BY <1>1, <1>2, <1>3, <1>4, SelectedSafe

\* A select fails.
LEMMA SelectFailsSafe ==
  ASSUME IInv, VarsOK', SelectFails
  PROVE  Goes
<1> DEFINE f == [Top EXCEPT !.pc = "error"]
<1>1. InOnce("select") /\ Become(f) /\ UNCHANGED fds
  BY DEF SelectFails
<1>2. Top \in OnceFrame
  BY <1>1, OnceTop
<1>3. f \in OnceFrame /\ f.pc = "error"
  BY <1>2, WithPc DEF Pc
<1> HIDE DEF f
<1> QED
  BY <1>1, <1>3, BecomeDull

\* Who is not told to abort, and runs, has made the last select.
LEMMA DispatchFresh ==
  ASSUME IInv, InOnce("dispatch"), ~abort
  PROVE  Top.fresh
<1>0. PICK n : n = Len(stack)
  OBVIOUS
<1>1. /\ Top = stack[n] /\ Sound(n) /\ OnceAt(n, "dispatch") /\ n \in Nat /\ TypeOK
      /\ Top \in OnceFrame
  BY <1>0, OnceTop
<1>2. ~\E j \in DOMAIN stack : j > n
  <2>1. DOMAIN stack = 1 .. Len(stack)
    BY <1>1, StackType
  <2> QED
    BY <1>0, <1>1, <2>1
<1>3. Top.fresh \in BOOLEAN
  BY <1>1, OnceFields
<1> QED
  BY <1>1, <1>2, <1>3 DEF Sound, FreshOf

\* The next handler.
LEMMA DispatchToSafe ==
  ASSUME IInv, VarsOK', NEW fd \in Fd, DispatchTo(fd)
  PROVE  Goes
<1> DEFINE x == fd + 1
           ret == Top.ret - 1
           f == [Top EXCEPT !.x = x, !.ret = ret]
           u == User("fd", fd)
<1>0. PICK n : n = Len(stack)
  OBVIOUS
<1>1. InOnce("dispatch") /\ ~abort /\ UNCHANGED fds /\ (CallFrom(f, u) \/ Become(f))
  BY DEF DispatchTo
<1>2. /\ Top \in OnceFrame /\ Top.pc = "dispatch" /\ Top = stack[n] /\ OnceAt(n, "dispatch")
      /\ n \in DOMAIN stack
  BY <1>0, <1>1, OnceTop
<1>3. x \in Int /\ ret \in Int
  <2>1. Top.ret \in Int
    BY <1>2, OnceFields
  <2> QED
    BY <2>1 DEF Fd
<1> HIDE DEF x, ret
<1>4. /\ f \in OnceFrame /\ f.pc = "dispatch" /\ f.fresh = Top.fresh
      /\ f.copy = Top.copy /\ f.told = Top.told /\ f.x = fd + 1 /\ f.ret = Top.ret - 1
  BY <1>2, <1>3 DEF OnceFrame, x, ret
<1>5. u \in UserFrame /\ u.why = "fd" /\ u.kind = "user"
  BY DEF User, UserFrame
<1>6. f.fresh
  BY <1>1, <1>4, DispatchFresh
<1> HIDE DEF f, u
<1>7. stack'[n] = f /\ f.kind = "once"
  BY <1>0, <1>1, <1>4, <1>5, BecomeIs, CallIs
<1>8. /\ \A d \in Fd : f.told[d] \subseteq f.copy[d]
      /\ Cardinality(Remaining(f)) <= f.ret
  <2>1. /\ \A d \in Fd : Top.told[d] \subseteq Top.copy[d]
        /\ Cardinality(Remaining(Top)) <= Top.ret
    BY <1>0, <1>1, OnceTop DEF Sound, PassOf
  <2>2. Top.x \in Int /\ Top.ret \in Int
    BY <1>2, OnceFields
  <2>3. Top.x <= fd /\ Top.copy[fd] # {}
    BY DEF DispatchTo, Active, Activity
  <2>4. Remaining(f) \subseteq Remaining(Top) \ {fd} /\ fd \in Remaining(Top)
    <3>1. ASSUME NEW d \in Fd, fd + 1 <= d PROVE Top.x <= d /\ d # fd
      BY <2>2, <2>3, <3>1 DEF Fd
    <3> QED
      BY <1>4, <2>3, <3>1 DEF Remaining
  <2>5. IsFiniteSet(Remaining(Top))
    BY FdFinite, FS_Subset DEF Remaining
  <2>6. /\ Cardinality(Remaining(Top) \ {fd}) = Cardinality(Remaining(Top)) - 1
        /\ IsFiniteSet(Remaining(Top) \ {fd})
    BY <2>4, <2>5, FS_RemoveElement
  <2>7. /\ Cardinality(Remaining(f)) <= Cardinality(Remaining(Top) \ {fd})
        /\ Cardinality(Remaining(f)) \in Nat /\ Cardinality(Remaining(Top)) \in Nat
    BY <2>4, <2>5, <2>6, FS_Subset, FS_CardinalityType
  <2> QED
    BY <1>4, <2>1, <2>2, <2>6, <2>7
<1>9. Sound(n)' /\ CloseOf(n)'
  <2>1. PassOf(n)'
    BY <1>7, <1>8 DEF PassOf, OnceAt, Remaining, Fd
  <2> QED
    BY <1>4, <1>6, <1>7, <2>1 DEF Sound, SleepOf, TimeoutOf, FreshOf, CallerOf, CloseOf, OnceAt
<1>10. CASE Become(f)
  BY <1>0, <1>1, <1>4, <1>9, <1>10, BecomeSafe
<1>11. CASE CallFrom(f, u)
  <2>1. stack'[n + 1] = u
    BY <1>0, <1>1, <1>4, <1>5, <1>11, CallIs
  <2>2. CallerOf(n + 1)'
    BY <1>5, <2>1 DEF CallerOf
  <2> QED
    BY <1>0, <1>1, <1>4, <1>5, <1>9, <1>11, <2>2, CallSafe
<1> QED
  BY <1>1, <1>10, <1>11

\* The handlers are done.
LEMMA EndDispatchSafe ==
  ASSUME IInv, VarsOK', EndDispatch
  PROVE  Goes
<1> DEFINE f == [Top EXCEPT !.pc = "signals"]
<1>1. InOnce("dispatch") /\ Become(f) /\ UNCHANGED fds
  BY DEF EndDispatch
<1>2. Top \in OnceFrame
  BY <1>1, OnceTop
<1>3. f \in OnceFrame /\ f.pc = "signals"
  BY <1>2, WithPc DEF Pc
<1> HIDE DEF f
<1> QED
  BY <1>1, <1>3, BecomeDull

\* The idle functions are done.
LEMMA EndIdleSafe ==
  ASSUME IInv, VarsOK', EndIdle
  PROVE  Goes
<1> DEFINE f == [Top EXCEPT !.pc = "signals"]
<1>1. InOnce("idle") /\ Become(f) /\ UNCHANGED fds
  BY DEF EndIdle
<1>2. Top \in OnceFrame
  BY <1>1, OnceTop
<1>3. f \in OnceFrame /\ f.pc = "signals"
  BY <1>2, WithPc DEF Pc
<1> HIDE DEF f
<1> QED
  BY <1>1, <1>3, BecomeDull

\* Signals were taken.
LEMMA ScanSignalsSafe ==
  ASSUME IInv, VarsOK', ScanSignals
  PROVE  Goes
<1> DEFINE x == 1
           f == [Top EXCEPT !.pc = "scan", !.x = x]
<1>1. InOnce("signals") /\ Become(f) /\ UNCHANGED fds
  BY DEF ScanSignals
<1>4. x \in Int
  OBVIOUS
<1> HIDE DEF x
<1>2. Top \in OnceFrame
  BY <1>1, OnceTop
<1>3. f \in OnceFrame /\ f.pc = "scan"
  BY <1>2, <1>4 DEF OnceFrame, Pc
<1> HIDE DEF f
<1> QED
  BY <1>1, <1>3, BecomeDull

\* The signals are done.
LEMMA EndScanSafe ==
  ASSUME IInv, VarsOK', EndScan
  PROVE  Goes
<1> DEFINE f == [Top EXCEPT !.pc = "signals"]
<1>1. InOnce("scan") /\ Become(f) /\ UNCHANGED fds
  BY DEF EndScan
<1>2. Top \in OnceFrame
  BY <1>1, OnceTop
<1>3. f \in OnceFrame /\ f.pc = "signals"
  BY <1>2, WithPc DEF Pc
<1> HIDE DEF f
<1> QED
  BY <1>1, <1>3, BecomeDull

\* The next signal's handler.
LEMMA CallSignalHandlerSafe ==
  ASSUME IInv, VarsOK', CallSignalHandler
  PROVE  Goes
<1> DEFINE s == Least(Raised)
           f == [Top EXCEPT !.x = s]
           u == User("signal", -1)
<1>0. PICK n : n = Len(stack)
  OBVIOUS
<1>1. InOnce("scan") /\ CallFrom(f, u) /\ UNCHANGED fds /\ s \in Int
  BY RaisedLeast DEF CallSignalHandler
<1>2. Top \in OnceFrame /\ Top.pc = "scan"
  BY <1>1, OnceTop
<1> HIDE DEF s
<1>3. f \in OnceFrame /\ f.pc = "scan"
  BY <1>1, <1>2, WithX
<1>4. u \in UserFrame /\ u.why = "signal" /\ u.kind = "user"
  BY DEF User, UserFrame
<1> HIDE DEF f, u
<1>5. /\ stack'[n] = f /\ stack'[n + 1] = u /\ f.kind = "once"
  BY <1>0, <1>1, <1>3, <1>4, CallIs
<1>6. Sound(n)' /\ CloseOf(n)'
  BY <1>3, <1>5, DullSound DEF Dull
<1>7. CallerOf(n + 1)'
  BY <1>4, <1>5 DEF CallerOf
<1> QED
  BY <1>0, <1>1, <1>3, <1>4, <1>6, <1>7, CallSafe

\* bk_run_once returns, and tells those below.
LEMMA LeaveSafe ==
  ASSUME IInv, VarsOK', NEW pc, InOnce(pc), stack' = Below, LeaveFlags, UNCHANGED fds
  PROVE  Goes
<1>1. TypeOK /\ stack # <<>> /\ NoClose(Len(stack) - 1)
  BY OnceTop
<1>2. Matches(Len(stack) - 1)
  BY <1>1, StillMatches
<1>3. abort'
  BY DEF LeaveFlags
<1> QED
  BY <1>1, <1>2, <1>3, PopSafe

\* bk_run_once is done.
LEMMA FinishSafe ==
  ASSUME IInv, VarsOK', Finish
  PROVE  Goes
  BY LeaveSafe DEF Finish

\* bk_run_once aborts.
LEMMA AbortRunOnceSafe ==
  ASSUME IInv, VarsOK', AbortRunOnce
  PROVE  Goes
<1>1. stack' = Below /\ LeaveFlags /\ UNCHANGED fds /\ \E pc : InOnce(pc)
  BY DEF AbortRunOnce
<1> QED
  BY <1>1, LeaveSafe

\* bk_run_once fails; bk_run_run then fails too.
LEMMA ErrorSafe ==
  ASSUME IInv, VarsOK', Error
  PROVE  Goes
<1> DEFINE k == IF stack[Len(stack) - 1].kind = "run" THEN Len(stack) - 2 ELSE Len(stack) - 1
<1>0. PICK n : n = Len(stack)
  OBVIOUS
<1>1. InOnce("error") /\ abort' /\ UNCHANGED fds /\ stack' = SubSeq(stack, 1, k)
  <2>1. Len(stack) \in Nat
    BY OnceTop DEF Error
  <2>2. k = IF stack[Len(stack) - 1].kind = "run" THEN Len(stack) - 1 - 1 ELSE Len(stack) - 1
    BY <2>1
  <2> QED
    BY <2>2 DEF Error, LeaveFlags
<1>2. /\ TypeOK /\ n \in Nat /\ n > 0 /\ Top = stack[n] /\ Top.kind = "once"
  BY <1>0, <1>1, OnceTop
<1>3. /\ k \in Int /\ k < n /\ (k # n - 1 => k = n - 2 /\ stack[n - 1].kind = "run")
      /\ (k < 0 => k = -1)
  BY <1>0, <1>2
<1> HIDE DEF k
<1>4. PICK m : m = IF k < 0 THEN 0 ELSE k
  OBVIOUS
<1>5. m \in 0 .. Len(stack) /\ m # Len(stack)
  BY <1>0, <1>2, <1>3, <1>4
<1>6. stack' = SubSeq(stack, 1, m)
  <2>1. stack \in Seq(Activation)
    BY <1>2, StackType
  <2>2. CASE k < 0
    <3>1. SubSeq(stack, 1, -1) = <<>> /\ SubSeq(stack, 1, 0) = <<>>
      BY <2>1
    <3> QED
      BY <1>1, <1>3, <1>4, <2>2, <3>1
  <2> QED
    BY <1>1, <1>4, <2>2
<1>7. Base(SubSeq(stack, 1, m), m, FALSE) /\ NotOnce(m) /\ Told(m)
  BY <1>1, <1>2, <1>5, PrefixBase DEF NotOnce, Told
<1>8. NoClose(m)
  <2>1. \A j \in (m + 1) .. Len(stack) : j = n \/ (j = n - 1 /\ k # n - 1)
    BY <1>0, <1>2, <1>3, <1>4
  <2> QED
    BY <1>2, <1>3, <2>1 DEF NoClose
<1>9. Matches(m)
  BY <1>1, <1>2, <1>8, StillMatches
<1> QED
  BY <1>6, <1>7, <1>9, SafeZero

\* What the world does to the kernel and the clock, and nothing at all.
LEMMA QuietSafe ==
  ASSUME IInv, VarsOK', UNCHANGED <<stack, flags, fds, funcs>>, Queued' = Queued
  PROVE  Goes
<1>1. /\ stack' = stack /\ over' = over /\ dontblock' = dontblock /\ abort' = abort
      /\ assoc' = assoc /\ want' = want /\ selectn' = selectn /\ wish' = wish /\ funcs' = funcs
  BY DEF flags, fds
<1>2. TypeOK' /\ InRange'
  BY <1>1, TypePartsNext, StackType DEF IInv
<1>3. ASSUME NEW i \in DOMAIN stack' PROVE Sound(i)'
  <2>1. Sound(i)
    BY <1>1 DEF IInv
  <2> QED
    BY <1>1, <2>1 DEF Sound, SleepOf, TimeoutOf, FreshOf, CallerOf, PassOf, Remaining, Fd, OnceAt
<1>4. FdInv => FdInv'
  BY <1>1 DEF FdInv, RegisteredOnly, SelectMatchesRegistry, BeingClosed, CloseOf, Fd, User
<1> QED
  BY <1>2, <1>3, <1>4 DEF Goes, IInv

\* A descriptor becomes ready.
LEMMA ArriveSafe ==
  ASSUME IInv, VarsOK', NEW fd \in Fd, NEW t \in Type, Arrive(fd, t)
  PROVE  Goes
  BY QuietSafe DEF Arrive, lists, Queued

\* An event becomes due.
LEMMA ClockReachesSafe ==
  ASSUME IInv, VarsOK', NEW e \in Event, ClockReaches(e)
  PROVE  Goes
<1>1. Queued' = Queued
  <2>1. equeue \in [Event -> {"none", "later", "due"}]
    BY DEF IInv, TypeOK
  <2>2. \A d \in Event : (equeue'[d] # "none") <=> (equeue[d] # "none")
    BY <2>1 DEF ClockReaches
  <2> QED
    BY <2>2 DEF Queued
<1> QED
  BY <1>1, QuietSafe DEF ClockReaches

\* A signal is sent.
LEMMA KillSafe ==
  ASSUME IInv, VarsOK', NEW s \in Sig, Kill(s)
  PROVE  Goes
  BY QuietSafe DEF Kill, lists, Queued

-----------------------------------------------------------------------------
(* The invariant, and what it gives.                                       *)

\* The program's calls keep the invariants.
LEMMA ProgramCallsSafe == ASSUME IInv, ProgramCalls PROVE Goes
<1>0. VarsOK'
  <2>1. VarsOK
    BY TypeParts DEF IInv
  <2> QED
    BY <2>1, ProgramTyped
<1>1. ASSUME NEW fd \in Fd, NEW wanted \in SUBSET Type, Handle(fd, wanted) PROVE Goes
  BY <1>0, <1>1, HandleSafe
<1>2. ASSUME NEW fd \in Fd, NEW wanted \in SUBSET Type, Setpref(fd, wanted) PROVE Goes
  BY <1>0, <1>2, SetprefSafe
<1>3. ASSUME NEW fd \in Fd, NEW tell \in BOOLEAN, Close(fd, tell) PROVE Goes
  <2>2. CASE tell = TRUE
    BY <1>0, <1>3, <2>2, CloseTellingSafe
  <2>3. CASE tell = FALSE
    BY <1>0, <1>3, <2>3, CloseQuietlySafe
  <2> QED
    BY <2>2, <2>3
<1>4. ASSUME NEW e \in Event, Enqueue(e) PROVE Goes
  BY <1>0, <1>4, EnqueueSafe
<1>5. ASSUME NEW e \in Event, Dequeue(e) PROVE Goes
  BY <1>0, <1>5, DequeueSafe
<1>6. ASSUME NEW f \in Poll \cup Idle \cup Demand, AddFunc(f) PROVE Goes
  BY <1>0, <1>6, StaySafe DEF AddFunc, MayCall, flags
<1>7. ASSUME NEW f \in Poll \cup Idle \cup Demand, RemoveFunc(f) PROVE Goes
  BY <1>0, <1>7, StaySafe DEF RemoveFunc, MayCall, flags
<1>8. ASSUME NEW f \in Demand, SetDemand(f) PROVE Goes
  BY <1>0, <1>8, StaySafe DEF SetDemand, MayCall, flags
<1>9. ASSUME NEW s \in Sig, NEW enable \in BOOLEAN, NEW clear \in BOOLEAN, Signal(s, enable, clear)
      PROVE  Goes
  BY <1>0, <1>9, StaySafe DEF Signal, MayCall, flags
<1>10. ASSUME SetRunOver PROVE Goes
  BY <1>0, <1>10, StaySafe DEF SetRunOver, MayCall
<1>11. ASSUME SetDontBlock PROVE Goes
  BY <1>0, <1>11, StaySafe DEF SetDontBlock, MayCall
<1>12. ASSUME RunRun PROVE Goes
  BY <1>0, <1>12, RunRunSafe
<1>13. ASSUME NEW noblock \in BOOLEAN, RunOnce(noblock) PROVE Goes
  <2>2. /\ stack # <<>> /\ Top.kind # "once" /\ stack' = Append(stack, Once(noblock))
        /\ UNCHANGED fds
    BY <1>13 DEF RunOnce, MayCall, Running
  <2> QED
    BY <1>0, <2>2, EnterSafe
<1>14. ASSUME ReturnFailure PROVE Goes
  BY <1>0, <1>14, ReturnFailureSafe
<1> QED
  BY <1>1, <1>2, <1>3, <1>4, <1>5, <1>6, <1>7, <1>8, <1>9, <1>10, <1>11, <1>12, <1>13, <1>14
     DEF ProgramCalls

\* Returns keep the invariants.
LEMMA ReturnsSafe == ASSUME IInv, Returns PROVE Goes
<1>0. VarsOK'
  <2>1. VarsOK
    BY TypeParts DEF IInv
  <2> QED
    BY <2>1, ReturnsTyped
<1>1. ASSUME Return PROVE Goes
  BY <1>0, <1>1, ReturnSafe
<1>2. ASSUME ReturnDelta PROVE Goes
  BY <1>0, <1>2, ReturnDeltaSafe
<1>3. ASSUME ReturnFromClose PROVE Goes
  BY <1>0, <1>3, ReturnFromCloseSafe
<1> QED
  BY <1>1, <1>2, <1>3 DEF Returns

\* The loop's steps keep the invariants.
LEMMA LoopStepsSafe == ASSUME IInv, LoopSteps PROVE Goes
<1>0. VarsOK'
  <2>1. VarsOK
    BY TypeParts DEF IInv
  <2> QED
    BY <2>1, LoopTyped
<1>1. ASSUME RunTurn PROVE Goes
  BY <1>0, <1>1, RunTurnSafe
<1>2. ASSUME NEW pc \in {"demand", "poll", "idle"}, NEW f \in Func, Visit(pc, f) PROVE Goes
  BY <1>0, <1>2, VisitSafe
<1>3. ASSUME EndDemand PROVE Goes
  BY <1>0, <1>3, EndDemandSafe
<1>4. ASSUME EndPoll PROVE Goes
  BY <1>0, <1>4, EndPollSafe
<1>5. ASSUME NEW e \in Event, RunEvent(e) PROVE Goes
  BY <1>0, <1>5, RunEventSafe
<1>6. ASSUME PrepareSelect PROVE Goes
  BY <1>0, <1>6, PrepareSelectSafe
<1>7. ASSUME DeadSelect PROVE Goes
  BY <1>0, <1>7, DeadSelectSafe
<1>8. ASSUME SelectReady PROVE Goes
  BY <1>0, <1>8, SelectReadySafe
<1>9. ASSUME SelectTimeout PROVE Goes
  BY <1>0, <1>9, SelectTimeoutSafe
<1>10. ASSUME SelectInterrupted PROVE Goes
  BY <1>0, <1>10, SelectInterruptedSafe
<1>11. ASSUME NEW fd \in Fd, DispatchTo(fd) PROVE Goes
  BY <1>0, <1>11, DispatchToSafe
<1>12. ASSUME EndDispatch PROVE Goes
  BY <1>0, <1>12, EndDispatchSafe
<1>13. ASSUME EndIdle PROVE Goes
  BY <1>0, <1>13, EndIdleSafe
<1>14. ASSUME ScanSignals PROVE Goes
  BY <1>0, <1>14, ScanSignalsSafe
<1>15. ASSUME CallSignalHandler PROVE Goes
  BY <1>0, <1>15, CallSignalHandlerSafe
<1>16. ASSUME EndScan PROVE Goes
  BY <1>0, <1>16, EndScanSafe
<1>17. ASSUME Finish PROVE Goes
  BY <1>0, <1>17, FinishSafe
<1>18. ASSUME AbortRunOnce PROVE Goes
  BY <1>0, <1>18, AbortRunOnceSafe
<1>19. ASSUME Error PROVE Goes
  BY <1>0, <1>19, ErrorSafe
<1> QED
  BY <1>1, <1>2, <1>3, <1>4, <1>5, <1>6, <1>7, <1>8, <1>9, <1>10, <1>11, <1>12, <1>13, <1>14,
     <1>15, <1>16, <1>17, <1>18, <1>19 DEF LoopSteps

\* The world keeps the invariants.
LEMMA WorldSafe == ASSUME IInv, World PROVE Goes
<1>0. VarsOK'
  <2>1. VarsOK
    BY TypeParts DEF IInv
  <2> QED
    BY <2>1, WorldTyped
<1>1. ASSUME NEW fd \in Fd, NEW t \in Type, Arrive(fd, t) PROVE Goes
  BY <1>0, <1>1, ArriveSafe
<1>2. ASSUME NEW e \in Event, ClockReaches(e) PROVE Goes
  BY <1>0, <1>2, ClockReachesSafe
<1>3. ASSUME NEW s \in Sig, Kill(s) PROVE Goes
  BY <1>0, <1>3, KillSafe
<1>4. ASSUME SelectFails PROVE Goes
  BY <1>0, <1>4, SelectFailsSafe
<1> QED
  BY <1>1, <1>2, <1>3, <1>4 DEF World

\* Every step keeps the invariants.
LEMMA StepSafe == ASSUME IInv, [Next]_vars PROVE Goes
<1>1. ASSUME UNCHANGED vars PROVE Goes
  <2>1. VarsOK'
    <3>1. VarsOK
      BY TypeParts DEF IInv
    <3> QED
      BY <1>1, <3>1 DEF vars, flags, fds, lists, signals, kernel, VarsOK
  <2>2. UNCHANGED <<stack, flags, fds, funcs>> /\ Queued' = Queued
    BY <1>1 DEF vars, lists, Queued
  <2> QED
    BY <2>1, <2>2, QuietSafe
<1> QED
  BY <1>1, ProgramCallsSafe, ReturnsSafe, LoopStepsSafe, WorldSafe DEF Next

\* The invariants hold at the start.
LEMMA InitSafe == ASSUME Init PROVE IInv /\ (RegisteredOnly => FdInv)
<1>1. /\ stack = <<User("main", -1)>> /\ stack[1] = User("main", -1) /\ DOMAIN stack = {1}
      /\ Len(stack) = 1
  BY DEF Init
<1>2. User("main", -1) \in Activation /\ stack \in Seq(Activation)
  <2>1. User("main", -1) \in Activation
    BY DEF User, Activation, UserFrame
  <2> QED
    BY <1>1, <2>1
<1>3. stack[1].kind = "user" /\ stack[1].why = "main"
  BY <1>1 DEF User
<1>4. assoc \in SUBSET Fd /\ want \in [Fd -> SUBSET Type] /\ wish = want /\ selectn = Highest(assoc)
      /\ \A fd \in Fd \ assoc : want[fd] = {}
  BY DEF Init
<1>5. selectn \in 0 .. MaxFd + 1 /\ \A fd \in assoc : fd < selectn
  BY <1>4, HighestIs
<1>6. VarsOK
  <2>1. NoFds \in [Fd -> SUBSET Type]
    BY DEF NoFds
  <2>2. left \in 0 .. Budget
    BY SizesAssumption DEF Init
  <2>3. signums \in [Sig -> Nat]
    BY DEF Init
  <2>4. equeue \in [Event -> {"none", "later", "due"}]
    BY DEF Init
  <2> QED
    BY <1>4, <1>5, <2>1, <2>2, <2>3, <2>4 DEF Init, VarsOK
<1>7. TypeOK /\ InRange
  BY <1>2, <1>6, TypeParts
<1>8. \A i \in DOMAIN stack : Sound(i) /\ CloseOf(i)
  BY <1>1, <1>3 DEF Sound, SleepOf, TimeoutOf, FreshOf, CallerOf, PassOf, CloseOf, OnceAt
<1>9. SelectMatchesRegistry
  BY <1>4, <1>5 DEF SelectMatchesRegistry, BeingClosed
<1> QED
  BY <1>7, <1>8, <1>9 DEF IInv, FdInv

\* The invariant always holds.
THEOREM Inductive == Spec => []IInv
<1>1. Init => IInv
  BY InitSafe
<1>2. IInv /\ [Next]_vars => IInv'
  BY StepSafe DEF Goes
<1> QED
  BY <1>1, <1>2, PTL DEF Spec

\* When numbers rest and preferences are set of registered descriptors only, that
\* of descriptors does too.
THEOREM FdInductive == RegisteredOnly => (Spec /\ NumbersRest => [](IInv /\ FdInv))
<1> SUFFICES ASSUME RegisteredOnly PROVE Spec /\ NumbersRest => [](IInv /\ FdInv)
  OBVIOUS
<1>1. Init => IInv /\ FdInv
  BY InitSafe
<1>2. IInv /\ FdInv /\ [Next]_vars /\ [Rest]_vars => IInv' /\ FdInv'
  <2> SUFFICES ASSUME IInv, FdInv, [Next]_vars, [Rest]_vars PROVE IInv' /\ FdInv'
    OBVIOUS
  <2>1. Rest
    BY DEF Rest, vars, fds
  <2> QED
    BY <2>1, StepSafe DEF Goes
<1> QED
  BY <1>1, <1>2, PTL DEF Spec, NumbersRest

\* Every variable keeps its type, activations and br_selectn among them.
THEOREM TypeCorrect == Spec => []TypeOK
<1>1. IInv => TypeOK
  BY DEF IInv
<1> QED
  BY <1>1, Inductive, PTL

\* No handler is called on what an earlier select reported when another
\* bk_run_once has selected since.
THEOREM NoDeadStateHolds == Spec => NoDeadState
<1>1. IInv => \A fd \in Fd : DispatchTo(fd) => Top.fresh
  BY DispatchFresh DEF DispatchTo
<1> QED
  BY <1>1, Inductive, PTL DEF NoDeadState

\* The loop sleeps only if nobody asked it not to, whatever the events it has just
\* run did, and for ever only with nothing queued.
THEOREM SleepsHolds == Spec => []SleepsOnlyWithNothingToDo
<1>1. IInv => SleepsOnlyWithNothingToDo
  <2> SUFFICES ASSUME IInv, InOnce("select")
               PROVE  /\ Top.timeout # "zero" => ~over /\ ~dontblock /\ funcs \cap Idle = {}
                      /\ Top.timeout = "forever" => Queued = {}
    BY DEF SleepsOnlyWithNothingToDo
  <2>1. PICK n : n = Len(stack)
    OBVIOUS
  <2>2. Top = stack[n] /\ OnceAt(n, "select") /\ Sound(n)
    BY <2>1, OnceTop
  <2> QED
    BY <2>2 DEF Sound, SleepOf
<1> QED
  BY <1>1, Inductive, PTL

\* When numbers rest and preferences are set of registered descriptors only, select
\* looks at the registered descriptors, for what was last asked for, and at no
\* other but one whose handler is being told of its close.
THEOREM RegistryHolds == RegisteredOnly => (Spec /\ NumbersRest => []SelectMatchesRegistry)
<1> SUFFICES ASSUME RegisteredOnly PROVE Spec /\ NumbersRest => []SelectMatchesRegistry
  OBVIOUS
<1>1. IInv /\ FdInv => SelectMatchesRegistry
  BY DEF FdInv
<1> QED
  BY <1>1, FdInductive, PTL

\* No pass ends before a descriptor that select reported, that is registered as it
\* was and still wanted: neither the count of what select returned runs out, nor
\* does br_selectn fall below it, whatever handlers open, close and ask for.
THEOREM NonePassedOverHolds == Spec => NonePassedOver
<1>1. IInv => (EndDispatch => \A fd \in assoc : Top.told[fd] \cap want[fd] # {} => fd < Top.x)
  <2> SUFFICES ASSUME IInv, EndDispatch, NEW fd \in assoc, Top.told[fd] \cap want[fd] # {},
                      ~(fd < Top.x)
               PROVE  FALSE
    OBVIOUS
  <2>1. PICK n : n = Len(stack)
    OBVIOUS
  <2>2. InOnce("dispatch") /\ (Top.ret = 0 \/ Active = {})
    BY DEF EndDispatch
  <2>3. /\ Top = stack[n] /\ OnceAt(n, "dispatch") /\ Sound(n) /\ Top \in OnceFrame
        /\ VarsOK
    BY <2>1, <2>2, OnceTop
  <2>4. /\ \A d \in Fd : Top.told[d] \subseteq Top.copy[d]
        /\ Cardinality(Remaining(Top)) <= Top.ret
    BY <2>3 DEF Sound, PassOf
  <2>5. fd \in Fd /\ fd < selectn
    BY <2>3 DEF VarsOK
  <2>6. Top.x <= fd
    <3>1. Top.x \in Int /\ fd \in Int
      BY <2>3, <2>5, OnceFields DEF Fd
    <3> QED
      BY <3>1
  <2>7. fd \in Active /\ fd \in Remaining(Top)
    BY <2>4, <2>5, <2>6 DEF Active, Activity, Remaining
  <2>8. Cardinality(Remaining(Top)) \in Nat /\ Cardinality(Remaining(Top)) # 0
    <3>1. IsFiniteSet(Remaining(Top))
      BY FdFinite, FS_Subset DEF Remaining
    <3> QED
      BY <2>7, <3>1, FS_EmptySet, FS_CardinalityType
  <2> QED
    BY <2>2, <2>4, <2>7, <2>8
<1> QED
  BY <1>1, Inductive, PTL DEF NonePassedOver
=============================================================================
