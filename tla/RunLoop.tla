------------------------------ MODULE RunLoop ------------------------------
(***************************************************************************)
(* The run loop of lib/b_run.c in a program without threads: bk_run_run,   *)
(* bk_run_once, the descriptors, events, poll, idle and on-demand          *)
(* functions and signals it serves, and the calls that the functions it    *)
(* calls make back into it, another bk_run_once included.                  *)
(*                                                                         *)
(* The C stack is the variable stack.  Its elements are activations: of    *)
(* bk_run_run ("run"), of bk_run_once ("once") and of the program's own    *)
(* functions ("user"), the main program at the bottom.  One step runs up   *)
(* to the next call, return or system call.                                *)
(*                                                                         *)
(* Time is abstracted: a queued event is "later" until the clock reaches   *)
(* it, then "due"; a select with a finite timeout may end when it likes.   *)
(* The build is the one with BK_USING_PTHREADS and pselect.                *)
(***************************************************************************)
EXTENDS Integers, Sequences, FiniteSets

CONSTANTS
  MaxFd,        \* descriptors are 0 .. MaxFd
  Type,         \* what a descriptor can be watched for: BK_RUN_WANTREAD, ...
  Event,        \* events the program may queue
  Poll, Idle, Demand,   \* poll, idle and on-demand functions
  MaxSig,       \* signals are 1 .. MaxSig
  Calls,        \* which calls the program's functions make
  Budget,       \* how many calls they make, signals sent included
  MaxStack,     \* activations under which the program calls bk_run_once
  AllowDead     \* BK_RUN_FLAG_ALLOW_DEAD_SELECT

Fd == 0 .. MaxFd
Sig == 1 .. MaxSig
Func == Event \cup Poll \cup Idle \cup Demand

ASSUME SizesAssumption ==
  MaxFd \in Int /\ MaxFd >= -1 /\ {MaxSig, Budget, MaxStack} \subseteq Nat
ASSUME TypesAssumption == IsFiniteSet(Type)
ASSUME AllowDeadAssumption == AllowDead \in BOOLEAN

VARIABLES
  stack,        \* the activations, the running one last
  over,         \* BK_RUN_FLAG_RUN_OVER
  dontblock,    \* BK_RUN_FLAG_DONT_BLOCK_RUN_ONCE
  abort,        \* BK_RUN_FLAG_ABORT_RUN_ONCE
  assoc,        \* descriptors in br_fdassoc
  want,         \* br_readset, br_writeset, br_xcptset, by descriptor
  selectn,      \* br_selectn
  wish,         \* what was last asked for each descriptor
  equeue,       \* br_equeue: event -> "none", "later", "due"
  funcs,        \* br_poll_funcs, br_idle_funcs, br_ondemand_funcs
  demand,       \* on-demand functions whose *brof_demand is set
  handled,      \* signals with a handler in br_handlerlist
  signums,      \* br_signums
  beensignaled, \* br_beensignaled
  crashed,      \* a handler that is not there was called
  ready,        \* what the kernel would report, by descriptor
  pending,      \* signals the kernel holds back
  left          \* calls left

flags == <<over, dontblock, abort>>
fds == <<assoc, want, selectn, wish>>
lists == <<equeue, funcs, demand>>
signals == <<handled, signums, beensignaled, crashed>>
kernel == <<ready, pending>>
vars == <<stack, flags, fds, lists, signals, kernel, left>>
-----------------------------------------------------------------------------
NoFds == [fd \in Fd |-> {}]
User(why, fd) == [kind |-> "user", why |-> why, fd |-> fd]
\* bk_run_once on entry.  told is what its select reported of the present
\* registrations; fresh says that no other select was made since.
Once(noblock) ==
  [kind |-> "once", pc |-> "demand", noblock |-> noblock,
   todo |-> funcs \cap Demand, usedelta |-> FALSE, ran |-> FALSE,
   timeout |-> "none", ret |-> 0, copy |-> NoFds, told |-> NoFds, x |-> 0,
   fresh |-> FALSE]

Top == stack[Len(stack)]
Below == SubSeq(stack, 1, Len(stack) - 1)
Running(kind) == stack # <<>> /\ Top.kind = kind
InOnce(pc) == Running("once") /\ Top.pc = pc
Become(frame) == stack' = Append(Below, frame)
\* The running activation becomes frame and calls callee.
CallFrom(frame, callee) == stack' = Below \o <<frame, callee>>
\* The stack when in every bk_run_once under way: descriptor fd's registration
\* ends; event e leaves the queue, or joins what is due; a select is made.
Closed(fd) == [i \in DOMAIN stack |-> IF stack[i].kind # "once" THEN stack[i]
               ELSE [stack[i] EXCEPT !.told = [@ EXCEPT ![fd] = {}]]]
Dequeued(e) == [i \in DOMAIN stack |-> IF stack[i].kind # "once" THEN stack[i]
                ELSE [stack[i] EXCEPT !.todo = @ \ {e}]]
JoinedBy(e) == [i \in DOMAIN stack |-> IF stack[i].kind # "once" THEN stack[i]
                ELSE IF stack[i].pc # "events" THEN stack[i]
                ELSE [stack[i] EXCEPT !.todo = @ \cup {e}]]
Outdated == [i \in DOMAIN stack |-> IF stack[i].kind # "once" THEN stack[i]
             ELSE [stack[i] EXCEPT !.fresh = FALSE]]

Queued == {e \in Event : equeue[e] # "none"}
Due == {e \in Event : equeue[e] = "due"}
HighestOffByOne(S) == IF S = {} THEN 0 ELSE 2 + CHOOSE fd \in S : \A other \in S : other <= fd
Highest(S) == IF S = {} THEN 0 ELSE 1 + CHOOSE fd \in S : \A other \in S : other <= fd
Least(S) == CHOOSE x \in S : \A other \in S : x <= other
\* What select reports of sets of descriptors below selectn, and how many bits.
Reported(sets) == [fd \in Fd |-> IF fd < selectn THEN sets[fd] \cap ready[fd] ELSE {}]
Bits(sets) == Cardinality(UNION {{fd} \X sets[fd] : fd \in Fd})

Init ==
  /\ stack = <<User("main", -1)>>
  /\ over = FALSE /\ dontblock = FALSE /\ abort = FALSE
  /\ assoc \in SUBSET Fd
  /\ want \in {w \in [Fd -> SUBSET Type] : \A fd \in Fd \ assoc : w[fd] = {}}
  /\ wish = want
  /\ selectn = Highest(assoc)
  /\ equeue \in [Event -> {"none", "later"}]
  /\ funcs \in SUBSET (Poll \cup Idle \cup Demand)
  /\ demand \in SUBSET Demand
  /\ handled \in SUBSET Sig
  /\ signums = [s \in Sig |-> 0] /\ beensignaled = FALSE /\ crashed = FALSE
  /\ ready = NoFds /\ pending = {}
  /\ left = Budget
-----------------------------------------------------------------------------
(* The program's functions. *)

Spend(call) ==
  /\ call \in Calls /\ ~crashed
  /\ left > 0 /\ left' = left - 1
MayCall(call) == Running("user") /\ Spend(call)

\* bk_run_handle.  For a descriptor that is registered it fails.
Handle(fd, wanted) ==
  /\ MayCall("handle") /\ fd \notin assoc
  /\ assoc' = assoc \cup {fd}
  /\ selectn' = IF selectn < fd + 1 THEN fd + 1 ELSE selectn
  /\ want' = [want EXCEPT ![fd] = wanted]
  /\ wish' = [wish EXCEPT ![fd] = wanted]
  /\ ready' = [ready EXCEPT ![fd] = {}]
  /\ UNCHANGED <<stack, flags, lists, signals, pending>>

\* bk_run_setpref asks for nothing but the sets' bits: it does as it is told for
\* a descriptor that is not registered, too.
MayAsk(fd) == MayCall(IF fd \in assoc THEN "setpref" ELSE "setprefnone")
\* The mutant does not clear what is not wanted any more.
SetprefAdds(fd, wanted) ==
  /\ MayAsk(fd)
  /\ want' = [want EXCEPT ![fd] = @ \cup wanted]
  /\ wish' = [wish EXCEPT ![fd] = wanted]
  /\ UNCHANGED <<stack, flags, assoc, selectn, lists, signals, kernel>>

Setpref(fd, wanted) ==
  /\ MayAsk(fd)
  /\ want' = [want EXCEPT ![fd] = wanted]
  /\ wish' = [wish EXCEPT ![fd] = wanted]
  /\ UNCHANGED <<stack, flags, assoc, selectn, lists, signals, kernel>>

\* The mutant leaves the descriptor in the sets.
ClearFdNot(fd, S) ==
  /\ want' = want
  /\ selectn' = IF selectn = fd + 1 THEN Highest(S) ELSE selectn
\* The end of bk_run_close, where S is what br_fdassoc then holds.
ClearFd(fd, S) ==
  /\ want' = [want EXCEPT ![fd] = {}]
  /\ selectn' = IF selectn = fd + 1 THEN Highest(S) ELSE selectn

\* bk_run_close with BK_RUN_CLOSE_FLAG_NO_HANDLER, or up to the call of the
\* handler with BK_RUN_CLOSE.  A second close finds nothing to do.
Close(fd, tell) ==
  /\ MayCall("close") /\ fd \in assoc
  /\ assoc' = assoc \ {fd}
  /\ wish' = [wish EXCEPT ![fd] = {}]
  /\ IF tell THEN /\ Len(stack) < MaxStack
                  /\ stack' = Append(Closed(fd), User("close", fd))
                  /\ UNCHANGED <<want, selectn>>
     ELSE stack' = Closed(fd) /\ ClearFd(fd, assoc \ {fd})
  /\ UNCHANGED <<flags, lists, signals, kernel>>

\* bk_run_enqueue: for later, or for this very microsecond, which every
\* bk_run_checkeventq under way then finds due.
Enqueue(e) ==
  /\ MayCall("enqueue") /\ equeue[e] = "none"
  /\ \/ equeue' = [equeue EXCEPT ![e] = "later"] /\ UNCHANGED stack
     \/ equeue' = [equeue EXCEPT ![e] = "due"] /\ stack' = JoinedBy(e)
  /\ UNCHANGED <<flags, fds, funcs, demand, signals, kernel>>

Dequeue(e) ==
  /\ MayCall("dequeue") /\ equeue[e] # "none"
  /\ equeue' = [equeue EXCEPT ![e] = "none"]
  /\ stack' = Dequeued(e)
  /\ UNCHANGED <<flags, fds, funcs, demand, signals, kernel>>

\* bk_run_poll_add, bk_run_idle_add, bk_run_on_demand_add and the removes.
\* A list that is not empty has its flag set, an empty one has not.
AddFunc(f) ==
  /\ MayCall("funcs") /\ f \notin funcs
  /\ funcs' = funcs \cup {f}
  /\ UNCHANGED <<stack, flags, fds, equeue, demand, signals, kernel>>

RemoveFunc(f) ==
  /\ MayCall("funcs") /\ f \in funcs
  /\ funcs' = funcs \ {f}
  /\ UNCHANGED <<stack, flags, fds, equeue, demand, signals, kernel>>

SetDemand(f) ==
  /\ MayCall("demand")
  /\ \/ demand' = demand \cup {f}
     \/ demand' = demand \ {f}
  /\ UNCHANGED <<stack, flags, fds, equeue, funcs, signals, kernel>>

\* bk_run_signal with a handler, or with SIG_IGN, SIG_DFL or NULL; clear is
\* BK_RUN_SIGNAL_CLEARPENDING.  The kernel drops what it held of a signal
\* that is no longer handled.
Signal(s, enable, clear) ==
  /\ MayCall(IF enable THEN "signal" ELSE "unsignal")
  /\ handled' = IF enable THEN handled \cup {s} ELSE handled \ {s}
  /\ signums' = IF clear THEN [signums EXCEPT ![s] = 0] ELSE signums
  /\ pending' = IF enable THEN pending ELSE pending \ {s}
  /\ UNCHANGED <<stack, flags, fds, lists, beensignaled, crashed, ready>>

SetRunOver ==
  /\ MayCall("over")
  /\ over' = TRUE
  /\ UNCHANGED <<stack, dontblock, abort, fds, lists, signals, kernel>>

SetDontBlock ==
  /\ MayCall("dontblock")
  /\ dontblock' = TRUE
  /\ UNCHANGED <<stack, over, abort, fds, lists, signals, kernel>>

\* bk_run_run, called by the main program.
RunRun ==
  /\ MayCall("run") /\ Top.why = "main"
  /\ stack' = Append(stack, [kind |-> "run"])
  /\ over' = FALSE
  /\ UNCHANGED <<dontblock, abort, fds, lists, signals, kernel>>

\* bk_run_once, called by any function of the program.
RunOnce(noblock) ==
  /\ MayCall("once") /\ Len(stack) < MaxStack
  /\ stack' = Append(stack, Once(noblock))
  /\ abort' = FALSE
  /\ UNCHANGED <<over, dontblock, fds, lists, signals, kernel>>

\* A descriptor's handler, an event, a signal's handler or an on-demand, poll
\* or idle function returns.  A handler may have used up what was ready.
Return ==
  /\ Running("user") /\ Top.why \notin {"main", "close"} /\ ~crashed
  /\ stack' = Below
  /\ \/ UNCHANGED ready
     \/ Top.why = "fd" /\ ready' = [ready EXCEPT ![Top.fd] = {}]
  /\ UNCHANGED <<flags, fds, lists, signals, pending, left>>

\* A poll function that returns 1 gave a time to be called again.
ReturnDelta ==
  /\ Running("user") /\ Top.why = "poll" /\ ~crashed
  /\ LET caller == [stack[Len(stack) - 1] EXCEPT !.usedelta = TRUE]
     IN stack' = Append(SubSeq(stack, 1, Len(stack) - 2), caller)
  /\ UNCHANGED <<flags, fds, lists, signals, kernel, left>>

\* An on-demand, poll or idle function fails, and bk_run_once with it.
ReturnFailure ==
  /\ MayCall("fail") /\ Top.why \in {"demand", "poll", "idle"}
  /\ LET caller == [stack[Len(stack) - 1] EXCEPT !.pc = "error"]
     IN stack' = Append(SubSeq(stack, 1, Len(stack) - 2), caller)
  /\ UNCHANGED <<flags, fds, lists, signals, kernel>>

\* The handler told of the close returns, and so does bk_run_close.
ReturnFromClose ==
  /\ Running("user") /\ Top.why = "close" /\ ~crashed
  /\ stack' = Below
  /\ ClearFd(Top.fd, assoc)
  /\ UNCHANGED <<flags, assoc, wish, lists, signals, kernel, left>>
-----------------------------------------------------------------------------
(* bk_run_run and bk_run_once. *)

RunTurn ==
  /\ Running("run")
  /\ IF over THEN stack' = Below /\ UNCHANGED abort
     ELSE stack' = Append(stack, Once(FALSE)) /\ abort' = FALSE
  /\ UNCHANGED <<over, dontblock, fds, lists, signals, kernel, left>>

\* The next function of a list.  One that was removed is not there any more;
\* one that is added goes to the front, behind the loop.
Visit(pc, f) ==
  /\ InOnce(pc) /\ f \in Top.todo
  /\ LET frame == [Top EXCEPT !.todo = @ \ {f}]
     IN IF f \in funcs /\ (pc = "demand" => f \in demand)
        THEN CallFrom(frame, User(pc, -1))
        ELSE Become(frame)
  /\ UNCHANGED <<flags, fds, lists, signals, kernel, left>>

EndDemand ==
  /\ InOnce("demand") /\ Top.todo = {} /\ ~abort
  /\ Become([Top EXCEPT !.pc = "poll", !.todo = funcs \cap Poll])
  /\ UNCHANGED <<flags, fds, lists, signals, kernel, left>>

\* "If this is the final run, or if we shouldn't block".
MustNotBlock == over \/ dontblock \/ Top.noblock

\* bk_run_checkeventq takes the time and will run what is due now.
EndPoll ==
  /\ InOnce("poll") /\ Top.todo = {} /\ ~abort
  /\ Become([Top EXCEPT !.pc = "events", !.todo = Due,
                        !.timeout = IF MustNotBlock THEN "zero" ELSE "none"])
  /\ UNCHANGED <<flags, fds, lists, signals, kernel, left>>

RunEvent(e) ==
  /\ InOnce("events") /\ e \in Top.todo
  /\ equeue' = [equeue EXCEPT ![e] = "none"]
  /\ stack' = SubSeq(Dequeued(e), 1, Len(stack) - 1)
              \o <<[Top EXCEPT !.todo = @ \ {e}, !.ran = TRUE], User("event", -1)>>
  /\ UNCHANGED <<flags, fds, funcs, demand, signals, kernel, left>>

\* The mutant forgets that events ran, which may have changed anything.
SelectArgNothingRan ==
  IF Top.timeout = "zero" \/ funcs \cap Idle # {} THEN "zero"
  ELSE IF Queued = {} /\ ~Top.usedelta THEN "forever"
  ELSE "finite"
\* The mutant forgets the queue.
SelectArgNoDelta ==
  IF Top.timeout = "zero" \/ Top.ran \/ funcs \cap Idle # {} THEN "zero"
  ELSE IF ~Top.usedelta THEN "forever"
  ELSE "finite"

SelectArg ==
  IF Top.timeout = "zero" \/ Top.ran \/ funcs \cap Idle # {} THEN "zero"
  ELSE IF Queued = {} /\ ~Top.usedelta THEN "forever"
  ELSE "finite"

\* frame when select has returned ret and left sets behind.
AfterSelect(frame, ret, sets) ==
  [frame EXCEPT !.ret = ret, !.copy = sets, !.x = 0,
                !.pc = IF ret > 0 THEN "dispatch" ELSE IF frame.ran THEN "signals" ELSE "idle",
                !.todo = IF ret > 0 \/ frame.ran THEN {} ELSE funcs \cap Idle]

\* The events are done: find the timeout and copy the sets, which are the
\* interests of now.  With nothing to select for there is no select.
PrepareSelect ==
  /\ InOnce("events") /\ Top.todo = {} /\ ~abort
  /\ LET frame == [Top EXCEPT !.timeout = SelectArg, !.copy = want,
                              !.ret = IF Queued = {} THEN 0 ELSE 1]
     IN IF frame.timeout = "zero" /\ want = NoFds
        THEN Become(AfterSelect(frame, 0, want))
        ELSE Become([frame EXCEPT !.pc = "select"])
  /\ UNCHANGED <<flags, fds, lists, signals, kernel, left>>

\* bk_run_signal_ihandler, for every signal held back.
Deliver ==
  /\ signums' = [s \in Sig |-> IF s \in pending THEN signums[s] + 1 ELSE signums[s]]
  /\ beensignaled' = (beensignaled \/ pending # {})
  /\ pending' = {}

\* Nothing could ever end this select.
Dead == selectn = 0 /\ Top.timeout = "forever" /\ ~AllowDead

DeadSelect ==
  /\ InOnce("select") /\ Dead
  /\ over' = TRUE
  /\ Become(AfterSelect(Top, Top.ret, Top.copy))
  /\ UNCHANGED <<dontblock, abort, fds, lists, signals, kernel, left>>

\* select returns ret and sets; it is the latest of all.
Selected(ret, sets, reported) ==
  stack' = Append(SubSeq(Outdated, 1, Len(stack) - 1),
                  [AfterSelect(Top, ret, sets) EXCEPT !.told = reported, !.fresh = TRUE])

SelectReady ==
  /\ InOnce("select") /\ ~Dead
  /\ LET reported == Reported(Top.copy)
     IN reported # NoFds /\ Selected(Bits(reported), reported, reported)
  /\ UNCHANGED <<flags, fds, lists, signals, kernel, left>>

SelectTimeout ==
  /\ InOnce("select") /\ ~Dead
  /\ Reported(Top.copy) = NoFds /\ Top.timeout # "forever" /\ pending = {}
  /\ Selected(0, NoFds, NoFds)
  /\ UNCHANGED <<flags, fds, lists, signals, kernel, left>>

\* EINTR, which leaves the sets alone.
SelectInterrupted ==
  /\ InOnce("select") /\ ~Dead /\ pending # {}
  /\ Deliver
  /\ Selected(-1, Top.copy, NoFds)
  /\ UNCHANGED <<flags, fds, lists, handled, crashed, ready, left>>

\* Any other error, such as a descriptor closed behind the back of bk_run.
SelectFails ==
  /\ InOnce("select") /\ ~Dead /\ Spend("badfd")
  /\ Become([Top EXCEPT !.pc = "error"])
  /\ UNCHANGED <<flags, fds, lists, signals, kernel>>

\* What bk_run_once takes fd to be ready for.
Activity(fd) == Top.copy[fd] \cap want[fd]
\* The mutant stops one short.
ActiveShort == {fd \in Fd : Top.x <= fd /\ fd < selectn - 1 /\ Activity(fd) # {}}
Active == {fd \in Fd : Top.x <= fd /\ fd < selectn /\ Activity(fd) # {}}

DispatchTo(fd) ==
  /\ InOnce("dispatch") /\ ~abort /\ Top.ret > 0
  /\ fd \in Active /\ fd = Least(Active)
  /\ LET frame == [Top EXCEPT !.x = fd + 1, !.ret = @ - 1]
     IN IF fd \in assoc THEN CallFrom(frame, User("fd", fd)) ELSE Become(frame)
  /\ UNCHANGED <<flags, fds, lists, signals, kernel, left>>

EndDispatch ==
  /\ InOnce("dispatch") /\ ~abort
  /\ Top.ret = 0 \/ Active = {}
  /\ Become([Top EXCEPT !.pc = "signals"])
  /\ UNCHANGED <<flags, fds, lists, signals, kernel, left>>

EndIdle ==
  /\ InOnce("idle") /\ Top.todo = {}
  /\ Become([Top EXCEPT !.pc = "signals"])
  /\ UNCHANGED <<flags, fds, lists, signals, kernel, left>>

\* The mutant goes through the signals above 1 only.
ScanSignalsAbove ==
  /\ InOnce("signals") /\ beensignaled
  /\ beensignaled' = FALSE
  /\ Become([Top EXCEPT !.pc = "scan", !.x = 2])
  /\ UNCHANGED <<flags, fds, lists, handled, signums, crashed, kernel, left>>

ScanSignals ==
  /\ InOnce("signals") /\ beensignaled
  /\ beensignaled' = FALSE
  /\ Become([Top EXCEPT !.pc = "scan", !.x = 1])
  /\ UNCHANGED <<flags, fds, lists, handled, signums, crashed, kernel, left>>

Raised == {s \in Sig : Top.x <= s /\ signums[s] > 0}

CallSignalHandler ==
  /\ InOnce("scan") /\ ~crashed /\ Raised # {}
  /\ LET s == Least(Raised)
     IN /\ signums' = [signums EXCEPT ![s] = @ - 1]
        /\ CallFrom([Top EXCEPT !.x = s], User("signal", -1))
        /\ crashed' = (s \notin handled)
  /\ UNCHANGED <<flags, fds, lists, handled, beensignaled, kernel, left>>

EndScan ==
  /\ InOnce("scan") /\ Raised = {}
  /\ Become([Top EXCEPT !.pc = "signals"])
  /\ UNCHANGED <<flags, fds, lists, signals, kernel, left>>

\* The mutant does not tell an outer bk_run_once.
LeaveFlagsSilently == UNCHANGED abort /\ dontblock' = FALSE /\ UNCHANGED over
\* Every way out of bk_run_once.
LeaveFlags == abort' = TRUE /\ dontblock' = FALSE /\ UNCHANGED over

Finish ==
  /\ InOnce("signals") /\ ~beensignaled
  /\ stack' = Below /\ LeaveFlags
  /\ UNCHANGED <<fds, lists, signals, kernel, left>>

\* Another bk_run_once ran inside this one.
AbortRunOnce ==
  /\ abort
  /\ \/ \E pc \in {"demand", "poll", "events"} : InOnce(pc) /\ Top.todo = {}
     \/ InOnce("dispatch")
  /\ stack' = Below /\ LeaveFlags
  /\ UNCHANGED <<fds, lists, signals, kernel, left>>

\* bk_run_once fails; bk_run_run then fails too.
Error ==
  /\ InOnce("error")
  /\ LET n == Len(stack) - 1
     IN stack' = SubSeq(stack, 1, IF stack[n].kind = "run" THEN n - 1 ELSE n)
  /\ LeaveFlags
  /\ UNCHANGED <<fds, lists, signals, kernel, left>>
-----------------------------------------------------------------------------
(* The world outside. *)

Arrive(fd, t) ==
  /\ fd \in assoc /\ ~crashed
  /\ ready' = [ready EXCEPT ![fd] = @ \cup {t}]
  /\ UNCHANGED <<stack, flags, fds, lists, signals, pending, left>>

ClockReaches(e) ==
  /\ equeue[e] = "later" /\ ~crashed
  /\ equeue' = [equeue EXCEPT ![e] = "due"]
  /\ UNCHANGED <<stack, flags, fds, funcs, demand, signals, kernel, left>>

Kill(s) ==
  /\ Spend("kill") /\ s \in handled \ pending
  /\ pending' = pending \cup {s}
  /\ UNCHANGED <<stack, flags, fds, lists, signals, ready>>
-----------------------------------------------------------------------------
ProgramCalls ==
  \/ \E fd \in Fd, wanted \in SUBSET Type : Handle(fd, wanted) \/ Setpref(fd, wanted)
  \/ \E fd \in Fd, tell \in BOOLEAN : Close(fd, tell)
  \/ \E e \in Event : Enqueue(e) \/ Dequeue(e)
  \/ \E f \in Poll \cup Idle \cup Demand : AddFunc(f) \/ RemoveFunc(f)
  \/ \E f \in Demand : SetDemand(f)
  \/ \E s \in Sig, enable, clear \in BOOLEAN : Signal(s, enable, clear)
  \/ SetRunOver \/ SetDontBlock
  \/ RunRun
  \/ \E noblock \in BOOLEAN : RunOnce(noblock)
  \/ ReturnFailure

Returns == Return \/ ReturnDelta \/ ReturnFromClose

LoopSteps ==
  \/ RunTurn
  \/ \E pc \in {"demand", "poll", "idle"}, f \in Func : Visit(pc, f)
  \/ EndDemand \/ EndPoll
  \/ \E e \in Event : RunEvent(e)
  \/ PrepareSelect \/ DeadSelect
  \/ SelectReady \/ SelectTimeout \/ SelectInterrupted
  \/ \E fd \in Fd : DispatchTo(fd)
  \/ EndDispatch \/ EndIdle
  \/ ScanSignals \/ CallSignalHandler \/ EndScan
  \/ Finish \/ AbortRunOnce \/ Error

World ==
  \/ \E fd \in Fd, t \in Type : Arrive(fd, t)
  \/ \E e \in Event : ClockReaches(e)
  \/ \E s \in Sig : Kill(s)
  \/ SelectFails

Next == ProgramCalls \/ Returns \/ LoopSteps \/ World
Spec == Init /\ [][Next]_vars
\* The program's functions return and the loop goes on.
LiveSpec == Spec /\ WF_vars(Returns \/ LoopSteps)
-----------------------------------------------------------------------------
Pc == {"demand", "poll", "events", "select", "dispatch", "idle",
       "signals", "scan", "error"}
UserFrame == [kind : {"user"}, why : {"main", "demand", "poll", "idle", "event", "fd",
                                      "close", "signal"}, fd : Fd \cup {-1}]
OnceFrame ==
  [kind : {"once"}, pc : Pc, noblock : BOOLEAN, todo : SUBSET Func,
   usedelta : BOOLEAN, ran : BOOLEAN,
   timeout : {"none", "zero", "finite", "forever"}, ret : Int,
   copy : [Fd -> SUBSET Type], told : [Fd -> SUBSET Type], x : Int, fresh : BOOLEAN]

TypeOK ==
  /\ stack \in Seq(UserFrame \cup OnceFrame \cup [kind : {"run"}])
  /\ over \in BOOLEAN /\ dontblock \in BOOLEAN /\ abort \in BOOLEAN
  /\ assoc \subseteq Fd /\ selectn \in 0 .. MaxFd + 1
  /\ want \in [Fd -> SUBSET Type] /\ wish \in [Fd -> SUBSET Type]
  /\ equeue \in [Event -> {"none", "later", "due"}]
  /\ funcs \subseteq Poll \cup Idle \cup Demand /\ demand \subseteq Demand
  /\ handled \subseteq Sig /\ signums \in [Sig -> Nat]
  /\ beensignaled \in BOOLEAN /\ crashed \in BOOLEAN
  /\ ready \in [Fd -> SUBSET Type] /\ pending \subseteq Sig
  /\ left \in 0 .. Budget

\* No handler is called on what an earlier select reported when another
\* bk_run_once has run, and selected, since: "immediately aborts the current
\* run (therefore will not attempt to process any more "dead" state)".
NoDeadState == [][\A fd \in Fd : DispatchTo(fd) => Top.fresh]_vars

\* The loop goes to sleep only if the run is not over, no call of bk_run_once is
\* to return at once and no function waits for an idle loop, whatever the events
\* it has just run did to all that after the timeout was first found; and it
\* sleeps for ever only with no event queued.
SleepsOnlyWithNothingToDo ==
  InOnce("select") =>
    /\ Top.timeout # "zero" => ~over /\ ~dontblock /\ funcs \cap Idle = {}
    /\ Top.timeout = "forever" => Queued = {}

\* The handler of descriptor fd is being told of its close.
BeingClosed(fd) == \E i \in DOMAIN stack : stack[i] = User("close", fd)

\* Every registered descriptor is one select looks at, for what was last asked
\* for, and select looks only at registered ones or at one whose handler is being
\* told of its close.
SelectMatchesRegistry ==
  /\ \A fd \in assoc : fd < selectn /\ want[fd] = wish[fd]
  /\ \A fd \in Fd : want[fd] # {} =>
       fd \in assoc \/ BeingClosed(fd)

\* The program registers no number anew meanwhile: bk_run_close ends by clearing
\* the interests of whoever has the number by then.
Rest == \A fd \in assoc' \ assoc : ~BeingClosed(fd)
NumbersRest == [][Rest]_vars

\* What a pass leaves behind: no descriptor that select reported, whose
\* registration is still the one it was, and that the program still wants, is
\* passed over, whatever the handlers of others open, close and ask for.
NonePassedOver ==
  [][EndDispatch => \A fd \in assoc : Top.told[fd] \cap want[fd] # {} => fd < Top.x]_vars

\* A handler is called only for what select reported of this very registration.
\* Not so: a handler that closes a descriptor and opens another of the same
\* number gets the pass to tell the new one what the old one was ready for.
ToldTheTruth ==
  [][\A fd \in Fd : DispatchTo(fd) /\ fd \in assoc
                    => Activity(fd) \subseteq Top.told[fd] \cap want[fd]]_vars

LoopRuns == ~crashed /\ \E i \in DOMAIN stack : stack[i].kind = "run"
In(why, fd) == \E i \in DOMAIN stack : stack[i] = User(why, fd)

\* An event that is due runs, is dequeued, or the loop ends.
EventRuns == \A e \in Event : (e \in Due /\ LoopRuns) ~> (e \notin Due \/ ~LoopRuns)

\* A descriptor that stays ready and watched gets its handler called.
FdServed ==
  \A fd \in Fd : (LoopRuns /\ want[fd] \cap ready[fd] # {})
                 ~> (In("fd", fd) \/ ~LoopRuns \/ want[fd] \cap ready[fd] = {})

\* The handlers of a signal that was taken are called as often as it was.
RaisedServed == \A s \in Sig : (LoopRuns /\ signums[s] > 0) ~> (signums[s] = 0 \/ ~LoopRuns)
=============================================================================
