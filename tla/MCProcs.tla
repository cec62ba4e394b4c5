------------------------------ MODULE MCProcs ------------------------------
(***************************************************************************)
(* Threads, children and signals, one part beside the other: a behaviour   *)
(* is one of the part which names, and the rest stays as it began.         *)
(***************************************************************************)
EXTENDS Integers, Sequences

VARIABLES
  which,
  at, present, userid, raised, wanted, holder, selectcount, wakes, event, runOver, abortOnce, calls, stolen,
  where, creating, listed, marked, cancelled, btlLock, wildThread,
  process, bchild, nextchild, sigchld, reaper, childTold, childLeft,
  action, alarmSet, blocked, saved, sigLock, inSignal,
  counter, mutex, inside, locking,
  bfcs, runFlags, admin, other, registered, wildBfc, isCancelled, crossed,
  fds, pipeAt, pipeFds, asked, keeps,
  bpi, pid, src, prog, user, got, wildBpi
-----------------------------------------------------------------------------
\* A thread that runs bk_run_run and one that calls it
T == INSTANCE RunThreads WITH
  Runners <- {"r1"}, Users <- {"u"}, Funcs <- {"f"}, Fds <- {"d"},
  Calls <- {"setpref", "enqueue", "over", "remove"}, Budget <- 5
\* Two threads that run it, which a handler that closes itself may call
TPair == INSTANCE RunThreads WITH
  Runners <- {"r1", "r2"}, Users <- {"u"}, Funcs <- {"f"}, Fds <- {"d"},
  Calls <- {"setpref", "enqueue", "over", "remove", "selfclose"}, Budget <- 3
\* What one closed is registered anew, under the same number.
TAnew == INSTANCE RunThreads WITH
  Runners <- {"r1", "r2"}, Users <- {"u"}, Funcs <- {}, Fds <- {"d"},
  Calls <- {"setpref", "selfclose", "register"}, Budget <- 6

\* A thread reads, writes, throttles and closes while the run loop is in another.
P == INSTANCE PollIo WITH
  Threaded <- TRUE, Sync <- FALSE, Linger <- FALSE, Input <- <<"a", "b", "c", "eof">>,
  ReadMax <- 2, WriteMax <- 1, Writes <- 3, DiesInUse <- FALSE, OwnThread <- FALSE

\* Two administrators cancel one descriptor, or one of them two.
B == INSTANCE RunCancel WITH CancelFds <- {3}, Administrators <- {"a", "b"}, Again <- 1
BTwo == INSTANCE RunCancel WITH CancelFds <- {3, 4}, Administrators <- {"a"}, Again <- 2

\* The first thread makes three, which make others, and each may kill the others;
\* or two, which end as soon as they please.
L == INSTANCE ThreadList WITH
  Main <- "main", Kids <- {"k1", "k2", "k3"}, Killers <- {"main", "k1", "k2", "k3"}, Hasty <- FALSE
LHasty == INSTANCE ThreadList WITH
  Main <- "main", Kids <- {"k1", "k2", "k3"}, Killers <- {"main", "k1", "k2", "k3"}, Hasty <- TRUE

\* Two children, with pipes or pseudo terminals, of a program with all three
\* standard descriptors that is found in the first directory of the path; the second
\* is told to close what it inherits, or is not
X == INSTANCE PipeExec WITH
  Kids <- 2, OpenStd <- {0, 1, 2}, Extraneous <- <<{TRUE}, BOOLEAN>>,
  Callers <- {<<"exec", "none">>}, PtyOneWay <- FALSE,
  Path <- <<"d1", "d2">>, Found <- {{1}}
\* One child, of either function, what it prints tossed or not
XToss == INSTANCE PipeExec WITH
  Kids <- 1, OpenStd <- {0, 1, 2}, Extraneous <- <<BOOLEAN>>,
  Callers <- {"exec", "cmd"} \X {"none", "stdout", "stderr"}, PtyOneWay <- FALSE,
  Path <- <<"d1", "d2">>, Found <- {{1}}

\* Ids go round while the first child lives, or a child stops and goes on.
C == INSTANCE Children WITH Pids <- {"p1", "p2"}, MaxId <- 3, Starts <- 4, Stops <- 0
CStops == INSTANCE Children WITH Pids <- {"p1", "p2"}, MaxId <- 3, Starts <- 2, Stops <- 1

\* Two actions are held saved at once.
G == INSTANCE Signals WITH Handlers <- {"h1", "h2"}, Depth <- 2, Threads <- TRUE

K == INSTANCE RecursiveLock WITH Grabbers <- {"t1", "t2", "t3"}, MaxDepth <- 3
-----------------------------------------------------------------------------
threadsVars == <<at, present, userid, raised, wanted, holder, selectcount, wakes, event, runOver, abortOnce, calls, stolen>>
listVars == <<where, creating, listed, marked, cancelled, btlLock, wildThread>>
childrenVars == <<process, bchild, nextchild, sigchld, reaper, childTold, childLeft>>
signalsVars == <<action, alarmSet, blocked, saved, sigLock, inSignal>>
lockVars == <<counter, mutex, inside, locking>>
cancelVars == <<bfcs, runFlags, admin, other, registered, wildBfc, isCancelled, crossed>>
pipesVars == <<fds, pipeAt, pipeFds, asked, keeps>>
pollVars == <<bpi, pid, src, prog, user, got, wildBpi>>
procvars == <<which, threadsVars, listVars, childrenVars, signalsVars, lockVars, cancelVars, pipesVars, pollVars>>

Init ==
  /\ which \in {"threads", "two threads", "registered anew", "list", "list hasty", "children", "children stop", "signals", "lock",
                "cancel", "cancel two", "pipes", "tossed", "poll"}
  /\ CASE which = "two threads" -> TPair!Init [] which = "registered anew" -> TAnew!Init [] OTHER -> T!Init
  /\ IF which = "cancel two" THEN BTwo!Init ELSE B!Init
  /\ IF which = "tossed" THEN XToss!Init ELSE X!Init
  /\ P!Init
  /\ L!Init /\ G!Init /\ K!Init
  /\ IF which = "children stop" THEN CStops!Init ELSE C!Init
  /\ which # "signals" => action = "SIG_IGN"

\* What a step of the part named w leaves alone
Only(w) ==
  /\ which = w /\ UNCHANGED which
  /\ w \notin {"threads", "two threads", "registered anew"} => UNCHANGED threadsVars
  /\ w \notin {"list", "list hasty"} => UNCHANGED listVars
  /\ w \notin {"children", "children stop"} => UNCHANGED childrenVars
  /\ w # "signals" => UNCHANGED signalsVars
  /\ w # "lock" => UNCHANGED lockVars
  /\ w \notin {"cancel", "cancel two"} => UNCHANGED cancelVars
  /\ w \notin {"pipes", "tossed"} => UNCHANGED pipesVars
  /\ w # "poll" => UNCHANGED pollVars

Next ==
  \/ Only("threads") /\ T!Next
  \/ Only("two threads") /\ TPair!Next
  \/ Only("registered anew") /\ TAnew!Next
  \/ Only("cancel") /\ B!Next
  \/ Only("cancel two") /\ BTwo!Next
  \/ Only("pipes") /\ X!Next
  \/ Only("tossed") /\ XToss!Next
  \/ Only("poll") /\ P!Next
  \/ Only("list") /\ L!Next
  \/ Only("list hasty") /\ LHasty!Next
  \/ Only("children") /\ C!Next
  \/ Only("children stop") /\ CStops!Next
  \/ Only("signals") /\ G!Next
  \/ Only("lock") /\ K!Next

\* The fairness of each part, as its module states it.  As a behaviour is one
\* part's, the i-th fair action of each is taken together.
Weak(i) ==
  \/ i = 1 /\ Only("threads") /\ T!Runs("r1")
  \/ i = 2 /\ Only("threads") /\ T!Proceeds("u")
  \/ Only("list") /\ L!Proceeds(<<"main", "k1", "k2", "k3">>[i])
  \/ Only("list hasty") /\ LHasty!Proceeds(<<"main", "k1", "k2", "k3">>[i])
  \/ i = 1 /\ (Only("children") \/ Only("children stop")) /\ C!Handler

Spec == Init /\ [][Next]_procvars /\ \A i \in 1 .. 4 : WF_procvars(Weak(i))
-----------------------------------------------------------------------------
\* No function is run by two threads at once unless a runner gave back what another
\* held, and a runner that knows nothing of a descriptor is woken; a cancellation that
\* met no other is seen by the descriptor it is for, and by no other in any case; a
\* child is wired as it was asked to, and reads an end when its parent closes; what is
\* read, in another thread or not, is in order; no thread is cancelled after it ended,
\* and when the main thread killed the others it is alone; every child that is listed
\* is a process of its own, told of each change once; a call leaves the signal as
\* blocked as it was; and a recursive lock has one holder.
ProcsTrue ==
  /\ CASE which = "two threads" -> TPair!OneAtATime /\ TPair!StaleIsWoken
       [] which = "registered anew" -> TAnew!OneAtATime /\ TAnew!StaleIsWoken
       [] OTHER -> T!OneAtATime
  /\ IF which = "cancel two" THEN BTwo!CancelSeen /\ BTwo!NothingElseSeen
     ELSE B!CancelSeen /\ B!NothingElseSeen
  /\ IF which = "tossed" THEN XToss!ChildWired /\ XToss!NoSpareEnd
     ELSE X!ChildWired /\ X!EofReaches /\ X!NoSpareEnd
  /\ P!ReadInOrder /\ P!ThrottleBalanced /\ P!OutstandingTrue /\ P!NoWildBpi
  /\ L!AloneWhenKilled /\ (which = "list" => L!NoWildThread)
  /\ C!ChildrenTrue
  /\ IF which = "children stop" THEN CStops!ChildToldOnce ELSE C!ChildToldOnce
  /\ G!MaskRestored
  /\ K!Exclusive

\* What waits, and what it waits for: a descriptor that has input and is wanted,
\* and its being served; a close and its return; bk_thread_kill_others and its return in one thread;
\* a child that ended and its being reaped.
Pid(i) == <<"p1", "p2">>[i]
Waits(i) ==
  CASE which = "threads" -> IF i = 1 THEN "d" \in wanted \cap raised ELSE at["u"].obj = "d"
    [] which = "list" -> i = 1 /\ L!At("main", "checking")
    [] which \in {"children", "children stop"} -> process[Pid(i)] = "zombie"
    [] OTHER -> FALSE
Served(i) ==
  CASE which = "threads" -> IF i = 1 THEN "d" \notin wanted \cap raised \/ runOver ELSE at["u"].obj = T!NoOne
    [] which = "list" -> L!At("main", "gone") \/ \E t \in L!Thread : L!At(t, "alone")
    [] which \in {"children", "children stop"} -> process[Pid(i)] # "zombie"
    [] OTHER -> FALSE

\* What the parts promise: whoever waits is served; a function that was removed
\* is in no other thread when the call returns; an action that is not the
\* library's own stays when it is not to be replaced.
ProcPromises ==
  /\ \A i \in 1 .. 2 : Waits(i) ~> Served(i)
  /\ [][CASE which = "two threads" -> TPair!RemovedAlone [] which = "registered anew" -> TAnew!RemovedAlone
            [] OTHER -> T!RemovedAlone]_procvars
  /\ G!ForeignStays
=============================================================================
