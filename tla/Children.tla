------------------------------ MODULE Children ------------------------------
(***************************************************************************)
(* lib/b_child.c: the children a program starts, by the id it is given for *)
(* each and by the pid the system gave it.  SIGCHLD, of which any number   *)
(* look like one, makes the run call bk_child_isigfun, which takes what    *)
(* children have died or stopped, those of others included.                *)
(***************************************************************************)
EXTENDS Integers, Sequences, FiniteSets

CONSTANTS
  Pids,          \* what fork may return
  MaxId,         \* the largest int, after which bc_nextchild starts over at 1
  Starts,        \* how often a child is started; bounds the model
  Stops          \* how often a child stops; bounds the model

VARIABLES
  process,       \* pid -> its state in the system
  bchild,        \* bc_childidlist and bc_childpidlist hold the same children
  nextchild,     \* bc_nextchild
  sigchld,       \* the run has counted a SIGCHLD that it has not handled
  reaper,        \* where bk_child_isigfun is, and the child it has waited for
  childTold,     \* history: start -> what its callback was told
  childLeft      \* starts and stops left

chvars == <<process, bchild, nextchild, sigchld, reaper, childTold, childLeft>>

Idle == [pc |-> "idle", pid |-> "none", dead |-> FALSE]

Init ==
  /\ process = [p \in Pids |-> "free"]
  /\ bchild = {} /\ nextchild = 1
  /\ sigchld = FALSE /\ reaper = Idle
  /\ childTold = [n \in 1 .. Starts |-> <<>>]
  /\ childLeft = [starts |-> Starts, stops |-> Stops]

ReaperAt(pc) == reaper.pc = pc
Known(pid) == {bcc \in bchild : bcc.pid = pid}
After(id) == IF id = MaxId THEN 1 ELSE id + 1
-----------------------------------------------------------------------------
\* bc_nextchild skips the ids in use; the mutant takes whatever comes next.
NextAny(id) == id
RECURSIVE NextUnused(_)
NextUnused(id) == IF \E bcc \in bchild : bcc.id = id THEN NextUnused(After(id)) ELSE id

\* bk_child_istart, of the program or of a callback.  The system does not give the
\* pid of a child that is still being told of.
Start(pid) ==
  /\ ReaperAt("idle") \/ ReaperAt("callback")
  /\ childLeft.starts > 0 /\ process[pid] = "free" /\ Known(pid) = {}
  /\ LET id == NextUnused(nextchild) IN
     /\ bchild' = bchild \cup {[id |-> id, pid |-> pid, start |-> childLeft.starts]}
     /\ nextchild' = After(id)
  /\ process' = [process EXCEPT ![pid] = "running"]
  /\ childLeft' = [childLeft EXCEPT !.starts = @ - 1]
  /\ UNCHANGED <<sigchld, reaper, childTold>>

\* fork fails: the id is lost, nothing else.
StartFails ==
  /\ ReaperAt("idle") \/ ReaperAt("callback")
  /\ childLeft.starts > 0
  /\ nextchild' = After(NextUnused(nextchild))
  /\ childLeft' = [childLeft EXCEPT !.starts = @ - 1]
  /\ UNCHANGED <<process, bchild, sigchld, reaper, childTold>>

\* bk_pipe_to_process and bk_fork_exec fork without telling bk_child.
StartOther(pid) ==
  /\ ReaperAt("idle") /\ childLeft.starts > 0 /\ process[pid] = "free" /\ Known(pid) = {}
  /\ process' = [process EXCEPT ![pid] = "running"]
  /\ childLeft' = [childLeft EXCEPT !.starts = @ - 1]
  /\ UNCHANGED <<bchild, nextchild, sigchld, reaper, childTold>>
-----------------------------------------------------------------------------
(* The children *)

Exits(pid) ==
  /\ process[pid] \in {"running", "stopped", "stop seen"}
  /\ process' = [process EXCEPT ![pid] = "zombie"]
  /\ sigchld' = TRUE
  /\ UNCHANGED <<bchild, nextchild, reaper, childTold, childLeft>>

StopsItself(pid) ==
  /\ process[pid] = "running" /\ childLeft.stops > 0
  /\ process' = [process EXCEPT ![pid] = "stopped"]
  /\ sigchld' = TRUE
  /\ childLeft' = [childLeft EXCEPT !.stops = @ - 1]
  /\ UNCHANGED <<bchild, nextchild, reaper, childTold>>

Continues(pid) ==
  /\ process[pid] \in {"stopped", "stop seen"}
  /\ process' = [process EXCEPT ![pid] = "running"]
  /\ UNCHANGED <<bchild, nextchild, sigchld, reaper, childTold, childLeft>>
-----------------------------------------------------------------------------
(* bk_child_isigfun *)

HandlesSignal ==
  /\ ReaperAt("idle") /\ sigchld
  /\ sigchld' = FALSE
  /\ reaper' = [Idle EXCEPT !.pc = "wait"]
  /\ UNCHANGED <<process, bchild, nextchild, childTold, childLeft>>

Tell(pid, what) ==
  LET start == (CHOOSE bcc \in Known(pid) : TRUE).start
  IN childTold' = [childTold EXCEPT ![start] = Append(@, what)]

\* The mutant waits once for each signal.
WaitOnce == "idle"
WaitAgain == "wait"

\* waitpid gives a child that has died, or stopped and not been given before.
\* CC_WANT_NOTIFYSTOP is taken as set.
WaitGives(pid) ==
  /\ ReaperAt("wait") /\ process[pid] \in {"zombie", "stopped"}
  /\ process' = [process EXCEPT ![pid] = IF @ = "zombie" THEN "free" ELSE "stop seen"]
  /\ IF Known(pid) = {} THEN reaper' = [reaper EXCEPT !.pc = WaitAgain] /\ UNCHANGED childTold
     ELSE /\ Tell(pid, IF process[pid] = "zombie" THEN "dead" ELSE "stop")
          /\ reaper' = [pc |-> "callback", pid |-> pid, dead |-> process[pid] = "zombie"]
  /\ UNCHANGED <<bchild, nextchild, sigchld, childLeft>>

\* The child is forgotten when its callback is over.
CallbackReturns ==
  /\ ReaperAt("callback")
  /\ bchild' = IF reaper.dead THEN bchild \ Known(reaper.pid) ELSE bchild
  /\ reaper' = [Idle EXCEPT !.pc = WaitAgain]
  /\ UNCHANGED <<process, nextchild, sigchld, childTold, childLeft>>

WaitEnds ==
  /\ ReaperAt("wait") /\ \A pid \in Pids : process[pid] \notin {"zombie", "stopped"}
  /\ reaper' = Idle
  /\ UNCHANGED <<process, bchild, nextchild, sigchld, childTold, childLeft>>

Handler == HandlesSignal \/ CallbackReturns \/ WaitEnds \/ \E pid \in Pids : WaitGives(pid)

Next == \/ Handler \/ StartFails
        \/ \E pid \in Pids : Start(pid) \/ StartOther(pid) \/ Exits(pid) \/ StopsItself(pid) \/ Continues(pid)

Spec == Init /\ [][Next]_chvars /\ WF_chvars(Handler)
-----------------------------------------------------------------------------
\* Each child that is listed has an id and a pid of its own, and stands for a process
\* that is there, until it is told dead: also when ids have gone round.
ChildrenTrue ==
  /\ \A a, b \in bchild : a # b => a.id # b.id /\ a.pid # b.pid
  /\ \A bcc \in bchild : process[bcc.pid] # "free" \/ (ReaperAt("callback") /\ reaper.dead /\ reaper.pid = bcc.pid)

\* A child is told dead once, after its stops, and then never heard of.
ChildToldOnce ==
  \A n \in 1 .. Starts : \A i \in DOMAIN childTold[n] :
    childTold[n][i] = "dead" => i = Len(childTold[n]) /\ \A bcc \in bchild : bcc.start = n => ReaperAt("callback")

\* No dead child stays a zombie, whatever signals were counted as one.
NoZombieStays == \A pid \in Pids : process[pid] = "zombie" ~> process[pid] # "zombie"
=============================================================================
