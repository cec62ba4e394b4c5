------------------------------ MODULE PipeExec ------------------------------
(***************************************************************************)
(* lib/b_exec.c: a program run as a child with its standard descriptors on *)
(* pipes, or on a pseudo terminal, whose other ends the parent keeps.  The *)
(* children are started one after another; each has its own copy of what   *)
(* descriptors the parent had when it forked.                              *)
(***************************************************************************)
EXTENDS Integers, Sequences, FiniteSets

CONSTANTS
  Kids,          \* how many children are started
  OpenStd,       \* which of the descriptors 0 to 2 the parent has open
  Extraneous,    \* child -> values BK_EXEC_FLAG_CLOSE_CHILD_DESC takes
  Callers,       \* pairs: bk_pipe_to_exec or _cmd_tokenize, and what is to be tossed
  PtyOneWay,     \* a pseudo terminal is also asked for with one direction only
  Path,          \* the elements of PATH
  Found          \* sets of the places in Path where the program may be

VARIABLES
  fds,           \* process -> descriptor -> the file open there
  pipeAt,        \* child -> where its start is, in the parent and in the child
  pipeFds,       \* child -> the numbers of c2p and p2c
  asked,         \* child -> what the call was asked for
  keeps          \* child -> *fdinp and *fdoutp when the call returns

pxvars == <<fds, pipeAt, pipeFds, asked, keeps>>

FdLast == 13
Fds == 0 .. FdLast
Shut == <<"shut", 0>>
Program == 0                                         \* the process of the parent
Std(fd) == <<"std", fd>>
Opened == <<"opened", 0>>                            \* something of the parent's own
Null == <<"/dev/null", 0>>
FdIn == 0
FdOut == 1
FdErr == 2

Wants(n) == {w \in [inp : {"no", "new", "given"}, outp : {"no", "new", "given"}, errout : BOOLEAN,
                    pty : BOOLEAN, extraneous : Extraneous[n], unneeded : BOOLEAN, found : Found, caller : Callers] :
             /\ w.pty => PtyOneWay \/ (w.inp # "no" /\ w.outp # "no")
             /\ w.errout => w.inp # "no" /\ ~w.unneeded
             /\ w.caller[2] # "none" => ~w.unneeded}

Nothing == [inp |-> "no", outp |-> "no", errout |-> FALSE, pty |-> FALSE,
            extraneous |-> FALSE, unneeded |-> FALSE, found |-> {}, caller |-> <<"exec", "none">>]

Init ==
  /\ fds = [p \in 0 .. Kids |-> [fd \in Fds |-> IF p # Program THEN Shut
                                                ELSE IF fd \in OpenStd THEN Std(fd)
                                                ELSE IF fd = 3 THEN Opened ELSE Shut]]
  /\ pipeAt = [n \in 1 .. Kids |-> [program |-> "no", child |-> "no"]]
  /\ pipeFds = [n \in 1 .. Kids |-> [c2p |-> <<-1, -1>>, p2c |-> <<-1, -1>>]]
  /\ asked = [n \in 1 .. Kids |-> Nothing]
  /\ keeps = [n \in 1 .. Kids |-> [inp |-> -1, outp |-> -1]]

Free(tab) == {fd \in Fds : tab[fd] = Shut}
Lowest(tab) == CHOOSE fd \in Free(tab) : \A other \in Free(tab) : fd <= other
Opens(tab, file) == [tab EXCEPT ![Lowest(tab)] = file]
Close(tab, fd) == IF fd = -1 THEN tab ELSE [tab EXCEPT ![fd] = Shut]
Dup2(tab, from, to) == IF from = to THEN tab ELSE [tab EXCEPT ![to] = tab[from]]

\* The four ends of child n.  The two ends of a terminal are one file each.
End(n, which, w) == <<IF w.pty /\ which \in {"c2p0", "p2c1"} THEN "master"
                      ELSE IF w.pty THEN "slave" ELSE which, n>>
Ours(n) == {<<"c2p0", n>>, <<"p2c1", n>>, <<"master", n>>}
Its(n) == {<<"c2p1", n>>, <<"p2c0", n>>, <<"slave", n>>}
-----------------------------------------------------------------------------
(* bk_pipe_to_process *)

\* The ends are made as asked for; a terminal always has all of them.
RECURSIVE Make(_, _, _, _, _)
Make(n, w, order, tab, at) ==
  IF order = <<>> THEN [tab |-> tab, at |-> at]
  ELSE Make(n, w, Tail(order), Opens(tab, End(n, Head(order), w)), [at EXCEPT ![Head(order)] = Lowest(tab)])

Order(w) == IF w.pty THEN <<"p2c1", "p2c0", "c2p0", "c2p1">>
            ELSE (IF w.inp # "no" THEN <<"c2p0", "c2p1">> ELSE <<>>)
                 \o (IF w.outp # "no" THEN <<"p2c0", "p2c1">> ELSE <<>>)

Start(n, w) ==
  /\ pipeAt[n].program = "no" /\ \A m \in 1 .. n - 1 : pipeAt[m].program \in {"done", "left"}
  /\ LET made == Make(n, w, Order(w), fds[Program],
                      [c2p0 |-> -1, c2p1 |-> -1, p2c0 |-> -1, p2c1 |-> -1])
     IN /\ fds' = [fds EXCEPT ![Program] = made.tab, ![n] = made.tab]     \* fork
        /\ pipeFds' = [pipeFds EXCEPT ![n] = [c2p |-> <<made.at.c2p0, made.at.c2p1>>,
                                              p2c |-> <<made.at.p2c0, made.at.p2c1>>]]
  /\ asked' = [asked EXCEPT ![n] = w]
  /\ pipeAt' = [pipeAt EXCEPT ![n] = [program |-> "keeps", child |-> "wires"]]
  /\ UNCHANGED keeps

\* A pipe or the fork fails: what was made is closed.
StartFails(n) ==
  /\ pipeAt[n].program = "no" /\ \A m \in 1 .. n - 1 : pipeAt[m].program \in {"done", "left"}
  /\ pipeAt' = [pipeAt EXCEPT ![n].program = "left"]
  /\ UNCHANGED <<fds, pipeFds, asked, keeps>>

ChildTo(n, tab, at) ==
  /\ fds' = [fds EXCEPT ![n] = tab]
  /\ pipeAt' = [pipeAt EXCEPT ![n].child = at]
  /\ UNCHANGED <<pipeFds, asked, keeps>>

\* Descriptors that neither are standard nor belong to these pipes.  The mutant
\* closes none.
KeepAll(n, tab) == tab
CloseOthers(n, tab) ==
  IF ~asked[n].extraneous THEN tab
  ELSE [fd \in Fds |-> IF fd \in {FdIn, FdOut, FdErr} \/ \E i \in 1 .. 2 : fd \in {pipeFds[n].c2p[i], pipeFds[n].p2c[i]}
                       THEN tab[fd] ELSE Shut]

WiresIn(n, tab) ==
  LET p2c == pipeFds[n].p2c
      wired == Dup2(Close(tab, p2c[2]), p2c[1], FdIn)
  IN IF asked[n].outp = "no" THEN tab
     ELSE IF p2c[1] # FdIn THEN Close(wired, p2c[1]) ELSE wired

\* The mutant leaves the end it has put in place open elsewhere.
LeaveEnd(n, tab) == tab
CloseEnd(n, tab) ==
  LET w1 == pipeFds[n].c2p[2] IN
  IF w1 # FdOut /\ (~asked[n].errout \/ w1 # FdErr) THEN Close(tab, w1) ELSE tab

WiresOut(n, tab) ==
  LET c2p == pipeFds[n].c2p
      out == Dup2(Close(tab, c2p[1]), c2p[2], FdOut)
      err == IF asked[n].errout THEN Dup2(out, c2p[2], FdErr) ELSE out
  IN IF asked[n].inp = "no" THEN tab ELSE CloseEnd(n, err)

ClosesUnneeded(n, tab) ==
  LET w == asked[n]
      in == IF w.unneeded /\ w.outp = "no" THEN Close(tab, FdIn) ELSE tab
  IN IF w.unneeded /\ w.inp = "no" THEN Close(in, FdOut) ELSE in

\* The child's half; nobody else sees its table.
ChildHalf(n) ==
  /\ pipeAt[n].child = "wires"
  /\ ChildTo(n, ClosesUnneeded(n, WiresOut(n, WiresIn(n, CloseOthers(n, fds[n])))), "exec")

\* The parent's half: it keeps its ends, at the number it was given if there is one.
\* The mutant keeps those of the child too.
GivenIn == 11
GivenOut == 12
KeepBoth(tab, its, ours, want, given) == tab
Kept(tab, its, ours, want, given) ==
  IF want = "given" THEN Close(Dup2(Close(tab, its), ours, given), ours) ELSE Close(tab, its)

ProgramHalf(n) ==
  LET w == asked[n]  c2p == pipeFds[n].c2p  p2c == pipeFds[n].p2c
      in == IF w.inp = "no" THEN fds[Program] ELSE Kept(fds[Program], c2p[2], c2p[1], w.inp, GivenIn)
  IN /\ pipeAt[n].program = "keeps"
     /\ fds' = [fds EXCEPT ![Program] = IF w.outp = "no" THEN in ELSE Kept(in, p2c[1], p2c[2], w.outp, GivenOut)]
     /\ keeps' = [keeps EXCEPT ![n] = [inp |-> IF w.inp = "given" THEN GivenIn ELSE c2p[1],
                                       outp |-> IF w.outp = "given" THEN GivenOut ELSE p2c[2]]]
     /\ pipeAt' = [pipeAt EXCEPT ![n].program = "done"]
     /\ UNCHANGED <<pipeFds, asked>>
-----------------------------------------------------------------------------
(* bk_pipe_to_exec: the child becomes the program, and bk_search_path *)

\* Only an element that a separator follows is looked at.
Looked == 1 .. Len(Path) - 1
SearchPath(found) ==
  IF found \cap Looked = {} THEN 0 ELSE CHOOSE i \in found \cap Looked : \A j \in found \cap Looked : i <= j

\* bk_pipe_to_exec has what the child prints go nowhere before it becomes the
\* program; bk_pipe_to_cmd_tokenize takes the flags and does not look at them.
Toss(tab, fd) == LET null == Lowest(tab) IN Close(Dup2(Opens(tab, Null), null, fd), null)
ByExec(n, tab) ==
  CASE asked[n].caller[2] = "stderr" -> Toss(tab, FdErr)
    [] asked[n].caller[2] = "stdout" -> Toss(tab, FdOut)
    [] OTHER -> tab
ByCommand(n, tab) == tab
Becomes(n) == IF asked[n].caller[1] = "exec" THEN ByExec(n, fds[n]) ELSE ByCommand(n, fds[n])
Exec(n) ==
  /\ pipeAt[n].child = "exec"
  /\ ChildTo(n, IF SearchPath(asked[n].found) = 0 THEN [fd \in Fds |-> Shut] ELSE Becomes(n),
             IF SearchPath(asked[n].found) = 0 THEN "exited" ELSE "runs")
Exits(n) ==
  /\ pipeAt[n].child = "runs"
  /\ ChildTo(n, [fd \in Fds |-> Shut], "exited")

\* The program closes the end through which the child is written to.
ProgramCloses(n) ==
  /\ pipeAt[n].program = "done" /\ keeps[n].outp # -1
  /\ fds' = [fds EXCEPT ![Program] = Close(@, keeps[n].outp)]
  /\ keeps' = [keeps EXCEPT ![n].outp = -1]
  /\ UNCHANGED <<pipeAt, pipeFds, asked>>

Next == \E n \in 1 .. Kids :
  \/ \E w \in Wants(n) : Start(n, w)
  \/ StartFails(n)
  \/ ChildHalf(n) \/ Exec(n) \/ Exits(n)
  \/ ProgramHalf(n) \/ ProgramCloses(n)

Spec == Init /\ [][Next]_pxvars
-----------------------------------------------------------------------------
Runs(n) == pipeAt[n].child = "runs"

IsTossed(w, what) == w.caller = <<"exec", what>>
\* A child runs with the ends asked for where it looks for them, and with the
\* parent's files there otherwise, or with what is tossed going nowhere.
ChildWired ==
  \A n \in 1 .. Kids : Runs(n) =>
    LET w == asked[n]  tab == fds[n] IN
    /\ tab[FdIn] = IF w.outp # "no" THEN End(n, "p2c0", w) ELSE IF w.unneeded THEN Shut ELSE Std(0)
    /\ tab[FdOut] = IF IsTossed(w, "stdout") THEN Null ELSE IF w.inp # "no" THEN End(n, "c2p1", w) ELSE IF w.unneeded THEN Shut ELSE Std(1)
    /\ tab[FdErr] = IF IsTossed(w, "stderr") THEN Null ELSE IF w.errout THEN End(n, "c2p1", w) ELSE Std(2)

\* Whoever waits for the end of a pipe is told: no child holds its parent's end of its
\* own pipes, the parent holds no end of a child's, and a child holds nothing of the
\* pipes of another, except one that was not told to close what it inherits, which
\* holds its parent's ends of those made before it.
EofReaches ==
  /\ \A m \in 1 .. Kids : Runs(m) => \A fd \in Fds, n \in 1 .. Kids :
       fds[m][fd] \in Ours(n) \cup Its(n) =>
         \/ m = n /\ fds[m][fd] \in Its(n)
         \/ n < m /\ ~asked[m].extraneous /\ fds[m][fd] \in Ours(n)
  /\ \A n \in 1 .. Kids : pipeAt[n].program = "done" => \A fd \in Fds : fds[Program][fd] \notin Its(n)

\* A child holds its own ends at its standard descriptors and nowhere else.
NoSpareEnd ==
  \A n \in 1 .. Kids : Runs(n) => \A fd \in Fds : fds[n][fd] \in Its(n) => fd <= FdErr

\* A program that PATH has is found.
PathComplete == \A n \in 1 .. Kids : pipeAt[n].child = "exited" => asked[n].found = {} \/ SearchPath(asked[n].found) # 0
=============================================================================
