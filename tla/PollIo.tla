------------------------------- MODULE PollIo -------------------------------
(***************************************************************************)
(* lib/b_pollio.c: reading and writing an ioh as if it blocked.  The       *)
(* handler of the ioh, called from bk_run_once, queues what comes and      *)
(* counts what has gone; bk_polling_io_read and _write look at the queue   *)
(* and the count, and call bk_run_once in between.  When it is Threaded    *)
(* another thread calls bk_run_once, and they sleep on a condition.        *)
(***************************************************************************)
EXTENDS Integers, Sequences, SequencesExt

CONSTANTS
  Threaded,
  Sync, Linger,    \* BK_POLLING_SYNC, BK_POLLING_LINGER of bk_polling_io_create
  Input,           \* what the peer sends: records, then "eof" or "read error"
  ReadMax,         \* biq_queuemax of the input, in records
  WriteMax,        \* how many buffers the ioh queues for output
  Writes,          \* how many buffers the program writes; bounds the model
  DiesInUse,       \* whether the ioh may go while a call waits for its output or is
                   \* about to allow or forbid it to read
  OwnThread        \* whether the thread that throttles is another than the one that
                   \* reads, writes and closes

VARIABLES
  bpi,             \* the struct bk_polling_io
  pid,             \* bpi_data: records and statuses, oldest first
  src,             \* the ioh: what it has read, its allowed reading, output, life
  prog,            \* what the program is doing
  user,            \* where in bk_polling_io_throttle or _unthrottle it is, and
                   \* whether it throttles
  got,             \* history: the records bk_polling_io_read returned
  wildBpi          \* a bpi or an ioh was used when it was gone

pvars == <<bpi, pid, src, prog, user, got, wildBpi>>

Records == SelectSeq(Input, LAMBDA x : x \notin {"eof", "read error"})
IsRecord(x) == x \notin {"eof", "read error", "write error", "closing"}
Size == Len(SelectSeq(pid, IsRecord))                       \* bpi_size

Init ==
  /\ bpi = [flags |-> {"DONT_DESTROY"} \cup (IF Linger THEN {"LINGER"} ELSE {}),
            throttle |-> 0, outstanding |-> 0, alive |-> TRUE]
  /\ pid = <<>>
  /\ src = [read |-> 0, allowed |-> TRUE, out |-> 0, life |-> "open", written |-> 0]
  /\ prog = [pc |-> "idle", timeout |-> "none", armed |-> FALSE]
  /\ user = [pc |-> "idle", throttles |-> 0]
  /\ got = <<>> /\ wildBpi = FALSE

Flag(f) == f \in bpi.flags
With(f) == bpi.flags \cup {f}
Pc(pc) == prog.pc = pc
To(pc) == prog' = [prog EXCEPT !.pc = pc]
Return == prog' = [prog EXCEPT !.pc = "idle", !.armed = FALSE]

\* The ioh calls its handler from bk_run_once, or from the thread that does.
Running == bpi.alive /\ src.life # "gone" /\ (Threaded \/ prog.pc \in {"read run", "write run", "sync run", "linger run"})
\* pthread_cond_broadcast
Wake(pc) == prog' = IF Pc(pc) THEN [prog EXCEPT !.pc = IF pc = "read sleep" THEN "read" ELSE "write"] ELSE prog

\* bk_polling_io_throttle and _unthrottle, called with bpi_lock held
Throttle(b, s) == [b |-> [b EXCEPT !.throttle = @ + 1], s |-> [s EXCEPT !.allowed = @ /\ b.throttle # 0]]
Unthrottle(b, s) ==
  LET left == IF b.throttle = 0 THEN 0 ELSE b.throttle - 1
  IN IF "READ_DEAD" \in b.flags THEN [b |-> b, s |-> s]
     ELSE [b |-> [b EXCEPT !.throttle = left], s |-> [s EXCEPT !.allowed = @ \/ b.throttle = 1]]

\* The thread that throttles is somewhere in it.
ThrottlesAt(pc) == user.pc = pc
Free == OwnThread \/ ThrottlesAt("idle")
-----------------------------------------------------------------------------
(* polling_io_ioh_handler *)

\* The mutant throttles when the queue is over its limit only.
OverFull(n) == n > ReadMax
Full(n) == n >= ReadMax

GotData ==
  /\ Running /\ src.allowed /\ src.life \in {"open", "write dead"} /\ src.read < Len(Input) /\ IsRecord(Input[src.read + 1])
  /\ LET s == [src EXCEPT !.read = @ + 1]
         b == [bpi EXCEPT !.flags = @ \cup {"SELF_THROTTLE"}]
     IN /\ pid' = Append(pid, Input[s.read])
        /\ IF Full(Size + 1) THEN bpi' = Throttle(b, s).b /\ src' = Throttle(b, s).s
           ELSE src' = s /\ UNCHANGED bpi
  /\ Wake("read sleep")
  /\ UNCHANGED <<got, wildBpi>>

GotEnd ==
  /\ Running /\ src.allowed /\ src.life \in {"open", "write dead"} /\ src.read < Len(Input) /\ ~IsRecord(Input[src.read + 1])
  /\ src' = [src EXCEPT !.read = @ + 1]
  /\ pid' = Append(pid, Input[src.read + 1])
  /\ bpi' = [bpi EXCEPT !.flags = With(IF Input[src.read + 1] = "eof" THEN "SAW_EOF" ELSE "READ_DEAD")]
  /\ Wake("read sleep")
  /\ UNCHANGED <<got, wildBpi>>

Written ==
  /\ Running /\ src.out > 0
  /\ src' = [src EXCEPT !.out = @ - 1]
  /\ bpi' = [bpi EXCEPT !.outstanding = @ - 1]
  /\ Wake("write sleep")
  /\ UNCHANGED <<pid, got, wildBpi>>

\* Each queued buffer is given back aborted before the error is told, and the
\* error is counted once more: bpi_wroutstanding wraps round.
WriteError ==
  /\ Running /\ src.life = "open" /\ src.out > 0
  /\ src' = [src EXCEPT !.out = 0, !.life = "write dead"]
  /\ bpi' = [bpi EXCEPT !.outstanding = @ - src.out - 1, !.flags = With("WRITE_DEAD")]
  /\ pid' = Append(pid, "write error")
  /\ Wake("read sleep")
  /\ UNCHANGED <<got, wildBpi>>

\* The ioh goes, having given back its output: with the bpi if it was closed by
\* bk_polling_io_close, otherwise the bpi is told.
IohGoes ==
  /\ Running \/ src.life = "closing"
  /\ src.life = "closing" => src.out = 0 \/ "DONT_LINGER" \in bpi.flags
  /\ DiesInUse \/ (prog.pc \notin {"linger", "linger run"} /\ user.pc \notin {"disallow", "allow"})
  /\ src' = [src EXCEPT !.life = "gone", !.out = 0]
  /\ IF ~Flag("DONT_DESTROY")
     THEN bpi' = [bpi EXCEPT !.alive = FALSE, !.outstanding = 0] /\ pid' = <<>> /\ UNCHANGED prog
     ELSE /\ bpi' = [bpi EXCEPT !.flags = With("IOH_DEAD"), !.outstanding = @ - src.out]
          /\ pid' = Append(pid, "closing")
          /\ Wake("read sleep")
  /\ UNCHANGED <<got, wildBpi>>

\* bpi_rdtimeout, bpi_wrtimeout
TimeoutFires ==
  /\ prog.pc \in {"read run", "write run"} /\ prog.armed
  /\ prog' = [prog EXCEPT !.armed = FALSE]
  /\ UNCHANGED <<bpi, pid, src, got, wildBpi>>

\* bk_run_once comes back, having done something or not.
RunReturns ==
  /\ prog.pc \in {"read run", "write run", "sync run", "linger run"}
  /\ To(CASE Pc("read run") -> "read" [] Pc("write run") -> "write" [] Pc("sync run") -> "sync" [] OTHER -> "linger")
  /\ UNCHANGED <<bpi, pid, src, got, wildBpi>>
-----------------------------------------------------------------------------
(* bk_polling_io_read *)

Timeouts == {"none", "some", "forever"}                     \* -1, > 0, 0

Read(timeout) ==
  /\ Pc("idle") /\ Free
  /\ prog' = [prog EXCEPT !.pc = "read", !.timeout = timeout, !.armed = timeout = "some" /\ ~Threaded]
  /\ UNCHANGED <<bpi, pid, src, got, wildBpi>>

TimedOut == ~Threaded /\ prog.timeout = "some" /\ ~prog.armed

\* Half the queue has to go before the ioh reads again; the mutant never lets it.
NeverAgain(n) == FALSE
HalfGone(n) == n <= ReadMax \div 2

ReadTakes ==
  /\ Pc("read") /\ pid # <<>>
  /\ pid' = Tail(pid)
  /\ IF IsRecord(Head(pid))
     THEN LET b == [bpi EXCEPT !.flags = @ \ {"SELF_THROTTLE"}] IN
          /\ got' = Append(got, Head(pid))
          /\ IF Flag("SELF_THROTTLE") /\ HalfGone(Size - 1)
             THEN bpi' = Unthrottle(b, src).b /\ src' = Unthrottle(b, src).s
             ELSE UNCHANGED <<bpi, src>>
     ELSE UNCHANGED <<got, bpi, src>>
  /\ Return
  /\ UNCHANGED wildBpi

\* The end was seen, or reading is over, or the program does not wait.
ReadGivesUp ==
  /\ Pc("read") /\ pid = <<>>
  /\ Flag("SAW_EOF") \/ Flag("READ_DEAD") \/ Flag("IOH_DEAD") \/ prog.timeout = "none" \/ TimedOut
  /\ Return
  /\ UNCHANGED <<bpi, pid, src, got, wildBpi>>

\* The queue is looked at with bpi_lock held, under which it is not changed.
ReadWaits ==
  /\ Pc("read") /\ pid = <<>>
  /\ ~(Flag("SAW_EOF") \/ Flag("READ_DEAD") \/ Flag("IOH_DEAD") \/ prog.timeout = "none" \/ TimedOut)
  /\ To(IF Threaded THEN "read about to sleep" ELSE "read run")
  /\ UNCHANGED <<bpi, pid, src, got, wildBpi>>

Sleeps ==
  /\ prog.pc \in {"read about to sleep", "write about to sleep"}
  /\ To(IF Pc("read about to sleep") THEN "read sleep" ELSE "write sleep")
  /\ UNCHANGED <<bpi, pid, src, got, wildBpi>>
-----------------------------------------------------------------------------
(* bk_polling_io_write *)

Write(timeout) ==
  /\ Pc("idle") /\ Free /\ src.written < Writes
  /\ IF Flag("WRITE_DEAD") \/ Flag("IOH_DEAD") THEN UNCHANGED prog
     ELSE prog' = [prog EXCEPT !.pc = "write", !.timeout = timeout, !.armed = timeout = "some" /\ ~Threaded]
  /\ UNCHANGED <<bpi, pid, src, got, wildBpi>>

\* The mutant counts what the ioh refused, too.
CountsAll(taken) == 1
Counts(taken) == IF taken THEN 1 ELSE 0

\* bk_ioh_write takes the buffer, or is full, or fails.
WriteTries ==
  /\ Pc("write")
  /\ LET taken == src.life = "open" /\ src.out < WriteMax IN
     IF taken \/ src.life # "open" \/ prog.timeout = "none" \/ TimedOut
     THEN /\ src' = [src EXCEPT !.out = IF taken THEN @ + 1 ELSE @, !.written = @ + 1]
          /\ bpi' = [bpi EXCEPT !.outstanding = @ + Counts(taken),
                                !.flags = IF src.life # "open" THEN With("WRITE_DEAD") ELSE @]
          /\ IF Sync /\ ~TimedOut THEN To("sync") ELSE Return
     ELSE To(IF Threaded THEN "write about to sleep" ELSE "write run") /\ UNCHANGED <<src, bpi>>
  /\ UNCHANGED <<pid, got, wildBpi>>

\* An unsigned count is positive when it is not zero.
SyncWaits ==
  /\ Pc("sync")
  /\ IF bpi.outstanding # 0 /\ ~Threaded THEN To("sync run") ELSE Return
  /\ UNCHANGED <<bpi, pid, src, got, wildBpi>>
-----------------------------------------------------------------------------
(* bk_polling_io_throttle and bk_polling_io_unthrottle of the program: the  *)
(* count is looked at before bpi_lock is taken, and the ioh allowed to read *)
(* after it was given back.                                                 *)

MayThrottle ==
  /\ ThrottlesAt("idle") /\ (OwnThread \/ Pc("idle"))
  /\ ~Flag("READ_DEAD") /\ src.life # "gone" /\ prog.pc \notin {"linger", "linger run", "closed"}

ThrottleTests ==
  /\ MayThrottle /\ user.throttles = 0
  /\ user' = [user EXCEPT !.pc = IF bpi.throttle = 0 THEN "disallow" ELSE "count"]
  /\ UNCHANGED <<bpi, pid, src, prog, got, wildBpi>>

ThrottleCounts ==
  /\ ThrottlesAt("count")
  /\ bpi' = [bpi EXCEPT !.throttle = @ + 1]
  /\ user' = [pc |-> "idle", throttles |-> 1]
  /\ UNCHANGED <<pid, src, prog, got, wildBpi>>

UnthrottleCounts ==
  /\ MayThrottle /\ user.throttles = 1
  /\ bpi' = [bpi EXCEPT !.throttle = IF @ = 0 THEN 0 ELSE @ - 1]
  /\ user' = [pc |-> IF bpi.throttle = 1 THEN "allow" ELSE "idle", throttles |-> 0]
  /\ UNCHANGED <<pid, src, prog, got, wildBpi>>

\* bk_ioh_readallowed
ThrottleAllows ==
  /\ user.pc \in {"disallow", "allow"}
  /\ src' = [src EXCEPT !.allowed = ThrottlesAt("allow")]
  /\ wildBpi' = (wildBpi \/ src.life = "gone")
  /\ user' = [user EXCEPT !.pc = IF ThrottlesAt("allow") THEN "idle" ELSE "count"]
  /\ UNCHANGED <<bpi, pid, prog, got>>

UserThrottles == ThrottleTests \/ ThrottleCounts \/ UnthrottleCounts \/ ThrottleAllows

\* bk_polling_io_close, with BK_POLLING_LINGER, _DONT_LINGER or neither: the input
\* is dropped and shut down.
Close(how) ==
  /\ Pc("idle") /\ ThrottlesAt("idle") /\ how \in {"", "LINGER", "DONT_LINGER"}
  /\ LET linger == (Flag("LINGER") \/ how = "LINGER") /\ how # "DONT_LINGER" /\ ~Flag("WRITE_DEAD")
         set == (bpi.flags \ {"LINGER"}) \cup (IF linger THEN {"LINGER"} ELSE {})
                \cup (IF how = "DONT_LINGER" \/ Flag("WRITE_DEAD") THEN {"DONT_LINGER"} ELSE {})
     IN bpi' = [bpi EXCEPT !.flags = set, !.alive = ~Flag("IOH_DEAD")]
  /\ pid' = <<>>
  /\ src' = [src EXCEPT !.read = Len(Input)]
  /\ To(IF Flag("IOH_DEAD") THEN "closed" ELSE "linger")
  /\ UNCHANGED <<got, wildBpi>>

\* It goes on when the output has drained or failed; the mutant forgets to.
NotLooked == TRUE
StillOpen == ~Flag("WRITE_DEAD")

LingerWaits ==
  /\ Pc("linger")
  /\ IF Flag("LINGER") /\ bpi.outstanding # 0 /\ StillOpen
     THEN To("linger run") /\ UNCHANGED <<bpi, src, wildBpi>>
     ELSE /\ To("closed")
          /\ bpi' = [bpi EXCEPT !.flags = @ \ {"DONT_DESTROY"}]
          /\ src' = [src EXCEPT !.life = IF @ = "gone" THEN @ ELSE "closing"]
          /\ wildBpi' = (wildBpi \/ src.life = "gone")
  /\ UNCHANGED <<pid, got>>
-----------------------------------------------------------------------------
IohDoes == GotData \/ GotEnd \/ Written \/ IohGoes
ProgDoes == \/ RunReturns \/ ReadTakes \/ ReadGivesUp \/ ReadWaits \/ Sleeps
            \/ WriteTries \/ SyncWaits \/ LingerWaits

Next ==
  \/ UserThrottles
  \/ /\ UNCHANGED user
     /\ \/ GotData \/ GotEnd \/ Written \/ WriteError \/ IohGoes \/ TimeoutFires \/ ProgDoes
        \/ \E t \in Timeouts : Read(t) \/ Write(t)
        \/ \E how \in {"", "LINGER", "DONT_LINGER"} : Close(how)

\* The peer sends and takes what there is to send and to take, if it is waited for
\* again and again.
Fairness == WF_pvars(ProgDoes /\ UNCHANGED user) /\ SF_pvars(GotData /\ UNCHANGED user) /\ SF_pvars(GotEnd /\ UNCHANGED user) /\ SF_pvars(Written /\ UNCHANGED user)
Spec == Init /\ [][Next]_pvars /\ Fairness
-----------------------------------------------------------------------------
\* What the program has read and what is queued for it is what was received, in
\* order, however often it is throttled; a close only drops the rest.
ReadInOrder ==
  /\ IsPrefix(got, Records)
  /\ Pc("closed") \/ Pc("linger") \/ Pc("linger run") \/
     got \o SelectSeq(pid, IsRecord) = SubSeq(Records, 1, Len(got) + Size)

\* The queue stays within its limit, the ioh reading exactly when nobody throttles it
\* or has just begun or ceased to, the count that of those who throttle; and while the
\* queue alone throttles it there is something to take out.
ThrottleBalanced ==
  bpi.alive /\ src.life = "open" =>
    /\ Size <= ReadMax
    /\ ThrottlesAt("idle") => (src.allowed <=> bpi.throttle = 0)
    /\ bpi.throttle = user.throttles + (IF Flag("SELF_THROTTLE") THEN 1 ELSE 0)
    /\ Flag("SELF_THROTTLE") /\ ~Flag("READ_DEAD") => Size > 0 \/ prog.pc \in {"closed", "linger", "linger run"}

\* bpi_wroutstanding is what the ioh still has to write, unless writing failed.
OutstandingTrue == bpi.alive /\ ~Flag("WRITE_DEAD") => bpi.outstanding = src.out

\* bk_polling_io_close leaves a bpi that goes with its ioh, and neither is used
\* when it is gone.
NoWildBpi == ~wildBpi /\ (src.life = "gone" /\ Pc("closed") => ~bpi.alive)

\* A read that waits comes back when the peer sends something or ends.
Reads == Pc("read") /\ user.throttles = 0
ReadReturns == Reads ~> Pc("idle")

\* A write, synchronous or not, and a close come back as well, unless writing fails.
WriteBack == Pc("idle") \/ Flag("WRITE_DEAD") \/ Flag("IOH_DEAD")
WriteComesBack == Pc("write") ~> WriteBack
CloseComesBack == Pc("linger") ~> Pc("closed")
=============================================================================
