-------------------------------- MODULE Ioh --------------------------------
(***************************************************************************)
(* One I/O handle of lib/b_ioh.c in the mode BK_IOH_RAW, in a program      *)
(* without threads: the queue of what is to be written, the handler that   *)
(* the run loop calls when the descriptor is ready, and the calls the      *)
(* program makes, from its main program and from the callback it gave.     *)
(*                                                                         *)
(* The C stack is the variable stack: activations of the ioh's functions   *)
(* and of the callback.  Nothing else interleaves, so one step runs up to  *)
(* the next callback or return.  The main program is the empty stack.      *)
(*                                                                         *)
(* A buffer is its identity and its number of bytes still to write; what   *)
(* is read is one bit, as bytes read are handed up at once in this mode.   *)
(***************************************************************************)
EXTENDS Integers, SequencesExt

CONSTANTS
  Buf,          \* what the program may write, each once
  None,
  BufLen,       \* bytes in a buffer
  QueueMax,     \* biq_queuemax of the output queue, 0 for no limit
  WriteAll,     \* BK_IOH_WRITE_ALL
  Calls,        \* place -> the calls the program makes there
  CloseTwice,   \* whether it calls bk_ioh_close for an ioh it has closed
  Budget,       \* how many calls it makes, writes not counted
  MaxReads,     \* how many times the descriptor is read
  MaxThrottle   \* how many parties throttle reading at a time

Status == {"WriteComplete", "WriteAborted", "WriteError", "ReadComplete",
           "IncompleteRead", "ReadEOF", "ReadError", "IohClosing"}
CallName == {"write", "bypass", "shutread", "shutwrite", "flush", "close",
             "abort", "throttle", "allow", "run", "rundestroy"}

ASSUME SizesAssumption == /\ BufLen \in Nat \ {0}
                          /\ {QueueMax, Budget, MaxReads, MaxThrottle} \subseteq Nat
ASSUME ModeAssumption  == {WriteAll, CloseTwice} \subseteq BOOLEAN /\ None \notin Buf
ASSUME CallsAssumption == Calls \in [Status \cup {"main"} -> SUBSET CallName]

VARIABLES
  stack,         \* the activations, the running one last
  intflags,      \* ioh_intflags
  deferred,      \* BK_IOH_ABORT of ioh_deferredclosearg
  writeq,        \* biq_queue of ioh_writeq
  queuelen,      \* biq_queuelen of ioh_writeq
  readq,         \* whether ioh_readq holds data
  throttle_cnt,  \* ioh_throttle_cnt
  want,          \* the run loop's preferences for the descriptors
  freed,         \* free(ioh) was done
  wild,          \* freed memory was used
  order, wire,   \* history: buffers accepted, and whose bytes were written
  told,          \* history: what the callback was told of each buffer
  left, reads    \* calls and reads left

ioh == <<intflags, deferred, throttle_cnt, freed, wild>>
queue == <<writeq, queuelen>>
history == <<order, wire>>
vars == <<stack, ioh, queue, readq, want, history, told, left, reads>>
-----------------------------------------------------------------------------
Flag == {"shutin", "shutout", "pend", "closing", "destroying", "errin", "errout",
         "closepending"}
Set(f) == f \cap intflags # {}

Cb(s, b) == [op |-> "callback", status |-> s, buf |-> b]
Frame(op, pc) == [op |-> op, pc |-> pc]
Handler(pc, ready) == [op |-> "handler", pc |-> pc, ready |-> ready]
Written(bytes, next, ready) ==
  [op |-> "dequeue", bytes |-> bytes, next |-> next, ready |-> ready]
Flush(collect, cmds) == [op |-> "flush", collect |-> collect, cmds |-> cmds]
Close(pc, abort) == [op |-> "close", pc |-> pc, abort |-> abort]
Shutdown(pc, how) == [op |-> "shutdown", pc |-> pc, how |-> how]
Destroy(pc) == Frame("destroy", pc)

Top == Last(stack)
Running(op) == stack # <<>> /\ Top.op = op
At(op, pc) == Running(op) /\ Top.pc = pc
Call(frames) == stack' = stack \o frames              \* on top of the running one
Become(frames) == stack' = Front(stack) \o frames     \* in its place
InCallback == \E i \in DOMAIN stack : stack[i].op = "callback"  \* ioh_incallback

\* The callback is told of b, and of nothing else that is counted.
Tell(s, b) == told' = [told EXCEPT ![b] = Append(@, s)]

Data(b, n) == [cmd |-> "None", buf |-> b, inuse |-> n]
Cmd(c) == [cmd |-> c, buf |-> None, inuse |-> 0]
IsData(bid) == bid.cmd = "None"

\* The commands that ioh_execute_ifspecial finds before the first data.
Leading(q) == SubSeq(q, 1, Min({i \in 1 .. Len(q) + 1 :
                                  i = Len(q) + 1 \/ IsData(q[i])} ) - 1)
\* The data before the first command, which one writev takes with WRITE_ALL.
DataRun(q) == SubSeq(q, 1, Min({i \in 1 .. Len(q) + 1 :
                                  i = Len(q) + 1 \/ ~IsData(q[i])} ) - 1)
Behind(q) == SubSeq(q, Len(Leading(q)) + 1, Len(q))
CmdsOf(q) == {q[i].cmd : i \in DOMAIN q}
Shuts(flags, cmds) ==
  IF "Shutdown" \in cmds THEN (flags \ {"pend"}) \cup {"shutout"} ELSE flags

Init ==
  /\ stack = <<>>
  /\ intflags = {} /\ deferred = FALSE
  /\ writeq = <<>> /\ queuelen = 0
  /\ readq = FALSE
  /\ throttle_cnt = 0
  /\ want = {"read"}
  /\ freed = FALSE /\ wild = FALSE
  /\ order = <<>> /\ wire = <<>>
  /\ told = [b \in Buf |-> <<>>]
  /\ left = Budget /\ reads = MaxReads
-----------------------------------------------------------------------------
(* The calls of the program. *)

Place == IF stack = <<>> THEN "main" ELSE Top.status
InProgram == ~wild /\ ~freed /\ (stack = <<>> \/ Running("callback"))
MayCall(c) == InProgram /\ c \in Calls[Place]
Spend == left > 0 /\ left' = left - 1

\* The mutant takes it that a queue which held nothing needs no call.
WriteWantedLate == IF queuelen > 0 THEN want \cup {"write"} ELSE want
WriteWanted == want \cup {"write"}

Full(n) == queuelen > 0 /\ QueueMax > 0 /\ n + queuelen > QueueMax

\* bk_ioh_write that is neither refused nor told that the queue is full
Write(b, bypass) ==
  /\ MayCall(IF bypass THEN "bypass" ELSE "write")
  /\ ~Set({"closing", "destroying", "errout", "shutout", "pend"})
  /\ bypass \/ ~Full(BufLen)
  /\ b \notin Range(order) /\ b = CHOOSE c \in Buf \ Range(order) : TRUE
  /\ writeq' = Append(writeq, Data(b, BufLen))
  /\ queuelen' = queuelen + BufLen
  /\ want' = WriteWanted
  /\ order' = Append(order, b)
  /\ UNCHANGED <<stack, ioh, readq, wire, told, left, reads>>

\* "We never permit throttle_cnt to dip below zero"; the mutant does.
FewerThanNone == throttle_cnt - 1
Fewer == Max({throttle_cnt - 1, 0})
\* The last one to throttle turns reads on; with the mutant anybody does.
AnyoneTurnsOn == TRUE
TurnsOn == throttle_cnt <= 1

Readallowed(allowed) ==
  /\ MayCall(IF allowed THEN "allow" ELSE "throttle") /\ Spend
  /\ ~Set({"shutin", "errin", "destroying"})
  /\ IF allowed
     THEN /\ throttle_cnt' = Fewer
          /\ want' = IF TurnsOn THEN want \cup {"read"} ELSE want \ {"read"}
     ELSE /\ throttle_cnt < MaxThrottle /\ throttle_cnt' = throttle_cnt + 1
          /\ want' = want \ {"read"}
  /\ UNCHANGED <<stack, intflags, deferred, freed, wild, queue, readq, history, told, reads>>

\* bk_ioh_flush; what is read is thrown away at once
FlushCall(how) ==
  /\ MayCall("flush") /\ Spend
  /\ ~Set({"destroying"})
  /\ readq' = IF "read" \in how THEN FALSE ELSE readq
  /\ IF "write" \in how THEN Call(<<Flush(TRUE, <<>>)>>) ELSE UNCHANGED stack
  /\ UNCHANGED <<ioh, queue, want, history, told, reads>>

\* What is left of the call when the part that is done already is taken off
Undone(how) == {h \in how : ~Set(IF h = "read" THEN {"shutin", "errin"}
                                 ELSE {"shutout", "errout", "pend"})}

ShutdownCall(how) ==
  /\ MayCall(IF "read" \in how THEN "shutread" ELSE "shutwrite") /\ Spend
  /\ ~Set({"closing", "destroying"}) /\ Undone(how) # {}
  /\ IF "read" \in Undone(how) /\ readq
     THEN Call(<<Shutdown("sentup", Undone(how)), Cb("IncompleteRead", None)>>)
     ELSE Call(<<Shutdown("queue", Undone(how))>>)
  /\ UNCHANGED <<ioh, queue, readq, want, history, told, reads>>

CloseCall(abort) ==
  /\ MayCall(IF abort THEN "abort" ELSE "close") /\ Spend
  /\ CloseTwice \/ abort \/ ~Set({"closing", "closepending"})
  /\ Call(<<Close("begin", abort)>>)
  /\ UNCHANGED <<ioh, queue, readq, want, history, told, reads>>

\* The run loop goes, and tells the handler of it: bk_ioh_close with ABORT.
RunDestroy ==
  /\ MayCall("rundestroy") /\ Spend
  /\ ~Set({"destroying"})
  /\ Call(<<Close("begin", TRUE)>>)
  /\ UNCHANGED <<ioh, queue, readq, want, history, told, reads>>

\* CALL_BACK takes ioh_incallback back, in an ioh that may be gone.
CallbackReturns ==
  /\ Running("callback") /\ ~wild
  /\ Become(<<>>)
  /\ wild' = freed
  /\ UNCHANGED <<intflags, deferred, throttle_cnt, freed, queue, readq, want, history, told,
                 left, reads>>
-----------------------------------------------------------------------------
(* bk_ioh_flush and bk_ioh_shutdown *)

\* The mutant frees data without a word, as if ioh_dequeue were given no ioh.
FlushNextSilent ==
  /\ Running("flush") /\ writeq # <<>>
  /\ writeq' = Tail(writeq) /\ queuelen' = queuelen - Head(writeq).inuse
  /\ Become(<<Flush(Top.collect, IF IsData(Head(writeq)) THEN Top.cmds
                                 ELSE Append(Top.cmds, Head(writeq).cmd))>>)
  /\ UNCHANGED <<ioh, readq, want, history, told, left, reads>>

\* ioh_flush_queue takes the first bid off the output queue: data goes back to
\* the program, commands are collected if somebody will execute them.
FlushNext ==
  /\ Running("flush") /\ writeq # <<>>
  /\ LET bid == Head(writeq) IN
       /\ writeq' = Tail(writeq) /\ queuelen' = queuelen - bid.inuse
       /\ IF IsData(bid)
          THEN Tell("WriteAborted", bid.buf) /\ Call(<<Cb("WriteAborted", bid.buf)>>)
          ELSE /\ Become(<<Flush(Top.collect, Append(Top.cmds, bid.cmd))>>)
               /\ UNCHANGED told
  /\ UNCHANGED <<ioh, readq, want, history, left, reads>>

\* The list is created for the first command, and only the others are put on it.
FlushEnd ==
  /\ Running("flush") /\ writeq = <<>>
  /\ LET cmds == IF Top.collect /\ Top.cmds # <<>> THEN Range(Tail(Top.cmds)) ELSE {} IN
       /\ intflags' = Shuts(intflags, cmds)
       /\ Become(IF "Close" \in cmds THEN <<Destroy("begin")>> ELSE <<>>)
  /\ UNCHANGED <<deferred, throttle_cnt, freed, wild, queue, readq, want, history, told,
                 left, reads>>

\* The rest of bk_ioh_shutdown: the command is queued, and executed at once if
\* nothing is before it.
ShutdownQueues ==
  /\ Running("shutdown")
  /\ LET how  == Top.how
         q    == IF "write" \in how THEN Append(writeq, Cmd("Shutdown")) ELSE writeq
         cmds == CmdsOf(Leading(q))
         f    == Shuts(intflags, cmds)
                 \cup (IF "read" \in how THEN {"shutin"} ELSE {})
                 \cup (IF "write" \notin how THEN {}
                       ELSE IF Behind(q) = <<>> THEN {"shutout"} ELSE {"pend"})
     IN
       /\ writeq' = Behind(q)
       /\ readq' = (readq /\ "read" \notin how)
       /\ IF "Close" \in cmds
          THEN /\ intflags' = Shuts(intflags, cmds)
               /\ Become(<<Destroy("begin")>>)
               /\ UNCHANGED want
          ELSE /\ intflags' = f \ {"closepending"}
               /\ Become(IF "closepending" \in f THEN <<Close("begin", deferred)>> ELSE <<>>)
               /\ want' = (IF "write" \in how /\ Behind(q) # <<>> THEN want \cup {"write"}
                                                                ELSE want)
                          \ (IF f \cap {"shutout", "errout"} # {} THEN {"write"} ELSE {})
  /\ UNCHANGED <<deferred, throttle_cnt, freed, wild, queuelen, history, told, left, reads>>
-----------------------------------------------------------------------------
(* ioh_close and bk_ioh_destroy *)

\* The mutant closes in the middle of a callback.
PutOffNever == FALSE
PutOff == InCallback

\* Put off while a callback is running, and done once unless aborted.
CloseBegin ==
  /\ At("close", "begin")
  /\ IF PutOff
     THEN /\ intflags' = intflags \cup {"closepending"}
          /\ deferred' = Top.abort
          /\ Become(<<>>) /\ UNCHANGED readq
     ELSE IF (Set({"closing"}) /\ ~Top.abort) \/ Set({"destroying"})
     THEN Become(<<>>) /\ UNCHANGED <<intflags, deferred, readq>>
     ELSE /\ intflags' = intflags \cup {"closing"}
          /\ readq' = (readq /\ ~Top.abort)
          /\ Become(<<Close("queue", Top.abort)>>
                    \o (IF Top.abort THEN <<Flush(FALSE, <<>>)>> ELSE <<>>))
          /\ UNCHANGED deferred
  /\ UNCHANGED <<throttle_cnt, freed, wild, queue, want, history, told, left, reads>>

\* The bk_ioh_readallowed after which bk_ioh_close leaves returns at once, as
\* SHUTDOWN_INPUT is set.
CloseQueues ==
  /\ At("close", "queue")
  /\ LET q == Append(writeq, Cmd("Close"))
         cmds == CmdsOf(Leading(q))
         f == intflags \cup {"shutin", "pend"}
     IN
       /\ writeq' = Behind(q)
       /\ intflags' = Shuts(f, cmds)
       /\ Become(IF "Close" \in cmds \/ Top.abort THEN <<Destroy("begin")>> ELSE <<>>)
       /\ want' = want \ ({"read"} \cup (IF Set({"shutout", "errout"}) THEN {"write"} ELSE {}))
  /\ UNCHANGED <<deferred, throttle_cnt, freed, wild, queuelen, readq, history, told, left, reads>>

\* The descriptors leave the run loop and are closed; the queues are flushed.
DestroyBegin ==
  /\ At("destroy", "begin")
  /\ IF Set({"destroying"})
     THEN Become(<<>>) /\ UNCHANGED <<intflags, want, readq>>
     ELSE /\ intflags' = intflags \cup {"destroying"}
          /\ want' = {} /\ readq' = FALSE
          /\ Become(<<Destroy("tell"), Flush(FALSE, <<>>)>>)
  /\ UNCHANGED <<deferred, throttle_cnt, freed, wild, queue, history, told, left, reads>>

DestroyTell ==
  /\ At("destroy", "tell")
  /\ Become(<<Destroy("free"), Cb("IohClosing", None)>>)
  /\ UNCHANGED <<ioh, queue, readq, want, history, told, left, reads>>

DestroyFree ==
  /\ At("destroy", "free")
  /\ freed' = TRUE
  /\ Become(<<>>)
  /\ UNCHANGED <<intflags, deferred, throttle_cnt, wild, queue, readq, want, history, told,
                 left, reads>>
-----------------------------------------------------------------------------
(* ioh_runhandler, called by the run loop or by a bk_run_once of the program *)

Masked == (IF Set({"shutin", "errin"}) THEN {"read"} ELSE {})
          \cup (IF Set({"shutout", "errout"}) THEN {"write"} ELSE {})
\* IOH_FLAGS_IN_WRITE
InWrite == \E i \in DOMAIN stack :
             \/ stack[i].op = "dequeue"
             \/ stack[i].op = "handler" /\ stack[i].pc \in {"writefailed", "wrote"}

Dispatch(ready) ==
  /\ ~freed /\ ~wild /\ ~Set({"destroying"})
  /\ \/ stack = <<>> /\ UNCHANGED left
     \/ MayCall("run") /\ Running("callback") /\ Spend
  /\ ready # {} /\ ready \subseteq want /\ ("read" \in ready => reads > 0)
  /\ want' = want \ (ready \cap Masked)
  /\ Call(<<Handler(IF "write" \in ready \ Masked /\ ~InWrite THEN "write" ELSE "read",
                    ready \ Masked)>>)
  /\ UNCHANGED <<ioh, queue, readq, history, told, reads>>

\* What one writev is given
Iov == IF WriteAll \/ writeq = <<>> THEN DataRun(writeq) ELSE DataRun(<<Head(writeq)>>)
ToWrite == FoldSeq(LAMBDA bid, n : bid.inuse + n, 0, Iov)
BytesOf(bids) == FlattenSeq([i \in DOMAIN bids |-> [j \in 1 .. bids[i].inuse |-> bids[i].buf]])

WriteSome(n) ==
  /\ At("handler", "write") /\ n \in 1 .. ToWrite
  /\ wire' = wire \o SubSeq(BytesOf(Iov), 1, n)
  /\ Become(<<Written(n, Head(writeq).buf, Top.ready)>>)
  /\ UNCHANGED <<ioh, queue, readq, want, order, told, left, reads>>

\* There is nothing to write, or no room for it.
WriteNothing ==
  /\ At("handler", "write")
  /\ Become(<<Handler("read", Top.ready)>>)
  /\ UNCHANGED <<ioh, queue, readq, want, history, told, left, reads>>

WriteFails ==
  /\ At("handler", "write") /\ ToWrite > 0
  /\ intflags' = intflags \cup {"errout"}
  /\ Become(<<Handler("writefailed", Top.ready), Flush(FALSE, <<>>)>>)
  /\ UNCHANGED <<deferred, throttle_cnt, freed, wild, queue, readq, want, history, told,
                 left, reads>>

WriteFailed ==
  /\ At("handler", "writefailed")
  /\ Become(<<Handler("wrote", Top.ready), Cb("WriteError", None)>>)
  /\ UNCHANGED <<ioh, queue, readq, want, history, told, left, reads>>

\* The mutant takes a buffer that was written in part for a whole one.
WholeAnyway(bid) == Top.bytes > 0
Whole(bid) == Top.bytes >= bid.inuse
\* The mutant does not count a part.
LenAfterWhole == queuelen
LenAfterPart == queuelen - Top.bytes

\* ioh_dequeue_byte, for a bid that it looked up before the last callback
DequeueByte ==
  /\ Running("dequeue") /\ Top.bytes > 0 /\ Top.next # None
  /\ IF \A i \in DOMAIN writeq : writeq[i].buf # Top.next
     THEN wild' = TRUE /\ UNCHANGED <<stack, queue, told>>
     ELSE LET i   == CHOOSE j \in DOMAIN writeq : writeq[j].buf = Top.next
              bid == writeq[i]
          IN
            /\ IF ~Whole(bid)
               THEN /\ writeq' = [writeq EXCEPT ![i].inuse = @ - Top.bytes]
                    /\ queuelen' = LenAfterPart
                    /\ Become(<<Written(0, None, Top.ready)>>)
                    /\ UNCHANGED told
               ELSE /\ writeq' = RemoveAt(writeq, i)
                    /\ queuelen' = queuelen - bid.inuse
                    /\ Tell("WriteComplete", bid.buf)
                    /\ Become(<<Written(Max({Top.bytes - bid.inuse, 0}),
                                        IF i < Len(writeq) THEN writeq[i + 1].buf ELSE None,
                                        Top.ready),
                                Cb("WriteComplete", bid.buf)>>)
            /\ UNCHANGED wild
  /\ UNCHANGED <<intflags, deferred, throttle_cnt, freed, readq, want, history, left, reads>>

\* The mutant stops asking for writability after every write.
AllWrittenAlways == TRUE
AllWritten == queuelen < 1

DequeueEnd ==
  /\ Running("dequeue") /\ (Top.bytes = 0 \/ Top.next = None)
  /\ want' = IF AllWritten THEN want \ {"write"} ELSE want
  /\ Become(<<Handler(IF WriteAll /\ DataRun(writeq) # <<>> THEN "write" ELSE "read",
                      Top.ready)>>)
  /\ UNCHANGED <<ioh, queue, readq, history, told, left, reads>>

Reading == Running("handler") /\ Top.pc \in {"read", "wrote"}
ReadReady == Reading /\ "read" \in Top.ready /\ reads > 0 /\ reads' = reads - 1

ReadSome ==
  /\ ReadReady
  /\ readq' = TRUE
  /\ Become(<<Handler("rmsg", {}), Cb("ReadComplete", None)>>)
  /\ UNCHANGED <<ioh, queue, want, history, told, left>>

\* The descriptor was not ready, after all or for want of asking.
ReadNothing ==
  /\ Reading
  /\ IF "read" \in Top.ready THEN ReadReady ELSE UNCHANGED reads
  /\ Become(<<Handler("end", {})>>)
  /\ UNCHANGED <<ioh, queue, readq, want, history, told, left>>

ReadEnds(status) ==
  /\ ReadReady
  /\ Become(<<Handler(status, {}), Cb(status, None)>>)
  /\ UNCHANGED <<ioh, queue, readq, want, history, told, left>>

\* After ReadComplete everything read was used.
Received ==
  /\ At("handler", "rmsg")
  /\ readq' = FALSE
  /\ Become(<<Handler("end", {})>>)
  /\ UNCHANGED <<ioh, queue, want, history, told, left, reads>>

ReadEnded ==
  /\ Running("handler") /\ Top.pc \in {"ReadEOF", "ReadError"}
  /\ intflags' = intflags \cup {"errin"}
  /\ want' = want \ {"read"}
  /\ Become(<<Handler(IF Top.pc = "ReadEOF" THEN "end" ELSE "failed", {})>>)
  /\ UNCHANGED <<deferred, throttle_cnt, freed, wild, queue, readq, history, told, left, reads>>

\* The mutant forgets the close.
ClosePendingNever == FALSE
ClosePending == Set({"closepending"})

\* A close that was put off is done now; an error of the input aborts the ioh;
\* or commands that have come to the front are executed.
HandlerEnd ==
  /\ Running("handler") /\ Top.pc \in {"end", "failed"}
  /\ IF ClosePending \/ Top.pc = "failed"
     THEN /\ Become(<<Close("begin", IF ClosePending THEN deferred ELSE TRUE)>>)
          /\ intflags' = intflags \ {"closepending"}
          /\ UNCHANGED writeq
     ELSE LET cmds == CmdsOf(Leading(writeq)) IN
          /\ writeq' = Behind(writeq)
          /\ intflags' = Shuts(intflags, cmds)
          /\ Become(IF "Close" \in cmds THEN <<Destroy("begin")>> ELSE <<>>)
  /\ UNCHANGED <<deferred, throttle_cnt, freed, wild, queuelen, readq, want, history, told,
                 left, reads>>
-----------------------------------------------------------------------------
Program ==
  \/ \E b \in Buf, bypass \in BOOLEAN : Write(b, bypass)
  \/ \E allowed \in BOOLEAN : Readallowed(allowed)
  \/ \E how \in SUBSET {"read", "write"} : how # {} /\ (FlushCall(how) \/ ShutdownCall(how))
  \/ \E abort \in BOOLEAN : CloseCall(abort)
  \/ RunDestroy

Internal ==
  \/ FlushNext \/ FlushEnd \/ ShutdownQueues
  \/ CloseBegin \/ CloseQueues \/ DestroyBegin \/ DestroyTell \/ DestroyFree
  \/ \E n \in 1 .. ToWrite : WriteSome(n)
  \/ WriteNothing \/ WriteFails \/ WriteFailed \/ DequeueByte \/ DequeueEnd
  \/ ReadSome \/ ReadNothing \/ Received \/ ReadEnded \/ HandlerEnd
  \/ \E status \in {"ReadEOF", "ReadError"} : ReadEnds(status)

Next == \/ Program \/ CallbackReturns
        \/ \E ready \in SUBSET {"read", "write"} : Dispatch(ready)
        \/ ~wild /\ Internal

Spec == Init /\ [][Next]_vars

\* Callbacks return and the ioh's functions go on; the run loop reports a
\* descriptor that is writable, and its peer reads.
LiveSpec ==
  /\ Spec
  /\ WF_vars(CallbackReturns \/ (~wild /\ Internal))
  /\ SF_vars(\E ready \in SUBSET {"read", "write"} : "write" \in ready /\ Dispatch(ready))
  /\ SF_vars(\E n \in 1 .. ToWrite : WriteSome(n))
-----------------------------------------------------------------------------
Activation ==
  [op : {"callback"}, status : Status, buf : Buf \cup {None}]
  \cup [op : {"handler"}, ready : SUBSET {"read", "write"},
        pc : {"read", "write", "writefailed", "wrote", "rmsg", "ReadEOF", "ReadError", "end",
              "failed"}]
  \cup [op : {"dequeue"}, bytes : Nat, next : Buf \cup {None}, ready : SUBSET {"read", "write"}]
  \cup [op : {"flush"}, collect : BOOLEAN, cmds : Seq({"Shutdown", "Close"})]
  \cup [op : {"close"}, pc : {"begin", "queue"}, abort : BOOLEAN]
  \cup [op : {"shutdown"}, pc : {"sentup", "queue"}, how : SUBSET {"read", "write"}]
  \cup [op : {"destroy"}, pc : {"begin", "tell", "free"}]
Bid == [cmd : {"None", "Shutdown", "Close"}, buf : Buf \cup {None}, inuse : 0 .. BufLen]

Types ==
  /\ stack \in Seq(Activation)
  /\ intflags \subseteq Flag /\ deferred \in BOOLEAN
  /\ writeq \in Seq(Bid)
  /\ queuelen \in Nat /\ throttle_cnt \in 0 .. MaxThrottle
  /\ {readq, freed, wild} \subseteq BOOLEAN
  /\ want \subseteq {"read", "write"}
  /\ order \in Seq(Buf)
  /\ told \in [Buf -> Seq({"WriteComplete", "WriteAborted"})]
  /\ left \in 0 .. Budget /\ reads \in 0 .. MaxReads
TypeOK == Types /\ wire \in Seq(Buf)

OnWire(b) == Len(SelectSeq(wire, LAMBDA c : c = b))
Queued(b) == \E i \in DOMAIN writeq : writeq[i].buf = b

\* The bytes that reached the descriptor are those of the buffers in the order
\* in which bk_ioh_write accepted them, all of them for a buffer that was told
\* complete, and never again a byte that partial writes already passed on: a
\* buffer is cut short only if it was aborted.
WireInOrder ==
  /\ \A i, j \in DOMAIN order : i < j /\ OnWire(order[j]) > 0 =>
       \/ OnWire(order[i]) = BufLen
       \/ told[order[i]] = <<"WriteAborted">>
  /\ \A i, j \in DOMAIN wire : i <= j => IndexFirstSubSeq(<<wire[i]>>, order)
                                        <= IndexFirstSubSeq(<<wire[j]>>, order)
  /\ \A b \in Buf : told[b] = <<"WriteComplete">> => OnWire(b) = BufLen
  /\ ~InWrite => \A i \in DOMAIN writeq :
                   IsData(writeq[i]) => OnWire(writeq[i].buf) + writeq[i].inuse = BufLen

\* A buffer that was accepted is on the output queue, or the program was told
\* once what became of it, and never more than once; so it is when the ioh is
\* gone, whatever the callbacks did meanwhile.
ToldOnce ==
  \A b \in Range(order) : Len(told[b]) + (IF Queued(b) THEN 1 ELSE 0) = 1

\* When the ioh waits for the run loop, what its output queue holds begins with
\* data, and the run loop was asked for writability: nothing is stuck.
NothingStuck ==
  stack = <<>> /\ ~freed /\ writeq # <<>> =>
     /\ IsData(Head(writeq))
     /\ "write" \in want
     /\ ~Set({"errout", "shutout"})

\* Reading is on exactly when everybody who throttled it allowed it again, and
\* biq_queuelen, by which writers are throttled, is what the queue holds.
ReadingTrue == ~Set({"shutin", "errin"}) => ("read" \in want <=> throttle_cnt = 0)
ThrottleTrue ==
  /\ ReadingTrue
  /\ queuelen = FoldSeq(LAMBDA bid, n : bid.inuse + n, 0, writeq)

\* No function of the ioh goes on in an ioh, or with a bid, that was freed.
NoWildPointer == ~wild

\* Every buffer that was accepted ends complete or aborted.
Drains == \A b \in Buf : b \in Range(order) ~> told[b] # <<>>

\* A close that was put off as a callback was running is done in the end.
CloseHappens == Set({"closepending"}) ~> (Set({"closing"}) \/ freed)
=============================================================================
