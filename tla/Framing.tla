------------------------------ MODULE Framing ------------------------------
(***************************************************************************)
(* lib/b_ioh.c: what the modes of an ioh make of a stream of bytes.  One   *)
(* ioh writes messages, raw, in blocks, each with its length in front or   *)
(* as lines; another of the same mode reads them and calls its handler.    *)
(* Every read and write may be short, a read may fail, and the handler may *)
(* throttle.  A write that fails, a close and threads are in Ioh.          *)
(***************************************************************************)
EXTENDS Integers, Sequences, SequencesExt, FiniteSetsExt

CONSTANTS
  Modes,         \* among "raw", "block", "vector", "line"
  Msgs,          \* mode -> the messages to be written, sequences of bytes, none empty
  Hint,          \* ioh_inbuf_hint: how much is read at once, and a block
  HeaderLen,     \* sizeof(u_int32_t), the length before a vector
  OutMaxBytes,   \* biq_queuemax of the output; 0 for none
  InMaxBytes,    \* mode -> biq_queuemax of the input; 0 for none
  Fds,           \* the numbers that the input's descriptor may have
  Throttles      \* how often the handler throttles; bounds the model

VARIABLES
  frMode,        \* the mode of both
  frOut,         \* the writing ioh: its queue, block.remaining, WANTWRITE, ...
  frWire,        \* bytes sent and not received, and whether an end follows
  frIn,          \* the reading ioh: its queue of buffers, its throttle count, ...
  frUp           \* history: what the handler was given

fvars == <<frMode, frOut, frWire, frIn, frUp>>

Eol == 10
Lesser(a, b) == IF a <= b THEN a ELSE b

Init ==
  /\ frMode \in Modes
  /\ frOut = [queue |-> <<>>, next |-> 1, remaining |-> 0, want |-> FALSE, pend |-> FALSE, shut |-> FALSE]
  /\ frWire = [bytes |-> <<>>, end |-> FALSE]
  /\ frIn \in [queue : {<<>>}, throttle : {0}, drain : {FALSE}, pc : {"select"},
               ended : {"no"}, left : {Throttles}, fd : Fds]
  /\ frUp = <<>>

\* A queue is of buffers, each with its data, whether it is of a message, and how
\* much it has room for; biq_queuelen is the length of all their data.
Data(bytes, message) == [data |-> bytes, message |-> message, room |-> 0]
Buffer(room, message) == [data |-> <<>>, message |-> message, room |-> room]
Bytes(queue) == FlattenSeq([i \in DOMAIN queue |-> queue[i].data])
QueueLen(queue) == Len(Bytes(queue))

\* ioh_dequeue_byte: buffers that are used up go, and the empty ones before the last.
RECURSIVE DequeueByte(_, _)
DequeueByte(queue, n) ==
  IF n = 0 \/ queue = <<>> THEN queue
  ELSE LET bid == Head(queue) IN
       IF n < Len(bid.data)
       THEN <<[bid EXCEPT !.data = SubSeq(@, n + 1, Len(@))]>> \o Tail(queue)
       ELSE DequeueByte(Tail(queue), n - Len(bid.data))
-----------------------------------------------------------------------------
(* Writing *)

OutLen == QueueLen(frOut.queue)

\* ioh_queue, and ioht_vector_queue for a vector and its length together: a queue
\* that holds anything is not filled beyond its most.
Full(len) == OutLen > 0 /\ OutMaxBytes # 0 /\ len + OutLen > OutMaxBytes

\* htonl
Header(n) == [i \in 1 .. HeaderLen |-> (n \div 256 ^ (HeaderLen - i)) % 256]

\* ioht_raw_queue, ioht_block_queue and ioht_line_queue queue the message as it is,
\* ioht_vector_queue its length and then the message.
Framed(msg) == IF frMode = "vector" THEN <<Data(Header(Len(msg)), FALSE), Data(msg, TRUE)>> ELSE <<Data(msg, TRUE)>>

\* A block is written when there is enough of it (ioht_block_queue), all else at once.
Wakes(len) == frMode # "block" \/ len >= Hint

\* bk_ioh_write.  The program tries a message again that a full queue has refused.
IohWrite ==
  /\ frOut.next <= Len(Msgs[frMode]) /\ ~frOut.pend /\ ~frOut.shut
  /\ LET new == Framed(Msgs[frMode][frOut.next]) IN
     /\ ~Full(QueueLen(new))
     /\ frOut' = [frOut EXCEPT !.queue = @ \o new, !.next = @ + 1,
                               !.want = @ \/ Wakes(OutLen + QueueLen(new))]
  /\ UNCHANGED <<frMode, frWire, frIn, frUp>>

\* bk_ioh_shutdown of the output, at once when nothing is queued.
ShutdownOut ==
  /\ frOut.next > Len(Msgs[frMode]) /\ ~frOut.pend /\ ~frOut.shut
  /\ IF OutLen = 0
     THEN frOut' = [frOut EXCEPT !.shut = TRUE, !.want = FALSE] /\ frWire' = [frWire EXCEPT !.end = TRUE]
     ELSE frOut' = [frOut EXCEPT !.pend = TRUE, !.want = TRUE] /\ UNCHANGED frWire
  /\ UNCHANGED <<frMode, frIn, frUp>>

\* What is left of the block that is being written; a new one is begun when there
\* is enough of it, or no more to come.
BlockLeft ==
  IF frOut.remaining = 0 /\ (frOut.pend \/ OutLen >= Hint) THEN Lesser(OutLen, Hint) ELSE frOut.remaining

\* ioht_line_other leaves what is ready to ioht_raw_other, and looks for lines itself.
AsRaw == frMode \in {"raw", "line"}

\* What the handler of the mode offers to writev: the first buffer; as much as is
\* left of the block; or the first buffers up to the end of a vector.
RawBytes == Head(frOut.queue).data
BlockBytes == SubSeq(Bytes(frOut.queue), 1, BlockLeft)
VectorBytes == LET first == Head(frOut.queue)
               IN IF first.message THEN first.data ELSE first.data \o frOut.queue[2].data
Offered == IF AsRaw THEN RawBytes ELSE IF frMode = "block" THEN BlockBytes ELSE VectorBytes

\* A block is written and there is no other; the mutant forgets that the output is
\* to be shut down.
NotAnother(left, len) == left = 0 /\ len < Hint
NoMoreBlocks(left, len) == left = 0 /\ len < Hint /\ ~frOut.pend

\* writev takes n bytes, and ioh_execute_ifspecial shuts down what is to be shut
\* down when nothing is left.
Takes(n) ==
  LET queue == DequeueByte(frOut.queue, n)
      left == IF frMode = "block" THEN BlockLeft - n ELSE 0
      len == QueueLen(queue)
      over == IF frMode = "block" THEN NoMoreBlocks(left, len) ELSE len = 0
      shuts == frOut.pend /\ len = 0
  IN /\ frOut' = [frOut EXCEPT !.queue = queue, !.want = ~over, !.pend = @ /\ ~shuts, !.shut = shuts,
                               !.remaining = IF frMode = "block" /\ left = 0 /\ len >= Hint THEN Hint ELSE left]
     /\ frWire' = [bytes |-> frWire.bytes \o SubSeq(Offered, 1, n), end |-> shuts]

WriteReady ==
  /\ frOut.want /\ ~frOut.shut
  /\ IF frMode = "block" /\ BlockLeft = 0
     THEN frOut' = [frOut EXCEPT !.want = FALSE] /\ UNCHANGED frWire
     ELSE \E n \in 1 .. Len(Offered) : Takes(n)
  /\ UNCHANGED <<frMode, frIn, frUp>>

\* The handler is called once more for an output that has been shut down.
WriteAfterShutdown ==
  /\ frOut.want /\ frOut.shut
  /\ frOut' = [frOut EXCEPT !.want = FALSE]
  /\ UNCHANGED <<frMode, frWire, frIn, frUp>>
-----------------------------------------------------------------------------
(* Reading *)

InBytes == Bytes(frIn.queue)
InLen == Len(InBytes)
LastRoom(queue) == IF queue = <<>> THEN 0 ELSE Last(queue).room

\* ntohl of the first bytes.  They are copied to the start of the length from
\* every buffer that they begin in.
LengthFromWire(queue) ==
  LET before(k) == QueueLen(SubSeq(queue, 1, k - 1))
      gives(k, i) == before(k) < HeaderLen /\ i <= Len(queue[k].data) /\ i <= HeaderLen - before(k)
      byte(i) == LET ks == {k \in DOMAIN queue : gives(k, i)} IN IF ks = {} THEN 0 ELSE queue[Max(ks)].data[i]
  IN IF QueueLen(queue) < HeaderLen THEN 0
     ELSE FoldLeft(LAMBDA n, b : n * 256 + b, 0, [i \in 1 .. HeaderLen |-> byte(i)])

\* What each mode wants to read next: as much as the hint, or what is missing of the
\* length or of the vector.
RawBuffer == Buffer(Hint, TRUE)
BlockBuffer == Buffer(Hint, TRUE)
Missing == LengthFromWire(frIn.queue) - (InLen - HeaderLen)
VectorBuffer == IF InLen < HeaderLen THEN Buffer(HeaderLen - InLen, FALSE) ELSE Buffer(Missing, TRUE)

\* The queue with room at its end for it
Prepared ==
  IF LastRoom(frIn.queue) > 0 THEN frIn.queue
  ELSE Append(frIn.queue, IF AsRaw THEN RawBuffer ELSE IF frMode = "block" THEN BlockBuffer ELSE VectorBuffer)

\* A vector that is longer than the queue may be
TooLong == /\ frMode = "vector" /\ InLen >= HeaderLen /\ LastRoom(frIn.queue) = 0
           /\ InMaxBytes[frMode] # 0 /\ Missing > InMaxBytes[frMode]

Up(how, bytes) == <<[how |-> how, data |-> bytes]>>

\* ioh_sendincomplete_up sends the buffers that hold a message's data, or all.
Incomplete(queue, all) ==
  LET bytes == Bytes(SelectSeq(queue, LAMBDA b : all \/ b.message))
  IN IF bytes = <<>> THEN <<>> ELSE Up("incomplete", bytes)

\* In its callback the handler may throttle (bk_ioh_readallowed), which takes back
\* what is to drain lines.
Throttled(in) ==
  {in} \cup (IF in.left > 0 THEN {[in EXCEPT !.throttle = @ + 1, !.drain = FALSE, !.left = @ - 1]} ELSE {})

\* The mutants give up whatever there is of a block, and leave the length of a
\* vector in the queue.
AnyOfIt(len) == len > 0
EnoughOfIt(len) == len >= Hint
JustVector(n) == n
WithHeader(n) == HeaderLen + n

\* IOHT_HANDLER_RMSG of the modes that give up at most one message: what is given up
\* of a queue, and what then remains of it.
RawMessage(queue) == [whole |-> TRUE, up |-> Bytes(queue), queue |-> <<>>]
BlockMessage(queue) ==
  [whole |-> EnoughOfIt(QueueLen(queue)), up |-> SubSeq(Bytes(queue), 1, Lesser(Hint, QueueLen(queue))),
   queue |-> DequeueByte(queue, Lesser(Hint, QueueLen(queue)))]
VectorMessage(queue) ==
  LET n == LengthFromWire(queue) IN
  [whole |-> QueueLen(queue) >= HeaderLen + n,
   up |-> SubSeq(Bytes(queue), HeaderLen + 1, Lesser(HeaderLen + n, QueueLen(queue))),
   queue |-> DequeueByte(queue, WithHeader(n))]
Message(queue) ==
  CASE frMode = "raw" -> RawMessage(queue)
    [] frMode = "block" -> BlockMessage(queue)
    [] frMode = "vector" -> VectorMessage(queue)

Deliver(in) ==
  IF frMode = "line" THEN frIn' = [in EXCEPT !.pc = "lines"] /\ UNCHANGED frUp
  ELSE LET msg == Message(in.queue) IN
       IF msg.whole
       THEN frUp' = frUp \o Up("complete", msg.up) /\ frIn' \in Throttled([in EXCEPT !.queue = msg.queue])
       ELSE frIn' = in /\ UNCHANGED frUp

\* The queue is given up or thrown away and the input takes no more (ERROR_INPUT).
InputEnds(in, given, how) ==
  /\ frUp' = frUp \o given \o Up(how, <<>>)
  /\ frIn' = [in EXCEPT !.queue = <<>>, !.ended = how]

\* ioh_runhandler for a descriptor that can be read: read gives n bytes, nothing but
\* the end, or an error, unless the vector that has begun is too long.
ReadsSome(in) ==
  /\ ~TooLong
  /\ \E n \in 1 .. Lesser(Len(frWire.bytes), Last(Prepared).room) :
       /\ frWire' = [frWire EXCEPT !.bytes = SubSeq(@, n + 1, Len(@))]
       /\ LET bid == Last(Prepared)
              read == [bid EXCEPT !.data = @ \o SubSeq(frWire.bytes, 1, n), !.room = @ - n]
          IN Deliver([in EXCEPT !.queue = Front(Prepared) \o <<read>>])

ReadsEof(in) ==
  /\ ~TooLong /\ frWire.bytes = <<>> /\ frWire.end
  /\ InputEnds(in, Incomplete(frIn.queue, FALSE), "eof")
  /\ UNCHANGED frWire

ReadsTooLong(in) ==
  /\ TooLong /\ (frWire.bytes # <<>> \/ frWire.end)
  /\ InputEnds(in, <<>>, "error")
  /\ UNCHANGED frWire

CanRead == frIn.pc = "select" /\ frIn.ended = "no"

\* Reading is wanted unless the handler throttles.
ReadReady == CanRead /\ frIn.throttle = 0 /\ ReadsSome(frIn) /\ UNCHANGED <<frMode, frOut>>
ReadEof == CanRead /\ frIn.throttle = 0 /\ ReadsEof(frIn) /\ UNCHANGED <<frMode, frOut>>
ReadTooLong == CanRead /\ frIn.throttle = 0 /\ ReadsTooLong(frIn) /\ UNCHANGED <<frMode, frOut>>

\* The read may fail at any time.
ReadFails ==
  /\ CanRead /\ frIn.throttle = 0 /\ ~TooLong
  /\ InputEnds(frIn, Incomplete(frIn.queue, FALSE), "error")
  /\ UNCHANGED <<frMode, frOut, frWire>>

LineEnds == {i \in 1 .. InLen : InBytes[i] = Eol}

\* The mutant goes on when the handler has throttled.
RegardlessOf(throttle) == FALSE
HeldBy(throttle) == throttle > 0

\* One turn of the loop of ioht_line_other: a whole line is given up, or there is
\* none and it returns.  With nothing left, or throttled, the loop is over, and
\* a queue beyond its most goes as it is.
NextLine ==
  /\ frIn.pc = "lines"
  /\ IF InLen > 0 /\ ~HeldBy(frIn.throttle)
     THEN IF LineEnds = {} THEN frIn' = [frIn EXCEPT !.pc = "select"] /\ UNCHANGED frUp
          ELSE /\ frUp' = frUp \o Up("complete", SubSeq(InBytes, 1, Min(LineEnds)))
               /\ frIn' \in Throttled([frIn EXCEPT !.queue = DequeueByte(@, Min(LineEnds))])
     ELSE LET over == InMaxBytes[frMode] # 0 /\ InLen > InMaxBytes[frMode] IN
          /\ frUp' = frUp \o (IF over THEN Incomplete(frIn.queue, TRUE) ELSE <<>>)
          /\ frIn' = [frIn EXCEPT !.pc = "select", !.queue = IF over THEN <<>> ELSE @]
  /\ UNCHANGED <<frMode, frOut, frWire>>

\* bk_ioh_readallowed lets go of one throttle; with the last one lines that are left
\* are to be drained.  After the end of the input it is refused.
Unthrottle ==
  /\ frIn.throttle > 0 /\ frIn.ended = "no" /\ frIn.pc = "select"
  /\ frIn' = [frIn EXCEPT !.throttle = @ - 1, !.drain = frIn.throttle = 1 /\ frMode = "line" /\ InLen > 0]
  /\ UNCHANGED <<frMode, frOut, frWire, frUp>>

\* bk_ioh_userdrainevent calls ioh_runhandler with its two arguments exchanged: the
\* descriptor's number is taken for what is ready.
Bit(flag) == (frIn.fd \div flag) % 2 = 1
READREADY == 1
CLOSE == 8
DESTROY == 16
USERFLAG1 == 4096

DrainEvent ==
  /\ frIn.drain /\ frIn.pc = "select"
  /\ LET in == [frIn EXCEPT !.drain = FALSE]
         closes == Bit(CLOSE) \/ Bit(DESTROY)
         lines == ~closes /\ Bit(USERFLAG1)
         reads == /\ ~closes /\ ~lines /\ Bit(READREADY) /\ frIn.ended = "no"
                  /\ frWire.bytes # <<>> \/ frWire.end
     IN \/ closes /\ InputEnds(in, <<>>, "closed") /\ UNCHANGED frWire
        \/ lines /\ frIn' = [in EXCEPT !.pc = "lines"] /\ UNCHANGED <<frWire, frUp>>
        \/ reads /\ (ReadsSome(in) \/ ReadsEof(in))
        \/ ~closes /\ ~lines /\ ~reads /\ frIn' = in /\ UNCHANGED <<frWire, frUp>>
  /\ UNCHANGED <<frMode, frOut>>
-----------------------------------------------------------------------------
\* The steps that are taken in the end when they can be, unlike a failure
Steps == \/ IohWrite \/ ShutdownOut \/ WriteReady \/ WriteAfterShutdown
         \/ ReadReady \/ ReadEof \/ ReadTooLong \/ NextLine \/ Unthrottle \/ DrainEvent
Next == Steps \/ ReadFails

\* A loop that runs goes on as long as there is anything to do.
Fairness == WF_fvars(Steps)
Spec == Init /\ [][Next]_fvars /\ Fairness
-----------------------------------------------------------------------------
WrittenBytes == LET msgs == Msgs[frMode]
                IN FlattenSeq(IF frMode = "vector" THEN msgs ELSE SubSeq(msgs, 1, frOut.next - 1))
UpBytes == FlattenSeq([i \in DOMAIN frUp |-> frUp[i].data])

\* The handler is given the bytes that were written, in order, and once it is told
\* of the end of the input it has been given them all.
BytesInOrder ==
  /\ IsPrefix(UpBytes, WrittenBytes)
  /\ frIn.ended = "eof" => UpBytes = FlattenSeq(Msgs[frMode])

\* What is given up as complete is what the mode says: a block, a vector as it was
\* written, one line; however short the reads and the writes were.
FramesWhole ==
  \A i \in DOMAIN frUp : frUp[i].how = "complete" =>
    CASE frMode = "block" -> Len(frUp[i].data) = Hint
      [] frMode = "vector" -> frUp[i].data = Msgs[frMode][i]
      [] frMode = "line" -> {k \in DOMAIN frUp[i].data : frUp[i].data[k] = Eol} = {Len(frUp[i].data)}
      [] OTHER -> TRUE

\* No handler that has throttled is given a message before it has let go as often.
ThrottleHeeded == [][frIn.throttle > 0 /\ frUp' # frUp => Last(frUp').how # "complete"]_fvars

\* In the end the handler is told that the input is over, with its end, an error
\* or the close, and that is the last it is told.
AllUp == frIn.ended # "no" /\ frUp # <<>> /\ Last(frUp).how = frIn.ended
AllComesUp == <>[]AllUp

\* A whole line comes up without waiting for more, once its reader does not
\* throttle: the event is "to potential drain remaining lines" (lib/b_ioh.c:1145).
LinesComeUp == frMode = "line" /\ frIn.throttle = 0 /\ ~frIn.drain /\ frIn.pc = "select" => LineEnds = {}
=============================================================================
