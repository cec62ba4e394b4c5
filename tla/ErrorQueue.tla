----------------------------- MODULE ErrorQueue -----------------------------
(***************************************************************************)
(* lib/b_error.c: what has gone wrong lately, in two queues, so that many  *)
(* messages of no weight do not drive out the few that have some.  A       *)
(* message said again and again is counted and not queued; marks tell what *)
(* is recent.                                                              *)
(***************************************************************************)
EXTENDS Integers, Sequences, FiniteSets, SequencesExt

CONSTANTS
  Severe, Light,      \* the messages, above and below be_hilo_pivot
  Marks,              \* the pointers used as marks
  Sizes,              \* what be_maxsize is set to
  Said, Ticks         \* how much is said, and how far time goes; bound the model

VARIABLES
  hiqueue, lowqueue,  \* the queues, the newest node first
  markqueue,          \* the marks, the newest first
  last,               \* be_last and how often it was repeated
  seqnum, clock,      \* be_seqnum, time(NULL)
  maxsize,            \* be_maxsize
  history,            \* history: what was said
  flushed,            \* history: how much had been said at the latest flush
  wildMark            \* history: a mark, which is not the library's memory, was freed

erqvars == <<hiqueue, lowqueue, markqueue, last, seqnum, clock, maxsize, history, flushed, wildMark>>

\* What bk_error_iprintf, bk_error_iprintbuf and bk_error_ivprintf make of their
\* arguments; each goes on with bk_error_iprint.
Formatted == Severe \cup Light

Said0 == [msg |-> "none", time |-> 0, seq |-> 0, repeat |-> 0]

Init ==
  /\ hiqueue = <<>> /\ lowqueue = <<>> /\ markqueue = <<>>
  /\ last = Said0 /\ seqnum = 0 /\ clock = 0
  /\ maxsize \in Sizes
  /\ history = <<>> /\ flushed = 0 /\ wildMark = FALSE
-----------------------------------------------------------------------------
Over(queue) == Len(queue) > maxsize
RECURSIVE Enqueued(_, _)
Enqueued(queue, node) == IF Over(queue) THEN Enqueued(Front(queue), node) ELSE <<node>> \o queue

\* bk_error_irepeater_flush: one repeat is the message again, more are counted.  The
\* node has the time and the number of the message; "at" is when it is queued.
\* The mutant forgets them.
NoRepeats(queue) == queue
Repeats(queue) ==
  IF last.repeat = 0 THEN queue
  ELSE Enqueued(queue, [msg |-> last.msg, time |-> last.time, seq |-> last.seq,
                        repeat |-> IF last.repeat = 1 THEN 0 ELSE last.repeat, at |-> Len(history) + 1])

Report(msg) ==
  /\ Len(history) < Said
  /\ history' = Append(history, msg)
  /\ IF msg = last.msg
     THEN /\ last' = [last EXCEPT !.repeat = @ + 1]
          /\ UNCHANGED <<hiqueue, lowqueue, seqnum>>
     ELSE LET node == [msg |-> msg, time |-> clock, seq |-> seqnum, repeat |-> 0, at |-> Len(history) + 1]
              hi == IF last.msg \in Severe THEN Repeats(hiqueue) ELSE hiqueue
              low == IF last.msg \in Light THEN Repeats(lowqueue) ELSE lowqueue
          IN /\ hiqueue' = IF msg \in Severe THEN Enqueued(hi, node) ELSE hi
             /\ lowqueue' = IF msg \in Light THEN Enqueued(low, node) ELSE low
             /\ last' = [msg |-> msg, time |-> clock, seq |-> seqnum, repeat |-> 0]
             /\ seqnum' = seqnum + 1
  /\ UNCHANGED <<markqueue, clock, maxsize, flushed, wildMark>>

Without(mark) == SelectSeq(markqueue, LAMBDA node : node.msg # mark)

\* bk_error_imark: a mark is moved when it is set again.
Mark(mark) ==
  /\ Len(history) < Said
  /\ markqueue' = <<[msg |-> mark, time |-> clock, seq |-> seqnum, at |-> Len(history)]>> \o Without(mark)
  /\ seqnum' = seqnum + 1
  /\ history' = Append(history, mark)                  \* it counts against the bound
  /\ UNCHANGED <<hiqueue, lowqueue, last, clock, maxsize, flushed, wildMark>>

Clear(mark) ==
  /\ Without(mark) # markqueue
  /\ markqueue' = Without(mark)
  /\ UNCHANGED <<hiqueue, lowqueue, last, seqnum, clock, maxsize, history, flushed, wildMark>>

Newer(node, mark) == mark.time < node.time \/ (mark.time = node.time /\ mark.seq <= node.seq)

\* bk_error_iflush: each queue is gone through from its newest node; from the first
\* that is newer than the mark on all go, which is all if there is one.  The queue of
\* marks is one of them, and what its nodes point to is freed as messages are.
Flushed(queue, marks) ==
  IF marks # <<>> /\ (queue = <<>> \/ ~Newer(queue[1], marks[1]))
  THEN LET first == SelectInSeq(queue, LAMBDA node : Newer(node, marks[1]))
       IN IF first = 0 THEN queue ELSE SubSeq(queue, 1, first - 1)
  ELSE <<>>

Flush(marks) ==
  /\ hiqueue' = Flushed(hiqueue, marks)
  /\ lowqueue' = Flushed(lowqueue, marks)
  /\ markqueue' = Flushed(markqueue, marks)
  /\ wildMark' = (wildMark \/ markqueue' # markqueue)
  /\ flushed' = Len(history)
  /\ UNCHANGED <<last, seqnum, clock, maxsize, history>>

\* bk_error_config.
Config(size) ==
  /\ size # maxsize
  /\ maxsize' = size
  /\ UNCHANGED <<hiqueue, lowqueue, markqueue, last, seqnum, clock, history, flushed, wildMark>>

\* bk_error_destroy: what is in the queues is freed, the marks too.
Gone == [Said0 EXCEPT !.msg = "gone"]
Destroy ==
  /\ hiqueue' = <<>> /\ lowqueue' = <<>> /\ markqueue' = <<>>
  /\ wildMark' = (wildMark \/ markqueue # <<>>)
  /\ last' = Gone /\ flushed' = Len(history)
  /\ UNCHANGED <<seqnum, clock, maxsize, history>>

Tick ==
  /\ clock < Ticks
  /\ clock' = clock + 1
  /\ UNCHANGED <<hiqueue, lowqueue, markqueue, last, seqnum, maxsize, history, flushed, wildMark>>

\* What comes after memory that is not the library's was freed is undefined.
Next ==
  /\ last # Gone /\ ~wildMark
  /\ \/ Tick \/ Destroy \/ Flush(<<>>)
     \/ \E msg \in Formatted : Report(msg)
     \/ \E mark \in Marks : Mark(mark) \/ Clear(mark)
     \/ \E i \in DOMAIN markqueue : Flush(<<markqueue[i]>>)
     \/ \E size \in Sizes : Config(size)

Spec == Init /\ [][Next]_erqvars
-----------------------------------------------------------------------------
(* bk_error_idump and bk_error_istrdump: the queues merged, the oldest first *)

\* The mutant always takes the severe ones first.
SevereFirst(hi, low) == hi # <<>>
WantHi(hi, low) ==
  IF hi = <<>> \/ low = <<>> THEN low = <<>>
  ELSE LET h == Last(hi)  l == Last(low) IN l.time - h.time > 0 \/ (l.time = h.time /\ l.seq - h.seq > 0)

RECURSIVE Merge(_, _)
Merge(hi, low) ==
  IF hi = <<>> /\ low = <<>> THEN <<>>
  ELSE IF WantHi(hi, low) THEN <<Last(hi)>> \o Merge(Front(hi), low)
  ELSE <<Last(low)>> \o Merge(hi, Front(low))

Dump(marks) == SelectSeq(Merge(hiqueue, lowqueue), LAMBDA node : marks = <<>> \/ Newer(node, marks[1]))
-----------------------------------------------------------------------------
(* What the queues are to hold, from what was said *)

Messages == SelectSeq([i \in DOMAIN history |-> [msg |-> history[i], at |-> i]], LAMBDA h : h.msg \notin Marks)
Run(m, i) == Cardinality({j \in 1 .. i : \A k \in j .. i : m[k].msg = m[i].msg})

NodesAt(m, i) ==
  IF i > 1 /\ m[i].msg = m[i - 1].msg THEN <<>>
  ELSE LET again == IF i > 1 THEN Run(m, i - 1) - 1 ELSE 0
           node == [msg |-> m[i].msg, repeat |-> 0, at |-> m[i].at]
       IN IF again = 0 THEN <<node>>
          ELSE <<[msg |-> m[i - 1].msg, repeat |-> IF again = 1 THEN 0 ELSE again, at |-> m[i].at], node>>

Expected(msgs) ==
  LET m == Messages
      all == FlattenSeq([i \in DOMAIN m |-> NodesAt(m, i)])
  IN Reverse(SelectSeq(all, LAMBDA node : node.msg \in msgs /\ node.at > flushed))

Seen(queue) == [i \in DOMAIN queue |-> [msg |-> queue[i].msg, repeat |-> queue[i].repeat, at |-> queue[i].at]]
Least == CHOOSE size \in Sizes : \A other \in Sizes : size <= other

\* Each queue holds the newest of what was said since the flush that belongs there,
\* with what was repeated, and drops nothing while there is room: however much of
\* the other kind is said.
NewestKept ==
  ~wildMark => \A queue \in {[q |-> hiqueue, of |-> Severe], [q |-> lowqueue, of |-> Light]} :
    /\ IsPrefix(Seen(queue.q), Expected(queue.of))
    /\ Len(queue.q) > Least \/ Len(queue.q) = Len(Expected(queue.of))

\* A dump gives what both queues hold in the order it was said, and nothing that
\* was said before the mark.
DumpInOrder ==
  /\ \A i, j \in DOMAIN Dump(<<>>) : i < j => Dump(<<>>)[i].at <= Dump(<<>>)[j].at
  /\ \A i \in DOMAIN markqueue : \A j \in DOMAIN Dump(<<markqueue[i]>>) : Dump(<<markqueue[i]>>)[j].at > markqueue[i].at

\* A dump since a mark gives all that is queued since.
DumpSinceMark ==
  \A i \in DOMAIN markqueue : \A j \in DOMAIN hiqueue :
    hiqueue[j].at > markqueue[i].at => \E k \in DOMAIN Dump(<<markqueue[i]>>) : Dump(<<markqueue[i]>>)[k] = hiqueue[j]

\* A flush since a mark leaves what is older ("clear all entries made after the mark").
FlushLeavesOlder ==
  [][\A i \in DOMAIN markqueue : Flush(<<markqueue[i]>>) =>
       \A j \in DOMAIN hiqueue : hiqueue[j].at <= markqueue[i].at => Contains(hiqueue', hiqueue[j])]_erqvars

\* Only memory of the library is freed: a mark is a "constant pointer" of the program
\* (b_error.c:719).
NoWildMark == ~wildMark
=============================================================================
