------------------------------- MODULE Relay -------------------------------
(***************************************************************************)
(* lib/b_relay.c: what is read from either of two I/O handles is written   *)
(* to the other, an end of one side becomes a shutdown of the other, and   *)
(* the relay frees itself when both handles are closed.                    *)
(*                                                                         *)
(* The handles are those of lib/b_ioh.c in raw mode, as the module Ioh has *)
(* them: a queue of data and commands, a close that is put off inside a    *)
(* callback, a close at once if nothing is queued.  They call the relay,   *)
(* which closes them, and so calls itself: frames holds the activations.   *)
(***************************************************************************)
EXTENDS Integers, Sequences, SequencesExt

CONSTANTS
  Items,         \* side -> what its peer sends, in order
  OutMax,        \* biq_queuemax of both output queues, in items, 0 for none
  FlagSets,      \* the flags a relay is made with: ONECLOSE, for
                 \* BK_RELAY_IOH_DONE_AFTER_ONE_CLOSE, and NOSHUTDOWN, for
                 \* BK_RELAY_IOH_NOSHUTDOWN
  None,
  MayFail        \* the sides whose descriptor may refuse a write

VARIABLES
  brFlags,       \* br_flags
  state,         \* side -> br_ioh1_state, br_ioh2_state
  known,         \* the sides whose br_ioh1, br_ioh2 is not NULL
  handle,        \* side -> its I/O handle
  frames,        \* activations, the running one last
  unread,        \* side -> what the descriptor still holds
  sent,          \* side -> history: what was written to the descriptor
  finished,      \* history: final calls of br_callback
  relayFreed,    \* free(relay) was done
  wildRelay,     \* something freed was used
  cancelled,     \* brc: "no", "asked"
  again          \* history: the sides bk_ioh_close was called for in a callback
                 \* of theirs, though they were closing already

rvars == <<brFlags, state, known, handle, frames, unread, sent, finished, relayFreed,
           wildRelay, cancelled, again>>

Sides == {1, 2}
Other(s) == 3 - s
Cmds == {"Shutdown", "Close"}
Ended == {"shutin", "errin"}
-----------------------------------------------------------------------------
(* The handle, as far as the relay depends on it. *)

NewHandle == [queue |-> <<>>, flags |-> {}, throttle |-> 0]
Is(s, f) == handle[s].flags \cap f # {}
Closed(s) == Is(s, {"closing", "destroying"})
DataOf(q) == SelectSeq(q, LAMBDA e : e \notin Cmds)

\* The commands before the first data are executed as soon as they get there.
Lead(q) == CHOOSE n \in 0 .. Len(q) : /\ \A i \in 1 .. n : q[i] \in Cmds
                                      /\ n < Len(q) => q[n + 1] \notin Cmds

Shut(h, how) ==
  IF h.flags \cap {"closing", "destroying"} # {} THEN h
  ELSE IF how = "RD" THEN [h EXCEPT !.flags = @ \cup {"shutin"}]
  ELSE IF h.flags \cap {"shutout", "errout", "pend"} # {} THEN h
  ELSE IF h.queue = <<>> THEN [h EXCEPT !.flags = @ \cup {"shutout"}]
  ELSE [h EXCEPT !.queue = Append(@, "Shutdown"), !.flags = @ \cup {"pend"}]

Allow(h, allowed) ==
  IF h.flags \cap (Ended \cup {"destroying"}) # {} THEN h
  ELSE [h EXCEPT !.throttle = IF ~allowed THEN @ + 1 ELSE IF @ = 0 THEN 0 ELSE @ - 1]

Writable(h) == h.flags \cap {"closing", "destroying", "errout", "shutout", "pend"} = {}
IsFull(h) == OutMax > 0 /\ h.queue # <<>> /\ Len(DataOf(h.queue)) + 1 > OutMax

\* bk_relay_iohhandler for the handle of s, which looks up once whose state it has
\* and which handle is the other: "just assuming here the other matches"
Relaying(s, status, item) ==
  LET me == IF s = 1 /\ 1 \in known THEN 1 ELSE 2 IN
    [op |-> "relay", side |-> s, status |-> status, item |-> item, pc |-> "switch",
     me |-> me, peer |-> Other(me) \in known]
Frame(op, s) == [op |-> op, side |-> s]
\* ioh_runhandler, which has yet to call back what calls holds
Running(s, calls) == [op |-> "ioh", side |-> s, calls |-> calls]
Told(status, item) == [status |-> status, item |-> item]

Top == Last(frames)
Runs(op) == frames # <<>> /\ Top.op = op /\ ~wildRelay
Become(fs) == frames' = Front(frames) \o fs
\* ioh_incallback of the handle
InCallback(s) == \E i \in 1 .. Len(frames) - 1 :
                    frames[i].op \in {"ioh", "destroy"} /\ frames[i].side = s
-----------------------------------------------------------------------------
Init ==
  /\ brFlags \in FlagSets
  /\ state = [s \in Sides |-> {}]
  /\ known = Sides
  /\ handle = [s \in Sides |-> NewHandle]
  /\ frames = <<>>
  /\ unread = Items
  /\ sent = [s \in Sides |-> <<>>]
  /\ finished = 0 /\ relayFreed = FALSE /\ wildRelay = FALSE
  /\ cancelled = "no" /\ again = {}

(* The run loop finds a descriptor ready. *)
Loop(s, calls) ==
  /\ frames = <<>> /\ ~wildRelay /\ ~Is(s, {"destroying"})
  /\ frames' = <<Running(s, calls)>>
  /\ UNCHANGED <<brFlags, state, known, finished, relayFreed, wildRelay, cancelled, again>>

Readable(s) == ~Is(s, Ended) /\ ~Closed(s) /\ handle[s].throttle = 0

LoopReads(s) ==
  /\ Readable(s) /\ unread[s] # <<>>
  /\ Loop(s, <<Told("ReadComplete", Head(unread[s]))>>)
  /\ unread' = [unread EXCEPT ![s] = Tail(@)]
  /\ UNCHANGED <<handle, sent>>

LoopReadEnds(s) ==
  /\ Readable(s) /\ unread[s] = <<>>
  /\ Loop(s, <<Told("ReadEOF", None)>>)
  /\ UNCHANGED <<handle, unread, sent>>

LoopWrites(s) ==
  /\ handle[s].queue # <<>> /\ ~Is(s, {"errout", "shutout"})
  /\ Head(handle[s].queue) \notin Cmds
  /\ LET item == Head(handle[s].queue) IN
       /\ sent' = [sent EXCEPT ![s] = Append(@, item)]
       /\ Loop(s, <<Told("WriteComplete", item)>>)
  /\ handle' = [handle EXCEPT ![s].queue = Tail(@)]
  /\ UNCHANGED unread

\* A write that fails flushes the queue, commands too.
LoopWriteFails(s) ==
  /\ s \in MayFail
  /\ handle[s].queue # <<>> /\ ~Is(s, {"errout", "shutout"})
  /\ Loop(s, [i \in 1 .. Len(DataOf(handle[s].queue)) |->
                 Told("WriteAborted", DataOf(handle[s].queue)[i])]
             \o <<Told("WriteError", None)>>)
  /\ handle' = [handle EXCEPT ![s].queue = <<>>, ![s].flags = @ \cup {"errout"}]
  /\ UNCHANGED <<unread, sent>>

\* ioh_runhandler calls back, and ends: a close that was put off is done, and
\* commands that have come to the front are executed.
IohCalls ==
  /\ Runs("ioh") /\ Top.calls # <<>>
  /\ LET c == Head(Top.calls) IN
       Become(<<Running(Top.side, Tail(Top.calls)), Relaying(Top.side, c.status, c.item)>>)
  /\ handle' = IF Head(Top.calls).status = "ReadEOF"
               THEN [handle EXCEPT ![Top.side].flags = @ \cup {"eof"}] ELSE handle
  /\ UNCHANGED <<brFlags, state, known, unread, sent, finished, relayFreed, wildRelay, cancelled, again>>

IohEnds ==
  /\ Runs("ioh") /\ Top.calls = <<>>
  /\ LET s == Top.side
         h == IF Is(s, {"eof"}) THEN [handle[s] EXCEPT !.flags = @ \cup {"errin"}] ELSE handle[s]
         n == Lead(h.queue)
         cmds == Range(SubSeq(h.queue, 1, n))
     IN IF "closepending" \in h.flags
        THEN /\ handle' = [handle EXCEPT ![s] = [h EXCEPT !.flags = @ \ {"closepending"}]]
             /\ Become(<<Frame("close", s)>>)
        ELSE /\ handle' = [handle EXCEPT ![s] =
                 [h EXCEPT !.queue = SubSeq(@, n + 1, Len(@)),
                           !.flags = @ \cup (IF "Shutdown" \in cmds THEN {"shutout"} ELSE {})]]
             /\ Become(IF "Close" \in cmds THEN <<Frame("destroy", s)>> ELSE <<>>)
  /\ UNCHANGED <<brFlags, state, known, unread, sent, finished, relayFreed, wildRelay, cancelled, again>>

\* bk_ioh_close: put off in a callback, else queued, else at once
IohCloses ==
  /\ Runs("close")
  /\ LET s == Top.side IN
       IF Is(s, {"gone"})
       THEN wildRelay' = TRUE /\ UNCHANGED <<handle, frames, again>>
       ELSE /\ UNCHANGED wildRelay
            /\ IF InCallback(s)
               THEN /\ handle' = [handle EXCEPT ![s].flags = @ \cup {"closepending"}]
                    /\ Become(<<>>)
               ELSE IF Closed(s) THEN Become(<<>>) /\ UNCHANGED handle
               ELSE /\ handle' = [handle EXCEPT
                         ![s].flags = @ \cup {"closing", "shutin", "pend"},
                         ![s].queue = IF @ = <<>> THEN @ ELSE Append(@, "Close")]
                    /\ Become(IF handle[s].queue = <<>> THEN <<Frame("destroy", s)>> ELSE <<>>)
            /\ again' = IF InCallback(s) /\ Closed(s) THEN again \cup {s} ELSE again
  /\ UNCHANGED <<brFlags, state, known, unread, sent, finished, relayFreed, cancelled>>

\* bk_ioh_destroy tells of the close, and frees the handle.
IohDestroys ==
  /\ Runs("destroy")
  /\ LET s == Top.side IN
       IF Is(s, {"destroying"})
       THEN Become(<<>>) /\ handle' = [handle EXCEPT ![s].flags = @ \cup {"gone"}]
       ELSE /\ handle' = [handle EXCEPT ![s].flags = @ \cup {"destroying"}]
            /\ frames' = Append(frames, Relaying(s, "IohClosing", None))
  /\ UNCHANGED <<brFlags, state, known, unread, sent, finished, relayFreed, wildRelay, cancelled, again>>
-----------------------------------------------------------------------------
(* bk_relay_iohhandler *)

Me == Top.me
Him == Other(Me)

Relay(status) == Runs("relay") /\ Top.pc = "switch" /\ Top.status \in status
ToCheck(calls) == frames' = Append(Front(frames), [Top EXCEPT !.pc = "check"]) \o calls
Add(s, f) == state' = [state EXCEPT ![s] = @ \cup {f}]
ShutPeer(how) == handle' = IF "NOSHUTDOWN" \in brFlags \/ ~Top.peer THEN handle
                           ELSE [handle EXCEPT ![Him] = Shut(@, how)]

\* The item is queued for the other side even if that has no room, but then
\* this side is not read until the other has written.  The mutant loses it.
QueueFull(h) == h
QueueAnyway(h) == [h EXCEPT !.queue = Append(@, Top.item)]

RelayData ==
  /\ Relay({"ReadComplete"})
  /\ LET full == IsFull(handle[Him]) IN
       IF Top.peer /\ Writable(handle[Him])
       THEN /\ handle' = [handle EXCEPT
                 ![Him] = IF full THEN QueueAnyway(@) ELSE [@ EXCEPT !.queue = Append(@, Top.item)],
                 ![Top.side] = IF full THEN Allow(@, FALSE) ELSE @]
            /\ IF full THEN Add(Me, "THROTTLED") ELSE UNCHANGED state
       ELSE /\ handle' = IF "NOSHUTDOWN" \in brFlags THEN handle
                         ELSE [s \in Sides |-> Shut(handle[s], IF s = Me THEN "RD" ELSE "WR")]
            /\ Add(Me, "READCLOSE")
  /\ ToCheck(<<>>)
  /\ UNCHANGED <<brFlags, known, unread, sent, finished, relayFreed, wildRelay, cancelled, again>>

RelayEof ==
  /\ Relay({"ReadEOF"})
  /\ Add(Me, "READCLOSE") /\ ShutPeer("WR")
  /\ ToCheck(<<>>)
  /\ UNCHANGED <<brFlags, known, unread, sent, finished, relayFreed, wildRelay, cancelled, again>>

RelayWriteError ==
  /\ Relay({"WriteError"})
  /\ Add(Him, "READCLOSE") /\ ShutPeer("RD")
  /\ ToCheck(<<>>)
  /\ UNCHANGED <<brFlags, known, unread, sent, finished, relayFreed, wildRelay, cancelled, again>>

\* The mutant asks for less than the limit of a queue that has none.
DrainedStrict == Len(DataOf(handle[Top.side].queue)) < OutMax - 1
Drained == OutMax = 0 \/ Len(DataOf(handle[Top.side].queue)) < OutMax

RelayWritten ==
  /\ Relay({"WriteComplete", "WriteAborted"})
  /\ IF "THROTTLED" \in state[Him] /\ Drained
     THEN /\ state' = [state EXCEPT ![Him] = @ \ {"THROTTLED"}]
          /\ handle' = IF Top.peer THEN [handle EXCEPT ![Him] = Allow(@, TRUE)] ELSE handle
     ELSE UNCHANGED <<state, handle>>
  /\ ToCheck(<<>>)
  /\ UNCHANGED <<brFlags, known, unread, sent, finished, relayFreed, wildRelay, cancelled, again>>

Unaware == "READCLOSE" \notin state[Me] \cap state[Him]

RelayClosing ==
  /\ Relay({"IohClosing"})
  /\ known' = known \ {Me}
  /\ IF Unaware
     THEN /\ state' = [state EXCEPT ![Me] = @ \cup {"CLOSED", "READCLOSE"},
                                    ![Him] = @ \cup {"READCLOSE"}]
          /\ ToCheck(IF "CLOSED" \notin state[Him] /\ Top.peer THEN <<Frame("close", Him)>> ELSE <<>>)
     ELSE Add(Me, "CLOSED") /\ ToCheck(<<>>)
  /\ UNCHANGED <<brFlags, handle, unread, sent, finished, relayFreed, wildRelay, cancelled, again>>

\* The mutant waits for the relay's two ends, and frees it at each.
BothClosedOnce == "CLOSED" \in state[Me]
BothClosed == "CLOSED" \in state[Me] \cap state[Him]

ReadsOver ==
  LET open(s) == "READCLOSE" \in state[s] /\ "CLOSED" \notin state[s] IN
    \/ open(Me) /\ open(Him)
    \/ "ONECLOSE" \in brFlags /\ (open(Me) \/ open(Him))

\* What follows the switch may find that a call of itself freed the relay.
RelayCheck ==
  /\ Runs("relay") /\ Top.pc = "check"
  /\ wildRelay' = relayFreed
  /\ IF ~relayFreed /\ BothClosed
     THEN relayFreed' = TRUE /\ finished' = finished + 1 /\ Become(<<>>)
     ELSE /\ UNCHANGED <<relayFreed, finished>>
          /\ IF ReadsOver
             THEN frames' = Append(Front(frames), [Top EXCEPT !.pc = "him"])
                            \o <<Frame("close", Top.side)>>
             ELSE Become(<<>>)
  /\ UNCHANGED <<brFlags, state, known, handle, unread, sent, cancelled, again>>

RelayClosesHim ==
  /\ Runs("relay") /\ Top.pc = "him"
  /\ wildRelay' = relayFreed
  /\ Become(IF "CLOSED" \notin state[Him] /\ Top.peer THEN <<Frame("close", Him)>> ELSE <<>>)
  /\ UNCHANGED <<brFlags, state, known, handle, unread, sent, finished, relayFreed, cancelled, again>>

\* bk_relay_cancel: an end of file of each side in turn, unless the relay has
\* gone meanwhile (BK_RELAY_CANCEL_FLAG_SHUTODWN)
Cancel ==
  /\ cancelled = "no" /\ frames = <<>> /\ ~wildRelay
  /\ cancelled' = "asked"
  /\ frames' = IF relayFreed THEN <<>> ELSE <<Frame("cancel", 2), Relaying(1, "ReadEOF", None)>>
  /\ UNCHANGED <<brFlags, state, known, handle, unread, sent, finished, relayFreed, wildRelay, again>>

CancelSecond ==
  /\ Runs("cancel")
  /\ Become(IF relayFreed THEN <<>> ELSE <<Relaying(Top.side, "ReadEOF", None)>>)
  /\ UNCHANGED <<brFlags, state, known, handle, unread, sent, finished, relayFreed, wildRelay, cancelled, again>>
-----------------------------------------------------------------------------
Inside == IohCalls \/ IohEnds \/ IohCloses \/ IohDestroys
          \/ RelayData \/ RelayEof \/ RelayWriteError \/ RelayWritten \/ RelayClosing
          \/ RelayCheck \/ RelayClosesHim \/ CancelSecond

Polls == \E s \in Sides : LoopReads(s) \/ LoopReadEnds(s) \/ LoopWrites(s)

Next == Inside \/ Polls \/ Cancel \/ \E s \in Sides : LoopWriteFails(s)

\* The run loop goes on while a descriptor is ready, and its handler returns.
Fairness == WF_rvars(Inside) /\ \A s \in Sides :
              WF_rvars(LoopReads(s) \/ LoopReadEnds(s)) /\ WF_rvars(LoopWrites(s))

Spec == Init /\ [][Next]_rvars /\ Fairness
-----------------------------------------------------------------------------
\* The relay is left once: one last callback, with the relay freed and both
\* handles told closed, and neither is touched by a later step or by an outer
\* activation of bk_relay_iohhandler, unless a relay that is done after one close
\* is cancelled: bk_relay_iohhandler then closes a handle that no callback is in,
\* which frees the relay it goes on with.
FreedOnce ==
  /\ wildRelay => "ONECLOSE" \in brFlags /\ cancelled = "asked"
  /\ finished = IF relayFreed THEN 1 ELSE 0
  /\ relayFreed => known = {} /\ \A s \in Sides : Is(s, {"destroying"})

\* A relay that is freed is not used again, cancelled or not; false of the code.
NeverWild == ~wildRelay

\* What a side was sent is what the other side was read, in order and without a
\* gap; when that ended, and no write failed, nothing of it was dropped: it is
\* written, queued, or in the hands of the handler.
Relayed ==
  \A s \in Sides :
    LET got == SubSeq(Items[s], 1, Len(Items[s]) - Len(unread[s]))
        underway == {i \in DOMAIN frames : \/ frames[i].op = "relay"
                                           \/ frames[i].op = "ioh" /\ frames[i].calls # <<>>}
        out == sent[Other(s)] \o DataOf(handle[Other(s)].queue)
    IN /\ IsPrefix(sent[Other(s)], got)
       /\ underway = {} /\ ~Is(Other(s), {"errout"}) => out = got

\* A side that is throttled waits for the other side to write something, so that
\* it is read again: no side is left unread for good.
ThrottledWaits ==
  frames = <<>> => \A s \in Sides :
    /\ "THROTTLED" \in state[s] => DataOf(handle[Other(s)].queue) # <<>>
    /\ ~Is(s, Ended \cup {"closing"}) =>
         (handle[s].throttle > 0 <=> "THROTTLED" \in state[s])

\* A handle that lingers with nothing left to write: it is closed when its last
\* command is executed, and nobody will execute it.
Stranded(s) == /\ frames = <<>> /\ Is(s, {"closing"}) /\ ~Is(s, {"destroying"})
               /\ DataOf(handle[s].queue) = <<>>

\* A handle is stranded only because it was closed again while it lingered, from
\* a callback of its own, or because a write failed then.
StrandedBy == \A s \in Sides : Stranded(s) => s \in again \/ Is(s, {"errout"})

\* A handle that is being closed is closed in the end; false of the code.
NothingStranded == \A s \in Sides : ~Stranded(s)

\* When both sides have ended, the relay makes its last callback, unless a handle
\* is stranded or what was freed is used: StrandedBy and FreedOnce say when.
BothEnded == \A s \in Sides : Is(s, Ended)
FinishTold == finished > 0
FinishedOrBroken == FinishTold \/ ~NothingStranded \/ wildRelay
=============================================================================
