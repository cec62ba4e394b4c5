-------------------------- MODULE IohStackProofs ---------------------------
(***************************************************************************)
(* How the activations of an I/O handle (module Ioh) are nested, when its  *)
(* callbacks neither flush it nor run the loop: then no function goes on   *)
(* in an ioh, or with a bid, that was freed.  And when it is closed once,  *)
(* what is on its queue moves: an ioh that waits for the run loop has      *)
(* asked for what it needs.                                                *)
(***************************************************************************)
EXTENDS IohProofs

-----------------------------------------------------------------------------
(* How activations are nested                                              *)

\* An activation that only the run loop or the main program calls, or that takes the
\* place of one it called
Bottom(f) == f.op \in {"handler", "dequeue", "destroy"} \/ (f.op = "close" /\ f.pc = "queue")
\* One that has a flush above it
Flushing(f) == \/ f.op = "close" /\ f.pc = "queue" /\ f.abort
               \/ f.op = "destroy" /\ f.pc = "tell"
               \/ f.op = "handler" /\ f.pc = "writefailed"
\* How the i-th activation stands to those above and below it, to the flags and to
\* the queue: a bid that was looked up is on the queue when the callback returns.
ShapeOf(i) ==
  /\ Bottom(stack[i]) => i = 1
  /\ stack[i].op = "flush" /\ i # 1 => i = 2 /\ Flushing(stack[1]) /\ ~stack[i].collect
  /\ stack[i].op \in {"close", "shutdown"} /\ i # 1 => stack[i - 1].op = "callback"
  /\ stack[i].op = "shutdown" => "closing" \notin intflags
  /\ stack[i].op = "dequeue" /\ stack[i].next # None => Queued(stack[i].next)
  /\ stack[i].op = "close" /\ stack[i].pc = "begin" => i = Len(stack)
  /\ stack[i].op = "destroy" => (stack[i].pc # "begin" <=> "destroying" \in intflags)
\* It holds of all,
Shape == \A i \in DOMAIN stack : ShapeOf(i)
\* and the ioh is freed by the last to run, who alone destroys it.
Ends == /\ freed => stack = <<>>
        /\ ~wild
        /\ "destroying" \in intflags => freed \/ (stack # <<>> /\ stack[1].op = "destroy")
Nested == Shape /\ Ends

\* What those below ask of a step: the flags of closing stay,
FlagsSame == \A f \in {"closing", "destroying"} : f \in intflags' <=> f \in intflags
\* and so do the bids that were looked up.
NextsKept == \A i \in DOMAIN stack :
  stack[i].op = "dequeue" /\ stack[i].next # None
    => \E j \in DOMAIN writeq' : writeq'[j].buf = stack[i].next
\* Who calls: the main program, a callback or a flush
Pushes(n) == n = 0 \/ stack[n].op \in {"callback", "flush"}

\* Who stays on the stack stands as it did.
LEMMA ShapeKept ==
  ASSUME Types, Shape, NEW n, n = Len(stack), NEW m, NEW k \in {0, 1, 2}, Grown(m, k),
         FlagsSame, m = n \/ m = n - 1, m = n => NextsKept, m # n /\ m # 0 => NextsKept,
         m = n /\ k # 0 => Pushes(n),
         NEW i \in 1 .. m
  PROVE  ShapeOf(i)'
<1>1. /\ n \in Nat /\ m \in Nat /\ i \in DOMAIN stack /\ ShapeOf(i)
      /\ stack'[i] = stack[i] /\ i <= n
      /\ DOMAIN stack = 1 .. n /\ Len(stack') = m + k /\ i <= m
  BY DEF Types, Grown, Shape
<1>2. i # 1 => i - 1 \in 1 .. m /\ stack'[i - 1] = stack[i - 1]
  BY <1>1 DEF Grown
<1>3. 1 \in 1 .. m /\ stack'[1] = stack[1]
  BY <1>1 DEF Grown
<1>4. NextsKept
  BY <1>1
<1>5. (Bottom(stack[i]) => i = 1)'
  BY <1>1 DEF ShapeOf, Bottom
<1>6. (stack[i].op = "flush" /\ i # 1 => i = 2 /\ Flushing(stack[1]) /\ ~stack[i].collect)'
  BY <1>1, <1>3 DEF ShapeOf, Flushing
<1>7. (stack[i].op \in {"close", "shutdown"} /\ i # 1 => stack[i - 1].op = "callback")'
  BY <1>1, <1>2 DEF ShapeOf
<1>8. (stack[i].op = "shutdown" => "closing" \notin intflags)'
  BY <1>1 DEF ShapeOf, FlagsSame
<1>9. (stack[i].op = "dequeue" /\ stack[i].next # None => Queued(stack[i].next))'
  BY <1>1, <1>4 DEF NextsKept, Queued
<1>10. (stack[i].op = "close" /\ stack[i].pc = "begin" => i = Len(stack))'
  BY <1>1 DEF ShapeOf, Pushes
<1>11. (stack[i].op = "destroy" => (stack[i].pc # "begin" <=> "destroying" \in intflags))'
  BY <1>1 DEF ShapeOf, FlagsSame
<1> QED BY <1>5, <1>6, <1>7, <1>8, <1>9, <1>10, <1>11 DEF ShapeOf

\* Who destroys the ioh is still at it.
LEMMA EndsKept ==
  ASSUME Types, Ends, NEW n, n = Len(stack), NEW m, NEW k \in {0, 1, 2}, Grown(m, k),
         FlagsSame, ~freed, ~freed', ~wild', m = n \/ (m = n - 1 /\ stack[n].op # "destroy")
  PROVE  Ends'
<1> SUFFICES ASSUME "destroying" \in intflags' PROVE stack' # <<>> /\ stack'[1].op = "destroy"
  BY DEF Ends
<1>1. stack # <<>> /\ stack[1].op = "destroy"
  BY DEF FlagsSame, Ends
<1>2. n \in Nat /\ n >= 1 /\ m \in Nat /\ Len(stack') = m + k
  BY <1>1 DEF Types, Grown
<1>3. m >= 1
  BY <1>1, <1>2
<1>4. stack'[1] = stack[1]
  BY <1>2, <1>3 DEF Grown
<1>5. stack' # <<>>
  BY <1>2, <1>3
<1> QED BY <1>1, <1>4, <1>5

\* What a step of anybody but the destroyer keeps
Mild == FlagsSame /\ ~freed /\ ~freed' /\ ~wild'

\* The activations are nested after a call,
LEMMA PushNested ==
  ASSUME Types, Nested, NEW n, n = Len(stack), NEW f, Pushed(n, f), Mild, NextsKept, Pushes(n),
         ShapeOf(n + 1)'
  PROVE  Nested'
<1>1. n \in Nat /\ DOMAIN stack' = 1 .. n + 1 /\ Grown(n, 1)
  BY DEF Types, Pushed, Grown
<1>2. ASSUME NEW i \in DOMAIN stack' PROVE ShapeOf(i)'
  <2>1. CASE i \in 1 .. n
    BY <1>1, <2>1, ShapeKept DEF Nested, Mild
  <2>2. CASE i = n + 1
    BY <2>2
  <2> QED BY <1>1, <2>1, <2>2
<1>3. Ends'
  BY <1>1, EndsKept DEF Nested, Mild
<1> QED BY <1>2, <1>3 DEF Nested, Shape

\* after a call of two,
LEMMA PushTwoNested ==
  ASSUME Types, Nested, NEW n, n = Len(stack), NEW f, NEW g, PushedTwo(n, f, g), Mild, NextsKept,
         Pushes(n), ShapeOf(n + 1)', ShapeOf(n + 2)'
  PROVE  Nested'
<1>1. n \in Nat /\ DOMAIN stack' = 1 .. n + 2 /\ Grown(n, 2)
  BY DEF Types, PushedTwo, Grown
<1>2. ASSUME NEW i \in DOMAIN stack' PROVE ShapeOf(i)'
  <2>1. CASE i \in 1 .. n
    BY <1>1, <2>1, ShapeKept DEF Nested, Mild
  <2>2. CASE i = n + 1
    BY <2>2
  <2>3. CASE i = n + 2
    BY <2>3
  <2> QED BY <1>1, <2>1, <2>2, <2>3
<1>3. Ends'
  BY <1>1, EndsKept DEF Nested, Mild
<1> QED BY <1>2, <1>3 DEF Nested, Shape

\* after one took the place of another,
LEMMA TurnNested ==
  ASSUME Types, Nested, NEW n, n = Len(stack), NEW f, Turned(n, f), Mild, n = 1 \/ NextsKept,
         stack[n].op # "destroy", ShapeOf(n)'
  PROVE  Nested'
<1>1. n \in Nat /\ n >= 1 /\ DOMAIN stack' = 1 .. n /\ Grown(n - 1, 1)
  BY DEF Types, Turned, Grown
<1>2. ASSUME NEW i \in DOMAIN stack' PROVE ShapeOf(i)'
  <2>1. CASE i \in 1 .. n - 1
    BY <1>1, <2>1, ShapeKept DEF Nested, Mild
  <2>2. CASE i = n
    BY <2>2
  <2> QED BY <1>1, <2>1, <2>2
<1>3. Ends'
  BY <1>1, EndsKept DEF Nested, Mild
<1> QED BY <1>2, <1>3 DEF Nested, Shape

\* after two did,
LEMMA TurnTwoNested ==
  ASSUME Types, Nested, NEW n, n = Len(stack), NEW f, NEW g, TurnedTwo(n, f, g), Mild,
         n = 1 \/ NextsKept, stack[n].op # "destroy", ShapeOf(n)', ShapeOf(n + 1)'
  PROVE  Nested'
<1>1. n \in Nat /\ n >= 1 /\ DOMAIN stack' = 1 .. n + 1 /\ Grown(n - 1, 2)
  BY DEF Types, TurnedTwo, Grown
<1>2. ASSUME NEW i \in DOMAIN stack' PROVE ShapeOf(i)'
  <2>1. CASE i \in 1 .. n - 1
    BY <1>1, <2>1, ShapeKept DEF Nested, Mild
  <2>2. CASE i = n
    BY <2>2
  <2>3. CASE i = n + 1
    BY <2>3
  <2> QED BY <1>1, <2>1, <2>2, <2>3
<1>3. Ends'
  BY <1>1, EndsKept DEF Nested, Mild
<1> QED BY <1>2, <1>3 DEF Nested, Shape

\* after a return,
LEMMA GoneNested ==
  ASSUME Types, Nested, NEW n, n = Len(stack), Gone(n), Mild, n = 1 \/ NextsKept,
         stack[n].op # "destroy"
  PROVE  Nested'
<1>1. n \in Nat /\ n >= 1 /\ DOMAIN stack' = 1 .. n - 1 /\ Grown(n - 1, 0)
  BY DEF Types, Gone, Grown
<1>2. ASSUME NEW i \in DOMAIN stack' PROVE ShapeOf(i)'
  BY <1>1, ShapeKept DEF Nested, Mild
<1>3. Ends'
  BY <1>1, EndsKept DEF Nested, Mild
<1> QED BY <1>2, <1>3 DEF Nested, Shape

\* and when the stack stays.
LEMMA SameNested ==
  ASSUME Types, Nested, NEW n, n = Len(stack), Grown(n, 0), Mild, NextsKept
  PROVE  Nested'
<1>1. n \in Nat /\ DOMAIN stack' = 1 .. n
  BY DEF Types, Grown
<1>2. ASSUME NEW i \in DOMAIN stack' PROVE ShapeOf(i)'
  BY <1>1, ShapeKept DEF Nested, Mild
<1>3. Ends'
  BY <1>1, EndsKept DEF Nested, Mild
<1> QED BY <1>2, <1>3 DEF Nested, Shape

\* A callback may be anywhere.
LEMMA CbShape ==
  ASSUME NEW i, NEW s, NEW b, stack'[i] = Cb(s, b)
  PROVE  ShapeOf(i)'
BY DEF ShapeOf, Bottom, Cb

\* ioh_runhandler is called by the run loop.
LEMMA HandlerShape ==
  ASSUME NEW pc, NEW ready, stack'[1] = Handler(pc, ready)
  PROVE  ShapeOf(1)' /\ (pc = "writefailed" => Flushing(stack[1])')
BY DEF ShapeOf, Bottom, Handler, Flushing

\* ioh_dequeue_byte has the next bid on the queue.
LEMMA WrittenShape ==
  ASSUME NEW bytes, NEW next, NEW ready, stack'[1] = Written(bytes, next, ready),
         next # None => \E j \in DOMAIN writeq' : writeq'[j].buf = next
  PROVE  ShapeOf(1)'
<1>1. stack'[1].op = "dequeue" /\ stack'[1].next = next
  BY DEF Written
<1> QED BY <1>1 DEF ShapeOf, Bottom, Queued

\* A flush is the program's or one of a function that waits for it.
LEMMA FlushShape ==
  ASSUME NEW i, NEW collect, NEW cmds, stack'[i] = Flush(collect, cmds),
         i # 1 => i = 2 /\ Flushing(stack[1])' /\ ~collect
  PROVE  ShapeOf(i)'
<1>1. stack'[i].op = "flush" /\ stack'[i].collect = collect
  BY DEF Flush
<1> QED BY <1>1 DEF ShapeOf, Bottom

\* ioh_close is called by a callback, by the main program or by who returns.
LEMMA CloseShape ==
  ASSUME NEW i, NEW abort, stack'[i] = Close("begin", abort), i = Len(stack'),
         i # 1 => stack'[i - 1].op = "callback"
  PROVE  ShapeOf(i)'
<1>1. stack'[i].op = "close" /\ stack'[i].pc = "begin"
  BY DEF Close
<1> QED BY <1>1 DEF ShapeOf, Bottom

\* It goes on only when no callback runs.
LEMMA QueueShape ==
  ASSUME NEW abort, stack'[1] = Close("queue", abort)
  PROVE  ShapeOf(1)' /\ (abort => Flushing(stack[1])')
BY DEF ShapeOf, Bottom, Close, Flushing

\* bk_ioh_shutdown is called before the ioh closes.
LEMMA ShutdownShape ==
  ASSUME NEW i, NEW pc, NEW how, stack'[i] = Shutdown(pc, how), "closing" \notin intflags',
         i # 1 => stack'[i - 1].op = "callback"
  PROVE  ShapeOf(i)'
<1>1. stack'[i].op = "shutdown"
  BY DEF Shutdown
<1> QED BY <1>1 DEF ShapeOf, Bottom

\* bk_ioh_destroy is called once.
LEMMA DestroyShape ==
  ASSUME NEW pc, stack'[1] = Destroy(pc), pc # "begin" <=> "destroying" \in intflags'
  PROVE  ShapeOf(1)' /\ (pc = "tell" => Flushing(stack[1])')
<1>1. stack'[1].op = "destroy" /\ stack'[1].pc = pc
  BY DEF Destroy, Frame
<1> QED BY <1>1 DEF ShapeOf, Bottom, Flushing

\* Who calls from a callback, and who may not
LEMMA Caller ==
  ASSUME Types, NEW n, n = Len(stack), NEW c, MayCall(c)
  PROVE  /\ n \in Nat /\ Pushes(n) /\ ~freed /\ ~wild
         /\ n # 0 => n \in DOMAIN stack /\ stack[n].op = "callback"
         /\ CallbacksRest /\ c \in {"flush", "run"} => n = 0
<1>1. n \in Nat /\ (stack = <<>> \/ Running("callback")) /\ ~freed /\ ~wild
  BY DEF Types, MayCall, InProgram
<1>2. CASE stack = <<>>
  BY <1>1, <1>2 DEF Pushes
<1>3. CASE Running("callback") /\ stack # <<>>
  <2>1. /\ n \in DOMAIN stack /\ stack[n].op = "callback" /\ Top = stack[n]
        /\ stack[n] \in Activation
    BY <1>3, RunningTop
  <2>2. stack[n].status \in Status
    BY <2>1, Fields
  <2>3. c \in Calls[stack[n].status]
    BY <1>3, <2>1 DEF MayCall, Place
  <2> QED BY <1>1, <2>1, <2>2, <2>3 DEF Pushes, CallbacksRest
<1> QED BY <1>1, <1>2, <1>3 DEF Running

\* While somebody runs the ioh is not freed.
LEMMA Shaped ==
  ASSUME Types, Nested, NEW n \in DOMAIN stack
  PROVE  /\ ~freed /\ ~wild /\ ShapeOf(n)
         /\ Bottom(stack[n]) => n = 1
BY DEF Nested, Ends, Shape, ShapeOf, Types

\* A step that leaves the queue leaves the bids that were looked up,
LEMMA NextsSame ==
  ASSUME Nested, writeq' = writeq
  PROVE  NextsKept
BY DEF Nested, Shape, ShapeOf, NextsKept, Queued

\* Only somebody who needs no next data is below ioh_flush_queue.
LEMMA NextsFlush ==
  ASSUME Types, Nested, NEW n \in DOMAIN stack, n = Len(stack), stack[n].op = "flush"
  PROVE  NextsKept
<1> SUFFICES ASSUME NEW i \in DOMAIN stack, stack[i].op = "dequeue" PROVE FALSE
  BY DEF NextsKept
<1>1. i = 1
  BY Shaped DEF Bottom
<1>2. n = 1 \/ Flushing(stack[1])
  BY Shaped DEF ShapeOf
<1> QED BY <1>1, <1>2 DEF Flushing

\* and so does the execution of commands.
LEMMA NextsBehind ==
  ASSUME IInv, Nested, NEW q, Queues(q), writeq' = Behind(q)
  PROVE  NextsKept
<1>1. Types /\ Counted /\ BidsTrue
  BY IInvIs
<1> SUFFICES ASSUME NEW i \in DOMAIN stack, stack[i].op = "dequeue", stack[i].next # None
             PROVE  \E j \in DOMAIN writeq' : writeq'[j].buf = stack[i].next
  BY DEF NextsKept
<1>2. PICK j \in DOMAIN writeq : writeq[j].buf = stack[i].next
  BY DEF Nested, Shape, ShapeOf, Queued
<1>3. IsData(writeq[j])
  BY <1>1, <1>2 DEF BidsTrue, BidOf
<1>4. j \in DOMAIN q /\ q[j] = writeq[j]
  <2>1. CASE q = writeq
    BY <2>1
  <2>2. ASSUME NEW c \in {"Shutdown", "Close"}, q = Append(writeq, Cmd(c))
        PROVE  j \in DOMAIN q /\ q[j] = writeq[j]
    <3>1. Cmd(c) \in Bid
      BY SizesAssumption DEF Cmd, Bid
    <3> DEFINE e == Cmd(c)
    <3> HIDE DEF e
    <3> QED BY <1>1, <2>2, <3>1, AppendIs DEF Types, e
  <2> QED BY <2>1, <2>2 DEF Queues
<1>5. Behind(q) = q
  BY <1>1, <1>3, <1>4, Executes
<1> QED BY <1>2, <1>4, <1>5

-----------------------------------------------------------------------------
(* The actions leave them nested                                           *)

\* The call of bk_ioh_flush leaves the activations nested.
LEMMA FlushCallNested ==
  ASSUME CallbacksRest, IInv, Nested, NEW n, n = Len(stack), NEW how, FlushCall(how)
  PROVE  Nested'
<1>1. Types /\ QueueInv /\ BidsTrue /\ Counted
  BY IInvIs
<1>2. n \in Nat /\ Pushes(n) /\ ~freed /\ ~wild /\ (n # 0 => stack[n].op = "callback")
  BY <1>1, Caller DEF FlushCall
<1>3. Mild /\ NextsKept
  BY <1>2, NextsSame DEF FlushCall, ioh, queue, Mild, FlagsSame
<1>4. n = 0
  BY <1>1, Caller DEF FlushCall
<1>5. CASE Grown(n, 0)
  BY <1>1, <1>3, <1>5, SameNested
<1>6. CASE Pushed(n, Flush(TRUE, <<>>))
  <2> DEFINE f == Flush(TRUE, <<>>)
  <2>1. stack'[n + 1] = f
    BY <1>6 DEF Pushed
  <2>2. ShapeOf(n + 1)'
    <3>1. n + 1 = 1
      BY <1>4
    <3>2. stack'[n + 1] = Flush(TRUE, <<>>)
      BY <2>1
    <3> QED BY <3>1, <3>2, FlushShape
  <2> QED BY <1>1, <1>2, <1>3, <1>6, <2>2, PushNested
<1> QED BY <1>1, <1>5, <1>6, FlushCallStack

\* The call of bk_ioh_shutdown leaves the activations nested.
LEMMA ShutdownCallNested ==
  ASSUME CallbacksRest, IInv, Nested, NEW n, n = Len(stack), NEW how \in SUBSET {"read", "write"},
         ShutdownCall(how)
  PROVE  Nested'
<1>1. Types /\ QueueInv /\ BidsTrue /\ Counted
  BY IInvIs
<1>2. n \in Nat /\ Pushes(n) /\ ~freed /\ ~wild /\ (n # 0 => stack[n].op = "callback")
  BY <1>1, Caller DEF ShutdownCall
<1>3. Mild /\ NextsKept
  BY <1>2, NextsSame DEF ShutdownCall, ioh, queue, Mild, FlagsSame
<1>4. "closing" \notin intflags'
  BY DEF ShutdownCall, Set, ioh
<1>5. CASE PushedTwo(n, Shutdown("sentup", Undone(how)), Cb("IncompleteRead", None))
  <2>1. /\ stack'[n + 1] = Shutdown("sentup", Undone(how))
        /\ stack'[n + 2] = Cb("IncompleteRead", None)
        /\ n # 0 => stack'[n] = stack[n]
    BY <1>2, <1>5 DEF PushedTwo, Grown
  <2>2. ShapeOf(n + 1)' /\ ShapeOf(n + 2)'
    <3>1. (n + 1) - 1 = n /\ (n + 1 # 1 => n # 0)
      BY <1>2
    <3> QED BY <1>2, <1>4, <2>1, <3>1, ShutdownShape, CbShape
  <2> QED BY <1>1, <1>2, <1>3, <1>5, <2>2, PushTwoNested
<1>6. CASE Pushed(n, Shutdown("queue", Undone(how)))
  <2>1. /\ stack'[n + 1] = Shutdown("queue", Undone(how))
        /\ n # 0 => stack'[n] = stack[n]
    BY <1>2, <1>6 DEF Pushed, Grown
  <2>2. ShapeOf(n + 1)'
    <3>1. (n + 1) - 1 = n /\ (n + 1 # 1 => n # 0)
      BY <1>2
    <3> QED BY <1>2, <1>4, <2>1, <3>1, ShutdownShape
  <2> QED BY <1>1, <1>2, <1>3, <1>6, <2>2, PushNested
<1> QED BY <1>1, <1>5, <1>6, ShutdownCallStack

\* The call of bk_ioh_close leaves the activations nested.
LEMMA CloseCallNested ==
  ASSUME CallbacksRest, IInv, Nested, NEW n, n = Len(stack), NEW abort \in BOOLEAN, CloseCall(abort)
  PROVE  Nested'
<1>1. Types /\ QueueInv /\ BidsTrue /\ Counted
  BY IInvIs
<1>2. n \in Nat /\ Pushes(n) /\ ~freed /\ ~wild /\ (n # 0 => stack[n].op = "callback")
  BY <1>1, Caller DEF CloseCall
<1>3. Mild /\ NextsKept
  BY <1>2, NextsSame DEF CloseCall, ioh, queue, Mild, FlagsSame
<1>4. Pushed(n, Close("begin", abort))
  BY <1>1, CloseCallStack
<1>5. /\ stack'[n + 1] = Close("begin", abort) /\ Len(stack') = n + 1
      /\ n # 0 => stack'[n] = stack[n]
  BY <1>2, <1>4 DEF Pushed, Grown
<1>6. ShapeOf(n + 1)'
  <2>1. (n + 1) - 1 = n /\ (n + 1 # 1 => n # 0)
    BY <1>2
  <2> QED BY <1>2, <1>5, <2>1, CloseShape
<1> QED BY <1>1, <1>2, <1>3, <1>4, <1>6, PushNested

\* The end of the run loop leaves the activations nested.
LEMMA RunDestroyNested ==
  ASSUME CallbacksRest, IInv, Nested, NEW n, n = Len(stack), RunDestroy
  PROVE  Nested'
<1>1. Types /\ QueueInv /\ BidsTrue /\ Counted
  BY IInvIs
<1>2. n \in Nat /\ Pushes(n) /\ ~freed /\ ~wild /\ (n # 0 => stack[n].op = "callback")
  BY <1>1, Caller DEF RunDestroy
<1>3. Mild /\ NextsKept
  BY <1>2, NextsSame DEF RunDestroy, ioh, queue, Mild, FlagsSame
<1>4. Pushed(n, Close("begin", TRUE))
  BY <1>1, RunDestroyStack
<1>5. /\ stack'[n + 1] = Close("begin", TRUE) /\ Len(stack') = n + 1
      /\ n # 0 => stack'[n] = stack[n]
  BY <1>2, <1>4 DEF Pushed, Grown
<1>6. ShapeOf(n + 1)'
  <2>1. (n + 1) - 1 = n /\ (n + 1 # 1 => n # 0)
    BY <1>2
  <2> QED BY <1>2, <1>5, <2>1, CloseShape
<1> QED BY <1>1, <1>2, <1>3, <1>4, <1>6, PushNested

\* The run loop, as it calls ioh_runhandler, leaves the activations nested.
LEMMA DispatchNested ==
  ASSUME CallbacksRest, IInv, Nested, NEW n, n = Len(stack), NEW ready \in SUBSET {"read", "write"},
         Dispatch(ready)
  PROVE  Nested'
<1>1. Types
  BY IInvIs
<1> DEFINE f == Handler(IF "write" \in ready \ Masked /\ ~InWrite THEN "write" ELSE "read",
                        ready \ Masked)
<1>2. Pushed(n, f) /\ (n = 0 \/ MayCall("run"))
  BY <1>1, DispatchStack
<1>3. n = 0
  BY <1>1, <1>2, Caller
<1>4. Mild /\ NextsKept /\ Pushes(n)
  BY <1>3, NextsSame DEF Dispatch, ioh, queue, Mild, FlagsSame, Pushes
<1>5. ShapeOf(n + 1)'
  <2>1. stack'[1] = f
    BY <1>2, <1>3 DEF Pushed
  <2>2. ShapeOf(1)'
    BY <2>1, HandlerShape
  <2> QED BY <1>3, <2>2
<1> HIDE DEF f
<1> QED BY <1>1, <1>2, <1>4, <1>5, PushNested

\* bk_ioh_write leaves the activations nested.
LEMMA WriteNested ==
  ASSUME IInv, Nested, NEW b \in Buf, NEW bypass, Write(b, bypass)
  PROVE  Nested'
<1> DEFINE n == Len(stack)
<1>1. Types /\ Grown(n, 0)
  <2>1. Types /\ stack' = stack
    BY IInvIs DEF Write
  <2> QED BY <2>1, Stays DEF Types
<1>2. Mild
  <2>1. ~freed /\ ~wild
    BY DEF Write, MayCall, InProgram
  <2> QED BY <2>1 DEF Write, ioh, Mild, FlagsSame
<1>3. NextsKept
  <2> SUFFICES ASSUME NEW i \in DOMAIN stack, stack[i].op = "dequeue", stack[i].next # None
               PROVE  \E j \in DOMAIN writeq' : writeq'[j].buf = stack[i].next
    BY DEF NextsKept
  <2>1. PICK j \in DOMAIN writeq : writeq[j].buf = stack[i].next
    BY DEF Nested, Shape, ShapeOf, Queued
  <2>2. j \in DOMAIN writeq' /\ writeq'[j] = writeq[j]
    <3> DEFINE e == Data(b, BufLen)
    <3>1. e \in Bid
      <4>1. BufLen \in 0 .. BufLen
        BY SizesAssumption
      <4> QED BY <4>1 DEF Data, Bid
    <3>2. writeq' = Append(writeq, e)
      BY DEF Write
    <3> HIDE DEF e
    <3> QED BY <1>1, <3>1, <3>2, AppendIs DEF Types
  <2> QED BY <2>1, <2>2
<1> QED BY <1>1, <1>2, <1>3, SameNested

\* bk_ioh_readallowed leaves the activations nested.
LEMMA ReadallowedNested ==
  ASSUME IInv, Nested, NEW allowed, Readallowed(allowed)
  PROVE  Nested'
<1> DEFINE n == Len(stack)
<1>1. Types /\ Grown(n, 0)
  <2>1. Types /\ stack' = stack
    BY IInvIs DEF Readallowed
  <2> QED BY <2>1, Stays DEF Types
<1>2. Mild
  <2>1. ~freed /\ ~wild
    BY DEF Readallowed, MayCall, InProgram
  <2> QED BY <2>1 DEF Readallowed, Mild, FlagsSame
<1>3. NextsKept
  BY NextsSame DEF Readallowed, queue
<1> QED BY <1>1, <1>2, <1>3, SameNested

\* The return of the callback leaves the activations nested.
LEMMA CallbackReturnsNested ==
  ASSUME IInv, Nested, NEW n, n = Len(stack), CallbackReturns
  PROVE  Nested'
<1>1. Types
  BY IInvIs
<1>2. Gone(n) /\ stack[n].op = "callback"
  BY <1>1, CallbackReturnsStack
<1>3. Mild /\ NextsKept
  <2>1. ~freed /\ ~wild
    BY DEF Nested, Ends, CallbackReturns, Running
  <2> QED BY <2>1, NextsSame DEF CallbackReturns, queue, Mild, FlagsSame
<1> QED BY <1>1, <1>2, <1>3, GoneNested

\* The stack when what the run loop or the main program called becomes f, or f and g
LEMMA FirstIs ==
  /\ \A f : Turned(1, f) => /\ stack'[1] = f /\ Len(stack') = 1 /\ stack' \in Seq(Activation)
                           /\ DOMAIN stack' = 1 .. 1 /\ stack' # <<>>
  /\ \A f, g : TurnedTwo(1, f, g) =>
       /\ stack'[1] = f /\ stack'[2] = g /\ Len(stack') = 2 /\ stack' \in Seq(Activation)
       /\ DOMAIN stack' = 1 .. 2 /\ stack' # <<>>
<1>1. ASSUME NEW f, Turned(1, f)
      PROVE  /\ stack'[1] = f /\ Len(stack') = 1 /\ stack' \in Seq(Activation)
             /\ DOMAIN stack' = 1 .. 1 /\ stack' # <<>>
  <2>1. stack'[1] = f /\ Len(stack') = (1 - 1) + 1 /\ stack' \in Seq(Activation)
    BY <1>1 DEF Turned, Grown
  <2>2. Len(stack') = 1
    BY <2>1
  <2> QED BY <2>1, <2>2
<1>2. ASSUME NEW f, NEW g, TurnedTwo(1, f, g)
      PROVE  /\ stack'[1] = f /\ stack'[2] = g /\ Len(stack') = 2 /\ stack' \in Seq(Activation)
             /\ DOMAIN stack' = 1 .. 2 /\ stack' # <<>>
  <2>1. /\ stack'[1] = f /\ stack'[1 + 1] = g /\ Len(stack') = (1 - 1) + 2
        /\ stack' \in Seq(Activation)
    BY <1>2 DEF TurnedTwo, Grown
  <2>2. Len(stack') = 2 /\ 1 + 1 = 2
    BY <2>1
  <2>3. stack'[2] = g
    BY <2>1, <2>2
  <2>4. DOMAIN stack' = 1 .. 2
    BY <2>1, <2>2
  <2>5. stack' # <<>>
    BY <2>2
  <2> QED BY <2>1, <2>2, <2>3, <2>4, <2>5
<1> QED BY <1>1, <1>2

\* ioh_flush_queue, with a bid in hand, leaves the activations nested.
LEMMA FlushNextNested ==
  ASSUME IInv, Nested, NEW n, n = Len(stack), FlushNext
  PROVE  Nested'
<1>1. Types
  BY IInvIs
<1> DEFINE b == writeq[1].buf
           f == Flush(stack[n].collect, Append(stack[n].cmds, writeq[1].cmd))
<1>2. /\ n >= 1 /\ n \in DOMAIN stack /\ stack[n].op = "flush" /\ stack[n] \in Activation
      /\ \/ Pushed(n, Cb("WriteAborted", b))
         \/ Turned(n, f)
  <2>1. n \in DOMAIN stack => stack[n] \in Activation
    BY <1>1 DEF Types
  <2> QED BY <1>1, <2>1, FlushNextStack
<1>3. ~freed /\ ~wild /\ ShapeOf(n) /\ n \in Nat
  BY <1>1, <1>2, Shaped DEF Types
<1>4. Mild /\ NextsKept /\ Pushes(n)
  BY <1>1, <1>2, <1>3, NextsFlush DEF FlushNext, ioh, Mild, FlagsSame, Pushes
<1>5. CASE Pushed(n, Cb("WriteAborted", b))
  <2>1. stack'[n + 1] = Cb("WriteAborted", b)
    BY <1>5 DEF Pushed
  <2>2. ShapeOf(n + 1)'
    <3> HIDE DEF b
    <3> QED BY <2>1, CbShape
  <2> QED BY <1>1, <1>4, <1>5, <2>2, PushNested
<1>6. CASE Turned(n, f)
  <2>1. stack'[n] = f
    BY <1>6 DEF Turned
  <2>2. n # 1 => n = 2 /\ Flushing(stack[1]) /\ stack[n].collect = FALSE
    <3>1. stack[n].collect \in BOOLEAN
      BY <1>2, Fields
    <3> QED BY <1>2, <1>3, <3>1 DEF ShapeOf
  <2>3. n # 1 => Flushing(stack[1])'
    <3>1. n # 1 => 1 \in 1 .. n - 1
      BY <1>3, <2>2
    <3>2. n # 1 => stack'[1] = stack[1]
      BY <1>6, <3>1 DEF Turned, Grown
    <3> QED BY <2>2, <3>2 DEF Flushing
  <2>4. ShapeOf(n)'
    <3> DEFINE c == stack[n].collect
               cmds == Append(stack[n].cmds, writeq[1].cmd)
    <3>1. stack'[n] = Flush(c, cmds)
      BY <2>1
    <3>2. n # 1 => n = 2 /\ Flushing(stack[1])' /\ ~c
      BY <2>2, <2>3
    <3> HIDE DEF c, cmds
    <3> QED BY <3>1, <3>2, FlushShape
  <2> HIDE DEF f
  <2> QED BY <1>1, <1>2, <1>4, <1>6, <2>4, TurnNested
<1> QED BY <1>2, <1>5, <1>6

\* The end of bk_ioh_flush leaves the activations nested.
LEMMA FlushEndNested ==
  ASSUME IInv, Nested, NEW n, n = Len(stack), FlushEnd
  PROVE  Nested'
<1>1. Types
  BY IInvIs
<1>2. /\ n >= 1 /\ n \in DOMAIN stack /\ stack[n].op = "flush"
      /\ Gone(n) \/ (Turned(n, Destroy("begin")) /\ stack[n].collect)
  BY <1>1, FlushEndStack
<1>3. ~freed /\ ~wild /\ ShapeOf(n) /\ n \in Nat
  BY <1>1, <1>2, Shaped DEF Types
<1>4. PICK cmds : intflags' = Shuts(intflags, cmds)
  BY DEF FlushEnd
<1>5. FlagsSame
  BY <1>4, ShutsIs DEF FlagsSame
<1>6. Mild /\ NextsKept
  BY <1>1, <1>2, <1>3, <1>5, NextsFlush DEF FlushEnd, Mild
<1>7. CASE Gone(n)
  BY <1>1, <1>2, <1>6, <1>7, GoneNested
<1>8. CASE Turned(n, Destroy("begin")) /\ stack[n].collect
  <2>1. n = 1
    BY <1>2, <1>3, <1>8 DEF ShapeOf
  <2>2. "destroying" \notin intflags
    BY <1>2, <1>3, <2>1 DEF Nested, Ends
  <2>3. ShapeOf(n)'
    <3>1. stack'[1] = Destroy("begin") /\ "destroying" \notin intflags'
      BY <1>5, <1>8, <2>1, <2>2 DEF Turned, FlagsSame
    <3> QED BY <2>1, <3>1, DestroyShape
  <2> QED BY <1>1, <1>2, <1>6, <1>8, <2>3, TurnNested
<1> QED BY <1>2, <1>7, <1>8

\* The command of bk_ioh_shutdown leaves the activations nested.
LEMMA ShutdownQueuesNested ==
  ASSUME IInv, Nested, NEW n, n = Len(stack), ShutdownQueues
  PROVE  Nested'
<1>1. Types /\ Counted /\ QueueInv
  BY IInvIs
<1>2. /\ n >= 1 /\ n \in DOMAIN stack /\ stack[n].op = "shutdown"
      /\ \/ Gone(n)
         \/ Turned(n, Close("begin", deferred))
         \/ \E i \in DOMAIN writeq : writeq[i].cmd = "Close" /\ ~IsData(writeq[i])
  BY <1>1, ShutdownQueuesStack
<1>3. ~freed /\ ~wild /\ ShapeOf(n) /\ n \in Nat
  BY <1>1, <1>2, Shaped DEF Types
<1>4. "closing" \notin intflags
  BY <1>2, <1>3 DEF ShapeOf
<1>5. ~\E i \in DOMAIN writeq : writeq[i].cmd = "Close" /\ ~IsData(writeq[i])
  BY <1>1, <1>4 DEF QueueInv, Commands, CommandOf
<1> DEFINE q == IF "write" \in Top.how THEN Append(writeq, Cmd("Shutdown")) ELSE writeq
           cmds == CmdsOf(Leading(q))
           s == Shuts(intflags, cmds)
           r == s \cup (IF "read" \in Top.how THEN {"shutin"} ELSE {})
                  \cup (IF "write" \notin Top.how THEN {}
                        ELSE IF Behind(q) = <<>> THEN {"shutout"} ELSE {"pend"})
<1>6. /\ writeq' = Behind(q) /\ UNCHANGED <<freed, wild>>
      /\ intflags' = s \/ intflags' = r \ {"closepending"}
  BY DEF ShutdownQueues
<1>7. Queues(q)
  BY DEF Queues
<1>8. FlagsSame
  <2>1. \A f \in r : f \in s \/ f \in {"shutin", "shutout", "pend"}
    OBVIOUS
  <2>2. s \subseteq r
    OBVIOUS
  <2>3. \A f \in {"closing", "destroying"} : f \in s <=> f \in intflags
    BY ShutsIs
  <2> HIDE DEF s, r
  <2> QED BY <1>6, <2>1, <2>2, <2>3 DEF FlagsSame
<1>9. Mild /\ NextsKept
  <2> HIDE DEF q
  <2> QED BY <1>3, <1>6, <1>7, <1>8, NextsBehind DEF Mild
<1> HIDE DEF q, cmds, s, r
<1>10. CASE Gone(n)
  BY <1>1, <1>2, <1>9, <1>10, GoneNested
<1>11. CASE Turned(n, Close("begin", deferred))
  <2>1. stack'[n] = Close("begin", deferred) /\ n = Len(stack')
    BY <1>3, <1>11 DEF Turned, Grown
  <2>2. n # 1 => stack'[n - 1].op = "callback"
    <3>1. n # 1 => n - 1 \in 1 .. n - 1
      BY <1>2, <1>3
    <3>2. n # 1 => stack'[n - 1] = stack[n - 1]
      BY <1>11, <3>1 DEF Turned, Grown
    <3> QED BY <1>2, <1>3, <3>2 DEF ShapeOf
  <2>3. ShapeOf(n)'
    BY <2>1, <2>2, CloseShape
  <2> QED BY <1>1, <1>2, <1>9, <1>11, <2>3, TurnNested
<1> QED BY <1>2, <1>5, <1>10, <1>11

\* ioh_close, before its flush, leaves the activations nested.
LEMMA CloseBeginNested ==
  ASSUME IInv, Nested, NEW n, n = Len(stack), CloseBegin
  PROVE  Nested'
<1>1. Types
  BY IInvIs
<1>2. /\ n >= 1 /\ n \in DOMAIN stack /\ stack[n].op = "close" /\ stack[n].pc = "begin"
      /\ \/ PutOff /\ Gone(n)
         \/ /\ ~PutOff /\ Gone(n)
            /\ ("closing" \in intflags /\ ~stack[n].abort) \/ "destroying" \in intflags
         \/ /\ ~PutOff /\ "destroying" \notin intflags
            /\ "closing" \notin intflags \/ stack[n].abort
            /\ IF stack[n].abort
               THEN TurnedTwo(n, Close("queue", TRUE), Flush(FALSE, <<>>))
               ELSE Turned(n, Close("queue", FALSE))
  BY <1>1, CloseBeginStack
<1>3. ~freed /\ ~wild /\ ShapeOf(n) /\ n \in Nat /\ DOMAIN stack = 1 .. n
  BY <1>1, <1>2, Shaped DEF Types
<1>4. Top = stack[n]
  BY <1>1, <1>2, TopIs DEF Types
<1>5. NextsKept /\ ~freed' /\ ~wild'
  BY <1>3, NextsSame DEF CloseBegin, queue
<1>6. CASE /\ Gone(n)
           /\ PutOff \/ ("closing" \in intflags /\ ~stack[n].abort) \/ "destroying" \in intflags
  <2>1. FlagsSame
    BY <1>4, <1>6 DEF CloseBegin, FlagsSame, Set
  <2> QED BY <1>1, <1>2, <1>3, <1>5, <1>6, <2>1, GoneNested DEF Mild
<1>7. CASE /\ ~PutOff /\ "destroying" \notin intflags
           /\ IF stack[n].abort
              THEN TurnedTwo(n, Close("queue", TRUE), Flush(FALSE, <<>>))
              ELSE Turned(n, Close("queue", FALSE))
  <2>1. n = 1
    <3> SUFFICES ASSUME n # 1 PROVE FALSE
      OBVIOUS
    <3>1. stack[n - 1].op = "callback" /\ n - 1 \in DOMAIN stack
      BY <1>2, <1>3 DEF ShapeOf
    <3> QED BY <1>7, <3>1 DEF PutOff, InCallback
  <2>2. "destroying" \notin intflags'
    BY <1>7 DEF CloseBegin
  <2>3. Ends'
    BY <1>5, <2>2 DEF Ends
  <2>4. CASE stack[n].abort
    <3> DEFINE g == Flush(FALSE, <<>>)
               f == Close("queue", TRUE)
    <3>0. TurnedTwo(1, f, g)
      BY <1>7, <2>1, <2>4
    <3>1. stack'[1] = f /\ stack'[2] = g /\ DOMAIN stack' = 1 .. 2
      <4> HIDE DEF f, g
      <4> QED BY <3>0, FirstIs
    <3>2. ShapeOf(1)' /\ Flushing(stack[1])'
      BY <3>1, QueueShape
    <3>3. ShapeOf(2)'
      <4>1. stack'[2] = Flush(FALSE, <<>>) /\ (2 # 1 => 2 = 2 /\ Flushing(stack[1])' /\ ~FALSE)
        BY <3>1, <3>2
      <4> QED BY <4>1, FlushShape
    <3>4. DOMAIN stack' = 1 .. 2
      BY <3>1
    <3>5. Shape'
      BY <3>2, <3>3, <3>4 DEF Shape
    <3> QED BY <2>3, <3>5 DEF Nested
  <2>5. CASE ~stack[n].abort
    <3> DEFINE f == Close("queue", FALSE)
    <3>0. Turned(1, f)
      BY <1>7, <2>1, <2>5
    <3>1. stack'[1] = f /\ DOMAIN stack' = 1 .. 1
      <4> HIDE DEF f
      <4> QED BY <3>0, FirstIs
    <3>2. ShapeOf(1)'
      BY <3>1, QueueShape
    <3>4. DOMAIN stack' = 1 .. 1
      BY <3>1
    <3>5. Shape'
      BY <3>2, <3>4 DEF Shape
    <3> QED BY <2>3, <3>5 DEF Nested
  <2> QED BY <2>4, <2>5
<1> QED BY <1>2, <1>6, <1>7

\* The command of ioh_close leaves the activations nested.
LEMMA CloseQueuesNested ==
  ASSUME IInv, Nested, NEW n, n = Len(stack), CloseQueues
  PROVE  Nested'
<1>1. Types
  BY IInvIs
<1>2. /\ n >= 1 /\ n \in DOMAIN stack /\ stack[n].op = "close" /\ stack[n].pc = "queue"
      /\ Turned(n, Destroy("begin")) \/ Gone(n)
  BY <1>1, CloseQueuesStack
<1>3. ~freed /\ ~wild /\ n = 1
  BY <1>1, <1>2, Shaped DEF Bottom
<1>4. PICK cmds : intflags' = Shuts(intflags \cup {"shutin", "pend"}, cmds)
  BY DEF CloseQueues
<1>5. FlagsSame
  BY <1>4, ShutsIs DEF FlagsSame
<1>6. Mild
  BY <1>3, <1>5 DEF CloseQueues, Mild
<1>7. "destroying" \notin intflags'
  BY <1>2, <1>3, <1>5 DEF Nested, Ends, FlagsSame
<1>8. CASE Gone(n)
  BY <1>1, <1>2, <1>3, <1>6, <1>8, GoneNested
<1>9. CASE Turned(n, Destroy("begin"))
  <2>1. stack'[1] = Destroy("begin")
    BY <1>3, <1>9 DEF Turned
  <2>2. ShapeOf(n)'
    BY <1>3, <1>7, <2>1, DestroyShape
  <2> QED BY <1>1, <1>2, <1>3, <1>6, <1>9, <2>2, TurnNested
<1> QED BY <1>2, <1>8, <1>9

\* bk_ioh_destroy, before its flush, leaves the activations nested.
LEMMA DestroyBeginNested ==
  ASSUME IInv, Nested, NEW n, n = Len(stack), DestroyBegin
  PROVE  Nested'
<1>1. Types
  BY IInvIs
<1>2. /\ n >= 1 /\ n \in DOMAIN stack /\ stack[n].op = "destroy" /\ stack[n].pc = "begin"
      /\ \/ "destroying" \in intflags
         \/ TurnedTwo(n, Destroy("tell"), Flush(FALSE, <<>>))
  BY <1>1, DestroyBeginStack
<1>3. ~freed /\ ~wild /\ n = 1 /\ ShapeOf(n)
  BY <1>1, <1>2, Shaped DEF Bottom
<1>4. "destroying" \notin intflags
  BY <1>2, <1>3 DEF ShapeOf
<1>5. "destroying" \in intflags' /\ ~freed' /\ ~wild'
  BY <1>3, <1>4 DEF DestroyBegin, Set
<1> DEFINE f == Destroy("tell")
           g == Flush(FALSE, <<>>)
<1>6. stack'[1] = f /\ stack'[2] = g /\ DOMAIN stack' = 1 .. 2 /\ stack' # <<>>
  <2>1. TurnedTwo(1, f, g)
    BY <1>2, <1>3, <1>4
  <2> HIDE DEF f, g
  <2> QED BY <2>1, FirstIs
<1>7. ShapeOf(1)' /\ Flushing(stack[1])' /\ stack'[1].op = "destroy"
  <2>1. f.op = "destroy"
    BY DestroyIs
  <2> QED BY <1>5, <1>6, <2>1, DestroyShape
<1>8. ShapeOf(2)'
  <2>1. stack'[2] = Flush(FALSE, <<>>) /\ (2 # 1 => 2 = 2 /\ Flushing(stack[1])' /\ ~FALSE)
    BY <1>6, <1>7
  <2> QED BY <2>1, FlushShape
<1>9. DOMAIN stack' = 1 .. 2 /\ stack' # <<>>
  BY <1>6
<1>10. Shape'
  BY <1>7, <1>8, <1>9 DEF Shape
<1>11. Ends'
  BY <1>5, <1>7, <1>9 DEF Ends
<1> QED BY <1>10, <1>11 DEF Nested

\* bk_ioh_destroy, as it tells of itself, leaves the activations nested.
LEMMA DestroyTellNested ==
  ASSUME IInv, Nested, NEW n, n = Len(stack), DestroyTell
  PROVE  Nested'
<1>1. Types
  BY IInvIs
<1>2. /\ n >= 1 /\ n \in DOMAIN stack /\ stack[n].op = "destroy" /\ stack[n].pc = "tell"
      /\ TurnedTwo(n, Destroy("free"), Cb("IohClosing", None))
  BY <1>1, DestroyTellStack
<1>3. ~freed /\ ~wild /\ n = 1 /\ ShapeOf(n)
  BY <1>1, <1>2, Shaped DEF Bottom
<1>4. "destroying" \in intflags' /\ ~freed' /\ ~wild'
  BY <1>2, <1>3 DEF ShapeOf, DestroyTell, ioh
<1> DEFINE f == Destroy("free")
           g == Cb("IohClosing", None)
<1>5. stack'[1] = f /\ stack'[2] = g /\ DOMAIN stack' = 1 .. 2 /\ stack' # <<>>
  <2>1. TurnedTwo(1, f, g)
    BY <1>2, <1>3
  <2> HIDE DEF f, g
  <2> QED BY <2>1, FirstIs
<1>6. ShapeOf(1)' /\ ShapeOf(2)' /\ stack'[1].op = "destroy"
  <2>1. f.op = "destroy"
    BY DestroyIs
  <2> QED BY <1>4, <1>5, <2>1, DestroyShape, CbShape
<1>7. DOMAIN stack' = 1 .. 2 /\ stack' # <<>>
  BY <1>5
<1>8. Shape'
  BY <1>6, <1>7 DEF Shape
<1>9. Ends'
  BY <1>4, <1>6, <1>7 DEF Ends
<1> QED BY <1>8, <1>9 DEF Nested

\* The end of bk_ioh_destroy leaves the activations nested.
LEMMA DestroyFreeNested ==
  ASSUME IInv, Nested, NEW n, n = Len(stack), DestroyFree
  PROVE  Nested'
<1>1. Types
  BY IInvIs
<1>2. n >= 1 /\ n \in DOMAIN stack /\ stack[n].op = "destroy" /\ Gone(n)
  BY <1>1, DestroyFreeStack
<1>3. ~wild /\ n = 1
  BY <1>1, <1>2, Shaped DEF Bottom
<1>4. stack' = <<>> /\ DOMAIN stack' = {}
  BY <1>2, <1>3 DEF Gone, Grown
<1>5. Shape'
  BY <1>4 DEF Shape
<1>6. Ends'
  BY <1>3, <1>4 DEF Ends, DestroyFree
<1> QED BY <1>5, <1>6 DEF Nested

\* ioh_runhandler with nothing to write leaves the activations nested.
LEMMA WriteNothingNested ==
  ASSUME IInv, Nested, NEW n, n = Len(stack), WriteNothing
  PROVE  Nested'
<1>1. Types /\ BidsTrue /\ Counted
  BY IInvIs
<1>2. /\ n >= 1 /\ n \in DOMAIN stack /\ stack[n].op = "handler"
      /\ Turned(n, Handler("read", stack[n].ready))
  BY <1>1, WriteNothingStack
<1>3. ~freed /\ ~wild /\ n = 1
  BY <1>1, <1>2, Shaped DEF Bottom
<1>4. Mild
  BY <1>3 DEF WriteNothing, ioh, Mild, FlagsSame
<1>5. CASE Turned(n, Handler("read", stack[n].ready))
  <2> DEFINE f == Handler("read", stack[n].ready)
  <2>1. stack'[1] = f /\ Len(stack') = 1
    BY <1>3, <1>5, FirstIs
  <2>2. ShapeOf(n)'
    BY <1>3, <2>1, HandlerShape
  <2> HIDE DEF f
  <2> QED BY <1>1, <1>2, <1>3, <1>4, <1>5, <2>2, TurnNested DEF f
<1> QED BY <1>2, <1>5

\* A write that fails leaves the activations nested.
LEMMA WriteFailsNested ==
  ASSUME IInv, Nested, NEW n, n = Len(stack), WriteFails
  PROVE  Nested'
<1>1. Types /\ BidsTrue /\ Counted
  BY IInvIs
<1>2. /\ n >= 1 /\ n \in DOMAIN stack /\ stack[n].op = "handler"
      /\ TurnedTwo(n, Handler("writefailed", stack[n].ready), Flush(FALSE, <<>>))
  BY <1>1, WriteFailsStack
<1>3. ~freed /\ ~wild /\ n = 1
  BY <1>1, <1>2, Shaped DEF Bottom
<1>4. Mild
  BY <1>3 DEF WriteFails, ioh, Mild, FlagsSame
<1>5. CASE TurnedTwo(n, Handler("writefailed", stack[n].ready), Flush(FALSE, <<>>))
  <2> DEFINE f == Handler("writefailed", stack[n].ready)
             g == Flush(FALSE, <<>>)
  <2>1. stack'[1] = f /\ stack'[2] = g
    BY <1>3, <1>5, FirstIs
  <2>2. ShapeOf(n)' /\ ShapeOf(n + 1)'
    <3>1. n + 1 = 2
      BY <1>3
    <3>2. ShapeOf(1)'
      BY <2>1, HandlerShape
    <3>3. ShapeOf(2)'
      <4>1. Flushing(stack[1])'
        BY <2>1, HandlerShape
      <4>2. stack'[2] = Flush(FALSE, <<>>) /\ (2 # 1 => 2 = 2 /\ Flushing(stack[1])' /\ ~FALSE)
        BY <2>1, <4>1
      <4> QED BY <4>2, FlushShape
    <3> QED BY <1>3, <3>1, <3>2, <3>3
  <2> HIDE DEF f, g
  <2> QED BY <1>1, <1>2, <1>3, <1>4, <1>5, <2>2, TurnTwoNested DEF f, g
<1> QED BY <1>2, <1>5

\* Word of a write that failed leaves the activations nested.
LEMMA WriteFailedNested ==
  ASSUME IInv, Nested, NEW n, n = Len(stack), WriteFailed
  PROVE  Nested'
<1>1. Types /\ BidsTrue /\ Counted
  BY IInvIs
<1>2. /\ n >= 1 /\ n \in DOMAIN stack /\ stack[n].op = "handler"
      /\ TurnedTwo(n, Handler("wrote", stack[n].ready), Cb("WriteError", None))
  BY <1>1, WriteFailedStack
<1>3. ~freed /\ ~wild /\ n = 1
  BY <1>1, <1>2, Shaped DEF Bottom
<1>4. Mild
  BY <1>3 DEF WriteFailed, ioh, Mild, FlagsSame
<1>5. CASE TurnedTwo(n, Handler("wrote", stack[n].ready), Cb("WriteError", None))
  <2> DEFINE f == Handler("wrote", stack[n].ready)
             g == Cb("WriteError", None)
  <2>1. stack'[1] = f /\ stack'[2] = g
    BY <1>3, <1>5, FirstIs
  <2>2. ShapeOf(n)' /\ ShapeOf(n + 1)'
    <3>1. n + 1 = 2
      BY <1>3
    <3>2. ShapeOf(1)'
      BY <2>1, HandlerShape
    <3>3. ShapeOf(2)'
      BY <2>1, CbShape
    <3> QED BY <1>3, <3>1, <3>2, <3>3
  <2> HIDE DEF f, g
  <2> QED BY <1>1, <1>2, <1>3, <1>4, <1>5, <2>2, TurnTwoNested DEF f, g
<1> QED BY <1>2, <1>5

\* A read leaves the activations nested.
LEMMA ReadSomeNested ==
  ASSUME IInv, Nested, NEW n, n = Len(stack), ReadSome
  PROVE  Nested'
<1>1. Types /\ BidsTrue /\ Counted
  BY IInvIs
<1>2. /\ n >= 1 /\ n \in DOMAIN stack /\ stack[n].op = "handler"
      /\ TurnedTwo(n, Handler("rmsg", {}), Cb("ReadComplete", None))
  BY <1>1, ReadSomeStack
<1>3. ~freed /\ ~wild /\ n = 1
  BY <1>1, <1>2, Shaped DEF Bottom
<1>4. Mild
  BY <1>3 DEF ReadSome, ioh, Mild, FlagsSame
<1>5. CASE TurnedTwo(n, Handler("rmsg", {}), Cb("ReadComplete", None))
  <2> DEFINE f == Handler("rmsg", {})
             g == Cb("ReadComplete", None)
  <2>1. stack'[1] = f /\ stack'[2] = g
    BY <1>3, <1>5, FirstIs
  <2>2. ShapeOf(n)' /\ ShapeOf(n + 1)'
    <3>1. n + 1 = 2
      BY <1>3
    <3>2. ShapeOf(1)'
      BY <2>1, HandlerShape
    <3>3. ShapeOf(2)'
      BY <2>1, CbShape
    <3> QED BY <1>3, <3>1, <3>2, <3>3
  <2> HIDE DEF f, g
  <2> QED BY <1>1, <1>2, <1>3, <1>4, <1>5, <2>2, TurnTwoNested DEF f, g
<1> QED BY <1>2, <1>5

\* A read of nothing leaves the activations nested.
LEMMA ReadNothingNested ==
  ASSUME IInv, Nested, NEW n, n = Len(stack), ReadNothing
  PROVE  Nested'
<1>1. Types /\ BidsTrue /\ Counted
  BY IInvIs
<1>2. /\ n >= 1 /\ n \in DOMAIN stack /\ stack[n].op = "handler"
      /\ Turned(n, Handler("end", {}))
  BY <1>1, ReadNothingStack
<1>3. ~freed /\ ~wild /\ n = 1
  BY <1>1, <1>2, Shaped DEF Bottom
<1>4. Mild
  BY <1>3 DEF ReadNothing, ioh, Mild, FlagsSame
<1>5. CASE Turned(n, Handler("end", {}))
  <2> DEFINE f == Handler("end", {})
  <2>1. stack'[1] = f /\ Len(stack') = 1
    BY <1>3, <1>5, FirstIs
  <2>2. ShapeOf(n)'
    BY <1>3, <2>1, HandlerShape
  <2> HIDE DEF f
  <2> QED BY <1>1, <1>2, <1>3, <1>4, <1>5, <2>2, TurnNested DEF f
<1> QED BY <1>2, <1>5

\* A read at the end or in error leaves the activations nested.
LEMMA ReadEndsNested ==
  ASSUME IInv, Nested, NEW n, n = Len(stack), NEW status \in {"ReadEOF", "ReadError"},
         ReadEnds(status)
  PROVE  Nested'
<1>1. Types /\ BidsTrue /\ Counted
  BY IInvIs
<1>2. /\ n >= 1 /\ n \in DOMAIN stack /\ stack[n].op = "handler"
      /\ TurnedTwo(n, Handler(status, {}), Cb(status, None))
  BY <1>1, ReadEndsStack
<1>3. ~freed /\ ~wild /\ n = 1
  BY <1>1, <1>2, Shaped DEF Bottom
<1>4. Mild
  BY <1>3 DEF ReadEnds, ioh, Mild, FlagsSame
<1>5. CASE TurnedTwo(n, Handler(status, {}), Cb(status, None))
  <2> DEFINE f == Handler(status, {})
             g == Cb(status, None)
  <2>1. stack'[1] = f /\ stack'[2] = g
    BY <1>3, <1>5, FirstIs
  <2>2. ShapeOf(n)' /\ ShapeOf(n + 1)'
    <3>1. n + 1 = 2
      BY <1>3
    <3>2. ShapeOf(1)'
      BY <2>1, HandlerShape
    <3>3. ShapeOf(2)'
      BY <2>1, CbShape
    <3> QED BY <1>3, <3>1, <3>2, <3>3
  <2> HIDE DEF f, g
  <2> QED BY <1>1, <1>2, <1>3, <1>4, <1>5, <2>2, TurnTwoNested DEF f, g
<1> QED BY <1>2, <1>5

\* The return of what was read leaves the activations nested.
LEMMA ReceivedNested ==
  ASSUME IInv, Nested, NEW n, n = Len(stack), Received
  PROVE  Nested'
<1>1. Types /\ BidsTrue /\ Counted
  BY IInvIs
<1>2. /\ n >= 1 /\ n \in DOMAIN stack /\ stack[n].op = "handler"
      /\ Turned(n, Handler("end", {}))
  BY <1>1, ReceivedStack
<1>3. ~freed /\ ~wild /\ n = 1
  BY <1>1, <1>2, Shaped DEF Bottom
<1>4. Mild
  BY <1>3 DEF Received, ioh, Mild, FlagsSame
<1>5. CASE Turned(n, Handler("end", {}))
  <2> DEFINE f == Handler("end", {})
  <2>1. stack'[1] = f /\ Len(stack') = 1
    BY <1>3, <1>5, FirstIs
  <2>2. ShapeOf(n)'
    BY <1>3, <2>1, HandlerShape
  <2> HIDE DEF f
  <2> QED BY <1>1, <1>2, <1>3, <1>4, <1>5, <2>2, TurnNested DEF f
<1> QED BY <1>2, <1>5

\* The end of the input leaves the activations nested.
LEMMA ReadEndedNested ==
  ASSUME IInv, Nested, NEW n, n = Len(stack), ReadEnded
  PROVE  Nested'
<1>1. Types /\ BidsTrue /\ Counted
  BY IInvIs
<1>2. /\ n >= 1 /\ n \in DOMAIN stack /\ stack[n].op = "handler"
      /\ Turned(n, Handler(IF stack[n].pc = "ReadEOF" THEN "end" ELSE "failed", {}))
  BY <1>1, ReadEndedStack
<1>3. ~freed /\ ~wild /\ n = 1
  BY <1>1, <1>2, Shaped DEF Bottom
<1>4. Mild
  BY <1>3 DEF ReadEnded, ioh, Mild, FlagsSame
<1>5. CASE Turned(n, Handler(IF stack[n].pc = "ReadEOF" THEN "end" ELSE "failed", {}))
  <2> DEFINE f == Handler(IF stack[n].pc = "ReadEOF" THEN "end" ELSE "failed", {})
  <2>1. stack'[1] = f /\ Len(stack') = 1
    BY <1>3, <1>5, FirstIs
  <2>2. ShapeOf(n)'
    BY <1>3, <2>1, HandlerShape
  <2> HIDE DEF f
  <2> QED BY <1>1, <1>2, <1>3, <1>4, <1>5, <2>2, TurnNested DEF f
<1> QED BY <1>2, <1>5

\* The end of ioh_dequeue_byte leaves the activations nested.
LEMMA DequeueEndNested ==
  ASSUME IInv, Nested, NEW n, n = Len(stack), DequeueEnd
  PROVE  Nested'
<1>1. Types /\ BidsTrue /\ Counted
  BY IInvIs
<1>2. /\ n >= 1 /\ n \in DOMAIN stack /\ stack[n].op = "dequeue"
      /\ \E pc \in {"write", "read"} : Turned(n, Handler(pc, stack[n].ready))
  BY <1>1, DequeueEndStack
<1>3. ~freed /\ ~wild /\ n = 1
  BY <1>1, <1>2, Shaped DEF Bottom
<1>4. Mild
  BY <1>3 DEF DequeueEnd, ioh, Mild, FlagsSame
<1>5. PICK pc : Turned(n, Handler(pc, stack[n].ready))
  BY <1>2
<1> DEFINE f == Handler(pc, stack[n].ready)
<1>6. stack'[1] = f
  BY <1>3, <1>5, FirstIs
<1>7. ShapeOf(n)'
  BY <1>3, <1>6, HandlerShape
<1> HIDE DEF f
<1> QED BY <1>1, <1>2, <1>3, <1>4, <1>5, <1>7, TurnNested DEF f

\* A write leaves the activations nested.
LEMMA WriteSomeNested ==
  ASSUME IInv, Nested, NEW n, n = Len(stack), NEW m \in 1 .. ToWrite, WriteSome(m)
  PROVE  Nested'
<1>1. Types /\ BidsTrue
  BY IInvIs
<1> DEFINE f == Written(m, writeq[1].buf, stack[n].ready)
<1>2. /\ n >= 1 /\ n \in DOMAIN stack /\ stack[n].op = "handler"
      /\ writeq # <<>> /\ Turned(n, f)
  BY <1>1, WriteSomeStack
<1>3. ~freed /\ ~wild /\ n = 1
  BY <1>1, <1>2, Shaped DEF Bottom
<1>4. Mild
  BY <1>3 DEF WriteSome, ioh, Mild, FlagsSame
<1>5. ShapeOf(n)'
  <2>1. stack'[1] = f
    BY <1>2, <1>3, FirstIs
  <2>2. 1 \in DOMAIN writeq' /\ writeq'[1].buf = writeq[1].buf
    <3>1. writeq' = writeq
      BY DEF WriteSome, queue
    <3> QED BY <1>1, <1>2, <3>1 DEF Types
  <2> DEFINE x == writeq[1].buf
  <2>3. \E j \in DOMAIN writeq' : writeq'[j].buf = x
    BY <2>2
  <2> HIDE DEF x
  <2> QED BY <1>3, <2>1, <2>3, WrittenShape DEF x
<1> HIDE DEF f
<1> QED BY <1>1, <1>2, <1>3, <1>4, <1>5, TurnNested

\* The end of ioh_runhandler leaves the activations nested.
LEMMA HandlerEndNested ==
  ASSUME IInv, Nested, NEW n, n = Len(stack), HandlerEnd
  PROVE  Nested'
<1>1. Types /\ Counted
  BY IInvIs
<1>2. /\ n >= 1 /\ n \in DOMAIN stack /\ stack[n].op = "handler"
      /\ \/ Turned(n, Close("begin", deferred))
         \/ Turned(n, Close("begin", TRUE))
         \/ Gone(n)
         \/ Turned(n, Destroy("begin"))
  BY <1>1, HandlerEndStack
<1>3. ~freed /\ ~wild /\ n = 1
  BY <1>1, <1>2, Shaped DEF Bottom
<1>4. FlagsSame
  <2>1. \/ intflags' = intflags \ {"closepending"}
        \/ \E cmds : intflags' = Shuts(intflags, cmds)
    BY DEF HandlerEnd
  <2> QED BY <2>1, ShutsIs DEF FlagsSame
<1>5. Mild
  BY <1>3, <1>4 DEF HandlerEnd, Mild
<1>6. ASSUME NEW a, Turned(n, Close("begin", a)) PROVE Nested'
  <2> DEFINE f == Close("begin", a)
  <2>1. stack'[1] = f /\ Len(stack') = 1
    BY <1>3, <1>6, FirstIs
  <2>2. ShapeOf(n)'
    BY <1>3, <2>1, CloseShape
  <2> HIDE DEF f
  <2> QED BY <1>1, <1>2, <1>3, <1>5, <1>6, <2>2, TurnNested DEF f
<1>7. CASE Turned(n, Destroy("begin"))
  <2> DEFINE f == Destroy("begin")
  <2>1. stack'[1] = f
    BY <1>3, <1>7, FirstIs
  <2>2. "destroying" \notin intflags'
    BY <1>2, <1>3, <1>4 DEF Nested, Ends, FlagsSame
  <2>3. ShapeOf(n)'
    BY <1>3, <2>1, <2>2, DestroyShape
  <2> HIDE DEF f
  <2> QED BY <1>1, <1>2, <1>3, <1>5, <1>7, <2>3, TurnNested DEF f
<1>8. CASE Gone(n)
  BY <1>1, <1>2, <1>3, <1>5, <1>8, GoneNested
<1> QED BY <1>2, <1>6, <1>7, <1>8

\* ioh_dequeue_byte, with a bid in hand, leaves the activations nested.
LEMMA DequeueByteNested ==
  ASSUME IInv, Nested, NEW n, n = Len(stack), DequeueByte
  PROVE  Nested'
<1>1. Types /\ BidsTrue
  BY IInvIs
<1>2. /\ n >= 1 /\ n \in DOMAIN stack /\ stack[n].op = "dequeue" /\ stack[n].next \in Buf
      /\ \/ ~Queued(stack[n].next)
         \/ /\ wild' = wild
            /\ \E i \in DOMAIN writeq :
                 \/ Turned(n, Written(0, None, stack[n].ready))
                 \/ /\ writeq' = RemoveAt(writeq, i)
                    /\ \E m \in Nat :
                         TurnedTwo(n,
                           Written(m, IF i < Len(writeq) THEN writeq[i + 1].buf ELSE None,
                                   stack[n].ready),
                           Cb("WriteComplete", writeq[i].buf))
  BY <1>1, DequeueByteStack
<1>3. ~freed /\ ~wild /\ n = 1 /\ ShapeOf(n)
  BY <1>1, <1>2, Shaped DEF Bottom
<1>4. Queued(stack[n].next)
  BY <1>2, <1>3, ModeAssumption DEF ShapeOf
<1>5. Mild
  BY <1>2, <1>3, <1>4 DEF DequeueByte, Mild, FlagsSame
<1>6. CASE Turned(n, Written(0, None, stack[n].ready))
  <2> DEFINE f == Written(0, None, stack[n].ready)
  <2>1. stack'[1] = f
    BY <1>3, <1>6, FirstIs
  <2>2. ShapeOf(n)'
    BY <1>3, <2>1, WrittenShape
  <2> HIDE DEF f
  <2> QED BY <1>1, <1>2, <1>3, <1>5, <1>6, <2>2, TurnNested DEF f
<1>7. ASSUME NEW i \in DOMAIN writeq, writeq' = RemoveAt(writeq, i), NEW m,
             TurnedTwo(n, Written(m, IF i < Len(writeq) THEN writeq[i + 1].buf ELSE None,
                                  stack[n].ready),
                       Cb("WriteComplete", writeq[i].buf))
      PROVE  Nested'
  <2> DEFINE x == IF i < Len(writeq) THEN writeq[i + 1].buf ELSE None
             b == writeq[i].buf
             f == Written(m, x, stack[n].ready)
             g == Cb("WriteComplete", b)
  <2>1. stack'[1] = f /\ stack'[2] = g
    BY <1>3, <1>7, FirstIs
  <2>2. x # None => \E j \in DOMAIN writeq' : writeq'[j].buf = x
    <3> SUFFICES ASSUME i < Len(writeq)
                 PROVE  \E j \in DOMAIN writeq' : writeq'[j].buf = writeq[i + 1].buf
      OBVIOUS
    <3>1. i \in 1 .. Len(writeq) /\ Len(writeq) \in Nat
      BY <1>1 DEF Types
    <3>2. /\ writeq' \in Seq(Bid) /\ Len(writeq') = Len(writeq) - 1
          /\ \A j \in 1 .. Len(writeq) - 1 :
               writeq'[j] = IF j < i THEN writeq[j] ELSE writeq[j + 1]
      BY <1>1, <1>7, <3>1, RemoveAtIs DEF Types
    <3>3. i \in 1 .. Len(writeq) - 1 /\ ~(i < i)
      BY <3>1
    <3>4. i \in DOMAIN writeq' /\ writeq'[i] = writeq[i + 1]
      BY <3>2, <3>3
    <3> QED BY <3>4
  <2> HIDE DEF x, b
  <2>3. ShapeOf(1)' /\ ShapeOf(2)'
    BY <2>1, <2>2, WrittenShape, CbShape
  <2>4. ShapeOf(n)' /\ ShapeOf(n + 1)'
    <3>1. n + 1 = 2
      BY <1>3
    <3> QED BY <1>3, <2>3, <3>1
  <2>5. TurnedTwo(n, f, g)
    BY <1>7 DEF x, b
  <2> HIDE DEF f, g
  <2> QED BY <1>1, <1>2, <1>3, <1>5, <2>4, <2>5, TurnTwoNested
<1> QED BY <1>2, <1>4, <1>6, <1>7

-----------------------------------------------------------------------------
(* No function goes on in an ioh that was freed                            *)

\* Every step leaves the activations nested.
LEMMA NextNested == CallbacksRest /\ IInv /\ Nested /\ [Next]_vars => Nested'
<1> SUFFICES ASSUME CallbacksRest, IInv, Nested, [Next]_vars PROVE Nested'
  OBVIOUS
<1>1. CASE Program
  <2>1. ASSUME NEW b \in Buf, NEW bypass \in BOOLEAN, Write(b, bypass) PROVE Nested'
    BY <2>1, WriteNested
  <2>2. ASSUME NEW allowed \in BOOLEAN, Readallowed(allowed) PROVE Nested'
    BY <2>2, ReadallowedNested
  <2>3. ASSUME NEW how \in SUBSET {"read", "write"}, FlushCall(how) PROVE Nested'
    BY <2>3, FlushCallNested
  <2>4. ASSUME NEW how \in SUBSET {"read", "write"}, ShutdownCall(how) PROVE Nested'
    BY <2>4, ShutdownCallNested
  <2>5. ASSUME NEW abort \in BOOLEAN, CloseCall(abort) PROVE Nested'
    BY <2>5, CloseCallNested
  <2>6. CASE RunDestroy
    BY <2>6, RunDestroyNested
  <2> QED BY <1>1, <2>1, <2>2, <2>3, <2>4, <2>5, <2>6 DEF Program
<1>2. CASE CallbackReturns
  BY <1>2, CallbackReturnsNested
<1>3. ASSUME NEW ready \in SUBSET {"read", "write"}, Dispatch(ready) PROVE Nested'
  BY <1>3, DispatchNested
<1>4. CASE Internal
  <2>1. ASSUME NEW m \in 1 .. ToWrite, WriteSome(m) PROVE Nested'
    BY <2>1, WriteSomeNested
  <2>2. ASSUME NEW status \in {"ReadEOF", "ReadError"}, ReadEnds(status) PROVE Nested'
    BY <2>2, ReadEndsNested
  <2>3. FlushNext => Nested'
    BY FlushNextNested
  <2>4. FlushEnd => Nested'
    BY FlushEndNested
  <2>5. ShutdownQueues => Nested'
    BY ShutdownQueuesNested
  <2>6. CloseBegin => Nested'
    BY CloseBeginNested
  <2>7. CloseQueues => Nested'
    BY CloseQueuesNested
  <2>8. DestroyBegin => Nested'
    BY DestroyBeginNested
  <2>9. DestroyTell => Nested'
    BY DestroyTellNested
  <2>10. DestroyFree => Nested'
    BY DestroyFreeNested
  <2>11. WriteNothing => Nested'
    BY WriteNothingNested
  <2>12. WriteFails => Nested'
    BY WriteFailsNested
  <2>13. WriteFailed => Nested'
    BY WriteFailedNested
  <2>14. DequeueByte => Nested'
    BY DequeueByteNested
  <2>15. DequeueEnd => Nested'
    BY DequeueEndNested
  <2>16. ReadSome => Nested'
    BY ReadSomeNested
  <2>17. ReadNothing => Nested'
    BY ReadNothingNested
  <2>18. Received => Nested'
    BY ReceivedNested
  <2>19. ReadEnded => Nested'
    BY ReadEndedNested
  <2>20. HandlerEnd => Nested'
    BY HandlerEndNested
  <2> QED BY <1>4, <2>1, <2>2, <2>3, <2>4, <2>5, <2>6, <2>7, <2>8, <2>9, <2>10, <2>11, <2>12,
             <2>13, <2>14, <2>15, <2>16, <2>17, <2>18, <2>19, <2>20 DEF Internal
<1>5. CASE UNCHANGED vars
  <2>1. UNCHANGED <<stack, intflags, writeq, freed, wild>>
    BY <1>5 DEF vars, ioh, queue
  <2>2. \A i \in DOMAIN stack : ShapeOf(i) => ShapeOf(i)'
    BY <2>1 DEF ShapeOf, Bottom, Flushing, Queued
  <2> QED BY <2>1, <2>2 DEF Nested, Ends, Shape
<1> QED BY <1>1, <1>2, <1>3, <1>4, <1>5 DEF Next

\* Initially nobody runs.
LEMMA InitNested == Init => Nested
BY DEF Init, Nested, Ends, Shape

\* If callbacks neither flush the ioh nor run the loop, the activations are nested in
\* every state that the ioh reaches.
THEOREM NestedHolds == CallbacksRest => (Spec => []Nested)
<1> SUFFICES ASSUME CallbacksRest PROVE Spec => []Nested
  OBVIOUS
<1>1. CallbacksRest
  OBVIOUS
<1>2. IInv /\ Nested /\ [Next]_vars => Nested'
  BY NextNested
<1> QED BY <1>2, InitNested, Inductive, PTL DEF Spec

\* If callbacks neither flush the ioh nor run the loop, no function goes on in an ioh
\* that a callback had freed, nor with a bid: closing and aborting are put off.
THEOREM NoWildPointerHolds == CallbacksRest => (Spec => []NoWildPointer)
<1>1. Nested => NoWildPointer
  BY DEF Nested, Ends, NoWildPointer
<1> QED BY <1>1, NestedHolds, PTL

-----------------------------------------------------------------------------
(* What is on the queue moves                                              *)

\* An activation after which the ioh is gone
Dead(f) == f.op = "destroy" \/ (f.op = "close" /\ f.abort)
\* The ioh is gone or will be when the stack is empty.
Dying == freed \/ (stack # <<>> /\ Dead(stack[1]))
\* Somebody flushes the queue.
HasFlush == \E i \in DOMAIN stack : stack[i].op = "flush"
\* Somebody who sees to the queue before the run loop is waited for
Serves(f) == f.op \in {"handler", "dequeue", "close", "destroy"}
\* Somebody does, or flushes.
Serving == stack # <<>> /\ (Serves(stack[1]) \/ HasFlush)
\* The queue holds data.
HasData == \E i \in DOMAIN writeq : IsData(writeq[i])
\* Only an abort closes an ioh that is closing, or has a close put off.
Once(f, flags) ==
  f.op = "close" /\ f.pc = "begin" /\ ~f.abort => flags \cap {"closing", "closepending"} = {}
\* ioh_close is called once.
Closes == \A i \in DOMAIN stack : Once(stack[i], intflags)
\* A close that is put off when the ioh closes already is an abort.
Put == {"closing", "closepending"} \subseteq intflags => deferred \/ Dying
\* What is to be written is asked for,
Wanted == HasData /\ ~HasFlush /\ ~freed => "write" \in want /\ "errout" \notin intflags
\* and the output is not shut down.
ShutOut == HasData => "shutout" \notin intflags
\* Commands in front are seen to.
Cleared == writeq # <<>> /\ ~IsData(writeq[1]) /\ ~freed => Serving
\* What is on the queue moves.
Moving == Closes /\ Put /\ Wanted /\ ShutOut /\ Cleared

\* What a step does to the stack, seen from what is below it
Passes == /\ HasFlush => HasFlush'
          /\ Serving => Serving'
          /\ Dying => Dying'

\* A flush, and who sees to the queue, stay until they return.
LEMMA StackPasses ==
  ASSUME Types, NEW n, n = Len(stack), NEW m, NEW k \in {0, 1, 2}, Grown(m, k), freed' = freed,
         m = n \/ m = n - 1,
         m # n => \/ stack[n].op # "flush"
                  \/ k # 0 /\ stack'[n].op = "flush"
                  \/ k = 2 /\ stack'[n + 1].op = "flush",
         m = 0 /\ n # 0 => k # 0 /\ (Serves(stack[1]) => Serves(stack'[1]))
                                 /\ (Dead(stack[1]) => Dead(stack'[1]))
  PROVE  Passes
<1>1. /\ n \in Nat /\ m \in Nat /\ DOMAIN stack = 1 .. n /\ DOMAIN stack' = 1 .. m + k
      /\ stack' \in Seq(Activation) /\ Len(stack') = m + k
      /\ \A i \in 1 .. m : stack'[i] = stack[i]
  BY DEF Types, Grown
<1>2. HasFlush => HasFlush'
  <2> SUFFICES ASSUME NEW i \in 1 .. n, stack[i].op = "flush" PROVE HasFlush'
    BY <1>1 DEF HasFlush
  <2>1. CASE i \in 1 .. m
    <3>1. i \in DOMAIN stack' /\ stack'[i].op = "flush"
      BY <1>1, <2>1
    <3> QED BY <3>1 DEF HasFlush
  <2>2. CASE i \notin 1 .. m
    <3>1. i = n /\ m = n - 1
      BY <1>1, <2>2
    <3>2. k # 0 => n \in DOMAIN stack'
      BY <1>1, <3>1
    <3>3. k = 2 => n + 1 \in DOMAIN stack'
      BY <1>1, <3>1
    <3> QED BY <1>1, <3>1, <3>2, <3>3 DEF HasFlush
  <2> QED BY <2>1, <2>2
<1>3. ASSUME stack # <<>> PROVE stack' # <<>> /\ (m = 0 \/ stack'[1] = stack[1])
  <2>1. n # 0
    BY <1>1, <1>3
  <2>2. m # 0 \/ k # 0
    BY <2>1
  <2>3. m + k # 0
    BY <1>1, <2>2
  <2>4. stack' # <<>>
    BY <1>1, <2>3
  <2>5. m # 0 => 1 \in 1 .. m
    BY <1>1
  <2> QED BY <1>1, <2>4, <2>5
<1>4. stack # <<>> => n # 0
  BY <1>1
<1>5. Serving => Serving'
  BY <1>2, <1>3, <1>4 DEF Serving
<1>6. Dying => Dying'
  BY <1>3, <1>4 DEF Dying
<1> QED BY <1>2, <1>5, <1>6 DEF Passes

\* A step that leaves the queue alone, and the flags and requests at most for the
\* better, leaves it moving.
LEMMA QuietMoving ==
  ASSUME Moving, Passes, UNCHANGED <<writeq, deferred, freed>>,
         \A f \in {"closing", "closepending", "errout", "shutout"} :
           f \in intflags' => f \in intflags,
         "write" \in want /\ HasData /\ ~HasFlush => "write" \in want',
         Closes'
  PROVE  Moving'
<1>1. Put'
  BY DEF Moving, Put, Passes
<1>2. HasData' <=> HasData
  BY DEF HasData
<1>3. Wanted'
  BY <1>2 DEF Moving, Wanted, Passes
<1>4. ShutOut'
  BY <1>2 DEF Moving, ShutOut
<1>5. Cleared'
  BY DEF Moving, Cleared, Passes
<1> QED BY <1>1, <1>3, <1>4, <1>5 DEF Moving

\* ioh_close is called once, if the new activations of it are the first.
LEMMA ClosesKept ==
  ASSUME Types, Moving, NEW m, NEW k \in {0, 1, 2}, Grown(m, k),
         \A i \in 1 .. m : Once(stack[i], intflags) => Once(stack[i], intflags'),
         \A i \in m + 1 .. m + k : Once(stack'[i], intflags')
  PROVE  Closes'
<1>1. /\ m \in Nat /\ m <= Len(stack) /\ Len(stack) \in Nat /\ DOMAIN stack = 1 .. Len(stack)
      /\ DOMAIN stack' = 1 .. m + k
  BY DEF Types, Grown
<1> SUFFICES ASSUME NEW i \in DOMAIN stack' PROVE Once(stack'[i], intflags')
  BY DEF Closes
<1>2. CASE i \in 1 .. m
  <2>1. i \in DOMAIN stack
    BY <1>1, <1>2
  <2> QED BY <1>2, <2>1 DEF Grown, Moving, Closes
<1>3. CASE i \notin 1 .. m
  <2>1. i \in m + 1 .. m + k
    BY <1>1, <1>3
  <2> QED BY <2>1
<1> QED BY <1>2, <1>3

\* The activations that are not a second close
LEMMA OnceIs ==
  ASSUME NEW flags
  PROVE  /\ \A s, b : Once(Cb(s, b), flags)
         /\ \A pc, ready : Once(Handler(pc, ready), flags)
         /\ \A bytes, next, ready : Once(Written(bytes, next, ready), flags)
         /\ \A collect, cmds : Once(Flush(collect, cmds), flags)
         /\ Once(Close("begin", TRUE), flags)
         /\ \A abort : flags \cap {"closing", "closepending"} = {}
                        => Once(Close("begin", abort), flags)
         /\ \A abort : Once(Close("queue", abort), flags)
         /\ \A pc, how : Once(Shutdown(pc, how), flags)
         /\ \A pc : Once(Destroy(pc), flags)
BY DEF Once, Cb, Handler, Written, Flush, Close, Shutdown, Destroy, Frame

\* A step that leaves the queue alone, and flags and requests at most for the better
Calm ==
  /\ UNCHANGED <<writeq, deferred, freed>>
  /\ \A f \in {"closing", "closepending", "errout", "shutout"} : f \in intflags' => f \in intflags
  /\ "write" \in want /\ HasData /\ ~HasFlush => "write" \in want'

\* What the new activations do for the one they take the place of
Replaces(n, m, k) ==
  /\ m = n \/ m = n - 1
  /\ m # n => \/ stack[n].op # "flush"
              \/ k # 0 /\ stack'[n].op = "flush"
              \/ k = 2 /\ stack'[n + 1].op = "flush"
  /\ m = 0 /\ n # 0 => /\ Serves(stack[1]) => k # 0 /\ Serves(stack'[1])
                       /\ Dead(stack[1]) => k # 0 /\ Dead(stack'[1])

\* They do what it did.
LEMMA PassesIs ==
  ASSUME Types, NEW n, n = Len(stack), NEW m, NEW k \in {0, 1, 2}, Grown(m, k), freed' = freed,
         Replaces(n, m, k)
  PROVE  Passes
<1>1. CASE m = 0 /\ n # 0 /\ k = 0
  <2>1. /\ n = 1 /\ ~Serves(stack[1]) /\ ~Dead(stack[1]) /\ stack[1].op # "flush"
        /\ DOMAIN stack = 1 .. 1
    BY <1>1 DEF Replaces, Types
  <2>2. ~HasFlush
    BY <2>1 DEF HasFlush
  <2> QED BY <2>1, <2>2 DEF Passes, Serving, Dying
<1>2. CASE m = 0 /\ n # 0 /\ k # 0
  BY <1>2, StackPasses DEF Replaces
<1>3. CASE ~(m = 0 /\ n # 0)
  BY <1>3, StackPasses DEF Replaces
<1> QED BY <1>1, <1>2, <1>3

\* A calm step leaves the queue moving,
LEMMA CalmStep ==
  ASSUME Types, Moving, NEW n, n = Len(stack), NEW m, NEW k \in {0, 1, 2}, Grown(m, k), Calm,
         Replaces(n, m, k), \A i \in m + 1 .. m + k : Once(stack'[i], intflags')
  PROVE  Moving'
<1>1. Passes
  BY PassesIs DEF Calm
<1>2. \A f : Once(f, intflags) => Once(f, intflags')
  BY DEF Once, Calm
<1>3. Closes'
  BY <1>2, ClosesKept
<1> QED BY <1>1, <1>3, QuietMoving DEF Calm

\* when it calls,
LEMMA CalmPush ==
  ASSUME Types, Moving, NEW n, n = Len(stack), NEW f, Pushed(n, f), Calm, Once(f, intflags')
  PROVE  Moving'
<1>1. Grown(n, 1) /\ Replaces(n, n, 1) /\ n \in Nat
  BY DEF Pushed, Replaces, Types
<1>2. \A i \in n + 1 .. n + 1 : Once(stack'[i], intflags')
  BY <1>1 DEF Pushed
<1> QED BY <1>1, <1>2, CalmStep

\* when it calls two,
LEMMA CalmPushTwo ==
  ASSUME Types, Moving, NEW n, n = Len(stack), NEW f, NEW g, PushedTwo(n, f, g), Calm,
         Once(f, intflags'), Once(g, intflags')
  PROVE  Moving'
<1>1. Grown(n, 2) /\ Replaces(n, n, 2) /\ n \in Nat
  BY DEF PushedTwo, Replaces, Types
<1>2. \A i \in n + 1 .. n + 2 : Once(stack'[i], intflags')
  <2> SUFFICES ASSUME NEW i \in n + 1 .. n + 2 PROVE Once(stack'[i], intflags')
    OBVIOUS
  <2>1. i = n + 1 \/ i = n + 2
    BY <1>1
  <2> QED BY <2>1 DEF PushedTwo
<1> QED BY <1>1, <1>2, CalmStep

\* The only one above none
LEMMA OneLess == \A a \in Nat : a - 1 = 0 => a = 1
OBVIOUS

\* The activation f in the place of the running one, which sees to the queue no less
Relieves(n, f) ==
  /\ stack[n].op = "flush" => f.op = "flush"
  /\ n = 1 => (Serves(stack[1]) => Serves(f)) /\ (Dead(stack[1]) => Dead(f))

\* Who takes the place of another does what that did,
LEMMA TurnReplaces ==
  ASSUME Types, NEW n, n = Len(stack), NEW f, Turned(n, f), Relieves(n, f)
  PROVE  Grown(n - 1, 1) /\ Replaces(n, n - 1, 1) /\ n \in Nat /\ n - 1 \in Nat
<1>1. Grown(n - 1, 1) /\ n \in Nat /\ n >= 1 /\ n - 1 \in Nat
  BY DEF Turned, Types
<1>2. n - 1 = 0 => n = 1
  BY <1>1, OneLess
<1>3. n = 1 => stack'[1] = f
  BY DEF Turned
<1> QED BY <1>1, <1>2, <1>3 DEF Turned, Replaces, Relieves

\* so do two,
LEMMA TurnTwoReplaces ==
  ASSUME Types, NEW n, n = Len(stack), NEW f, NEW g, TurnedTwo(n, f, g), stack[n].op # "flush",
         Relieves(n, f)
  PROVE  Grown(n - 1, 2) /\ Replaces(n, n - 1, 2) /\ n \in Nat /\ n - 1 \in Nat
<1>1. Grown(n - 1, 2) /\ n \in Nat /\ n >= 1 /\ n - 1 \in Nat
  BY DEF TurnedTwo, Types
<1>2. n - 1 = 0 => n = 1
  BY <1>1, OneLess
<1>3. n = 1 => stack'[1] = f
  BY DEF TurnedTwo
<1> QED BY <1>1, <1>2, <1>3 DEF TurnedTwo, Replaces, Relieves

\* and so does nobody for one who need do nothing.
LEMMA GoneReplaces ==
  ASSUME Types, NEW n, n = Len(stack), Gone(n), stack[n].op # "flush",
         n = 1 => ~Serves(stack[n]) /\ ~Dead(stack[n])
  PROVE  Grown(n - 1, 0) /\ Replaces(n, n - 1, 0) /\ n \in Nat /\ n - 1 \in Nat
<1>1. Grown(n - 1, 0) /\ n \in Nat /\ n >= 1 /\ n - 1 \in Nat
  BY DEF Gone, Types
<1>2. n - 1 = 0 => n = 1
  BY <1>1, OneLess
<1> QED BY <1>1, <1>2 DEF Replaces

\* when one takes the place of another,
LEMMA CalmTurn ==
  ASSUME Types, Moving, NEW n, n = Len(stack), NEW f, Turned(n, f), Relieves(n, f), Calm,
         Once(f, intflags')
  PROVE  Moving'
<1>1. Grown(n - 1, 1) /\ Replaces(n, n - 1, 1) /\ n \in Nat /\ n - 1 \in Nat
  BY TurnReplaces
<1>2. \A i \in n - 1 + 1 .. n - 1 + 1 : i = n
  BY <1>1
<1>3. \A i \in n - 1 + 1 .. n - 1 + 1 : Once(stack'[i], intflags')
  BY <1>2 DEF Turned
<1> QED BY <1>1, <1>3, CalmStep

\* when two do,
LEMMA CalmTurnTwo ==
  ASSUME Types, Moving, NEW n, n = Len(stack), NEW f, NEW g, TurnedTwo(n, f, g),
         stack[n].op # "flush", Relieves(n, f), Calm, Once(f, intflags'), Once(g, intflags')
  PROVE  Moving'
<1>1. Grown(n - 1, 2) /\ Replaces(n, n - 1, 2) /\ n \in Nat /\ n - 1 \in Nat
  BY TurnTwoReplaces
<1>2. \A i \in n - 1 + 1 .. n - 1 + 2 : i = n \/ i = n + 1
  BY <1>1
<1>3. \A i \in n - 1 + 1 .. n - 1 + 2 : Once(stack'[i], intflags')
  BY <1>2 DEF TurnedTwo
<1> QED BY <1>1, <1>3, CalmStep

\* and when it returns from who need not see to the queue.
LEMMA CalmGone ==
  ASSUME Types, Moving, NEW n, n = Len(stack), Gone(n), stack[n].op # "flush",
         n = 1 => ~Serves(stack[n]) /\ ~Dead(stack[n]), Calm
  PROVE  Moving'
<1>1. Grown(n - 1, 0) /\ Replaces(n, n - 1, 0) /\ n \in Nat /\ n - 1 \in Nat
  BY GoneReplaces
<1>2. \A i \in n - 1 + 1 .. n - 1 + 0 : FALSE
  BY <1>1
<1> QED BY <1>1, <1>2, CalmStep

-----------------------------------------------------------------------------
(* The actions leave it moving: those that are calm                        *)

\* ioh_runhandler with nothing to write leaves the queue moving.
LEMMA WriteNothingMoving ==
  ASSUME IInv, Nested, Moving, NEW n, n = Len(stack), WriteNothing
  PROVE  Moving'
<1>1. Types /\ BidsTrue /\ Counted
  BY IInvIs
<1>2. stack[n].op = "handler"
  BY <1>1, WriteNothingStack
<1>3. Turned(n, Handler("read", stack[n].ready))
  BY <1>1, WriteNothingStack
<1>4. Calm
  BY DEF WriteNothing, ioh, queue, Calm
<1> DEFINE f == Handler("read", stack[n].ready)
<1>5. Relieves(n, f)
  BY <1>2 DEF Relieves, Serves, Dead, Handler
<1>6. Once(f, intflags')
  BY OnceIs
<1> HIDE DEF f
<1> QED BY <1>1, <1>3, <1>4, <1>5, <1>6, CalmTurn DEF f

\* Word of a write that failed leaves the queue moving.
LEMMA WriteFailedMoving ==
  ASSUME IInv, Nested, Moving, NEW n, n = Len(stack), WriteFailed
  PROVE  Moving'
<1>1. Types /\ BidsTrue /\ Counted
  BY IInvIs
<1>2. stack[n].op = "handler"
  BY <1>1, WriteFailedStack
<1>3. TurnedTwo(n, Handler("wrote", stack[n].ready), Cb("WriteError", None))
  BY <1>1, WriteFailedStack
<1>4. Calm
  BY DEF WriteFailed, ioh, queue, Calm
<1> DEFINE f == Handler("wrote", stack[n].ready)
           g == Cb("WriteError", None)
<1>5. Relieves(n, f)
  BY <1>2 DEF Relieves, Serves, Dead, Handler
<1>6. Once(f, intflags') /\ Once(g, intflags')
  BY OnceIs
<1> HIDE DEF f, g
<1> QED BY <1>1, <1>2, <1>3, <1>4, <1>5, <1>6, CalmTurnTwo DEF f, g

\* A read leaves the queue moving.
LEMMA ReadSomeMoving ==
  ASSUME IInv, Nested, Moving, NEW n, n = Len(stack), ReadSome
  PROVE  Moving'
<1>1. Types /\ BidsTrue /\ Counted
  BY IInvIs
<1>2. stack[n].op = "handler"
  BY <1>1, ReadSomeStack
<1>3. TurnedTwo(n, Handler("rmsg", {}), Cb("ReadComplete", None))
  BY <1>1, ReadSomeStack
<1>4. Calm
  BY DEF ReadSome, ioh, queue, Calm
<1> DEFINE f == Handler("rmsg", {})
           g == Cb("ReadComplete", None)
<1>5. Relieves(n, f)
  BY <1>2 DEF Relieves, Serves, Dead, Handler
<1>6. Once(f, intflags') /\ Once(g, intflags')
  BY OnceIs
<1> HIDE DEF f, g
<1> QED BY <1>1, <1>2, <1>3, <1>4, <1>5, <1>6, CalmTurnTwo DEF f, g

\* A read of nothing leaves the queue moving.
LEMMA ReadNothingMoving ==
  ASSUME IInv, Nested, Moving, NEW n, n = Len(stack), ReadNothing
  PROVE  Moving'
<1>1. Types /\ BidsTrue /\ Counted
  BY IInvIs
<1>2. stack[n].op = "handler"
  BY <1>1, ReadNothingStack
<1>3. Turned(n, Handler("end", {}))
  BY <1>1, ReadNothingStack
<1>4. Calm
  BY DEF ReadNothing, ioh, queue, Calm
<1> DEFINE f == Handler("end", {})
<1>5. Relieves(n, f)
  BY <1>2 DEF Relieves, Serves, Dead, Handler
<1>6. Once(f, intflags')
  BY OnceIs
<1> HIDE DEF f
<1> QED BY <1>1, <1>3, <1>4, <1>5, <1>6, CalmTurn DEF f

\* A read at the end or in error leaves the queue moving.
LEMMA ReadEndsMoving ==
  ASSUME IInv, Nested, Moving, NEW n, n = Len(stack), NEW status \in {"ReadEOF", "ReadError"},
         ReadEnds(status)
  PROVE  Moving'
<1>1. Types /\ BidsTrue /\ Counted
  BY IInvIs
<1>2. stack[n].op = "handler"
  BY <1>1, ReadEndsStack
<1>3. TurnedTwo(n, Handler(status, {}), Cb(status, None))
  BY <1>1, ReadEndsStack
<1>4. Calm
  BY DEF ReadEnds, ioh, queue, Calm
<1> DEFINE f == Handler(status, {})
           g == Cb(status, None)
<1>5. Relieves(n, f)
  BY <1>2 DEF Relieves, Serves, Dead, Handler
<1>6. Once(f, intflags') /\ Once(g, intflags')
  BY OnceIs
<1> HIDE DEF f, g
<1> QED BY <1>1, <1>2, <1>3, <1>4, <1>5, <1>6, CalmTurnTwo DEF f, g

\* The return of what was read leaves the queue moving.
LEMMA ReceivedMoving ==
  ASSUME IInv, Nested, Moving, NEW n, n = Len(stack), Received
  PROVE  Moving'
<1>1. Types /\ BidsTrue /\ Counted
  BY IInvIs
<1>2. stack[n].op = "handler"
  BY <1>1, ReceivedStack
<1>3. Turned(n, Handler("end", {}))
  BY <1>1, ReceivedStack
<1>4. Calm
  BY DEF Received, ioh, queue, Calm
<1> DEFINE f == Handler("end", {})
<1>5. Relieves(n, f)
  BY <1>2 DEF Relieves, Serves, Dead, Handler
<1>6. Once(f, intflags')
  BY OnceIs
<1> HIDE DEF f
<1> QED BY <1>1, <1>3, <1>4, <1>5, <1>6, CalmTurn DEF f

\* The end of the input leaves the queue moving.
LEMMA ReadEndedMoving ==
  ASSUME IInv, Nested, Moving, NEW n, n = Len(stack), ReadEnded
  PROVE  Moving'
<1>1. Types /\ BidsTrue /\ Counted
  BY IInvIs
<1>2. stack[n].op = "handler"
  BY <1>1, ReadEndedStack
<1>3. Turned(n, Handler(IF stack[n].pc = "ReadEOF" THEN "end" ELSE "failed", {}))
  BY <1>1, ReadEndedStack
<1>4. Calm
  BY DEF ReadEnded, ioh, queue, Calm
<1> DEFINE f == Handler(IF stack[n].pc = "ReadEOF" THEN "end" ELSE "failed", {})
<1>5. Relieves(n, f)
  BY <1>2 DEF Relieves, Serves, Dead, Handler
<1>6. Once(f, intflags')
  BY OnceIs
<1> HIDE DEF f
<1> QED BY <1>1, <1>3, <1>4, <1>5, <1>6, CalmTurn DEF f

\* A write leaves the queue moving.
LEMMA WriteSomeMoving ==
  ASSUME IInv, Nested, Moving, NEW n, n = Len(stack), NEW m \in 1 .. ToWrite, WriteSome(m)
  PROVE  Moving'
<1>1. Types /\ BidsTrue /\ Counted
  BY IInvIs
<1>2. stack[n].op = "handler"
  BY <1>1, WriteSomeStack
<1>3. Turned(n, Written(m, writeq[1].buf, stack[n].ready))
  BY <1>1, WriteSomeStack
<1>4. Calm
  BY DEF WriteSome, ioh, queue, Calm
<1> DEFINE f == Written(m, writeq[1].buf, stack[n].ready)
<1>5. Relieves(n, f)
  BY <1>2 DEF Relieves, Serves, Dead, Written
<1>6. Once(f, intflags')
  BY OnceIs
<1> HIDE DEF f
<1> QED BY <1>1, <1>3, <1>4, <1>5, <1>6, CalmTurn DEF f

\* bk_ioh_destroy, as it tells of itself, leaves the queue moving.
LEMMA DestroyTellMoving ==
  ASSUME IInv, Nested, Moving, NEW n, n = Len(stack), DestroyTell
  PROVE  Moving'
<1>1. Types /\ BidsTrue /\ Counted
  BY IInvIs
<1>2. stack[n].op = "destroy"
  BY <1>1, DestroyTellStack
<1>3. TurnedTwo(n, Destroy("free"), Cb("IohClosing", None))
  BY <1>1, DestroyTellStack
<1>4. Calm
  BY DEF DestroyTell, ioh, queue, Calm
<1> DEFINE f == Destroy("free")
           g == Cb("IohClosing", None)
<1>5. Relieves(n, f)
  BY <1>2 DEF Relieves, Serves, Dead, Destroy, Frame
<1>6. Once(f, intflags') /\ Once(g, intflags')
  BY OnceIs
<1> HIDE DEF f, g
<1> QED BY <1>1, <1>2, <1>3, <1>4, <1>5, <1>6, CalmTurnTwo DEF f, g

\* The end of ioh_dequeue_byte leaves the queue moving.
LEMMA DequeueEndMoving ==
  ASSUME IInv, Nested, Moving, NEW n, n = Len(stack), DequeueEnd
  PROVE  Moving'
<1>1. Types /\ BidsTrue /\ Counted
  BY IInvIs
<1>2. /\ stack[n].op = "dequeue"
      /\ \E pc \in {"write", "read"} : Turned(n, Handler(pc, stack[n].ready))
  BY <1>1, DequeueEndStack
<1>3. PICK pc \in {"write", "read"} : Turned(n, Handler(pc, stack[n].ready))
  BY <1>2
<1>4. Calm
  <2>1. HasData => ~AllWritten
    <3> SUFFICES ASSUME NEW i \in DOMAIN writeq, IsData(writeq[i]) PROVE queuelen >= 1
      BY <1>1 DEF HasData, AllWritten, Types
    <3>1. writeq[i].inuse > 0
      BY <1>1 DEF BidsTrue, BidOf
    <3>2. i \in 1 .. Len(writeq) /\ writeq \in Seq(Bid) /\ BufLen \in Nat
      BY <1>1, SizesAssumption DEF Types
    <3>3. writeq[i].inuse \in Nat /\ writeq[i].inuse <= queuelen /\ queuelen \in Nat
      BY <1>1, <3>2, SumsSome DEF Counted
    <3> QED BY <3>1, <3>3
  <2> QED BY <2>1 DEF DequeueEnd, ioh, queue, Calm
<1> DEFINE f == Handler(pc, stack[n].ready)
<1>5. Relieves(n, f)
  BY <1>2 DEF Relieves, Serves, Dead, Handler
<1>6. Once(f, intflags')
  BY OnceIs
<1> HIDE DEF f
<1> QED BY <1>1, <1>3, <1>4, <1>5, <1>6, CalmTurn DEF f

\* The call of bk_ioh_flush leaves the queue moving.
LEMMA FlushCallMoving ==
  ASSUME IInv, Nested, Moving, NEW n, n = Len(stack), NEW how, FlushCall(how)
  PROVE  Moving'
<1>1. Types /\ BidsTrue /\ Counted
  BY IInvIs
<1>2. Calm
  BY DEF FlushCall, ioh, queue, Calm
<1> DEFINE f == Flush(TRUE, <<>>)
<1>3. Once(f, intflags')
  BY OnceIs
<1>4. Grown(n, 0) \/ Pushed(n, f)
  BY <1>1, FlushCallStack
<1> HIDE DEF f
<1>5. CASE Grown(n, 0)
  <2>1. Replaces(n, n, 0) /\ \A i \in n + 1 .. n + 0 : FALSE
    BY <1>1 DEF Replaces, Types
  <2> QED BY <1>1, <1>2, <1>5, <2>1, CalmStep
<1> QED BY <1>1, <1>2, <1>3, <1>4, <1>5, CalmPush

\* The call of bk_ioh_shutdown leaves the queue moving.
LEMMA ShutdownCallMoving ==
  ASSUME IInv, Nested, Moving, NEW n, n = Len(stack), NEW how \in SUBSET {"read", "write"},
         ShutdownCall(how)
  PROVE  Moving'
<1>1. Types /\ BidsTrue /\ Counted
  BY IInvIs
<1>2. Calm
  BY DEF ShutdownCall, ioh, queue, Calm
<1> DEFINE f == Shutdown("sentup", Undone(how))
           g == Cb("IncompleteRead", None)
           h == Shutdown("queue", Undone(how))
<1>3. Once(f, intflags') /\ Once(g, intflags') /\ Once(h, intflags')
  BY OnceIs
<1>4. PushedTwo(n, f, g) \/ Pushed(n, h)
  BY <1>1, ShutdownCallStack
<1> HIDE DEF f, g, h
<1> QED BY <1>1, <1>2, <1>3, <1>4, CalmPush, CalmPushTwo

\* The call of bk_ioh_close leaves the queue moving.
LEMMA CloseCallMoving ==
  ASSUME ~CloseTwice, IInv, Nested, Moving, NEW n, n = Len(stack), NEW abort \in BOOLEAN,
         CloseCall(abort)
  PROVE  Moving'
<1>1. Types /\ BidsTrue /\ Counted
  BY IInvIs
<1>2. Calm
  BY DEF CloseCall, ioh, queue, Calm
<1> DEFINE f == Close("begin", abort)
<1>3. Once(f, intflags')
  <2>1. CASE abort
    BY <2>1, OnceIs
  <2>2. CASE ~abort
    <3>1. intflags' \cap {"closing", "closepending"} = {}
      BY <2>2 DEF CloseCall, Set, ioh
    <3> QED BY <3>1, OnceIs
  <2> QED BY <2>1, <2>2
<1>4. Pushed(n, f)
  BY <1>1, CloseCallStack
<1> HIDE DEF f
<1> QED BY <1>1, <1>2, <1>3, <1>4, CalmPush

\* The end of the run loop leaves the queue moving.
LEMMA RunDestroyMoving ==
  ASSUME IInv, Nested, Moving, NEW n, n = Len(stack), RunDestroy
  PROVE  Moving'
<1>1. Types /\ BidsTrue /\ Counted
  BY IInvIs
<1>2. Calm
  BY DEF RunDestroy, ioh, queue, Calm
<1> DEFINE f == Close("begin", TRUE)
<1>3. Once(f, intflags')
  BY OnceIs
<1>4. Pushed(n, f)
  BY <1>1, RunDestroyStack
<1> HIDE DEF f
<1> QED BY <1>1, <1>2, <1>3, <1>4, CalmPush

\* The return of the callback leaves the queue moving.
LEMMA CallbackReturnsMoving ==
  ASSUME IInv, Nested, Moving, NEW n, n = Len(stack), CallbackReturns
  PROVE  Moving'
<1>1. Types /\ BidsTrue /\ Counted
  BY IInvIs
<1>2. Calm
  BY DEF CallbackReturns, ioh, queue, Calm
<1>3. Gone(n) /\ stack[n].op = "callback"
  BY <1>1, CallbackReturnsStack
<1>4. stack[n].op # "flush" /\ ~Serves(stack[n]) /\ ~Dead(stack[n])
  BY <1>3 DEF Serves, Dead
<1> QED BY <1>1, <1>2, <1>3, <1>4, CalmGone

\* bk_ioh_readallowed leaves the queue moving.
LEMMA ReadallowedMoving ==
  ASSUME IInv, Nested, Moving, NEW n, n = Len(stack), NEW allowed \in BOOLEAN, Readallowed(allowed)
  PROVE  Moving'
<1>1. Types /\ stack' = stack
  BY IInvIs DEF Readallowed
<1>2. Calm
  BY DEF Readallowed, queue, Calm
<1>3. Grown(n, 0)
  BY <1>1, Stays DEF Types
<1>4. Replaces(n, n, 0) /\ \A i \in n + 1 .. n + 0 : FALSE
  BY <1>1 DEF Replaces, Types
<1> QED BY <1>1, <1>2, <1>3, <1>4, CalmStep

\* The run loop, as it calls ioh_runhandler, leaves the queue moving.
LEMMA DispatchMoving ==
  ASSUME CallbacksRest, IInv, Nested, Moving, NEW n, n = Len(stack),
         NEW ready \in SUBSET {"read", "write"}, Dispatch(ready)
  PROVE  Moving'
<1>1. Types
  BY IInvIs
<1> DEFINE f == Handler(IF "write" \in ready \ Masked /\ ~InWrite THEN "write" ELSE "read",
                        ready \ Masked)
<1>2. Pushed(n, f) /\ (n = 0 \/ MayCall("run"))
  BY <1>1, DispatchStack
<1>3. Once(f, intflags')
  BY OnceIs
<1> HIDE DEF f
<1>4. n = 0
  BY <1>1, <1>2, Caller
<1>5. ~HasFlush
  <2>1. stack \in Seq(Activation) /\ Len(stack) = 0
    BY <1>1, <1>4 DEF Types
  <2>2. DOMAIN stack = 1 .. 0
    BY <2>1
  <2> QED BY <2>2 DEF HasFlush
<1>6. HasData => "write" \notin Masked
  BY <1>5 DEF Moving, Wanted, ShutOut, Masked, Set, Dispatch
<1>7. Calm
  BY <1>6 DEF Dispatch, ioh, queue, Calm
<1> QED BY <1>1, <1>2, <1>3, <1>7, CalmPush

-----------------------------------------------------------------------------
(* and those that are not                                                  *)

\* What is on the queue after the step was on it before.
NoMoreData == HasData' => HasData

\* Flags that Put and Closes look at are not raised.
NotClosed == \A f \in {"closing", "closepending"} : f \in intflags' => f \in intflags

\* A close that was put off still is what it was,
LEMMA PutKept ==
  ASSUME Moving, NotClosed, deferred' = deferred, Dying => Dying'
  PROVE  Put'
BY DEF Moving, Put, NotClosed

\* and no activation of ioh_close becomes a second one.
LEMMA OnceKept ==
  ASSUME NotClosed
  PROVE  \A f : Once(f, intflags) => Once(f, intflags')
BY DEF Once, NotClosed

\* bk_ioh_write leaves the queue moving.
LEMMA WriteMoving ==
  ASSUME IInv, Nested, Moving, NEW n, n = Len(stack), NEW b \in Buf, NEW bypass \in BOOLEAN,
         Write(b, bypass)
  PROVE  Moving'
<1>1. Types /\ UNCHANGED <<stack, ioh>>
  BY IInvIs DEF Write
<1>2. /\ writeq' = Append(writeq, Data(b, BufLen)) /\ "write" \in want'
      /\ intflags \cap {"errout", "shutout"} = {}
  BY DEF Write, Set, WriteWanted
<1> DEFINE e == Data(b, BufLen)
<1>3. e \in Bid /\ IsData(e)
  BY SizesAssumption DEF Data, Bid, IsData
<1> HIDE DEF e
<1>4. /\ Len(writeq) \in Nat /\ writeq' \in Seq(Bid) /\ Len(writeq') = Len(writeq) + 1
      /\ \A i \in 1 .. Len(writeq) : writeq'[i] = writeq[i]
      /\ writeq'[Len(writeq) + 1] = e
  BY <1>1, <1>2, <1>3, AppendIs DEF Types, e
<1>5. writeq # <<>> => Len(writeq) >= 1 /\ writeq'[1] = writeq[1]
  BY <1>1, <1>4 DEF Types
<1>6. writeq = <<>> => IsData(writeq'[1])
  BY <1>3, <1>4
<1>7. Closes' /\ Put'
  BY <1>1 DEF Moving, Closes, Put, Dying, ioh
<1>8. Wanted' /\ ShutOut'
  BY <1>1, <1>2 DEF Wanted, ShutOut, ioh
<1>9. Cleared'
  BY <1>1, <1>5, <1>6 DEF Moving, Cleared, Serving, HasFlush, ioh
<1> QED BY <1>7, <1>8, <1>9 DEF Moving

\* A write that fails leaves the queue moving.
LEMMA WriteFailsMoving ==
  ASSUME IInv, Nested, Moving, NEW n, n = Len(stack), WriteFails
  PROVE  Moving'
<1>1. Types /\ BidsTrue /\ Counted
  BY IInvIs
<1> DEFINE f == Handler("writefailed", stack[n].ready)
           g == Flush(FALSE, <<>>)
<1>2. /\ n >= 1 /\ stack[n].op = "handler" /\ n \in DOMAIN stack /\ TurnedTwo(n, f, g)
  BY <1>1, WriteFailsStack
<1>3. f.op = "handler" /\ g.op = "flush" /\ Relieves(n, f)
  BY <1>2 DEF Handler, Flush, Relieves, Serves, Dead
<1>4. Once(f, intflags') /\ Once(g, intflags')
  BY OnceIs
<1> HIDE DEF f, g
<1>5. n = 1 /\ stack'[1] = f /\ stack'[2] = g /\ DOMAIN stack' = 1 .. 2 /\ stack' # <<>>
  <2>1. n = 1
    BY <1>1, <1>2, Shaped DEF Bottom
  <2> QED BY <1>2, <2>1, FirstIs
<1>6. HasFlush' /\ Serving'
  BY <1>3, <1>5 DEF HasFlush, Serving
<1>7. UNCHANGED <<writeq, deferred, freed>> /\ intflags' = intflags \cup {"errout"}
  BY DEF WriteFails, queue
<1>8. NotClosed
  BY <1>7 DEF NotClosed
<1>9. Grown(n - 1, 2) /\ Replaces(n, n - 1, 2)
  BY <1>1, <1>2, <1>3, TurnTwoReplaces
<1>10. Put'
  BY <1>1, <1>7, <1>8, <1>9, PassesIs, PutKept DEF Passes
<1>11. Closes'
  <2>1. \A i \in DOMAIN stack' : i = 1 \/ i = 2
    BY <1>5
  <2> QED BY <1>4, <1>5, <2>1 DEF Closes
<1>12. ShutOut'
  BY <1>7 DEF Moving, ShutOut, HasData
<1> QED BY <1>6, <1>10, <1>11, <1>12 DEF Moving, Wanted, Cleared

\* ioh_flush_queue, with a bid in hand, leaves the queue moving.
LEMMA FlushNextMoving ==
  ASSUME IInv, Nested, Moving, NEW n, n = Len(stack), FlushNext
  PROVE  Moving'
<1>1. Types /\ QueueInv
  BY IInvIs
<1> DEFINE g == Cb("WriteAborted", writeq[1].buf)
           f == Flush(stack[n].collect, Append(stack[n].cmds, writeq[1].cmd))
<1>2. /\ n >= 1 /\ n \in DOMAIN stack /\ stack[n].op = "flush" /\ writeq # <<>>
      /\ Pushed(n, g) \/ Turned(n, f)
  BY <1>1, FlushNextStack
<1>3. f.op = "flush" /\ Once(f, intflags') /\ Once(g, intflags')
  BY OnceIs DEF Flush
<1> HIDE DEF f, g
<1>4. UNCHANGED <<intflags, deferred, freed>> /\ writeq' = Tail(writeq)
  BY DEF FlushNext, ioh
<1>5. NoMoreData
  <2>1. /\ Tail(writeq) \in Seq(Bid) /\ Len(Tail(writeq)) = Len(writeq) - 1 /\ Len(writeq) \in Nat
        /\ Len(writeq) >= 1 /\ \A i \in 1 .. Len(writeq) - 1 : Tail(writeq)[i] = writeq[i + 1]
    BY <1>1, <1>2, TailIs DEF Types
  <2>2. ASSUME NEW i \in DOMAIN writeq' PROVE i + 1 \in DOMAIN writeq /\ writeq'[i] = writeq[i + 1]
    BY <1>1, <1>4, <2>1, <2>2 DEF Types
  <2> QED BY <2>2 DEF NoMoreData, HasData
<1>6. NotClosed /\ \A h : Once(h, intflags) => Once(h, intflags')
  BY <1>4 DEF NotClosed
<1>7. Passes /\ HasFlush' /\ stack' # <<>> /\ Closes'
  <2>1. CASE Pushed(n, g)
    <3>1. Grown(n, 1) /\ Replaces(n, n, 1) /\ n \in Nat
      BY <1>1, <2>1 DEF Pushed, Replaces, Types
    <3>2. \A i \in n + 1 .. n + 1 : Once(stack'[i], intflags')
      BY <1>3, <2>1, <3>1 DEF Pushed
    <3>3. Passes /\ Closes'
      BY <1>1, <1>4, <1>6, <3>1, <3>2, PassesIs, ClosesKept
    <3>4. HasFlush
      BY <1>2 DEF HasFlush
    <3> QED BY <3>3, <3>4 DEF Passes, HasFlush
  <2>2. CASE Turned(n, f)
    <3>1. Relieves(n, f)
      BY <1>2, <1>3 DEF Relieves, Serves, Dead
    <3>2. Grown(n - 1, 1) /\ Replaces(n, n - 1, 1) /\ n \in Nat /\ n - 1 \in Nat
      BY <1>1, <2>2, <3>1, TurnReplaces
    <3>3. \A i \in n - 1 + 1 .. n - 1 + 1 : i = n
      BY <3>2
    <3>4. \A i \in n - 1 + 1 .. n - 1 + 1 : Once(stack'[i], intflags')
      BY <1>3, <2>2, <3>3 DEF Turned
    <3>5. Passes /\ Closes'
      BY <1>1, <1>4, <1>6, <3>2, <3>4, PassesIs, ClosesKept
    <3>6. HasFlush
      BY <1>2 DEF HasFlush
    <3> QED BY <3>5, <3>6 DEF Passes, HasFlush
  <2> QED BY <1>2, <2>1, <2>2
<1>8. Put'
  BY <1>4, <1>6, <1>7, PutKept DEF Passes
<1>9. Wanted' /\ Cleared'
  BY <1>7 DEF Wanted, Cleared, Serving
<1>10. ShutOut'
  BY <1>4, <1>5 DEF Moving, ShutOut, NoMoreData
<1> QED BY <1>7, <1>8, <1>9, <1>10 DEF Moving

\* With nothing on the queue, only the flags of closing matter.
LEMMA EmptyMoving ==
  ASSUME writeq' = <<>>, Closes', Put'
  PROVE  Moving'
<1>1. ~HasData'
  BY DEF HasData
<1> QED BY <1>1 DEF Moving, Wanted, ShutOut, Cleared

\* The end of bk_ioh_flush leaves the queue moving.
LEMMA FlushEndMoving ==
  ASSUME IInv, Nested, Moving, NEW n, n = Len(stack), FlushEnd
  PROVE  Moving'
<1>1. Types
  BY IInvIs
<1> DEFINE f == Destroy("begin")
<1>2. /\ n >= 1 /\ n \in DOMAIN stack /\ stack[n].op = "flush" /\ writeq = <<>>
      /\ Gone(n) \/ Turned(n, f)
  BY <1>1, FlushEndStack
<1>3. Once(f, intflags') /\ f.op = "destroy" /\ n \in Nat
  <2>1. Once(f, intflags')
    BY OnceIs
  <2> QED BY <1>1, <2>1 DEF Destroy, Frame, Types
<1> HIDE DEF f
<1>4. PICK cmds : intflags' = Shuts(intflags, cmds)
  BY DEF FlushEnd
<1>5. UNCHANGED <<writeq, deferred, freed>>
  BY DEF FlushEnd, queue
<1>6. NotClosed /\ \A h : Once(h, intflags) => Once(h, intflags')
  <2>1. NotClosed
    BY <1>4, ShutsIs DEF NotClosed
  <2> QED BY <2>1, OnceKept
<1>7. Closes' /\ (Dying => Dying')
  <2>1. CASE Gone(n)
    <3>1. Grown(n - 1, 0) /\ n - 1 \in Nat
      BY <1>3, <2>1 DEF Gone
    <3>2. \A i \in n - 1 + 1 .. n - 1 + 0 : FALSE
      BY <3>1
    <3>3. Closes'
      BY <1>1, <1>6, <3>1, <3>2, ClosesKept
    <3>4. ASSUME stack # <<>>, Dead(stack[1]) PROVE stack' # <<>> /\ Dead(stack'[1])
      <4>1. n # 1
        BY <1>2, <3>4 DEF Dead
      <4>2. 1 \in 1 .. n - 1 /\ Len(stack') = n - 1 + 0 /\ stack' \in Seq(Activation) /\ n - 1 # 0
        BY <1>3, <2>1, <3>1, <4>1 DEF Gone, Grown
      <4>3. stack'[1] = stack[1] /\ stack' # <<>>
        BY <3>1, <4>2 DEF Grown
      <4> QED BY <3>4, <4>3
    <3> QED BY <1>5, <3>3, <3>4 DEF Dying
  <2>2. CASE Turned(n, f)
    <3>1. Grown(n - 1, 1) /\ n - 1 \in Nat /\ stack'[n] = f
      BY <1>3, <2>2 DEF Turned
    <3>2. \A i \in n - 1 + 1 .. n - 1 + 1 : i = n
      BY <1>3
    <3>3. Closes'
      BY <1>1, <1>3, <1>6, <3>1, <3>2, ClosesKept
    <3>4. stack' # <<>>
      BY <3>1 DEF Grown
    <3>5. n # 1 => stack'[1] = stack[1]
      <4>1. n # 1 => 1 \in 1 .. n - 1
        BY <1>2, <1>3
      <4> QED BY <3>1, <4>1 DEF Grown
    <3> QED BY <1>3, <1>5, <3>1, <3>3, <3>4, <3>5 DEF Dying, Dead
  <2> QED BY <1>2, <2>1, <2>2
<1>8. Put'
  BY <1>5, <1>6, <1>7, PutKept
<1> QED BY <1>2, <1>5, <1>7, <1>8, EmptyMoving

\* bk_ioh_destroy, before its flush, leaves the queue moving.
LEMMA DestroyBeginMoving ==
  ASSUME IInv, Nested, Moving, NEW n, n = Len(stack), DestroyBegin
  PROVE  Moving'
<1>1. Types
  BY IInvIs
<1> DEFINE f == Destroy("tell")
           g == Flush(FALSE, <<>>)
<1>2. /\ n >= 1 /\ stack[n].op = "destroy" /\ n \in DOMAIN stack /\ stack[n].pc = "begin"
      /\ "destroying" \in intflags \/ TurnedTwo(n, f, g)
  BY <1>1, DestroyBeginStack
<1>3. n = 1 /\ "destroying" \notin intflags
  BY <1>1, <1>2, Shaped DEF Bottom, ShapeOf
<1>4. f.op = "destroy" /\ g.op = "flush" /\ Once(f, intflags') /\ Once(g, intflags')
  BY OnceIs DEF Destroy, Frame, Flush
<1> HIDE DEF f, g
<1>5. stack'[1] = f /\ stack'[2] = g /\ DOMAIN stack' = 1 .. 2 /\ stack' # <<>>
  BY <1>2, <1>3, FirstIs
<1>6. HasFlush' /\ Dying'
  BY <1>4, <1>5 DEF HasFlush, Dying, Dead
<1>7. \A i \in DOMAIN stack' : i = 1 \/ i = 2
  BY <1>5
<1>8. Closes'
  BY <1>4, <1>5, <1>7 DEF Closes
<1>9. writeq' = writeq /\ intflags' = intflags \cup {"destroying"}
  BY <1>3 DEF DestroyBegin, queue, Set
<1>10. ShutOut'
  BY <1>9 DEF Moving, ShutOut, HasData
<1> QED BY <1>5, <1>6, <1>8, <1>10 DEF Moving, Put, Wanted, Cleared, Serving

\* The end of bk_ioh_destroy leaves the queue moving.
LEMMA DestroyFreeMoving ==
  ASSUME IInv, Nested, Moving, NEW n, n = Len(stack), DestroyFree
  PROVE  Moving'
<1>1. Types
  BY IInvIs
<1>2. n >= 1 /\ stack[n].op = "destroy" /\ n \in DOMAIN stack /\ Gone(n)
  BY <1>1, DestroyFreeStack
<1>3. n = 1
  BY <1>1, <1>2, Shaped DEF Bottom
<1>4. stack' = <<>>
  <2>1. stack' \in Seq(Activation) /\ Len(stack') = (1 - 1) + 0
    BY <1>2, <1>3 DEF Gone, Grown
  <2>2. Len(stack') = 0
    BY <2>1
  <2> QED BY <2>1, <2>2
<1>5. freed' = TRUE /\ UNCHANGED <<writeq, intflags>>
  BY DEF DestroyFree, queue
<1>6. Closes'
  BY <1>4 DEF Closes
<1>7. ShutOut'
  BY <1>5 DEF Moving, ShutOut, HasData
<1> QED BY <1>5, <1>6, <1>7 DEF Moving, Put, Wanted, Cleared, Dying

\* ioh_dequeue_byte, with a bid in hand, leaves the queue moving.
LEMMA DequeueByteMoving ==
  ASSUME IInv, Nested, Moving, NEW n, n = Len(stack), DequeueByte
  PROVE  Moving'
<1>1. Types /\ BidsTrue /\ QueueInv
  BY IInvIs
<1>2. /\ n >= 1 /\ n \in DOMAIN stack /\ stack[n].op = "dequeue" /\ stack[n].next \in Buf
      /\ \/ ~Queued(stack[n].next)
         \/ \E i \in DOMAIN writeq :
              /\ IsData(writeq[i])
              /\ \/ /\ writeq' = [writeq EXCEPT ![i].inuse = @ - stack[n].bytes]
                    /\ Turned(n, Written(0, None, stack[n].ready))
                 \/ /\ writeq' = RemoveAt(writeq, i)
                    /\ queuelen' = queuelen - writeq[i].inuse
                    /\ \E m \in Nat :
                         TurnedTwo(n,
                           Written(m, IF i < Len(writeq) THEN writeq[i + 1].buf ELSE None,
                                   stack[n].ready),
                           Cb("WriteComplete", writeq[i].buf))
  BY <1>1, DequeueByteStack
<1>3. n = 1 /\ ShapeOf(n)
  BY <1>1, <1>2, Shaped DEF Bottom
<1>4. Queued(stack[n].next)
  BY <1>2, <1>3, ModeAssumption DEF ShapeOf
<1>5. UNCHANGED <<intflags, deferred, freed, want>>
  BY DEF DequeueByte
<1>6. NotClosed
  BY <1>5 DEF NotClosed
<1>7. ASSUME NEW m, NEW k \in {1, 2}, Grown(n - 1, k), stack'[1].op = "dequeue", NoMoreData,
             Replaces(n, n - 1, k),
             \A i \in n - 1 + 1 .. n - 1 + k : Once(stack'[i], intflags')
      PROVE  Moving'
  <2>1. Passes
    BY <1>1, <1>5, <1>7, PassesIs
  <2>2. n - 1 = 0 /\ stack' # <<>>
    BY <1>3, <1>7 DEF Grown
  <2>3. Closes'
    BY <1>1, <1>6, <1>7, OnceKept, ClosesKept
  <2>4. Put'
    BY <1>5, <1>6, <2>1, PutKept DEF Passes
  <2>5. Serving'
    BY <1>7, <2>2 DEF Serving, Serves
  <2>6. Wanted' /\ ShutOut'
    BY <1>5, <1>7, <2>1 DEF Moving, Wanted, ShutOut, NoMoreData, Passes
  <2> QED BY <2>3, <2>4, <2>5, <2>6 DEF Moving, Cleared
<1>8. CASE Turned(n, Written(0, None, stack[n].ready)) /\ NoMoreData
  <2> DEFINE f == Written(0, None, stack[n].ready)
  <2>1. Once(f, intflags')
    BY OnceIs
  <2>2. f.op = "dequeue"
    BY DEF Written
  <2> HIDE DEF f
  <2>3. Turned(n, f) /\ Relieves(n, f)
    BY <1>2, <1>8, <2>2 DEF Relieves, Serves, Dead, f
  <2>4. Grown(n - 1, 1) /\ Replaces(n, n - 1, 1) /\ n - 1 \in Nat /\ n \in Nat
    BY <1>1, <2>3, TurnReplaces
  <2>5. \A i \in n - 1 + 1 .. n - 1 + 1 : i = n
    BY <2>4
  <2>6. stack'[1].op = "dequeue" /\ \A i \in n - 1 + 1 .. n - 1 + 1 : Once(stack'[i], intflags')
    BY <1>3, <2>1, <2>2, <2>3, <2>5 DEF Turned
  <2> QED BY <1>7, <1>8, <2>4, <2>6
<1>9. ASSUME NEW f, NEW g, TurnedTwo(n, f, g), f.op = "dequeue", Once(f, intflags'),
             Once(g, intflags'), NoMoreData
      PROVE  Moving'
  <2>1. Relieves(n, f) /\ stack[n].op # "flush"
    BY <1>2, <1>9 DEF Relieves, Serves, Dead
  <2>2. Grown(n - 1, 2) /\ Replaces(n, n - 1, 2) /\ n - 1 \in Nat /\ n \in Nat
    BY <1>1, <1>9, <2>1, TurnTwoReplaces
  <2>3. \A i \in n - 1 + 1 .. n - 1 + 2 : i = n \/ i = n + 1
    BY <2>2
  <2>4. stack'[1].op = "dequeue" /\ \A i \in n - 1 + 1 .. n - 1 + 2 : Once(stack'[i], intflags')
    BY <1>3, <1>9, <2>3 DEF TurnedTwo
  <2> QED BY <1>7, <1>9, <2>2, <2>4
<1>10. PICK i \in DOMAIN writeq :
         /\ IsData(writeq[i])
         /\ \/ /\ writeq' = [writeq EXCEPT ![i].inuse = @ - stack[n].bytes]
               /\ Turned(n, Written(0, None, stack[n].ready))
            \/ /\ writeq' = RemoveAt(writeq, i)
               /\ queuelen' = queuelen - writeq[i].inuse
               /\ \E m \in Nat :
                    TurnedTwo(n,
                      Written(m, IF i < Len(writeq) THEN writeq[i + 1].buf ELSE None,
                              stack[n].ready),
                      Cb("WriteComplete", writeq[i].buf))
  BY <1>2, <1>4
<1>11. NoMoreData
  BY <1>10 DEF NoMoreData, HasData
<1>12. CASE \E m \in Nat :
              TurnedTwo(n,
                Written(m, IF i < Len(writeq) THEN writeq[i + 1].buf ELSE None, stack[n].ready),
                Cb("WriteComplete", writeq[i].buf))
  <2>1. PICK m \in Nat :
          TurnedTwo(n,
            Written(m, IF i < Len(writeq) THEN writeq[i + 1].buf ELSE None, stack[n].ready),
            Cb("WriteComplete", writeq[i].buf))
    BY <1>12
  <2> DEFINE x == IF i < Len(writeq) THEN writeq[i + 1].buf ELSE None
             f == Written(m, x, stack[n].ready)
             b == writeq[i].buf
             g == Cb("WriteComplete", b)
  <2> HIDE DEF x, b
  <2>2. Once(f, intflags') /\ Once(g, intflags')
    BY OnceIs
  <2>3. f.op = "dequeue"
    BY DEF Written
  <2> HIDE DEF f, g
  <2>4. TurnedTwo(n, f, g)
    BY <2>1 DEF f, g, x, b
  <2> QED BY <1>9, <1>11, <2>2, <2>3, <2>4
<1> QED BY <1>8, <1>10, <1>11, <1>12

\* ioh_close, before its flush, leaves the queue moving.
LEMMA CloseBeginMoving ==
  ASSUME IInv, Nested, Moving, NEW n, n = Len(stack), CloseBegin
  PROVE  Moving'
<1>1. Types
  BY IInvIs
<1> DEFINE f == Close("queue", TRUE)
           g == Flush(FALSE, <<>>)
           h == Close("queue", FALSE)
<1>2. /\ n >= 1 /\ n \in DOMAIN stack /\ stack[n].op = "close" /\ stack[n].pc = "begin"
      /\ \/ PutOff /\ Gone(n)
         \/ /\ ~PutOff /\ Gone(n)
            /\ ("closing" \in intflags /\ ~stack[n].abort) \/ "destroying" \in intflags
         \/ /\ ~PutOff /\ "destroying" \notin intflags
            /\ "closing" \notin intflags \/ stack[n].abort
            /\ IF stack[n].abort THEN TurnedTwo(n, f, g) ELSE Turned(n, h)
  BY <1>1, CloseBeginStack
<1>3. ~freed /\ ~wild /\ ShapeOf(n) /\ n \in Nat /\ DOMAIN stack = 1 .. n
  BY <1>1, <1>2, Shaped DEF Types
<1>4. Top = stack[n] /\ stack[n] \in Activation
  BY <1>1, <1>2, TopIs DEF Types
<1>5. stack[n].abort \in BOOLEAN
  BY <1>2, <1>4, Fields
<1>6. ~stack[n].abort => intflags \cap {"closing", "closepending"} = {}
  BY <1>2 DEF Moving, Closes, Once
<1>7. UNCHANGED <<writeq, freed, want>>
  BY DEF CloseBegin, queue
<1>8. \A i \in 1 .. n - 1 : Once(stack[i], intflags')
  <2> SUFFICES ASSUME NEW i \in 1 .. n - 1, stack[i].op = "close", stack[i].pc = "begin"
               PROVE  FALSE
    BY DEF Once
  <2>1. i \in DOMAIN stack /\ i # n
    BY <1>3
  <2> QED BY <2>1 DEF Nested, Shape, ShapeOf
<1>9. CASE PutOff /\ Gone(n)
  <2>1. n # 1
    <3> SUFFICES ASSUME n = 1 PROVE FALSE
      OBVIOUS
    <3>1. \A i \in DOMAIN stack : i = 1
      BY <1>3
    <3> QED BY <1>2, <1>9, <3>1 DEF PutOff, InCallback
  <2>2. Grown(n - 1, 0) /\ Replaces(n, n - 1, 0) /\ n - 1 \in Nat
    BY <1>1, <1>2, <1>9, <2>1, GoneReplaces
  <2>3. Passes
    BY <1>1, <1>7, <2>2, PassesIs
  <2>4. \A i \in n - 1 + 1 .. n - 1 + 0 : FALSE
    BY <2>2
  <2>5. Closes'
    BY <1>1, <1>8, <2>2, <2>4, ClosesKept
  <2>6. intflags' = intflags \cup {"closepending"} /\ deferred' = stack[n].abort
    BY <1>4, <1>9 DEF CloseBegin
  <2>7. Put'
    BY <1>5, <1>6, <2>6 DEF Put
  <2>8. Wanted' /\ ShutOut' /\ Cleared'
    BY <1>7, <2>3, <2>6 DEF Moving, Wanted, ShutOut, Cleared, HasData, Passes
  <2> QED BY <2>5, <2>7, <2>8 DEF Moving
<1>10. CASE ~PutOff
  <2>1. n = 1
    <3> SUFFICES ASSUME n # 1 PROVE FALSE
      OBVIOUS
    <3>1. n - 1 \in DOMAIN stack
      BY <1>2, <1>3
    <3> QED BY <1>2, <1>3, <1>10, <3>1 DEF ShapeOf, PutOff, InCallback
  <2>2. ~("closing" \in intflags /\ ~stack[n].abort) /\ "destroying" \notin intflags
    BY <1>2, <1>3, <1>6, <2>1 DEF Nested, Ends
  <2>3. deferred' = deferred /\ intflags' = intflags \cup {"closing"}
    BY <1>4, <1>5, <1>10, <2>2 DEF CloseBegin, Set
  <2>4. CASE stack[n].abort
    <3>1. f.op = "close" /\ f.abort /\ g.op = "flush"
      BY DEF Close, Flush
    <3>2. Once(f, intflags') /\ Once(g, intflags')
      BY OnceIs
    <3>3. TurnedTwo(1, f, g)
      BY <1>2, <1>10, <2>1, <2>2, <2>4
    <3> HIDE DEF f, g
    <3>4. stack'[1] = f /\ stack'[2] = g /\ DOMAIN stack' = 1 .. 2 /\ stack' # <<>>
      BY <3>3, FirstIs
    <3>5. HasFlush' /\ Dying'
      BY <3>1, <3>4 DEF HasFlush, Dying, Dead
    <3>6. \A i \in DOMAIN stack' : i = 1 \/ i = 2
      BY <3>4
    <3>7. Closes'
      BY <3>2, <3>4, <3>6 DEF Closes
    <3>8. ShutOut'
      BY <1>7, <2>3 DEF Moving, ShutOut, HasData
    <3> QED BY <3>4, <3>5, <3>7, <3>8 DEF Moving, Put, Wanted, Cleared, Serving
  <2>5. CASE ~stack[n].abort
    <3>1. h.op = "close"
      BY DEF Close
    <3>2. Once(h, intflags')
      BY OnceIs
    <3>3. Turned(n, h)
      BY <1>2, <1>10, <2>2, <2>5
    <3> HIDE DEF h
    <3>4. Relieves(n, h)
      BY <1>2, <2>5, <3>1 DEF Relieves, Serves, Dead
    <3>5. Grown(n - 1, 1) /\ Replaces(n, n - 1, 1) /\ n - 1 \in Nat
      BY <1>1, <3>3, <3>4, TurnReplaces
    <3>6. \A i \in n - 1 + 1 .. n - 1 + 1 : i = n
      BY <1>3
    <3>7. \A i \in n - 1 + 1 .. n - 1 + 1 : Once(stack'[i], intflags')
      BY <3>2, <3>3, <3>6 DEF Turned
    <3>8. Closes'
      BY <1>1, <1>8, <3>5, <3>7, ClosesKept
    <3>9. Passes
      BY <1>1, <1>7, <3>5, PassesIs
    <3>10. Put'
      BY <1>6, <2>3, <2>5 DEF Put
    <3>11. Wanted' /\ ShutOut' /\ Cleared'
      BY <1>7, <2>3, <3>9 DEF Moving, Wanted, ShutOut, Cleared, HasData, Passes
    <3> QED BY <3>8, <3>10, <3>11 DEF Moving
  <2> QED BY <1>5, <2>4, <2>5
<1> QED BY <1>2, <1>9, <1>10

\* Data in front of a queue was there before a command was put on it.
LEMMA DataBefore ==
  ASSUME Types, NEW q, Queues(q), q # <<>>, IsData(q[1])
  PROVE  HasData
<1>1. CASE q = writeq
  <2>1. 1 \in DOMAIN writeq
    BY <1>1 DEF Types
  <2> QED BY <1>1, <2>1 DEF HasData
<1>2. ASSUME NEW c \in {"Shutdown", "Close"}, q = Append(writeq, Cmd(c)) PROVE HasData
  <2> DEFINE e == Cmd(c)
  <2>1. e \in Bid /\ ~IsData(e)
    BY SizesAssumption DEF Cmd, Bid, IsData
  <2> HIDE DEF e
  <2>2. /\ Len(writeq) \in Nat /\ q \in Seq(Bid) /\ Len(q) = Len(writeq) + 1
        /\ \A i \in 1 .. Len(writeq) : q[i] = writeq[i]
        /\ q[Len(writeq) + 1] = e
    BY <1>2, <2>1, AppendIs DEF Types, e
  <2>3. Len(writeq) # 0
    BY <2>1, <2>2
  <2>4. 1 \in 1 .. Len(writeq) /\ 1 \in DOMAIN writeq
    BY <2>2, <2>3 DEF Types
  <2> QED BY <2>2, <2>4 DEF HasData
<1> QED BY <1>1, <1>2 DEF Queues

\* The command of ioh_close leaves the queue moving.
LEMMA CloseQueuesMoving ==
  ASSUME IInv, Nested, Moving, NEW n, n = Len(stack), CloseQueues
  PROVE  Moving'
<1>1. Types /\ Counted
  BY IInvIs
<1> DEFINE f == Destroy("begin")
           q == Append(writeq, Cmd("Close"))
<1>2. /\ n >= 1 /\ n \in DOMAIN stack /\ stack[n].op = "close" /\ stack[n].pc = "queue"
      /\ Turned(n, f) \/ (Gone(n) /\ ~stack[n].abort /\ "Close" \notin CmdsOf(Leading(q)))
  BY <1>1, CloseQueuesStack
<1>3. n = 1 /\ DOMAIN stack = 1 .. 1 /\ stack # <<>> /\ ~freed
  BY <1>1, <1>2, Shaped DEF Bottom, Types
<1>4. ~HasFlush
  BY <1>2, <1>3 DEF HasFlush
<1>5. f.op = "destroy"
  BY DEF Destroy, Frame
<1>6. Once(f, intflags')
  BY OnceIs
<1>7. Closes'
  <2>1. CASE Turned(n, f)
    <3> HIDE DEF f
    <3>1. stack'[1] = f /\ DOMAIN stack' = 1 .. 1
      BY <1>3, <2>1, FirstIs
    <3>2. \A i \in DOMAIN stack' : i = 1
      BY <3>1
    <3> QED BY <1>6, <3>1, <3>2 DEF Closes
  <2>2. CASE Gone(n)
    <3>1. stack' \in Seq(Activation) /\ Len(stack') = (1 - 1) + 0
      BY <1>3, <2>2 DEF Gone, Grown
    <3>2. Len(stack') = 0
      BY <3>1
    <3>3. stack' = <<>>
      BY <3>1, <3>2
    <3> QED BY <3>3 DEF Closes
  <2> QED BY <1>2, <2>1, <2>2
<1>8. Turned(n, f) => Dying'
  <2> SUFFICES ASSUME Turned(n, f) PROVE Dying'
    OBVIOUS
  <2> HIDE DEF f
  <2>1. stack'[1] = f /\ stack' # <<>>
    BY <1>3, FirstIs
  <2> QED BY <1>5, <2>1 DEF Dying, Dead
<1>9. /\ writeq' = Behind(q) /\ UNCHANGED <<deferred, freed>>
      /\ intflags' = Shuts(intflags \cup {"shutin", "pend"}, CmdsOf(Leading(q)))
      /\ want' = want \ ({"read"} \cup (IF Set({"shutout", "errout"}) THEN {"write"} ELSE {}))
  BY DEF CloseQueues
<1>10. NotClosed
  <2> DEFINE s == intflags \cup {"shutin", "pend"}
             cmds == CmdsOf(Leading(q))
  <2>1. \A x \in {"closing", "closepending"} : x \in s => x \in intflags
    OBVIOUS
  <2>2. intflags' = Shuts(s, cmds)
    BY <1>9
  <2> HIDE DEF s, cmds
  <2> QED BY <2>1, <2>2, ShutsIs DEF NotClosed
<1>11. Put'
  <2>1. CASE Turned(n, f)
    BY <1>8, <2>1 DEF Put
  <2>2. CASE ~Turned(n, f)
    <3>1. ~Dying
      BY <1>2, <1>3, <2>2 DEF Dying, Dead
    <3> QED BY <1>9, <1>10, <3>1, PutKept
  <2> QED BY <2>1, <2>2
<1>12. Queues(q)
  BY DEF Queues
<1> HIDE DEF q
<1>13. \/ Behind(q) = q /\ CmdsOf(Leading(q)) = {} /\ q # <<>> /\ IsData(q[1])
       \/ Behind(q) = <<>>
  BY <1>1, <1>12, Executes
<1>14. CASE Behind(q) = <<>>
  BY <1>7, <1>9, <1>11, <1>14, EmptyMoving
<1>15. CASE Behind(q) = q /\ CmdsOf(Leading(q)) = {} /\ q # <<>> /\ IsData(q[1])
  <2>1. HasData
    BY <1>1, <1>12, <1>15, DataBefore
  <2>2. "write" \in want /\ intflags \cap {"errout", "shutout"} = {}
    BY <1>3, <1>4, <2>1 DEF Moving, Wanted, ShutOut
  <2>3. intflags' = intflags \cup {"shutin", "pend"}
    BY <1>9, <1>15 DEF Shuts
  <2>4. "write" \in want'
    BY <1>9, <2>2 DEF Set
  <2>5. writeq' = q
    BY <1>9, <1>15
  <2>6. Wanted' /\ ShutOut' /\ Cleared'
    BY <1>15, <2>2, <2>3, <2>4, <2>5 DEF Wanted, ShutOut, Cleared
  <2> QED BY <1>7, <1>11, <2>6 DEF Moving
<1> QED BY <1>13, <1>14, <1>15

\* The end of ioh_runhandler leaves the queue moving.
LEMMA HandlerEndMoving ==
  ASSUME IInv, Nested, Moving, NEW n, n = Len(stack), HandlerEnd
  PROVE  Moving'
<1>1. Types /\ Counted
  BY IInvIs
<1> DEFINE f == Close("begin", deferred)
           g == Close("begin", TRUE)
           h == Destroy("begin")
<1>2. /\ n >= 1 /\ stack[n].op = "handler" /\ n \in DOMAIN stack
      /\ \/ ClosePending /\ Turned(n, f)
         \/ ~ClosePending /\ stack[n].pc = "failed" /\ Turned(n, g)
         \/ ~ClosePending /\ stack[n].pc # "failed" /\ Gone(n)
         \/ ~ClosePending /\ stack[n].pc # "failed" /\ Turned(n, h)
  BY <1>1, HandlerEndStack
<1>3. n = 1 /\ DOMAIN stack = 1 .. 1 /\ stack # <<>> /\ ~freed /\ Top = stack[n]
  BY <1>1, <1>2, Shaped, TopIs DEF Bottom, Types
<1>4. UNCHANGED <<deferred, freed, want>>
  BY DEF HandlerEnd
<1>5. CASE (ClosePending /\ Turned(n, f)) \/ (stack[n].pc = "failed" /\ Turned(n, g))
  <2>1. intflags' = intflags \ {"closepending"} /\ writeq' = writeq
    BY <1>3, <1>5 DEF HandlerEnd
  <2>2. Calm
    BY <1>4, <2>1 DEF Calm
  <2>3. f.op = "close" /\ g.op = "close"
    BY DEF Close
  <2>4. ClosePending => Once(f, intflags')
    <3>1. CASE deferred
      BY <1>1, <3>1, OnceIs DEF Types
    <3>2. CASE ClosePending /\ ~deferred
      <4>1. ~Dying
        BY <1>2, <1>3 DEF Dying, Dead
      <4>2. "closing" \notin intflags
        BY <3>2, <4>1 DEF Moving, Put, ClosePending, Set
      <4>3. intflags' \cap {"closing", "closepending"} = {}
        BY <2>1, <4>2
      <4> QED BY <4>3, OnceIs
    <3> QED BY <3>1, <3>2
  <2>5. Once(g, intflags')
    BY OnceIs
  <2> HIDE DEF f, g
  <2>6. Relieves(n, f) /\ Relieves(n, g)
    BY <1>2, <2>3 DEF Relieves, Serves, Dead
  <2> QED BY <1>1, <1>5, <2>2, <2>4, <2>5, <2>6, CalmTurn
<1>6. CASE ~ClosePending /\ stack[n].pc # "failed" /\ (Gone(n) \/ Turned(n, h))
  <2>1. /\ writeq' = Behind(writeq) /\ intflags' = Shuts(intflags, CmdsOf(Leading(writeq)))
    BY <1>3, <1>6 DEF HandlerEnd
  <2>2. NotClosed
    BY <2>1, ShutsIs DEF NotClosed
  <2>3. Once(h, intflags')
    BY OnceIs
  <2> HIDE DEF h
  <2>4. Closes'
    <3>1. CASE Turned(n, h)
      <4>1. stack'[1] = h /\ DOMAIN stack' = 1 .. 1
        BY <1>3, <3>1, FirstIs
      <4>2. \A i \in DOMAIN stack' : i = 1
        BY <4>1
      <4> QED BY <2>3, <4>1, <4>2 DEF Closes
    <3>2. CASE Gone(n)
      <4>1. stack' \in Seq(Activation) /\ Len(stack') = (1 - 1) + 0
        BY <1>3, <3>2 DEF Gone, Grown
      <4>2. Len(stack') = 0
        BY <4>1
      <4>3. stack' = <<>>
        BY <4>1, <4>2
      <4> QED BY <4>3 DEF Closes
    <3> QED BY <1>6, <3>1, <3>2
  <2>5. Put'
    BY <1>6, <2>2 DEF Put, NotClosed, ClosePending, Set
  <2>6. \/ /\ Behind(writeq) = writeq /\ CmdsOf(Leading(writeq)) = {}
           /\ writeq # <<>> /\ IsData(writeq[1])
        \/ Behind(writeq) = <<>>
    BY <1>1, Executes DEF Queues
  <2>7. CASE Behind(writeq) = <<>>
    BY <2>1, <2>4, <2>5, <2>7, EmptyMoving
  <2>8. CASE /\ Behind(writeq) = writeq /\ CmdsOf(Leading(writeq)) = {}
             /\ writeq # <<>> /\ IsData(writeq[1])
    <3>1. intflags' = intflags /\ writeq' = writeq
      BY <2>1, <2>8 DEF Shuts
    <3>2. ~HasFlush
      BY <1>2, <1>3 DEF HasFlush
    <3>3. Wanted' /\ ShutOut' /\ Cleared'
      BY <1>4, <2>8, <3>1, <3>2 DEF Moving, Wanted, ShutOut, Cleared, HasData
    <3> QED BY <2>4, <2>5, <3>3 DEF Moving
  <2> QED BY <2>6, <2>7, <2>8
<1> QED BY <1>2, <1>5, <1>6

\* The command of bk_ioh_shutdown leaves the queue moving.
LEMMA ShutdownQueuesMoving ==
  ASSUME IInv, Nested, Moving, NEW n, n = Len(stack), ShutdownQueues
  PROVE  Moving'
<1>1. Types /\ Counted /\ QueueInv
  BY IInvIs
<1> DEFINE h == Close("begin", deferred)
<1>2. /\ n >= 1 /\ n \in DOMAIN stack /\ stack[n].op = "shutdown"
      /\ \/ Gone(n)
         \/ Turned(n, h)
         \/ \E i \in DOMAIN writeq : writeq[i].cmd = "Close" /\ ~IsData(writeq[i])
  BY <1>1, ShutdownQueuesStack
<1>3. ~freed /\ ~wild /\ ShapeOf(n) /\ n \in Nat
  BY <1>1, <1>2, Shaped DEF Types
<1>4. "closing" \notin intflags
  BY <1>2, <1>3 DEF ShapeOf
<1>5. ~\E i \in DOMAIN writeq : writeq[i].cmd = "Close" /\ ~IsData(writeq[i])
  BY <1>1, <1>4 DEF QueueInv, Commands, CommandOf
<1> DEFINE how == Top.how
           q == IF "write" \in how THEN Append(writeq, Cmd("Shutdown")) ELSE writeq
           cmds == CmdsOf(Leading(q))
           s == Shuts(intflags, cmds)
           r == s \cup (IF "read" \in how THEN {"shutin"} ELSE {})
                  \cup (IF "write" \notin how THEN {}
                        ELSE IF Behind(q) = <<>> THEN {"shutout"} ELSE {"pend"})
<1>6. Queues(q)
  BY DEF Queues
<1>7. "Close" \notin cmds
  <2>1. q # Append(writeq, Cmd("Close"))
    <3>1. CASE q = writeq
      <4>1. Len(Append(writeq, Cmd("Close"))) = Len(writeq) + 1 /\ Len(writeq) \in Nat
        BY <1>1 DEF Types
      <4>2. Len(writeq) # Len(writeq) + 1
        BY <4>1
      <4> QED BY <3>1, <4>1, <4>2
    <3>2. CASE q = Append(writeq, Cmd("Shutdown"))
      <4>1. /\ Append(writeq, Cmd("Shutdown"))[Len(writeq) + 1] = Cmd("Shutdown")
            /\ Append(writeq, Cmd("Close"))[Len(writeq) + 1] = Cmd("Close")
        BY <1>1 DEF Types
      <4>2. Cmd("Shutdown").cmd # Cmd("Close").cmd
        BY DEF Cmd
      <4> QED BY <3>2, <4>1, <4>2
    <3> QED BY <3>1, <3>2
  <2> HIDE DEF q
  <2> QED BY <1>1, <1>5, <1>6, <2>1, CloseFound
<1>8. /\ writeq' = Behind(q) /\ UNCHANGED <<deferred, freed>>
      /\ intflags' = r \ {"closepending"}
      /\ want' = (IF "write" \in how /\ Behind(q) # <<>> THEN want \cup {"write"} ELSE want)
                 \ (IF r \cap {"shutout", "errout"} # {} THEN {"write"} ELSE {})
  <2> HIDE <1>2
  <2> QED BY <1>7, Zenon DEF ShutdownQueues
<1>9. "closing" \notin intflags' /\ "closepending" \notin intflags' /\ NotClosed
  <2>1. \A x \in r : x \in s \/ x \in {"shutin", "shutout", "pend"}
    OBVIOUS
  <2>2. "closing" \notin s
    BY <1>4, ShutsIs
  <2> HIDE DEF s, r
  <2> QED BY <1>8, <2>1, <2>2 DEF NotClosed
<1>10. Put'
  BY <1>9 DEF Put
<1>11. Once(h, intflags')
  <2>1. intflags' \cap {"closing", "closepending"} = {}
    BY <1>9
  <2> QED BY <2>1, OnceIs
<1>12. h.op = "close"
  BY DEF Close
<1> HIDE DEF h
<1>13. Closes' /\ (HasFlush => HasFlush')
  <2>1. CASE Gone(n)
    <3>1. ~Serves(stack[n]) /\ ~Dead(stack[n])
      BY <1>2 DEF Serves, Dead
    <3>2. Grown(n - 1, 0) /\ Replaces(n, n - 1, 0) /\ n - 1 \in Nat
      BY <1>1, <1>2, <1>3, <2>1, <3>1, GoneReplaces
    <3>3. \A i \in n - 1 + 1 .. n - 1 + 0 : FALSE
      BY <3>2
    <3> QED BY <1>1, <1>8, <1>9, <3>2, <3>3, PassesIs, OnceKept, ClosesKept DEF Passes
  <2>2. CASE Turned(n, h)
    <3>1. Relieves(n, h)
      BY <1>2, <1>12 DEF Relieves, Serves, Dead
    <3>2. Grown(n - 1, 1) /\ Replaces(n, n - 1, 1) /\ n - 1 \in Nat
      BY <1>1, <2>2, <3>1, TurnReplaces
    <3>3. \A i \in n - 1 + 1 .. n - 1 + 1 : i = n
      BY <1>3
    <3>4. \A i \in n - 1 + 1 .. n - 1 + 1 : Once(stack'[i], intflags')
      BY <1>11, <2>2, <3>3 DEF Turned
    <3> QED BY <1>1, <1>8, <1>9, <3>2, <3>4, PassesIs, OnceKept, ClosesKept DEF Passes
  <2> QED BY <1>2, <1>5, <2>1, <2>2
<1> HIDE DEF q
<1>14. \/ Behind(q) = q /\ cmds = {} /\ q # <<>> /\ IsData(q[1])
       \/ Behind(q) = <<>>
  BY <1>1, <1>6, Executes
<1>15. CASE Behind(q) = <<>>
  BY <1>8, <1>10, <1>13, <1>15, EmptyMoving
<1>16. CASE Behind(q) = q /\ cmds = {} /\ q # <<>> /\ IsData(q[1])
  <2>1. HasData
    BY <1>1, <1>6, <1>16, DataBefore
  <2>2. s = intflags
    BY <1>16 DEF Shuts
  <2>3. \A x \in {"shutout", "errout"} : x \in r => x \in intflags
    BY <1>16, <2>2
  <2>4. "shutout" \notin r
    BY <2>1, <2>3 DEF Moving, ShutOut
  <2>5. ShutOut'
    BY <1>8, <2>4 DEF ShutOut
  <2>6. Wanted'
    <3> SUFFICES ASSUME ~HasFlush' PROVE "write" \in want' /\ "errout" \notin intflags'
      BY DEF Wanted
    <3>1. "write" \in want /\ "errout" \notin intflags
      BY <1>3, <1>13, <2>1 DEF Moving, Wanted
    <3>2. "errout" \notin r
      BY <2>3, <3>1
    <3> HIDE DEF r
    <3> QED BY <1>8, <2>4, <3>1, <3>2
  <2>7. Cleared'
    BY <1>8, <1>16 DEF Cleared
  <2> QED BY <1>10, <1>13, <2>5, <2>6, <2>7 DEF Moving
<1> QED BY <1>14, <1>15, <1>16

-----------------------------------------------------------------------------
(* Nothing is stuck                                                        *)

\* Every step leaves the queue moving.
LEMMA NextMoving ==
  ASSUME CallbacksRest, ~CloseTwice, IInv, Nested, Moving, [Next]_vars
  PROVE  Moving'
<1>1. CASE Program
  <2>1. ASSUME NEW b \in Buf, NEW bypass \in BOOLEAN, Write(b, bypass) PROVE Moving'
    BY <2>1, WriteMoving
  <2>2. ASSUME NEW allowed \in BOOLEAN, Readallowed(allowed) PROVE Moving'
    BY <2>2, ReadallowedMoving
  <2>3. ASSUME NEW how \in SUBSET {"read", "write"}, FlushCall(how) PROVE Moving'
    BY <2>3, FlushCallMoving
  <2>4. ASSUME NEW how \in SUBSET {"read", "write"}, ShutdownCall(how) PROVE Moving'
    BY <2>4, ShutdownCallMoving
  <2>5. ASSUME NEW abort \in BOOLEAN, CloseCall(abort) PROVE Moving'
    BY <2>5, CloseCallMoving
  <2>6. CASE RunDestroy
    BY <2>6, RunDestroyMoving
  <2> QED BY <1>1, <2>1, <2>2, <2>3, <2>4, <2>5, <2>6 DEF Program
<1>2. CASE CallbackReturns
  BY <1>2, CallbackReturnsMoving
<1>3. ASSUME NEW ready \in SUBSET {"read", "write"}, Dispatch(ready) PROVE Moving'
  BY <1>3, DispatchMoving
<1>4. CASE Internal
  <2>1. ASSUME NEW m \in 1 .. ToWrite, WriteSome(m) PROVE Moving'
    BY <2>1, WriteSomeMoving
  <2>2. ASSUME NEW status \in {"ReadEOF", "ReadError"}, ReadEnds(status) PROVE Moving'
    BY <2>2, ReadEndsMoving
  <2>3. FlushNext => Moving'
    BY FlushNextMoving
  <2>4. FlushEnd => Moving'
    BY FlushEndMoving
  <2>5. ShutdownQueues => Moving'
    BY ShutdownQueuesMoving
  <2>6. CloseBegin => Moving'
    BY CloseBeginMoving
  <2>7. CloseQueues => Moving'
    BY CloseQueuesMoving
  <2>8. DestroyBegin => Moving'
    BY DestroyBeginMoving
  <2>9. DestroyTell => Moving'
    BY DestroyTellMoving
  <2>10. DestroyFree => Moving'
    BY DestroyFreeMoving
  <2>11. WriteNothing => Moving'
    BY WriteNothingMoving
  <2>12. WriteFails => Moving'
    BY WriteFailsMoving
  <2>13. WriteFailed => Moving'
    BY WriteFailedMoving
  <2>14. DequeueByte => Moving'
    BY DequeueByteMoving
  <2>15. DequeueEnd => Moving'
    BY DequeueEndMoving
  <2>16. ReadSome => Moving'
    BY ReadSomeMoving
  <2>17. ReadNothing => Moving'
    BY ReadNothingMoving
  <2>18. Received => Moving'
    BY ReceivedMoving
  <2>19. ReadEnded => Moving'
    BY ReadEndedMoving
  <2>20. HandlerEnd => Moving'
    BY HandlerEndMoving
  <2> QED BY <1>4, <2>1, <2>2, <2>3, <2>4, <2>5, <2>6, <2>7, <2>8, <2>9, <2>10, <2>11, <2>12,
             <2>13, <2>14, <2>15, <2>16, <2>17, <2>18, <2>19, <2>20 DEF Internal
<1>5. CASE UNCHANGED vars
  <2>1. UNCHANGED <<stack, intflags, deferred, writeq, want, freed>>
    BY <1>5 DEF vars, ioh, queue
  <2>2. /\ HasFlush' <=> HasFlush
        /\ Serving' <=> Serving
        /\ Dying' <=> Dying
        /\ HasData' <=> HasData
    BY <2>1 DEF HasFlush, Serving, Dying, HasData
  <2>3. Closes' /\ Put'
    BY <2>1, <2>2 DEF Moving, Closes, Put
  <2>4. Wanted' /\ ShutOut' /\ Cleared'
    BY <2>1, <2>2 DEF Moving, Wanted, ShutOut, Cleared
  <2> QED BY <2>3, <2>4 DEF Moving
<1> QED BY <1>1, <1>2, <1>3, <1>4, <1>5 DEF Next

\* Initially the queue is empty.
LEMMA InitMoving == Init => Moving
<1> SUFFICES ASSUME Init PROVE Moving
  OBVIOUS
<1>1. ~HasData /\ DOMAIN stack = {} /\ intflags = {} /\ writeq = <<>>
  BY DEF Init, HasData
<1> QED BY <1>1 DEF Moving, Closes, Put, Wanted, ShutOut, Cleared

\* If callbacks neither flush the ioh nor run the loop, and it is closed once, what is
\* on its queue moves in every state that it reaches.
THEOREM MovingHolds == CallbacksRest /\ ~CloseTwice => (Spec => []Moving)
<1> SUFFICES ASSUME CallbacksRest, ~CloseTwice PROVE Spec => []Moving
  OBVIOUS
<1>1. IInv /\ Nested /\ Moving /\ [Next]_vars => Moving'
  BY NextMoving
<1>2. Spec => []Nested
  BY NestedHolds
<1> QED BY <1>1, <1>2, InitMoving, Inductive, PTL DEF Spec

\* If callbacks neither flush the ioh nor run the loop, and it is closed once, an ioh
\* that waits for the run loop with something on its queue has data in front, has asked
\* to be told when it can be written, and is neither shut down nor in error.
THEOREM NothingStuckHolds == CallbacksRest /\ ~CloseTwice => (Spec => []NothingStuck)
<1>1. Types /\ Moving => NothingStuck
  <2> SUFFICES ASSUME Types, Moving, stack = <<>>, ~freed, writeq # <<>>
               PROVE  IsData(Head(writeq)) /\ "write" \in want /\ ~Set({"errout", "shutout"})
    BY DEF NothingStuck
  <2>1. ~HasFlush /\ ~Serving
    BY DEF HasFlush, Serving
  <2>2. IsData(writeq[1]) /\ writeq[1] = Head(writeq) /\ 1 \in DOMAIN writeq
    BY <2>1 DEF Types, Moving, Cleared
  <2>3. HasData
    BY <2>2 DEF HasData
  <2> QED BY <2>1, <2>2, <2>3 DEF Moving, Wanted, ShutOut, Set
<1>2. CallbacksRest /\ ~CloseTwice => (Spec => []Moving)
  BY MovingHolds
<1>3. Spec => []Types
  BY TypeCorrect
<1> QED BY <1>1, <1>2, <1>3, PTL
=============================================================================
