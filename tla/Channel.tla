------------------------------- MODULE Channel -------------------------------
(***************************************************************************)
(* What a ring promises its two sides: a bounded first-in first-out        *)
(* channel.  A writer appends items while there is room; a reader removes  *)
(* items from the front.  The ring buffer of lib/b_ringbuf.c (one item at  *)
(* a time) and the shared-memory ring of lib/b_shmipc.c (a block of bytes  *)
(* at a time) are each shown to implement it.                              *)
(***************************************************************************)
EXTENDS Integers, Sequences

CONSTANTS Items,     \* what travels
          Capacity   \* how many items the channel holds at most

VARIABLE queue

Init == queue = <<>>

\* Append n items, as many as there is room for.
Put(n) ==
    /\ Len(queue') = Len(queue) + n
    /\ Len(queue') <= Capacity
    /\ SubSeq(queue', 1, Len(queue)) = queue
    /\ \A i \in Len(queue) + 1 .. Len(queue') : queue'[i] \in Items

\* Remove the n oldest items.
Get(n) == n <= Len(queue) /\ queue' = SubSeq(queue, n + 1, Len(queue))

Next == \E n \in 1 .. Capacity : Put(n) \/ Get(n)

Spec == Init /\ [][Next]_queue
=============================================================================
