----------------------------- MODULE IohProofs -----------------------------
(***************************************************************************)
(* Proofs about one I/O handle (module Ioh): the types of its state, that  *)
(* each buffer it accepted is on its queue or told of, and told of once,   *)
(* that reading is on exactly when nobody throttles it, and that the       *)
(* length it keeps of its queue is the bytes that the queue holds.         *)
(*                                                                         *)
(* The invariant speaks of one bid and of one activation at a time, so     *)
(* that a step has to account for those it touches and no others.  The     *)
(* lemmas follow the modelled code: sequences and the operators of the     *)
(* queue, what each action makes of the stack, what it makes of the queue, *)
(* and last, one lemma per action, that it keeps the invariant.            *)
(***************************************************************************)
EXTENDS Ioh, SequenceTheorems, FiniteSetTheorems, TLAPS

-----------------------------------------------------------------------------
(* Sequences                                                               *)

\* What the program's callbacks have to leave alone for the ioh not to be flushed
\* or entered anew under a function of its own
CallbacksRest == \A s \in Status : {"flush", "run"} \cap Calls[s] = {}

\* Append, element by element
LEMMA AppendIs ==
  ASSUME NEW S, NEW s \in Seq(S), NEW e \in S
  PROVE  /\ Append(s, e) \in Seq(S) /\ Len(Append(s, e)) = Len(s) + 1 /\ Len(s) \in Nat
         /\ \A i \in 1 .. Len(s) : Append(s, e)[i] = s[i]
         /\ Append(s, e)[Len(s) + 1] = e
BY AppendProperties

\* The rest of a sequence, element by element
LEMMA SubSeqIs ==
  ASSUME NEW S, NEW s \in Seq(S), NEW m \in 1 .. Len(s) + 1
  PROVE  /\ SubSeq(s, m, Len(s)) \in Seq(S) /\ Len(SubSeq(s, m, Len(s))) = Len(s) - m + 1
         /\ \A i \in 1 .. Len(s) - m + 1 : SubSeq(s, m, Len(s))[i] = s[m + i - 1]
<1>1. Len(s) \in Nat /\ m \in Int
  OBVIOUS
<1>2. \A i \in m .. Len(s) : s[i] \in S
  BY <1>1
<1> QED
  BY <1>1, <1>2, SubSeqProperties

\* A prefix of a sequence, element by element
LEMMA PrefixIs ==
  ASSUME NEW S, NEW s \in Seq(S), NEW m \in 0 .. Len(s)
  PROVE  /\ SubSeq(s, 1, m) \in Seq(S) /\ Len(SubSeq(s, 1, m)) = m
         /\ \A i \in 1 .. m : SubSeq(s, 1, m)[i] = s[i]
<1>1. Len(s) \in Nat /\ m \in Int
  OBVIOUS
<1>2. \A i \in 1 .. m : s[i] \in S
  BY <1>1
<1> QED
  BY <1>1, <1>2, SubSeqProperties

\* Tail, element by element
LEMMA TailIs ==
  ASSUME NEW S, NEW s \in Seq(S), s # <<>>
  PROVE  /\ Tail(s) \in Seq(S) /\ Len(Tail(s)) = Len(s) - 1 /\ Len(s) \in Nat /\ Len(s) >= 1
         /\ \A i \in 1 .. Len(s) - 1 : Tail(s)[i] = s[i + 1]
         /\ Head(s) = s[1] /\ s[1] \in S
BY HeadTailProperties

\* RemoveAt, element by element
LEMMA RemoveAtIs ==
  ASSUME NEW S, NEW s \in Seq(S), NEW k \in 1 .. Len(s)
  PROVE  /\ RemoveAt(s, k) \in Seq(S) /\ Len(RemoveAt(s, k)) = Len(s) - 1
         /\ \A i \in 1 .. Len(s) - 1 : RemoveAt(s, k)[i] = IF i < k THEN s[i] ELSE s[i + 1]
<1> DEFINE a == SubSeq(s, 1, k - 1)
           b == SubSeq(s, k + 1, Len(s))
<1>1. Len(s) \in Nat /\ k \in Int /\ 1 <= k /\ k <= Len(s)
  OBVIOUS
<1>2. a \in Seq(S) /\ Len(a) = k - 1 /\ \A i \in 1 .. k - 1 : a[i] = s[i]
  BY <1>1, PrefixIs
<1>3. b \in Seq(S) /\ Len(b) = Len(s) - k /\ \A i \in 1 .. Len(s) - k : b[i] = s[k + i]
  <2>1. k + 1 \in 1 .. Len(s) + 1 /\ Len(s) - (k + 1) + 1 = Len(s) - k
    BY <1>1
  <2>2. \A i \in 1 .. Len(s) - k : (k + 1) + i - 1 = k + i
    BY <1>1
  <2>3. \A m \in 1 .. Len(s) + 1 :
          /\ SubSeq(s, m, Len(s)) \in Seq(S) /\ Len(SubSeq(s, m, Len(s))) = Len(s) - m + 1
          /\ \A i \in 1 .. Len(s) - m + 1 : SubSeq(s, m, Len(s))[i] = s[m + i - 1]
    BY SubSeqIs
  <2>4. /\ b \in Seq(S) /\ Len(b) = Len(s) - (k + 1) + 1
        /\ \A i \in 1 .. Len(s) - (k + 1) + 1 : b[i] = s[(k + 1) + i - 1]
    BY <2>1, <2>3
  <2> QED
    BY <2>1, <2>2, <2>4
<1>4. RemoveAt(s, k) = a \o b
  BY DEF RemoveAt
<1> HIDE DEF a, b
<1>5. /\ a \o b \in Seq(S) /\ Len(a \o b) = Len(a) + Len(b)
      /\ \A i \in 1 .. Len(a) + Len(b) : (a \o b)[i] = IF i <= Len(a) THEN a[i] ELSE b[i - Len(a)]
  BY <1>2, <1>3, ConcatProperties
<1>6. ASSUME NEW i \in 1 .. Len(s) - 1 PROVE (a \o b)[i] = IF i < k THEN s[i] ELSE s[i + 1]
  <2>1. i \in 1 .. Len(a) + Len(b) /\ i \in Int
    BY <1>1, <1>2, <1>3
  <2>2. CASE i < k
    <3>1. i <= Len(a) /\ i \in 1 .. k - 1
      BY <1>1, <1>2, <2>2
    <3> QED BY <1>2, <1>5, <2>1, <2>2, <3>1
  <2>3. CASE ~(i < k)
    <3>1. ~(i <= Len(a)) /\ i - Len(a) = i - (k - 1) /\ i - (k - 1) \in 1 .. Len(s) - k
          /\ k + (i - (k - 1)) = i + 1
      BY <1>1, <1>2, <2>1, <2>3
    <3> QED BY <1>3, <1>5, <2>1, <2>3, <3>1
  <2> QED BY <2>2, <2>3
<1> QED
  BY <1>1, <1>2, <1>3, <1>4, <1>5, <1>6

-----------------------------------------------------------------------------
(* The operators of the queue, and the sums over it                        *)

\* The data of a queue come before its commands.
Split(q, d) == d \in 0 .. Len(q) /\ \A i \in 1 .. Len(q) : IsData(q[i]) <=> i <= d

\* The least of a set of integers is what Min chooses.
LEMMA MinIs ==
  ASSUME NEW S, NEW m \in S, \A y \in S : m <= y, S \subseteq Int
  PROVE  Min(S) = m
<1>1. \E x \in S : \A y \in S : x <= y
  OBVIOUS
<1>2. Min(S) \in S /\ \A y \in S : Min(S) <= y
  BY <1>1 DEF Min
<1>3. Min(S) <= m /\ m <= Min(S) /\ m \in Int /\ Min(S) \in Int
  BY <1>2
<1> QED
  BY <1>3

\* With data in front, ioh_execute_ifspecial finds no command, and leaves the queue.
LEMMA NoLeading ==
  ASSUME NEW q \in Seq(Bid), NEW d, Split(q, d), d # 0
  PROVE  Leading(q) = <<>> /\ Behind(q) = q /\ CmdsOf(Leading(q)) = {}
<1> DEFINE M == {i \in 1 .. Len(q) + 1 : i = Len(q) + 1 \/ IsData(q[i])}
<1>1. Len(q) \in Nat /\ 1 \in 1 .. Len(q) /\ IsData(q[1])
  BY DEF Split
<1>2. M \subseteq Int /\ 1 \in M /\ \A y \in M : 1 <= y
  BY <1>1
<1>3. Min(M) = 1
  <2> HIDE DEF M
  <2> QED BY <1>2, MinIs
<1>4. Leading(q) = SubSeq(q, 1, 0)
  <2>1. Leading(q) = SubSeq(q, 1, Min(M) - 1)
    BY Zenon DEF Leading
  <2>2. Min(M) - 1 = 0
    BY <1>3
  <2> QED BY <2>1, <2>2
<1>5. SubSeq(q, 1, 0) = <<>>
  BY SubSeqEmpty
<1>6. Behind(q) = SubSeq(q, 1, Len(q))
  BY <1>4, <1>5 DEF Behind
<1> QED
  BY <1>4, <1>5, <1>6, SubSeqFull DEF CmdsOf

\* Of a queue that holds only commands it finds them all, and leaves none.
LEMMA AllLeading ==
  ASSUME NEW q \in Seq(Bid), Split(q, 0)
  PROVE  Leading(q) = q /\ Behind(q) = <<>>
<1> DEFINE M == {i \in 1 .. Len(q) + 1 : i = Len(q) + 1 \/ IsData(q[i])}
           m == Len(q) + 1
<1>1. Len(q) \in Nat /\ \A i \in 1 .. Len(q) : ~IsData(q[i])
  <2>1. Len(q) \in Nat
    OBVIOUS
  <2>2. \A i \in 1 .. Len(q) : ~(i <= 0)
    BY <2>1
  <2> QED BY <2>1, <2>2 DEF Split
<1>2. M \subseteq Int /\ m \in M /\ \A y \in M : m <= y
  BY <1>1
<1>3. Min(M) = m
  <2> HIDE DEF M, m
  <2> QED BY <1>2, MinIs
<1>4. Leading(q) = SubSeq(q, 1, Len(q))
  <2>1. Leading(q) = SubSeq(q, 1, Min(M) - 1)
    BY Zenon DEF Leading
  <2>2. Min(M) - 1 = Len(q)
    BY <1>1, <1>3
  <2> QED BY <2>1, <2>2
<1>5. Leading(q) = q
  BY <1>4, SubSeqFull
<1>6. Behind(q) = SubSeq(q, Len(q) + 1, Len(q))
  BY <1>5 DEF Behind
<1>7. SubSeq(q, Len(q) + 1, Len(q)) = <<>>
  BY <1>1, SubSeqEmpty
<1> QED
  BY <1>5, <1>6, <1>7

\* The sum over no bids is none.
LEMMA EmptyFold ==
  FoldSeq(LAMBDA bid, n : bid.inuse + n, 0, <<>>) = 0
<1> DEFINE g == [s \in SUBSET {} |-> 0]
<1>1. g = [s \in SUBSET {} |-> IF s = {} THEN 0
             ELSE LET x == CHOOSE y \in s : TRUE IN <<>>[x].inuse + g[s \ {x}]]
  OBVIOUS
<1>2. DOMAIN <<>> = {}
  OBVIOUS
<1> QED
  BY <1>1, <1>2 DEF FoldSeq, FoldFunction, FoldFunctionOnSet, MapThenFoldSet

\* A writev is given nothing when a command is in front.
LEMMA NoRun ==
  ASSUME NEW q \in Seq(Bid), q = <<>> \/ ~IsData(q[1])
  PROVE  DataRun(q) = <<>>
<1> DEFINE M == {i \in 1 .. Len(q) + 1 : i = Len(q) + 1 \/ ~IsData(q[i])}
<1>1. Len(q) \in Nat /\ (q = <<>> => Len(q) = 0)
  OBVIOUS
<1>2. M \subseteq Int /\ 1 \in M /\ \A y \in M : 1 <= y
  BY <1>1
<1>3. Min(M) = 1
  <2> HIDE DEF M
  <2> QED BY <1>2, MinIs
<1>4. DataRun(q) = SubSeq(q, 1, 0)
  <2>1. DataRun(q) = SubSeq(q, 1, Min(M) - 1)
    BY Zenon DEF DataRun
  <2>2. Min(M) - 1 = 0
    BY <1>3
  <2> QED BY <2>1, <2>2
<1> QED
  BY <1>4, SubSeqEmpty

\* With a command in front, or nothing, there is nothing to write.
LEMMA NothingToWrite ==
  ASSUME writeq \in Seq(Bid), writeq = <<>> \/ ~IsData(writeq[1])
  PROVE  ToWrite = 0
<1>1. CASE WriteAll \/ writeq = <<>>
  BY <1>1, NoRun, EmptyFold DEF Iov, ToWrite
<1>2. CASE ~(WriteAll \/ writeq = <<>>)
  <2>1. Head(writeq) = writeq[1] /\ writeq[1] \in Bid
    BY <1>2
  <2> DEFINE q == <<Head(writeq)>>
  <2>2. q \in Seq(Bid) /\ q[1] = writeq[1]
    BY <2>1
  <2> HIDE DEF q
  <2>3. DataRun(q) = <<>>
    BY <1>2, <2>2, NoRun
  <2> QED
    BY <1>2, <2>3, EmptyFold DEF Iov, ToWrite, q
<1> QED
  BY <1>1, <1>2

\* When there is something to write, it is in front.
LEMMA SomeToWrite ==
  ASSUME writeq \in Seq(Bid), NEW n \in 1 .. ToWrite
  PROVE  writeq # <<>> /\ IsData(writeq[1])
<1>1. ASSUME ToWrite = 0 PROVE FALSE
  <2>1. n \in 1 .. 0
    BY <1>1
  <2> QED BY <2>1
<1> QED
  BY <1>1, NothingToWrite

\* s is the bytes of the first i bids, for each i up to d, where the data ends.
Partial(q, d, n, s) ==
  /\ s \in [0 .. d -> 0 .. n] /\ s[0] = 0 /\ s[d] = n
  /\ \A i \in 1 .. d : s[i] = s[i - 1] + q[i].inuse
  /\ \A i, j \in 0 .. d : i <= j => s[i] <= s[j]
\* n is the bytes of the queue q.
Sums(q, n) ==
  /\ n \in Nat
  /\ \E d \in 0 .. Len(q) : Split(q, d) /\ \E s \in [0 .. d -> 0 .. n] : Partial(q, d, n, s)

\* An empty queue holds no bytes.
LEMMA SumsEmpty == Sums(<<>>, 0)
<1> DEFINE s == [i \in 0 .. 0 |-> 0]
<1>1. Split(<<>>, 0)
  BY DEF Split
<1>2. s \in [0 .. 0 -> 0 .. 0] /\ Partial(<<>>, 0, 0, s)
  BY DEF Partial
<1> QED
  BY <1>1, <1>2 DEF Sums

\* Data behind data adds its bytes.
LEMMA SumsData ==
  ASSUME NEW q \in Seq(Bid), NEW n, Sums(q, n), NEW b \in Buf, NEW k \in 1 .. BufLen,
         \A i \in 1 .. Len(q) : IsData(q[i]), BufLen \in Nat
  PROVE  Sums(Append(q, Data(b, k)), n + k)
<1> DEFINE e == Data(b, k)
           r == Append(q, e)
<1>1. e \in Bid /\ IsData(e) /\ e.inuse = k /\ k \in Nat /\ n \in Nat /\ n + k \in Nat
  BY DEF Data, Bid, IsData, Sums
<1>2. /\ r \in Seq(Bid) /\ Len(r) = Len(q) + 1 /\ Len(q) \in Nat
      /\ \A i \in 1 .. Len(q) : r[i] = q[i]
      /\ r[Len(q) + 1] = e
  <2> HIDE DEF e
  <2>1. e \in Bid
    BY <1>1
  <2> QED BY <2>1, AppendIs
<1>3. PICK d, s : d \in 0 .. Len(q) /\ Split(q, d) /\ Partial(q, d, n, s)
  BY DEF Sums, Partial
<1>4. d = Len(q)
  <2>1. CASE Len(q) = 0
    BY <1>2, <1>3, <2>1
  <2>2. CASE Len(q) # 0
    <3>1. Len(q) \in 1 .. Len(q)
      BY <1>2, <2>2
    <3>2. Len(q) <= d
      BY <1>3, <3>1 DEF Split
    <3> QED BY <1>2, <1>3, <3>2
  <2> QED BY <2>1, <2>2
<1> DEFINE m == d + 1
           t == [i \in 0 .. m |-> IF i = m THEN n + k ELSE s[i]]
<1> HIDE DEF e, r
<1>5. d \in Nat /\ m \in Nat /\ m = Len(r) /\ \A i \in 1 .. m : i # m => i \in 1 .. d
  BY <1>2, <1>4
<1>6. Split(r, m)
  BY <1>1, <1>2, <1>3, <1>4, <1>5 DEF Split
<1>7. \A i \in 0 .. d : s[i] \in 0 .. n
  BY <1>3 DEF Partial
<1>8. t \in [0 .. m -> 0 .. n + k]
  BY <1>1, <1>5, <1>7
<1>9. t[0] = 0 /\ t[m] = n + k
  BY <1>3, <1>5 DEF Partial
<1>10. ASSUME NEW i \in 1 .. m PROVE t[i] = t[i - 1] + r[i].inuse
  <2>1. CASE i = m
    <3>1. t[i] = n + k /\ t[i - 1] = s[d] /\ r[i] = e
      BY <1>2, <1>4, <1>5, <2>1
    <3> QED BY <1>1, <1>3, <3>1 DEF Partial
  <2>2. CASE i # m
    <3>1. i \in 1 .. d /\ i - 1 # m /\ i - 1 \in 0 .. m
      BY <1>5, <2>2
    <3>2. t[i] = s[i] /\ t[i - 1] = s[i - 1] /\ r[i] = q[i]
      BY <1>2, <1>4, <1>5, <2>2, <3>1
    <3> QED BY <1>3, <3>1, <3>2 DEF Partial
  <2> QED BY <2>1, <2>2
<1>11. ASSUME NEW i \in 0 .. m, NEW j \in 0 .. m, i <= j PROVE t[i] <= t[j]
  <2>1. CASE j = m
    BY <1>1, <1>5, <1>8, <1>9, <2>1
  <2>2. CASE j # m
    <3>1. i \in 0 .. d /\ j \in 0 .. d /\ i # m
      BY <1>5, <1>11, <2>2
    <3> QED BY <1>3, <1>11, <2>2, <3>1 DEF Partial
  <2> QED BY <2>1, <2>2
<1> HIDE DEF t
<1>12. Partial(r, m, n + k, t)
  BY <1>8, <1>9, <1>10, <1>11 DEF Partial
<1>13. m \in 0 .. Len(r)
  BY <1>5
<1> HIDE DEF m
<1> QED
  BY <1>1, <1>6, <1>8, <1>12, <1>13 DEF Sums, r, e

\* A command adds no bytes.
LEMMA SumsCmd ==
  ASSUME NEW q \in Seq(Bid), NEW n, Sums(q, n), NEW c \in {"Shutdown", "Close"}, BufLen \in Nat
  PROVE  Append(q, Cmd(c)) \in Seq(Bid) /\ Sums(Append(q, Cmd(c)), n)
<1> DEFINE e == Cmd(c)
           r == Append(q, e)
<1>1. e \in Bid /\ ~IsData(e)
  BY DEF Cmd, Bid, IsData
<1>2. /\ r \in Seq(Bid) /\ Len(r) = Len(q) + 1 /\ Len(q) \in Nat
      /\ \A i \in 1 .. Len(q) : r[i] = q[i]
      /\ r[Len(q) + 1] = e
  BY <1>1, AppendIs
<1>3. PICK d, s : d \in 0 .. Len(q) /\ Split(q, d) /\ Partial(q, d, n, s)
  BY DEF Sums, Partial
<1> HIDE DEF r, e
<1>4. Split(r, d) /\ d \in 0 .. Len(r) /\ \A i \in 1 .. d : r[i] = q[i]
  BY <1>1, <1>2, <1>3 DEF Split
<1>5. Partial(r, d, n, s)
  BY <1>3, <1>4 DEF Partial
<1> QED
  BY <1>2, <1>3, <1>4, <1>5 DEF Sums, r, e

\* A queue without its first bid holds what that did not.
LEMMA SumsTail ==
  ASSUME NEW q \in Seq(Bid), NEW n, Sums(q, n), q # <<>>, BufLen \in Nat,
         \A i \in 1 .. Len(q) : ~IsData(q[i]) => q[i].inuse = 0
  PROVE  n - q[1].inuse \in Nat /\ Sums(Tail(q), n - q[1].inuse)
<1> DEFINE r == Tail(q)
           x == q[1].inuse
<1>1. /\ r \in Seq(Bid) /\ Len(r) = Len(q) - 1 /\ Len(q) \in Nat /\ Len(q) >= 1
      /\ \A i \in 1 .. Len(q) - 1 : r[i] = q[i + 1]
      /\ q[1] \in Bid
  BY TailIs
<1>2. x \in Nat /\ n \in Nat
  BY <1>1 DEF Bid, Sums
<1>3. PICK d, s : d \in 0 .. Len(q) /\ Split(q, d) /\ Partial(q, d, n, s)
  BY DEF Sums, Partial
<1>4. d \in Nat /\ d <= Len(q)
  BY <1>1, <1>3
<1> HIDE DEF r
<1>5. CASE d = 0
  <2>1. ~IsData(q[1]) /\ x = 0
    <3>1. 1 \in 1 .. Len(q) /\ ~(1 <= d)
      BY <1>1, <1>5
    <3> QED BY <1>3, <3>1 DEF Split
  <2>2. Split(r, d) /\ d \in 0 .. Len(r)
    <3>1. ASSUME NEW i \in 1 .. Len(r) PROVE IsData(r[i]) <=> i <= d
      <4>1. i \in 1 .. Len(q) - 1 /\ i + 1 \in 1 .. Len(q) /\ ~(i <= d) /\ ~(i + 1 <= d)
        BY <1>1, <1>5
      <4> QED BY <1>1, <1>3, <4>1 DEF Split
    <3> QED BY <1>1, <1>5, <3>1 DEF Split
  <2>3. Partial(r, d, n, s)
    <3>1. 1 .. d = {}
      BY <1>5
    <3> QED BY <1>3, <3>1 DEF Partial
  <2>4. n - x = n
    BY <1>2, <2>1
  <2> QED
    BY <1>2, <2>2, <2>3, <2>4 DEF Sums, Partial, r
<1>6. CASE d # 0
  <2> DEFINE m == d - 1
             k == n - x
             t == [i \in 0 .. m |-> s[i + 1] - x]
  <2>1. m \in Nat /\ m \in 0 .. Len(r) /\ m + 1 = d
    BY <1>1, <1>4, <1>6
  <2>2. \A i \in 0 .. m : i + 1 \in 0 .. d /\ i + 1 \in 1 .. d
    BY <2>1
  <2>3. s[1] = x /\ \A i \in 1 .. d : x <= s[i] /\ s[i] \in Nat /\ s[i] <= n
    <3>1. 1 \in 1 .. d /\ 1 \in 0 .. d /\ 1 - 1 = 0
      BY <1>4, <1>6
    <3>2. s[1] = 0 + x
      BY <1>3, <3>1 DEF Partial
    <3>3. s[1] = x
      BY <1>2, <3>2
    <3>4. ASSUME NEW i \in 1 .. d PROVE x <= s[i] /\ s[i] \in Nat /\ s[i] <= n
      <4>1. i \in 0 .. d /\ 1 <= i
        BY <1>4
      <4>2. s[i] \in 0 .. n /\ s[1] <= s[i]
        BY <1>3, <3>1, <4>1 DEF Partial
      <4> QED BY <1>2, <3>3, <4>2
    <3> QED BY <3>3, <3>4
  <2>4. k \in Nat
    <3>1. d \in 1 .. d /\ s[d] = n
      BY <1>3, <1>4, <1>6 DEF Partial
    <3>2. x <= n
      BY <2>3, <3>1
    <3> QED BY <1>2, <3>2
  <2>5. t \in [0 .. m -> 0 .. k]
    <3>1. ASSUME NEW i \in 0 .. m PROVE s[i + 1] - x \in 0 .. k
      <4>1. x <= s[i + 1] /\ s[i + 1] \in Nat /\ s[i + 1] <= n
        BY <2>2, <2>3
      <4> QED BY <1>2, <4>1
    <3> QED BY <3>1
  <2>6. t[0] = 0 /\ t[m] = k
    <3>1. t[0] = s[0 + 1] - x /\ t[m] = s[m + 1] - x
      BY <2>1
    <3>2. s[m + 1] = n
      BY <1>3, <2>1 DEF Partial
    <3> QED BY <1>2, <2>3, <3>1, <3>2
  <2>7. ASSUME NEW i \in 1 .. m PROVE t[i] = t[i - 1] + r[i].inuse
    <3>1. i \in 0 .. m /\ i - 1 \in 0 .. m /\ (i - 1) + 1 = i /\ i + 1 \in 1 .. d /\ (i + 1) - 1 = i
          /\ i \in 1 .. Len(q) - 1 /\ i \in 1 .. d /\ i + 1 \in 1 .. Len(q)
      BY <1>1, <1>4, <2>1
    <3>2. t[i] = s[i + 1] - x /\ t[i - 1] = s[i] - x /\ r[i] = q[i + 1]
      BY <1>1, <3>1
    <3>3. s[i + 1] = s[i] + q[i + 1].inuse
      BY <1>3, <3>1 DEF Partial
    <3>4. s[i] \in Nat /\ q[i + 1].inuse \in Nat
      <4>1. q[i + 1] \in Bid
        BY <3>1
      <4>2. q[i + 1].inuse \in Nat
        BY <4>1 DEF Bid
      <4> QED BY <2>3, <3>1, <4>2
    <3> HIDE DEF x, t
    <3> QED BY <1>2, <3>2, <3>3, <3>4
  <2>8. ASSUME NEW i \in 0 .. m, NEW j \in 0 .. m, i <= j PROVE t[i] <= t[j]
    <3>1. s[i + 1] <= s[j + 1]
      <4>1. i + 1 <= j + 1
        BY <2>1, <2>8
      <4> QED BY <1>3, <2>2, <4>1 DEF Partial
    <3>2. s[i + 1] \in Nat /\ s[j + 1] \in Nat
      BY <2>2, <2>3
    <3> HIDE DEF x
    <3> QED BY <1>2, <3>1, <3>2
  <2>9. Split(r, m)
    <3>1. ASSUME NEW i \in 1 .. Len(r) PROVE IsData(r[i]) <=> i <= m
      <4>1. i \in 1 .. Len(q) - 1 /\ i + 1 \in 1 .. Len(q) /\ (i <= m <=> i + 1 <= d)
        BY <1>1, <1>4, <2>1
      <4> QED BY <1>1, <1>3, <4>1 DEF Split
    <3> QED BY <2>1, <3>1 DEF Split
  <2> HIDE DEF t, m, k
  <2>10. Partial(r, m, k, t)
    BY <2>5, <2>6, <2>7, <2>8 DEF Partial
  <2>11. Sums(r, k)
    BY <2>1, <2>4, <2>5, <2>9, <2>10 DEF Sums
  <2> QED
    BY <2>4, <2>11 DEF r, k
<1> QED
  BY <1>5, <1>6

\* Nothing on the queue holds more than the queue does.
LEMMA SumsSome ==
  ASSUME NEW q \in Seq(Bid), NEW n, Sums(q, n), NEW k \in 1 .. Len(q), IsData(q[k]),
         BufLen \in Nat
  PROVE  q[k].inuse \in Nat /\ q[k].inuse <= n /\ n \in Nat
<1>1. PICK d, s : d \in 0 .. Len(q) /\ Split(q, d) /\ Partial(q, d, n, s)
  BY DEF Sums, Partial
<1>2. n \in Nat /\ Len(q) \in Nat /\ q[k] \in Bid
  BY DEF Sums, Partial
<1>3. k \in 1 .. d /\ k - 1 \in 0 .. d /\ k \in 0 .. d
  <2>1. k <= d
    BY <1>1 DEF Split
  <2> QED BY <1>1, <1>2, <2>1
<1>4. s[k] = s[k - 1] + q[k].inuse /\ s[k] \in 0 .. n /\ s[k - 1] \in 0 .. n
  BY <1>1, <1>3 DEF Partial
<1>5. q[k].inuse \in Nat
  BY <1>2 DEF Bid
<1> QED
  BY <1>2, <1>4, <1>5

\* The sums up to each bid grow by what it holds.
LEMMA PartialAt ==
  ASSUME NEW q \in Seq(Bid), NEW n \in Nat, NEW d \in 0 .. Len(q), NEW s, Partial(q, d, n, s),
         NEW k \in 1 .. d, BufLen \in Nat
  PROVE  /\ q[k].inuse \in Nat /\ s[k] = s[k - 1] + q[k].inuse
         /\ \A j \in 0 .. d : s[j] \in Nat /\ s[j] <= n
         /\ \A j \in k .. d : s[k - 1] + q[k].inuse <= s[j]
<1>1. d \in Nat /\ d <= Len(q) /\ k \in 1 .. Len(q) /\ k \in 0 .. d
  OBVIOUS
<1>2. q[k].inuse \in Nat
  <2>1. q[k] \in Bid
    BY <1>1
  <2> QED BY <2>1 DEF Bid
<1>3. \A j \in 0 .. d : s[j] \in Nat /\ s[j] <= n
  <2>1. ASSUME NEW j \in 0 .. d PROVE s[j] \in 0 .. n
    BY DEF Partial
  <2> QED BY <2>1
<1>4. s[k] = s[k - 1] + q[k].inuse
  BY DEF Partial
<1>5. ASSUME NEW j \in k .. d PROVE s[k - 1] + q[k].inuse <= s[j]
  <2>1. j \in 0 .. d /\ k <= j
    BY <1>1
  <2>2. s[k] <= s[j]
    BY <1>1, <2>1 DEF Partial
  <2> QED BY <1>4, <2>2
<1> QED BY <1>2, <1>3, <1>4, <1>5

\* A queue without one of its data holds what that did not.
LEMMA SumsRemove ==
  ASSUME NEW q \in Seq(Bid), NEW n, Sums(q, n), NEW k \in 1 .. Len(q), IsData(q[k]), BufLen \in Nat
  PROVE  n - q[k].inuse \in Nat /\ Sums(RemoveAt(q, k), n - q[k].inuse)
<1> DEFINE r == RemoveAt(q, k)
           x == q[k].inuse
<1>1. PICK d, s : d \in 0 .. Len(q) /\ Split(q, d) /\ Partial(q, d, n, s)
  BY DEF Sums, Partial
<1>2. n \in Nat
  BY DEF Sums
<1>3. k \in 1 .. d /\ d \in Nat /\ Len(q) \in Nat /\ d <= Len(q) /\ d >= 1 /\ k \in Nat
  <2>1. k <= d
    BY <1>1 DEF Split
  <2> QED BY <1>1, <2>1
<1>4. /\ r \in Seq(Bid) /\ Len(r) = Len(q) - 1
      /\ \A i \in 1 .. Len(q) - 1 : r[i] = IF i < k THEN q[i] ELSE q[i + 1]
  BY RemoveAtIs
<1>5. /\ x \in Nat /\ s[k] = s[k - 1] + x
      /\ \A j \in 0 .. d : s[j] \in Nat /\ s[j] <= n
      /\ \A j \in k .. d : s[k - 1] + x <= s[j]
  BY <1>1, <1>2, <1>3, PartialAt
<1> DEFINE m == d - 1
           t == [j \in 0 .. m |-> IF j < k THEN s[j] ELSE s[j + 1] - x]
<1> HIDE DEF r, x
<1>6. m \in Nat /\ m \in 0 .. Len(r) /\ m + 1 = d
  BY <1>3, <1>4
<1>7. ASSUME NEW j \in 0 .. m
      PROVE  /\ t[j] \in Nat /\ t[j] <= n - x
             /\ j < k => t[j] = s[j]
             /\ j >= k => t[j] = s[j + 1] - x
  <2>1. j \in Nat /\ j <= m /\ j \in 0 .. d /\ j + 1 \in 0 .. d
    BY <1>6
  <2>2. CASE j < k
    <3>1. t[j] = s[j] /\ s[j] \in Nat
      BY <1>5, <2>1, <2>2
    <3>2. s[j] <= s[k - 1]
      <4>1. j <= k - 1 /\ k - 1 \in 0 .. d
        BY <1>3, <2>1, <2>2
      <4> QED BY <1>1, <2>1, <4>1 DEF Partial
    <3>3. s[k - 1] \in Nat /\ s[k - 1] + x <= n
      <4>1. k - 1 \in 0 .. d /\ k \in k .. d /\ k \in 0 .. d
        BY <1>3
      <4> QED BY <1>5, <4>1
    <3>4. s[j] <= n - x
      BY <1>2, <1>5, <3>1, <3>2, <3>3
    <3> HIDE DEF t
    <3> QED BY <1>3, <2>1, <2>2, <3>1, <3>4
  <2>3. CASE ~(j < k)
    <3>1. t[j] = s[j + 1] - x
      BY <2>1, <2>3
    <3>2. j + 1 \in k .. d /\ k - 1 \in 0 .. d
      BY <1>3, <2>1, <2>3
    <3>3. s[k - 1] + x <= s[j + 1] /\ s[j + 1] \in Nat /\ s[j + 1] <= n /\ s[k - 1] \in Nat
      BY <1>5, <2>1, <3>2
    <3>4. s[j + 1] - x \in Nat /\ s[j + 1] - x <= n - x
      BY <1>2, <1>5, <3>3, SMTT(40)
    <3> HIDE DEF t
    <3> QED BY <1>3, <2>1, <2>3, <3>1, <3>4
  <2> QED BY <2>2, <2>3
<1>8. n - x \in Nat
  <2>1. 0 \in 0 .. m
    BY <1>6
  <2>2. t[0] \in Nat /\ t[0] <= n - x
    BY <1>7, <2>1
  <2> HIDE DEF t
  <2> QED BY <1>2, <1>5, <2>2
<1>9. t \in [0 .. m -> 0 .. n - x]
  <2>1. t = [j \in 0 .. m |-> t[j]]
    OBVIOUS
  <2>2. \A j \in 0 .. m : t[j] \in 0 .. n - x
    BY <1>7, <1>8
  <2> HIDE DEF t
  <2> QED BY <2>1, <2>2
<1>10. t[0] = 0
  <2>1. 0 \in 0 .. m /\ 0 < k
    BY <1>3, <1>6
  <2> QED BY <1>1, <1>7, <2>1 DEF Partial
<1>11. t[m] = n - x
  <2>1. m \in 0 .. m
    BY <1>6
  <2>2. CASE m < k
    <3>1. k = d /\ k - 1 = m
      BY <1>3, <1>6, <2>2
    <3>2. t[m] = s[k - 1] /\ s[k] = n
      BY <1>1, <1>7, <2>1, <2>2, <3>1 DEF Partial
    <3>3. s[k - 1] \in Nat
      BY <1>3, <1>5
    <3> HIDE DEF t
    <3> QED BY <1>5, <3>2, <3>3
  <2>3. CASE ~(m < k)
    <3>1. m >= k
      BY <1>3, <1>6, <2>3
    <3>2. t[m] = s[m + 1] - x /\ s[m + 1] = n
      BY <1>1, <1>6, <1>7, <2>1, <3>1 DEF Partial
    <3> QED BY <3>2
  <2> QED BY <2>2, <2>3
<1>12. ASSUME NEW i \in 1 .. m PROVE t[i] = t[i - 1] + r[i].inuse
  <2>1. i \in 0 .. m /\ i - 1 \in 0 .. m /\ i \in 1 .. Len(q) - 1 /\ i \in Nat /\ i \in 1 .. d
        /\ i \in 1 .. Len(q) /\ i + 1 \in 1 .. d /\ i + 1 \in 1 .. Len(q) /\ (i + 1) - 1 = i
        /\ (i - 1) + 1 = i
    BY <1>3, <1>4, <1>6
  <2>2. s[i] = s[i - 1] + q[i].inuse /\ s[i + 1] = s[i] + q[i + 1].inuse
    BY <1>1, <2>1 DEF Partial
  <2>3. CASE i < k
    <3>1. i - 1 < k
      BY <1>3, <2>1, <2>3
    <3>2. t[i] = s[i] /\ t[i - 1] = s[i - 1] /\ r[i] = q[i]
      BY <1>4, <1>7, <2>1, <2>3, <3>1
    <3> QED BY <2>2, <3>2
  <2>4. CASE i = k
    <3>1. ~(i < k) /\ i >= k /\ i - 1 < k
      BY <1>3, <2>4
    <3>2. t[i] = s[i + 1] - x /\ t[i - 1] = s[i - 1] /\ r[i] = q[i + 1]
      BY <1>4, <1>7, <2>1, <3>1
    <3>3. s[i] = s[i - 1] + x
      BY <1>5, <2>4
    <3>4. s[i - 1] \in Nat /\ s[i] \in Nat /\ q[i + 1].inuse \in Nat
      <4>1. q[i + 1] \in Bid
        BY <2>1
      <4>2. i \in 0 .. d /\ i - 1 \in 0 .. d
        BY <1>6, <2>1
      <4>3. q[i + 1].inuse \in Nat
        BY <4>1 DEF Bid
      <4> QED BY <1>5, <4>2, <4>3
    <3>5. s[i + 1] = s[i] + q[i + 1].inuse /\ x \in Nat
      BY <1>5, <2>2
    <3> HIDE DEF t
    <3> QED BY <3>2, <3>3, <3>4, <3>5, SMTT(40)
  <2>5. CASE i > k
    <3>1. ~(i < k) /\ i >= k /\ i - 1 >= k
      BY <1>3, <2>1, <2>5
    <3>2. t[i] = s[i + 1] - x /\ t[i - 1] = s[i] - x /\ r[i] = q[i + 1]
      BY <1>4, <1>7, <2>1, <3>1
    <3>4. s[i] \in Nat /\ q[i + 1].inuse \in Nat
      <4>1. q[i + 1] \in Bid
        BY <2>1
      <4>2. i \in 0 .. d
        BY <1>6, <2>1
      <4>3. q[i + 1].inuse \in Nat
        BY <4>1 DEF Bid
      <4> QED BY <1>5, <4>2, <4>3
    <3> HIDE DEF t
    <3> QED BY <1>5, <2>2, <3>2, <3>4
  <2> QED BY <1>3, <2>1, <2>3, <2>4, <2>5
<1>13. ASSUME NEW i \in 0 .. m, NEW j \in 0 .. m, i <= j PROVE t[i] <= t[j]
  <2>1. /\ i \in Nat /\ j \in Nat /\ i \in 0 .. d /\ j \in 0 .. d
        /\ i + 1 \in 0 .. d /\ j + 1 \in 0 .. d
        /\ i + 1 <= j + 1
    BY <1>6, <1>13
  <2>2. s[i] <= s[j] /\ (i < k => s[i] <= s[k - 1])
    <3>1. k - 1 \in 0 .. d
      BY <1>3
    <3>2. i < k => i <= k - 1
      BY <1>3, <2>1
    <3>3. i < k => s[i] <= s[k - 1]
      BY <1>1, <2>1, <3>1, <3>2 DEF Partial
    <3> QED BY <1>1, <1>13, <2>1, <3>3 DEF Partial
  <2>3. s[i + 1] <= s[j + 1] /\ s[i + 1] \in Nat /\ s[j + 1] \in Nat /\ s[i] \in Nat /\ s[j] \in Nat
    BY <1>1, <1>5, <2>1 DEF Partial
  <2>4. CASE j < k
    <3>1. i < k
      BY <1>3, <1>13, <2>1, <2>4
    <3> QED BY <1>7, <2>2, <2>4, <3>1
  <2>5. CASE ~(j < k) /\ i < k
    <3>1. j >= k /\ j + 1 \in k .. d /\ k - 1 \in 0 .. d
      BY <1>3, <2>1, <2>5
    <3>2. t[j] = s[j + 1] - x /\ t[i] = s[i]
      BY <1>7, <2>5, <3>1
    <3>3. s[k - 1] + x <= s[j + 1] /\ s[k - 1] \in Nat
      BY <1>3, <1>5, <3>1
    <3>4. s[i] <= s[k - 1] /\ s[i] \in Nat /\ s[j + 1] \in Nat /\ x \in Nat
      BY <1>5, <2>2, <2>3, <2>5
    <3> HIDE DEF t
    <3> QED BY <3>2, <3>3, <3>4
  <2>6. CASE ~(j < k) /\ ~(i < k)
    <3>1. j >= k /\ i >= k
      BY <1>3, <2>1, <2>6
    <3>2. t[j] = s[j + 1] - x /\ t[i] = s[i + 1] - x
      BY <1>7, <3>1
    <3> HIDE DEF t
    <3> QED BY <1>5, <2>3, <3>2
  <2> QED BY <2>4, <2>5, <2>6
<1>14. Split(r, m)
  <2>1. ASSUME NEW i \in 1 .. Len(r) PROVE IsData(r[i]) <=> i <= m
    <3>1. i \in 1 .. Len(q) - 1 /\ i \in 1 .. Len(q) /\ i + 1 \in 1 .. Len(q) /\ i \in Nat
          /\ (i + 1 <= d <=> i <= m)
      BY <1>3, <1>4, <1>6
    <3>2. CASE i < k
      <4>1. r[i] = q[i] /\ i <= d /\ i <= m
        BY <1>3, <1>4, <1>6, <3>1, <3>2
      <4> QED BY <1>1, <3>1, <4>1 DEF Split
    <3>3. CASE ~(i < k)
      <4>1. r[i] = q[i + 1]
        BY <1>4, <3>1, <3>3
      <4> QED BY <1>1, <3>1, <4>1 DEF Split
    <3> QED BY <3>2, <3>3
  <2> QED BY <1>6, <2>1 DEF Split
<1> HIDE DEF t, m
<1>15. Partial(r, m, n - x, t)
  BY <1>9, <1>10, <1>11, <1>12, <1>13 DEF Partial
<1> QED
  BY <1>6, <1>8, <1>9, <1>14, <1>15 DEF Sums, r, x

\* A queue of which one data lost x bytes holds x less.
LEMMA SumsPart ==
  ASSUME NEW q \in Seq(Bid), NEW n, Sums(q, n), NEW k \in 1 .. Len(q), IsData(q[k]),
         NEW x \in 0 .. q[k].inuse, BufLen \in Nat,
         NEW r \in Seq(Bid), Len(r) = Len(q), \A i \in 1 .. Len(q) : i # k => r[i] = q[i],
         IsData(r[k]), r[k].inuse = q[k].inuse - x
  PROVE  n - x \in Nat /\ Sums(r, n - x)
<1>1. PICK d, s : d \in 0 .. Len(q) /\ Split(q, d) /\ Partial(q, d, n, s)
  BY DEF Sums, Partial
<1>2. n \in Nat
  BY DEF Sums
<1>3. k \in 1 .. d /\ d \in Nat /\ Len(q) \in Nat /\ d <= Len(q) /\ d >= 1 /\ k \in Nat
  <2>1. k <= d
    BY <1>1 DEF Split
  <2> QED BY <1>1, <2>1
<1>4. /\ q[k].inuse \in Nat /\ s[k] = s[k - 1] + q[k].inuse
      /\ \A j \in 0 .. d : s[j] \in Nat /\ s[j] <= n
      /\ \A j \in k .. d : s[k - 1] + q[k].inuse <= s[j]
  BY <1>1, <1>2, <1>3, PartialAt
<1>5. x \in Nat /\ x <= q[k].inuse
  BY <1>4
<1> DEFINE t == [j \in 0 .. d |-> IF j < k THEN s[j] ELSE s[j] - x]
<1>6. ASSUME NEW j \in 0 .. d
      PROVE  /\ t[j] \in Nat /\ t[j] <= n - x
             /\ j < k => t[j] = s[j]
             /\ j >= k => t[j] = s[j] - x
  <2>1. j \in Nat /\ j <= d /\ s[j] \in Nat /\ s[j] <= n
    BY <1>3, <1>4
  <2>2. CASE j < k
    <3>1. t[j] = s[j]
      BY <2>2
    <3>2. s[j] <= s[k - 1]
      <4>1. j <= k - 1 /\ k - 1 \in 0 .. d
        BY <1>3, <2>1, <2>2
      <4> QED BY <1>1, <2>1, <4>1 DEF Partial
    <3>3. s[k - 1] \in Nat /\ s[k - 1] + q[k].inuse <= s[k] /\ s[k] <= n /\ s[k] \in Nat
      <4>1. k - 1 \in 0 .. d /\ k \in k .. d /\ k \in 0 .. d
        BY <1>3
      <4> QED BY <1>4, <4>1
    <3>4. s[j] <= n - x
      BY <1>2, <1>4, <1>5, <2>1, <3>2, <3>3, SMTT(40)
    <3> HIDE DEF t
    <3> QED BY <1>3, <2>1, <2>2, <3>1, <3>4
  <2>3. CASE ~(j < k)
    <3>1. t[j] = s[j] - x
      BY <2>3
    <3>2. j \in k .. d /\ k - 1 \in 0 .. d
      BY <1>3, <2>1, <2>3
    <3>3. s[k - 1] + q[k].inuse <= s[j] /\ s[k - 1] \in Nat
      BY <1>4, <3>2
    <3>4. s[j] - x \in Nat /\ s[j] - x <= n - x
      BY <1>2, <1>4, <1>5, <2>1, <3>3, SMTT(40)
    <3> HIDE DEF t
    <3> QED BY <1>3, <2>1, <2>3, <3>1, <3>4
  <2> QED BY <2>2, <2>3
<1>7. n - x \in Nat
  <2>1. 0 \in 0 .. d
    BY <1>3
  <2>2. t[0] \in Nat /\ t[0] <= n - x
    BY <1>6, <2>1
  <2> HIDE DEF t
  <2> QED BY <1>2, <1>5, <2>2
<1>8. t \in [0 .. d -> 0 .. n - x]
  <2>1. t = [j \in 0 .. d |-> t[j]]
    OBVIOUS
  <2>2. \A j \in 0 .. d : t[j] \in 0 .. n - x
    BY <1>6, <1>7
  <2> HIDE DEF t
  <2> QED BY <2>1, <2>2
<1>9. t[0] = 0 /\ t[d] = n - x
  <2>1. 0 \in 0 .. d /\ d \in 0 .. d /\ 0 < k /\ d >= k
    BY <1>3
  <2> QED BY <1>1, <1>6, <2>1 DEF Partial
<1>10. ASSUME NEW i \in 1 .. d PROVE t[i] = t[i - 1] + r[i].inuse
  <2>1. i \in 0 .. d /\ i - 1 \in 0 .. d /\ i \in Nat /\ i \in 1 .. Len(q)
    BY <1>3
  <2>2. s[i] = s[i - 1] + q[i].inuse /\ s[i] \in Nat /\ s[i - 1] \in Nat
    BY <1>1, <1>4, <2>1 DEF Partial
  <2>3. CASE i < k
    <3>1. i - 1 < k /\ i # k
      BY <1>3, <2>1, <2>3
    <3> QED BY <1>6, <2>1, <2>2, <2>3, <3>1
  <2>4. CASE i = k
    <3>1. i >= k /\ i - 1 < k
      BY <1>3, <2>4
    <3>2. t[i] = s[i] - x /\ t[i - 1] = s[i - 1] /\ r[i].inuse = q[i].inuse - x
      BY <1>6, <2>1, <2>4, <3>1
    <3>3. q[i].inuse \in Nat
      BY <1>4, <2>4
    <3> HIDE DEF t
    <3> QED BY <1>5, <2>2, <3>2, <3>3, SMTT(40)
  <2>5. CASE i > k
    <3>1. i >= k /\ i - 1 >= k /\ i # k
      BY <1>3, <2>1, <2>5
    <3>2. t[i] = s[i] - x /\ t[i - 1] = s[i - 1] - x /\ r[i] = q[i]
      BY <1>6, <2>1, <3>1
    <3>3. q[i].inuse \in Nat
      <4>1. q[i] \in Bid
        BY <2>1
      <4> QED BY <4>1 DEF Bid
    <3> HIDE DEF t
    <3> QED BY <1>5, <2>2, <3>2, <3>3
  <2> QED BY <1>3, <2>1, <2>3, <2>4, <2>5
<1>11. ASSUME NEW i \in 0 .. d, NEW j \in 0 .. d, i <= j PROVE t[i] <= t[j]
  <2>1. i \in Nat /\ j \in Nat /\ s[i] \in Nat /\ s[j] \in Nat /\ s[i] <= s[j]
    BY <1>1, <1>3, <1>4, <1>11, SMTT(40) DEF Partial
  <2>4. CASE j < k
    <3>1. i < k
      BY <1>3, <1>11, <2>1, <2>4
    <3> QED BY <1>6, <2>1, <2>4, <3>1
  <2>5. CASE ~(j < k) /\ i < k
    <3>1. j >= k /\ j \in k .. d /\ k - 1 \in 0 .. d /\ i <= k - 1
      BY <1>3, <2>1, <2>5
    <3>2. t[j] = s[j] - x /\ t[i] = s[i]
      BY <1>6, <2>5, <3>1
    <3>3. s[k - 1] + q[k].inuse <= s[j] /\ s[k - 1] \in Nat
      BY <1>4, <3>1
    <3>4. s[i] <= s[k - 1]
      BY <1>1, <3>1 DEF Partial
    <3> HIDE DEF t
    <3> QED BY <1>4, <1>5, <2>1, <3>2, <3>3, <3>4, SMTT(40)
  <2>6. CASE ~(j < k) /\ ~(i < k)
    <3>1. j >= k /\ i >= k
      BY <1>3, <2>1, <2>6
    <3>2. t[j] = s[j] - x /\ t[i] = s[i] - x
      BY <1>6, <3>1
    <3> HIDE DEF t
    <3> QED BY <1>5, <2>1, <3>2
  <2> QED BY <2>4, <2>5, <2>6
<1>12. Split(r, d)
  <2>1. ASSUME NEW i \in 1 .. Len(q) PROVE IsData(r[i]) <=> i <= d
    <3>1. CASE i = k
      BY <1>3, <3>1
    <3>2. CASE i # k
      BY <1>1, <3>2 DEF Split
    <3> QED BY <3>1, <3>2
  <2> QED BY <1>1, <2>1 DEF Split
<1> HIDE DEF t
<1>13. Partial(r, d, n - x, t)
  BY <1>8, <1>9, <1>10, <1>11 DEF Partial
<1> QED
  BY <1>1, <1>7, <1>8, <1>12, <1>13 DEF Sums

-----------------------------------------------------------------------------
(* The invariant, activations and the stack                                *)

\* Data on the queue was accepted, is not told of, and holds something; commands do not.
BidOf(i) ==
  IF IsData(writeq[i])
  THEN writeq[i].buf \in Range(order) /\ told[writeq[i].buf] = <<>> /\ writeq[i].inuse > 0
  ELSE writeq[i].buf = None /\ writeq[i].inuse = 0
BidsTrue == \A i \in DOMAIN writeq : BidOf(i)
\* A buffer is on the queue once.
Apart == \A i, j \in DOMAIN writeq : IsData(writeq[i]) /\ writeq[i].buf = writeq[j].buf => i = j
\* What was not accepted is not told of.
Fresh == \A b \in Buf : b \notin Range(order) => told[b] = <<>>
\* What was accepted is on the queue, or was told of once.
Accounted == \A b \in Range(order) : Queued(b) \/ Len(told[b]) = 1
\* A command is on the queue of an ioh that takes no more data, and a close on that of
\* one that closes.
CommandOf(i) ==
  ~IsData(writeq[i]) => /\ Set({"closing", "pend", "shutout"})
                        /\ writeq[i].cmd = "Close" => {"closing", "shutin"} \subseteq intflags
Commands == \A i \in DOMAIN writeq : CommandOf(i)
\* biq_queuelen is the bytes of the queue.
Counted == Sums(writeq, queuelen)
\* Who will destroy the ioh runs in one that closes and reads no more.
Sure(f, flags) ==
  /\ f.op = "flush" /\ "Close" \in Range(f.cmds) => {"closing", "shutin"} \subseteq flags
  /\ f.op = "destroy" => "shutin" \in flags
  /\ f.op = "close" /\ f.pc = "queue" => "closing" \in flags
Going == \A i \in DOMAIN stack : Sure(stack[i], intflags)
\* What holds of the queue
QueueInv == BidsTrue /\ Apart /\ Fresh /\ Accounted /\ Commands /\ Counted
\* The inductive invariant
IInv == Types /\ QueueInv /\ Going /\ ReadingTrue

\* An activation of the callback, field by field
LEMMA CbIs ==
  ASSUME NEW s \in Status, NEW b \in Buf \cup {None}
  PROVE  /\ Cb(s, b) \in Activation /\ Cb(s, b).op = "callback"
         /\ Cb(s, b).status = s /\ Cb(s, b).buf = b
BY DEF Cb, Activation

\* Where ioh_runhandler may be
HandlerPc == {"read", "write", "writefailed", "wrote", "rmsg", "ReadEOF", "ReadError", "end",
              "failed"}
\* An activation of ioh_runhandler, field by field
LEMMA HandlerIs ==
  ASSUME NEW pc \in HandlerPc, NEW ready \in SUBSET {"read", "write"}
  PROVE  /\ Handler(pc, ready) \in Activation /\ Handler(pc, ready).op = "handler"
         /\ Handler(pc, ready).pc = pc /\ Handler(pc, ready).ready = ready
BY DEF Handler, Activation, HandlerPc

\* An activation of ioh_dequeue_byte, field by field
LEMMA WrittenIs ==
  ASSUME NEW bytes \in Nat, NEW next \in Buf \cup {None}, NEW ready \in SUBSET {"read", "write"}
  PROVE  /\ Written(bytes, next, ready) \in Activation /\ Written(bytes, next, ready).op = "dequeue"
         /\ Written(bytes, next, ready).bytes = bytes /\ Written(bytes, next, ready).next = next
         /\ Written(bytes, next, ready).ready = ready
BY DEF Written, Activation

\* An activation of bk_ioh_flush, field by field
LEMMA FlushIs ==
  ASSUME NEW collect \in BOOLEAN, NEW cmds \in Seq({"Shutdown", "Close"})
  PROVE  /\ Flush(collect, cmds) \in Activation /\ Flush(collect, cmds).op = "flush"
         /\ Flush(collect, cmds).collect = collect /\ Flush(collect, cmds).cmds = cmds
BY DEF Flush, Activation

\* An activation of ioh_close, field by field
LEMMA CloseIs ==
  ASSUME NEW pc \in {"begin", "queue"}, NEW abort \in BOOLEAN
  PROVE  /\ Close(pc, abort) \in Activation /\ Close(pc, abort).op = "close"
         /\ Close(pc, abort).pc = pc /\ Close(pc, abort).abort = abort
BY DEF Close, Activation

\* An activation of bk_ioh_shutdown, field by field
LEMMA ShutdownIs ==
  ASSUME NEW pc \in {"sentup", "queue"}, NEW how \in SUBSET {"read", "write"}
  PROVE  /\ Shutdown(pc, how) \in Activation /\ Shutdown(pc, how).op = "shutdown"
         /\ Shutdown(pc, how).pc = pc /\ Shutdown(pc, how).how = how
BY DEF Shutdown, Activation

\* An activation of bk_ioh_destroy, field by field
LEMMA DestroyIs ==
  ASSUME NEW pc \in {"begin", "tell", "free"}
  PROVE  Destroy(pc) \in Activation /\ Destroy(pc).op = "destroy" /\ Destroy(pc).pc = pc
BY DEF Destroy, Frame, Activation

\* The fields of each kind of activation
LEMMA Fields ==
  ASSUME NEW f \in Activation
  PROVE  /\ f.op = "callback" => f.status \in Status /\ f.buf \in Buf \cup {None}
         /\ f.op = "handler" => f.pc \in HandlerPc /\ f.ready \in SUBSET {"read", "write"}
         /\ f.op = "dequeue" => /\ f.bytes \in Nat /\ f.next \in Buf \cup {None}
                                /\ f.ready \in SUBSET {"read", "write"}
         /\ f.op = "flush" => f.collect \in BOOLEAN /\ f.cmds \in Seq({"Shutdown", "Close"})
         /\ f.op = "close" => f.pc \in {"begin", "queue"} /\ f.abort \in BOOLEAN
         /\ f.op = "shutdown" => f.pc \in {"sentup", "queue"} /\ f.how \in SUBSET {"read", "write"}
         /\ f.op = "destroy" => f.pc \in {"begin", "tell", "free"}
<1>1. CASE f \in [op : {"callback"}, status : Status, buf : Buf \cup {None}]
  BY <1>1
<1>2. CASE f \in [op : {"handler"}, ready : SUBSET {"read", "write"}, pc : HandlerPc]
  BY <1>2
<1>3. CASE f \in [op : {"dequeue"}, bytes : Nat, next : Buf \cup {None},
                  ready : SUBSET {"read", "write"}]
  BY <1>3
<1>4. CASE f \in [op : {"flush"}, collect : BOOLEAN, cmds : Seq({"Shutdown", "Close"})]
  BY <1>4
<1>5. CASE f \in [op : {"close"}, pc : {"begin", "queue"}, abort : BOOLEAN]
  BY <1>5
<1>6. CASE f \in [op : {"shutdown"}, pc : {"sentup", "queue"}, how : SUBSET {"read", "write"}]
  BY <1>6
<1>7. CASE f \in [op : {"destroy"}, pc : {"begin", "tell", "free"}]
  BY <1>7
<1> QED
  BY <1>1, <1>2, <1>3, <1>4, <1>5, <1>6, <1>7 DEF Activation, HandlerPc

\* The first n activations stay, and there are k above them.
Grown(n, k) ==
  /\ n \in 0 .. Len(stack) /\ stack' \in Seq(Activation) /\ Len(stack') = n + k
  /\ \A i \in 1 .. n : stack'[i] = stack[i]

\* A stack with one more
LEMMA PushOne ==
  ASSUME NEW s \in Seq(Activation), NEW f \in Activation
  PROVE  /\ s \o <<f>> \in Seq(Activation) /\ Len(s \o <<f>>) = Len(s) + 1 /\ Len(s) \in Nat
         /\ \A i \in 1 .. Len(s) : (s \o <<f>>)[i] = s[i]
         /\ (s \o <<f>>)[Len(s) + 1] = f
<1>1. s \o <<f>> = Append(s, f)
  BY AppendIsConcat
<1> QED BY <1>1, AppendIs

\* A stack with two more
LEMMA PushTwo ==
  ASSUME NEW s \in Seq(Activation), NEW f \in Activation, NEW g \in Activation
  PROVE  /\ s \o <<f, g>> \in Seq(Activation) /\ Len(s \o <<f, g>>) = Len(s) + 2
         /\ \A i \in 1 .. Len(s) : (s \o <<f, g>>)[i] = s[i]
         /\ (s \o <<f, g>>)[Len(s) + 1] = f /\ (s \o <<f, g>>)[Len(s) + 2] = g
<1> DEFINE u == <<f, g>>
           t == s \o u
<1>1. u \in Seq(Activation) /\ Len(u) = 2 /\ u[1] = f /\ u[2] = g
  OBVIOUS
<1>2. Len(s) \in Nat
  OBVIOUS
<1>3. /\ t \in Seq(Activation) /\ Len(t) = Len(s) + Len(u)
      /\ \A i \in 1 .. Len(s) + Len(u) : t[i] = IF i <= Len(s) THEN s[i] ELSE u[i - Len(s)]
  <2> HIDE DEF u
  <2>1. u \in Seq(Activation)
    BY <1>1
  <2> QED BY <2>1, ConcatProperties
<1> HIDE DEF u, t
<1>4. \A i \in 1 .. Len(s) : i \in 1 .. Len(s) + Len(u) /\ i <= Len(s)
  BY <1>1, <1>2
<1>5. /\ Len(s) + 1 \in 1 .. Len(s) + Len(u) /\ Len(s) + 2 \in 1 .. Len(s) + Len(u)
      /\ (Len(s) + 1) - Len(s) = 1 /\ (Len(s) + 2) - Len(s) = 2
      /\ ~(Len(s) + 1 <= Len(s)) /\ ~(Len(s) + 2 <= Len(s))
  BY <1>1, <1>2
<1>6. \A i \in 1 .. Len(s) : t[i] = s[i]
  BY <1>3, <1>4
<1>7. t[Len(s) + 1] = f /\ t[Len(s) + 2] = g
  BY <1>1, <1>3, <1>5
<1> QED BY <1>1, <1>3, <1>6, <1>7 DEF t, u

\* A stack with one less
LEMMA FrontIs ==
  ASSUME NEW s \in Seq(Activation), s # <<>>
  PROVE  /\ Front(s) \in Seq(Activation) /\ Len(Front(s)) = Len(s) - 1
         /\ Len(s) \in Nat /\ Len(s) >= 1
         /\ \A i \in 1 .. Len(s) - 1 : Front(s)[i] = s[i]
<1>1. Len(s) \in Nat /\ Len(s) >= 1 /\ Len(s) - 1 \in 0 .. Len(s)
  OBVIOUS
<1> QED BY <1>1, PrefixIs DEF Front

\* The running activation is the last.
LEMMA TopIs ==
  ASSUME stack \in Seq(Activation), stack # <<>>, NEW n, n = Len(stack)
  PROVE  n \in Nat /\ n >= 1 /\ n \in DOMAIN stack /\ n - 1 \in Nat /\ n - 1 \in 0 .. n
         /\ Top = stack[n] /\ stack[n] \in Activation /\ DOMAIN stack = 1 .. n
BY DEF Top, Last

\* A stack that stays
LEMMA Stays ==
  ASSUME stack \in Seq(Activation), NEW n, n = Len(stack), stack' = stack
  PROVE  Grown(n, 0) /\ n \in Nat
<1>1. n \in Nat /\ n \in 0 .. n /\ n + 0 = n
  OBVIOUS
<1> QED BY <1>1 DEF Grown

\* One activation called
LEMMA CallOne ==
  ASSUME stack \in Seq(Activation), NEW n, n = Len(stack), NEW f \in Activation, Call(<<f>>)
  PROVE  Grown(n, 1) /\ stack'[n + 1] = f /\ n \in Nat
<1>1. n \in Nat /\ n \in 0 .. n
  OBVIOUS
<1> QED BY <1>1, PushOne DEF Grown, Call

\* Two activations called
LEMMA CallTwo ==
  ASSUME stack \in Seq(Activation), NEW n, n = Len(stack),
         NEW f \in Activation, NEW g \in Activation, Call(<<f, g>>)
  PROVE  Grown(n, 2) /\ stack'[n + 1] = f /\ stack'[n + 2] = g /\ n \in Nat
<1>1. n \in Nat /\ n \in 0 .. n
  OBVIOUS
<1> QED BY <1>1, PushTwo DEF Grown, Call

\* The running activation returned
LEMMA BecomeNone ==
  ASSUME stack \in Seq(Activation), stack # <<>>, NEW n, n = Len(stack), Become(<<>>)
  PROVE  Grown(n - 1, 0)
<1>1. Front(stack) \o <<>> = Front(stack)
  BY FrontIs, ConcatEmptySeq
<1>2. n - 1 \in 0 .. n /\ (n - 1) + 0 = n - 1
  BY FrontIs
<1> QED BY <1>1, <1>2, FrontIs DEF Grown, Become

\* Another in its place
LEMMA BecomeOne ==
  ASSUME stack \in Seq(Activation), stack # <<>>, NEW n, n = Len(stack), NEW f \in Activation,
         Become(<<f>>)
  PROVE  Grown(n - 1, 1) /\ stack'[n] = f
<1> DEFINE s == Front(stack)
<1>1. /\ s \in Seq(Activation) /\ Len(s) = n - 1 /\ n \in Nat /\ n >= 1
      /\ \A i \in 1 .. n - 1 : s[i] = stack[i]
  BY FrontIs
<1> HIDE DEF s
<1>2. /\ s \o <<f>> \in Seq(Activation) /\ Len(s \o <<f>>) = Len(s) + 1
      /\ \A i \in 1 .. Len(s) : (s \o <<f>>)[i] = s[i]
      /\ (s \o <<f>>)[Len(s) + 1] = f
  BY <1>1, PushOne
<1>3. n - 1 \in 0 .. n /\ (n - 1) + 1 = n /\ stack' = s \o <<f>>
  BY <1>1 DEF s, Become
<1> QED BY <1>1, <1>2, <1>3 DEF Grown

\* Two in its place
LEMMA BecomeTwo ==
  ASSUME stack \in Seq(Activation), stack # <<>>, NEW n, n = Len(stack), NEW f \in Activation,
         NEW g \in Activation, Become(<<f, g>>)
  PROVE  Grown(n - 1, 2) /\ stack'[n] = f /\ stack'[n + 1] = g
<1> DEFINE s == Front(stack)
<1>1. /\ s \in Seq(Activation) /\ Len(s) = n - 1 /\ n \in Nat /\ n >= 1
      /\ \A i \in 1 .. n - 1 : s[i] = stack[i]
  BY FrontIs
<1> HIDE DEF s
<1>2. /\ s \o <<f, g>> \in Seq(Activation) /\ Len(s \o <<f, g>>) = Len(s) + 2
      /\ \A i \in 1 .. Len(s) : (s \o <<f, g>>)[i] = s[i]
      /\ (s \o <<f, g>>)[Len(s) + 1] = f /\ (s \o <<f, g>>)[Len(s) + 2] = g
  BY <1>1, PushTwo
<1>3. n - 1 \in 0 .. n /\ (n - 1) + 1 = n /\ (n - 1) + 2 = n + 1 /\ stack' = s \o <<f, g>>
  BY <1>1 DEF s, Become
<1> QED BY <1>1, <1>2, <1>3 DEF Grown

\* The stack after the n-th, which was running, became f, or returned, or called f, or
\* became or called f and g
Turned(n, f) == n >= 1 /\ Grown(n - 1, 1) /\ stack'[n] = f /\ f \in Activation
Gone(n) == n >= 1 /\ Grown(n - 1, 0)
Pushed(n, f) == Grown(n, 1) /\ stack'[n + 1] = f /\ f \in Activation
TurnedTwo(n, f, g) == /\ n >= 1 /\ Grown(n - 1, 2) /\ stack'[n] = f /\ stack'[n + 1] = g
                      /\ f \in Activation /\ g \in Activation
PushedTwo(n, f, g) == /\ Grown(n, 2) /\ stack'[n + 1] = f /\ stack'[n + 2] = g
                      /\ f \in Activation /\ g \in Activation

\* Who is running is on the stack.
LEMMA RunningTop ==
  ASSUME Types, NEW n, n = Len(stack), NEW op, Running(op)
  PROVE  /\ stack # <<>> /\ n \in Nat /\ n >= 1 /\ n \in DOMAIN stack /\ stack[n].op = op
         /\ Top = stack[n] /\ stack[n] \in Activation
BY TopIs DEF Types, Running

\* The call of bk_ioh_flush: who was running, and who is then.
LEMMA FlushCallStack ==
  ASSUME Types, NEW n, n = Len(stack), NEW how, FlushCall(how)
  PROVE  Grown(n, 0) \/ Pushed(n, Flush(TRUE, <<>>))
<1> DEFINE f == Flush(TRUE, <<>>)
<1>1. f \in Activation
  <2>1. <<>> \in Seq({"Shutdown", "Close"})
    OBVIOUS
  <2> QED BY <2>1, FlushIs
<1> HIDE DEF f
<1>2. stack' = stack \/ Call(<<f>>)
  BY DEF FlushCall, f
<1> QED
  BY <1>1, <1>2, Stays, CallOne DEF Types, Pushed, f

\* What is left of a shutdown is a part of it.
LEMMA UndoneIs ==
  ASSUME NEW how \in SUBSET {"read", "write"}
  PROVE  Undone(how) \in SUBSET {"read", "write"}
BY DEF Undone

\* The call of bk_ioh_shutdown: who was running, and who is then.
LEMMA ShutdownCallStack ==
  ASSUME Types, NEW n, n = Len(stack), NEW how \in SUBSET {"read", "write"}, ShutdownCall(how)
  PROVE  \/ PushedTwo(n, Shutdown("sentup", Undone(how)), Cb("IncompleteRead", None))
         \/ Pushed(n, Shutdown("queue", Undone(how)))
<1> DEFINE f == Shutdown("sentup", Undone(how))
           g == Cb("IncompleteRead", None)
           h == Shutdown("queue", Undone(how))
<1>1. f \in Activation /\ g \in Activation /\ h \in Activation
  BY UndoneIs, ShutdownIs, CbIs DEF Status
<1>2. Call(<<f, g>>) \/ Call(<<h>>)
  BY DEF ShutdownCall
<1> HIDE DEF f, g, h
<1>3. CASE Call(<<f, g>>)
  BY <1>1, <1>3, CallTwo DEF Types, PushedTwo, f, g
<1>4. CASE Call(<<h>>)
  BY <1>1, <1>4, CallOne DEF Types, Pushed, h
<1> QED
  BY <1>2, <1>3, <1>4

\* The call of bk_ioh_close: who was running, and who is then.
LEMMA CloseCallStack ==
  ASSUME Types, NEW n, n = Len(stack), NEW abort \in BOOLEAN, CloseCall(abort)
  PROVE  Pushed(n, Close("begin", abort))
<1> DEFINE f == Close("begin", abort)
<1>1. f \in Activation /\ Call(<<f>>)
  BY CloseIs DEF CloseCall
<1> HIDE DEF f
<1> QED
  BY <1>1, CallOne DEF Types, Pushed, f

\* The end of the run loop: who was running, and who is then.
LEMMA RunDestroyStack ==
  ASSUME Types, NEW n, n = Len(stack), RunDestroy
  PROVE  Pushed(n, Close("begin", TRUE))
<1> DEFINE f == Close("begin", TRUE)
<1>1. f \in Activation /\ Call(<<f>>)
  BY CloseIs DEF RunDestroy
<1> HIDE DEF f
<1> QED
  BY <1>1, CallOne DEF Types, Pushed, f

\* The return of the callback: who was running, and who is then.
LEMMA CallbackReturnsStack ==
  ASSUME Types, NEW n, n = Len(stack), CallbackReturns
  PROVE  Gone(n) /\ stack[n].op = "callback"
<1>1. Running("callback") /\ Become(<<>>)
  BY DEF CallbackReturns
<1> QED
  BY <1>1, RunningTop, BecomeNone DEF Types, Gone

\* ioh_flush_queue, with a bid in hand: who was running, and who is then.
LEMMA FlushNextStack ==
  ASSUME Types, NEW n, n = Len(stack), FlushNext
  PROVE  /\ writeq # <<>> /\ n >= 1 /\ stack[n].op = "flush" /\ n \in DOMAIN stack
         /\ writeq[1] \in Bid
         /\ IF IsData(writeq[1])
            THEN Pushed(n, Cb("WriteAborted", writeq[1].buf))
            ELSE /\ writeq[1].cmd \in {"Shutdown", "Close"}
                 /\ Turned(n, Flush(stack[n].collect, Append(stack[n].cmds, writeq[1].cmd)))
<1>1. Running("flush") /\ writeq # <<>>
  BY DEF FlushNext
<1>2. /\ n >= 1 /\ stack[n].op = "flush" /\ n \in DOMAIN stack /\ n \in Nat /\ stack # <<>>
      /\ Top = stack[n] /\ stack[n] \in Activation
      /\ Head(writeq) = writeq[1] /\ writeq[1] \in Bid
  BY <1>1, RunningTop DEF Types
<1>3. CASE IsData(writeq[1])
  <2> DEFINE f == Cb("WriteAborted", writeq[1].buf)
  <2>1. f \in Activation /\ Call(<<f>>)
    BY <1>2, <1>3, CbIs DEF FlushNext, Bid, Status
  <2> HIDE DEF f
  <2> QED BY <1>1, <1>2, <1>3, <2>1, CallOne DEF Types, Pushed, f
<1>4. CASE ~IsData(writeq[1])
  <2> DEFINE c == Append(stack[n].cmds, writeq[1].cmd)
             f == Flush(stack[n].collect, c)
  <2>1. writeq[1].cmd \in {"Shutdown", "Close"}
    BY <1>2, <1>4 DEF Bid, IsData
  <2>2. stack[n].collect \in BOOLEAN /\ stack[n].cmds \in Seq({"Shutdown", "Close"})
    BY <1>2, Fields
  <2>3. c \in Seq({"Shutdown", "Close"})
    BY <2>1, <2>2
  <2>4. Become(<<f>>)
    BY <1>2, <1>4 DEF FlushNext
  <2> HIDE DEF c
  <2>5. f \in Activation
    BY <2>2, <2>3, FlushIs
  <2> HIDE DEF f
  <2> QED BY <1>1, <1>2, <1>4, <2>1, <2>4, <2>5, BecomeOne DEF Types, Turned, f, c
<1> QED
  BY <1>3, <1>4

\* The end of bk_ioh_flush: who was running, and who is then.
LEMMA FlushEndStack ==
  ASSUME Types, NEW n, n = Len(stack), FlushEnd
  PROVE  /\ n >= 1 /\ stack[n].op = "flush" /\ n \in DOMAIN stack /\ writeq = <<>>
         /\ \/ Gone(n)
            \/ /\ Turned(n, Destroy("begin"))
               /\ stack[n].collect /\ "Close" \in Range(stack[n].cmds)
<1>1. Running("flush") /\ writeq = <<>>
  BY DEF FlushEnd
<1>2. /\ n >= 1 /\ stack[n].op = "flush" /\ n \in DOMAIN stack /\ n \in Nat /\ stack # <<>>
      /\ Top = stack[n] /\ stack[n] \in Activation
  BY <1>1, RunningTop DEF Types
<1> DEFINE f == Destroy("begin")
           cmds == IF Top.collect /\ Top.cmds # <<>> THEN Range(Tail(Top.cmds)) ELSE {}
<1>3. f \in Activation
  BY DestroyIs
<1>4. Become(IF "Close" \in cmds THEN <<f>> ELSE <<>>)
  BY DEF FlushEnd
<1>5. CASE "Close" \notin cmds
  <2>1. Become(<<>>)
    BY <1>4, <1>5
  <2> QED BY <1>1, <1>2, <2>1, BecomeNone DEF Types, Gone
<1>6. CASE "Close" \in cmds
  <2>1. stack[n].collect /\ stack[n].cmds # <<>> /\ "Close" \in Range(Tail(stack[n].cmds))
    BY <1>2, <1>6
  <2>2. stack[n].cmds \in Seq({"Shutdown", "Close"})
    BY <1>2, Fields
  <2>3. "Close" \in Range(stack[n].cmds)
    <3> DEFINE s == stack[n].cmds
    <3>1. /\ Len(Tail(s)) = Len(s) - 1 /\ Len(s) \in Nat /\ Tail(s) \in Seq({"Shutdown", "Close"})
          /\ \A i \in 1 .. Len(s) - 1 : Tail(s)[i] = s[i + 1]
      BY <2>1, <2>2, TailIs
    <3>2. PICK i \in DOMAIN Tail(s) : Tail(s)[i] = "Close"
      BY <2>1 DEF Range
    <3>3. i \in 1 .. Len(s) - 1 /\ i + 1 \in 1 .. Len(s)
      BY <3>1, <3>2
    <3>4. s[i + 1] = "Close" /\ i + 1 \in DOMAIN s
      BY <2>2, <3>1, <3>2, <3>3
    <3> QED BY <3>4 DEF Range
  <2>4. Become(<<f>>)
    BY <1>4, <1>6
  <2> HIDE DEF f
  <2> QED BY <1>1, <1>2, <1>3, <2>1, <2>3, <2>4, BecomeOne DEF Types, Turned, f
<1> QED
  BY <1>5, <1>6

\* The queues that ioh_execute_ifspecial is given
Queues(q) == q = writeq \/ \E c \in {"Shutdown", "Close"} : q = Append(writeq, Cmd(c))
\* It finds data in front and does nothing, or nothing but commands and takes them all.
LEMMA Executes ==
  ASSUME Types, Counted, NEW q, Queues(q)
  PROVE  /\ q \in Seq(Bid) /\ Sums(q, queuelen)
         /\ \/ /\ Behind(q) = q /\ CmdsOf(Leading(q)) = {} /\ Leading(q) = <<>>
               /\ q # <<>> /\ IsData(q[1]) /\ Len(q) \in Nat
            \/ /\ Behind(q) = <<>> /\ CmdsOf(Leading(q)) = CmdsOf(q)
               /\ queuelen = 0 /\ \A i \in DOMAIN q : ~IsData(q[i])
<1>1. q \in Seq(Bid) /\ Sums(q, queuelen)
  BY SumsCmd, SizesAssumption DEF Types, Counted, Queues
<1>2. PICK d, s : d \in 0 .. Len(q) /\ Split(q, d) /\ Partial(q, d, queuelen, s)
  BY <1>1 DEF Sums, Partial
<1>3. Len(q) \in Nat /\ DOMAIN q = 1 .. Len(q)
  BY <1>1
<1>4. CASE d = 0
  <2>1. queuelen = 0
    BY <1>2, <1>4 DEF Partial
  <2>2. \A i \in DOMAIN q : ~IsData(q[i])
    <3>1. \A i \in DOMAIN q : i \in 1 .. Len(q) /\ ~(i <= 0)
      BY <1>3
    <3> QED BY <1>2, <1>4, <3>1 DEF Split
  <2> QED BY <1>1, <1>2, <1>4, <2>1, <2>2, AllLeading
<1>5. CASE d # 0
  <2>1. 1 \in 1 .. Len(q) /\ 1 <= d
    BY <1>2, <1>3, <1>5
  <2>2. IsData(q[1]) /\ q # <<>>
    BY <1>2, <1>3, <2>1 DEF Split
  <2> QED BY <1>1, <1>2, <1>3, <1>5, <2>2, NoLeading
<1> QED BY <1>4, <1>5

\* A close that it finds was put there by ioh_close.
LEMMA CloseFound ==
  ASSUME Types, Counted, NEW q, Queues(q), q # Append(writeq, Cmd("Close")),
         "Close" \in CmdsOf(Leading(q))
  PROVE  \E i \in DOMAIN writeq : writeq[i].cmd = "Close" /\ ~IsData(writeq[i])
<1>1. CmdsOf(Leading(q)) = CmdsOf(q) /\ \A i \in DOMAIN q : ~IsData(q[i])
  BY Executes
<1>2. PICK i \in DOMAIN q : q[i].cmd = "Close"
  BY <1>1 DEF CmdsOf
<1>3. CASE q = writeq
  BY <1>1, <1>2, <1>3
<1>4. CASE q = Append(writeq, Cmd("Shutdown"))
  <2> DEFINE e == Cmd("Shutdown")
  <2>1. e \in Bid /\ e.cmd = "Shutdown"
    BY SizesAssumption DEF Cmd, Bid
  <2> HIDE DEF e
  <2>2. /\ Len(Append(writeq, e)) = Len(writeq) + 1 /\ Len(writeq) \in Nat
        /\ \A j \in 1 .. Len(writeq) : Append(writeq, e)[j] = writeq[j]
        /\ Append(writeq, e)[Len(writeq) + 1] = e
        /\ DOMAIN Append(writeq, e) = 1 .. Len(writeq) + 1
    BY <2>1, AppendIs DEF Types
  <2>3. q = Append(writeq, e)
    BY <1>4 DEF e
  <2>4. i # Len(writeq) + 1
    BY <1>2, <2>1, <2>2, <2>3
  <2>5. i \in 1 .. Len(writeq)
    BY <1>2, <2>2, <2>3, <2>4
  <2>6. i \in DOMAIN writeq
    BY <2>5 DEF Types
  <2> QED BY <1>1, <1>2, <2>2, <2>3, <2>5, <2>6
<1> QED BY <1>3, <1>4 DEF Queues

\* The command of bk_ioh_shutdown: who was running, and who is then.
LEMMA ShutdownQueuesStack ==
  ASSUME Types, Counted, NEW n, n = Len(stack), ShutdownQueues
  PROVE  /\ n >= 1 /\ stack[n].op = "shutdown" /\ n \in DOMAIN stack
         /\ \/ Gone(n)
            \/ "closepending" \in intflags /\ Turned(n, Close("begin", deferred))
            \/ /\ Turned(n, Destroy("begin"))
               /\ \E i \in DOMAIN writeq : writeq[i].cmd = "Close" /\ ~IsData(writeq[i])
<1>1. Running("shutdown")
  BY DEF ShutdownQueues
<1>2. /\ n >= 1 /\ stack[n].op = "shutdown" /\ n \in DOMAIN stack /\ n \in Nat /\ stack # <<>>
      /\ Top = stack[n] /\ stack[n] \in Activation
  BY <1>1, RunningTop DEF Types
<1> DEFINE q == IF "write" \in Top.how THEN Append(writeq, Cmd("Shutdown")) ELSE writeq
           cmds == CmdsOf(Leading(q))
           f == Destroy("begin")
           g == Close("begin", deferred)
<1>3. f \in Activation /\ g \in Activation
  BY DestroyIs, CloseIs DEF Types
<1>4. Queues(q) /\ q # Append(writeq, Cmd("Close"))
  <2>1. Queues(q)
    BY DEF Queues
  <2>2. Append(writeq, Cmd("Shutdown")) # Append(writeq, Cmd("Close"))
    <3>1. Cmd("Shutdown") \in Bid /\ Cmd("Close") \in Bid /\ Cmd("Shutdown") # Cmd("Close")
      BY SizesAssumption DEF Cmd, Bid
    <3> QED BY <3>1, AppendIs DEF Types
  <2>3. writeq # Append(writeq, Cmd("Close"))
    <3>1. Cmd("Close") \in Bid
      BY SizesAssumption DEF Cmd, Bid
    <3>2. Len(Append(writeq, Cmd("Close"))) = Len(writeq) + 1 /\ Len(writeq) \in Nat
      BY <3>1, AppendIs DEF Types
    <3> QED BY <3>2
  <2> QED BY <2>1, <2>2, <2>3
<1>5. \/ "Close" \in cmds /\ Become(<<f>>)
      \/ Become(<<g>>) /\ "closepending" \in intflags
      \/ Become(<<>>)
  BY DEF ShutdownQueues, Shuts
<1> HIDE DEF q, f, g
<1>6. CASE "Close" \in cmds /\ Become(<<f>>)
  BY <1>2, <1>3, <1>4, <1>6, CloseFound, BecomeOne DEF Turned, Types, f
<1>7. CASE Become(<<g>>) /\ "closepending" \in intflags
  BY <1>2, <1>3, <1>7, BecomeOne DEF Turned, Types, g
<1>8. CASE Become(<<>>)
  BY <1>2, <1>8, BecomeNone DEF Gone, Types
<1> QED BY <1>2, <1>5, <1>6, <1>7, <1>8

-----------------------------------------------------------------------------
(* What each action makes of the stack                                     *)

\* bk_ioh_destroy, as it tells of itself: who was running, and who is then.
LEMMA DestroyTellStack ==
  ASSUME Types, NEW n, n = Len(stack), DestroyTell
  PROVE  /\ n >= 1 /\ stack[n].op = "destroy" /\ n \in DOMAIN stack /\ stack[n].pc = "tell"
         /\ TurnedTwo(n, Destroy("free"), Cb("IohClosing", None))
<1>1. Running("destroy")
  BY DEF DestroyTell, At
<1>2. /\ n >= 1 /\ stack[n].op = "destroy" /\ n \in DOMAIN stack /\ n \in Nat /\ stack # <<>>
      /\ Top = stack[n] /\ stack[n] \in Activation
  BY <1>1, RunningTop DEF Types
<1> DEFINE f == Destroy("free")
           g == Cb("IohClosing", None)
<1>3. f \in Activation
  BY DestroyIs
<1>4. g \in Activation
  BY CbIs DEF Status
<1>5. Become(<<f, g>>) /\ stack[n].pc = "tell"
  BY <1>2 DEF DestroyTell, At
<1> HIDE DEF f, g
<1> QED
  BY <1>1, <1>2, <1>3, <1>4, <1>5, BecomeTwo DEF TurnedTwo, Types, f, g

\* ioh_runhandler with nothing to write: who was running, and who is then.
LEMMA WriteNothingStack ==
  ASSUME Types, NEW n, n = Len(stack), WriteNothing
  PROVE  /\ n >= 1 /\ stack[n].op = "handler" /\ n \in DOMAIN stack /\ stack[n].pc = "write"
         /\ Turned(n, Handler("read", stack[n].ready))
<1>1. Running("handler")
  BY DEF WriteNothing, At
<1>2. /\ n >= 1 /\ stack[n].op = "handler" /\ n \in DOMAIN stack /\ n \in Nat /\ stack # <<>>
      /\ Top = stack[n] /\ stack[n] \in Activation
  BY <1>1, RunningTop DEF Types
<1> DEFINE f == Handler("read", stack[n].ready)
<1>3. f \in Activation
  BY <1>2, Fields, HandlerIs DEF HandlerPc
<1>4. Become(<<f>>) /\ stack[n].pc = "write"
  BY <1>2 DEF WriteNothing, At
<1> HIDE DEF f
<1> QED
  BY <1>1, <1>2, <1>3, <1>4, BecomeOne DEF Turned, Types, f

\* A write that fails: who was running, and who is then.
LEMMA WriteFailsStack ==
  ASSUME Types, NEW n, n = Len(stack), WriteFails
  PROVE  /\ n >= 1 /\ stack[n].op = "handler" /\ n \in DOMAIN stack /\ stack[n].pc = "write"
         /\ TurnedTwo(n, Handler("writefailed", stack[n].ready), Flush(FALSE, <<>>))
<1>1. Running("handler")
  BY DEF WriteFails, At
<1>2. /\ n >= 1 /\ stack[n].op = "handler" /\ n \in DOMAIN stack /\ n \in Nat /\ stack # <<>>
      /\ Top = stack[n] /\ stack[n] \in Activation
  BY <1>1, RunningTop DEF Types
<1> DEFINE f == Handler("writefailed", stack[n].ready)
           g == Flush(FALSE, <<>>)
<1>3. f \in Activation
  BY <1>2, Fields, HandlerIs DEF HandlerPc
<1>4. g \in Activation
  <2>1. <<>> \in Seq({"Shutdown", "Close"})
    OBVIOUS
  <2> QED BY <2>1, FlushIs
<1>5. Become(<<f, g>>) /\ stack[n].pc = "write"
  BY <1>2 DEF WriteFails, At
<1> HIDE DEF f, g
<1> QED
  BY <1>1, <1>2, <1>3, <1>4, <1>5, BecomeTwo, ZenonT(60) DEF TurnedTwo, Types, f, g

\* Word of a write that failed: who was running, and who is then.
LEMMA WriteFailedStack ==
  ASSUME Types, NEW n, n = Len(stack), WriteFailed
  PROVE  /\ n >= 1 /\ stack[n].op = "handler" /\ n \in DOMAIN stack /\ stack[n].pc = "writefailed"
         /\ TurnedTwo(n, Handler("wrote", stack[n].ready), Cb("WriteError", None))
<1>1. Running("handler")
  BY DEF WriteFailed, At
<1>2. /\ n >= 1 /\ stack[n].op = "handler" /\ n \in DOMAIN stack /\ n \in Nat /\ stack # <<>>
      /\ Top = stack[n] /\ stack[n] \in Activation
  BY <1>1, RunningTop DEF Types
<1> DEFINE f == Handler("wrote", stack[n].ready)
           g == Cb("WriteError", None)
<1>3. f \in Activation
  BY <1>2, Fields, HandlerIs DEF HandlerPc
<1>4. g \in Activation
  BY CbIs DEF Status
<1>5. Become(<<f, g>>) /\ stack[n].pc = "writefailed"
  BY <1>2 DEF WriteFailed, At
<1> HIDE DEF f, g
<1> QED
  BY <1>1, <1>2, <1>3, <1>4, <1>5, BecomeTwo DEF TurnedTwo, Types, f, g

\* The return of what was read: who was running, and who is then.
LEMMA ReceivedStack ==
  ASSUME Types, NEW n, n = Len(stack), Received
  PROVE  /\ n >= 1 /\ stack[n].op = "handler" /\ n \in DOMAIN stack /\ stack[n].pc = "rmsg"
         /\ Turned(n, Handler("end", {}))
<1>1. Running("handler")
  BY DEF Received, At
<1>2. /\ n >= 1 /\ stack[n].op = "handler" /\ n \in DOMAIN stack /\ n \in Nat /\ stack # <<>>
      /\ Top = stack[n] /\ stack[n] \in Activation
  BY <1>1, RunningTop DEF Types
<1> DEFINE f == Handler("end", {})
<1>3. f \in Activation
  BY <1>2, Fields, HandlerIs DEF HandlerPc
<1>4. Become(<<f>>) /\ stack[n].pc = "rmsg"
  BY <1>2 DEF Received, At
<1> HIDE DEF f
<1> QED
  BY <1>1, <1>2, <1>3, <1>4, BecomeOne DEF Turned, Types, f

\* A read of nothing: who was running, and who is then.
LEMMA ReadNothingStack ==
  ASSUME Types, NEW n, n = Len(stack), ReadNothing
  PROVE  /\ n >= 1 /\ stack[n].op = "handler" /\ n \in DOMAIN stack
         /\ stack[n].pc \in {"read", "wrote"}
         /\ Turned(n, Handler("end", {}))
<1>1. Running("handler")
  BY DEF ReadNothing, At, Reading, ReadReady
<1>2. /\ n >= 1 /\ stack[n].op = "handler" /\ n \in DOMAIN stack /\ n \in Nat /\ stack # <<>>
      /\ Top = stack[n] /\ stack[n] \in Activation
  BY <1>1, RunningTop DEF Types
<1> DEFINE f == Handler("end", {})
<1>3. f \in Activation
  BY <1>2, Fields, HandlerIs DEF HandlerPc
<1>4. Become(<<f>>) /\ stack[n].pc \in {"read", "wrote"}
  BY <1>2 DEF ReadNothing, At, Reading, ReadReady
<1> HIDE DEF f
<1> QED
  BY <1>1, <1>2, <1>3, <1>4, BecomeOne DEF Turned, Types, f

\* A read: who was running, and who is then.
LEMMA ReadSomeStack ==
  ASSUME Types, NEW n, n = Len(stack), ReadSome
  PROVE  /\ n >= 1 /\ stack[n].op = "handler" /\ n \in DOMAIN stack
         /\ stack[n].pc \in {"read", "wrote"}
         /\ TurnedTwo(n, Handler("rmsg", {}), Cb("ReadComplete", None))
<1>1. Running("handler")
  BY DEF ReadSome, At, Reading, ReadReady
<1>2. /\ n >= 1 /\ stack[n].op = "handler" /\ n \in DOMAIN stack /\ n \in Nat /\ stack # <<>>
      /\ Top = stack[n] /\ stack[n] \in Activation
  BY <1>1, RunningTop DEF Types
<1> DEFINE f == Handler("rmsg", {})
           g == Cb("ReadComplete", None)
<1>3. f \in Activation
  BY <1>2, Fields, HandlerIs DEF HandlerPc
<1>4. g \in Activation
  BY CbIs DEF Status
<1>5. Become(<<f, g>>) /\ stack[n].pc \in {"read", "wrote"}
  BY <1>2 DEF ReadSome, At, Reading, ReadReady
<1> HIDE DEF f, g
<1> QED
  BY <1>1, <1>2, <1>3, <1>4, <1>5, BecomeTwo DEF TurnedTwo, Types, f, g

\* A read at the end or in error: who was running, and who is then.
LEMMA ReadEndsStack ==
  ASSUME Types, NEW n, n = Len(stack), NEW status \in {"ReadEOF", "ReadError"}, ReadEnds(status)
  PROVE  /\ n >= 1 /\ stack[n].op = "handler" /\ n \in DOMAIN stack
         /\ stack[n].pc \in {"read", "wrote"}
         /\ TurnedTwo(n, Handler(status, {}), Cb(status, None))
<1>1. Running("handler")
  BY DEF ReadEnds, At, Reading, ReadReady
<1>2. /\ n >= 1 /\ stack[n].op = "handler" /\ n \in DOMAIN stack /\ n \in Nat /\ stack # <<>>
      /\ Top = stack[n] /\ stack[n] \in Activation
  BY <1>1, RunningTop DEF Types
<1> DEFINE f == Handler(status, {})
           g == Cb(status, None)
<1>3. f \in Activation
  BY <1>2, Fields, HandlerIs DEF HandlerPc
<1>4. g \in Activation
  BY CbIs DEF Status
<1>5. Become(<<f, g>>) /\ stack[n].pc \in {"read", "wrote"}
  BY <1>2 DEF ReadEnds, At, Reading, ReadReady
<1> HIDE DEF f, g
<1> QED
  BY <1>1, <1>2, <1>3, <1>4, <1>5, BecomeTwo DEF TurnedTwo, Types, f, g

\* The end of the input: who was running, and who is then.
LEMMA ReadEndedStack ==
  ASSUME Types, NEW n, n = Len(stack), ReadEnded
  PROVE  /\ n >= 1 /\ stack[n].op = "handler" /\ n \in DOMAIN stack
         /\ stack[n].pc \in {"ReadEOF", "ReadError"}
         /\ Turned(n, Handler(IF stack[n].pc = "ReadEOF" THEN "end" ELSE "failed", {}))
<1>1. Running("handler")
  BY DEF ReadEnded
<1>2. /\ n >= 1 /\ stack[n].op = "handler" /\ n \in DOMAIN stack /\ n \in Nat /\ stack # <<>>
      /\ Top = stack[n] /\ stack[n] \in Activation
  BY <1>1, RunningTop DEF Types
<1> DEFINE f == Handler(IF stack[n].pc = "ReadEOF" THEN "end" ELSE "failed", {})
<1>3. f \in Activation
  BY HandlerIs DEF HandlerPc
<1>4. Become(<<f>>) /\ stack[n].pc \in {"ReadEOF", "ReadError"}
  BY <1>2 DEF ReadEnded
<1> HIDE DEF f
<1> QED
  BY <1>1, <1>2, <1>3, <1>4, BecomeOne DEF Turned, Types, f

\* The end of ioh_runhandler: who was running, and who is then.
LEMMA HandlerEndStack ==
  ASSUME Types, Counted, NEW n, n = Len(stack), HandlerEnd
  PROVE  /\ n >= 1 /\ stack[n].op = "handler" /\ n \in DOMAIN stack
         /\ stack[n].pc \in {"end", "failed"}
         /\ \/ ClosePending /\ Turned(n, Close("begin", deferred))
            \/ ~ClosePending /\ stack[n].pc = "failed" /\ Turned(n, Close("begin", TRUE))
            \/ ~ClosePending /\ stack[n].pc # "failed" /\ Gone(n)
            \/ /\ ~ClosePending /\ stack[n].pc # "failed" /\ Turned(n, Destroy("begin"))
               /\ \E i \in DOMAIN writeq : writeq[i].cmd = "Close" /\ ~IsData(writeq[i])
<1>1. Running("handler")
  BY DEF HandlerEnd
<1>2. /\ n >= 1 /\ stack[n].op = "handler" /\ n \in DOMAIN stack /\ n \in Nat /\ stack # <<>>
      /\ Top = stack[n] /\ stack[n] \in Activation
  BY <1>1, RunningTop DEF Types
<1> DEFINE f == Close("begin", IF ClosePending THEN deferred ELSE TRUE)
           g == Destroy("begin")
           cmds == CmdsOf(Leading(writeq))
<1>3. f \in Activation /\ g \in Activation
  BY CloseIs, DestroyIs DEF Types
<1>4. /\ stack[n].pc \in {"end", "failed"}
      /\ \/ (ClosePending \/ stack[n].pc = "failed") /\ Become(<<f>>)
         \/ ~ClosePending /\ stack[n].pc # "failed" /\ "Close" \in cmds /\ Become(<<g>>)
         \/ ~ClosePending /\ stack[n].pc # "failed" /\ Become(<<>>)
  BY <1>2 DEF HandlerEnd
<1> HIDE DEF f, g
<1>5. CASE (ClosePending \/ stack[n].pc = "failed") /\ Become(<<f>>)
  <2>1. Turned(n, f)
    BY <1>2, <1>3, <1>5, BecomeOne DEF Turned, Types
  <2>2. ClosePending => f = Close("begin", deferred)
    BY DEF f
  <2>3. ~ClosePending => f = Close("begin", TRUE)
    BY DEF f
  <2> QED BY <1>2, <1>4, <1>5, <2>1, <2>2, <2>3
<1>6. CASE ~ClosePending /\ stack[n].pc # "failed" /\ "Close" \in cmds /\ Become(<<g>>)
  <2>1. Turned(n, g)
    BY <1>2, <1>3, <1>6, BecomeOne DEF Turned, Types
  <2>2. Queues(writeq)
    BY DEF Queues
  <2>3. writeq # Append(writeq, Cmd("Close"))
    <3>1. Cmd("Close") \in Bid
      BY SizesAssumption DEF Cmd, Bid
    <3>2. Len(Append(writeq, Cmd("Close"))) = Len(writeq) + 1 /\ Len(writeq) \in Nat
      BY <3>1, AppendIs DEF Types
    <3> QED BY <3>2
  <2> QED BY <1>2, <1>4, <1>6, <2>1, <2>2, <2>3, CloseFound DEF g
<1>7. CASE ~ClosePending /\ stack[n].pc # "failed" /\ Become(<<>>)
  <2>1. Gone(n)
    BY <1>2, <1>7, BecomeNone DEF Gone, Types
  <2> QED BY <1>2, <1>4, <1>7, <2>1
<1> QED BY <1>4, <1>5, <1>6, <1>7

\* ioh_close, before its flush: who was running, and who is then.
LEMMA CloseBeginStack ==
  ASSUME Types, NEW n, n = Len(stack), CloseBegin
  PROVE  /\ n >= 1 /\ stack[n].op = "close" /\ n \in DOMAIN stack /\ stack[n].pc = "begin"
         /\ \/ PutOff /\ Gone(n)
            \/ /\ ~PutOff /\ Gone(n)
               /\ ("closing" \in intflags /\ ~stack[n].abort) \/ "destroying" \in intflags
            \/ /\ ~PutOff /\ "destroying" \notin intflags
               /\ "closing" \notin intflags \/ stack[n].abort
               /\ IF stack[n].abort
                  THEN TurnedTwo(n, Close("queue", TRUE), Flush(FALSE, <<>>))
                  ELSE Turned(n, Close("queue", FALSE))
<1>1. Running("close")
  BY DEF CloseBegin, At
<1>2. /\ n >= 1 /\ stack[n].op = "close" /\ n \in DOMAIN stack /\ n \in Nat /\ stack # <<>>
      /\ Top = stack[n] /\ stack[n] \in Activation /\ stack[n].abort \in BOOLEAN
  BY <1>1, RunningTop, Fields DEF Types
<1>3. stack[n].pc = "begin"
  BY <1>2 DEF CloseBegin, At
<1> DEFINE f == Close("queue", stack[n].abort)
           g == Flush(FALSE, <<>>)
<1>4. f \in Activation /\ g \in Activation
  <2>1. <<>> \in Seq({"Shutdown", "Close"})
    OBVIOUS
  <2> QED BY <1>2, <2>1, CloseIs, FlushIs
<1>5. \/ PutOff /\ Become(<<>>)
      \/ /\ ~PutOff /\ Become(<<>>)
         /\ (Set({"closing"}) /\ ~stack[n].abort) \/ Set({"destroying"})
      \/ /\ ~PutOff /\ ~((Set({"closing"}) /\ ~stack[n].abort) \/ Set({"destroying"}))
         /\ Become(<<f>> \o (IF stack[n].abort THEN <<g>> ELSE <<>>))
  BY <1>2 DEF CloseBegin
<1>6. CASE PutOff /\ Become(<<>>)
  BY <1>2, <1>3, <1>6, BecomeNone DEF Gone, Types
<1>7. CASE /\ ~PutOff /\ Become(<<>>)
           /\ (Set({"closing"}) /\ ~stack[n].abort) \/ Set({"destroying"})
  BY <1>2, <1>3, <1>7, BecomeNone DEF Gone, Types, Set
<1>8. CASE /\ ~PutOff /\ ~((Set({"closing"}) /\ ~stack[n].abort) \/ Set({"destroying"}))
           /\ Become(<<f>> \o (IF stack[n].abort THEN <<g>> ELSE <<>>))
  <2>1. CASE stack[n].abort
    <3> HIDE DEF f, g
    <3>1. <<f>> \o <<g>> = <<f, g>>
      <4>1. <<f>> \in Seq(Activation)
        BY <1>4
      <4>2. <<f>> \o <<g>> = Append(<<f>>, g)
        BY <1>4, <4>1, AppendIsConcat
      <4> DEFINE s == Append(<<f>>, g)
                 u == <<f, g>>
      <4>3. s \in Seq(Activation) /\ Len(s) = 2 /\ s[1] = f /\ s[2] = g
        BY <1>4, <4>1
      <4>4. u \in Seq(Activation) /\ Len(u) = 2 /\ u[1] = f /\ u[2] = g
        BY <1>4
      <4>5. s = u
        <5> HIDE DEF s, u
        <5>1. \A i \in 1 .. Len(s) : s[i] = u[i]
          BY <4>3, <4>4
        <5> QED BY <4>3, <4>4, <5>1, SeqEqual
      <4> QED BY <4>2, <4>5
    <3>2. Become(<<f, g>>)
      BY <1>8, <2>1, <3>1
    <3>3. TurnedTwo(n, f, g)
      BY <1>2, <1>4, <3>2, BecomeTwo DEF TurnedTwo, Types
    <3>4. f = Close("queue", TRUE)
      BY <1>2, <2>1 DEF f
    <3> QED BY <1>2, <1>3, <1>8, <2>1, <3>3, <3>4 DEF g, Set
  <2>2. CASE ~stack[n].abort
    <3> HIDE DEF f, g
    <3>1. <<f>> \o <<>> = <<f>>
      OBVIOUS
    <3>2. Become(<<f>>)
      BY <1>8, <2>2, <3>1
    <3>3. Turned(n, f)
      BY <1>2, <1>4, <3>2, BecomeOne DEF Turned, Types
    <3>4. f = Close("queue", FALSE)
      BY <1>2, <2>2 DEF f
    <3> QED BY <1>2, <1>3, <1>8, <2>2, <3>3, <3>4 DEF Set
  <2> QED BY <2>1, <2>2
<1> QED BY <1>5, <1>6, <1>7, <1>8

\* The command of ioh_close: who was running, and who is then.
LEMMA CloseQueuesStack ==
  ASSUME Types, NEW n, n = Len(stack), CloseQueues
  PROVE  /\ n >= 1 /\ stack[n].op = "close" /\ n \in DOMAIN stack /\ stack[n].pc = "queue"
         /\ \/ Turned(n, Destroy("begin"))
            \/ /\ Gone(n) /\ ~stack[n].abort
               /\ "Close" \notin CmdsOf(Leading(Append(writeq, Cmd("Close"))))
<1>1. Running("close")
  BY DEF CloseQueues, At
<1>2. /\ n >= 1 /\ stack[n].op = "close" /\ n \in DOMAIN stack /\ n \in Nat /\ stack # <<>>
      /\ Top = stack[n] /\ stack[n] \in Activation
  BY <1>1, RunningTop DEF Types
<1> DEFINE f == Destroy("begin")
<1>3. f \in Activation
  BY DestroyIs
<1>4. /\ stack[n].pc = "queue"
      /\ \/ Become(<<f>>)
         \/ /\ Become(<<>>) /\ ~stack[n].abort
            /\ "Close" \notin CmdsOf(Leading(Append(writeq, Cmd("Close"))))
  BY <1>2 DEF CloseQueues, At
<1> HIDE DEF f
<1>5. CASE Become(<<f>>)
  BY <1>2, <1>3, <1>4, <1>5, BecomeOne DEF Turned, Types, f
<1>6. CASE /\ Become(<<>>) /\ ~stack[n].abort
           /\ "Close" \notin CmdsOf(Leading(Append(writeq, Cmd("Close"))))
  BY <1>2, <1>4, <1>6, BecomeNone DEF Gone, Types
<1> QED BY <1>4, <1>5, <1>6

\* bk_ioh_destroy, before its flush: who was running, and who is then.
LEMMA DestroyBeginStack ==
  ASSUME Types, NEW n, n = Len(stack), DestroyBegin
  PROVE  /\ n >= 1 /\ stack[n].op = "destroy" /\ n \in DOMAIN stack /\ stack[n].pc = "begin"
         /\ \/ "destroying" \in intflags /\ Gone(n)
            \/ /\ "destroying" \notin intflags
               /\ TurnedTwo(n, Destroy("tell"), Flush(FALSE, <<>>))
<1>1. Running("destroy")
  BY DEF DestroyBegin, At
<1>2. /\ n >= 1 /\ stack[n].op = "destroy" /\ n \in DOMAIN stack /\ n \in Nat /\ stack # <<>>
      /\ Top = stack[n] /\ stack[n] \in Activation
  BY <1>1, RunningTop DEF Types
<1> DEFINE f == Destroy("tell")
           g == Flush(FALSE, <<>>)
<1>3. f \in Activation /\ g \in Activation
  <2>1. <<>> \in Seq({"Shutdown", "Close"})
    OBVIOUS
  <2> QED BY <2>1, DestroyIs, FlushIs
<1>4. /\ stack[n].pc = "begin"
      /\ \/ Set({"destroying"}) /\ Become(<<>>)
         \/ ~Set({"destroying"}) /\ Become(<<f, g>>)
  BY <1>2 DEF DestroyBegin, At
<1> HIDE DEF f, g
<1>5. CASE Set({"destroying"}) /\ Become(<<>>)
  BY <1>2, <1>4, <1>5, BecomeNone DEF Gone, Types, Set
<1>6. CASE ~Set({"destroying"}) /\ Become(<<f, g>>)
  BY <1>2, <1>3, <1>4, <1>6, BecomeTwo DEF TurnedTwo, Types, f, g, Set
<1> QED BY <1>4, <1>5, <1>6

\* The end of bk_ioh_destroy: who was running, and who is then.
LEMMA DestroyFreeStack ==
  ASSUME Types, NEW n, n = Len(stack), DestroyFree
  PROVE  /\ n >= 1 /\ stack[n].op = "destroy" /\ n \in DOMAIN stack /\ stack[n].pc = "free"
         /\ Gone(n)
<1>1. Running("destroy") /\ Become(<<>>)
  BY DEF DestroyFree, At
<1>2. /\ n >= 1 /\ stack[n].op = "destroy" /\ n \in DOMAIN stack /\ n \in Nat /\ stack # <<>>
      /\ Top = stack[n] /\ stack[n] \in Activation
  BY <1>1, RunningTop DEF Types
<1>3. stack[n].pc = "free"
  BY <1>2 DEF DestroyFree, At
<1> QED BY <1>1, <1>2, <1>3, BecomeNone DEF Gone, Types

\* The run loop calls ioh_runhandler on top of what is running.
LEMMA DispatchStack ==
  ASSUME Types, NEW n, n = Len(stack), NEW ready \in SUBSET {"read", "write"}, Dispatch(ready)
  PROVE  /\ Pushed(n, Handler(IF "write" \in ready \ Masked /\ ~InWrite THEN "write" ELSE "read",
                              ready \ Masked))
         /\ n = 0 \/ (MayCall("run") /\ stack[n].op = "callback" /\ Place = stack[n].status)
<1> DEFINE f == Handler(IF "write" \in ready \ Masked /\ ~InWrite THEN "write" ELSE "read",
                        ready \ Masked)
<1>1. f \in Activation
  BY HandlerIs DEF HandlerPc
<1>2. Call(<<f>>)
  BY DEF Dispatch
<1>3. n = 0 \/ (MayCall("run") /\ stack[n].op = "callback" /\ Place = stack[n].status)
  <2>1. CASE stack = <<>>
    <3>1. n = 0
      BY <2>1
    <3> QED BY <3>1
  <2>2. CASE MayCall("run") /\ Running("callback")
    <3>1. stack # <<>> /\ stack[n].op = "callback" /\ Top = stack[n]
      BY <2>2, RunningTop
    <3> QED BY <2>2, <3>1 DEF Place
  <2> QED BY <2>1, <2>2 DEF Dispatch
<1> HIDE DEF f
<1> QED BY <1>1, <1>2, <1>3, CallOne DEF Pushed, Types, f

\* A write: who was running, and who is then.
LEMMA WriteSomeStack ==
  ASSUME Types, BidsTrue, NEW n, n = Len(stack), NEW m \in 1 .. ToWrite, WriteSome(m)
  PROVE  /\ n >= 1 /\ stack[n].op = "handler" /\ n \in DOMAIN stack /\ stack[n].pc = "write"
         /\ writeq # <<>> /\ IsData(writeq[1]) /\ m \in Nat /\ writeq[1].buf \in Buf
         /\ Turned(n, Written(m, writeq[1].buf, stack[n].ready))
<1>1. Running("handler")
  BY DEF WriteSome, At
<1>2. /\ n >= 1 /\ stack[n].op = "handler" /\ n \in DOMAIN stack /\ n \in Nat /\ stack # <<>>
      /\ Top = stack[n] /\ stack[n] \in Activation
  BY <1>1, RunningTop DEF Types
<1>3. writeq # <<>> /\ IsData(writeq[1])
  BY SomeToWrite DEF Types
<1>4. m \in Nat
  BY SMT
<1>5. writeq[1] \in Bid /\ Head(writeq) = writeq[1]
  BY <1>3 DEF Types
<1> DEFINE f == Written(m, writeq[1].buf, stack[n].ready)
<1>6. f \in Activation
  <2> DEFINE b == writeq[1].buf
             r == stack[n].ready
  <2>1. b \in Buf \cup {None}
    BY <1>5 DEF Bid
  <2>2. r \in SUBSET {"read", "write"}
    BY <1>2, Fields
  <2> HIDE DEF b, r
  <2>3. Written(m, b, r) \in Activation
    BY <1>4, <2>1, <2>2, WrittenIs
  <2> QED BY <2>3 DEF b, r
<1>7. Become(<<f>>) /\ stack[n].pc = "write"
  BY <1>2, <1>5 DEF WriteSome, At
<1>8. writeq[1].buf \in Buf
  <2>1. BidOf(1)
    BY <1>3 DEF BidsTrue, Types
  <2>2. writeq[1].buf \in Range(order) /\ order \in Seq(Buf)
    BY <1>3, <2>1 DEF BidOf, Types
  <2> QED BY <2>2 DEF Range
<1> HIDE DEF f
<1> QED BY <1>2, <1>3, <1>4, <1>6, <1>7, <1>8, BecomeOne DEF Turned, Types, f

\* The end of ioh_dequeue_byte: who was running, and who is then.
LEMMA DequeueEndStack ==
  ASSUME Types, NEW n, n = Len(stack), DequeueEnd
  PROVE  /\ n >= 1 /\ stack[n].op = "dequeue" /\ n \in DOMAIN stack
         /\ \E pc \in {"write", "read"} : Turned(n, Handler(pc, stack[n].ready))
<1>1. Running("dequeue")
  BY DEF DequeueEnd
<1>2. /\ n >= 1 /\ stack[n].op = "dequeue" /\ n \in DOMAIN stack /\ n \in Nat /\ stack # <<>>
      /\ Top = stack[n] /\ stack[n] \in Activation
  BY <1>1, RunningTop DEF Types
<1>3. PICK pc : pc \in {"write", "read"} /\ Become(<<Handler(pc, stack[n].ready)>>)
  BY <1>2 DEF DequeueEnd
<1> DEFINE f == Handler(pc, stack[n].ready)
<1>4. f \in Activation
  BY <1>2, <1>3, Fields, HandlerIs DEF HandlerPc
<1>5. Become(<<f>>)
  BY <1>3
<1> HIDE DEF f
<1>6. Turned(n, f)
  BY <1>2, <1>4, <1>5, BecomeOne DEF Turned, Types
<1> QED BY <1>2, <1>3, <1>6 DEF f

-----------------------------------------------------------------------------
(* Bids                                                                    *)

\* The larger of a and 0
LEMMA LargerIs ==
  ASSUME NEW a \in Int
  PROVE  Max({a, 0}) = (IF a > 0 THEN a ELSE 0)
<1> DEFINE m == IF a > 0 THEN a ELSE 0
<1>1. m \in {a, 0} /\ \A y \in {a, 0} : m >= y /\ m \in Int
  OBVIOUS
<1> HIDE DEF m
<1>2. \E x \in {a, 0} : \A y \in {a, 0} : x >= y
  BY <1>1
<1>3. Max({a, 0}) \in {a, 0} /\ \A y \in {a, 0} : Max({a, 0}) >= y
  BY <1>2 DEF Max
<1>4. Max({a, 0}) >= m /\ m >= Max({a, 0}) /\ Max({a, 0}) \in Int
  BY <1>1, <1>3
<1>5. Max({a, 0}) = m
  BY <1>1, <1>4
<1> QED BY <1>5 DEF m

\* The fields of a bid on the queue
LEMMA BidTyped ==
  ASSUME Types, NEW i \in DOMAIN writeq
  PROVE  /\ writeq[i] \in Bid /\ writeq[i].inuse \in Nat /\ writeq[i].inuse <= BufLen
         /\ writeq[i].buf \in Buf \cup {None} /\ i \in 1 .. Len(writeq) /\ Len(writeq) \in Nat
<1>1. writeq[i] \in Bid /\ i \in 1 .. Len(writeq) /\ Len(writeq) \in Nat
  BY DEF Types
<1> QED BY <1>1, SizesAssumption DEF Bid

\* ioh_dequeue_byte, with a bid in hand: who was running, and who is then.
LEMMA DequeueByteStack ==
  ASSUME Types, BidsTrue, NEW n, n = Len(stack), DequeueByte
  PROVE  /\ n >= 1 /\ stack[n].op = "dequeue" /\ n \in DOMAIN stack /\ stack[n].bytes > 0
         /\ stack[n].next \in Buf
         /\ \/ /\ wild' = TRUE /\ UNCHANGED <<stack, queue, told>>
               /\ ~Queued(stack[n].next)
            \/ /\ wild' = wild
               /\ \E i \in DOMAIN writeq :
                    /\ writeq[i].buf = stack[n].next /\ IsData(writeq[i])
                    /\ \/ /\ stack[n].bytes < writeq[i].inuse
                          /\ writeq' = [writeq EXCEPT ![i].inuse = @ - stack[n].bytes]
                          /\ queuelen' = queuelen - stack[n].bytes
                          /\ told' = told
                          /\ Turned(n, Written(0, None, stack[n].ready))
                       \/ /\ writeq' = RemoveAt(writeq, i)
                          /\ queuelen' = queuelen - writeq[i].inuse
                          /\ Tell("WriteComplete", writeq[i].buf)
                          /\ \E m \in Nat : 
                               TurnedTwo(n,
                                 Written(m, IF i < Len(writeq) THEN writeq[i + 1].buf ELSE None,
                                         stack[n].ready),
                                 Cb("WriteComplete", writeq[i].buf))
<1>1. Running("dequeue")
  BY DEF DequeueByte
<1>2. /\ n >= 1 /\ stack[n].op = "dequeue" /\ n \in DOMAIN stack /\ n \in Nat /\ stack # <<>>
      /\ Top = stack[n] /\ stack[n] \in Activation
  BY <1>1, RunningTop DEF Types
<1>3. /\ stack[n].bytes \in Nat /\ stack[n].next \in Buf \cup {None}
      /\ stack[n].ready \in SUBSET {"read", "write"}
  BY <1>2, Fields
<1>4. stack[n].bytes > 0 /\ stack[n].next \in Buf
  BY <1>2, <1>3 DEF DequeueByte
<1>5. CASE \A i \in DOMAIN writeq : writeq[i].buf # stack[n].next
  <2>1. wild' = TRUE /\ UNCHANGED <<stack, queue, told>>
    BY <1>2, <1>5 DEF DequeueByte
  <2> QED BY <1>2, <1>4, <1>5, <2>1 DEF Queued
<1>6. CASE ~\A i \in DOMAIN writeq : writeq[i].buf # stack[n].next
  <2> DEFINE i == CHOOSE j \in DOMAIN writeq : writeq[j].buf = stack[n].next
  <2>1. i \in DOMAIN writeq /\ writeq[i].buf = stack[n].next
    BY <1>6
  <2>2. /\ wild' = wild
        /\ \/ /\ ~Whole(writeq[i])
              /\ writeq' = [writeq EXCEPT ![i].inuse = @ - stack[n].bytes]
              /\ queuelen' = LenAfterPart
              /\ told' = told
              /\ Become(<<Written(0, None, stack[n].ready)>>)
           \/ /\ Whole(writeq[i])
              /\ writeq' = RemoveAt(writeq, i)
              /\ queuelen' = queuelen - writeq[i].inuse
              /\ Tell("WriteComplete", writeq[i].buf)
              /\ Become(<<Written(Max({stack[n].bytes - writeq[i].inuse, 0}),
                                  IF i < Len(writeq) THEN writeq[i + 1].buf ELSE None,
                                  stack[n].ready),
                          Cb("WriteComplete", writeq[i].buf)>>)
    <3>1. ~\A j \in DOMAIN writeq : writeq[j].buf # Top.next
      BY <1>2, <1>6
    <3> QED BY <1>2, <3>1, Zenon DEF DequeueByte
  <2> HIDE DEF i
  <2>3. /\ writeq[i] \in Bid /\ writeq[i].inuse \in Nat /\ i \in 1 .. Len(writeq)
        /\ Len(writeq) \in Nat
    BY <2>1, BidTyped
  <2>4. IsData(writeq[i])
    <3>1. BidOf(i)
      BY <2>1 DEF BidsTrue
    <3> QED BY <1>4, <2>1, <3>1, ModeAssumption DEF BidOf
  <2>5. CASE ~Whole(writeq[i])
    <3> DEFINE f == Written(0, None, stack[n].ready)
    <3>1. f \in Activation
      BY <1>3, WrittenIs
    <3>2. stack[n].bytes < writeq[i].inuse /\ LenAfterPart = queuelen - stack[n].bytes
      BY <1>2, <1>3, <2>3, <2>5 DEF Whole, LenAfterPart
    <3>3. Become(<<f>>)
      BY <2>2, <2>5
    <3> HIDE DEF f
    <3>4. Turned(n, f)
      BY <1>2, <3>1, <3>3, BecomeOne DEF Types, Turned
    <3> QED BY <1>2, <1>4, <2>1, <2>2, <2>4, <2>5, <3>2, <3>4 DEF f
  <2>6. CASE Whole(writeq[i])
    <3> DEFINE m == Max({stack[n].bytes - writeq[i].inuse, 0})
               nx == IF i < Len(writeq) THEN writeq[i + 1].buf ELSE None
               f == Written(m, nx, stack[n].ready)
               g == Cb("WriteComplete", writeq[i].buf)
    <3>1. m \in Nat
      <4>1. stack[n].bytes - writeq[i].inuse \in Int
        BY <1>3, <2>3
      <4> QED BY <4>1, LargerIs
    <3>2. nx \in Buf \cup {None}
      <4>1. CASE i < Len(writeq)
        <5>1. i + 1 \in DOMAIN writeq
          BY <2>3, <4>1 DEF Types
        <5>2. writeq[i + 1].buf \in Buf \cup {None}
          BY <5>1, BidTyped
        <5> QED BY <4>1, <5>2
      <4>2. CASE ~(i < Len(writeq))
        BY <4>2
      <4> QED BY <4>1, <4>2
    <3>3. g \in Activation
      BY <1>4, <2>1, CbIs DEF Status
    <3>4. Become(<<f, g>>)
      BY <2>2, <2>6
    <3> HIDE DEF m, nx, g
    <3>5. f \in Activation
      BY <1>3, <3>1, <3>2, WrittenIs
    <3> HIDE DEF f
    <3>6. TurnedTwo(n, f, g)
      BY <1>2, <3>3, <3>4, <3>5, BecomeTwo DEF Types, TurnedTwo
    <3>7. \E k \in Nat : TurnedTwo(n, Written(k, nx, stack[n].ready), g)
      BY <3>1, <3>6 DEF f
    <3> QED BY <1>2, <1>4, <2>1, <2>2, <2>4, <2>6, <3>7 DEF nx, g
  <2> QED BY <2>5, <2>6
<1> QED BY <1>5, <1>6

-----------------------------------------------------------------------------
(* What a step makes of the queue                                          *)

\* Flags that the commands on the queue, and who is going on, rest on stay.
FlagsKept ==
  /\ Set({"closing", "pend", "shutout"}) => intflags' \cap {"closing", "pend", "shutout"} # {}
  /\ \A f \in {"closing", "shutin"} : f \in intflags => f \in intflags'

\* A step that leaves the queue keeps what holds of it.
LEMMA QueueSame ==
  ASSUME QueueInv, FlagsKept, UNCHANGED <<writeq, queuelen, order, told>>
  PROVE  QueueInv'
<1>1. BidsTrue' /\ Apart' /\ Fresh' /\ Accounted' /\ Counted'
  BY DEF QueueInv, BidsTrue, BidOf, Apart, Fresh, Accounted, Queued, Counted
<1>2. Commands'
  BY DEF QueueInv, Commands, CommandOf, FlagsKept, Set
<1> QED BY <1>1, <1>2 DEF QueueInv

\* The flags that a command needs
CmdFlags(c) ==
  /\ intflags' \cap {"closing", "pend", "shutout"} # {}
  /\ c = "Close" => {"closing", "shutin"} \subseteq intflags'

\* So does one that puts a command on it, with the flags for it,
LEMMA QueueCmd ==
  ASSUME Types, QueueInv, FlagsKept, NEW c \in {"Shutdown", "Close"}, CmdFlags(c),
         writeq' = Append(writeq, Cmd(c)), UNCHANGED <<queuelen, order, told>>
  PROVE  QueueInv'
<1> DEFINE e == Cmd(c)
<1>1. /\ e \in Bid /\ ~IsData(e) /\ e.buf = None /\ e.inuse = 0 /\ e.cmd = c
  BY SizesAssumption DEF Cmd, Bid, IsData
<1>2. writeq' = Append(writeq, e)
  OBVIOUS
<1> HIDE DEF e
<1>3. /\ Len(writeq') = Len(writeq) + 1 /\ Len(writeq) \in Nat
      /\ \A i \in 1 .. Len(writeq) : writeq'[i] = writeq[i]
      /\ writeq'[Len(writeq) + 1] = e
      /\ DOMAIN writeq' = 1 .. Len(writeq) + 1 /\ DOMAIN writeq = 1 .. Len(writeq)
  BY <1>1, <1>2, AppendIs DEF Types
<1>4. ASSUME NEW i \in DOMAIN writeq' PROVE i \in DOMAIN writeq \/ writeq'[i] = e
  BY <1>3
<1>5. BidsTrue'
  BY <1>1, <1>3, <1>4 DEF QueueInv, BidsTrue, BidOf
<1>6. Apart'
  <2> SUFFICES ASSUME NEW i \in DOMAIN writeq', NEW j \in DOMAIN writeq', IsData(writeq'[i]),
                      writeq'[i].buf = writeq'[j].buf
               PROVE  i = j
    BY DEF Apart
  <2>1. i \in DOMAIN writeq /\ writeq'[i] = writeq[i]
    BY <1>1, <1>3, <1>4
  <2>2. writeq[i].buf \in Buf
    BY <2>1 DEF QueueInv, BidsTrue, BidOf, Types, Range
  <2>3. j \in DOMAIN writeq /\ writeq'[j] = writeq[j]
    BY <1>1, <1>3, <1>4, <2>1, <2>2, ModeAssumption
  <2> QED BY <2>1, <2>3 DEF QueueInv, Apart
<1>7. Fresh'
  BY DEF QueueInv, Fresh
<1>8. Accounted'
  BY <1>3 DEF QueueInv, Accounted, Queued
<1>9. Commands'
  BY <1>1, <1>3, <1>4 DEF QueueInv, Commands, CommandOf, FlagsKept, CmdFlags, Set
<1>10. Counted'
  BY <1>2, SumsCmd, SizesAssumption DEF e, QueueInv, Counted, Types
<1> QED BY <1>5, <1>6, <1>7, <1>8, <1>9, <1>10 DEF QueueInv

\* one that takes all of it when it holds only commands,
LEMMA QueueGone ==
  ASSUME Types, QueueInv, writeq' = <<>>, queuelen = 0, UNCHANGED <<queuelen, order, told>>,
         \A i \in DOMAIN writeq : ~IsData(writeq[i])
  PROVE  QueueInv'
<1>1. DOMAIN writeq' = {}
  OBVIOUS
<1>2. BidsTrue' /\ Apart' /\ Commands'
  BY <1>1 DEF BidsTrue, Apart, Commands
<1>3. Fresh'
  BY DEF QueueInv, Fresh
<1>4. ASSUME NEW b \in Range(order) PROVE Len(told[b]) = 1
  <2>1. b \in Buf
    BY DEF Types, Range
  <2>2. ~Queued(b)
    BY <2>1, ModeAssumption DEF QueueInv, BidsTrue, BidOf, Queued
  <2> QED BY <2>2 DEF QueueInv, Accounted
<1>5. Accounted'
  BY <1>4 DEF Accounted, Range
<1>6. Counted'
  BY SumsEmpty DEF Counted
<1> QED BY <1>2, <1>3, <1>5, <1>6 DEF QueueInv

\* and one that executes what has come to the front.
LEMMA QueueBehind ==
  ASSUME Types, QueueInv, FlagsKept, NEW q, writeq' = Behind(q),
         UNCHANGED <<queuelen, order, told>>,
         \/ q = writeq
         \/ \E c \in {"Shutdown", "Close"} :
              q = Append(writeq, Cmd(c)) /\ (Behind(q) # <<>> => CmdFlags(c))
  PROVE  QueueInv' /\ writeq' \in Seq(Bid)
<1>1. Queues(q)
  BY DEF Queues
<1>2. /\ q \in Seq(Bid)
      /\ \/ Behind(q) = q /\ q # <<>>
         \/ /\ Behind(q) = <<>> /\ queuelen = 0 /\ \A i \in DOMAIN q : ~IsData(q[i])
  BY <1>1, Executes DEF QueueInv
<1>3. CASE Behind(q) = q /\ q # <<>>
  <2>1. CASE q = writeq
    BY <1>2, <1>3, <2>1, QueueSame
  <2>2. CASE q # writeq
    BY <1>2, <1>3, <2>2, QueueCmd
  <2> QED BY <2>1, <2>2
<1>4. CASE Behind(q) = <<>> /\ queuelen = 0 /\ \A i \in DOMAIN q : ~IsData(q[i])
  <2>1. \A i \in DOMAIN writeq : i \in DOMAIN q /\ q[i] = writeq[i]
    <3>1. CASE q = writeq
      BY <3>1
    <3>2. ASSUME NEW c \in {"Shutdown", "Close"}, q = Append(writeq, Cmd(c))
          PROVE  \A i \in DOMAIN writeq : i \in DOMAIN q /\ q[i] = writeq[i]
      <4>1. Cmd(c) \in Bid
        BY SizesAssumption DEF Cmd, Bid
      <4> DEFINE e == Cmd(c)
      <4> HIDE DEF e
      <4> QED BY <3>2, <4>1, AppendIs DEF Types, e
    <3> QED BY <3>1, <3>2
  <2> QED BY <1>4, <2>1, QueueGone
<1> QED BY <1>2, <1>3, <1>4

\* So does the acceptance of a new buffer.
LEMMA QueueData ==
  ASSUME Types, QueueInv, NEW b \in Buf, b \notin Range(order),
         ~Set({"closing", "pend", "shutout"}),
         writeq' = Append(writeq, Data(b, BufLen)), queuelen' = queuelen + BufLen,
         order' = Append(order, b), UNCHANGED <<told, intflags>>
  PROVE  QueueInv' /\ writeq' \in Seq(Bid) /\ order' \in Seq(Buf)
<1> DEFINE e == Data(b, BufLen)
<1>1. BufLen \in Nat /\ BufLen > 0 /\ BufLen \in 1 .. BufLen
  BY SizesAssumption
<1>2. e \in Bid /\ IsData(e) /\ e.buf = b /\ e.inuse = BufLen
  BY <1>1 DEF Data, Bid, IsData
<1>3. writeq' = Append(writeq, e)
  OBVIOUS
<1> HIDE DEF e
<1>4. /\ Len(writeq') = Len(writeq) + 1 /\ Len(writeq) \in Nat
      /\ \A i \in 1 .. Len(writeq) : writeq'[i] = writeq[i]
      /\ writeq'[Len(writeq) + 1] = e /\ writeq' \in Seq(Bid)
      /\ DOMAIN writeq' = 1 .. Len(writeq) + 1 /\ DOMAIN writeq = 1 .. Len(writeq)
  BY <1>2, <1>3, AppendIs DEF Types
<1>5. ASSUME NEW i \in DOMAIN writeq'
      PROVE  (i \in DOMAIN writeq /\ writeq'[i] = writeq[i])
             \/ (i = Len(writeq) + 1 /\ writeq'[i] = e)
  BY <1>4
<1>6. order' \in Seq(Buf) /\ Range(order') = Range(order) \cup {b}
  <2>1. order \in Seq(Buf)
    BY DEF Types
  <2>2. /\ Len(order') = Len(order) + 1 /\ Len(order) \in Nat
        /\ \A i \in 1 .. Len(order) : order'[i] = order[i]
        /\ order'[Len(order) + 1] = b /\ order' \in Seq(Buf)
    BY <2>1, AppendIs
  <2>3. DOMAIN order' = 1 .. Len(order) + 1 /\ DOMAIN order = 1 .. Len(order)
    BY <2>1, <2>2
  <2>4. ASSUME NEW x \in Range(order') PROVE x \in Range(order) \cup {b}
    <3>1. PICK i \in DOMAIN order' : order'[i] = x
      BY DEF Range
    <3>2. i \in DOMAIN order \/ i = Len(order) + 1
      BY <2>2, <2>3
    <3> QED BY <2>2, <2>3, <3>1, <3>2 DEF Range
  <2>5. ASSUME NEW x \in Range(order) PROVE x \in Range(order')
    <3>1. PICK i \in DOMAIN order : order[i] = x
      BY DEF Range
    <3>2. i \in DOMAIN order' /\ order'[i] = x
      BY <2>2, <2>3, <3>1
    <3> QED BY <3>2 DEF Range
  <2>6. b \in Range(order')
    <3>1. Len(order) + 1 \in DOMAIN order'
      BY <2>2, <2>3
    <3> QED BY <2>2, <3>1 DEF Range
  <2> QED BY <2>2, <2>4, <2>5, <2>6
<1>7. BidsTrue'
  BY <1>1, <1>2, <1>5, <1>6 DEF QueueInv, BidsTrue, BidOf, Fresh
<1>8. Apart'
  <2> SUFFICES ASSUME NEW i \in DOMAIN writeq', NEW j \in DOMAIN writeq', IsData(writeq'[i]),
                      writeq'[i].buf = writeq'[j].buf
               PROVE  i = j
    BY DEF Apart
  <2>1. ASSUME NEW k \in DOMAIN writeq PROVE writeq[k].buf # b
    BY ModeAssumption DEF QueueInv, BidsTrue, BidOf
  <2> QED BY <1>2, <1>5, <2>1 DEF QueueInv, Apart
<1>9. Fresh'
  BY <1>6 DEF QueueInv, Fresh
<1>10. Accounted'
  BY <1>2, <1>4, <1>6 DEF QueueInv, Accounted, Queued
<1>11. \A i \in 1 .. Len(writeq) : IsData(writeq[i])
  BY <1>4 DEF QueueInv, Commands, CommandOf
<1>12. Commands'
  BY <1>2, <1>4, <1>5, <1>11 DEF Commands, CommandOf
<1>13. Counted'
  BY <1>1, <1>11, SumsData DEF QueueInv, Counted, Types
<1> QED BY <1>4, <1>6, <1>7, <1>8, <1>9, <1>10, <1>12, <1>13 DEF QueueInv

\* The queue loses its k-th bid.
Without(k) ==
  /\ k \in DOMAIN writeq /\ writeq' \in Seq(Bid) /\ Len(writeq') = Len(writeq) - 1
  /\ \A i \in 1 .. Len(writeq) - 1 : writeq'[i] = IF i < k THEN writeq[i] ELSE writeq[i + 1]

\* The bids that stay are those there were but the k-th.
LEMMA WithoutIs ==
  ASSUME Types, NEW k, Without(k)
  PROVE  /\ \A i \in DOMAIN writeq' : \E j \in DOMAIN writeq :
              /\ j # k /\ writeq'[i] = writeq[j] /\ j = IF i < k THEN i ELSE i + 1
         /\ \A j \in DOMAIN writeq : j # k => \E i \in DOMAIN writeq' : writeq'[i] = writeq[j]
<1>1. /\ Len(writeq) \in Nat /\ k \in 1 .. Len(writeq) /\ DOMAIN writeq = 1 .. Len(writeq)
      /\ DOMAIN writeq' = 1 .. Len(writeq) - 1
  BY DEF Types, Without
<1>2. ASSUME NEW i \in DOMAIN writeq'
      PROVE  \E j \in DOMAIN writeq :
               j # k /\ writeq'[i] = writeq[j] /\ j = IF i < k THEN i ELSE i + 1
  <2> DEFINE j == IF i < k THEN i ELSE i + 1
  <2>1. j \in DOMAIN writeq /\ j # k
    BY <1>1
  <2>2. writeq'[i] = writeq[j]
    BY <1>1 DEF Without
  <2> QED BY <2>1, <2>2
<1>3. ASSUME NEW j \in DOMAIN writeq, j # k
      PROVE  \E i \in DOMAIN writeq' : writeq'[i] = writeq[j]
  <2>1. CASE j < k
    <3>1. j \in DOMAIN writeq'
      BY <1>1, <2>1
    <3>2. writeq'[j] = writeq[j]
      BY <1>1, <2>1, <3>1 DEF Without
    <3> QED BY <3>1, <3>2
  <2>2. CASE j > k
    <3>1. j - 1 \in DOMAIN writeq' /\ ~(j - 1 < k) /\ (j - 1) + 1 = j
      BY <1>1, <2>2
    <3>2. writeq'[j - 1] = writeq[j]
      BY <1>1, <3>1 DEF Without
    <3> QED BY <3>1, <3>2
  <2> QED BY <1>1, <1>3, <2>1, <2>2
<1> QED BY <1>2, <1>3

\* Taking a bid off keeps what holds of the queue, if the program is told of data.
LEMMA QueueWithout ==
  ASSUME Types, QueueInv, FlagsKept, NEW k, Without(k), Counted', UNCHANGED order,
         IF IsData(writeq[k])
         THEN \E s : Tell(s, writeq[k].buf)
         ELSE told' = told
  PROVE  QueueInv'
<1> DEFINE b == writeq[k].buf
<1>1. k \in DOMAIN writeq /\ BidOf(k) /\ b \in Buf \cup {None}
  <2>1. k \in DOMAIN writeq
    BY DEF Without
  <2> QED BY <2>1, BidTyped DEF QueueInv, BidsTrue
<1>2. IsData(writeq[k]) => b \in Buf /\ b \in Range(order) /\ told[b] = <<>>
  BY <1>1 DEF BidOf, Types, Range
<1>3. \A c \in Buf : ~(IsData(writeq[k]) /\ c = b) => told'[c] = told[c]
  BY <1>1, <1>2 DEF Tell, Types
<1>4. IsData(writeq[k]) => Len(told'[b]) = 1
  <2> SUFFICES ASSUME IsData(writeq[k]) PROVE Len(told'[b]) = 1
    OBVIOUS
  <2>1. PICK s : Tell(s, b)
    OBVIOUS
  <2>2. told'[b] = Append(<<>>, s)
    BY <1>2, <2>1 DEF Tell, Types
  <2> QED BY <2>2
<1>5. \A i \in DOMAIN writeq' : \E j \in DOMAIN writeq :
         j # k /\ writeq'[i] = writeq[j] /\ j = IF i < k THEN i ELSE i + 1
  BY WithoutIs
<1>6. \A j \in DOMAIN writeq : j # k => \E i \in DOMAIN writeq' : writeq'[i] = writeq[j]
  BY WithoutIs
<1>7. ASSUME NEW j \in DOMAIN writeq, j # k, IsData(writeq[j])
      PROVE  /\ writeq[j].buf \in Buf /\ ~(IsData(writeq[k]) /\ writeq[j].buf = b)
             /\ writeq[j].buf \in Range(order) /\ told[writeq[j].buf] = <<>>
             /\ writeq[j].inuse > 0
  BY <1>1, <1>7, SMTT(40) DEF QueueInv, BidsTrue, BidOf, Apart, Types, Range
<1> HIDE DEF b
<1>8. BidsTrue'
  <2> SUFFICES ASSUME NEW i \in DOMAIN writeq' PROVE BidOf(i)'
    BY DEF BidsTrue
  <2>1. PICK j \in DOMAIN writeq : j # k /\ writeq'[i] = writeq[j]
    BY <1>5
  <2>2. CASE IsData(writeq[j])
    BY <1>3, <1>7, <2>1, <2>2 DEF BidOf
  <2>3. CASE ~IsData(writeq[j])
    BY <2>1, <2>3 DEF BidOf, QueueInv, BidsTrue
  <2> QED BY <2>2, <2>3
<1>9. Apart'
  <2> SUFFICES ASSUME NEW i \in DOMAIN writeq', NEW l \in DOMAIN writeq', IsData(writeq'[i]),
                      writeq'[i].buf = writeq'[l].buf
               PROVE  i = l
    BY DEF Apart
  <2>1. PICK j \in DOMAIN writeq : writeq'[i] = writeq[j] /\ j = IF i < k THEN i ELSE i + 1
    BY <1>5
  <2>2. PICK m \in DOMAIN writeq : writeq'[l] = writeq[m] /\ m = IF l < k THEN l ELSE l + 1
    BY <1>5
  <2>3. j = m
    BY <2>1, <2>2 DEF QueueInv, Apart
  <2>4. i \in Int /\ l \in Int /\ k \in Int
    BY DEF Without, Types
  <2> QED BY <2>1, <2>2, <2>3, <2>4
<1>10. Fresh'
  BY <1>2, <1>3 DEF QueueInv, Fresh
<1>11. Accounted'
  <2> SUFFICES ASSUME NEW c \in Range(order) PROVE Queued(c)' \/ Len(told'[c]) = 1
    BY DEF Accounted
  <2>1. c \in Buf
    BY DEF Types, Range
  <2>2. CASE IsData(writeq[k]) /\ c = b
    BY <1>4, <2>2
  <2>3. CASE ~(IsData(writeq[k]) /\ c = b)
    <3>1. CASE Queued(c)
      <4>1. PICK j \in DOMAIN writeq : writeq[j].buf = c
        BY <3>1 DEF Queued
      <4>2. j # k
        BY <1>1, <2>1, <2>3, <4>1, ModeAssumption DEF BidOf, b
      <4>3. PICK i \in DOMAIN writeq' : writeq'[i] = writeq[j]
        BY <1>6, <4>2
      <4> QED BY <4>1, <4>3 DEF Queued
    <3>2. CASE ~Queued(c)
      BY <1>3, <2>1, <2>3, <3>2 DEF QueueInv, Accounted
    <3> QED BY <3>1, <3>2
  <2> QED BY <2>2, <2>3
<1>12. Commands'
  <2> SUFFICES ASSUME NEW i \in DOMAIN writeq' PROVE CommandOf(i)'
    BY DEF Commands
  <2>1. PICK j \in DOMAIN writeq : writeq'[i] = writeq[j]
    BY <1>5
  <2> QED BY <2>1 DEF CommandOf, QueueInv, Commands, FlagsKept, Set
<1> QED BY <1>8, <1>9, <1>10, <1>11, <1>12 DEF QueueInv

\* ioh_flush_queue takes off the first.
LEMMA TailWithout ==
  ASSUME Types, QueueInv, writeq # <<>>, writeq' = Tail(writeq),
         queuelen' = queuelen - writeq[1].inuse
  PROVE  Without(1) /\ Counted'
<1>1. /\ Tail(writeq) \in Seq(Bid) /\ Len(Tail(writeq)) = Len(writeq) - 1 /\ Len(writeq) \in Nat
      /\ Len(writeq) >= 1 /\ \A i \in 1 .. Len(writeq) - 1 : Tail(writeq)[i] = writeq[i + 1]
  BY TailIs DEF Types
<1>2. Without(1)
  <2>1. 1 \in DOMAIN writeq
    BY <1>1 DEF Types
  <2>2. \A i \in 1 .. Len(writeq) - 1 : ~(i < 1)
    OBVIOUS
  <2> QED BY <1>1, <2>1, <2>2 DEF Without
<1>3. \A i \in 1 .. Len(writeq) : ~IsData(writeq[i]) => writeq[i].inuse = 0
  <2>1. DOMAIN writeq = 1 .. Len(writeq)
    BY DEF Types
  <2> QED BY <2>1 DEF QueueInv, BidsTrue, BidOf
<1>4. Counted'
  BY <1>3, SumsTail, SizesAssumption DEF QueueInv, Counted, Types
<1> QED BY <1>2, <1>4

\* ioh_dequeue takes off one of the data.
LEMMA RemovedWithout ==
  ASSUME Types, QueueInv, NEW k \in DOMAIN writeq, IsData(writeq[k]),
         writeq' = RemoveAt(writeq, k), queuelen' = queuelen - writeq[k].inuse
  PROVE  Without(k) /\ Counted'
<1>1. k \in 1 .. Len(writeq)
  BY DEF Types
<1>2. Without(k)
  BY <1>1, RemoveAtIs DEF Without, Types
<1>3. Counted'
  BY <1>1, SumsRemove, SizesAssumption DEF QueueInv, Counted, Types
<1> QED BY <1>2, <1>3

\* A write in part keeps what holds of the queue.
LEMMA QueuePart ==
  ASSUME Types, QueueInv, FlagsKept, NEW k \in DOMAIN writeq, IsData(writeq[k]),
         NEW x \in Nat, x < writeq[k].inuse, writeq' = [writeq EXCEPT ![k].inuse = @ - x],
         queuelen' = queuelen - x, UNCHANGED <<order, told>>
  PROVE  QueueInv' /\ writeq' \in Seq(Bid)
<1>1. /\ writeq[k] \in Bid /\ writeq[k].inuse \in Nat /\ writeq[k].inuse <= BufLen
      /\ k \in 1 .. Len(writeq) /\ Len(writeq) \in Nat
  BY BidTyped
<1> DEFINE e == [writeq[k] EXCEPT !.inuse = @ - x]
<1>2. /\ e \in Bid /\ IsData(e) /\ e.buf = writeq[k].buf /\ e.inuse = writeq[k].inuse - x
      /\ e.inuse > 0
  BY <1>1, SizesAssumption, SMTT(40) DEF Bid, IsData
<1>3. writeq' = [writeq EXCEPT ![k] = e]
  OBVIOUS
<1> HIDE DEF e
<1>4. /\ DOMAIN writeq' = DOMAIN writeq /\ writeq' \in Seq(Bid) /\ Len(writeq') = Len(writeq)
      /\ writeq'[k] = e /\ \A i \in DOMAIN writeq : i # k => writeq'[i] = writeq[i]
      /\ DOMAIN writeq = 1 .. Len(writeq)
  <2>1. writeq \in Seq(Bid)
    BY DEF Types
  <2> QED BY <1>1, <1>2, <1>3, <2>1, ExceptSeq
<1>5. BidsTrue'
  BY <1>2, <1>4 DEF QueueInv, BidsTrue, BidOf
<1>6. \A i \in DOMAIN writeq : /\ writeq'[i].buf = writeq[i].buf
                              /\ IsData(writeq'[i]) <=> IsData(writeq[i])
                              /\ ~IsData(writeq[i]) => writeq'[i] = writeq[i]
  BY <1>2, <1>4
<1>7. Apart' /\ Accounted'
  BY <1>4, <1>6 DEF QueueInv, Apart, Accounted, Queued
<1>8. Fresh'
  BY DEF QueueInv, Fresh
<1>9. Commands'
  BY <1>4, <1>6 DEF QueueInv, Commands, CommandOf, FlagsKept, Set
<1>10. Counted'
  <2>1. x \in 0 .. writeq[k].inuse
    BY <1>1
  <2>2. \A i \in 1 .. Len(writeq) : i # k => writeq'[i] = writeq[i]
    BY <1>4
  <2>3. IsData(writeq'[k]) /\ writeq'[k].inuse = writeq[k].inuse - x
    BY <1>2, <1>4
  <2>4. BufLen \in Nat
    BY SizesAssumption
  <2>5. Sums(writeq', queuelen - x)
    BY <1>1, <1>4, <2>1, <2>2, <2>3, <2>4, SumsPart DEF QueueInv, Counted, Types
  <2> QED BY <2>5 DEF Counted
<1> QED BY <1>4, <1>5, <1>7, <1>8, <1>9, <1>10 DEF QueueInv

-----------------------------------------------------------------------------
(* Who goes on                                                             *)

\* What the execution of commands makes of the flags
LEMMA ShutsIs ==
  ASSUME NEW flags, NEW cmds
  PROVE  /\ \A f : f \notin {"pend", "shutout"} => (f \in Shuts(flags, cmds) <=> f \in flags)
         /\ flags \cap {"pend", "shutout"} # {} => Shuts(flags, cmds) \cap {"pend", "shutout"} # {}
         /\ flags \subseteq Flag => Shuts(flags, cmds) \subseteq Flag
         /\ "shutout" \in flags => "shutout" \in Shuts(flags, cmds)
BY DEF Shuts, Flag

\* Most activations do not rest on flags.
LEMMA SureIs ==
  ASSUME NEW flags
  PROVE  /\ \A s, b : Sure(Cb(s, b), flags)
         /\ \A pc, ready : Sure(Handler(pc, ready), flags)
         /\ \A bytes, next, ready : Sure(Written(bytes, next, ready), flags)
         /\ \A collect : Sure(Flush(collect, <<>>), flags)
         /\ \A abort : Sure(Close("begin", abort), flags)
         /\ \A abort : "closing" \in flags => Sure(Close("queue", abort), flags)
         /\ \A pc, how : Sure(Shutdown(pc, how), flags)
         /\ \A pc : "shutin" \in flags => Sure(Destroy(pc), flags)
<1>1. \A s, b : Sure(Cb(s, b), flags)
  BY DEF Sure, Cb
<1>2. \A pc, ready : Sure(Handler(pc, ready), flags)
  BY DEF Sure, Handler
<1>3. \A bytes, next, ready : Sure(Written(bytes, next, ready), flags)
  BY DEF Sure, Written
<1>4. \A collect : Sure(Flush(collect, <<>>), flags)
  <2>1. Range(<<>>) = {}
    BY DEF Range
  <2> QED BY <2>1 DEF Sure, Flush
<1>5. \A abort : Sure(Close("begin", abort), flags)
  BY DEF Sure, Close
<1>6. \A abort : "closing" \in flags => Sure(Close("queue", abort), flags)
  BY DEF Sure, Close
<1>7. \A pc, how : Sure(Shutdown(pc, how), flags)
  BY DEF Sure, Shutdown
<1>8. \A pc : "shutin" \in flags => Sure(Destroy(pc), flags)
  BY DEF Sure, Destroy, Frame
<1> QED BY <1>1, <1>2, <1>3, <1>4, <1>5, <1>6, <1>7, <1>8

\* Who goes on still may, if the new activations may.
LEMMA GoingKept ==
  ASSUME Types, Going, FlagsKept, NEW m, NEW k \in {0, 1, 2}, Grown(m, k),
         \A i \in m + 1 .. m + k : Sure(stack'[i], intflags')
  PROVE  Going'
<1>1. /\ m \in Nat /\ m <= Len(stack) /\ Len(stack) \in Nat /\ DOMAIN stack = 1 .. Len(stack)
      /\ DOMAIN stack' = 1 .. m + k
  BY DEF Types, Grown
<1> SUFFICES ASSUME NEW i \in DOMAIN stack' PROVE Sure(stack'[i], intflags')
  BY DEF Going
<1>2. CASE i <= m
  <2>1. i \in 1 .. m /\ i \in DOMAIN stack
    BY <1>1, <1>2
  <2>2. stack'[i] = stack[i] /\ Sure(stack[i], intflags)
    BY <2>1 DEF Grown, Going
  <2> QED BY <2>2 DEF FlagsKept, Sure
<1>3. CASE ~(i <= m)
  <2>1. i \in m + 1 .. m + k
    BY <1>1, <1>3
  <2> QED BY <2>1
<1> QED BY <1>2, <1>3

\* The same for each way in which the stack changes
LEMMA GoingNext ==
  ASSUME Types, Going, FlagsKept, NEW n, n = Len(stack)
  PROVE  /\ Grown(n, 0) => Going'
         /\ Gone(n) => Going'
         /\ \A f : Turned(n, f) /\ Sure(f, intflags') => Going'
         /\ \A f : Pushed(n, f) /\ Sure(f, intflags') => Going'
         /\ \A f, g : TurnedTwo(n, f, g) /\ Sure(f, intflags') /\ Sure(g, intflags') => Going'
         /\ \A f, g : PushedTwo(n, f, g) /\ Sure(f, intflags') /\ Sure(g, intflags') => Going'
<1>1. n \in Nat
  BY DEF Types
<1>2. Grown(n, 0) => Going'
  <2>1. n + 1 .. n + 0 = {}
    BY <1>1
  <2> QED BY <2>1, GoingKept
<1>3. Gone(n) => Going'
  <2>1. (n - 1) + 1 .. (n - 1) + 0 = {}
    BY <1>1
  <2> QED BY <2>1, GoingKept DEF Gone
<1>4. ASSUME NEW f, Turned(n, f), Sure(f, intflags') PROVE Going'
  <2>1. \A i \in (n - 1) + 1 .. (n - 1) + 1 : i = n
    BY <1>1
  <2> QED BY <1>4, <2>1, GoingKept DEF Turned
<1>5. ASSUME NEW f, Pushed(n, f), Sure(f, intflags') PROVE Going'
  <2>1. \A i \in n + 1 .. n + 1 : i = n + 1
    BY <1>1
  <2> QED BY <1>5, <2>1, GoingKept DEF Pushed
<1>6. ASSUME NEW f, NEW g, TurnedTwo(n, f, g), Sure(f, intflags'), Sure(g, intflags') PROVE Going'
  <2>1. \A i \in (n - 1) + 1 .. (n - 1) + 2 : i = n \/ i = n + 1
    BY <1>1
  <2> QED BY <1>6, <2>1, GoingKept DEF TurnedTwo
<1>7. ASSUME NEW f, NEW g, PushedTwo(n, f, g), Sure(f, intflags'), Sure(g, intflags') PROVE Going'
  <2>1. \A i \in n + 1 .. n + 2 : i = n + 1 \/ i = n + 2
    BY <1>1
  <2> QED BY <1>7, <2>1, GoingKept DEF PushedTwo
<1> QED BY <1>2, <1>3, <1>4, <1>5, <1>6, <1>7

\* The stack stays a stack.
LEMMA StackTyped ==
  ASSUME NEW n
  PROVE  /\ \A k : Grown(n, k) => stack' \in Seq(Activation)
         /\ Gone(n) => stack' \in Seq(Activation)
         /\ \A f : Turned(n, f) => stack' \in Seq(Activation)
         /\ \A f : Pushed(n, f) => stack' \in Seq(Activation)
         /\ \A f, g : TurnedTwo(n, f, g) => stack' \in Seq(Activation)
         /\ \A f, g : PushedTwo(n, f, g) => stack' \in Seq(Activation)
BY DEF Grown, Gone, Turned, Pushed, TurnedTwo, PushedTwo

\* The parts of the invariant
LEMMA IInvIs == ASSUME IInv PROVE Types /\ QueueInv /\ BidsTrue /\ Counted /\ Going /\ ReadingTrue
BY DEF IInv, QueueInv

\* The running activation may go on.
LEMMA TopSure ==
  ASSUME IInv, NEW n \in DOMAIN stack
  PROVE  Sure(stack[n], intflags)
BY DEF IInv, Going

-----------------------------------------------------------------------------
(* The actions keep the invariant: those that leave the queue alone        *)

\* The bounds are numbers.
LEMMA BoundsAre == {QueueMax, Budget, MaxReads, MaxThrottle} \subseteq Nat
BY SizesAssumption

\* A call counts.
LEMMA SpendIs == ASSUME Types, Spend PROVE left' \in 0 .. Budget
<1>1. left \in 0 .. Budget /\ left > 0 /\ left' = left - 1 /\ Budget \in Nat
  BY BoundsAre DEF Types, Spend
<1> QED BY <1>1

\* A read counts.
LEMMA ReadReadyIs == ASSUME Types, ReadReady PROVE reads' \in 0 .. MaxReads
<1>1. reads \in 0 .. MaxReads /\ reads > 0 /\ reads' = reads - 1 /\ MaxReads \in Nat
  BY BoundsAre DEF Types, ReadReady
<1> QED BY <1>1

\* The call of bk_ioh_flush keeps the invariant.
LEMMA FlushCallKeeps ==
  ASSUME IInv, NEW n, n = Len(stack), NEW how, FlushCall(how)
  PROVE  IInv'
<1>1. Types /\ QueueInv /\ BidsTrue /\ Counted /\ Going /\ ReadingTrue
  BY IInvIs
<1>2. Grown(n, 0) \/ Pushed(n, Flush(TRUE, <<>>))
  BY <1>1, FlushCallStack
<1>3. FlagsKept
  BY DEF FlushCall, ioh, FlagsKept, Set
<1>4. QueueInv'
  BY <1>1, <1>3, QueueSame DEF FlushCall, queue, history
<1>5. Going'
  BY <1>1, <1>2, <1>3, GoingNext, SureIs
<1>6. ReadingTrue'
  BY <1>1 DEF FlushCall, ioh, ReadingTrue, Set
<1>7. Types'
  <2>1. stack' \in Seq(Activation)
    BY <1>2, StackTyped
  <2> QED BY <1>1, <2>1, SpendIs DEF FlushCall, ioh, queue, history, Types
<1> QED BY <1>4, <1>5, <1>6, <1>7 DEF IInv

\* The call of bk_ioh_shutdown keeps the invariant.
LEMMA ShutdownCallKeeps ==
  ASSUME IInv, NEW n, n = Len(stack), NEW how \in SUBSET {"read", "write"},
         ShutdownCall(how)
  PROVE  IInv'
<1>1. Types /\ QueueInv /\ BidsTrue /\ Counted /\ Going /\ ReadingTrue
  BY IInvIs
<1>2. \/ PushedTwo(n, Shutdown("sentup", Undone(how)), Cb("IncompleteRead", None))
      \/ Pushed(n, Shutdown("queue", Undone(how)))
  BY <1>1, ShutdownCallStack
<1>3. FlagsKept
  BY DEF ShutdownCall, ioh, FlagsKept, Set
<1>4. QueueInv'
  BY <1>1, <1>3, QueueSame DEF ShutdownCall, queue, history
<1>5. Going'
  BY <1>1, <1>2, <1>3, GoingNext, SureIs
<1>6. ReadingTrue'
  BY <1>1 DEF ShutdownCall, ioh, ReadingTrue, Set
<1>7. Types'
  <2>1. stack' \in Seq(Activation)
    BY <1>2, StackTyped
  <2> QED BY <1>1, <2>1, SpendIs DEF ShutdownCall, ioh, queue, history, Types
<1> QED BY <1>4, <1>5, <1>6, <1>7 DEF IInv

\* The call of bk_ioh_close keeps the invariant.
LEMMA CloseCallKeeps ==
  ASSUME IInv, NEW n, n = Len(stack), NEW abort \in BOOLEAN, CloseCall(abort)
  PROVE  IInv'
<1>1. Types /\ QueueInv /\ BidsTrue /\ Counted /\ Going /\ ReadingTrue
  BY IInvIs
<1>2. Pushed(n, Close("begin", abort))
  BY <1>1, CloseCallStack
<1>3. FlagsKept
  BY DEF CloseCall, ioh, FlagsKept, Set
<1>4. QueueInv'
  BY <1>1, <1>3, QueueSame DEF CloseCall, queue, history
<1>5. Going'
  BY <1>1, <1>2, <1>3, GoingNext, SureIs
<1>6. ReadingTrue'
  BY <1>1 DEF CloseCall, ioh, ReadingTrue, Set
<1>7. Types'
  <2>1. stack' \in Seq(Activation)
    BY <1>2, StackTyped
  <2> QED BY <1>1, <2>1, SpendIs DEF CloseCall, ioh, queue, history, Types
<1> QED BY <1>4, <1>5, <1>6, <1>7 DEF IInv

\* The end of the run loop keeps the invariant.
LEMMA RunDestroyKeeps ==
  ASSUME IInv, NEW n, n = Len(stack), RunDestroy
  PROVE  IInv'
<1>1. Types /\ QueueInv /\ BidsTrue /\ Counted /\ Going /\ ReadingTrue
  BY IInvIs
<1>2. Pushed(n, Close("begin", TRUE))
  BY <1>1, RunDestroyStack
<1>3. FlagsKept
  BY DEF RunDestroy, ioh, FlagsKept, Set
<1>4. QueueInv'
  BY <1>1, <1>3, QueueSame DEF RunDestroy, queue, history
<1>5. Going'
  BY <1>1, <1>2, <1>3, GoingNext, SureIs
<1>6. ReadingTrue'
  BY <1>1 DEF RunDestroy, ioh, ReadingTrue, Set
<1>7. Types'
  <2>1. stack' \in Seq(Activation)
    BY <1>2, StackTyped
  <2> QED BY <1>1, <2>1, SpendIs DEF RunDestroy, ioh, queue, history, Types
<1> QED BY <1>4, <1>5, <1>6, <1>7 DEF IInv

\* The return of the callback keeps the invariant.
LEMMA CallbackReturnsKeeps ==
  ASSUME IInv, NEW n, n = Len(stack), CallbackReturns
  PROVE  IInv'
<1>1. Types /\ QueueInv /\ BidsTrue /\ Counted /\ Going /\ ReadingTrue
  BY IInvIs
<1>2. Gone(n) /\ stack[n].op = "callback"
  BY <1>1, CallbackReturnsStack
<1>3. FlagsKept
  BY DEF CallbackReturns, ioh, FlagsKept, Set
<1>4. QueueInv'
  BY <1>1, <1>3, QueueSame DEF CallbackReturns, queue, history
<1>5. Going'
  BY <1>1, <1>2, <1>3, GoingNext, SureIs
<1>6. ReadingTrue'
  BY <1>1 DEF CallbackReturns, ioh, ReadingTrue, Set
<1>7. Types'
  <2>1. stack' \in Seq(Activation)
    BY <1>2, StackTyped
  <2> QED BY <1>1, <2>1 DEF CallbackReturns, ioh, queue, history, Types
<1> QED BY <1>4, <1>5, <1>6, <1>7 DEF IInv

\* bk_ioh_destroy, as it tells of itself, keeps the invariant.
LEMMA DestroyTellKeeps ==
  ASSUME IInv, NEW n, n = Len(stack), DestroyTell
  PROVE  IInv'
<1>1. Types /\ QueueInv /\ BidsTrue /\ Counted /\ Going /\ ReadingTrue
  BY IInvIs
<1>2. /\ n \in DOMAIN stack /\ stack[n].op = "destroy"
      /\ TurnedTwo(n, Destroy("free"), Cb("IohClosing", None))
  BY <1>1, DestroyTellStack
<1>8. "shutin" \in intflags'
  BY <1>2, TopSure DEF DestroyTell, ioh, Sure
<1>3. FlagsKept
  BY DEF DestroyTell, ioh, FlagsKept, Set
<1>4. QueueInv'
  BY <1>1, <1>3, QueueSame DEF DestroyTell, queue, history
<1>5. Going'
  BY <1>1, <1>2, <1>3, <1>8, GoingNext, SureIs
<1>6. ReadingTrue'
  BY <1>1 DEF DestroyTell, ioh, ReadingTrue, Set
<1>7. Types'
  <2>1. stack' \in Seq(Activation)
    BY <1>2, StackTyped
  <2> QED BY <1>1, <2>1 DEF DestroyTell, ioh, queue, history, Types
<1> QED BY <1>4, <1>5, <1>6, <1>7 DEF IInv

\* The end of bk_ioh_destroy keeps the invariant.
LEMMA DestroyFreeKeeps ==
  ASSUME IInv, NEW n, n = Len(stack), DestroyFree
  PROVE  IInv'
<1>1. Types /\ QueueInv /\ BidsTrue /\ Counted /\ Going /\ ReadingTrue
  BY IInvIs
<1>2. Gone(n)
  BY <1>1, DestroyFreeStack
<1>3. FlagsKept
  BY DEF DestroyFree, ioh, FlagsKept, Set
<1>4. QueueInv'
  BY <1>1, <1>3, QueueSame DEF DestroyFree, queue, history
<1>5. Going'
  BY <1>1, <1>2, <1>3, GoingNext, SureIs
<1>6. ReadingTrue'
  BY <1>1 DEF DestroyFree, ioh, ReadingTrue, Set
<1>7. Types'
  <2>1. stack' \in Seq(Activation)
    BY <1>2, StackTyped
  <2> QED BY <1>1, <2>1 DEF DestroyFree, ioh, queue, history, Types
<1> QED BY <1>4, <1>5, <1>6, <1>7 DEF IInv

\* ioh_runhandler with nothing to write keeps the invariant.
LEMMA WriteNothingKeeps ==
  ASSUME IInv, NEW n, n = Len(stack), WriteNothing
  PROVE  IInv'
<1>1. Types /\ QueueInv /\ BidsTrue /\ Counted /\ Going /\ ReadingTrue
  BY IInvIs
<1>2. Turned(n, Handler("read", stack[n].ready))
  BY <1>1, WriteNothingStack
<1>3. FlagsKept
  BY DEF WriteNothing, ioh, FlagsKept, Set
<1>4. QueueInv'
  BY <1>1, <1>3, QueueSame DEF WriteNothing, queue, history
<1>5. Going'
  BY <1>1, <1>2, <1>3, GoingNext, SureIs
<1>6. ReadingTrue'
  BY <1>1 DEF WriteNothing, ioh, ReadingTrue, Set
<1>7. Types'
  <2>1. stack' \in Seq(Activation)
    BY <1>2, StackTyped
  <2> QED BY <1>1, <2>1 DEF WriteNothing, ioh, queue, history, Types
<1> QED BY <1>4, <1>5, <1>6, <1>7 DEF IInv

\* A write that fails keeps the invariant.
LEMMA WriteFailsKeeps ==
  ASSUME IInv, NEW n, n = Len(stack), WriteFails
  PROVE  IInv'
<1>1. Types /\ QueueInv /\ BidsTrue /\ Counted /\ Going /\ ReadingTrue
  BY IInvIs
<1>2. TurnedTwo(n, Handler("writefailed", stack[n].ready), Flush(FALSE, <<>>))
  BY <1>1, WriteFailsStack
<1>3. FlagsKept
  BY DEF WriteFails, ioh, FlagsKept, Set
<1>4. QueueInv'
  BY <1>1, <1>3, QueueSame DEF WriteFails, queue, history
<1>5. Going'
  BY <1>1, <1>2, <1>3, GoingNext, SureIs
<1>6. ReadingTrue'
  BY <1>1 DEF WriteFails, ioh, ReadingTrue, Set
<1>7. Types'
  <2>1. stack' \in Seq(Activation)
    BY <1>2, StackTyped
  <2> QED BY <1>1, <2>1 DEF WriteFails, ioh, queue, history, Types, Flag
<1> QED BY <1>4, <1>5, <1>6, <1>7 DEF IInv

\* Word of a write that failed keeps the invariant.
LEMMA WriteFailedKeeps ==
  ASSUME IInv, NEW n, n = Len(stack), WriteFailed
  PROVE  IInv'
<1>1. Types /\ QueueInv /\ BidsTrue /\ Counted /\ Going /\ ReadingTrue
  BY IInvIs
<1>2. TurnedTwo(n, Handler("wrote", stack[n].ready), Cb("WriteError", None))
  BY <1>1, WriteFailedStack
<1>3. FlagsKept
  BY DEF WriteFailed, ioh, FlagsKept, Set
<1>4. QueueInv'
  BY <1>1, <1>3, QueueSame DEF WriteFailed, queue, history
<1>5. Going'
  BY <1>1, <1>2, <1>3, GoingNext, SureIs
<1>6. ReadingTrue'
  BY <1>1 DEF WriteFailed, ioh, ReadingTrue, Set
<1>7. Types'
  <2>1. stack' \in Seq(Activation)
    BY <1>2, StackTyped
  <2> QED BY <1>1, <2>1 DEF WriteFailed, ioh, queue, history, Types
<1> QED BY <1>4, <1>5, <1>6, <1>7 DEF IInv

\* The end of ioh_dequeue_byte keeps the invariant.
LEMMA DequeueEndKeeps ==
  ASSUME IInv, NEW n, n = Len(stack), DequeueEnd
  PROVE  IInv'
<1>1. Types /\ QueueInv /\ BidsTrue /\ Counted /\ Going /\ ReadingTrue
  BY IInvIs
<1>2. \E pc \in {"write", "read"} : Turned(n, Handler(pc, stack[n].ready))
  BY <1>1, DequeueEndStack
<1>3. FlagsKept
  BY DEF DequeueEnd, ioh, FlagsKept, Set
<1>4. QueueInv'
  BY <1>1, <1>3, QueueSame DEF DequeueEnd, queue, history
<1>5. Going'
  BY <1>1, <1>2, <1>3, GoingNext, SureIs
<1>6. ReadingTrue'
  BY <1>1 DEF DequeueEnd, ioh, ReadingTrue, Set
<1>7. Types'
  <2>1. stack' \in Seq(Activation)
    BY <1>2, StackTyped
  <2> QED BY <1>1, <2>1 DEF DequeueEnd, ioh, queue, history, Types
<1> QED BY <1>4, <1>5, <1>6, <1>7 DEF IInv

\* A read keeps the invariant.
LEMMA ReadSomeKeeps ==
  ASSUME IInv, NEW n, n = Len(stack), ReadSome
  PROVE  IInv'
<1>1. Types /\ QueueInv /\ BidsTrue /\ Counted /\ Going /\ ReadingTrue
  BY IInvIs
<1>2. TurnedTwo(n, Handler("rmsg", {}), Cb("ReadComplete", None))
  BY <1>1, ReadSomeStack
<1>3. FlagsKept
  BY DEF ReadSome, ioh, FlagsKept, Set
<1>4. QueueInv'
  BY <1>1, <1>3, QueueSame DEF ReadSome, queue, history
<1>5. Going'
  BY <1>1, <1>2, <1>3, GoingNext, SureIs
<1>6. ReadingTrue'
  BY <1>1 DEF ReadSome, ioh, ReadingTrue, Set
<1>7. Types'
  <2>1. stack' \in Seq(Activation)
    BY <1>2, StackTyped
  <2> QED BY <1>1, <2>1, ReadReadyIs DEF ReadSome, ioh, queue, history, Types
<1> QED BY <1>4, <1>5, <1>6, <1>7 DEF IInv

\* A read of nothing keeps the invariant.
LEMMA ReadNothingKeeps ==
  ASSUME IInv, NEW n, n = Len(stack), ReadNothing
  PROVE  IInv'
<1>1. Types /\ QueueInv /\ BidsTrue /\ Counted /\ Going /\ ReadingTrue
  BY IInvIs
<1>2. Turned(n, Handler("end", {}))
  BY <1>1, ReadNothingStack
<1>3. FlagsKept
  BY DEF ReadNothing, ioh, FlagsKept, Set
<1>4. QueueInv'
  BY <1>1, <1>3, QueueSame DEF ReadNothing, queue, history
<1>5. Going'
  BY <1>1, <1>2, <1>3, GoingNext, SureIs
<1>6. ReadingTrue'
  BY <1>1 DEF ReadNothing, ioh, ReadingTrue, Set
<1>7. Types'
  <2>1. stack' \in Seq(Activation)
    BY <1>2, StackTyped
  <2> QED BY <1>1, <2>1, ReadReadyIs DEF ReadNothing, ioh, queue, history, Types
<1> QED BY <1>4, <1>5, <1>6, <1>7 DEF IInv

\* A read at the end or in error keeps the invariant.
LEMMA ReadEndsKeeps ==
  ASSUME IInv, NEW n, n = Len(stack), NEW status \in {"ReadEOF", "ReadError"}, ReadEnds(status)
  PROVE  IInv'
<1>1. Types /\ QueueInv /\ BidsTrue /\ Counted /\ Going /\ ReadingTrue
  BY IInvIs
<1>2. TurnedTwo(n, Handler(status, {}), Cb(status, None))
  BY <1>1, ReadEndsStack
<1>3. FlagsKept
  BY DEF ReadEnds, ioh, FlagsKept, Set
<1>4. QueueInv'
  BY <1>1, <1>3, QueueSame DEF ReadEnds, queue, history
<1>5. Going'
  BY <1>1, <1>2, <1>3, GoingNext, SureIs
<1>6. ReadingTrue'
  BY <1>1 DEF ReadEnds, ioh, ReadingTrue, Set
<1>7. Types'
  <2>1. stack' \in Seq(Activation)
    BY <1>2, StackTyped
  <2> QED BY <1>1, <2>1, ReadReadyIs DEF ReadEnds, ioh, queue, history, Types
<1> QED BY <1>4, <1>5, <1>6, <1>7 DEF IInv

\* The return of what was read keeps the invariant.
LEMMA ReceivedKeeps ==
  ASSUME IInv, NEW n, n = Len(stack), Received
  PROVE  IInv'
<1>1. Types /\ QueueInv /\ BidsTrue /\ Counted /\ Going /\ ReadingTrue
  BY IInvIs
<1>2. Turned(n, Handler("end", {}))
  BY <1>1, ReceivedStack
<1>3. FlagsKept
  BY DEF Received, ioh, FlagsKept, Set
<1>4. QueueInv'
  BY <1>1, <1>3, QueueSame DEF Received, queue, history
<1>5. Going'
  BY <1>1, <1>2, <1>3, GoingNext, SureIs
<1>6. ReadingTrue'
  BY <1>1 DEF Received, ioh, ReadingTrue, Set
<1>7. Types'
  <2>1. stack' \in Seq(Activation)
    BY <1>2, StackTyped
  <2> QED BY <1>1, <2>1 DEF Received, ioh, queue, history, Types
<1> QED BY <1>4, <1>5, <1>6, <1>7 DEF IInv

\* The end of the input keeps the invariant.
LEMMA ReadEndedKeeps ==
  ASSUME IInv, NEW n, n = Len(stack), ReadEnded
  PROVE  IInv'
<1>1. Types /\ QueueInv /\ BidsTrue /\ Counted /\ Going /\ ReadingTrue
  BY IInvIs
<1>2. Turned(n, Handler(IF stack[n].pc = "ReadEOF" THEN "end" ELSE "failed", {}))
  BY <1>1, ReadEndedStack
<1>3. FlagsKept
  BY DEF ReadEnded, ioh, FlagsKept, Set
<1>4. QueueInv'
  BY <1>1, <1>3, QueueSame DEF ReadEnded, queue, history
<1>5. Going'
  BY <1>1, <1>2, <1>3, GoingNext, SureIs
<1>6. ReadingTrue'
  BY <1>1 DEF ReadEnded, ioh, ReadingTrue, Set
<1>7. Types'
  <2>1. stack' \in Seq(Activation)
    BY <1>2, StackTyped
  <2> QED BY <1>1, <2>1 DEF ReadEnded, ioh, queue, history, Types, Flag
<1> QED BY <1>4, <1>5, <1>6, <1>7 DEF IInv

\* A write keeps the invariant.
LEMMA WriteSomeKeeps ==
  ASSUME IInv, NEW n, n = Len(stack), NEW m \in 1 .. ToWrite, WriteSome(m)
  PROVE  IInv'
<1>1. Types /\ QueueInv /\ BidsTrue /\ Counted /\ Going /\ ReadingTrue
  BY IInvIs
<1>2. Turned(n, Written(m, writeq[1].buf, stack[n].ready))
  BY <1>1, WriteSomeStack
<1>3. FlagsKept
  BY DEF WriteSome, ioh, FlagsKept, Set
<1>4. QueueInv'
  BY <1>1, <1>3, QueueSame DEF WriteSome, queue, history
<1>5. Going'
  BY <1>1, <1>2, <1>3, GoingNext, SureIs
<1>6. ReadingTrue'
  BY <1>1 DEF WriteSome, ioh, ReadingTrue, Set
<1>7. Types'
  <2>1. stack' \in Seq(Activation)
    BY <1>2, StackTyped
  <2> QED BY <1>1, <2>1 DEF WriteSome, ioh, queue, history, Types
<1> QED BY <1>4, <1>5, <1>6, <1>7 DEF IInv

\* The run loop, as it calls ioh_runhandler, keeps the invariant.
LEMMA DispatchKeeps ==
  ASSUME IInv, NEW n, n = Len(stack), NEW ready \in SUBSET {"read", "write"}, Dispatch(ready)
  PROVE  IInv'
<1>1. Types /\ QueueInv /\ BidsTrue /\ Counted /\ Going /\ ReadingTrue
  BY IInvIs
<1>2. Pushed(n, Handler(IF "write" \in ready \ Masked /\ ~InWrite THEN "write" ELSE "read",
                        ready \ Masked))
  BY <1>1, DispatchStack
<1>3. FlagsKept
  BY DEF Dispatch, ioh, FlagsKept, Set
<1>4. QueueInv'
  BY <1>1, <1>3, QueueSame DEF Dispatch, queue, history
<1>5. Going'
  BY <1>1, <1>2, <1>3, GoingNext, SureIs
<1>6. ReadingTrue'
  BY <1>1 DEF Dispatch, ioh, ReadingTrue, Set, Masked
<1>7. Types'
  <2>1. stack' \in Seq(Activation)
    BY <1>2, StackTyped
  <2> QED BY <1>1, <2>1, SpendIs DEF Dispatch, ioh, queue, history, Types
<1> QED BY <1>4, <1>5, <1>6, <1>7 DEF IInv

\* ioh_close, before its flush, keeps the invariant.
LEMMA CloseBeginKeeps ==
  ASSUME IInv, NEW n, n = Len(stack), CloseBegin
  PROVE  IInv'
<1>1. Types /\ QueueInv /\ BidsTrue /\ Counted /\ Going /\ ReadingTrue
  BY IInvIs
<1>2. /\ n \in DOMAIN stack
      /\ \/ Gone(n)
         \/ /\ TurnedTwo(n, Close("queue", TRUE), Flush(FALSE, <<>>))
            /\ ~PutOff /\ "destroying" \notin intflags
             /\ ("closing" \notin intflags \/ stack[n].abort)
         \/ /\ Turned(n, Close("queue", FALSE))
            /\ ~PutOff /\ "destroying" \notin intflags
             /\ ("closing" \notin intflags \/ stack[n].abort)
  BY <1>1, CloseBeginStack
<1>9. Top = stack[n] /\ stack[n].abort \in BOOLEAN
  <2>1. Running("close")
    BY DEF CloseBegin, At
  <2>2. Top = stack[n] /\ stack[n] \in Activation /\ stack[n].op = "close"
    BY <1>1, <2>1, RunningTop
  <2> QED BY <2>2, Fields
<1>8. ~PutOff /\ ("closing" \notin intflags \/ stack[n].abort) /\ "destroying" \notin intflags
        => "closing" \in intflags'
  BY <1>9 DEF CloseBegin, Set
<1>3. FlagsKept
  BY DEF CloseBegin, ioh, FlagsKept, Set
<1>4. QueueInv'
  BY <1>1, <1>3, QueueSame DEF CloseBegin, queue, history
<1>5. Going'
  BY <1>1, <1>2, <1>3, <1>8, GoingNext, SureIs
<1>6. ReadingTrue'
  BY <1>1 DEF CloseBegin, ioh, ReadingTrue, Set
<1>7. Types'
  <2>1. stack' \in Seq(Activation)
    BY <1>2, StackTyped
  <2> QED BY <1>1, <2>1, <1>9 DEF CloseBegin, ioh, queue, history, Types, Flag
<1> QED BY <1>4, <1>5, <1>6, <1>7 DEF IInv

\* bk_ioh_destroy, before its flush, keeps the invariant.
LEMMA DestroyBeginKeeps ==
  ASSUME IInv, NEW n, n = Len(stack), DestroyBegin
  PROVE  IInv'
<1>1. Types /\ QueueInv /\ BidsTrue /\ Counted /\ Going /\ ReadingTrue
  BY IInvIs
<1>2. /\ n \in DOMAIN stack /\ stack[n].op = "destroy"
      /\ \/ Gone(n)
         \/ TurnedTwo(n, Destroy("tell"), Flush(FALSE, <<>>))
  BY <1>1, DestroyBeginStack
<1>8. "shutin" \in intflags'
  BY <1>2, TopSure DEF DestroyBegin, Sure
<1>3. FlagsKept
  BY DEF DestroyBegin, ioh, FlagsKept, Set
<1>4. QueueInv'
  BY <1>1, <1>3, QueueSame DEF DestroyBegin, queue, history
<1>5. Going'
  BY <1>1, <1>2, <1>3, <1>8, GoingNext, SureIs
<1>6. ReadingTrue'
  BY <1>8 DEF ReadingTrue, Set
<1>7. Types'
  <2>1. stack' \in Seq(Activation)
    BY <1>2, StackTyped
  <2> QED BY <1>1, <2>1 DEF DestroyBegin, ioh, queue, history, Types, Flag
<1> QED BY <1>4, <1>5, <1>6, <1>7 DEF IInv

-----------------------------------------------------------------------------
(* and those that do not                                                   *)

\* bk_ioh_write keeps the invariant.
LEMMA WriteKeeps ==
  ASSUME IInv, NEW b \in Buf, NEW bypass, Write(b, bypass)
  PROVE  IInv'
<1>1. Types /\ QueueInv /\ BidsTrue /\ Counted /\ Going /\ ReadingTrue
  BY IInvIs
<1>2. QueueInv' /\ writeq' \in Seq(Bid) /\ order' \in Seq(Buf)
  BY <1>1, QueueData DEF Write, Set, ioh
<1>3. queuelen' \in Nat
  BY <1>2 DEF QueueInv, Counted, Sums
<1>4. Going'
  BY <1>1 DEF Write, ioh, Going
<1>5. ReadingTrue'
  BY <1>1 DEF Write, ioh, ReadingTrue, Set, WriteWanted
<1>6. Types'
  BY <1>1, <1>2, <1>3 DEF Write, ioh, Types, WriteWanted
<1> QED BY <1>2, <1>4, <1>5, <1>6 DEF IInv

\* One party less throttles, and reading is turned on when that was the last.
LEMMA FewerIs ==
  ASSUME Types
  PROVE  /\ Fewer \in 0 .. MaxThrottle
         /\ TurnsOn <=> Fewer = 0
<1>1. throttle_cnt \in Nat /\ throttle_cnt <= MaxThrottle /\ MaxThrottle \in Nat
  BY BoundsAre DEF Types
<1>2. Fewer = IF throttle_cnt - 1 > 0 THEN throttle_cnt - 1 ELSE 0
  BY <1>1, LargerIs DEF Fewer
<1> QED BY <1>1, <1>2 DEF TurnsOn

\* bk_ioh_readallowed keeps the invariant.
LEMMA ReadallowedKeeps ==
  ASSUME IInv, NEW allowed \in BOOLEAN, Readallowed(allowed)
  PROVE  IInv'
<1>1. Types /\ QueueInv /\ BidsTrue /\ Counted /\ Going /\ ReadingTrue
  BY IInvIs
<1>2. QueueInv'
  <2>1. FlagsKept
    BY DEF FlagsKept, Set, Readallowed
  <2> QED BY <1>1, <2>1, QueueSame DEF Readallowed, queue, history
<1>3. Going'
  BY <1>1 DEF Readallowed, Going
<1>4. ReadingTrue' /\ throttle_cnt' \in 0 .. MaxThrottle
  <2>1. CASE allowed
    <3>1. /\ throttle_cnt' = Fewer
          /\ want' = IF TurnsOn THEN want \cup {"read"} ELSE want \ {"read"}
      BY <2>1 DEF Readallowed
    <3> QED BY <1>1, <3>1, FewerIs DEF ReadingTrue
  <2>2. CASE ~allowed
    <3>1. throttle_cnt < MaxThrottle /\ throttle_cnt' = throttle_cnt + 1 /\ want' = want \ {"read"}
      BY <2>2 DEF Readallowed
    <3>2. throttle_cnt \in Nat /\ MaxThrottle \in Nat
      BY <1>1, BoundsAre DEF Types
    <3>3. throttle_cnt' # 0 /\ throttle_cnt' \in 0 .. MaxThrottle
      BY <3>1, <3>2
    <3> QED BY <3>1, <3>3 DEF ReadingTrue
  <2> QED BY <2>1, <2>2
<1>5. Types'
  BY <1>1, <1>4, SpendIs DEF Readallowed, queue, history, Types
<1> QED BY <1>2, <1>3, <1>4, <1>5 DEF IInv

\* What is told is of the type of what was.
LEMMA ToldTyped ==
  ASSUME Types, NEW s \in {"WriteComplete", "WriteAborted"}, NEW b, Tell(s, b)
  PROVE  told' \in [Buf -> Seq({"WriteComplete", "WriteAborted"})]
<1> DEFINE S == {"WriteComplete", "WriteAborted"}
<1>1. told \in [Buf -> Seq(S)] /\ s \in S
  BY DEF Types
<1> HIDE DEF S
<1>2. \A c \in Buf : Append(told[c], s) \in Seq(S)
  BY <1>1, AppendIs
<1>3. told' \in [Buf -> Seq(S)]
  BY <1>1, <1>2 DEF Tell
<1> QED BY <1>3 DEF S

\* ioh_flush_queue, with a bid in hand, keeps the invariant.
LEMMA FlushNextKeeps ==
  ASSUME IInv, NEW n, n = Len(stack), FlushNext
  PROVE  IInv'
<1>1. Types /\ QueueInv /\ BidsTrue /\ Counted /\ Going /\ ReadingTrue
  BY IInvIs
<1>2. /\ writeq # <<>> /\ stack[n].op = "flush" /\ n \in DOMAIN stack /\ writeq[1] \in Bid
      /\ IF IsData(writeq[1])
         THEN Pushed(n, Cb("WriteAborted", writeq[1].buf))
         ELSE Turned(n, Flush(stack[n].collect, Append(stack[n].cmds, writeq[1].cmd)))
  BY <1>1, FlushNextStack
<1>3. FlagsKept
  BY DEF FlushNext, ioh, FlagsKept, Set
<1>4. Head(writeq) = writeq[1] /\ 1 \in DOMAIN writeq
  BY <1>1, <1>2, TailIs DEF Types
<1>5. Without(1) /\ Counted'
  BY <1>1, <1>2, <1>4, TailWithout DEF FlushNext
<1>6. IF IsData(writeq[1]) THEN Tell("WriteAborted", writeq[1].buf) ELSE told' = told
  BY <1>4 DEF FlushNext
<1>7. QueueInv'
  BY <1>1, <1>3, <1>5, <1>6, QueueWithout DEF FlushNext, history
<1>8. Going'
  <2>1. CASE IsData(writeq[1])
    BY <1>1, <1>2, <1>3, <2>1, GoingNext, SureIs
  <2>2. CASE ~IsData(writeq[1])
    <3> DEFINE f == Flush(stack[n].collect, Append(stack[n].cmds, writeq[1].cmd))
    <3>1. Sure(f, intflags')
      <4>1. f.op = "flush" /\ f.cmds = Append(stack[n].cmds, writeq[1].cmd)
        BY DEF Flush
      <4> HIDE DEF f
      <4> SUFFICES ASSUME "Close" \in Range(Append(stack[n].cmds, writeq[1].cmd))
                   PROVE  {"closing", "shutin"} \subseteq intflags'
        BY <4>1 DEF Sure
      <4>2. intflags' = intflags
        BY DEF FlushNext, ioh
      <4>3. CASE writeq[1].cmd = "Close"
        BY <1>1, <1>4, <2>2, <4>2, <4>3 DEF QueueInv, Commands, CommandOf
      <4>4. CASE writeq[1].cmd # "Close"
        <5>1. /\ writeq[1].cmd \in {"Shutdown", "Close"}
              /\ stack[n].cmds \in Seq({"Shutdown", "Close"})
          <6>1. stack[n] \in Activation
            BY <1>1, <1>2 DEF Types
          <6> QED BY <1>2, <2>2, <6>1, Fields DEF Bid, IsData
        <5> DEFINE s == stack[n].cmds
                   c == writeq[1].cmd
        <5>2. /\ Len(Append(s, c)) = Len(s) + 1 /\ Len(s) \in Nat
              /\ \A i \in 1 .. Len(s) : Append(s, c)[i] = s[i]
              /\ Append(s, c)[Len(s) + 1] = c /\ DOMAIN Append(s, c) = 1 .. Len(s) + 1
              /\ DOMAIN s = 1 .. Len(s)
          BY <5>1, AppendIs
        <5> HIDE DEF s, c
        <5>3. PICK i \in DOMAIN Append(s, c) : Append(s, c)[i] = "Close"
          BY DEF Range, s, c
        <5>4. i # Len(s) + 1
          BY <4>4, <5>2, <5>3 DEF c
        <5>5. i \in DOMAIN s /\ s[i] = "Close"
          BY <5>2, <5>3, <5>4
        <5>6. "Close" \in Range(s)
          BY <5>5 DEF Range
        <5>7. Sure(stack[n], intflags)
          BY <1>2, TopSure
        <5> QED BY <1>2, <4>2, <5>6, <5>7 DEF Sure, s
      <4> QED BY <4>3, <4>4
    <3> HIDE DEF f
    <3> QED BY <1>1, <1>2, <1>3, <2>2, <3>1, GoingNext DEF f
  <2> QED BY <2>1, <2>2
<1>9. ReadingTrue'
  BY <1>1 DEF FlushNext, ioh, ReadingTrue, Set
<1>10. Types'
  <2>1. stack' \in Seq(Activation)
    BY <1>2, StackTyped
  <2>2. writeq' \in Seq(Bid) /\ queuelen' \in Nat
    BY <1>5 DEF Without, Counted, Sums
  <2>3. told' \in [Buf -> Seq({"WriteComplete", "WriteAborted"})]
    BY <1>1, <1>6, ToldTyped DEF Types
  <2> QED BY <1>1, <2>1, <2>2, <2>3 DEF FlushNext, ioh, history, Types
<1> QED BY <1>7, <1>8, <1>9, <1>10 DEF IInv

\* ioh_dequeue_byte, with a bid in hand, keeps the invariant.
LEMMA DequeueByteKeeps ==
  ASSUME IInv, NEW n, n = Len(stack), DequeueByte
  PROVE  IInv'
<1>1. Types /\ QueueInv /\ BidsTrue /\ Counted /\ Going /\ ReadingTrue
  BY IInvIs
<1>2. /\ n \in DOMAIN stack /\ stack[n] \in Activation /\ stack[n].op = "dequeue" /\ n >= 1
      /\ stack[n].bytes > 0
      /\ \/ /\ wild' = TRUE /\ UNCHANGED <<stack, queue, told>>
         \/ /\ wild' = wild
            /\ \E i \in DOMAIN writeq :
                 /\ IsData(writeq[i])
                 /\ \/ /\ stack[n].bytes < writeq[i].inuse
                       /\ writeq' = [writeq EXCEPT ![i].inuse = @ - stack[n].bytes]
                       /\ queuelen' = queuelen - stack[n].bytes
                       /\ told' = told
                       /\ Turned(n, Written(0, None, stack[n].ready))
                    \/ /\ writeq' = RemoveAt(writeq, i)
                       /\ queuelen' = queuelen - writeq[i].inuse
                       /\ Tell("WriteComplete", writeq[i].buf)
                       /\ \E m \in Nat :
                            TurnedTwo(n,
                              Written(m, IF i < Len(writeq) THEN writeq[i + 1].buf ELSE None,
                                      stack[n].ready),
                              Cb("WriteComplete", writeq[i].buf))
  <2>1. n \in DOMAIN stack => stack[n] \in Activation
    BY <1>1 DEF Types
  <2> QED BY <1>1, <2>1, DequeueByteStack
<1>3. FlagsKept
  BY DEF DequeueByte, ioh, FlagsKept, Set
<1>4. stack[n].bytes \in Nat
  BY <1>2, Fields
<1>5. ReadingTrue'
  BY <1>1 DEF DequeueByte, ReadingTrue, Set
<1>6. ASSUME QueueInv', Going', stack' \in Seq(Activation), writeq' \in Seq(Bid), wild' \in BOOLEAN,
             told' \in [Buf -> Seq({"WriteComplete", "WriteAborted"})]
      PROVE  IInv'
  <2>1. queuelen' \in Nat
    BY <1>6 DEF QueueInv, Counted, Sums
  <2>2. Types'
    BY <1>1, <1>6, <2>1 DEF DequeueByte, history, Types
  <2> QED BY <1>5, <1>6, <2>2 DEF IInv
<1>7. CASE wild' = TRUE /\ UNCHANGED <<stack, queue, told>>
  <2>1. QueueInv'
    BY <1>1, <1>3, <1>7, QueueSame DEF queue, DequeueByte, history
  <2>2. Going'
    BY <1>1, <1>7 DEF Going, DequeueByte
  <2>3. /\ stack' \in Seq(Activation) /\ writeq' \in Seq(Bid) /\ wild' \in BOOLEAN
        /\ told' \in [Buf -> Seq({"WriteComplete", "WriteAborted"})]
    BY <1>1, <1>7 DEF Types, queue
  <2> QED BY <1>6, <2>1, <2>2, <2>3
<1>8. wild = wild' => wild' \in BOOLEAN
  BY <1>1 DEF Types
<1>9. ASSUME wild' = wild, NEW i \in DOMAIN writeq, IsData(writeq[i]),
             stack[n].bytes < writeq[i].inuse,
             writeq' = [writeq EXCEPT ![i].inuse = @ - stack[n].bytes],
             queuelen' = queuelen - stack[n].bytes, told' = told,
             Turned(n, Written(0, None, stack[n].ready))
      PROVE  IInv'
  <2>1. QueueInv' /\ writeq' \in Seq(Bid)
    BY <1>1, <1>3, <1>4, <1>9, QueuePart DEF DequeueByte, history
  <2>2. Going'
    BY <1>1, <1>3, <1>9, GoingNext, SureIs
  <2>3. stack' \in Seq(Activation) /\ told' \in [Buf -> Seq({"WriteComplete", "WriteAborted"})]
    BY <1>1, <1>9, StackTyped DEF Types
  <2> QED BY <1>6, <1>8, <1>9, <2>1, <2>2, <2>3
<1>10. ASSUME wild' = wild, NEW i \in DOMAIN writeq, IsData(writeq[i]),
             writeq' = RemoveAt(writeq, i), queuelen' = queuelen - writeq[i].inuse,
             Tell("WriteComplete", writeq[i].buf), NEW m, NEW x,
             TurnedTwo(n, Written(m, x, stack[n].ready), Cb("WriteComplete", writeq[i].buf))
      PROVE  IInv'
  <2>1. Without(i) /\ Counted'
    BY <1>1, <1>10, RemovedWithout
  <2>2. QueueInv'
    BY <1>1, <1>3, <1>10, <2>1, QueueWithout DEF DequeueByte, history
  <2>3. Going'
    BY <1>1, <1>3, <1>10, GoingNext, SureIs
  <2>4. /\ stack' \in Seq(Activation) /\ told' \in [Buf -> Seq({"WriteComplete", "WriteAborted"})]
        /\ writeq' \in Seq(Bid)
    BY <1>1, <1>10, <2>1, StackTyped, ToldTyped DEF Without
  <2> QED BY <1>6, <1>8, <1>10, <2>2, <2>3, <2>4
<1> QED BY <1>2, <1>7, <1>9, <1>10

\* The end of bk_ioh_flush keeps the invariant.
LEMMA FlushEndKeeps ==
  ASSUME IInv, NEW n, n = Len(stack), FlushEnd
  PROVE  IInv'
<1>1. Types /\ QueueInv /\ BidsTrue /\ Counted /\ Going /\ ReadingTrue
  BY IInvIs
<1>2. /\ n \in DOMAIN stack /\ stack[n].op = "flush"
      /\ Gone(n) \/ (Turned(n, Destroy("begin")) /\ "Close" \in Range(stack[n].cmds))
  BY <1>1, FlushEndStack
<1>3. PICK cmds : intflags' = Shuts(intflags, cmds)
  BY DEF FlushEnd
<1>4. FlagsKept
  BY <1>3, ShutsIs DEF FlagsKept, Set
<1>5. QueueInv'
  BY <1>1, <1>4, QueueSame DEF FlushEnd, queue, history
<1>6. Going'
  <2>1. Sure(stack[n], intflags)
    BY <1>2, TopSure
  <2>2. Turned(n, Destroy("begin")) => "shutin" \in intflags'
    BY <1>2, <1>4, <2>1 DEF Sure, FlagsKept, Gone, Turned, Grown
  <2> QED BY <1>1, <1>2, <1>4, <2>2, GoingNext, SureIs
<1>7. ReadingTrue'
  BY <1>1, <1>3, ShutsIs DEF FlushEnd, ReadingTrue, Set
<1>8. Types'
  <2>1. stack' \in Seq(Activation) /\ intflags' \subseteq Flag
    BY <1>1, <1>2, <1>3, StackTyped, ShutsIs DEF Types
  <2> QED BY <1>1, <2>1 DEF FlushEnd, queue, history, Types
<1> QED BY <1>5, <1>6, <1>7, <1>8 DEF IInv

\* Types and who goes on, for the steps that execute commands
LEMMA ExecuteKeeps ==
  ASSUME IInv, NEW n, n = Len(stack), FlagsKept, QueueInv', writeq' \in Seq(Bid), ReadingTrue',
         intflags' \subseteq Flag, want' \subseteq {"read", "write"}, readq' \in BOOLEAN,
         UNCHANGED <<deferred, throttle_cnt, freed, wild, queuelen, history, told, left, reads>>,
         \/ Gone(n)
         \/ \E abort : Turned(n, Close("begin", abort))
         \/ Turned(n, Destroy("begin")) /\ "shutin" \in intflags'
  PROVE  IInv'
<1>1. Types /\ Going
  BY IInvIs
<1>2. Going'
  BY <1>1, GoingNext, SureIs
<1>3. stack' \in Seq(Activation)
  BY StackTyped
<1>4. Types'
  BY <1>1, <1>3 DEF Types, history
<1> QED BY <1>2, <1>4 DEF IInv

\* With a close on the queue the ioh reads no more.
LEMMA CloseWasCalled ==
  ASSUME IInv, FlagsKept, \E i \in DOMAIN writeq : writeq[i].cmd = "Close" /\ ~IsData(writeq[i])
  PROVE  "shutin" \in intflags'
BY DEF IInv, QueueInv, Commands, CommandOf, FlagsKept

\* The end of ioh_runhandler keeps the invariant.
LEMMA HandlerEndKeeps ==
  ASSUME IInv, NEW n, n = Len(stack), HandlerEnd
  PROVE  IInv'
<1>1. Types /\ QueueInv /\ BidsTrue /\ Counted /\ Going /\ ReadingTrue
  BY IInvIs
<1>2. /\ n \in DOMAIN stack
      /\ \/ Turned(n, Close("begin", deferred))
         \/ Turned(n, Close("begin", TRUE))
         \/ Gone(n)
         \/ /\ Turned(n, Destroy("begin"))
            /\ \E i \in DOMAIN writeq : writeq[i].cmd = "Close" /\ ~IsData(writeq[i])
  BY <1>1, HandlerEndStack
<1>3. \/ intflags' = intflags \ {"closepending"} /\ writeq' = writeq
      \/ \E cmds : intflags' = Shuts(intflags, cmds) /\ writeq' = Behind(writeq)
  BY DEF HandlerEnd
<1>4. FlagsKept
  BY <1>3, ShutsIs DEF FlagsKept, Set
<1>5. QueueInv' /\ writeq' \in Seq(Bid)
  <2>1. UNCHANGED <<queuelen, order, told>>
    BY DEF HandlerEnd, history
  <2>2. CASE writeq' = writeq
    BY <1>1, <1>4, <2>1, <2>2, QueueSame DEF Types
  <2>3. CASE writeq' = Behind(writeq)
    BY <1>1, <1>4, <2>1, <2>3, QueueBehind
  <2> QED BY <1>3, <2>2, <2>3
<1>6. ReadingTrue'
  BY <1>1, <1>3, ShutsIs DEF HandlerEnd, ReadingTrue, Set
<1>7. intflags' \subseteq Flag
  BY <1>1, <1>3, ShutsIs DEF Types
<1>8. /\ want' \subseteq {"read", "write"} /\ readq' \in BOOLEAN
      /\ UNCHANGED <<deferred, throttle_cnt, freed, wild, queuelen, history, told, left, reads>>
  BY <1>1 DEF HandlerEnd, Types
<1> QED BY <1>2, <1>4, <1>5, <1>6, <1>7, <1>8, ExecuteKeeps, CloseWasCalled

\* The command of ioh_close keeps the invariant.
LEMMA CloseQueuesKeeps ==
  ASSUME IInv, NEW n, n = Len(stack), CloseQueues
  PROVE  IInv'
<1>1. Types /\ QueueInv /\ BidsTrue /\ Counted /\ Going /\ ReadingTrue
  BY IInvIs
<1>2. /\ n \in DOMAIN stack /\ stack[n].op = "close" /\ stack[n].pc = "queue"
      /\ Turned(n, Destroy("begin")) \/ Gone(n)
  BY <1>1, CloseQueuesStack
<1>3. "closing" \in intflags
  <2>1. Sure(stack[n], intflags)
    BY <1>2, TopSure
  <2> QED BY <1>2, <2>1 DEF Sure
<1>4. PICK cmds : intflags' = Shuts(intflags \cup {"shutin", "pend"}, cmds)
  BY DEF CloseQueues
<1>5. /\ {"closing", "shutin"} \subseteq intflags'
      /\ intflags' \cap {"closing", "pend", "shutout"} # {}
      /\ FlagsKept
  BY <1>3, <1>4, ShutsIs, SMTT(40) DEF FlagsKept, Set
<1>6. QueueInv' /\ writeq' \in Seq(Bid)
  <2> DEFINE q == Append(writeq, Cmd("Close"))
  <2>1. UNCHANGED <<queuelen, order, told>> /\ writeq' = Behind(q)
    BY DEF CloseQueues, history
  <2>2. CmdFlags("Close")
    BY <1>5 DEF CmdFlags
  <2> HIDE DEF q
  <2> QED BY <1>1, <1>5, <2>1, <2>2, QueueBehind DEF q
<1>7. ReadingTrue'
  BY <1>5 DEF ReadingTrue, Set
<1>8. intflags' \subseteq Flag
  <2>1. intflags \cup {"shutin", "pend"} \subseteq Flag
    BY <1>1 DEF Types, Flag
  <2> QED BY <1>4, <2>1, ShutsIs
<1>9. /\ want' \subseteq {"read", "write"} /\ readq' \in BOOLEAN
      /\ UNCHANGED <<deferred, throttle_cnt, freed, wild, queuelen, history, told, left, reads>>
  BY <1>1 DEF CloseQueues, Types
<1> QED BY <1>2, <1>5, <1>6, <1>7, <1>8, <1>9, ExecuteKeeps

\* The command of bk_ioh_shutdown keeps the invariant.
LEMMA ShutdownQueuesKeeps ==
  ASSUME IInv, NEW n, n = Len(stack), ShutdownQueues
  PROVE  IInv'
<1>1. Types /\ QueueInv /\ BidsTrue /\ Counted /\ Going /\ ReadingTrue
  BY IInvIs
<1>2. /\ n \in DOMAIN stack /\ stack[n].op = "shutdown"
      /\ \/ Gone(n)
         \/ Turned(n, Close("begin", deferred))
         \/ /\ Turned(n, Destroy("begin"))
            /\ \E i \in DOMAIN writeq : writeq[i].cmd = "Close" /\ ~IsData(writeq[i])
  BY <1>1, ShutdownQueuesStack
<1> DEFINE how == Top.how
           q == IF "write" \in how THEN Append(writeq, Cmd("Shutdown")) ELSE writeq
           cmds == CmdsOf(Leading(q))
           s == Shuts(intflags, cmds)
           r == s \cup (IF "read" \in how THEN {"shutin"} ELSE {})
                  \cup (IF "write" \notin how THEN {}
                        ELSE IF Behind(q) = <<>> THEN {"shutout"} ELSE {"pend"})
<1>3. /\ writeq' = Behind(q)
      /\ readq' = (readq /\ "read" \notin how)
      /\ \/ "Close" \in cmds /\ intflags' = s /\ want' = want
         \/ /\ "Close" \notin cmds /\ intflags' = r \ {"closepending"}
            /\ want' = (IF "write" \in how /\ Behind(q) # <<>> THEN want \cup {"write"} ELSE want)
                       \ (IF r \cap {"shutout", "errout"} # {} THEN {"write"} ELSE {})
      /\ UNCHANGED <<deferred, throttle_cnt, freed, wild, queuelen, history, told, left, reads>>
  BY DEF ShutdownQueues
<1>4. intflags \subseteq Flag /\ want \subseteq {"read", "write"} /\ readq \in BOOLEAN
  BY <1>1 DEF Types
<1>5. q = writeq \/ (q = Append(writeq, Cmd("Shutdown")) /\ "write" \in how)
  OBVIOUS
<1>6. Behind(q) # <<>> => "Close" \notin cmds
  <2>1. Queues(q)
    BY <1>5 DEF Queues
  <2> HIDE DEF q
  <2>2. Behind(q) = <<>> \/ cmds = {}
    BY <1>1, <2>1, Executes
  <2> QED BY <2>2
<1> HIDE DEF how, q, cmds, s, r
<1>8. /\ s \subseteq Flag
      /\ \A f \in {"closing", "shutin", "errin"} : f \in intflags => f \in s
      /\ Set({"closing", "pend", "shutout"}) => s \cap {"closing", "pend", "shutout"} # {}
  BY <1>4, ShutsIs DEF Set, s
<1>7. /\ r \subseteq Flag
      /\ \A f \in {"closing", "shutin", "errin"} : f \in intflags => f \in r
      /\ Set({"closing", "pend", "shutout"}) => r \cap {"closing", "pend", "shutout"} # {}
      /\ "write" \in how => r \cap {"closing", "pend", "shutout"} # {}
  <2>1. /\ s \subseteq r
        /\ \A f \in r : f \in s \/ f \in {"shutin", "shutout", "pend"}
        /\ "write" \in how => "shutout" \in r \/ "pend" \in r
    BY DEF r
  <2>2. r \subseteq Flag
    BY <1>8, <2>1 DEF Flag
  <2> QED BY <1>8, <2>1, <2>2
<1>9. FlagsKept /\ intflags' \subseteq Flag
  BY <1>3, <1>7, <1>8 DEF FlagsKept
<1>10. QueueInv' /\ writeq' \in Seq(Bid)
  <2>1. q # writeq /\ Behind(q) # <<>> => CmdFlags("Shutdown")
    <3> SUFFICES ASSUME q # writeq, Behind(q) # <<>> PROVE CmdFlags("Shutdown")
      OBVIOUS
    <3>1. "write" \in how /\ "Close" \notin cmds
      BY <1>5, <1>6
    <3> QED BY <1>3, <1>7, <3>1 DEF CmdFlags
  <2>2. UNCHANGED <<queuelen, order, told>> /\ writeq' = Behind(q)
    BY <1>3 DEF history
  <2>3. \/ q = writeq
        \/ \E c \in {"Shutdown", "Close"} :
             q = Append(writeq, Cmd(c)) /\ (Behind(q) # <<>> => CmdFlags(c))
    <3>1. CASE q = writeq
      BY <3>1
    <3>2. CASE q # writeq
      BY <1>5, <2>1, <3>2
    <3> QED BY <3>1, <3>2
  <2> QED BY <1>1, <1>9, <2>2, <2>3, QueueBehind
<1>11. ReadingTrue'
  <2>1. "read" \in want' <=> "read" \in want
    BY <1>3
  <2>2. throttle_cnt' = throttle_cnt
    BY <1>3
  <2>3. Set({"shutin", "errin"}) => Set({"shutin", "errin"})'
    BY <1>3, <1>7, <1>8 DEF Set
  <2> QED BY <1>1, <2>1, <2>2, <2>3 DEF ReadingTrue
<1>12. want' \subseteq {"read", "write"} /\ readq' \in BOOLEAN
  BY <1>3, <1>4
<1> QED BY <1>2, <1>3, <1>9, <1>10, <1>11, <1>12, ExecuteKeeps, CloseWasCalled

-----------------------------------------------------------------------------
(* The theorems                                                            *)

\* The invariant holds initially.
LEMMA InitIInv == Init => IInv
<1> SUFFICES ASSUME Init PROVE IInv
  OBVIOUS
<1>1. Types
  <2>1. {QueueMax, Budget, MaxReads, MaxThrottle} \subseteq Nat
    BY BoundsAre
  <2>2. told \in [Buf -> Seq({"WriteComplete", "WriteAborted"})]
    BY DEF Init
  <2>3. left \in 0 .. Budget /\ reads \in 0 .. MaxReads /\ throttle_cnt \in 0 .. MaxThrottle
    BY <2>1 DEF Init
  <2>4. stack \in Seq(Activation) /\ writeq \in Seq(Bid) /\ order \in Seq(Buf)
    BY DEF Init
  <2>5. /\ intflags \subseteq Flag /\ deferred \in BOOLEAN /\ queuelen \in Nat
        /\ {readq, freed, wild} \subseteq BOOLEAN /\ want \subseteq {"read", "write"}
    BY DEF Init
  <2> QED BY <2>2, <2>3, <2>4, <2>5 DEF Types
<1>2. Going
  BY DEF Init, Going
<1>3. ReadingTrue
  BY DEF Init, ReadingTrue
<1>4. BidsTrue /\ Apart /\ Commands
  BY DEF Init, BidsTrue, Apart, Commands
<1>5. Range(order) = {}
  BY DEF Init, Range
<1>6. Fresh /\ Accounted
  BY <1>5 DEF Init, Fresh, Accounted
<1>7. Counted
  BY SumsEmpty DEF Init, Counted
<1> QED BY <1>1, <1>2, <1>3, <1>4, <1>6, <1>7 DEF IInv, QueueInv

\* Every step keeps the invariant.
LEMMA NextIInv == IInv /\ [Next]_vars => IInv'
<1> SUFFICES ASSUME IInv, [Next]_vars PROVE IInv'
  OBVIOUS
<1> DEFINE n == Len(stack)
<1>1. CASE Program
  <2>1. ASSUME NEW b \in Buf, NEW bypass \in BOOLEAN, Write(b, bypass) PROVE IInv'
    BY <2>1, WriteKeeps
  <2>2. ASSUME NEW allowed \in BOOLEAN, Readallowed(allowed) PROVE IInv'
    BY <2>2, ReadallowedKeeps
  <2>3. ASSUME NEW how \in SUBSET {"read", "write"}, FlushCall(how) PROVE IInv'
    BY <2>3, FlushCallKeeps
  <2>4. ASSUME NEW how \in SUBSET {"read", "write"}, ShutdownCall(how) PROVE IInv'
    BY <2>4, ShutdownCallKeeps
  <2>5. ASSUME NEW abort \in BOOLEAN, CloseCall(abort) PROVE IInv'
    BY <2>5, CloseCallKeeps
  <2>6. CASE RunDestroy
    BY <2>6, RunDestroyKeeps
  <2> QED BY <1>1, <2>1, <2>2, <2>3, <2>4, <2>5, <2>6 DEF Program
<1>2. CASE CallbackReturns
  BY <1>2, CallbackReturnsKeeps
<1>3. ASSUME NEW ready \in SUBSET {"read", "write"}, Dispatch(ready) PROVE IInv'
  BY <1>3, DispatchKeeps
<1>4. CASE Internal
  <2>1. ASSUME NEW m \in 1 .. ToWrite, WriteSome(m) PROVE IInv'
    BY <2>1, WriteSomeKeeps
  <2>2. ASSUME NEW status \in {"ReadEOF", "ReadError"}, ReadEnds(status) PROVE IInv'
    BY <2>2, ReadEndsKeeps
  <2>3. FlushNext => IInv'
    BY FlushNextKeeps
  <2>4. FlushEnd => IInv'
    BY FlushEndKeeps
  <2>5. ShutdownQueues => IInv'
    BY ShutdownQueuesKeeps
  <2>6. CloseBegin => IInv'
    BY CloseBeginKeeps
  <2>7. CloseQueues => IInv'
    BY CloseQueuesKeeps
  <2>8. DestroyBegin => IInv'
    BY DestroyBeginKeeps
  <2>9. DestroyTell => IInv'
    BY DestroyTellKeeps
  <2>10. DestroyFree => IInv'
    BY DestroyFreeKeeps
  <2>11. WriteNothing => IInv'
    BY WriteNothingKeeps
  <2>12. WriteFails => IInv'
    BY WriteFailsKeeps
  <2>13. WriteFailed => IInv'
    BY WriteFailedKeeps
  <2>14. DequeueByte => IInv'
    BY DequeueByteKeeps
  <2>15. DequeueEnd => IInv'
    BY DequeueEndKeeps
  <2>16. ReadSome => IInv'
    BY ReadSomeKeeps
  <2>17. ReadNothing => IInv'
    BY ReadNothingKeeps
  <2>18. Received => IInv'
    BY ReceivedKeeps
  <2>19. ReadEnded => IInv'
    BY ReadEndedKeeps
  <2>20. HandlerEnd => IInv'
    BY HandlerEndKeeps
  <2> QED BY <1>4, <2>1, <2>2, <2>3, <2>4, <2>5, <2>6, <2>7, <2>8, <2>9, <2>10, <2>11, <2>12,
             <2>13, <2>14, <2>15, <2>16, <2>17, <2>18, <2>19, <2>20 DEF Internal
<1>5. CASE UNCHANGED vars
  <2>2. Types'
    BY <1>5 DEF IInv, vars, ioh, queue, history, Types
  <2>3. Going'
    BY <1>5 DEF IInv, vars, ioh, Going
  <2>4. ReadingTrue'
    BY <1>5 DEF IInv, vars, ioh, ReadingTrue, Set
  <2>5. QueueInv'
    <3>1. FlagsKept /\ UNCHANGED <<writeq, queuelen, order, told>> /\ QueueInv
      BY <1>5 DEF IInv, vars, ioh, queue, history, FlagsKept, Set
    <3> QED BY <3>1, QueueSame
  <2> QED BY <2>2, <2>3, <2>4, <2>5 DEF IInv
<1> QED BY <1>1, <1>2, <1>3, <1>4, <1>5 DEF Next

\* The invariant holds of every state that the ioh reaches, whatever the program does.
THEOREM Inductive == Spec => []IInv
BY InitIInv, NextIInv, PTL DEF Spec

\* Every variable of the ioh keeps its type: no length is below zero and no flag is
\* made up (the bytes on the wire, a history, are left to the model checker).
THEOREM TypeCorrect == Spec => []Types
<1>1. IInv => Types
  BY DEF IInv
<1> QED BY <1>1, Inductive, PTL

\* Whatever the program does, in its callbacks too, a buffer that bk_ioh_write accepted
\* is on the output queue or the program was told once what became of it.
THEOREM ToldOnceHolds == Spec => []ToldOnce
<1>1. IInv => ToldOnce
  <2> SUFFICES ASSUME IInv, NEW b \in Range(order)
               PROVE  Len(told[b]) + (IF Queued(b) THEN 1 ELSE 0) = 1
    BY DEF ToldOnce
  <2>1. b \in Buf /\ told[b] \in Seq({"WriteComplete", "WriteAborted"})
    BY DEF IInv, Types, Range
  <2>2. CASE Queued(b)
    <3>1. PICK i \in DOMAIN writeq : writeq[i].buf = b
      BY <2>2 DEF Queued
    <3>2. told[b] = <<>>
      BY <2>1, <3>1, ModeAssumption DEF IInv, QueueInv, BidsTrue, BidOf
    <3> QED BY <2>2, <3>2
  <2>3. CASE ~Queued(b)
    <3>1. Len(told[b]) = 1
      BY <2>3 DEF IInv, QueueInv, Accounted
    <3> QED BY <2>3, <3>1
  <2> QED BY <2>2, <2>3
<1> QED BY <1>1, Inductive, PTL

\* Whoever throttles and allows, reading is on exactly when nobody throttles the ioh,
\* as long as its input is neither shut down nor in error.
THEOREM ReadingHolds == Spec => []ReadingTrue
<1>1. IInv => ReadingTrue
  BY DEF IInv
<1> QED BY <1>1, Inductive, PTL

\* biq_queuelen, by which writers are held back, is the bytes of the output queue.
THEOREM CountHolds == Spec => []Counted
<1>1. IInv => Counted
  BY DEF IInv, QueueInv
<1> QED BY <1>1, Inductive, PTL

-----------------------------------------------------------------------------
(* The sum that ThrottleTrue takes: numbering the bytes of the queue from 1, *)
(* a set of bids holds as many as it has inuse, and all bids hold all bytes. *)

\* g is what FoldSeq computes by, a function on the sets of bids of q.
SumsUp(q, g) == g = [s \in SUBSET DOMAIN q |-> IF s = {} THEN 0
                       ELSE LET x == CHOOSE y \in s : TRUE IN q[x].inuse + g[s \ {x}]]

\* FoldSeq takes one of the functions that sum up.
LEMMA FoldIs ==
  ASSUME NEW q
  PROVE  FoldSeq(LAMBDA bid, n : bid.inuse + n, 0, q) = (CHOOSE g : SumsUp(q, g))[DOMAIN q]
BY Zenon DEF FoldSeq, FoldFunction, FoldFunctionOnSet, MapThenFoldSet, SumsUp

\* There is one function that sums up (else take a least set at which two differ).
LEMMA FoldUnique ==
  ASSUME NEW q \in Seq(Bid), NEW w, SumsUp(q, w)
  PROVE  FoldSeq(LAMBDA bid, n : bid.inuse + n, 0, q) = w[DOMAIN q]
<1> DEFINE g == CHOOSE h : SumsUp(q, h)
           D == DOMAIN q
           T == {s \in SUBSET D : g[s] # w[s]}
<1>1. SumsUp(q, g)
  OBVIOUS
<1>2. FoldSeq(LAMBDA bid, n : bid.inuse + n, 0, q) = g[D]
  BY FoldIs
<1> HIDE DEF g
<1>3. ASSUME NEW s \in SUBSET D, s # {}
      PROVE  \E x \in s : g[s] = q[x].inuse + g[s \ {x}] /\ w[s] = q[x].inuse + w[s \ {x}]
  <2> DEFINE x == CHOOSE y \in s : TRUE
  <2>1. x \in s
    BY <1>3
  <2>2. g[s] = q[x].inuse + g[s \ {x}]
    BY <1>1, <1>3, Zenon DEF SumsUp
  <2>3. w[s] = q[x].inuse + w[s \ {x}]
    BY <1>3, Zenon DEF SumsUp
  <2> QED BY <2>1, <2>2, <2>3
<1>4. g[{}] = 0 /\ w[{}] = 0
  BY <1>1 DEF SumsUp
<1>5. IsFiniteSet(D)
  BY FS_Interval
<1>6. IsWellFoundedOn(StrictSubsetOrdering(D), SUBSET D)
  BY <1>5, FS_StrictSubsetOrderingWellFounded, FS_FiniteSubsetsOfFinite
<1>7. T = {}
  <2> SUFFICES ASSUME T # {} PROVE FALSE
    OBVIOUS
  <2>1. PICK s \in T : \A y \in T : <<y, s>> \notin StrictSubsetOrdering(D)
    <3> HIDE DEF D
    <3>1. T \subseteq SUBSET D
      OBVIOUS
    <3> HIDE DEF T
    <3> QED BY <1>6, <3>1, WFMin
  <2>2. s # {}
    BY <1>4, <2>1
  <2>3. PICK x \in s : g[s] = q[x].inuse + g[s \ {x}] /\ w[s] = q[x].inuse + w[s \ {x}]
    BY <1>3, <2>1, <2>2
  <2>4. s \ {x} \in SUBSET D /\ s \ {x} \subseteq s /\ s \ {x} # s
    BY <2>1, <2>3
  <2>5. <<s \ {x}, s>> \in StrictSubsetOrdering(D)
    BY <2>1, <2>4 DEF StrictSubsetOrdering
  <2>6. g[s \ {x}] = w[s \ {x}]
    BY <2>1, <2>4, <2>5
  <2> QED BY <2>1, <2>3, <2>6
<1>8. D \in SUBSET D
  OBVIOUS
<1> QED BY <1>2, <1>7, <1>8

\* The bytes 1 to n that the bids of S hold, when s is the sums up to each
NumbersOf(S, d, n, s) ==
  {k \in 1 .. n : \E i \in S : i \in 1 .. d /\ s[i - 1] < k /\ k <= s[i]}

\* s is the sums up to each bid of q, of which the first d hold the n bytes.
Held(q, n, d, s) ==
  /\ q \in Seq(Bid) /\ n \in Nat /\ d \in 0 .. Len(q) /\ Partial(q, d, n, s)
  /\ \A i \in 1 .. Len(q) : i > d => q[i].inuse = 0

\* The bids of a set hold what one of them does and what the others do.
Adds(q, n, d, s) ==
  \A S \in SUBSET (1 .. Len(q)) : \A x \in S :
    Cardinality(NumbersOf(S, d, n, s)) = q[x].inuse + Cardinality(NumbersOf(S \ {x}, d, n, s))

\* A bid's bytes are its own.
LEMMA BytesSplit ==
  ASSUME NEW q, NEW n, NEW d, NEW s, Held(q, n, d, s), BufLen \in Nat
  PROVE  Adds(q, n, d, s)
<1> SUFFICES ASSUME NEW S \in SUBSET (1 .. Len(q)), NEW x \in S
             PROVE  Cardinality(NumbersOf(S, d, n, s))
                      = q[x].inuse + Cardinality(NumbersOf(S \ {x}, d, n, s))
  BY Zenon DEF Adds
<1> USE DEF Held
<1> DEFINE A == NumbersOf(S, d, n, s)
           B == NumbersOf(S \ {x}, d, n, s)
<1>1. x \in 1 .. Len(q) /\ d \in Nat /\ d <= Len(q)
  OBVIOUS
<1>2. B \subseteq 1 .. n
  BY DEF NumbersOf
<1>3. IsFiniteSet(B) /\ Cardinality(B) \in Nat
  <2> HIDE DEF B
  <2>1. IsFiniteSet(1 .. n)
    BY FS_Interval
  <2>2. IsFiniteSet(B)
    BY <1>2, <2>1, FS_Subset
  <2> QED BY <2>2, FS_CardinalityType
<1>4. CASE x > d
  <2>1. A = B
    BY <1>1, <1>4 DEF NumbersOf
  <2>2. q[x].inuse = 0
    BY <1>1, <1>4
  <2> HIDE DEF A, B
  <2>3. Cardinality(A) = q[x].inuse + Cardinality(B)
    BY <1>3, <2>1, <2>2
  <2> QED BY <2>3 DEF A, B
<1>5. CASE x <= d
  <2> DEFINE I == s[x - 1] + 1 .. s[x]
  <2>1. x \in 1 .. d
    BY <1>1, <1>5
  <2>2. /\ q[x].inuse \in Nat /\ s[x] = s[x - 1] + q[x].inuse
        /\ \A j \in 0 .. d : s[j] \in Nat /\ s[j] <= n
    BY <2>1, PartialAt
  <2>3. \A i, j \in 0 .. d : i <= j => s[i] <= s[j]
    BY DEF Partial
  <2>4. x - 1 \in 0 .. d /\ x \in 0 .. d
    BY <1>1, <2>1
  <2>5. s[x - 1] \in Nat /\ s[x] \in Nat /\ s[x] <= n
    BY <2>2, <2>4
  <2>6. I \subseteq 1 .. n
    BY <2>5
  <2>7. A = I \cup B
    <3>1. ASSUME NEW k \in I PROVE k \in A
      <4>1. s[x - 1] < k /\ k <= s[x] /\ k \in 1 .. n
        BY <2>5, <2>6
      <4> QED BY <2>1, <4>1 DEF NumbersOf
    <3>2. B \subseteq A
      BY DEF NumbersOf
    <3>3. ASSUME NEW k \in A PROVE k \in I \cup B
      <4>1. PICK i \in S : i \in 1 .. d /\ s[i - 1] < k /\ k <= s[i]
        BY DEF NumbersOf
      <4>2. k \in 1 .. n
        BY DEF NumbersOf
      <4>3. CASE i = x
        BY <2>5, <4>1, <4>2, <4>3
      <4>4. CASE i # x
        BY <4>1, <4>2, <4>4 DEF NumbersOf
      <4> QED BY <4>3, <4>4
    <3> HIDE DEF A, B, I
    <3> QED BY <3>1, <3>2, <3>3
  <2>8. I \cap B = {}
    <3> SUFFICES ASSUME NEW k \in I, k \in B PROVE FALSE
      OBVIOUS
    <3>1. s[x - 1] < k /\ k <= s[x] /\ k \in Nat
      BY <2>5
    <3>2. PICK i \in S \ {x} : i \in 1 .. d /\ s[i - 1] < k /\ k <= s[i]
      BY DEF NumbersOf
    <3>3. i \in 0 .. d /\ i - 1 \in 0 .. d /\ i # x /\ i \in Nat /\ x \in Nat
      BY <1>1, <3>2
    <3>4. s[i] \in Nat /\ s[i - 1] \in Nat
      BY <2>2, <3>3
    <3>5. CASE i < x
      <4>1. i <= x - 1
        BY <3>3, <3>5
      <4>2. s[i] <= s[x - 1]
        BY <2>3, <2>4, <3>3, <4>1
      <4> QED BY <2>5, <3>1, <3>2, <3>4, <4>2
    <3>6. CASE x < i
      <4>1. x <= i - 1
        BY <3>3, <3>6
      <4>2. s[x] <= s[i - 1]
        BY <2>3, <2>4, <3>3, <4>1
      <4> QED BY <2>5, <3>1, <3>2, <3>4, <4>2
    <3> QED BY <3>3, <3>5, <3>6
  <2>9. IsFiniteSet(I) /\ Cardinality(I) = q[x].inuse
    <3>1. s[x - 1] + 1 \in Int /\ s[x] \in Int
      BY <2>5
    <3>2. /\ IsFiniteSet(I)
          /\ Cardinality(I) = IF s[x - 1] + 1 > s[x] THEN 0 ELSE s[x] - (s[x - 1] + 1) + 1
      BY <3>1, FS_Interval
    <3> HIDE DEF I
    <3> QED BY <2>2, <2>5, <3>2
  <2> HIDE DEF A, B, I
  <2>10. Cardinality(I \cup B) = Cardinality(I) + Cardinality(B) - Cardinality(I \cap B)
    BY <1>3, <2>9, FS_Union
  <2>11. Cardinality(I \cap B) = 0
    BY <2>8, FS_EmptySet
  <2>12. Cardinality(A) = q[x].inuse + Cardinality(B)
    BY <1>3, <2>2, <2>7, <2>9, <2>10, <2>11
  <2> QED BY <2>12 DEF A, B
<1>6. x \in Int /\ d \in Int
  BY <1>1
<1> QED BY <1>4, <1>5, <1>6

\* The bids of a queue hold all of its bytes.
LEMMA BytesAll ==
  ASSUME NEW q \in Seq(Bid), NEW n \in Nat, NEW d \in 0 .. Len(q), NEW s, Partial(q, d, n, s)
  PROVE  NumbersOf(1 .. Len(q), d, n, s) = 1 .. n
<1>1. /\ \A j \in 0 .. d : s[j] \in Nat
      /\ s[0] = 0 /\ s[d] = n /\ d \in Nat /\ d <= Len(q) /\ Len(q) \in Nat
  BY DEF Partial
<1>2. ASSUME NEW k \in 1 .. n PROVE k \in NumbersOf(1 .. Len(q), d, n, s)
  <2> DEFINE U == {i \in 0 .. d : k <= s[i]}
  <2>1. U \subseteq Nat /\ d \in U
    BY <1>1
  <2>2. IsWellFoundedOn(OpToRel(<, Nat), Nat)
    BY NatLessThanWellFounded
  <2>3. PICK i \in U : \A y \in U : ~(<<y, i>> \in OpToRel(<, Nat))
    <3> HIDE DEF U
    <3> QED BY <2>1, <2>2, WFMin
  <2>4. \A y \in U : ~(y < i)
    BY <2>1, <2>3 DEF OpToRel
  <2>5. i \in 1 .. d
    <3>1. i \in 0 .. d /\ k <= s[i]
      BY <2>3
    <3>2. i # 0
      BY <1>1, <3>1
    <3> QED BY <1>1, <3>1, <3>2
  <2>6. i - 1 \in 0 .. d /\ i - 1 < i
    BY <1>1, <2>5
  <2>7. ~(k <= s[i - 1]) /\ s[i - 1] \in Nat
    BY <1>1, <2>4, <2>6
  <2>8. s[i - 1] < k
    BY <2>7
  <2>9. i \in 1 .. Len(q) /\ k <= s[i]
    <3>1. i \in U
      BY <2>3
    <3>2. i \in Nat /\ 1 <= i /\ i <= d
      BY <1>1, <2>5
    <3>3. i \in 1 .. Len(q)
      BY <1>1, <3>2
    <3> QED BY <3>1, <3>3
  <2> QED BY <2>5, <2>8, <2>9 DEF NumbersOf
<1> QED BY <1>2 DEF NumbersOf

\* What sums up to n is n when it is summed up.
LEMMA SumsFold ==
  ASSUME NEW q \in Seq(Bid), NEW n, Sums(q, n), BufLen \in Nat,
         \A i \in 1 .. Len(q) : ~IsData(q[i]) => q[i].inuse = 0
  PROVE  n = FoldSeq(LAMBDA bid, m : bid.inuse + m, 0, q)
<1>1. PICK d, s : d \in 0 .. Len(q) /\ Split(q, d) /\ Partial(q, d, n, s)
  BY DEF Sums
<1>2. n \in Nat
  BY DEF Sums
<1>3. DOMAIN q = 1 .. Len(q)
  OBVIOUS
<1>8. Adds(q, n, d, s)
  <2>1. \A i \in 1 .. Len(q) : i > d => q[i].inuse = 0
    BY <1>1 DEF Split
  <2>2. Held(q, n, d, s)
    BY <1>1, <1>2, <2>1 DEF Held
  <2> QED BY <2>2, BytesSplit
<1> DEFINE w == [S \in SUBSET DOMAIN q |-> Cardinality(NumbersOf(S, d, n, s))]
<1>4. w[{}] = 0
  <2>1. NumbersOf({}, d, n, s) = {}
    BY DEF NumbersOf
  <2>2. w[{}] = Cardinality({})
    BY <2>1
  <2> QED BY <2>2, FS_EmptySet
<1>5. ASSUME NEW S \in SUBSET DOMAIN q, NEW x \in S
      PROVE  w[S] = q[x].inuse + w[S \ {x}]
  <2>3. Cardinality(NumbersOf(S, d, n, s)) = q[x].inuse + Cardinality(NumbersOf(S \ {x}, d, n, s))
    BY <1>3, <1>8 DEF Adds
  <2>4. S \ {x} \in SUBSET DOMAIN q
    OBVIOUS
  <2> QED BY <2>3, <2>4
<1>6. SumsUp(q, w)
  <2>1. ASSUME NEW S \in SUBSET DOMAIN q, S # {}
        PROVE  w[S] = LET x == CHOOSE y \in S : TRUE IN q[x].inuse + w[S \ {x}]
    <3>1. (CHOOSE y \in S : TRUE) \in S
      BY <2>1
    <3> HIDE DEF w
    <3> QED BY <1>5, <3>1
  <2>2. \A S \in SUBSET DOMAIN q :
          w[S] = IF S = {} THEN 0
                 ELSE LET x == CHOOSE y \in S : TRUE IN q[x].inuse + w[S \ {x}]
    <3> HIDE DEF w
    <3> QED BY <1>4, <2>1
  <2>3. w = [S \in SUBSET DOMAIN q |-> w[S]]
    OBVIOUS
  <2> HIDE DEF w
  <2> QED BY <2>2, <2>3, Zenon DEF SumsUp
<1>7. w[DOMAIN q] = n
  <2>1. w[DOMAIN q] = Cardinality(NumbersOf(1 .. Len(q), d, n, s))
    BY <1>3
  <2>2. NumbersOf(1 .. Len(q), d, n, s) = 1 .. n
    BY <1>1, <1>2, BytesAll
  <2>3. Cardinality(1 .. n) = IF 1 > n THEN 0 ELSE n - 1 + 1
    BY <1>2, FS_Interval
  <2> QED BY <1>2, <2>1, <2>2, <2>3
<1> HIDE DEF w
<1> QED BY <1>6, <1>7, FoldUnique

\* ThrottleTrue is an invariant of the handle: it reads as long as nothing throttles it, and
\* its count of queued bytes is the bytes on its queue.
THEOREM ThrottleTrueHolds == Spec => []ThrottleTrue
<1>1. ASSUME IInv PROVE ThrottleTrue
  <2>1. writeq \in Seq(Bid) /\ Sums(writeq, queuelen) /\ ReadingTrue /\ BidsTrue
    BY <1>1 DEF IInv, QueueInv, Types, Counted
  <2>2. \A i \in 1 .. Len(writeq) : ~IsData(writeq[i]) => writeq[i].inuse = 0
    BY <2>1 DEF BidsTrue, BidOf
  <2>3. BufLen \in Nat
    BY SizesAssumption
  <2>4. queuelen = FoldSeq(LAMBDA bid, m : bid.inuse + m, 0, writeq)
    BY <2>1, <2>2, <2>3, SumsFold
  <2> QED BY <2>1, <2>4 DEF ThrottleTrue
<1> QED BY <1>1, Inductive, PTL
=============================================================================
