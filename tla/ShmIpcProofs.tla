---------------------------- MODULE ShmIpcProofs ----------------------------
(***************************************************************************)
(* The shared-memory ring keeps its promises for every number of processes *)
(* and segments, every size, and whatever dies when: each segment is a     *)
(* FIFO, writer and reader copy apart, one reader is ever connected, the   *)
(* end is told only when true, and a segment implements a bounded channel. *)
(*                                                                         *)
(* The code has no lock.  What stands in for one is that the programs keep *)
(* to "single reader, single writer" (~Overlap, without which TLC refutes  *)
(* OneReader and EndIsTrue), and the handshake over the magic number,      *)
(* which the strengthening follows through both sides' steps.              *)
(***************************************************************************)
EXTENDS ShmIpc, Sequences, FiniteSetTheorems, TLAPS

\* Where a process has a segment, is in the handshake, is connected, and has
\* the segment attached.
Talking == {"wait", "look", "alone", "check", "answer"}
InUse == {"idle", "drop", "droppeek", "avail", "peek", "magic", "copy", "publish"}
HasAttached == Talking \cup InUse \cup {"init", "syn", "eof", "detach"}
HasSeg == HasAttached \cup {"remove", "stat", "attach", "rmid"}
Moving == {"copy", "publish"}

\* Each role stays in its code, with the magic number it waits for there.
RoleOf(p) ==
  /\ IF pc[p] \in HasSeg THEN seg[p] \in created ELSE seg[p] = None
  /\ pc[p] \in HasAttached => p \in attached[seg[p]]
  /\ p \in Writers => /\ pc[p] \notin {"stat", "alone", "magic"}
                      /\ pc[p] \in Talking => want[p] = "rinit"
  /\ p \in Readers => /\ pc[p] \notin {"find", "remove", "stat", "init", "syn", "drop", "droppeek"}
                      /\ pc[p] \in Talking => want[p] \in {"winit", "magic"}
                      /\ pc[p] \in InUse => want[p] = "magic"
  /\ p \in Admins => pc[p] \notin Talking \cup InUse \cup {"init", "syn", "eof", "rmid"}
RoleInv == byname \in created \cup {None} /\ \A p \in Proc : RoleOf(p)

\* The programs keep to one process of a kind at a time.
TwoParty == ~Overlap

\* One process of a kind runs at a time.
AloneInv ==
  /\ TwoParty
  /\ \A v, w \in Writers : Alive(v) /\ Alive(w) => v = w
  /\ \A q, r \in Readers : Alive(q) /\ Alive(r) => q = r

\* A block ends where the ring or the call does.
BlockOf(p) == pc[p] \in Moving => call[p].n <= call[p].len /\ call[p].n <= Size - call[p].hand
BlockInv == \A p \in Proc : BlockOf(p)

\* A segment whose writer has not yet set its magic number, and one where the
\* writer has not yet been answered.
Young(s) == s \notin created \/ \E w \in Writers : seg[w] = s /\ pc[w] \in {"attach", "init", "syn"}
Shaking(s) == \E w \in Writers : seg[w] = s /\ pc[w] \in Talking \cup {"attach", "init", "syn"}
\* The writer has been answered.
Answered(s) == \E w \in Writers : seg[w] = s /\ pc[w] \in InUse \cup {"answer"}

\* How far the handshake is, told from the magic number, the two sides and the
\* readers that were ever connected.
SegmentOf(s) ==
  /\ Young(s) => /\ writehand[s] = 0 /\ readhand[s] = 0 /\ written[s] = 0 /\ taken[s] = 0
                 /\ magic[s] \in {"zero", "eof"} /\ joined[s] = {}
  /\ magic[s] = "magic" \/ joined[s] # {} => ~Shaking(s)
  /\ joined[s] # {} => magic[s] \in {"magic", "eof"}
  /\ Answered(s) => magic[s] \in {"rinit", "magic", "eof"}
  /\ \A q, r \in joined[s] : q = r
ReaderOf(r) ==
  /\ pc[r] = "answer" /\ want[r] = "winit" =>
       /\ ~Young(seg[r]) /\ ~Answered(seg[r])
       /\ magic[seg[r]] \in {"winit", "eof"} /\ joined[seg[r]] = {}
  /\ pc[r] \in Talking /\ want[r] = "magic" =>
       /\ ~Young(seg[r]) /\ joined[seg[r]] = {}
       /\ magic[seg[r]] \in {"rinit", "magic", "eof"}
       /\ pc[r] = "answer" => ~Shaking(seg[r]) /\ magic[seg[r]] # "rinit"
  /\ pc[r] \in InUse => r \in joined[seg[r]]
HandshakeInv == (\A s \in Seg : SegmentOf(s)) /\ (\A r \in Readers : ReaderOf(r))

\* The hands that a call keeps are those of the segment, and what it found room
\* or data for is still there.
WriterHand(w) ==
  /\ pc[w] \in {"drop", "avail", "peek"} \cup Moving => call[w].hand = writehand[seg[w]]
  /\ pc[w] \in Moving => call[w].n <= AvailableWrite(call[w].hand, readhand[seg[w]])
  /\ pc[w] = "publish" => \A i \in 0 .. call[w].n - 1 :
                             ring[seg[w]][call[w].hand + i] = written[seg[w]] + 1 + i
ReaderHand(r) ==
  /\ pc[r] \in {"avail", "peek", "magic"} \cup Moving => call[r].hand = readhand[seg[r]]
  /\ pc[r] \in Moving => call[r].n <= AvailableRead(writehand[seg[r]], call[r].hand)
HandInv == (\A w \in Writers : WriterHand(w)) /\ (\A r \in Readers : ReaderHand(r))

\* Who was told of the end makes no more calls: a reader for good reason, a
\* writer with no reader in sight, nor one half way through the handshake.
EndOf(p) ==
  sawend[p] =>
    /\ pc[p] \in {"idle", "eof", "detach", "rmid"}
    /\ pc[p] = "idle" /\ p \in Readers => Ended(p) \/ attached[seg[p]] \cap Writers = {}
    /\ pc[p] = "idle" /\ p \in Writers => \A r \in Readers :
         ~(seg[r] = seg[p] /\ want[r] = "magic" /\ pc[r] \in Talking \cup InUse)
EndInv == \A p \in Proc : EndOf(p)

\* Once a reader has seen the writer's last answer, only the writer or itself
\* marks the end.
MarkOf(r) ==
  /\ pc[r] \in InUse \/ (pc[r] = "answer" /\ want[r] = "magic")
  /\ magic[seg[r]] = "eof"
  => Ended(r)
MarkInv == \A r \in Readers : MarkOf(r)

TypeInv == TypeOK /\ RoleInv /\ AloneInv /\ BlockInv
IInv == TypeInv /\ HandshakeInv /\ HandInv /\ Fifo /\ EndInv /\ MarkInv
-----------------------------------------------------------------------------
(* Arithmetic of the hands.                                                *)

\* What is free and what is held make up the ring but for one slot.
LEMMA Distances ==
    ASSUME NEW wh \in Slot, NEW rh \in Slot
    PROVE  /\ AvailableRead(wh, rh) \in 0 .. Size - 1
           /\ AvailableWrite(wh, rh) = Size - 1 - AvailableRead(wh, rh)
  BY SizeAssumption DEF Slot, AvailableRead, AvailableWrite

\* A block that ends on the ring leaves the hand there.
LEMMA HandMoves ==
    ASSUME NEW h \in Slot, NEW n \in Nat, n <= Size - h
    PROVE  Wrapped(h + n) \in Slot
  BY SizeAssumption DEF Slot, Wrapped
-----------------------------------------------------------------------------
(* Types, roles and calls.                                                 *)

\* What a process knows of its call.
CallRecord == [mode : SUBSET {"all", "noblock", "drop", "readall"}, len : Nat,
               hand : Slot, n : Nat, ret : Nat]

\* A process that has a segment has one there is.
LEMMA SegOf ==
    ASSUME TypeOK, RoleInv, NEW p \in Proc, pc[p] \in HasSeg
    PROVE  seg[p] \in Seg /\ seg[p] \in created
  BY DEF TypeOK, RoleInv, RoleOf

\* A call that has not begun.
LEMMA NoCallTyped == 0 \in Slot /\ NoCall \in CallRecord
  BY SizeAssumption DEF Slot, NoCall, CallRecord

\* A process changes its own call.
LEMMA SetCallTyped ==
    ASSUME TypeOK, NEW p, NEW c \in CallRecord, SetCall(p, c)
    PROVE  call' \in [Proc -> CallRecord]
  BY DEF TypeOK, CallRecord, SetCall

\* A process that leaves, and a call that returns, forget their call.
LEMMA LeaveTyped ==
    ASSUME TypeOK, NEW p,
           Return(p) \/ (\E how : Leave(p, how)) \/ SetCall(p, NoCall) \/ UNCHANGED call
    PROVE  call' \in [Proc -> CallRecord]
  <1>1. call \in [Proc -> CallRecord]
    BY DEF TypeOK, CallRecord
  <1>. QED
    BY <1>1, NoCallTyped, SetCallTyped DEF Leave, Return

\* The next block of a call, and what is left of it after the block.
LEMMA BlockTyped ==
    ASSUME TypeOK, BlockInv, NEW p \in Proc
    PROVE  /\ \A avail \in Nat :
                BeginCopy(p, avail) =>
                  /\ call' \in [Proc -> CallRecord]
                  /\ \A q \in Proc \ {p} : call'[q] = call[q]
                  /\ call'[p].hand = call[p].hand /\ call'[p].len = call[p].len
                  /\ call'[p].n <= avail /\ call'[p].n <= call[p].len
                  /\ call'[p].n <= Size - call[p].hand
           /\ pc[p] \in Moving => Beyond(p) \in Slot
           /\ pc[p] \in Moving /\ Advance(p) => call' \in [Proc -> CallRecord]
  <1>0. call[p] \in CallRecord /\ call \in [Proc -> CallRecord]
    BY DEF TypeOK, CallRecord
  <1>1. ASSUME NEW avail \in Nat, BeginCopy(p, avail)
        PROVE  /\ call' \in [Proc -> CallRecord]
               /\ \A q \in Proc \ {p} : call'[q] = call[q]
               /\ call'[p].hand = call[p].hand /\ call'[p].len = call[p].len
               /\ call'[p].n <= avail /\ call'[p].n <= call[p].len
               /\ call'[p].n <= Size - call[p].hand
    <2> DEFINE n == Least(Least(avail, call[p].len), Size - call[p].hand)
    <2>1. n \in Nat /\ n <= avail /\ n <= call[p].len /\ n <= Size - call[p].hand
      BY <1>0, SizeAssumption DEF CallRecord, Slot, Least
    <2>2. call' = [call EXCEPT ![p] = [call[p] EXCEPT !.n = n]]
      BY <1>1 DEF BeginCopy, SetCall
    <2>. HIDE DEF n
    <2>. QED
      BY <1>0, <2>1, <2>2 DEF CallRecord
  <1>2. ASSUME pc[p] \in Moving
        PROVE  Beyond(p) \in Slot
    BY <1>0, <1>2, HandMoves DEF BlockInv, BlockOf, CallRecord, Beyond
  <1>3. ASSUME pc[p] \in Moving, Advance(p)
        PROVE  call' \in [Proc -> CallRecord]
    <2>1. CASE Return(p)
      BY <2>1, LeaveTyped
    <2>2. CASE SetCall(p, [call[p] EXCEPT !.len = @ - call[p].n, !.ret = @ + call[p].n,
                                          !.hand = Beyond(p), !.n = 0])
      <3>1. /\ call[p].len - call[p].n \in Nat /\ call[p].ret + call[p].n \in Nat
            /\ Beyond(p) \in Slot
        BY <1>0, <1>2, <1>3 DEF BlockInv, BlockOf, CallRecord
      <3>. QED
        BY <1>0, <2>2, <3>1 DEF CallRecord, SetCall
    <2>. QED
      BY <1>3, <2>1, <2>2 DEF Advance
  <1>. QED
    BY <1>1, <1>2, <1>3

\* What room or data a process with a segment finds.
LEMMA RoomTyped ==
    ASSUME TypeOK, RoleInv, NEW p \in Proc, pc[p] \in HasSeg
    PROVE  Room(p) \in 0 .. Size - 1 /\ Data(p) \in 0 .. Size - 1
  <1>1. call[p].hand \in Slot /\ readhand[seg[p]] \in Slot /\ writehand[seg[p]] \in Slot
    BY SegOf DEF TypeOK
  <1>. QED
    BY <1>1, Distances, SizeAssumption DEF Room, Data

\* A call begins, or readall goes on, with a record of its kind.
LEMMA BeginTyped ==
    ASSUME NEW flags \in WriteModes \cup ReadModes, NEW bytes \in Nat, NEW h \in Slot
    PROVE  [NoCall EXCEPT !.mode = flags, !.len = bytes, !.hand = h] \in CallRecord
  <1>1. flags \in SUBSET {"all", "noblock", "drop", "readall"}
    BY ModesAssumption
  <1>. QED
    BY <1>1 DEF NoCall, CallRecord

\* bk_shmipc_readall goes on as a read of what there is.
LEMMA ReadallTyped ==
    ASSUME NEW c \in CallRecord, NEW n \in Nat
    PROVE  [c EXCEPT !.mode = {"noblock"}, !.len = Least(n, @)] \in CallRecord
  <1>1. Least(n, c.len) \in Nat
    BY DEF Least, CallRecord
  <1>. QED
    BY <1>1 DEF CallRecord

\* Types are kept.
LEMMA TypingStep ==
    ASSUME TypeInv, [Next]_vars
    PROVE  TypeOK'
  <1>. USE DEF TypeInv
  <1>1. ASSUME NEW p \in Proc, Start(p) PROVE TypeOK'
    <2>1. pc' \in [Proc -> Pc]
      BY ZenonT(60), <1>1 DEF Start, TypeOK, Pc, Goto, At
    <2>. QED
      BY <1>1, <2>1 DEF Start, TypeOK, CallRecord, names, memory, history
  <1>2. ASSUME NEW p \in Proc, Create(p) PROVE TypeOK'
    <2>1. pc' \in [Proc -> Pc]
      BY ZenonT(60), <1>2 DEF Create, TypeOK, Pc, Goto, At
    <2>2. seg' \in [Proc -> Seg \cup {None}]
      BY <1>2, SegOf DEF Create, TypeOK, Goto, At, HasSeg, HasAttached, Talking, InUse, Magic
    <2>3. byname' \in Seg \cup {None} /\ created' \subseteq Seg /\ removed' \subseteq created'
      BY <1>2, SegOf DEF Create, TypeOK, Goto, At, HasSeg, HasAttached, Talking, InUse, Magic
    <2>. QED
      BY <1>2, <2>1, <2>2, <2>3 DEF Create, TypeOK, CallRecord, names, memory, history
  <1>3. ASSUME NEW p \in Proc, Get(p) PROVE TypeOK'
    <2>1. pc' \in [Proc -> Pc]
      <3>1. pc \in [Proc -> Pc]
        BY DEF TypeOK
      <3>. QED
        BY <1>3, <3>1 DEF Get, Leave, Pc, Goto
    <2>2. seg' \in [Proc -> Seg \cup {None}]
      BY <1>3, SegOf DEF Get, Leave, TypeOK, Goto, At, HasSeg, HasAttached, Talking, InUse, Magic
    <2>3. want' \in [Proc -> Magic]
      BY <1>3 DEF Get, Leave, TypeOK, Magic
    <2>4. call' \in [Proc -> CallRecord]
      BY <1>3, LeaveTyped DEF Get
    <2>5. sawend' \in [Proc -> BOOLEAN]
      BY <1>3 DEF Get, Leave, TypeOK, Magic
    <2>. QED
      BY <1>3, <2>1, <2>2, <2>3, <2>4, <2>5 DEF Get, TypeOK, CallRecord, names, memory, history
  <1>4. ASSUME NEW p \in Proc, Find(p) PROVE TypeOK'
    <2>1. pc' \in [Proc -> Pc]
      BY ZenonT(60), <1>4 DEF Find, Leave, TypeOK, Pc, Goto, At
    <2>2. seg' \in [Proc -> Seg \cup {None}]
      BY <1>4, SegOf DEF Find, Leave, TypeOK, Goto, At, HasSeg, HasAttached, Talking, InUse, Magic
    <2>3. want' \in [Proc -> Magic]
      BY <1>4 DEF Find, Leave, TypeOK, Magic
    <2>4. call' \in [Proc -> CallRecord]
      BY <1>4, LeaveTyped DEF Find
    <2>5. sawend' \in [Proc -> BOOLEAN]
      BY <1>4 DEF Find, Leave, TypeOK, Magic
    <2>. QED
      BY <1>4, <2>1, <2>2, <2>3, <2>4, <2>5 DEF Find, TypeOK, CallRecord, names, memory, history
  <1>5. ASSUME NEW p \in Proc, Remove(p) PROVE TypeOK'
    <2>a. seg[p] \in Seg /\ seg[p] \in created
      BY <1>5, SegOf DEF Remove, At, HasSeg, HasAttached, Talking, InUse
    <2>1. pc' \in [Proc -> Pc]
      BY ZenonT(60), <1>5 DEF Remove, MarkRemoved, Leave, TypeOK, Pc, Goto, At
    <2>2. seg' \in [Proc -> Seg \cup {None}]
      BY <1>5, SegOf DEF Remove, MarkRemoved, Leave, TypeOK, Goto, At, HasSeg, HasAttached, Talking,
         InUse, Magic
    <2>3. want' \in [Proc -> Magic]
      BY <1>5 DEF Remove, MarkRemoved, Leave, TypeOK, Magic
    <2>4. call' \in [Proc -> CallRecord]
      BY <1>5, LeaveTyped DEF Remove
    <2>5. sawend' \in [Proc -> BOOLEAN]
      BY <1>5 DEF Remove, MarkRemoved, Leave, TypeOK, Magic
    <2>6. byname' \in Seg \cup {None} /\ created' \subseteq Seg /\ removed' \subseteq created'
      BY <1>5, <2>a DEF Remove, MarkRemoved, TypeOK
    <2>. QED
      BY <1>5, <2>1, <2>2, <2>3, <2>4, <2>5, <2>6 DEF Remove, TypeOK, CallRecord, names, memory,
         history
  <1>6. ASSUME NEW p \in Proc, Stat(p) PROVE TypeOK'
    <2>1. pc' \in [Proc -> Pc]
      BY ZenonT(60), <1>6 DEF Stat, Leave, TypeOK, Pc, Goto, At
    <2>2. seg' \in [Proc -> Seg \cup {None}]
      BY <1>6, SegOf DEF Stat, Leave, TypeOK, Goto, At, HasSeg, HasAttached, Talking, InUse, Magic
    <2>3. want' \in [Proc -> Magic]
      BY <1>6 DEF Stat, Leave, TypeOK, Magic
    <2>4. call' \in [Proc -> CallRecord]
      BY <1>6, LeaveTyped DEF Stat
    <2>5. sawend' \in [Proc -> BOOLEAN]
      BY <1>6 DEF Stat, Leave, TypeOK, Magic
    <2>. QED
      BY <1>6, <2>1, <2>2, <2>3, <2>4, <2>5 DEF Stat, TypeOK, CallRecord, names, memory, history
  <1>7. ASSUME NEW p \in Proc, Attach(p) PROVE TypeOK'
    <2>a. seg[p] \in Seg
      BY <1>7, SegOf DEF Attach, At, HasSeg, HasAttached, Talking, InUse
    <2>1. pc' \in [Proc -> Pc]
      BY ZenonT(60), <1>7 DEF Attach, Leave, TypeOK, Pc, Goto, At
    <2>2. seg' \in [Proc -> Seg \cup {None}]
      BY <1>7, SegOf DEF Attach, Leave, TypeOK, Goto, At, HasSeg, HasAttached, Talking, InUse, Magic
    <2>3. want' \in [Proc -> Magic]
      BY <1>7 DEF Attach, Leave, TypeOK, Magic
    <2>4. call' \in [Proc -> CallRecord]
      BY <1>7, LeaveTyped DEF Attach
    <2>5. sawend' \in [Proc -> BOOLEAN]
      BY <1>7 DEF Attach, Leave, TypeOK, Magic
    <2>6. attached' \in [Seg -> SUBSET Proc]
      <3>1. attached \in [Seg -> SUBSET Proc]
        BY DEF TypeOK
      <3>. QED
        BY <1>7, <2>a, <3>1 DEF Attach
    <2>. QED
      BY <1>7, <2>1, <2>2, <2>3, <2>4, <2>5, <2>6 DEF Attach, TypeOK, CallRecord, names, memory,
         history
  <1>8. ASSUME NEW p \in Proc, InitHeader(p) PROVE TypeOK'
    <2>1. pc' \in [Proc -> Pc]
      BY <1>8 DEF InitHeader, TypeOK, Pc, Goto, At
    <2>2. writehand' \in [Seg -> Slot] /\ readhand' \in [Seg -> Slot]
      BY <1>8, NoCallTyped DEF InitHeader, TypeOK
    <2>. QED
      BY <1>8, <2>1, <2>2 DEF InitHeader, TypeOK, CallRecord, names, memory, history
  <1>9. ASSUME NEW p \in Proc, Syn(p) PROVE TypeOK'
    <2>1. pc' \in [Proc -> Pc]
      BY <1>9 DEF Syn, TypeOK, Pc, Goto, At
    <2>2. magic' \in [Seg -> Magic]
      BY <1>9, SegOf DEF Syn, TypeOK, Goto, At, HasSeg, HasAttached, Talking, InUse, Magic
    <2>3. want' \in [Proc -> Magic]
      BY <1>9 DEF Syn, TypeOK, Magic
    <2>. QED
      BY <1>9, <2>1, <2>2, <2>3 DEF Syn, TypeOK, CallRecord, names, memory, history
  <1>10. ASSUME NEW p \in Proc, Wait(p) PROVE TypeOK'
    <2>1. pc' \in [Proc -> Pc]
      BY ZenonT(60), <1>10 DEF Wait, TypeOK, Pc, Goto, At
    <2>. QED
      BY <1>10, <2>1 DEF Wait, TypeOK, CallRecord, names, memory, history
  <1>11. ASSUME NEW p \in Proc, Look(p) PROVE TypeOK'
    <2>1. pc' \in [Proc -> Pc]
      BY <1>11 DEF Look, TypeOK, Pc, Goto, At
    <2>. QED
      BY <1>11, <2>1 DEF Look, TypeOK, CallRecord, names, memory, history
  <1>12. ASSUME NEW p \in Proc, Alone(p) PROVE TypeOK'
    <2>1. pc' \in [Proc -> Pc]
      BY <1>12 DEF Alone, TypeOK, Pc, Goto, At
    <2>. QED
      BY <1>12, <2>1 DEF Alone, TypeOK, CallRecord, names, memory, history
  <1>13. ASSUME NEW p \in Proc, Check(p) PROVE TypeOK'
    <2>1. pc' \in [Proc -> Pc]
      BY <1>13 DEF Check, TypeOK, Pc, Goto, At
    <2>. QED
      BY <1>13, <2>1 DEF Check, TypeOK, CallRecord, names, memory, history
  <1>14. ASSUME NEW p \in Proc, Answer(p) PROVE TypeOK'
    <2>a. want[p] \in {"winit", "rinit", "magic"} /\ seg[p] \in Seg /\ (want[p] = "magic" => p \in Readers)
      BY <1>14, SegOf, RolesAssumption DEF Answer, At, RoleInv, RoleOf, HasSeg, HasAttached,
         Talking, InUse, Proc
    <2>b. joined' = joined \/ (p \in Readers /\ joined' = [joined EXCEPT ![seg[p]] = @ \cup {p}])
      BY <1>14, <2>a DEF Answer
    <2>1. pc' \in [Proc -> Pc]
      BY <1>14, <2>a DEF Answer, TypeOK, Pc, Goto
    <2>2. magic' \in [Seg -> Magic]
      BY <1>14, <2>a DEF Answer, TypeOK, Magic
    <2>3. want' \in [Proc -> Magic]
      BY ZenonT(60), <1>14, <2>a DEF Answer, TypeOK, Magic
    <2>4. joined' \in [Seg -> SUBSET Readers]
      <3>1. joined \in [Seg -> SUBSET Readers]
        BY DEF TypeOK
      <3>2. CASE p \in Readers /\ joined' = [joined EXCEPT ![seg[p]] = @ \cup {p}]
        <4>1. joined[seg[p]] \cup {p} \in SUBSET Readers
          BY <2>a, <3>1, <3>2
        <4>. QED
          BY <3>1, <3>2, <4>1
      <3>. QED
        BY <2>b, <3>1, <3>2
    <2>. QED
      BY <1>14, <2>1, <2>2, <2>3, <2>4 DEF Answer, TypeOK, CallRecord, names, memory, history
  <1>15. ASSUME NEW p \in Proc, BeginWrite(p) PROVE TypeOK'
    <2>a. /\ writehand[seg[p]] \in Slot
          /\ written[seg[p]] \in Nat
      BY <1>15, SegOf, SizeAssumption DEF BeginWrite, At, HasSeg, HasAttached, Talking, InUse,
         TypeOK
    <2>b. 1 .. Least(MaxLen, MaxBytes - written[seg[p]]) \subseteq Nat
      <3>1. MaxBytes - written[seg[p]] \in Int /\ MaxLen \in Int
        BY <2>a, SizeAssumption
      <3>. QED
        BY <3>1 DEF Least
    <2>1. pc' \in [Proc -> Pc]
      BY <1>15 DEF BeginWrite, TypeOK, Pc, Goto, At
    <2>2. call' \in [Proc -> CallRecord]
      BY <1>15, <2>a, <2>b, SetCallTyped, BeginTyped DEF BeginWrite
    <2>. QED
      BY <1>15, <2>1, <2>2 DEF BeginWrite, TypeOK, CallRecord, names, memory, history
  <1>16. ASSUME NEW p \in Proc, Drop(p) PROVE TypeOK'
    <2>1. pc' \in [Proc -> Pc]
      BY <1>16 DEF Drop, TypeOK, Pc, Goto, At
    <2>. QED
      BY <1>16, <2>1 DEF Drop, TypeOK, CallRecord, names, memory, history
  <1>17. ASSUME NEW p \in Proc, DropPeek(p) PROVE TypeOK'
    <2>1. pc' \in [Proc -> Pc]
      BY <1>17 DEF DropPeek, Return, TypeOK, Pc, Goto, At
    <2>2. call' \in [Proc -> CallRecord]
      BY <1>17, LeaveTyped DEF DropPeek
    <2>3. sawend' \in [Proc -> BOOLEAN]
      BY <1>17 DEF DropPeek, Return, TypeOK, Magic
    <2>. QED
      BY <1>17, <2>1, <2>2, <2>3 DEF DropPeek, TypeOK, CallRecord, names, memory, history
  <1>18. ASSUME NEW p \in Proc, WriteAvailable(p) PROVE TypeOK'
    <2>a. Room(p) \in Nat
      BY <1>18, RoomTyped, SizeAssumption DEF WriteAvailable, At, HasSeg, HasAttached, Talking,
         InUse
    <2>1. pc' \in [Proc -> Pc]
      BY <1>18 DEF WriteAvailable, BeginCopy, WithNothing, Return, TypeOK, Pc, Goto, At
    <2>2. call' \in [Proc -> CallRecord]
      BY <1>18, <2>a, BlockTyped, LeaveTyped DEF WriteAvailable, WithNothing
    <2>. QED
      BY <1>18, <2>1, <2>2 DEF WriteAvailable, TypeOK, CallRecord, names, memory, history
  <1>19. ASSUME NEW p \in Proc, CopyIn(p) PROVE TypeOK'
    <2>a. seg[p] \in Seg /\ written[seg[p]] \in Nat /\ call[p].hand \in Slot
      BY <1>19, SegOf, SizeAssumption DEF CopyIn, At, HasSeg, HasAttached, Talking, InUse, TypeOK
    <2>b. \A i \in Block(p) : written[seg[p]] + 1 + (i - call[p].hand) \in Nat
      BY <2>a DEF Block, Slot
    <2>1. pc' \in [Proc -> Pc]
      BY <1>19 DEF CopyIn, TypeOK, Pc, Goto, At
    <2>2. ring' \in [Seg -> [Slot -> Nat]]
      BY <1>19, <2>a, <2>b DEF CopyIn, TypeOK
    <2>. QED
      BY <1>19, <2>1, <2>2 DEF CopyIn, TypeOK, CallRecord, names, memory, history
  <1>20. ASSUME NEW p \in Proc, PublishWrite(p) PROVE TypeOK'
    <2>a. seg[p] \in Seg /\ written[seg[p]] + call[p].n \in Nat
      BY <1>20, SegOf DEF PublishWrite, At, HasSeg, HasAttached, InUse, TypeOK
    <2>1. pc' \in [Proc -> Pc]
      BY SMTT(40), <1>20 DEF PublishWrite, Advance, Return, TypeOK, Pc, Goto, At
    <2>2. call' \in [Proc -> CallRecord]
      BY <1>20, BlockTyped DEF PublishWrite, At, Moving
    <2>3. writehand' \in [Seg -> Slot] /\ readhand' \in [Seg -> Slot]
      BY <1>20, BlockTyped DEF PublishWrite, At, Moving, TypeOK
    <2>4. written' \in [Seg -> Nat] /\ taken' \in [Seg -> Nat]
      BY <1>20, <2>a DEF PublishWrite, TypeOK
    <2>. QED
      BY <1>20, <2>1, <2>2, <2>3, <2>4 DEF PublishWrite, TypeOK, CallRecord, names, memory, history
  <1>21. ASSUME NEW p \in Proc, WritePeek(p) PROVE TypeOK'
    <2>1. pc' \in [Proc -> Pc]
      BY ZenonT(60), <1>21 DEF WritePeek, GiveUpOrTurn, Return, TypeOK, Pc, Goto, At
    <2>2. call' \in [Proc -> CallRecord]
      BY <1>21, LeaveTyped DEF WritePeek, GiveUpOrTurn
    <2>3. sawend' \in [Proc -> BOOLEAN]
      BY <1>21 DEF WritePeek, GiveUpOrTurn, Return, TypeOK, Magic
    <2>. QED
      BY <1>21, <2>1, <2>2, <2>3 DEF WritePeek, TypeOK, CallRecord, names, memory, history
  <1>22. ASSUME NEW p \in Proc, BeginRead(p) PROVE TypeOK'
    <2>a. readhand[seg[p]] \in Slot /\ 1 .. MaxLen \subseteq Nat
      BY <1>22, SegOf, SizeAssumption DEF BeginRead, At, HasSeg, HasAttached, Talking, InUse, TypeOK
    <2>1. pc' \in [Proc -> Pc]
      BY <1>22 DEF BeginRead, TypeOK, Pc, Goto, At
    <2>2. call' \in [Proc -> CallRecord]
      BY <1>22, <2>a, SetCallTyped, BeginTyped DEF BeginRead
    <2>. QED
      BY <1>22, <2>1, <2>2 DEF BeginRead, TypeOK, CallRecord, names, memory, history
  <1>23. ASSUME NEW p \in Proc, ReadAvailable(p) PROVE TypeOK'
    <2>a. /\ Data(p) \in Nat /\ call[p] \in CallRecord
          /\ [call[p] EXCEPT !.mode = {"noblock"}, !.len = Least(Data(p), @)] \in CallRecord
      <3>1. Data(p) \in Nat
        BY <1>23, RoomTyped, SizeAssumption DEF ReadAvailable, At, HasSeg, HasAttached, InUse
      <3>2. call[p] \in CallRecord
        BY DEF TypeOK, CallRecord
      <3>. QED
        BY <3>1, <3>2, ReadallTyped
    <2>1. pc' \in [Proc -> Pc]
      BY ZenonT(60), <1>23 DEF ReadAvailable, BeginCopy, WithNothing, Return, TypeOK, Pc, Goto, At
    <2>2. call' \in [Proc -> CallRecord]
      BY <1>23, <2>a, BlockTyped, LeaveTyped, SetCallTyped, ReadallTyped DEF ReadAvailable,
         WithNothing
    <2>. QED
      BY <1>23, <2>1, <2>2 DEF ReadAvailable, TypeOK, CallRecord, names, memory, history
  <1>24. ASSUME NEW p \in Proc, CopyOut(p) PROVE TypeOK'
    <2>1. pc' \in [Proc -> Pc]
      BY <1>24 DEF CopyOut, TypeOK, Pc, Goto, At
    <2>. QED
      BY <1>24, <2>1 DEF CopyOut, TypeOK, CallRecord, names, memory, history
  <1>25. ASSUME NEW p \in Proc, PublishRead(p) PROVE TypeOK'
    <2>a. seg[p] \in Seg /\ taken[seg[p]] + call[p].n \in Nat
      BY <1>25, SegOf DEF PublishRead, At, HasSeg, HasAttached, InUse, TypeOK
    <2>1. pc' \in [Proc -> Pc]
      BY <1>25 DEF PublishRead, Advance, Return, TypeOK, Pc, Goto, At
    <2>2. call' \in [Proc -> CallRecord]
      BY <1>25, BlockTyped DEF PublishRead, At, Moving
    <2>3. writehand' \in [Seg -> Slot] /\ readhand' \in [Seg -> Slot]
      BY <1>25, BlockTyped DEF PublishRead, At, Moving, TypeOK
    <2>4. written' \in [Seg -> Nat] /\ taken' \in [Seg -> Nat]
      BY <1>25, <2>a DEF PublishRead, TypeOK
    <2>. QED
      BY <1>25, <2>1, <2>2, <2>3, <2>4 DEF PublishRead, TypeOK, CallRecord, names, memory, history
  <1>26. ASSUME NEW p \in Proc, ReadPeek(p) PROVE TypeOK'
    <2>1. pc' \in [Proc -> Pc]
      BY ZenonT(60), <1>26 DEF ReadPeek, Return, TypeOK, Pc, Goto, At
    <2>2. call' \in [Proc -> CallRecord]
      BY <1>26, LeaveTyped DEF ReadPeek
    <2>3. sawend' \in [Proc -> BOOLEAN]
      BY <1>26 DEF ReadPeek, Return, TypeOK, Magic
    <2>. QED
      BY <1>26, <2>1, <2>2, <2>3 DEF ReadPeek, TypeOK, CallRecord, names, memory, history
  <1>27. ASSUME NEW p \in Proc, ReadMagic(p) PROVE TypeOK'
    <2>1. pc' \in [Proc -> Pc]
      BY <1>27 DEF ReadMagic, GiveUpOrTurn, Return, TypeOK, Pc, Goto, At
    <2>2. call' \in [Proc -> CallRecord]
      BY <1>27, LeaveTyped DEF ReadMagic, GiveUpOrTurn
    <2>3. sawend' \in [Proc -> BOOLEAN]
      BY <1>27 DEF ReadMagic, GiveUpOrTurn, Return, TypeOK, Magic
    <2>. QED
      BY <1>27, <2>1, <2>2, <2>3 DEF ReadMagic, TypeOK, CallRecord, names, memory, history
  <1>28. ASSUME NEW p \in Proc, Cancel(p) PROVE TypeOK'
    <2>1. magic' \in [Seg -> Magic]
      BY <1>28, SegOf DEF Cancel, MarkEof, TypeOK, Goto, At, HasSeg, HasAttached, Talking, InUse,
         Magic
    <2>2. enders' \in [Seg -> SUBSET Proc]
      BY <1>28 DEF Cancel, MarkEof, TypeOK
    <2>. QED
      BY <1>28, <2>1, <2>2 DEF Cancel, MarkEof, TypeOK, CallRecord, names
  <1>29. ASSUME NEW p \in Proc, BeginDestroy(p) PROVE TypeOK'
    <2>1. pc' \in [Proc -> Pc]
      BY <1>29 DEF BeginDestroy, TypeOK, Pc, Goto, At
    <2>. QED
      BY <1>29, <2>1 DEF BeginDestroy, TypeOK, CallRecord, names, memory, history
  <1>30. ASSUME NEW p \in Proc, Eof(p) PROVE TypeOK'
    <2>1. pc' \in [Proc -> Pc]
      BY <1>30 DEF Eof, TypeOK, Pc, Goto, At
    <2>2. magic' \in [Seg -> Magic]
      BY <1>30, SegOf DEF Eof, MarkEof, TypeOK, Goto, At, HasSeg, HasAttached, Talking, InUse,
         Magic
    <2>3. enders' \in [Seg -> SUBSET Proc]
      BY <1>30 DEF Eof, MarkEof, TypeOK
    <2>. QED
      BY <1>30, <2>1, <2>2, <2>3 DEF Eof, MarkEof, TypeOK, CallRecord, names
  <1>31. ASSUME NEW p \in Proc, Detach(p) PROVE TypeOK'
    <2>1. pc' \in [Proc -> Pc]
      BY <1>31 DEF Detach, Leave, TypeOK, Pc, Goto, At
    <2>2. seg' \in [Proc -> Seg \cup {None}]
      BY <1>31, SegOf DEF Detach, Leave, TypeOK, Goto, At, HasSeg, HasAttached, Talking, InUse,
         Magic
    <2>3. want' \in [Proc -> Magic]
      BY <1>31 DEF Detach, Leave, TypeOK, Magic
    <2>4. call' \in [Proc -> CallRecord]
      BY <1>31, LeaveTyped DEF Detach
    <2>5. sawend' \in [Proc -> BOOLEAN]
      BY <1>31 DEF Detach, Leave, TypeOK, Magic
    <2>6. attached' \in [Seg -> SUBSET Proc]
      BY <1>31 DEF Detach, TypeOK
    <2>. QED
      BY <1>31, <2>1, <2>2, <2>3, <2>4, <2>5, <2>6 DEF Detach, TypeOK, CallRecord, names, memory,
         history
  <1>32. ASSUME NEW p \in Proc, Rmid(p) PROVE TypeOK'
    <2>a. seg[p] \in Seg /\ seg[p] \in created
      BY <1>32, SegOf DEF Rmid, At, HasSeg, HasAttached, Talking, InUse
    <2>1. pc' \in [Proc -> Pc]
      BY <1>32 DEF Rmid, MarkRemoved, Leave, TypeOK, Pc, Goto, At
    <2>2. seg' \in [Proc -> Seg \cup {None}]
      BY <1>32, SegOf DEF Rmid, MarkRemoved, Leave, TypeOK, Goto, At, HasSeg, HasAttached, Talking,
         InUse, Magic
    <2>3. want' \in [Proc -> Magic]
      BY <1>32 DEF Rmid, MarkRemoved, Leave, TypeOK, Magic
    <2>4. call' \in [Proc -> CallRecord]
      BY <1>32, LeaveTyped DEF Rmid
    <2>5. sawend' \in [Proc -> BOOLEAN]
      BY <1>32 DEF Rmid, MarkRemoved, Leave, TypeOK, Magic
    <2>6. byname' \in Seg \cup {None} /\ created' \subseteq Seg /\ removed' \subseteq created'
      BY <1>32, <2>a DEF Rmid, MarkRemoved, TypeOK
    <2>. QED
      BY <1>32, <2>1, <2>2, <2>3, <2>4, <2>5, <2>6 DEF Rmid, TypeOK, CallRecord, names, memory,
         history
  <1>33. ASSUME NEW p \in Proc, Die(p) PROVE TypeOK'
    <2>1. pc' \in [Proc -> Pc]
      BY <1>33 DEF Die, Leave, TypeOK, Pc, Goto, At
    <2>2. seg' \in [Proc -> Seg \cup {None}]
      BY <1>33, SegOf DEF Die, Leave, TypeOK, Goto, At, HasSeg, HasAttached, Talking, InUse, Magic
    <2>3. want' \in [Proc -> Magic]
      BY <1>33 DEF Die, Leave, TypeOK, Magic
    <2>4. call' \in [Proc -> CallRecord]
      BY <1>33, LeaveTyped DEF Die
    <2>5. sawend' \in [Proc -> BOOLEAN]
      BY <1>33 DEF Die, Leave, TypeOK, Magic
    <2>6. attached' \in [Seg -> SUBSET Proc]
      BY <1>33, SegOf DEF Die, Leave, TypeOK, Goto, At, HasSeg, HasAttached, Talking, InUse, Magic
    <2>. QED
      BY <1>33, <2>1, <2>2, <2>3, <2>4, <2>5, <2>6 DEF Die, TypeOK, CallRecord, names, memory,
         history
  <1>34. CASE UNCHANGED vars
    BY <1>34 DEF vars, names, memory, history, TypeOK
  <1>. QED
    BY <1>1, <1>2, <1>3, <1>4, <1>5, <1>6, <1>7, <1>8, <1>9, <1>10, <1>11, <1>12, <1>13, <1>14,
       <1>15, <1>16, <1>17, <1>18, <1>19, <1>20, <1>21, <1>22, <1>23, <1>24, <1>25, <1>26, <1>27,
       <1>28, <1>29, <1>30, <1>31, <1>32, <1>33, <1>34 DEF Next, Step, Choice, Connect, Write, Read,
       Destroy

\* The three answers of the handshake.
LEMMA AnswerCases ==
    ASSUME TypeOK, RoleInv, NEW p \in Proc, Answer(p)
    PROVE  /\ pc[p] = "answer" /\ seg[p] \in Seg
           /\ UNCHANGED <<names, attached, writehand, readhand, ring, seg, call, sawend, written, taken>>
           /\ \/ /\ p \in Readers /\ want[p] = "winit" /\ pc' = [pc EXCEPT ![p] = "wait"]
                 /\ magic' = [magic EXCEPT ![seg[p]] = "rinit"]
                 /\ want' = [want EXCEPT ![p] = "magic"] /\ joined' = joined
              \/ /\ p \in Writers /\ want[p] = "rinit" /\ pc' = [pc EXCEPT ![p] = "idle"]
                 /\ magic' = [magic EXCEPT ![seg[p]] = "magic"] /\ want' = want /\ joined' = joined
              \/ /\ p \in Readers /\ want[p] = "magic" /\ pc' = [pc EXCEPT ![p] = "idle"]
                 /\ joined' = [joined EXCEPT ![seg[p]] = @ \cup {p}] /\ want' = want /\ magic' = magic
  <1>1. pc[p] = "answer" /\ seg[p] \in Seg
    BY SegOf DEF Answer, At, HasSeg, HasAttached, Talking
  <1>2. \/ p \in Readers /\ want[p] = "winit"
        \/ p \in Writers /\ want[p] = "rinit"
        \/ p \in Readers /\ want[p] = "magic"
    BY <1>1 DEF RoleInv, RoleOf, Talking, Proc
  <1>3. CASE p \in Readers /\ want[p] = "winit"
    BY <1>1, <1>3 DEF Answer, Goto
  <1>4. CASE p \in Writers /\ want[p] = "rinit"
    BY <1>1, <1>4 DEF Answer, Goto
  <1>5. CASE p \in Readers /\ want[p] = "magic"
    BY <1>1, <1>5 DEF Answer, Goto
  <1>. QED
    BY <1>2, <1>3, <1>4, <1>5

\* A step changes what its own process knows.
LEMMA OwnOnly ==
    ASSUME TypeOK, RoleInv, NEW p \in Proc, Step(p) \/ Choice(p), NEW q \in Proc, q # p
    PROVE  /\ pc'[q] = pc[q] /\ seg'[q] = seg[q] /\ want'[q] = want[q]
           /\ call'[q] = call[q] /\ sawend'[q] = sawend[q]
  <1>0. CASE Answer(p)
    BY SMTT(40), <1>0, AnswerCases DEF TypeOK
  <1>10. CASE Create(p) \/ Get(p) \/ Find(p)
    BY <1>10 DEF Create, Get, Leave, Find, Goto, SetCall, TypeOK, names, memory, history
  <1>11. CASE Remove(p) \/ Stat(p)
    BY <1>11 DEF Leave, Remove, Stat, Goto, SetCall, TypeOK, names, memory, history
  <1>12. CASE Attach(p)
    BY <1>12 DEF Leave, Attach, Goto, SetCall, TypeOK, names, memory, history
  <1>13. CASE InitHeader(p) \/ Syn(p) \/ Wait(p) \/ Look(p) \/ Alone(p) \/ Check(p)
    BY <1>13 DEF InitHeader, Syn, Wait, Look, Alone, Check, Goto, TypeOK, names, memory, history
  <1>1. CASE Connect(p)
    BY <1>1, <1>0, <1>10, <1>13, <1>11, <1>12 DEF Connect
  <1>2. CASE Write(p)
    BY <1>2 DEF Write, Drop, DropPeek, Return, SetCall, WriteAvailable, BeginCopy, WithNothing,
       CopyIn, PublishWrite, Advance, WritePeek, GiveUpOrTurn, Goto, TypeOK, names, memory, history
  <1>3. CASE Read(p)
    BY <1>3 DEF Read, ReadAvailable, BeginCopy, WithNothing, Return, SetCall, CopyOut, PublishRead,
       Advance, ReadPeek, ReadMagic, GiveUpOrTurn, Goto, TypeOK, names, memory, history
  <1>14. CASE Eof(p)
    BY <1>14 DEF Eof, Goto, TypeOK, names, memory, history
  <1>15. CASE Detach(p)
    BY <1>15 DEF Detach, Goto, Leave, SetCall, TypeOK, names, memory, history
  <1>16. CASE Rmid(p)
    BY <1>16 DEF Rmid, Goto, Leave, SetCall, TypeOK, names, memory, history
  <1>4. CASE Destroy(p)
    BY <1>4, <1>14, <1>15, <1>16 DEF Destroy
  <1>5. CASE Choice(p)
    BY <1>5 DEF Choice, Start, BeginWrite, SetCall, BeginRead, Cancel, BeginDestroy, Die, Leave,
       Goto, TypeOK, names, memory, history
  <1>. QED
    BY <1>1, <1>2, <1>3, <1>4, <1>5 DEF Step

\* A step that keeps its own process in its role, and takes no segment from
\* another, keeps all of them.
LEMMA RoleFrame ==
    ASSUME TypeOK, RoleInv, NEW p \in Proc, Step(p) \/ Choice(p), RoleOf(p)',
           byname' \in created' \cup {None}, created \subseteq created',
           \A q \in Proc \ {p}, s \in Seg : q \in attached[s] => q \in attached'[s]
    PROVE  RoleInv'
  <1>1. ASSUME NEW q \in Proc, q # p PROVE RoleOf(q)'
    <2>1. pc'[q] = pc[q] /\ seg'[q] = seg[q] /\ want'[q] = want[q]
      BY <1>1, OwnOnly
    <2>2. pc[q] \in HasAttached => pc[q] \in HasSeg /\ q \in attached'[seg[q]]
      BY <1>1, SegOf DEF RoleInv, RoleOf, HasSeg
    <2>3. seg[q] \in created => seg[q] \in created'
      OBVIOUS
    <2>. QED
      BY <1>1, <2>1, <2>2, <2>3 DEF RoleInv, RoleOf
  <1>. QED
    BY <1>1 DEF RoleInv

\* Every step keeps its process in its role.
LEMMA RoleStep ==
    ASSUME TypeInv, [Next]_vars, TypeOK'
    PROVE  RoleInv'
  <1>1. ASSUME NEW p \in Proc, Start(p) PROVE RoleInv'
    <2>0. pc' = [pc EXCEPT ![p] = "get"] \/ (p \in Admins /\ pc' = [pc EXCEPT ![p] = "find"])
      BY <1>1 DEF Start, Goto
    <2>1. RoleOf(p)'
      BY <1>1, <2>0, RolesAssumption DEF Start, At, TypeInv, RoleInv, RoleOf, TypeOK, HasSeg,
         HasAttached, InUse, Talking, names
    <2>2. UNCHANGED names /\ UNCHANGED attached
      BY <1>1 DEF Start
    <2>. QED
      BY <1>1, <2>1, <2>2, RoleFrame DEF Step, Choice, Connect, Write, Read, Destroy, TypeInv,
         names, RoleInv
  <1>2. ASSUME NEW p \in Proc, Create(p) PROVE RoleInv'
    <2>1. RoleOf(p)'
      <3>1. pc \in [Proc -> Pc] /\ seg \in [Proc -> Seg \cup {None}] /\ created \subseteq Seg
        BY DEF TypeInv, TypeOK
      <3>2. RoleOf(p) /\ byname \in created \cup {None} /\ pc[p] = "get" /\ p \in Writers
        BY <1>2 DEF Create, At, TypeInv, RoleInv
      <3>3. CASE pc' = [pc EXCEPT ![p] = "attach"] /\ seg'[p] \in created'
        BY <3>1, <3>2, <3>3, RolesAssumption DEF RoleOf, HasSeg, HasAttached, InUse, Talking
      <3>4. CASE pc' = [pc EXCEPT ![p] = "find"] /\ seg' = seg /\ created' = created
        BY <3>1, <3>2, <3>4, RolesAssumption DEF RoleOf, HasSeg, HasAttached, InUse, Talking
      <3>. QED
        BY <1>2, <3>1, <3>3, <3>4 DEF Create, Goto
    <2>2. /\ byname' \in created' \cup {None} /\ created \subseteq created'
          /\ \A q \in Proc \ {p}, s \in Seg : q \in attached[s] => q \in attached'[s]
      BY <1>2 DEF Create, TypeInv, RoleInv, TypeOK, names
    <2>. QED
      BY <1>2, <2>1, <2>2, RoleFrame DEF Step, Choice, Connect, Write, Read, Destroy, TypeInv,
         names, RoleInv
  <1>3. ASSUME NEW p \in Proc, Get(p) PROVE RoleInv'
    <2>1. RoleOf(p)'
      BY <1>3, RolesAssumption, SegAssumption, SegOf DEF Get, Leave, Goto, At, TypeInv, RoleInv,
         RoleOf, TypeOK, HasSeg, HasAttached, InUse, Talking, Proc, names, Exists
    <2>2. /\ byname' \in created' \cup {None} /\ created \subseteq created'
          /\ \A q \in Proc \ {p}, s \in Seg : q \in attached[s] => q \in attached'[s]
      BY <1>3 DEF Get, Leave, TypeInv, RoleInv, TypeOK, names
    <2>. QED
      BY <1>3, <2>1, <2>2, RoleFrame DEF Step, Choice, Connect, Write, Read, Destroy, TypeInv,
         names, RoleInv
  <1>4. ASSUME NEW p \in Proc, Find(p) PROVE RoleInv'
    <2>1. RoleOf(p)'
      BY <1>4, RolesAssumption, SegAssumption, SegOf DEF Find, Leave, Goto, At, TypeInv, RoleInv,
         RoleOf, TypeOK, HasSeg, HasAttached, InUse, Talking, Proc, names, Exists
    <2>2. /\ byname' \in created' \cup {None} /\ created \subseteq created'
          /\ \A q \in Proc \ {p}, s \in Seg : q \in attached[s] => q \in attached'[s]
      BY <1>4 DEF Find, Leave, TypeInv, RoleInv, TypeOK, names
    <2>. QED
      BY <1>4, <2>1, <2>2, RoleFrame DEF Step, Choice, Connect, Write, Read, Destroy, TypeInv,
         names, RoleInv
  <1>5. ASSUME NEW p \in Proc, Remove(p) PROVE RoleInv'
    <2>1. RoleOf(p)'
      BY <1>5, RolesAssumption, SegAssumption, SegOf DEF Remove, MarkRemoved, Leave, Goto, At,
         TypeInv, RoleInv, RoleOf, TypeOK, HasSeg, HasAttached, InUse, Talking, Proc, names, Exists
    <2>2. /\ byname' \in created' \cup {None} /\ created \subseteq created'
          /\ \A q \in Proc \ {p}, s \in Seg : q \in attached[s] => q \in attached'[s]
      BY <1>5 DEF Remove, MarkRemoved, Leave, TypeInv, RoleInv, TypeOK, names
    <2>. QED
      BY <1>5, <2>1, <2>2, RoleFrame DEF Step, Choice, Connect, Write, Read, Destroy, TypeInv,
         names, RoleInv
  <1>6. ASSUME NEW p \in Proc, Stat(p) PROVE RoleInv'
    <2>1. RoleOf(p)'
      BY <1>6, RolesAssumption, SegAssumption, SegOf DEF Stat, Leave, Goto, At, TypeInv, RoleInv,
         RoleOf, TypeOK, HasSeg, HasAttached, InUse, Talking, Proc, names, Exists
    <2>2. /\ byname' \in created' \cup {None} /\ created \subseteq created'
          /\ \A q \in Proc \ {p}, s \in Seg : q \in attached[s] => q \in attached'[s]
      BY <1>6 DEF Stat, Leave, TypeInv, RoleInv, TypeOK, names
    <2>. QED
      BY <1>6, <2>1, <2>2, RoleFrame DEF Step, Choice, Connect, Write, Read, Destroy, TypeInv,
         names, RoleInv
  <1>7. ASSUME NEW p \in Proc, Attach(p) PROVE RoleInv'
    <2>0. seg[p] \in Seg
      BY <1>7, SegOf DEF TypeInv, Attach, At, HasSeg
    <2>1. RoleOf(p)'
      BY <1>7, <2>0, RolesAssumption, SegAssumption DEF Attach, Leave, Goto, At, TypeInv, RoleInv,
         RoleOf, TypeOK, HasSeg, HasAttached, InUse, Talking, Proc, names, Exists
    <2>2. /\ UNCHANGED names
          /\ \A q \in Proc \ {p}, s \in Seg : q \in attached[s] => q \in attached'[s]
      <3>1. attached' = attached \/ attached' = [attached EXCEPT ![seg[p]] = attached[seg[p]] \cup {p}]
        BY <1>7 DEF Attach
      <3>2. UNCHANGED names
        BY <1>7 DEF Attach
      <3>3. attached \in [Seg -> SUBSET Proc]
        BY DEF TypeInv, TypeOK
      <3>. QED
        BY <2>0, <3>1, <3>2, <3>3
    <2>. QED
      BY <1>7, <2>1, <2>2, RoleFrame DEF Step, Choice, Connect, Write, Read, Destroy, TypeInv,
         names, RoleInv
  <1>8. ASSUME NEW p \in Proc, InitHeader(p) PROVE RoleInv'
    <2>1. RoleOf(p)'
      BY <1>8, RolesAssumption, SegAssumption, SegOf DEF InitHeader, Goto, At, TypeInv, RoleInv,
         RoleOf, TypeOK, HasSeg, HasAttached, InUse, Talking, Proc, names, Exists
    <2>2. /\ byname' \in created' \cup {None} /\ created \subseteq created'
          /\ \A q \in Proc \ {p}, s \in Seg : q \in attached[s] => q \in attached'[s]
      BY <1>8 DEF InitHeader, TypeInv, RoleInv, TypeOK, names
    <2>. QED
      BY <1>8, <2>1, <2>2, RoleFrame DEF Step, Choice, Connect, Write, Read, Destroy, TypeInv,
         names, RoleInv
  <1>9. ASSUME NEW p \in Proc, Syn(p) PROVE RoleInv'
    <2>1. RoleOf(p)'
      BY <1>9, RolesAssumption, SegAssumption, SegOf DEF Syn, Goto, At, TypeInv, RoleInv, RoleOf,
         TypeOK, HasSeg, HasAttached, InUse, Talking, Proc, names, Exists
    <2>2. /\ byname' \in created' \cup {None} /\ created \subseteq created'
          /\ \A q \in Proc \ {p}, s \in Seg : q \in attached[s] => q \in attached'[s]
      BY <1>9 DEF Syn, TypeInv, RoleInv, TypeOK, names
    <2>. QED
      BY <1>9, <2>1, <2>2, RoleFrame DEF Step, Choice, Connect, Write, Read, Destroy, TypeInv,
         names, RoleInv
  <1>10. ASSUME NEW p \in Proc, Wait(p) PROVE RoleInv'
    <2>1. RoleOf(p)'
      BY <1>10, RolesAssumption, SegAssumption, SegOf DEF Wait, Goto, At, TypeInv, RoleInv, RoleOf,
         TypeOK, HasSeg, HasAttached, InUse, Talking, Proc, names, Exists
    <2>2. /\ byname' \in created' \cup {None} /\ created \subseteq created'
          /\ \A q \in Proc \ {p}, s \in Seg : q \in attached[s] => q \in attached'[s]
      BY <1>10 DEF Wait, TypeInv, RoleInv, TypeOK, names
    <2>. QED
      BY <1>10, <2>1, <2>2, RoleFrame DEF Step, Choice, Connect, Write, Read, Destroy, TypeInv,
         names, RoleInv
  <1>11. ASSUME NEW p \in Proc, Look(p) PROVE RoleInv'
    <2>1. RoleOf(p)'
      BY <1>11, RolesAssumption, SegAssumption, SegOf DEF Look, Goto, At, TypeInv, RoleInv, RoleOf,
         TypeOK, HasSeg, HasAttached, InUse, Talking, Proc, names, Exists
    <2>2. /\ byname' \in created' \cup {None} /\ created \subseteq created'
          /\ \A q \in Proc \ {p}, s \in Seg : q \in attached[s] => q \in attached'[s]
      BY <1>11 DEF Look, TypeInv, RoleInv, TypeOK, names
    <2>. QED
      BY <1>11, <2>1, <2>2, RoleFrame DEF Step, Choice, Connect, Write, Read, Destroy, TypeInv,
         names, RoleInv
  <1>12. ASSUME NEW p \in Proc, Alone(p) PROVE RoleInv'
    <2>1. RoleOf(p)'
      BY <1>12, RolesAssumption, SegAssumption, SegOf DEF Alone, Goto, At, TypeInv, RoleInv, RoleOf,
         TypeOK, HasSeg, HasAttached, InUse, Talking, Proc, names, Exists
    <2>2. /\ byname' \in created' \cup {None} /\ created \subseteq created'
          /\ \A q \in Proc \ {p}, s \in Seg : q \in attached[s] => q \in attached'[s]
      BY <1>12 DEF Alone, TypeInv, RoleInv, TypeOK, names
    <2>. QED
      BY <1>12, <2>1, <2>2, RoleFrame DEF Step, Choice, Connect, Write, Read, Destroy, TypeInv,
         names, RoleInv
  <1>13. ASSUME NEW p \in Proc, Check(p) PROVE RoleInv'
    <2>1. RoleOf(p)'
      BY <1>13, RolesAssumption, SegAssumption, SegOf DEF Check, Goto, At, TypeInv, RoleInv, RoleOf,
         TypeOK, HasSeg, HasAttached, InUse, Talking, Proc, names, Exists
    <2>2. /\ byname' \in created' \cup {None} /\ created \subseteq created'
          /\ \A q \in Proc \ {p}, s \in Seg : q \in attached[s] => q \in attached'[s]
      BY <1>13 DEF Check, TypeInv, RoleInv, TypeOK, names
    <2>. QED
      BY <1>13, <2>1, <2>2, RoleFrame DEF Step, Choice, Connect, Write, Read, Destroy, TypeInv,
         names, RoleInv
  <1>14. ASSUME NEW p \in Proc, Answer(p) PROVE RoleInv'
    <2>1. RoleOf(p)'
      BY <1>14, AnswerCases, RolesAssumption DEF TypeInv, RoleInv, RoleOf, TypeOK, HasSeg,
         HasAttached, InUse, Talking, names
    <2>2. names' = names /\ attached' = attached
      BY <1>14, AnswerCases DEF TypeInv
    <2>. QED
      BY <1>14, <2>1, <2>2, RoleFrame DEF Step, Choice, Connect, Write, Read, Destroy, TypeInv,
         names, RoleInv
  <1>15. ASSUME NEW p \in Proc, BeginWrite(p) PROVE RoleInv'
    <2>1. RoleOf(p)'
      BY <1>15, RolesAssumption, SegAssumption, SegOf DEF BeginWrite, Goto, At, TypeInv, RoleInv,
         RoleOf, TypeOK, HasSeg, HasAttached, InUse, Talking, Proc, names, Exists
    <2>2. /\ byname' \in created' \cup {None} /\ created \subseteq created'
          /\ \A q \in Proc \ {p}, s \in Seg : q \in attached[s] => q \in attached'[s]
      BY <1>15 DEF BeginWrite, TypeInv, RoleInv, TypeOK, names
    <2>. QED
      BY <1>15, <2>1, <2>2, RoleFrame DEF Step, Choice, Connect, Write, Read, Destroy, TypeInv,
         names, RoleInv
  <1>16. ASSUME NEW p \in Proc, Drop(p) PROVE RoleInv'
    <2>1. RoleOf(p)'
      BY <1>16, RolesAssumption, SegAssumption, SegOf DEF Drop, Goto, At, TypeInv, RoleInv, RoleOf,
         TypeOK, HasSeg, HasAttached, InUse, Talking, Proc, names, Exists
    <2>2. /\ byname' \in created' \cup {None} /\ created \subseteq created'
          /\ \A q \in Proc \ {p}, s \in Seg : q \in attached[s] => q \in attached'[s]
      BY <1>16 DEF Drop, TypeInv, RoleInv, TypeOK, names
    <2>. QED
      BY <1>16, <2>1, <2>2, RoleFrame DEF Step, Choice, Connect, Write, Read, Destroy, TypeInv,
         names, RoleInv
  <1>17. ASSUME NEW p \in Proc, DropPeek(p) PROVE RoleInv'
    <2>1. RoleOf(p)'
      BY <1>17, RolesAssumption, SegAssumption, SegOf DEF DropPeek, Return, Goto, At, TypeInv,
         RoleInv, RoleOf, TypeOK, HasSeg, HasAttached, InUse, Talking, Proc, names, Exists
    <2>2. /\ byname' \in created' \cup {None} /\ created \subseteq created'
          /\ \A q \in Proc \ {p}, s \in Seg : q \in attached[s] => q \in attached'[s]
      BY <1>17 DEF DropPeek, Return, TypeInv, RoleInv, TypeOK, names
    <2>. QED
      BY <1>17, <2>1, <2>2, RoleFrame DEF Step, Choice, Connect, Write, Read, Destroy, TypeInv,
         names, RoleInv
  <1>18. ASSUME NEW p \in Proc, WriteAvailable(p) PROVE RoleInv'
    <2>1. RoleOf(p)'
      BY <1>18, RolesAssumption, SegAssumption, SegOf DEF WriteAvailable, BeginCopy, WithNothing,
         Return, Goto, At, TypeInv, RoleInv, RoleOf, TypeOK, HasSeg, HasAttached, InUse, Talking,
         Proc, names, Exists
    <2>2. /\ byname' \in created' \cup {None} /\ created \subseteq created'
          /\ \A q \in Proc \ {p}, s \in Seg : q \in attached[s] => q \in attached'[s]
      BY <1>18 DEF WriteAvailable, BeginCopy, WithNothing, Return, TypeInv, RoleInv, TypeOK, names
    <2>. QED
      BY <1>18, <2>1, <2>2, RoleFrame DEF Step, Choice, Connect, Write, Read, Destroy, TypeInv,
         names, RoleInv
  <1>19. ASSUME NEW p \in Proc, CopyIn(p) PROVE RoleInv'
    <2>1. RoleOf(p)'
      BY <1>19, RolesAssumption, SegAssumption, SegOf DEF CopyIn, Goto, At, TypeInv, RoleInv,
         RoleOf, TypeOK, HasSeg, HasAttached, InUse, Talking, Proc, names, Exists
    <2>2. /\ byname' \in created' \cup {None} /\ created \subseteq created'
          /\ \A q \in Proc \ {p}, s \in Seg : q \in attached[s] => q \in attached'[s]
      BY <1>19 DEF CopyIn, TypeInv, RoleInv, TypeOK, names
    <2>. QED
      BY <1>19, <2>1, <2>2, RoleFrame DEF Step, Choice, Connect, Write, Read, Destroy, TypeInv,
         names, RoleInv
  <1>20. ASSUME NEW p \in Proc, PublishWrite(p) PROVE RoleInv'
    <2>1. RoleOf(p)'
      BY <1>20, RolesAssumption, SegAssumption, SegOf DEF PublishWrite, Advance, Return, Goto, At,
         TypeInv, RoleInv, RoleOf, TypeOK, HasSeg, HasAttached, InUse, Talking, Proc, names, Exists
    <2>2. /\ byname' \in created' \cup {None} /\ created \subseteq created'
          /\ \A q \in Proc \ {p}, s \in Seg : q \in attached[s] => q \in attached'[s]
      BY <1>20 DEF PublishWrite, Advance, Return, TypeInv, RoleInv, TypeOK, names
    <2>. QED
      BY <1>20, <2>1, <2>2, RoleFrame DEF Step, Choice, Connect, Write, Read, Destroy, TypeInv,
         names, RoleInv
  <1>21. ASSUME NEW p \in Proc, WritePeek(p) PROVE RoleInv'
    <2>1. RoleOf(p)'
      BY <1>21, RolesAssumption, SegAssumption, SegOf DEF WritePeek, GiveUpOrTurn, Return, Goto, At,
         TypeInv, RoleInv, RoleOf, TypeOK, HasSeg, HasAttached, InUse, Talking, Proc, names, Exists
    <2>2. /\ byname' \in created' \cup {None} /\ created \subseteq created'
          /\ \A q \in Proc \ {p}, s \in Seg : q \in attached[s] => q \in attached'[s]
      BY <1>21 DEF WritePeek, GiveUpOrTurn, Return, TypeInv, RoleInv, TypeOK, names
    <2>. QED
      BY <1>21, <2>1, <2>2, RoleFrame DEF Step, Choice, Connect, Write, Read, Destroy, TypeInv,
         names, RoleInv
  <1>22. ASSUME NEW p \in Proc, BeginRead(p) PROVE RoleInv'
    <2>1. RoleOf(p)'
      BY <1>22, RolesAssumption, SegAssumption, SegOf DEF BeginRead, Goto, At, TypeInv, RoleInv,
         RoleOf, TypeOK, HasSeg, HasAttached, InUse, Talking, Proc, names, Exists
    <2>2. /\ byname' \in created' \cup {None} /\ created \subseteq created'
          /\ \A q \in Proc \ {p}, s \in Seg : q \in attached[s] => q \in attached'[s]
      BY <1>22 DEF BeginRead, TypeInv, RoleInv, TypeOK, names
    <2>. QED
      BY <1>22, <2>1, <2>2, RoleFrame DEF Step, Choice, Connect, Write, Read, Destroy, TypeInv,
         names, RoleInv
  <1>23. ASSUME NEW p \in Proc, ReadAvailable(p) PROVE RoleInv'
    <2>1. RoleOf(p)'
      BY <1>23, RolesAssumption, SegAssumption, SegOf DEF ReadAvailable, BeginCopy, WithNothing,
         Return, Goto, At, TypeInv, RoleInv, RoleOf, TypeOK, HasSeg, HasAttached, InUse, Talking,
         Proc, names, Exists
    <2>2. /\ byname' \in created' \cup {None} /\ created \subseteq created'
          /\ \A q \in Proc \ {p}, s \in Seg : q \in attached[s] => q \in attached'[s]
      BY <1>23 DEF ReadAvailable, BeginCopy, WithNothing, Return, TypeInv, RoleInv, TypeOK, names
    <2>. QED
      BY <1>23, <2>1, <2>2, RoleFrame DEF Step, Choice, Connect, Write, Read, Destroy, TypeInv,
         names, RoleInv
  <1>24. ASSUME NEW p \in Proc, CopyOut(p) PROVE RoleInv'
    <2>1. RoleOf(p)'
      BY <1>24, RolesAssumption, SegAssumption, SegOf DEF CopyOut, Goto, At, TypeInv, RoleInv,
         RoleOf, TypeOK, HasSeg, HasAttached, InUse, Talking, Proc, names, Exists
    <2>2. /\ byname' \in created' \cup {None} /\ created \subseteq created'
          /\ \A q \in Proc \ {p}, s \in Seg : q \in attached[s] => q \in attached'[s]
      BY <1>24 DEF CopyOut, TypeInv, RoleInv, TypeOK, names
    <2>. QED
      BY <1>24, <2>1, <2>2, RoleFrame DEF Step, Choice, Connect, Write, Read, Destroy, TypeInv,
         names, RoleInv
  <1>25. ASSUME NEW p \in Proc, PublishRead(p) PROVE RoleInv'
    <2>1. RoleOf(p)'
      BY <1>25, RolesAssumption, SegAssumption, SegOf DEF PublishRead, Advance, Return, Goto, At,
         TypeInv, RoleInv, RoleOf, TypeOK, HasSeg, HasAttached, InUse, Talking, Proc, names, Exists
    <2>2. /\ byname' \in created' \cup {None} /\ created \subseteq created'
          /\ \A q \in Proc \ {p}, s \in Seg : q \in attached[s] => q \in attached'[s]
      BY <1>25 DEF PublishRead, Advance, Return, TypeInv, RoleInv, TypeOK, names
    <2>. QED
      BY <1>25, <2>1, <2>2, RoleFrame DEF Step, Choice, Connect, Write, Read, Destroy, TypeInv,
         names, RoleInv
  <1>26. ASSUME NEW p \in Proc, ReadPeek(p) PROVE RoleInv'
    <2>1. RoleOf(p)'
      BY <1>26, RolesAssumption, SegAssumption, SegOf DEF ReadPeek, Return, Goto, At, TypeInv,
         RoleInv, RoleOf, TypeOK, HasSeg, HasAttached, InUse, Talking, Proc, names, Exists
    <2>2. /\ byname' \in created' \cup {None} /\ created \subseteq created'
          /\ \A q \in Proc \ {p}, s \in Seg : q \in attached[s] => q \in attached'[s]
      BY <1>26 DEF ReadPeek, Return, TypeInv, RoleInv, TypeOK, names
    <2>. QED
      BY <1>26, <2>1, <2>2, RoleFrame DEF Step, Choice, Connect, Write, Read, Destroy, TypeInv,
         names, RoleInv
  <1>27. ASSUME NEW p \in Proc, ReadMagic(p) PROVE RoleInv'
    <2>1. RoleOf(p)'
      BY <1>27, RolesAssumption, SegAssumption, SegOf DEF ReadMagic, GiveUpOrTurn, Return, Goto, At,
         TypeInv, RoleInv, RoleOf, TypeOK, HasSeg, HasAttached, InUse, Talking, Proc, names, Exists
    <2>2. /\ byname' \in created' \cup {None} /\ created \subseteq created'
          /\ \A q \in Proc \ {p}, s \in Seg : q \in attached[s] => q \in attached'[s]
      BY <1>27 DEF ReadMagic, GiveUpOrTurn, Return, TypeInv, RoleInv, TypeOK, names
    <2>. QED
      BY <1>27, <2>1, <2>2, RoleFrame DEF Step, Choice, Connect, Write, Read, Destroy, TypeInv,
         names, RoleInv
  <1>28. ASSUME NEW p \in Proc, Cancel(p) PROVE RoleInv'
    <2>1. RoleOf(p)'
      BY <1>28, RolesAssumption, SegAssumption, SegOf DEF Cancel, Goto, At, TypeInv, RoleInv,
         RoleOf, TypeOK, HasSeg, HasAttached, InUse, Talking, Proc, names, Exists
    <2>2. /\ byname' \in created' \cup {None} /\ created \subseteq created'
          /\ \A q \in Proc \ {p}, s \in Seg : q \in attached[s] => q \in attached'[s]
      BY <1>28 DEF Cancel, TypeInv, RoleInv, TypeOK, names
    <2>. QED
      BY <1>28, <2>1, <2>2, RoleFrame DEF Step, Choice, Connect, Write, Read, Destroy, TypeInv,
         names, RoleInv
  <1>29. ASSUME NEW p \in Proc, BeginDestroy(p) PROVE RoleInv'
    <2>1. RoleOf(p)'
      BY <1>29, RolesAssumption, SegAssumption, SegOf DEF BeginDestroy, Goto, At, TypeInv, RoleInv,
         RoleOf, TypeOK, HasSeg, HasAttached, InUse, Talking, Proc, names, Exists
    <2>2. /\ byname' \in created' \cup {None} /\ created \subseteq created'
          /\ \A q \in Proc \ {p}, s \in Seg : q \in attached[s] => q \in attached'[s]
      BY <1>29 DEF BeginDestroy, TypeInv, RoleInv, TypeOK, names
    <2>. QED
      BY <1>29, <2>1, <2>2, RoleFrame DEF Step, Choice, Connect, Write, Read, Destroy, TypeInv,
         names, RoleInv
  <1>30. ASSUME NEW p \in Proc, Eof(p) PROVE RoleInv'
    <2>1. RoleOf(p)'
      BY <1>30, RolesAssumption, SegAssumption, SegOf DEF Eof, Goto, At, TypeInv, RoleInv, RoleOf,
         TypeOK, HasSeg, HasAttached, InUse, Talking, Proc, names, Exists
    <2>2. /\ byname' \in created' \cup {None} /\ created \subseteq created'
          /\ \A q \in Proc \ {p}, s \in Seg : q \in attached[s] => q \in attached'[s]
      BY <1>30 DEF Eof, TypeInv, RoleInv, TypeOK, names
    <2>. QED
      BY <1>30, <2>1, <2>2, RoleFrame DEF Step, Choice, Connect, Write, Read, Destroy, TypeInv,
         names, RoleInv
  <1>31. ASSUME NEW p \in Proc, Detach(p) PROVE RoleInv'
    <2>1. RoleOf(p)'
      BY <1>31, RolesAssumption, SegAssumption, SegOf DEF Detach, Leave, Goto, At, TypeInv, RoleInv,
         RoleOf, TypeOK, HasSeg, HasAttached, InUse, Talking, Proc, names, Exists
    <2>2. /\ byname' \in created' \cup {None} /\ created \subseteq created'
          /\ \A q \in Proc \ {p}, s \in Seg : q \in attached[s] => q \in attached'[s]
      BY <1>31 DEF Detach, Leave, TypeInv, RoleInv, TypeOK, names
    <2>. QED
      BY <1>31, <2>1, <2>2, RoleFrame DEF Step, Choice, Connect, Write, Read, Destroy, TypeInv,
         names, RoleInv
  <1>32. ASSUME NEW p \in Proc, Rmid(p) PROVE RoleInv'
    <2>1. RoleOf(p)'
      BY <1>32, RolesAssumption, SegAssumption, SegOf DEF Rmid, MarkRemoved, Leave, Goto, At,
         TypeInv, RoleInv, RoleOf, TypeOK, HasSeg, HasAttached, InUse, Talking, Proc, names, Exists
    <2>2. /\ byname' \in created' \cup {None} /\ created \subseteq created'
          /\ \A q \in Proc \ {p}, s \in Seg : q \in attached[s] => q \in attached'[s]
      BY <1>32 DEF Rmid, MarkRemoved, Leave, TypeInv, RoleInv, TypeOK, names
    <2>. QED
      BY <1>32, <2>1, <2>2, RoleFrame DEF Step, Choice, Connect, Write, Read, Destroy, TypeInv,
         names, RoleInv
  <1>33. ASSUME NEW p \in Proc, Die(p) PROVE RoleInv'
    <2>1. RoleOf(p)'
      BY <1>33, RolesAssumption, SegAssumption, SegOf DEF Die, Leave, Goto, At, TypeInv, RoleInv,
         RoleOf, TypeOK, HasSeg, HasAttached, InUse, Talking, Proc, names, Exists
    <2>2. /\ byname' \in created' \cup {None} /\ created \subseteq created'
          /\ \A q \in Proc \ {p}, s \in Seg : q \in attached[s] => q \in attached'[s]
      BY <1>33 DEF Die, Leave, TypeInv, RoleInv, TypeOK, names
    <2>. QED
      BY <1>33, <2>1, <2>2, RoleFrame DEF Step, Choice, Connect, Write, Read, Destroy, TypeInv,
         names, RoleInv
  <1>34. CASE UNCHANGED vars
    BY <1>34 DEF vars, names, memory, history, TypeInv, RoleInv, RoleOf
  <1>. QED
    BY <1>1, <1>2, <1>3, <1>4, <1>5, <1>6, <1>7, <1>8, <1>9, <1>10, <1>11, <1>12, <1>13, <1>14,
       <1>15, <1>16, <1>17, <1>18, <1>19, <1>20, <1>21, <1>22, <1>23, <1>24, <1>25, <1>26, <1>27,
       <1>28, <1>29, <1>30, <1>31, <1>32, <1>33, <1>34 DEF Next, Step, Choice, Connect, Write, Read,
       Destroy

\* Only what is not under way can start, and it starts alone.
LEMMA NotAlive ==
    ASSUME TypeOK, NEW p \in Proc, Step(p) \/ Choice(p)
    PROVE  Alive(p) \/ Start(p)
  <1>1. CASE Connect(p)
    BY <1>1 DEF Connect, Create, Get, Find, Remove, Stat, Attach, InitHeader, Syn, Wait, Look,
       Alone, Check, Answer, At, Alive
  <1>2. CASE Write(p)
    BY <1>2 DEF Write, Drop, DropPeek, WriteAvailable, CopyIn, PublishWrite, WritePeek, At, Alive
  <1>3. CASE Read(p)
    BY <1>3 DEF Read, ReadAvailable, CopyOut, PublishRead, ReadPeek, ReadMagic, At, Alive
  <1>4. CASE Destroy(p)
    BY <1>4 DEF Destroy, Eof, Detach, Rmid, At, Alive
  <1>5. CASE Choice(p)
    BY <1>5 DEF Choice, BeginWrite, BeginRead, Cancel, BeginDestroy, Die, At, Alive
  <1>. QED
    BY <1>1, <1>2, <1>3, <1>4, <1>5 DEF Step

\* While a process of a kind takes a step, no other of its kind is under way.
LEMMA Sole ==
    ASSUME TypeInv, NEW p \in Proc, Step(p) \/ Choice(p), NEW K \in {Writers, Readers},
           p \in K, NEW q \in K, q # p
    PROVE  ~Alive(q) /\ ~Alive(q)' /\ pc[q] \notin HasSeg /\ seg[q] = None
  <1>0. q \in Proc /\ p \in Proc
    BY DEF Proc
  <1>1. ~Alive(q)
    <2>1. CASE Start(p)
      BY <2>1 DEF Start, TypeInv, AloneInv, TwoParty
    <2>2. CASE Alive(p)
      BY <2>2 DEF TypeInv, AloneInv
    <2>. QED
      BY <2>1, <2>2, NotAlive DEF TypeInv
  <1>2. pc'[q] = pc[q]
    BY <1>0, OwnOnly DEF TypeInv
  <1>3. pc[q] \notin HasSeg
    BY <1>1 DEF Alive, HasSeg, HasAttached, Talking, InUse
  <1>. QED
    BY <1>0, <1>1, <1>2, <1>3 DEF Alive, TypeInv, RoleInv, RoleOf

\* One process of a kind runs at a time.
LEMMA AloneStep ==
    ASSUME TypeInv, [Next]_vars
    PROVE  AloneInv'
  <1>1. ASSUME NEW p \in Proc, Step(p) \/ Choice(p)
        PROVE  AloneInv'
    <2>1. ASSUME NEW K \in {Writers, Readers}, NEW v \in K, NEW w \in K, Alive(v)', Alive(w)'
          PROVE  v = w
      <3>0. v \in Proc /\ w \in Proc
        BY DEF Proc
      <3>1. CASE p \in K
        BY <2>1, <3>1, <1>1, Sole
      <3>2. CASE p \notin K
        <4>1. pc'[v] = pc[v] /\ pc'[w] = pc[w]
          BY <1>1, <3>0, <3>2, OwnOnly DEF TypeInv
        <4>. QED
          BY <2>1, <4>1 DEF Alive, TypeInv, AloneInv
      <3>. QED
        BY <3>1, <3>2
    <2>. QED
      BY <2>1 DEF TypeInv, AloneInv, TwoParty
  <1>2. CASE UNCHANGED vars
    BY <1>2 DEF vars, TypeInv, AloneInv, TwoParty, Alive
  <1>. QED
    BY <1>1, <1>2 DEF Next

\* A call comes to copy only from where it looked, and goes on to publish.
LEMMA ToMoving ==
    ASSUME TypeOK, RoleInv, NEW p \in Proc, Step(p) \/ Choice(p), pc'[p] \in Moving
    PROVE  \/ WriteAvailable(p) \/ ReadAvailable(p)
           \/ (CopyIn(p) \/ CopyOut(p)) /\ pc[p] = "copy" /\ pc'[p] = "publish" /\ UNCHANGED call
           \/ Cancel(p) /\ pc[p] \in Moving /\ UNCHANGED call
  <1>0. pc \in [Proc -> Pc]
    BY DEF TypeOK
  <1>a. CASE Answer(p)
    BY <1>a, <1>0, AnswerCases DEF Moving
  <1>b. CASE Connect(p) /\ ~Answer(p)
    BY <1>b, <1>0 DEF Connect, Create, Get, Find, Remove, Stat, Attach, InitHeader, Syn, Wait, Look,
       Alone, Check, Leave, Goto, Moving
  <1>2. CASE Write(p)
    BY <1>2, <1>0 DEF Write, Drop, DropPeek, CopyIn, PublishWrite, WritePeek, Advance, GiveUpOrTurn,
       Return, At, Goto, Moving
  <1>3. CASE Read(p)
    BY <1>3, <1>0 DEF Read, CopyOut, PublishRead, ReadPeek, ReadMagic, Advance, GiveUpOrTurn,
       Return, At, Goto, Moving
  <1>4. CASE Destroy(p)
    BY <1>4, <1>0 DEF Destroy, Eof, Detach, Rmid, Leave, Goto, Moving
  <1>5. CASE Choice(p)
    BY <1>5, <1>0 DEF Choice, Start, BeginWrite, BeginRead, Cancel, BeginDestroy, Die, Leave, At,
       Goto, Moving
  <1>. QED
    BY <1>a, <1>b, <1>2, <1>3, <1>4, <1>5 DEF Step

\* A block never passes the end of the ring or of the call.
LEMMA BlockStep ==
    ASSUME TypeInv, [Next]_vars
    PROVE  BlockInv'
  <1>1. ASSUME NEW p \in Proc, Step(p) \/ Choice(p)
        PROVE  BlockInv'
    <2>1. ASSUME NEW q \in Proc, q # p PROVE BlockOf(q)'
      BY <1>1, <2>1, OwnOnly DEF TypeInv, BlockInv, BlockOf
    <2>2. ASSUME pc'[p] \in Moving
          PROVE  call'[p].n <= call'[p].len /\ call'[p].n <= Size - call'[p].hand
      <3>1. CASE WriteAvailable(p) \/ ReadAvailable(p)
        <4>1. Room(p) \in Nat /\ Data(p) \in Nat
          BY <3>1, RoomTyped, SizeAssumption DEF WriteAvailable, ReadAvailable, At, HasSeg,
             HasAttached, InUse, TypeInv
        <4>2. BeginCopy(p, Room(p)) \/ BeginCopy(p, Data(p))
          <5>1. pc \in [Proc -> Pc]
            BY DEF TypeInv, TypeOK
          <5>. QED
            BY <2>2, <3>1, <5>1 DEF WriteAvailable, ReadAvailable, WithNothing, Return, At, Goto,
               Moving
        <4>. QED
          BY <4>1, <4>2, BlockTyped DEF TypeInv
      <3>2. CASE UNCHANGED call /\ pc[p] \in Moving
        BY <3>2 DEF TypeInv, BlockInv, BlockOf
      <3>. QED
        BY <1>1, <2>2, <3>1, <3>2, ToMoving DEF TypeInv, Moving
    <2>. QED
      BY <2>1, <2>2 DEF BlockInv, BlockOf
  <1>2. CASE UNCHANGED vars
    BY <1>2 DEF vars, TypeInv, BlockInv, BlockOf
  <1>. QED
    BY <1>1, <1>2 DEF Next

\* Types, roles, who is alone, and blocks are kept together.
LEMMA TypeInvStep ==
    ASSUME TypeInv, [Next]_vars
    PROVE  TypeInv'
  BY TypingStep, RoleStep, AloneStep, BlockStep DEF TypeInv

\* They hold at the start.
LEMMA TypeInvInit == TwoParty /\ Init => TypeInv
  <1>. SUFFICES ASSUME TwoParty, Init PROVE TypeInv
    OBVIOUS
  <1>1. call \in [Proc -> CallRecord] /\ 0 \in Slot
    BY NoCallTyped DEF Init
  <1>2. TypeOK
    BY <1>1 DEF Init, TypeOK, Pc, Magic, CallRecord
  <1>3. RoleInv
    BY DEF Init, RoleInv, RoleOf, HasSeg, HasAttached, Talking, InUse
  <1>4. AloneInv /\ BlockInv
    BY DEF Init, AloneInv, BlockInv, BlockOf, Moving, Alive, Proc
  <1>. QED
    BY <1>2, <1>3, <1>4 DEF TypeInv

\* The types of the variables hold in every state the program can be in.
THEOREM TypeCorrect == TwoParty => (Spec => []TypeOK)
  <1>. SUFFICES ASSUME TwoParty PROVE Spec => []TypeOK
    OBVIOUS
  <1>1. TypeInv /\ [Next]_vars => TypeInv'
    BY TypeInvStep
  <1>2. TypeInv => TypeOK
    BY DEF TypeInv
  <1>. QED
    BY <1>1, <1>2, TypeInvInit, PTL DEF Spec

-----------------------------------------------------------------------------
(* The handshake.                                                          *)

\* The handshake of a segment, told from the one writer under way.
LEMMA WriterTells ==
    ASSUME TypeInv, NEW p \in Writers, Step(p) \/ Choice(p), NEW s \in Seg
    PROVE  /\ Young(s) <=> s \notin created \/ (seg[p] = s /\ pc[p] \in {"attach", "init", "syn"})
           /\ Young(s)' <=> s \notin created' \/ (seg'[p] = s /\ pc'[p] \in {"attach", "init", "syn"})
           /\ Shaking(s) <=> seg[p] = s /\ pc[p] \in Talking \cup {"attach", "init", "syn"}
           /\ Shaking(s)' <=> seg'[p] = s /\ pc'[p] \in Talking \cup {"attach", "init", "syn"}
           /\ Answered(s) <=> seg[p] = s /\ pc[p] \in InUse \cup {"answer"}
           /\ Answered(s)' <=> seg'[p] = s /\ pc'[p] \in InUse \cup {"answer"}
  <1>1. ASSUME NEW w \in Writers, w # p
        PROVE  seg[w] # s /\ seg'[w] # s
    <2>1. seg[w] = None
      BY <1>1, Sole DEF Proc
    <2>2. seg'[w] = seg[w]
      BY <1>1, OwnOnly DEF Proc, TypeInv
    <2>. QED
      BY <2>1, <2>2, SegAssumption
  <1>. QED
    BY <1>1 DEF Young, Shaking, Answered

\* Nobody else has a part in it.
LEMMA OthersDoNot ==
    ASSUME TypeInv, NEW p \in Proc, p \notin Writers, Step(p) \/ Choice(p), NEW s \in Seg
    PROVE  /\ created' = created
           /\ Young(s)' <=> Young(s)
           /\ Shaking(s)' <=> Shaking(s)
           /\ Answered(s)' <=> Answered(s)
  <1>1. created' = created
    <2>0. ~Create(p) /\ TypeOK /\ RoleInv
      BY DEF Create, TypeInv
    <2>a. CASE Answer(p)
      BY <2>0, <2>a, AnswerCases DEF names
    <2>b. CASE Connect(p) /\ ~Answer(p)
      BY <2>b, <2>0 DEF Connect, Get, Find, Remove, Stat, Attach, InitHeader, Syn, Wait, Look,
         Alone, Check, names
    <2>2. CASE Write(p)
      BY <2>2 DEF Write, Drop, DropPeek, WriteAvailable, CopyIn, PublishWrite, WritePeek, names
    <2>3. CASE Read(p)
      BY <2>3 DEF Read, ReadAvailable, CopyOut, PublishRead, ReadPeek, ReadMagic, names
    <2>4. CASE Destroy(p)
      BY <2>4 DEF Destroy, Eof, Detach, Rmid, names
    <2>5. CASE Choice(p)
      BY <2>5 DEF Choice, Start, BeginWrite, BeginRead, Cancel, BeginDestroy, Die, names
    <2>. QED
      BY <2>a, <2>b, <2>2, <2>3, <2>4, <2>5 DEF Step
  <1>2. ASSUME NEW w \in Writers
        PROVE  pc'[w] = pc[w] /\ seg'[w] = seg[w]
    BY OwnOnly DEF TypeInv, Proc
  <1>. QED
    BY <1>1, <1>2 DEF Young, Shaking, Answered

\* A reader that is not under way is in no handshake.
LEMMA ReaderAway ==
    ASSUME NEW r, ~Alive(r)
    PROVE  ReaderOf(r)
  BY DEF Alive, ReaderOf, Talking, InUse

\* A process gets no further in the handshake.
Stays(p) ==
  /\ p \in Writers /\ pc'[p] \in {"attach"} \cup HasAttached =>
       /\ seg'[p] = seg[p]
       /\ pc'[p] \in {"attach", "init", "syn"} => pc[p] \in {"attach", "init", "syn"}
       /\ pc'[p] \in Talking => pc[p] \in Talking
       /\ pc'[p] \in InUse \cup {"answer"} => pc[p] \in InUse \cup {"answer"}
  /\ p \in Readers =>
       /\ pc'[p] \in InUse => pc[p] \in InUse /\ seg'[p] = seg[p]
       /\ pc'[p] \in Talking /\ want'[p] = "magic" =>
            pc[p] \in Talking /\ want[p] = "magic" /\ seg'[p] = seg[p]
       /\ pc'[p] = "answer" => pc[p] = "answer" /\ want'[p] = want[p] /\ seg'[p] = seg[p]

\* The magic number is set to "eof" at most, and the hands of no segment move
\* that its writer has not yet offered.
LeavesMagic ==
  /\ created' = created /\ joined' = joined
  /\ \A s \in Seg : magic'[s] = magic[s] \/ magic'[s] = "eof"
  /\ \A s \in Seg : Young(s) => /\ writehand'[s] = 0 /\ readhand'[s] = 0
                                /\ written'[s] = 0 /\ taken'[s] = 0

\* Such a step leaves the handshake sound.
LEMMA HandshakeFrame ==
    ASSUME TypeInv, TypeInv', HandshakeInv, NEW p \in Proc, Step(p) \/ Choice(p),
           LeavesMagic, Stays(p)
    PROVE  HandshakeInv'
  <1>. USE DEF LeavesMagic, Stays
  <1>1. ASSUME NEW s \in Seg
        PROVE  /\ Young(s)' => Young(s)
               /\ Shaking(s)' => Shaking(s)
               /\ Answered(s)' => Answered(s)
    <2>1. CASE p \in Writers
      BY <2>1, WriterTells DEF HasAttached, Talking
    <2>2. CASE p \notin Writers
      BY <2>2, OthersDoNot
    <2>. QED
      BY <2>1, <2>2
  <1>2. ASSUME NEW s \in Seg
        PROVE  SegmentOf(s)'
    BY <1>1 DEF HandshakeInv, SegmentOf
  <1>3. ASSUME NEW r \in Readers
        PROVE  ReaderOf(r)'
    <2>0. r \in Proc /\ (pc[r] \in Talking \cup InUse => seg[r] \in Seg)
      BY SegOf DEF Proc, TypeInv, HasSeg, HasAttached
    <2>1. CASE r # p
      <3>1. pc'[r] = pc[r] /\ seg'[r] = seg[r] /\ want'[r] = want[r]
        BY <2>0, <2>1, OwnOnly DEF TypeInv
      <3>. QED
        BY <1>1, <2>0, <3>1 DEF HandshakeInv, ReaderOf, Talking
    <2>2. CASE r = p
      BY <1>1, <2>0, <2>2 DEF HandshakeInv, ReaderOf, Talking
    <2>. QED
      BY <2>1, <2>2
  <1>. QED
    BY <1>2, <1>3 DEF HandshakeInv

\* No reader is connected to a segment that has not been offered.
LEMMA ReaderNotYoung ==
    ASSUME TypeInv, HandshakeInv, NEW r \in Readers, pc[r] \in InUse
    PROVE  seg[r] \in Seg /\ ~Young(seg[r])
  <1>1. seg[r] \in Seg
    BY SegOf DEF TypeInv, HasSeg, HasAttached, Proc
  <1>2. SegmentOf(seg[r]) /\ ReaderOf(r)
    BY <1>1 DEF HandshakeInv
  <1>. QED
    BY <1>1, <1>2 DEF ReaderOf, SegmentOf

\* Nor is a writer that has been answered.
LEMMA WriterNotYoung ==
    ASSUME TypeInv, NEW p \in Writers, pc[p] \in InUse, Step(p) \/ Choice(p)
    PROVE  seg[p] \in Seg /\ ~Young(seg[p])
  <1>1. seg[p] \in Seg /\ seg[p] \in created
    BY SegOf DEF TypeInv, HasSeg, HasAttached, Proc
  <1>. QED
    BY <1>1, WriterTells DEF InUse

\* A step that writes nothing to a segment, or only its bytes, is one of those.
LEMMA QuietMemory ==
    ASSUME HandshakeInv, created' = created, UNCHANGED <<joined, written, taken>>,
           UNCHANGED <<writehand, readhand, magic>>
    PROVE  LeavesMagic
  BY DEF HandshakeInv, SegmentOf, LeavesMagic

\* All but four of the steps are of that kind.
LEMMA QuietStep ==
    ASSUME TypeInv, TypeInv', HandshakeInv, NEW p \in Proc, Step(p) \/ Choice(p),
           ~(Create(p) \/ Syn(p) \/ Check(p) \/ Answer(p))
    PROVE  HandshakeInv'
  <1>. USE DEF TypeInv
  <1>1. CASE Start(p)
    <2>1. LeavesMagic
      BY <1>1, QuietMemory DEF Start, MarkRemoved, names, memory, history
    <2>2. Stays(p)
      BY <1>1, RolesAssumption DEF Start, Goto, At, TypeOK, Stays, HasAttached, InUse, Talking
    <2>. QED
      BY <2>1, <2>2, HandshakeFrame
  <1>2. CASE Get(p)
    <2>1. LeavesMagic
      BY <1>2, QuietMemory DEF Get, MarkRemoved, names, memory, history
    <2>2. Stays(p)
      BY <1>2, RolesAssumption DEF Get, Leave, Goto, At, TypeOK, Stays, HasAttached, InUse, Talking
    <2>. QED
      BY <2>1, <2>2, HandshakeFrame
  <1>3. CASE Find(p)
    <2>1. LeavesMagic
      BY <1>3, QuietMemory DEF Find, MarkRemoved, names, memory, history
    <2>2. Stays(p)
      BY <1>3, RolesAssumption DEF Find, Leave, Goto, At, TypeOK, Stays, HasAttached, InUse, Talking
    <2>. QED
      BY <2>1, <2>2, HandshakeFrame
  <1>4. CASE Remove(p)
    <2>1. LeavesMagic
      BY <1>4, QuietMemory DEF Remove, MarkRemoved, names, memory, history
    <2>2. Stays(p)
      BY <1>4, RolesAssumption DEF Remove, Leave, Goto, At, TypeOK, Stays, HasAttached, InUse,
         Talking
    <2>. QED
      BY <2>1, <2>2, HandshakeFrame
  <1>5. CASE Stat(p)
    <2>1. LeavesMagic
      BY <1>5, QuietMemory DEF Stat, MarkRemoved, names, memory, history
    <2>2. Stays(p)
      BY <1>5 DEF Stat, At, RoleInv, RoleOf, Stays
    <2>. QED
      BY <2>1, <2>2, HandshakeFrame
  <1>6. CASE Attach(p)
    <2>1. LeavesMagic
      BY <1>6, QuietMemory DEF Attach, MarkRemoved, names, memory, history
    <2>2. Stays(p)
      BY <1>6, RolesAssumption DEF Attach, Leave, Goto, At, TypeOK, Stays, HasAttached, InUse,
         Talking
    <2>. QED
      BY <2>1, <2>2, HandshakeFrame
  <1>7. CASE InitHeader(p)
    <2>0. seg[p] \in Seg /\ p \in Writers
      BY <1>7, SegOf DEF InitHeader, At, HasSeg, HasAttached, RoleInv, RoleOf, Proc
    <2>1. LeavesMagic
      BY <1>7, <2>0, WriterTells DEF InitHeader, At, LeavesMagic, HandshakeInv, SegmentOf, TypeOK,
         names, history
    <2>2. Stays(p)
      BY <1>7, RolesAssumption DEF InitHeader, Goto, At, TypeOK, Stays, HasAttached, InUse, Talking
    <2>. QED
      BY <2>1, <2>2, HandshakeFrame
  <1>8. CASE Wait(p)
    <2>1. LeavesMagic
      BY <1>8, QuietMemory DEF Wait, MarkRemoved, names, memory, history
    <2>2. Stays(p)
      BY <1>8, RolesAssumption DEF Wait, Goto, At, TypeOK, Stays, HasAttached, InUse, Talking
    <2>. QED
      BY <2>1, <2>2, HandshakeFrame
  <1>9. CASE Look(p)
    <2>1. LeavesMagic
      BY <1>9, QuietMemory DEF Look, MarkRemoved, names, memory, history
    <2>2. Stays(p)
      BY <1>9, RolesAssumption DEF Look, Goto, At, TypeOK, Stays, HasAttached, InUse, Talking
    <2>. QED
      BY <2>1, <2>2, HandshakeFrame
  <1>10. CASE Alone(p)
    <2>1. LeavesMagic
      BY <1>10, QuietMemory DEF Alone, MarkRemoved, names, memory, history
    <2>2. Stays(p)
      BY <1>10, RolesAssumption DEF Alone, Goto, At, TypeOK, Stays, HasAttached, InUse, Talking
    <2>. QED
      BY <2>1, <2>2, HandshakeFrame
  <1>11. CASE BeginWrite(p)
    <2>1. LeavesMagic
      BY <1>11, QuietMemory DEF BeginWrite, MarkRemoved, names, memory, history
    <2>2. Stays(p)
      BY <1>11, RolesAssumption DEF BeginWrite, Goto, At, TypeOK, Stays, HasAttached, InUse, Talking
    <2>. QED
      BY <2>1, <2>2, HandshakeFrame
  <1>12. CASE Drop(p)
    <2>1. LeavesMagic
      BY <1>12, QuietMemory DEF Drop, MarkRemoved, names, memory, history
    <2>2. Stays(p)
      BY <1>12, RolesAssumption DEF Drop, Goto, At, TypeOK, Stays, HasAttached, InUse, Talking
    <2>. QED
      BY <2>1, <2>2, HandshakeFrame
  <1>13. CASE DropPeek(p)
    <2>1. LeavesMagic
      BY <1>13, QuietMemory DEF DropPeek, MarkRemoved, names, memory, history
    <2>2. Stays(p)
      BY <1>13, RolesAssumption DEF DropPeek, Return, Goto, At, TypeOK, Stays, HasAttached, InUse,
         Talking
    <2>. QED
      BY <2>1, <2>2, HandshakeFrame
  <1>14. CASE WriteAvailable(p)
    <2>1. LeavesMagic
      BY <1>14, QuietMemory DEF WriteAvailable, MarkRemoved, names, memory, history
    <2>2. Stays(p)
      BY <1>14, RolesAssumption DEF WriteAvailable, BeginCopy, WithNothing, Return, Goto, At,
         TypeOK, Stays, HasAttached, InUse, Talking
    <2>. QED
      BY <2>1, <2>2, HandshakeFrame
  <1>15. CASE CopyIn(p)
    <2>1. LeavesMagic
      BY <1>15, QuietMemory DEF CopyIn, MarkRemoved, names, memory, history
    <2>2. Stays(p)
      BY <1>15, RolesAssumption DEF CopyIn, Goto, At, TypeOK, Stays, HasAttached, InUse, Talking
    <2>. QED
      BY <2>1, <2>2, HandshakeFrame
  <1>16. CASE PublishWrite(p)
    <2>0. seg[p] \in Seg /\ ~Young(seg[p])
      BY <1>16, WriterNotYoung DEF PublishWrite, At, InUse
    <2>1. LeavesMagic
      BY <1>16, <2>0 DEF PublishWrite, LeavesMagic, HandshakeInv, SegmentOf, TypeOK, names
    <2>2. Stays(p)
      BY <1>16, RolesAssumption DEF PublishWrite, Advance, Return, Goto, At, TypeOK, Stays,
         HasAttached, InUse, Talking
    <2>. QED
      BY <2>1, <2>2, HandshakeFrame
  <1>17. CASE WritePeek(p)
    <2>1. LeavesMagic
      BY <1>17, QuietMemory DEF WritePeek, MarkRemoved, names, memory, history
    <2>2. Stays(p)
      BY <1>17, RolesAssumption DEF WritePeek, GiveUpOrTurn, Return, Goto, At, TypeOK, Stays,
         HasAttached, InUse, Talking
    <2>. QED
      BY <2>1, <2>2, HandshakeFrame
  <1>18. CASE BeginRead(p)
    <2>1. LeavesMagic
      BY <1>18, QuietMemory DEF BeginRead, MarkRemoved, names, memory, history
    <2>2. Stays(p)
      BY <1>18, RolesAssumption DEF BeginRead, Goto, At, TypeOK, Stays, HasAttached, InUse, Talking
    <2>. QED
      BY <2>1, <2>2, HandshakeFrame
  <1>19. CASE ReadAvailable(p)
    <2>1. LeavesMagic
      BY <1>19, QuietMemory DEF ReadAvailable, MarkRemoved, names, memory, history
    <2>2. Stays(p)
      BY <1>19, RolesAssumption DEF ReadAvailable, BeginCopy, WithNothing, Return, Goto, At, TypeOK,
         Stays, HasAttached, InUse, Talking
    <2>. QED
      BY <2>1, <2>2, HandshakeFrame
  <1>20. CASE CopyOut(p)
    <2>1. LeavesMagic
      BY <1>20, QuietMemory DEF CopyOut, MarkRemoved, names, memory, history
    <2>2. Stays(p)
      BY <1>20, RolesAssumption DEF CopyOut, Goto, At, TypeOK, Stays, HasAttached, InUse, Talking
    <2>. QED
      BY <2>1, <2>2, HandshakeFrame
  <1>21. CASE PublishRead(p)
    <2>0. seg[p] \in Seg /\ ~Young(seg[p])
      BY <1>21, ReaderNotYoung DEF PublishRead, At, InUse
    <2>1. LeavesMagic
      BY <1>21, <2>0 DEF PublishRead, LeavesMagic, HandshakeInv, SegmentOf, TypeOK, names
    <2>2. Stays(p)
      BY <1>21, RolesAssumption DEF PublishRead, Advance, Return, Goto, At, TypeOK, Stays,
         HasAttached, InUse, Talking
    <2>. QED
      BY <2>1, <2>2, HandshakeFrame
  <1>22. CASE ReadPeek(p)
    <2>1. LeavesMagic
      BY <1>22, QuietMemory DEF ReadPeek, MarkRemoved, names, memory, history
    <2>2. Stays(p)
      BY <1>22, RolesAssumption DEF ReadPeek, Return, Goto, At, TypeOK, Stays, HasAttached, InUse,
         Talking
    <2>. QED
      BY <2>1, <2>2, HandshakeFrame
  <1>23. CASE ReadMagic(p)
    <2>1. LeavesMagic
      BY <1>23, QuietMemory DEF ReadMagic, MarkRemoved, names, memory, history
    <2>2. Stays(p)
      BY <1>23, RolesAssumption DEF ReadMagic, GiveUpOrTurn, Return, Goto, At, TypeOK, Stays,
         HasAttached, InUse, Talking
    <2>. QED
      BY <2>1, <2>2, HandshakeFrame
  <1>24. CASE Cancel(p)
    <2>1. LeavesMagic
      BY <1>24 DEF Cancel, MarkEof, LeavesMagic, HandshakeInv, SegmentOf, TypeOK, names
    <2>2. Stays(p)
      BY <1>24, RolesAssumption DEF Cancel, Goto, At, TypeOK, Stays, HasAttached, InUse, Talking
    <2>. QED
      BY <2>1, <2>2, HandshakeFrame
  <1>25. CASE BeginDestroy(p)
    <2>1. LeavesMagic
      BY <1>25, QuietMemory DEF BeginDestroy, MarkRemoved, names, memory, history
    <2>2. Stays(p)
      BY <1>25, RolesAssumption DEF BeginDestroy, Goto, At, TypeOK, Stays, HasAttached, InUse,
         Talking
    <2>. QED
      BY <2>1, <2>2, HandshakeFrame
  <1>26. CASE Eof(p)
    <2>1. LeavesMagic
      BY <1>26 DEF Eof, MarkEof, LeavesMagic, HandshakeInv, SegmentOf, TypeOK, names
    <2>2. Stays(p)
      BY <1>26, RolesAssumption DEF Eof, Goto, At, TypeOK, Stays, HasAttached, InUse, Talking
    <2>. QED
      BY <2>1, <2>2, HandshakeFrame
  <1>27. CASE Detach(p)
    <2>1. LeavesMagic
      BY <1>27, QuietMemory DEF Detach, MarkRemoved, names, memory, history
    <2>2. Stays(p)
      BY <1>27, RolesAssumption DEF Detach, Leave, Goto, At, TypeOK, Stays, HasAttached, InUse,
         Talking
    <2>. QED
      BY <2>1, <2>2, HandshakeFrame
  <1>28. CASE Rmid(p)
    <2>1. LeavesMagic
      BY <1>28, QuietMemory DEF Rmid, MarkRemoved, names, memory, history
    <2>2. Stays(p)
      BY <1>28, RolesAssumption DEF Rmid, Leave, Goto, At, TypeOK, Stays, HasAttached, InUse,
         Talking
    <2>. QED
      BY <2>1, <2>2, HandshakeFrame
  <1>29. CASE Die(p)
    <2>1. LeavesMagic
      BY <1>29, QuietMemory DEF Die, MarkRemoved, names, memory, history
    <2>2. Stays(p)
      BY <1>29, RolesAssumption DEF Die, Leave, Goto, At, TypeOK, Stays, HasAttached, InUse, Talking
    <2>. QED
      BY <2>1, <2>2, HandshakeFrame
  <1>. QED
    BY <1>1, <1>2, <1>3, <1>4, <1>5, <1>6, <1>7, <1>8, <1>9, <1>10, <1>11, <1>12, <1>13, <1>14,
       <1>15, <1>16, <1>17, <1>18, <1>19, <1>20, <1>21, <1>22, <1>23, <1>24, <1>25, <1>26, <1>27,
       <1>28, <1>29 DEF Step, Choice, Connect, Write, Read, Destroy

\* A step of a writer leaves a reader as it is.
LEMMA ReaderSame ==
    ASSUME TypeInv, NEW p \in Proc, Step(p) \/ Choice(p), NEW r \in Readers, r # p
    PROVE  /\ r \in Proc /\ pc'[r] = pc[r] /\ seg'[r] = seg[r] /\ want'[r] = want[r]
           /\ pc[r] \in Talking \cup InUse => seg[r] \in Seg /\ seg[r] \in created
  BY OwnOnly, SegOf DEF TypeInv, Proc, HasSeg, HasAttached

\* The readers that a step of a reader does not move are away.
LEMMA ReaderAlone ==
    ASSUME TypeInv, NEW p \in Readers, Step(p) \/ Choice(p), ReaderOf(p)'
    PROVE  \A r \in Readers : ReaderOf(r)'
  <1>1. ASSUME NEW r \in Readers, r # p PROVE ReaderOf(r)'
    <2>1. ~Alive(r)'
      BY <1>1, Sole DEF Proc
    <2>. QED
      BY <2>1 DEF Alive, ReaderOf, Talking, InUse
  <1>. QED
    BY <1>1

\* A new segment begins its handshake.
LEMMA CreateShakes ==
    ASSUME TypeInv, TypeInv', HandshakeInv, NEW p \in Proc, Create(p)
    PROVE  HandshakeInv'
  <1>. USE DEF TypeInv
  <1>1. Step(p) /\ p \in Writers /\ pc[p] = "get"
    BY DEF Step, Connect, Create, At
  <1>2. /\ UNCHANGED <<magic, writehand, readhand, written, taken, joined>>
    BY DEF Create, memory, history
  <1>3. CASE UNCHANGED created /\ pc' = [pc EXCEPT ![p] = "find"]
    <2>1. LeavesMagic
      BY <1>2, <1>3, QuietMemory
    <2>2. Stays(p)
      BY <1>1, <1>3, RolesAssumption DEF Stays, HasAttached, InUse, Talking, TypeOK
    <2>. QED
      BY <1>1, <2>1, <2>2, HandshakeFrame
  <1>4. ASSUME NEW s \in Seg \ created, created' = created \cup {s}, seg' = [seg EXCEPT ![p] = s],
               pc' = [pc EXCEPT ![p] = "attach"]
        PROVE  HandshakeInv'
    <2>0. pc'[p] = "attach" /\ seg'[p] = s
      BY <1>4 DEF TypeOK
    <2>1. Young(s)
      BY <1>4 DEF Young
    <2>2. ASSUME NEW z \in Seg, z # s
          PROVE  (Young(z)' => Young(z)) /\ ~Shaking(z)' /\ ~Answered(z)'
      BY <1>1, <1>4, <2>0, <2>2, WriterTells
    <2>3. ~Answered(s)'
      BY <1>1, <2>0, WriterTells DEF InUse
    <2>4. ASSUME NEW z \in Seg PROVE SegmentOf(z)'
      BY <1>2, <2>1, <2>2, <2>3 DEF HandshakeInv, SegmentOf
    <2>5. ASSUME NEW r \in Readers PROVE ReaderOf(r)'
      <3>0. r # p
        BY <1>1, RolesAssumption
      <3>1. /\ pc'[r] = pc[r] /\ seg'[r] = seg[r] /\ want'[r] = want[r]
            /\ pc[r] \in Talking \cup InUse => seg[r] \in Seg /\ seg[r] # s
        BY <1>1, <1>4, <3>0, ReaderSame
      <3>. QED
        BY <1>2, <2>2, <3>1 DEF HandshakeInv, ReaderOf, Talking
    <2>. QED
      BY <2>4, <2>5 DEF HandshakeInv
  <1>. QED
    BY <1>3, <1>4 DEF Create, Goto

\* The writer offers a segment nobody has yet looked at.
LEMMA SynShakes ==
    ASSUME TypeInv, TypeInv', HandshakeInv, NEW p \in Proc, Syn(p)
    PROVE  HandshakeInv'
  <1>. USE DEF TypeInv
  <1>1. Step(p) /\ pc[p] = "syn"
    BY DEF Step, Connect, Syn, At
  <1>2. p \in Writers
    BY <1>1 DEF RoleInv, RoleOf, Proc
  <1>3. seg[p] \in Seg /\ seg[p] \in created
    BY <1>1, SegOf DEF HasSeg, HasAttached
  <1>4. /\ magic' = [magic EXCEPT ![seg[p]] = "winit"] /\ pc' = [pc EXCEPT ![p] = "wait"]
        /\ UNCHANGED <<seg, created, writehand, readhand, written, taken, joined>>
    BY DEF Syn, Goto, names, history
  <1>5. pc'[p] = "wait"
    BY <1>4 DEF TypeOK
  <1>6. Young(seg[p]) /\ ~Young(seg[p])' /\ ~Answered(seg[p])'
    BY <1>1, <1>2, <1>3, <1>4, <1>5, WriterTells DEF InUse
  <1>7. ASSUME NEW z \in Seg, z # seg[p]
        PROVE  /\ Young(z)' => Young(z)
               /\ ~Shaking(z)' /\ ~Answered(z)' /\ magic'[z] = magic[z]
    BY <1>1, <1>2, <1>3, <1>4, <1>7, WriterTells DEF TypeOK
  <1>8. magic'[seg[p]] = "winit"
    BY <1>3, <1>4 DEF TypeOK
  <1>9. ASSUME NEW z \in Seg PROVE SegmentOf(z)'
    BY <1>4, <1>6, <1>7, <1>8 DEF HandshakeInv, SegmentOf
  <1>10. ASSUME NEW r \in Readers PROVE ReaderOf(r)'
    <2>0. r # p
      BY <1>2, RolesAssumption
    <2>1. /\ pc'[r] = pc[r] /\ seg'[r] = seg[r] /\ want'[r] = want[r]
          /\ pc[r] \in Talking \cup InUse => seg[r] \in Seg
      BY <1>1, <2>0, ReaderSame
    <2>2. joined[seg[p]] = {}
      BY <1>3, <1>6 DEF HandshakeInv, SegmentOf
    <2>. QED
      BY <1>4, <1>6, <1>7, <2>1, <2>2 DEF HandshakeInv, ReaderOf, Talking
  <1>. QED
    BY <1>9, <1>10 DEF HandshakeInv

\* Either side has seen the number it waited for, or gives up.
LEMMA CheckShakes ==
    ASSUME TypeInv, TypeInv', HandshakeInv, NEW p \in Proc, Check(p)
    PROVE  HandshakeInv'
  <1>. USE DEF TypeInv
  <1>1. Step(p) /\ pc[p] = "check"
    BY DEF Step, Connect, Check, At
  <1>2. p \in Writers \/ p \in Readers
    BY <1>1 DEF RoleInv, RoleOf, Proc, Talking
  <1>3. seg[p] \in Seg /\ seg[p] \in created
    BY <1>1, SegOf DEF HasSeg, HasAttached, Talking
  <1>4. UNCHANGED <<magic, seg, want, created, writehand, readhand, written, taken, joined>>
    BY DEF Check, names, memory, history
  <1>5. pc'[p] = "eof" \/ (pc'[p] = "answer" /\ magic[seg[p]] = want[p])
    BY DEF Check, Goto, TypeOK
  <1>6. CASE pc'[p] = "eof"
    <2>1. LeavesMagic
      BY <1>4, QuietMemory
    <2>2. Stays(p)
      BY <1>1, <1>4, <1>6 DEF Stays, HasAttached, InUse, Talking
    <2>. QED
      BY <1>1, <2>1, <2>2, HandshakeFrame
  <1>7. CASE p \in Writers /\ pc'[p] = "answer" /\ magic[seg[p]] = want[p]
    <2>1. want[p] = "rinit"
      BY <1>1, <1>7 DEF RoleInv, RoleOf, Talking
    <2>2. ASSUME NEW z \in Seg
          PROVE  /\ Young(z)' <=> Young(z)
                 /\ Shaking(z)' <=> Shaking(z)
                 /\ z # seg[p] => ~Answered(z)'
      BY <1>1, <1>4, <1>7, WriterTells DEF Talking
    <2>3. ASSUME NEW z \in Seg PROVE SegmentOf(z)'
      BY <1>4, <1>7, <2>1, <2>2 DEF HandshakeInv, SegmentOf
    <2>4. ASSUME NEW r \in Readers PROVE ReaderOf(r)'
      <3>0. r # p
        BY <1>7, RolesAssumption
      <3>1. /\ pc'[r] = pc[r] /\ seg'[r] = seg[r] /\ want'[r] = want[r]
            /\ pc[r] \in Talking \cup InUse => seg[r] \in Seg
        BY <1>1, <3>0, ReaderSame
      <3>. QED
        BY <1>4, <1>7, <2>1, <2>2, <3>1 DEF HandshakeInv, ReaderOf, Talking
    <2>. QED
      BY <2>3, <2>4 DEF HandshakeInv
  <1>8. CASE p \in Readers /\ pc'[p] = "answer" /\ magic[seg[p]] = want[p]
    <2>0. p \notin Writers
      BY <1>8, RolesAssumption
    <2>1. ASSUME NEW z \in Seg
          PROVE  (Young(z)' <=> Young(z)) /\ (Shaking(z)' <=> Shaking(z)) /\ (Answered(z)' <=> Answered(z))
      BY <1>1, <2>0, OthersDoNot
    <2>2. ASSUME NEW z \in Seg PROVE SegmentOf(z)'
      BY <1>4, <2>1 DEF HandshakeInv, SegmentOf
    <2>3. want[p] \in {"winit", "magic"}
      BY <1>1, <1>8 DEF RoleInv, RoleOf, Talking
    <2>4. SegmentOf(seg[p])
      BY <1>3 DEF HandshakeInv
    <2>7. ReaderOf(p)'
      <3>1. CASE want[p] = "winit"
        BY <1>3, <1>4, <1>8, <2>1, <2>4, <3>1 DEF SegmentOf, ReaderOf, InUse
      <3>2. CASE want[p] = "magic"
        BY <1>1, <1>3, <1>4, <1>8, <2>1, <2>4, <3>2 DEF HandshakeInv, SegmentOf, ReaderOf, Talking,
           InUse
      <3>. QED
        BY <2>3, <3>1, <3>2
    <2>. QED
      BY <1>1, <1>8, <2>2, <2>7, ReaderAlone DEF HandshakeInv
  <1>. QED
    BY <1>2, <1>5, <1>6, <1>7, <1>8

\* Reader, writer and reader again answer; with the last the reader is connected,
\* and no other was before.
LEMMA AnswerShakes ==
    ASSUME TypeInv, TypeInv', HandshakeInv, NEW p \in Proc, Answer(p)
    PROVE  HandshakeInv'
  <1>. USE DEF TypeInv
  <1>1. Step(p)
    BY DEF Step, Connect
  <1>2. /\ pc[p] = "answer" /\ seg[p] \in Seg
        /\ UNCHANGED <<seg, created, writehand, readhand, written, taken>>
    BY AnswerCases DEF names
  <1>3. SegmentOf(seg[p])
    BY <1>2 DEF HandshakeInv
  <1>4. ASSUME p \in Readers
        PROVE  \A z \in Seg : (Young(z)' <=> Young(z)) /\ (Shaking(z)' <=> Shaking(z)) /\ (Answered(z)' <=> Answered(z))
    BY <1>1, <1>4, OthersDoNot, RolesAssumption
  <1>5. CASE /\ p \in Readers /\ want[p] = "winit" /\ pc' = [pc EXCEPT ![p] = "wait"]
             /\ magic' = [magic EXCEPT ![seg[p]] = "rinit"]
             /\ want' = [want EXCEPT ![p] = "magic"] /\ joined' = joined
    <2>1. /\ ~Young(seg[p]) /\ ~Answered(seg[p]) /\ joined[seg[p]] = {}
      BY <1>2, <1>5 DEF HandshakeInv, ReaderOf
    <2>2. pc'[p] = "wait" /\ want'[p] = "magic" /\ magic'[seg[p]] = "rinit"
      BY <1>2, <1>5 DEF TypeOK
    <2>3. ASSUME NEW z \in Seg PROVE SegmentOf(z)'
      <3>1. z # seg[p] => magic'[z] = magic[z]
        BY <1>5 DEF TypeOK
      <3>. QED
        BY <1>2, <1>4, <1>5, <2>1, <2>2, <3>1 DEF HandshakeInv, SegmentOf
    <2>4. ReaderOf(p)'
      BY <1>2, <1>4, <1>5, <2>1, <2>2 DEF ReaderOf, InUse
    <2>. QED
      BY <1>1, <1>5, <2>3, <2>4, ReaderAlone DEF HandshakeInv
  <1>6. CASE /\ p \in Writers /\ want[p] = "rinit" /\ pc' = [pc EXCEPT ![p] = "idle"]
             /\ magic' = [magic EXCEPT ![seg[p]] = "magic"] /\ want' = want /\ joined' = joined
    <2>1. pc'[p] = "idle" /\ magic'[seg[p]] = "magic"
      BY <1>2, <1>6 DEF TypeOK
    <2>2. /\ ~Young(seg[p])' /\ ~Shaking(seg[p])' /\ Answered(seg[p]) /\ Shaking(seg[p])
          /\ \A z \in Seg : (Young(z)' <=> Young(z)) /\ (z # seg[p] => ~Shaking(z)' /\ ~Answered(z)')
      <3>1. seg[p] \in created
        BY <1>2, SegOf DEF HasSeg, HasAttached, Talking
      <3>. QED
        BY <1>1, <1>2, <1>6, <2>1, <3>1, WriterTells DEF Talking, InUse
    <2>3. joined[seg[p]] = {}
      BY <1>3, <2>2 DEF SegmentOf
    <2>4. ASSUME NEW z \in Seg PROVE SegmentOf(z)'
      <3>1. z # seg[p] => magic'[z] = magic[z]
        BY <1>6 DEF TypeOK
      <3>. QED
        BY <1>2, <1>6, <2>1, <2>2, <2>3, <3>1 DEF HandshakeInv, SegmentOf
    <2>5. ASSUME NEW r \in Readers PROVE ReaderOf(r)'
      <3>0. r # p
        BY <1>6, RolesAssumption
      <3>1. /\ pc'[r] = pc[r] /\ seg'[r] = seg[r] /\ want'[r] = want[r]
            /\ pc[r] \in Talking \cup InUse => seg[r] \in Seg
        BY <1>1, <3>0, ReaderSame
      <3>2. \A z \in Seg : z # seg[p] => magic'[z] = magic[z]
        BY <1>6 DEF TypeOK
      <3>. QED
        BY <1>2, <1>6, <2>1, <2>2, <3>1, <3>2 DEF HandshakeInv, ReaderOf, Talking
    <2>. QED
      BY <2>4, <2>5 DEF HandshakeInv
  <1>7. CASE /\ p \in Readers /\ want[p] = "magic" /\ pc' = [pc EXCEPT ![p] = "idle"]
             /\ joined' = [joined EXCEPT ![seg[p]] = @ \cup {p}] /\ want' = want /\ magic' = magic
    <2>1. /\ ~Young(seg[p]) /\ ~Shaking(seg[p]) /\ joined[seg[p]] = {}
          /\ magic[seg[p]] \in {"magic", "eof"}
      BY <1>2, <1>7 DEF HandshakeInv, ReaderOf, Talking
    <2>2. pc'[p] = "idle" /\ joined'[seg[p]] = {p}
      BY <1>2, <1>7, <2>1 DEF TypeOK
    <2>3. ASSUME NEW z \in Seg PROVE SegmentOf(z)'
      <3>1. z # seg[p] => joined'[z] = joined[z]
        BY <1>7 DEF TypeOK
      <3>. QED
        BY <1>2, <1>4, <1>7, <2>1, <2>2, <3>1 DEF HandshakeInv, SegmentOf
    <2>4. ReaderOf(p)'
      BY <1>2, <2>2 DEF ReaderOf, Talking
    <2>. QED
      BY <1>1, <1>7, <2>3, <2>4, ReaderAlone DEF HandshakeInv
  <1>. QED
    BY <1>5, <1>6, <1>7, AnswerCases

\* The handshake stays sound.
LEMMA HandshakeStep ==
    ASSUME TypeInv, [Next]_vars, HandshakeInv
    PROVE  HandshakeInv'
  <1>0. TypeInv'
    BY TypeInvStep
  <1>1. ASSUME NEW p \in Proc, Step(p) \/ Choice(p)
        PROVE  HandshakeInv'
    BY <1>0, <1>1, CreateShakes, SynShakes, CheckShakes, AnswerShakes, QuietStep
  <1>2. CASE UNCHANGED vars
    BY <1>2 DEF vars, names, memory, history, HandshakeInv, SegmentOf, ReaderOf, Young, Shaking,
       Answered
  <1>. QED
    BY <1>1, <1>2 DEF Next

-----------------------------------------------------------------------------
(* The hands.                                                              *)

\* A block written is there to be read, and one read is gone.
LEMMA WriteMoves ==
    ASSUME NEW wh \in Slot, NEW rh \in Slot, NEW n \in Nat, n <= Size - wh, n <= AvailableWrite(wh, rh)
    PROVE  AvailableRead(Wrapped(wh + n), rh) = AvailableRead(wh, rh) + n
  BY SizeAssumption DEF Slot, AvailableRead, AvailableWrite, Wrapped

\* A block taken is no longer there.
LEMMA ReadMoves ==
    ASSUME NEW wh \in Slot, NEW rh \in Slot, NEW n \in Nat, n <= Size - rh, n <= AvailableRead(wh, rh)
    PROVE  AvailableRead(wh, Wrapped(rh + n)) = AvailableRead(wh, rh) - n
  BY SizeAssumption DEF Slot, AvailableRead, Wrapped

\* What is to be read lies outside the block being written, which comes right
\* behind it.
LEMMA UnreadSlot ==
    ASSUME NEW wh \in Slot, NEW rh \in Slot, NEW n \in Nat, n <= Size - wh, n <= AvailableWrite(wh, rh),
           NEW i \in 0 .. AvailableRead(wh, rh) - 1
    PROVE  Wrapped(rh + i) \in Slot /\ Wrapped(rh + i) \notin wh .. wh + n - 1
  BY SizeAssumption DEF Slot, AvailableRead, AvailableWrite, Wrapped

\* The block written comes right behind what is to be read.
LEMMA WrittenSlot ==
    ASSUME NEW wh \in Slot, NEW rh \in Slot, NEW n \in Nat, n <= Size - wh, n <= AvailableWrite(wh, rh),
           NEW i \in Nat, AvailableRead(wh, rh) <= i, i < AvailableRead(wh, rh) + n
    PROVE  Wrapped(rh + i) = wh + (i - AvailableRead(wh, rh))
  BY SizeAssumption DEF Slot, AvailableRead, AvailableWrite, Wrapped

\* What stays after a block is taken is where it was.
LEMMA ReadSlot ==
    ASSUME NEW wh \in Slot, NEW rh \in Slot, NEW n \in Nat, n <= Size - rh, n <= AvailableRead(wh, rh),
           NEW i \in 0 .. AvailableRead(wh, rh) - n - 1
    PROVE  Wrapped(Wrapped(rh + n) + i) = Wrapped(rh + (n + i))
  BY SizeAssumption DEF Slot, AvailableRead, Wrapped
\* Where a call keeps its hand.
Calling == {"drop", "avail", "peek", "magic"} \cup Moving

\* A process and its segment in a call.
LEMMA InCall ==
    ASSUME TypeInv, NEW p \in Proc, pc[p] \in Calling
    PROVE  /\ seg[p] \in Seg /\ readhand[seg[p]] \in Slot /\ writehand[seg[p]] \in Slot
           /\ written[seg[p]] \in Nat /\ taken[seg[p]] \in Nat
           /\ call[p] \in CallRecord /\ call[p].hand \in Slot /\ call[p].n \in Nat
           /\ pc[p] \in Moving => call[p].n <= call[p].len /\ call[p].n <= Size - call[p].hand
  <1>1. seg[p] \in Seg
    BY SegOf DEF TypeInv, Calling, Moving, HasSeg, HasAttached, InUse
  <1>2. call[p] \in CallRecord
    BY DEF TypeInv, TypeOK, CallRecord
  <1>. QED
    BY <1>1, <1>2 DEF TypeInv, TypeOK, CallRecord, BlockInv, BlockOf

\* A step that leaves the hands of the segments alone disturbs its own call at
\* most, and a call that is over keeps no hand.
LEMMA HandFrame ==
    ASSUME TypeInv, HandInv, NEW p \in Proc, Step(p) \/ Choice(p),
           UNCHANGED <<writehand, readhand, written>>,
           \A w \in Writers : w # p /\ pc[w] = "publish" => ring'[seg[w]] = ring[seg[w]],
           p \in Writers => WriterHand(p)', p \in Readers => ReaderHand(p)'
    PROVE  HandInv'
  <1>1. ASSUME NEW q \in Proc, q # p
        PROVE  /\ q \in Writers => WriterHand(q)'
               /\ q \in Readers => ReaderHand(q)'
    <2>1. pc'[q] = pc[q] /\ seg'[q] = seg[q] /\ call'[q] = call[q]
      BY <1>1, OwnOnly DEF TypeInv
    <2>2. q \in Writers => WriterHand(q)'
      BY <1>1, <2>1 DEF HandInv, WriterHand
    <2>3. q \in Readers => ReaderHand(q)'
      BY <1>1, <2>1 DEF HandInv, ReaderHand
    <2>. QED
      BY <2>2, <2>3
  <1>. QED
    BY <1>1 DEF HandInv, Proc

\* A process in no call promises nothing about hands.
LEMMA NotCalling ==
    ASSUME NEW p, pc[p] \notin Calling
    PROVE  WriterHand(p) /\ ReaderHand(p)
  BY DEF WriterHand, ReaderHand, Calling, Moving

\* The steps outside the calls.
LEMMA OutsideCalls ==
    ASSUME TypeInv, NEW p \in Proc, Step(p) \/ Choice(p),
           pc[p] \notin Calling, ~InitHeader(p), ~BeginWrite(p), ~BeginRead(p)
    PROVE  /\ UNCHANGED <<writehand, readhand, ring, written, taken>>
           /\ pc'[p] \notin Calling
  <1>0. pc \in [Proc -> Pc] /\ TypeOK /\ RoleInv
    BY DEF TypeInv, TypeOK
  <1>a. CASE Answer(p)
    BY <1>0, <1>a, AnswerCases DEF Calling, Moving
  <1>b. CASE Connect(p) /\ ~Answer(p)
    BY <1>b, <1>0 DEF Connect, Create, Get, Find, Remove, Stat, Attach, Syn, Wait, Look, Alone,
       Check, Leave, Goto, Calling, Moving, memory, history
  <1>2. CASE Write(p)
    BY <1>2, <1>0 DEF Write, Drop, DropPeek, WriteAvailable, CopyIn, PublishWrite, WritePeek,
       Return, At, Goto, Calling, Moving, memory, history
  <1>3. CASE Read(p)
    BY <1>3, <1>0 DEF Read, ReadAvailable, CopyOut, PublishRead, ReadPeek, ReadMagic, At, Goto,
       Calling, Moving
  <1>4. CASE Destroy(p)
    BY <1>4, <1>0 DEF Destroy, Eof, MarkEof, Detach, Rmid, Leave, Goto, Calling, Moving, memory,
       history
  <1>5. CASE Choice(p)
    BY <1>5, <1>0 DEF Choice, Start, Cancel, MarkEof, BeginDestroy, Die, Leave, At, Goto, Calling, Moving,
       memory, history
  <1>. QED
    BY <1>a, <1>b, <1>2, <1>3, <1>4, <1>5 DEF Step

\* What a step of a call comes to.
LEMMA CallStep ==
    ASSUME TypeInv, NEW p \in Proc, Step(p) \/ Choice(p), pc[p] \in Calling
    PROVE  \/ Drop(p) \/ WriteAvailable(p) \/ CopyIn(p) \/ PublishWrite(p) \/ WritePeek(p)
           \/ ReadAvailable(p) \/ CopyOut(p) \/ PublishRead(p) \/ ReadPeek(p) \/ ReadMagic(p)
           \/ Die(p)
  <1>1. ~Connect(p)
    BY DEF Connect, Create, Get, Find, Remove, Stat, Attach, InitHeader, Syn, Wait, Look, Alone,
       Check, Answer, At, Calling, Moving
  <1>2. ~Destroy(p)
    BY DEF Destroy, Eof, Detach, Rmid, At, Calling, Moving
  <1>3. Choice(p) => Die(p)
    BY DEF Choice, Start, BeginWrite, BeginRead, Cancel, BeginDestroy, At, Calling, Moving
  <1>4. Write(p) => Drop(p) \/ WriteAvailable(p) \/ CopyIn(p) \/ PublishWrite(p) \/ WritePeek(p)
    BY DEF Write, DropPeek, At, Calling, Moving
  <1>. QED
    BY <1>1, <1>2, <1>3, <1>4 DEF Step, Read

\* A call that begins, or takes another turn, keeps the hand of its segment.
LEMMA BeginHand ==
    ASSUME TypeInv, HandInv, NEW p \in Proc, BeginWrite(p) \/ BeginRead(p)
    PROVE  HandInv'
  <1>. USE DEF TypeInv
  <1>1. Step(p) \/ Choice(p)
    BY DEF Choice
  <1>2. pc \in [Proc -> Pc] /\ call \in [Proc -> CallRecord]
    BY DEF TypeOK, CallRecord
  <1>3. UNCHANGED <<writehand, readhand, ring, written, seg>>
    BY DEF BeginWrite, BeginRead, memory, history
  <1>4. CASE BeginWrite(p)
    <2>1. p \in Writers /\ pc'[p] \in {"drop", "avail"} /\ call'[p].hand = writehand[seg[p]]
      BY <1>2, <1>4 DEF BeginWrite, SetCall, NoCall, Goto
    <2>2. WriterHand(p)'
      BY <1>3, <2>1 DEF WriterHand, Moving
    <2>. QED
      BY <1>1, <1>3, <2>1, <2>2, HandFrame, RolesAssumption
  <1>5. CASE BeginRead(p)
    <2>1. p \in Readers /\ pc'[p] = "avail" /\ call'[p].hand = readhand[seg[p]]
      BY <1>2, <1>5 DEF BeginRead, SetCall, NoCall, Goto
    <2>2. ReaderHand(p)'
      BY <1>3, <2>1 DEF ReaderHand, Moving
    <2>. QED
      BY <1>1, <1>3, <2>1, <2>2, HandFrame, RolesAssumption
  <1>. QED
    BY <1>4, <1>5

\* A step that leaves the call, or returns from it.
LEMMA TurnHand ==
    ASSUME TypeInv, HandInv, NEW p \in Proc,
           Drop(p) \/ WritePeek(p) \/ CopyOut(p) \/ ReadPeek(p) \/ ReadMagic(p) \/ Die(p)
    PROVE  HandInv'
  <1>. USE DEF TypeInv
  <1>1. Step(p) \/ Choice(p)
    BY DEF Choice, Step, Write, Read
  <1>2. pc \in [Proc -> Pc] /\ TypeOK
    BY DEF TypeOK
  <1>3. UNCHANGED <<writehand, readhand, ring, written>>
    BY DEF Drop, WritePeek, CopyOut, ReadPeek, ReadMagic, Die, memory, history
  <1>4. \/ pc'[p] \notin Calling
        \/ /\ UNCHANGED <<call, seg>> /\ p \in Writers /\ pc[p] \in {"drop", "peek"} /\ pc'[p] = "avail"
        \/ /\ UNCHANGED <<call, seg>> /\ p \in Readers
           /\ pc[p] \in {"peek", "magic"} /\ pc'[p] \in {"avail", "magic"}
        \/ /\ UNCHANGED <<call, seg>> /\ p \in Readers /\ pc[p] = "copy" /\ pc'[p] = "publish"
    <2>1. CASE Drop(p) \/ CopyOut(p)
      <3>1. Drop(p) => p \in Writers
        BY DEF Drop, At, RoleInv, RoleOf, InUse, Proc
      <3>. QED
        BY <1>2, <2>1, <3>1 DEF Drop, CopyOut, At, Goto, Calling, Moving
    <2>2. CASE WritePeek(p)
      BY <1>2, <2>2 DEF WritePeek, GiveUpOrTurn, Return, At, Goto, Calling, Moving
    <2>3. CASE ReadPeek(p)
      BY <1>2, <2>3 DEF ReadPeek, Return, At, Goto, Calling, Moving
    <2>4. CASE ReadMagic(p)
      <3>1. p \in Readers
        BY <2>4 DEF ReadMagic, At, RoleInv, RoleOf, InUse, Proc
      <3>. QED
        BY <1>2, <2>4, <3>1 DEF ReadMagic, GiveUpOrTurn, Return, At, Goto, Calling, Moving
    <2>5. CASE Die(p)
      BY <1>2, <2>5 DEF Die, Leave, Goto, Calling, Moving
    <2>. QED
      BY <2>1, <2>2, <2>3, <2>4, <2>5
  <1>5. p \in Writers => WriterHand(p)'
    BY <1>3, <1>4, RolesAssumption DEF HandInv, WriterHand, Calling, Moving
  <1>6. p \in Readers => ReaderHand(p)'
    BY <1>3, <1>4, RolesAssumption DEF HandInv, ReaderHand, Calling, Moving
  <1>. QED
    BY <1>1, <1>3, <1>5, <1>6, HandFrame

\* The block of the next turn fits what was found.
LEMMA AvailableHand ==
    ASSUME TypeInv, HandInv, NEW p \in Proc, WriteAvailable(p) \/ ReadAvailable(p)
    PROVE  HandInv'
  <1>. USE DEF TypeInv
  <1>1. (Step(p) \/ Choice(p)) /\ pc[p] = "avail"
    BY DEF Step, Write, Read, WriteAvailable, ReadAvailable, At
  <1>2. pc \in [Proc -> Pc] /\ call \in [Proc -> CallRecord] /\ call[p] \in CallRecord
    BY DEF TypeOK, CallRecord
  <1>3. UNCHANGED <<writehand, readhand, ring, written, seg>>
    BY DEF WriteAvailable, ReadAvailable, memory, history
  <1>4. Room(p) \in Nat /\ Data(p) \in Nat
    BY <1>1, RoomTyped, SizeAssumption DEF HasSeg, HasAttached, InUse
  <1>5. CASE WriteAvailable(p) /\ BeginCopy(p, Room(p))
    <2>1. p \in Writers /\ pc'[p] = "copy"
      BY <1>2, <1>5 DEF WriteAvailable, BeginCopy, Goto
    <2>2. call'[p].hand = call[p].hand /\ call'[p].n <= Room(p)
      BY <1>4, <1>5, BlockTyped
    <2>3. WriterHand(p)'
      BY <1>1, <1>3, <2>1, <2>2 DEF HandInv, WriterHand, Moving, Room
    <2>. QED
      BY <1>1, <1>3, <2>1, <2>3, HandFrame, RolesAssumption
  <1>6. CASE ReadAvailable(p) /\ BeginCopy(p, Data(p))
    <2>1. p \in Readers /\ pc'[p] = "copy"
      BY <1>2, <1>6 DEF ReadAvailable, BeginCopy, Goto
    <2>2. call'[p].hand = call[p].hand /\ call'[p].n <= Data(p)
      BY <1>4, <1>6, BlockTyped
    <2>3. ReaderHand(p)'
      BY <1>1, <1>3, <2>1, <2>2 DEF HandInv, ReaderHand, Moving, Data
    <2>. QED
      BY <1>1, <1>3, <2>1, <2>3, HandFrame, RolesAssumption
  <1>7. CASE ReadAvailable(p) /\ SetCall(p, [call[p] EXCEPT !.mode = {"noblock"}, !.len = Least(Data(p), @)])
                              /\ UNCHANGED pc
    <2>1. p \in Readers /\ pc'[p] = "avail"
      BY <1>1, <1>7 DEF ReadAvailable
    <2>2. call'[p].hand = call[p].hand
      BY <1>2, <1>7, Zenon DEF SetCall, CallRecord
    <2>3. ReaderHand(p)'
      BY <1>1, <1>3, <2>1, <2>2 DEF HandInv, ReaderHand, Moving
    <2>. QED
      BY <1>1, <1>3, <2>1, <2>3, HandFrame, RolesAssumption
  <1>8. CASE WithNothing(p)
    <2>1. pc'[p] \notin Calling \/ (pc'[p] = "peek" /\ UNCHANGED call)
      BY <1>2, <1>8 DEF WithNothing, Return, Goto, Calling, Moving
    <2>2. p \in Writers => WriterHand(p)'
      BY <1>1, <1>3, <2>1 DEF HandInv, WriterHand, Calling, Moving
    <2>3. p \in Readers => ReaderHand(p)'
      BY <1>1, <1>3, <2>1 DEF HandInv, ReaderHand, Calling, Moving
    <2>. QED
      BY <1>1, <1>3, <2>2, <2>3, HandFrame
  <1>. QED
    BY <1>5, <1>6, <1>7, <1>8 DEF WriteAvailable, ReadAvailable

\* The block is in the ring before it is published.
LEMMA CopyHand ==
    ASSUME TypeInv, HandInv, NEW p \in Proc, CopyIn(p)
    PROVE  HandInv'
  <1>. USE DEF TypeInv
  <1>1. (Step(p) \/ Choice(p)) /\ pc[p] = "copy" /\ p \in Writers /\ pc[p] \in Calling /\ pc[p] \in Moving
    BY DEF Step, Write, CopyIn, At, Calling, Moving
  <1>2. pc' = [pc EXCEPT ![p] = "publish"] /\ UNCHANGED <<writehand, readhand, written, seg, call>>
    BY DEF CopyIn, Goto, history
  <1>3. /\ ring' = [ring EXCEPT ![seg[p]] =
             [i \in Slot |-> IF i \in Block(p) THEN written[seg[p]] + 1 + (i - call[p].hand) ELSE ring[seg[p]][i]]]
    BY DEF CopyIn
  <1>4. ring' [seg[p]] = [i \in Slot |-> IF i \in Block(p) THEN written[seg[p]] + 1 + (i - call[p].hand)
                                                           ELSE ring[seg[p]][i]]
    BY <1>1, <1>3, InCall DEF TypeOK
  <1>5. ASSUME NEW i \in 0 .. call[p].n - 1
        PROVE  ring'[seg[p]][call[p].hand + i] = written[seg[p]] + 1 + i
    <2>0. call[p].n \in Nat /\ call[p].hand \in Slot /\ call[p].n <= Size - call[p].hand /\ written[seg[p]] \in Nat
      BY <1>1, InCall
    <2>1. call[p].hand + i \in Slot /\ call[p].hand + i \in Block(p)
      BY <2>0, SizeAssumption DEF Slot, Block
    <2>2. ring'[seg[p]][call[p].hand + i] = written[seg[p]] + 1 + ((call[p].hand + i) - call[p].hand)
      BY <1>4, <2>1
    <2>. QED
      BY <2>0, <2>2 DEF Slot
  <1>6. pc'[p] = "publish"
    BY <1>2 DEF TypeOK
  <1>7. WriterHand(p)'
    BY <1>1, <1>2, <1>5, <1>6 DEF HandInv, WriterHand, Moving
  <1>8. \A w \in Writers : w # p /\ pc[w] = "publish" => ring'[seg[w]] = ring[seg[w]]
    <2>1. ASSUME NEW w \in Writers, w # p PROVE pc[w] # "publish"
      BY <1>1, <2>1, Sole DEF HasSeg, HasAttached, InUse
    <2>. QED
      BY <2>1
  <1>. QED
    BY <1>1, <1>2, <1>7, <1>8, HandFrame, RolesAssumption

\* A new header disturbs nobody: its writer is in no call, and no reader is
\* connected yet.
LEMMA HeaderHand ==
    ASSUME TypeInv, HandInv, HandshakeInv, NEW p \in Proc, InitHeader(p)
    PROVE  HandInv'
  <1>. USE DEF TypeInv
  <1>1. (Step(p) \/ Choice(p)) /\ pc[p] = "init" /\ p \in Writers /\ p \notin Readers
    BY RolesAssumption DEF Step, Connect, InitHeader, At, RoleInv, RoleOf, Proc
  <1>2. Young(seg[p])
    BY <1>1 DEF Young
  <1>3. /\ writehand' = [writehand EXCEPT ![seg[p]] = 0] /\ readhand' = [readhand EXCEPT ![seg[p]] = 0]
        /\ pc' = [pc EXCEPT ![p] = "syn"]
    BY DEF InitHeader, Goto
  <1>4. ASSUME NEW w \in Writers PROVE WriterHand(w)'
    <2>1. pc'[w] \notin Calling
      <3>1. CASE w = p
        BY <1>3, <3>1 DEF TypeOK, Calling, Moving
      <3>2. CASE w # p
        BY <1>1, <3>2, Sole DEF Alive, Calling, Moving, HasSeg, HasAttached, InUse, Proc, OwnOnly
      <3>. QED
        BY <3>1, <3>2
    <2>. QED
      BY <2>1 DEF WriterHand, Calling, Moving
  <1>5. ASSUME NEW r \in Readers PROVE ReaderHand(r)'
    <2>1. r \in Proc /\ r # p
      BY <1>1, RolesAssumption DEF Proc
    <2>2. pc'[r] = pc[r] /\ seg'[r] = seg[r] /\ call'[r] = call[r]
      BY <1>1, <2>1, OwnOnly
    <2>3. CASE pc[r] \in Calling
      <3>1. seg[r] \in Seg /\ seg[r] # seg[p]
        <4>1. pc[r] \in InUse
          BY <2>1, <2>3 DEF Calling, Moving, InUse, RoleInv, RoleOf
        <4>2. seg[r] \in Seg /\ ~Young(seg[r])
          BY <2>1, <4>1, ReaderNotYoung
        <4>. QED
          BY <1>2, <4>2
      <3>2. writehand'[seg[r]] = writehand[seg[r]] /\ readhand'[seg[r]] = readhand[seg[r]]
        BY <1>3, <3>1 DEF TypeOK
      <3>. QED
        BY <2>2, <3>2 DEF HandInv, ReaderHand
    <2>4. CASE pc[r] \notin Calling
      BY <2>2, <2>4 DEF ReaderHand, Calling, Moving
    <2>. QED
      BY <2>3, <2>4
  <1>. QED
    BY <1>4, <1>5 DEF HandInv

\* A writer that publishes moves the segment's hand as it moves its own, and a
\* reader there finds no less.
LEMMA PublishWriteHand ==
    ASSUME TypeInv, HandInv, NEW p \in Proc, PublishWrite(p)
    PROVE  HandInv'
  <1>. USE DEF TypeInv
  <1>1. (Step(p) \/ Choice(p)) /\ pc[p] = "publish" /\ p \in Writers /\ pc[p] \in Moving /\ pc[p] \in Calling
    BY DEF Step, Write, PublishWrite, At, Moving, Calling
  <1>2. pc \in [Proc -> Pc] /\ call \in [Proc -> CallRecord]
    BY DEF TypeOK, CallRecord
  <1>3. /\ UNCHANGED <<readhand, ring, seg>> /\ Advance(p)
        /\ writehand' = [writehand EXCEPT ![seg[p]] = Beyond(p)]
    BY DEF PublishWrite
  <1>4. /\ call[p].hand = writehand[seg[p]]
        /\ call[p].n <= AvailableWrite(call[p].hand, readhand[seg[p]])
    BY <1>1 DEF HandInv, WriterHand
  <1>5. seg[p] \in Seg /\ writehand'[seg[p]] = Beyond(p) /\ call[p] \in CallRecord
    BY <1>1, <1>3, InCall DEF TypeOK
  <1>6. WriterHand(p)'
    <2>1. pc'[p] \notin Calling \/ (pc'[p] = "avail" /\ call'[p].hand = Beyond(p))
      <3>1. CASE Return(p)
        BY <1>2, <3>1 DEF Return, Goto, Calling, Moving
      <3>2. CASE /\ Goto(p, "avail")
                 /\ SetCall(p, [call[p] EXCEPT !.len = @ - call[p].n, !.ret = @ + call[p].n,
                                               !.hand = Beyond(p), !.n = 0])
        <4>1. pc'[p] = "avail"
          BY <1>2, <3>2 DEF Goto
        <4>2. call'[p].hand = Beyond(p)
          BY <1>2, <1>5, <3>2, Zenon DEF SetCall, CallRecord
        <4>. QED
          BY <4>1, <4>2
      <3>. QED
        BY <1>3, <3>1, <3>2 DEF Advance
    <2>. QED
      BY <1>3, <1>5, <2>1 DEF WriterHand, Calling, Moving
  <1>7. ASSUME NEW w \in Writers, w # p PROVE WriterHand(w)'
    <2>1. pc[w] \notin HasSeg /\ pc'[w] = pc[w]
      BY <1>1, <1>7, Sole, OwnOnly DEF Proc
    <2>. QED
      BY <2>1 DEF WriterHand, Moving, HasSeg, HasAttached, InUse
  <1>8. ASSUME NEW r \in Readers PROVE ReaderHand(r)'
    <2>1. r \in Proc /\ r # p
      BY <1>1, RolesAssumption DEF Proc
    <2>2. pc'[r] = pc[r] /\ seg'[r] = seg[r] /\ call'[r] = call[r]
      BY <1>1, <2>1, OwnOnly
    <2>3. CASE pc[r] \in Calling /\ seg[r] = seg[p] /\ pc[r] \in Moving
      <3>1. call[r].hand = readhand[seg[p]] /\ call[r].n <= AvailableRead(writehand[seg[p]], readhand[seg[p]])
        BY <2>3 DEF HandInv, ReaderHand
      <3>2. AvailableRead(Beyond(p), readhand[seg[p]]) = AvailableRead(writehand[seg[p]], readhand[seg[p]]) + call[p].n
        BY <1>1, <1>4, InCall, WriteMoves DEF Beyond
      <3>3. /\ call[p].n \in Nat /\ call[r].n \in Nat
            /\ AvailableRead(writehand[seg[p]], readhand[seg[p]]) \in Int
        BY <1>1, <2>1, <2>3, InCall, Distances
      <3>4. call[r].n <= AvailableRead(Beyond(p), readhand[seg[p]])
        BY <3>1, <3>2, <3>3
      <3>. QED
        BY <1>3, <1>5, <2>2, <2>3, <3>1, <3>4 DEF ReaderHand
    <2>4. CASE pc[r] \in Calling /\ seg[r] # seg[p]
      <3>1. writehand'[seg[r]] = writehand[seg[r]]
        BY <1>3, <2>1, <2>4, InCall DEF TypeOK
      <3>. QED
        BY <1>3, <2>2, <3>1 DEF HandInv, ReaderHand
    <2>5. CASE pc[r] \notin Moving
      BY <1>3, <2>2, <2>5 DEF HandInv, ReaderHand
    <2>. QED
      BY <2>3, <2>4, <2>5 DEF Calling
  <1>. QED
    BY <1>6, <1>7, <1>8 DEF HandInv

\* The same the other way round.
LEMMA PublishReadHand ==
    ASSUME TypeInv, HandInv, NEW p \in Proc, PublishRead(p)
    PROVE  HandInv'
  <1>. USE DEF TypeInv
  <1>1. (Step(p) \/ Choice(p)) /\ pc[p] = "publish" /\ p \in Readers /\ pc[p] \in Moving /\ pc[p] \in Calling
    BY DEF Step, Read, PublishRead, At, Moving, Calling
  <1>2. pc \in [Proc -> Pc] /\ call \in [Proc -> CallRecord]
    BY DEF TypeOK, CallRecord
  <1>3. /\ UNCHANGED <<writehand, ring, seg, written>> /\ Advance(p)
        /\ readhand' = [readhand EXCEPT ![seg[p]] = Beyond(p)]
    BY DEF PublishRead
  <1>4. /\ call[p].hand = readhand[seg[p]]
        /\ call[p].n <= AvailableRead(writehand[seg[p]], call[p].hand)
    BY <1>1 DEF HandInv, ReaderHand
  <1>5. seg[p] \in Seg /\ readhand'[seg[p]] = Beyond(p) /\ call[p] \in CallRecord
    BY <1>1, <1>3, InCall DEF TypeOK
  <1>6. ReaderHand(p)'
    <2>1. pc'[p] \notin Calling \/ (pc'[p] = "avail" /\ call'[p].hand = Beyond(p))
      <3>1. CASE Return(p)
        BY <1>2, <3>1 DEF Return, Goto, Calling, Moving
      <3>2. CASE /\ Goto(p, "avail")
                 /\ SetCall(p, [call[p] EXCEPT !.len = @ - call[p].n, !.ret = @ + call[p].n,
                                               !.hand = Beyond(p), !.n = 0])
        <4>1. pc'[p] = "avail"
          BY <1>2, <3>2 DEF Goto
        <4>2. call'[p].hand = Beyond(p)
          BY <1>2, <1>5, <3>2, Zenon DEF SetCall, CallRecord
        <4>. QED
          BY <4>1, <4>2
      <3>. QED
        BY <1>3, <3>1, <3>2 DEF Advance
    <2>. QED
      BY <1>3, <1>5, <2>1 DEF ReaderHand, Calling, Moving
  <1>7. ASSUME NEW r \in Readers, r # p PROVE ReaderHand(r)'
    <2>1. pc[r] \notin HasSeg /\ pc'[r] = pc[r]
      BY <1>1, <1>7, Sole, OwnOnly DEF Proc
    <2>. QED
      BY <2>1 DEF ReaderHand, Moving, HasSeg, HasAttached, InUse
  <1>8. ASSUME NEW w \in Writers PROVE WriterHand(w)'
    <2>1. w \in Proc /\ w # p
      BY <1>1, RolesAssumption DEF Proc
    <2>2. pc'[w] = pc[w] /\ seg'[w] = seg[w] /\ call'[w] = call[w]
      BY <1>1, <2>1, OwnOnly
    <2>3. CASE pc[w] \in Calling /\ seg[w] = seg[p] /\ pc[w] \in Moving
      <3>1. call[w].hand = writehand[seg[p]] /\ call[w].n <= AvailableWrite(writehand[seg[p]], readhand[seg[p]])
        BY <2>3 DEF HandInv, WriterHand
      <3>2. AvailableRead(writehand[seg[p]], Beyond(p)) = AvailableRead(writehand[seg[p]], readhand[seg[p]]) - call[p].n
        BY <1>1, <1>4, InCall, ReadMoves DEF Beyond
      <3>3. /\ call[p].n \in Nat /\ call[w].n \in Nat /\ Beyond(p) \in Slot
            /\ writehand[seg[p]] \in Slot /\ readhand[seg[p]] \in Slot
        BY <1>1, <2>1, <2>3, InCall, BlockTyped
      <3>4. call[w].n <= AvailableWrite(writehand[seg[p]], Beyond(p))
        <4>1. /\ AvailableWrite(writehand[seg[p]], Beyond(p)) = Size - 1 - AvailableRead(writehand[seg[p]], Beyond(p))
              /\ AvailableWrite(writehand[seg[p]], readhand[seg[p]]) = Size - 1 - AvailableRead(writehand[seg[p]], readhand[seg[p]])
              /\ AvailableRead(writehand[seg[p]], readhand[seg[p]]) \in Int
          BY <3>3, Distances
        <4>. QED
          BY <3>1, <3>2, <3>3, <4>1, SizeAssumption
      <3>. QED
        BY <1>3, <1>5, <2>2, <2>3, <3>1, <3>4 DEF HandInv, WriterHand
    <2>4. CASE pc[w] \in Calling /\ seg[w] # seg[p]
      <3>1. readhand'[seg[w]] = readhand[seg[w]]
        BY <1>3, <2>1, <2>4, InCall DEF TypeOK
      <3>. QED
        BY <1>3, <2>2, <3>1 DEF HandInv, WriterHand
    <2>5. CASE pc[w] \notin Moving
      BY <1>3, <2>2, <2>5 DEF HandInv, WriterHand, Moving
    <2>. QED
      BY <2>3, <2>4, <2>5 DEF Calling
  <1>. QED
    BY <1>6, <1>7, <1>8 DEF HandInv

\* Hands, room and data stay as the calls know them.
LEMMA HandStep ==
    ASSUME TypeInv, [Next]_vars, HandshakeInv, HandInv
    PROVE  HandInv'
  <1>1. ASSUME NEW p \in Proc, Step(p) \/ Choice(p)
        PROVE  HandInv'
    <2>1. CASE InitHeader(p) \/ BeginWrite(p) \/ BeginRead(p)
      BY <2>1, HeaderHand, BeginHand
    <2>2. CASE pc[p] \in Calling
      BY <1>1, <2>2, CallStep, TurnHand, AvailableHand, CopyHand, PublishWriteHand, PublishReadHand
    <2>3. CASE pc[p] \notin Calling /\ ~(InitHeader(p) \/ BeginWrite(p) \/ BeginRead(p))
      <3>1. UNCHANGED <<writehand, readhand, ring, written, taken>> /\ pc'[p] \notin Calling
        BY <1>1, <2>3, OutsideCalls
      <3>2. WriterHand(p)' /\ ReaderHand(p)'
        BY <3>1 DEF WriterHand, ReaderHand, Calling, Moving
      <3>. QED
        BY <1>1, <3>1, <3>2, HandFrame
    <2>. QED
      BY <2>1, <2>2, <2>3
  <1>2. CASE UNCHANGED vars
    BY <1>2 DEF vars, memory, history, HandInv, WriterHand, ReaderHand
  <1>. QED
    BY <1>1, <1>2 DEF Next

-----------------------------------------------------------------------------
(* The FIFO.                                                               *)

\* One segment's part of Fifo.
FifoOf(s) ==
  /\ Held(s) = written[s] - taken[s]
  /\ \A i \in 0 .. Held(s) - 1 : ring[s][Wrapped(readhand[s] + i)] = taken[s] + 1 + i

\* A segment that a step does not write to, nor read from, stays a FIFO.
LEMMA FifoElsewhere ==
    ASSUME Fifo, NEW s \in Seg, writehand'[s] = writehand[s], readhand'[s] = readhand[s],
           ring'[s] = ring[s], written'[s] = written[s], taken'[s] = taken[s]
    PROVE  FifoOf(s)'
  BY DEF Fifo, FifoOf, Held

\* A new header finds an empty ring.
LEMMA HeaderFifo ==
    ASSUME TypeInv, HandshakeInv, Fifo, NEW p \in Proc, InitHeader(p), NEW s \in Seg
    PROVE  FifoOf(s)'
  <1>. USE DEF TypeInv
  <1>1. pc[p] = "init" /\ p \in Writers /\ seg[p] \in Seg
    BY SegOf DEF InitHeader, At, RoleInv, RoleOf, Proc, HasSeg, HasAttached
  <1>2. Young(seg[p])
    BY <1>1 DEF Young
  <1>3. written[seg[p]] = 0 /\ taken[seg[p]] = 0
    BY <1>1, <1>2 DEF HandshakeInv, SegmentOf
  <1>4. /\ writehand' = [writehand EXCEPT ![seg[p]] = 0] /\ readhand' = [readhand EXCEPT ![seg[p]] = 0]
        /\ UNCHANGED <<ring, written, taken>>
    BY DEF InitHeader, history
  <1>5. writehand'[seg[p]] = 0 /\ readhand'[seg[p]] = 0
    BY <1>1, <1>4 DEF TypeOK
  <1>8. CASE s # seg[p]
    <2>1. writehand'[s] = writehand[s] /\ readhand'[s] = readhand[s]
      BY <1>4, <1>8 DEF TypeOK
    <2>. QED
      BY <1>4, <2>1, FifoElsewhere
  <1>9. CASE s = seg[p]
    <2>1. Held(s)' = 0
      BY <1>5, <1>9, SizeAssumption DEF Held, AvailableRead
    <2>. QED
      BY <1>3, <1>4, <1>9, <2>1 DEF FifoOf
  <1>. QED
    BY <1>8, <1>9

\* The block goes to free slots.
LEMMA CopyFifo ==
    ASSUME TypeInv, HandInv, Fifo, NEW p \in Proc, CopyIn(p), NEW s \in Seg
    PROVE  FifoOf(s)'
  <1>. USE DEF TypeInv
  <1>1. pc[p] = "copy" /\ p \in Writers /\ pc[p] \in Calling /\ pc[p] \in Moving
    BY DEF CopyIn, At, Calling, Moving
  <1>2. /\ UNCHANGED <<writehand, readhand, written, taken>>
        /\ ring' = [ring EXCEPT ![seg[p]] =
             [i \in Slot |-> IF i \in Block(p) THEN written[seg[p]] + 1 + (i - call[p].hand) ELSE ring[seg[p]][i]]]
    BY DEF CopyIn, history
  <1>3. /\ call[p].hand = writehand[seg[p]]
        /\ call[p].n <= AvailableWrite(call[p].hand, readhand[seg[p]])
    BY <1>1 DEF HandInv, WriterHand
  <1>4. /\ seg[p] \in Seg /\ call[p].hand \in Slot /\ readhand[seg[p]] \in Slot
        /\ call[p].n \in Nat /\ call[p].n <= Size - call[p].hand
    BY <1>1, InCall
  <1>5. ASSUME NEW i \in 0 .. Held(seg[p]) - 1
        PROVE  ring'[seg[p]][Wrapped(readhand[seg[p]] + i)] = ring[seg[p]][Wrapped(readhand[seg[p]] + i)]
    <2>1. Wrapped(readhand[seg[p]] + i) \in Slot /\ Wrapped(readhand[seg[p]] + i) \notin Block(p)
      BY <1>3, <1>4, UnreadSlot DEF Block, Held
    <2>2. ring'[seg[p]] = [j \in Slot |-> IF j \in Block(p) THEN written[seg[p]] + 1 + (j - call[p].hand)
                                                            ELSE ring[seg[p]][j]]
      BY <1>2, <1>4 DEF TypeOK
    <2>. QED
      BY <2>1, <2>2
  <1>6. CASE s = seg[p]
    <2>1. Held(s)' = Held(s)
      BY <1>2 DEF Held
    <2>. QED
      BY <1>2, <1>5, <1>6, <2>1 DEF Fifo, FifoOf
  <1>7. CASE s # seg[p]
    <2>1. ring'[s] = ring[s]
      BY <1>2, <1>7 DEF TypeOK
    <2>. QED
      BY <1>2, <2>1, FifoElsewhere
  <1>. QED
    BY <1>6, <1>7

\* What is published was copied in its place.
LEMMA PublishWriteFifo ==
    ASSUME TypeInv, HandInv, Fifo, NEW p \in Proc, PublishWrite(p), NEW s \in Seg
    PROVE  FifoOf(s)'
  <1>. USE DEF TypeInv
  <1>0. CASE s # seg[p]
    <2>1. writehand'[s] = writehand[s] /\ written'[s] = written[s]
      BY <1>0 DEF PublishWrite, TypeOK
    <2>. QED
      BY <2>1, FifoElsewhere DEF PublishWrite
  <1>. SUFFICES ASSUME s = seg[p] PROVE FifoOf(s)'
    BY <1>0
  <1>. DEFINE n == call[p].n
              old == AvailableRead(writehand[s], readhand[s])
  <1>1. pc[p] = "publish" /\ p \in Writers /\ pc[p] \in Calling /\ pc[p] \in Moving
    BY DEF PublishWrite, At, Calling, Moving
  <1>2. /\ UNCHANGED <<readhand, ring, taken>>
        /\ writehand' = [writehand EXCEPT ![s] = Beyond(p)]
        /\ written' = [written EXCEPT ![s] = @ + n]
    BY DEF PublishWrite
  <1>3. /\ call[p].hand = writehand[s] /\ n <= AvailableWrite(writehand[s], readhand[s])
        /\ \A i \in 0 .. n - 1 : ring[s][writehand[s] + i] = written[s] + 1 + i
    BY <1>1 DEF HandInv, WriterHand
  <1>4. /\ s \in Seg /\ writehand[s] \in Slot /\ readhand[s] \in Slot /\ n \in Nat
        /\ n <= Size - writehand[s] /\ written[s] \in Nat /\ taken[s] \in Nat
    BY <1>1, <1>3, InCall
  <1>5. old \in Nat /\ old = written[s] - taken[s]
    BY <1>4, Distances, SizeAssumption DEF Fifo, Held
  <1>6. writehand'[s] = Beyond(p) /\ written'[s] = written[s] + n
    BY <1>2, <1>4 DEF TypeOK
  <1>7. Held(s)' = old + n
    BY <1>2, <1>3, <1>4, <1>6, WriteMoves DEF Held, Beyond
  <1>8. ASSUME NEW i \in 0 .. old + n - 1
        PROVE  ring[s][Wrapped(readhand[s] + i)] = taken[s] + 1 + i
    <2>1. CASE i < old
      BY <1>4, <1>5, <1>8, <2>1 DEF Fifo, Held
    <2>2. CASE old <= i
      <3>1. Wrapped(readhand[s] + i) = writehand[s] + (i - old)
        BY <1>3, <1>4, <1>5, <1>8, <2>2, WrittenSlot
      <3>2. i - old \in 0 .. n - 1
        BY <1>4, <1>5, <1>8, <2>2
      <3>3. ring[s][writehand[s] + (i - old)] = written[s] + 1 + (i - old)
        BY <1>3, <3>2
      <3>. QED
        BY <1>4, <1>5, <3>1, <3>3
    <2>. QED
      BY <1>5, <1>8, <2>1, <2>2
  <1>9. FifoOf(s)'
    BY <1>2, <1>4, <1>5, <1>6, <1>7, <1>8 DEF FifoOf
  <1>. QED
    BY <1>9

\* What is taken is the first.
LEMMA PublishReadFifo ==
    ASSUME TypeInv, HandInv, Fifo, NEW p \in Proc, PublishRead(p), NEW s \in Seg
    PROVE  FifoOf(s)'
  <1>. USE DEF TypeInv
  <1>0. CASE s # seg[p]
    <2>1. readhand'[s] = readhand[s] /\ taken'[s] = taken[s]
      BY <1>0 DEF PublishRead, TypeOK
    <2>. QED
      BY <2>1, FifoElsewhere DEF PublishRead
  <1>. SUFFICES ASSUME s = seg[p] PROVE FifoOf(s)'
    BY <1>0
  <1>. DEFINE n == call[p].n
              old == AvailableRead(writehand[s], readhand[s])
  <1>1. pc[p] = "publish" /\ p \in Readers /\ pc[p] \in Calling /\ pc[p] \in Moving
    BY DEF PublishRead, At, Calling, Moving
  <1>2. /\ UNCHANGED <<writehand, ring, written>>
        /\ readhand' = [readhand EXCEPT ![s] = Beyond(p)]
        /\ taken' = [taken EXCEPT ![s] = @ + n]
    BY DEF PublishRead
  <1>3. call[p].hand = readhand[s] /\ n <= old
    BY <1>1 DEF HandInv, ReaderHand
  <1>4. /\ s \in Seg /\ writehand[s] \in Slot /\ readhand[s] \in Slot /\ n \in Nat
        /\ n <= Size - readhand[s] /\ written[s] \in Nat /\ taken[s] \in Nat
    BY <1>1, <1>3, InCall
  <1>5. old \in Nat /\ old = written[s] - taken[s]
    BY <1>4, Distances, SizeAssumption DEF Fifo, Held
  <1>6. readhand'[s] = Wrapped(readhand[s] + n) /\ taken'[s] = taken[s] + n
    BY <1>2, <1>3, <1>4 DEF TypeOK, Beyond
  <1>7. Held(s)' = old - n
    BY <1>2, <1>3, <1>4, <1>6, ReadMoves DEF Held
  <1>8. ASSUME NEW i \in 0 .. old - n - 1
        PROVE  ring[s][Wrapped(readhand'[s] + i)] = (taken[s] + n) + 1 + i
    <2>1. Wrapped(readhand'[s] + i) = Wrapped(readhand[s] + (n + i))
      BY <1>3, <1>4, <1>6, <1>8, ReadSlot
    <2>2. n + i \in 0 .. old - 1
      BY <1>4, <1>5, <1>8
    <2>3. ring[s][Wrapped(readhand[s] + (n + i))] = taken[s] + 1 + (n + i)
      BY <1>4, <2>2 DEF Fifo, Held
    <2>. QED
      BY <1>4, <1>5, <2>1, <2>2, <2>3
  <1>9. FifoOf(s)'
    BY <1>2, <1>4, <1>5, <1>6, <1>7, <1>8 DEF FifoOf
  <1>. QED
    BY <1>9

\* Every step keeps every segment a FIFO.
LEMMA FifoStep ==
    ASSUME TypeInv, [Next]_vars, HandshakeInv, HandInv, Fifo
    PROVE  Fifo'
  <1>1. ASSUME UNCHANGED <<writehand, readhand, ring, written, taken>>
        PROVE  Fifo'
    BY <1>1 DEF Fifo, Held
  <1>2. ASSUME NEW p \in Proc, Step(p) \/ Choice(p)
        PROVE  Fifo'
    <2>1. CASE InitHeader(p) \/ CopyIn(p) \/ PublishWrite(p) \/ PublishRead(p)
      <3>1. \A s \in Seg : FifoOf(s)'
        BY <2>1, HeaderFifo, CopyFifo, PublishWriteFifo, PublishReadFifo
      <3>. QED
        BY <3>1 DEF Fifo, FifoOf
    <2>2. CASE ~(InitHeader(p) \/ CopyIn(p) \/ PublishWrite(p) \/ PublishRead(p))
      <3>1. CASE pc[p] \in Calling
        <4>1. \/ Drop(p) \/ WriteAvailable(p) \/ WritePeek(p) \/ ReadAvailable(p)
              \/ CopyOut(p) \/ ReadPeek(p) \/ ReadMagic(p) \/ Die(p)
          BY <1>2, <2>2, <3>1, CallStep
        <4>. QED
          BY <1>1, <4>1 DEF Drop, WriteAvailable, WritePeek, ReadAvailable, CopyOut, ReadPeek,
             ReadMagic, Die, memory, history
      <3>2. CASE pc[p] \notin Calling /\ ~BeginWrite(p) /\ ~BeginRead(p)
        BY <1>1, <1>2, <2>2, <3>2, OutsideCalls
      <3>3. CASE BeginWrite(p) \/ BeginRead(p)
        BY <1>1, <3>3 DEF BeginWrite, BeginRead, memory, history
      <3>. QED
        BY <3>1, <3>2, <3>3
    <2>. QED
      BY <2>1, <2>2
  <1>3. CASE UNCHANGED vars
    BY <1>1, <1>3 DEF vars, memory, history
  <1>. QED
    BY <1>2, <1>3 DEF Next

-----------------------------------------------------------------------------
(* The end.                                                                *)

\* The magic number becomes another than "eof" by the handshake alone, and who
\* attaches to a segment is about to.
LEMMA OutsideHandshake ==
    ASSUME TypeInv, NEW p \in Proc, Step(p) \/ Choice(p), NEW s \in Seg
    PROVE  /\ \/ magic'[s] = magic[s] \/ magic'[s] = "eof"
              \/ (Syn(p) \/ Answer(p)) /\ pc[p] \in {"syn", "answer"} /\ seg[p] = s
           /\ \/ attached'[s] \subseteq attached[s]
              \/ Attach(p) /\ pc[p] = "attach" /\ seg[p] = s /\ attached'[s] = attached[s] \cup {p}
  <1>0. TypeOK /\ RoleInv /\ magic \in [Seg -> Magic] /\ attached \in [Seg -> SUBSET Proc]
    BY DEF TypeInv, TypeOK
  <1>1. CASE Answer(p)
    BY <1>0, <1>1, AnswerCases
  <1>2. CASE Create(p) \/ Get(p) \/ Find(p) \/ Remove(p) \/ Stat(p)
    BY <1>2 DEF Create, Get, Find, Remove, Stat, memory
  <1>3. CASE Attach(p)
    <2>1. magic' = magic /\ pc[p] = "attach"
      BY <1>3 DEF Attach, At, memory
    <2>2. attached' = attached \/ attached' = [attached EXCEPT ![seg[p]] = attached[seg[p]] \cup {p}]
      BY <1>3 DEF Attach
    <2>. QED
      BY <1>0, <1>3, <2>1, <2>2
  <1>4. CASE InitHeader(p) \/ Syn(p) \/ Wait(p) \/ Look(p) \/ Alone(p) \/ Check(p)
    BY <1>0, <1>4 DEF InitHeader, Syn, Wait, Look, Alone, Check, memory, At
  <1>5. CASE Write(p)
    BY <1>5 DEF Write, Drop, DropPeek, WriteAvailable, CopyIn, PublishWrite, WritePeek, memory
  <1>6. CASE Read(p)
    BY <1>6 DEF Read, ReadAvailable, CopyOut, PublishRead, ReadPeek, ReadMagic, memory
  <1>7. CASE Eof(p) \/ Detach(p) \/ Rmid(p)
    <2>1. CASE Eof(p)
      BY <1>0, <2>1 DEF Eof, MarkEof
    <2>2. CASE Detach(p)
      BY <1>0, <2>2 DEF Detach, memory
    <2>3. CASE Rmid(p)
      BY <2>3 DEF Rmid, memory
    <2>. QED
      BY <1>7, <2>1, <2>2, <2>3
  <1>8. CASE Cancel(p)
    BY <1>0, <1>8 DEF Cancel, MarkEof
  <1>9. CASE Die(p)
    BY <1>0, <1>9 DEF Die, memory
  <1>10. CASE Start(p) \/ BeginWrite(p) \/ BeginRead(p) \/ BeginDestroy(p)
    BY <1>10 DEF Start, BeginWrite, BeginRead, BeginDestroy, memory
  <1>. QED
    BY <1>1, <1>2, <1>3, <1>4, <1>5, <1>6, <1>7, <1>8, <1>9, <1>10 DEF Step, Choice, Connect,
       Destroy

\* A mark is never taken off the list, and who makes the magic number "eof" is
\* on it.
LEMMA EndsMark ==
    ASSUME TypeInv, NEW p \in Proc, Step(p) \/ Choice(p), NEW s \in Seg
    PROVE  /\ enders[s] \subseteq enders'[s]
           /\ \/ magic'[s] # "eof"
              \/ magic[s] = "eof"
              \/ seg[p] = s /\ p \in enders'[s] /\ pc[p] \in {"idle", "eof"}
  <1>0. magic \in [Seg -> Magic] /\ enders \in [Seg -> SUBSET Proc]
    BY DEF TypeInv, TypeOK
  <1>1. CASE Answer(p) \/ Syn(p)
    <2>1. enders' = enders
      BY <1>1 DEF Answer, Syn, history
    <2>2. \A t \in Seg : magic'[t] = magic[t] \/ magic'[t] # "eof"
      <3>1. CASE Answer(p)
        BY <1>0, <3>1, AnswerCases DEF TypeInv
      <3>2. CASE Syn(p)
        BY <1>0, <3>2 DEF Syn
      <3>. QED
        BY <1>1, <3>1, <3>2
    <2>. QED
      BY <2>1, <2>2
  <1>2. CASE Eof(p) \/ Cancel(p)
    <2>1. /\ magic' = [magic EXCEPT ![seg[p]] = "eof"]
          /\ enders' = [enders EXCEPT ![seg[p]] = enders[seg[p]] \cup {p}]
          /\ pc[p] \in {"idle", "eof"}
      BY <1>2 DEF Eof, Cancel, MarkEof, At
    <2>2. CASE seg[p] = s
      BY <1>0, <2>1, <2>2
    <2>3. CASE seg[p] # s
      BY <1>0, <2>1, <2>3
    <2>. QED
      BY <2>2, <2>3
  <1>3. CASE UNCHANGED <<magic, enders>>
    BY <1>3
  <1>4. CASE Create(p) \/ Get(p) \/ Find(p) \/ Remove(p) \/ Stat(p) \/ Attach(p)
    BY <1>3, <1>4 DEF Create, Get, Find, Remove, Stat, Attach, memory, history
  <1>5. CASE InitHeader(p) \/ Wait(p) \/ Look(p) \/ Alone(p) \/ Check(p)
    BY <1>3, <1>5 DEF InitHeader, Wait, Look, Alone, Check, memory, history
  <1>6. CASE Write(p)
    BY <1>3, <1>6 DEF Write, Drop, DropPeek, WriteAvailable, CopyIn, PublishWrite, WritePeek,
       memory, history
  <1>7. CASE Read(p)
    BY <1>3, <1>7 DEF Read, ReadAvailable, CopyOut, PublishRead, ReadPeek, ReadMagic, memory,
       history
  <1>8. CASE Detach(p) \/ Rmid(p) \/ Die(p)
    BY <1>3, <1>8 DEF Detach, Rmid, Die, memory, history
  <1>9. CASE Start(p) \/ BeginWrite(p) \/ BeginRead(p) \/ BeginDestroy(p)
    BY <1>3, <1>9 DEF Start, BeginWrite, BeginRead, BeginDestroy, memory, history
  <1>. QED
    BY <1>1, <1>2, <1>4, <1>5, <1>6, <1>7, <1>8, <1>9 DEF Step, Choice, Connect, Destroy

\* A reader comes to the last part of the handshake by answering the first.
LEMMA ToMagic ==
    ASSUME TypeInv, NEW p \in Readers, Step(p) \/ Choice(p),
           want'[p] = "magic", pc'[p] \in Talking \cup InUse
    PROVE  /\ seg'[p] = seg[p]
           /\ \/ want[p] = "magic" /\ pc[p] \in Talking \cup InUse
              \/ want[p] = "winit" /\ pc[p] = "answer"
  <1>0. /\ TypeOK /\ RoleInv /\ p \in Proc /\ p \notin Writers /\ p \notin Admins
        /\ pc \in [Proc -> Pc] /\ want \in [Proc -> Magic]
    BY RolesAssumption DEF TypeInv, TypeOK, Proc
  <1>1. CASE Answer(p)
    BY <1>0, <1>1, AnswerCases DEF Talking, InUse
  <1>2. CASE Create(p) \/ Get(p) \/ Find(p) \/ Remove(p) \/ Stat(p) \/ Attach(p)
    BY <1>0, <1>2 DEF Create, Get, Find, Remove, Stat, Attach, Leave, Goto, Talking, InUse
  <1>3. CASE InitHeader(p) \/ Syn(p) \/ Wait(p) \/ Look(p) \/ Alone(p) \/ Check(p)
    <2>1. pc[p] \notin {"init", "syn"}
      BY <1>0 DEF RoleInv, RoleOf
    <2>. QED
      BY <1>0, <1>3, <2>1 DEF InitHeader, Syn, Wait, Look, Alone, Check, At, Talking, InUse
  <1>5. CASE Write(p)
    BY <1>0, <1>5 DEF Write, Drop, DropPeek, WriteAvailable, CopyIn, PublishWrite, WritePeek, At,
       Talking, InUse
  <1>6. CASE Read(p)
    BY <1>0, <1>6 DEF Read, ReadAvailable, CopyOut, PublishRead, ReadPeek, ReadMagic, At, Talking,
       InUse
  <1>7. CASE Destroy(p)
    BY <1>0, <1>7 DEF Destroy, Eof, Detach, Rmid, Leave, Goto, Talking, InUse
  <1>8. CASE Choice(p)
    BY <1>0, <1>8 DEF Choice, Start, Die, BeginWrite, BeginRead, BeginDestroy, Cancel, Leave, Goto,
       At, Talking, InUse
  <1>. QED
    BY <1>1, <1>2, <1>3, <1>5, <1>6, <1>7, <1>8 DEF Step, Connect

\* How a process comes to be told of the end, and what it does then.
LEMMA Told ==
    ASSUME TypeInv, EndInv, NEW p \in Proc, Step(p) \/ Choice(p), sawend'[p]
    PROVE  \/ /\ sawend[p] /\ seg'[p] = seg[p] /\ pc'[p] \in {"idle", "eof", "detach", "rmid"}
              /\ pc'[p] = "idle" => Cancel(p) /\ pc[p] = "idle"
           \/ /\ pc[p] \in InUse /\ pc'[p] = "idle" /\ UNCHANGED <<attached, seg, want, enders>>
              /\ \/ Others(p) = {}
                 \/ p \in Readers /\ magic[seg[p]] = "eof"
  <1>0. /\ TypeOK /\ RoleInv /\ pc \in [Proc -> Pc] /\ sawend \in [Proc -> BOOLEAN]
    BY DEF TypeInv, TypeOK
  <1>e. sawend[p] => pc[p] \in {"idle", "eof", "detach", "rmid"}
    BY DEF EndInv, EndOf
  <1>1. CASE Answer(p)
    BY <1>0, <1>e, <1>1, AnswerCases
  <1>2. CASE Create(p) \/ Get(p) \/ Find(p) \/ Remove(p) \/ Stat(p) \/ Attach(p)
    BY <1>0, <1>e, <1>2 DEF Create, Get, Find, Remove, Stat, Attach, Leave, At
  <1>3. CASE InitHeader(p) \/ Syn(p) \/ Wait(p) \/ Look(p) \/ Alone(p) \/ Check(p)
    BY <1>0, <1>e, <1>3 DEF InitHeader, Syn, Wait, Look, Alone, Check, At
  <1>4. CASE DropPeek(p)
    BY <1>0, <1>4 DEF DropPeek, Return, Goto, At, InUse, history
  <1>5. CASE Drop(p) \/ WriteAvailable(p) \/ CopyIn(p) \/ PublishWrite(p)
    BY <1>e, <1>5 DEF Drop, WriteAvailable, CopyIn, PublishWrite, At
  <1>6. CASE WritePeek(p)
    BY <1>0, <1>6 DEF WritePeek, GiveUpOrTurn, Return, Goto, At, InUse, history
  <1>7. CASE ReadAvailable(p) \/ CopyOut(p) \/ PublishRead(p)
    BY <1>e, <1>7 DEF ReadAvailable, CopyOut, PublishRead, At
  <1>8. CASE ReadPeek(p)
    BY <1>0, <1>e, <1>8 DEF ReadPeek, Return, Goto, At, InUse, history
  <1>9. CASE ReadMagic(p)
    <2>1. p \in Readers
      BY <1>0, <1>9 DEF ReadMagic, At, RoleInv, RoleOf, InUse, Proc
    <2>. QED
      BY <1>0, <1>9, <2>1 DEF ReadMagic, GiveUpOrTurn, Return, Goto, At, InUse, history
  <1>10. CASE Destroy(p)
    BY <1>0, <1>e, <1>10 DEF Destroy, Eof, Detach, Rmid, Leave, Goto, At
  <1>11. CASE Choice(p)
    BY <1>0, <1>e, <1>11 DEF Choice, Start, Die, BeginWrite, BeginRead, BeginDestroy, Cancel, Leave,
       Goto, At
  <1>. QED
    BY <1>1, <1>2, <1>3, <1>4, <1>5, <1>6, <1>7, <1>8, <1>9, <1>10, <1>11 DEF Step, Connect, Write,
       Read

\* What a process was told of the end stays true whatever the others do.
LEMMA ToldStaysTrue ==
    ASSUME TypeInv, HandshakeInv, EndInv, NEW p \in Proc, Step(p) \/ Choice(p), NEW q \in Proc, q # p
    PROVE  EndOf(q)'
  <1>. USE DEF TypeInv
  <1>1. pc'[q] = pc[q] /\ seg'[q] = seg[q] /\ want'[q] = want[q] /\ sawend'[q] = sawend[q]
    BY OwnOnly
  <1>2. SUFFICES ASSUME sawend[q], pc[q] = "idle"
                 PROVE  /\ q \in Readers => \/ enders'[seg[q]] \cap (Writers \cup {q}) # {}
                                          \/ attached'[seg[q]] \cap Writers = {}
                        /\ q \in Writers => \A r \in Readers :
                             ~(seg'[r] = seg[q] /\ want'[r] = "magic" /\ pc'[r] \in Talking \cup InUse)
    BY <1>1 DEF EndInv, EndOf, Ended
  <1>3. seg[q] \in Seg
    BY <1>2, SegOf DEF HasSeg, HasAttached, InUse
  <1>4. ASSUME q \in Readers
        PROVE  enders'[seg[q]] \cap (Writers \cup {q}) # {} \/ attached'[seg[q]] \cap Writers = {}
    <2>1. joined[seg[q]] # {}
      BY <1>2, <1>4 DEF HandshakeInv, ReaderOf, InUse
    <2>2. ~Shaking(seg[q])
      BY <1>3, <2>1 DEF HandshakeInv, SegmentOf
    <2>3. p \notin Readers \/ pc[p] \notin HasSeg
      BY <1>2, <1>4, Sole DEF Alive
    <2>4. seg[p] = seg[q] /\ pc[p] \in {"syn", "answer", "attach"} => p \notin Writers /\ p \notin Readers
      BY <2>2, <2>3 DEF Shaking, Talking, HasSeg, HasAttached
    <2>5. CASE Ended(q)
      BY <1>3, <2>5, EndsMark DEF Ended
    <2>6. CASE attached[seg[q]] \cap Writers = {}
      BY <1>3, <2>4, <2>6, OutsideHandshake
    <2>. QED
      BY <1>2, <1>4, <2>5, <2>6 DEF EndInv, EndOf
  <1>5. ASSUME q \in Writers, NEW r \in Readers,
               seg'[r] = seg[q], want'[r] = "magic", pc'[r] \in Talking \cup InUse
        PROVE  FALSE
    <2>1. ~(seg[r] = seg[q] /\ want[r] = "magic" /\ pc[r] \in Talking \cup InUse)
      BY <1>2, <1>5 DEF EndInv, EndOf
    <2>2. CASE r # p
      BY <1>5, <2>1, <2>2, OwnOnly DEF Proc
    <2>3. CASE r = p
      <3>1. seg[r] = seg[q] /\ want[r] = "winit" /\ pc[r] = "answer"
        BY <1>5, <2>1, <2>3, ToMagic
      <3>2. Answered(seg[q])
        BY <1>2, <1>5 DEF Answered, InUse
      <3>. QED
        BY <3>1, <3>2 DEF HandshakeInv, ReaderOf
    <2>. QED
      BY <2>2, <2>3
  <1>. QED
    BY <1>4, <1>5

\* The end is told only when it is true.
LEMMA EndStep ==
    ASSUME TypeInv, [Next]_vars, HandshakeInv, EndInv, MarkInv
    PROVE  EndInv'
  <1>1. ASSUME NEW p \in Proc, Step(p) \/ Choice(p)
        PROVE  EndInv'
    <2>1. ASSUME NEW q \in Proc, q # p PROVE EndOf(q)'
      BY <1>1, <2>1, ToldStaysTrue
    <2>2. EndOf(p)'
      <3>1. SUFFICES ASSUME sawend'[p] PROVE EndOf(p)'
        BY DEF EndOf
      <3>2. CASE /\ sawend[p] /\ seg'[p] = seg[p] /\ pc'[p] \in {"idle", "eof", "detach", "rmid"}
                 /\ pc'[p] = "idle" => Cancel(p) /\ pc[p] = "idle"
        <4>1. CASE pc'[p] # "idle"
          BY <3>2, <4>1 DEF EndOf
        <4>2. CASE pc'[p] = "idle"
          <5>1. seg[p] \in Seg /\ enders \in [Seg -> SUBSET Proc]
            BY <3>2, <4>2, SegOf DEF TypeInv, TypeOK, HasSeg, HasAttached, InUse
          <5>2. p \in enders'[seg[p]] /\ UNCHANGED <<seg, want, pc>>
            BY <3>2, <4>2, <5>1 DEF Cancel, MarkEof
          <5>3. Ended(p)'
            BY <5>2 DEF Ended
          <5>. QED
            BY <3>2, <4>2, <5>2, <5>3 DEF EndInv, EndOf
        <4>. QED
          BY <4>1, <4>2
      <3>3. CASE /\ pc[p] \in InUse /\ pc'[p] = "idle" /\ UNCHANGED <<attached, seg, want, enders>>
                 /\ \/ Others(p) = {}
                    \/ p \in Readers /\ magic[seg[p]] = "eof"
        <4>1. p \in Readers /\ Others(p) = {} => attached[seg[p]] \cap Writers = {}
          BY RolesAssumption DEF Others
        <4>2. ASSUME p \in Writers, NEW r \in Readers, seg'[r] = seg[p], pc'[r] \in Talking \cup InUse
              PROVE  FALSE
          <5>1. r \in Proc /\ r # p /\ Others(p) = {}
            BY <3>3, <4>2, RolesAssumption DEF Proc
          <5>2. pc'[r] = pc[r]
            BY <1>1, <5>1, OwnOnly DEF TypeInv
          <5>3. r \in attached[seg[r]] /\ seg[r] = seg[p]
            BY <3>3, <4>2, <5>1, <5>2 DEF TypeInv, RoleInv, RoleOf, HasAttached
          <5>. QED
            BY <5>1, <5>3 DEF Others
        <4>3. p \in Readers /\ magic[seg[p]] = "eof" => Ended(p)'
          BY <3>3 DEF MarkInv, MarkOf, Ended
        <4>. QED
          BY <3>3, <4>1, <4>2, <4>3, RolesAssumption DEF EndOf
      <3>. QED
        BY <1>1, <3>1, <3>2, <3>3, Told
    <2>. QED
      BY <2>1, <2>2 DEF EndInv
  <1>2. CASE UNCHANGED vars
    BY <1>2 DEF vars, history, EndInv, EndOf, Ended
  <1>. QED
    BY <1>1, <1>2 DEF Next

\* Where a reader is once it has seen the writer's last answer.
Joining(r) == pc[r] \in InUse \/ (pc[r] = "answer" /\ want[r] = "magic")

\* It gets there by finding the answer, and not the mark of the end.
LEMMA JoinsUnmarked ==
    ASSUME TypeInv, NEW p \in Readers, Step(p) \/ Choice(p), Joining(p)', ~Joining(p)
    PROVE  seg'[p] = seg[p] /\ seg[p] \in Seg /\ magic'[seg[p]] # "eof"
  <1>0. /\ TypeOK /\ RoleInv /\ p \in Proc /\ p \notin Writers /\ p \notin Admins
        /\ pc \in [Proc -> Pc] /\ want \in [Proc -> Magic]
    BY RolesAssumption DEF TypeInv, TypeOK, Proc
  <1>. USE DEF Joining, InUse
  <1>1. CASE Answer(p)
    BY <1>0, <1>1, AnswerCases
  <1>2. CASE Create(p) \/ Get(p) \/ Find(p) \/ Remove(p) \/ Stat(p) \/ Attach(p)
    BY <1>0, <1>2 DEF Create, Get, Find, Remove, Stat, Attach, Leave, Goto
  <1>3. CASE InitHeader(p) \/ Syn(p) \/ Wait(p) \/ Look(p) \/ Alone(p)
    <2>1. pc[p] \notin {"init", "syn"}
      BY <1>0 DEF RoleInv, RoleOf
    <2>. QED
      BY <1>0, <1>3, <2>1 DEF InitHeader, Syn, Wait, Look, Alone, At, Goto
  <1>4. CASE Check(p)
    <2>1. pc[p] = "check" /\ UNCHANGED <<magic, seg, want>>
      BY <1>4 DEF Check, At, memory
    <2>2. seg[p] \in Seg
      BY <1>0, <2>1, SegOf DEF HasSeg, HasAttached, Talking
    <2>. QED
      BY <1>0, <1>4, <2>1, <2>2 DEF Check, Goto
  <1>5. CASE Write(p)
    BY <1>0, <1>5 DEF Write, Drop, DropPeek, WriteAvailable, CopyIn, PublishWrite, WritePeek, At
  <1>6. CASE Read(p)
    BY <1>0, <1>6 DEF Read, ReadAvailable, CopyOut, PublishRead, ReadPeek, ReadMagic, At
  <1>7. CASE Destroy(p)
    BY <1>0, <1>7 DEF Destroy, Eof, Detach, Rmid, Leave, Goto
  <1>8. CASE Choice(p)
    BY <1>0, <1>8 DEF Choice, Start, Die, BeginWrite, BeginRead, BeginDestroy, Cancel, Leave, Goto,
       At
  <1>. QED
    BY <1>1, <1>2, <1>3, <1>4, <1>5, <1>6, <1>7, <1>8 DEF Step, Connect

\* Staying there it keeps its segment.
LEMMA JoinedStays ==
    ASSUME TypeInv, NEW p \in Readers, Step(p) \/ Choice(p), Joining(p), Joining(p)'
    PROVE  seg'[p] = seg[p] /\ seg[p] \in Seg
  <1>0. /\ TypeOK /\ RoleInv /\ p \in Proc /\ p \notin Writers /\ p \notin Admins
        /\ pc \in [Proc -> Pc] /\ want \in [Proc -> Magic]
    BY RolesAssumption DEF TypeInv, TypeOK, Proc
  <1>. USE DEF Joining, InUse
  <1>1. seg[p] \in Seg
    BY <1>0, SegOf DEF HasSeg, HasAttached, Talking
  <1>a. CASE seg' = seg
    BY <1>1, <1>a
  <1>2. CASE Create(p) \/ Get(p) \/ Find(p) \/ Remove(p) \/ Stat(p) \/ Attach(p)
    BY <1>0, <1>2 DEF Create, Get, Find, Remove, Stat, Attach, Leave, Goto, At
  <1>3. CASE InitHeader(p) \/ Syn(p) \/ Wait(p) \/ Look(p) \/ Alone(p) \/ Check(p) \/ Answer(p)
    BY <1>a, <1>3 DEF InitHeader, Syn, Wait, Look, Alone, Check, Answer
  <1>6. CASE Write(p)
    BY <1>a, <1>6 DEF Write, Drop, DropPeek, WriteAvailable, CopyIn, PublishWrite, WritePeek
  <1>7. CASE Read(p)
    BY <1>a, <1>7 DEF Read, ReadAvailable, CopyOut, PublishRead, ReadPeek, ReadMagic
  <1>4. CASE Destroy(p)
    BY <1>0, <1>4 DEF Destroy, Eof, Detach, Rmid, Leave, Goto, At
  <1>5. CASE Choice(p)
    <2>1. CASE Die(p)
      BY <1>0, <2>1 DEF Die, Leave, Goto
    <2>2. CASE ~Die(p)
      BY <1>a, <1>5, <2>2 DEF Choice, Start, BeginWrite, BeginRead, BeginDestroy, Cancel
    <2>. QED
      BY <2>1, <2>2
  <1>. QED
    BY <1>2, <1>3, <1>4, <1>5, <1>6, <1>7 DEF Step, Connect

\* The mark a reader may find is the writer's or its own.
LEMMA MarkStep ==
    ASSUME TypeInv, [Next]_vars, MarkInv
    PROVE  MarkInv'
  <1>1. ASSUME NEW p \in Proc, Step(p) \/ Choice(p), NEW r \in Readers, Joining(r)',
               magic'[seg'[r]] = "eof"
        PROVE  Ended(r)'
    <2>0. r \in Proc
      BY DEF Proc
    <2>1. Joining(r) /\ seg'[r] = seg[r] /\ seg[r] \in Seg
      <3>1. CASE r = p
        BY <1>1, <3>1, JoinsUnmarked, JoinedStays
      <3>2. CASE r # p
        <4>1. pc'[r] = pc[r] /\ seg'[r] = seg[r] /\ want'[r] = want[r]
          BY <1>1, <2>0, <3>2, OwnOnly DEF TypeInv
        <4>2. Joining(r)
          BY <1>1, <4>1 DEF Joining
        <4>. QED
          BY <2>0, <4>1, <4>2, SegOf DEF TypeInv, Joining, InUse, HasSeg, HasAttached, Talking
      <3>. QED
        BY <3>1, <3>2
    <2>2. CASE magic[seg[r]] = "eof"
      <3>1. Ended(r)
        BY <2>1, <2>2 DEF MarkInv, MarkOf, Joining
      <3>. QED
        BY <1>1, <2>1, <3>1, EndsMark DEF Ended
    <2>3. CASE magic[seg[r]] # "eof"
      <3>1. seg[p] = seg[r] /\ p \in enders'[seg[r]] /\ pc[p] \in {"idle", "eof"}
        BY <1>1, <2>1, <2>3, EndsMark
      <3>2. p \notin Admins
        BY <3>1 DEF TypeInv, RoleInv, RoleOf, InUse
      <3>3. p \in Readers => p = r
        BY <1>1, <2>1, <3>1, Sole DEF Joining, InUse, HasSeg, HasAttached, Talking
      <3>. QED
        BY <2>1, <3>1, <3>2, <3>3 DEF Ended, Proc
    <2>. QED
      BY <2>2, <2>3
  <1>2. CASE UNCHANGED vars
    BY <1>2 DEF vars, memory, history, MarkInv, MarkOf, Ended
  <1>. QED
    BY <1>1, <1>2 DEF Next, MarkInv, MarkOf, Joining

-----------------------------------------------------------------------------
(* The invariant, and what it gives.                                       *)

\* At the start there is no segment and no process.
LEMMA InitIInv == TwoParty /\ Init => IInv
  <1>. SUFFICES ASSUME TwoParty, Init PROVE IInv
    OBVIOUS
  <1>1. TypeInv
    BY TypeInvInit
  <1>2. HandshakeInv
    BY SegAssumption DEF Init, HandshakeInv, SegmentOf, ReaderOf, Young, Shaking, Answered, Talking,
       InUse, Proc
  <1>3. HandInv
    BY DEF Init, HandInv, WriterHand, ReaderHand, Moving, Proc
  <1>4. Fifo
    <2>1. \A s \in Seg : Held(s) = 0
      BY SizeAssumption DEF Init, Held, AvailableRead
    <2>. QED
      BY <2>1 DEF Init, Fifo
  <1>5. EndInv
    BY DEF Init, EndInv, EndOf
  <1>6. MarkInv
    BY DEF Init, MarkInv, MarkOf, InUse, Proc
  <1>. QED
    BY <1>1, <1>2, <1>3, <1>4, <1>5, <1>6 DEF IInv

\* The strengthening holds in every state the processes can come to.
THEOREM Inductive == TwoParty => (Spec => []IInv)
  <1>. SUFFICES ASSUME TwoParty PROVE Spec => []IInv
    OBVIOUS
  <1>1. IInv /\ [Next]_vars => IInv'
    BY TypeInvStep, HandshakeStep, HandStep, FifoStep, EndStep, MarkStep DEF IInv
  <1>. QED
    BY <1>1, InitIInv, PTL DEF Spec

\* Whoever dies when, a segment holds what was written and not yet taken, each
\* byte in its place.
THEOREM FifoHolds == TwoParty => (Spec => []Fifo)
  <1>. SUFFICES ASSUME TwoParty PROVE Spec => []Fifo
    OBVIOUS
  <1>1. IInv => Fifo
    BY DEF IInv
  <1>. QED
    BY <1>1, Inductive, PTL

\* Writer and reader copy without a lock, and never the same slots.
THEOREM CopiesApart == TwoParty => (Spec => []SlotsApart)
  <1>. SUFFICES ASSUME TwoParty PROVE Spec => []SlotsApart
    OBVIOUS
  <1>1. IInv => SlotsApart
    <2>. SUFFICES ASSUME IInv, NEW p \in Proc, Copying(p) # {}
                  PROVE  IF p \in Writers THEN Copying(p) \cap Unread(seg[p]) = {}
                         ELSE Copying(p) \subseteq Unread(seg[p])
      BY DEF SlotsApart
    <2>. USE DEF IInv
    <2>1. pc[p] \in Moving /\ Copying(p) = Block(p) /\ pc[p] \in Calling /\ (p \in Writers \/ p \in Readers)
      BY DEF Copying, Moving, Calling, TypeInv, RoleInv, RoleOf, InUse, Proc
    <2>2. /\ call[p].hand \in Slot /\ call[p].n \in Nat /\ call[p].n <= Size - call[p].hand
          /\ writehand[seg[p]] \in Slot /\ readhand[seg[p]] \in Slot
      BY <2>1, InCall
    <2>3. CASE p \in Writers
      <3>1. call[p].hand = writehand[seg[p]] /\ call[p].n <= AvailableWrite(call[p].hand, readhand[seg[p]])
        BY <2>1, <2>3 DEF HandInv, WriterHand
      <3>2. \A i \in 0 .. Held(seg[p]) - 1 : Wrapped(readhand[seg[p]] + i) \notin Block(p)
        BY <2>2, <3>1, UnreadSlot DEF Held, Block
      <3>. QED
        BY <2>1, <2>3, <3>2 DEF Unread
    <2>4. CASE p \in Readers
      <3>1. call[p].hand = readhand[seg[p]] /\ call[p].n <= AvailableRead(writehand[seg[p]], readhand[seg[p]])
        BY <2>1, <2>4 DEF HandInv, ReaderHand
      <3>2. ASSUME NEW i \in Block(p) PROVE i \in Unread(seg[p])
        <4>1. i - readhand[seg[p]] \in 0 .. Held(seg[p]) - 1
          <5>1. call[p].n <= Held(seg[p]) /\ Held(seg[p]) \in Int /\ readhand[seg[p]] \in Int
            BY <2>2, <3>1, Distances DEF Held, Slot
          <5>2. i \in readhand[seg[p]] .. readhand[seg[p]] + call[p].n - 1
            BY <3>1, <3>2 DEF Block
          <5>. QED
            BY <2>2, <5>1, <5>2
        <4>2. Wrapped(readhand[seg[p]] + (i - readhand[seg[p]])) = i
          BY <2>2, <3>1, <3>2, SizeAssumption DEF Wrapped, Block, Slot
        <4>. QED
          BY <4>1, <4>2 DEF Unread
      <3>. QED
        BY <2>1, <2>4, <3>2, RolesAssumption
    <2>. QED
      BY <2>1, <2>3, <2>4
  <1>. QED
    BY <1>1, Inductive, PTL

\* Only one reader is ever connected to a segment: no byte goes to a reader
\* that missed those before.
THEOREM OneReaderEver == TwoParty => (Spec => []OneReader)
  <1>. SUFFICES ASSUME TwoParty PROVE Spec => []OneReader
    OBVIOUS
  <1>1. IInv => OneReader
    <2>. SUFFICES ASSUME IInv, NEW s \in Seg
                  PROVE  Cardinality(joined[s]) <= 1
      BY DEF OneReader
    <2>1. \A q, r \in joined[s] : q = r
      BY DEF IInv, HandshakeInv, SegmentOf
    <2>2. CASE joined[s] = {}
      BY <2>2, FS_EmptySet
    <2>3. CASE joined[s] # {}
      <3>1. PICK r : joined[s] = {r}
        BY <2>1, <2>3
      <3>. QED
        BY <3>1, FS_Singleton
    <2>. QED
      BY <2>2, <2>3
  <1>. QED
    BY <1>1, Inductive, PTL

\* Nobody is told of the end too early: a reader not before the writer marked
\* it or is gone, or the reader itself cancelled, whatever marks others left,
\* and a writer not while it has a reader.
THEOREM EndIsToldTruly == TwoParty => (Spec => []EndIsTrue)
  <1>. SUFFICES ASSUME TwoParty PROVE Spec => []EndIsTrue
    OBVIOUS
  <1>1. IInv => EndIsTrue
    <2>. SUFFICES ASSUME IInv, NEW p \in Proc, sawend[p], pc[p] = "idle"
                  PROVE  IF p \in Readers THEN Ended(p) \/ attached[seg[p]] \cap Writers = {}
                         ELSE \A r \in Readers : ~(Connected(r) /\ seg[r] = seg[p])
      BY DEF EndIsTrue
    <2>1. p \in Readers \/ p \in Writers
      BY DEF IInv, TypeInv, RoleInv, RoleOf, InUse, Proc
    <2>2. EndOf(p)
      BY DEF IInv, EndInv
    <2>3. \A r \in Readers : Connected(r) => pc[r] \in InUse /\ want[r] = "magic"
      BY DEF IInv, TypeInv, RoleInv, RoleOf, Connected, InUse, Proc
    <2>. QED
      BY <2>1, <2>2, <2>3 DEF EndOf
  <1>. QED
    BY <1>1, Inductive, PTL
-----------------------------------------------------------------------------
(* The refinement. *)

\* The queue of a segment is the bytes from the first not taken to the last
\* written, by number.
QueueOf(s) ==
  /\ written[s] \in Nat /\ taken[s] \in Nat
  /\ Queue(s) \in Seq(Nat) /\ Len(Queue(s)) = written[s] - taken[s] /\ Len(Queue(s)) <= Size - 1
  /\ \A i \in 1 .. Len(Queue(s)) : Queue(s)[i] = taken[s] + i
QueueInv == \A s \in Seg : QueueOf(s)

\* The invariant makes it so.
LEMMA QueueIs == IInv => QueueInv
  <1>. SUFFICES ASSUME IInv, NEW s \in Seg PROVE QueueOf(s)
    BY DEF QueueInv
  <1>1. written[s] \in Nat /\ taken[s] \in Nat /\ writehand[s] \in Slot /\ readhand[s] \in Slot
    BY DEF IInv, TypeInv, TypeOK
  <1>2. Held(s) \in 0 .. Size - 1 /\ Held(s) = written[s] - taken[s]
    BY <1>1, Distances DEF IInv, Fifo, Held
  <1>3. ASSUME NEW i \in 1 .. Held(s)
        PROVE  ring[s][Wrapped(readhand[s] + i - 1)] = taken[s] + i
    <2>1. i - 1 \in 0 .. Held(s) - 1 /\ readhand[s] + i - 1 = readhand[s] + (i - 1)
      BY <1>1, <1>2 DEF Slot
    <2>2. ring[s][Wrapped(readhand[s] + (i - 1))] = taken[s] + 1 + (i - 1)
      BY <2>1 DEF IInv, Fifo
    <2>. QED
      BY <1>1, <2>1, <2>2
  <1>4. Queue(s) = [i \in 1 .. Held(s) |-> taken[s] + i]
    BY <1>3 DEF Queue
  <1>5. Queue(s) \in Seq(Nat) /\ Len(Queue(s)) = Held(s)
    <2>1. \A i \in 1 .. Held(s) : taken[s] + i \in Nat
      BY <1>1
    <2>. QED
      BY <1>2, <1>4, <2>1
  <1>. QED
    BY <1>1, <1>2, <1>4, <1>5, SizeAssumption DEF QueueOf

\* A step passes a block to a segment or takes one from it, or neither.
LEMMA CountsMove ==
    ASSUME IInv, NEW p \in Proc, Step(p) \/ Choice(p), NEW s \in Seg
    PROVE  \E n \in Nat : \/ written'[s] = written[s] + n /\ taken'[s] = taken[s]
                          \/ written'[s] = written[s] /\ taken'[s] = taken[s] + n
  <1>. USE DEF IInv, TypeInv
  <1>0. written[s] \in Nat /\ taken[s] \in Nat /\ written \in [Seg -> Nat] /\ taken \in [Seg -> Nat]
    BY DEF TypeOK
  <1>1. CASE UNCHANGED <<written, taken>>
    <2>1. written'[s] = written[s] + 0 /\ taken'[s] = taken[s]
      BY <1>0, <1>1
    <2>. QED
      BY <2>1
  <1>2. CASE PublishWrite(p) \/ PublishRead(p)
    <2>1. call[p].n \in Nat
      BY <1>2, InCall DEF PublishWrite, PublishRead, At, Calling, Moving
    <2>2. \/ written' = [written EXCEPT ![seg[p]] = @ + call[p].n] /\ taken' = taken
          \/ taken' = [taken EXCEPT ![seg[p]] = @ + call[p].n] /\ written' = written
      BY <1>2 DEF PublishWrite, PublishRead
    <2>3. CASE s = seg[p]
      BY <1>0, <2>1, <2>2, <2>3
    <2>4. CASE s # seg[p]
      BY <1>0, <1>1, <2>2, <2>4
    <2>. QED
      BY <2>3, <2>4
  <1>3. CASE pc[p] \in Calling /\ ~PublishWrite(p) /\ ~PublishRead(p)
    <2>1. \/ Drop(p) \/ WriteAvailable(p) \/ CopyIn(p) \/ WritePeek(p) \/ ReadAvailable(p)
          \/ CopyOut(p) \/ ReadPeek(p) \/ ReadMagic(p) \/ Die(p)
      BY <1>3, CallStep
    <2>. QED
      BY <1>1, <2>1 DEF Drop, WriteAvailable, CopyIn, WritePeek, ReadAvailable, CopyOut, ReadPeek,
         ReadMagic, Die, history
  <1>4. CASE InitHeader(p) \/ BeginWrite(p) \/ BeginRead(p)
    BY <1>1, <1>4 DEF InitHeader, BeginWrite, BeginRead, history
  <1>5. CASE pc[p] \notin Calling /\ ~(InitHeader(p) \/ BeginWrite(p) \/ BeginRead(p))
    BY <1>1, <1>5, OutsideCalls
  <1>. QED
    BY <1>2, <1>3, <1>4, <1>5

\* A block written is put, and one read is got.
LEMMA PutStep ==
    ASSUME NEW s \in Seg, QueueOf(s), QueueOf(s)', NEW n \in Nat,
           written'[s] = written[s] + n, taken'[s] = taken[s]
    PROVE  Chan(s)!Put(n)
  <1>. DEFINE old == Queue(s)
              new == Queue(s)'
  <1>1. /\ old \in Seq(Nat) /\ new \in Seq(Nat) /\ Len(new) = Len(old) + n /\ Len(new) <= Size - 1
        /\ \A i \in 1 .. Len(old) : new[i] = old[i]
    BY SMTT(40) DEF QueueOf
  <1>. HIDE DEF old, new
  <1>2. SubSeq(new, 1, Len(old)) = old
    <2>1. /\ SubSeq(new, 1, Len(old)) \in Seq(Nat) /\ Len(SubSeq(new, 1, Len(old))) = Len(old)
          /\ \A i \in 1 .. Len(old) : SubSeq(new, 1, Len(old))[i] = new[i]
      BY <1>1
    <2>. QED
      BY <1>1, <2>1
  <1>3. \A i \in Len(old) + 1 .. Len(new) : new[i] \in Nat
    BY <1>1
  <1>. QED
    BY <1>1, <1>2, <1>3 DEF Chan!Put, old, new

\* A block read is got.
LEMMA GetStep ==
    ASSUME NEW s \in Seg, QueueOf(s), QueueOf(s)', NEW n \in Nat,
           written'[s] = written[s], taken'[s] = taken[s] + n
    PROVE  Chan(s)!Get(n) /\ n <= Size - 1
  <1>. DEFINE old == Queue(s)
              new == Queue(s)'
  <1>1. /\ old \in Seq(Nat) /\ new \in Seq(Nat) /\ Len(new) = Len(old) - n
        /\ n <= Len(old) /\ n <= Size - 1
    BY SizeAssumption DEF QueueOf
  <1>2. ASSUME NEW i \in 1 .. Len(new) PROVE new[i] = old[n + i]
    <2>1. n + i \in 1 .. Len(old) /\ taken[s] \in Nat
      BY <1>1 DEF QueueOf
    <2>2. old[n + i] = taken[s] + (n + i) /\ new[i] = taken[s] + n + i
      BY <2>1 DEF QueueOf
    <2>. QED
      BY <2>1, <2>2
  <1>. HIDE DEF old, new
  <1>3. new = SubSeq(old, n + 1, Len(old))
    <2>1. /\ SubSeq(old, n + 1, Len(old)) \in Seq(Nat) /\ Len(SubSeq(old, n + 1, Len(old))) = Len(old) - n
          /\ \A i \in 1 .. Len(old) - n : SubSeq(old, n + 1, Len(old))[i] = old[n + i]
      BY <1>1
    <2>. QED
      BY <1>1, <1>2, <2>1
  <1>. QED
    BY <1>1, <1>3 DEF Chan!Get, old, new

\* Each segment passes the bytes through like a bounded channel of one byte less
\* than the ring, a block at a time.
THEOREM SegmentsImplementChannel == TwoParty => (Spec => ImplementsChannel)
  <1>. SUFFICES ASSUME TwoParty PROVE Spec => ImplementsChannel
    OBVIOUS
  <1>1. IInv /\ QueueInv /\ Init => \A s \in Seg : Chan(s)!Init
    <2>. SUFFICES ASSUME QueueInv, Init, NEW s \in Seg PROVE Queue(s) = <<>>
      BY DEF Chan!Init
    <2>1. Queue(s) \in Seq(Nat) /\ Len(Queue(s)) = 0
      BY DEF Init, QueueInv, QueueOf
    <2>. QED
      BY <2>1
  <1>2. IInv /\ QueueInv /\ QueueInv' /\ [Next]_vars => [\A s \in Seg : [Chan(s)!Next]_(Queue(s))]_vars
    <2>. SUFFICES ASSUME IInv, QueueInv, QueueInv', NEW p \in Proc, Step(p) \/ Choice(p), NEW s \in Seg
                  PROVE  Chan(s)!Next \/ Queue(s)' = Queue(s)
      BY DEF Next
    <2>1. QueueOf(s) /\ QueueOf(s)'
      BY DEF QueueInv
    <2>2. PICK n \in Nat : \/ written'[s] = written[s] + n /\ taken'[s] = taken[s]
                           \/ written'[s] = written[s] /\ taken'[s] = taken[s] + n
      BY CountsMove
    <2>3. CASE n = 0
      <3>1. written'[s] = written[s] /\ taken'[s] = taken[s]
        BY <2>1, <2>2, <2>3 DEF QueueOf
      <3>2. /\ Queue(s) \in Seq(Nat) /\ Queue(s)' \in Seq(Nat) /\ Len(Queue(s)') = Len(Queue(s))
            /\ \A i \in 1 .. Len(Queue(s)) : Queue(s)'[i] = Queue(s)[i]
        BY <2>1, <3>1 DEF QueueOf
      <3>. QED
        BY <3>2
    <2>4. CASE n # 0 /\ written'[s] = written[s] + n /\ taken'[s] = taken[s]
      <3>1. Chan(s)!Put(n)
        BY <2>1, <2>4, PutStep
      <3>2. n \in 1 .. Size - 1
        BY <2>1, <2>4, SizeAssumption DEF QueueOf
      <3>. QED
        BY <3>1, <3>2 DEF Chan!Next
    <2>5. CASE n # 0 /\ written'[s] = written[s] /\ taken'[s] = taken[s] + n
      <3>1. Chan(s)!Get(n) /\ n <= Size - 1
        BY <2>1, <2>5, GetStep
      <3>2. n \in 1 .. Size - 1
        BY <2>5, <3>1, SizeAssumption
      <3>. QED
        BY <3>1, <3>2 DEF Chan!Next
    <2>. QED
      BY <2>2, <2>3, <2>4, <2>5
  <1>. QED
    BY <1>1, <1>2, QueueIs, Inductive, PTL DEF Spec, ImplementsChannel
=============================================================================
