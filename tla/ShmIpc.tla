------------------------------- MODULE ShmIpc -------------------------------
(***************************************************************************)
(* The shared-memory ring of lib/b_shmipc.c: one process writes, another   *)
(* reads, with no lock.  They find each other by a name, shake hands over  *)
(* a magic number in the segment, pass bytes through the ring, and learn   *)
(* of each other's end from the magic number and from how many processes   *)
(* have the segment attached.  Any of them may die at any step, and others *)
(* start after it; a third kind, src/shmadm.c, removes and peeks by name.  *)
(*                                                                         *)
(* One step is one access to shared memory or one system call.  The bytes  *)
(* written to a segment are numbered 1, 2, 3, ...                          *)
(***************************************************************************)
EXTENDS Integers, FiniteSets

CONSTANTS
  Writers, Readers, Admins,   \* the processes
  Mortal,                     \* those that may die
  Seg,                        \* shared memory segments there may ever be
  None,                       \* no segment
  Size,                       \* si_ringbytes
  MaxLen, MaxBytes,           \* most bytes of a call, and in a segment's life
  WriteModes, ReadModes,      \* flags of bk_shmipc_write and bk_shmipc_read
  Timeouts,                   \* a timeout is given
  Overlap                     \* several of a kind may be under way at once

Proc == Writers \cup Readers \cup Admins
Slot == 0 .. Size - 1

ASSUME RolesAssumption == /\ Writers \cap Readers = {} /\ Writers \cap Admins = {}
                          /\ Readers \cap Admins = {} /\ IsFiniteSet(Proc)
ASSUME SegAssumption == None \notin Seg
ASSUME SizeAssumption == Size \in Nat \ {0} /\ MaxLen \in Nat /\ MaxBytes \in Nat
ASSUME ChoiceAssumption == Timeouts \in BOOLEAN /\ Overlap \in BOOLEAN
ASSUME ModesAssumption == WriteModes \cup ReadModes \subseteq SUBSET {"all", "noblock", "drop", "readall"}

VARIABLES
  byname,     \* the segment the name leads to
  created,    \* segments there have been
  removed,    \* segments removed; gone as soon as nobody has them attached
  attached,   \* who has a segment attached
  magic,      \* bsh_magic, "zero" in a new segment
  writehand, readhand,   \* bsh_writehand, bsh_readhand
  ring,       \* the number of the byte in each slot
  pc, seg,    \* where a process is, and si_shmid
  want,       \* the magic number it waits for
  call,       \* its call of bk_shmipc_write or bk_shmipc_read
  sawend,     \* SI_SAWEND
  written,    \* bytes ever published by the writer of a segment
  taken,      \* bytes ever taken by its reader
  joined,     \* readers that were ever connected to a segment
  enders      \* who ever wrote SHMIPC_MAGIC_EOF to it

names == <<byname, created, removed>>
memory == <<magic, writehand, readhand, ring>>
history == <<written, taken, joined, enders>>
vars == <<names, attached, memory, pc, seg, want, call, sawend, history>>
-----------------------------------------------------------------------------
Least(a, b) == IF a <= b THEN a ELSE b
\* The mutant lets the hand reach the end.
WrappedLate(h) == IF h > Size THEN h - Size ELSE h
Wrapped(h) == IF h >= Size THEN h - Size ELSE h

\* The mutant forgets the slot that tells a full ring from an empty one.
AvailableWriteAll(wh, rh) == IF rh <= wh THEN rh + Size - wh ELSE rh - wh
\* bytes_available_write, bytes_available_read
AvailableWrite(wh, rh) == (IF rh <= wh THEN rh + Size ELSE rh) - wh - 1
AvailableRead(wh, rh) == (IF rh > wh THEN wh + Size ELSE wh) - rh

Exists(s) == s \in created /\ ~(s \in removed /\ attached[s] = {})
\* The mutant's count is one too low.
OthersOffByOne(p) == IF Cardinality(attached[seg[p]]) <= 2 THEN {} ELSE attached[seg[p]] \ {p}
\* bk_shmipc_peek: how many others have the segment attached.
Others(p) == attached[seg[p]] \ {p}
Alive(p) == pc[p] \notin {"off", "ended", "dead", "segv"}
Connected(p) == pc[p] \in {"idle", "drop", "droppeek", "avail", "peek", "magic",
                           "copy", "publish"}

At(p, step) == pc[p] = step
Goto(p, step) == pc' = [pc EXCEPT ![p] = step]

\* A call's flags, the bytes still to pass, the hand, the block being copied
\* and the bytes passed.
NoCall == [mode |-> {}, len |-> 0, hand |-> 0, n |-> 0, ret |-> 0]
SetCall(p, c) == call' = [call EXCEPT ![p] = c]
Return(p) == Goto(p, "idle") /\ SetCall(p, NoCall)
\* bk_shmipc_create fails, bk_shmipc_destroy is done, or the process dies.
Leave(p, how) ==
  /\ Goto(p, how) /\ SetCall(p, NoCall)
  /\ seg' = [seg EXCEPT ![p] = None]
  /\ want' = [want EXCEPT ![p] = "zero"]
  /\ sawend' = [sawend EXCEPT ![p] = FALSE]

Init ==
  /\ byname = None /\ created = {} /\ removed = {}
  /\ attached = [s \in Seg |-> {}]
  /\ magic = [s \in Seg |-> "zero"]
  /\ writehand = [s \in Seg |-> 0] /\ readhand = [s \in Seg |-> 0]
  /\ ring = [s \in Seg |-> [i \in Slot |-> 0]]
  /\ pc = [p \in Proc |-> "off"]
  /\ seg = [p \in Proc |-> None]
  /\ want = [p \in Proc |-> "zero"]
  /\ call = [p \in Proc |-> NoCall]
  /\ sawend = [p \in Proc |-> FALSE]
  /\ written = [s \in Seg |-> 0] /\ taken = [s \in Seg |-> 0]
  /\ joined = [s \in Seg |-> {}] /\ enders = [s \in Seg |-> {}]
-----------------------------------------------------------------------------
(* The name and the segment. *)

\* bk_shmipc_create, shmadm.  Nothing keeps a process from starting while
\* another of its kind is under way (Overlap); "two party (single reader, single
\* writer)" asks that it does not.
Start(p) ==
  /\ At(p, "off")
  /\ Overlap \/ \A K \in {Writers, Readers, Admins} : p \in K => \A q \in K : ~Alive(q)
  /\ \/ p \notin Admins /\ Goto(p, "get")
     \/ p \in Admins /\ (Goto(p, "find") \/ Goto(p, "get"))
  /\ UNCHANGED <<names, attached, memory, seg, want, call, sawend, history>>

\* shmget with IPC_CREAT|IPC_EXCL.  There being a segment leads to deleting it.
Create(p) ==
  /\ At(p, "get") /\ p \in Writers
  /\ \/ /\ byname = None
        /\ \E s \in Seg \ created :
             /\ byname' = s /\ created' = created \cup {s}
             /\ seg' = [seg EXCEPT ![p] = s]
        /\ Goto(p, "attach")
     \/ byname # None /\ Goto(p, "find") /\ UNCHANGED <<byname, created, seg>>
  /\ UNCHANGED <<removed, attached, memory, want, call, sawend, history>>

\* shmget of a segment there is.
Get(p) ==
  /\ At(p, "get") /\ p \notin Writers
  /\ \/ /\ byname # None /\ seg' = [seg EXCEPT ![p] = byname]
        /\ Goto(p, IF p \in Readers THEN "attach" ELSE "stat")
        /\ UNCHANGED <<want, call, sawend>>
     \/ byname = None /\ (Timeouts \/ p \in Admins) /\ Leave(p, "ended")
  /\ UNCHANGED <<names, attached, memory, history>>

\* shmget of what is to be deleted; a writer that does not find it tries again.
Find(p) ==
  /\ At(p, "find")
  /\ \/ byname # None /\ seg' = [seg EXCEPT ![p] = byname] /\ Goto(p, "remove")
        /\ UNCHANGED <<want, call, sawend>>
     \/ /\ byname = None /\ p \in Writers /\ Goto(p, "get")
        /\ UNCHANGED <<seg, want, call, sawend>>
     \/ byname = None /\ (p \in Admins \/ Timeouts) /\ Leave(p, "ended")
  /\ UNCHANGED <<names, attached, memory, history>>

\* IPC_RMID: the name does not lead there any more.
MarkRemoved(s) ==
  /\ removed' = removed \cup {s}
  /\ byname' = IF byname = s THEN None ELSE byname

Remove(p) ==
  /\ At(p, "remove")
  /\ MarkRemoved(seg[p])
  /\ \/ /\ p \in Writers /\ Goto(p, "get") /\ seg' = [seg EXCEPT ![p] = None]
        /\ UNCHANGED <<want, call, sawend>>
     \/ (p \in Admins \/ Timeouts) /\ Leave(p, "ended")
  /\ UNCHANGED <<created, attached, memory, history>>

\* bk_shmipc_peekbyname does not attach to a segment only one other has.
Stat(p) ==
  /\ At(p, "stat")
  /\ \/ Exists(seg[p])        \* anyway with BK_SHMIPC_FORCE
        /\ Goto(p, "attach") /\ UNCHANGED <<seg, want, call, sawend>>
     \/ (Exists(seg[p]) => Cardinality(attached[seg[p]]) = 1) /\ Leave(p, "ended")
  /\ UNCHANGED <<names, attached, memory, history>>

\* shmat.  When the segment is gone it returns (void *)-1, which
\* bk_shmipc_destroy and bk_shmipc_peekbyname take for an address.
Attach(p) ==
  /\ At(p, "attach")
  /\ \/ /\ Exists(seg[p])
        /\ attached' = [attached EXCEPT ![seg[p]] = @ \cup {p}]
        /\ Goto(p, IF p \in Writers THEN "init" ELSE IF p \in Readers THEN "wait" ELSE "detach")
        /\ want' = [want EXCEPT ![p] = "winit"]
        /\ UNCHANGED <<seg, call, sawend>>
     \/ ~Exists(seg[p]) /\ Leave(p, "segv") /\ UNCHANGED attached
  /\ UNCHANGED <<names, memory, history>>
-----------------------------------------------------------------------------
(* The handshake. *)

InitHeader(p) ==
  /\ At(p, "init")
  /\ writehand' = [writehand EXCEPT ![seg[p]] = 0]
  /\ readhand' = [readhand EXCEPT ![seg[p]] = 0]
  /\ Goto(p, "syn")
  /\ UNCHANGED <<names, attached, magic, ring, seg, want, call, sawend, history>>

Syn(p) ==
  /\ At(p, "syn")
  /\ magic' = [magic EXCEPT ![seg[p]] = "winit"]
  /\ want' = [want EXCEPT ![p] = "rinit"]
  /\ Goto(p, "wait")
  /\ UNCHANGED <<names, attached, writehand, readhand, ring, seg, call, sawend, history>>

\* The loop's condition.
Wait(p) ==
  /\ At(p, "wait")
  /\ \/ magic[seg[p]] = want[p] /\ Goto(p, "check")
     \/ magic[seg[p]] # want[p] /\ Goto(p, "look")
     \/ magic[seg[p]] # want[p] /\ Timeouts /\ Goto(p, "check")
  /\ UNCHANGED <<names, attached, memory, seg, want, call, sawend, history>>

\* What ends the wait at once.
Wrong(wanted, m) ==
  \/ wanted = "winit" /\ m \in {"eof", "rinit", "magic"}
  \/ wanted = "rinit" /\ m \notin {"rinit", "winit"}
  \/ wanted = "magic" /\ m \notin {"magic", "rinit"}

Look(p) ==
  /\ At(p, "look")
  /\ \/ Wrong(want[p], magic[seg[p]]) /\ Goto(p, "eof")
     \/ ~Wrong(want[p], magic[seg[p]]) /\ Goto(p, IF p \in Writers THEN "wait" ELSE "alone")
  /\ UNCHANGED <<names, attached, memory, seg, want, call, sawend, history>>

\* The mutant does not look at who is there.
AloneNot(p) ==
  /\ At(p, "alone")
  /\ Goto(p, "wait")
  /\ UNCHANGED <<names, attached, memory, seg, want, call, sawend, history>>

\* "Writer went away, so I will as well".
Alone(p) ==
  /\ At(p, "alone")
  /\ Goto(p, IF Others(p) = {} THEN "eof" ELSE "wait")
  /\ UNCHANGED <<names, attached, memory, seg, want, call, sawend, history>>

\* The mutant takes the timeout for the answer.
CheckNot(p) ==
  /\ At(p, "check")
  /\ Goto(p, "answer")
  /\ UNCHANGED <<names, attached, memory, seg, want, call, sawend, history>>

\* Is it what was waited for, or the timeout?
Check(p) ==
  /\ At(p, "check")
  /\ Goto(p, IF magic[seg[p]] = want[p] THEN "answer" ELSE "eof")
  /\ UNCHANGED <<names, attached, memory, seg, want, call, sawend, history>>

Answer(p) ==
  /\ At(p, "answer")
  /\ CASE want[p] = "winit" -> /\ magic' = [magic EXCEPT ![seg[p]] = "rinit"]
                               /\ want' = [want EXCEPT ![p] = "magic"]
                               /\ Goto(p, "wait") /\ UNCHANGED joined
       [] want[p] = "rinit" -> /\ magic' = [magic EXCEPT ![seg[p]] = "magic"]
                               /\ Goto(p, "idle") /\ UNCHANGED <<want, joined>>
       [] want[p] = "magic" -> /\ joined' = [joined EXCEPT ![seg[p]] = @ \cup {p}]
                               /\ Goto(p, "idle") /\ UNCHANGED <<want, magic>>
  /\ UNCHANGED <<names, attached, writehand, readhand, ring, seg, call, sawend,
                 written, taken, enders>>
-----------------------------------------------------------------------------
(* bk_shmipc_write. *)

BeginWrite(p) ==
  /\ At(p, "idle") /\ p \in Writers /\ ~sawend[p]
  /\ \E flags \in WriteModes, bytes \in 1 .. Least(MaxLen, MaxBytes - written[seg[p]]) :
       /\ SetCall(p, [NoCall EXCEPT !.mode = flags, !.len = bytes, !.hand = writehand[seg[p]]])
       /\ Goto(p, IF "drop" \in flags THEN "drop" ELSE "avail")
  /\ UNCHANGED <<names, attached, memory, seg, want, sawend, history>>

\* The room its call finds.
Room(p) == AvailableWrite(call[p].hand, readhand[seg[p]])

\* BK_SHMIPC_DROP2BLOCK: all or nothing.
Drop(p) ==
  /\ At(p, "drop")
  /\ Goto(p, IF call[p].len > Room(p) THEN "droppeek" ELSE "avail")
  /\ UNCHANGED <<names, attached, memory, seg, want, call, sawend, history>>

DropPeek(p) ==
  /\ At(p, "droppeek")
  /\ sawend' = [sawend EXCEPT ![p] = Others(p) = {}]
  /\ Return(p)
  /\ UNCHANGED <<names, attached, memory, seg, want, history>>

\* Copy the next block: no longer than what is left, and not around the end.
BeginCopy(p, available) ==
  /\ SetCall(p, [call[p] EXCEPT !.n = Least(Least(available, call[p].len), Size - call[p].hand)])
  /\ Goto(p, "copy")
\* Without room, or data, a call that has passed some bytes is content.
Content(p) == call[p].ret > 0 /\ "all" \notin call[p].mode
WithNothing(p) ==
  \/ Content(p) /\ Return(p)
  \/ ~Content(p) /\ Goto(p, "peek") /\ UNCHANGED call

WriteAvailable(p) ==
  /\ At(p, "avail") /\ p \in Writers
  /\ \/ Room(p) > 0 /\ BeginCopy(p, Room(p))
     \/ Room(p) = 0 /\ WithNothing(p)
  /\ UNCHANGED <<names, attached, memory, seg, want, sawend, history>>

\* The slots of the block being copied.
Block(p) == call[p].hand .. call[p].hand + call[p].n - 1

\* memcpy
CopyIn(p) ==
  /\ At(p, "copy") /\ p \in Writers
  /\ ring' = [ring EXCEPT ![seg[p]] =
       [i \in Slot |-> IF i \in Block(p) THEN written[seg[p]] + 1 + (i - call[p].hand) ELSE @[i]]]
  /\ Goto(p, "publish")
  /\ UNCHANGED <<names, attached, magic, writehand, readhand, seg, want, call, sawend, history>>

\* The mutant wraps one slot early.
BeyondShort(p) == IF call[p].hand + call[p].n >= Size - 1 THEN 0 ELSE call[p].hand + call[p].n
\* Where the hand goes, and the call.
Beyond(p) == Wrapped(call[p].hand + call[p].n)
Advance(p) ==
  \/ call[p].len = call[p].n /\ Return(p)
  \/ /\ call[p].len # call[p].n /\ Goto(p, "avail")
     /\ SetCall(p, [call[p] EXCEPT !.len = @ - call[p].n, !.ret = @ + call[p].n,
                                   !.hand = Beyond(p), !.n = 0])

PublishWrite(p) ==
  /\ At(p, "publish") /\ p \in Writers
  /\ writehand' = [writehand EXCEPT ![seg[p]] = Beyond(p)]
  /\ written' = [written EXCEPT ![seg[p]] = @ + call[p].n]
  /\ Advance(p)
  /\ UNCHANGED <<names, attached, magic, readhand, ring, seg, want, sawend, taken, joined, enders>>

MayWait(p) == "noblock" \notin call[p].mode
\* EOF if over, else another turn, or EAGAIN.
GiveUpOrTurn(p, over) ==
  /\ sawend' = [sawend EXCEPT ![p] = over]
  /\ \/ (over \/ Timeouts \/ ~MayWait(p)) /\ Return(p)
     \/ ~over /\ MayWait(p) /\ Goto(p, "avail") /\ UNCHANGED call

\* The ring is full.  With BK_SHMIPC_NOBLOCK it does not matter who is there.
WritePeek(p) ==
  /\ At(p, "peek") /\ p \in Writers
  /\ GiveUpOrTurn(p, Others(p) = {} /\ MayWait(p))
  /\ UNCHANGED <<names, attached, memory, seg, want, history>>
-----------------------------------------------------------------------------
(* bk_shmipc_read, and bk_shmipc_readall, which looks how much there is and  *)
(* reads so much without blocking.                                           *)

BeginRead(p) ==
  /\ At(p, "idle") /\ p \in Readers /\ ~sawend[p]
  /\ \E flags \in ReadModes, bytes \in 1 .. MaxLen :
       SetCall(p, [NoCall EXCEPT !.mode = flags, !.len = bytes, !.hand = readhand[seg[p]]])
  /\ Goto(p, "avail")
  /\ UNCHANGED <<names, attached, memory, seg, want, sawend, history>>

\* The mutant reads up to and including the writer's slot.
DataInclusive(p) == AvailableRead(writehand[seg[p]], call[p].hand) + 1
\* The data its call finds.
Data(p) == AvailableRead(writehand[seg[p]], call[p].hand)

ReadAvailable(p) ==
  /\ At(p, "avail") /\ p \in Readers
  /\ \/ Data(p) > 0 /\ "readall" \notin call[p].mode /\ BeginCopy(p, Data(p))
     \/ /\ Data(p) > 0 /\ "readall" \in call[p].mode
        /\ SetCall(p, [call[p] EXCEPT !.mode = {"noblock"}, !.len = Least(Data(p), @)])
        /\ UNCHANGED pc
     \/ Data(p) = 0 /\ WithNothing(p)
  /\ UNCHANGED <<names, attached, memory, seg, want, sawend, history>>

CopyOut(p) ==
  /\ At(p, "copy") /\ p \in Readers
  /\ Goto(p, "publish")
  /\ UNCHANGED <<names, attached, memory, seg, want, call, sawend, history>>

PublishRead(p) ==
  /\ At(p, "publish") /\ p \in Readers
  /\ readhand' = [readhand EXCEPT ![seg[p]] = Beyond(p)]
  /\ taken' = [taken EXCEPT ![seg[p]] = @ + call[p].n]
  /\ Advance(p)
  /\ UNCHANGED <<names, attached, magic, writehand, ring, seg, want, sawend, written, joined, enders>>

\* The ring is empty.
ReadPeek(p) ==
  /\ At(p, "peek") /\ p \in Readers
  /\ \/ /\ Others(p) = {} /\ Return(p)
        /\ sawend' = [sawend EXCEPT ![p] = TRUE]
     \/ Others(p) # {} /\ Goto(p, "magic") /\ UNCHANGED <<call, sawend>>
  /\ UNCHANGED <<names, attached, memory, seg, want, history>>

ReadMagic(p) ==
  /\ At(p, "magic")
  /\ GiveUpOrTurn(p, magic[seg[p]] = "eof")
  /\ UNCHANGED <<names, attached, memory, seg, want, history>>
-----------------------------------------------------------------------------
(* The end. *)

MarkEof(p) ==
  /\ magic' = [magic EXCEPT ![seg[p]] = "eof"]
  /\ enders' = [enders EXCEPT ![seg[p]] = @ \cup {p}]
  /\ UNCHANGED <<writehand, readhand, ring, written, taken, joined>>

\* bk_shmipc_cancel
Cancel(p) ==
  /\ At(p, "idle") /\ magic[seg[p]] # "eof"
  /\ MarkEof(p)
  /\ UNCHANGED <<names, attached, pc, seg, want, call, sawend>>

\* bk_shmipc_destroy
BeginDestroy(p) ==
  /\ At(p, "idle") /\ Goto(p, "eof")
  /\ UNCHANGED <<names, attached, memory, seg, want, call, sawend, history>>

Eof(p) ==
  /\ At(p, "eof")
  /\ MarkEof(p)
  /\ Goto(p, "detach")
  /\ UNCHANGED <<names, attached, seg, want, call, sawend>>

Detach(p) ==
  /\ At(p, "detach")
  /\ attached' = [attached EXCEPT ![seg[p]] = @ \ {p}]
  /\ \/ p \in Admins /\ Leave(p, "ended")
     \/ p \notin Admins /\ Goto(p, "rmid") /\ UNCHANGED <<seg, want, call, sawend>>
  /\ UNCHANGED <<names, memory, history>>

Rmid(p) ==
  /\ At(p, "rmid")
  /\ MarkRemoved(seg[p])
  /\ Leave(p, "ended")
  /\ UNCHANGED <<created, attached, memory, history>>

\* A process dies, which detaches its segment.
Die(p) ==
  /\ Alive(p) /\ p \in Mortal
  /\ attached' = [s \in Seg |-> attached[s] \ {p}]
  /\ Leave(p, "dead")
  /\ UNCHANGED <<names, memory, history>>
-----------------------------------------------------------------------------
Connect(p) == \/ Create(p) \/ Get(p) \/ Find(p) \/ Remove(p) \/ Stat(p) \/ Attach(p)
              \/ InitHeader(p) \/ Syn(p) \/ Wait(p) \/ Look(p) \/ Alone(p)
              \/ Check(p) \/ Answer(p)
Write(p) == \/ Drop(p) \/ DropPeek(p) \/ WriteAvailable(p) \/ CopyIn(p)
            \/ PublishWrite(p) \/ WritePeek(p)
Read(p) == ReadAvailable(p) \/ CopyOut(p) \/ PublishRead(p) \/ ReadPeek(p) \/ ReadMagic(p)
Destroy(p) == Eof(p) \/ Detach(p) \/ Rmid(p)
\* What a process does once it is in a call.
Step(p) == Connect(p) \/ Write(p) \/ Read(p) \/ Destroy(p)
\* What it decides to do, and what befalls it.
Choice(p) == \/ Start(p) \/ BeginWrite(p) \/ BeginRead(p) \/ Cancel(p)
             \/ BeginDestroy(p) \/ Die(p)

Next == \E p \in Proc : Step(p) \/ Choice(p)
Spec == Init /\ [][Next]_vars
\* A process in a call goes on with it.
LiveSpec == Spec /\ \A p \in Proc : WF_vars(Step(p))
-----------------------------------------------------------------------------
Magic == {"zero", "winit", "rinit", "magic", "eof"}
Pc == {"off", "get", "find", "remove", "stat", "attach", "init", "syn", "wait", "look",
       "alone", "check", "answer", "idle", "drop", "droppeek", "avail", "copy",
       "publish", "peek", "magic", "eof", "detach", "rmid", "ended", "dead", "segv"}

TypeOK ==
  /\ byname \in Seg \cup {None} /\ created \subseteq Seg /\ removed \subseteq created
  /\ attached \in [Seg -> SUBSET Proc] /\ magic \in [Seg -> Magic]
  /\ writehand \in [Seg -> Slot] /\ readhand \in [Seg -> Slot]
  /\ ring \in [Seg -> [Slot -> Nat]]
  /\ pc \in [Proc -> Pc] /\ seg \in [Proc -> Seg \cup {None}] /\ want \in [Proc -> Magic]
  /\ call \in [Proc -> [mode : SUBSET {"all", "noblock", "drop", "readall"}, len : Nat,
                        hand : Slot, n : Nat, ret : Nat]]
  /\ sawend \in [Proc -> BOOLEAN]
  /\ written \in [Seg -> Nat] /\ taken \in [Seg -> Nat]
  /\ joined \in [Seg -> SUBSET Readers] /\ enders \in [Seg -> SUBSET Proc]

\* What the ring of a segment holds.
Held(s) == AvailableRead(writehand[s], readhand[s])
Unread(s) == {Wrapped(readhand[s] + i) : i \in 0 .. Held(s) - 1}
Copying(p) == IF pc[p] \in {"copy", "publish"} THEN Block(p) ELSE {}

\* The ring holds what was written and not yet taken, each byte in its place:
\* nothing is lost, repeated or put out of order, whoever dies when.
Fifo ==
  \A s \in Seg :
    /\ Held(s) = written[s] - taken[s]
    /\ \A i \in 0 .. Held(s) - 1 : ring[s][Wrapped(readhand[s] + i)] = taken[s] + 1 + i

\* The writer never copies to a slot that is still to be read, nor the reader
\* from one that is not yet published.
SlotsApart ==
  \A p \in Proc : Copying(p) # {} =>
    IF p \in Writers THEN Copying(p) \cap Unread(seg[p]) = {}
    ELSE Copying(p) \subseteq Unread(seg[p])

\* Over the life of a segment only one reader is ever connected to it, dead
\* readers included: no byte goes to a reader that missed those before.
OneReader == \A s \in Seg : Cardinality(joined[s]) <= 1

\* The writer of its segment, or the reader itself, has marked the end.
Ended(p) == enders[seg[p]] \cap (Writers \cup {p}) # {}

\* A reader is told of the end only if the writer marked it or is gone, or the
\* reader cancelled itself: no mark another process left in the segment, having
\* timed out there or died, ends a connection.  A writer is told only if it has
\* no reader.
EndIsTrue ==
  \A p \in Proc : sawend[p] /\ pc[p] = "idle" =>
    IF p \in Readers THEN Ended(p) \/ attached[seg[p]] \cap Writers = {}
    ELSE \A r \in Readers : ~(Connected(r) /\ seg[r] = seg[p])

Queue(s) == [i \in 1 .. Held(s) |-> ring[s][Wrapped(readhand[s] + i - 1)]]
Chan(s) == INSTANCE Channel WITH Items <- Nat, Capacity <- Size - 1, queue <- Queue(s)

\* Each segment is a bounded FIFO channel of Size - 1 bytes: \A s : Chan(s)!Spec.
ImplementsChannel == /\ \A s \in Seg : Chan(s)!Init
                     /\ [][\A s \in Seg : [Chan(s)!Next]_(Queue(s))]_vars

\* A reader that waits for the writer, or either of them in a call.
Waiting(p) == \/ pc[p] \in {"avail", "peek", "magic"}
              \/ p \in Readers /\ pc[p] \in {"wait", "look", "alone", "check"}
Deserted(p) == Waiting(p) /\ Others(p) = {}

\* Nobody waits for ever for a peer that is gone.
EndIsSeen == \A p \in Writers \cup Readers : Deserted(p) ~> ~Deserted(p)

\* A reader that is told of the end, the writer having closed and gone, has
\* taken everything that was written.
EndMeansDrained ==
  \A p \in Readers : (sawend[p] /\ pc[p] = "idle" /\ Others(p) = {})
                     => taken[seg[p]] = written[seg[p]]
=============================================================================
