------------------------------ MODULE RunCancel ------------------------------
(***************************************************************************)
(* lib/b_run.c: what tells the code that reads or writes a descriptor, in  *)
(* whatever depth, that it has been cancelled or closed by an              *)
(* administrator.  Who may be cancelled registers; br_flags spares the     *)
(* search when nobody has been.  bk_run_fd_cancel gives br_lock back       *)
(* before it looks at what it has found and changes it: its reads and      *)
(* writes of the two words of flags are steps of their own.                *)
(***************************************************************************)
EXTENDS Integers, FiniteSets

CONSTANTS
  CancelFds,       \* the descriptors
  Administrators,  \* who cancels them
  Again            \* how often descriptors are registered; bounds the model

VARIABLES
  bfcs,            \* br_canceled: the struct bk_fd_cancel there are
  runFlags,        \* BK_RUN_FLAG_FD_CANCEL and FD_CLOSED of br_flags
  admin,           \* administrator -> where in bk_run_fd_cancel it is, the bfc it
                   \* has found, how it cancels, and the flags it has read
  other,           \* the thread that holds br_lock to change another flag of br_flags,
                   \* and the two it has read with it
  registered,      \* how often bk_run_fd_cancel_register was called
  wildBfc,         \* a bfc was used after it was freed
  isCancelled,     \* history: descriptors cancelled since they registered, and how
  crossed          \* history: a cancellation met another change of the same words, or
                   \* a descriptor went while another was cancelled

rcvars == <<bfcs, runFlags, admin, other, registered, wildBfc, isCancelled, crossed>>

How == {"cancel", "close"}                           \* BK_FD_ADMIN_FLAG_*
Idle == [pc |-> "idle", bfc |-> 0, how |-> {}, want |-> {}, is |-> {}]
Nobody == [busy |-> FALSE, is |-> {}]

Init ==
  /\ bfcs = {} /\ runFlags = {}
  /\ admin = [a \in Administrators |-> Idle]
  /\ other = Nobody
  /\ registered = 0 /\ wildBfc = FALSE /\ isCancelled = {} /\ crossed = FALSE

Of(fd) == {bfc \in bfcs : bfc.fd = fd}
Found(fd) == CHOOSE bfc \in Of(fd) : TRUE

Unlocked == ~other.busy
At(a, pc) == admin[a].pc = pc
AllIdle == \A a \in Administrators : At(a, "idle")
-----------------------------------------------------------------------------
\* What br_flags is when a descriptor has gone: nothing, whatever other descriptors
\* have been told.
FlagsLeft(left) == {}

\* What is wanted is taken back, and the bfc goes when nothing is.
Drop(fd, how) ==
  LET bfc == Found(fd)
      left == (bfcs \ {bfc}) \cup {[bfc EXCEPT !.want = @ \ how]}
  IN IF Of(fd) = {} THEN UNCHANGED <<bfcs, runFlags, isCancelled, crossed>>
     ELSE IF bfc.want \ how # {}
     THEN /\ bfcs' = left /\ crossed' = (crossed \/ ~AllIdle)
          /\ UNCHANGED <<runFlags, isCancelled>>
     ELSE /\ bfcs' = bfcs \ {bfc}
          /\ runFlags' = FlagsLeft(bfcs')
          /\ isCancelled' = {c \in isCancelled : c.fd # fd}
          /\ crossed' = (crossed \/ ~AllIdle \/ isCancelled' # {})

\* bk_run_fd_cancel_register: a descriptor that is registered already loses what it
\* had asked for in the error path.
Register(fd, want) ==
  /\ Unlocked /\ registered < Again /\ want # {}
  /\ registered' = registered + 1
  /\ IF Of(fd) = {}
     THEN /\ bfcs' = bfcs \cup {[fd |-> fd, id |-> registered + 1, want |-> want, is |-> {}]}
          /\ UNCHANGED <<runFlags, isCancelled, crossed>>
     ELSE Drop(fd, want)
  /\ UNCHANGED <<admin, other, wildBfc>>

\* bk_run_fd_cancel_unregister.
Unregister(fd, how) ==
  /\ Unlocked /\ Of(fd) # {} /\ how # {}
  /\ Drop(fd, how)
  /\ UNCHANGED <<admin, other, registered, wildBfc>>

\* Any other flag of br_flags is set or cleared, under br_lock.
OtherReads ==
  /\ Unlocked /\ other' = [busy |-> TRUE, is |-> runFlags]
  /\ crossed' = (crossed \/ ~AllIdle)
  /\ UNCHANGED <<bfcs, runFlags, admin, registered, wildBfc, isCancelled>>

OtherWrites ==
  /\ ~Unlocked /\ other' = Nobody
  /\ runFlags' = other.is
  /\ UNCHANGED <<bfcs, admin, registered, wildBfc, isCancelled, crossed>>

\* bk_run_fd_cancel: the lock is given back when the bfc is found.
Cancel(a, fd, how) ==
  /\ At(a, "idle") /\ Unlocked /\ Of(fd) # {}
  /\ admin' = [admin EXCEPT ![a] = [Idle EXCEPT !.pc = "found", !.bfc = Found(fd).id, !.how = how]]
  /\ crossed' = (crossed \/ \E b \in Administrators : ~At(b, "idle") /\ admin[b].how # how)
  /\ UNCHANGED <<bfcs, runFlags, other, registered, wildBfc, isCancelled>>

\* The mutant does what was not asked for.
Anything(bfc, how) == TRUE
Wanted(bfc, how) == bfc.want \cap how # {}

\* The record the administrator holds on to, unless it was freed
Held(a) == {bfc \in bfcs : bfc.id = admin[a].bfc}
Goes(a, frame) == admin' = [admin EXCEPT ![a] = frame]

\* What comes after the use of a freed record is not followed.
CancelsWild(a) ==
  /\ admin[a].pc \in {"found", "record", "recorded"} /\ Held(a) = {}
  /\ wildBfc' = TRUE /\ Goes(a, Idle)
  /\ UNCHANGED <<bfcs, runFlags, other, registered, isCancelled, crossed>>

CancelTests(a) ==
  /\ At(a, "found") /\ Held(a) # {}
  /\ Goes(a, IF \E bfc \in Held(a) : Wanted(bfc, admin[a].how)
             THEN [admin[a] EXCEPT !.pc = "record"] ELSE Idle)
  /\ UNCHANGED <<bfcs, runFlags, other, registered, wildBfc, isCancelled, crossed>>

\* bfc_flags, which holds what is wanted beside what it is told, is read and written.
RecordReads(a) ==
  /\ At(a, "record")
  /\ \E bfc \in Held(a) :
       Goes(a, [admin[a] EXCEPT !.pc = "recorded", !.want = bfc.want, !.is = bfc.is])
  /\ UNCHANGED <<bfcs, runFlags, other, registered, wildBfc, isCancelled, crossed>>

RecordWrites(a) ==
  /\ At(a, "recorded")
  /\ \E bfc \in Held(a) :
       bfcs' = (bfcs \ {bfc}) \cup
               {[bfc EXCEPT !.want = admin[a].want, !.is = admin[a].is \cup admin[a].how]}
  /\ Goes(a, [admin[a] EXCEPT !.pc = "flags", !.want = {}, !.is = {}])
  /\ UNCHANGED <<runFlags, other, registered, wildBfc, isCancelled, crossed>>

\* br_flags
FlagsRead(a) ==
  /\ At(a, "flags")
  /\ Goes(a, [admin[a] EXCEPT !.pc = "flagged", !.is = runFlags])
  /\ UNCHANGED <<bfcs, runFlags, other, registered, wildBfc, isCancelled, crossed>>

FlagsWritten(a) ==
  /\ At(a, "flagged")
  /\ runFlags' = admin[a].is \cup admin[a].how
  /\ isCancelled' = isCancelled \cup {[fd |-> bfc.fd, how |-> how] : bfc \in Held(a), how \in admin[a].how}
  /\ Goes(a, Idle)
  /\ UNCHANGED <<bfcs, other, registered, wildBfc, crossed>>

Next ==
  /\ ~wildBfc
  /\ \/ \E fd \in CancelFds, how \in SUBSET How : Register(fd, how) \/ Unregister(fd, how)
     \/ \E a \in Administrators :
          \/ \E fd \in CancelFds, how \in How : Cancel(a, fd, {how})
          \/ CancelsWild(a) \/ CancelTests(a) \/ RecordReads(a) \/ RecordWrites(a)
          \/ FlagsRead(a) \/ FlagsWritten(a)
     \/ OtherReads \/ OtherWrites

Spec == Init /\ [][Next]_rcvars
-----------------------------------------------------------------------------
\* bk_run_fd_is_canceled and bk_run_fd_is_closed.  The mutant does not search.
FlagOnly(fd, how) == how \in runFlags
Is(fd, how) == how \in runFlags /\ \E bfc \in Of(fd) : how \in bfc.is

\* Code that asks whether its descriptor was cancelled or closed is told so, from the
\* time that bk_run_fd_cancel returned until the descriptor is registered no more.
CancelHeard == \A c \in isCancelled : Is(c.fd, c.how)

\* It is, as long as no cancellation met another change of the flags, and no other
\* descriptor that could be cancelled went.
CancelSeen == crossed \/ CancelHeard

\* It is never told so when only another was cancelled, or was wanted to be, whatever
\* the administrators and the others do to the two words of flags at once: the
\* cancellation has returned, or has only br_flags left to write.
BeingTold(fd, how) ==
  \E a \in Administrators, bfc \in Of(fd) :
    admin[a].pc \in {"flags", "flagged"} /\ admin[a].bfc = bfc.id /\ how \in admin[a].how
NothingElseSeen ==
  \A fd \in CancelFds, how \in How :
    Is(fd, how) => [fd |-> fd, how |-> how] \in isCancelled \/ BeingTold(fd, how)

\* No bfc is used once it is freed.
NoWildBfc == ~wildBfc
=============================================================================
