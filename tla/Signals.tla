------------------------------ MODULE Signals ------------------------------
(***************************************************************************)
(* lib/b_signal.c: setting the action of a signal for a while, and the     *)
(* alarm with it, so that it can be put back.  What is saved is given to   *)
(* the caller, who may set a signal again before it is reset.              *)
(***************************************************************************)
EXTENDS Integers, Sequences

CONSTANTS
  Handlers,      \* what a program gives as handlers
  Depth,         \* how many saved actions it holds at once; bounds the model
  Threads        \* BK_GENERAL_FLAG_ISTHREADON

VARIABLES
  action,        \* the action of the signal
  alarmSet,      \* the alarm is running
  blocked,       \* the signal is blocked
  saved,         \* the struct bk_signal_saved given out and not given back
  sigLock,       \* BkGlobalSignalLock is held
  inSignal       \* who is in the code: its step and what it was asked

sgvars == <<action, alarmSet, blocked, saved, sigLock, inSignal>>

Default == "SIG_DFL"
Foreign == "foreign"                                  \* a handler that is neither ours nor the run's

Nobody == [pc |-> "none", alarm |-> FALSE, handler |-> Default, force |-> FALSE, old |-> FALSE]

Init ==
  /\ action \in {Default, "SIG_IGN", "bk_run_signal_ihandler", Foreign}
  /\ alarmSet = FALSE /\ blocked = FALSE
  /\ saved = <<>> /\ sigLock = FALSE
  /\ inSignal = Nobody

CallerAt(pc) == inSignal.pc = pc
CallerTo(pc) == inSignal' = [inSignal EXCEPT !.pc = pc]
Unlock == IF Threads THEN FALSE ELSE sigLock
-----------------------------------------------------------------------------
\* bk_signal_set, or bk_signal_set_alarm which calls it: the lock, and the signal
\* blocked.  A second thread waits for the lock.
Set(alarm, handler, force) ==
  /\ CallerAt("none") /\ Len(saved) < Depth /\ ~sigLock
  /\ sigLock' = Threads /\ blocked' = TRUE
  /\ inSignal' = [pc |-> IF alarm THEN "alarm" ELSE "look", alarm |-> alarm, handler |-> handler, force |-> force, old |-> FALSE]
  /\ UNCHANGED <<action, alarmSet, saved>>

\* An alarm that is running is put back, unless it is to be replaced; the lock is
\* not given back.
\* The mutant leaves the signal blocked when it gives up.
MaskForgotten == blocked
MaskBack == FALSE

AlarmTaken ==
  /\ CallerAt("alarm")
  /\ IF alarmSet /\ ~inSignal.force
     THEN /\ blocked' = MaskBack /\ inSignal' = Nobody
          /\ UNCHANGED <<action, alarmSet, saved, sigLock>>
     ELSE /\ alarmSet' = FALSE
          /\ CallerTo("look")
          /\ UNCHANGED <<action, blocked, saved, sigLock>>

\* The mutant takes any handler away.
AnyHandler == TRUE
OurHandler == action \in {Default, "SIG_IGN", "bk_run_signal_ihandler"} \/ inSignal.force

\* A handler of somebody else stays, and nothing is saved with the success.
SetLooks ==
  /\ CallerAt("look")
  /\ IF OurHandler
     THEN /\ saved' = Append(saved, [act |-> action, saved |-> TRUE])
          /\ blocked' = inSignal.alarm /\ CallerTo("mgmt")
     ELSE /\ saved' = Append(saved, [act |-> Default, saved |-> FALSE])
          /\ blocked' = inSignal.alarm
          /\ CallerTo(IF inSignal.alarm THEN "start" ELSE "end")
  /\ UNCHANGED <<action, alarmSet, sigLock>>

\* bk_signal_mgmt clears the handler it was given, in place of the action it is to
\* build: the signal gets its default action.
SetMgmt ==
  /\ CallerAt("mgmt")
  /\ action' = Default
  /\ CallerTo(IF inSignal.alarm THEN "start" ELSE "end")
  /\ UNCHANGED <<alarmSet, blocked, saved, sigLock>>

AlarmStarts ==
  /\ CallerAt("start")
  /\ alarmSet' = TRUE
  /\ blocked' = MaskBack
  /\ CallerTo("end")
  /\ UNCHANGED <<action, saved, sigLock>>

SetEnds ==
  /\ CallerAt("end")
  /\ sigLock' = Unlock
  /\ inSignal' = Nobody
  /\ UNCHANGED <<action, alarmSet, blocked, saved>>
-----------------------------------------------------------------------------
\* bk_signal_reset of the latest one: only when the action is what was there before
\* it was set, and not when that was the default one, which bk_signal_mgmt cannot
\* be asked for.  It is kept when that fails, and when nothing was saved.
Reset(alarm) ==
  /\ CallerAt("none") /\ saved # <<>> /\ ~sigLock
  /\ LET bss == saved[Len(saved)]
         fails == bss.saved /\ (action # bss.act \/ bss.act = Default)
     IN /\ saved' = SubSeq(saved, 1, Len(saved) - 1)
        /\ action' = IF bss.saved /\ ~fails THEN Default ELSE action
        /\ alarmSet' = (alarmSet /\ ~(alarm /\ ~fails))
  /\ UNCHANGED <<blocked, sigLock, inSignal>>

\* The program or a library sets an action itself.
Others(act) ==
  /\ CallerAt("none")
  /\ action' = act
  /\ UNCHANGED <<alarmSet, blocked, saved, sigLock, inSignal>>

Next == \/ AlarmTaken \/ SetLooks \/ SetMgmt \/ AlarmStarts \/ SetEnds
        \/ \E alarm, force \in BOOLEAN, handler \in Handlers : Set(alarm, handler, force)
        \/ \E alarm \in BOOLEAN : Reset(alarm)
        \/ \E act \in {Foreign, Default} : Others(act)

Spec == Init /\ [][Next]_sgvars
-----------------------------------------------------------------------------
\* A call leaves the signal unblocked, whichever way it goes.
MaskRestored == CallerAt("none") => ~blocked

\* Only a call that forces it takes away a handler that is not the library's or
\* the run's, be it to set or to reset one.
ForeignStays ==
  [][action = Foreign /\ action' # Foreign => CallerAt("none") \/ inSignal.force]_sgvars

\* bk_signal_set sets the handler it is given ("Set a signal with the given handler").
HandlerSet == [][CallerAt("mgmt") => action' = inSignal.handler]_sgvars

\* The lock is free when nobody is in a call.
LockFree == CallerAt("none") => ~sigLock
=============================================================================
