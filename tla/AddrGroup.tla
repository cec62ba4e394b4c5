----------------------------- MODULE AddrGroup -----------------------------
(***************************************************************************)
(* lib/b_addrgroup.c: bk_net_init connects a socket to the first of a list *)
(* of addresses that answers, or serves a port and hands out what it       *)
(* accepts.  The program is called back with each socket made, with the    *)
(* one outcome of a connection, and with every connection of a server.     *)
(*                                                                         *)
(* as is the addrgroup_state of the call, which frees itself.  A failing   *)
(* attempt tries the next address by recursion; pc is where that is.       *)
(***************************************************************************)
EXTENDS Integers, Sequences, FiniteSets

CONSTANTS
  Kinds,         \* what bk_net_init is called for: stream, dgram (to a remote
                 \* address), listen and udp (from a local one)
  Addresses,     \* how many addresses bag_remote has
  HasTimeout,    \* as_timeout # 0
  FirstMayFail,  \* whether the first attempt may fail before connect returns
  MaxSock        \* how many sockets are made; bounds the model

VARIABLES kind, pc,
  as,            \* the addrgroup_state
  caller,        \* who called do_net_init_stream_connect: bk_net_init or the loop
  callFails,     \* whether that call will return -1
  told,          \* history: the states that the callback was given
  openSocks, inLoop, userSocks,  \* sockets open, registered, and the program's
  made,          \* sockets made
  wildAs         \* a freed addrgroup_state was used

avars == <<kind, pc, as, caller, callFails, told, openSocks, inLoop, userSocks, made, wildAs>>
NoSock == 0
Final == {"SysError", "RemoteError", "LocalError", "Timeout", "Connected"}
-----------------------------------------------------------------------------
Init ==
  /\ kind \in Kinds
  /\ pc = "start"
  /\ as = [state |-> "SysError", sock |-> NoSock, next |-> 1, timer |-> FALSE,
           callback |-> TRUE, wants |-> TRUE, freed |-> FALSE]
  /\ caller = "bk_net_init" /\ callFails = FALSE
  /\ told = <<>>
  /\ openSocks = {} /\ inLoop = {} /\ userSocks = {}
  /\ made = 0 /\ wildAs = FALSE

\* net_init_end for an as in this state: the callback, which owns the socket of a
\* connection from then on, and as_destroy unless the as serves.  The mutant
\* closes the socket that the program was given.
KeepsSock(state) == FALSE
GivesSock(state) == state = "Connected"

End(a) ==
  IF a.freed THEN wildAs' = TRUE /\ UNCHANGED <<as, told, openSocks, inLoop, userSocks>>
  ELSE LET given == a.callback /\ GivesSock(a.state)
           dies  == a.state \in Final
       IN
         /\ told' = IF a.callback THEN Append(told, a.state) ELSE told
         /\ userSocks' = IF a.callback /\ a.state = "Connected" THEN userSocks \cup {a.sock} ELSE userSocks
         /\ as' = [a EXCEPT !.callback = FALSE, !.freed = dies, !.timer = @ /\ ~dies,
                            !.sock = IF given \/ dies THEN NoSock ELSE @]
         /\ openSocks' = IF dies /\ ~given THEN openSocks \ {a.sock} ELSE openSocks
         /\ inLoop' = IF dies THEN inLoop \ {a.sock} ELSE inLoop
         /\ UNCHANGED wildAs

\* net_close, for an as that goes on
Unsocked == [as EXCEPT !.sock = NoSock]
NetClose == openSocks' = openSocks \ {as.sock} /\ inLoop' = inLoop \ {as.sock}

NewSock == made < MaxSock /\ made' = made + 1
-----------------------------------------------------------------------------
(* Connecting *)

\* do_net_init_af_inet, do_net_init_af_local, do_net_init_stream and do_net_init_dgram
Begins(k) == IF k = "stream" THEN "try" ELSE k

NetInit ==
  /\ pc = "start"
  /\ pc' = Begins(kind)
  /\ UNCHANGED <<kind, as, caller, callFails, told, openSocks, inLoop, userSocks, made, wildAs>>

\* The arguments make no sense together: net_init_check_sanity
NetInitRefused ==
  /\ pc = "start"
  /\ End(as) /\ pc' = "refused"
  /\ UNCHANGED <<kind, caller, callFails, made>>

First == caller = "bk_net_init" /\ as.next = 1

\* An attempt that fails at once: no socket, the program refuses it, bind or
\* connect fails.  The socket is closed and the next address tried; the call that
\* made the attempt returns -1 when that is over.
TryFails(err) ==
  /\ pc = "try" /\ as.next <= Addresses /\ (First => FirstMayFail)
  /\ as' = [Unsocked EXCEPT !.next = @ + 1, !.state = err]
  /\ callFails' = (callFails \/ First)
  /\ UNCHANGED <<kind, pc, caller, told, openSocks, inLoop, userSocks, made, wildAs>>

TryPends ==
  /\ pc = "try" /\ as.next <= Addresses /\ NewSock
  /\ as' = [as EXCEPT !.next = @ + 1, !.sock = made', !.timer = HasTimeout]
  /\ openSocks' = openSocks \cup {made'} /\ inLoop' = inLoop \cup {made'}
  /\ pc' = "returned"
  /\ UNCHANGED <<kind, caller, callFails, told, userSocks, wildAs>>

NoMoreAddresses ==
  /\ pc = "try" /\ as.next > Addresses
  /\ End(as) /\ pc' = "returned"
  /\ UNCHANGED <<kind, caller, callFails, made>>

\* bk_net_init gives up an as whose call returned -1.
Returned ==
  /\ pc = "returned"
  /\ IF callFails /\ caller = "bk_net_init"
     THEN End(as)
     ELSE UNCHANGED <<as, told, openSocks, inLoop, userSocks, wildAs>>
  /\ pc' = "loop" /\ caller' = "loop" /\ callFails' = FALSE
  /\ UNCHANGED <<kind, made>>

\* The mutant takes the timeout for an answer too, and tries no other address.
NextAfterTimeout == "returned"
AfterTimeout == "try"

ConnectTimeout ==
  /\ pc = "loop" /\ as.timer
  /\ wildAs' = as.freed
  /\ NetClose
  /\ as' = [Unsocked EXCEPT !.timer = FALSE, !.state = "Timeout"]
  /\ pc' = AfterTimeout
  /\ UNCHANGED <<kind, caller, callFails, told, userSocks, made>>

\* The mutant leaves the timer of the address that answered.
TimerLeft == as.timer
TimerAfterActivity == FALSE

ConnectActivity(connected) ==
  /\ pc = "loop" /\ kind = "stream" /\ as.sock \in inLoop
  /\ LET a == [as EXCEPT !.timer = TimerAfterActivity] IN
       IF connected
       THEN /\ told' = Append(told, "Connected")
            /\ userSocks' = userSocks \cup {as.sock}
            /\ as' = [a EXCEPT !.state = "Connected", !.callback = FALSE, !.freed = TRUE, !.sock = NoSock]
            /\ inLoop' = inLoop \ {as.sock}
            /\ openSocks' = IF GivesSock("Connected") THEN openSocks ELSE openSocks \ {as.sock}
            /\ pc' = "loop"
       ELSE /\ NetClose
            /\ as' = [a EXCEPT !.sock = NoSock, !.state = "RemoteError"]
            /\ pc' = "try"
            /\ UNCHANGED <<told, userSocks>>
  /\ UNCHANGED <<kind, caller, callFails, made, wildAs>>

\* The loop reports an exception or a bad descriptor: net_init_abort
ConnectBroken ==
  /\ pc = "loop" /\ kind = "stream" /\ as.sock \in inLoop
  /\ End(as)
  /\ UNCHANGED <<kind, pc, caller, callFails, made>>

\* do_net_init_dgram_connect is over when it returns: it tries one address.
DgramConnects(ok) ==
  /\ pc = "dgram" /\ NewSock
  /\ pc' = "loop"
  /\ IF ok THEN /\ told' = Append(told, "Connected")
                /\ userSocks' = {made'} /\ openSocks' = {made'}
                /\ as' = [as EXCEPT !.state = "Connected", !.callback = FALSE, !.freed = TRUE]
                /\ UNCHANGED <<inLoop, wildAs>>
     ELSE End(as)                                        \* net_close came first
  /\ UNCHANGED <<kind, caller, callFails>>
-----------------------------------------------------------------------------
(* Serving *)

Serving == pc = "loop" /\ kind \in {"listen", "udp"} /\ ~as.freed

Listens(ok) ==
  /\ pc \in {"listen", "udp"} /\ NewSock
  /\ pc' = "loop"
  /\ IF ok THEN /\ as' = [as EXCEPT !.state = "Ready", !.sock = made']
                /\ openSocks' = {made'} /\ inLoop' = {made'}
                /\ told' = Append(told, "Ready")
                /\ UNCHANGED <<userSocks, wildAs>>
     ELSE End(as)
  /\ UNCHANGED <<kind, caller, callFails>>

\* bk_netutils_commandeer_service: the port was opened by somebody else
Commandeer ==
  /\ pc = "listen" /\ NewSock
  /\ pc' = "loop"
  /\ as' = [as EXCEPT !.state = "Ready", !.sock = made']
  /\ openSocks' = {made'} /\ inLoop' = {made'}
  /\ UNCHANGED <<kind, caller, callFails, told, userSocks, wildAs>>

\* as_server_copy and net_init_end of the copy: the program gets the socket if
\* the server's callback is still there, and else it is closed.
GiveAccepted(s) == userSocks' = IF as.callback THEN userSocks \cup {s} ELSE userSocks

Accept ==
  /\ Serving /\ kind = "listen" /\ as.wants /\ as.sock \in inLoop /\ NewSock
  /\ GiveAccepted(made')
  /\ openSocks' = IF as.callback THEN openSocks \cup {made'} ELSE openSocks
  /\ UNCHANGED <<kind, pc, as, caller, callFails, told, inLoop, wildAs>>

\* A datagram connects the server's socket to its sender, and a new socket is
\* bound to serve in its place.
AcceptDatagram ==
  /\ Serving /\ kind = "udp" /\ as.wants /\ as.sock \in inLoop /\ NewSock
  /\ as' = [as EXCEPT !.sock = made']
  /\ inLoop' = (inLoop \ {as.sock}) \cup {made'}
  /\ openSocks' = IF as.callback THEN openSocks \cup {made'} ELSE (openSocks \ {as.sock}) \cup {made'}
  /\ GiveAccepted(as.sock)
  /\ UNCHANGED <<kind, pc, caller, callFails, told, wildAs>>

AcceptFails ==
  /\ Serving /\ kind = "listen" /\ as.wants /\ as.sock \in inLoop
  /\ End([as EXCEPT !.state = "SysError"])
  /\ UNCHANGED <<kind, pc, caller, callFails, made>>

\* The old socket has left the loop: the server is told Ready, and is deaf.
AcceptDatagramFails ==
  /\ Serving /\ kind = "udp" /\ as.wants /\ as.sock \in inLoop
  /\ told' = IF as.callback THEN Append(told, as.state) ELSE told
  /\ as' = [as EXCEPT !.callback = FALSE]
  /\ inLoop' = inLoop \ {as.sock}
  /\ UNCHANGED <<kind, pc, caller, callFails, openSocks, userSocks, made, wildAs>>

Suspend(resume) ==
  /\ Serving /\ as.wants # resume
  /\ as' = [as EXCEPT !.wants = resume]
  /\ UNCHANGED <<kind, pc, caller, callFails, told, openSocks, inLoop, userSocks, made, wildAs>>

\* as_destroy, which tells of it
AsDestroy ==
  /\ told' = IF as.callback THEN Append(told, "Closing") ELSE told
  /\ NetClose
  /\ as' = [Unsocked EXCEPT !.state = "Closing", !.callback = FALSE, !.freed = TRUE]

\* bk_addrgroup_server_close
ServerClose ==
  /\ Serving
  /\ AsDestroy
  /\ UNCHANGED <<kind, pc, caller, callFails, userSocks, made, wildAs>>
-----------------------------------------------------------------------------
Connecting ==
  \/ NetInit \/ NoMoreAddresses \/ Returned \/ TryPends
  \/ \E err \in {"SysError", "RemoteError", "LocalError"} : TryFails(err)
  \/ \E ok \in BOOLEAN : DgramConnects(ok)
Answers == \/ ConnectTimeout \/ ConnectBroken \/ \E ok \in BOOLEAN : ConnectActivity(ok)
Serves ==
  \/ \E ok \in BOOLEAN : Listens(ok)
  \/ Commandeer \/ Accept \/ AcceptDatagram \/ AcceptFails \/ AcceptDatagramFails \/ ServerClose
  \/ \E resume \in BOOLEAN : Suspend(resume)

Next == ~wildAs /\ (Connecting \/ NetInitRefused \/ Answers \/ Serves)

\* bk_net_init returns, and the network answers or the clock goes on.
Fairness == WF_avars(~wildAs /\ Connecting) /\ WF_avars(~wildAs /\ Answers)

Spec == Init /\ [][Next]_avars /\ Fairness
-----------------------------------------------------------------------------
\* net_init_end, which frees the as, is reached once: nothing uses it later, and
\* it leaves no timer of it behind.
EndedOnce == ~wildAs /\ (as.freed => ~as.timer)

\* The program is told one outcome of a connection, after which the as is gone.
\* A server is told of its end once, and then of nothing; an end that leaves it
\* alive but deaf (a datagram it could not answer) is told as a second Ready.
Ends(i) == \/ told[i] \in Final \cup {"Closing"}
           \/ told[i] = "Ready" /\ \E j \in 1 .. i - 1 : told[j] = "Ready"
OutcomeOnce ==
  /\ \A i \in DOMAIN told : Ends(i) => i = Len(told) /\ ~as.callback
  /\ kind \in {"stream", "dgram"} => (as.freed <=> told # <<>>)

\* Every socket that is open is the as's or was given to the program, none is
\* both, none of the program's is closed or in the loop on its behalf.
SocketsOwned ==
  /\ openSocks = userSocks \cup (IF as.sock = NoSock THEN {} ELSE {as.sock})
  /\ as.sock \notin userSocks
  /\ inLoop \subseteq {as.sock}

\* A connection has an outcome in the end.
Connects == kind = "stream" /\ pc # "start"
Answered == Connects ~> as.freed
=============================================================================
