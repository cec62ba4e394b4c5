------------------------------ MODULE NetStart ------------------------------
(***************************************************************************)
(* lib/b_netutils.c and lib/b_getbyfoo.c: a program asks for a connection, *)
(* for a service or for the addresses of a host.  A name that is found is  *)
(* reported by an event of the run loop, one that is not is reported before*)
(* bk_gethostbyfoo returns; bk_net_init (AddrGroup) does the rest.         *)
(***************************************************************************)
EXTENDS Integers, Sequences, SequencesExt

CONSTANTS
  Jobs, Kind(_), \* what is asked for: "conn", "serv", "host" or, waiting, "block"
  Urls,          \* what endpoints are named by, character by character
  DefUrls,       \* what an endpoint has by default
  Locals,        \* the host names of the local side
  Found, Odd,    \* hosts that are found, and those that cannot be put into a netinfo
  AnyAddr, AnyServ, Tcp, LocalProto

VARIABLES
  nsAt,          \* job -> "idle", "remote" or "local" (a lookup), "init", "done"
  nsLocal,       \* job -> lhoststr
  nsSss,         \* job -> its start_service_state: "none", "live", "freed" or "lost"
  nsTold,        \* job -> what its callback was told
  nsRet,         \* job -> what the call returned
  nsBgs,         \* job -> its lookup: [live, event, host]
  nsBlocked,     \* the calls of bk_gethostbyfoo_blocking that wait, inner last
  nsWild         \* history: a freed lookup was used

nsvars == <<nsAt, nsLocal, nsSss, nsTold, nsRet, nsBgs, nsBlocked, nsWild>>

NoBgs == [live |-> FALSE, event |-> FALSE, host |-> <<>>]
Init ==
  /\ nsAt = [j \in Jobs |-> "idle"] /\ nsLocal = [j \in Jobs |-> AnyAddr]
  /\ nsSss = [j \in Jobs |-> "none"] /\ nsTold = [j \in Jobs |-> <<>>]
  /\ nsRet = [j \in Jobs |-> 0] /\ nsBgs = [j \in Jobs |-> NoBgs]
  /\ nsBlocked = <<>> /\ nsWild = FALSE
-----------------------------------------------------------------------------
(* bk_parse_endpt_spec *)

Colon == <<58>>
Separator == <<58, 47, 47>>  \* "://"
Absent == <<0>>              \* a NULL string
\* strstr: where it begins, or 0
At(s, sub) ==
  LET is == {i \in 1 .. Len(s) - Len(sub) + 1 : SubSeq(s, i, i + Len(sub) - 1) = sub} IN
  IF is = {} THEN 0 ELSE CHOOSE i \in is : \A k \in is : i <= k
Or(s, default) == IF s = <<>> THEN default ELSE s
ParseEndpt(url, host, service, proto) ==
  LET p == At(url, Separator)
      rest == IF p = 0 THEN url ELSE SubSeq(url, p + 3, Len(url))
      c == At(rest, Colon)
  IN [proto |-> Or(SubSeq(url, 1, p - 1), proto),
      host |-> Or(IF c = 0 THEN rest ELSE SubSeq(rest, 1, c - 1), host),
      service |-> Or(IF c = 0 THEN <<>> ELSE SubSeq(rest, c + 1, Len(rest)), service)]
-----------------------------------------------------------------------------
\* bk_netutils_make_conn takes the defaults from a second endpoint; without a
\* protocol there either it is tcp
Defaults(defurl) == ParseEndpt(defurl, Absent, Absent, Absent)
ToConnect(url, defurl) ==
  LET d == Defaults(defurl) IN
  ParseEndpt(url, d.host, d.service, IF d.proto = Absent THEN Tcp ELSE d.proto)
-----------------------------------------------------------------------------
(* One job's state, and what a call or a callback makes of it *)

State(j) == [at |-> nsAt[j], lhost |-> nsLocal[j], sss |-> nsSss[j], told |-> nsTold[j], ret |-> nsRet[j], bgs |-> nsBgs[j]]
Put(j, s) ==
  /\ nsAt' = [nsAt EXCEPT ![j] = s.at] /\ nsLocal' = [nsLocal EXCEPT ![j] = s.lhost]
  /\ nsSss' = [nsSss EXCEPT ![j] = s.sss] /\ nsTold' = [nsTold EXCEPT ![j] = s.told]
  /\ nsRet' = [nsRet EXCEPT ![j] = s.ret] /\ nsBgs' = [nsBgs EXCEPT ![j] = s.bgs]

Tell(s, what) == [s EXCEPT !.told = Append(@, what)]
Done(s) == [s EXCEPT !.at = "done", !.sss = IF @ = "live" THEN "freed" ELSE @]
Fail(s) == Done(Tell(s, "failed"))

\* bk_net_init has told of a failure when it returns -1, and may have told of
\* the connection when it returns 0
NetInit(s, how) ==
  IF how = "fails" THEN Fail(s)
  ELSE IF how = "now" THEN Done(Tell(s, "open"))
  ELSE [s EXCEPT !.at = "init", !.sss = "freed"]

\* bk_gethostbyfoo for a name that is found: the callback is an event of now
Look(s, host, stage) == [s EXCEPT !.at = stage, !.bgs = [live |-> TRUE, event |-> TRUE, host |-> host]]
\* gethostbyname knows it, and copy_hostent could copy what it knows
IsFound(host) == host \in Found \union Odd

\* sss_connect_rgethost_complete; a local name that is not found is reported by
\* a callback within, which frees the state
LocalLookup(s) == IF IsFound(s.lhost) THEN Look(s, s.lhost, "local") ELSE Fail(s)
\* Mutant: the failure goes to the label error after all
ToldAgain(s, how) == IF how = "fails" THEN Tell(NetInit(s, how), "failed") ELSE NetInit(s, how)
\* sss_connect_lgethost_complete leaves it to bk_net_init to tell of a failure,
ConnInit(s, how) == NetInit(s, how)
\* ... sss_serv_gethost_complete tells again
ServInit(s, how) == IF how = "fails" THEN Tell(NetInit(s, how), "failed") ELSE NetInit(s, how)

Complete(s, kind, odd, how) ==
  CASE kind = "host" -> Done(Tell(s, IF odd THEN "odd" ELSE "found"))
    [] kind = "block" -> [s EXCEPT !.at = "ran"]
    [] kind \in {"conn", "serv"} /\ odd -> Fail(s)
    [] kind = "serv" /\ ~odd -> ServInit(s, how)
    [] kind = "conn" /\ ~odd -> IF s.at = "remote" THEN LocalLookup(s) ELSE ConnInit(s, how)
-----------------------------------------------------------------------------
(* The calls *)

New(j) == nsAt[j] = "idle" /\ UNCHANGED nsWild

\* bk_netutils_make_conn_verbose_std has its state: a path is connected to at
\* once, any other host is looked up
Connect(s, r, how) ==
  IF r.proto = LocalProto THEN NetInit(s, how)
  ELSE IF IsFound(r.host) THEN Look(s, r.host, "remote")
  ELSE Fail(s)

\* bk_netutils_make_conn_verbose_std.  A failure is told and returned.
MakeConn(j, url, defurl, lhost, how) ==
  /\ New(j) /\ Kind(j) = "conn" /\ UNCHANGED nsBlocked
  /\ LET r == ToConnect(url, defurl)
         s == [State(j) EXCEPT !.sss = "live", !.lhost = lhost]
         made == IF r.host = Absent \/ r.service = Absent THEN Fail(State(j))
                 ELSE Connect(s, r, how)
     IN Put(j, [made EXCEPT !.ret = IF "failed" \in Range(made.told) THEN -1 ELSE 0])

\* bk_netutils_start_service_verbose_std.  The callback for a host that is not
\* found returns for the want of a hostent: nothing is told and the state is lost.
StartService(j, url, how) ==
  /\ New(j) /\ Kind(j) = "serv" /\ UNCHANGED nsBlocked
  /\ LET r == ParseEndpt(url, AnyAddr, AnyServ, Tcp)
         s == [State(j) EXCEPT !.sss = "live"]
     IN Put(j, IF r.proto = LocalProto
               THEN [NetInit(s, how) EXCEPT !.ret = IF how = "fails" THEN -1 ELSE 0]
               ELSE IF IsFound(r.host) THEN Look(s, r.host, "remote")
               ELSE [Done([s EXCEPT !.sss = "lost"]) EXCEPT !.ret = -1])

\* bk_gethostbyfoo by the program itself
GetHost(j, host) ==
  /\ New(j) /\ Kind(j) = "host" /\ UNCHANGED nsBlocked
  /\ Put(j, IF IsFound(host) THEN Look(State(j), host, "remote") ELSE [Fail(State(j)) EXCEPT !.ret = -1])

\* Mutant: the event stays when the lookup goes
EventStays(bgs) == [bgs EXCEPT !.live = FALSE]
\* bgs_destroy
Destroyed(bgs) == NoBgs

\* bk_gethostbyfoo_abort, before the callback
Abort(j) ==
  /\ Kind(j) = "host" /\ nsBgs[j].live
  /\ Put(j, [Done(State(j)) EXCEPT !.bgs = Destroyed(@)])
  /\ UNCHANGED <<nsBlocked, nsWild>>

\* bk_gethostbyfoo_blocking calls bk_run_once until its callback ran: other
\* jobs' callbacks run within, and may block in their turn
Block(j, host) ==
  /\ New(j) /\ Kind(j) = "block"
  /\ Put(j, IF IsFound(host) THEN Look(State(j), host, "remote") ELSE [Done(State(j)) EXCEPT !.ret = -1])
  /\ nsBlocked' = IF IsFound(host) THEN Append(nsBlocked, j) ELSE nsBlocked

\* Mutant: only a callback of a good lookup is noticed
RanWell(j) == nsAt[j] = "ran" /\ nsBgs[j].host \notin Odd
HandlerRan(j) == nsAt[j] = "ran"
\* What could not be put into the netinfo is no failure to it
Unblock(j) ==
  /\ nsBlocked # <<>> /\ Last(nsBlocked) = j /\ HandlerRan(j)
  /\ Put(j, [Done(State(j)) EXCEPT !.bgs = NoBgs])
  /\ nsBlocked' = Front(nsBlocked) /\ UNCHANGED nsWild

\* gethostbyfoo_callback, an event of the run loop
LookupDone(j, how) ==
  /\ nsBgs[j].event /\ UNCHANGED nsBlocked
  /\ nsWild' = (nsWild \/ ~nsBgs[j].live)
  /\ LET s == Complete(State(j), Kind(j), nsBgs[j].host \in Odd, how) IN
     Put(j, IF ~nsBgs[j].live THEN [State(j) EXCEPT !.bgs = NoBgs]
            ELSE IF s.at = "ran" THEN [s EXCEPT !.bgs.event = FALSE, !.bgs.live = FALSE]
            ELSE IF s.at = "local" /\ nsAt[j] = "remote" THEN s
            ELSE [s EXCEPT !.bgs = Destroyed(@)])

\* bk_net_init's callback comes later
InitDone(j, what) ==
  /\ nsAt[j] = "init" /\ Put(j, Done(Tell(State(j), what))) /\ UNCHANGED <<nsBlocked, nsWild>>

Hows == {"fails", "now", "later"}
Next ==
  \E j \in Jobs :
    \/ \E how \in Hows : \/ \E url \in Urls :
                              \/ StartService(j, url, how)
                              \/ \E lhost \in Locals, defurl \in DefUrls : MakeConn(j, url, defurl, lhost, how)
                         \/ LookupDone(j, how)
    \/ \E host \in Locals : GetHost(j, host) \/ Block(j, host)
    \/ Abort(j) \/ Unblock(j)
    \/ \E what \in {"open", "failed"} : InitDone(j, what)

\* The run loop turns, and bk_net_init always tells (AddrGroup)
Fairness ==
  /\ WF_nsvars(\E j \in Jobs, how \in Hows : LookupDone(j, how))
  /\ WF_nsvars(\E j \in Jobs : Unblock(j))
  /\ WF_nsvars(\E j \in Jobs, what \in {"open", "failed"} : InitDone(j, what))
Spec == Init /\ [][Next]_nsvars /\ Fairness
-----------------------------------------------------------------------------
\* Whoever asks for a connection is told once what came of it, whether or not
\* the call returned -1, and nothing of the state is left over.
ConnTold ==
  \A j \in Jobs : Kind(j) = "conn" =>
    /\ Len(nsTold[j]) = (IF nsAt[j] = "done" THEN 1 ELSE 0)
    /\ nsAt[j] \in {"remote", "local"} => nsSss[j] = "live"
    /\ nsAt[j] = "done" => nsSss[j] \in {"none", "freed"} /\ ~nsBgs[j].live

\* Whoever asks for a service is told once, or gets -1.
ServTold ==
  \A j \in Jobs : Kind(j) = "serv" /\ nsAt[j] = "done" =>
    /\ Len(nsTold[j]) <= 1 /\ (nsTold[j] = <<>> => nsRet[j] = -1) /\ nsSss[j] # "lost"

\* A lookup that was aborted does not come back.
NoWildLookup == ~nsWild

\* An endpoint's name gives its protocol, its host and its service back, those
\* that are left out by default.
EndptTrue ==
  \A host \in Found, service, proto \in {<<49>>, <<50, 50>>} :
    /\ ParseEndpt(proto \o Separator \o host \o Colon \o service, AnyAddr, AnyServ, Tcp) =
         [proto |-> proto, host |-> host, service |-> service]
    /\ ParseEndpt(host, AnyAddr, AnyServ, Tcp) = [proto |-> Tcp, host |-> host, service |-> AnyServ]
    /\ ParseEndpt(Colon \o service, AnyAddr, AnyServ, Tcp) = [proto |-> Tcp, host |-> AnyAddr, service |-> service]

\* Whatever was begun ends: a call that blocks returns, though others were made
\* within it.
NoneBetween == \A j \in Jobs : nsAt[j] \in {"idle", "done"}
Ends == []<>NoneBetween
=============================================================================
