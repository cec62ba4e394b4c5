------------------------------- MODULE MCNet -------------------------------
(***************************************************************************)
(* The parts of the library that carry a program's bytes and find its      *)
(* peers, one beside the other: a behaviour is one of the part which names,*)
(* and the rest stays as it began.  A part is instantiated once for every  *)
(* configuration that matters.                                             *)
(***************************************************************************)
EXTENDS Integers, Sequences, TLC

VARIABLES
  which,
  brFlags, state, known, handle, frames, unread, sent, finished, relayFreed, wildRelay, cancelled, again,
  kind, pc, as, caller, callFails, told, openSocks, inLoop, userSocks, made, wildAs,
  bpi, pid, src, prog, user, got, wildBpi,
  frMode, frOut, frWire, frIn, frUp,
  niAddrs, niPrimary, niObject, niHome, niWild, niProto, niPort, niWalk, niSays,
  nsAt, nsLocal, nsSss, nsTold, nsRet, nsBgs, nsBlocked, nsWild,
  names, segs, cmds, creator, clients
-----------------------------------------------------------------------------
\* Two messages go one way and one the other, through queues of one buffer, so
\* that either side is throttled; the descriptor of side 2 may fail.
R == INSTANCE Relay WITH
  None <- "none", Items <- (1 :> <<"a", "b">> @@ 2 :> <<"d">>), OutMax <- 1,
  FlagSets <- SUBSET {"ONECLOSE", "NOSHUTDOWN"}, MayFail <- {2}

\* Three addresses are tried in turn.
A == INSTANCE AddrGroup WITH
  Kinds <- {"stream", "dgram", "listen", "udp"}, Addresses <- 3, HasTimeout <- TRUE,
  FirstMayFail <- FALSE, MaxSock <- 4

\* Three records and the end, through a queue of two; two buffers are written.
P == INSTANCE PollIo WITH
  Threaded <- FALSE, Sync <- FALSE, Linger <- FALSE, Input <- <<"a", "b", "c", "eof">>,
  ReadMax <- 2, WriteMax <- 1, Writes <- 2, DiesInUse <- FALSE, OwnThread <- FALSE
PSync == INSTANCE PollIo WITH
  Threaded <- FALSE, Sync <- TRUE, Linger <- TRUE, Input <- <<"a", "b", "c", "eof">>,
  ReadMax <- 2, WriteMax <- 1, Writes <- 2, DiesInUse <- FALSE, OwnThread <- FALSE

\* Messages shorter and longer than a read, and ends of lines (10) anywhere
F == INSTANCE Framing WITH
  Modes <- {"raw", "block", "vector", "line"},
  Msgs <- [raw |-> <<<<1, 2, 3>>, <<4>>>>, block |-> <<<<1>>, <<2, 3>>, <<4, 5>>>>,
           vector |-> <<<<1>>, <<2, 3>>, <<4, 5, 6>>>>, line |-> <<<<1, 10>>, <<10, 2>>, <<3, 10>>>>],
  Hint <- 3, HeaderLen <- 4, OutMaxBytes <- 7,
  InMaxBytes <- [raw |-> 0, block |-> 0, vector |-> 2, line |-> 1],
  Fds <- {3, 4, 8, 4096}, Throttles <- 2

\* Three IPv4 addresses, two of which are equal, with an IPv6 address, or a path,
\* that begins with the same bytes; what is said of N below but for ComesBack
\* depends on types differing alone, and so is said of NPath too
N == INSTANCE Netinfo WITH
  Netaddrs <- 1 .. 4, Type <- LAMBDA a : IF a = 4 THEN "inet6" ELSE "inet",
  Bytes <- LAMBDA a : IF a \in {2, 4} THEN 1 ELSE a,
  DestroysListed <- FALSE, Hosts <- {<<1, 3>>, <<3, 2>>}, Protos <- {"tcp", "udp"}, Ports <- {1}
NPath == INSTANCE Netinfo WITH
  Netaddrs <- 1 .. 4, Type <- LAMBDA a : IF a = 4 THEN "local" ELSE "inet",
  Bytes <- LAMBDA a : IF a \in {2, 4} THEN 1 ELSE a,
  DestroysListed <- FALSE, Hosts <- {<<1, 3>>, <<3, 2>>}, Protos <- {"tcp"}, Ports <- {1, 2}

\* a is found, b is not, what is known of x cannot be used, * is any address; the
\* endpoints are "a:2", "b", "x:2" and "l://a:2", by default nothing or "a:2".
Jobs == {"j1", "j2", "j3"}
Asks(j) == CASE j = "j1" -> "conn" [] j = "j2" -> "serv" [] j = "j3" -> "block"
LooksUp(j) == IF j = "j1" THEN "host" ELSE "block"
S == INSTANCE NetStart WITH
  Jobs <- Jobs, Kind <- Asks,
  Urls <- {<<97, 58, 50>>, <<98>>, <<120, 58, 50>>, <<108, 58, 47, 47, 97, 58, 50>>},
  DefUrls <- {<<>>, <<97, 58, 50>>},
  Locals <- {<<97>>, <<98>>, <<120>>}, Found <- {<<97>>, <<42>>}, Odd <- {<<120>>},
  AnyAddr <- <<42>>, AnyServ <- <<48>>, Tcp <- <<116>>, LocalProto <- <<108>>
SBlocks == INSTANCE NetStart WITH
  Jobs <- Jobs, Kind <- LooksUp, Urls <- {}, DefUrls <- {},
  Locals <- {<<97>>, <<98>>, <<120>>}, Found <- {<<97>>, <<42>>}, Odd <- {<<120>>},
  AnyAddr <- <<42>>, AnyServ <- <<48>>, Tcp <- <<116>>, LocalProto <- <<108>>

\* Two processes attach to a segment of two buckets, or one of them twice.
M == INSTANCE ShmMap WITH
  Clients <- {"c1", "c2"}, Slots <- 2, Gens <- 1, Attaches <- [c1 |-> 1, c2 |-> 1]
MAgain == INSTANCE ShmMap WITH
  Clients <- {"c1", "c2"}, Slots <- 2, Gens <- 1, Attaches <- [c1 |-> 2, c2 |-> 0]
-----------------------------------------------------------------------------
relayVars == <<brFlags, state, known, handle, frames, unread, sent, finished, relayFreed, wildRelay, cancelled, again>>
addrsVars == <<kind, pc, as, caller, callFails, told, openSocks, inLoop, userSocks, made, wildAs>>
pollVars == <<bpi, pid, src, prog, user, got, wildBpi>>
framingVars == <<frMode, frOut, frWire, frIn, frUp>>
netinfoVars == <<niAddrs, niPrimary, niObject, niHome, niWild, niProto, niPort, niWalk, niSays>>
startVars == <<nsAt, nsLocal, nsSss, nsTold, nsRet, nsBgs, nsBlocked, nsWild>>
shmmapVars == <<names, segs, cmds, creator, clients>>
netvars == <<which, relayVars, addrsVars, pollVars, framingVars, netinfoVars, startVars, shmmapVars>>

Init ==
  /\ which \in {"relay", "addrs", "poll", "poll sync", "framing",
                "netinfo", "netinfo path", "start", "blocking", "shmmap", "shmmap again"}
  /\ R!Init /\ A!Init /\ F!Init /\ N!Init /\ (IF which = "shmmap again" THEN MAgain!Init ELSE M!Init)
  /\ IF which = "poll sync" THEN PSync!Init ELSE P!Init
  /\ IF which = "blocking" THEN SBlocks!Init ELSE S!Init
  /\ which # "relay" => brFlags = {}
  /\ which # "addrs" => kind = "stream"
  /\ which # "framing" => frMode = "raw"
  /\ frMode # "line" => frIn.fd = 4

\* What a step of the part named w leaves alone
Only(w) ==
  /\ which = w /\ UNCHANGED which
  /\ w # "relay" => UNCHANGED relayVars
  /\ w # "addrs" => UNCHANGED addrsVars
  /\ w \notin {"poll", "poll sync"} => UNCHANGED pollVars
  /\ w # "framing" => UNCHANGED framingVars
  /\ w \notin {"netinfo", "netinfo path"} => UNCHANGED netinfoVars
  /\ w \notin {"start", "blocking"} => UNCHANGED startVars
  /\ w \notin {"shmmap", "shmmap again"} => UNCHANGED shmmapVars

Next ==
  \/ Only("relay") /\ R!Next
  \/ Only("addrs") /\ A!Next
  \/ Only("poll") /\ P!Next
  \/ Only("poll sync") /\ PSync!Next
  \/ Only("framing") /\ F!Next
  \/ Only("netinfo") /\ N!Next
  \/ Only("netinfo path") /\ NPath!Next
  \/ Only("start") /\ S!Next
  \/ Only("blocking") /\ SBlocks!Next
  \/ Only("shmmap") /\ M!Next
  \/ Only("shmmap again") /\ MAgain!Next

\* The fairness of each part, as its module states it.  As a behaviour is one
\* part's, the i-th fair action of each is taken together.
Client(i) == IF i % 2 = 1 THEN "c1" ELSE "c2"
Polls == Only("poll") \/ Only("poll sync")
Starts == Only("start") \/ Only("blocking")
Maps == Only("shmmap") \/ Only("shmmap again")
Weak(i) ==
  \/ i = 1 /\ Only("relay") /\ R!Inside
  \/ i \in {2, 3} /\ Only("relay") /\ (R!LoopReads(i - 1) \/ R!LoopReadEnds(i - 1))
  \/ i \in {4, 5} /\ Only("relay") /\ R!LoopWrites(i - 3)
  \/ i = 1 /\ Only("addrs") /\ ~wildAs /\ A!Connecting
  \/ i = 2 /\ Only("addrs") /\ ~wildAs /\ A!Answers
  \/ i = 1 /\ Only("poll") /\ P!ProgDoes /\ UNCHANGED user
  \/ i = 1 /\ Only("poll sync") /\ PSync!ProgDoes /\ UNCHANGED user
  \/ i = 1 /\ Only("framing") /\ F!Next
  \/ i = 1 /\ Only("start") /\ \E j \in Jobs, how \in S!Hows : S!LookupDone(j, how)
  \/ i = 1 /\ Only("blocking") /\ \E j \in Jobs, how \in S!Hows : SBlocks!LookupDone(j, how)
  \/ i = 2 /\ Starts /\ \E j \in Jobs : S!Unblock(j)
  \/ i = 3 /\ Starts /\ \E j \in Jobs, what \in {"open", "failed"} : S!InitDone(j, what)
  \/ i = 1 /\ Maps /\ M!CreateSegment
  \/ i = 2 /\ Maps /\ M!CreateReady
  \/ i = 3 /\ Maps /\ (M!Manage \/ M!ManageCounts)
  \/ i \in {4, 5} /\ Maps /\ M!Client(Client(i))
Strong(i) ==
  \/ i = 1 /\ Polls /\ P!GotData /\ UNCHANGED user
  \/ i = 2 /\ Polls /\ P!GotEnd /\ UNCHANGED user
  \/ i = 3 /\ Polls /\ P!Written /\ UNCHANGED user
  \/ i \in {1, 2} /\ Maps /\ M!SendAttach(Client(i))
  \/ i \in {3, 4} /\ Maps /\ M!DetachOld(Client(i))

Spec == /\ Init /\ [][Next]_netvars
        /\ \A i \in 1 .. 5 : WF_netvars(Weak(i))
        /\ \A i \in 1 .. 4 : SF_netvars(Strong(i))
-----------------------------------------------------------------------------
\* Nothing is used after it was given back, freed twice or never freed, and
\* nobody has what is another's: the relay and its handles, the state and the
\* sockets of an address group, the polling state, the addresses of a netinfo,
\* a lookup, a bucket of the shared map.
Owned ==
  /\ R!FreedOnce /\ R!StrandedBy
  /\ A!EndedOnce /\ A!SocketsOwned
  /\ P!NoWildBpi
  /\ N!AddrsTrue
  /\ S!NoWildLookup
  /\ M!BucketOwned /\ M!AttachCounted

\* What came in goes out whole and in order, and who waits for room is woken:
\* through a relay, the framing of a handle, and the polling interface.
InOrder ==
  /\ R!Relayed /\ R!ThrottledWaits
  /\ F!BytesInOrder /\ F!FramesWhole
  /\ P!ReadInOrder /\ P!ThrottleBalanced /\ P!OutstandingTrue

\* Whoever asked for a connection, an address or a lookup is told what came of
\* it, once, and what is told is so.
ToldOnce ==
  /\ A!OutcomeOnce
  /\ IF which = "blocking" THEN SBlocks!ConnTold /\ SBlocks!EndptTrue ELSE S!ConnTold /\ S!EndptTrue

\* What waits, up to three at a time, and what it waits for: both ends of a relay
\* closed and the last callback; a connection attempt and its answer; a read, a
\* write and a close of the polling interface that wait and their returns; what
\* is written and all of it up at the other end; lookups, connections and blocked
\* calls and that none is left; the attaches of two processes and their returns.
Waits(i) ==
  CASE which = "relay" -> i = 1 /\ R!BothEnded
    [] which = "addrs" -> i = 1 /\ A!Connects
    [] which \in {"poll", "poll sync"} -> <<P!Reads, P!Pc("write"), P!Pc("linger")>>[i]
    [] which = "framing" -> i = 1
    [] which \in {"start", "blocking"} -> i = 1 /\ ~S!NoneBetween
    [] which \in {"shmmap", "shmmap again"} -> i < 3 /\ M!At(Client(i), "shm")
    [] which \in {"netinfo", "netinfo path"} -> FALSE
Served(i) ==
  CASE which = "relay" -> R!FinishedOrBroken
    [] which = "addrs" -> as.freed
    [] which \in {"poll", "poll sync"} -> <<P!Pc("idle"), P!WriteBack, P!Pc("closed")>>[i]
    [] which = "framing" -> F!AllUp
    [] which \in {"start", "blocking"} -> S!NoneBetween
    [] which \in {"shmmap", "shmmap again"} -> i < 3 /\ M!AttachBack(Client(i))
    [] which \in {"netinfo", "netinfo path"} -> FALSE

\* What the parts promise: whoever waits is served, but for a relay that FreedOnce
\* and StrandedBy leave out; a throttled handler is told nothing; no address is lost
\* but one of another type, a walk of a netinfo meets every address once, an IPv4
\* address matches if it is listed, whichever is the primary, and a socket's address
\* comes back from the netinfo made of it.
NetPromises ==
  /\ \A i \in 1 .. 3 : Waits(i) ~> Served(i)
  /\ F!ThrottleHeeded
  /\ N!LostOfOtherType /\ N!WalkTrue /\ N!MatchInetTrue
  /\ N!ComesBack /\ NPath!ComesBack
=============================================================================
