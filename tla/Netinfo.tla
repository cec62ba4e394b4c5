------------------------------- MODULE Netinfo ------------------------------
(***************************************************************************)
(* lib/b_netinfo.c and lib/b_netaddr.c: the addresses of one end of a      *)
(* connection, of which one may be the primary, with its protocol and its  *)
(* service.  The list is libdict's, where an addition goes to the front.   *)
(***************************************************************************)
EXTENDS Integers, Sequences, SequencesExt, FiniteSets

CONSTANTS
  Netaddrs,      \* bk_netaddr's
  Type(_),       \* bna_type: "inet", "inet6" or "local"
  Bytes(_),      \* bna_addr
  DestroysListed, \* a program destroys an address that is in the list
  Hosts,         \* h_addr_list of the hosts that are looked up
  Protos, Ports  \* what a socket address may be compared with

VARIABLES
  niAddrs,       \* bni_addrs
  niPrimary,     \* bni_addr
  niObject,      \* bk_netaddr -> "free", "ours", "listed" or, of no one any more, "lost"
  niHome,        \* bk_netaddr -> bna_netinfo_addrs: no list, "this" netinfo's, or one
                 \* that is "gone"
  niWild,        \* a list that is gone was used
  niProto, niPort,
  niWalk,        \* the addresses since the walk began, and whether the list is still the same
  niSays         \* what bk_netinfo_match_sockaddr answered

nivars == <<niAddrs, niPrimary, niObject, niHome, niWild, niProto, niPort, niWalk, niSays>>

None == 0
NoWalk == [seen |-> <<>>, same |-> FALSE]

\* bk_netinfo_create, with the protocol and the service already known
Init ==
  /\ niAddrs = <<>> /\ niPrimary = None /\ niObject = [a \in Netaddrs |-> "free"]
  /\ niHome = [a \in Netaddrs |-> "none"] /\ niWild = FALSE
  /\ niProto = "tcp" /\ niPort = 1
  /\ niWalk = NoWalk /\ niSays = FALSE

Info == [addrs |-> niAddrs, primary |-> niPrimary, object |-> niObject, home |-> niHome]
Put(info) == /\ niAddrs' = info.addrs /\ niPrimary' = info.primary
             /\ niObject' = info.object /\ niHome' = info.home

\* bna_oo_cmp
SameAddr(a, b) == Type(a) = Type(b) /\ Bytes(a) = Bytes(b)
Search(addrs, a) == SelectSeq(addrs, LAMBDA b : SameAddr(a, b))
Listed(addrs, a) == Search(addrs, a) # <<>>
FirstOf(addrs) == IF addrs = <<>> THEN None ELSE Head(addrs)
\* bk_netinfo_get_addr
GetAddr(info) == IF info.primary # None THEN info.primary ELSE FirstOf(info.addrs)
-----------------------------------------------------------------------------
(* Addresses *)

OtherType(info, a) == info.addrs # <<>> /\ Type(Head(info.addrs)) # Type(a)

\* bk_netinfo_add_addr: 1 for an address of another type, which is not added,
\* -1 or, when it is asked for, the old one for an address that is there.  The
\* first address is made the primary.
Added(info, a) ==
  [info EXCEPT !.addrs = <<a>> \o @, !.object[a] = "listed", !.home[a] = "this",
               !.primary = IF info.addrs = <<>> THEN a ELSE @]

AddAddr(a) ==
  /\ niObject[a] = "ours" /\ ~OtherType(Info, a) /\ ~Listed(niAddrs, a)
  /\ Put(Added(Info, a))
  /\ niWalk' = NoWalk
  /\ UNCHANGED <<niWild, niProto, niPort, niSays>>

\* bk_netaddr_user by the program
NewAddr(a) ==
  /\ niObject[a] = "free"
  /\ niObject' = [niObject EXCEPT ![a] = "ours"]
  /\ niHome' = [niHome EXCEPT ![a] = "none"]
  /\ UNCHANGED <<niAddrs, niPrimary, niWild, niProto, niPort, niWalk, niSays>>

\* bk_netaddr_destroy: an address is deleted from the list it says it is in, where
\* it may not be any more; one that is there stays the primary if it was
DestroyAddr(a) ==
  /\ niObject[a] \in {"ours"} \cup (IF DestroysListed THEN {"listed"} ELSE {})
  /\ niWild' = (niHome[a] = "gone")
  /\ niObject' = [niObject EXCEPT ![a] = "free"]
  /\ niHome' = [niHome EXCEPT ![a] = "none"]
  /\ niAddrs' = SelectSeq(niAddrs, LAMBDA b : b # a)
  /\ niWalk' = IF niObject[a] = "listed" THEN NoWalk ELSE niWalk
  /\ UNCHANGED <<niPrimary, niProto, niPort, niSays>>

\* Mutant: the primary stays when it is deleted
KeptPrimary(a) == niPrimary
\* bk_netinfo_delete_addr, after which the address still says which list it was in
PrimaryWithout(a) == IF niPrimary = a THEN None ELSE niPrimary
DeleteAddr(a) ==
  /\ Listed(niAddrs, a)
  /\ LET b == Head(Search(niAddrs, a)) IN
     /\ niAddrs' = SelectSeq(niAddrs, LAMBDA x : x # b)
     /\ niPrimary' = PrimaryWithout(b)
     /\ niObject' = [niObject EXCEPT ![b] = "ours"]
  /\ niWalk' = NoWalk
  /\ UNCHANGED <<niHome, niWild, niProto, niPort, niSays>>

\* Mutant: an address that is not added is forgotten
Forgotten(info, a) == [info EXCEPT !.object[a] = "lost"]
\* The loop of bk_netinfo_update_hostent destroys the copy of an address that
\* is there (-1), but not that of one of another type (1)
Refused(info, a) == [info EXCEPT !.object[a] = IF OtherType(info, a) THEN "lost" ELSE "free"]
\* bk_netaddr_addrdup: the copy of an address, of its type and its bytes
Addrdup(info, a) == [info EXCEPT !.object[a] = "ours", !.home[a] = "none"]
FromHost(info, a) ==
  LET copied == Addrdup(info, a) IN
  IF OtherType(info, a) \/ Listed(info.addrs, a) THEN Refused(copied, a) ELSE Added(copied, a)

UpdateHostent(host) ==
  /\ \A i \in DOMAIN host : niObject[host[i]] = "free"
  /\ Put(FoldLeft(FromHost, Info, host))
  /\ niWalk' = NoWalk
  /\ UNCHANGED <<niWild, niProto, niPort, niSays>>
-----------------------------------------------------------------------------
(* The protocol and the service; what was known goes *)

\* bk_netinfo_update_protoent
UpdateProtoent(proto) ==
  /\ niProto' = proto
  /\ UNCHANGED <<niAddrs, niPrimary, niObject, niHome, niWild, niPort, niWalk, niSays>>

\* bk_netinfo_update_servent
UpdateServent(port) ==
  /\ niPort' = port
  /\ UNCHANGED <<niAddrs, niPrimary, niObject, niHome, niWild, niProto, niWalk, niSays>>
-----------------------------------------------------------------------------
(* The primary *)

\* bk_netinfo_set_primary_address and bk_netinfo_reset_primary_address
SetPrimary(a) ==
  /\ Listed(niAddrs, a) /\ niPrimary' = Head(Search(niAddrs, a)) /\ niWalk' = NoWalk
  /\ UNCHANGED <<niAddrs, niObject, niHome, niWild, niProto, niPort, niSays>>
ResetPrimary ==
  /\ niPrimary' = None /\ niWalk' = [seen |-> <<>>, same |-> TRUE]
  /\ UNCHANGED <<niAddrs, niObject, niHome, niWild, niProto, niPort, niSays>>

Place(addrs, a) == SelectInSeq(addrs, LAMBDA b : b = a)
\* Mutant: the next one is passed over
NextButOne(addrs, a) == FirstOf(SubSeq(addrs, Place(addrs, a) + 2, Len(addrs)))
Successor(addrs, a) == FirstOf(SubSeq(addrs, Place(addrs, a) + 1, Len(addrs)))

\* bk_netinfo_advance_primary_address: the first when there is none, else the
\* next one, and none after the last
Advance ==
  /\ niAddrs # <<>>
  /\ niPrimary' = IF niPrimary = None THEN GetAddr(Info) ELSE Successor(niAddrs, niPrimary)
  /\ niWalk' = IF niWalk.same /\ niPrimary' # None THEN [niWalk EXCEPT !.seen = Append(@, niPrimary')] ELSE NoWalk
  /\ UNCHANGED <<niAddrs, niObject, niHome, niWild, niProto, niPort, niSays>>
-----------------------------------------------------------------------------
(* Socket addresses *)

\* bk_netinfo_to_sockaddr with bni2sin, bni2sin6 and bni2un: of the address
\* that is given or is the primary or the first
ToSockaddr(info, port) ==
  LET a == GetAddr(info) IN
  [family |-> Type(a), bytes |-> Bytes(a), port |-> IF Type(a) = "local" THEN None ELSE port]

\* bk_netinfo_destroy: its addresses are destroyed, and those that were deleted
\* from it name a list that is gone
Orphaned == [x \in Netaddrs |-> IF niObject[x] = "listed" THEN "none"
                                ELSE IF niHome[x] = "this" THEN "gone" ELSE niHome[x]]

\* bk_netinfo_from_sockaddr makes a netinfo of one address, which has a service
\* unless it is a path
FromSockaddr(a, proto, port) ==
  /\ LET old == [x \in Netaddrs |-> IF niObject[x] = "listed" THEN "free" ELSE niObject[x]] IN
     Put(Added([addrs |-> <<>>, primary |-> None, object |-> old, home |-> Orphaned], a))
  /\ niProto' = proto /\ niPort' = IF Type(a) = "local" THEN None ELSE port

\* bk_netinfo_from_socket: what getsockname or getpeername gave, and the
\* protocol of the socket's type.  The old netinfo goes with all its addresses.
FromSocket(a, proto, port) ==
  /\ niObject[a] = "free"
  /\ FromSockaddr(a, proto, port)
  /\ niWalk' = NoWalk /\ UNCHANGED <<niWild, niSays>>

\* bk_netinfo_match_sockaddr compares an inet6 address with those of type inet,
\* and a path with those that are no path
Compares(family, b) ==
  IF family = "local" THEN Type(b) # "local" ELSE Type(b) = "inet"
\* Mutant: the walk starts after the primary
AfterPrimary(addrs) == SubSeq(addrs, Place(addrs, niPrimary) + 1, Len(addrs))
\* The walk over the addresses starts with a reset of the primary, which is put
\* back.  A protocol or a port that differs ends it before the primary was saved.
FromReset(addrs) == addrs
Match(a, proto, port) ==
  LET other == proto # niProto \/ (Type(a) # "local" /\ port # niPort)
      walk == SelectSeq(FromReset(niAddrs), LAMBDA b : Compares(Type(a), b) /\ Bytes(b) = Bytes(a)) IN
  /\ Type(a) # "local" => niPort # None
  /\ niPrimary' = IF other THEN None ELSE niPrimary
  /\ niSays' = (~other /\ walk # <<>>)
  /\ niWalk' = NoWalk
  /\ UNCHANGED <<niAddrs, niObject, niHome, niWild, niProto, niPort>>

\* bk_netinfo_clone, by a program that goes on with the clone, whose copies have
\* the originals' names here, and destroys the original: the copies are
\* added one by one, so that the clone's list is the other way round, and its
\* primary the first copy if there was none.  (Without a service the clone
\* fails, and what was just destroyed is returned.)
Clone ==
  /\ niAddrs # <<>> /\ niPort # None
  /\ niAddrs' = Reverse(niAddrs)
  /\ niPrimary' = GetAddr(Info)
  /\ niHome' = [x \in Netaddrs |-> IF niObject[x] = "listed" THEN "this" ELSE Orphaned[x]]
  /\ niWalk' = NoWalk
  /\ UNCHANGED <<niObject, niWild, niProto, niPort, niSays>>

Calls ==
  \/ \E a \in Netaddrs : \/ NewAddr(a) \/ DestroyAddr(a) \/ AddAddr(a) \/ DeleteAddr(a) \/ SetPrimary(a)
                         \/ \E proto \in Protos, port \in Ports : Match(a, proto, port) \/ FromSocket(a, proto, port)
  \/ \E host \in Hosts : UpdateHostent(host)
  \/ \E proto \in Protos : UpdateProtoent(proto)
  \/ \E port \in Ports : UpdateServent(port)
  \/ ResetPrimary \/ Advance \/ Clone

Next == ~niWild /\ Calls

Spec == Init /\ [][Next]_nivars
-----------------------------------------------------------------------------
\* The list has one type, no address twice, and the primary: what is deleted,
\* or gone with an old netinfo, is not the primary any more; and what is listed
\* knows where.
AddrsTrue ==
  /\ \A i, j \in DOMAIN niAddrs :
       Type(niAddrs[i]) = Type(niAddrs[j]) /\ (SameAddr(niAddrs[i], niAddrs[j]) => i = j)
  /\ niPrimary # None => niPrimary \in Range(niAddrs)
  /\ \A a \in Netaddrs : /\ niObject[a] = "listed" <=> a \in Range(niAddrs)
                         /\ niObject[a] = "listed" => niHome[a] = "this"

\* Destroying an address uses no list that is gone; false of the code, for an
\* address that was deleted from a netinfo and outlives it.
NoWildList == ~niWild

\* Every copy made of a host's addresses is listed or destroyed; false of the
\* code for a host whose addresses are of another type than those listed.
NoneLost == \A a \in Netaddrs : niObject[a] # "lost"

\* No other copy is lost.
LostOfOtherType ==
  [][\A a \in Netaddrs : niObject'[a] = "lost" => niObject[a] = "lost" \/ OtherType(Info, a)]_nivars

\* A walk from a reset, over a list that stays the same, has met every address
\* once when it ends.
WalkTrue == [][Advance /\ niWalk.same /\ niPrimary' = None => niWalk.seen = niAddrs]_nivars

\* An address matches, with this protocol and port, if and only if it is listed,
\* whichever address is the primary; true of the code for IPv4 addresses, and, as
\* what Compares says, neither for IPv6 addresses nor for paths.
MatchTrueOf(a) ==
  \A proto \in Protos, port \in Ports :
    Match(a, proto, port) /\ proto = niProto /\ port = niPort => niSays' = Listed(niAddrs, a)
MatchTrue == [][\A a \in Netaddrs : MatchTrueOf(a)]_nivars
MatchInetTrue == [][\A a \in Netaddrs : Type(a) = "inet" => MatchTrueOf(a)]_nivars

\* Comparing does not change the primary.
MatchKeepsPrimary ==
  [][\A a \in Netaddrs, proto \in Protos, port \in Ports : Match(a, proto, port) => niPrimary' = niPrimary]_nivars

\* A socket's own address comes back from the netinfo made of it.
ComesBack ==
  [][\A a \in Netaddrs, proto \in Protos, port \in Ports : FromSocket(a, proto, port) =>
       ToSockaddr(Info, niPort)' =
         [family |-> Type(a), bytes |-> Bytes(a), port |-> IF Type(a) = "local" THEN None ELSE port]]_nivars
=============================================================================
