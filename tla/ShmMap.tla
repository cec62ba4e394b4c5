------------------------------- MODULE ShmMap -------------------------------
(***************************************************************************)
(* lib/b_shmmap.c: a shared segment that clients map at one address.  Its  *)
(* creator hands out the buckets in the header, told what to do through a  *)
(* POSIX message queue that holds one message, and keeps a time in the     *)
(* header fresh while it lives.  The queue and the segment are found by    *)
(* name, so that a creator that starts again leaves those of the last one  *)
(* behind with whoever has them mapped.                                    *)
(***************************************************************************)
EXTENDS Integers, Sequences, FiniteSets

CONSTANTS
  Clients,       \* processes that attach
  Slots,         \* sh_numclients
  Gens,          \* how often the segment is created; bounds the model
  Attaches       \* how often each client attaches; bounds the model

VARIABLES
  names,         \* the generation of the queue and of the segment by name; 0 for none
  segs,          \* generation -> the header: state, fresh, numattach and buckets; giving
                 \* says that a bucket was given which numattach does not count yet
  cmds,          \* generation -> the messages in its queue
  creator,       \* the process that creates and manages
  clients        \* client -> where it is in bk_shmmap_attach, and what it has mapped

smvars == <<names, segs, cmds, creator, clients>>

Bucket == 1 .. Slots
Empty == [pid |-> "none", state |-> "EMPTY"]
Blank == [state |-> "blank", fresh |-> FALSE, numattach |-> 0, giving |-> FALSE,
          client |-> [x \in Bucket |-> Empty]]
Unattached == [pc |-> "idle", mq |-> 0, shm |-> 0, bucket |-> 0, left |-> 0]

Init ==
  /\ names = [mq |-> 0, shm |-> 0]
  /\ segs = [g \in 1 .. Gens |-> Blank]
  /\ cmds = [g \in 1 .. Gens |-> <<>>]
  /\ creator = [pc |-> "down", gen |-> 0]
  /\ clients = [c \in Clients |-> [Unattached EXCEPT !.left = Attaches[c]]]

IsFresh(g) == segs[g].state = "READY" /\ segs[g].fresh      \* BK_SHMMAP_ISFRESH
Room(g) == Len(cmds[g]) < 1                                 \* mq_maxmsg = max_clients||1
Send(g, op, c) == cmds' = [cmds EXCEPT ![g] = Append(@, [op |-> op, pid |-> c])]
-----------------------------------------------------------------------------
(* The creator *)

Gen == creator.gen
CreatorAt(pc) == creator.pc = pc
CreatorTo(pc) == creator' = [creator EXCEPT !.pc = pc]

\* bk_shmmap_create: the queue, the segment, and then its header.
CreateQueue ==
  /\ CreatorAt("down") /\ Gen < Gens
  /\ creator' = [pc |-> "queue", gen |-> Gen + 1]
  /\ names' = [names EXCEPT !.mq = Gen + 1]
  /\ UNCHANGED <<segs, cmds, clients>>

CreateSegment ==
  /\ CreatorAt("queue")
  /\ CreatorTo("segment")
  /\ names' = [names EXCEPT !.shm = Gen]
  /\ UNCHANGED <<segs, cmds, clients>>

CreateReady ==
  /\ CreatorAt("segment")
  /\ CreatorTo("managing")
  /\ segs' = [segs EXCEPT ![Gen].state = "READY", ![Gen].fresh = TRUE]
  /\ UNCHANGED <<names, cmds, clients>>

\* Whatever fails on the way, the queue and the segment are taken away again.
CreateFails ==
  /\ creator.pc \in {"queue", "segment"}
  /\ CreatorTo("down")
  /\ names' = [mq |-> 0, shm |-> 0]
  /\ UNCHANGED <<segs, cmds, clients>>

\* The mutant empties every bucket.
EmptiesAll(client, c) == client.state # "EMPTY"
Empties(client, c) == client.pid = c

\* The bucket is empty before its state is asked for, so that sh_numattach never
\* goes down.
Detached(seg, c) ==
  [seg EXCEPT !.client = [x \in Bucket |-> IF Empties(@[x], c) THEN [@[x] EXCEPT !.state = "EMPTY"] ELSE @[x]]]

EmptyBucket(seg) == {x \in Bucket : seg.client[x].state = "EMPTY"}
Given(seg, c) ==
  IF EmptyBucket(seg) = {} THEN seg
  ELSE LET first == CHOOSE x \in EmptyBucket(seg) : \A y \in EmptyBucket(seg) : x <= y
       IN [seg EXCEPT !.giving = TRUE, !.client[first] = [pid |-> c, state |-> "PREP"]]
Counted(seg) == [seg EXCEPT !.giving = FALSE, !.numattach = @ + 1]

\* bk_shmmap_manage_thread: a thread that manages, and goes on while the process lives.
ManageThread == creator.pc \in {"managing", "destroying", "destroyed"}

\* bk_shmmap_manage takes a command, in the thread of bk_shmmap_manage_thread.
\* When bk_shmmap_destroy has taken the segment away the process dies of it.
Manage ==
  /\ ManageThread /\ cmds[Gen] # <<>> /\ ~segs[Gen].giving
  /\ LET cmd == Head(cmds[Gen]) IN
     /\ cmds' = [cmds EXCEPT ![Gen] = Tail(@)]
     /\ CASE cmd.op = "destroy" ->
               CreatorTo("down") /\ names' = [mq |-> 0, shm |-> 0] /\ UNCHANGED segs
          [] cmd.op # "destroy" /\ ~CreatorAt("managing") -> CreatorTo("down") /\ UNCHANGED <<names, segs>>
          [] OTHER ->
               /\ segs' = [segs EXCEPT ![Gen] = IF cmd.op = "attach" THEN Given(@, cmd.pid) ELSE Detached(@, cmd.pid)]
               /\ UNCHANGED <<names, creator>>
  /\ UNCHANGED clients

\* A bucket is counted after it was given, when its client may have found it; or
\* never, if the creator dies between.
ManageCounts ==
  /\ ManageThread /\ segs[Gen].giving
  /\ IF CreatorAt("managing")
     THEN segs' = [segs EXCEPT ![Gen] = Counted(@)] /\ UNCHANGED creator
     ELSE CreatorTo("down") /\ UNCHANGED segs
  /\ UNCHANGED <<names, cmds, clients>>

\* bk_shmmap_destroy of the creator
CreatorCloses ==
  /\ CreatorAt("managing")
  /\ segs' = [segs EXCEPT ![Gen].state = "CLOSE"]
  /\ CreatorTo("destroying")
  /\ UNCHANGED <<names, cmds, clients>>

CreatorDestroys ==
  /\ CreatorAt("destroying") /\ Room(Gen)
  /\ Send(Gen, "destroy", "none")
  /\ CreatorTo("destroyed")
  /\ UNCHANGED <<names, segs, clients>>

CreatorDies ==
  /\ ~CreatorAt("down")
  /\ CreatorTo("down")
  /\ UNCHANGED <<names, segs, cmds, clients>>

\* The loop of bk_shmmap_manage writes sh_creatortime whenever it comes round, which
\* it does in time or too late: the time grows old at any moment.
Refresh ==
  /\ CreatorAt("managing")
  /\ segs' = [segs EXCEPT ![Gen].fresh = TRUE]
  /\ UNCHANGED <<names, cmds, creator, clients>>

GrowsOld(g) ==
  /\ segs[g].fresh
  /\ segs' = [segs EXCEPT ![g].fresh = FALSE]
  /\ UNCHANGED <<names, cmds, creator, clients>>
-----------------------------------------------------------------------------
(* bk_shmmap_attach *)

At(c, pc) == clients[c].pc = pc
To(c, pc) == clients' = [clients EXCEPT ![c].pc = pc]
Seg(c) == segs[clients[c].shm]
Mine(c, x) == Seg(c).client[x].pid = c

\* bk_shmmap_attach gives back nothing, or BK_SHMMAP_ATTACH_RETRYABLE.
Fails(c) == clients' = [clients EXCEPT ![c] = [Unattached EXCEPT !.left = clients[c].left]]
OnlyClient == UNCHANGED <<names, segs, cmds, creator>>

OpenQueue(c) ==
  /\ At(c, "idle") /\ clients[c].left > 0 /\ names.mq # 0
  /\ clients' = [clients EXCEPT ![c].pc = "shm", ![c].mq = names.mq, ![c].left = @ - 1]
  /\ OnlyClient

OpenSegment(c) ==
  /\ At(c, "shm")
  /\ IF names.shm = 0 THEN Fails(c)
     ELSE clients' = [clients EXCEPT ![c].pc = "map", ![c].shm = names.shm]
  /\ OnlyClient

\* It waits for a header, however long its creator has been dead.
MapHeader(c) ==
  /\ At(c, "map") /\ Seg(c).state # "blank"
  /\ IF Seg(c).state = "READY" THEN To(c, "validate") ELSE Fails(c)
  /\ OnlyClient

\* BK_SHMMAP_VALIDATE
Validate(c) ==
  /\ At(c, "validate")
  /\ IF IsFresh(clients[c].shm) THEN To(c, "detach") ELSE Fails(c)
  /\ OnlyClient

\* Buckets this process has from before are to be given back first; the mutant takes
\* those that it has given back for them, too.
EverMine(c) == {x \in Bucket : Mine(c, x)}
Stale(c) == {x \in Bucket : Mine(c, x) /\ Seg(c).client[x].state # "EMPTY"}

DetachOld(c) ==
  /\ At(c, "detach")
  /\ IF Stale(c) # {} /\ IsFresh(clients[c].shm)
     THEN Room(clients[c].mq) /\ Send(clients[c].mq, "detach", c) /\ UNCHANGED clients
     ELSE /\ IF Seg(c).numattach >= Slots THEN Fails(c) ELSE To(c, "attach")
          /\ UNCHANGED cmds
  /\ UNCHANGED <<names, segs, creator>>

SendAttach(c) ==
  /\ At(c, "attach") /\ Room(clients[c].mq)
  /\ Send(clients[c].mq, "attach", c)
  /\ To(c, "find")
  /\ UNCHANGED <<names, segs, creator>>

Prepared(c) == {x \in Bucket : Mine(c, x) /\ Seg(c).client[x].state = "PREP"}

\* The condition of the loop comes before the look at the buckets, and again after
\* a sleep: a client that was given the last bucket meanwhile does not see it.
FindBucket(c) ==
  /\ At(c, "find")
  /\ IF Seg(c).numattach < Slots /\ IsFresh(clients[c].shm) THEN To(c, "look") ELSE Fails(c)
  /\ OnlyClient

LookForBucket(c) ==
  /\ At(c, "look")
  /\ IF Prepared(c) = {} THEN To(c, "find") /\ UNCHANGED segs
     ELSE LET x == CHOOSE x \in Prepared(c) : \A y \in Prepared(c) : x <= y IN
          /\ segs' = [segs EXCEPT ![clients[c].shm].client[x].state = "INIT"]
          /\ clients' = [clients EXCEPT ![c].pc = "attached", ![c].bucket = x]
  /\ UNCHANGED <<names, cmds, creator>>

\* bk_shmmap_destroy of a client: it sends the detach to a queue it has closed, by
\* memory it has freed, and so tells nobody.
ClientDestroys(c) ==
  /\ At(c, "attached")
  /\ segs' = [segs EXCEPT ![clients[c].shm].client[clients[c].bucket].state = "CLOSE"]
  /\ Fails(c)
  /\ UNCHANGED <<names, cmds, creator>>

ClientDies(c) ==
  /\ ~At(c, "idle") /\ ~At(c, "dead")
  /\ To(c, "dead")
  /\ OnlyClient

Client(c) == \/ OpenSegment(c) \/ MapHeader(c) \/ Validate(c) \/ DetachOld(c)
             \/ SendAttach(c) \/ FindBucket(c) \/ LookForBucket(c)

Next == \/ CreateQueue \/ CreateSegment \/ CreateReady \/ CreateFails \/ Manage \/ ManageCounts \/ Refresh
        \/ CreatorCloses \/ CreatorDestroys \/ CreatorDies
        \/ \E g \in 1 .. Gens : GrowsOld(g)
        \/ \E c \in Clients : Client(c) \/ OpenQueue(c) \/ ClientDestroys(c) \/ ClientDies(c)

Fairness == /\ WF_smvars(CreateSegment) /\ WF_smvars(CreateReady) /\ WF_smvars(Manage \/ ManageCounts)
            /\ \A c \in Clients : WF_smvars(Client(c)) /\ SF_smvars(SendAttach(c)) /\ SF_smvars(DetachOld(c))
Spec == Init /\ [][Next]_smvars /\ Fairness
-----------------------------------------------------------------------------
\* A client that is attached has a bucket of its own in the segment it has mapped,
\* whatever other clients, dead ones included, and a creator that started again
\* have made of the buckets.
BucketOwned ==
  \A c \in Clients : At(c, "attached") =>
    /\ Seg(c).client[clients[c].bucket] = [pid |-> c, state |-> "INIT"]
    /\ \A d \in Clients \ {c} : At(d, "attached") /\ clients[d].shm = clients[c].shm => clients[d].bucket # clients[c].bucket

\* There are never more buckets taken than sh_numattach says but for the one that
\* was given last and is not counted yet, or will not be because the creator died.
AttachCounted ==
  \A g \in 1 .. Gens :
    Cardinality({x \in Bucket : segs[g].client[x].state # "EMPTY"})
      <= segs[g].numattach + IF segs[g].giving THEN 1 ELSE 0

\* An attach comes back while the creator lives, with a bucket or without, unless
\* it has got the queue of one creator and the segment of the next.
Apart(c) == clients[c].shm \notin {0, clients[c].mq}
AttachBack(c) == clients[c].pc \in {"idle", "attached", "dead"} \/ Apart(c) \/ ~CreatorAt("managing")
AttachReturns == \A c \in Clients : At(c, "shm") ~> AttachBack(c)

\* sh_numattach is the "number of clients known attached" (include/libbk.h:2880).
NumAttachTrue == \A g \in 1 .. Gens : segs[g].numattach <= Slots
=============================================================================
