------------------------------- MODULE MCData ------------------------------
(***************************************************************************)
(* What the library keeps for its programs: files, shared memory, lists,   *)
(* registries, counters, messages and the strings they are made of, one    *)
(* part beside the other: a behaviour is one of the part which names, and  *)
(* the rest stays as it began.                                             *)
(***************************************************************************)
EXTENDS Integers, Sequences, TLC

VARIABLES
  which,
  files, chkpnt, settings, brd, logged, starts, nuking,
  rpPath, rpUsed, rpFile, rpDirs,
  cfFiles, cfTree, cfStack, cfKv, cfCursor,
  suA, suB, suC, suVstr, suMemx, suHeld,
  scIn, scFlags,
  tkCase, tkAt, tk,
  registry, nextIndex, element, userAt, holds, outside, wildElement,
  dlFlags, dlHead, dlTail, dlNext, dlPrev, dlIter, dlModel, dlRet,
  hiqueue, lowqueue, markqueue, last, seqnum, clock, maxsize, history, flushed, wildMark,
  bnode, statLock, at, now, samples, raced, statRounds,
  bdsl, rlock, live, xml, cursor, opaqueLeft, destroyed,
  names, segs, cmds, creator, clients
-----------------------------------------------------------------------------
\* Three files of two records, the first of which is written again; the log is
\* started three times.
R == INSTANCE RingDir WITH
  MaxFiles <- 3, RotateSize <- 2, CheckEvery <- 2, CantAppend <- FALSE, MayNuke <- TRUE, Records <- 7, Starts <- 3

\* Paths of six characters, one being a letter; "%u", "%u/%u" and "%u/%u/a%%%u"
P == INSTANCE RingPath WITH
  Letters <- {97}, LongestPath <- 6, Percents <- FALSE, Base <- <<47>>,
  Patterns <- {<<<<37, 117>>, 5>>, <<<<37, 117, 47, 37, 117>>, 10>>,
               <<<<37, 117, 47, 37, 117, 47, 97, 37, 37, 37, 117>>, 9>>}

\* Two files, one of which has two names; each includes any, itself and a missing
\* one at any place.
Includes == {<<>>} \cup {<<[include |-> n]>> : n \in {"a", "b", "l", "gone"}}
FileSetsV ==
  {[n \in {"a", "b", "l"} |->
      IF n = "b" THEN z \o <<[key |-> "k", value |-> "1"], [skip |-> 1]>>
      ELSE x \o <<[key |-> "k", value |-> "1"], [key |-> "j", value |-> "1"]>>
             \o y \o <<[key |-> "k", value |-> "2"]>>] : x, y, z \in Includes}
C == INSTANCE Config WITH FileSets <- FileSetsV, Inode <- [a |-> 1, b |-> 2, l |-> 1], Root <- "a", Alike <- {}

\* Strings of three characters: a space, a quote and one beyond 127; others that
\* are encoded, up to two lines long; and arrays of up to five units
CodedV ==
  UNION {[1 .. n -> {38, 45, 60, 7, 255}] : n \in 0 .. 4}
    \cup {[i \in 1 .. n |-> c] : n \in 5 .. 13, c \in {45, 97, 171, 255}}
U == INSTANCE StrUtil WITH
  Chars <- {32, 34, 255}, Longest <- 3, Width <- 16, Bufsiz <- 8, MaxVstr <- 40,
  Coded <- CodedV, MaxLine <- 8, XmlChunk <- 8, MemxSizes <- {<<0, 0>>, <<1, 2>>, <<3, 1>>}, MaxMemx <- 5

\* Numbers of three characters in types of four and eight bits, and four flags, one
\* of whose names ends as another
NamesV ==
  {<<[bit |-> 1, name |-> <<97, 98>>], [bit |-> 2, name |-> <<98>>]>>,
   <<[bit |-> 1, name |-> <<97, 98>>], [bit |-> 2, name |-> <<98>>], [bit |-> 4, name |-> <<99>>]>>,
   <<[bit |-> 3, name |-> <<>>], [bit |-> 1, name |-> <<97, 98>>]>>}
V == INSTANCE StrConv WITH
  Wide <- 8, Narrow <- 4, Digits <- {32, 45, 48, 49, 56, 102, 120}, MaxDigits <- 3, NameLists <- NamesV,
  Symbols <- <<[value |-> 1, name |-> <<97>>], [value |-> 2, name |-> <<65>>], [value |-> 1, name |-> <<98>>]>>

\* Words of a quote, a backslash, a digit, a space and a letter, or of what is not
\* printed, are quoted and split again, and lines are split with limits; then lines
\* of all that is magic, and words in single quotes.
Words(chars) == UNION {[1 .. n -> chars] : n \in 0 .. 3}
NoCases == INSTANCE Tokenizer WITH Cases <- {}, SplitOn <- {32}, Left <- {}, Right <- {}, Variables <- <<>>
Quoted(w, nonprint) ==
  [words |-> <<w, <<97>>>>, in |-> NoCases!QuotedLine(<<w, <<97>>>>, nonprint), limit |-> 0,
   flags |-> {"DOUBLEQUOTE", "OCT"}]
QuoteCases ==
  {Quoted(w, FALSE) : w \in Words({34, 92, 55, 32, 97})}
    \cup {Quoted(w, TRUE) : w \in Words({34, 92, 55, 127, 255}) \cup Words({7, 255, 97})}
SplitCases ==
  {[in |-> s, limit |-> l, flags |-> f] :
     s \in UNION {[1 .. n -> {32, 97, 34}] : n \in 0 .. 4}, l \in 0 .. 3,
     f \in {{}, {"MULTISPLIT", "SKIPLEADING"}, {"SINGLEQUOTE", "WANT_EMPTY"}}}
MagicCases ==
  {[in |-> s, limit |-> 0, flags |-> f] :
     s \in Words({39, 92, 36, 123, 125, 118, 48, 58, 61}),
     f \in {{"BACKSLASH", "CHAR", "SINGLEQUOTE", "KEEP_BRACES"}, {"OCT", "BACKSLASH"}}}
    \cup {[words |-> <<w, <<97>>>>, in |-> <<39>> \o w \o <<39, 32, 97>>, limit |-> 0,
            flags |-> {"SINGLEQUOTE", "OCT", "CHAR", "BACKSLASH"}] : w \in Words({34, 92, 36, 123, 48})}
T == INSTANCE Tokenizer WITH
  Cases <- QuoteCases \cup SplitCases, SplitOn <- {32}, Left <- {}, Right <- {}, Variables <- <<>>
TMagic == INSTANCE Tokenizer WITH
  Cases <- MagicCases, SplitOn <- {32}, Left <- {123}, Right <- {125}, Variables <- (<<118>> :> <<120, 121>>)

\* Two users of a registry of two strings, to which they may give an id
S == INSTANCE StrRegistry WITH
  Users <- {"u", "v"}, Strings <- {"a", "b"}, Forced <- {3}, Room <- 4, Refs <- 3, Elements <- {1, 2, 3, 4}

\* Four objects, two and two with the same key
Pairs(o) == (o + 1) \div 2
L == INSTANCE BkDll WITH Objects <- 1 .. 4, Key <- Pairs, Kinds <- {{}, {"unique"}}

\* Queues of one and of two messages, and a mark
E == INSTANCE ErrorQueue WITH
  Severe <- {"s1", "s2"}, Light <- {"l"}, Marks <- {"k"}, Sizes <- {1, 2}, Said <- 5, Ticks <- 1

\* A node that was made before the threads, one of which times while two add, and one
\* that the first of two makes that time
A == INSTANCE Stats WITH
  Timers <- {"t1"}, Adders <- {"a1", "a2"}, Preset <- TRUE, UMax <- 4, UQuad <- 32, Clock <- 2
ATimed == INSTANCE Stats WITH
  Timers <- {"t1", "t2"}, Adders <- {}, Preset <- FALSE, UMax <- 4, UQuad <- 32, Clock <- 3

\* Two statistics, one of which a client of priority 0 does not want; or one whose
\* value goes up and down, beside the library's own, one of them ignored
Prio(name) == IF name \in {<<"b">>, <<"vm">>} THEN 1 ELSE 0
D == INSTANCE DynStats WITH
  Values <- {0}, StatNames <- {<<"a">>, <<"b">>}, Builtins <- <<>>, Ignored <- {},
  Callers <- {"t1", "t2"}, Idempotents <- BOOLEAN, Priority <- Prio, Asked <- {0, 1}, Opaques <- 2
DSet == INSTANCE DynStats WITH
  Values <- 0 .. 1, StatNames <- {<<"a">>}, Builtins <- <<<<"pid">>, <<"vm">>>>, Ignored <- {<<"vm">>},
  Callers <- {"t1", "t2"}, Idempotents <- BOOLEAN, Priority <- Prio, Asked <- {0}, Opaques <- 1

\* The segment is made twice, or a process attaches twice.
M == INSTANCE ShmMap WITH
  Clients <- {"c1", "c2"}, Slots <- 2, Gens <- 2, Attaches <- [c1 |-> 1, c2 |-> 1]
MAgain == INSTANCE ShmMap WITH
  Clients <- {"c1", "c2"}, Slots <- 2, Gens <- 1, Attaches <- [c1 |-> 2, c2 |-> 1]
-----------------------------------------------------------------------------
dirVars == <<files, chkpnt, settings, brd, logged, starts, nuking>>
pathVars == <<rpPath, rpUsed, rpFile, rpDirs>>
configVars == <<cfFiles, cfTree, cfStack, cfKv, cfCursor>>
stringVars == <<suA, suB, suC, suVstr, suMemx, suHeld>>
numberVars == <<scIn, scFlags>>
tokenVars == <<tkCase, tkAt, tk>>
registryVars == <<registry, nextIndex, element, userAt, holds, outside, wildElement>>
dllVars == <<dlFlags, dlHead, dlTail, dlNext, dlPrev, dlIter, dlModel, dlRet>>
errorVars == <<hiqueue, lowqueue, markqueue, last, seqnum, clock, maxsize, history, flushed, wildMark>>
statsVars == <<bnode, statLock, at, now, samples, raced, statRounds>>
dynVars == <<bdsl, rlock, live, xml, cursor, opaqueLeft, destroyed>>
shmVars == <<names, segs, cmds, creator, clients>>
datavars == <<which, dirVars, pathVars, configVars, stringVars, numberVars, tokenVars, registryVars, dllVars, errorVars, statsVars, dynVars, shmVars>>

Init ==
  /\ which \in {"dir", "path", "config", "strings", "numbers", "tokens", "magic", "registry", "list",
                "errors", "stats", "stats timed", "dynamic", "dynamic set", "shmmap", "shmmap again"}
  /\ R!Init /\ P!Init /\ V!Init /\ S!Init
  /\ U!Init /\ (which # "strings" => U!OneArray)
  /\ C!Init /\ (which # "config" => cfFiles = CHOOSE f \in FileSetsV : TRUE)
  /\ L!Init /\ (which # "list" => dlFlags = {})
  /\ E!Init /\ (which # "errors" => maxsize = 1)
  /\ IF which = "magic" THEN TMagic!Init
     ELSE T!Init /\ (which # "tokens" => tkCase = [in |-> <<>>, limit |-> 0, flags |-> {}])
  /\ IF which = "stats timed" THEN ATimed!Init ELSE A!Init
  /\ IF which = "dynamic set" THEN DSet!Init ELSE D!Init
  /\ IF which = "shmmap again" THEN MAgain!Init ELSE M!Init

\* What a step of the part named w leaves alone
Only(w) ==
  /\ which = w /\ UNCHANGED which
  /\ w # "dir" => UNCHANGED dirVars
  /\ w # "path" => UNCHANGED pathVars
  /\ w # "config" => UNCHANGED configVars
  /\ w # "strings" => UNCHANGED stringVars
  /\ w # "numbers" => UNCHANGED numberVars
  /\ w \notin {"tokens", "magic"} => UNCHANGED tokenVars
  /\ w # "registry" => UNCHANGED registryVars
  /\ w # "list" => UNCHANGED dllVars
  /\ w # "errors" => UNCHANGED errorVars
  /\ w \notin {"stats", "stats timed"} => UNCHANGED statsVars
  /\ w \notin {"dynamic", "dynamic set"} => UNCHANGED dynVars
  /\ w \notin {"shmmap", "shmmap again"} => UNCHANGED shmVars

Next ==
  \/ Only("dir") /\ R!Next
  \/ Only("path") /\ P!Next
  \/ Only("config") /\ C!Next
  \/ Only("strings") /\ U!Next
  \/ Only("numbers") /\ V!Next
  \/ Only("tokens") /\ T!Next
  \/ Only("magic") /\ TMagic!Next
  \/ Only("registry") /\ S!Next
  \/ Only("list") /\ L!Next
  \/ Only("errors") /\ E!Next
  \/ Only("stats") /\ A!Next
  \/ Only("stats timed") /\ ATimed!Next
  \/ Only("dynamic") /\ D!Next
  \/ Only("dynamic set") /\ DSet!Next
  \/ Only("shmmap") /\ M!Next
  \/ Only("shmmap again") /\ MAgain!Next

Spec == Init /\ [][Next]_datavars
-----------------------------------------------------------------------------
\* What was put in is found again, as long and in the order it is meant to be: the
\* log is the end of what was written, in so many files, the oldest given up first;
\* each number has a file of its own, in a directory that is there; a configuration
\* holds what its files say, each taken once; a list is linked as its operations
\* say, and a walk meets what stays; an id stands for its string, whoever else gives
\* it up; a bucket is one process's own.
RecordsTrue ==
  /\ which = "dir" => R!LogIsSuffix /\ R!OldestGoes /\ R!FilesBounded /\ R!StatusTrue
  /\ which = "path" => P!NamesApart /\ P!DirsThere
  /\ which = "config" => C!TakenOnce /\ C!WalkComplete
  /\ which = "list" => L!ListTrue /\ L!IterationTrue
  /\ which = "registry" => S!IdsTrue
  /\ which = "shmmap" => M!BucketOwned /\ M!AttachCounted
  /\ which = "shmmap again" => MAgain!BucketOwned /\ MAgain!AttachCounted

\* What is quoted comes back, a limit is kept, no character is lost and none behind
\* the end is read; a search finds the first place, a comparison orders, spaces do
\* not count where they should not, a field is one for a reader of CSV, a string or
\* array that grows is what was put into it, what is decoded is what was encoded; a
\* path is split where its first directive begins.
TextTrue ==
  /\ which = "tokens" => T!QuoteComesBack /\ T!LimitKept /\ T!NothingLost /\ T!ReadsWithin
  /\ which = "magic" => TMagic!QuoteComesBack /\ TMagic!ReadsWithin
  /\ which = "strings" => /\ U!SearchTrue /\ U!DiffOrders /\ U!SpaceIgnored /\ U!CsvTrue /\ U!VstrHolds
                          /\ U!MemxHolds /\ (suHeld = <<>> /\ suVstr.said = 0 => U!CodesTrue)
  /\ which = "numbers" => V!NumbersTrue /\ V!FlagsComeBack /\ V!SymbolsComeBack
  /\ which = "path" => P!SplitTrue

=============================================================================
