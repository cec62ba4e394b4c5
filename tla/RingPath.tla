------------------------------ MODULE RingPath ------------------------------
(***************************************************************************)
(* lib/b_ringdir.c: how a ring directory's path is split into a directory  *)
(* and a pattern, and what file name a number gets.  A pattern with more   *)
(* than one directive spreads the files over directories of directories.   *)
(***************************************************************************)
EXTENDS Integers, Sequences, FiniteSets

CONSTANTS
  Letters,       \* characters of a path besides '/', '%' and 'u'
  LongestPath,   \* bounds the model: length of the paths that are split
  Percents,      \* whether a path may have "%%" before its first directive
  Patterns,      \* the patterns that are used: <<pattern, brd_max_num_files>>
  Base           \* brd_directory

VARIABLES
  rpPath,        \* a path for bk_ringdir_split_pattern
  rpUsed,        \* the pattern in use, or <<>>
  rpFile,        \* the name that was created last, or <<>>
  rpDirs         \* the directories there are

rpvars == <<rpPath, rpUsed, rpFile, rpDirs>>

Slash == 47
Percent == 37
U == 117
Init == rpPath = <<>> /\ rpUsed = <<>> /\ rpFile = <<>> /\ rpDirs = {Base}

Places(s, c) == {i \in DOMAIN s : s[i] = c}
Lowest(is) == CHOOSE i \in is : \A k \in is : i <= k
Highest(is) == CHOOSE i \in is : \A k \in is : i >= k
-----------------------------------------------------------------------------
(* bk_ringdir_split_pattern *)

\* "%%" makes the search for a directive begin again at the same place
Hangs(path) ==
  Places(path, Percent) # {} /\
  LET p == Lowest(Places(path, Percent)) IN p < Len(path) /\ path[p + 1] = Percent
\* Mutant: the slash goes with the pattern
BeforeSlash(path, p) == Highest({i \in Places(path, Slash) : i < p}) - 1
\* The last slash before the directive, which stays with the directory
SlashBefore(path, p) == Highest({i \in Places(path, Slash) : i < p})
NoSplit == [dir |-> <<>>, pattern |-> <<>>]
SplitPattern(path) ==
  IF path = <<>> \/ path[1] # Slash \/ Places(path, Percent) = {} THEN NoSplit
  ELSE LET p == Lowest(Places(path, Percent)) IN
       \* a pattern in the root directory is refused
       IF {i \in Places(path, Slash) : 1 < i /\ i < p} = {} THEN NoSplit
       ELSE LET at == SlashBefore(path, p) IN
            [dir |-> SubSeq(path, 1, at), pattern |-> SubSeq(path, at + 1, Len(path))]

TryPath(c) ==
  /\ Len(rpPath) < LongestPath /\ rpUsed = <<>>
  /\ rpPath' = Append(rpPath, c) /\ (Percents \/ ~Hangs(rpPath'))
  /\ UNCHANGED <<rpUsed, rpFile, rpDirs>>
-----------------------------------------------------------------------------
(* bk_ringdir_create_file_name *)

Pattern == rpUsed[1]
MaxNumFiles == rpUsed[2]
\* bk_ringdir_create counts the directives, which are all of the form %u here
RECURSIVE Directives(_)
Directives(p) ==
  IF Len(p) < 2 THEN 0
  ELSE IF p[1] = Percent /\ p[2] = Percent THEN Directives(SubSeq(p, 3, Len(p)))
  ELSE (IF p[1] = Percent THEN 1 ELSE 0) + Directives(Tail(p))
SplitLevels == Directives(Pattern)
\* ... and takes so many files to a directory that there are enough
PerLevel == Lowest({n \in 1 .. MaxNumFiles : n ^ SplitLevels >= MaxNumFiles})

RECURSIVE Decimal(_)
Decimal(n) == IF n < 10 THEN <<48 + n>> ELSE Decimal(n \div 10) \o <<48 + (n % 10)>>

\* Mutant: every level has the number of the one above
AllAlike(cnt, level) == cnt \div PerLevel ^ (SplitLevels - 1)
LevelNum(cnt, level) == (cnt \div PerLevel ^ level) % PerLevel
\* sprintf with the levels from the top, and the number itself for the last
RECURSIVE Expand(_, _, _)
Expand(p, cnt, level) ==
  IF p = <<>> THEN <<>>
  ELSE IF Len(p) = 1 \/ p[1] # Percent THEN <<p[1]>> \o Expand(Tail(p), cnt, level)
  ELSE IF p[2] = Percent THEN <<Percent>> \o Expand(SubSeq(p, 3, Len(p)), cnt, level)
  ELSE Decimal(IF level = 0 THEN cnt ELSE LevelNum(cnt, level)) \o Expand(SubSeq(p, 3, Len(p)), cnt, level - 1)
FileName(cnt) == Base \o Expand(Pattern, cnt, SplitLevels - 1)

DirOf(name) == SubSeq(name, 1, Highest(Places(name, Slash)))
Above(name) == {SubSeq(name, 1, i) : i \in {i \in Places(name, Slash) : i >= Len(Base)}}
\* Mutant: when mkdir fails, only the last directory is made
OnlyLast(name) == {DirOf(name)}
FullMkdir(name) == Above(name)
\* mkdir of the last directory; if that fails, of all from the first
CreateFileName(cnt) ==
  /\ rpUsed # <<>>
  /\ LET name == FileName(cnt) dir == DirOf(name) IN
     /\ rpFile' = name
     /\ rpDirs' = rpDirs \union (IF dir \in rpDirs THEN {}
                                 ELSE IF DirOf(SubSeq(dir, 1, Len(dir) - 1)) \in rpDirs THEN {dir}
                                 ELSE FullMkdir(name))
  /\ UNCHANGED <<rpPath, rpUsed>>

Use(pattern) ==
  /\ rpUsed = <<>> /\ rpPath = <<>>
  /\ rpUsed' = pattern /\ UNCHANGED <<rpPath, rpFile, rpDirs>>

Next ==
  \/ \E c \in Letters \union {Slash, Percent, U} : TryPath(c)
  \/ \E pattern \in Patterns : Use(pattern)
  \/ \E cnt \in 0 .. (IF rpUsed = <<>> THEN 0 ELSE MaxNumFiles - 1) : CreateFileName(cnt)

Spec == Init /\ [][Next]_rpvars
-----------------------------------------------------------------------------
\* The two parts together are the path, the directory has no directive, and
\* the pattern's first component has one.
SplitTrue ==
  LET s == SplitPattern(rpPath) IN
  s # NoSplit =>
    /\ s.dir \o s.pattern = rpPath
    /\ s.dir[Len(s.dir)] = Slash /\ Places(s.dir, Percent) = {}
    /\ \E p \in Places(s.pattern, Percent) : \A i \in Places(s.pattern, Slash) : p < i

\* bk_ringdir_split_pattern returns.
SplitEnds == rpPath # <<>> /\ rpPath[1] = Slash => ~Hangs(rpPath)

\* No two numbers have one name, and no directory more than brd_perlevel files.
NamesApart ==
  rpUsed # <<>> =>
    LET cnts == 0 .. MaxNumFiles - 1 name == [cnt \in cnts |-> FileName(cnt)] IN
    /\ \A i, k \in cnts : name[i] = name[k] => i = k
    /\ SplitLevels > 1 => \A i \in cnts : Cardinality({k \in cnts : DirOf(name[k]) = DirOf(name[i])}) <= PerLevel

\* A name is given when its directories are there.
DirsThere == rpFile # <<>> => Above(rpFile) \subseteq rpDirs
=============================================================================
