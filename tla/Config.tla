------------------------------- MODULE Config -------------------------------
(***************************************************************************)
(* lib/b_config.c: keys and values read from a file and the files it       *)
(* includes, each file once however often and under whatever name it is    *)
(* included, and the values of a key read back one after the other.        *)
(***************************************************************************)
EXTENDS Integers, Sequences, SequencesExt, FiniteSets

CONSTANTS
  FileSets,      \* file name -> its lines: [include |-> name] or [key, value], or [skip] for a comment
  Inode,         \* file name -> st_dev and st_ino; a name without one cannot be opened
  Root,          \* the file bk_config_init is called with
  Alike          \* pairs of values whose addresses differ by a multiple of 2^32

VARIABLES
  cfFiles,       \* what the files hold
  cfTree,        \* bc_bcf: the bk_config_fileinfo's, each with bcf_insideof and bcf_includes
  cfStack,       \* the calls of load_config_from_file: <<fileinfo, next line>>
  cfKv,          \* bc_kv: key -> bck_values
  cfCursor       \* the caller's walk with bk_config_getnext: key, ovalue, what it was given

cvars == <<cfFiles, cfTree, cfStack, cfKv, cfCursor>>
keys == <<cfKv, cfCursor>>

None == 0
NoWalk == [key |-> "", value |-> <<>>, given |-> <<>>, pc |-> "load"]

\* A fileinfo of cfTree that has been destroyed keeps its number
Fileinfo(name, within) == [name |-> name, insideof |-> within, includes |-> <<>>, alive |-> TRUE, stat |-> None]

Init ==
  /\ cfFiles \in FileSets
  /\ cfTree = <<Fileinfo(Root, None)>>
  /\ cfStack = <<<<1, 0>>>>
  /\ cfKv = [k \in {} |-> <<>>]
  /\ cfCursor = NoWalk

Top == Head(cfStack)
Bcf == Top[1]
Line == Top[2]
Lines == cfFiles[cfTree[Bcf].name]
Opens(name) == name \in DOMAIN Inode
-----------------------------------------------------------------------------
(* Loading *)

\* Mutant: a file is known by its name
IncludedByName(tree, b) ==
  \E other \in {c \in DOMAIN tree : tree[c].alive} \ {b} : tree[other].name = tree[b].name
\* check_for_double_include: the fileinfo's within the root's, with it
Within(tree) == {b \in DOMAIN tree : tree[b].alive}
IncludedAlready(tree, b) ==
  \E other \in Within(tree) \ {b} : tree[other].stat = tree[b].stat

\* The include's parent hears of a failure only by the return value, and
\* destroys the fileinfo: the includer reads on either way
Return(tree, failed) ==
  /\ cfStack' = Tail(cfStack)
  /\ cfTree' = IF failed /\ Len(cfStack) > 1
               THEN [tree EXCEPT ![Bcf].alive = FALSE,
                                 ![tree[Bcf].insideof].includes = SelectSeq(@, LAMBDA b : b # Bcf)]
               ELSE tree
  /\ cfCursor' = IF Len(cfStack) = 1 THEN [cfCursor EXCEPT !.pc = "idle"] ELSE cfCursor
  /\ UNCHANGED cfKv

\* load_config_from_file up to its loop: fopen, fstat, the double include
Open ==
  /\ cfStack # <<>> /\ Line = 0
  /\ LET name == cfTree[Bcf].name IN
     IF ~Opens(name) THEN Return(cfTree, TRUE)
     ELSE LET tree == [cfTree EXCEPT ![Bcf].stat = Inode[name]] IN
          IF IncludedAlready(tree, Bcf) THEN Return(tree, FALSE)
          ELSE /\ cfTree' = tree /\ cfStack' = <<<<Bcf, 1>>>> \o Tail(cfStack)
               /\ UNCHANGED keys

Reading == cfStack # <<>> /\ Line > 0
Advanced == <<<<Bcf, Line + 1>>>> \o Tail(cfStack)

\* bcf_create: the new fileinfo is put first among the includes (dll_insert)
Include ==
  /\ Reading /\ Line <= Len(Lines) /\ "include" \in DOMAIN Lines[Line]
  /\ LET new == Len(cfTree) + 1 IN
     /\ cfTree' = Append([cfTree EXCEPT ![Bcf].includes = <<new>> \o @], Fileinfo(Lines[Line].include, Bcf))
     /\ cfStack' = <<<<new, 0>>>> \o Advanced
  /\ UNCHANGED keys

\* bck_create: a key seen for the first time has no value yet
ValuesOf(key) == IF key \in DOMAIN cfKv THEN cfKv[key] ELSE <<>>
WithKey(key, values) == [k \in DOMAIN cfKv \union {key} |-> IF k = key THEN values ELSE cfKv[k]]

\* config_manage with a value and no ovalue: appended to the key's values
KeyValue ==
  /\ Reading /\ Line <= Len(Lines) /\ "key" \in DOMAIN Lines[Line]
  /\ LET key == Lines[Line].key
         bcv == [value |-> Lines[Line].value, lineno |-> Line, file |-> cfTree[Bcf].stat] IN
     cfKv' = WithKey(key, Append(ValuesOf(key), bcv))
  /\ cfStack' = Advanced /\ UNCHANGED <<cfTree, cfCursor>>

\* A comment, an empty line, one without a separator or without a key
Skip ==
  /\ Reading /\ Line <= Len(Lines) /\ "skip" \in DOMAIN Lines[Line]
  /\ cfStack' = Advanced /\ UNCHANGED <<cfTree, cfKv, cfCursor>>

EndOfFile == Reading /\ Line > Len(Lines) /\ Return(cfTree, FALSE)
-----------------------------------------------------------------------------
(* The caller *)

\* Mutant: the values are told apart by what they say
SameText(v, w) == v.value = w.value
\* The values are told apart by their addresses, compared as ints
SameAddress(v, w) == v = w \/ <<v.value, w.value>> \in Alike
Searched(key, value) ==
  LET same == {i \in DOMAIN cfKv[key] : SameAddress(cfKv[key][i], value)} IN
  IF same = {} THEN 0 ELSE CHOOSE i \in same : \A j \in same : i <= j

\* bk_config_getnext: the first value, or the one after ovalue
GetNext(key) ==
  /\ cfCursor.pc \in {"idle", "walk"} /\ (cfCursor.pc = "walk" => cfCursor.key = key)
  /\ Len(cfCursor.given) <= 8
  /\ LET at == IF key \notin DOMAIN cfKv THEN 0
               ELSE IF cfCursor.pc = "idle" THEN 1
               ELSE IF Searched(key, cfCursor.value) = 0 THEN 0
               ELSE Searched(key, cfCursor.value) + 1
         got == at \in DOMAIN ValuesOf(key) IN
     cfCursor' = IF got THEN [key |-> key, value |-> cfKv[key][at], pc |-> "walk",
                              given |-> Append(cfCursor.given, cfKv[key][at])]
                 ELSE [cfCursor EXCEPT !.pc = "walked", !.key = key]
  /\ UNCHANGED <<cfTree, cfStack, cfKv>>

\* bck_destroy: the key goes with all its values
WithoutKey(key) == [k \in DOMAIN cfKv \ {key} |-> cfKv[k]]

\* bk_config_delete_key, also in the middle of a walk of the key
DeleteKey(key) ==
  /\ cfCursor.pc \in {"idle", "walk", "walked"} /\ key \in DOMAIN cfKv
  /\ cfKv' = WithoutKey(key)
  /\ UNCHANGED <<cfTree, cfStack, cfCursor>>

Next ==
  /\ UNCHANGED cfFiles
  /\ \/ Open \/ Include \/ KeyValue \/ Skip \/ EndOfFile
     \/ \E key \in {"k", "j"} : GetNext(key) \/ DeleteKey(key)

Load == Open \/ Include \/ KeyValue \/ Skip \/ EndOfFile
Spec == Init /\ [][Next]_cvars /\ WF_cvars(Load /\ UNCHANGED cfFiles)
-----------------------------------------------------------------------------
\* The files the root leads to by includes, under any of their names
RECURSIVE Reach(_)
Reach(names) ==
  LET more == names \union {name \in DOMAIN Inode : \E n \in names : \E l \in Range(cfFiles[n]) :
                              "include" \in DOMAIN l /\ l.include = name} IN
  IF more = names THEN names ELSE Reach(more)
Reached == {Inode[n] : n \in Reach({Root} \intersect DOMAIN Inode)}
Values == UNION {Range(cfKv[k]) : k \in DOMAIN cfKv}
KeyLines(name) == {i \in DOMAIN cfFiles[name] : "key" \in DOMAIN cfFiles[name][i]}

\* A file's lines are taken once, however often it is included, under its own
\* name or another's, and none is left out that the root leads to, though an
\* include fails: "Include loops are detected and quashed" (b_config.c:34).
TakenOnce ==
  /\ \A k \in DOMAIN cfKv : \A i, j \in DOMAIN cfKv[k] : cfKv[k][i] = cfKv[k][j] => i = j
  /\ cfCursor.pc = "idle" /\ DOMAIN cfKv = {"j", "k"} =>
       {<<v.file, v.lineno>> : v \in Values}
         = UNION {{<<Inode[n], i>> : i \in KeyLines(n)} : n \in Reach({Root} \intersect DOMAIN Inode)}

\* A walk is given each value of a key once and in the order of the files, and
\* all of them when it ends with the key still there.
WalkComplete ==
  cfCursor.key \in DOMAIN cfKv =>
    /\ IsPrefix(cfCursor.given, cfKv[cfCursor.key])
    /\ cfCursor.pc = "walked" => cfCursor.given = cfKv[cfCursor.key]

\* Loading ends, whatever the files include.
LoadEnds == <>(cfStack = <<>>)
=============================================================================
