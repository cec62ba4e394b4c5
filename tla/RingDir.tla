------------------------------ MODULE RingDir ------------------------------
(***************************************************************************)
(* lib/b_ringdir.c: a log kept in a directory of MaxFiles files that are   *)
(* filled in turn, with the standard callbacks.  A checkpoint file holds   *)
(* the number of the current file, and a settings file how many files      *)
(* there are and may be, so that the log is continued when the process     *)
(* starts again.  The process may die between any two system calls that    *)
(* change the directory: those that create a file, write a word of it, and *)
(* remove it.                                                              *)
(***************************************************************************)
EXTENDS Integers, Sequences, SequencesExt

CONSTANTS
  MaxFiles,           \* brd_max_num_files
  RotateSize,         \* brd_rotate_size, in records
  CheckEvery,         \* CHECK_ESTIMATE_EVERY
  CantAppend,         \* BK_RINGDIR_FLAG_CANT_APPEND
  MayNuke,            \* whether BK_RINGDIR_FLAG_NUKE_DIR_ON_DESTROY may be given
  Records,            \* how many records are written; bounds the model
  Starts              \* how often a process starts; bounds the model

VARIABLES
  files,         \* disk: number -> the records of the file, or Absent
  chkpnt,        \* disk: the words of the checkpoint, or NoFile
  settings,      \* disk: the words of the settings, brd_num_files first, or NoFile
  brd,           \* memory: the bk_ring_directory, pc telling where it is
  logged,        \* history: records written since the directory was made
  starts,        \* processes started
  nuking         \* history: some files were removed by a destroy, and not yet all

dvars == <<files, chkpnt, settings, brd, logged, starts, nuking>>
disk == <<files, chkpnt, settings>>

Absent == <<0>>                                        \* no record is numbered 0
NoFile == <<-1>>
Num == 0 .. MaxFiles - 1
NextFile(n) == (n + 1) % MaxFiles                            \* NEXT_FILE_NUM
Exists(n) == files[n] # Absent
Size(n) == IF Exists(n) THEN Len(files[n]) ELSE 0

Down == [pc |-> "down", cur |-> 0, num |-> 0, estimate |-> 0, fresh |-> FALSE, append |-> FALSE,
         level |-> 0, then |-> "recover", count |-> 0]

Init ==
  /\ files = [n \in Num |-> Absent] /\ chkpnt = NoFile /\ settings = NoFile
  /\ brd = Down
  /\ logged = 0 /\ starts = 0 /\ nuking = FALSE

At(pc) == brd.pc = pc
Goto(pc) == brd' = [brd EXCEPT !.pc = pc]
-----------------------------------------------------------------------------
(* bk_ringdir_init *)

\* bk_ringdir_create reads the settings, which it refuses if they end early, and
\* writes them back.
Create ==
  /\ At("down") /\ starts < Starts
  /\ starts' = starts + 1
  /\ brd' = [Down EXCEPT !.pc = IF settings # NoFile /\ Len(settings) < 2 THEN "refused" ELSE "settings",
                         !.num = IF settings = NoFile THEN 0 ELSE IF settings = <<>> THEN 0 ELSE settings[1]]
  /\ UNCHANGED <<disk, logged>>

\* write_settings: the file is created if it is not there, and its words are written
\* one after the other.
WriteSettings ==
  /\ At("settings")
  /\ settings' = CASE settings = NoFile -> <<>> [] settings = <<>> -> <<brd.num>> [] OTHER -> <<brd.num, MaxFiles>>
  /\ Goto(IF Len(settings') = 2 THEN brd.then ELSE "settings")
  /\ UNCHANGED <<files, chkpnt, logged, starts>>

\* The mutant starts over with the first file.
RecoverFirst == 0
Recovered == chkpnt[1]

\* A checkpoint that is empty is read for ever.
Recover ==
  /\ At("recover")
  /\ LET found == chkpnt # NoFile
         cur == IF ~found THEN 0 ELSE IF CantAppend THEN NextFile(Recovered) ELSE Recovered
     IN IF chkpnt = <<>> THEN Goto("hangs")
        ELSE brd' = [brd EXCEPT !.pc = "open", !.cur = cur, !.fresh = ~Exists(cur),
                                !.append = found /\ ~CantAppend]
  /\ UNCHANGED <<disk, logged, starts>>

\* open(2) creates the file, and truncates it unless it is to be continued.
Open ==
  /\ At("open")
  /\ files' = [files EXCEPT ![brd.cur] = IF brd.append /\ @ # Absent THEN @ ELSE <<>>]
  /\ Goto(IF brd.fresh THEN "count" ELSE "chkpnt")
  /\ UNCHANGED <<chkpnt, settings, logged, starts>>

\* A file that was not there counts.
Count ==
  /\ At("count")
  /\ brd' = [brd EXCEPT !.num = @ + 1, !.pc = "settings", !.then = "chkpnt"]
  /\ UNCHANGED <<disk, logged, starts>>

\* The checkpoint is created if it is not there, and written.
WriteChkpnt == chkpnt' = IF chkpnt = NoFile THEN <<>> ELSE <<brd.cur>>

\* A log that is continued may have to rotate at once: bk_ringdir_rotate with no
\* increment looks at the size of the file.
Chkpnt ==
  /\ At("chkpnt") /\ WriteChkpnt
  /\ IF chkpnt' = <<>> THEN UNCHANGED brd
     ELSE brd' = [brd EXCEPT !.append = FALSE, !.fresh = FALSE, !.then = "recover",
                             !.estimate = IF brd.append THEN Size(brd.cur) ELSE 0,
                             !.pc = IF brd.append /\ Size(brd.cur) >= RotateSize THEN "rotate" ELSE "idle"]
  /\ UNCHANGED <<files, settings, logged, starts>>
-----------------------------------------------------------------------------
(* Logging *)

\* The program writes a record to the current descriptor.
Log ==
  /\ At("idle") /\ logged < Records
  /\ logged' = logged + 1
  /\ files' = [files EXCEPT ![brd.cur] = Append(@, logged')]
  /\ Goto("logged")
  /\ UNCHANGED <<chkpnt, settings, starts>>

\* bk_ringdir_rotate with the size of what was written, with 0 if it is not known, or
\* to force it: the file's size is looked at when the estimate says that it is full,
\* is not known, or has been taken for it some time.
Rotate(size, force) ==
  /\ At("logged") \/ (force /\ At("idle"))
  /\ LET estimate == brd.estimate + size
         unless == size = 0 \/ estimate >= RotateSize
         looks == unless \/ brd.level = 1
         need == force \/ (looks /\ Size(brd.cur) >= RotateSize)
     IN brd' = [brd EXCEPT !.estimate = IF need THEN 0 ELSE IF looks THEN Size(brd.cur) ELSE estimate,
                           !.level = IF need THEN 0 ELSE IF unless THEN @ ELSE (@ + 1) % CheckEvery,
                           !.pc = IF need THEN "rotate" ELSE "idle"]
  /\ UNCHANGED <<disk, logged, starts>>

\* The file is closed and the checkpoint written once more, before the next file
\* is looked at.
RotateNext ==
  /\ At("rotate") /\ WriteChkpnt
  /\ brd' = [brd EXCEPT !.estimate = 0, !.level = 0, !.cur = NextFile(@), !.pc = "unlink",
                        !.fresh = ~Exists(NextFile(brd.cur))]
  /\ UNCHANGED <<files, settings, logged, starts>>

\* The mutant removes the file that follows the next one.
UnlinkAfter(n) == NextFile(n)
UnlinkWhich(n) == n

RotateUnlink ==
  /\ At("unlink")
  /\ files' = [files EXCEPT ![UnlinkWhich(brd.cur)] = Absent]
  /\ Goto("open")
  /\ UNCHANGED <<chkpnt, settings, logged, starts>>

\* The new file cannot be opened: bk_ringdir_rotate gives up with its number
\* advanced, and so does each later one, as it finds no size.
RotateFails ==
  /\ At("open") /\ starts > 0 /\ ~brd.append
  /\ Goto("broken")
  /\ UNCHANGED <<disk, logged, starts>>
-----------------------------------------------------------------------------
Crash ==
  /\ ~At("down")
  /\ brd' = Down
  /\ UNCHANGED <<disk, logged, starts>>

Destroy ==
  /\ At("idle") \/ At("broken")
  /\ WriteChkpnt
  /\ brd' = Down
  /\ UNCHANGED <<files, settings, logged, starts>>

\* The files are removed one after the other, then the checkpoint; the settings are
\* left.
DestroyNuke ==
  /\ MayNuke /\ (At("idle") \/ At("broken"))
  /\ WriteChkpnt
  /\ brd' = [brd EXCEPT !.pc = "nuke", !.count = 0]
  /\ UNCHANGED <<files, settings, logged, starts>>

NukeUnlinks ==
  /\ At("nuke") /\ brd.count < MaxFiles
  /\ files' = [files EXCEPT ![brd.count] = Absent]
  /\ brd' = [brd EXCEPT !.count = @ + 1]
  /\ nuking' = TRUE
  /\ UNCHANGED <<chkpnt, settings, logged, starts>>

NukeEnds ==
  /\ At("nuke") /\ brd.count = MaxFiles
  /\ chkpnt' = NoFile
  /\ brd' = Down
  /\ nuking' = FALSE
  /\ UNCHANGED <<files, settings, logged, starts>>

Next ==
  \/ /\ UNCHANGED nuking
     /\ \/ Create \/ Recover \/ WriteSettings \/ Open \/ Count \/ Chkpnt
        \/ Log \/ RotateNext \/ RotateUnlink \/ RotateFails
        \/ \E size \in {0, 1}, force \in BOOLEAN : Rotate(size, force)
        \/ Crash \/ Destroy \/ DestroyNuke
  \/ NukeUnlinks \/ NukeEnds

Spec == Init /\ [][Next]_dvars
-----------------------------------------------------------------------------
\* The files from the one after n round to n, as bk_ringdir_filename_oldest and
\* bk_ringdir_filename_successor walk them
RoundTo(n) == [i \in 1 .. MaxFiles |-> (n + i) % MaxFiles]
ReadAll(n) == FlattenSeq([i \in 1 .. MaxFiles |-> IF Exists(RoundTo(n)[i]) THEN files[RoundTo(n)[i]] ELSE <<>>])

\* Whenever the process dies, what a reader finds on disk from the file after the
\* checkpoint's round to it is in order; and unless it died while it removed the log,
\* it is the end of it without a gap, up to the last record written.
LogIsSuffix ==
  LET c == IF chkpnt \in {NoFile, <<>>} THEN 0 ELSE chkpnt[1]
      log == ReadAll(c)
  IN /\ \A i \in 1 .. Len(log) - 1 : log[i + 1] = log[i] + 1 \/ (nuking /\ log[i + 1] > log[i])
     /\ log # <<>> => log[Len(log)] = logged \/ nuking

\* While nobody dies, a file is given up when its turn comes to be written again, and
\* no other: those that were never written are the last.
OldestGoes ==
  At("idle") /\ starts = 1 => \A n \in Num : Exists(n) \/ \A m \in n .. MaxFiles - 1 : ~Exists(m)

\* No file outgrows the rotation size, whatever was estimated across restarts.
FilesBounded == \A n \in Num : Size(n) <= RotateSize

\* bk_ringdir_get_status of another program: the oldest file is the first after
\* the checkpoint's that exists, a missing one above that standing for all.
StatusOldest ==
  LET c == chkpnt[1]
      first == NextFile(c)
      below == {n \in 0 .. c : Exists(n) \/ n = c}
      least(S) == CHOOSE n \in S : \A m \in S : n <= m
  IN IF first > c /\ Exists(first) THEN first ELSE least(below)

\* While the log is open and not being rotated, the status names the file with
\* the oldest record, though files come and go below it; a rotation that was cut
\* short after the next file was removed leaves a gap that misleads it.
CutShort == \E n \in Num : n > chkpnt[1] + 1 /\ Exists(n) /\ ~Exists(chkpnt[1] + 1)
StatusTrue ==
  At("idle") /\ ~nuking /\ ~CutShort =>
    \A n \in Num : Size(n) > 0 /\ Size(StatusOldest) > 0 =>
      files[StatusOldest][1] <= files[n][1]

\* brd_num_files is how many files there are, "<= max_num_files".
NumFilesTrue == At("idle") => brd.num <= MaxFiles

\* A log can be continued wherever the process died: "Recover checkpoint".  It cannot
\* where it died between the creation of the checkpoint or the settings and a write.
StartsAgain == ~At("hangs") /\ ~At("refused")
=============================================================================
