---------------------------- MODULE FileHandler ----------------------------
(***************************************************************************)
(* What the file handler's thread does with the records it takes out of    *)
(* the ring (src/src/main/logmoko_file_log_handler.c): it formats them     *)
(* into a staging buffer, writes the buffer when it has no room for a      *)
(* longest line or when the ring is empty, and rotates the log file once   *)
(* it has reached max_file_size.  lmk_set_log_rotation may change the      *)
(* limits under the running thread, which reads them without the lock.     *)
(*                                                                         *)
(* The ring is the bounded queue that module Ring is proved to implement,  *)
(* and the sleep of the thread is the one module LogHandler describes: it  *)
(* ends when there is a record or a shutdown.  Sizes are bytes, scaled     *)
(* down.  fopen and rename may fail at every call, for reasons outside the *)
(* program.                                                                *)
(***************************************************************************)
EXTENDS Integers, Sequences

CONSTANTS
  RingSize,         \* slots of the ring
  WriteBufSize,     \* LMK_WRITE_BUF_SIZE
  MaxLineSize,      \* LMK_MAX_LINE_SIZE, the headroom kept for a line
  LineSizes,        \* the sizes a formatted line may have
  FileSizeLimits,   \* the values max_file_size is given
  BackupLimits,     \* the values max_backup_files is given
  MaxLines,         \* bound: records accepted by the ring
  MaxSets           \* bound: calls of lmk_set_log_rotation

ASSUME FileHandlerAssumption ==
  /\ RingSize \in Nat \ {0}
  /\ WriteBufSize \in Nat /\ MaxLineSize \in Nat
  /\ 0 < MaxLineSize /\ MaxLineSize < WriteBufSize
  /\ LineSizes \subseteq Nat \ {0}
  /\ FileSizeLimits \subseteq Nat /\ BackupLimits \subseteq Nat
  /\ MaxLines \in Nat /\ MaxSets \in Nat

VARIABLES
  queue,               \* the records in the ring, oldest first
  nr_lines,            \* history: the number of records accepted so far
  running,
  pc,                  \* where the handler's thread is
  next,                \* rotation: where it goes on afterwards
  i,                   \* rotation: the loop variable
  wbuf, wpos,          \* the staged lines, and the bytes they take
  log_fp,              \* "open" or "null"
  current_file_size,
  max_file_size, max_backup_files,
  disk,                \* the log file (0) and filename.1, .2 ..., those that exist
  failed,              \* history: an fopen or a rename has failed
  setter,              \* lmk_set_log_rotation: the limit it has still to store
  sets,                \* calls of it so far
  destroyer            \* progress of lmk_file_log_handler_destroy

staging == <<wbuf, wpos>>
limits == <<max_file_size, max_backup_files, setter, sets>>
vars == <<queue, nr_lines, running, pc, next, i, staging, log_fp, current_file_size,
          limits, disk, failed, destroyer>>

----------------------------------------------------------------------------
(* A record, and the line it becomes, is its number and its size in bytes. *)
Line == [id : Nat, size : Nat]
(* A file is the lines written to it and its size. *)
File == [lines : Seq(Line), size : Nat]
EmptyFile == [lines |-> <<>>, size |-> 0]
Ids(lines) == {lines[k].id : k \in DOMAIN lines}

FileHandlerTypeOK ==
  /\ queue \in Seq(Line) /\ Len(queue) <= RingSize
  /\ nr_lines \in 0 .. MaxLines
  /\ running \in BOOLEAN
  /\ pc \in {"drain", "format", "fclose", "rename", "fopen", "fflush", "check", "sleep",
             "exit", "exited"}
  /\ next \in {"format", "fflush"}
  /\ i \in Int
  /\ wbuf \in Seq(Line) /\ wpos \in 0 .. WriteBufSize - 1
  /\ log_fp \in {"open", "null"}
  /\ current_file_size \in Nat
  /\ max_file_size \in FileSizeLimits
  /\ max_backup_files \in BackupLimits
  /\ DOMAIN disk \subseteq Nat /\ disk \in [DOMAIN disk -> File]
  /\ failed \in BOOLEAN
  /\ setter \in {<<>>} \cup {<<b>> : b \in BackupLimits}
  /\ sets \in 0 .. MaxSets
  /\ destroyer \in {"idle", "join", "freed"}

(* lmk_get_file_log_handler and lmk_file_log_handler_init: the file is opened
   for appending, and may hold a line of an earlier run of the program. *)
FileHandlerInit ==
  /\ queue = <<>> /\ nr_lines = 0
  /\ running = TRUE
  /\ pc = "drain" /\ next = "fflush" /\ i = 0
  /\ wbuf = <<>> /\ wpos = 0
  /\ \/ /\ log_fp = "open"
        /\ disk \in [{0} -> {EmptyFile} \cup
                           {[lines |-> <<[id |-> 0, size |-> s]>>, size |-> s] : s \in LineSizes}]
        /\ current_file_size = disk[0].size
        /\ failed = FALSE
     \/ /\ log_fp = "null"
        /\ disk = <<>>
        /\ current_file_size = 0
        /\ failed = TRUE
  /\ max_file_size \in FileSizeLimits /\ max_backup_files \in BackupLimits
  /\ setter = <<>> /\ sets = 0
  /\ destroyer = "idle"

----------------------------------------------------------------------------
(* lmk_file_log_handler_log_impl: a record enters the ring, or is dropped
   because the ring is full. *)
LogImpl ==
  /\ running
  /\ nr_lines < MaxLines
  /\ Len(queue) < RingSize
  /\ \E s \in LineSizes : queue' = Append(queue, [id |-> nr_lines + 1, size |-> s])
  /\ nr_lines' = nr_lines + 1
  /\ UNCHANGED <<running, pc, next, i, staging, log_fp, current_file_size, limits, disk, failed,
                 destroyer>>

(* lmk_set_log_rotation: two plain stores.  The lock it holds keeps out another
   caller, not the handler's thread. *)
SetFileSize ==
  /\ setter = <<>> /\ sets < MaxSets /\ destroyer = "idle"
  /\ max_file_size' \in FileSizeLimits
  /\ \E b \in BackupLimits : setter' = <<b>>
  /\ sets' = sets + 1
  /\ UNCHANGED <<queue, nr_lines, running, pc, next, i, staging, log_fp, current_file_size,
                 max_backup_files, disk, failed, destroyer>>

SetBackupFiles ==
  /\ setter # <<>>
  /\ max_backup_files' = setter[1]
  /\ setter' = <<>>
  /\ UNCHANGED <<queue, nr_lines, running, pc, next, i, staging, log_fp, current_file_size,
                 max_file_size, sets, disk, failed, destroyer>>

----------------------------------------------------------------------------
(* fwrite(wbuf, 1, wpos, log_fp). *)
Written == [disk EXCEPT ![0] = [lines |-> @.lines \o wbuf, size |-> @.size + wpos]]

(* Mutant of WriteBuffer: wpos = 0 is missing. *)
WriteBufferAgain(after) ==
  /\ disk' = Written
  /\ current_file_size' = current_file_size + wpos
  /\ UNCHANGED staging
  /\ IF max_file_size > 0 /\ current_file_size' >= max_file_size
       THEN pc' = "fclose" /\ next' = after
       ELSE pc' = after /\ UNCHANGED next

(* The staging buffer is written.  The count of bytes grows by as much, and the
   thread rotates when it has reached the limit.  wbuf is emptied here rather
   than after the rotation, which does not look at it. *)
WriteBuffer(after) ==
  /\ disk' = Written
  /\ current_file_size' = current_file_size + wpos
  /\ wbuf' = <<>> /\ wpos' = 0
  /\ IF max_file_size > 0 /\ current_file_size' >= max_file_size
       THEN pc' = "fclose" /\ next' = after
       ELSE pc' = after /\ UNCHANGED next

(* Mutant of NoHeadroom: flush only a full buffer. *)
NoHeadroomAtAll == wpos + 1 >= WriteBufSize

NoHeadroom == wpos + MaxLineSize > WriteBufSize

(* Mutant of FlushForHeadroom: only the idle flush looks at the size. *)
FlushNeverRotates ==
  /\ pc = "drain"
  /\ queue # <<>> /\ log_fp = "open" /\ NoHeadroom
  /\ disk' = Written
  /\ current_file_size' = current_file_size + wpos
  /\ wbuf' = <<>> /\ wpos' = 0
  /\ pc' = "format"
  /\ UNCHANGED <<queue, nr_lines, running, next, i, log_fp, limits, failed, destroyer>>

(* The staging buffer might not take another line. *)
FlushForHeadroom ==
  /\ pc = "drain"
  /\ queue # <<>> /\ log_fp = "open" /\ NoHeadroom
  /\ WriteBuffer("format")
  /\ UNCHANGED <<queue, nr_lines, running, i, log_fp, limits, failed, destroyer>>

(* Mutant of Formatted: what snprintf would have written is taken for what it
   wrote. *)
FormattedUnclamped(line) == line

(* lmk_format_log_line returns what fits, less the closing NUL. *)
Formatted(line) ==
  LET room == WriteBufSize - wpos - 1
  IN [line EXCEPT !.size = IF @ <= room THEN @ ELSE room]

(* Format the record and consume it.  After a flush the file is not looked at
   again: a rotation that lost it still stages the line. *)
StageLine ==
  /\ \/ pc = "drain" /\ queue # <<>> /\ log_fp = "open" /\ ~NoHeadroom
     \/ pc = "format"
  /\ wbuf' = Append(wbuf, Formatted(Head(queue)))
  /\ wpos' = wpos + Formatted(Head(queue)).size
  /\ queue' = Tail(queue)
  /\ pc' = "drain"
  /\ UNCHANGED <<nr_lines, running, next, i, log_fp, current_file_size, limits, disk, failed,
                 destroyer>>

(* Mutant of SkipLine: the record is consumed only if there is a file. *)
SkipNothing ==
  /\ pc = "drain"
  /\ queue # <<>> /\ log_fp = "null"
  /\ UNCHANGED vars

(* Without a file the record is consumed and forgotten. *)
SkipLine ==
  /\ pc = "drain"
  /\ queue # <<>> /\ log_fp = "null"
  /\ queue' = Tail(queue)
  /\ UNCHANGED <<nr_lines, running, pc, next, i, staging, log_fp, current_file_size, limits, disk,
                 failed, destroyer>>

(* Mutant of IdleFlush: a nearly empty buffer is kept for the next round. *)
IdleFlushLarge ==
  /\ pc = "drain"
  /\ queue = <<>>
  /\ IF wpos >= MaxLineSize /\ log_fp = "open"
       THEN WriteBuffer("fflush")
       ELSE pc' = "check" /\ UNCHANGED <<disk, current_file_size, staging, next>>
  /\ UNCHANGED <<queue, nr_lines, running, i, log_fp, limits, failed, destroyer>>

(* The ring is empty: write what is staged. *)
IdleFlush ==
  /\ pc = "drain"
  /\ queue = <<>>
  /\ IF wpos > 0 /\ log_fp = "open"
       THEN WriteBuffer("fflush")
       ELSE pc' = "check" /\ UNCHANGED <<disk, current_file_size, staging, next>>
  /\ UNCHANGED <<queue, nr_lines, running, i, log_fp, limits, failed, destroyer>>

Fflush ==
  /\ pc = "fflush"
  /\ pc' = "check"
  /\ UNCHANGED <<queue, nr_lines, running, next, i, staging, log_fp, current_file_size, limits,
                 disk, failed, destroyer>>

----------------------------------------------------------------------------
(* Mutant of RotateClose: the loop starts one backup too low. *)
RotateFromBelow ==
  /\ pc = "fclose"
  /\ log_fp' = "null"
  /\ i' = max_backup_files - 2
  /\ pc' = "rename"
  /\ UNCHANGED <<queue, nr_lines, running, next, staging, current_file_size, limits, disk, failed,
                 destroyer>>

(* lmk_rotate_log_file. *)
RotateClose ==
  /\ pc = "fclose"
  /\ log_fp' = "null"
  /\ i' = max_backup_files - 1
  /\ pc' = "rename"
  /\ UNCHANGED <<queue, nr_lines, running, next, staging, current_file_size, limits, disk, failed,
                 destroyer>>

(* rename(from, to) replaces the target; without a source it does nothing.  What
   it returns is not looked at. *)
Rename(from, to) ==
  \/ /\ disk' = IF from \in DOMAIN disk
                  THEN [f \in (DOMAIN disk \ {from}) \cup {to} |->
                          IF f = to THEN disk[from] ELSE disk[f]]
                  ELSE disk
     /\ UNCHANGED failed
  \/ failed' = TRUE /\ UNCHANGED disk

RotateBackup ==
  /\ pc = "rename"
  /\ i >= 1
  /\ Rename(i, i + 1)
  /\ i' = i - 1
  /\ UNCHANGED <<queue, nr_lines, running, pc, next, staging, log_fp, current_file_size, limits,
                 destroyer>>

RotateCurrent ==
  /\ pc = "rename"
  /\ i < 1
  /\ IF max_backup_files > 0 THEN Rename(0, 1) ELSE UNCHANGED <<disk, failed>>
  /\ pc' = "fopen"
  /\ UNCHANGED <<queue, nr_lines, running, next, i, staging, log_fp, current_file_size, limits,
                 destroyer>>

(* fopen(filename, "wt") creates the file or truncates it. *)
Truncated == [f \in DOMAIN disk \cup {0} |-> IF f = 0 THEN EmptyFile ELSE disk[f]]

(* Mutant of RotateOpen: current_file_size = 0 is missing. *)
RotateKeepsSize ==
  /\ pc = "fopen"
  /\ \/ log_fp' = "open" /\ disk' = Truncated /\ UNCHANGED failed
     \/ failed' = TRUE /\ UNCHANGED <<log_fp, disk>>
  /\ pc' = next
  /\ UNCHANGED <<queue, nr_lines, running, next, i, staging, current_file_size, limits, destroyer>>

(* Open the log file anew. *)
RotateOpen ==
  /\ pc = "fopen"
  /\ \/ log_fp' = "open" /\ disk' = Truncated /\ UNCHANGED failed
     \/ failed' = TRUE /\ UNCHANGED <<log_fp, disk>>
  /\ current_file_size' = 0
  /\ pc' = next
  /\ UNCHANGED <<queue, nr_lines, running, next, i, staging, limits, destroyer>>

----------------------------------------------------------------------------
CheckRunning ==
  /\ pc = "check"
  /\ pc' = IF running THEN "sleep" ELSE "exit"
  /\ UNCHANGED <<queue, nr_lines, running, next, i, staging, log_fp, current_file_size, limits,
                 disk, failed, destroyer>>

Awake ==
  /\ pc = "sleep"
  /\ queue # <<>> \/ ~running
  /\ pc' = "drain"
  /\ UNCHANGED <<queue, nr_lines, running, next, i, staging, log_fp, current_file_size, limits,
                 disk, failed, destroyer>>

(* The final flush after the loop. *)
FinalFlush ==
  /\ pc = "exit"
  /\ IF wpos > 0 /\ log_fp = "open"
       THEN disk' = Written /\ wbuf' = <<>> /\ wpos' = 0
       ELSE UNCHANGED <<disk, staging>>
  /\ pc' = "exited"
  /\ UNCHANGED <<queue, nr_lines, running, next, i, log_fp, current_file_size, limits, failed,
                 destroyer>>

Rotate == RotateClose \/ RotateBackup \/ RotateCurrent \/ RotateOpen
Thread ==
  \/ FlushForHeadroom \/ StageLine \/ SkipLine \/ IdleFlush \/ Fflush
  \/ Rotate
  \/ CheckRunning \/ Awake \/ FinalFlush

(* lmk_file_log_handler_destroy: stop the thread, wait for it, close the file. *)
DestroyStop ==
  /\ destroyer = "idle" /\ setter = <<>>
  /\ running' = FALSE
  /\ destroyer' = "join"
  /\ UNCHANGED <<queue, nr_lines, pc, next, i, staging, log_fp, current_file_size, limits, disk,
                 failed>>

DestroyJoin ==
  /\ destroyer = "join" /\ pc = "exited"
  /\ log_fp' = "null"
  /\ destroyer' = "freed"
  /\ UNCHANGED <<queue, nr_lines, running, pc, next, i, staging, current_file_size, limits, disk,
                 failed>>

Gone == destroyer = "freed" /\ UNCHANGED vars

FileHandlerNext ==
  \/ LogImpl
  \/ SetFileSize \/ SetBackupFiles
  \/ Thread
  \/ DestroyStop \/ DestroyJoin \/ Gone

FileHandlerSpec == FileHandlerInit /\ [][FileHandlerNext]_vars

(* The handler's thread keeps running. *)
FairFileHandlerSpec == FileHandlerSpec /\ WF_vars(Thread)

----------------------------------------------------------------------------
(* History questions the properties below ask. *)
OnDisk == UNION {Ids(disk[f].lines) : f \in DOMAIN disk}
Kept == OnDisk \cup Ids(wbuf) \cup Ids(queue)

Increasing(lines) == \A j, k \in DOMAIN lines : j < k => lines[j].id < lines[k].id
Before(S, T) == \A a \in S, b \in T : a < b

(* However rotations, changes of the limits and failures of fopen or rename
   fall, the log reads in order and without a repetition: from the oldest
   backup to the newest, then the log file, then what is staged and what is
   still in the ring. *)
LogInOrder ==
  /\ \A f \in DOMAIN disk : Increasing(disk[f].lines)
  /\ \A f, g \in DOMAIN disk : f > g => Before(Ids(disk[f].lines), Ids(disk[g].lines))
  /\ Before(OnDisk, Ids(wbuf)) /\ Before(OnDisk \cup Ids(wbuf), Ids(queue))
  /\ Increasing(wbuf) /\ Increasing(queue)

(* As long as the limits are as they were and nothing has failed, rotation has given
   up the oldest lines only, and only once it keeps max_backup_files backups. *)
OnlyOldestLost ==
  sets = 0 /\ ~failed =>
    /\ \A k \in Kept : k .. nr_lines \subseteq Kept
    /\ 1 .. nr_lines \subseteq Kept \/ max_backup_files \in DOMAIN disk \cup {0}

(* The count of bytes that decides on rotation is the size of the open file. *)
SizeCounted == log_fp = "open" => current_file_size = disk[0].size

(* While the limits stay as they were, no file exceeds max_file_size by as
   much as a staging buffer (a file that was there before may). *)
FilesBounded ==
  sets = 0 /\ max_file_size > 0 =>
    \A f \in DOMAIN disk :
      0 \in Ids(disk[f].lines) \/ disk[f].size < max_file_size + WriteBufSize

(* The headroom test leaves room for every line shorter than
   LMK_MAX_LINE_SIZE: formatting cuts none of them off. *)
LinesWhole ==
  [][StageLine /\ Head(queue).size < MaxLineSize =>
       wbuf'[Len(wbuf')].size = Head(queue).size]_vars

(* A thread about to sleep, or gone, has nothing staged that its file could
   take. *)
NothingStagedAtRest ==
  pc \in {"check", "sleep", "exit", "exited"} /\ log_fp = "open" => wbuf = <<>>

(* Every record leaves the ring while the handler runs, whether or not the file
   can be opened: a file lost in a rotation does not become a full ring. *)
RingDrained ==
  \A n \in 1 .. MaxLines : n \in Ids(queue) ~> n \notin Ids(queue) \/ ~running

----------------------------------------------------------------------------
(* The invariants above as one that every step preserves. *)

(* wpos tells whether something is staged.  The buffer has been emptied before
   the thread rotates, and is empty when it comes back; the record for which it
   flushed is still in the ring. *)
StageInv ==
  /\ wpos = 0 <=> wbuf = <<>>
  /\ \A k \in DOMAIN queue : queue[k].size > 0
  /\ pc \in {"format", "fclose", "rename", "fopen", "fflush"} => wpos = 0
  /\ pc \in {"fclose", "rename", "fopen"} /\ next = "format" => queue # <<>>
  /\ pc = "format" => queue # <<>>
  /\ NothingStagedAtRest

(* The stream is open on a file that exists, and on none during the renames. *)
OpenInv ==
  /\ log_fp = "open" => 0 \in DOMAIN disk
  /\ pc \in {"rename", "fopen"} => log_fp = "null"
  /\ SizeCounted

(* No line has a number that was not given out. *)
OrderInv == Kept \subseteq 0 .. nr_lines /\ LogInOrder

(* A file this program wrote has reached its limit only when the thread is about
   to rotate it. *)
BoundInv ==
  /\ FilesBounded
  /\ sets = 0 /\ max_file_size > 0 /\ log_fp = "open" /\ pc # "fclose" =>
       0 \in Ids(disk[0].lines) \/ current_file_size < max_file_size

(* As long as the limits are as they were and nothing has failed, each rename but the
   first finds its target gone, and fopen creates the file. *)
LossInv ==
  /\ sets = 0 => setter = <<>>
  /\ sets = 0 /\ ~failed =>
       /\ DOMAIN disk \subseteq 0 .. max_backup_files
       /\ log_fp = "null" => pc \in {"rename", "fopen", "exited"}
       /\ pc = "rename" =>
            /\ i < max_backup_files /\ (i >= 0 \/ max_backup_files = 0)
            /\ i < max_backup_files - 1 => i + 1 \notin DOMAIN disk
       /\ pc = "fopen" /\ max_backup_files > 0 => 0 \notin DOMAIN disk
  /\ OnlyOldestLost

FileInv == FileHandlerTypeOK /\ StageInv /\ OpenInv /\ OrderInv /\ BoundInv /\ LossInv
============================================================================
