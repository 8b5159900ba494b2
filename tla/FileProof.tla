----------------------------- MODULE FileProof ------------------------------
(***************************************************************************)
(* Proofs about module FileHandler, for every size of the ring, of the     *)
(* staging buffer, of a line and of a file, for every change of the limits *)
(* and for every failure of fopen and rename.  FileInv is inductive; the   *)
(* properties of the log are read off it.                                  *)
(***************************************************************************)
EXTENDS FileHandler, SequenceTheorems, TLAPS

----------------------------------------------------------------------------
(* Numbers of lines, and order, under the three things that are done to a
   sequence of lines: appending one, appending several, removing the first. *)

LEMMA IdsAppend ==
  ASSUME NEW s \in Seq(Line), NEW x \in Line
  PROVE  Ids(Append(s, x)) = Ids(s) \cup {x.id}
<1>1. /\ Append(s, x) \in Seq(Line) /\ Len(Append(s, x)) = Len(s) + 1
      /\ \A k \in 1 .. Len(s) : Append(s, x)[k] = s[k]
      /\ Append(s, x)[Len(s) + 1] = x
  BY AppendProperties
<1>2. DOMAIN Append(s, x) = (DOMAIN s) \cup {Len(s) + 1} /\ DOMAIN s = 1 .. Len(s)
  BY <1>1, LenProperties
<1> QED BY <1>1, <1>2 DEF Ids

LEMMA IdsConcat ==
  ASSUME NEW s \in Seq(Line), NEW t \in Seq(Line)
  PROVE  Ids(s \o t) = Ids(s) \cup Ids(t)
<1>1. /\ s \o t \in Seq(Line) /\ Len(s \o t) = Len(s) + Len(t)
      /\ \A k \in 1 .. Len(s) + Len(t) :
           (s \o t)[k] = IF k <= Len(s) THEN s[k] ELSE t[k - Len(s)]
  BY ConcatProperties
<1>2. /\ DOMAIN (s \o t) = 1 .. Len(s) + Len(t)
      /\ DOMAIN s = 1 .. Len(s) /\ DOMAIN t = 1 .. Len(t)
      /\ Len(s) \in Nat /\ Len(t) \in Nat
  BY <1>1, LenProperties
<1>3. ASSUME NEW n \in Ids(s \o t) PROVE n \in Ids(s) \cup Ids(t)
  <2>1. PICK k \in DOMAIN (s \o t) : n = (s \o t)[k].id
    BY DEF Ids
  <2>2. CASE k <= Len(s)
    BY <1>1, <1>2, <2>1, <2>2 DEF Ids
  <2>3. CASE k > Len(s)
    <3>1. k - Len(s) \in DOMAIN t /\ n = t[k - Len(s)].id
      BY <1>1, <1>2, <2>1, <2>3
    <3> QED BY <3>1 DEF Ids
  <2> QED BY <1>2, <2>1, <2>2, <2>3
<1>4. ASSUME NEW n \in Ids(s) PROVE n \in Ids(s \o t)
  <2>1. PICK k \in DOMAIN s : n = s[k].id
    BY DEF Ids
  <2>2. k \in DOMAIN (s \o t) /\ n = (s \o t)[k].id
    BY <1>1, <1>2, <2>1
  <2> QED BY <2>2 DEF Ids
<1>5. ASSUME NEW n \in Ids(t) PROVE n \in Ids(s \o t)
  <2>1. PICK k \in DOMAIN t : n = t[k].id
    BY DEF Ids
  <2>2. k + Len(s) \in DOMAIN (s \o t) /\ n = (s \o t)[k + Len(s)].id
    BY <1>1, <1>2, <2>1
  <2> QED BY <2>2 DEF Ids
<1> QED BY <1>3, <1>4, <1>5

LEMMA IdsTail ==
  ASSUME NEW s \in Seq(Line), s # <<>>
  PROVE  /\ Head(s) \in Line /\ Tail(s) \in Seq(Line)
         /\ Ids(s) = {Head(s).id} \cup Ids(Tail(s))
<1>1. /\ Head(s) = s[1] /\ s[1] \in Line /\ Tail(s) \in Seq(Line)
      /\ Len(Tail(s)) = Len(s) - 1 /\ Len(s) \in Nat /\ Len(s) > 0
      /\ \A k \in 1 .. Len(Tail(s)) : Tail(s)[k] = s[k + 1]
  BY HeadTailProperties, LenProperties, EmptySeq
<1>2. DOMAIN s = 1 .. Len(s) /\ DOMAIN Tail(s) = 1 .. Len(s) - 1
  BY <1>1, LenProperties
<1>3. ASSUME NEW n \in Ids(s) PROVE n = Head(s).id \/ n \in Ids(Tail(s))
  <2>1. PICK k \in DOMAIN s : n = s[k].id
    BY DEF Ids
  <2>2. CASE k = 1
    BY <1>1, <2>1, <2>2
  <2>3. CASE k > 1
    <3>1. k - 1 \in DOMAIN Tail(s) /\ Tail(s)[k - 1] = s[k]
      BY <1>1, <1>2, <2>3
    <3> QED BY <2>1, <3>1 DEF Ids
  <2> QED BY <1>2, <2>2, <2>3
<1>4. ASSUME NEW n \in Ids(Tail(s)) PROVE n \in Ids(s)
  <2>1. PICK k \in DOMAIN Tail(s) : n = Tail(s)[k].id
    BY DEF Ids
  <2>2. k + 1 \in DOMAIN s /\ n = s[k + 1].id
    BY <1>1, <1>2, <2>1
  <2> QED BY <2>2 DEF Ids
<1>5. Head(s).id \in Ids(s)
  BY <1>1, <1>2 DEF Ids
<1> QED BY <1>1, <1>3, <1>4, <1>5

LEMMA IdsNone == Ids(<<>>) = {} /\ Increasing(<<>>)
  BY DEF Ids, Increasing

LEMMA IdsNat ==
  ASSUME NEW s \in Seq(Line)
  PROVE  Ids(s) \subseteq Nat
<1>1. \A k \in DOMAIN s : s[k] \in Line
  BY ElementOfSeq, LenProperties
<1> QED BY <1>1 DEF Ids, Line

LEMMA IncreasingAppend ==
  ASSUME NEW s \in Seq(Line), NEW x \in Line, Increasing(s), Before(Ids(s), {x.id})
  PROVE  Increasing(Append(s, x))
<1>1. /\ Append(s, x) \in Seq(Line) /\ Len(Append(s, x)) = Len(s) + 1
      /\ \A k \in 1 .. Len(s) : Append(s, x)[k] = s[k]
      /\ Append(s, x)[Len(s) + 1] = x
  BY AppendProperties
<1>2. DOMAIN Append(s, x) = 1 .. Len(s) + 1 /\ DOMAIN s = 1 .. Len(s) /\ Len(s) \in Nat
  BY <1>1, LenProperties
<1>3. \A k \in 1 .. Len(s) : s[k].id < x.id
  BY <1>2 DEF Before, Ids
<1> QED BY <1>1, <1>2, <1>3 DEF Increasing

LEMMA IncreasingConcat ==
  ASSUME NEW s \in Seq(Line), NEW t \in Seq(Line),
         Increasing(s), Increasing(t), Before(Ids(s), Ids(t))
  PROVE  Increasing(s \o t)
<1>1. /\ s \o t \in Seq(Line) /\ Len(s \o t) = Len(s) + Len(t)
      /\ \A k \in 1 .. Len(s) + Len(t) :
           (s \o t)[k] = IF k <= Len(s) THEN s[k] ELSE t[k - Len(s)]
  BY ConcatProperties
<1>2. /\ DOMAIN (s \o t) = 1 .. Len(s) + Len(t)
      /\ DOMAIN s = 1 .. Len(s) /\ DOMAIN t = 1 .. Len(t)
      /\ Len(s) \in Nat /\ Len(t) \in Nat
  BY <1>1, LenProperties
<1>3. \A j \in DOMAIN s, k \in DOMAIN t : s[j].id < t[k].id
  BY DEF Before, Ids
<1>4. SUFFICES ASSUME NEW j \in DOMAIN (s \o t), NEW k \in DOMAIN (s \o t), j < k
               PROVE  (s \o t)[j].id < (s \o t)[k].id
  BY DEF Increasing
<1>5. CASE k <= Len(s)
  BY <1>1, <1>2, <1>4, <1>5 DEF Increasing
<1>6. CASE j <= Len(s) /\ k > Len(s)
  <2>1. j \in DOMAIN s /\ k - Len(s) \in DOMAIN t
    BY <1>2, <1>4, <1>6
  <2> QED BY <1>1, <1>2, <1>3, <1>6, <2>1
<1>7. CASE j > Len(s)
  <2>1. /\ j - Len(s) \in DOMAIN t /\ k - Len(s) \in DOMAIN t /\ j - Len(s) < k - Len(s)
        /\ (s \o t)[j] = t[j - Len(s)] /\ (s \o t)[k] = t[k - Len(s)]
    BY <1>1, <1>2, <1>4, <1>7
  <2> QED BY <2>1 DEF Increasing
<1> QED BY <1>2, <1>5, <1>6, <1>7

LEMMA IncreasingTail ==
  ASSUME NEW s \in Seq(Line), s # <<>>, Increasing(s)
  PROVE  Increasing(Tail(s)) /\ Before({Head(s).id}, Ids(Tail(s)))
<1>1. /\ Head(s) = s[1] /\ Tail(s) \in Seq(Line)
      /\ Len(Tail(s)) = Len(s) - 1 /\ Len(s) \in Nat /\ Len(s) > 0
      /\ \A k \in 1 .. Len(Tail(s)) : Tail(s)[k] = s[k + 1]
  BY HeadTailProperties, LenProperties, EmptySeq
<1>2. DOMAIN s = 1 .. Len(s) /\ DOMAIN Tail(s) = 1 .. Len(s) - 1
  BY <1>1, LenProperties
<1>3. \A k \in DOMAIN Tail(s) : Tail(s)[k] = s[k + 1] /\ s[1].id < s[k + 1].id
  BY <1>1, <1>2 DEF Increasing
<1>4. Increasing(Tail(s))
  BY <1>1, <1>2 DEF Increasing
<1> QED BY <1>1, <1>3, <1>4 DEF Before, Ids

----------------------------------------------------------------------------
(* What the file operations do to the files. *)

DiskTypeOK == DOMAIN disk \subseteq Nat /\ disk \in [DOMAIN disk -> File]

LEMMA FileParts ==
  ASSUME DiskTypeOK, NEW f \in DOMAIN disk
  PROVE  f \in Nat /\ disk[f] \in File /\ disk[f].lines \in Seq(Line) /\ disk[f].size \in Nat
  BY DEF DiskTypeOK, File

(* fwrite changes the log file only. *)
LEMMA WrittenFiles ==
  ASSUME DiskTypeOK, wbuf \in Seq(Line), wpos \in Nat, disk' = Written
  PROVE  /\ DiskTypeOK' /\ DOMAIN disk' = DOMAIN disk
         /\ \A f \in DOMAIN disk \ {0} : disk'[f] = disk[f]
         /\ 0 \in DOMAIN disk =>
              /\ disk'[0].lines = disk[0].lines \o wbuf
              /\ disk'[0].size = disk[0].size + wpos
<1>1. /\ DOMAIN disk' = DOMAIN disk
      /\ \A f \in DOMAIN disk \ {0} : disk'[f] = disk[f]
      /\ 0 \in DOMAIN disk =>
           disk'[0] = [lines |-> disk[0].lines \o wbuf, size |-> disk[0].size + wpos]
  BY DEF Written, DiskTypeOK
<1>2. ASSUME 0 \in DOMAIN disk
      PROVE  disk[0].lines \o wbuf \in Seq(Line) /\ disk[0].size + wpos \in Nat
  BY <1>2, FileParts, ConcatProperties
<1>3. \A f \in DOMAIN disk : disk'[f] \in File
  <2>1. \A l \in Seq(Line), n \in Nat : [lines |-> l, size |-> n] \in File
    BY DEF File
  <2>2. 0 \in DOMAIN disk => disk'[0] \in File
    BY <1>1, <1>2, <2>1
  <2>3. \A f \in DOMAIN disk \ {0} : disk'[f] \in File
    BY <1>1 DEF DiskTypeOK
  <2> QED BY <2>2, <2>3
<1>4. disk' \in [DOMAIN disk' -> File]
  BY <1>1, <1>3 DEF Written
<1> QED BY <1>1, <1>4 DEF DiskTypeOK

(* rename gives the target's name to the source, or fails to. *)
LEMMA RenamedFiles ==
  ASSUME DiskTypeOK, NEW from \in Nat, NEW to \in Nat, from # to, Rename(from, to)
  PROVE  /\ DiskTypeOK'
         /\ \/ disk' = disk /\ (failed' \/ from \notin DOMAIN disk)
            \/ /\ from \in DOMAIN disk
               /\ DOMAIN disk' = (DOMAIN disk \ {from}) \cup {to}
               /\ disk'[to] = disk[from]
               /\ \A f \in DOMAIN disk' \ {to} : disk'[f] = disk[f]
<1>1. CASE disk' = disk /\ (failed' \/ from \notin DOMAIN disk)
  BY <1>1 DEF DiskTypeOK
<1>2. CASE /\ from \in DOMAIN disk
           /\ disk' = [f \in (DOMAIN disk \ {from}) \cup {to} |->
                         IF f = to THEN disk[from] ELSE disk[f]]
  BY <1>2 DEF DiskTypeOK
<1> QED BY <1>1, <1>2 DEF Rename

(* fopen for writing leaves an empty log file and the backups. *)
LEMMA TruncatedFiles ==
  ASSUME DiskTypeOK, disk' = Truncated
  PROVE  /\ DiskTypeOK' /\ DOMAIN disk' = DOMAIN disk \cup {0}
         /\ disk'[0] = EmptyFile
         /\ \A f \in DOMAIN disk \ {0} : disk'[f] = disk[f]
<1>1. EmptyFile \in File
  BY EmptySeq DEF EmptyFile, File
<1> QED BY <1>1 DEF Truncated, DiskTypeOK

----------------------------------------------------------------------------
(* Types. *)

LEMMA InitType == FileHandlerInit => FileHandlerTypeOK
<1> SUFFICES ASSUME FileHandlerInit PROVE FileHandlerTypeOK
  OBVIOUS
<1>1. EmptyFile \in File
  BY EmptySeq DEF EmptyFile, File
<1>2. ASSUME NEW s \in LineSizes
      PROVE  [lines |-> <<[id |-> 0, size |-> s]>>, size |-> s] \in File
  BY FileHandlerAssumption DEF File, Line
<1>3. disk \in [DOMAIN disk -> File] /\ DOMAIN disk \subseteq Nat /\ current_file_size \in Nat
  <2>1. CASE disk \in [{0} -> {EmptyFile} \cup
                          {[lines |-> <<[id |-> 0, size |-> s]>>, size |-> s] : s \in LineSizes}]
             /\ current_file_size = disk[0].size
    <3>1. disk \in [{0} -> File]
      BY <1>1, <1>2, <2>1
    <3> QED BY <2>1, <3>1 DEF File
  <2>2. CASE disk = <<>> /\ current_file_size = 0
    BY <2>2
  <2> QED BY <2>1, <2>2 DEF FileHandlerInit
<1>4. queue \in Seq(Line) /\ Len(queue) <= RingSize /\ wbuf \in Seq(Line)
  BY EmptySeq, FileHandlerAssumption DEF FileHandlerInit
<1>5. nr_lines \in 0 .. MaxLines /\ sets \in 0 .. MaxSets /\ wpos \in 0 .. WriteBufSize - 1
  BY FileHandlerAssumption DEF FileHandlerInit
<1>6. failed \in BOOLEAN
  BY Zenon DEF FileHandlerInit
<1> QED BY <1>3, <1>4, <1>5, <1>6 DEF FileHandlerInit, FileHandlerTypeOK

(* A staged line leaves room for the closing NUL. *)
LEMMA FormattedLine ==
  ASSUME FileHandlerTypeOK, NEW x \in Line
  PROVE  /\ Formatted(x) \in Line /\ Formatted(x).id = x.id
         /\ wpos + Formatted(x).size \in 0 .. WriteBufSize - 1
         /\ Formatted(x).size = x.size \/ Formatted(x).size = WriteBufSize - wpos - 1
         /\ x.size <= WriteBufSize - wpos - 1 => Formatted(x).size = x.size
<1>1. wpos \in 0 .. WriteBufSize - 1 /\ WriteBufSize \in Nat
  BY FileHandlerAssumption DEF FileHandlerTypeOK
<1> QED BY <1>1 DEF Formatted, Line

(* A record is there to be formatted. *)
LEMMA StageGuard == FileHandlerTypeOK /\ StageInv /\ StageLine => queue # <<>>
  BY DEF StageLine, StageInv

(* The ring takes a line with the next number. *)
LEMMA AcceptedLine ==
  ASSUME FileHandlerTypeOK, LogImpl
  PROVE  \E x \in Line : /\ queue' = Append(queue, x)
                          /\ x.id = nr_lines + 1 /\ x.size > 0
<1>1. PICK s \in LineSizes : queue' = Append(queue, [id |-> nr_lines + 1, size |-> s])
  BY Zenon DEF LogImpl
<1>2. nr_lines + 1 \in Nat /\ s \in Nat /\ s > 0
  <2>1. nr_lines \in 0 .. MaxLines
    BY Zenon DEF FileHandlerTypeOK
  <2>2. nr_lines + 1 \in Nat
    BY <2>1
  <2>3. s \in Nat \ {0}
    BY FileHandlerAssumption, Zenon
  <2> QED BY <2>2, <2>3
<1>3. [id |-> nr_lines + 1, size |-> s] \in Line
  BY <1>2 DEF Line
<1> QED BY <1>1, <1>2, <1>3

LEMMA TypeStep == FileHandlerTypeOK /\ StageInv /\ [FileHandlerNext]_vars => FileHandlerTypeOK'
<1> SUFFICES ASSUME FileHandlerTypeOK, StageInv, [FileHandlerNext]_vars PROVE FileHandlerTypeOK'
  OBVIOUS
<1> USE FileHandlerAssumption
<1>0. DiskTypeOK /\ wbuf \in Seq(Line) /\ wpos \in Nat /\ current_file_size + wpos \in Nat
  <2>1. /\ DiskTypeOK /\ wbuf \in Seq(Line)
        /\ wpos \in 0 .. WriteBufSize - 1 /\ current_file_size \in Nat
    BY Zenon DEF FileHandlerTypeOK, DiskTypeOK
  <2> QED BY <2>1
<1>1. CASE LogImpl
  <2>1. PICK x \in Line : queue' = Append(queue, x)
    BY <1>1, AcceptedLine
  <2>2. queue \in Seq(Line) /\ Len(queue) < RingSize /\ nr_lines' = nr_lines + 1
        /\ nr_lines \in 0 .. MaxLines /\ nr_lines < MaxLines
    BY <1>1, Zenon DEF FileHandlerTypeOK, LogImpl
  <2>3. queue' \in Seq(Line) /\ Len(queue') <= RingSize
    BY <2>1, <2>2, AppendProperties, LenProperties
  <2>4. nr_lines' \in 0 .. MaxLines
    BY <2>2
  <2> QED BY <1>1, <2>3, <2>4 DEF LogImpl, FileHandlerTypeOK, limits, staging
<1>2. CASE SetFileSize
  <2>1. sets' \in 0 .. MaxSets
    <3>1. sets \in 0 .. MaxSets /\ sets < MaxSets /\ sets' = sets + 1
      BY <1>2, Zenon DEF SetFileSize, FileHandlerTypeOK
    <3> QED BY <3>1
  <2>2. setter' \in {<<>>} \cup {<<b>> : b \in BackupLimits} /\ max_file_size' \in FileSizeLimits
    BY <1>2, Zenon DEF SetFileSize
  <2> QED BY <1>2, <2>1, <2>2 DEF SetFileSize, FileHandlerTypeOK, staging
<1>3. CASE SetBackupFiles
  <2>1. max_backup_files' \in BackupLimits /\ setter' = <<>>
    BY <1>3 DEF SetBackupFiles, FileHandlerTypeOK
  <2> QED BY <1>3, <2>1 DEF SetBackupFiles, FileHandlerTypeOK, staging
<1>4. ASSUME disk' = Written, current_file_size' \in Nat, wbuf' = <<>>, wpos' = 0,
             next' \in {"format", "fflush"},
             pc' \in {"fclose", "format", "fflush", "exited"},
             UNCHANGED <<queue, nr_lines, running, i, log_fp, limits, failed, destroyer>>
      PROVE  FileHandlerTypeOK'
  <2>1. DiskTypeOK'
    BY <1>0, <1>4, WrittenFiles
  <2>2. wbuf' \in Seq(Line) /\ wpos' \in 0 .. WriteBufSize - 1
    BY <1>4, EmptySeq
  <2> QED BY <1>4, <2>1, <2>2 DEF FileHandlerTypeOK, DiskTypeOK, limits
<1>5. CASE FlushForHeadroom
  BY <1>0, <1>4, <1>5 DEF FlushForHeadroom, WriteBuffer, FileHandlerTypeOK
<1>6. CASE StageLine
  <2>1. Head(queue) \in Line /\ Tail(queue) \in Seq(Line) /\ Len(Tail(queue)) <= RingSize
    BY <1>6, StageGuard, HeadTailProperties, LenProperties DEF FileHandlerTypeOK
  <2>2. wbuf' \in Seq(Line) /\ wpos' \in 0 .. WriteBufSize - 1
    BY <1>0, <1>6, <2>1, FormattedLine, AppendProperties DEF StageLine
  <2> QED BY <1>6, <2>1, <2>2 DEF StageLine, FileHandlerTypeOK, limits
<1>7. CASE SkipLine
  <2>1. Tail(queue) \in Seq(Line) /\ Len(Tail(queue)) <= RingSize
    BY <1>7, HeadTailProperties, LenProperties DEF SkipLine, FileHandlerTypeOK
  <2> QED BY <1>7, <2>1 DEF SkipLine, FileHandlerTypeOK, limits, staging
<1>8. CASE IdleFlush
  <2>1. CASE WriteBuffer("fflush")
    BY <1>0, <1>4, <1>8, <2>1 DEF IdleFlush, WriteBuffer, FileHandlerTypeOK
  <2>2. CASE pc' = "check" /\ UNCHANGED <<disk, current_file_size, staging, next>>
    BY <1>8, <2>2 DEF IdleFlush, FileHandlerTypeOK, limits, staging
  <2> QED BY <1>8, <2>1, <2>2 DEF IdleFlush
<1>9. CASE Fflush \/ CheckRunning \/ Awake
  BY <1>9 DEF Fflush, CheckRunning, Awake, FileHandlerTypeOK, limits, staging
<1>10. CASE RotateClose
  BY <1>10 DEF RotateClose, FileHandlerTypeOK, limits, staging
<1>11. CASE RotateBackup
  <2>1. DiskTypeOK'
    <3>1. i \in Nat /\ i + 1 \in Nat /\ i # i + 1
      <4>1. i \in Int /\ i >= 1
        BY <1>11, Zenon DEF RotateBackup, FileHandlerTypeOK
      <4> QED BY <4>1
    <3> QED BY <1>0, <1>11, <3>1, RenamedFiles DEF RotateBackup
  <2>2. i' \in Int
    BY <1>11 DEF RotateBackup, FileHandlerTypeOK
  <2>3. failed' \in BOOLEAN
    BY <1>11, Zenon DEF RotateBackup, Rename, FileHandlerTypeOK
  <2> QED BY <1>11, <2>1, <2>2, <2>3 DEF RotateBackup, FileHandlerTypeOK, DiskTypeOK, limits, staging
<1>12. CASE RotateCurrent
  <2>1. DiskTypeOK'
    <3>1. CASE Rename(0, 1)
      <4>1. 0 \in Nat /\ 1 \in Nat /\ 0 # 1
        OBVIOUS
      <4> QED BY <1>0, <3>1, <4>1, RenamedFiles, Zenon
    <3>2. CASE UNCHANGED disk
      BY <1>0, <3>2 DEF DiskTypeOK
    <3> QED BY <1>12, <3>1, <3>2 DEF RotateCurrent
  <2>2. failed' \in BOOLEAN
    BY <1>12, Zenon DEF RotateCurrent, Rename, FileHandlerTypeOK
  <2> QED BY <1>12, <2>1, <2>2 DEF RotateCurrent, FileHandlerTypeOK, DiskTypeOK, limits, staging
<1>13. CASE RotateOpen
  <2>1. DiskTypeOK'
    BY <1>0, <1>13, TruncatedFiles DEF RotateOpen, DiskTypeOK
  <2> QED BY <1>13, <2>1 DEF RotateOpen, FileHandlerTypeOK, DiskTypeOK, limits, staging
<1>14. CASE FinalFlush
  <2>1. CASE disk' = Written /\ wbuf' = <<>> /\ wpos' = 0
    BY <1>4, <1>14, <2>1 DEF FinalFlush, FileHandlerTypeOK
  <2>2. CASE UNCHANGED <<disk, staging>>
    BY <1>14, <2>2 DEF FinalFlush, FileHandlerTypeOK, limits, staging
  <2> QED BY <1>14, <2>1, <2>2 DEF FinalFlush
<1>15. CASE DestroyStop \/ DestroyJoin
  BY <1>15 DEF DestroyStop, DestroyJoin, FileHandlerTypeOK, limits, staging
<1>16. CASE UNCHANGED vars
  BY <1>16 DEF vars, FileHandlerTypeOK, limits, staging
<1> QED
  BY <1>1, <1>2, <1>3, <1>5, <1>6, <1>7, <1>8, <1>9, <1>10, <1>11, <1>12, <1>13, <1>14, <1>15, <1>16
  DEF FileHandlerNext, Thread, Rotate, Gone

----------------------------------------------------------------------------
(* The staging buffer. *)

LEMMA InitStage == FileHandlerInit => StageInv
  BY DEF FileHandlerInit, StageInv, NothingStagedAtRest

(* Appending to the ring or removing from it keeps lines that are not empty. *)
LEMMA SizedAppend ==
  ASSUME NEW s \in Seq(Line), NEW x \in Line, x.size > 0, \A k \in DOMAIN s : s[k].size > 0
  PROVE  Append(s, x) # <<>> /\ \A k \in DOMAIN Append(s, x) : Append(s, x)[k].size > 0
<1>1. /\ Append(s, x) # <<>> /\ Append(s, x) \in Seq(Line) /\ Len(Append(s, x)) = Len(s) + 1
      /\ \A k \in 1 .. Len(s) : Append(s, x)[k] = s[k]
      /\ Append(s, x)[Len(s) + 1] = x
  BY AppendProperties
<1>2. DOMAIN Append(s, x) = (DOMAIN s) \cup {Len(s) + 1} /\ DOMAIN s = 1 .. Len(s)
  BY <1>1, LenProperties
<1> QED BY <1>1, <1>2

LEMMA SizedTail ==
  ASSUME NEW s \in Seq(Line), s # <<>>, \A k \in DOMAIN s : s[k].size > 0
  PROVE  Head(s).size > 0 /\ \A k \in DOMAIN Tail(s) : Tail(s)[k].size > 0
<1>1. /\ Head(s) = s[1] /\ Tail(s) \in Seq(Line)
      /\ Len(Tail(s)) = Len(s) - 1 /\ Len(s) \in Nat /\ Len(s) > 0
      /\ \A k \in 1 .. Len(Tail(s)) : Tail(s)[k] = s[k + 1]
  BY HeadTailProperties, LenProperties, EmptySeq
<1>2. DOMAIN s = 1 .. Len(s) /\ DOMAIN Tail(s) = 1 .. Len(s) - 1
  BY <1>1, LenProperties
<1> QED BY <1>1, <1>2

LEMMA StageStep ==
  FileHandlerTypeOK /\ StageInv /\ OpenInv /\ [FileHandlerNext]_vars => StageInv'
<1> SUFFICES ASSUME FileHandlerTypeOK, StageInv, OpenInv, [FileHandlerNext]_vars PROVE StageInv'
  OBVIOUS
<1>1. CASE LogImpl
  <2>1. queue' # <<>> /\ \A k \in DOMAIN queue' : queue'[k].size > 0
    <3>1. PICK x \in Line : queue' = Append(queue, x) /\ x.size > 0
      BY <1>1, AcceptedLine
    <3> QED BY <3>1, SizedAppend DEF FileHandlerTypeOK, StageInv
  <2> QED BY <1>1, <2>1 DEF LogImpl, StageInv, NothingStagedAtRest, staging
<1>2. CASE SetFileSize \/ SetBackupFiles
  BY <1>2 DEF SetFileSize, SetBackupFiles, StageInv, NothingStagedAtRest, staging
<1>3. CASE FlushForHeadroom
  BY <1>3 DEF FlushForHeadroom, WriteBuffer, StageInv, NothingStagedAtRest
<1>4. CASE StageLine
  <2>1. /\ queue \in Seq(Line) /\ queue # <<>> /\ Head(queue) \in Line /\ wbuf \in Seq(Line)
        /\ Head(queue).size > 0 /\ \A k \in DOMAIN queue' : queue'[k].size > 0
    BY <1>4, StageGuard, SizedTail, HeadTailProperties DEF StageLine, FileHandlerTypeOK, StageInv
  <2>2. wpos' > 0
    <3>1. PICK n : n = Formatted(Head(queue)).size
      OBVIOUS
    <3>2. n \in Nat
      BY <2>1, <3>1, FormattedLine DEF Line
    <3>3. n = Head(queue).size \/ n = WriteBufSize - wpos - 1
      BY <2>1, <3>1, FormattedLine
    <3>4. wpos \in Nat /\ WriteBufSize \in Nat /\ WriteBufSize > 1
      BY FileHandlerAssumption DEF FileHandlerTypeOK
    <3>5. wpos' = wpos + n
      BY <1>4, <3>1 DEF StageLine
    <3> QED BY <2>1, <3>2, <3>3, <3>4, <3>5
  <2>3. wbuf' # <<>> /\ pc' = "drain"
    BY <1>4, <2>1, FormattedLine, AppendProperties DEF StageLine
  <2> QED BY <2>1, <2>2, <2>3 DEF StageInv, NothingStagedAtRest
<1>5. CASE SkipLine
  <2>1. \A k \in DOMAIN queue' : queue'[k].size > 0
    BY <1>5, SizedTail DEF SkipLine, FileHandlerTypeOK, StageInv
  <2> QED BY <1>5, <2>1 DEF SkipLine, StageInv, NothingStagedAtRest, staging
<1>6. CASE IdleFlush
  <2>1. wpos \in Nat
    BY DEF FileHandlerTypeOK
  <2> QED BY <1>6, <2>1 DEF IdleFlush, WriteBuffer, StageInv, NothingStagedAtRest, staging
<1>7. CASE Fflush \/ CheckRunning \/ Awake
  BY <1>7 DEF Fflush, CheckRunning, Awake, StageInv, NothingStagedAtRest, staging
<1>8. CASE RotateClose \/ RotateBackup \/ RotateCurrent
  BY <1>8 DEF RotateClose, RotateBackup, RotateCurrent, StageInv, NothingStagedAtRest, staging
<1>9. CASE RotateOpen
  BY <1>9 DEF RotateOpen, StageInv, NothingStagedAtRest, FileHandlerTypeOK, staging
<1>10. CASE FinalFlush
  BY <1>10 DEF FinalFlush, StageInv, NothingStagedAtRest, staging
<1>11. CASE DestroyStop \/ DestroyJoin
  BY <1>11 DEF DestroyStop, DestroyJoin, StageInv, NothingStagedAtRest, staging
<1>12. CASE UNCHANGED vars
  BY <1>12 DEF vars, StageInv, NothingStagedAtRest, staging
<1> QED
  BY <1>1, <1>2, <1>3, <1>4, <1>5, <1>6, <1>7, <1>8, <1>9, <1>10, <1>11, <1>12
  DEF FileHandlerNext, Thread, Rotate, Gone

----------------------------------------------------------------------------
(* The open file and its size. *)

LEMMA InitOpen == FileHandlerInit => OpenInv
  BY DEF FileHandlerInit, OpenInv, SizeCounted

LEMMA OpenStep ==
  FileHandlerTypeOK /\ StageInv /\ OpenInv /\ [FileHandlerNext]_vars => OpenInv'
<1> SUFFICES ASSUME FileHandlerTypeOK, StageInv, OpenInv, [FileHandlerNext]_vars PROVE OpenInv'
  OBVIOUS
<1>0. DiskTypeOK /\ wbuf \in Seq(Line) /\ wpos \in Nat
  BY DEF FileHandlerTypeOK, DiskTypeOK
<1>1. ASSUME log_fp = "open", disk' = Written, current_file_size' = current_file_size + wpos,
             log_fp' = log_fp, pc' \notin {"rename", "fopen"}
      PROVE  OpenInv'
  <2>1. 0 \in DOMAIN disk' /\ disk'[0].size = disk[0].size + wpos
    BY <1>0, <1>1, WrittenFiles DEF OpenInv
  <2> QED BY <1>1, <2>1 DEF OpenInv, SizeCounted
<1>2. CASE LogImpl \/ SetFileSize \/ SetBackupFiles \/ DestroyStop
  BY <1>2 DEF LogImpl, SetFileSize, SetBackupFiles, DestroyStop, OpenInv, SizeCounted
<1>3. CASE FlushForHeadroom
  BY <1>1, <1>3 DEF FlushForHeadroom, WriteBuffer
<1>4. CASE StageLine \/ SkipLine \/ Fflush \/ CheckRunning \/ Awake
  BY <1>4 DEF StageLine, SkipLine, Fflush, CheckRunning, Awake, OpenInv, SizeCounted
<1>5. CASE IdleFlush
  <2>1. CASE log_fp = "open" /\ WriteBuffer("fflush")
    BY <1>1, <1>5, <2>1 DEF IdleFlush, WriteBuffer
  <2>2. CASE pc' = "check" /\ UNCHANGED <<disk, current_file_size, staging, next>>
    BY <1>5, <2>2 DEF IdleFlush, OpenInv, SizeCounted
  <2> QED BY <1>5, <2>1, <2>2 DEF IdleFlush
<1>6. CASE RotateClose \/ RotateBackup \/ RotateCurrent
  BY <1>6 DEF RotateClose, RotateBackup, RotateCurrent, OpenInv, SizeCounted
<1>7. CASE RotateOpen
  <2>1. CASE log_fp' = "open" /\ disk' = Truncated
    <3>1. 0 \in DOMAIN disk' /\ disk'[0].size = 0
      BY <1>0, <2>1, TruncatedFiles DEF EmptyFile
    <3> QED BY <1>7, <2>1, <3>1 DEF RotateOpen, OpenInv, SizeCounted, FileHandlerTypeOK
  <2>2. CASE UNCHANGED <<log_fp, disk>>
    BY <1>7, <2>2 DEF RotateOpen, OpenInv, SizeCounted, FileHandlerTypeOK
  <2> QED BY <1>7, <2>1, <2>2 DEF RotateOpen
<1>8. CASE FinalFlush
  <2>1. disk' = disk
    BY <1>8 DEF FinalFlush, StageInv, NothingStagedAtRest, FileHandlerTypeOK
  <2> QED BY <1>8, <2>1 DEF FinalFlush, OpenInv, SizeCounted
<1>9. CASE DestroyJoin
  BY <1>9 DEF DestroyJoin, OpenInv, SizeCounted
<1>10. CASE UNCHANGED vars
  BY <1>10 DEF vars, OpenInv, SizeCounted
<1> QED
  BY <1>2, <1>3, <1>4, <1>5, <1>6, <1>7, <1>8, <1>9, <1>10
  DEF FileHandlerNext, Thread, Rotate, Gone

----------------------------------------------------------------------------
(* The order of the log.  What happens to the lines on disk, staged and in the
   ring is a shift towards the disk, a new line at the end, or a loss. *)

(* The numbers in the log file and in each backup. *)
FileIds(f) == Ids(disk[f].lines)

LEMMA OnDiskIds ==
  ASSUME NEW n
  PROVE  n \in OnDisk <=> \E f \in DOMAIN disk : n \in FileIds(f)
  BY DEF OnDisk, FileIds

(* What LogInOrder says of the disk. *)
DiskInOrder ==
  /\ \A f \in DOMAIN disk : Increasing(disk[f].lines)
  /\ \A f, g \in DOMAIN disk : f > g => Before(FileIds(f), FileIds(g))

LEMMA InOrderParts ==
  LogInOrder <=> /\ DiskInOrder
                 /\ Before(OnDisk, Ids(wbuf)) /\ Before(OnDisk \cup Ids(wbuf), Ids(queue))
                 /\ Increasing(wbuf) /\ Increasing(queue)
  BY DEF LogInOrder, DiskInOrder, FileIds

(* The staged lines go behind those in the log file. *)
LEMMA WrittenOrder ==
  ASSUME DiskTypeOK, DiskInOrder, wbuf \in Seq(Line), wpos \in Nat, Increasing(wbuf),
         Before(OnDisk, Ids(wbuf)), disk' = Written, 0 \in DOMAIN disk
  PROVE  DiskInOrder' /\ OnDisk' = OnDisk \cup Ids(wbuf)
<1>1. /\ DOMAIN disk' = DOMAIN disk
      /\ \A f \in DOMAIN disk \ {0} : disk'[f] = disk[f]
      /\ disk'[0].lines = disk[0].lines \o wbuf
      /\ disk[0].lines \in Seq(Line)
  BY WrittenFiles, FileParts
<1>2. /\ \A f \in DOMAIN disk \ {0} : FileIds(f)' = FileIds(f)
      /\ FileIds(0)' = FileIds(0) \cup Ids(wbuf)
  BY <1>1, IdsConcat DEF FileIds
<1>3. Before(FileIds(0), Ids(wbuf))
  BY OnDiskIds DEF Before
<1>4. Increasing(disk'[0].lines)
  BY <1>1, <1>3, IncreasingConcat DEF FileIds, DiskInOrder
<1>5. \A f \in DOMAIN disk' : Increasing(disk'[f].lines)
  BY <1>1, <1>4 DEF DiskInOrder
<1>6. ASSUME NEW f \in DOMAIN disk', NEW g \in DOMAIN disk', f > g
      PROVE  Before(FileIds(f)', FileIds(g)')
  <2>1. f # 0 /\ Before(FileIds(f), FileIds(g))
    BY <1>1, <1>6 DEF DiskTypeOK, DiskInOrder
  <2>2. Before(FileIds(f), Ids(wbuf))
    BY <1>1, OnDiskIds DEF Before
  <2> QED BY <1>1, <1>2, <2>1, <2>2 DEF Before
<1>7. OnDisk' = OnDisk \cup Ids(wbuf)
  <2>1. \A n : n \in OnDisk' <=> \E f \in DOMAIN disk : n \in FileIds(f)'
    BY <1>1, Zenon DEF OnDisk, FileIds
  <2>2. \A n : n \in OnDisk <=> \E f \in DOMAIN disk : n \in FileIds(f)
    BY OnDiskIds
  <2> QED BY <1>2, <2>1, <2>2
<1> QED BY <1>5, <1>6, <1>7 DEF DiskInOrder, FileIds

(* Renaming a file to the next number keeps the order and adds nothing. *)
LEMMA RenamedOrder ==
  ASSUME DiskTypeOK, DiskInOrder, NEW from \in Nat, Rename(from, from + 1)
  PROVE  DiskInOrder' /\ OnDisk' \subseteq OnDisk
<1>1. \/ disk' = disk
      \/ /\ from \in DOMAIN disk
         /\ DOMAIN disk' = (DOMAIN disk \ {from}) \cup {from + 1}
         /\ disk'[from + 1] = disk[from]
         /\ \A f \in DOMAIN disk' \ {from + 1} : disk'[f] = disk[f]
  <2>1. from + 1 \in Nat /\ from # from + 1
    OBVIOUS
  <2> QED BY <2>1, RenamedFiles, Zenon
<1>2. CASE disk' = disk
  BY <1>2 DEF DiskInOrder, OnDisk, FileIds
<1>3. CASE disk' # disk
  <2>1. /\ FileIds(from + 1)' = FileIds(from)
        /\ \A f \in DOMAIN disk' \ {from + 1} : FileIds(f)' = FileIds(f) /\ f \in DOMAIN disk
        /\ from \in DOMAIN disk /\ DOMAIN disk \subseteq Nat /\ from \notin DOMAIN disk'
    BY <1>1, <1>3 DEF FileIds, DiskTypeOK
  <2>2. \A f \in DOMAIN disk' : Increasing(disk'[f].lines)
    BY <1>1, <1>3 DEF DiskInOrder
  <2>3. ASSUME NEW f \in DOMAIN disk', NEW g \in DOMAIN disk', f > g
        PROVE  Before(FileIds(f)', FileIds(g)')
    <3>1. CASE f = from + 1
      <4>1. g \in DOMAIN disk /\ g < from /\ FileIds(g)' = FileIds(g)
        BY <2>1, <2>3, <3>1
      <4> QED BY <2>1, <3>1, <4>1 DEF DiskInOrder
    <3>2. CASE g = from + 1
      <4>1. f \in DOMAIN disk /\ f > from /\ FileIds(f)' = FileIds(f)
        BY <2>1, <2>3, <3>2
      <4> QED BY <2>1, <3>2, <4>1 DEF DiskInOrder
    <3>3. CASE f # from + 1 /\ g # from + 1
      BY <2>1, <2>3, <3>3 DEF DiskInOrder
    <3> QED BY <3>1, <3>2, <3>3
  <2>4. OnDisk' \subseteq OnDisk
    BY <1>1, <1>3, <2>1 DEF OnDisk, FileIds
  <2> QED BY <2>2, <2>3, <2>4 DEF DiskInOrder, FileIds
<1> QED BY <1>2, <1>3

(* Opening the log file anew adds nothing either. *)
LEMMA TruncatedOrder ==
  ASSUME DiskTypeOK, DiskInOrder, disk' = Truncated
  PROVE  DiskInOrder' /\ OnDisk' \subseteq OnDisk
<1>1. /\ DOMAIN disk' = DOMAIN disk \cup {0}
      /\ disk'[0].lines = <<>>
      /\ \A f \in DOMAIN disk \ {0} : disk'[f] = disk[f]
  BY TruncatedFiles DEF EmptyFile
<1>2. /\ FileIds(0)' = {}
      /\ \A f \in DOMAIN disk' \ {0} : FileIds(f)' = FileIds(f) /\ f \in DOMAIN disk
  BY <1>1, IdsNone DEF FileIds
<1>3. \A f \in DOMAIN disk' : Increasing(disk'[f].lines)
  BY <1>1, IdsNone DEF DiskInOrder
<1>4. ASSUME NEW f \in DOMAIN disk', NEW g \in DOMAIN disk', f > g
      PROVE  Before(FileIds(f)', FileIds(g)')
  <2>1. CASE f = 0 \/ g = 0
    BY <1>2, <2>1 DEF Before
  <2>2. CASE f # 0 /\ g # 0
    BY <1>2, <1>4, <2>2 DEF DiskInOrder
  <2> QED BY <2>1, <2>2
<1>5. OnDisk' \subseteq OnDisk
  BY <1>1, <1>2 DEF OnDisk, FileIds
<1> QED BY <1>3, <1>4, <1>5 DEF DiskInOrder, FileIds

LEMMA InitOrder == FileHandlerInit => OrderInv
<1> SUFFICES ASSUME FileHandlerInit PROVE OrderInv
  OBVIOUS
<1>1. queue = <<>> /\ wbuf = <<>> /\ nr_lines = 0 /\ DOMAIN disk \subseteq {0}
  BY DEF FileHandlerInit
<1>2. \A f \in DOMAIN disk : Increasing(disk[f].lines) /\ FileIds(f) \subseteq {0}
  <2>1. SUFFICES ASSUME NEW f \in DOMAIN disk
                 PROVE  Increasing(disk[f].lines) /\ FileIds(f) \subseteq {0}
    OBVIOUS
  <2>2. CASE disk[f] = EmptyFile
    BY <2>2, IdsNone DEF EmptyFile, FileIds
  <2>3. ASSUME NEW s \in LineSizes, disk[f] = [lines |-> <<[id |-> 0, size |-> s]>>, size |-> s]
        PROVE  Increasing(disk[f].lines) /\ FileIds(f) \subseteq {0}
    BY <2>3 DEF FileIds, Ids, Increasing
  <2> QED BY <2>2, <2>3 DEF FileHandlerInit
<1>3. DiskInOrder /\ OnDisk \subseteq {0}
  BY <1>1, <1>2 DEF DiskInOrder, OnDisk, FileIds
<1>4. Ids(queue) = {} /\ Ids(wbuf) = {} /\ Increasing(queue) /\ Increasing(wbuf)
  BY <1>1, IdsNone
<1>5. LogInOrder
  BY <1>3, <1>4, InOrderParts DEF Before
<1>6. Kept \subseteq 0 .. nr_lines
  <2>1. Kept \subseteq {0}
    BY <1>3, <1>4, Zenon DEF Kept
  <2>2. 0 \in 0 .. nr_lines
    BY <1>1
  <2> QED BY <2>1, <2>2
<1> QED BY <1>5, <1>6 DEF OrderInv

(* Files may be moved and lost. *)
LEMMA OrderFewer ==
  ASSUME OrderInv, DiskInOrder', OnDisk' \subseteq OnDisk, UNCHANGED <<wbuf, queue, nr_lines>>
  PROVE  OrderInv'
<1>1. Kept' \subseteq 0 .. nr_lines'
  BY DEF OrderInv, Kept
<1>2. /\ Before(OnDisk', Ids(wbuf')) /\ Before((OnDisk \cup Ids(wbuf))', Ids(queue'))
      /\ Increasing(wbuf') /\ Increasing(queue')
  BY InOrderParts DEF OrderInv, Before
<1>3. LogInOrder'
  BY <1>2 DEF LogInOrder, DiskInOrder, FileIds
<1> QED BY <1>1, <1>3 DEF OrderInv

LEMMA OrderFlushed ==
  ASSUME FileHandlerTypeOK, OrderInv, 0 \in DOMAIN disk, disk' = Written, wbuf' = <<>>,
         UNCHANGED <<queue, nr_lines>>
  PROVE  OrderInv' /\ Kept' = Kept
<1>1. DiskInOrder' /\ OnDisk' = OnDisk \cup Ids(wbuf)
  BY InOrderParts, WrittenOrder DEF OrderInv, FileHandlerTypeOK, DiskTypeOK
<1>2. Ids(wbuf') = {} /\ Increasing(wbuf')
  BY IdsNone
<1>3. Kept' = Kept
  BY <1>1, <1>2 DEF Kept
<1>4. Before(OnDisk', Ids(wbuf')) /\ Before((OnDisk \cup Ids(wbuf))', Ids(queue')) /\ Increasing(queue')
  BY <1>1, <1>2, InOrderParts DEF OrderInv, Before
<1>5. LogInOrder'
  BY <1>1, <1>2, <1>4 DEF LogInOrder, DiskInOrder, FileIds
<1> QED BY <1>3, <1>5 DEF OrderInv

LEMMA OrderAccepted ==
  ASSUME FileHandlerTypeOK, OrderInv, LogImpl
  PROVE  OrderInv' /\ Kept' = Kept \cup {nr_lines + 1}
<1>1. PICK x \in Line : queue' = Append(queue, x) /\ x.id = nr_lines + 1
  BY AcceptedLine
<1>2. queue \in Seq(Line) /\ nr_lines \in Nat
  BY DEF FileHandlerTypeOK
<1>3. nr_lines' = nr_lines + 1 /\ UNCHANGED <<wbuf, disk>>
  BY Zenon DEF LogImpl, staging
<1>4. Ids(queue') = Ids(queue) \cup {nr_lines + 1}
  BY <1>1, <1>2, IdsAppend
<1>5. \A n \in Kept : n < nr_lines + 1
  BY <1>2 DEF OrderInv
<1>6. Increasing(queue) /\ Before(Ids(queue), {x.id})
  BY <1>1, <1>5 DEF OrderInv, LogInOrder, Kept, Before
<1>7. Increasing(queue')
  BY <1>1, <1>2, <1>6, IncreasingAppend
<1>8. OnDisk' = OnDisk
  BY <1>3 DEF OnDisk
<1>9. Before((OnDisk \cup Ids(wbuf))', Ids(queue'))
  BY <1>3, <1>4, <1>5, <1>8 DEF OrderInv, LogInOrder, Kept, Before
<1>10. LogInOrder'
  BY <1>3, <1>7, <1>8, <1>9 DEF OrderInv, LogInOrder
<1>11. Kept' = Kept \cup {nr_lines + 1}
  BY <1>3, <1>4, <1>8 DEF Kept
<1>12. Kept' \subseteq 0 .. nr_lines'
  BY <1>2, <1>3, <1>11 DEF OrderInv
<1> QED BY <1>10, <1>11, <1>12 DEF OrderInv

LEMMA OrderStaged ==
  ASSUME FileHandlerTypeOK, StageInv, OrderInv, StageLine
  PROVE  OrderInv' /\ Kept' = Kept
<1>1. queue \in Seq(Line) /\ queue # <<>> /\ wbuf \in Seq(Line) /\ UNCHANGED <<disk, nr_lines>>
      /\ queue' = Tail(queue) /\ wbuf' = Append(wbuf, Formatted(Head(queue)))
  BY StageGuard, Zenon DEF FileHandlerTypeOK, StageLine
<1>2. PICK h : h = Head(queue).id
  OBVIOUS
<1>3. Head(queue) \in Line /\ Ids(queue) = {h} \cup Ids(queue')
  BY <1>1, <1>2, IdsTail
<1>4. PICK x \in Line : x = Formatted(Head(queue)) /\ x.id = h
  BY <1>2, <1>3, FormattedLine
<1>5. Ids(wbuf') = Ids(wbuf) \cup {h}
  BY <1>1, <1>4, IdsAppend
<1>6. Increasing(queue') /\ Before({h}, Ids(queue'))
  BY <1>1, <1>2, IncreasingTail DEF OrderInv, LogInOrder
<1>7. Increasing(wbuf) /\ Before(Ids(wbuf), {x.id})
  BY <1>3, <1>4 DEF OrderInv, LogInOrder, Before
<1>8. Increasing(wbuf')
  BY <1>1, <1>4, <1>7, IncreasingAppend
<1>9. OnDisk' = OnDisk
  BY <1>1 DEF OnDisk
<1>10. Kept' = Kept
  BY <1>3, <1>5, <1>9 DEF Kept
<1>11. Before(OnDisk', Ids(wbuf')) /\ Before((OnDisk \cup Ids(wbuf))', Ids(queue'))
  BY <1>3, <1>5, <1>6, <1>9 DEF OrderInv, LogInOrder, Before
<1>12. LogInOrder'
  BY <1>1, <1>6, <1>8, <1>11 DEF OrderInv, LogInOrder
<1> QED BY <1>1, <1>10, <1>12 DEF OrderInv

LEMMA OrderSkipped ==
  ASSUME FileHandlerTypeOK, OrderInv, SkipLine
  PROVE  OrderInv'
<1>1. queue \in Seq(Line) /\ queue # <<>> /\ UNCHANGED <<disk, nr_lines, wbuf>> /\ queue' = Tail(queue)
  BY DEF FileHandlerTypeOK, SkipLine, staging
<1>2. Ids(queue') \subseteq Ids(queue)
  BY <1>1, IdsTail
<1>3. Increasing(queue')
  BY <1>1, IncreasingTail DEF OrderInv, LogInOrder
<1>4. OnDisk' = OnDisk
  BY <1>1 DEF OnDisk
<1>5. Kept' \subseteq Kept
  BY <1>1, <1>2, <1>4 DEF Kept
<1>6. Before((OnDisk \cup Ids(wbuf))', Ids(queue'))
  BY <1>1, <1>2, <1>4 DEF OrderInv, LogInOrder, Before
<1>7. LogInOrder'
  BY <1>1, <1>3, <1>4, <1>6 DEF OrderInv, LogInOrder
<1> QED BY <1>1, <1>5, <1>7 DEF OrderInv

LEMMA OrderStep ==
  FileHandlerTypeOK /\ StageInv /\ OpenInv /\ OrderInv /\ [FileHandlerNext]_vars => OrderInv'
<1> SUFFICES ASSUME FileHandlerTypeOK, StageInv, OpenInv, OrderInv, [FileHandlerNext]_vars
             PROVE  OrderInv'
  OBVIOUS
<1>0. DiskTypeOK /\ DiskInOrder
  BY InOrderParts DEF FileHandlerTypeOK, DiskTypeOK, OrderInv
<1>1. CASE UNCHANGED <<wbuf, queue, nr_lines, disk>>
  BY <1>1 DEF OrderInv, LogInOrder, Kept, OnDisk
<1>2. CASE SetFileSize \/ SetBackupFiles \/ DestroyStop \/ DestroyJoin
  BY <1>1, <1>2 DEF SetFileSize, SetBackupFiles, DestroyStop, DestroyJoin, staging
<1>3. CASE Fflush \/ CheckRunning \/ Awake \/ RotateClose
  BY <1>1, <1>3 DEF Fflush, CheckRunning, Awake, RotateClose, staging
<1>4. CASE FlushForHeadroom
  BY <1>4, OrderFlushed DEF FlushForHeadroom, WriteBuffer, OpenInv
<1>5. CASE IdleFlush
  <2>1. CASE log_fp = "open" /\ WriteBuffer("fflush")
    BY <1>5, <2>1, OrderFlushed DEF IdleFlush, WriteBuffer, OpenInv
  <2>2. CASE UNCHANGED <<disk, current_file_size, staging, next>>
    BY <1>1, <1>5, <2>2 DEF IdleFlush, staging
  <2> QED BY <1>5, <2>1, <2>2 DEF IdleFlush
<1>6. CASE FinalFlush
  <2>1. CASE log_fp = "open" /\ disk' = Written /\ wbuf' = <<>>
    BY <1>6, <2>1, OrderFlushed DEF FinalFlush, OpenInv
  <2>2. CASE UNCHANGED <<disk, staging>>
    BY <1>1, <1>6, <2>2 DEF FinalFlush, staging
  <2> QED BY <1>6, <2>1, <2>2 DEF FinalFlush
<1>7. CASE RotateBackup
  <2>1. i \in Nat /\ Rename(i, i + 1) /\ UNCHANGED <<wbuf, queue, nr_lines>>
    BY <1>7 DEF RotateBackup, FileHandlerTypeOK, staging
  <2> QED BY <1>0, <2>1, RenamedOrder, OrderFewer
<1>8. CASE RotateCurrent
  <2>1. UNCHANGED <<wbuf, queue, nr_lines>>
    BY <1>8 DEF RotateCurrent, staging
  <2>2. CASE Rename(0, 1)
    <3>1. 0 \in Nat /\ Rename(0, 0 + 1)
      BY <2>2
    <3> QED BY <1>0, <2>1, <3>1, RenamedOrder, OrderFewer
  <2>3. CASE UNCHANGED disk
    BY <1>1, <2>1, <2>3
  <2> QED BY <1>8, <2>2, <2>3 DEF RotateCurrent
<1>9. CASE RotateOpen
  <2>1. UNCHANGED <<wbuf, queue, nr_lines>>
    BY <1>9 DEF RotateOpen, staging
  <2>2. CASE disk' = Truncated
    BY <1>0, <2>1, <2>2, TruncatedOrder, OrderFewer
  <2>3. CASE UNCHANGED disk
    BY <1>1, <2>1, <2>3
  <2> QED BY <1>9, <2>2, <2>3 DEF RotateOpen
<1>10. CASE UNCHANGED vars
  BY <1>1, <1>10 DEF vars, staging
<1> QED
  BY <1>2, <1>3, <1>4, <1>5, <1>6, <1>7, <1>8, <1>9, <1>10,
     OrderAccepted, OrderStaged, OrderSkipped
  DEF FileHandlerNext, Thread, Rotate, Gone

----------------------------------------------------------------------------
(* The size of a file. *)

LEMMA InitBound == FileHandlerInit => BoundInv
<1> SUFFICES ASSUME FileHandlerInit PROVE BoundInv
  OBVIOUS
<1> USE FileHandlerAssumption
<1>1. max_file_size \in Nat /\ WriteBufSize \in Nat
  BY DEF FileHandlerInit
<1>2. ASSUME NEW f \in DOMAIN disk PROVE 0 \in FileIds(f) \/ disk[f].size = 0
  <2>1. CASE disk[f] = EmptyFile
    BY <2>1 DEF EmptyFile
  <2>2. ASSUME NEW s \in LineSizes, disk[f] = [lines |-> <<[id |-> 0, size |-> s]>>, size |-> s]
        PROVE  0 \in FileIds(f)
    BY <2>2 DEF FileIds, Ids
  <2> QED BY <2>1, <2>2 DEF FileHandlerInit
<1>3. FilesBounded
  BY <1>1, <1>2 DEF FilesBounded, FileIds
<1>4. log_fp = "open" => 0 \in DOMAIN disk /\ current_file_size = disk[0].size
  BY DEF FileHandlerInit
<1> QED BY <1>1, <1>2, <1>3, <1>4 DEF BoundInv, FileIds

(* A file below its limit takes less than a staging buffer more. *)
LEMMA BoundFlushed ==
  ASSUME FileHandlerTypeOK, OpenInv, BoundInv, log_fp = "open", pc # "fclose", disk' = Written,
         UNCHANGED <<max_file_size, sets>>,
         current_file_size' = current_file_size + wpos,
         pc' # "fclose" => ~(max_file_size > 0 /\ current_file_size' >= max_file_size)
  PROVE  BoundInv'
<1>1. /\ 0 \in DOMAIN disk /\ disk[0].size = current_file_size /\ current_file_size \in Nat
      /\ wpos \in 0 .. WriteBufSize - 1 /\ WriteBufSize \in Nat /\ max_file_size \in Nat
  BY FileHandlerAssumption DEF OpenInv, SizeCounted, FileHandlerTypeOK
<1>2. DiskTypeOK /\ wbuf \in Seq(Line) /\ wpos \in Nat
  BY DEF FileHandlerTypeOK, DiskTypeOK
<1>3. /\ DOMAIN disk' = DOMAIN disk
      /\ \A f \in DOMAIN disk \ {0} : disk'[f] = disk[f]
      /\ disk'[0].lines = disk[0].lines \o wbuf
      /\ disk'[0].size = current_file_size + wpos
  BY <1>1, <1>2, WrittenFiles
<1>4. FileIds(0) \subseteq FileIds(0)'
  BY <1>1, <1>2, <1>3, IdsConcat, FileParts DEF FileIds
<1>5. SUFFICES ASSUME sets = 0, max_file_size > 0 PROVE BoundInv'
  BY DEF BoundInv, FilesBounded
<1>6. 0 \in FileIds(0) \/ current_file_size < max_file_size
  BY <1>5 DEF BoundInv, FileIds
<1>7. 0 \in FileIds(0)' \/ disk'[0].size < max_file_size + WriteBufSize
  BY <1>1, <1>3, <1>4, <1>6
<1>8. \A f \in DOMAIN disk \ {0} : 0 \in FileIds(f)' \/ disk'[f].size < max_file_size + WriteBufSize
  BY <1>3, <1>5 DEF BoundInv, FilesBounded, FileIds
<1>9. FilesBounded'
  BY <1>3, <1>7, <1>8 DEF FilesBounded, FileIds
<1>10. pc' # "fclose" => current_file_size' < max_file_size'
  BY <1>1, <1>5
<1> QED BY <1>9, <1>10 DEF BoundInv

LEMMA BoundStep ==
  FileHandlerTypeOK /\ StageInv /\ OpenInv /\ BoundInv /\ [FileHandlerNext]_vars => BoundInv'
<1> SUFFICES ASSUME FileHandlerTypeOK, StageInv, OpenInv, BoundInv, [FileHandlerNext]_vars
             PROVE  BoundInv'
  OBVIOUS
<1>0. DiskTypeOK /\ max_file_size \in Nat /\ WriteBufSize \in Nat /\ WriteBufSize > 0
  BY FileHandlerAssumption DEF FileHandlerTypeOK, DiskTypeOK
<1>1. ASSUME UNCHANGED <<disk, sets, max_file_size, log_fp, current_file_size>>,
             pc = "fclose" => pc' = "fclose"
      PROVE  BoundInv'
  BY <1>1 DEF BoundInv, FilesBounded
<1>2. CASE LogImpl
  BY <1>1, <1>2, Zenon DEF LogImpl, limits
<1>3. CASE SetBackupFiles \/ DestroyStop
  BY <1>1, <1>3 DEF SetBackupFiles, DestroyStop, limits
<1>4. CASE SetFileSize
  <2>1. sets' # 0
    BY <1>4 DEF SetFileSize, FileHandlerTypeOK
  <2> QED BY <2>1 DEF BoundInv, FilesBounded
<1>5. CASE FlushForHeadroom
  BY <1>5, BoundFlushed DEF FlushForHeadroom, WriteBuffer, limits
<1>6. CASE IdleFlush
  <2>1. CASE log_fp = "open" /\ WriteBuffer("fflush")
    BY <1>6, <2>1, BoundFlushed DEF IdleFlush, WriteBuffer, limits
  <2>2. CASE pc' = "check" /\ UNCHANGED <<disk, current_file_size, staging, next>>
    BY <1>1, <1>6, <2>2 DEF IdleFlush, limits
  <2> QED BY <1>6, <2>1, <2>2 DEF IdleFlush
<1>7. CASE StageLine \/ SkipLine \/ Fflush \/ CheckRunning \/ Awake
  BY <1>1, <1>7 DEF StageLine, SkipLine, Fflush, CheckRunning, Awake, limits
<1>8. CASE RotateClose \/ DestroyJoin
  BY <1>8 DEF RotateClose, DestroyJoin, BoundInv, FilesBounded, limits
<1>9. ASSUME NEW from \in Nat, NEW to \in Nat, from # to, Rename(from, to),
             UNCHANGED <<sets, max_file_size, log_fp>>, log_fp = "null"
      PROVE  BoundInv'
  <2>1. \A f \in DOMAIN disk' : \E g \in DOMAIN disk : disk'[f] = disk[g]
    <3>1. \/ disk' = disk
          \/ /\ from \in DOMAIN disk
             /\ DOMAIN disk' = (DOMAIN disk \ {from}) \cup {to}
             /\ disk'[to] = disk[from]
             /\ \A f \in DOMAIN disk' \ {to} : disk'[f] = disk[f]
      BY <1>0, <1>9, RenamedFiles, Zenon
    <3> QED BY <3>1
  <2> QED BY <1>9, <2>1 DEF BoundInv, FilesBounded
<1>10. CASE RotateBackup
  <2>1. i \in Nat /\ i + 1 \in Nat /\ i # i + 1
    BY <1>10 DEF RotateBackup, FileHandlerTypeOK
  <2> QED BY <1>9, <1>10, <2>1 DEF RotateBackup, OpenInv, limits
<1>11. CASE RotateCurrent
  <2>1. UNCHANGED <<sets, max_file_size, log_fp>> /\ log_fp = "null" /\ pc # "fclose"
    BY <1>11 DEF RotateCurrent, OpenInv, limits
  <2>2. CASE Rename(0, 1)
    BY <1>9, <2>1, <2>2
  <2>3. CASE UNCHANGED disk
    BY <2>1, <2>3 DEF BoundInv, FilesBounded
  <2> QED BY <1>11, <2>2, <2>3 DEF RotateCurrent
<1>12. CASE RotateOpen
  <2>1. UNCHANGED <<sets, max_file_size>> /\ current_file_size' = 0
    BY <1>12 DEF RotateOpen, limits
  <2>2. CASE disk' = Truncated
    <3>1. /\ DOMAIN disk' = DOMAIN disk \cup {0} /\ disk'[0].size = 0
          /\ \A f \in DOMAIN disk \ {0} : disk'[f] = disk[f]
      BY <1>0, <2>2, TruncatedFiles DEF EmptyFile
    <3>2. FilesBounded'
      BY <1>0, <2>1, <3>1 DEF BoundInv, FilesBounded
    <3> QED BY <1>0, <2>1, <3>2 DEF BoundInv
  <2>3. CASE UNCHANGED <<log_fp, disk>>
    BY <1>12, <2>1, <2>3 DEF BoundInv, FilesBounded, OpenInv, RotateOpen
  <2> QED BY <1>12, <2>2, <2>3 DEF RotateOpen
<1>13. CASE FinalFlush
  <2>1. disk' = disk
    BY <1>13 DEF FinalFlush, StageInv, NothingStagedAtRest, FileHandlerTypeOK
  <2> QED BY <1>1, <1>13, <2>1 DEF FinalFlush, limits
<1>14. CASE UNCHANGED vars
  BY <1>1, <1>14 DEF vars, limits
<1> QED
  BY <1>2, <1>3, <1>4, <1>5, <1>6, <1>7, <1>8, <1>10, <1>11, <1>12, <1>13, <1>14
  DEF FileHandlerNext, Thread, Rotate, Gone

----------------------------------------------------------------------------
(* What rotation loses. *)

(* What OnlyOldestLost says while the limits stay and nothing fails ... *)
OldestLost ==
  /\ \A k \in Kept : k .. nr_lines \subseteq Kept
  /\ 1 .. nr_lines \subseteq Kept \/ max_backup_files \in DOMAIN disk \cup {0}

(* ... and what LossInv adds to it. *)
ChainInv ==
  /\ DOMAIN disk \subseteq 0 .. max_backup_files
  /\ log_fp = "null" => pc \in {"rename", "fopen", "exited"}
  /\ pc = "rename" =>
       /\ i < max_backup_files /\ (i >= 0 \/ max_backup_files = 0)
       /\ i < max_backup_files - 1 => i + 1 \notin DOMAIN disk
  /\ pc = "fopen" /\ max_backup_files > 0 => 0 \notin DOMAIN disk

LEMMA LossParts ==
  LossInv <=> /\ sets = 0 => setter = <<>>
              /\ sets = 0 /\ ~failed => ChainInv /\ OldestLost
  BY DEF LossInv, OnlyOldestLost, ChainInv, OldestLost

LEMMA InitLoss == FileHandlerInit => LossInv
<1> SUFFICES ASSUME FileHandlerInit, ~failed PROVE LossInv
  BY DEF FileHandlerInit, LossInv, OnlyOldestLost
<1>1. /\ nr_lines = 0 /\ DOMAIN disk = {0} /\ log_fp = "open" /\ pc = "drain" /\ setter = <<>>
      /\ max_backup_files \in Nat
  BY FileHandlerAssumption DEF FileHandlerInit
<1>2. ChainInv
  BY <1>1 DEF ChainInv
<1>3. Kept \subseteq 0 .. nr_lines
  BY InitOrder DEF OrderInv
<1>4. OldestLost
  BY <1>1, <1>3 DEF OldestLost
<1> QED BY <1>1, <1>2, <1>4, LossParts

(* Giving up lines older than all others loses the oldest only. *)
LEMMA OldestGiven ==
  ASSUME NEW S, Kept \subseteq Kept' \cup S, Kept' \subseteq Kept, Before(S, Kept'),
         nr_lines' = nr_lines, nr_lines \in Nat, Kept \subseteq Nat,
         \A k \in Kept : k .. nr_lines \subseteq Kept
  PROVE  (\A k \in Kept : k .. nr_lines \subseteq Kept)'
<1>1. SUFFICES ASSUME NEW k \in Kept', NEW x \in k .. nr_lines
               PROVE  x \in Kept'
  OBVIOUS
<1>2. x \in Kept /\ k \in Nat /\ x \in Int /\ k <= x
  BY <1>1
<1>3. x \notin S
  BY <1>1, <1>2 DEF Before
<1> QED BY <1>2, <1>3

(* A rename whose target is gone, or is the last backup. *)
LEMMA RenamedLoss ==
  ASSUME DiskTypeOK, OrderInv, nr_lines \in Nat, max_backup_files \in Nat, ~failed',
         OldestLost, DOMAIN disk \subseteq 0 .. max_backup_files,
         NEW from \in Nat, from < max_backup_files,
         from + 1 < max_backup_files => from + 1 \notin DOMAIN disk,
         Rename(from, from + 1),
         UNCHANGED <<wbuf, queue, nr_lines, max_backup_files>>
  PROVE  /\ OldestLost' /\ from \notin DOMAIN disk'
         /\ DOMAIN disk' \subseteq 0 .. max_backup_files'
<1>1. \/ disk' = disk /\ from \notin DOMAIN disk
      \/ /\ from \in DOMAIN disk
         /\ DOMAIN disk' = (DOMAIN disk \ {from}) \cup {from + 1}
         /\ disk'[from + 1] = disk[from]
         /\ \A f \in DOMAIN disk' \ {from + 1} : disk'[f] = disk[f]
  <2>1. from + 1 \in Nat /\ from # from + 1
    OBVIOUS
  <2> QED BY <2>1, RenamedFiles, Zenon
<1>2. CASE disk' = disk /\ from \notin DOMAIN disk
  BY <1>2 DEF OldestLost, Kept, OnDisk
<1>3. CASE from \in DOMAIN disk /\ ~(disk' = disk /\ from \notin DOMAIN disk)
  <2>1. /\ DOMAIN disk' = (DOMAIN disk \ {from}) \cup {from + 1}
        /\ disk'[from + 1] = disk[from]
        /\ \A f \in DOMAIN disk' \ {from + 1} : disk'[f] = disk[f]
    BY <1>1, <1>3
  <2>2. from \notin DOMAIN disk' /\ DOMAIN disk' \subseteq 0 .. max_backup_files'
    BY <2>1
  <2>3. DiskInOrder /\ OnDisk' \subseteq OnDisk
    BY InOrderParts, RenamedOrder DEF OrderInv
  <2>4. Kept' \subseteq Kept /\ Kept \subseteq Nat
    BY <2>3 DEF Kept, OrderInv
  <2>5. CASE from + 1 \notin DOMAIN disk
    <3>1. OnDisk \subseteq OnDisk'
      BY <1>3, <2>1, <2>5 DEF OnDisk
    <3>2. Kept' = Kept
      BY <2>4, <3>1 DEF Kept
    <3>3. max_backup_files \in DOMAIN disk \cup {0} => max_backup_files \in DOMAIN disk' \cup {0}
      BY <2>1
    <3> QED BY <2>2, <3>2, <3>3 DEF OldestLost
  <2>6. CASE from + 1 \in DOMAIN disk
    <3>1. from + 1 = max_backup_files /\ max_backup_files \in DOMAIN disk'
      BY <2>1, <2>6
    <3>2. OnDisk \subseteq OnDisk' \cup FileIds(max_backup_files)
      BY <1>3, <2>1, <3>1 DEF OnDisk, FileIds
    <3>3. Before(FileIds(max_backup_files), OnDisk')
      <4>1. SUFFICES ASSUME NEW a \in FileIds(max_backup_files), NEW b \in OnDisk' PROVE a < b
        BY DEF Before
      <4>2. PICK f \in DOMAIN disk' : b \in FileIds(f)'
        BY DEF OnDisk, FileIds
      <4>3. PICK g \in DOMAIN disk : b \in FileIds(g) /\ g < max_backup_files
        <5>1. CASE f = from + 1
          BY <1>3, <2>1, <4>2, <5>1 DEF FileIds
        <5>2. CASE f # from + 1
          BY <2>1, <2>2, <3>1, <4>2, <5>2 DEF FileIds
        <5> QED BY <5>1, <5>2
      <4> QED BY <2>3, <2>6, <3>1, <4>3 DEF DiskInOrder, Before
    <3>4. Before(FileIds(max_backup_files), Ids(wbuf') \cup Ids(queue'))
      <4>1. FileIds(max_backup_files) \subseteq OnDisk
        BY <2>6, <3>1, OnDiskIds
      <4> QED BY <4>1 DEF OrderInv, LogInOrder, Before
    <3>5. Before(FileIds(max_backup_files), Kept')
      BY <3>3, <3>4 DEF Before, Kept
    <3>6. Kept \subseteq Kept' \cup FileIds(max_backup_files)
      BY <3>2 DEF Kept
    <3>7. (\A k \in Kept : k .. nr_lines \subseteq Kept)'
      BY <2>4, <3>5, <3>6, OldestGiven DEF OldestLost
    <3> QED BY <2>2, <3>1, <3>7 DEF OldestLost
  <2> QED BY <2>5, <2>6
<1> QED BY <1>1, <1>2, <1>3

(* Opening the log file loses it only where no backups are kept. *)
LEMMA TruncatedLoss ==
  ASSUME DiskTypeOK, OrderInv, nr_lines \in Nat, max_backup_files \in Nat,
         OldestLost, DOMAIN disk \subseteq 0 .. max_backup_files,
         max_backup_files > 0 => 0 \notin DOMAIN disk, disk' = Truncated,
         UNCHANGED <<wbuf, queue, nr_lines, max_backup_files>>
  PROVE  OldestLost' /\ DOMAIN disk' \subseteq 0 .. max_backup_files'
<1>1. /\ DOMAIN disk' = DOMAIN disk \cup {0}
      /\ disk'[0].lines = <<>>
      /\ \A f \in DOMAIN disk \ {0} : disk'[f] = disk[f]
  BY TruncatedFiles DEF EmptyFile
<1>2. OnDisk' \subseteq OnDisk
  BY InOrderParts, TruncatedOrder DEF OrderInv
<1>3. Kept' \subseteq Kept /\ Kept \subseteq Nat
  BY <1>2 DEF Kept, OrderInv
<1>4. CASE max_backup_files > 0
  <2>1. OnDisk \subseteq OnDisk'
    BY <1>1, <1>4 DEF OnDisk
  <2>2. Kept' = Kept
    BY <1>3, <2>1 DEF Kept
  <2> QED BY <1>1, <2>2 DEF OldestLost
<1>5. CASE max_backup_files = 0
  <2>1. DOMAIN disk' = {0}
    BY <1>1, <1>5
  <2>2. OnDisk' = {}
    BY <1>1, <2>1, IdsNone DEF OnDisk
  <2>3. Kept \subseteq Kept' \cup OnDisk
    BY DEF Kept
  <2>4. Before(OnDisk, Kept')
    BY <2>2 DEF OrderInv, LogInOrder, Before, Kept
  <2>5. (\A k \in Kept : k .. nr_lines \subseteq Kept)'
    BY <1>3, <2>3, <2>4, OldestGiven DEF OldestLost
  <2> QED BY <1>5, <2>1, <2>5 DEF OldestLost
<1> QED BY <1>4, <1>5

(* A step that keeps the lines and the files keeps what is said of them. *)
LEMMA SameLoss ==
  ASSUME OldestLost, Kept' = Kept, UNCHANGED <<nr_lines, max_backup_files>>,
         DOMAIN disk' = DOMAIN disk
  PROVE  OldestLost'
  BY DEF OldestLost

LEMMA AcceptedLoss ==
  ASSUME FileHandlerTypeOK, OrderInv, OldestLost, LogImpl
  PROVE  OldestLost'
<1>1. Kept' = Kept \cup {nr_lines + 1} /\ nr_lines \in Nat /\ Kept \subseteq 0 .. nr_lines
  BY OrderAccepted DEF FileHandlerTypeOK, OrderInv
<1>2. nr_lines' = nr_lines + 1 /\ UNCHANGED <<disk, max_backup_files>>
  BY Zenon DEF LogImpl, limits
<1>3. (\A k \in Kept : k .. nr_lines \subseteq Kept)'
  BY <1>1, <1>2 DEF OldestLost
<1>4. 1 .. nr_lines \subseteq Kept => 1 .. nr_lines' \subseteq Kept'
  BY <1>1, <1>2
<1> QED BY <1>2, <1>3, <1>4 DEF OldestLost

(* A failure is remembered. *)
LEMMA FailedForEver ==
  ASSUME FileHandlerTypeOK, [FileHandlerNext]_vars, failed
  PROVE  failed'
<1>1. CASE LogImpl
  BY <1>1, Zenon DEF LogImpl
<1>2. CASE SetFileSize \/ SetBackupFiles \/ DestroyStop \/ DestroyJoin \/ UNCHANGED vars
  BY <1>2 DEF SetFileSize, SetBackupFiles, DestroyStop, DestroyJoin, vars
<1>3. CASE FlushForHeadroom \/ StageLine \/ SkipLine \/ IdleFlush \/ Fflush \/ CheckRunning \/ Awake \/ FinalFlush
  BY <1>3 DEF FlushForHeadroom, StageLine, SkipLine, IdleFlush, Fflush, CheckRunning, Awake, FinalFlush
<1>4. CASE Rotate
  BY <1>4 DEF Rotate, RotateClose, RotateBackup, RotateCurrent, RotateOpen, Rename
<1> QED BY <1>1, <1>2, <1>3, <1>4 DEF FileHandlerNext, Thread, Gone

LEMMA LossStep ==
  FileHandlerTypeOK /\ StageInv /\ OpenInv /\ OrderInv /\ LossInv /\ [FileHandlerNext]_vars => LossInv'
<1> SUFFICES ASSUME FileHandlerTypeOK, StageInv, OpenInv, OrderInv, LossInv, [FileHandlerNext]_vars
             PROVE  LossInv'
  OBVIOUS
<1>0. DiskTypeOK /\ nr_lines \in Nat /\ max_backup_files \in Nat /\ i \in Int
  BY FileHandlerAssumption DEF FileHandlerTypeOK, DiskTypeOK
<1>1. CASE SetFileSize
  <2>1. sets' # 0
    BY <1>1 DEF SetFileSize, FileHandlerTypeOK
  <2> QED BY <2>1 DEF LossInv, OnlyOldestLost
<1>2. CASE SetBackupFiles
  <2>1. sets' # 0
    BY <1>2 DEF SetBackupFiles, LossInv
  <2> QED BY <2>1 DEF LossInv, OnlyOldestLost
<1>3. ASSUME UNCHANGED limits, sets = 0 /\ ~failed' /\ ChainInv /\ OldestLost => ChainInv' /\ OldestLost'
      PROVE  LossInv'
  <2>1. failed => failed'
    BY FailedForEver
  <2> QED BY <1>3, <2>1, LossParts DEF limits, LossInv, OnlyOldestLost, ChainInv, OldestLost
<1>4. CASE UNCHANGED limits
  <2> SUFFICES ASSUME sets = 0, ~failed', ChainInv, OldestLost, max_backup_files' = max_backup_files
               PROVE  ChainInv' /\ OldestLost'
    BY <1>3, <1>4 DEF limits
  <2>1. CASE LogImpl
    <3>1. ChainInv'
      BY <2>1, Zenon DEF LogImpl, ChainInv
    <3> QED BY <2>1, <3>1, AcceptedLoss
  <2>2. CASE DestroyStop \/ DestroyJoin
    <3>1. OldestLost'
      BY <2>2, SameLoss DEF DestroyStop, DestroyJoin, staging, Kept, OnDisk
    <3> QED BY <2>2, <3>1 DEF DestroyStop, DestroyJoin, ChainInv
  <2>3. CASE Fflush \/ CheckRunning \/ Awake
    <3>1. OldestLost'
      BY <2>3, SameLoss DEF Fflush, CheckRunning, Awake, staging, Kept, OnDisk
    <3> QED BY <2>3, <3>1 DEF Fflush, CheckRunning, Awake, ChainInv
  <2>4. CASE RotateClose
    <3>1. OldestLost'
      BY <2>4, SameLoss DEF RotateClose, staging, Kept, OnDisk
    <3> QED BY <1>0, <2>4, <3>1 DEF RotateClose, ChainInv
  <2>5. ASSUME log_fp = "open", disk' = Written, wbuf' = <<>>, UNCHANGED <<queue, nr_lines, log_fp>>,
               pc' \notin {"rename", "fopen"}
        PROVE  ChainInv' /\ OldestLost'
    <3>1. DOMAIN disk' = DOMAIN disk
      BY <2>5 DEF Written
    <3>2. Kept' = Kept
      BY <2>5, OrderFlushed DEF OpenInv
    <3> QED BY <2>5, <3>1, <3>2, SameLoss DEF ChainInv
  <2>6. CASE FlushForHeadroom
    BY <2>5, <2>6 DEF FlushForHeadroom, WriteBuffer
  <2>7. CASE IdleFlush
    <3>1. CASE log_fp = "open" /\ WriteBuffer("fflush")
      BY <2>5, <2>7, <3>1 DEF IdleFlush, WriteBuffer
    <3>2. CASE pc' = "check" /\ UNCHANGED <<disk, current_file_size, staging, next>>
      <4>1. OldestLost'
        BY <2>7, <3>2, SameLoss DEF IdleFlush, staging, Kept, OnDisk
      <4> QED BY <2>7, <3>2, <4>1 DEF IdleFlush, ChainInv
    <3> QED BY <2>7, <3>1, <3>2 DEF IdleFlush
  <2>8. CASE FinalFlush
    <3>1. CASE log_fp = "open" /\ disk' = Written /\ wbuf' = <<>>
      BY <2>5, <2>8, <3>1 DEF FinalFlush
    <3>2. CASE UNCHANGED <<disk, staging>>
      <4>1. OldestLost'
        BY <2>8, <3>2, SameLoss DEF FinalFlush, staging, Kept, OnDisk
      <4> QED BY <2>8, <3>2, <4>1 DEF FinalFlush, ChainInv
    <3> QED BY <2>8, <3>1, <3>2 DEF FinalFlush
  <2>9. CASE StageLine
    <3>1. UNCHANGED <<nr_lines, disk, log_fp>> /\ pc' = "drain" /\ pc \in {"drain", "format"}
      BY <2>9 DEF StageLine
    <3>2. OldestLost'
      BY <2>9, <3>1, OrderStaged, SameLoss
    <3> QED BY <3>1, <3>2 DEF ChainInv
  <2>10. CASE SkipLine
    BY <2>10 DEF SkipLine, ChainInv
  <2>11. CASE RotateBackup
    <3>1. /\ i \in Nat /\ i < max_backup_files /\ i >= 1 /\ Rename(i, i + 1) /\ i' = i - 1
          /\ UNCHANGED <<wbuf, queue, nr_lines, pc, log_fp>> /\ pc = "rename"
          /\ i + 1 < max_backup_files => i + 1 \notin DOMAIN disk
      BY <1>0, <2>11 DEF RotateBackup, ChainInv, staging
    <3>2. /\ OldestLost' /\ i \notin DOMAIN disk'
          /\ DOMAIN disk' \subseteq 0 .. max_backup_files'
      BY <1>0, <3>1, RenamedLoss DEF ChainInv
    <3>3. i' < max_backup_files /\ i' >= 0 /\ i' + 1 = i
      BY <1>0, <3>1
    <3>4. log_fp' = "null" => pc' \in {"rename", "fopen", "exited"}
      BY <3>1
    <3> QED BY <3>1, <3>2, <3>3, <3>4 DEF ChainInv
  <2>12. CASE RotateCurrent
    <3>1. UNCHANGED <<wbuf, queue, nr_lines, log_fp>> /\ pc = "rename" /\ pc' = "fopen"
      BY <2>12 DEF RotateCurrent, staging
    <3>2. CASE max_backup_files > 0
      <4>1. i = 0 /\ (0 + 1 < max_backup_files => 0 + 1 \notin DOMAIN disk)
        BY <1>0, <2>12, <3>2 DEF RotateCurrent, ChainInv
      <4>2. Rename(0, 0 + 1)
        BY <2>12, <3>2 DEF RotateCurrent
      <4>3. OldestLost' /\ 0 \notin DOMAIN disk' /\ DOMAIN disk' \subseteq 0 .. max_backup_files'
        BY <1>0, <3>1, <3>2, <4>1, <4>2, RenamedLoss DEF ChainInv
      <4> QED BY <3>1, <4>3 DEF ChainInv
    <3>3. CASE max_backup_files = 0
      <4>1. UNCHANGED disk
        BY <2>12, <3>3 DEF RotateCurrent
      <4>2. OldestLost'
        BY <3>1, <4>1, SameLoss DEF Kept, OnDisk
      <4> QED BY <3>1, <3>3, <4>1, <4>2 DEF ChainInv
    <3> QED BY <1>0, <3>2, <3>3
  <2>13. CASE RotateOpen
    <3>1. /\ UNCHANGED <<wbuf, queue, nr_lines>> /\ pc = "fopen" /\ pc' = next
          /\ log_fp' = "open" /\ disk' = Truncated
      BY <2>13 DEF RotateOpen, staging
    <3>2. OldestLost' /\ DOMAIN disk' \subseteq 0 .. max_backup_files'
      BY <1>0, <3>1, TruncatedLoss DEF ChainInv
    <3>3. pc' \in {"format", "fflush"}
      BY <3>1 DEF FileHandlerTypeOK
    <3> QED BY <3>1, <3>2, <3>3 DEF ChainInv
  <2>14. CASE UNCHANGED vars
    <3>1. OldestLost'
      BY <2>14, SameLoss DEF vars, staging, Kept, OnDisk
    <3> QED BY <2>14, <3>1 DEF vars, ChainInv
  <2> QED
    BY <1>1, <1>2, <1>4, <2>1, <2>2, <2>3, <2>4, <2>6, <2>7, <2>8, <2>9, <2>10, <2>11, <2>12,
       <2>13, <2>14
    DEF FileHandlerNext, Thread, Rotate, Gone, SetFileSize, SetBackupFiles, limits
<1>5. SetFileSize \/ SetBackupFiles \/ UNCHANGED limits
  <2>1. LogImpl => UNCHANGED limits
    BY Zenon DEF LogImpl
  <2>2. Thread => UNCHANGED limits
    BY DEF Thread, Rotate, FlushForHeadroom, StageLine, SkipLine, IdleFlush, Fflush, RotateClose,
           RotateBackup, RotateCurrent, RotateOpen, CheckRunning, Awake, FinalFlush
  <2>3. DestroyStop \/ DestroyJoin \/ UNCHANGED vars => UNCHANGED limits
    BY DEF DestroyStop, DestroyJoin, vars
  <2> QED BY <2>1, <2>2, <2>3 DEF FileHandlerNext, Gone
<1> QED BY <1>1, <1>2, <1>4, <1>5

----------------------------------------------------------------------------
(* The theorems. *)

(* The inductive invariant holds in every state: whatever the sizes of ring,
   buffer, lines and files, whenever lmk_set_log_rotation stores its limits and
   however fopen and rename fail. *)
THEOREM FileInvariant == FileHandlerSpec => []FileInv
<1>1. FileHandlerInit => FileInv
  BY InitType, InitStage, InitOpen, InitOrder, InitBound, InitLoss DEF FileInv
<1>2. FileInv /\ [FileHandlerNext]_vars => FileInv'
  BY TypeStep, StageStep, OpenStep, OrderStep, BoundStep, LossStep DEF FileInv
<1> QED BY <1>1, <1>2, PTL DEF FileHandlerSpec

(* The log reads in order and without a repetition, from the oldest backup to
   the ring. *)
THEOREM LogStaysInOrder == FileHandlerSpec => []LogInOrder
<1>1. FileInv => LogInOrder
  BY DEF FileInv, OrderInv
<1> QED BY <1>1, FileInvariant, PTL

(* Rotation gives up the oldest lines only, and only once it keeps
   max_backup_files backups. *)
THEOREM RotationLosesOldest == FileHandlerSpec => []OnlyOldestLost
<1>1. FileInv => OnlyOldestLost
  BY DEF FileInv, LossInv
<1> QED BY <1>1, FileInvariant, PTL

(* current_file_size, which decides on rotation, is the size of the file. *)
THEOREM SizeIsCounted == FileHandlerSpec => []SizeCounted
<1>1. FileInv => SizeCounted
  BY DEF FileInv, OpenInv
<1> QED BY <1>1, FileInvariant, PTL

(* A file this program starts stays below max_file_size plus one buffer. *)
THEOREM FilesAreBounded == FileHandlerSpec => []FilesBounded
<1>1. FileInv => FilesBounded
  BY DEF FileInv, BoundInv
<1> QED BY <1>1, FileInvariant, PTL

(* The thread sleeps and ends with nothing staged that its file could take. *)
THEOREM NothingLeftStaged == FileHandlerSpec => []NothingStagedAtRest
<1>1. FileInv => NothingStagedAtRest
  BY DEF FileInv, StageInv
<1> QED BY <1>1, FileInvariant, PTL

(* A record is formatted only when there is one, and its line is not cut short
   unless it is as long as LMK_MAX_LINE_SIZE. *)
THEOREM LinesAreWhole == FileHandlerSpec => LinesWhole
<1>1. ASSUME FileInv, StageLine, Head(queue).size < MaxLineSize
      PROVE  wbuf'[Len(wbuf')].size = Head(queue).size
  <2>1. FileHandlerTypeOK /\ StageInv /\ queue # <<>>
    BY <1>1, StageGuard DEF FileInv
  <2>2. PICK x \in Line : x = Head(queue)
    BY <2>1, HeadTailProperties DEF FileHandlerTypeOK
  <2>3. x.size <= WriteBufSize - wpos - 1
    <3>1. wpos + MaxLineSize <= WriteBufSize
      <4>1. wpos \in 0 .. WriteBufSize - 1 /\ (wpos = 0 \/ ~NoHeadroom)
        BY <1>1, <2>1 DEF StageLine, StageInv, FileHandlerTypeOK
      <4> QED BY <4>1, FileHandlerAssumption DEF NoHeadroom
    <3>2. x.size < MaxLineSize /\ x.size \in Nat /\ wpos \in Nat
      BY <1>1, <2>1, <2>2 DEF Line, FileHandlerTypeOK
    <3> QED BY <3>1, <3>2, FileHandlerAssumption
  <2>4. Formatted(x) \in Line /\ Formatted(x).size = x.size
    BY <2>1, <2>2, <2>3, FormattedLine
  <2>5. wbuf' = Append(wbuf, Formatted(x)) /\ wbuf \in Seq(Line)
    BY <1>1, <2>1, <2>2 DEF StageLine, FileHandlerTypeOK
  <2>6. wbuf'[Len(wbuf')] = Formatted(x)
    BY <2>4, <2>5, AppendProperties
  <2> QED BY <2>2, <2>4, <2>6
<1>2. FileInv /\ [FileHandlerNext]_vars =>
        [StageLine /\ Head(queue).size < MaxLineSize =>
           wbuf'[Len(wbuf')].size = Head(queue).size]_vars
  BY <1>1
<1> QED BY <1>2, FileInvariant, PTL DEF FileHandlerSpec, LinesWhole
============================================================================
