\* Room for two short lines in the staging buffer; a long line does not fit
\* beside a short one.  With what was in the file before, four lines are enough
\* for a rotation to give up the oldest of three backups.
CONSTANTS
  RingSize = 2
  WriteBufSize = 6
  MaxLineSize = 3
  LineSizes = {2, 4}
  FileSizeLimits = {0, 3}
  BackupLimits = {0, 3}
  MaxLines = 4
  MaxSets = 1
SPECIFICATION FairFileHandlerSpec
INVARIANTS
  FileInv
  LogInOrder
  OnlyOldestLost
  SizeCounted
  FilesBounded
  NothingStagedAtRest
PROPERTIES
  LinesWhole
  RingDrained
