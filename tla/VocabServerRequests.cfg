\* Revisions stay below 10, where names sort as numbers do.
CONSTANTS
  Client = {c1}
  Change = {e1}
  NoFile = NoFile
  Keep = 2
  MaxRev = 4
SPECIFICATION Spec
INVARIANTS TypeOK AckedRevisionNamesOneFile BackupIsWhatWasHeld NewestBackupsKept
\* No request is sent at MaxRev.
CHECK_DEADLOCK FALSE
