\* One content is enough: only the revisions in the backup names matter.
CONSTANTS
  Client = {c1}
  Change = {}
  NoFile = NoFile
  Keep = 5
  MaxRev = 12
SPECIFICATION Spec
INVARIANT NewestBackupsKept
\* No request is sent at MaxRev.
CHECK_DEADLOCK FALSE
