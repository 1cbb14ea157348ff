SPECIFICATION Spec
CONSTANTS
  UserId = {u1, u2}
  Username = {n1}
  Nobody = Nobody
  Word = {w1, w2}
  Entry = {e1}
  Undated = Undated
  ImportFile <- MCImportFile
  NoFile = NoFile
  NoImport = NoImport
  MaxClock = 2
INVARIANTS
  TypeOK
  AnsweredWordsSurvive
  RetriedImportCompletes
  DeletedStaysDeleted
CHECK_DEADLOCK FALSE
PROPERTY NewAccountStartsEmpty
SYMMETRY Symmetry
