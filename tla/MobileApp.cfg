SPECIFICATION Spec
CONSTANTS
  Word = {w1, w2}
  SeedSize = 1
  NoData = NoData
  NoWord = NoWord
  NoImport = NoImport
  MaxChanges = 2
  MaxTrail = 2
  File <- MCFile
SYMMETRY Symmetry
INVARIANTS
  TypeOK
  SettledIsStored
  GradedOncePerShowing
  ScreensAreCurrent
PROPERTIES
  WordsStayGone
  BackRestoresWord
CHECK_DEADLOCK FALSE
