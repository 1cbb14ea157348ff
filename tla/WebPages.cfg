\* Word pages and practice pages on small files, everything may fail.
CONSTANTS
  a = a
  b = b
  d = d
  None = None
  Word <- MCWord
  Drafts <- MCDrafts
  StartFiles <- MCStartFiles
  OtherFiles <- MCOtherFiles
  Tours <- MCTours
  MaxLoads <- MCMaxLoads
  MaxEdits = 2
SPECIFICATION Spec
INVARIANTS TypeOK ViewIsCurrent
PROPERTY WordsStayGone
\* Users need not go on.
CHECK_DEADLOCK FALSE
