\* One device, one operation at a time; anything may fail, edits
\* included.
CONSTANTS
  c1 = c1
  c2 = c2
  f1 = f1
  f2 = f2
  f3 = f3
  Client = {c1}
  Flow = {f1}
  ClientOf <- OneTab
  Overlap <- OneAtATime
  Fault = {"network", "late", "refused", "crash", "storage", "backup", "closeSync", "editCut"}
  Unlimited = {"network"}
  Change = {e1, e2}
  NoFile = NoFile
  Keep = 1
  KeepLocal = 1
  MaxRetries = 2
  MaxRev = 3
  MaxFaults = 2
SPECIFICATION FairSpec
PROPERTY OperationsEnd
\* Users need not begin anything.
CHECK_DEADLOCK FALSE
