\* Two tabs of one device and a second device; operations overlap, and one thing
\* of any kind goes wrong.
CONSTANTS
  c1 = c1
  c2 = c2
  f1 = f1
  f2 = f2
  f3 = f3
  Client = {c1, c2}
  Flow = {f1, f2, f3}
  ClientOf <- TwoTabs
  Overlap <- BusyTabs
  Fault = {"network", "late", "refused", "crash", "storage", "backup", "closeSync", "editCut"}
  Unlimited = {}
  Change = {e1}
  NoFile = NoFile
  Keep = 5
  KeepLocal = 5
  MaxRetries = 0
  MaxRev = 2
  MaxFaults = 1
SPECIFICATION Spec
SYMMETRY Symmetry
INVARIANTS TypeOK BaseIsCurrent NoChangeVanishes DirtyButForUnmarked
PROPERTY ImplementsRegister
\* Users need not begin anything.
CHECK_DEADLOCK FALSE
