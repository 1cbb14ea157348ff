\* One device, nothing fails; an edit is made during a sync.
CONSTANTS
  c1 = c1
  c2 = c2
  f1 = f1
  f2 = f2
  f3 = f3
  Client = {c1}
  Flow = {f1, f2}
  ClientOf <- OneDevice
  Overlap <- EditDuringPush
  Fault = {}
  Unlimited = {}
  Change = {e1}
  NoFile = NoFile
  Keep = 5
  KeepLocal = 5
  MaxRetries = 3
  MaxRev = 2
  MaxFaults = 0
SPECIFICATION Spec
INVARIANT DirtyCoversChanges
CHECK_DEADLOCK FALSE
