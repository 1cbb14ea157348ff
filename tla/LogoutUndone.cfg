\* One tab, one thing at a time, nothing goes wrong but the time that passes.
CONSTANTS
  Token = {t1, t2, t3}
  NoToken = NoToken
  NoRecord = NoRecord
  tab1 = tab1
  tab2 = tab2
  f1 = f1
  f2 = f2
  f3 = f3
  Tab = {tab1}
  Flow = {f1}
  TabOf <- OneAtATime
  Fault = {}
  MaxFaults = 0
SPECIFICATION Spec
INVARIANT LogoutSticks
CHECK_DEADLOCK FALSE
