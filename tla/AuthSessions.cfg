\* Two tabs, one of them with two things to do at once.
CONSTANTS
  Token = {t1, t2, t3}
  NoToken = NoToken
  NoRecord = NoRecord
  tab1 = tab1
  tab2 = tab2
  f1 = f1
  f2 = f2
  f3 = f3
  Tab = {tab1, tab2}
  Flow = {f1, f2, f3}
  TabOf <- TwoTabs
  Fault = {"network", "late", "crash", "misread", "reload", "expiry"}
  MaxFaults = 1
SPECIFICATION FairSpec
INVARIANTS TypeOK ReusedFamilyIsDead OneUsableToken JarIsCurrent
PROPERTIES UnusableStaysUnusable ActivationsEnd
\* Users need not begin anything, and tokens run out.
CHECK_DEADLOCK FALSE
