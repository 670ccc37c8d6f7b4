SPECIFICATION Spec
CONSTANTS
  r1 = r1
  r2 = r2
  r3 = r3
  Runs = {r1, r2, r3}
  PrepareDelay = 1
  RunDelay = 2
  FinishDelay = 4
  MaxTime = 8
  MaxCrashes = 1
INVARIANTS TypeOK
PROPERTIES LifecycleAdvances RunSettles
CHECK_DEADLOCK FALSE
