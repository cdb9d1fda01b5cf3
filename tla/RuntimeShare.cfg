SPECIFICATION Spec
CONSTANTS
  Refs = {r1, r2}
  Bundles = {b1}
  Prefetchers = {t1, t2}
  None = None
  MaxPulls = 2
  MaxPrefetches = 2
  MaxRestarts = 1
  MaxFails = 1
CHECK_DEADLOCK FALSE
INVARIANTS PulledBundleIsRequested MountsNested AnswersUsedOnce PullFailsForAReason
PROPERTY PullsEnd
