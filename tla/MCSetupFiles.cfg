CONSTANTS
  Files = {f1, f2}
  Goroutines = {g1, g2}
  Nobody = Nobody
  LimitN = 2
  setupHotQueue <- MCShortQueue
SPECIFICATION FairSpec
INVARIANTS CrashOnlyOnEmptyList StaleAtMostOnce
PROPERTY EverySetupServed
CHECK_DEADLOCK FALSE
