\* Two workers, three jobs of two priorities, one of them pushed by another.
CONSTANTS
  w1 = w1
  w2 = w2
  j1 = j1
  j2 = j2
  j3 = j3
  NoJob = NoJob
  Workers = {w1, w2}
  Jobs = {j1, j2, j3}
  Priorities = {"high", "low"}
  Low = "low"
  MaxQueueLow = 1
  PriorityOf <- MixedPriorities
  Parent <- OneChild
  Order <- BothAndLow
  Setups <- ThreeSetups
  MaxCalls = 3
SPECIFICATION PoolFairSpec
INVARIANTS PoolTypeOK JobsAccounted WakeUpsKept
PROPERTIES StopDrains EveryCallReturns QueuedRuns
CHECK_DEADLOCK FALSE
