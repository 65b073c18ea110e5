\* No fault and no repair: a sweep entry older than a rejection.
CONSTANTS
  NoPolicy = NoPolicy
  NoRow = NoRow
  Keys = {k1}
  Consumers = {c1}
  PublishDelays <- NoDelay
  VisTimeouts <- ShortTimeout
  Policy <- DlqPolicy
  ClientOps = {"reject"}
  IntMax = 127
  MaxTime = 3
  MaxAttempt = 3
  MaxFaults = 0
  MaxRepairs = 0
SPECIFICATION HybridSpec
INVARIANT ActiveHasPayload
CHECK_DEADLOCK FALSE
