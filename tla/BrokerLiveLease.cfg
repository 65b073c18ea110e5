\* A stale sweep entry and the lease of the next consumer.
CONSTANTS
  q1 = q1
  q2 = q2
  q3 = q3
  NoPolicy = NoPolicy
  Keys = {k1}
  Queues = {q1}
  Consumers = {c1}
  AnyConsumer = any
  Priorities <- OnePriority
  PublishDelays <- NoDelay
  VisTimeouts <- ShortTimeout
  MaxTime = 4
  MaxAttempt = 3
  IntMax = 127
  Policies <- DlqPolicies
  ClientOps = {"requeue"}
  StoreErrors = FALSE
  LastExtend = 0
  MaxRestarts = 0
SPECIFICATION Spec
PROPERTY LiveLeaseKept
