\* Consumers poll but may never settle what they get; one queue has no DLQ.
CONSTANTS
  q1 = q1
  q2 = q2
  q3 = q3
  NoPolicy = NoPolicy
  Keys = {k1, k2}
  Queues = {q1, q2}
  Consumers = {c1}
  AnyConsumer = any
  Priorities <- OnePriority
  PublishDelays <- NoDelay
  VisTimeouts <- LongTimeout
  MaxTime = 17
  MaxAttempt = 3
  IntMax = 127
  Policies <- MixedPolicies
  ClientOps = {"ack", "extend"}
  StoreErrors = FALSE
  LastExtend = 2
  MaxRestarts = 1
SPECIFICATION FairSpec
INVARIANT RetriesBounded
PROPERTIES ExpiredRecovered DuePromoted PoisonQuarantined LiveLeaseKept
