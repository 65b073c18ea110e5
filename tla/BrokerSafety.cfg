\* Every client command, stale sweep entries, failed transactions, all policies.
CONSTANTS
  q1 = q1
  q2 = q2
  q3 = q3
  NoPolicy = NoPolicy
  Keys = {k1, k2}
  Queues = {q1, q2, q3}
  Consumers = {c1}
  AnyConsumer = any
  Priorities <- OnePriority
  PublishDelays <- SomeDelay
  VisTimeouts <- TwoTimeouts
  MaxTime = 4
  MaxAttempt = 2
  IntMax = 127
  Policies <- AllPolicies
  ClientOps = {"ack", "requeue", "reject", "extend", "reprocess"}
  StoreErrors = TRUE
  LastExtend = 4
  MaxRestarts = 0
SPECIFICATION Spec
INVARIANTS TypeOK StoredUntilAcked LeaseIffInflight ReadyIsDue ReasonIsCurrent
PROPERTY KeepsContract
SYMMETRY KeySymmetry
