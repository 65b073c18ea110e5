\* One message, two consumers, every client command, stale sweep entries, and
\* two kills inside any operation.
CONSTANTS
  NoPolicy = NoPolicy
  NoLease = NoLease
  Keys = {1}
  Consumers = {c1, c2}
  AnyConsumer = any
  Targets = {any, c1}
  PublishDelays <- SomeDelay
  VisTimeouts <- ShortTimeout
  Policy <- DlqPolicy
  ClientOps = {"ack", "requeue", "reject", "extend", "reprocess"}
  IntMax = 127
  MaxTime = 7
  MaxAttempt = 6
  MaxKills = 2
SPECIFICATION FileSpec
INVARIANTS FileTypeOK DeliveriesBounded DlqExplained
PROPERTY FileKeepsContract LeaseNextStrands
CHECK_DEADLOCK FALSE
