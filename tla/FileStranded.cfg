\* One message, and a kill inside lease_next.
CONSTANTS
  NoPolicy = NoPolicy
  NoLease = NoLease
  Keys = {1}
  Consumers = {c1}
  AnyConsumer = any
  Targets = {any}
  PublishDelays <- NoDelay
  VisTimeouts <- ShortTimeout
  Policy <- DlqPolicy
  ClientOps = {"ack"}
  IntMax = 127
  MaxTime = 20
  MaxAttempt = 4
  MaxKills = 1
SPECIFICATION FileFairSpec
PROPERTY EveryMessageServed
CHECK_DEADLOCK FALSE
