\* Consumers poll and may acknowledge what they get; the daemon may be killed.
CONSTANTS
  NoPolicy = NoPolicy
  NoLease = NoLease
  Keys = {1, 2}
  Consumers = {c1}
  AnyConsumer = any
  Targets = {any}
  PublishDelays <- NoDelay
  VisTimeouts <- ShortTimeout
  Policy <- DlqPolicy
  ClientOps = {"ack"}
  IntMax = 127
  MaxTime = 20
  MaxAttempt = 4
  MaxKills = 1
SPECIFICATION FileFairSpec
PROPERTY FileComesToRest
CHECK_DEADLOCK FALSE
