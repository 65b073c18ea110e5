\* One message, two consumers, every client command, stale sweep entries and
\* reports, two faults inside any operation, and two repairs.
CONSTANTS
  NoPolicy = NoPolicy
  NoRow = NoRow
  Keys = {k1}
  Consumers = {c1, c2}
  PublishDelays <- SomeDelay
  VisTimeouts <- ShortTimeout
  Policy <- DlqPolicy
  ClientOps = {"ack", "requeue", "reject", "extend", "reprocess"}
  IntMax = 127
  MaxTime = 6
  MaxAttempt = 4
  MaxFaults = 2
  MaxRepairs = 2
SPECIFICATION HybridSpec
INVARIANTS HybridTypeOK PayloadKept FilesFollowRows RepairSettles
PROPERTIES HollowArises HybridKeepsContract
SYMMETRY HybridSymmetry
CHECK_DEADLOCK FALSE
