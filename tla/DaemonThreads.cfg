\* One request is there at the start and may be unreadable, one comes when it
\* likes; the two sweep threads do the same, so one of them.
CONSTANTS
  Requests = {r1, r2}
  Left = {r2}
  Suspect = {r2}
  Sweeps = {lease}
SPECIFICATION DaemonSpec
INVARIANT ExitIsClean
PROPERTIES RequestServed ShutdownEnds
CHECK_DEADLOCK FALSE
