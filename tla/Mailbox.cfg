\* Two requests, watcher or polling, one crash and one loss.  A file is either
\* within its time or past it.
CONSTANTS
  Requests = {1, 2}
  Contents <- SomeContents
  Timeout = 0
  StaleTimeout = 0
  ResponseTtl = 0
  MaxCrashes = 1
  MaxLosses = 1
SPECIFICATION MailFairSpec
INVARIANTS MailTypeOK HandledAtMostOnce NoneForgotten NoAnswerLost
PROPERTIES EveryRequestEnds EveryAnswerEnds
CHECK_DEADLOCK FALSE
