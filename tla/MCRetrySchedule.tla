-------------------------- MODULE MCRetrySchedule --------------------------
EXTENDS RetrySchedule

RawOf(limits, kinds, delays) ==
  [limit : limits, backoff : kinds, initial_delay_sec : delays, max_delay_sec : delays]

\* Out-of-range numbers, delays in the wrong order, an unknown kind.
\* With IntMax = 127, linear delays whose product does not fit too.
MCRawRetries ==
  RawOf({-1, 0, 2, 6}, Backoffs \cup {"unknown"}, {-3, 0, 1, 2, 5, 9})
    \cup RawOf({6}, {"linear"}, {30, 40, 100})
============================================================================
