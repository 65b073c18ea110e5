--------------------------- MODULE RetrySchedule ---------------------------
(***************************************************************************)
(* The retries of one message that no consumer settles: a policy as it is  *)
(* written in the configuration file, validated when it is loaded, and the *)
(* delay computed for every attempt until the limit is reached.            *)
(***************************************************************************)
EXTENDS RetryPolicy

CONSTANTS RawRetries   \* retry policies as a configuration file may give them

ASSUME RawRetriesAssumption == RawRetries \subseteq RawRetry

VARIABLES retry,    \* the validated policy
          attempt,  \* deliveries so far
          waits     \* the delay before the last of them, in seconds

scheduleVars == <<retry, attempt, waits>>

\* A new message is leased once before anything can expire.
ScheduleInit == \E raw \in RawRetries :
  /\ retry = ValidateRetryPolicy(raw)
  /\ attempt = 1
  /\ waits = 0

\* The lease of this attempt runs out; the message is delayed and leased again.
ExpireAndRetry ==
  /\ Verdict(attempt, [retry |-> retry, dlq_enabled |-> TRUE]) = "retry"
  /\ attempt' = attempt + 1
  /\ waits' = Backoff(attempt, retry)
  /\ UNCHANGED retry

\* The retries are exhausted: nothing more is scheduled.
Exhausted ==
  /\ Verdict(attempt, [retry |-> retry, dlq_enabled |-> TRUE]) # "retry"
  /\ UNCHANGED scheduleVars

ScheduleNext == ExpireAndRetry \/ Exhausted

ScheduleSpec == ScheduleInit /\ [][ScheduleNext]_scheduleVars

----------------------------------------------------------------------------

\* The linear delay is a product of two int32_t, which is capped only afterwards.
Fits(a) == retry.backoff = "linear" => retry.initial_delay_sec * a <= IntMax

\* Whatever the file says, every retry waits at least a second and at most
\* max_delay_sec (TestQueueManager.cpp:467 and 534, for two kinds of backoff;
\* a fixed delay is not capped by calculate_backoff_delay itself), up to the
\* first attempt whose product overflows: from there the delay may be negative.
WaitWithinCap == attempt > 1 /\ Fits(attempt - 1) => waits \in 1 .. retry.max_delay_sec

\* A later retry never waits less than an earlier one, up to the cap and to
\* the overflow.
WaitNeverShrinks == [][Fits(attempt) => waits' >= waits]_scheduleVars
============================================================================
