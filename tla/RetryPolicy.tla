---------------------------- MODULE RetryPolicy ----------------------------
(***************************************************************************)
(* The retry policy of a queue: what Configurations makes of the policy    *)
(* read from the configuration file, and what QueueManager decides for a   *)
(* message whose lease expired (retry after a backoff, dead-letter, or     *)
(* leave alone).  Delays are in seconds, the unit of the policy; the code  *)
(* multiplies them by 1000 on the way to the adapters.                     *)
(***************************************************************************)
EXTENDS Integers

CONSTANT IntMax   \* INT32_MAX: 2^31 - 1 in the program, scaled down in the runs

ASSUME IntMaxAssumption == IntMax \in Nat \ {0}

Backoffs == {"exponential", "linear", "fixed"}

\* RetryPolicy, as the program holds it once it is validated.
Retry == [limit : Nat, backoff : Backoffs, initial_delay_sec : Nat, max_delay_sec : Nat]

\* A policy as the JSON reader hands it over: any integers, any word.
RawRetry == [limit : Int, backoff : STRING, initial_delay_sec : Int, max_delay_sec : Int]

Lesser(a, b) == IF b < a THEN b ELSE a

\* The value an int32_t holds after a product that does not fit wraps around.
Int32(n) == ((n + IntMax + 1) % (2 * (IntMax + 1))) - (IntMax + 1)

\* The n-th power of two.
PowerOfTwo[n \in Nat] == IF n = 0 THEN 1 ELSE 2 * PowerOfTwo[n - 1]

----------------------------------------------------------------------------

\* A wrong variant: the two delays are validated but never put in order.
ValidateWithoutSwap(raw) ==
  [limit             |-> IF raw.limit < 0 THEN 0 ELSE raw.limit,
   backoff           |-> IF raw.backoff \in Backoffs THEN raw.backoff ELSE "exponential",
   initial_delay_sec |-> IF raw.initial_delay_sec <= 0 THEN 1 ELSE raw.initial_delay_sec,
   max_delay_sec     |-> IF raw.max_delay_sec <= 0 THEN 60 ELSE raw.max_delay_sec]

\* Configurations::validate_retry_policy: out-of-range fields get a default,
\* then the two delays are swapped when they are in the wrong order.
ValidateRetryPolicy(raw) ==
  LET initial == IF raw.initial_delay_sec <= 0 THEN 1 ELSE raw.initial_delay_sec
      max     == IF raw.max_delay_sec <= 0 THEN 60 ELSE raw.max_delay_sec
  IN  [limit             |-> IF raw.limit < 0 THEN 0 ELSE raw.limit,
       backoff           |-> IF raw.backoff \in Backoffs THEN raw.backoff ELSE "exponential",
       initial_delay_sec |-> Lesser(initial, max),
       max_delay_sec     |-> IF max < initial THEN initial ELSE max]

\* A wrong variant: the exponential delay too is an int32_t until it is capped.
BackoffInInt32(attempt, retry) ==
  CASE retry.backoff = "exponential" ->
         Lesser(Int32(retry.initial_delay_sec * PowerOfTwo[attempt - 1]), retry.max_delay_sec)
    [] retry.backoff = "linear" ->
         Lesser(Int32(retry.initial_delay_sec * attempt), retry.max_delay_sec)
    [] OTHER -> retry.initial_delay_sec

\* QueueManager::calculate_backoff_delay.  The exponential branch computes in
\* double, where nothing wraps; the linear branch multiplies two int32_t.
Backoff(attempt, retry) ==
  CASE retry.backoff = "exponential" ->
         Lesser(retry.initial_delay_sec * PowerOfTwo[attempt - 1], retry.max_delay_sec)
    [] retry.backoff = "linear" ->
         Lesser(Int32(retry.initial_delay_sec * attempt), retry.max_delay_sec)
    [] OTHER -> retry.initial_delay_sec

\* A wrong variant: the comparison is off by one.
VerdictOffByOne(attempt, policy) ==
  IF attempt > policy.retry.limit
  THEN IF policy.dlq_enabled THEN "dead_letter" ELSE "leave"
  ELSE "retry"

\* A wrong variant: messages are dead-lettered only while they may be retried.
VerdictNeverDead(attempt, policy) ==
  IF attempt >= policy.retry.limit THEN "leave" ELSE "retry"

\* QueueManager::apply_retry_or_dlq, the decision.
Verdict(attempt, policy) ==
  IF attempt >= policy.retry.limit
  THEN IF policy.dlq_enabled THEN "dead_letter" ELSE "leave"
  ELSE "retry"
============================================================================
