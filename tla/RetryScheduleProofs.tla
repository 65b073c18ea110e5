------------------------ MODULE RetryScheduleProofs ------------------------
(***************************************************************************)
(* The waits of a message nobody settles, for every policy a configuration *)
(* file can hold and every number of attempts.                             *)
(***************************************************************************)
EXTENDS RetrySchedule, RetryPolicyProofs

\* The inductive invariant: the policy is a validated one, and the last wait is
\* the delay computed for the attempt that expired before it.
ScheduleInv == /\ Ordered(retry)
               /\ attempt \in Nat \ {0}
               /\ attempt = 1 => waits = 0
               /\ attempt > 1 => /\ waits = Backoff(attempt - 1, retry)
                                 /\ attempt <= retry.limit

LEMMA ScheduleInitInv == ScheduleInit => ScheduleInv
<1> SUFFICES ASSUME ScheduleInit PROVE ScheduleInv OBVIOUS
<1>1. PICK raw \in RawRetries : retry = ValidateRetryPolicy(raw) /\ attempt = 1 /\ waits = 0
  BY DEF ScheduleInit
<1>2. Ordered(retry) BY <1>1, RawRetriesAssumption, ValidPolicies DEF Ordered
<1> QED BY <1>1, <1>2 DEF ScheduleInv

LEMMA ScheduleNextInv == ScheduleInv /\ [ScheduleNext]_scheduleVars => ScheduleInv'
<1> SUFFICES ASSUME ScheduleInv, [ScheduleNext]_scheduleVars PROVE ScheduleInv' OBVIOUS
<1>1. CASE ExpireAndRetry
  <2>1. /\ retry' = retry /\ attempt' = attempt + 1
        /\ waits' = Backoff(attempt, retry)
    BY <1>1 DEF ExpireAndRetry
  <2>2. attempt' \in Nat \ {0} /\ attempt' > 1 /\ attempt' - 1 = attempt
    BY <2>1 DEF ScheduleInv
  <2>3. attempt' <= retry'.limit
    <3>1. ~(attempt >= retry.limit) BY <1>1 DEF ExpireAndRetry, Verdict
    <3> QED BY <2>1, <3>1 DEF ScheduleInv, Ordered, Retry
  <2> QED BY <2>1, <2>2, <2>3 DEF ScheduleInv
<1>2. CASE Exhausted BY <1>2 DEF Exhausted, ScheduleInv, scheduleVars
<1>3. CASE UNCHANGED scheduleVars BY <1>3 DEF ScheduleInv, scheduleVars
<1> QED BY <1>1, <1>2, <1>3 DEF ScheduleNext

LEMMA ScheduleInvariant == ScheduleSpec => []ScheduleInv
  BY ScheduleInitInv, ScheduleNextInv, PTL DEF ScheduleSpec

\* Whatever policy the file holds, each retry waits at least a second and at
\* most max_delay_sec, up to the overflow of the linear product.
THEOREM WaitsWithinCap == ScheduleSpec => []WaitWithinCap
<1>1. ScheduleInv => WaitWithinCap
  <2> SUFFICES ASSUME ScheduleInv, attempt > 1, Fits(attempt - 1)
               PROVE  waits \in 1 .. retry.max_delay_sec
    BY DEF WaitWithinCap
  <2>1. attempt - 1 \in Nat \ {0} /\ waits = Backoff(attempt - 1, retry) /\ Ordered(retry)
    BY DEF ScheduleInv
  <2>2. ProductFits(attempt - 1, retry) BY DEF Fits, ProductFits
  <2> QED BY <2>1, <2>2, BackoffWithinCap
<1> QED BY <1>1, ScheduleInvariant, PTL

\* Whatever policy the file holds, no retry waits less than the one before it,
\* up to the overflow of the linear product.
THEOREM WaitsNeverShrink == ScheduleSpec => WaitNeverShrinks
<1>1. ScheduleInv /\ [ScheduleNext]_scheduleVars
        => [Fits(attempt) => waits' >= waits]_scheduleVars
  <2> SUFFICES ASSUME ScheduleInv, ScheduleNext, Fits(attempt)
               PROVE  waits' >= waits \/ UNCHANGED scheduleVars
    BY DEF scheduleVars
  <2>1. CASE ExpireAndRetry
    <3>1. waits' = Backoff(attempt, retry) BY <2>1 DEF ExpireAndRetry
    <3>2. Ordered(retry) /\ attempt \in Nat \ {0} BY DEF ScheduleInv
    <3>3. ProductFits(attempt, retry) BY DEF Fits, ProductFits
    <3>4. Backoff(attempt, retry) \in 1 .. retry.max_delay_sec
      BY <3>2, <3>3, BackoffWithinCap
    <3>5. retry.max_delay_sec \in Nat BY <3>2 DEF Ordered, Retry
    <3>6. CASE attempt = 1 BY <3>1, <3>4, <3>5, <3>6 DEF ScheduleInv
    <3>7. CASE attempt # 1
      <4>1. /\ attempt - 1 \in Nat \ {0} /\ (attempt - 1) + 1 = attempt
            /\ waits = Backoff(attempt - 1, retry)
        BY <3>2, <3>7 DEF ScheduleInv
      <4>2. Backoff(attempt - 1, retry) <= Backoff((attempt - 1) + 1, retry)
        BY <3>2, <3>3, <4>1, BackoffNeverShrinks
      <4>3. Backoff(attempt - 1, retry) \in Int BY <3>2, <4>1, BackoffInt DEF Ordered
      <4> QED BY <3>1, <3>4, <3>5, <4>1, <4>2, <4>3
    <3> QED BY <3>6, <3>7
  <2>2. CASE Exhausted BY <2>2 DEF Exhausted
  <2> QED BY <2>1, <2>2 DEF ScheduleNext
<1> QED BY <1>1, ScheduleInvariant, PTL DEF ScheduleSpec, WaitNeverShrinks

\* A policy whose last linear product fits an int32_t never overflows.
Harmless(r) == r.backoff = "linear" => r.initial_delay_sec * r.limit <= IntMax

\* Under such a policy every wait is between a second and max_delay_sec: the
\* attempts end before the products overflow, so that a look at the policy of a
\* queue tells whether the overflow concerns it.
THEOREM HarmlessPolicies == ScheduleSpec => [](Harmless(retry) /\ attempt > 1 => waits \in 1 .. retry.max_delay_sec)
<1>1. ScheduleInv => (Harmless(retry) /\ attempt > 1 => waits \in 1 .. retry.max_delay_sec)
  <2> SUFFICES ASSUME ScheduleInv, Harmless(retry), attempt > 1
               PROVE  waits \in 1 .. retry.max_delay_sec
    OBVIOUS
  <2>1. attempt - 1 \in Nat \ {0} /\ waits = Backoff(attempt - 1, retry) /\ Ordered(retry)
    BY DEF ScheduleInv
  <2>2. ProductFits(attempt - 1, retry)
    <3>1. /\ retry.limit \in Nat /\ attempt - 1 <= retry.limit
          /\ retry.initial_delay_sec \in Nat \ {0}
      BY DEF ScheduleInv, Ordered, Retry
    <3>2. /\ retry.initial_delay_sec * (attempt - 1) \in Nat
          /\ retry.initial_delay_sec * retry.limit \in Nat
          /\ retry.initial_delay_sec * (attempt - 1) <= retry.initial_delay_sec * retry.limit
      BY <2>1, <3>1, ProductGrows
    <3> QED BY <3>2, IntMaxAssumption DEF Harmless, ProductFits
  <2> QED BY <2>1, <2>2, BackoffWithinCap
<1> QED BY <1>1, ScheduleInvariant, PTL
============================================================================
