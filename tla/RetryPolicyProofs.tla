------------------------- MODULE RetryPolicyProofs -------------------------
(***************************************************************************)
(* What the delays of a retry policy are, for any policy of the file and   *)
(* any attempt.  The exponential delay is a recursive function; what it    *)
(* computes is proved by taking the least natural it would fail for, which *)
(* is what stands for induction here.                                      *)
(***************************************************************************)
EXTENDS RetryPolicy, WellFoundedInduction, TLAPS

LEMMA NatOrder ==
  \E R : IsWellFoundedOn(R, Nat) /\ \A x, y \in Nat : <<x, y>> \in R <=> x < y
<1>1. IsWellFoundedOn(OpToRel(<, Nat), Nat) BY NatLessThanWellFounded
<1>2. \A x, y \in Nat : <<x, y>> \in OpToRel(<, Nat) <=> x < y BY DEF OpToRel
<1> QED BY <1>1, <1>2

\* A set of naturals that is not empty has a least element: what stands for
\* induction in the proofs below.
LEMMA LeastNatural ==
  ASSUME NEW T, T \subseteq Nat, T # {}
  PROVE  \E n \in T : \A m \in T : n <= m
<1>1. PICK R : IsWellFoundedOn(R, Nat) /\ \A x, y \in Nat : <<x, y>> \in R <=> x < y
  BY NatOrder
<1>2. IsWellFoundedOn(R, Nat) BY <1>1
<1>3. PICK x \in T : \A y \in T : ~(<<y, x>> \in R) BY <1>2, WFMin
<1>4. \A y \in T : ~(y < x) BY <1>1, <1>3
<1> QED BY <1>4

\* g doubles up to n.
Doubles(g, n) == \A i \in 0 .. n : g[i] = IF i = 0 THEN 1 ELSE 2 * g[i - 1]

LEMMA DoublesExists ==
  ASSUME NEW n \in Nat
  PROVE  \E g \in [Nat -> Nat] : Doubles(g, n)
<1> DEFINE T == {k \in Nat : ~ \E g \in [Nat -> Nat] : Doubles(g, k)}
<1> SUFFICES ASSUME T # {} PROVE FALSE OBVIOUS
<1>1. PICK k \in T : \A m \in T : k <= m BY LeastNatural
<1>2. k # 0
  <2>1. Doubles([i \in Nat |-> 1], 0) BY DEF Doubles
  <2> QED BY <2>1
<1>3. PICK g \in [Nat -> Nat] : Doubles(g, k - 1) 
  <2>1. k - 1 \in Nat /\ k - 1 \notin T BY <1>1, <1>2
  <2> QED BY <2>1
<1> DEFINE h == [i \in Nat |-> IF i = k THEN 2 * g[k - 1] ELSE g[i]]
<1>4. h \in [Nat -> Nat] BY <1>2
<1>5. Doubles(h, k) BY <1>2, <1>3 DEF Doubles
<1> QED BY <1>4, <1>5

LEMMA DoublesUnique ==
  ASSUME NEW n \in Nat, NEW m \in Nat, NEW g \in [Nat -> Nat], NEW h \in [Nat -> Nat],
         Doubles(g, n), Doubles(h, m), n <= m
  PROVE  g[n] = h[n]
<1> DEFINE T == {k \in Nat : k <= n /\ g[k] # h[k]}
<1> SUFFICES ASSUME T # {} PROVE FALSE BY DEF T
<1>1. PICK k \in T : \A j \in T : k <= j BY LeastNatural
<1>2. k # 0 BY DEF Doubles
<1>3. g[k - 1] = h[k - 1] BY <1>1, <1>2
<1> QED BY <1>2, <1>3 DEF Doubles

\* What the recursive definition of PowerOfTwo stands for.
LEMMA PowerOfTwoDef ==
  /\ PowerOfTwo \in [Nat -> Nat]
  /\ \A n \in Nat : PowerOfTwo[n] = IF n = 0 THEN 1 ELSE 2 * PowerOfTwo[n - 1]
<1> DEFINE G == [n \in Nat |-> CHOOSE g \in [Nat -> Nat] : Doubles(g, n)]
           F == [n \in Nat |-> G[n][n]]
<1>1. \A n \in Nat : G[n] \in [Nat -> Nat] /\ Doubles(G[n], n)
  BY DoublesExists
<1>2. F \in [Nat -> Nat] BY <1>1
<1>3. \A n \in Nat : F[n] = IF n = 0 THEN 1 ELSE 2 * F[n - 1]
  <2> SUFFICES ASSUME NEW n \in Nat PROVE F[n] = IF n = 0 THEN 1 ELSE 2 * F[n - 1]
    OBVIOUS
  <2> HIDE DEF G
  <2>1. G[n][n] = IF n = 0 THEN 1 ELSE 2 * G[n][n - 1] BY <1>1 DEF Doubles
  <2>2. CASE n = 0 BY <2>1, <2>2
  <2>3. CASE n # 0
    <3>1. n - 1 \in Nat /\ n - 1 <= n /\ Doubles(G[n - 1], n - 1) /\ Doubles(G[n], n)
          /\ G[n - 1] \in [Nat -> Nat] /\ G[n] \in [Nat -> Nat]
      BY <1>1, <2>3
    <3>2. G[n - 1][n - 1] = G[n][n - 1] BY <3>1, DoublesUnique
    <3> QED BY <2>1, <2>3, <3>1, <3>2
  <2> QED BY <2>2, <2>3
<1>4. F = [n \in Nat |-> IF n = 0 THEN 1 ELSE 2 * F[n - 1]]
  <2> HIDE DEF F
  <2> QED BY <1>2, <1>3
<1> HIDE DEF F
<1>5. PowerOfTwo = [n \in Nat |-> IF n = 0 THEN 1 ELSE 2 * PowerOfTwo[n - 1]]
  BY <1>4 DEF PowerOfTwo
<1>6. \A n \in Nat : PowerOfTwo[n] = IF n = 0 THEN 1 ELSE 2 * PowerOfTwo[n - 1]
  BY <1>5
<1>7. \A n \in Nat : PowerOfTwo[n] = F[n]
  <2> DEFINE T == {n \in Nat : PowerOfTwo[n] # F[n]}
  <2> SUFFICES ASSUME T # {} PROVE FALSE OBVIOUS
  <2>1. PICK n \in T : \A m \in T : n <= m BY LeastNatural
  <2>2. n # 0 BY <1>3, <1>6
  <2>3. n - 1 \in Nat /\ PowerOfTwo[n - 1] = F[n - 1] BY <2>1, <2>2
  <2> QED BY <1>3, <1>6, <2>2, <2>3
<1> QED BY <1>2, <1>5, <1>6, <1>7

\* Doubling never stops growing.
LEMMA PowerOfTwoGrows ==
  ASSUME NEW n \in Nat
  PROVE  PowerOfTwo[n] \in Nat /\ PowerOfTwo[n] >= 1 /\ PowerOfTwo[n + 1] = 2 * PowerOfTwo[n]
<1> DEFINE T == {k \in Nat : ~(PowerOfTwo[k] >= 1)}
<1>1. T = {}
  <2> SUFFICES ASSUME T # {} PROVE FALSE OBVIOUS
  <2>1. PICK k \in T : \A m \in T : k <= m BY LeastNatural
  <2>2. k # 0 BY PowerOfTwoDef
  <2>3. k - 1 \in Nat /\ PowerOfTwo[k - 1] >= 1 BY <2>1, <2>2
  <2> QED BY <2>2, <2>3, PowerOfTwoDef
<1> QED BY <1>1, PowerOfTwoDef

----------------------------------------------------------------------------

LEMMA BackoffInt ==
  ASSUME NEW attempt \in Nat \ {0}, NEW retry \in Retry
  PROVE  Backoff(attempt, retry) \in Int
<1>1. PowerOfTwo[attempt - 1] \in Int BY PowerOfTwoDef
<1>2. retry.initial_delay_sec \in Int /\ retry.max_delay_sec \in Int BY DEF Retry
<1>3. \A n \in Int : Int32(n) \in Int BY IntMaxAssumption DEF Int32
<1>4. retry.initial_delay_sec * PowerOfTwo[attempt - 1] \in Int BY <1>1, <1>2
<1>5. Int32(retry.initial_delay_sec * attempt) \in Int BY <1>2, <1>3
<1> QED BY <1>2, <1>4, <1>5 DEF Backoff, Lesser

\* Whatever a configuration file says, validate_retry_policy makes of it a
\* policy with a known backoff, no negative limit, and delays that are positive
\* and in order.
THEOREM ValidPolicies ==
  ASSUME NEW raw \in RawRetry
  PROVE  LET retry == ValidateRetryPolicy(raw)
         IN  /\ retry \in Retry
             /\ 1 <= retry.initial_delay_sec
             /\ retry.initial_delay_sec <= retry.max_delay_sec
<1> DEFINE initial == IF raw.initial_delay_sec <= 0 THEN 1 ELSE raw.initial_delay_sec
           max     == IF raw.max_delay_sec <= 0 THEN 60 ELSE raw.max_delay_sec
           limit   == IF raw.limit < 0 THEN 0 ELSE raw.limit
           backoff == IF raw.backoff \in Backoffs THEN raw.backoff ELSE "exponential"
           retry   == ValidateRetryPolicy(raw)
<1>1. initial \in Nat \ {0} /\ max \in Nat \ {0} /\ limit \in Nat BY DEF RawRetry
<1>2. backoff \in Backoffs BY DEF Backoffs
<1>3. retry = [limit |-> limit, backoff |-> backoff,
               initial_delay_sec |-> Lesser(initial, max),
               max_delay_sec |-> IF max < initial THEN initial ELSE max]
  BY DEF ValidateRetryPolicy
<1> HIDE DEF initial, max, limit, backoff, retry
<1> QED BY <1>1, <1>2, <1>3 DEF Lesser, Retry, retry

\* A value that fits an int32_t is not changed by it.
LEMMA Int32Fits ==
  ASSUME NEW n \in 0 .. IntMax
  PROVE  Int32(n) = n
<1>1. n + IntMax + 1 \in Nat /\ n + IntMax + 1 < 2 * (IntMax + 1) BY IntMaxAssumption
<1>2. \A a, b \in Nat : a < b => a % b = a OBVIOUS
<1>3. (n + IntMax + 1) % (2 * (IntMax + 1)) = n + IntMax + 1
  BY <1>1, <1>2, IntMaxAssumption
<1> QED BY <1>3, IntMaxAssumption DEF Int32

\* The retries a delay is computed for without overflow: the linear delay is a
\* product of two int32_t, the other two fit whatever the attempt.
ProductFits(attempt, retry) ==
  retry.backoff = "linear" => retry.initial_delay_sec * attempt <= IntMax

\* A policy whose delays are positive and in order, as ValidPolicies shows of
\* every policy the daemon runs with.
Ordered(retry) == /\ retry \in Retry
                  /\ 1 <= retry.initial_delay_sec
                  /\ retry.initial_delay_sec <= retry.max_delay_sec

LEMMA ProductGrows ==
  ASSUME NEW a \in Nat \ {0}, NEW m \in Nat, NEW n \in Nat, m <= n
  PROVE  a * m \in Nat /\ a * n \in Nat /\ a * m <= a * n /\ (m >= 1 => a * m >= 1)
<1>1. a * n = a * m + a * (n - m) OBVIOUS
<1>2. \A x, y \in Nat : x * y \in Nat OBVIOUS
<1>3. \A x, y \in Nat : x >= 1 /\ y >= 1 => x * y >= 1 OBVIOUS
<1> QED BY <1>1, <1>2, <1>3

\* The delay of an ordered policy, product by product: what is computed before
\* it is capped.
LEMMA DelayOf ==
  ASSUME NEW attempt \in Nat \ {0}, NEW retry, Ordered(retry), ProductFits(attempt, retry)
  PROVE  Backoff(attempt, retry) =
           IF retry.backoff = "exponential"
           THEN Lesser(retry.initial_delay_sec * PowerOfTwo[attempt - 1], retry.max_delay_sec)
           ELSE IF retry.backoff = "linear"
                THEN Lesser(retry.initial_delay_sec * attempt, retry.max_delay_sec)
                ELSE retry.initial_delay_sec
<1>1. CASE retry.backoff = "linear"
  <2>1. retry.initial_delay_sec * attempt \in 0 .. IntMax
    BY <1>1, ProductGrows, IntMaxAssumption DEF ProductFits, Ordered, Retry
  <2> QED BY <1>1, <2>1, Int32Fits DEF Backoff
<1>2. CASE retry.backoff # "linear" BY <1>2 DEF Backoff
<1> QED BY <1>1, <1>2

\* Every delay of a valid policy is at least a second and at most
\* max_delay_sec, for each kind of backoff and every attempt, as long as a
\* linear product fits an int32_t (calculate_backoff_delay).
THEOREM BackoffWithinCap ==
  ASSUME NEW attempt \in Nat \ {0}, NEW retry, Ordered(retry), ProductFits(attempt, retry)
  PROVE  Backoff(attempt, retry) \in 1 .. retry.max_delay_sec
<1> DEFINE initial == retry.initial_delay_sec
           max     == retry.max_delay_sec
           power   == PowerOfTwo[attempt - 1]
<1>1. initial \in Nat \ {0} /\ max \in Nat \ {0} /\ initial <= max BY DEF Ordered, Retry
<1>2. power \in Nat /\ power >= 1 BY PowerOfTwoGrows
<1> HIDE DEF initial, max, power
<1>3. initial * power \in Nat /\ initial * power >= 1 BY <1>1, <1>2, ProductGrows
<1>4. initial * attempt \in Nat /\ initial * attempt >= 1 BY <1>1, ProductGrows
<1>5. \A n \in Nat : n >= 1 => Lesser(n, max) \in 1 .. max BY <1>1 DEF Lesser
<1>6. Lesser(initial * power, max) \in 1 .. max BY <1>3, <1>5
<1>7. Lesser(initial * attempt, max) \in 1 .. max BY <1>4, <1>5
<1> QED BY <1>1, <1>6, <1>7, DelayOf DEF initial, max, power

\* The next delay of a valid policy is no shorter than this one, whatever the
\* backoff, as long as a linear product fits an int32_t
\* (calculate_backoff_delay).
THEOREM BackoffNeverShrinks ==
  ASSUME NEW attempt \in Nat \ {0}, NEW retry, Ordered(retry), ProductFits(attempt + 1, retry)
  PROVE  /\ ProductFits(attempt, retry)
         /\ Backoff(attempt, retry) <= Backoff(attempt + 1, retry)
<1> DEFINE initial == retry.initial_delay_sec
           max     == retry.max_delay_sec
           power   == PowerOfTwo[attempt - 1]
           next    == PowerOfTwo[attempt]
<1>1. initial \in Nat \ {0} /\ max \in Nat \ {0} /\ initial <= max BY DEF Ordered, Retry
<1>2. power \in Nat /\ next \in Nat /\ power <= next
  <2>1. attempt - 1 \in Nat /\ (attempt - 1) + 1 = attempt OBVIOUS
  <2>2. PowerOfTwo[attempt - 1] \in Nat /\ PowerOfTwo[(attempt - 1) + 1] = 2 * PowerOfTwo[attempt - 1]
    BY <2>1, PowerOfTwoGrows
  <2>3. next = 2 * power BY <2>1, <2>2
  <2> QED BY <2>2, <2>3
<1> HIDE DEF initial, max, power, next
<1>3. initial * power \in Nat /\ initial * next \in Nat /\ initial * power <= initial * next
  BY <1>1, <1>2, ProductGrows
<1>4. /\ initial * attempt \in Nat /\ initial * (attempt + 1) \in Nat
      /\ initial * attempt <= initial * (attempt + 1)
  BY <1>1, ProductGrows
<1>5. \A m, n \in Nat : m <= n => Lesser(m, max) <= Lesser(n, max) BY <1>1 DEF Lesser
<1>6. ProductFits(attempt, retry)
  BY <1>4, IntMaxAssumption DEF ProductFits, initial
<1>7. (attempt + 1) - 1 = attempt OBVIOUS
<1>8. CASE retry.backoff = "exponential"
  <2>1. Backoff(attempt, retry) = Lesser(initial * power, max)
    BY <1>6, <1>8, DelayOf DEF initial, power, max
  <2>2. Backoff(attempt + 1, retry) = Lesser(initial * next, max)
    BY <1>7, <1>8, DelayOf DEF initial, next, max
  <2> QED BY <1>3, <1>5, <1>6, <2>1, <2>2
<1>9. CASE retry.backoff = "linear"
  <2>1. Backoff(attempt, retry) = Lesser(initial * attempt, max)
    BY <1>6, <1>9, DelayOf DEF initial, max
  <2>2. Backoff(attempt + 1, retry) = Lesser(initial * (attempt + 1), max)
    BY <1>9, DelayOf DEF initial, max
  <2> QED BY <1>4, <1>5, <1>6, <2>1, <2>2
<1>10. CASE retry.backoff # "exponential" /\ retry.backoff # "linear"
  <2>1. Backoff(attempt, retry) = initial /\ Backoff(attempt + 1, retry) = initial
    BY <1>6, <1>10, DelayOf DEF initial
  <2> QED BY <1>1, <1>6, <2>1
<1> QED BY <1>8, <1>9, <1>10

\* What the overflow does: the first products of a linear delay that no int32_t
\* holds come out negative, so that the message is due at once instead of after
\* max_delay_sec (QueueManager.cpp:291 multiplies before it takes the minimum).
THEOREM OverflowIsNegative ==
  ASSUME NEW attempt \in Nat \ {0}, NEW retry, Ordered(retry), retry.backoff = "linear",
         retry.initial_delay_sec * attempt \in IntMax + 1 .. 2 * IntMax + 1
  PROVE  Backoff(attempt, retry) < 0
<1> DEFINE product == retry.initial_delay_sec * attempt
           modulus == 2 * (IntMax + 1)
<1>1. product \in Nat /\ IntMax + 1 <= product /\ product <= 2 * IntMax + 1
  BY IntMaxAssumption
<1>2. modulus \in Nat \ {0} /\ product + IntMax + 1 = modulus + (product - (IntMax + 1))
  BY <1>1, IntMaxAssumption
<1>3. product - (IntMax + 1) \in Nat /\ product - (IntMax + 1) < modulus
  BY <1>1, IntMaxAssumption
<1> HIDE DEF product
<1>4. (product + IntMax + 1) % modulus = product - (IntMax + 1)
  <2>1. \A m \in Nat \ {0}, r \in Nat : r < m => (m + r) % m = r OBVIOUS
  <2> QED BY <1>2, <1>3, <2>1
<1>5. Int32(product) = product - 2 * (IntMax + 1) BY <1>1, <1>4, IntMaxAssumption DEF Int32
<1>6. Int32(product) < 0 BY <1>1, <1>5, IntMaxAssumption
<1>7. Backoff(attempt, retry) = Lesser(Int32(product), retry.max_delay_sec)
  BY DEF Backoff, product
<1> QED BY <1>5, <1>6, <1>7, <1>1, IntMaxAssumption DEF Lesser, Ordered, Retry
============================================================================
