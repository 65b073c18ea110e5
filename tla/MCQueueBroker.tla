--------------------------- MODULE MCQueueBroker ---------------------------
(* Values for the constants of QueueBroker that a .cfg cannot write.       *)
EXTENDS QueueBroker, TLC

CONSTANTS q1, q2, q3

OnePriority == {0}
NoDelay == {0}
SomeDelay == {0, 1}
ShortTimeout == {1}
\* A lease of one second cannot be extended to any effect, one of two can.
TwoTimeouts == {1, 2}
LongTimeout == {2}

Policy(limit, backoff, dlq) ==
  [retry |-> ValidateRetryPolicy([limit |-> limit, backoff |-> backoff,
                                  initial_delay_sec |-> 1, max_delay_sec |-> 2]),
   dlq_enabled |-> dlq]

DlqPolicies == [q \in {q1} |-> Policy(2, "exponential", TRUE)]
\* A queue with a DLQ, and one without.
MixedPolicies == (q1 :> Policy(2, "exponential", TRUE)) @@ (q2 :> Policy(1, "fixed", FALSE))
\* Two queues of the configuration, and one only a publisher named.
AllPolicies ==
  (q1 :> Policy(2, "exponential", TRUE)) @@ (q2 :> Policy(1, "fixed", FALSE)) @@ (q3 :> NoPolicy)

KeySymmetry == Permutations(Keys) \cup Permutations(Consumers)
============================================================================
