---------------------------- MODULE QueueBroker ----------------------------
(***************************************************************************)
(* The daemon with its SQLite backend: clients whose requests reach the    *)
(* adapter one at a time, and the two sweeps of QueueManager.  The lease   *)
(* sweep reads the list of expired leases in one transaction and then      *)
(* treats each entry in a transaction of its own; what the list says of a  *)
(* message may have changed by the time its entry is treated.              *)
(***************************************************************************)
EXTENDS SqliteAdapter, RetryPolicy

CONSTANTS
  Policies,     \* queue -> the policy register_queue was given, or NoPolicy
  NoPolicy,
  ClientOps,    \* the commands clients send, besides publish and consume
  StoreErrors,  \* whether a transaction of the sweep may fail
  LastExtend,   \* bound: no lease is extended after this time
  MaxRestarts   \* bound: how often the daemon is killed and started again

AllClientOps == {"ack", "requeue", "reject", "extend", "reprocess"}

ASSUME BrokerAssumption ==
  /\ Policies \in [Queues -> [retry : Retry, dlq_enabled : BOOLEAN] \cup {NoPolicy}]
  /\ NoPolicy \notin [retry : Retry, dlq_enabled : BOOLEAN]
  /\ ClientOps \subseteq AllClientOps
  /\ StoreErrors \in BOOLEAN
  /\ LastExtend \in Nat
  /\ MaxRestarts \in Nat

VARIABLES
  listed,      \* entries of expired_list the lease sweep has still to treat
  published,   \* message keys that were ever published
  delivered,   \* <<c, k>>: consumer c was given a lease of k and knows its key
  acked,       \* messages a consumer acknowledged
  restarts     \* how often the daemon was started again

brokerVars == <<listed, published, delivered, acked, restarts>>
vars == <<kv, index, now, listed, published, delivered, acked, restarts>>

Entry == [key : Keys, queue : Queues, attempt : Nat]

----------------------------------------------------------------------------
(* Clients.  A consumer may use the key of a lease at any later time, or   *)
(* never (it crashed, or the response came after it had given up).         *)

\* handle_publish: the key holds a fresh GUID.
Publish(k, q, p, d, t) ==
  /\ k \notin published
  /\ Enqueue(k, q, p, d, t)
  /\ published' = published \cup {k}
  /\ UNCHANGED <<listed, delivered, acked, restarts>>

\* handle_consume_next
ConsumeNext(k, q, c, v) ==
  /\ LeaseNext(k, q, c, v)
  /\ delivered' = delivered \cup {<<c, k>>}
  /\ UNCHANGED <<listed, published, acked, restarts>>

\* handle_ack: the adapter answers ok whether or not there was a row.
ClientAck(c, k) ==
  /\ "ack" \in ClientOps
  /\ <<c, k>> \in delivered
  /\ Ack(k)
  /\ acked' = acked \cup {k}
  /\ UNCHANGED <<listed, published, delivered, restarts>>

\* handle_nack, requeue = true
ClientRequeue(c, k) ==
  /\ "requeue" \in ClientOps
  /\ <<c, k>> \in delivered
  /\ NackRequeue(k)
  /\ UNCHANGED brokerVars

\* handle_nack, requeue = false
ClientReject(c, k) ==
  /\ "reject" \in ClientOps
  /\ <<c, k>> \in delivered
  /\ NackReject(k)
  /\ UNCHANGED brokerVars

\* handle_extend_lease
ClientExtend(c, k, v) ==
  /\ "extend" \in ClientOps
  /\ now <= LastExtend
  /\ <<c, k>> \in delivered
  /\ ExtendLease(k, v)
  /\ UNCHANGED brokerVars

\* handle_reprocess_dlq: any client that ever saw the key in a list-dlq.
ClientReprocess(k) ==
  /\ "reprocess" \in ClientOps
  /\ k \in published
  /\ ReprocessDlq(k)
  /\ UNCHANGED brokerVars

----------------------------------------------------------------------------
(* The sweeps of QueueManager.                                             *)

EntryOf(k) == [key |-> k, queue |-> index[k].queue, attempt |-> index[k].attempt]

\* get_expired_inflight_messages, at the start of recover_expired_leases.
ListExpired ==
  /\ listed = {}
  /\ Expired # {}
  /\ listed' = {EntryOf(k) : k \in Expired}
  /\ UNCHANGED <<sqlVars, published, delivered, acked, restarts>>

Treated(e) == /\ e \in listed
              /\ listed' = listed \ {e}
              /\ UNCHANGED <<published, delivered, acked, restarts>>

VerdictOn(e) == IF Policies[e.queue] = NoPolicy THEN "recover"
                ELSE Verdict(e.attempt, Policies[e.queue])

\* No policy: the message is available again at once, through delayed.
SweepRecover(e) == Treated(e) /\ VerdictOn(e) = "recover" /\ DelayMessage(e.key, 0)

SweepRetry(e) == /\ Treated(e)
                 /\ VerdictOn(e) = "retry"
                 /\ DelayMessage(e.key, Backoff(e.attempt, Policies[e.queue].retry))

\* A wrong variant: the message to dead-letter is deleted instead.
SweepDrops(e) == /\ Treated(e)
                 /\ VerdictOn(e) = "dead_letter"
                 /\ Ack(e.key)

SweepDeadLetter(e) == Treated(e) /\ VerdictOn(e) = "dead_letter" /\ MoveToDlq(e.key)

\* Retries exhausted and no DLQ: the message stays in its current state.
SweepLeave(e) == Treated(e) /\ VerdictOn(e) = "leave" /\ UNCHANGED sqlVars

\* The transaction for this entry failed: logged, and the loop goes on.
SweepError(e) == StoreErrors /\ Treated(e) /\ UNCHANGED sqlVars

SweepEntry(e) == SweepRecover(e) \/ SweepRetry(e) \/ SweepDeadLetter(e) \/ SweepLeave(e)

\* The retry sweep.
RetrySweep == Due # {} /\ ProcessDelayed /\ UNCHANGED brokerVars

\* The daemon is killed and started again: the list is lost, the tables stay.
Restart ==
  /\ restarts < MaxRestarts
  /\ restarts' = restarts + 1
  /\ listed' = {}
  /\ UNCHANGED <<sqlVars, published, delivered, acked>>

Clock == Tick /\ UNCHANGED brokerVars

----------------------------------------------------------------------------

Init == SqlInit /\ listed = {} /\ published = {} /\ delivered = {} /\ acked = {} /\ restarts = 0

ClientStep(k) ==
  \/ \E q \in Queues, p \in Priorities, d \in PublishDelays, t \in Consumers \cup {AnyConsumer} :
        Publish(k, q, p, d, t)
  \/ \E q \in Queues, c \in Consumers, v \in VisTimeouts : ConsumeNext(k, q, c, v)
  \/ \E c \in Consumers : ClientAck(c, k) \/ ClientRequeue(c, k) \/ ClientReject(c, k)
  \/ \E c \in Consumers, v \in VisTimeouts : ClientExtend(c, k, v)
  \/ ClientReprocess(k)

Next ==
  \/ \E k \in Keys : ClientStep(k)
  \/ ListExpired
  \/ \E e \in listed : SweepEntry(e) \/ SweepError(e)
  \/ RetrySweep
  \/ Restart
  \/ Clock

Spec == Init /\ [][Next]_vars

(* Both sweeps run in a loop on a thread of their own as long as the       *)
(* daemon runs, and a loop over a list gets to its end; time passes.       *)
SweepFairness ==
  /\ WF_vars(ListExpired)
  /\ WF_vars(\E e \in listed : SweepEntry(e))
  /\ WF_vars(RetrySweep)
  /\ WF_vars(Clock)

(* The consumer program polls its queues in a loop.                        *)
PollFairness == \A c \in Consumers, q \in Queues :
  WF_vars(\E k \in Keys, v \in VisTimeouts : ConsumeNext(k, q, c, v))

SweepSpec == Spec /\ SweepFairness
FairSpec == SweepSpec /\ PollFairness
----------------------------------------------------------------------------
(* Safety.                                                                 *)

TypeOK ==
  /\ SqlTypeOK
  /\ listed \subseteq Entry
  /\ published \subseteq Keys
  /\ delivered \subseteq Consumers \X Keys
  /\ acked \subseteq Keys
  /\ restarts \in Nat

\* No message is lost and none comes back: what the store holds is exactly what
\* was published and not acknowledged, through late requests on keys of old
\* leases, stale sweep entries, failed transactions and restarts.
StoredUntilAcked == Stored = published \ acked

\* A message handed out again only because its lease ran out is handed out at
\* most retry.limit times (once, at least) before it goes to the DLQ, although
\* the sweep decides on the attempt it read before it treats the message.
Larger(a, b) == IF a < b THEN b ELSE a

Allowed(policy) == Larger(1, policy.retry.limit)

RetriesBounded ==
  "requeue" \notin ClientOps =>
    \A k \in Stored : Policies[index[k].queue] # NoPolicy =>
                        index[k].attempt <= Allowed(Policies[index[k].queue])

\* A reason in the index is the reason of the present stay in the DLQ: list-dlq
\* never shows, for a message a consumer rejected, the reason an earlier stay
\* left in its row, although the sweep's delay_message takes a row out of any
\* state, the DLQ too, and leaves the column as it is.
ReasonIsCurrent ==
  \A k \in Stored : index[k].dlq_reason =>
    /\ index[k].state = "dlq"
    /\ \A e \in listed : e.key # k

\* Whenever a message may be handed to a consumer that asks, the ORDER BY of
\* lease_next has a first row, and that row has its kv value: no row blocks the
\* queue for the others, whatever priorities and times they have.
SomeoneFirst ==
  \A q \in Queues, c \in Consumers : Available(q, c) # {} =>
    \E k \in Available(q, c) \cap kv : \A j \in Available(q, c) : ~Precedes(j, k)

\* An acknowledged message is never stored again and never handed to anybody
\* again, whatever old leases, stale entries of the sweep and restarts do.
NeverBack(k) ==
  /\ k \in acked' /\ k \notin Stored'
  /\ \A c \in Consumers : <<c, k>> \in delivered' => <<c, k>> \in delivered

AckedIsFinal == [][\A k \in acked : NeverBack(k)]_vars

\* The daemon over SQLite keeps the contract of the queue.
Promise == INSTANCE AtLeastOnce
             WITH Messages <- Keys, Takers <- Consumers, owed <- Stored,
                  buried <- InState("dlq"), handed <- delivered, settled <- acked

KeepsContract == Promise!Contract

----------------------------------------------------------------------------
(* Liveness.                                                               *)

\* The retries of the message are used up and its queue has no DLQ: the sweep
\* leaves it inflight each time, and nothing else takes it out.
LeftInflight(k) ==
  /\ k \in InState("inflight")
  /\ Policies[index[k].queue] # NoPolicy
  /\ ~Policies[index[k].queue].dlq_enabled
  /\ index[k].attempt >= Policies[index[k].queue].retry.limit

\* A lease that ran out does not stay: the lease sweep retries the message or
\* dead-letters it (README.md:118, automatic recovery of a failed consumer),
\* but for the last lease of a message in a queue whose DLQ is disabled.
ExpiredRecovered == \A k \in Keys : []<>(k \notin Expired \/ LeftInflight(k))

\* A delayed message whose time has come is made ready by the retry sweep.
DuePromoted == \A k \in Keys : []<>(k \notin Due)

\* A message no consumer ever manages to process is quarantined in the DLQ,
\* after it was handed out a bounded number of times; where the DLQ is disabled
\* (QueueManager.cpp:253 calls it dropped) it stays inflight for ever.  A
\* consumer that prolongs its lease again and again keeps the message, also
\* when it never processes it: nothing bounds the extensions of a lease.
Prolonged(k) == \E c \in Consumers, v \in VisTimeouts : ClientExtend(c, k, v)

PoisonQuarantined ==
  \A k \in Keys : \/ []<>(k \in published => k \in acked \cup InState("dlq"))
                  \/ <>[]LeftInflight(k)
                  \/ []<><<Prolonged(k)>>_vars

----------------------------------------------------------------------------
(* What the manual says of leases: true while no consumer gives a message  *)
(* back (proved in QueueBrokerProofs), false otherwise.                    *)

\* README.md:106: an inflight message leaves by a timeout, an ack or a nack; the
\* sweep does nothing to a lease that has not run out.
LiveLeaseKept ==
  [][\A e \in listed \ listed' :
       (e.key \in InState("inflight") /\ index[e.key].lease_until >= now)
          => index' = index]_vars
============================================================================
