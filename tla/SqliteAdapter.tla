--------------------------- MODULE SqliteAdapter ---------------------------
(***************************************************************************)
(* The SQLite backend of MainMQ: the kv table (one value per message key)  *)
(* and the message index (one row per message key, with a foreign key to   *)
(* kv, ON DELETE CASCADE).  Every operation holds db_mutex_ and runs in    *)
(* one transaction, so each is one action; a transaction that fails is     *)
(* rolled back and leaves both tables as they were, which is a stutter.    *)
(* The clock is in seconds, the unit of every timeout of the interface.    *)
(* Of the value in kv only its presence is kept: nack, move_to_dlq and     *)
(* reprocess also rewrite the envelope in it, but they commit when that    *)
(* rewrite fails, and nothing in the backend reads what it wrote.          *)
(***************************************************************************)
EXTENDS Integers, FiniteSets

CONSTANTS
  Keys,          \* message keys "msg:<queue>:<guid>"
  Queues,        \* queue names
  Consumers,     \* consumer ids
  AnyConsumer,   \* the empty target_consumer_id
  Priorities,    \* priorities a publisher asks for
  PublishDelays, \* delays a publisher asks for, in seconds
  VisTimeouts,   \* visibility timeouts a consumer asks for, in seconds
  MaxTime,       \* bound: last value of the clock
  MaxAttempt     \* bound: deliveries of one message

ASSUME SqliteAssumption ==
  /\ AnyConsumer \notin Consumers
  /\ Priorities \subseteq Int
  /\ PublishDelays \subseteq Nat
  /\ VisTimeouts \subseteq Nat
  /\ MaxTime \in Nat
  /\ MaxAttempt \in Nat

VARIABLES
  kv,     \* the message keys that have a row in the kv table
  index,  \* the message index: message key -> row
  now     \* the clock the adapter reads (milliseconds in the code)

storeVars == <<kv, index>>
sqlVars == <<kv, index, now>>

NULL == -1   \* SQL NULL in a timestamp column; timestamps are not negative

States == {"ready", "inflight", "delayed", "dlq"}

Row == [queue        : Queues,
        state        : States,
        priority     : Int,
        available_at : Int,
        lease_until  : Int,
        attempt      : Nat,
        target       : Consumers \cup {AnyConsumer},
        dlq_reason   : BOOLEAN]   \* dlq_reason and dlq_at are set, not NULL

----------------------------------------------------------------------------
(* Reading the index.                                                      *)

Stored == DOMAIN index

InState(s) == {k \in Stored : index[k].state = s}

\* A wrong variant: a lease is over at lease_until already.
ExpiredEarly == {k \in InState("inflight") : index[k].lease_until <= now}

\* WHERE state = 'inflight' AND lease_until < now
Expired == {k \in InState("inflight") : index[k].lease_until < now}

\* WHERE state = 'delayed' AND available_at <= now
Due == {k \in InState("delayed") : index[k].available_at <= now}

\* The rows lease_next may hand to consumer c.
Available(q, c) == {k \in InState("ready") :
                      /\ index[k].queue = q
                      /\ index[k].available_at <= now
                      /\ index[k].target \in {AnyConsumer, c}}

\* ORDER BY priority DESC, available_at ASC
Precedes(j, k) == \/ index[j].priority > index[k].priority
                  \/ /\ index[j].priority = index[k].priority
                     /\ index[j].available_at < index[k].available_at

(* Writing the index.                                                      *)

Insert(k, row) == [j \in Stored \cup {k} |-> IF j = k THEN row ELSE index[j]]

Delete(k) == [j \in Stored \ {k} |-> index[j]]

\* Every way out of inflight clears lease_until with the state.
Moved(row, s, at) == [row EXCEPT !.state = s, !.lease_until = NULL, !.available_at = at]

\* move_to_dlq writes the reason with the state.
Blamed(row) == [Moved(row, "dlq", row.available_at) EXCEPT !.dlq_reason = TRUE]

Leased(row, until) == [row EXCEPT !.state = "inflight", !.lease_until = until, !.attempt = @ + 1]

\* A wrong variant: the reason of the stay in the DLQ is not cleared.
ResetKeepsReason(row) == [Moved(row, "ready", now) EXCEPT !.attempt = 0]

\* What reprocess_dlq_message makes of a row.
Reset(row) == [Moved(row, "ready", now) EXCEPT !.attempt = 0, !.dlq_reason = FALSE]

MoveAll(S, s) == [j \in Stored |-> IF j \in S THEN Moved(index[j], s, index[j].available_at)
                                   ELSE index[j]]

----------------------------------------------------------------------------
(* Operations of publishers and consumers.                                 *)

\* The row enqueue inserts; only a message with a time in the future is delayed.
NewRow(q, p, d, t) ==
  [queue |-> q, state |-> IF d > 0 THEN "delayed" ELSE "ready", priority |-> p,
   available_at |-> now + d, lease_until |-> NULL, attempt |-> 0, target |-> t,
   dlq_reason |-> FALSE]

\* message_key is the primary key of both tables: an enqueue of a key either
\* table holds fails and is rolled back.
Enqueue(k, q, p, d, t) ==
  /\ k \notin kv /\ k \notin Stored
  /\ kv' = kv \cup {k}
  /\ index' = Insert(k, NewRow(q, p, d, t))
  /\ UNCHANGED now

\* Consumer c leases message k of queue q for v seconds.  SQLite breaks ties of
\* the ORDER BY as it likes.  A row without a kv value is rolled back.
LeaseNext(k, q, c, v) ==
  /\ k \in Available(q, c) /\ k \in kv
  /\ \A j \in Available(q, c) : ~Precedes(j, k)
  /\ index[k].attempt < MaxAttempt
  /\ index' = [index EXCEPT ![k] = Leased(@, now + v)]
  /\ UNCHANGED <<kv, now>>

\* The index row goes if it is inflight; then the kv value goes whatever the
\* state, and the foreign key takes an index row still there with it.  Neither
\* the lease id, nor the consumer, nor lease_until is looked at.
Ack(k) ==
  /\ kv' = kv \ {k}
  /\ index' = Delete(k)
  /\ UNCHANGED now

\* A wrong variant: lease_until survives the requeue.
NackRequeueKeepsLease(k) ==
  /\ index' = IF k \in InState("inflight")
              THEN [index EXCEPT ![k].state = "ready", ![k].available_at = now]
              ELSE index
  /\ UNCHANGED <<kv, now>>

\* nack with requeue: UPDATE ... WHERE state = 'inflight'; no row, no effect.
NackRequeue(k) ==
  /\ index' = IF k \in InState("inflight")
              THEN [index EXCEPT ![k] = Moved(@, "ready", now)]
              ELSE index
  /\ UNCHANGED <<kv, now>>

\* nack without requeue: the row only if inflight; its reason goes to the
\* envelope alone, not to the column dlq_reason.
NackReject(k) ==
  /\ index' = IF k \in InState("inflight")
              THEN [index EXCEPT ![k] = Moved(@, "dlq", @.available_at)]
              ELSE index
  /\ UNCHANGED <<kv, now>>

\* extend_lease writes now + v, also when that is earlier than the old end.
ExtendLease(k, v) ==
  /\ k \in InState("inflight") /\ index[k].lease_until > now
  /\ index' = [index EXCEPT ![k].lease_until = now + v]
  /\ UNCHANGED <<kv, now>>

----------------------------------------------------------------------------
(* Operations of the sweeps and of the operator.                           *)

RecoverExpiredLeases ==
  /\ index' = MoveAll(Expired, "ready")
  /\ UNCHANGED <<kv, now>>

\* A wrong variant: milliseconds of the row are compared with a clock in seconds.
PromoteNever ==
  /\ index' = MoveAll({k \in Due : index[k].available_at * 1000 <= now}, "ready")
  /\ UNCHANGED <<kv, now>>

ProcessDelayed ==
  /\ index' = MoveAll(Due, "ready")
  /\ UNCHANGED <<kv, now>>

\* A wrong variant: the message is made ready at once, with its time ahead.
DelayAsReady(k, d) ==
  /\ index' = IF k \in Stored
              THEN [index EXCEPT ![k] = Moved(@, "ready", now + d)] ELSE index
  /\ UNCHANGED <<kv, now>>

\* A wrong variant: an upsert, which brings back a row that was deleted.
DelayUpsert(k, d) ==
  /\ kv' = kv \cup {k}
  /\ index' = IF k \in Stored
              THEN [index EXCEPT ![k] = Moved(@, "delayed", now + d)]
              ELSE Insert(k, NewRow(CHOOSE q \in Queues : TRUE, 0, d, AnyConsumer))
  /\ UNCHANGED now

\* delay_message: UPDATE ... WHERE message_key = ?, whatever the state.
DelayMessage(k, d) ==
  /\ index' = IF k \in Stored
              THEN [index EXCEPT ![k] = Moved(@, "delayed", now + d)] ELSE index
  /\ UNCHANGED <<kv, now>>

\* A wrong variant: the state written is one no query looks for.
MoveToDead(k) ==
  /\ index' = IF k \in Stored
              THEN [index EXCEPT ![k] = Moved(@, "dead", @.available_at)] ELSE index
  /\ UNCHANGED <<kv, now>>

\* A wrong variant: WHERE state = 'ready', but an expired lease is inflight.
MoveToDlqIfReady(k) ==
  /\ index' = IF k \in InState("ready") THEN [index EXCEPT ![k] = Blamed(@)] ELSE index
  /\ UNCHANGED <<kv, now>>

\* move_to_dlq, whatever the state.
MoveToDlq(k) ==
  /\ index' = IF k \in Stored THEN [index EXCEPT ![k] = Blamed(@)] ELSE index
  /\ UNCHANGED <<kv, now>>

\* reprocess_dlq_message: the row only if in the DLQ.
ReprocessDlq(k) ==
  /\ index' = IF k \in InState("dlq") THEN [index EXCEPT ![k] = Reset(@)] ELSE index
  /\ UNCHANGED <<kv, now>>

\* Time passes.  The clock does not go back, and it is stopped while no
\* lease_until or available_at is ahead of it: no operation could tell.
Tick ==
  /\ now < MaxTime
  /\ \E k \in Stored : index[k].lease_until >= now \/ index[k].available_at > now
  /\ now' = now + 1
  /\ UNCHANGED storeVars

----------------------------------------------------------------------------
(* The adapter under any caller of the BackendAdapter interface.           *)

SqlInit == /\ kv = {}
           /\ index = [k \in {} |-> NULL]
           /\ now = 0

CallerStep(k) ==
  \/ \E q \in Queues, p \in Priorities, d \in PublishDelays, t \in Consumers \cup {AnyConsumer} :
        Enqueue(k, q, p, d, t)
  \/ \E q \in Queues, c \in Consumers, v \in VisTimeouts : LeaseNext(k, q, c, v)
  \/ Ack(k)
  \/ NackRequeue(k)
  \/ NackReject(k)
  \/ \E v \in VisTimeouts : ExtendLease(k, v)
  \/ \E d \in PublishDelays : DelayMessage(k, d)
  \/ MoveToDlq(k)
  \/ ReprocessDlq(k)

SqlNext == \/ \E k \in Keys : CallerStep(k)
           \/ RecoverExpiredLeases
           \/ ProcessDelayed
           \/ Tick

SqlSpec == SqlInit /\ [][SqlNext]_sqlVars

----------------------------------------------------------------------------
(* Properties.                                                             *)

SqlTypeOK ==
  /\ kv \subseteq Keys
  /\ index \in [Stored -> Row]
  /\ now \in Nat

\* The two tables hold the same messages (enqueue inserts both rows in one
\* transaction, ack deletes both): no index row is left without the payload
\* lease_next must read, and no value is left that nothing refers to.
TablesAgree == Stored = kv

\* A row has a lease exactly while it is inflight: a lease_until left behind by
\* a requeue, a delay or a dead-lettering would be read as an expired lease
\* when the message is next leased.
LeaseIffInflight == \A k \in Stored : (index[k].lease_until # NULL) <=> (index[k].state = "inflight")

\* A message becomes ready no earlier than its available_at, whichever of
\* enqueue, nack, process_delayed_messages, recover_expired_leases and
\* reprocess_dlq_message made it ready, so that the delay of a publisher and
\* the backoff of a retry are really waited for.
ReadyIsDue == \A k \in InState("ready") \cup InState("inflight") : index[k].available_at <= now

\* A message in use has been counted: its delivery is in its row.
AttemptCounted == \A k \in InState("inflight") : index[k].attempt >= 1

StoreInv == TablesAgree /\ LeaseIffInflight /\ ReadyIsDue /\ AttemptCounted
============================================================================
