------------------------- MODULE QueueBrokerProofs -------------------------
(***************************************************************************)
(* First the tables of the SQLite adapter: they keep their invariant under *)
(* every operation, for any keys, queues, consumers, delays and timeouts,  *)
(* with one lemma per operation; the delay of delay_message is any         *)
(* integer, so that the lemmas serve every caller.                         *)
(* Then the daemon over SQLite: it loses no message and revives none,      *)
(* keeps the contract AtLeastOnce, and bounds the deliveries of a message  *)
(* nobody requeues, for any policies, clients, delays, failures and        *)
(* restarts.                                                               *)
(***************************************************************************)
EXTENDS QueueBroker, RetryPolicyProofs, FiniteSetTheorems

\* What every row satisfies when the clock reads n.
Fits(row, n) == /\ row \in Row
                /\ (row.lease_until # NULL) <=> (row.state = "inflight")
                /\ row.state \in {"ready", "inflight"} => row.available_at <= n
                /\ row.state = "inflight" => row.attempt >= 1

\* The inductive invariant: SqlTypeOK and StoreInv, row by row.
SqlInv == /\ now \in Nat
          /\ kv \subseteq Keys
          /\ index \in [kv -> Row]
          /\ \A k \in kv : Fits(index[k], now)

LEMMA MovedRow ==
  ASSUME NEW row \in Row, NEW s \in States, NEW at \in Int
  PROVE  /\ Moved(row, s, at) \in Row
         /\ Moved(row, s, at).state = s
         /\ Moved(row, s, at).lease_until = NULL
         /\ Moved(row, s, at).available_at = at
         /\ Moved(row, s, at).attempt = row.attempt
         /\ Moved(row, s, at).queue = row.queue
         /\ Moved(row, s, at).dlq_reason = row.dlq_reason
<1> DEFINE r1 == [row EXCEPT !.state = s]
           r2 == [r1 EXCEPT !.lease_until = NULL]
           r3 == [r2 EXCEPT !.available_at = at]
<1>1. r1 \in Row BY DEF Row
<1>2. \A r \in Row : [r EXCEPT !.lease_until = NULL] \in Row BY DEF Row, NULL
<1>3. \A r \in Row : [r EXCEPT !.available_at = at] \in Row BY DEF Row
<1>4. r3 \in Row BY <1>1, <1>2, <1>3
<1>5. Moved(row, s, at) = r3 BY DEF Moved
<1> QED BY <1>4, <1>5 DEF Row

LEMMA BlamedRow ==
  ASSUME NEW row \in Row
  PROVE  /\ Blamed(row) \in Row
         /\ Blamed(row).state = "dlq"
         /\ Blamed(row).lease_until = NULL
         /\ Blamed(row).attempt = row.attempt
         /\ Blamed(row).queue = row.queue
         /\ Blamed(row).dlq_reason
<1> DEFINE moved == Moved(row, "dlq", row.available_at)
<1>1. "dlq" \in States /\ row.available_at \in Int BY DEF Row, States
<1>2. /\ moved \in Row /\ moved.state = "dlq" /\ moved.lease_until = NULL
      /\ moved.attempt = row.attempt /\ moved.queue = row.queue
  BY <1>1, MovedRow
<1>3. Blamed(row) = [moved EXCEPT !.dlq_reason = TRUE] BY DEF Blamed
<1> HIDE DEF moved
<1> QED BY <1>2, <1>3 DEF Row

LEMMA LeasedRow ==
  ASSUME NEW row \in Row, NEW until \in Int
  PROVE  /\ Leased(row, until) \in Row
         /\ Leased(row, until).state = "inflight"
         /\ Leased(row, until).lease_until = until
         /\ Leased(row, until).available_at = row.available_at
         /\ Leased(row, until).attempt = row.attempt + 1
         /\ Leased(row, until).queue = row.queue
         /\ Leased(row, until).dlq_reason = row.dlq_reason
<1> DEFINE r1 == [row EXCEPT !.state = "inflight"]
           r2 == [r1 EXCEPT !.lease_until = until]
           r3 == [r2 EXCEPT !.attempt = @ + 1]
<1>1. r1 \in Row BY DEF Row, States
<1>2. \A r \in Row : [r EXCEPT !.lease_until = until] \in Row BY DEF Row
<1>3. \A r \in Row : [r EXCEPT !.attempt = @ + 1] \in Row BY DEF Row
<1>4. r3 \in Row BY <1>1, <1>2, <1>3
<1>5. Leased(row, until) = r3 BY DEF Leased
<1> QED BY <1>4, <1>5 DEF Row

\* Replacing one row by a fitting one keeps the invariant.
LEMMA PutKeeps ==
  ASSUME SqlInv, NEW k \in kv, NEW row, Fits(row, now),
         index' = [index EXCEPT ![k] = row], kv' = kv, now' = now
  PROVE  SqlInv'
<1>1. index' \in [kv -> Row] BY DEF SqlInv, Fits
<1>2. index'[k] = row BY DEF SqlInv
<1>3. \A j \in kv \ {k} : index'[j] = index[j] BY DEF SqlInv
<1>4. \A j \in kv : Fits(index'[j], now) BY <1>2, <1>3 DEF SqlInv
<1> QED BY <1>1, <1>4 DEF SqlInv

LEMMA InitKeeps == SqlInit => SqlInv
  BY DEF SqlInit, SqlInv

LEMMA EnqueueKeeps ==
  ASSUME SqlInv, NEW k \in Keys, NEW q \in Queues, NEW p \in Int, NEW d \in Nat,
         NEW t \in Consumers \cup {AnyConsumer}, Enqueue(k, q, p, d, t)
  PROVE  SqlInv'
<1> DEFINE row == NewRow(q, p, d, t)
<1>1. Fits(row, now) /\ row.state # "dlq"
  BY DEF NewRow, Fits, Row, States, NULL, SqlInv
<1> HIDE DEF row
<1>2. Stored = kv BY DEF Stored, SqlInv
<1>3. /\ index' = [j \in kv \cup {k} |-> IF j = k THEN row ELSE index[j]]
      /\ k \notin kv /\ kv' = kv \cup {k} /\ now' = now
  BY <1>2 DEF Enqueue, Insert, row
<1>4. index'[k] = row BY <1>3
<1>5. \A j \in kv : index'[j] = index[j] BY <1>3
<1>6. index' \in [kv' -> Row] BY <1>1, <1>3 DEF SqlInv, Fits
<1> QED BY <1>1, <1>3, <1>4, <1>5, <1>6 DEF SqlInv

LEMMA LeaseKeeps ==
  ASSUME SqlInv, NEW k, NEW q, NEW c, NEW v \in Nat, LeaseNext(k, q, c, v)
  PROVE  SqlInv'
<1> DEFINE row == Leased(index[k], now + v)
<1>1. /\ k \in kv /\ index[k].state = "ready"
      /\ index' = [index EXCEPT ![k] = row] /\ kv' = kv /\ now' = now
  BY DEF LeaseNext, Available, InState
<1>2. index[k] \in Row /\ index[k].available_at <= now /\ now + v \in Nat
  BY <1>1 DEF SqlInv, Fits
<1>3. /\ row \in Row /\ row.state = "inflight" /\ row.lease_until = now + v
      /\ row.available_at = index[k].available_at /\ row.attempt = index[k].attempt + 1
  <2>1. now + v \in Int BY <1>2
  <2>2. row \in Row BY <1>2, <2>1, LeasedRow
  <2>3. row.state = "inflight" BY <1>2, <2>1, LeasedRow
  <2>4. row.lease_until = now + v BY <1>2, <2>1, LeasedRow
  <2>5. row.available_at = index[k].available_at BY <1>2, <2>1, LeasedRow
  <2>6. row.attempt = index[k].attempt + 1 BY <1>2, <2>1, LeasedRow
  <2> QED BY <2>2, <2>3, <2>4, <2>5, <2>6
<1> HIDE DEF row
<1>4. index[k].attempt \in Nat BY <1>2 DEF Row
<1>5. Fits(row, now)
  BY <1>2, <1>3, <1>4 DEF Fits, NULL
<1> QED BY <1>1, <1>3, <1>5, PutKeeps DEF SqlInv

LEMMA AckKeeps ==
  ASSUME SqlInv, NEW k, Ack(k)
  PROVE  SqlInv'
<1>1. /\ index' = [j \in kv \ {k} |-> index[j]] /\ kv' = kv \ {k}
      /\ now' = now
  BY DEF Ack, Delete, Stored, SqlInv
<1> QED BY <1>1 DEF SqlInv

\* A row moved to a state other than inflight fits, if it is due when ready.
LEMMA MovedFits ==
  ASSUME NEW n \in Nat, NEW row \in Row, NEW s \in {"ready", "delayed", "dlq"}, NEW at \in Int,
         s = "ready" => at <= n
  PROVE  Fits(Moved(row, s, at), n)
<1> DEFINE r == Moved(row, s, at)
<1>1. r \in Row /\ r.state = s /\ r.lease_until = NULL /\ r.available_at = at
  <2>1. s \in States BY DEF States
  <2>2. Moved(row, s, at) \in Row BY <2>1, MovedRow
  <2>3. Moved(row, s, at).state = s BY <2>1, MovedRow
  <2>4. Moved(row, s, at).lease_until = NULL BY <2>1, MovedRow
  <2>5. Moved(row, s, at).available_at = at BY <2>1, MovedRow
  <2> QED BY <2>2, <2>3, <2>4, <2>5
<1> HIDE DEF r
<1>2. Fits(r, n) BY <1>1 DEF Fits
<1> QED BY <1>2 DEF r

LEMMA NackRequeueKeeps ==
  ASSUME SqlInv, NEW k, NackRequeue(k)
  PROVE  SqlInv'
<1>1. Stored = kv BY DEF Stored, SqlInv
<1>2. CASE k \notin InState("inflight") BY <1>2 DEF NackRequeue, SqlInv
<1>3. CASE k \in InState("inflight")
  <2> DEFINE row == Moved(index[k], "ready", now)
  <2>1. k \in kv /\ index' = [index EXCEPT ![k] = row] /\ kv' = kv /\ now' = now
    BY <1>1, <1>3 DEF NackRequeue, InState
  <2>2. Fits(row, now) /\ row.state # "dlq"
    BY <2>1, MovedFits, MovedRow DEF SqlInv, States
  <2> HIDE DEF row
  <2> QED BY <2>1, <2>2, PutKeeps DEF SqlInv
<1> QED BY <1>2, <1>3

LEMMA NackRejectKeeps ==
  ASSUME SqlInv, NEW k, NackReject(k)
  PROVE  SqlInv'
<1>1. Stored = kv BY DEF Stored, SqlInv
<1>2. CASE k \notin InState("inflight") BY <1>2 DEF NackReject, SqlInv
<1>3. CASE k \in InState("inflight")
  <2> DEFINE row == Moved(index[k], "dlq", index[k].available_at)
  <2>1. /\ k \in kv /\ index' = [index EXCEPT ![k] = row]
        /\ kv' = kv /\ now' = now
    BY <1>1, <1>3 DEF NackReject, InState
  <2>2. index[k].available_at \in Int BY <2>1 DEF SqlInv, Row
  <2>3. Fits(row, now) BY <2>1, <2>2, MovedFits DEF SqlInv
  <2> HIDE DEF row
  <2> QED BY <2>1, <2>3, PutKeeps DEF SqlInv
<1> QED BY <1>2, <1>3

LEMMA ExtendKeeps ==
  ASSUME SqlInv, NEW k, NEW v \in Nat, ExtendLease(k, v)
  PROVE  SqlInv'
<1> DEFINE row == [index[k] EXCEPT !.lease_until = now + v]
<1>1. /\ k \in kv /\ index[k].state = "inflight"
      /\ kv' = kv /\ now' = now
  BY DEF ExtendLease, InState, Stored, SqlInv
<1>2. index' = [index EXCEPT ![k] = row] BY DEF ExtendLease
<1>3. index[k] \in Row BY <1>1 DEF SqlInv
<1>4. row \in Row BY <1>3 DEF Row, SqlInv
<1>5. /\ row.state = "inflight" /\ row.lease_until = now + v
      /\ row.available_at = index[k].available_at /\ row.attempt = index[k].attempt
  BY <1>1, <1>3 DEF Row
<1>6. Fits(row, now) BY <1>1, <1>4, <1>5 DEF Fits, SqlInv, NULL
<1> HIDE DEF row
<1> QED BY <1>1, <1>2, <1>5, <1>6, PutKeeps DEF SqlInv

\* Both sweeps move only rows that may be ready now.
LEMMA MoveAllKeeps ==
  ASSUME SqlInv, NEW S, \A k \in S \cap kv : index[k].available_at <= now,
         index' = MoveAll(S, "ready"), UNCHANGED <<kv, now>>
  PROVE  SqlInv'
<1>1. index' = [j \in kv |-> IF j \in S THEN Moved(index[j], "ready", index[j].available_at)
                            ELSE index[j]]
  BY DEF MoveAll, Stored, SqlInv
<1>2. ASSUME NEW j \in kv
      PROVE  Fits(index'[j], now)
  <2>1. index[j] \in Row /\ index[j].available_at \in Int BY DEF SqlInv, Row
  <2>2. CASE j \in S
    <3> DEFINE row == Moved(index[j], "ready", index[j].available_at)
    <3>1. index'[j] = row BY <1>1, <2>2
    <3>2. index[j].available_at <= now BY <2>2
    <3>3. Fits(row, now) BY <2>1, <3>2, MovedFits DEF SqlInv
    <3>4. row.state = "ready"
      <4>1. "ready" \in States BY DEF States
      <4> QED BY <2>1, <4>1, MovedRow
    <3> HIDE DEF row
    <3> QED BY <3>1, <3>3, <3>4
  <2>3. CASE j \notin S BY <1>1, <2>3 DEF SqlInv
  <2> QED BY <2>2, <2>3
<1>3. index' \in [kv -> Row]
  <2>1. \A j \in kv : index'[j] \in Row BY <1>2 DEF Fits
  <2> QED BY <1>1, <2>1
<1> QED BY <1>2, <1>3 DEF SqlInv

LEMMA RecoverKeeps == ASSUME SqlInv, RecoverExpiredLeases PROVE SqlInv'
<1>1. \A k \in Expired \cap kv : index[k].available_at <= now
  BY DEF Expired, InState, SqlInv, Fits
<1> QED BY <1>1, MoveAllKeeps DEF RecoverExpiredLeases

LEMMA PromoteKeeps == ASSUME SqlInv, ProcessDelayed PROVE SqlInv'
<1>1. \A k \in Due \cap kv : index[k].available_at <= now
  BY DEF Due
<1> QED BY <1>1, MoveAllKeeps DEF ProcessDelayed

LEMMA DelayKeeps ==
  ASSUME SqlInv, NEW k, NEW d \in Int, DelayMessage(k, d)
  PROVE  SqlInv'
<1>1. Stored = kv BY DEF Stored, SqlInv
<1>2. CASE k \notin Stored BY <1>2 DEF DelayMessage, SqlInv
<1>3. CASE k \in Stored
  <2> DEFINE row == Moved(index[k], "delayed", now + d)
  <2>1. k \in kv /\ index' = [index EXCEPT ![k] = row] /\ kv' = kv /\ now' = now
    BY <1>1, <1>3 DEF DelayMessage
  <2>2. index[k] \in Row /\ now + d \in Int BY <2>1 DEF SqlInv
  <2>3. Fits(row, now) BY <2>2, MovedFits DEF SqlInv
  <2>4. row.state = "delayed"
    <3>1. "delayed" \in States BY DEF States
    <3> QED BY <2>2, <3>1, MovedRow
  <2> HIDE DEF row
  <2> QED BY <2>1, <2>3, <2>4, PutKeeps DEF SqlInv
<1> QED BY <1>2, <1>3

LEMMA MoveToDlqKeeps ==
  ASSUME SqlInv, NEW k, MoveToDlq(k)
  PROVE  SqlInv'
<1>1. Stored = kv BY DEF Stored, SqlInv
<1>2. CASE k \notin Stored BY <1>1, <1>2 DEF MoveToDlq, SqlInv
<1>3. CASE k \in Stored
  <2> DEFINE row == Blamed(index[k])
  <2>1. k \in kv /\ index' = [index EXCEPT ![k] = row] /\ kv' = kv /\ now' = now
    BY <1>1, <1>3 DEF MoveToDlq
  <2>2. index[k] \in Row BY <2>1 DEF SqlInv
  <2>3. row \in Row /\ row.state = "dlq" /\ row.lease_until = NULL BY <2>2, BlamedRow
  <2> HIDE DEF row
  <2>4. Fits(row, now) BY <2>3 DEF Fits
  <2> QED BY <2>1, <2>4, PutKeeps DEF SqlInv
<1> QED BY <1>2, <1>3

LEMMA ReprocessKeeps ==
  ASSUME SqlInv, NEW k, ReprocessDlq(k)
  PROVE  SqlInv'
<1>1. Stored = kv BY DEF Stored, SqlInv
<1>2. CASE k \notin InState("dlq") BY <1>1, <1>2 DEF ReprocessDlq, SqlInv, InState
<1>3. CASE k \in InState("dlq")
  <2> DEFINE moved == Moved(index[k], "ready", now)
             row   == Reset(index[k])
  <2>1. /\ k \in kv /\ index' = [index EXCEPT ![k] = row]
        /\ kv' = kv /\ now' = now
    BY <1>1, <1>3 DEF ReprocessDlq, InState
  <2>2. Fits(moved, now) BY <2>1, MovedFits DEF SqlInv
  <2>3. moved.state = "ready" BY <2>1, MovedRow DEF SqlInv, States
  <2>4. row = [moved EXCEPT !.attempt = 0, !.dlq_reason = FALSE] BY DEF Reset
  <2> HIDE DEF moved, row
  <2>5. Fits(row, now) /\ row.state = "ready" BY <2>2, <2>3, <2>4 DEF Fits, Row
  <2> QED BY <2>1, <2>5, PutKeeps DEF SqlInv
<1> QED BY <1>2, <1>3

LEMMA TickKeeps == ASSUME SqlInv, Tick PROVE SqlInv'
<1>1. \A k \in kv : Fits(index[k], now + 1) BY DEF SqlInv, Fits, Row
<1> QED BY <1>1 DEF Tick, storeVars, SqlInv

----------------------------------------------------------------------------
(* The invariant, and what it says of the specification.                   *)

LEMMA CallerStepKeeps ==
  ASSUME SqlInv, NEW k \in Keys, CallerStep(k)
  PROVE  SqlInv'
<1>1. CASE \E q \in Queues, p \in Priorities, d \in PublishDelays,
              t \in Consumers \cup {AnyConsumer} : Enqueue(k, q, p, d, t)
  BY <1>1, SqliteAssumption, EnqueueKeeps
<1>2. CASE \E q \in Queues, c \in Consumers, v \in VisTimeouts : LeaseNext(k, q, c, v)
  BY <1>2, SqliteAssumption, LeaseKeeps
<1>3. CASE Ack(k) BY <1>3, AckKeeps
<1>4. CASE NackRequeue(k) BY <1>4, NackRequeueKeeps
<1>5. CASE NackReject(k) BY <1>5, NackRejectKeeps
<1>6. CASE \E v \in VisTimeouts : ExtendLease(k, v)
  BY <1>6, SqliteAssumption, ExtendKeeps
<1>7. CASE \E d \in PublishDelays : DelayMessage(k, d)
  BY <1>7, SqliteAssumption, DelayKeeps
<1>8. CASE MoveToDlq(k) BY <1>8, MoveToDlqKeeps
<1>9. CASE ReprocessDlq(k) BY <1>9, ReprocessKeeps
<1> QED BY <1>1, <1>2, <1>3, <1>4, <1>5, <1>6, <1>7, <1>8, <1>9 DEF CallerStep

LEMMA SqlNextKeeps == SqlInv /\ [SqlNext]_sqlVars => SqlInv'
<1> SUFFICES ASSUME SqlInv, [SqlNext]_sqlVars PROVE SqlInv' OBVIOUS
<1>1. CASE \E k \in Keys : CallerStep(k) BY <1>1, CallerStepKeeps
<1>2. CASE RecoverExpiredLeases BY <1>2, RecoverKeeps
<1>3. CASE ProcessDelayed BY <1>3, PromoteKeeps
<1>4. CASE Tick BY <1>4, TickKeeps
<1>5. CASE UNCHANGED sqlVars BY <1>5 DEF sqlVars, SqlInv
<1> QED BY <1>1, <1>2, <1>3, <1>4, <1>5 DEF SqlNext

LEMMA SqlInvImplies == SqlInv => SqlTypeOK /\ StoreInv
<1> SUFFICES ASSUME SqlInv PROVE SqlTypeOK /\ StoreInv OBVIOUS
<1>1. Stored = kv BY DEF Stored, SqlInv
<1>2. SqlTypeOK BY <1>1 DEF SqlInv, SqlTypeOK
<1>3. TablesAgree BY <1>1 DEF SqlInv, TablesAgree
<1>4. LeaseIffInflight BY <1>1 DEF SqlInv, Fits, LeaseIffInflight
<1>5. ReadyIsDue BY <1>1 DEF SqlInv, Fits, ReadyIsDue, InState
<1>7. AttemptCounted BY <1>1 DEF SqlInv, Fits, AttemptCounted, InState
<1> QED BY <1>2, <1>3, <1>4, <1>5, <1>7 DEF StoreInv

\* SQLiteAdapter keeps its two tables well-formed and in the relations of
\* StoreInv, whatever its callers ask for and in whatever order.
THEOREM StoreSafe == SqlSpec => [](SqlTypeOK /\ StoreInv)
<1>1. SqlSpec => []SqlInv BY InitKeeps, SqlNextKeeps, PTL DEF SqlSpec
<1> QED BY <1>1, SqlInvImplies, PTL

\* The index and the kv table hold the same messages (the foreign key of
\* sqlite_schema.sql and the transactions of SQLiteAdapter::enqueue and ack).
THEOREM StoreTablesAgree == SqlSpec => []TablesAgree
BY StoreSafe, PTL DEF StoreInv

\* A row carries a lease exactly while it is inflight (lease_next and every
\* statement of SQLiteAdapter that takes a row out of inflight).
THEOREM StoreLeases == SqlSpec => []LeaseIffInflight
BY StoreSafe, PTL DEF StoreInv

\* No message is ready before its time (enqueue, nack, delay_message and the
\* two sweeps' updates of SQLiteAdapter).
THEOREM StoreReadyIsDue == SqlSpec => []ReadyIsDue
BY StoreSafe, PTL DEF StoreInv

----------------------------------------------------------------------------
(* What each operation does to the rows, for the proofs of its callers.    *)

\* Only row k changes: its state becomes s and its attempt a.
Changes(k, s, a) == /\ kv' = kv
                    /\ \A j \in kv \ {k} : index'[j] = index[j]
                    /\ k \in kv => /\ index'[k].queue = index[k].queue
                                   /\ index'[k].state = s
                                   /\ index'[k].attempt = a

LEMMA EnqueueEffect ==
  ASSUME SqlInv, NEW k, NEW q, NEW p, NEW d, NEW t, Enqueue(k, q, p, d, t)
  PROVE  /\ k \notin kv /\ kv' = kv \cup {k}
         /\ \A j \in kv : index'[j] = index[j]
         /\ index'[k].state \in {"ready", "delayed"}
         /\ index'[k].attempt = 0
         /\ ~index'[k].dlq_reason
<1>1. Stored = kv BY DEF Stored, SqlInv
<1>2. index' = [j \in kv \cup {k} |-> IF j = k THEN NewRow(q, p, d, t) ELSE index[j]]
  BY <1>1 DEF Enqueue, Insert
<1>3. index'[k] = NewRow(q, p, d, t) BY <1>2
<1>4. NewRow(q, p, d, t).state \in {"ready", "delayed"} /\ NewRow(q, p, d, t).attempt = 0
  BY DEF NewRow
<1>5. ~NewRow(q, p, d, t).dlq_reason BY DEF NewRow
<1>6. k \notin kv /\ kv' = kv \cup {k} BY <1>1 DEF Enqueue
<1> QED BY <1>2, <1>3, <1>4, <1>5, <1>6

LEMMA AckEffect ==
  ASSUME SqlInv, NEW k, Ack(k)
  PROVE  kv' = kv \ {k} /\ \A j \in kv' : index'[j] = index[j]
  BY DEF Ack, Delete, Stored, SqlInv

LEMMA LeaseEffect ==
  ASSUME SqlInv, NEW k, NEW q, NEW c, NEW v \in Nat, LeaseNext(k, q, c, v)
  PROVE  /\ k \in kv /\ index[k].state = "ready"
         /\ Changes(k, "inflight", index[k].attempt + 1)
<1>1. /\ k \in kv /\ index[k].state = "ready" /\ kv' = kv
      /\ index' = [index EXCEPT ![k] = Leased(index[k], now + v)]
  BY DEF LeaseNext, Available, InState
<1>2. index[k] \in Row /\ now + v \in Int BY <1>1 DEF SqlInv
<1> DEFINE row == Leased(index[k], now + v)
<1>3. row.queue = index[k].queue BY <1>2, LeasedRow
<1>4. row.state = "inflight" BY <1>2, LeasedRow
<1>5. row.attempt = index[k].attempt + 1 BY <1>2, LeasedRow
<1>6. index' = [index EXCEPT ![k] = row] BY <1>1
<1> HIDE DEF row
<1> QED BY <1>1, <1>3, <1>4, <1>5, <1>6 DEF Changes, SqlInv

LEMMA MovedEffect ==
  ASSUME SqlInv, NEW k \in kv, NEW s \in States, NEW at \in Int,
         index' = [index EXCEPT ![k] = Moved(@, s, at)], kv' = kv
  PROVE  Changes(k, s, index[k].attempt)
<1> DEFINE row == Moved(index[k], s, at)
<1>1. index[k] \in Row BY DEF SqlInv
<1>2. row.queue = index[k].queue BY <1>1, MovedRow
<1>3. row.state = s BY <1>1, MovedRow
<1>4. row.attempt = index[k].attempt BY <1>1, MovedRow
<1>5. index' = [index EXCEPT ![k] = row] OBVIOUS
<1> HIDE DEF row
<1> QED BY <1>2, <1>3, <1>4, <1>5 DEF Changes, SqlInv

LEMMA NackRequeueEffect ==
  ASSUME SqlInv, NEW k, NackRequeue(k)
  PROVE  \/ UNCHANGED <<kv, index>>
         \/ k \in InState("inflight") /\ Changes(k, "ready", index[k].attempt)
<1>1. CASE k \notin InState("inflight") BY <1>1 DEF NackRequeue
<1>2. CASE k \in InState("inflight")
  <2>1. k \in kv /\ "ready" \in States /\ now \in Int
    BY <1>2 DEF InState, Stored, SqlInv, States
  <2>2. index' = [index EXCEPT ![k] = Moved(@, "ready", now)] /\ kv' = kv
    BY <1>2 DEF NackRequeue
  <2> QED BY <1>2, <2>1, <2>2, MovedEffect
<1> QED BY <1>1, <1>2

LEMMA NackRejectEffect ==
  ASSUME SqlInv, NEW k, NackReject(k)
  PROVE  \/ UNCHANGED <<kv, index>>
         \/ k \in InState("inflight") /\ Changes(k, "dlq", index[k].attempt)
<1>1. CASE k \notin InState("inflight") BY <1>1 DEF NackReject
<1>2. CASE k \in InState("inflight")
  <2>1. k \in kv /\ "dlq" \in States BY <1>2 DEF InState, Stored, SqlInv, States
  <2>2. index[k].available_at \in Int BY <2>1 DEF SqlInv, Row
  <2>3. index' = [index EXCEPT ![k] = Moved(@, "dlq", index[k].available_at)] /\ kv' = kv
    BY <1>2 DEF NackReject
  <2> QED BY <1>2, <2>1, <2>2, <2>3, MovedEffect
<1> QED BY <1>1, <1>2

LEMMA ExtendEffect ==
  ASSUME SqlInv, NEW k, NEW v \in Nat, ExtendLease(k, v)
  PROVE  /\ k \in kv /\ index[k].state = "inflight" /\ index[k].lease_until > now
         /\ Changes(k, "inflight", index[k].attempt)
<1> DEFINE row == [index[k] EXCEPT !.lease_until = now + v]
<1>1. /\ k \in kv /\ index[k].state = "inflight" /\ index[k].lease_until > now
      /\ kv' = kv /\ index' = [index EXCEPT ![k] = row]
  BY DEF ExtendLease, InState, Stored, SqlInv
<1>2. index[k] \in Row BY <1>1 DEF SqlInv
<1>3. /\ row.state = "inflight" /\ row.queue = index[k].queue /\ row.attempt = index[k].attempt
  BY <1>1, <1>2 DEF Row
<1> HIDE DEF row
<1> QED BY <1>1, <1>3 DEF Changes, SqlInv

LEMMA DelayEffect ==
  ASSUME SqlInv, NEW k, NEW d \in Int, DelayMessage(k, d)
  PROVE  Changes(k, "delayed", index[k].attempt)
<1>1. Stored = kv BY DEF Stored, SqlInv
<1>2. CASE k \notin kv BY <1>1, <1>2 DEF DelayMessage, Changes
<1>3. CASE k \in kv
  <2>1. "delayed" \in States /\ now + d \in Int BY DEF States, SqlInv
  <2>2. index' = [index EXCEPT ![k] = Moved(@, "delayed", now + d)] /\ kv' = kv
    BY <1>1, <1>3 DEF DelayMessage
  <2> QED BY <1>3, <2>1, <2>2, MovedEffect
<1> QED BY <1>2, <1>3

LEMMA MoveToDlqEffect ==
  ASSUME SqlInv, NEW k, MoveToDlq(k)
  PROVE  Changes(k, "dlq", index[k].attempt)
<1>1. Stored = kv BY DEF Stored, SqlInv
<1>2. CASE k \notin kv BY <1>1, <1>2 DEF MoveToDlq, Changes
<1>3. CASE k \in kv
  <2> DEFINE row == Blamed(index[k])
  <2>1. index[k] \in Row BY <1>3 DEF SqlInv
  <2>2. row.state = "dlq" /\ row.attempt = index[k].attempt /\ row.queue = index[k].queue
    BY <2>1, BlamedRow
  <2>3. index' = [index EXCEPT ![k] = row] /\ kv' = kv
    BY <1>1, <1>3 DEF MoveToDlq
  <2> HIDE DEF row
  <2> QED BY <1>3, <2>2, <2>3 DEF Changes, SqlInv
<1> QED BY <1>2, <1>3

LEMMA ReprocessEffect ==
  ASSUME SqlInv, NEW k, ReprocessDlq(k)
  PROVE  \/ UNCHANGED <<kv, index>>
         \/ k \in InState("dlq") /\ Changes(k, "ready", 0)
<1>1. CASE k \notin InState("dlq") BY <1>1 DEF ReprocessDlq
<1>2. CASE k \in InState("dlq")
  <2> DEFINE moved == Moved(index[k], "ready", now)
             row   == Reset(index[k])
  <2>1. k \in kv /\ index' = [index EXCEPT ![k] = row] /\ kv' = kv
    BY <1>2 DEF ReprocessDlq, InState, Stored, SqlInv
  <2>2. index[k] \in Row /\ "ready" \in States /\ now \in Int BY <2>1 DEF SqlInv, States
  <2>3. moved \in Row BY <2>2, MovedRow
  <2>4. moved.state = "ready" BY <2>2, MovedRow
  <2>5. moved.queue = index[k].queue BY <2>2, MovedRow
  <2>6. row = [moved EXCEPT !.attempt = 0, !.dlq_reason = FALSE] BY DEF Reset
  <2> HIDE DEF moved, row
  <2>7. row.state = "ready" /\ row.queue = index[k].queue /\ row.attempt = 0
    BY <2>3, <2>4, <2>5, <2>6 DEF Row
  <2> QED BY <1>2, <2>1, <2>7 DEF Changes, SqlInv
<1> QED BY <1>1, <1>2

LEMMA PromoteEffect ==
  ASSUME SqlInv, ProcessDelayed
  PROVE  /\ kv' = kv
         /\ \A j \in kv \ Due : index'[j] = index[j]
         /\ \A j \in Due : /\ index[j].state = "delayed"
                           /\ index'[j].state = "ready"
                           /\ index'[j].queue = index[j].queue
                           /\ index'[j].attempt = index[j].attempt
<1>1. Stored = kv BY DEF Stored, SqlInv
<1>2. index' = [j \in kv |-> IF j \in Due THEN Moved(index[j], "ready", index[j].available_at)
                            ELSE index[j]]
  BY <1>1 DEF ProcessDelayed, MoveAll
<1>3. ASSUME NEW j \in Due
      PROVE  /\ index[j].state = "delayed"
             /\ index'[j].state = "ready"
             /\ index'[j].queue = index[j].queue
             /\ index'[j].attempt = index[j].attempt
  <2> DEFINE row == Moved(index[j], "ready", index[j].available_at)
  <2>1. j \in kv /\ index[j].state = "delayed" BY <1>1 DEF Due, InState
  <2>2. index[j] \in Row /\ "ready" \in States BY <2>1 DEF SqlInv, States
  <2>3. index[j].available_at \in Int BY <2>2 DEF Row
  <2>4. row.state = "ready" BY <2>2, <2>3, MovedRow
  <2>5. row.queue = index[j].queue BY <2>2, <2>3, MovedRow
  <2>6. row.attempt = index[j].attempt BY <2>2, <2>3, MovedRow
  <2>7. index'[j] = row BY <1>2, <2>1
  <2> HIDE DEF row
  <2> QED BY <2>1, <2>4, <2>5, <2>6, <2>7
<1> QED BY <1>2, <1>3 DEF ProcessDelayed

----------------------------------------------------------------------------

\* The books of the daemon: a message is stored from its publication to its
\* acknowledgement.
Ledger == /\ listed \subseteq Entry
          /\ published \subseteq Keys
          /\ delivered \subseteq Consumers \X published
          /\ acked \subseteq published
          /\ restarts \in Nat
          /\ kv = published \ acked

\* What stays true of an entry of the sweep's list however long it waits.
ListedOK == \A e \in listed : /\ e.attempt >= 1
                              /\ e.key \in published
                              /\ e.key \in kv => index[e.key].queue = e.queue
                              /\ \A f \in listed : f.key = e.key => f = e

BrokerInv == SqlInv /\ Ledger /\ ListedOK

LEMMA BrokerInit == Init => BrokerInv
  BY InitKeeps, BrokerAssumption DEF Init, BrokerInv, Ledger, ListedOK, SqlInit

\* The policy of an entry that is retried is one, and its delay a number.
LEMMA RetryPolicyOf ==
  ASSUME BrokerInv, NEW e \in listed
  PROVE  /\ e \in Entry /\ e.attempt \in Nat \ {0} /\ e.queue \in Queues
         /\ Policies[e.queue] # NoPolicy => /\ Policies[e.queue].retry \in Retry
                                            /\ Backoff(e.attempt, Policies[e.queue].retry) \in Int
<1>1. e \in Entry /\ e.attempt \in Nat \ {0} /\ e.queue \in Queues
  BY DEF BrokerInv, Ledger, ListedOK, Entry
<1>2. Policies[e.queue] # NoPolicy => Policies[e.queue].retry \in Retry
  BY <1>1, BrokerAssumption
<1> QED BY <1>1, <1>2, BackoffInt

----------------------------------------------------------------------------
(* Each action keeps the invariant.                                        *)

LEMMA PublishKeeps ==
  ASSUME BrokerInv, NEW k \in Keys, NEW q \in Queues, NEW p \in Priorities, NEW d \in PublishDelays,
         NEW t \in Consumers \cup {AnyConsumer}, Publish(k, q, p, d, t)
  PROVE  BrokerInv'
<1>1. SqlInv' BY SqliteAssumption, EnqueueKeeps DEF Publish, BrokerInv
<1>2. kv' = kv \cup {k} /\ \A j \in kv : index'[j] = index[j]
  BY EnqueueEffect DEF Publish, BrokerInv
<1>3. Ledger' BY <1>2 DEF Publish, BrokerInv, Ledger
<1>4. ListedOK' BY <1>2 DEF Publish, BrokerInv, Ledger, ListedOK
<1> QED BY <1>1, <1>3, <1>4 DEF BrokerInv

LEMMA ConsumeKeeps ==
  ASSUME BrokerInv, NEW k \in Keys, NEW q \in Queues, NEW c \in Consumers, NEW v \in VisTimeouts,
         ConsumeNext(k, q, c, v)
  PROVE  BrokerInv'
<1>1. SqlInv' BY SqliteAssumption, LeaseKeeps DEF ConsumeNext, BrokerInv
<1>2. k \in kv /\ Changes(k, "inflight", index[k].attempt + 1)
  BY SqliteAssumption, LeaseEffect DEF ConsumeNext, BrokerInv
<1>3. Ledger' BY <1>2 DEF ConsumeNext, Changes, BrokerInv, Ledger
<1>4. ListedOK' BY <1>2 DEF ConsumeNext, Changes, BrokerInv, ListedOK
<1> QED BY <1>1, <1>3, <1>4 DEF BrokerInv

LEMMA AckKeepsBroker ==
  ASSUME BrokerInv, NEW k \in Keys, NEW c \in Consumers, ClientAck(c, k)
  PROVE  BrokerInv'
<1>1. SqlInv' BY AckKeeps DEF ClientAck, BrokerInv
<1>2. kv' = kv \ {k} /\ \A j \in kv' : index'[j] = index[j]
  BY AckEffect DEF ClientAck, BrokerInv
<1>3. Ledger' BY <1>2 DEF ClientAck, BrokerInv, Ledger
<1>4. ListedOK' BY <1>2 DEF ClientAck, BrokerInv, ListedOK
<1> QED BY <1>1, <1>3, <1>4 DEF BrokerInv

\* A step that changes one row, and neither its queue nor the broker's books.
LEMMA RowStepKeeps ==
  ASSUME BrokerInv, SqlInv', NEW k, NEW s, NEW a,
         Changes(k, s, a) \/ UNCHANGED <<kv, index>>,
         listed' \subseteq listed, UNCHANGED <<published, delivered, acked, restarts>>
  PROVE  BrokerInv'
<1>1. Ledger' BY DEF Changes, BrokerInv, Ledger
<1>2. ListedOK' BY DEF Changes, BrokerInv, ListedOK
<1> QED BY <1>1, <1>2 DEF BrokerInv

LEMMA ClientNackKeeps ==
  ASSUME BrokerInv, NEW k, NEW c, ClientRequeue(c, k) \/ ClientReject(c, k)
  PROVE  BrokerInv'
<1>1. CASE ClientRequeue(c, k)
  BY <1>1, NackRequeueKeeps, NackRequeueEffect, RowStepKeeps DEF ClientRequeue, BrokerInv, brokerVars
<1>2. CASE ClientReject(c, k)
  BY <1>2, NackRejectKeeps, NackRejectEffect, RowStepKeeps DEF ClientReject, BrokerInv, brokerVars
<1> QED BY <1>1, <1>2

LEMMA ClientExtendKeeps ==
  ASSUME BrokerInv, NEW k, NEW c, NEW v \in VisTimeouts, ClientExtend(c, k, v)
  PROVE  BrokerInv'
<1>1. v \in Nat BY SqliteAssumption
<1> QED BY <1>1, ExtendKeeps, ExtendEffect, RowStepKeeps DEF ClientExtend, BrokerInv, brokerVars

LEMMA ClientReprocessKeeps ==
  ASSUME BrokerInv, NEW k, ClientReprocess(k)
  PROVE  BrokerInv'
  BY ReprocessKeeps, ReprocessEffect, RowStepKeeps DEF ClientReprocess, BrokerInv, brokerVars

LEMMA ListKeeps == ASSUME BrokerInv, ListExpired PROVE BrokerInv'
<1>1. Stored = kv BY DEF Stored, BrokerInv, SqlInv
<1>2. UNCHANGED <<kv, index, now, published, delivered, acked, restarts>>
  BY DEF ListExpired, sqlVars
<1>3. SqlInv' BY <1>2 DEF BrokerInv, SqlInv
<1>4. ASSUME NEW e \in listed'
      PROVE  /\ e \in Entry /\ e.attempt >= 1 /\ e.key \in kv
             /\ index[e.key].queue = e.queue /\ e = EntryOf(e.key)
  <2>1. PICK k \in Expired : e = EntryOf(k) BY DEF ListExpired
  <2>2. k \in kv /\ index[k].state = "inflight" BY <1>1, <2>1 DEF Expired, InState
  <2>3. index[k] \in Row /\ index[k].attempt >= 1 BY <2>2 DEF BrokerInv, SqlInv, Fits
  <2>4. k \in Keys BY <2>2 DEF BrokerInv, SqlInv
  <2> QED BY <2>1, <2>2, <2>3, <2>4 DEF EntryOf, Entry, Row
<1>5. Ledger' BY <1>2, <1>4 DEF BrokerInv, Ledger
<1>6. ListedOK' BY <1>2, <1>4 DEF BrokerInv, Ledger, ListedOK
<1> QED BY <1>3, <1>5, <1>6 DEF BrokerInv

LEMMA SweepKeeps ==
  ASSUME BrokerInv, NEW e \in listed, SweepEntry(e) \/ SweepError(e)
  PROVE  BrokerInv'
<1>1. Treated(e) BY DEF SweepEntry, SweepRecover, SweepRetry, SweepDeadLetter, SweepLeave, SweepError
<1>2. listed' \subseteq listed /\ UNCHANGED <<published, delivered, acked, restarts>>
  BY <1>1 DEF Treated
<1>3. ASSUME NEW d \in Int, DelayMessage(e.key, d) PROVE BrokerInv'
  BY <1>2, <1>3, DelayKeeps, DelayEffect, RowStepKeeps DEF BrokerInv
<1>4. CASE SweepRecover(e) BY <1>3, <1>4 DEF SweepRecover
<1>5. CASE SweepRetry(e)
  <2>1. VerdictOn(e) = "retry" /\ DelayMessage(e.key, Backoff(e.attempt, Policies[e.queue].retry))
    BY <1>5 DEF SweepRetry
  <2>2. Policies[e.queue] # NoPolicy BY <2>1 DEF VerdictOn
  <2>3. Backoff(e.attempt, Policies[e.queue].retry) \in Int BY <2>2, RetryPolicyOf
  <2> QED BY <1>3, <2>1, <2>3
<1>6. CASE SweepDeadLetter(e)
  BY <1>2, <1>6, MoveToDlqKeeps, MoveToDlqEffect, RowStepKeeps DEF SweepDeadLetter, BrokerInv
<1>7. CASE UNCHANGED sqlVars
  <2>1. UNCHANGED <<kv, index, now>> BY <1>7 DEF sqlVars
  <2>2. SqlInv' BY <2>1 DEF BrokerInv, SqlInv
  <2> QED BY <1>2, <2>1, <2>2, RowStepKeeps
<1> QED BY <1>4, <1>5, <1>6, <1>7 DEF SweepEntry, SweepLeave, SweepError

LEMMA RetrySweepKeeps == ASSUME BrokerInv, RetrySweep PROVE BrokerInv'
<1>1. SqlInv' BY PromoteKeeps DEF RetrySweep, BrokerInv
<1>2. /\ kv' = kv
      /\ \A j \in kv : j \in Due \/ index'[j] = index[j]
      /\ \A j \in Due : index'[j].queue = index[j].queue
  BY PromoteEffect DEF RetrySweep, BrokerInv
<1>3. UNCHANGED <<listed, published, delivered, acked, restarts>>
  BY DEF RetrySweep, brokerVars
<1>4. Ledger' BY <1>2, <1>3 DEF BrokerInv, Ledger
<1>5. ListedOK' BY <1>2, <1>3 DEF BrokerInv, ListedOK
<1> QED BY <1>1, <1>4, <1>5 DEF BrokerInv

LEMMA RestartKeeps == ASSUME BrokerInv, Restart PROVE BrokerInv'
<1>1. SqlInv' BY DEF Restart, sqlVars, BrokerInv, SqlInv
<1>2. Ledger' BY DEF Restart, sqlVars, BrokerInv, Ledger
<1>3. ListedOK' BY DEF Restart, ListedOK
<1> QED BY <1>1, <1>2, <1>3 DEF BrokerInv

LEMMA ClockKeeps == ASSUME BrokerInv, Clock PROVE BrokerInv'
<1>1. SqlInv' BY TickKeeps DEF Clock, BrokerInv
<1>2. UNCHANGED <<kv, index, listed, published, delivered, acked, restarts>>
  BY DEF Clock, Tick, storeVars, brokerVars
<1>3. Ledger' BY <1>2 DEF BrokerInv, Ledger
<1>4. ListedOK' BY <1>2 DEF BrokerInv, ListedOK
<1> QED BY <1>1, <1>3, <1>4 DEF BrokerInv

LEMMA ClientStepKeeps ==
  ASSUME BrokerInv, NEW k \in Keys, ClientStep(k)
  PROVE  BrokerInv'
<1>1. CASE \E q \in Queues, p \in Priorities, d \in PublishDelays,
              t \in Consumers \cup {AnyConsumer} : Publish(k, q, p, d, t)
  BY <1>1, PublishKeeps
<1>2. CASE \E q \in Queues, c \in Consumers, v \in VisTimeouts : ConsumeNext(k, q, c, v)
  BY <1>2, ConsumeKeeps
<1>3. CASE \E c \in Consumers : ClientAck(c, k) \/ ClientRequeue(c, k) \/ ClientReject(c, k)
  BY <1>3, AckKeepsBroker, ClientNackKeeps
<1>4. CASE \E c \in Consumers, v \in VisTimeouts : ClientExtend(c, k, v)
  BY <1>4, ClientExtendKeeps
<1>5. CASE ClientReprocess(k) BY <1>5, ClientReprocessKeeps
<1> QED BY <1>1, <1>2, <1>3, <1>4, <1>5 DEF ClientStep

LEMMA NextKeeps == BrokerInv /\ [Next]_vars => BrokerInv'
<1> SUFFICES ASSUME BrokerInv, [Next]_vars PROVE BrokerInv' OBVIOUS
<1>1. CASE \E k \in Keys : ClientStep(k) BY <1>1, ClientStepKeeps
<1>2. CASE ListExpired BY <1>2, ListKeeps
<1>3. CASE \E e \in listed : SweepEntry(e) \/ SweepError(e) BY <1>3, SweepKeeps
<1>4. CASE RetrySweep BY <1>4, RetrySweepKeeps
<1>5. CASE Restart BY <1>5, RestartKeeps
<1>6. CASE Clock BY <1>6, ClockKeeps
<1>7. CASE UNCHANGED vars BY <1>7 DEF vars, BrokerInv, SqlInv, Ledger, ListedOK
<1> QED BY <1>1, <1>2, <1>3, <1>4, <1>5, <1>6, <1>7 DEF Next

THEOREM BrokerInvariant == Spec => []BrokerInv
BY BrokerInit, NextKeeps, PTL DEF Spec

\* The tables, the sweep's list and the books have their types, for every
\* policy, any number of clients, queues and messages, and any clock.
THEOREM TypeCorrect == Spec => []TypeOK
<1>1. BrokerInv => TypeOK
  BY SqlInvImplies DEF BrokerInv, Ledger, TypeOK
<1> QED BY <1>1, BrokerInvariant, PTL

\* No message is lost and none comes back (handle_publish, handle_ack, and every
\* statement of the sweeps, which work on keys read in an earlier transaction).
THEOREM NothingLost == Spec => []StoredUntilAcked
<1>1. BrokerInv => StoredUntilAcked
  BY DEF BrokerInv, SqlInv, Ledger, StoredUntilAcked, Stored
<1> QED BY <1>1, BrokerInvariant, PTL

----------------------------------------------------------------------------
(* The reason in the index.                                                *)

\* A row that has a reason is in the DLQ, and the sweep has no business with it.
Reasoned == \A k \in kv : index[k].dlq_reason => /\ index[k].state = "dlq"
                                                 /\ \A e \in listed : e.key # k

\* A row given no reason by the step, and none before.
Unreasoned(k) == k \in kv => ~index[k].dlq_reason

LEMMA MovedUnreasoned ==
  ASSUME SqlInv, NEW k \in kv, Unreasoned(k), NEW s \in States, NEW at \in Int, kv' = kv,
         index' = [index EXCEPT ![k] = Moved(@, s, at)]
  PROVE  Unreasoned(k)'
<1> DEFINE row == Moved(index[k], s, at)
<1>1. index[k] \in Row BY DEF SqlInv
<1>2. row.dlq_reason = index[k].dlq_reason BY <1>1, MovedRow
<1>3. index' = [index EXCEPT ![k] = row] OBVIOUS
<1> HIDE DEF row
<1>4. index'[k] = row BY <1>3 DEF SqlInv
<1> QED BY <1>2, <1>4 DEF Unreasoned

LEMMA LeaseUnreasoned ==
  ASSUME SqlInv, NEW k, NEW q, NEW c, NEW v \in Nat, LeaseNext(k, q, c, v), Unreasoned(k)
  PROVE  Unreasoned(k)'
<1> DEFINE row == Leased(index[k], now + v)
<1>1. k \in kv /\ index' = [index EXCEPT ![k] = row] BY DEF LeaseNext
<1>2. index[k] \in Row /\ now + v \in Int BY <1>1 DEF SqlInv
<1>3. row.dlq_reason = index[k].dlq_reason BY <1>2, LeasedRow
<1> HIDE DEF row
<1>4. index'[k] = row BY <1>1 DEF SqlInv
<1> QED BY <1>1, <1>3, <1>4 DEF Unreasoned

LEMMA ExtendUnreasoned ==
  ASSUME SqlInv, NEW k, NEW v, ExtendLease(k, v), Unreasoned(k)
  PROVE  Unreasoned(k)'
<1> DEFINE row == [index[k] EXCEPT !.lease_until = now + v]
<1>1. k \in kv /\ index' = [index EXCEPT ![k] = row]
  BY DEF ExtendLease, InState, Stored, SqlInv
<1>2. row.dlq_reason = index[k].dlq_reason BY <1>1 DEF SqlInv, Row
<1> HIDE DEF row
<1>3. index'[k] = row BY <1>1 DEF SqlInv
<1> QED BY <1>1, <1>2, <1>3 DEF Unreasoned

LEMMA NackUnreasoned ==
  ASSUME SqlInv, NEW k, NackRequeue(k) \/ NackReject(k), Unreasoned(k)
  PROVE  Unreasoned(k)'
<1>1. CASE k \notin InState("inflight") BY <1>1 DEF NackRequeue, NackReject, Unreasoned
<1>2. CASE k \in InState("inflight")
  <2>1. k \in kv /\ {"ready", "dlq"} \subseteq States /\ now \in Int
    BY <1>2 DEF InState, Stored, SqlInv, States
  <2>2. index[k].available_at \in Int BY <2>1 DEF SqlInv, Row
  <2>3. CASE NackRequeue(k)
    <3>1. index' = [index EXCEPT ![k] = Moved(@, "ready", now)] /\ kv' = kv
      BY <1>2, <2>3 DEF NackRequeue
    <3> QED BY <2>1, <3>1, MovedUnreasoned
  <2>4. CASE NackReject(k)
    <3>1. index' = [index EXCEPT ![k] = Moved(@, "dlq", index[k].available_at)] /\ kv' = kv
      BY <1>2, <2>4 DEF NackReject
    <3> QED BY <2>1, <2>2, <3>1, MovedUnreasoned
  <2> QED BY <2>3, <2>4
<1> QED BY <1>1, <1>2

LEMMA DelayUnreasoned ==
  ASSUME SqlInv, NEW k, NEW d \in Int, DelayMessage(k, d), Unreasoned(k)
  PROVE  Unreasoned(k)'
<1>1. Stored = kv BY DEF Stored, SqlInv
<1>2. CASE k \notin kv BY <1>1, <1>2 DEF DelayMessage, Unreasoned
<1>3. CASE k \in kv
  <2>1. "delayed" \in States /\ now + d \in Int BY DEF States, SqlInv
  <2>2. index' = [index EXCEPT ![k] = Moved(@, "delayed", now + d)] /\ kv' = kv
    BY <1>1, <1>3 DEF DelayMessage
  <2> QED BY <1>3, <2>1, <2>2, MovedUnreasoned
<1> QED BY <1>2, <1>3

LEMMA ReprocessUnreasoned ==
  ASSUME SqlInv, NEW k \in InState("dlq"), ReprocessDlq(k)
  PROVE  Unreasoned(k)'
<1> DEFINE moved == Moved(index[k], "ready", now)
           row   == Reset(index[k])
<1>1. k \in kv /\ index' = [index EXCEPT ![k] = row] /\ kv' = kv
  BY DEF ReprocessDlq, InState, Stored, SqlInv
<1>2. index[k] \in Row /\ "ready" \in States /\ now \in Int BY <1>1 DEF SqlInv, States
<1>3. moved \in Row BY <1>2, MovedRow
<1>4. row = [moved EXCEPT !.attempt = 0, !.dlq_reason = FALSE] BY DEF Reset
<1> HIDE DEF moved, row
<1>5. ~row.dlq_reason BY <1>3, <1>4 DEF Row
<1>6. index'[k] = row BY <1>1 DEF SqlInv
<1> QED BY <1>5, <1>6 DEF Unreasoned

LEMMA PromoteReasons ==
  ASSUME SqlInv, ProcessDelayed
  PROVE  \A j \in Due : index'[j].dlq_reason = index[j].dlq_reason
<1> SUFFICES ASSUME NEW j \in Due PROVE index'[j].dlq_reason = index[j].dlq_reason
  OBVIOUS
<1> DEFINE row == Moved(index[j], "ready", index[j].available_at)
<1>1. j \in kv /\ index'[j] = row BY DEF Due, InState, Stored, SqlInv, ProcessDelayed, MoveAll
<1>2. index[j] \in Row /\ "ready" \in States BY <1>1 DEF SqlInv, States
<1>3. index[j].available_at \in Int BY <1>2 DEF Row
<1>4. row.dlq_reason = index[j].dlq_reason BY <1>2, <1>3, MovedRow
<1> HIDE DEF row
<1> QED BY <1>1, <1>4

\* A step on one row that is left without a reason, or in the DLQ off the list.
LEMMA RowStepReasoned ==
  ASSUME Reasoned, NEW k, NEW s, NEW a, Changes(k, s, a), listed' \subseteq listed,
         Unreasoned(k)' \/ (s = "dlq" /\ \A e \in listed' : e.key # k)
  PROVE  Reasoned'
<1> SUFFICES ASSUME NEW j \in kv', index'[j].dlq_reason
             PROVE  index'[j].state = "dlq" /\ \A e \in listed' : e.key # j
  BY DEF Reasoned
<1>1. CASE j = k BY <1>1 DEF Changes, Unreasoned
<1>2. CASE j # k
  <2>1. j \in kv /\ index'[j] = index[j] BY <1>2 DEF Changes
  <2> QED BY <2>1 DEF Reasoned
<1> QED BY <1>1, <1>2

LEMMA ClientStepReasoned ==
  ASSUME BrokerInv, Reasoned, NEW k \in Keys, ClientStep(k)
  PROVE  Reasoned'
<1>1. listed' = listed
  BY DEF ClientStep, Publish, ConsumeNext, ClientAck, ClientRequeue, ClientReject, ClientExtend,
         ClientReprocess, brokerVars
<1>2. ASSUME UNCHANGED <<kv, index>> PROVE Reasoned' BY <1>1, <1>2 DEF Reasoned
<1>3. k \in InState("inflight") => Unreasoned(k) BY DEF InState, Reasoned, Unreasoned
<1>4. ASSUME NEW q \in Queues, NEW p \in Priorities, NEW d \in PublishDelays,
             NEW t \in Consumers \cup {AnyConsumer}, Publish(k, q, p, d, t)
      PROVE  Reasoned'
  <2>1. kv' = kv \cup {k} /\ (\A j \in kv : index'[j] = index[j]) /\ ~index'[k].dlq_reason
    BY <1>4, EnqueueEffect DEF Publish, BrokerInv
  <2> QED BY <1>1, <2>1 DEF Reasoned
<1>5. ASSUME NEW q \in Queues, NEW c \in Consumers, NEW v \in VisTimeouts, ConsumeNext(k, q, c, v)
      PROVE  Reasoned'
  <2>1. v \in Nat /\ LeaseNext(k, q, c, v) BY <1>5, SqliteAssumption DEF ConsumeNext
  <2>2. k \in kv /\ index[k].state = "ready" /\ Changes(k, "inflight", index[k].attempt + 1)
    BY <2>1, LeaseEffect DEF BrokerInv
  <2>3. Unreasoned(k) BY <2>2 DEF Reasoned, Unreasoned
  <2>4. Unreasoned(k)' BY <2>1, <2>3, LeaseUnreasoned DEF BrokerInv
  <2> QED BY <1>1, <2>2, <2>4, RowStepReasoned
<1>6. ASSUME NEW c \in Consumers, ClientAck(c, k) PROVE Reasoned'
  <2>1. kv' = kv \ {k} /\ \A j \in kv' : index'[j] = index[j]
    BY <1>6, AckEffect DEF ClientAck, BrokerInv
  <2> QED BY <1>1, <2>1 DEF Reasoned
<1>7. ASSUME NEW c \in Consumers, ClientRequeue(c, k) \/ ClientReject(c, k) PROVE Reasoned'
  <2>1. NackRequeue(k) \/ NackReject(k) BY <1>7 DEF ClientRequeue, ClientReject
  <2>2. \/ UNCHANGED <<kv, index>>
        \/ /\ k \in InState("inflight")
           /\ \E s \in States : Changes(k, s, index[k].attempt)
    BY <2>1, NackRequeueEffect, NackRejectEffect DEF BrokerInv, States
  <2>3. k \in InState("inflight") => Unreasoned(k)' BY <1>3, <2>1, NackUnreasoned DEF BrokerInv
  <2> QED BY <1>1, <1>2, <2>2, <2>3, RowStepReasoned
<1>8. ASSUME NEW c \in Consumers, NEW v \in VisTimeouts, ClientExtend(c, k, v) PROVE Reasoned'
  <2>1. v \in Nat /\ ExtendLease(k, v) BY <1>8, SqliteAssumption DEF ClientExtend
  <2>2. k \in InState("inflight") /\ Changes(k, "inflight", index[k].attempt)
    BY <2>1, ExtendEffect DEF BrokerInv, ExtendLease
  <2>3. Unreasoned(k)' BY <1>3, <2>1, <2>2, ExtendUnreasoned DEF BrokerInv
  <2> QED BY <1>1, <2>2, <2>3, RowStepReasoned
<1>9. ASSUME ClientReprocess(k) PROVE Reasoned'
  <2>1. ReprocessDlq(k) BY <1>9 DEF ClientReprocess
  <2>2. CASE k \in InState("dlq") /\ Changes(k, "ready", 0)
    BY <1>1, <2>1, <2>2, ReprocessUnreasoned, RowStepReasoned DEF BrokerInv
  <2> QED BY <1>2, <2>1, <2>2, ReprocessEffect DEF BrokerInv
<1> QED BY <1>4, <1>5, <1>6, <1>7, <1>8, <1>9 DEF ClientStep

LEMMA SweepReasoned ==
  ASSUME BrokerInv, Reasoned, NEW e \in listed, SweepEntry(e) \/ SweepError(e)
  PROVE  Reasoned'
<1>1. listed' = listed \ {e}
  BY DEF SweepEntry, SweepRecover, SweepRetry, SweepDeadLetter, SweepLeave, SweepError, Treated
<1>2. \A f \in listed' : f.key # e.key BY <1>1 DEF BrokerInv, ListedOK
<1>3. Unreasoned(e.key) BY DEF Reasoned, Unreasoned
<1>4. ASSUME NEW d \in Int, DelayMessage(e.key, d) PROVE Reasoned'
  <2>1. Changes(e.key, "delayed", index[e.key].attempt) BY <1>4, DelayEffect DEF BrokerInv
  <2>2. Unreasoned(e.key)' BY <1>3, <1>4, DelayUnreasoned DEF BrokerInv
  <2> QED BY <1>1, <2>1, <2>2, RowStepReasoned
<1>5. CASE SweepRecover(e) BY <1>4, <1>5 DEF SweepRecover
<1>6. CASE SweepRetry(e)
  <2>1. Policies[e.queue] # NoPolicy BY <1>6 DEF SweepRetry, VerdictOn
  <2>2. Backoff(e.attempt, Policies[e.queue].retry) \in Int BY <2>1, RetryPolicyOf
  <2> QED BY <1>4, <1>6, <2>2 DEF SweepRetry
<1>7. CASE SweepDeadLetter(e)
  <2>1. Changes(e.key, "dlq", index[e.key].attempt)
    BY <1>7, MoveToDlqEffect DEF SweepDeadLetter, BrokerInv
  <2> QED BY <1>1, <1>2, <2>1, RowStepReasoned
<1>8. CASE UNCHANGED sqlVars BY <1>1, <1>8 DEF sqlVars, Reasoned
<1> QED BY <1>5, <1>6, <1>7, <1>8 DEF SweepEntry, SweepLeave, SweepError

LEMMA NextReasoned == BrokerInv /\ Reasoned /\ [Next]_vars => Reasoned'
<1> SUFFICES ASSUME BrokerInv, Reasoned, [Next]_vars PROVE Reasoned' OBVIOUS
<1>1. CASE \E k \in Keys : ClientStep(k) BY <1>1, ClientStepReasoned
<1>2. CASE ListExpired
  <2>1. UNCHANGED <<kv, index>> BY <1>2 DEF ListExpired, sqlVars
  <2>2. \A e \in listed' : index[e.key].state = "inflight"
    BY <1>2 DEF ListExpired, EntryOf, Expired, InState
  <2> QED BY <2>1, <2>2 DEF Reasoned
<1>3. CASE \E e \in listed : SweepEntry(e) \/ SweepError(e) BY <1>3, SweepReasoned
<1>4. CASE RetrySweep
  <2>1. /\ kv' = kv /\ listed' = listed
        /\ \A j \in kv : j \in Due \/ index'[j] = index[j]
        /\ \A j \in Due : index[j].state = "delayed" /\ index'[j].dlq_reason = index[j].dlq_reason
    BY <1>4, PromoteEffect, PromoteReasons DEF RetrySweep, brokerVars, BrokerInv
  <2> QED BY <2>1 DEF Reasoned
<1>5. CASE Restart BY <1>5 DEF Restart, sqlVars, Reasoned
<1>6. CASE Clock BY <1>6 DEF Clock, Tick, storeVars, brokerVars, Reasoned
<1>7. CASE UNCHANGED vars BY <1>7 DEF vars, Reasoned
<1> QED BY <1>1, <1>2, <1>3, <1>4, <1>5, <1>6, <1>7 DEF Next

\* The dlq_reason that list_dlq_messages reports is never that of an earlier stay
\* in the DLQ (move_to_dlq writes it, reprocess_dlq_message clears it, and the
\* sweep has treated its entry of a message it gave one).
THEOREM ReasonsCurrent == Spec => []ReasonIsCurrent
<1>1. Init => Reasoned BY DEF Init, SqlInit, Reasoned
<1>2. Spec => []Reasoned BY <1>1, NextReasoned, BrokerInvariant, PTL DEF Spec
<1>3. BrokerInv /\ Reasoned => ReasonIsCurrent
  BY DEF BrokerInv, SqlInv, Stored, Reasoned, ReasonIsCurrent
<1> QED BY <1>2, <1>3, BrokerInvariant, PTL

----------------------------------------------------------------------------
(* The order of service.                                                   *)

\* Any finite set of rows has a first one: take one that the fewest precede.
LEMMA FirstRow ==
  ASSUME NEW A, A # {}, IsFiniteSet(A), A \subseteq Stored,
         \A k \in A : index[k].priority \in Int /\ index[k].available_at \in Int
  PROVE  \E k \in A : \A j \in A : ~Precedes(j, k)
<1> DEFINE Ahead(k) == {j \in A : Precedes(j, k)}
           T == {Cardinality(Ahead(k)) : k \in A}
<1>1. \A k \in A : IsFiniteSet(Ahead(k)) /\ Cardinality(Ahead(k)) \in Nat
  BY FS_Subset, FS_CardinalityType
<1>2. T \subseteq Nat /\ T # {}
  BY <1>1
<1>3. PICK n \in T : \A m \in T : n <= m
  BY <1>2, LeastNatural
<1>4. PICK k \in A : n = Cardinality(Ahead(k))
  BY <1>3
<1>5. ASSUME NEW j \in A, Precedes(j, k) PROVE FALSE
  <2>1. Ahead(j) \subseteq Ahead(k)
    <3> SUFFICES ASSUME NEW i \in A, Precedes(i, j) PROVE Precedes(i, k)
      OBVIOUS
    <3> QED
      BY <1>5 DEF Precedes
  <2>2. j \in Ahead(k) /\ j \notin Ahead(j)
    BY <1>5 DEF Precedes
  <2>3. Cardinality(Ahead(j)) <= Cardinality(Ahead(k)) /\ Cardinality(Ahead(j)) # Cardinality(Ahead(k))
    BY <1>1, <2>1, <2>2, FS_Subset
  <2>4. Cardinality(Ahead(k)) <= Cardinality(Ahead(j))
    BY <1>3, <1>4
  <2> HIDE DEF Ahead
  <2> QED
    BY <1>1, <2>3, <2>4
<1> QED
  BY <1>5

\* lease_next never comes back empty-handed while a message is available, for any
\* finite number of keys and any priorities and times: what PoisonQuarantined
\* assumes of a consumer that polls is not stopped by the order of service.
THEOREM LeaseFinds == ASSUME IsFiniteSet(Keys) PROVE Spec => []SomeoneFirst
<1>1. ASSUME BrokerInv PROVE SomeoneFirst
  <2> SUFFICES ASSUME NEW q \in Queues, NEW c \in Consumers, Available(q, c) # {}
               PROVE  \E k \in Available(q, c) \cap kv : \A j \in Available(q, c) : ~Precedes(j, k)
    BY DEF SomeoneFirst
  <2>1. Stored = kv /\ kv \subseteq Keys /\ \A k \in kv : index[k] \in Row
    BY <1>1, SqlInvImplies DEF BrokerInv, SqlInv, SqlTypeOK, Stored
  <2>2. Available(q, c) \subseteq Stored
    BY DEF Available, InState
  <2>3. IsFiniteSet(Available(q, c))
    BY <2>1, <2>2, FS_Subset
  <2>4. \A k \in Available(q, c) : index[k].priority \in Int /\ index[k].available_at \in Int
    BY <2>1, <2>2 DEF Row
  <2>5. \E k \in Available(q, c) : \A j \in Available(q, c) : ~Precedes(j, k)
    BY <2>2, <2>3, <2>4, FirstRow
  <2> QED
    BY <2>1, <2>2, <2>5
<1> QED
  BY <1>1, BrokerInvariant, PTL

----------------------------------------------------------------------------
(* The bound on deliveries, when no consumer requeues.                     *)

\* Attempt a of a row of queue q in state s leaves room for the next lease.
InBudget(q, s, a) == Policies[q] # NoPolicy =>
  /\ a <= Allowed(Policies[q])
  /\ s \in {"ready", "delayed"} => a < Allowed(Policies[q])

\* The message has not been leased beyond attempt b, nor can be before the
\* entry that holds b is treated.
Behind(s, a, b) == a <= b /\ (s \in {"ready", "delayed"} => a < b)

RetryInv ==
  /\ \A k \in kv : InBudget(index[k].queue, index[k].state, index[k].attempt)
  /\ \A e \in listed : e.key \in kv => Behind(index[e.key].state, index[e.key].attempt, e.attempt)

LEMMA AllowedBounds ==
  ASSUME NEW q \in Queues, Policies[q] # NoPolicy
  PROVE  /\ Policies[q].retry.limit \in Nat /\ Allowed(Policies[q]) \in Nat
         /\ Allowed(Policies[q]) >= 1 /\ Allowed(Policies[q]) >= Policies[q].retry.limit
<1>1. Policies[q].retry.limit \in Nat BY BrokerAssumption DEF Retry
<1> QED BY <1>1 DEF Allowed, Larger

\* A step that gives row k a state and an attempt within its budget, and not
\* ahead of an entry still listed.
LEMMA RowStepInBudget ==
  ASSUME RetryInv, NEW k, NEW s, NEW a, Changes(k, s, a), listed' \subseteq listed,
         k \in kv => InBudget(index[k].queue, s, a),
         k \in kv => \A e \in listed' : e.key = k => Behind(s, a, e.attempt)
  PROVE  RetryInv'
<1>1. ASSUME NEW j \in kv'
      PROVE  InBudget(index'[j].queue, index'[j].state, index'[j].attempt)
  BY DEF Changes, RetryInv
<1>2. ASSUME NEW e \in listed', e.key \in kv'
      PROVE  Behind(index'[e.key].state, index'[e.key].attempt, e.attempt)
  BY <1>2 DEF Changes, RetryInv
<1> QED BY <1>1, <1>2 DEF RetryInv, InBudget

LEMMA RetryInit == Init => RetryInv
  BY DEF Init, SqlInit, RetryInv

LEMMA PublishInBudget ==
  ASSUME BrokerInv, BrokerInv', RetryInv, NEW k \in Keys, NEW q, NEW p, NEW d, NEW t,
         Publish(k, q, p, d, t)
  PROVE  RetryInv'
<1>1. /\ k \notin published /\ kv' = kv \cup {k} /\ listed' = listed
      /\ \A j \in kv : index'[j] = index[j]
      /\ index'[k].state \in {"ready", "delayed"} /\ index'[k].attempt = 0
  BY EnqueueEffect DEF Publish, BrokerInv
<1>2. index'[k].queue \in Queues BY <1>1 DEF BrokerInv, SqlInv, Row
<1>3. InBudget(index'[k].queue, index'[k].state, index'[k].attempt)
  BY <1>1, <1>2, AllowedBounds DEF InBudget
<1>4. \A j \in kv' : InBudget(index'[j].queue, index'[j].state, index'[j].attempt)
  BY <1>1, <1>3 DEF RetryInv
<1>5. \A e \in listed' : e.key # k BY <1>1 DEF BrokerInv, ListedOK
<1> QED BY <1>1, <1>4, <1>5 DEF RetryInv, InBudget

LEMMA ConsumeInBudget ==
  ASSUME BrokerInv, RetryInv, NEW k \in Keys, NEW q, NEW c, NEW v \in VisTimeouts,
         ConsumeNext(k, q, c, v)
  PROVE  RetryInv'
<1>1. k \in kv /\ index[k].state = "ready" /\ Changes(k, "inflight", index[k].attempt + 1)
  BY SqliteAssumption, LeaseEffect DEF ConsumeNext, BrokerInv
<1>2. listed' = listed BY DEF ConsumeNext
<1>3. index[k].queue \in Queues /\ index[k].attempt \in Nat BY <1>1 DEF BrokerInv, SqlInv, Row
<1>4. InBudget(index[k].queue, "inflight", index[k].attempt + 1)
  BY <1>1, <1>3, AllowedBounds DEF RetryInv, InBudget
<1>5. \A e \in listed : e.attempt \in Nat BY DEF BrokerInv, Ledger, Entry
<1>6. \A e \in listed : e.key = k => Behind("inflight", index[k].attempt + 1, e.attempt)
  BY <1>1, <1>3, <1>5 DEF RetryInv, Behind
<1> QED BY <1>1, <1>2, <1>4, <1>6, RowStepInBudget

\* An operation of a client that puts a row in use into another such state, or
\* a row of the DLQ back to attempt 0.
LEMMA ClientInBudget ==
  ASSUME BrokerInv, RetryInv, NEW k, NEW s, NEW a, Changes(k, s, a), listed' = listed,
         \/ s \in {"inflight", "dlq"} /\ a = index[k].attempt
         \/ s = "ready" /\ a = 0
  PROVE  RetryInv'
<1>1. ASSUME k \in kv PROVE InBudget(index[k].queue, s, a)
  <2>1. index[k].queue \in Queues BY <1>1 DEF BrokerInv, SqlInv, Row
  <2> QED BY <1>1, <2>1, AllowedBounds DEF RetryInv, InBudget
<1>2. ASSUME k \in kv, NEW e \in listed, e.key = k PROVE Behind(s, a, e.attempt)
  <2>1. e.attempt \in Nat /\ e.attempt >= 1 BY DEF BrokerInv, Ledger, Entry, ListedOK
  <2> QED BY <1>2, <2>1 DEF RetryInv, Behind
<1> QED BY <1>1, <1>2, RowStepInBudget

LEMMA SweepInBudget ==
  ASSUME BrokerInv, RetryInv, NEW e \in listed, SweepEntry(e) \/ SweepError(e)
  PROVE  RetryInv'
<1>1. listed' = listed \ {e}
  BY DEF SweepEntry, SweepRecover, SweepRetry, SweepDeadLetter, SweepLeave, SweepError, Treated
<1>2. \A f \in listed' : f.key # e.key BY <1>1 DEF BrokerInv, ListedOK
<1>3. e.key \in kv => index[e.key].queue = e.queue /\ index[e.key].queue \in Queues
  BY DEF BrokerInv, SqlInv, ListedOK, Row
<1>4. e.attempt \in Nat /\ (e.key \in kv => index[e.key].attempt \in Nat)
  BY DEF BrokerInv, SqlInv, Ledger, Entry, Row
<1>5. ASSUME NEW s, Changes(e.key, s, index[e.key].attempt),
             e.key \in kv => InBudget(e.queue, s, index[e.key].attempt)
      PROVE  RetryInv'
  BY <1>1, <1>2, <1>3, <1>5, RowStepInBudget
<1>6. CASE SweepRecover(e)
  <2>1. Policies[e.queue] = NoPolicy BY <1>6 DEF SweepRecover, VerdictOn, Verdict
  <2>2. Changes(e.key, "delayed", index[e.key].attempt)
    BY <1>6, DelayEffect DEF SweepRecover, BrokerInv
  <2> QED BY <1>5, <2>1, <2>2 DEF InBudget
<1>7. CASE SweepRetry(e)
  <2>1. Policies[e.queue] # NoPolicy /\ Verdict(e.attempt, Policies[e.queue]) = "retry"
    BY <1>7 DEF SweepRetry, VerdictOn
  <2>2. Backoff(e.attempt, Policies[e.queue].retry) \in Int BY <2>1, RetryPolicyOf
  <2>3. Changes(e.key, "delayed", index[e.key].attempt)
    BY <1>7, <2>2, DelayEffect DEF SweepRetry, BrokerInv
  <2>4. e.queue \in Queues BY RetryPolicyOf
  <2>5. Policies[e.queue].retry.limit \in Nat BY <2>1, <2>4, AllowedBounds
  <2>6. e.attempt < Policies[e.queue].retry.limit
    BY <1>4, <2>1, <2>5 DEF Verdict
  <2>7. Allowed(Policies[e.queue]) \in Nat /\ Allowed(Policies[e.queue]) >= Policies[e.queue].retry.limit
    BY <2>1, <2>4, AllowedBounds
  <2>8. e.key \in kv => index[e.key].attempt <= e.attempt BY DEF RetryInv, Behind
  <2>9. e.key \in kv => InBudget(e.queue, "delayed", index[e.key].attempt)
    BY <1>4, <2>5, <2>6, <2>7, <2>8 DEF InBudget
  <2> QED BY <1>5, <2>3, <2>9
<1>8. CASE SweepDeadLetter(e)
  <2>1. Changes(e.key, "dlq", index[e.key].attempt)
    BY <1>8, MoveToDlqEffect DEF SweepDeadLetter, BrokerInv
  <2>2. e.key \in kv => InBudget(e.queue, "dlq", index[e.key].attempt)
    BY <1>3 DEF RetryInv, InBudget
  <2> QED BY <1>5, <2>1, <2>2
<1>9. CASE UNCHANGED sqlVars
  BY <1>1, <1>9 DEF sqlVars, RetryInv
<1> QED BY <1>6, <1>7, <1>8, <1>9 DEF SweepEntry, SweepLeave, SweepError

LEMMA ListInBudget == ASSUME BrokerInv, RetryInv, ListExpired PROVE RetryInv'
<1>1. UNCHANGED <<kv, index>> BY DEF ListExpired, sqlVars
<1>2. ASSUME NEW e \in listed'
      PROVE  Behind(index[e.key].state, index[e.key].attempt, e.attempt)
  <2>1. PICK k \in Expired : e = EntryOf(k) BY DEF ListExpired
  <2>2. k \in kv /\ index[k].state = "inflight"
    BY <2>1 DEF Expired, InState, Stored, BrokerInv, SqlInv
  <2>3. index[k].attempt \in Nat BY <2>2 DEF BrokerInv, SqlInv, Row
  <2>4. e.key = k /\ e.attempt = index[k].attempt BY <2>1 DEF EntryOf
  <2> QED BY <2>1, <2>2, <2>3, <2>4 DEF Behind
<1> QED BY <1>1, <1>2 DEF RetryInv, InBudget

LEMMA RetrySweepInBudget == ASSUME BrokerInv, RetryInv, RetrySweep PROVE RetryInv'
<1>1. /\ kv' = kv /\ listed' = listed
      /\ \A j \in kv : j \in Due \/ index'[j] = index[j]
      /\ \A j \in Due : /\ index[j].state = "delayed" /\ index'[j].state = "ready"
                        /\ index'[j].queue = index[j].queue
                        /\ index'[j].attempt = index[j].attempt
  BY PromoteEffect DEF RetrySweep, brokerVars, BrokerInv
<1>2. \A j \in kv : InBudget(index'[j].queue, index'[j].state, index'[j].attempt)
  BY <1>1 DEF RetryInv, InBudget
<1>3. \A e \in listed : e.key \in kv => Behind(index'[e.key].state, index'[e.key].attempt, e.attempt)
  BY <1>1 DEF RetryInv, Behind
<1> QED BY <1>1, <1>2, <1>3 DEF RetryInv, InBudget

LEMMA ClientStepInBudget ==
  ASSUME "requeue" \notin ClientOps, BrokerInv, BrokerInv', RetryInv, NEW k \in Keys, ClientStep(k)
  PROVE  RetryInv'
<1>0. ASSUME UNCHANGED <<kv, index, listed>> PROVE RetryInv'
  BY <1>0 DEF RetryInv, InBudget
<1>1. CASE \E q \in Queues, p \in Priorities, d \in PublishDelays,
              t \in Consumers \cup {AnyConsumer} : Publish(k, q, p, d, t)
  BY <1>1, PublishInBudget
<1>2. CASE \E q \in Queues, c \in Consumers, v \in VisTimeouts : ConsumeNext(k, q, c, v)
  BY <1>2, ConsumeInBudget
<1>3. ASSUME NEW c \in Consumers, ClientAck(c, k) PROVE RetryInv'
  <2>1. kv' = kv \ {k} /\ \A j \in kv' : index'[j] = index[j]
    BY <1>3, AckEffect DEF ClientAck, BrokerInv
  <2>2. listed' = listed BY <1>3 DEF ClientAck
  <2> QED BY <2>1, <2>2 DEF RetryInv, InBudget
<1>4. ASSUME NEW c \in Consumers, ClientReject(c, k) PROVE RetryInv'
  BY <1>0, <1>4, NackRejectEffect, ClientInBudget DEF ClientReject, brokerVars, BrokerInv
<1>5. ASSUME NEW c \in Consumers, NEW v \in VisTimeouts, ClientExtend(c, k, v) PROVE RetryInv'
  <2>1. v \in Nat BY SqliteAssumption
  <2> QED BY <1>5, <2>1, ExtendEffect, ClientInBudget DEF ClientExtend, brokerVars, BrokerInv
<1>6. CASE ClientReprocess(k)
  BY <1>0, <1>6, ReprocessEffect, ClientInBudget DEF ClientReprocess, brokerVars, BrokerInv
<1> QED BY <1>1, <1>2, <1>3, <1>4, <1>5, <1>6 DEF ClientStep, ClientRequeue

LEMMA NextInBudget ==
  ASSUME "requeue" \notin ClientOps
  PROVE  BrokerInv /\ BrokerInv' /\ RetryInv /\ [Next]_vars => RetryInv'
<1> SUFFICES ASSUME BrokerInv, BrokerInv', RetryInv, [Next]_vars PROVE RetryInv' OBVIOUS
<1>0. ASSUME UNCHANGED <<kv, index>>, listed' \subseteq listed PROVE RetryInv'
  BY <1>0 DEF RetryInv, InBudget
<1>1. CASE \E k \in Keys : ClientStep(k) BY <1>1, ClientStepInBudget
<1>2. CASE ListExpired BY <1>2, ListInBudget
<1>3. CASE \E e \in listed : SweepEntry(e) \/ SweepError(e) BY <1>3, SweepInBudget
<1>4. CASE RetrySweep BY <1>4, RetrySweepInBudget
<1>5. CASE Restart BY <1>0, <1>5 DEF Restart, sqlVars
<1>6. CASE Clock BY <1>0, <1>6 DEF Clock, Tick, storeVars, brokerVars
<1>7. CASE UNCHANGED vars BY <1>0, <1>7 DEF vars
<1> QED BY <1>1, <1>2, <1>3, <1>4, <1>5, <1>6, <1>7 DEF Next

\* Deliveries are bounded although apply_retry_or_dlq decides on an attempt
\* that get_expired_inflight_messages read in an earlier transaction.
THEOREM DeliveriesBounded == Spec => []RetriesBounded
<1>1. CASE "requeue" \in ClientOps
  <2>1. RetriesBounded BY <1>1 DEF RetriesBounded
  <2> QED BY <2>1, PTL
<1>2. CASE "requeue" \notin ClientOps
  <2>1. BrokerInv /\ RetryInv => RetriesBounded
    BY DEF BrokerInv, SqlInv, RetryInv, InBudget, RetriesBounded, Stored
  <2>2. BrokerInv /\ BrokerInv' /\ RetryInv /\ [Next]_vars => RetryInv'
    BY <1>2, NextInBudget
  <2> QED BY <2>1, <2>2, RetryInit, BrokerInvariant, PTL DEF Spec
<1> QED BY <1>1, <1>2

----------------------------------------------------------------------------
(* The sweep and live leases, when no consumer gives a message back.       *)

\* Until its entry is treated, a listed message stays as it was listed.
StillExpired == \A e \in listed :
  e.key \in kv => index[e.key].state = "inflight" /\ index[e.key].lease_until < now

LEMMA ClientStepExpired ==
  ASSUME ClientOps \cap {"requeue", "reject"} = {}, BrokerInv, StillExpired,
         NEW k \in Keys, ClientStep(k)
  PROVE  StillExpired'
<1>1. listed' = listed /\ now' = now
  BY DEF ClientStep, Publish, Enqueue, ConsumeNext, LeaseNext, ClientAck, Ack, ClientRequeue,
         NackRequeue, ClientReject, NackReject, ClientExtend, ExtendLease, ClientReprocess,
         ReprocessDlq, brokerVars
<1>2. ASSUME NEW s, NEW a, Changes(k, s, a), \A e \in listed : e.key = k => k \notin kv
      PROVE  StillExpired'
  BY <1>1, <1>2 DEF Changes, StillExpired
<1>3. ASSUME NEW q \in Queues, NEW p \in Priorities, NEW d \in PublishDelays,
             NEW t \in Consumers \cup {AnyConsumer}, Publish(k, q, p, d, t)
      PROVE  StillExpired'
  <2>1. k \notin published /\ kv' = kv \cup {k} /\ \A j \in kv : index'[j] = index[j]
    BY <1>3, EnqueueEffect DEF Publish, BrokerInv
  <2>2. \A e \in listed : e.key # k BY <2>1 DEF BrokerInv, ListedOK
  <2> QED BY <1>1, <2>1, <2>2 DEF StillExpired
<1>4. ASSUME NEW q \in Queues, NEW c \in Consumers, NEW v \in VisTimeouts, ConsumeNext(k, q, c, v)
      PROVE  StillExpired'
  <2>1. index[k].state = "ready" /\ Changes(k, "inflight", index[k].attempt + 1)
    BY <1>4, SqliteAssumption, LeaseEffect DEF ConsumeNext, BrokerInv
  <2>2. \A e \in listed : e.key = k => k \notin kv BY <2>1 DEF StillExpired
  <2> QED BY <1>2, <2>1, <2>2
<1>5. ASSUME NEW c \in Consumers, ClientAck(c, k) PROVE StillExpired'
  <2>1. kv' = kv \ {k} /\ \A j \in kv' : index'[j] = index[j]
    BY <1>5, AckEffect DEF ClientAck, BrokerInv
  <2> QED BY <1>1, <2>1 DEF StillExpired
<1>6. ASSUME NEW c \in Consumers, NEW v \in VisTimeouts, ClientExtend(c, k, v) PROVE StillExpired'
  <2>1. index[k].lease_until > now /\ k \in kv /\ Changes(k, "inflight", index[k].attempt)
    BY <1>6, SqliteAssumption, ExtendEffect DEF ClientExtend, BrokerInv
  <2>2. index[k].lease_until \in Int /\ now \in Nat BY <2>1 DEF BrokerInv, SqlInv, Row
  <2>3. \A e \in listed : e.key = k => k \notin kv BY <2>1, <2>2 DEF StillExpired
  <2> QED BY <1>2, <2>1, <2>3
<1>7. ASSUME ClientReprocess(k) PROVE StillExpired'
  <2>1. CASE UNCHANGED <<kv, index>> BY <1>1, <2>1 DEF StillExpired
  <2>2. CASE k \in InState("dlq") /\ Changes(k, "ready", 0)
    <3>1. \A e \in listed : e.key = k => k \notin kv BY <2>2 DEF InState, StillExpired
    <3> QED BY <1>2, <2>2, <3>1
  <2> QED BY <1>7, <2>1, <2>2, ReprocessEffect DEF ClientReprocess, BrokerInv
<1> QED BY <1>3, <1>4, <1>5, <1>6, <1>7 DEF ClientStep, ClientRequeue, ClientReject

LEMMA SweepExpired ==
  ASSUME BrokerInv, StillExpired, NEW e \in listed, SweepEntry(e) \/ SweepError(e)
  PROVE  StillExpired'
<1>1. listed' = listed \ {e}
  BY DEF SweepEntry, SweepRecover, SweepRetry, SweepDeadLetter, SweepLeave, SweepError, Treated
<1>2. \A f \in listed' : f.key # e.key BY <1>1 DEF BrokerInv, ListedOK
<1>3. now' = now
  BY DEF SweepEntry, SweepRecover, SweepRetry, SweepDeadLetter, SweepLeave, SweepError,
         DelayMessage, MoveToDlq, sqlVars
<1>4. ASSUME NEW s, NEW a, Changes(e.key, s, a) PROVE StillExpired'
  BY <1>1, <1>2, <1>3, <1>4 DEF Changes, StillExpired
<1>5. CASE SweepRecover(e) BY <1>4, <1>5, DelayEffect DEF SweepRecover, BrokerInv
<1>6. CASE SweepRetry(e)
  <2>1. Policies[e.queue] # NoPolicy BY <1>6 DEF SweepRetry, VerdictOn
  <2>2. Backoff(e.attempt, Policies[e.queue].retry) \in Int BY <2>1, RetryPolicyOf
  <2> QED BY <1>4, <1>6, <2>2, DelayEffect DEF SweepRetry, BrokerInv
<1>7. CASE SweepDeadLetter(e) BY <1>4, <1>7, MoveToDlqEffect DEF SweepDeadLetter, BrokerInv
<1>8. CASE UNCHANGED sqlVars BY <1>1, <1>8 DEF sqlVars, StillExpired
<1> QED BY <1>5, <1>6, <1>7, <1>8 DEF SweepEntry, SweepLeave, SweepError

LEMMA NextExpired ==
  ASSUME ClientOps \cap {"requeue", "reject"} = {}
  PROVE  BrokerInv /\ StillExpired /\ [Next]_vars => StillExpired'
<1> SUFFICES ASSUME BrokerInv, StillExpired, [Next]_vars PROVE StillExpired' OBVIOUS
<1>1. CASE \E k \in Keys : ClientStep(k) BY <1>1, ClientStepExpired
<1>2. CASE ListExpired
  <2>1. UNCHANGED <<kv, index, now>> BY <1>2 DEF ListExpired, sqlVars
  <2>2. \A e \in listed' : \E k \in Expired : e.key = k BY <1>2 DEF ListExpired, EntryOf
  <2> QED BY <2>1, <2>2 DEF StillExpired, Expired, InState
<1>3. CASE \E e \in listed : SweepEntry(e) \/ SweepError(e) BY <1>3, SweepExpired
<1>4. CASE RetrySweep
  <2>1. /\ kv' = kv /\ listed' = listed /\ now' = now
        /\ \A j \in kv : j \in Due \/ index'[j] = index[j]
        /\ \A j \in Due : index[j].state = "delayed"
    BY <1>4, PromoteEffect DEF RetrySweep, ProcessDelayed, brokerVars, BrokerInv
  <2> QED BY <2>1 DEF StillExpired
<1>5. CASE Restart BY <1>5 DEF Restart, StillExpired
<1>6. CASE Clock
  <2>1. UNCHANGED <<kv, index, listed>> /\ now' = now + 1
    BY <1>6 DEF Clock, Tick, storeVars, brokerVars
  <2>2. \A e \in listed : e.key \in kv => index[e.key].lease_until \in Int
    BY DEF BrokerInv, SqlInv, Row
  <2>3. now \in Nat BY DEF BrokerInv, SqlInv
  <2> QED BY <2>1, <2>2, <2>3 DEF StillExpired
<1>7. CASE UNCHANGED vars BY <1>7 DEF vars, StillExpired
<1> QED BY <1>1, <1>2, <1>3, <1>4, <1>5, <1>6, <1>7 DEF Next

\* As long as consumers only acknowledge and extend, the lease sweep never takes
\* away a lease that has not run out (recover_expired_leases, which treats a
\* list read earlier).
THEOREM LiveLeases ==
  ASSUME ClientOps \cap {"requeue", "reject"} = {}
  PROVE  Spec => LiveLeaseKept
<1>1. Init => StillExpired BY DEF Init, StillExpired
<1>2. BrokerInv /\ StillExpired =>
        \A e \in listed \ listed' :
          (e.key \in InState("inflight") /\ index[e.key].lease_until >= now) => index' = index
  <2> SUFFICES ASSUME BrokerInv, StillExpired, NEW e \in listed \ listed',
                      e.key \in InState("inflight"), index[e.key].lease_until >= now
               PROVE  FALSE
    OBVIOUS
  <2>1. e.key \in kv BY DEF InState, Stored, BrokerInv, SqlInv
  <2>2. index[e.key].lease_until \in Int /\ now \in Nat BY <2>1 DEF BrokerInv, SqlInv, Row
  <2> QED BY <2>1, <2>2 DEF StillExpired
<1> QED BY <1>1, <1>2, NextExpired, BrokerInvariant, PTL DEF Spec, LiveLeaseKept

----------------------------------------------------------------------------
(* The daemon implements the contract AtLeastOnce.                         *)

\* A step that changes one row, and the books not at all, buries or unearths
\* one message.
LEMMA RowStepPromised ==
  ASSUME BrokerInv, BrokerInv', NEW k, NEW s, NEW a,
         Changes(k, s, a) \/ UNCHANGED <<kv, index>>, UNCHANGED <<delivered, acked>>
  PROVE  [Promise!ContractNext]_Promise!contractVars
<1>1. Stored = kv /\ Stored' = kv' BY DEF Stored, BrokerInv, SqlInv
<1>2. CASE UNCHANGED <<kv, index>>
  <2>1. UNCHANGED <<Stored, InState("dlq")>> BY <1>2 DEF Stored, InState
  <2> QED BY <2>1 DEF Promise!contractVars
<1>3. CASE Changes(k, s, a) /\ k \notin kv
  <2>1. UNCHANGED <<Stored, InState("dlq")>> BY <1>1, <1>3 DEF Changes, InState
  <2> QED BY <2>1 DEF Promise!contractVars
<1>4. CASE Changes(k, s, a) /\ k \in kv /\ s = "dlq"
  <2>1. Stored' = Stored /\ InState("dlq")' = InState("dlq") \cup {k}
    BY <1>1, <1>4 DEF Changes, InState
  <2>2. Promise!Bury(k) BY <1>1, <1>4, <2>1 DEF Promise!Bury
  <2> QED BY <1>4, <2>2 DEF Promise!ContractNext, BrokerInv, SqlInv
<1>5. CASE Changes(k, s, a) /\ k \in kv /\ s # "dlq"
  <2>1. Stored' = Stored /\ InState("dlq")' = InState("dlq") \ {k}
    BY <1>1, <1>5 DEF Changes, InState
  <2>2. Promise!Unearth(k) BY <2>1 DEF Promise!Unearth
  <2> QED BY <1>5, <2>2 DEF Promise!ContractNext, BrokerInv, SqlInv
<1> QED BY <1>2, <1>3, <1>4, <1>5

LEMMA ClientStepPromised ==
  ASSUME BrokerInv, BrokerInv', NEW k \in Keys, ClientStep(k)
  PROVE  [Promise!ContractNext]_Promise!contractVars
<1>0. Stored = kv /\ Stored' = kv' BY DEF Stored, BrokerInv, SqlInv
<1>1. ASSUME NEW q \in Queues, NEW p \in Priorities, NEW d \in PublishDelays,
             NEW t \in Consumers \cup {AnyConsumer}, Publish(k, q, p, d, t)
      PROVE  Promise!ContractNext
  <2>1. /\ kv' = kv \cup {k} /\ \A j \in kv : index'[j] = index[j]
        /\ index'[k].state \in {"ready", "delayed"} /\ k \notin kv
        /\ k \notin published /\ UNCHANGED <<delivered, acked>>
    BY <1>1, EnqueueEffect DEF Publish, BrokerInv
  <2>2. InState("dlq")' = InState("dlq") BY <1>0, <2>1 DEF InState
  <2>3. k \notin acked BY <2>1 DEF BrokerInv, Ledger
  <2>4. Promise!Publish(k) BY <1>0, <2>1, <2>2, <2>3 DEF Promise!Publish
  <2> QED BY <2>4 DEF Promise!ContractNext
<1>2. ASSUME NEW q \in Queues, NEW c \in Consumers, NEW v \in VisTimeouts, ConsumeNext(k, q, c, v)
      PROVE  Promise!ContractNext
  <2>1. /\ k \in kv /\ index[k].state = "ready" /\ Changes(k, "inflight", index[k].attempt + 1)
        /\ delivered' = delivered \cup {<<c, k>>} /\ acked' = acked
    BY <1>2, SqliteAssumption, LeaseEffect DEF ConsumeNext, BrokerInv
  <2>2. InState("dlq")' = InState("dlq") /\ k \notin InState("dlq")
    BY <1>0, <2>1 DEF InState, Changes
  <2>3. Promise!Hand(c, k) BY <1>0, <2>1, <2>2 DEF Promise!Hand, Changes
  <2> QED BY <2>3 DEF Promise!ContractNext
<1>3. ASSUME NEW c \in Consumers, ClientAck(c, k)
      PROVE  [Promise!ContractNext]_Promise!contractVars
  <2>1. kv' = kv \ {k} /\ \A j \in kv' : index'[j] = index[j]
    BY <1>3, AckEffect DEF ClientAck, BrokerInv
  <2>2. <<c, k>> \in delivered /\ acked' = acked \cup {k} /\ delivered' = delivered
    BY <1>3 DEF ClientAck
  <2>3. InState("dlq")' = InState("dlq") \ {k} BY <1>0, <2>1 DEF InState
  <2>4. CASE k \in kv
    <3>1. Promise!Settle(k) BY <1>0, <2>1, <2>2, <2>3, <2>4 DEF Promise!Settle
    <3> QED BY <3>1 DEF Promise!ContractNext
  <2>5. CASE k \notin kv
    <3>1. k \in acked BY <2>2, <2>5 DEF BrokerInv, Ledger
    <3>2. k \notin InState("dlq") BY <1>0, <2>5 DEF InState
    <3>3. UNCHANGED <<Stored, InState("dlq"), delivered, acked>>
      BY <1>0, <2>1, <2>2, <2>3, <2>5, <3>1, <3>2
    <3> QED BY <3>3 DEF Promise!contractVars
  <2> QED BY <2>4, <2>5
<1>4. ASSUME NEW c \in Consumers, ClientRequeue(c, k) \/ ClientReject(c, k)
      PROVE  [Promise!ContractNext]_Promise!contractVars
  <2>1. CASE ClientRequeue(c, k)
    BY <2>1, NackRequeueEffect, RowStepPromised DEF ClientRequeue, brokerVars, BrokerInv
  <2>2. CASE ClientReject(c, k)
    BY <2>2, NackRejectEffect, RowStepPromised DEF ClientReject, brokerVars, BrokerInv
  <2> QED BY <1>4, <2>1, <2>2
<1>5. ASSUME NEW c \in Consumers, NEW v \in VisTimeouts, ClientExtend(c, k, v)
      PROVE  [Promise!ContractNext]_Promise!contractVars
  <2>1. v \in Nat BY SqliteAssumption
  <2> QED BY <1>5, <2>1, ExtendEffect, RowStepPromised DEF ClientExtend, brokerVars, BrokerInv
<1>6. ASSUME ClientReprocess(k) PROVE [Promise!ContractNext]_Promise!contractVars
  BY <1>6, ReprocessEffect, RowStepPromised DEF ClientReprocess, brokerVars, BrokerInv
<1> QED BY <1>1, <1>2, <1>3, <1>4, <1>5, <1>6 DEF ClientStep

LEMMA SweepPromised ==
  ASSUME BrokerInv, BrokerInv', NEW e \in listed, SweepEntry(e) \/ SweepError(e)
  PROVE  [Promise!ContractNext]_Promise!contractVars
<1>1. UNCHANGED <<delivered, acked>>
  BY DEF SweepEntry, SweepRecover, SweepRetry, SweepDeadLetter, SweepLeave, SweepError, Treated
<1>2. CASE SweepRecover(e)
  BY <1>1, <1>2, DelayEffect, RowStepPromised DEF SweepRecover, BrokerInv
<1>3. CASE SweepRetry(e)
  <2>1. Policies[e.queue] # NoPolicy BY <1>3 DEF SweepRetry, VerdictOn
  <2>2. Backoff(e.attempt, Policies[e.queue].retry) \in Int BY <2>1, RetryPolicyOf
  <2> QED BY <1>1, <1>3, <2>2, DelayEffect, RowStepPromised DEF SweepRetry, BrokerInv
<1>4. CASE SweepDeadLetter(e)
  BY <1>1, <1>4, MoveToDlqEffect, RowStepPromised DEF SweepDeadLetter, BrokerInv
<1>5. CASE UNCHANGED sqlVars BY <1>1, <1>5, RowStepPromised DEF sqlVars
<1> QED BY <1>2, <1>3, <1>4, <1>5 DEF SweepEntry, SweepLeave, SweepError

LEMMA NextPromised ==
  BrokerInv /\ BrokerInv' /\ [Next]_vars => [Promise!ContractNext]_Promise!contractVars
<1> SUFFICES ASSUME BrokerInv, BrokerInv', [Next]_vars
             PROVE  [Promise!ContractNext]_Promise!contractVars
  OBVIOUS
<1>0. ASSUME UNCHANGED <<kv, index, delivered, acked>>
      PROVE  [Promise!ContractNext]_Promise!contractVars
  BY <1>0, RowStepPromised
<1>1. CASE \E k \in Keys : ClientStep(k) BY <1>1, ClientStepPromised
<1>2. CASE ListExpired BY <1>0, <1>2 DEF ListExpired, sqlVars
<1>3. CASE \E e \in listed : SweepEntry(e) \/ SweepError(e) BY <1>3, SweepPromised
<1>4. CASE RetrySweep
  <2>1. /\ kv' = kv
        /\ \A j \in kv : j \in Due \/ index'[j] = index[j]
        /\ \A j \in Due : index[j].state = "delayed" /\ index'[j].state = "ready"
    BY <1>4, PromoteEffect DEF RetrySweep, BrokerInv
  <2>2. Stored = kv /\ Stored' = kv' BY DEF Stored, BrokerInv, SqlInv
  <2>3. InState("dlq")' = InState("dlq") BY <2>1, <2>2 DEF InState
  <2>4. UNCHANGED <<Stored, InState("dlq"), delivered, acked>>
    BY <1>4, <2>1, <2>2, <2>3 DEF RetrySweep, brokerVars
  <2> QED BY <2>4 DEF Promise!contractVars
<1>5. CASE Restart BY <1>0, <1>5 DEF Restart, sqlVars
<1>6. CASE Clock BY <1>0, <1>6 DEF Clock, Tick, storeVars, brokerVars
<1>7. CASE UNCHANGED vars BY <1>0, <1>7 DEF vars
<1> QED BY <1>1, <1>2, <1>3, <1>4, <1>5, <1>6, <1>7 DEF Next

\* QueueManager and MailboxHandler over SQLiteAdapter keep what AtLeastOnce
\* promises the clients of a queue.
THEOREM ContractKept == Spec => KeepsContract
<1>1. Init => Promise!ContractInit
  BY DEF Init, SqlInit, Stored, InState, Promise!ContractInit
<1> QED BY <1>1, NextPromised, BrokerInvariant, PTL DEF Spec, KeepsContract, Promise!Contract

\* In the contract, what is settled is not owed, and stays so.
LEMMA SettledApart ==
  ASSUME [Promise!ContractNext]_Promise!contractVars, Stored \cap acked = {}
  PROVE  \A k \in acked : NeverBack(k)
BY DEF NeverBack, Promise!ContractNext, Promise!contractVars, Promise!Publish, Promise!Bury, Promise!Unearth,
   Promise!Settle, Promise!Hand

\* At least once, and never again: nothing the daemon does, a sweep that works on
\* an old list least of all, brings an acknowledged message back to a consumer.
THEOREM AcksAreFinal == Spec => AckedIsFinal
<1>1. BrokerInv => Stored \cap acked = {}
  BY DEF BrokerInv, SqlInv, Ledger, Stored
<1>2. BrokerInv /\ BrokerInv' /\ [Next]_vars => [\A k \in acked : NeverBack(k)]_vars
  BY <1>1, NextPromised, SettledApart
<1> QED
  BY <1>2, BrokerInvariant, PTL DEF Spec, AckedIsFinal
============================================================================
