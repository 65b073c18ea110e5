--------------------------- MODULE HybridAdapter ---------------------------
(***************************************************************************)
(* The hybrid backend of MainMQ under the daemon: the rows of a message in *)
(* SQLite, its payload in a file of active, archive or dlq.  Database and  *)
(* file change one after the other.  An operation is the sequence of       *)
(* stores it goes through under db_mutex_, each a commit or a rename, so   *)
(* that the others only see where it ends: after its last step or, when    *)
(* the daemon is killed inside it, after an earlier one.  The kv row of a  *)
(* message is inserted and deleted with its index row.  The SQL of the     *)
(* operations is that of the SQLite backend, except where a guard differs; *)
(* queues, priorities and targets are left to SqliteAdapter.               *)
(***************************************************************************)
EXTENDS RetryPolicy, Sequences, FiniteSets

CONSTANTS
  Keys, Consumers,
  PublishDelays,  \* delays a publisher asks for, in seconds
  VisTimeouts,    \* visibility timeouts, in seconds
  Policy,         \* the policy of the queue, or NoPolicy
  NoPolicy,
  ClientOps,      \* the commands clients send, besides publish and consume
  NoRow,          \* a message without rows
  MaxTime,        \* bound: last value of the clock
  MaxAttempt,     \* bound: deliveries of one message
  MaxFaults,      \* bound: kills and failed commits
  MaxRepairs      \* bound: calls of repair_consistency

States == {"ready", "inflight", "delayed", "dlq"}

NULL == -1

Row == [state : States, available_at : Int, lease_until : Int, attempt : Nat]

ASSUME HybridAssumption ==
  /\ NoRow \notin Row
  /\ Policy \in [retry : Retry, dlq_enabled : BOOLEAN] \cup {NoPolicy}
  /\ PublishDelays \subseteq Nat /\ VisTimeouts \subseteq Nat
  /\ ClientOps \subseteq {"ack", "requeue", "reject", "extend", "reprocess"}
  /\ {MaxTime, MaxAttempt, MaxFaults, MaxRepairs} \subseteq Nat

VARIABLES
  store,      \* the rows, and where the payload files are
  now,        \* the clock, in seconds
  listed,     \* entries the lease sweep has still to treat
  report,     \* the issues check_consistency reported and nobody repaired yet
  delivered,  \* <<c, k>>: consumer c was given a lease of k
  acked,      \* messages an ack has deleted
  faults, repairs

clientVars == <<delivered, acked>>
hybridVars == <<store, now, listed, report, delivered, acked, faults, repairs>>

Dirs == {"active", "archive", "dlq"}

Store == [row : [Keys -> Row \cup {NoRow}], file : [Keys -> Dirs \cup {"none"}]]

----------------------------------------------------------------------------
(* Commits and renames: each takes a store to the next one.                *)

Stored(s) == {k \in Keys : s.row[k] # NoRow}

InState(s, state) == {k \in Stored(s) : s.row[k].state = state}

\* "ready, inflight, delayed should have payload in active/"
Live(s) == Stored(s) \ InState(s, "dlq")

Files(s, dir) == {k \in Keys : s.file[k] = dir}

Commit(s, k, row) == [s EXCEPT !.row[k] = row]

\* A rename of a file that is not there fails, and nobody looks at the error.
Rename(s, k, from, to) == IF s.file[k] = from THEN [s EXCEPT !.file[k] = to] ELSE s

FreshRow(delay) == [state |-> IF delay > 0 THEN "delayed" ELSE "ready",
                    available_at |-> now + delay, lease_until |-> NULL, attempt |-> 0]

Moved(row, state, at) == [row EXCEPT !.state = state, !.available_at = at, !.lease_until = NULL]

DeadRow(row) == Moved(row, "dlq", row.available_at)

\* The stores an operation goes through, in order.

\* The file is in active before the transaction commits.
EnqueuePath(k, delay) ==
  LET written == [store EXCEPT !.file[k] = "active"]
  IN  <<written, Commit(written, k, FreshRow(delay))>>

LeasePath(k, v) ==
  <<Commit(store, k, [store.row[k] EXCEPT !.state = "inflight", !.lease_until = now + v,
                                          !.attempt = @ + 1])>>

\* A wrong variant: the payload is archived before the row is deleted.
AckPathArchiveFirst(k) ==
  LET archived == Rename(store, k, "active", "archive") IN <<archived, Commit(archived, k, NoRow)>>

AckPath(k) ==
  LET deleted == Commit(store, k, NoRow) IN <<deleted, Rename(deleted, k, "active", "archive")>>

RequeuePath(k) == <<Commit(store, k, Moved(store.row[k], "ready", now))>>

\* A wrong variant: the payload stays in active.
RejectPathRowOnly(k) == <<Commit(store, k, DeadRow(store.row[k]))>>

\* nack without requeue renames inside the transaction.
RejectPath(k) ==
  LET renamed == Rename(store, k, "active", "dlq")
  IN  <<renamed, Commit(renamed, k, DeadRow(store.row[k]))>>

\* Wrong variants: a state no query looks for; the rows are deleted.
DlqPathDead(k) == <<Commit(store, k, [store.row[k] EXCEPT !.state = "dead"])>>

DlqPathDrops(k) == <<Commit(store, k, NoRow)>>

\* move_to_dlq commits, then renames.
DlqPath(k) ==
  LET dead == Commit(store, k, DeadRow(store.row[k])) IN <<dead, Rename(dead, k, "active", "dlq")>>

DelayPath(k, delay) ==
  <<Commit(store, k, Moved(store.row[k], IF delay > 0 THEN "delayed" ELSE "ready", now + delay))>>

\* A wrong variant: the payload stays in dlq.
ReprocessPathRowOnly(k) ==
  <<Commit(store, k, [Moved(store.row[k], "ready", now) EXCEPT !.attempt = 0])>>

ReprocessPath(k) ==
  LET reset == Commit(store, k, [Moved(store.row[k], "ready", now) EXCEPT !.attempt = 0])
  IN  <<reset, Rename(reset, k, "dlq", "active")>>

Completes(path) == store' = path[Len(path)] /\ UNCHANGED <<now, report, faults, repairs>>

Fault == faults < MaxFaults /\ faults' = faults + 1 /\ UNCHANGED <<now, repairs, delivered>>

\* The daemon is killed and started again: what it had in memory is lost.
Down == Fault /\ listed' = {} /\ report' = {}

KilledIn(path) == Down /\ \E i \in 1 .. Len(path) - 1 : store' = path[i]

----------------------------------------------------------------------------
(* Clients.  Ack and nack refuse a message that is not inflight; they look *)
(* neither at the consumer nor at the end of the lease.                    *)

\* The key holds a fresh GUID: no row, file or client has it yet.
MayEnqueue(k) == k \notin Stored(store) \cup acked /\ k \in Files(store, "none")

Enqueue(k, delay) ==
  MayEnqueue(k) /\ Completes(EnqueuePath(k, delay)) /\ UNCHANGED <<listed, clientVars>>

Available == {k \in InState(store, "ready") : store.row[k].available_at <= now}

\* The payload is read after the commit; without a file in active the message
\* is handed out all the same, with an empty payload.
LeaseNext(k, c, v) ==
  /\ k \in Available
  /\ store.row[k].attempt < MaxAttempt
  /\ Completes(LeasePath(k, v))
  /\ delivered' = delivered \cup {<<c, k>>}
  /\ UNCHANGED <<listed, acked>>

MaySettle(op, c, k) ==
  op \in ClientOps /\ <<c, k>> \in delivered /\ k \in InState(store, "inflight")

Ack(c, k) ==
  /\ MaySettle("ack", c, k)
  /\ Completes(AckPath(k))
  /\ acked' = acked \cup {k}
  /\ UNCHANGED <<listed, delivered>>

Requeue(c, k) ==
  MaySettle("requeue", c, k) /\ Completes(RequeuePath(k)) /\ UNCHANGED <<listed, clientVars>>

Reject(c, k) ==
  MaySettle("reject", c, k) /\ Completes(RejectPath(k)) /\ UNCHANGED <<listed, clientVars>>

\* The commit of a rejection fails: rolled back, but the file has moved.
RejectFails(c, k) ==
  /\ MaySettle("reject", c, k)
  /\ Fault
  /\ store' = RejectPath(k)[1]
  /\ UNCHANGED <<listed, report, acked>>

\* WHERE state = 'inflight' AND lease_until > now
Extend(c, k, v) ==
  /\ MaySettle("extend", c, k)
  /\ store.row[k].lease_until > now
  /\ store' = Commit(store, k, [store.row[k] EXCEPT !.lease_until = now + v])
  /\ UNCHANGED <<now, listed, report, clientVars, faults, repairs>>

MayReprocess(k) == "reprocess" \in ClientOps /\ k \in InState(store, "dlq")

Reprocess(k) == MayReprocess(k) /\ Completes(ReprocessPath(k)) /\ UNCHANGED <<listed, clientVars>>

----------------------------------------------------------------------------
(* The sweeps of QueueManager over this backend.                           *)

Expired == {k \in InState(store, "inflight") : store.row[k].lease_until < now}

ListExpired ==
  /\ listed = {}
  /\ Expired # {}
  /\ listed' = {[key |-> k, attempt |-> store.row[k].attempt] : k \in Expired}
  /\ UNCHANGED <<store, now, report, clientVars, faults, repairs>>

SweepVerdict(e) == IF Policy = NoPolicy THEN "recover" ELSE Verdict(e.attempt, Policy)

\* delay_message and move_to_dlq: WHERE message_key = ?, whatever the state.
Treatable(e) == e.key \in Stored(store) /\ SweepVerdict(e) # "leave"

SweepPath(e) ==
  CASE SweepVerdict(e) = "recover"     -> DelayPath(e.key, 0)
    [] SweepVerdict(e) = "retry"       -> DelayPath(e.key, Backoff(e.attempt, Policy.retry))
    [] SweepVerdict(e) = "dead_letter" -> DlqPath(e.key)

SweepEntry(e) ==
  /\ e \in listed
  /\ listed' = listed \ {e}
  /\ IF Treatable(e) THEN Completes(SweepPath(e))
                     ELSE UNCHANGED <<store, now, report, faults, repairs>>
  /\ UNCHANGED clientVars

Due == {k \in InState(store, "delayed") : store.row[k].available_at <= now}

\* process_delayed_messages
RetrySweep ==
  /\ Due # {}
  /\ store' = [store EXCEPT !.row = [k \in Keys |-> IF k \in Due THEN [@[k] EXCEPT !.state = "ready"]
                                                    ELSE @[k]]]
  /\ UNCHANGED <<now, listed, report, clientVars, faults, repairs>>

----------------------------------------------------------------------------
(* Consistency.  check_consistency lists the issues, repair_consistency    *)
(* takes the list later; the tests call them, the daemon does not.         *)

Issue == {"orphan", "missing", "stale"} \X Keys \X Dirs

\* Files without a row of their kind, and rows without a file where it should be.
Orphans(s) == {<<"orphan", k, "active">> : k \in Files(s, "active") \ Live(s)}
              \cup {<<"orphan", k, "dlq">> : k \in Files(s, "dlq") \ InState(s, "dlq")}

Missing(s) == {<<"missing", k, "active">> : k \in Live(s) \ Files(s, "active")}
              \cup {<<"missing", k, "dlq">> : k \in InState(s, "dlq") \ Files(s, "dlq")}

Misplaced(s) == Orphans(s) \cup Missing(s)

\* The age of an archive is the difference of two clocks with different epochs:
\* which archives look older than a week depends on the library.
Check ==
  /\ report = {}
  /\ repairs < MaxRepairs
  /\ \E old \in SUBSET Files(store, "archive") :
       report' = Misplaced(store) \cup {<<"stale", k, "archive">> : k \in old}
  /\ UNCHANGED <<store, now, listed, clientVars, faults, repairs>>

\* INSERT OR IGNORE: an orphan, if it is still where it was, gets a ready row
\* unless its key has one.
AdoptedRow(s, issues, k) ==
  IF s.row[k] = NoRow /\ <<"orphan", k, s.file[k]>> \in issues THEN FreshRow(0) ELSE s.row[k]

\* A wrong variant: the message is offered again instead.
RepairedReady(s, issues, k) ==
  LET row == AdoptedRow(s, issues, k)
  IN  IF row # NoRow /\ {<<"missing", k, dir>> : dir \in Dirs} \cap issues # {}
      THEN [row EXCEPT !.state = "ready", !.available_at = now] ELSE row

\* A missing payload makes the row dead, if there is one by then.
RepairedRow(s, issues, k) ==
  LET row == AdoptedRow(s, issues, k)
  IN  IF row # NoRow /\ {<<"missing", k, dir>> : dir \in Dirs} \cap issues # {}
      THEN [row EXCEPT !.state = "dlq"] ELSE row

Repaired(s, issues) ==
  [row  |-> [k \in Keys |-> RepairedRow(s, issues, k)],
   file |-> [k \in Keys |-> IF <<"stale", k, "archive">> \in issues /\ s.file[k] = "archive"
                            THEN "none" ELSE s.file[k]]]

Repair ==
  /\ report # {}
  /\ store' = Repaired(store, report)
  /\ report' = {}
  /\ repairs' = repairs + 1
  /\ UNCHANGED <<now, listed, clientVars, faults>>

----------------------------------------------------------------------------

\* The daemon is killed between two operations, or inside one of them.
Kill ==
  \/ Down /\ UNCHANGED <<store, acked>>
  \/ \E k \in Keys, d \in PublishDelays :
       MayEnqueue(k) /\ KilledIn(EnqueuePath(k, d)) /\ UNCHANGED acked
  \/ \E c \in Consumers, k \in Keys :
       \/ MaySettle("ack", c, k) /\ KilledIn(AckPath(k)) /\ acked' = acked \cup {k}
       \/ MaySettle("reject", c, k) /\ KilledIn(RejectPath(k)) /\ UNCHANGED acked
  \/ \E k \in Keys : MayReprocess(k) /\ KilledIn(ReprocessPath(k)) /\ UNCHANGED acked
  \/ \E e \in listed : Treatable(e) /\ KilledIn(SweepPath(e)) /\ UNCHANGED acked

\* Time passes as long as a row is ahead of it.
Tick ==
  /\ now < MaxTime
  /\ \E k \in Stored(store) : \/ store.row[k].lease_until >= now
                              \/ store.row[k].available_at > now
  /\ now' = now + 1
  /\ UNCHANGED <<store, listed, report, clientVars, faults, repairs>>

HybridInit ==
  /\ store = [row |-> [k \in Keys |-> NoRow], file |-> [k \in Keys |-> "none"]]
  /\ now = 0 /\ listed = {} /\ report = {} /\ delivered = {} /\ acked = {}
  /\ faults = 0 /\ repairs = 0

ClientStep(k) ==
  \/ \E d \in PublishDelays : Enqueue(k, d)
  \/ \E c \in Consumers, v \in VisTimeouts : LeaseNext(k, c, v) \/ Extend(c, k, v)
  \/ \E c \in Consumers : Ack(c, k) \/ Requeue(c, k) \/ Reject(c, k) \/ RejectFails(c, k)
  \/ Reprocess(k)

HybridNext ==
  \/ \E k \in Keys : ClientStep(k)
  \/ ListExpired
  \/ \E e \in listed : SweepEntry(e)
  \/ RetrySweep
  \/ Check
  \/ Repair
  \/ Kill
  \/ Tick

HybridSpec == HybridInit /\ [][HybridNext]_hybridVars

----------------------------------------------------------------------------
(* Properties.                                                             *)

Entry == [key : Keys, attempt : Nat]

HybridTypeOK ==
  /\ store \in Store
  /\ now \in Nat
  /\ listed \subseteq Entry
  /\ report \subseteq Issue
  /\ delivered \subseteq Consumers \X Keys
  /\ acked \subseteq Keys
  /\ faults \in Nat /\ repairs \in Nat

\* The payload of a stored message is on disk, in active or in dlq, wherever
\* the daemon was killed and whatever was repaired: enqueue writes it before the
\* rows are there, and ack archives it after they are gone.
PayloadKept == Stored(store) \subseteq Files(store, "active") \cup Files(store, "dlq")

\* While nothing fails, a dead letter has its payload in dlq, and nothing is in
\* active but the payloads of live messages.
FilesFollowRows ==
  faults = 0 /\ repairs = 0 =>
    /\ InState(store, "dlq") \subseteq Files(store, "dlq")
    /\ Files(store, "active") \subseteq Live(store)

\* "ready, inflight, delayed should have payload in active/"
\* (HybridAdapter.cpp:1391): what lease_next hands out is not empty.
ActiveHasPayload == Live(store) \subseteq Files(store, "active")

\* The exceptions to ActiveHasPayload arise by a fault inside nack or
\* reprocess_dlq_message, by a repair, or by a sweep that delays a message
\* dead-lettered since it was listed; by no other operation or interleaving.
HollowArises ==
  [][LET new == (Live(store)' \ Files(store, "active")') \ (Live(store) \ Files(store, "active"))
     IN  \/ new = {}
         \/ faults' > faults
         \/ repairs' > repairs
         \/ \A k \in new : /\ k \in InState(store, "dlq")
                           /\ \E e \in listed \ listed' : e.key = k]_hybridVars

\* Two rounds of check and repair (one, for most) leave every row and file where
\* they belong, except dead letters whose payload is still in active, which
\* move_to_dlq leaves behind when it is killed: INSERT OR IGNORE finds the row,
\* and the state is dlq already.
Round(s) == Repaired(s, Misplaced(s))

RepairSettles ==
  LET settled == Round(Round(store))
  IN  \A issue \in Misplaced(settled) :
         issue[2] \in InState(store, "dlq") \cap Files(store, "active")

\* Until somebody repairs, no operation, however far it got, loses a message
\* or brings one back.
Promise == INSTANCE AtLeastOnce
             WITH Messages <- Keys, Takers <- Consumers,
                  owed <- Stored(store), buried <- InState(store, "dlq"),
                  handed <- delivered, settled <- acked

HybridKeepsContract ==
  /\ Promise!ContractInit
  /\ [][repairs' = 0 => Promise!ContractNext]_<<Stored(store), InState(store, "dlq"), clientVars>>

\* Until somebody repairs, an acknowledged message has no row and is handed to
\* nobody again, also when the daemon is killed inside ack.
NeverBack(k) ==
  /\ k \in acked' /\ k \notin Stored(store')
  /\ \A c \in Consumers : <<c, k>> \in delivered' => <<c, k>> \in delivered

AckedIsFinal == [][repairs' = 0 => \A k \in acked : NeverBack(k)]_hybridVars
============================================================================
