------------------------- MODULE FileSystemAdapter -------------------------
(***************************************************************************)
(* The file system backend of MainMQ under the daemon: one envelope file   *)
(* per message, moved from directory to directory by renames, and one      *)
(* lease file per leased message.  An operation is a sequence of file      *)
(* steps made under mutex_, so that the others only see where it ends:     *)
(* after its last step or, when the daemon is killed inside it, after an   *)
(* earlier one.  Queues share no directory of messages, and the model has  *)
(* one.  A write is a temporary file renamed into place, hence one step;   *)
(* the temporary files, and the meta/delayed files, which nothing reads,   *)
(* are left out.  A key is the name of its file: names are GUIDs, and only *)
(* their order is used.                                                    *)
(***************************************************************************)
EXTENDS RetryPolicy, Sequences, FiniteSets

CONSTANTS
  Keys,           \* message keys, ordered as their file names
  Consumers, AnyConsumer,
  Targets,        \* whom publishers address: consumers, or AnyConsumer
  PublishDelays,  \* delays a publisher asks for, in seconds
  VisTimeouts,    \* visibility timeouts, in seconds
  Policy,         \* the policy of the queue, or NoPolicy
  NoPolicy,
  ClientOps,      \* the commands clients send, besides publish and consume
  NoLease,
  MaxTime,        \* bound: last value of the clock
  MaxAttempt,     \* bound: deliveries of one message
  MaxKills        \* bound: how often the daemon is killed

Lease == [consumer : Consumers, lease_until : Int, attempt : Nat]

ASSUME FileAssumption ==
  /\ Keys \subseteq Nat
  /\ NoLease \notin Lease
  /\ Policy \in [retry : Retry, dlq_enabled : BOOLEAN] \cup {NoPolicy}
  /\ AnyConsumer \notin Consumers /\ Targets \subseteq Consumers \cup {AnyConsumer}
  /\ PublishDelays \subseteq Nat /\ VisTimeouts \subseteq Nat
  /\ ClientOps \subseteq {"ack", "requeue", "reject", "extend", "reprocess"}
  /\ {MaxTime, MaxAttempt, MaxKills} \subseteq Nat

VARIABLES
  disk,        \* what is on disk
  now,         \* the clock, in seconds
  listed,      \* entries the lease sweep has still to treat
  delivered,   \* <<c, k>>: consumer c was given a lease of k
  deliveries,  \* answers that handed k out, since it last left the DLQ or was requeued
  kills

fileVars == <<disk, now, listed, delivered, deliveries, kills>>
clientVars == <<delivered, deliveries>>

Dirs == {"inbox", "processing", "delayed", "dlq", "archive"}

Envelope == [attempt : Nat, available_at : Int, blamed : BOOLEAN,
             target : Targets \cup {AnyConsumer}]

Disk == [dir : [Keys -> Dirs \cup {"none"}],
         envelope : [Keys -> Envelope],
         lease : [Keys -> Lease \cup {NoLease}]]

----------------------------------------------------------------------------
(* File steps: each takes a disk to the next one.                          *)

In(dir) == {k \in Keys : disk.dir[k] = dir}

Move(d, k, dir) == [d EXCEPT !.dir[k] = dir]

Rewrite(d, k, envelope) == [d EXCEPT !.envelope[k] = envelope]

WriteLease(d, k, lease) == [d EXCEPT !.lease[k] = lease]

DeleteLease(d, k) == WriteLease(d, k, NoLease)

\* A wrong variant: the lease file is deleted before the message is moved.
ReleasedLate(d, k, dir) ==
  LET unleased == DeleteLease(d, k) IN <<unleased, Move(unleased, k, dir)>>

\* A wrong variant: a move that deletes the file and writes it anew.
ReleasedByCopy(d, k, dir) ==
  LET moved == Move(d, k, dir) IN <<Move(d, k, "none"), moved, DeleteLease(moved, k)>>

Released(d, k, dir) == LET moved == Move(d, k, dir) IN <<moved, DeleteLease(moved, k)>>

\* The disks an operation goes through, in order.

\* A wrong variant: the envelope keeps its old attempt count.
LeasePathUncounted(k, c, v) ==
  LET moved == Move(disk, k, "processing")
  IN  <<moved, WriteLease(moved, k, [consumer |-> c, lease_until |-> now + v,
                                     attempt |-> disk.envelope[k].attempt + 1])>>

LeasePath(k, c, v) ==
  LET attempt  == disk.envelope[k].attempt + 1
      moved    == Move(disk, k, "processing")
      leased   == WriteLease(moved, k, [consumer |-> c, lease_until |-> now + v, attempt |-> attempt])
  IN  \* serialize_envelope writes the fields it knows: a dlqReason is dropped.
      <<moved, leased, Rewrite(leased, k, [disk.envelope[k] EXCEPT !.attempt = attempt, !.blamed = FALSE])>>

AckPath(k) == Released(disk, k, "archive")

RequeuePath(k) == Released(disk, k, "inbox")

\* Wrong variants: the reason is not written; the directory is not the DLQ's.
DlqPathSilent(k) == Released(disk, k, "dlq")

DlqPathDead(k) == Released(disk, k, "dead")

DlqPath(k) ==
  LET blamed == Rewrite(disk, k, [disk.envelope[k] EXCEPT !.blamed = TRUE])
  IN  <<blamed>> \o Released(blamed, k, "dlq")

DelayPath(k, delay) ==
  IF delay <= 0 THEN Released(disk, k, "inbox")
  ELSE LET delayed == Rewrite(disk, k, [disk.envelope[k] EXCEPT !.available_at = now + delay])
       IN  <<delayed>> \o Released(delayed, k, "delayed")

ReprocessPath(k) ==
  LET reset == Rewrite(disk, k, [disk.envelope[k] EXCEPT !.attempt = 0, !.available_at = now,
                                                         !.blamed = FALSE])
  IN  <<reset, Move(reset, k, "inbox")>>

Completes(path) == disk' = path[Len(path)] /\ UNCHANGED <<now, kills>>

\* The daemon is killed inside an operation, or between two, and started again.
\* Nothing is repaired at the start; the list of the sweep is lost.
Down == /\ kills < MaxKills
        /\ kills' = kills + 1
        /\ listed' = {}
        /\ UNCHANGED <<now, delivered, deliveries>>

KilledIn(path) == Down /\ \E i \in 1 .. Len(path) - 1 : disk' = path[i]

----------------------------------------------------------------------------
(* Clients.  The file must be in processing for a consumer's operation on  *)
(* it to succeed: the rename fails otherwise, and nothing has changed.     *)

\* enqueue: one file, in inbox or, with a time in the future, in delayed.
Enqueue(k, d, t) ==
  /\ disk.dir[k] = "none"
  /\ LET written == Rewrite(disk, k, [attempt |-> 0, available_at |-> now + d, blamed |-> FALSE,
                                      target |-> t])
     IN  disk' = Move(written, k, IF d > 0 THEN "delayed" ELSE "inbox")
  /\ UNCHANGED <<now, listed, clientVars, kills>>

\* The files of inbox a consumer may have; list_json_files sorts them by name.
Available(c) == {k \in In("inbox") : disk.envelope[k].target \in {AnyConsumer, c}}

First(S) == {k \in S : \A j \in S : k <= j}

LeaseNext(k, c, v) ==
  /\ k \in First(Available(c))
  /\ disk.envelope[k].attempt < MaxAttempt
  /\ Completes(LeasePath(k, c, v))
  /\ delivered' = delivered \cup {<<c, k>>}
  /\ deliveries' = [deliveries EXCEPT ![k] = @ + 1]
  /\ UNCHANGED listed

\* Requests that ack, nack and extend_lease do not refuse.  Only nack serves a
\* lease that ran out, and one of another consumer.
LeaseLive(k) == disk.lease[k] # NoLease /\ now <= disk.lease[k].lease_until

HeldBy(c, k) == <<c, k>> \in delivered /\ LeaseLive(k) /\ disk.lease[k].consumer = c

MayAck(c, k) == "ack" \in ClientOps /\ HeldBy(c, k) /\ k \in In("processing")

MayNack(op, c, k) == /\ op \in ClientOps
                     /\ <<c, k>> \in delivered
                     /\ disk.lease[k] # NoLease /\ k \in In("processing")

Ack(c, k) == MayAck(c, k) /\ Completes(AckPath(k)) /\ UNCHANGED <<listed, clientVars>>

Requeue(c, k) ==
  /\ MayNack("requeue", c, k)
  /\ Completes(RequeuePath(k))
  /\ deliveries' = [deliveries EXCEPT ![k] = 0]
  /\ UNCHANGED <<listed, delivered>>

Reject(c, k) ==
  MayNack("reject", c, k) /\ Completes(DlqPath(k)) /\ UNCHANGED <<listed, clientVars>>

Extend(c, k, v) ==
  /\ "extend" \in ClientOps
  /\ HeldBy(c, k)
  /\ disk' = WriteLease(disk, k, [disk.lease[k] EXCEPT !.lease_until = now + v])
  /\ UNCHANGED <<now, listed, clientVars, kills>>

MayReprocess(k) == "reprocess" \in ClientOps /\ k \in In("dlq")

Reprocess(k) ==
  /\ MayReprocess(k)
  /\ Completes(ReprocessPath(k))
  /\ deliveries' = [deliveries EXCEPT ![k] = 0]
  /\ UNCHANGED <<listed, delivered>>

----------------------------------------------------------------------------
(* The sweeps of QueueManager over this backend.                           *)

Expired == {k \in Keys : disk.lease[k] # NoLease /\ now > disk.lease[k].lease_until}

ListExpired ==
  /\ listed = {}
  /\ Expired # {}
  /\ listed' = {[key |-> k, attempt |-> disk.lease[k].attempt] : k \in Expired}
  /\ UNCHANGED <<disk, now, clientVars, kills>>

SweepVerdict(e) == IF Policy = NoPolicy THEN "recover" ELSE Verdict(e.attempt, Policy)

\* delay_message and move_to_dlq need a lease file, any, and the message in
\* processing; otherwise they fail and nothing changes.
Treatable(e) == disk.lease[e.key] # NoLease /\ e.key \in In("processing")
                /\ SweepVerdict(e) # "leave"

SweepPath(e) ==
  CASE SweepVerdict(e) = "recover"     -> DelayPath(e.key, 0)
    [] SweepVerdict(e) = "retry"       -> DelayPath(e.key, Backoff(e.attempt, Policy.retry))
    [] SweepVerdict(e) = "dead_letter" -> DlqPath(e.key)

SweepEntry(e) ==
  /\ e \in listed
  /\ listed' = listed \ {e}
  /\ IF Treatable(e) THEN Completes(SweepPath(e)) ELSE UNCHANGED <<disk, now, kills>>
  /\ UNCHANGED clientVars

Due == {k \in In("delayed") : now >= disk.envelope[k].available_at}

Promoted(S) == [disk EXCEPT !.dir = [k \in Keys |-> IF k \in S THEN "inbox" ELSE @[k]]]

\* process_delayed_messages
RetrySweep == Due # {} /\ disk' = Promoted(Due) /\ UNCHANGED <<now, listed, clientVars, kills>>

----------------------------------------------------------------------------

\* The daemon is killed between two operations, or inside one of them.
Kill ==
  \/ Down /\ UNCHANGED disk
  \/ \E c \in Consumers, v \in VisTimeouts : \E k \in First(Available(c)) : KilledIn(LeasePath(k, c, v))
  \/ \E c \in Consumers, k \in Keys :
       \/ MayAck(c, k) /\ KilledIn(AckPath(k))
       \/ MayNack("requeue", c, k) /\ KilledIn(RequeuePath(k))
       \/ MayNack("reject", c, k) /\ KilledIn(DlqPath(k))
  \/ \E k \in Keys : MayReprocess(k) /\ KilledIn(ReprocessPath(k))
  \/ \E e \in listed : Treatable(e) /\ KilledIn(SweepPath(e))
  \/ Down /\ \E S \in SUBSET Due \ {{}} : disk' = Promoted(S)

\* Time passes as long as something on disk is ahead of it.
Tick ==
  /\ now < MaxTime
  /\ \/ \E k \in Keys : LeaseLive(k)
     \/ \E k \in In("delayed") : disk.envelope[k].available_at > now
  /\ now' = now + 1
  /\ UNCHANGED <<disk, listed, clientVars, kills>>

NewEnvelope == [attempt |-> 0, available_at |-> 0, blamed |-> FALSE, target |-> AnyConsumer]

FileInit ==
  /\ disk = [dir |-> [k \in Keys |-> "none"], envelope |-> [k \in Keys |-> NewEnvelope],
             lease |-> [k \in Keys |-> NoLease]]
  /\ now = 0 /\ listed = {} /\ delivered = {} /\ deliveries = [k \in Keys |-> 0] /\ kills = 0

ClientStep(k) ==
  \/ \E d \in PublishDelays, t \in Targets : Enqueue(k, d, t)
  \/ \E c \in Consumers, v \in VisTimeouts : LeaseNext(k, c, v) \/ Extend(c, k, v)
  \/ \E c \in Consumers : Ack(c, k) \/ Requeue(c, k) \/ Reject(c, k)
  \/ Reprocess(k)

FileNext ==
  \/ \E k \in Keys : ClientStep(k)
  \/ ListExpired
  \/ \E e \in listed : SweepEntry(e)
  \/ RetrySweep
  \/ Kill
  \/ Tick

FileSpec == FileInit /\ [][FileNext]_fileVars

(* Both sweeps loop as long as the daemon runs, time passes, and consumers *)
(* keep asking for messages.                                               *)
FileFairSpec ==
  /\ FileSpec
  /\ WF_fileVars(ListExpired) /\ WF_fileVars(\E e \in listed : SweepEntry(e))
  /\ WF_fileVars(RetrySweep) /\ WF_fileVars(Tick)
  /\ \A c \in Consumers : WF_fileVars(\E k \in Keys, v \in VisTimeouts : LeaseNext(k, c, v))

----------------------------------------------------------------------------
(* Properties.                                                             *)

Entry == [key : Keys, attempt : Nat]

FileTypeOK ==
  /\ disk \in Disk
  /\ now \in Nat
  /\ listed \subseteq Entry
  /\ delivered \subseteq Consumers \X Keys
  /\ deliveries \in [Keys -> Nat]
  /\ kills \in Nat

\* The messages no sweep can see: in processing, without a lease file.
Stranded == {k \in In("processing") : disk.lease[k] = NoLease}

\* A message is stranded by lease_next only, by a kill between its first two
\* file steps, and thus before it is handed out: a leased message is never
\* stranded, since every other operation moves it before it deletes the lease.
LeaseNextStrands ==
  [][LET new == Stranded' \ Stranded
     IN  new # {} => kills' > kills /\ new \subseteq In("inbox")]_fileVars

\* A message its consumer does not requeue is handed out at most retry.limit
\* times (once, at least), although the attempt is kept in two files, and once
\* more for each kill: one between the move and the deletion of the lease file
\* leaves a lease that the sweep may list just before the message is leased
\* again, and then judges by the attempt of the old lease.
DeliveriesBounded ==
  Policy # NoPolicy =>
    \A k \in Keys :
      deliveries[k] <= kills + (IF Policy.retry.limit > 1 THEN Policy.retry.limit ELSE 1)

\* A message in the DLQ tells why, whichever of nack and move_to_dlq put it
\* there: reprocess_dlq_message alone removes the reason, and then moves it.
DlqExplained ==
  kills = 0 => \A k \in In("dlq") : disk.envelope[k].blamed

\* No operation, however far it got, loses a message or brings one back.
Promise == INSTANCE AtLeastOnce
             WITH Messages <- Keys, Takers <- Consumers,
                  owed <- In("inbox") \cup In("processing") \cup In("delayed") \cup In("dlq"),
                  buried <- In("dlq"), handed <- delivered, settled <- In("archive")

FileKeepsContract == Promise!Contract

\* A message in archive stays there and is handed to nobody again, whichever
\* operation works on it late or is cut short.
NeverBack(k) ==
  /\ k \in In("archive")'
  /\ \A c \in Consumers : <<c, k>> \in delivered' => <<c, k>> \in delivered

ArchivedIsFinal == [][\A k \in In("archive") : NeverBack(k)]_fileVars

\* Every message comes to rest, in archive or in the DLQ, or is stranded by a
\* kill, as long as it is not requeued.
FileComesToRest ==
  \A k \in Keys : (k \in In("inbox")) ~> (k \in In("archive") \cup In("dlq") \cup Stranded)

\* "Power loss and restart: lease, retry and DLQ prevent the loss of messages"
\* (README.md:21): a message that waits in inbox is handed out sooner or later.
\* It is not when the daemon is killed in lease_next before the lease is written.
EveryMessageServed ==
  \A k \in Keys : (k \in In("inbox")) ~> (\E c \in Consumers : <<c, k>> \in delivered)
============================================================================
