# Yi-Rang MQ in TLA+

Yi-Rang MQ is a message queue without a network: clients write request files into
a mailbox directory, the daemon `MainMQ` serves them from one of three storage
backends and answers with response files.  This directory holds TLA+ models of
the daemon, the TLC runs that check them, and TLAPS proofs about them.  Paths
below are relative to `src/`.

## 1. The system

| Component | State | Operations | Talks to |
|---|---|---|---|
| SQLite backend (`MainMQ/BackendAdapter/SQLiteAdapter.cpp`, `MainMQ/sqlite_schema.sql`) | table `kv` (envelopes), table `msg_index` (one row per message: queue, state, priority, available_at, lease_until, attempt, target) | enqueue, lease_next, ack, nack, extend_lease, recover_expired_leases, process_delayed_messages, get_expired_inflight_messages, delay_message, move_to_dlq, reprocess_dlq_message, list_dlq_messages, metrics, policies | called by QueueManager and MailboxHandler; every operation holds `db_mutex_` and runs one transaction |
| File system backend (`FileSystemAdapter.cpp`) | one envelope file per message in `inbox`, `processing`, `delayed`, `archive` or `dlq`; one lease file per leased message | the same | as above, under `mutex_`; no transaction, only renames |
| Hybrid backend (`HybridAdapter.cpp`) | SQLite rows (`kv` and `msg_index`) and a payload file per message in `active`, `archive` or `dlq` | the same, and check_consistency, repair_consistency | as above; rows and file change one after the other; check and repair are called by the tests only |
| QueueManager (`MainMQ/QueueManager.cpp`) | registered policies, two loops | lease sweep: list the expired leases, then retry, dead-letter or recover each; retry sweep: make due delayed messages ready | the backend |
| Mailbox (`MainMQ/MailboxHandler.cpp`) | request files, `processing`, `dead`, response files, the queue of pending paths | publish, consume_next, ack, nack, extend_lease, status, health, metrics, list_dlq, reprocess_dlq; stale clean-up | clients by files, the folder watcher by callbacks, the backend |
| Configurations (`MainMQ/Configurations.cpp`) | policies and settings | load, validate | read by `main.cpp` |
| Thread pool (`CommonLibrary/ThreadPool`) | job queues by priority, workers with their threads, `working_`, `pause_`, `lock_condition_` | push of a job or a worker, remove_workers, start, pause, stop | QueueManager and MailboxHandler: each runs its two endless loops as LongTerm jobs on two workers of its own pool, and to stop clears `running_` and then stops the pool |
| Logger (`CommonLibrary/Utilities/Logger.cpp`) | queued messages, a thread that writes them | write, start, stop | every thread of the daemon; main stops it last |
| Daemon (`MainMQ/main.cpp`) | `shutdown_requested_` | start the logger, the backend, QueueManager and the mailbox; wait for a signal; stop the mailbox, QueueManager and the logger | all of the above |
| Sample clients (`Samples/`) | none | write a request, poll for the response until a timeout | the mailbox |
| MessageValidator, SQLite wrapper, other utilities | none that matters to a queue | | |

What is hard here, and what would make each part correct:

- *QueueManager over a backend.*  Three threads (requests, lease sweep, retry
  sweep) share the backend one operation at a time, but the lease sweep spends
  two: what it listed may have changed when it acts.  A message must never be
  lost or come back after its ack; a message nobody can process must end in the
  DLQ after a bounded number of deliveries; an expired lease must not stay.
- *SQLite.*  Two tables in step; `lease_until` and `state` in step; a delay that
  is really waited for.
- *File system.*  An operation is up to four file steps and the daemon may die
  after each.
- *Hybrid.*  The same, between a commit and a rename: a payload without rows, a
  live message without its payload, and a repair that trusts an older report.
- *Mailbox.*  Lost events, requests left in `processing` by a crash, clients that
  leave before the answer, a clean-up that races with the request it removes.
- *Thread pool.*  Jobs pushed by other threads and by jobs, workers that pop beside
  each other, and calls that join workers under a mutex the workers may want: no
  job lost or run twice, no wake-up lost, a stop that drains, and an end of every call.
- *Daemon.*  Seven threads and three condition waits from start to exit: a request is
  served whichever worker the notification wakes, a signal ends the daemon, and
  nothing is half done then.
- *Policies.*  Integer delays, capped, of attempts counted from one.

`PROJECT.json` lists the components with what is modelled of each, and the
hazards with their lines and the properties that cover them.

## 2. The modules

`RetryPolicy` -- `validate_retry_policy` (`ValidateRetryPolicy`), `calculate_backoff_delay`
(`Backoff`) and the decision of `apply_retry_or_dlq` (`Verdict`).  `std::pow(2.0, n)` is
the recursive function `PowerOfTwo`, since nothing can be proved of TLC's `^`.  An `int32_t`
product wraps (`Int32`); `IntMax` is a constant, 2^31 - 1 in the program and 127
in the runs.

`RetrySchedule` -- the attempts of one message that always expires, under a
policy as a file may give it.

`SqliteAdapter` -- `kv` is the set of keys in the kv table, `index` the rows.  One
action per operation: a transaction is atomic under `db_mutex_`, and a failed one is
rolled back, which is a stutter.  What the statements look at is kept exactly: `Ack`
looks neither at the state nor at the lease (the second DELETE and its cascade take
the message in any state), `DelayMessage` and `MoveToDlq` act in any state,
`ExtendLease` may shorten.  A row has every column of `sqlite_schema.sql` that an
operation reads or a listing shows; `dlq_reason` and `dlq_at`, always written
together, are one Boolean.  nack, move_to_dlq and reprocess also rewrite the envelope
in `kv`, after the row; when the envelope cannot be read, parsed or written they log
that and commit all the same (`SQLiteAdapter.cpp:542-569`), and nothing in the backend
reads what they wrote, so of the value in `kv` only its presence is kept.

`AtLeastOnce` -- the contract: what a client may rely on whatever the backend.

`QueueBroker` -- the daemon over `SqliteAdapter`: clients with keys of any old
lease (they send the keys of messages they were handed, and reprocess any published one,
which `list-dlq` may have told them; the code takes any key from anybody, and of a client
that settles a message it was never given the models say nothing), the lease sweep
as `ListExpired` and then one action per entry
(`SweepRecover`, `SweepRetry`, `SweepDeadLetter`, `SweepLeave`, `SweepError`), the
retry sweep, restarts.  `listed` is `expired_list`.  `Promise` maps it to
`AtLeastOnce`.

`FileSystemAdapter` -- the daemon over files.  Every operation is the sequence of
disks it goes through (`LeasePath`, `AckPath`, ...); under `mutex_` the others see
the last one (`Completes`), or one before it when the daemon is killed in it
(`KilledIn`, in `Kill`).  The attempt is kept twice, in the lease file and in the
envelope, as in the code.  It has clients and sweeps of its own since they meet
other guards there (ack and extend check lease and consumer, the sweep needs a
lease file), and maps to `AtLeastOnce` too.

`HybridAdapter` -- the daemon over rows and payload files.  `store` holds both; a
commit or a rename takes one store to the next (`Commit`, `Rename`), an operation
is the sequence of stores it goes through (`EnqueuePath`, `AckPath`, ...), and, as
in the file system backend, the others see the last (`Completes`) or, after a
kill, an earlier one (`KilledIn`).  `RejectFails` is a rejection whose commit fails
after its rename.  The order of commit and rename is that of the code and differs
from operation to operation: a rejection renames inside its transaction, the
sweep's `move_to_dlq` after it.  `Check` and `Repair` are two actions, as the report
is made under one lock and used under another.  Queues, priorities and targets,
whose SQL is that of `SqliteAdapter`, are left out.  It maps to `AtLeastOnce` until
the first repair.

`Mailbox` -- a request from the client's rename to its response, for both ways of
finding requests (`polling` is `!use_folder_watcher_`).  `place` says in which
directory the request file is, `pending` and `batch` are `pending_requests_` and
`requests_to_process`.  The request worker takes one step for each change another
party can see or a crash can separate: `PickUp` (the rename to `processing`),
`Handle` or `Reject`, `Answer`, `Finish`.  A request that is not UTF-8 ("garbled") takes
another way: the parser's message quotes its bytes and is logged (`Choke`), and
`move_to_dead` renames the file and throws when it dumps the message as the reason
(`Throw`), which ends the worker's endless job while `running_` stays set.  The logger's
thread, when it comes to the message, throws as well and nobody catches it: `Abort`, a
crash that is not counted against `MaxCrashes`.  The clean-up (`SweepRequest`,
`SweepResponse`) takes no `processing_mutex_` and comes between any two of them.
The backend is the counter `handled`; what it does with a command is
`QueueBroker`'s matter.

`ThreadPool` -- `ThreadPool`, `JobPool`, `ThreadWorker` and the threads.  `push` of a job is
three steps, as in the code: `lock_condition_` is read (`PushAdmit`), the job enters
under the mutex of the `JobPool` (`PushInsert`), and the workers are notified under
`mutex_` of the pool (`PushNotify`).  A worker tests its condition (`Test`), pops
(`PopJob`, `PopNothing`) and runs; in between other workers pop.  It holds its own mutex
from the test to the end of the pop.  A pop that found nothing leaves it without
("empty"), and it reads `thread_stop_` in a step of its own (`LookAgain`): a push, the
lock of stop and its `Tell` may come in between.  The history variable `missed` says which
of a worker's jobs entered since.  A call of start, stop, pause or remove_workers holds
`mutex_` from beginning to end and treats the workers one by one: `call` is the call and
the workers it has still to treat, `Tell` and `Join` the two halves of
`ThreadWorker::stop`, `PauseWorker` one round of the loop of pause.  What the code does outside that mutex is
outside here: `ClearPriority` before it, `StoreWorking` after it.  A job may be the
`Parent` of another, which it pushes while it runs.

`Logger` -- the logger's thread and the three steps of `Logger::stop`.  A thread that
waits on a condition variable is "deciding" from the test of its condition to its
sleep, during which it holds the mutex: what takes no mutex comes in between.
`spoiled` says that a message is queued whose dump will throw; `log_thread` is then
"thrown", and the process gone.

`DaemonThreads` -- over `Logger`: main from its first line to its exit, the request and
clean-up workers of the mailbox with their waits on `pending_cv_`, the sweep threads,
the watcher's callback, the signal.  What is done with a request is one step here
(`Mailbox` has it in full), and so is a sweep.  A request of `Suspect` may be one that
ends the worker (`RequestThrows`).  Once the logger's thread has thrown (`~Alive`) only
the clients go on.

`RetryPolicyProofs`, `RetryScheduleProofs`, `QueueBrokerProofs` (which also has the
theorems about `SqliteAdapter`), `FileSystemProofs`, `HybridProofs`, `MailboxProofs`, `ThreadPoolProofs`, `DaemonProofs` -- the theorems.  `MC*` modules give
values to constants a `.cfg` cannot write.  Definitions marked "a wrong variant"
are what a plausible mistake would make of the definition they precede; they are
used by no specification, and each makes one of the properties fail.

### Abstractions

- Time is in seconds, the unit of every timeout, and the clock does not go back.
  It stops when nothing stored is ahead of it: no operation could tell.
- Delays and visibility timeouts are natural numbers.
- A crash is the death of the process: what was written stays written.
  `atomic_write` does not flush to the device, so a power failure may lose more
  than the models say (README.md:91 speaks of fsync).
- Payloads, attributes, reasons and lease ids are left out: nothing looks at them
  (no backend compares the lease id).
- `Mailbox` has ages instead of a clock: a file is compared with a limit by its
  age, and an age past every limit need not be counted further.
- Any archived payload may look stale to `check_consistency`: its age subtracts the
  epoch of one clock from that of another, and the outcome depends on the library.
- `repair_consistency` is not interrupted: each of its repairs is a statement or a
  removal of its own, and a kill between two leaves what a shorter report would.
- `ThreadPool` has no titles, timestamps or backup files of jobs, and a job comes to its
  end unless it waits for `mutex_`; `Logger` says nothing of what is written where.
- efsw is outside: a change arrives later or never.  Never includes a change
  reported as another action than Add, which `on_file_changed` ignores.
- Temporary files are left out: a leftover `.json.tmp` of a lease is read by
  `get_expired_inflight_messages`, names the same message, and is replaced by the
  next lease of it.
- GUIDs are distinct; in the file system backend their order is the order of
  service, whatever the comment "oldest first" says.

## 3. The runs

| Run | Question | Bounds and why they are enough |
|---|---|---|
| `retry_schedule` | Are delays within 1..max and monotone for any policy of the file? | negative, zero, small, large and swapped fields, all three backoffs, an unknown one; linear products that overflow included, of which nothing is claimed (`Fits`) |
| `broker_safety` | Nothing lost, nothing back, leases and states in step, under all commands, stale entries and failed transactions? | two messages, in queues with a DLQ, without one, and without a policy; leases of one second and of two, so that an extension may prolong one or end it early; clock to 4 and two deliveries: two expiries and a backoff, after which the DLQ and reprocess; no restart, since a failed transaction drops an entry of the sweep as a restart drops the list |
| `broker_liveness` | Do expired leases, due messages and poison messages get where they must, within the deliveries allowed, and do live leases stay where no client requeues? | one queue with a DLQ and one without, a message in each; acks and extensions; leases of two seconds, which an extension after the first second prolongs (one of a lease of one second would write what is there); extensions up to second 2 (`LastExtend`), enough for a first lease to be prolonged twice; three deliveries, one more than the policy allows; clock to 17, which no behaviour reaches: both messages can go through all their attempts one after the other, after extensions and across a restart |
| `broker_live_lease` (violated) | Does the sweep leave live leases alone? | one message, one requeue |
| `file_safety` | The same as broker_safety and the retry limit, with kills between file steps | one message, two consumers, two kills, clock to 7: two full attempts, the DLQ, reprocess and another attempt |
| `file_liveness` | Does every message come to rest? | two messages, one kill, clock to 20 |
| `file_stranded` (violated) | Is every waiting message served? | one message, one kill |
| `hybrid` | Where do rows and payloads part, what does a repair mend, and is the contract kept until then? | one message, since messages meet only in the lists of the sweeps and of the check, whose entries are treated one by one (the theorems are for any number); two consumers; two faults and two repairs: a fault in the state another one left, a repair of what a repair left; clock to 6: two full attempts, the DLQ and reprocess |
| `hybrid_hollow` (violated) | Does every live message have its payload where it is read? | one message, no fault, no repair |
| `mailbox` | Is every request executed at most once, answered if executed, and gone in the end? | two requests, so that a batch has a rest to lose; each of four kinds of content beside another, a request that is not UTF-8 among them; one crash (besides those such a request causes) and one loss (an event, or a response that cannot be written); limits of 0: an age of 0 is within every limit and an age of 1 past it |
| `thread_pool` | Is every job in one place, does stop drain, does every call return, is no wake-up lost? | two workers, the least that can race for a job; three jobs of two priorities, one the child of another, one of the limited priority with a limit of 1; three calls out of start, stop (either way), pause, push of a worker and remove_workers: start, stop and one that meets them; three ways to set the pool up (both workers, of which one serves both priorities and the other the lower one; one of them, the other to be pushed later; and one that serves none) |
| `daemon_threads` | Is a request served and does the daemon exit, with nothing half done? | two requests, one that is there at the start and may be unreadable, one that comes when it likes; one of the two sweep threads, which do the same and share nothing here; both modes; no bound |

`MaxTime`, `MaxAttempt`, `MaxRestarts`, `MaxKills`, `MaxFaults`, `MaxRepairs`, `MaxCrashes`,
`MaxLosses`, `MaxCalls` and `LastExtend` are the only bounds, all in guards.  `MaxAttempt` is above what the
policies allow wherever deliveries are counted, so that it never hides one too
many; `broker_safety`, which does not count them, stops at the limit of its policy.
The runs of the file system and hybrid backends switch deadlock checking off: when every
message is archived, dead-lettered or stranded there is nothing left to do; so does
`mailbox` and `daemon_threads`, where the clients have a finite number of requests and
the daemon exits, and `thread_pool`, where the calls run out and one may never return.
Keys are symmetric in `broker_safety`, where only equality is used, and
not in the file system runs, where they are ordered.

What the runs show, besides "no error":

- A message may be acknowledged with a lease of long ago in the SQLite backend,
  and is deleted even while another consumer works on it.  This is within the
  contract (it was handed to the one who settles it) and `StoredUntilAcked` says
  exactly that; `LEASE_EXPIRED` (MailboxTypes.h) is never answered there.
- `broker_live_lease`: list, requeue, lease by another, treat: the live lease is
  cancelled.  It needs a requeue; the theorem `LiveLeases` shows that without
  requeue and reject it cannot happen.
- With the DLQ disabled the exhausted message stays inflight, and every later sweep
  lists it again: `LeftInflight`, the one exception of `ExpiredRecovered` and
  `PoisonQuarantined`, which fail in `broker_liveness` without it.
- Nothing bounds the extensions of a lease: a consumer that prolongs its own again and
  again keeps a message it never processes out of the DLQ, the other exception of
  `PoisonQuarantined` (`Prolonged`).
- `list-dlq` shows a reason for what the sweep dead-lettered only: nack leaves
  `dlq_reason` and `dlq_at` NULL (`SQLiteAdapter.cpp:508`), move_to_dlq sets them (1025), and
  the listing reads them (1202).  That a rejected message does not show the reason of an
  earlier stay hangs on reprocess clearing the columns, and on the sweep having no entry
  of a message whose reason it wrote, since `delay_message` clears neither
  (`ReasonIsCurrent`).
- `file_stranded`: killed between the rename to `processing` and the lease file,
  the message is out of everybody's sight.  `LeaseNextStrands` shows that this is
  the only such window.
- `DeliveriesBounded` needs `kills`: a lease file that survives its message's move
  can be listed and then, the message having been leased again in the meantime,
  be used to judge the new lease by the old attempt.
- `hybrid`: a live message without its payload (a hollow one, handed out with an empty
  payload) arises by a fault inside a rejection or a reprocess, by a repair that
  trusts an old report, or by the sweep that delays what was dead-lettered since it
  was listed; `hybrid_hollow` is the last of these, and needs no fault.  A kill
  inside `ack` leaves a payload without rows, which a repair takes for a message
  that was never indexed: only then does an acknowledged message come back, hence
  `repairs' = 0` in `HybridKeepsContract`.  Two rounds of check and repair settle
  everything but a dead letter whose payload stayed in `active` (`RepairSettles`):
  it is reported twice each time, and nothing is done about it.
- `mailbox`: a crash never has a request executed twice, at the price of never
  executing it: what it leaves in `processing` is moved to `dead` by age, and its
  client gets no answer.  The clean-up can also move a request to `dead` that is
  being handled; the answer is written all the same (`NoAnswerLost`), so a file in
  `dead` does not say that the request was not executed.  In watcher mode an event
  that is lost is made good by the next start only, since the wait that times out
  (`MailboxHandler.cpp:371`) does not list the directory: hence `lost` in
  `NoneForgotten` and `EveryRequestEnds`.  A request that is not UTF-8 ends the request
  worker: `is_running` stays true, the clean-up goes on and moves requests to `dead` by
  age, but none is served until a restart, which comes by itself only if the logger's
  thread gets to the message and takes the process down (`worker = "ended"` in
  `EveryRequestEnds` and `NoneForgotten`, `request = "ended"` in `RequestServed`).
- `retry_schedule`: the linear product is capped after it has wrapped, so a delay may be
  negative where it does not fit: `Fits`, without which both properties fail.
- `thread_pool`: a stop never returns when the job of the worker it joins pushes another
  one: `push` takes `mutex_` to notify (`ThreadPool.cpp:263`) and stop holds it
  (`Deadlocked`, the exception of `EveryCallReturns`).  The daemon's jobs push nothing.
  A push that saw the pool unlocked may enter it after it was locked: it returns true
  and nothing runs the job (`late`, in `StopDrains`).  So does a job pushed before the lock
  when the workers that serve it had just popped nothing: they read `thread_stop_`
  (`ThreadWorker.cpp:164`) after stop has stored it, and end without another `has_job`
  (`missed`).  A stop that meets a worker
  without a thread returns with the pool locked and working (`StopFails`), so the next
  start does nothing and every push is refused.  A worker cannot be started twice, since its
  promise gives one future (`used`); nothing in the daemon starts a pool twice.  A worker
  remove_workers left without a priority, or one whose jobs another takes, tests and pops
  in a circle (`has_job` counts all priorities when there is none), without harm to others.
- `daemon_threads`: `notify_one` may wake the clean-up worker, which sleeps again, and the
  request waits for the timeout of the request worker: without the timeout (the wrong
  variant `RequestUntimed`) it is never served.  `stop` notifies without
  `pending_mutex_`, so the clean-up worker may sleep through it for up to ten seconds,
  although MailboxHandler.cpp:473 says "so stop() can wake us immediately".
  `Logger::stop` does the same to a wait without a timeout: the daemon may then hang at
  its very end (`LogHung`), and `ShutdownEnds` fails without that exception.

Disagreements seen while reading, without a run since no property is at stake:
README.md:190 and 303 call priority 0 the highest while both SQL backends order
by `priority DESC`; the drawing at README.md:103 sends a nack to `delayed`, the
code to `ready`; a late entry of the sweep may bring a dead-lettered message back
to `delayed`.

### Fairness

`SweepFairness` is weak fairness of the two sweeps and of the clock: both threads
loop while the daemon runs (`QueueManager.cpp:109-125`), a loop over a list ends,
and an entry that fails is logged and passed over.  Weak fairness is enough since
a due entry stays due.  `PollFairness`, in `broker_liveness`, and the last conjunct
of `FileFairSpec` are assumptions on the clients: they keep asking for messages.
Nobody is assumed to acknowledge.  `MailFairSpec` is weak fairness of the request
worker, of the clean-up, of the watcher's reports, of time and of the restart after
a crash; clients may send nothing, and leave or stay as they like.  `Abort` has no
fairness: a message that is not shown notifies nobody, and may wait for as long as no
other comes.

`PoolFairSpec` and `DaemonSpec` assume that every thread is scheduled and that one which
waits for a mutex gets it some time although others take it again and again: strong
fairness of the steps that need a mutex (`std::mutex` promises no order, so this is an
assumption on the library), weak fairness of the others.  A timed wait ends; a job
of a pool returns.  Nobody has to push, call, send or signal.

## 4. The proofs

Constants are arbitrary except for the named assumptions (`SqliteAssumption`,
`BrokerAssumption`, `FileAssumption`, `IntMaxAssumption`, ...), which hold of every
configuration the daemon loads.  Most say that delays, timeouts and bounds are natural
numbers, that policies are validated ones, and that a value which stands for "no row" or
"no lease" is not one; `MailAssumption` also says that there are finitely many requests,
since a listing is a sequence.

`QueueBrokerProofs`, first part.  `SqlInv` is `SqlTypeOK` and `StoreInv` in a form that speaks
of one row at a time (`Fits`): an operation that rewrites one row then has to show
that the new row fits.  One lemma per operation shows that it keeps `SqlInv`
(`...Keeps`), another what it does to state and attempt of a row (`...Effect`).
Theorems: `StoreSafe`, `StoreTablesAgree`, `StoreLeases`, `StoreReadyIsDue`.

The run `broker_safety` checks these relations under the daemon; the theorems are
about any caller in any order, `recover_expired_leases` included, which the daemon
does not call.

`RetryPolicyProofs`.  `ValidPolicies`: whatever the file says, the validated policy has
positive delays in order.  `BackoffWithinCap` and `BackoffNeverShrinks`: for every valid
policy and every attempt the delay is within 1 and `max_delay_sec`, and that of the
next attempt is no shorter; a linear one as long as its product fits an `int32_t`.
`OverflowIsNegative`: where the product does not fit, the first delays are negative, so the
condition cannot be dropped.  The exponential delay needs an induction on the power of
two.  The library's induction theorem takes an operator, which no prover here can
instantiate; but the naturals are well-founded (`NatLessThanWellFounded`), so the set of
counterexamples to a claim, an ordinary set, has a least element if it has one at all
(`LeastNatural`, from `WFMin`), and that one gives a contradiction.  In this way
`PowerOfTwoDef` shows that the recursive definition defines a function of positive
naturals (its graph is built up to each `n`), and `PowerOfTwoGrows` that it
doubles.  `BackoffInt`, that a delay is an integer whatever wraps, is cited by the proofs of
the two SQLite-based backends.

`RetryScheduleProofs`.  `ScheduleInv` ties the wait of a message to the attempt before
(`waits = Backoff(attempt - 1, retry)`) under a policy in order, from which
`WaitsWithinCap` (`WaitWithinCap`) and `WaitsNeverShrink` (`WaitNeverShrinks`).
`HarmlessPolicies` says which policies the overflow does not concern: those which are not
linear, or whose `initial_delay_sec * limit` fits.

`QueueBrokerProofs`, second part.  `BrokerInv` is `SqlInv`, the books (`Ledger`: what is stored is
what was published and not acknowledged; who was handed a message was handed a
published one) and `ListedOK`: an entry of the sweep names a published message,
carries an attempt of at least one, and agrees with the row on the queue.  From it:

- `TypeCorrect`, `NothingLost` (`StoredUntilAcked`);
- `DeliveriesBounded` (`RetriesBounded`) needs more, since the sweep decides on the
  attempt it read before: `RetryInv` says that a row in any state has an attempt
  within its budget, one less when it may still be leased (`InBudget`), and that
  an entry is never behind the row it speaks of while that row is inflight
  (`Behind`).  Without the second part the first is not inductive: a stale entry
  would grant one delivery too many, which is what does happen in the file
  system backend after a kill;
- `LiveLeases` (`LiveLeaseKept`), for clients that neither requeue nor reject: an
  entry speaks of a lease that is still the expired one;
- `ContractKept` (`KeepsContract`): initial states map to initial states of
  `AtLeastOnce`, and each action to the abstract step it stands for or to a stutter;
- `ReasonsCurrent` (`ReasonIsCurrent`): `Reasoned` is inductive once the list is part of it,
  since only an entry makes `delay_message` reach a row, and the step that writes a
  reason uses its entry up; a list is made of inflight rows, which have no reason;
- `AcksAreFinal` (`AckedIsFinal`), which the contract gives: no abstract step hands out, or
  stores, what is settled, as long as nothing settled is stored (`SettledApart`);
- `LeaseFinds` (`SomeoneFirst`): the ORDER BY of `lease_next` need not be total (rows of the
  same priority and time are left to SQLite), but for finitely many keys, and `Keys` is
  finite in this theorem alone, it has a first row whenever a row is available: one
  with the fewest rows before it (`FirstRow`).

`FileSystemProofs`.  `FileInv` is `FileTypeOK` and an attempt of at least one in every lease
file and every entry of the sweep.  A path of an operation is described once, for all
its disks: by `Leaves` (the message moves, and only then loses its lease file), `Frees`
(that file is left alone, then deleted, and the envelope's attempt stays) or, for
`lease_next`, by `LeaseOK`; a kill and a completion are then one proof.  `StepRule` says
of each action that it leads to a good disk, that it is lawful, that it strands nothing
unless it is a kill in `lease_next`, and that what it brings to the DLQ has a reason.  From
these: `FileTypeCorrect`, `FileContractKept` (`FileKeepsContract`), `OnlyLeaseNextStrands`
(`LeaseNextStrands`), `ReasonsKept` (`DlqExplained`), and `ArchiveIsFinal`
(`ArchivedIsFinal`), since the directories exclude each other.

`DeliveriesLimited` (`DeliveriesBounded`) needs to know what an old attempt can do.
`Owed` counts the deliveries of a message and the one it waits for; an attempt is
`Behind` when it is below the limit although as many deliveries are owed already, so
that a sweep which judges by it grants one too many.  `Charged` says that what is owed is
within the limit and the kills, and, while a lease file or an entry is behind, that one is
still left.  Only a kill leaves a lease file behind (`KillPays`), an entry is as far behind
as the lease it was read from (`ListCharged`), and an entry is used up by the delivery it
grants (`SweepCharged`), of which there is one for each message (`OneEntryEach`).

`HybridProofs`.  `HybridInv` is `HybridTypeOK`, `Sound` (every row has its payload in `active`
or `dlq`, and a message in use has been counted), an attempt of at least one in every
entry of the sweep (the backoff needs it), and reports in which what may be adopted is
in `active` or `dlq` (else a repair could give rows to an archived payload).  One lemma
per operation (`...OK`) says of *every* store of its path that it is sound and differs
from the first in one message only, so that completing and being killed are the same
proof.  `StepRule` then says of each action that it leads to a sound store, that it is
lawful (an abstract step or a stutter) unless it repairs, and that it makes no message
hollow in another way than those listed.  From these: `HybridTypeCorrect`, `PayloadStays`
(`PayloadKept`), `HollowOrigins` (`HollowArises`), `HybridContractKept`
(`HybridKeepsContract`).  `FilesAlwaysFollow` (`FilesFollowRows`) adds that, while `faults` and
`repairs` are 0, every message is `Aligned`, which the last store of each path is and those
before it need not be.  `AcksAreFinal` (`AckedIsFinal`) holds until the first repair, after
which the payload a killed ack left behind may come back as a message.  `RepairsSettle`
(`RepairSettles`) is about any sound store: `RoundOf` says what one round makes of one
message, and two rounds are that twice.

`MailboxProofs`.  `MailInv` follows one request (`Tracked`): once handled, its file is
never in `requests` again, so nothing can pick it up; while the worker has it, the
clean-up may at most have moved it to `dead`; its answer comes before its deletion.
This needs no assumption on the order of listings and queued paths, nor even that
they name requests, and gives `ExecutedAtMostOnce` (`HandledAtMostOnce`) and
`ExecutedIsAnswered` (`NoAnswerLost`).  `MailTypeCorrect` and `NoRequestForgotten`
(`NoneForgotten`) need what a listing is: a sequence of the files that are there, all of
them (`ListingComplete`).  The worker's next path may be dropped without harm, since its
file is no longer in `requests` by then.  `OnlyCrashesLeave` (`LeftByCrash`) counts what lies in
`processing` without the worker at it (`LeftOver`): every step but a crash makes that set
smaller or leaves it as it is (`LeftShrinks`), a crash adds the one request the worker is at;
the worker that is ended by a request has moved it to `dead` before.
That moves and deletions of files succeed is part of the model.

`ThreadPoolProofs`.  `JobsAccounted` is inductive with type correctness alone; its
proof goes by what the queues hold and what the workers hold (`QueuesHold`,
`WorkersHold`), as each step disturbs one of them or moves one job from one to the other.
`StopAlwaysDrains` relates a call to every worker's thread, and needs three invariants.
`TeamInv`: a worker outside the team has no thread, and one that is told to stop, or has
come to its end, is the one the call is at.  `DrainInv`: while stop is under way the pool
is locked, the workers already treated have no thread, and neither for them nor for
one that has come to its end does a job wait that is neither late nor missed by it: a
worker ends only when it finds nothing it serves or right after a pop that found nothing,
and once the pool is locked what enters a queue is late (`LockedQueues`).  `EmptyInv`: what
waits for a worker after such a pop entered since; the exception `missed` is therefore the
whole of what a worker may leave, and it lasts while the worker has ended (`MissedLasts`).

Three theorems are what can be said of the pool's liveness without fairness.
`NoWakeUpIsLost` (`WakeUpsKept`): whoever sleeps has nothing to do that nobody will
tell it.  `CallsGoOn` (`NeverStuck`): a call that holds `mutex_` can take a step, or
the worker it waits for can, unless the two are deadlocked; the worker can always
go on since among the priorities it serves and finds jobs in, one comes first in its order
(`LeastNatural` again).  The deadlock needs a job that pushes another; `ChildlessPoolsGoOn`
says that a pool without such jobs, as both pools of the daemon, has none.
`DeadlockIsFinal` (`DeadlockLasts`): that deadlock is one, no step ends it.
With the fairness of `PoolFairSpec` this is why `EveryCallReturns` has the exception it has
and no other.

`DaemonProofs`.  `ExitInv` says where the threads can be while main is at a given line: the
threads of a part are over before main starts it and after main joined it, the request
worker is busy only while it serves, and the logger's thread ends only when it was told
to and nothing is left to write.  At the last line this is `ExitAlwaysClean`
(`ExitIsClean`).

Of `ShutdownEnds`, which is liveness, two theorems prove what does not depend on
fairness.  `StopAlwaysDescends` (`StopDescends`) gives each thread a number of steps it has
left once it was told to stop (`RequestLeft`, `CleanupLeft`, `SweepLeft`, `LogLeft`): each step of
its own makes that number less, and no step of another thread makes it more, be it a
notification, a spurious wake-up or a message to log; a thread that throws has none left.
`JoinsAlwaysBegun` (`JoinsBegun`)
says that main joins only threads that were begun and told to stop; its invariant,
`BegunInv`, follows main line by line.  What is left to fairness is that the threads are
scheduled and their timed waits end; that a thread told to stop has a step to take wherever
it is, but for `LogHung`, TLC has checked with ENABLED.

Of `RequestServed` the same part is `RequestsAlwaysKnown` (`RequestsKnown`): while the daemon
serves in watcher mode and no unreadable request has ended the worker, a request in the
mailbox is still to be reported, in `pending` or in
the worker's batch.  `KnownInv` adds that nothing is in the batch unless the worker serves it,
and that `running_` is set only while main waits for the signal.

Only model-checked: liveness (and with it fairness), which TLAPS does not prove here:
`ExpiredRecovered`, `DuePromoted`, `PoisonQuarantined`, `FileComesToRest`,
`EveryRequestEnds`, `EveryAnswerEnds`, `EveryCallReturns`, `QueuedRuns`, `RequestServed` and
`ShutdownEnds`.  Every invariant and action property of the runs is a theorem.  The other
way round, `TablesAgree`, `SomeoneFirst`, `AckedIsFinal` (of two backends), `ArchivedIsFinal`,
`LeftByCrash`, `NeverStuck`, `DeadlockLasts`, `StopDescends`, `JoinsBegun` and `RequestsKnown` are
proved without being properties of a run (TLC has checked each on the constants of the
run of its module), and `RetriesBounded` is run with acks and extensions only; its theorem covers every
command but the requeue, which hands a message out again on purpose.

## 5. Not modelled, and what could follow

Not modelled on purpose:

- formats, logging, metrics and listings (they change no state), and what
  `MessageValidator` and the rest of `Configurations` do: a check or a copy of JSON fields,
  one after the other, without state and without an order that matters;
- policies in the store (written at start, never read back by the daemon), the files of
  `meta/delayed` (written, never read), and `recover_expired_leases` of the file system and
  hybrid backends (no caller in the daemon);
- the SQLite library and its wrapper, taken as atomic transactions;
- the other utilities (command line, conversions, compression, GUIDs);
- I/O errors of single file steps other than a missing file; a power failure;
- a second signal during the shutdown, which kills the process (as `Kill` does).

What could follow: the mailbox composed with `AtLeastOnce`, for what a consumer that leaves
before its answer does to the message it leased (today `Mailbox` says that it was handled
once, and `QueueBroker` that the lease of a silent consumer runs out); a second message in
`hybrid`, if the clock can be given up for it; the end of `QueueManager`'s sweeps inside a
list, which `DaemonThreads` takes as one step.
