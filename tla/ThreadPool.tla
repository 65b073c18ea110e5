----------------------------- MODULE ThreadPool -----------------------------
(***************************************************************************)
(* The thread pool of CommonLibrary: ThreadPool, its JobPool, the          *)
(* ThreadWorkers and their threads.  Jobs are pushed by any thread, also   *)
(* by a job while it runs.  start, stop, pause, push of a worker and       *)
(* remove_workers hold mutex_ from beginning to end, except that           *)
(* remove_workers clears the queue before it and stop stores working_      *)
(* after it.  A thread that runs a job, and any other thread that pushes,  *)
(* takes mutex_ to notify the workers.                                     *)
(*                                                                         *)
(* What is done under the mutex of the JobPool is one step.  A worker      *)
(* holds its own mutex from the test of its condition until it sleeps or   *)
(* has popped: other workers pop, and jobs enter, between its steps, but   *)
(* nobody tells, holds or notifies it.  Between a pop that found nothing   *)
(* and the worker's next look at thread_stop_ it holds no mutex at all.    *)
(* notify_callback goes from worker to worker in the code; here it wakes   *)
(* them in one step, and Spurious wakes some of them earlier.  Titles,     *)
(* timestamps and the backup files of jobs are left out.                   *)
(***************************************************************************)
EXTENDS Naturals, SequencesExt

CONSTANTS
  Workers, Jobs, Priorities,
  Low,          \* the priority with a limit, or none of Priorities
  MaxQueueLow,  \* MAX_QUEUE_LOW
  PriorityOf,   \* the priority of each job
  Parent,       \* the job that pushes it, or NoJob: any other thread does
  NoJob,
  Order,        \* the order of the priorities of each worker, most urgent first
  Setups,       \* how the pool is set up: the first workers pushed, the priorities of all
  MaxCalls      \* bound: calls of start, stop, pause, push(worker), remove_workers

ASSUME PoolAssumption ==
  /\ NoJob \notin Jobs
  /\ PriorityOf \in [Jobs -> Priorities] /\ Parent \in [Jobs -> Jobs \cup {NoJob}]
  /\ Order \in [Workers -> Seq(Priorities)]
  /\ \A s \in Setups : /\ s.team \in Seq(Workers) /\ s.serves \in [Workers -> SUBSET Priorities]
                         /\ \A w \in Workers : s.serves[w] \subseteq ToSet(Order[w])
  /\ MaxQueueLow \in Nat /\ MaxCalls \in Nat

VARIABLES
  queue,      \* job_queues_
  locked,     \* lock_condition_
  job,        \* what has become of each job
  notifying,  \* jobs in the queue whose push has not called notify_callback yet
  late,       \* jobs that entered the queue while the pool was locked
  team,       \* thread_workers_, in the order they were pushed; while workers are
              \* removed, those that were found to stay
  working,    \* working_
  storing,    \* calls of stop that returned mutex_ and have working_ to store
  paused,     \* pause_ of the pool
  call,       \* the call that holds mutex_, and the workers it has still to treat
  clearing,   \* calls of remove_workers that cleared and wait for mutex_
  calls,
  thread,     \* the thread of each worker: where it is in run
  doing,      \* the job it runs
  told,       \* workers with thread_stop_
  held,       \* workers with pause_
  used,       \* workers whose promise_ has given its future
  serves,     \* priorities_
  missed      \* history: the jobs that entered since the pop of a worker found none

jobVars == <<queue, locked, job, notifying, late>>
poolVars == <<team, working, storing, paused, call, clearing, calls>>
workerVars == <<thread, doing, told, held, used, serves, missed>>
pool_vars == <<jobVars, poolVars, workerVars>>

NoCall == [op |-> "none", todo |-> <<>>, priority |-> "none"]

MutexFree == call.op = "none"

Queued(j) == \E p \in Priorities : j \in ToSet(queue[p])

PoolInit ==
  /\ queue = [p \in Priorities |-> <<>>] /\ locked = FALSE
  /\ job = [j \in Jobs |-> "new"] /\ notifying = {} /\ late = {}
  /\ working = FALSE /\ storing = 0 /\ paused = FALSE
  /\ call = NoCall /\ clearing = {} /\ calls = 0
  /\ thread = [w \in Workers |-> "none"] /\ doing = [w \in Workers |-> NoJob]
  /\ told = {} /\ held = {} /\ used = {} /\ missed = [w \in Workers |-> {}]
  /\ \E s \in Setups : team = s.team /\ serves = s.serves

----------------------------------------------------------------------------
(* Wake-ups.  A worker that waits tests its condition again.               *)

Awake(W) == [w \in Workers |-> IF w \in W /\ thread[w] = "waiting" THEN "testing" ELSE thread[w]]

\* ThreadPool::notify_callback: the workers of the team that serve p.
Notified(p) == {w \in ToSet(team) : p \in serves[w]}

----------------------------------------------------------------------------
(* push(job), in three steps.                                              *)

\* A job is pushed by its parent while that runs, or by some other thread.
Pusher(j) == Parent[j] = NoJob \/ \E w \in Workers : doing[w] = Parent[j]

\* lock_condition_ is read before the mutex of the JobPool is taken.
PushAdmit(j) ==
  /\ job[j] = "new" /\ Pusher(j)
  /\ job' = [job EXCEPT ![j] = IF locked THEN "refused" ELSE "admitted"]
  /\ UNCHANGED <<queue, locked, notifying, late, poolVars, workerVars>>

PushInsert(j) ==
  LET p == PriorityOf[j]
  IN  /\ job[j] = "admitted"
      /\ \/ /\ p = Low /\ Len(queue[p]) >= MaxQueueLow
            /\ job' = [job EXCEPT ![j] = "refused"]
            /\ UNCHANGED <<queue, notifying, late, missed>>
         \/ /\ ~(p = Low /\ Len(queue[p]) >= MaxQueueLow)
            /\ job' = [job EXCEPT ![j] = "queued"]
            /\ queue' = [queue EXCEPT ![p] = Append(@, j)]
            /\ notifying' = notifying \cup {j}
            /\ late' = IF locked THEN late \cup {j} ELSE late
            /\ missed' = [w \in Workers |->
                            IF thread[w] = "empty" /\ p \in serves[w] THEN missed[w] \cup {j} ELSE missed[w]]
      /\ UNCHANGED <<locked, poolVars, thread, doing, told, held, used, serves>>

PushNotify(j) ==
  /\ j \in notifying /\ MutexFree
  /\ notifying' = notifying \ {j}
  /\ thread' = Awake(Notified(PriorityOf[j]))
  /\ UNCHANGED <<queue, locked, job, late, poolVars, doing, told, held, used, serves, missed>>

----------------------------------------------------------------------------
(* ThreadWorker::run.                                                      *)

\* has_job: with no priority left, the jobs of every priority count.
Sees(w, p) == serves[w] = {} \/ p \in serves[w]

HasJob(w) == \E p \in Priorities : queue[p] # <<>> /\ Sees(w, p)

\* Jobs that may have entered since has_job looked at their priority: it looks
\* at one after the other.  Their push cannot have notified the worker, which
\* keeps its mutex; once it is told by stop, they found the pool locked.
Entering(w) == {j \in notifying : w \in told /\ locked => j \in late}

FindsNone(w) == \A p \in Priorities : Sees(w, p) => ToSet(queue[p]) \subseteq Entering(w)

\* A wrong variant of Ends: thread_stop_ is not reset at the end of run.
EndsTold(w) == thread' = [thread EXCEPT ![w] = "ended"] /\ UNCHANGED told

Ends(w) == thread' = [thread EXCEPT ![w] = "ended"] /\ told' = told \ {w}

\* A wrong variant of Test: a worker that is told to stop leaves its jobs.
TestAbrupt(w) ==
  /\ thread[w] = "testing"
  /\ \/ /\ w \notin told /\ (w \in held \/ FindsNone(w))
        /\ thread' = [thread EXCEPT ![w] = "waiting"] /\ UNCHANGED told
     \/ /\ w \notin told /\ w \notin held /\ HasJob(w)
        /\ thread' = [thread EXCEPT ![w] = "popping"] /\ UNCHANGED told
     \/ w \in told /\ Ends(w)
  /\ UNCHANGED <<jobVars, poolVars, doing, held, used, serves, missed>>

\* The worker sleeps, goes on to pop, or its loop ends.
Test(w) ==
  /\ thread[w] = "testing"
  /\ \/ /\ w \notin told /\ (w \in held \/ FindsNone(w))
        /\ thread' = [thread EXCEPT ![w] = "waiting"] /\ UNCHANGED told
     \/ /\ w \in held => w \in told
        /\ HasJob(w)
        /\ thread' = [thread EXCEPT ![w] = "popping"] /\ UNCHANGED told
     \/ w \in told /\ FindsNone(w) /\ Ends(w)
  /\ UNCHANGED <<jobVars, poolVars, doing, held, used, serves, missed>>

\* The first priority of the worker that has a job.
Best(w) ==
  {p \in serves[w] : /\ queue[p] # <<>>
                     /\ \E i \in DOMAIN Order[w] :
                          /\ Order[w][i] = p
                          /\ \A k \in 1 .. i - 1 :
                               Order[w][k] \notin serves[w] \/ queue[Order[w][k]] = <<>>}

\* A wrong variant of PopJob: the job stays in front of the queue.
PopPeek(w) ==
  /\ thread[w] = "popping"
  /\ \E p \in Best(w) :
       /\ job' = [job EXCEPT ![Head(queue[p])] = "running"]
       /\ doing' = [doing EXCEPT ![w] = Head(queue[p])]
  /\ thread' = [thread EXCEPT ![w] = "running"]
  /\ UNCHANGED <<queue, locked, notifying, late, poolVars, told, held, used, serves, missed>>

PopJob(w) ==
  /\ thread[w] = "popping"
  /\ \E p \in Best(w) :
       /\ queue' = [queue EXCEPT ![p] = Tail(@)]
       /\ job' = [job EXCEPT ![Head(queue[p])] = "running"]
       /\ doing' = [doing EXCEPT ![w] = Head(queue[p])]
  /\ thread' = [thread EXCEPT ![w] = "running"]
  /\ UNCHANGED <<locked, notifying, late, poolVars, told, held, used, serves, missed>>

\* Another worker was first, or the worker has no priority left.  The mutex of
\* the worker is unlocked.
PopNothing(w) ==
  /\ thread[w] = "popping" /\ \A p \in serves[w] : queue[p] = <<>>
  /\ thread' = [thread EXCEPT ![w] = "empty"]
  /\ UNCHANGED <<jobVars, poolVars, doing, told, held, used, serves, missed>>

\* thread_stop_ is read without the mutex; a worker told meanwhile ends here and
\* does not look for jobs again.
LookAgain(w) ==
  /\ thread[w] = "empty"
  /\ \/ w \in told /\ Ends(w) /\ UNCHANGED missed
     \/ /\ w \notin told
        /\ thread' = [thread EXCEPT ![w] = "testing"]
        /\ missed' = [missed EXCEPT ![w] = {}]
        /\ UNCHANGED told
  /\ UNCHANGED <<jobVars, poolVars, doing, held, used, serves>>

\* do_run returns, whatever the job threw; its own pushes returned before.
Finish(w) ==
  /\ thread[w] = "running"
  /\ \A j \in Jobs : Parent[j] = doing[w] => job[j] # "admitted" /\ j \notin notifying
  /\ job' = [job EXCEPT ![doing[w]] = "done"]
  /\ doing' = [doing EXCEPT ![w] = NoJob]
  /\ thread' = [thread EXCEPT ![w] = "testing"]
  /\ UNCHANGED <<queue, locked, notifying, late, poolVars, told, held, used, serves, missed>>

\* A wake-up nobody asked for.
Spurious(w) ==
  /\ thread[w] = "waiting"
  /\ thread' = Awake({w})
  /\ UNCHANGED <<jobVars, poolVars, doing, told, held, used, serves, missed>>

WorkerStep(w) == Test(w) \/ PopJob(w) \/ PopNothing(w) \/ LookAgain(w) \/ Finish(w)

----------------------------------------------------------------------------
(* Calls.  A call holds mutex_ while it treats the workers one by one.     *)

Calling == calls < MaxCalls /\ calls' = calls + 1

Begins(op, p) == MutexFree /\ call' = [op |-> op, todo |-> team, priority |-> p]

Returns == call' = NoCall

Cleared(P) ==
  /\ queue' = [p \in Priorities |-> IF p \in P THEN <<>> ELSE queue[p]]
  /\ job' = [j \in Jobs |-> IF \E p \in P : j \in ToSet(queue[p]) THEN "cleared" ELSE job[j]]

\* start, and stop, of a pool that is in that state already change nothing.
Start ==
  /\ Calling /\ ~working /\ Begins("start", "none")
  /\ UNCHANGED <<jobVars, team, working, storing, paused, clearing, workerVars>>

Stop(immediately) ==
  /\ Calling /\ working /\ Begins("stop", "none")
  /\ locked' = TRUE
  /\ IF immediately THEN Cleared(Priorities) ELSE UNCHANGED <<queue, job>>
  /\ UNCHANGED <<notifying, late, team, working, storing, paused, clearing, workerVars>>

\* remove_workers clears the queue of p before it takes mutex_.
ClearPriority(p) ==
  /\ Calling
  /\ Cleared({p})
  /\ clearing' = clearing \cup {p}
  /\ UNCHANGED <<locked, notifying, late, team, working, storing, paused, call, workerVars>>

\* remove_if moves the workers that stay to the front, one after the other.
RemoveWorkers(p) ==
  /\ p \in clearing /\ Begins("remove", p)
  /\ clearing' = clearing \ {p}
  /\ team' = <<>>
  /\ UNCHANGED <<jobVars, working, storing, paused, calls, workerVars>>

\* pause stores pause_ and then treats the workers one by one.
Pause(b) ==
  /\ Calling /\ Begins("pause", "none")
  /\ paused' = b
  /\ UNCHANGED <<jobVars, team, working, storing, clearing, workerVars>>

\* ThreadWorker::start gets as far as a thread: a worker needs a priority, and
\* a promise gives its future once.
Startable(w) == serves[w] # {} /\ w \notin used

Launch(w) == /\ thread' = [thread EXCEPT ![w] = "testing"]
             /\ used' = used \cup {w}
             /\ missed' = [missed EXCEPT ![w] = {}]

\* push(worker).  Nothing tells whether the worker of a working pool started.
PushWorker(w) ==
  /\ Calling /\ MutexFree /\ w \notin ToSet(team)
  /\ team' = Append(team, w)
  /\ held' = IF paused THEN held \cup {w} ELSE held \ {w}
  /\ IF working /\ Startable(w) THEN Launch(w) ELSE UNCHANGED <<thread, used, missed>>
  /\ UNCHANGED <<jobVars, working, storing, paused, call, clearing, doing, told, serves>>

Current == Head(call.todo)

AtWorker(ops) == call.op \in ops /\ call.todo # <<>>

Onward == call' = [call EXCEPT !.todo = Tail(@)]

\* The worker the call stops next: start stops one that has a thread already.
Doomed(w) == /\ AtWorker({"start", "stop", "remove"}) /\ w = Current
             /\ thread[w] # "none"
             /\ call.op = "remove" => serves[w] = {}

\* A wrong variant of Tell: thread_stop_ is stored and nobody is notified.
TellSilent ==
  /\ \E w \in Workers :
       /\ Doomed(w) /\ w \notin told /\ thread[w] \notin {"popping", "ended"}
       /\ told' = told \cup {w}
  /\ UNCHANGED <<jobVars, poolVars, thread, doing, held, used, serves, missed>>

\* ThreadWorker::stop: the worker is told, and joined.
Tell ==
  /\ \E w \in Workers :
       /\ Doomed(w) /\ w \notin told /\ thread[w] \notin {"popping", "ended"}
       /\ told' = told \cup {w}
       /\ thread' = Awake({w})
  /\ UNCHANGED <<jobVars, poolVars, doing, held, used, serves, missed>>

Join ==
  /\ \E w \in Workers :
       /\ Doomed(w) /\ thread[w] = "ended"
       /\ thread' = [thread EXCEPT ![w] = "none"]
  /\ IF call.op = "start" THEN UNCHANGED call ELSE Onward
  /\ UNCHANGED <<jobVars, team, working, storing, paused, clearing, calls,
                 doing, told, held, used, serves, missed>>

StartWorker ==
  /\ AtWorker({"start"}) /\ thread[Current] = "none"
  /\ IF Startable(Current) THEN Launch(Current) /\ Onward
                           ELSE Returns /\ UNCHANGED <<thread, used, missed>>
  /\ UNCHANGED <<jobVars, team, working, storing, paused, clearing, calls,
                 doing, told, held, serves>>

Started ==
  /\ call.op = "start" /\ call.todo = <<>>
  /\ working' = TRUE
  /\ Returns
  /\ UNCHANGED <<jobVars, team, storing, paused, clearing, calls, workerVars>>

\* stop returns at a worker without a thread and leaves the pool locked.
StopFails ==
  /\ AtWorker({"stop"}) /\ thread[Current] = "none"
  /\ Returns
  /\ UNCHANGED <<jobVars, team, working, storing, paused, clearing, calls, workerVars>>

Stopped ==
  /\ call.op = "stop" /\ call.todo = <<>>
  /\ locked' = FALSE
  /\ storing' = storing + 1
  /\ Returns
  /\ UNCHANGED <<queue, job, notifying, late, team, working, paused, clearing, calls, workerVars>>

StoreWorking ==
  /\ storing > 0
  /\ storing' = storing - 1
  /\ working' = FALSE
  /\ UNCHANGED <<jobVars, team, paused, call, clearing, calls, workerVars>>

\* The worker loses the priority; if it has another one it stays.
LosePriority ==
  /\ AtWorker({"remove"}) /\ call.priority \in serves[Current] /\ thread[Current] # "popping"
  /\ serves' = [serves EXCEPT ![Current] = @ \ {call.priority}]
  /\ UNCHANGED <<jobVars, poolVars, thread, doing, told, held, used, missed>>

RemoveOne ==
  /\ AtWorker({"remove"}) /\ call.priority \notin serves[Current]
  /\ \/ serves[Current] # {} /\ team' = Append(team, Current)
     \/ serves[Current] = {} /\ thread[Current] = "none" /\ UNCHANGED team
  /\ Onward
  /\ UNCHANGED <<jobVars, working, storing, paused, clearing, calls, workerVars>>

\* A wrong variant of PauseWorker: the worker is not notified.
PauseSilent ==
  /\ AtWorker({"pause"}) /\ thread[Current] # "popping"
  /\ held' = IF paused THEN held \cup {Current} ELSE held \ {Current}
  /\ Onward
  /\ UNCHANGED <<jobVars, team, working, storing, paused, clearing, calls,
                 thread, doing, told, used, serves, missed>>

PauseWorker ==
  /\ AtWorker({"pause"}) /\ thread[Current] # "popping"
  /\ held' = IF paused THEN held \cup {Current} ELSE held \ {Current}
  /\ thread' = Awake({Current})
  /\ Onward
  /\ UNCHANGED <<jobVars, team, working, storing, paused, clearing, calls,
                 doing, told, used, serves, missed>>

\* remove_workers and pause return.
Through ==
  /\ call.op \in {"remove", "pause"} /\ call.todo = <<>>
  /\ Returns
  /\ UNCHANGED <<jobVars, team, working, storing, paused, clearing, calls, workerVars>>

CallStep == \/ Tell \/ Join \/ StartWorker \/ Started \/ StopFails \/ Stopped \/ StoreWorking
            \/ LosePriority \/ RemoveOne \/ PauseWorker \/ Through
            \/ \E p \in Priorities : RemoveWorkers(p)

PoolNext ==
  \/ \E j \in Jobs : PushAdmit(j) \/ PushInsert(j) \/ PushNotify(j)
  \/ \E w \in Workers : WorkerStep(w) \/ Spurious(w) \/ PushWorker(w)
  \/ CallStep
  \/ Start
  \/ \E b \in BOOLEAN : Stop(b) \/ Pause(b)
  \/ \E p \in Priorities : ClearPriority(p)

PoolSpec == PoolInit /\ [][PoolNext]_pool_vars

\* A call or a push that has begun goes on, threads are scheduled, and a job
\* comes to its end.  Nobody has to push a job or make a call.
PoolFairSpec ==
  /\ PoolSpec
  /\ SF_pool_vars(CallStep)
  /\ \A w \in Workers : WF_pool_vars(WorkerStep(w))
  /\ \A j \in Jobs : WF_pool_vars(PushInsert(j) \/ PushNotify(j))

----------------------------------------------------------------------------
(* Properties.                                                             *)

CallRecords ==
  [op : {"none", "start", "stop", "remove", "pause"}, todo : Seq(Workers), priority : Priorities \cup {"none"}]

Places == {"none", "testing", "waiting", "popping", "empty", "running", "ended"}

PoolTypeOK ==
  /\ queue \in [Priorities -> Seq(Jobs)] /\ locked \in BOOLEAN
  /\ job \in [Jobs -> {"new", "refused", "admitted", "queued", "running", "done", "cleared"}]
  /\ notifying \subseteq Jobs /\ late \subseteq Jobs
  /\ team \in Seq(Workers) /\ working \in BOOLEAN /\ storing \in Nat /\ paused \in BOOLEAN
  /\ call \in CallRecords
  /\ clearing \subseteq Priorities /\ calls \in 0 .. MaxCalls
  /\ thread \in [Workers -> Places]
  /\ doing \in [Workers -> Jobs \cup {NoJob}]
  /\ told \subseteq Workers /\ \A w \in told : thread[w] \notin {"none", "ended"}
  /\ held \subseteq Workers /\ used \subseteq Workers
  /\ serves \in [Workers -> SUBSET Priorities] /\ missed \in [Workers -> SUBSET Jobs]

\* A job that was accepted is in one place, once: in the queue of its priority,
\* with one worker, done, or cleared.  So no job is run twice, although pop
\* comes after the test of the condition and other workers pop in between.
JobsAccounted ==
  /\ \A p \in Priorities : \A i, k \in DOMAIN queue[p] : queue[p][i] = queue[p][k] => i = k
  /\ \A j \in Jobs, p \in Priorities :
       j \in ToSet(queue[p]) <=> job[j] = "queued" /\ p = PriorityOf[j]
  /\ \A w \in Workers : doing[w] # NoJob => job[doing[w]] = "running"
  /\ \A v, w \in Workers : doing[v] = doing[w] /\ doing[v] # NoJob => v = w

Members == ToSet(team) \cup ToSet(call.todo)

\* When stop comes to its end, every worker of the team is joined, and a job that
\* is left in a queue is there for one of three reasons: it was admitted before
\* the pool was locked and entered after it; or every worker that serves it had
\* just found nothing to pop when it entered, was told to stop and ended without
\* another look (in both cases push returned true and nothing will run the job);
\* or remove_workers took its priority from the last worker.  In all other cases
\* the workers drain the queue, also when they are paused.
StopDrains ==
  [][(call.op = "stop" /\ call.todo = <<>> /\ call'.op = "none") =>
       /\ \A w \in Workers : thread[w] = "none"
       /\ \A j \in Jobs \ late : Queued(j) =>
            \A w \in Members : PriorityOf[j] \in serves[w] => j \in missed[w]]_pool_vars

\* No wake-up is lost: a worker that sleeps has not been told to stop, and a job
\* it may run is in its queue only as long as the push of such a job has still
\* to notify, although the condition of the wait is tested before the worker
\* sleeps, jobs enter without mutex_, and pause tells nobody a second time.
WakeUpsKept ==
  \A w \in Workers : thread[w] = "waiting" =>
    /\ w \notin told
    /\ \A p \in serves[w] :
         w \notin held /\ queue[p] # <<>> => \E j \in notifying : PriorityOf[j] = p

\* The call joins a worker whose job pushes another job, which waits for mutex_.
Deadlocked ==
  \E w \in Workers, j \in notifying : Doomed(w) /\ doing[w] # NoJob /\ Parent[j] = doing[w]

\* What the call that holds mutex_ can do next, without waiting for a worker: it
\* is through, or its worker has no thread or none any more, is not told yet,
\* stays in the pool, or is to be held or let go.
CallMoves ==
  \/ call.todo = <<>>
  \/ thread[Current] \in {"none", "ended"}
  \/ Doomed(Current) /\ Current \notin told /\ thread[Current] # "popping"
  \/ /\ call.op = "remove" /\ serves[Current] # {}
     /\ call.priority \notin serves[Current] \/ thread[Current] # "popping"
  \/ call.op = "pause" /\ thread[Current] # "popping"

\* What a worker can do next, and what its job waits for.
WorkerMoves(w) ==
  \/ thread[w] \in {"testing", "empty"}
  \/ thread[w] = "popping" /\ (Best(w) # {} \/ \A p \in serves[w] : queue[p] = <<>>)
  \/ /\ thread[w] = "running"
     /\ \A j \in Jobs : Parent[j] = doing[w] /\ j \in notifying => MutexFree

\* A call that holds mutex_ waits for a worker that can go on, and never for one
\* that sleeps, unless it is deadlocked.
NeverStuck == call.op # "none" => CallMoves \/ WorkerMoves(Current) \/ Deadlocked

\* Nobody gets out of the deadlock: neither the call nor the job gives way.
DeadlockLasts == [][Deadlocked => Deadlocked']_pool_vars

\* Every call returns, unless a job pushes another one while its worker is
\* being stopped: push takes mutex_, which the call holds while it joins, and
\* neither ever gives way.
EveryCallReturns == []<>(call.op = "none") \/ <>[]Deadlocked

Tended(p) ==
  \E w \in Members \ held : p \in serves[w] /\ thread[w] \notin {"none", "ended"}

\* A queued job is run (or cleared) as long as a worker of the team that is not
\* paused serves its priority: no wake-up is lost.
QueuedRuns ==
  \A j \in Jobs : []<>(job[j] # "queued" \/ ~Tended(PriorityOf[j]) \/ Deadlocked)
=============================================================================
