--------------------------- MODULE DaemonThreads ---------------------------
(***************************************************************************)
(* The threads of the daemon from its start to its exit: main, the request *)
(* and clean-up workers of MailboxHandler, the two sweep threads of        *)
(* QueueManager, the callback of the folder watcher, and the logger.       *)
(*                                                                         *)
(* The workers of MailboxHandler share pending_cv_.  Each holds            *)
(* pending_mutex_ while it tests the condition of its wait and until it    *)
(* blocks, when "deciding"; on_file_changed takes it to push, stop and the *)
(* notifications do not.  Other sections under it are one step.  What is   *)
(* done with a request is in Mailbox, what the sweeps do in QueueBroker,   *)
(* how a pool stops its workers in ThreadPool.  When the logger's thread   *)
(* throws, the process is gone: nothing but the clients goes on.           *)
(***************************************************************************)
EXTENDS Naturals, Logger

CONSTANTS
  Requests,  \* request files clients write
  Left,      \* those that are there when the daemon starts
  Suspect,   \* those that may be unreadable and not in UTF-8
  Sweeps     \* the sweep threads

ASSUME DaemonAssumption == Left \subseteq Requests /\ Suspect \subseteq Requests

VARIABLES
  main,           \* where main is
  shutdown,       \* shutdown_requested_
  polling,        \* not use_folder_watcher_
  mail_running,   \* running_ of MailboxHandler
  queue_running,  \* running_ of QueueManager
  request,        \* where the request worker is
  cleanup,        \* where the clean-up worker is
  sweep,          \* where each sweep thread is
  files,          \* request files that were written and not taken
  unsent,         \* request files clients have still to write
  reports,        \* files the watcher has still to report
  notices,        \* calls of on_file_changed that have still to notify
  pending,        \* pending_requests_, without duplicates
  batch,          \* requests_to_process, or the files polled
  busy            \* the request that is being handled, in a set

mailVars == <<mail_running, request, cleanup>>
fileVars == <<files, unsent, reports, notices, pending, batch, busy>>
daemonVars == <<logVars, main, shutdown, polling, mailVars, queue_running, sweep, fileVars>>

Alive == log_thread # "thrown"

DaemonInit ==
  /\ LogInit
  /\ main = "start_log" /\ shutdown = FALSE /\ polling \in BOOLEAN
  /\ mail_running = FALSE /\ queue_running = FALSE
  /\ request = "none" /\ cleanup = "none" /\ sweep = [s \in Sweeps |-> "none"]
  /\ files = Left /\ unsent = Requests \ Left
  /\ reports = {} /\ notices = 0 /\ pending = {} /\ batch = {} /\ busy = {}

----------------------------------------------------------------------------
(* main.                                                                   *)

Main(from, to) == main = from /\ main' = to

StartLog ==
  /\ Main("start_log", "start_backend") /\ LogStart
  /\ UNCHANGED <<shutdown, polling, mailVars, queue_running, sweep, fileVars>>

\* create_backend_adapter and open: main gives up when they fail.
StartBackend ==
  /\ Main("start_backend", "start_queue") \/ Main("start_backend", "stop_log")
  /\ LogWrite
  /\ UNCHANGED <<shutdown, polling, mailVars, queue_running, sweep, fileVars>>

\* QueueManager::start: a job of its own for each sweep.
StartQueue ==
  /\ Main("start_queue", "start_mail")
  /\ queue_running' = TRUE
  /\ sweep' = [s \in Sweeps |-> "queued"]
  /\ LogWrite
  /\ UNCHANGED <<shutdown, polling, mailVars, fileVars>>

StartMail ==
  /\ Main("start_mail", "waiting")
  /\ mail_running' = TRUE /\ request' = "queued" /\ cleanup' = "queued"
  /\ LogWrite
  /\ UNCHANGED <<shutdown, polling, queue_running, sweep, fileVars>>

\* ensure_directories fails.
StartMailFails ==
  /\ Main("start_mail", "stop_queue")
  /\ LogWrite
  /\ UNCHANGED <<shutdown, polling, mailVars, queue_running, sweep, fileVars>>

\* signal_callback, once the handlers are registered.
Signal ==
  /\ Alive /\ main = "waiting" /\ ~shutdown
  /\ shutdown' = TRUE
  /\ UNCHANGED <<logVars, main, polling, mailVars, queue_running, sweep, fileVars>>

\* MailboxHandler::stop: running_, then the notification, both without
\* pending_mutex_; then the watcher; then the pool.
StopMail ==
  /\ shutdown /\ Main("waiting", "notify_mail")
  /\ mail_running' = FALSE
  /\ UNCHANGED <<logVars, shutdown, polling, request, cleanup, queue_running, sweep, fileVars>>

Notified(place) == IF place = "waiting" THEN "entering" ELSE place

NotifyMail ==
  /\ Main("notify_mail", "stop_watcher")
  /\ request' = Notified(request) /\ cleanup' = Notified(cleanup)
  /\ UNCHANGED <<logVars, shutdown, polling, mail_running, queue_running, sweep, fileVars>>

\* The thread of the watcher is joined: a call of on_file_changed ends first.
StopWatcher ==
  /\ Main("stop_watcher", "clear_mail")
  /\ notices = 0
  /\ reports' = {}
  /\ UNCHANGED <<logVars, shutdown, polling, mailVars, queue_running, sweep,
                 files, unsent, notices, pending, batch, busy>>

\* ThreadPool::stop(true): a job no worker has begun is dropped.
Dropped(place) == IF place = "queued" THEN "ended" ELSE place

ClearMail ==
  /\ Main("clear_mail", "join_mail")
  /\ request' = Dropped(request) /\ cleanup' = Dropped(cleanup)
  /\ UNCHANGED <<logVars, shutdown, polling, mail_running, queue_running, sweep, fileVars>>

JoinMail ==
  /\ Main("join_mail", "stop_queue")
  /\ request = "ended" /\ cleanup = "ended"
  /\ LogWrite
  /\ UNCHANGED <<shutdown, polling, mailVars, queue_running, sweep, fileVars>>

\* QueueManager::stop.
StopQueue ==
  /\ Main("stop_queue", "clear_queue")
  /\ queue_running' = FALSE
  /\ UNCHANGED <<logVars, shutdown, polling, mailVars, sweep, fileVars>>

ClearQueue ==
  /\ Main("clear_queue", "join_queue")
  /\ sweep' = [s \in Sweeps |-> Dropped(sweep[s])]
  /\ UNCHANGED <<logVars, shutdown, polling, mailVars, queue_running, fileVars>>

JoinQueue ==
  /\ Main("join_queue", "stop_log")
  /\ \A s \in Sweeps : sweep[s] = "ended"
  /\ LogWrite
  /\ UNCHANGED <<shutdown, polling, mailVars, queue_running, sweep, fileVars>>

StopLog ==
  /\ \/ Main("stop_log", "notify_log") /\ LogStopStore
     \/ Main("notify_log", "join_log") /\ LogStopNotify
     \/ Main("join_log", "exited") /\ LogStopJoin
  /\ UNCHANGED <<shutdown, polling, mailVars, queue_running, sweep, fileVars>>

MainStep ==
  /\ Alive
  /\ \/ StartLog \/ StartBackend \/ StartQueue \/ StartMail \/ StartMailFails
     \/ StopMail \/ NotifyMail \/ StopWatcher \/ ClearMail \/ JoinMail
     \/ StopQueue \/ ClearQueue \/ JoinQueue \/ StopLog

----------------------------------------------------------------------------
(* Clients and the watcher.                                                *)

Watching == ~polling /\ main \in {"waiting", "notify_mail", "stop_watcher"}

Send(r) ==
  /\ r \in unsent
  /\ unsent' = unsent \ {r} /\ files' = files \cup {r}
  /\ reports' = IF Watching THEN reports \cup {r} ELSE reports
  /\ UNCHANGED <<logVars, main, shutdown, polling, mailVars, queue_running, sweep,
                 notices, pending, batch, busy>>

PendingFree == request # "deciding" /\ cleanup # "deciding"

\* on_file_changed, first part: the path is pushed under pending_mutex_.
FileChanged(r) ==
  /\ r \in reports /\ notices = 0 /\ PendingFree
  /\ reports' = reports \ {r}
  /\ pending' = pending \cup {r}
  /\ notices' = 1
  /\ UNCHANGED <<logVars, main, shutdown, polling, mailVars, queue_running, sweep,
                 files, unsent, batch, busy>>

\* Second part, without the mutex: notify_one wakes either of the workers.
NotifyOne ==
  /\ notices = 1
  /\ notices' = 0
  /\ \/ request = "waiting" /\ request' = "entering" /\ UNCHANGED cleanup
     \/ cleanup = "waiting" /\ cleanup' = "entering" /\ UNCHANGED request
     \/ request # "waiting" /\ cleanup # "waiting" /\ UNCHANGED <<request, cleanup>>
  /\ UNCHANGED <<logVars, main, shutdown, polling, mail_running, queue_running, sweep,
                 files, unsent, reports, pending, batch, busy>>

WatcherStep == Alive /\ (NotifyOne \/ \E r \in Requests : FileChanged(r))

----------------------------------------------------------------------------
(* The workers.                                                            *)

\* A worker may have something to say.
Remark == LogWrite \/ UNCHANGED logVars

requestOthers == <<main, shutdown, polling, mail_running, cleanup, queue_running, sweep>>

\* The files that are there when the job begins, then the loop.
ListExisting ==
  /\ request = "queued" /\ PendingFree
  /\ request' = "looping"
  /\ pending' = pending \cup files
  /\ UNCHANGED <<logVars, requestOthers, files, unsent, reports, notices, batch, busy>>

RequestLoop ==
  /\ request = "looping"
  /\ \/ ~mail_running /\ request' = "ended" /\ UNCHANGED batch
     \/ mail_running /\ ~polling /\ request' = "entering" /\ UNCHANGED batch
     \/ mail_running /\ polling /\ request' = "serving" /\ batch' = files
  /\ UNCHANGED <<logVars, requestOthers, files, unsent, reports, notices, pending, busy>>

\* The condition of wait_for, under pending_mutex_.
RequestEnter ==
  /\ request = "entering" /\ PendingFree
  /\ request' = IF pending # {} \/ ~mail_running THEN "taking" ELSE "deciding"
  /\ UNCHANGED <<logVars, requestOthers, fileVars>>

RequestBlock ==
  /\ request = "deciding"
  /\ request' = "waiting"
  /\ UNCHANGED <<logVars, requestOthers, fileVars>>

\* A wrong variant of RequestTimeout: the wait ends when the worker is notified.
RequestUntimed ==
  /\ request = "waiting" /\ ~mail_running
  /\ request' = "taking"
  /\ UNCHANGED <<logVars, requestOthers, fileVars>>

\* poll_interval_ms is over.
RequestTimeout ==
  /\ request = "waiting"
  /\ request' = "taking"
  /\ UNCHANGED <<logVars, requestOthers, fileVars>>

\* process_pending_requests takes every path at once.
RequestTake ==
  /\ request = "taking" /\ PendingFree
  /\ \/ ~mail_running /\ request' = "ended" /\ UNCHANGED <<pending, batch>>
     \/ mail_running /\ request' = "serving" /\ batch' = pending /\ pending' = {}
  /\ UNCHANGED <<logVars, requestOthers, files, unsent, reports, notices, busy>>

\* Before each request the worker looks whether it has to stop.
RequestServe ==
  /\ request = "serving" /\ busy = {}
  /\ \/ /\ mail_running
        /\ \E r \in batch : /\ batch' = batch \ {r}
                            /\ busy' = {r} \cap files
                            /\ files' = files \ {r}
        /\ UNCHANGED request
     \/ /\ batch = {} \/ ~mail_running
        /\ batch' = {} /\ request' = IF polling THEN "sleeping" ELSE "looping"
        /\ UNCHANGED <<busy, files>>
  /\ UNCHANGED <<logVars, requestOthers, unsent, reports, notices, pending>>

RequestAnswer ==
  /\ busy # {} /\ busy' = {}
  /\ Remark
  /\ UNCHANGED <<requestOthers, request, files, unsent, reports, notices, pending, batch>>

\* The parser's message is logged and thrown at by move_to_dead; the job ends,
\* running_ stays, and the rest of the batch is gone.  If the clean-up worker
\* took the file before it there is nothing to move.
RequestThrows ==
  /\ busy # {} /\ busy \subseteq Suspect /\ busy' = {}
  /\ LogWriteSpoiled
  /\ \/ request' = "ended" /\ batch' = {}
     \/ UNCHANGED <<request, batch>>
  /\ UNCHANGED <<requestOthers, files, unsent, reports, notices, pending>>

RequestSleeps ==
  /\ request = "sleeping"
  /\ request' = "looping"
  /\ UNCHANGED <<logVars, requestOthers, fileVars>>

RequestStep ==
  /\ Alive
  /\ \/ ListExisting \/ RequestLoop \/ RequestEnter \/ RequestBlock \/ RequestTimeout
     \/ RequestTake \/ RequestServe \/ RequestAnswer \/ RequestThrows \/ RequestSleeps

cleanupOthers == <<main, shutdown, polling, mail_running, request, queue_running, sweep, fileVars>>

CleanupLoop ==
  /\ cleanup \in {"queued", "looping"}
  /\ cleanup' = IF mail_running THEN "entering" ELSE "ended"
  /\ UNCHANGED <<logVars, cleanupOthers>>

\* The condition of wait_for, under pending_mutex_.
CleanupEnter ==
  /\ cleanup = "entering" /\ PendingFree
  /\ cleanup' = IF mail_running THEN "deciding" ELSE "looping"
  /\ UNCHANGED <<logVars, cleanupOthers>>

CleanupBlock ==
  /\ cleanup = "deciding"
  /\ cleanup' = "waiting"
  /\ UNCHANGED <<logVars, cleanupOthers>>

\* A wrong variant of CleanupTimeout: only a notification ends the wait.
CleanupUntimed ==
  /\ cleanup = "waiting" /\ mail_running
  /\ cleanup' = "looping"
  /\ UNCHANGED <<logVars, cleanupOthers>>

\* Ten seconds are over.
CleanupTimeout ==
  /\ cleanup = "waiting"
  /\ cleanup' = "looping"
  /\ UNCHANGED <<logVars, cleanupOthers>>

CleanupStep == Alive /\ (CleanupLoop \/ CleanupEnter \/ CleanupBlock \/ CleanupTimeout)

SweepStep(s) ==
  /\ Alive
  /\ \/ /\ sweep[s] \in {"queued", "looping"}
        /\ sweep' = [sweep EXCEPT ![s] = IF queue_running THEN "sleeping" ELSE "ended"]
        /\ IF queue_running THEN Remark ELSE UNCHANGED logVars
     \/ /\ sweep[s] = "sleeping"
        /\ sweep' = [sweep EXCEPT ![s] = "looping"]
        /\ UNCHANGED logVars
  /\ UNCHANGED <<main, shutdown, polling, mailVars, queue_running, fileVars>>

\* The thread of the logger; it may also wake up for no reason.
LogThread ==
  /\ LogStep
  /\ UNCHANGED <<main, shutdown, polling, mailVars, queue_running, sweep, fileVars>>

SpuriousWake ==
  /\ Alive
  /\ \/ LogSpurious /\ UNCHANGED <<request, cleanup>>
     \/ request = "waiting" /\ request' = "entering" /\ UNCHANGED <<logVars, cleanup>>
     \/ cleanup = "waiting" /\ cleanup' = "entering" /\ UNCHANGED <<logVars, request>>
  /\ UNCHANGED <<main, shutdown, polling, mail_running, queue_running, sweep, fileVars>>

----------------------------------------------------------------------------

DaemonNext ==
  \/ MainStep \/ Signal
  \/ \E r \in Requests : Send(r)
  \/ WatcherStep \/ RequestStep \/ CleanupStep
  \/ \E s \in Sweeps : SweepStep(s)
  \/ LogThread \/ SpuriousWake

\* Every thread is scheduled and gets the mutex it waits for; a timed wait and
\* a sleep come to their end.  Nobody has to send a request or a signal.
DaemonSpec ==
  /\ DaemonInit /\ [][DaemonNext]_daemonVars
  /\ SF_daemonVars(MainStep) /\ SF_daemonVars(WatcherStep)
  /\ SF_daemonVars(RequestStep) /\ SF_daemonVars(CleanupStep)
  /\ \A s \in Sweeps : WF_daemonVars(SweepStep(s))
  /\ WF_daemonVars(LogThread)

----------------------------------------------------------------------------
(* Properties.                                                             *)

\* When the daemon exits it leaves no thread behind, no request half handled,
\* and no message unwritten: Logger::stop is called with messages still queued,
\* and the threads are told to stop wherever they are.
ExitIsClean ==
  main = "exited" =>
    /\ request \in {"none", "ended"} /\ cleanup \in {"none", "ended"}
    /\ \A s \in Sweeps : sweep[s] \in {"none", "ended"}
    /\ busy = {} /\ log_thread = "none" /\ ~messages

\* How many steps at most a thread that was told to stop still takes, from where
\* it is: a request that is being handled is answered first.
RequestLeft(place, handling) ==
  (CASE place \in {"none", "ended"} -> 0
     [] place \in {"looping", "taking"} -> 1
     [] place \in {"queued", "sleeping", "entering"} -> 2
     [] place \in {"serving", "waiting"} -> 3
     [] OTHER -> 4)
  + IF handling = {} THEN 0 ELSE 1

CleanupLeft(place) ==
  CASE place \in {"none", "ended"} -> 0
    [] place \in {"queued", "looping"} -> 1
    [] place = "entering" -> 2
    [] place = "waiting" -> 3
    [] OTHER -> 4

SweepLeft(place) ==
  CASE place \in {"none", "ended"} -> 0
    [] place = "sleeping" -> 2
    [] OTHER -> 1

LogLeft(place, unwritten) ==
  CASE place \in {"none", "ended", "thrown"} -> 0
    [] place = "looping" -> IF unwritten THEN 3 ELSE 1
    [] place = "entering" -> 2
    [] place = "waiting" -> 3
    [] OTHER -> 4

Falls(Step, before, after) == after <= before /\ (Step => after < before)

\* A thread that was told to stop comes nearer to its end with every step of its
\* own, and nothing sends it back: no notification, spurious wake-up, late
\* client, timeout or message of another thread makes it begin anew.
StopDescends ==
  [][/\ ~mail_running /\ ~mail_running' =>
          /\ Falls(RequestStep, RequestLeft(request, busy), RequestLeft(request', busy'))
          /\ Falls(CleanupStep, CleanupLeft(cleanup), CleanupLeft(cleanup'))
     /\ ~queue_running /\ ~queue_running' =>
          \A s \in Sweeps : Falls(SweepStep(s), SweepLeft(sweep[s]), SweepLeft(sweep'[s]))
     /\ log_stop /\ log_stop' =>
          Falls(LogStep, LogLeft(log_thread, messages), LogLeft(log_thread', messages'))]_daemonVars

\* main joins threads that were told to stop and have a step to take: none that
\* was never begun, or is left in the queue of its pool.
JoinsBegun ==
  /\ main = "join_mail" =>
       ~mail_running /\ {request, cleanup} \cap {"none", "queued"} = {}
  /\ main = "join_queue" =>
       ~queue_running /\ \A s \in Sweeps : sweep[s] \notin {"none", "queued"}
  /\ main = "join_log" => log_stop /\ log_thread # "none"

\* In watcher mode no request that is there is forgotten while the daemon runs:
\* the watcher has still to report it, or it is on its way to the request worker,
\* also when it arrives while main starts the watcher and the worker lists.  An
\* unreadable request may end that worker, and then nobody knows.
RequestsKnown ==
  mail_running /\ ~polling /\ request \notin {"none", "queued", "ended"} =>
    files \subseteq reports \cup pending \cup batch

\* A request that is there is taken, or the daemon stops, or an unreadable request
\* has ended the request worker or, when it was logged, the process.  notify_one
\* may wake the clean-up worker alone, which goes back to sleep: what saves the
\* request is that the wait of the request worker ends after poll_interval_ms.
RequestServed ==
  \A r \in Requests : []<>(r \notin files \/ ~mail_running \/ request = "ended" \/ ~Alive)

\* "Press Ctrl+C to stop" (main.cpp:147): the daemon exits, unless the logger
\* hangs.  stop stores running_ and notifies without pending_mutex_, so a
\* worker may miss it between its condition and its sleep: then the timeout of
\* its wait, up to ten seconds, ends it, whatever MailboxHandler.cpp:473 says.
\* Logger::stop does the same to a wait without a timeout.
ShutdownEnds == []<>(~shutdown \/ main = "exited" \/ ~Alive) \/ <>[]LogHung
=============================================================================
