---------------------------- MODULE DaemonProofs ----------------------------
(***************************************************************************)
(* The daemon exits clean, for any requests and sweep threads, wherever    *)
(* its threads are when the signal comes; and the threads it waits for are *)
(* a bounded number of steps away from their ends.                         *)
(***************************************************************************)
EXTENDS DaemonThreads, TLAPS

\* Where main is before MailboxHandler and QueueManager have threads, after
\* those of MailboxHandler and after all of them have been joined.
BeforeMail == {"start_log", "start_backend", "start_queue", "start_mail"}
AfterMail == {"stop_queue", "clear_queue", "join_queue"}
AfterAll == {"stop_log", "notify_log", "join_log", "exited"}
BeforeQueue == {"start_log", "start_backend", "start_queue"}

Over(place) == place \in {"none", "ended"}

\* The inductive invariant: the threads of a part are over before main starts
\* it and once main has joined it, a request is handled by the worker only, and
\* the logger's thread ends when it was told to and has nothing left to write.
ExitInv ==
  /\ sweep \in [Sweeps -> {"none", "queued", "looping", "sleeping", "ended"}]
  /\ main \in BeforeMail \cup AfterMail \cup AfterAll => Over(request) /\ Over(cleanup)
  /\ main \in BeforeQueue \cup AfterAll => \A s \in Sweeps : Over(sweep[s])
  /\ busy # {} => request = "serving"
  /\ log_thread = "ended" => log_stop /\ ~messages
  /\ log_stop => main \in {"notify_log", "join_log"}
  /\ main = "exited" => log_thread = "none" /\ ~messages

LEMMA ExitStarts == DaemonInit => ExitInv
BY DEF DaemonInit, LogInit, ExitInv, Over, BeforeMail, AfterMail, AfterAll, BeforeQueue

\* What the logger may do while the daemon runs.
LogQuiet ==
  /\ log_thread' = "ended" => log_stop' /\ ~messages'
  /\ log_stop' = log_stop

LEMMA WriteQuiet == ExitInv /\ (LogPut \/ UNCHANGED logVars) => LogQuiet
BY DEF LogPut, LogAwake, logVars, ExitInv, LogQuiet

LEMMA ThreadQuiet == ExitInv /\ (LogStep \/ LogSpurious) => LogQuiet
BY DEF LogStep, LogLoop, LogEnter, LogBlock, LogSpurious, ExitInv, LogQuiet

\* main starts the parts and joins them.
LEMMA MainKeeps == ExitInv /\ MainStep => ExitInv'
<1> SUFFICES ASSUME ExitInv, MainStep PROVE ExitInv'
  OBVIOUS
<1> USE DEF Main, Over, BeforeMail, AfterMail, AfterAll, BeforeQueue
<1>1. CASE StartLog
  BY <1>1 DEF StartLog, LogStart, ExitInv, mailVars, fileVars
<1>2. CASE StartBackend
  <2>1. LogQuiet BY <1>2, WriteQuiet DEF StartBackend, LogWrite
  <2> QED BY <1>2, <2>1 DEF StartBackend, LogQuiet, ExitInv, mailVars, fileVars
<1>3. CASE StartQueue
  <2>1. LogQuiet BY <1>3, WriteQuiet DEF StartQueue, LogWrite
  <2> QED BY <1>3, <2>1 DEF StartQueue, LogQuiet, ExitInv, mailVars, fileVars
<1>4. CASE StartMail
  <2>1. LogQuiet BY <1>4, WriteQuiet DEF StartMail, LogWrite
  <2> QED BY <1>4, <2>1 DEF StartMail, LogQuiet, ExitInv, fileVars
<1>5. CASE StartMailFails
  <2>1. LogQuiet BY <1>5, WriteQuiet DEF StartMailFails, LogWrite
  <2> QED BY <1>5, <2>1 DEF StartMailFails, LogQuiet, ExitInv, mailVars, fileVars
<1>6. CASE StopMail
  BY <1>6 DEF StopMail, ExitInv, logVars, fileVars
<1>7. CASE NotifyMail
  BY <1>7 DEF NotifyMail, Notified, ExitInv, logVars, fileVars
<1>8. CASE StopWatcher
  BY <1>8 DEF StopWatcher, ExitInv, logVars, mailVars
<1>9. CASE ClearMail
  BY <1>9 DEF ClearMail, Dropped, ExitInv, logVars, fileVars
<1>10. CASE JoinMail
  <2>1. LogQuiet BY <1>10, WriteQuiet DEF JoinMail, LogWrite
  <2> QED BY <1>10, <2>1 DEF JoinMail, LogQuiet, ExitInv, mailVars, fileVars
<1>11. CASE StopQueue
  BY <1>11 DEF StopQueue, ExitInv, logVars, mailVars, fileVars
<1>12. CASE ClearQueue
  BY <1>12 DEF ClearQueue, Dropped, ExitInv, logVars, mailVars, fileVars
<1>13. CASE JoinQueue
  <2>1. LogQuiet BY <1>13, WriteQuiet DEF JoinQueue, LogWrite
  <2> QED BY <1>13, <2>1 DEF JoinQueue, LogQuiet, ExitInv, mailVars, fileVars
<1>14. CASE StopLog
  BY <1>14 DEF StopLog, LogStopStore, LogStopNotify, LogStopJoin, LogAwake, ExitInv,
     mailVars, fileVars
<1> QED BY <1>1, <1>2, <1>3, <1>4, <1>5, <1>6, <1>7, <1>8, <1>9, <1>10, <1>11, <1>12, <1>13, <1>14
        DEF MainStep

\* Once main has joined it, a worker takes no step: none is over and goes on.
LEMMA WorkersKeep ==
  ExitInv /\ (WatcherStep \/ RequestStep \/ CleanupStep \/ LogThread \/ SpuriousWake) => ExitInv'
<1> SUFFICES ASSUME ExitInv,
                    WatcherStep \/ RequestStep \/ CleanupStep \/ LogThread \/ SpuriousWake
             PROVE  ExitInv'
  OBVIOUS
<1> USE DEF Over, BeforeMail, AfterMail, AfterAll, BeforeQueue
<1>1. CASE WatcherStep
  <2>1. CASE NotifyOne BY <2>1 DEF NotifyOne, ExitInv, logVars
  <2>2. ASSUME NEW r \in Requests, FileChanged(r) PROVE ExitInv'
    BY <2>2 DEF FileChanged, ExitInv, logVars, mailVars
  <2> QED BY <1>1, <2>1, <2>2 DEF WatcherStep
<1>2. CASE RequestStep
  <2>1. CASE RequestAnswer
    <3>1. LogQuiet BY <2>1, WriteQuiet DEF RequestAnswer, Remark, LogWrite
    <3>2. main \notin AfterAll BY <2>1 DEF RequestAnswer, ExitInv
    <3> QED BY <2>1, <3>1, <3>2 DEF RequestAnswer, LogQuiet, ExitInv, requestOthers
  <2>2. CASE RequestServe
    BY <2>2 DEF RequestServe, ExitInv, logVars, requestOthers
  <2>3. CASE ListExisting \/ RequestLoop \/ RequestTake
    BY <2>3 DEF ListExisting, RequestLoop, RequestTake, ExitInv, logVars, requestOthers
  <2>4. CASE RequestEnter \/ RequestBlock \/ RequestTimeout \/ RequestSleeps
    BY <2>4 DEF RequestEnter, RequestBlock, RequestTimeout, RequestSleeps, ExitInv, logVars,
       requestOthers, fileVars
  <2>5. CASE RequestThrows
    <3>1. LogQuiet BY <2>5, WriteQuiet DEF RequestThrows, LogWriteSpoiled
    <3>2. main \notin AfterAll BY <2>5 DEF RequestThrows, ExitInv
    <3> QED BY <2>5, <3>1, <3>2 DEF RequestThrows, LogQuiet, ExitInv, requestOthers
  <2> QED BY <1>2, <2>1, <2>2, <2>3, <2>4, <2>5 DEF RequestStep
<1>3. CASE CleanupStep
  BY <1>3 DEF CleanupStep, CleanupLoop, CleanupEnter, CleanupBlock, CleanupTimeout, ExitInv,
     logVars, cleanupOthers, fileVars
<1>4. CASE LogThread
  <2>1. LogQuiet BY <1>4, ThreadQuiet DEF LogThread
  <2>2. main # "exited"
    BY <1>4 DEF LogThread, LogStep, LogLoop, LogEnter, LogBlock, ExitInv
  <2> QED BY <1>4, <2>1, <2>2 DEF LogThread, LogQuiet, ExitInv, mailVars, fileVars
<1>5. CASE SpuriousWake
  <2>1. CASE LogSpurious /\ UNCHANGED <<request, cleanup>>
    <3>1. LogQuiet BY <2>1, ThreadQuiet
    <3>2. main # "exited" BY <2>1 DEF LogSpurious, ExitInv
    <3> QED BY <1>5, <2>1, <3>1, <3>2 DEF SpuriousWake, LogQuiet, ExitInv, fileVars
  <2>2. CASE UNCHANGED logVars
    BY <1>5, <2>2 DEF SpuriousWake, LogSpurious, ExitInv, logVars, fileVars
  <2> QED BY <1>5, <2>1, <2>2 DEF SpuriousWake
<1> QED BY <1>1, <1>2, <1>3, <1>4, <1>5

LEMMA SweepKeeps == ASSUME ExitInv, NEW s \in Sweeps, SweepStep(s) PROVE ExitInv'
<1>1. main \notin BeforeQueue \cup AfterAll BY DEF SweepStep, ExitInv, Over
<1>2. LogQuiet BY WriteQuiet DEF SweepStep, Remark, LogWrite
<1>3. sweep' \in [Sweeps -> {"none", "queued", "looping", "sleeping", "ended"}]
  BY DEF SweepStep, ExitInv
<1> QED BY <1>1, <1>2, <1>3 DEF SweepStep, LogQuiet, ExitInv, Over, AfterAll, mailVars, fileVars

LEMMA ExitKeeps == ExitInv /\ [DaemonNext]_daemonVars => ExitInv'
<1> SUFFICES ASSUME ExitInv, [DaemonNext]_daemonVars PROVE ExitInv'
  OBVIOUS
<1>1. CASE Signal BY <1>1 DEF Signal, ExitInv, Over, logVars, mailVars, fileVars
<1>2. ASSUME NEW r \in Requests, Send(r) PROVE ExitInv'
  BY <1>2 DEF Send, ExitInv, Over, logVars, mailVars
<1>3. CASE UNCHANGED daemonVars
  BY <1>3 DEF daemonVars, ExitInv, Over, logVars, mailVars, fileVars
<1> QED BY <1>1, <1>2, <1>3, MainKeeps, WorkersKeep, SweepKeeps DEF DaemonNext

\* When main returns, no thread of the daemon is left, no request is half
\* handled and no message is unwritten, whatever each thread was at when
\* MailboxHandler::stop, QueueManager::stop and Logger::stop were called.
THEOREM ExitAlwaysClean == DaemonSpec => []ExitIsClean
<1>1. ExitInv => ExitIsClean
  BY DEF ExitInv, ExitIsClean, Over, AfterAll
<1> QED BY <1>1, ExitStarts, ExitKeeps, PTL DEF DaemonSpec

----------------------------------------------------------------------------
(* Stopping.                                                               *)

\* A request worker that has to stop: each step leads on, or answers a request.
LEMMA RequestFalls ==
  ASSUME ~mail_running, RequestStep
  PROVE  RequestLeft(request', busy') < RequestLeft(request, busy)
<1>1. CASE RequestAnswer
  BY <1>1 DEF RequestAnswer, requestOthers, RequestLeft
<1>2. CASE RequestServe
  BY <1>2 DEF RequestServe, requestOthers, RequestLeft
<1>3. CASE ListExisting \/ RequestLoop \/ RequestTake
  BY <1>3 DEF ListExisting, RequestLoop, RequestTake, RequestLeft
<1>4. CASE RequestEnter \/ RequestBlock \/ RequestTimeout \/ RequestSleeps
  BY <1>4 DEF RequestEnter, RequestBlock, RequestTimeout, RequestSleeps, fileVars, RequestLeft
<1>5. CASE RequestThrows
  BY <1>5 DEF RequestThrows, requestOthers, RequestLeft
<1> QED
  BY <1>1, <1>2, <1>3, <1>4, <1>5 DEF RequestStep

LEMMA CleanupFalls ==
  ASSUME ~mail_running, CleanupStep
  PROVE  CleanupLeft(cleanup') < CleanupLeft(cleanup)
BY DEF CleanupStep, CleanupLoop, CleanupEnter, CleanupBlock, CleanupTimeout, CleanupLeft

LEMMA LogFalls ==
  ASSUME log_stop, LogStep
  PROVE  LogLeft(log_thread', messages') < LogLeft(log_thread, messages)
<1>1. CASE LogLoop
  <2>1. CASE messages
    <3>1. log_thread = "looping" /\ log_thread' = "entering" /\ messages'
      BY <1>1, <2>1 DEF LogLoop
    <3> QED
      BY <2>1, <3>1 DEF LogLeft
  <2>2. CASE ~messages
    <3>1. log_thread = "looping" /\ log_thread' = "ended" /\ ~messages'
      BY <1>1, <2>2 DEF LogLoop
    <3> QED
      BY <2>2, <3>1 DEF LogLeft
  <2> QED
    BY <2>1, <2>2
<1>2. CASE LogEnter
  <2>1. log_thread = "entering" /\ log_thread' \in {"looping", "thrown"} /\ messages' = FALSE
    BY <1>2 DEF LogEnter
  <2> QED
    BY <2>1 DEF LogLeft
<1>3. CASE LogBlock
  BY <1>3 DEF LogBlock, LogLeft
<1> QED
  BY <1>1, <1>2, <1>3 DEF LogStep

LEMMA SweepFalls ==
  ASSUME ExitInv, NEW s \in Sweeps, ~queue_running, SweepStep(s)
  PROVE  SweepLeft(sweep'[s]) < SweepLeft(sweep[s])
BY DEF SweepStep, SweepLeft, ExitInv

\* The logger is sent back neither by what others write nor by a wake-up.
LEMMA LogLast ==
  ASSUME ExitInv, [DaemonNext]_daemonVars, log_stop, log_stop'
  PROVE  LogLeft(log_thread', messages') <= LogLeft(log_thread, messages)
<1>1. CASE LogPut \/ UNCHANGED logVars
  BY <1>1 DEF LogPut, logVars, LogLeft
<1>2. CASE LogStep
  BY <1>2 DEF LogStep, LogLoop, LogEnter, LogBlock, LogLeft
<1>3. CASE LogSpurious
  BY <1>3 DEF LogSpurious, LogLeft
<1>4. CASE LogStopNotify
  BY <1>4 DEF LogStopNotify, LogAwake, LogLeft
<1>5. CASE LogStopStore
  BY <1>5 DEF LogStopStore, LogLeft
<1>6. ~LogStart /\ ~LogStopJoin
  BY DEF LogStart, LogStopJoin
<1>7. ASSUME MainStep
      PROVE  LogPut \/ LogStart \/ LogStopStore \/ LogStopNotify \/ LogStopJoin \/ UNCHANGED logVars
  BY <1>7 DEF MainStep, StartLog, StartBackend, StartQueue, StartMail, StartMailFails, StopMail,
     NotifyMail, StopWatcher, ClearMail, JoinMail, StopQueue, ClearQueue, JoinQueue, StopLog, LogWrite
<1>8. ASSUME RequestStep PROVE LogPut \/ UNCHANGED logVars
  BY <1>8 DEF RequestStep, ListExisting, RequestLoop, RequestEnter, RequestBlock, RequestTimeout,
     RequestTake, RequestServe, RequestAnswer, RequestThrows, RequestSleeps, Remark,
       LogWrite, LogWriteSpoiled
<1>9. ASSUME CleanupStep PROVE UNCHANGED logVars
  BY <1>9 DEF CleanupStep, CleanupLoop, CleanupEnter, CleanupBlock, CleanupTimeout
<1>10. ASSUME NEW s \in Sweeps, SweepStep(s) PROVE LogPut \/ UNCHANGED logVars
  BY <1>10 DEF SweepStep, Remark, LogWrite
<1>11. ASSUME WatcherStep \/ Signal \/ \E r \in Requests : Send(r) PROVE UNCHANGED logVars
  BY <1>11 DEF WatcherStep, NotifyOne, FileChanged, Signal, Send
<1>12. ASSUME LogThread PROVE LogStep
  BY <1>12 DEF LogThread
<1>13. ASSUME SpuriousWake PROVE LogSpurious \/ UNCHANGED logVars
  BY <1>13 DEF SpuriousWake
<1>14. ASSUME UNCHANGED daemonVars PROVE UNCHANGED logVars
  BY <1>14 DEF daemonVars
<1> QED
  BY <1>1, <1>2, <1>3, <1>4, <1>5, <1>6, <1>7, <1>8, <1>9, <1>10, <1>11, <1>12, <1>13, <1>14
     DEF DaemonNext

\* No step of another thread sends a worker that has to stop back.
LEMMA WorkersLast ==
  ASSUME ExitInv, [DaemonNext]_daemonVars, ~mail_running, ~mail_running'
  PROVE  /\ RequestLeft(request', busy') <= RequestLeft(request, busy)
         /\ CleanupLeft(cleanup') <= CleanupLeft(cleanup)
<1> DEFINE Last == /\ RequestLeft(request', busy') <= RequestLeft(request, busy)
                   /\ CleanupLeft(cleanup') <= CleanupLeft(cleanup)
<1>0. /\ RequestLeft(request, busy) \in Nat /\ RequestLeft(request', busy') \in Nat
      /\ CleanupLeft(cleanup) \in Nat /\ CleanupLeft(cleanup') \in Nat
  BY DEF RequestLeft, CleanupLeft
<1>1. ASSUME request' \in {request, Notified(request), Dropped(request)},
             cleanup' \in {cleanup, Notified(cleanup), Dropped(cleanup)}, busy' = busy
      PROVE  Last
  <2>1. RequestLeft(request', busy') <= RequestLeft(request, busy)
    BY <1>1 DEF Notified, Dropped, RequestLeft
  <2>2. CleanupLeft(cleanup') <= CleanupLeft(cleanup)
    BY <1>1 DEF Notified, Dropped, CleanupLeft
  <2> QED
    BY <2>1, <2>2
<1>2. CASE MainStep
  <2>1. CASE StartMail
    BY <2>1 DEF StartMail
  <2>2. CASE \/ StartLog \/ StartBackend \/ StartQueue \/ StartMailFails \/ StopMail \/ StopWatcher
             \/ JoinMail \/ StopQueue \/ ClearQueue \/ JoinQueue \/ StopLog
    BY <1>1, <2>2 DEF StartLog, StartBackend, StartQueue, StartMailFails, StopMail, StopWatcher,
       JoinMail, StopQueue, ClearQueue, JoinQueue, StopLog, mailVars, fileVars
  <2>3. CASE NotifyMail \/ ClearMail
    BY <1>1, <2>3 DEF NotifyMail, ClearMail, fileVars
  <2> QED
    BY <1>2, <2>1, <2>2, <2>3 DEF MainStep
<1>3. CASE RequestStep
  <2>1. RequestLeft(request', busy') < RequestLeft(request, busy)
    BY <1>3, RequestFalls
  <2>2. cleanup' = cleanup
    BY <1>3 DEF RequestStep, ListExisting, RequestLoop, RequestEnter, RequestBlock, RequestTimeout,
       RequestTake, RequestServe, RequestAnswer, RequestThrows, RequestSleeps, requestOthers
  <2> QED
    BY <1>0, <2>1, <2>2
<1>4. CASE CleanupStep
  <2>1. CleanupLeft(cleanup') < CleanupLeft(cleanup)
    BY <1>4, CleanupFalls
  <2>2. request' = request /\ busy' = busy
    BY <1>4 DEF CleanupStep, CleanupLoop, CleanupEnter, CleanupBlock, CleanupTimeout,
       cleanupOthers, fileVars
  <2> QED
    BY <1>0, <2>1, <2>2
<1>5. ASSUME NEW s \in Sweeps, SweepStep(s) PROVE Last
  BY <1>1, <1>5 DEF SweepStep, mailVars, fileVars
<1>6. CASE WatcherStep
  BY <1>1, <1>6 DEF WatcherStep, NotifyOne, FileChanged, Notified, mailVars
<1>7. CASE SpuriousWake
  BY <1>1, <1>7 DEF SpuriousWake, Notified, fileVars
<1>8. CASE Signal \/ LogThread \/ \E r \in Requests : Send(r)
  BY <1>1, <1>8 DEF Signal, LogThread, Send, mailVars, fileVars
<1>9. CASE UNCHANGED daemonVars
  BY <1>1, <1>9 DEF daemonVars, mailVars, fileVars
<1> QED
  BY <1>2, <1>3, <1>4, <1>5, <1>6, <1>7, <1>8, <1>9 DEF DaemonNext

LEMMA SweepsLast ==
  ASSUME ExitInv, [DaemonNext]_daemonVars, ~queue_running, ~queue_running', NEW s \in Sweeps
  PROVE  SweepLeft(sweep'[s]) <= SweepLeft(sweep[s])
<1>0. SweepLeft(sweep[s]) \in Nat /\ SweepLeft(sweep'[s]) \in Nat
  BY DEF SweepLeft
<1>1. ASSUME sweep' = sweep PROVE SweepLeft(sweep'[s]) <= SweepLeft(sweep[s])
  BY <1>0, <1>1
<1>2. CASE ClearQueue
  BY <1>2 DEF ClearQueue, Dropped, SweepLeft, ExitInv
<1>3. CASE StartQueue
  BY <1>3 DEF StartQueue
<1>4. ASSUME NEW t \in Sweeps, SweepStep(t) PROVE SweepLeft(sweep'[s]) <= SweepLeft(sweep[s])
  <2>1. CASE t = s
    BY <1>0, <1>4, <2>1, SweepFalls
  <2>2. CASE t # s
    BY <1>0, <1>4, <2>2 DEF SweepStep, ExitInv
  <2> QED
    BY <2>1, <2>2
<1>5. ASSUME MainStep PROVE ClearQueue \/ StartQueue \/ sweep' = sweep
  BY <1>5 DEF MainStep, StartLog, StartBackend, StartMail, StartMailFails, StopMail, NotifyMail,
     StopWatcher, ClearMail, JoinMail, StopQueue, JoinQueue, StopLog
<1>6. ASSUME RequestStep \/ CleanupStep PROVE sweep' = sweep
  BY <1>6 DEF RequestStep, ListExisting, RequestLoop, RequestEnter, RequestBlock, RequestTimeout,
     RequestTake, RequestServe, RequestAnswer, RequestThrows, RequestSleeps, requestOthers,
     CleanupStep, CleanupLoop, CleanupEnter, CleanupBlock, CleanupTimeout, cleanupOthers
<1>7. ASSUME \/ WatcherStep \/ Signal \/ LogThread \/ SpuriousWake \/ UNCHANGED daemonVars
             \/ \E r \in Requests : Send(r)
      PROVE  sweep' = sweep
  BY <1>7 DEF WatcherStep, NotifyOne, FileChanged, Signal, LogThread, SpuriousWake, Send, daemonVars
<1> QED
  BY <1>1, <1>2, <1>3, <1>4, <1>5, <1>6, <1>7 DEF DaemonNext

\* Once it was told to stop, a thread of the daemon has at most five steps left,
\* whatever the others do meanwhile: what its end still needs is that it is
\* scheduled and that its waits end.
THEOREM StopAlwaysDescends == DaemonSpec => StopDescends
<1>1. ExitInv /\ [DaemonNext]_daemonVars =>
        [/\ ~mail_running /\ ~mail_running' =>
              /\ Falls(RequestStep, RequestLeft(request, busy), RequestLeft(request', busy'))
              /\ Falls(CleanupStep, CleanupLeft(cleanup), CleanupLeft(cleanup'))
         /\ ~queue_running /\ ~queue_running' =>
              \A s \in Sweeps : Falls(SweepStep(s), SweepLeft(sweep[s]), SweepLeft(sweep'[s]))
         /\ log_stop /\ log_stop' =>
              Falls(LogStep, LogLeft(log_thread, messages), LogLeft(log_thread', messages'))]_daemonVars
  BY WorkersLast, SweepsLast, LogLast, RequestFalls, CleanupFalls, SweepFalls, LogFalls DEF Falls
<1> QED
  BY <1>1, ExitStarts, ExitKeeps, PTL DEF DaemonSpec, StopDescends

----------------------------------------------------------------------------
(* What main waits for.                                                    *)

\* Where main is while MailboxHandler, then QueueManager, has its threads.
WithMail == {"waiting", "notify_mail", "stop_watcher", "clear_mail", "join_mail"}
WithQueue == {"start_mail"} \cup WithMail \cup AfterMail

\* The inductive invariant of the joins: a thread that was started stays begun
\* until it is joined, and is told to stop before its pool drops its jobs.
BegunInv ==
  /\ main \in WithMail => request # "none" /\ cleanup # "none"
  /\ main \in WithMail \ {"waiting"} => ~mail_running
  /\ main = "join_mail" => request # "queued" /\ cleanup # "queued"
  /\ main \in WithQueue => \A s \in Sweeps : sweep[s] # "none"
  /\ main \in {"clear_queue", "join_queue"} => ~queue_running
  /\ main = "join_queue" => \A s \in Sweeps : sweep[s] # "queued"
  /\ main \notin {"start_log", "exited"} => log_thread # "none"
  /\ main \in {"notify_log", "join_log"} => log_stop

LEMMA BegunStarts == DaemonInit => BegunInv
BY DEF DaemonInit, LogInit, BegunInv, WithMail, WithQueue, AfterMail

\* Only start and stop, which main calls, make or take away the logger's thread.
LogStays == (log_thread # "none" => log_thread' # "none") /\ log_stop' = log_stop

LEMMA LogKept == LogPut \/ LogStep \/ LogSpurious \/ UNCHANGED logVars => LogStays
BY DEF LogPut, LogStep, LogLoop, LogEnter, LogBlock, LogSpurious, LogAwake, logVars, LogStays

LEMMA MainBegins == ExitInv /\ BegunInv /\ MainStep => BegunInv'
<1> SUFFICES ASSUME ExitInv, BegunInv, MainStep PROVE BegunInv'
  OBVIOUS
<1> USE DEF Main, WithMail, WithQueue, AfterMail
<1>1. CASE StartLog
  BY <1>1 DEF StartLog, LogStart, BegunInv, mailVars
<1>2. CASE StartBackend
  <2>1. LogStays
    BY <1>2, LogKept DEF StartBackend, LogWrite
  <2> QED
    BY <1>2, <2>1 DEF StartBackend, LogStays, BegunInv, mailVars
<1>3. CASE StartQueue
  <2>1. LogStays
    BY <1>3, LogKept DEF StartQueue, LogWrite
  <2>2. \A s \in Sweeps : sweep'[s] = "queued"
    BY <1>3 DEF StartQueue
  <2> QED
    BY <1>3, <2>1, <2>2 DEF StartQueue, LogStays, BegunInv, mailVars
<1>4. CASE StartMail \/ StartMailFails \/ JoinMail
  <2>1. LogStays
    BY <1>4, LogKept DEF StartMail, StartMailFails, JoinMail, LogWrite
  <2> QED
    BY <1>4, <2>1 DEF StartMail, StartMailFails, JoinMail, LogStays, BegunInv, mailVars
<1>5. CASE StopMail \/ StopWatcher \/ StopQueue
  BY <1>5 DEF StopMail, StopWatcher, StopQueue, BegunInv, logVars, mailVars
<1>6. CASE NotifyMail \/ ClearMail
  BY <1>6 DEF NotifyMail, ClearMail, Notified, Dropped, BegunInv, logVars
<1>7. CASE ClearQueue
  <2>1. \A s \in Sweeps : sweep'[s] \notin {"none", "queued"}
    BY <1>7 DEF ClearQueue, Dropped, BegunInv
  <2> QED
    BY <1>7, <2>1 DEF ClearQueue, BegunInv, logVars, mailVars
<1>8. CASE JoinQueue
  <2>1. LogStays
    BY <1>8, LogKept DEF JoinQueue, LogWrite
  <2> QED
    BY <1>8, <2>1 DEF JoinQueue, LogStays, BegunInv, mailVars
<1>9. CASE StopLog
  BY <1>9 DEF StopLog, LogStopStore, LogStopNotify, LogStopJoin, LogAwake, BegunInv, mailVars
<1> QED
  BY <1>1, <1>2, <1>3, <1>4, <1>5, <1>6, <1>7, <1>8, <1>9 DEF MainStep

\* No worker goes back to the queue of its pool.
LEMMA OthersBegin ==
  ASSUME BegunInv,
         WatcherStep \/ RequestStep \/ CleanupStep \/ LogThread \/ SpuriousWake
  PROVE  BegunInv'
<1> USE DEF WithMail, WithQueue, AfterMail
<1>1. CASE WatcherStep
  BY <1>1 DEF WatcherStep, NotifyOne, FileChanged, BegunInv, logVars, mailVars
<1>2. CASE RequestStep
  <2>1. LogStays
    BY <1>2, LogKept DEF RequestStep, ListExisting, RequestLoop, RequestEnter, RequestBlock,
       RequestTimeout, RequestTake, RequestServe, RequestAnswer, RequestThrows, RequestSleeps, Remark,
       LogWrite, LogWriteSpoiled
  <2>2. request' \notin {"none", "queued"} \/ request' = request
    BY <1>2 DEF RequestStep, ListExisting, RequestLoop, RequestEnter, RequestBlock,
       RequestTimeout, RequestTake, RequestServe, RequestAnswer, RequestThrows, RequestSleeps
  <2>3. UNCHANGED requestOthers
    BY <1>2 DEF RequestStep, ListExisting, RequestLoop, RequestEnter, RequestBlock,
       RequestTimeout, RequestTake, RequestServe, RequestAnswer, RequestThrows, RequestSleeps
  <2> QED
    BY <2>1, <2>2, <2>3 DEF LogStays, requestOthers, BegunInv
<1>3. CASE CleanupStep
  BY <1>3 DEF CleanupStep, CleanupLoop, CleanupEnter, CleanupBlock, CleanupTimeout,
     cleanupOthers, logVars, BegunInv
<1>4. CASE LogThread
  <2>1. LogStays
    BY <1>4, LogKept DEF LogThread
  <2> QED
    BY <1>4, <2>1 DEF LogThread, LogStays, BegunInv, mailVars
<1>5. CASE SpuriousWake
  <2>1. LogStays
    BY <1>5, LogKept DEF SpuriousWake
  <2> QED
    BY <1>5, <2>1 DEF SpuriousWake, LogStays, BegunInv
<1> QED
  BY <1>1, <1>2, <1>3, <1>4, <1>5

LEMMA SweepBegins == ASSUME ExitInv, BegunInv, NEW s \in Sweeps, SweepStep(s) PROVE BegunInv'
<1>1. LogStays
  BY LogKept DEF SweepStep, Remark, LogWrite
<1>2. \A t \in Sweeps : sweep'[t] \notin {"none", "queued"} \/ sweep'[t] = sweep[t]
  BY DEF SweepStep, ExitInv
<1> QED
  BY <1>1, <1>2 DEF SweepStep, LogStays, BegunInv, mailVars

LEMMA BegunKeeps == ExitInv /\ BegunInv /\ [DaemonNext]_daemonVars => BegunInv'
<1> SUFFICES ASSUME ExitInv, BegunInv, [DaemonNext]_daemonVars PROVE BegunInv'
  OBVIOUS
<1>1. CASE Signal \/ \E r \in Requests : Send(r)
  BY <1>1 DEF Signal, Send, BegunInv, logVars, mailVars
<1>2. CASE UNCHANGED daemonVars
  BY <1>2 DEF daemonVars, BegunInv, logVars, mailVars
<1> QED
  BY <1>1, <1>2, MainBegins, OthersBegin, SweepBegins DEF DaemonNext

\* main never joins a thread that was not begun or not told to stop, nor one
\* whose job is still in the queue of a pool: together with StopAlwaysDescends,
\* each join is a bounded number of steps of the joined thread away.
THEOREM JoinsAlwaysBegun == DaemonSpec => []JoinsBegun
<1>1. BegunInv => JoinsBegun
  BY DEF BegunInv, JoinsBegun, WithMail, WithQueue, AfterMail
<1> QED
  BY <1>1, ExitStarts, ExitKeeps, BegunStarts, BegunKeeps, PTL DEF DaemonSpec

----------------------------------------------------------------------------
(* What the request worker will find.                                      *)

KnownInv ==
  /\ mail_running => main = "waiting"
  /\ batch # {} => request = "serving"
  /\ RequestsKnown

LEMMA KnownStarts == DaemonInit => KnownInv
BY DEF DaemonInit, KnownInv, RequestsKnown

LEMMA MainKnows == ExitInv /\ KnownInv /\ MainStep => KnownInv'
<1> SUFFICES ASSUME ExitInv, KnownInv, MainStep PROVE KnownInv'
  OBVIOUS
<1> USE DEF Main, KnownInv, RequestsKnown
<1>1. CASE StartMail
  BY <1>1 DEF StartMail, ExitInv, Over, BeforeMail, fileVars
<1>2. CASE StopMail
  BY <1>2 DEF StopMail, fileVars
<1>3. CASE NotifyMail \/ ClearMail
  BY <1>3 DEF NotifyMail, ClearMail, Notified, Dropped, fileVars
<1>4. CASE StopWatcher
  BY <1>4 DEF StopWatcher, mailVars
<1>5. CASE StartLog \/ StartBackend \/ StartQueue \/ StartMailFails \/ JoinMail
  BY <1>5 DEF StartLog, StartBackend, StartQueue, StartMailFails, JoinMail, mailVars, fileVars
<1>6. CASE StopQueue \/ ClearQueue \/ JoinQueue \/ StopLog
  BY <1>6 DEF StopQueue, ClearQueue, JoinQueue, StopLog, mailVars, fileVars
<1> QED
  BY <1>1, <1>2, <1>3, <1>4, <1>5, <1>6 DEF MainStep

LEMMA RequestKnows == ExitInv /\ KnownInv /\ RequestStep => KnownInv'
<1> SUFFICES ASSUME ExitInv, KnownInv, RequestStep PROVE KnownInv'
  OBVIOUS
<1> USE DEF KnownInv, RequestsKnown, requestOthers
<1>1. CASE ListExisting
  BY <1>1 DEF ListExisting
<1>2. CASE RequestLoop
  BY <1>2 DEF RequestLoop
<1>3. CASE RequestEnter \/ RequestBlock \/ RequestTimeout \/ RequestSleeps
  BY <1>3 DEF RequestEnter, RequestBlock, RequestTimeout, RequestSleeps, fileVars
<1>4. CASE RequestTake
  BY <1>4 DEF RequestTake
<1>5. CASE RequestServe
  BY <1>5 DEF RequestServe
<1>6. CASE RequestAnswer
  BY <1>6 DEF RequestAnswer
<1>7. CASE RequestThrows
  BY <1>7 DEF RequestThrows
<1> QED
  BY <1>1, <1>2, <1>3, <1>4, <1>5, <1>6, <1>7 DEF RequestStep

LEMMA KnownKeeps == ExitInv /\ KnownInv /\ [DaemonNext]_daemonVars => KnownInv'
<1> SUFFICES ASSUME ExitInv, KnownInv, [DaemonNext]_daemonVars PROVE KnownInv'
  OBVIOUS
<1> USE DEF KnownInv, RequestsKnown
<1>1. ASSUME NEW r \in Requests, Send(r) PROVE KnownInv'
  BY <1>1 DEF Send, Watching, mailVars
<1>2. ASSUME NEW r \in Requests, FileChanged(r) PROVE KnownInv'
  BY <1>2 DEF FileChanged, mailVars
<1>3. CASE NotifyOne
  BY <1>3 DEF NotifyOne
<1>4. CASE CleanupStep
  BY <1>4 DEF CleanupStep, CleanupLoop, CleanupEnter, CleanupBlock, CleanupTimeout,
     cleanupOthers, fileVars
<1>5. ASSUME NEW s \in Sweeps, SweepStep(s) PROVE KnownInv'
  BY <1>5 DEF SweepStep, mailVars, fileVars
<1>6. CASE Signal \/ LogThread
  BY <1>6 DEF Signal, LogThread, mailVars, fileVars
<1>7. CASE SpuriousWake
  BY <1>7 DEF SpuriousWake, fileVars
<1>8. CASE UNCHANGED daemonVars
  BY <1>8 DEF daemonVars, mailVars, fileVars
<1> QED
  BY <1>1, <1>2, <1>3, <1>4, <1>5, <1>6, <1>7, <1>8, MainKnows, RequestKnows
     DEF DaemonNext, WatcherStep

\* A request of a client is never forgotten while the daemon runs in watcher mode,
\* although it may come while the watcher and the worker start, be named by both,
\* and its notification may wake the clean-up worker: what RequestServed still
\* needs is that the watcher reports and the worker's wait ends.
THEOREM RequestsAlwaysKnown == DaemonSpec => []RequestsKnown
<1>1. KnownInv => RequestsKnown
  BY DEF KnownInv
<1> QED
  BY <1>1, ExitStarts, ExitKeeps, KnownStarts, KnownKeeps, PTL DEF DaemonSpec
=============================================================================
