------------------------------- MODULE Logger -------------------------------
(***************************************************************************)
(* The logger of CommonLibrary: threads put messages in messages_, its own *)
(* thread writes them.  That thread holds mutex_ while it tests the        *)
(* condition of its wait and until it blocks, when "deciding"; write takes *)
(* mutex_, stop does not.  Nothing sets write_interval_, so the wait has   *)
(* no timeout.  The loop looks at messages_ without mutex_, but only once  *)
(* thread_stop_ is set, when no other thread of the daemon is left.  A     *)
(* message that is not UTF-8 cannot be written: its dump throws, nobody    *)
(* catches that, and the process is gone, here with log_thread "thrown".   *)
(***************************************************************************)
VARIABLES
  log_thread,  \* thread_: where it is in run
  log_stop,    \* thread_stop_
  messages,    \* whether there are messages_
  spoiled      \* whether one of them cannot be written

logVars == <<log_thread, log_stop, messages, spoiled>>

LogInit == log_thread = "none" /\ log_stop = FALSE /\ messages = FALSE /\ spoiled = FALSE

\* notify_one: the thread, if it is blocked, goes to test its condition again.
LogAwake == IF log_thread = "waiting" THEN "entering" ELSE log_thread

\* A message of a type that is not shown is kept, and nobody is told.
LogPut ==
  /\ log_thread # "deciding"
  /\ \/ /\ log_stop
        /\ UNCHANGED <<log_thread, messages>>
     \/ /\ ~log_stop
        /\ messages' = TRUE
        /\ log_thread' \in {log_thread, LogAwake}
  /\ UNCHANGED log_stop

\* write.
LogWrite == LogPut /\ UNCHANGED spoiled

LogWriteSpoiled == LogPut /\ spoiled' = (spoiled \/ ~log_stop)

----------------------------------------------------------------------------
(* run.                                                                    *)

\* A wrong variant of LogLoop: messages that are left are not written.
LogLoopHasty ==
  /\ log_thread = "looping"
  /\ log_thread' = IF log_stop THEN "ended" ELSE "entering"
  /\ UNCHANGED <<log_stop, messages, spoiled>>

LogLoop ==
  /\ log_thread = "looping"
  /\ log_thread' = IF log_stop /\ ~messages THEN "ended" ELSE "entering"
  /\ UNCHANGED <<log_stop, messages, spoiled>>

\* The condition, under mutex_; when it holds messages_ are taken and, without
\* mutex_, written.
LogEnter ==
  /\ log_thread = "entering"
  /\ \/ spoiled /\ log_thread' = "thrown"
     \/ ~spoiled /\ log_thread' = IF messages \/ log_stop THEN "looping" ELSE "deciding"
  /\ messages' = FALSE /\ spoiled' = FALSE
  /\ UNCHANGED log_stop

LogBlock ==
  /\ log_thread = "deciding" /\ log_thread' = "waiting"
  /\ UNCHANGED <<log_stop, messages, spoiled>>

LogStep == LogLoop \/ LogEnter \/ LogBlock

LogSpurious ==
  /\ log_thread = "waiting" /\ log_thread' = "entering"
  /\ UNCHANGED <<log_stop, messages, spoiled>>

----------------------------------------------------------------------------
(* start; stop, in three steps of the thread that calls it.                *)

LogStart == log_thread' = "looping" /\ log_stop' = FALSE /\ UNCHANGED <<messages, spoiled>>

LogStopStore == log_stop' = TRUE /\ UNCHANGED <<log_thread, messages, spoiled>>

LogStopNotify == log_thread' = LogAwake /\ UNCHANGED <<log_stop, messages, spoiled>>

LogStopJoin ==
  /\ log_thread = "ended"
  /\ log_thread' = "none" /\ log_stop' = FALSE /\ UNCHANGED <<messages, spoiled>>

\* The thread blocked after it was told to stop: nobody will notify it again.
LogHung == log_thread = "waiting" /\ log_stop
=============================================================================
