------------------------------- MODULE Mailbox -------------------------------
(***************************************************************************)
(* The file mailbox between the clients and the daemon.  A client renames  *)
(* a request file into requests and polls for a response file until its    *)
(* own timeout; the request worker of MailboxHandler moves the request to  *)
(* processing, reads it, hands it to the backend, writes the response and  *)
(* deletes the request.  The clean-up worker runs beside it without        *)
(* processing_mutex_.  Directories survive the daemon, the queue of        *)
(* pending paths does not.  The folder watcher (efsw) is external: it      *)
(* reports a new file later, or never.                                     *)
(*                                                                         *)
(* There is no clock: a file has an age, counted up to the first value     *)
(* past every limit it is compared with, which is all the code looks at.   *)
(* An orderly stop ends the loops between two requests, where Crash leaves *)
(* the same files behind, and is not an action of its own.                 *)
(*                                                                         *)
(* The parser's message about a request that is not UTF-8 quotes its bytes. *)
(* It is logged, and the logger's thread throws when it dumps the message; *)
(* and it is the reason move_to_dead dumps, which ends the request worker. *)
(***************************************************************************)
EXTENDS Naturals, FiniteSets, SequencesExt

CONSTANTS
  Requests,      \* requests, ordered as their file names
  Contents,      \* what may be in them: functions from Requests to Kinds
  Timeout,       \* how long a client waits; its deadline_ms
  StaleTimeout,  \* stale_timeout_ms
  ResponseTtl,   \* the five minutes of cleanup_stale_responses
  MaxCrashes,    \* bound: the daemon is killed only if it has died less often
  MaxLosses      \* bound: events the watcher drops, and responses that cannot be written

\* With a deadline, without, unreadable, unreadable and not in UTF-8.
Kinds == {"dated", "undated", "malformed", "garbled"}

ASSUME MailAssumption ==
  /\ Requests \subseteq Nat /\ IsFiniteSet(Requests) /\ Contents \subseteq [Requests -> Kinds]
  /\ {Timeout, StaleTimeout, ResponseTtl, MaxCrashes, MaxLosses} \subseteq Nat

VARIABLES
  polling,       \* not use_folder_watcher_
  kind,          \* what clients write in their requests
  place,         \* where the file of a request is
  age,           \* since the client wrote it: a rename keeps last_write_time
  response,      \* the response file
  response_age,  \* and since the daemon wrote it
  waiting,       \* the clients that still poll for their response
  worker,        \* where the request worker is
  pending,       \* pending_requests_
  batch,         \* requests_to_process, or the files polled; the head is worked on
  events,        \* changes the watcher has still to report
  lost,          \* requests whose event was dropped since the daemon started
  handled,       \* how often a request was given to the backend
  doomed,        \* the logger has a message it cannot dump
  crashes, losses

fileVars == <<place, age, response, response_age>>
workerVars == <<worker, pending, batch>>
daemonVars == <<doomed, crashes, losses>>
mailVars == <<polling, kind, fileVars, waiting, workerVars, events, lost, handled,
              daemonVars>>

Places == {"none", "requests", "processing", "dead", "gone"}
Responses == {"none", "there", "taken", "swept", "failed"}
Busy == {"next", "picked", "choking", "handled", "answered"}

OldAge == Max({Timeout, StaleTimeout}) + 1
OldResponse == ResponseTtl + 1

In(p) == {r \in Requests : place[r] = p}

MailInit ==
  /\ polling \in BOOLEAN /\ kind \in Contents
  /\ place = [r \in Requests |-> "none"]
  /\ age = [r \in Requests |-> 0]
  /\ response = [r \in Requests |-> "none"] /\ response_age = [r \in Requests |-> 0]
  /\ waiting = {} /\ events = {} /\ lost = {}
  /\ worker = "down" /\ pending = <<>> /\ batch = <<>>
  /\ handled = [r \in Requests |-> 0]
  /\ doomed = FALSE /\ crashes = 0 /\ losses = 0

----------------------------------------------------------------------------
(* Clients.                                                                *)

\* send_request: the request appears by a rename, and the watcher, if there
\* is one, has something to report.
Send(r) ==
  /\ place[r] = "none"
  /\ place' = [place EXCEPT ![r] = "requests"]
  /\ waiting' = waiting \cup {r}
  /\ events' = IF polling \/ worker = "down" THEN events ELSE events \cup {r}
  /\ UNCHANGED <<polling, kind, age, response, response_age, workerVars, lost, handled, daemonVars>>

TakeAnswer(r) ==
  /\ r \in waiting /\ response[r] = "there"
  /\ response' = [response EXCEPT ![r] = "taken"]
  /\ response_age' = [response_age EXCEPT ![r] = 0]
  /\ waiting' = waiting \ {r}
  /\ UNCHANGED <<polling, kind, place, age, workerVars, events, lost, handled, daemonVars>>

GiveUp(r) ==
  /\ r \in waiting /\ age[r] >= Timeout
  /\ waiting' = waiting \ {r}
  /\ UNCHANGED <<polling, kind, fileVars, workerVars, events, lost, handled, daemonVars>>

----------------------------------------------------------------------------
(* The watcher.                                                            *)

\* on_file_changed.
EventArrives(r) ==
  /\ r \in events
  /\ events' = events \ {r}
  /\ pending' = Append(pending, r)
  /\ UNCHANGED <<polling, kind, fileVars, waiting, worker, batch, lost, handled, daemonVars>>

\* The watcher drops a change, or reports it as another than Add.
EventLost(r) ==
  /\ losses < MaxLosses
  /\ r \in events
  /\ events' = events \ {r}
  /\ lost' = lost \cup {r}
  /\ losses' = losses + 1
  /\ UNCHANGED <<polling, kind, fileVars, waiting, workerVars, handled, crashes, doomed>>

----------------------------------------------------------------------------
(* The request worker.                                                     *)

\* list_files: what is in requests, sorted by name.
Listings == {s \in SetToSeqs(In("requests")) : \A i, j \in DOMAIN s : i < j => s[i] < s[j]}

\* A wrong variant of Start: what a crash left in processing is served again.
StartRecovers ==
  /\ worker = "down"
  /\ worker' = "starting"
  /\ place' = [r \in Requests |-> IF place[r] = "processing" THEN "requests" ELSE place[r]]
  /\ UNCHANGED <<polling, kind, age, response, response_age, waiting, pending, batch, events, lost,
                 handled, daemonVars>>

\* start: the watcher runs before the worker lists.
Start ==
  /\ worker = "down"
  /\ worker' = "starting"
  /\ UNCHANGED <<polling, kind, fileVars, waiting, pending, batch, events, lost, handled,
                 daemonVars>>

\* A wrong variant of ListExisting: the worker relies on the watcher alone.
StartBlind ==
  /\ worker = "starting"
  /\ worker' = "idle"
  /\ UNCHANGED <<polling, kind, fileVars, waiting, pending, batch, events, lost, handled,
                 daemonVars>>

\* request_processing_worker before its loop.
ListExisting ==
  /\ worker = "starting"
  /\ \E files \in Listings : pending' = pending \o files
  /\ worker' = "idle"
  /\ UNCHANGED <<polling, kind, fileVars, waiting, batch, events, lost, handled, daemonVars>>

\* process_pending_requests takes all there is.
Grab ==
  /\ worker = "idle" /\ ~polling /\ pending # <<>>
  /\ batch' = pending /\ pending' = <<>>
  /\ worker' = "next"
  /\ UNCHANGED <<polling, kind, fileVars, waiting, events, lost, handled, daemonVars>>

Poll ==
  /\ worker = "idle" /\ polling
  /\ In("requests") # {} /\ batch' \in Listings
  /\ worker' = "next"
  /\ UNCHANGED <<polling, kind, fileVars, waiting, pending, events, lost, handled, daemonVars>>

\* A wrong variant of Advance: the last request of the batch is left out.
AdvanceShort ==
  /\ batch' = Tail(batch)
  /\ worker' = IF Len(batch) <= 2 THEN "idle" ELSE "next"
  /\ UNCHANGED pending

\* On to the rest of the batch.
Advance ==
  /\ batch' = Tail(batch)
  /\ worker' = IF Tail(batch) = <<>> THEN "idle" ELSE "next"
  /\ UNCHANGED pending

\* A path that was served already names no file any more.
PickUp ==
  /\ worker = "next"
  /\ LET r == Head(batch)
     IN  \/ /\ place[r] = "requests"
            /\ place' = [place EXCEPT ![r] = "processing"]
            /\ worker' = "picked"
            /\ UNCHANGED <<pending, batch>>
         \/ /\ place[r] # "requests"
            /\ Advance
            /\ UNCHANGED place
  /\ UNCHANGED <<polling, kind, age, response, response_age, waiting, events, lost, handled,
                 daemonVars>>

\* The clean-up left it there, it parses, and its deadline is not over.
Readable(r) ==
  /\ place[r] = "processing"
  /\ kind[r] \notin {"malformed", "garbled"}
  /\ kind[r] = "dated" => age[r] <= Timeout

\* Read, checked and handed to the backend: what happens in between changes
\* neither what the request says nor, as a crash here tells nobody, what is done.
Handle ==
  /\ worker = "picked" /\ Readable(Head(batch))
  /\ handled' = [handled EXCEPT ![Head(batch)] = @ + 1]
  /\ worker' = "handled"
  /\ UNCHANGED <<polling, kind, fileVars, waiting, pending, batch, events, lost, daemonVars>>

\* The file is there, and what the parser says of it cannot be dumped.
Unspeakable(r) == place[r] = "processing" /\ kind[r] = "garbled"

\* move_to_dead, which finds nothing to move if the clean-up was first.
Reject ==
  /\ worker = "picked" /\ ~Readable(Head(batch)) /\ ~Unspeakable(Head(batch))
  /\ place' = [place EXCEPT ![Head(batch)] = "dead"]
  /\ Advance
  /\ UNCHANGED <<polling, kind, age, response, response_age, waiting, events, lost, handled,
                 daemonVars>>

\* The error is logged before the request is moved.
Choke ==
  /\ worker = "picked" /\ Unspeakable(Head(batch))
  /\ doomed' = TRUE
  /\ worker' = "choking"
  /\ UNCHANGED <<polling, kind, fileVars, waiting, pending, batch, events, lost, handled, crashes,
                 losses>>

\* move_to_dead renames the file and throws at its reason: the job ends, nobody
\* starts another one, and the rest of the batch is gone from memory.
Throw ==
  /\ worker = "choking"
  /\ \/ /\ place[Head(batch)] = "processing"
        /\ place' = [place EXCEPT ![Head(batch)] = "dead"]
        /\ worker' = "ended" /\ batch' = <<>>
        /\ UNCHANGED pending
     \/ /\ place[Head(batch)] # "processing"
        /\ Advance
        /\ UNCHANGED place
  /\ UNCHANGED <<polling, kind, age, response, response_age, waiting, events, lost, handled,
                 daemonVars>>

\* A wrong variant of Answer: only a request that is still ours is answered.
AnswerIfOurs ==
  /\ worker = "handled"
  /\ LET r == Head(batch)
     IN  response' = IF place[r] = "processing" THEN [response EXCEPT ![r] = "there"] ELSE response
  /\ worker' = "answered"
  /\ UNCHANGED <<polling, kind, place, age, response_age, waiting, pending, batch, events, lost,
                 handled, daemonVars>>

\* write_response_file: written even if the clean-up took the request.
Answer ==
  /\ worker = "handled"
  /\ LET r == Head(batch)
     IN  \/ /\ response' = [response EXCEPT ![r] = "there"]
            /\ response_age' = [response_age EXCEPT ![r] = 0]
            /\ UNCHANGED losses
         \/ /\ losses < MaxLosses
            /\ losses' = losses + 1
            /\ response' = [response EXCEPT ![r] = "failed"]
            /\ UNCHANGED response_age
  /\ worker' = "answered"
  /\ UNCHANGED <<polling, kind, place, age, waiting, pending, batch, events, lost, handled,
                 crashes, doomed>>

\* delete_processed.
Finish ==
  /\ worker = "answered"
  /\ LET r == Head(batch)
     IN  place' = IF place[r] = "processing" THEN [place EXCEPT ![r] = "gone"] ELSE place
  /\ Advance
  /\ UNCHANGED <<polling, kind, age, response, response_age, waiting, events, lost, handled,
                 daemonVars>>

Work == \/ ListExisting \/ Grab \/ Poll \/ PickUp
        \/ Handle \/ Reject \/ Choke \/ Throw \/ Answer \/ Finish

----------------------------------------------------------------------------
(* The clean-up worker, which runs as long as the daemon does.             *)

\* A wrong variant of SweepRequest: the requests directory is swept.
SweepUnread(r) ==
  /\ worker # "down"
  /\ place[r] = "requests" /\ age[r] > StaleTimeout
  /\ place' = [place EXCEPT ![r] = "dead"]
  /\ UNCHANGED <<polling, kind, age, response, response_age, waiting, workerVars, events, lost,
                 handled, daemonVars>>

\* cleanup_stale_requests.
SweepRequest(r) ==
  /\ worker # "down"
  /\ place[r] = "processing" /\ age[r] > StaleTimeout
  /\ place' = [place EXCEPT ![r] = "dead"]
  /\ UNCHANGED <<polling, kind, age, response, response_age, waiting, workerVars, events, lost,
                 handled, daemonVars>>

\* A wrong variant of SweepResponse: the directories of clients that left are
\* passed over.
SweepPresent(r) ==
  /\ worker # "down"
  /\ r \in waiting /\ response[r] = "there" /\ response_age[r] > ResponseTtl
  /\ response' = [response EXCEPT ![r] = "swept"]
  /\ response_age' = [response_age EXCEPT ![r] = 0]
  /\ UNCHANGED <<polling, kind, place, age, waiting, workerVars, events, lost, handled, daemonVars>>

\* cleanup_stale_responses.
SweepResponse(r) ==
  /\ worker # "down"
  /\ response[r] = "there" /\ response_age[r] > ResponseTtl
  /\ response' = [response EXCEPT ![r] = "swept"]
  /\ response_age' = [response_age EXCEPT ![r] = 0]
  /\ UNCHANGED <<polling, kind, place, age, waiting, workerVars, events, lost, handled, daemonVars>>

----------------------------------------------------------------------------
\* The daemon dies: files stay, memory and what the watcher had to say do not.
Dies ==
  /\ worker # "down"
  /\ worker' = "down" /\ pending' = <<>> /\ batch' = <<>>
  /\ events' = {} /\ lost' = {} /\ doomed' = FALSE
  /\ crashes' = crashes + 1
  /\ UNCHANGED <<polling, kind, fileVars, waiting, handled, losses>>

Crash == crashes < MaxCrashes /\ Dies

\* The logger's thread throws, and nobody catches it.
Abort == doomed /\ Dies

\* Every file gets older, while somebody looks at its age.
Tick ==
  LET Older(f, there, old) ==
        [r \in Requests |-> IF r \in there /\ f[r] < old THEN f[r] + 1 ELSE f[r]]
  IN  /\ age' = Older(age, In("requests") \cup In("processing") \cup waiting, OldAge)
      /\ response_age' = Older(response_age, {r \in Requests : response[r] = "there"}, OldResponse)
      /\ <<age, response_age>>' # <<age, response_age>>
      /\ UNCHANGED <<polling, kind, place, response, waiting, workerVars, events, lost, handled,
                     daemonVars>>

MailNext ==
  \/ \E r \in Requests :
       \/ Send(r) \/ TakeAnswer(r) \/ GiveUp(r)
       \/ EventArrives(r) \/ EventLost(r)
       \/ SweepRequest(r) \/ SweepResponse(r)
  \/ Start \/ Work \/ Crash \/ Abort \/ Tick

MailSpec == MailInit /\ [][MailNext]_mailVars

\* The daemon is started again, its two workers loop, the watcher reports what
\* it does not drop, time passes.  Nothing is assumed of the clients, nor of when
\* the logger gets to a message: one that is not shown may wait for long.
MailFairSpec ==
  /\ MailSpec
  /\ WF_mailVars(Start) /\ WF_mailVars(Work) /\ WF_mailVars(Tick)
  /\ \A r \in Requests :
       WF_mailVars(EventArrives(r)) /\ WF_mailVars(SweepRequest(r)) /\ WF_mailVars(SweepResponse(r))

----------------------------------------------------------------------------
(* Properties.                                                             *)

MailTypeOK ==
  /\ polling \in BOOLEAN /\ kind \in Contents
  /\ place \in [Requests -> Places] /\ age \in [Requests -> 0 .. OldAge]
  /\ response \in [Requests -> Responses] /\ response_age \in [Requests -> 0 .. OldResponse]
  /\ waiting \subseteq Requests /\ events \subseteq Requests /\ lost \subseteq Requests
  /\ worker \in {"down", "starting", "idle", "ended"} \cup Busy /\ doomed \in BOOLEAN
  /\ pending \in Seq(Requests) /\ batch \in Seq(Requests)
  /\ worker \in Busy <=> batch # <<>>
  /\ handled \in [Requests -> Nat]
  /\ crashes \in Nat /\ losses \in 0 .. MaxLosses

\* A request reaches the backend at most once, although the watcher and the
\* listing at the start name it twice, and although the daemon may die after it
\* has handled it and before it has deleted it.
HandledAtMostOnce == \A r \in Requests : handled[r] <= 1

\* No request in the mailbox is forgotten: the watcher will report it, or it is
\* on its way to the worker.  Only an event dropped outside loses one, or a
\* worker that a request has ended, until the next start.
NoneForgotten ==
  (~polling /\ worker \notin {"down", "starting", "ended"}) =>
    In("requests") \subseteq events \cup lost \cup ToSet(pending) \cup ToSet(batch)

\* What was handled is answered, even when the clean-up took the request in the
\* meantime, unless the daemon dies right then; and no request is deleted before
\* its response was written (or could not be).
NoAnswerLost ==
  \A r \in Requests :
    handled[r] > 0 /\ response[r] = "none" =>
      \/ worker = "handled" /\ Head(batch) = r
      \/ crashes > 0 /\ place[r] # "gone"

\* Requests in processing that the request worker is not at.
LeftOver == {r \in In("processing") :
               ~(worker \in {"picked", "choking", "handled", "answered"} /\ Head(batch) = r)}

\* Only a crash leaves a request behind in processing, and each crash at most
\* one: no error path of the worker forgets to delete it or to move it.
LeftByCrash == Cardinality(LeftOver) <= crashes

\* A request leaves requests and processing, whatever becomes of the daemon,
\* unless its event was dropped and the daemon is not started again, or a request
\* that is not UTF-8 has ended the worker and the daemon lives on without it.
EveryRequestEnds ==
  \A r \in Requests :
    []<>(place[r] \in {"none", "dead", "gone"} \/ r \in lost) \/ <>[](worker = "ended")

\* A response nobody collects is removed.
EveryAnswerEnds ==
  \A r \in Requests : (response[r] = "there") ~> (response[r] \in {"taken", "swept"})
=============================================================================
