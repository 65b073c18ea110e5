-------------------------- MODULE ThreadPoolProofs --------------------------
(***************************************************************************)
(* What the thread pool keeps for any workers, jobs, priorities, orders    *)
(* and sequences of calls: jobs are run at most once, and a stop that      *)
(* comes to its end leaves no thread and no job behind but those that      *)
(* entered the pool while it was locked, or while every worker that serves *)
(* them was between a pop that found nothing and its last look.            *)
(***************************************************************************)
EXTENDS ThreadPool, WellFoundedInduction, TLAPS

----------------------------------------------------------------------------
(* Elements of sequences.                                                  *)

LEMMA ToSetEmpty == ToSet(<<>>) = {}
BY DEF ToSet

LEMMA ToSetAppend ==
  ASSUME NEW S, NEW s \in Seq(S), NEW x \in S
  PROVE  Append(s, x) \in Seq(S) /\ ToSet(Append(s, x)) = ToSet(s) \cup {x}
<1>1. /\ Append(s, x) \in Seq(S) /\ Len(Append(s, x)) = Len(s) + 1
      /\ \A i \in 1 .. Len(s) : Append(s, x)[i] = s[i]
      /\ Append(s, x)[Len(s) + 1] = x
  OBVIOUS
<1>2. /\ Len(s) \in Nat
      /\ DOMAIN s = 1 .. Len(s) /\ DOMAIN Append(s, x) = 1 .. Len(s) + 1
  BY <1>1
<1>3. 1 .. Len(s) + 1 = (1 .. Len(s)) \cup {Len(s) + 1}
  BY <1>2
<1> QED
  BY <1>1, <1>2, <1>3 DEF ToSet

LEMMA ToSetTail ==
  ASSUME NEW S, NEW s \in Seq(S), s # <<>>
  PROVE  /\ Head(s) \in S /\ Tail(s) \in Seq(S)
         /\ ToSet(s) = {Head(s)} \cup ToSet(Tail(s))
<1>1. Head(s) \in S /\ Tail(s) \in Seq(S) /\ Head(s) \in ToSet(s) /\ ToSet(Tail(s)) \subseteq ToSet(s)
  BY DEF ToSet
<1>2. ASSUME NEW x \in ToSet(s), x # Head(s) PROVE x \in ToSet(Tail(s))
  <2>1. PICK i \in DOMAIN s : x = s[i]
    BY DEF ToSet
  <2>2. i - 1 \in DOMAIN Tail(s) /\ Tail(s)[i - 1] = x
    BY <2>1, <1>2
  <2> QED
    BY <2>2 DEF ToSet
<1> QED
  BY <1>1, <1>2

LEMMA ToSetSubset ==
  ASSUME NEW S, NEW s \in Seq(S)
  PROVE  ToSet(s) \subseteq S
BY DEF ToSet

----------------------------------------------------------------------------
(* Types.                                                                  *)

LEMMA CallBegins ==
  ASSUME PoolTypeOK, NEW op \in {"start", "stop", "remove", "pause"},
         NEW p \in Priorities \cup {"none"}, Begins(op, p)
  PROVE  call' \in CallRecords
BY DEF PoolTypeOK, Begins, CallRecords

LEMMA CallGoesOn ==
  ASSUME PoolTypeOK, call.todo # <<>>
  PROVE  /\ Current \in Workers /\ Tail(call.todo) \in Seq(Workers)
         /\ ToSet(call.todo) = {Current} \cup ToSet(Tail(call.todo))
         /\ Onward => /\ call' \in CallRecords /\ call'.op = call.op
                      /\ call'.todo = Tail(call.todo)
<1>1. call \in CallRecords /\ call.todo \in Seq(Workers)
  BY DEF PoolTypeOK, CallRecords
<1>2. /\ Current \in Workers /\ Tail(call.todo) \in Seq(Workers)
      /\ ToSet(call.todo) = {Current} \cup ToSet(Tail(call.todo))
  BY <1>1, ToSetTail DEF Current
<1>3. ASSUME Onward
      PROVE  call' \in CallRecords /\ call'.op = call.op /\ call'.todo = Tail(call.todo)
  BY <1>1, <1>2, <1>3 DEF Onward, CallRecords
<1> QED
  BY <1>2, <1>3

LEMMA CallReturns ==
  Returns => call' \in CallRecords /\ call'.op = "none" /\ call'.todo = <<>>
BY DEF Returns, NoCall, CallRecords

LEMMA TypeStarts == PoolInit => PoolTypeOK
<1> SUFFICES ASSUME PoolInit PROVE PoolTypeOK
  OBVIOUS
<1>1. team \in Seq(Workers) /\ serves \in [Workers -> SUBSET Priorities]
  BY PoolAssumption DEF PoolInit
<1>2. call \in CallRecords
  BY DEF PoolInit, NoCall, CallRecords
<1>3. calls \in 0 .. MaxCalls /\ storing \in Nat
  BY PoolAssumption DEF PoolInit
<1>4. /\ queue \in [Priorities -> Seq(Jobs)] /\ thread \in [Workers -> Places]
      /\ doing \in [Workers -> Jobs \cup {NoJob}] /\ missed \in [Workers -> SUBSET Jobs]
      /\ job \in [Jobs -> {"new", "refused", "admitted", "queued", "running", "done", "cleared"}]
  BY DEF PoolInit, Places
<1> QED
  BY <1>1, <1>2, <1>3, <1>4 DEF PoolInit, PoolTypeOK

LEMMA TypeKeeps == PoolTypeOK /\ [PoolNext]_pool_vars => PoolTypeOK'
<1> SUFFICES ASSUME PoolTypeOK, [PoolNext]_pool_vars PROVE PoolTypeOK'
  OBVIOUS
<1> USE DEF jobVars, poolVars, workerVars
<1>1. ASSUME NEW j \in Jobs, PushAdmit(j) PROVE PoolTypeOK'
  BY <1>1 DEF PushAdmit, PoolTypeOK
<1>2. ASSUME NEW j \in Jobs, PushInsert(j) PROVE PoolTypeOK'
  <2>1. PriorityOf[j] \in Priorities /\ Append(queue[PriorityOf[j]], j) \in Seq(Jobs)
    BY PoolAssumption DEF PoolTypeOK
  <2>2. queue' \in [Priorities -> Seq(Jobs)]
    <3>1. queue \in [Priorities -> Seq(Jobs)]
      BY DEF PoolTypeOK
    <3>2. \/ UNCHANGED queue
          \/ queue' = [queue EXCEPT ![PriorityOf[j]] = Append(queue[PriorityOf[j]], j)]
      BY <1>2 DEF PushInsert
    <3> QED
      BY <2>1, <3>1, <3>2
  <2>3. missed' \in [Workers -> SUBSET Jobs]
    BY <1>2 DEF PushInsert, PoolTypeOK
  <2> QED
    BY <1>2, <2>2, <2>3 DEF PushInsert, PoolTypeOK
<1>3. ASSUME NEW j \in Jobs, PushNotify(j) PROVE PoolTypeOK'
  BY <1>3 DEF PushNotify, Awake, Places, PoolTypeOK
<1>4. ASSUME NEW w \in Workers, Test(w) PROVE PoolTypeOK'
  BY <1>4 DEF Test, Ends, Places, PoolTypeOK
<1>5. ASSUME NEW w \in Workers, PopJob(w) PROVE PoolTypeOK'
  <2>1. PICK p \in Best(w) :
          /\ queue' = [queue EXCEPT ![p] = Tail(@)]
          /\ job' = [job EXCEPT ![Head(queue[p])] = "running"]
          /\ doing' = [doing EXCEPT ![w] = Head(queue[p])]
    BY <1>5 DEF PopJob
  <2>2. p \in Priorities /\ queue[p] \in Seq(Jobs) /\ queue[p] # <<>>
    BY DEF Best, PoolTypeOK
  <2>3. Head(queue[p]) \in Jobs /\ Tail(queue[p]) \in Seq(Jobs)
    BY <2>2, ToSetTail
  <2> QED
    BY <1>5, <2>1, <2>2, <2>3 DEF PopJob, Places, PoolTypeOK
<1>6. ASSUME NEW w \in Workers, PopNothing(w) \/ LookAgain(w) PROVE PoolTypeOK'
  BY <1>6 DEF PopNothing, LookAgain, Ends, Places, PoolTypeOK
<1>7. ASSUME NEW w \in Workers, Finish(w) PROVE PoolTypeOK'
  BY <1>7 DEF Finish, Places, PoolTypeOK
<1>8. ASSUME NEW w \in Workers, Spurious(w) PROVE PoolTypeOK'
  BY <1>8 DEF Spurious, Awake, Places, PoolTypeOK
<1>9. ASSUME NEW w \in Workers, PushWorker(w) PROVE PoolTypeOK'
  <2>1. team' \in Seq(Workers) /\ calls' \in 0 .. MaxCalls
    BY <1>9, PoolAssumption DEF PushWorker, Calling, PoolTypeOK
  <2>2. /\ thread' \in [Workers -> Places] /\ used' \subseteq Workers /\ held' \subseteq Workers
        /\ missed' \in [Workers -> SUBSET Jobs]
        /\ \A v \in told : thread'[v] \notin {"none", "ended"}
    BY <1>9 DEF PushWorker, Launch, Places, PoolTypeOK
  <2> QED
    BY <1>9, <2>1, <2>2 DEF PushWorker, PoolTypeOK
<1>10. CASE Start
  <2>1. call' \in CallRecords
    BY <1>10, CallBegins DEF Start
  <2> QED
    BY <1>10, <2>1, PoolAssumption DEF Start, Calling, PoolTypeOK
<1>11. ASSUME NEW b \in BOOLEAN, Stop(b) PROVE PoolTypeOK'
  <2>1. call' \in CallRecords
    BY <1>11, CallBegins DEF Stop
  <2>2. calls' \in 0 .. MaxCalls
    BY <1>11, PoolAssumption DEF Stop, Calling, PoolTypeOK
  <2>3. /\ queue' \in [Priorities -> Seq(Jobs)]
        /\ job' \in [Jobs -> {"new", "refused", "admitted", "queued", "running", "done", "cleared"}]
    <3>1. Cleared(Priorities) \/ UNCHANGED <<queue, job>>
      BY <1>11 DEF Stop
    <3>2. CASE Cleared(Priorities)
      <4>1. <<>> \in Seq(Jobs)
        OBVIOUS
      <4>2. queue' = [p \in Priorities |-> <<>>]
        BY <3>2, Zenon DEF Cleared
      <4>3. queue' \in [Priorities -> Seq(Jobs)]
        BY <4>1, <4>2
      <4>4. job' \in [Jobs -> {"new", "refused", "admitted", "queued", "running", "done", "cleared"}]
        BY <3>2 DEF Cleared, PoolTypeOK
      <4> QED
        BY <4>3, <4>4
    <3> QED
      BY <3>1, <3>2 DEF PoolTypeOK
  <2> QED
    BY <1>11, <2>1, <2>2, <2>3 DEF Stop, PoolTypeOK
<1>12. ASSUME NEW b \in BOOLEAN, Pause(b) PROVE PoolTypeOK'
  <2>1. calls' \in 0 .. MaxCalls /\ call' \in CallRecords
    BY <1>12, CallBegins, PoolAssumption DEF Pause, Calling, PoolTypeOK
  <2> QED
    BY <1>12, <2>1 DEF Pause, PoolTypeOK
<1>13. ASSUME NEW p \in Priorities, ClearPriority(p) PROVE PoolTypeOK'
  <2>1. calls' \in 0 .. MaxCalls
    BY <1>13, PoolAssumption DEF ClearPriority, Calling, PoolTypeOK
  <2> QED
    BY <1>13, <2>1 DEF ClearPriority, Cleared, PoolTypeOK
<1>14. ASSUME NEW p \in Priorities, RemoveWorkers(p) PROVE PoolTypeOK'
  <2>1. call' \in CallRecords
    BY <1>14, CallBegins DEF RemoveWorkers
  <2> QED
    BY <1>14, <2>1 DEF RemoveWorkers, PoolTypeOK
<1>15. CASE Tell
  <2>1. PICK w \in Workers : /\ Doomed(w) /\ thread[w] # "ended" /\ told' = told \cup {w}
                            /\ thread' = Awake({w})
    BY <1>15 DEF Tell
  <2>2. thread[w] # "none"
    BY <2>1 DEF Doomed
  <2>3. /\ thread' \in [Workers -> Places] /\ told' \subseteq Workers
        /\ \A v \in told' : thread'[v] \notin {"none", "ended"}
    BY <2>1, <2>2 DEF Awake, Places, PoolTypeOK
  <2> QED
    BY <1>15, <2>3 DEF Tell, PoolTypeOK
<1>16. CASE Join
  <2>1. call' \in CallRecords
    BY <1>16, CallGoesOn DEF Join, Doomed, AtWorker, PoolTypeOK
  <2> QED
    BY <1>16, <2>1 DEF Join, Places, PoolTypeOK
<1>17. CASE StartWorker
  <2>1. call' \in CallRecords /\ Current \in Workers
    BY <1>17, CallGoesOn, CallReturns DEF StartWorker, AtWorker
  <2> QED
    BY <1>17, <2>1 DEF StartWorker, Launch, Places, PoolTypeOK
<1>18. CASE Started
  BY <1>18, CallReturns DEF Started, PoolTypeOK
<1>19. CASE StopFails
  BY <1>19, CallReturns DEF StopFails, PoolTypeOK
<1>20. CASE Stopped
  <2>1. storing' \in Nat
    BY <1>20 DEF Stopped, PoolTypeOK
  <2> QED
    BY <1>20, <2>1, CallReturns DEF Stopped, PoolTypeOK
<1>21. CASE StoreWorking
  <2>1. storing' \in Nat
    BY <1>21 DEF StoreWorking, PoolTypeOK
  <2> QED
    BY <1>21, <2>1 DEF StoreWorking, PoolTypeOK
<1>22. CASE LosePriority
  <2>1. serves' \in [Workers -> SUBSET Priorities]
    BY <1>22, CallGoesOn DEF LosePriority, AtWorker, PoolTypeOK
  <2> QED
    BY <1>22, <2>1 DEF LosePriority, PoolTypeOK
<1>23. CASE RemoveOne
  <2>1. call' \in CallRecords /\ Current \in Workers
    BY <1>23, CallGoesOn DEF RemoveOne, AtWorker
  <2>2. team' \in Seq(Workers)
    <3>1. team \in Seq(Workers) /\ Append(team, Current) \in Seq(Workers)
      BY <2>1, ToSetAppend DEF PoolTypeOK
    <3> QED
      BY <1>23, <3>1 DEF RemoveOne
  <2> QED
    BY <1>23, <2>1, <2>2 DEF RemoveOne, PoolTypeOK
<1>24. CASE Through
  BY <1>24, CallReturns DEF Through, PoolTypeOK
<1>25. CASE UNCHANGED pool_vars
  BY <1>25 DEF pool_vars, PoolTypeOK
<1>26. CASE PauseWorker
  <2>1. call' \in CallRecords /\ Current \in Workers
    BY <1>26, CallGoesOn DEF PauseWorker, AtWorker
  <2> QED
    BY <1>26, <2>1 DEF PauseWorker, Awake, Places, PoolTypeOK
<1> QED
  BY <1>1, <1>2, <1>3, <1>4, <1>5, <1>6, <1>7, <1>8, <1>9, <1>10, <1>11, <1>12, <1>13, <1>14,
     <1>15, <1>16, <1>17, <1>18, <1>19, <1>20, <1>21, <1>22, <1>23, <1>24, <1>25,
     <1>26 DEF PoolNext, WorkerStep, CallStep

\* The variables of the pool have their types, whatever is pushed and called.
THEOREM PoolTypeCorrect == PoolSpec => []PoolTypeOK
BY TypeStarts, TypeKeeps, PTL DEF PoolSpec

----------------------------------------------------------------------------
(* Jobs.                                                                   *)

NoTwice(s) == \A i, k \in DOMAIN s : s[i] = s[k] => i = k

LEMMA NoTwiceAppend ==
  ASSUME NEW S, NEW s \in Seq(S), NEW x \in S, NoTwice(s), x \notin ToSet(s)
  PROVE  NoTwice(Append(s, x))
<1>1. /\ DOMAIN Append(s, x) = 1 .. Len(s) + 1 /\ Len(s) \in Nat /\ DOMAIN s = 1 .. Len(s)
      /\ \A i \in 1 .. Len(s) : Append(s, x)[i] = s[i]
      /\ Append(s, x)[Len(s) + 1] = x
  OBVIOUS
<1>2. \A i \in 1 .. Len(s) : s[i] # x
  BY <1>1 DEF ToSet
<1> QED
  BY <1>1, <1>2 DEF NoTwice

LEMMA NoTwiceTail ==
  ASSUME NEW S, NEW s \in Seq(S), s # <<>>, NoTwice(s)
  PROVE  /\ NoTwice(Tail(s))
         /\ ToSet(Tail(s)) = ToSet(s) \ {Head(s)}
<1>1. /\ Len(s) \in Nat \ {0} /\ DOMAIN s = 1 .. Len(s) /\ Head(s) = s[1]
      /\ DOMAIN Tail(s) = 1 .. Len(s) - 1
      /\ \A i \in 1 .. Len(s) - 1 : Tail(s)[i] = s[i + 1]
  OBVIOUS
<1>2. NoTwice(Tail(s))
  BY <1>1 DEF NoTwice
<1>3. Head(s) \notin ToSet(Tail(s))
  BY <1>1 DEF NoTwice, ToSet
<1>4. ToSet(s) = {Head(s)} \cup ToSet(Tail(s))
  BY ToSetTail
<1> QED
  BY <1>2, <1>3, <1>4

\* Where the jobs are; JobsAccounted in parts, and one more fact.
QueuesHold(q, jobs) ==
  /\ \A p \in Priorities : NoTwice(q[p])
  /\ \A j \in Jobs, p \in Priorities :
       j \in ToSet(q[p]) <=> jobs[j] = "queued" /\ p = PriorityOf[j]

WorkersHold(d, jobs) ==
  /\ \A w \in Workers : d[w] # NoJob => jobs[d[w]] = "running"
  /\ \A v, w \in Workers : d[v] = d[w] /\ d[v] # NoJob => v = w

LEMMA AccountedInParts ==
  JobsAccounted <=> QueuesHold(queue, job) /\ WorkersHold(doing, job)
BY DEF JobsAccounted, QueuesHold, WorkersHold, NoTwice

LEMMA AccountedStarts == PoolInit => JobsAccounted
<1> SUFFICES ASSUME PoolInit PROVE JobsAccounted
  OBVIOUS
<1>1. QueuesHold(queue, job)
  BY ToSetEmpty DEF PoolInit, QueuesHold, NoTwice
<1>2. WorkersHold(doing, job)
  BY DEF PoolInit, WorkersHold
<1> QED
  BY <1>1, <1>2, AccountedInParts

LEMMA ClearedAccounts ==
  ASSUME PoolTypeOK, JobsAccounted, NEW P \in SUBSET Priorities, Cleared(P), UNCHANGED doing
  PROVE  JobsAccounted'
<1>1. QueuesHold(queue, job) /\ WorkersHold(doing, job)
  BY AccountedInParts
<1>2. \A j \in Jobs : job'[j] = IF \E p \in P : j \in ToSet(queue[p]) THEN "cleared" ELSE job[j]
  BY DEF Cleared
<1>3. \A p \in Priorities : queue'[p] = IF p \in P THEN <<>> ELSE queue[p]
  BY DEF Cleared
<1>4. \A p \in Priorities : NoTwice(queue'[p])
  BY <1>1, <1>3 DEF QueuesHold, NoTwice
<1>5. \A j \in Jobs, p \in Priorities :
        j \in ToSet(queue'[p]) <=> job'[j] = "queued" /\ p = PriorityOf[j]
  BY <1>1, <1>2, <1>3, ToSetEmpty DEF QueuesHold
<1>6. \A w \in Workers : doing[w] # NoJob => job'[doing[w]] = "running"
  <2> SUFFICES ASSUME NEW w \in Workers, doing[w] # NoJob PROVE job'[doing[w]] = "running"
    OBVIOUS
  <2>1. doing[w] \in Jobs /\ job[doing[w]] = "running"
    BY <1>1 DEF PoolTypeOK, WorkersHold
  <2>2. \A p \in P : doing[w] \notin ToSet(queue[p])
    BY <2>1, <1>1 DEF QueuesHold
  <2> QED
    BY <2>1, <2>2, <1>2
<1> QED
  BY <1>1, <1>4, <1>5, <1>6 DEF JobsAccounted, QueuesHold, WorkersHold, NoTwice

LEMMA AccountedKeeps == PoolTypeOK /\ JobsAccounted /\ [PoolNext]_pool_vars => JobsAccounted'
<1> SUFFICES ASSUME PoolTypeOK, JobsAccounted, [PoolNext]_pool_vars PROVE JobsAccounted'
  OBVIOUS
<1> USE DEF jobVars, poolVars, workerVars
<1>1. QueuesHold(queue, job) /\ WorkersHold(doing, job)
  BY AccountedInParts
<1>2. SUFFICES QueuesHold(queue', job') /\ WorkersHold(doing', job')
  BY DEF JobsAccounted, QueuesHold, WorkersHold, NoTwice
<1>3. /\ queue \in [Priorities -> Seq(Jobs)] /\ doing \in [Workers -> Jobs \cup {NoJob}]
      /\ DOMAIN job = Jobs /\ NoJob \notin Jobs /\ PriorityOf \in [Jobs -> Priorities]
  BY PoolAssumption DEF PoolTypeOK
<1>4. ASSUME NEW j \in Jobs, PushAdmit(j) PROVE QueuesHold(queue', job') /\ WorkersHold(doing', job')
  BY <1>1, <1>3, <1>4 DEF PushAdmit, QueuesHold, WorkersHold
<1>5. ASSUME NEW j \in Jobs, PushInsert(j) PROVE QueuesHold(queue', job') /\ WorkersHold(doing', job')
  <2>1. WorkersHold(doing', job')
    BY <1>1, <1>3, <1>5 DEF PushInsert, WorkersHold
  <2>2. CASE queue' = queue /\ job' = [job EXCEPT ![j] = "refused"]
    <3>1. QueuesHold(queue', job')
      BY <1>1, <1>3, <1>5, <2>2 DEF PushInsert, QueuesHold
    <3> QED
      BY <2>1, <3>1
  <2>3. CASE /\ job' = [job EXCEPT ![j] = "queued"]
             /\ queue' = [queue EXCEPT ![PriorityOf[j]] = Append(@, j)]
    <3> DEFINE p == PriorityOf[j]
    <3>1. p \in Priorities /\ queue[p] \in Seq(Jobs) /\ j \notin ToSet(queue[p])
      BY <1>1, <1>3, <1>5 DEF PushInsert, QueuesHold
    <3>2. NoTwice(Append(queue[p], j)) /\ ToSet(Append(queue[p], j)) = ToSet(queue[p]) \cup {j}
      BY <1>1, <3>1, NoTwiceAppend, ToSetAppend DEF QueuesHold
    <3>3. /\ queue'[p] = Append(queue[p], j)
          /\ \A r \in Priorities \ {p} : queue'[r] = queue[r]
      BY <1>3, <2>3, <3>1
    <3>4. job'[j] = "queued" /\ \A i \in Jobs \ {j} : job'[i] = job[i]
      BY <1>3, <2>3
    <3> HIDE DEF p
    <3>5. p = PriorityOf[j]
      BY DEF p
    <3>6. \A r \in Priorities : NoTwice(queue'[r])
      BY <1>1, <3>2, <3>3 DEF QueuesHold
    <3>7. ASSUME NEW i \in Jobs, NEW r \in Priorities
          PROVE  i \in ToSet(queue'[r]) <=> job'[i] = "queued" /\ r = PriorityOf[i]
      <4>1. i \in ToSet(queue[r]) <=> job[i] = "queued" /\ r = PriorityOf[i]
        BY <1>1 DEF QueuesHold
      <4>2. CASE i = j
        BY <3>1, <3>2, <3>3, <3>4, <3>5, <4>1, <4>2
      <4>3. CASE i # j
        BY <3>1, <3>2, <3>3, <3>4, <3>5, <4>1, <4>3
      <4> QED
        BY <4>2, <4>3
    <3>8. QueuesHold(queue', job')
      BY <3>6, <3>7 DEF QueuesHold
    <3> QED
      BY <2>1, <3>8
  <2> QED
    BY <1>5, <2>2, <2>3 DEF PushInsert
<1>6. ASSUME NEW w \in Workers, PopJob(w) PROVE QueuesHold(queue', job') /\ WorkersHold(doing', job')
  <2>1. PICK p \in Best(w) :
          /\ queue' = [queue EXCEPT ![p] = Tail(@)]
          /\ job' = [job EXCEPT ![Head(queue[p])] = "running"]
          /\ doing' = [doing EXCEPT ![w] = Head(queue[p])]
    BY <1>6 DEF PopJob
  <2> DEFINE j == Head(queue[p])
  <2>2. p \in Priorities /\ queue[p] \in Seq(Jobs) /\ queue[p] # <<>>
    BY <1>3 DEF Best, PoolTypeOK
  <2>3. j \in Jobs /\ j \in ToSet(queue[p])
    BY <2>2, ToSetTail
  <2>4. job[j] = "queued" /\ p = PriorityOf[j]
    BY <1>1, <2>2, <2>3 DEF QueuesHold
  <2>5. NoTwice(Tail(queue[p])) /\ ToSet(Tail(queue[p])) = ToSet(queue[p]) \ {j}
    BY <1>1, <2>2, NoTwiceTail DEF QueuesHold
  <2>6. /\ queue'[p] = Tail(queue[p]) /\ \A r \in Priorities \ {p} : queue'[r] = queue[r]
        /\ job'[j] = "running" /\ \A i \in Jobs \ {j} : job'[i] = job[i]
        /\ doing'[w] = j /\ \A v \in Workers \ {w} : doing'[v] = doing[v]
    BY <1>3, <2>1, <2>2, <2>3
  <2> HIDE DEF j
  <2>7. QueuesHold(queue', job')
    BY <1>1, <2>2, <2>3, <2>4, <2>5, <2>6 DEF QueuesHold
  <2>8. \A v \in Workers : doing[v] # j
    BY <1>1, <1>3, <2>3, <2>4 DEF WorkersHold
  <2>9. WorkersHold(doing', job')
    <3>1. ASSUME NEW v \in Workers, doing'[v] # NoJob PROVE job'[doing'[v]] = "running"
      <4>1. CASE v = w
        BY <2>6, <4>1
      <4>2. CASE v # w
        BY <1>1, <1>3, <2>6, <2>8, <3>1, <4>2 DEF WorkersHold
      <4> QED
        BY <4>1, <4>2
    <3>2. ASSUME NEW u \in Workers, NEW v \in Workers, doing'[u] = doing'[v], doing'[u] # NoJob
          PROVE  u = v
      BY <1>1, <2>6, <2>8, <3>2 DEF WorkersHold
    <3> QED
      BY <3>1, <3>2 DEF WorkersHold
  <2> QED
    BY <2>7, <2>9
<1>7. ASSUME NEW w \in Workers, Finish(w) PROVE QueuesHold(queue', job') /\ WorkersHold(doing', job')
  <2>1. CASE doing[w] = NoJob
    BY <1>1, <1>3, <1>7, <2>1 DEF Finish, QueuesHold, WorkersHold
  <2>2. CASE doing[w] # NoJob
    BY <1>1, <1>3, <1>7, <2>2 DEF Finish, QueuesHold, WorkersHold
  <2> QED
    BY <2>1, <2>2
<1>8. ASSUME NEW b \in BOOLEAN, Stop(b) PROVE QueuesHold(queue', job') /\ WorkersHold(doing', job')
  <2>1. UNCHANGED doing /\ (Cleared(Priorities) \/ UNCHANGED <<queue, job>>)
    BY <1>8 DEF Stop
  <2>2. CASE Cleared(Priorities)
    BY <2>1, <2>2, ClearedAccounts DEF JobsAccounted, QueuesHold, WorkersHold, NoTwice
  <2> QED
    BY <1>1, <2>1, <2>2
<1>9. ASSUME NEW p \in Priorities, ClearPriority(p)
      PROVE QueuesHold(queue', job') /\ WorkersHold(doing', job')
  <2>1. Cleared({p}) /\ UNCHANGED doing /\ {p} \in SUBSET Priorities
    BY <1>9 DEF ClearPriority
  <2> QED
    BY <2>1, ClearedAccounts DEF JobsAccounted, QueuesHold, WorkersHold, NoTwice
<1>10. ASSUME UNCHANGED <<queue, job, doing>> PROVE QueuesHold(queue', job') /\ WorkersHold(doing', job')
  BY <1>1, <1>10
<1>11. ASSUME NEW w \in Workers,
              Test(w) \/ PopNothing(w) \/ LookAgain(w) \/ Spurious(w) \/ PushWorker(w)
       PROVE  UNCHANGED <<queue, job, doing>>
  BY <1>11 DEF Test, PopNothing, LookAgain, Spurious, PushWorker
<1>12. ASSUME NEW j \in Jobs, PushNotify(j) PROVE UNCHANGED <<queue, job, doing>>
  BY <1>12 DEF PushNotify
<1>13. ASSUME CallStep PROVE UNCHANGED <<queue, job, doing>>
  BY <1>13 DEF CallStep, Tell, Join, StartWorker, Started, StopFails, Stopped, StoreWorking,
               LosePriority, RemoveOne, PauseWorker, Through, RemoveWorkers
<1>14. ASSUME Start \/ \E b \in BOOLEAN : Pause(b) PROVE UNCHANGED <<queue, job, doing>>
  BY <1>14 DEF Start, Pause
<1>15. CASE UNCHANGED pool_vars
  BY <1>10, <1>15 DEF pool_vars
<1> QED
  BY <1>4, <1>5, <1>6, <1>7, <1>8, <1>9, <1>10, <1>11, <1>12, <1>13, <1>14, <1>15
     DEF PoolNext, WorkerStep

\* A job that is accepted is in one place, once, whatever the workers and the
\* callers do in between: no job is run twice.
THEOREM JobsAlwaysAccounted == PoolSpec => []JobsAccounted
BY TypeStarts, TypeKeeps, AccountedStarts, AccountedKeeps, PTL DEF PoolSpec

----------------------------------------------------------------------------
(* Stopping.  A worker that is told to stop, or has come to its end, is    *)
(* the one the call that holds the mutex is at; a worker outside the team  *)
(* has no thread.                                                          *)

TeamInv ==
  /\ \A w \in Workers : w \notin Members => thread[w] = "none"
  /\ \A w \in told : Doomed(w) /\ thread[w] # "ended"
  /\ \A w \in Workers : thread[w] = "ended" => Doomed(w)
  /\ call.op \in {"start", "stop", "pause"} => ToSet(call.todo) \subseteq ToSet(team)
  /\ call.op = "none" => call.todo = <<>>

\* Nothing waits for w but what entered the pool while it was locked, or since
\* its last pop found nothing.
Drained(w) == \A p \in serves[w] : ToSet(queue[p]) \subseteq late \cup missed[w]

\* What waits for a worker whose pop found nothing has come since.
EmptyInv ==
  \A w \in Workers : thread[w] = "empty" => \A p \in serves[w] : ToSet(queue[p]) \subseteq missed[w]

\* stop treats the team in order; a worker comes to its end with its queues drained.
DrainInv ==
  call.op = "stop" =>
    /\ locked
    /\ \A w \in ToSet(team) : w \in ToSet(call.todo) \/ (thread[w] = "none" /\ Drained(w))
    /\ \A w \in Workers : thread[w] = "ended" => Drained(w)

LEMMA TeamStarts == PoolInit => TeamInv /\ EmptyInv /\ DrainInv
<1> SUFFICES ASSUME PoolInit PROVE TeamInv /\ EmptyInv /\ DrainInv
  OBVIOUS
<1>1. call.op = "none" /\ call.todo = <<>>
  BY DEF PoolInit, NoCall
<1> QED
  BY <1>1 DEF PoolInit, TeamInv, EmptyInv, DrainInv

\* Between two workers of a call nobody is told to stop.
LEMMA NobodyDoomed ==
  ASSUME TeamInv, \A w \in Workers : ~Doomed(w), told \subseteq Workers
  PROVE  told = {} /\ \A w \in Workers : thread[w] # "ended"
BY DEF TeamInv

LEMMA DoomedIsCurrent ==
  ASSUME NEW w \in Workers, Doomed(w)
  PROVE  /\ call.todo # <<>> /\ w = Current /\ thread[w] # "none"
         /\ call.op \in {"start", "stop", "remove"}
         /\ call.op = "remove" => serves[w] = {}
BY DEF Doomed, AtWorker

\* Steps that leave the team, the call and the priorities alone.
LEMMA ThreadStepKeepsTeam ==
  ASSUME PoolTypeOK, TeamInv, UNCHANGED <<team, call, serves>>, told' \subseteq Workers,
         \A w \in Workers : thread[w] = "none" <=> thread'[w] = "none",
         \A w \in Workers : thread'[w] = "ended" => thread[w] = "ended" \/ w \in told,
         \A w \in told' : (w \in told \/ Doomed(w)) /\ thread'[w] # "ended"
  PROVE  TeamInv'
<1>1. Members' = Members
  BY DEF Members
<1>2. \A w \in Workers : Doomed(w) => Doomed(w)'
  BY DEF Doomed, AtWorker, Current
<1>3. told \subseteq Workers
  BY DEF PoolTypeOK
<1> QED
  BY <1>1, <1>2, <1>3 DEF TeamInv

LEMMA TeamKeeps == PoolTypeOK /\ TeamInv /\ [PoolNext]_pool_vars => TeamInv'
<1> SUFFICES ASSUME PoolTypeOK, TeamInv, [PoolNext]_pool_vars PROVE TeamInv'
  OBVIOUS
<1> USE DEF jobVars, poolVars, workerVars
<1>1. /\ team \in Seq(Workers) /\ call.todo \in Seq(Workers) /\ told \subseteq Workers
      /\ thread \in [Workers -> Places] /\ serves \in [Workers -> SUBSET Priorities]
  BY DEF PoolTypeOK, CallRecords
<1>2. ASSUME NEW j \in Jobs, PushAdmit(j) \/ PushInsert(j) PROVE TeamInv'
  BY <1>1, <1>2, ThreadStepKeepsTeam DEF PushAdmit, PushInsert, TeamInv
<1>3. ASSUME NEW j \in Jobs, PushNotify(j) PROVE TeamInv'
  BY <1>1, <1>3, ThreadStepKeepsTeam DEF PushNotify, Awake, TeamInv
<1>4. ASSUME NEW w \in Workers, Test(w) PROVE TeamInv'
  BY <1>1, <1>4, ThreadStepKeepsTeam DEF Test, Ends, TeamInv
<1>5. ASSUME NEW w \in Workers, PopJob(w) PROVE TeamInv'
  BY <1>1, <1>5, ThreadStepKeepsTeam DEF PopJob, TeamInv
<1>6. ASSUME NEW w \in Workers, PopNothing(w) \/ LookAgain(w) PROVE TeamInv'
  BY <1>1, <1>6, ThreadStepKeepsTeam DEF PopNothing, LookAgain, Ends, TeamInv
<1>7. ASSUME NEW w \in Workers, Finish(w) PROVE TeamInv'
  BY <1>1, <1>7, ThreadStepKeepsTeam DEF Finish, TeamInv
<1>8. ASSUME NEW w \in Workers, Spurious(w) PROVE TeamInv'
  BY <1>1, <1>8, ThreadStepKeepsTeam DEF Spurious, Awake, TeamInv
<1>9. CASE Tell
  BY <1>1, <1>9, ThreadStepKeepsTeam DEF Tell, Awake, TeamInv, Doomed
<1>10. CASE PauseWorker
  <2>1. /\ call.op = "pause" /\ call.todo # <<>> /\ Onward /\ thread' = Awake({Current})
        /\ UNCHANGED <<team, told, serves>>
    BY <1>10 DEF PauseWorker, AtWorker
  <2>2. told = {} /\ \A v \in Workers : thread[v] # "ended"
    BY <1>1, <2>1, DoomedIsCurrent, NobodyDoomed
  <2>3. /\ call'.op = "pause" /\ call'.todo = Tail(call.todo)
        /\ ToSet(call.todo) = {Current} \cup ToSet(call'.todo)
        /\ ToSet(call.todo) \subseteq ToSet(team)
    BY <2>1, CallGoesOn DEF TeamInv
  <2>4. Members' = Members
    BY <2>1, <2>3 DEF Members
  <2>5. \A v \in Workers : /\ thread[v] = "none" => thread'[v] = "none"
                           /\ thread'[v] # "ended"
    BY <1>1, <2>1, <2>2 DEF Awake
  <2> QED
    BY <2>1, <2>2, <2>3, <2>4, <2>5 DEF TeamInv
<1>11. ASSUME NEW p \in Priorities, ClearPriority(p) PROVE TeamInv'
  BY <1>1, <1>11, ThreadStepKeepsTeam DEF ClearPriority, TeamInv
<1>12. CASE StoreWorking
  BY <1>1, <1>12, ThreadStepKeepsTeam DEF StoreWorking, TeamInv
<1>13. ASSUME call.op = "none" \/ call.todo = <<>> \/ thread[Current] = "none"
       PROVE  told = {} /\ \A w \in Workers : thread[w] # "ended"
  BY <1>1, <1>13, DoomedIsCurrent, NobodyDoomed DEF Doomed, AtWorker
<1>14. CASE \/ Start \/ \E b \in BOOLEAN : Stop(b) \/ Pause(b)
  <2>1. /\ MutexFree /\ call'.op \in {"start", "stop", "pause"} /\ call'.todo = team
        /\ UNCHANGED <<team, thread, told, serves>>
    BY <1>14 DEF Start, Stop, Pause, Begins
  <2>2. told = {} /\ (\A w \in Workers : thread[w] # "ended") /\ Members' = Members
    BY <1>13, <2>1, ToSetEmpty DEF MutexFree, Members, TeamInv
  <2> QED
    BY <2>1, <2>2 DEF TeamInv
<1>15. ASSUME NEW p \in Priorities, RemoveWorkers(p) PROVE TeamInv'
  <2>1. /\ MutexFree /\ call'.op = "remove" /\ call'.todo = team /\ team' = <<>>
        /\ UNCHANGED <<thread, told, serves>>
    BY <1>15 DEF RemoveWorkers, Begins
  <2>2. told = {} /\ (\A w \in Workers : thread[w] # "ended") /\ Members' = Members
    BY <1>13, <2>1, ToSetEmpty DEF MutexFree, Members, TeamInv
  <2> QED
    BY <2>1, <2>2 DEF TeamInv
<1>16. ASSUME NEW w \in Workers, PushWorker(w) PROVE TeamInv'
  <2>1. /\ MutexFree /\ team' = Append(team, w) /\ UNCHANGED <<call, told, serves>>
        /\ \A v \in Workers \ {w} : thread'[v] = thread[v]
        /\ thread'[w] \in {thread[w], "testing"}
    BY <1>1, <1>16 DEF PushWorker, Launch
  <2>2. told = {} /\ \A v \in Workers : thread[v] # "ended"
    BY <1>13, <2>1 DEF MutexFree
  <2>3. Members' = Members \cup {w}
    BY <1>1, <2>1, ToSetAppend DEF Members
  <2> QED
    BY <2>1, <2>2, <2>3 DEF TeamInv, MutexFree
<1>17. CASE Join
  <2>1. PICK w \in Workers : Doomed(w) /\ thread[w] = "ended" /\ thread' = [thread EXCEPT ![w] = "none"]
    BY <1>17 DEF Join
  <2>2. /\ call.todo # <<>> /\ w = Current
        /\ call.op \in {"start", "stop", "remove"} /\ UNCHANGED <<team, told, serves>>
    BY <1>17, <2>1, DoomedIsCurrent DEF Join
  <2>3. told = {} /\ \A v \in Workers : thread'[v] # "ended"
    BY <1>1, <2>1, <2>2, DoomedIsCurrent DEF TeamInv
  <2>4. CASE call.op = "start"
    BY <1>1, <1>17, <2>1, <2>2, <2>3, <2>4 DEF Join, TeamInv, Members
  <2>5. CASE call.op # "start"
    <3>1. call'.op = call.op /\ call'.todo = Tail(call.todo)
      BY <1>17, <2>2, <2>5, CallGoesOn DEF Join
    <3>2. ToSet(call.todo) = {w} \cup ToSet(call'.todo)
      BY <2>2, <3>1, CallGoesOn
    <3>3. \A v \in Workers : v \notin Members' => thread'[v] = "none"
      BY <1>1, <2>1, <2>2, <3>2 DEF TeamInv, Members
    <3> QED
      BY <2>2, <2>3, <3>1, <3>2, <3>3 DEF TeamInv
  <2> QED
    BY <2>4, <2>5
<1>18. CASE StartWorker
  <2>1. /\ call.op = "start" /\ call.todo # <<>> /\ thread[Current] = "none"
        /\ UNCHANGED <<team, told, serves>> /\ Current \in Workers
    BY <1>18, CallGoesOn DEF StartWorker, AtWorker
  <2>2. told = {} /\ \A v \in Workers : thread[v] # "ended"
    BY <1>13, <2>1
  <2>3. ToSet(call.todo) = {Current} \cup ToSet(Tail(call.todo)) /\ ToSet(call.todo) \subseteq ToSet(team)
    BY <2>1, CallGoesOn DEF TeamInv
  <2>4. CASE Launch(Current) /\ Onward
    <3>1. call'.op = "start" /\ call'.todo = Tail(call.todo)
      BY <2>1, <2>4, CallGoesOn
    <3>2. /\ thread'[Current] = "testing"
          /\ \A v \in Workers \ {Current} : thread'[v] = thread[v]
      BY <1>1, <2>1, <2>4 DEF Launch
    <3>3. Members' = Members
      BY <2>1, <2>3, <3>1 DEF Members
    <3>4. Current \in Members
      BY <2>3 DEF Members
    <3> QED
      BY <2>1, <2>2, <2>3, <3>1, <3>2, <3>3, <3>4 DEF TeamInv
  <2>5. CASE Returns /\ UNCHANGED <<thread, used, missed>>
    <3>1. call'.op = "none" /\ call'.todo = <<>>
      BY <2>5, CallReturns
    <3>2. Members' = Members
      BY <2>1, <2>3, <3>1, ToSetEmpty DEF Members
    <3> QED
      BY <2>1, <2>2, <2>5, <3>1, <3>2 DEF TeamInv
  <2> QED
    BY <1>18, <2>4, <2>5 DEF StartWorker
<1>19. CASE Started \/ Stopped \/ Through
  <2>1. call.todo = <<>> /\ UNCHANGED <<team, thread, told, serves>> /\ Returns
    BY <1>19 DEF Started, Stopped, Through
  <2>2. told = {} /\ \A v \in Workers : thread[v] # "ended"
    BY <1>13, <2>1
  <2>3. call'.op = "none" /\ call'.todo = <<>> /\ Members' = Members
    BY <2>1, CallReturns DEF Members
  <2> QED
    BY <2>1, <2>2, <2>3 DEF TeamInv
<1>20. CASE StopFails
  <2>1. /\ call.op = "stop" /\ thread[Current] = "none" /\ Returns
        /\ UNCHANGED <<team, thread, told, serves>>
    BY <1>20 DEF StopFails, AtWorker
  <2>2. told = {} /\ \A v \in Workers : thread[v] # "ended"
    BY <1>13, <2>1
  <2>3. call'.op = "none" /\ call'.todo = <<>> /\ Members' = Members
    BY <2>1, CallReturns, ToSetEmpty DEF Members, TeamInv
  <2> QED
    BY <2>1, <2>2, <2>3 DEF TeamInv
<1>21. CASE LosePriority
  <2>1. /\ call.op = "remove" /\ call.todo # <<>> /\ call.priority \in serves[Current]
        /\ UNCHANGED <<team, thread, told, call>>
    BY <1>21 DEF LosePriority, AtWorker
  <2>2. told = {} /\ \A v \in Workers : thread[v] # "ended"
    BY <1>1, <2>1, DoomedIsCurrent, NobodyDoomed
  <2>3. Members' = Members
    BY <2>1 DEF Members
  <2> QED
    BY <2>1, <2>2, <2>3 DEF TeamInv
<1>22. CASE RemoveOne
  <2>1. /\ call.op = "remove" /\ call.todo # <<>> /\ Onward /\ UNCHANGED <<thread, told, serves>>
        /\ \/ serves[Current] # {} /\ team' = Append(team, Current)
           \/ thread[Current] = "none" /\ UNCHANGED team
    BY <1>22 DEF RemoveOne, AtWorker
  <2>2. told = {} /\ \A v \in Workers : thread[v] # "ended"
    <3>1. CASE serves[Current] # {}
      BY <1>1, <2>1, <3>1, DoomedIsCurrent, NobodyDoomed
    <3>2. CASE thread[Current] = "none"
      BY <1>13, <3>2
    <3> QED
      BY <2>1, <3>1, <3>2
  <2>3. /\ Current \in Workers /\ call'.op = "remove" /\ call'.todo = Tail(call.todo)
        /\ ToSet(call.todo) = {Current} \cup ToSet(call'.todo)
    BY <2>1, CallGoesOn
  <2>4. \A v \in Workers : v \notin Members' => thread[v] = "none"
    <3>1. CASE team' = Append(team, Current)
      <4>1. ToSet(team') = ToSet(team) \cup {Current}
        BY <1>1, <2>3, <3>1, ToSetAppend
      <4> QED
        BY <2>3, <4>1 DEF TeamInv, Members
    <3>2. CASE thread[Current] = "none" /\ UNCHANGED team
      BY <2>3, <3>2 DEF TeamInv, Members
    <3> QED
      BY <2>1, <3>1, <3>2
  <2> QED
    BY <2>1, <2>2, <2>3, <2>4 DEF TeamInv
<1>23. CASE UNCHANGED pool_vars
  BY <1>1, <1>23, ThreadStepKeepsTeam DEF pool_vars, TeamInv
<1> QED
  BY <1>2, <1>3, <1>4, <1>5, <1>6, <1>7, <1>8, <1>9, <1>10, <1>11, <1>12, <1>14, <1>15, <1>16,
     <1>17, <1>18, <1>19, <1>20, <1>21, <1>22, <1>23 DEF PoolNext, WorkerStep, CallStep

\* Only a push adds to a queue.
LEMMA QueuesShrink ==
  ASSUME PoolTypeOK, [PoolNext]_pool_vars, \A j \in Jobs : ~PushInsert(j)
  PROVE  UNCHANGED late /\ \A p \in Priorities : ToSet(queue'[p]) \subseteq ToSet(queue[p])
<1> USE DEF jobVars, poolVars, workerVars
<1> DEFINE Goal == UNCHANGED late /\ \A p \in Priorities : ToSet(queue'[p]) \subseteq ToSet(queue[p])
<1>1. queue \in [Priorities -> Seq(Jobs)]
  BY DEF PoolTypeOK
<1>2. ASSUME NEW P \in SUBSET Priorities, Cleared(P), UNCHANGED late PROVE Goal
  BY <1>2, ToSetEmpty DEF Cleared
<1>3. ASSUME NEW w \in Workers, PopJob(w) PROVE Goal
  <2>1. PICK p \in Best(w) : queue' = [queue EXCEPT ![p] = Tail(@)]
    BY <1>3 DEF PopJob
  <2>2. p \in Priorities /\ queue[p] \in Seq(Jobs) /\ queue[p] # <<>>
    BY <1>1 DEF Best, PoolTypeOK
  <2>3. ToSet(Tail(queue[p])) \subseteq ToSet(queue[p])
    BY <2>2, ToSetTail
  <2>4. late' = late /\ queue'[p] = Tail(queue[p]) /\ \A r \in Priorities \ {p} : queue'[r] = queue[r]
    BY <1>1, <1>3, <2>1, <2>2 DEF PopJob
  <2> QED
    BY <2>3, <2>4
<1>4. ASSUME NEW b \in BOOLEAN, Stop(b) PROVE Goal
  <2>1. UNCHANGED late /\ (Cleared(Priorities) \/ UNCHANGED queue)
    BY <1>4 DEF Stop
  <2> QED
    BY <1>2, <2>1
<1>5. ASSUME NEW p \in Priorities, ClearPriority(p) PROVE Goal
  <2>1. UNCHANGED late /\ Cleared({p}) /\ {p} \in SUBSET Priorities
    BY <1>5 DEF ClearPriority
  <2> QED
    BY <1>2, <2>1
<1>6. ASSUME NEW j \in Jobs, PushAdmit(j) \/ PushNotify(j) PROVE UNCHANGED <<queue, late>>
  BY <1>6 DEF PushAdmit, PushNotify
<1>7. ASSUME NEW w \in Workers,
             Test(w) \/ PopNothing(w) \/ LookAgain(w) \/ Finish(w) \/ Spurious(w) \/ PushWorker(w)
      PROVE  UNCHANGED <<queue, late>>
  BY <1>7 DEF Test, PopNothing, LookAgain, Finish, Spurious, PushWorker
<1>8. ASSUME CallStep \/ Start \/ \E b \in BOOLEAN : Pause(b) PROVE UNCHANGED <<queue, late>>
  BY <1>8 DEF CallStep, Tell, Join, StartWorker, Started, StopFails, Stopped, StoreWorking,
              LosePriority, RemoveOne, PauseWorker, Through, RemoveWorkers, Start, Pause
<1>9. CASE UNCHANGED pool_vars
  BY <1>9 DEF pool_vars
<1> QED
  BY <1>3, <1>4, <1>5, <1>6, <1>7, <1>8, <1>9 DEF PoolNext, WorkerStep

\* A push adds its job to one queue, and marks it for those it came too late for.
LEMMA InsertAdds ==
  ASSUME PoolTypeOK, NEW j \in Jobs, PushInsert(j)
  PROVE  \/ UNCHANGED <<queue, late, missed>>
         \/ /\ late' = IF locked THEN late \cup {j} ELSE late
            /\ \A w \in Workers : missed[w] \subseteq missed'[w]
            /\ \A w \in Workers :
                 thread[w] = "empty" /\ PriorityOf[j] \in serves[w] => j \in missed'[w]
            /\ \A p \in Priorities :
                 ToSet(queue'[p]) \subseteq
                   ToSet(queue[p]) \cup (IF p = PriorityOf[j] THEN {j} ELSE {})
<1>1. queue \in [Priorities -> Seq(Jobs)] /\ missed \in [Workers -> SUBSET Jobs]
      /\ PriorityOf[j] \in Priorities
  BY PoolAssumption DEF PoolTypeOK
<1>2. CASE /\ queue' = [queue EXCEPT ![PriorityOf[j]] = Append(@, j)]
           /\ late' = (IF locked THEN late \cup {j} ELSE late)
           /\ missed' = [w \in Workers |->
                           IF thread[w] = "empty" /\ PriorityOf[j] \in serves[w]
                             THEN missed[w] \cup {j} ELSE missed[w]]
  <2>1. ToSet(Append(queue[PriorityOf[j]], j)) = ToSet(queue[PriorityOf[j]]) \cup {j}
    BY <1>1, ToSetAppend
  <2>2. \A p \in Priorities :
          ToSet(queue'[p]) \subseteq ToSet(queue[p]) \cup (IF p = PriorityOf[j] THEN {j} ELSE {})
    BY <1>1, <1>2, <2>1
  <2> QED
    BY <1>2, <2>2
<1> QED
  BY <1>2 DEF PushInsert

\* While the pool is locked, what enters a queue is late.
LEMMA LockedQueues ==
  ASSUME PoolTypeOK, locked, [PoolNext]_pool_vars
  PROVE  late \subseteq late' /\ \A p \in Priorities : ToSet(queue'[p]) \subseteq ToSet(queue[p]) \cup late'
<1>1. ASSUME NEW j \in Jobs, PushInsert(j)
      PROVE  late \subseteq late' /\ \A p \in Priorities : ToSet(queue'[p]) \subseteq ToSet(queue[p]) \cup late'
  BY <1>1, InsertAdds
<1> QED
  BY <1>1, QueuesShrink

\* What a worker missed stays on its record until it looks again or is started.
LEMMA MissedLasts ==
  ASSUME PoolTypeOK, [PoolNext]_pool_vars, NEW w \in Workers,
         \/ thread'[w] \in {"empty", "ended"}
         \/ (thread[w] \in {"none", "ended"} /\ thread'[w] = "none")
  PROVE  missed[w] \subseteq missed'[w]
<1> USE DEF jobVars, poolVars, workerVars
<1>1. /\ thread \in [Workers -> Places] /\ missed \in [Workers -> SUBSET Jobs]
      /\ call.todo # <<>> => Current \in Workers
  BY CallGoesOn DEF PoolTypeOK
<1>2. ASSUME NEW j \in Jobs, PushInsert(j) PROVE missed[w] \subseteq missed'[w]
  BY <1>2, InsertAdds
<1>3. ASSUME NEW j \in Jobs, PushAdmit(j) \/ PushNotify(j) PROVE UNCHANGED missed
  BY <1>3 DEF PushAdmit, PushNotify
<1>4. ASSUME NEW v \in Workers, Test(v) \/ PopJob(v) \/ PopNothing(v) \/ Finish(v) \/ Spurious(v)
      PROVE  UNCHANGED missed
  BY <1>4 DEF Test, PopJob, PopNothing, Finish, Spurious
<1>5. ASSUME NEW v \in Workers, LookAgain(v) PROVE missed[w] \subseteq missed'[w]
  <2>1. CASE v = w /\ thread[v] = "empty" /\ thread' = [thread EXCEPT ![v] = "testing"]
    BY <1>1, <2>1
  <2>2. CASE v # w /\ missed' = [missed EXCEPT ![v] = {}]
    BY <1>1, <2>2
  <2> QED
    BY <1>5, <2>1, <2>2 DEF LookAgain
<1>6. ASSUME NEW v \in Workers, PushWorker(v) PROVE missed[w] \subseteq missed'[w]
  <2>1. UNCHANGED missed \/ Launch(v)
    BY <1>6 DEF PushWorker
  <2> QED
    BY <1>1, <2>1 DEF Launch
<1>7. CASE StartWorker
  <2>1. UNCHANGED missed \/ (Launch(Current) /\ Current \in Workers)
    BY <1>1, <1>7 DEF StartWorker, AtWorker
  <2> QED
    BY <1>1, <2>1 DEF Launch
<1>8. ASSUME \/ Tell \/ Join \/ Started \/ StopFails \/ Stopped \/ StoreWorking \/ LosePriority
             \/ RemoveOne \/ PauseWorker \/ Through \/ Start
             \/ \E p \in Priorities : RemoveWorkers(p) \/ ClearPriority(p)
             \/ \E b \in BOOLEAN : Stop(b) \/ Pause(b)
      PROVE  UNCHANGED missed
  BY <1>8 DEF Tell, Join, Started, StopFails, Stopped, StoreWorking, LosePriority, RemoveOne,
              PauseWorker, Through, Start, RemoveWorkers, ClearPriority, Stop, Pause
<1>9. CASE UNCHANGED pool_vars
  BY <1>9 DEF pool_vars
<1> QED
  BY <1>2, <1>3, <1>4, <1>5, <1>6, <1>7, <1>8, <1>9 DEF PoolNext, WorkerStep, CallStep

\* No priority is added to a worker, and a worker becomes empty by a pop alone.
LEMMA EmptyComes ==
  ASSUME PoolTypeOK, [PoolNext]_pool_vars, NEW w \in Workers
  PROVE  /\ serves'[w] \subseteq serves[w]
         /\ thread'[w] = "empty" => thread[w] = "empty" \/ PopNothing(w)
<1> USE DEF jobVars, poolVars, workerVars
<1> DEFINE Goal == /\ serves'[w] \subseteq serves[w]
                   /\ thread'[w] = "empty" => thread[w] = "empty" \/ PopNothing(w)
<1>1. /\ thread \in [Workers -> Places] /\ serves \in [Workers -> SUBSET Priorities]
      /\ call.todo # <<>> => Current \in Workers
  BY CallGoesOn DEF PoolTypeOK
<1>2. ASSUME NEW j \in Jobs, PushAdmit(j) \/ PushInsert(j) \/ PushNotify(j) PROVE Goal
  BY <1>1, <1>2 DEF PushAdmit, PushInsert, PushNotify, Awake
<1>3. ASSUME NEW v \in Workers, Test(v) \/ LookAgain(v) PROVE Goal
  BY <1>1, <1>3 DEF Test, LookAgain, Ends
<1>4. ASSUME NEW v \in Workers, PopJob(v) \/ Finish(v) \/ Spurious(v) PROVE Goal
  BY <1>1, <1>4 DEF PopJob, Finish, Spurious, Awake
<1>5. ASSUME NEW v \in Workers, PopNothing(v) PROVE Goal
  BY <1>1, <1>5 DEF PopNothing
<1>6. ASSUME NEW v \in Workers, PushWorker(v) PROVE Goal
  BY <1>1, <1>6 DEF PushWorker, Launch
<1>7. CASE LosePriority
  BY <1>1, <1>7 DEF LosePriority, AtWorker
<1>8. CASE Tell \/ Join \/ PauseWorker
  BY <1>1, <1>8 DEF Tell, Join, PauseWorker, Awake
<1>9. CASE StartWorker
  BY <1>1, <1>9 DEF StartWorker, Launch, AtWorker
<1>10. ASSUME \/ Started \/ StopFails \/ Stopped \/ StoreWorking \/ RemoveOne \/ Through \/ Start
              \/ \E p \in Priorities : RemoveWorkers(p) \/ ClearPriority(p)
              \/ \E b \in BOOLEAN : Stop(b) \/ Pause(b)
       PROVE  UNCHANGED <<thread, serves>>
  BY <1>10 DEF Started, StopFails, Stopped, StoreWorking, RemoveOne, Through, Start,
               RemoveWorkers, ClearPriority, Stop, Pause
<1>11. CASE UNCHANGED pool_vars
  BY <1>11 DEF pool_vars
<1> QED
  BY <1>2, <1>3, <1>4, <1>5, <1>6, <1>7, <1>8, <1>9, <1>10, <1>11 DEF PoolNext, WorkerStep, CallStep

LEMMA EmptyKeeps == PoolTypeOK /\ EmptyInv /\ [PoolNext]_pool_vars => EmptyInv'
<1> SUFFICES ASSUME PoolTypeOK, EmptyInv, [PoolNext]_pool_vars,
                    NEW w \in Workers, thread'[w] = "empty", NEW p \in serves'[w]
             PROVE  ToSet(queue'[p]) \subseteq missed'[w]
  BY DEF EmptyInv
<1>1. /\ p \in serves[w] /\ p \in Priorities /\ missed[w] \subseteq missed'[w]
      /\ thread[w] = "empty" \/ PopNothing(w)
  BY EmptyComes, MissedLasts DEF PoolTypeOK
<1>2. CASE PopNothing(w)
  BY <1>1, <1>2, ToSetEmpty DEF PopNothing, jobVars
<1>3. ASSUME thread[w] = "empty", NEW j \in Jobs, PushInsert(j)
      PROVE  ToSet(queue'[p]) \subseteq missed'[w]
  BY <1>1, <1>3, InsertAdds DEF EmptyInv
<1>4. CASE thread[w] = "empty" /\ \A j \in Jobs : ~PushInsert(j)
  BY <1>1, <1>4, QueuesShrink DEF EmptyInv
<1> QED
  BY <1>1, <1>2, <1>3, <1>4

\* What a step does while stop holds the mutex.
LEMMA StepsOfStop ==
  ASSUME PoolTypeOK, TeamInv, EmptyInv, locked, call.op = "stop", [PoolNext]_pool_vars
  PROVE  /\ UNCHANGED <<team, serves>>
         /\ \A w \in Workers : thread[w] = "none" => thread'[w] = "none"
         /\ \A w \in Workers : thread'[w] = "ended" /\ thread[w] # "ended" => Drained(w)
         /\ call'.op = "stop" =>
              /\ locked' = locked
              /\ \/ call' = call
                 \/ Join /\ call'.todo = Tail(call.todo)
<1> USE DEF jobVars, poolVars, workerVars
<1> DEFINE Goal ==
      /\ UNCHANGED <<team, serves>>
      /\ \A w \in Workers : thread[w] = "none" => thread'[w] = "none"
      /\ \A w \in Workers : thread'[w] = "ended" /\ thread[w] # "ended" => Drained(w)
      /\ call'.op = "stop" =>
           /\ locked' = locked
           /\ \/ call' = call
              \/ Join /\ call'.todo = Tail(call.todo)
<1>1. thread \in [Workers -> Places] /\ serves \in [Workers -> SUBSET Priorities]
  BY DEF PoolTypeOK
<1>2. ASSUME NEW j \in Jobs, PushAdmit(j) \/ PushInsert(j) PROVE Goal
  BY <1>2 DEF PushAdmit, PushInsert
<1>3. ASSUME NEW j \in Jobs, PushNotify(j) PROVE Goal
  BY <1>3 DEF PushNotify, MutexFree
<1>4. ASSUME NEW w \in Workers, Test(w) PROVE Goal
  <2>1. w \in told /\ FindsNone(w) => Drained(w)
    BY <1>1 DEF FindsNone, Sees, Entering, Drained
  <2>2. UNCHANGED <<team, serves, call, locked>>
    BY <1>4 DEF Test
  <2>3. \A v \in Workers : v # w => thread'[v] = thread[v]
    BY <1>1, <1>4 DEF Test, Ends
  <2>4. thread[w] # "none" /\ (thread'[w] = "ended" => w \in told /\ FindsNone(w))
    BY <1>1, <1>4 DEF Test, Ends
  <2> QED
    BY <2>1, <2>2, <2>3, <2>4
<1>5. ASSUME NEW w \in Workers, PopJob(w) PROVE Goal
  BY <1>1, <1>5 DEF PopJob
<1>6. ASSUME NEW w \in Workers, PopNothing(w) PROVE Goal
  BY <1>1, <1>6 DEF PopNothing
<1>7. ASSUME NEW w \in Workers, Finish(w) PROVE Goal
  BY <1>1, <1>7 DEF Finish
<1>8. ASSUME NEW w \in Workers, Spurious(w) PROVE Goal
  BY <1>1, <1>8 DEF Spurious, Awake
<1>9. ASSUME \/ Start \/ \E b \in BOOLEAN : Stop(b) \/ Pause(b)
             \/ \E p \in Priorities : RemoveWorkers(p)
             \/ \E w \in Workers : PushWorker(w)
      PROVE  Goal
  BY <1>9 DEF Start, Stop, Pause, RemoveWorkers, PushWorker, Begins, MutexFree
<1>10. ASSUME NEW p \in Priorities, ClearPriority(p) PROVE Goal
  BY <1>10 DEF ClearPriority
<1>11. CASE Tell
  BY <1>1, <1>11 DEF Tell, Awake
<1>12. CASE Join
  <2>1. call.todo # <<>> /\ UNCHANGED <<team, serves, locked>>
    BY <1>12, DoomedIsCurrent DEF Join
  <2>2. call'.todo = Tail(call.todo)
    BY <1>12, <2>1, CallGoesOn DEF Join
  <2> QED
    BY <1>1, <1>12, <2>1, <2>2 DEF Join
<1>13. CASE StopFails \/ Stopped
  BY <1>13, CallReturns DEF StopFails, Stopped
<1>14. CASE StoreWorking
  BY <1>14 DEF StoreWorking
<1>15. ASSUME StartWorker \/ Started \/ LosePriority \/ RemoveOne \/ PauseWorker \/ Through PROVE FALSE
  BY <1>15 DEF StartWorker, Started, LosePriority, RemoveOne, PauseWorker, Through, AtWorker
<1>16. CASE UNCHANGED pool_vars
  BY <1>16 DEF pool_vars
<1>17. ASSUME NEW w \in Workers, LookAgain(w) PROVE Goal
  <2>1. Drained(w) /\ thread[w] = "empty" /\ UNCHANGED <<team, serves, call, locked>>
    BY <1>17 DEF LookAgain, EmptyInv, Drained
  <2>2. \A v \in Workers : v # w => thread'[v] = thread[v]
    BY <1>1, <1>17 DEF LookAgain, Ends
  <2> QED
    BY <2>1, <2>2
<1> QED
  BY <1>2, <1>3, <1>4, <1>5, <1>6, <1>7, <1>8, <1>9, <1>10, <1>11, <1>12, <1>13, <1>14, <1>15, <1>16,
     <1>17 DEF PoolNext, WorkerStep, CallStep

LEMMA DrainBegins ==
  ASSUME PoolTypeOK, TeamInv, call.op # "stop", call'.op = "stop", [PoolNext]_pool_vars
  PROVE  DrainInv'
<1> USE DEF jobVars, poolVars, workerVars
<1>1. ASSUME NEW b \in BOOLEAN, Stop(b) PROVE DrainInv'
  <2>1. MutexFree /\ locked' = TRUE /\ UNCHANGED <<team, thread>> /\ call'.todo = team
    BY <1>1 DEF Stop, Begins
  <2>2. \A w \in Workers : thread[w] # "ended"
    BY <2>1 DEF TeamInv, MutexFree, Doomed, AtWorker
  <2> QED
    BY <2>1, <2>2 DEF DrainInv
<1>2. ASSUME NEW w \in Workers,
             \/ Test(w) \/ PopJob(w) \/ PopNothing(w) \/ LookAgain(w) \/ Finish(w)
             \/ Spurious(w) \/ PushWorker(w)
      PROVE  UNCHANGED call
  BY <1>2 DEF Test, PopJob, PopNothing, LookAgain, Finish, Spurious, PushWorker
<1>3. ASSUME NEW j \in Jobs, PushAdmit(j) \/ PushInsert(j) \/ PushNotify(j) PROVE UNCHANGED call
  BY <1>3 DEF PushAdmit, PushInsert, PushNotify
<1>4. ASSUME \/ Start \/ \E p \in Priorities : RemoveWorkers(p)
             \/ \E b \in BOOLEAN : Pause(b)
      PROVE  call'.op # "stop"
  BY <1>4 DEF Start, Pause, RemoveWorkers, Begins
<1>5. ASSUME Started \/ StopFails \/ Stopped \/ Through PROVE call'.op # "stop"
  BY <1>5, CallReturns DEF Started, StopFails, Stopped, Through
<1>6. ASSUME Tell \/ StoreWorking \/ LosePriority \/ \E p \in Priorities : ClearPriority(p)
      PROVE  UNCHANGED call
  BY <1>6 DEF Tell, StoreWorking, LosePriority, ClearPriority
<1>7. ASSUME Join \/ StartWorker \/ RemoveOne \/ PauseWorker PROVE call'.op # "stop"
  <2>1. call.todo # <<>>
    BY <1>7, DoomedIsCurrent DEF Join, StartWorker, RemoveOne, PauseWorker, AtWorker
  <2> QED
    BY <1>7, <2>1, CallGoesOn, CallReturns DEF Join, StartWorker, RemoveOne, PauseWorker
<1> QED
  BY <1>1, <1>2, <1>3, <1>4, <1>5, <1>6, <1>7 DEF PoolNext, WorkerStep, CallStep, pool_vars

LEMMA DrainKeeps ==
  PoolTypeOK /\ TeamInv /\ EmptyInv /\ DrainInv /\ [PoolNext]_pool_vars => DrainInv'
<1> SUFFICES ASSUME PoolTypeOK, TeamInv, EmptyInv, DrainInv, [PoolNext]_pool_vars, call'.op = "stop"
             PROVE  DrainInv'
  BY DEF DrainInv
<1>1. CASE call.op # "stop"
  BY <1>1, DrainBegins
<1>2. CASE call.op = "stop"
  <2>1. /\ locked
        /\ \A w \in ToSet(team) : w \in ToSet(call.todo) \/ (thread[w] = "none" /\ Drained(w))
        /\ \A w \in Workers : thread[w] = "ended" => Drained(w)
    BY <1>2 DEF DrainInv
  <2>2. /\ UNCHANGED <<team, serves, locked>>
        /\ \A w \in Workers : thread[w] = "none" => thread'[w] = "none"
        /\ \A w \in Workers : thread'[w] = "ended" /\ thread[w] # "ended" => Drained(w)
        /\ call' = call \/ (Join /\ call'.todo = Tail(call.todo))
    BY <1>2, <2>1, StepsOfStop
  <2>3. /\ late \subseteq late'
        /\ \A p \in Priorities : ToSet(queue'[p]) \subseteq ToSet(queue[p]) \cup late'
    BY <2>1, LockedQueues
  <2>4. serves \in [Workers -> SUBSET Priorities] /\ ToSet(team) \subseteq Workers
    BY ToSetSubset DEF PoolTypeOK
  <2>5. ASSUME NEW w \in Workers, Drained(w),
               thread'[w] = "ended" \/ (thread[w] \in {"none", "ended"} /\ thread'[w] = "none")
        PROVE  Drained(w)'
    <3>1. missed[w] \subseteq missed'[w]
      BY <2>5, MissedLasts
    <3> QED
      BY <2>2, <2>3, <2>4, <2>5, <3>1 DEF Drained
  <2>6. ASSUME NEW w \in Workers, thread'[w] = "ended" PROVE Drained(w)'
    BY <2>1, <2>2, <2>5, <2>6
  <2>7. ASSUME NEW w \in ToSet(team)
        PROVE  w \in ToSet(call'.todo) \/ (thread'[w] = "none" /\ Drained(w)')
    <3>1. w \in Workers
      BY <2>4
    <3>2. CASE thread[w] = "none" /\ Drained(w)
      BY <2>2, <2>5, <3>1, <3>2
    <3>3. CASE w \in ToSet(call.todo) /\ call' = call
      BY <3>3
    <3>4. CASE w \in ToSet(call.todo) /\ Join /\ call'.todo = Tail(call.todo)
      <4>1. PICK v \in Workers : Doomed(v) /\ thread[v] = "ended" /\ thread' = [thread EXCEPT ![v] = "none"]
        BY <3>4 DEF Join
      <4>2. call.todo # <<>> /\ v = Current /\ thread'[v] = "none" /\ Drained(v)
        BY <2>1, <4>1, DoomedIsCurrent DEF PoolTypeOK
      <4>3. w = v \/ w \in ToSet(call'.todo)
        BY <3>4, <4>2, CallGoesOn
      <4> QED
        BY <2>5, <4>1, <4>2, <4>3
    <3> QED
      BY <2>1, <2>2, <3>2, <3>3, <3>4
  <2> QED
    BY <2>1, <2>2, <2>6, <2>7 DEF DrainInv
<1> QED
  BY <1>1, <1>2

LEMMA StopStep ==
  ASSUME PoolTypeOK, JobsAccounted, TeamInv, DrainInv, call.op = "stop", call.todo = <<>>
  PROVE  /\ \A w \in Workers : thread[w] = "none"
         /\ \A j \in Jobs \ late : Queued(j) =>
              \A w \in Members : PriorityOf[j] \in serves[w] => j \in missed[w]
<1>1. Members = ToSet(team)
  BY ToSetEmpty DEF Members
<1>2. \A w \in ToSet(team) : thread[w] = "none" /\ Drained(w)
  BY ToSetEmpty DEF DrainInv
<1>3. \A w \in Workers : thread[w] = "none"
  BY <1>1, <1>2 DEF TeamInv
<1>4. ASSUME NEW j \in Jobs \ late, Queued(j), NEW w \in Members, PriorityOf[j] \in serves[w]
      PROVE  j \in missed[w]
  <2>1. PICK p \in Priorities : j \in ToSet(queue[p])
    BY <1>4 DEF Queued
  <2>2. p = PriorityOf[j]
    BY <2>1 DEF JobsAccounted
  <2> QED
    BY <1>1, <1>2, <1>4, <2>1, <2>2 DEF Drained
<1> QED
  BY <1>3, <1>4

\* A stop that comes to its end leaves no thread, and no job a worker serves but
\* those that entered the pool after it was locked and those every such worker
\* missed between a pop that found nothing and its last look at thread_stop_.
THEOREM StopAlwaysDrains == PoolSpec => StopDrains
<1> DEFINE Inv == PoolTypeOK /\ JobsAccounted /\ TeamInv /\ EmptyInv /\ DrainInv
<1>1. PoolInit => Inv
  BY TypeStarts, AccountedStarts, TeamStarts
<1>2. Inv /\ [PoolNext]_pool_vars => Inv'
  BY TypeKeeps, AccountedKeeps, TeamKeeps, EmptyKeeps, DrainKeeps
<1>3. Inv => [(call.op = "stop" /\ call.todo = <<>> /\ call'.op = "none") =>
                /\ \A w \in Workers : thread[w] = "none"
                /\ \A j \in Jobs \ late : Queued(j) =>
                     \A w \in Members : PriorityOf[j] \in serves[w] => j \in missed[w]]_pool_vars
  BY StopStep
<1> QED
  BY <1>1, <1>2, <1>3, PTL DEF PoolSpec, StopDrains

----------------------------------------------------------------------------
(* Wake-ups.                                                               *)

\* WakeUpsKept in parts, of values: who is asleep, and what it misses.
Slept(th, tl) == \A w \in Workers : th[w] = "waiting" => w \notin tl

Tidings(th, q, n, h, sv) ==
  \A w \in Workers : th[w] = "waiting" /\ w \notin h =>
    \A p \in sv[w] : q[p] # <<>> => \E j \in n : PriorityOf[j] = p

LEMMA WakeUpsInParts ==
  WakeUpsKept <=> Slept(thread, told) /\ Tidings(thread, queue, notifying, held, serves)
BY DEF WakeUpsKept, Slept, Tidings

LEMMA WakeUpsStart == PoolInit => WakeUpsKept
BY DEF PoolInit, WakeUpsKept

\* Fewer sleep, more is to be notified, fewer jobs wait.
LEMMA TidingsLast ==
  ASSUME NEW th, NEW th1, NEW q, NEW q1, NEW n, NEW n1, NEW h, NEW h1, NEW sv, NEW sv1,
         Tidings(th, q, n, h, sv), n \subseteq n1, h \subseteq h1,
         sv \in [Workers -> SUBSET Priorities],
         \A w \in Workers : th1[w] = "waiting" => th[w] = "waiting",
         \A w \in Workers : sv1[w] \subseteq sv[w],
         \A p \in Priorities : q[p] = <<>> => q1[p] = <<>>
  PROVE  Tidings(th1, q1, n1, h1, sv1)
BY DEF Tidings

LEMMA ClearedEmpties ==
  ASSUME NEW P \in SUBSET Priorities, Cleared(P), NEW p \in Priorities, queue[p] = <<>>
  PROVE  queue'[p] = <<>>
BY DEF Cleared

LEMMA WakeUpsKeep ==
  PoolTypeOK /\ JobsAccounted /\ TeamInv /\ WakeUpsKept /\ [PoolNext]_pool_vars => WakeUpsKept'
<1> SUFFICES ASSUME PoolTypeOK, JobsAccounted, TeamInv, WakeUpsKept, [PoolNext]_pool_vars PROVE WakeUpsKept'
  OBVIOUS
<1> USE DEF jobVars, poolVars, workerVars
<1> DEFINE Kept == Slept(thread', told') /\ Tidings(thread', queue', notifying', held', serves')
<1>1. Slept(thread, told) /\ Tidings(thread, queue, notifying, held, serves)
  BY WakeUpsInParts
<1>2. SUFFICES Kept
  BY DEF WakeUpsKept, Slept, Tidings
<1>3. /\ queue \in [Priorities -> Seq(Jobs)] /\ thread \in [Workers -> Places]
      /\ serves \in [Workers -> SUBSET Priorities] /\ told \subseteq Workers
      /\ PriorityOf \in [Jobs -> Priorities]
  BY PoolAssumption DEF PoolTypeOK
<1>4. ASSUME UNCHANGED <<thread, told, held>>, serves' = serves, notifying \subseteq notifying',
             \A p \in Priorities : queue[p] = <<>> => queue'[p] = <<>>
      PROVE  Kept
  BY <1>1, <1>3, <1>4 DEF Slept, Tidings
<1>5. ASSUME NEW j \in Jobs, PushAdmit(j) PROVE Kept
  BY <1>4, <1>5 DEF PushAdmit
<1>6. ASSUME NEW j \in Jobs, PushInsert(j) PROVE Kept
  <2>1. CASE UNCHANGED <<queue, notifying>>
    BY <1>1, <1>6, <2>1 DEF PushInsert
  <2>2. CASE /\ queue' = [queue EXCEPT ![PriorityOf[j]] = Append(@, j)]
             /\ notifying' = notifying \cup {j}
    <3>1. \A p \in Priorities : p # PriorityOf[j] => queue'[p] = queue[p]
      BY <1>3, <2>2
    <3> QED
      BY <1>1, <1>3, <1>6, <2>2, <3>1 DEF PushInsert, Slept, Tidings
  <2> QED
    BY <1>6, <2>1, <2>2 DEF PushInsert
<1>7. ASSUME NEW j \in Jobs, PushNotify(j) PROVE Kept
  <2>1. /\ notifying' = notifying \ {j} /\ MutexFree
        /\ thread' = Awake(Notified(PriorityOf[j]))
        /\ UNCHANGED <<queue, told, held, serves>>
    BY <1>7 DEF PushNotify
  <2>2. ASSUME NEW w \in Workers, thread'[w] = "waiting"
        PROVE  thread[w] = "waiting" /\ w \notin Notified(PriorityOf[j])
    BY <1>3, <2>1, <2>2 DEF Awake
  <2>3. ASSUME NEW w \in Workers, thread[w] = "waiting" PROVE w \in ToSet(team)
    BY <2>1, <2>3, ToSetEmpty DEF TeamInv, Members, MutexFree
  <2>4. ASSUME NEW w \in Workers, thread'[w] = "waiting" PROVE PriorityOf[j] \notin serves[w]
    BY <2>2, <2>3, <2>4 DEF Notified
  <2> QED
    BY <1>1, <2>1, <2>2, <2>4 DEF Slept, Tidings
<1>8. ASSUME NEW w \in Workers, Test(w) PROVE Kept
  <2>1. UNCHANGED <<queue, notifying, held, serves>> /\ told' \subseteq told
    BY <1>8 DEF Test, Ends
  <2>2. CASE /\ w \notin told /\ (w \in held \/ FindsNone(w))
             /\ thread' = [thread EXCEPT ![w] = "waiting"]
    <3>1. ASSUME FindsNone(w), NEW p \in serves[w], queue[p] # <<>>
          PROVE  \E j \in notifying : PriorityOf[j] = p
      <4>1. p \in Priorities /\ ToSet(queue[p]) \subseteq notifying
        BY <1>3, <3>1 DEF FindsNone, Sees, Entering
      <4>2. Head(queue[p]) \in Jobs /\ Head(queue[p]) \in ToSet(queue[p])
        BY <1>3, <3>1, <4>1, ToSetTail
      <4> QED
        BY <4>1, <4>2 DEF JobsAccounted
    <3>2. \A v \in Workers : thread'[v] = "waiting" => v = w \/ thread[v] = "waiting"
      BY <1>3, <2>2
    <3>3. Slept(thread', told')
      BY <1>1, <2>1, <2>2, <3>2 DEF Slept
    <3>4. Tidings(thread', queue', notifying', held', serves')
      BY <1>1, <2>1, <2>2, <3>1, <3>2 DEF Tidings
    <3> QED
      BY <3>3, <3>4
  <2>3. CASE thread' = [thread EXCEPT ![w] = "popping"] \/ thread' = [thread EXCEPT ![w] = "ended"]
    BY <1>1, <1>3, <2>1, <2>3 DEF Slept, Tidings
  <2> QED
    BY <1>8, <2>2, <2>3 DEF Test, Ends
<1>9. ASSUME NEW w \in Workers, PopJob(w) PROVE Kept
  <2>1. PICK p \in Best(w) : queue' = [queue EXCEPT ![p] = Tail(@)]
    BY <1>9 DEF PopJob
  <2>2. p \in Priorities /\ queue[p] # <<>>
    BY <1>3 DEF Best
  <2>3. \A r \in Priorities : queue[r] = <<>> => queue'[r] = <<>>
    BY <1>3, <2>1, <2>2
  <2>4. \A v \in Workers : thread'[v] = "waiting" => thread[v] = "waiting"
    BY <1>3, <1>9 DEF PopJob
  <2> QED
    BY <1>1, <1>3, <1>9, <2>3, <2>4 DEF PopJob, Slept, Tidings
<1>10. ASSUME NEW w \in Workers, PopNothing(w) \/ LookAgain(w) \/ Finish(w) PROVE Kept
  <2>1. UNCHANGED <<queue, notifying, held, serves>> /\ told' \subseteq told
    BY <1>10 DEF PopNothing, LookAgain, Ends, Finish
  <2>2. \A v \in Workers : thread'[v] = "waiting" => thread[v] = "waiting"
    BY <1>3, <1>10 DEF PopNothing, LookAgain, Ends, Finish
  <2> QED
    BY <1>1, <2>1, <2>2 DEF Slept, Tidings
<1>11. ASSUME NEW w \in Workers, Spurious(w) PROVE Kept
  BY <1>1, <1>3, <1>11 DEF Spurious, Awake, Slept, Tidings
<1>12. ASSUME NEW w \in Workers, PushWorker(w) PROVE Kept
  <2>1. /\ UNCHANGED <<queue, notifying, told, serves>> /\ MutexFree /\ w \notin ToSet(team)
        /\ \A v \in Workers : v # w => (v \in held <=> v \in held')
        /\ \A v \in Workers : thread'[v] = "waiting" => thread[v] = "waiting"
    BY <1>3, <1>12 DEF PushWorker, Launch
  <2>2. thread[w] = "none"
    BY <2>1, ToSetEmpty DEF TeamInv, Members, MutexFree
  <2> QED
    BY <1>1, <2>1, <2>2 DEF Slept, Tidings
<1>13. CASE PauseWorker
  <2>1. /\ UNCHANGED <<queue, notifying, told, serves>> /\ thread' = Awake({Current})
        /\ held' = (IF paused THEN held \cup {Current} ELSE held \ {Current})
    BY <1>13 DEF PauseWorker
  <2>2. \A w \in Workers : thread'[w] = "waiting" => thread[w] = "waiting" /\ w # Current
    BY <2>1 DEF Awake
  <2>3. \A w \in Workers : w # Current => (w \in held <=> w \in held')
    BY <2>1
  <2> QED
    BY <1>1, <2>1, <2>2, <2>3 DEF Slept, Tidings
<1>14. ASSUME NEW b \in BOOLEAN, Stop(b) PROVE Kept
  <2>1. UNCHANGED <<thread, told, held, serves, notifying>> /\ (Cleared(Priorities) \/ UNCHANGED queue)
    BY <1>14 DEF Stop
  <2>2. \A p \in Priorities : queue[p] = <<>> => queue'[p] = <<>>
    BY <2>1, ClearedEmpties
  <2> QED
    BY <1>4, <2>1, <2>2
<1>15. ASSUME NEW p \in Priorities, ClearPriority(p) PROVE Kept
  <2>1. /\ UNCHANGED <<thread, told, held, serves, notifying>>
        /\ Cleared({p}) /\ {p} \in SUBSET Priorities
    BY <1>15 DEF ClearPriority
  <2>2. \A r \in Priorities : queue[r] = <<>> => queue'[r] = <<>>
    BY <2>1, ClearedEmpties
  <2> QED
    BY <1>4, <2>1, <2>2
<1>16. CASE Tell
  <2>1. PICK w \in Workers : told' = told \cup {w} /\ thread' = Awake({w})
    BY <1>16 DEF Tell
  <2>2. \A v \in Workers : thread'[v] = "waiting" => thread[v] = "waiting" /\ v # w
    BY <2>1 DEF Awake
  <2> QED
    BY <1>1, <1>16, <2>1, <2>2 DEF Tell, Slept, Tidings
<1>17. CASE Join \/ StartWorker
  <2>1. UNCHANGED <<queue, notifying, told, held, serves>>
    BY <1>17 DEF Join, StartWorker
  <2>2. \A v \in Workers : thread'[v] = "waiting" => thread[v] = "waiting"
    BY <1>3, <1>17 DEF Join, StartWorker, Launch
  <2> QED
    BY <1>1, <2>1, <2>2 DEF Slept, Tidings
<1>18. CASE LosePriority
  <2>1. UNCHANGED <<queue, notifying, thread, told, held>>
    BY <1>18 DEF LosePriority
  <2>2. \A v \in Workers : serves'[v] \subseteq serves[v]
    BY <1>3, <1>18 DEF LosePriority
  <2> QED
    BY <1>1, <2>1, <2>2 DEF Slept, Tidings
<1>19. ASSUME \/ Started \/ StopFails \/ Stopped \/ StoreWorking \/ RemoveOne \/ Through \/ Start
              \/ \E p \in Priorities : RemoveWorkers(p)
              \/ \E b \in BOOLEAN : Pause(b)
       PROVE  Kept
  <2>1. UNCHANGED <<queue, notifying, thread, told, held, serves>>
    BY <1>19 DEF Started, StopFails, Stopped, StoreWorking, RemoveOne, Through, Start, Pause, RemoveWorkers
  <2> QED
    BY <1>1, <2>1
<1>20. CASE UNCHANGED pool_vars
  BY <1>1, <1>20 DEF pool_vars
<1> QED
  BY <1>5, <1>6, <1>7, <1>8, <1>9, <1>10, <1>11, <1>12, <1>13, <1>14, <1>15, <1>16, <1>17, <1>18,
     <1>19, <1>20 DEF PoolNext, WorkerStep, CallStep

\* No worker sleeps through a stop, the end of a pause or the push of a job it
\* serves, for any number of workers, jobs and calls: what can still be missed
\* is only what the push has yet to notify.
THEOREM NoWakeUpIsLost == PoolSpec => []WakeUpsKept
<1>1. PoolInit => PoolTypeOK /\ JobsAccounted /\ TeamInv /\ WakeUpsKept
  BY TypeStarts, AccountedStarts, TeamStarts, WakeUpsStart
<1>2. PoolTypeOK /\ JobsAccounted /\ TeamInv /\ WakeUpsKept /\ [PoolNext]_pool_vars
        => PoolTypeOK' /\ JobsAccounted' /\ TeamInv' /\ WakeUpsKept'
  BY TypeKeeps, AccountedKeeps, TeamKeeps, WakeUpsKeep
<1> QED
  BY <1>1, <1>2, PTL DEF PoolSpec

----------------------------------------------------------------------------
(* Waiting for one another.                                                *)

\* A worker runs a job exactly while it is about it, and serves priorities of
\* its order only.
WorkInv ==
  /\ \A w \in Workers : doing[w] # NoJob <=> thread[w] = "running"
  /\ \A w \in Workers : serves[w] \subseteq ToSet(Order[w])

LEMMA WorkStarts == PoolInit => WorkInv
<1> SUFFICES ASSUME PoolInit PROVE WorkInv
  OBVIOUS
<1>1. PICK s \in Setups : serves = s.serves
  BY DEF PoolInit
<1>2. \A w \in Workers : serves[w] \subseteq ToSet(Order[w])
  BY <1>1, PoolAssumption
<1> QED
  BY <1>2 DEF PoolInit, WorkInv

LEMMA WorkKeeps == PoolTypeOK /\ TeamInv /\ WorkInv /\ [PoolNext]_pool_vars => WorkInv'
<1> SUFFICES ASSUME PoolTypeOK, TeamInv, WorkInv, [PoolNext]_pool_vars PROVE WorkInv'
  OBVIOUS
<1> USE DEF jobVars, poolVars, workerVars
<1>1. /\ thread \in [Workers -> Places] /\ doing \in [Workers -> Jobs \cup {NoJob}]
      /\ serves \in [Workers -> SUBSET Priorities] /\ NoJob \notin Jobs
      /\ queue \in [Priorities -> Seq(Jobs)]
  BY PoolAssumption DEF PoolTypeOK
<1>2. ASSUME UNCHANGED <<doing, serves>>,
             \A w \in Workers : thread[w] = "running" <=> thread'[w] = "running"
      PROVE  WorkInv'
  BY <1>2 DEF WorkInv
<1>3. ASSUME NEW w \in Workers, PopJob(w) PROVE WorkInv'
  <2>1. PICK p \in Best(w) : doing' = [doing EXCEPT ![w] = Head(queue[p])]
    BY <1>3 DEF PopJob
  <2>2. p \in Priorities /\ queue[p] \in Seq(Jobs) /\ queue[p] # <<>>
    BY <1>1 DEF Best
  <2>3. Head(queue[p]) \in Jobs
    BY <2>2, ToSetTail
  <2> QED
    BY <1>1, <1>3, <2>1, <2>3 DEF PopJob, WorkInv
<1>4. ASSUME NEW w \in Workers, Finish(w) PROVE WorkInv'
  BY <1>1, <1>4 DEF Finish, WorkInv
<1>5. CASE LosePriority
  BY <1>1, <1>5 DEF LosePriority, WorkInv
<1>6. ASSUME NEW w \in Workers, Test(w) \/ PopNothing(w) \/ LookAgain(w) \/ Spurious(w) PROVE WorkInv'
  BY <1>1, <1>2, <1>6 DEF Test, PopNothing, LookAgain, Ends, Spurious, Awake
<1>7. ASSUME NEW w \in Workers, PushWorker(w) PROVE WorkInv'
  <2>1. thread[w] = "none"
    BY <1>7, ToSetEmpty DEF PushWorker, MutexFree, TeamInv, Members
  <2> QED
    BY <1>1, <1>2, <1>7, <2>1 DEF PushWorker, Launch
<1>8. ASSUME NEW j \in Jobs, PushAdmit(j) \/ PushInsert(j) \/ PushNotify(j) PROVE WorkInv'
  BY <1>1, <1>2, <1>8 DEF PushAdmit, PushInsert, PushNotify, Awake
<1>9. ASSUME NEW b \in BOOLEAN, Stop(b) \/ Pause(b) PROVE WorkInv'
  BY <1>2, <1>9 DEF Stop, Pause
<1>10. ASSUME NEW p \in Priorities, ClearPriority(p) \/ RemoveWorkers(p) PROVE WorkInv'
  BY <1>2, <1>10 DEF ClearPriority, RemoveWorkers
<1>11. CASE Tell \/ Join \/ StartWorker \/ PauseWorker
  BY <1>1, <1>2, <1>11 DEF Tell, Join, StartWorker, PauseWorker, Launch, Awake
<1>12. CASE Started \/ StopFails \/ Stopped \/ StoreWorking \/ RemoveOne \/ Through \/ Start
  BY <1>2, <1>12 DEF Started, StopFails, Stopped, StoreWorking, RemoveOne, Through, Start
<1>13. CASE UNCHANGED pool_vars
  BY <1>2, <1>13 DEF pool_vars
<1> QED
  BY <1>3, <1>4, <1>5, <1>6, <1>7, <1>8, <1>9, <1>10, <1>11, <1>12, <1>13
     DEF PoolNext, WorkerStep, CallStep

\* A set of naturals that is not empty has a least element.
LEMMA NatOrder ==
  \E R : IsWellFoundedOn(R, Nat) /\ \A x, y \in Nat : <<x, y>> \in R <=> x < y
<1>1. IsWellFoundedOn(OpToRel(<, Nat), Nat) BY NatLessThanWellFounded
<1>2. \A x, y \in Nat : <<x, y>> \in OpToRel(<, Nat) <=> x < y BY DEF OpToRel
<1> QED BY <1>1, <1>2

LEMMA LeastNatural ==
  ASSUME NEW T, T \subseteq Nat, T # {}
  PROVE  \E n \in T : \A m \in T : n <= m
<1>1. PICK R : IsWellFoundedOn(R, Nat) /\ \A x, y \in Nat : <<x, y>> \in R <=> x < y
  BY NatOrder
<1>2. IsWellFoundedOn(R, Nat) BY <1>1
<1>3. PICK x \in T : \A y \in T : ~(<<y, x>> \in R) BY <1>2, WFMin
<1>4. \A y \in T : ~(y < x) BY <1>1, <1>3
<1> QED BY <1>4

\* pop finds a job whenever a queue the worker serves has one.
LEMMA BestIsFound ==
  ASSUME PoolTypeOK, WorkInv, NEW w \in Workers, NEW r \in serves[w], queue[r] # <<>>
  PROVE  Best(w) # {}
<1>1. Order[w] \in Seq(Priorities) /\ r \in ToSet(Order[w])
  BY PoolAssumption DEF WorkInv
<1> DEFINE T == {i \in Nat : /\ i \in DOMAIN Order[w] /\ Order[w][i] \in serves[w]
                             /\ queue[Order[w][i]] # <<>>}
<1>2. T # {}
  BY <1>1 DEF ToSet
<1>3. PICK i \in T : \A m \in T : i <= m
  BY <1>2, LeastNatural
<1>4. \A k \in 1 .. i - 1 : k \in DOMAIN Order[w] /\ k \notin T
  BY <1>1, <1>3
<1>5. Order[w][i] \in Best(w)
  BY <1>3, <1>4 DEF Best
<1> QED
  BY <1>5

LEMMA StuckStep ==
  ASSUME PoolTypeOK, TeamInv, WakeUpsKept, WorkInv
  PROVE  NeverStuck
<1> SUFFICES ASSUME call.op # "none", ~CallMoves
             PROVE  WorkerMoves(Current) \/ Deadlocked
  BY DEF NeverStuck
<1>1. call.todo # <<>> /\ call.op \in {"start", "stop", "remove", "pause"} /\ Current \in Workers
  BY CallGoesOn DEF CallMoves, PoolTypeOK, CallRecords
<1>2. thread[Current] \in {"testing", "waiting", "popping", "empty", "running"}
  BY <1>1 DEF CallMoves, PoolTypeOK, Places
<1>3. CASE thread[Current] = "popping"
  BY <1>1, <1>3, BestIsFound DEF WorkerMoves
<1>4. CASE thread[Current] # "popping"
  <2>1. Doomed(Current) /\ Current \in told
    BY <1>1, <1>2, <1>4 DEF CallMoves, Doomed, AtWorker
  <2>2. thread[Current] # "waiting"
    BY <1>1, <2>1 DEF WakeUpsKept
  <2>3. CASE thread[Current] = "running" /\ \E j \in notifying : Parent[j] = doing[Current]
    BY <1>1, <2>1, <2>3 DEF Deadlocked, WorkInv
  <2> QED
    BY <1>2, <1>4, <2>2, <2>3 DEF WorkerMoves
<1> QED
  BY <1>3, <1>4

\* A call that holds mutex_ never waits for a worker that sleeps, or for one that
\* finds no job: as long as it is not deadlocked with a job that pushes another
\* one, it or the worker it is at can go on, for any number of workers and jobs.
THEOREM CallsGoOn == PoolSpec => []NeverStuck
<1>1. PoolInit => PoolTypeOK /\ JobsAccounted /\ TeamInv /\ WakeUpsKept /\ WorkInv
  BY TypeStarts, AccountedStarts, TeamStarts, WakeUpsStart, WorkStarts
<1>2. PoolTypeOK /\ JobsAccounted /\ TeamInv /\ WakeUpsKept /\ WorkInv /\ [PoolNext]_pool_vars
        => PoolTypeOK' /\ JobsAccounted' /\ TeamInv' /\ WakeUpsKept' /\ WorkInv'
  BY TypeKeeps, AccountedKeeps, TeamKeeps, WakeUpsKeep, WorkKeeps
<1>3. PoolTypeOK /\ TeamInv /\ WakeUpsKept /\ WorkInv => NeverStuck
  BY StuckStep
<1> QED
  BY <1>1, <1>2, <1>3, PTL DEF PoolSpec

\* The pools of the daemon are of this kind (no job of MailboxHandler or
\* QueueManager pushes another): there the exception falls away.
THEOREM ChildlessPoolsGoOn ==
  ASSUME \A j \in Jobs : Parent[j] = NoJob
  PROVE  PoolSpec => [](call.op # "none" => CallMoves \/ WorkerMoves(Current))
<1>1. ASSUME PoolTypeOK, NeverStuck PROVE call.op # "none" => CallMoves \/ WorkerMoves(Current)
  BY <1>1 DEF NeverStuck, Deadlocked, PoolTypeOK
<1> QED
  BY <1>1, CallsGoOn, PoolTypeCorrect, PTL

LEMMA DeadlockKeeps ==
  PoolTypeOK /\ TeamInv /\ WorkInv /\ Deadlocked /\ [PoolNext]_pool_vars => Deadlocked'
<1> SUFFICES ASSUME PoolTypeOK, TeamInv, WorkInv, Deadlocked, [PoolNext]_pool_vars PROVE Deadlocked'
  OBVIOUS
<1> USE DEF jobVars, poolVars, workerVars
<1>1. PICK w \in Workers, j \in notifying :
        Doomed(w) /\ doing[w] # NoJob /\ Parent[j] = doing[w]
  BY DEF Deadlocked
<1>2. /\ j \in Jobs /\ thread[w] = "running" /\ doing \in [Workers -> Jobs \cup {NoJob}]
      /\ thread \in [Workers -> Places] /\ serves \in [Workers -> SUBSET Priorities]
      /\ notifying \subseteq Jobs
  BY <1>1 DEF PoolTypeOK, WorkInv
<1>3. /\ call.todo # <<>> /\ w = Current /\ call.op \in {"start", "stop", "remove"}
      /\ call.op = "remove" => serves[w] = {}
  BY <1>1, DoomedIsCurrent
<1>4. SUFFICES /\ j \in notifying' /\ doing'[w] = doing[w] /\ thread'[w] # "none"
               /\ UNCHANGED <<call, serves>>
  BY <1>1, <1>3, <1>4 DEF Deadlocked, Doomed, AtWorker, Current
<1> DEFINE Stays == /\ j \in notifying' /\ doing'[w] = doing[w] /\ thread'[w] # "none"
                    /\ UNCHANGED <<call, serves>>
<1>5. ASSUME NEW i \in Jobs, PushAdmit(i) \/ PushInsert(i) PROVE Stays
  BY <1>1, <1>2, <1>5 DEF PushAdmit, PushInsert
<1>6. ASSUME NEW v \in Workers, Test(v) \/ PopNothing(v) \/ LookAgain(v) \/ Spurious(v) PROVE Stays
  BY <1>1, <1>2, <1>6 DEF Test, PopNothing, LookAgain, Ends, Spurious, Awake
<1>7. ASSUME NEW v \in Workers, PopJob(v) PROVE Stays
  BY <1>1, <1>2, <1>7 DEF PopJob
<1>8. ASSUME NEW v \in Workers, Finish(v) PROVE Stays
  BY <1>1, <1>2, <1>8 DEF Finish
<1>9. ASSUME NEW p \in Priorities, ClearPriority(p) PROVE Stays
  BY <1>1, <1>2, <1>9 DEF ClearPriority
<1>10. CASE Tell
  BY <1>1, <1>2, <1>10 DEF Tell, Awake
<1>11. CASE StoreWorking
  BY <1>1, <1>2, <1>11 DEF StoreWorking
<1>12. ~Join
  BY <1>2, <1>3, DoomedIsCurrent DEF Join
<1>13. ~(StartWorker \/ Started \/ StopFails \/ Stopped \/ LosePriority \/ RemoveOne \/ PauseWorker \/ Through)
  BY <1>2, <1>3 DEF StartWorker, Started, StopFails, Stopped, LosePriority, RemoveOne, PauseWorker,
                    Through, AtWorker
<1>14. /\ \A i \in Jobs : ~PushNotify(i)
       /\ \A v \in Workers : ~PushWorker(v)
       /\ ~Start /\ \A b \in BOOLEAN : ~Stop(b) /\ ~Pause(b)
       /\ \A p \in Priorities : ~RemoveWorkers(p)
  BY <1>3 DEF PushNotify, PushWorker, Start, Stop, Pause, RemoveWorkers, Begins, MutexFree
<1>15. CASE UNCHANGED pool_vars
  BY <1>1, <1>2, <1>15 DEF pool_vars
<1> QED
  BY <1>5, <1>6, <1>7, <1>8, <1>9, <1>10, <1>11, <1>12, <1>13, <1>14, <1>15
     DEF PoolNext, WorkerStep, CallStep

\* The call joins under mutex_, the job it waits for pushes and takes mutex_ to
\* notify: once that has come about, no step of anybody undoes it.
THEOREM DeadlockIsFinal == PoolSpec => DeadlockLasts
<1>1. PoolInit => PoolTypeOK /\ TeamInv /\ WorkInv
  BY TypeStarts, TeamStarts, WorkStarts
<1>2. PoolTypeOK /\ TeamInv /\ WorkInv /\ [PoolNext]_pool_vars
        => PoolTypeOK' /\ TeamInv' /\ WorkInv'
  BY TypeKeeps, TeamKeeps, WorkKeeps
<1>3. PoolTypeOK /\ TeamInv /\ WorkInv /\ [PoolNext]_pool_vars
        => [Deadlocked => Deadlocked']_pool_vars
  BY DeadlockKeeps
<1> QED
  BY <1>1, <1>2, <1>3, PTL DEF PoolSpec, DeadlockLasts
=============================================================================
