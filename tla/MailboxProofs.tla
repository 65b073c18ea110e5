---------------------------- MODULE MailboxProofs ----------------------------
(***************************************************************************)
(* What the mailbox keeps for any requests, timeouts, crashes and losses,  *)
(* in whatever order files are listed and paths are queued: a request is   *)
(* executed at most once, and answered if it is executed; and none is      *)
(* forgotten while the watcher reports.                                    *)
(***************************************************************************)
EXTENDS Mailbox, FiniteSetTheorems, TLAPS

At(w, r) == worker = w /\ Head(batch) = r

\* What is known of one request.  Once handled its file never is in requests
\* again, so that it cannot be picked up again; while the worker has it, the
\* clean-up may at most have moved it to dead; its answer comes before its
\* deletion.
Tracked(r) ==
  /\ handled[r] <= 1
  /\ handled[r] > 0 => place[r] \in {"processing", "dead", "gone"}
  /\ At("picked", r) => handled[r] = 0 /\ place[r] \in {"processing", "dead"}
  /\ At("handled", r) => place[r] \in {"processing", "dead"}
  /\ At("answered", r) => response[r] # "none"
  /\ handled[r] > 0 /\ response[r] = "none" =>
       At("handled", r) \/ (crashes > 0 /\ place[r] # "gone")

MailInv ==
  /\ place \in [Requests -> Places]
  /\ response \in [Requests -> Responses]
  /\ handled \in [Requests -> Nat]
  /\ crashes \in Nat
  /\ \A r \in Requests : Tracked(r)

LEMMA MailStarts == MailInit => MailInv
BY DEF MailInit, MailInv, Tracked, At, Places, Responses

LEMMA MailKeeps == MailInv /\ [MailNext]_mailVars => MailInv'
<1> SUFFICES ASSUME MailInv, [MailNext]_mailVars PROVE MailInv'
  OBVIOUS
<1> USE DEF MailInv, Tracked, At, Places, Responses, daemonVars
<1>1. ASSUME NEW r \in Requests, Send(r) PROVE MailInv'
  BY <1>1 DEF Send, workerVars
<1>2. ASSUME NEW r \in Requests, TakeAnswer(r) PROVE MailInv'
  BY <1>2 DEF TakeAnswer, workerVars
<1>3. ASSUME NEW r \in Requests, GiveUp(r) PROVE MailInv'
  BY <1>3 DEF GiveUp, workerVars, fileVars
<1>4. ASSUME NEW r \in Requests, EventArrives(r) PROVE MailInv'
  BY <1>4 DEF EventArrives, fileVars
<1>5. ASSUME NEW r \in Requests, EventLost(r) PROVE MailInv'
  BY <1>5 DEF EventLost, workerVars, fileVars
<1>6. ASSUME NEW r \in Requests, SweepRequest(r) PROVE MailInv'
  BY <1>6 DEF SweepRequest, workerVars
<1>7. ASSUME NEW r \in Requests, SweepResponse(r) PROVE MailInv'
  BY <1>7 DEF SweepResponse, workerVars
<1>8. CASE Start
  BY <1>8 DEF Start, fileVars
<1>9. CASE ListExisting
  BY <1>9 DEF ListExisting, fileVars
<1>10. CASE Grab
  BY <1>10 DEF Grab, fileVars
<1>11. CASE Poll
  BY <1>11 DEF Poll, fileVars
<1>12. CASE PickUp
  BY <1>12 DEF PickUp, Advance
<1>13. CASE Handle
  <2>1. /\ worker = "picked" /\ worker' = "handled"
        /\ handled' = [handled EXCEPT ![Head(batch)] = @ + 1]
        /\ UNCHANGED <<place, response, batch, crashes>>
    BY <1>13 DEF Handle, fileVars
  <2>2. handled' \in [Requests -> Nat]
    <3>1. handled' = [r \in Requests |-> IF r = Head(batch) THEN handled[r] + 1 ELSE handled[r]]
      BY <2>1, Zenon
    <3>2. \A r \in Requests : handled[r] \in Nat /\ handled[r] + 1 \in Nat
      OBVIOUS
    <3> QED BY <3>1, <3>2
  <2>3. ASSUME NEW r \in Requests PROVE Tracked(r)'
    <3>1. CASE Head(batch) = r
      <4>1. handled[r] = 0 /\ handled'[r] = 1
        BY <2>1, <3>1
      <4>2. place'[r] \in {"processing", "dead"} /\ (At("handled", r))'
        BY <2>1, <3>1
      <4> QED BY <2>1, <4>1, <4>2
    <3>2. CASE Head(batch) # r
      <4>1. handled'[r] = handled[r] /\ ~(At("handled", r))
        BY <2>1, <3>2
      <4> QED BY <2>1, <3>2, <4>1
    <3> QED BY <3>1, <3>2
  <2> QED BY <2>1, <2>2, <2>3
<1>14. CASE Reject
  BY <1>14 DEF Reject, Advance
<1>15. CASE Answer
  BY <1>15 DEF Answer
<1>16. CASE Finish
  BY <1>16 DEF Finish, Advance
<1>17. CASE Dies
  BY <1>17 DEF Dies, fileVars
<1>18. CASE Tick
  BY <1>18 DEF Tick, workerVars
<1>19. CASE UNCHANGED mailVars
  BY <1>19 DEF mailVars, fileVars, workerVars
<1>20. CASE Choke
  BY <1>20 DEF Choke, fileVars
<1>21. CASE Throw
  BY <1>21 DEF Throw, Advance
<1> HIDE DEF MailInv
<1> QED
  BY <1>1, <1>2, <1>3, <1>4, <1>5, <1>6, <1>7, <1>8, <1>9, <1>10, <1>11, <1>12, <1>13, <1>14,
     <1>15, <1>16, <1>17, <1>18, <1>19, <1>20, <1>21 DEF MailNext, Work, Crash, Abort

LEMMA MailSafe == MailSpec => []MailInv
BY MailStarts, MailKeeps, PTL DEF MailSpec

----------------------------------------------------------------------------
(* Types.                                                                  *)

LEMMA BoundsTyped ==
  OldAge \in Nat /\ OldResponse \in Nat /\ MaxLosses \in Nat
<1>1. Timeout \in Nat /\ StaleTimeout \in Nat /\ ResponseTtl \in Nat
      /\ MaxLosses \in Nat
  BY MailAssumption
<1>2. Max({Timeout, StaleTimeout}) \in {Timeout, StaleTimeout}
  <2>1. \E x \in {Timeout, StaleTimeout} : \A y \in {Timeout, StaleTimeout} : x >= y
    BY <1>1
  <2> QED BY <2>1 DEF Max
<1> QED BY <1>1, <1>2 DEF OldAge, OldResponse

\* A listing names every file of requests.
LEMMA ListingComplete ==
  ASSUME NEW files \in Listings
  PROVE  files \in Seq(Requests) /\ ToSet(files) = In("requests")
<1> DEFINE S == In("requests")
           n == Cardinality(S)
<1>1. IsFiniteSet(S) BY MailAssumption, FS_Subset DEF In
<1>2. n \in Nat BY <1>1, FS_CardinalityType
<1>3. files \in [1 .. n -> S] /\ \A i, j \in 1 .. n : i # j => files[i] # files[j]
  BY DEF Listings, SetToSeqs
<1>4. files \in Injection(1 .. n, S) BY <1>3 DEF Injection, IsInjective
<1>5. Cardinality(1 .. n) = n BY <1>2, FS_Interval
<1>6. files \in Surjection(1 .. n, S) BY <1>1, <1>4, <1>5, FS_Injection
<1>7. \A r \in S : \E i \in 1 .. n : files[i] = r BY <1>6 DEF Surjection
<1>8. files \in Seq(Requests) BY <1>2, <1>3 DEF In
<1>9. DOMAIN files = 1 .. n BY <1>3
<1> QED BY <1>3, <1>7, <1>8, <1>9 DEF ToSet

\* MailTypeOK but for what never changes.
Typed ==
  /\ place \in [Requests -> Places] /\ age \in [Requests -> 0 .. OldAge]
  /\ response \in [Requests -> Responses] /\ response_age \in [Requests -> 0 .. OldResponse]
  /\ waiting \subseteq Requests /\ events \subseteq Requests /\ lost \subseteq Requests
  /\ worker \in {"down", "starting", "idle", "ended"} \cup Busy /\ doomed \in BOOLEAN
  /\ pending \in Seq(Requests) /\ batch \in Seq(Requests)
  /\ worker \in Busy <=> batch # <<>>
  /\ handled \in [Requests -> Nat]
  /\ crashes \in Nat /\ losses \in 0 .. MaxLosses

LEMMA TypeParts == MailTypeOK <=> Typed /\ polling \in BOOLEAN /\ kind \in Contents
BY DEF MailTypeOK, Typed

LEMMA TypeStarts == MailInit => Typed /\ polling \in BOOLEAN /\ kind \in Contents
<1> SUFFICES ASSUME MailInit PROVE Typed /\ polling \in BOOLEAN /\ kind \in Contents
  OBVIOUS
<1>1. /\ age \in [Requests -> 0 .. OldAge] /\ response_age \in [Requests -> 0 .. OldResponse]
      /\ handled \in [Requests -> Nat] /\ crashes \in Nat /\ losses \in 0 .. MaxLosses
  BY BoundsTyped DEF MailInit
<1>2. pending \in Seq(Requests) /\ batch \in Seq(Requests) /\ batch = <<>> /\ worker = "down"
  BY DEF MailInit
<1> QED BY <1>1, <1>2 DEF MailInit, Typed, Places, Responses, Busy

LEMMA AdvanceTypes ==
  ASSUME Typed, worker \in Busy, Advance
  PROVE  /\ worker' \in {"down", "starting", "idle", "ended"} \cup Busy
         /\ pending' \in Seq(Requests) /\ batch' \in Seq(Requests)
         /\ worker' \in Busy <=> batch' # <<>>
<1>1. batch \in Seq(Requests) /\ batch # <<>> /\ pending \in Seq(Requests) BY DEF Typed
<1>2. Tail(batch) \in Seq(Requests) BY <1>1
<1>3. batch' = Tail(batch) /\ pending' = pending
      /\ worker' = IF batch' = <<>> THEN "idle" ELSE "next"
  BY DEF Advance
<1>4. CASE batch' = <<>>
  <2>1. worker' = "idle" BY <1>3, <1>4
  <2> QED BY <1>1, <1>2, <1>3, <1>4, <2>1 DEF Busy
<1>5. CASE batch' # <<>>
  <2>1. worker' = "next" BY <1>3, <1>5
  <2> QED BY <1>1, <1>2, <1>3, <1>5, <2>1 DEF Busy
<1> QED BY <1>4, <1>5

LEMMA HeadListed == Typed /\ worker \in Busy => Head(batch) \in Requests
BY DEF Typed

LEMMA TypeKeeps == Typed /\ [MailNext]_mailVars => Typed'
<1> SUFFICES ASSUME Typed, [MailNext]_mailVars PROVE Typed'
  OBVIOUS
<1> USE BoundsTyped DEF Typed, daemonVars
<1>1. ASSUME NEW r \in Requests, Send(r) PROVE Typed'
  BY <1>1 DEF Send, workerVars, Places
<1>2. ASSUME NEW r \in Requests, TakeAnswer(r) PROVE Typed'
  BY <1>2 DEF TakeAnswer, workerVars, Responses
<1>3. ASSUME NEW r \in Requests, GiveUp(r) PROVE Typed'
  BY <1>3 DEF GiveUp, workerVars, fileVars
<1>4. ASSUME NEW r \in Requests, EventArrives(r) PROVE Typed'
  <2>1. pending' \in Seq(Requests) /\ events' \subseteq Requests BY <1>4 DEF EventArrives
  <2>2. UNCHANGED <<fileVars, waiting, worker, batch, lost, handled, daemonVars>>
    BY <1>4 DEF EventArrives
  <2> QED BY <2>1, <2>2 DEF fileVars
<1>5. ASSUME NEW r \in Requests, EventLost(r) PROVE Typed'
  BY <1>5 DEF EventLost, workerVars, fileVars
<1>6. ASSUME NEW r \in Requests, SweepRequest(r) PROVE Typed'
  BY <1>6 DEF SweepRequest, workerVars, Places
<1>7. ASSUME NEW r \in Requests, SweepResponse(r) PROVE Typed'
  <2>1. /\ response' \in [Requests -> Responses]
        /\ response_age' \in [Requests -> 0 .. OldResponse]
    BY <1>7 DEF SweepResponse, Responses
  <2>2. UNCHANGED <<place, age, waiting, workerVars, events, lost, handled, daemonVars>>
    BY <1>7 DEF SweepResponse
  <2> QED BY <2>1, <2>2 DEF workerVars
<1>8. CASE Start
  BY <1>8 DEF Start, fileVars, Busy
<1>9. CASE ListExisting
  <2>1. PICK files \in Listings : pending' = pending \o files BY <1>9 DEF ListExisting
  <2>2. files \in Seq(Requests) BY ListingComplete
  <2> QED BY <1>9, <2>1, <2>2 DEF ListExisting, fileVars, Busy
<1>10. CASE Grab
  BY <1>10 DEF Grab, fileVars, Busy
<1>11. CASE Poll
  <2>1. batch' \in Seq(Requests) /\ ToSet(batch') = In("requests") /\ In("requests") # {}
    BY <1>11, ListingComplete DEF Poll
  <2>2. batch' # <<>> BY <2>1 DEF ToSet
  <2> QED BY <1>11, <2>1, <2>2 DEF Poll, fileVars, Busy
<1>12. CASE PickUp
  <2>1. worker \in Busy /\ Head(batch) \in Requests
    BY <1>12, HeadListed DEF PickUp, Busy
  <2>2. CASE place[Head(batch)] = "requests"
    BY <1>12, <2>1, <2>2 DEF PickUp, Places, Busy
  <2>3. CASE place[Head(batch)] # "requests"
    BY <1>12, <2>1, <2>3, AdvanceTypes DEF PickUp
  <2> QED BY <2>2, <2>3
<1>13. CASE Handle
  <2>1. handled' = [handled EXCEPT ![Head(batch)] = @ + 1] BY <1>13 DEF Handle
  <2>2. handled' \in [Requests -> Nat]
    <3>1. handled' = [r \in Requests |-> IF r = Head(batch) THEN handled[r] + 1 ELSE handled[r]]
      BY <2>1, Zenon
    <3>2. \A r \in Requests : handled[r] \in Nat /\ handled[r] + 1 \in Nat
      OBVIOUS
    <3> QED BY <3>1, <3>2
  <2> QED BY <1>13, <2>2 DEF Handle, fileVars, Busy
<1>14. CASE Reject
  <2>1. worker \in Busy BY <1>14 DEF Reject, Busy
  <2>2. place' \in [Requests -> Places] BY <1>14 DEF Reject, Places
  <2> QED BY <1>14, <2>1, <2>2, AdvanceTypes DEF Reject
<1>15. CASE Answer
  <2>1. \A v \in Responses : [response EXCEPT ![Head(batch)] = v] \in [Requests -> Responses]
    OBVIOUS
  <2>2. response' \in [Requests -> Responses]
    <3>1. response' \in {[response EXCEPT ![Head(batch)] = v] : v \in {"there", "failed"}}
      BY <1>15 DEF Answer
    <3> QED BY <2>1, <3>1 DEF Responses
  <2>3. response_age' \in [Requests -> 0 .. OldResponse] /\ losses' \in 0 .. MaxLosses
    <3>1. /\ response_age' \in {response_age, [response_age EXCEPT ![Head(batch)] = 0]}
          /\ losses' = losses \/ (losses < MaxLosses /\ losses' = losses + 1)
      BY <1>15 DEF Answer
    <3>2. 0 \in 0 .. OldResponse OBVIOUS
    <3>3. [response_age EXCEPT ![Head(batch)] = 0] \in [Requests -> 0 .. OldResponse] BY <3>2
    <3>4. losses' \in 0 .. MaxLosses BY <3>1
    <3> QED BY <3>1, <3>3, <3>4
  <2>4. worker = "handled" /\ worker' = "answered"
        /\ UNCHANGED <<place, age, waiting, pending, batch, events, lost, handled, doomed, crashes>>
    BY <1>15 DEF Answer
  <2> QED BY <2>2, <2>3, <2>4 DEF Busy
<1>16. CASE Finish
  <2>1. worker \in Busy BY <1>16 DEF Finish, Busy
  <2>2. place' \in [Requests -> Places] BY <1>16 DEF Finish, Places
  <2> QED BY <1>16, <2>1, <2>2, AdvanceTypes DEF Finish
<1>17. CASE Dies
  <2>1. <<>> \in Seq(Requests) OBVIOUS
  <2>2. worker' = "down" /\ pending' = <<>> /\ batch' = <<>> /\ events' = {} /\ lost' = {}
        /\ UNCHANGED <<place, age, response, response_age, waiting, handled, losses>>
    BY <1>17 DEF Dies, fileVars
  <2>3. crashes' \in Nat /\ doomed' = FALSE BY <1>17 DEF Dies
  <2> QED BY <2>1, <2>2, <2>3 DEF Busy
<1>18. CASE Tick
  <2>1. ASSUME NEW f, NEW old \in Nat, NEW S, f \in [Requests -> 0 .. old]
        PROVE  [r \in Requests |-> IF r \in S /\ f[r] < old THEN f[r] + 1 ELSE f[r]]
                 \in [Requests -> 0 .. old]
    BY <2>1
  <2>2. age' \in [Requests -> 0 .. OldAge] BY <1>18, <2>1 DEF Tick
  <2>3. response_age' \in [Requests -> 0 .. OldResponse] BY <1>18, <2>1 DEF Tick
  <2> QED BY <1>18, <2>2, <2>3 DEF Tick, workerVars
<1>19. CASE UNCHANGED mailVars
  BY <1>19 DEF mailVars, fileVars, workerVars
<1>20. CASE Choke
  BY <1>20 DEF Choke, fileVars, Busy
<1>21. CASE Throw
  <2>1. worker \in Busy BY <1>21 DEF Throw, Busy
  <2>2. CASE place[Head(batch)] = "processing"
    <3>1. <<>> \in Seq(Requests) OBVIOUS
    <3>2. place' \in [Requests -> Places] BY <1>21, <2>2 DEF Throw, Places
    <3>3. worker' = "ended" /\ batch' = <<>> /\ pending' = pending BY <1>21, <2>2 DEF Throw
    <3> QED BY <1>21, <3>1, <3>2, <3>3 DEF Throw, Busy
  <2>3. CASE place[Head(batch)] # "processing"
    BY <1>21, <2>1, <2>3, AdvanceTypes DEF Throw
  <2> QED BY <2>2, <2>3
<1> HIDE DEF Typed
<1> QED
  BY <1>1, <1>2, <1>3, <1>4, <1>5, <1>6, <1>7, <1>8, <1>9, <1>10, <1>11, <1>12, <1>13, <1>14,
     <1>15, <1>16, <1>17, <1>18, <1>19, <1>20, <1>21 DEF MailNext, Work, Crash, Abort

LEMMA Constant == [MailNext]_mailVars => UNCHANGED <<polling, kind>>
BY DEF MailNext, Work, Send, TakeAnswer, GiveUp, EventArrives, EventLost, SweepRequest,
       SweepResponse, Start, ListExisting, Grab, Poll, PickUp, Handle, Reject, Choke, Throw,
       Answer, Finish, Dies, Crash, Abort, Tick, mailVars

LEMMA MailTyped == MailSpec => []Typed
BY TypeStarts, TypeKeeps, PTL DEF MailSpec

----------------------------------------------------------------------------
(* No request is forgotten.                                                *)

\* While the worker has a request, its file is out of requests.
HeldOut == worker \in {"picked", "choking", "handled", "answered"} =>
             place[Head(batch)] \in {"processing", "dead", "gone"}

LEMMA ToSetAppend ==
  ASSUME NEW s \in Seq(Requests), NEW r \in Requests
  PROVE  ToSet(Append(s, r)) = ToSet(s) \cup {r}
<1> DEFINE t == Append(s, r)
<1>1. DOMAIN t = 1 .. Len(s) + 1 /\ t[Len(s) + 1] = r
      /\ DOMAIN s = 1 .. Len(s) /\ \A i \in DOMAIN s : t[i] = s[i]
  OBVIOUS
<1> HIDE DEF t
<1> QED BY <1>1 DEF ToSet

LEMMA ToSetConcat ==
  ASSUME NEW s \in Seq(Requests), NEW t \in Seq(Requests)
  PROVE  ToSet(t) \subseteq ToSet(s \o t)
<1> SUFFICES ASSUME NEW i \in DOMAIN t PROVE t[i] \in ToSet(s \o t)
  BY DEF ToSet
<1>1. Len(s) + i \in DOMAIN (s \o t) /\ (s \o t)[Len(s) + i] = t[i] OBVIOUS
<1> QED BY <1>1 DEF ToSet

LEMMA ToSetTail ==
  ASSUME NEW s \in Seq(Requests), s # <<>>
  PROVE  ToSet(s) \subseteq ToSet(Tail(s)) \cup {Head(s)}
<1> SUFFICES ASSUME NEW i \in DOMAIN s, i # 1 PROVE s[i] \in ToSet(Tail(s))
  BY DEF ToSet
<1>1. i - 1 \in DOMAIN Tail(s) /\ Tail(s)[i - 1] = s[i] OBVIOUS
<1> QED BY <1>1 DEF ToSet

NotForgotten == NoneForgotten /\ HeldOut

\* The worker leaves the head of its batch behind when it is not in requests.
LEMMA AdvanceForgets ==
  ASSUME Typed, NotForgotten, worker \in Busy, Advance, UNCHANGED <<polling, events, lost>>,
         In("requests")' \subseteq In("requests") \ {Head(batch)}
  PROVE  NotForgotten'
<1>1. batch \in Seq(Requests) /\ batch # <<>> BY DEF Typed
<1>2. ToSet(batch) \subseteq ToSet(batch') \cup {Head(batch)} BY <1>1, ToSetTail DEF Advance
<1>3. worker' \in {"idle", "next"} /\ pending' = pending BY DEF Advance
<1>4. NoneForgotten'
  BY <1>2, <1>3 DEF NotForgotten, NoneForgotten, Busy
<1> QED BY <1>3, <1>4 DEF NotForgotten, HeldOut

LEMMA ForgottenKeeps ==
  Typed /\ MailInv /\ NotForgotten /\ [MailNext]_mailVars => NotForgotten'
<1> SUFFICES ASSUME Typed, MailInv, NotForgotten, [MailNext]_mailVars PROVE NotForgotten'
  OBVIOUS
<1> USE DEF NotForgotten, NoneForgotten, HeldOut, In, daemonVars
<1>1. ASSUME NEW r \in Requests, Send(r) PROVE NotForgotten'
  <2>1. /\ place[r] = "none" /\ place' = [place EXCEPT ![r] = "requests"]
        /\ UNCHANGED <<worker, batch, polling, lost, pending>>
        /\ ~polling /\ worker # "down" => events' = events \cup {r}
    BY <1>1 DEF Send, workerVars
  <2>2. \A j \in Requests : place'[j] = IF j = r THEN "requests" ELSE place[j]
    BY <2>1 DEF Typed
  <2>3. NoneForgotten' BY <2>1, <2>2
  <2>4. HeldOut' BY <2>1 DEF Typed
  <2> QED BY <2>3, <2>4
<1>2. ASSUME NEW r \in Requests, TakeAnswer(r) PROVE NotForgotten'
  BY <1>2 DEF TakeAnswer, workerVars
<1>3. ASSUME NEW r \in Requests, GiveUp(r) PROVE NotForgotten'
  BY <1>3 DEF GiveUp, workerVars, fileVars
<1>4. ASSUME NEW r \in Requests, EventArrives(r) PROVE NotForgotten'
  <2>1. ToSet(pending') = ToSet(pending) \cup {r}
    BY <1>4, ToSetAppend DEF EventArrives, Typed
  <2> QED BY <1>4, <2>1 DEF EventArrives, fileVars
<1>5. ASSUME NEW r \in Requests, EventLost(r) PROVE NotForgotten'
  BY <1>5 DEF EventLost, workerVars, fileVars
<1>6. ASSUME NEW r \in Requests, SweepRequest(r) PROVE NotForgotten'
  BY <1>6 DEF SweepRequest, workerVars, Typed
<1>7. ASSUME NEW r \in Requests, SweepResponse(r) PROVE NotForgotten'
  BY <1>7 DEF SweepResponse, workerVars
<1>8. CASE Start
  BY <1>8 DEF Start, fileVars
<1>9. CASE ListExisting
  <2>1. PICK files \in Listings : pending' = pending \o files BY <1>9 DEF ListExisting
  <2>2. In("requests") \subseteq ToSet(pending')
    BY <2>1, ListingComplete, ToSetConcat DEF Typed
  <2> QED BY <1>9, <2>2 DEF ListExisting, fileVars
<1>10. CASE Grab
  <2>1. batch = <<>> BY <1>10 DEF Grab, Typed, Busy
  <2>2. ToSet(batch) = {} BY <2>1 DEF ToSet
  <2> QED BY <1>10, <2>2 DEF Grab, fileVars
<1>11. CASE Poll
  BY <1>11 DEF Poll, fileVars
<1>12. CASE PickUp
  <2>1. worker \in Busy /\ Head(batch) \in Requests
    BY <1>12, HeadListed DEF PickUp, Busy
  <2>2. CASE place[Head(batch)] = "requests"
    BY <1>12, <2>1, <2>2 DEF PickUp, Typed
  <2>3. CASE place[Head(batch)] # "requests"
    <3>1. In("requests")' \subseteq In("requests") \ {Head(batch)} BY <1>12, <2>3 DEF PickUp
    <3> HIDE DEF NotForgotten, In
    <3> QED BY <1>12, <2>1, <2>3, <3>1, AdvanceForgets DEF PickUp
  <2> QED BY <2>2, <2>3
<1>13. CASE Handle
  BY <1>13 DEF Handle, fileVars
<1>14. CASE Reject
  <2>1. worker \in Busy BY <1>14 DEF Reject, Busy
  <2>2. In("requests")' \subseteq In("requests") \ {Head(batch)} BY <1>14 DEF Reject, Typed
  <2> HIDE DEF NotForgotten, In
  <2> QED BY <1>14, <2>1, <2>2, AdvanceForgets DEF Reject
<1>15. CASE Answer
  BY <1>15 DEF Answer
<1>16. CASE Finish
  <2>1. worker \in Busy BY <1>16 DEF Finish, Busy
  <2>2. In("requests")' \subseteq In("requests") \ {Head(batch)} BY <1>16 DEF Finish, Typed
  <2> HIDE DEF NotForgotten, In
  <2> QED BY <1>16, <2>1, <2>2, AdvanceForgets DEF Finish
<1>17. CASE Dies
  BY <1>17 DEF Dies
<1>18. CASE Tick
  BY <1>18 DEF Tick, workerVars
<1>19. CASE UNCHANGED mailVars
  BY <1>19 DEF mailVars, fileVars, workerVars
<1>20. CASE Choke
  BY <1>20 DEF Choke, fileVars, Unspeakable
<1>21. CASE Throw
  <2>1. worker \in Busy BY <1>21 DEF Throw, Busy
  <2>2. CASE place[Head(batch)] = "processing"
    BY <1>21, <2>2 DEF Throw
  <2>3. CASE place[Head(batch)] # "processing"
    <3>1. In("requests")' \subseteq In("requests") \ {Head(batch)} BY <1>21, <2>3 DEF Throw
    <3> HIDE DEF NotForgotten, In
    <3> QED BY <1>21, <2>1, <2>3, <3>1, AdvanceForgets DEF Throw
  <2> QED BY <2>2, <2>3
<1> HIDE DEF NotForgotten
<1> QED
  BY <1>1, <1>2, <1>3, <1>4, <1>5, <1>6, <1>7, <1>8, <1>9, <1>10, <1>11, <1>12, <1>13, <1>14,
     <1>15, <1>16, <1>17, <1>18, <1>19, <1>20, <1>21 DEF MailNext, Work, Crash, Abort

----------------------------------------------------------------------------
(* What a crash leaves behind.                                             *)

Owned == worker \in {"picked", "choking", "handled", "answered"}

\* No step but a death of the daemon leaves anything behind; what the sweep or the restarted
\* daemon finds there gets less.
LEMMA LeftShrinks ==
  ASSUME Typed, Typed', [MailNext]_mailVars, ~Dies
  PROVE  LeftOver' \subseteq LeftOver /\ crashes' = crashes
<1> USE DEF Typed, Owned, daemonVars
<1>1. ASSUME NEW r \in Requests, Send(r) PROVE LeftOver' \subseteq LeftOver /\ crashes' = crashes
  BY <1>1 DEF Send, workerVars, LeftOver, In
<1>2. ASSUME NEW r \in Requests,
             TakeAnswer(r) \/ GiveUp(r) \/ EventArrives(r) \/ EventLost(r) \/ SweepResponse(r)
      PROVE  LeftOver' \subseteq LeftOver /\ crashes' = crashes
  <2>1. UNCHANGED <<place, worker, batch, crashes>>
    BY <1>2 DEF TakeAnswer, GiveUp, EventArrives, EventLost, SweepResponse, workerVars, fileVars
  <2> QED BY <2>1 DEF LeftOver, In
<1>3. ASSUME NEW r \in Requests, SweepRequest(r)
      PROVE  LeftOver' \subseteq LeftOver /\ crashes' = crashes
  BY <1>3 DEF SweepRequest, workerVars, LeftOver, In
<1>4. CASE Start \/ ListExisting \/ Grab \/ Poll
  <2>1. UNCHANGED <<place, crashes>> /\ ~Owned
    BY <1>4 DEF Start, ListExisting, Grab, Poll, fileVars
  <2> QED BY <2>1 DEF LeftOver, In
<1>5. CASE PickUp
  <2>1. ~Owned /\ crashes' = crashes /\ Head(batch) \in Requests
    BY <1>5, HeadListed DEF PickUp, Busy
  <2>2. CASE place[Head(batch)] = "requests"
    <3>1. place' = [place EXCEPT ![Head(batch)] = "processing"] /\ worker' = "picked"
          /\ batch' = batch
      BY <1>5, <2>2 DEF PickUp
    <3> QED BY <2>1, <3>1 DEF LeftOver, In
  <2>3. CASE place[Head(batch)] # "requests"
    <3>1. place' = place BY <1>5, <2>3 DEF PickUp
    <3> QED BY <2>1, <3>1 DEF LeftOver, In
  <2> QED BY <2>2, <2>3
<1>6. CASE Handle \/ Choke \/ Answer
  <2>1. UNCHANGED <<place, batch, crashes>> /\ Owned /\ Owned'
    BY <1>6 DEF Handle, Choke, Answer, fileVars
  <2> QED BY <2>1 DEF LeftOver, In
<1>7. CASE Reject \/ Finish
  <2>1. Head(batch) \in Requests /\ crashes' = crashes
    BY <1>7, HeadListed DEF Reject, Finish, Busy
  <2>2. /\ place'[Head(batch)] # "processing"
        /\ \A r \in Requests : r # Head(batch) => place'[r] = place[r]
    BY <1>7, <2>1 DEF Reject, Finish
  <2> QED BY <2>1, <2>2 DEF LeftOver, In
<1>8. CASE Tick
  BY <1>8 DEF Tick, workerVars, LeftOver, In
<1>9. CASE UNCHANGED mailVars
  BY <1>9 DEF mailVars, fileVars, workerVars, LeftOver, In
<1>10. CASE Throw
  <2>1. Owned /\ ~Owned' /\ crashes' = crashes /\ Head(batch) \in Requests
    BY <1>10, HeadListed DEF Throw, Advance, Busy
  <2>2. /\ place'[Head(batch)] # "processing"
        /\ \A r \in Requests : r # Head(batch) => place'[r] = place[r]
    BY <1>10, <2>1 DEF Throw
  <2> QED BY <2>1, <2>2 DEF LeftOver, In
<1> QED
  BY <1>1, <1>2, <1>3, <1>4, <1>5, <1>6, <1>7, <1>8, <1>9, <1>10 DEF MailNext, Work, Crash, Abort

\* A crash adds the request the worker is at, and the worker is at one at most.
LEMMA CrashLeavesOne ==
  ASSUME Typed, Dies
  PROVE  \E r : LeftOver' \subseteq LeftOver \cup {r}
<1>1. UNCHANGED place BY DEF Dies, fileVars
<1>2. LeftOver' \subseteq LeftOver \cup {Head(batch)} BY <1>1 DEF LeftOver, In
<1> QED BY <1>2

LEMMA LeftKeeps ==
  ASSUME Typed, Typed', LeftByCrash, [MailNext]_mailVars
  PROVE  LeftByCrash'
<1>1. IsFiniteSet(LeftOver) /\ IsFiniteSet(LeftOver')
  BY MailAssumption, FS_Subset DEF LeftOver, In
<1>2. Cardinality(LeftOver) \in Nat /\ Cardinality(LeftOver') \in Nat /\ crashes \in Nat
  BY <1>1, FS_CardinalityType DEF Typed
<1>3. CASE Dies
  <2>1. PICK r : LeftOver' \subseteq LeftOver \cup {r} BY <1>3, CrashLeavesOne
  <2>2. /\ IsFiniteSet(LeftOver \cup {r})
        /\ Cardinality(LeftOver \cup {r}) \in {Cardinality(LeftOver), Cardinality(LeftOver) + 1}
    BY <1>1, FS_AddElement
  <2>3. Cardinality(LeftOver') <= Cardinality(LeftOver \cup {r}) BY <2>1, <2>2, FS_Subset
  <2>4. crashes' = crashes + 1 BY <1>3 DEF Dies
  <2> QED BY <1>2, <2>2, <2>3, <2>4 DEF LeftByCrash
<1>4. CASE ~Dies
  <2>1. LeftOver' \subseteq LeftOver /\ crashes' = crashes BY <1>4, LeftShrinks
  <2>2. Cardinality(LeftOver') <= Cardinality(LeftOver) BY <1>1, <2>1, FS_Subset
  <2> QED BY <1>2, <2>1, <2>2 DEF LeftByCrash
<1> QED BY <1>3, <1>4

----------------------------------------------------------------------------
(* The theorems.                                                           *)

\* Every variable of the mailbox keeps its type, and the worker has a batch
\* exactly while it is busy with one.
THEOREM MailTypeCorrect == MailSpec => []MailTypeOK
<1>1. MailTypeOK /\ [MailNext]_mailVars => MailTypeOK'
  <2>1. MailTypeOK /\ Typed' /\ UNCHANGED <<polling, kind>> => MailTypeOK'
    BY Zenon DEF MailTypeOK, Typed
  <2> QED BY <2>1, TypeParts, TypeKeeps, Constant
<1>2. MailInit => MailTypeOK BY TypeStarts, TypeParts
<1> QED BY <1>1, <1>2, PTL DEF MailSpec

\* In watcher mode every request in the mailbox is still to be reported or on
\* its way to the worker, as long as that runs, unless its event was dropped: the
\* listing at the start of the worker misses none, since the watcher runs before it.
THEOREM NoRequestForgotten == MailSpec => []NoneForgotten
<1>1. MailInit => NotForgotten
  BY DEF MailInit, NotForgotten, NoneForgotten, HeldOut
<1>2. NotForgotten => NoneForgotten BY DEF NotForgotten
<1> QED BY <1>1, <1>2, MailTyped, MailSafe, ForgottenKeeps, PTL DEF MailSpec

\* The worker of MailboxHandler hands no request to the backend twice, whatever
\* the watcher, the listings, the clean-up and crashes of the daemon do: a
\* request is taken out of requests by a rename, and nothing puts it back.
THEOREM ExecutedAtMostOnce == MailSpec => []HandledAtMostOnce
<1>1. MailInv => HandledAtMostOnce BY DEF MailInv, Tracked, HandledAtMostOnce
<1> QED BY <1>1, MailSafe, PTL

\* A request that was handed to the backend is answered before it is deleted,
\* even if the clean-up takes its file in between; only a crash leaves it
\* without an answer, and then its file stays.
THEOREM ExecutedIsAnswered == MailSpec => []NoAnswerLost
<1>1. MailInv => NoAnswerLost BY DEF MailInv, Tracked, At, NoAnswerLost
<1> QED BY <1>1, MailSafe, PTL

\* However often the daemon dies and answers cannot be written, at most as many
\* requests lie in processing without the worker at them as it has died times:
\* every path of the two request loops after move_to_processing ends in
\* move_to_dead or delete_processed, and a worker that throws has renamed before.
THEOREM OnlyCrashesLeave == MailSpec => []LeftByCrash
<1>1. MailInit => LeftByCrash
  <2> SUFFICES ASSUME MailInit PROVE LeftByCrash
    OBVIOUS
  <2>1. LeftOver = {} BY DEF MailInit, LeftOver, In
  <2> QED BY <2>1, FS_EmptySet DEF MailInit, LeftByCrash
<1>2. Typed /\ Typed' /\ LeftByCrash /\ [MailNext]_mailVars => LeftByCrash'
  BY LeftKeeps
<1> QED BY <1>1, <1>2, MailTyped, PTL DEF MailSpec
=============================================================================
