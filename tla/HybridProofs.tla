---------------------------- MODULE HybridProofs ----------------------------
(***************************************************************************)
(* What the rows and the payload files of the hybrid backend keep, for any *)
(* messages, consumers and policy, any number of faults and repairs.       *)
(* One lemma per operation says what each store on its way looks like.     *)
(***************************************************************************)
EXTENDS HybridAdapter, RetryPolicyProofs

\* A message in use has been counted.
GoodRow == {row \in Row : row.state = "inflight" => row.attempt >= 1}

\* A store in which every row has its payload in active or in dlq.
Sound(s) ==
  /\ s \in [row : [Keys -> GoodRow \cup {NoRow}], file : [Keys -> Dirs \cup {"none"}]]
  /\ \A k \in Keys : s.row[k] # NoRow => s.file[k] \in {"active", "dlq"}

\* The inductive invariant: every store an operation goes through is sound, the
\* entries of the sweep carry the attempt of a row in use, and what a repair may
\* adopt is in active or in dlq.
HybridInv ==
  /\ HybridTypeOK
  /\ Sound(store)
  /\ \A e \in listed : e.attempt >= 1
  /\ \A issue \in report : issue[1] = "orphan" => issue[3] \in {"active", "dlq"}

\* From s to t nothing changes but the row and the file of k.
Only(k, s, t) == \A j \in Keys \ {k} : t.row[j] = s.row[j] /\ t.file[j] = s.file[j]

----------------------------------------------------------------------------
(* Rows, commits and renames.                                              *)

LEMMA GoodRows == NoRow \notin GoodRow /\ GoodRow \subseteq Row
  BY HybridAssumption DEF GoodRow

LEMMA FreshRowGood ==
  ASSUME NEW d \in Nat, now \in Nat
  PROVE  FreshRow(d) \in GoodRow /\ FreshRow(d).state \in {"ready", "delayed"}
  BY DEF FreshRow, GoodRow, Row, States, NULL

LEMMA MovedRow ==
  ASSUME NEW row \in Row, NEW s \in States \ {"inflight"}, NEW at \in Int
  PROVE  Moved(row, s, at) \in GoodRow /\ Moved(row, s, at).state = s
<1> DEFINE r1 == [row EXCEPT !.state = s]
           r2 == [r1 EXCEPT !.available_at = at]
           r3 == [r2 EXCEPT !.lease_until = NULL]
<1>1. r1 \in Row /\ r1.state = s BY DEF Row
<1>2. \A r \in Row : [r EXCEPT !.available_at = at] \in Row BY DEF Row
<1>3. \A r \in Row : [r EXCEPT !.lease_until = NULL] \in Row BY DEF Row, NULL
<1>4. r3 \in Row /\ r3.state = s BY <1>1, <1>2, <1>3 DEF Row
<1>5. Moved(row, s, at) = r3 BY DEF Moved
<1> QED BY <1>4, <1>5 DEF GoodRow

LEMMA CommitStep ==
  ASSUME NEW s, Sound(s), NEW k \in Keys, NEW row \in GoodRow \cup {NoRow},
         row # NoRow => s.file[k] \in {"active", "dlq"}
  PROVE  /\ Sound(Commit(s, k, row)) /\ Only(k, s, Commit(s, k, row))
         /\ Commit(s, k, row).file[k] = s.file[k] /\ Commit(s, k, row).row[k] = row
<1> DEFINE t == Commit(s, k, row)
<1>1. t = [s EXCEPT !.row = [s.row EXCEPT ![k] = row]] BY DEF Commit
<1>2. [s.row EXCEPT ![k] = row] \in [Keys -> GoodRow \cup {NoRow}] BY DEF Sound
<1>3. /\ t.row = [s.row EXCEPT ![k] = row] /\ t.file = s.file
      /\ t \in [row : [Keys -> GoodRow \cup {NoRow}], file : [Keys -> Dirs \cup {"none"}]]
  BY <1>1, <1>2 DEF Sound
<1>4. \A j \in Keys : t.row[j] = IF j = k THEN row ELSE s.row[j] BY <1>3 DEF Sound
<1> QED BY <1>3, <1>4 DEF Sound, Only

LEMMA RenameStep ==
  ASSUME NEW s, Sound(s), NEW k \in Keys, NEW from \in Dirs, NEW to \in Dirs,
         s.row[k] # NoRow => to \in {"active", "dlq"}
  PROVE  LET t == Rename(s, k, from, to)
         IN  /\ Sound(t) /\ Only(k, s, t) /\ t.row = s.row
             /\ t.file[k] = IF s.file[k] = from THEN to ELSE s.file[k]
<1> DEFINE t == Rename(s, k, from, to)
<1>1. CASE s.file[k] # from BY <1>1 DEF Rename, Only, Sound
<1>2. CASE s.file[k] = from
  <2>1. t = [s EXCEPT !.file = [s.file EXCEPT ![k] = to]] BY <1>2 DEF Rename
  <2>2. [s.file EXCEPT ![k] = to] \in [Keys -> Dirs \cup {"none"}] BY DEF Sound
  <2>3. /\ t.row = s.row /\ t.file = [s.file EXCEPT ![k] = to]
        /\ t \in [row : [Keys -> GoodRow \cup {NoRow}], file : [Keys -> Dirs \cup {"none"}]]
    BY <2>1, <2>2 DEF Sound
  <2>4. \A j \in Keys : t.file[j] = IF j = k THEN to ELSE s.file[j] BY <2>3 DEF Sound
  <2> QED BY <1>2, <2>3, <2>4 DEF Sound, Only
<1> QED BY <1>1, <1>2

\* What the clients see of a step that touches one message only.
LEMMA Views ==
  ASSUME NEW s, NEW t, NEW k \in Keys, Only(k, s, t)
  PROVE  /\ t.row[k] = NoRow => /\ Stored(t) = Stored(s) \ {k}
                                /\ InState(t, "dlq") = InState(s, "dlq") \ {k}
         /\ t.row[k] # NoRow => Stored(t) = Stored(s) \cup {k}
         /\ t.row[k] # NoRow /\ t.row[k].state = "dlq" =>
              InState(t, "dlq") = InState(s, "dlq") \cup {k}
         /\ t.row[k] # NoRow /\ t.row[k].state # "dlq" =>
              InState(t, "dlq") = InState(s, "dlq") \ {k}
  BY DEF Only, Stored, InState

\* The live messages whose payload is not where lease_next looks for it.
Hollow(s) == Live(s) \ Files(s, "active")

LEMMA HollowStep ==
  ASSUME NEW s, NEW t, NEW k \in Keys, Only(k, s, t), k \in Hollow(t) => k \in Hollow(s)
  PROVE  Hollow(t) \subseteq Hollow(s)
  BY DEF Only, Hollow, Live, Files, Stored, InState

----------------------------------------------------------------------------
(* The operations: every store on the way is sound and differs in one      *)
(* message; the row and the file of that message at each step.             *)

Path(k, path) == \A i \in 1 .. Len(path) : Sound(path[i]) /\ Only(k, store, path[i])

LEMMA RowFacts ==
  ASSUME HybridInv, NEW k \in Stored(store)
  PROVE  /\ k \in Keys /\ store.row[k] \in GoodRow /\ store.row[k] # NoRow
         /\ store.file[k] \in {"active", "dlq"}
         /\ store.row[k].available_at \in Int /\ now \in Int
  BY GoodRows DEF HybridInv, HybridTypeOK, Sound, Stored, Row

LEMMA EnqueueOK ==
  ASSUME HybridInv, NEW k \in Keys, NEW d \in PublishDelays, MayEnqueue(k)
  PROVE  LET path == EnqueuePath(k, d)
         IN  /\ Len(path) = 2 /\ Path(k, path)
             /\ path[1].row = store.row /\ path[1].file[k] = "active"
             /\ path[2].row[k] = FreshRow(d) /\ path[2].file[k] = "active"
             /\ FreshRow(d) \in GoodRow /\ FreshRow(d).state # "dlq"
<1> DEFINE w == [store EXCEPT !.file[k] = "active"]
           c == Commit(w, k, FreshRow(d))
<1>1. store.row[k] = NoRow /\ store.file[k] = "none"
  BY DEF MayEnqueue, Stored, Files
<1>2. FreshRow(d) \in GoodRow /\ FreshRow(d).state # "dlq"
  BY FreshRowGood, HybridAssumption DEF HybridInv, HybridTypeOK
<1>3. /\ w.row = store.row /\ w.file = [store.file EXCEPT ![k] = "active"]
      /\ w \in [row : [Keys -> GoodRow \cup {NoRow}], file : [Keys -> Dirs \cup {"none"}]]
  <2>1. w = [store EXCEPT !.file = [store.file EXCEPT ![k] = "active"]] OBVIOUS
  <2>2. [store.file EXCEPT ![k] = "active"] \in [Keys -> Dirs \cup {"none"}]
    BY DEF HybridInv, Sound, Dirs
  <2> QED BY <2>1, <2>2 DEF HybridInv, Sound
<1>4. \A j \in Keys : w.file[j] = IF j = k THEN "active" ELSE store.file[j]
  BY <1>3 DEF HybridInv, Sound
<1>5. Sound(w) /\ Only(k, store, w) BY <1>3, <1>4 DEF HybridInv, Sound, Only
<1>6. Sound(c) /\ Only(k, w, c) /\ c.file[k] = "active" /\ c.row[k] = FreshRow(d)
  <2>1. w.file[k] = "active" BY <1>4
  <2>2. Sound(w) BY <1>5
  <2>3. FreshRow(d) \in GoodRow \cup {NoRow} BY <1>2
  <2>. HIDE DEF w
  <2> QED BY <2>1, <2>2, <2>3, CommitStep
<1>7. Only(k, store, c) BY <1>5, <1>6 DEF Only
<1>8. EnqueuePath(k, d) = <<w, c>> BY DEF EnqueuePath
<1> QED BY <1>2, <1>3, <1>4, <1>5, <1>6, <1>7, <1>8 DEF Path

\* Operations of one commit: the file stays where it is.
LEMMA OneCommit ==
  ASSUME HybridInv, NEW k \in Stored(store), NEW row \in GoodRow
  PROVE  LET path == <<Commit(store, k, row)>>
         IN  /\ Len(path) = 1 /\ Path(k, path)
             /\ path[1].row[k] = row /\ path[1].file[k] = store.file[k]
<1> DEFINE c == Commit(store, k, row)
<1>1. Sound(c) /\ Only(k, store, c) /\ c.row[k] = row /\ c.file[k] = store.file[k]
  BY RowFacts, CommitStep DEF HybridInv
<1> QED BY <1>1 DEF Path

LEMMA LeaseOK ==
  ASSUME HybridInv, NEW k \in InState(store, "ready"), NEW v \in VisTimeouts
  PROVE  LET path == LeasePath(k, v)
         IN  /\ Len(path) = 1 /\ Path(k, path)
             /\ path[1].row[k] # NoRow /\ path[1].row[k].state = "inflight"
             /\ path[1].file[k] = store.file[k]
<1> DEFINE r0 == store.row[k]
           r1 == [r0 EXCEPT !.state = "inflight", !.lease_until = now + v, !.attempt = @ + 1]
<1>1. k \in Stored(store) BY DEF InState
<1>2. r0 \in Row /\ now + v \in Int BY <1>1, RowFacts, GoodRows, HybridAssumption DEF HybridInv
<1>3. r1 \in GoodRow /\ r1.state = "inflight"
  <2>1. r0.attempt + 1 \in Nat /\ r0.attempt + 1 >= 1 BY <1>2 DEF Row
  <2>2. \A n \in Nat : [r0 EXCEPT !.state = "inflight", !.lease_until = now + v, !.attempt = n]
                         \in {row \in Row : row.state = "inflight" /\ row.attempt = n}
    BY <1>2 DEF Row, States
  <2>3. r1 = [r0 EXCEPT !.state = "inflight", !.lease_until = now + v, !.attempt = r0.attempt + 1]
    OBVIOUS
  <2> QED BY <2>1, <2>2, <2>3 DEF GoodRow
<1>4. LeasePath(k, v) = <<Commit(store, k, r1)>> BY DEF LeasePath
<1> HIDE DEF r1
<1> QED BY <1>1, <1>3, <1>4, OneCommit, GoodRows

LEMMA ExtendOK ==
  ASSUME HybridInv, NEW k \in InState(store, "inflight"), NEW v \in VisTimeouts
  PROVE  LET path == <<Commit(store, k, [store.row[k] EXCEPT !.lease_until = now + v])>>
         IN  /\ Len(path) = 1 /\ Path(k, path)
             /\ path[1].row[k] # NoRow /\ path[1].row[k].state = "inflight"
             /\ path[1].file[k] = store.file[k]
<1> DEFINE r0 == store.row[k]
           r1 == [r0 EXCEPT !.lease_until = now + v]
<1>1. k \in Stored(store) /\ r0.state = "inflight" BY DEF InState
<1>2. r0 \in GoodRow /\ now + v \in Int BY <1>1, RowFacts, HybridAssumption DEF HybridInv
<1>3. r1 \in GoodRow /\ r1.state = "inflight" BY <1>1, <1>2 DEF GoodRow, Row
<1> HIDE DEF r1
<1>4. NoRow # r1 BY <1>3, GoodRows
<1>5. LET path == <<Commit(store, k, r1)>>
      IN  /\ Len(path) = 1 /\ Path(k, path)
          /\ path[1].row[k] = r1 /\ path[1].file[k] = store.file[k]
  BY <1>1, <1>3, OneCommit
<1> QED BY <1>3, <1>4, <1>5 DEF r1

\* nack with requeue, and delay_message.
LEMMA MoveOK ==
  ASSUME HybridInv, NEW k \in Stored(store), NEW state \in States \ {"inflight"}, NEW at \in Int
  PROVE  LET path == <<Commit(store, k, Moved(store.row[k], state, at))>>
         IN  /\ Len(path) = 1 /\ Path(k, path)
             /\ path[1].row[k] # NoRow /\ path[1].row[k].state = state
             /\ path[1].file[k] = store.file[k]
<1>1. store.row[k] \in Row BY RowFacts, GoodRows
<1>2. Moved(store.row[k], state, at) \in GoodRow /\ Moved(store.row[k], state, at).state = state
  BY <1>1, MovedRow
<1>3. Moved(store.row[k], state, at) # NoRow BY <1>2, GoodRows
<1> DEFINE path == <<Commit(store, k, Moved(store.row[k], state, at))>>
<1>4. /\ Len(path) = 1 /\ Path(k, path)
      /\ path[1].row[k] = Moved(store.row[k], state, at) /\ path[1].file[k] = store.file[k]
  BY <1>2, OneCommit
<1> QED BY <1>2, <1>3, <1>4

LEMMA AckOK ==
  ASSUME HybridInv, NEW k \in Stored(store)
  PROVE  LET path == AckPath(k)
         IN  /\ Len(path) = 2 /\ Path(k, path)
             /\ \A i \in 1 .. 2 : path[i].row[k] = NoRow
             /\ path[2].file[k] # "active"
<1> DEFINE c == Commit(store, k, NoRow)
           r == Rename(c, k, "active", "archive")
<1>1. Sound(c) /\ Only(k, store, c) /\ c.row[k] = NoRow
  BY RowFacts, CommitStep DEF HybridInv
<1>2. AckPath(k) = <<c, r>> BY DEF AckPath
<1> HIDE DEF c
<1>3. /\ Sound(r) /\ Only(k, c, r) /\ r.row = c.row
      /\ r.file[k] = IF c.file[k] = "active" THEN "archive" ELSE c.file[k]
  BY <1>1, RowFacts, RenameStep DEF Dirs
<1> HIDE DEF r
<1>4. Only(k, store, r) BY <1>1, <1>3 DEF Only
<1> QED BY <1>1, <1>2, <1>3, <1>4 DEF Path

LEMMA DeadOK ==
  ASSUME NEW row \in Row
  PROVE  DeadRow(row) \in GoodRow /\ DeadRow(row).state = "dlq"
  BY MovedRow DEF DeadRow, States, Row

LEMMA RejectOK ==
  ASSUME HybridInv, NEW k \in Stored(store)
  PROVE  LET path == RejectPath(k)
         IN  /\ Len(path) = 2 /\ Path(k, path)
             /\ path[1].row = store.row
             /\ path[2].row[k] # NoRow /\ path[2].row[k].state = "dlq"
             /\ path[2].file[k] = "dlq"
<1> DEFINE r == Rename(store, k, "active", "dlq")
           d == DeadRow(store.row[k])
           c == Commit(r, k, d)
<1>1. Sound(r) /\ Only(k, store, r) /\ r.row = store.row
  BY RowFacts, RenameStep DEF HybridInv, Dirs
<1>2. d \in GoodRow /\ d.state = "dlq" /\ d # NoRow BY RowFacts, GoodRows, DeadOK
<1>3. RejectPath(k) = <<r, c>> BY DEF RejectPath
<1>4. r.file[k] = "dlq" BY RowFacts, RenameStep DEF HybridInv, Dirs
<1> HIDE DEF r, d
<1>5. Sound(c) /\ Only(k, r, c) /\ c.row[k] = d /\ c.file[k] = "dlq"
  BY <1>1, <1>2, <1>4, RowFacts, CommitStep
<1> HIDE DEF c
<1>6. Only(k, store, c) BY <1>1, <1>5 DEF Only
<1> QED BY <1>1, <1>2, <1>3, <1>5, <1>6 DEF Path

LEMMA DlqOK ==
  ASSUME HybridInv, NEW k \in Stored(store)
  PROVE  LET path == DlqPath(k)
         IN  /\ Len(path) = 2 /\ Path(k, path)
             /\ \A i \in 1 .. 2 : path[i].row[k] # NoRow /\ path[i].row[k].state = "dlq"
             /\ path[2].file[k] = "dlq"
<1> DEFINE d == DeadRow(store.row[k])
           c == Commit(store, k, d)
           r == Rename(c, k, "active", "dlq")
<1>1. d \in GoodRow /\ d.state = "dlq" /\ d # NoRow BY RowFacts, GoodRows, DeadOK
<1>2. DlqPath(k) = <<c, r>> BY DEF DlqPath
<1> HIDE DEF d
<1>3. /\ Sound(c) /\ Only(k, store, c) /\ c.row[k] = d /\ c.file[k] \in {"active", "dlq"}
  BY <1>1, RowFacts, CommitStep DEF HybridInv
<1> HIDE DEF c
<1>4. Sound(r) /\ Only(k, c, r) /\ r.row = c.row /\ r.file[k] = "dlq"
  BY <1>3, RowFacts, RenameStep DEF Dirs
<1> HIDE DEF r
<1>5. Only(k, store, r) BY <1>3, <1>4 DEF Only
<1> QED BY <1>1, <1>2, <1>3, <1>4, <1>5 DEF Path

LEMMA ReprocessOK ==
  ASSUME HybridInv, NEW k \in Stored(store)
  PROVE  LET path == ReprocessPath(k)
         IN  /\ Len(path) = 2 /\ Path(k, path)
             /\ \A i \in 1 .. 2 : path[i].row[k] # NoRow /\ path[i].row[k].state = "ready"
             /\ path[2].file[k] = "active"
<1> DEFINE m == Moved(store.row[k], "ready", now)
           d == [m EXCEPT !.attempt = 0]
           c == Commit(store, k, d)
           r == Rename(c, k, "dlq", "active")
<1>1. m \in Row /\ m.state = "ready" BY RowFacts, GoodRows, MovedRow DEF States
<1>2. d \in GoodRow /\ d.state = "ready" /\ d # NoRow
  <2>1. d \in Row /\ d.state = "ready" BY <1>1 DEF Row
  <2> QED BY <2>1, HybridAssumption DEF GoodRow
<1>3. ReprocessPath(k) = <<c, r>> BY DEF ReprocessPath
<1> HIDE DEF d
<1>4. /\ Sound(c) /\ Only(k, store, c) /\ c.row[k] = d /\ c.file[k] \in {"active", "dlq"}
  BY <1>2, RowFacts, CommitStep DEF HybridInv
<1> HIDE DEF c
<1>5. Sound(r) /\ Only(k, c, r) /\ r.row = c.row /\ r.file[k] = "active"
  BY <1>4, RowFacts, RenameStep DEF Dirs
<1> HIDE DEF r
<1>6. Only(k, store, r) BY <1>4, <1>5 DEF Only
<1> QED BY <1>2, <1>3, <1>4, <1>5, <1>6 DEF Path

\* What the sweep does to one entry.
LEMMA SweepOK ==
  ASSUME HybridInv, NEW e \in listed, Treatable(e)
  PROVE  LET path == SweepPath(e)
         IN  /\ Path(e.key, path)
             /\ \/ /\ Len(path) = 2
                   /\ \A i \in 1 .. 2 :
                        path[i].row[e.key] # NoRow /\ path[i].row[e.key].state = "dlq"
                   /\ path[2].file[e.key] = "dlq"
                \/ /\ Len(path) = 1
                   /\ path[1].row[e.key] # NoRow
                   /\ path[1].row[e.key].state \in {"ready", "delayed"}
                   /\ path[1].file[e.key] = store.file[e.key]
<1> DEFINE k == e.key
<1>1. k \in Stored(store) /\ e.attempt \in Nat \ {0} /\ now \in Nat
  BY DEF Treatable, HybridInv, HybridTypeOK, Entry
<1>2. ASSUME NEW d \in Int
      PROVE  LET path == DelayPath(k, d)
             IN  /\ Len(path) = 1 /\ Path(k, path)
                 /\ path[1].row[k] # NoRow /\ path[1].row[k].state \in {"ready", "delayed"}
                 /\ path[1].file[k] = store.file[k]
  <2> DEFINE state == IF d > 0 THEN "delayed" ELSE "ready"
  <2>1. state \in {"ready", "delayed"} /\ state \in States \ {"inflight"} BY DEF States
  <2>2. now + d \in Int BY <1>1
  <2>3. DelayPath(k, d) = <<Commit(store, k, Moved(store.row[k], state, now + d))>>
    BY DEF DelayPath
  <2> HIDE DEF state
  <2> QED BY <1>1, <2>1, <2>2, <2>3, MoveOK
<1>3. CASE Policy = NoPolicy
  <2>1. SweepPath(e) = DelayPath(k, 0) BY <1>3 DEF SweepPath, SweepVerdict
  <2> QED BY <1>2, <2>1
<1>4. CASE Policy # NoPolicy
  <2>1. Policy.retry \in Retry BY <1>4, HybridAssumption
  <2>2. Backoff(e.attempt, Policy.retry) \in Int BY <1>1, <2>1, BackoffInt
  <2>3. SweepVerdict(e) \in {"retry", "dead_letter"}
    BY <1>4 DEF Treatable, SweepVerdict, Verdict
  <2>4. CASE SweepVerdict(e) = "retry"
    <3>1. SweepPath(e) = DelayPath(k, Backoff(e.attempt, Policy.retry)) BY <2>4 DEF SweepPath
    <3> QED BY <1>2, <2>2, <3>1
  <2>5. CASE SweepVerdict(e) = "dead_letter"
    <3>1. SweepPath(e) = DlqPath(k) BY <2>5 DEF SweepPath
    <3> QED BY <1>1, <3>1, DlqOK
  <2> QED BY <2>3, <2>4, <2>5
<1> QED BY <1>3, <1>4

LEMMA RetrySweepOK ==
  ASSUME HybridInv, RetrySweep
  PROVE  /\ Sound(store') /\ Stored(store') = Stored(store)
         /\ InState(store', "dlq") = InState(store, "dlq") /\ store'.file = store.file
<1> DEFINE moved == [k \in Keys |-> IF k \in Due THEN [store.row[k] EXCEPT !.state = "ready"]
                                    ELSE store.row[k]]
<1>1. store' = [store EXCEPT !.row = moved] BY DEF RetrySweep
<1>2. \A k \in Due : k \in Stored(store) /\ store.row[k].state = "delayed"
  BY DEF Due, InState
<1>3. ASSUME NEW k \in Keys
      PROVE  /\ moved[k] \in GoodRow \cup {NoRow}
             /\ moved[k] = NoRow <=> store.row[k] = NoRow
             /\ store.row[k] # NoRow => (moved[k].state = "dlq" <=> store.row[k].state = "dlq")
  <2>1. CASE k \in Due
    <3>1. store.row[k] \in Row /\ store.row[k].state = "delayed" /\ store.row[k] # NoRow
      BY <1>2, <2>1, RowFacts, GoodRows
    <3>2. moved[k] = [store.row[k] EXCEPT !.state = "ready"] BY <2>1
    <3>3. moved[k] \in Row /\ moved[k].state = "ready" BY <3>1, <3>2 DEF Row, States
    <3> QED BY <3>1, <3>3, GoodRows DEF GoodRow
  <2>2. CASE k \notin Due BY <2>2 DEF HybridInv, Sound
  <2> QED BY <2>1, <2>2
<1>4. moved \in [Keys -> GoodRow \cup {NoRow}] BY <1>3
<1> HIDE DEF moved
<1>5. /\ store'.row = moved /\ store'.file = store.file
      /\ store' \in [row : [Keys -> GoodRow \cup {NoRow}], file : [Keys -> Dirs \cup {"none"}]]
  BY <1>1, <1>4 DEF HybridInv, Sound
<1> QED BY <1>3, <1>5 DEF HybridInv, Sound, Stored, InState

LEMMA RepairOK ==
  ASSUME HybridInv, Repair
  PROVE  Sound(store')
<1> DEFINE rows == [k \in Keys |-> RepairedRow(store, report, k)]
           files == [k \in Keys |-> IF <<"stale", k, "archive">> \in report /\ store.file[k] = "archive"
                                    THEN "none" ELSE store.file[k]]
<1>1. store' = [row |-> rows, file |-> files] BY DEF Repair, Repaired
<1>2. ASSUME NEW k \in Keys
      PROVE  /\ RepairedRow(store, report, k) \in GoodRow \cup {NoRow}
             /\ RepairedRow(store, report, k) # NoRow => store.file[k] \in {"active", "dlq"}
  <2>1. /\ AdoptedRow(store, report, k) \in GoodRow \cup {NoRow}
        /\ AdoptedRow(store, report, k) # NoRow => store.file[k] \in {"active", "dlq"}
    <3>1. CASE store.row[k] = NoRow /\ <<"orphan", k, store.file[k]>> \in report
      <4>1. FreshRow(0) \in GoodRow BY FreshRowGood DEF HybridInv, HybridTypeOK
      <4>2. store.file[k] \in {"active", "dlq"} BY <3>1 DEF HybridInv
      <4> QED BY <3>1, <4>1, <4>2 DEF AdoptedRow
    <3>2. CASE ~(store.row[k] = NoRow /\ <<"orphan", k, store.file[k]>> \in report)
      <4>1. AdoptedRow(store, report, k) = store.row[k] BY <3>2 DEF AdoptedRow
      <4> QED BY <4>1 DEF HybridInv, Sound
    <3> QED BY <3>1, <3>2
  <2> DEFINE row == AdoptedRow(store, report, k)
  <2>2. \A r \in GoodRow : [r EXCEPT !.state = "dlq"] \in GoodRow
    BY DEF GoodRow, Row, States
  <2>3. RepairedRow(store, report, k) \in {row, [row EXCEPT !.state = "dlq"]}
    BY DEF RepairedRow
  <2>4. row = NoRow => RepairedRow(store, report, k) = NoRow BY DEF RepairedRow
  <2> HIDE DEF row
  <2>5. row # NoRow => row \in GoodRow BY <2>1 DEF row
  <2> QED BY <2>1, <2>2, <2>3, <2>4, <2>5 DEF row
<1>3. rows \in [Keys -> GoodRow \cup {NoRow}] BY <1>2
<1>4. files \in [Keys -> Dirs \cup {"none"}] BY DEF HybridInv, Sound
<1>5. \A k \in Keys : store.file[k] \in {"active", "dlq"} => files[k] = store.file[k] OBVIOUS
<1>6. \A k \in Keys : rows[k] # NoRow => files[k] \in {"active", "dlq"} BY <1>2, <1>5
<1> HIDE DEF rows, files
<1> QED BY <1>1, <1>3, <1>4, <1>6 DEF Sound

----------------------------------------------------------------------------
(* What a step of one message means to the clients, by what its row was    *)
(* and becomes.                                                            *)

Lawful == [Promise!ContractNext]_Promise!contractVars

LEMMA SameRows ==
  ASSUME store'.row = store.row, UNCHANGED clientVars
  PROVE  Lawful
  BY DEF Lawful, Promise!contractVars, Stored, InState, clientVars

LEMMA RowMoves ==
  ASSUME NEW k \in Stored(store), Only(k, store, store'), store'.row[k] # NoRow,
         UNCHANGED clientVars
  PROVE  Lawful
<1>0. k \in Keys BY DEF Stored
<1>1. Stored(store') = Stored(store) BY <1>0, Views DEF Stored, Only
<1>2. CASE store'.row[k].state = "dlq"
  <2>1. InState(store', "dlq") = InState(store, "dlq") \cup {k} BY <1>0, <1>2, Views
  <2>2. Promise!Bury(k) BY <1>1, <2>1 DEF Promise!Bury, clientVars
  <2> QED BY <1>0, <2>2 DEF Lawful, Promise!ContractNext
<1>3. CASE store'.row[k].state # "dlq"
  <2>1. InState(store', "dlq") = InState(store, "dlq") \ {k} BY <1>0, <1>3, Views
  <2>2. Promise!Unearth(k) BY <1>1, <2>1 DEF Promise!Unearth, clientVars
  <2> QED BY <1>0, <2>2 DEF Lawful, Promise!ContractNext
<1> QED BY <1>2, <1>3

LEMMA RowAppears ==
  ASSUME NEW k \in Keys, MayEnqueue(k), Only(k, store, store'),
         store'.row[k] # NoRow, store'.row[k].state # "dlq", UNCHANGED clientVars
  PROVE  Lawful
<1>1. k \notin Stored(store) \cup acked BY DEF MayEnqueue
<1>2. Stored(store') = Stored(store) \cup {k} BY Views
<1>3. InState(store', "dlq") = InState(store, "dlq") BY <1>1, Views DEF InState
<1>4. Promise!Publish(k) BY <1>1, <1>2, <1>3 DEF Promise!Publish, clientVars
<1> QED BY <1>4 DEF Lawful, Promise!ContractNext

LEMMA RowGoes ==
  ASSUME NEW k \in Stored(store), Only(k, store, store'), store'.row[k] = NoRow,
         NEW c \in Consumers, <<c, k>> \in delivered,
         delivered' = delivered, acked' = acked \cup {k}
  PROVE  Lawful
<1>0. k \in Keys BY DEF Stored
<1>1. Stored(store') = Stored(store) \ {k} /\ InState(store', "dlq") = InState(store, "dlq") \ {k}
  BY <1>0, Views
<1>2. Promise!Settle(k) BY <1>1 DEF Promise!Settle
<1> QED BY <1>0, <1>2 DEF Lawful, Promise!ContractNext

LEMMA RowLeased ==
  ASSUME NEW k \in InState(store, "ready"), Only(k, store, store'),
         store'.row[k] # NoRow, store'.row[k].state = "inflight",
         NEW c \in Consumers, delivered' = delivered \cup {<<c, k>>}, acked' = acked
  PROVE  Lawful
<1>0. k \in Stored(store) /\ k \in Keys /\ k \notin InState(store, "dlq") BY DEF Stored, InState
<1>1. Stored(store') = Stored(store)
  <2>1. Stored(store') = Stored(store) \cup {k} BY <1>0, Views
  <2> QED BY <1>0, <2>1
<1>2. InState(store', "dlq") = InState(store, "dlq")
  <2>1. InState(store', "dlq") = InState(store, "dlq") \ {k} BY <1>0, Views
  <2> QED BY <1>0, <2>1
<1>3. Promise!Hand(c, k) BY <1>0, <1>1, <1>2 DEF Promise!Hand
<1> QED BY <1>0, <1>3 DEF Lawful, Promise!ContractNext

----------------------------------------------------------------------------
(* Every step: where it leads is sound, it is lawful unless it repairs,    *)
(* and it makes no message hollow but in the ways HollowArises lists.      *)

HollowRule ==
  LET new == Hollow(store') \ Hollow(store)
  IN  \/ new = {}
      \/ faults' > faults
      \/ repairs' > repairs
      \/ \A k \in new : /\ k \in InState(store, "dlq")
                        /\ \E e \in listed \ listed' : e.key = k

StepRule == Sound(store') /\ (repairs' = 0 => Lawful) /\ HollowRule

LEMMA SameStore ==
  ASSUME HybridInv, UNCHANGED <<store, clientVars>>
  PROVE  StepRule
<1>1. Lawful BY SameRows
<1>2. HollowRule BY DEF HollowRule
<1> QED BY <1>1, <1>2 DEF StepRule, HybridInv

\* A step that leads to a store of a path.
LEMMA PathStep ==
  ASSUME NEW k \in Keys, NEW path, Path(k, path), NEW i \in 1 .. Len(path), store' = path[i]
  PROVE  Sound(store') /\ Only(k, store, store')
  BY DEF Path

LEMMA EnqueueStep ==
  ASSUME HybridInv, NEW k \in Keys, NEW d \in PublishDelays, MayEnqueue(k),
         NEW i \in 1 .. 2, store' = EnqueuePath(k, d)[i], UNCHANGED clientVars
  PROVE  StepRule
<1> DEFINE path == EnqueuePath(k, d)
<1>1. /\ Len(path) = 2 /\ Path(k, path)
      /\ path[1].row = store.row /\ path[1].file[k] = "active"
      /\ path[2].row[k] = FreshRow(d) /\ path[2].file[k] = "active"
      /\ FreshRow(d) \in GoodRow /\ FreshRow(d).state # "dlq"
  BY EnqueueOK
<1> HIDE DEF path
<1>2. store' = path[i] BY DEF path
<1>3. Sound(store') /\ Only(k, store, store') BY <1>1, <1>2, PathStep
<1>4. store'.file[k] = "active" BY <1>1, <1>2
<1>5. Hollow(store') \subseteq Hollow(store) BY <1>3, <1>4, HollowStep DEF Hollow, Files
<1>6. Lawful
  <2>1. CASE i = 1 BY <1>1, <1>2, <2>1, SameRows
  <2>2. CASE i = 2
    <3>1. store'.row[k] # NoRow /\ store'.row[k].state # "dlq" BY <1>1, <1>2, <2>2, GoodRows
    <3> QED BY <1>3, <3>1, RowAppears
  <2> QED BY <2>1, <2>2
<1> QED BY <1>3, <1>5, <1>6 DEF StepRule, HollowRule

LEMMA LeaseStep ==
  ASSUME HybridInv, NEW k \in Keys, NEW c \in Consumers, NEW v \in VisTimeouts,
         LeaseNext(k, c, v)
  PROVE  StepRule
<1> DEFINE path == LeasePath(k, v)
<1>0. k \in InState(store, "ready") BY DEF LeaseNext, Available
<1>1. /\ Len(path) = 1 /\ Path(k, path)
      /\ path[1].row[k] # NoRow /\ path[1].row[k].state = "inflight"
      /\ path[1].file[k] = store.file[k]
  BY <1>0, LeaseOK
<1>2. store' = path[1] /\ 1 \in 1 .. Len(path) BY <1>1 DEF LeaseNext, Completes
<1> HIDE DEF path
<1>3. Sound(store') /\ Only(k, store, store') BY <1>1, <1>2, PathStep
<1>4. Hollow(store') \subseteq Hollow(store)
  <2>1. k \in Hollow(store') => k \in Hollow(store)
    BY <1>0, <1>1, <1>2 DEF Hollow, Live, InState, Stored, Files
  <2> QED BY <1>3, <2>1, HollowStep
<1>5. Lawful BY <1>0, <1>1, <1>2, <1>3, RowLeased DEF LeaseNext
<1> QED BY <1>3, <1>4, <1>5 DEF StepRule, HollowRule

\* Steps that rewrite the row of a live message and leave its file alone.
LEMMA LiveStep ==
  ASSUME HybridInv, NEW k \in InState(store, "inflight"), NEW path,
         Len(path) = 1, Path(k, path), path[1].row[k] # NoRow,
         path[1].file[k] = store.file[k], store' = path[1], UNCHANGED clientVars
  PROVE  StepRule
<1>0. k \in Stored(store) /\ k \in Keys BY DEF InState, Stored
<1>1. Sound(store') /\ Only(k, store, store') BY <1>0, PathStep
<1>2. Hollow(store') \subseteq Hollow(store)
  <2>1. k \in Hollow(store') => k \in Hollow(store) BY DEF Hollow, Live, InState, Stored, Files
  <2> QED BY <1>0, <1>1, <2>1, HollowStep
<1>3. Lawful BY <1>0, <1>1, RowMoves
<1> QED BY <1>1, <1>2, <1>3 DEF StepRule, HollowRule

LEMMA AckStep ==
  ASSUME HybridInv, NEW k \in Keys, NEW c \in Consumers, MaySettle("ack", c, k),
         NEW i \in 1 .. 2, store' = AckPath(k)[i],
         delivered' = delivered, acked' = acked \cup {k}
  PROVE  StepRule
<1> DEFINE path == AckPath(k)
<1>0. k \in Stored(store) /\ <<c, k>> \in delivered BY DEF MaySettle, InState
<1>1. Len(path) = 2 /\ Path(k, path) /\ \A j \in 1 .. 2 : path[j].row[k] = NoRow
  BY <1>0, AckOK
<1> HIDE DEF path
<1>2. store' = path[i] BY DEF path
<1>3. Sound(store') /\ Only(k, store, store') BY <1>1, <1>2, PathStep
<1>4. store'.row[k] = NoRow BY <1>1, <1>2
<1>5. Hollow(store') \subseteq Hollow(store)
  BY <1>3, <1>4, HollowStep DEF Hollow, Live, Stored
<1>6. Lawful BY <1>0, <1>3, <1>4, RowGoes
<1> QED BY <1>3, <1>5, <1>6 DEF StepRule, HollowRule

LEMMA RejectStep ==
  ASSUME HybridInv, NEW k \in Keys, NEW c \in Consumers, MaySettle("reject", c, k),
         NEW i \in 1 .. 2, store' = RejectPath(k)[i], UNCHANGED clientVars,
         i = 2 \/ faults' > faults
  PROVE  StepRule
<1> DEFINE path == RejectPath(k)
<1>0. k \in Stored(store) BY DEF MaySettle, InState
<1>1. /\ Len(path) = 2 /\ Path(k, path) /\ path[1].row = store.row
      /\ path[2].row[k] # NoRow /\ path[2].row[k].state = "dlq"
  BY <1>0, RejectOK
<1> HIDE DEF path
<1>2. store' = path[i] BY DEF path
<1>3. Sound(store') /\ Only(k, store, store') BY <1>1, <1>2, PathStep
<1>4. CASE i = 1 BY <1>1, <1>2, <1>3, <1>4, SameRows DEF StepRule, HollowRule
<1>5. CASE i = 2
  <2>1. store'.row[k] # NoRow /\ store'.row[k].state = "dlq" BY <1>1, <1>2, <1>5
  <2>2. k \notin Hollow(store') BY <2>1 DEF Hollow, Live, InState, Stored
  <2>3. Hollow(store') \subseteq Hollow(store) BY <1>3, <2>2, HollowStep
  <2>4. Lawful BY <1>0, <1>3, <2>1, RowMoves
  <2> QED BY <1>3, <2>3, <2>4 DEF StepRule, HollowRule
<1> QED BY <1>4, <1>5

LEMMA ReprocessStep ==
  ASSUME HybridInv, NEW k \in Keys, MayReprocess(k),
         NEW i \in 1 .. 2, store' = ReprocessPath(k)[i], UNCHANGED clientVars,
         i = 2 \/ faults' > faults
  PROVE  StepRule
<1> DEFINE path == ReprocessPath(k)
<1>0. k \in Stored(store) BY DEF MayReprocess, InState
<1>1. /\ Len(path) = 2 /\ Path(k, path)
      /\ \A j \in 1 .. 2 : path[j].row[k] # NoRow
      /\ path[2].file[k] = "active"
  BY <1>0, ReprocessOK
<1> HIDE DEF path
<1>2. store' = path[i] BY DEF path
<1>3. Sound(store') /\ Only(k, store, store') BY <1>1, <1>2, PathStep
<1>4. Lawful BY <1>0, <1>1, <1>2, <1>3, RowMoves
<1>5. HollowRule
  <2>1. CASE i = 1 BY <2>1 DEF HollowRule
  <2>2. CASE i = 2
    <3>1. k \notin Hollow(store') BY <1>1, <1>2, <2>2 DEF Hollow, Files
    <3> QED BY <1>3, <3>1, HollowStep DEF HollowRule
  <2> QED BY <2>1, <2>2
<1> QED BY <1>3, <1>4, <1>5 DEF StepRule

LEMMA SweepStep ==
  ASSUME HybridInv, NEW e \in listed, Treatable(e),
         NEW i \in 1 .. Len(SweepPath(e)), store' = SweepPath(e)[i], UNCHANGED clientVars,
         e \notin listed'
  PROVE  StepRule
<1> DEFINE path == SweepPath(e)
           k == e.key
<1>0. k \in Stored(store) /\ k \in Keys BY DEF Treatable, Stored
<1>1. /\ Path(k, path)
      /\ \/ /\ Len(path) = 2
            /\ \A j \in 1 .. 2 : path[j].row[k] # NoRow /\ path[j].row[k].state = "dlq"
         \/ /\ Len(path) = 1
            /\ path[1].row[k] # NoRow
            /\ path[1].row[k].state \in {"ready", "delayed"}
            /\ path[1].file[k] = store.file[k]
  BY SweepOK
<1> HIDE DEF path, k
<1>2. i \in 1 .. Len(path) /\ store' = path[i] BY DEF path
<1>3. Sound(store') /\ Only(k, store, store') BY <1>0, <1>1, <1>2, PathStep
<1>4. store'.row[k] # NoRow BY <1>1, <1>2
<1>5. Lawful BY <1>0, <1>3, <1>4, RowMoves
<1>6. Hollow(store') \ Hollow(store) \subseteq {k}
  BY <1>0, <1>3 DEF Only, Hollow, Live, Files, Stored, InState
<1>7. k \in Hollow(store') \ Hollow(store) => k \in InState(store, "dlq")
  BY <1>0, <1>1, <1>2 DEF Hollow, Live, Files, Stored, InState
<1>8. HollowRule BY <1>6, <1>7 DEF HollowRule, k
<1> QED BY <1>3, <1>5, <1>8 DEF StepRule

LEMMA ClientStepRule ==
  ASSUME HybridInv, NEW k \in Keys, ClientStep(k)
  PROVE  StepRule
<1>1. ASSUME NEW d \in PublishDelays, Enqueue(k, d) PROVE StepRule
  <2>1. store' = EnqueuePath(k, d)[2] BY <1>1, EnqueueOK DEF Enqueue, Completes
  <2> QED BY <1>1, <2>1, EnqueueStep DEF Enqueue
<1>2. ASSUME NEW c \in Consumers, NEW v \in VisTimeouts, Extend(c, k, v) PROVE StepRule
  <2> DEFINE path == <<Commit(store, k, [store.row[k] EXCEPT !.lease_until = now + v])>>
  <2>1. k \in InState(store, "inflight") BY <1>2 DEF Extend, MaySettle
  <2>2. Len(path) = 1 /\ Path(k, path) /\ path[1].row[k] # NoRow /\ path[1].file[k] = store.file[k]
    BY <2>1, ExtendOK
  <2>3. store' = path[1] /\ UNCHANGED clientVars BY <1>2 DEF Extend
  <2> HIDE DEF path
  <2> QED BY <2>1, <2>2, <2>3, LiveStep
<1>3. ASSUME NEW c \in Consumers, Ack(c, k) PROVE StepRule
  <2>1. k \in Stored(store) BY <1>3 DEF Ack, MaySettle, InState
  <2>2. store' = AckPath(k)[2] BY <1>3, <2>1, AckOK DEF Ack, Completes
  <2> QED BY <1>3, <2>2, AckStep DEF Ack
<1>4. ASSUME NEW c \in Consumers, Requeue(c, k) PROVE StepRule
  <2> DEFINE path == RequeuePath(k)
  <2>1. k \in InState(store, "inflight") /\ k \in Stored(store) /\ now \in Int
    BY <1>4, RowFacts DEF Requeue, MaySettle, InState
  <2>2. Len(path) = 1 /\ Path(k, path) /\ path[1].row[k] # NoRow /\ path[1].file[k] = store.file[k]
    BY <2>1, MoveOK DEF RequeuePath, States
  <2>3. store' = path[1] /\ UNCHANGED clientVars BY <1>4, <2>2 DEF Requeue, Completes
  <2> HIDE DEF path
  <2> QED BY <2>1, <2>2, <2>3, LiveStep
<1>5. ASSUME NEW c \in Consumers, Reject(c, k) PROVE StepRule
  <2>1. k \in Stored(store) BY <1>5 DEF Reject, MaySettle, InState
  <2>2. store' = RejectPath(k)[2] BY <1>5, <2>1, RejectOK DEF Reject, Completes
  <2> QED BY <1>5, <2>2, RejectStep DEF Reject
<1>6. ASSUME NEW c \in Consumers, RejectFails(c, k) PROVE StepRule
  <2>1. faults' > faults BY <1>6 DEF RejectFails, Fault, HybridInv, HybridTypeOK
  <2>2. UNCHANGED clientVars BY <1>6 DEF RejectFails, Fault, clientVars
  <2> QED BY <1>6, <2>1, <2>2, RejectStep DEF RejectFails
<1>7. ASSUME Reprocess(k) PROVE StepRule
  <2>1. k \in Stored(store) BY <1>7 DEF Reprocess, MayReprocess, InState
  <2>2. store' = ReprocessPath(k)[2] BY <1>7, <2>1, ReprocessOK DEF Reprocess, Completes
  <2> QED BY <1>7, <2>2, ReprocessStep DEF Reprocess
<1> QED BY <1>1, <1>2, <1>3, <1>4, <1>5, <1>6, <1>7, LeaseStep DEF ClientStep

LEMMA KillStepRule ==
  ASSUME HybridInv, Kill
  PROVE  StepRule
<1>0. faults' > faults /\ delivered' = delivered /\ listed' = {}
  BY DEF Kill, Down, KilledIn, Fault, HybridInv, HybridTypeOK
<1>1. CASE UNCHANGED <<store, acked>> BY <1>0, <1>1, SameStore DEF clientVars
<1>2. ASSUME NEW k \in Keys, NEW d \in PublishDelays,
             MayEnqueue(k), KilledIn(EnqueuePath(k, d)), UNCHANGED acked
      PROVE  StepRule
  <2>1. Len(EnqueuePath(k, d)) = 2 BY <1>2, EnqueueOK
  <2>2. PICK i \in 1 .. 2 : store' = EnqueuePath(k, d)[i] BY <1>2, <2>1 DEF KilledIn
  <2> QED BY <1>0, <1>2, <2>2, EnqueueStep DEF clientVars
<1>3. ASSUME NEW c \in Consumers, NEW k \in Keys,
             MaySettle("ack", c, k), KilledIn(AckPath(k)), acked' = acked \cup {k}
      PROVE  StepRule
  <2>1. Len(AckPath(k)) = 2 BY <1>3, AckOK DEF MaySettle, InState
  <2>2. PICK i \in 1 .. 2 : store' = AckPath(k)[i] BY <1>3, <2>1 DEF KilledIn
  <2> QED BY <1>0, <1>3, <2>2, AckStep
<1>4. ASSUME NEW c \in Consumers, NEW k \in Keys,
             MaySettle("reject", c, k), KilledIn(RejectPath(k)), UNCHANGED acked
      PROVE  StepRule
  <2>1. Len(RejectPath(k)) = 2 BY <1>4, RejectOK DEF MaySettle, InState
  <2>2. PICK i \in 1 .. 2 : store' = RejectPath(k)[i] BY <1>4, <2>1 DEF KilledIn
  <2> QED BY <1>0, <1>4, <2>2, RejectStep DEF clientVars
<1>5. ASSUME NEW k \in Keys, MayReprocess(k), KilledIn(ReprocessPath(k)), UNCHANGED acked
      PROVE  StepRule
  <2>1. Len(ReprocessPath(k)) = 2 BY <1>5, ReprocessOK DEF MayReprocess, InState
  <2>2. PICK i \in 1 .. 2 : store' = ReprocessPath(k)[i] BY <1>5, <2>1 DEF KilledIn
  <2> QED BY <1>0, <1>5, <2>2, ReprocessStep DEF clientVars
<1>6. ASSUME NEW e \in listed, Treatable(e), KilledIn(SweepPath(e)), UNCHANGED acked
      PROVE  StepRule
  <2>1. Len(SweepPath(e)) \in Nat BY <1>6, SweepOK
  <2>2. PICK i \in 1 .. Len(SweepPath(e)) : store' = SweepPath(e)[i]
    BY <1>6, <2>1 DEF KilledIn
  <2> QED BY <1>0, <1>6, <2>2, SweepStep DEF clientVars
<1> QED BY <1>1, <1>2, <1>3, <1>4, <1>5, <1>6 DEF Kill

LEMMA NextStepRule ==
  HybridInv /\ [HybridNext]_hybridVars => StepRule
<1> SUFFICES ASSUME HybridInv, [HybridNext]_hybridVars PROVE StepRule
  OBVIOUS
<1>1. CASE \E k \in Keys : ClientStep(k) BY <1>1, ClientStepRule
<1>2. CASE ListExpired BY <1>2, SameStore DEF ListExpired
<1>3. CASE \E e \in listed : SweepEntry(e)
  <2>1. PICK e \in listed : SweepEntry(e) BY <1>3
  <2>2. CASE Treatable(e)
    <3>1. Len(SweepPath(e)) \in 1 .. 2 BY <2>2, SweepOK
    <3>2. store' = SweepPath(e)[Len(SweepPath(e))] BY <2>1, <2>2 DEF SweepEntry, Completes
    <3>3. UNCHANGED clientVars /\ e \notin listed' BY <2>1 DEF SweepEntry
    <3>4. Len(SweepPath(e)) \in 1 .. Len(SweepPath(e)) BY <3>1
    <3> QED BY <2>2, <3>2, <3>3, <3>4, SweepStep
  <2>3. CASE ~Treatable(e) BY <2>1, <2>3, SameStore DEF SweepEntry
  <2> QED BY <2>2, <2>3
<1>4. CASE RetrySweep
  <2>1. /\ Sound(store') /\ Stored(store') = Stored(store)
        /\ InState(store', "dlq") = InState(store, "dlq") /\ store'.file = store.file
    BY <1>4, RetrySweepOK
  <2>2. Hollow(store') = Hollow(store) BY <2>1 DEF Hollow, Live, Files
  <2>3. Lawful BY <1>4, <2>1 DEF RetrySweep, Lawful, Promise!contractVars, clientVars
  <2> QED BY <2>1, <2>2, <2>3 DEF StepRule, HollowRule
<1>5. CASE Check BY <1>5, SameStore DEF Check
<1>6. CASE Repair
  <2>1. repairs' = repairs + 1 /\ repairs \in Nat BY <1>6 DEF Repair, HybridInv, HybridTypeOK
  <2> QED BY <1>6, <2>1, RepairOK DEF StepRule, HollowRule
<1>7. CASE Kill BY <1>7, KillStepRule
<1>8. CASE Tick BY <1>8, SameStore DEF Tick
<1>9. CASE UNCHANGED hybridVars BY <1>9, SameStore DEF hybridVars, clientVars
<1> QED BY <1>1, <1>2, <1>3, <1>4, <1>5, <1>6, <1>7, <1>8, <1>9 DEF HybridNext

----------------------------------------------------------------------------
(* While nothing fails, the files follow the rows.                         *)

\* FilesFollowRows, of one message of a store.
Aligned(s, k) == /\ k \in InState(s, "dlq") => s.file[k] = "dlq"
                 /\ s.file[k] = "active" => k \in Live(s)

AllAligned(s) == \A k \in Keys : Aligned(s, k)

LEMMA AlignStep ==
  ASSUME NEW k \in Keys, Only(k, store, store'), AllAligned(store), Aligned(store', k)
  PROVE  AllAligned(store')
  BY DEF Only, AllAligned, Aligned, Live, Stored, InState

\* A row that is live already, and becomes another one: the file stays.
LEMMA LiveAligned ==
  ASSUME HybridInv, AllAligned(store), NEW k \in Stored(store), NEW path, Len(path) = 1,
         Path(k, path), path[1].row[k] # NoRow, path[1].row[k].state # "dlq",
         path[1].file[k] = store.file[k], store' = path[1]
  PROVE  AllAligned(store')
<1>1. k \in Keys /\ Only(k, store, store') BY RowFacts DEF Path
<1>2. Aligned(store', k) BY <1>1 DEF Aligned, Live, Stored, InState
<1> QED BY <1>1, <1>2, AlignStep

LEMMA ClientAligned ==
  ASSUME HybridInv, AllAligned(store), NEW k \in Keys, ClientStep(k), faults' = faults
  PROVE  AllAligned(store')
<1>0. \A op, c : MaySettle(op, c, k) => k \in InState(store, "inflight") /\ k \in Stored(store)
  BY DEF MaySettle, InState
<1>1. ASSUME NEW d \in PublishDelays, Enqueue(k, d) PROVE AllAligned(store')
  <2> DEFINE path == EnqueuePath(k, d)
  <2>1. /\ Len(path) = 2 /\ Path(k, path)
        /\ path[2].row[k] = FreshRow(d) /\ path[2].file[k] = "active"
        /\ FreshRow(d) \in GoodRow /\ FreshRow(d).state # "dlq"
    BY <1>1, EnqueueOK DEF Enqueue
  <2>2. store' = path[2] BY <1>1, <2>1 DEF Enqueue, Completes
  <2> HIDE DEF path
  <2>3. Only(k, store, store') BY <2>1, <2>2 DEF Path
  <2>4. Aligned(store', k) BY <2>1, <2>2, GoodRows DEF Aligned, Live, Stored, InState
  <2> QED BY <2>3, <2>4, AlignStep
<1>2. ASSUME NEW c \in Consumers, NEW v \in VisTimeouts, LeaseNext(k, c, v)
      PROVE  AllAligned(store')
  <2> DEFINE path == LeasePath(k, v)
  <2>1. k \in InState(store, "ready") /\ k \in Stored(store)
    BY <1>2 DEF LeaseNext, Available, InState
  <2>2. /\ Len(path) = 1 /\ Path(k, path) /\ path[1].row[k] # NoRow
        /\ path[1].row[k].state = "inflight" /\ path[1].file[k] = store.file[k]
    BY <2>1, LeaseOK
  <2>3. store' = path[1] BY <1>2, <2>2 DEF LeaseNext, Completes
  <2> HIDE DEF path
  <2> QED BY <2>1, <2>2, <2>3, LiveAligned
<1>3. ASSUME NEW c \in Consumers, NEW v \in VisTimeouts, Extend(c, k, v)
      PROVE  AllAligned(store')
  <2> DEFINE path == <<Commit(store, k, [store.row[k] EXCEPT !.lease_until = now + v])>>
  <2>1. k \in InState(store, "inflight") /\ k \in Stored(store) BY <1>0, <1>3 DEF Extend
  <2>2. /\ Len(path) = 1 /\ Path(k, path) /\ path[1].row[k] # NoRow
        /\ path[1].row[k].state = "inflight" /\ path[1].file[k] = store.file[k]
    BY <2>1, ExtendOK
  <2>3. store' = path[1] BY <1>3 DEF Extend
  <2> HIDE DEF path
  <2> QED BY <2>1, <2>2, <2>3, LiveAligned
<1>4. ASSUME NEW c \in Consumers, Ack(c, k) PROVE AllAligned(store')
  <2> DEFINE path == AckPath(k)
  <2>1. /\ Len(path) = 2 /\ Path(k, path)
        /\ path[2].row[k] = NoRow /\ path[2].file[k] # "active"
    BY <1>0, <1>4, AckOK DEF Ack
  <2>2. store' = path[2] BY <1>4, <2>1 DEF Ack, Completes
  <2> HIDE DEF path
  <2>3. Only(k, store, store') BY <2>1, <2>2 DEF Path
  <2>4. Aligned(store', k) BY <2>1, <2>2 DEF Aligned, Stored, InState
  <2> QED BY <2>3, <2>4, AlignStep
<1>5. ASSUME NEW c \in Consumers, Requeue(c, k) PROVE AllAligned(store')
  <2> DEFINE path == RequeuePath(k)
  <2>1. k \in Stored(store) /\ now \in Int BY <1>0, <1>5, RowFacts DEF Requeue
  <2>2. /\ Len(path) = 1 /\ Path(k, path) /\ path[1].row[k] # NoRow
        /\ path[1].row[k].state = "ready" /\ path[1].file[k] = store.file[k]
    BY <2>1, MoveOK DEF RequeuePath, States
  <2>3. store' = path[1] BY <1>5, <2>2 DEF Requeue, Completes
  <2> HIDE DEF path
  <2> QED BY <2>1, <2>2, <2>3, LiveAligned
<1>6. ASSUME NEW c \in Consumers, Reject(c, k) PROVE AllAligned(store')
  <2> DEFINE path == RejectPath(k)
  <2>1. /\ Len(path) = 2 /\ Path(k, path) /\ path[2].file[k] = "dlq"
    BY <1>0, <1>6, RejectOK DEF Reject
  <2>2. store' = path[2] BY <1>6, <2>1 DEF Reject, Completes
  <2> HIDE DEF path
  <2>3. Only(k, store, store') BY <2>1, <2>2 DEF Path
  <2>4. Aligned(store', k) BY <2>1, <2>2 DEF Aligned
  <2> QED BY <2>3, <2>4, AlignStep
<1>7. ASSUME NEW c \in Consumers, RejectFails(c, k) PROVE FALSE
  BY <1>7 DEF RejectFails, Fault, HybridInv, HybridTypeOK
<1>8. ASSUME Reprocess(k) PROVE AllAligned(store')
  <2> DEFINE path == ReprocessPath(k)
  <2>1. k \in Stored(store) BY <1>8 DEF Reprocess, MayReprocess, InState
  <2>2. /\ Len(path) = 2 /\ Path(k, path)
        /\ path[2].row[k] # NoRow /\ path[2].row[k].state = "ready"
    BY <2>1, ReprocessOK
  <2>3. store' = path[2] BY <1>8, <2>2 DEF Reprocess, Completes
  <2> HIDE DEF path
  <2>4. Only(k, store, store') BY <2>2, <2>3 DEF Path
  <2>5. Aligned(store', k) BY <2>2, <2>3 DEF Aligned, Live, Stored, InState
  <2> QED BY <2>4, <2>5, AlignStep
<1> QED BY <1>1, <1>2, <1>3, <1>4, <1>5, <1>6, <1>7, <1>8 DEF ClientStep

LEMMA SweepAligned ==
  ASSUME HybridInv, AllAligned(store), NEW e \in listed, SweepEntry(e), Treatable(e)
  PROVE  AllAligned(store')
<1> DEFINE path == SweepPath(e)
           k == e.key
<1>1. k \in Stored(store) /\ k \in Keys BY DEF Treatable, Stored
<1>2. /\ Path(k, path)
      /\ \/ /\ Len(path) = 2 /\ path[2].file[k] = "dlq"
         \/ /\ Len(path) = 1 /\ path[1].row[k] # NoRow /\ path[1].row[k].state # "dlq"
            /\ path[1].file[k] = store.file[k]
  BY SweepOK
<1>3. store' = path[Len(path)] BY DEF SweepEntry, Completes
<1> HIDE DEF path, k
<1>4. CASE Len(path) = 2
  <2>1. Only(k, store, store') BY <1>2, <1>3, <1>4 DEF Path
  <2>2. Aligned(store', k) BY <1>2, <1>3, <1>4 DEF Aligned
  <2> QED BY <1>1, <2>1, <2>2, AlignStep
<1>5. CASE Len(path) = 1 BY <1>1, <1>2, <1>3, <1>5, LiveAligned
<1> QED BY <1>2, <1>4, <1>5

LEMMA CalmAligned ==
  ASSUME HybridInv, AllAligned(store), [HybridNext]_hybridVars,
         faults' = faults, repairs' = repairs
  PROVE  AllAligned(store')
<1>1. ASSUME store' = store PROVE AllAligned(store') BY <1>1
<1>2. ASSUME NEW e \in listed, SweepEntry(e) PROVE AllAligned(store')
  <2>1. CASE Treatable(e) BY <1>2, <2>1, SweepAligned
  <2>2. CASE ~Treatable(e) BY <1>1, <1>2, <2>2 DEF SweepEntry
  <2> QED BY <2>1, <2>2
<1>3. CASE RetrySweep
  BY <1>3, RetrySweepOK DEF AllAligned, Aligned, Live
<1>4. CASE Repair \/ Kill
  BY <1>4 DEF Repair, Kill, Down, KilledIn, Fault, HybridInv, HybridTypeOK
<1>5. CASE ListExpired \/ Check \/ Tick \/ UNCHANGED hybridVars
  BY <1>1, <1>5 DEF ListExpired, Check, Tick, hybridVars
<1> QED BY <1>2, <1>3, <1>4, <1>5, ClientAligned DEF HybridNext

\* Faults and repairs are counted and never forgotten.
LEMMA Counted ==
  HybridInv /\ [HybridNext]_hybridVars => /\ faults' \in {faults, faults + 1}
                                         /\ repairs' \in {repairs, repairs + 1}
<1> SUFFICES ASSUME [HybridNext]_hybridVars PROVE /\ faults' \in {faults, faults + 1}
                                                  /\ repairs' \in {repairs, repairs + 1}
  OBVIOUS
<1>1. ASSUME NEW k \in Keys, ClientStep(k)
      PROVE  repairs' = repairs /\ faults' \in {faults, faults + 1}
  BY <1>1 DEF ClientStep, Enqueue, LeaseNext, Extend, Ack, Requeue, Reject, RejectFails, Reprocess,
     Completes, Fault
<1>2. ASSUME NEW e \in listed, SweepEntry(e) PROVE UNCHANGED <<faults, repairs>>
  BY <1>2 DEF SweepEntry, Completes
<1>3. CASE Kill BY <1>3 DEF Kill, Down, KilledIn, Fault
<1>4. CASE ListExpired \/ RetrySweep \/ Check \/ Repair \/ Tick
  BY <1>4 DEF ListExpired, RetrySweep, Check, Repair, Tick
<1>5. CASE UNCHANGED hybridVars BY <1>5 DEF hybridVars
<1> QED BY <1>1, <1>2, <1>3, <1>4, <1>5 DEF HybridNext

----------------------------------------------------------------------------
\* The invariant, but for the store.
Rest ==
  /\ now \in Nat
  /\ listed \subseteq Entry /\ \A e \in listed : e.attempt >= 1
  /\ report \subseteq Issue
  /\ \A issue \in report : issue[1] = "orphan" => issue[3] \in {"active", "dlq"}
  /\ delivered \subseteq Consumers \X Keys
  /\ acked \subseteq Keys
  /\ faults \in Nat /\ repairs \in Nat

LEMMA InvParts == HybridInv <=> Sound(store) /\ Rest
<1>1. Sound(store) => store \in Store BY GoodRows DEF Sound, Store
<1> QED BY <1>1 DEF HybridInv, HybridTypeOK, Rest

LEMMA ListExpiredRest == HybridInv /\ ListExpired => Rest'
<1> SUFFICES ASSUME HybridInv, ListExpired PROVE Rest'
  OBVIOUS
<1>1. ASSUME NEW e \in listed' PROVE e \in Entry /\ e.attempt >= 1
  <2>1. PICK k \in Expired : e = [key |-> k, attempt |-> store.row[k].attempt]
    BY <1>1 DEF ListExpired
  <2>2. k \in Stored(store) /\ store.row[k].state = "inflight" BY DEF Expired, InState
  <2>3. k \in Keys /\ store.row[k].attempt \in Nat /\ store.row[k].attempt >= 1
    BY <2>2, RowFacts DEF GoodRow, Row
  <2> QED BY <2>1, <2>3 DEF Entry
<1> QED BY <1>1, InvParts DEF ListExpired, Rest, clientVars

LEMMA CheckRest == HybridInv /\ Check => Rest'
<1> SUFFICES ASSUME HybridInv, Check PROVE Rest'
  OBVIOUS
<1>1. PICK old \in SUBSET Files(store, "archive") :
        report' = Misplaced(store) \cup {<<"stale", k, "archive">> : k \in old}
  BY DEF Check
<1>2. ASSUME NEW issue \in report'
      PROVE  /\ issue \in Issue
             /\ issue[1] = "orphan" => issue[3] \in {"active", "dlq"}
  <2>1. CASE issue \in Orphans(store) BY <2>1 DEF Orphans, Issue, Files, Dirs
  <2>2. CASE issue \in Missing(store) BY <2>2 DEF Missing, Issue, Live, InState, Stored, Dirs
  <2>3. CASE issue \in {<<"stale", k, "archive">> : k \in old} BY <2>3 DEF Issue, Files, Dirs
  <2> QED BY <1>1, <1>2, <2>1, <2>2, <2>3 DEF Misplaced
<1> QED BY <1>2, InvParts DEF Check, Rest, clientVars

LEMMA NextRest == HybridInv /\ [HybridNext]_hybridVars => Rest'
<1> SUFFICES ASSUME Rest, HybridInv, [HybridNext]_hybridVars PROVE Rest'
  BY InvParts
<1>1. ASSUME NEW k \in Keys, ClientStep(k) PROVE Rest'
  <2>1. ASSUME NEW d \in PublishDelays, Enqueue(k, d) PROVE Rest'
    BY <2>1 DEF Enqueue, Completes, clientVars, Rest
  <2>2. ASSUME NEW c \in Consumers, NEW v \in VisTimeouts, LeaseNext(k, c, v) PROVE Rest'
    BY <2>2 DEF LeaseNext, Completes, Rest
  <2>3. ASSUME NEW c \in Consumers, NEW v \in VisTimeouts, Extend(c, k, v) PROVE Rest'
    BY <2>3 DEF Extend, clientVars, Rest
  <2>4. ASSUME NEW c \in Consumers, Ack(c, k) PROVE Rest' BY <2>4 DEF Ack, Completes, Rest
  <2>5. ASSUME NEW c \in Consumers, Requeue(c, k) \/ Reject(c, k) PROVE Rest'
    BY <2>5 DEF Requeue, Reject, Completes, clientVars, Rest
  <2>6. ASSUME NEW c \in Consumers, RejectFails(c, k) PROVE Rest'
    BY <2>6 DEF RejectFails, Fault, Rest
  <2>7. ASSUME Reprocess(k) PROVE Rest' BY <2>7 DEF Reprocess, Completes, clientVars, Rest
  <2> QED BY <1>1, <2>1, <2>2, <2>3, <2>4, <2>5, <2>6, <2>7 DEF ClientStep
<1>2. ASSUME NEW e \in listed, SweepEntry(e) PROVE Rest'
  BY <1>2 DEF SweepEntry, Completes, clientVars, Rest
<1>3. CASE RetrySweep BY <1>3 DEF RetrySweep, clientVars, Rest
<1>4. CASE Repair BY <1>4 DEF Repair, clientVars, Rest
<1>5. CASE Kill
  <2>1. /\ now' = now /\ listed' = {} /\ report' = {} /\ delivered' = delivered
        /\ faults' = faults + 1 /\ repairs' = repairs
    BY <1>5 DEF Kill, Down, KilledIn, Fault
  <2>2. acked' \subseteq Keys BY <1>5 DEF Kill, Rest
  <2> QED BY <2>1, <2>2 DEF Rest
<1>6. CASE Tick BY <1>6 DEF Tick, clientVars, Rest
<1>7. CASE UNCHANGED hybridVars BY <1>7 DEF hybridVars, Rest
<1> QED BY <1>1, <1>2, <1>3, <1>4, <1>5, <1>6, <1>7, ListExpiredRest, CheckRest DEF HybridNext

----------------------------------------------------------------------------
(* The theorems.                                                           *)

LEMMA InitInv == HybridInit => HybridInv
<1> SUFFICES ASSUME HybridInit PROVE HybridInv
  OBVIOUS
<1>1. Sound(store)
  <2>1. store = [row |-> [k \in Keys |-> NoRow], file |-> [k \in Keys |-> "none"]]
    BY DEF HybridInit
  <2>2. [k \in Keys |-> NoRow] \in [Keys -> GoodRow \cup {NoRow}] OBVIOUS
  <2>3. [k \in Keys |-> "none"] \in [Keys -> Dirs \cup {"none"}] OBVIOUS
  <2> QED BY <2>1, <2>2, <2>3 DEF Sound
<1>2. Rest BY DEF HybridInit, Rest
<1> QED BY <1>1, <1>2, InvParts

LEMMA HybridInvariant == HybridSpec => []HybridInv
<1>1. HybridInv /\ [HybridNext]_hybridVars => Sound(store)'
  BY NextStepRule DEF StepRule
<1> QED BY <1>1, NextRest, InvParts, InitInv, PTL DEF HybridSpec

\* Every variable of the hybrid backend keeps its type.
THEOREM HybridTypeCorrect == HybridSpec => []HybridTypeOK
<1>1. HybridInv => HybridTypeOK BY DEF HybridInv
<1> QED BY <1>1, HybridInvariant, PTL

\* Wherever the daemon is killed, whichever commit fails and whatever is
\* repaired, a message that still has a row has its payload in active or dlq:
\* enqueue (HybridAdapter.cpp) writes it before the row, ack archives it after.
THEOREM PayloadStays == HybridSpec => []PayloadKept
<1>1. HybridInv => PayloadKept BY DEF HybridInv, Sound, PayloadKept, Stored, Files
<1> QED BY <1>1, HybridInvariant, PTL

\* As long as no operation fails halfway and nothing is repaired, every dead
\* letter has its payload in dlq and nothing but the payloads of live messages
\* is in active, although each operation commits and renames one after the
\* other, in an order of its own (HybridAdapter.cpp).
THEOREM FilesAlwaysFollow == HybridSpec => []FilesFollowRows
<1> DEFINE Calm == faults = 0 /\ repairs = 0 => AllAligned(store)
<1>1. HybridInit => Calm
  BY DEF HybridInit, AllAligned, Aligned, InState, Stored
<1>2. HybridInv /\ Calm /\ [HybridNext]_hybridVars => Calm'
  <2> SUFFICES ASSUME HybridInv, Calm, [HybridNext]_hybridVars, faults' = 0, repairs' = 0
               PROVE  AllAligned(store)'
    OBVIOUS
  <2>1. faults \in Nat /\ repairs \in Nat BY DEF HybridInv, HybridTypeOK
  <2>2. faults = 0 /\ repairs = 0 BY <2>1, Counted
  <2> QED BY <2>2, CalmAligned
<1>3. HybridInv /\ Calm => FilesFollowRows
  BY DEF FilesFollowRows, AllAligned, Aligned, InState, Stored, Files
<1> HIDE DEF Calm
<1> QED BY <1>1, <1>2, <1>3, HybridInvariant, PTL DEF HybridSpec

\* A live message loses its payload in active only by a fault, by a repair, or
\* by a sweep that delays a message dead-lettered since it was listed.
THEOREM HollowOrigins == HybridSpec => HollowArises
<1>1. HybridInv /\ [HybridNext]_hybridVars => HollowRule BY NextStepRule DEF StepRule
<1>2. HollowRule =>
        [LET new == (Live(store)' \ Files(store, "active")') \ (Live(store) \ Files(store, "active"))
         IN  \/ new = {}
             \/ faults' > faults
             \/ repairs' > repairs
             \/ \A k \in new : /\ k \in InState(store, "dlq")
                               /\ \E e \in listed \ listed' : e.key = k]_hybridVars
  BY DEF HollowRule, Hollow
<1> QED BY <1>1, <1>2, HybridInvariant, PTL DEF HybridSpec, HollowArises

\* Until somebody repairs, the hybrid backend keeps what AtLeastOnce promises,
\* kills and failed commits between a row and its file included.
THEOREM HybridContractKept == HybridSpec => HybridKeepsContract
<1>1. HybridInit => Promise!ContractInit
  BY DEF HybridInit, Stored, InState, Promise!ContractInit
<1>2. HybridInv /\ [HybridNext]_hybridVars =>
        [repairs' = 0 => Promise!ContractNext]_<<Stored(store), InState(store, "dlq"), clientVars>>
  <2>1. Lawful => [Promise!ContractNext]_<<Stored(store), InState(store, "dlq"), clientVars>>
    BY DEF Lawful, Promise!contractVars, clientVars
  <2> QED BY <2>1, NextStepRule DEF StepRule
<1> QED BY <1>1, <1>2, HybridInvariant, PTL DEF HybridSpec, HybridKeepsContract

\* A repair is counted, and nothing else.
LEMMA RepairsGrow ==
  ASSUME HybridInv, [HybridNext]_hybridVars, repairs' = 0
  PROVE  repairs = 0
<1>0. repairs \in Nat
  BY DEF HybridInv, HybridTypeOK
<1>1. ASSUME NEW k \in Keys, ClientStep(k) PROVE repairs' = repairs
  BY <1>1 DEF ClientStep, Enqueue, LeaseNext, Extend, Ack, Requeue, Reject, RejectFails, Reprocess,
     Completes, Fault
<1>2. ASSUME ListExpired \/ RetrySweep \/ Check \/ Tick \/ UNCHANGED hybridVars
      PROVE  repairs' = repairs
  BY <1>2 DEF ListExpired, RetrySweep, Check, Tick, hybridVars
<1>3. ASSUME NEW e \in listed, SweepEntry(e) PROVE repairs' = repairs
  BY <1>3 DEF SweepEntry, Completes
<1>4. ASSUME Kill PROVE repairs' = repairs
  BY <1>4 DEF Kill, Down, KilledIn, Fault
<1>5. ~Repair
  BY <1>0 DEF Repair
<1> QED
  BY <1>1, <1>2, <1>3, <1>4, <1>5 DEF HybridNext

\* What is acknowledged has no row until the first repair.
SettledApart == repairs = 0 => Stored(store) \cap acked = {}

LEMMA ContractApart ==
  ASSUME Lawful, Stored(store) \cap acked = {}
  PROVE  Stored(store') \cap acked' = {} /\ \A k \in acked : NeverBack(k)
<1>1. Stored(store)' = Stored(store')
  BY DEF Stored
<1> QED
  BY <1>1 DEF NeverBack, Lawful, Promise!ContractNext, Promise!contractVars, Promise!Publish,
     Promise!Bury, Promise!Unearth, Promise!Settle, Promise!Hand, clientVars

\* At least once, and never again, over rows and files too: a kill between the
\* commit and the rename of ack leaves a payload, which only a repair takes for a
\* message (HybridAdapter.cpp).
THEOREM AcksAreFinal == HybridSpec => AckedIsFinal
<1>1. HybridInit => SettledApart
  BY DEF HybridInit, SettledApart
<1>2. HybridInv /\ SettledApart /\ [HybridNext]_hybridVars =>
        SettledApart' /\ (repairs' = 0 => \A k \in acked : NeverBack(k))
  <2> SUFFICES ASSUME HybridInv, SettledApart, [HybridNext]_hybridVars, repairs' = 0
               PROVE  Stored(store') \cap acked' = {} /\ \A k \in acked : NeverBack(k)
    BY DEF SettledApart, Stored
  <2>1. Lawful
    BY NextStepRule DEF StepRule
  <2>2. Stored(store) \cap acked = {}
    BY RepairsGrow DEF SettledApart
  <2> QED
    BY <2>1, <2>2, ContractApart
<1> QED
  BY <1>1, <1>2, HybridInvariant, PTL DEF HybridSpec, AckedIsFinal

----------------------------------------------------------------------------
(* Repairs.                                                                *)

\* Row and file of k are where the check wants them.
Settled(s, k) ==
  \/ s.row[k] = NoRow /\ s.file[k] \notin {"active", "dlq"}
  \/ s.row[k] # NoRow /\ s.file[k] = IF s.row[k].state = "dlq" THEN "dlq" ELSE "active"

LEMMA IssuesOf ==
  ASSUME NEW s, Sound(s), NEW k \in Keys
  PROVE  /\ <<"orphan", k, s.file[k]>> \in Misplaced(s) <=>
              /\ s.file[k] \in {"active", "dlq"}
              /\ ~Settled(s, k)
         /\ {<<"missing", k, dir>> : dir \in Dirs} \cap Misplaced(s) # {} <=>
              s.row[k] # NoRow /\ ~Settled(s, k)
<1>1. s.row[k] # NoRow => s.file[k] \in {"active", "dlq"} BY DEF Sound
<1>2. <<"orphan", k, s.file[k]>> \in Misplaced(s) <=>
        \/ s.file[k] = "active" /\ k \notin Live(s)
        \/ s.file[k] = "dlq" /\ k \notin InState(s, "dlq")
  BY DEF Misplaced, Orphans, Missing, Files
<1>3. {<<"missing", k, dir>> : dir \in Dirs} \cap Misplaced(s) # {} <=>
        \/ k \in Live(s) /\ s.file[k] # "active"
        \/ k \in InState(s, "dlq") /\ s.file[k] # "dlq"
  <2>1. \A dir : <<"missing", k, dir>> \in Misplaced(s) <=>
                   \/ dir = "active" /\ k \in Live(s) /\ s.file[k] # "active"
                   \/ dir = "dlq" /\ k \in InState(s, "dlq") /\ s.file[k] # "dlq"
    BY DEF Misplaced, Orphans, Missing, Files, Live, InState, Stored
  <2>2. {<<"missing", k, dir>> : dir \in Dirs} \cap Misplaced(s) # {} <=>
          \E dir \in Dirs : <<"missing", k, dir>> \in Misplaced(s)
    OBVIOUS
  <2> QED BY <2>1, <2>2 DEF Dirs
<1> QED BY <1>1, <1>2, <1>3 DEF Settled, Live, InState, Stored

\* One round: what it makes of each message.
LEMMA RoundOf ==
  ASSUME NEW s, Sound(s), now \in Nat
  PROVE  LET t == Round(s)
         IN  /\ Sound(t)
             /\ \A k \in Keys :
                  /\ Settled(s, k) => Settled(t, k)
                  /\ s.row[k] # NoRow => \/ Settled(t, k)
                                         \/ s.row[k].state = "dlq" /\ s.file[k] = "active"
                  /\ s.row[k] = NoRow => \/ Settled(t, k)
                                         \/ t.row[k] # NoRow /\ t.row[k].state # "dlq"
<1> DEFINE t == Round(s)
           rows == [k \in Keys |-> RepairedRow(s, Misplaced(s), k)]
           files == [k \in Keys |-> IF <<"stale", k, "archive">> \in Misplaced(s) /\ s.file[k] = "archive"
                                    THEN "none" ELSE s.file[k]]
<1>1. t = [row |-> rows, file |-> files] BY DEF Round, Repaired
<1>2. \A k \in Keys : <<"stale", k, "archive">> \notin Misplaced(s)
  BY DEF Misplaced, Orphans, Missing
<1>3. files \in [Keys -> Dirs \cup {"none"}] /\ \A k \in Keys : files[k] = s.file[k]
  BY <1>2 DEF Sound
<1>4. FreshRow(0) \in GoodRow /\ FreshRow(0).state = "ready" /\ FreshRow(0) # NoRow
  BY FreshRowGood, GoodRows DEF FreshRow
<1>5. \A r \in GoodRow : /\ [r EXCEPT !.state = "dlq"] \in GoodRow
                         /\ [r EXCEPT !.state = "dlq"].state = "dlq" /\ r # NoRow
  BY GoodRows DEF GoodRow, Row, States
<1>6. ASSUME NEW k \in Keys
      PROVE  rows[k] = IF s.row[k] = NoRow
                       THEN IF s.file[k] \in {"active", "dlq"} THEN FreshRow(0) ELSE NoRow
                       ELSE IF Settled(s, k) THEN s.row[k] ELSE [s.row[k] EXCEPT !.state = "dlq"]
  <2>1. rows[k] = RepairedRow(s, Misplaced(s), k) OBVIOUS
  <2> HIDE DEF rows
  <2>2. CASE s.row[k] = NoRow
    <3>1. {<<"missing", k, dir>> : dir \in Dirs} \cap Misplaced(s) = {} BY <2>2, IssuesOf
    <3>2. <<"orphan", k, s.file[k]>> \in Misplaced(s) <=> s.file[k] \in {"active", "dlq"}
      BY <2>2, IssuesOf DEF Settled
    <3> QED BY <2>1, <2>2, <3>1, <3>2 DEF RepairedRow, AdoptedRow
  <2>3. CASE s.row[k] # NoRow
    <3>1. AdoptedRow(s, Misplaced(s), k) = s.row[k] BY <2>3 DEF AdoptedRow
    <3>2. {<<"missing", k, dir>> : dir \in Dirs} \cap Misplaced(s) # {} <=> ~Settled(s, k)
      BY <2>3, IssuesOf
    <3> QED BY <2>1, <2>3, <3>1, <3>2 DEF RepairedRow
  <2> QED BY <2>2, <2>3
<1>7. rows \in [Keys -> GoodRow \cup {NoRow}]
  <2>1. \A k \in Keys : rows[k] \in GoodRow \cup {NoRow} BY <1>4, <1>5, <1>6 DEF Sound
  <2> QED BY <2>1
<1> HIDE DEF rows, files
<1>8. t.row = rows /\ t.file = files BY <1>1
<1>9. \A k \in Keys : rows[k] # NoRow => files[k] \in {"active", "dlq"}
  BY <1>3, <1>6 DEF Sound
<1>10. Sound(t) BY <1>1, <1>3, <1>7, <1>9 DEF Sound
<1>11. ASSUME NEW k \in Keys
       PROVE  /\ Settled(s, k) => Settled(t, k)
              /\ s.row[k] # NoRow => \/ Settled(t, k)
                                     \/ s.row[k].state = "dlq" /\ s.file[k] = "active"
              /\ s.row[k] = NoRow => \/ Settled(t, k)
                                     \/ t.row[k] # NoRow /\ t.row[k].state # "dlq"
  <2>1. t.file[k] = s.file[k] /\ t.row[k] = rows[k] BY <1>3, <1>8
  <2>2. CASE s.row[k] = NoRow BY <1>4, <1>6, <2>1, <2>2 DEF Settled
  <2>3. CASE s.row[k] # NoRow /\ Settled(s, k) BY <1>6, <2>1, <2>3 DEF Settled
  <2>4. CASE s.row[k] # NoRow /\ ~Settled(s, k)
    <3>1. s.row[k] \in GoodRow /\ s.file[k] \in {"active", "dlq"} BY <2>4 DEF Sound
    <3>2. t.row[k] # NoRow /\ t.row[k].state = "dlq" BY <1>5, <1>6, <2>1, <2>4, <3>1
    <3> QED BY <2>1, <2>4, <3>1, <3>2 DEF Settled
  <2> QED BY <2>2, <2>3, <2>4
<1> HIDE DEF t
<1> QED BY <1>10, <1>11 DEF t

\* Whatever faults and earlier repairs left, two rounds of check_consistency and
\* repair_consistency settle every message, but for dead letters in active.
THEOREM RepairsSettle == HybridSpec => []RepairSettles
<1>1. HybridInv => RepairSettles
  <2> DEFINE t == Round(store)
             u == Round(t)
  <2> SUFFICES ASSUME HybridInv, NEW issue \in Misplaced(u)
               PROVE  issue[2] \in InState(store, "dlq") \cap Files(store, "active")
    BY DEF RepairSettles
  <2>1. Sound(store) /\ now \in Nat BY DEF HybridInv, HybridTypeOK
  <2>2. Sound(t) BY <2>1, RoundOf
  <2>3. Sound(u) BY <2>1, <2>2, RoundOf
  <2> DEFINE k == issue[2]
  <2>4. k \in Keys /\ ~Settled(u, k)
    <3> HIDE DEF u
    <3> QED BY <2>3 DEF Misplaced, Orphans, Missing, Files, Live, InState, Stored, Settled
  <2>5. /\ Settled(t, k) => Settled(u, k)
        /\ t.row[k] # NoRow => \/ Settled(u, k)
                               \/ t.row[k].state = "dlq" /\ t.file[k] = "active"
    <3> HIDE DEF t
    <3> QED BY <2>1, <2>2, <2>4, RoundOf
  <2>6. /\ store.row[k] # NoRow => \/ Settled(t, k)
                                   \/ store.row[k].state = "dlq" /\ store.file[k] = "active"
        /\ store.row[k] = NoRow => \/ Settled(t, k)
                                   \/ t.row[k] # NoRow /\ t.row[k].state # "dlq"
    BY <2>1, <2>4, RoundOf
  <2> HIDE DEF t, u, k
  <2>7. k \in InState(store, "dlq") \cap Files(store, "active")
    BY <2>4, <2>5, <2>6 DEF InState, Stored, Files
  <2> QED BY <2>7 DEF k
<1> QED BY <1>1, HybridInvariant, PTL
=============================================================================
