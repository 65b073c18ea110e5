-------------------------- MODULE FileSystemProofs --------------------------
(***************************************************************************)
(* What the file system backend keeps, for any messages, consumers and     *)
(* policy and any number of kills.  One lemma per operation says of every  *)
(* disk on its way what it looks like, so that completing an operation and *)
(* being killed in it are the same proof.                                  *)
(***************************************************************************)
EXTENDS FileSystemAdapter, RetryPolicyProofs, SequenceTheorems

\* A lease file counts the delivery it stands for.
GoodLease == {lease \in Lease : lease.attempt >= 1}

Good(d) == d \in [dir : [Keys -> Dirs \cup {"none"}], envelope : [Keys -> Envelope],
                  lease : [Keys -> GoodLease \cup {NoLease}]]

\* The inductive invariant: the types, and attempts that are counted from one,
\* which the backoff needs.
FileInv ==
  /\ FileTypeOK
  /\ Good(disk)
  /\ \A e \in listed : e.attempt >= 1

\* From s to t nothing changes but the files of k.
Only(k, s, t) ==
  \A j \in Keys \ {k} :
    t.dir[j] = s.dir[j] /\ t.envelope[j] = s.envelope[j] /\ t.lease[j] = s.lease[j]

----------------------------------------------------------------------------
(* File steps.                                                             *)

LEMMA MoveStep ==
  ASSUME NEW d, Good(d), NEW k \in Keys, NEW dir \in Dirs
  PROVE  LET t == Move(d, k, dir)
         IN  /\ Good(t) /\ Only(k, d, t)
             /\ t.dir[k] = dir /\ t.lease = d.lease /\ t.envelope = d.envelope
<1> DEFINE t == Move(d, k, dir)
<1>1. t = [d EXCEPT !.dir = [d.dir EXCEPT ![k] = dir]] BY DEF Move
<1>2. [d.dir EXCEPT ![k] = dir] \in [Keys -> Dirs \cup {"none"}] BY DEF Good
<1>3. /\ t.dir = [d.dir EXCEPT ![k] = dir] /\ t.lease = d.lease /\ t.envelope = d.envelope
      /\ Good(t)
  BY <1>1, <1>2 DEF Good
<1>4. \A j \in Keys : t.dir[j] = IF j = k THEN dir ELSE d.dir[j] BY <1>3 DEF Good
<1> QED BY <1>3, <1>4 DEF Only

LEMMA RewriteStep ==
  ASSUME NEW d, Good(d), NEW k \in Keys, NEW envelope \in Envelope
  PROVE  LET t == Rewrite(d, k, envelope)
         IN  /\ Good(t) /\ Only(k, d, t)
             /\ t.envelope[k] = envelope /\ t.dir = d.dir /\ t.lease = d.lease
<1> DEFINE t == Rewrite(d, k, envelope)
<1>1. t = [d EXCEPT !.envelope = [d.envelope EXCEPT ![k] = envelope]] BY DEF Rewrite
<1>2. [d.envelope EXCEPT ![k] = envelope] \in [Keys -> Envelope] BY DEF Good
<1>3. /\ t.envelope = [d.envelope EXCEPT ![k] = envelope] /\ t.lease = d.lease /\ t.dir = d.dir
      /\ Good(t)
  BY <1>1, <1>2 DEF Good
<1>4. \A j \in Keys : t.envelope[j] = IF j = k THEN envelope ELSE d.envelope[j]
  BY <1>3 DEF Good
<1> QED BY <1>3, <1>4 DEF Only

LEMMA LeaseFileStep ==
  ASSUME NEW d, Good(d), NEW k \in Keys, NEW lease \in GoodLease \cup {NoLease}
  PROVE  LET t == WriteLease(d, k, lease)
         IN  /\ Good(t) /\ Only(k, d, t)
             /\ t.lease[k] = lease /\ t.dir = d.dir /\ t.envelope = d.envelope
<1> DEFINE t == WriteLease(d, k, lease)
<1>1. t = [d EXCEPT !.lease = [d.lease EXCEPT ![k] = lease]] BY DEF WriteLease
<1>2. [d.lease EXCEPT ![k] = lease] \in [Keys -> GoodLease \cup {NoLease}] BY DEF Good
<1>3. /\ t.lease = [d.lease EXCEPT ![k] = lease] /\ t.envelope = d.envelope /\ t.dir = d.dir
      /\ Good(t)
  BY <1>1, <1>2 DEF Good
<1>4. \A j \in Keys : t.lease[j] = IF j = k THEN lease ELSE d.lease[j] BY <1>3 DEF Good
<1> QED BY <1>3, <1>4 DEF Only

LEMMA OnlyChains ==
  ASSUME NEW k, NEW s, NEW t, NEW u, Only(k, s, t), Only(k, t, u)
  PROVE  Only(k, s, u)
  BY DEF Only

----------------------------------------------------------------------------
(* Paths.                                                                  *)

\* The message leaves its directory for dir, and only then loses its lease file.
Leaves(k, path, dir) ==
  /\ Len(path) \in Nat \ {0}
  /\ \A i \in 1 .. Len(path) :
       /\ Good(path[i]) /\ Only(k, disk, path[i])
       /\ \/ path[i].dir = disk.dir /\ path[i].lease = disk.lease
          \/ path[i].dir[k] = dir
  /\ path[Len(path)].dir[k] = dir

\* The lease file is left as it is, then deleted, and no delivery is counted.
Frees(k, path) ==
  /\ \A i \in 1 .. Len(path) :
       /\ path[i].lease[k] \in {disk.lease[k], NoLease}
       /\ path[i].envelope[k].attempt = disk.envelope[k].attempt
  /\ path[Len(path)].lease[k] = NoLease

LEMMA ReleasedOK ==
  ASSUME NEW d, Good(d), NEW k \in Keys, NEW dir \in Dirs
  PROVE  LET path == Released(d, k, dir)
         IN  /\ Len(path) = 2
             /\ \A i \in 1 .. 2 : /\ Good(path[i]) /\ Only(k, d, path[i])
                                  /\ path[i].dir[k] = dir /\ path[i].envelope = d.envelope
             /\ path[1].lease = d.lease /\ path[2].lease[k] = NoLease
<1> DEFINE m == Move(d, k, dir)
           u == DeleteLease(m, k)
<1>1. /\ Good(m) /\ Only(k, d, m)
      /\ m.dir[k] = dir /\ m.envelope = d.envelope /\ m.lease = d.lease
  BY MoveStep
<1>2. Released(d, k, dir) = <<m, u>> BY DEF Released
<1> HIDE DEF m
<1>3. /\ Good(u) /\ Only(k, m, u)
      /\ u.dir = m.dir /\ u.envelope = m.envelope /\ u.lease[k] = NoLease
  BY <1>1, LeaseFileStep DEF DeleteLease
<1> HIDE DEF u
<1>4. Only(k, d, u) BY <1>1, <1>3, OnlyChains
<1> QED BY <1>1, <1>2, <1>3, <1>4

LEMMA ReleaseLeaves ==
  ASSUME Good(disk), NEW k \in Keys, NEW dir \in Dirs
  PROVE  LET path == Released(disk, k, dir) IN Leaves(k, path, dir) /\ Frees(k, path)
<1> DEFINE path == Released(disk, k, dir)
<1>1. /\ Len(path) = 2
      /\ \A i \in 1 .. 2 : /\ Good(path[i]) /\ Only(k, disk, path[i])
                           /\ path[i].dir[k] = dir /\ path[i].envelope = disk.envelope
      /\ path[1].lease = disk.lease /\ path[2].lease[k] = NoLease
  BY ReleasedOK
<1> HIDE DEF path
<1>2. Leaves(k, path, dir) BY <1>1 DEF Leaves
<1>3. Frees(k, path) BY <1>1 DEF Frees
<1> QED BY <1>2, <1>3 DEF path

LEMMA ConsTwo ==
  ASSUME NEW a, NEW b, NEW c
  PROVE  LET cat == <<a>> \o <<b, c>>
         IN  Len(cat) = 3 /\ cat[1] = a /\ cat[2] = b /\ cat[3] = c
<1> DEFINE S == {a, b, c}
           cat == <<a>> \o <<b, c>>
<1>1. <<a>> \in Seq(S) /\ <<b, c>> \in Seq(S) OBVIOUS
<1>2. /\ Len(cat) = 3
      /\ \A i \in 1 .. 3 : cat[i] = IF i <= 1 THEN <<a>>[i] ELSE <<b, c>>[i - 1]
  BY <1>1, ConcatProperties
<1> QED BY <1>2

\* An envelope is rewritten where it is, then the message is moved.
LEMMA RewriteReleaseLeaves ==
  ASSUME Good(disk), NEW k \in Keys, NEW dir \in Dirs, NEW envelope \in Envelope
  PROVE  LET r == Rewrite(disk, k, envelope)
             path == <<r>> \o Released(r, k, dir)
         IN  /\ Leaves(k, path, dir)
             /\ path[Len(path)].envelope[k] = envelope
             /\ envelope.attempt = disk.envelope[k].attempt => Frees(k, path)
<1> DEFINE r == Rewrite(disk, k, envelope)
           rest == Released(r, k, dir)
           path == <<r>> \o rest
<1>1. /\ Good(r) /\ Only(k, disk, r) /\ r.envelope[k] = envelope
      /\ r.dir = disk.dir /\ r.lease = disk.lease
  BY RewriteStep
<1> HIDE DEF r
<1>2. /\ Len(rest) = 2
      /\ \A i \in 1 .. 2 : /\ Good(rest[i]) /\ Only(k, r, rest[i])
                           /\ rest[i].dir[k] = dir /\ rest[i].envelope = r.envelope
      /\ rest[1].lease = r.lease /\ rest[2].lease[k] = NoLease
  BY <1>1, ReleasedOK
<1>3. \A i \in 1 .. 2 : Only(k, disk, rest[i]) BY <1>1, <1>2, OnlyChains
<1>4. rest = <<rest[1], rest[2]>> BY DEF Released
<1> HIDE DEF rest
<1>5. path = <<r>> \o <<rest[1], rest[2]>> BY <1>4
<1>6. Len(path) = 3 /\ path[1] = r /\ path[2] = rest[1] /\ path[3] = rest[2]
  BY <1>5, ConsTwo
<1> HIDE DEF path
<1>7. \A i \in 1 .. Len(path) :
        /\ Good(path[i]) /\ Only(k, disk, path[i])
        /\ \/ path[i].dir = disk.dir /\ path[i].lease = disk.lease
           \/ path[i].dir[k] = dir
  <2> SUFFICES ASSUME NEW i \in 1 .. 3
               PROVE  /\ Good(path[i]) /\ Only(k, disk, path[i])
                      /\ \/ path[i].dir = disk.dir /\ path[i].lease = disk.lease
                         \/ path[i].dir[k] = dir
    BY <1>6
  <2>1. CASE i = 1 BY <1>1, <1>6, <2>1
  <2>2. CASE i = 2 BY <1>2, <1>3, <1>6, <2>2
  <2>3. CASE i = 3 BY <1>2, <1>3, <1>6, <2>3
  <2> QED BY <2>1, <2>2, <2>3
<1>8. path[3].dir[k] = dir /\ path[3].envelope[k] = envelope BY <1>1, <1>2, <1>6
<1>9. Leaves(k, path, dir) BY <1>6, <1>7, <1>8 DEF Leaves
<1>10. ASSUME envelope.attempt = disk.envelope[k].attempt PROVE Frees(k, path)
  <2>1. path[3].lease[k] = NoLease BY <1>2, <1>6
  <2>2. ASSUME NEW i \in 1 .. 3
        PROVE  /\ path[i].lease[k] \in {disk.lease[k], NoLease}
               /\ path[i].envelope[k] = envelope
    BY <1>1, <1>2, <1>6
  <2> QED BY <1>6, <1>10, <2>1, <2>2 DEF Frees
<1> QED BY <1>6, <1>8, <1>9, <1>10 DEF path, rest, r

LEMMA DlqLeaves ==
  ASSUME Good(disk), NEW k \in Keys
  PROVE  /\ Leaves(k, DlqPath(k), "dlq") /\ Frees(k, DlqPath(k))
         /\ DlqPath(k)[Len(DlqPath(k))].envelope[k].blamed
<1> DEFINE envelope == [disk.envelope[k] EXCEPT !.blamed = TRUE]
<1>1. envelope \in Envelope /\ envelope.blamed /\ envelope.attempt = disk.envelope[k].attempt
  BY DEF Good, Envelope
<1>2. DlqPath(k) = <<Rewrite(disk, k, envelope)>> \o Released(Rewrite(disk, k, envelope), k, "dlq")
  BY DEF DlqPath
<1> HIDE DEF envelope
<1>3. /\ Leaves(k, DlqPath(k), "dlq") /\ Frees(k, DlqPath(k))
      /\ DlqPath(k)[Len(DlqPath(k))].envelope[k] = envelope
  BY <1>1, <1>2, RewriteReleaseLeaves DEF Dirs
<1> QED BY <1>1, <1>3

LEMMA DelayLeaves ==
  ASSUME Good(disk), now \in Nat, NEW k \in Keys, NEW delay \in Int
  PROVE  /\ Leaves(k, DelayPath(k, delay), "inbox") \/ Leaves(k, DelayPath(k, delay), "delayed")
         /\ Frees(k, DelayPath(k, delay))
<1>1. CASE delay <= 0
  <2>1. DelayPath(k, delay) = Released(disk, k, "inbox") BY <1>1 DEF DelayPath
  <2> QED BY <2>1, ReleaseLeaves DEF Dirs
<1>2. CASE ~(delay <= 0)
  <2> DEFINE envelope == [disk.envelope[k] EXCEPT !.available_at = now + delay]
  <2>1. envelope \in Envelope /\ envelope.attempt = disk.envelope[k].attempt
    BY DEF Good, Envelope
  <2>2. DelayPath(k, delay) =
          <<Rewrite(disk, k, envelope)>> \o Released(Rewrite(disk, k, envelope), k, "delayed")
    BY <1>2 DEF DelayPath
  <2> HIDE DEF envelope
  <2> QED BY <2>1, <2>2, RewriteReleaseLeaves DEF Dirs
<1> QED BY <1>1, <1>2

LEMMA ReprocessLeaves ==
  ASSUME Good(disk), now \in Nat, NEW k \in Keys
  PROVE  /\ Leaves(k, ReprocessPath(k), "inbox")
         /\ Len(ReprocessPath(k)) = 2 /\ ReprocessPath(k)[1].dir = disk.dir
<1> DEFINE counted == [disk.envelope[k] EXCEPT !.attempt = 0]
           dated == [counted EXCEPT !.available_at = now]
           envelope == [disk.envelope[k] EXCEPT !.attempt = 0, !.available_at = now, !.blamed = FALSE]
           r == Rewrite(disk, k, envelope)
           m == Move(r, k, "inbox")
<1>1. envelope \in Envelope
  <2>1. counted \in Envelope BY DEF Good, Envelope
  <2>2. dated \in Envelope
    <3> HIDE DEF counted
    <3> QED BY <2>1 DEF Envelope
  <2>3. envelope = [dated EXCEPT !.blamed = FALSE] OBVIOUS
  <2> HIDE DEF dated, envelope
  <2> QED BY <2>2, <2>3 DEF Envelope
<1>2. ReprocessPath(k) = <<r, m>> BY DEF ReprocessPath
<1> HIDE DEF envelope
<1>3. Good(r) /\ Only(k, disk, r) /\ r.dir = disk.dir /\ r.lease = disk.lease
  BY <1>1, RewriteStep
<1> HIDE DEF r
<1>4. Good(m) /\ Only(k, r, m) /\ m.dir[k] = "inbox" BY <1>3, MoveStep DEF Dirs
<1> HIDE DEF m
<1>5. Only(k, disk, m) BY <1>3, <1>4, OnlyChains
<1> QED BY <1>2, <1>3, <1>4, <1>5 DEF Leaves

\* The lease file comes after the move: the first disk has none.
LEMMA LeaseOK ==
  ASSUME Good(disk), now \in Nat, NEW k \in Keys, NEW c \in Consumers, NEW v \in VisTimeouts
  PROVE  LET path == LeasePath(k, c, v)
         IN  /\ Len(path) = 3
             /\ \A i \in 1 .. 3 :
                  /\ Good(path[i]) /\ Only(k, disk, path[i])
                  /\ path[i].dir[k] = "processing"
                  /\ i > 1 => path[i].lease[k] # NoLease
             /\ \A i \in 1 .. 3 : path[i].envelope[k].attempt >= disk.envelope[k].attempt
             /\ path[3].lease[k].attempt = disk.envelope[k].attempt + 1
             /\ path[3].envelope[k].attempt = disk.envelope[k].attempt + 1
<1> DEFINE attempt == disk.envelope[k].attempt + 1
           lease == [consumer |-> c, lease_until |-> now + v, attempt |-> attempt]
           envelope == [disk.envelope[k] EXCEPT !.attempt = attempt, !.blamed = FALSE]
           m == Move(disk, k, "processing")
           w == WriteLease(m, k, lease)
           r == Rewrite(w, k, envelope)
           path == LeasePath(k, c, v)
<1>1. attempt \in Nat /\ attempt >= 1 /\ v \in Nat BY FileAssumption DEF Good, Envelope
<1>2. path = <<m, w, r>> BY DEF LeasePath
<1>3. envelope \in Envelope /\ envelope.attempt = attempt
  <2>1. disk.envelope[k] \in Envelope BY DEF Good
  <2> HIDE DEF attempt
  <2> QED BY <1>1, <2>1 DEF Envelope
<1>4. lease \in GoodLease /\ lease # NoLease /\ lease.attempt = attempt
  <2> HIDE DEF attempt
  <2>1. lease \in Lease /\ lease.attempt >= 1 BY <1>1 DEF Lease
  <2> QED BY <2>1, FileAssumption DEF GoodLease
<1>5. /\ Good(m) /\ Only(k, disk, m)
      /\ m.dir[k] = "processing" /\ m.envelope = disk.envelope
  BY MoveStep DEF Dirs
<1>14. attempt = disk.envelope[k].attempt + 1 /\ disk.envelope[k].attempt \in Nat
  BY DEF Good, Envelope
<1> HIDE DEF attempt, lease, envelope, m
<1>6. /\ Good(w) /\ Only(k, m, w)
      /\ w.dir = m.dir /\ w.lease[k] = lease /\ w.envelope = m.envelope
  BY <1>4, <1>5, LeaseFileStep
<1> HIDE DEF w
<1>7. /\ Good(r) /\ Only(k, w, r)
      /\ r.dir = w.dir /\ r.lease = w.lease /\ r.envelope[k] = envelope
  BY <1>3, <1>6, RewriteStep
<1> HIDE DEF r
<1>8. Only(k, disk, w) BY <1>5, <1>6, OnlyChains
<1>9. Only(k, disk, r) BY <1>7, <1>8, OnlyChains
<1>10. Len(path) = 3 /\ path[1] = m /\ path[2] = w /\ path[3] = r BY <1>2
<1> HIDE DEF path
<1>11. ASSUME NEW i \in 1 .. 3
       PROVE  /\ Good(path[i]) /\ Only(k, disk, path[i])
              /\ path[i].dir[k] = "processing"
              /\ i > 1 => path[i].lease[k] # NoLease
  <2>1. CASE i = 1 BY <1>5, <1>10, <2>1
  <2>2. CASE i = 2 BY <1>4, <1>5, <1>6, <1>8, <1>10, <2>2
  <2>3. CASE i = 3 BY <1>4, <1>5, <1>6, <1>7, <1>9, <1>10, <2>3
  <2> QED BY <2>1, <2>2, <2>3
<1>12. \A i \in 1 .. 3 : path[i].envelope[k].attempt >= disk.envelope[k].attempt
  BY <1>3, <1>5, <1>6, <1>7, <1>10, <1>14
<1>13. path[3].lease[k].attempt = attempt /\ path[3].envelope[k].attempt = attempt
  BY <1>3, <1>4, <1>6, <1>7, <1>10
<1> QED BY <1>10, <1>11, <1>12, <1>13, <1>14 DEF path
----------------------------------------------------------------------------
(* What a step of one message means to the clients.                        *)

Lawful == [Promise!ContractNext]_Promise!contractVars

Kept == {"inbox", "processing", "delayed", "dlq"}

\* Where the other messages are does not change.
LEMMA Views ==
  ASSUME NEW k \in Keys, Only(k, disk, disk')
  PROVE  \A dir : In(dir)' = IF disk'.dir[k] = dir THEN In(dir) \cup {k} ELSE In(dir) \ {k}
  BY DEF Only, In

LEMMA SameDirs ==
  ASSUME \A k \in Keys : disk'.dir[k] = disk.dir[k], delivered' = delivered
  PROVE  Lawful
  BY DEF Lawful, Promise!contractVars, In

\* A message that is kept moves to where it is kept.
LEMMA Moves ==
  ASSUME NEW k \in Keys, Only(k, disk, disk'), disk.dir[k] \in Kept, disk'.dir[k] \in Kept,
         delivered' = delivered
  PROVE  Lawful
<1> DEFINE owed == In("inbox") \cup In("processing") \cup In("delayed") \cup In("dlq")
<1>1. owed' = owed /\ In("archive")' = In("archive") /\ k \in owed BY Views DEF In, Kept
<1>2. CASE disk'.dir[k] = "dlq"
  <2>1. In("dlq")' = In("dlq") \cup {k} BY <1>2, Views
  <2>2. Promise!Bury(k) BY <1>1, <2>1 DEF Promise!Bury
  <2> QED BY <2>2 DEF Lawful, Promise!ContractNext
<1>3. CASE disk'.dir[k] # "dlq"
  <2>1. In("dlq")' = In("dlq") \ {k} BY <1>3, Views
  <2>2. Promise!Unearth(k) BY <1>1, <2>1 DEF Promise!Unearth
  <2> QED BY <2>2 DEF Lawful, Promise!ContractNext
<1> QED BY <1>2, <1>3

LEMMA Appears ==
  ASSUME NEW k \in Keys, Only(k, disk, disk'), disk.dir[k] = "none",
         disk'.dir[k] \in {"inbox", "delayed"}, delivered' = delivered
  PROVE  Lawful
<1>1. Promise!Publish(k) BY Views DEF Promise!Publish, In
<1> QED BY <1>1 DEF Lawful, Promise!ContractNext

LEMMA Settles ==
  ASSUME NEW k \in Keys, Only(k, disk, disk'), disk.dir[k] = "processing",
         disk'.dir[k] = "archive", delivered' = delivered,
         NEW c \in Consumers, <<c, k>> \in delivered
  PROVE  Lawful
<1>1. Promise!Settle(k) BY Views DEF Promise!Settle, In
<1> QED BY <1>1 DEF Lawful, Promise!ContractNext

LEMMA HandedOut ==
  ASSUME NEW k \in Keys, Only(k, disk, disk'), disk.dir[k] = "inbox",
         disk'.dir[k] = "processing", NEW c \in Consumers, delivered' = delivered \cup {<<c, k>>}
  PROVE  Lawful
<1>1. Promise!Hand(c, k) BY Views DEF Promise!Hand, In
<1> QED BY <1>1 DEF Lawful, Promise!ContractNext

----------------------------------------------------------------------------
(* Every step: where it leads is good, it is lawful, it strands nothing    *)
(* but in lease_next, and what it brings to the DLQ tells why.             *)

StrandRule ==
  LET new == Stranded' \ Stranded IN new # {} => kills' > kills /\ new \subseteq In("inbox")

ReasonRule ==
  \/ kills' > kills
  \/ \A k \in Keys : disk'.dir[k] = "dlq" =>
       \/ disk'.envelope[k].blamed
       \/ disk.dir[k] = "dlq" /\ disk'.envelope[k] = disk.envelope[k]

StepRule == Good(disk') /\ Lawful /\ StrandRule /\ ReasonRule

LEMMA SameDisk ==
  ASSUME FileInv, UNCHANGED <<disk, delivered>>
  PROVE  StepRule
<1>1. Lawful BY SameDirs
<1> QED BY <1>1 DEF StepRule, FileInv, StrandRule, ReasonRule, Stranded, In

\* A message that was stranded by a step is the one it is about.
LEMMA StrandsOne ==
  ASSUME NEW k \in Keys, Only(k, disk, disk'), k \in Stranded' => k \in Stranded
  PROVE  StrandRule
<1>1. Stranded' \subseteq Stranded BY DEF Only, Stranded, In
<1> QED BY <1>1 DEF StrandRule

LEMMA LeaveStep ==
  ASSUME FileInv, NEW k \in Keys, NEW path, NEW dir \in Dirs \ {"processing"},
         Leaves(k, path, dir), NEW i \in 1 .. Len(path), disk' = path[i], delivered' = delivered,
         disk.dir[k] = "processing" \/ (disk.dir[k] = "dlq" /\ dir = "inbox"),
         dir = "archive" => \E c \in Consumers : <<c, k>> \in delivered,
         i = Len(path) \/ kills' > kills,
         dir = "dlq" => path[Len(path)].envelope[k].blamed
  PROVE  StepRule
<1>1. /\ Good(disk') /\ Only(k, disk, disk')
      /\ \/ disk'.dir = disk.dir /\ disk'.lease = disk.lease
         \/ disk'.dir[k] = dir
      /\ i = Len(path) => disk'.dir[k] = dir
  BY DEF Leaves
<1>2. Lawful
  <2>1. CASE disk'.dir = disk.dir BY <2>1, SameDirs
  <2>2. CASE disk'.dir[k] = dir /\ dir = "archive" BY <1>1, <2>2, Settles
  <2>3. CASE disk'.dir[k] = dir /\ dir # "archive" BY <1>1, <2>3, Moves DEF Kept, Dirs
  <2> QED BY <1>1, <2>1, <2>2, <2>3
<1>3. StrandRule
  <2>1. k \in Stranded' => k \in Stranded BY <1>1 DEF Stranded, In
  <2> QED BY <1>1, <2>1, StrandsOne
<1>4. ReasonRule BY <1>1 DEF ReasonRule, Only
<1> QED BY <1>1, <1>2, <1>3, <1>4 DEF StepRule

LEMMA LeaseStep ==
  ASSUME FileInv, NEW k \in In("inbox"), NEW c \in Consumers, NEW v \in VisTimeouts,
         NEW i \in 1 .. 3, disk' = LeasePath(k, c, v)[i],
         \/ i = 3 /\ delivered' = delivered \cup {<<c, k>>}
         \/ kills' > kills /\ delivered' = delivered
  PROVE  StepRule
<1>0. k \in Keys /\ disk.dir[k] = "inbox" BY DEF In
<1>1. /\ Good(disk') /\ Only(k, disk, disk') /\ disk'.dir[k] = "processing"
      /\ i > 1 => disk'.lease[k] # NoLease
  BY <1>0, LeaseOK DEF FileInv, FileTypeOK
<1>2. Lawful
  <2>1. CASE delivered' = delivered BY <1>0, <1>1, <2>1, Moves DEF Kept
  <2>2. CASE delivered' = delivered \cup {<<c, k>>} BY <1>0, <1>1, <2>2, HandedOut
  <2> QED BY <2>1, <2>2
<1>3. StrandRule
  <2>1. CASE i = 1
    <3>1. Stranded' \ Stranded \subseteq {k} BY <1>0, <1>1 DEF Only, Stranded, In
    <3> QED BY <2>1, <3>1 DEF StrandRule
  <2>2. CASE i > 1
    <3>1. k \notin Stranded' BY <1>1, <2>2 DEF Stranded
    <3> QED BY <1>0, <1>1, <3>1, StrandsOne
  <2> QED BY <2>1, <2>2
<1>4. ReasonRule BY <1>0, <1>1 DEF ReasonRule, Only
<1> QED BY <1>1, <1>2, <1>3, <1>4 DEF StepRule

\* Whatever the sweep makes of an entry, the message leaves processing.
LEMMA SweepLeaves ==
  ASSUME FileInv, NEW e \in listed, Treatable(e)
  PROVE  /\ e.key \in Keys /\ disk.dir[e.key] = "processing"
         /\ \E dir \in {"inbox", "delayed", "dlq"} :
              /\ Leaves(e.key, SweepPath(e), dir)
              /\ dir = "dlq" => SweepPath(e)[Len(SweepPath(e))].envelope[e.key].blamed
              /\ dir # "dlq" /\ Policy # NoPolicy => e.attempt < Policy.retry.limit
         /\ Frees(e.key, SweepPath(e))
<1> DEFINE k == e.key
<1>1. k \in Keys /\ disk.dir[k] = "processing" /\ e.attempt \in Nat \ {0} /\ now \in Nat
  BY DEF Treatable, In, FileInv, FileTypeOK, Entry
<1>2. Good(disk) BY DEF FileInv
<1>3. CASE Policy = NoPolicy
  <2>1. SweepPath(e) = DelayPath(k, 0) BY <1>3 DEF SweepPath, SweepVerdict
  <2> QED BY <1>1, <1>2, <1>3, <2>1, DelayLeaves
<1>4. CASE Policy # NoPolicy
  <2>1. Policy.retry \in Retry BY <1>4, FileAssumption
  <2>2. Backoff(e.attempt, Policy.retry) \in Int BY <1>1, <2>1, BackoffInt
  <2>3. SweepVerdict(e) \in {"retry", "dead_letter"}
    BY <1>4 DEF Treatable, SweepVerdict, Verdict
  <2>4. CASE SweepVerdict(e) = "retry"
    <3>1. SweepPath(e) = DelayPath(k, Backoff(e.attempt, Policy.retry)) BY <2>4 DEF SweepPath
    <3>2. e.attempt < Policy.retry.limit
      BY <1>1, <1>4, <2>1, <2>4 DEF SweepVerdict, Verdict, Retry
    <3> QED BY <1>1, <1>2, <2>2, <3>1, <3>2, DelayLeaves
  <2>5. CASE SweepVerdict(e) = "dead_letter"
    <3>1. SweepPath(e) = DlqPath(k) BY <2>5 DEF SweepPath
    <3> QED BY <1>1, <1>2, <3>1, DlqLeaves
  <2> QED BY <2>3, <2>4, <2>5
<1> QED BY <1>1, <1>3, <1>4

LEMMA SweepStep ==
  ASSUME FileInv, NEW e \in listed, Treatable(e), NEW i \in 1 .. Len(SweepPath(e)),
         disk' = SweepPath(e)[i], delivered' = delivered, i = Len(SweepPath(e)) \/ kills' > kills
  PROVE  StepRule
<1> DEFINE path == SweepPath(e)
<1>1. e.key \in Keys /\ disk.dir[e.key] = "processing" BY SweepLeaves
<1>2. PICK dir \in {"inbox", "delayed", "dlq"} :
        Leaves(e.key, path, dir) /\ (dir = "dlq" => path[Len(path)].envelope[e.key].blamed)
  BY SweepLeaves
<1>3. dir \in Dirs \ {"processing"} /\ dir # "archive" BY DEF Dirs
<1> HIDE DEF path
<1>4. i \in 1 .. Len(path) /\ disk' = path[i] /\ (i = Len(path) \/ kills' > kills) BY DEF path
<1> QED BY <1>1, <1>2, <1>3, <1>4, LeaveStep

LEMMA ExtendOK ==
  ASSUME FileInv, NEW c \in Consumers, NEW k \in Keys, NEW v \in VisTimeouts, Extend(c, k, v)
  PROVE  /\ Good(disk') /\ Only(k, disk, disk')
         /\ disk'.dir = disk.dir /\ disk'.envelope = disk.envelope
         /\ disk.lease[k] # NoLease /\ disk'.lease[k] # NoLease
         /\ disk'.lease[k].attempt = disk.lease[k].attempt
<1> DEFINE lease == [disk.lease[k] EXCEPT !.lease_until = now + v]
<1>1. disk.lease[k] \in GoodLease /\ disk.lease[k] # NoLease
  BY DEF Extend, HeldBy, LeaseLive, FileInv, Good
<1>2. now + v \in Int BY FileAssumption DEF FileInv, FileTypeOK
<1>3. lease \in GoodLease /\ lease.attempt = disk.lease[k].attempt
  BY <1>1, <1>2 DEF GoodLease, Lease
<1>4. disk' = WriteLease(disk, k, lease) BY DEF Extend
<1> HIDE DEF lease
<1>5. /\ Good(disk') /\ Only(k, disk, disk')
      /\ disk'.lease[k] = lease /\ disk'.dir = disk.dir /\ disk'.envelope = disk.envelope
  BY <1>3, <1>4, LeaseFileStep DEF FileInv
<1>6. lease # NoLease BY <1>3, FileAssumption DEF GoodLease
<1> QED BY <1>1, <1>3, <1>5, <1>6

LEMMA ExtendStep ==
  ASSUME FileInv, NEW c \in Consumers, NEW k \in Keys, NEW v \in VisTimeouts, Extend(c, k, v)
  PROVE  StepRule
<1>1. delivered' = delivered BY DEF Extend, clientVars
<1>2. StrandRule
  <2>1. k \notin Stranded' BY ExtendOK DEF Stranded
  <2> QED BY <2>1, ExtendOK, StrandsOne
<1>3. Lawful BY <1>1, ExtendOK, SameDirs
<1>4. ReasonRule BY ExtendOK DEF ReasonRule
<1> QED BY <1>2, <1>3, <1>4, ExtendOK DEF StepRule

LEMMA EnqueueOK ==
  ASSUME FileInv, NEW k \in Keys, NEW d \in PublishDelays, NEW t \in Targets, Enqueue(k, d, t)
  PROVE  /\ Good(disk') /\ Only(k, disk, disk')
         /\ disk.dir[k] = "none" /\ disk'.dir[k] \in {"inbox", "delayed"}
<1> DEFINE envelope == [attempt |-> 0, available_at |-> now + d, blamed |-> FALSE, target |-> t]
           dir == IF d > 0 THEN "delayed" ELSE "inbox"
           w == Rewrite(disk, k, envelope)
<1>1. envelope \in Envelope
  <2>1. now + d \in Int BY FileAssumption DEF FileInv, FileTypeOK
  <2> QED BY <2>1 DEF Envelope
<1>2. dir \in {"inbox", "delayed"} /\ dir \in Dirs BY DEF Dirs
<1>3. disk' = Move(w, k, dir) /\ disk.dir[k] = "none" BY DEF Enqueue
<1> HIDE DEF envelope, dir
<1>4. Good(w) /\ Only(k, disk, w) BY <1>1, RewriteStep DEF FileInv
<1> HIDE DEF w
<1>5. Good(disk') /\ Only(k, w, disk') /\ disk'.dir[k] = dir BY <1>2, <1>3, <1>4, MoveStep
<1>6. Only(k, disk, disk') BY <1>4, <1>5, OnlyChains
<1> QED BY <1>2, <1>3, <1>5, <1>6

LEMMA EnqueueStep ==
  ASSUME FileInv, NEW k \in Keys, NEW d \in PublishDelays, NEW t \in Targets, Enqueue(k, d, t)
  PROVE  StepRule
<1>1. delivered' = delivered BY DEF Enqueue, clientVars
<1>2. Lawful BY <1>1, EnqueueOK, Appears
<1>3. k \notin Stranded' BY EnqueueOK DEF Stranded, In
<1>4. StrandRule BY <1>3, EnqueueOK, StrandsOne
<1>5. ReasonRule BY EnqueueOK DEF ReasonRule, Only
<1> QED BY <1>2, <1>4, <1>5, EnqueueOK DEF StepRule

\* process_delayed_messages, also when it is killed before it has moved all.
LEMMA PromoteStep ==
  ASSUME FileInv, NEW S \in SUBSET Due, disk' = Promoted(S), delivered' = delivered
  PROVE  StepRule
<1> DEFINE dirs == [k \in Keys |-> IF k \in S THEN "inbox" ELSE disk.dir[k]]
<1>1. disk' = [disk EXCEPT !.dir = dirs] BY DEF Promoted
<1>2. dirs \in [Keys -> Dirs \cup {"none"}] BY DEF FileInv, Good, Dirs
<1>3. \A k \in S : k \in Keys /\ disk.dir[k] = "delayed" BY DEF Due, In
<1>4. \A k \in Keys : k \notin S => dirs[k] = disk.dir[k] OBVIOUS
<1>5. \A k \in S : dirs[k] = "inbox" BY <1>3
<1> HIDE DEF dirs
<1>6. /\ disk'.dir = dirs /\ disk'.envelope = disk.envelope /\ disk'.lease = disk.lease
      /\ Good(disk')
  BY <1>1, <1>2 DEF FileInv, Good
<1>7. /\ In("inbox")' \cup In("delayed")' = In("inbox") \cup In("delayed")
      /\ In("processing")' = In("processing") /\ In("dlq")' = In("dlq")
      /\ In("archive")' = In("archive")
  BY <1>3, <1>4, <1>5, <1>6 DEF In
<1>8. Lawful BY <1>7 DEF Lawful, Promise!contractVars
<1>9. StrandRule BY <1>6, <1>7 DEF StrandRule, Stranded
<1>10. ReasonRule BY <1>6, <1>7 DEF ReasonRule, In
<1> QED BY <1>6, <1>8, <1>9, <1>10 DEF StepRule

LEMMA ClientStepRule ==
  ASSUME FileInv, NEW k \in Keys, ClientStep(k)
  PROVE  StepRule
<1>0. Good(disk) /\ now \in Nat BY DEF FileInv, FileTypeOK
<1>1. ASSUME NEW c \in Consumers, NEW v \in VisTimeouts, LeaseNext(k, c, v) PROVE StepRule
  <2>1. k \in In("inbox") BY <1>1 DEF LeaseNext, First, Available
  <2>2. disk' = LeasePath(k, c, v)[3] /\ delivered' = delivered \cup {<<c, k>>}
    BY <1>0, <1>1, LeaseOK DEF LeaseNext, Completes
  <2> QED BY <2>1, <2>2, LeaseStep
<1>2. ASSUME NEW path, NEW dir \in Dirs \ {"processing"}, Leaves(k, path, dir), Completes(path),
             delivered' = delivered,
             disk.dir[k] = "processing" \/ (disk.dir[k] = "dlq" /\ dir = "inbox"),
             dir = "archive" => \E c \in Consumers : <<c, k>> \in delivered,
             dir = "dlq" => path[Len(path)].envelope[k].blamed
      PROVE  StepRule
  <2>1. Len(path) \in 1 .. Len(path) /\ disk' = path[Len(path)]
    BY <1>2 DEF Leaves, Completes
  <2> QED BY <1>2, <2>1, LeaveStep
<1>3. ASSUME NEW c \in Consumers, Ack(c, k) PROVE StepRule
  <2>1. Leaves(k, AckPath(k), "archive") BY <1>0, ReleaseLeaves DEF AckPath, Dirs
  <2>2. <<c, k>> \in delivered /\ disk.dir[k] = "processing" /\ delivered' = delivered
    BY <1>3 DEF Ack, MayAck, HeldBy, In, clientVars
  <2> QED BY <1>2, <1>3, <2>1, <2>2 DEF Ack, Dirs
<1>4. ASSUME NEW c \in Consumers, Requeue(c, k) PROVE StepRule
  <2>1. Leaves(k, RequeuePath(k), "inbox") BY <1>0, ReleaseLeaves DEF RequeuePath, Dirs
  <2>2. disk.dir[k] = "processing" /\ delivered' = delivered BY <1>4 DEF Requeue, MayNack, In
  <2> QED BY <1>2, <1>4, <2>1, <2>2 DEF Requeue, Dirs
<1>5. ASSUME NEW c \in Consumers, Reject(c, k) PROVE StepRule
  <2>1. Leaves(k, DlqPath(k), "dlq") /\ DlqPath(k)[Len(DlqPath(k))].envelope[k].blamed
    BY <1>0, DlqLeaves
  <2>2. disk.dir[k] = "processing" /\ delivered' = delivered
    BY <1>5 DEF Reject, MayNack, In, clientVars
  <2> QED BY <1>2, <1>5, <2>1, <2>2 DEF Reject, Dirs
<1>6. ASSUME Reprocess(k) PROVE StepRule
  <2>1. Leaves(k, ReprocessPath(k), "inbox") BY <1>0, ReprocessLeaves
  <2>2. disk.dir[k] = "dlq" /\ delivered' = delivered BY <1>6 DEF Reprocess, MayReprocess, In
  <2> QED BY <1>2, <1>6, <2>1, <2>2 DEF Reprocess, Dirs
<1> QED BY <1>1, <1>3, <1>4, <1>5, <1>6, EnqueueStep, ExtendStep DEF ClientStep

LEMMA KillStepRule ==
  ASSUME FileInv, Kill
  PROVE  StepRule
<1>0. /\ kills' > kills /\ delivered' = delivered
      /\ Good(disk) /\ now \in Nat
  BY DEF Kill, Down, KilledIn, FileInv, FileTypeOK
<1>1. CASE UNCHANGED disk BY <1>0, <1>1, SameDisk
<1>2. ASSUME NEW c \in Consumers, NEW v \in VisTimeouts, NEW k \in First(Available(c)),
             KilledIn(LeasePath(k, c, v))
      PROVE  StepRule
  <2>1. k \in In("inbox") /\ k \in Keys BY <1>2 DEF First, Available, In
  <2>2. Len(LeasePath(k, c, v)) = 3 BY <1>0, <2>1, LeaseOK
  <2>3. PICK i \in 1 .. 3 : disk' = LeasePath(k, c, v)[i] BY <1>2, <2>2 DEF KilledIn
  <2> QED BY <1>0, <2>1, <2>3, LeaseStep
<1>3. ASSUME NEW k \in Keys, NEW path, NEW dir \in Dirs \ {"processing"}, Leaves(k, path, dir),
             KilledIn(path), disk.dir[k] = "processing" \/ (disk.dir[k] = "dlq" /\ dir = "inbox"),
             dir = "archive" => \E c \in Consumers : <<c, k>> \in delivered,
             dir = "dlq" => path[Len(path)].envelope[k].blamed
      PROVE  StepRule
  <2>1. PICK i \in 1 .. Len(path) : disk' = path[i] BY <1>3 DEF KilledIn, Leaves
  <2> QED BY <1>0, <1>3, <2>1, LeaveStep
<1>4. ASSUME NEW c \in Consumers, NEW k \in Keys, MayAck(c, k), KilledIn(AckPath(k))
      PROVE  StepRule
  <2>1. Leaves(k, AckPath(k), "archive") BY <1>0, ReleaseLeaves DEF AckPath, Dirs
  <2>2. <<c, k>> \in delivered /\ disk.dir[k] = "processing" BY <1>4 DEF MayAck, HeldBy, In
  <2> QED BY <1>3, <1>4, <2>1, <2>2 DEF Dirs
<1>5. ASSUME NEW c \in Consumers, NEW k \in Keys, MayNack("requeue", c, k), KilledIn(RequeuePath(k))
      PROVE  StepRule
  <2>1. Leaves(k, RequeuePath(k), "inbox") BY <1>0, ReleaseLeaves DEF RequeuePath, Dirs
  <2>2. disk.dir[k] = "processing" BY <1>5 DEF MayNack, In
  <2> QED BY <1>3, <1>5, <2>1, <2>2 DEF Dirs
<1>6. ASSUME NEW c \in Consumers, NEW k \in Keys, MayNack("reject", c, k), KilledIn(DlqPath(k))
      PROVE  StepRule
  <2>1. Leaves(k, DlqPath(k), "dlq") /\ DlqPath(k)[Len(DlqPath(k))].envelope[k].blamed
    BY <1>0, DlqLeaves
  <2>2. disk.dir[k] = "processing" BY <1>6 DEF MayNack, In
  <2> QED BY <1>3, <1>6, <2>1, <2>2 DEF Dirs
<1>7. ASSUME NEW k \in Keys, MayReprocess(k), KilledIn(ReprocessPath(k)) PROVE StepRule
  <2>1. Leaves(k, ReprocessPath(k), "inbox") BY <1>0, ReprocessLeaves
  <2>2. disk.dir[k] = "dlq" BY <1>7 DEF MayReprocess, In
  <2> QED BY <1>3, <1>7, <2>1, <2>2 DEF Dirs
<1>8. ASSUME NEW e \in listed, Treatable(e), KilledIn(SweepPath(e)) PROVE StepRule
  <2>1. Len(SweepPath(e)) \in Nat BY <1>8, SweepLeaves DEF Leaves
  <2>2. PICK i \in 1 .. Len(SweepPath(e)) : disk' = SweepPath(e)[i]
    BY <1>8, <2>1 DEF KilledIn
  <2> QED BY <1>0, <1>8, <2>2, SweepStep
<1>9. ASSUME NEW S \in SUBSET Due, disk' = Promoted(S) PROVE StepRule
  BY <1>0, <1>9, PromoteStep
<1> QED BY <1>1, <1>2, <1>4, <1>5, <1>6, <1>7, <1>8, <1>9 DEF Kill

LEMMA NextStepRule == FileInv /\ [FileNext]_fileVars => StepRule
<1> SUFFICES ASSUME FileInv, [FileNext]_fileVars PROVE StepRule
  OBVIOUS
<1>1. CASE \E k \in Keys : ClientStep(k) BY <1>1, ClientStepRule
<1>2. CASE ListExpired BY <1>2, SameDisk DEF ListExpired, clientVars
<1>3. CASE \E e \in listed : SweepEntry(e)
  <2>1. PICK e \in listed : SweepEntry(e) BY <1>3
  <2>2. delivered' = delivered BY <2>1 DEF SweepEntry, clientVars
  <2>3. CASE Treatable(e)
    <3>1. Len(SweepPath(e)) \in Nat \ {0} BY <2>3, SweepLeaves DEF Leaves
    <3>2. disk' = SweepPath(e)[Len(SweepPath(e))] BY <2>1, <2>3 DEF SweepEntry, Completes
    <3>3. Len(SweepPath(e)) \in 1 .. Len(SweepPath(e)) BY <3>1
    <3> QED BY <2>2, <2>3, <3>2, <3>3, SweepStep
  <2>4. CASE ~Treatable(e) BY <2>1, <2>2, <2>4, SameDisk DEF SweepEntry
  <2> QED BY <2>3, <2>4
<1>4. CASE RetrySweep BY <1>4, PromoteStep DEF RetrySweep, clientVars
<1>5. CASE Kill BY <1>5, KillStepRule
<1>6. CASE Tick BY <1>6, SameDisk DEF Tick, clientVars
<1>7. CASE UNCHANGED fileVars BY <1>7, SameDisk DEF fileVars
<1> QED BY <1>1, <1>2, <1>3, <1>4, <1>5, <1>6, <1>7 DEF FileNext

----------------------------------------------------------------------------
(* The invariant, but for the disk.                                        *)

Rest ==
  /\ now \in Nat
  /\ listed \subseteq Entry /\ \A e \in listed : e.attempt >= 1
  /\ delivered \subseteq Consumers \X Keys
  /\ deliveries \in [Keys -> Nat]
  /\ kills \in Nat

LEMMA InvParts == FileInv <=> Good(disk) /\ Rest
<1>1. Good(disk) => disk \in Disk BY DEF Good, Disk, GoodLease
<1> QED BY <1>1 DEF FileInv, FileTypeOK, Rest

LEMMA ListExpiredRest == FileInv /\ ListExpired => Rest'
<1> SUFFICES ASSUME FileInv, ListExpired PROVE Rest'
  OBVIOUS
<1>1. ASSUME NEW e \in listed' PROVE e \in Entry /\ e.attempt >= 1
  <2>1. PICK k \in Expired : e = [key |-> k, attempt |-> disk.lease[k].attempt]
    BY <1>1 DEF ListExpired
  <2>2. k \in Keys /\ disk.lease[k] \in GoodLease BY DEF Expired, FileInv, Good
  <2>3. disk.lease[k].attempt \in Nat /\ disk.lease[k].attempt >= 1
    BY <2>2 DEF GoodLease, Lease
  <2> QED BY <2>1, <2>2, <2>3 DEF Entry
<1> QED BY <1>1, InvParts DEF ListExpired, Rest, clientVars

LEMMA NextRest == FileInv /\ [FileNext]_fileVars => Rest'
<1> SUFFICES ASSUME Rest, FileInv, [FileNext]_fileVars PROVE Rest'
  BY InvParts
<1>1. ASSUME NEW k \in Keys, ClientStep(k) PROVE Rest'
  <2>1. ASSUME NEW d \in PublishDelays, NEW t \in Targets, Enqueue(k, d, t) PROVE Rest'
    BY <2>1 DEF Enqueue, clientVars, Rest
  <2>2. ASSUME NEW c \in Consumers, NEW v \in VisTimeouts, LeaseNext(k, c, v) PROVE Rest'
    BY <2>2 DEF LeaseNext, Completes, Rest
  <2>3. ASSUME NEW c \in Consumers, NEW v \in VisTimeouts, Extend(c, k, v) PROVE Rest'
    BY <2>3 DEF Extend, clientVars, Rest
  <2>4. ASSUME NEW c \in Consumers, Ack(c, k) \/ Reject(c, k) PROVE Rest'
    BY <2>4 DEF Ack, Reject, Completes, clientVars, Rest
  <2>5. ASSUME NEW c \in Consumers, Requeue(c, k) PROVE Rest'
    BY <2>5 DEF Requeue, Completes, Rest
  <2>6. ASSUME Reprocess(k) PROVE Rest' BY <2>6 DEF Reprocess, Completes, Rest
  <2> QED BY <1>1, <2>1, <2>2, <2>3, <2>4, <2>5, <2>6 DEF ClientStep
<1>2. ASSUME NEW e \in listed, SweepEntry(e) PROVE Rest'
  BY <1>2 DEF SweepEntry, Completes, clientVars, Rest
<1>3. CASE RetrySweep BY <1>3 DEF RetrySweep, clientVars, Rest
<1>4. CASE Kill
  <2>1. /\ kills' = kills + 1 /\ listed' = {}
        /\ UNCHANGED <<now, delivered, deliveries>>
    BY <1>4 DEF Kill, Down, KilledIn
  <2> QED BY <2>1 DEF Rest
<1>5. CASE Tick BY <1>5 DEF Tick, clientVars, Rest
<1>6. CASE UNCHANGED fileVars BY <1>6 DEF fileVars, Rest
<1> QED BY <1>1, <1>2, <1>3, <1>4, <1>5, <1>6, ListExpiredRest DEF FileNext

----------------------------------------------------------------------------
(* The theorems.                                                           *)

LEMMA InitInv == FileInit => FileInv
<1> SUFFICES ASSUME FileInit PROVE FileInv
  OBVIOUS
<1>1. NewEnvelope \in Envelope BY DEF NewEnvelope, Envelope
<1>2. Good(disk) BY <1>1 DEF FileInit, Good
<1>3. Rest BY DEF FileInit, Rest
<1> QED BY <1>2, <1>3, InvParts

LEMMA FileInvariant == FileSpec => []FileInv
<1>1. FileInv /\ [FileNext]_fileVars => Good(disk)'
  BY NextStepRule DEF StepRule
<1> QED BY <1>1, NextRest, InvParts, InitInv, PTL DEF FileSpec

\* Every variable of the file system backend keeps its type, and every message
\* is in one of its directories or in none.
THEOREM FileTypeCorrect == FileSpec => []FileTypeOK
<1>1. FileInv => FileTypeOK BY DEF FileInv
<1> QED BY <1>1, FileInvariant, PTL

\* Wherever the daemon is killed, between operations or between two file steps,
\* a message is published, handed out, dead-lettered and settled as AtLeastOnce
\* says: none is lost and none comes back.
THEOREM FileContractKept == FileSpec => FileKeepsContract
<1>1. FileInit => Promise!ContractInit
  BY DEF FileInit, In, Promise!ContractInit
<1>2. FileInv /\ [FileNext]_fileVars => [Promise!ContractNext]_Promise!contractVars
  BY NextStepRule DEF StepRule, Lawful
<1> QED BY <1>1, <1>2, FileInvariant, PTL DEF FileSpec, FileKeepsContract, Promise!Contract

\* At least once, and never again: an entry of the sweep or a request on an old
\* lease finds no message where it looks for one, and the archive has no way out.
THEOREM ArchiveIsFinal == FileSpec => ArchivedIsFinal
<1>1. ASSUME Lawful PROVE \A k \in In("archive") : NeverBack(k)
  <2>1. \A k \in In("archive") :
          k \notin In("inbox") \cup In("processing") \cup In("delayed") \cup In("dlq")
    BY DEF In
  <2> QED
    BY <1>1, <2>1 DEF NeverBack, Lawful, Promise!ContractNext, Promise!contractVars,
       Promise!Publish, Promise!Bury, Promise!Unearth, Promise!Settle, Promise!Hand
<1>2. FileInv /\ [FileNext]_fileVars => [\A k \in In("archive") : NeverBack(k)]_fileVars
  BY <1>1, NextStepRule DEF StepRule
<1> QED
  BY <1>2, FileInvariant, PTL DEF FileSpec, ArchivedIsFinal

\* A message is left in processing without a lease file by lease_next alone, by
\* a kill between its first two file steps (FileSystemAdapter.cpp).
THEOREM OnlyLeaseNextStrands == FileSpec => LeaseNextStrands
<1>1. FileInv /\ [FileNext]_fileVars => StrandRule BY NextStepRule DEF StepRule
<1>2. StrandRule =>
        [LET new == Stranded' \ Stranded
         IN  new # {} => kills' > kills /\ new \subseteq In("inbox")]_fileVars
  BY DEF StrandRule
<1> QED BY <1>1, <1>2, FileInvariant, PTL DEF FileSpec, LeaseNextStrands

\* A step counts one kill or none.
LEMMA KillsCounted == [FileNext]_fileVars => kills' \in {kills, kills + 1}
<1> SUFFICES ASSUME [FileNext]_fileVars PROVE kills' \in {kills, kills + 1}
  OBVIOUS
<1>1. ASSUME NEW k \in Keys, ClientStep(k) PROVE kills' = kills
  <2>1. ASSUME NEW d \in PublishDelays, NEW t \in Targets, Enqueue(k, d, t) PROVE kills' = kills
    BY <2>1 DEF Enqueue
  <2>2. ASSUME NEW c \in Consumers, NEW v \in VisTimeouts, LeaseNext(k, c, v) \/ Extend(c, k, v)
        PROVE  kills' = kills
    BY <2>2 DEF LeaseNext, Extend, Completes
  <2>3. ASSUME NEW c \in Consumers, Ack(c, k) \/ Requeue(c, k) \/ Reject(c, k)
        PROVE  kills' = kills
    BY <2>3 DEF Ack, Requeue, Reject, Completes
  <2>4. ASSUME Reprocess(k) PROVE kills' = kills BY <2>4 DEF Reprocess, Completes
  <2> QED BY <1>1, <2>1, <2>2, <2>3, <2>4 DEF ClientStep
<1>2. ASSUME NEW e \in listed, SweepEntry(e) PROVE kills' = kills
  BY <1>2 DEF SweepEntry, Completes
<1>3. CASE Kill BY <1>3 DEF Kill, Down, KilledIn
<1>4. CASE ListExpired \/ RetrySweep \/ Tick BY <1>4 DEF ListExpired, RetrySweep, Tick
<1>5. CASE UNCHANGED fileVars BY <1>5 DEF fileVars
<1> QED BY <1>1, <1>2, <1>3, <1>4, <1>5 DEF FileNext

\* As long as no operation is cut short, a message in the DLQ tells why it is
\* there, whichever of nack and move_to_dlq put it there.
THEOREM ReasonsKept == FileSpec => []DlqExplained
<1>1. FileInit => DlqExplained BY DEF FileInit, DlqExplained, In
<1>2. FileInv /\ FileInv' /\ DlqExplained /\ [FileNext]_fileVars => DlqExplained'
  <2> SUFFICES ASSUME FileInv, FileInv', DlqExplained, [FileNext]_fileVars, kills' = 0
               PROVE  \A k \in In("dlq")' : disk'.envelope[k].blamed
    BY DEF DlqExplained
  <2>1. ReasonRule BY NextStepRule DEF StepRule
  <2>2. kills \in Nat BY DEF FileInv, FileTypeOK
  <2>3. kills' \in {kills, kills + 1} BY KillsCounted
  <2>4. kills = 0 /\ ~(kills' > kills) BY <2>2, <2>3
  <2> QED BY <2>1, <2>4 DEF ReasonRule, DlqExplained, In
<1> QED BY <1>1, <1>2, FileInvariant, PTL DEF FileSpec

----------------------------------------------------------------------------
(* How often a message is handed out.                                      *)

Limit == Policy.retry.limit

Least == IF Limit > 1 THEN Limit ELSE 1

\* The deliveries of k, with the one it waits for.
Owed(k) == deliveries[k] + (IF disk.dir[k] \in {"inbox", "delayed"} THEN 1 ELSE 0)

\* A sweep that judges a message by this attempt grants it one delivery too many.
Behind(attempt, owed) == attempt < Limit /\ attempt < owed

\* An attempt that is behind is the leftover of a kill, which pays for it.
Charged(k) ==
  /\ Owed(k) <= Least + kills
  /\ disk.lease[k] # NoLease /\ Behind(disk.lease[k].attempt, Owed(k)) => Owed(k) < Least + kills
  /\ \A e \in listed : e.key = k /\ Behind(e.attempt, Owed(k)) => Owed(k) < Least + kills
  /\ disk.dir[k] # "dlq" => deliveries[k] <= disk.envelope[k].attempt
  /\ disk.dir[k] = "none" => deliveries[k] = 0

OneEntryEach == \A e, f \in listed : e.key = f.key => e = f

BudgetInv == Policy # NoPolicy => OneEntryEach /\ \A k \in Keys : Charged(k)

\* The counts of k before and after a step are numbers.
Counts(k) ==
  /\ Limit \in Nat /\ Least \in Nat \ {0} /\ Least >= Limit
  /\ kills \in Nat /\ kills' \in Nat
  /\ deliveries[k] \in Nat /\ deliveries'[k] \in Nat
  /\ Owed(k) \in {deliveries[k], deliveries[k] + 1}
  /\ Owed(k)' \in {deliveries'[k], deliveries'[k] + 1}
  /\ disk.envelope[k].attempt \in Nat /\ disk'.envelope[k].attempt \in Nat
  /\ disk.lease[k] # NoLease => disk.lease[k].attempt \in Nat \ {0}
  /\ disk'.lease[k] # NoLease => disk'.lease[k].attempt \in Nat \ {0}
  /\ \A e \in listed : e.attempt \in Nat \ {0}

LEMMA CountsOK ==
  ASSUME FileInv, FileInv', Policy # NoPolicy, NEW k \in Keys
  PROVE  Counts(k)
<1>1. Limit \in Nat BY FileAssumption DEF Limit, Retry
<1>2. Least \in Nat \ {0} /\ Least >= Limit BY <1>1 DEF Least
<1>3. /\ kills \in Nat /\ kills' \in Nat
      /\ deliveries[k] \in Nat /\ deliveries'[k] \in Nat
  BY DEF FileInv, FileTypeOK
<1>4. disk.envelope[k].attempt \in Nat /\ disk'.envelope[k].attempt \in Nat
  BY DEF FileInv, Good, Envelope
<1>5. disk.lease[k] # NoLease => disk.lease[k].attempt \in Nat \ {0}
  BY DEF FileInv, Good, GoodLease, Lease
<1>6. disk'.lease[k] # NoLease => disk'.lease[k].attempt \in Nat \ {0}
  BY DEF FileInv, Good, GoodLease, Lease
<1>7. \A e \in listed : e.attempt \in Nat \ {0} BY DEF FileInv, FileTypeOK, Entry
<1>8. Owed(k) \in {deliveries[k], deliveries[k] + 1} BY <1>3 DEF Owed
<1>9. Owed(k)' \in {deliveries'[k], deliveries'[k] + 1} BY <1>3 DEF Owed
<1> QED BY <1>1, <1>2, <1>3, <1>4, <1>5, <1>6, <1>7, <1>8, <1>9 DEF Counts

\* What the envelope and the directory have to say of the count.
Recorded(k) ==
  /\ disk.dir[k] # "dlq" => deliveries[k] <= disk.envelope[k].attempt
  /\ disk.dir[k] = "none" => deliveries[k] = 0

\* A step that grants k no delivery and leaves no attempt further behind.
LEMMA OwesAsBefore ==
  ASSUME NEW k \in Keys, Counts(k), Charged(k), Recorded(k)',
         Owed(k)' = Owed(k), kills' >= kills, listed' \subseteq listed,
         \/ disk'.lease[k] = NoLease
         \/ disk'.lease[k].attempt >= Owed(k)
         \/ disk.lease[k] # NoLease /\ disk'.lease[k].attempt = disk.lease[k].attempt
  PROVE  Charged(k)'
<1>1. Owed(k) < Least + kills => Owed(k) < Least + kills' BY DEF Counts
<1>2. disk'.lease[k] # NoLease /\ Behind(disk'.lease[k].attempt, Owed(k))
        => Owed(k) < Least + kills'
  <2> SUFFICES ASSUME disk'.lease[k] # NoLease, Behind(disk'.lease[k].attempt, Owed(k))
               PROVE  Owed(k) < Least + kills'
    OBVIOUS
  <2>1. disk'.lease[k].attempt < Owed(k) BY DEF Behind
  <2>2. disk.lease[k] # NoLease /\ disk'.lease[k].attempt = disk.lease[k].attempt
    BY <2>1 DEF Counts
  <2>3. Owed(k) < Least + kills BY <2>2 DEF Charged
  <2> QED BY <1>1, <2>3
<1>3. \A e \in listed' : e.key = k /\ Behind(e.attempt, Owed(k)) => Owed(k) < Least + kills'
  BY <1>1 DEF Charged
<1>4. Owed(k) <= Least + kills' BY DEF Charged, Counts
<1> QED BY <1>2, <1>3, <1>4 DEF Charged, Recorded, Behind, Least, Limit

\* A message that starts anew.
LEMMA OwesOne ==
  ASSUME NEW k \in Keys, Counts(k), Recorded(k)',
         Owed(k)' = 1, kills' = kills, listed' \subseteq listed
  PROVE  Charged(k)'
<1>1. \A e \in listed' : ~ Behind(e.attempt, Owed(k)') BY DEF Behind, Counts
<1>2. disk'.lease[k] # NoLease => ~ Behind(disk'.lease[k].attempt, Owed(k)')
  BY DEF Behind, Counts
<1>3. Owed(k)' <= Least + kills' BY DEF Counts
<1> QED BY <1>1, <1>2, <1>3 DEF Charged, Recorded, Behind, Least, Limit

\* A kill pays for the delivery that the operation it cut short has granted.
LEMMA KillPays ==
  ASSUME NEW k \in Keys, Counts(k), Charged(k), Recorded(k)',
         kills' = kills + 1, listed' = {},
         \/ Owed(k)' <= Owed(k)
         \/ Owed(k)' <= Owed(k) + 1 /\ disk'.lease[k] \in {disk.lease[k], NoLease}
  PROVE  Charged(k)'
<1>1. Owed(k) <= Least + kills BY DEF Charged
<1>2. Owed(k)' <= Least + kills' BY <1>1 DEF Counts
<1>3. ASSUME disk'.lease[k] # NoLease, Behind(disk'.lease[k].attempt, Owed(k)')
      PROVE  Owed(k)' < Least + kills'
  <2>1. CASE Owed(k)' <= Owed(k) BY <1>1, <2>1 DEF Counts
  <2>2. CASE Owed(k)' <= Owed(k) + 1 /\ disk'.lease[k] = disk.lease[k]
    <3> DEFINE a == disk.lease[k].attempt
    <3>1. a < Limit /\ a < Owed(k)' /\ a \in Nat BY <1>3, <2>2 DEF Behind, Counts
    <3>2. CASE a < Owed(k)
      <4>1. Owed(k) < Least + kills BY <1>3, <2>2, <3>1, <3>2 DEF Charged, Behind
      <4> QED BY <2>2, <4>1 DEF Counts
    <3>3. CASE ~(a < Owed(k))
      <4> HIDE DEF a
      <4>1. Owed(k) < Least + kills BY <3>1, <3>3 DEF Counts
      <4> QED BY <2>2, <4>1 DEF Counts
    <3> QED BY <3>2, <3>3
  <2> QED BY <1>3, <2>1, <2>2
<1> QED BY <1>2, <1>3 DEF Charged, Recorded, Behind, Least, Limit

\* A step that touches no file of k.
LEMMA OwesTheSame ==
  ASSUME NEW k \in Keys, Counts(k), Charged(k), disk'.dir[k] = disk.dir[k],
         disk'.envelope[k] = disk.envelope[k], disk'.lease[k] = disk.lease[k],
         deliveries'[k] = deliveries[k], kills' >= kills, listed' \subseteq listed
  PROVE  Charged(k)'
<1>1. Owed(k)' = Owed(k) BY DEF Owed
<1>2. Recorded(k)' BY DEF Charged, Recorded
<1> QED BY <1>1, <1>2, OwesAsBefore

\* A step of one message is about its count alone.
LEMMA OneCharged ==
  ASSUME FileInv, FileInv', Policy # NoPolicy, BudgetInv,
         NEW k \in Keys, Only(k, disk, disk'), Charged(k)',
         \A j \in Keys \ {k} : deliveries'[j] = deliveries[j],
         kills' >= kills, listed' \subseteq listed
  PROVE  BudgetInv'
<1>1. OneEntryEach' BY DEF BudgetInv, OneEntryEach
<1>2. ASSUME NEW j \in Keys \ {k} PROVE Charged(j)'
  BY <1>2, CountsOK, OwesTheSame DEF BudgetInv, Only
<1> QED BY <1>1, <1>2 DEF BudgetInv

LEMMA ClientCharged ==
  ASSUME FileInv, FileInv', Policy # NoPolicy, BudgetInv, NEW k \in Keys, ClientStep(k)
  PROVE  BudgetInv'
<1>1. /\ Good(disk) /\ now \in Nat /\ Counts(k) /\ Charged(k)
      /\ deliveries \in [Keys -> Nat]
  BY CountsOK DEF FileInv, FileTypeOK, BudgetInv
<1>2. ASSUME NEW d \in PublishDelays, NEW t \in Targets, Enqueue(k, d, t) PROVE BudgetInv'
  <2>1. UNCHANGED <<listed, deliveries, kills>> /\ deliveries[k] = 0
    BY <1>1, <1>2, EnqueueOK DEF Enqueue, clientVars, Charged
  <2>2. Owed(k)' = 1 /\ Recorded(k)' BY <1>1, <1>2, <2>1, EnqueueOK DEF Owed, Recorded, Counts
  <2>3. Charged(k)' BY <1>1, <2>1, <2>2, OwesOne
  <2>4. kills' >= kills BY <1>1, <2>1 DEF Counts
  <2> QED BY <1>2, <2>1, <2>3, <2>4, EnqueueOK, OneCharged
<1>3. ASSUME NEW c \in Consumers, NEW v \in VisTimeouts, LeaseNext(k, c, v) PROVE BudgetInv'
  <2> DEFINE path == LeasePath(k, c, v)
  <2>1. disk' = path[3] /\ disk.dir[k] = "inbox"
    BY <1>1, <1>3, LeaseOK DEF LeaseNext, Completes, First, Available, In
  <2>2. /\ Only(k, disk, path[3]) /\ path[3].dir[k] = "processing"
        /\ path[3].lease[k].attempt = disk.envelope[k].attempt + 1
        /\ path[3].envelope[k].attempt = disk.envelope[k].attempt + 1
    BY <1>1, LeaseOK
  <2> HIDE DEF path
  <2>3. /\ UNCHANGED <<listed, kills>> /\ deliveries'[k] = deliveries[k] + 1
        /\ \A j \in Keys \ {k} : deliveries'[j] = deliveries[j]
    BY <1>1, <1>3 DEF LeaseNext, Completes
  <2>4. kills' >= kills BY <1>1, <2>3 DEF Counts
  <2>5. Owed(k) = deliveries[k] + 1 /\ Owed(k)' = Owed(k) BY <1>1, <2>1, <2>2, <2>3 DEF Owed
  <2>6. deliveries[k] <= disk.envelope[k].attempt BY <1>1, <2>1 DEF Charged
  <2>7. Recorded(k)' BY <1>1, <2>1, <2>2, <2>3, <2>6 DEF Recorded, Counts
  <2>8. disk'.lease[k].attempt >= Owed(k) BY <1>1, <2>1, <2>2, <2>5, <2>6 DEF Counts
  <2>9. Charged(k)' BY <1>1, <2>3, <2>4, <2>5, <2>7, <2>8, OwesAsBefore
  <2> QED BY <2>1, <2>2, <2>3, <2>4, <2>9, OneCharged
<1>4. ASSUME NEW c \in Consumers, NEW v \in VisTimeouts, Extend(c, k, v) PROVE BudgetInv'
  <2>1. UNCHANGED <<listed, deliveries, kills>> BY <1>4 DEF Extend, clientVars
  <2>2. kills' >= kills BY <1>1, <2>1 DEF Counts
  <2>3. Owed(k)' = Owed(k) /\ Recorded(k)'
    BY <1>1, <1>4, <2>1, ExtendOK DEF Owed, Recorded, Charged
  <2>4. Charged(k)' BY <1>1, <1>4, <2>1, <2>2, <2>3, ExtendOK, OwesAsBefore
  <2> QED BY <1>4, <2>1, <2>2, <2>4, ExtendOK, OneCharged
<1>5. ASSUME NEW path, NEW dir \in {"archive", "dlq"}, Leaves(k, path, dir), Frees(k, path),
             Completes(path), disk.dir[k] = "processing", UNCHANGED <<listed, deliveries>>
      PROVE  BudgetInv'
  <2>1. Len(path) \in 1 .. Len(path) /\ disk' = path[Len(path)] /\ kills' = kills
    BY <1>5 DEF Leaves, Completes
  <2>2. /\ Only(k, disk, disk') /\ disk'.dir[k] = dir /\ disk'.lease[k] = NoLease
        /\ disk'.envelope[k].attempt = disk.envelope[k].attempt
    BY <1>5, <2>1 DEF Leaves, Frees
  <2>3. kills' >= kills BY <1>1, <2>1 DEF Counts
  <2>4. Owed(k)' = Owed(k) BY <1>5, <2>2 DEF Owed
  <2>5. Recorded(k)' BY <1>1, <1>5, <2>2 DEF Recorded, Charged
  <2>6. Charged(k)' BY <1>1, <1>5, <2>2, <2>3, <2>4, <2>5, OwesAsBefore
  <2> QED BY <1>5, <2>2, <2>3, <2>6, OneCharged
<1>6. ASSUME NEW path, Leaves(k, path, "inbox"), Completes(path),
             deliveries' = [deliveries EXCEPT ![k] = 0], UNCHANGED listed
      PROVE  BudgetInv'
  <2>1. Len(path) \in 1 .. Len(path) /\ disk' = path[Len(path)] /\ kills' = kills
    BY <1>6 DEF Leaves, Completes
  <2>2. Only(k, disk, disk') /\ disk'.dir[k] = "inbox" BY <1>6, <2>1 DEF Leaves
  <2>3. kills' >= kills BY <1>1, <2>1 DEF Counts
  <2>4. deliveries'[k] = 0 /\ \A j \in Keys \ {k} : deliveries'[j] = deliveries[j]
    BY <1>1, <1>6
  <2>5. Owed(k)' = 1 /\ Recorded(k)' BY <1>1, <2>2, <2>4 DEF Owed, Recorded, Counts
  <2>6. Charged(k)' BY <1>1, <1>6, <2>1, <2>5, OwesOne
  <2> QED BY <1>6, <2>2, <2>3, <2>4, <2>6, OneCharged
<1>7. ASSUME NEW c \in Consumers, Ack(c, k) PROVE BudgetInv'
  <2>1. Leaves(k, AckPath(k), "archive") /\ Frees(k, AckPath(k))
    BY <1>1, ReleaseLeaves DEF AckPath, Dirs
  <2> QED BY <1>5, <1>7, <2>1 DEF Ack, MayAck, In, clientVars
<1>8. ASSUME NEW c \in Consumers, Requeue(c, k) PROVE BudgetInv'
  <2>1. Leaves(k, RequeuePath(k), "inbox") BY <1>1, ReleaseLeaves DEF RequeuePath, Dirs
  <2> QED BY <1>6, <1>8, <2>1 DEF Requeue
<1>9. ASSUME NEW c \in Consumers, Reject(c, k) PROVE BudgetInv'
  <2>1. Leaves(k, DlqPath(k), "dlq") /\ Frees(k, DlqPath(k)) BY <1>1, DlqLeaves
  <2> QED BY <1>5, <1>9, <2>1 DEF Reject, MayNack, In, clientVars
<1>10. ASSUME Reprocess(k) PROVE BudgetInv'
  <2>1. Leaves(k, ReprocessPath(k), "inbox") BY <1>1, ReprocessLeaves
  <2> QED BY <1>6, <1>10, <2>1 DEF Reprocess
<1> QED BY <1>2, <1>3, <1>4, <1>7, <1>8, <1>9, <1>10 DEF ClientStep

\* An entry grants a delivery: of those the policy allows, or of those kills paid.
LEMMA SweepCharged ==
  ASSUME FileInv, FileInv', Policy # NoPolicy, BudgetInv, NEW e \in listed, SweepEntry(e)
  PROVE  BudgetInv'
<1> DEFINE k == e.key
           path == SweepPath(e)
<1>1. k \in Keys BY DEF FileInv, FileTypeOK, Entry
<1>2. Counts(k) /\ Charged(k) /\ OneEntryEach BY <1>1, CountsOK DEF BudgetInv
<1>3. UNCHANGED <<deliveries, kills>> /\ listed' = listed \ {e} /\ kills' >= kills
  BY <1>2 DEF SweepEntry, Completes, clientVars, Counts
<1>4. CASE Treatable(e)
  <2>1. Len(path) \in 1 .. Len(path) /\ disk' = path[Len(path)] /\ Frees(k, path)
    BY <1>4, SweepLeaves DEF SweepEntry, Completes, Leaves
  <2>2. PICK dir \in {"inbox", "delayed", "dlq"} :
          /\ Leaves(k, path, dir) /\ disk.dir[k] = "processing"
          /\ dir # "dlq" => e.attempt < Limit
    BY <1>4, SweepLeaves DEF Limit
  <2> HIDE DEF path
  <2>3. /\ Only(k, disk, disk') /\ disk'.dir[k] = dir /\ disk'.lease[k] = NoLease
        /\ disk'.envelope[k].attempt = disk.envelope[k].attempt
    BY <2>1, <2>2 DEF Leaves, Frees
  <2>4. Recorded(k)' BY <1>2, <1>3, <2>2, <2>3 DEF Recorded, Charged
  <2>5. CASE dir = "dlq"
    <3>1. Owed(k)' = Owed(k) BY <1>3, <2>2, <2>3, <2>5 DEF Owed
    <3> QED BY <1>1, <1>2, <1>3, <2>3, <2>4, <3>1, OwesAsBefore, OneCharged
  <2>6. CASE dir # "dlq"
    <3>1. Owed(k)' = Owed(k) + 1 BY <1>2, <1>3, <2>2, <2>3, <2>6 DEF Owed, Counts
    <3>2. Owed(k) < Least + kills
      <4>1. e.attempt \in Nat /\ e.attempt < Limit BY <1>2, <2>2, <2>6 DEF Counts
      <4>2. CASE e.attempt < Owed(k) BY <1>2, <4>1, <4>2 DEF Charged, Behind
      <4>3. CASE ~(e.attempt < Owed(k)) BY <1>2, <4>1, <4>3 DEF Counts
      <4> QED BY <4>2, <4>3
    <3>3. Owed(k)' <= Least + kills' BY <1>2, <1>3, <3>1, <3>2 DEF Counts
    <3>4. \A f \in listed' : f.key # k BY <1>2, <1>3 DEF OneEntryEach
    <3>5. Charged(k)'
      BY <1>3, <2>3, <2>4, <3>3, <3>4 DEF Charged, Recorded, Behind, Least, Limit
    <3> QED BY <1>1, <1>3, <2>3, <3>5, OneCharged
  <2> QED BY <2>5, <2>6
<1>5. CASE ~ Treatable(e)
  <2>1. disk' = disk BY <1>5 DEF SweepEntry
  <2>2. Only(k, disk, disk') BY <2>1 DEF Only
  <2>3. Charged(k)' BY <1>1, <1>2, <1>3, <2>1, OwesTheSame
  <2> QED BY <1>1, <1>3, <2>2, <2>3, OneCharged
<1> QED BY <1>4, <1>5

\* A list of leases is as far behind as the leases are.
LEMMA ListCharged ==
  ASSUME FileInv, FileInv', Policy # NoPolicy, BudgetInv, ListExpired
  PROVE  BudgetInv'
<1>1. UNCHANGED <<disk, deliveries, kills>> BY DEF ListExpired, clientVars
<1>2. listed' = {[key |-> k, attempt |-> disk.lease[k].attempt] : k \in Expired}
  BY DEF ListExpired
<1>3. \A e \in listed' : disk.lease[e.key] # NoLease /\ e.attempt = disk.lease[e.key].attempt
  BY <1>2 DEF Expired
<1>4. OneEntryEach' BY <1>2 DEF OneEntryEach
<1>5. ASSUME NEW k \in Keys PROVE Charged(k)'
  <2>1. Charged(k) /\ Owed(k)' = Owed(k) BY <1>1 DEF BudgetInv, Owed
  <2>2. \A e \in listed' : e.key = k /\ Behind(e.attempt, Owed(k)) => Owed(k) < Least + kills
    BY <1>3, <2>1 DEF Charged
  <2> QED BY <1>1, <2>1, <2>2 DEF Charged, Behind, Least, Limit
<1> QED BY <1>4, <1>5 DEF BudgetInv

\* process_delayed_messages, also when it is killed.
LEMMA PromoteCharged ==
  ASSUME FileInv, FileInv', Policy # NoPolicy, BudgetInv, NEW S \in SUBSET Due,
         disk' = Promoted(S), deliveries' = deliveries, kills' >= kills, listed' \subseteq listed
  PROVE  BudgetInv'
<1>1. OneEntryEach' BY DEF BudgetInv, OneEntryEach
<1>2. /\ disk'.envelope = disk.envelope /\ disk'.lease = disk.lease
      /\ disk'.dir = [k \in Keys |-> IF k \in S THEN "inbox" ELSE disk.dir[k]]
  BY DEF Promoted, FileInv, Good
<1>3. ASSUME NEW k \in Keys PROVE Charged(k)'
  <2>1. Counts(k) /\ Charged(k) BY CountsOK DEF BudgetInv
  <2>2. disk'.dir[k] = disk.dir[k] \/ (disk.dir[k] = "delayed" /\ disk'.dir[k] = "inbox")
    BY <1>2 DEF Due, In
  <2>3. Owed(k)' = Owed(k) BY <2>2 DEF Owed
  <2>4. Recorded(k)' BY <1>2, <2>1, <2>2 DEF Recorded, Charged
  <2> QED BY <1>2, <2>1, <2>3, <2>4, OwesAsBefore
<1> QED BY <1>1, <1>3 DEF BudgetInv

LEMMA KillCharged ==
  ASSUME FileInv, FileInv', Policy # NoPolicy, BudgetInv, Kill
  PROVE  BudgetInv'
<1>0. /\ kills' = kills + 1 /\ listed' = {} /\ deliveries' = deliveries
      /\ Good(disk) /\ now \in Nat /\ kills' >= kills
  BY DEF Kill, Down, KilledIn, FileInv, FileTypeOK
<1>1. CASE UNCHANGED disk
  <2>1. OneEntryEach' BY <1>0 DEF OneEntryEach
  <2>2. ASSUME NEW k \in Keys PROVE Charged(k)'
    BY <1>0, <1>1, CountsOK, OwesTheSame DEF BudgetInv
  <2> QED BY <2>1, <2>2 DEF BudgetInv
<1>2. ASSUME NEW c \in Consumers, NEW v \in VisTimeouts, NEW k \in First(Available(c)),
             KilledIn(LeasePath(k, c, v))
      PROVE  BudgetInv'
  <2> DEFINE path == LeasePath(k, c, v)
  <2>1. k \in Keys /\ disk.dir[k] = "inbox" BY <1>2 DEF First, Available, In
  <2>2. Len(path) = 3 BY <1>0, <2>1, LeaseOK
  <2>3. PICK i \in 1 .. 3 : disk' = path[i] BY <1>2, <2>2 DEF KilledIn
  <2>4. /\ Only(k, disk, disk') /\ disk'.dir[k] = "processing"
        /\ disk'.envelope[k].attempt >= disk.envelope[k].attempt
    BY <1>0, <2>1, <2>3, LeaseOK
  <2>5. Counts(k) /\ Charged(k) BY <2>1, CountsOK DEF BudgetInv
  <2>6. Owed(k)' <= Owed(k) BY <1>0, <2>1, <2>4, <2>5 DEF Owed, Counts
  <2>7. Recorded(k)' BY <1>0, <2>1, <2>4, <2>5 DEF Recorded, Charged, Counts
  <2>8. Charged(k)' BY <1>0, <2>1, <2>5, <2>6, <2>7, KillPays
  <2> QED BY <1>0, <2>1, <2>4, <2>8, OneCharged
<1>3. ASSUME NEW k \in Keys, NEW path, NEW dir \in Dirs, Leaves(k, path, dir), Frees(k, path),
             KilledIn(path), disk.dir[k] = "processing"
      PROVE  BudgetInv'
  <2>1. PICK i \in 1 .. Len(path) : disk' = path[i] BY <1>3 DEF KilledIn, Leaves
  <2>2. /\ Only(k, disk, disk') /\ disk'.lease[k] \in {disk.lease[k], NoLease}
        /\ disk'.envelope[k].attempt = disk.envelope[k].attempt
        /\ disk'.dir[k] \in {disk.dir[k], dir}
    BY <1>3, <2>1 DEF Leaves, Frees
  <2>3. Counts(k) /\ Charged(k) BY CountsOK DEF BudgetInv
  <2>4. Owed(k) = deliveries[k] BY <1>3, <2>3 DEF Owed, Counts
  <2>5. Owed(k)' <= Owed(k) + 1 BY <1>0, <2>3, <2>4 DEF Counts
  <2>6. Recorded(k)' BY <1>0, <1>3, <2>2, <2>3 DEF Recorded, Charged, Dirs
  <2>7. Charged(k)' BY <1>0, <2>2, <2>3, <2>5, <2>6, KillPays
  <2> QED BY <1>0, <2>2, <2>7, OneCharged
<1>4. ASSUME NEW c \in Consumers, NEW k \in Keys, MayAck(c, k), KilledIn(AckPath(k))
      PROVE  BudgetInv'
  <2>1. Leaves(k, AckPath(k), "archive") /\ Frees(k, AckPath(k))
    BY <1>0, ReleaseLeaves DEF AckPath, Dirs
  <2> QED BY <1>3, <1>4, <2>1 DEF MayAck, In, Dirs
<1>5. ASSUME NEW c \in Consumers, NEW k \in Keys, MayNack("requeue", c, k), KilledIn(RequeuePath(k))
      PROVE  BudgetInv'
  <2>1. Leaves(k, RequeuePath(k), "inbox") /\ Frees(k, RequeuePath(k))
    BY <1>0, ReleaseLeaves DEF RequeuePath, Dirs
  <2> QED BY <1>3, <1>5, <2>1 DEF MayNack, In, Dirs
<1>6. ASSUME NEW c \in Consumers, NEW k \in Keys, MayNack("reject", c, k), KilledIn(DlqPath(k))
      PROVE  BudgetInv'
  <2>1. Leaves(k, DlqPath(k), "dlq") /\ Frees(k, DlqPath(k)) BY <1>0, DlqLeaves
  <2> QED BY <1>3, <1>6, <2>1 DEF MayNack, In, Dirs
<1>7. ASSUME NEW k \in Keys, MayReprocess(k), KilledIn(ReprocessPath(k)) PROVE BudgetInv'
  <2>1. disk.dir[k] = "dlq" /\ Counts(k) /\ Charged(k)
    BY <1>7, CountsOK DEF MayReprocess, In, BudgetInv
  <2>2. Len(ReprocessPath(k)) = 2 /\ ReprocessPath(k)[1].dir = disk.dir
        /\ Only(k, disk, ReprocessPath(k)[1])
    BY <1>0, ReprocessLeaves DEF Leaves
  <2>3. disk' = ReprocessPath(k)[1] BY <1>7, <2>2 DEF KilledIn
  <2>4. disk'.dir[k] = "dlq" /\ Only(k, disk, disk') BY <2>1, <2>2, <2>3
  <2>5. Owed(k)' <= Owed(k) BY <1>0, <2>1, <2>4 DEF Owed, Counts
  <2>6. Recorded(k)' BY <2>4 DEF Recorded
  <2>7. Charged(k)' BY <1>0, <2>1, <2>5, <2>6, KillPays
  <2> QED BY <1>0, <2>4, <2>7, OneCharged
<1>8. ASSUME NEW e \in listed, Treatable(e), KilledIn(SweepPath(e)) PROVE BudgetInv'
  <2>1. /\ e.key \in Keys /\ disk.dir[e.key] = "processing" /\ Frees(e.key, SweepPath(e))
        /\ \E dir \in Dirs : Leaves(e.key, SweepPath(e), dir)
    BY <1>8, SweepLeaves DEF Dirs
  <2> QED BY <1>3, <1>8, <2>1
<1>9. ASSUME NEW S \in SUBSET Due, disk' = Promoted(S) PROVE BudgetInv'
  BY <1>0, <1>9, PromoteCharged
<1> QED BY <1>1, <1>2, <1>4, <1>5, <1>6, <1>7, <1>8, <1>9 DEF Kill

LEMMA NextCharged == FileInv /\ FileInv' /\ BudgetInv /\ [FileNext]_fileVars => BudgetInv'
<1> SUFFICES ASSUME FileInv, FileInv', Policy # NoPolicy, BudgetInv, [FileNext]_fileVars
             PROVE  BudgetInv'
  BY DEF BudgetInv
<1>1. CASE \E k \in Keys : ClientStep(k) BY <1>1, ClientCharged
<1>2. CASE ListExpired BY <1>2, ListCharged
<1>3. CASE \E e \in listed : SweepEntry(e) BY <1>3, SweepCharged
<1>4. CASE RetrySweep
  BY <1>4, PromoteCharged DEF RetrySweep, clientVars, FileInv, FileTypeOK
<1>5. CASE Kill BY <1>5, KillCharged
<1>6. CASE UNCHANGED <<disk, listed, deliveries, kills>>
  <2>1. OneEntryEach' BY <1>6 DEF BudgetInv, OneEntryEach
  <2>2. ASSUME NEW k \in Keys PROVE Charged(k)'
    BY <1>6, CountsOK, OwesTheSame DEF BudgetInv, Counts
  <2> QED BY <2>1, <2>2 DEF BudgetInv
<1> QED BY <1>1, <1>2, <1>3, <1>4, <1>5, <1>6 DEF FileNext, Tick, clientVars, fileVars

\* A message its consumer does not requeue is handed out at most retry.limit
\* times, and once more for each kill, although nack, the sweep and a crash may
\* each leave the attempt of its lease file behind that of its envelope.
THEOREM DeliveriesLimited == FileSpec => []DeliveriesBounded
<1>1. FileInit => BudgetInv
  <2> SUFFICES ASSUME FileInit, Policy # NoPolicy PROVE OneEntryEach /\ \A k \in Keys : Charged(k)
    BY DEF BudgetInv
  <2>1. OneEntryEach BY DEF FileInit, OneEntryEach
  <2>2. ASSUME NEW k \in Keys PROVE Charged(k)
    <3>1. /\ disk.dir[k] = "none" /\ deliveries[k] = 0 /\ disk.lease[k] = NoLease
          /\ listed = {} /\ kills = 0 /\ disk.envelope[k].attempt = 0
      BY DEF FileInit, NewEnvelope
    <3>2. Owed(k) = 0 BY <3>1 DEF Owed
    <3>3. Least \in Nat BY FileAssumption DEF Least, Limit, Retry
    <3> QED BY <3>1, <3>2, <3>3 DEF Charged
  <2> QED BY <2>1, <2>2
<1>2. FileInv /\ BudgetInv => DeliveriesBounded
  <2> SUFFICES ASSUME FileInv, BudgetInv, Policy # NoPolicy, NEW k \in Keys
               PROVE  deliveries[k] <= kills + Least
    BY DEF DeliveriesBounded, Least, Limit
  <2>1. Owed(k) <= Least + kills BY DEF BudgetInv, Charged
  <2>2. Owed(k) \in {deliveries[k], deliveries[k] + 1} /\ deliveries[k] \in Nat /\ kills \in Nat
    BY DEF Owed, FileInv, FileTypeOK
  <2>3. Least \in Nat BY FileAssumption DEF Least, Limit, Retry
  <2> QED BY <2>1, <2>2, <2>3
<1> QED BY <1>1, <1>2, NextCharged, FileInvariant, PTL DEF FileSpec
=============================================================================
