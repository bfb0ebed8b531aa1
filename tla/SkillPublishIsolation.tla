------------------------ MODULE SkillPublishIsolation -----------------------
(***************************************************************************)
(* With a database that refuses to update a row committed by somebody else *)
(* since the snapshot, a verdict and a publication always are about the    *)
(* bytes the version records.  The argument: a session that commits finds  *)
(* every row it writes as it had read it, so the merge of columns writes   *)
(* exactly the rows it computed; and whoever changes the bytes of a version*)
(* writes its review row too, which is the row every verdict writes.       *)
(***************************************************************************)
EXTENDS SkillPublishTypes

LEMMA KeysDiffer ==
  \A v, w \in Versions :
    /\ VersionKey(v) = VersionKey(w) => v = w
    /\ ReviewKey(v) = ReviewKey(w) => v = w
    /\ VersionKey(v) # ReviewKey(w)
    /\ VersionKey(v) # AssetKey /\ ReviewKey(v) # AssetKey
BY DEF VersionKey, ReviewKey, AssetKey

\* A merge over the row that was loaded gives the new row; a merge of a row that was
\* not changed gives the current one.
LEMMA MergeFresh ==
  /\ \A l, n \in VersionRow : MergeVersion(l, n, l) = n
  /\ \A l, c \in VersionRow : MergeVersion(l, l, c) = c
  /\ \A l, n \in ReviewRow : MergeReview(l, n, l) = n
  /\ \A l, c \in ReviewRow : MergeReview(l, l, c) = c
<1>1. \A l, n \in VersionRow : MergeVersion(l, n, l) = n
  BY DEF MergeVersion, Column, VersionRow
<1>2. \A l, c \in VersionRow : MergeVersion(l, l, c) = c
  BY DEF MergeVersion, Column, VersionRow
<1>3. \A l, n \in ReviewRow : MergeReview(l, n, l) = n
  BY DEF MergeReview, Column, ReviewRow
<1>4. \A l, c \in ReviewRow : MergeReview(l, l, c) = c
  BY DEF MergeReview, Column, ReviewRow
<1> QED
  BY <1>1, <1>2, <1>3, <1>4

\* The rows in Written, key by key.
LEMMA WrittenKeys ==
  ASSUME NEW l, NEW n, NEW touched, NEW v \in Versions
  PROVE  /\ VersionKey(v) \in Written(l, n, touched)
              <=> VersionKey(v) \in touched \/ n.version[v] # l.version[v]
         /\ ReviewKey(v) \in Written(l, n, touched)
              <=> ReviewKey(v) \in touched \/ n.review[v] # l.review[v]
BY KeysDiffer DEF Written

\* What a session relies on while it is open: its request or thread knows what it
\* checked, and every row nobody else committed meanwhile is as it read it.
Local(x) ==
  /\ x \in Users /\ req[x].step \in {"upload", "commit", "restart", "approve", "reject", "purge", "finish"}
       => sess[x].open
  /\ x \in Threads /\ task[x].pc \in {"mark", "write", "failwrite"} => sess[x].open
  /\ x \in Threads /\ task[x].pc = "write" => snap(x).version[x[2]].sha = task[x].sha
  /\ x \in Publishers /\ req[x].step = "restart" => snap(x).review[req[x].v].status = "system_failed"
  /\ x \in Moderators /\ req[x].step = "approve" =>
       snap(x).version[req[x].v].id # 0 /\ ManualStage(snap(x).version[req[x].v])

Tracks(x) ==
  sess[x].open => \A v \in Versions : InStep(x, v) /\ (ReviewEnabled => BrokenReview(snap(x), v))

Sound(v) ==
  ReviewEnabled =>
    /\ BrokenReview(Current, v)
    /\ version[v].id # 0 /\ (version[v].pr \in {"pending_moderation", "publish_success"} \/ version[v].ms = "REJECTED")
         => review[v].passed = version[v].sha

Invariant ==
  /\ TypeOK
  /\ \A x \in Sessions : Local(x) /\ Tracks(x)
  /\ \A v \in Versions : Sound(v)

\* The invariant is the conjunction of the properties the runs check.
LEMMA InvariantParts ==
  ASSUME SnapshotConflicts
  PROVE  Invariant <=> TypeOK /\ VerdictsAreIsolated /\ VerdictOnRecordedArtifact
<1> USE RequestSessions DEF Users
<1>1. (\A x \in Sessions : Local(x)) <=> InTransaction /\ CheckedBeforeWrite
  BY DEF Local, InTransaction, CheckedBeforeWrite, Sessions
<1>2. (\A x \in Sessions : Tracks(x)) /\ (\A v \in Versions : ReviewEnabled => BrokenReview(Current, v))
        <=> SnapshotsInStep /\ (ReviewEnabled => BrokenReviews)
  BY DEF Tracks, SnapshotsInStep, BrokenReviews
<1>3. (\A v \in Versions : Sound(v)) <=>
        (\A v \in Versions : ReviewEnabled => BrokenReview(Current, v)) /\ VerdictOnRecordedArtifact
  BY DEF Sound, VerdictOnRecordedArtifact, Existing
<1> QED
  BY <1>1, <1>2, <1>3 DEF Invariant, VerdictsAreIsolated

\* A session that commits under SnapshotConflicts finds the rows it writes as it had
\* loaded them, and writes what it computed.
LEMMA CommitWrites ==
  ASSUME Invariant, SnapshotConflicts, NEW s \in Sessions, sess[s].open,
         NEW l \in Database, NEW n \in Database, NEW touched \in SUBSET Keys,
         NEW W, W = Written(l, n, touched), Commit(s, l, n, touched), l.review = snap(s).review,
         NEW v \in Versions, l.version[v] \in {snap(s).version[v], version[v]}
  PROVE  /\ VersionKey(v) \in W => version'[v] = n.version[v] /\ version[v] = l.version[v]
         /\ VersionKey(v) \notin W => version'[v] = version[v] /\ n.version[v] = l.version[v]
         /\ ReviewKey(v) \notin W => review'[v] = review[v]
         /\ ReviewEnabled /\ ReviewKey(v) \in W =>
              /\ review'[v] = n.review[v] /\ review[v] = l.review[v]
              /\ version[v].sha = snap(s).version[v].sha
              /\ version[v].pr \in {snap(s).version[v].pr, "publish_failed", "publish_success"}
<1>1. W \cap sess[s].stale = {}
  BY DEF Commit, CanCommit, NoConflict
<1>2. /\ version[v] \in VersionRow /\ l.version[v] \in VersionRow /\ n.version[v] \in VersionRow
      /\ review[v] \in ReviewRow /\ l.review[v] \in ReviewRow /\ n.review[v] \in ReviewRow
  BY DEF Invariant, TypeOK, Current, Database
<1>3. /\ version'[v] = MergeVersion(l.version[v], n.version[v], version[v])
      /\ review'[v] = MergeReview(l.review[v], n.review[v], review[v])
  BY DEF Commit
<1>4. InStep(s, v)
  BY DEF Invariant, Tracks
<1>5. VersionKey(v) \in W => version'[v] = n.version[v] /\ version[v] = l.version[v]
  <2>1. VersionKey(v) \in W => version[v] = l.version[v]
    BY <1>1, <1>4 DEF InStep
  <2> QED
    BY <1>2, <1>3, <2>1, MergeFresh
<1>6. VersionKey(v) \notin W => version'[v] = version[v] /\ n.version[v] = l.version[v]
  BY <1>2, <1>3, MergeFresh, WrittenKeys
<1>7. ReviewKey(v) \notin W => review'[v] = review[v]
  BY <1>2, <1>3, MergeFresh, WrittenKeys
<1>8. ReviewEnabled /\ ReviewKey(v) \in W =>
        /\ review[v] = l.review[v]
        /\ version[v].sha = snap(s).version[v].sha
        /\ version[v].pr \in {snap(s).version[v].pr, "publish_failed", "publish_success"}
  BY <1>1, <1>4 DEF InStep
<1>9. ReviewEnabled /\ ReviewKey(v) \in W => review'[v] = n.review[v]
  BY <1>2, <1>3, <1>8, MergeFresh
<1> QED
  BY <1>5, <1>6, <1>7, <1>8, <1>9

\* Whoever leaves the review row of a version alone leaves its bytes alone, and does not
\* put it back under review.
Covered(v, W) ==
  ReviewEnabled /\ ReviewKey(v) \notin W =>
    version'[v].sha = version[v].sha /\ version'[v].pr \in {version[v].pr, "publish_failed", "publish_success"}

Others(s) ==
  \A x \in Sessions \ {s} : sess'[x].open = sess[x].open /\ sess'[x].snap = sess[x].snap

\* A commit keeps every open session in step, if it covers what it changes.
LEMMA CommitTracks ==
  ASSUME Invariant, SnapshotConflicts, NEW s \in Sessions, NEW W, CommitSession(s, W),
         \A v \in Versions :
           /\ VersionKey(v) \notin W => version'[v] = version[v]
           /\ ReviewKey(v) \notin W => review'[v] = review[v]
           /\ Covered(v, W)
  PROVE  /\ \A x \in Sessions : Tracks(x)'
         /\ Others(s)
         /\ ~sess'[s].open
<1>1. sess \in [Sessions -> Session]
  BY DEF Invariant, TypeOK
<1>2. \A x \in Sessions : sess[x] \in Session
  BY <1>1
<1>3. \A x \in Sessions : x # s =>
        /\ sess'[x].open = sess[x].open /\ sess'[x].snap = sess[x].snap
        /\ sess[x].open => sess'[x].stale = sess[x].stale \cup W
  BY <1>2 DEF CommitSession, Session
<1>4. ~sess'[s].open
  BY DEF CommitSession, Closed
<1>5. ASSUME NEW x \in Sessions, sess'[x].open, NEW v \in Versions
      PROVE  InStep(x, v)' /\ (ReviewEnabled => BrokenReview(snap(x), v)')
  <2>1. x # s /\ sess[x].open /\ sess'[x].snap = sess[x].snap /\ sess'[x].stale = sess[x].stale \cup W
    BY <1>3, <1>4, <1>5
  <2>2. InStep(x, v) /\ (ReviewEnabled => BrokenReview(snap(x), v))
    BY <2>1 DEF Invariant, Tracks
  <2>3. InStep(x, v)'
    BY <2>1, <2>2 DEF InStep, snap, Covered
  <2> QED
    BY <2>1, <2>2, <2>3 DEF BrokenReview, snap
<1> QED
  BY <1>3, <1>4, <1>5 DEF Tracks, Others

\* Every step that commits nothing.
LEMMA QuietTracks ==
  ASSUME Invariant, NEW s \in Sessions, UNCHANGED tables, OpenSession(s) \/ CloseSession(s) \/ UNCHANGED sess
  PROVE  /\ \A x \in Sessions : Tracks(x)'
         /\ \A v \in Versions : Sound(v)'
         /\ Others(s)
         /\ OpenSession(s) => sess'[s].open /\ snap(s)' = Current
         /\ UNCHANGED sess => sess'[s].open = sess[s].open /\ snap(s)' = snap(s)
<1>1. sess \in [Sessions -> Session]
  BY DEF Invariant, TypeOK
<1>2. \A v \in Versions : Sound(v)'
  BY DEF Invariant, Sound, BrokenReview, Current, tables
<1>3. Others(s) /\ \A x \in Sessions \ {s} : sess'[x] = sess[x]
  BY <1>1 DEF OpenSession, CloseSession, Others
<1>4. ASSUME NEW x \in Sessions, sess'[x].open, NEW v \in Versions
      PROVE  InStep(x, v)' /\ (ReviewEnabled => BrokenReview(snap(x), v)')
  <2>1. CASE sess'[x] = sess[x]
    <3>1. InStep(x, v) /\ (ReviewEnabled => BrokenReview(snap(x), v))
      BY <1>4, <2>1 DEF Invariant, Tracks
    <3> QED
      BY <2>1, <3>1 DEF InStep, BrokenReview, snap, tables
  <2>2. CASE x = s /\ OpenSession(s)
    <3>1. sess'[x] = [open |-> TRUE, stale |-> {}, snap |-> Current]
      BY <1>1, <2>2 DEF OpenSession
    <3>2. ReviewEnabled => BrokenReview(Current, v)
      BY DEF Invariant, Sound
    <3> QED
      BY <3>1, <3>2 DEF InStep, BrokenReview, snap, tables, Current
  <2>3. CASE x = s /\ CloseSession(s)
    BY <1>1, <1>4, <2>3 DEF CloseSession, Closed
  <2> QED
    BY <1>3, <2>1, <2>2, <2>3
<1>5. OpenSession(s) => sess'[s].open /\ snap(s)' = Current
  BY <1>1 DEF OpenSession, snap
<1>6. UNCHANGED sess => sess'[s].open = sess[s].open /\ snap(s)' = snap(s)
  BY DEF snap
<1> QED
  BY <1>2, <1>3, <1>4, <1>5, <1>6 DEF Tracks

\* A step of one session: the requests and threads of the others keep what they know.
LEMMA StepKeeps ==
  ASSUME Invariant, TypeOK', NEW s \in Sessions, Others(s), Local(s)',
         \A x \in Users \ {s} : req'[x] = req[x],
         \A x \in Threads \ {s} : task'[x] = task[x],
         \A x \in Sessions : Tracks(x)', \A v \in Versions : Sound(v)'
  PROVE  Invariant'
<1>1. ASSUME NEW x \in Sessions, x # s PROVE Local(x)'
  <2>1. sess'[x].open = sess[x].open /\ snap(x)' = snap(x)
    BY <1>1 DEF Others, snap
  <2>2. Local(x)
    BY DEF Invariant
  <2>3. /\ x \in Users => req'[x] = req[x]
        /\ x \in Threads => task'[x] = task[x]
    BY <1>1
  <2> QED
    BY <2>1, <2>2, <2>3 DEF Local, Users, ManualStage
<1> QED
  BY <1>1 DEF Invariant

-----------------------------------------------------------------------------
\* What CommitWrites says of version v.
Fresh(s, l, n, W, v) ==
  /\ VersionKey(v) \in W => version'[v] = n.version[v] /\ version[v] = l.version[v]
  /\ VersionKey(v) \notin W => version'[v] = version[v] /\ n.version[v] = l.version[v]
  /\ ReviewKey(v) \notin W => review'[v] = review[v]
  /\ ReviewEnabled /\ ReviewKey(v) \in W =>
       /\ review'[v] = n.review[v] /\ review[v] = l.review[v]
       /\ version[v].sha = snap(s).version[v].sha
       /\ version[v].pr \in {snap(s).version[v].pr, "publish_failed", "publish_success"}

\* Only session s takes a step, in its own request or thread.
Alone(s) ==
  /\ \A x \in Users \ {s} : req'[x] = req[x]
  /\ \A x \in Threads \ {s} : task'[x] = task[x]

LEMMA UntouchedKeeps ==
  ASSUME NEW v \in Versions, Sound(v), version'[v] = version[v], review'[v] = review[v], NEW W
  PROVE  Sound(v)' /\ Covered(v, W)
BY DEF Sound, Covered, BrokenReview, Current

\* A commit does what it should for version v: nothing, or something sound.
Handled(s, l, n, touched, v) ==
  \/ /\ n.version[v] = l.version[v] /\ n.review[v] = l.review[v]
     /\ VersionKey(v) \notin touched /\ ReviewKey(v) \notin touched
  \/ Fresh(s, l, n, Written(l, n, touched), v)
       => Sound(v)' /\ Covered(v, Written(l, n, touched))

LEMMA CommitKeeps ==
  ASSUME Invariant, TypeOK', SnapshotConflicts, NEW s \in Sessions, sess[s].open,
         NEW l \in Database, NEW n \in Database, NEW touched \in SUBSET Keys,
         Commit(s, l, n, touched), l.review = snap(s).review,
         \A v \in Versions : l.version[v] \in {snap(s).version[v], version[v]},
         \A v \in Versions : Handled(s, l, n, touched, v),
         Alone(s), Local(s)'
  PROVE  Invariant'
<1> DEFINE W == Written(l, n, touched)
<1>1. \A v \in Versions : Fresh(s, l, n, W, v)
  BY CommitWrites DEF Fresh
<1>2. ASSUME NEW v \in Versions PROVE Sound(v)' /\ Covered(v, W)
  <2>1. CASE n.version[v] = l.version[v] /\ n.review[v] = l.review[v]
             /\ VersionKey(v) \notin touched /\ ReviewKey(v) \notin touched
    <3>1. VersionKey(v) \notin W /\ ReviewKey(v) \notin W
      BY <2>1, WrittenKeys
    <3>2. version'[v] = version[v] /\ review'[v] = review[v]
      BY <1>1, <3>1 DEF Fresh
    <3> QED
      BY <3>2, UntouchedKeeps DEF Invariant
  <2> QED
    BY <1>1, <2>1 DEF Handled
<1>3. CommitSession(s, W)
  BY DEF Commit
<1>4. (\A x \in Sessions : Tracks(x)') /\ Others(s)
  <2>1. \A v \in Versions : /\ VersionKey(v) \notin W => version'[v] = version[v]
                            /\ ReviewKey(v) \notin W => review'[v] = review[v]
    BY <1>1 DEF Fresh
  <2> HIDE DEF W
  <2> QED
    BY <1>2, <1>3, <2>1, CommitTracks
<1> QED
  BY <1>2, <1>4, StepKeeps DEF Alone

LEMMA QuietKeeps ==
  ASSUME Invariant, TypeOK', NEW s \in Sessions, UNCHANGED tables,
         OpenSession(s) \/ CloseSession(s) \/ UNCHANGED sess, Alone(s), Local(s)'
  PROVE  Invariant'
BY QuietTracks, StepKeeps DEF Alone

\* Requests and threads are different sessions.
LEMMA Disjoint ==
  /\ Users \subseteq Sessions /\ Threads \subseteq Sessions /\ Users \cap Threads = {}
  /\ Publishers \subseteq Users /\ Moderators \subseteq Users /\ Publishers \cap Moderators = {}
BY SkillPublishAssumption DEF Users, Sessions

\* A step of one request, or of one thread.
LEMMA RequestAlone ==
  ASSUME TypeOK, NEW c \in Users, NEW r, req' = [req EXCEPT ![c] = r], UNCHANGED task
  PROVE  Alone(c) /\ req'[c] = r
BY SplitType DEF Alone, ReqType

LEMMA ThreadAlone ==
  ASSUME TypeOK, NEW t \in Threads, NEW r, task' = [task EXCEPT ![t] = r], UNCHANGED req
  PROVE  Alone(t) /\ task'[t] = r
BY SplitType DEF Alone

\* A request or thread between transactions relies on nothing.
LEMMA RestLocal ==
  /\ \A c \in Users : req[c].step \in {"idle", "changelog", "reply"} => Local(c)
  /\ \A t \in Threads : task[t].pc \in {"idle", "start", "run", "reload", "fail", "release"} => Local(t)
BY Disjoint DEF Local

\* What the services leave of the other versions.
Same(n, d, u) == n.version[u] = d.version[u] /\ n.review[u] = d.review[u]

LEMMA OtherRows ==
  ASSUME NEW d \in Database, NEW v \in Versions, NEW u \in Versions \ {v}
  PROVE  /\ \A a, n : Same(PublishRows(d, v, a, n), d, u)
         /\ Same(RestartRows(d, v), d, u)
         /\ Same(ApproveRows(d, v), d, u)
         /\ Same(RejectRows(d, v), d, u)
         /\ Same(RunningRows(d, v), d, u)
         /\ Same(FailedRows(d, v), d, u)
         /\ \A passed, sha : Same(VerdictRows(d, v, passed, sha), d, u)
<1> USE DEF Same, Database
<1>1. \A a, n : Same(PublishRows(d, v, a, n), d, u)
  BY DEF PublishRows
<1>2. Same(RestartRows(d, v), d, u) /\ Same(ApproveRows(d, v), d, u) /\ Same(RejectRows(d, v), d, u)
  BY DEF RestartRows, ApproveRows, RejectRows
<1>3. Same(RunningRows(d, v), d, u) /\ Same(FailedRows(d, v), d, u)
  BY DEF RunningRows, FailedRows
<1>4. \A passed, sha : Same(VerdictRows(d, v, passed, sha), d, u)
  BY DEF VerdictRows
<1> QED
  BY <1>1, <1>2, <1>3, <1>4

-----------------------------------------------------------------------------
\* The commits, one by one.
LEMMA PublishKeeps ==
  ASSUME Invariant, TypeOK', SnapshotConflicts, NEW c \in Publishers, PublishCommit(c)
  PROVE  Invariant'
<1> USE Disjoint
<1>1. TypeOK /\ c \in Users /\ c \in Sessions /\ snap(c) \in Database
  BY SessionTypes DEF Invariant
<1>2. req[c].v \in Versions /\ req[c].art \in Artifacts \cup {None} /\ clock' \in Nat
  BY <1>1, SplitType DEF PublishCommit, ReqType, Request
<1>3. PICK v \in Versions, a \in Artifacts \cup {None}, k \in Nat, d \in Database, n \in Database :
        /\ v = req[c].v /\ d = snap(c) /\ n = PublishRows(d, v, a, k)
        /\ Commit(c, d, n, PublishWrites(v))
  BY <1>1, <1>2, PublishRowsType DEF PublishCommit
<1>4. n \in Database /\ PublishWrites(v) \in SUBSET Keys
  BY <1>3, PublishRowsType, TouchedTypes
<1>5. sess[c].open
  BY <1>1 DEF Invariant, Local, PublishCommit
<1>6. ASSUME Fresh(c, d, n, Written(d, n, PublishWrites(v)), v)
      PROVE  Sound(v)' /\ Covered(v, Written(d, n, PublishWrites(v)))
  <2> DEFINE W == Written(d, n, PublishWrites(v))
  <2>1. VersionKey(v) \in W /\ (ReviewEnabled => ReviewKey(v) \in W)
    BY WrittenKeys DEF PublishWrites
  <2>2. version'[v].pr = InitialResult /\ version'[v].ms = "PENDING"
    <3>1. n.version[v] = PublishedRow(d.version[v], a, k)
      BY <1>3 DEF PublishRows, Database
    <3> QED
      BY <1>6, <2>1, <3>1 DEF Fresh, PublishedRow
  <2>3. ReviewEnabled => review'[v].status = "queued"
    <3>1. ReviewEnabled => n.review[v] = Queued
      BY <1>3 DEF PublishRows, Database
    <3> QED
      BY <1>6, <2>1, <3>1 DEF Fresh, Queued
  <2> QED
    BY <2>1, <2>2, <2>3 DEF Sound, Covered, BrokenReview, Current, InitialResult
<1>7. \A u \in Versions : Handled(c, d, n, PublishWrites(v), u)
  BY <1>3, <1>6, OtherRows, KeysDiffer DEF Same, PublishWrites, Handled
<1>8. Alone(c) /\ req'[c].step = "changelog"
  BY <1>1, SplitType DEF PublishCommit, Alone, ReqType, Request
<1>9. Local(c)'
  BY <1>1, <1>8 DEF Local
<1> QED
  BY <1>1, <1>3, <1>4, <1>5, <1>7, <1>8, <1>9, CommitKeeps

LEMMA RestartKeeps ==
  ASSUME Invariant, TypeOK', SnapshotConflicts, NEW c \in Publishers, RestartCommit(c)
  PROVE  Invariant'
<1> USE Disjoint
<1>1. TypeOK /\ c \in Users /\ c \in Sessions /\ snap(c) \in Database
  BY SessionTypes DEF Invariant
<1>2. req[c].v \in Versions
  BY <1>1, SplitType DEF RestartCommit, ReqType
<1>3. PICK v \in Versions, d \in Database, n \in Database :
        /\ v = req[c].v /\ d = snap(c) /\ n = RestartRows(d, v)
        /\ Commit(c, d, n, {ReviewKey(v)})
  BY <1>1, <1>2, RestartRowsType DEF RestartCommit
<1>4. n \in Database /\ {ReviewKey(v)} \in SUBSET Keys
  BY <1>3, RestartRowsType, TouchedTypes
<1>5. sess[c].open /\ d.review[v].status = "system_failed"
  BY <1>1, <1>3 DEF Invariant, Local, RestartCommit
<1>6. ASSUME Fresh(c, d, n, Written(d, n, {ReviewKey(v)}), v)
      PROVE  Sound(v)' /\ Covered(v, Written(d, n, {ReviewKey(v)}))
  <2> DEFINE W == Written(d, n, {ReviewKey(v)})
  <2>1. ReviewKey(v) \in W
    BY WrittenKeys
  <2>2. ReviewEnabled => d.version[v].pr \in {"publish_failed", "publish_success"}
    BY <1>1, <1>3, <1>5 DEF Invariant, Tracks, BrokenReview
  <2>3. n.version[v].pr = "reviewing" /\ n.version[v].ms = "PENDING"
    BY <1>3 DEF RestartRows, Database, VersionRow
  <2>4. ReviewEnabled => VersionKey(v) \in W
    BY <2>2, <2>3, WrittenKeys
  <2>5. ReviewEnabled => version'[v].pr = "reviewing" /\ version'[v].ms = "PENDING"
    BY <1>6, <2>3, <2>4 DEF Fresh
  <2>6. ReviewEnabled => review'[v].status = "queued"
    <3>1. n.review[v] = Queued
      BY <1>3 DEF RestartRows, Database
    <3> QED
      BY <1>6, <2>1, <3>1 DEF Fresh, Queued
  <2> QED
    BY <2>1, <2>5, <2>6 DEF Sound, Covered, BrokenReview, Current
<1>7. \A u \in Versions : Handled(c, d, n, {ReviewKey(v)}, u)
  BY <1>3, <1>6, OtherRows, KeysDiffer DEF Same, Handled
<1>8. Alone(c) /\ req'[c].step = "reply"
  BY <1>1, SplitType DEF RestartCommit, Alone, ReqType, Request
<1>9. Local(c)'
  BY <1>1, <1>8 DEF Local
<1> QED
  BY <1>1, <1>3, <1>4, <1>5, <1>7, <1>8, <1>9, CommitKeeps

LEMMA ApproveKeeps ==
  ASSUME Invariant, TypeOK', SnapshotConflicts, NEW c \in Moderators, ApproveCommit(c)
  PROVE  Invariant'
<1> USE Disjoint
<1>1. TypeOK /\ c \in Users /\ c \in Sessions /\ snap(c) \in Database
  BY DEF Invariant, TypeOK, Session, snap
<1>2. req[c].v \in Versions
  BY <1>1, SplitType DEF ApproveCommit, ReqType
<1>3. PICK v \in Versions, d \in Database, n \in Database :
        /\ v = req[c].v /\ d = LockedView(c, v) /\ n = ApproveRows(d, v)
        /\ Commit(c, d, n, {AssetKey, VersionKey(v)})
        /\ SameCandidate(version[v], snap(c).version[v])
  BY <1>1, <1>2, SessionTypes, ApproveRowsType, SplitType DEF ApproveCommit
<1>4. n \in Database /\ {AssetKey, VersionKey(v)} \in SUBSET Keys
  BY <1>1, <1>3, ApproveRowsType, TouchedTypes, SplitType
<1>5. sess[c].open /\ snap(c).version[v].id # 0 /\ ManualStage(snap(c).version[v])
  BY <1>1, <1>3 DEF Invariant, Local, ApproveCommit
<1>6. ASSUME Fresh(c, d, n, Written(d, n, {AssetKey, VersionKey(v)}), v)
      PROVE  Sound(v)' /\ Covered(v, Written(d, n, {AssetKey, VersionKey(v)}))
  <2> DEFINE W == Written(d, n, {AssetKey, VersionKey(v)})
  <2>1. n.version[v] = [d.version[v] EXCEPT !.ms = "APPROVED", !.pr = "publish_success"] /\ n.review[v] = d.review[v]
    BY <1>3 DEF ApproveRows, Database
  <2>2. VersionKey(v) \in W /\ ReviewKey(v) \notin W
    BY <2>1, WrittenKeys, KeysDiffer
  <2>3. version'[v] = [version[v] EXCEPT !.ms = "APPROVED", !.pr = "publish_success"] /\ review'[v] = review[v]
    BY <1>6, <2>1, <2>2 DEF Fresh
  <2>4. version[v].id # 0 /\ (version[v].pr = "pending_moderation" \/ version[v].ms = "REJECTED")
    BY <1>3, <1>5 DEF SameCandidate, ManualStage
  <2>5. version[v] \in VersionRow
    BY <1>1 DEF TypeOK, Current, Database
  <2>6. Sound(v)
    BY DEF Invariant
  <2> QED
    BY <2>3, <2>4, <2>5, <2>6 DEF Sound, Covered, BrokenReview, Current, VersionRow
<1>7. \A u \in Versions : Handled(c, d, n, {AssetKey, VersionKey(v)}, u)
  BY <1>3, <1>6, OtherRows, KeysDiffer DEF Same, Handled
<1>8. Alone(c) /\ req'[c].step = "idle"
  BY <1>1, SplitType DEF ApproveCommit, End, Idle, Alone, ReqType, Request
<1>9. Local(c)'
  BY <1>1, <1>8 DEF Local
<1>10. d.review = snap(c).review /\ \A u \in Versions : d.version[u] \in {snap(c).version[u], version[u]}
  BY <1>1, <1>3 DEF LockedView, Database
<1> QED
  BY <1>1, <1>3, <1>4, <1>5, <1>7, <1>8, <1>9, <1>10, CommitKeeps

LEMMA RejectKeeps ==
  ASSUME Invariant, TypeOK', SnapshotConflicts, NEW c \in Moderators, RejectCommit(c)
  PROVE  Invariant'
<1> USE Disjoint
<1>1. TypeOK /\ c \in Users /\ c \in Sessions /\ snap(c) \in Database
  BY DEF Invariant, TypeOK, Session, snap
<1>2. req[c].v \in Versions
  BY <1>1, SplitType DEF RejectCommit, ReqType
<1>3. PICK v \in Versions, d \in Database, n \in Database :
        /\ v = req[c].v /\ d = LockedView(c, v) /\ n = RejectRows(d, v)
        /\ Commit(c, d, n, {VersionKey(v)})
        /\ Rejectable(version[v])
  BY <1>1, <1>2, SessionTypes, RejectRowsType DEF RejectCommit
<1>4. n \in Database /\ {VersionKey(v)} \in SUBSET Keys
  BY <1>1, <1>3, RejectRowsType, TouchedTypes
<1>5. sess[c].open
  BY <1>1, <1>3 DEF Invariant, Local, RejectCommit
<1>6. ASSUME Fresh(c, d, n, Written(d, n, {VersionKey(v)}), v)
      PROVE  Sound(v)' /\ Covered(v, Written(d, n, {VersionKey(v)}))
  <2> DEFINE W == Written(d, n, {VersionKey(v)})
  <2>1. n.version[v] = [d.version[v] EXCEPT !.ms = "REJECTED", !.pr = "publish_failed"] /\ n.review[v] = d.review[v]
    BY <1>3 DEF RejectRows, Database
  <2>2. VersionKey(v) \in W /\ ReviewKey(v) \notin W
    BY <2>1, WrittenKeys, KeysDiffer
  <2>3. version'[v] = [version[v] EXCEPT !.ms = "REJECTED", !.pr = "publish_failed"] /\ review'[v] = review[v]
    BY <1>6, <2>1, <2>2 DEF Fresh
  <2>4. version[v].id # 0 /\ version[v].pr = "pending_moderation"
    BY <1>3 DEF Rejectable, ManualStage
  <2>5. version[v] \in VersionRow
    BY <1>1 DEF TypeOK, Current, Database
  <2>6. Sound(v)
    BY DEF Invariant
  <2> QED
    BY <2>3, <2>4, <2>5, <2>6 DEF Sound, Covered, BrokenReview, Current, VersionRow
<1>7. \A u \in Versions : Handled(c, d, n, {VersionKey(v)}, u)
  BY <1>3, <1>6, OtherRows, KeysDiffer DEF Same, Handled
<1>8. Alone(c) /\ req'[c].step = "idle"
  BY <1>1, SplitType DEF RejectCommit, End, Idle, Alone, ReqType, Request
<1>9. Local(c)'
  BY <1>1, <1>8 DEF Local
<1>10. d.review = snap(c).review /\ \A u \in Versions : d.version[u] \in {snap(c).version[u], version[u]}
  BY <1>1, <1>3 DEF LockedView, Database
<1> QED
  BY <1>1, <1>3, <1>4, <1>5, <1>7, <1>8, <1>9, <1>10, CommitKeeps

LEMMA DeleteKeeps ==
  ASSUME Invariant, TypeOK', SnapshotConflicts, NEW c \in Publishers, DeleteFinish(c)
  PROVE  Invariant'
<1> USE Disjoint
<1>1. TypeOK /\ c \in Users /\ c \in Sessions /\ snap(c) \in Database
  BY DEF Invariant, TypeOK, Session, snap
<1>2. req[c].doomed \in SUBSET Versions
  BY <1>1, SplitType DEF ReqType, Request
<1>3. PICK D \in SUBSET Versions, d \in Database, n \in Database :
        /\ D = req[c].doomed /\ d = snap(c) /\ n = DeleteRows(d, D)
        /\ Commit(c, d, n, RowsOf(D))
  BY <1>1, <1>2, DeleteRowsType DEF DeleteFinish
<1>4. n \in Database /\ RowsOf(D) \in SUBSET Keys
  BY <1>3, DeleteRowsType, TouchedTypes
<1>5. sess[c].open
  BY <1>1 DEF Invariant, Local, DeleteFinish
<1>6. ASSUME NEW v \in D, Fresh(c, d, n, Written(d, n, RowsOf(D)), v)
      PROVE  Sound(v)' /\ Covered(v, Written(d, n, RowsOf(D)))
  <2> DEFINE W == Written(d, n, RowsOf(D))
  <2>1. n.version[v] = NoVersion /\ n.review[v] = NoReview
    BY <1>3, <1>6 DEF DeleteRows
  <2>2. VersionKey(v) \in W /\ ReviewKey(v) \in W
    <3>1. VersionKey(v) \in RowsOf(D) /\ ReviewKey(v) \in RowsOf(D)
      BY DEF RowsOf
    <3> QED
      BY <3>1, WrittenKeys
  <2>3. version'[v].id = 0 /\ (ReviewEnabled => review'[v].status = "absent")
    BY <1>6, <2>1, <2>2 DEF Fresh, NoVersion, NoReview
  <2> QED
    BY <2>2, <2>3 DEF Sound, Covered, BrokenReview, Current
<1>7. \A u \in Versions : Handled(c, d, n, RowsOf(D), u)
  <2>1. ASSUME NEW u \in Versions \ D PROVE Handled(c, d, n, RowsOf(D), u)
    <3>1. n.version[u] = d.version[u] /\ n.review[u] = d.review[u]
      BY <1>3 DEF DeleteRows
    <3>2. VersionKey(u) \notin RowsOf(D) /\ ReviewKey(u) \notin RowsOf(D)
      BY <1>3, KeysDiffer DEF RowsOf
    <3> QED
      BY <3>1, <3>2 DEF Handled
  <2> QED
    BY <1>6, <2>1 DEF Handled
<1>8. Alone(c) /\ req'[c].step = "idle"
  BY <1>1, SplitType DEF DeleteFinish, End, Idle, Alone, ReqType, Request
<1>9. Local(c)'
  BY <1>1, <1>8 DEF Local
<1> QED
  BY <1>1, <1>3, <1>4, <1>5, <1>7, <1>8, <1>9, CommitKeeps

LEMMA RunningKeeps ==
  ASSUME Invariant, TypeOK', SnapshotConflicts, NEW t \in Threads, task[t].pc = "mark",
         Commit(t, snap(t), RunningRows(snap(t), t[2]), {ReviewKey(t[2])}),
         task' = [task EXCEPT ![t].pc = "run"], UNCHANGED req
  PROVE  Invariant'
<1> USE Disjoint
<1>1. TypeOK /\ t \in Sessions /\ snap(t) \in Database /\ t[2] \in Versions
  BY DEF Invariant, TypeOK, Session, snap, Threads
<1>2. PICK v \in Versions, d \in Database, n \in Database :
        v = t[2] /\ d = snap(t) /\ n = RunningRows(d, v) /\ Commit(t, d, n, {ReviewKey(v)})
  BY <1>1, RunningRowsType
<1>3. n \in Database /\ {ReviewKey(v)} \in SUBSET Keys
  BY <1>2, RunningRowsType, TouchedTypes
<1>4. sess[t].open
  BY <1>1 DEF Invariant, Local
<1>5. ASSUME Fresh(t, d, n, Written(d, n, {ReviewKey(v)}), v)
      PROVE  Sound(v)' /\ Covered(v, Written(d, n, {ReviewKey(v)}))
  <2> DEFINE W == Written(d, n, {ReviewKey(v)})
  <2>1. n.version[v] = d.version[v] /\ n.review[v] = [d.review[v] EXCEPT !.status = "running"]
    BY <1>2 DEF RunningRows, Database
  <2>2. ReviewKey(v) \in W /\ VersionKey(v) \notin W
    BY <2>1, WrittenKeys, KeysDiffer
  <2>3. version'[v] = version[v] /\ (ReviewEnabled => review'[v] = [review[v] EXCEPT !.status = "running"])
    BY <1>5, <2>1, <2>2 DEF Fresh
  <2>4. review[v] \in ReviewRow /\ Sound(v)
    BY <1>1 DEF Invariant, TypeOK, Current, Database
  <2> QED
    BY <2>2, <2>3, <2>4 DEF Sound, Covered, BrokenReview, Current, ReviewRow
<1>6. \A u \in Versions : Handled(t, d, n, {ReviewKey(v)}, u)
  BY <1>2, <1>5, OtherRows, KeysDiffer DEF Same, Handled
<1>7. Alone(t) /\ task'[t].pc = "run"
  BY <1>1, SplitType DEF Alone, Task
<1>8. Local(t)'
  BY <1>1, <1>7 DEF Local
<1> QED
  BY <1>1, <1>2, <1>3, <1>4, <1>6, <1>7, <1>8, CommitKeeps

LEMMA VerdictKeeps ==
  ASSUME Invariant, TypeOK', SnapshotConflicts, NEW t \in Threads, WriteVerdict(t)
  PROVE  Invariant'
<1> USE Disjoint
<1>1. TypeOK /\ t \in Sessions /\ snap(t) \in Database /\ t[2] \in Versions /\ task[t].sha \in Artifacts \cup {None}
  BY DEF Invariant, TypeOK, Session, snap, Threads, Task
<1>2. PICK v \in Versions, d \in Database, passed \in BOOLEAN, a \in Artifacts \cup {None}, n \in Database :
        /\ v = t[2] /\ d = snap(t) /\ a = task[t].sha
        /\ n = VerdictRows(d, v, passed, a) /\ Commit(t, d, n, {ReviewKey(v)})
  <2>1. Verdict(t) = VerdictRows(snap(t), t[2], task[t].got \in Compliant, task[t].sha)
    BY DEF Verdict
  <2>2. (task[t].got \in Compliant) \in BOOLEAN
    OBVIOUS
  <2> QED
    BY <1>1, <2>1, <2>2, VerdictRowsType DEF WriteVerdict
<1>3. n \in Database /\ {ReviewKey(v)} \in SUBSET Keys
  BY <1>2, VerdictRowsType, TouchedTypes
<1>4. sess[t].open /\ d.version[v].sha = a
  BY <1>1, <1>2 DEF Invariant, Local, WriteVerdict
<1>5. ASSUME Fresh(t, d, n, Written(d, n, {ReviewKey(v)}), v)
      PROVE  Sound(v)' /\ Covered(v, Written(d, n, {ReviewKey(v)}))
  <2> DEFINE W == Written(d, n, {ReviewKey(v)})
  <2>1. /\ n.version[v] = [d.version[v] EXCEPT !.pr = IF passed THEN "pending_moderation" ELSE "publish_failed"]
        /\ n.review[v] = IF passed THEN [status |-> "passed", passed |-> a]
                         ELSE [d.review[v] EXCEPT !.status = "failed"]
    BY <1>2 DEF VerdictRows, Database
  <2>2. ReviewKey(v) \in W
    BY WrittenKeys
  <2>3. /\ version[v] \in VersionRow /\ d.version[v] \in VersionRow
        /\ review[v] \in ReviewRow /\ Sound(v)
    BY <1>1 DEF Invariant, TypeOK, Current, Database
  <2>4. ReviewEnabled => version[v].sha = a
    BY <1>2, <1>4, <1>5, <2>2 DEF Fresh
  <2>5. CASE VersionKey(v) \in W
    <3>1. version'[v] = [version[v] EXCEPT !.pr = IF passed THEN "pending_moderation" ELSE "publish_failed"]
      BY <1>5, <2>1, <2>5 DEF Fresh
    <3>2. ReviewEnabled => review'[v] = IF passed THEN [status |-> "passed", passed |-> a]
                                        ELSE [review[v] EXCEPT !.status = "failed"]
      BY <1>5, <2>1, <2>2 DEF Fresh
    <3> QED
      BY <2>2, <2>3, <2>4, <3>1, <3>2 DEF Sound, Covered, BrokenReview, Current, VersionRow, ReviewRow
  <2>6. CASE VersionKey(v) \notin W
    <3>1. version'[v] = version[v]
      BY <1>5, <2>6 DEF Fresh
    <3>2. ReviewEnabled => review'[v] = IF passed THEN [status |-> "passed", passed |-> a]
                                        ELSE [review[v] EXCEPT !.status = "failed"]
      BY <1>5, <2>1, <2>2 DEF Fresh
    <3> QED
      BY <2>2, <2>3, <2>4, <3>1, <3>2 DEF Sound, Covered, BrokenReview, Current, VersionRow, ReviewRow
  <2> QED
    BY <2>5, <2>6
<1>6. \A u \in Versions : Handled(t, d, n, {ReviewKey(v)}, u)
  BY <1>2, <1>5, OtherRows, KeysDiffer DEF Same, Handled
<1>7. Alone(t) /\ task'[t].pc = "release"
  BY <1>1, SplitType DEF WriteVerdict, Alone, Task
<1>8. Local(t)'
  BY <1>1, <1>7 DEF Local
<1> QED
  BY <1>1, <1>2, <1>3, <1>4, <1>6, <1>7, <1>8, CommitKeeps

LEMMA FailedKeeps ==
  ASSUME Invariant, TypeOK', SnapshotConflicts, NEW t \in Threads, task[t].pc = "failwrite",
         Commit(t, snap(t), FailedRows(snap(t), t[2]), FailedWrites(t)),
         task' = [task EXCEPT ![t].pc = "release"], UNCHANGED req
  PROVE  Invariant'
<1> USE Disjoint
<1>1. TypeOK /\ t \in Sessions /\ snap(t) \in Database /\ t[2] \in Versions
  BY DEF Invariant, TypeOK, Session, snap, Threads
<1>2. PICK v \in Versions, d \in Database, n \in Database, T \in SUBSET Keys :
        /\ v = t[2] /\ d = snap(t) /\ n = FailedRows(d, v) /\ Commit(t, d, n, T)
        /\ T = IF d.version[v].id # 0 THEN {ReviewKey(v)} ELSE {}
  BY <1>1, FailedRowsType, TouchedTypes DEF FailedWrites
<1>3. n \in Database /\ T \in SUBSET Keys
  BY <1>2, FailedRowsType, TouchedTypes
<1>4. sess[t].open
  BY <1>1 DEF Invariant, Local
<1>5. ASSUME d.version[v].id # 0, Fresh(t, d, n, Written(d, n, T), v)
      PROVE  Sound(v)' /\ Covered(v, Written(d, n, T))
  <2> DEFINE W == Written(d, n, T)
  <2>1. /\ n.version[v] = [d.version[v] EXCEPT !.pr = "publish_failed"]
        /\ n.review[v] = [d.review[v] EXCEPT !.status = "system_failed"]
    BY <1>2, <1>5 DEF FailedRows, Database
  <2>2. ReviewKey(v) \in W
    BY <1>2, <1>5, WrittenKeys
  <2>3. version[v] \in VersionRow /\ d.version[v] \in VersionRow /\ review[v] \in ReviewRow /\ Sound(v)
    BY <1>1 DEF Invariant, TypeOK, Current, Database
  <2>4. ReviewEnabled => review'[v] = [review[v] EXCEPT !.status = "system_failed"]
    BY <1>5, <2>1, <2>2 DEF Fresh
  <2>5. CASE VersionKey(v) \in W
    <3>1. version'[v] = [version[v] EXCEPT !.pr = "publish_failed"]
      BY <1>5, <2>1, <2>5 DEF Fresh
    <3> QED
      BY <2>2, <2>3, <2>4, <3>1 DEF Sound, Covered, BrokenReview, Current, VersionRow, ReviewRow
  <2>6. CASE VersionKey(v) \notin W
    <3>1. version'[v] = version[v] /\ d.version[v].pr = "publish_failed"
      BY <1>5, <2>1, <2>3, <2>6 DEF Fresh, VersionRow
    <3>2. ReviewEnabled => version[v].pr \in {"publish_failed", "publish_success"}
      BY <1>2, <1>5, <2>2, <3>1 DEF Fresh
    <3> QED
      BY <2>2, <2>3, <2>4, <3>1, <3>2 DEF Sound, Covered, BrokenReview, Current, VersionRow, ReviewRow
  <2> QED
    BY <2>5, <2>6
<1>6. \A u \in Versions : Handled(t, d, n, T, u)
  <2>1. d.version[v].id = 0 => T = {} /\ n.version = d.version /\ n.review = d.review
    BY <1>2 DEF FailedRows
  <2>2. d.version[v].id # 0 => T = {ReviewKey(v)}
    BY <1>2
  <2>3. \A u \in Versions \ {v} : n.version[u] = d.version[u] /\ n.review[u] = d.review[u]
    BY <1>2, OtherRows DEF Same
  <2> QED
    BY <1>5, <2>1, <2>2, <2>3, KeysDiffer DEF Handled
<1>7. Alone(t) /\ task'[t].pc = "release"
  BY <1>1, SplitType DEF Alone, Task
<1>8. Local(t)'
  BY <1>1, <1>7 DEF Local
<1> QED
  BY <1>1, <1>2, <1>3, <1>4, <1>6, <1>7, <1>8, CommitKeeps

-----------------------------------------------------------------------------
\* The steps that commit nothing, by who takes them.
LEMMA ArriveKeeps ==
  ASSUME Invariant, TypeOK', Arrive
  PROVE  Invariant'
<1> USE Disjoint
<1>1. TypeOK /\ Users \subseteq Sessions
  BY DEF Invariant
<1>2. ASSUME NEW c \in Publishers, NEW v \in Versions, PublishAgain(c, v)
      PROVE  Invariant'
  <2>1. Alone(c) /\ UNCHANGED tables /\ (OpenSession(c) \/ UNCHANGED sess)
    BY <1>1, <1>2, SplitType DEF PublishAgain, Alone, ReqType
  <2>2. CASE ReviewEnabled /\ review[v].status = "system_failed"
    <3>1. OpenSession(c) /\ req'[c].step = "restart" /\ req'[c].v = v
      <4>1. OpenSession(c) /\ req' = [req EXCEPT ![c] = [Idle EXCEPT !.step = "restart", !.v = v]]
        BY <1>2, <2>2 DEF PublishAgain
      <4>2. req \in [Users -> Request]
        BY <1>1, SplitType DEF ReqType
      <4> QED
        BY <1>1, <4>1, <4>2 DEF Idle
    <3>2. sess'[c].open /\ snap(c)' = Current
      BY <1>1, <2>1, <3>1, QuietTracks
    <3>3. Local(c)'
      BY <1>1, <2>2, <3>1, <3>2 DEF Local, Current
    <3> QED
      BY <1>1, <2>1, <3>3, QuietKeeps
  <2>3. CASE ~(ReviewEnabled /\ review[v].status = "system_failed")
    <3>1. req'[c].step = "reply"
      <4>1. req' = [req EXCEPT ![c] = [Idle EXCEPT !.step = "reply", !.v = v, !.reply = version[v].pr]]
        BY <1>2, <2>3 DEF PublishAgain
      <4>2. req \in [Users -> Request]
        BY <1>1, SplitType DEF ReqType
      <4> QED
        BY <1>1, <4>1, <4>2 DEF Idle
    <3>2. Local(c)'
      BY <1>1, <3>1 DEF Local
    <3> QED
      BY <1>1, <2>1, <3>2, QuietKeeps
  <2> QED
    BY <2>2, <2>3
<1>3. ASSUME NEW c \in Publishers, NEW v \in Versions, NEW a \in Artifacts, PublishBegin(c, v, a)
      PROVE  Invariant'
  <2>1. Alone(c) /\ UNCHANGED tables /\ OpenSession(c) /\ req'[c].step = "upload"
    BY <1>1, <1>3, SplitType DEF PublishBegin, Alone, ReqType, Idle
  <2>2. sess'[c].open
    BY <1>1, <2>1, QuietTracks
  <2>3. Local(c)'
    BY <1>1, <2>1, <2>2 DEF Local
  <2> QED
    BY <1>1, <2>1, <2>3, QuietKeeps
<1>4. ASSUME NEW c \in Moderators, NEW v \in Versions, ApproveBegin(c, v)
      PROVE  Invariant'
  <2>1. Alone(c) /\ UNCHANGED tables /\ OpenSession(c) /\ req'[c].step = "approve" /\ req'[c].v = v
    BY <1>1, <1>4, SplitType DEF ApproveBegin, Alone, ReqType, Idle
  <2>2. sess'[c].open /\ snap(c)' = Current
    BY <1>1, <2>1, QuietTracks
  <2>3. version[v].id # 0 /\ ManualStage(version[v])
    BY <1>4 DEF ApproveBegin
  <2>4. Local(c)'
    BY <1>1, <2>1, <2>2, <2>3 DEF Local, Current, ManualStage
  <2> QED
    BY <1>1, <2>1, <2>4, QuietKeeps
<1>5. ASSUME NEW c \in Moderators, NEW v \in Versions, RejectBegin(c, v)
      PROVE  Invariant'
  <2>1. Alone(c) /\ UNCHANGED tables /\ OpenSession(c) /\ req'[c].step = "reject"
    BY <1>1, <1>5, SplitType DEF RejectBegin, Alone, ReqType, Idle
  <2>2. sess'[c].open
    BY <1>1, <2>1, QuietTracks
  <2>3. Local(c)'
    BY <1>1, <2>1, <2>2 DEF Local
  <2> QED
    BY <1>1, <2>1, <2>3, QuietKeeps
<1>6. ASSUME NEW c \in Publishers, NEW D \in SUBSET Versions, DeleteBegin(c, D)
      PROVE  Invariant'
  <2>1. Alone(c) /\ UNCHANGED tables /\ OpenSession(c) /\ req'[c].step = "purge"
    BY <1>1, <1>6, SplitType DEF DeleteBegin, Alone, ReqType, Idle
  <2>2. sess'[c].open
    BY <1>1, <2>1, QuietTracks
  <2>3. Local(c)'
    BY <1>1, <2>1, <2>2 DEF Local
  <2> QED
    BY <1>1, <2>1, <2>3, QuietKeeps
<1> QED
  BY <1>2, <1>3, <1>4, <1>5, <1>6 DEF Arrive

LEMMA ServeKeeps ==
  ASSUME Invariant, TypeOK', SnapshotConflicts, NEW c \in Publishers, Serve(c)
  PROVE  Invariant'
<1> USE Disjoint
<1>1. TypeOK /\ c \in Users /\ c \in Sessions /\ req \in [Users -> Request]
  BY SplitType DEF Invariant, ReqType
<1>2. CASE PublishUpload(c) \/ DeletePurge(c)
  <2>1. /\ Alone(c) /\ UNCHANGED tables /\ UNCHANGED sess
        /\ req[c].step \in {"upload", "purge"} /\ req'[c].step \in {"commit", "finish"}
    BY <1>1, <1>2 DEF PublishUpload, DeletePurge, Alone, Request
  <2>2. sess'[c].open
    BY <1>1, <2>1 DEF Invariant, Local
  <2>3. Local(c)'
    BY <1>1, <2>1, <2>2 DEF Local
  <2> QED
    BY <1>1, <2>1, <2>3, QuietKeeps
<1>3. CASE PublishUploadFails(c) \/ PublishRefused(c) \/ ChangelogFails(c) \/ Respond(c) \/ DeletePurgeFails(c)
  <2>1. End(c) /\ UNCHANGED tables /\ UNCHANGED task /\ (CloseSession(c) \/ UNCHANGED sess)
    BY <1>3 DEF PublishUploadFails, PublishRefused, ChangelogFails, Respond, DeletePurgeFails
  <2>2. Alone(c) /\ req'[c].step = "idle"
    BY <1>1, <2>1 DEF End, Idle, Alone
  <2>3. Local(c)'
    BY <1>1, <2>2 DEF Local
  <2> QED
    BY <1>1, <2>1, <2>2, <2>3, QuietKeeps
<1> QED
  BY <1>2, <1>3, PublishKeeps, RestartKeeps, DeleteKeeps DEF Serve

LEMMA ModerateKeeps ==
  ASSUME Invariant, TypeOK', SnapshotConflicts, NEW c \in Moderators, Moderate(c)
  PROVE  Invariant'
<1> USE Disjoint
<1>1. TypeOK /\ c \in Users /\ c \in Sessions /\ req \in [Users -> Request]
  BY SplitType DEF Invariant, ReqType
<1>2. CASE ApproveRefused(c) \/ RejectRefused(c)
  <2>1. End(c) /\ UNCHANGED tables /\ UNCHANGED task /\ CloseSession(c)
    BY <1>2 DEF ApproveRefused, RejectRefused
  <2>2. Alone(c) /\ req'[c].step = "idle"
    BY <1>1, <2>1 DEF End, Idle, Alone
  <2>3. Local(c)'
    BY <1>1, <2>2 DEF Local
  <2> QED
    BY <1>1, <2>1, <2>2, <2>3, QuietKeeps
<1> QED
  BY <1>2, ApproveKeeps, RejectKeeps DEF Moderate

LEMMA ReviewKeeps ==
  ASSUME Invariant, TypeOK', SnapshotConflicts, NEW t \in Threads, Review(t)
  PROVE  Invariant'
<1> USE Disjoint
<1>1. TypeOK /\ t \in Sessions /\ task \in [Threads -> Task]
  BY SplitType DEF Invariant
\* Between transactions, before and after.
<1>2. ASSUME UNCHANGED req, UNCHANGED tables, CloseSession(t) \/ UNCHANGED sess, Alone(t),
             task'[t].pc \in {"idle", "start", "run", "reload", "fail", "release"}
      PROVE  Invariant'
  <2>1. Local(t)'
    BY <1>1, <1>2 DEF Local
  <2> QED
    BY <1>1, <1>2, <2>1, QuietKeeps
<1>3. CASE ClaimReview(t) \/ RunReview(t) \/ RunReviewFails(t) \/ ReleaseReview(t)
  <2>1. Alone(t) /\ task'[t].pc \in {"idle", "start", "reload", "fail", "release"}
    BY <1>1, <1>3 DEF ClaimReview, RunReview, RunReviewFails, ReleaseReview, Alone, IdleTask, Task
  <2> QED
    BY <1>2, <1>3, <2>1 DEF ClaimReview, RunReview, RunReviewFails, ReleaseReview
<1>4. CASE SkipReview(t)
  <2>1. Alone(t) /\ UNCHANGED req /\ UNCHANGED task /\ UNCHANGED tables /\ UNCHANGED sess
    BY <1>4 DEF SkipReview, Alone
  <2>2. Local(t)'
    BY <1>1, <2>1 DEF Invariant, Local, snap
  <2> QED
    BY <1>1, <2>1, <2>2, QuietKeeps
<1>5. CASE LoadReviewTarget(t)
  <2>1. Alone(t) /\ UNCHANGED req /\ UNCHANGED tables
    BY <1>1, <1>5 DEF LoadReviewTarget, Alone
  <2>2. CASE OpenSession(t) /\ task'[t].pc = "mark"
    <3>1. sess'[t].open
      BY <1>1, <2>1, <2>2, QuietTracks
    <3>2. Local(t)'
      BY <1>1, <2>2, <3>1 DEF Local
    <3> QED
      BY <1>1, <2>1, <2>2, <3>2, QuietKeeps
  <2>3. CASE UNCHANGED sess /\ task'[t].pc = "release"
    BY <1>2, <2>1, <2>3
  <2> QED
    BY <1>1, <1>5, <2>2, <2>3 DEF LoadReviewTarget, Task
<1>6. CASE Reload(t)
  <2>1. Alone(t) /\ UNCHANGED req /\ UNCHANGED tables
    BY <1>1, <1>6 DEF Reload, Alone
  <2>2. CASE OpenSession(t) /\ task' = [task EXCEPT ![t].pc = "write"] /\ task[t].sha = version[t[2]].sha
    <3>1. sess'[t].open /\ snap(t)' = Current
      BY <1>1, <2>1, <2>2, QuietTracks
    <3>2. task'[t].pc = "write" /\ task'[t].sha = version[t[2]].sha
      BY <1>1, <2>2 DEF Task
    <3>3. Local(t)'
      BY <1>1, <3>1, <3>2 DEF Local, Current
    <3> QED
      BY <1>1, <2>1, <2>2, <3>3, QuietKeeps
  <2>3. CASE UNCHANGED sess /\ task'[t].pc = "release"
    BY <1>2, <2>1, <2>3
  <2> QED
    BY <1>1, <1>6, <2>2, <2>3 DEF Reload, ArtifactChanged, Task
<1>7. CASE WriteVerdictFails(t)
  <2>1. Alone(t) /\ task'[t].pc \in {"reload", "fail"}
    BY <1>1, <1>7 DEF WriteVerdictFails, Alone, Task
  <2> QED
    BY <1>2, <1>7, <2>1 DEF WriteVerdictFails
<1>8. CASE LoadFailed(t)
  <2>1. Alone(t) /\ UNCHANGED req /\ UNCHANGED tables /\ OpenSession(t) /\ task'[t].pc = "failwrite"
    BY <1>1, <1>8 DEF LoadFailed, Alone, Task
  <2>2. sess'[t].open
    BY <1>1, <2>1, QuietTracks
  <2>3. Local(t)'
    BY <1>1, <2>1, <2>2 DEF Local
  <2> QED
    BY <1>1, <2>1, <2>3, QuietKeeps
<1>9. CASE MarkRunning(t)
  <2>1. ASSUME task' = [task EXCEPT ![t].pc = "fail"], CloseSession(t), UNCHANGED tables, UNCHANGED req
        PROVE  Invariant'
    <3>1. Alone(t) /\ task'[t].pc = "fail"
      BY <1>1, <2>1 DEF Alone, Task
    <3> QED
      BY <1>2, <2>1, <3>1
  <2> QED
    BY <1>9, <2>1, RunningKeeps DEF MarkRunning
<1>10. CASE WriteFailed(t)
  <2>1. ASSUME task' = [task EXCEPT ![t].pc = "release"], CloseSession(t), UNCHANGED tables, UNCHANGED req
        PROVE  Invariant'
    <3>1. Alone(t) /\ task'[t].pc = "release"
      BY <1>1, <2>1 DEF Alone, Task
    <3> QED
      BY <1>2, <2>1, <3>1
  <2> QED
    BY <1>10, <2>1, FailedKeeps DEF WriteFailed
<1> QED
  BY <1>3, <1>4, <1>5, <1>6, <1>7, <1>8, <1>9, <1>10, VerdictKeeps DEF Review

\* With every session closed nobody relies on anything.
LEMMA AtRest ==
  ASSUME TypeOK, \A x \in Users : req[x].step = "idle", \A t \in Threads : task[t].pc = "idle",
         \A x \in Sessions : ~sess[x].open, \A v \in Versions : Sound(v)
  PROVE  Invariant
<1>1. \A x \in Sessions : Local(x)
  BY Disjoint DEF Local
<1> QED
  BY <1>1 DEF Invariant, Tracks

LEMMA InitInvariant == Init => Invariant
<1> SUFFICES ASSUME Init PROVE Invariant
  OBVIOUS
<1>1. /\ \A x \in Users : req[x].step = "idle"
      /\ \A t \in Threads : task[t].pc = "idle"
      /\ \A x \in Sessions : ~sess[x].open
  BY DEF Init, Users, Idle, IdleTask, Closed
<1>2. \A v \in Versions : Sound(v)
  BY DEF Init, Sound, BrokenReview, Current, NoVersion, NoReview
<1> QED
  BY <1>1, <1>2, InitType, AtRest

LEMMA RestartServiceKeeps == ASSUME Invariant, TypeOK', Restart PROVE Invariant'
<1>1. /\ \A x \in Users : req'[x].step = "idle"
      /\ \A t \in Threads : task'[t].pc = "idle"
      /\ \A x \in Sessions : ~sess'[x].open
  BY DEF Restart, Users, Idle, IdleTask, Closed
<1>2. \A v \in Versions : Sound(v)'
  BY DEF Restart, Invariant, Sound, BrokenReview, Current, tables
<1>3. \A x \in Sessions : Local(x)'
  BY <1>1, Disjoint DEF Local
<1> QED
  BY <1>1, <1>2, <1>3 DEF Invariant, Tracks

LEMMA NextInvariant ==
  ASSUME SnapshotConflicts
  PROVE  Invariant /\ [Next]_vars => Invariant'
<1> SUFFICES ASSUME Invariant, [Next]_vars PROVE Invariant'
  OBVIOUS
<1>1. TypeOK'
  BY NextType DEF Invariant
<1>2. CASE UNCHANGED vars
  <2>1. \A x \in Sessions : Local(x)'
    BY <1>2 DEF Invariant, Local, snap, ManualStage, vars
  <2>2. \A x \in Sessions : Tracks(x)'
    BY <1>2 DEF Invariant, Tracks, InStep, BrokenReview, snap, vars, tables
  <2>3. \A v \in Versions : Sound(v)'
    BY <1>2 DEF Invariant, Sound, BrokenReview, Current, vars, tables
  <2> QED
    BY <1>1, <2>1, <2>2, <2>3 DEF Invariant
<1>3. CASE Next
  BY <1>1, <1>3, ArriveKeeps, ServeKeeps, ModerateKeeps, ReviewKeeps, RestartServiceKeeps DEF Next
<1> QED
  BY <1>2, <1>3

\* Where a database refuses a write to a row that somebody else committed since the
\* snapshot, requests and review threads only ever act on what is still true: a publish,
\* a retry, an approval or a verdict that commits finds the rows it writes as it read them.
THEOREM Isolated == ASSUME SnapshotConflicts PROVE Spec => []Invariant
BY InitInvariant, NextInvariant, PTL DEF Spec

\* VerdictsAreIsolated, for any numbers of versions, packages, requests and processes.
THEOREM VerdictsIsolated == Spec => []VerdictsAreIsolated
<1>1. CASE SnapshotConflicts
  <2>1. Invariant => VerdictsAreIsolated
    BY <1>1, InvariantParts
  <2>2. Spec => []Invariant
    BY <1>1, Isolated
  <2> QED
    BY <2>1, <2>2, PTL
<1>2. CASE ~SnapshotConflicts
  <2>1. VerdictsAreIsolated
    BY <1>2 DEF VerdictsAreIsolated
  <2> QED
    BY <2>1, PTL
<1> QED
  BY <1>1, <1>2

\* A version moderators see, published or rejected carries a passing verdict for the very
\* bytes it records, on a database that refuses writes to stale rows (without it the run
\* PublishStale shows a forced overwrite approved on the verdict for the former bytes).
THEOREM VerdictsOnRecordedArtifacts ==
  ASSUME SnapshotConflicts PROVE Spec => []VerdictOnRecordedArtifact
<1>1. Invariant => VerdictOnRecordedArtifact
  BY InvariantParts
<1> QED
  BY <1>1, Isolated, PTL

=============================================================================
