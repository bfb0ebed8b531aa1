------------------------ MODULE SkillPublishConflicts -----------------------
(***************************************************************************)
(* What holds where commits conflict, overwrites and deletions included:   *)
(* new bytes under a version number start over, versions live the life     *)
(* VersionLifecycle describes when moderators alone decide, and the market *)
(* shows the newest published version.  The argument throughout: by the    *)
(* invariant of SkillPublishIsolation a commit replaces a row by what the  *)
(* service computed or leaves it alone.                                    *)
(***************************************************************************)
EXTENDS SkillPublishUnforced

-----------------------------------------------------------------------------
(* New bytes start over: of all commits only a publication changes the bytes *)
(* of a row that stays.                                                      *)

StartsOver(v) ==
  version'[v].sha # version[v].sha /\ version'[v].id # 0
    => version'[v].ms = "PENDING" /\ version'[v].pr = InitialResult

\* A service that loaded l and computed n gives no version other bytes, unless the version
\* is gone or under review afresh.
KeepsBytes(l, n) ==
  \A v \in Versions :
    \/ n.version[v].sha = l.version[v].sha
    \/ n.version[v].id = 0
    \/ n.version[v].ms = "PENDING" /\ n.version[v].pr = InitialResult

LEMMA ServicesKeepBytes ==
  ASSUME NEW d \in Database, NEW v \in Versions
  PROVE  /\ \A a, n : KeepsBytes(d, PublishRows(d, v, a, n))
         /\ KeepsBytes(d, RestartRows(d, v))
         /\ KeepsBytes(d, ApproveRows(d, v))
         /\ KeepsBytes(d, RejectRows(d, v))
         /\ KeepsBytes(d, RunningRows(d, v))
         /\ KeepsBytes(d, FailedRows(d, v))
         /\ \A passed, sha : KeepsBytes(d, VerdictRows(d, v, passed, sha))
         /\ \A D : KeepsBytes(d, DeleteRows(d, D))
<1> USE DEF KeepsBytes, Database, VersionRow
<1>1. \A a, n : KeepsBytes(d, PublishRows(d, v, a, n))
  BY DEF PublishRows, PublishedRow
<1>2. KeepsBytes(d, RestartRows(d, v)) /\ KeepsBytes(d, ApproveRows(d, v)) /\ KeepsBytes(d, RejectRows(d, v))
  BY DEF RestartRows, ApproveRows, RejectRows
<1>3. KeepsBytes(d, RunningRows(d, v)) /\ KeepsBytes(d, FailedRows(d, v))
  BY DEF RunningRows, FailedRows
<1>4. \A passed, sha : KeepsBytes(d, VerdictRows(d, v, passed, sha))
  BY DEF VerdictRows
<1>5. \A D : KeepsBytes(d, DeleteRows(d, D))
  BY DEF DeleteRows, NoVersion
<1> QED
  BY <1>1, <1>2, <1>3, <1>4, <1>5

LEMMA CommitStartsOver ==
  ASSUME Invariant, SnapshotConflicts, NEW s \in Sessions, sess[s].open,
         NEW l \in Database, NEW n \in Database, NEW touched \in SUBSET Keys,
         Commit(s, l, n, touched), l.review = snap(s).review,
         \A v \in Versions : l.version[v] \in {snap(s).version[v], version[v]},
         KeepsBytes(l, n)
  PROVE  \A v \in Versions : StartsOver(v)
<1> SUFFICES ASSUME NEW v \in Versions PROVE StartsOver(v)
  OBVIOUS
<1>1. version'[v] = version[v] \/ (version'[v] = n.version[v] /\ version[v] = l.version[v])
  BY CommitWrites
<1> QED
  BY <1>1 DEF StartsOver, KeepsBytes

\* The same of a session that writes what it loaded in its snapshot.
LEMMA SnapshotStartsOver ==
  ASSUME Invariant, SnapshotConflicts, NEW s \in Sessions, sess[s].open,
         NEW n \in Database, NEW touched \in SUBSET Keys,
         Commit(s, snap(s), n, touched), KeepsBytes(snap(s), n)
  PROVE  \A v \in Versions : StartsOver(v)
<1>1. snap(s) \in Database
  BY DEF Invariant, TypeOK, Session, snap
<1> QED
  BY <1>1, CommitStartsOver

LEMMA StillStartsOver == UNCHANGED tables => \A v \in Versions : StartsOver(v)
BY DEF tables, StartsOver

LEMMA ServeStartsOver ==
  ASSUME Invariant, SnapshotConflicts, NEW c \in Publishers, Serve(c)
  PROVE  \A v \in Versions : StartsOver(v)
<1> USE Disjoint
<1>1. TypeOK /\ c \in Users /\ c \in Sessions /\ snap(c) \in Database
  BY DEF Invariant, TypeOK, Session, snap
<1>2. CASE PublishCommit(c)
  <2>1. req[c].v \in Versions /\ req[c].art \in Artifacts \cup {None} /\ clock' \in Nat /\ sess[c].open
    BY <1>1, <1>2, SplitType DEF PublishCommit, ReqType, Request, Invariant, Local
  <2>2. PICK n : n = PublishRows(snap(c), req[c].v, req[c].art, clock') /\ Commit(c, snap(c), n, PublishWrites(req[c].v))
    BY <1>2 DEF PublishCommit
  <2>3. n \in Database /\ PublishWrites(req[c].v) \in SUBSET Keys
    BY <1>1, <2>1, <2>2, PublishRowsType, TouchedTypes
  <2>4. KeepsBytes(snap(c), n)
    BY <1>1, <2>1, <2>2, ServicesKeepBytes
  <2> QED
    BY <1>1, <2>1, <2>2, <2>3, <2>4, SnapshotStartsOver
<1>3. CASE RestartCommit(c)
  <2>1. req[c].v \in Versions /\ sess[c].open
    BY <1>1, <1>3, SplitType DEF RestartCommit, ReqType, Invariant, Local
  <2>2. PICK n : n = RestartRows(snap(c), req[c].v) /\ Commit(c, snap(c), n, {ReviewKey(req[c].v)})
    BY <1>3 DEF RestartCommit
  <2>3. n \in Database /\ {ReviewKey(req[c].v)} \in SUBSET Keys
    BY <1>1, <2>1, <2>2, RestartRowsType, TouchedTypes
  <2>4. KeepsBytes(snap(c), n)
    BY <1>1, <2>1, <2>2, ServicesKeepBytes
  <2> QED
    BY <1>1, <2>1, <2>2, <2>3, <2>4, SnapshotStartsOver
<1>4. CASE DeleteFinish(c)
  <2>1. req[c].doomed \in SUBSET Versions /\ sess[c].open
    BY <1>1, <1>4, SplitType DEF DeleteFinish, ReqType, Request, Invariant, Local
  <2>2. PICK n : n = DeleteRows(snap(c), req[c].doomed) /\ Commit(c, snap(c), n, RowsOf(req[c].doomed))
    BY <1>4 DEF DeleteFinish
  <2>3. n \in Database /\ RowsOf(req[c].doomed) \in SUBSET Keys
    BY <1>1, <2>1, <2>2, DeleteRowsType, TouchedTypes
  <2>4. KeepsBytes(snap(c), n)
    BY <1>1, <2>2 DEF KeepsBytes, DeleteRows, NoVersion
  <2> QED
    BY <1>1, <2>1, <2>2, <2>3, <2>4, SnapshotStartsOver
<1>5. CASE \/ PublishUpload(c) \/ PublishUploadFails(c) \/ PublishRefused(c) \/ ChangelogFails(c)
           \/ Respond(c) \/ DeletePurge(c) \/ DeletePurgeFails(c)
  BY <1>5, StillStartsOver
     DEF PublishUpload, PublishUploadFails, PublishRefused, ChangelogFails, Respond, DeletePurge, DeletePurgeFails
<1> QED
  BY <1>2, <1>3, <1>4, <1>5 DEF Serve

LEMMA ModerateStartsOver ==
  ASSUME Invariant, SnapshotConflicts, NEW c \in Moderators, Moderate(c)
  PROVE  \A v \in Versions : StartsOver(v)
<1> USE Disjoint
<1>1. TypeOK /\ c \in Users /\ c \in Sessions /\ snap(c) \in Database
  BY DEF Invariant, TypeOK, Session, snap
<1>2. CASE ApproveCommit(c)
  <2>1. req[c].v \in Versions /\ sess[c].open
    BY <1>1, <1>2, SplitType DEF ApproveCommit, ReqType, Invariant, Local
  <2>2. PICK v \in Versions, d \in Database, n \in Database :
          /\ v = req[c].v /\ d = LockedView(c, v) /\ n = ApproveRows(d, v)
          /\ Commit(c, d, n, {AssetKey, VersionKey(v)})
    BY <1>1, <1>2, <2>1, SessionTypes, ApproveRowsType, SplitType DEF ApproveCommit
  <2>3. n \in Database /\ {AssetKey, VersionKey(v)} \in SUBSET Keys /\ KeepsBytes(d, n)
    BY <1>1, <2>2, ApproveRowsType, TouchedTypes, SplitType, ServicesKeepBytes
  <2>4. d.review = snap(c).review /\ \A u \in Versions : d.version[u] \in {snap(c).version[u], version[u]}
    BY <1>1, <2>2 DEF LockedView, Database
  <2> QED
    BY <1>1, <2>1, <2>2, <2>3, <2>4, CommitStartsOver
<1>3. CASE RejectCommit(c)
  <2>1. req[c].v \in Versions /\ sess[c].open
    BY <1>1, <1>3, SplitType DEF RejectCommit, ReqType, Invariant, Local
  <2>2. PICK v \in Versions, d \in Database, n \in Database :
          /\ v = req[c].v /\ d = LockedView(c, v) /\ n = RejectRows(d, v)
          /\ Commit(c, d, n, {VersionKey(v)})
    BY <1>1, <1>3, <2>1, SessionTypes, RejectRowsType DEF RejectCommit
  <2>3. n \in Database /\ {VersionKey(v)} \in SUBSET Keys /\ KeepsBytes(d, n)
    BY <2>2, RejectRowsType, TouchedTypes, ServicesKeepBytes
  <2>4. d.review = snap(c).review /\ \A u \in Versions : d.version[u] \in {snap(c).version[u], version[u]}
    BY <1>1, <2>2 DEF LockedView, Database
  <2> QED
    BY <1>1, <2>1, <2>2, <2>3, <2>4, CommitStartsOver
<1>4. CASE ApproveRefused(c) \/ RejectRefused(c)
  BY <1>4, StillStartsOver DEF ApproveRefused, RejectRefused
<1> QED
  BY <1>2, <1>3, <1>4 DEF Moderate

LEMMA ReviewStartsOver ==
  ASSUME Invariant, SnapshotConflicts, NEW t \in Threads, Review(t)
  PROVE  \A v \in Versions : StartsOver(v)
<1> USE Disjoint
<1>1. TypeOK /\ t \in Sessions /\ snap(t) \in Database /\ t[2] \in Versions /\ task[t] \in Task
  BY DEF Invariant, TypeOK, Session, snap, Threads
<1>2. {ReviewKey(t[2])} \in SUBSET Keys /\ FailedWrites(t) \in SUBSET Keys
  BY <1>1, TouchedTypes DEF FailedWrites
<1>3. CASE MarkRunning(t)
  <2>1. CASE Commit(t, snap(t), RunningRows(snap(t), t[2]), {ReviewKey(t[2])})
    <3>1. RunningRows(snap(t), t[2]) \in Database /\ KeepsBytes(snap(t), RunningRows(snap(t), t[2]))
      BY <1>1, RunningRowsType, ServicesKeepBytes
    <3>2. sess[t].open
      BY <1>1, <1>3 DEF Invariant, Local, MarkRunning
    <3> QED
      BY <1>1, <1>2, <2>1, <3>1, <3>2, SnapshotStartsOver
  <2> QED
    BY <1>3, <2>1, StillStartsOver DEF MarkRunning
<1>4. CASE WriteVerdict(t)
  <2>1. Verdict(t) \in Database /\ KeepsBytes(snap(t), Verdict(t))
    <3>1. task[t].sha \in Artifacts \cup {None} /\ (task[t].got \in Compliant) \in BOOLEAN
      BY <1>1 DEF Task
    <3>2. Verdict(t) = VerdictRows(snap(t), t[2], task[t].got \in Compliant, task[t].sha)
      BY DEF Verdict
    <3>3. VerdictRows(snap(t), t[2], task[t].got \in Compliant, task[t].sha) \in Database
      BY <1>1, <3>1, VerdictRowsType
    <3>4. KeepsBytes(snap(t), VerdictRows(snap(t), t[2], task[t].got \in Compliant, task[t].sha))
      BY <1>1, ServicesKeepBytes
    <3> QED
      BY <3>2, <3>3, <3>4
  <2>2. sess[t].open
    BY <1>1, <1>4 DEF Invariant, Local, WriteVerdict
  <2> QED
    BY <1>1, <1>2, <1>4, <2>1, <2>2, SnapshotStartsOver DEF WriteVerdict
<1>5. CASE WriteFailed(t)
  <2>1. CASE Commit(t, snap(t), FailedRows(snap(t), t[2]), FailedWrites(t))
    <3>1. FailedRows(snap(t), t[2]) \in Database /\ KeepsBytes(snap(t), FailedRows(snap(t), t[2]))
      BY <1>1, FailedRowsType, ServicesKeepBytes
    <3>2. sess[t].open
      BY <1>1, <1>5 DEF Invariant, Local, WriteFailed
    <3> QED
      BY <1>1, <1>2, <2>1, <3>1, <3>2, SnapshotStartsOver
  <2> QED
    BY <1>5, <2>1, StillStartsOver DEF WriteFailed
<1>6. CASE \/ ClaimReview(t) \/ SkipReview(t) \/ LoadReviewTarget(t) \/ RunReview(t) \/ RunReviewFails(t)
           \/ Reload(t) \/ WriteVerdictFails(t) \/ LoadFailed(t) \/ ReleaseReview(t)
  BY <1>6, StillStartsOver
     DEF ClaimReview, SkipReview, LoadReviewTarget, RunReview, RunReviewFails, Reload, WriteVerdictFails,
         LoadFailed, ReleaseReview
<1> QED
  BY <1>3, <1>4, <1>5, <1>6 DEF Review

LEMMA NextStartsOver ==
  ASSUME SnapshotConflicts, Invariant, [Next]_vars
  PROVE  \A v \in Versions : StartsOver(v)
<1>1. CASE UNCHANGED vars \/ Restart
  BY <1>1, StillStartsOver DEF vars, tables, Restart
<1>2. CASE Arrive
  <2>1. UNCHANGED tables
    BY <1>2 DEF Arrive, PublishAgain, PublishBegin, ApproveBegin, RejectBegin, DeleteBegin
  <2> QED
    BY <2>1, StillStartsOver
<1> QED
  BY <1>1, <1>2, ServeStartsOver, ModerateStartsOver, ReviewStartsOver DEF Next

\* New bytes under a version number start over, for any numbers of versions, packages,
\* requests and processes, on a database that refuses writes to stale rows: a decision of
\* the review or of a moderator about the former bytes cannot land on them in the same
\* step or survive it (the run PublishUnmoderated shows the other database).
THEOREM OverwriteStartsOver == ASSUME SnapshotConflicts PROVE Spec => NewBytesStartOver
<1>1. Invariant /\ [Next]_vars =>
        [\A v \in Versions : version'[v].sha # version[v].sha /\ version'[v].id # 0
           => version'[v].ms = "PENDING" /\ version'[v].pr = InitialResult]_vars
  BY NextStartsOver DEF StartsOver
<1> QED
  BY <1>1, Isolated, PTL DEF Spec, NewBytesStartOver

-----------------------------------------------------------------------------
(* Without the system review only publishers and moderators decide, and each *)
(* decision is about the row as it is.                                       *)

LEMMA TouchedFresh ==
  ASSUME Invariant, SnapshotConflicts, NEW s \in Sessions, sess[s].open,
         NEW n, NEW touched, Commit(s, snap(s), n, touched),
         NEW v \in Versions, VersionKey(v) \in touched
  PROVE  version[v] = snap(s).version[v]
<1>1. VersionKey(v) \notin sess[s].stale
  BY WrittenKeys DEF Commit, CanCommit, NoConflict
<1> QED
  BY <1>1 DEF Invariant, Tracks, InStep

LEMMA ConflictPublish ==
  ASSUME Invariant, SnapshotConflicts, NEW c \in Publishers, PublishCommit(c), NEW v, v = req[c].v
  PROVE  /\ v \in Versions /\ Only(v) /\ version[v] = snap(c).version[v]
         /\ version'[v] = PublishedRow(version[v], req[c].art, clock + 1)
<1> USE Disjoint
<1>1. TypeOK /\ c \in Users /\ c \in Sessions /\ sess[c].open
  BY DEF Invariant, Local, PublishCommit
<1>2. /\ v \in Versions /\ Only(v)
      /\ version'[v] = MergeVersion(snap(c).version[v], PublishedRow(snap(c).version[v], req[c].art, clock + 1), version[v])
  BY <1>1, PublishEffect
<1>3. VersionKey(v) \in PublishWrites(v)
  BY DEF PublishWrites
<1>4. version[v] = snap(c).version[v]
  BY <1>1, <1>2, <1>3, TouchedFresh DEF PublishCommit
<1>5. version[v] \in VersionRow /\ PublishedRow(version[v], req[c].art, clock + 1) \in VersionRow
  <2>1. version[v] \in VersionRow /\ req[c].art \in Artifacts \cup {None} /\ clock \in Nat
    BY <1>1, <1>2, SplitType DEF TypeOK, Current, Database, ReqType, Request
  <2> QED
    BY <2>1 DEF PublishedRow, VersionRow, InitialResult, PublishResult, ModerationStatus
<1> QED
  BY <1>2, <1>4, <1>5, MergeFresh

LEMMA ConflictDelete ==
  ASSUME Invariant, SnapshotConflicts, NEW c \in Publishers, DeleteFinish(c)
  PROVE  LET D == req[c].doomed
         IN /\ D \subseteq Versions
            /\ \A v \in D : version[v] = snap(c).version[v] /\ version'[v] = NoVersion
            /\ \A v \in Versions \ D : version'[v] = version[v]
<1> USE Disjoint
<1>1. TypeOK /\ c \in Users /\ c \in Sessions /\ sess[c].open
  BY DEF Invariant, Local, DeleteFinish
<1>2. req[c].doomed \subseteq Versions /\ \A v \in Versions \ req[c].doomed : version'[v] = version[v]
  BY <1>1, DeleteEffect
<1>3. ASSUME NEW v \in req[c].doomed PROVE version[v] = snap(c).version[v] /\ version'[v] = NoVersion
  <2>1. v \in Versions /\ version'[v] = MergeVersion(snap(c).version[v], NoVersion, version[v])
    BY <1>1, <1>2, <1>3, DeleteEffect
  <2>2. VersionKey(v) \in RowsOf(req[c].doomed)
    BY <1>3 DEF RowsOf
  <2>3. version[v] = snap(c).version[v]
    BY <1>1, <2>1, <2>2, TouchedFresh DEF DeleteFinish
  <2>4. version[v] \in VersionRow /\ NoVersion \in VersionRow
    BY <1>1, <2>1, AbsentTypes DEF TypeOK, Current, Database
  <2> QED
    BY <2>1, <2>3, <2>4, MergeFresh
<1> QED
  BY <1>2, <1>3

Settled(row) == Recorded(row) /\ row.pr # "reviewing"

Overwriting(c) ==
  /\ req[c].step # "restart"
  /\ req[c].step \in {"changelog", "reply"} => req[c].reply # "reviewing"
  /\ req[c].step \in {"upload", "commit"} =>
       req[c].art \in Artifacts /\ sess[c].snap.version[req[c].v].sha # req[c].art

Unasked(t) == calls[t] = 0 /\ task[t].pc = "idle"

UnreviewedInvariant ==
  /\ Invariant
  /\ \A v \in Versions : Settled(version[v])
  /\ \A s \in Sessions, v \in Versions : Settled(sess[s].snap.version[v])
  /\ \A c \in Publishers : Overwriting(c)
  /\ \A t \in Threads : Unasked(t)

LEMMA InitUnreviewed == Init => UnreviewedInvariant
<1> SUFFICES ASSUME Init PROVE UnreviewedInvariant
  OBVIOUS
<1> USE Disjoint
<1>1. /\ \A v \in Versions : Settled(version[v])
      /\ \A s \in Sessions, v \in Versions : Settled(sess[s].snap.version[v])
  BY DEF Init, NoVersion, Closed, Settled, Recorded
<1>2. (\A c \in Publishers : Overwriting(c)) /\ (\A t \in Threads : Unasked(t))
  BY DEF Init, Idle, IdleTask, Overwriting, Unasked
<1> QED
  BY <1>1, <1>2, InitInvariant DEF UnreviewedInvariant

\* What becomes of a version in one step.
LEMMA UnreviewedRows ==
  ASSUME SnapshotConflicts, UnreviewedInvariant, [Next]_vars
  PROVE  \/ \A v \in Versions : version'[v] = version[v]
         \/ \E c \in Publishers, v \in Versions :
              /\ PublishCommit(c) /\ v = req[c].v /\ Only(v) /\ version[v].sha # req[c].art /\ req[c].art \in Artifacts
              /\ version'[v] = PublishedRow(version[v], req[c].art, clock + 1)
         \/ \E c \in Publishers, D \in SUBSET Versions :
              /\ DeleteFinish(c)
              /\ \A v \in Versions : version'[v] = IF v \in D THEN NoVersion ELSE version[v]
         \/ \E v \in Versions :
              /\ version[v].id # 0 /\ ManualStage(version[v])
              /\ \/ Decides(v, {"APPROVED"}, {"publish_success"})
                 \/ Decides(v, {"REJECTED"}, {"publish_failed"}) /\ version[v].pr = "pending_moderation"
<1> USE Disjoint
<1>1. Invariant /\ TypeOK
  BY DEF UnreviewedInvariant, Invariant
<1>2. ASSUME NEW c \in Publishers, PublishCommit(c)
      PROVE  \E v \in Versions :
               /\ PublishCommit(c) /\ v = req[c].v /\ Only(v) /\ version[v].sha # req[c].art /\ req[c].art \in Artifacts
               /\ version'[v] = PublishedRow(version[v], req[c].art, clock + 1)
  <2>1. req[c].art \in Artifacts /\ snap(c).version[req[c].v].sha # req[c].art
    BY <1>2 DEF UnreviewedInvariant, Overwriting, PublishCommit, snap
  <2> QED
    BY <1>1, <1>2, <2>1, ConflictPublish
<1>3. ASSUME NEW c \in Publishers, DeleteFinish(c)
      PROVE  \E D \in SUBSET Versions : \A v \in Versions : version'[v] = IF v \in D THEN NoVersion ELSE version[v]
  <2>1. req[c].doomed \in SUBSET Versions
    BY <1>1, <1>3, ConflictDelete
  <2>2. \A v \in Versions : version'[v] = IF v \in req[c].doomed THEN NoVersion ELSE version[v]
    BY <1>1, <1>3, ConflictDelete
  <2> QED
    BY <2>1, <2>2
<1>4. ASSUME NEW c \in Moderators, ApproveCommit(c)
      PROVE  \E v \in Versions : version[v].id # 0 /\ ManualStage(version[v]) /\ Decides(v, {"APPROVED"}, {"publish_success"})
  <2>1. /\ Decides(req[c].v, {"APPROVED"}, {"publish_success"})
        /\ SameCandidate(version[req[c].v], snap(c).version[req[c].v])
    BY <1>1, <1>4, ApproveEffect
  <2>2. snap(c).version[req[c].v].id # 0 /\ ManualStage(snap(c).version[req[c].v])
    BY <1>1, <1>4 DEF Invariant, Local, ApproveCommit
  <2> QED
    BY <2>1, <2>2 DEF Decides, SameCandidate, ManualStage
<1>5. ASSUME NEW c \in Moderators, RejectCommit(c)
      PROVE  \E v \in Versions : /\ version[v].id # 0 /\ ManualStage(version[v]) /\ version[v].pr = "pending_moderation"
                                /\ Decides(v, {"REJECTED"}, {"publish_failed"})
  <2>1. Decides(req[c].v, {"REJECTED"}, {"publish_failed"}) /\ Rejectable(version[req[c].v])
    BY <1>1, <1>5, RejectEffect
  <2> QED
    BY <2>1 DEF Decides, Rejectable, ManualStage
<1>6. /\ \A t \in Threads : ~WriteVerdict(t) /\ ~WriteFailed(t)
      /\ \A c \in Publishers : ~RestartCommit(c)
  BY DEF UnreviewedInvariant, Unasked, WriteVerdict, WriteFailed, Overwriting, RestartCommit
<1> QED
  BY <1>1, <1>2, <1>3, <1>4, <1>5, <1>6, VersionSteps

LEMMA UnreviewedOverwriting ==
  ASSUME SnapshotConflicts, ~ReviewEnabled, UnreviewedInvariant, [Next]_vars, NEW c \in Publishers
  PROVE  Overwriting(c)'
<1> USE Disjoint
<1>1. TypeOK /\ Overwriting(c) /\ c \in Users /\ c \in Sessions
  BY DEF UnreviewedInvariant, Invariant
<1>2. CASE req'[c] = req[c]
  <2>1. req[c].step = "idle" \/ sess'[c].snap = sess[c].snap
    BY <1>1, <1>2, SessionSteps
  <2> QED
    BY <1>1, <1>2, <2>1 DEF Overwriting
<1>3. CASE req'[c] = Idle
  BY <1>3 DEF Overwriting, Idle
<1>4. ASSUME NEW v \in Versions, PublishAgain(c, v) PROVE Overwriting(c)'
  <2>1. req' = [req EXCEPT ![c] = [Idle EXCEPT !.step = "reply", !.v = v, !.reply = version[v].pr]]
    BY <1>4 DEF PublishAgain
  <2>2. req'[c].step = "reply" /\ req'[c].reply = version[v].pr
    BY <1>1, <2>1, SplitType DEF Idle, ReqType
  <2> QED
    BY <2>2 DEF Overwriting, UnreviewedInvariant, Settled
<1>5. ASSUME NEW v \in Versions, NEW a \in Artifacts, PublishBegin(c, v, a),
             req'[c].step = "upload", req'[c].v = v, req'[c].art = a
      PROVE  Overwriting(c)'
  <2>1. version[v].sha # a
    BY <1>5, SkillPublishAssumption DEF PublishBegin, MayPublish, UnreviewedInvariant, Settled, Recorded
  <2>2. sess'[c].snap = Current
    BY <1>1, <1>5 DEF PublishBegin, OpenSession, TypeOK
  <2> QED
    BY <1>5, <2>1, <2>2 DEF Overwriting, Current
<1>6. CASE PublishUpload(c) /\ req'[c].step = "commit" /\ req'[c].v = req[c].v /\ req'[c].art = req[c].art
  <2>1. req[c].step = "upload" /\ sess' = sess
    BY <1>6 DEF PublishUpload
  <2> QED
    BY <1>1, <1>6, <2>1 DEF Overwriting
<1>7. CASE PublishCommit(c) /\ req'[c].step = "changelog" /\ req'[c].v = req[c].v /\ req'[c].reply = version'[req'[c].v].pr
  <2>1. version'[req[c].v].pr = "pending_moderation"
    <3>1. version'[req[c].v] = PublishedRow(version[req[c].v], req[c].art, clock + 1)
      BY <1>7, ConflictPublish DEF UnreviewedInvariant
    <3> QED
      BY <3>1 DEF PublishedRow, InitialResult
  <2> QED
    BY <1>7, <2>1 DEF Overwriting
<1>8. CASE req'[c].step \in {"purge", "finish"}
  BY <1>8 DEF Overwriting
<1>9. ~RestartCommit(c)
  BY <1>1 DEF Overwriting, RestartCommit
<1> QED
  BY <1>1, <1>2, <1>3, <1>4, <1>5, <1>6, <1>7, <1>8, <1>9, PublisherSteps

LEMMA NextUnreviewed ==
  ASSUME SnapshotConflicts, ~ReviewEnabled, UnreviewedInvariant, [Next]_vars
  PROVE  UnreviewedInvariant'
<1> USE Disjoint
<1>1. Invariant /\ TypeOK /\ Invariant'
  BY NextInvariant DEF UnreviewedInvariant, Invariant
<1>2. ASSUME NEW v \in Versions PROVE Settled(version[v])'
  <2>1. Settled(version[v]) /\ version[v].id \in Nat /\ clock \in Nat
    BY <1>1, SplitType DEF UnreviewedInvariant, TypeOK, Current, Database, VersionRow
  <2>2. CASE version'[v] = version[v]
    BY <2>1, <2>2 DEF Settled, Recorded
  <2>3. ASSUME NEW a \in Artifacts, version'[v] = PublishedRow(version[v], a, clock + 1) PROVE Settled(version[v])'
    <3>1. version'[v].id # 0 /\ version'[v].sha = a /\ version'[v].pr = "pending_moderation"
      BY <2>1, <2>3 DEF PublishedRow, InitialResult
    <3> QED
      BY <3>1, SkillPublishAssumption DEF Settled, Recorded
  <2>4. CASE version'[v] = NoVersion
    BY <2>4 DEF Settled, Recorded, NoVersion
  <2>5. ASSUME NEW M, NEW R, Decides(v, M, R), "reviewing" \notin R PROVE Settled(version[v])'
    BY <2>1, <2>5 DEF Decides, Settled, Recorded
  <2> QED
    BY <2>2, <2>3, <2>4, <2>5, UnreviewedRows DEF Only, Decides
<1>3. ASSUME NEW s \in Sessions, NEW v \in Versions PROVE Settled(sess[s].snap.version[v])'
  <2>1. Settled(version[v]) /\ Settled(sess[s].snap.version[v])
    BY DEF UnreviewedInvariant
  <2>2. Settled(Closed.snap.version[v]) /\ Current.version[v] = version[v]
    BY DEF Closed, NoVersion, Settled, Recorded, Current
  <2>3. sess'[s].snap \in {sess[s].snap, Current, Closed.snap}
    BY <1>1, SessionSteps
  <2> QED
    BY <2>1, <2>2, <2>3 DEF Settled, Recorded
<1>4. ASSUME NEW t \in Threads PROVE Unasked(t)'
  <2>1. Unasked(t) /\ \A c \in Publishers : Overwriting(c)
    BY DEF UnreviewedInvariant
  <2>2. ~Review(t)
    BY <2>1 DEF Unasked, Review, ClaimReview, SkipReview, LoadReviewTarget, MarkRunning, RunReview, RunReviewFails,
                Reload, WriteVerdict, WriteVerdictFails, LoadFailed, WriteFailed, ReleaseReview
  <2>3. \A c \in Publishers : Respond(c) => req[c].reply # "reviewing"
    BY <2>1 DEF Respond, Overwriting
  <2> QED
    BY <1>1, <2>1, <2>2, <2>3, ThreadSteps DEF Unasked, IdleTask
<1> QED
  BY <1>1, <1>2, <1>3, <1>4, UnreviewedOverwriting DEF UnreviewedInvariant

LEMMA UnreviewedLives ==
  ASSUME SnapshotConflicts, ~ReviewEnabled, UnreviewedInvariant, [Next]_vars
  PROVE  [Lifecycle!Next]_(Lifecycle!vars)
<1>1. \A v \in Versions : Settled(version[v]) /\ version[v].id \in Nat /\ clock \in Nat
  BY SplitType DEF UnreviewedInvariant, Invariant, TypeOK, Current, Database, VersionRow
<1>2. CASE \A v \in Versions : version'[v] = version[v]
  BY <1>2, StillStep DEF Stage
<1>3. ASSUME NEW v \in Versions, NEW a \in Artifacts, Only(v), version[v].sha # a,
             version'[v] = PublishedRow(version[v], a, clock + 1)
      PROVE  [Lifecycle!Next]_(Lifecycle!vars)
  <2>1. /\ version'[v].id # 0 /\ version'[v].sha = a
        /\ version'[v].ms = "PENDING" /\ version'[v].pr = InitialResult
    BY <1>1, <1>3 DEF PublishedRow
  <2>2. Lifecycle!Submit(v, a)
    BY <1>3, <2>1, SubmitStep
  <2> QED
    BY <2>2 DEF Lifecycle!Next
<1>4. ASSUME NEW D \in SUBSET Versions, \A v \in Versions : version'[v] = IF v \in D THEN NoVersion ELSE version[v]
      PROVE  [Lifecycle!Next]_(Lifecycle!vars)
  <2>1. \A v \in Versions : Stage(v)' = (IF v \in D THEN "absent" ELSE Stage(v))
                          /\ version'[v].sha = (IF v \in D THEN None ELSE version[v].sha)
    BY <1>4 DEF Stage, StageOf, NoVersion
  <2>2. Lifecycle!Withdraw(D)
    BY <2>1 DEF Lifecycle!Withdraw, Stage
  <2> QED
    BY <2>2 DEF Lifecycle!Next
<1>5. ASSUME NEW v \in Versions, Decides(v, {"APPROVED"}, {"publish_success"}), version[v].id # 0, ManualStage(version[v])
      PROVE  [Lifecycle!Next]_(Lifecycle!vars)
  BY <1>5, ApprovalLives
<1>6. ASSUME NEW v \in Versions, Decides(v, {"REJECTED"}, {"publish_failed"}), version[v].id # 0,
             version[v].pr = "pending_moderation"
      PROVE  [Lifecycle!Next]_(Lifecycle!vars)
  BY <1>6, RejectionLives
<1> QED
  BY <1>2, <1>3, <1>4, <1>5, <1>6, UnreviewedRows

LEMMA UnreviewedHolds == ASSUME SnapshotConflicts, ~ReviewEnabled PROVE Spec => []UnreviewedInvariant
<1>1. UnreviewedInvariant /\ [Next]_vars => UnreviewedInvariant'
  BY NextUnreviewed
<1> QED
  BY <1>1, InitUnreviewed, PTL DEF Spec

\* With the system review off, versions live the life VersionLifecycle describes, for any
\* numbers of versions, publishers and moderators, forced overwrites, repeated publishes
\* and deletions included: no moderator decides bytes that are gone, and none undoes what
\* another decided.
THEOREM ConflictsImplementLifecycle ==
  ASSUME SnapshotConflicts, ~ReviewEnabled PROVE Spec => ImplementsLifecycle
<1>1. UnreviewedInvariant /\ [Next]_vars => [Lifecycle!Next]_(Lifecycle!vars)
  BY UnreviewedLives
<1> QED
  BY <1>1, UnreviewedHolds, InitLifecycle, PTL DEF Spec, ImplementsLifecycle, Lifecycle!Spec

\* So an approval is final but for the publisher's own overwrite or deletion.
THEOREM ConflictsKeepApprovals ==
  ASSUME SnapshotConflicts, ~ReviewEnabled PROVE Spec => ApprovalIsFinal
<1>1. UnreviewedInvariant /\ [Next]_vars =>
        [\A v \in Successful(version) :
           version'[v].id = version[v].id /\ version'[v].sha = version[v].sha
             => version'[v].pr = "publish_success"]_vars
  BY UnreviewedLives, LifecycleKeepsApproved
<1> QED
  BY <1>1, UnreviewedHolds, PTL DEF Spec, ApprovalIsFinal

-----------------------------------------------------------------------------
(* The market's "latest" is the newest published version: whoever puts a     *)
(* version on the market, or takes one off, writes the asset's row as well,  *)
(* so a session that read the row and may still write it has seen them all.  *)

Shown(row) == row.id # 0 /\ row.pr = "publish_success"

\* Rows that make no difference to the choice of the newest published version.
Alike(row, other) == (Shown(row) <=> Shown(other)) /\ (Shown(row) => row.ct = other.ct)

LEMMA AlikeNewest ==
  ASSUME NEW rows, NEW others, \A v \in Versions : Alike(rows[v], others[v])
  PROVE  Newest(Successful(rows), rows) = Newest(Successful(others), others)
<1>1. Successful(rows) = Successful(others)
  BY DEF Alike, Shown, Successful, Existing
<1> DEFINE S == Successful(rows)
<1>2. \A v \in S : rows[v].ct = others[v].ct
  BY DEF Alike, Shown, Successful, Existing
<1> HIDE DEF S
<1> DEFINE top(r) == {v \in S : \A w \in S : r[w].ct <= r[v].ct}
           first(T) == IF T = {} THEN None ELSE CHOOSE v \in T : TRUE
<1>3. top(rows) = top(others)
  BY <1>2
<1>4. Newest(S, rows) = first(top(rows)) /\ Newest(S, others) = first(top(others))
  BY Zenon DEF Newest
<1> HIDE DEF top, first
<1>5. Newest(S, rows) = Newest(S, others)
  BY <1>3, <1>4
<1> QED
  BY <1>1, <1>5 DEF S

Recomputed(a, rows) == a.state = "live" => a.public = Newest(Successful(rows), rows)

Follows(x) ==
  sess[x].open /\ AssetKey \notin sess[x].stale =>
    asset = sess[x].snap.asset /\ \A v \in Versions : Alike(version[v], sess[x].snap.version[v])

MarketInvariant == Recomputed(asset, version) /\ \A x \in Sessions : Follows(x)

LEMMA MergeAssetFresh ==
  /\ \A l, n \in AssetRow : MergeAsset(l, n, l) = n
  /\ \A l, c \in AssetRow : MergeAsset(l, l, c) = c
BY DEF MergeAsset, Column, AssetRow

LEMMA WrittenAsset ==
  ASSUME NEW l, NEW n, NEW touched
  PROVE  AssetKey \in Written(l, n, touched) <=> AssetKey \in touched \/ n.asset # l.asset
BY KeysDiffer DEF Written

\* A commit keeps the invariant if its service computes "latest" afresh whenever it writes
\* the asset's row, and otherwise only decides versions that stay off the market.
LEMMA CommitAgrees ==
  ASSUME Invariant, SnapshotConflicts, MarketInvariant, NEW s \in Sessions, sess[s].open,
         NEW l \in Database, NEW n \in Database, NEW touched \in SUBSET Keys, Commit(s, l, n, touched),
         l.review = snap(s).review, l.asset = snap(s).asset,
         \A v \in Versions : l.version[v] \in {snap(s).version[v], version[v]},
         n.asset = l.asset \/ Recomputed(n.asset, n.version),
         AssetKey \in touched => Recomputed(n.asset, n.version),
         \A v \in Versions : \/ AssetKey \in touched \/ n.version[v] = l.version[v]
                             \/ ~Shown(version[v]) /\ ~Shown(n.version[v])
  PROVE  MarketInvariant'
<1> DEFINE W == Written(l, n, touched)
<1>1. TypeOK /\ W \cap sess[s].stale = {}
  BY DEF Invariant, Commit, CanCommit, NoConflict
<1>2. asset \in AssetRow /\ l.asset \in AssetRow /\ n.asset \in AssetRow
  BY <1>1 DEF TypeOK, Current, Database
<1>3. asset' = MergeAsset(l.asset, n.asset, asset)
  BY DEF Commit
<1>4. ASSUME NEW v \in Versions
      PROVE  \/ version'[v] = version[v] /\ n.version[v] = l.version[v]
             \/ version'[v] = n.version[v] /\ version[v] = l.version[v]
  BY CommitWrites
<1>5. \A x \in Sessions : sess'[x].open => /\ x # s /\ sess[x].open /\ sess'[x].snap = sess[x].snap
                                          /\ sess'[x].stale = sess[x].stale \cup W
  <2>1. sess \in [Sessions -> Session] /\ CommitSession(s, W)
    BY <1>1 DEF TypeOK, Commit
  <2> HIDE DEF W
  <2> QED
    BY <2>1 DEF CommitSession, Closed, Session
<1>6. CASE AssetKey \in W
  <2>1. asset = l.asset /\ \A v \in Versions : Alike(version[v], snap(s).version[v])
    BY <1>1, <1>6 DEF MarketInvariant, Follows, snap
  <2>2. asset' = n.asset
    BY <1>2, <1>3, <2>1, MergeAssetFresh
  <2>3. Recomputed(n.asset, n.version)
    BY <1>6, WrittenAsset
  <2>4. \A v \in Versions : Alike(version'[v], n.version[v])
    BY <1>4, <2>1 DEF Alike
  <2>5. Newest(Successful(version'), version') = Newest(Successful(n.version), n.version)
    BY <2>4, AlikeNewest
  <2>6. Recomputed(asset, version)'
    BY <2>2, <2>3, <2>5 DEF Recomputed
  <2>7. \A x \in Sessions : Follows(x)'
    BY <1>5, <1>6 DEF Follows
  <2> QED
    BY <2>6, <2>7 DEF MarketInvariant
<1>7. CASE AssetKey \notin W
  <2>1. n.asset = l.asset /\ AssetKey \notin touched
    BY <1>7, WrittenAsset
  <2>2. asset' = asset
    BY <1>2, <1>3, <2>1, MergeAssetFresh
  <2>3. \A v \in Versions : Alike(version'[v], version[v])
    BY <1>4, <2>1 DEF Alike
  <2>4. Newest(Successful(version'), version') = Newest(Successful(version), version)
    BY <2>3, AlikeNewest
  <2>5. Recomputed(asset, version)'
    BY <2>2, <2>4 DEF MarketInvariant, Recomputed
  <2>6. \A x \in Sessions : Follows(x)'
    BY <1>5, <2>2, <2>3 DEF MarketInvariant, Follows, Alike
  <2> QED
    BY <2>5, <2>6 DEF MarketInvariant
<1> QED
  BY <1>6, <1>7

LEMMA QuietAgrees ==
  ASSUME TypeOK, MarketInvariant, UNCHANGED tables,
         \A x \in Sessions : \/ sess'[x] = sess[x]
                             \/ ~sess'[x].open
                             \/ sess'[x].snap = Current
  PROVE  MarketInvariant'
<1>1. asset' = asset /\ version' = version
  BY DEF tables
<1>2. Recomputed(asset, version)'
  BY <1>1 DEF MarketInvariant, Recomputed
<1>3. ASSUME NEW x \in Sessions PROVE Follows(x)'
  BY <1>1, <1>3 DEF MarketInvariant, Follows, Current, Alike
<1> QED
  BY <1>2, <1>3 DEF MarketInvariant

LEMMA AggregateRecomputes ==
  ASSUME NEW a \in AssetRow, NEW rows
  PROVE  Recomputed(Aggregate(a, rows), rows)
BY DEF Aggregate, AssetRow, Recomputed

\* Every service computes the aggregate afresh from the rows it leaves.
LEMMA Recomputes ==
  ASSUME NEW d \in Database, NEW v \in Versions
  PROVE  /\ \A a \in Artifacts \cup {None} : \A k : LET n == PublishRows(d, v, a, k) IN Recomputed(n.asset, n.version)
         /\ LET n == ApproveRows(d, v) IN Recomputed(n.asset, n.version)
         /\ LET n == RejectRows(d, v) IN Recomputed(n.asset, n.version)
         /\ \A passed, sha : LET n == VerdictRows(d, v, passed, sha) IN Recomputed(n.asset, n.version)
         /\ LET n == FailedRows(d, v) IN n.asset = d.asset \/ Recomputed(n.asset, n.version)
<1>1. ASSUME NEW a \in AssetRow, NEW rows PROVE Recomputed(Aggregate(a, rows), rows)
  BY <1>1, AggregateRecomputes
<1>2. d.asset \in AssetRow
  BY DEF Database
<1>3. ASSUME NEW a \in Artifacts \cup {None}, NEW k
      PROVE  LET n == PublishRows(d, v, a, k) IN Recomputed(n.asset, n.version)
  <2> DEFINE head == [d.asset EXCEPT !.state = "live", !.latest = v,
                                     !.listing = IF Approved(d.version) # {} THEN @ ELSE a]
             rows == [d.version EXCEPT ![v] = PublishedRow(@, a, k)]
  <2>1. head \in AssetRow
    BY <1>2 DEF AssetRow
  <2>2. Recomputed(Aggregate(head, rows), rows)
    BY <1>1, <2>1
  <2>3. PublishRows(d, v, a, k).asset = Aggregate(head, rows) /\ PublishRows(d, v, a, k).version = rows
    BY DEF PublishRows
  <2> HIDE DEF head, rows
  <2> QED
    BY <2>2, <2>3
<1>4. LET n == ApproveRows(d, v) IN Recomputed(n.asset, n.version)
  <2> DEFINE rows == [d.version EXCEPT ![v].ms = "APPROVED", ![v].pr = "publish_success"]
             g == Aggregate(d.asset, rows)
  <2>1. Recomputed(g, rows)
    BY <1>1, <1>2
  <2>2. \A shown : [g EXCEPT !.listing = shown].state = g.state /\ [g EXCEPT !.listing = shown].public = g.public
    BY <1>2 DEF Aggregate, AssetRow
  <2> HIDE DEF g, rows
  <2>3. \A shown : Recomputed([g EXCEPT !.listing = shown], rows)
    BY <2>1, <2>2 DEF Recomputed
  <2> QED
    BY <2>3 DEF ApproveRows, g, rows
<1>5. LET n == RejectRows(d, v) IN Recomputed(n.asset, n.version)
  BY <1>1, <1>2 DEF RejectRows
<1>6. ASSUME NEW passed, NEW sha PROVE LET n == VerdictRows(d, v, passed, sha) IN Recomputed(n.asset, n.version)
  BY <1>1, <1>2 DEF VerdictRows
<1>7. LET n == FailedRows(d, v) IN n.asset = d.asset \/ Recomputed(n.asset, n.version)
  BY <1>1, <1>2 DEF FailedRows
<1> QED
  BY <1>3, <1>4, <1>5, <1>6, <1>7

LEMMA DeletionRecomputes ==
  ASSUME NEW d \in Database, NEW D
  PROVE  LET n == DeleteRows(d, D) IN Recomputed(n.asset, n.version)
<1> DEFINE rows == [u \in Versions |-> IF u \in D THEN NoVersion ELSE d.version[u]]
           left == Existing(rows)
           head == [d.asset EXCEPT !.latest = Newest(left, rows)]
<1>1. left \subseteq Versions
  BY DEF Existing
<1>2. head \in AssetRow
  BY <1>1, NewestType DEF Database, AssetRow
<1>3. Recomputed(Aggregate(head, rows), rows)
  BY <1>2, AggregateRecomputes
<1>4. Recomputed(NoAsset("deleted"), rows)
  BY DEF NoAsset, Recomputed
<1> QED
  BY <1>3, <1>4 DEF DeleteRows

\* A review decides only what is under review, and none is restarted.
Orderly ==
  /\ \A t \in Threads : WriteVerdict(t) \/ WriteFailed(t) => UnderReview(t[2])
  /\ \A c \in Publishers : ~RestartCommit(c)

LEMMA PublisherAgrees ==
  ASSUME SnapshotConflicts, Invariant, MarketInvariant, NEW c \in Publishers, PublishCommit(c) \/ DeleteFinish(c)
  PROVE  MarketInvariant'
<1> USE Disjoint
<1>1. TypeOK /\ c \in Users /\ c \in Sessions /\ snap(c) \in Database /\ sess[c].open
  BY SessionTypes DEF Invariant, Local, PublishCommit, DeleteFinish
<1>2. CASE PublishCommit(c)
  <2>1. req[c].v \in Versions /\ req[c].art \in Artifacts \cup {None} /\ clock' \in Nat
    BY <1>1, <1>2, SplitType DEF PublishCommit, ReqType, Request
  <2>2. PICK v \in Versions, d \in Database, n \in Database :
          /\ d = snap(c) /\ n = PublishRows(d, v, req[c].art, clock')
          /\ Commit(c, d, n, PublishWrites(v))
    BY <1>1, <1>2, <2>1, PublishRowsType DEF PublishCommit
  <2>3. AssetKey \in PublishWrites(v) /\ PublishWrites(v) \in SUBSET Keys
    BY TouchedTypes DEF PublishWrites
  <2>4. Recomputed(n.asset, n.version)
    BY <2>1, <2>2, Recomputes
  <2> QED
    BY <1>1, <2>2, <2>3, <2>4, CommitAgrees
<1>3. CASE DeleteFinish(c)
  <2>1. req[c].doomed \in SUBSET Versions
    BY <1>1, SplitType DEF ReqType, Request
  <2>2. PICK D \in SUBSET Versions, d \in Database, n \in Database :
          d = snap(c) /\ n = DeleteRows(d, D) /\ Commit(c, d, n, RowsOf(D))
    BY <1>1, <1>3, <2>1, DeleteRowsType DEF DeleteFinish
  <2>3. AssetKey \in RowsOf(D) /\ RowsOf(D) \in SUBSET Keys
    BY TouchedTypes DEF RowsOf
  <2>4. Recomputed(n.asset, n.version)
    BY <2>2, DeletionRecomputes
  <2> QED
    BY <1>1, <2>2, <2>3, <2>4, CommitAgrees
<1> QED
  BY <1>2, <1>3

LEMMA ModeratorAgrees ==
  ASSUME SnapshotConflicts, Invariant, MarketInvariant, NEW c \in Moderators, ApproveCommit(c) \/ RejectCommit(c)
  PROVE  MarketInvariant'
<1> USE Disjoint
<1>1. TypeOK /\ c \in Users /\ c \in Sessions /\ snap(c) \in Database /\ sess[c].open
  BY SessionTypes DEF Invariant, Local, ApproveCommit, RejectCommit
<1>2. req[c].v \in Versions
  BY <1>1, SplitType DEF ApproveCommit, RejectCommit, ReqType
<1>3. PICK v \in Versions, d \in Database : v = req[c].v /\ d = LockedView(c, v)
  BY <1>1, <1>2, SessionTypes
<1>4. /\ d.review = snap(c).review /\ d.asset = snap(c).asset
      /\ \A u \in Versions : d.version[u] \in {snap(c).version[u], version[u]}
  BY <1>1, <1>3 DEF LockedView, Database
<1>5. CASE ApproveCommit(c)
  <2>1. PICK n \in Database : n = ApproveRows(d, v) /\ Commit(c, d, n, {AssetKey, VersionKey(v)})
    BY <1>1, <1>3, <1>5, ApproveRowsType, SplitType DEF ApproveCommit
  <2>2. Recomputed(n.asset, n.version)
    BY <2>1, Recomputes
  <2>3. {AssetKey, VersionKey(v)} \in SUBSET Keys
    BY TouchedTypes
  <2> QED
    BY <1>1, <1>4, <2>1, <2>2, <2>3, CommitAgrees
<1>6. CASE RejectCommit(c)
  <2>1. PICK n \in Database : n = RejectRows(d, v) /\ Commit(c, d, n, {VersionKey(v)})
    BY <1>1, <1>3, <1>6, RejectRowsType DEF RejectCommit
  <2>2. Recomputed(n.asset, n.version)
    BY <2>1, Recomputes
  <2>3. {VersionKey(v)} \in SUBSET Keys /\ AssetKey \notin {VersionKey(v)}
    BY TouchedTypes, KeysDiffer
  <2>4. ~Shown(version[v]) /\ ~Shown(n.version[v])
    <3>1. version[v].pr # "publish_success"
      BY <1>3, <1>6 DEF RejectCommit, Rejectable
    <3>2. n.version[v].pr = "publish_failed"
      BY <1>3, <2>1 DEF RejectRows, Database, VersionRow
    <3> QED
      BY <3>1, <3>2 DEF Shown
  <2>5. \A u \in Versions : n.version[u] = d.version[u] \/ (~Shown(version[u]) /\ ~Shown(n.version[u]))
    BY <2>1, <2>4, OtherRows DEF Same
  <2> QED
    BY <1>1, <1>4, <2>1, <2>2, <2>3, <2>5, CommitAgrees
<1> QED
  BY <1>5, <1>6

LEMMA ThreadAgrees ==
  ASSUME SnapshotConflicts, Invariant, MarketInvariant, Orderly, NEW t \in Threads,
         \/ WriteVerdict(t)
         \/ MarkRunning(t) /\ task'[t].pc = "run"
         \/ WriteFailed(t)
  PROVE  MarketInvariant'
<1> USE Disjoint
<1>1. /\ TypeOK /\ t \in Sessions /\ snap(t) \in Database /\ sess[t].open /\ t[2] \in Versions
      /\ task \in [Threads -> Task]
  BY SessionTypes, SplitType DEF Invariant, Local, WriteVerdict, MarkRunning, WriteFailed, Threads
<1>2. PICK v \in Versions, d \in Database : v = t[2] /\ d = snap(t)
  BY <1>1
<1>3. {ReviewKey(v)} \in SUBSET Keys /\ AssetKey \notin {ReviewKey(v)}
  BY TouchedTypes, KeysDiffer
<1>4. CASE WriteVerdict(t)
  <2> DEFINE passed == task[t].got \in Compliant
  <2>1. passed \in BOOLEAN /\ task[t].sha \in Artifacts \cup {None} /\ Verdict(t) = VerdictRows(d, v, passed, task[t].sha)
    BY <1>1, <1>2 DEF Verdict, Task
  <2> HIDE DEF passed
  <2>2. PICK n \in Database : n = VerdictRows(d, v, passed, task[t].sha) /\ Commit(t, d, n, {ReviewKey(v)})
    BY <1>2, <1>4, <2>1, VerdictRowsType DEF WriteVerdict
  <2>3. Recomputed(n.asset, n.version)
    BY <2>2, Recomputes
  <2>4. ~Shown(version[v]) /\ ~Shown(n.version[v])
    <3>1. version[v].pr = "reviewing"
      BY <1>2, <1>4 DEF Orderly, UnderReview
    <3>2. n.version[v].pr \in {"pending_moderation", "publish_failed"}
      BY <1>2, <2>2 DEF VerdictRows, Database, VersionRow
    <3> QED
      BY <3>1, <3>2 DEF Shown
  <2>5. \A u \in Versions : n.version[u] = d.version[u] \/ (~Shown(version[u]) /\ ~Shown(n.version[u]))
    BY <2>2, <2>4, OtherRows DEF Same
  <2> QED
    BY <1>1, <1>2, <1>3, <2>2, <2>3, <2>5, CommitAgrees
<1>5. CASE MarkRunning(t) /\ task'[t].pc = "run"
  <2>1. Commit(t, d, RunningRows(d, v), {ReviewKey(v)})
    BY <1>1, <1>2, <1>5 DEF MarkRunning, Task
  <2>2. PICK n \in Database : n = RunningRows(d, v) /\ Commit(t, d, n, {ReviewKey(v)})
    BY <2>1, RunningRowsType
  <2>3. n.asset = d.asset /\ n.version = d.version
    BY <2>2 DEF RunningRows, Database
  <2> QED
    BY <1>1, <1>2, <1>3, <2>2, <2>3, CommitAgrees
<1>6. CASE Commit(t, d, FailedRows(d, v), FailedWrites(t)) /\ WriteFailed(t)
  <2>1. PICK n \in Database : n = FailedRows(d, v) /\ Commit(t, d, n, FailedWrites(t))
    BY <1>6, FailedRowsType
  <2>2. n.asset = d.asset \/ Recomputed(n.asset, n.version)
    BY <2>1, Recomputes
  <2>3. FailedWrites(t) \in SUBSET Keys /\ AssetKey \notin FailedWrites(t)
    BY <1>2, <1>3 DEF FailedWrites
  <2>4. n.version[v] = d.version[v] \/ (~Shown(version[v]) /\ ~Shown(n.version[v]))
    <3>1. version[v].pr = "reviewing"
      BY <1>2, <1>6 DEF Orderly, UnderReview
    <3>2. n.version[v] = d.version[v] \/ n.version[v].pr = "publish_failed"
      BY <1>2, <2>1 DEF FailedRows, Database, VersionRow
    <3> QED
      BY <3>1, <3>2 DEF Shown
  <2>5. \A u \in Versions : n.version[u] = d.version[u] \/ (~Shown(version[u]) /\ ~Shown(n.version[u]))
    BY <2>1, <2>4, OtherRows DEF Same
  <2> QED
    BY <1>1, <1>2, <2>1, <2>2, <2>3, <2>5, CommitAgrees
<1>7. CASE UNCHANGED tables /\ CloseSession(t)
  <2>1. \A x \in Sessions : sess'[x] = sess[x] \/ ~sess'[x].open
    BY <1>1, <1>7 DEF CloseSession, Closed, TypeOK
  <2> QED
    BY <1>1, <1>7, <2>1, QuietAgrees
<1> QED
  BY <1>2, <1>4, <1>5, <1>6, <1>7 DEF WriteFailed

\* The steps that commit nothing.
LEMMA QuietSteps ==
  ASSUME Invariant, [Next]_vars
  PROVE  \/ \E c \in Publishers : PublishCommit(c) \/ RestartCommit(c) \/ DeleteFinish(c)
         \/ \E c \in Moderators : ApproveCommit(c) \/ RejectCommit(c)
         \/ \E t \in Threads : WriteVerdict(t) \/ (MarkRunning(t) /\ task'[t].pc = "run") \/ WriteFailed(t)
         \/ /\ UNCHANGED tables
            /\ \A x \in Sessions : sess'[x] = sess[x] \/ ~sess'[x].open \/ sess'[x].snap = Current
<1> USE Disjoint
<1>1. sess \in [Sessions -> Session] /\ task \in [Threads -> Task]
  BY SplitType DEF Invariant
<1> DEFINE Quiet == /\ UNCHANGED tables
                    /\ \A x \in Sessions : sess'[x] = sess[x] \/ ~sess'[x].open \/ sess'[x].snap = Current
<1>2. ASSUME UNCHANGED tables, NEW s \in Sessions, OpenSession(s) \/ CloseSession(s) \/ UNCHANGED sess
      PROVE  Quiet
  BY <1>1, <1>2 DEF OpenSession, CloseSession, Closed
<1>3. CASE UNCHANGED vars \/ Restart
  <2>1. UNCHANGED tables
    BY <1>3 DEF vars, tables, Restart
  <2>2. UNCHANGED sess \/ \A x \in Sessions : ~sess'[x].open
    BY <1>3 DEF vars, Restart, Closed
  <2> QED
    BY <2>1, <2>2
<1>4. CASE Arrive
  <2>1. PICK c \in Users : OpenSession(c) \/ UNCHANGED sess
    BY <1>4 DEF Arrive, PublishAgain, PublishBegin, ApproveBegin, RejectBegin, DeleteBegin
  <2>2. UNCHANGED tables
    BY <1>4 DEF Arrive, PublishAgain, PublishBegin, ApproveBegin, RejectBegin, DeleteBegin
  <2> QED
    BY <1>2, <2>1, <2>2
<1>5. ASSUME NEW c \in Publishers, Serve(c) PROVE Quiet \/ PublishCommit(c) \/ RestartCommit(c) \/ DeleteFinish(c)
  <2>1. \/ PublishCommit(c) \/ RestartCommit(c) \/ DeleteFinish(c)
        \/ UNCHANGED tables /\ (CloseSession(c) \/ UNCHANGED sess)
    BY <1>5 DEF Serve, PublishUpload, PublishUploadFails, PublishRefused, ChangelogFails, Respond, DeletePurge,
                DeletePurgeFails
  <2> QED
    BY <1>2, <2>1
<1>6. ASSUME NEW c \in Moderators, Moderate(c) PROVE Quiet \/ ApproveCommit(c) \/ RejectCommit(c)
  <2>1. ApproveCommit(c) \/ RejectCommit(c) \/ (UNCHANGED tables /\ CloseSession(c))
    BY <1>6 DEF Moderate, ApproveRefused, RejectRefused
  <2> QED
    BY <1>2, <2>1
<1>7. ASSUME NEW t \in Threads, Review(t)
      PROVE  Quiet \/ WriteVerdict(t) \/ (MarkRunning(t) /\ task'[t].pc = "run") \/ WriteFailed(t)
  <2>1. MarkRunning(t) => task'[t].pc = "run" \/ (UNCHANGED tables /\ CloseSession(t))
    BY <1>1 DEF MarkRunning, Task
  <2>2. \/ MarkRunning(t) \/ WriteVerdict(t) \/ WriteFailed(t)
        \/ UNCHANGED tables /\ (OpenSession(t) \/ CloseSession(t) \/ UNCHANGED sess)
    BY <1>7 DEF Review, ClaimReview, SkipReview, LoadReviewTarget, RunReview, RunReviewFails, Reload,
                WriteVerdictFails, LoadFailed, ReleaseReview
  <2> QED
    BY <1>2, <2>1, <2>2
<1> HIDE DEF Quiet
<1>8. Quiet \/ (\E c \in Publishers : PublishCommit(c) \/ RestartCommit(c) \/ DeleteFinish(c))
            \/ (\E c \in Moderators : ApproveCommit(c) \/ RejectCommit(c))
            \/ (\E t \in Threads : WriteVerdict(t) \/ (MarkRunning(t) /\ task'[t].pc = "run") \/ WriteFailed(t))
  <2>1. CASE UNCHANGED vars \/ Restart \/ Arrive
    BY <1>3, <1>4, <2>1 DEF Quiet
  <2> QED
    BY <1>5, <1>6, <1>7, <2>1 DEF Next, Quiet
<1> QED
  BY <1>8 DEF Quiet

LEMMA NextAgrees ==
  ASSUME SnapshotConflicts, Invariant, Orderly, MarketInvariant, [Next]_vars
  PROVE  MarketInvariant'
<1>1. TypeOK
  BY DEF Invariant
<1>2. CASE /\ UNCHANGED tables
           /\ \A x \in Sessions : sess'[x] = sess[x] \/ ~sess'[x].open \/ sess'[x].snap = Current
  BY <1>1, <1>2, QuietAgrees
<1>3. \A c \in Publishers : ~RestartCommit(c)
  BY DEF Orderly
<1> QED
  BY <1>2, <1>3, PublisherAgrees, ModeratorAgrees, ThreadAgrees, QuietSteps

\* The market's "latest" (public_latest_version, which the ACL and the download of
\* "latest" rely on) is the newest published version: with the system review off whatever
\* publishers and moderators do at the same time, overwrites and deletions included, and
\* with it on where each version is published once.  A review that decides a published
\* version again would break it: it may leave the asset's row alone while a deletion
\* changes it.
THEOREM LatestIsNewest ==
  ASSUME SnapshotConflicts, ~ReviewEnabled \/ Once PROVE Spec => []PublicLatestIsNewest
<1>1. Init => MarketInvariant
  BY DEF Init, NoAsset, Closed, MarketInvariant, Recomputed, Follows
<1>2. MarketInvariant => PublicLatestIsNewest
  BY DEF MarketInvariant, Recomputed, PublicLatestIsNewest
<1>3. CASE ~ReviewEnabled
  <2>1. UnreviewedInvariant => Orderly
    BY DEF UnreviewedInvariant, Unasked, Overwriting, Orderly, WriteVerdict, WriteFailed, RestartCommit
  <2>2. Invariant /\ UnreviewedInvariant /\ MarketInvariant /\ [Next]_vars => MarketInvariant'
    BY <2>1, NextAgrees
  <2> QED
    BY <1>1, <1>2, <1>3, <2>2, Isolated, UnreviewedHolds, PTL DEF Spec
<1>4. CASE Once
  <2>1. OnceInvariant => Orderly
    BY OnceDecides DEF Orderly
  <2>2. Invariant /\ OnceInvariant /\ MarketInvariant /\ [Next]_vars => MarketInvariant'
    BY <2>1, NextAgrees
  <2>3. OnceInvariant /\ [Next]_vars => OnceInvariant'
    BY <1>4, NextOnce
  <2> QED
    BY <1>1, <1>2, <2>2, <2>3, InitOnce, Isolated, PTL DEF Spec
<1> QED
  BY <1>3, <1>4

=============================================================================
