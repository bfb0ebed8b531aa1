------------------------ MODULE SkillPublishUnforced ------------------------
(***************************************************************************)
(* What holds on either database as long as publishers never force an      *)
(* overwrite: the stored package is the recorded one, nothing the engine   *)
(* turned down reaches moderators or the market, and a version that is     *)
(* reviewed once lives the life VersionLifecycle describes.  Commits are   *)
(* merged column by column here, over whatever the row holds by then: the  *)
(* first part says what each of them leaves in the versions' rows.         *)
(***************************************************************************)
EXTENDS SkillPublishIsolation

Only(v) == \A u \in Versions \ {v} : version'[u] = version[u]

\* A commit leaves alone the rows its service left alone; a row it writes still has the
\* primary key it was loaded with.
LEMMA CommitMerges ==
  ASSUME TypeOK, NEW s \in Sessions, NEW l \in Database, NEW n \in Database, NEW touched,
         Commit(s, l, n, touched), NEW u \in Versions
  PROVE  /\ version'[u] = MergeVersion(l.version[u], n.version[u], version[u])
         /\ n.version[u] = l.version[u] => version'[u] = version[u]
         /\ VersionKey(u) \in touched \/ ReviewKey(u) \in touched \/ n.version[u] # l.version[u]
              => version[u].id = l.version[u].id
<1>1. version'[u] = MergeVersion(l.version[u], n.version[u], version[u])
  BY DEF Commit
<1>2. version[u] \in VersionRow /\ l.version[u] \in VersionRow
  BY DEF TypeOK, Current, Database
<1>3. n.version[u] = l.version[u] => version'[u] = version[u]
  BY <1>1, <1>2, MergeFresh
<1>4. VersionKey(u) \in touched \/ ReviewKey(u) \in touched \/ n.version[u] # l.version[u]
        => version[u].id = l.version[u].id
  BY WrittenKeys DEF Commit, CanCommit, RowsMatch
<1> QED
  BY <1>1, <1>3, <1>4

\* A commit of a service that only decides version v: of its row the merge may set the
\* two decision columns, to members of M and R.
Decides(v, M, R) ==
  /\ v \in Versions /\ Only(v)
  /\ version'[v].id = version[v].id /\ version'[v].sha = version[v].sha /\ version'[v].ct = version[v].ct
  /\ version'[v].ms \in M /\ version'[v].pr \in R

LEMMA MergeDecision ==
  ASSUME NEW l \in VersionRow, NEW n \in VersionRow, NEW c \in VersionRow,
         n.id = l.id, n.sha = l.sha, n.ct = l.ct
  PROVE  LET row == MergeVersion(l, n, c)
         IN /\ row.id = c.id /\ row.sha = c.sha /\ row.ct = c.ct
            /\ n.ms = l.ms => row.ms = c.ms
            /\ n.pr = l.pr => row.pr = c.pr
            /\ row.ms \in {c.ms, n.ms} /\ row.pr \in {c.pr, n.pr}
BY DEF MergeVersion, Column

LEMMA PublishEffect ==
  ASSUME TypeOK, NEW c \in Publishers, PublishCommit(c)
  PROVE  LET v == req[c].v
             loaded == snap(c).version[v]
         IN /\ v \in Versions
            /\ version[v].id = loaded.id
            /\ version'[v] = MergeVersion(loaded, PublishedRow(loaded, req[c].art, clock + 1), version[v])
            /\ Only(v)
<1> USE Disjoint
<1>1. c \in Users /\ c \in Sessions /\ snap(c) \in Database
  BY SessionTypes
<1>2. req[c].v \in Versions /\ req[c].art \in Artifacts \cup {None} /\ clock' \in Nat
  BY <1>1, SplitType DEF PublishCommit, ReqType, Request
<1>3. PICK v \in Versions, d \in Database, n \in Database :
        /\ v = req[c].v /\ d = snap(c) /\ n = PublishRows(d, v, req[c].art, clock')
        /\ Commit(c, d, n, PublishWrites(v))
  BY <1>1, <1>2, PublishRowsType DEF PublishCommit
<1>4. n.version[v] = PublishedRow(d.version[v], req[c].art, clock + 1)
  BY <1>3 DEF PublishRows, Database, PublishCommit
<1>5. VersionKey(v) \in PublishWrites(v)
  BY DEF PublishWrites
<1>6. version[v].id = d.version[v].id /\ version'[v] = MergeVersion(d.version[v], n.version[v], version[v])
  BY <1>1, <1>3, <1>5, CommitMerges
<1>7. Only(v)
  BY <1>1, <1>3, OtherRows, CommitMerges DEF Only, Same
<1> QED
  BY <1>3, <1>4, <1>6, <1>7

LEMMA RestartEffect ==
  ASSUME TypeOK, NEW c \in Publishers, RestartCommit(c)
  PROVE  LET v == req[c].v
         IN Decides(v, {version[v].ms, "PENDING"}, {version[v].pr, "reviewing"})
<1> USE Disjoint
<1>1. c \in Users /\ c \in Sessions /\ snap(c) \in Database
  BY SessionTypes
<1>2. req[c].v \in Versions
  BY <1>1, SplitType DEF RestartCommit, ReqType
<1>3. PICK v \in Versions, d \in Database, n \in Database :
        v = req[c].v /\ d = snap(c) /\ n = RestartRows(d, v) /\ Commit(c, d, n, {ReviewKey(v)})
  BY <1>1, <1>2, RestartRowsType DEF RestartCommit
<1>4. LET row == n.version[v]
          old == d.version[v]
      IN row.id = old.id /\ row.sha = old.sha /\ row.ct = old.ct /\ row.pr = "reviewing" /\ row.ms = "PENDING"
  BY <1>3 DEF RestartRows, Database, VersionRow
<1>5. version'[v] = MergeVersion(d.version[v], n.version[v], version[v])
  BY <1>1, <1>3, CommitMerges
<1>6. Only(v)
  BY <1>1, <1>3, OtherRows, CommitMerges DEF Only, Same
<1>7. d.version[v] \in VersionRow /\ n.version[v] \in VersionRow /\ version[v] \in VersionRow
  BY DEF TypeOK, Current, Database
<1> QED
  BY <1>3, <1>4, <1>5, <1>6, <1>7, MergeDecision DEF Decides

LEMMA ApproveEffect ==
  ASSUME TypeOK, NEW c \in Moderators, ApproveCommit(c)
  PROVE  LET v == req[c].v
         IN /\ SameCandidate(version[v], snap(c).version[v])
            /\ Decides(v, {"APPROVED"}, {"publish_success"})
<1> USE Disjoint
<1>1. c \in Users /\ c \in Sessions
  OBVIOUS
<1>2. req[c].v \in Versions
  BY <1>1, SplitType DEF ApproveCommit, ReqType
<1>3. PICK v \in Versions, d \in Database, n \in Database :
        /\ v = req[c].v /\ d = LockedView(c, v) /\ n = ApproveRows(d, v)
        /\ Commit(c, d, n, {AssetKey, VersionKey(v)})
        /\ SameCandidate(version[v], snap(c).version[v])
  BY <1>1, <1>2, SessionTypes, ApproveRowsType, SplitType DEF ApproveCommit
<1>4. d.version[v] = version[v] /\ version[v] \in VersionRow
  BY <1>1, <1>3, SessionTypes DEF LockedView, TypeOK, Current, Database
<1>5. n.version[v] = [version[v] EXCEPT !.ms = "APPROVED", !.pr = "publish_success"] /\ n.version[v] \in VersionRow
  BY <1>3, <1>4 DEF ApproveRows, Database
<1>6. version'[v] = n.version[v]
  BY <1>1, <1>3, <1>4, <1>5, CommitMerges, MergeFresh
<1>7. Only(v)
  BY <1>1, <1>3, OtherRows, CommitMerges DEF Only, Same
<1> QED
  BY <1>3, <1>4, <1>5, <1>6, <1>7 DEF Decides, VersionRow

LEMMA RejectEffect ==
  ASSUME TypeOK, NEW c \in Moderators, RejectCommit(c)
  PROVE  LET v == req[c].v
         IN /\ Rejectable(version[v])
            /\ Decides(v, {"REJECTED"}, {"publish_failed"})
<1> USE Disjoint
<1>1. c \in Users /\ c \in Sessions
  OBVIOUS
<1>2. req[c].v \in Versions
  BY <1>1, SplitType DEF RejectCommit, ReqType
<1>3. PICK v \in Versions, d \in Database, n \in Database :
        /\ v = req[c].v /\ d = LockedView(c, v) /\ n = RejectRows(d, v)
        /\ Commit(c, d, n, {VersionKey(v)})
        /\ Rejectable(version[v])
  BY <1>1, <1>2, SessionTypes, RejectRowsType DEF RejectCommit
<1>4. d.version[v] = version[v] /\ version[v] \in VersionRow
  BY <1>1, <1>3, SessionTypes DEF LockedView, TypeOK, Current, Database
<1>5. n.version[v] = [version[v] EXCEPT !.ms = "REJECTED", !.pr = "publish_failed"] /\ n.version[v] \in VersionRow
  BY <1>3, <1>4 DEF RejectRows, Database
<1>6. version'[v] = n.version[v]
  BY <1>1, <1>3, <1>4, <1>5, CommitMerges, MergeFresh
<1>7. Only(v)
  BY <1>1, <1>3, OtherRows, CommitMerges DEF Only, Same
<1> QED
  BY <1>3, <1>4, <1>5, <1>6, <1>7 DEF Decides, VersionRow

LEMMA DeleteEffect ==
  ASSUME TypeOK, NEW c \in Publishers, DeleteFinish(c)
  PROVE  LET D == req[c].doomed
         IN /\ D \subseteq Versions
            /\ \A u \in D : /\ version[u].id = snap(c).version[u].id
                            /\ version'[u] = MergeVersion(snap(c).version[u], NoVersion, version[u])
            /\ \A u \in Versions \ D : version'[u] = version[u]
<1> USE Disjoint
<1>1. c \in Users /\ c \in Sessions /\ snap(c) \in Database
  BY SessionTypes
<1>2. req[c].doomed \in SUBSET Versions
  BY <1>1, SplitType DEF ReqType, Request
<1>3. PICK D \in SUBSET Versions, d \in Database, n \in Database :
        D = req[c].doomed /\ d = snap(c) /\ n = DeleteRows(d, D) /\ Commit(c, d, n, RowsOf(D))
  BY <1>1, <1>2, DeleteRowsType DEF DeleteFinish
<1>4. ASSUME NEW u \in D PROVE version[u].id = d.version[u].id /\ version'[u] = MergeVersion(d.version[u], NoVersion, version[u])
  <2>1. n.version[u] = NoVersion
    BY <1>3 DEF DeleteRows
  <2>2. VersionKey(u) \in RowsOf(D)
    BY DEF RowsOf
  <2> QED
    BY <1>1, <1>3, <2>1, <2>2, CommitMerges
<1>5. ASSUME NEW u \in Versions \ D PROVE version'[u] = version[u]
  <2>1. n.version[u] = d.version[u]
    BY <1>3 DEF DeleteRows
  <2> QED
    BY <1>1, <1>3, <2>1, CommitMerges
<1> QED
  BY <1>3, <1>4, <1>5

LEMMA VerdictEffect ==
  ASSUME TypeOK, NEW t \in Threads, WriteVerdict(t)
  PROVE  LET r == IF task[t].got \in Compliant THEN "pending_moderation" ELSE "publish_failed"
         IN Decides(t[2], {version[t[2]].ms}, {version[t[2]].pr, r})
<1> USE Disjoint
<1> DEFINE passed == task[t].got \in Compliant
           r == IF passed THEN "pending_moderation" ELSE "publish_failed"
<1>1. t \in Sessions /\ snap(t) \in Database /\ t[2] \in Versions /\ task[t].sha \in Artifacts \cup {None}
  BY DEF TypeOK, Session, snap, Threads, Task
<1>2. Verdict(t) = VerdictRows(snap(t), t[2], passed, task[t].sha)
  BY DEF Verdict
<1>3. PICK v \in Versions, d \in Database, n \in Database :
        /\ v = t[2] /\ d = snap(t) /\ n = VerdictRows(d, v, passed, task[t].sha)
        /\ Commit(t, d, n, {ReviewKey(v)})
  <2>1. passed \in BOOLEAN
    OBVIOUS
  <2>2. VerdictRows(snap(t), t[2], passed, task[t].sha) \in Database
    BY <1>1, <2>1, VerdictRowsType
  <2> HIDE DEF passed
  <2> QED
    BY <1>1, <1>2, <2>2 DEF WriteVerdict
<1>4. LET row == n.version[v]
          old == d.version[v]
      IN row.id = old.id /\ row.sha = old.sha /\ row.ct = old.ct /\ row.pr = r /\ row.ms = old.ms
  BY <1>3 DEF VerdictRows, Database, VersionRow
<1>5. version'[v] = MergeVersion(d.version[v], n.version[v], version[v])
  BY <1>1, <1>3, CommitMerges
<1>6. Only(v)
  BY <1>1, <1>3, OtherRows, CommitMerges DEF Only, Same
<1>7. d.version[v] \in VersionRow /\ n.version[v] \in VersionRow /\ version[v] \in VersionRow
  BY DEF TypeOK, Current, Database
<1> QED
  BY <1>3, <1>4, <1>5, <1>6, <1>7, MergeDecision DEF Decides

LEMMA FailedEffect ==
  ASSUME TypeOK, NEW t \in Threads, WriteFailed(t)
  PROVE  Decides(t[2], {version[t[2]].ms}, {version[t[2]].pr, "publish_failed"})
<1> USE Disjoint
<1>1. t \in Sessions /\ snap(t) \in Database /\ t[2] \in Versions
  BY DEF TypeOK, Session, snap, Threads
<1>2. CASE UNCHANGED tables
  BY <1>1, <1>2 DEF tables, Only, Decides
<1>3. CASE Commit(t, snap(t), FailedRows(snap(t), t[2]), FailedWrites(t))
  <2>1. PICK v \in Versions, d \in Database, n \in Database :
          v = t[2] /\ d = snap(t) /\ n = FailedRows(d, v) /\ Commit(t, d, n, FailedWrites(t))
    BY <1>1, <1>3, FailedRowsType
  <2>2. LET row == n.version[v]
            old == d.version[v]
        IN /\ row.id = old.id /\ row.sha = old.sha /\ row.ct = old.ct /\ row.ms = old.ms
           /\ row.pr \in {old.pr, "publish_failed"}
    BY <2>1 DEF FailedRows, Database, VersionRow
  <2>3. version'[v] = MergeVersion(d.version[v], n.version[v], version[v])
    BY <1>1, <2>1, CommitMerges
  <2>4. Only(v)
    BY <1>1, <2>1, OtherRows, CommitMerges DEF Only, Same
  <2>5. d.version[v] \in VersionRow /\ n.version[v] \in VersionRow /\ version[v] \in VersionRow
    BY DEF TypeOK, Current, Database
  <2> QED
    BY <2>1, <2>2, <2>3, <2>4, <2>5, MergeDecision DEF Decides
<1> QED
  BY <1>2, <1>3 DEF WriteFailed

LEMMA RunningEffect ==
  ASSUME TypeOK, NEW t \in Threads, MarkRunning(t)
  PROVE  UNCHANGED version
<1> USE Disjoint
<1>1. t \in Sessions /\ snap(t) \in Database /\ t[2] \in Versions /\ version \in [Versions -> VersionRow]
  BY DEF TypeOK, Session, snap, Threads, Current, Database
<1>2. CASE UNCHANGED tables
  BY <1>2 DEF tables
<1>3. CASE Commit(t, snap(t), RunningRows(snap(t), t[2]), {ReviewKey(t[2])})
  <2>1. PICK d \in Database, n \in Database :
          d = snap(t) /\ n = RunningRows(d, t[2]) /\ Commit(t, d, n, {ReviewKey(t[2])})
    BY <1>1, <1>3, RunningRowsType
  <2>2. n.version = d.version
    BY <2>1 DEF RunningRows, Database
  <2>3. \A u \in Versions : version'[u] = version[u]
    BY <1>1, <2>1, <2>2, CommitMerges
  <2>4. version' = [u \in Versions |-> version'[u]]
    BY <2>1 DEF Commit
  <2> QED
    BY <1>1, <2>3, <2>4
<1> QED
  BY <1>2, <1>3 DEF MarkRunning

-----------------------------------------------------------------------------
(* What a step may do to the versions' rows, to the snapshots, to the object *)
(* store and to a publisher's request: the proofs below cite these instead   *)
(* of every action.                                                          *)

LEMMA VersionSteps ==
  ASSUME TypeOK, [Next]_vars
  PROVE  \/ UNCHANGED version
         \/ \E c \in Publishers : PublishCommit(c) \/ RestartCommit(c) \/ DeleteFinish(c)
         \/ \E c \in Moderators : ApproveCommit(c) \/ RejectCommit(c)
         \/ \E t \in Threads : WriteVerdict(t) \/ WriteFailed(t)
<1>1. CASE UNCHANGED vars \/ Restart \/ Arrive
  BY <1>1 DEF vars, tables, Restart, Arrive, PublishAgain, PublishBegin, ApproveBegin, RejectBegin, DeleteBegin
<1>2. ASSUME NEW c \in Publishers, Serve(c)
      PROVE  UNCHANGED version \/ PublishCommit(c) \/ RestartCommit(c) \/ DeleteFinish(c)
  BY <1>2 DEF Serve, PublishUpload, PublishUploadFails, PublishRefused, ChangelogFails, Respond, DeletePurge,
              DeletePurgeFails, tables
<1>3. ASSUME NEW c \in Moderators, Moderate(c)
      PROVE  UNCHANGED version \/ ApproveCommit(c) \/ RejectCommit(c)
  BY <1>3 DEF Moderate, ApproveRefused, RejectRefused, tables
<1>4. ASSUME NEW t \in Threads, Review(t)
      PROVE  UNCHANGED version \/ WriteVerdict(t) \/ WriteFailed(t)
  BY <1>4, RunningEffect
     DEF Review, ClaimReview, SkipReview, LoadReviewTarget, RunReview, RunReviewFails, Reload,
         WriteVerdictFails, LoadFailed, ReleaseReview, tables
<1> QED
  BY <1>1, <1>2, <1>3, <1>4 DEF Next

LEMMA SessionMoves ==
  ASSUME TypeOK, NEW x \in Sessions,
         OpenSession(x) \/ CloseSession(x) \/ (\E W : CommitSession(x, W)) \/ UNCHANGED sess,
         NEW s \in Sessions
  PROVE  /\ sess'[s].snap \in {sess[s].snap, Current, Closed.snap}
         /\ s # x => sess'[s].snap = sess[s].snap
<1>1. sess[s] \in Session
  BY DEF TypeOK
<1> QED
  BY <1>1 DEF OpenSession, CloseSession, CommitSession, TypeOK, Session

\* A snapshot is of the rows as they were when it was taken, and a request that is not
\* at a turn keeps its own.
LEMMA SessionSteps ==
  ASSUME TypeOK, [Next]_vars, NEW s \in Sessions
  PROVE  /\ sess'[s].snap \in {sess[s].snap, Current, Closed.snap}
         /\ s \in Users /\ req[s].step # "idle" /\ req'[s] = req[s] => sess'[s].snap = sess[s].snap
<1> USE Disjoint
<1>1. req \in [Users -> Request]
  BY SplitType DEF ReqType
<1>2. ASSUME NEW x \in Sessions,
             OpenSession(x) \/ CloseSession(x) \/ (\E W : CommitSession(x, W)) \/ UNCHANGED sess,
             x \in Users => UNCHANGED sess \/ req[x].step = "idle" \/ req'[x].step # req[x].step
      PROVE  /\ sess'[s].snap \in {sess[s].snap, Current, Closed.snap}
             /\ s \in Users /\ req[s].step # "idle" /\ req'[s] = req[s] => sess'[s].snap = sess[s].snap
  BY <1>2, SessionMoves
<1>3. CASE UNCHANGED vars
  BY <1>3 DEF vars
<1>4. CASE Restart
  <2>1. sess'[s] = Closed /\ (s \in Users => req'[s].step = "idle")
    BY <1>4 DEF Restart, Users, Idle
  <2> QED
    BY <2>1
<1>5. CASE Arrive
  <2>1. PICK c \in Users : (OpenSession(c) \/ UNCHANGED sess) /\ req[c].step = "idle"
    BY <1>5 DEF Arrive, PublishAgain, PublishBegin, ApproveBegin, RejectBegin, DeleteBegin
  <2> QED
    BY <1>2, <2>1
<1>6. ASSUME NEW c \in Publishers, Serve(c)
      PROVE  /\ (\E W : CommitSession(c, W)) \/ CloseSession(c) \/ UNCHANGED sess
             /\ UNCHANGED sess \/ req'[c].step # req[c].step
  <2>1. CASE PublishUpload(c) \/ ChangelogFails(c) \/ Respond(c) \/ DeletePurge(c)
    BY <2>1 DEF PublishUpload, ChangelogFails, Respond, DeletePurge
  <2>2. CASE PublishUploadFails(c) \/ PublishRefused(c) \/ DeletePurgeFails(c) \/ DeleteFinish(c)
    BY <1>1, <2>2 DEF PublishUploadFails, PublishRefused, DeletePurgeFails, DeleteFinish, End, Idle, Commit
  <2>3. CASE PublishCommit(c) \/ RestartCommit(c)
    BY <1>1, <2>3 DEF PublishCommit, RestartCommit, Commit, Request
  <2> QED
    BY <1>6, <2>1, <2>2, <2>3 DEF Serve
<1>7. ASSUME NEW c \in Moderators, Moderate(c)
      PROVE  /\ (\E W : CommitSession(c, W)) \/ CloseSession(c)
             /\ req'[c].step # req[c].step
  BY <1>1, <1>7 DEF Moderate, ApproveCommit, ApproveRefused, RejectCommit, RejectRefused, End, Idle, Commit
<1>8. ASSUME NEW t \in Threads, Review(t)
      PROVE  OpenSession(t) \/ CloseSession(t) \/ (\E W : CommitSession(t, W)) \/ UNCHANGED sess
  BY <1>8 DEF Review, ClaimReview, SkipReview, LoadReviewTarget, MarkRunning, RunReview, RunReviewFails, Reload,
              WriteVerdict, WriteVerdictFails, LoadFailed, WriteFailed, ReleaseReview, Commit
<1> QED
  BY <1>2, <1>3, <1>4, <1>5, <1>6, <1>7, <1>8 DEF Next

LEMMA StoreSteps ==
  ASSUME TypeOK, [Next]_vars, NEW v \in Versions
  PROVE  \/ store'[v] = store[v]
         \/ \E c \in Publishers : PublishUpload(c) /\ req[c].v = v /\ store'[v] = req[c].art
         \/ \E c \in Publishers : req[c].step = "purge" /\ req'[c] # req[c] /\ store'[v] = None
<1>1. ASSUME NEW c \in Publishers, Serve(c)
      PROVE  \/ store'[v] = store[v]
             \/ PublishUpload(c) /\ req[c].v = v /\ store'[v] = req[c].art
             \/ req[c].step = "purge" /\ req'[c] # req[c] /\ store'[v] = None
  <2>1. req \in [Users -> Request] /\ c \in Users /\ store \in [Versions -> Artifacts \cup {None}]
    BY SplitType, Disjoint DEF ReqType
  <2>2. CASE PublishUpload(c)
    BY <2>1, <2>2 DEF PublishUpload
  <2>3. CASE DeletePurge(c) \/ DeletePurgeFails(c)
    <3>1. req[c].step = "purge" /\ store'[v] \in {store[v], None}
      BY <2>3 DEF DeletePurge, DeletePurgeFails
    <3>2. req'[c].step \in {"finish", "idle"}
      BY <2>1, <2>3 DEF DeletePurge, DeletePurgeFails, End, Idle, Request
    <3> QED
      BY <3>1, <3>2
  <2> QED
    BY <1>1, <2>2, <2>3 DEF Serve, PublishUploadFails, PublishCommit, RestartCommit, PublishRefused, ChangelogFails,
                            Respond, DeleteFinish
<1>2. CASE UNCHANGED store
  BY <1>2
<1>3. Arrive \/ Restart \/ UNCHANGED vars \/ (\E c \in Moderators : Moderate(c)) \/ (\E t \in Threads : Review(t))
        => UNCHANGED store
  BY DEF Arrive, PublishAgain, PublishBegin, ApproveBegin, RejectBegin, DeleteBegin, Restart, vars, Moderate,
         ApproveCommit, ApproveRefused, RejectCommit, RejectRefused, Review, ClaimReview, SkipReview, LoadReviewTarget,
         MarkRunning, RunReview, RunReviewFails, Reload, WriteVerdict, WriteVerdictFails, LoadFailed, WriteFailed,
         ReleaseReview
<1> QED
  BY <1>1, <1>2, <1>3 DEF Next

\* Where a publisher's request can get.
LEMMA PublisherSteps ==
  ASSUME TypeOK, [Next]_vars, NEW c \in Publishers
  PROVE  LET r == req'[c]
         IN \/ r = req[c]
            \/ r = Idle
            \/ \E v \in Versions : PublishAgain(c, v) /\ r.step \in {"restart", "reply"}
            \/ \E v \in Versions, a \in Artifacts :
                 PublishBegin(c, v, a) /\ r.step = "upload" /\ r.v = v /\ r.art = a
            \/ \E D \in SUBSET Versions : DeleteBegin(c, D) /\ r.step = "purge"
            \/ PublishUpload(c) /\ r.step = "commit" /\ r.v = req[c].v /\ r.art = req[c].art
            \/ PublishCommit(c) /\ r.step = "changelog" /\ r.v = req[c].v /\ r.reply = version'[r.v].pr
            \/ RestartCommit(c) /\ r.step = "reply"
            \/ DeletePurge(c) /\ r.step = "finish"
<1> USE Disjoint
<1>1. req \in [Users -> Request] /\ c \in Users
  BY SplitType DEF ReqType
<1>2. CASE UNCHANGED vars \/ Restart \/ (\E t \in Threads : Review(t))
  <2>1. Restart => req'[c] = Idle
    BY <1>1 DEF Restart, Users
  <2>2. UNCHANGED vars \/ (\E t \in Threads : Review(t)) => UNCHANGED req
    BY DEF vars, Review, ClaimReview, SkipReview, LoadReviewTarget, MarkRunning, RunReview, RunReviewFails, Reload,
           WriteVerdict, WriteVerdictFails, LoadFailed, WriteFailed, ReleaseReview
  <2> QED
    BY <1>2, <2>1, <2>2
<1>3. ASSUME NEW x \in Moderators, Moderate(x) PROVE req'[c] = req[c]
  BY <1>1, <1>3 DEF Moderate, ApproveCommit, ApproveRefused, RejectCommit, RejectRefused, End
<1>4. ASSUME NEW x \in Publishers, Serve(x), x # c PROVE req'[c] = req[c]
  BY <1>1, <1>4 DEF Serve, PublishUpload, PublishUploadFails, PublishCommit, RestartCommit, PublishRefused,
                    ChangelogFails, Respond, DeletePurge, DeletePurgeFails, DeleteFinish, End
<1>5. CASE Serve(c)
  <2>1. CASE PublishUpload(c)
    BY <1>1, <2>1 DEF PublishUpload, Request
  <2>2. CASE PublishCommit(c)
    BY <1>1, <2>2 DEF PublishCommit, Request
  <2>3. CASE RestartCommit(c)
    BY <1>1, <2>3 DEF RestartCommit, Request
  <2>4. CASE DeletePurge(c)
    BY <1>1, <2>4 DEF DeletePurge, Request
  <2>5. CASE \/ PublishUploadFails(c) \/ PublishRefused(c) \/ ChangelogFails(c) \/ Respond(c) \/ DeletePurgeFails(c)
             \/ DeleteFinish(c)
    BY <1>1, <2>5 DEF PublishUploadFails, PublishRefused, ChangelogFails, Respond, DeletePurgeFails, DeleteFinish, End
  <2> QED
    BY <1>5, <2>1, <2>2, <2>3, <2>4, <2>5 DEF Serve
<1>6. CASE Arrive
  <2>1. ASSUME NEW x \in Publishers, NEW v \in Versions, PublishAgain(x, v)
        PROVE  req'[c] = req[c] \/ (PublishAgain(c, v) /\ req'[c].step \in {"restart", "reply"})
    <3>1. x # c => req'[c] = req[c]
      BY <1>1, <2>1 DEF PublishAgain
    <3>2. x = c => req'[c].step \in {"restart", "reply"}
      BY <1>1, <2>1 DEF PublishAgain, Idle
    <3> QED
      BY <2>1, <3>1, <3>2
  <2>2. ASSUME NEW x \in Publishers, NEW v \in Versions, NEW a \in Artifacts, PublishBegin(x, v, a)
        PROVE  \/ req'[c] = req[c]
               \/ PublishBegin(c, v, a) /\ req'[c].step = "upload" /\ req'[c].v = v /\ req'[c].art = a
    <3>1. CASE x = c
      <4>1. req' = [req EXCEPT ![c] = [Idle EXCEPT !.step = "upload", !.v = v, !.art = a]]
        BY <2>2, <3>1 DEF PublishBegin
      <4> QED
        BY <1>1, <2>2, <3>1, <4>1 DEF Idle
    <3>2. CASE x # c
      BY <1>1, <2>2, <3>2 DEF PublishBegin
    <3> QED
      BY <3>1, <3>2
  <2>3. ASSUME NEW x \in Moderators, NEW v \in Versions, ApproveBegin(x, v) \/ RejectBegin(x, v)
        PROVE  req'[c] = req[c]
    BY <1>1, <2>3 DEF ApproveBegin, RejectBegin
  <2>4. ASSUME NEW x \in Publishers, NEW D \in SUBSET Versions, DeleteBegin(x, D)
        PROVE  req'[c] = req[c] \/ (DeleteBegin(c, D) /\ req'[c].step = "purge")
    <3>1. x # c => req'[c] = req[c]
      BY <1>1, <2>4 DEF DeleteBegin
    <3>2. x = c => req'[c].step = "purge"
      BY <1>1, <2>4 DEF DeleteBegin, Idle
    <3> QED
      BY <2>4, <3>1, <3>2
  <2> QED
    BY <1>6, <2>1, <2>2, <2>3, <2>4 DEF Arrive
<1> QED
  BY <1>2, <1>3, <1>4, <1>5, <1>6 DEF Next

\* Where a moderator's request can get: an approval starts from rows it has just read.
LEMMA ModeratorSteps ==
  ASSUME TypeOK, [Next]_vars, NEW c \in Moderators
  PROVE  \/ req'[c] = req[c]
         \/ req'[c].step \in {"idle", "reject"}
         \/ \E v \in Versions : /\ ApproveBegin(c, v) /\ req'[c].step = "approve" /\ req'[c].v = v
                               /\ sess'[c].snap = Current
<1> USE Disjoint
<1>1. req \in [Users -> Request] /\ c \in Users /\ sess \in [Sessions -> Session]
  BY SplitType DEF ReqType
<1>2. CASE UNCHANGED vars \/ Restart \/ (\E t \in Threads : Review(t))
  <2>1. Restart => req'[c].step = "idle"
    BY <1>1 DEF Restart, Users, Idle
  <2>2. UNCHANGED vars \/ (\E t \in Threads : Review(t)) => UNCHANGED req
    BY DEF vars, Review, ClaimReview, SkipReview, LoadReviewTarget, MarkRunning, RunReview, RunReviewFails, Reload,
           WriteVerdict, WriteVerdictFails, LoadFailed, WriteFailed, ReleaseReview
  <2> QED
    BY <1>2, <2>1, <2>2
<1>3. ASSUME NEW x \in Publishers, Serve(x) PROVE req'[c] = req[c]
  BY <1>1, <1>3 DEF Serve, PublishUpload, PublishUploadFails, PublishCommit, RestartCommit, PublishRefused,
                    ChangelogFails, Respond, DeletePurge, DeletePurgeFails, DeleteFinish, End
<1>4. ASSUME NEW x \in Moderators, Moderate(x) PROVE req'[c] = req[c] \/ req'[c].step = "idle"
  BY <1>1, <1>4 DEF Moderate, ApproveCommit, ApproveRefused, RejectCommit, RejectRefused, End, Idle
<1>5. CASE Arrive
  <2>1. ASSUME NEW x \in Publishers, NEW v \in Versions, PublishAgain(x, v) \/ (\E a \in Artifacts : PublishBegin(x, v, a))
        PROVE  req'[c] = req[c]
    BY <1>1, <2>1 DEF PublishAgain, PublishBegin
  <2>2. ASSUME NEW x \in Publishers, NEW D \in SUBSET Versions, DeleteBegin(x, D) PROVE req'[c] = req[c]
    BY <1>1, <2>2 DEF DeleteBegin
  <2>3. ASSUME NEW x \in Moderators, NEW v \in Versions, ApproveBegin(x, v) \/ RejectBegin(x, v)
        PROVE  \/ req'[c] = req[c]
               \/ req'[c].step = "reject"
               \/ /\ ApproveBegin(c, v) /\ req'[c].step = "approve" /\ req'[c].v = v
                  /\ sess'[c].snap = Current
    <3>1. CASE x # c
      BY <1>1, <2>3, <3>1 DEF ApproveBegin, RejectBegin
    <3>2. CASE x = c /\ RejectBegin(c, v)
      BY <1>1, <3>2 DEF RejectBegin, Idle
    <3>3. CASE x = c /\ ApproveBegin(c, v)
      <4>1. req' = [req EXCEPT ![c] = [Idle EXCEPT !.step = "approve", !.v = v]] /\ OpenSession(c)
        BY <3>3 DEF ApproveBegin
      <4>2. req'[c].step = "approve" /\ req'[c].v = v
        BY <1>1, <4>1 DEF Idle
      <4>3. sess'[c].snap = Current
        BY <1>1, <4>1 DEF OpenSession
      <4> QED
        BY <3>3, <4>2, <4>3
    <3> QED
      BY <2>3, <3>1, <3>2, <3>3
  <2> QED
    BY <1>5, <2>1, <2>2, <2>3 DEF Arrive
<1> QED
  BY <1>2, <1>3, <1>4, <1>5 DEF Next

\* A thread and the calls for it move by its own steps, by a response, or by a restart.
LEMMA ThreadSteps ==
  ASSUME TypeOK, [Next]_vars, NEW t \in Threads
  PROVE  \/ task'[t] = task[t] /\ calls'[t] = calls[t]
         \/ Restart /\ task'[t] = IdleTask /\ calls'[t] = 0
         \/ Review(t)
         \/ \E c \in Publishers : /\ Respond(c) /\ req[c].reply = "reviewing" /\ req[c].v = t[2]
                                 /\ calls' = [calls EXCEPT ![t] = @ + 1] /\ task'[t] = task[t]
<1> USE Disjoint
<1>1. task \in [Threads -> Task] /\ calls \in [Threads -> Nat]
  BY SplitType
<1>2. CASE Restart
  BY <1>2 DEF Restart
<1>3. ASSUME NEW x \in Threads, Review(x), x # t PROVE task'[t] = task[t] /\ calls'[t] = calls[t]
  BY <1>1, <1>3
     DEF Review, ClaimReview, SkipReview, LoadReviewTarget, MarkRunning, RunReview, RunReviewFails, Reload,
         WriteVerdict, WriteVerdictFails, LoadFailed, WriteFailed, ReleaseReview
<1>4. ASSUME NEW c \in Publishers, Respond(c)
      PROVE  /\ task' = task
             /\ \/ calls'[t] = calls[t]
                \/ /\ req[c].reply = "reviewing" /\ req[c].v = t[2]
                   /\ calls' = [calls EXCEPT ![t] = @ + 1]
  <2>1. CASE req[c].reply = "reviewing"
    <3>1. PICK w \in Workers : calls' = [calls EXCEPT ![<<w, req[c].v>>] = @ + 1]
      BY <1>4, <2>1 DEF Respond
    <3>2. CASE t = <<w, req[c].v>>
      BY <1>4, <2>1, <3>1, <3>2 DEF Respond
    <3>3. CASE t # <<w, req[c].v>>
      BY <1>1, <1>4, <3>1, <3>3 DEF Respond
    <3> QED
      BY <3>2, <3>3
  <2> QED
    BY <1>4, <2>1 DEF Respond
<1>5. ASSUME NEW c \in Publishers, Serve(c), ~Respond(c) PROVE UNCHANGED <<task, calls>>
  BY <1>5 DEF Serve, PublishUpload, PublishUploadFails, PublishCommit, RestartCommit, PublishRefused,
              ChangelogFails, DeletePurge, DeletePurgeFails, DeleteFinish
<1>6. UNCHANGED vars \/ Arrive \/ (\E c \in Moderators : Moderate(c)) => UNCHANGED <<task, calls>>
  BY DEF vars, Arrive, PublishAgain, PublishBegin, ApproveBegin, RejectBegin, DeleteBegin, Moderate, ApproveCommit,
         ApproveRefused, RejectCommit, RejectRefused
<1> QED
  BY <1>2, <1>3, <1>4, <1>5, <1>6 DEF Next

-----------------------------------------------------------------------------
(* The stored package is the recorded one: nobody stores a package under a   *)
(* version that exists, and what is recorded was stored under it before.     *)

Unforced == "force" \notin Ops

\* The publisher of the asset sends one request at a time.
OnePublisher == \A c, d \in Publishers : c = d

Recorded(row) == row.id = 0 <=> row.sha = None

Uploading(c) ==
  req[c].step \in {"upload", "commit"} =>
    /\ version[req[c].v].id = 0 /\ req[c].art \in Artifacts
    /\ req[c].step = "commit" => store[req[c].v] = req[c].art

Stored(v) == version[v].id # 0 => store[v] \in {version[v].sha, None}

StoreInvariant ==
  /\ TypeOK
  /\ \A v \in Versions : Recorded(version[v]) /\ Stored(v)
  /\ \A s \in Sessions, v \in Versions : Recorded(sess[s].snap.version[v])
  /\ \A c \in Publishers : Uploading(c)

\* Only a publication gives a version a primary key and bytes, and only a deletion takes
\* them away; every other commit leaves them alone, whatever it had loaded.
LEMMA BytesSteps ==
  ASSUME TypeOK, [Next]_vars, NEW v \in Versions
  PROVE  \/ version'[v].id = version[v].id /\ version'[v].sha = version[v].sha
         \/ \E c \in Publishers : PublishCommit(c) /\ req[c].v = v
         \/ \E c \in Publishers : DeleteFinish(c) /\ v \in req[c].doomed
<1>1. ASSUME NEW c \in Publishers, PublishCommit(c), req[c].v # v PROVE version'[v] = version[v]
  BY <1>1, PublishEffect DEF Only
<1>2. ASSUME NEW c \in Publishers, DeleteFinish(c), v \notin req[c].doomed PROVE version'[v] = version[v]
  BY <1>2, DeleteEffect
<1>3. ASSUME NEW u, NEW M, NEW R, Decides(u, M, R)
      PROVE  version'[v].id = version[v].id /\ version'[v].sha = version[v].sha
  BY <1>3 DEF Decides, Only
<1>4. ASSUME NEW c \in Publishers, RestartCommit(c)
      PROVE  version'[v].id = version[v].id /\ version'[v].sha = version[v].sha
  BY <1>3, <1>4, RestartEffect
<1>5. ASSUME NEW c \in Moderators, ApproveCommit(c) \/ RejectCommit(c)
      PROVE  version'[v].id = version[v].id /\ version'[v].sha = version[v].sha
  BY <1>3, <1>5, ApproveEffect, RejectEffect
<1>6. ASSUME NEW t \in Threads, WriteVerdict(t) \/ WriteFailed(t)
      PROVE  version'[v].id = version[v].id /\ version'[v].sha = version[v].sha
  BY <1>3, <1>6, VerdictEffect, FailedEffect
<1> QED
  BY <1>1, <1>2, <1>4, <1>5, <1>6, VersionSteps

LEMMA InitStored == Init => StoreInvariant
<1> SUFFICES ASSUME Init PROVE StoreInvariant
  OBVIOUS
<1>1. \A v \in Versions : Recorded(version[v]) /\ Stored(v)
  BY DEF Init, NoVersion, Recorded, Stored
<1>2. \A s \in Sessions, v \in Versions : Recorded(sess[s].snap.version[v])
  BY DEF Init, Closed, NoVersion, Recorded
<1>3. \A c \in Publishers : Uploading(c)
  BY DEF Init, Idle, Uploading
<1> QED
  BY <1>1, <1>2, <1>3, InitType DEF StoreInvariant

LEMMA NextStored ==
  ASSUME Unforced, OnePublisher, StoreInvariant, [Next]_vars
  PROVE  StoreInvariant'
<1> USE Disjoint
<1>1. TypeOK /\ TypeOK'
  BY NextType DEF StoreInvariant
<1>2. /\ \A v \in Versions : version[v] \in VersionRow
      /\ \A s \in Sessions, v \in Versions : sess[s].snap.version[v] \in VersionRow
      /\ \A c \in Publishers : req[c] \in Request
  BY <1>1, SplitType DEF TypeOK, Current, Database, Session, ReqType
<1>3. ASSUME NEW s \in Sessions, NEW v \in Versions PROVE Recorded(sess[s].snap.version[v])'
  <2>1. Recorded(version[v]) /\ Recorded(sess[s].snap.version[v])
    BY DEF StoreInvariant
  <2>2. Recorded(Closed.snap.version[v]) /\ Current.version[v] = version[v]
    BY DEF Closed, NoVersion, Recorded, Current
  <2>3. sess'[s].snap \in {sess[s].snap, Current, Closed.snap}
    BY <1>1, SessionSteps
  <2> QED
    BY <2>1, <2>2, <2>3 DEF Recorded
<1>4. ASSUME NEW c \in Publishers, PublishCommit(c), NEW v, v = req[c].v
      PROVE  v \in Versions /\ version'[v].id # 0 /\ version'[v].sha = req[c].art /\ store'[v] = req[c].art
             /\ req[c].art \in Artifacts
  <2>1. v \in Versions /\ version[v].id = 0 /\ store[v] = req[c].art /\ req[c].art \in Artifacts
    BY <1>1, <1>4, PublishEffect DEF StoreInvariant, Uploading, PublishCommit
  <2> DEFINE l == snap(c).version[v]
  <2>2. /\ version[v].id = l.id
        /\ version'[v] = MergeVersion(l, PublishedRow(l, req[c].art, clock + 1), version[v])
    BY <1>1, <1>4, PublishEffect
  <2>3. l.sha = None /\ version[v].sha = None /\ None # req[c].art
    BY <2>1, <2>2, SkillPublishAssumption DEF StoreInvariant, Recorded, snap
  <2>4. clock + 1 # 0
    BY <1>1, SplitType
  <2> QED
    BY <1>4, <2>1, <2>2, <2>3, <2>4 DEF MergeVersion, PublishedRow, Column, PublishCommit
<1>5. ASSUME NEW c \in Publishers, DeleteFinish(c), NEW v \in req[c].doomed
      PROVE  v \in Versions /\ version'[v].id = 0 /\ version'[v].sha = None
  <2> DEFINE l == snap(c).version[v]
  <2>1. v \in Versions /\ version[v].id = l.id /\ version'[v] = MergeVersion(l, NoVersion, version[v])
    BY <1>1, <1>5, DeleteEffect
  <2>2. Recorded(l) /\ Recorded(version[v])
    BY <2>1 DEF StoreInvariant, snap
  <2> QED
    BY <2>1, <2>2 DEF MergeVersion, NoVersion, Column, Recorded
<1>6. ASSUME NEW v \in Versions PROVE Recorded(version[v])' /\ Stored(v)'
  <2>1. Recorded(version[v]) /\ Stored(v)
    BY DEF StoreInvariant
  <2>2. CASE version'[v].id = version[v].id /\ version'[v].sha = version[v].sha
    <3>1. \A c \in Publishers : PublishUpload(c) /\ req[c].v = v => version[v].id = 0
      BY DEF StoreInvariant, Uploading, PublishUpload
    <3>2. version[v].id = 0 \/ store'[v] \in {store[v], None}
      BY <1>1, <3>1, StoreSteps
    <3> QED
      BY <2>1, <2>2, <3>2 DEF Recorded, Stored
  <2>3. ASSUME NEW c \in Publishers, PublishCommit(c), req[c].v = v PROVE Recorded(version[v])' /\ Stored(v)'
    BY <1>4, <2>3, SkillPublishAssumption DEF Recorded, Stored
  <2>4. ASSUME NEW c \in Publishers, DeleteFinish(c), v \in req[c].doomed PROVE Recorded(version[v])' /\ Stored(v)'
    BY <1>5, <2>4 DEF Recorded, Stored
  <2> QED
    BY <1>1, <2>2, <2>3, <2>4, BytesSteps
<1>7. ASSUME NEW c \in Publishers PROVE Uploading(c)'
  <2>1. CASE req'[c] = req[c] /\ req[c].step \in {"upload", "commit"}
    <3> DEFINE v == req[c].v
    <3>1. v \in Versions
      BY <1>1, <2>1, SplitType DEF ReqType
    <3>2. \A d \in Publishers : ~PublishCommit(d) /\ ~DeleteFinish(d) /\ ~PublishUpload(d)
                               /\ ~(req[d].step = "purge" /\ req'[d] # req[d])
      <4>1. ~PublishCommit(c) /\ ~DeleteFinish(c) /\ ~PublishUpload(c)
        <5>1. PublishCommit(c) => req'[c].step = "changelog"
          BY <1>1, SplitType DEF PublishCommit, ReqType, Request
        <5>2. PublishUpload(c) => req'[c].step = "commit" /\ req[c].step = "upload"
          BY <1>1, SplitType DEF PublishUpload, ReqType, Request
        <5> QED
          BY <2>1, <5>1, <5>2 DEF DeleteFinish
      <4> QED
        BY <2>1, <4>1 DEF OnePublisher
    <3>3. version'[v].id = version[v].id /\ store'[v] = store[v]
      BY <1>1, <3>1, <3>2, BytesSteps, StoreSteps
    <3> QED
      BY <2>1, <3>3 DEF StoreInvariant, Uploading
  <2>2. CASE req'[c].step \notin {"upload", "commit"}
    BY <2>2 DEF Uploading
  <2>3. ASSUME NEW v \in Versions, NEW a \in Artifacts, PublishBegin(c, v, a),
               req'[c].step = "upload", req'[c].v = v, req'[c].art = a
        PROVE  Uploading(c)'
    <3>1. version[v].id = 0 /\ UNCHANGED version
      BY <2>3 DEF PublishBegin, MayPublish, Unforced, tables
    <3> QED
      BY <2>3, <3>1 DEF Uploading
  <2>4. CASE PublishUpload(c) /\ req'[c].step = "commit" /\ req'[c].v = req[c].v /\ req'[c].art = req[c].art
    <3>1. /\ version[req[c].v].id = 0 /\ req[c].art \in Artifacts /\ UNCHANGED version
          /\ req[c].v \in Versions
      BY <1>1, <2>4, SplitType DEF StoreInvariant, Uploading, PublishUpload, tables, ReqType
    <3>2. store'[req[c].v] = req[c].art
      BY <1>1, <2>4, <3>1, SplitType DEF PublishUpload
    <3> QED
      BY <2>4, <3>1, <3>2 DEF Uploading
  <2>5. CASE req'[c] = req[c] /\ req[c].step \notin {"upload", "commit"}
    BY <2>5 DEF Uploading
  <2> QED
    BY <1>1, <2>1, <2>2, <2>3, <2>4, <2>5, PublisherSteps DEF Idle
<1> QED
  BY <1>1, <1>3, <1>6, <1>7 DEF StoreInvariant

\* What is on the market and still stored is what was recorded, on either database, where
\* the publisher never forces an overwrite and sends one request at a time: the package is
\* uploaded before the transaction that records it (publish), so an overwrite that fails
\* to commit, or a second publish of the same new version, leaves other bytes behind.
THEOREM StoredArtifactsRecorded ==
  ASSUME Unforced, OnePublisher PROVE Spec => []StoredArtifactIsRecorded
<1>1. StoreInvariant /\ [Next]_vars => StoreInvariant'
  BY NextStored
<1>2. StoreInvariant => StoredArtifactIsRecorded
  BY DEF StoreInvariant, Stored, StoredArtifactIsRecorded, Successful, Existing
<1> QED
  BY <1>1, <1>2, InitStored, PTL DEF Spec

-----------------------------------------------------------------------------
(* Nothing the engine turned down reaches moderators or the market: the bytes *)
(* of a version never change, and a verdict is about the bytes stored.        *)

Undeleted == "delete" \notin Ops

\* The columns moderators and the market go by, set one by one, stand for compliance.
Cleared(row) ==
  row.pr \in {"pending_moderation", "publish_success"} \/ row.ms \in {"APPROVED", "REJECTED"}
    => row.sha \in Compliant

Reviewing(t) ==
  /\ task[t].pc \in {"mark", "run", "reload", "write"} => version[t[2]].id # 0
  /\ task[t].pc \in {"reload", "write"} => task[t].got = version[t[2]].sha

Approving(c) ==
  req[c].step = "approve" =>
    sess[c].snap.version[req[c].v].id # 0 /\ ManualStage(sess[c].snap.version[req[c].v])

ComplianceInvariant ==
  /\ StoreInvariant
  /\ \A v \in Versions : Cleared(version[v])
  /\ \A t \in Threads : Reviewing(t)
  /\ \A c \in Moderators : Approving(c)
  /\ \A c \in Publishers : req[c].step \notin {"purge", "finish"}

\* An approval under way was asked for a version moderators could see.
LEMMA ApprovingKept ==
  ASSUME TypeOK, [Next]_vars, NEW c \in Moderators, Approving(c)
  PROVE  Approving(c)'
<1> USE Disjoint
<1>1. CASE req'[c] = req[c] /\ req[c].step = "approve"
  <2>1. sess'[c].snap = sess[c].snap
    BY <1>1, SessionSteps
  <2> QED
    BY <1>1, <2>1 DEF Approving, ManualStage
<1>2. ASSUME NEW v \in Versions, ApproveBegin(c, v), req'[c].v = v, sess'[c].snap = Current
      PROVE  Approving(c)'
  BY <1>2 DEF Approving, ApproveBegin, ManualStage, Current
<1>3. CASE req'[c].step # "approve"
  BY <1>3 DEF Approving
<1> QED
  BY <1>1, <1>2, <1>3, ModeratorSteps

LEMMA InitCompliant == Init => ComplianceInvariant
<1> SUFFICES ASSUME Init PROVE ComplianceInvariant
  OBVIOUS
<1>1. \A v \in Versions : Cleared(version[v])
  BY DEF Init, NoVersion, Cleared
<1>2. (\A t \in Threads : Reviewing(t)) /\ (\A c \in Moderators : Approving(c))
  BY DEF Init, Idle, IdleTask, Reviewing, Approving
<1>3. \A c \in Publishers : req[c].step \notin {"purge", "finish"}
  BY DEF Init, Idle
<1> QED
  BY <1>1, <1>2, <1>3, InitStored DEF ComplianceInvariant

LEMMA NextCompliant ==
  ASSUME Unforced, Undeleted, OnePublisher, ReviewEnabled, ComplianceInvariant, [Next]_vars
  PROVE  ComplianceInvariant'
<1> USE Disjoint
<1>1. StoreInvariant /\ StoreInvariant' /\ TypeOK
  BY NextStored DEF ComplianceInvariant, StoreInvariant
<1>2. /\ \A v \in Versions : version[v] \in VersionRow
      /\ req \in [Users -> Request] /\ task \in [Threads -> Task]
  BY <1>1, SplitType DEF TypeOK, Current, Database, ReqType
<1>3. ASSUME NEW c \in Publishers PROVE req'[c].step \notin {"purge", "finish"}
  <2>1. req[c].step \notin {"purge", "finish"}
    BY DEF ComplianceInvariant
  <2>2. \A D : ~DeleteBegin(c, D)
    BY DEF DeleteBegin, Undeleted
  <2> QED
    BY <1>1, <2>1, <2>2, PublisherSteps DEF Idle, DeletePurge
<1>4. ASSUME NEW v \in Versions, version[v].id # 0
      PROVE  version'[v].id = version[v].id /\ version'[v].sha = version[v].sha
  <2>1. \A c \in Publishers : ~(PublishCommit(c) /\ req[c].v = v) /\ ~DeleteFinish(c)
    BY <1>1, <1>4 DEF StoreInvariant, Uploading, PublishCommit, ComplianceInvariant, DeleteFinish
  <2> QED
    BY <1>1, <2>1, BytesSteps
<1>5. ASSUME NEW v \in Versions PROVE Cleared(version[v])'
  <2>1. Cleared(version[v])
    BY DEF ComplianceInvariant
  <2>2. ASSUME NEW c \in Publishers, PublishCommit(c) PROVE Cleared(version[v])'
    <3>1. CASE req[c].v # v
      <4>1. version'[v] = version[v]
        BY <1>1, <2>2, <3>1, PublishEffect DEF Only
      <4> QED
        BY <2>1, <4>1 DEF Cleared
    <3>2. CASE req[c].v = v
      <4> DEFINE l == snap(c).version[v]
      <4>1. version'[v] = MergeVersion(l, PublishedRow(l, req[c].art, clock + 1), version[v])
        BY <1>1, <2>2, <3>2, PublishEffect
      <4>2. version'[v].pr \in {version[v].pr, "reviewing"} /\ version'[v].ms \in {version[v].ms, "PENDING"}
        BY <4>1 DEF MergeVersion, PublishedRow, Column, InitialResult
      <4>3. version[v].sha \notin Compliant
        <5>1. version[v].id = 0
          BY <2>2, <3>2 DEF ComplianceInvariant, StoreInvariant, Uploading, PublishCommit
        <5> QED
          BY <5>1, SkillPublishAssumption DEF ComplianceInvariant, StoreInvariant, Recorded
      <4> QED
        BY <2>1, <4>2, <4>3 DEF Cleared
    <3> QED
      BY <3>1, <3>2
  <2>3. ASSUME NEW u, NEW M, NEW R, Decides(u, M, R), u # v PROVE Cleared(version[v])'
    BY <2>1, <2>3 DEF Decides, Only, Cleared
  <2>4. ASSUME NEW M, NEW R, Decides(v, M, R),
               version[v].sha \in Compliant \/
                 (M \subseteq {version[v].ms, "PENDING"} /\ R \subseteq {version[v].pr, "reviewing", "publish_failed"})
        PROVE  Cleared(version[v])'
    BY <2>1, <2>4 DEF Decides, Cleared
  <2>5. ASSUME NEW c \in Publishers, RestartCommit(c) PROVE Cleared(version[v])'
    <3>1. Decides(req[c].v, {version[req[c].v].ms, "PENDING"}, {version[req[c].v].pr, "reviewing"})
      BY <1>1, <2>5, RestartEffect
    <3> QED
      BY <2>3, <2>4, <3>1
  <2>6. ASSUME NEW c \in Moderators, ApproveCommit(c) PROVE Cleared(version[v])'
    <3>1. /\ Decides(req[c].v, {"APPROVED"}, {"publish_success"})
          /\ SameCandidate(version[req[c].v], snap(c).version[req[c].v])
      BY <1>1, <2>6, ApproveEffect
    <3>2. ManualStage(version[req[c].v])
      BY <2>6, <3>1 DEF ComplianceInvariant, Approving, ApproveCommit, SameCandidate, ManualStage, snap
    <3>3. req[c].v = v => version[v].sha \in Compliant
      BY <2>1, <3>2 DEF ManualStage, Cleared
    <3> QED
      BY <2>3, <2>4, <3>1, <3>3
  <2>7. ASSUME NEW c \in Moderators, RejectCommit(c) PROVE Cleared(version[v])'
    <3>1. Decides(req[c].v, {"REJECTED"}, {"publish_failed"}) /\ Rejectable(version[req[c].v])
      BY <1>1, <2>7, RejectEffect
    <3>2. req[c].v = v => version[v].sha \in Compliant
      BY <2>1, <3>1 DEF Rejectable, ManualStage, Cleared
    <3> QED
      BY <2>3, <2>4, <3>1, <3>2
  <2>8. ASSUME NEW t \in Threads, WriteVerdict(t) PROVE Cleared(version[v])'
    <3> DEFINE r == IF task[t].got \in Compliant THEN "pending_moderation" ELSE "publish_failed"
    <3>1. Decides(t[2], {version[t[2]].ms}, {version[t[2]].pr, r})
      BY <1>1, <2>8, VerdictEffect
    <3>2. task[t].got = version[t[2]].sha
      BY <2>8 DEF ComplianceInvariant, Reviewing, WriteVerdict
    <3> QED
      BY <2>3, <2>4, <3>1, <3>2
  <2>9. ASSUME NEW t \in Threads, WriteFailed(t) PROVE Cleared(version[v])'
    <3>1. Decides(t[2], {version[t[2]].ms}, {version[t[2]].pr, "publish_failed"})
      BY <1>1, <2>9, FailedEffect
    <3> QED
      BY <2>3, <2>4, <3>1
  <2>10. CASE UNCHANGED version
    BY <2>1, <2>10 DEF Cleared
  <2>11. \A c \in Publishers : ~DeleteFinish(c)
    BY DEF ComplianceInvariant, DeleteFinish
  <2> QED
    BY <1>1, <2>2, <2>5, <2>6, <2>7, <2>8, <2>9, <2>10, <2>11, VersionSteps
<1>6. ASSUME NEW t \in Threads PROVE Reviewing(t)'
  <2>1. Reviewing(t) /\ t[2] \in Versions
    BY DEF ComplianceInvariant, Threads
  <2>2. version[t[2]].id # 0 => version'[t[2]].id # 0 /\ version'[t[2]].sha = version[t[2]].sha
    BY <1>4, <2>1
  <2>3. CASE task'[t].pc \in {"idle", "start", "fail", "failwrite", "release"}
    BY <2>3 DEF Reviewing
  <2>4. CASE /\ task[t].pc \in {"mark", "run", "reload", "write"}
             /\ task'[t].pc \in {"reload", "write"} => task[t].pc \in {"reload", "write"} /\ task'[t].got = task[t].got
    BY <2>1, <2>2, <2>4 DEF Reviewing
  <2>5. CASE LoadReviewTarget(t)
    <3>1. task'[t].pc \in {"release", "mark"} /\ UNCHANGED version /\ (task'[t].pc = "mark" => version[t[2]].id # 0)
      BY <1>2, <2>5 DEF LoadReviewTarget, Found, Task, tables
    <3> QED
      BY <3>1 DEF Reviewing
  <2>6. CASE RunReview(t)
    <3>1. task'[t].pc = "reload" /\ task'[t].got = store[t[2]] /\ store[t[2]] # None /\ task[t].pc = "run"
      BY <1>2, <2>6 DEF RunReview, Task
    <3>2. store[t[2]] = version[t[2]].sha /\ version[t[2]].id # 0
      BY <2>1, <3>1 DEF ComplianceInvariant, StoreInvariant, Stored, Reviewing
    <3>3. UNCHANGED version
      BY <2>6 DEF RunReview, tables
    <3> QED
      BY <3>1, <3>2, <3>3 DEF Reviewing
  <2>7. CASE /\ Review(t) /\ ~LoadReviewTarget(t) /\ ~RunReview(t)
    <3>1. CASE ClaimReview(t) \/ RunReviewFails(t) \/ WriteVerdict(t) \/ LoadFailed(t) \/ WriteFailed(t) \/ ReleaseReview(t)
      BY <1>2, <2>3, <3>1 DEF ClaimReview, RunReviewFails, WriteVerdict, LoadFailed, WriteFailed, ReleaseReview,
                              Task, IdleTask
    <3>2. CASE MarkRunning(t)
      BY <1>2, <2>3, <2>4, <3>2 DEF MarkRunning, Task
    <3>3. CASE Reload(t)
      BY <1>2, <2>3, <2>4, <3>3 DEF Reload, Task
    <3>4. CASE WriteVerdictFails(t)
      BY <1>2, <2>3, <2>4, <3>4 DEF WriteVerdictFails, Task
    <3>5. CASE SkipReview(t)
      BY <2>1, <3>5 DEF SkipReview, Reviewing, tables
    <3> QED
      BY <2>7, <3>1, <3>2, <3>3, <3>4, <3>5 DEF Review
  <2>8. CASE task'[t] = task[t]
    BY <1>2, <2>3, <2>4, <2>8 DEF Task
  <2> QED
    BY <1>1, <2>3, <2>5, <2>6, <2>7, <2>8, ThreadSteps DEF IdleTask
<1>7. \A c \in Moderators : Approving(c)'
  BY <1>1, ApprovingKept DEF ComplianceInvariant
<1> QED
  BY <1>1, <1>3, <1>5, <1>6, <1>7 DEF ComplianceInvariant

\* Only packages the engine cleared reach moderators or the market, on either database,
\* where versions are neither overwritten nor deleted and the publisher sends one request
\* at a time; retries, lost reviews, restarts and late or repeated verdicts included.
\* (With deletions the review of one package may end up read as that of another, stored
\* for a moment under the same number between two publications of the first.)
THEOREM CompliantArtifactsOnly ==
  ASSUME Unforced, Undeleted, OnePublisher PROVE Spec => []OnlyCompliantArtifacts
<1>1. CASE ReviewEnabled
  <2>1. ComplianceInvariant /\ [Next]_vars => ComplianceInvariant'
    BY <1>1, NextCompliant
  <2>2. ComplianceInvariant => OnlyCompliantArtifacts
    BY DEF ComplianceInvariant, Cleared, OnlyCompliantArtifacts, Existing
  <2> QED
    BY <2>1, <2>2, InitCompliant, PTL DEF Spec
<1>2. CASE ~ReviewEnabled
  <2>1. OnlyCompliantArtifacts
    BY <1>2 DEF OnlyCompliantArtifacts
  <2> QED
    BY <2>1, PTL
<1> QED
  BY <1>1, <1>2

-----------------------------------------------------------------------------
(* Reviewed once: with neither overwrites, retries nor deletions a version is *)
(* published once, so its review is in the hands of one request or thread at  *)
(* a time, and until that one has decided the version stays under review.     *)

Once == Ops \cap {"force", "retry", "delete"} = {}

Whole(row) == (row.id = 0 => row = NoVersion) /\ (row.pr = "reviewing" => row.ms = "PENDING")

Publishing(c) ==
  /\ req[c].step \in {"idle", "upload", "commit", "changelog"}
  /\ req[c].step \in {"upload", "commit"} =>
       req[c].art \in Artifacts /\ sess[c].snap.version[req[c].v].id = 0

\* The review of version v is up to x: a response to be sent, a call, or a thread.
InHand(x, v) ==
  \/ x \in Publishers /\ req[x].step = "changelog" /\ req[x].reply = "reviewing" /\ req[x].v = v
  \/ x \in Threads /\ x[2] = v /\ (calls[x] > 0 \/ task[x].pc # "idle")

Undecided(x) == x \in Threads => ~(task[x].pc = "release" /\ ~task[x].again)

Claimed(t) ==
  /\ calls[t] \in {0, 1}
  /\ calls[t] = 1 => task[t].pc = "idle"
  /\ task[t].again => task[t].pc = "release"

UnderReview(v) == version[v].id # 0 /\ version[v].pr = "reviewing"

OneReview(v) ==
  \A x \in Sessions : InHand(x, v) =>
    /\ version[v].id # 0
    /\ Undecided(x) => UnderReview(v)
    /\ \A y \in Sessions : InHand(y, v) => x = y

OnceInvariant ==
  /\ TypeOK
  /\ \A v \in Versions : Whole(version[v]) /\ OneReview(v)
  /\ \A s \in Sessions, v \in Versions : Whole(sess[s].snap.version[v])
  /\ \A c \in Publishers : Publishing(c)
  /\ \A c \in Moderators : Approving(c)
  /\ \A t \in Threads : Claimed(t)

LEMMA InitOnce == Init => OnceInvariant
<1> SUFFICES ASSUME Init PROVE OnceInvariant
  OBVIOUS
<1> USE Disjoint
<1>1. /\ \A v \in Versions : Whole(version[v])
      /\ \A s \in Sessions, v \in Versions : Whole(sess[s].snap.version[v])
  BY DEF Init, NoVersion, Closed, Whole
<1>2. (\A c \in Publishers : Publishing(c)) /\ (\A c \in Moderators : Approving(c))
  BY DEF Init, Idle, Publishing, Approving
<1>3. (\A t \in Threads : Claimed(t)) /\ (\A v \in Versions : OneReview(v))
  BY DEF Init, Idle, IdleTask, Claimed, OneReview, InHand
<1> QED
  BY <1>1, <1>2, <1>3, InitType DEF OnceInvariant

\* Whoever decides a version holds its review; moderators decide the others.
LEMMA OnceDecides ==
  ASSUME OnceInvariant
  PROVE  /\ \A t \in Threads : WriteVerdict(t) \/ WriteFailed(t) =>
              /\ t[2] \in Versions /\ InHand(t, t[2]) /\ UnderReview(t[2])
              /\ task'[t].pc = "release" /\ ~task'[t].again
         /\ \A c \in Moderators, v \in Versions :
              (ApproveCommit(c) \/ RejectCommit(c)) /\ v = req[c].v =>
                version[v].id # 0 /\ ManualStage(version[v])
         /\ \A c \in Publishers, v \in Versions : PublishCommit(c) /\ v = req[c].v =>
              /\ version[v] = NoVersion /\ snap(c).version[v] = NoVersion /\ req[c].art \in Artifacts
              /\ \A x \in Sessions : ~InHand(x, v)
         /\ \A c \in Publishers : ~RestartCommit(c) /\ ~DeleteFinish(c)
<1> USE Disjoint
<1>1. TypeOK /\ req \in [Users -> Request] /\ task \in [Threads -> Task]
  BY SplitType DEF OnceInvariant, ReqType
<1>2. ASSUME NEW t \in Threads, WriteVerdict(t) \/ WriteFailed(t)
      PROVE  /\ t[2] \in Versions /\ InHand(t, t[2]) /\ UnderReview(t[2])
             /\ task'[t].pc = "release" /\ ~task'[t].again
  <2>1. t[2] \in Versions /\ t \in Sessions
    BY DEF Threads
  <2>2. task[t].pc \in {"write", "failwrite"} /\ task' = [task EXCEPT ![t].pc = "release"]
    BY <1>2 DEF WriteVerdict, WriteFailed
  <2>3. InHand(t, t[2]) /\ Undecided(t) /\ ~task[t].again
    BY <2>2 DEF InHand, Undecided, OnceInvariant, Claimed
  <2>4. task'[t].pc = "release" /\ task'[t].again = task[t].again
    BY <1>1, <2>2 DEF Task
  <2> QED
    BY <2>1, <2>3, <2>4 DEF OnceInvariant, OneReview
<1>3. ASSUME NEW c \in Moderators, NEW v \in Versions, ApproveCommit(c), v = req[c].v
      PROVE  version[v].id # 0 /\ ManualStage(version[v])
  BY <1>3 DEF OnceInvariant, Approving, ApproveCommit, SameCandidate, ManualStage, snap
<1>4. ASSUME NEW c \in Moderators, NEW v \in Versions, RejectCommit(c), v = req[c].v
      PROVE  version[v].id # 0 /\ ManualStage(version[v])
  BY <1>4 DEF RejectCommit, Rejectable
<1>5. ASSUME NEW c \in Publishers, NEW v \in Versions, PublishCommit(c), v = req[c].v
      PROVE  /\ version[v] = NoVersion /\ snap(c).version[v] = NoVersion /\ req[c].art \in Artifacts
             /\ \A x \in Sessions : ~InHand(x, v)
  <2>1. req[c].art \in Artifacts /\ snap(c).version[v].id = 0
    BY <1>5 DEF OnceInvariant, Publishing, PublishCommit, snap
  <2>2. version[v].id = 0
    BY <1>1, <1>5, <2>1, PublishEffect
  <2> QED
    BY <2>1, <2>2 DEF OnceInvariant, Whole, OneReview, snap
<1>6. \A c \in Publishers : ~RestartCommit(c) /\ ~DeleteFinish(c)
  BY DEF OnceInvariant, Publishing, RestartCommit, DeleteFinish
<1> QED
  BY <1>2, <1>3, <1>4, <1>5, <1>6

\* A publication writes the row it computed: it found the row absent, as it had loaded it.
LEMMA OncePublishes ==
  ASSUME OnceInvariant, NEW c \in Publishers, PublishCommit(c), NEW v, v = req[c].v
  PROVE  /\ v \in Versions /\ Only(v)
         /\ version'[v].id # 0 /\ version'[v].sha = req[c].art
         /\ version'[v].ms = "PENDING" /\ version'[v].pr = InitialResult
<1>1. TypeOK /\ clock \in Nat
  BY SplitType DEF OnceInvariant
<1>2. /\ v \in Versions /\ Only(v)
      /\ version'[v] = MergeVersion(snap(c).version[v], PublishedRow(snap(c).version[v], req[c].art, clock + 1), version[v])
  BY <1>1, PublishEffect
<1>3. version[v] = NoVersion /\ snap(c).version[v] = NoVersion /\ req[c].art \in Artifacts
  BY <1>2, OnceDecides
<1>4. version'[v].id = clock + 1 /\ version'[v].sha = req[c].art
  <2>1. req[c].art # None /\ clock + 1 # 0
    BY <1>1, <1>3, SkillPublishAssumption
  <2> QED
    BY <1>2, <1>3, <2>1 DEF MergeVersion, PublishedRow, Column, NoVersion
<1>5. version'[v].ms = "PENDING" /\ version'[v].pr = InitialResult
  BY <1>2, <1>3 DEF MergeVersion, PublishedRow, Column, NoVersion, InitialResult
<1> QED
  BY <1>1, <1>2, <1>4, <1>5

\* How a review comes into a session's hands.
LEMMA HandSteps ==
  ASSUME Once, OnceInvariant, [Next]_vars, NEW x \in Sessions, NEW v \in Versions, InHand(x, v)'
  PROVE  \/ InHand(x, v) /\ (Undecided(x)' => Undecided(x))
         \/ x \in Publishers /\ PublishCommit(x) /\ req[x].v = v
         \/ \E c \in Publishers :
              /\ Respond(c) /\ InHand(c, v) /\ ~InHand(c, v)' /\ UNCHANGED <<version, task>>
              /\ x \in Threads /\ calls' = [calls EXCEPT ![x] = @ + 1]
<1> USE Disjoint
<1>1. /\ TypeOK /\ req \in [Users -> Request] /\ task \in [Threads -> Task] /\ calls \in [Threads -> Nat]
      /\ Publishers \cap Threads = {}
  BY SplitType DEF OnceInvariant, ReqType
<1>2. CASE x \in Publishers
  <2>1. req'[x].step = "changelog" /\ req'[x].reply = "reviewing" /\ req'[x].v = v
    BY <1>1, <1>2 DEF InHand
  <2>2. req'[x] = req[x] \/ (PublishCommit(x) /\ req'[x].v = req[x].v)
    BY <1>1, <1>2, <2>1, PublisherSteps DEF Idle
  <2> QED
    BY <1>1, <1>2, <2>1, <2>2 DEF InHand, Undecided
<1>3. CASE x \in Threads
  <2>0. x[2] = v /\ (calls'[x] > 0 \/ task'[x].pc # "idle") /\ Claimed(x)
    BY <1>1, <1>3 DEF InHand, OnceInvariant
  <2>1. CASE task'[x] = task[x] /\ calls'[x] = calls[x]
    BY <1>3, <2>0, <2>1 DEF InHand, Undecided
  <2>2. CASE task'[x] = IdleTask /\ calls'[x] = 0
    BY <2>0, <2>2 DEF IdleTask
  <2>3. CASE Review(x)
    <3>1. CASE ClaimReview(x)
      BY <1>3, <2>0, <3>1 DEF ClaimReview, InHand, Undecided
    <3>2. CASE SkipReview(x)
      BY <1>1, <1>3, <2>0, <3>2 DEF SkipReview, Claimed
    <3>3. CASE ReleaseReview(x)
      <4>1. task[x].pc = "release" /\ calls[x] = 0 /\ calls'[x] = IF task[x].again THEN 1 ELSE 0
        BY <1>1, <1>3, <2>0, <3>3 DEF ReleaseReview, Claimed
      <4>2. task'[x].pc = "idle"
        BY <1>1, <1>3, <3>3 DEF ReleaseReview, IdleTask
      <4> QED
        BY <1>3, <2>0, <4>1, <4>2 DEF InHand, Undecided
    <3>4. CASE task[x].pc \notin {"idle", "release"}
      BY <1>3, <2>0, <3>4 DEF InHand, Undecided
    <3> QED
      BY <2>3, <3>1, <3>2, <3>3, <3>4
         DEF Review, LoadReviewTarget, MarkRunning, RunReview, RunReviewFails, Reload, WriteVerdict,
             WriteVerdictFails, LoadFailed, WriteFailed
  <2>4. ASSUME NEW c \in Publishers, Respond(c), req[c].reply = "reviewing", req[c].v = x[2], calls' = [calls EXCEPT ![x] = @ + 1]
        PROVE  /\ InHand(c, v) /\ ~InHand(c, v)' /\ UNCHANGED <<version, task>>
    <3>1. req[c].step = "changelog"
      BY <2>4 DEF Respond, OnceInvariant, Publishing
    <3>2. req'[c] = Idle
      BY <1>1, <2>4 DEF Respond, End
    <3> QED
      BY <1>1, <2>0, <2>4, <3>1, <3>2 DEF InHand, Idle, Respond, tables
  <2> QED
    BY <1>1, <1>3, <2>1, <2>2, <2>3, <2>4, ThreadSteps
<1> QED
  BY <1>2, <1>3, <1>1 DEF InHand

\* What each commit does to a version here: the decision moves a version under review,
\* or one moderators see, and nothing else about it changes.
LEMMA OnceRows ==
  ASSUME OnceInvariant, [Next]_vars, NEW v \in Versions
  PROVE  \/ version'[v] = version[v]
         \/ \E c \in Publishers : PublishCommit(c) /\ req[c].v = v
         \/ /\ \E c \in Moderators : (ApproveCommit(c) /\ Decides(v, {"APPROVED"}, {"publish_success"}))
                                     \/ (RejectCommit(c) /\ Decides(v, {"REJECTED"}, {"publish_failed"})
                                         /\ version[v].pr = "pending_moderation")
            /\ version[v].id # 0 /\ ManualStage(version[v])
         \/ \E t \in Threads :
              /\ t[2] = v /\ UnderReview(v) /\ InHand(t, v) /\ ~Undecided(t)'
              /\ Decides(v, {version[v].ms}, {"reviewing", "pending_moderation", "publish_failed"})
<1> USE Disjoint
<1>1. TypeOK
  BY DEF OnceInvariant
<1>2. ASSUME NEW c \in Publishers, PublishCommit(c), req[c].v # v PROVE version'[v] = version[v]
  BY <1>1, <1>2, PublishEffect DEF Only
<1>3. ASSUME NEW c \in Publishers PROVE ~RestartCommit(c) /\ ~DeleteFinish(c)
  BY OnceDecides
<1>4. ASSUME NEW u, NEW M, NEW R, Decides(u, M, R), u # v PROVE version'[v] = version[v]
  BY <1>4 DEF Decides, Only
<1>5. ASSUME NEW c \in Moderators, ApproveCommit(c)
      PROVE  \/ version'[v] = version[v]
             \/ Decides(v, {"APPROVED"}, {"publish_success"}) /\ version[v].id # 0 /\ ManualStage(version[v])
  <2>1. Decides(req[c].v, {"APPROVED"}, {"publish_success"})
    BY <1>1, <1>5, ApproveEffect
  <2> QED
    BY <1>4, <1>5, <2>1, OnceDecides
<1>6. ASSUME NEW c \in Moderators, RejectCommit(c)
      PROVE  \/ version'[v] = version[v]
             \/ /\ Decides(v, {"REJECTED"}, {"publish_failed"}) /\ version[v].id # 0 /\ ManualStage(version[v])
                /\ version[v].pr = "pending_moderation"
  <2>1. Decides(req[c].v, {"REJECTED"}, {"publish_failed"}) /\ Rejectable(version[req[c].v])
    BY <1>1, <1>6, RejectEffect
  <2>2. req[c].v = v => version[v].pr = "pending_moderation"
    BY <2>1 DEF Rejectable, ManualStage
  <2> QED
    BY <1>4, <1>6, <2>1, <2>2, OnceDecides
<1>7. ASSUME NEW t \in Threads, WriteVerdict(t) \/ WriteFailed(t)
      PROVE  \/ version'[v] = version[v]
             \/ /\ t[2] = v /\ UnderReview(v) /\ InHand(t, v) /\ ~Undecided(t)'
                /\ Decides(v, {version[v].ms}, {"reviewing", "pending_moderation", "publish_failed"})
  <2>1. UnderReview(t[2]) /\ InHand(t, t[2]) /\ ~Undecided(t)'
    BY <1>7, OnceDecides DEF Undecided
  <2>2. PICK r \in {"pending_moderation", "publish_failed"} : Decides(t[2], {version[t[2]].ms}, {version[t[2]].pr, r})
    BY <1>1, <1>7, VerdictEffect, FailedEffect
  <2>3. Decides(t[2], {version[t[2]].ms}, {"reviewing", "pending_moderation", "publish_failed"})
    BY <2>1, <2>2 DEF Decides, UnderReview
  <2> QED
    BY <1>4, <2>1, <2>3
<1> QED
  BY <1>1, <1>2, <1>3, <1>5, <1>6, <1>7, VersionSteps

LEMMA OnceWhole ==
  ASSUME OnceInvariant, [Next]_vars, NEW v \in Versions
  PROVE  Whole(version[v])' /\ \A s \in Sessions : Whole(sess[s].snap.version[v])'
<1>1. Whole(version[v]) /\ TypeOK /\ \A s \in Sessions : Whole(sess[s].snap.version[v])
  BY DEF OnceInvariant
<1>2. Whole(version[v])'
  <2>1. ASSUME NEW c \in Publishers, PublishCommit(c), req[c].v = v PROVE Whole(version[v])'
    BY <2>1, OncePublishes DEF Whole
  <2>2. ASSUME NEW M, NEW R, Decides(v, M, R), version[v].id # 0,
               R \cap {"reviewing"} = {} \/ (M = {version[v].ms} /\ version[v].pr = "reviewing")
        PROVE  Whole(version[v])'
    BY <1>1, <2>2 DEF Decides, Whole
  <2> QED
    BY <1>1, <2>1, <2>2, OnceRows DEF Whole, UnderReview
<1>3. ASSUME NEW s \in Sessions PROVE Whole(sess[s].snap.version[v])'
  <2>1. Whole(Closed.snap.version[v]) /\ Current.version[v] = version[v]
    BY DEF Closed, NoVersion, Whole, Current
  <2>2. sess'[s].snap \in {sess[s].snap, Current, Closed.snap}
    BY <1>1, SessionSteps
  <2> QED
    BY <1>1, <2>1, <2>2 DEF Whole
<1> QED
  BY <1>2, <1>3

LEMMA OncePublishing ==
  ASSUME Once, OnceInvariant, [Next]_vars, NEW c \in Publishers
  PROVE  Publishing(c)'
<1> USE Disjoint
<1>1. TypeOK /\ Publishing(c) /\ c \in Users /\ c \in Sessions
  BY DEF OnceInvariant
<1>2. CASE req'[c] = req[c]
  <2>1. req[c].step = "idle" \/ sess'[c].snap = sess[c].snap
    BY <1>1, <1>2, SessionSteps
  <2> QED
    BY <1>1, <1>2, <2>1 DEF Publishing
<1>3. CASE req'[c] = Idle
  BY <1>3 DEF Publishing, Idle
<1>4. ASSUME NEW v \in Versions, NEW a \in Artifacts, PublishBegin(c, v, a),
             req'[c].step = "upload", req'[c].v = v, req'[c].art = a
      PROVE  Publishing(c)'
  <2>1. version[v].id = 0
    BY <1>4 DEF PublishBegin, MayPublish, Once
  <2>2. sess'[c].snap = Current
    BY <1>1, <1>4 DEF PublishBegin, OpenSession, TypeOK
  <2> QED
    BY <1>4, <2>1, <2>2 DEF Publishing, Current
<1>5. CASE PublishUpload(c) /\ req'[c].step = "commit" /\ req'[c].v = req[c].v /\ req'[c].art = req[c].art
  <2>1. req[c].step = "upload" /\ sess' = sess
    BY <1>5 DEF PublishUpload
  <2> QED
    BY <1>1, <1>5, <2>1 DEF Publishing
<1>6. CASE PublishCommit(c) /\ req'[c].step = "changelog" /\ req'[c].v = req[c].v /\ req'[c].reply = version'[req'[c].v].pr
  BY <1>6 DEF Publishing
<1>7. /\ \A v \in Versions : ~PublishAgain(c, v)
      /\ \A D \in SUBSET Versions : ~DeleteBegin(c, D)
      /\ ~RestartCommit(c) /\ ~DeletePurge(c)
  BY <1>1 DEF PublishAgain, DeleteBegin, Once, Publishing, RestartCommit, DeletePurge
<1> QED
  BY <1>1, <1>2, <1>3, <1>4, <1>5, <1>6, <1>7, PublisherSteps

LEMMA OnceClaimed ==
  ASSUME OnceInvariant, [Next]_vars, NEW t \in Threads
  PROVE  Claimed(t)'
<1> USE Disjoint
<1>1. TypeOK /\ Claimed(t) /\ task \in [Threads -> Task] /\ calls \in [Threads -> Nat]
  BY SplitType DEF OnceInvariant
<1>2. CASE task'[t] = task[t] /\ calls'[t] = calls[t]
  BY <1>1, <1>2 DEF Claimed
<1>3. CASE task'[t] = IdleTask /\ calls'[t] = 0
  BY <1>3 DEF Claimed, IdleTask
<1>4. CASE Review(t)
  <2>1. CASE ClaimReview(t)
    BY <1>1, <2>1 DEF ClaimReview, Claimed, Task
  <2>2. CASE SkipReview(t)
    BY <1>1, <2>2 DEF SkipReview, Claimed
  <2>3. CASE ReleaseReview(t)
    BY <1>1, <2>3 DEF ReleaseReview, Claimed, IdleTask
  <2>4. CASE Reload(t)
    <3>1. task[t].pc = "reload" /\ UNCHANGED calls
      BY <2>4 DEF Reload
    <3>2. calls[t] = 0 /\ ~task[t].again
      BY <1>1, <3>1 DEF Claimed
    <3>3. task'[t].again => task'[t].pc = "release"
      BY <1>1, <2>4, <3>2 DEF Reload, Task
    <3> QED
      BY <3>1, <3>2, <3>3 DEF Claimed
  <2>5. CASE \/ LoadReviewTarget(t) \/ MarkRunning(t) \/ RunReview(t) \/ RunReviewFails(t) \/ WriteVerdict(t)
             \/ WriteVerdictFails(t) \/ LoadFailed(t) \/ WriteFailed(t)
    <3>1. task[t].pc \notin {"idle", "release"} /\ UNCHANGED calls /\ task'[t].again = task[t].again
      BY <1>1, <2>5
         DEF LoadReviewTarget, MarkRunning, RunReview, RunReviewFails, WriteVerdict, WriteVerdictFails, LoadFailed,
             WriteFailed, Task
    <3> QED
      BY <1>1, <3>1 DEF Claimed
  <2> QED
    BY <1>4, <2>1, <2>2, <2>3, <2>4, <2>5 DEF Review
<1>5. ASSUME NEW c \in Publishers, Respond(c), req[c].reply = "reviewing", req[c].v = t[2],
             calls' = [calls EXCEPT ![t] = @ + 1], task'[t] = task[t]
      PROVE  Claimed(t)'
  <2>1. InHand(c, t[2]) /\ t[2] \in Versions /\ c \in Sessions /\ t \in Sessions /\ c # t
    BY <1>1, <1>5 DEF InHand, Respond, OnceInvariant, Publishing, Threads
  <2>2. ~InHand(t, t[2])
    BY <2>1 DEF OnceInvariant, OneReview
  <2>3. calls[t] = 0 /\ task[t].pc = "idle"
    BY <1>1, <2>2 DEF InHand
  <2>4. calls'[t] = 1 /\ task'[t].pc = "idle" /\ task'[t].again = task[t].again
    BY <1>1, <1>5, <2>3
  <2> QED
    BY <1>1, <2>3, <2>4 DEF Claimed
<1> QED
  BY <1>1, <1>2, <1>3, <1>4, <1>5, ThreadSteps

LEMMA OnceReviewed ==
  ASSUME Once, OnceInvariant, [Next]_vars, NEW v \in Versions
  PROVE  OneReview(v)'
<1> USE Disjoint
<1>1. TypeOK /\ OneReview(v)
  BY DEF OnceInvariant
<1>2. CASE \E c \in Publishers : PublishCommit(c) /\ req[c].v = v
  <2>1. PICK c \in Publishers : PublishCommit(c) /\ req[c].v = v
    BY <1>2
  <2>2. version'[v].id # 0 /\ \A x \in Sessions : ~InHand(x, v)
    BY <2>1, OncePublishes, OnceDecides
  <2>3. ASSUME NEW x \in Sessions, InHand(x, v)' PROVE x = c /\ UnderReview(v)'
    <3>1. x \in Publishers /\ PublishCommit(x)
      BY <2>1, <2>2, <2>3, HandSteps DEF PublishCommit, Respond
    <3>2. /\ req' = [req EXCEPT ![c].step = "changelog", ![c].reply = version'[v].pr] /\ req[x].step = "commit"
          /\ req \in [Users -> Request]
      BY <1>1, <2>1, <3>1, SplitType DEF PublishCommit, ReqType
    <3>3. x = c
      BY <2>3, <3>1, <3>2 DEF InHand
    <3>4. req'[c].reply = version'[v].pr
      BY <3>2 DEF Request
    <3> QED
      BY <2>2, <2>3, <3>1, <3>3, <3>4 DEF InHand, UnderReview
  <2> QED
    BY <2>2, <2>3 DEF OneReview, UnderReview
<1>3. CASE ~\E c \in Publishers : PublishCommit(c) /\ req[c].v = v
  <2>1. ASSUME NEW x \in Sessions, InHand(x, v)', InHand(x, v), Undecided(x)' => Undecided(x)
        PROVE  version'[v].id # 0 /\ (Undecided(x)' => UnderReview(v)')
    <3>1. version[v].id # 0 /\ (Undecided(x)' => UnderReview(v))
      BY <1>1, <2>1 DEF OneReview
    <3>2. ASSUME NEW t \in Threads, InHand(t, v), ~Undecided(t)' PROVE ~Undecided(x)'
      BY <1>1, <2>1, <3>2 DEF OneReview
    <3> QED
      BY <1>1, <1>3, <3>1, <3>2, OnceRows DEF Decides, UnderReview, ManualStage
  <2>2. ASSUME NEW c \in Publishers, Respond(c), InHand(c, v), UNCHANGED version
        PROVE  UnderReview(v)'
    BY <1>1, <2>2 DEF OneReview, UnderReview, Undecided
  <2>3. ASSUME NEW x \in Sessions, InHand(x, v)' PROVE version'[v].id # 0 /\ (Undecided(x)' => UnderReview(v)')
    BY <1>3, <2>1, <2>2, <2>3, HandSteps DEF UnderReview
  <2>4. ASSUME NEW x \in Sessions, NEW y \in Sessions, InHand(x, v)', InHand(y, v)' PROVE x = y
    <3>1. CASE \E c \in Publishers : Respond(c) /\ InHand(c, v) /\ ~InHand(c, v)'
      <4>1. PICK c \in Publishers : Respond(c) /\ InHand(c, v) /\ ~InHand(c, v)'
        BY <3>1
      <4>2. ~InHand(x, v) /\ ~InHand(y, v)
        BY <1>1, <2>4, <4>1 DEF OneReview
      <4>3. calls' = [calls EXCEPT ![x] = @ + 1] /\ calls' = [calls EXCEPT ![y] = @ + 1] /\ x \in Threads /\ y \in Threads
        BY <1>3, <2>4, <4>2, HandSteps
      <4> QED
        BY <1>1, <4>3, SplitType
    <3>2. CASE ~\E c \in Publishers : Respond(c) /\ InHand(c, v) /\ ~InHand(c, v)'
      <4>1. InHand(x, v) /\ InHand(y, v)
        BY <1>3, <2>4, <3>2, HandSteps
      <4> QED
        BY <1>1, <4>1 DEF OneReview
    <3> QED
      BY <3>1, <3>2
  <2> QED
    BY <2>3, <2>4 DEF OneReview
<1> QED
  BY <1>2, <1>3

LEMMA NextOnce ==
  ASSUME Once, OnceInvariant, [Next]_vars
  PROVE  OnceInvariant'
<1>1. TypeOK /\ TypeOK'
  BY NextType DEF OnceInvariant
<1>2. \A c \in Moderators : Approving(c)'
  BY <1>1, ApprovingKept DEF OnceInvariant
<1> QED
  BY <1>1, <1>2, OnceWhole, OncePublishing, OnceClaimed, OnceReviewed DEF OnceInvariant

-----------------------------------------------------------------------------
(* The abstract life of a version, seen in the rows.                         *)

Stage(v) == StageOf(version[v])

\* A commit that keeps the bytes and takes one version from a stage to another.
LEMMA MoveStep ==
  ASSUME NEW v \in Versions, Only(v), version'[v].sha = version[v].sha,
         NEW from, Stage(v) \in from, NEW to, Stage(v)' = to
  PROVE  Lifecycle!Move(v, from, to)
<1>1. \A u \in Versions \ {v} : Stage(u)' = Stage(u) /\ version'[u].sha = version[u].sha
  BY DEF Only, Stage
<1> QED
  BY <1>1 DEF Lifecycle!Move, Stage

LEMMA SubmitStep ==
  ASSUME NEW v \in Versions, Only(v), NEW a \in Artifacts, version[v].sha # a, version'[v].sha = a,
         version'[v].id # 0, version'[v].ms = "PENDING", version'[v].pr = InitialResult
  PROVE  Lifecycle!Submit(v, a)
<1>1. \A u \in Versions \ {v} : Stage(u)' = Stage(u) /\ version'[u].sha = version[u].sha
  BY DEF Only, Stage
<1>2. Stage(v)' = IF ReviewEnabled THEN "reviewing" ELSE "awaiting"
  BY DEF Stage, StageOf, InitialResult
<1> QED
  BY <1>1, <1>2 DEF Lifecycle!Submit, Stage

LEMMA StillStep ==
  ASSUME \A v \in Versions : Stage(v)' = Stage(v) /\ version'[v].sha = version[v].sha
  PROVE  UNCHANGED Lifecycle!vars
BY DEF Lifecycle!vars, Stage

LEMMA InitLifecycle == Init => Lifecycle!Init
<1> SUFFICES ASSUME Init PROVE Lifecycle!Init
  OBVIOUS
<1>1. \A v \in Versions : Stage(v) = "absent" /\ version[v].sha = None
  BY DEF Init, Stage, StageOf, NoVersion
<1> QED
  BY <1>1 DEF Lifecycle!Init, Stage

\* A step of the life keeps what was approved.
LEMMA LifecycleKeepsApproved ==
  ASSUME [Lifecycle!Next]_(Lifecycle!vars), NEW v \in Successful(version),
         version'[v].id = version[v].id, version'[v].sha = version[v].sha
  PROVE  version'[v].pr = "publish_success"
<1>1. v \in Versions /\ version[v].id # 0 /\ Stage(v) = "published"
  BY DEF Successful, Existing, Stage, StageOf
<1>2. Stage(v)' = "published" => version'[v].pr = "publish_success"
  BY DEF Stage, StageOf
<1>3. CASE UNCHANGED Lifecycle!vars
  BY <1>1, <1>2, <1>3 DEF Lifecycle!vars, Stage
<1>4. ASSUME NEW u \in Versions, NEW a \in Artifacts, Lifecycle!Submit(u, a) PROVE Stage(v)' = "published"
  BY <1>1, <1>4 DEF Lifecycle!Submit, Stage
<1>5. ASSUME NEW u \in Versions, NEW from, NEW to, Lifecycle!Move(u, from, to), "published" \notin from
      PROVE  Stage(v)' = "published"
  BY <1>1, <1>5 DEF Lifecycle!Move, Stage
<1>6. ASSUME NEW u \in Versions,
             \/ Lifecycle!ReviewPasses(u) \/ Lifecycle!ReviewFails(u) \/ Lifecycle!ReviewRestarts(u)
             \/ Lifecycle!Approve(u) \/ Lifecycle!Reject(u)
      PROVE  Stage(v)' = "published"
  BY <1>5, <1>6 DEF Lifecycle!ReviewPasses, Lifecycle!ReviewFails, Lifecycle!ReviewRestarts, Lifecycle!Approve,
                    Lifecycle!Reject
<1>7. ASSUME NEW D \in SUBSET Versions, Lifecycle!Withdraw(D) PROVE Stage(v)' = "published"
  <2>1. Stage(v)' = IF v \in D THEN "absent" ELSE Stage(v)
    BY <1>1, <1>7 DEF Lifecycle!Withdraw, Stage
  <2>2. Stage(v)' # "absent"
    BY <1>1 DEF Stage, StageOf
  <2> QED
    BY <1>1, <2>1, <2>2
<1> QED
  BY <1>2, <1>3, <1>4, <1>6, <1>7 DEF Lifecycle!Next

LEMMA ApprovalLives ==
  ASSUME NEW v \in Versions, Decides(v, {"APPROVED"}, {"publish_success"}), version[v].id # 0, ManualStage(version[v])
  PROVE  [Lifecycle!Next]_(Lifecycle!vars)
<1>1. Stage(v) \in {"awaiting", "rejected"} /\ Stage(v)' = "published"
  BY DEF Decides, ManualStage, Stage, StageOf
<1>2. Lifecycle!Approve(v)
  BY <1>1, MoveStep DEF Decides, Lifecycle!Approve
<1> QED
  BY <1>2 DEF Lifecycle!Next

LEMMA RejectionLives ==
  ASSUME NEW v \in Versions, Decides(v, {"REJECTED"}, {"publish_failed"}), version[v].id # 0,
         version[v].pr = "pending_moderation"
  PROVE  [Lifecycle!Next]_(Lifecycle!vars)
<1>1. Stage(v) \in {"awaiting"} /\ Stage(v)' = "rejected"
  BY DEF Decides, Stage, StageOf
<1>2. Lifecycle!Reject(v)
  BY <1>1, MoveStep DEF Decides, Lifecycle!Reject
<1> QED
  BY <1>2 DEF Lifecycle!Next

\* Each step of an unforced publisher, its reviews and its moderators is one of the life.
LEMMA OnceLives ==
  ASSUME OnceInvariant, [Next]_vars
  PROVE  [Lifecycle!Next]_(Lifecycle!vars)
<1>1. \A v \in Versions : Whole(version[v])
  BY DEF OnceInvariant
<1>2. ASSUME NEW c \in Publishers, PublishCommit(c) PROVE [Lifecycle!Next]_(Lifecycle!vars)
  <2>1. PICK v \in Versions : v = req[c].v
    BY <1>2, OncePublishes
  <2>2. version[v].sha = None /\ req[c].art \in Artifacts
    <3>1. version[v] = NoVersion /\ req[c].art \in Artifacts
      BY <1>2, <2>1, OnceDecides
    <3> QED
      BY <3>1 DEF NoVersion
  <2>3. PICK a \in Artifacts : a = req[c].art
    BY <2>2
  <2>4. /\ Only(v) /\ version'[v].id # 0 /\ version'[v].sha = a
        /\ version'[v].ms = "PENDING" /\ version'[v].pr = InitialResult
    BY <1>2, <2>1, <2>3, OncePublishes
  <2>5. version[v].sha # a
    BY <2>2, SkillPublishAssumption
  <2>6. Lifecycle!Submit(v, a)
    BY <2>4, <2>5, SubmitStep
  <2> QED
    BY <2>6 DEF Lifecycle!Next
<1>3. CASE \A v \in Versions : version'[v] = version[v]
  BY <1>3, StillStep DEF Stage
<1>4. ASSUME NEW v \in Versions, Decides(v, {"APPROVED"}, {"publish_success"}), version[v].id # 0, ManualStage(version[v])
      PROVE  [Lifecycle!Next]_(Lifecycle!vars)
  BY <1>4, ApprovalLives
<1>5. ASSUME NEW v \in Versions, Decides(v, {"REJECTED"}, {"publish_failed"}), version[v].id # 0,
             version[v].pr = "pending_moderation"
      PROVE  [Lifecycle!Next]_(Lifecycle!vars)
  BY <1>5, RejectionLives
<1>6. ASSUME NEW v \in Versions, UnderReview(v),
             Decides(v, {version[v].ms}, {"reviewing", "pending_moderation", "publish_failed"})
      PROVE  [Lifecycle!Next]_(Lifecycle!vars)
  <2>1. /\ Stage(v) \in {"reviewing"} /\ version'[v].id # 0 /\ version'[v].ms = "PENDING"
        /\ Only(v) /\ version'[v].sha = version[v].sha
    BY <1>1, <1>6 DEF Whole, UnderReview, Decides, Stage, StageOf
  <2>2. CASE version'[v].pr = "reviewing"
    <3>1. Stage(v)' = Stage(v)
      BY <2>1, <2>2 DEF Stage, StageOf
    <3> QED
      BY <2>1, <3>1, StillStep DEF Only, Stage
  <2>3. CASE version'[v].pr = "pending_moderation"
    <3>1. Stage(v)' = "awaiting"
      BY <2>1, <2>3 DEF Stage, StageOf
    <3> QED
      BY <2>1, <3>1, MoveStep DEF Lifecycle!ReviewPasses, Lifecycle!Next
  <2>4. CASE version'[v].pr = "publish_failed"
    <3>1. Stage(v)' = "failed"
      BY <2>1, <2>4 DEF Stage, StageOf
    <3> QED
      BY <2>1, <3>1, MoveStep DEF Lifecycle!ReviewFails, Lifecycle!Next
  <2> QED
    BY <1>6, <2>2, <2>3, <2>4 DEF Decides
<1> QED
  BY <1>2, <1>3, <1>4, <1>5, <1>6, OnceRows

\* Published once, each version lives as VersionLifecycle promises, for any numbers of
\* publishers, moderators, processes and versions, on either database, and whatever
\* storage, the engine and the service's own restarts do to a review: two of them never
\* decide one version, and none decides it after a moderator.
THEOREM OnceImplementsLifecycle == ASSUME Once PROVE Spec => ImplementsLifecycle
<1>1. OnceInvariant /\ [Next]_vars => OnceInvariant'
  BY NextOnce
<1>2. OnceInvariant /\ [Next]_vars => [Lifecycle!Next]_(Lifecycle!vars)
  BY OnceLives
<1> QED
  BY <1>1, <1>2, InitOnce, InitLifecycle, PTL DEF Spec, ImplementsLifecycle, Lifecycle!Spec

\* So an approval is final: no late or repeated review undoes it.
THEOREM OnceApprovalIsFinal == ASSUME Once PROVE Spec => ApprovalIsFinal
<1>1. OnceInvariant /\ [Next]_vars => OnceInvariant'
  BY NextOnce
<1>2. OnceInvariant /\ [Next]_vars =>
        [\A v \in Successful(version) :
           version'[v].id = version[v].id /\ version'[v].sha = version[v].sha
             => version'[v].pr = "publish_success"]_vars
  BY OnceLives, LifecycleKeepsApproved
<1> QED
  BY <1>1, <1>2, InitOnce, PTL DEF Spec, ApprovalIsFinal

=============================================================================
