-------------------------- MODULE SkillPublishTypes -------------------------
(***************************************************************************)
(* Type correctness of SkillPublish, for any numbers of versions, packages,*)
(* requests and worker processes and under either database: first what     *)
(* each operator on rows returns, then what a commit does to the tables.   *)
(***************************************************************************)
EXTENDS SkillPublish, TLAPS

Rows == [Versions -> VersionRow]
Reviews == [Versions -> ReviewRow]

LEMMA NewestType ==
  ASSUME NEW S, S \subseteq Versions, NEW rows
  PROVE  Newest(S, rows) \in S \cup {None}
BY DEF Newest

LEMMA AggregateType ==
  ASSUME NEW a \in AssetRow, NEW rows \in Rows
  PROVE  Aggregate(a, rows) \in AssetRow
<1> DEFINE latest == IF a.latest \in Existing(rows) THEN a.latest ELSE Newest(Existing(rows), rows)
<1>1. Existing(rows) \subseteq Versions /\ Successful(rows) \subseteq Versions
  BY DEF Existing, Successful
<1>2. Newest(Successful(rows), rows) \in Versions \cup {None}
  BY <1>1, NewestType
<1>3. latest \in Versions \cup {None}
  BY <1>1, NewestType
<1>4. LatestResult(a.latest, rows) \in PublishResult
  BY <1>3 DEF LatestResult, Rows, VersionRow, PublishResult
<1>5. OverallStatus(rows) \in ModerationStatus
  BY DEF OverallStatus, ModerationStatus
<1> QED
  BY <1>2, <1>4, <1>5 DEF Aggregate, AssetRow

LEMMA AbsentTypes ==
  /\ NoVersion \in VersionRow
  /\ NoReview \in ReviewRow
  /\ \A state \in {"unborn", "live", "deleted"} : NoAsset(state) \in AssetRow
BY DEF NoVersion, NoReview, NoAsset, VersionRow, ReviewRow, AssetRow, ModerationStatus, PublishResult, ReviewStatus

LEMMA ClosedType == Closed \in Session
BY AbsentTypes DEF Closed, Session, Database


\* What the services write are rows.
LEMMA PublishRowsType ==
  ASSUME NEW d \in Database, NEW v \in Versions, NEW a \in Artifacts \cup {None}, NEW n \in Nat
  PROVE  PublishRows(d, v, a, n) \in Database
<1> DEFINE rows == [d.version EXCEPT ![v] = PublishedRow(@, a, n)]
           head == [d.asset EXCEPT !.state = "live", !.latest = v,
                                   !.listing = IF Approved(d.version) # {} THEN @ ELSE a]
<1>1. PublishedRow(d.version[v], a, n) \in VersionRow
  BY DEF PublishedRow, Database, VersionRow, InitialResult, ModerationStatus, PublishResult
<1>2. rows \in Rows
  BY <1>1 DEF Database, Rows
<1>3. head \in AssetRow
  BY DEF Database, AssetRow
<1>4. Aggregate(head, rows) \in AssetRow
  BY <1>2, <1>3, AggregateType
<1>5. [d.review EXCEPT ![v] = Queued] \in Reviews
  BY DEF Database, Reviews, Queued, ReviewRow, ReviewStatus
<1> QED
  BY <1>2, <1>4, <1>5 DEF PublishRows, Database, Rows, Reviews

\* The other services only set the two decision columns of one version.
LEMMA DecidedType ==
  ASSUME NEW d \in Database, NEW v \in Versions, NEW m \in ModerationStatus, NEW r \in PublishResult
  PROVE  /\ [d.version EXCEPT ![v].pr = r] \in Rows
         /\ [d.version EXCEPT ![v].pr = r, ![v].ms = m] \in Rows
         /\ [d.version EXCEPT ![v].ms = m, ![v].pr = r] \in Rows
<1>1. d.version \in Rows
  BY DEF Database, Rows
<1> QED
  BY <1>1 DEF Rows, VersionRow

LEMMA RestartRowsType ==
  ASSUME NEW d \in Database, NEW v \in Versions
  PROVE  RestartRows(d, v) \in Database
<1> DEFINE rows == [d.version EXCEPT ![v].pr = "reviewing", ![v].ms = "PENDING"]
<1>1. rows \in Rows
  BY DecidedType DEF ModerationStatus, PublishResult
<1>2. Aggregate(d.asset, rows) \in AssetRow
  BY <1>1, AggregateType DEF Database
<1>3. [d.review EXCEPT ![v] = Queued] \in Reviews
  BY DEF Database, Reviews, Queued, ReviewRow, ReviewStatus
<1> QED
  BY <1>1, <1>2, <1>3 DEF RestartRows, Database, Rows, Reviews

LEMMA ApproveRowsType ==
  ASSUME NEW d \in Database, NEW v \in Versions, store \in [Versions -> Artifacts \cup {None}]
  PROVE  ApproveRows(d, v) \in Database
<1> DEFINE rows == [d.version EXCEPT ![v].ms = "APPROVED", ![v].pr = "publish_success"]
           public == Newest(Approved(rows), rows)
           shown == IF public = None THEN d.asset.listing ELSE store[public]
<1>1. rows \in Rows
  BY DecidedType DEF ModerationStatus, PublishResult
<1>2. Aggregate(d.asset, rows) \in AssetRow
  BY <1>1, AggregateType DEF Database
<1>3. public \in Versions \cup {None}
  <2>1. Approved(rows) \subseteq Versions
    BY DEF Approved, Existing
  <2> QED
    BY <2>1, NewestType
<1>4. shown \in Artifacts \cup {None}
  BY <1>3 DEF Database, AssetRow
<1>5. [Aggregate(d.asset, rows) EXCEPT !.listing = shown] \in AssetRow
  BY <1>2, <1>4 DEF AssetRow
<1> QED
  BY <1>1, <1>5 DEF ApproveRows, Database, Rows

LEMMA RejectRowsType ==
  ASSUME NEW d \in Database, NEW v \in Versions
  PROVE  RejectRows(d, v) \in Database
<1> DEFINE rows == [d.version EXCEPT ![v].ms = "REJECTED", ![v].pr = "publish_failed"]
<1>1. rows \in Rows
  BY DecidedType DEF ModerationStatus, PublishResult
<1>2. Aggregate(d.asset, rows) \in AssetRow
  BY <1>1, AggregateType DEF Database
<1> QED
  BY <1>1, <1>2 DEF RejectRows, Database, Rows

LEMMA DeleteRowsType ==
  ASSUME NEW d \in Database, NEW D
  PROVE  DeleteRows(d, D) \in Database
<1> DEFINE rows == [v \in Versions |-> IF v \in D THEN NoVersion ELSE d.version[v]]
           left == Existing(rows)
           head == [d.asset EXCEPT !.latest = Newest(left, rows)]
<1>1. rows \in Rows
  BY AbsentTypes DEF Database, Rows
<1>2. Newest(left, rows) \in Versions \cup {None}
  BY NewestType DEF Existing
<1>3. head \in AssetRow
  BY <1>2 DEF Database, AssetRow
<1>4. Aggregate(head, rows) \in AssetRow
  BY <1>1, <1>3, AggregateType
<1>5. [v \in Versions |-> IF v \in D THEN NoReview ELSE d.review[v]] \in Reviews
  BY AbsentTypes DEF Database, Reviews
<1> QED
  BY <1>1, <1>4, <1>5, AbsentTypes DEF DeleteRows, Database, Rows, Reviews

LEMMA VerdictRowsType ==
  ASSUME NEW d \in Database, NEW v \in Versions, NEW passed \in BOOLEAN, NEW sha \in Artifacts \cup {None}
  PROVE  VerdictRows(d, v, passed, sha) \in Database
<1> DEFINE result == IF passed THEN "pending_moderation" ELSE "publish_failed"
           rows == [d.version EXCEPT ![v].pr = result]
           verdict == IF passed THEN [status |-> "passed", passed |-> sha]
                      ELSE [d.review[v] EXCEPT !.status = "failed"]
<1>1. rows \in Rows
  BY DecidedType DEF ModerationStatus, PublishResult
<1>2. Aggregate(d.asset, rows) \in AssetRow
  BY <1>1, AggregateType DEF Database
<1>3. verdict \in ReviewRow
  BY DEF Database, ReviewRow, ReviewStatus
<1>4. [d.review EXCEPT ![v] = verdict] \in Reviews
  BY <1>3 DEF Database, Reviews
<1> QED
  BY <1>1, <1>2, <1>4 DEF VerdictRows, Database, Rows, Reviews

LEMMA FailedRowsType ==
  ASSUME NEW d \in Database, NEW v \in Versions
  PROVE  FailedRows(d, v) \in Database
<1> DEFINE found == d.version[v].id # 0
           rows == IF found THEN [d.version EXCEPT ![v].pr = "publish_failed"] ELSE d.version
           reviews == IF found THEN [d.review EXCEPT ![v].status = "system_failed"] ELSE d.review
           head == IF d.asset.state = "live" THEN Aggregate(d.asset, rows) ELSE d.asset
<1>1. rows \in Rows
  <2>1. [d.version EXCEPT ![v].pr = "publish_failed"] \in Rows
    BY DecidedType DEF ModerationStatus, PublishResult
  <2> QED
    BY <2>1 DEF Database, Rows
<1>2. head \in AssetRow
  BY <1>1, AggregateType DEF Database
<1>3. reviews \in Reviews
  BY DEF Database, Reviews, ReviewRow, ReviewStatus
<1> QED
  BY <1>1, <1>2, <1>3 DEF FailedRows, Database, Rows, Reviews

LEMMA RunningRowsType ==
  ASSUME NEW d \in Database, NEW v \in Versions
  PROVE  RunningRows(d, v) \in Database
BY DEF RunningRows, Database, ReviewRow, ReviewStatus

\* A commit leaves rows behind, whichever columns it merged.
LEMMA MergeTypes ==
  /\ \A l, n, c \in VersionRow : MergeVersion(l, n, c) \in VersionRow
  /\ \A l, n, c \in ReviewRow : MergeReview(l, n, c) \in ReviewRow
  /\ \A l, n, c \in AssetRow : MergeAsset(l, n, c) \in AssetRow
<1>1. \A l, n, c \in VersionRow : MergeVersion(l, n, c) \in VersionRow
  BY DEF MergeVersion, Column, VersionRow
<1>2. \A l, n, c \in ReviewRow : MergeReview(l, n, c) \in ReviewRow
  BY DEF MergeReview, Column, ReviewRow
<1>3. \A l, n, c \in AssetRow : MergeAsset(l, n, c) \in AssetRow
  BY DEF MergeAsset, Column, AssetRow
<1> QED
  BY <1>1, <1>2, <1>3

LEMMA WrittenType ==
  ASSUME NEW l, NEW n, NEW touched, touched \subseteq Keys
  PROVE  Written(l, n, touched) \subseteq Keys
BY DEF Written, Keys

LEMMA SessionTypes ==
  ASSUME TypeOK, NEW s \in Sessions
  PROVE  /\ snap(s) \in Database
         /\ \A v \in Versions : LockedView(s, v) \in Database
         /\ OpenSession(s) => sess' \in [Sessions -> Session]
         /\ CloseSession(s) => sess' \in [Sessions -> Session]
         /\ \A W \in SUBSET Keys : CommitSession(s, W) => sess' \in [Sessions -> Session]
<1>1. snap(s) \in Database /\ Current \in Database
  BY DEF TypeOK, Session, snap
<1>2. \A v \in Versions : LockedView(s, v) \in Database
  BY <1>1 DEF LockedView, Database, Current
<1>3. OpenSession(s) => sess' \in [Sessions -> Session]
  BY <1>1 DEF OpenSession, TypeOK, Session
<1>4. CloseSession(s) => sess' \in [Sessions -> Session]
  BY ClosedType DEF CloseSession, TypeOK
<1>5. ASSUME NEW W \in SUBSET Keys, CommitSession(s, W) PROVE sess' \in [Sessions -> Session]
  <2>1. \A x \in Sessions : [sess[x] EXCEPT !.stale = @ \cup W] \in Session
    BY DEF TypeOK, Session
  <2> QED
    BY <1>5, <2>1, ClosedType DEF CommitSession, TypeOK
<1> QED
  BY <1>1, <1>2, <1>3, <1>4, <1>5

LEMMA CommitType ==
  ASSUME TypeOK, NEW s \in Sessions, NEW l \in Database, NEW n \in Database,
         NEW touched \in SUBSET Keys, Commit(s, l, n, touched)
  PROVE  Current' \in Database /\ sess' \in [Sessions -> Session]
<1>1. sess' \in [Sessions -> Session]
  BY SessionTypes, WrittenType DEF Commit
<1>2. Current \in Database
  BY DEF TypeOK
<1>3. asset' \in AssetRow
  BY <1>2, MergeTypes DEF Commit, Database, Current
<1>4. version' \in Rows
  BY <1>2, MergeTypes DEF Commit, Database, Current, Rows
<1>5. review' \in Reviews
  BY <1>2, MergeTypes DEF Commit, Database, Current, Reviews
<1> QED
  BY <1>1, <1>3, <1>4, <1>5 DEF Current, Database, Rows, Reviews

Users == Publishers \cup Moderators

ReqType ==
  /\ req \in [Users -> Request]
  /\ \A c \in Users : req[c].step \notin {"idle", "purge", "finish"} => req[c].v \in Versions

LEMMA SplitType ==
  TypeOK <=> /\ Current \in Database /\ store \in [Versions -> Artifacts \cup {None}]
             /\ ReqType /\ task \in [Threads -> Task] /\ calls \in [Threads -> Nat]
             /\ sess \in [Sessions -> Session] /\ clock \in Nat
BY DEF TypeOK, ReqType, Users

LEMMA JoinType ==
  ASSUME Current' \in Database, store' \in [Versions -> Artifacts \cup {None}], ReqType',
         task' \in [Threads -> Task], calls' \in [Threads -> Nat],
         sess' \in [Sessions -> Session], clock' \in Nat
  PROVE  TypeOK'
BY DEF TypeOK, ReqType, Users

LEMMA IdleTypes == Idle \in Request /\ IdleTask \in Task
BY DEF Idle, IdleTask, Request, Task, PublishResult

LEMMA EndType == ASSUME TypeOK, NEW c \in Users, End(c) PROVE ReqType'
<1>1. req' = [req EXCEPT ![c] = Idle]
  BY DEF End
<1> QED
  BY <1>1, IdleTypes DEF TypeOK, ReqType, Users, Idle

\* A request that starts names the version it is about, or versions to delete.
LEMMA StartType ==
  ASSUME TypeOK, NEW c \in Users, NEW r \in Request, req' = [req EXCEPT ![c] = r],
         r.step \notin {"idle", "purge", "finish"} => r.v \in Versions
  PROVE  ReqType'
BY DEF TypeOK, ReqType, Users

LEMMA RequestSessions == Users \subseteq Sessions /\ Threads \subseteq Sessions
BY DEF Users, Sessions

\* Requests arriving.
LEMMA ArriveType == ASSUME TypeOK, Arrive PROVE TypeOK'
<1> USE RequestSessions
<1>1. ASSUME NEW c \in Publishers, NEW v \in Versions, NEW a \in Artifacts, PublishBegin(c, v, a)
      PROVE  TypeOK'
  <2> DEFINE r == [Idle EXCEPT !.step = "upload", !.v = v, !.art = a]
  <2>1. r \in Request /\ r.v \in Versions /\ req' = [req EXCEPT ![c] = r]
    BY <1>1, IdleTypes DEF PublishBegin, Idle, Request
  <2>2. ReqType'
    BY <2>1, StartType DEF Users
  <2>3. sess' \in [Sessions -> Session]
    BY <1>1, SessionTypes DEF PublishBegin, Users
  <2> QED
    BY <1>1, <2>2, <2>3, SplitType, JoinType DEF PublishBegin, tables, Current
<1>2. ASSUME NEW c \in Publishers, NEW v \in Versions, PublishAgain(c, v)
      PROVE  TypeOK'
  <2> DEFINE restart == [Idle EXCEPT !.step = "restart", !.v = v]
             reply == [Idle EXCEPT !.step = "reply", !.v = v, !.reply = version[v].pr]
  <2>1. version[v].pr \in PublishResult
    BY DEF TypeOK, Current, Database, VersionRow
  <2>2. restart \in Request /\ reply \in Request /\ restart.v \in Versions /\ reply.v \in Versions
    BY <2>1, IdleTypes DEF Idle, Request
  <2>3. req' = [req EXCEPT ![c] = restart] \/ req' = [req EXCEPT ![c] = reply]
    BY <1>2 DEF PublishAgain
  <2>4. ReqType'
    BY <2>2, <2>3, StartType DEF Users
  <2>5. sess' \in [Sessions -> Session]
    BY <1>2, SessionTypes, SplitType DEF PublishAgain, Users
  <2> QED
    BY <1>2, <2>4, <2>5, SplitType, JoinType DEF PublishAgain, tables, Current
<1>3. ASSUME NEW c \in Moderators, NEW v \in Versions, ApproveBegin(c, v) \/ RejectBegin(c, v)
      PROVE  TypeOK'
  <2> DEFINE approve == [Idle EXCEPT !.step = "approve", !.v = v]
             reject == [Idle EXCEPT !.step = "reject", !.v = v]
  <2>1. approve \in Request /\ reject \in Request /\ approve.v \in Versions /\ reject.v \in Versions
    BY IdleTypes DEF Idle, Request
  <2>2. req' = [req EXCEPT ![c] = approve] \/ req' = [req EXCEPT ![c] = reject]
    BY <1>3 DEF ApproveBegin, RejectBegin
  <2>3. ReqType'
    BY <2>1, <2>2, StartType DEF Users
  <2>4. sess' \in [Sessions -> Session]
    BY <1>3, SessionTypes DEF ApproveBegin, RejectBegin, Users
  <2> QED
    BY <1>3, <2>3, <2>4, SplitType, JoinType DEF ApproveBegin, RejectBegin, tables, Current
<1>4. ASSUME NEW c \in Publishers, NEW D \in SUBSET Versions, DeleteBegin(c, D)
      PROVE  TypeOK'
  <2> DEFINE r == [Idle EXCEPT !.step = "purge", !.doomed = D]
  <2>1. r \in Request /\ r.step = "purge" /\ req' = [req EXCEPT ![c] = r]
    BY <1>4, IdleTypes DEF DeleteBegin, Idle, Request
  <2>2. ReqType'
    BY <2>1, StartType DEF Users
  <2>3. sess' \in [Sessions -> Session]
    BY <1>4, SessionTypes DEF DeleteBegin, Users
  <2> QED
    BY <1>4, <2>2, <2>3, SplitType, JoinType DEF DeleteBegin, tables, Current
<1> QED
  BY <1>1, <1>2, <1>3, <1>4 DEF Arrive

LEMMA TouchedTypes ==
  /\ AssetKey \in Keys
  /\ \A v \in Versions : VersionKey(v) \in Keys /\ ReviewKey(v) \in Keys /\ PublishWrites(v) \subseteq Keys
  /\ \A D \in SUBSET Versions : RowsOf(D) \subseteq Keys
BY DEF Keys, PublishWrites, RowsOf

\* The last steps of a commit that leaves the object store and memory alone.
LEMMA CommittedType ==
  ASSUME TypeOK, NEW s \in Sessions, NEW l \in Database, NEW n \in Database, NEW touched \in SUBSET Keys,
         Commit(s, l, n, touched), ReqType', UNCHANGED store,
         task' \in [Threads -> Task], calls' \in [Threads -> Nat], clock' \in Nat
  PROVE  TypeOK'
BY CommitType, SplitType, JoinType

\* A publisher's request being served.
LEMMA ServeType == ASSUME TypeOK, NEW c \in Publishers, Serve(c) PROVE TypeOK'
<1> USE RequestSessions
<1>0. c \in Users /\ c \in Sessions /\ req[c] \in Request /\ snap(c) \in Database
  BY SessionTypes, SplitType DEF Users, ReqType
<1>1. CASE PublishUpload(c)
  <2>1. req[c].art \in Artifacts \cup {None}
    BY <1>0 DEF Request
  <2>2. ReqType'
    BY <1>0, <1>1, SplitType DEF PublishUpload, ReqType, Request
  <2>3. store' \in [Versions -> Artifacts \cup {None}]
    BY <1>1, <2>1, SplitType DEF PublishUpload
  <2> QED
    BY <1>1, <2>2, <2>3, SplitType, JoinType DEF PublishUpload, tables, Current
<1>2. CASE PublishUploadFails(c)
  <2>1. sess' \in [Sessions -> Session]
    BY <1>0, <1>2, SessionTypes DEF PublishUploadFails
  <2> QED
    BY <1>0, <1>2, <2>1, EndType, SplitType, JoinType DEF PublishUploadFails, tables, Current
<1>3. CASE PublishCommit(c)
  <2> DEFINE v == req[c].v
             n == PublishRows(snap(c), v, req[c].art, clock')
  <2>1. v \in Versions /\ req[c].art \in Artifacts \cup {None} /\ clock' \in Nat
    BY <1>0, <1>3, SplitType DEF PublishCommit, ReqType, Request
  <2>2. n \in Database
    BY <1>0, <2>1, PublishRowsType
  <2>3. Commit(c, snap(c), n, PublishWrites(v)) /\ PublishWrites(v) \in SUBSET Keys
    BY <1>3, <2>1, TouchedTypes DEF PublishCommit
  <2>4. version'[v].pr \in PublishResult
    BY <1>0, <2>1, <2>2, <2>3, CommitType DEF Current, Database, VersionRow
  <2>5. ReqType'
    BY <1>0, <1>3, <2>1, <2>4, SplitType DEF PublishCommit, ReqType, Request
  <2> QED
    BY <1>0, <1>3, <2>1, <2>2, <2>3, <2>5, CommittedType, SplitType DEF PublishCommit
<1>4. CASE RestartCommit(c)
  <2> DEFINE v == req[c].v
             n == RestartRows(snap(c), v)
  <2>1. v \in Versions
    BY <1>0, <1>4, SplitType DEF RestartCommit, ReqType
  <2>2. n \in Database
    BY <1>0, <2>1, RestartRowsType
  <2>3. Commit(c, snap(c), n, {ReviewKey(v)}) /\ {ReviewKey(v)} \in SUBSET Keys
    BY <1>4, <2>1, TouchedTypes DEF RestartCommit
  <2>4. version'[v].pr \in PublishResult
    BY <1>0, <2>1, <2>2, <2>3, CommitType DEF Current, Database, VersionRow
  <2>5. ReqType'
    BY <1>0, <1>4, <2>1, <2>4, SplitType DEF RestartCommit, ReqType, Request
  <2> QED
    BY <1>0, <1>4, <2>2, <2>3, <2>5, CommittedType, SplitType DEF RestartCommit
<1>5. CASE PublishRefused(c)
  <2>1. End(c) /\ CloseSession(c) /\ UNCHANGED <<tables, store, task, calls, clock>>
    BY <1>5 DEF PublishRefused
  <2>2. sess' \in [Sessions -> Session]
    BY <1>0, <2>1, SessionTypes
  <2> QED
    BY <1>0, <2>1, <2>2, EndType, SplitType, JoinType DEF tables, Current
<1>6. CASE ChangelogFails(c)
  BY <1>0, <1>6, EndType, SplitType, JoinType DEF ChangelogFails, tables, Current
<1>7. CASE Respond(c)
  <2>1. calls' \in [Threads -> Nat]
    <3>1. calls \in [Threads -> Nat] /\ req[c].v \in Versions
      BY <1>0, <1>7, SplitType DEF Respond, ReqType
    <3>2. CASE req[c].reply = "reviewing"
      <4>1. PICK w \in Workers : calls' = [calls EXCEPT ![<<w, req[c].v>>] = @ + 1]
        BY <1>7, <3>2 DEF Respond
      <4>2. <<w, req[c].v>> \in Threads
        BY <3>1 DEF Threads
      <4> QED
        BY <3>1, <4>1, <4>2
    <3> QED
      BY <1>7, <3>1, <3>2 DEF Respond
  <2> QED
    BY <1>0, <1>7, <2>1, EndType, SplitType, JoinType DEF Respond, tables, Current
<1>8. CASE DeletePurge(c)
  <2>1. ReqType'
    BY <1>0, <1>8, SplitType DEF DeletePurge, ReqType, Request
  <2>2. store' \in [Versions -> Artifacts \cup {None}]
    BY <1>8, SplitType DEF DeletePurge
  <2> QED
    BY <1>8, <2>1, <2>2, SplitType, JoinType DEF DeletePurge, tables, Current
<1>9. CASE DeletePurgeFails(c)
  <2>1. store' \in [Versions -> Artifacts \cup {None}]
    BY <1>9, SplitType DEF DeletePurgeFails
  <2>2. sess' \in [Sessions -> Session]
    BY <1>0, <1>9, SessionTypes DEF DeletePurgeFails
  <2> QED
    BY <1>0, <1>9, <2>1, <2>2, EndType, SplitType, JoinType DEF DeletePurgeFails, tables, Current
<1>10. CASE DeleteFinish(c)
  <2> DEFINE D == req[c].doomed
  <2>1. DeleteRows(snap(c), D) \in Database
    BY <1>0, DeleteRowsType
  <2>2. RowsOf(D) \in SUBSET Keys
    BY <1>0, TouchedTypes DEF Request
  <2>3. ReqType'
    BY <1>0, <1>10, EndType DEF DeleteFinish
  <2> QED
    BY <1>0, <1>10, <2>1, <2>2, <2>3, CommittedType, SplitType DEF DeleteFinish
<1> QED
  BY <1>1, <1>2, <1>3, <1>4, <1>5, <1>6, <1>7, <1>8, <1>9, <1>10 DEF Serve

\* A moderator's request being served.
LEMMA ModerateType == ASSUME TypeOK, NEW c \in Moderators, Moderate(c) PROVE TypeOK'
<1> USE RequestSessions
<1> DEFINE v == req[c].v
<1>0. c \in Users /\ c \in Sessions
  BY DEF Users
<1>1. CASE ApproveCommit(c)
  <2>1. v \in Versions /\ LockedView(c, v) \in Database
    BY <1>0, <1>1, SplitType, SessionTypes DEF ApproveCommit, ReqType
  <2>2. ApproveRows(LockedView(c, v), v) \in Database
    BY <2>1, ApproveRowsType, SplitType
  <2>3. {AssetKey, VersionKey(v)} \in SUBSET Keys
    BY <2>1, TouchedTypes
  <2>4. ReqType'
    BY <1>0, <1>1, EndType DEF ApproveCommit
  <2> QED
    BY <1>0, <1>1, <2>1, <2>2, <2>3, <2>4, CommittedType, SplitType DEF ApproveCommit
<1>2. CASE ApproveRefused(c) \/ RejectRefused(c)
  <2>1. End(c) /\ CloseSession(c) /\ UNCHANGED <<tables, store, task, calls, clock>>
    BY <1>2 DEF ApproveRefused, RejectRefused
  <2>2. sess' \in [Sessions -> Session]
    BY <1>0, <2>1, SessionTypes
  <2> QED
    BY <1>0, <2>1, <2>2, EndType, SplitType, JoinType DEF tables, Current
<1>3. CASE RejectCommit(c)
  <2>1. v \in Versions /\ LockedView(c, v) \in Database
    BY <1>0, <1>3, SplitType, SessionTypes DEF RejectCommit, ReqType
  <2>2. RejectRows(LockedView(c, v), v) \in Database
    BY <2>1, RejectRowsType
  <2>3. {VersionKey(v)} \in SUBSET Keys
    BY <2>1, TouchedTypes
  <2>4. ReqType'
    BY <1>0, <1>3, EndType DEF RejectCommit
  <2> QED
    BY <1>0, <1>3, <2>1, <2>2, <2>3, <2>4, CommittedType, SplitType DEF RejectCommit
<1> QED
  BY <1>1, <1>2, <1>3 DEF Moderate

\* A review thread's step.
LEMMA ReviewType == ASSUME TypeOK, NEW t \in Threads, Review(t) PROVE TypeOK'
<1> USE RequestSessions
<1> DEFINE v == t[2]
<1>0. /\ t \in Sessions /\ v \in Versions /\ task[t] \in Task /\ snap(t) \in Database
      /\ task \in [Threads -> Task] /\ calls \in [Threads -> Nat]
      /\ {ReviewKey(v)} \in SUBSET Keys
  BY SessionTypes, SplitType, TouchedTypes DEF Threads
<1>r. UNCHANGED req => ReqType'
  BY SplitType DEF ReqType
<1>1. CASE ClaimReview(t)
  <2>1. task' \in [Threads -> Task] /\ calls' \in [Threads -> Nat]
    BY <1>0, <1>1 DEF ClaimReview, Task
  <2> QED
    BY <1>1, <1>r, <2>1, SplitType, JoinType DEF ClaimReview, tables, Current
<1>2. CASE SkipReview(t)
  <2>1. calls' \in [Threads -> Nat]
    BY <1>0, <1>2 DEF SkipReview
  <2> QED
    BY <1>2, <1>r, <2>1, SplitType, JoinType DEF SkipReview, tables, Current
<1>3. CASE LoadReviewTarget(t)
  <2>1. version[v].sha \in Artifacts \cup {None}
    BY <1>0, SplitType DEF Current, Database, VersionRow
  <2>2. task' \in [Threads -> Task]
    BY <1>0, <1>3, <2>1 DEF LoadReviewTarget, Task
  <2>3. sess' \in [Sessions -> Session]
    BY <1>0, <1>3, SessionTypes, SplitType DEF LoadReviewTarget
  <2> QED
    BY <1>3, <1>r, <2>2, <2>3, SplitType, JoinType DEF LoadReviewTarget, tables, Current
<1>4. CASE MarkRunning(t)
  <2>1. task' \in [Threads -> Task] /\ UNCHANGED <<store, req, calls, clock>>
    BY <1>0, <1>4 DEF MarkRunning, Task
  <2>2. CASE Commit(t, snap(t), RunningRows(snap(t), v), {ReviewKey(v)})
    BY <1>0, <1>r, <2>1, <2>2, RunningRowsType, CommittedType, SplitType
  <2>3. CASE CloseSession(t) /\ UNCHANGED tables
    BY <1>0, <1>r, <2>1, <2>3, SessionTypes, SplitType, JoinType DEF tables, Current
  <2> QED
    BY <1>4, <2>2, <2>3 DEF MarkRunning
<1>5. CASE RunReview(t)
  <2>1. store[v] \in Artifacts \cup {None}
    BY <1>0, SplitType
  <2>2. task' \in [Threads -> Task]
    BY <1>0, <1>5, <2>1 DEF RunReview, Task
  <2> QED
    BY <1>5, <1>r, <2>2, SplitType, JoinType DEF RunReview, tables, Current
<1>6. CASE RunReviewFails(t)
  <2>1. task' \in [Threads -> Task]
    BY <1>0, <1>6 DEF RunReviewFails, Task
  <2> QED
    BY <1>6, <1>r, <2>1, SplitType, JoinType DEF RunReviewFails, tables, Current
<1>7. CASE Reload(t)
  <2>1. task' \in [Threads -> Task]
    BY <1>0, <1>7 DEF Reload, Task
  <2>2. sess' \in [Sessions -> Session]
    BY <1>0, <1>7, SessionTypes, SplitType DEF Reload
  <2> QED
    BY <1>7, <1>r, <2>1, <2>2, SplitType, JoinType DEF Reload, tables, Current
<1>8. CASE WriteVerdict(t)
  <2>1. task' \in [Threads -> Task]
    BY <1>0, <1>8 DEF WriteVerdict, Task
  <2>2. Verdict(t) \in Database
    <3>1. (task[t].got \in Compliant) \in BOOLEAN /\ task[t].sha \in Artifacts \cup {None}
      BY <1>0 DEF Task
    <3>2. VerdictRows(snap(t), v, task[t].got \in Compliant, task[t].sha) \in Database
      BY <1>0, <3>1, VerdictRowsType
    <3> QED
      BY <3>2 DEF Verdict
  <2> QED
    BY <1>0, <1>8, <1>r, <2>1, <2>2, CommittedType, SplitType DEF WriteVerdict
<1>9. CASE WriteVerdictFails(t)
  <2>1. task' \in [Threads -> Task]
    <3>1. \/ task' = [task EXCEPT ![t].pc = "reload", ![t].tries = @ + 1]
          \/ task' = [task EXCEPT ![t].pc = "fail", ![t].tries = @]
      BY <1>9 DEF WriteVerdictFails
    <3> QED
      BY <1>0, <3>1 DEF Task
  <2>2. sess' \in [Sessions -> Session]
    BY <1>0, <1>9, SessionTypes DEF WriteVerdictFails
  <2> QED
    BY <1>9, <1>r, <2>1, <2>2, SplitType, JoinType DEF WriteVerdictFails, tables, Current
<1>10. CASE LoadFailed(t)
  <2>1. task' \in [Threads -> Task]
    BY <1>0, <1>10 DEF LoadFailed, Task
  <2>2. sess' \in [Sessions -> Session]
    BY <1>0, <1>10, SessionTypes DEF LoadFailed
  <2> QED
    BY <1>10, <1>r, <2>1, <2>2, SplitType, JoinType DEF LoadFailed, tables, Current
<1>11. CASE WriteFailed(t)
  <2>1. task' \in [Threads -> Task] /\ UNCHANGED <<store, req, calls, clock>>
    BY <1>0, <1>11 DEF WriteFailed, Task
  <2>2. FailedWrites(t) \in SUBSET Keys
    BY <1>0 DEF FailedWrites
  <2>3. CASE Commit(t, snap(t), FailedRows(snap(t), v), FailedWrites(t))
    BY <1>0, <1>r, <2>1, <2>2, <2>3, FailedRowsType, CommittedType, SplitType
  <2>4. CASE CloseSession(t) /\ UNCHANGED tables
    BY <1>0, <1>r, <2>1, <2>4, SessionTypes, SplitType, JoinType DEF tables, Current
  <2> QED
    BY <1>11, <2>3, <2>4 DEF WriteFailed
<1>12. CASE ReleaseReview(t)
  <2>1. task' \in [Threads -> Task] /\ calls' \in [Threads -> Nat]
    BY <1>0, <1>12, IdleTypes DEF ReleaseReview
  <2> QED
    BY <1>12, <1>r, <2>1, SplitType, JoinType DEF ReleaseReview, tables, Current
<1> QED
  BY <1>1, <1>2, <1>3, <1>4, <1>5, <1>6, <1>7, <1>8, <1>9, <1>10, <1>11, <1>12 DEF Review

\* A restart of the service.
LEMMA RestartType == ASSUME TypeOK, Restart PROVE TypeOK'
<1>1. ReqType'
  <2>1. req' = [c \in Users |-> Idle] /\ Idle.step = "idle"
    BY DEF Restart, Users, Idle
  <2> QED
    BY <2>1, IdleTypes DEF ReqType
<1>2. /\ task' \in [Threads -> Task] /\ calls' \in [Threads -> Nat]
      /\ sess' \in [Sessions -> Session]
  BY IdleTypes, ClosedType DEF Restart
<1> QED
  BY <1>1, <1>2, SplitType, JoinType DEF Restart, tables, Current

LEMMA InitType == Init => TypeOK
<1> SUFFICES ASSUME Init PROVE TypeOK
  OBVIOUS
<1>1. ReqType
  BY IdleTypes DEF Init, ReqType, Users, Idle
<1>2. Current \in Database
  BY AbsentTypes DEF Init, Current, Database
<1> QED
  BY <1>1, <1>2, IdleTypes, ClosedType, SplitType DEF Init

LEMMA NextType == TypeOK /\ [Next]_vars => TypeOK'
<1> SUFFICES ASSUME TypeOK, [Next]_vars PROVE TypeOK'
  OBVIOUS
<1>1. CASE UNCHANGED vars
  BY <1>1 DEF TypeOK, vars, tables, Current, ReqType
<1>2. CASE Next
  BY <1>2, ArriveType, ServeType, ModerateType, ReviewType, RestartType DEF Next
<1> QED
  BY <1>1, <1>2

\* Every reachable state is of the shape the tables, the object store and the memory of
\* the processes have, whatever the bounds and whichever database is underneath.
THEOREM TypeCorrect == Spec => []TypeOK
BY InitType, NextType, PTL DEF Spec

=============================================================================
