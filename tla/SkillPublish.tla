---------------------------- MODULE SkillPublish ----------------------------
(***************************************************************************)
(* Publish, system review, manual moderation and deletion of the versions  *)
(* of one Skill asset of an ordinary (non-administrator) publisher:        *)
(* services/plugin.py, services/skill_review.py, core/publish_result.py.   *)
(*                                                                         *)
(* Three stores are involved and no transaction spans them: the tables     *)
(* (asset, version, review), the object store (store) and the memory of    *)
(* the worker processes (task, calls).  A request or a review thread reads *)
(* a snapshot of the tables, does slow I/O, then commits what its ORM      *)
(* objects changed.  SnapshotConflicts says which database is underneath:  *)
(*   FALSE  MySQL InnoDB at REPEATABLE READ (docker-compose): an UPDATE    *)
(*          hits the current row and sets only the columns whose value     *)
(*          differs from the one the session had loaded;                   *)
(*   TRUE   MariaDB with innodb_snapshot_isolation: an UPDATE of a row     *)
(*          committed by somebody else since the snapshot fails (error     *)
(*          1020, which the review thread retries).                        *)
(***************************************************************************)
EXTENDS Naturals, FiniteSets

CONSTANTS
  Versions,          \* version numbers of the asset
  Artifacts,         \* package bytes; a package and its SHA-256 are the same value
  None,              \* no version, no artifact, no object
  Publishers,        \* slots for concurrent requests of the asset's publisher
  Moderators,        \* slots for concurrent requests of moderators
  Workers,           \* marketplace processes (STORE_WORKERS)
  Compliant,         \* artifacts the review engine answers "approved" for
  ReviewEnabled,     \* settings.skill_review_enabled
  SnapshotConflicts, \* the database's isolation, see above
  Ops,               \* what users do: publish, force, retry, approve, reject, delete
  Faults,            \* what may fail: storage, engine, crash
  MaxPublishes,      \* bound: publish commits in a behaviour
  MaxCalls,          \* bound: review calls outstanding when a retry starts
  MaxAttempts        \* write-back attempts of a review (the code: 4)

Threads == Workers \X Versions
Sessions == Publishers \cup Moderators \cup Threads

ASSUME SkillPublishAssumption ==
  /\ None \notin Versions \cup Artifacts
  /\ Publishers \cap Moderators = {}
  /\ (Publishers \cup Moderators) \cap Threads = {}
  /\ Compliant \subseteq Artifacts
  /\ ReviewEnabled \in BOOLEAN
  /\ SnapshotConflicts \in BOOLEAN
  /\ MaxPublishes \in Nat /\ MaxCalls \in Nat /\ MaxAttempts \in Nat

VARIABLES
  asset,    \* the market_assets row
  version,  \* market_asset_versions rows
  review,   \* market_skill_reviews rows
  store,    \* the object under each version's key
  req,      \* requests being served
  task,     \* review threads; a thread that is not idle holds its process's claim
  calls,    \* schedule_skill_publish_review calls not executed yet
  sess,     \* open database sessions: snapshot, and rows others committed since
  clock     \* publish commits so far: ids and creation times

vars == <<asset, version, review, store, req, task, calls, sess, clock>>
tables == <<asset, version, review>>

-----------------------------------------------------------------------------
(* Rows. *)

ModerationStatus == {"NULL", "PENDING", "APPROVED", "REJECTED"}
PublishResult == {"NULL", "reviewing", "pending_moderation", "publish_success", "publish_failed"}
ReviewStatus == {"absent", "queued", "running", "passed", "failed", "system_failed"}

VersionRow == [id : Nat, sha : Artifacts \cup {None}, ct : Nat,
               ms : ModerationStatus, pr : PublishResult]
\* passed is bookkeeping of the model: the recorded SHA-256 a passing verdict was
\* stored for since the row was initialised (the code keeps no such column).
ReviewRow == [status : ReviewStatus, passed : Artifacts \cup {None}]
\* listing stands for the display fields: the package they were read from.
AssetRow == [state : {"unborn", "live", "deleted"}, latest : Versions \cup {None},
             public : Versions \cup {None}, ms : ModerationStatus, pr : PublishResult,
             listing : Artifacts \cup {None}]

NoVersion == [id |-> 0, sha |-> None, ct |-> 0, ms |-> "NULL", pr |-> "NULL"]
NoReview == [status |-> "absent", passed |-> None]
NoAsset(state) == [state |-> state, latest |-> None, public |-> None,
                   ms |-> "NULL", pr |-> "NULL", listing |-> None]

\* Names of rows, for write sets, locks and conflicts.
AssetKey == <<"asset", None>>
VersionKey(v) == <<"version", v>>
ReviewKey(v) == <<"review", v>>
Keys == {AssetKey} \cup {VersionKey(v) : v \in Versions} \cup {ReviewKey(v) : v \in Versions}

Database == [asset : AssetRow, version : [Versions -> VersionRow], review : [Versions -> ReviewRow]]
Current == [asset |-> asset, version |-> version, review |-> review]

-----------------------------------------------------------------------------
(* Sessions. *)

Closed == [open |-> FALSE, stale |-> {},
           snap |-> [asset |-> NoAsset("unborn"),
                     version |-> [v \in Versions |-> NoVersion],
                     review |-> [v \in Versions |-> NoReview]]]

snap(s) == sess[s].snap

\* The first consistent read of session s.
OpenSession(s) == sess' = [sess EXCEPT ![s] = [open |-> TRUE, stale |-> {}, snap |-> Current]]

CloseSession(s) == sess' = [sess EXCEPT ![s] = Closed]

\* Session s commits the rows W and ends; the other open sessions fall behind on W.
CommitSession(s, W) ==
  sess' = [x \in Sessions |->
             IF x = s THEN Closed
             ELSE IF sess[x].open /\ SnapshotConflicts
                  THEN [sess[x] EXCEPT !.stale = @ \cup W]
                  ELSE sess[x]]

NoConflict(s, W) == SnapshotConflicts => W \cap sess[s].stale = {}

\* The UPDATEs and INSERTs for the rows W, loaded as in l, find what they expect: the
\* primary key is still there, the unique key still free (StaleDataError, IntegrityError).
RowsMatch(l, W) ==
  /\ AssetKey \in W => asset.state = l.asset.state
  /\ \A v \in Versions :
       VersionKey(v) \in W \/ ReviewKey(v) \in W => version[v].id = l.version[v].id

\* An ORM UPDATE sets a column only when it differs from the loaded value.
Column(loaded, new, current) == IF new = loaded THEN current ELSE new

MergeVersion(l, n, c) ==
  [id |-> Column(l.id, n.id, c.id), sha |-> Column(l.sha, n.sha, c.sha),
   ct |-> Column(l.ct, n.ct, c.ct), ms |-> Column(l.ms, n.ms, c.ms),
   pr |-> Column(l.pr, n.pr, c.pr)]

\* passed goes with the UPDATE of the status that resets or sets it.
MergeReview(l, n, c) ==
  [status |-> Column(l.status, n.status, c.status),
   passed |-> IF n.passed # l.passed \/ (n.status # l.status /\ n.status \in {"queued", "passed"})
              THEN n.passed ELSE c.passed]

MergeAsset(l, n, c) ==
  [state |-> Column(l.state, n.state, c.state), latest |-> Column(l.latest, n.latest, c.latest),
   public |-> Column(l.public, n.public, c.public), ms |-> Column(l.ms, n.ms, c.ms),
   pr |-> Column(l.pr, n.pr, c.pr), listing |-> Column(l.listing, n.listing, c.listing)]

\* The rows a session flushes: those it changed, and those whose timestamp it sets.
Written(l, n, touched) ==
  touched \cup (IF n.asset # l.asset THEN {AssetKey} ELSE {})
          \cup {VersionKey(v) : v \in {w \in Versions : n.version[w] # l.version[w]}}
          \cup {ReviewKey(v) : v \in {w \in Versions : n.review[w] # l.review[w]}}

\* Rows that deletions have deleted or updated and not committed yet: writers wait.
RowsOf(D) == {AssetKey} \cup {VersionKey(v) : v \in D} \cup {ReviewKey(v) : v \in D}
Deleting == {c \in Publishers : req[c].step \in {"purge", "finish"}}
Unlocked(s, W) == \A c \in Deleting \ {s} : W \cap RowsOf(req[c].doomed) = {}

\* Session s, which loaded l, flushes n: it commits, or the flush raises.
CanCommit(s, l, W) == Unlocked(s, W) /\ NoConflict(s, W) /\ RowsMatch(l, W)
CannotCommit(s, l, W) == Unlocked(s, W) /\ ~(NoConflict(s, W) /\ RowsMatch(l, W))

Commit(s, l, n, touched) ==
  LET W == Written(l, n, touched) IN
  /\ CanCommit(s, l, W)
  /\ asset' = MergeAsset(l.asset, n.asset, asset)
  /\ version' = [v \in Versions |-> MergeVersion(l.version[v], n.version[v], version[v])]
  /\ review' = [v \in Versions |-> MergeReview(l.review[v], n.review[v], review[v])]
  /\ CommitSession(s, W)

-----------------------------------------------------------------------------
(* What the services compute from the rows d they loaded. *)

Existing(rows) == {v \in Versions : rows[v].id # 0}

\* max by create_time.  Creation times are distinct here: two publishes of an asset
\* in the same millisecond are left out.
Newest(S, rows) ==
  LET top == {v \in S : \A w \in S : rows[w].ct <= rows[v].ct}
  IN IF top = {} THEN None ELSE CHOOSE v \in top : TRUE

Successful(rows) == {v \in Existing(rows) : rows[v].pr = "publish_success"}
Approved(rows) == {v \in Existing(rows) : rows[v].ms = "APPROVED"}

OverallStatus(rows) ==
  LET some(m) == \E v \in Existing(rows) : rows[v].ms = m
  IN IF some("APPROVED") THEN "APPROVED" ELSE IF some("PENDING") THEN "PENDING" ELSE "REJECTED"

LatestResult(latest, rows) ==
  LET v == IF latest \in Existing(rows) THEN latest ELSE Newest(Existing(rows), rows)
  IN IF v = None THEN "NULL" ELSE rows[v].pr

Aggregate(a, rows) ==
  [a EXCEPT !.ms = OverallStatus(rows), !.public = Newest(Successful(rows), rows),
            !.pr = LatestResult(a.latest, rows)]

Queued == [status |-> "queued", passed |-> None]

InitialResult == IF ReviewEnabled THEN "reviewing" ELSE "pending_moderation"

\* Mutated: an overwrite keeps the decision taken on the former bytes.
PublishedRowKeepingDecision(row, a, n) ==
  IF row.id = 0 THEN [id |-> n, sha |-> a, ct |-> n, ms |-> "PENDING", pr |-> InitialResult]
  ELSE [row EXCEPT !.sha = a, !.ct = n]

PublishedRow(row, a, n) ==
  [id |-> IF row.id = 0 THEN n ELSE row.id, sha |-> a, ct |-> n, ms |-> "PENDING", pr |-> InitialResult]

PublishRows(d, v, a, n) ==
  LET rows == [d.version EXCEPT ![v] = PublishedRow(@, a, n)]
      head == [d.asset EXCEPT !.state = "live", !.latest = v,
                              !.listing = IF Approved(d.version) # {} THEN @ ELSE a]
  IN [asset |-> Aggregate(head, rows), version |-> rows,
      review |-> IF ReviewEnabled THEN [d.review EXCEPT ![v] = Queued] ELSE d.review]

RestartRows(d, v) ==
  LET rows == [d.version EXCEPT ![v].pr = "reviewing", ![v].ms = "PENDING"]
  IN [asset |-> Aggregate(d.asset, rows), version |-> rows, review |-> [d.review EXCEPT ![v] = Queued]]

ApproveRows(d, v) ==
  LET rows == [d.version EXCEPT ![v].ms = "APPROVED", ![v].pr = "publish_success"]
      public == Newest(Approved(rows), rows)
      shown == IF public = None THEN d.asset.listing ELSE store[public]
  IN [asset |-> [Aggregate(d.asset, rows) EXCEPT !.listing = shown], version |-> rows, review |-> d.review]

RejectRows(d, v) ==
  LET rows == [d.version EXCEPT ![v].ms = "REJECTED", ![v].pr = "publish_failed"]
  IN [asset |-> Aggregate(d.asset, rows), version |-> rows, review |-> d.review]

\* Mutated: the aggregate columns are not recomputed.
DeleteRowsOnly(d, D) ==
  LET rows == [v \in Versions |-> IF v \in D THEN NoVersion ELSE d.version[v]]
      left == Existing(rows)
  IN [asset |-> IF left = {} THEN NoAsset("deleted") ELSE [d.asset EXCEPT !.latest = Newest(left, rows)],
      version |-> rows,
      review |-> [v \in Versions |-> IF v \in D THEN NoReview ELSE d.review[v]]]

DeleteRows(d, D) ==
  LET rows == [v \in Versions |-> IF v \in D THEN NoVersion ELSE d.version[v]]
      left == Existing(rows)
  IN [asset |-> IF left = {} THEN NoAsset("deleted")
                ELSE Aggregate([d.asset EXCEPT !.latest = Newest(left, rows)], rows),
      version |-> rows,
      review |-> [v \in Versions |-> IF v \in D THEN NoReview ELSE d.review[v]]]

VerdictRows(d, v, passed, sha) ==
  LET rows == [d.version EXCEPT ![v].pr = IF passed THEN "pending_moderation" ELSE "publish_failed"]
      verdict == IF passed THEN [status |-> "passed", passed |-> sha]
                 ELSE [d.review[v] EXCEPT !.status = "failed"]
  IN [asset |-> Aggregate(d.asset, rows), version |-> rows, review |-> [d.review EXCEPT ![v] = verdict]]

\* Mutated: a review that broke down lets the version through to the moderators.
FailedRowsOpen(d, v) ==
  LET found == d.version[v].id # 0
      rows == IF found THEN [d.version EXCEPT ![v].pr = "pending_moderation"] ELSE d.version
  IN [asset |-> IF d.asset.state = "live" THEN Aggregate(d.asset, rows) ELSE d.asset,
      version |-> rows,
      review |-> IF found THEN [d.review EXCEPT ![v].status = "system_failed"] ELSE d.review]

FailedRows(d, v) ==
  LET found == d.version[v].id # 0
      rows == IF found THEN [d.version EXCEPT ![v].pr = "publish_failed"] ELSE d.version
  IN [asset |-> IF d.asset.state = "live" THEN Aggregate(d.asset, rows) ELSE d.asset,
      version |-> rows,
      review |-> IF found THEN [d.review EXCEPT ![v].status = "system_failed"] ELSE d.review]

-----------------------------------------------------------------------------
(* Requests. *)

Idle == [step |-> "idle", v |-> None, art |-> None, reply |-> "NULL", doomed |-> {}]
IdleTask == [pc |-> "idle", sha |-> None, got |-> None, tries |-> 0, again |-> FALSE]

Init ==
  /\ asset = NoAsset("unborn")
  /\ version = [v \in Versions |-> NoVersion]
  /\ review = [v \in Versions |-> NoReview]
  /\ store = [v \in Versions |-> None]
  /\ req = [c \in Publishers \cup Moderators |-> Idle]
  /\ task = [t \in Threads |-> IdleTask]
  /\ calls = [t \in Threads |-> 0]
  /\ sess = [s \in Sessions |-> Closed]
  /\ clock = 0

End(c) == req' = [req EXCEPT ![c] = Idle]

InFlight == {c \in Publishers : req[c].step \in {"upload", "commit"}}

\* Mutated: an existing version is overwritten without force.
MayPublishAlways(v, a) == version[v].sha # a

\* A new version number, or a forced overwrite with other bytes (409 otherwise).
MayPublish(v, a) ==
  \/ "publish" \in Ops /\ version[v].id = 0
  \/ "force" \in Ops /\ version[v].id # 0 /\ version[v].sha # a

\* publish: validation against the rows as they are now, up to the upload.  The
\* first publish of an asset draws a fresh asset id, so no other one can join it.
PublishBegin(c, v, a) ==
  /\ req[c].step = "idle"
  /\ asset.state = "live" \/ (asset.state = "unborn" /\ InFlight = {})
  /\ MayPublish(v, a)
  /\ clock + Cardinality(InFlight) < MaxPublishes
  /\ req' = [req EXCEPT ![c] = [Idle EXCEPT !.step = "upload", !.v = v, !.art = a]]
  /\ OpenSession(c)
  /\ UNCHANGED <<tables, store, task, calls, clock>>

\* publish of the recorded bytes again: a review that failed on the system's side
\* is restarted, anything else is answered from the row that was read.
PublishAgain(c, v) ==
  /\ req[c].step = "idle" /\ "retry" \in Ops
  /\ version[v].id # 0
  /\ IF ReviewEnabled /\ review[v].status = "system_failed"
     THEN /\ req' = [req EXCEPT ![c] = [Idle EXCEPT !.step = "restart", !.v = v]]
          /\ OpenSession(c)
     ELSE /\ \A w \in Workers : calls[<<w, v>>] < MaxCalls
          /\ req' = [req EXCEPT ![c] = [Idle EXCEPT !.step = "reply", !.v = v, !.reply = version[v].pr]]
          /\ UNCHANGED sess
  /\ UNCHANGED <<tables, store, task, calls, clock>>

PublishUpload(c) ==
  /\ req[c].step = "upload"
  /\ store' = [store EXCEPT ![req[c].v] = req[c].art]
  /\ req' = [req EXCEPT ![c].step = "commit"]
  /\ UNCHANGED <<tables, task, calls, sess, clock>>

\* The package, or after it the icon or the README, could not be stored.
PublishUploadFails(c) ==
  /\ "storage" \in Faults
  /\ req[c].step \in {"upload", "commit"}
  /\ End(c) /\ CloseSession(c)
  /\ UNCHANGED <<tables, store, task, calls, clock>>

\* Mutated: an overwrite leaves the review row of the former bytes alone.
PublishWritesNoReview(v) == {AssetKey, VersionKey(v)}

PublishWrites(v) == {AssetKey, VersionKey(v)} \cup (IF ReviewEnabled THEN {ReviewKey(v)} ELSE {})

PublishCommit(c) ==
  LET v == req[c].v
  IN /\ req[c].step = "commit"
     /\ clock' = clock + 1
     /\ Commit(c, snap(c), PublishRows(snap(c), v, req[c].art, clock'), PublishWrites(v))
     /\ req' = [req EXCEPT ![c].step = "changelog", ![c].reply = version'[v].pr]
     /\ UNCHANGED <<store, task, calls>>

RestartCommit(c) ==
  LET v == req[c].v
  IN /\ req[c].step = "restart"
     /\ Commit(c, snap(c), RestartRows(snap(c), v), {ReviewKey(v)})
     /\ req' = [req EXCEPT ![c].step = "reply", ![c].reply = version'[v].pr]
     /\ UNCHANGED <<store, task, calls, clock>>

\* The flush raises: 409 or 500, nothing is written, the uploaded object stays.
PublishRefused(c) ==
  LET v == req[c].v
      d == snap(c)
  IN /\ \/ /\ req[c].step = "commit"
           /\ CannotCommit(c, d, Written(d, PublishRows(d, v, req[c].art, clock + 1), PublishWrites(v)))
        \/ /\ req[c].step = "restart"
           /\ CannotCommit(c, d, Written(d, RestartRows(d, v), {ReviewKey(v)}))
     /\ End(c) /\ CloseSession(c)
     /\ UNCHANGED <<tables, store, task, calls, clock>>

\* changelog.log is uploaded after the commit; when that fails the client gets a
\* 500 and the router never reaches the scheduling of the review.
ChangelogFails(c) ==
  /\ "storage" \in Faults
  /\ req[c].step = "changelog"
  /\ End(c)
  /\ UNCHANGED <<tables, store, task, calls, sess, clock>>

\* The router: a background task of the process that served the request.
Respond(c) ==
  /\ req[c].step \in {"changelog", "reply"}
  /\ IF req[c].reply = "reviewing"
     THEN \E w \in Workers : calls' = [calls EXCEPT ![<<w, req[c].v>>] = @ + 1]
     ELSE UNCHANGED calls
  /\ End(c)
  /\ UNCHANGED <<tables, store, task, sess, clock>>

\* Mutated: a version the system review turned down counts as well.
ManualStageOrFailed(row) == row.pr \in {"pending_moderation", "publish_failed"}

ManualStage(row) ==
  row.pr = "pending_moderation" \/ (row.pr = "publish_failed" /\ row.ms = "REJECTED")

\* moderate_skill_asset_service, approve: the candidate is snapshotted and its
\* package read before the version row is locked.
ApproveBegin(c, v) ==
  /\ req[c].step = "idle" /\ "approve" \in Ops
  /\ asset.state = "live" /\ version[v].id # 0
  /\ ManualStage(version[v]) /\ version[v].ms \in {"PENDING", "REJECTED"}
  /\ store[v] # None
  /\ req' = [req EXCEPT ![c] = [Idle EXCEPT !.step = "approve", !.v = v]]
  /\ OpenSession(c)
  /\ UNCHANGED <<tables, store, task, calls, clock>>

\* What the session sees once it holds the lock of v: the current row of v, its
\* snapshot of everything else.
LockedView(c, v) == [snap(c) EXCEPT !.version[v] = version[v]]

SameCandidate(row, checked) ==
  row.id = checked.id /\ row.sha = checked.sha /\ row.ms = checked.ms /\ row.pr = checked.pr

ApproveWrites(c, v) == Written(LockedView(c, v), ApproveRows(LockedView(c, v), v), {AssetKey, VersionKey(v)})

\* The package the display fields are refreshed from must be there.
ListingReadable(c, v) == ApproveRows(LockedView(c, v), v).asset.listing # None

ApproveCommit(c) ==
  LET v == req[c].v
      d == LockedView(c, v)
  IN /\ req[c].step = "approve"
     /\ SameCandidate(version[v], snap(c).version[v])
     /\ ListingReadable(c, v)
     /\ Commit(c, d, ApproveRows(d, v), {AssetKey, VersionKey(v)})
     /\ End(c)
     /\ UNCHANGED <<store, task, calls, clock>>

ApproveRefused(c) ==
  LET v == req[c].v
  IN /\ req[c].step = "approve"
     /\ Unlocked(c, {VersionKey(v)})
     /\ \/ ~SameCandidate(version[v], snap(c).version[v])
        \/ Unlocked(c, ApproveWrites(c, v)) /\ ~ListingReadable(c, v)
        \/ CannotCommit(c, LockedView(c, v), ApproveWrites(c, v))
     /\ End(c) /\ CloseSession(c)
     /\ UNCHANGED <<tables, store, task, calls, clock>>

\* moderate_skill_asset_service, reject: only the asset is read before the lock.
RejectBegin(c, v) ==
  /\ req[c].step = "idle" /\ "reject" \in Ops
  /\ asset.state = "live"
  /\ req' = [req EXCEPT ![c] = [Idle EXCEPT !.step = "reject", !.v = v]]
  /\ OpenSession(c)
  /\ UNCHANGED <<tables, store, task, calls, clock>>

Rejectable(row) ==
  /\ row.id # 0
  /\ ManualStage(row)
  /\ row.ms # "APPROVED" /\ row.pr # "publish_success"
  /\ row.ms = "PENDING"

RejectCommit(c) ==
  LET v == req[c].v
      d == LockedView(c, v)
  IN /\ req[c].step = "reject"
     /\ Rejectable(version[v])
     /\ Commit(c, d, RejectRows(d, v), {VersionKey(v)})
     /\ End(c)
     /\ UNCHANGED <<store, task, calls, clock>>

RejectRefused(c) ==
  LET v == req[c].v
      d == LockedView(c, v)
  IN /\ req[c].step = "reject"
     /\ Unlocked(c, {VersionKey(v)})
     /\ \/ ~Rejectable(version[v])
        \/ CannotCommit(c, d, Written(d, RejectRows(d, v), {VersionKey(v)}))
     /\ End(c) /\ CloseSession(c)
     /\ UNCHANGED <<tables, store, task, calls, clock>>

\* delete_plugin_version_service of one version or of "all": rows are deleted in the
\* open transaction, then objects, then the transaction commits.
DeleteBegin(c, D) ==
  /\ req[c].step = "idle" /\ "delete" \in Ops
  /\ asset.state = "live"
  /\ D # {} /\ (D = Existing(version) \/ \E v \in Existing(version) : D = {v})
  /\ Deleting = {}
  /\ req' = [req EXCEPT ![c] = [Idle EXCEPT !.step = "purge", !.doomed = D]]
  /\ OpenSession(c)
  /\ UNCHANGED <<tables, store, task, calls, clock>>

DeletePurge(c) ==
  /\ req[c].step = "purge"
  /\ store' = [v \in Versions |-> IF v \in req[c].doomed THEN None ELSE store[v]]
  /\ req' = [req EXCEPT ![c].step = "finish"]
  /\ UNCHANGED <<tables, task, calls, sess, clock>>

\* Some prefixes are gone when one fails; only the rows are rolled back.
DeletePurgeFails(c) ==
  /\ "storage" \in Faults
  /\ req[c].step = "purge"
  /\ \E S \in SUBSET req[c].doomed :
       store' = [v \in Versions |-> IF v \in S THEN None ELSE store[v]]
  /\ End(c) /\ CloseSession(c)
  /\ UNCHANGED <<tables, task, calls, clock>>

DeleteFinish(c) ==
  /\ req[c].step = "finish"
  /\ Commit(c, snap(c), DeleteRows(snap(c), req[c].doomed), RowsOf(req[c].doomed))
  /\ End(c)
  /\ UNCHANGED <<store, task, calls, clock>>

-----------------------------------------------------------------------------
(* Review threads.  A thread is t = <<worker, version>>: the claim in the set   *)
(* _active_review_tasks of its process is held while it is not idle.            *)

\* schedule_skill_publish_review: one thread per process, asset and version.
ClaimReview(t) ==
  /\ calls[t] > 0 /\ task[t].pc = "idle"
  /\ calls' = [calls EXCEPT ![t] = @ - 1]
  /\ task' = [task EXCEPT ![t].pc = "start"]
  /\ UNCHANGED <<tables, store, req, sess, clock>>

\* Mutated: the call is given back without one being there.
SkipReviewUnasked(t) ==
  /\ task[t].pc # "idle"
  /\ calls' = [calls EXCEPT ![t] = @ - 1]
  /\ UNCHANGED <<tables, store, req, task, sess, clock>>

SkipReview(t) ==
  /\ calls[t] > 0 /\ task[t].pc # "idle"
  /\ calls' = [calls EXCEPT ![t] = @ - 1]
  /\ UNCHANGED <<tables, store, req, task, sess, clock>>

Found(v) == asset.state = "live" /\ version[v].id # 0 /\ review[v].status # "absent"

\* run_skill_publish_review: the package it will review is the one recorded now.
LoadReviewTarget(t) ==
  /\ task[t].pc = "start"
  /\ IF Found(t[2])
     THEN /\ task' = [task EXCEPT ![t].pc = "mark", ![t].sha = version[t[2]].sha]
          /\ OpenSession(t)
     ELSE /\ task' = [task EXCEPT ![t].pc = "release"]
          /\ UNCHANGED sess
  /\ UNCHANGED <<tables, store, req, calls, clock>>

RunningRows(d, v) == [d EXCEPT !.review[v].status = "running"]

MarkRunning(t) ==
  LET d == snap(t)
  IN /\ task[t].pc = "mark"
     /\ \/ /\ Commit(t, d, RunningRows(d, t[2]), {ReviewKey(t[2])})
           /\ task' = [task EXCEPT ![t].pc = "run"]
        \/ /\ CannotCommit(t, d, Written(d, RunningRows(d, t[2]), {ReviewKey(t[2])}))
           /\ task' = [task EXCEPT ![t].pc = "fail"]
           /\ CloseSession(t)
           /\ UNCHANGED tables
     /\ UNCHANGED <<store, req, calls, clock>>

\* The engine reviews the object that is stored when it downloads it.
RunReview(t) ==
  /\ task[t].pc = "run"
  /\ store[t[2]] # None
  /\ task' = [task EXCEPT ![t].pc = "reload", ![t].got = store[t[2]]]
  /\ UNCHANGED <<tables, store, req, calls, sess, clock>>

\* Mutated: the exception ends the thread without marking the version.
RunReviewDropped(t) ==
  /\ task[t].pc = "run"
  /\ store[t[2]] = None \/ "engine" \in Faults
  /\ task' = [task EXCEPT ![t].pc = "release"]
  /\ UNCHANGED <<tables, store, req, calls, sess, clock>>

RunReviewFails(t) ==
  /\ task[t].pc = "run"
  /\ store[t[2]] = None \/ "engine" \in Faults
  /\ task' = [task EXCEPT ![t].pc = "fail"]
  /\ UNCHANGED <<tables, store, req, calls, sess, clock>>

\* Mutated: the recorded bytes are not compared.
ArtifactNeverChanged(reviewed, current) == FALSE

ArtifactChanged(reviewed, current) == reviewed # current

\* Before each write-back attempt: the rows again, and the bytes they record.
Reload(t) ==
  /\ task[t].pc = "reload"
  /\ IF ~Found(t[2])
     THEN task' = [task EXCEPT ![t].pc = "release"] /\ UNCHANGED sess
     ELSE IF ArtifactChanged(task[t].sha, version[t[2]].sha)
          THEN task' = [task EXCEPT ![t].pc = "release", ![t].again = TRUE] /\ UNCHANGED sess
          ELSE task' = [task EXCEPT ![t].pc = "write"] /\ OpenSession(t)
  /\ UNCHANGED <<tables, store, req, calls, clock>>

Verdict(t) == VerdictRows(snap(t), t[2], task[t].got \in Compliant, task[t].sha)

WriteVerdict(t) ==
  /\ task[t].pc = "write"
  /\ Commit(t, snap(t), Verdict(t), {ReviewKey(t[2])})
  /\ task' = [task EXCEPT ![t].pc = "release"]
  /\ UNCHANGED <<store, req, calls, clock>>

\* Error 1020 is retried from Reload, any other error is not.
WriteVerdictFails(t) ==
  LET W == Written(snap(t), Verdict(t), {ReviewKey(t[2])})
      retry == ~NoConflict(t, W) /\ task[t].tries + 1 < MaxAttempts
  IN /\ task[t].pc = "write"
     /\ CannotCommit(t, snap(t), W)
     /\ task' = [task EXCEPT ![t].pc = IF retry THEN "reload" ELSE "fail",
                             ![t].tries = IF retry THEN @ + 1 ELSE @]
     /\ CloseSession(t)
     /\ UNCHANGED <<tables, store, req, calls, clock>>

\* The except clause: whatever rows are there now, the version is marked failed.
LoadFailed(t) ==
  /\ task[t].pc = "fail"
  /\ task' = [task EXCEPT ![t].pc = "failwrite"]
  /\ OpenSession(t)
  /\ UNCHANGED <<tables, store, req, calls, clock>>

FailedWrites(t) == IF snap(t).version[t[2]].id # 0 THEN {ReviewKey(t[2])} ELSE {}

\* When even that cannot be committed it is logged and dropped.
WriteFailed(t) ==
  LET d == snap(t)
  IN /\ task[t].pc = "failwrite"
     /\ \/ Commit(t, d, FailedRows(d, t[2]), FailedWrites(t))
        \/ /\ CannotCommit(t, d, Written(d, FailedRows(d, t[2]), FailedWrites(t)))
           /\ CloseSession(t)
           /\ UNCHANGED tables
     /\ task' = [task EXCEPT ![t].pc = "release"]
     /\ UNCHANGED <<store, req, calls, clock>>

\* _run_skill_review_task, finally: the claim is dropped, then a superseded review
\* is scheduled afresh in the same process.
ReleaseReview(t) ==
  /\ task[t].pc = "release"
  /\ task' = [task EXCEPT ![t] = IdleTask]
  /\ calls' = [calls EXCEPT ![t] = IF task[t].again THEN @ + 1 ELSE @]
  /\ UNCHANGED <<tables, store, req, sess, clock>>

\* The service stops and starts again: transactions roll back, memory is lost.
Restart ==
  /\ "crash" \in Faults
  /\ req' = [c \in Publishers \cup Moderators |-> Idle]
  /\ task' = [t \in Threads |-> IdleTask]
  /\ calls' = [t \in Threads |-> 0]
  /\ sess' = [s \in Sessions |-> Closed]
  /\ UNCHANGED <<tables, store, clock>>

-----------------------------------------------------------------------------
Arrive ==
  \/ \E c \in Publishers, v \in Versions : PublishAgain(c, v) \/ (\E a \in Artifacts : PublishBegin(c, v, a))
  \/ \E c \in Moderators, v \in Versions : ApproveBegin(c, v) \/ RejectBegin(c, v)
  \/ \E c \in Publishers, D \in SUBSET Versions : DeleteBegin(c, D)

Serve(c) ==
  \/ PublishUpload(c) \/ PublishUploadFails(c) \/ PublishCommit(c) \/ RestartCommit(c)
  \/ PublishRefused(c) \/ ChangelogFails(c) \/ Respond(c)
  \/ DeletePurge(c) \/ DeletePurgeFails(c) \/ DeleteFinish(c)

Moderate(c) == ApproveCommit(c) \/ ApproveRefused(c) \/ RejectCommit(c) \/ RejectRefused(c)

Review(t) ==
  \/ ClaimReview(t) \/ SkipReview(t) \/ LoadReviewTarget(t) \/ MarkRunning(t)
  \/ RunReview(t) \/ RunReviewFails(t) \/ Reload(t) \/ WriteVerdict(t)
  \/ WriteVerdictFails(t) \/ LoadFailed(t) \/ WriteFailed(t) \/ ReleaseReview(t)

Next ==
  \/ Arrive
  \/ \E c \in Publishers : Serve(c)
  \/ \E c \in Moderators : Moderate(c)
  \/ \E t \in Threads : Review(t)
  \/ Restart

Spec == Init /\ [][Next]_vars

\* Request handlers and review threads run on; users and faults owe nothing.
Fairness ==
  /\ \A c \in Publishers : WF_vars(Serve(c))
  /\ \A c \in Moderators : WF_vars(Moderate(c))
  /\ \A t \in Threads : WF_vars(Review(t))

FairSpec == Spec /\ Fairness

-----------------------------------------------------------------------------
(* Properties. *)

Request == [step : {"idle", "upload", "commit", "restart", "changelog", "reply",
                    "approve", "reject", "purge", "finish"},
            v : Versions \cup {None}, art : Artifacts \cup {None},
            reply : PublishResult, doomed : SUBSET Versions]
Task == [pc : {"idle", "start", "mark", "run", "reload", "write", "fail", "failwrite", "release"},
         sha : Artifacts \cup {None}, got : Artifacts \cup {None}, tries : Nat, again : BOOLEAN]
Session == [open : BOOLEAN, stale : SUBSET Keys, snap : Database]

\* The shape of the tables, of the object store and of the processes' memory.
TypeOK ==
  /\ Current \in Database
  /\ store \in [Versions -> Artifacts \cup {None}]
  /\ req \in [Publishers \cup Moderators -> Request]
  /\ \A c \in Publishers \cup Moderators : req[c].step \notin {"idle", "purge", "finish"} => req[c].v \in Versions
  /\ task \in [Threads -> Task]
  /\ calls \in [Threads -> Nat]
  /\ sess \in [Sessions -> Session]
  /\ clock \in Nat

\* A version moderators see, published or rejected, carries a passing verdict of the
\* system review for the very bytes it records (run_skill_publish_review: "Review
\* validity is tied to the package bytes").
VerdictOnRecordedArtifact ==
  ReviewEnabled =>
    \A v \in Existing(version) :
      version[v].pr \in {"pending_moderation", "publish_success"} \/ version[v].ms = "REJECTED"
        => review[v].passed = version[v].sha

\* Why the previous one holds where commits conflict.  A transaction in progress holds
\* its session; while nobody else commits a row it stays as the session read it, and the
\* bytes of a version stay the same for as long as its review does; a thread about to
\* write its verdict loaded the bytes it reviewed; and a review that broke down never
\* belongs to a version still under review.
InTransaction ==
  /\ \A c \in Publishers \cup Moderators :
       req[c].step \in {"upload", "commit", "restart", "approve", "reject", "purge", "finish"} => sess[c].open
  /\ \A t \in Threads : task[t].pc \in {"mark", "write", "failwrite"} => sess[t].open

InStep(s, v) ==
  /\ VersionKey(v) \notin sess[s].stale => version[v] = snap(s).version[v]
  /\ ReviewEnabled /\ ReviewKey(v) \notin sess[s].stale =>
       /\ review[v] = snap(s).review[v]
       /\ version[v].sha = snap(s).version[v].sha
       /\ version[v].pr \in {snap(s).version[v].pr, "publish_failed", "publish_success"}

SnapshotsInStep == \A s \in Sessions : sess[s].open => \A v \in Versions : InStep(s, v)

BrokenReview(d, v) ==
  d.review[v].status = "system_failed" => d.version[v].pr \in {"publish_failed", "publish_success"}

BrokenReviews ==
  /\ \A v \in Versions : BrokenReview(Current, v)
  /\ \A s \in Sessions : sess[s].open => \A v \in Versions : BrokenReview(snap(s), v)

CheckedBeforeWrite ==
  /\ \A t \in Threads : task[t].pc = "write" => snap(t).version[t[2]].sha = task[t].sha
  /\ \A c \in Publishers : req[c].step = "restart" => snap(c).review[req[c].v].status = "system_failed"
  /\ \A c \in Moderators : req[c].step = "approve" =>
       snap(c).version[req[c].v].id # 0 /\ ManualStage(snap(c).version[req[c].v])

VerdictsAreIsolated ==
  SnapshotConflicts =>
    InTransaction /\ SnapshotsInStep /\ CheckedBeforeWrite /\ (ReviewEnabled => BrokenReviews)

\* New bytes under a version number start over: the step that records them takes the
\* version out of the market and clears the moderator's decision (publish, force).
NewBytesStartOver ==
  [][\A v \in Versions : version'[v].sha # version[v].sha /\ version'[v].id # 0
       => version'[v].ms = "PENDING" /\ version'[v].pr = InitialResult]_vars

\* What is published and still stored is what was recorded, so reviewed and approved.
StoredArtifactIsRecorded ==
  \A v \in Successful(version) : store[v] \in {version[v].sha, None}

\* Only packages the engine clears reach moderators or the market.
OnlyCompliantArtifacts ==
  ReviewEnabled =>
    \A v \in Existing(version) :
      version[v].pr \in {"pending_moderation", "publish_success"} => version[v].sha \in Compliant

\* An approval is final: only the publisher's own overwrite or deletion of those bytes
\* takes a published version off the market (moderate_skill_asset_service refuses to
\* reject it, a late or repeated review must not undo it).
ApprovalIsFinal ==
  [][\A v \in Successful(version) :
       version'[v].id = version[v].id /\ version'[v].sha = version[v].sha
         => version'[v].pr = "publish_success"]_vars

\* Each committed step moves each version as the stages allow: one decision at a time,
\* nothing from published but the publisher's overwrite or deletion (see VersionLifecycle).
\* That is, where no version is reviewed twice: a second review breaks it (see ApprovalIsFinal).
StageOf(row) ==
  IF row.id = 0 THEN "absent"
  ELSE CASE row.pr = "reviewing" -> "reviewing"
         [] row.pr = "pending_moderation" -> "awaiting"
         [] row.pr = "publish_success" -> "published"
         [] OTHER -> IF row.ms = "REJECTED" THEN "rejected" ELSE "failed"

Lifecycle == INSTANCE VersionLifecycle WITH
  stage <- [v \in Versions |-> StageOf(version[v])],
  bytes <- [v \in Versions |-> version[v].sha]

ImplementsLifecycle == Lifecycle!Spec

\* public_latest_version is the newest published version (the ACL and the market's
\* download of "latest" rely on it).
PublicLatestIsNewest ==
  asset.state = "live" => asset.public = Newest(Successful(version), version)

\* A review that was asked for is concluded.
ReviewConcludes ==
  \A v \in Versions : version[v].pr = "reviewing" ~> version[v].pr # "reviewing"

=============================================================================
