# SkillHub: TLA+ models, model checking and proofs

SkillHub (openJiuwen) is a market of Agent assets.  This directory holds TLA+ models of the
marketplace backend under `src/marketplace/plugins_market` and of the skill-runner under
`src/skill-runner`, the TLC configurations that check them, and theorems checked by TLAPS.  `PROJECT.json` says which lines each definition stands for.

## The system

| component | state | operations | what makes it hard |
|---|---|---|---|
| publish (`services/plugin.py`) | `market_assets`, `market_asset_versions`, the package object | publish a new version, overwrite with `force`, repeat the same package | object upload before the transaction, `changelog.log` after it; snapshot reads long before the commit |
| system review (`services/skill_review.py`, `skill_review_runtime.py`) | `market_skill_reviews`, `_active_review_tasks` of each process | schedule, run, write back with retries, mark failed, schedule afresh | minutes of engine time between read and write; claims per process; nothing survives a restart |
| moderation (`moderate_skill_asset_service`) | the two decision columns of a version | approve, reject | storage reads before the row lock |
| deletion (`delete_plugin_version_service`) | rows and objects | delete a version or all | objects are deleted inside the open transaction |
| aggregate (`_apply_skill_asset_aggregate_from_versions`) | `moderation_status`, `public_latest_version`, `publish_result`, display fields of the asset | recomputed by every operation above | computed from a snapshot, written column by column |
| raw.zip cache (`_ensure_non_cli_raw_artifact`) | a derived object | build on download, reuse, invalidate | label and bytes from two requests |
| groups (`services/groups.py`) | groups, members, join requests, grants, counters | create, invite, request, decide, grant, revoke | counters beside rows, limits checked before inserts |
| git sync (`services/git_skill_sync.py`) | `git_sources` status used as a lease, local set of running syncs | start, heartbeat, finish, recover stale, delete | takeover of a sync that still runs |
| index rebuild and reload (`retrieval/`) | Redis lock, index files, reload stream | rebuild, publish reload, apply | lock expiry, lost messages |
| playground (`routers/playground_proxy.py`, `playground_state.py`) | quota rows, sessions on record, locks of users | create, message, delete, refund | charge before a call that may time out; probes under a lock |
| skill runner (`src/skill-runner`) | sessions, worker pods, idle pool, LLM tokens | create, provision, end, reap | a session may be ended from three sides while its pod is being prepared |
| rate limit, OAuth, interactions, notifications, audit, validation, recommender, retrieval engine, dispatch, ClawHub API, CLI, frontend | | | not modelled, see `PROJECT.json` |

Publish, review, moderation and deletion meet only in the database and the object store, and no
transaction spans both.  A request schedules a review by starting a thread in its own process; a
superseded review schedules its successor.  A Git sync calls publish for each entry.  Groups read
what moderation lists; the index is rebuilt from what is published.  The proxy of the playground
talks to the skill-runner by HTTP, the marketplace's instances to each other by Redis only.

What should hold, per component:

- publish, review, moderation: a version under moderation or on the market carries a passing
  verdict for the very bytes it records; new bytes start over; an approval is final; every review
  is concluded; every version moves through its stages one decision at a time.
- aggregate: `public_latest_version` is the newest published version.
- storage: a published version's object is what was recorded.
- raw.zip: what is downloaded was built from the recorded package.
- groups: counters equal the rows, the limit is kept, an approval ends with the membership, a
  revocation is final.
- git sync: one sync owns a source at a time; a source is never stuck syncing; success means that
  the market has what was cloned, where nobody changed it by hand; deletion leaves nothing bound behind.
- index: instances search in what was announced last; it is stored; rebuilds do not overlap.
- playground: no session beyond the limits and none uncharged; a pod, its token and the Skill in it
  belong to one session; requests are answered and sessions end.

| module | models | composed of |
|---|---|---|
| `SkillPublish` | publish, review, moderation, deletion, aggregate | refines `VersionLifecycle` |
| `GitSync` | Git sources, their background syncs, the import of entries | refines `SyncLease` |
| `Groups` | a group, its members, join requests, grants, counters | |
| `Playground` | the proxy and the skill-runner with its pods, and what is on the way between them | |
| `IndexReload` | rebuild, announcement, reload and warm start of instances | |

`MC*` modules and the configurations instantiate them; the proof modules extend them.

## The model of publishing: `SkillPublish.tla`

One asset of an ordinary publisher.  Variables: `asset`, `version`, `review` are the three tables
(columns the properties tell apart); `store` the object under each version's key; `req` the
requests being served; `task` the review threads, one slot per process and version (the claim);
`calls` the scheduling calls that have not run yet; `sess` the open database sessions; `clock`
numbers the publish commits and stands for `version_id` and `create_time`.

A request is cut where the code does slow I/O or ends a transaction:

- publish: `PublishBegin` (reads, 409, validation), `PublishUpload`, `PublishCommit`,
  `ChangelogFails` or `Respond` (the router's background task adds to `calls`).
  The same package again is `PublishAgain`, with `RestartCommit` for a review that failed on the
  system's side.  `PublishUploadFails` and `PublishRefused` are the error paths.
- approve: `ApproveBegin` (candidate snapshot, package read), `ApproveCommit`, `ApproveRefused`;
  reject: `RejectBegin`, `RejectCommit`, `RejectRefused`.
- delete: `DeleteBegin` (rows deleted, locks held), `DeletePurge` or `DeletePurgeFails`,
  `DeleteFinish`.
- review thread: `ClaimReview` or `SkipReview`, `LoadReviewTarget`, `MarkRunning`, `RunReview` or
  `RunReviewFails`, `Reload`, `WriteVerdict` or `WriteVerdictFails` (retry or give up),
  `LoadFailed`, `WriteFailed`, `ReleaseReview`.
- `Restart` loses every process's memory and rolls open transactions back.

**Sessions.**  `OpenSession` takes the snapshot of the first consistent read.  Operators such as
`PublishRows` compute the new rows from the snapshot as the service does; `Commit` merges them
into the current tables column by column, because SQLAlchemy's UPDATE names only the columns whose
value differs from the one it loaded.  `SnapshotConflicts` selects the database.  FALSE is MySQL
InnoDB (the docker-compose file): such an UPDATE always applies.  TRUE is MariaDB with
`innodb_snapshot_isolation` (the OpenShift guide): it fails with error 1020 when somebody else
committed the row since the snapshot, which is the first code in
`RETRYABLE_REVIEW_WRITEBACK_MYSQL_ERROR_CODES`.  `SELECT ... FOR UPDATE` in moderation reads the
current row (`LockedView`).  `review.passed` is the only variable part without a column: the digest
a passing verdict was stored for.

**`VersionLifecycle.tla`** is the promise without requests, threads, sessions or storage: the stage
diagram of the development guide, with the publisher's overwrite and deletion.  `SkillPublish`
refines it by `stage <- StageOf(row)` and `bytes <- sha` (`ImplementsLifecycle`).

Left out of the model: the system administrator's publish (it skips both reviews), the other five
asset types, SkillPack content checks, two publishes in one millisecond, lock-wait timeouts and
deadlocks (1205 and 1213, retried like 1020), notifications, audit, the raw.zip object.

## The other models

**`Groups.tla`**: one group.  A request reads (`AddMember`, `DecideJoin`, ... fill its slot of `tx` with the
snapshot) and commits later (`CommitAdd`, `CommitApprove`, ...), because requests are served by
several processes.  `refresh_counts` is part of the commit, computed from the snapshot plus the
request's own writes; where the code forgets the flush before it (a re-grant) so does the model.
`SnapshotConflicts` selects the database as in `SkillPublish`: with it, a commit ends every other
transaction that wants to write the same rows.

**`GitSync.tla`**: one repository of one user.  `source` is the row whose status and `update_time`
(as an age in quarters of an hour) work as a lease; `local` the registrations in the memory of each
process; `req` the requests between two of their transactions; `sync` the background syncs with the
tree they cloned and what they plan for each entry.  Handlers of a process never wait between their
database calls, so a process serves one at a time (`Serves`).  A publication and its binding are two
commits.  In `asset`, `bytes` is what the latest version holds and `kept` which contents of the
repository versions of the asset hold: publishing adds a version or overwrites one (`Store`), or finds
that the package is there already and changes nothing (`Deduplicate`).  Code names an asset by its
asset_id: when it is deleted, syncs and requests that hold the id will not find it (`Forsaken`,
`Bereft`), whatever is uploaded under its name.  The publisher may at any time upload by hand, over a
bound Skill too, delete a version or the Skill (`Upload`, `DeleteVersion`, `DeleteAsset`); the latest
version is then `Manual`, and source id and digest stay as they were.  `Tick` lets time pass; a sync whose thread works reaches its next heartbeat in time.

**`SyncLease.tla`** is what the status promises: a sync begins only when none is at work, concludes
by giving the lease back, or vanishes and leaves it to be reclaimed.  `GitSync` refines it by
`leased <- source.status = "syncing"` and `active <- the syncs that still write`.

**`Playground.tla`**: the sessions of one user.  A session is identified with the request that
creates it: `req` is the side of the proxy, `init` and `status` that of the skill-runner, `calls` and
`answer` what is on its way.  Both are single asyncio processes, so a step is what a task does between
two awaits.  `lease` is the pod in the session, `hand` the one an ending handler took out of it,
`leased` the one the provisioning task still works on.  Ghosts: `today` and `strays` tell what a count
covers across midnight, `early` which sessions were ended while being loaded.  Pod deletions succeed;
other users appear only as a full runner.

**`IndexReload.tla`**: one scheduled and one start-up rebuild per instance, numbered in the order
their directories were named; `dirs` is the object store, `inbox` what the consumer of an instance
has yet to apply, `warm` its warm start.  The lock is a flag that may expire.  The code names directories by the
second; the model gives each rebuild a number of its own, so two rebuilds that begin in the same second
and write into one directory are outside it.  Ghosts: `astray` holds
the instances that lost a message, a load or a race of their warm start, `expired` and `unlocked`
count the ways in which rebuilds come to overlap.

## Runs

| run | database and operations | shows |
|---|---|---|
| `PublishRaces` | conflicts refused, one version, every operation and fault, three publish commits | `VerdictOnRecordedArtifact`, its inductive strengthening `VerdictsAreIsolated`, `NewBytesStartOver` |
| `PublishOnce` | MySQL, two versions published and reviewed once each, two processes, publish, approve, reject, every fault | `StoredArtifactIsRecorded`, `OnlyCompliantArtifacts`, `ImplementsLifecycle` |
| `PublishModerators` | conflicts refused, review off, two versions, two moderators, overwrites and deletions | `PublicLatestIsNewest`, `ImplementsLifecycle` |
| `PublishConcludes` | MySQL, two versions, engine failures, fair scheduling | `ReviewConcludes` |
| `PublishStale` | MySQL, overwrite | violates `VerdictOnRecordedArtifact` |
| `PublishUnmoderated` | MySQL, review off, overwrite and approval | violates `NewBytesStartOver` |
| `PublishUnwanted` | repeated package, approval | violates `ApprovalIsFinal` |
| `PublishForgotten` | overwrite, fair scheduling | violates `ReviewConcludes` |
| `GroupsConcurrent` | conflicts refused; a founder, a publisher and an administrator, two requests at a time | `MemberCountExact`, `ApprovedAreMembers`, `LimitKept`, `RevocationSticks`, `SkillCountFollows` |
| `GitSyncLease` | two processes, one request at a time, two syncs, two entries of which one is handled by hand, too, every fault | `ImplementsLease`, `LinkedToLiveSource`, `SuccessIsCurrent`, `SourceIsFreed` |
| `Playground` | two sessions, one pod, one restart of either process | `ConcurrencyKept`, `SessionsCharged`, `LeaseExclusive`, `TokensFollowLeases`, `OwnSkill`, `CreationAnswered`, `SessionsEnd` |
| `IndexReload` | two instances, two rebuilds, one restart | `ServesLastAnnounced`, `OverlapNeedsExpiry`, `AnnouncedStored`, `NewestAnnounced` |

`TypeOK` is checked once per module.

**Bounds.**  `MaxPublishes` caps publish commits: three let a version be published, overwritten
and published again under the same number after a deletion, all during one review.  `MaxCalls` = 2
outstanding scheduling calls are enough for a duplicate review that waits behind a running one, in the
runs with repeats or `force` (`PublishRaces`, `PublishUnwanted`, `PublishForgotten`).  In `PublishOnce`
a version has one scheduling call and so one review: that `ImplementsLifecycle` holds there says
nothing of duplicate reviews, with which it is false (`PublishUnwanted`).
`MaxAttempts` is 2 instead of the code's 4: one write-back that is retried and one that gives up.
Two artifacts, one the engine clears and one it refuses.  One slot per kind of request except
where two matter (moderators); a slot is reused, so slots bound concurrency, not the number of
requests.  Deadlock checking is off: with the bounds used up and no user acting, the system rests.
`PublishModerators` uses the symmetry of its versions, of its artifacts (the review is off, so nothing
tells them apart) and of its moderators, `GroupsConcurrent` that of its request slots, `IndexReload` that of its instances; none of the three checks liveness.

`GroupsConcurrent`: `MaxMembers` = 2 with three users, so the last place is fought for; two join
requests let one user ask twice.  `GitSyncLease`: two entries tell a sync that stops halfway from one
that ends; two pushes give an old, a cloned and a newer content; an age of three ticks passes both
deadlines of the code, `MaxQuiet` = 1 is a heartbeat that just makes it.  `ByHand` = {1}: the
publisher handles the first entry's Skill by hand as well; whatever is done to it so is one content,
`Manual`.  One registration suffices
because a new one never meets a sync of the old (`DeleteRefused`).  `Playground`: one pod and one place
on record make every session compete for both; `RunnerMax` = 2 lets the runner hold more than the
proxy knows of.  Three sessions on one pod, three on two without a restart, and two on two were
checked once without liveness.  `IndexReload`: two rebuilds suffice to overlap, to be announced out of
order and, with `MaxVersions` = 1, to delete each other's directories.

**Fairness.**  `FairSpec` asks that a request being served and a review thread take their next step
when they can: handlers and threads run on by themselves.  Users and faults owe nothing.
`GitSync` asks that the threads of syncs go on and that time passes, and nothing else: a request may be
left half done and a process never be restarted, and the source is freed all the same.  `Playground` asks that tasks go on,
that forwards and resets time out (they have timeouts in the code), and that sessions are left alone
in the end, so that the reaper sees them.  The other models state no fairness and check no liveness.

**What the runs leave open.**  `ReviewConcludes` is checked without storage faults (a failed
`changelog.log` schedules nothing), without restarts (no code recovers a version left reviewing),
without `force`, repeats and deletions, where it is false as `PublishForgotten` shows.
`PublicLatestIsNewest` is false on MySQL with two moderators.  `StoredArtifactIsRecorded` is false
with `force`: the upload precedes the commit.  It allows an object to be missing, and `PublishOnce` has
no deletion, so a deletion that fails half way (`DeletePurgeFails`, in `PublishRaces` and
`PublishModerators`) is modelled but judged by no property of the objects.  Each is a hazard in `PROJECT.json`.

Instances that were tried and left out because a property is false in them, or situations the models
show and no property forbids:

- Groups.  On plain MySQL (`SnapshotConflicts = FALSE`) `MemberCountExact`, `LimitKept` and
  `RevocationSticks` are false.  A re-grant (`groups.py:792`) refreshes the counts before its flush,
  so `skill_count` misses it; deleting or moderating a Skill never refreshes it.  Approving the
  pending request of a user who is a member already marks it rejected and meets the unique key when
  an earlier rejected request exists.  The branch for another approved request is unreachable given
  `ApprovedAreMembers`.
- Git sync.  With two request slots in two processes `ImplementsLease` is false: the status is read
  and set in two transactions (`git_skill_sync.py:384`).  A Skill
  that was imported may be published again by hand, as a new version or over the old
  (`services/plugin.py:865-884`, `1144-1182`); its source id and digest stay, so later syncs find the
  directory unchanged (`git_skill_sync.py:1038-1059`), skip it and report success while the market shows
  the publisher's bytes.  `SuccessIsCurrent` excepts exactly that: it allows `Manual` as the content;
  without the exception TLC refutes it.  With `Reverts = TRUE` and three pushes `SuccessIsCurrent` is
  false even if nothing fails: a push that restores an earlier content together with its version number
  is answered from that version (`services/plugin.py:947`), and the latest stays the newer one.  After a
  publication whose binding was lost, a push that restores the bound content is skipped as unchanged.  The router removes the registration of a running sync when it refuses another
  request (`routers/plugin.py:1093`, `1147`).  Registering a stale source again renews its
  `update_time`, so the sync it asks for is refused.  A crash between the first publication and its
  binding leaves an asset that later syncs report as a name conflict.
- Playground.  A probe that raises counts as "session gone" (`playground_proxy.py:581`), although the
  comment at line 157 says that a failed probe must not let the user pass; the session lives on, off
  the record.  Sessions in `error` are not reaped and stay in the store until they are deleted.  A
  session deleted while its pod is being provisioned gives the pod back: the worker may hold its Skill
  under the next session, and if its provisioning fails it unbinds the next session's token and deletes
  its pod (`OwnSkill` excepts both by `early`; `LeaseExclusive` excepts nothing).  A refund after a read timeout gives back a session
  that may run; a refund after midnight is taken from the next day's count; a crash between charge and
  answer loses the charge.  While the pool is being filled it may exceed `pool_max_idle` by one.
- Index.  `wait_for` does not stop the rebuild's thread (`main.py:424`), so a rebuild can outlive the
  lock and delete the next holder's.  A warm start takes the newest directory even if its upload is not
  complete, and may end after a newer reload.  Failed uploads leave directories that count as versions
  in the clean-up.  Failed loads are acknowledged, and a message may be missed: the instance keeps the old index until
  it applies the announcement of the newest one; `ServesLastAnnounced` excepts it so long, by `astray`.
  `NewestAnnounced` speaks of the time until a lock is lost or a start-up rebuild runs without one.  With two rebuilds no lock
  of a third holder is released; that is theorem `OverlapIsCounted`, for any number.

## Findings

1. `PublishStale`: the write-back of a review checks the digest in a snapshot and updates without a
   condition; an overwrite that commits in between gets the verdict on the former bytes.
2. `PublishUnmoderated`: an overwrite and an approval of the same version commit disjoint columns;
   the new bytes are on the market unseen.
3. `PublishUnwanted`: a second review of the same bytes undoes an approval.
4. `PublishForgotten`: a scheduling call dropped because the old review still holds the claim is
   made up for only if that review still compares the digests.

## Proofs

`SkillPublishTypes.tla` proves `TypeCorrect` (`Spec => []TypeOK`) for any versions, artifacts,
publishers, moderators and processes and both databases, from `SkillPublishAssumption` alone: lemmas on
what every row operator returns, one on what a commit does to the tables, one per action.

`SkillPublishIsolation.tla` proves, for the same values and a database that refuses writes to stale
rows, `Isolated` (`Spec => []Invariant`), and from it `VerdictsIsolated` and
`VerdictsOnRecordedArtifacts`.  `VerdictOnRecordedArtifact` is not inductive: whether a verdict may be
written depends on what a thread read several steps ago.  `Invariant` adds that (`InvariantParts`
shows it is `TypeOK`, `VerdictsAreIsolated` and `VerdictOnRecordedArtifact` together, which
`PublishRaces` checks):

- `Tracks`: an open session finds every row nobody else committed since (not in `stale`) as it read it; and
  while nobody else committed a version's *review* row, its *bytes* are as the session read them and the
  version has not gone back under review (`InStep`).
- `Local`: a request or thread between its reads and its commit holds a session and knows what it
  checked there (bytes reviewed, review that broke down, candidate to approve).
- `Sound`: the goal, and that a review that broke down belongs to a version no longer reviewing.

The argument: who commits finds the rows it writes as it loaded them (`CommitWrites`), so each writes
what the service computed or nothing (`MergeFresh`).  Who changes a version's bytes or puts it back
under review writes its review row as well (`Covered`), and every verdict writes that row: an
overwrite between a verdict's reads and its commit is a conflict.  `CommitKeeps` reduces each of the
eight committing actions to the versions it targets, `QuietKeeps` covers the others.  The overwrite's
write of the review row is what the `PublishWritesNoReview` mutant removes.

On the other database it is false; `PublishStale` is the counterexample.

`SkillPublishUnforced.tla` proves what holds on *either* database, where commits merge columns into rows
that others may have changed, as long as nobody overwrites.  Its first part says what each commit leaves
in a row whatever the row holds by then (`CommitMerges` and the `...Effect` lemmas).  On it rest

- `StoredArtifactsRecorded`, without `force` and with one request of the publisher at a time
  (`OnePublisher`).  `StoreInvariant` adds what an upload in progress knows: its version has no row
  yet, and the object is the package it is going to record (`Uploading`).  With `force`, or with two
  requests that publish the same new number, it is false: the upload precedes the transaction, so the
  loser's bytes stay.
- `CompliantArtifactsOnly`, in addition without deletions.  `ComplianceInvariant` makes it a statement
  about each decision column (`Cleared`), about the bytes a review has in hand (`Reviewing`) and about
  approvals in progress (`Approving`); retries, late and repeated reviews, lost write-backs and
  restarts are covered.  Deletions are excluded because a version may then be published, deleted and
  published again while one review is running.
- `OnceImplementsLifecycle` (`Spec => ImplementsLifecycle`, the refinement of `VersionLifecycle`) and
  `OnceApprovalIsFinal`, where each version is published once (`Once`: no `force`, repeat or deletion).
  `OnceInvariant`: the review of a version is in one hand at a time, that of the request that will
  schedule it, an outstanding call or a thread of one process, and until that hand has decided the
  version is under review (`OneReview`); approvals in progress were asked for a version past that
  (`Approving`).
  `PublishUnwanted` shows that a repeat takes approvals back.

`SkillPublishConflicts.tla` proves what conflicts add when overwrites, repeats and deletions take part:

- `OverwriteStartsOver` (`Spec => NewBytesStartOver`): only a publication changes the bytes of a row that
  stays, and a commit replaces whole rows.  `PublishUnmoderated` is the counterexample on MySQL.
- `ConflictsImplementLifecycle` and `ConflictsKeepApprovals`, with the system review off and any
  operations.  `UnreviewedInvariant` adds to `Invariant` that no row or snapshot is under system review
  (`Settled`), that an upload in progress brings other bytes than the row it read (`Overwriting`),
  and that no review is ever asked for (`Unasked`).
- `LatestIsNewest` (`Spec => []PublicLatestIsNewest`), with the review off or each version published once.
  The invariant `MarketInvariant`: the asset's columns are the aggregate of the version rows, in the
  tables; and as long as nobody else wrote the asset's row, an open session has it in its snapshot, and
  the versions differ from that snapshot only in ways the aggregate does not see (`Follows`).  The hypothesis
  is needed: with review, repeats and deletions (three publish commits, no faults) TLC finds a
  repeated review that takes an older published version off the market.  The aggregate it computes is
  the one the asset has, so it does not write the asset's row, nothing conflicts, and a deletion of
  the newer version that counted on the older one commits after it: `public_latest_version` then names
  a version that is not published.

`GroupsConsistency.tla` proves, for any users, Skills, limits and requests at a time,
`GroupsTypeCorrect` and `ApprovalsEndWithMembership` on either database, and `MembersCounted`,
`GroupLimitKept`, `RevocationIsFinal` and `SkillsCounted` on one that refuses writes to stale rows.  `MemberCountExact`
alone is not inductive: a commit stores a number counted in its snapshot.  The invariant `Consistent`
adds that every transaction in progress that may still commit has the current members in its snapshot
(`Current`), and that its rows, ids and operation fit (`Sound`, `Owned`, `IdsFresh`).  Whoever refreshes
the counts writes the group's row, and so ends every other transaction that would.  The proof of
`SkillsCounted` corrected the property: deleting a Skill removes its grants without writing the
group's row (`services/plugin.py:2143`), so a request that looked before it counts the deleted Skill,
which only an instance with two Skills shows.  `SkillCountFollows` says so now; the run has one Skill,
the theorem any number (`SeesGrants`).

`GitSyncSafety.tla` proves, for any processes, syncs, entries, pushes and registrations and whatever
fails: `GitSyncTypeCorrect`; with one request at a time (`OneRequest`), `SyncsHoldLease`
(`Spec => ImplementsLease`, the refinement of `SyncLease`) and `DeletionUnbinds`; and with `~Reverts`,
`SuccessIsTrue`.  The invariant `Held` says why the status is a lease: while a sync is live the row is
its own, syncing, and no older than the sync's last heartbeat (`Leased`), hence blocking (`LiveBlocks`),
hence no request got past its checks (`Prepares`, `Deletes`).  Whatever is bound, has versions or is
named by a sync is there (`Present`).  `Safe` adds an order: unless the publisher's hand is on the
asset, its digest and the contents of its versions are no newer than what it shows, and that no newer
than clone and repository (`Rises`), so an entry skipped as unchanged is what the market has even if
an earlier binding was lost, and so every entry behind the sync is current or changed by hand
(`AllDealt`).

`PlaygroundSafety.tla` proves `PlaygroundTypeCorrect`, `ConcurrencyIsKept`, `SessionsAreCharged`,
`LeasesAreExclusive`, `TokensFollow` and `SkillsAreOwn` for any sessions, pods and limits.  The invariant
`Safe`: whoever is in the critical section holds the user's lock entry and is alone in it (`Locks`), has
room on record (`RoomKept`) and is charged; and a pod has one place (`Pooled`: idle, in a session, in a
hand, or still uncreated), which holds because `destroy` takes the lease out of the session in the step
that unbinds the token.

`IndexReloadSafety.tla` proves `IndexReloadTypeCorrect`, `OverlapIsCounted`, `InstancesAgree`,
`AnnouncedIsStored` and `AnnouncedInOrder` for any instances, rebuilds, versions kept and restarts.  The
invariant `Safe`: the lock, while set, stands for one scheduled rebuild (`LockCounts`), so without a loss
they are serial (`Serial`); each rebuild has an index of its own that no message names yet
(`IndexesOwn`); the last announced index is last in line wherever it still waits (`LastInLine`); and
what is stored goes only when enough newer directories are there (`AllStored`, by a newest survivor of
the clean-up).

The assumptions are those in the `ASSUME` of each module; the hypotheses named above are conditions of
the theorems.

Every safety property a passing run checks is a theorem.  Left to TLC: `ReviewConcludes`,
`SourceIsFreed`, `CreationAnswered` and `SessionsEnd`, because liveness under fairness is out of the
prover's reach, and the four violations.

## Not modelled

- Downloads: the raw.zip cache (labelled with the digest of a HEAD made before the bytes are read,
  `services/plugin.py:2561`), the cached file lists (keyed by the digest of the row while the package
  is read from the store, `services/plugin.py:3485`) and the metering of a download once per source
  and day (`routers/plugin.py:1397`, whose mark is released on `PublishError` and `HTTPException` only).
- The system administrator's publish, agent assets, bundle uploads and manifests.
- Groups: the limit of groups per user and its race, which need several groups.
- Playground: the Redis store (its creation lock expires after 60 s while a forward may take 300 s),
  administrators, turns and their events, token budgets, pods outside the pool (`pool_size` 0).
- Index: tag refreshes and their locks, several groups of assets, deployments without Redis, the engine.
- Rate limiting (process-local sliding windows; reading the clock and taking the lock are separate steps, and a ClawHub
  search runs in a thread) and the GitHub proxy (its retry after 403 is not counted against the user's
  60 writes a minute, `core/github_proxy.py:162`).
- Interactions: likes and stars change under `SELECT ... FOR UPDATE` on the asset's row, one short
  transaction per request.
- OAuth, notifications, audit, package validation, recommender, dispatch, the ClawHub API, the CLI and
  the frontend: no protocol state that outlives a request, or pure transformation; `PROJECT.json`
  gives the reason for each.

## Plan

1. A module of downloads: raw.zip and file lists beside `SkillPublish`'s store (a download that starts
   after an overwrite returns the new package unless an older build is still running), and the
   metering of downloads (a failed download leaves no mark behind).
2. The Redis store of the playground, with its expiring lock.
3. The sliding window of the rate limiter against a reference definition (never more than the limit in
   a window, nobody refused who has room), with the writes of the GitHub proxy on top.
