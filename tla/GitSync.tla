------------------------------ MODULE GitSync -------------------------------
(***************************************************************************)
(* A Git source and the Skills it imports: services/git_skill_sync.py,     *)
(* imports/skill_import_service.py, repositories/git_source_repository.py  *)
(* and the /git-sources routes of routers/plugin.py.                       *)
(*                                                                         *)
(* The row's status "syncing" with its update_time works as a lease that   *)
(* heartbeats renew; a set in each process's memory backs it up.  Route    *)
(* handlers are coroutines that never wait between their database calls,   *)
(* so one process serves one of these requests at a time; syncs run on     *)
(* threads of their own.                                                   *)
(***************************************************************************)
EXTENDS Naturals, FiniteSets

CONSTANTS
  Workers,     \* marketplace processes
  Requests,    \* slots for requests of the source's owner and for starting processes
  Syncs,       \* slots for background syncs
  NumEntries,  \* skill directories, in name order
  MaxCommits,  \* bound: pushes to the repository; also the versions of an entry
  MaxSources,  \* bound: registrations of the repository
  MaxQuiet,    \* ticks a running sync may let pass between two heartbeats
  ByHand,      \* bound: entries whose Skills the publisher uploads by hand, too
  FailFast,    \* the route's fail_fast
  Reverts,     \* whether a push may restore an earlier content
  Faults       \* what may fail: crash, database, publish, bind

Entries == 1..NumEntries
Contents == 0..MaxCommits      \* 0: no such directory
Manual == MaxCommits + 1       \* what its publisher made of a Skill by hand
NoSource == 0
SourceIds == 1..MaxSources
\* Ages count ticks of a quarter of an hour since update_time.
OrphanAge == 1                 \* _LIST_ORPHAN_NO_HEARTBEAT_MS
StaleAge == 2                  \* _STALE_GIT_SYNC_MS
Ages == 0..StaleAge + 1

ASSUME GitSyncAssumption ==
  /\ Workers # {} /\ NumEntries \in Nat /\ MaxCommits \in Nat /\ MaxSources \in Nat
  /\ MaxQuiet \in Nat /\ MaxQuiet <= OrphanAge
  /\ FailFast \in BOOLEAN /\ Reverts \in BOOLEAN

VARIABLES
  repo,    \* the repository's head: the content of each entry
  pushes,  \* commits so far
  source,  \* the git_sources row of this repository
  minted,  \* source ids given out so far
  asset,   \* the publisher's market assets, by the name of the entry
  up,      \* processes that serve
  local,   \* _local_git_sync_active: a process and the id of a source it syncs
  req,     \* requests being served
  sync     \* background syncs

vars == <<repo, pushes, source, minted, asset, up, local, req, sync>>

-----------------------------------------------------------------------------
(* Rows and threads. *)

Status == {"none", "syncing", "success", "partial_failure", "failed"}
Source == [id : SourceIds \cup {NoSource}, status : Status, indexed : BOOLEAN, age : Ages]
\* bytes is what latest_version holds, kept the contents of the repository that versions of the
\* asset hold, digest git_sync_payload_sha256; a content stands for its digest.
Asset == [bytes : Contents \cup {Manual}, kept : SUBSET Contents,
          git : SourceIds \cup {NoSource}, digest : Contents]
\* "force" names the asset of that name by its asset_id, "lost" one that was deleted since.
Plan == {"none", "new", "force", "lost"}
Request == [pc : {"idle", "marking", "recovering", "deleting"}, w : Workers,
            src : SourceIds \cup {NoSource}, seen : Status, todo : SUBSET Entries,
            failed : BOOLEAN]
Sync == [pc : {"off", "queued", "cloning", "preparing", "importing", "binding", "ending"},
         w : Workers, src : SourceIds \cup {NoSource}, tree : [Entries -> Contents],
         plan : [Entries -> Plan], ok : BOOLEAN, bad : BOOLEAN, quiet : 0..MaxQuiet]

NoRow == [id |-> NoSource, status |-> "none", indexed |-> FALSE, age |-> 0]
NoAsset == [bytes |-> 0, kept |-> {}, git |-> NoSource, digest |-> 0]
SomeWorker == CHOOSE w \in Workers : TRUE
Idle == [pc |-> "idle", w |-> SomeWorker, src |-> NoSource, seen |-> "none", todo |-> {},
         failed |-> FALSE]
Off == [pc |-> "off", w |-> SomeWorker, src |-> NoSource, tree |-> [e \in Entries |-> 0],
        plan |-> [e \in Entries |-> "none"], ok |-> FALSE, bad |-> FALSE, quiet |-> 0]

Init ==
  /\ repo = [e \in Entries |-> 0]
  /\ pushes = 0
  /\ source = NoRow
  /\ minted = 0
  /\ asset = [e \in Entries |-> NoAsset]
  /\ up = Workers
  /\ local = {}
  /\ req = [r \in Requests |-> Idle]
  /\ sync = [s \in Syncs |-> Off]

First(S) == CHOOSE e \in S : \A f \in S : e <= f
Exists == source.id # NoSource
Linked(id) == {e \in Entries : asset[e].bytes # 0 /\ asset[e].git = id}

\* The content an upload replaces, if the version it declares is there and is overwritten.
Replaced(e) == {{}} \cup {{c} : c \in asset[e].kept}

\* Syncs and requests name assets by asset_id: those that hold the id of a deleted one will not
\* find it, whatever is uploaded under its name.
Forsaken(e) == [s \in Syncs |-> IF sync[s].plan[e] = "force"
                                THEN [sync[s] EXCEPT !.plan[e] = "lost"] ELSE sync[s]]
Bereft(e) == [r \in Requests |-> IF e \in req[r].todo
                                 THEN [req[r] EXCEPT !.todo = @ \ {e}, !.failed = TRUE] ELSE req[r]]

\* Syncs that still write to the source or the market.
Live(s) == sync[s].pc \notin {"off", "ending"}
Owns(s) == Exists /\ source.id = sync[s].src
Named(r) == Exists /\ source.id = req[r].src

-----------------------------------------------------------------------------
(* The status as a lease. *)

\* Mutant: a sync without a heartbeat blocks for ever.
StaleNever(age) == FALSE
StaleAfter(age) == age > StaleAge
AbandonedAfter(age) == age > OrphanAge
IsStale(row) == row.status = "syncing" /\ StaleAfter(row.age)
IsAbandonedOrphan(row) == row.status = "syncing" /\ ~row.indexed /\ AbandonedAfter(row.age)
Blocking(row) == row.status = "syncing" /\ ~IsStale(row) /\ ~IsAbandonedOrphan(row)

Failed(row) == [row EXCEPT !.status = "failed", !.indexed = TRUE, !.age = 0]

\* Mutant: the heartbeat renews nothing.
TouchedNever(row) == row

\* touch_git_source_sync_heartbeat: only a row that is still syncing is renewed.
Touched(row) == IF row.id # NoSource /\ row.status = "syncing"
                THEN [row EXCEPT !.age = 0] ELSE row

\* No await between the database calls of a handler: a process serves one at a time.
Serves(w) == w \in up /\ \A r \in Requests : req[r].pc = "idle" \/ req[r].w # w

-----------------------------------------------------------------------------
(* Requests. *)

\* prepare_git_source_sync_start.  The router's except clause unregisters the source
\* whatever was raised: a refused request takes away the entry of the sync that runs.
Prepare(r, w, row) ==
  IF Blocking(row) \/ <<w, row.id>> \in local
  THEN /\ local' = local \ {<<w, row.id>>}
       /\ UNCHANGED req
  ELSE /\ local' = local \cup {<<w, row.id>>}
       /\ req' = [req EXCEPT ![r] = [Idle EXCEPT !.pc = "marking", !.w = w, !.src = row.id,
                                                !.seen = row.status]]

\* Mutant: the route does not look whether the source exists.
RequestSyncUnchecked(r, w) ==
  /\ Serves(w) /\ req[r].pc = "idle"
  /\ Prepare(r, w, source)
  /\ UNCHANGED <<repo, pushes, source, minted, asset, up, sync>>

RequestSync(r, w) ==
  /\ Serves(w) /\ req[r].pc = "idle" /\ Exists
  /\ Prepare(r, w, source)
  /\ UNCHANGED <<repo, pushes, source, minted, asset, up, sync>>

CreateSource(r, w) ==
  /\ Serves(w) /\ req[r].pc = "idle" /\ ~Exists /\ minted < MaxSources
  /\ minted' = minted + 1
  /\ source' = [NoRow EXCEPT !.id = minted + 1]
  /\ Prepare(r, w, [NoRow EXCEPT !.id = minted + 1])
  /\ UNCHANGED <<repo, pushes, asset, up, sync>>

\* is_reclaimable_git_source: the owner registers the same repository again.
Reclaimable(row) ==
  /\ row.status \notin {"success", "partial_failure"}
  /\ row.status = "syncing" => IsStale(row)
  /\ Linked(row.id) = {}

\* The reused row's update_time is now, before its status is examined.
ReuseSource(r, w) ==
  LET row == [source EXCEPT !.age = 0] IN
  /\ Serves(w) /\ req[r].pc = "idle" /\ Exists /\ Reclaimable(source)
  /\ source' = row
  /\ Prepare(r, w, row)
  /\ UNCHANGED <<repo, pushes, minted, asset, up, sync>>

\* mark_git_source_syncing, then the background task is queued.  The UPDATE names the
\* status only if the row was loaded with another one; a row that is gone fails it.
Marked(r) == [source EXCEPT !.status = IF req[r].seen = "syncing" THEN @ ELSE "syncing",
                            !.age = 0]
MarkSyncing(r, s) ==
  /\ req[r].pc = "marking" /\ sync[s].pc = "off"
  /\ req' = [req EXCEPT ![r] = Idle]
  /\ IF Named(r)
     THEN /\ source' = Marked(r)
          /\ sync' = [sync EXCEPT ![s] = [Off EXCEPT !.pc = "queued", !.w = req[r].w,
                                                    !.src = req[r].src]]
          /\ UNCHANGED local
     ELSE /\ local' = local \ {<<req[r].w, req[r].src>>}
          /\ UNCHANGED <<source, sync>>
  /\ UNCHANGED <<repo, pushes, minted, asset, up>>

\* Listing one's sources repairs a first sync that gives no sign of life.
ListSources(r, w) ==
  /\ Serves(w) /\ req[r].pc = "idle" /\ Exists /\ IsAbandonedOrphan(source)
  /\ req' = [req EXCEPT ![r] = [Idle EXCEPT !.pc = "recovering", !.w = w, !.src = source.id]]
  /\ UNCHANGED <<repo, pushes, source, minted, asset, up, local, sync>>

Recover(r) ==
  /\ req[r].pc = "recovering"
  /\ req' = [req EXCEPT ![r] = Idle]
  /\ source' = IF Named(r) THEN Failed(source) ELSE source
  /\ UNCHANGED <<repo, pushes, minted, asset, up, local, sync>>

\* Mutant: only syncs of the same process stop a deletion.
DeleteRefusedLocally(w) == <<w, source.id>> \in local

DeleteRefused(w) == <<w, source.id>> \in local \/ Blocking(source)

\* delete_git_source_for_user: the linked Skills one by one, then the row.
RequestDelete(r, w) ==
  /\ Serves(w) /\ req[r].pc = "idle" /\ Exists /\ ~DeleteRefused(w)
  /\ req' = [req EXCEPT ![r] = [Idle EXCEPT !.pc = "deleting", !.w = w, !.src = source.id,
                                           !.todo = Linked(source.id)]]
  /\ UNCHANGED <<repo, pushes, source, minted, asset, up, local, sync>>

\* A Skill whose objects cannot be deleted counts as a failure, as does one that is gone (Bereft).
DeleteLinked(r) ==
  LET e == First(req[r].todo) IN
  /\ req[r].pc = "deleting" /\ req[r].todo # {}
  /\ \/ /\ asset' = [asset EXCEPT ![e] = NoAsset]
        /\ req' = [Bereft(e) EXCEPT ![r] = [req[r] EXCEPT !.todo = @ \ {e}]]
        /\ sync' = Forsaken(e)
     \/ /\ "storage" \in Faults
        /\ req' = [req EXCEPT ![r] = [req[r] EXCEPT !.todo = @ \ {e}, !.failed = TRUE]]
        /\ UNCHANGED <<asset, sync>>
  /\ UNCHANGED <<repo, pushes, source, minted, up, local>>

DeleteSource(r) ==
  /\ req[r].pc = "deleting" /\ req[r].todo = {}
  /\ req' = [req EXCEPT ![r] = Idle]
  /\ source' = IF req[r].failed \/ ~Named(r) THEN source ELSE NoRow
  /\ UNCHANGED <<repo, pushes, minted, asset, up, local, sync>>

-----------------------------------------------------------------------------
(* The background sync. *)

Step(s, pc) == [sync EXCEPT ![s].pc = pc, ![s].quiet = 0]

\* run_git_source_sync_background: the source may be gone; otherwise the heartbeat starts.
BeginSync(s) ==
  /\ sync[s].pc = "queued"
  /\ IF Owns(s)
     THEN /\ source' = Touched(source)
          /\ sync' = Step(s, "cloning")
     ELSE /\ sync' = Step(s, "ending")
          /\ UNCHANGED source
  /\ UNCHANGED <<repo, pushes, minted, asset, up, local, req>>

Clone(s) ==
  /\ sync[s].pc = "cloning"
  /\ \E e \in Entries : repo[e] # 0
  /\ sync' = [Step(s, "preparing") EXCEPT ![s].tree = repo]
  /\ source' = IF Owns(s) THEN Touched(source) ELSE source
  /\ UNCHANGED <<repo, pushes, minted, asset, up, local, req>>

\* What the preparation finds for an entry: its own asset, an orphan of another
\* source to reclaim, no asset, or an asset that must not be overwritten.
Reusable(e, id) ==
  /\ asset[e].bytes # 0
  /\ asset[e].git # NoSource /\ (asset[e].git = id \/ asset[e].git # source.id)
Prepared(e, s) ==
  IF Reusable(e, sync[s].src) THEN "force" ELSE IF asset[e].bytes = 0 THEN "new" ELSE "none"
Directories(s) == {e \in Entries : sync[s].tree[e] # 0}
NameConflicts(s) == {e \in Directories(s) : Prepared(e, s) = "none"}
\* fail_fast ends the preparation at the first conflict.
Examined(s) == IF FailFast /\ NameConflicts(s) # {}
               THEN {e \in Directories(s) : e < First(NameConflicts(s))}
               ELSE Directories(s)

PrepareEntries(s) ==
  /\ sync[s].pc = "preparing"
  /\ sync' = [Step(s, "importing") EXCEPT
                ![s].plan = [e \in Entries |-> IF e \in Examined(s) THEN Prepared(e, s) ELSE "none"],
                ![s].bad = NameConflicts(s) # {}]
  /\ source' = IF Owns(s) THEN Touched(source) ELSE source
  /\ UNCHANGED <<repo, pushes, minted, asset, up, local, req>>

Todo(s) == {e \in Entries : sync[s].plan[e] # "none"}
Renewed(s) == IF Owns(s) THEN Touched(source) ELSE source
Ended(s) == [Off EXCEPT !.pc = "ending", !.w = sync[s].w, !.src = sync[s].src]

\* Mutant: an entry the source imported before is never published again.
UnchangedOnceBound(s, e) == asset[e].bytes # 0 /\ asset[e].git = sync[s].src

\* The directory is what the market's asset was last bound to: nothing to publish.
Unchanged(s, e) == /\ asset[e].bytes # 0 /\ asset[e].git = sync[s].src
                   /\ asset[e].digest = sync[s].tree[e]

\* One entry after the other in name order; fail_fast stops at the first error.
Counted(s, e, fine) ==
  [sync EXCEPT ![s].pc = "importing",
               ![s].plan = [f \in Entries |-> IF f = e \/ (FailFast /\ ~fine) THEN "none" ELSE @[f]],
               ![s].ok = @ \/ fine, ![s].bad = @ \/ ~fine]

SkipEntry(s) ==
  LET e == First(Todo(s)) IN
  /\ sync[s].pc = "importing" /\ Todo(s) # {} /\ Unchanged(s, e)
  /\ sync' = [Counted(s, e, TRUE) EXCEPT ![s].quiet = 0]
  /\ source' = Renewed(s)
  /\ UNCHANGED <<repo, pushes, minted, asset, up, local, req>>

\* A forced publish names the asset the preparation found; it may be gone.
Found(s, e) == sync[s].plan[e] # "lost"

\* publish: a new version, which becomes the latest, or a forced one in the place of its like.
Store(s, e) == \E lost \in IF sync[s].plan[e] = "force" THEN Replaced(e) ELSE {{}} :
  asset' = [asset EXCEPT ![e].bytes = sync[s].tree[e],
                         ![e].kept = (@ \ lost) \cup {sync[s].tree[e]}]

\* A version that holds this very package already is left as it is, and so is the latest.
Deduplicate(s, e) == sync[s].tree[e] \in asset[e].kept /\ asset' = asset

\* publish commits before the binding does; the binding names the asset it returned.
PublishEntry(s) ==
  LET e == First(Todo(s)) IN
  /\ sync[s].pc = "importing" /\ Todo(s) # {} /\ ~Unchanged(s, e) /\ Found(s, e)
  /\ Store(s, e) \/ Deduplicate(s, e)
  /\ sync' = [Step(s, "binding") EXCEPT ![s].plan[e] = "force"]
  /\ source' = Renewed(s)
  /\ UNCHANGED <<repo, pushes, minted, up, local, req>>

\* The name was taken since, with the same version number: a planned skip.
VersionTaken(s) ==
  LET e == First(Todo(s)) IN
  /\ sync[s].pc = "importing" /\ Todo(s) # {} /\ ~Unchanged(s, e)
  /\ sync[s].plan[e] = "new" /\ asset[e].bytes # 0
  /\ sync' = [Counted(s, e, TRUE) EXCEPT ![s].quiet = 0]
  /\ source' = Renewed(s)
  /\ UNCHANGED <<repo, pushes, minted, asset, up, local, req>>

PublishEntryFails(s) ==
  LET e == First(Todo(s)) IN
  /\ sync[s].pc = "importing" /\ Todo(s) # {} /\ ~Unchanged(s, e)
  /\ "publish" \in Faults \/ ~Found(s, e)
  /\ sync' = [Counted(s, e, FALSE) EXCEPT ![s].quiet = 0]
  /\ source' = Renewed(s)
  /\ UNCHANGED <<repo, pushes, minted, asset, up, local, req>>

\* _bind_git_asset: the published asset may have been deleted.
BindEntry(s) ==
  LET e == First(Todo(s))
      found == Found(s, e) IN
  /\ sync[s].pc = "binding"
  /\ asset' = IF found
              THEN [asset EXCEPT ![e].git = sync[s].src, ![e].digest = sync[s].tree[e]]
              ELSE asset
  /\ sync' = Counted(s, e, found)
  /\ UNCHANGED <<repo, pushes, source, minted, up, local, req>>

BindFails(s) ==
  /\ "bind" \in Faults /\ sync[s].pc = "binding"
  /\ sync' = Counted(s, First(Todo(s)), FALSE)
  /\ UNCHANGED <<repo, pushes, source, minted, asset, up, local, req>>

Outcome(s) == IF ~sync[s].bad THEN "success"
              ELSE IF sync[s].ok THEN "partial_failure" ELSE "failed"

\* The final status is written whatever the row says now.
ConcludeSync(s) ==
  /\ sync[s].pc = "importing" /\ Todo(s) = {}
  /\ source' = IF Owns(s)
               THEN [source EXCEPT !.status = Outcome(s), !.indexed = TRUE, !.age = 0]
               ELSE source
  /\ sync' = [sync EXCEPT ![s] = Ended(s)]
  /\ UNCHANGED <<repo, pushes, minted, asset, up, local, req>>

\* _finalize_git_source_sync_status: the clone fails, has no entries, or a later error.
SyncFails(s) ==
  /\ \/ sync[s].pc = "cloning"
     \/ "database" \in Faults /\ sync[s].pc \in {"preparing", "importing"}
  /\ source' = IF Owns(s) THEN Failed(source) ELSE source
  /\ sync' = [sync EXCEPT ![s] = Ended(s)]
  /\ UNCHANGED <<repo, pushes, minted, asset, up, local, req>>

\* The URL is refused before the heartbeat: only here the status is looked at first.
SetupFails(s) ==
  /\ sync[s].pc = "queued"
  /\ source' = IF Owns(s) /\ source.status = "syncing" THEN Failed(source) ELSE source
  /\ sync' = [sync EXCEPT ![s] = Ended(s)]
  /\ UNCHANGED <<repo, pushes, minted, asset, up, local, req>>

\* The result itself cannot be written: the row stays syncing.
ResultLost(s) ==
  /\ "database" \in Faults /\ Live(s) /\ sync[s].pc # "binding"
  /\ sync' = [sync EXCEPT ![s] = Ended(s)]
  /\ UNCHANGED <<repo, pushes, source, minted, asset, up, local, req>>

EndSync(s) ==
  /\ sync[s].pc = "ending"
  /\ local' = local \ {<<sync[s].w, sync[s].src>>}
  /\ sync' = [sync EXCEPT ![s] = Off]
  /\ UNCHANGED <<repo, pushes, source, minted, asset, up, req>>

-----------------------------------------------------------------------------
(* The repository, the publisher, time and processes. *)

Push(e) ==
  /\ pushes < MaxCommits
  /\ pushes' = pushes + 1
  /\ \E c \in {0, pushes + 1} \cup (IF Reverts THEN 1..pushes ELSE {}) :
       /\ c # repo[e]
       /\ repo' = [repo EXCEPT ![e] = c]
  /\ UNCHANGED <<source, minted, asset, up, local, req, sync>>

\* The publisher uploads a Skill of that name, bound to a source or not: a first version, a new
\* one or a forced one.  Neither git_source_id nor the digest is touched.
Upload(e) ==
  /\ e \in ByHand
  /\ \E lost \in Replaced(e) :
       asset' = [asset EXCEPT ![e].bytes = Manual, ![e].kept = @ \ lost]
  /\ UNCHANGED <<repo, pushes, source, minted, up, local, req, sync>>

\* The publisher deletes one version of several.  What remains when it was the latest is the
\* publisher's doing, as is an upload.
DeleteVersion(e) ==
  /\ e \in ByHand
  /\ \E c \in asset[e].kept :
       asset' = [asset EXCEPT ![e].bytes = IF @ = c THEN Manual ELSE @, ![e].kept = @ \ {c}]
  /\ UNCHANGED <<repo, pushes, source, minted, up, local, req, sync>>

\* The publisher deletes the Skill, or the only version of it.
DeleteAsset(e) ==
  /\ asset[e].bytes # 0
  /\ asset' = [asset EXCEPT ![e] = NoAsset]
  /\ sync' = Forsaken(e) /\ req' = Bereft(e)
  /\ UNCHANGED <<repo, pushes, source, minted, up, local>>

\* A quarter of an hour. MaxQuiet: the timeouts of git and of one publish are shorter
\* than that, so a running sync reaches its next heartbeat.
Tick ==
  /\ source.status = "syncing"
  /\ \A s \in Syncs : Live(s) => sync[s].quiet < MaxQuiet
  /\ source' = [source EXCEPT !.age = IF @ > StaleAge THEN @ ELSE @ + 1]
  /\ sync' = [s \in Syncs |-> IF Live(s) THEN [sync[s] EXCEPT !.quiet = @ + 1] ELSE sync[s]]
  /\ UNCHANGED <<repo, pushes, minted, asset, up, local, req>>

Crash(w) ==
  /\ "crash" \in Faults /\ w \in up
  /\ up' = up \ {w}
  /\ local' = {l \in local : l[1] # w}
  /\ req' = [r \in Requests |-> IF req[r].w = w THEN Idle ELSE req[r]]
  /\ sync' = [s \in Syncs |-> IF sync[s].w = w THEN Off ELSE sync[s]]
  /\ UNCHANGED <<repo, pushes, source, minted, asset>>

\* recover_interrupted_git_syncing_on_startup: other processes' live syncs are spared.
\* The process serves once the recovery is done.
StartUp(r, w) ==
  /\ w \notin up /\ req[r].pc = "idle"
  /\ up' = up \cup {w}
  /\ req' = IF IsStale(source) \/ IsAbandonedOrphan(source)
            THEN [req EXCEPT ![r] = [Idle EXCEPT !.pc = "recovering", !.w = w, !.src = source.id]]
            ELSE req
  /\ UNCHANGED <<repo, pushes, source, minted, asset, local, sync>>

-----------------------------------------------------------------------------

Ask(r) == \E w \in Workers : RequestSync(r, w) \/ CreateSource(r, w) \/ ReuseSource(r, w)
                              \/ ListSources(r, w) \/ RequestDelete(r, w)
Serve(r) == \/ \E s \in Syncs : MarkSyncing(r, s)
            \/ Recover(r) \/ DeleteLinked(r) \/ DeleteSource(r)
Run(s) == \/ BeginSync(s) \/ Clone(s) \/ PrepareEntries(s)
          \/ SkipEntry(s) \/ PublishEntry(s) \/ VersionTaken(s) \/ PublishEntryFails(s)
          \/ BindEntry(s) \/ BindFails(s) \/ ConcludeSync(s) \/ SyncFails(s)
          \/ SetupFails(s) \/ ResultLost(s) \/ EndSync(s)

Next == \/ \E r \in Requests : Ask(r) \/ Serve(r)
        \/ \E s \in Syncs : Run(s)
        \/ \E e \in Entries : Push(e) \/ Upload(e) \/ DeleteVersion(e) \/ DeleteAsset(e)
        \/ Tick
        \/ \E w \in Workers : Crash(w) \/ \E r \in Requests : StartUp(r, w)

Spec == Init /\ [][Next]_vars

\* The threads of syncs and time go on.  Requests, restarts and the owner are owed nothing.
FairSpec == /\ Spec
            /\ \A s \in Syncs : WF_vars(Run(s))
            /\ WF_vars(Tick)

-----------------------------------------------------------------------------
(* Properties. *)

TypeOK ==
  /\ repo \in [Entries -> Contents] /\ pushes \in 0..MaxCommits
  /\ source \in Source /\ minted \in 0..MaxSources
  /\ asset \in [Entries -> Asset]
  /\ up \subseteq Workers /\ local \subseteq Workers \X SourceIds
  /\ req \in [Requests -> Request] /\ sync \in [Syncs -> Sync]

\* The status is a lease: taken only when no sync runs, kept while one runs, given
\* back by the sync that holds it, reclaimed only after that sync is gone.
Lease == INSTANCE SyncLease WITH leased <- source.status = "syncing",
                                 active <- {s \in Syncs : Live(s)}
ImplementsLease == Lease!Spec

\* Deleting a source leaves no Skill bound to it behind: whatever is bound names the
\* source that exists (delete_git_source_for_user cascades before it deletes the row).
LinkedToLiveSource ==
  \A e \in Entries : asset[e].git # NoSource => asset[e].git = source.id

\* A sync that reports success leaves every Skill bound to it at the content of the commit it
\* cloned, those it skipped as unchanged included, unless the publisher changed it by hand: _skip
\* compares the directory with the digest of the last binding, never with the market's bytes.
SuccessIsCurrent ==
  [][\A s \in Syncs : ConcludeSync(s) /\ Owns(s) /\ source'.status = "success"
       => \A e \in Directories(s) : asset[e].git = sync[s].src
            => asset[e].bytes \in {sync[s].tree[e], Manual}]_vars

\* Whatever dies or fails, restarted or not, a source does not refuse syncs and deletion for ever.
SourceIsFreed == Blocking(source) ~> ~Blocking(source)

=============================================================================
