---------------------------- MODULE GitSyncSafety ----------------------------
(***************************************************************************)
(* What GitSync guarantees for any numbers of processes, syncs, entries,   *)
(* pushes and registrations, whatever fails, when requests come one at a   *)
(* time: the syncing status is the lease of SyncLease, deletion leaves     *)
(* nothing bound behind, and a sync that reports success leaves the        *)
(* contents it cloned in the market, where nobody changed them by hand.    *)
(***************************************************************************)
EXTENDS GitSync, FiniteSetTheorems, TLAPS

\* The handlers that prepare a sync take two transactions to read and to mark: two of them at a
\* time start two syncs.
OneRequest == \A q, r \in Requests : q = r

-----------------------------------------------------------------------------
(* The inductive invariant. *)

\* A live sync is the only one, its heartbeats keep the row syncing and young, and no request is
\* under way.
Leased == \A s \in Syncs : Live(s) =>
  /\ Owns(s) /\ source.status = "syncing" /\ source.age <= sync[s].quiet
  /\ \A t \in Syncs : Live(t) => t = s
  /\ \A r \in Requests : req[r].pc = "idle"

\* A request that is about to mark the row knows its status.
Prepares == \A r \in Requests : req[r].pc = "marking" => Named(r) /\ source.status = req[r].seen

\* A request that deletes a source still has every Skill bound to it to delete.
Deletes == \A r \in Requests : req[r].pc = "deleting" =>
  Named(r) /\ (~req[r].failed => Linked(source.id) \subseteq req[r].todo)

\* Assets are bound to the source that exists.
Bound == \A e \in Entries : asset[e].git # NoSource => asset[e].git = source.id

\* What is bound, has versions or is named by a sync is there.
Present == \A e \in Entries : asset[e].bytes = 0 =>
  /\ asset[e].git = NoSource /\ asset[e].kept = {}
  /\ \A s \in Syncs : sync[s].plan[e] # "force"

\* What a sync plans it has cloned.
Plans == \A s \in Syncs :
  /\ \A e \in Entries : sync[s].tree[e] # 0 => sync[s].pc \in {"preparing", "importing", "binding"}
  /\ \A e \in Entries : sync[s].plan[e] # "none" =>
       sync[s].tree[e] # 0 /\ sync[s].pc \in {"importing", "binding"}
  /\ sync[s].pc = "binding" => Todo(s) # {} /\ sync[s].plan[First(Todo(s))] # "new"

Held == TypeOK /\ Plans /\ Present /\ Leased /\ Prepares /\ Deletes /\ Bound

-----------------------------------------------------------------------------
(* The first entry. *)

LEMMA EntriesFinite == Entries \subseteq Nat /\ IsFiniteSet(Entries)
<1>1. 1 \in Int /\ NumEntries \in Int /\ 1..NumEntries \subseteq Nat
  BY GitSyncAssumption
<1> QED BY <1>1, FS_Interval DEF Entries

LEMMA FirstIn ==
  ASSUME NEW S \in SUBSET Entries, S # {}
  PROVE  First(S) \in S
<1> DEFINE Below(x) == {y \in S : y < x}
           F == {Below(x) : x \in S}
<1>1. S \subseteq Nat /\ IsFiniteSet(S)
  BY EntriesFinite, FS_Subset
<1>2. IsWellFoundedOn(StrictSubsetOrdering(S), SUBSET S)
  BY <1>1, FS_StrictSubsetOrderingWellFounded, FS_FiniteSubsetsOfFinite
<1>3. F \subseteq SUBSET S /\ F # {}
  OBVIOUS
<1>4. PICK A \in F : \A B \in F : ~(<<B, A>> \in StrictSubsetOrdering(S))
  <2> HIDE DEF F
  <2> QED BY <1>2, <1>3, WFMin
<1>5. PICK x \in S : A = Below(x)
  OBVIOUS
<1>6. ASSUME NEW y \in S, y < x PROVE FALSE
  <2>1. x \in Nat /\ y \in Nat /\ \A z \in S : z \in Nat
    BY <1>1
  <2>2. Below(y) \subseteq Below(x) /\ y \in Below(x) /\ y \notin Below(y)
    <3>1. ~(y < y) /\ \A z \in S : z < y => z < x
      BY <1>6, <2>1
    <3> QED BY <1>6, <3>1
  <2>3. <<Below(y), Below(x)>> \in StrictSubsetOrdering(S)
    BY <2>2 DEF StrictSubsetOrdering
  <2> QED BY <1>4, <1>5, <2>3
<1>7. \A y \in S : x <= y
  BY <1>1, <1>6
<1> QED BY <1>7 DEF First

-----------------------------------------------------------------------------
(* Types. *)

LEMMA SomeWorkerIn == SomeWorker \in Workers
BY GitSyncAssumption DEF SomeWorker

LEMMA RowsTyped ==
  /\ NoRow \in Source /\ NoAsset \in Asset /\ Idle \in Request /\ Off \in Sync
  /\ \A row \in Source : Failed(row) \in Source /\ Touched(row) \in Source
<1>1. 0 \in Contents /\ 0 \in Ages /\ 0 \in 0..MaxQuiet
  BY GitSyncAssumption DEF Contents, Ages, StaleAge
<1>2. NoRow \in Source /\ NoAsset \in Asset
  BY <1>1 DEF NoRow, Source, Status, NoAsset, Asset
<1>3. Idle \in Request
  BY SomeWorkerIn DEF Idle, Request, Status
<1>4. Off \in Sync
  BY <1>1, SomeWorkerIn DEF Off, Sync, Plan
<1>5. ASSUME NEW row \in Source PROVE Failed(row) \in Source /\ Touched(row) \in Source
  BY <1>1 DEF Failed, Touched, Source, Status
<1> QED BY <1>2, <1>3, <1>4, <1>5

SyncPcs == {"off", "queued", "cloning", "preparing", "importing", "binding", "ending"}

\* A sync whose every step is typed.
LEMMA SyncTyped ==
  ASSUME NEW s \in Syncs, sync \in [Syncs -> Sync]
  PROVE  /\ \A pc \in SyncPcs : Step(s, pc) \in [Syncs -> Sync]
         /\ \A e : \A fine \in BOOLEAN : Counted(s, e, fine) \in [Syncs -> Sync]
         /\ Ended(s) \in Sync
<1>1. 0 \in 0..MaxQuiet
  BY GitSyncAssumption
<1>2. sync[s] \in Sync
  OBVIOUS
<1>3. ASSUME NEW pc \in SyncPcs PROVE Step(s, pc) \in [Syncs -> Sync]
  BY <1>1, <1>2 DEF Step, Sync, SyncPcs
<1>4. ASSUME NEW e, NEW fine \in BOOLEAN PROVE Counted(s, e, fine) \in [Syncs -> Sync]
  <2>1. [f \in Entries |-> IF f = e \/ (FailFast /\ ~fine) THEN "none" ELSE sync[s].plan[f]]
          \in [Entries -> Plan]
    BY <1>2 DEF Sync, Plan
  <2>2. (sync[s].ok \/ fine) \in BOOLEAN /\ (sync[s].bad \/ ~fine) \in BOOLEAN
    BY <1>2 DEF Sync
  <2> QED BY <1>2, <2>1, <2>2 DEF Counted, Sync
<1>5. Ended(s) \in Sync
  BY <1>2, RowsTyped DEF Ended, Sync
<1> QED BY <1>3, <1>4, <1>5

LEMMA PrepareTyped ==
  ASSUME TypeOK, NEW r \in Requests, NEW w \in Workers, NEW row \in Source, row.id \in SourceIds,
         Prepare(r, w, row)
  PROVE  local' \in SUBSET (Workers \X SourceIds) /\ req' \in [Requests -> Request]
<1>1. [Idle EXCEPT !.pc = "marking", !.w = w, !.src = row.id, !.seen = row.status] \in Request
  BY RowsTyped DEF Request, Source
<1> QED BY <1>1 DEF Prepare, TypeOK

\* Syncs that lose the asset they name keep all else.
LEMMA ForsakenIs ==
  ASSUME TypeOK, NEW e \in Entries
  PROVE  /\ Forsaken(e) \in [Syncs -> Sync]
         /\ \A s \in Syncs :
              /\ Forsaken(e)[s].pc = sync[s].pc /\ Forsaken(e)[s].w = sync[s].w
              /\ Forsaken(e)[s].src = sync[s].src /\ Forsaken(e)[s].tree = sync[s].tree
              /\ Forsaken(e)[s].bad = sync[s].bad /\ Forsaken(e)[s].quiet = sync[s].quiet
              /\ \A f \in Entries : \/ Forsaken(e)[s].plan[f] = sync[s].plan[f]
                                    \/ sync[s].plan[f] = "force" /\ Forsaken(e)[s].plan[f] = "lost"
              /\ Forsaken(e)[s].plan[e] # "force"
<1>1. \A s \in Syncs : sync[s] \in Sync
  BY DEF TypeOK
<1>2. ASSUME NEW s \in Syncs
      PROVE  [sync[s] EXCEPT !.plan[e] = "lost"] \in Sync
  <2>1. [sync[s].plan EXCEPT ![e] = "lost"] \in [Entries -> Plan]
    BY <1>1 DEF Sync, Plan
  <2> QED BY <1>1, <2>1 DEF Sync
<1>3. Forsaken(e) \in [Syncs -> Sync]
  BY <1>1, <1>2 DEF Forsaken
<1>4. ASSUME NEW s \in Syncs, sync[s].plan[e] = "force"
      PROVE  /\ Forsaken(e)[s] = [sync[s] EXCEPT !.plan[e] = "lost"]
             /\ Forsaken(e)[s].plan = [sync[s].plan EXCEPT ![e] = "lost"]
  BY <1>1, <1>4 DEF Forsaken, Sync
<1>5. ASSUME NEW s \in Syncs, sync[s].plan[e] # "force"
      PROVE  Forsaken(e)[s] = sync[s]
  BY <1>5 DEF Forsaken
<1>6. ASSUME NEW s \in Syncs
      PROVE /\ Forsaken(e)[s].pc = sync[s].pc /\ Forsaken(e)[s].w = sync[s].w
            /\ Forsaken(e)[s].src = sync[s].src /\ Forsaken(e)[s].tree = sync[s].tree
            /\ Forsaken(e)[s].bad = sync[s].bad /\ Forsaken(e)[s].quiet = sync[s].quiet
            /\ \A f \in Entries : \/ Forsaken(e)[s].plan[f] = sync[s].plan[f]
                                  \/ sync[s].plan[f] = "force" /\ Forsaken(e)[s].plan[f] = "lost"
            /\ Forsaken(e)[s].plan[e] # "force"
  <2>1. CASE sync[s].plan[e] = "force"
    <3>1. /\ Forsaken(e)[s].pc = sync[s].pc /\ Forsaken(e)[s].w = sync[s].w
          /\ Forsaken(e)[s].src = sync[s].src /\ Forsaken(e)[s].tree = sync[s].tree
          /\ Forsaken(e)[s].bad = sync[s].bad /\ Forsaken(e)[s].quiet = sync[s].quiet
      BY <1>1, <1>4, <2>1 DEF Sync
    <3>2. sync[s].plan \in [Entries -> Plan]
      BY <1>1 DEF Sync
    <3> QED BY <1>4, <2>1, <3>1, <3>2
  <2>2. CASE sync[s].plan[e] # "force"
    BY <1>5, <2>2
  <2> QED BY <2>1, <2>2
<1> QED BY <1>3, <1>6

LEMMA BereftTyped ==
  ASSUME TypeOK, NEW e \in Entries
  PROVE  Bereft(e) \in [Requests -> Request]
<1>1. ASSUME NEW r \in Requests
      PROVE  [req[r] EXCEPT !.todo = @ \ {e}, !.failed = TRUE] \in Request
  BY DEF TypeOK, Request
<1> QED BY <1>1 DEF Bereft, TypeOK

LEMMA AskTyped ==
  ASSUME TypeOK, NEW r \in Requests, Ask(r)
  PROVE  TypeOK'
<1>1. PICK w \in Workers : RequestSync(r, w) \/ CreateSource(r, w) \/ ReuseSource(r, w)
                           \/ ListSources(r, w) \/ RequestDelete(r, w)
  BY DEF Ask
<1>2. 0 \in Ages /\ source \in Source
  BY DEF Ages, StaleAge, TypeOK
<1>3. Exists => source.id \in SourceIds
  BY <1>2 DEF Exists, Source, NoSource
<1>4. CASE RequestSync(r, w)
  BY <1>2, <1>3, <1>4, PrepareTyped DEF RequestSync, TypeOK
<1>5. CASE CreateSource(r, w)
  <2>1. minted + 1 \in SourceIds /\ minted + 1 \in 0..MaxSources
    BY <1>5, GitSyncAssumption DEF CreateSource, TypeOK, SourceIds
  <2>2. [NoRow EXCEPT !.id = minted + 1] \in Source /\ [NoRow EXCEPT !.id = minted + 1].id \in SourceIds
    BY <2>1, RowsTyped DEF Source, NoRow
  <2>3. local' \in SUBSET (Workers \X SourceIds) /\ req' \in [Requests -> Request]
    BY <1>5, <2>2, PrepareTyped DEF CreateSource
  <2> QED BY <1>5, <2>1, <2>2, <2>3 DEF CreateSource, TypeOK
<1>6. CASE ReuseSource(r, w)
  <2>1. [source EXCEPT !.age = 0] \in Source /\ [source EXCEPT !.age = 0].id = source.id
    BY <1>2 DEF Source
  <2>2. local' \in SUBSET (Workers \X SourceIds) /\ req' \in [Requests -> Request]
    BY <1>3, <1>6, <2>1, PrepareTyped DEF ReuseSource
  <2> QED BY <1>6, <2>1, <2>2 DEF ReuseSource, TypeOK
<1>7. CASE ListSources(r, w)
  <2>1. [Idle EXCEPT !.pc = "recovering", !.w = w, !.src = source.id] \in Request
    BY <1>2, RowsTyped DEF Request, Source
  <2> QED BY <1>7, <2>1 DEF ListSources, TypeOK
<1>8. CASE RequestDelete(r, w)
  <2>1. [Idle EXCEPT !.pc = "deleting", !.w = w, !.src = source.id, !.todo = Linked(source.id)]
          \in Request
    BY <1>2, RowsTyped DEF Request, Source, Linked
  <2> QED BY <1>8, <2>1 DEF RequestDelete, TypeOK
<1> QED BY <1>1, <1>4, <1>5, <1>6, <1>7, <1>8

LEMMA ServeTyped ==
  ASSUME TypeOK, NEW r \in Requests, Serve(r)
  PROVE  TypeOK'
<1>1. 0 \in Ages /\ source \in Source /\ req[r] \in Request
  BY DEF Ages, StaleAge, TypeOK
<1>2. ASSUME NEW s \in Syncs, MarkSyncing(r, s)
      PROVE  TypeOK'
  <2>1. Marked(r) \in Source
    BY <1>1 DEF Marked, Source, Status
  <2>2. [Off EXCEPT !.pc = "queued", !.w = req[r].w, !.src = req[r].src] \in Sync
    BY <1>1, RowsTyped DEF Sync, Request
  <2> QED BY <1>2, <2>1, <2>2, RowsTyped DEF MarkSyncing, TypeOK
<1>3. CASE Recover(r)
  BY <1>1, <1>3, RowsTyped DEF Recover, TypeOK
<1>4. CASE DeleteLinked(r)
  <2> DEFINE e == First(req[r].todo)
  <2>0. e \in Entries
    BY <1>1, <1>4, FirstIn DEF DeleteLinked, Request
  <2>1. asset' \in [Entries -> Asset] /\ sync' \in [Syncs -> Sync]
    <3>1. /\ asset' = asset \/ asset' = [asset EXCEPT ![e] = NoAsset]
          /\ sync' = sync \/ sync' = Forsaken(e)
      BY <1>4 DEF DeleteLinked
    <3> HIDE DEF e
    <3>2. asset' \in [Entries -> Asset]
      BY <3>1, RowsTyped DEF TypeOK
    <3>3. sync' \in [Syncs -> Sync]
      BY <2>0, <3>1, ForsakenIs DEF TypeOK
    <3> QED BY <3>2, <3>3
  <2>2. [req[r] EXCEPT !.todo = @ \ {e}] \in Request
        /\ [req[r] EXCEPT !.todo = @ \ {e}, !.failed = TRUE] \in Request
    <3> HIDE DEF e
    <3> QED BY <1>1 DEF Request
  <2>3. \/ req' = [Bereft(e) EXCEPT ![r] = [req[r] EXCEPT !.todo = @ \ {e}]]
        \/ req' = [req EXCEPT ![r] = [req[r] EXCEPT !.todo = @ \ {e}, !.failed = TRUE]]
    BY <1>4 DEF DeleteLinked
  <2>4. req' \in [Requests -> Request]
    <3> HIDE DEF e
    <3> QED BY <2>0, <2>2, <2>3, BereftTyped DEF TypeOK
  <2> QED BY <1>4, <2>1, <2>4 DEF DeleteLinked, TypeOK
<1>5. CASE DeleteSource(r)
  BY <1>1, <1>5, RowsTyped DEF DeleteSource, TypeOK
<1> QED BY <1>2, <1>3, <1>4, <1>5 DEF Serve

LEMMA TodoIs ==
  ASSUME NEW s \in Syncs
  PROVE  Todo(s) \subseteq Entries /\ (Todo(s) # {} => First(Todo(s)) \in Todo(s))
BY FirstIn DEF Todo

LEMMA AssetTyped ==
  ASSUME TypeOK, NEW e \in Entries, NEW c \in Contents, NEW id \in SourceIds \cup {NoSource}
  PROVE  [asset EXCEPT ![e].git = id, ![e].digest = c] \in [Entries -> Asset]
<1>1. asset[e] \in Asset
  BY DEF TypeOK
<1>2. [asset[e] EXCEPT !.git = id, !.digest = c] \in Asset
  BY <1>1 DEF Asset
<1> QED BY <1>2 DEF TypeOK

\* What a publication leaves in the asset: a version with the content of the clone, which is the
\* latest unless the version was there.
LEMMA PublishIs ==
  ASSUME TypeOK, Plans, NEW s \in Syncs, PublishEntry(s)
  PROVE  LET e == First(Todo(s))  c == sync[s].tree[e] IN
         /\ e \in Entries /\ c # 0 /\ c \in Contents
         /\ asset' \in [Entries -> Asset] /\ \A f \in Entries : f # e => asset'[f] = asset[f]
         /\ asset'[e].git = asset[e].git /\ asset'[e].digest = asset[e].digest
         /\ \/ asset'[e].bytes = c /\ asset'[e].kept \subseteq asset[e].kept \cup {c}
            \/ asset'[e] = asset[e] /\ c \in asset[e].kept
<1> DEFINE e == First(Todo(s))
           c == sync[s].tree[e]
<1>1. e \in Entries /\ c # 0
  BY TodoIs DEF PublishEntry, Plans, Todo
<1>2. c \in Contents /\ asset[e] \in Asset
  BY <1>1 DEF TypeOK, Sync
<1>3. \/ \E lost \in {{}} \cup Replaced(e) :
           asset' = [asset EXCEPT ![e].bytes = c, ![e].kept = (@ \ lost) \cup {c}]
      \/ c \in asset[e].kept /\ asset' = asset
  BY DEF PublishEntry, Store, Deduplicate
<1> HIDE DEF e, c
<1>4. ASSUME NEW lost, asset' = [asset EXCEPT ![e].bytes = c, ![e].kept = (@ \ lost) \cup {c}]
      PROVE  /\ asset' \in [Entries -> Asset] /\ \A f \in Entries : f # e => asset'[f] = asset[f]
             /\ asset'[e].git = asset[e].git /\ asset'[e].digest = asset[e].digest
             /\ asset'[e].bytes = c /\ asset'[e].kept \subseteq asset[e].kept \cup {c}
  <2>1. (asset[e].kept \ lost) \cup {c} \in SUBSET Contents
    BY <1>2 DEF Asset
  <2>2. asset' = [asset EXCEPT ![e] = [asset[e] EXCEPT !.bytes = c, !.kept = (asset[e].kept \ lost) \cup {c}]]
    BY <1>1, <1>2, <1>4 DEF TypeOK, Asset
  <2>3. [asset[e] EXCEPT !.bytes = c, !.kept = (asset[e].kept \ lost) \cup {c}] \in Asset
    BY <1>2, <2>1 DEF Asset
  <2>4. asset'[e] = [asset[e] EXCEPT !.bytes = c, !.kept = (asset[e].kept \ lost) \cup {c}]
    BY <1>1, <2>2 DEF TypeOK
  <2>5. asset' \in [Entries -> Asset] /\ \A f \in Entries : f # e => asset'[f] = asset[f]
    BY <2>2, <2>3 DEF TypeOK
  <2>6. /\ asset'[e].git = asset[e].git /\ asset'[e].digest = asset[e].digest
        /\ asset'[e].bytes = c /\ asset'[e].kept = (asset[e].kept \ lost) \cup {c}
    BY <1>2, <2>4 DEF Asset
  <2> QED BY <2>5, <2>6
<1>5. /\ asset' \in [Entries -> Asset] /\ \A f \in Entries : f # e => asset'[f] = asset[f]
      /\ asset'[e].git = asset[e].git /\ asset'[e].digest = asset[e].digest
      /\ \/ asset'[e].bytes = c /\ asset'[e].kept \subseteq asset[e].kept \cup {c}
         \/ asset'[e] = asset[e] /\ c \in asset[e].kept
  BY <1>3, <1>4 DEF TypeOK
<1> QED BY <1>1, <1>2, <1>5 DEF e, c

\* The sync of a publication holds the id of the asset.
LEMMA PublishesIs ==
  ASSUME TypeOK, Plans, NEW s \in Syncs, PublishEntry(s)
  PROVE  LET e == First(Todo(s)) IN
         /\ sync' \in [Syncs -> Sync] /\ \A t \in Syncs : t # s => sync'[t] = sync[t]
         /\ sync'[s].pc = "binding" /\ sync'[s].quiet = 0 /\ sync'[s].src = sync[s].src
         /\ sync'[s].tree = sync[s].tree /\ sync'[s].bad = sync[s].bad
         /\ sync'[s].plan[e] = "force" /\ \A f \in Entries : f # e => sync'[s].plan[f] = sync[s].plan[f]
         /\ sync[s].plan[e] # "none"
<1> DEFINE e == First(Todo(s))
<1>1. e \in Entries /\ sync[s].plan[e] # "none"
  BY TodoIs DEF PublishEntry, Todo
<1>2. sync[s] \in Sync /\ 0 \in 0..MaxQuiet
  BY GitSyncAssumption DEF TypeOK
<1>3. sync' = [Step(s, "binding") EXCEPT ![s].plan[e] = "force"]
  BY DEF PublishEntry
<1> HIDE DEF e
<1> DEFINE new == [sync[s] EXCEPT !.pc = "binding", !.quiet = 0,
                                  !.plan = [sync[s].plan EXCEPT ![e] = "force"]]
<1>4. sync' = [sync EXCEPT ![s] = new]
  BY <1>2, <1>3 DEF Step, TypeOK, Sync
<1>5. [sync[s].plan EXCEPT ![e] = "force"] \in [Entries -> Plan]
  BY <1>2 DEF Sync, Plan
<1>6. new \in Sync /\ new.plan = [sync[s].plan EXCEPT ![e] = "force"]
      /\ new.pc = "binding" /\ new.quiet = 0 /\ new.src = sync[s].src
      /\ new.tree = sync[s].tree /\ new.bad = sync[s].bad
  BY <1>2, <1>5 DEF Sync
<1> HIDE DEF new
<1>7. sync' \in [Syncs -> Sync] /\ sync'[s] = new /\ \A t \in Syncs : t # s => sync'[t] = sync[t]
  BY <1>4, <1>6 DEF TypeOK
<1>8. new.plan[e] = "force" /\ \A f \in Entries : f # e => new.plan[f] = sync[s].plan[f]
  BY <1>1, <1>2, <1>6 DEF Sync
<1> QED BY <1>1, <1>6, <1>7, <1>8 DEF e

LEMMA RunTyped ==
  ASSUME TypeOK, Plans, NEW s \in Syncs, Run(s)
  PROVE  TypeOK'
<1> DEFINE e == First(Todo(s))
<1>1. source \in Source /\ sync[s] \in Sync /\ sync \in [Syncs -> Sync] /\ 0 \in Ages
  BY DEF Ages, StaleAge, TypeOK
<1>2. Touched(source) \in Source /\ Failed(source) \in Source /\ Renewed(s) \in Source
  BY <1>1, RowsTyped DEF Renewed
<1>3. CASE BeginSync(s)
  BY <1>1, <1>2, <1>3, SyncTyped DEF BeginSync, TypeOK, SyncPcs
<1>4. CASE Clone(s)
  <2>1. Step(s, "preparing") \in [Syncs -> Sync]
    BY <1>1, SyncTyped DEF SyncPcs
  <2>2. \A x \in [Syncs -> Sync] : \A t \in [Entries -> Contents] :
          [x EXCEPT ![s].tree = t] \in [Syncs -> Sync]
    BY DEF Sync
  <2>3. repo \in [Entries -> Contents] /\ sync' = [Step(s, "preparing") EXCEPT ![s].tree = repo]
    BY <1>4 DEF Clone, TypeOK
  <2>4. sync' \in [Syncs -> Sync]
    BY <2>1, <2>2, <2>3
  <2> QED BY <1>2, <1>4, <2>4 DEF Clone, Renewed, TypeOK
<1>5. CASE PrepareEntries(s)
  <2>1. Step(s, "importing") \in [Syncs -> Sync]
    BY <1>1, SyncTyped DEF SyncPcs
  <2>2. [f \in Entries |-> IF f \in Examined(s) THEN Prepared(f, s) ELSE "none"] \in [Entries -> Plan]
    BY DEF Prepared, Plan
  <2>3. (NameConflicts(s) # {}) \in BOOLEAN
    OBVIOUS
  <2>4. \A x \in [Syncs -> Sync] : \A p \in [Entries -> Plan], b \in BOOLEAN :
          [x EXCEPT ![s].plan = p, ![s].bad = b] \in [Syncs -> Sync]
    <3> SUFFICES ASSUME NEW x \in [Syncs -> Sync], NEW p \in [Entries -> Plan], NEW b \in BOOLEAN
                 PROVE  [x EXCEPT ![s].plan = p, ![s].bad = b] \in [Syncs -> Sync]
      OBVIOUS
    <3>1. [x[s] EXCEPT !.plan = p, !.bad = b] \in Sync
      BY DEF Sync
    <3>2. [x EXCEPT ![s].plan = p, ![s].bad = b] = [x EXCEPT ![s] = [x[s] EXCEPT !.plan = p, !.bad = b]]
      OBVIOUS
    <3> QED BY <3>1, <3>2
  <2>5. sync' = [Step(s, "importing") EXCEPT
                   ![s].plan = [f \in Entries |-> IF f \in Examined(s) THEN Prepared(f, s) ELSE "none"],
                   ![s].bad = (NameConflicts(s) # {})]
    BY <1>5 DEF PrepareEntries
  <2>6. sync' \in [Syncs -> Sync]
    BY <2>1, <2>2, <2>3, <2>4, <2>5
  <2> QED BY <1>2, <1>5, <2>6 DEF PrepareEntries, TypeOK
<1>6. ASSUME NEW fine \in BOOLEAN
      PROVE  [Counted(s, e, fine) EXCEPT ![s].quiet = 0] \in [Syncs -> Sync]
  <2>1. Counted(s, e, fine) \in [Syncs -> Sync] /\ 0 \in 0..MaxQuiet
    BY <1>1, SyncTyped, GitSyncAssumption
  <2> QED BY <2>1 DEF Sync
<1>7. CASE SkipEntry(s) \/ VersionTaken(s) \/ PublishEntryFails(s)
  BY <1>2, <1>6, <1>7 DEF SkipEntry, VersionTaken, PublishEntryFails, TypeOK
<1>8. CASE PublishEntry(s)
  BY <1>1, <1>2, <1>8, PublishIs, PublishesIs DEF PublishEntry, TypeOK
<1>9. CASE BindEntry(s)
  <2>1. e \in Entries
    BY <1>9, TodoIs DEF BindEntry, Plans
  <2>2. asset' \in [Entries -> Asset]
    BY <1>1, <1>9, <2>1, AssetTyped DEF BindEntry, TypeOK, Sync
  <2>3. sync' \in [Syncs -> Sync]
    BY <1>1, <1>9, SyncTyped DEF BindEntry, Found
  <2> QED BY <1>9, <2>2, <2>3 DEF BindEntry, TypeOK
<1>10. CASE BindFails(s)
  BY <1>1, <1>10, SyncTyped DEF BindFails, TypeOK
<1>11. CASE ConcludeSync(s)
  <2>1. source' \in Source
    BY <1>1, <1>11 DEF ConcludeSync, Outcome, Source, Status
  <2> QED BY <1>1, <1>11, <2>1, SyncTyped DEF ConcludeSync, TypeOK
<1>12. CASE SyncFails(s) \/ SetupFails(s) \/ ResultLost(s)
  BY <1>1, <1>2, <1>12, SyncTyped DEF SyncFails, SetupFails, ResultLost, TypeOK
<1>13. CASE EndSync(s)
  BY <1>1, <1>13, RowsTyped DEF EndSync, TypeOK
<1> QED BY <1>3, <1>4, <1>5, <1>7, <1>8, <1>9, <1>10, <1>11, <1>12, <1>13 DEF Run

LEMMA TickTyped ==
  ASSUME TypeOK, Tick
  PROVE  TypeOK'
<1>1. source' \in Source
  BY DEF Tick, TypeOK, Source, Ages, StaleAge
<1>2. ASSUME NEW s \in Syncs, Live(s)
      PROVE  [sync[s] EXCEPT !.quiet = @ + 1] \in Sync
  <2>1. sync[s].quiet < MaxQuiet /\ sync[s] \in Sync
    BY <1>2 DEF Tick, TypeOK
  <2>2. sync[s].quiet + 1 \in 0..MaxQuiet
    BY <2>1, GitSyncAssumption DEF Sync
  <2> QED BY <2>1, <2>2 DEF Sync
<1>3. sync' \in [Syncs -> Sync]
  BY <1>2 DEF Tick, TypeOK
<1> QED BY <1>1, <1>3 DEF Tick, TypeOK

\* What the publisher does by hand to a Skill that is there or not.
LEMMA HandIs ==
  ASSUME TypeOK, NEW e \in Entries, Upload(e) \/ DeleteVersion(e)
  PROVE  /\ asset' \in [Entries -> Asset] /\ \A f \in Entries : f # e => asset'[f] = asset[f]
         /\ asset'[e].git = asset[e].git /\ asset'[e].digest = asset[e].digest
         /\ asset'[e].kept \subseteq asset[e].kept
         /\ asset'[e].bytes = Manual \/ (asset'[e].bytes = asset[e].bytes /\ asset[e].kept # {})
<1>1. asset[e] \in Asset
  BY DEF TypeOK
<1>2. PICK k, b : /\ k \subseteq asset[e].kept /\ b \in {asset[e].bytes, Manual}
                  /\ b = Manual \/ asset[e].kept # {}
                  /\ asset' = [asset EXCEPT ![e].bytes = b, ![e].kept = k]
  <2>1. CASE Upload(e)
    <3>1. PICK lost : asset' = [asset EXCEPT ![e].bytes = Manual, ![e].kept = @ \ lost]
      BY <2>1 DEF Upload
    <3>2. asset' = [asset EXCEPT ![e].bytes = Manual, ![e].kept = asset[e].kept \ lost]
      BY <1>1, <3>1 DEF TypeOK, Asset
    <3> QED BY <3>2
  <2>2. CASE DeleteVersion(e)
    <3>1. PICK c \in asset[e].kept :
            asset' = [asset EXCEPT ![e].bytes = IF @ = c THEN Manual ELSE @, ![e].kept = @ \ {c}]
      BY <2>2 DEF DeleteVersion
    <3>2. asset' = [asset EXCEPT ![e].bytes = IF asset[e].bytes = c THEN Manual ELSE asset[e].bytes,
                                 ![e].kept = asset[e].kept \ {c}]
      BY <1>1, <3>1 DEF TypeOK, Asset
    <3> QED BY <3>2
  <2> QED BY <2>1, <2>2
<1> DEFINE new == [asset[e] EXCEPT !.bytes = b, !.kept = k]
<1>3. /\ new \in Asset /\ new.bytes = b /\ new.kept = k
      /\ new.git = asset[e].git /\ new.digest = asset[e].digest
  BY <1>1, <1>2 DEF Asset
<1>4. asset' = [asset EXCEPT ![e] = new]
  BY <1>1, <1>2 DEF TypeOK, Asset
<1> HIDE DEF new
<1>5. asset' \in [Entries -> Asset] /\ asset'[e] = new /\ \A f \in Entries : f # e => asset'[f] = asset[f]
  BY <1>3, <1>4 DEF TypeOK
<1> QED BY <1>2, <1>3, <1>5

LEMMA EventTyped ==
  ASSUME TypeOK,
         \/ \E e \in Entries : Push(e) \/ Upload(e) \/ DeleteVersion(e) \/ DeleteAsset(e)
         \/ \E w \in Workers : Crash(w) \/ \E r \in Requests : StartUp(r, w)
  PROVE  TypeOK'
<1>1. ASSUME NEW e \in Entries, Push(e) PROVE TypeOK'
  <2>1. pushes + 1 \in 0..MaxCommits /\ \A c \in {0, pushes + 1} \cup 1..pushes : c \in Contents
    BY <1>1, GitSyncAssumption DEF Push, TypeOK, Contents
  <2> QED BY <1>1, <2>1 DEF Push, TypeOK
<1>2. ASSUME NEW e \in Entries, Upload(e) \/ DeleteVersion(e) PROVE TypeOK'
  BY <1>2, HandIs DEF Upload, DeleteVersion, TypeOK
<1>3. ASSUME NEW e \in Entries, DeleteAsset(e) PROVE TypeOK'
  BY <1>3, ForsakenIs, BereftTyped, RowsTyped DEF DeleteAsset, TypeOK
<1>4. ASSUME NEW w \in Workers, Crash(w) PROVE TypeOK'
  BY <1>4, RowsTyped DEF Crash, TypeOK
<1>5. ASSUME NEW w \in Workers, NEW r \in Requests, StartUp(r, w) PROVE TypeOK'
  <2>1. [Idle EXCEPT !.pc = "recovering", !.w = w, !.src = source.id] \in Request
    BY RowsTyped DEF Request, Source, TypeOK
  <2> QED BY <1>5, <2>1 DEF StartUp, TypeOK
<1> QED BY <1>1, <1>2, <1>3, <1>4, <1>5

LEMMA TypeStep ==
  ASSUME TypeOK, Plans, [Next]_vars
  PROVE  TypeOK'
<1>1. CASE UNCHANGED vars
  BY <1>1 DEF vars, TypeOK
<1> QED BY <1>1, AskTyped, ServeTyped, RunTyped, TickTyped, EventTyped DEF Next

-----------------------------------------------------------------------------
(* What a step of a sync does to it. *)

LEMMA StepIs ==
  ASSUME TypeOK, NEW s \in Syncs, NEW pc \in SyncPcs
  PROVE  /\ Step(s, pc)[s].pc = pc /\ Step(s, pc)[s].quiet = 0
         /\ Step(s, pc)[s].src = sync[s].src /\ Step(s, pc)[s].tree = sync[s].tree
         /\ Step(s, pc)[s].plan = sync[s].plan /\ Step(s, pc)[s].bad = sync[s].bad
         /\ \A t \in Syncs : t # s => Step(s, pc)[t] = sync[t]
BY DEF Step, TypeOK, Sync, SyncPcs

LEMMA CountedIs ==
  ASSUME TypeOK, NEW s \in Syncs, NEW e, NEW fine \in BOOLEAN
  PROVE  /\ Counted(s, e, fine)[s].pc = "importing" /\ Counted(s, e, fine)[s].quiet = sync[s].quiet
         /\ Counted(s, e, fine)[s].src = sync[s].src /\ Counted(s, e, fine)[s].tree = sync[s].tree
         /\ Counted(s, e, fine)[s].bad = (sync[s].bad \/ ~fine)
         /\ \A f \in Entries : Counted(s, e, fine)[s].plan[f] =
              IF f = e \/ (FailFast /\ ~fine) THEN "none" ELSE sync[s].plan[f]
         /\ \A t \in Syncs : t # s => Counted(s, e, fine)[t] = sync[t]
<1>1. sync \in [Syncs -> Sync] /\ sync[s] \in Sync
  BY DEF TypeOK
<1> QED BY <1>1 DEF Counted, Sync

LEMMA EndedIs ==
  ASSUME NEW s \in Syncs
  PROVE  /\ Ended(s).pc = "ending" /\ Ended(s).src = sync[s].src
         /\ \A e \in Entries : Ended(s).tree[e] = 0 /\ Ended(s).plan[e] = "none"
         /\ Off.pc = "off" /\ \A e \in Entries : Off.tree[e] = 0 /\ Off.plan[e] = "none"
BY DEF Ended, Off

\* An entry that was counted: a skip, a planned skip, a failure, a binding.
Counts(s) == \E fine \in BOOLEAN :
  LET new == Counted(s, First(Todo(s)), fine) IN
  \/ sync[s].pc = "importing" /\ Todo(s) # {} /\ sync' = [new EXCEPT ![s].quiet = 0]
     /\ source' = Renewed(s) /\ asset' = asset
  \/ sync[s].pc = "binding" /\ sync' = new /\ UNCHANGED source

LEMMA CountedEntry ==
  ASSUME TypeOK, NEW s \in Syncs,
         SkipEntry(s) \/ VersionTaken(s) \/ PublishEntryFails(s) \/ BindEntry(s) \/ BindFails(s)
  PROVE  Counts(s)
BY DEF SkipEntry, VersionTaken, PublishEntryFails, BindEntry, BindFails, Found, Counts, TypeOK

LEMMA CountsIs ==
  ASSUME TypeOK, NEW s \in Syncs, Counts(s)
  PROVE  /\ sync'[s].pc = "importing" /\ sync'[s].quiet \in {0, sync[s].quiet}
         /\ sync'[s].src = sync[s].src /\ sync'[s].tree = sync[s].tree
         /\ \A f \in Entries : sync'[s].plan[f] \in {"none", sync[s].plan[f]}
         /\ \A t \in Syncs : t # s => sync'[t] = sync[t]
         /\ source' = Renewed(s) \/ (source' = source /\ sync'[s].quiet = sync[s].quiet)
<1>1. PICK fine \in BOOLEAN :
        LET new == Counted(s, First(Todo(s)), fine) IN
        (sync' = [new EXCEPT ![s].quiet = 0] /\ source' = Renewed(s)) \/ (sync' = new /\ source' = source)
  BY DEF Counts
<1> DEFINE new == Counted(s, First(Todo(s)), fine)
<1>2. new \in [Syncs -> Sync] /\ new[s] \in Sync
  BY SyncTyped DEF TypeOK
<1>3. /\ new[s].pc = "importing" /\ new[s].quiet = sync[s].quiet
      /\ new[s].src = sync[s].src /\ new[s].tree = sync[s].tree
      /\ \A f \in Entries : new[s].plan[f] \in {"none", sync[s].plan[f]}
      /\ \A t \in Syncs : t # s => new[t] = sync[t]
  BY CountedIs
<1>4. (sync' = [new EXCEPT ![s].quiet = 0] /\ source' = Renewed(s)) \/ (sync' = new /\ source' = source)
  BY <1>1
<1> HIDE DEF new
<1>5. CASE sync' = new /\ source' = source
  BY <1>3, <1>5
<1>6. CASE sync' = [new EXCEPT ![s].quiet = 0] /\ source' = Renewed(s)
  <2>1. sync'[s] = [new[s] EXCEPT !.quiet = 0] /\ \A t \in Syncs : t # s => sync'[t] = new[t]
    BY <1>2, <1>6
  <2>2. sync'[s].pc = new[s].pc /\ sync'[s].quiet = 0 /\ sync'[s].src = new[s].src
        /\ sync'[s].tree = new[s].tree /\ sync'[s].plan = new[s].plan
    BY <1>2, <2>1 DEF Sync
  <2> QED BY <1>3, <1>6, <2>1, <2>2
<1> QED BY <1>4, <1>5, <1>6

-----------------------------------------------------------------------------
(* Plans. *)

SyncPlans(s) ==
  /\ \A e \in Entries : sync[s].tree[e] # 0 => sync[s].pc \in {"preparing", "importing", "binding"}
  /\ \A e \in Entries : sync[s].plan[e] # "none" =>
       sync[s].tree[e] # 0 /\ sync[s].pc \in {"importing", "binding"}
  /\ sync[s].pc = "binding" => Todo(s) # {} /\ sync[s].plan[First(Todo(s))] # "new"

LEMMA PlansIs == Plans <=> \A s \in Syncs : SyncPlans(s)
BY DEF Plans, SyncPlans

LEMMA PlansKept ==
  ASSUME Plans, NEW s \in Syncs, sync'[s].pc = sync[s].pc, sync'[s].tree = sync[s].tree,
         \A f \in Entries : \/ sync'[s].plan[f] = sync[s].plan[f]
                            \/ sync[s].plan[f] = "force" /\ sync'[s].plan[f] = "lost"
  PROVE  SyncPlans(s)'
<1>1. SyncPlans(s) /\ Todo(s)' = Todo(s)
  BY PlansIs DEF Todo
<1>2. Todo(s) # {} => First(Todo(s)) \in Entries /\ First(Todo(s))' = First(Todo(s))
  BY <1>1, TodoIs
<1> QED BY <1>1, <1>2 DEF SyncPlans

LEMMA PlansNone ==
  ASSUME NEW s \in Syncs, sync'[s].pc # "binding",
         \A e \in Entries : sync'[s].tree[e] = 0 /\ sync'[s].plan[e] = "none"
  PROVE  SyncPlans(s)'
BY DEF SyncPlans

LEMMA RunPlans ==
  ASSUME TypeOK, Plans, NEW s \in Syncs, Run(s)
  PROVE  Plans'
<1>1. SyncPlans(s)
  BY PlansIs
<1>2. SUFFICES (\A t \in Syncs : t # s => sync'[t] = sync[t]) /\ SyncPlans(s)'
  <2>1. \A t \in Syncs : sync'[t] = sync[t] => SyncPlans(t)'
    BY PlansKept
  <2> QED BY <2>1, PlansIs DEF Plans, SyncPlans
<1>3. CASE SkipEntry(s) \/ VersionTaken(s) \/ PublishEntryFails(s) \/ BindEntry(s) \/ BindFails(s)
  <2>1. Counts(s)
    BY <1>3, CountedEntry
  <2> QED BY <1>1, <2>1, CountsIs DEF SyncPlans
<1>4. CASE BeginSync(s)
  <2>1. sync[s].pc = "queued" /\ sync' \in {Step(s, "cloning"), Step(s, "ending")}
    BY <1>4 DEF BeginSync
  <2>2. /\ sync'[s].tree = sync[s].tree /\ sync'[s].plan = sync[s].plan
        /\ sync'[s].pc \in {"cloning", "ending"} /\ \A t \in Syncs : t # s => sync'[t] = sync[t]
    BY <2>1, StepIs DEF SyncPcs
  <2> QED BY <1>1, <2>1, <2>2 DEF SyncPlans
<1>5. CASE Clone(s)
  <2>1. \A e \in Entries : sync[s].plan[e] = "none"
    BY <1>1, <1>5 DEF Clone, SyncPlans
  <2>2. sync'[s].pc = "preparing" /\ sync'[s].plan = sync[s].plan /\ \A t \in Syncs : t # s => sync'[t] = sync[t]
    BY <1>5 DEF Clone, Step, TypeOK, Sync
  <2> QED BY <2>1, <2>2 DEF SyncPlans
<1>6. CASE PrepareEntries(s)
  <2>1. /\ sync'[s].pc = "importing" /\ sync'[s].tree = sync[s].tree
        /\ \A e \in Entries : sync'[s].plan[e] # "none" => e \in Examined(s)
        /\ \A t \in Syncs : t # s => sync'[t] = sync[t]
    <3> DEFINE p == [e \in Entries |-> IF e \in Examined(s) THEN Prepared(e, s) ELSE "none"]
    <3>1. sync' = [Step(s, "importing") EXCEPT ![s].plan = p, ![s].bad = (NameConflicts(s) # {})]
      BY <1>6 DEF PrepareEntries
    <3>2. \A e \in Entries : p[e] # "none" => e \in Examined(s)
      OBVIOUS
    <3> HIDE DEF p
    <3> QED BY <3>1, <3>2 DEF Step, TypeOK, Sync
  <2>2. Examined(s) \subseteq Directories(s)
    BY DEF Examined
  <2> QED BY <2>1, <2>2 DEF SyncPlans, Directories
<1>7. CASE PublishEntry(s)
  <2> DEFINE e == First(Todo(s))
  <2>1. Todo(s) # {} /\ e \in Todo(s) /\ sync[s].pc = "importing"
    BY <1>7, TodoIs DEF PublishEntry
  <2>2. /\ sync'[s].tree = sync[s].tree /\ sync'[s].plan[e] = "force" /\ sync[s].plan[e] # "none"
        /\ \A f \in Entries : f # e => sync'[s].plan[f] = sync[s].plan[f]
        /\ sync'[s].pc = "binding" /\ \A t \in Syncs : t # s => sync'[t] = sync[t]
    BY <1>7, PublishesIs
  <2> HIDE DEF e
  <2>3. Todo(s)' = Todo(s)
    BY <2>2 DEF Todo
  <2>4. sync'[s].plan[First(Todo(s))'] = "force"
    BY <2>2, <2>3 DEF e
  <2>5. \A f \in Entries : sync'[s].plan[f] # "none" => sync[s].plan[f] # "none"
    BY <2>2
  <2> QED BY <1>1, <2>1, <2>2, <2>3, <2>4, <2>5 DEF SyncPlans
<1>8. CASE ConcludeSync(s) \/ SyncFails(s) \/ SetupFails(s) \/ ResultLost(s) \/ EndSync(s)
  <2>1. sync' = [sync EXCEPT ![s] = Ended(s)] \/ sync' = [sync EXCEPT ![s] = Off]
    BY <1>8 DEF ConcludeSync, SyncFails, SetupFails, ResultLost, EndSync
  <2>2. sync'[s] \in {Ended(s), Off} /\ \A t \in Syncs : t # s => sync'[t] = sync[t]
    BY <2>1 DEF TypeOK
  <2> QED BY <2>2, EndedIs DEF SyncPlans
<1> QED BY <1>3, <1>4, <1>5, <1>6, <1>7, <1>8 DEF Run

LEMMA PlansStep ==
  ASSUME TypeOK, Plans, [Next]_vars
  PROVE  Plans'
<1> SUFFICES ASSUME NEW t \in Syncs PROVE SyncPlans(t)'
  BY DEF Plans, SyncPlans
<1>1. CASE sync' = sync
  BY <1>1, PlansKept
<1>2. ASSUME NEW r \in Requests, NEW s \in Syncs, MarkSyncing(r, s)
      PROVE  SyncPlans(t)'
  <2>1. sync'[t] = sync[t] \/
          (sync'[t].pc = "queued" /\ \A e \in Entries : sync'[t].tree[e] = 0 /\ sync'[t].plan[e] = "none")
    <3> DEFINE new == [Off EXCEPT !.pc = "queued", !.w = req[r].w, !.src = req[r].src]
    <3>1. sync' = sync \/ sync' = [sync EXCEPT ![s] = new]
      BY <1>2 DEF MarkSyncing
    <3>2. new.pc = "queued" /\ \A e \in Entries : new.tree[e] = 0 /\ new.plan[e] = "none"
      BY DEF Off
    <3> HIDE DEF new
    <3> QED BY <3>1, <3>2 DEF TypeOK
  <2> QED BY <2>1, PlansKept, PlansNone
<1>3. CASE Tick
  <2>1. /\ sync'[t].pc = sync[t].pc /\ sync'[t].tree = sync[t].tree
        /\ sync'[t].plan = sync[t].plan
    BY <1>3 DEF Tick, TypeOK, Sync
  <2> QED BY <2>1, PlansKept
<1>4. ASSUME NEW w \in Workers, Crash(w)
      PROVE  SyncPlans(t)'
  <2>1. sync'[t] \in {sync[t], Off}
    BY <1>4 DEF Crash
  <2> QED BY <2>1, EndedIs, PlansKept, PlansNone
<1>5. ASSUME NEW e \in Entries, sync' = Forsaken(e)
      PROVE  SyncPlans(t)'
  BY <1>5, ForsakenIs, PlansKept
<1>6. ASSUME NEW r \in Requests, DeleteLinked(r)
      PROVE  SyncPlans(t)'
  <2>1. First(req[r].todo) \in Entries
    BY <1>6, FirstIn DEF DeleteLinked, TypeOK, Request
  <2> QED BY <1>1, <1>5, <1>6, <2>1 DEF DeleteLinked
<1>7. ASSUME NEW s \in Syncs, Run(s)
      PROVE  SyncPlans(t)'
  BY <1>7, RunPlans DEF Plans, SyncPlans
<1> QED BY <1>1, <1>2, <1>3, <1>4, <1>5, <1>6, <1>7
    DEF Next, Ask, Serve, RequestSync, CreateSource, ReuseSource, ListSources, RequestDelete,
        Recover, DeleteSource, Push, Upload, DeleteVersion, DeleteAsset, StartUp, vars

-----------------------------------------------------------------------------
(* What is there. *)

LEMMA PresentKept ==
  ASSUME Present,
         \A e \in Entries : asset'[e] = asset[e] \/ asset'[e].bytes # 0,
         \A s \in Syncs : \A e \in Entries :
           sync'[s].plan[e] = "force" => sync[s].plan[e] = "force" \/ asset'[e].bytes # 0
  PROVE  Present'
BY DEF Present

\* A step of a sync that neither prepares nor publishes plans nothing.
LEMMA PlansLess ==
  ASSUME TypeOK, NEW s \in Syncs, Run(s), ~PrepareEntries(s), ~PublishEntry(s)
  PROVE  \A t \in Syncs : \A e \in Entries : sync'[t].plan[e] \in {"none", sync[t].plan[e]}
<1>1. CASE SkipEntry(s) \/ VersionTaken(s) \/ PublishEntryFails(s) \/ BindEntry(s) \/ BindFails(s)
  BY <1>1, CountedEntry, CountsIs
<1>2. CASE BeginSync(s)
  <2>1. sync' \in {Step(s, "cloning"), Step(s, "ending")}
    BY <1>2 DEF BeginSync
  <2> QED BY <2>1, StepIs DEF SyncPcs
<1>3. CASE Clone(s)
  BY <1>3 DEF Clone, Step, TypeOK, Sync
<1>4. CASE ConcludeSync(s) \/ SyncFails(s) \/ SetupFails(s) \/ ResultLost(s) \/ EndSync(s)
  <2>1. sync' = [sync EXCEPT ![s] = Ended(s)] \/ sync' = [sync EXCEPT ![s] = Off]
    BY <1>4 DEF ConcludeSync, SyncFails, SetupFails, ResultLost, EndSync
  <2>2. sync'[s] \in {Ended(s), Off} /\ \A t \in Syncs : t # s => sync'[t] = sync[t]
    BY <2>1 DEF TypeOK
  <2> QED BY <2>2, EndedIs
<1> QED BY <1>1, <1>2, <1>3, <1>4 DEF Run

LEMMA RunPresent ==
  ASSUME TypeOK, Plans, Present, NEW s \in Syncs, Run(s)
  PROVE  Present'
<1> DEFINE e == First(Todo(s))
<1>1. CASE PrepareEntries(s)
  <2> DEFINE p == [f \in Entries |-> IF f \in Examined(s) THEN Prepared(f, s) ELSE "none"]
  <2>1. asset' = asset
        /\ sync' = [Step(s, "importing") EXCEPT ![s].plan = p, ![s].bad = (NameConflicts(s) # {})]
    BY <1>1 DEF PrepareEntries
  <2>2. \A f \in Entries : p[f] = "force" => asset[f].bytes # 0
    BY DEF Prepared, Reusable
  <2> HIDE DEF p
  <2>3. sync'[s].plan = p /\ \A t \in Syncs : t # s => sync'[t] = sync[t]
    BY <2>1 DEF Step, TypeOK, Sync
  <2> QED BY <2>1, <2>2, <2>3, PresentKept
<1>2. CASE PublishEntry(s)
  <2> DEFINE c == sync[s].tree[e]
  <2>1. /\ e \in Entries /\ c # 0 /\ \A f \in Entries : f # e => asset'[f] = asset[f]
        /\ asset'[e].bytes = c \/ (asset'[e] = asset[e] /\ c \in asset[e].kept)
    BY <1>2, PublishIs
  <2>2. /\ \A t \in Syncs : t # s => sync'[t] = sync[t]
        /\ \A f \in Entries : f # e => sync'[s].plan[f] = sync[s].plan[f]
    BY <1>2, PublishesIs
  <2> HIDE DEF e, c
  <2>3. asset'[e].bytes # 0
    BY <2>1 DEF Present
  <2> QED BY <2>1, <2>2, <2>3, PresentKept
<1>3. CASE BindEntry(s)
  <2>1. e \in Entries /\ sync[s].plan[e] \notin {"none", "new"}
    BY <1>3, TodoIs DEF BindEntry, Plans, Todo
  <2>2. \/ asset' = asset
        \/ /\ sync[s].plan[e] # "lost"
           /\ asset' = [asset EXCEPT ![e].git = sync[s].src, ![e].digest = sync[s].tree[e]]
    BY <1>3 DEF BindEntry, Found
  <2>3. \A t \in Syncs : \A f \in Entries : sync'[t].plan[f] \in {"none", sync[t].plan[f]}
    BY <1>3, CountedEntry, CountsIs
  <2> HIDE DEF e
  <2>4. sync[s].plan[e] # "lost" => asset[e].bytes # 0
    BY <2>1 DEF Present, TypeOK, Sync, Plan
  <2>5. \A f \in Entries : asset'[f] = asset[f] \/ asset'[f].bytes # 0
    BY <2>1, <2>2, <2>4 DEF TypeOK, Asset
  <2> QED BY <2>3, <2>5, PresentKept
<1>4. CASE ~PrepareEntries(s) /\ ~PublishEntry(s) /\ ~BindEntry(s)
  <2>1. asset' = asset
    BY <1>4 DEF Run, BeginSync, Clone, SkipEntry, VersionTaken, PublishEntryFails, BindFails,
         ConcludeSync, SyncFails, SetupFails, ResultLost, EndSync
  <2> QED BY <1>4, <2>1, PlansLess, PresentKept
<1> QED BY <1>1, <1>2, <1>3, <1>4

LEMMA PresentStep ==
  ASSUME TypeOK, Plans, Present, [Next]_vars
  PROVE  Present'
<1>1. CASE UNCHANGED <<asset, sync>>
  BY <1>1, PresentKept
<1>2. ASSUME NEW r \in Requests, NEW s \in Syncs, MarkSyncing(r, s)
      PROVE  Present'
  <2> DEFINE new == [Off EXCEPT !.pc = "queued", !.w = req[r].w, !.src = req[r].src]
  <2>1. asset' = asset /\ (sync' = sync \/ sync' = [sync EXCEPT ![s] = new])
    BY <1>2 DEF MarkSyncing
  <2>2. \A e \in Entries : new.plan[e] = "none"
    BY DEF Off
  <2> HIDE DEF new
  <2>3. \A t \in Syncs : \A e \in Entries : sync'[t].plan[e] \in {"none", sync[t].plan[e]}
    BY <2>1, <2>2 DEF TypeOK
  <2> QED BY <2>1, <2>3, PresentKept
<1>3. CASE Tick
  <2>1. asset' = asset /\ \A t \in Syncs : sync'[t].plan = sync[t].plan
    BY <1>3 DEF Tick, TypeOK, Sync
  <2> QED BY <2>1, PresentKept
<1>4. ASSUME NEW w \in Workers, Crash(w)
      PROVE  Present'
  <2>1. asset' = asset /\ \A t \in Syncs : sync'[t] \in {sync[t], Off}
    BY <1>4 DEF Crash
  <2> QED BY <2>1, EndedIs, PresentKept
<1>5. ASSUME NEW e \in Entries, Upload(e) \/ DeleteVersion(e)
      PROVE  Present'
  <2>1. sync' = sync
    BY <1>5 DEF Upload, DeleteVersion
  <2>2. Manual # 0
    BY GitSyncAssumption DEF Manual
  <2>3. \A f \in Entries : asset'[f] = asset[f] \/ asset'[f].bytes # 0
    BY <1>5, <2>2, HandIs DEF Present
  <2> QED BY <2>1, <2>3, PresentKept
<1>6. ASSUME NEW e \in Entries, asset' = [asset EXCEPT ![e] = NoAsset], sync' = Forsaken(e)
      PROVE  Present'
  <2>1. /\ asset'[e].git = NoSource /\ asset'[e].kept = {}
        /\ \A f \in Entries : f # e => asset'[f] = asset[f]
    BY <1>6 DEF TypeOK, NoAsset
  <2>2. \A s \in Syncs : /\ sync'[s].plan[e] # "force"
                         /\ \A f \in Entries : sync'[s].plan[f] = "force" => sync[s].plan[f] = "force"
    BY <1>6, ForsakenIs
  <2> QED BY <2>1, <2>2 DEF Present
<1>7. ASSUME NEW e \in Entries, DeleteAsset(e)
      PROVE  Present'
  BY <1>6, <1>7 DEF DeleteAsset
<1>8. ASSUME NEW r \in Requests, DeleteLinked(r)
      PROVE  Present'
  <2>1. First(req[r].todo) \in Entries
    BY <1>8, FirstIn DEF DeleteLinked, TypeOK, Request
  <2> QED BY <1>1, <1>6, <1>8, <2>1 DEF DeleteLinked
<1> QED BY <1>1, <1>2, <1>3, <1>4, <1>5, <1>7, <1>8, RunPresent
    DEF Next, Ask, Serve, RequestSync, CreateSource, ReuseSource, ListSources, RequestDelete,
        Recover, DeleteSource, Push, StartUp, vars

-----------------------------------------------------------------------------
(* The lease: requests. *)

LEMMA LiveBlocks ==
  ASSUME TypeOK, Leased, NEW s \in Syncs, Live(s)
  PROVE  Exists /\ Blocking(source)
<1>1. source.age \in 0..3 /\ sync[s].quiet \in 0..MaxQuiet
  BY DEF TypeOK, Source, Sync, Ages, StaleAge
<1>2. source.age <= 1
  BY <1>1, GitSyncAssumption DEF Leased, OrphanAge
<1> QED BY <1>1, <1>2 DEF Leased, Owns, Blocking, IsStale, IsAbandonedOrphan, StaleAfter,
      AbandonedAfter, StaleAge, OrphanAge

\* Without a live sync nothing but the bindings is to be kept.
LEMMA NoneLive ==
  ASSUME TypeOK, Leased, ~Exists \/ ~Blocking(source) \/ \E r \in Requests : req[r].pc # "idle",
         NEW s \in Syncs
  PROVE  ~Live(s)
BY LiveBlocks DEF Leased

LEMMA PrepareIs ==
  ASSUME OneRequest, TypeOK, NEW r \in Requests, NEW w \in Workers, NEW row, Prepare(r, w, row),
         req[r].pc = "idle"
  PROVE  /\ req' = req \/ ~Blocking(row)
         /\ \A q \in Requests : req'[q].pc \in {"idle", "marking"} /\
              (req'[q].pc = "marking" => req'[q].src = row.id /\ req'[q].seen = row.status)
<1>1. CASE req' = req
  BY <1>1 DEF OneRequest
<1>2. CASE ~Blocking(row)
           /\ req' = [req EXCEPT ![r] = [Idle EXCEPT !.pc = "marking", !.w = w, !.src = row.id,
                                                    !.seen = row.status]]
  BY <1>2 DEF OneRequest, TypeOK, Idle
<1> QED BY <1>1, <1>2 DEF Prepare

LEMMA AskHeld ==
  ASSUME OneRequest, Held, NEW r \in Requests, Ask(r)
  PROVE  Leased' /\ Prepares' /\ Deletes' /\ Bound'
<1>1. PICK w \in Workers : RequestSync(r, w) \/ CreateSource(r, w) \/ ReuseSource(r, w)
                           \/ ListSources(r, w) \/ RequestDelete(r, w)
  BY DEF Ask
<1>2. /\ req[r].pc = "idle" /\ UNCHANGED <<asset, sync>>
      /\ TypeOK /\ Leased /\ Bound
  BY <1>1 DEF RequestSync, CreateSource, ReuseSource, ListSources, RequestDelete, Held
<1>3. \A q \in Requests : q = r
  BY DEF OneRequest
<1>4. ASSUME ~Exists \/ ~Blocking(source) PROVE Leased'
  <2>1. \A s \in Syncs : ~Live(s)
    BY <1>2, <1>4, NoneLive
  <2> QED BY <1>2, <2>1 DEF Leased, Live
<1>5. ASSUME source' = source, req' = req
      PROVE  Leased' /\ Prepares' /\ Deletes' /\ Bound'
  BY <1>2, <1>5 DEF Held, Leased, Prepares, Deletes, Bound, Live, Owns, Named, Exists, Linked
<1>6. ASSUME NEW row, Prepare(r, w, row), source' = row, row.id # NoSource
      PROVE  Prepares' /\ Deletes'
  BY <1>2, <1>6, PrepareIs DEF Prepares, Deletes, Named, Exists
<1>7. CASE RequestSync(r, w)
  <2>1. Prepare(r, w, source) /\ source' = source /\ source.id # NoSource
    BY <1>7 DEF RequestSync, Exists
  <2>2. CASE req' = req
    BY <1>5, <2>1, <2>2
  <2>3. CASE ~Blocking(source)
    BY <1>2, <1>4, <1>6, <2>1, <2>3 DEF Bound
  <2> QED BY <1>2, <2>1, <2>2, <2>3, PrepareIs
<1>8. CASE CreateSource(r, w)
  <2>1. ~Exists /\ \A e \in Entries : asset[e].git = NoSource
    BY <1>2, <1>8 DEF CreateSource, Exists, Bound
  <2>2. Prepare(r, w, source') /\ source'.id # NoSource
    BY <1>2, <1>8 DEF CreateSource, NoRow, NoSource, TypeOK
  <2> QED BY <1>2, <1>4, <1>6, <2>1, <2>2 DEF Bound
<1>9. CASE ReuseSource(r, w)
  <2>1. /\ Prepare(r, w, source') /\ source'.id = source.id /\ source.id # NoSource
        /\ ~Blocking(source)
    BY <1>2, <1>9 DEF ReuseSource, Reclaimable, Blocking, Exists, TypeOK, Source
  <2> QED BY <1>2, <1>4, <1>6, <2>1 DEF Bound
<1>10. CASE ListSources(r, w)
  <2>1. source' = source /\ ~Blocking(source) /\ req'[r].pc = "recovering"
    BY <1>2, <1>10 DEF ListSources, Blocking, TypeOK, Idle
  <2> QED BY <1>2, <1>3, <1>4, <2>1 DEF Prepares, Deletes, Bound
<1>11. CASE RequestDelete(r, w)
  <2>1. source' = source /\ Exists /\ ~Blocking(source) /\ req'[r].pc = "deleting"
        /\ req'[r].src = source.id /\ req'[r].todo = Linked(source.id)
    BY <1>2, <1>11 DEF RequestDelete, DeleteRefused, TypeOK, Idle
  <2> QED BY <1>2, <1>3, <1>4, <2>1 DEF Prepares, Deletes, Bound, Named, Exists, Linked
<1> QED BY <1>1, <1>7, <1>8, <1>9, <1>10, <1>11

LEMMA ServeHeld ==
  ASSUME OneRequest, Held, NEW r \in Requests, Serve(r)
  PROVE  Leased' /\ Prepares' /\ Deletes' /\ Bound'
<1>1. /\ TypeOK /\ Leased /\ Bound /\ Present
      /\ req[r].pc # "idle" /\ \A q \in Requests : q = r
  BY DEF Serve, MarkSyncing, Recover, DeleteLinked, DeleteSource, Held, OneRequest
<1>2. \A s \in Syncs : ~Live(s)
  BY <1>1, NoneLive
<1>3. sync' = sync => Leased'
  BY <1>2 DEF Leased, Live
<1>4. ASSUME NEW s \in Syncs, MarkSyncing(r, s)
      PROVE  Leased' /\ Prepares' /\ Deletes' /\ Bound'
  <2>1. Named(r) /\ source.status = req[r].seen
    BY <1>4 DEF MarkSyncing, Held, Prepares
  <2>2. source' = Marked(r) /\ UNCHANGED asset /\ req' = [req EXCEPT ![r] = Idle]
        /\ sync' = [sync EXCEPT ![s] = [Off EXCEPT !.pc = "queued", !.w = req[r].w,
                                                  !.src = req[r].src]]
    BY <1>4, <2>1 DEF MarkSyncing
  <2>3. source'.id = source.id /\ source'.status = "syncing" /\ source'.age = 0
    BY <1>1, <2>1, <2>2 DEF Marked, TypeOK, Source
  <2>4. req'[r].pc = "idle"
    BY <1>1, <2>2 DEF TypeOK, Idle
  <2>5. /\ sync'[s].quiet = 0 /\ sync'[s].src = req[r].src
        /\ \A t \in Syncs : t # s => sync'[t] = sync[t]
    BY <1>1, <2>2 DEF TypeOK, Off
  <2>6. \A t \in Syncs : t # s => ~Live(t)'
    BY <1>2, <2>5 DEF Live
  <2>7. Owns(s)'
    BY <2>1, <2>3, <2>5 DEF Owns, Named, Exists
  <2>8. Leased'
    BY <1>1, <2>3, <2>4, <2>5, <2>6, <2>7 DEF Leased
  <2>9. Prepares' /\ Deletes'
    BY <1>1, <2>4 DEF Prepares, Deletes
  <2>10. Bound'
    BY <1>1, <2>2, <2>3 DEF Bound
  <2> QED BY <2>8, <2>9, <2>10
<1>5. CASE Recover(r)
  <2>1. sync' = sync /\ asset' = asset /\ source'.id = source.id /\ req'[r].pc = "idle"
    BY <1>1, <1>5 DEF Recover, Failed, TypeOK, Source, Idle
  <2> QED BY <1>1, <1>3, <2>1 DEF Prepares, Deletes, Bound
<1>6. CASE DeleteLinked(r)
  <2> DEFINE e == First(req[r].todo)
  <2>1. e \in Entries /\ req[r] \in Request /\ source' = source
    BY <1>1, <1>6, FirstIn DEF DeleteLinked, TypeOK, Request
  <2>2. \/ /\ asset' = [asset EXCEPT ![e] = NoAsset] /\ sync' = Forsaken(e)
           /\ req' = [Bereft(e) EXCEPT ![r] = [req[r] EXCEPT !.todo = @ \ {e}]]
        \/ /\ asset' = asset /\ sync' = sync
           /\ req' = [req EXCEPT ![r] = [req[r] EXCEPT !.todo = @ \ {e}, !.failed = TRUE]]
    BY <1>6 DEF DeleteLinked
  <2>3. req[r].pc = "deleting" /\ req[r].todo # {}
    BY <1>6 DEF DeleteLinked
  <2> HIDE DEF e
  <2>4. /\ req'[r].pc = "deleting" /\ req'[r].src = req[r].src /\ req'[r].todo = req[r].todo \ {e}
        /\ \/ asset' = [asset EXCEPT ![e] = NoAsset] /\ req'[r].failed = req[r].failed
           \/ asset' = asset /\ req'[r].failed = TRUE
    <3>1. req \in [Requests -> Request] /\ Bereft(e) \in [Requests -> Request]
      BY <1>1, <2>1, BereftTyped DEF TypeOK
    <3>2. \/ /\ asset' = [asset EXCEPT ![e] = NoAsset]
             /\ req'[r] = [req[r] EXCEPT !.todo = req[r].todo \ {e}]
          \/ /\ asset' = asset
             /\ req'[r] = [req[r] EXCEPT !.todo = req[r].todo \ {e}, !.failed = TRUE]
      BY <2>1, <2>2, <3>1
    <3> QED BY <2>1, <2>3, <3>2 DEF Request
  <2>5. \A s \in Syncs : sync'[s].pc = sync[s].pc
    BY <1>1, <2>1, <2>2, ForsakenIs
  <2>6. Leased'
    BY <1>2, <2>5 DEF Leased, Live
  <2>7. \A f \in Entries : asset'[f] = asset[f] \/ (asset'[f].bytes = 0 /\ asset'[f].git = NoSource)
    BY <1>1, <2>2 DEF TypeOK, NoAsset
  <2>8. Bound'
    BY <1>1, <2>1, <2>7 DEF Bound
  <2>9. Deletes'
    <3>1. Named(r) /\ (~req[r].failed => Linked(source.id) \subseteq req[r].todo)
      BY <2>3 DEF Held, Deletes
    <3>2. ASSUME ~req'[r].failed PROVE Linked(source.id)' \subseteq req'[r].todo
      <4>1. asset' = [asset EXCEPT ![e] = NoAsset] /\ ~req[r].failed
        BY <2>4, <3>2
      <4>2. \A f \in Linked(source.id)' : f \in Linked(source.id) /\ f # e
        BY <1>1, <2>1, <2>7, <4>1 DEF Linked, NoAsset, TypeOK
      <4> QED BY <2>4, <3>1, <4>1, <4>2
    <3> QED BY <1>1, <2>1, <2>4, <3>1, <3>2 DEF Deletes, Named, Exists
  <2> QED BY <1>1, <2>4, <2>6, <2>8, <2>9 DEF Prepares
<1>7. CASE DeleteSource(r)
  <2>1. sync' = sync /\ asset' = asset /\ req'[r].pc = "idle"
    BY <1>1, <1>7 DEF DeleteSource, TypeOK, Idle
  <2>2. CASE source' = source
    BY <1>1, <1>3, <2>1, <2>2 DEF Prepares, Deletes, Bound
  <2>3. CASE ~req[r].failed /\ Named(r)
    <3>1. Linked(source.id) = {}
      BY <1>7, <2>3 DEF DeleteSource, Held, Deletes
    <3>2. \A f \in Entries : asset[f].git = NoSource
      BY <1>1, <3>1 DEF Bound, Present, Linked
    <3> QED BY <1>1, <1>3, <2>1, <3>2 DEF Prepares, Deletes, Bound
  <2> QED BY <1>7, <2>2, <2>3 DEF DeleteSource
<1> QED BY <1>4, <1>5, <1>6, <1>7 DEF Serve

-----------------------------------------------------------------------------
(* The lease: syncs and events. *)

LEMMA RenewedIs ==
  ASSUME TypeOK, NEW s \in Syncs, Owns(s), source.status = "syncing"
  PROVE  /\ Renewed(s).id = source.id /\ Renewed(s).status = "syncing" /\ Renewed(s).age = 0
         /\ Touched(source) = Renewed(s)
BY DEF Renewed, Touched, TypeOK, Source, Owns, Exists

\* A live sync that goes on leaves a row with its source's id and, unless it ends, renews it or
\* lets no time pass.
LEMMA RunIs ==
  ASSUME Held, NEW s \in Syncs, Run(s), Live(s)
  PROVE  /\ source'.id = source.id /\ req' = req
         /\ \A t \in Syncs : t # s => sync'[t] = sync[t]
         /\ Live(s)' => /\ sync'[s].src = sync[s].src
                        /\ source'.status = "syncing" /\ source'.age <= sync'[s].quiet
<1>1. /\ TypeOK /\ Owns(s) /\ source.status = "syncing" /\ source.age <= sync[s].quiet
  BY DEF Held, Leased
<1>2. req' = req /\ sync[s].pc # "ending"
  BY DEF Run, Live, BeginSync, Clone, PrepareEntries, SkipEntry, PublishEntry, VersionTaken,
         PublishEntryFails, BindEntry, BindFails, ConcludeSync, SyncFails, SetupFails, ResultLost,
         EndSync
<1>3. 0 <= 0 /\ source \in Source
  BY <1>1 DEF TypeOK
<1>4. CASE SkipEntry(s) \/ VersionTaken(s) \/ PublishEntryFails(s) \/ BindEntry(s) \/ BindFails(s)
  <2>1. Counts(s)
    BY <1>1, <1>4, CountedEntry
  <2>2. /\ sync'[s].quiet \in {0, sync[s].quiet} /\ sync'[s].src = sync[s].src
        /\ \A t \in Syncs : t # s => sync'[t] = sync[t]
        /\ source' = Renewed(s) \/ (source' = source /\ sync'[s].quiet = sync[s].quiet)
    BY <1>1, <2>1, CountsIs
  <2>3. sync[s].quiet \in Nat
    BY <1>1, GitSyncAssumption DEF TypeOK, Sync
  <2> QED BY <1>1, <1>2, <2>2, <2>3, RenewedIs
<1>5. CASE BeginSync(s) \/ PublishEntry(s)
  <2>1. source' = Renewed(s) /\ (PublishEntry(s) \/ sync' = Step(s, "cloning"))
    BY <1>1, <1>5, RenewedIs DEF BeginSync, PublishEntry
  <2>2. /\ sync'[s].quiet = 0 /\ sync'[s].src = sync[s].src
        /\ \A t \in Syncs : t # s => sync'[t] = sync[t]
    BY <1>1, <2>1, StepIs, PublishesIs DEF SyncPcs, Held
  <2> QED BY <1>1, <1>2, <1>3, <2>1, <2>2, RenewedIs
<1>6. CASE Clone(s) \/ PrepareEntries(s)
  <2>1. source' = Renewed(s)
    BY <1>1, <1>6, RenewedIs DEF Clone, PrepareEntries
  <2> DEFINE p == [e \in Entries |-> IF e \in Examined(s) THEN Prepared(e, s) ELSE "none"]
  <2>2. \/ sync' = [Step(s, "preparing") EXCEPT ![s].tree = repo]
        \/ sync' = [Step(s, "importing") EXCEPT ![s].plan = p, ![s].bad = (NameConflicts(s) # {})]
    BY <1>6 DEF Clone, PrepareEntries
  <2>3. /\ sync'[s].quiet = 0 /\ sync'[s].src = sync[s].src
        /\ \A t \in Syncs : t # s => sync'[t] = sync[t]
    <3> HIDE DEF p
    <3> QED BY <1>1, <2>2 DEF Step, TypeOK, Sync
  <2> QED BY <1>1, <1>2, <1>3, <2>1, <2>3, RenewedIs
<1>7. CASE ConcludeSync(s) \/ SyncFails(s) \/ SetupFails(s) \/ ResultLost(s)
  <2>1. sync' = [sync EXCEPT ![s] = Ended(s)]
    BY <1>7 DEF ConcludeSync, SyncFails, SetupFails, ResultLost
  <2>2. sync'[s].pc = "ending" /\ \A t \in Syncs : t # s => sync'[t] = sync[t]
    BY <1>1, <2>1, EndedIs DEF TypeOK
  <2>3. source'.id = source.id
    BY <1>3, <1>7 DEF ConcludeSync, SyncFails, SetupFails, ResultLost, Failed, Source
  <2> QED BY <1>2, <2>2, <2>3 DEF Live
<1> QED BY <1>2, <1>4, <1>5, <1>6, <1>7 DEF Run, EndSync

LEMMA RunBound ==
  ASSUME Held, NEW s \in Syncs, Run(s), Live(s)
  PROVE  Bound'
<1>1. TypeOK /\ Bound /\ Plans /\ sync[s].src = source.id /\ source'.id = source.id
  BY RunIs DEF Held, Leased, Owns
<1>2. SUFFICES \A f \in Entries : asset'[f].git \in {asset[f].git, sync[s].src}
  BY <1>1 DEF Bound
<1>3. CASE PublishEntry(s)
  BY <1>1, <1>3, PublishIs
<1>4. CASE BindEntry(s)
  <2> DEFINE e == First(Todo(s))
  <2>1. asset' = asset
        \/ asset' = [asset EXCEPT ![e].git = sync[s].src, ![e].digest = sync[s].tree[e]]
    BY <1>4 DEF BindEntry
  <2> HIDE DEF e
  <2> QED BY <1>1, <2>1 DEF TypeOK, Asset
<1> QED BY <1>3, <1>4
    DEF Run, BeginSync, Clone, PrepareEntries, SkipEntry, VersionTaken, PublishEntryFails,
        BindFails, ConcludeSync, SyncFails, SetupFails, ResultLost, EndSync

LEMMA RunHeld ==
  ASSUME Held, NEW s \in Syncs, Run(s)
  PROVE  Leased' /\ Prepares' /\ Deletes' /\ Bound'
<1>1. CASE Live(s)
  <2>1. /\ TypeOK /\ Owns(s) /\ \A r \in Requests : req[r].pc = "idle"
        /\ \A t \in Syncs : Live(t) => t = s
    BY <1>1 DEF Held, Leased
  <2>2. /\ source'.id = source.id /\ req' = req
        /\ \A t \in Syncs : t # s => sync'[t] = sync[t]
        /\ Live(s)' => /\ sync'[s].src = sync[s].src
                       /\ source'.status = "syncing" /\ source'.age <= sync'[s].quiet
    BY <1>1, RunIs
  <2>3. \A t \in Syncs : Live(t)' => t = s
    BY <2>1, <2>2 DEF Live
  <2>4. Leased'
    BY <2>1, <2>2, <2>3 DEF Leased, Owns, Exists
  <2> QED BY <1>1, <2>1, <2>2, <2>4, RunBound DEF Prepares, Deletes
<1>2. CASE ~Live(s)
  <2>1. EndSync(s)
    BY <1>2 DEF Run, Live, BeginSync, Clone, PrepareEntries, SkipEntry, PublishEntry, VersionTaken,
         PublishEntryFails, BindEntry, BindFails, ConcludeSync, SyncFails, SetupFails, ResultLost
  <2>2. UNCHANGED <<source, asset, req>> /\ sync'[s].pc = "off"
        /\ \A t \in Syncs : t # s => sync'[t] = sync[t]
    BY <2>1, EndedIs DEF EndSync, Held, TypeOK
  <2> QED BY <2>2 DEF Held, Leased, Prepares, Deletes, Bound, Live, Owns, Named, Exists, Linked
<1> QED BY <1>1, <1>2

LEMMA TickHeld ==
  ASSUME Held, Tick
  PROVE  Leased' /\ Prepares' /\ Deletes' /\ Bound'
<1>1. source.age \in 0..3 /\ source \in Source /\ TypeOK
  BY DEF Held, TypeOK, Source, Ages, StaleAge
<1>2. /\ UNCHANGED <<asset, req>> /\ source'.id = source.id /\ source'.status = source.status
      /\ source'.age <= source.age + 1
  BY <1>1 DEF Tick, Source, StaleAge
<1>3. \A s \in Syncs : /\ sync'[s].pc = sync[s].pc /\ sync'[s].src = sync[s].src
                       /\ Live(s) => sync'[s].quiet = sync[s].quiet + 1
  BY <1>1 DEF Tick, TypeOK, Sync
<1>4. Leased'
  <2>1. SUFFICES ASSUME NEW s \in Syncs, Live(s)' PROVE
          /\ Owns(s)' /\ source'.status = "syncing" /\ source'.age <= sync'[s].quiet
          /\ \A t \in Syncs : Live(t)' => t = s
          /\ \A r \in Requests : req'[r].pc = "idle"
    BY DEF Leased
  <2>2. Live(s) /\ \A t \in Syncs : Live(t)' => Live(t)
    BY <1>3, <2>1 DEF Live
  <2>3. sync[s].quiet \in Int /\ source'.age \in Int
    BY <1>1, GitSyncAssumption DEF TypeOK, Sync, Tick, Source, StaleAge
  <2> QED BY <1>1, <1>2, <1>3, <2>2, <2>3 DEF Held, Leased, Owns, Exists
<1> QED BY <1>2, <1>4 DEF Held, Prepares, Deletes, Bound, Named, Exists, Linked

LEMMA EventHeld ==
  ASSUME OneRequest, Held,
         \/ \E e \in Entries : Push(e) \/ Upload(e) \/ DeleteVersion(e) \/ DeleteAsset(e)
         \/ \E w \in Workers : Crash(w) \/ \E r \in Requests : StartUp(r, w)
  PROVE  Leased' /\ Prepares' /\ Deletes' /\ Bound'
<1>1. TypeOK /\ Leased /\ Prepares /\ Deletes /\ Bound /\ Present
  BY DEF Held
<1>2. ASSUME NEW e \in Entries, Push(e) \/ Upload(e) \/ DeleteVersion(e) \/ DeleteAsset(e)
      PROVE  Leased' /\ Prepares' /\ Deletes' /\ Bound'
  <2>1. source' = source /\ \A f \in Entries : f # e => asset'[f] = asset[f]
    BY <1>1, <1>2, HandIs DEF Push, Upload, DeleteVersion, DeleteAsset, TypeOK
  <2>2. asset'[e].git = NoSource \/ (asset'[e].git = asset[e].git /\ req' = req)
    BY <1>1, <1>2, HandIs DEF Push, Upload, DeleteVersion, DeleteAsset, TypeOK, NoAsset
  <2>3. Bound'
    BY <1>1, <2>1, <2>2 DEF Bound
  <2>4. Exists => Linked(source.id)' \subseteq Linked(source.id)
    BY <1>1, <2>1, <2>2 DEF Linked, Bound, Present, Exists
  <2>5. \A s \in Syncs : /\ sync'[s].pc = sync[s].pc /\ sync'[s].src = sync[s].src
                         /\ sync'[s].quiet = sync[s].quiet
    BY <1>1, <1>2, ForsakenIs DEF Push, Upload, DeleteVersion, DeleteAsset
  <2>6. \A r \in Requests : /\ req'[r].pc = req[r].pc /\ req'[r].src = req[r].src
                            /\ req'[r].seen = req[r].seen
                            /\ ~req'[r].failed => req'[r] = req[r]
    <3>1. req' = req \/ req' = Bereft(e)
      BY <1>2 DEF Push, Upload, DeleteVersion, DeleteAsset
    <3>2. \A r \in Requests :
            \/ req'[r] = req[r]
            \/ req[r] \in Request /\ req'[r] = [req[r] EXCEPT !.todo = req[r].todo \ {e}, !.failed = TRUE]
      BY <1>1, <3>1 DEF Bereft, TypeOK
    <3> QED BY <3>2 DEF Request
  <2>7. Leased'
    BY <1>1, <2>1, <2>5, <2>6 DEF Leased, Live, Owns, Exists
  <2> QED BY <1>1, <2>1, <2>3, <2>4, <2>6, <2>7 DEF Prepares, Deletes, Named, Exists
<1>3. ASSUME NEW w \in Workers, Crash(w)
      PROVE  Leased' /\ Prepares' /\ Deletes' /\ Bound'
  <2>1. UNCHANGED <<source, asset>>
    BY <1>3 DEF Crash
  <2>2. \A r \in Requests : req'[r] = req[r] \/ req'[r].pc = "idle"
    BY <1>3 DEF Crash, Idle
  <2>3. \A s \in Syncs : sync'[s] = sync[s] \/ sync'[s].pc = "off"
    BY <1>3, EndedIs DEF Crash
  <2>4. Leased'
    BY <1>1, <2>1, <2>2, <2>3 DEF Leased, Live, Owns, Exists
  <2> QED BY <1>1, <2>1, <2>2, <2>4 DEF Prepares, Deletes, Bound, Named, Exists, Linked
<1>4. ASSUME NEW w \in Workers, NEW r \in Requests, StartUp(r, w)
      PROVE  Leased' /\ Prepares' /\ Deletes' /\ Bound'
  <2>1. UNCHANGED <<source, asset, sync>> /\ \A q \in Requests : q = r
    BY <1>4 DEF StartUp, OneRequest
  <2>2. CASE req' = req
    BY <1>1, <2>1, <2>2 DEF Leased, Prepares, Deletes, Bound, Live, Owns, Named, Exists, Linked
  <2>3. CASE ~Blocking(source) /\ req'[r].pc = "recovering"
    <3>1. \A s \in Syncs : ~Live(s)
      BY <1>1, <2>3, NoneLive
    <3> QED BY <1>1, <2>1, <2>3, <3>1 DEF Leased, Prepares, Deletes, Bound, Live
  <2>4. req' = req \/ (~Blocking(source) /\ req'[r].pc = "recovering")
    BY <1>1, <1>4 DEF StartUp, Blocking, TypeOK, Idle
  <2> QED BY <2>2, <2>3, <2>4
<1> QED BY <1>2, <1>3, <1>4

LEMMA InitHeld == Init => Held
<1> SUFFICES ASSUME Init PROVE Held
  OBVIOUS
<1>2. \A s \in Syncs : sync[s].pc = "off" /\ \A e \in Entries : sync[s].tree[e] = 0 /\ sync[s].plan[e] = "none"
  BY EndedIs DEF Init
<1>3. \A r \in Requests : req[r].pc = "idle"
  BY DEF Init, Idle
<1>4. TypeOK
  <2>1. 0 \in Contents /\ 0 \in 0..MaxCommits /\ 0 \in 0..MaxSources
    BY GitSyncAssumption DEF Contents
  <2> QED BY <2>1, RowsTyped DEF Init, TypeOK
<1>5. Plans
  BY <1>2 DEF Plans
<1>6. Leased /\ Prepares /\ Deletes
  BY <1>2, <1>3 DEF Leased, Prepares, Deletes, Live
<1>7. Bound /\ Present
  BY <1>2 DEF Init, Bound, Present, NoAsset
<1> QED BY <1>4, <1>5, <1>6, <1>7 DEF Held

LEMMA HeldStep ==
  ASSUME OneRequest, Held, [Next]_vars
  PROVE  Held'
<1>1. TypeOK' /\ Plans' /\ Present'
  BY TypeStep, PlansStep, PresentStep DEF Held
<1>2. CASE UNCHANGED vars
  <2>1. UNCHANGED <<source, asset, req, sync>>
    BY <1>2 DEF vars
  <2> QED BY <1>1, <2>1 DEF Held, Leased, Prepares, Deletes, Bound, Live, Owns, Named, Exists, Linked
<1> QED BY <1>1, <1>2, AskHeld, ServeHeld, RunHeld, TickHeld, EventHeld DEF Next, Held

-----------------------------------------------------------------------------
(* What syncs leave behind. *)

\* The contents of the repository that an asset shows or once showed.
Past(row) == row.kept \cup {row.digest} \cup ({row.bytes} \ {Manual})

\* Contents only grow: the repository is ahead of the market, a sync in progress between the two,
\* and what the market shows is the newest of its versions and bindings, unless made by hand.
Rises == \A e \in Entries :
  /\ repo[e] <= pushes
  /\ \A c \in Past(asset[e]) :
       /\ c <= pushes
       /\ repo[e] # 0 => c <= repo[e]
       /\ asset[e].bytes # Manual => c <= asset[e].bytes
  /\ \A s \in Syncs : sync[s].tree[e] # 0 =>
       /\ sync[s].tree[e] <= pushes
       /\ repo[e] # 0 => sync[s].tree[e] <= repo[e]
       /\ \A c \in Past(asset[e]) : c <= sync[s].tree[e]

\* An entry behind a sync that met no error has the content it cloned, if it is bound to it and its
\* publisher did not change it.
Dealt(s) ==
  /\ sync[s].pc = "binding" =>
       \/ sync[s].plan[First(Todo(s))] = "lost"
       \/ asset[First(Todo(s))].bytes \in {sync[s].tree[First(Todo(s))], Manual}
  /\ \A e \in Entries : sync[s].plan[e] = "new" => asset[e].git = NoSource
  /\ sync[s].pc \in {"importing", "binding"} /\ ~sync[s].bad =>
       \A e \in Directories(s) : sync[s].plan[e] = "none" /\ asset[e].git = sync[s].src =>
         asset[e].bytes \in {sync[s].tree[e], Manual}
AllDealt == \A s \in Syncs : Dealt(s)

Safe == Held /\ Rises /\ AllDealt

LEMMA Natural ==
  ASSUME TypeOK
  PROVE  /\ pushes \in Nat
         /\ \A e \in Entries : repo[e] \in Nat /\ asset[e].bytes \in Nat /\ Past(asset[e]) \subseteq Nat
         /\ \A s \in Syncs : \A e \in Entries : sync[s].tree[e] \in Nat /\ sync[s].tree[e] # Manual
         /\ Manual \in Nat /\ Manual # 0
<1>1. \A c \in Contents : c \in Nat /\ c # Manual
  BY GitSyncAssumption DEF Contents, Manual
<1>2. Manual \in Nat /\ Manual # 0
  BY GitSyncAssumption DEF Manual
<1>3. \A e \in Entries : asset[e].kept \subseteq Contents /\ asset[e].digest \in Contents
                         /\ asset[e].bytes \in Contents \cup {Manual}
  BY DEF TypeOK, Asset
<1>4. \A e \in Entries : asset[e].bytes \in Nat /\ Past(asset[e]) \subseteq Nat
  BY <1>1, <1>2, <1>3 DEF Past
<1> QED BY <1>1, <1>2, <1>4, GitSyncAssumption DEF TypeOK, Sync

\* Deletions, uploads by hand and syncs that stop raise nothing.
LEMMA RisesSame ==
  ASSUME TypeOK, Rises, repo' = repo, pushes' = pushes,
         \A e \in Entries : \/ asset'[e] \in {asset[e], NoAsset}
                            \/ /\ Past(asset'[e]) \subseteq Past(asset[e])
                               /\ asset'[e].bytes \in {asset[e].bytes, Manual},
         \A s \in Syncs : \A e \in Entries : sync'[s].tree[e] \in {0, sync[s].tree[e]}
  PROVE  Rises'
<1>1. ASSUME NEW e \in Entries
      PROVE  /\ repo[e] <= pushes
             /\ \A c \in Past(asset[e]) :
                  /\ c <= pushes
                  /\ repo[e] # 0 => c <= repo[e]
                  /\ asset[e].bytes # Manual => c <= asset[e].bytes
             /\ \A s \in Syncs : sync[s].tree[e] # 0 =>
                  /\ sync[s].tree[e] <= pushes
                  /\ repo[e] # 0 => sync[s].tree[e] <= repo[e]
                  /\ \A c \in Past(asset[e]) : c <= sync[s].tree[e]
  BY DEF Rises
<1>2. Past(NoAsset) = {0} /\ NoAsset.bytes = 0
  BY Natural DEF Past, NoAsset
<1>3. ASSUME NEW e \in Entries
      PROVE  /\ repo'[e] <= pushes'
             /\ \A c \in Past(asset'[e]) :
                  /\ c <= pushes'
                  /\ repo'[e] # 0 => c <= repo'[e]
                  /\ asset'[e].bytes # Manual => c <= asset'[e].bytes
             /\ \A s \in Syncs : sync'[s].tree[e] # 0 =>
                  /\ sync'[s].tree[e] <= pushes'
                  /\ repo'[e] # 0 => sync'[s].tree[e] <= repo'[e]
                  /\ \A c \in Past(asset'[e]) : c <= sync'[s].tree[e]
  <2>1. CASE asset'[e] = NoAsset
    <3>1. \A n \in Nat : 0 <= n
      OBVIOUS
    <3> QED BY <1>1, <1>2, <2>1, <3>1, Natural
  <2>2. CASE asset'[e] # NoAsset
    BY <1>1, <2>2
  <2> QED BY <2>1, <2>2
<1> QED BY <1>3 DEF Rises

\* Neither does any other step but a push, a clone, a publication and a binding.
LEMMA OthersRise ==
  ASSUME Held, Rises, [Next]_vars,
         \A s \in Syncs : ~Clone(s) /\ ~PublishEntry(s) /\ ~BindEntry(s), \A e \in Entries : ~Push(e)
  PROVE  Rises'
<1>1. TypeOK
  BY DEF Held
<1>2. CASE UNCHANGED <<repo, pushes, asset, sync>>
  BY <1>1, <1>2, RisesSame
<1>3. ASSUME NEW r \in Requests, NEW s \in Syncs, MarkSyncing(r, s)
      PROVE  Rises'
  <2>1. \A t \in Syncs : \A e \in Entries : sync'[t].tree[e] \in {0, sync[t].tree[e]}
    <3> DEFINE new == [Off EXCEPT !.pc = "queued", !.w = req[r].w, !.src = req[r].src]
    <3>1. sync' = sync \/ sync' = [sync EXCEPT ![s] = new]
      BY <1>3 DEF MarkSyncing
    <3>2. \A e \in Entries : new.tree[e] = 0
      BY DEF Off
    <3> HIDE DEF new
    <3> QED BY <1>1, <3>1, <3>2 DEF TypeOK
  <2> QED BY <1>1, <1>3, <2>1, RisesSame DEF MarkSyncing
<1>4. ASSUME NEW s \in Syncs, Run(s)
      PROVE  Rises'
  <2>1. UNCHANGED <<repo, pushes, asset>>
    BY <1>4 DEF Run, BeginSync, PrepareEntries, SkipEntry, VersionTaken, PublishEntryFails,
         BindFails, ConcludeSync, SyncFails, SetupFails, ResultLost, EndSync
  <2>2. CASE SkipEntry(s) \/ VersionTaken(s) \/ PublishEntryFails(s) \/ BindFails(s)
    <3>1. Counts(s)
      BY <1>1, <2>2, CountedEntry
    <3>2. \A t \in Syncs : \A e \in Entries : sync'[t].tree[e] = sync[t].tree[e]
      BY <1>1, <3>1, CountsIs
    <3> QED BY <1>1, <2>1, <3>2, RisesSame
  <2>3. CASE BeginSync(s) \/ PrepareEntries(s)
    <3> DEFINE p == [e \in Entries |-> IF e \in Examined(s) THEN Prepared(e, s) ELSE "none"]
    <3>1. \/ sync' \in {Step(s, "cloning"), Step(s, "ending")}
          \/ sync' = [Step(s, "importing") EXCEPT ![s].plan = p, ![s].bad = (NameConflicts(s) # {})]
      BY <2>3 DEF BeginSync, PrepareEntries
    <3>2. \A t \in Syncs : \A e \in Entries : sync'[t].tree[e] = sync[t].tree[e]
      <4> HIDE DEF p
      <4>1. CASE sync' \in {Step(s, "cloning"), Step(s, "ending")}
        BY <1>1, <4>1, StepIs DEF SyncPcs
      <4>2. CASE sync' = [Step(s, "importing") EXCEPT ![s].plan = p, ![s].bad = (NameConflicts(s) # {})]
        BY <1>1, <4>2 DEF Step, TypeOK, Sync
      <4> QED BY <3>1, <4>1, <4>2
    <3> QED BY <1>1, <2>1, <3>2, RisesSame
  <2>4. CASE ConcludeSync(s) \/ SyncFails(s) \/ SetupFails(s) \/ ResultLost(s) \/ EndSync(s)
    <3>1. sync' = [sync EXCEPT ![s] = Ended(s)] \/ sync' = [sync EXCEPT ![s] = Off]
      BY <2>4 DEF ConcludeSync, SyncFails, SetupFails, ResultLost, EndSync
    <3>2. \A t \in Syncs : sync'[t] \in {sync[t], Off} \/ (t = s /\ sync'[t] = Ended(s))
      BY <1>1, <3>1 DEF TypeOK
    <3>3. \A t \in Syncs : \A e \in Entries : sync'[t].tree[e] \in {0, sync[t].tree[e]}
      BY <3>2, EndedIs
    <3> QED BY <1>1, <2>1, <3>3, RisesSame
  <2> QED BY <1>4, <2>2, <2>3, <2>4 DEF Run
<1>5. CASE Tick
  <2>1. \A t \in Syncs : sync'[t].tree = sync[t].tree
    BY <1>1, <1>5 DEF Tick, TypeOK, Sync
  <2> QED BY <1>1, <1>5, <2>1, RisesSame DEF Tick
<1>6. ASSUME NEW w \in Workers, Crash(w)
      PROVE  Rises'
  <2>1. \A t \in Syncs : sync'[t] \in {sync[t], Off}
    BY <1>6 DEF Crash
  <2> QED BY <1>1, <1>6, <2>1, EndedIs, RisesSame DEF Crash
<1>7. ASSUME NEW e \in Entries, Upload(e) \/ DeleteVersion(e)
      PROVE  Rises'
  <2>1. UNCHANGED <<repo, pushes, sync>>
    BY <1>7 DEF Upload, DeleteVersion
  <2>2. \A f \in Entries : f # e => asset'[f] = asset[f]
    BY <1>1, <1>7, HandIs
  <2>3. /\ Past(asset'[e]) \subseteq Past(asset[e])
        /\ asset'[e].bytes \in {asset[e].bytes, Manual}
    BY <1>1, <1>7, HandIs DEF Past
  <2> QED BY <1>1, <2>1, <2>2, <2>3, RisesSame
<1>8. ASSUME NEW e \in Entries, asset' = [asset EXCEPT ![e] = NoAsset], sync' = Forsaken(e),
             UNCHANGED <<repo, pushes>>
      PROVE  Rises'
  <2>1. \A f \in Entries : asset'[f] \in {asset[f], NoAsset}
    BY <1>1, <1>8 DEF TypeOK
  <2>2. \A s \in Syncs : sync'[s].tree = sync[s].tree
    BY <1>1, <1>8, ForsakenIs
  <2> QED BY <1>1, <1>8, <2>1, <2>2, RisesSame
<1>9. ASSUME NEW e \in Entries, DeleteAsset(e)
      PROVE  Rises'
  BY <1>8, <1>9 DEF DeleteAsset
<1>10. ASSUME NEW r \in Requests, DeleteLinked(r)
       PROVE  Rises'
  <2>1. First(req[r].todo) \in Entries
    BY <1>1, <1>10, FirstIn DEF DeleteLinked, TypeOK, Request
  <2> QED BY <1>2, <1>8, <1>10, <2>1 DEF DeleteLinked
<1> QED BY <1>2, <1>3, <1>4, <1>5, <1>6, <1>7, <1>9, <1>10
    DEF Next, Ask, Serve, RequestSync, CreateSource, ReuseSource, ListSources, RequestDelete,
        Recover, DeleteSource, StartUp, vars

LEMMA CloneRises ==
  ASSUME Held, Rises, NEW s \in Syncs, Clone(s)
  PROVE  Rises'
<1>1. /\ TypeOK /\ UNCHANGED <<repo, pushes, asset>>
      /\ sync'[s].tree = repo /\ \A t \in Syncs : t # s => sync'[t] = sync[t]
  BY DEF Held, Clone, Step, TypeOK, Sync
<1> QED BY <1>1, Natural DEF Rises

LEMMA PushRises ==
  ASSUME ~Reverts, Held, Rises, NEW e \in Entries, Push(e)
  PROVE  Rises'
<1>1. /\ TypeOK /\ UNCHANGED <<asset, sync>> /\ pushes' = pushes + 1
      /\ repo'[e] \in {0, pushes + 1} /\ \A f \in Entries : f # e => repo'[f] = repo[f]
  BY DEF Held, Push, TypeOK
<1> QED BY <1>1, Natural DEF Rises

\* The clones of other syncs are gone.
LEMMA OnlyClone ==
  ASSUME Held, NEW s \in Syncs, Live(s), NEW t \in Syncs, t # s
  PROVE  sync[t].pc \in {"off", "ending"} /\ \A e \in Entries : sync[t].tree[e] = 0
BY DEF Held, Leased, Plans, Live

\* A publication and a binding raise an asset to what the sync cloned.
LEMMA RaisedTo ==
  ASSUME Held, Rises, NEW s \in Syncs, Live(s), NEW e \in Entries, sync[s].tree[e] # 0,
         UNCHANGED <<repo, pushes>>, \A t \in Syncs : sync'[t].tree = sync[t].tree,
         \A f \in Entries : f # e => asset'[f] = asset[f],
         Past(asset'[e]) \subseteq Past(asset[e]) \cup {sync[s].tree[e]},
         asset'[e].bytes \in {sync[s].tree[e], Manual}
  PROVE  Rises'
<1> DEFINE c == sync[s].tree[e]
<1>1. TypeOK /\ \A t \in Syncs : sync[t].tree[e] # 0 => t = s
  BY OnlyClone DEF Held
<1>2. c \in Nat /\ c <= pushes /\ (repo[e] # 0 => c <= repo[e]) /\ repo[e] <= pushes
      /\ \A d \in Past(asset[e]) : d <= pushes /\ (repo[e] # 0 => d <= repo[e]) /\ d <= c
  BY <1>1, Natural DEF Rises
<1> HIDE DEF c
<1>3. \A d \in Past(asset'[e]) : d <= pushes /\ (repo[e] # 0 => d <= repo[e]) /\ d <= c
  <2>1. c <= c
    BY <1>2
  <2> QED BY <1>2, <2>1 DEF c
<1>4. \A f \in Entries : f # e =>
        /\ repo[f] <= pushes
        /\ \A d \in Past(asset[f]) :
             /\ d <= pushes
             /\ repo[f] # 0 => d <= repo[f]
             /\ asset[f].bytes # Manual => d <= asset[f].bytes
        /\ \A t \in Syncs : sync[t].tree[f] # 0 =>
             /\ sync[t].tree[f] <= pushes
             /\ repo[f] # 0 => sync[t].tree[f] <= repo[f]
             /\ \A d \in Past(asset[f]) : d <= sync[t].tree[f]
  BY DEF Rises
<1> QED BY <1>1, <1>2, <1>3, <1>4 DEF Rises, c

LEMMA PublishRises ==
  ASSUME Held, Rises, NEW s \in Syncs, PublishEntry(s)
  PROVE  Rises'
<1> DEFINE e == First(Todo(s))
           c == sync[s].tree[e]
<1>1. /\ TypeOK /\ Live(s) /\ e \in Entries /\ c # 0
      /\ UNCHANGED <<repo, pushes>> /\ \A f \in Entries : f # e => asset'[f] = asset[f]
      /\ asset'[e].git = asset[e].git /\ asset'[e].digest = asset[e].digest
      /\ \/ asset'[e].bytes = c /\ asset'[e].kept \subseteq asset[e].kept \cup {c}
         \/ asset'[e] = asset[e]
  BY PublishIs DEF Held, PublishEntry, Live
<1>2. \A t \in Syncs : sync'[t].tree = sync[t].tree
  BY PublishesIs DEF Held
<1> HIDE DEF e
<1>3. CASE asset'[e] = asset[e]
  BY <1>1, <1>2, <1>3, RisesSame
<1>4. CASE asset'[e].bytes = c /\ asset'[e].kept \subseteq asset[e].kept \cup {c}
  <2>1. Past(asset'[e]) \subseteq Past(asset[e]) \cup {c}
    BY <1>1, <1>4 DEF Past
  <2> QED BY <1>1, <1>2, <1>4, <2>1, RaisedTo
<1> QED BY <1>1, <1>3, <1>4

LEMMA BindRises ==
  ASSUME Held, Rises, AllDealt, NEW s \in Syncs, BindEntry(s)
  PROVE  Rises'
<1> DEFINE e == First(Todo(s))
           c == sync[s].tree[e]
<1>1. /\ TypeOK /\ Live(s) /\ e \in Entries /\ c # 0 /\ UNCHANGED <<repo, pushes>>
      /\ sync[s].plan[e] = "lost" \/ asset[e].bytes \in {c, Manual}
  BY TodoIs DEF Held, Plans, BindEntry, AllDealt, Dealt, Live, Todo
<1>2. \A t \in Syncs : sync'[t].tree = sync[t].tree
  BY <1>1, CountedEntry, CountsIs
<1>3. asset' = asset
      \/ /\ sync[s].plan[e] # "lost"
         /\ asset' = [asset EXCEPT ![e].git = sync[s].src, ![e].digest = c]
  BY DEF BindEntry, Found
<1> HIDE DEF e, c
<1>4. CASE asset' = asset
  BY <1>1, <1>2, <1>4, RisesSame
<1>5. CASE asset' # asset
  <2>1. /\ asset'[e].bytes = asset[e].bytes /\ asset'[e].kept = asset[e].kept
        /\ asset'[e].digest = c /\ \A f \in Entries : f # e => asset'[f] = asset[f]
    BY <1>1, <1>3, <1>5 DEF TypeOK, Asset
  <2>2. Past(asset'[e]) \subseteq Past(asset[e]) \cup {c} /\ asset'[e].bytes \in {c, Manual}
    BY <1>1, <1>3, <1>5, <2>1 DEF Past
  <2> QED BY <1>1, <1>2, <2>1, <2>2, RaisedTo DEF c
<1> QED BY <1>4, <1>5

LEMMA RisesStep ==
  ASSUME ~Reverts, Held, Rises, AllDealt, [Next]_vars
  PROVE  Rises'
BY OthersRise, CloneRises, PushRises, PublishRises, BindRises

-----------------------------------------------------------------------------
(* Entries dealt with. *)

\* A sync that does not import yet, or no more, has dealt with nothing.
LEMMA DealtNone ==
  ASSUME Plans', NEW s \in Syncs, sync'[s].pc \notin {"importing", "binding"}
  PROVE  Dealt(s)'
BY DEF Plans, Dealt

\* Deletions and what is done by hand leave a sync its entries.
LEMMA DealtSame ==
  ASSUME Held, NEW s \in Syncs, Dealt(s), Live(s),
         sync'[s].pc = sync[s].pc, sync'[s].tree = sync[s].tree,
         sync'[s].src = sync[s].src, sync'[s].bad = sync[s].bad,
         \A e \in Entries :
           \/ /\ sync'[s].plan[e] = sync[s].plan[e] /\ asset'[e].git = asset[e].git
              /\ asset'[e].bytes \in {asset[e].bytes, Manual}
           \/ /\ \/ sync'[s].plan[e] = sync[s].plan[e] /\ sync'[s].plan[e] # "force"
                 \/ sync[s].plan[e] = "force" /\ sync'[s].plan[e] = "lost"
              /\ asset'[e].git = NoSource
  PROVE  Dealt(s)'
<1>1. sync[s].src # NoSource
  BY DEF Held, Leased, Owns, Exists
<1>2. Todo(s)' = Todo(s) /\ Directories(s)' = Directories(s)
  <2>1. \A e \in Entries : sync'[s].plan[e] # "none" <=> sync[s].plan[e] # "none"
    OBVIOUS
  <2> QED BY <2>1 DEF Todo, Directories
<1>3. ASSUME sync[s].pc = "binding"
      PROVE  /\ First(Todo(s)) \in Todo(s) /\ First(Todo(s)') = First(Todo(s))
             /\ sync[s].plan[First(Todo(s))] \in {"force", "lost"}
  <2>1. First(Todo(s)) \in Todo(s) /\ sync[s].plan[First(Todo(s))] # "new"
    BY <1>3, TodoIs DEF Held, Plans
  <2>2. sync[s].plan \in [Entries -> Plan]
    BY DEF Held, TypeOK, Sync
  <2> QED BY <1>2, <2>1, <2>2 DEF Todo, Plan
<1>4. sync'[s].pc = "binding" =>
        \/ sync'[s].plan[First(Todo(s))'] = "lost"
        \/ asset'[First(Todo(s))'].bytes \in {sync'[s].tree[First(Todo(s))'], Manual}
  BY <1>2, <1>3, TodoIs DEF Dealt
<1>5. \A e \in Entries : sync'[s].plan[e] = "new" => asset'[e].git = NoSource
  BY DEF Dealt
<1>6. sync'[s].pc \in {"importing", "binding"} /\ ~sync'[s].bad =>
        \A e \in Directories(s) : sync'[s].plan[e] = "none" /\ asset'[e].git = sync'[s].src =>
          asset'[e].bytes \in {sync'[s].tree[e], Manual}
  BY <1>1 DEF Dealt, Directories
<1> QED BY <1>2, <1>4, <1>5, <1>6 DEF Dealt

\* Counting an entry in which an error shows, or that has its content.
LEMMA CountedDealt ==
  ASSUME TypeOK, NEW s \in Syncs, NEW e \in Entries, NEW fine \in BOOLEAN, Dealt(s),
         sync[s].pc \in {"importing", "binding"},
         sync' = Counted(s, e, fine) \/ sync' = [Counted(s, e, fine) EXCEPT ![s].quiet = 0],
         \A f \in Entries : f # e => asset'[f] = asset[f],
         asset' # asset => fine,
         fine /\ asset'[e].git = sync[s].src => asset'[e].bytes \in {sync[s].tree[e], Manual}
  PROVE  Dealt(s)'
<1> DEFINE new == Counted(s, e, fine)
<1>1. new \in [Syncs -> Sync] /\ new[s] \in Sync
  BY SyncTyped DEF TypeOK
<1>2. /\ new[s].pc = "importing" /\ new[s].src = sync[s].src /\ new[s].tree = sync[s].tree
      /\ new[s].bad = (sync[s].bad \/ ~fine)
      /\ \A f \in Entries : new[s].plan[f] = IF f = e \/ (FailFast /\ ~fine) THEN "none" ELSE sync[s].plan[f]
  BY CountedIs
<1>3. sync' = new \/ sync' = [new EXCEPT ![s].quiet = 0]
  OBVIOUS
<1> HIDE DEF new
<1>4. sync'[s].pc = new[s].pc /\ sync'[s].src = new[s].src /\ sync'[s].tree = new[s].tree
      /\ sync'[s].plan = new[s].plan /\ sync'[s].bad = new[s].bad
  BY <1>1, <1>3 DEF Sync
<1>5. sync'[s].pc = "importing" /\ Directories(s)' = Directories(s)
  BY <1>2, <1>4 DEF Directories
<1>6. \A f \in Entries : sync'[s].plan[f] = "new" => asset'[f].git = NoSource
  BY <1>2, <1>4 DEF Dealt
<1>7. ASSUME ~sync'[s].bad, NEW f \in Directories(s), sync'[s].plan[f] = "none",
             asset'[f].git = sync'[s].src
      PROVE  asset'[f].bytes \in {sync'[s].tree[f], Manual}
  <2>1. fine /\ ~sync[s].bad /\ f \in Entries
    BY <1>2, <1>4, <1>7 DEF Directories
  <2>2. CASE f = e
    BY <1>2, <1>4, <1>7, <2>1, <2>2
  <2>3. CASE f # e
    BY <1>2, <1>4, <1>7, <2>1, <2>3 DEF Dealt
  <2> QED BY <2>2, <2>3
<1> QED BY <1>5, <1>6, <1>7 DEF Dealt

\* What an asset shows is at once the newest it ever showed and no newer than the clone.
LEMMA ShownNewest ==
  ASSUME TypeOK, Rises, NEW s \in Syncs, NEW e \in Entries,
         sync[s].tree[e] # 0, sync[s].tree[e] \in Past(asset[e])
  PROVE  asset[e].bytes \in {sync[s].tree[e], Manual}
<1>1. SUFFICES ASSUME asset[e].bytes # Manual PROVE asset[e].bytes = sync[s].tree[e]
  OBVIOUS
<1>2. asset[e].bytes \in Past(asset[e])
  BY <1>1 DEF Past
<1>3. sync[s].tree[e] <= asset[e].bytes /\ asset[e].bytes <= sync[s].tree[e]
  BY <1>1, <1>2 DEF Rises
<1> QED BY <1>3, Natural

LEMMA RunDealt ==
  ASSUME Held, Held', Rises, AllDealt, NEW s \in Syncs, Run(s), Live(s)
  PROVE  Dealt(s)'
<1> DEFINE e == First(Todo(s))
<1>1. /\ TypeOK /\ Bound /\ Present /\ Plans /\ Plans' /\ Dealt(s) /\ sync[s].src # NoSource
  BY DEF Held, AllDealt, Leased, Owns, Exists
<1>2. Todo(s) # {} => e \in Entries /\ e \in Todo(s)
  BY TodoIs
<1>3. CASE BeginSync(s)
  <2>1. sync' \in {Step(s, "cloning"), Step(s, "ending")}
    BY <1>3 DEF BeginSync
  <2> QED BY <1>1, <2>1, StepIs, DealtNone DEF SyncPcs
<1>4. CASE Clone(s)
  <2>1. sync'[s].pc = "preparing"
    BY <1>1, <1>4 DEF Clone, Step, TypeOK, Sync
  <2> QED BY <1>1, <2>1, DealtNone
<1>5. CASE PrepareEntries(s)
  <2> DEFINE p == [f \in Entries |-> IF f \in Examined(s) THEN Prepared(f, s) ELSE "none"]
  <2>1. /\ sync'[s].pc = "importing" /\ sync'[s].tree = sync[s].tree /\ sync'[s].plan = p
        /\ sync'[s].bad = (NameConflicts(s) # {})
    <3>1. sync' = [Step(s, "importing") EXCEPT ![s].plan = p, ![s].bad = (NameConflicts(s) # {})]
      BY <1>5 DEF PrepareEntries
    <3> HIDE DEF p
    <3> QED BY <1>1, <3>1 DEF Step, TypeOK, Sync
  <2>2. asset' = asset
    BY <1>5 DEF PrepareEntries
  <2>3. \A f \in Entries : p[f] = "new" => asset[f].git = NoSource
    BY <1>1 DEF Prepared, Present
  <2>4. NameConflicts(s) = {} => \A f \in Directories(s) : f \in Entries /\ p[f] # "none"
    BY DEF NameConflicts, Examined, Directories
  <2>5. Directories(s)' = Directories(s)
    BY <2>1 DEF Directories
  <2> HIDE DEF p
  <2> QED BY <2>1, <2>2, <2>3, <2>4, <2>5 DEF Dealt
<1>6. CASE SkipEntry(s)
  <2>1. /\ sync[s].pc = "importing" /\ e \in Entries /\ asset' = asset /\ Unchanged(s, e)
        /\ sync' = [Counted(s, e, TRUE) EXCEPT ![s].quiet = 0]
    BY <1>2, <1>6 DEF SkipEntry
  <2>2. asset[e].git = sync[s].src /\ asset[e].digest = sync[s].tree[e] /\ sync[s].tree[e] # 0
    BY <1>1, <1>2, <1>6, <2>1 DEF Unchanged, Plans, Todo, SkipEntry
  <2>3. asset[e].bytes \in {sync[s].tree[e], Manual}
    <3> HIDE DEF e
    <3> QED BY <1>1, <2>1, <2>2, ShownNewest DEF Past
  <2> HIDE DEF e
  <2> QED BY <1>1, <2>1, <2>3, CountedDealt
<1>7. CASE VersionTaken(s)
  <2>1. /\ sync[s].pc = "importing" /\ e \in Entries /\ asset' = asset /\ sync[s].plan[e] = "new"
        /\ sync' = [Counted(s, e, TRUE) EXCEPT ![s].quiet = 0]
    BY <1>2, <1>7 DEF VersionTaken
  <2> HIDE DEF e
  <2>2. asset[e].git # sync[s].src
    BY <1>1, <2>1 DEF Dealt
  <2> QED BY <1>1, <2>1, <2>2, CountedDealt
<1>8. CASE PublishEntryFails(s) \/ BindFails(s)
  <2>1. /\ sync[s].pc \in {"importing", "binding"} /\ e \in Entries /\ asset' = asset
        /\ \/ sync' = Counted(s, e, FALSE)
           \/ sync' = [Counted(s, e, FALSE) EXCEPT ![s].quiet = 0]
    BY <1>1, <1>2, <1>8 DEF PublishEntryFails, BindFails, Plans
  <2> HIDE DEF e
  <2> QED BY <1>1, <2>1, CountedDealt
<1>9. CASE BindEntry(s)
  <2>1. sync[s].pc = "binding" /\ e \in Entries
        /\ (sync[s].plan[e] = "lost" \/ asset[e].bytes \in {sync[s].tree[e], Manual})
    BY <1>1, <1>2, <1>9 DEF BindEntry, Plans, Dealt
  <2>2. CASE sync[s].plan[e] = "lost"
    <3>1. asset' = asset /\ sync' = Counted(s, e, FALSE)
      BY <1>9, <2>2 DEF BindEntry, Found
    <3> HIDE DEF e
    <3> QED BY <1>1, <2>1, <3>1, CountedDealt
  <2>3. CASE sync[s].plan[e] # "lost"
    <3>1. /\ asset' = [asset EXCEPT ![e].git = sync[s].src, ![e].digest = sync[s].tree[e]]
          /\ sync' = Counted(s, e, TRUE)
      BY <1>9, <2>3 DEF BindEntry, Found
    <3> HIDE DEF e
    <3>2. asset'[e].bytes = asset[e].bytes /\ \A f \in Entries : f # e => asset'[f] = asset[f]
      BY <1>1, <2>1, <2>3, <3>1 DEF TypeOK, Asset
    <3> QED BY <1>1, <2>1, <2>3, <3>1, <3>2, CountedDealt
  <2> QED BY <2>2, <2>3
<1>10. CASE PublishEntry(s)
  <2> DEFINE c == sync[s].tree[e]
  <2>1. sync[s].pc = "importing" /\ Todo(s) # {}
    BY <1>10 DEF PublishEntry
  <2>2. /\ e \in Entries /\ c # 0 /\ \A f \in Entries : f # e => asset'[f] = asset[f]
        /\ asset'[e].git = asset[e].git
        /\ asset'[e].bytes = c \/ (asset'[e] = asset[e] /\ c \in asset[e].kept)
    BY <1>1, <1>10, PublishIs
  <2>3. /\ sync'[s].pc = "binding" /\ sync'[s].tree = sync[s].tree
        /\ sync'[s].src = sync[s].src /\ sync'[s].bad = sync[s].bad
        /\ sync'[s].plan[e] = "force" /\ sync[s].plan[e] # "none"
        /\ \A f \in Entries : f # e => sync'[s].plan[f] = sync[s].plan[f]
    BY <1>1, <1>10, PublishesIs
  <2>4. Todo(s)' = Todo(s) /\ Directories(s)' = Directories(s)
    <3> HIDE DEF e
    <3> QED BY <2>2, <2>3 DEF Todo, Directories
  <2>5. First(Todo(s))' = e
    BY <2>4
  <2> HIDE DEF e
  <2>6. asset'[e].bytes \in {c, Manual}
    BY <1>1, <2>2, ShownNewest DEF Past
  <2>7. \A f \in Entries : sync'[s].plan[f] = "new" => asset'[f].git = NoSource
    BY <1>1, <2>2, <2>3 DEF Dealt
  <2>8. \A f \in Directories(s) : ~sync'[s].bad /\ sync'[s].plan[f] = "none" /\ asset'[f].git = sync'[s].src
          => asset'[f].bytes \in {sync'[s].tree[f], Manual}
    BY <1>1, <2>1, <2>2, <2>3 DEF Dealt, Directories
  <2> QED BY <2>3, <2>4, <2>5, <2>6, <2>7, <2>8 DEF Dealt
<1>11. CASE ConcludeSync(s) \/ SyncFails(s) \/ SetupFails(s) \/ ResultLost(s)
  <2>1. sync' = [sync EXCEPT ![s] = Ended(s)]
    BY <1>11 DEF ConcludeSync, SyncFails, SetupFails, ResultLost
  <2>2. sync'[s].pc = "ending"
    BY <1>1, <2>1, EndedIs DEF TypeOK
  <2> QED BY <1>1, <2>2, DealtNone
<1> QED BY <1>3, <1>4, <1>5, <1>6, <1>7, <1>8, <1>9, <1>10, <1>11 DEF Run, EndSync, Live

LEMMA DealtStep ==
  ASSUME OneRequest, Safe, Held', [Next]_vars
  PROVE  AllDealt'
<1>1. Held /\ TypeOK /\ Plans' /\ AllDealt /\ Rises
  BY DEF Safe, Held
<1>2. SUFFICES ASSUME NEW s \in Syncs PROVE Dealt(s)'
  BY DEF AllDealt
<1>3. CASE ~Live(s) /\ sync'[s].pc = sync[s].pc
  BY <1>1, <1>3, DealtNone DEF Live
<1>4. CASE UNCHANGED <<asset, sync>>
  BY <1>1, <1>3, <1>4, DealtSame DEF AllDealt
<1>5. ASSUME NEW e \in Entries, Push(e) \/ Upload(e) \/ DeleteVersion(e)
      PROVE  Dealt(s)'
  <2>1. sync' = sync
    BY <1>5 DEF Push, Upload, DeleteVersion
  <2>2. \A f \in Entries : /\ asset'[f].git = asset[f].git
                           /\ asset'[f].bytes \in {asset[f].bytes, Manual}
    BY <1>1, <1>5, HandIs DEF Push, Upload, DeleteVersion
  <2> QED BY <1>1, <1>3, <2>1, <2>2, DealtSame DEF AllDealt
<1>6. ASSUME NEW e \in Entries, DeleteAsset(e)
      PROVE  Dealt(s)'
  <2>1. /\ asset'[e].git = NoSource /\ \A f \in Entries : f # e => asset'[f] = asset[f]
    BY <1>1, <1>6 DEF DeleteAsset, TypeOK, NoAsset
  <2>2. /\ sync'[s].pc = sync[s].pc /\ sync'[s].tree = sync[s].tree
        /\ sync'[s].src = sync[s].src /\ sync'[s].bad = sync[s].bad
        /\ \A f \in Entries : \/ sync'[s].plan[f] = sync[s].plan[f]
                              \/ sync[s].plan[f] = "force" /\ sync'[s].plan[f] = "lost"
        /\ sync'[s].plan[e] # "force"
        /\ \A f \in Entries : f # e => sync'[s].plan[f] = sync[s].plan[f]
    <3>1. sync' = Forsaken(e)
      BY <1>6 DEF DeleteAsset
    <3>2. \A f \in Entries : f # e => Forsaken(e)[s].plan[f] = sync[s].plan[f]
      BY <1>1 DEF Forsaken, TypeOK, Sync
    <3> QED BY <1>1, <3>1, <3>2, ForsakenIs
  <2> QED BY <1>1, <1>3, <2>1, <2>2, DealtSame DEF AllDealt
<1>7. ASSUME NEW t \in Syncs, Run(t)
      PROVE  Dealt(s)'
  <2>1. CASE Live(t) /\ s = t
    BY <1>1, <1>7, <2>1, RunDealt
  <2>2. CASE Live(t) /\ s # t
    BY <1>1, <1>3, <1>7, <2>2, RunIs, OnlyClone DEF Live
  <2>3. CASE ~Live(t)
    <3>1. EndSync(t)
      BY <1>7, <2>3 DEF Run, Live, BeginSync, Clone, PrepareEntries, SkipEntry, PublishEntry,
        VersionTaken, PublishEntryFails, BindEntry, BindFails, ConcludeSync, SyncFails, SetupFails, ResultLost
    <3>2. CASE s = t
      <4>1. sync'[s].pc = "off"
        BY <1>1, <3>1, <3>2, EndedIs DEF EndSync, TypeOK
      <4> QED BY <1>1, <4>1, DealtNone
    <3>3. CASE s # t
      <4>1. sync'[s] = sync[s] /\ asset' = asset
        BY <1>1, <3>1, <3>3 DEF EndSync, TypeOK
      <4> QED BY <1>1, <1>3, <4>1, DealtSame DEF AllDealt
    <3> QED BY <3>2, <3>3
  <2> QED BY <2>1, <2>2, <2>3
<1>8. CASE Tick
  <2>1. /\ asset' = asset /\ sync'[s].pc = sync[s].pc /\ sync'[s].plan = sync[s].plan
        /\ sync'[s].tree = sync[s].tree /\ sync'[s].src = sync[s].src /\ sync'[s].bad = sync[s].bad
        /\ ~Live(s) => sync'[s] = sync[s]
    BY <1>1, <1>8 DEF Tick, TypeOK, Sync
  <2> QED BY <1>1, <1>3, <2>1, DealtSame DEF AllDealt
<1>9. ASSUME NEW w \in Workers, Crash(w)
      PROVE  Dealt(s)'
  <2>1. CASE sync'[s] = sync[s]
    BY <1>1, <1>3, <1>9, <2>1, DealtSame DEF AllDealt, Crash
  <2>2. CASE sync'[s] = Off
    BY <1>1, <2>2, EndedIs, DealtNone
  <2> QED BY <1>9, <2>1, <2>2 DEF Crash
<1>10. ASSUME NEW r \in Requests, Serve(r)
       PROVE  Dealt(s)'
  <2>1. ~Live(s)
    BY <1>1, <1>10, NoneLive DEF Held, Serve, MarkSyncing, Recover, DeleteLinked, DeleteSource
  <2>2. sync'[s].pc = sync[s].pc \/ sync'[s].pc = "queued"
    <3>1. CASE DeleteLinked(r)
      <4>1. First(req[r].todo) \in Entries
        BY <1>1, <3>1, FirstIn DEF DeleteLinked, TypeOK, Request
      <4>2. sync' = sync \/ sync' = Forsaken(First(req[r].todo))
        BY <3>1 DEF DeleteLinked
      <4> QED BY <1>1, <4>1, <4>2, ForsakenIs
    <3>2. CASE Recover(r) \/ DeleteSource(r) \/ \E t \in Syncs : MarkSyncing(r, t)
      BY <1>1, <3>2 DEF MarkSyncing, Recover, DeleteSource, TypeOK, Off
    <3> QED BY <1>10, <3>1, <3>2 DEF Serve
  <2> QED BY <1>1, <1>3, <2>1, <2>2, DealtNone
<1> QED BY <1>4, <1>5, <1>6, <1>7, <1>8, <1>9, <1>10
    DEF Next, Ask, RequestSync, CreateSource, ReuseSource, ListSources, RequestDelete, StartUp, vars

-----------------------------------------------------------------------------
(* The refinement: what each step is to the lease. *)

Active == {s \in Syncs : Live(s)}
Syncing == source.status = "syncing"

LEMMA LeaseIs ==
  /\ Lease!Init <=> (Syncing = FALSE /\ Active = {})
  /\ \A s : Lease!Begin(s) <=> (Active = {} /\ Active' = {s} /\ Syncing' = TRUE)
  /\ \A s : Lease!Conclude(s) <=> (Active = {s} /\ Active' = {} /\ Syncing' = FALSE)
  /\ \A s : Lease!Vanish(s) <=> (Active = {s} /\ Active' = {} /\ Syncing' = Syncing)
  /\ Lease!Reclaim <=> (Syncing /\ Active = {} /\ Syncing' = FALSE /\ Active' = Active)
  /\ (UNCHANGED Lease!vars) <=> (Syncing' = Syncing /\ Active' = Active)
BY DEF Lease!Init, Lease!Begin, Lease!Conclude, Lease!Vanish, Lease!Reclaim, Lease!vars, Syncing, Active

\* A row that stops syncing while nobody works on it has been reclaimed.
LEMMA QuietImplements ==
  ASSUME Active' = Active, Syncing' = Syncing \/ (Active = {} /\ ~source'.status = "syncing")
  PROVE  [Lease!Next]_(Lease!vars)
<1>1. CASE Syncing' = Syncing
  BY <1>1, LeaseIs
<1>2. CASE Syncing' # Syncing
  <2>1. Syncing /\ Active = {} /\ Syncing' = FALSE
    BY <1>2 DEF Syncing
  <2> QED BY <2>1, LeaseIs DEF Lease!Next
<1> QED BY <1>1, <1>2

LEMMA RunImplements ==
  ASSUME Held, Held', NEW s \in Syncs, Run(s)
  PROVE  [Lease!Next]_(Lease!vars)
<1>1. TypeOK
  BY DEF Held
<1>2. CASE ~Live(s)
  <2>1. EndSync(s)
    BY <1>2 DEF Run, Live, BeginSync, Clone, PrepareEntries, SkipEntry, PublishEntry, VersionTaken,
         PublishEntryFails, BindEntry, BindFails, ConcludeSync, SyncFails, SetupFails, ResultLost
  <2>2. source' = source /\ \A t \in Syncs : Live(t)' <=> Live(t)
    BY <1>1, <2>1, EndedIs DEF EndSync, TypeOK, Live
  <2>3. Syncing' = Syncing /\ Active' = Active
    BY <2>2 DEF Syncing, Active
  <2> QED BY <2>3, LeaseIs
<1>3. CASE Live(s)
  <2>1. /\ source.status = "syncing" /\ \A t \in Syncs : Live(t) => t = s
        /\ Owns(s)
    BY <1>3 DEF Held, Leased
  <2>2. Active = {s}
    BY <1>3, <2>1 DEF Active
  <2>3. \A t \in Syncs : t # s => ~Live(t)'
    BY <1>3, <2>1, RunIs DEF Live
  <2>4. CASE Live(s)'
    <3>1. Active' = {s} /\ source'.status = "syncing"
      BY <1>3, <2>3, <2>4, RunIs DEF Active
    <3> QED BY <2>1, <2>2, <3>1, LeaseIs DEF Syncing
  <2>5. CASE ~Live(s)'
    <3>1. Active' = {}
      BY <2>3, <2>5 DEF Active
    <3>3. source' = source \/ source'.status # "syncing"
      <4>1. ConcludeSync(s) \/ SyncFails(s) \/ SetupFails(s) \/ ResultLost(s) \/ BeginSync(s)
        <5>1. CASE SkipEntry(s) \/ VersionTaken(s) \/ PublishEntryFails(s) \/ BindEntry(s) \/ BindFails(s)
          BY <1>1, <2>5, <5>1, CountedEntry, CountsIs DEF Live
        <5>2. CASE Clone(s) \/ PrepareEntries(s) \/ PublishEntry(s)
          <6> DEFINE p == [e \in Entries |-> IF e \in Examined(s) THEN Prepared(e, s) ELSE "none"]
          <6>1. \/ sync' = [Step(s, "preparing") EXCEPT ![s].tree = repo]
                \/ sync' = [Step(s, "importing") EXCEPT ![s].plan = p, ![s].bad = (NameConflicts(s) # {})]
                \/ PublishEntry(s)
            BY <5>2 DEF Clone, PrepareEntries
          <6> HIDE DEF p
          <6>2. sync'[s].pc \in {"preparing", "importing", "binding"}
            BY <1>1, <6>1, PublishesIs DEF Held, Step, TypeOK, Sync
          <6> QED BY <2>5, <6>2 DEF Live
        <5>3. ~EndSync(s)
          BY <1>3 DEF EndSync, Live
        <5> QED BY <5>1, <5>2, <5>3 DEF Run
      <4>2. BeginSync(s) => FALSE
        <5>1. BeginSync(s) => sync' = Step(s, "cloning")
          BY <2>1 DEF BeginSync
        <5>2. BeginSync(s) => sync'[s].pc = "cloning"
          BY <1>1, <5>1, StepIs DEF SyncPcs
        <5> QED BY <2>5, <5>2 DEF Live
      <4> QED BY <1>1, <2>1, <4>1, <4>2
          DEF ConcludeSync, Outcome, SyncFails, SetupFails, ResultLost, Failed, TypeOK, Source
    <3>4. CASE source' = source
      <4>1. Lease!Vanish(s)
        BY <2>2, <3>1, <3>4, LeaseIs DEF Syncing
      <4> QED BY <4>1 DEF Lease!Next
    <3>5. CASE source'.status # "syncing"
      <4>1. Lease!Conclude(s)
        BY <2>2, <3>1, <3>5, LeaseIs DEF Syncing
      <4> QED BY <4>1 DEF Lease!Next
    <3> QED BY <3>3, <3>4, <3>5
  <2> QED BY <2>4, <2>5
<1> QED BY <1>2, <1>3

LEMMA StepImplements ==
  ASSUME OneRequest, Held, Held', [Next]_vars
  PROVE  [Lease!Next]_(Lease!vars)
<1>1. TypeOK
  BY DEF Held
<1>2. CASE UNCHANGED <<source, sync>>
  BY <1>2, QuietImplements DEF Active, Syncing, Live
<1>3. ASSUME NEW r \in Requests, Ask(r)
      PROVE  [Lease!Next]_(Lease!vars)
  <2>1. sync' = sync /\ (source'.status = source.status \/ (~Exists /\ source'.status = "none"))
    BY <1>1, <1>3 DEF Ask, RequestSync, CreateSource, ReuseSource, ListSources, RequestDelete, NoRow,
      TypeOK, Source
  <2>2. ~Exists => Active = {}
    BY <1>1, NoneLive DEF Held, Active
  <2> QED BY <2>1, <2>2, QuietImplements DEF Active, Syncing, Live
<1>4. ASSUME NEW r \in Requests, Serve(r)
      PROVE  [Lease!Next]_(Lease!vars)
  <2>1. Active = {}
    BY <1>1, <1>4, NoneLive DEF Held, Active, Serve, MarkSyncing, Recover, DeleteLinked, DeleteSource
  <2>2. CASE Recover(r) \/ DeleteLinked(r) \/ DeleteSource(r)
    <3>1. source' = source \/ source'.status # "syncing"
      <4>1. Failed(source).status = "failed" /\ NoRow.status = "none"
        BY <1>1 DEF Failed, NoRow, TypeOK, Source
      <4>2. source' \in {source, Failed(source), NoRow}
        BY <2>2 DEF Recover, DeleteLinked, DeleteSource
      <4> QED BY <4>1, <4>2
    <3>2. \A s \in Syncs : sync'[s].pc = sync[s].pc
      <4>1. \/ First(req[r].todo) \in Entries /\ sync' = Forsaken(First(req[r].todo))
            \/ sync' = sync
        BY <1>1, <2>2, FirstIn DEF Recover, DeleteLinked, DeleteSource, TypeOK, Request
      <4> QED BY <1>1, <4>1, ForsakenIs
    <3> QED BY <2>1, <3>1, <3>2, QuietImplements DEF Active, Syncing, Live
  <2>3. ASSUME NEW s \in Syncs, MarkSyncing(r, s)
        PROVE  [Lease!Next]_(Lease!vars)
    <3>1. Named(r) /\ source.status = req[r].seen
      BY <2>3 DEF MarkSyncing, Held, Prepares
    <3>2. source' = Marked(r)
          /\ sync' = [sync EXCEPT ![s] = [Off EXCEPT !.pc = "queued", !.w = req[r].w,
                                                    !.src = req[r].src]]
      BY <2>3, <3>1 DEF MarkSyncing
    <3>3. source'.status = "syncing"
      BY <1>1, <3>1, <3>2 DEF Marked, TypeOK, Source
    <3>4. sync'[s].pc = "queued" /\ \A t \in Syncs : t # s => sync'[t] = sync[t]
      BY <1>1, <3>2 DEF TypeOK, Off
    <3>5. Active' = {s}
      BY <2>1, <3>4 DEF Active, Live
    <3>6. Lease!Begin(s)
      BY <2>1, <3>3, <3>5, LeaseIs DEF Syncing
    <3> QED BY <3>6 DEF Lease!Next
  <2> QED BY <1>4, <2>2, <2>3 DEF Serve
<1>5. CASE Tick
  <2>1. source'.status = source.status /\ \A s \in Syncs : sync'[s].pc = sync[s].pc
    BY <1>1, <1>5 DEF Tick, TypeOK, Source, Sync
  <2> QED BY <2>1, QuietImplements DEF Active, Syncing, Live
<1>6. ASSUME NEW w \in Workers, Crash(w)
      PROVE  [Lease!Next]_(Lease!vars)
  <2>1. source' = source /\ \A s \in Syncs : sync'[s] = sync[s] \/ sync'[s].pc = "off"
    BY <1>6, EndedIs DEF Crash
  <2>2. Active' \subseteq Active /\ \A s, t \in Active : s = t
    BY <2>1 DEF Active, Live, Held, Leased
  <2>3. CASE Active' = Active
    BY <2>1, <2>3, QuietImplements DEF Syncing
  <2>4. CASE Active' # Active
    <3>1. PICK s \in Syncs : s \in Active
      BY <2>2, <2>4 DEF Active
    <3>2. Active = {s} /\ Active' = {}
      BY <2>2, <2>4, <3>1
    <3>3. Lease!Vanish(s)
      BY <2>1, <3>2, LeaseIs DEF Syncing
    <3> QED BY <3>3 DEF Lease!Next
  <2> QED BY <2>3, <2>4
<1>7. ASSUME NEW e \in Entries, DeleteAsset(e)
      PROVE  [Lease!Next]_(Lease!vars)
  <2>1. source' = source /\ \A s \in Syncs : sync'[s].pc = sync[s].pc
    BY <1>1, <1>7, ForsakenIs DEF DeleteAsset
  <2> QED BY <2>1, QuietImplements DEF Active, Syncing, Live
<1> QED BY <1>2, <1>3, <1>4, <1>5, <1>6, <1>7, RunImplements
    DEF Next, Push, Upload, DeleteVersion, StartUp, vars

-----------------------------------------------------------------------------
(* The theorems. *)

LEMMA HeldHolds ==
  ASSUME OneRequest
  PROVE  Spec => []Held
BY InitHeld, HeldStep, PTL DEF Spec

LEMMA SafeHolds ==
  ASSUME OneRequest, ~Reverts
  PROVE  Spec => []Safe
<1>1. Init => Safe
  <2> SUFFICES ASSUME Init PROVE Safe
    OBVIOUS
  <2>1. Held
    BY InitHeld
  <2>2. /\ \A e \in Entries : repo[e] = 0 /\ asset[e].bytes = 0 /\ asset[e].git = NoSource
        /\ pushes = 0 /\ \A s \in Syncs : sync[s].pc = "off"
        /\ \A s \in Syncs : \A e \in Entries : sync[s].tree[e] = 0 /\ sync[s].plan[e] = "none"
        /\ \A e \in Entries : Past(asset[e]) \subseteq {0}
    BY EndedIs DEF Init, NoAsset, Past
  <2>3. Rises
    BY <2>2 DEF Rises
  <2>4. AllDealt
    BY <2>2 DEF AllDealt, Dealt
  <2> QED BY <2>1, <2>3, <2>4 DEF Safe
<1>2. Safe /\ [Next]_vars => Safe'
  <2> SUFFICES ASSUME Safe, [Next]_vars PROVE Safe'
    OBVIOUS
  <2>1. Held'
    BY HeldStep DEF Safe
  <2>2. Rises' /\ AllDealt'
    BY <2>1, RisesStep, DealtStep DEF Safe
  <2> QED BY <2>1, <2>2 DEF Safe
<1> QED BY <1>1, <1>2, PTL DEF Spec

\* Every variable keeps its type, whatever number of requests are served at once: no publication
\* or binding writes what is not a content or the id of a source.
THEOREM GitSyncTypeCorrect == Spec => []TypeOK
<1>1. Init => TypeOK /\ Plans
  BY InitHeld DEF Held
<1>2. TypeOK /\ Plans /\ [Next]_vars => (TypeOK /\ Plans)'
  BY TypeStep, PlansStep
<1> QED BY <1>1, <1>2, PTL DEF Spec

\* The syncing status is a lease: SyncLease, for any numbers of processes and syncs.
THEOREM SyncsHoldLease ==
  ASSUME OneRequest
  PROVE  Spec => ImplementsLease
<1>1. Init => Lease!Init
  BY LeaseIs, EndedIs DEF Init, Syncing, Active, Live, NoRow
<1>2. Held /\ Held' /\ [Next]_vars => [Lease!Next]_(Lease!vars)
  BY StepImplements
<1> QED BY <1>1, <1>2, HeldHolds, PTL DEF Spec, ImplementsLease, Lease!Spec

\* A deleted source leaves no Skill bound to it behind, whatever syncs and crashes meanwhile.
THEOREM DeletionUnbinds ==
  ASSUME OneRequest
  PROVE  Spec => []LinkedToLiveSource
<1>1. Held => LinkedToLiveSource
  BY DEF Held, Bound, LinkedToLiveSource
<1> QED BY <1>1, HeldHolds, PTL

\* While the repository takes back no content, a sync that reports success leaves every Skill
\* bound to it at the content it cloned, unless its publisher changed it by hand.
THEOREM SuccessIsTrue ==
  ASSUME OneRequest, ~Reverts
  PROVE  Spec => SuccessIsCurrent
<1>1. ASSUME Safe, [Next]_vars
      PROVE  [\A s \in Syncs : ConcludeSync(s) /\ Owns(s) /\ source'.status = "success"
               => \A e \in Directories(s) :
                    asset[e].git = sync[s].src => asset[e].bytes \in {sync[s].tree[e], Manual}]_vars
  <2>1. SUFFICES ASSUME NEW s \in Syncs, ConcludeSync(s), Owns(s), source'.status = "success"
                 PROVE  \A e \in Directories(s) :
                          asset[e].git = sync[s].src => asset[e].bytes \in {sync[s].tree[e], Manual}
    OBVIOUS
  <2>2. source \in Source
    BY <1>1 DEF Safe, Held, TypeOK
  <2>3. ~sync[s].bad /\ sync[s].pc = "importing" /\ Todo(s) = {}
    BY <2>1, <2>2 DEF ConcludeSync, Outcome, Source
  <2>4. \A e \in Directories(s) : sync[s].plan[e] = "none"
    BY <2>3 DEF Todo, Directories
  <2> QED BY <1>1, <2>3, <2>4 DEF Safe, AllDealt, Dealt
<1> QED BY <1>1, SafeHolds, PTL DEF Spec, SuccessIsCurrent

=============================================================================
