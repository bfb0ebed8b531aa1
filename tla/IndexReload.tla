----------------------------- MODULE IndexReload -----------------------------
(***************************************************************************)
(* The retrieval index of one group of assets: instances of the            *)
(* marketplace rebuild it on a schedule under a Redis lock and at their    *)
(* start without it (daily_rebuild.py, main.py), tell all instances by a   *)
(* Redis stream (reload_consumer.py) and swap what they search in          *)
(* (index_manager.py).                                                     *)
(*                                                                         *)
(* Rebuilds, loads of the consumer and the warm start run in threads; a    *)
(* step of theirs ends with what others can see.  Indexes are numbered in  *)
(* the order their directories were named.                                 *)
(***************************************************************************)
EXTENDS Naturals, Sequences, FiniteSets

CONSTANTS
  Instances,
  MaxBuilds,       \* bound: rebuilds ever begun
  MaxVersions,     \* retrieval_index_max_versions
  MaxCrashes       \* bound: restarts of an instance or of Redis

ASSUME IndexReloadAssumption ==
  /\ IsFiniteSet(Instances) /\ MaxBuilds \in Nat
  /\ MaxVersions \in Nat \ {0} /\ MaxCrashes \in Nat

VARIABLES
  builds,      \* rebuilds begun
  dirs,        \* the directories in the object store
  lock,        \* retrieval:rebuild:lock is set
  phase,       \* where the rebuild threads of an instance stand
  building,    \* the index such a thread builds
  group,       \* the consumer group of the instance exists
  inbox,       \* what the consumer has yet to apply
  warm,        \* where the warm start of the instance stands
  target,      \* the index the warm start loads
  served,      \* the index the instance searches in, 0: none
  announced,   \* ghost: the index of the last message
  astray,      \* ghost: instances that lost a message, or loaded what was not announced last
  expired,     \* ghost: times the lock was lost while set
  unlocked,    \* ghost: rebuilds begun without the lock
  crashes

jobVars == <<builds, lock, phase, building, expired, unlocked>>
streamVars == <<group, inbox>>
warmVars == <<warm, target>>
vars == <<jobVars, dirs, streamVars, warmVars, served, announced, astray, crashes>>

Indexes == 1..MaxBuilds
Kinds == {"scheduled", "startup"}

Init ==
  /\ builds = 0 /\ dirs = [x \in Indexes |-> "none"] /\ lock = FALSE
  /\ phase = [i \in Instances |-> [scheduled |-> "idle", startup |-> "due"]]
  /\ building = [i \in Instances |-> [k \in Kinds |-> 0]]
  /\ group = [i \in Instances |-> FALSE] /\ inbox = [i \in Instances |-> <<>>]
  /\ warm = [i \in Instances |-> "list"] /\ target = [i \in Instances |-> 0]
  /\ served = [i \in Instances |-> 0]
  /\ announced = 0 /\ astray = {} /\ expired = 0 /\ unlocked = 0 /\ crashes = 0

Listed == {x \in Indexes : dirs[x] \in {"partial", "complete"}}
Newer(x) == {y \in Listed : y > x}

\* An index deleted meanwhile may have been read before, or lie in the cache of the host.
Loadable(x) == dirs[x] \in {"complete", "deleted"}

-----------------------------------------------------------------------------
(* Rebuilding (rebuild_all, rebuild_one_group). *)

\* Mutant: the rebuild is named for the one after it.
BeginAhead(i, k) ==
  /\ builds < MaxBuilds /\ builds' = builds + 1
  /\ phase' = [phase EXCEPT ![i][k] = "building"]
  /\ building' = [building EXCEPT ![i][k] = builds + 2]
  /\ UNCHANGED <<dirs, expired, streamVars, warmVars, served, announced, astray, crashes>>

Begin(i, k) ==
  /\ builds < MaxBuilds /\ builds' = builds + 1
  /\ phase' = [phase EXCEPT ![i][k] = "building"]
  /\ building' = [building EXCEPT ![i][k] = builds + 1]
  /\ UNCHANGED <<dirs, expired, streamVars, warmVars, served, announced, astray, crashes>>

\* Mutant: the lock is set, but nobody asks whether it was.
ScheduledAnyway(i) ==
  /\ phase[i]["scheduled"] = "idle"
  /\ lock' = TRUE
  /\ Begin(i, "scheduled")
  /\ UNCHANGED unlocked

\* The job of the schedule: without the lock it does nothing.
Scheduled(i) ==
  /\ phase[i]["scheduled"] = "idle" /\ ~lock
  /\ lock' = TRUE
  /\ Begin(i, "scheduled")
  /\ UNCHANGED unlocked

\* The rebuild at start skips the lock.
Startup(i) ==
  /\ phase[i]["startup"] = "due"
  /\ unlocked' = unlocked + 1
  /\ Begin(i, "startup")
  /\ UNCHANGED lock

\* Mutant: the index is announced before it is loaded.
AnnouncedFirst ==
  [building |-> "uploading", uploading |-> "announcing", announcing |-> "loading", loading |-> "idle"]

\* The order of a rebuild.
After ==
  [building |-> "uploading", uploading |-> "loading", loading |-> "announcing", announcing |-> "idle"]

Goes(i, k, to) ==
  /\ phase' = [phase EXCEPT ![i][k] = to]
  /\ building' = IF to = "idle" THEN [building EXCEPT ![i][k] = 0] ELSE building
  /\ UNCHANGED <<builds, unlocked, expired, warmVars, crashes>>

Step(i, k, from) == phase[i][k] = from /\ Goes(i, k, After[from]) /\ UNCHANGED streamVars

\* Release deletes the lock, whoever set it, and may fail to.
Release(k) == IF k = "scheduled" THEN lock' \in {FALSE, lock} ELSE lock' = lock

Upload(i, k) ==
  /\ Step(i, k, "building")
  /\ dirs' = [dirs EXCEPT ![building[i][k]] = "partial"]
  /\ UNCHANGED <<lock, served, announced, astray>>

\* What was uploaded stays.
BuildFails(i, k) ==
  /\ phase[i][k] \in {"building", "uploading"}
  /\ Goes(i, k, "idle") /\ UNCHANGED streamVars
  /\ Release(k)
  /\ UNCHANGED <<dirs, served, announced, astray>>

\* Mutant: the newest directories are taken for the oldest.
UploadedCollectingNewest(i, k) ==
  LET now == Listed \cup {building[i][k]} IN
  /\ Step(i, k, "uploading")
  /\ dirs' = [x \in Indexes |->
       IF x \in now /\ Cardinality({y \in now : y < x}) >= MaxVersions THEN "deleted"
       ELSE IF x = building[i][k] THEN "complete" ELSE dirs[x]]
  /\ UNCHANGED <<lock, served, announced, astray>>

\* _gc_old_indexes keeps the newest directories, complete or not.
Uploaded(i, k) ==
  LET now == Listed \cup {building[i][k]} IN
  /\ Step(i, k, "uploading")
  /\ dirs' = [x \in Indexes |->
       IF x \in now /\ Cardinality({y \in now : y > x}) >= MaxVersions THEN "deleted"
       ELSE IF x = building[i][k] THEN "complete" ELSE dirs[x]]
  /\ UNCHANGED <<lock, served, announced, astray>>

\* IndexManager.load swallows a failure.
Load(i, k) ==
  /\ Step(i, k, "loading")
  /\ \/ Loadable(building[i][k]) /\ served' = [served EXCEPT ![i] = building[i][k]]
     \/ served' = served
  /\ UNCHANGED <<dirs, lock, announced, astray>>

Announce(i, k) ==
  LET x == building[i][k] IN
  /\ phase[i][k] = "announcing"
  /\ Goes(i, k, After["announcing"])
  /\ Release(k)
  /\ \/ /\ inbox' = [j \in Instances |-> IF group[j] THEN Append(inbox[j], x) ELSE inbox[j]]
        /\ announced' = x
        /\ astray' = astray \cup {j \in Instances : ~group[j]}
     \/ /\ UNCHANGED <<inbox, announced>>
        /\ astray' = astray \cup {i}
  /\ UNCHANGED <<dirs, group, served>>

\* The lock lives as long as a rebuild may take: an upper bound nobody enforces.
Expire ==
  /\ lock /\ lock' = FALSE
  /\ expired' = expired + 1
  /\ UNCHANGED <<builds, phase, building, unlocked, dirs, streamVars, warmVars, served, announced, astray,
                 crashes>>

-----------------------------------------------------------------------------
(* Reloading (run_reload_consumer). *)

\* At the start, and again when Redis has lost the stream: what is sent from now on.
CreateGroup(i) ==
  /\ ~group[i] /\ inbox[i] = <<>>
  /\ group' = [group EXCEPT ![i] = TRUE]
  /\ UNCHANGED <<jobVars, dirs, inbox, warmVars, served, announced, astray, crashes>>

\* A message is acknowledged whether or not its index could be loaded.
Apply(i) ==
  /\ inbox[i] # <<>>
  /\ inbox' = [inbox EXCEPT ![i] = Tail(inbox[i])]
  /\ LET x == Head(inbox[i]) IN
     \/ /\ Loadable(x)
        /\ served' = [served EXCEPT ![i] = x]
        /\ astray' = IF x = announced THEN astray \ {i} ELSE astray
     \/ /\ served' = served
        /\ astray' = astray \cup {i}
  /\ UNCHANGED <<jobVars, dirs, group, warmVars, announced, crashes>>

-----------------------------------------------------------------------------
(* The warm start (_warm_start_one_group). *)

\* The newest directory, though its upload may not be complete.
WarmList(i) ==
  /\ warm[i] = "list"
  /\ IF Listed = {}
     THEN /\ warm' = [warm EXCEPT ![i] = "done"] /\ target' = target
          /\ astray' = IF served[i] = announced THEN astray ELSE astray \cup {i}
     ELSE LET x == CHOOSE x \in Listed : Newer(x) = {} IN
          /\ warm' = [warm EXCEPT ![i] = IF dirs[x] = "complete" THEN "whole" ELSE "part"]
          /\ target' = [target EXCEPT ![i] = x]
          /\ astray' = astray
  /\ UNCHANGED <<jobVars, dirs, streamVars, served, announced, crashes>>

\* The load goes on after its timeout, and swaps whatever was loaded meanwhile.
WarmSwap(i) ==
  /\ warm[i] \in {"whole", "part"}
  /\ warm' = [warm EXCEPT ![i] = "done"]
  /\ target' = [target EXCEPT ![i] = 0]
  /\ \/ /\ served' = [served EXCEPT ![i] = target[i]]
        /\ astray' = IF warm[i] = "whole" /\ target[i] = announced THEN astray ELSE astray \cup {i}
     \/ /\ served' = served
        /\ astray' = IF served[i] = announced THEN astray ELSE astray \cup {i}
  /\ UNCHANGED <<jobVars, dirs, streamVars, announced, crashes>>

-----------------------------------------------------------------------------
(* Restarts. *)

\* The new process has another consumer group; the lock stays.
Restart(i) ==
  /\ crashes < MaxCrashes /\ crashes' = crashes + 1
  /\ phase' = [phase EXCEPT ![i] = [scheduled |-> "idle", startup |-> "due"]]
  /\ building' = [building EXCEPT ![i] = [k \in Kinds |-> 0]]
  /\ group' = [group EXCEPT ![i] = FALSE] /\ inbox' = [inbox EXCEPT ![i] = <<>>]
  /\ warm' = [warm EXCEPT ![i] = "list"] /\ target' = [target EXCEPT ![i] = 0]
  /\ served' = [served EXCEPT ![i] = 0] /\ astray' = astray \ {i}
  /\ UNCHANGED <<builds, lock, expired, unlocked, dirs, announced>>

\* Redis comes back empty; a consumer may have one message in hand.
RedisRestart ==
  /\ crashes < MaxCrashes /\ crashes' = crashes + 1
  /\ group' = [i \in Instances |-> FALSE]
  /\ \E busy \in SUBSET {i \in Instances : inbox[i] # <<>>} :
       inbox' = [i \in Instances |-> IF i \in busy THEN <<Head(inbox[i])>> ELSE <<>>]
  /\ astray' = astray \cup {i \in Instances : inbox'[i] # inbox[i]}
  /\ lock' = FALSE /\ expired' = IF lock THEN expired + 1 ELSE expired
  /\ UNCHANGED <<builds, phase, building, unlocked, dirs, warmVars, served, announced>>

-----------------------------------------------------------------------------

Works(i, k) ==
  \/ Upload(i, k) \/ BuildFails(i, k) \/ Uploaded(i, k) \/ Load(i, k) \/ Announce(i, k)
Consumes(i) == CreateGroup(i) \/ Apply(i)
Warms(i) == WarmList(i) \/ WarmSwap(i)

Next ==
  \/ \E i \in Instances :
       \/ Scheduled(i) \/ Startup(i) \/ Consumes(i) \/ Warms(i) \/ Restart(i)
       \/ \E k \in Kinds : Works(i, k)
  \/ Expire \/ RedisRestart

Spec == Init /\ [][Next]_vars

-----------------------------------------------------------------------------

TypeOK ==
  /\ builds \in 0..MaxBuilds /\ lock \in BOOLEAN
  /\ dirs \in [Indexes -> {"none", "partial", "complete", "deleted"}]
  /\ phase \in [Instances -> [Kinds ->
       {"idle", "due", "building", "uploading", "loading", "announcing"}]]
  /\ building \in [Instances -> [Kinds -> 0..MaxBuilds]]
  /\ group \in [Instances -> BOOLEAN] /\ inbox \in [Instances -> Seq(Indexes)]
  /\ warm \in [Instances -> {"list", "whole", "part", "done"}]
  /\ target \in [Instances -> 0..MaxBuilds] /\ served \in [Instances -> 0..MaxBuilds]
  /\ announced \in 0..MaxBuilds /\ astray \subseteq Instances
  /\ expired \in Nat /\ unlocked \in Nat /\ crashes \in 0..MaxCrashes

\* Nothing of the instance can change what it searches in.
Settled(i) ==
  /\ warm[i] = "done" /\ group[i] /\ inbox[i] = <<>>
  /\ \A k \in Kinds : phase[i][k] # "announcing"

\* However rebuilds overlap, an instance that has done its loads searches in the index that was
\* announced last, unless it lost a message, a load failed, or its warm start ended late.
ServesLastAnnounced == \A i \in Instances : Settled(i) => served[i] = announced \/ i \in astray

Scheduling == {i \in Instances : phase[i]["scheduled"] # "idle"}

\* Scheduled rebuilds overlap no more often than the lock was lost, although whoever ends deletes
\* the lock of whoever holds it.
OverlapNeedsExpiry == Cardinality(Scheduling) <= 1 + expired

\* The announced index goes back to an older one only when rebuilds could overlap.
NewestAnnounced == [][announced' < announced => expired > 0 \/ unlocked > 0]_vars

\* The index that instances search in is there for a new instance to start with, unless as many
\* newer directories are as the store keeps.
AnnouncedStored ==
  announced # 0 => dirs[announced] = "complete" \/ Cardinality(Newer(announced)) >= MaxVersions
=============================================================================
