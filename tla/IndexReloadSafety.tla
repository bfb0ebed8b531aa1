------------------------- MODULE IndexReloadSafety -------------------------
(***************************************************************************)
(* What IndexReload guarantees for any numbers of instances, rebuilds and  *)
(* restarts: its types, how often scheduled rebuilds can overlap, in which *)
(* order indexes are announced, and what instances search in.              *)
(***************************************************************************)
EXTENDS IndexReload, FiniteSetTheorems, SequenceTheorems, TLAPS

-----------------------------------------------------------------------------
(* The inductive invariant. *)

Working == {"building", "uploading", "loading", "announcing"}

\* Every rebuild has an index of its own, which is in no message yet.
IndexesOwn ==
  /\ \A i \in Instances, k \in Kinds : phase[i][k] \in Working =>
       /\ building[i][k] \in 1..builds
       /\ building[i][k] # announced
       /\ \A j \in Instances : \A n \in 1..Len(inbox[j]) : inbox[j][n] # building[i][k]
  /\ \A i, j \in Instances, k, l \in Kinds :
       /\ phase[i][k] \in Working /\ phase[j][l] \in Working
       /\ building[i][k] = building[j][l]
       => i = j /\ k = l
  /\ announced <= builds
  /\ \A j \in Instances : \A n \in 1..Len(inbox[j]) : inbox[j][n] <= builds

\* A startup rebuild is over or due, or begins; a scheduled one is never due.
Phased == \A i \in Instances : phase[i]["scheduled"] # "due"

\* While the lock is set it stands for one of the scheduled rebuilds.
LockCounts == Cardinality(Scheduling) <= IF lock THEN expired + 1 ELSE expired

\* Rebuilds that all run under the lock, which was never lost, run one after the other.
Serial == expired = 0 /\ unlocked = 0 =>
  /\ \A i \in Instances : phase[i]["startup"] \notin Working
  /\ \A i \in Scheduling : building[i]["scheduled"] = builds

\* The last message is the last one to apply, and an instance that has everything behind it
\* searches in what was announced.
LastInLine == \A i \in Instances :
  /\ \A n \in 1..Len(inbox[i]) : inbox[i][n] = announced => n = Len(inbox[i])
  /\ i \notin astray =>
       /\ inbox[i] # <<>> => inbox[i][Len(inbox[i])] = announced
       /\ inbox[i] = <<>> /\ warm[i] = "done" /\ (\A k \in Kinds : phase[i][k] # "announcing")
            => served[i] = announced

\* What is announced, or about to be, is stored, unless newer indexes crowd it out.
Stored(x) == dirs[x] = "complete" \/ Cardinality(Newer(x)) >= MaxVersions
AllStored ==
  /\ announced # 0 => Stored(announced)
  /\ \A i \in Instances, k \in Kinds : phase[i][k] \in {"loading", "announcing"} => Stored(building[i][k])

Safe == TypeOK /\ Phased /\ IndexesOwn /\ LockCounts /\ Serial /\ LastInLine /\ AllStored

-----------------------------------------------------------------------------
(* Newest indexes. *)

LEMMA IndexesFinite == Indexes \subseteq Nat /\ IsFiniteSet(Indexes)
<1>1. 1 \in Int /\ MaxBuilds \in Int /\ 1..MaxBuilds \subseteq Nat
  BY IndexReloadAssumption
<1> QED BY <1>1, FS_Interval DEF Indexes

\* Among some indexes one is the newest.
LEMMA NewestOne ==
  ASSUME NEW S \in SUBSET Indexes, S # {}
  PROVE  \E x \in S : \A y \in S : ~(y > x)
<1> DEFINE Above(x) == {y \in S : y > x}
           F == {Above(x) : x \in S}
<1>1. S \subseteq Nat /\ IsFiniteSet(S)
  BY IndexesFinite, FS_Subset
<1>2. IsWellFoundedOn(StrictSubsetOrdering(S), SUBSET S)
  BY <1>1, FS_StrictSubsetOrderingWellFounded, FS_FiniteSubsetsOfFinite
<1>3. F \subseteq SUBSET S /\ F # {}
  OBVIOUS
<1>4. PICK A \in F : \A B \in F : ~(<<B, A>> \in StrictSubsetOrdering(S))
  <2> HIDE DEF F
  <2> QED BY <1>2, <1>3, WFMin
<1>5. PICK x \in S : A = Above(x)
  OBVIOUS
<1>6. ASSUME NEW y \in S, y > x PROVE FALSE
  <2>1. Above(y) \subseteq Above(x) /\ y \in Above(x) /\ y \notin Above(y)
    <3>1. x \in Nat /\ y \in Nat /\ \A z \in S : z \in Nat
      BY <1>1
    <3>2. ~(y > y) /\ \A z \in S : z > y => z > x
      BY <1>6, <3>1
    <3> QED BY <1>6, <3>2
  <2>2. <<Above(y), Above(x)>> \in StrictSubsetOrdering(S)
    BY <2>1 DEF StrictSubsetOrdering
  <2> QED BY <1>4, <1>5, <2>2
<1> QED BY <1>6

-----------------------------------------------------------------------------
(* Types. *)

LEMMA AfterIs ==
  /\ After["building"] = "uploading" /\ After["uploading"] = "loading"
  /\ After["loading"] = "announcing" /\ After["announcing"] = "idle"
BY DEF After

Phases == {"idle", "due"} \cup Working

LEMMA BeginTyped ==
  ASSUME TypeOK, NEW i \in Instances, NEW k \in Kinds, Begin(i, k)
  PROVE  /\ builds' \in 0..MaxBuilds
         /\ phase' \in [Instances -> [Kinds -> Phases]]
         /\ building' \in [Instances -> [Kinds -> 0..MaxBuilds]]
<1>1. builds + 1 \in 0..MaxBuilds
  BY IndexReloadAssumption DEF Begin, TypeOK
<1> QED BY <1>1 DEF Begin, TypeOK, Phases, Working

LEMMA GoesTyped ==
  ASSUME TypeOK, NEW i \in Instances, NEW k \in Kinds, NEW to \in Phases, Goes(i, k, to)
  PROVE  /\ phase' \in [Instances -> [Kinds -> Phases]]
         /\ building' \in [Instances -> [Kinds -> 0..MaxBuilds]]
<1>1. phase \in [Instances -> [Kinds -> Phases]] /\ building \in [Instances -> [Kinds -> 0..MaxBuilds]]
  BY DEF TypeOK, Phases, Working
<1>2. phase' = [phase EXCEPT ![i][k] = to]
  BY DEF Goes
<1>3. CASE building' = building
  BY <1>1, <1>2, <1>3
<1>4. CASE building' = [building EXCEPT ![i][k] = 0]
  <2>1. 0 \in 0..MaxBuilds
    BY IndexReloadAssumption
  <2> QED BY <1>1, <1>2, <1>4, <2>1
<1> QED BY <1>3, <1>4 DEF Goes

\* Of the tables, a rebuild in progress only changes these.
LEMMA RebuildTyped ==
  ASSUME TypeOK, NEW i \in Instances, NEW k \in Kinds, NEW to \in Phases, Goes(i, k, to),
         lock' \in BOOLEAN, dirs' \in [Indexes -> {"none", "partial", "complete", "deleted"}],
         group' = group, inbox' \in [Instances -> Seq(Indexes)],
         served' \in [Instances -> 0..MaxBuilds],
         announced' \in 0..MaxBuilds, astray' \subseteq Instances
  PROVE  TypeOK'
<1>1. phase' \in [Instances -> [Kinds -> Phases]] /\ building' \in [Instances -> [Kinds -> 0..MaxBuilds]]
  BY GoesTyped
<1>2. UNCHANGED <<builds, unlocked, expired, warm, target, crashes>>
  BY DEF Goes, warmVars
<1> QED BY <1>1, <1>2 DEF TypeOK, Phases, Working

LEMMA WorksTyped ==
  ASSUME TypeOK, IndexesOwn, NEW i \in Instances, NEW k \in Kinds, Works(i, k)
  PROVE  TypeOK'
<1>1. phase[i][k] \in Working => building[i][k] \in Indexes /\ building[i][k] \in 0..MaxBuilds
  BY IndexReloadAssumption DEF TypeOK, IndexesOwn, Indexes
<1>2. {"idle", "uploading", "loading", "announcing"} \subseteq Phases
  BY DEF Phases, Working
<1>3. CASE Upload(i, k)
  <2>1. Goes(i, k, "uploading")
    BY <1>3, AfterIs DEF Upload, Step
  <2>2. dirs' \in [Indexes -> {"none", "partial", "complete", "deleted"}]
    BY <1>3 DEF Upload, TypeOK
  <2>3. UNCHANGED <<lock, group, inbox, served, announced, astray>>
    BY <1>3 DEF Upload, Step, streamVars
  <2>4. lock' \in BOOLEAN /\ inbox' \in [Instances -> Seq(Indexes)] /\ astray' \subseteq Instances
        /\ served' \in [Instances -> 0..MaxBuilds] /\ announced' \in 0..MaxBuilds
    BY <2>3 DEF TypeOK
  <2> QED BY <1>2, <2>1, <2>2, <2>3, <2>4, RebuildTyped
<1>4. CASE BuildFails(i, k)
  <2>1. Goes(i, k, "idle")
    BY <1>4 DEF BuildFails
  <2>2. UNCHANGED <<dirs, group, inbox, served, announced, astray>> /\ lock' \in BOOLEAN
    BY <1>4 DEF BuildFails, streamVars, Release, TypeOK
  <2>3. /\ dirs' \in [Indexes -> {"none", "partial", "complete", "deleted"}]
        /\ inbox' \in [Instances -> Seq(Indexes)] /\ astray' \subseteq Instances
        /\ served' \in [Instances -> 0..MaxBuilds] /\ announced' \in 0..MaxBuilds
    BY <2>2 DEF TypeOK
  <2> QED BY <1>2, <2>1, <2>2, <2>3, RebuildTyped
<1>5. CASE Uploaded(i, k)
  <2>1. Goes(i, k, "loading")
    BY <1>5, AfterIs DEF Uploaded, Step
  <2>2. dirs' \in [Indexes -> {"none", "partial", "complete", "deleted"}]
    BY <1>5 DEF Uploaded, TypeOK
  <2>3. UNCHANGED <<lock, group, inbox, served, announced, astray>>
    BY <1>5 DEF Uploaded, Step, streamVars
  <2>4. lock' \in BOOLEAN /\ inbox' \in [Instances -> Seq(Indexes)] /\ astray' \subseteq Instances
        /\ served' \in [Instances -> 0..MaxBuilds] /\ announced' \in 0..MaxBuilds
    BY <2>3 DEF TypeOK
  <2> QED BY <1>2, <2>1, <2>2, <2>3, <2>4, RebuildTyped
<1>6. CASE Load(i, k)
  <2>1. Goes(i, k, "announcing")
    BY <1>6, AfterIs DEF Load, Step
  <2>2. phase[i][k] \in Working
    BY <1>6 DEF Load, Step, Working
  <2>3. served' \in [Instances -> 0..MaxBuilds]
    BY <1>1, <1>6, <2>2 DEF Load, TypeOK
  <2>4. UNCHANGED <<lock, dirs, group, inbox, announced, astray>>
    BY <1>6 DEF Load, Step, streamVars
  <2>5. /\ dirs' \in [Indexes -> {"none", "partial", "complete", "deleted"}]
        /\ lock' \in BOOLEAN /\ inbox' \in [Instances -> Seq(Indexes)] /\ astray' \subseteq Instances
        /\ announced' \in 0..MaxBuilds
    BY <2>4 DEF TypeOK
  <2> QED BY <1>2, <2>1, <2>3, <2>4, <2>5, RebuildTyped
<1>7. CASE Announce(i, k)
  <2>1. Goes(i, k, "idle")
    BY <1>7, AfterIs DEF Announce
  <2>2. building[i][k] \in Indexes /\ building[i][k] \in 0..MaxBuilds
    BY <1>1, <1>7 DEF Announce, Working
  <2>6. inbox' \in [Instances -> Seq(Indexes)]
    <3>1. CASE inbox' = inbox
      BY <3>1 DEF TypeOK
    <3>2. CASE inbox' = [j \in Instances |-> IF group[j] THEN Append(inbox[j], building[i][k]) ELSE inbox[j]]
      BY <2>2, <3>2 DEF TypeOK
    <3> QED BY <1>7, <3>1, <3>2 DEF Announce
  <2>3. announced' \in 0..MaxBuilds /\ astray' \subseteq Instances
    BY <1>7, <2>2 DEF Announce, TypeOK
  <2>4. UNCHANGED <<dirs, group, served>> /\ lock' \in BOOLEAN
    BY <1>7 DEF Announce, Release, TypeOK
  <2>5. /\ dirs' \in [Indexes -> {"none", "partial", "complete", "deleted"}]
        /\ served' \in [Instances -> 0..MaxBuilds]
    BY <2>4 DEF TypeOK
  <2> QED BY <1>2, <2>1, <2>3, <2>4, <2>5, <2>6, RebuildTyped
<1> QED BY <1>3, <1>4, <1>5, <1>6, <1>7 DEF Works

LEMMA ConsumesTyped ==
  ASSUME TypeOK, NEW i \in Instances, Consumes(i)
  PROVE  TypeOK'
<1> USE DEF TypeOK, jobVars, warmVars
<1>1. CASE CreateGroup(i)
  BY <1>1 DEF CreateGroup
<1>2. CASE Apply(i)
  <2>1. inbox[i] \in Seq(Indexes) /\ inbox[i] # <<>>
    BY <1>2 DEF Apply
  <2>2. Head(inbox[i]) \in Indexes /\ Tail(inbox[i]) \in Seq(Indexes)
    BY <2>1
  <2>3. Head(inbox[i]) \in 0..MaxBuilds
    BY <2>2, IndexReloadAssumption DEF Indexes
  <2>4. inbox' \in [Instances -> Seq(Indexes)]
    BY <1>2, <2>2 DEF Apply
  <2>5. served' \in [Instances -> 0..MaxBuilds]
    BY <1>2, <2>3 DEF Apply
  <2>6. astray' \subseteq Instances
    BY <1>2 DEF Apply
  <2> QED BY <1>2, <2>4, <2>5, <2>6 DEF Apply
<1> QED BY <1>1, <1>2 DEF Consumes

LEMMA WarmsTyped ==
  ASSUME TypeOK, NEW i \in Instances, Warms(i)
  PROVE  TypeOK'
<1> USE DEF TypeOK, jobVars, streamVars
<1>1. CASE WarmList(i)
  <2>1. warm' \in [Instances -> {"list", "whole", "part", "done"}]
    BY <1>1 DEF WarmList
  <2>4. astray' \subseteq Instances
    BY <1>1 DEF WarmList
  <2>2. CASE Listed = {}
    BY <1>1, <2>1, <2>2, <2>4 DEF WarmList
  <2>3. CASE Listed # {}
    <3> DEFINE x == CHOOSE x \in Listed : Newer(x) = {}
    <3>1. PICK y \in Listed : Newer(y) = {}
      BY <2>3, NewestOne DEF Listed, Newer
    <3>2. x \in Listed
      BY <3>1
    <3>3. x \in 0..MaxBuilds
      BY <3>2, IndexReloadAssumption DEF Listed, Indexes
    <3>4. target' = [target EXCEPT ![i] = x]
      BY <1>1, <2>3 DEF WarmList
    <3> HIDE DEF x
    <3> QED BY <1>1, <2>1, <2>4, <3>3, <3>4 DEF WarmList
  <2> QED BY <2>2, <2>3
<1>2. CASE WarmSwap(i)
  <2>1. warm' \in [Instances -> {"list", "whole", "part", "done"}]
    BY <1>2 DEF WarmSwap
  <2>2. target' \in [Instances -> 0..MaxBuilds]
    BY <1>2, IndexReloadAssumption DEF WarmSwap
  <2>3. served' \in [Instances -> 0..MaxBuilds]
    BY <1>2 DEF WarmSwap
  <2>4. astray' \subseteq Instances
    BY <1>2 DEF WarmSwap
  <2> QED BY <1>2, <2>1, <2>2, <2>3, <2>4 DEF WarmSwap
<1> QED BY <1>1, <1>2 DEF Warms

LEMMA RestartTyped ==
  ASSUME TypeOK, NEW i \in Instances, Restart(i)
  PROVE  TypeOK'
<1>1. [scheduled |-> "idle", startup |-> "due"] \in [Kinds -> Phases]
  BY DEF Kinds, Phases
<1>2. phase' \in [Instances -> [Kinds -> Phases]]
  BY <1>1 DEF TypeOK, Restart, Phases, Working
<1>3. 0 \in 0..MaxBuilds /\ <<>> \in Seq(Indexes)
  BY IndexReloadAssumption
<1>4. building' \in [Instances -> [Kinds -> 0..MaxBuilds]]
  BY <1>3 DEF TypeOK, Restart
<1> QED BY <1>2, <1>3, <1>4, IndexReloadAssumption DEF TypeOK, Restart, Phases, Working

LEMMA RedisRestartTyped ==
  ASSUME TypeOK, RedisRestart
  PROVE  TypeOK'
<1> USE DEF TypeOK, RedisRestart, warmVars
<1>1. PICK busy \in SUBSET {i \in Instances : inbox[i] # <<>>} :
        inbox' = [i \in Instances |-> IF i \in busy THEN <<Head(inbox[i])>> ELSE <<>>]
  OBVIOUS
<1>2. ASSUME NEW i \in Instances PROVE inbox'[i] \in Seq(Indexes)
  <2>1. CASE i \in busy
    <3>1. Head(inbox[i]) \in Indexes
      BY <2>1
    <3> QED BY <1>1, <2>1, <3>1
  <2> QED BY <1>1, <2>1
<1>3. inbox' \in [Instances -> Seq(Indexes)]
  BY <1>1, <1>2
<1>4. crashes' \in 0..MaxCrashes /\ expired' \in Nat
  BY IndexReloadAssumption
<1> QED BY <1>3, <1>4

LEMMA TypeStep ==
  ASSUME TypeOK, IndexesOwn, [Next]_vars
  PROVE  TypeOK'
<1>1. ASSUME NEW i \in Instances, Scheduled(i) \/ Startup(i)
      PROVE  TypeOK'
  <2>1. PICK k \in Kinds : Begin(i, k)
    BY <1>1 DEF Scheduled, Startup, Kinds
  <2>2. lock' \in BOOLEAN /\ unlocked' \in Nat
    <3>1. CASE Scheduled(i)
      BY <3>1 DEF Scheduled, TypeOK
    <3>2. CASE Startup(i)
      BY <3>2 DEF Startup, TypeOK
    <3> QED BY <1>1, <3>1, <3>2
  <2>3. /\ builds' \in 0..MaxBuilds /\ phase' \in [Instances -> [Kinds -> Phases]]
        /\ building' \in [Instances -> [Kinds -> 0..MaxBuilds]]
    BY <2>1, BeginTyped
  <2> QED BY <2>1, <2>2, <2>3 DEF Begin, TypeOK, streamVars, warmVars, Phases, Working
<1>2. CASE Expire
  <2>1. expired' \in Nat
    BY <1>2 DEF Expire, TypeOK
  <2>2. lock' \in BOOLEAN
    BY <1>2 DEF Expire
  <2> QED BY <1>2, <2>1, <2>2 DEF Expire, TypeOK, streamVars, warmVars
<1>3. CASE UNCHANGED vars
  BY <1>3 DEF vars, jobVars, streamVars, warmVars, TypeOK
<1> QED BY <1>1, <1>2, <1>3, WorksTyped, ConsumesTyped, WarmsTyped, RestartTyped, RedisRestartTyped DEF Next

-----------------------------------------------------------------------------
(* Messages. *)

LEMMA Appended ==
  ASSUME NEW s \in Seq(Indexes), NEW x \in Indexes
  PROVE  /\ Len(Append(s, x)) = Len(s) + 1 /\ Append(s, x)[Len(s) + 1] = x /\ Len(s) \in Nat
         /\ \A n \in 1..Len(s) : Append(s, x)[n] = s[n]
         /\ Append(s, x) # <<>>
OBVIOUS

LEMMA Tailed ==
  ASSUME NEW s \in Seq(Indexes), s # <<>>
  PROVE  /\ Len(s) \in Nat \ {0} /\ Len(Tail(s)) = Len(s) - 1 /\ Head(s) = s[1]
         /\ \A n \in 1..Len(s) - 1 : Tail(s)[n] = s[n + 1]
         /\ Tail(s) = <<>> <=> Len(s) = 1
         /\ Len(<<Head(s)>>) = 1 /\ <<Head(s)>>[1] = Head(s)
<1>1. /\ Len(s) \in Nat \ {0} /\ Tail(s) \in Seq(Indexes) /\ Len(Tail(s)) = Len(s) - 1 /\ Head(s) = s[1]
      /\ \A n \in 1..Len(s) - 1 : Tail(s)[n] = s[n + 1]
  OBVIOUS
<1>2. Tail(s) = <<>> <=> Len(Tail(s)) = 0
  BY <1>1, EmptySeq
<1>3. Len(<<Head(s)>>) = 1 /\ <<Head(s)>>[1] = Head(s)
  OBVIOUS
<1>4. Len(Tail(s)) = 0 <=> Len(s) = 1
  BY <1>1
<1> QED BY <1>1, <1>2, <1>3, <1>4

\* Nothing below changes what rebuilds own.
LEMMA OwnUnchanged ==
  ASSUME IndexesOwn, UNCHANGED <<builds, phase, building, inbox, announced>>
  PROVE  IndexesOwn'
BY DEF IndexesOwn

LEMMA BeginOwns ==
  ASSUME TypeOK, IndexesOwn, NEW i \in Instances, NEW k \in Kinds, Begin(i, k)
  PROVE  IndexesOwn'
<1>1. /\ builds' = builds + 1 /\ phase' = [phase EXCEPT ![i][k] = "building"]
      /\ building' = [building EXCEPT ![i][k] = builds + 1]
      /\ UNCHANGED <<inbox, announced>>
  BY DEF Begin, streamVars
<1>2. builds \in Nat /\ announced \in Nat /\ \A j \in Instances, l \in Kinds : building[j][l] \in Nat
  BY IndexReloadAssumption DEF TypeOK
<1>3. \A j \in Instances, l \in Kinds :
        /\ <<j, l>> # <<i, k>> => phase'[j][l] = phase[j][l] /\ building'[j][l] = building[j][l]
        /\ <<j, l>> = <<i, k>> => building'[j][l] = builds + 1
  BY <1>1 DEF TypeOK
<1>4. ASSUME NEW j \in Instances, NEW n \in 1..Len(inbox[j])
      PROVE  inbox[j][n] \in Nat /\ inbox[j][n] <= builds
  <2>1. inbox[j] \in Seq(Indexes)
    BY DEF TypeOK
  <2>2. inbox[j][n] \in Indexes
    BY <1>4, <2>1
  <2> QED BY <1>4, <2>2, IndexesFinite DEF IndexesOwn
<1>5. ASSUME NEW j \in Instances, NEW l \in Kinds, phase'[j][l] \in Working
      PROVE  /\ building'[j][l] \in 1..builds' /\ building'[j][l] # announced'
             /\ \A h \in Instances : \A n \in 1..Len(inbox'[h]) : inbox'[h][n] # building'[j][l]
  <2>1. CASE <<j, l>> = <<i, k>>
    <3>1. announced < builds + 1
      BY <1>2 DEF IndexesOwn
    <3>2. \A h \in Instances : \A n \in 1..Len(inbox[h]) : inbox[h][n] < builds + 1
      BY <1>2, <1>4
    <3>3. building'[j][l] = builds + 1
      BY <1>3, <2>1
    <3> QED BY <1>1, <1>2, <1>4, <3>1, <3>2, <3>3
  <2>2. CASE <<j, l>> # <<i, k>>
    BY <1>1, <1>2, <1>3, <1>5, <2>2 DEF IndexesOwn
  <2> QED BY <2>1, <2>2
<1>6. ASSUME NEW j \in Instances, NEW l \in Kinds, NEW h \in Instances, NEW m \in Kinds,
             phase'[j][l] \in Working, phase'[h][m] \in Working, building'[j][l] = building'[h][m]
      PROVE  j = h /\ l = m
  <2>1. ASSUME NEW a \in Instances, NEW c \in Kinds, <<a, c>> # <<i, k>>, phase'[a][c] \in Working
        PROVE  building'[a][c] # builds + 1
    BY <1>2, <1>3, <2>1 DEF IndexesOwn
  <2> QED BY <1>3, <1>6, <2>1 DEF IndexesOwn
<1>7. announced' <= builds' /\ \A j \in Instances : \A n \in 1..Len(inbox'[j]) : inbox'[j][n] <= builds'
  BY <1>1, <1>2, <1>4 DEF IndexesOwn
<1> QED BY <1>5, <1>6, <1>7 DEF IndexesOwn

\* A rebuild that goes on keeps its index; one that ends has none.
LEMMA GoesOwns ==
  ASSUME TypeOK, IndexesOwn, NEW i \in Instances, NEW k \in Kinds, NEW to,
         phase[i][k] \in Working, Goes(i, k, to), UNCHANGED <<inbox, announced>>
  PROVE  IndexesOwn'
<1>1. phase' = [phase EXCEPT ![i][k] = to] /\ builds' = builds
  BY DEF Goes
<1>2. \A j \in Instances, l \in Kinds : phase'[j][l] \in Working =>
        phase[j][l] \in Working /\ building'[j][l] = building[j][l]
  BY <1>1 DEF Goes, TypeOK, Working
<1> QED BY <1>1, <1>2 DEF IndexesOwn

LEMMA AnnounceOwns ==
  ASSUME TypeOK, IndexesOwn, NEW i \in Instances, NEW k \in Kinds, Announce(i, k)
  PROVE  IndexesOwn'
<1> DEFINE x == building[i][k]
<1>1. phase[i][k] \in Working /\ Goes(i, k, "idle")
  BY AfterIs DEF Announce, Working
<1>2. CASE UNCHANGED <<inbox, announced>>
  BY <1>1, <1>2, GoesOwns
<1>3. CASE /\ inbox' = [j \in Instances |-> IF group[j] THEN Append(inbox[j], x) ELSE inbox[j]]
           /\ announced' = x
  <2>1. x \in Indexes /\ x <= builds /\ builds' = builds
    BY <1>1, IndexReloadAssumption DEF IndexesOwn, Goes, TypeOK, Indexes
  <2>2. \A j \in Instances, l \in Kinds : phase'[j][l] \in Working =>
          phase[j][l] \in Working /\ building'[j][l] = building[j][l] /\ <<j, l>> # <<i, k>>
    BY <1>1 DEF Goes, TypeOK, Working
  <2>3. \A j \in Instances : \A n \in 1..Len(inbox'[j]) :
          inbox'[j][n] = x \/ (n \in 1..Len(inbox[j]) /\ inbox'[j][n] = inbox[j][n])
    <3> HIDE DEF x
    <3> SUFFICES ASSUME NEW j \in Instances, NEW n \in 1..Len(inbox'[j])
                 PROVE  inbox'[j][n] = x \/ (n \in 1..Len(inbox[j]) /\ inbox'[j][n] = inbox[j][n])
      OBVIOUS
    <3>1. inbox[j] \in Seq(Indexes)
      BY DEF TypeOK
    <3>2. CASE group[j]
      <4>1. inbox'[j] = Append(inbox[j], x)
        BY <1>3, <3>2
      <4> QED BY <2>1, <3>1, <4>1, Appended
    <3>3. CASE ~group[j]
      BY <1>3, <3>3
    <3> QED BY <3>2, <3>3
  <2>4. \A j \in Instances, l \in Kinds : phase'[j][l] \in Working => building[j][l] # x
    BY <1>1, <2>2 DEF IndexesOwn
  <2> QED BY <1>3, <2>1, <2>2, <2>3, <2>4 DEF IndexesOwn
<1> QED BY <1>2, <1>3 DEF Announce

\* What is left of the messages was there before.
LEMMA FewerMessages ==
  ASSUME TypeOK, IndexesOwn, UNCHANGED <<builds, announced>>,
         \A j \in Instances, l \in Kinds : phase'[j][l] \in Working =>
           phase[j][l] \in Working /\ building'[j][l] = building[j][l],
         \A j \in Instances : inbox'[j] \in {inbox[j], <<>>, Tail(inbox[j]), <<Head(inbox[j])>>}
                              /\ (inbox'[j] \in {inbox[j], <<>>} \/ inbox[j] # <<>>)
  PROVE  IndexesOwn'
<1>1. ASSUME NEW j \in Instances, NEW n \in 1..Len(inbox'[j])
      PROVE  \E m \in 1..Len(inbox[j]) : inbox'[j][n] = inbox[j][m]
  <2>1. inbox[j] \in Seq(Indexes)
    BY DEF TypeOK
  <2>2. CASE inbox'[j] = inbox[j] \/ inbox'[j] = <<>>
    BY <1>1, <2>2
  <2>3. CASE inbox'[j] = Tail(inbox[j]) /\ inbox[j] # <<>>
    <3>1. n + 1 \in 1..Len(inbox[j]) /\ inbox'[j][n] = inbox[j][n + 1]
      BY <1>1, <2>1, <2>3, Tailed
    <3> QED BY <3>1
  <2>4. CASE inbox'[j] = <<Head(inbox[j])>> /\ inbox[j] # <<>>
    <3>1. n = 1 /\ 1 \in 1..Len(inbox[j]) /\ inbox'[j][n] = inbox[j][1]
      BY <1>1, <2>1, <2>4, Tailed
    <3> QED BY <3>1
  <2> QED BY <2>2, <2>3, <2>4
<1> QED BY <1>1 DEF IndexesOwn

LEMMA OwnStep ==
  ASSUME TypeOK, IndexesOwn, [Next]_vars
  PROVE  IndexesOwn'
<1>1. CASE UNCHANGED vars
  BY <1>1, OwnUnchanged DEF vars, jobVars, streamVars
<1>2. ASSUME NEW i \in Instances, Scheduled(i) \/ Startup(i)
      PROVE  IndexesOwn'
  BY <1>2, BeginOwns DEF Scheduled, Startup, Kinds
<1>3. ASSUME NEW i \in Instances, NEW k \in Kinds, Works(i, k)
      PROVE  IndexesOwn'
  <2>1. CASE Announce(i, k)
    BY <2>1, AnnounceOwns
  <2>2. CASE ~Announce(i, k)
    <3>1. phase[i][k] \in Working /\ UNCHANGED <<inbox, announced>> /\ \E to : Goes(i, k, to)
      BY <1>3, <2>2 DEF Works, Upload, BuildFails, Uploaded, Load, Step, streamVars, Working
    <3> QED BY <3>1, GoesOwns
  <2> QED BY <2>1, <2>2
<1>4. ASSUME NEW i \in Instances, Apply(i)
      PROVE  IndexesOwn'
  BY <1>4, FewerMessages DEF Apply, jobVars, TypeOK
<1>5. ASSUME NEW i \in Instances, CreateGroup(i) \/ Warms(i)
      PROVE  IndexesOwn'
  BY <1>5, OwnUnchanged DEF CreateGroup, Warms, WarmList, WarmSwap, jobVars, streamVars
<1>6. CASE Expire
  BY <1>6, OwnUnchanged DEF Expire, streamVars
<1>7. ASSUME NEW i \in Instances, Restart(i)
      PROVE  IndexesOwn'
  <2>1. \A l \in Kinds : phase'[i][l] \notin Working
    BY <1>7 DEF Restart, Kinds, Working, TypeOK
  <2>2. \A j \in Instances, l \in Kinds : phase'[j][l] \in Working =>
           phase[j][l] \in Working /\ building'[j][l] = building[j][l]
    BY <1>7, <2>1 DEF Restart, TypeOK
  <2>3. \A j \in Instances : inbox'[j] \in {inbox[j], <<>>}
    BY <1>7 DEF Restart, TypeOK
  <2> QED BY <1>7, <2>2, <2>3, FewerMessages DEF Restart
<1>8. CASE RedisRestart
  BY <1>8, FewerMessages DEF RedisRestart
<1> QED BY <1>1, <1>2, <1>3, <1>4, <1>5, <1>6, <1>7, <1>8 DEF Next, Consumes

-----------------------------------------------------------------------------
(* Phases. *)

LEMMA PhasedStep ==
  ASSUME TypeOK, Phased, [Next]_vars
  PROVE  Phased'
<1> USE DEF TypeOK, Phased, Kinds
<1>1. CASE phase' = phase
  BY <1>1
<1>2. ASSUME NEW i \in Instances, Scheduled(i) \/ Startup(i)
      PROVE  Phased'
  <2>1. \E k \in Kinds : phase' = [phase EXCEPT ![i][k] = "building"]
    BY <1>2 DEF Scheduled, Startup, Begin
  <2> QED BY <2>1
<1>3. ASSUME NEW i \in Instances, NEW k \in Kinds, Works(i, k)
      PROVE  Phased'
  <2>1. \E to : to # "due" /\ phase' = [phase EXCEPT ![i][k] = to]
    BY <1>3, AfterIs DEF Works, Upload, BuildFails, Uploaded, Load, Announce, Step, Goes
  <2> QED BY <2>1
<1>4. ASSUME NEW i \in Instances, Restart(i)
      PROVE  Phased'
  BY <1>4 DEF Restart
<1> QED BY <1>1, <1>2, <1>3, <1>4 DEF Next, vars, jobVars, Consumes, CreateGroup, Apply, Warms, WarmList,
                                     WarmSwap, Expire, RedisRestart

-----------------------------------------------------------------------------
(* The lock. *)

LEMMA InstancesCounted ==
  /\ \A S \in SUBSET Instances : IsFiniteSet(S) /\ Cardinality(S) \in Nat
  /\ \A S \in SUBSET Instances : \A T \in SUBSET S : Cardinality(T) <= Cardinality(S)
BY IndexReloadAssumption, FS_CardinalityType, FS_Subset

\* No rebuild was scheduled, and the lock was lost or kept.
LEMMA FewerScheduled ==
  ASSUME TypeOK, TypeOK', LockCounts, Scheduling' \subseteq Scheduling,
         \/ lock' = lock /\ expired' = expired
         \/ expired' = IF lock THEN expired + 1 ELSE expired
  PROVE  LockCounts'
<1>1. Scheduling \in SUBSET Instances /\ Scheduling' \in SUBSET Scheduling
  BY DEF Scheduling
<1>2. /\ Cardinality(Scheduling') <= Cardinality(Scheduling)
      /\ Cardinality(Scheduling) \in Nat /\ Cardinality(Scheduling') \in Nat
  BY <1>1, InstancesCounted
<1>3. expired \in Nat /\ expired' \in Nat
  BY DEF TypeOK
<1>4. CASE lock' = lock /\ expired' = expired
  BY <1>2, <1>3, <1>4 DEF LockCounts
<1>5. CASE expired' = IF lock THEN expired + 1 ELSE expired
  BY <1>2, <1>3, <1>5 DEF LockCounts
<1> QED BY <1>4, <1>5

\* A scheduled rebuild that ends may take the lock with it.
LEMMA OneEnds ==
  ASSUME TypeOK, TypeOK', LockCounts, NEW i \in Scheduling, Scheduling' = Scheduling \ {i},
         lock' = FALSE \/ lock' = lock, expired' = expired
  PROVE  LockCounts'
<1>1. Scheduling \in SUBSET Instances
  BY DEF Scheduling
<1>2. IsFiniteSet(Scheduling) /\ Cardinality(Scheduling) \in Nat
  BY <1>1, InstancesCounted
<1>3. Cardinality(Scheduling') = Cardinality(Scheduling) - 1
  BY <1>2, FS_RemoveElement
<1>4. expired \in Nat
  BY DEF TypeOK
<1> QED BY <1>2, <1>3, <1>4 DEF LockCounts

LEMMA LockStep ==
  ASSUME TypeOK, TypeOK', Phased, LockCounts, [Next]_vars
  PROVE  LockCounts'
<1>1. CASE UNCHANGED <<phase, lock, expired>>
  BY <1>1 DEF LockCounts, Scheduling
<1>2. ASSUME NEW i \in Instances, Scheduled(i)
      PROVE  LockCounts'
  <2>1. Scheduling \in SUBSET Instances /\ Scheduling' = Scheduling \cup {i}
    BY <1>2 DEF Scheduled, Begin, Scheduling, TypeOK, Kinds
  <2>2. IsFiniteSet(Scheduling) /\ Cardinality(Scheduling) \in Nat
    BY <2>1, InstancesCounted
  <2>3. Cardinality(Scheduling') <= Cardinality(Scheduling) + 1
    BY <2>1, <2>2, FS_AddElement
  <2>4. Cardinality(Scheduling') \in Nat
    BY <2>1, <2>2, FS_AddElement, FS_CardinalityType
  <2>5. ~lock /\ lock' /\ expired' = expired /\ expired \in Nat
    BY <1>2 DEF Scheduled, Begin, TypeOK
  <2> QED BY <2>2, <2>3, <2>4, <2>5 DEF LockCounts
<1>3. ASSUME NEW i \in Instances, Startup(i)
      PROVE  LockCounts'
  <2>1. Scheduling' \subseteq Scheduling
    BY <1>3 DEF Startup, Begin, Scheduling, TypeOK, Kinds
  <2> QED BY <1>3, <2>1, FewerScheduled DEF Startup, Begin
<1>4. ASSUME NEW i \in Instances, NEW k \in Kinds, Works(i, k)
      PROVE  LockCounts'
  <2>1. PICK to \in Phases : Goes(i, k, to)
    BY <1>4, AfterIs DEF Works, Upload, BuildFails, Uploaded, Load, Announce, Step, Phases, Working
  <2>2. phase[i][k] \in Working /\ phase' = [phase EXCEPT ![i][k] = to] /\ expired' = expired
    BY <1>4, <2>1 DEF Works, Upload, BuildFails, Uploaded, Load, Announce, Step, Goes, Working
  <2>3. Scheduling' \subseteq Scheduling
    BY <2>2 DEF Scheduling, Working, TypeOK
  <2>4. CASE lock' = lock
    BY <2>2, <2>3, <2>4, FewerScheduled
  <2>5. CASE lock' # lock
    <3>1. k = "scheduled" /\ lock' = FALSE /\ phase' = [phase EXCEPT ![i][k] = "idle"]
      BY <1>4, <2>5, AfterIs DEF Works, Upload, BuildFails, Uploaded, Load, Announce, Release, Goes
    <3>2. i \in Scheduling /\ Scheduling' = Scheduling \ {i}
      BY <2>2, <3>1 DEF Scheduling, Working, TypeOK
    <3> QED BY <2>2, <3>1, <3>2, OneEnds
  <2> QED BY <2>4, <2>5
<1>5. CASE Expire \/ RedisRestart
  <2>1. Scheduling' = Scheduling
    BY <1>5 DEF Expire, RedisRestart, Scheduling
  <2>2. expired' = IF lock THEN expired + 1 ELSE expired
    BY <1>5 DEF Expire, RedisRestart
  <2> QED BY <2>1, <2>2, FewerScheduled
<1>6. ASSUME NEW i \in Instances, Restart(i)
      PROVE  LockCounts'
  <2>1. Scheduling' \subseteq Scheduling
    BY <1>6 DEF Restart, Scheduling, TypeOK
  <2> QED BY <1>6, <2>1, FewerScheduled DEF Restart
<1> QED BY <1>1, <1>2, <1>3, <1>4, <1>5, <1>6
    DEF Next, vars, jobVars, Consumes, CreateGroup, Apply, Warms, WarmList, WarmSwap

-----------------------------------------------------------------------------
(* The order of announcements. *)

LEMMA OnlyMore ==
  ASSUME TypeOK, [Next]_vars
  PROVE  expired <= expired' /\ unlocked <= unlocked'
<1>1. expired \in Nat /\ unlocked \in Nat
  BY DEF TypeOK
<1>2. CASE expired' = expired /\ unlocked' = unlocked
  BY <1>1, <1>2
<1>3. CASE \E i \in Instances : Startup(i)
  BY <1>1, <1>3 DEF Startup, Begin
<1>4. CASE Expire \/ RedisRestart
  BY <1>1, <1>4 DEF Expire, RedisRestart
<1>5. CASE \E i \in Instances, k \in Kinds : Works(i, k)
  BY <1>2, <1>5 DEF Works, Upload, BuildFails, Uploaded, Load, Announce, Step, Goes
<1> QED BY <1>2, <1>3, <1>4, <1>5
    DEF Next, vars, jobVars, Consumes, CreateGroup, Apply, Warms, WarmList, WarmSwap, Restart, Scheduled, Begin

LEMMA SerialStep ==
  ASSUME TypeOK, TypeOK', Phased, LockCounts, Serial, [Next]_vars
  PROVE  Serial'
<1>1. SUFFICES ASSUME expired' = 0, unlocked' = 0
               PROVE  /\ \A i \in Instances : phase'[i]["startup"] \notin Working
                      /\ \A i \in Scheduling' : building'[i]["scheduled"] = builds'
  BY DEF Serial
<1>2. expired = 0 /\ unlocked = 0
  BY <1>1, OnlyMore DEF TypeOK
<1>3. /\ \A i \in Instances : phase[i]["startup"] \notin Working
      /\ \A i \in Scheduling : building[i]["scheduled"] = builds
  BY <1>2 DEF Serial
<1> USE DEF TypeOK, Kinds
<1>4. CASE UNCHANGED <<phase, building, builds>>
  BY <1>3, <1>4 DEF Scheduling
<1>5. ASSUME NEW i \in Instances, Scheduled(i)
      PROVE  /\ \A j \in Instances : phase'[j]["startup"] \notin Working
             /\ \A j \in Scheduling' : building'[j]["scheduled"] = builds'
  <2>1. Scheduling \in SUBSET Instances /\ ~lock
    BY <1>5 DEF Scheduling, Scheduled
  <2>6. Cardinality(Scheduling) <= expired
    BY <2>1 DEF LockCounts
  <2>2. Cardinality(Scheduling) = 0
    <3>1. Cardinality(Scheduling) \in Nat
      BY <2>1, InstancesCounted
    <3> QED BY <1>2, <2>6, <3>1
  <2>3. Scheduling = {}
    BY <2>1, <2>2, InstancesCounted, FS_EmptySet
  <2>4. /\ phase' = [phase EXCEPT ![i]["scheduled"] = "building"]
        /\ building' = [building EXCEPT ![i]["scheduled"] = builds + 1] /\ builds' = builds + 1
    BY <1>5 DEF Scheduled, Begin
  <2>5. \A j \in Instances : j # i => phase'[j]["scheduled"] = "idle"
    BY <2>3, <2>4 DEF Scheduling
  <2>7. \A j \in Scheduling' : j = i
    BY <2>5 DEF Scheduling
  <2>8. building'[i]["scheduled"] = builds'
    BY <2>4
  <2>9. \A j \in Instances : phase'[j]["startup"] \notin Working
    BY <1>3, <2>4
  <2> QED BY <2>7, <2>8, <2>9
<1>6. ASSUME NEW i \in Instances, Startup(i)
      PROVE  FALSE
  BY <1>1, <1>2, <1>6 DEF Startup
<1>7. ASSUME NEW i \in Instances, NEW k \in Kinds, Works(i, k)
      PROVE  /\ \A j \in Instances : phase'[j]["startup"] \notin Working
             /\ \A j \in Scheduling' : building'[j]["scheduled"] = builds'
  <2>1. PICK to : Goes(i, k, to)
    BY <1>7 DEF Works, Upload, BuildFails, Uploaded, Load, Announce, Step
  <2>2. phase[i][k] \in Working
    BY <1>7 DEF Works, Upload, BuildFails, Uploaded, Load, Announce, Step, Working
  <2>3. k = "scheduled"
    BY <1>3, <2>2
  <2>4. /\ phase' = [phase EXCEPT ![i]["scheduled"] = to] /\ builds' = builds
        /\ building' = building \/ (building' = [building EXCEPT ![i]["scheduled"] = 0] /\ to = "idle")
    BY <2>1, <2>3 DEF Goes
  <2>5. \A j \in Scheduling' : j \in Scheduling /\ building'[j]["scheduled"] = building[j]["scheduled"]
    BY <2>2, <2>3, <2>4 DEF Scheduling, Working
  <2>6. \A j \in Instances : phase'[j]["startup"] \notin Working
    BY <1>3, <2>4
  <2> QED BY <1>3, <2>4, <2>5, <2>6
<1>8. ASSUME NEW i \in Instances, Restart(i)
      PROVE  /\ \A j \in Instances : phase'[j]["startup"] \notin Working
             /\ \A j \in Scheduling' : building'[j]["scheduled"] = builds'
  <2>1. /\ \A j \in Instances : j # i => phase'[j] = phase[j] /\ building'[j] = building[j]
        /\ phase'[i]["scheduled"] = "idle" /\ phase'[i]["startup"] = "due" /\ builds' = builds
    BY <1>8 DEF Restart
  <2> QED BY <1>3, <2>1 DEF Scheduling, Working
<1> QED BY <1>4, <1>5, <1>6, <1>7, <1>8
    DEF Next, vars, jobVars, Consumes, CreateGroup, Apply, Warms, WarmList, WarmSwap, Expire, RedisRestart

-----------------------------------------------------------------------------
(* What instances search in. *)

\* An instance behind which nothing is left searches in the last index announced.
UpToDate(i) ==
  i \notin astray =>
    /\ inbox[i] # <<>> => inbox[i][Len(inbox[i])] = announced
    /\ inbox[i] = <<>> /\ warm[i] = "done" /\ (\A k \in Kinds : phase[i][k] # "announcing")
         => served[i] = announced
LastOnly(i) == \A n \in 1..Len(inbox[i]) : inbox[i][n] = announced => n = Len(inbox[i])

LEMMA LastInLineIs == LastInLine <=> \A i \in Instances : LastOnly(i) /\ UpToDate(i)
BY DEF LastInLine, LastOnly, UpToDate

\* An instance whose messages stay, and that neither ends a warm start nor an announcement.
LEMMA SameUpToDate ==
  ASSUME NEW i \in Instances, LastOnly(i), UpToDate(i),
         announced' = announced, inbox'[i] = inbox[i], served'[i] = served[i],
         astray \subseteq astray', warm'[i] = "done" => warm[i] = "done",
         \A k \in Kinds : phase[i][k] = "announcing" => phase'[i][k] = "announcing"
  PROVE  LastOnly(i)' /\ UpToDate(i)'
BY DEF LastOnly, UpToDate

LEMMA AnnounceInLine ==
  ASSUME TypeOK, IndexesOwn, LastInLine, NEW i \in Instances, NEW k \in Kinds, Announce(i, k),
         NEW j \in Instances
  PROVE  LastOnly(j)' /\ UpToDate(j)'
<1> DEFINE x == building[i][k]
<1>1. phase[i][k] \in Working /\ UNCHANGED <<served, warm>> /\ phase' = [phase EXCEPT ![i][k] = "idle"]
  BY AfterIs DEF Announce, Working, Goes, warmVars
<1>2. inbox[j] \in Seq(Indexes) /\ LastOnly(j) /\ UpToDate(j)
  BY LastInLineIs DEF TypeOK
<1>3. CASE UNCHANGED <<inbox, announced>> /\ astray' = astray \cup {i}
  <2>1. CASE j = i
    BY <1>2, <1>3, <2>1 DEF LastOnly, UpToDate
  <2>2. CASE j # i
    <3>1. \A l \in Kinds : phase'[j][l] = phase[j][l]
      BY <1>1, <2>2 DEF TypeOK
    <3> QED BY <1>1, <1>2, <1>3, <3>1, SameUpToDate
  <2> QED BY <2>1, <2>2
<1>4. CASE /\ inbox' = [h \in Instances |-> IF group[h] THEN Append(inbox[h], x) ELSE inbox[h]]
           /\ announced' = x /\ astray' = astray \cup {h \in Instances : ~group[h]}
  <2>1. x \in Indexes
    BY <1>1, IndexReloadAssumption DEF IndexesOwn, TypeOK, Indexes
  <2>2. \A n \in 1..Len(inbox[j]) : inbox[j][n] # x
    BY <1>1 DEF IndexesOwn
  <2> HIDE DEF x
  <2>3. CASE group[j]
    <3>1. inbox'[j] = Append(inbox[j], x)
      BY <1>4, <2>3
    <3>2. /\ Len(inbox'[j]) = Len(inbox[j]) + 1 /\ inbox'[j][Len(inbox[j]) + 1] = x /\ inbox'[j] # <<>>
          /\ Len(inbox[j]) \in Nat /\ \A n \in 1..Len(inbox[j]) : inbox'[j][n] = inbox[j][n]
      BY <1>2, <2>1, <3>1, Appended
    <3>3. LastOnly(j)'
      BY <1>4, <2>2, <3>2 DEF LastOnly
    <3>4. UpToDate(j)'
      BY <1>4, <3>2 DEF UpToDate
    <3> QED BY <3>3, <3>4
  <2>4. CASE ~group[j]
    <3>1. inbox'[j] = inbox[j] /\ j \in astray'
      BY <1>4, <2>4
    <3> QED BY <1>4, <2>2, <3>1 DEF LastOnly, UpToDate
  <2> QED BY <2>3, <2>4
<1> QED BY <1>3, <1>4 DEF Announce

LEMMA ApplyInLine ==
  ASSUME TypeOK, LastInLine, NEW i \in Instances, Apply(i)
  PROVE  LastOnly(i)' /\ UpToDate(i)'
<1>1. /\ inbox[i] \in Seq(Indexes) /\ inbox[i] # <<>> /\ inbox'[i] = Tail(inbox[i])
      /\ announced' = announced /\ LastOnly(i) /\ UpToDate(i)
  BY LastInLineIs DEF Apply, TypeOK
<1>2. /\ Len(inbox[i]) \in Nat \ {0} /\ Len(inbox'[i]) = Len(inbox[i]) - 1 /\ Head(inbox[i]) = inbox[i][1]
      /\ \A n \in 1..Len(inbox[i]) - 1 : inbox'[i][n] = inbox[i][n + 1]
      /\ inbox'[i] = <<>> <=> Len(inbox[i]) = 1
  BY <1>1, Tailed
<1>3. LastOnly(i)'
  <2>1. SUFFICES ASSUME NEW n \in 1..Len(inbox'[i]), inbox'[i][n] = announced
                 PROVE  n = Len(inbox'[i])
    BY <1>1 DEF LastOnly
  <2>2. n \in 1..Len(inbox[i]) - 1 /\ n + 1 \in 1..Len(inbox[i])
    BY <1>2
  <2>3. inbox[i][n + 1] = announced
    BY <1>2, <2>1, <2>2
  <2>4. n + 1 = Len(inbox[i])
    BY <1>1, <2>2, <2>3 DEF LastOnly
  <2> QED BY <1>2, <2>2, <2>4
<1>4. UpToDate(i)'
  <2>1. SUFFICES ASSUME i \notin astray' PROVE UpToDate(i)'
    BY DEF UpToDate
  <2>2. served'[i] = Head(inbox[i]) /\ (Head(inbox[i]) = announced \/ i \notin astray)
    BY <2>1 DEF Apply, TypeOK
  <2>3. CASE Head(inbox[i]) = announced
    <3>1. 1 = Len(inbox[i])
      BY <1>1, <1>2, <2>3 DEF LastOnly
    <3> QED BY <1>1, <1>2, <2>2, <2>3, <3>1 DEF UpToDate
  <2>4. CASE Head(inbox[i]) # announced
    <3>1. inbox[i][Len(inbox[i])] = announced
      BY <1>1, <2>2, <2>4 DEF UpToDate
    <3>2. Len(inbox[i]) # 1
      BY <1>2, <2>4, <3>1
    <3>3. inbox'[i][Len(inbox'[i])] = announced
      BY <1>2, <3>1, <3>2
    <3> QED BY <1>1, <1>2, <3>2, <3>3 DEF UpToDate
  <2> QED BY <2>3, <2>4
<1> QED BY <1>3, <1>4

LEMMA LineStep ==
  ASSUME TypeOK, Phased, IndexesOwn, LastInLine, [Next]_vars
  PROVE  LastInLine'
<1>1. SUFFICES ASSUME NEW j \in Instances PROVE LastOnly(j)' /\ UpToDate(j)'
  BY DEF LastInLine, LastOnly, UpToDate
<1>2. inbox[j] \in Seq(Indexes) /\ LastOnly(j) /\ UpToDate(j)
  BY LastInLineIs DEF TypeOK
<1>3. CASE UNCHANGED <<announced, inbox, served, astray, warm, phase>>
  BY <1>2, <1>3, SameUpToDate
<1>4. ASSUME NEW i \in Instances, Scheduled(i) \/ Startup(i)
      PROVE  LastOnly(j)' /\ UpToDate(j)'
  <2>1. PICK k \in Kinds : Begin(i, k) /\ phase[i][k] # "announcing"
    BY <1>4 DEF Scheduled, Startup, Kinds
  <2>2. \A l \in Kinds : phase[j][l] = "announcing" => phase'[j][l] = "announcing"
    BY <2>1 DEF Begin, TypeOK
  <2> QED BY <1>2, <2>1, <2>2, SameUpToDate DEF Begin, streamVars, warmVars
<1>5. ASSUME NEW i \in Instances, NEW k \in Kinds, Works(i, k)
      PROVE  LastOnly(j)' /\ UpToDate(j)'
  <2>1. CASE Announce(i, k)
    BY <2>1, AnnounceInLine
  <2>2. CASE Load(i, k)
    <3>1. UNCHANGED <<announced, inbox, astray, warm>> /\ phase' = [phase EXCEPT ![i][k] = "announcing"]
      BY <2>2, AfterIs DEF Load, Step, Goes, streamVars, warmVars
    <3>2. CASE j = i
      BY <1>2, <3>1, <3>2 DEF LastOnly, UpToDate, TypeOK
    <3>3. CASE j # i
      <4>1. served'[j] = served[j] /\ \A l \in Kinds : phase'[j][l] = phase[j][l]
        BY <2>2, <3>1, <3>3 DEF Load, TypeOK
      <4> QED BY <1>2, <3>1, <4>1, SameUpToDate
    <3> QED BY <3>2, <3>3
  <2>3. CASE Upload(i, k) \/ BuildFails(i, k) \/ Uploaded(i, k)
    <3>1. PICK to : phase[i][k] # "announcing" /\ phase' = [phase EXCEPT ![i][k] = to]
      BY <2>3 DEF Upload, BuildFails, Uploaded, Step, Goes
    <3>2. UNCHANGED <<announced, inbox, astray, warm, served>>
      BY <2>3 DEF Upload, BuildFails, Uploaded, Step, Goes, streamVars, warmVars
    <3>3. \A l \in Kinds : phase[j][l] = "announcing" => phase'[j][l] = "announcing"
      BY <3>1 DEF TypeOK
    <3> QED BY <1>2, <3>2, <3>3, SameUpToDate
  <2> QED BY <1>5, <2>1, <2>2, <2>3 DEF Works
<1>6. ASSUME NEW i \in Instances, Apply(i)
      PROVE  LastOnly(j)' /\ UpToDate(j)'
  <2>1. CASE j = i
    BY <1>6, <2>1, ApplyInLine
  <2>2. CASE j # i
    <3>1. inbox'[j] = inbox[j] /\ served'[j] = served[j] /\ (j \notin astray' => j \notin astray)
          /\ UNCHANGED <<announced, warm, phase>>
      BY <1>6, <2>2 DEF Apply, TypeOK, jobVars, warmVars
    <3> QED BY <1>2, <3>1 DEF LastOnly, UpToDate
  <2> QED BY <2>1, <2>2
<1>7. ASSUME NEW i \in Instances, Warms(i)
      PROVE  LastOnly(j)' /\ UpToDate(j)'
  <2>1. UNCHANGED <<announced, inbox, phase>> /\ astray \subseteq astray'
    BY <1>7 DEF Warms, WarmList, WarmSwap, jobVars, streamVars
  <2>2. CASE j # i
    <3>1. warm'[j] = warm[j] /\ served'[j] = served[j]
      BY <1>7, <2>2 DEF Warms, WarmList, WarmSwap, TypeOK
    <3> QED BY <1>2, <2>1, <3>1, SameUpToDate
  <2>3. CASE j = i
    <3>1. warm'[i] # "done" \/ served'[i] = announced \/ i \in astray'
      BY <1>7 DEF Warms, WarmList, WarmSwap, TypeOK
    <3> QED BY <1>2, <2>1, <2>3, <3>1 DEF LastOnly, UpToDate
  <2> QED BY <2>2, <2>3
<1>8. ASSUME NEW i \in Instances, Restart(i)
      PROVE  LastOnly(j)' /\ UpToDate(j)'
  <2>1. CASE j = i
    <3>1. inbox'[i] = <<>> /\ warm'[i] = "list"
      BY <1>8 DEF Restart, TypeOK
    <3>2. Len(inbox'[i]) = 0
      BY <3>1
    <3> QED BY <2>1, <3>1, <3>2 DEF LastOnly, UpToDate
  <2>2. CASE j # i
    <3>1. /\ inbox'[j] = inbox[j] /\ served'[j] = served[j] /\ (j \notin astray' => j \notin astray)
          /\ warm'[j] = warm[j] /\ phase'[j] = phase[j] /\ announced' = announced
      BY <1>8, <2>2 DEF Restart, TypeOK
    <3> QED BY <1>2, <3>1 DEF LastOnly, UpToDate
  <2> QED BY <2>1, <2>2
<1>9. CASE RedisRestart
  <2>1. UNCHANGED <<announced, warm, phase, served>> /\ astray \subseteq astray'
    BY <1>9 DEF RedisRestart, warmVars
  <2>2. CASE inbox'[j] = inbox[j]
    BY <1>2, <2>1, <2>2, SameUpToDate
  <2>3. CASE inbox'[j] # inbox[j]
    <3>1. j \in astray'
      BY <1>9, <2>3 DEF RedisRestart
    <3>2. inbox'[j] = <<>> \/ inbox'[j] = <<Head(inbox[j])>>
      BY <1>9 DEF RedisRestart
    <3>3. CASE inbox'[j] = <<>>
      <4>1. Len(inbox'[j]) = 0
        BY <3>3
      <4> QED BY <3>1, <4>1 DEF LastOnly, UpToDate
    <3>4. CASE inbox'[j] = <<Head(inbox[j])>> /\ inbox[j] # <<>>
      <4>1. Len(inbox'[j]) = 1
        BY <1>2, <3>4, Tailed
      <4> QED BY <3>1, <4>1 DEF LastOnly, UpToDate
    <3> QED BY <1>9, <3>2, <3>3, <3>4 DEF RedisRestart
  <2> QED BY <2>2, <2>3
<1>10. CASE Expire
  BY <1>3, <1>10 DEF Expire, streamVars, warmVars
<1>11. ASSUME NEW i \in Instances, CreateGroup(i)
       PROVE  LastOnly(j)' /\ UpToDate(j)'
  BY <1>3, <1>11 DEF CreateGroup, jobVars, warmVars
<1> QED BY <1>3, <1>4, <1>5, <1>6, <1>7, <1>8, <1>9, <1>10, <1>11
    DEF Next, Consumes, vars, jobVars, streamVars, warmVars

-----------------------------------------------------------------------------
(* What is stored. *)

Above(S, x) == {y \in S : y > x}
Crowded(S, x) == Cardinality(Above(S, x)) >= MaxVersions

LEMMA AboveFinite ==
  ASSUME NEW S \in SUBSET Indexes, NEW x
  PROVE  IsFiniteSet(Above(S, x)) /\ Cardinality(Above(S, x)) \in Nat
<1>1. Above(S, x) \in SUBSET Indexes
  BY DEF Above
<1> QED BY <1>1, IndexesFinite, FS_Subset, FS_CardinalityType

\* More indexes leave whatever was crowded out crowded out.
LEMMA CrowdedMore ==
  ASSUME NEW S \in SUBSET Indexes, NEW T \in SUBSET Indexes, NEW x, NEW y,
         Above(S, x) \subseteq Above(T, y), Crowded(S, x)
  PROVE  Crowded(T, y)
<1>1. /\ Cardinality(Above(S, x)) <= Cardinality(Above(T, y))
      /\ Cardinality(Above(S, x)) \in Nat /\ Cardinality(Above(T, y)) \in Nat
  BY AboveFinite, FS_Subset
<1> QED BY <1>1, IndexReloadAssumption DEF Crowded

\* Deleting what is crowded out leaves enough newer indexes for it: those above the newest
\* deleted one all survive.
LEMMA Survivors ==
  ASSUME NEW S \in SUBSET Indexes, NEW x \in Indexes, Crowded(S, x)
  PROVE  Crowded({y \in S : ~Crowded(S, y)}, x)
<1> DEFINE T == {y \in S : ~Crowded(S, y)}
           D == {y \in S : Crowded(S, y) /\ ~(x > y)}
<1>1. \A y \in Indexes : y \in Nat
  BY IndexesFinite
<1>2. CASE D = {}
  <2>1. Above(S, x) \subseteq Above(T, x)
    BY <1>1, <1>2 DEF Above
  <2> QED BY <2>1, CrowdedMore
<1>3. CASE D # {}
  <2>1. PICK y \in D : \A z \in D : ~(z > y)
    BY <1>3, NewestOne
  <2>2. Above(S, y) \subseteq Above(T, x)
    BY <1>1, <2>1 DEF Above
  <2> QED BY <2>1, <2>2, CrowdedMore
<1> QED BY <1>2, <1>3

LEMMA StoredIs ==
  /\ Listed \in SUBSET Indexes
  /\ \A x : Stored(x) <=> dirs[x] = "complete" \/ Crowded(Listed, x)
BY DEF Listed, Stored, Newer, Crowded, Above

\* An upload that begins spares all indexes but its own.
LEMMA UploadStores ==
  ASSUME TypeOK, NEW i \in Instances, NEW k \in Kinds, Upload(i, k),
         building[i][k] \in Indexes, NEW x, Stored(x), x # building[i][k]
  PROVE  Stored(x)'
<1>1. dirs' = [dirs EXCEPT ![building[i][k]] = "partial"]
  BY DEF Upload
<1>2. Listed \subseteq Listed' /\ Listed' \in SUBSET Indexes
  BY <1>1 DEF Listed, TypeOK
<1>3. CASE dirs[x] = "complete"
  <2>1. dirs'[x] = "complete"
    BY <1>1, <1>3 DEF TypeOK
  <2> QED BY <2>1 DEF Stored
<1>4. CASE Crowded(Listed, x)
  <2>1. Crowded(Listed', x)
    BY <1>2, <1>4, StoredIs, CrowdedMore DEF Above
  <2> QED BY <2>1 DEF Stored, Newer, Crowded, Above
<1> QED BY <1>3, <1>4, StoredIs

\* The clean-up after an upload spares what was stored, and the index just uploaded.
LEMMA UploadedStores ==
  ASSUME TypeOK, NEW i \in Instances, NEW k \in Kinds, Uploaded(i, k),
         building[i][k] \in Indexes, NEW x \in Indexes, Stored(x) \/ x = building[i][k]
  PROVE  Stored(x)'
<1> DEFINE now == Listed \cup {building[i][k]}
<1>1. now \in SUBSET Indexes /\ Listed \subseteq now
  BY StoredIs
<1>2. dirs' = [y \in Indexes |->
        IF y \in now /\ Crowded(now, y) THEN "deleted"
        ELSE IF y = building[i][k] THEN "complete" ELSE dirs[y]]
  BY DEF Uploaded, Crowded, Above
<1>3. Listed' = {y \in now : ~Crowded(now, y)}
  BY <1>1, <1>2 DEF Listed
<1>4. CASE Crowded(now, x)
  <2>1. Crowded(Listed', x)
    BY <1>1, <1>3, <1>4, Survivors
  <2> QED BY <2>1 DEF Stored, Newer, Crowded, Above
<1>5. CASE ~Crowded(now, x)
  <2>1. ~Crowded(Listed, x)
    <3>1. Above(Listed, x) \subseteq Above(now, x)
      BY <1>1 DEF Above
    <3> QED BY <1>1, <1>5, <3>1, StoredIs, CrowdedMore
  <2>2. x = building[i][k] \/ dirs[x] = "complete"
    BY <2>1, StoredIs
  <2>3. dirs'[x] = "complete"
    BY <1>2, <1>5, <2>2
  <2> QED BY <2>3 DEF Stored
<1> QED BY <1>4, <1>5

\* No directory and no announcement changes, and nobody comes closer to announcing.
LEMMA StoredUnchanged ==
  ASSUME AllStored, dirs' = dirs, announced' = announced,
         \A j \in Instances, l \in Kinds : phase'[j][l] \in {"loading", "announcing"} =>
           phase[j][l] \in {"loading", "announcing"} /\ building'[j][l] = building[j][l]
  PROVE  AllStored'
BY DEF AllStored, Stored, Newer, Listed

LEMMA WorksStored ==
  ASSUME TypeOK, IndexesOwn, AllStored, NEW i \in Instances, NEW k \in Kinds, Works(i, k)
  PROVE  AllStored'
<1>1. PICK to : Goes(i, k, to)
  BY DEF Works, Upload, BuildFails, Uploaded, Load, Announce, Step
<1>2. /\ phase' = [phase EXCEPT ![i][k] = to] /\ phase[i][k] \in Working
      /\ building' = building \/ (to = "idle" /\ building' = [building EXCEPT ![i][k] = 0])
  BY <1>1 DEF Works, Upload, BuildFails, Uploaded, Load, Announce, Step, Goes, Working
<1>3. building[i][k] \in Indexes
  BY <1>2, IndexReloadAssumption DEF IndexesOwn, TypeOK, Indexes
<1>4. \A j \in Instances, l \in Kinds : phase'[j][l] \in {"loading", "announcing"} =>
        /\ building'[j][l] = building[j][l] /\ phase'[j][l] \in Working
        /\ <<j, l>> # <<i, k>> => phase[j][l] = phase'[j][l] /\ building[j][l] # building[i][k]
  BY <1>2 DEF TypeOK, Working, IndexesOwn
<1>5. CASE Upload(i, k)
  <2>1. phase'[i][k] = "uploading" /\ announced' = announced /\ announced # building[i][k]
    BY <1>2, <1>5, AfterIs DEF Upload, Step, Goes, TypeOK, IndexesOwn
  <2>2. announced' # 0 => Stored(announced)'
    BY <1>3, <1>5, <2>1, UploadStores DEF AllStored
  <2>3. ASSUME NEW j \in Instances, NEW l \in Kinds, phase'[j][l] \in {"loading", "announcing"}
        PROVE  Stored(building[j][l])'
    <3>1. <<j, l>> # <<i, k>>
      BY <2>1, <2>3
    <3>2. Stored(building[j][l]) /\ building[j][l] # building[i][k] /\ building'[j][l] = building[j][l]
      BY <1>4, <2>3, <3>1 DEF AllStored
    <3> QED BY <1>3, <1>5, <3>2, UploadStores
  <2> QED BY <2>2, <2>3 DEF AllStored
<1>6. CASE Uploaded(i, k)
  <2>1. announced' = announced
    BY <1>6 DEF Uploaded
  <2>2. announced' # 0 => Stored(announced)'
    <3>1. announced # 0 => announced \in Indexes
      BY IndexReloadAssumption DEF TypeOK, Indexes
    <3> QED BY <1>3, <1>6, <2>1, <3>1, UploadedStores DEF AllStored
  <2>3. ASSUME NEW j \in Instances, NEW l \in Kinds, phase'[j][l] \in {"loading", "announcing"}
        PROVE  Stored(building[j][l])'
    <3>1. building'[j][l] = building[j][l]
      BY <1>4, <2>3
    <3>2. CASE <<j, l>> = <<i, k>>
      BY <1>3, <1>6, <3>1, <3>2, UploadedStores
    <3>3. CASE <<j, l>> # <<i, k>>
      <4>1. Stored(building[j][l]) /\ building[j][l] \in Indexes
        BY <1>4, <2>3, <3>3, IndexReloadAssumption DEF AllStored, IndexesOwn, TypeOK, Indexes, Working
      <4> QED BY <1>3, <1>6, <3>1, <4>1, UploadedStores
    <3> QED BY <3>2, <3>3
  <2> QED BY <2>2, <2>3 DEF AllStored
<1>7. CASE BuildFails(i, k) \/ Load(i, k)
  <2>1. dirs' = dirs /\ announced' = announced
    BY <1>7 DEF BuildFails, Load
  <2>2. phase'[i][k] \in {"loading", "announcing"} => phase[i][k] \in {"loading", "announcing"}
    BY <1>7 DEF BuildFails, Load, Step, Goes, TypeOK
  <2> QED BY <1>4, <2>1, <2>2, StoredUnchanged
<1>8. CASE Announce(i, k)
  <2>1. dirs' = dirs /\ announced' \in {announced, building[i][k]} /\ phase[i][k] = "announcing"
        /\ phase'[i][k] = "idle"
    BY <1>8, AfterIs DEF Announce, Goes, TypeOK
  <2>2. \A x : Stored(x) => dirs'[x] = "complete" \/ Cardinality({y \in Listed' : y > x}) >= MaxVersions
    BY <2>1 DEF Stored, Newer, Listed
  <2>3. announced' # 0 => dirs'[announced'] = "complete"
                          \/ Cardinality({y \in Listed' : y > announced'}) >= MaxVersions
    BY <2>1, <2>2 DEF AllStored
  <2>4. ASSUME NEW j \in Instances, NEW l \in Kinds, phase'[j][l] \in {"loading", "announcing"}
        PROVE  dirs'[building'[j][l]] = "complete"
               \/ Cardinality({y \in Listed' : y > building'[j][l]}) >= MaxVersions
    <3>1. <<j, l>> # <<i, k>>
      BY <2>1, <2>4
    <3>2. Stored(building[j][l]) /\ building'[j][l] = building[j][l]
      BY <1>4, <2>4, <3>1 DEF AllStored
    <3> QED BY <2>2, <3>2
  <2> QED BY <2>3, <2>4 DEF AllStored, Stored, Newer
<1> QED BY <1>5, <1>6, <1>7, <1>8 DEF Works

LEMMA StoredStep ==
  ASSUME TypeOK, IndexesOwn, AllStored, [Next]_vars
  PROVE  AllStored'
<1>1. CASE UNCHANGED <<dirs, announced, phase, building>>
  BY <1>1, StoredUnchanged
<1>2. ASSUME NEW i \in Instances, Scheduled(i) \/ Startup(i)
      PROVE  AllStored'
  <2>1. PICK k \in Kinds : Begin(i, k)
    BY <1>2 DEF Scheduled, Startup, Kinds
  <2>2. \A j \in Instances, l \in Kinds : phase'[j][l] \in {"loading", "announcing"} =>
          phase[j][l] \in {"loading", "announcing"} /\ building'[j][l] = building[j][l]
    BY <2>1 DEF Begin, TypeOK
  <2> QED BY <2>1, <2>2, StoredUnchanged DEF Begin
<1>3. ASSUME NEW i \in Instances, Restart(i)
      PROVE  AllStored'
  <2>1. \A l \in Kinds : phase'[i][l] \notin {"loading", "announcing"}
    BY <1>3 DEF Restart, Kinds, TypeOK
  <2>2. \A j \in Instances, l \in Kinds : phase'[j][l] \in {"loading", "announcing"} =>
          phase[j][l] \in {"loading", "announcing"} /\ building'[j][l] = building[j][l]
    BY <1>3, <2>1 DEF Restart, TypeOK
  <2> QED BY <1>3, <2>2, StoredUnchanged DEF Restart
<1> QED BY <1>1, <1>2, <1>3, WorksStored
    DEF Next, vars, jobVars, Consumes, CreateGroup, Apply, Warms, WarmList, WarmSwap, Expire, RedisRestart

-----------------------------------------------------------------------------
(* The invariant, and what follows from it. *)

LEMMA InitSafe == Init => Safe
<1> SUFFICES ASSUME Init PROVE Safe
  OBVIOUS
<1>1. TypeOK
  <2>1. 0 \in 0..MaxBuilds /\ 0 \in 0..MaxCrashes
    BY IndexReloadAssumption
  <2>2. <<>> \in Seq(Indexes)
    BY EmptySeq
  <2>3. [scheduled |-> "idle", startup |-> "due"] \in [Kinds ->
          {"idle", "due", "building", "uploading", "loading", "announcing"}]
    BY DEF Kinds
  <2>4. phase \in [Instances -> [Kinds ->
          {"idle", "due", "building", "uploading", "loading", "announcing"}]]
    BY <2>3 DEF Init
  <2>5. building \in [Instances -> [Kinds -> 0..MaxBuilds]] /\ inbox \in [Instances -> Seq(Indexes)]
    BY <2>1, <2>2 DEF Init
  <2> QED BY <2>1, <2>4, <2>5 DEF Init, TypeOK
<1>2. Phased
  BY DEF Init, Phased
<1>3. \A i \in Instances, k \in Kinds : phase[i][k] \in {"idle", "due"}
  BY DEF Init, Kinds
<1>4. \A i \in Instances : inbox[i] = <<>> /\ Len(inbox[i]) = 0 /\ 1..Len(inbox[i]) = {}
  BY DEF Init
<1>5. IndexesOwn
  BY <1>3, <1>4 DEF Init, IndexesOwn, Working
<1>6. Scheduling = {}
  BY DEF Init, Scheduling
<1>7. LockCounts
  BY <1>6, FS_EmptySet DEF Init, LockCounts
<1>8. Serial
  BY <1>3, <1>6 DEF Serial, Working, Kinds
<1>9. LastInLine
  BY <1>4 DEF Init, LastInLine
<1>10. AllStored
  BY <1>3 DEF Init, AllStored
<1> QED BY <1>1, <1>2, <1>5, <1>7, <1>8, <1>9, <1>10 DEF Safe

LEMMA SafeStep ==
  ASSUME Safe, [Next]_vars
  PROVE  Safe'
<1>1. TypeOK'
  BY TypeStep DEF Safe
<1> QED BY <1>1, OwnStep, PhasedStep, LockStep, SerialStep, LineStep, StoredStep DEF Safe

LEMMA SafeHolds == Spec => []Safe
BY InitSafe, SafeStep, PTL DEF Spec

\* Every variable keeps its type: no rebuild takes an index past the ones begun, and no message
\* or warm start names one.
THEOREM IndexReloadTypeCorrect == Spec => []TypeOK
<1>1. Safe => TypeOK
  BY DEF Safe
<1> QED BY <1>1, SafeHolds, PTL

\* Scheduled rebuilds overlap no more often than the lock was lost: the delete at the end of a
\* rebuild never lets more in than the loss before it did.
THEOREM OverlapIsCounted == Spec => []OverlapNeedsExpiry
<1>1. Safe => OverlapNeedsExpiry
  <2> SUFFICES ASSUME Safe PROVE OverlapNeedsExpiry
    OBVIOUS
  <2>1. Scheduling \in SUBSET Instances
    BY DEF Scheduling
  <2>2. Cardinality(Scheduling) \in Nat /\ expired \in Nat
    BY <2>1, InstancesCounted DEF Safe, TypeOK
  <2> QED BY <2>2 DEF Safe, LockCounts, OverlapNeedsExpiry
<1> QED BY <1>1, SafeHolds, PTL

\* An instance with nothing left to load searches in what was announced last, unless it is astray.
THEOREM InstancesAgree == Spec => []ServesLastAnnounced
<1>1. Safe => ServesLastAnnounced
  BY DEF Safe, LastInLine, ServesLastAnnounced, Settled
<1> QED BY <1>1, SafeHolds, PTL

\* What is announced is stored whole, or as many newer directories are as the store keeps.
THEOREM AnnouncedIsStored == Spec => []AnnouncedStored
<1>1. Safe => AnnouncedStored
  BY DEF Safe, AllStored, Stored, AnnouncedStored
<1> QED BY <1>1, SafeHolds, PTL

\* Without an overlap, indexes are announced in the order they were named.
THEOREM AnnouncedInOrder == Spec => NewestAnnounced
<1>1. ASSUME Safe, [Next]_vars
      PROVE  [announced' < announced => expired > 0 \/ unlocked > 0]_vars
  <2>1. SUFFICES ASSUME announced' < announced, expired = 0, unlocked = 0
                 PROVE  FALSE
    BY <1>1 DEF Safe, TypeOK
  <2>2. announced \in Nat /\ builds \in Nat /\ announced <= builds
    BY <1>1 DEF Safe, TypeOK, IndexesOwn
  <2>3. announced' # announced
    BY <2>1, <2>2
  <2>4. PICK i \in Instances, k \in Kinds : Announce(i, k)
    BY <1>1, <2>3 DEF Next, vars, jobVars, Scheduled, Startup, Begin, Works, Upload, BuildFails,
      Uploaded, Load, Consumes, CreateGroup, Apply, Warms, WarmList, WarmSwap, Restart, Expire,
      RedisRestart
  <2>5. phase[i][k] = "announcing" /\ announced' = building[i][k]
    BY <2>3, <2>4 DEF Announce
  <2>6. k = "scheduled" /\ building[i][k] = builds
    BY <1>1, <2>1, <2>5 DEF Safe, Serial, Scheduling, Working, Kinds
  <2> QED BY <2>1, <2>2, <2>5, <2>6
<1> QED BY <1>1, SafeHolds, PTL DEF Spec, NewestAnnounced

=============================================================================
