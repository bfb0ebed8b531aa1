-------------------------- MODULE GroupsConsistency --------------------------
(***************************************************************************)
(* What Groups guarantees for every set of users, Skills and requests: its *)
(* types, that approvals belong to members, and on a database that refuses *)
(* writes to stale rows the exact member count, the member limit, the      *)
(* finality of revocations and the number of Skills a request stores.      *)
(*                                                                         *)
(* The argument: refresh_counts writes the group's row in every            *)
(* transaction that counts.  So whoever commits a change of the members    *)
(* makes every other counting transaction fail, and one that survives      *)
(* still has the current members in its snapshot, and the current grants   *)
(* but for Skills deleted since: a deletion does not refresh the counts.   *)
(***************************************************************************)
EXTENDS Groups, FiniteSetTheorems, TLAPS

-----------------------------------------------------------------------------
(* Counting members. *)

LEMMA CountInNat ==
  ASSUME NEW f
  PROVE  CountMembers(f) \in Nat
<1>1. IsFiniteSet({u \in Users : f[u] # "none"})
  BY GroupsAssumption, FS_Subset
<1> QED BY <1>1, FS_CardinalityType DEF CountMembers

LEMMA CountGrantsInNat ==
  ASSUME NEW S \in SUBSET Skills, NEW f
  PROVE  Cardinality({k \in S : f[k] = "active"}) \in Nat
<1>1. IsFiniteSet({k \in S : f[k] = "active"})
  BY GroupsAssumption, FS_Subset
<1> QED BY <1>1, FS_CardinalityType

\* One more member is one more in the count, and no change of role is none.
LEMMA CountAfterAdding ==
  ASSUME NEW f \in [Users -> Roles], NEW v \in Users
  PROVE  LET g == [f EXCEPT ![v] = "member"] IN
         CountMembers(g) = IF f[v] = "none" THEN CountMembers(f) + 1 ELSE CountMembers(f)
<1> DEFINE g == [f EXCEPT ![v] = "member"]
           S == {u \in Users : f[u] # "none"}
           T == {u \in Users : g[u] # "none"}
<1>1. IsFiniteSet(S)
  BY GroupsAssumption, FS_Subset
<1>2. T = S \cup {v}
  BY DEF Roles
<1>3. Cardinality(S \cup {v}) = IF v \in S THEN Cardinality(S) ELSE Cardinality(S) + 1
  BY <1>1, FS_AddElement
<1>4. v \in S <=> f[v] # "none"
  OBVIOUS
<1>5. CountMembers(f) = Cardinality(S) /\ CountMembers(g) = Cardinality(T)
  BY DEF CountMembers
<1> QED BY <1>2, <1>3, <1>4, <1>5

-----------------------------------------------------------------------------
(* Types. *)

LEMMA NoTxTyped == NoTx \in Tx
<1>1. (CHOOSE k \in Skills : TRUE) \in Skills
  BY GroupsAssumption
<1> QED BY <1>1, GroupsAssumption DEF NoTx, Tx, Ops, Roles, GrantStatus

LEMMA SnapshotTyped ==
  ASSUME TypeOK, NEW op \in Ops
  PROVE  Snapshot(op) \in Tx /\ Snapshot(op).op = op /\ Snapshot(op).role = role /\ Snapshot(op).grant = grant
<1>1. Listed \in SUBSET Skills
  BY DEF Listed
<1> QED BY <1>1, NoTxTyped DEF Snapshot, Tx, TypeOK

LEMMA RefreshedTyped ==
  ASSUME TypeOK, NEW r \in Requests, NEW f, NEW g
  PROVE  Refreshed(r, f, g) \in Group
<1>1. CountMembers(f) \in Nat
  BY CountInNat
<1>2. tx[r].listed \in SUBSET Skills
  BY DEF TypeOK, Tx
<1>3. Cardinality({k \in tx[r].listed : g[k] = "active"}) \in Nat
  BY <1>2, CountGrantsInNat
<1> QED BY <1>1, <1>3 DEF Refreshed, TypeOK, Group

\* Closing leaves every slot as it was, or empty.
LEMMA CloseKeeps ==
  ASSUME TypeOK, NEW r \in Requests, NEW rows, Close(r, rows)
  PROVE  /\ tx' \in [Requests -> Tx]
         /\ \A q \in Requests : tx'[q] = NoTx \/ (tx'[q] = tx[q] /\ q # r)
BY NoTxTyped DEF Close, TypeOK

LEMMA DecidedTyped ==
  ASSUME TypeOK, NEW r \in Requests, NEW status \in {"pending", "approved", "rejected"}
  PROVE  WithStatus(Decided(r), status) \subseteq Join
BY DEF WithStatus, Decided, TypeOK, Join

-----------------------------------------------------------------------------
(* What a transaction knows. *)

\* The transactions that refresh the counts in the group's row.
Refreshing(t) ==
  t.op \in {"add", "remove"} \cup GrantOps \/ (t.op = "decide" /\ ~AlreadyMember(t))

\* What it carries: its decision is one its commit may store, and its snapshot left
\* room for whom it adds.
Sound(t) ==
  /\ t.op \in {"grant", "regrant"} => t.arg \in {"active", "pending"}
  /\ t.op = "judge" => t.arg \in {"active", "rejected"}
  /\ t.op = "add" \/ (t.op = "decide" /\ t.arg = "approved")
       => t.role[t.user] # "none" \/ t.free \/ CountMembers(t.role) < MaxMembers

\* The grants the transaction has read, but those of Skills deleted since, are the grants.
SeesGrants(t) == \A k \in Skills : skill[k] # "gone" => t.grant[k] = grant[k]

\* A snapshot that is counted is still true when it is.
Current(t) ==
  Refreshing(t) => /\ Active /\ t.role = role /\ SeesGrants(t)
                   /\ t.op = "judge" => grant[t.skill] = "pending"

\* A decision is about a request of the user it names.
Owned(t) ==
  t.op = "decide" => t.join <= minted /\ \A j \in joins : j.id = t.join => j.user = t.user

\* Ids of join requests are given out once.
IdsFresh == \A j \in joins : j.id <= minted /\ \A i \in joins : i.id = j.id => i = j

LEMMA NoTxHarmless == Sound(NoTx) /\ Current(NoTx) /\ Owned(NoTx)
BY DEF NoTx, Sound, Current, Owned, Refreshing, AlreadyMember, GrantOps

\* A request that was accepted is typed, sound, current and about the user it names.
Accepted(r) == \E t \in Tx : Open(r, t) /\ Sound(t) /\ Current(t) /\ Owned(t)

LEMMA AcceptedIfSimple ==
  ASSUME NEW r \in Requests, NEW t \in Tx, Open(r, t), t.op \in {"update", "delete", "apply"}
  PROVE  Accepted(r)
BY DEF Accepted, Sound, Current, Owned, Refreshing, AlreadyMember, GrantOps

LEMMA AskAccepts ==
  ASSUME TypeOK, IdsFresh, NEW r \in Requests, Ask(r)
  PROVE  Accepted(r)
<1> USE DEF TypeOK
<1> PICK u \in Users : \/ \E visibility \in {"listed", "private"} : UpdateGroup(r, u, visibility)
                       \/ DeleteGroup(r, u)
                       \/ \E v \in Users : AddMember(r, u, v) \/ RemoveMember(r, u, v)
                       \/ JoinDirectly(r, u) \/ RequestJoin(r, u)
                       \/ \E j \in joins, verdict \in {"approved", "rejected"} : DecideJoin(r, u, j, verdict)
                       \/ \E k \in Skills : GrantSkill(r, u, k) \/ RevokeSkill(r, u, k)
                       \/ \E k \in Skills, verdict \in {"active", "rejected"} : DecideGrant(r, u, k, verdict)
  BY DEF Ask
<1>1. ASSUME NEW visibility \in {"listed", "private"}, UpdateGroup(r, u, visibility) PROVE Accepted(r)
  <2> DEFINE t == [NoTx EXCEPT !.op = "update", !.arg = visibility]
  <2>1. t \in Tx /\ t.op = "update"
    BY NoTxTyped DEF Tx, Ops
  <2> QED BY <1>1, <2>1, AcceptedIfSimple DEF UpdateGroup
<1>2. CASE DeleteGroup(r, u)
  <2> DEFINE t == [NoTx EXCEPT !.op = "delete"]
  <2>1. t \in Tx /\ t.op = "delete"
    BY NoTxTyped DEF Tx, Ops
  <2> QED BY <1>2, <2>1, AcceptedIfSimple DEF DeleteGroup
<1>3. CASE RequestJoin(r, u)
  <2> DEFINE t == [NoTx EXCEPT !.op = "apply", !.user = u]
  <2>1. t \in Tx /\ t.op = "apply"
    BY NoTxTyped DEF Tx, Ops
  <2> QED BY <1>3, <2>1, AcceptedIfSimple DEF RequestJoin
<1>4. ASSUME NEW v \in Users, AddMember(r, u, v) PROVE Accepted(r)
  <2> DEFINE free == u \in Privileged
             t == [Snapshot("add") EXCEPT !.user = v, !.free = free]
  <2>1. free \in BOOLEAN /\ (free \/ role[v] # "none" \/ CountMembers(role) < MaxMembers)
    <3>1. role[v] = "none" => RoomFor(u)
      BY <1>4, Zenon DEF AddMember
    <3> QED BY <3>1 DEF RoomFor
  <2>2. Active /\ Open(r, [Snapshot("add") EXCEPT !.user = v, !.free = free])
    BY <1>4, Zenon DEF AddMember
  <2> HIDE DEF free
  <2>3. Snapshot("add") \in Tx /\ Snapshot("add").op = "add"
        /\ Snapshot("add").role = role /\ Snapshot("add").grant = grant
    BY SnapshotTyped DEF Ops
  <2>4. t \in Tx /\ t.op = "add" /\ t.role = role /\ t.grant = grant /\ t.user = v /\ t.free = free
    BY <2>1, <2>3 DEF Tx
  <2> QED BY <2>1, <2>2, <2>4 DEF Accepted, Sound, Current, SeesGrants, Owned
<1>5. CASE JoinDirectly(r, u)
  <2> DEFINE t == [Snapshot("add") EXCEPT !.user = u, !.free = TRUE]
  <2>1. Snapshot("add") \in Tx /\ Snapshot("add").op = "add"
        /\ Snapshot("add").role = role /\ Snapshot("add").grant = grant
    BY SnapshotTyped DEF Ops
  <2>2. t \in Tx /\ t.op = "add" /\ t.role = role /\ t.grant = grant /\ t.free
    BY <2>1 DEF Tx
  <2> QED BY <1>5, <2>2 DEF Accepted, Sound, Current, SeesGrants, Owned, JoinDirectly
<1>6. ASSUME NEW v \in Users, RemoveMember(r, u, v) PROVE Accepted(r)
  <2> DEFINE t == [Snapshot("remove") EXCEPT !.user = v]
  <2>1. Snapshot("remove") \in Tx /\ Snapshot("remove").op = "remove"
        /\ Snapshot("remove").role = role /\ Snapshot("remove").grant = grant
    BY SnapshotTyped DEF Ops
  <2>2. t \in Tx /\ t.op = "remove" /\ t.role = role /\ t.grant = grant
    BY <2>1 DEF Tx
  <2> QED BY <1>6, <2>2 DEF Accepted, Sound, Current, SeesGrants, Owned, RemoveMember
<1>7. ASSUME NEW j \in joins, NEW verdict \in {"approved", "rejected"}, DecideJoin(r, u, j, verdict)
      PROVE  Accepted(r)
  <2> DEFINE free == u \in Privileged
             old == JoinsOf(joins, j.user, "approved") # {}
             t == [Snapshot("decide") EXCEPT !.user = j.user, !.join = j.id, !.arg = verdict,
                                             !.free = free, !.recorded = old]
  <2>1. j.user \in Users /\ j.id \in 0..MaxJoins
    BY GroupsAssumption DEF Join, JoinIds
  <2>2. /\ free \in BOOLEAN /\ old \in BOOLEAN
        /\ verdict = "approved" => free \/ role[j.user] # "none" \/ CountMembers(role) < MaxMembers
    <3>1. verdict = "approved" /\ role[j.user] = "none" => RoomFor(u)
      BY <1>7, Zenon DEF DecideJoin
    <3> QED BY <3>1 DEF RoomFor
  <2>3. Active /\ Open(r, [Snapshot("decide") EXCEPT !.user = j.user, !.join = j.id, !.arg = verdict,
                                                     !.free = free, !.recorded = old])
    BY <1>7, Zenon DEF DecideJoin
  <2> HIDE DEF free, old
  <2>4. Snapshot("decide") \in Tx /\ Snapshot("decide").op = "decide"
        /\ Snapshot("decide").role = role /\ Snapshot("decide").grant = grant
    BY SnapshotTyped DEF Ops
  <2>5. /\ t \in Tx /\ t.op = "decide" /\ t.role = role /\ t.grant = grant /\ t.user = j.user /\ t.join = j.id
        /\ t.arg = verdict /\ t.free = free
    BY <2>1, <2>2, <2>4 DEF Tx
  <2>6. Sound(t) /\ Current(t)
    BY <2>2, <2>3, <2>5 DEF Sound, Current, SeesGrants
  <2>7. Owned(t)
    BY <2>5 DEF Owned, IdsFresh
  <2> QED BY <2>3, <2>5, <2>6, <2>7 DEF Accepted
<1>8. ASSUME NEW k \in Skills, GrantSkill(r, u, k) PROVE Accepted(r)
  <2> DEFINE op == IF grant[k] = "none" THEN "grant" ELSE "regrant"
             arg == IF CanManage(u) THEN "active" ELSE "pending"
             t == [Snapshot(op) EXCEPT !.skill = k, !.arg = arg]
  <2>1. op \in {"grant", "regrant"} /\ arg \in {"active", "pending"}
    OBVIOUS
  <2>2. Active /\ Open(r, t)
    BY <1>8, Zenon DEF GrantSkill
  <2> HIDE DEF op, arg
  <2>3. Snapshot(op) \in Tx /\ Snapshot(op).op = op
        /\ Snapshot(op).role = role /\ Snapshot(op).grant = grant
    BY <2>1, SnapshotTyped DEF Ops
  <2>4. t \in Tx /\ t.op = op /\ t.role = role /\ t.grant = grant /\ t.arg = arg
    BY <2>1, <2>3 DEF Tx
  <2> QED BY <2>1, <2>2, <2>4 DEF Accepted, Sound, Current, SeesGrants, Owned
<1>9. ASSUME NEW k \in Skills, RevokeSkill(r, u, k) PROVE Accepted(r)
  <2> DEFINE t == [Snapshot("revoke") EXCEPT !.skill = k]
  <2>1. Snapshot("revoke") \in Tx /\ Snapshot("revoke").op = "revoke"
        /\ Snapshot("revoke").role = role /\ Snapshot("revoke").grant = grant
    BY SnapshotTyped DEF Ops
  <2>2. t \in Tx /\ t.op = "revoke" /\ t.role = role /\ t.grant = grant
    BY <2>1 DEF Tx
  <2> QED BY <1>9, <2>2 DEF Accepted, Sound, Current, SeesGrants, Owned, RevokeSkill
<1>10. ASSUME NEW k \in Skills, NEW verdict \in {"active", "rejected"}, DecideGrant(r, u, k, verdict)
       PROVE  Accepted(r)
  <2> DEFINE t == [Snapshot("judge") EXCEPT !.skill = k, !.arg = verdict]
  <2>1. Snapshot("judge") \in Tx /\ Snapshot("judge").op = "judge"
        /\ Snapshot("judge").role = role /\ Snapshot("judge").grant = grant
    BY SnapshotTyped DEF Ops
  <2>2. t \in Tx /\ t.op = "judge" /\ t.role = role /\ t.grant = grant /\ t.skill = k /\ t.arg = verdict
    BY <2>1 DEF Tx
  <2> QED BY <1>10, <2>2 DEF Accepted, Sound, Current, SeesGrants, Owned, DecideGrant
<1> QED BY <1>1, <1>2, <1>3, <1>4, <1>5, <1>6, <1>7, <1>8, <1>9, <1>10

-----------------------------------------------------------------------------
(* The types of every step. *)

LEMMA TypeStep ==
  ASSUME TypeOK, IdsFresh, \A r \in Requests : Sound(tx[r]), [Next]_vars
  PROVE  TypeOK'
<1> USE DEF TypeOK
<1>1. CASE UNCHANGED vars
  BY <1>1 DEF vars
<1>2. ASSUME NEW listed \in BOOLEAN, CreateGroup(listed) PROVE TypeOK'
  BY <1>2, GroupsAssumption DEF CreateGroup, Group, Roles
<1>3. ASSUME NEW r \in Requests, Ask(r) PROVE TypeOK'
  BY <1>3, AskAccepts DEF Accepted, Open, tables
<1>4. ASSUME NEW r \in Requests, Commit(r) PROVE TypeOK'
  <2> USE CloseKeeps, RefreshedTyped
  <2>1. CASE CommitUpdate(r)
    BY <2>1 DEF CommitUpdate, Group
  <2>2. CASE CommitDelete(r)
    BY <2>2 DEF CommitDelete, Group, Roles, GrantStatus
  <2>3. CASE CommitAdd(r)
    BY <2>3 DEF CommitAdd, Roles
  <2>4. CASE CommitRemove(r)
    BY <2>4 DEF CommitRemove, Roles
  <2>5. CASE CommitJoin(r)
    BY <2>5, GroupsAssumption DEF CommitJoin, Join, JoinIds, Tx
  <2>6. CASE CommitAlreadyMember(r)
    BY <2>6, DecidedTyped DEF CommitAlreadyMember
  <2>7. CASE CommitApprove(r)
    BY <2>7, DecidedTyped DEF CommitApprove, Roles
  <2>8. CASE CommitReject(r)
    BY <2>8, DecidedTyped DEF CommitReject
  <2>9. CASE CommitGrant(r)
    BY <2>9 DEF CommitGrant, Sound, GrantStatus
  <2>10. CASE CommitRegrant(r)
    BY <2>10 DEF CommitRegrant, Sound, GrantStatus
  <2>11. CASE CommitDecideGrant(r)
    BY <2>11 DEF CommitDecideGrant, Sound, GrantStatus
  <2>12. CASE CommitRevoke(r)
    BY <2>12 DEF CommitRevoke, GrantStatus
  <2> QED BY <1>4, <2>1, <2>2, <2>3, <2>4, <2>5, <2>6, <2>7, <2>8, <2>9, <2>10, <2>11, <2>12
      DEF Commit
<1>5. ASSUME NEW r \in Requests, Fail(r) PROVE TypeOK'
  BY <1>5, NoTxTyped DEF Fail, tables
<1>6. ASSUME NEW k \in Skills, DeleteSkill(k) PROVE TypeOK'
  BY <1>6, NoTxTyped DEF DeleteSkill, GrantStatus
<1>7. ASSUME NEW k \in Skills, NEW status \in {"listed", "hidden"}, Moderate(k, status) PROVE TypeOK'
  BY <1>7 DEF Moderate
<1> QED BY <1>1, <1>2, <1>3, <1>4, <1>5, <1>6, <1>7 DEF Next

-----------------------------------------------------------------------------
(* Whatever the database: transactions stay sound, ids unique, and an         *)
(* approved request belongs to a member.                                       *)

\* A step leaves a slot alone, empties it, or opens a request in it.
LEMMA SlotStep ==
  ASSUME TypeOK, IdsFresh, [Next]_vars, NEW q \in Requests
  PROVE  tx'[q] = tx[q] \/ tx'[q] = NoTx \/ (tx[q].op = "none" /\ Accepted(q) /\ UNCHANGED tables)
<1> USE DEF TypeOK
<1>1. ASSUME NEW r \in Requests, Ask(r)
      PROVE  tx'[q] = tx[q] \/ (tx[q].op = "none" /\ Accepted(q) /\ UNCHANGED tables)
  BY <1>1, AskAccepts DEF Accepted, Open
<1>2. ASSUME NEW r \in Requests, Commit(r) PROVE tx'[q] = tx[q] \/ tx'[q] = NoTx
  <2>1. \E rows : Close(r, rows)
    BY <1>2 DEF Commit, CommitUpdate, CommitDelete, CommitAdd, CommitRemove, CommitJoin,
                CommitAlreadyMember, CommitApprove, CommitReject, CommitGrant, CommitRegrant,
                CommitDecideGrant, CommitRevoke
  <2> QED BY <2>1 DEF Close
<1> QED BY <1>1, <1>2 DEF Next, vars, CreateGroup, Fail, DeleteSkill, Moderate

LEMMA SoundStep ==
  ASSUME TypeOK, IdsFresh, [Next]_vars, NEW q \in Requests, Sound(tx[q])
  PROVE  Sound(tx'[q])
BY SlotStep, NoTxHarmless DEF Accepted, Open, TypeOK

\* Deciding requests, and deleting some, makes no new ones.
LEMMA DecidingKeepsIds ==
  ASSUME TypeOK, IdsFresh, NEW r \in Requests, minted' = minted,
         NEW status, joins' \subseteq (joins \ Decided(r)) \cup WithStatus(Decided(r), status)
  PROVE  /\ IdsFresh'
         /\ \A j \in joins' : \E i \in joins : i.id = j.id /\ i.user = j.user
BY DEF TypeOK, Join, IdsFresh, Decided, WithStatus

\* What a step does to the join requests.
LEMMA JoinsStep ==
  ASSUME TypeOK, IdsFresh, [Next]_vars
  PROVE  /\ IdsFresh'
         /\ minted' \in {minted, minted + 1}
         /\ \A j \in joins' : j.id = minted + 1 \/ \E i \in joins : i.id = j.id /\ i.user = j.user
<1> USE DEF TypeOK
<1> DEFINE Goal == /\ IdsFresh'
                   /\ minted' \in {minted, minted + 1}
                   /\ \A j \in joins' : j.id = minted + 1 \/ \E i \in joins : i.id = j.id /\ i.user = j.user
<1>1. CASE joins' \subseteq joins /\ minted' = minted
  BY <1>1, GroupsAssumption DEF IdsFresh
<1>2. ASSUME NEW r \in Requests, CommitJoin(r) PROVE Goal
  <2>1. joins' = joins \cup {[id |-> minted + 1, user |-> tx[r].user, status |-> "pending"]}
    BY <1>2 DEF CommitJoin
  <2>2. minted' = minted + 1 /\ minted \in Nat
    BY <1>2, GroupsAssumption DEF CommitJoin
  <2> QED BY <2>1, <2>2 DEF IdsFresh, Join, JoinIds
<1>3. ASSUME NEW r \in Requests, NEW status, minted' = minted,
             joins' \subseteq (joins \ Decided(r)) \cup WithStatus(Decided(r), status)
      PROVE  Goal
  BY <1>3, DecidingKeepsIds, GroupsAssumption
<1>4. ASSUME NEW r \in Requests, Commit(r) PROVE Goal
  <2>1. CASE CommitAlreadyMember(r)
    BY <2>1, <1>3 DEF CommitAlreadyMember
  <2>2. CASE CommitApprove(r)
    BY <2>2, <1>3 DEF CommitApprove
  <2>3. CASE CommitReject(r)
    BY <2>3, <1>3 DEF CommitReject
  <2> QED BY <1>4, <1>1, <1>2, <2>1, <2>2, <2>3
      DEF Commit, CommitUpdate, CommitDelete, CommitAdd, CommitRemove, CommitGrant, CommitRegrant,
          CommitDecideGrant, CommitRevoke
<1>5. CASE UNCHANGED joins /\ UNCHANGED minted
  BY <1>5, <1>1
<1>6. ASSUME NEW r \in Requests, Ask(r) PROVE Goal
  BY <1>6, <1>5, AskAccepts DEF Accepted, Open, tables
<1> QED BY <1>4, <1>5, <1>6 DEF Next, vars, CreateGroup, Fail, tables, DeleteSkill, Moderate

LEMMA OwnedStep ==
  ASSUME TypeOK, IdsFresh, [Next]_vars, NEW q \in Requests, Owned(tx[q])
  PROVE  Owned(tx[q])' 
<1>1. tx[q].join \in Nat /\ minted \in Nat
  BY GroupsAssumption DEF TypeOK, Tx
<1>2. CASE tx'[q] = tx[q]
  <2>1. tx[q].op = "decide" => tx[q].join <= minted'
    BY <1>1, JoinsStep DEF Owned
  <2>2. ASSUME tx[q].op = "decide", NEW j \in joins', j.id = tx[q].join PROVE j.user = tx[q].user
    BY <1>1, <2>2, JoinsStep DEF Owned
  <2> QED BY <1>2, <2>1, <2>2 DEF Owned
<1>3. CASE tx'[q] = NoTx
  BY <1>3 DEF Owned, NoTx
<1>4. CASE tx[q].op = "none" /\ Accepted(q) /\ UNCHANGED tables
  <2>1. PICK t \in Tx : Open(q, t) /\ Owned(t)
    BY <1>4 DEF Accepted
  <2>2. tx'[q] = t
    BY <2>1 DEF Open, TypeOK
  <2> QED BY <1>4, <2>1, <2>2 DEF Owned, tables
<1> QED BY <1>2, <1>3, <1>4, SlotStep

LEMMA Rejecting ==
  ASSUME TypeOK, NEW r \in Requests,
         joins' \subseteq joins \cup WithStatus(Decided(r), "rejected")
  PROVE  \A j \in joins' : j \in joins \/ j.status = "rejected"
BY DEF TypeOK, Join, Decided, WithStatus

LEMMA ApprovedStep ==
  ASSUME TypeOK, IdsFresh, ApprovedAreMembers, \A r \in Requests : Owned(tx[r]), [Next]_vars
  PROVE  ApprovedAreMembers'
<1> USE DEF TypeOK, ApprovedAreMembers
<1>1. ASSUME NEW r \in Requests, Ask(r) PROVE ApprovedAreMembers'
  BY <1>1, AskAccepts DEF Accepted, Open, tables
<1>2. ASSUME NEW r \in Requests, Commit(r) PROVE ApprovedAreMembers'
  <2>1. CASE CommitUpdate(r)
    BY <2>1 DEF CommitUpdate
  <2>2. CASE CommitDelete(r)
    BY <2>2 DEF CommitDelete
  <2>3. CASE CommitAdd(r)
    <3>1. role' = [role EXCEPT ![tx[r].user] = "member"] /\ joins' = joins
      BY <2>3 DEF CommitAdd
    <3> QED BY <3>1 DEF Join
  <2>4. CASE CommitRemove(r)
    BY <2>4 DEF CommitRemove, Join
  <2>5. CASE CommitJoin(r)
    <3>1. \A j \in joins' : j \in joins \/ j.status = "pending"
      BY <2>5 DEF CommitJoin
    <3> QED BY <2>5, <3>1 DEF CommitJoin
  <2>6. CASE CommitAlreadyMember(r)
    <3>1. \A j \in joins' : j \in joins \/ j.status = "rejected"
      BY <2>6, Rejecting DEF CommitAlreadyMember
    <3> QED BY <2>6, <3>1 DEF CommitAlreadyMember
  <2>7. CASE CommitApprove(r)
    <3>1. \A j \in joins' : j \in joins \/ j.user = tx[r].user
      <4>1. joins' \subseteq joins \cup WithStatus(Decided(r), "approved")
        BY <2>7 DEF CommitApprove
      <4>2. \A j \in Decided(r) : j.user = tx[r].user
        BY <2>7 DEF CommitApprove, Decided, Owned
      <4> QED BY <4>1, <4>2 DEF WithStatus, Decided, Join
    <3>2. role' = [role EXCEPT ![tx[r].user] = "member"]
      BY <2>7 DEF CommitApprove
    <3>3. tx[r].user \in Users
      BY DEF Tx
    <3> QED BY <3>1, <3>2, <3>3 DEF Join
  <2>8. CASE CommitReject(r)
    <3>1. \A j \in joins' : j \in joins \/ j.status = "rejected"
      BY <2>8, Rejecting DEF CommitReject
    <3> QED BY <2>8, <3>1 DEF CommitReject
  <2> QED BY <1>2, <2>1, <2>2, <2>3, <2>4, <2>5, <2>6, <2>7, <2>8
      DEF Commit, CommitGrant, CommitRegrant, CommitDecideGrant, CommitRevoke
<1>3. ASSUME NEW listed \in BOOLEAN, CreateGroup(listed) PROVE ApprovedAreMembers'
  BY <1>3 DEF CreateGroup, Join
<1> QED BY <1>1, <1>2, <1>3 DEF Next, vars, Fail, tables, DeleteSkill, Moderate

Base ==
  /\ TypeOK
  /\ IdsFresh
  /\ \A r \in Requests : Sound(tx[r]) /\ Owned(tx[r])
  /\ ApprovedAreMembers

LEMMA InitBase == Init => Base
BY NoTxTyped, NoTxHarmless, GroupsAssumption
   DEF Init, Base, TypeOK, IdsFresh, ApprovedAreMembers, Group, Roles, GrantStatus

LEMMA BaseStep == Base /\ [Next]_vars => Base'
BY TypeStep, JoinsStep, SoundStep, OwnedStep, ApprovedStep DEF Base

LEMMA BaseHolds == Spec => []Base
BY InitBase, BaseStep, PTL DEF Spec

\* TypeOK, for any numbers of users, Skills and requests in progress.
THEOREM GroupsTypeCorrect == Spec => []TypeOK
<1>1. Base => TypeOK
  BY DEF Base
<1> QED BY <1>1, BaseHolds, PTL

\* An approval on record belongs to a member, for any numbers of users, Skills and
\* requests in progress and on either database.
THEOREM ApprovalsEndWithMembership == Spec => []ApprovedAreMembers
<1>1. Base => ApprovedAreMembers
  BY DEF Base
<1> QED BY <1>1, BaseHolds, PTL

-----------------------------------------------------------------------------
(* On a database that refuses writes to stale rows. *)

\* Without a group nobody is a member.
NobodyWithout == ~Active => \A u \in Users : role[u] = "none"

Consistent ==
  /\ Base
  /\ NobodyWithout
  /\ MemberCountExact
  /\ \A r \in Requests : Current(tx[r])

\* Whoever writes the group's row ends all other transactions that refresh it.
LEMMA ClosingEndsRefreshing ==
  ASSUME SnapshotConflicts, TypeOK, NEW r \in Requests, NEW rows, GroupRow \in rows, Close(r, rows),
         NEW q \in Requests
  PROVE  tx'[q] = NoTx \/ (tx'[q] = tx[q] /\ ~Refreshing(tx[q]))
<1>1. ASSUME Refreshing(tx[q]) PROVE tx[q].op # "none" /\ GroupRow \in Touches(tx[q])
  <2>1. tx[q].op \notin {"none", "apply"} /\ ~AlreadyMember(tx[q])
    BY <1>1 DEF Refreshing, GrantOps, AlreadyMember
  <2> QED BY <2>1 DEF Touches
<1>2. Refreshing(tx[q]) => Doomed(tx[q], rows)
  BY <1>1 DEF Doomed
<1> QED BY <1>2 DEF Close

LEMMA NotRefreshingStaysCurrent ==
  ASSUME NEW q \in Requests, tx'[q] = NoTx \/ (tx'[q] = tx[q] /\ ~Refreshing(tx[q]))
  PROVE  Current(tx[q])'
<1>1. CASE tx'[q] = NoTx
  BY <1>1 DEF NoTx, Current, Refreshing, GrantOps, AlreadyMember
<1>2. CASE tx'[q] = tx[q] /\ ~Refreshing(tx[q])
  BY <1>2 DEF Current, Refreshing, AlreadyMember
<1> QED BY <1>1, <1>2

\* A step that leaves the group, its members, the grants of Skills that are there and
\* the grant at stake alone.
LEMMA UntouchedStaysCurrent ==
  ASSUME TypeOK, NEW q \in Requests, Current(tx[q]), tx'[q] = tx[q], group' = group, role' = role,
         \A k \in Skills : skill'[k] # "gone" => skill[k] # "gone" /\ grant'[k] = grant[k],
         tx[q].op = "judge" => grant'[tx[q].skill] = grant[tx[q].skill]
  PROVE  Current(tx[q])'
BY DEF Current, SeesGrants, Refreshing, AlreadyMember, Active

LEMMA CommitStaysCurrent ==
  ASSUME SnapshotConflicts, Consistent, NEW r \in Requests, Commit(r), NEW q \in Requests
  PROVE  Current(tx[q])'
<1> USE DEF Consistent, Base
<1>1. CASE CommitJoin(r)
  BY <1>1, CloseKeeps, NotRefreshingStaysCurrent, UntouchedStaysCurrent DEF CommitJoin
<1>2. CASE CommitAlreadyMember(r)
  BY <1>2, CloseKeeps, NotRefreshingStaysCurrent, UntouchedStaysCurrent DEF CommitAlreadyMember
<1>3. CASE ~CommitJoin(r) /\ ~CommitAlreadyMember(r)
  <2>1. \E rows : GroupRow \in rows /\ Close(r, rows)
    BY <1>3 DEF Commit, CommitUpdate, CommitDelete, CommitAdd, CommitRemove, CommitApprove,
                CommitReject, CommitGrant, CommitRegrant, CommitDecideGrant, CommitRevoke
  <2> QED BY <2>1, ClosingEndsRefreshing, NotRefreshingStaysCurrent
<1> QED BY <1>1, <1>2, <1>3

LEMMA StaysCurrent ==
  ASSUME SnapshotConflicts, Consistent, [Next]_vars, NEW q \in Requests
  PROVE  Current(tx[q])'
<1> USE DEF Consistent, Base
<1>1. ASSUME NEW r \in Requests, Ask(r) PROVE Current(tx[q])'
  <2>1. PICK t \in Tx : Open(r, t) /\ Current(t)
    BY <1>1, AskAccepts DEF Accepted
  <2>2. group' = group /\ role' = role /\ grant' = grant /\ skill' = skill
    BY <2>1 DEF Open, tables
  <2>3. CASE q = r
    BY <2>1, <2>2, <2>3 DEF Open, TypeOK, Current, SeesGrants, Refreshing, AlreadyMember, Active
  <2>4. CASE q # r
    BY <2>1, <2>2, <2>4, UntouchedStaysCurrent DEF Open, TypeOK
  <2> QED BY <2>3, <2>4
<1>2. ASSUME NEW k \in Skills, DeleteSkill(k) PROVE Current(tx[q])'
  <2>1. CASE tx'[q] = NoTx
    BY <2>1, NotRefreshingStaysCurrent
  <2>2. CASE tx'[q] # NoTx
    <3>1. tx'[q] = tx[q] /\ ~Doomed(tx[q], {GrantRow(k)})
      BY <1>2, <2>2 DEF DeleteSkill
    <3>2. tx[q].op = "judge" => tx[q].skill # k
      BY <3>1 DEF Doomed, Touches, GrantOps, TypeOK, Tx
    <3> QED BY <1>2, <3>1, <3>2, UntouchedStaysCurrent DEF DeleteSkill, TypeOK, Tx
  <2> QED BY <2>1, <2>2
<1>3. ASSUME NEW listed \in BOOLEAN, CreateGroup(listed) PROVE Current(tx[q])'
  <2>1. ~Refreshing(tx[q]) /\ tx'[q] = tx[q]
    BY <1>3 DEF CreateGroup, Current, Active
  <2> QED BY <2>1, NotRefreshingStaysCurrent
<1>4. ASSUME NEW r \in Requests, Fail(r) PROVE Current(tx[q])'
  <2>1. tx'[q] = NoTx \/ tx'[q] = tx[q]
    BY <1>4 DEF Fail, TypeOK
  <2> QED BY <1>4, <2>1, NotRefreshingStaysCurrent, UntouchedStaysCurrent DEF Fail, tables
<1>5. CASE UNCHANGED vars
  BY <1>5, UntouchedStaysCurrent DEF vars
<1>6. ASSUME NEW k \in Skills, NEW status \in {"listed", "hidden"}, Moderate(k, status)
      PROVE  Current(tx[q])'
  BY <1>6, UntouchedStaysCurrent DEF Moderate
<1> QED BY <1>1, <1>2, <1>3, <1>4, <1>5, <1>6, CommitStaysCurrent DEF Next

\* The count a transaction stores, and that the group stays what it was otherwise.
LEMMA RefreshedCounts ==
  ASSUME TypeOK, NEW r \in Requests, NEW f, NEW g, group' = Refreshed(r, f, g)
  PROVE  /\ group'.status = group.status
         /\ Active => group'.members = CountMembers(f)
BY DEF Refreshed, TypeOK, Group

\* The number of members and who is one, kept in step by every commit.
Counted == NobodyWithout /\ MemberCountExact

LEMMA SameCountStays ==
  ASSUME Counted, role' = role, group'.status = group.status, group'.members = group.members
  PROVE  Counted'
BY DEF Counted, NobodyWithout, MemberCountExact, Active, CountMembers

LEMMA RefreshedStaysCounted ==
  ASSUME Active, role' = [u \in Users |-> role'[u]], group'.status = group.status,
         group'.members = CountMembers(role')
  PROVE  Counted'
BY DEF Counted, NobodyWithout, MemberCountExact, Active, CountMembers

LEMMA CreateCounted ==
  ASSUME TypeOK, Counted, NEW listed \in BOOLEAN, CreateGroup(listed)
  PROVE  Counted'
<1>1. \A u \in Users : role[u] = "none"
  BY DEF Counted, NobodyWithout, Active, CreateGroup
<1>2. {u \in Users : role'[u] # "none"} = {Founder}
  BY <1>1, GroupsAssumption DEF CreateGroup, TypeOK
<1>3. Cardinality({Founder}) = 1
  BY FS_Singleton
<1>4. CountMembers(role') = 1
  BY <1>2, <1>3 DEF CountMembers
<1>5. group'.status = "active" /\ group'.members = 1
  BY DEF CreateGroup
<1> QED BY <1>4, <1>5 DEF Counted, NobodyWithout, MemberCountExact, Active, CountMembers

LEMMA CommitCounted ==
  ASSUME SnapshotConflicts, Consistent, NEW r \in Requests, Commit(r)
  PROVE  Counted'
<1> USE DEF Consistent, Base
<1>0. Counted /\ TypeOK /\ Current(tx[r])
  BY DEF Counted
<1>1. CASE CommitUpdate(r) \/ CommitJoin(r) \/ CommitAlreadyMember(r)
  <2>1. role' = role /\ group'.status = group.status /\ group'.members = group.members
    BY <1>0, <1>1 DEF CommitUpdate, CommitJoin, CommitAlreadyMember, TypeOK, Group
  <2> QED BY <1>0, <2>1, SameCountStays
<1>2. CASE CommitDelete(r)
  <2>1. group'.status = "gone" /\ \A u \in Users : role'[u] = "none"
    BY <1>0, <1>2 DEF CommitDelete, TypeOK, Group
  <2> QED BY <2>1 DEF Counted, NobodyWithout, MemberCountExact, Active
<1>3. CASE CommitAdd(r) \/ CommitApprove(r)
  <2>1. Active /\ tx[r].role = role
    BY <1>0, <1>3 DEF CommitAdd, CommitApprove, Current, Refreshing, AlreadyMember
  <2>2. /\ role' = [role EXCEPT ![tx[r].user] = "member"]
        /\ group' = Refreshed(r, [tx[r].role EXCEPT ![tx[r].user] = "member"], tx[r].grant)
    BY <1>3 DEF CommitAdd, CommitApprove
  <2>3. group'.status = group.status /\ group'.members = CountMembers(role')
    BY <1>0, <2>1, <2>2, RefreshedCounts
  <2>4. role' = [u \in Users |-> role'[u]]
    BY <1>0, <2>2 DEF TypeOK
  <2> QED BY <2>1, <2>3, <2>4, RefreshedStaysCounted
<1>4. CASE CommitRemove(r)
  <2>1. Active /\ tx[r].role = role
    BY <1>0, <1>4 DEF CommitRemove, Current, Refreshing
  <2>2. /\ role' = [role EXCEPT ![tx[r].user] = "none"]
        /\ group' = Refreshed(r, [tx[r].role EXCEPT ![tx[r].user] = "none"], tx[r].grant)
    BY <1>4 DEF CommitRemove
  <2>3. group'.status = group.status /\ group'.members = CountMembers(role')
    BY <1>0, <2>1, <2>2, RefreshedCounts
  <2>4. role' = [u \in Users |-> role'[u]]
    BY <1>0, <2>2 DEF TypeOK
  <2> QED BY <2>1, <2>3, <2>4, RefreshedStaysCounted
<1>5. CASE CommitReject(r) \/ CommitGrant(r) \/ CommitRegrant(r) \/ CommitDecideGrant(r) \/ CommitRevoke(r)
  <2>1. Active /\ tx[r].role = role
    BY <1>0, <1>5 DEF CommitReject, CommitGrant, CommitRegrant, CommitDecideGrant, CommitRevoke,
                      Current, Refreshing, AlreadyMember, GrantOps
  <2>2. role' = role /\ \E g : group' = Refreshed(r, tx[r].role, g)
    BY <1>5 DEF CommitReject, CommitGrant, CommitRegrant, CommitDecideGrant, CommitRevoke
  <2>3. group'.status = group.status /\ group'.members = CountMembers(role')
    BY <1>0, <2>1, <2>2, RefreshedCounts
  <2>4. role' = [u \in Users |-> role'[u]]
    BY <1>0, <2>2 DEF TypeOK
  <2> QED BY <2>1, <2>3, <2>4, RefreshedStaysCounted
<1> QED BY <1>1, <1>2, <1>3, <1>4, <1>5 DEF Commit

LEMMA CountedStep ==
  ASSUME SnapshotConflicts, Consistent, [Next]_vars
  PROVE  Counted'
<1> USE DEF Consistent, Base
<1>1. Counted
  BY DEF Counted
<1>2. CASE UNCHANGED <<group, role>>
  BY <1>1, <1>2, SameCountStays
<1>3. ASSUME NEW r \in Requests, Ask(r) PROVE Counted'
  BY <1>2, <1>3, AskAccepts DEF Accepted, Open, tables
<1> QED BY <1>1, <1>2, <1>3, CreateCounted, CommitCounted
    DEF Next, vars, Fail, tables, DeleteSkill, Moderate

LEMMA InitConsistent == Init => Consistent
BY InitBase, NoTxHarmless DEF Init, Consistent, NobodyWithout, MemberCountExact, Active

LEMMA ConsistentStep ==
  ASSUME SnapshotConflicts, Consistent, [Next]_vars
  PROVE  Consistent'
<1>1. Base'
  BY BaseStep DEF Consistent
<1>2. NobodyWithout' /\ MemberCountExact'
  BY CountedStep DEF Counted
<1>3. \A q \in Requests : Current(tx[q])'
  BY StaysCurrent
<1> QED BY <1>1, <1>2, <1>3 DEF Consistent

LEMMA ConsistentHolds == ASSUME SnapshotConflicts PROVE Spec => []Consistent
BY InitConsistent, ConsistentStep, PTL DEF Spec

\* The stored number of members is exact however additions, removals and approvals
\* interleave, for any numbers of users and requests in progress.
THEOREM MembersCounted == ASSUME SnapshotConflicts PROVE Spec => []MemberCountExact
<1>1. Consistent => MemberCountExact
  BY DEF Consistent
<1> QED BY <1>1, ConsistentHolds, PTL

\* Adding a member keeps the limit, for any limit and numbers of users and requests:
\* whoever counted the members before another joined is refused.
LEMMA AddingKeepsLimit ==
  ASSUME Consistent, NEW r \in Requests, CommitAdd(r) \/ CommitApprove(r)
  PROVE  tx[r].free \/ CountMembers(role') <= CountMembers(role) \/ CountMembers(role') <= MaxMembers
<1>1. TypeOK /\ Sound(tx[r]) /\ Current(tx[r])
  BY DEF Consistent, Base
<1>2. tx[r].role = role /\ (role[tx[r].user] # "none" \/ tx[r].free \/ CountMembers(role) < MaxMembers)
  BY <1>1 DEF CommitAdd, CommitApprove, Current, Refreshing, AlreadyMember, Sound
<1>3. role' = [role EXCEPT ![tx[r].user] = "member"]
  BY DEF CommitAdd, CommitApprove
<1>4. role \in [Users -> Roles] /\ tx[r].user \in Users
  BY <1>1 DEF TypeOK, Tx
<1>5. CountMembers(role) \in Nat
  BY CountInNat
<1>6. CountMembers(role') = IF role[tx[r].user] = "none" THEN CountMembers(role) + 1 ELSE CountMembers(role)
  BY <1>3, <1>4, CountAfterAdding
<1>7. MaxMembers \in Nat
  BY GroupsAssumption
<1>8. CASE tx[r].free
  BY <1>8
<1>9. CASE role[tx[r].user] # "none"
  BY <1>5, <1>6, <1>9
<1>10. CASE role[tx[r].user] = "none" /\ CountMembers(role) < MaxMembers
  BY <1>5, <1>6, <1>7, <1>10
<1> QED BY <1>2, <1>8, <1>9, <1>10

THEOREM GroupLimitKept == ASSUME SnapshotConflicts PROVE Spec => LimitKept
<1>1. Consistent /\ [Next]_vars =>
        [\A r \in Requests : CommitAdd(r) \/ CommitApprove(r)
           => tx[r].free \/ CountMembers(role') <= CountMembers(role)
              \/ CountMembers(role') <= MaxMembers]_vars
  BY AddingKeepsLimit
<1> QED BY <1>1, ConsistentHolds, PTL DEF Spec, LimitKept

\* What happens to a grant that was revoked or rejected.
StaysEnded(k) ==
  grant[k] \in {"revoked", "rejected"} /\ grant'[k] \notin {grant[k], "none", "revoked"}
    => \E r \in Requests : CommitRegrant(r) /\ tx[r].skill = k

LEMMA EndedStep ==
  ASSUME Consistent, [Next]_vars, NEW k \in Skills
  PROVE  StaysEnded(k)
<1> USE DEF Consistent, Base, TypeOK
<1>1. CASE UNCHANGED grant
  BY <1>1 DEF StaysEnded
<1>2. ASSUME NEW r \in Requests, Commit(r) PROVE StaysEnded(k)
  <2>1. CASE CommitDelete(r)
    BY <2>1 DEF CommitDelete, StaysEnded
  <2>2. CASE CommitGrant(r)
    BY <2>2 DEF CommitGrant, StaysEnded
  <2>3. CASE CommitRegrant(r)
    BY <2>3 DEF CommitRegrant, StaysEnded
  <2>4. CASE CommitDecideGrant(r)
    <3>1. grant[tx[r].skill] = "pending"
      BY <2>4 DEF CommitDecideGrant, Current, Refreshing, GrantOps
    <3> QED BY <2>4, <3>1 DEF CommitDecideGrant, StaysEnded
  <2>5. CASE CommitRevoke(r)
    BY <2>5 DEF CommitRevoke, StaysEnded
  <2> QED BY <1>1, <1>2, <2>1, <2>2, <2>3, <2>4, <2>5
      DEF Commit, CommitUpdate, CommitAdd, CommitRemove, CommitJoin, CommitAlreadyMember,
          CommitApprove, CommitReject
<1>3. ASSUME NEW l \in Skills, DeleteSkill(l) PROVE StaysEnded(k)
  BY <1>3 DEF DeleteSkill, StaysEnded
<1>4. ASSUME NEW r \in Requests, Ask(r) PROVE StaysEnded(k)
  BY <1>1, <1>4, AskAccepts DEF Accepted, Open, tables
<1> QED BY <1>1, <1>2, <1>3, <1>4 DEF Next, vars, CreateGroup, Fail, tables, Moderate

\* A revocation or rejection ends a grant until it is submitted anew, for any numbers of
\* Skills and requests: a decision in flight is refused.
THEOREM RevocationIsFinal == ASSUME SnapshotConflicts PROVE Spec => RevocationSticks
<1>1. Consistent /\ [Next]_vars =>
        [\A k \in Skills : grant[k] \in {"revoked", "rejected"} /\ grant'[k] \notin {grant[k], "none", "revoked"}
           => \E r \in Requests : CommitRegrant(r) /\ tx[r].skill = k]_vars
  BY EndedStep DEF StaysEnded
<1> QED BY <1>1, ConsistentHolds, PTL DEF Spec, RevocationSticks

-----------------------------------------------------------------------------
(* The stored number of Skills. *)

\* Committing a request that counts, a repeated grant aside.
Counting(r) ==
  CommitAdd(r) \/ CommitRemove(r) \/ CommitApprove(r) \/ CommitReject(r)
  \/ CommitGrant(r) \/ CommitDecideGrant(r) \/ CommitRevoke(r)

\* What the transaction counts are the grants as they are after it.
LEMMA CountsWhatItLeaves ==
  ASSUME Consistent, NEW r \in Requests, Counting(r), \A k \in tx[r].listed : skill[k] # "gone"
  PROVE  \E f, g : /\ group' = Refreshed(r, f, g)
                   /\ \A k \in tx[r].listed : g[k] = grant'[k]
<1> USE DEF Consistent, Base, TypeOK, Tx
<1>1. \A k \in tx[r].listed : tx[r].grant[k] = grant[k]
  BY DEF Counting, Current, SeesGrants, Refreshing, GrantOps, AlreadyMember,
         CommitAdd, CommitRemove, CommitApprove, CommitReject, CommitGrant, CommitDecideGrant,
         CommitRevoke
<1>2. CASE CommitAdd(r) \/ CommitRemove(r) \/ CommitApprove(r) \/ CommitReject(r)
  <2>1. grant' = grant /\ \E f : group' = Refreshed(r, f, tx[r].grant)
    BY <1>2 DEF CommitAdd, CommitRemove, CommitApprove, CommitReject
  <2> QED BY <1>1, <2>1
<1>3. CASE CommitGrant(r) \/ CommitDecideGrant(r) \/ CommitRevoke(r)
  <2>1. PICK status : /\ grant' = [grant EXCEPT ![tx[r].skill] = status]
                      /\ group' = Refreshed(r, tx[r].role, [tx[r].grant EXCEPT ![tx[r].skill] = status])
    BY <1>3, Zenon DEF CommitGrant, CommitDecideGrant, CommitRevoke
  <2>2. \A k \in tx[r].listed : [tx[r].grant EXCEPT ![tx[r].skill] = status][k] = grant'[k]
    BY <1>1, <2>1
  <2> QED BY <2>1, <2>2
<1> QED BY <1>2, <1>3 DEF Counting

LEMMA SkillCountStep ==
  ASSUME Consistent, NEW r \in Requests, Counting(r), \A k \in tx[r].listed : skill[k] # "gone"
  PROVE  group'.skills = Cardinality({k \in tx[r].listed : grant'[k] = "active"})
<1>1. TypeOK /\ Active
  BY DEF Consistent, Base, Counting, Current, Refreshing, GrantOps, AlreadyMember,
         CommitAdd, CommitRemove, CommitApprove, CommitReject, CommitGrant, CommitDecideGrant,
         CommitRevoke
<1>2. PICK f, g : /\ group' = Refreshed(r, f, g)
                  /\ \A k \in tx[r].listed : g[k] = grant'[k]
  BY CountsWhatItLeaves
<1>3. group'.skills = Cardinality({k \in tx[r].listed : g[k] = "active"})
  BY <1>1, <1>2 DEF Refreshed, TypeOK, Group
<1>4. {k \in tx[r].listed : g[k] = "active"} = {k \in tx[r].listed : grant'[k] = "active"}
  BY <1>2
<1> QED BY <1>3, <1>4

\* Whatever the requests in progress do to each other, the number of Skills a request
\* stores is right, for any sets of Skills, users and requests; repeated grants, which
\* are counted before they are flushed, and Skills deleted meanwhile are the exceptions.
THEOREM SkillsCounted == ASSUME SnapshotConflicts PROVE Spec => SkillCountFollows
<1>1. Consistent /\ [Next]_vars =>
        [\A r \in Requests :
           /\ CommitAdd(r) \/ CommitRemove(r) \/ CommitApprove(r) \/ CommitReject(r)
              \/ CommitGrant(r) \/ CommitDecideGrant(r) \/ CommitRevoke(r)
           /\ \A k \in tx[r].listed : skill[k] # "gone"
           => group'.skills = Cardinality({k \in tx[r].listed : grant'[k] = "active"})]_vars
  BY SkillCountStep DEF Counting
<1> QED BY <1>1, ConsistentHolds, PTL DEF Spec, SkillCountFollows

=============================================================================
