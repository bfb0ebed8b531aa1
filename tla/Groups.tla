------------------------------- MODULE Groups -------------------------------
(***************************************************************************)
(* A group, its members, join requests and the Skills granted to it:       *)
(* services/groups.py, repositories/groups_repository.py, models/groups.py *)
(*                                                                         *)
(* A request reads and decides on the snapshot of its transaction, then    *)
(* writes and commits; requests served by different processes interleave   *)
(* between the two.  refresh_counts stores the numbers of members and of   *)
(* granted Skills in the group's row, counted in the same snapshot.        *)
(***************************************************************************)
EXTENDS Naturals, FiniteSets

CONSTANTS
  Users,
  Founder,            \* who may create the group, its only owner
  Publisher,          \* who published the Skills
  Privileged,         \* administrators
  Skills,
  Requests,           \* slots for requests in progress
  MaxMembers,         \* max_members_per_group
  MaxJoins,           \* bound: join requests ever made
  SnapshotConflicts   \* the database refuses writes to rows changed since the snapshot

ASSUME GroupsAssumption ==
  /\ Founder \in Users /\ Publisher \in Users /\ Privileged \subseteq Users
  /\ IsFiniteSet(Users) /\ IsFiniteSet(Skills) /\ Skills # {}
  /\ MaxMembers \in Nat \ {0} /\ MaxJoins \in Nat
  /\ SnapshotConflicts \in BOOLEAN

VARIABLES
  group,   \* the row of market_groups
  role,    \* market_group_members: the role of each user
  joins,   \* market_group_join_requests
  minted,  \* request ids given out so far
  grant,   \* market_group_skill_grants: the status of each Skill
  skill,   \* whether moderation lists the Skill, or it is deleted
  tx       \* requests between their reads and their commit

tables == <<group, role, joins, minted, grant, skill>>
vars == <<group, role, joins, minted, grant, skill, tx>>

-----------------------------------------------------------------------------
(* Rows and transactions. *)

JoinIds == 1..MaxJoins
Roles == {"none", "owner", "member"}
GrantStatus == {"none", "pending", "active", "rejected", "revoked"}
Group == [status : {"none", "active", "gone"}, listed : BOOLEAN, members : Nat, skills : Nat]
Join == [id : JoinIds, user : Users, status : {"pending", "approved", "rejected"}]
Ops == {"none", "update", "delete", "add", "remove", "apply", "decide", "grant", "regrant",
        "judge", "revoke"}

\* Names of rows, for the conflicts of transactions.  Members' rows need none: whoever
\* writes one refreshes the group's row as well.
GroupRow == <<"group">>
JoinRow(j) == <<"join", j.id>>
GrantRow(k) == <<"grant", k>>

\* user, skill, join: what the request is about; arg: its decision; free: whether an
\* administrator adds the member.  The rest is the snapshot.
Tx == [op : Ops, free : BOOLEAN, user : Users, skill : Skills, join : 0..MaxJoins,
       arg : {"none", "approved", "rejected", "active", "pending", "listed", "private"},
       role : [Users -> Roles], recorded : BOOLEAN, grant : [Skills -> GrantStatus],
       listed : SUBSET Skills]

NoTx == [op |-> "none", free |-> FALSE, user |-> Founder, skill |-> CHOOSE k \in Skills : TRUE,
         join |-> 0, arg |-> "none", role |-> [u \in Users |-> "none"], recorded |-> FALSE,
         grant |-> [k \in Skills |-> "none"], listed |-> {}]

Init ==
  /\ group = [status |-> "none", listed |-> FALSE, members |-> 0, skills |-> 0]
  /\ role = [u \in Users |-> "none"]
  /\ joins = {}
  /\ minted = 0
  /\ grant = [k \in Skills |-> "none"]
  /\ skill = [k \in Skills |-> "hidden"]
  /\ tx = [r \in Requests |-> NoTx]

Listed == {k \in Skills : skill[k] = "listed"}

\* A transaction whose reads are done.
Snapshot(op) == [NoTx EXCEPT !.op = op, !.role = role, !.grant = grant, !.listed = Listed]

Open(r, t) == /\ tx[r].op = "none"
              /\ tx' = [tx EXCEPT ![r] = t]
              /\ UNCHANGED tables

\* A decision that finds a member already there does not touch the group's row.
AlreadyMember(t) == t.op = "decide" /\ t.arg = "approved" /\ t.role[t.user] # "none"

GrantOps == {"grant", "regrant", "judge", "revoke"}

\* The rows a transaction is going to write.
WritesJoin(t, j) ==
  \/ t.op = "delete"
  \/ t.op = "remove" /\ j.user = t.user
  \/ t.op = "decide" /\ (j.id = t.join \/ (j.user = t.user /\ j.status = t.arg))
Touches(t) ==
  (IF t.op = "apply" \/ AlreadyMember(t) THEN {} ELSE {GroupRow})
  \cup {JoinRow(j) : j \in {i \in joins' : WritesJoin(t, i)}}
  \cup {GrantRow(k) : k \in {l \in Skills : t.op = "delete" \/ (t.op \in GrantOps /\ l = t.skill)}}

\* Rows are written and committed: transactions that wanted to write one of them as
\* their snapshot has it are doomed, so the model ends them here.
Doomed(t, rows) == SnapshotConflicts /\ t.op # "none" /\ Touches(t) \cap rows # {}
Close(r, rows) ==
  tx' = [q \in Requests |-> IF q = r \/ Doomed(tx[q], rows) THEN NoTx ELSE tx[q]]

\* A transaction fails: conflict, deadlock, lost connection, integrity error.
Fail(r) == /\ tx[r].op # "none"
           /\ tx' = [tx EXCEPT ![r] = NoTx]
           /\ UNCHANGED tables

-----------------------------------------------------------------------------
(* GroupAccessContext. *)

CanManage(u) == u \in Privileged \/ role[u] = "owner"
CanView(u) == u \in Privileged \/ role[u] # "none" \/ group.listed
Active == group.status = "active"
JoinsOf(S, u, status) == {j \in S : j.user = u /\ j.status = status}
CountMembers(roles) == Cardinality({u \in Users : roles[u] # "none"})

\* Mutant: the limit is off by one.
RoomForOneMore(u) == u \in Privileged \/ CountMembers(role) <= MaxMembers

\* The limit binds everybody but administrators.
RoomFor(u) == u \in Privileged \/ CountMembers(role) < MaxMembers

\* refresh_counts: counted in the snapshot with the transaction's own flushed writes.
Refreshed(r, roles, grants) ==
  IF Active
  THEN [group EXCEPT !.members = CountMembers(roles),
                     !.skills = Cardinality({k \in tx[r].listed : grants[k] = "active"})]
  ELSE group

-----------------------------------------------------------------------------
(* The group. *)

CreateGroup(listed) ==
  /\ group.status = "none"
  /\ group' = [status |-> "active", listed |-> listed, members |-> 1, skills |-> 0]
  /\ role' = [role EXCEPT ![Founder] = "owner"]
  /\ UNCHANGED <<joins, minted, grant, skill, tx>>

UpdateGroup(r, u, visibility) ==
  /\ Active /\ CanManage(u) /\ (visibility = "listed") # group.listed
  /\ Open(r, [NoTx EXCEPT !.op = "update", !.arg = visibility])

CommitUpdate(r) ==
  /\ tx[r].op = "update" /\ Active
  /\ group' = [group EXCEPT !.listed = tx[r].arg = "listed"]
  /\ UNCHANGED <<role, joins, minted, grant, skill>>
  /\ Close(r, {GroupRow})

DeleteGroup(r, u) ==
  /\ Active /\ CanManage(u)
  /\ Open(r, [NoTx EXCEPT !.op = "delete"])

CommitDelete(r) ==
  /\ tx[r].op = "delete"
  /\ group' = [group EXCEPT !.status = "gone"]
  /\ role' = [u \in Users |-> "none"]
  /\ joins' = {}
  /\ grant' = [k \in Skills |-> "none"]
  /\ UNCHANGED <<minted, skill>>
  /\ Close(r, {GroupRow} \cup {JoinRow(j) : j \in joins} \cup {GrantRow(k) : k \in Skills})

-----------------------------------------------------------------------------
(* Members. *)

AddMember(r, u, v) ==
  /\ Active /\ CanManage(u)
  /\ role[v] = "none" => RoomFor(u)
  /\ role[v] # "owner"
  /\ Open(r, [Snapshot("add") EXCEPT !.user = v, !.free = u \in Privileged])

\* An administrator joins any group at once.
JoinDirectly(r, u) ==
  /\ Active /\ role[u] = "none" /\ u \in Privileged
  /\ Open(r, [Snapshot("add") EXCEPT !.user = u, !.free = TRUE])

\* The row is updated if the snapshot has one, and inserted otherwise; either fails if
\* the table has come to disagree.
CommitAdd(r) ==
  LET v == tx[r].user
      roles == [tx[r].role EXCEPT ![v] = "member"] IN
  /\ tx[r].op = "add" /\ Active
  /\ (role[v] = "none") <=> (tx[r].role[v] = "none")
  /\ role' = [role EXCEPT ![v] = "member"]
  /\ group' = Refreshed(r, roles, tx[r].grant)
  /\ UNCHANGED <<joins, minted, grant, skill>>
  /\ Close(r, {GroupRow})

RemoveMember(r, u, v) ==
  /\ Active /\ role[v] = "member"
  /\ u = v \/ CanManage(u)
  /\ Open(r, [Snapshot("remove") EXCEPT !.user = v])

\* Mutant: the members are counted before the row is deleted.
CommitRemoveUncounted(r) ==
  LET theirs == {j \in joins : j.user = tx[r].user} IN
  /\ tx[r].op = "remove"
  /\ role' = [role EXCEPT ![tx[r].user] = "none"]
  /\ joins' = joins \ theirs
  /\ group' = Refreshed(r, tx[r].role, tx[r].grant)
  /\ UNCHANGED <<minted, grant, skill>>
  /\ Close(r, {GroupRow} \cup {JoinRow(j) : j \in theirs})

\* Mutant: the join requests of the user stay.
CommitRemoveKeeping(r) ==
  LET roles == [tx[r].role EXCEPT ![tx[r].user] = "none"] IN
  /\ tx[r].op = "remove"
  /\ role' = [role EXCEPT ![tx[r].user] = "none"]
  /\ group' = Refreshed(r, roles, tx[r].grant)
  /\ UNCHANGED <<joins, minted, grant, skill>>
  /\ Close(r, {GroupRow})

\* The user's join requests go too.
CommitRemove(r) ==
  LET v == tx[r].user
      theirs == {j \in joins : j.user = v}
      roles == [tx[r].role EXCEPT ![v] = "none"] IN
  /\ tx[r].op = "remove"
  /\ role' = [role EXCEPT ![v] = "none"]
  /\ joins' = joins \ theirs
  /\ group' = Refreshed(r, roles, tx[r].grant)
  /\ UNCHANGED <<minted, grant, skill>>
  /\ Close(r, {GroupRow} \cup {JoinRow(j) : j \in theirs})

-----------------------------------------------------------------------------
(* Join requests. *)

RequestJoin(r, u) ==
  /\ Active /\ role[u] = "none" /\ u \notin Privileged /\ group.listed
  /\ JoinsOf(joins, u, "pending") = {}
  /\ Open(r, [NoTx EXCEPT !.op = "apply", !.user = u])

\* A second pending request of the user is refused by the unique key.
CommitJoin(r) ==
  LET j == [id |-> minted + 1, user |-> tx[r].user, status |-> "pending"] IN
  /\ tx[r].op = "apply" /\ Active /\ minted < MaxJoins
  /\ JoinsOf(joins, j.user, "pending") = {}
  /\ joins' = joins \cup {j}
  /\ minted' = minted + 1
  /\ UNCHANGED <<group, role, grant, skill>>
  /\ Close(r, {JoinRow(j)})

\* A pending request is decided. Somebody who is a member already is rejected instead.
DecideJoin(r, u, j, verdict) ==
  /\ Active /\ CanManage(u)
  /\ j \in joins /\ j.status = "pending"
  /\ verdict = "approved" /\ role[j.user] = "none" => RoomFor(u)
  /\ Open(r, [Snapshot("decide") EXCEPT
                !.user = j.user, !.join = j.id, !.arg = verdict, !.free = u \in Privileged,
                !.recorded = JoinsOf(joins, j.user, "approved") # {}])

\* The row to update must still be there, whatever its status is now.
Decided(r) == {j \in joins : j.id = tx[r].join}
WithStatus(S, status) == {[j EXCEPT !.status = status] : j \in S}

CommitAlreadyMember(r) ==
  /\ AlreadyMember(tx[r])
  /\ Decided(r) # {} /\ JoinsOf(joins, tx[r].user, "rejected") \subseteq Decided(r)
  /\ joins' = (joins \ Decided(r)) \cup WithStatus(Decided(r), "rejected")
  /\ UNCHANGED <<group, role, minted, grant, skill>>
  /\ Close(r, {JoinRow(j) : j \in Decided(r)})

\* Earlier requests of the user with the same outcome are deleted first.
Superseded(r) == {j \in joins : j.user = tx[r].user /\ j.status = tx[r].arg /\ j.id # tx[r].join}

CommitApprove(r) ==
  LET v == tx[r].user
      roles == [tx[r].role EXCEPT ![v] = "member"]
      \* With an approved request on record this one is deleted instead.
      kept == IF tx[r].recorded
              THEN joins \ Decided(r)
              ELSE (joins \ (Decided(r) \cup Superseded(r))) \cup WithStatus(Decided(r), "approved") IN
  /\ tx[r].op = "decide" /\ tx[r].arg = "approved" /\ tx[r].role[v] = "none"
  /\ Active /\ role[v] = "none" /\ Decided(r) # {}
  /\ role' = [role EXCEPT ![v] = "member"]
  /\ joins' = kept
  /\ group' = Refreshed(r, roles, tx[r].grant)
  /\ UNCHANGED <<minted, grant, skill>>
  /\ Close(r, {GroupRow} \cup {JoinRow(j) : j \in Decided(r) \cup Superseded(r)})

CommitReject(r) ==
  /\ tx[r].op = "decide" /\ tx[r].arg = "rejected" /\ Decided(r) # {}
  /\ joins' = (joins \ (Decided(r) \cup Superseded(r))) \cup WithStatus(Decided(r), "rejected")
  /\ group' = Refreshed(r, tx[r].role, tx[r].grant)
  /\ UNCHANGED <<role, minted, grant, skill>>
  /\ Close(r, {GroupRow} \cup {JoinRow(j) : j \in Decided(r) \cup Superseded(r)})

-----------------------------------------------------------------------------
(* Grants. *)

\* Mutant: the status of a join request is stored for a grant.
GrantSkillAsJoin(r, u, k) ==
  /\ Active /\ CanView(u)
  /\ skill[k] = "listed" /\ (u = Publisher \/ u \in Privileged)
  /\ grant[k] \in {"none", "rejected", "revoked"}
  /\ Open(r, [Snapshot(IF grant[k] = "none" THEN "grant" ELSE "regrant") EXCEPT
                !.skill = k, !.arg = IF CanManage(u) THEN "approved" ELSE "pending"])

\* The publisher offers a listed Skill, an administrator grants it.
GrantSkill(r, u, k) ==
  /\ Active /\ CanView(u)
  /\ skill[k] = "listed" /\ (u = Publisher \/ u \in Privileged)
  /\ grant[k] \in {"none", "rejected", "revoked"}
  /\ Open(r, [Snapshot(IF grant[k] = "none" THEN "grant" ELSE "regrant") EXCEPT
                !.skill = k, !.arg = IF CanManage(u) THEN "active" ELSE "pending"])

CommitGrant(r) ==
  LET k == tx[r].skill
      grants == [tx[r].grant EXCEPT ![k] = tx[r].arg] IN
  /\ tx[r].op = "grant" /\ Active /\ skill[k] # "gone" /\ grant[k] = "none"
  /\ grant' = [grant EXCEPT ![k] = tx[r].arg]
  /\ group' = Refreshed(r, tx[r].role, grants)
  /\ UNCHANGED <<role, joins, minted, skill>>
  /\ Close(r, {GroupRow, GrantRow(k)})

\* Without a flush, refresh_counts does not see the new status.
CommitRegrant(r) ==
  LET k == tx[r].skill IN
  /\ tx[r].op = "regrant" /\ grant[k] # "none"
  /\ grant' = [grant EXCEPT ![k] = tx[r].arg]
  /\ group' = Refreshed(r, tx[r].role, tx[r].grant)
  /\ UNCHANGED <<role, joins, minted, skill>>
  /\ Close(r, {GroupRow, GrantRow(k)})

\* Mutant: a grant is decided whatever its status.
DecideGrantAnyway(r, u, k, verdict) ==
  /\ Active /\ CanManage(u) /\ grant[k] # "none"
  /\ Open(r, [Snapshot("judge") EXCEPT !.skill = k, !.arg = verdict])

DecideGrant(r, u, k, verdict) ==
  /\ Active /\ CanManage(u) /\ grant[k] = "pending"
  /\ Open(r, [Snapshot("judge") EXCEPT !.skill = k, !.arg = verdict])

\* Mutant: as in CommitRegrant, the new status is counted too early.
CommitDecideGrantUnflushed(r) ==
  LET k == tx[r].skill IN
  /\ tx[r].op = "judge" /\ grant[k] # "none"
  /\ grant' = [grant EXCEPT ![k] = tx[r].arg]
  /\ group' = Refreshed(r, tx[r].role, tx[r].grant)
  /\ UNCHANGED <<role, joins, minted, skill>>
  /\ Close(r, {GroupRow, GrantRow(k)})

CommitDecideGrant(r) ==
  LET k == tx[r].skill
      grants == [tx[r].grant EXCEPT ![k] = tx[r].arg] IN
  /\ tx[r].op = "judge" /\ grant[k] # "none"
  /\ grant' = [grant EXCEPT ![k] = tx[r].arg]
  /\ group' = Refreshed(r, tx[r].role, grants)
  /\ UNCHANGED <<role, joins, minted, skill>>
  /\ Close(r, {GroupRow, GrantRow(k)})

RevokeSkill(r, u, k) ==
  /\ Active /\ (CanManage(u) \/ u = Publisher)
  /\ grant[k] \notin {"none", "revoked"}
  /\ Open(r, [Snapshot("revoke") EXCEPT !.skill = k])

CommitRevoke(r) ==
  LET k == tx[r].skill
      grants == [tx[r].grant EXCEPT ![k] = "revoked"] IN
  /\ tx[r].op = "revoke" /\ grant[k] # "none"
  /\ grant' = [grant EXCEPT ![k] = "revoked"]
  /\ group' = Refreshed(r, tx[r].role, grants)
  /\ UNCHANGED <<role, joins, minted, skill>>
  /\ Close(r, {GroupRow, GrantRow(k)})

-----------------------------------------------------------------------------
(* The Skills: moderation, and deletion with every grant of the Skill. *)

Moderate(k, status) ==
  /\ skill[k] \notin {"gone", status}
  /\ skill' = [skill EXCEPT ![k] = status]
  /\ UNCHANGED <<group, role, joins, minted, grant, tx>>

DeleteSkill(k) ==
  /\ skill[k] # "gone"
  /\ skill' = [skill EXCEPT ![k] = "gone"]
  /\ grant' = [grant EXCEPT ![k] = "none"]
  /\ UNCHANGED <<group, role, joins, minted>>
  /\ tx' = [q \in Requests |-> IF Doomed(tx[q], {GrantRow(k)}) THEN NoTx ELSE tx[q]]

-----------------------------------------------------------------------------

Ask(r) == \E u \in Users :
  \/ \E visibility \in {"listed", "private"} : UpdateGroup(r, u, visibility)
  \/ DeleteGroup(r, u)
  \/ \E v \in Users : AddMember(r, u, v) \/ RemoveMember(r, u, v)
  \/ JoinDirectly(r, u) \/ RequestJoin(r, u)
  \/ \E j \in joins, verdict \in {"approved", "rejected"} : DecideJoin(r, u, j, verdict)
  \/ \E k \in Skills : GrantSkill(r, u, k) \/ RevokeSkill(r, u, k)
  \/ \E k \in Skills, verdict \in {"active", "rejected"} : DecideGrant(r, u, k, verdict)

Commit(r) ==
  \/ CommitUpdate(r) \/ CommitDelete(r) \/ CommitAdd(r) \/ CommitRemove(r)
  \/ CommitJoin(r) \/ CommitAlreadyMember(r) \/ CommitApprove(r) \/ CommitReject(r)
  \/ CommitGrant(r) \/ CommitRegrant(r) \/ CommitDecideGrant(r) \/ CommitRevoke(r)

Next ==
  \/ \E listed \in BOOLEAN : CreateGroup(listed)
  \/ \E r \in Requests : Ask(r) \/ Commit(r) \/ Fail(r)
  \/ \E k \in Skills : DeleteSkill(k) \/ \E status \in {"listed", "hidden"} : Moderate(k, status)

Spec == Init /\ [][Next]_vars

-----------------------------------------------------------------------------
(* Properties. *)

TypeOK ==
  /\ group \in Group /\ role \in [Users -> Roles] /\ joins \subseteq Join
  /\ minted \in 0..MaxJoins /\ grant \in [Skills -> GrantStatus]
  /\ skill \in [Skills -> {"hidden", "listed", "gone"}]
  /\ tx \in [Requests -> Tx]

\* The stored number of members is the number of members, however additions, removals
\* and approvals of several processes interleave (refresh_counts).
MemberCountExact == Active => group.members = CountMembers(role)

\* Nobody but an administrator takes the group past its limit, not even two approvals
\* that counted the same members (max_members_per_group).
LimitKept ==
  [][\A r \in Requests : CommitAdd(r) \/ CommitApprove(r)
       => tx[r].free \/ CountMembers(role') <= CountMembers(role)
          \/ CountMembers(role') <= MaxMembers]_vars

\* An approved request on record belongs to a member: leaving the group, or being
\* removed from it, ends what an earlier approval allowed.
ApprovedAreMembers == \A j \in joins : j.status = "approved" => role[j.user] # "none"

\* A grant that was revoked or rejected comes back only when somebody submits it anew:
\* a decision that was already under way does not bring it back.
RevocationSticks ==
  [][\A k \in Skills : grant[k] \in {"revoked", "rejected"} /\ grant'[k] \notin {grant[k], "none", "revoked"}
       => \E r \in Requests : CommitRegrant(r) /\ tx[r].skill = k]_vars

\* Every request that counts the Skills, but a repeated grant, stores the number of
\* granted Skills among those that were listed when it looked, whatever other requests
\* do meanwhile; only the deletion of one of those Skills goes unnoticed.
SkillCountFollows ==
  [][\A r \in Requests :
       /\ CommitAdd(r) \/ CommitRemove(r) \/ CommitApprove(r) \/ CommitReject(r)
          \/ CommitGrant(r) \/ CommitDecideGrant(r) \/ CommitRevoke(r)
       /\ \A k \in tx[r].listed : skill[k] # "gone"
       => group'.skills = Cardinality({k \in tx[r].listed : grant'[k] = "active"})]_vars

=============================================================================
