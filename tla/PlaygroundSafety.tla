-------------------------- MODULE PlaygroundSafety --------------------------
(***************************************************************************)
(* What Playground guarantees for every set of sessions and pods and every *)
(* limit: its types, the concurrency limit and the daily count of a user,  *)
(* and that pods, tokens and Skills belong to one session.                 *)
(*                                                                         *)
(* The argument: destroy takes the lease out of the session in the step    *)
(* that unbinds its token, so a pod has one keeper at a time and a token   *)
(* speaks for whoever keeps the pod; a session whose Skill is still being  *)
(* loaded then has no lease, and is one that was ended early.              *)
(***************************************************************************)
EXTENDS Playground, FiniteSetTheorems, TLAPS

-----------------------------------------------------------------------------
(* The inductive invariant. *)

\* A request uses the user's entry from its arrival to its end, and one at a time holds its lock.
Locks ==
  /\ \A s \in Sessions : lockOf[s] # 0 <=> req[s] \in {"waiting"} \cup Holding
  /\ \A s \in Sessions : lockOf[s] # 0 => lockOf[s] = entry
  /\ \A s, t \in Sessions : req[s] \in Holding /\ req[t] \in Holding => s = t

\* Whoever is forwarded has room on the record.
RoomKept == (\E s \in Sessions : req[s] = "forwarded") => Cardinality(registered) < MaxConcurrent

\* A session is created once, from the call of a request that was admitted.
CalledOnce == \A s \in Sessions :
  /\ s \in calls => init[s] = "none"
  /\ req[s] \in {"unborn", "waiting", "probing"} => s \notin calls /\ init[s] = "none"

\* What a session holds while its Skill is being loaded, and before.
LoadingSound == \A s \in Sessions :
  /\ init[s] \in {"none", "acquiring"} => lease[s] = None /\ status[s] # "ready"
  /\ Loading(s) => leased[s] \in Pods /\ lease[s] \in {None, leased[s]} /\ status[s] # "ready"
  /\ Loading(s) /\ lease[s] = None => s \in early

\* No session and no handler keeps a pod.
Unkept(p) ==
  /\ \A s \in Sessions : lease[s] # p
  /\ \A s \in Sessions, e \in Enders : hand[s][e] # p

\* A pod that was never created is nowhere.
Uncreated == \A p \in Pods : pod[p] = "none" => p \notin idle /\ Unkept(p) /\ content[p] = None

\* LeaseExclusive, said of the sessions and handlers themselves.
Apart == \A p \in Pods :
  /\ p \in idle => Unkept(p)
  /\ \A s, t \in Sessions : lease[s] = p /\ lease[t] = p => s = t
  /\ \A s, t \in Sessions, e \in Enders : ~(lease[s] = p /\ hand[t][e] = p)
  /\ \A s, t \in Sessions, d, e \in Enders : hand[s][d] = p /\ hand[t][e] = p => s = t /\ d = e

Pooled == LoadingSound /\ Uncreated /\ Apart /\ TokensFollowLeases /\ OwnSkill

Safe ==
  TypeOK /\ Locks /\ ConcurrencyKept /\ RoomKept /\ SessionsCharged /\ CalledOnce /\ Pooled

-----------------------------------------------------------------------------
(* Types. *)

LEMMA SessionsCounted ==
  /\ Cardinality(Sessions) \in Nat
  /\ \A S \in SUBSET Sessions : IsFiniteSet(S) /\ Cardinality(S) \in Nat
BY PlaygroundAssumption, FS_CardinalityType, FS_Subset

LEMMA OneMore ==
  ASSUME NEW S \in SUBSET Sessions, NEW s \in Sessions
  PROVE  Cardinality(S \cup {s}) <= Cardinality(S) + 1
<1>1. IsFiniteSet(S) /\ Cardinality(S) \in Nat
  BY SessionsCounted
<1>2. Cardinality(S \cup {s}) = IF s \in S THEN Cardinality(S) ELSE Cardinality(S) + 1
  BY <1>1, FS_AddElement
<1> QED BY <1>1, <1>2

\* A user without an entry gets one that nobody uses.
LEMMA FreshTyped ==
  ASSUME TypeOK, Locks, entry = 0, NEW s \in Sessions
  PROVE  Fresh \in 1..Cardinality(Sessions)
<1>1. Users(1) = {}
  BY DEF Users, Locks, TypeOK
<1>2. Cardinality(Sessions) # 0
  BY PlaygroundAssumption, FS_EmptySet
<1>3. 1 \in 1..Cardinality(Sessions)
  BY <1>2, SessionsCounted
<1> QED BY <1>1, <1>3 DEF Fresh

LEMMA LeaveTyped ==
  ASSUME TypeOK, NEW s \in Sessions, NEW outcome \in {"refused", "granted"}, Leave(s, outcome)
  PROVE  /\ req' \in [Sessions -> Requests]
         /\ entry' \in 0..Cardinality(Sessions)
         /\ lockOf' \in [Sessions -> 0..Cardinality(Sessions)]
BY SessionsCounted DEF TypeOK, Leave, Requests

LEMMA RefundTyped ==
  ASSUME TypeOK, NEW s \in Sessions, Refund(s)
  PROVE  used' \in 0..DailyLimit /\ strays' \in Nat /\ today' \subseteq Sessions
BY PlaygroundAssumption DEF TypeOK, Refund

LEMMA ProxyTyped ==
  ASSUME TypeOK, Locks, NEW s \in Sessions, Proxy(s)
  PROVE  TypeOK'
<1> USE DEF TypeOK, netVars, runnerVars, podVars
<1>1. CASE Arrive(s)
  <2>1. (IF entry = 0 THEN Fresh ELSE entry) \in 0..Cardinality(Sessions)
    BY FreshTyped, SessionsCounted
  <2> QED BY <1>1, <2>1 DEF Arrive, Requests
<1>2. CASE Enter(s)
  BY <1>2 DEF Enter, Requests, Holding
<1>3. ASSUME NEW gone \in SUBSET registered, Conflict(s, gone) \/ QuotaExceeded(s, gone)
      PROVE  TypeOK'
  BY <1>3, LeaveTyped DEF Conflict, QuotaExceeded
<1>4. ASSUME NEW gone \in SUBSET registered, Admit(s, gone)
      PROVE  TypeOK'
  <2>1. used' \in 0..DailyLimit
    BY <1>4, PlaygroundAssumption DEF Admit
  <2> QED BY <1>4, <2>1 DEF Admit, Requests, Holding
<1>5. CASE ChargeFails(s)
  BY <1>5, LeaveTyped DEF ChargeFails
<1>6. CASE Register(s)
  BY <1>6, LeaveTyped DEF Register
<1>7. CASE Refused(s)
  BY <1>7, LeaveTyped, RefundTyped DEF Refused
<1>8. CASE AnswerLost(s)
  BY <1>8, LeaveTyped, RefundTyped DEF AnswerLost
<1>9. CASE Release(s)
  BY <1>9 DEF Release
<1> QED BY <1>1, <1>2, <1>3, <1>4, <1>5, <1>6, <1>7, <1>8, <1>9 DEF Proxy, Probes, Concludes

LEMMA DestroyTyped ==
  ASSUME TypeOK, NEW s \in Sessions, NEW e \in Enders, Destroy(s, e)
  PROVE  /\ hand' \in [Sessions -> [Enders -> Pods \cup {None}]]
         /\ lease' \in [Sessions -> Pods \cup {None}]
         /\ bound' \in [Pods -> Sessions \cup {None}]
         /\ early' \subseteq Sessions
BY DEF TypeOK, Destroy

LEMMA ReturnPodTyped ==
  ASSUME TypeOK, NEW p \in Pods, NEW healthy \in BOOLEAN, ReturnPod(p, healthy)
  PROVE  /\ idle' \subseteq Pods
         /\ pod' \in [Pods -> {"none", "runs", "gone"}]
         /\ content' \in [Pods -> Sessions \cup {None}]
<1>1. CASE healthy /\ Cardinality(idle) < MaxIdle
  BY <1>1 DEF TypeOK, ReturnPod
<1>2. CASE ~(healthy /\ Cardinality(idle) < MaxIdle)
  BY <1>2 DEF TypeOK, ReturnPod
<1> QED BY <1>1, <1>2

LEMMA RunnerTyped ==
  ASSUME TypeOK, NEW s \in Sessions, Runner(s)
  PROVE  TypeOK'
<1> USE DEF TypeOK, proxyVars, netVars, runnerVars, podVars
<1>1. CASE CreateSession(s)
  BY <1>1 DEF CreateSession
<1>2. CASE RunnerFull(s)
  BY <1>2 DEF RunnerFull
<1>3. ASSUME NEW p \in Pods, AcquireIdle(s, p) \/ AcquireNew(s, p)
      PROVE  TypeOK'
  <2>1. CASE AcquireIdle(s, p)
    BY <2>1 DEF AcquireIdle, Take
  <2>2. CASE AcquireNew(s, p)
    BY <2>2 DEF AcquireNew, Take
  <2> QED BY <1>3, <2>1, <2>2
<1>4. ASSUME NEW p \in Pods, Discard(s, p)
      PROVE  TypeOK'
  BY <1>4 DEF Discard
<1>5. CASE AcquireFails(s)
  BY <1>5 DEF AcquireFails
<1>6. CASE Provision(s)
  BY <1>6 DEF Provision
<1>7. CASE Provisioned(s)
  BY <1>7 DEF Provisioned
<1>8. CASE ProvisionFails(s)
  BY <1>8 DEF ProvisionFails
<1>9. CASE EndSession(s)
  BY <1>9, DestroyTyped DEF EndSession, Enders
<1>10. CASE EndUnknownSession(s)
  BY <1>10 DEF EndUnknownSession
<1>11. CASE Reap(s)
  BY <1>11, DestroyTyped DEF Reap, Enders
<1>12. ASSUME NEW e \in Enders, Ended(s, e)
       PROVE  TypeOK'
  <2>1. CASE hand[s][e] = None
    BY <1>12, <2>1 DEF Ended
  <2>2. CASE hand[s][e] # None
    <3>1. PICK healthy \in BOOLEAN : ReturnPod(hand[s][e], healthy)
      BY <1>12, <2>2 DEF Ended
    <3>2. hand[s][e] \in Pods
      BY <2>2
    <3> QED BY <1>12, <3>1, <3>2, ReturnPodTyped DEF Ended
  <2> QED BY <2>1, <2>2
<1> QED BY <1>1, <1>2, <1>3, <1>4, <1>5, <1>6, <1>7, <1>8, <1>9, <1>10, <1>11, <1>12
    DEF Runner, Acquire, Loads, Ends

LEMMA TypeStep ==
  ASSUME TypeOK, Locks, [Next]_vars
  PROVE  TypeOK'
<1> USE DEF TypeOK, proxyVars, netVars, runnerVars, podVars
<1>1. CASE UNCHANGED vars
  BY <1>1 DEF vars
<1>2. CASE Midnight
  BY <1>2, PlaygroundAssumption DEF Midnight
<1>3. CASE WarmFails
  BY <1>3 DEF WarmFails
<1>4. CASE RestartProxy
  BY <1>4, PlaygroundAssumption, SessionsCounted DEF RestartProxy, Requests
<1>5. CASE RestartRunner
  BY <1>5, PlaygroundAssumption DEF RestartRunner
<1>6. ASSUME NEW p \in Pods, Warm(p)
      PROVE  TypeOK'
  <2>1. IsFiniteSet(idle') /\ Cardinality(idle') \in Nat
    BY <1>6, PlaygroundAssumption, FS_Subset, FS_CardinalityType DEF Warm
  <2>2. warming' \in BOOLEAN
    BY <1>6, <2>1, PlaygroundAssumption DEF Warm
  <2> QED BY <1>6, <2>2 DEF Warm
<1>7. ASSUME NEW p \in Pods, PodDies(p)
      PROVE  TypeOK'
  BY <1>7 DEF PodDies
<1> QED BY <1>1, <1>2, <1>3, <1>4, <1>5, <1>6, <1>7, ProxyTyped, RunnerTyped DEF Next, Outside

-----------------------------------------------------------------------------
(* The proxy and the skill-runner change what is their own. *)

LEMMA RunnerLeavesProxy ==
  ASSUME NEW s \in Sessions, Runner(s)
  PROVE  UNCHANGED proxyVars
BY DEF Runner, CreateSession, RunnerFull, Acquire, AcquireIdle, AcquireNew, Take, Discard, AcquireFails,
       Loads, Provision, Provisioned, ProvisionFails, EndSession, EndUnknownSession, Reap, Ends, Ended

LEMMA ProxyLeavesRunner ==
  ASSUME NEW s \in Sessions, Proxy(s)
  PROVE  UNCHANGED <<runnerVars, podVars>>
BY DEF Proxy, Arrive, Enter, Probes, Conflict, QuotaExceeded, Admit, ChargeFails, Concludes, Register,
       Refused, AnswerLost, Release

LEMMA OutsideLeavesProxy ==
  ASSUME Outside, ~Midnight, ~RestartProxy
  PROVE  UNCHANGED proxyVars
BY DEF Outside, WarmFails, RestartRunner, Warm, PodDies

-----------------------------------------------------------------------------
(* The lock of the user. *)

LEMMA LeaveLocks ==
  ASSUME TypeOK, Locks, NEW s \in Sessions, NEW outcome \in {"refused", "granted"},
         req[s] \in Holding, Leave(s, outcome)
  PROVE  Locks'
BY DEF TypeOK, Locks, Leave, Users, Holding

LEMMA LocksStep ==
  ASSUME TypeOK, Locks, [Next]_vars
  PROVE  Locks'
<1> USE DEF Locks
<1>1. CASE UNCHANGED proxyVars
  BY <1>1 DEF proxyVars
<1>2. CASE Midnight
  BY <1>2 DEF Midnight
<1>3. CASE RestartProxy
  BY <1>3 DEF RestartProxy, Holding
<1>4. ASSUME NEW s \in Sessions, Proxy(s)
      PROVE  Locks'
  <2>1. CASE Arrive(s)
    <3> DEFINE e == IF entry = 0 THEN Fresh ELSE entry
    <3>1. e # 0
      BY FreshTyped, SessionsCounted
    <3>2. \A t \in Sessions : lockOf[t] # 0 => lockOf[t] = e
      OBVIOUS
    <3>3. entry' = e /\ lockOf' = [lockOf EXCEPT ![s] = e] /\ req' = [req EXCEPT ![s] = "waiting"]
      BY <2>1 DEF Arrive
    <3> HIDE DEF e
    <3> QED BY <3>1, <3>2, <3>3 DEF TypeOK, Holding
  <2>2. CASE Enter(s)
    <3>1. \A t \in Sessions : req[t] \notin Holding
      BY <2>2 DEF Enter, Users, Holding, TypeOK
    <3> QED BY <2>2, <3>1 DEF Enter, Holding, TypeOK
  <2>3. CASE Probes(s) \/ ChargeFails(s)
    <3>1. ASSUME NEW gone, Admit(s, gone) PROVE Locks'
      BY <3>1 DEF Admit, Holding, TypeOK
    <3> QED BY <2>3, <3>1, LeaveLocks DEF Probes, Conflict, QuotaExceeded, ChargeFails, Holding
  <2>4. CASE Concludes(s)
    BY <2>4, LeaveLocks DEF Concludes, Register, Refused, AnswerLost, Holding
  <2>5. CASE Release(s)
    BY <2>5 DEF Release
  <2> QED BY <1>4, <2>1, <2>2, <2>3, <2>4, <2>5 DEF Proxy
<1> QED BY <1>1, <1>2, <1>3, <1>4, RunnerLeavesProxy, OutsideLeavesProxy DEF Next, vars

-----------------------------------------------------------------------------
(* Limit and charges. *)

\* A record that only shrinks, while nobody is newly forwarded, keeps its room.
LEMMA FewerKept ==
  ASSUME TypeOK, ConcurrencyKept, RoomKept, registered' \subseteq registered,
         \A t \in Sessions : req'[t] = "forwarded" => req[t] = "forwarded"
  PROVE  ConcurrencyKept' /\ RoomKept'
<1>1. Cardinality(registered') <= Cardinality(registered) /\ Cardinality(registered') \in Nat
  BY SessionsCounted, FS_Subset DEF TypeOK
<1>2. Cardinality(registered) \in Nat
  BY SessionsCounted DEF TypeOK
<1> QED BY <1>1, <1>2, PlaygroundAssumption DEF ConcurrencyKept, RoomKept

LEMMA RoomStep ==
  ASSUME TypeOK, Locks, ConcurrencyKept, RoomKept, [Next]_vars
  PROVE  ConcurrencyKept' /\ RoomKept'
<1>1. CASE UNCHANGED proxyVars
  BY <1>1 DEF proxyVars, ConcurrencyKept, RoomKept
<1>2. CASE Midnight
  BY <1>2, FewerKept DEF Midnight
<1>3. CASE RestartProxy
  BY <1>3, FewerKept DEF RestartProxy, TypeOK, Holding
<1>4. ASSUME NEW s \in Sessions, Proxy(s)
      PROVE  ConcurrencyKept' /\ RoomKept'
  <2>1. ASSUME NEW gone \in SUBSET registered, Admit(s, gone)
        PROVE  ConcurrencyKept' /\ RoomKept'
    <3>1. Cardinality(registered') < MaxConcurrent /\ Cardinality(registered') \in Nat
      BY <2>1, SessionsCounted DEF Admit, TypeOK
    <3> QED BY <3>1, PlaygroundAssumption DEF ConcurrencyKept, RoomKept
  <2>2. CASE Register(s)
    <3>1. Cardinality(registered) < MaxConcurrent
      BY <2>2 DEF Register, RoomKept
    <3>2. Cardinality(registered') <= Cardinality(registered) + 1
      BY <2>2, OneMore DEF Register, TypeOK
    <3>3. Cardinality(registered) \in Nat /\ Cardinality(registered') \in Nat
      BY <2>2, SessionsCounted DEF Register, TypeOK
    <3>4. \A t \in Sessions : req'[t] # "forwarded"
      BY <2>2 DEF Register, Leave, Locks, Holding, TypeOK
    <3> QED BY <3>1, <3>2, <3>3, <3>4, PlaygroundAssumption DEF ConcurrencyKept, RoomKept
  <2>3. CASE /\ ~Register(s)
             /\ ~\E gone \in SUBSET registered : Admit(s, gone)
    <3>1. registered' \subseteq registered
      BY <1>4, <2>3 DEF Proxy, Arrive, Enter, Probes, Conflict, QuotaExceeded, ChargeFails, Concludes,
                        Refused, AnswerLost, Release
    <3>2. \A t \in Sessions : req'[t] = "forwarded" => req[t] = "forwarded"
      BY <1>4, <2>3 DEF Proxy, Arrive, Enter, Probes, Conflict, QuotaExceeded, ChargeFails, Concludes,
                        Refused, AnswerLost, Release, Leave, TypeOK
    <3> QED BY <3>1, <3>2, FewerKept
  <2> QED BY <2>1, <2>2, <2>3
<1> QED BY <1>1, <1>2, <1>3, <1>4, RunnerLeavesProxy, OutsideLeavesProxy DEF Next, vars

\* The sessions today's count must cover.
Charged == {s \in today : req[s] \in {"forwarded", "granted"}}

LEMMA FewerCharged ==
  ASSUME TypeOK, SessionsCharged, Charged' \subseteq Charged, used' = used, strays' = strays
  PROVE  SessionsCharged'
<1>1. Charged \in SUBSET Sessions
  BY DEF Charged, TypeOK
<1>2. Cardinality(Charged') <= Cardinality(Charged) /\ Cardinality(Charged') \in Nat
  BY <1>1, SessionsCounted, FS_Subset
<1>3. Cardinality(Charged) \in Nat
  BY <1>1, SessionsCounted
<1> QED BY <1>2, <1>3, PlaygroundAssumption DEF SessionsCharged, Charged, TypeOK

\* Giving a charge back leaves enough for the others.
LEMMA RefundCharged ==
  ASSUME TypeOK, TypeOK', SessionsCharged, NEW s \in Sessions, req[s] = "forwarded",
         Refund(s), Leave(s, "refused")
  PROVE  SessionsCharged'
<1>1. Charged \in SUBSET Sessions
  BY DEF Charged, TypeOK
<1>2. Charged' = Charged \ {s}
  BY DEF Charged, Refund, Leave, TypeOK
<1>3. s \in Charged <=> s \in today
  BY DEF Charged
<1>4. /\ Cardinality(Charged) \in Nat
      /\ Cardinality(Charged') = IF s \in Charged THEN Cardinality(Charged) - 1 ELSE Cardinality(Charged)
  BY <1>1, <1>2, SessionsCounted, FS_RemoveElement
<1>5. used \in Nat /\ strays \in Nat /\ Cardinality(Charged) <= used + strays
  BY PlaygroundAssumption DEF TypeOK, SessionsCharged, Charged
<1>6. Cardinality(Charged') <= used' + strays'
  BY <1>3, <1>4, <1>5 DEF Refund
<1> QED BY <1>6 DEF SessionsCharged, Charged

LEMMA ChargedStep ==
  ASSUME TypeOK, TypeOK', SessionsCharged, [Next]_vars
  PROVE  SessionsCharged'
<1>1. CASE UNCHANGED proxyVars
  BY <1>1 DEF proxyVars, SessionsCharged
<1>2. CASE Midnight
  <2>1. Charged' = {} /\ used' + strays' = 0
    BY <1>2 DEF Midnight, Charged
  <2> QED BY <2>1, FS_EmptySet DEF SessionsCharged, Charged
<1>3. CASE RestartProxy
  BY <1>3, FewerCharged DEF RestartProxy, Charged, Holding, TypeOK
<1>4. ASSUME NEW s \in Sessions, Proxy(s)
      PROVE  SessionsCharged'
  <2>1. ASSUME NEW gone \in SUBSET registered, Admit(s, gone)
        PROVE  SessionsCharged'
    <3>1. Charged \in SUBSET Sessions /\ Charged' \subseteq Charged \cup {s}
      BY <2>1 DEF Charged, Admit, TypeOK
    <3>2. Charged \cup {s} \in SUBSET Sessions /\ Cardinality(Charged) \in Nat
      BY <3>1, SessionsCounted
    <3>3. Cardinality(Charged \cup {s}) <= Cardinality(Charged) + 1
      BY <3>1, OneMore
    <3>4. IsFiniteSet(Charged \cup {s}) /\ Cardinality(Charged \cup {s}) \in Nat
      BY <3>2, SessionsCounted
    <3>5. Cardinality(Charged') <= Cardinality(Charged \cup {s}) /\ Cardinality(Charged') \in Nat
      BY <3>1, <3>4, FS_Subset, FS_CardinalityType
    <3>6. used' = used + 1 /\ strays' = strays /\ used \in Nat /\ strays \in Nat
          /\ Cardinality(Charged) <= used + strays
      BY <2>1, PlaygroundAssumption DEF Admit, TypeOK, SessionsCharged, Charged
    <3>7. Cardinality(Charged') <= used' + strays'
      BY <3>2, <3>3, <3>4, <3>5, <3>6
    <3> QED BY <3>7 DEF SessionsCharged, Charged
  <2>2. CASE Refused(s) \/ AnswerLost(s)
    BY <2>2, RefundCharged DEF Refused, AnswerLost
  <2>3. CASE ~Refused(s) /\ ~AnswerLost(s) /\ ~\E gone \in SUBSET registered : Admit(s, gone)
    <3>1. used' = used /\ strays' = strays /\ today' = today
      BY <1>4, <2>3 DEF Proxy, Arrive, Enter, Probes, Conflict, QuotaExceeded, ChargeFails, Concludes,
                        Register, Release
    <3>2. \A t \in Sessions : req'[t] \in {"forwarded", "granted"} => req[t] \in {"forwarded", "granted"}
      <4>1. CASE Arrive(s) \/ Enter(s) \/ Release(s)
        BY <4>1 DEF Arrive, Enter, Release, TypeOK
      <4>2. CASE Probes(s) \/ ChargeFails(s)
        <5>1. req' = [req EXCEPT ![s] = "refused"]
          BY <2>3, <4>2 DEF Probes, Conflict, QuotaExceeded, ChargeFails, Leave
        <5> QED BY <5>1 DEF TypeOK
      <4>3. CASE Concludes(s)
        <5>1. req[s] = "forwarded" /\ req' = [req EXCEPT ![s] = "granted"]
          BY <2>3, <4>3 DEF Concludes, Register, Leave
        <5> QED BY <5>1 DEF TypeOK
      <4> QED BY <1>4, <4>1, <4>2, <4>3 DEF Proxy
    <3>3. Charged' \subseteq Charged
      BY <3>1, <3>2 DEF Charged, TypeOK
    <3> QED BY <3>1, <3>3, FewerCharged
  <2> QED BY <2>1, <2>2, <2>3
<1> QED BY <1>1, <1>2, <1>3, <1>4, RunnerLeavesProxy, OutsideLeavesProxy DEF Next, vars

-----------------------------------------------------------------------------
(* Creation. *)

LEMMA CalledStep ==
  ASSUME TypeOK, CalledOnce, [Next]_vars
  PROVE  CalledOnce'
<1> USE DEF CalledOnce
<1>1. CASE UNCHANGED <<req, calls, init>>
  BY <1>1
<1>2. CASE RestartProxy
  BY <1>2 DEF RestartProxy, netVars, runnerVars, Holding, TypeOK
<1>3. CASE RestartRunner
  BY <1>3 DEF RestartRunner, proxyVars, TypeOK
<1>4. ASSUME NEW s \in Sessions, Proxy(s)
      PROVE  CalledOnce'
  <2>1. init' = init
    BY <1>4, ProxyLeavesRunner DEF runnerVars
  <2>2. CASE Arrive(s) \/ Enter(s) \/ Release(s)
    BY <2>1, <2>2 DEF Arrive, Enter, Release, netVars, TypeOK
  <2>3. CASE Probes(s) \/ ChargeFails(s)
    <3>1. ASSUME NEW gone \in SUBSET registered, Admit(s, gone)
          PROVE  CalledOnce'
      BY <2>1, <3>1 DEF Admit, TypeOK
    <3>2. CASE ~\E gone \in SUBSET registered : Admit(s, gone)
      <4>1. req' = [req EXCEPT ![s] = "refused"] /\ calls' = calls
        BY <2>3, <3>2 DEF Probes, Conflict, QuotaExceeded, ChargeFails, Leave, netVars
      <4> QED BY <2>1, <4>1 DEF TypeOK
    <3> QED BY <3>1, <3>2
  <2>4. CASE Concludes(s)
    <3>1. \A t \in Sessions : req'[t] = req[t] \/ req'[t] \in {"refused", "granted"}
      BY <2>4 DEF Concludes, Register, Refused, AnswerLost, Leave, TypeOK
    <3>2. calls' \subseteq calls
      BY <2>4 DEF Concludes, Register, Refused, AnswerLost, netVars
    <3> QED BY <2>1, <3>1, <3>2
  <2> QED BY <1>4, <2>2, <2>3, <2>4 DEF Proxy
<1>5. ASSUME NEW s \in Sessions, Runner(s)
      PROVE  CalledOnce'
  <2>1. req' = req
    BY <1>5, RunnerLeavesProxy DEF proxyVars
  <2>2. CASE CreateSession(s)
    BY <2>1, <2>2 DEF CreateSession, TypeOK
  <2>3. CASE RunnerFull(s)
    BY <2>1, <2>3 DEF RunnerFull, runnerVars
  <2>4. CASE Acquire(s) \/ AcquireFails(s) \/ Loads(s)
    <3>1. calls' = calls /\ init[s] # "none"
          /\ \A t \in Sessions : t # s => init'[t] = init[t]
      BY <2>4 DEF Acquire, AcquireIdle, AcquireNew, Take, Discard, AcquireFails, Loads, Provision,
                  Provisioned, ProvisionFails, netVars, TypeOK
    <3> QED BY <2>1, <3>1
  <2>5. CASE EndSession(s) \/ EndUnknownSession(s) \/ Reap(s) \/ Ends(s)
    BY <1>1, <2>1, <2>5 DEF EndSession, EndUnknownSession, Reap, Ends, Ended, netVars
  <2> QED BY <1>5, <2>2, <2>3, <2>4, <2>5 DEF Runner
<1>6. CASE Outside /\ ~RestartProxy /\ ~RestartRunner
  BY <1>1, <1>6 DEF Outside, Midnight, WarmFails, Warm, PodDies, proxyVars, netVars, runnerVars
<1> QED BY <1>1, <1>2, <1>3, <1>4, <1>5, <1>6
    DEF Next, vars, Outside, proxyVars, netVars, runnerVars

-----------------------------------------------------------------------------
(* Pods, leases, tokens and Skills. *)

PoolVars == <<store, status, init, leased, lease, hand, idle, bound, early, pod, content>>

LEMMA ApartIsExclusive ==
  ASSUME Apart
  PROVE  LeaseExclusive
<1> SUFFICES ASSUME NEW p \in Pods
             PROVE  /\ p \in idle => Keepers(p) = {}
                    /\ \A j, k \in Keepers(p) : j = k
  BY DEF LeaseExclusive
<1>1. ASSUME NEW k \in Keepers(p)
      PROVE  \/ \E s \in Sessions : k = <<s, "session">> /\ lease[s] = p
             \/ \E s \in Sessions, e \in Enders : k = <<s, e>> /\ hand[s][e] = p
  BY DEF Keepers
<1>2. p \in idle => Keepers(p) = {}
  BY <1>1 DEF Apart, Unkept
<1>3. ASSUME NEW j \in Keepers(p), NEW k \in Keepers(p)
      PROVE  j = k
  BY <1>1 DEF Apart
<1> QED BY <1>2, <1>3

LEMMA PooledUnchanged ==
  ASSUME Pooled, UNCHANGED PoolVars
  PROVE  Pooled'
BY DEF PoolVars, Pooled, LoadingSound, Loading, Uncreated, Unkept, Apart, TokensFollowLeases, OwnSkill

LEMMA CreatePooled ==
  ASSUME TypeOK, CalledOnce, Pooled, NEW s \in Sessions, CreateSession(s)
  PROVE  Pooled'
<1> USE DEF TypeOK, Pooled, CreateSession, podVars
<1>1. init[s] = "none" /\ lease[s] = None
  BY DEF CalledOnce, LoadingSound
<1>2. LoadingSound'
  BY <1>1 DEF LoadingSound, Loading
<1>3. Uncreated' /\ Apart' /\ TokensFollowLeases'
  BY DEF Uncreated, Unkept, Apart, TokensFollowLeases
<1>4. OwnSkill'
  BY <1>1 DEF OwnSkill
<1> QED BY <1>2, <1>3, <1>4

\* A pod that nobody keeps goes to a session that has none.
LEMMA AcquirePooled ==
  ASSUME TypeOK, Pooled, NEW s \in Sessions, NEW p \in Pods,
         AcquireIdle(s, p) \/ AcquireNew(s, p)
  PROVE  Pooled'
<1> USE DEF TypeOK, Pooled
<1>1. /\ lease[s] = None /\ status[s] # "ready" /\ Unkept(p)
      /\ p \notin idle' /\ pod'[p] = "runs"
  BY DEF AcquireIdle, AcquireNew, LoadingSound, Apart, Uncreated
<1>2. /\ init' = [init EXCEPT ![s] = "leased"] /\ leased' = [leased EXCEPT ![s] = p]
      /\ lease' = [lease EXCEPT ![s] = p] /\ bound' = [bound EXCEPT ![p] = s]
      /\ UNCHANGED <<store, status, hand, early, content>>
  BY DEF AcquireIdle, AcquireNew, Take
<1>3. idle' \subseteq idle /\ \A q \in Pods : q # p => pod'[q] = pod[q]
  BY DEF AcquireIdle, AcquireNew
<1>4. p # None /\ s # None
  BY PlaygroundAssumption
<1>5. LoadingSound'
  BY <1>1, <1>2, <1>4 DEF LoadingSound, Loading
<1>6. Uncreated'
  BY <1>1, <1>2, <1>3 DEF Uncreated, Unkept
<1>7. Apart'
  BY <1>1, <1>2, <1>3 DEF Apart, Unkept
<1>8. TokensFollowLeases'
  BY <1>1, <1>2, PlaygroundAssumption DEF TokensFollowLeases
<1>9. OwnSkill'
  BY <1>1, <1>2, <1>3 DEF OwnSkill
<1> QED BY <1>5, <1>6, <1>7, <1>8, <1>9

\* Fewer idle pods, no new pods, a session that fails to get one.
LEMMA DiscardPooled ==
  ASSUME TypeOK, Pooled, NEW s \in Sessions,
         (\E p \in Pods : Discard(s, p)) \/ AcquireFails(s) \/ Provision(s)
  PROVE  Pooled'
<1> USE DEF TypeOK, Pooled
<1>1. /\ idle' \subseteq idle
      /\ \A q \in Pods : pod'[q] = pod[q] \/ pod'[q] = "gone"
      /\ UNCHANGED <<store, leased, lease, hand, bound, early, content>>
  BY DEF Discard, AcquireFails, Provision, podVars
<1>2. \/ UNCHANGED <<status, init>>
      \/ /\ init[s] = "acquiring" /\ init' = [init EXCEPT ![s] = "done"]
         /\ status' = [status EXCEPT ![s] = "error"]
      \/ init[s] = "leased" /\ init' = [init EXCEPT ![s] = "provisioning"] /\ status' = status
  BY DEF Discard, AcquireFails, Provision
<1>3. LoadingSound'
  BY <1>1, <1>2 DEF LoadingSound, Loading
<1>4. Uncreated' /\ Apart' /\ TokensFollowLeases'
  BY <1>1 DEF Uncreated, Apart, Unkept, TokensFollowLeases
<1>5. OwnSkill'
  BY <1>1, <1>2 DEF OwnSkill
<1> QED BY <1>3, <1>4, <1>5

\* The Skill is loaded into the pod of the session, or the session was ended early.
LEMMA ProvisionedPooled ==
  ASSUME TypeOK, Pooled, NEW s \in Sessions, Provisioned(s)
  PROVE  Pooled'
<1> USE DEF TypeOK, Pooled
<1> DEFINE p == leased[s]
<1>1. /\ p \in Pods /\ lease[s] \in {None, p} /\ (lease[s] = None => s \in early)
      /\ pod[p] = "runs"
  BY DEF Provisioned, LoadingSound, Loading
<1>2. /\ content' = [content EXCEPT ![p] = s] /\ init' = [init EXCEPT ![s] = "done"]
      /\ status' = [status EXCEPT ![s] = "ready"] /\ leased' = [leased EXCEPT ![s] = None]
      /\ UNCHANGED <<store, lease, hand, idle, bound, early, pod>>
  BY DEF Provisioned
<1> HIDE DEF p
<1>3. LoadingSound'
  BY <1>2 DEF LoadingSound, Loading
<1>4. Uncreated' /\ Apart' /\ TokensFollowLeases'
  BY <1>1, <1>2 DEF Uncreated, Apart, Unkept, TokensFollowLeases
<1>5. \A t \in Sessions : lease[t] = p => t = s \/ s \in early
  BY <1>1 DEF Apart
<1>6. p \in idle => s \in early
  BY <1>1 DEF Apart, Unkept
<1>7. OwnSkill'
  BY <1>1, <1>2, <1>5, <1>6, PlaygroundAssumption DEF OwnSkill
<1> QED BY <1>3, <1>4, <1>7

\* A failed load unbinds the pod's token, which only its own session may hold through its lease.
LEMMA ProvisionFailsPooled ==
  ASSUME TypeOK, Pooled, NEW s \in Sessions, ProvisionFails(s)
  PROVE  Pooled'
<1> USE DEF TypeOK, Pooled
<1> DEFINE p == leased[s]
<1>1. p \in Pods /\ lease[s] \in {None, p}
  BY DEF ProvisionFails, LoadingSound, Loading
<1>2. /\ init' = [init EXCEPT ![s] = "done"] /\ status' = [status EXCEPT ![s] = "error"]
      /\ leased' = [leased EXCEPT ![s] = None] /\ lease' = [lease EXCEPT ![s] = None]
      /\ bound' = [bound EXCEPT ![p] = None] /\ pod' = [pod EXCEPT ![p] = "gone"]
      /\ UNCHANGED <<store, hand, idle, early, content>>
  BY DEF ProvisionFails
<1> HIDE DEF p
<1>3. LoadingSound'
  BY <1>2 DEF LoadingSound, Loading
<1>4. Uncreated' /\ Apart'
  BY <1>1, <1>2, PlaygroundAssumption DEF Uncreated, Apart, Unkept
<1>5. TokensFollowLeases'
  BY <1>1, <1>2, PlaygroundAssumption DEF TokensFollowLeases
<1>6. OwnSkill'
  BY <1>2 DEF OwnSkill
<1> QED BY <1>3, <1>4, <1>5, <1>6

\* The lease moves from the session to the handler, and its token is unbound.
LEMMA DestroyPooled ==
  ASSUME TypeOK, Pooled, NEW s \in Sessions, NEW e \in Enders, Destroy(s, e),
         UNCHANGED <<store, init, leased, idle, podVars>>,
         status' = status \/ status' = [status EXCEPT ![s] = "done"]
  PROVE  Pooled'
<1> USE DEF TypeOK, Pooled, podVars
<1>1. /\ hand' = [hand EXCEPT ![s][e] = lease[s]] /\ lease' = [lease EXCEPT ![s] = None]
      /\ early \subseteq early' /\ (Loading(s) => s \in early')
  BY DEF Destroy
<1>2. LoadingSound'
  BY <1>1 DEF LoadingSound, Loading
<1>3. Uncreated'
  BY <1>1, PlaygroundAssumption DEF Uncreated, Unkept
<1>4. Apart'
  BY <1>1, PlaygroundAssumption DEF Apart, Unkept
<1>5. TokensFollowLeases'
  BY <1>1, PlaygroundAssumption DEF Destroy, TokensFollowLeases
<1>6. OwnSkill'
  BY <1>1 DEF OwnSkill
<1> QED BY <1>2, <1>3, <1>4, <1>5, <1>6

LEMMA EndedPooled ==
  ASSUME TypeOK, Pooled, NEW s \in Sessions, NEW e \in Enders, Ended(s, e)
  PROVE  Pooled'
<1> USE DEF TypeOK, Pooled
<1> DEFINE p == hand[s][e]
<1>1. /\ hand' = [hand EXCEPT ![s][e] = None] /\ store' \subseteq store
      /\ (status' = status \/ status' = [status EXCEPT ![s] = "done"])
      /\ UNCHANGED <<init, leased, lease, bound, early>>
  BY DEF Ended
<1>2. LoadingSound' /\ TokensFollowLeases'
  BY <1>1 DEF LoadingSound, Loading, TokensFollowLeases
<1>3. CASE p = None
  <2>1. UNCHANGED <<idle, pod, content>>
    BY <1>3 DEF Ended, podVars
  <2>2. Uncreated' /\ Apart'
    BY <1>1, <2>1, PlaygroundAssumption DEF Uncreated, Apart, Unkept
  <2>3. OwnSkill'
    BY <1>1, <2>1 DEF OwnSkill
  <2> QED BY <1>2, <2>2, <2>3
<1>4. CASE p # None
  <2>1. PICK healthy \in BOOLEAN : ReturnPod(p, healthy)
    BY <1>4 DEF Ended
  <2>2. p \in Pods /\ p \notin idle /\ (\A t \in Sessions : lease[t] # p) /\ pod[p] # "none"
        /\ \A t \in Sessions, d \in Enders : hand[t][d] = p => t = s /\ d = e
    BY <1>4 DEF Apart, Unkept, Uncreated
  <2>3. /\ content' = content \/ content' = [content EXCEPT ![p] = None]
        /\ idle' = idle \/ (idle' = idle \cup {p} /\ content' = [content EXCEPT ![p] = None])
        /\ pod' = pod \/ pod' = [pod EXCEPT ![p] = "gone"]
    BY <2>1 DEF ReturnPod
  <2> HIDE DEF p
  <2>4. /\ \A t \in Sessions : lease'[t] # p
        /\ \A t \in Sessions, d \in Enders : hand'[t][d] # p
    BY <1>1, <1>4, <2>2
  <2>5. Uncreated'
    BY <1>1, <1>4, <2>2, <2>3, PlaygroundAssumption DEF Uncreated, Unkept
  <2>6. Apart'
    BY <1>1, <1>4, <2>2, <2>3, <2>4, PlaygroundAssumption DEF Apart, Unkept
  <2>7. OwnSkill'
    <3>1. ASSUME NEW t \in store', status'[t] = "ready", lease'[t] # None
          PROVE  content'[lease'[t]] \in {t} \cup early'
      BY <1>1, <2>2, <2>3, <3>1 DEF OwnSkill
    <3>2. ASSUME NEW q \in idle'
          PROVE  content'[q] \in {None} \cup early'
      <4>1. CASE q = p /\ p \notin idle
        BY <2>2, <2>3, <3>2, <4>1
      <4>2. CASE q # p
        BY <1>1, <2>2, <2>3, <3>2, <4>2 DEF OwnSkill
      <4> QED BY <2>2, <4>1, <4>2
    <3> QED BY <3>1, <3>2 DEF OwnSkill
  <2> QED BY <1>2, <2>5, <2>6, <2>7
<1> QED BY <1>3, <1>4

LEMMA OutsidePooled ==
  ASSUME TypeOK, Pooled, Outside
  PROVE  Pooled'
<1> USE DEF TypeOK, Pooled
<1>1. CASE Midnight \/ WarmFails \/ RestartProxy
  BY <1>1, PooledUnchanged DEF Midnight, WarmFails, RestartProxy, runnerVars, podVars, PoolVars
<1>2. ASSUME NEW p \in Pods, Warm(p)
      PROVE  Pooled'
  <2>1. /\ p \notin idle /\ Unkept(p) /\ content[p] = None
        /\ pod' = [pod EXCEPT ![p] = "runs"] /\ idle' = idle \cup {p}
        /\ UNCHANGED <<store, status, init, leased, lease, hand, bound, early, content>>
    BY <1>2 DEF Warm, Uncreated
  <2>2. LoadingSound' /\ TokensFollowLeases'
    BY <2>1 DEF LoadingSound, Loading, TokensFollowLeases
  <2>3. Uncreated' /\ Apart'
    BY <2>1 DEF Uncreated, Apart, Unkept
  <2>4. OwnSkill'
    BY <2>1 DEF OwnSkill
  <2> QED BY <2>2, <2>3, <2>4
<1>3. ASSUME NEW p \in Pods, PodDies(p)
      PROVE  Pooled'
  BY <1>3 DEF PodDies, runnerVars, LoadingSound, Loading, TokensFollowLeases, Uncreated, Apart, Unkept,
              OwnSkill
<1>4. CASE RestartRunner
  <2>1. /\ store' = {} /\ idle' = {}
        /\ init' = [t \in Sessions |-> IF init[t] = "none" THEN "none" ELSE "done"]
        /\ lease' = [t \in Sessions |-> None]
        /\ hand' = [t \in Sessions |-> [e \in Enders |-> None]]
        /\ bound' = [q \in Pods |-> None]
        /\ UNCHANGED <<status, early, pod, content>>
    BY <1>4 DEF RestartRunner, podVars
  <2>2. LoadingSound'
    BY <2>1 DEF LoadingSound, Loading
  <2>3. Uncreated' /\ Apart'
    BY <2>1, PlaygroundAssumption DEF Uncreated, Apart, Unkept
  <2>4. TokensFollowLeases' /\ OwnSkill'
    BY <2>1 DEF TokensFollowLeases, OwnSkill
  <2> QED BY <2>2, <2>3, <2>4
<1> QED BY <1>1, <1>2, <1>3, <1>4 DEF Outside

LEMMA PooledStep ==
  ASSUME TypeOK, CalledOnce, Pooled, [Next]_vars
  PROVE  Pooled'
<1>1. CASE UNCHANGED vars
  BY <1>1, PooledUnchanged DEF vars, runnerVars, podVars, PoolVars
<1>2. ASSUME NEW s \in Sessions, Proxy(s)
      PROVE  Pooled'
  BY <1>2, ProxyLeavesRunner, PooledUnchanged DEF runnerVars, podVars, PoolVars
<1>3. ASSUME NEW s \in Sessions, Runner(s)
      PROVE  Pooled'
  <2>1. CASE RunnerFull(s) \/ EndUnknownSession(s)
    BY <2>1, PooledUnchanged DEF RunnerFull, EndUnknownSession, runnerVars, podVars, PoolVars
  <2>2. CASE Acquire(s) \/ AcquireFails(s)
    BY <2>2, AcquirePooled, DiscardPooled DEF Acquire
  <2>3. CASE Loads(s)
    BY <2>3, DiscardPooled, ProvisionedPooled, ProvisionFailsPooled DEF Loads
  <2>4. CASE EndSession(s)
    BY <2>4, DestroyPooled DEF EndSession, Enders
  <2>5. CASE Reap(s)
    BY <2>5, DestroyPooled DEF Reap, Enders
  <2>6. CASE Ends(s)
    BY <2>6, EndedPooled DEF Ends
  <2> QED BY <1>3, <2>1, <2>2, <2>3, <2>4, <2>5, <2>6, CreatePooled DEF Runner
<1> QED BY <1>1, <1>2, <1>3, OutsidePooled DEF Next

-----------------------------------------------------------------------------
(* The invariant and what it implies. *)

LEMMA InitSafe == Init => Safe
<1> SUFFICES ASSUME Init PROVE Safe
  OBVIOUS
<1> USE PlaygroundAssumption DEF Init
<1>1. TypeOK
  BY SessionsCounted DEF TypeOK, Requests
<1>2. Locks /\ CalledOnce
  BY DEF Locks, CalledOnce, Holding
<1>3. ConcurrencyKept /\ RoomKept
  BY FS_EmptySet DEF ConcurrencyKept, RoomKept
<1>4. SessionsCharged
  <2>1. {s \in today : req[s] \in {"forwarded", "granted"}} = {}
    OBVIOUS
  <2> QED BY <2>1, FS_EmptySet DEF SessionsCharged
<1>5. Pooled
  BY DEF Pooled, LoadingSound, Loading, Uncreated, Unkept, Apart, TokensFollowLeases, OwnSkill
<1> QED BY <1>1, <1>2, <1>3, <1>4, <1>5 DEF Safe

LEMMA SafeStep == Safe /\ [Next]_vars => Safe'
<1> SUFFICES ASSUME Safe, [Next]_vars PROVE Safe'
  OBVIOUS
<1>1. TypeOK'
  BY TypeStep DEF Safe
<1> QED BY <1>1, LocksStep, RoomStep, ChargedStep, CalledStep, PooledStep DEF Safe

LEMMA SafeHolds == Spec => []Safe
BY InitSafe, SafeStep, PTL DEF Spec

\* Every variable keeps its type: the count of the day never falls below zero nor passes
\* playground_daily_limit, whatever is charged and given back.
THEOREM PlaygroundTypeCorrect == Spec => []TypeOK
<1>1. Safe => TypeOK
  BY DEF Safe
<1> QED BY <1>1, SafeHolds, PTL

\* A user never has more sessions on record than allowed, however many creations arrive
\* together: each probes and registers under the user's lock.
THEOREM ConcurrencyIsKept == Spec => []ConcurrencyKept
<1>1. Safe => ConcurrencyKept
  BY DEF Safe
<1> QED BY <1>1, SafeHolds, PTL

\* Today's count covers every session given today, but for refunds of earlier charges.
THEOREM SessionsAreCharged == Spec => []SessionsCharged
<1>1. Safe => SessionsCharged
  BY DEF Safe
<1> QED BY <1>1, SafeHolds, PTL

\* A pod is kept by one session or one handler, or by none when it is idle, whatever ends
\* sessions at the same time.
THEOREM LeasesAreExclusive == Spec => []LeaseExclusive
<1>1. Safe => LeaseExclusive
  BY ApartIsExclusive DEF Safe, Pooled
<1> QED BY <1>1, SafeHolds, PTL

\* A bound token speaks for the session that holds its pod.
THEOREM TokensFollow == Spec => []TokensFollowLeases
<1>1. Safe => TokensFollowLeases
  BY DEF Safe, Pooled
<1> QED BY <1>1, SafeHolds, PTL

\* A ready session runs its own Skill, unless some session was ended while its own was loaded.
THEOREM SkillsAreOwn == Spec => []OwnSkill
<1>1. Safe => OwnSkill
  BY DEF Safe, Pooled
<1> QED BY <1>1, SafeHolds, PTL

=============================================================================
