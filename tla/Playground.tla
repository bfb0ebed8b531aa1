----------------------------- MODULE Playground -----------------------------
(***************************************************************************)
(* Trying a Skill in the Playground: the proxy in the marketplace admits   *)
(* sessions of a user (routers/playground_proxy.py, core/playground_state) *)
(* and the skill-runner runs each in a worker pod, taken from a pool       *)
(* (skill-runner/app.py, executor/k8s.py, pod_pool.py, worker/app.py).     *)
(*                                                                         *)
(* Both are single asyncio processes: a step is what one task does between *)
(* two awaits.  A session is identified with the request that creates it.  *)
(***************************************************************************)
EXTENDS Naturals, FiniteSets

CONSTANTS
  Sessions,        \* the sessions one user tries to create
  Pods,            \* bound: worker pods ever created
  None,
  MaxConcurrent,   \* playground_max_concurrent_sessions
  DailyLimit,      \* playground_daily_limit
  RunnerMax,       \* max_concurrent_sessions of the skill-runner, shared with other users
  PoolSize,        \* pool_size: pods warmed at start
  MaxIdle,         \* pool_max_idle, at least pool_size
  MaxRestarts      \* bound: ends of either process

ASSUME PlaygroundAssumption ==
  /\ IsFiniteSet(Sessions) /\ IsFiniteSet(Pods) /\ None \notin Sessions \cup Pods
  /\ MaxConcurrent \in Nat \ {0} /\ DailyLimit \in Nat \ {0} /\ RunnerMax \in Nat \ {0}
  /\ PoolSize \in Nat \ {0} /\ MaxIdle \in Nat /\ PoolSize <= MaxIdle /\ MaxRestarts \in Nat

VARIABLES
  \* the proxy
  req,         \* where the request for a session stands
  entry,       \* the user's entry in _create_locks, 0: none
  lockOf,      \* the entry a request uses, 0: none
  registered,  \* sessions on record for the user
  used,        \* today's session_count of the user
  today,       \* ghost: requests charged to today's count
  strays,      \* ghost: charges of earlier days that today's count gave back
  \* between the two
  calls,       \* creations on their way to the skill-runner
  answer,      \* what the skill-runner answered
  \* the skill-runner
  store,       \* sessions in the session store
  status,      \* session.status
  init,        \* where the _init_session task of a session stands
  leased,      \* the pod that task provisions
  lease,       \* session.extra["pod_lease"]
  ender,       \* handlers that end a session, by who started them
  hand,        \* the lease such a handler has taken out of the session
  idle,        \* PodPoolManager._idle
  bound,       \* the session each pod's LLM token is bound to
  early,       \* ghost: sessions ended while their Skill was being loaded
  warming,     \* the task that fills the pool at start is not done
  \* the pods
  pod,         \* whether a pod runs
  content,     \* the session a worker was provisioned for
  restarts

proxyVars == <<req, entry, lockOf, registered, used, today, strays>>
netVars == <<calls, answer>>
runnerVars == <<store, status, init, leased, lease, ender, hand, idle, bound, early, warming>>
podVars == <<pod, content>>
vars == <<proxyVars, netVars, runnerVars, podVars, restarts>>

Enders == {"client", "reaper"}

Init ==
  /\ req = [s \in Sessions |-> "unborn"]
  /\ entry = 0 /\ lockOf = [s \in Sessions |-> 0]
  /\ registered = {} /\ used = 0 /\ today = {} /\ strays = 0
  /\ calls = {} /\ answer = [s \in Sessions |-> "none"]
  /\ store = {} /\ status = [s \in Sessions |-> "none"]
  /\ init = [s \in Sessions |-> "none"] /\ leased = [s \in Sessions |-> None]
  /\ lease = [s \in Sessions |-> None]
  /\ ender = [s \in Sessions |-> [e \in Enders |-> "none"]]
  /\ hand = [s \in Sessions |-> [e \in Enders |-> None]]
  /\ idle = {} /\ bound = [p \in Pods |-> None] /\ early = {} /\ warming = TRUE
  /\ pod = [p \in Pods |-> "none"] /\ content = [p \in Pods |-> None]
  /\ restarts = 0

-----------------------------------------------------------------------------
(* The lock of the user (create_lock): an entry shared by all who use it. *)

Users(e) == {s \in Sessions : lockOf[s] = e}
Fresh == CHOOSE e \in 1..Cardinality(Sessions) : Users(e) = {}

Arrive(s) ==
  LET e == IF entry = 0 THEN Fresh ELSE entry IN
  /\ req[s] = "unborn"
  /\ req' = [req EXCEPT ![s] = "waiting"]
  /\ entry' = e
  /\ lockOf' = [lockOf EXCEPT ![s] = e]
  /\ UNCHANGED <<registered, used, today, strays, netVars, runnerVars, podVars, restarts>>

Holding == {"probing", "forwarded"}

\* Mutant: the record is checked outside the lock.
EnterUnlocked(s) ==
  /\ req[s] = "waiting"
  /\ req' = [req EXCEPT ![s] = "probing"]
  /\ UNCHANGED <<entry, lockOf, registered, used, today, strays, netVars, runnerVars, podVars, restarts>>

Enter(s) ==
  /\ req[s] = "waiting"
  /\ \A t \in Users(lockOf[s]) : req[t] \notin Holding
  /\ req' = [req EXCEPT ![s] = "probing"]
  /\ UNCHANGED <<entry, lockOf, registered, used, today, strays, netVars, runnerVars, podVars, restarts>>

\* The last user of an entry removes it.
Leave(s, outcome) ==
  /\ req' = [req EXCEPT ![s] = outcome]
  /\ lockOf' = [lockOf EXCEPT ![s] = 0]
  /\ entry' = IF Users(lockOf[s]) = {s} /\ entry = lockOf[s] THEN 0 ELSE entry

-----------------------------------------------------------------------------
(* Admission (create_session of the proxy). *)

\* Mutant: the count may fall below zero.
RefundUnfloored(s) ==
  /\ used' = used - 1
  /\ strays' = IF s \notin today THEN strays + 1 ELSE strays
  /\ today' = today

\* decrement: today's count gives one back, whichever day it was taken from.
Refund(s) ==
  /\ used' = IF used > 0 THEN used - 1 ELSE used
  /\ strays' = IF s \notin today /\ used > 0 THEN strays + 1 ELSE strays
  /\ today' = today

\* Sessions whose probe finds them gone or ended, or fails, are taken off the record.
\* A probe may also have preceded the end of a session.
Conflict(s, gone) ==
  /\ req[s] = "probing" /\ gone \subseteq registered
  /\ Cardinality(registered \ gone) >= MaxConcurrent
  /\ registered' = registered \ gone
  /\ Leave(s, "refused")
  /\ UNCHANGED <<used, today, strays, netVars, runnerVars, podVars, restarts>>

QuotaExceeded(s, gone) ==
  /\ req[s] = "probing" /\ gone \subseteq registered
  /\ Cardinality(registered \ gone) < MaxConcurrent
  /\ used >= DailyLimit
  /\ registered' = registered \ gone
  /\ Leave(s, "refused")
  /\ UNCHANGED <<used, today, strays, netVars, runnerVars, podVars, restarts>>

\* try_increment locks the row of the user and the day until it commits.
Admit(s, gone) ==
  /\ req[s] = "probing" /\ gone \subseteq registered
  /\ Cardinality(registered \ gone) < MaxConcurrent
  /\ used < DailyLimit
  /\ registered' = registered \ gone
  /\ used' = used + 1
  /\ today' = today \cup {s}
  /\ req' = [req EXCEPT ![s] = "forwarded"]
  /\ calls' = calls \cup {s}
  /\ UNCHANGED <<entry, lockOf, strays, answer, runnerVars, podVars, restarts>>

\* The database fails before anything is charged.
ChargeFails(s) ==
  /\ req[s] = "probing"
  /\ Leave(s, "refused")
  /\ UNCHANGED <<registered, used, today, strays, netVars, runnerVars, podVars, restarts>>

\* Mutant: the quota is given back whatever the answer.
RegisterFree(s) ==
  /\ req[s] = "forwarded" /\ answer[s] = "created"
  /\ registered' = registered \cup {s}
  /\ Refund(s)
  /\ Leave(s, "granted")
  /\ UNCHANGED <<netVars, runnerVars, podVars, restarts>>

Register(s) ==
  /\ req[s] = "forwarded" /\ answer[s] = "created"
  /\ registered' = registered \cup {s}
  /\ Leave(s, "granted")
  /\ UNCHANGED <<used, today, strays, netVars, runnerVars, podVars, restarts>>

Refused(s) ==
  /\ req[s] = "forwarded" /\ answer[s] = "full"
  /\ Refund(s)
  /\ Leave(s, "refused")
  /\ UNCHANGED <<registered, netVars, runnerVars, podVars, restarts>>

\* Mutant: the proxy waits for the answer however long it takes.
AnswerLostUntimed(s) ==
  /\ req[s] = "forwarded" /\ s \in calls
  /\ Refund(s)
  /\ Leave(s, "refused")
  /\ calls' \in {calls, calls \ {s}}
  /\ UNCHANGED <<registered, answer, runnerVars, podVars, restarts>>

\* No answer in time, whether or not the skill-runner got or gets the request.
AnswerLost(s) ==
  /\ req[s] = "forwarded"
  /\ Refund(s)
  /\ Leave(s, "refused")
  /\ calls' \in {calls, calls \ {s}}
  /\ UNCHANGED <<registered, answer, runnerVars, podVars, restarts>>

\* The UTC day ends: the next count starts at 0.
Midnight ==
  /\ today # {}
  /\ used' = 0 /\ today' = {} /\ strays' = 0
  /\ UNCHANGED <<req, entry, lockOf, registered, netVars, runnerVars, podVars, restarts>>

-----------------------------------------------------------------------------
(* The skill-runner: creating a session. *)

CreateSession(s) ==
  /\ s \in calls /\ calls' = calls \ {s}
  /\ Cardinality(store) < RunnerMax
  /\ answer' = [answer EXCEPT ![s] = "created"]
  /\ store' = store \cup {s}
  /\ status' = [status EXCEPT ![s] = "starting"]
  /\ init' = [init EXCEPT ![s] = "acquiring"]
  /\ UNCHANGED <<proxyVars, leased, lease, ender, hand, idle, bound, early, podVars, warming, restarts>>

\* The sessions of other users count too.
RunnerFull(s) ==
  /\ s \in calls /\ calls' = calls \ {s}
  /\ answer' = [answer EXCEPT ![s] = "full"]
  /\ UNCHANGED <<proxyVars, runnerVars, podVars, restarts>>

Take(s, p) ==
  /\ init' = [init EXCEPT ![s] = "leased"]
  /\ leased' = [leased EXCEPT ![s] = p]
  /\ lease' = [lease EXCEPT ![s] = p]
  /\ bound' = [bound EXCEPT ![p] = s]
  /\ UNCHANGED <<proxyVars, netVars, store, status, ender, hand, early, content, warming, restarts>>

\* PodPoolManager.acquire: an idle pod that answers, or a new one.
AcquireIdle(s, p) ==
  /\ init[s] = "acquiring" /\ p \in idle /\ pod[p] = "runs"
  /\ idle' = idle \ {p}
  /\ pod' = pod
  /\ Take(s, p)

AcquireNew(s, p) ==
  /\ init[s] = "acquiring" /\ idle = {} /\ pod[p] = "none"
  /\ idle' = idle
  /\ pod' = [pod EXCEPT ![p] = "runs"]
  /\ Take(s, p)

\* Pods that do not answer, or have little of their lifetime left, are deleted.
Discard(s, p) ==
  /\ init[s] = "acquiring" /\ p \in idle
  /\ idle' = idle \ {p}
  /\ pod' = [pod EXCEPT ![p] = "gone"]
  /\ UNCHANGED <<proxyVars, netVars, store, status, init, leased, lease, ender, hand, bound, early,
                 content, warming, restarts>>

AcquireFails(s) ==
  /\ init[s] = "acquiring"
  /\ init' = [init EXCEPT ![s] = "done"]
  /\ status' = [status EXCEPT ![s] = "error"]
  /\ UNCHANGED <<proxyVars, netVars, store, leased, lease, ender, hand, idle, bound, early, podVars, warming, restarts>>

\* The worker refuses a second session, but looks before it prepares the first.
Provision(s) ==
  /\ init[s] = "leased" /\ pod[leased[s]] = "runs" /\ content[leased[s]] = None
  /\ init' = [init EXCEPT ![s] = "provisioning"]
  /\ UNCHANGED <<proxyVars, netVars, store, status, leased, lease, ender, hand, idle, bound, early,
                 podVars, warming, restarts>>

Provisioned(s) ==
  /\ init[s] = "provisioning" /\ pod[leased[s]] = "runs"
  /\ content' = [content EXCEPT ![leased[s]] = s]
  /\ init' = [init EXCEPT ![s] = "done"]
  /\ status' = [status EXCEPT ![s] = "ready"]
  /\ leased' = [leased EXCEPT ![s] = None]
  /\ UNCHANGED <<proxyVars, netVars, store, lease, ender, hand, idle, bound, early, pod, warming, restarts>>

\* The token is unbound and the pod deleted, whoever holds them by now.
ProvisionFails(s) ==
  LET p == leased[s] IN
  /\ init[s] \in {"leased", "provisioning"}
  /\ init' = [init EXCEPT ![s] = "done"]
  /\ status' = [status EXCEPT ![s] = "error"]
  /\ leased' = [leased EXCEPT ![s] = None]
  /\ lease' = [lease EXCEPT ![s] = None]
  /\ bound' = [bound EXCEPT ![p] = None]
  /\ pod' = [pod EXCEPT ![p] = "gone"]
  /\ UNCHANGED <<proxyVars, netVars, store, ender, hand, idle, early, content, warming, restarts>>

-----------------------------------------------------------------------------
(* The skill-runner: ending a session. *)

Loading(s) == init[s] \in {"leased", "provisioning"}

\* Mutant: the lease stays in the session while the pod is reset.
DestroyKeeping(s, e) ==
  /\ hand' = [hand EXCEPT ![s][e] = lease[s]]
  /\ lease' = lease
  /\ bound' = [p \in Pods |-> IF p = lease[s] THEN None ELSE bound[p]]
  /\ early' = IF Loading(s) THEN early \cup {s} ELSE early

\* Mutant: the token stays bound.
DestroyBound(s, e) ==
  /\ hand' = [hand EXCEPT ![s][e] = lease[s]]
  /\ lease' = [lease EXCEPT ![s] = None]
  /\ bound' = bound
  /\ early' = IF Loading(s) THEN early \cup {s} ELSE early

\* destroy takes the lease out of the session before it waits for the pod.
Destroy(s, e) ==
  /\ hand' = [hand EXCEPT ![s][e] = lease[s]]
  /\ lease' = [lease EXCEPT ![s] = None]
  /\ bound' = [p \in Pods |-> IF p = lease[s] \/ (lease[s] = None /\ bound[p] = s) THEN None ELSE bound[p]]
  /\ early' = IF Loading(s) THEN early \cup {s} ELSE early

\* DELETE or the beacon, once the client knows the session.
EndSession(s) ==
  /\ req[s] = "granted" /\ s \in store /\ ender[s]["client"] = "none"
  /\ ender' = [ender EXCEPT ![s]["client"] = "ending"]
  /\ Destroy(s, "client")
  /\ UNCHANGED <<proxyVars, netVars, store, status, init, leased, idle, podVars, warming, restarts>>

EndUnknownSession(s) ==
  /\ req[s] = "granted" /\ s \notin store /\ ender[s]["client"] = "none"
  /\ ender' = [ender EXCEPT ![s]["client"] = "ended"]
  /\ UNCHANGED <<proxyVars, netVars, store, status, init, leased, lease, hand, idle, bound, early,
                 podVars, warming, restarts>>

\* _idle_session_reaper: sessions left alone, but not those that failed.
Reap(s) ==
  /\ s \in store /\ status[s] = "ready" /\ ender[s]["reaper"] = "none"
  /\ ender' = [ender EXCEPT ![s]["reaper"] = "ending"]
  /\ status' = [status EXCEPT ![s] = "done"]
  /\ Destroy(s, "reaper")
  /\ UNCHANGED <<proxyVars, netVars, store, init, leased, idle, podVars, warming, restarts>>

\* Mutant: pods go back to the pool whether or not the reset succeeded.
ReturnPodUnreset(p, healthy) ==
  /\ idle' = IF pod[p] = "runs" /\ Cardinality(idle) < MaxIdle THEN idle \cup {p} ELSE idle
  /\ pod' = IF idle' = idle THEN [pod EXCEPT ![p] = "gone"] ELSE pod
  /\ content' = IF healthy THEN [content EXCEPT ![p] = None] ELSE content

\* The reset clears the worker and the pod goes back to the pool, or is deleted.
ReturnPod(p, healthy) ==
  /\ healthy => pod[p] = "runs"
  /\ content' = IF healthy THEN [content EXCEPT ![p] = None] ELSE content
  /\ IF healthy /\ Cardinality(idle) < MaxIdle
     THEN idle' = idle \cup {p} /\ pod' = pod
     ELSE idle' = idle /\ pod' = [pod EXCEPT ![p] = "gone"]

\* Mutant: a session whose pod could not be reset stays in the store.
EndedIfReset(s, e) ==
  /\ ender[s][e] = "ending"
  /\ ender' = [ender EXCEPT ![s][e] = "ended"]
  /\ hand' = [hand EXCEPT ![s][e] = None]
  /\ status' = IF s \in store THEN [status EXCEPT ![s] = "done"] ELSE status
  /\ IF hand[s][e] = None
     THEN store' = store \ {s} /\ UNCHANGED <<idle, podVars>>
     ELSE \E healthy \in BOOLEAN : ReturnPod(hand[s][e], healthy)
            /\ store' = (IF healthy THEN store \ {s} ELSE store)
  /\ UNCHANGED <<proxyVars, netVars, init, leased, lease, bound, early, warming, restarts>>

Ended(s, e) ==
  /\ ender[s][e] = "ending"
  /\ ender' = [ender EXCEPT ![s][e] = "ended"]
  /\ hand' = [hand EXCEPT ![s][e] = None]
  /\ store' = store \ {s}
  /\ status' = IF s \in store THEN [status EXCEPT ![s] = "done"] ELSE status
  /\ IF hand[s][e] = None
     THEN UNCHANGED <<idle, podVars>>
     ELSE \E healthy \in BOOLEAN : ReturnPod(hand[s][e], healthy)
  /\ UNCHANGED <<proxyVars, netVars, init, leased, lease, bound, early, warming, restarts>>

\* delete_session of the proxy, after the skill-runner answered.
Release(s) ==
  /\ ender[s]["client"] = "ended" /\ s \in registered
  /\ registered' = registered \ {s}
  /\ UNCHANGED <<req, entry, lockOf, used, today, strays, netVars, runnerVars, podVars, restarts>>

-----------------------------------------------------------------------------
(* Pods and processes. *)

\* The pool is filled when the skill-runner starts, while it serves requests.
Warm(p) ==
  /\ warming /\ pod[p] = "none"
  /\ pod' = [pod EXCEPT ![p] = "runs"]
  /\ idle' = idle \cup {p}
  /\ warming' = (Cardinality(idle') < PoolSize)
  /\ UNCHANGED <<proxyVars, netVars, store, status, init, leased, lease, ender, hand, bound, early,
                 content, restarts>>

WarmFails ==
  /\ warming /\ warming' = FALSE
  /\ UNCHANGED <<proxyVars, netVars, store, status, init, leased, lease, ender, hand, idle, bound, early,
                 podVars, restarts>>

\* Evicted, out of memory, or past activeDeadlineSeconds.
PodDies(p) ==
  /\ pod[p] = "runs"
  /\ pod' = [pod EXCEPT ![p] = "gone"]
  /\ UNCHANGED <<proxyVars, netVars, runnerVars, content, restarts>>

\* A new marketplace process knows no session and no request, only the counts.
RestartProxy ==
  /\ restarts < MaxRestarts /\ restarts' = restarts + 1
  /\ req' = [s \in Sessions |-> IF req[s] \in {"waiting"} \cup Holding THEN "refused" ELSE req[s]]
  /\ entry' = 0 /\ lockOf' = [s \in Sessions |-> 0]
  /\ registered' = {}
  /\ UNCHANGED <<used, today, strays, netVars, runnerVars, podVars>>

\* A new skill-runner knows no session and no pod.
RestartRunner ==
  /\ restarts < MaxRestarts /\ restarts' = restarts + 1
  /\ store' = {} /\ idle' = {} /\ calls' = {}
  /\ init' = [s \in Sessions |-> IF init[s] = "none" THEN "none" ELSE "done"]
  /\ leased' = [s \in Sessions |-> None] /\ lease' = [s \in Sessions |-> None]
  /\ ender' = [s \in Sessions |-> [e \in Enders |-> IF ender[s][e] = "none" THEN "none" ELSE "ended"]]
  /\ hand' = [s \in Sessions |-> [e \in Enders |-> None]]
  /\ bound' = [p \in Pods |-> None]
  /\ warming' = TRUE
  /\ UNCHANGED <<proxyVars, answer, status, early, podVars>>

-----------------------------------------------------------------------------

Probes(s) == \E gone \in SUBSET registered : Conflict(s, gone) \/ QuotaExceeded(s, gone) \/ Admit(s, gone)
Concludes(s) == Register(s) \/ Refused(s) \/ AnswerLost(s)
Acquire(s) == \E p \in Pods : AcquireIdle(s, p) \/ AcquireNew(s, p) \/ Discard(s, p)
Loads(s) == Provision(s) \/ Provisioned(s) \/ ProvisionFails(s)
Ends(s) == \E e \in Enders : Ended(s, e)

Proxy(s) == Arrive(s) \/ Enter(s) \/ Probes(s) \/ ChargeFails(s) \/ Concludes(s) \/ Release(s)
Runner(s) ==
  \/ CreateSession(s) \/ RunnerFull(s) \/ Acquire(s) \/ AcquireFails(s) \/ Loads(s)
  \/ EndSession(s) \/ EndUnknownSession(s) \/ Reap(s) \/ Ends(s)
Outside ==
  \/ Midnight \/ WarmFails \/ RestartProxy \/ RestartRunner
  \/ \E p \in Pods : Warm(p) \/ PodDies(p)

Next == Outside \/ \E s \in Sessions : Proxy(s) \/ Runner(s)

\* Handlers and tasks go on, forwarded requests and resets time out, and every session is left
\* alone in the end.
Fairness == \A s \in Sessions :
  /\ WF_vars(Enter(s)) /\ WF_vars(Probes(s)) /\ WF_vars(Concludes(s))
  /\ WF_vars(Reap(s)) /\ WF_vars(Ends(s))

Spec == Init /\ [][Next]_vars /\ Fairness

-----------------------------------------------------------------------------

Requests == {"unborn", "waiting", "refused", "granted"} \cup Holding
TypeOK ==
  /\ req \in [Sessions -> Requests]
  /\ entry \in 0..Cardinality(Sessions) /\ lockOf \in [Sessions -> 0..Cardinality(Sessions)]
  /\ registered \subseteq Sessions /\ today \subseteq Sessions
  /\ used \in 0..DailyLimit /\ strays \in Nat
  /\ calls \subseteq Sessions /\ answer \in [Sessions -> {"none", "created", "full"}]
  /\ store \subseteq Sessions
  /\ status \in [Sessions -> {"none", "starting", "ready", "error", "done"}]
  /\ init \in [Sessions -> {"none", "acquiring", "leased", "provisioning", "done"}]
  /\ leased \in [Sessions -> Pods \cup {None}] /\ lease \in [Sessions -> Pods \cup {None}]
  /\ ender \in [Sessions -> [Enders -> {"none", "ending", "ended"}]]
  /\ hand \in [Sessions -> [Enders -> Pods \cup {None}]]
  /\ idle \subseteq Pods /\ bound \in [Pods -> Sessions \cup {None}]
  /\ early \subseteq Sessions /\ warming \in BOOLEAN
  /\ pod \in [Pods -> {"none", "runs", "gone"}] /\ content \in [Pods -> Sessions \cup {None}]
  /\ restarts \in 0..MaxRestarts

\* However many creations of a user arrive together, and whichever give up, the proxy never
\* has more sessions of the user on record than playground_max_concurrent_sessions.
ConcurrencyKept == Cardinality(registered) <= MaxConcurrent

\* Every session given to the user today is in today's count, but for those that refunds of
\* charges made before midnight took out of it.
SessionsCharged ==
  Cardinality({s \in today : req[s] \in {"forwarded", "granted"}}) <= used + strays

\* A pod is idle, or leased to one session, or in the hands of one handler that gives it back:
\* no two sessions share a pod, however their ends overlap.
Keepers(p) ==
  {<<s, "session">> : s \in {t \in Sessions : lease[t] = p}}
    \cup {k \in Sessions \X Enders : hand[k[1]][k[2]] = p}
LeaseExclusive == \A p \in Pods :
  /\ p \in idle => Keepers(p) = {}
  /\ \A j, k \in Keepers(p) : j = k

\* The token of a pod speaks for the session that holds the pod and for no other: what a worker
\* does after its session lost it is charged to nobody.
TokensFollowLeases == \A p \in Pods : bound[p] # None => lease[bound[p]] = p

\* A session that is ready runs its own Skill and an idle worker none, unless a session was
\* ended while its Skill was being loaded.
OwnSkill ==
  /\ \A s \in store : status[s] = "ready" /\ lease[s] # None => content[lease[s]] \in {s} \cup early
  /\ \A p \in idle : content[p] \in {None} \cup early

\* Every creation gets an answer, also behind others that hold the user's lock.
CreationAnswered == \A s \in Sessions : req[s] = "waiting" ~> req[s] \in {"refused", "granted"}

\* A session that became ready leaves the skill-runner in the end, its client gone or not.
SessionsEnd == \A s \in Sessions : (s \in store /\ status[s] = "ready") ~> s \notin store

=============================================================================
