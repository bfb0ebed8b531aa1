-------------------------- MODULE VersionLifecycle --------------------------
(***************************************************************************)
(* What publishing promises about one asset's versions, without requests,  *)
(* threads, sessions or storage: each version moves through the stages the *)
(* pair of columns publish_result / moderation_status stands for, one      *)
(* decision at a time, and a decision is about the bytes recorded then.    *)
(***************************************************************************)
EXTENDS Naturals

CONSTANTS Versions, Artifacts, None, ReviewEnabled

VARIABLES
  stage,  \* where a version is in its life
  bytes   \* the package it records

vars == <<stage, bytes>>

Stages == {"absent", "reviewing", "awaiting", "failed", "rejected", "published"}

Init ==
  /\ stage = [v \in Versions |-> "absent"]
  /\ bytes = [v \in Versions |-> None]

Move(v, from, to) == stage[v] \in from /\ stage' = [stage EXCEPT ![v] = to] /\ UNCHANGED bytes

\* A new version, or the publisher's overwrite of one with other bytes.
Submit(v, a) ==
  /\ bytes[v] # a
  /\ stage' = [stage EXCEPT ![v] = IF ReviewEnabled THEN "reviewing" ELSE "awaiting"]
  /\ bytes' = [bytes EXCEPT ![v] = a]

ReviewPasses(v) == Move(v, {"reviewing"}, "awaiting")
ReviewFails(v) == Move(v, {"reviewing"}, "failed")
ReviewRestarts(v) == Move(v, {"failed"}, "reviewing")
Approve(v) == Move(v, {"awaiting", "rejected"}, "published")
Reject(v) == Move(v, {"awaiting"}, "rejected")

Withdraw(D) ==
  /\ stage' = [v \in Versions |-> IF v \in D THEN "absent" ELSE stage[v]]
  /\ bytes' = [v \in Versions |-> IF v \in D THEN None ELSE bytes[v]]

Next ==
  \/ \E v \in Versions, a \in Artifacts : Submit(v, a)
  \/ \E v \in Versions : ReviewPasses(v) \/ ReviewFails(v) \/ ReviewRestarts(v) \/ Approve(v) \/ Reject(v)
  \/ \E D \in SUBSET Versions : Withdraw(D)

Spec == Init /\ [][Next]_vars

=============================================================================
