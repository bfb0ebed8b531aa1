----------------------------- MODULE SyncLease ------------------------------
(***************************************************************************)
(* What the syncing status of a Git source promises (services/             *)
(* git_skill_sync.py): it is a lease.  A sync runs only under it, at most  *)
(* one at a time, and it is given back by the sync itself, or taken away   *)
(* once no sync runs any more.  No requests, heartbeats, clocks or         *)
(* processes here.                                                         *)
(***************************************************************************)
CONSTANT Syncs

VARIABLES
  leased,  \* the source is marked as syncing
  active   \* the syncs at work on it

vars == <<leased, active>>

Init == leased = FALSE /\ active = {}

Begin(s) == /\ active = {}
            /\ active' = {s}
            /\ leased' = TRUE

Conclude(s) == /\ active = {s}
               /\ active' = {}
               /\ leased' = FALSE

\* A sync that dies, or cannot write its result, leaves the lease behind.
Vanish(s) == /\ active = {s}
             /\ active' = {}
             /\ UNCHANGED leased

Reclaim == /\ leased /\ active = {}
           /\ leased' = FALSE
           /\ UNCHANGED active

Next == \/ \E s \in Syncs : Begin(s) \/ Conclude(s) \/ Vanish(s)
        \/ Reclaim

Spec == Init /\ [][Next]_vars

=============================================================================
