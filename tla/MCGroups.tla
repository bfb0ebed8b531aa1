------------------------------ MODULE MCGroups ------------------------------
(* Instances of Groups for TLC. *)
EXTENDS Groups, TLC

\* Slots for requests are interchangeable, and no property is about liveness.
Symmetry == Permutations(Requests)

=============================================================================
