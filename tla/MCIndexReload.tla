---------------------------- MODULE MCIndexReload ----------------------------
(* The instance of IndexReload.cfg. *)
EXTENDS IndexReload, TLC

Symmetry == Permutations(Instances)
=============================================================================
