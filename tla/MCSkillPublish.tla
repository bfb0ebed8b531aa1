--------------------------- MODULE MCSkillPublish ---------------------------
(* Instances of SkillPublish for TLC. *)
EXTENDS SkillPublish, TLC

\* Where the review is off, nothing tells packages apart.
Symmetry == Permutations(Versions) \cup Permutations(Artifacts) \cup Permutations(Moderators)

=============================================================================
