----------------------------- MODULE MCGitSync ------------------------------
(* Instances of GitSync for TLC: all values come from the configuration. *)
EXTENDS GitSync

=============================================================================
