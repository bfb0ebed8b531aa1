----------------------------- MODULE MCPlayground -----------------------------
(* The instance of Playground.cfg. *)
EXTENDS Playground
=============================================================================
