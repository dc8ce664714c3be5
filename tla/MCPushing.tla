----------------------------- MODULE MCPushing -----------------------------
(* Small instances of Pushing for TLC: see the cfg files for the bounds. *)
EXTENDS Pushing
=============================================================================
