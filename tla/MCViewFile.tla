----------------------------- MODULE MCViewFile -----------------------------
(* A command and a poller on one view.json, two directories, two versions. *)
EXTENDS ViewFile
=============================================================================
