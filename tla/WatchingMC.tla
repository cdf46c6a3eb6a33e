----------------------------- MODULE WatchingMC -----------------------------
(* Instances of Watching for TLC. *)
EXTENDS Watching
=============================================================================
