---------------------------- MODULE AsyncQueueMC ----------------------------
(* Instances of AsyncQueue for TLC. *)
EXTENDS AsyncQueue
=============================================================================
