--------------------------- MODULE LoaderRunnerMC ---------------------------
(* Instances of LoaderRunner for TLC. *)
EXTENDS LoaderRunner

=============================================================================
