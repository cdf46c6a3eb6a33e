--------------------------- MODULE IdleFileCacheMC ---------------------------
(***************************************************************************)
(* Instances of IdleFileCache for TLC.  The bounds on builds, versions and *)
(* waiting callbacks also bound the timers and links that pile up.         *)
(***************************************************************************)
EXTENDS IdleFileCache
=============================================================================
