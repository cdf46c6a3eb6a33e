---------------------------- MODULE CacheBackendMC ----------------------------
(* Instances of CacheBackend for TLC; operations are numbered, because the first *)
(* free one is taken.                                                            *)
EXTENDS CacheBackend

CONSTANTS p1, p2, r1, r2

\* Two paths that expire, with a callback that throws; two callbacks, one of which
\* throws, for one path that changes.
MCSessions ==
    {[paths |-> {p1, p2}, requests |-> {r2}, changes |-> 0],
     [paths |-> {p1}, requests |-> {r1, r2}, changes |-> 1]}
=============================================================================
