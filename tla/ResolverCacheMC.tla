-------------------------- MODULE ResolverCacheMC --------------------------
(* Instances of ResolverCache for TLC. *)
EXTENDS ResolverCache

CONSTANTS i1, i2

Setting(wants, generations, onDisk, early, last, newest) ==
    [wants |-> wants, maxGenerations |-> generations, disk |-> onDisk,
     early |-> early, last |-> last, newest |-> newest]

\* Three requests for the same, with an edit; two for the memory cache to keep;
\* two of which the end of the compilation may know nothing.
MCSettings ==
    {Setting(<<i1, i1, i1>>, 1, onDisk, FALSE, 1, 3) : onDisk \in BOOLEAN}
    \cup {Setting(<<i1, i2>>, n, onDisk, FALSE, n + 1, 2) : n \in {1, 2}, onDisk \in BOOLEAN}
    \cup {Setting(<<i1, i1>>, 1, FALSE, TRUE, 1, 3)}

\* Fewer entries than generations.
Few == {Setting(<<i1, i2>>, 3, FALSE, FALSE, 9, 2)}
=============================================================================
