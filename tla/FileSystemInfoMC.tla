-------------------------- MODULE FileSystemInfoMC --------------------------
(* Instances of FileSystemInfo for TLC. *)
EXTENDS FileSystemInfo, TLC

CONSTANTS m1, m2, m3

\* Two builds with the same files, and one with a part of them.
Modules == [b \in {m1, m2, m3} |-> IF b = m3 THEN <<"b">> ELSE <<"a", "b">>]
Alike == Permutations({m1, m2})

Fine(m, failing) == [mode |-> m, grain |-> 1, old |-> [a |-> 3, b |-> 4], failing |-> failing]
Coarse(m) == [mode |-> m, grain |-> 2, old |-> [a |-> 2, b |-> 4], failing |-> {}]
AllSettings ==
    {Fine("timestamp", {}), Coarse("timestamp"), Fine("both", {"a"}), Fine("existence", {})}
BothSetting == {Fine("both", {})}
==============================================================================
