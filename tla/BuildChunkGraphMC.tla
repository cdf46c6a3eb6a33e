--------------------------- MODULE BuildChunkGraphMC ---------------------------
(* Instances of BuildChunkGraph for TLC. *)
EXTENDS BuildChunkGraph

Entries == {"e1", "e2", "e3"}
Modules == {"m1", "m2", "m3", "a", "b", "c", "d"}
Blocks == {"x", "y", "z", "w"}

Deps(pairs, runtimes, state) ==
    {[from |-> p[1], to |-> p[2], runtimes |-> runtimes, state |-> state] : p \in pairs}

\* Three entries with a main module each; x is imported by the first, y by the
\* second, z by a module or a block that both may lead to, and w by c.
MCGraph(deps, parentsOf2, parentsOf3, async, within, shared) ==
    [modules |-> [e1 |-> {"m1"}, e2 |-> {"m2"}, e3 |-> {"m3"}],
     dependOn |-> [e1 |-> {}, e2 |-> parentsOf2, e3 |-> parentsOf3],
     async |-> async,
     blocks |-> [m \in Modules \cup Blocks |->
                    CASE m = "m1" -> {"x"} [] m = "m2" -> {"y"} [] m = "c" -> {"w"}
                      [] m = within -> {"z"} [] OTHER -> {}],
     name |-> [b \in Blocks |-> IF b \in shared THEN "shared" ELSE NoName],
     deps |-> deps \cup Deps({<<"x", "a">>, <<"y", "b">>, <<"z", "c">>, <<"w", "d">>},
                             Entries, "active")]

Edges == {<<"m2", "a">>, <<"m3", "b">>, <<"a", "c">>, <<"b", "c">>, <<"c", "a">>}
Before == {<<"m1", "d">>}

AlwaysActive == {Deps(edges, Entries, "active") : edges \in SUBSET (Edges \cup Before)}

\* What b needs of c is used in one runtime only, or is passed on.
SometimesActive ==
    {Deps(edges, Entries, "active") \cup Deps({<<"b", "c">>}, rt, state) :
        edges \in SUBSET (Edges \ {<<"b", "c">>}),
        rt \in {{"e2"}, Entries}, state \in {"active", "transitive"}}

Graphs(deps, parentsOf2, parentsOf3, sharing) ==
    {MCGraph(d, parentsOf2, parentsOf3, async, within, shared) :
        d \in deps, async \in {Entries, {"e1"}}, within \in {"a", "x", "y"},
        shared \in sharing}

AllGraphs ==
    Graphs(AlwaysActive, {}, {"e1", "e2"}, {{}, {"x", "z"}, {"y", "z"}})
    \cup Graphs(AlwaysActive, {"e1"}, {"e1"}, {{}, {"x", "y"}})
    \cup Graphs(AlwaysActive, {"e1"}, {"e2"}, {{}})
    \cup Graphs(SometimesActive, {}, {"e1"}, {{}, {"y", "z"}})

\* a imports z: the first entry has a in its own chunk, the second only in that
\* of y.  c refers to d in the runtime of the second entry only.
LateRuntime ==
    {MCGraph(Deps({<<"m1", "a">>, <<"b", "a">>}, Entries, "active")
                \cup Deps({<<"c", "d">>}, {"e2"}, "active"),
             {}, {"e1"}, Entries, "a", {})}

\* An entry that depends on an entry that depends on another.
Chained == {MCGraph(Deps({<<"m1", "m2">>}, Entries, "active"), {"e1"}, {"e2"}, {}, "a", {})}
================================================================================
