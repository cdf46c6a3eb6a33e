----------------------------- MODULE ModuleBuildMC -----------------------------
(* Instances of ModuleBuild for TLC. *)
EXTENDS ModuleBuild

CONSTANTS a, b, c

Pairs(g, kind) == {p \in DOMAIN g : g[p] = kind}

Build(g, entries, missing, broken, bail, parallelism) ==
    [entries |-> entries, deps |-> Pairs(g, "dep"), loads |-> Pairs(g, "load"),
     imports |-> Pairs(g, "import"), missing |-> missing, broken |-> broken,
     bail |-> bail, parallelism |-> parallelism]

\* One slot, one entry, and every way three modules depend on and load each other.
Cyclic ==
    LET edges == {p \in Module \X Module : p[1] # p[2]} IN
    {Build(g, {a}, {}, {}, FALSE, 1) : g \in [edges -> {"none", "dep", "load"}]}

\* Two entries, and a module that cannot be resolved or built.
Failing ==
    LET edges == {<<a, b>>, <<a, c>>, <<b, c>>, <<b, b>>} IN
    {Build(g, {a, b}, x[1], x[2], bail, n) :
        g \in [edges -> {"none", "dep", "load"}], x \in {<<{c}, {}>>, <<{}, {c}>>},
        bail \in BOOLEAN, n \in {1, 2}}

\* The loaders of one module import another, whose dependencies may be under
\* way for the other entry, and which does not lead back.
Importing ==
    LET edges == {<<b, b>>, <<b, c>>, <<c, b>>, <<c, c>>}
        graph(g) == [p \in edges \cup {<<a, c>>} |-> IF p = <<a, c>> THEN "import" ELSE g[p]]
    IN  {Build(graph(g), {a, b}, m, {}, bail, 2) :
            g \in [edges -> {"none", "dep", "load"}], m \in {{}, {b}}, bail \in BOOLEAN}

Projects == Cyclic \cup Failing \cup Importing

\* Two modules whose loaders import each other.
Importers ==
    LET g == [p \in {<<a, b>>, <<b, a>>} |-> "import"] IN {Build(g, {a}, {}, {}, FALSE, 2)}
================================================================================
