---------------------------- MODULE BuildChunkGraph ----------------------------
(***************************************************************************)
(* webpack/lib/buildChunkGraph.js: how the module graph is divided into    *)
(* chunk groups.  The traversal enters every module once per chunk, skips  *)
(* a module that every parent of the chunk group is known to have loaded,  *)
(* and takes that back when a later parent, or a parent whose own set has  *)
(* shrunk, does not.  A chunk group has one chunk here.                    *)
(*                                                                         *)
(* After the graph is built a page is opened: it loads an entry and then   *)
(* imports async blocks in any order, as the generated code would.         *)
(*                                                                         *)
(* A set "a + plus" of modules is modelled as the union of its two parts,  *)
(* and sets are visited in any order where the code follows the order of   *)
(* their insertion.  The items of a block, whose order is that of its      *)
(* source, are visited in one fixed order.  Order indices (and             *)
(* LEAVE_MODULE, which only assigns them) and blocks with entryOptions     *)
(* (workers) are left out.                                                 *)
(*                                                                         *)
(* The specification and its parts have names of their own, so that        *)
(* LoaderAndChunkProofs can extend this module and LoaderRunner.           *)
(***************************************************************************)
EXTENDS Integers, FiniteSets, Sequences, SequencesExt, Functions

CONSTANTS
    Entry,          \* entrypoints
    Module,
    Block,          \* async blocks: the import() calls in the code
    NoName,         \* of a block whose chunk has no name
    Undefined,      \* of a set of modules that is not known yet
    Graph           \* the inputs, as records (see IsGraph)

Nobody == "nobody"

\* modules: the modules of an entry; dependOn: the parents of an entry; async:
\* the entries that may create async chunks; blocks: what a module or a block
\* contains; name: of the chunk of a block; deps: what the code of a module or
\* a block refers to: from, to, the runtimes in which it is active, and whether
\* it is then active itself or only what it refers to ("transitive").
IsGraph(g) ==
    /\ g.modules \in [Entry -> SUBSET Module]
    /\ g.dependOn \in [Entry -> SUBSET Entry]
    /\ g.async \subseteq Entry
    /\ DOMAIN g.blocks = Module \cup Block
    /\ \A c \in Module \cup Block : g.blocks[c] \subseteq Block
    /\ \A b \in Block : \E c \in Module \cup Block : b \in g.blocks[c]
    /\ DOMAIN g.name = Block
    /\ \A d \in g.deps :
        /\ d.from \in Module \cup Block
        /\ d.to \in Module
        /\ d.runtimes \subseteq Entry
        /\ d.state \in {"active", "transitive"}

ASSUME BuildChunkGraphAssumption ==
    /\ IsFiniteSet(Module \cup Block \cup Entry)
    /\ \A S \in SUBSET Module : Undefined # S
    /\ \A g \in Graph : IsGraph(g)

VARIABLES
    graph,
    queue,          \* Seq(Item), the next one is the last
    delayed,        \* Seq(Item): queueDelayed
    info,           \* [Group -> ChunkGroupInfo]
    blockGroup,     \* [Block -> Group], partial: blockChunkGroups
    named,          \* [name -> Group], partial: namedChunkGroups
    connections,    \* blockConnections, as triples <<block, origin, group>>
    nested,         \* blocksWithNestedBlocks
    connect,        \* queueConnect, as pairs <<origin, group>>
    combining,      \* chunkGroupsForCombining
    outdated,       \* outdatedChunkGroupInfo
    phase,
    created,        \* Seq(Group): allCreatedChunkGroups, still to be cleaned up
    parents,        \* pairs <<parent, group>> of connected chunk groups
    connected,      \* the blocks that have a chunk group at the end
    page,           \* the entry a page was opened with
    imported        \* the blocks it has imported

traversal == <<queue, delayed, info, blockGroup, named, connections, nested, connect,
               combining, outdated>>
result == <<created, parents, connected>>
runtime == <<page, imported>>
chunkVars == <<graph, traversal, phase, result, runtime>>

\* A chunk group is named by its entry, or by the block it was created for.
Group == Entry \cup Block

\* PROCESS_BLOCK, or ADD_AND_ENTER_MODULE when enter is set.
Item == [enter : BOOLEAN, block : Module \cup Block, group : Group]
Items(enter, blocks, g) ==
    [i \in 1..Cardinality(blocks) |->
        [enter |-> enter, block |-> SetToSeq(blocks)[i], group |-> g]]

ModuleSets == (SUBSET Module) \cup {Undefined}
IsInfo(i) ==
    /\ i.modules \subseteq Module                   \* the modules of its chunk
    /\ i.runtime \subseteq Entry
    /\ i.async \in BOOLEAN                          \* asyncChunks and chunkLoading
    /\ i.min \in ModuleSets                         \* minAvailableModules
    /\ i.toMerge \subseteq SUBSET Module            \* availableModulesToBeMerged
    /\ i.skipped \subseteq Module                   \* skippedItems
    /\ i.transitive \subseteq Module                \* skippedModuleConnections
    /\ i.resulting \in ModuleSets                   \* resultingAvailableModules
    /\ i.children \subseteq Group

NewInfo(rt, async, min, skipped) ==
    [modules |-> {}, runtime |-> rt, async |-> async, min |-> min, toMerge |-> {},
     skipped |-> skipped, transitive |-> {}, resulting |-> Undefined, children |-> {}]

---------------------------------------------------------------------------
(* The inputs                                                              *)

Ancestors(g, e) ==
    LET up[n \in 0..Cardinality(Entry)] ==
            IF n = 0 THEN g.dependOn[e]
            ELSE up[n - 1] \cup UNION {g.dependOn[p] : p \in up[n - 1]}
    IN  up[Cardinality(Entry)]

EntryRuntime(g, e) ==
    IF g.dependOn[e] = {} THEN {e}
    ELSE {p \in Entry : p \in Ancestors(g, e) /\ g.dependOn[p] = {}}

\* What a module or a block refers to in a runtime (extractBlockModules).
Active(g, from, rt) == {d \in g.deps : d.from = from /\ d.runtimes \cap rt # {}}
Refers(g, from, rt, state) == {d.to : d \in {x \in Active(g, from, rt) : x.state = state}}

ChunkInit ==
    /\ graph \in Graph
    /\ info = [e \in Entry |->
            IF graph.dependOn[e] = {}
            THEN NewInfo(EntryRuntime(graph, e), e \in graph.async, {}, {})
            ELSE NewInfo(EntryRuntime(graph, e), e \in graph.async, Undefined,
                         graph.modules[e])]
    /\ queue = Reverse(FoldSet(LAMBDA e, q :
                            IF graph.dependOn[e] = {} THEN q \o Items(TRUE, graph.modules[e], e)
                            ELSE q, <<>>, Entry))
    /\ combining = {e \in Entry : graph.dependOn[e] # {}}
    /\ delayed = <<>>
    /\ blockGroup = <<>> /\ named = <<>>
    /\ connections = {} /\ nested = {} /\ connect = {} /\ outdated = {}
    /\ phase = "visit"
    /\ created = <<>> /\ parents = {} /\ connected = {}
    /\ page = Nobody /\ imported = {}

---------------------------------------------------------------------------
(* The traversal: processQueue()                                           *)

MayCreate(g) == info[g].async

\* What has been set in a map; TLC's f @@ g, which has no definition for a proof.
Over(f, g) ==
    [x \in DOMAIN f \cup DOMAIN g |-> IF x \in DOMAIN f THEN f[x] ELSE g[x]]

\* The blocks of c that stay in the chunk they are imported from.
Inlined(c, g) ==
    {b \in graph.blocks[c] : b \notin DOMAIN blockGroup /\ ~MayCreate(g)}

\* The group of a block: its own, that of its name, or a new one, which is
\* named by the first block of that name.
GroupOf(b, c) ==
    LET name == graph.name[b]
        siblings == {x \in graph.blocks[c] : graph.name[x] = name} \ DOMAIN blockGroup
    IN  IF b \in DOMAIN blockGroup THEN blockGroup[b]
        ELSE IF name = NoName THEN b
        ELSE IF name \in DOMAIN named THEN named[name]
        ELSE CHOOSE x \in siblings : TRUE

\* iteratorBlock() of every async block in c.
IterateBlocks(c, g) ==
    LET split == graph.blocks[c] \ Inlined(c, g)
        target == [b \in split |-> GroupOf(b, c)]
        fresh == {target[b] : b \in split} \ DOMAIN info
        names == {graph.name[b] : b \in fresh} \ {NoName}
    IN  /\ blockGroup' = Over(target, blockGroup)
        /\ named' = Over([n \in names |-> CHOOSE b \in fresh : graph.name[b] = n], named)
        /\ created' = created \o SetToSeq(fresh)
        /\ connections' = connections \cup {<<b, g, target[b]>> : b \in split}
        /\ connect' = connect \cup {<<g, target[b]>> : b \in split}
        /\ delayed' = delayed \o SetToSeq(
                {[enter |-> FALSE, block |-> b, group |-> target[b]] : b \in split})
        /\ nested' = IF c \in Block /\ graph.blocks[c] # {} THEN nested \cup {c} ELSE nested

\* processBlock() of c in the chunk of g, after the chunk got the modules in own.
ProcessBlock(c, g, own, rest) ==
    LET i == info[g]
        Referred(state) == Refers(graph, c, i.runtime, state) \ (i.modules \cup own)
        skipped == Referred("active") \cap i.min
        entered == Referred("active") \ skipped
        passed == Referred("transitive")
        fresh == {GroupOf(b, c) : b \in graph.blocks[c] \ Inlined(c, g)} \ DOMAIN info
    IN  /\ IterateBlocks(c, g)
        /\ queue' = rest \o Items(TRUE, entered, g) \o Items(FALSE, passed, g)
                         \o Items(FALSE, Inlined(c, g), g)
        /\ info' = Over([h \in fresh |-> NewInfo(i.runtime, i.async, Undefined, {})],
                        [info EXCEPT ![g].modules = @ \cup own,
                                     ![g].skipped = @ \cup skipped,
                                     ![g].transitive = @ \cup passed])

Visit ==
    /\ phase = "visit" /\ queue # <<>>
    /\ LET item == Last(queue)
           rest == Front(queue)
       IN  IF item.enter /\ item.block \in info[item.group].modules
           THEN /\ queue' = rest
                /\ UNCHANGED <<delayed, info, blockGroup, named, connections, nested,
                               connect, created>>
           ELSE ProcessBlock(item.block, item.group,
                             IF item.enter THEN {item.block} ELSE {}, rest)
    /\ UNCHANGED <<graph, combining, outdated, phase, parents, connected, runtime>>

---------------------------------------------------------------------------
(* The rest of a round of the loop                                         *)

\* calculateResultingAvailableModules()
Resulting(i) == IF i.resulting = Undefined THEN i.min \cup i.modules ELSE i.resulting

\* The queue is empty; a group is only combined when the sets of all its
\* parents are known, otherwise it is dropped from chunkGroupsForCombining.
VisitEnd ==
    /\ phase = "visit" /\ queue = <<>>
    /\ combining' = {e \in combining :
                        \A p \in graph.dependOn[e] : info[p].min # Undefined}
    /\ phase' = "combine"
    /\ UNCHANGED <<graph, queue, delayed, info, blockGroup, named, connections, nested,
                   connect, outdated, result, runtime>>

Combine(e) ==
    /\ phase = "combine" /\ e \in combining
    /\ LET sources == graph.dependOn[e]
           all == UNION {Resulting(info[p]) : p \in sources}
           known == [g \in DOMAIN info |->
                IF g \in sources THEN [info[g] EXCEPT !.resulting = Resulting(info[g])]
                ELSE info[g]]
       IN  info' = [known EXCEPT ![e].min = all, ![e].resulting = Undefined]
    /\ outdated' = outdated \cup {e}
    /\ combining' = combining \ {e}
    /\ UNCHANGED <<graph, queue, delayed, blockGroup, named, connections, nested, connect,
                   phase, result, runtime>>

\* processConnectQueue(), for one origin.
Connect(g) ==
    /\ phase = "combine" /\ combining = {}
    /\ \E pair \in connect : pair[1] = g
    /\ LET targets == {h \in DOMAIN info : <<g, h>> \in connect}
           available == Resulting(info[g])
           rt == info[g].runtime
           Hand(i) == [i EXCEPT !.toMerge = @ \cup {available}, !.runtime = @ \cup rt]
           From(i) == [i EXCEPT !.children = @ \cup targets, !.resulting = available]
       IN  /\ info' = [h \in DOMAIN info |->
                LET i == IF h = g THEN From(info[h]) ELSE info[h]
                IN  IF h \in targets THEN Hand(i) ELSE i]
           /\ outdated' = outdated \cup {h \in targets : ~(rt \subseteq info[h].runtime)}
           /\ connect' = {pair \in connect : pair[1] # g}
    /\ UNCHANGED <<graph, queue, delayed, blockGroup, named, connections, nested, combining,
                   phase, result, runtime>>

Intersection(sets) == {m \in UNION sets : \A s \in sets : m \in s}

\* Mutant: what the children were told is not calculated again.
MergedMutant(i) ==
    IF i.toMerge = {} THEN i
    ELSE [i EXCEPT !.toMerge = {},
                   !.min = Intersection(i.toMerge \cup ({i.min} \ {Undefined}))]

\* processChunkGroupsForMerging(), for one group: the set can only shrink.
Merged(i) ==
    LET min == Intersection(i.toMerge \cup ({i.min} \ {Undefined}))
    IN  IF i.toMerge = {} \/ min = i.min THEN [i EXCEPT !.toMerge = {}]
        ELSE [i EXCEPT !.toMerge = {}, !.min = min, !.resulting = Undefined]

EndMerge ==
    /\ info' = [g \in DOMAIN info |-> Merged(info[g])]
    /\ phase' = "revisit"
    /\ UNCHANGED <<graph, queue, delayed, blockGroup, named, connections, nested, connect,
                   combining, result, runtime>>

\* Mutants: the groups are merged before all are connected; a group is revisited
\* whenever its parents are merged again.
MergeEarlyMutant ==
    /\ phase = "combine" /\ combining = {}
    /\ EndMerge
    /\ outdated' = outdated \cup {g \in DOMAIN info : info'[g].min # info[g].min}

MergeAlwaysMutant ==
    /\ phase = "combine" /\ combining = {} /\ connect = {}
    /\ EndMerge
    /\ outdated' = outdated \cup {g \in DOMAIN info : info[g].toMerge # {}}

Merge ==
    /\ phase = "combine" /\ combining = {} /\ connect = {}
    /\ EndMerge
    /\ outdated' = outdated \cup {g \in DOMAIN info : info'[g].min # info[g].min}

\* processOutdatedChunkGroupInfo(), for one group.
Revisit(g) ==
    /\ phase = "revisit" /\ g \in outdated
    /\ LET i == info[g]
           again == i.skipped \ i.min
       IN  /\ queue' = queue \o Items(TRUE, again, g) \o Items(FALSE, i.transitive, g)
           /\ info' = [info EXCEPT ![g].skipped = @ \ again]
           /\ connect' = connect \cup {<<g, h>> : h \in i.children}
           /\ combining' = combining \cup {e \in Entry : g \in graph.dependOn[e]}
           /\ outdated' = outdated \ {g}
    /\ UNCHANGED <<graph, delayed, blockGroup, named, connections, nested, phase, result,
                   runtime>>

\* The queues are swapped when the first one is empty, and the loop goes on
\* while there is a block to visit or a group to connect.
NextRound ==
    /\ phase = "revisit" /\ outdated = {}
    /\ queue' = IF queue = <<>> THEN Reverse(delayed) ELSE queue
    /\ delayed' = IF queue = <<>> THEN <<>> ELSE delayed
    /\ phase' = IF queue' = <<>> /\ connect = {} THEN "connect" ELSE "visit"
    /\ UNCHANGED <<graph, info, blockGroup, named, connections, nested, connect, combining,
                   outdated, result, runtime>>

---------------------------------------------------------------------------
(* connectChunkGroups() and cleanupUnconnectedGroups()                     *)

\* A block is not connected when everything it would load is available already.
IsNeeded(b) ==
    \/ b \in nested
    \/ \E c \in connections :
        c[1] = b /\ ~(info[c[3]].modules \subseteq info[c[2]].resulting)

ConnectChunkGroups ==
    /\ phase = "connect"
    /\ connected' = {b \in {c[1] : c \in connections} : IsNeeded(b)}
    /\ parents' = {<<c[2], c[3]>> : c \in {x \in connections : x[1] \in connected'}}
                    \cup {p \in Entry \X Entry : p[1] \in graph.dependOn[p[2]]}
    /\ phase' = "cleanup"
    /\ UNCHANGED <<graph, traversal, created, runtime>>

Cleanup ==
    /\ phase = "cleanup" /\ created # <<>>
    /\ LET g == Head(created)
           orphan == ~\E p \in parents : p[2] = g
       IN  /\ connected' = IF orphan THEN {b \in connected : blockGroup[b] # g} ELSE connected
           /\ parents' = IF orphan THEN {p \in parents : p[1] # g} ELSE parents
    /\ created' = Tail(created)
    /\ UNCHANGED <<graph, traversal, phase, runtime>>

CleanupEnd ==
    /\ phase = "cleanup" /\ created = <<>>
    /\ phase' = "built"
    /\ UNCHANGED <<graph, traversal, result, runtime>>

---------------------------------------------------------------------------
(* A page                                                                  *)

Roots(e) == {e} \cup Ancestors(graph, e)

\* The chunk groups a page has loaded, and the modules in their chunks.
LoadedGroups == Roots(page) \cup {blockGroup[b] : b \in imported \cap connected}
Loaded == UNION {info[g].modules : g \in LoadedGroups}

\* What is reached from a set of modules and blocks, in the runtime of the page,
\* and what of it is required, not only passed on.
Reached(start) ==
    LET rt == EntryRuntime(graph, page)
        reach[n \in 0..Cardinality(Module)] ==
            IF n = 0 THEN start
            ELSE reach[n - 1] \cup {d.to : d \in UNION {Active(graph, c, rt) : c \in reach[n - 1]}}
    IN  reach[Cardinality(Module)]

Required(start) ==
    start \cup UNION {Refers(graph, c, EntryRuntime(graph, page), "active") : c \in Reached(start)}

Evaluated == Required(UNION {graph.modules[e] : e \in Roots(page)} \cup imported)

Open(e) ==
    /\ phase = "built" /\ page = Nobody
    /\ page' = e
    /\ UNCHANGED <<graph, traversal, phase, result, imported>>

\* An import() that has been reached: in an evaluated module, or in the block
\* of another import.
Import(b) ==
    /\ page # Nobody
    /\ b \notin imported
    /\ \E c \in Evaluated : b \in graph.blocks[c]
    /\ imported' = imported \cup {b}
    /\ UNCHANGED <<graph, traversal, phase, result, page>>

---------------------------------------------------------------------------

Build ==
    \/ Visit
    \/ VisitEnd
    \/ \E e \in Entry : Combine(e)
    \/ \E g \in Group : Connect(g)
    \/ Merge
    \/ \E g \in Group : Revisit(g)
    \/ NextRound
    \/ ConnectChunkGroups
    \/ Cleanup
    \/ CleanupEnd

ChunkNext ==
    \/ Build
    \/ \E e \in Entry : Open(e)
    \/ \E b \in Block : Import(b)

ChunkSpec == ChunkInit /\ [][ChunkNext]_chunkVars

\* The build is one synchronous call: it goes on until it is done.
FairChunkSpec == ChunkSpec /\ WF_chunkVars(Build)

---------------------------------------------------------------------------
(* Properties                                                              *)

Phases == {"visit", "combine", "revisit", "connect", "cleanup", "built"}

ChunkTypeOK ==
    /\ queue \in Seq(Item) /\ delayed \in Seq(Item)
    /\ DOMAIN info \subseteq Group /\ \A g \in DOMAIN info : IsInfo(info[g])
    /\ DOMAIN blockGroup \subseteq Block /\ Range(blockGroup) \subseteq Group
    /\ Range(named) \subseteq Group
    /\ connections \subseteq Block \X Group \X Group
    /\ nested \subseteq Block
    /\ connect \subseteq Group \X Group
    /\ combining \subseteq Entry /\ outdated \subseteq Group
    /\ phase \in Phases
    /\ created \in Seq(Block) /\ parents \subseteq Group \X Group /\ connected \subseteq Block
    /\ page \in Entry \cup {Nobody} /\ imported \subseteq Block

\* A module that is required is in a chunk that is loaded, whichever page was
\* opened and in whichever order its imports are made: what was left out of a
\* chunk because the parents have it (skippedItems) was rightly left out.
RequiredIsLoaded == page # Nobody => Evaluated \cap Module \subseteq Loaded

\* A set of available modules is only read when it is known: a block is visited
\* after a parent of its chunk group was merged or combined, and the resulting
\* set of an origin that was reset is calculated again before the groups are
\* connected.
SetsAreKnown ==
    /\ ChunkTypeOK
    /\ phase = "visit" /\ queue # <<>> => info[Last(queue).group].min # Undefined
    /\ \A pair \in connect : info[pair[1]].min # Undefined
    /\ phase = "connect" => \A c \in connections : info[c[2]].resulting # Undefined

\* The sets shrink and the work comes to an end: the traversal does not feed
\* itself for ever, whatever imports what.
BuildEnds == <>(phase = "built")
================================================================================
