# A verification project for the webpack sources

The repository holds four programs: webpack 5 (`webpack/`), its resolver
(`enhanced-resolve/`), its loader runner (`loader-runner/`) and its command line
(`webpack-cli/`). Each of them is JavaScript on one thread: nothing runs in
parallel, yet almost everything overlaps, because every operation is cut into
callbacks that the event loop, the file system, timers, promises and user code
call in an order nobody chose. The project models the parts where that order
matters: the queues that drive a compilation, the module graph that is built
with them, the watch session, the caches and the snapshots they rely on, the
coordination of several compilers, the traversal that makes the chunks, the
loaders, and hot updates in the page. Their state machines are TLA+ modules, TLC
checks them on small instances, and TLAPS proves the central invariants for every
size.

Conventions: an action is a stretch of code that no other callback can
interrupt; names are the names of the source; paths below are relative to
`src/webpack/lib` unless they begin with another package.

## 1. Inventory

| component | state it keeps | operations | talks to |
|---|---|---|---|
| `util/AsyncQueue.js` | map of entries, list of waiting entries, `_stopped`; in the root: `_activeTasks`, `_parallelism` and the flags `_willEnsureProcessing`, `_needProcessing` | `add`, `waitFor`, `invalidate`, `stop`, `clear`, `increaseParallelism`, `decreaseParallelism`, `_ensureProcessing`, `_handleResult` | `Compilation` and `FileSystemInfo` own queues; processors call back into `add` |
| `util/ArrayQueue.js` | a stack reversed into a list | `enqueue`, `dequeue`, `delete` | `AsyncQueue` |
| `util/Semaphore.js`, `util/LazySet.js`, `util/SortableSet.js`, `util/StackedMap.js`, ... | data structures | | everything |
| `Watching.js` | `running`, `invalid`, `suspended`, `closed`, `callbacks`, collected files, the watcher and its paused predecessor | `_go`, `_done`, `watch`, `invalidate`, `suspend`, `resume`, `close` | `Compiler`, `node/NodeWatchFileSystem.js`, Watchpack, the cache's idle state |
| `Compiler.js` | `running`, `idle`, `watchMode`, caches of emitted assets, records | `run`, `watch`, `compile`, `emitAssets`, `emitRecords`, `readRecords`, `close` | `Compilation`, `Watching`, `Cache` |
| `MultiCompiler.js` | a graph of compilers; per node: state, setup, result | `run`, `watch`, `close`, `_runGraph` | one `Compiler`/`Watching` per node |
| `Cache.js` and `cache/*` | memory maps (with generations), pending disk tasks, timers, the pack | `get`, `store`, `beginIdle`, `endIdle`, `shutdown`, `storeBuildDependencies` | every plugin, `FileSystemInfo` |
| `cache/ResolverCachePlugin.js` | active requests by identifier | `resolve` hook | resolver, `Cache`, `FileSystemInfo` |
| `FileSystemInfo.js` | timestamps, hashes, snapshots, six queues | `createSnapshot`, `checkSnapshotValid`, `resolveBuildDependencies` | file systems, caches |
| `Compilation.js`: module graph construction | modules, dependencies, the four queues, `ModuleGraph` | `addModuleTree`, `factorizeModule`, `addModule`, `buildModule`, `processModuleDependencies`, `rebuildModule`, `executeModule`, `finish` | factories, `NormalModule`, `AsyncQueue` |
| `Compilation.js`: seal | chunks, chunk graph, hashes, assets | `seal`, `codeGeneration`, `createHash`, `processAssets`, `unseal` | optimisation plugins |
| `buildChunkGraph.js`, `optimize/*`, `ChunkGraph.js`, `ModuleGraph.js`, `graph/*` | graphs | pure algorithms over graphs | `Compilation` |
| `NormalModule.js`, `NormalModuleFactory.js`, `ResolverFactory.js` | one module, caches of unsafe data and resolvers | `build`, `needBuild`, `create` | loader runner, resolver |
| `hmr/HotModuleReplacement.runtime.js` | `currentStatus`, blocking promises, queued invalidations | `check`, `apply`, `abort`, `invalidate`, `accept` | the running application |
| `hmr/LazyCompilationPlugin.js`, `hmr/lazyCompilationBackend.js` | active modules, reference counts, timers | `module`, requests of the client | `Compilation`, `Watching` |
| `runtime/*` | code generated into bundles: chunk loading, shared scopes | | the running application |
| parsers, templates, `dependencies/*`, `css/*`, `wasm*/*`, `stats/*`, `schemas/*` | one module or one compilation at a time | sequential transformations | |
| `enhanced-resolve/lib/CachedInputFileSystem.js` | active operations, cached results, levels of expiry, a timer | `provide`, `provideSync`, `purge`, decay | every reader of files |
| `enhanced-resolve/lib/*` (resolver) | none beyond a request | hooks | `ResolverCachePlugin` |
| `loader-runner/lib/LoaderRunner.js` | the loader context, its index | `runLoaders`, pitch and normal phases | `NormalModule` |
| `webpack-cli/packages/*` | options, processes | commands | `Compiler`, `MultiCompiler` |

### How they interact

`Compiler.watch()` creates a `Watching`; each of its rounds calls `endIdle()` on the
cache, runs a compilation and calls `beginIdle()` again. A compilation feeds its
entries into `factorizeQueue`, whose results go to `addModuleQueue`, `buildQueue` and
`processDependenciesQueue`, which feeds `factorizeQueue`: one family of `AsyncQueue`s
with a shared budget. Building a module runs loaders, reads files through
`CachedInputFileSystem` and asks the caches. `FileSystemInfo` uses queues of its
own to take the snapshots the caches need. `MultiCompiler` starts and invalidates
the watch sessions of its children in the order of their dependencies.

### What is hard here

* *Re-entrancy.* Processors, hooks, handlers and callbacks run synchronously in the
  middle of an operation and may call any other operation
  (`AsyncQueue._ensureProcessing`, `Watching._done`).
* *Windows.* State is changed before an asynchronous step and read after it
  (`Watching._done` clears `running` before the `done` hook).
* *Ordering.* File events, results, timers and promises arrive in any order
  (`CachedInputFileSystem`, `IdleFileCachePlugin`).
* *Limits.* Shared slots that must be given back on every path.
* *Termination.* Every callback has to be called, exactly once.

The hazards of each component are listed, with their lines, in `PROJECT.json`.

## 2. Modules

| module | models | kind |
|---|---|---|
| `AsyncQueue` | `util/AsyncQueue.js` | detailed state machine |
| `AsyncQueueMC` | its instances | |
| `TaskQueue` | what a family of `AsyncQueue`s promises | abstract specification, implemented by `AsyncQueue` |
| `AsyncQueueProofs` | theorems about `AsyncQueue`, and that it implements `TaskQueue` | proofs |
| `Watching` | `Watching.js`, `node/NodeWatchFileSystem.js` | detailed state machine |
| `WatchingMC` | its instances | |
| `WatchingProofs` | theorems about `Watching` | proofs |
| `IdleFileCache` | `cache/IdleFileCachePlugin.js` and the pack's life in `cache/PackFileCacheStrategy.js` | detailed state machine |
| `IdleFileCacheMC` | its instances | |
| `CacheProofs` | theorems about `IdleFileCache` and `CacheBackend` | proofs |
| `CacheBackend` | `enhanced-resolve/lib/CachedInputFileSystem.js` | detailed state machine with a clock |
| `CacheBackendMC` | its instances | |
| `MultiCompiler` | `MultiCompiler.js`, `MultiWatching.js` and the part of `Watching.js` they touch | detailed state machine |
| `MultiCompilerMC` | its instances | |
| `MultiCompilerProofs` | theorems about `MultiCompiler` | proofs |
| `LoaderRunner` | `loader-runner/lib/LoaderRunner.js`, `loadLoader.js` | detailed state machine |
| `LoaderRunnerMC` | its instances | |
| `LoaderAndChunkProofs` | theorems about `LoaderRunner` and `BuildChunkGraph` | proofs |
| `ModuleBuild` | the make phase of `Compilation.js`, `dependencies/LoaderPlugin.js` | state machine over the queues' slots |
| `ModuleBuildMC` | projects | |
| `ModuleBuildProofs` | theorems about `ModuleBuild` | proofs |
| `FileSystemInfo` | snapshots of files in `FileSystemInfo.js` | detailed state machine with a clock |
| `FileSystemInfoMC` | its instances | |
| `BuildChunkGraph` | `buildChunkGraph.js`, and a page that loads the chunks | algorithm, step by step |
| `BuildChunkGraphMC` | graphs | |
| `HotUpdate` | `hmr/HotModuleReplacement.runtime.js`, `hmr/JavascriptHotModuleReplacement.runtime.js` | state machine |
| `HotUpdateMC` | pages | |
| `ResolverCache` | `cache/ResolverCachePlugin.js` over `Cache.js` and `cache/MemoryWithGcCachePlugin.js` | state machine with a call stack |
| `ResolverCacheMC` | its instances | |
| `SnapshotAndUpdateProofs` | theorems about `HotUpdate` and `FileSystemInfo` | proofs |
| `ResolverCacheProofs` | theorems about `ResolverCache` | proofs |

### AsyncQueue

Queue 0 is the root, the others its descendants in the order of
`_root._children`. An entry is a number, given in the order of creation, so the
head of a list is its smallest entry; `state` is `AsyncQueueEntry.state` with three
more values for what the code expresses by where an entry is (`stopping`: rejected
in the `nextTick` of `add()`; `dropped`: invalidated while it was queued; `free`).
Callers stand for callbacks: `wants` is what one asks for, `call` what became of
it, `on` the entry whose callback list it is in. `loop` and `inCall` cut
`_ensureProcessing` at its only interruption points, the synchronous calls of
processors: `ClientRuns` says when code other than the loop may run.

`TaskQueue` leaves out maps, lists, flags and scheduled callbacks: a job is queued,
processed at most once and never while the limit is reached, its callers are told
the outcome once, and a job that may start does start. `ImplementsTaskQueue` maps
the entries of `AsyncQueue` to the jobs. The fairness of `TaskQueue` is part of what
is implemented, so a lost wake-up would show here as well.

### Watching

`tick` is the `nextTick` of the constructor, `phase` where `_go` is (`endIdle`,
`readRecords`, `compile`), `finishing` the asynchronous `done` hook of a finished
build and `stack` the synchronous calls below it: the handler, then the callbacks
taken from `callbacks`. `watcher` and `pausedWatcher` refer to generations of `wp`, the
external Watchpack, which reports once and then collects in `pend`. Changed and
removed files are one set; `unreported` and `sinceStart` say which changes no build
has seen yet.

### IdleFileCache

A promise callback runs before any timer or client code, so everything that
waits for the pack runs in the step that opens it. `chain` is
`currentIdlePromise`, cut into links that resolve in order: a chunk of stores, a
write of the pack (`flush`), or the jobs, the write and the `clear()` of shutdown.
Timers are counted by kind; `idleTimer` is the kind of the one that would be
cleared. An item's n-th `store()` stores version n; its etag is the version.
### CacheBackend

Time passes in steps (`Pass`), and a timeout may be late by `MaxLate`. `cache` is a
record with the fields of the backend, because a read, a purge and a timeout each
change most of them through the same helpers, which are functions from record to
record (`RunDecays`, `StoreResult`, `EnterAsyncMode`, ...). An operation is a call of the
provider; `list` has the callbacks that wait for it, `active` says which operation of
a path others may still join. The content of a file is a number that grows with
every change, so that older and newer answers can be told apart. `session` says which
paths are read, by whom and how often they change; it is chosen in the initial
state.

### MultiCompiler

`state`, `queue`, `running` are the variables of `_runGraph`; `worker` tells whether
`processQueueWorker` is looping, scheduled or off. Per compiler there is as much of
`Watching` as the graph touches: the phase of a build, `invalid`, `blocked`, `suspended`,
the watcher, and the done hook that is still to answer (`finishing`). `stale` and
`dirty` are history: they say which compilers would have to build again. `watchMode`
is chosen in the initial state. `budget` bounds the events of the environment and
remembers which kinds have happened.

### LoaderRunner

One call of `runLoaders`. A run is one call of `runSyncOrAsync`; its closure (`sync`, `done`,
`reported`) is remembered as long as code of the loader may use it. `stack` holds the
functions that have not returned, which may be nested as deep as the chain when
loaders are synchronous; `context` is the run whose `async` and `callback` the shared
loader context has now; code that is late reads the closures of another run. `pitchExecuted` and `normalExecuted` are the flags of the loader
objects; `shortcut` is the loader whose pitch gave a result.

### ModuleBuild

A request is one call of `handleModuleCreation`, by an entry, a dependency or a
loader; `at` says which queue it is in or which of its callbacks is due. Callbacks
run before the event loop goes on (`Idle`), so the jobs that start next see their
effects. The queues appear through what `TaskQueue` says of them: a job per module
for building and for its dependencies, a common number of slots, callers that
are told together. `extra` are the `increaseParallelism()` calls, `creating` is
`creatingModuleDuringBuild`, `left` is `inProgressTransitive`. The modules' contents
are the pairs of a project.

Left out: the unsafe cache, `rebuildModule`, what `needBuild` and the module cache
save, the factories.

### FileSystemInfo

`build` is one module that notes when the compilation began (`fsStartTime`, or the
present time with an input file system that does not set it), reads its files and asks
for a snapshot; `stamp` and `hash` are the caches of one compilation, filled by reads
that may fall before or after an edit. `snap` and `entry` are the snapshots and the
optimization entries, `owner` the map from files to entries. A compilation that
begins clears the caches. `got` and `took` are history: the versions a build has
read, and those that were hashed; `seen` says which versions were on the disk
when a timestamp or hash was taken.

Left out: directories (contexts), managed items, build dependencies and their
resolving, `mergeSnapshots`, `addFileTimestamps`, ignored files. Two sentences of
the properties have preconditions that the code needs, too: a file that is
removed between its read and its timestamp is not noticed in the mode
"timestamp", and a snapshot of missing files has no start time.

### BuildChunkGraph

`queue`, `delayed`, `connect`, `combining` and `outdated` are the queues and sets of
`visitModules`; `info` is a `ChunkGroupInfo` by chunk group, named by its entry or by the
first block that leads to it. `phase` is where the loop stands. A page (`page`,
`imported`) opens one entry and imports in any order what it has reached, which is
what the chunks are for; it gives the algorithm its specification. The items of a
block are visited in one fixed order, that of the graph; sets whose order the code
does not fix are taken in any.

Left out: blocks with entry options, order indices, the error for an `import()`
of an initial chunk, more than one chunk per group. The graphs of the run leave
out the two cases below under "Disagreements". Connections that are only passed
through are those of plugins (side effects), so no cycle consists of them alone.

### HotUpdate

`status` is `currentStatus`, `check` how far the promise of `hotCheck()` is, `settling`
whether `internalApply()` waits for its status handlers. `handlers`, `updated`,
`reloaded`, `pending` and `queued` are the update under way. The page's modules are a
graph; `current` says who has required the instance that is in the module cache.
A promise callback is an action when something else can run before it.

Left out: declined modules, modules an update removes, the `ignore...` options,
update chunks of chunks that are loaded during the check, dispose handlers.

### ResolverCache

A request is named by its caller; `run` says how far it is, and with which entry. An
entry is the version of the files it was resolved from, 0 the knowledge that there
is none. The cache, `checkSnapshotValid`, the resolver and `createSnapshot` may all
call back before they return or later, so `stack` has the functions that have not
returned, and `Return` is the end of the tapped function, which registers the
request unless it was answered in between. `cache` and `oldCache` are the two maps of
`MemoryWithGcCachePlugin` in their order of insertion, which its sweep depends on.
The cache on disk, the resolver and `FileSystemInfo` appear with what
`IdleFileCache`, `CacheBackend` and `FileSystemInfo` show of them. `latest` and `used` are
history: the entry that was stored last, and when the memory last used one.

Left out: requests with a `yield`, entries with different etags, errors of
`Cache.get`, which end a request like an error of the resolver.

## 3. Runs

Every run is a `.cfg` beside its MC module; bounds are constants of the cfg.

| run | shows | bounds and why they are enough |
|---|---|---|
| `asyncqueue` | no lost wake-up, exact slots, no orphaned callback, accepted callbacks are called; `TaskQueue` is implemented | a root and a child, two keys, two callers, two entries alive, one slot that can be doubled once: the loop passes a queue, returns to the root and is refilled from within a processor; for more queues, keys and callers see the proofs |
| `watching` | `running` means that a build runs, no watcher is leaked, a build knows every change before it, an `invalidate()` hears of a build that began after it (as long as nobody suspends), changes get built, callbacks of `invalidate()` and `close()` get called | two changes of a file, one callback of `invalidate()`, two of `close()`, one `suspend()` and one failure: a done path overlaps with the next build and with each of them |
| `idlefilecache` | nothing stored is lost, reads see the last store, the file never goes back, shutdown and idle time store everything | two items and versions, three builds, one failing write: an old timer, an old link and a new idle period coexist |
| `cachebackend` | an entry is served no longer than its duration and not expired early, with mode, timeout and levels in agreement; reads, synchronous reads and purges in any order: fresh after a purge, never older, answered, and once | two sessions: two paths, three levels of two units, a timeout late by one, so that the ring wraps around while both paths are purged, read and expired; two requests, one of which throws, for one path with one change, with three operations, since a purge may let a second read of a path begin |
| `multicompiler` | nobody is forgotten, slots are counted exactly and never exceeded, what is done is current; changes get built and reported; for `run()` and `watch()` | a chain of three compilers, the smallest graph with an indirect dependency, two slots, one file change and one further event (invalidate, suspend, removal, failure, close) at any moment |
| `loaderrunner` | one call of the final callback, normal functions in reverse order, the callback comes | two loaders, which is what one needs to use the other's callback; the proofs cover every number |
| `modulebuild` | every entry is answered; by then everything it leads to is built and processed; slots and extra slots are balanced | three modules: every graph of dependencies and loads of one entry with one slot; two entries with a failing module, with and without `bail`, one or two slots; an `importModule()` into a graph that is under way for another entry |
| `filesysteminfo` | sharing drops no file, what is found valid is what was read, what nobody touches becomes and stays valid | three builds over two files with shared parts, two compilations, one edit; mtimes of one and of two units against an accuracy of four that may sharpen to one or two, a file that cannot be read; a snapshot is shared, extracted and extracted from again. Two of the builds have the same files and are symmetric |
| `chunkgraph` | a page has every required module in what it has loaded, sets are known when they are read, the traversal ends | 3,072 graphs of three entries (independent, dependent on one, on two, on each other in a chain), four async blocks, seven modules, with names that blocks share, cycles of imports, and connections that are active in one runtime or only pass through |
| `chunkgraph_late` | (violation) what a chunk needs in a runtime that reached it late is missing | one graph |
| `hotupdate` | nothing is applied while a chunk loads, no stale module stays, invalidations are not forgotten (outside the window under "Disagreements"), `check()` settles | twelve pages of three modules, one check, two chunks, two invalidations, at any moment |
| `resolvercache` | who asks is called back, nobody twice, what it is told was true in this compilation, what was used stays in memory for as many compilations as configured, and stays the newest | three callers of one identifier over one edit and two compilations, which may join before, while and after the callbacks are called; two identifiers over up to four compilations and one or two generations, with and without a disk; a compilation that may end before its requests do |

Each property has a mutant, an operator beside the definition it changes whose
comment names the bug, that the property detects.

`CHECK_DEADLOCK FALSE` stands in runs whose behaviours end because their bounds are
used up; the liveness properties say what must have happened by then.

### Fairness

The event loop runs every immediate, tick, timer and promise callback it has
been given: weak fairness of the corresponding action. Processors, hooks and
file operations are assumed to answer, which is what their documentation asks
of them. `AsyncQueue` needs strong fairness for answers, because they cannot be
delivered while `_ensureProcessing` runs, which clients can make happen again and
again; libuv polls for them between two rounds of immediates. Clients are never
assumed to call anything, except that in `MultiCompiler` somebody resumes what is
suspended. `LoaderRunner` assumes that a function that owes an answer gives it, as
the loader API asks; `CacheBackend` that the file system answers and the event loop
runs its ticks; `ModuleBuild` that the event loop takes what its queues offer, in any
order; `HotUpdate` that requests, chunks and status handlers come to an end, and
nothing of the page; `ResolverCache` that functions return, and that the disk, the
resolver and `FileSystemInfo` answer. The traversal of `BuildChunkGraph` is one synchronous call, so
its steps follow each other.

## 4. Proofs

`AsyncQueueProofs` proves for every number of queues, keys, callers, slots and
entries (`QueueAssumption` only says that they are natural numbers and that there
is a slot):

* `TypeCorrect`: `TypeOK`, the base of everything else.
* `StructureCorrect`: the invariant `StructureInv`. `QueuedIsMapped` alone is not
  inductive: to know that a new entry is in no list one has to know that numbers
  above `created` are unused (`Numbering`) and that an entry in a list is in the
  map under the key it was made for (`Placement`).
* `StoppedQueueEmptyCorrect`: every path into a list looks at `_stopped` in the same
  step, so the invariant is inductive given the types.
* `WakeupCorrect` and `NoLostWakeupCorrect`: the argument about the two flags.
  While the loop is off, a waiting entry implies `need` or a scheduled immediate;
  `will` implies a scheduled immediate; a free slot with `need` set implies one,
  too. While the loop is at queue q, what waits in queues before q must be
  covered by `will`, because the loop does not come back to them in this round.
* `NoOrphanedCallbackCorrect`: callbacks hang on live or dropped entries.
* `SlotAccountingCorrect`: `active` is the cardinality of the entries in flight; the
  proof goes through the theorems on finite sets.

The order is the order of dependence: types, structure, then each property from
the invariants before it, one step per action.
The second part of the module proves for every size that `AsyncQueue` implements the
steps of `TaskQueue` (`StepsOfTaskQueue`; its fairness is left to TLC). Two facts are
needed beside the invariants above: what a key finds in a map was not dropped
(`MapCorrect`), so that joining an entry is joining a live job, and the number of
jobs that are processed is at most the counter of slots (`WithinLimit`).

`WatchingProofs` proves for any files, callbacks and bounds:

* `RunningExactCorrect`: types and one build at a time. The types are inductive with
  the equation, because only `Go` sets both `running` and the phase.
* `NoWatcherLeakCorrect`: inductive given the types. It needs that `_invalidate`
  moves the watcher to `pausedWatcher` before a build begins, on every path.
* `BuildsAreInformedCorrect`. Neither half is inductive. `ChangeInv` adds that what no
  build was told of has changed since the start time the next watcher will get, or
  is collected, so that a watcher that is set up late still reports it; `CallbackInv`
  says of the build under way what the property says of its end: unless it is
  invalid, it began after all callbacks that wait.

Of `IdleFileCache`, `CacheProofs` proves for any keys, versions, builds and failures:

* `Invariance`: the inductive invariant `IInv`, which TLC has checked as well.
  `NothingLost` speaks of the ends of the way from `store()` to the disk; the
  invariant orders what is in between. `Base` is what the pack holds or will hold
  when it is opened again; from the disk to `Base`, the callbacks that wait and
  `latest` the versions of a key do not decrease (`OrderInv`), and unless a write has
  failed the last one is somewhere on this way (`PresentInv`). `LinkInv` and
  `DownInv` say what the chain owes: a store that waits has a link that waits for
  it, one that is not the first has not begun, and the three links of `shutdown()`
  follow each other behind everything else.
* `NothingLostCorrect` and `DiskNeverOlderCorrect` follow; a write of the pack takes
  `Base` to the disk, which is not older by `OrderInv`.

Of `CacheBackend` it proves for any paths, callbacks, levels, ticks and lateness
(`CacheAssumption` asks for two levels at least and a tick):

* `RunDecaysCorrect`. `_runDecays` is a loop, hence `RunDecays` a recursive function.
  The library's induction theorems have an operator as a parameter; `LeastNumber`,
  which follows from the well-foundedness of `<`, replaces them: with sets in the place
  of predicates, it gives induction (`AllNumbers`), the existence of the function a
  loop computes if something counts its rounds down (`LoopExists`), and that it keeps
  what every round keeps (`LoopKeeps`). Here the time that is overdue counts down.
* `ServedInTimeCorrect`. The inductive invariant of the object, `Healthy`, gives every
  entry a deadline, when its level is emptied: `Left` counts the levels from the
  current one around the ring, and each decay takes one from every entry. `InTime`: at
  its deadline an entry will be as old as `duration` at most, unless no timeout is set
  and the deadline has passed, in which case the entry goes before it is looked at.
* `KeptLongEnoughCorrect`. Unless a callback has been called (`Answered`), every entry
  will be old enough at its deadline (`Keeps`). That no operation under way has an
  empty list until then (`ListsUsed`) is what makes a late result imply an answer. The
  attempt showed that a callback that is called again is an answer, too: the
  property excepted "called" only, and TLC then found the counterexample.
* `NeverOlderCorrect` and `CalledOnceCorrect` have the invariant `Overtaken`: what is
  registered for a path is a read of that path, the callbacks in its list ask for
  nothing newer than what it has seen at its start, nothing is newer than the file,
  and no callback is in two lists.

`LoaderAndChunkProofs` proves for every number of loaders, with or without a resource:

* `TypeCorrect`, with `loaderIndex` between -1 and the number of loaders.
* `CalledBackOnceCorrect`. The invariant `ControlInv` says who may continue the chain:
  only the run that was started last (`context`) may still do so, whether through a
  pending promise, a callback that somebody holds or a function that has not
  returned (`OpenInv`); no function is on the stack twice, and every run that was ever
  started has left its flag (`StackInv`); where the index stands follows from the
  step (`IndexInv`). Without these a late callback of an older run could continue the
  chain a second time.
* `OnionOrderCorrect`. `OrderInv` describes the flags of all loaders by the index: in
  the pitching phase what lies before it has been pitched and nothing has run;
  in the normal phase what lies behind it, up to the shortcut, has run.

and for every module graph over finite sets of entries, modules and blocks, with any
`dependOn`, names and runtimes (`BuildChunkGraphAssumption`):

* `SetsAreKnownCorrect`. A set of available modules is read when a block is visited,
  but given by another phase, rounds earlier; so `ChunkInv` follows the
  promise through the queues. What is in `queue` belongs to a group whose set is known
  (`Knowing`); what is in `delayed`, to one that knows it, has been offered sets to merge
  or waits in `connect` (`Promised`), so that every merge makes all promises true
  before the queues are swapped; the origins in `connect` know their sets. For the
  resulting sets, which a merge resets: a group that has children and none is in
  `outdated` or in `connect` again (`ResultInv`), and both are empty when the loop
  ends. `Init` fills the queue with a fold over the entries: `FoldExists` and `FoldKeeps`
  show that a fold is defined and keeps what its steps keep.

`MultiCompilerProofs` proves for every finite acyclic graph of compilers and every
parallelism (`MultiAssumption`):

* `NothingForgottenCorrect`: the worker's flag and the queue cover every compiler
  that may start. The queue is a sequence, so the lemmas about taking its head and
  about appending what was not in it carry the proof.
* `SlotsExactCorrect`. `SlotInv` ties the counter to the states: a compiler that builds
  or waits for its done hook is in one of the states that hold a slot, has only one
  of the two, and a watcher that has reported belongs to a compiler that is not
  running. The last part is why `Undisturbed` is needed: `resume()` and a removed
  file break it.
* `DoneIsCurrentCorrect`. `Ordered` says that what runs in order or is done has only
  parents that are done, hence that no descendant of a compiler that is not done is
  running in order or done (`DescendantsWait`, by the least closed set that
  `Below` is); `Fresh` excludes a stale compiler that is still about to become done.

`ModuleBuildProofs` proves `JobsBalancedCorrect` for any modules, project and number
of slots. `CounterInv` says that `inProgressTransitive` of a module that waits is the
number of its requests that have yet to return, and afterwards 0 or, after an
error, negative, so that late requests cannot bring it back to 1; `RoomInv` that
every module and loader that waits has made room for one job.

`MakeIsCompleteCorrect` says of a build without `bail` that its entries are answered
only when everything is done. Circular dependencies are answered while they are
under way, so being answered says nothing of a single module; what is inductive is
`AwaitedInv`: no set of jobs is awaited by its own members only. A job is added by a
request that waits for it to the end, and whose maker was there before. So
when all entries are answered the set of all jobs that are left must be empty. What
the requests have reached by then (`RequestsInv`, `ModulesInv`) makes the complete
modules a set that contains the entries and is closed under dependencies, hence
contains `Reachable`. The theorem does not say that the entries are answered: imports
that lead back are not (section 5), and liveness is TLC's.

`SnapshotAndUpdateProofs` proves for every finite program and any number of checks, chunks
and invalidations (`HotUpdateAssumption`):

* `ControlCorrect`: types, and `ControlInv`, which ties the status to how far `check()`
  is. `NoApplyWhileLoadingCorrect` follows from it.
* `InvalidCorrect` and `InvalidatedIsReplacedCorrect`: a module that has invalidated
  itself is always in what the next update collects. As long as a download is to come,
  which overwrites the update, it is in the queue: without that conjunct the invariant
  is not inductive. The exception (`missed`) are calls in the window of section 5.
* `PageCorrect` and `NoStaleModuleCorrect`: the module cache is closed under requires
  and every module in it has required the present instance of its children, unless
  the child accepts itself. It needs that `Outdated` is closed under parents that do
  not accept, which `ReplaceKeepsPage` uses.

and for any files, builds, modes, edits and compilations of `FileSystemInfo`
(`FileSystemInfoAssumption`, and `FileSystemAssumption`: no file system is coarser than
the accuracy that is assumed at first, and its mtimes are multiples of twice each finer
accuracy that would be too fine. The granularities 1, 10, 100, 1000 and 2000 ms of the
code's list are such; a granularity of 16 ms is not, and `applyMtime` would then
choose an accuracy of 10):

* `SnapshotInvariant`: the inductive invariant `SnapshotInv`, which TLC has checked as
  well, with what is reachable written as `Below` (778,048 states, those of the run). None of the three properties is inductive, since
  each relates a build to snapshots that later ones have taken apart. `SnapsInv` says that
  the snapshots are a graph without cycles in which only complete ones are shared and
  none starts later than its parents; `EntriesInv` that an entry that is shared has
  what its snapshot covers, so that taking it over covers what leaves the list of paths
  to capture. `Capture` and `Complement` follow a build: what it still wants and what
  its snapshot covers are its files, at every moment. For the dates, `DiskInv` keeps the
  accuracy above the granularity, `GotInv` says that a file whose mtime is older than the
  start by a granularity is what the build read, and `SafeAt` the same of a cached
  timestamp that is safe, which is what `checkFile` relies on.
* `NothingDroppedCorrect`. The step that matters is `Share`: `OptInv` is what the loop
  of `optimize()` keeps, `ExtractKeeps` and `ReuseKeeps` are its two ways. `Below` and
  `Answer` are recursive functions over the children; that they are defined, and give
  what can be reached (`BelowIsReach`), needs the absence of cycles and follows from
  the well-foundedness of `<`.
* `ValidIsFreshCorrect` and `QuietIsValidCorrect`. `AnswerIsRight` takes an answer for a
  snapshot to the entries below it, whatever the snapshot cache answered on the way:
  valid if all of them are, invalid if one is. Since an answer does not change when more is
  read (`VerdictStays`), it is still justified when the properties speak of it.

`ResolverCacheProofs` proves for any callers, identifiers and settings:

* `Invariance`: the inductive invariant `IInv`, which TLC has checked as well.
  `StackInv` says that the functions on the stack call each other in turns and that
  a `done()` is there once. `LeaderInv` gives one request per identifier: a request
  that is under way is registered, or the function that began it has yet to return
  and nobody else is registered; so nothing is stored under an identifier between
  the read of the disk and its answer (`DiskInv`). `MapInv` says of the two maps that
  what they hold is what was stored last and that an entry the sweep has moved has
  an `until` that is late enough; the lemmas about `AtPositions` say what filtering
  and moving entries does to a map. `CurrentInv` follows versions from the file
  through snapshot and resolve to the callback.
* `MemoryIsKeptCorrect` follows, and the part of `AnsweredRightCorrect` that says that
  answers are current.
* The other part, that nobody is called back twice, has the further invariant
  `OnceInv`. A list names nobody twice and only its first has begun a request
  (`ListInv`); whom a `done()` has yet to come to waits (`LoopInv`), also those who join
  meanwhile; two loops on the stack are those of different identifiers, or of a
  request that was never registered.

A proof about an operator with `CHOOSE` (`At`, `AtPositions`) introduces the chosen
position as a member of its set and hides the definition.

Out of the prover's reach: liveness, which TLC checks under fairness. Checked by TLC
only: `RequiredIsLoaded` of `BuildChunkGraph`, which does not hold of every graph (see
"Disagreements"), so a theorem would need what distinguishes those for which it
does.

## 5. Disagreements

One run has the expected result "violation": it checks a sentence of the
repository that the code does not keep (`chunkgraph_late`; `PROJECT.json` quotes it).
When a chunk group gets a second runtime, `processOutdatedChunkGroupInfo` revisits
what was skipped with the state it had in the first; a connection that is active
in the later runtime only is never followed, and what it leads to is in no chunk.

The other disagreements are definitions in the modules. To see a trace, check
the definition named here under the constants of the module's run.

* `Watching!NoBuildAfterClose`: `close()` in the tick of `watch()` calls back at once and
  is followed by a build, because the `nextTick` of the constructor looks at
  `_initial` only (`Watching.js:68`).
* `IdleFileCache!StoreOnlyWhileIdle`: the callback of a chunk overwrites the reference
  to the idle timer; `endIdle()` then clears the wrong one, and the cache stores
  during a build (`cache/IdleFileCachePlugin.js:149`).
* `CacheBackend!ThrowingCalledOnce`: `runCallbacks` empties the list of a single
  callback after the call only; if it throws, it is called again
  (`CachedInputFileSystem.js:43`). `AnsweredOnce` is about the callbacks that do not.
* `MultiCompiler!RunningExact`: `resume()` calls `_invalidate()` without `_onChange()`. While
  the done hook of a build is pending this begins a second build of a running
  node, whose two ends both give back the slot (`MultiCompiler.js:388`). A removed
  file, which is reported without a "change" event, has the same effect. So
  `SlotsExact` and what depends on the counter are stated for sessions in which
  nobody suspends and nothing is removed (`Undisturbed`).
* `MultiCompiler!DoneIsEmitted`: `blocked` is never reset, so `resume()` during a build
  cuts it short before its assets are emitted and begins no other
  (`Watching.js:266`).
* `ModuleBuild`, `Project <- Importers`: modules whose loaders `importModule()` each
  other wait for ever, although `_handleModuleBuildAndDependencies` has a check for
  build cycles: recursive requests are not in its map (`Compilation.js:1942`). The
  same end has an import whose target depends on the module whose loader waits,
  and, with one slot, an import that has to wait for modules under way for another
  entry: `executeModule` keeps the slot of its module (`Compilation.js:4912`). The
  run's imports therefore have two slots and do not lead back. Two counters are not
  restored on error paths: the pair in `creatingModuleDuringBuild` after a build
  cycle (1966) and the extra slot of a module whose dependency failed with `bail`
  (1532); `JobsBalanced` says exactly that.
* `FileSystemInfo!ValidIsWhatWasRead` with `Settings <- BothSetting`: with timestamps and
  hashes a file that was edited between its read and its hash is found valid by
  the hash of what was not read; `ValidIsFresh` excepts it.
* `BuildChunkGraph`, `Graph <- Chained`: the loop does not wait for
  `chunkGroupsForCombining`. An entry that depends on an entry that adds no module
  of its own to what its parents have is never combined, and its modules get
  into no chunk (`buildChunkGraph.js:1282`).
* `HotUpdate!InvalidatedInWindowIsReplaced`: a chunk that has loaded between the status
  handlers of "prepare" and the download makes the status "ready" (`unblock()`) while
  there are no apply handlers. The first `invalidate()` in this `Window` defines
  `currentUpdate` and then throws
  (`hmr/JavascriptHotModuleReplacement.runtime.js:413`). Further ones find it defined and
  do not throw, but the download overwrites `currentUpdate` (434) and their modules are
  not replaced either. `missed` has the modules of both kinds, which
  `InvalidatedIsReplaced` excepts; a module leaves it with its next call outside the
  window. The run reaches two calls in one window.
* `HotUpdate`: after a manifest or a chunk that could not be loaded the status stays
  "check" or "prepare". The properties say nothing of such pages.
* `ResolverCache!AnsweredRight` in settings with `early`: `activeRequests` outlives its
  compilation. If that fails (with `bail`, say) while a request is under way, a
  caller of the next one joins it and is told what was true in the one before
  (`cache/ResolverCachePlugin.js:232`).
* `ResolverCache`, `Settings <- Few`: with fewer entries than generations
  `cache.size / maxGenerations | 0` is 0, so `cachePosition` stays 0 and every sweep
  begins with the first entry that is in use; what is behind one that every
  compilation uses is never dropped (`cache/MemoryWithGcCachePlugin.js:60`). The
  documentation only promises a minimum.

Three things a reader of the models will notice and that are as intended: the
priority of a parent queue is only looked at when a round begins; with `suspend()`
a callback of `invalidate()` may hear of the build that was already running; and
code of a loader that calls `this.async()` after its function has returned gets
the callback of the run that was started last.

## 6. Plan

Done, in this order: the queues and their proofs, the watch session, the idle
cache, the input file system's cache, the coordination of compilers, the loader
runner and its proofs; then what the queues promise, the module graph over it,
the snapshots, the chunk graph, the HMR runtime with its proofs, and the resolver's
cache over the memory caches. `ModuleBuild` and `AsyncQueue`
meet in `TaskQueue`: one uses what the other is shown to implement. Where other
modules call each other, the caller is the environment (`CacheBackend`'s requests,
`IdleFileCache`'s `beginIdle` and `endIdle`) or a reduction (`MultiCompiler` has as much of
`Watching` as the graph touches).

Next:
1. Directories in `FileSystemInfo`: timestamp hashes of trees that change.
2. Lazy compilation; `Semaphore`; `findGraphRoots` and `deterministicGrouping`.
3. Exports and usage analysis, which need a model of exports.

Not modelled, with the reason (the full list is in `PROJECT.json`): parsers, code
generation, templates, dependencies, CSS and WebAssembly, statistics and schemas
are sequential functions of large data, where unit tests with snapshots are the
better tool; `webpack-cli` is option handling around `Compiler`; the runtime modules
are strings of generated code.
