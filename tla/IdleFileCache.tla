---------------------------- MODULE IdleFileCache ----------------------------
(***************************************************************************)
(* webpack/lib/cache/IdleFileCachePlugin.js, which delays the writes to    *)
(* the persistent cache until the compiler is idle, on top of the promises *)
(* of webpack/lib/cache/PackFileCacheStrategy.js: one pack object, opened  *)
(* lazily, changed in memory, and given up while it is written to disk.    *)
(*                                                                         *)
(* An item is identified by a key and a version: the n-th store() of a key *)
(* stores version n.  Timers that were scheduled and not cleared are       *)
(* counted by what they do when they fire; `idleTimer` is the one that     *)
(* endIdle and shutdown would clear.  A promise callback runs before any   *)
(* timer or client code, so what happens when the pack has been opened is  *)
(* one step.                                                               *)
(***************************************************************************)
EXTENDS Integers, Sequences, SequencesExt

CONSTANTS
    Key,          \* identifiers of cache items
    MaxVersion,   \* bound on the store() calls for one key
    MaxBuilds,    \* bound on the builds that follow the first one
    MaxWaiting,   \* bound on the callbacks that wait when get() is called
    MaxFailures   \* bound on failing writes of the pack

ASSUME BoundsAssumption ==
    MaxVersion \in Nat /\ MaxBuilds \in Nat /\ MaxWaiting \in Nat /\ MaxFailures \in Nat

VARIABLES
    mode,        \* what the client does: "build", "idle", "down" (shutdown was called)
    latest,      \* [Key -> version]: the last store() of each key, 0 for none
    builds,      \* endIdle() calls so far
    pending,     \* `pendingIdleTasks` in its insertion order: Seq([key, ver])
    isIdle,      \* `isIdle`
    begins,      \* scheduled timers of beginIdle
    chunks,      \* scheduled timers of processIdleTasks
    idleTimer,   \* kind of the timer `idleTimer` refers to; "fired": it has fired
    chain,       \* links of `currentIdlePromise` that are not resolved yet
    packPromise, \* "none", "queued" (opens behind storePromise), "opening", "ready"
    storing,     \* `storePromise` is writing a pack
    saving,      \* [Key -> version] in the pack that is being written
    items,       \* [Key -> version] in the pack object that is open
    dirty,       \* `pack.invalid`
    waiting,     \* callbacks registered on a packPromise that is not resolved
    disk,        \* [Key -> version] in the pack file
    failures,    \* writes that failed so far
    stale        \* a get() has been answered with an older version than it was called for

client == <<mode, latest, builds>>
timers == <<isIdle, begins, chunks, idleTimer>>
pack == <<packPromise, storing, saving, items, dirty, waiting, stale>>
files == <<disk, failures>>
vars == <<client, pending, timers, chain, pack, files>>

Version == 0 .. MaxVersion
Item == [key : Key, ver : Version]
Callback == [op : {"store", "fetch", "get"}, key : Key, ver : Version] \cup [op : {"flush"}]
Link == [kind : {"chunk", "flush", "jobs", "final", "clear"}, waits : BOOLEAN]

\* The content of an empty pack, and of no pack.
Nothing == [k \in Key |-> 0]

Init ==
    /\ mode = "build"
    /\ latest = [k \in Key |-> 0]
    /\ builds = 0
    /\ pending = <<>>
    /\ isIdle = FALSE
    /\ begins = 0
    /\ chunks = 0
    /\ idleTimer = "none"
    /\ chain = <<>>
    /\ packPromise = "opening"
    /\ storing = FALSE
    /\ saving = Nothing
    /\ items = Nothing
    /\ dirty = FALSE
    /\ waiting = <<>>
    /\ disk = Nothing
    /\ failures = 0
    /\ stale = FALSE

(***************************************************************************)
(* The strategy.                                                           *)
(***************************************************************************)

\* Mutant: the pack is opened while the last one is still being written.
OpenLaterMutant == "opening"

\* `packPromise = storePromise.then(() => _openPack())`
OpenLater == IF storing THEN "queued" ELSE "opening"

\* _getPack(): who needs a pack and has none starts to open it.
GetPack == IF packPromise = "none" THEN OpenLater ELSE packPromise

\* The items of a pack on which the first n of the callbacks C have run.  A
\* "fetch" is a store() whose result a get() waits for.
ItemsAfter(content, C, n) ==
    [k \in Key |->
        LET S == {i \in 1 .. n : C[i].op \in {"store", "fetch"} /\ C[i].key = k}
        IN  IF S = {} THEN content[k] ELSE C[Max(S)].ver]

Changes(C) == \E i \in DOMAIN C : C[i].op \in {"store", "fetch"}

\* The callback of afterAllStored gives up a pack that has changed.
GivenUp(changed, C) ==
    \E i \in DOMAIN C : C[i].op = "flush" /\ (changed \/ Changes(SubSeq(C, 1, i)))

\* The restore() calls behind the fetches, in any order: they change nothing.
Fetched(C) ==
    LET F == SetToSeq({i \in DOMAIN C : C[i].op = "fetch"})
    IN  [i \in DOMAIN F |-> [C[F[i]] EXCEPT !.op = "get"]]

\* A get() among C finds an older version than the one it is called for.
FindsStale(content, C) ==
    \E i \in DOMAIN C : C[i].op = "get" /\ ItemsAfter(content, C, i)[C[i].key] < C[i].ver

\* All callbacks C of a resolved packPromise run, then those of the restore()
\* calls behind a "fetch", which find no pack when it was given up.
RunCallbacks(content, changed, C) ==
    LET after == ItemsAfter(content, C, Len(C))
        gets == Fetched(C)
    IN
    IF GivenUp(changed, C)
    THEN /\ packPromise' = IF gets = <<>> THEN "none" ELSE "queued"
         /\ storing' = TRUE
         /\ saving' = after
         /\ items' = Nothing
         /\ dirty' = FALSE
         /\ waiting' = gets
         /\ stale' = (stale \/ FindsStale(content, C))
    ELSE /\ packPromise' = "ready"
         /\ items' = after
         /\ dirty' = (changed \/ Changes(C))
         /\ waiting' = <<>>
         /\ stale' = (stale \/ FindsStale(content, C) \/ FindsStale(after, gets))
         /\ UNCHANGED <<storing, saving>>

\* Callbacks C are handed to the pack: run at once when it is open.
OnPack(C) ==
    IF packPromise = "ready"
    THEN RunCallbacks(items, dirty, C)
    ELSE /\ waiting' = waiting \o C
         /\ packPromise' = IF C = <<>> THEN packPromise ELSE GetPack
         /\ UNCHANGED <<storing, saving, items, dirty, stale>>

AsStores(P) == [i \in DOMAIN P |-> [op |-> "store", key |-> P[i].key, ver |-> P[i].ver]]

\* No task waits for the pack any more.
Settle(C) == [i \in DOMAIN C |->
                 [C[i] EXCEPT !.waits = @ /\ C[i].kind \notin {"chunk", "jobs"}]]

\* A pack has been read: what waited for it runs, and the link whose
\* afterAllStored found nothing to write is resolved.
Opened ==
    LET flushes == \E i \in DOMAIN waiting : waiting[i].op = "flush" IN
    /\ packPromise = "opening"
    /\ RunCallbacks(disk, FALSE, waiting)
    /\ chain' = IF flushes /\ ~storing' THEN Tail(Settle(chain)) ELSE Settle(chain)
    /\ UNCHANGED <<client, pending, timers, files>>

\* serialize() is through, or has failed with a warning.
Written(ok) ==
    /\ storing
    /\ storing' = FALSE
    /\ IF ok THEN disk' = saving /\ UNCHANGED failures
             ELSE failures < MaxFailures /\ failures' = failures + 1 /\ UNCHANGED disk
    /\ saving' = Nothing
    /\ packPromise' = IF packPromise = "queued" THEN "opening" ELSE packPromise
    /\ chain' = Tail(chain)
    /\ UNCHANGED <<client, pending, timers, items, dirty, waiting, stale>>

(***************************************************************************)
(* The plugin.                                                             *)
(***************************************************************************)

Position(k) == {i \in DOMAIN pending : pending[i].key = k}

\* store() only replaces or adds a pending task.
Store(k) ==
    LET item == [key |-> k, ver |-> latest[k] + 1] IN
    /\ mode = "build"
    /\ latest[k] < MaxVersion
    /\ latest' = [latest EXCEPT ![k] = @ + 1]
    /\ pending' = IF Position(k) = {} THEN Append(pending, item)
                  ELSE [i \in DOMAIN pending |-> IF i \in Position(k) THEN item ELSE pending[i]]
    /\ UNCHANGED <<mode, builds, timers, chain, pack, files>>

\* The pending task of k is run first, then the item is read back.
Fetch(k) ==
    <<[op |-> IF Position(k) = {} THEN "get" ELSE "fetch", key |-> k, ver |-> latest[k]]>>

\* get() of an item that no memory cache holds.
Get(k) ==
    /\ mode = "build"
    /\ Len(waiting) < MaxWaiting
    /\ OnPack(Fetch(k))
    /\ pending' = IF Position(k) = {} THEN pending
                  ELSE RemoveAt(pending, CHOOSE i \in Position(k) : TRUE)
    /\ UNCHANGED <<client, timers, chain, files>>

\* processIdleTasks: some of the pending tasks (at most 101, for at most 100 ms)
\* are started, or the pack is written when none is left.
ProcessIdleTasks ==
    \/ /\ pending # <<>>
       /\ \E n \in 1 .. Len(pending) :
            /\ OnPack(AsStores(SubSeq(pending, 1, n)))
            /\ pending' = SubSeq(pending, n + 1, Len(pending))
       /\ chain' = Append(chain, [kind |-> "chunk", waits |-> packPromise # "ready"])
    \/ /\ pending = <<>>
       /\ chain' = Append(chain, [kind |-> "flush", waits |-> FALSE])
       /\ UNCHANGED <<pending, pack>>

\* A build ends: Compiler.run and Watching._done.  The build has waited for the
\* items it asked for.
BeginIdle ==
    /\ mode = "build"
    /\ \A i \in DOMAIN waiting : waiting[i].op \notin {"get", "fetch"}
    /\ mode' = "idle"
    /\ begins' = begins + 1
    /\ idleTimer' = "begin"
    /\ UNCHANGED <<latest, builds, pending, isIdle, chunks, chain, pack, files>>

\* clearTimeout(idleTimer)
ClearTimer ==
    /\ begins' = IF idleTimer = "begin" THEN begins - 1 ELSE begins
    /\ chunks' = IF idleTimer = "chunk" THEN chunks - 1 ELSE chunks
    /\ idleTimer' = "none"

EndIdle ==
    /\ mode = "idle"
    /\ builds < MaxBuilds
    /\ builds' = builds + 1
    /\ mode' = "build"
    /\ ClearTimer
    /\ isIdle' = FALSE
    /\ UNCHANGED <<latest, pending, chain, pack, files>>

\* The timer of beginIdle.
FireBegin ==
    /\ begins > 0
    /\ begins' = begins - 1
    /\ idleTimer' = "none"
    /\ isIdle' = TRUE
    /\ ProcessIdleTasks
    /\ UNCHANGED <<client, chunks, files>>

\* Mutant: the rest of the tasks is left for the next idle period.
ChunkDoneMutant ==
    /\ UNCHANGED <<chunks, idleTimer>>

\* The callback of a chunk schedules the next one.
ChunkDone ==
    /\ chunks' = chunks + 1
    /\ idleTimer' = "chunk"

\* Timers of the same delay fire in their order, so `idleTimer` fires last.
FireChunk ==
    /\ chunks > 0
    /\ chunks' = chunks - 1
    /\ idleTimer' = IF idleTimer = "chunk" /\ chunks = 1 THEN "fired" ELSE idleTimer
    /\ IF isIdle THEN ProcessIdleTasks ELSE UNCHANGED <<pending, chain, pack>>
    /\ UNCHANGED <<client, isIdle, begins, files>>

\* The first link is a chunk whose tasks are done, or the jobs of shutdown.
ResolveTasks ==
    /\ chain # <<>>
    /\ Head(chain).kind \in {"chunk", "jobs"}
    /\ ~Head(chain).waits
    /\ chain' = Tail(chain)
    /\ IF Head(chain).kind = "chunk" THEN ChunkDone ELSE UNCHANGED <<chunks, idleTimer>>
    /\ UNCHANGED <<client, pending, isIdle, begins, pack, files>>

\* The first link calls afterAllStored: nothing to do without a pack or with an
\* unchanged one.  `waits` keeps it from being called twice.
CallAfterAllStored ==
    /\ chain # <<>>
    /\ Head(chain).kind \in {"flush", "final"}
    /\ ~Head(chain).waits
    /\ IF packPromise = "none" \/ (packPromise = "ready" /\ ~dirty)
       THEN /\ chain' = Tail(chain)
            /\ UNCHANGED pack
       ELSE /\ chain' = [chain EXCEPT ![1].waits = TRUE]
            /\ OnPack(<<[op |-> "flush"]>>)
    /\ UNCHANGED <<client, pending, timers, files>>

\* Mutant: shutdown does not wait for what the idle time has started.
ShutdownChainMutant(links) == links

\* promises.push(currentIdlePromise)
ShutdownChain(links) == chain \o links

\* Compiler.close(), when no build is under way.
Shutdown ==
    /\ mode \in {"idle", "build"}
    /\ \A i \in DOMAIN waiting : waiting[i].op \notin {"get", "fetch"}
    /\ mode' = "down"
    /\ ClearTimer
    /\ isIdle' = FALSE
    /\ OnPack(AsStores(pending))
    /\ pending' = <<>>
    /\ chain' = ShutdownChain(<<[kind |-> "jobs",
                                 waits |-> pending # <<>> /\ packPromise # "ready"],
                                [kind |-> "final", waits |-> FALSE],
                                [kind |-> "clear", waits |-> FALSE]>>)
    /\ UNCHANGED <<latest, builds, files>>

\* strategy.clear() at the end of shutdown.
Clear ==
    /\ chain # <<>>
    /\ Head(chain).kind = "clear"
    /\ chain' = Tail(chain)
    /\ packPromise' = "none"
    /\ items' = Nothing
    /\ dirty' = FALSE
    /\ UNCHANGED <<client, pending, timers, storing, saving, waiting, stale, files>>

(***************************************************************************)
(* The specification.                                                      *)
(***************************************************************************)

Client ==
    \/ \E k \in Key : Store(k) \/ Get(k)
    \/ BeginIdle
    \/ EndIdle
    \/ Shutdown

Background ==
    \/ FireBegin
    \/ FireChunk
    \/ ResolveTasks
    \/ CallAfterAllStored
    \/ Opened
    \/ Written(TRUE)
    \/ Clear

Next == Client \/ Background \/ Written(FALSE)

Spec == Init /\ [][Next]_vars

\* Timers fire, promises are resolved, and a write of the pack ends.
Fairness ==
    /\ WF_vars(FireBegin)
    /\ WF_vars(FireChunk)
    /\ WF_vars(ResolveTasks)
    /\ WF_vars(CallAfterAllStored)
    /\ WF_vars(Opened)
    /\ WF_vars(Written(TRUE))
    /\ WF_vars(Clear)

FairSpec == Spec /\ Fairness

(***************************************************************************)
(* Properties.                                                             *)
(***************************************************************************)

\* The values the variables can take; there are as many timers and links as the
\* builds can have left behind.
TypeOK ==
    /\ mode \in {"build", "idle", "down"}
    /\ latest \in [Key -> Version]
    /\ builds \in 0 .. MaxBuilds
    /\ pending \in Seq(Item)
    /\ isIdle \in BOOLEAN
    /\ begins \in 0 .. builds + 1
    /\ chunks \in Nat
    /\ idleTimer \in {"none", "begin", "chunk", "fired"}
    /\ chain \in Seq(Link)
    /\ packPromise \in {"none", "queued", "opening", "ready"}
    /\ storing \in BOOLEAN
    /\ saving \in [Key -> Version]
    /\ items \in [Key -> Version]
    /\ dirty \in BOOLEAN
    /\ waiting \in Seq(Callback)
    /\ disk \in [Key -> Version]
    /\ failures \in 0 .. MaxFailures
    /\ stale \in BOOLEAN

\* As long as no write has failed, the last version of every item is on its way
\* to the disk: pending, waiting for the pack, in the pack, being written, or
\* written.  Nothing falls between the map of pending tasks and the promises.
OnItsWay ==
    failures = 0 => \A k \in Key :
        \/ \E i \in DOMAIN pending : pending[i] = [key |-> k, ver |-> latest[k]]
        \/ \E i \in DOMAIN waiting :
              /\ waiting[i].op \in {"store", "fetch"}
              /\ waiting[i].key = k
              /\ waiting[i].ver = latest[k]
        \/ packPromise = "ready" /\ items[k] = latest[k]
        \/ storing /\ saving[k] = latest[k]
        \/ disk[k] = latest[k]

\* A get() is answered with the version that was stored last before it, however
\* many tasks, writes and re-openings of the pack lie between (unless a write
\* failed: then the item may be missing or older, which its etag reveals).
GetSeesLatest == failures = 0 => ~stale

\* No write of the pack takes an item back to an older version, not even when
\* an earlier write has failed.
DiskNeverOlder == [][\A k \in Key : disk'[k] >= disk[k]]_vars

\* When shutdown() calls back, everything that was ever stored is on the disk,
\* whatever the idle time had begun.
ShutdownStoresAll ==
    /\ mode = "down"
    /\ \A i \in DOMAIN chain : chain[i].kind \notin {"jobs", "final", "clear"}
    => failures > 0 \/ disk = latest

\* From the call that stores it to the end of shutdown() no version is lost, and
\* every get() in between sees it.
NothingLost == TypeOK /\ OnItsWay /\ GetSeesLatest /\ ShutdownStoresAll

\* If the compiler stays idle and no write fails, everything gets to the disk.
IdlePersists == <>[](mode = "idle") => []<>(disk = latest \/ failures > 0)

\* shutdown() calls back.
ShutdownCompletes ==
    mode = "down" ~> \A i \in DOMAIN chain : chain[i].kind # "clear"

\* Both ways to the disk lead there.
StoredInTheEnd == IdlePersists /\ ShutdownCompletes

\* What declarations/WebpackOptions.d.ts:994 says of idleTimeout: "Time in ms after
\* which idle period the cache storing should happen."  Read as: no timer stores
\* anything while a build runs.  It does not hold (README, "Disagreements").
StoreOnlyWhileIdle ==
    [][mode = "build" /\ (FireBegin \/ FireChunk) => UNCHANGED <<pending, chain>>]_vars
=============================================================================
