----------------------------- MODULE CacheBackend -----------------------------
(***************************************************************************)
(* CacheBackend of enhanced-resolve/lib/CachedInputFileSystem.js: it joins *)
(* simultaneous reads of a path, caches the result for about `duration`,   *)
(* and lets a synchronous read complete the asynchronous one under way.    *)
(*                                                                         *)
(* Expiry is a ring of levels.  Time passes in units; a level lasts Tick   *)
(* of them, and `due` and `timer` are the distances of `_nextDecay` and of *)
(* the timeout from now.  The event loop may run the timeout late by up to *)
(* MaxLate units, the time a synchronous caller keeps it busy.             *)
(*                                                                         *)
(* A file is the number of its changes so far, and the result of reading   *)
(* it is such a number.  The state is up to date whenever callbacks run,   *)
(* so what they do is a step of its own.                                   *)
(*                                                                         *)
(* The specification and its parts have names of their own, so that        *)
(* CacheProofs can extend this module and IdleFileCache.                   *)
(***************************************************************************)
EXTENDS Integers, FiniteSets, FiniteSetsExt

CONSTANTS
    Path,        \* paths (without options: those calls bypass the cache)
    Request,     \* callbacks handed to provide()
    Throwing,    \* those of them that throw when they are called
    Op,          \* identities of provider calls under way
    Levels,      \* `_levels.length`
    Tick,        \* `_tickInterval` in units of time
    MaxLate,     \* bound on the lateness of the timeout
    Sessions     \* what is read, by whom, and how often a file changes: bounds

None == -1        \* no level, no operation's registration, no path of a read

ASSUME CacheAssumption ==
    /\ None \notin Path
    /\ Op \subseteq Nat
    /\ Throwing \subseteq Request
    /\ Levels \in Nat \ {0, 1}
    /\ Tick \in Nat \ {0}
    /\ MaxLate \in Nat
    /\ Sessions \subseteq [paths : SUBSET Path, requests : SUBSET Request, changes : Nat]

Level == 0 .. Levels - 1
Never == Tick + 1 \* `_nextDecay` or the timeout is not set
Duration == Levels * Tick

VARIABLES
    session,   \* one of Sessions, never changed
    file,      \* [Path -> number of changes]: the file system
    cache,     \* the fields of the object, see CacheType
    active,    \* [Path -> Op or None]: whose list `_activeAsyncOperations` holds
    reads,     \* [Op -> the provider call under way: path, file at its start]
    list,      \* [Op -> SUBSET Request]: the callbacks lists
    status,    \* [Request -> what became of the callback]
    result,    \* [Request -> result a nextTick or a list has given it]
    wants,     \* [Request -> file when its path was purged last, see Purge]
    floor,     \* [Path -> what reads that start now have to see]
    served     \* greatest age at which an entry has been served

backendVars == <<session, file, cache, active, reads, list, status, result, wants, floor, served>>

CacheType ==
    [data    : [Path -> Level \cup {None}],      \* `_data`: the level of each entry
     value   : [Path -> Nat],        \* and its result
     age     : [Path -> 0 .. Duration + MaxLate + 1],  \* time since it was stored
     levels  : [Level -> SUBSET Path],           \* `_levels`
     current : Level,                            \* `_currentLevel`
     mode    : {"idle", "sync", "async"},        \* `_mode`
     due     : -Duration .. Never,               \* `_nextDecay` - now
     timer   : -MaxLate .. Never]                \* time until `_timeout` fires

NoRead == [path |-> None, seen |-> 0]

BackendInit ==
    /\ session \in Sessions
    /\ file = [p \in Path |-> 0]
    /\ cache = [data |-> [p \in Path |-> None], value |-> [p \in Path |-> 0],
                age |-> [p \in Path |-> 0], levels |-> [i \in Level |-> {}],
                current |-> 0, mode |-> "idle", due |-> Never, timer |-> Never]
    /\ active = [p \in Path |-> None]
    /\ reads = [o \in Op |-> NoRead]
    /\ list = [o \in Op |-> {}]
    /\ status = [r \in Request |-> "new"]
    /\ result = [r \in Request |-> 0]
    /\ wants = [r \in Request |-> 0]
    /\ floor = [p \in Path |-> 0]
    /\ served = 0

(***************************************************************************)
(* The private methods, as functions of the object c.                      *)
(***************************************************************************)

Cached(c) == {p \in Path : c.data[p] # None}

EnterIdleMode(c) == [c EXCEPT !.mode = "idle", !.due = Never, !.timer = Never]

\* The entries of P are deleted, and their names in the levels.
Without(c, P) ==
    [c EXCEPT !.data = [p \in Path |-> IF p \in P THEN None ELSE @[p]],
              !.value = [p \in Path |-> IF p \in P THEN 0 ELSE @[p]],
              !.age = [p \in Path |-> IF p \in P THEN 0 ELSE @[p]],
              !.levels = [i \in Level |-> @[i] \ P]]

\* Mutant: the level that was filled last is dropped, not the oldest one.
NextLevelMutant(c) == c.current

NextLevel(c) == (c.current + 1) % Levels

DecayLevel(c) ==
    LET next == NextLevel(c)
        rest == [Without(c, c.levels[next]) EXCEPT !.current = (c.current + 1) % Levels]
    IN  IF Cached(rest) = {} THEN EnterIdleMode(rest)
        ELSE [rest EXCEPT !.due = @ + Tick]

\* `while (_nextDecay <= now && _mode !== IDLE) _decayLevel()`
RunDecays[c \in CacheType] ==
    IF c.due > 0 \/ c.mode = "idle" THEN c ELSE RunDecays[DecayLevel(c)]

StartTimer(c) == [c EXCEPT !.mode = "async", !.timer = IF c.due < 0 THEN 0 ELSE c.due]

EnterAsyncMode(c) ==
    CASE c.mode = "async" -> c
      [] c.mode = "idle"  -> StartTimer([c EXCEPT !.due = Tick])
      [] c.mode = "sync"  -> LET d == RunDecays[c]
                             IN  IF d.mode = "idle" THEN d ELSE StartTimer(d)

EnterSyncModeWhenIdle(c) ==
    IF c.mode = "idle" THEN [c EXCEPT !.mode = "sync", !.due = Tick] ELSE c

\* Mutant: a result replaces the one that is there.
StoreResultMutant(c, p, v) ==
    [c EXCEPT !.data[p] = c.current, !.value[p] = v, !.age[p] = 0,
              !.levels[c.current] = @ \cup {p}]

StoreResult(c, p, v) ==
    IF p \in Cached(c) THEN c
    ELSE [c EXCEPT !.data[p] = c.current, !.value[p] = v, !.age[p] = 0,
                   !.levels[c.current] = @ \cup {p}]

\* Callbacks that are called when the ones of R are called with result v.
Call(R, v) ==
    /\ status' = [r \in Request |-> IF r \in R
                                    THEN IF status[r] = "called" THEN "again" ELSE "called"
                                    ELSE status[r]]
    /\ result' = [r \in Request |-> IF r \in R THEN v ELSE result[r]]

\* runCallbacks() empties the list, but a single callback that throws leaves it
\* as it is.
RunList(R) == IF Cardinality(R) = 1 /\ R \subseteq Throwing THEN R ELSE {}

Serve(c, p) == served' = IF c.age[p] > served THEN c.age[p] ELSE served

(***************************************************************************)
(* The operations.                                                         *)
(***************************************************************************)

\* provide() looks at the cache after it has brought it up to date.
BeforeProvide(c) == IF c.mode = "sync" THEN EnterAsyncMode(c) ELSE c

Provide(r, p) ==
    LET c == BeforeProvide(cache) IN
    /\ status[r] = "new"
    /\ cache' = c
    /\ wants' = [wants EXCEPT ![r] = floor[p]]
    /\ \/ /\ p \in Cached(c)
          /\ status' = [status EXCEPT ![r] = "ticking"]
          /\ result' = [result EXCEPT ![r] = c.value[p]]
          /\ Serve(c, p)
          /\ UNCHANGED <<active, reads, list>>
       \/ /\ p \notin Cached(c)
          /\ active[p] # None
          /\ status' = [status EXCEPT ![r] = "waiting"]
          /\ list' = [list EXCEPT ![active[p]] = @ \cup {r}]
          /\ UNCHANGED <<active, reads, result, served>>
       \/ /\ p \notin Cached(c)
          /\ active[p] = None
          /\ \E o \in Op :
                /\ reads[o] = NoRead
                /\ \A q \in Op : reads[q] = NoRead => o <= q
                /\ active' = [active EXCEPT ![p] = o]
                /\ reads' = [reads EXCEPT ![o] = [path |-> p, seen |-> file[p]]]
                /\ list' = [list EXCEPT ![o] = {r}]
          /\ status' = [status EXCEPT ![r] = "waiting"]
          /\ UNCHANGED <<result, served>>
    /\ UNCHANGED <<session, file, floor>>

\* nextTick(callback, null, cacheEntry.result)
RunTick(r) ==
    /\ status[r] = "ticking"
    /\ Call({r}, result[r])
    /\ UNCHANGED <<session, file, cache, active, reads, list, wants, floor, served>>

\* The provider calls back with the file as it was at some time since its start.
\* It deletes what is registered for the path, whoever that is.
Complete(o) ==
    LET p == reads[o].path IN
    /\ reads[o] # NoRead
    /\ \E v \in reads[o].seen .. file[p] :
          /\ cache' = EnterAsyncMode(StoreResult(cache, p, v))
          /\ Call(list[o], v)
    /\ active' = [active EXCEPT ![p] = None]
    /\ reads' = [reads EXCEPT ![o] = NoRead]
    /\ list' = [list EXCEPT ![o] = {}]
    /\ UNCHANGED <<session, file, wants, floor, served>>

\* Mutant: the callbacks of the operation are forgotten.
TakeOverMutant(p, v) ==
    /\ active' = [active EXCEPT ![p] = None]
    /\ list' = [o \in Op |-> IF o = active[p] THEN {} ELSE list[o]]
    /\ UNCHANGED <<status, result>>

\* The callbacks of an operation under way are called now; when it completes
\* it finds its list as RunList has left it.
TakeOver(p, v) ==
    /\ active' = [active EXCEPT ![p] = None]
    /\ list' = [o \in Op |-> IF o = active[p] THEN RunList(list[o]) ELSE list[o]]
    /\ Call(IF active[p] = None THEN {} ELSE list[active[p]], v)

\* Mutant: the passive cache is asked without running the decays.
BeforeProvideSyncMutant(c) == c

\* In sync mode some entries may have to decay first.
BeforeProvideSync(c) == IF c.mode = "sync" THEN RunDecays[c] ELSE c

ProvideSync(p) ==
    LET c == BeforeProvideSync(cache)
    IN  \/ /\ p \in Cached(c)
           /\ cache' = c
           /\ Serve(c, p)
           /\ UNCHANGED <<session, file, active, reads, list, status, result, wants, floor>>
        \/ /\ p \notin Cached(c)
           /\ cache' = EnterSyncModeWhenIdle(StoreResult(c, p, file[p]))
           /\ TakeOver(p, file[p])
           /\ UNCHANGED <<session, file, reads, wants, floor, served>>

Purged(c, P) == Without(c, P)

\* purge(what), for the entries whose path starts with what.  A read that is
\* under way is not affected: it may still bring the old file, so that only
\* paths without one are fresh from here on.
Purge(P) ==
    LET c == Purged(cache, P)
        quiet == {p \in P : \A o \in Op : reads[o].path # p}
    IN  /\ cache' = IF Cached(c) = {} THEN EnterIdleMode(c) ELSE c
        /\ floor' = [p \in Path |-> IF p \in quiet THEN file[p] ELSE floor[p]]
        /\ UNCHANGED <<session, file, active, reads, list, status, result, wants, served>>

\* `_timeout`
Timeout ==
    /\ cache.timer <= 0
    /\ cache' = RunDecays[[cache EXCEPT !.mode = "sync", !.timer = Never]]
    /\ UNCHANGED <<session, file, active, reads, list, status, result, wants, floor, served>>

(***************************************************************************)
(* The environment.                                                        *)
(***************************************************************************)

Change(p) ==
    /\ file[p] < session.changes
    /\ file' = [file EXCEPT ![p] = @ + 1]
    /\ UNCHANGED <<session, cache, active, reads, list, status, result, wants, floor, served>>

\* One unit of time.  Counters stop where nothing depends on them any more.
Pass ==
    /\ cache.mode # "idle"
    /\ cache.timer > -MaxLate
    /\ cache' = [cache EXCEPT
          !.due = IF @ > -Duration THEN @ - 1 ELSE @,
          !.timer = IF cache.mode = "async" THEN @ - 1 ELSE @,
          !.age = [p \in Path |-> IF p \in Cached(cache) /\ @[p] <= Duration + MaxLate
                                  THEN @[p] + 1 ELSE @[p]]]
    /\ UNCHANGED <<session, file, active, reads, list, status, result, wants, floor, served>>

Answer == (\E o \in Op : Complete(o)) \/ (\E r \in session.requests : RunTick(r))

BackendNext ==
    \/ Answer
    \/ \E r \in session.requests, p \in session.paths : Provide(r, p)
    \/ \E p \in session.paths : ProvideSync(p) \/ Change(p)
    \/ \E P \in SUBSET session.paths \ {{}} : Purge(P)
    \/ Timeout
    \/ Pass

BackendSpec == BackendInit /\ [][BackendNext]_backendVars

\* The file system answers and the event loop runs its ticks.
FairBackendSpec == BackendSpec /\ WF_backendVars(Answer)

(***************************************************************************)
(* Properties.                                                             *)
(***************************************************************************)

\* The values the variables can take; `due` is only defined in a mode that
\* uses it and the timeout is never later than it may be.
BackendTypeOK ==
    /\ file \in [Path -> Nat]
    /\ cache \in CacheType
    /\ active \in [Path -> Op \cup {None}]
    /\ \A o \in Op : reads[o] = NoRead \/ reads[o] \in [path : Path, seen : Nat]
    /\ list \in [Op -> SUBSET Request]
    /\ status \in [Request -> {"new", "waiting", "ticking", "called", "again"}]
    /\ result \in [Request -> Nat]
    /\ wants \in [Request -> Nat]
    /\ floor \in [Path -> Nat]
    /\ served \in 0 .. Duration + MaxLate + 1

\* The three modes say exactly whether there is anything to expire and whether
\* a timeout will do it: no order of reads, purges and decays leaves an empty
\* cache with a timeout, or entries that nothing would ever expire.
ModeExact ==
    /\ cache.mode = "idle" <=> Cached(cache) = {}
    /\ cache.mode = "idle" <=> cache.due = Never
    /\ cache.mode = "async" <=> cache.timer # Never

\* The ring of levels and the map agree, so that an entry that is read again
\* after a purge is not expired with its predecessor.
LevelsAgree ==
    \A p \in Path : \A i \in Level : p \in cache.levels[i] <=> cache.data[p] = i

\* An entry is served for `duration` at most, plus the time by which a busy
\* event loop delays the timeout; and whatever is read, purged and expired, what
\* the backend knows of its entries and its timeout stays consistent.
ServedInTime ==
    /\ BackendTypeOK /\ ModeExact /\ LevelsAgree
    /\ served <= Duration + MaxLate

\* An entry that nobody purges is kept for `duration` ("duration in ms files are
\* cached", CachedInputFileSystem.js:467) but for one level and the lateness of the
\* timeout, whatever else is cached, purged or expired.  Only as long as no callback
\* has been called: an asynchronous result may come into a level that has been
\* overdue for any time.
KeptLongEnough ==
    [][(\A r \in Request : status[r] \notin {"called", "again"}) =>
        \A p \in Cached(cache) : p \notin Cached(cache)' =>
          \/ cache.age[p] >= Duration - Tick - MaxLate
          \/ \E P \in SUBSET Path : p \in P /\ Purge(P)]_backendVars

\* Who asks after a purge gets the file as it was at the purge or newer, if no
\* read of it was under way at the purge; whichever of the reads, synchronous
\* or not, completes first.
FreshAfterPurge ==
    /\ \A p \in Cached(cache) : cache.value[p] >= floor[p]
    /\ \A r \in Request : status[r] \in {"ticking", "called"} => result[r] >= wants[r]

\* No read goes back in time: not behind a purge, and the result of a read that
\* was overtaken does not replace the newer one.
NeverOlder ==
    /\ []FreshAfterPurge
    /\ [][\A p \in Cached(cache) : p \in Cached(cache)' => cache'.value[p] >= cache.value[p]]_backendVars

\* Every callback is called, also when a synchronous read takes over its
\* operation or an older operation deletes its registration.
EveryRequestAnswered == \A r \in Request : status[r] = "waiting" ~> status[r] = "called"

\* No callback is called twice, neither by a synchronous read nor by the operation
\* that it has completed, if it does not throw.
CalledOnce == \A r \in Request \ Throwing : status[r] # "again"

\* The same of all callbacks (test/CachedInputFileSystem.test.js:215, "should not
\* call callback twice when combining sync and async calls").  It does not hold
\* (README, "Disagreements").
ThrowingCalledOnce == \A r \in Request : status[r] # "again"

\* Every callback is answered exactly once, but for those that throw, which are
\* answered at least once.
AnsweredOnce == EveryRequestAnswered /\ []CalledOnce
=============================================================================
