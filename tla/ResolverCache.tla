--------------------------- MODULE ResolverCache ---------------------------
(***************************************************************************)
(* lib/cache/ResolverCachePlugin.js: requests to resolve something are     *)
(* answered from the cache, or wait for the one that is under way for the  *)
(* same identifier; on top of lib/Cache.js with the memory cache of        *)
(* lib/cache/MemoryWithGcCachePlugin.js and, perhaps, a cache on disk.     *)
(*                                                                         *)
(* What a request resolves to is the version of the files it looks at.     *)
(* Most of what the plugin calls may call back before it returns, so there *)
(* is a stack, and a caller may ask again in its callback.  The disk, the  *)
(* resolver and FileSystemInfo are what IdleFileCache, CacheBackend and    *)
(* FileSystemInfo show of them: a get() sees what was stored before it, a  *)
(* resolve sees files of this compilation, and a snapshot is only valid if *)
(* the files are those this compilation has seen.                          *)
(***************************************************************************)
EXTENDS Integers, Sequences, FiniteSets

CONSTANTS
    Caller,        \* who calls resolve(), once per compilation: numbers
    Ident,         \* identifiers: resolver, options and request
    Settings       \* what to consider: who calls with which identifier, the
                   \* generations of the memory cache, whether there is a cache on
                   \* disk, whether a compilation may end with an error before its
                   \* requests are answered; and bounds on the compilations and edits

ASSUME ResolverCacheAssumption ==
    /\ Caller \subseteq Nat
    /\ Settings \subseteq [wants : UNION {[C -> Ident] : C \in SUBSET Caller},
                            maxGenerations : Nat \ {0}, disk : BOOLEAN, early : BOOLEAN,
                            last : Nat, newest : Nat \ {0, 1}]

VARIABLES
    setting,    \* one of Settings, never changed
    files,      \* [Ident -> version]: what it would resolve to now
    during,     \* the versions there have been since this compilation began
    known,      \* what its FileSystemInfo has seen, 0 before it has looked
    cache,      \* `cache`, in the order of insertion: Seq([ident, entry])
    oldCache,   \* `oldCache`, in that order: Seq([ident, entry, until])
    generation, \* `generation`
    position,   \* `cachePosition`
    disk,       \* [Ident -> entry] in the cache on disk
    latest,     \* history: the entry that was stored last, Null if it is lost
    used,       \* history: the generation that last used the entry in memory
    active,     \* `activeRequests`: [Ident -> Seq(Caller)]
    run,        \* how far the resolve is that a caller has begun, and its entry
    stack,      \* functions that have not returned
    status,     \* "idle", "waiting", "answered" or "again"
    result      \* what each caller was told: a version, or 0 for an error

memory == <<cache, oldCache, generation, position>>
store == <<disk, latest, used>>
world == <<setting, files, during>>
vars == <<world, known, memory, store, active, run, stack, status, result>>

Undefined == -1       \* a slot that is kept for an entry
Null == 0             \* it is known that there is no entry
Never == -1

Wanted(c) == setting.wants[c]
Put(i, e) == [ident |-> i, entry |-> e]
Idle == [stage |-> "none", entry |-> Null]

Init ==
    /\ setting \in Settings
    /\ files = [i \in Ident |-> 2]
    /\ during = [i \in Ident |-> {2}]
    /\ known = [i \in Ident |-> 0]
    /\ cache = <<>> /\ oldCache = <<>> /\ generation = 0 /\ position = 0
    /\ \E e \in (IF setting.disk THEN 0 .. 2 ELSE {Null}) : disk = [i \in Ident |-> e]
    /\ latest = disk
    /\ used = [i \in Ident |-> Never]
    /\ active = [i \in Ident |-> <<>>]
    /\ run = [c \in Caller |-> Idle]
    /\ stack = <<>>
    /\ status = [c \in Caller |-> "idle"]
    /\ result = [c \in Caller |-> 0]

(***************************************************************************)
(* The memory cache.                                                       *)
(***************************************************************************)

\* What a Map has under a key.
At(map, i) ==
    LET P == {p \in DOMAIN map : map[p].ident = i}
    IN  IF P = {} THEN Undefined ELSE map[CHOOSE p \in P : TRUE].entry

\* map.set(): a key that is there keeps its place.
Set(map, i, e) ==
    IF \E p \in DOMAIN map : map[p].ident = i
    THEN [p \in DOMAIN map |-> IF map[p].ident = i THEN Put(i, e) ELSE map[p]]
    ELSE Append(map, Put(i, e))

\* The elements at the positions in P, in their order.
AtPositions(s, P) ==
    [n \in 1 .. Cardinality(P) |-> s[CHOOSE p \in P : Cardinality({q \in P : q < p}) = n - 1]]

Without(map, I) == AtPositions(map, {p \in DOMAIN map : map[p].ident \notin I})

\* What the memory cache would answer.
Held(i) == IF At(cache, i) # Undefined THEN At(cache, i) ELSE At(oldCache, i)

\* The entry is kept in `cache`, and used.
Keep(i, e) ==
    /\ cache' = Set(cache, i, e)
    /\ used' = [used EXCEPT ![i] = generation]
    /\ UNCHANGED <<generation, position>>

\* Mutant: one generation less.
UntilMutant(g) == g + setting.maxGenerations - 1

\* How long an entry stays in oldCache.
Until(g) == g + setting.maxGenerations

\* The afterDone hook: what was not used for long enough is dropped, and as many
\* entries as the generations ask for, from where the last sweep ended, have to
\* be used to stay.
AfterDone ==
    LET g == generation + 1
        expired == {oldCache[p].ident : p \in {p \in DOMAIN oldCache :
                                                 \A q \in 1 .. p : oldCache[q].until <= g}}
        kept == AtPositions(cache, {p \in DOMAIN cache : \/ cache[p].ident \notin expired
                                                       \/ cache[p].entry # Undefined})
        size == Len(kept)
        i == size \div setting.maxGenerations
        j == IF position >= size THEN 0 ELSE position
        filled == {p \in j + 1 .. size : kept[p].entry # Undefined}
        swept == {p \in filled : Cardinality({q \in filled : q < p}) <= i}
        moved == AtPositions(kept, swept)
    IN  /\ generation' = g
        /\ position' = j + i
        /\ cache' = [p \in 1 .. size |-> IF p \in swept THEN Put(kept[p].ident, Undefined) ELSE kept[p]]
        /\ oldCache' = Without(oldCache, expired \cup {kept[p].ident : p \in swept})
                          \o [p \in DOMAIN moved |-> [ident |-> moved[p].ident,
                                                      entry |-> moved[p].entry, until |-> Until(g)]]

(***************************************************************************)
(* One request.                                                            *)
(***************************************************************************)

Top(kind, c) == stack # <<>> /\ Head(stack).kind = kind /\ Head(stack).run = c
Push(kind, c) == <<[kind |-> kind, run |-> c, next |-> 1]>> \o stack

\* What was called may call back at once, or later.
Continues(c) == stack = <<>> \/ Top("resolve", c)

Move(c, stage, e) == run' = [run EXCEPT ![c] = [stage |-> stage, entry |-> e]]

\* processCacheResult
Process(c, e) == IF e = Null THEN Move(c, "resolve", Null) ELSE Move(c, "check", e)

\* itemCache.get(): the memory cache answers at once, or adds a handler that
\* keeps what is found behind it.
Get(c) ==
    LET i == Wanted(c)
        e == Held(i)
    IN  \/ /\ e # Undefined
           /\ Keep(i, e) /\ Process(c, e)
           /\ oldCache' = IF At(cache, i) = Undefined THEN Without(oldCache, {i}) ELSE oldCache
           /\ UNCHANGED latest
        \/ /\ e = Undefined /\ ~setting.disk
           /\ Keep(i, Null) /\ Process(c, Null)
           /\ latest' = [latest EXCEPT ![i] = Null]
           /\ UNCHANGED oldCache
        \/ /\ e = Undefined /\ setting.disk
           /\ Move(c, "get", disk[i])
           /\ UNCHANGED <<memory, used, latest>>

\* The disk has been asked: it answers with what was stored before, or since.
Restore(c) ==
    /\ stack = <<>>
    /\ run[c].stage = "get"
    /\ \E e \in {run[c].entry, disk[Wanted(c)]} : Keep(Wanted(c), e) /\ Process(c, e)
    /\ UNCHANGED <<world, known, oldCache, disk, latest, active, stack, status, result>>

Join(c) ==
    /\ active[Wanted(c)] # <<>>
    /\ active' = [active EXCEPT ![Wanted(c)] = Append(@, c)]
    /\ UNCHANGED <<memory, used, latest, run, stack>>

Lead(c) ==
    /\ active[Wanted(c)] = <<>>
    /\ stack' = Push("resolve", c)
    /\ Get(c)
    /\ UNCHANGED active

\* A caller has been called back and has not returned.
InCallback == stack # <<>> /\ Head(stack).kind = "done" /\ Head(stack).next > 1

\* Bound: callers with the same identifier are alike, so they call in their order.
Resolve(c) ==
    /\ stack = <<>> \/ InCallback
    /\ c \in DOMAIN setting.wants
    /\ status[c] = "idle"
    /\ \A d \in DOMAIN setting.wants :
          d < c /\ Wanted(d) = Wanted(c) => status[d] # "idle"
    /\ status' = [status EXCEPT ![c] = "waiting"]
    /\ Join(c) \/ Lead(c)
    /\ UNCHANGED <<world, known, disk, result>>

\* done(): the callbacks are called in a loop.
Done(c, v) ==
    /\ Move(c, "done", v)
    /\ stack' = Push("done", c)

Look(i) == known' = [known EXCEPT ![i] = IF @ = 0 THEN files[i] ELSE @]

\* Mutant: the snapshot is not looked at.
ValidMutant(i, e) == TRUE

Valid(i, e) == e = known'[i]

\* checkSnapshotValid.  That a snapshot is invalid says nothing.
CheckSnapshot(c) ==
    /\ Continues(c)
    /\ run[c].stage = "check"
    /\ Look(Wanted(c))
    /\ \/ Valid(Wanted(c), run[c].entry) /\ Done(c, run[c].entry)
       \/ Move(c, "resolve", Null) /\ UNCHANGED stack
    /\ UNCHANGED <<world, memory, store, active, status, result>>

\* doRealResolve: the resolver finds something, or fails.
RealResolve(c) ==
    /\ Continues(c)
    /\ run[c].stage = "resolve"
    /\ \/ \E v \in during[Wanted(c)] : Move(c, "snapshot", v) /\ UNCHANGED stack
       \/ Done(c, 0)
    /\ UNCHANGED <<world, known, memory, store, active, status, result>>

\* Both caches take the entry before store() returns.
StoreEntry(i, e) ==
    /\ Keep(i, e)
    /\ disk' = IF setting.disk THEN [disk EXCEPT ![i] = e] ELSE disk
    /\ latest' = [latest EXCEPT ![i] = e]
    /\ UNCHANGED oldCache

\* createSnapshot: there may be none, then nothing is stored.  Both may fail.
SnapshotAndStore(c) ==
    /\ Continues(c)
    /\ run[c].stage = "snapshot"
    /\ Look(Wanted(c))
    /\ StoreEntry(Wanted(c), run[c].entry) \/ UNCHANGED <<memory, store>>
    /\ \E v \in {run[c].entry, 0} : Done(c, v)
    /\ UNCHANGED <<world, active, status, result>>

Registered(c) == active[Wanted(c)] # <<>> /\ Head(active[Wanted(c)]) = c

\* Mutant: its own callback, and then those of the list, where it is as well.
CallbacksMutant(c) == IF Registered(c) THEN <<c>> \o active[Wanted(c)] ELSE <<c>>

Callbacks(c) == IF Registered(c) THEN active[Wanted(c)] ELSE <<c>>

\* One turn of the loop, which also comes to those who join while it runs.
CallBack(c) ==
    LET n == Head(stack).next
        d == Callbacks(c)[n]
    IN  /\ Top("done", c)
        /\ n <= Len(Callbacks(c))
        /\ stack' = [stack EXCEPT ![1].next = n + 1]
        /\ status' = [status EXCEPT ![d] = IF @ = "waiting" THEN "answered" ELSE "again"]
        /\ result' = [result EXCEPT ![d] = run[c].entry]
        /\ UNCHANGED <<world, known, memory, store, active, run>>

EndDone(c) ==
    /\ Top("done", c)
    /\ Head(stack).next > Len(Callbacks(c))
    /\ active' = IF Registered(c) THEN [active EXCEPT ![Wanted(c)] = <<>>] ELSE active
    /\ Move(c, "over", Null)
    /\ stack' = Tail(stack)
    /\ UNCHANGED <<world, known, memory, store, status, result>>

\* Mutant: a request that has been answered is registered like the others.
RegisterMutant(c) == active' = [active EXCEPT ![Wanted(c)] = <<c>>]

\* Others may join unless the callback has been called already.
Register(c) ==
    active' = IF run[c].stage = "over" THEN active ELSE [active EXCEPT ![Wanted(c)] = <<c>>]

Return(c) ==
    /\ Top("resolve", c)
    /\ Register(c)
    /\ stack' = Tail(stack)
    /\ UNCHANGED <<world, known, memory, store, run, status, result>>

(***************************************************************************)
(* The specification.                                                      *)
(***************************************************************************)

Edit(i) ==
    /\ stack = <<>>
    /\ files[i] < setting.newest
    /\ files' = [files EXCEPT ![i] = @ + 1]
    /\ during' = [during EXCEPT ![i] = @ \cup {files'[i]}]
    /\ UNCHANGED <<setting, known, memory, store, active, run, stack, status, result>>

Answered == \A c \in Caller : status[c] # "waiting"

\* The next compilation has a FileSystemInfo that has seen nothing.
BeginCompilation ==
    /\ stack = <<>>
    /\ during' = [i \in Ident |-> {files[i]}]
    /\ known' = [i \in Ident |-> 0]
    /\ status' = [c \in Caller |-> IF status[c] = "waiting" THEN "waiting" ELSE "idle"]
    /\ result' = [c \in Caller |-> 0]
    /\ run' = [c \in Caller |-> IF run[c].stage = "over" THEN Idle ELSE run[c]]
    /\ UNCHANGED <<setting, files, store, active, stack>>

NextCompilation ==
    /\ Answered
    /\ generation < setting.last
    /\ AfterDone
    /\ BeginCompilation

\* A compilation that fails, or that is invalid by now, is not done.
CutShort ==
    /\ Answered \/ setting.early
    /\ BeginCompilation
    /\ UNCHANGED memory

Progress ==
    \E c \in Caller :
        \/ Restore(c) \/ CheckSnapshot(c) \/ RealResolve(c) \/ SnapshotAndStore(c)
        \/ CallBack(c) \/ EndDone(c) \/ Return(c)

Next ==
    \/ Progress
    \/ \E c \in Caller : Resolve(c)
    \/ \E i \in Ident : Edit(i)
    \/ NextCompilation \/ CutShort

Spec == Init /\ [][Next]_vars

\* Functions return, and the disk, the resolver and FileSystemInfo answer.
FairSpec == Spec /\ WF_vars(Progress)

(***************************************************************************)
(* Properties.                                                             *)
(***************************************************************************)

TypeOK ==
    /\ setting \in Settings
    /\ files \in [Ident -> Nat] /\ during \in [Ident -> SUBSET Nat] /\ known \in [Ident -> Nat]
    /\ cache \in Seq([ident : Ident, entry : Nat \cup {Undefined}])
    /\ oldCache \in Seq([ident : Ident, entry : Nat, until : Nat])
    /\ generation \in 0 .. setting.last /\ position \in Nat
    /\ disk \in [Ident -> Nat] /\ latest \in [Ident -> Nat]
    /\ used \in [Ident -> Never .. setting.last]
    /\ active \in [Ident -> Seq(Caller)]
    /\ run \in [Caller -> [stage : {"none", "get", "check", "resolve", "snapshot", "done", "over"},
                           entry : Nat]]
    /\ stack \in Seq([kind : {"resolve", "done"}, run : Caller, next : Nat \ {0}])
    /\ status \in [Caller -> {"idle", "waiting", "answered", "again"}]
    /\ result \in [Caller -> Nat]

\* Who asks is called back: the request it joined ends, also when it was answered
\* at once or when it joined while the callbacks were being called.
Answers == \A c \in Caller : status[c] = "waiting" ~> status[c] # "waiting"

\* Nobody is called back twice.
CalledOnce == \A c \in Caller : status[c] # "again"

\* What a caller is told is what its files were some time in this compilation,
\* wherever it comes from: the memory, the disk, or the request of another.
\* Not if a compilation may end before its requests (README, "Disagreements").
ResultIsCurrent ==
    ~setting.early => \A c \in Caller :
       status[c] = "answered" /\ result[c] # 0 => result[c] \in during[Wanted(c)]

\* Who is called back is called back once, and with what is true, whether the
\* callbacks are called before or after the request has been registered, whoever
\* joins meanwhile, and whoever made the request that answers.
AnsweredRight == TypeOK /\ CalledOnce /\ ResultIsCurrent

\* An entry that was used stays in memory for maxGenerations compilations that
\* do not use it ("Number of generations unused cache entries stay in memory cache
\* at minimum", declarations/WebpackOptions.d.ts), and it is the newest one: no
\* answer of the disk replaces what was stored since.
MemoryIsKept ==
    \A i \in Ident :
        used[i] # Never /\ generation - used[i] <= setting.maxGenerations => Held(i) = latest[i]
=============================================================================
