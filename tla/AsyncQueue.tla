------------------------------ MODULE AsyncQueue ------------------------------
(***************************************************************************)
(* webpack/lib/util/AsyncQueue.js: a family of keyed job queues that share *)
(* one budget of parallel tasks.  Queue 0 is the root (the queue created   *)
(* without a parent); queues 1 .. NumChildren have been registered with it *)
(* in that order (`_root._children`), as Compilation.js:953-980 does with  *)
(* processDependencies <- addModule <- factorize <- build.                 *)
(*                                                                         *)
(* JavaScript runs one callback at a time, so an action is a stretch of    *)
(* code that no other callback can interrupt.  The one long stretch is     *)
(* `_ensureProcessing`: it calls the processor of an entry synchronously,  *)
(* and the processor may call back into the queues before it returns.      *)
(* The loop is therefore cut at these calls: `loop` is the queue it is     *)
(* looking at and `inCall` says that a processor is on the stack, which is *)
(* the only time client code runs while the loop is active.                *)
(*                                                                         *)
(* Entries are numbered in the order of their creation.  An entry is       *)
(* enqueued when it is created and an ArrayQueue is first-in first-out     *)
(* (module ArrayQueue), so the head of a queue is its smallest entry.      *)
(***************************************************************************)
EXTENDS Integers, FiniteSets

CONSTANTS
    NumChildren,    \* number of queues that name the root as an ancestor
    Key,            \* values of getKey(item)
    Caller,         \* callbacks handed to add() or waitFor()
    Parallelism,    \* options.parallelism || 1
    MaxExtra,       \* bound on the nesting of increaseParallelism()
    MaxEntries      \* bound on the AsyncQueueEntry objects ever created

ASSUME QueueAssumption ==
    /\ NumChildren \in Nat
    /\ Parallelism \in Nat \ {0}
    /\ MaxExtra \in Nat
    /\ MaxEntries \in Nat

Root    == 0
Queue   == Root .. NumChildren
Entry   == 1 .. MaxEntries
NoEntry == 0
Off     == -1

EntryState == {"free", "queued", "processing", "stopping", "done", "dropped"}
CallStatus == {"fresh", "adding", "attached", "answered", "refused"}

VARIABLES
    entries,    \* [Queue -> [Key -> Entry or NoEntry]]: the maps `_entries`
    queued,     \* [Queue -> SUBSET Entry]: the lists `_queued`
    state,      \* [Entry -> EntryState]; "free": not created yet, "stopping":
                \* rejected in the nextTick of add(), "dropped": invalidated
                \* while it was still queued
    created,    \* number of entries created
    stopped,    \* [Queue -> BOOLEAN]: `_stopped`
    active,     \* root `_activeTasks`
    par,        \* root `_parallelism`
    will,       \* root `_willEnsureProcessing`
    need,       \* root `_needProcessing`
    immediates, \* scheduled setImmediate(root._ensureProcessing) callbacks
    loop,       \* queue `_ensureProcessing` looks at, Off when not running
    inCall,     \* the loop is inside a synchronous call of a processor
    call,       \* [Caller -> CallStatus]: what became of each callback
    wants,      \* [Caller -> Queue \X Key]: what each callback asks for
    on          \* [Caller -> Entry or NoEntry]: whose callbacks list it is in

counters == <<active, par, will, need, immediates>>
position == <<loop, inCall>>
callers  == <<call, wants, on>>
vars == <<entries, queued, state, created, stopped, counters, position, callers>>

Init ==
    /\ entries = [q \in Queue |-> [k \in Key |-> NoEntry]]
    /\ queued = [q \in Queue |-> {}]
    /\ state = [e \in Entry |-> "free"]
    /\ created = 0
    /\ stopped = [q \in Queue |-> FALSE]
    /\ active = 0
    /\ par = Parallelism
    /\ will = FALSE
    /\ need = FALSE
    /\ immediates = 0
    /\ loop = Off
    /\ inCall = FALSE
    /\ call = [c \in Caller |-> "fresh"]
    /\ wants \in [Caller -> Queue \X Key]
    /\ on = [c \in Caller |-> NoEntry]

(***************************************************************************)
(* Helpers.                                                                *)
(***************************************************************************)

\* Code other than _ensureProcessing runs: nothing else is on the stack, or
\* the loop has called out to a processor.
ClientRuns == loop = Off \/ inCall

\* Entries that hold one of the root's parallel slots.
InFlight == {e \in Entry : state[e] \in {"processing", "stopping"}}

\* Entries whose callbacks will still be called.
Live == {e \in Entry : state[e] \in {"queued", "processing", "stopping"}}

\* `if (!_willEnsureProcessing && cond) { _will... = true; setImmediate(...) }`
WakeIf(cond) ==
    /\ will' = (will \/ cond)
    /\ immediates' = IF cond /\ ~will THEN immediates + 1 ELSE immediates

\* The callback and callbacks of an entry are called with its outcome.
Finish(E, outcome) ==
    /\ call' = [c \in Caller |-> IF on[c] \in E THEN outcome ELSE call[c]]
    /\ on' = [c \in Caller |-> IF on[c] \in E THEN NoEntry ELSE on[c]]

Reply(c, outcome) ==
    /\ call' = [call EXCEPT ![c] = outcome]
    /\ UNCHANGED on

Attach(c, e) ==
    /\ call' = [call EXCEPT ![c] = "attached"]
    /\ on' = [on EXCEPT ![c] = e]

(***************************************************************************)
(* add(): the part behind the beforeAdd hook.                              *)
(***************************************************************************)

\* Mutant: the state of the entry is not looked at.
JoinEntryMutant(c, q, k) ==
    LET e == entries[q][k] IN
    /\ e # NoEntry
    /\ Attach(c, e)
    /\ UNCHANGED <<entries, queued, state, created, counters>>

\* `entry !== undefined`: an answer at once, or one more callback.
JoinEntry(c, q, k) ==
    LET e == entries[q][k] IN
    /\ e # NoEntry
    /\ IF state[e] = "done" THEN Reply(c, "answered") ELSE Attach(c, e)
    /\ UNCHANGED <<entries, queued, state, created, counters>>

\* Mutant: the slot that _handleResult will give back is never taken.
TakeSlotMutant == active' = active

TakeSlot == active' = active + 1

\* A new entry of a queue that was stopped while the hook ran: it takes a slot
\* and is rejected in a nextTick, without ever being entered in the map.
RejectEntry(c, q, k) ==
    LET e == created + 1 IN
    /\ entries[q][k] = NoEntry
    /\ stopped[q]
    /\ created < MaxEntries
    /\ created' = e
    /\ state' = [state EXCEPT ![e] = "stopping"]
    /\ TakeSlot
    /\ Attach(c, e)
    /\ UNCHANGED <<entries, queued, par, will, need, immediates>>

\* The second look at `_stopped`.
Enter(q) == ~stopped[q]

NewEntry(c, q, k) ==
    LET e == created + 1 IN
    /\ entries[q][k] = NoEntry
    /\ Enter(q)
    /\ created < MaxEntries
    /\ created' = e
    /\ state' = [state EXCEPT ![e] = "queued"]
    /\ entries' = [entries EXCEPT ![q] = [@ EXCEPT ![k] = e]]
    /\ queued' = [queued EXCEPT ![q] = @ \cup {e}]
    /\ need' = TRUE
    /\ WakeIf(TRUE)
    /\ Attach(c, e)
    /\ UNCHANGED <<active, par>>

AfterBeforeAdd(c) ==
    LET q == wants[c][1]
        k == wants[c][2]
    IN  /\ JoinEntry(c, q, k) \/ RejectEntry(c, q, k) \/ NewEntry(c, q, k)
        /\ UNCHANGED <<stopped, wants, position>>

(***************************************************************************)
(* The operations.                                                         *)
(***************************************************************************)

\* add() on a stopped queue.
AddRefused(c) ==
    /\ ClientRuns
    /\ call[c] = "fresh"
    /\ stopped[wants[c][1]]
    /\ Reply(c, "refused")
    /\ UNCHANGED <<entries, queued, state, created, stopped, counters, position, wants>>

\* add() with beforeAdd taps that answer synchronously (or none).
AddSync(c) ==
    /\ ClientRuns
    /\ call[c] = "fresh"
    /\ ~stopped[wants[c][1]]
    /\ AfterBeforeAdd(c)

\* add() with a beforeAdd tap that answers later ...
AddAsync(c) ==
    /\ ClientRuns
    /\ call[c] = "fresh"
    /\ ~stopped[wants[c][1]]
    /\ Reply(c, "adding")
    /\ UNCHANGED <<entries, queued, state, created, stopped, counters, position, wants>>

\* ... successfully: nothing was looked up before, `_stopped` is read again ...
AddResume(c) ==
    /\ ClientRuns
    /\ call[c] = "adding"
    /\ AfterBeforeAdd(c)

\* ... or with an error.
AddFails(c) ==
    /\ ClientRuns
    /\ call[c] = "adding"
    /\ Reply(c, "refused")
    /\ UNCHANGED <<entries, queued, state, created, stopped, counters, position, wants>>

WaitFor(c) ==
    LET e == entries[wants[c][1]][wants[c][2]] IN
    /\ ClientRuns
    /\ call[c] = "fresh"
    /\ \/ e = NoEntry /\ Reply(c, "refused")
       \/ e # NoEntry /\ state[e] = "done" /\ Reply(c, "answered")
       \/ e # NoEntry /\ state[e] # "done" /\ Attach(c, e)
    /\ UNCHANGED <<entries, queued, state, created, stopped, counters, position, wants>>

\* The caller makes sure that there is an entry: without one the code throws.
Invalidate(q, k) ==
    LET e == entries[q][k] IN
    /\ ClientRuns
    /\ e # NoEntry
    /\ entries' = [entries EXCEPT ![q] = [@ EXCEPT ![k] = NoEntry]]
    /\ IF state[e] = "queued"
       THEN /\ queued' = [queued EXCEPT ![q] = @ \ {e}]
            /\ state' = [state EXCEPT ![e] = "dropped"]
       ELSE UNCHANGED <<queued, state>>
    /\ UNCHANGED <<created, stopped, counters, position, callers>>

\* stop(): every queued entry is answered with an error on the spot; each takes
\* a slot and gives it back, and may wake the loop as any finished task does.
Stop(q) ==
    LET E == queued[q] IN
    /\ ClientRuns
    /\ stopped' = [stopped EXCEPT ![q] = TRUE]
    /\ queued' = [queued EXCEPT ![q] = {}]
    /\ entries' = [entries EXCEPT ![q] =
                      [k \in Key |-> IF @[k] \in E THEN NoEntry ELSE @[k]]]
    /\ state' = [e \in Entry |-> IF e \in E THEN "done" ELSE state[e]]
    /\ WakeIf(E # {} /\ need)
    /\ Finish(E, "refused")
    /\ UNCHANGED <<created, active, par, need, position, wants>>

IncreaseParallelism ==
    /\ ClientRuns
    /\ par < Parallelism + MaxExtra
    /\ par' = par + 1
    /\ WakeIf(need)
    /\ UNCHANGED <<entries, queued, state, created, stopped, active, need, position, callers>>

\* Callers only give back what they added (Compilation.js:1508,1533,
\* LoaderPlugin.js:91,101,180,193).
DecreaseParallelism ==
    /\ ClientRuns
    /\ par > Parallelism
    /\ par' = par - 1
    /\ UNCHANGED <<entries, queued, state, created, stopped, active, will, need,
                   immediates, position, callers>>

\* Mutant: a finished task does not wake the loop.
ReleaseMutant(e, outcome) ==
    /\ state' = [state EXCEPT ![e] = "done"]
    /\ active' = active - 1
    /\ Finish({e}, outcome)
    /\ UNCHANGED <<entries, queued, created, stopped, par, will, need, immediates,
                   position, wants>>

\* Release the slot of e, wake the loop, call the callbacks.
Release(e, outcome) ==
    /\ state' = [state EXCEPT ![e] = "done"]
    /\ active' = active - 1
    /\ WakeIf(need)
    /\ Finish({e}, outcome)
    /\ UNCHANGED <<entries, queued, created, stopped, par, need, position, wants>>

\* The processor (or a beforeStart tap that failed) answers.
HandleResult(e) ==
    /\ ClientRuns
    /\ state[e] = "processing"
    /\ Release(e, "answered")

\* The nextTick of add() on a stopped queue; never under a running callback.
RejectTick(e) ==
    /\ loop = Off
    /\ state[e] = "stopping"
    /\ Release(e, "refused")

\* Every entry created so far has been answered and no hook is pending.
Quiet == Live = {} /\ \A c \in Caller : call[c] # "adding"

\* clear(): Compilation.finish and the end of seal, when the module graph has
\* been built.  It resets the flags, not the immediates already scheduled.
Clear(q) ==
    /\ loop = Off
    /\ Quiet
    /\ entries' = [entries EXCEPT ![q] = [k \in Key |-> NoEntry]]
    /\ queued' = [queued EXCEPT ![q] = {}]
    /\ stopped' = [stopped EXCEPT ![q] = FALSE]
    /\ active' = IF q = Root THEN 0 ELSE active
    /\ will' = (q # Root /\ will)
    /\ need' = (q # Root /\ need)
    /\ UNCHANGED <<state, created, par, immediates, position, callers>>

(***************************************************************************)
(* _ensureProcessing.                                                      *)
(***************************************************************************)

RunImmediate ==
    /\ loop = Off
    /\ immediates > 0
    /\ immediates' = immediates - 1
    /\ loop' = Root
    /\ inCall' = FALSE
    /\ UNCHANGED <<entries, queued, state, created, stopped, active, par, will,
                   need, callers>>

\* Dequeue the head of queue q and call its processor.
StartEntry(q, e) ==
    /\ loop = q
    /\ active < par
    /\ e \in queued[q]
    /\ \A f \in queued[q] : e <= f
    /\ queued' = [queued EXCEPT ![q] = @ \ {e}]
    /\ state' = [state EXCEPT ![e] = "processing"]
    /\ TakeSlot
    /\ inCall' = TRUE
    /\ UNCHANGED <<entries, created, stopped, par, will, need, immediates, loop,
                   callers>>

\* Where the loop goes when the inner while of queue q ends.
NextQueue(q) == IF queued[q] = {} /\ q < NumChildren THEN q + 1 ELSE Off

\* Mutant: `_needProcessing` is reset although a new round was scheduled.
StillNeededMutant(q) == queued[q] # {} \/ q < NumChildren

\* Not at the end of the function, or `_willEnsureProcessing` is set there.
StillNeeded(q) == queued[q] # {} \/ q < NumChildren \/ (q # Root /\ will)

\* The inner while ends: return, look at the next queue, or end.
LeaveQueue(q) ==
    /\ loop = q
    /\ active >= par \/ queued[q] = {}
    /\ inCall' = FALSE
    /\ will' = (q # Root /\ will)
    /\ loop' = NextQueue(q)
    /\ need' = (need /\ StillNeeded(q))
    /\ UNCHANGED <<entries, queued, state, created, stopped, active, par,
                   immediates, callers>>

(***************************************************************************)
(* The specification.                                                      *)
(***************************************************************************)

EnsureProcessing ==
    \E q \in Queue : LeaveQueue(q) \/ \E e \in Entry : StartEntry(q, e)

ClientCall ==
    \/ \E c \in Caller : \/ AddRefused(c) \/ AddSync(c) \/ AddAsync(c)
                         \/ AddFails(c) \/ WaitFor(c)
    \/ \E q \in Queue : Stop(q) \/ Clear(q) \/ \E k \in Key : Invalidate(q, k)
    \/ IncreaseParallelism
    \/ DecreaseParallelism

Next ==
    \/ ClientCall
    \/ \E c \in Caller : AddResume(c)
    \/ \E e \in Entry : HandleResult(e) \/ RejectTick(e)
    \/ RunImmediate
    \/ EnsureProcessing

Spec == Init /\ [][Next]_vars

\* The event loop runs what was scheduled; taps and processors answer.  An
\* answer may arrive while _ensureProcessing runs and has to wait for it, again
\* and again when clients keep waking the loop: libuv still polls for it between
\* two rounds of immediates, hence strong fairness.
Fairness ==
    /\ WF_vars(RunImmediate)
    /\ WF_vars(EnsureProcessing)
    /\ \A c \in Caller : SF_vars(AddResume(c))
    /\ \A e \in Entry : SF_vars(HandleResult(e)) /\ SF_vars(RejectTick(e))

FairSpec == Spec /\ Fairness

(***************************************************************************)
(* Properties.                                                             *)
(***************************************************************************)

\* The values the variables can take.
QueueTypes ==
    /\ entries \in [Queue -> [Key -> Entry \cup {NoEntry}]]
    /\ queued \in [Queue -> SUBSET Entry]
    /\ state \in [Entry -> EntryState]
    /\ created \in 0 .. MaxEntries
    /\ stopped \in [Queue -> BOOLEAN]

CounterTypes ==
    /\ active \in Int
    /\ par \in Parallelism .. Parallelism + MaxExtra
    /\ will \in BOOLEAN
    /\ need \in BOOLEAN
    /\ immediates \in Nat
    /\ loop \in Queue \cup {Off}
    /\ inCall \in BOOLEAN

CallerTypes ==
    /\ call \in [Caller -> CallStatus]
    /\ wants \in [Caller -> Queue \X Key]
    /\ on \in [Caller -> Entry \cup {NoEntry}]

TypeOK == QueueTypes /\ CounterTypes /\ CallerTypes

\* Whenever an entry waits and a slot is free, an `_ensureProcessing` is
\* scheduled or running: no order of adds, results, stops, invalidations,
\* parallelism changes and clears loses the wake-up that the two flags
\* `_willEnsureProcessing` and `_needProcessing` stand for.
NoLostWakeup ==
    loop = Off /\ active < par /\ (\E q \in Queue : queued[q] # {})
        => immediates > 0

\* The root counts exactly the entries that hold a slot: add() after stop(),
\* stop() and a result that arrives inside the loop all give back what they took.
SlotAccounting == active = Cardinality(InFlight)

\* Nothing is queued behind a stop(): not even by an add() whose beforeAdd hook
\* was still running when the queue was stopped.
StoppedQueueEmpty == \A q \in Queue : stopped[q] => queued[q] = {}

\* An entry waits in at most one queue, the map of that queue holds it, and
\* its state is the one isQueued() reports; so stop() and invalidate() by key
\* always hit the entry they mean.
QueuedIsMapped ==
    \A q \in Queue : \A e \in queued[q] :
        /\ state[e] = "queued"
        /\ \E k \in Key : entries[q][k] = e
        /\ \A r \in Queue \ {q} : e \notin queued[r]

\* A callback that was accepted belongs to an entry that will still answer it,
\* unless that entry was invalidated before it was started.
NoOrphanedCallback ==
    \A c \in Caller : call[c] = "attached" =>
        on[c] \in Live \cup {e \in Entry : state[e] = "dropped"}

\* Every callback that was accepted is called in the end, provided the event
\* loop and the processors are fair and its entry is not invalidated while it is
\* queued; stop(), clear() and any nesting of parallelism included.
EveryCallbackAnswered ==
    \A c \in Caller :
        call[c] = "attached" ~>
            \/ call[c] \in {"answered", "refused"}
            \/ on[c] # NoEntry /\ state[on[c]] = "dropped"

\* The promise of module TaskQueue, with an entry as the job.
Promise == INSTANCE TaskQueue WITH
    Job <- Entry, Limit <- Parallelism, job <- state, limit <- par

\* A caller sees nothing of the maps, lists, flags and rounds of the loop:
\* no entry is processed twice or above the limit, no callback is called
\* twice, and an entry that may be processed is processed in the end.
ImplementsTaskQueue == Promise!Spec
=============================================================================
