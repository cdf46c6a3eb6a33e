---------------------------- MODULE LoaderRunner ----------------------------
(***************************************************************************)
(* loader-runner/lib/LoaderRunner.js and loadLoader.js: one call of        *)
(* runLoaders.                                                             *)
(*                                                                         *)
(* Control moves through the loaders in `step`: "pitch" and "normal" are   *)
(* the two iterate functions, "load" loadLoader, "read" processResource,   *)
(* "run" a function of a loader (runSyncOrAsync), "end" the final callback *)
(* has been called.  Everything between two of these is synchronous: while *)
(* the step is not a waiting one, nothing else happens.                    *)
(*                                                                         *)
(* A run is a call of a pitch or normal function.  Its code may return a   *)
(* value, undefined or a promise, throw, or take this.async() and call     *)
(* that; a callback called inside the function runs the rest of the chain  *)
(* below it, so several functions can be executing: `stack`.  The context  *)
(* `this` is shared, its async and callback belong to the last run: a      *)
(* loader that uses it late completes the run of another one.  Arguments,  *)
(* results and dependencies are left out, and so are exceptions of the     *)
(* final callback.                                                         *)
(***************************************************************************)
EXTENDS Integers, Sequences

CONSTANTS
    L,              \* number of loaders
    Resource        \* options.resource is given

ASSUME LoaderAssumption ==
    /\ L \in Nat
    /\ Resource \in BOOLEAN

Loader == 0 .. L - 1
Kind == {"pitch", "normal"}
Run == Kind \X Loader
None == <<"none", -1>>      \* no run

VARIABLES
    step,           \* what the chain does or waits for
    index,          \* loaderContext.loaderIndex
    exports,        \* [Loader -> SUBSET Kind], the functions of the loader's module
    pitchExecuted,  \* loaders with this flag
    normalExecuted, \* loaders with this flag
    context,        \* the run whose closures context.async and context.callback are
    stack,          \* runs whose function is executing, the innermost first
    sync,           \* runs with isSync
    done,           \* runs with isDone
    reported,       \* runs with reportedError
    promised,       \* runs whose function returned a promise that is pending
    held,           \* [Run -> SUBSET Run], the callbacks a loader's code has kept
    shortcut,       \* the loader whose pitch function gave a result, or -1
    calls           \* number of calls of the final callback

chain == <<step, index, pitchExecuted, normalExecuted, context, shortcut, calls>>
code == <<stack, sync, done, reported, promised, held>>
vars == <<chain, exports, code>>

Init ==
    /\ step = "pitch"
    /\ index = 0
    /\ exports \in [Loader -> SUBSET Kind]
    /\ pitchExecuted = {}
    /\ normalExecuted = {}
    /\ context = None
    /\ stack = <<>>
    /\ sync = {}
    /\ done = {}
    /\ reported = {}
    /\ promised = {}
    /\ held = [r \in Run |-> {}]
    /\ shortcut = -1
    /\ calls = 0

(***************************************************************************)
(* The chain.                                                              *)
(***************************************************************************)

\* The final callback is called.
Finish ==
    /\ step' = "end"
    /\ calls' = calls + 1

\* runSyncOrAsync up to the call of the function.
Start(r) ==
    /\ step' = "run"
    /\ context' = r
    /\ stack' = <<r>> \o stack
    /\ sync' = sync \cup {r}
    /\ UNCHANGED <<done, reported, promised, held, calls>>

\* iteratePitchingLoaders: the loader at index has been pitched, or there is none.
PitchNext ==
    /\ step = "pitch"
    /\ IF index >= L
       THEN /\ step' = IF Resource THEN "read" ELSE "normal"
            /\ index' = L - 1                                  \* processResource
       ELSE IF index \in pitchExecuted
       THEN index' = index + 1 /\ UNCHANGED step
       ELSE step' = "load" /\ UNCHANGED index
    /\ UNCHANGED <<pitchExecuted, normalExecuted, context, shortcut, calls, exports, code>>

\* loadLoader failed, or its module has no function.
LoadFails ==
    /\ step = "load"
    /\ Finish
    /\ UNCHANGED <<index, pitchExecuted, normalExecuted, context, shortcut, exports, code>>

\* Mutant: a loader without a pitch function is not marked as pitched.
PitchedMutant(l) == IF "pitch" \in exports[l] THEN pitchExecuted \cup {l} ELSE pitchExecuted

Pitched(l) == pitchExecuted \cup {l}

\* loadLoader succeeded.
Load ==
    /\ step = "load"
    /\ exports[index] # {}
    /\ pitchExecuted' = Pitched(index)
    /\ IF "pitch" \in exports[index]
       THEN Start(<<"pitch", index>>)
       ELSE step' = "pitch" /\ UNCHANGED <<context, calls, code>>
    /\ UNCHANGED <<index, normalExecuted, shortcut, exports>>

\* options.processResource has answered.
ReadResource ==
    /\ step = "read"
    /\ \/ step' = "normal" /\ UNCHANGED calls
       \/ Finish
    /\ UNCHANGED <<index, pitchExecuted, normalExecuted, context, shortcut, exports, code>>

\* iterateNormalLoaders
NormalNext ==
    /\ step = "normal"
    /\ IF index < 0
       THEN Finish /\ UNCHANGED <<index, normalExecuted, context, code>>
       ELSE IF index \in normalExecuted
       THEN index' = index - 1 /\ UNCHANGED <<step, normalExecuted, context, calls, code>>
       ELSE /\ normalExecuted' = normalExecuted \cup {index}
            /\ IF "normal" \in exports[index]
               THEN Start(<<"normal", index>>)
               ELSE UNCHANGED <<step, context, calls, code>>
            /\ UNCHANGED index
    /\ UNCHANGED <<pitchExecuted, shortcut, exports>>

\* Mutant: the loader that gave the result stays the current one.
BackFromMutant(i) == i

BackFrom(i) == i - 1

\* The callback given to runSyncOrAsync for run r; ok: no error, result: an
\* argument that is not undefined.
Continue(r, ok, result) ==
    /\ IF ~ok
       THEN Finish /\ UNCHANGED <<index, shortcut>>
       ELSE IF r[1] = "normal"
       THEN step' = "normal" /\ UNCHANGED <<index, shortcut, calls>>
       ELSE IF result
       THEN /\ step' = "normal"
            /\ index' = BackFrom(index)
            /\ shortcut' = index
            /\ UNCHANGED calls
       ELSE step' = "pitch" /\ UNCHANGED <<index, shortcut, calls>>
    /\ UNCHANGED <<pitchExecuted, normalExecuted, context, exports>>

(***************************************************************************)
(* The code of the loaders.                                                *)
(***************************************************************************)

Waiting == step \in {"load", "read", "run", "end"}

\* The innermost function executes; if there is none, callbacks of the event
\* loop do, and code of any loader that was called may be among them.
Executing(r) == stack # <<>> /\ Head(stack) = r
Called(r) == r = context \/ r \in done

Acting(r) == Waiting /\ (Executing(r) \/ (stack = <<>> /\ Called(r)))

\* this.async(): code of r gets the callback of the last run.
TakeAsync(r) ==
    /\ Acting(r)
    /\ context # None
    /\ context \notin done
    /\ sync' = sync \ {context}
    /\ held' = [held EXCEPT ![r] = @ \cup {context}]
    /\ UNCHANGED <<chain, exports, stack, done, reported, promised>>

\* Mutant: a callback does not look whether it has been called.
MayCallMutant(c) == c \notin reported

\* innerCallback: otherwise it is ignored or throws in the code that calls it.
MayCall(c) == c \notin done

\* Code of r calls the callback c, one it kept or this.callback.
Call(r, c, ok, result) ==
    /\ Acting(r)
    /\ c \in held[r] \cup ({context} \ {None})
    /\ MayCall(c)
    /\ done' = done \cup {c}
    /\ sync' = sync \ {c}
    /\ Continue(c, ok, result)
    /\ UNCHANGED <<stack, reported, promised, held>>

\* The function returns: synchronous unless async() or callback() was called.
Return(r, result) ==
    /\ Waiting
    /\ Executing(r)
    /\ stack' = Tail(stack)
    /\ IF r \in sync
       THEN /\ done' = done \cup {r}
            /\ Continue(r, TRUE, result)
       ELSE UNCHANGED <<chain, exports, done>>
    /\ UNCHANGED <<sync, reported, promised, held>>

\* The function returns a promise.
ReturnPromise(r) ==
    /\ Waiting
    /\ Executing(r)
    /\ r \in sync
    /\ stack' = Tail(stack)
    /\ done' = done \cup {r}
    /\ promised' = promised \cup {r}
    /\ UNCHANGED <<chain, exports, sync, reported, held>>

\* The promise is settled: its reactions call the callback directly.
Settle(r, ok, result) ==
    /\ Waiting
    /\ stack = <<>>
    /\ r \in promised
    /\ promised' = promised \ {r}
    /\ Continue(r, ok, result)
    /\ UNCHANGED <<stack, sync, done, reported, held>>

Thrown(r) == done \cup {r}

\* The function throws; what it throws after it has called back is only logged.
Throw(r) ==
    /\ Waiting
    /\ Executing(r)
    /\ stack' = Tail(stack)
    /\ IF r \in done
       THEN UNCHANGED <<chain, exports, done, reported>>
       ELSE /\ done' = Thrown(r)
            /\ reported' = reported \cup {r}
            /\ Continue(r, FALSE, FALSE)
    /\ UNCHANGED <<sync, promised, held>>

Chain == PitchNext \/ LoadFails \/ Load \/ ReadResource \/ NormalNext

Code(r) ==
    \/ TakeAsync(r)
    \/ \E c \in Run, ok, result \in BOOLEAN : Call(r, c, ok, result)
    \/ \E result \in BOOLEAN : Return(r, result)
    \/ ReturnPromise(r)
    \/ \E ok, result \in BOOLEAN : Settle(r, ok, result)
    \/ Throw(r)

Next == Chain \/ \E r \in Run : Code(r)

Spec == Init /\ [][Next]_vars

\* Modules get loaded, resources read, functions return, promises are settled
\* and whoever took this.async() calls it.
Fairness ==
    /\ WF_vars(Chain)
    /\ \A r \in Run :
         /\ WF_vars(\E result \in BOOLEAN : Return(r, result))
         /\ WF_vars(\E ok, result \in BOOLEAN : Settle(r, ok, result))
         /\ WF_vars(\E ok, result \in BOOLEAN : Call(r, r, ok, result))

FairSpec == Spec /\ Fairness

(***************************************************************************)
(* Properties.                                                             *)
(***************************************************************************)

\* Every variable has its type; loaderIndex leaves the list by one at most.
TypeOK ==
    /\ step \in {"pitch", "load", "read", "run", "normal", "end"}
    /\ index \in -1 .. L
    /\ exports \in [Loader -> SUBSET Kind]
    /\ pitchExecuted \subseteq Loader
    /\ normalExecuted \subseteq Loader
    /\ context \in Run \cup {None}
    /\ stack \in Seq(Run)
    /\ sync \subseteq Run
    /\ done \subseteq Run
    /\ reported \subseteq Run
    /\ promised \subseteq Run
    /\ held \in [Run -> SUBSET Run]
    /\ shortcut \in Loader \cup {-1}
    /\ calls \in Nat

\* However often loaders call back, return and throw, the callback of runLoaders
\* is called once, and only when the chain has come to its end.
CalledBackOnce == calls = IF step = "end" THEN 1 ELSE 0

\* Normal functions run from right to left over the loaders that were pitched;
\* the loader whose pitch function gave the result, and those right of it, are
\* left out.
OnionOrder ==
    /\ normalExecuted \subseteq pitchExecuted
    /\ shortcut \notin normalExecuted
    /\ \A l \in normalExecuted : \A m \in pitchExecuted :
         m > l => m \in normalExecuted \/ m = shortcut

\* Every call of runLoaders is answered, if every loader answers.
Answered == <>(step = "end")

=============================================================================
