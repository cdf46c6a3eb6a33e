------------------------- MODULE LoaderAndChunkProofs -----------------------
(***************************************************************************)
(* Theorems about LoaderRunner, for every number of loaders and whatever   *)
(* the loaders do with the shared context, which rest on ControlInv: there *)
(* is one thread of control, and only the last run can move it on; and     *)
(* about BuildChunkGraph, for every module graph, which rest on ChunkInv.  *)
(***************************************************************************)
EXTENDS LoaderRunner, BuildChunkGraph, TLAPS, FiniteSetTheorems, SequenceTheorems, NaturalsInduction, WellFoundedInduction

\* Where loaderIndex is.
IndexInv ==
    /\ step = "pitch" => index >= 0
    /\ step \in {"load", "run"} => index \in Loader
    /\ step = "read" => index = L - 1
    /\ step = "normal" => index < L
    /\ step = "load" => index \notin pitchExecuted
    /\ step = "run" => context \in Run /\ context[2] = index

\* The run the chain waits for.
OpenRun(r) == step = "run" /\ r = context

\* The flag that was set before run r.
Flag(r) == IF r[1] = "pitch" THEN r[2] \in pitchExecuted ELSE r[2] \in normalExecuted

\* Whatever may still move the chain belongs to the open run.
OpenInv ==
    /\ \A r \in promised : r \in done /\ OpenRun(r)
    /\ \A q \in Run, c \in Run : c \in held[q] /\ c \notin done => OpenRun(c)
    /\ \A i \in 1 .. Len(stack) : stack[i] \notin done => OpenRun(stack[i])
    /\ context \in Run /\ context \notin done => step = "run"

\* A function is called once, and is synchronous only until its run is done.
StackInv ==
    /\ \A i \in 1 .. Len(stack) : stack[i] \in sync => stack[i] \notin done
    /\ \A i, j \in 1 .. Len(stack) : i # j => stack[i] # stack[j]
    /\ \A r \in done : Flag(r)
    /\ \A i \in 1 .. Len(stack) : Flag(stack[i])
    /\ context \in Run => Flag(context)

ControlInv == TypeOK /\ CalledBackOnce /\ IndexInv /\ OpenInv /\ StackInv

(***************************************************************************)
(* The two ways to hand over control.                                      *)
(***************************************************************************)

\* A function is called: its run becomes the open one.
LEMMA StartStep ==
    ASSUME ControlInv, NEW r \in Run, Start(r), step \in {"load", "normal"},
           index \in Loader, r[2] = index, ~Flag(r), Flag(r)',
           pitchExecuted \subseteq pitchExecuted', pitchExecuted' \subseteq Loader,
           normalExecuted \subseteq normalExecuted', normalExecuted' \subseteq Loader,
           UNCHANGED <<index, shortcut, exports>>
    PROVE  ControlInv'
<1> USE LoaderAssumption DEF LoaderAssumption
<1>1. /\ stack' \in Seq(Run)
      /\ Len(stack') = Len(stack) + 1
      /\ stack'[1] = r
      /\ \A i \in 2 .. Len(stack') : i - 1 \in 1 .. Len(stack) /\ stack'[i] = stack[i - 1]
  BY DEF Start, ControlInv, TypeOK
<1>2. r \notin done /\ \A i \in 1 .. Len(stack) : stack[i] # r
  BY DEF ControlInv, StackInv
<1>3. promised = {}
  BY DEF ControlInv, OpenInv, OpenRun
<1>4. TypeOK'
  BY <1>1 DEF Start, ControlInv, TypeOK
<1>5. CalledBackOnce'
  BY DEF Start, ControlInv, CalledBackOnce
<1>6. IndexInv'
  BY DEF Start, ControlInv, IndexInv
<1>7. OpenInv'
  <2>1. \A q \in Run, c \in Run : (c \in held[q] /\ c \notin done => OpenRun(c))'
    BY DEF Start, ControlInv, OpenInv, OpenRun
  <2>2. \A i \in 1 .. Len(stack') : stack'[i] \notin done' => OpenRun(stack[i])'
    <3> SUFFICES ASSUME NEW i \in 1 .. Len(stack'), stack'[i] \notin done'
                 PROVE  OpenRun(stack[i])'
      OBVIOUS
    <3>1. CASE i = 1
      BY <3>1, <1>1 DEF Start, OpenRun
    <3>2. CASE i # 1
      <4>1. i \in 2 .. Len(stack') /\ stack'[i] = stack[i - 1] /\ i - 1 \in 1 .. Len(stack)
        BY <3>2, <1>1 DEF ControlInv, TypeOK
      <4> QED
        BY <4>1 DEF Start, ControlInv, OpenInv, OpenRun
    <3> QED
      BY <3>1, <3>2
  <2> QED
    BY <2>1, <2>2, <1>3 DEF Start, OpenInv, OpenRun
<1>8. StackInv'
  <2>1. \A x \in Run : Flag(x) => Flag(x)'
    BY DEF Flag
  <2>2. ASSUME NEW i \in 1 .. Len(stack')
        PROVE  /\ stack'[i] \in Run
               /\ stack'[i] \in sync' => stack'[i] \notin done'
               /\ Flag(stack[i])'
    <3>1. CASE i = 1
      BY <3>1, <1>1, <1>2 DEF Start
    <3>2. CASE i # 1
      <4>1. i \in 2 .. Len(stack') /\ stack'[i] = stack[i - 1] /\ i - 1 \in 1 .. Len(stack)
        BY <3>2, <1>1 DEF ControlInv, TypeOK
      <4>2. stack[i - 1] \in Run /\ stack[i - 1] # r
        BY <4>1, <1>2 DEF ControlInv, TypeOK
      <4> QED
        BY <4>1, <4>2, <2>1 DEF Start, ControlInv, StackInv
    <3> QED
      BY <3>1, <3>2
  <2>3. ASSUME NEW i \in 1 .. Len(stack'), NEW j \in 1 .. Len(stack'), i # j
        PROVE  stack'[i] # stack'[j]
    <3> \A k \in 2 .. Len(stack') : stack'[k] # r
      BY <1>1, <1>2
    <3> Len(stack') \in Nat
      BY <1>1
    <3>1. CASE i = 1 \/ j = 1
      BY <3>1, <2>3, <1>1
    <3>2. CASE i # 1 /\ j # 1
      <4>1. /\ stack'[i] = stack[i - 1] /\ i - 1 \in 1 .. Len(stack)
            /\ stack'[j] = stack[j - 1] /\ j - 1 \in 1 .. Len(stack)
            /\ i - 1 # j - 1
        BY <3>2, <2>3, <1>1 DEF ControlInv, TypeOK
      <4> QED
        BY <4>1 DEF ControlInv, StackInv
    <3> QED
      BY <3>1, <3>2
  <2>4. (\A x \in done : Flag(x))'
    BY <2>1 DEF Start, ControlInv, StackInv, TypeOK
  <2>5. (context \in Run => Flag(context))'
    BY DEF Start
  <2> QED
    BY <2>2, <2>3, <2>4, <2>5 DEF StackInv
<1> QED
  BY <1>4, <1>5, <1>6, <1>7, <1>8 DEF ControlInv

\* The open run hands over control: nothing is left that could do so again.
LEMMA ContinueStep ==
    ASSUME ControlInv, NEW r \in Run, OpenRun(r),
           NEW ok \in BOOLEAN, NEW given \in BOOLEAN, Continue(r, ok, given),
           done' = done \cup {r}, promised' = promised \ {r}, held' = held,
           stack' \in {stack, Tail(stack)}, sync' \subseteq sync,
           \A i \in 1 .. Len(stack') : stack[i]' \in sync' => stack[i]' # r,
           stack' = stack \/ stack # <<>>,
           reported' \subseteq Run
    PROVE  ControlInv'
<1> USE LoaderAssumption DEF LoaderAssumption
<1>1. /\ stack' \in Seq(Run)
      /\ \E d \in {0, 1} : \A i \in 1 .. Len(stack') :
            i + d \in 1 .. Len(stack) /\ stack'[i] = stack[i + d]
  <2> stack \in Seq(Run)
    BY DEF ControlInv, TypeOK
  <2>1. CASE stack' = stack
    <3>1. \A i \in 1 .. Len(stack') : i + 0 \in 1 .. Len(stack) /\ stack'[i] = stack[i + 0]
      BY <2>1
    <3> QED
      BY <2>1, <3>1
  <2>2. CASE stack # <<>> /\ stack' = Tail(stack)
    <3>1. /\ stack' \in Seq(Run)
          /\ \A i \in 1 .. Len(stack') : i + 1 \in 1 .. Len(stack) /\ stack'[i] = stack[i + 1]
      BY <2>2
    <3> QED
      BY <3>1
  <2> QED
    BY <2>1, <2>2
<1>2. PICK d \in {0, 1} : \A i \in 1 .. Len(stack') :
            i + d \in 1 .. Len(stack) /\ stack'[i] = stack[i + d]
  BY <1>1
<1>3. r[1] \in Kind /\ r[2] = index /\ index \in Loader /\ step = "run"
  BY DEF ControlInv, IndexInv, OpenRun, Run
<1>4. TypeOK'
  BY <1>1, <1>3 DEF Continue, Finish, BackFrom, ControlInv, TypeOK, Loader
<1>5. CalledBackOnce'
  BY <1>3 DEF Continue, Finish, ControlInv, CalledBackOnce
<1>6. IndexInv'
  BY <1>3 DEF Continue, Finish, BackFrom, IndexInv, Loader
<1>7. context' = context /\ context = r /\ step' # "run" /\ promised' = {}
  BY <1>3 DEF Continue, Finish, ControlInv, OpenInv, OpenRun
<1>8. \A i \in 1 .. Len(stack') : stack[i]' \in done'
  BY <1>2, <1>7 DEF ControlInv, OpenInv, OpenRun
<1>9. OpenInv'
  BY <1>7, <1>8 DEF ControlInv, OpenInv, OpenRun
<1>10. StackInv'
  <2>1. \A x \in Run : Flag(x)' <=> Flag(x)
    BY DEF Flag, Continue
  <2>2. ASSUME NEW i \in 1 .. Len(stack')
        PROVE  /\ (stack[i] \in sync => stack[i] \notin done)'
               /\ Flag(stack[i])'
    BY <1>2, <2>1 DEF ControlInv, StackInv, TypeOK
  <2>3. ASSUME NEW i \in 1 .. Len(stack'), NEW j \in 1 .. Len(stack'), i # j
        PROVE  stack'[i] # stack'[j]
    BY <1>1, <1>2, <2>3 DEF ControlInv, StackInv, TypeOK
  <2>4. (\A x \in done : Flag(x))' /\ (context \in Run => Flag(context))'
    BY <2>1, <1>7 DEF ControlInv, StackInv, TypeOK
  <2> QED
    BY <2>2, <2>3, <2>4 DEF StackInv
<1> QED
  BY <1>4, <1>5, <1>6, <1>9, <1>10 DEF ControlInv

(***************************************************************************)
(* Every step keeps ControlInv.                                            *)
(***************************************************************************)

LEMMA InitControl == Init => ControlInv
<1> SUFFICES ASSUME Init PROVE ControlInv
  OBVIOUS
<1> USE LoaderAssumption DEF LoaderAssumption, Init
<1>0. None \notin Run /\ Len(stack) = 0
  BY DEF None, Run, Loader
<1>1. TypeOK
  BY DEF TypeOK
<1>2. CalledBackOnce /\ IndexInv
  BY DEF CalledBackOnce, IndexInv
<1>3. OpenInv /\ StackInv
  BY <1>0 DEF OpenInv, StackInv
<1> QED
  BY <1>1, <1>2, <1>3 DEF ControlInv

\* Steps of the chain that call no function.
LEMMA QuietStep ==
    ASSUME ControlInv, step # "run", UNCHANGED <<code, context, exports>>,
           step' \in {"pitch", "load", "read", "normal", "end"},
           index' \in -1 .. L, shortcut' = shortcut,
           pitchExecuted \subseteq pitchExecuted', pitchExecuted' \subseteq Loader,
           normalExecuted \subseteq normalExecuted', normalExecuted' \subseteq Loader,
           calls' \in Nat, CalledBackOnce', IndexInv'
    PROVE  ControlInv'
<1>1. TypeOK'
  BY DEF ControlInv, TypeOK, code
<1>2. OpenInv'
  BY DEF ControlInv, OpenInv, OpenRun, code
<1>3. StackInv'
  <2>1. \A x \in Run : Flag(x) => Flag(x)'
    BY DEF Flag
  <2> QED
    BY <2>1 DEF ControlInv, StackInv, TypeOK, code
<1> QED
  BY <1>1, <1>2, <1>3 DEF ControlInv

LEMMA ChainControl == ControlInv /\ Chain => ControlInv'
<1> SUFFICES ASSUME ControlInv, Chain PROVE ControlInv'
  OBVIOUS
<1> USE LoaderAssumption DEF LoaderAssumption
<1>0. TypeOK /\ CalledBackOnce /\ IndexInv
  BY DEF ControlInv
<1>1. CASE PitchNext
  <2>1. IndexInv' /\ index' \in -1 .. L
    BY <1>0, <1>1 DEF PitchNext, IndexInv, TypeOK, Loader
  <2>2. calls' \in Nat /\ CalledBackOnce'
    BY <1>0, <1>1 DEF PitchNext, CalledBackOnce, TypeOK
  <2> QED
    BY <1>0, <1>1, <2>1, <2>2, QuietStep DEF PitchNext, TypeOK
<1>2. CASE LoadFails
  <2>1. calls' \in Nat /\ CalledBackOnce' /\ IndexInv'
    BY <1>0, <1>2 DEF LoadFails, Finish, CalledBackOnce, TypeOK, IndexInv
  <2> QED
    BY <1>0, <1>2, <2>1, QuietStep DEF LoadFails, Finish, TypeOK
<1>3. CASE Load
  <2>1. index \in Loader /\ index \notin pitchExecuted /\ step = "load"
    BY <1>0, <1>3 DEF Load, IndexInv
  <2>2. CASE "pitch" \in exports[index]
    <3>1. PICK r \in Run : r = <<"pitch", index>>
      BY <2>1 DEF Run, Kind
    <3> r[1] = "pitch" /\ r[2] = index
      BY <3>1
    <3>2. Start(r) /\ pitchExecuted' = pitchExecuted \cup {index}
      BY <1>3, <2>2, <3>1 DEF Load, Pitched
    <3>3. ~Flag(r) /\ Flag(r)'
      BY <3>1, <3>2, <2>1 DEF Flag
    <3> QED
      BY <1>0, <1>3, <2>1, <3>1, <3>2, <3>3, StartStep DEF Load, TypeOK
  <2>3. CASE "pitch" \notin exports[index]
    <3>1. calls' \in Nat /\ CalledBackOnce' /\ IndexInv'
      BY <1>0, <1>3, <2>1, <2>3 DEF Load, CalledBackOnce, TypeOK, IndexInv, Loader
    <3> QED
      BY <1>0, <1>3, <2>1, <2>3, <3>1, QuietStep DEF Load, Pitched, TypeOK
  <2> QED
    BY <2>2, <2>3
<1>4. CASE ReadResource
  <2>1. calls' \in Nat /\ CalledBackOnce' /\ IndexInv'
    BY <1>0, <1>4 DEF ReadResource, Finish, CalledBackOnce, TypeOK, IndexInv, Loader
  <2> QED
    BY <1>0, <1>4, <2>1, QuietStep DEF ReadResource, Finish, TypeOK
<1>5. CASE NormalNext
  <2>1. step = "normal" /\ index \in -1 .. L - 1
    BY <1>0, <1>5 DEF NormalNext, IndexInv, TypeOK
  <2>2. CASE index < 0
    <3>1. calls' \in Nat /\ CalledBackOnce' /\ IndexInv'
      BY <1>0, <1>5, <2>1, <2>2 DEF NormalNext, Finish, CalledBackOnce, TypeOK, IndexInv
    <3> QED
      BY <1>0, <1>5, <2>1, <2>2, <3>1, QuietStep DEF NormalNext, Finish, TypeOK
  <2>3. CASE index >= 0 /\ index \in normalExecuted
    <3>1. calls' \in Nat /\ CalledBackOnce' /\ IndexInv' /\ index' \in -1 .. L
      BY <1>0, <1>5, <2>1, <2>3 DEF NormalNext, CalledBackOnce, TypeOK, IndexInv
    <3>2. /\ UNCHANGED <<code, context, exports, shortcut, pitchExecuted, normalExecuted>>
          /\ step' = "normal"
      BY <1>5, <2>1, <2>3 DEF NormalNext
    <3>3. pitchExecuted' \subseteq Loader /\ normalExecuted' \subseteq Loader
      BY <1>0, <3>2 DEF TypeOK
    <3> QED
      BY <2>1, <3>1, <3>2, <3>3, QuietStep
  <2>4. CASE index >= 0 /\ index \notin normalExecuted /\ "normal" \in exports[index]
    <3>0. index \in Loader
      BY <2>1, <2>4 DEF Loader
    <3>1. PICK r \in Run : r = <<"normal", index>>
      BY <3>0 DEF Run, Kind
    <3> r[1] = "normal" /\ r[2] = index
      BY <3>1
    <3>2. Start(r) /\ normalExecuted' = normalExecuted \cup {index}
      BY <1>5, <2>1, <2>4, <3>1 DEF NormalNext
    <3>3. ~Flag(r) /\ Flag(r)'
      BY <3>1, <3>2, <2>4 DEF Flag
    <3> QED
      BY <1>0, <1>5, <2>1, <2>4, <3>0, <3>1, <3>2, <3>3, StartStep DEF NormalNext, TypeOK
  <2>5. CASE index >= 0 /\ index \notin normalExecuted /\ "normal" \notin exports[index]
    <3>0. index \in Loader
      BY <2>1, <2>5 DEF Loader
    <3>1. calls' \in Nat /\ CalledBackOnce' /\ IndexInv'
      BY <1>0, <1>5, <2>1, <2>5 DEF NormalNext, CalledBackOnce, TypeOK, IndexInv
    <3>2. /\ UNCHANGED <<code, context, exports, shortcut, pitchExecuted, index>>
          /\ step' = "normal" /\ normalExecuted' = normalExecuted \cup {index}
      BY <1>5, <2>1, <2>5 DEF NormalNext
    <3>3. pitchExecuted' \subseteq Loader /\ normalExecuted' \subseteq Loader
      BY <1>0, <3>0, <3>2 DEF TypeOK
    <3> QED
      BY <1>0, <2>1, <3>1, <3>2, <3>3, QuietStep DEF TypeOK
  <2> QED
    BY <2>1, <2>2, <2>3, <2>4, <2>5
<1> QED
  BY <1>1, <1>2, <1>3, <1>4, <1>5 DEF Chain

LEMMA CodeControl == ASSUME ControlInv, NEW r \in Run, Code(r) PROVE ControlInv'
<1> USE LoaderAssumption DEF LoaderAssumption
<1>0. TypeOK /\ OpenInv /\ StackInv
  BY DEF ControlInv
<1>1. ASSUME Executing(r)
      PROVE  /\ stack # <<>> /\ 1 \in 1 .. Len(stack) /\ stack[1] = r
             /\ Tail(stack) \in Seq(Run)
             /\ \A i \in 1 .. Len(Tail(stack)) :
                   /\ i + 1 \in 1 .. Len(stack)
                   /\ Tail(stack)[i] = stack[i + 1]
                   /\ Tail(stack)[i] # r
  <2>1. stack \in Seq(Run) /\ stack # <<>> /\ stack[1] = r
    BY <1>0, <1>1 DEF Executing, TypeOK
  <2>2. /\ Tail(stack) \in Seq(Run) /\ 1 \in 1 .. Len(stack)
        /\ \A i \in 1 .. Len(Tail(stack)) :
              i + 1 \in 1 .. Len(stack) /\ i + 1 # 1 /\ Tail(stack)[i] = stack[i + 1]
    BY <2>1
  <2> QED
    BY <1>0, <2>1, <2>2 DEF StackInv
<1>2. CASE TakeAsync(r)
  <2>1. context \in Run /\ context \notin done /\ OpenRun(context)
    BY <1>0, <1>2 DEF TakeAsync, TypeOK, OpenInv, OpenRun
  <2>2. TypeOK'
    BY <1>0, <1>2, <2>1 DEF TakeAsync, TypeOK, chain
  <2>3. CalledBackOnce' /\ IndexInv'
    BY <1>2 DEF TakeAsync, ControlInv, CalledBackOnce, IndexInv, chain
  <2>4. OpenInv'
    BY <1>0, <1>2, <2>1 DEF TakeAsync, TypeOK, OpenInv, OpenRun, chain
  <2>5. StackInv'
    BY <1>0, <1>2 DEF TakeAsync, StackInv, Flag, chain
  <2> QED
    BY <2>2, <2>3, <2>4, <2>5 DEF ControlInv
<1>3. ASSUME NEW c \in Run, NEW ok \in BOOLEAN, NEW given \in BOOLEAN, Call(r, c, ok, given)
      PROVE  ControlInv'
  <2>1. c \notin done /\ OpenRun(c) /\ c \notin promised
    BY <1>0, <1>3 DEF Call, MayCall, OpenInv, OpenRun
  <2>2. \A i \in 1 .. Len(stack') : stack[i]' \in sync' => stack[i]' # c
    BY <1>3 DEF Call
  <2> QED
    BY <1>0, <1>3, <2>1, <2>2, ContinueStep DEF Call, TypeOK
<1>4. ASSUME NEW given \in BOOLEAN, Return(r, given)
      PROVE  ControlInv'
  <2>1. CASE r \in sync
    <3>1. r \notin done /\ OpenRun(r) /\ r \notin promised
      BY <1>0, <1>1, <1>4, <2>1 DEF Return, OpenInv, StackInv
    <3>2. Continue(r, TRUE, given) /\ done' = done \cup {r} /\ promised' = promised \ {r}
      BY <1>4, <2>1, <3>1 DEF Return
    <3>3. /\ stack' = Tail(stack) /\ held' = held /\ sync' = sync
          /\ reported' = reported
      BY <1>4 DEF Return
    <3>4. stack # <<>> /\ \A i \in 1 .. Len(stack') : stack[i]' # r
      BY <1>1, <1>4, <3>3 DEF Return
    <3> QED
      BY <1>0, <3>1, <3>2, <3>3, <3>4, ContinueStep DEF TypeOK
  <2>2. CASE r \notin sync
    <3>1. TypeOK'
      BY <1>0, <1>1, <1>4, <2>2 DEF Return, TypeOK, chain
    <3>2. CalledBackOnce' /\ IndexInv'
      BY <1>4, <2>2 DEF Return, ControlInv, CalledBackOnce, IndexInv, chain
    <3>3. OpenInv'
      BY <1>0, <1>1, <1>4, <2>2 DEF Return, OpenInv, OpenRun, chain
    <3>4. StackInv'
      BY <1>0, <1>1, <1>4, <2>2 DEF Return, StackInv, Flag, chain
    <3> QED
      BY <3>1, <3>2, <3>3, <3>4 DEF ControlInv
  <2> QED
    BY <2>1, <2>2
<1>5. CASE ReturnPromise(r)
  <2>1. r \notin done /\ OpenRun(r)
    BY <1>0, <1>1, <1>5 DEF ReturnPromise, OpenInv, StackInv
  <2>2. TypeOK'
    BY <1>0, <1>1, <1>5 DEF ReturnPromise, TypeOK, chain
  <2>3. CalledBackOnce' /\ IndexInv'
    BY <1>5 DEF ReturnPromise, ControlInv, CalledBackOnce, IndexInv, chain
  <2>4. OpenInv'
    BY <1>0, <1>1, <1>5, <2>1 DEF ReturnPromise, OpenInv, OpenRun, chain
  <2>5. StackInv'
    BY <1>0, <1>1, <1>5 DEF ReturnPromise, StackInv, Flag, chain
  <2> QED
    BY <2>2, <2>3, <2>4, <2>5 DEF ControlInv
<1>6. ASSUME NEW ok \in BOOLEAN, NEW given \in BOOLEAN, Settle(r, ok, given)
      PROVE  ControlInv'
  <2>1. r \in done /\ OpenRun(r) /\ done = done \cup {r}
    BY <1>0, <1>6 DEF Settle, OpenInv
  <2>2. \A i \in 1 .. Len(stack') : stack[i]' \in sync' => stack[i]' # r
    BY <1>0, <1>6, <2>1 DEF Settle, StackInv
  <2> QED
    BY <1>0, <1>6, <2>1, <2>2, ContinueStep DEF Settle, TypeOK
<1>7. CASE Throw(r)
  <2>1. CASE r \notin done
    <3>1. OpenRun(r) /\ r \notin promised
      BY <1>0, <1>1, <1>7, <2>1 DEF Throw, OpenInv
    <3> QED
      BY <1>0, <1>1, <1>7, <2>1, <3>1, ContinueStep DEF Throw, Thrown, TypeOK
  <2>2. CASE r \in done
    <3>1. TypeOK'
      BY <1>0, <1>1, <1>7, <2>2 DEF Throw, TypeOK, chain
    <3>2. CalledBackOnce' /\ IndexInv'
      BY <1>7, <2>2 DEF Throw, ControlInv, CalledBackOnce, IndexInv, chain
    <3>3. OpenInv'
      BY <1>0, <1>1, <1>7, <2>2 DEF Throw, OpenInv, OpenRun, chain
    <3>4. StackInv'
      BY <1>0, <1>1, <1>7, <2>2 DEF Throw, StackInv, Flag, chain
    <3> QED
      BY <3>1, <3>2, <3>3, <3>4 DEF ControlInv
  <2> QED
    BY <2>1, <2>2
<1> QED
  BY <1>2, <1>3, <1>4, <1>5, <1>6, <1>7 DEF Code

LEMMA StutterControl == ControlInv /\ UNCHANGED vars => ControlInv'
<1> SUFFICES ASSUME ControlInv, UNCHANGED vars PROVE ControlInv'
  OBVIOUS
<1>1. TypeOK' /\ CalledBackOnce' /\ IndexInv'
  BY DEF ControlInv, TypeOK, CalledBackOnce, IndexInv, vars, chain, code
<1>2. OpenInv' /\ StackInv'
  BY DEF ControlInv, OpenInv, StackInv, OpenRun, Flag, vars, chain, code
<1> QED
  BY <1>1, <1>2 DEF ControlInv

LEMMA ControlCorrect == Spec => []ControlInv
<1>1. ControlInv /\ [Next]_vars => ControlInv'
  BY ChainControl, CodeControl, StutterControl DEF Next
<1> QED
  BY InitControl, <1>1, PTL DEF Spec

\* The context of a call of runLoaders keeps its types.
THEOREM TypeCorrect == Spec => []TypeOK
<1>1. ControlInv => TypeOK
  BY DEF ControlInv
<1> QED
  BY ControlCorrect, <1>1, PTL

\* The callback of runLoaders is called once, whatever the loaders do.
THEOREM CalledBackOnceCorrect == Spec => []CalledBackOnce
<1>1. ControlInv => CalledBackOnce
  BY DEF ControlInv
<1> QED
  BY ControlCorrect, <1>1, PTL

(***************************************************************************)
(* The order of the functions.  ControlInv says that one run at a time     *)
(* moves the chain; what is left is where the two iterations stand.        *)
(***************************************************************************)

\* Loaders left of index have been pitched, none right of it.
PitchPhase ==
    /\ normalExecuted = {}
    /\ shortcut = -1
    /\ \A l \in Loader : l < index => l \in pitchExecuted
    /\ \A l \in pitchExecuted : l <= index

\* All loaders up to index have been pitched; right of it, all that were
\* pitched are done or gave the result.
NormalPhase ==
    /\ \A l \in Loader : l <= index => l \in pitchExecuted
    /\ shortcut = -1 \/ shortcut > index
    /\ \A l \in normalExecuted : l >= index
    /\ \A m \in pitchExecuted : m > index => m \in normalExecuted \/ m = shortcut

OrderInv ==
    /\ OnionOrder
    /\ step \in {"pitch", "load"} => PitchPhase
    /\ step \in {"read", "normal"} => NormalPhase
    /\ step = "run" /\ context[1] = "pitch" => PitchPhase
    /\ step = "run" /\ context[1] = "normal" => NormalPhase

LEMMA InitOrder == Init => OrderInv
<1> SUFFICES ASSUME Init PROVE OrderInv
  OBVIOUS
<1> QED
  BY DEF Init, OrderInv, OnionOrder, PitchPhase, Loader

LEMMA ChainOrder == ControlInv /\ OrderInv /\ Chain => OrderInv'
<1> SUFFICES ASSUME ControlInv, OrderInv, Chain PROVE OrderInv'
  OBVIOUS
<1> USE LoaderAssumption DEF LoaderAssumption
<1>0. TypeOK /\ IndexInv
  BY DEF ControlInv
<1>1. CASE PitchNext
  <2>1. PitchPhase /\ OnionOrder /\ index \in Int /\ pitchExecuted \subseteq Loader
    BY <1>0, <1>1 DEF PitchNext, OrderInv, TypeOK
  <2>2. CASE index >= L
    BY <1>1, <2>1, <2>2 DEF PitchNext, OrderInv, OnionOrder, PitchPhase, NormalPhase, Loader
  <2>3. CASE index < L
    BY <1>0, <1>1, <2>1, <2>3 DEF PitchNext, OrderInv, OnionOrder, PitchPhase, Loader, IndexInv
  <2> QED
    BY <2>1, <2>2, <2>3
<1>2. CASE LoadFails \/ ReadResource
  BY <1>2 DEF LoadFails, ReadResource, Finish, OrderInv, OnionOrder, NormalPhase
<1>3. CASE Load
  <2>1. PitchPhase /\ OnionOrder /\ index \in Loader /\ pitchExecuted \subseteq Loader
    BY <1>0, <1>3 DEF Load, OrderInv, TypeOK, IndexInv
  <2>2. PitchPhase' /\ OnionOrder'
    BY <1>3, <2>1 DEF Load, Pitched, OnionOrder, PitchPhase, Loader
  <2>3. step' = "pitch" \/ (step' = "run" /\ context'[1] = "pitch")
    BY <1>3 DEF Load, Start
  <2> QED
    BY <2>2, <2>3 DEF OrderInv
<1>4. CASE NormalNext
  <2>1. NormalPhase /\ OnionOrder /\ index \in -1 .. L - 1 /\ pitchExecuted \subseteq Loader
    BY <1>0, <1>4 DEF NormalNext, OrderInv, TypeOK, IndexInv
  <2>2. CASE index < 0
    BY <1>4, <2>1, <2>2 DEF NormalNext, Finish, OrderInv, OnionOrder
  <2>3. CASE index >= 0 /\ index \in normalExecuted
    <3>1. /\ index' = index - 1 /\ step' = "normal"
          /\ UNCHANGED <<pitchExecuted, normalExecuted, shortcut>>
      BY <1>4, <2>1, <2>3 DEF NormalNext
    <3>2. NormalPhase' /\ OnionOrder'
      BY <1>0, <2>1, <2>3, <3>1 DEF TypeOK, OnionOrder, NormalPhase, Loader
    <3> QED
      BY <3>1, <3>2 DEF OrderInv
  <2>4. CASE index >= 0 /\ index \notin normalExecuted
    <3>1. /\ UNCHANGED <<index, pitchExecuted, shortcut>>
          /\ normalExecuted' = normalExecuted \cup {index}
      BY <1>4, <2>1, <2>4 DEF NormalNext
    <3>2. step' = "normal" \/ (step' = "run" /\ context'[1] = "normal")
      BY <1>4, <2>1, <2>4 DEF NormalNext, Start
    <3>3. NormalPhase' /\ OnionOrder'
      BY <2>1, <2>4, <3>1 DEF OnionOrder, NormalPhase, Loader
    <3> QED
      BY <3>2, <3>3 DEF OrderInv
  <2> QED
    BY <2>1, <2>2, <2>3, <2>4
<1> QED
  BY <1>1, <1>2, <1>3, <1>4 DEF Chain

\* The open run hands over control between or within the two iterations.
LEMMA ContinueOrder ==
    ASSUME ControlInv, OrderInv, NEW r \in Run, OpenRun(r),
           NEW ok \in BOOLEAN, NEW given \in BOOLEAN, Continue(r, ok, given)
    PROVE  OrderInv'
<1> USE LoaderAssumption DEF LoaderAssumption
<1>1. /\ context = r /\ step = "run" /\ index \in Loader
      /\ pitchExecuted \subseteq Loader /\ r[1] \in Kind
  BY DEF ControlInv, TypeOK, IndexInv, OpenRun, Run
<1>2. UNCHANGED <<pitchExecuted, normalExecuted>>
  BY DEF Continue
<1>3. CASE ~ok
  BY <1>3, <1>2 DEF Continue, Finish, OrderInv, OnionOrder
<1>4. CASE ok /\ r[1] = "normal"
  BY <1>1, <1>2, <1>4 DEF Continue, OrderInv, OnionOrder, NormalPhase
<1>5. CASE ok /\ r[1] = "pitch" /\ ~given
  BY <1>1, <1>2, <1>5 DEF Continue, OrderInv, OnionOrder, PitchPhase
<1>6. CASE ok /\ r[1] = "pitch" /\ given
  <2>1. PitchPhase /\ index \in pitchExecuted
    BY <1>1, <1>6 DEF OrderInv, ControlInv, StackInv, Flag, IndexInv
  <2>2. step' = "normal" /\ index' = index - 1 /\ shortcut' = index
    BY <1>6 DEF Continue, BackFrom
  <2>3. NormalPhase' /\ OnionOrder'
    BY <1>1, <1>2, <2>1, <2>2 DEF OnionOrder, PitchPhase, NormalPhase, Loader
  <2> QED
    BY <2>2, <2>3 DEF OrderInv
<1> QED
  BY <1>1, <1>3, <1>4, <1>5, <1>6 DEF Kind

LEMMA StutterOrder == OrderInv /\ UNCHANGED <<chain, exports>> => OrderInv'
BY DEF OrderInv, OnionOrder, PitchPhase, NormalPhase, chain

LEMMA CodeOrder == ASSUME ControlInv, OrderInv, NEW r \in Run, Code(r) PROVE OrderInv'
<1>0. TypeOK /\ OpenInv /\ StackInv /\ stack \in Seq(Run)
  BY DEF ControlInv, TypeOK
<1>1. Executing(r) => 1 \in 1 .. Len(stack) /\ stack[1] = r
  BY <1>0 DEF Executing
<1>2. CASE TakeAsync(r) \/ ReturnPromise(r)
  BY <1>2, StutterOrder DEF TakeAsync, ReturnPromise
<1>3. ASSUME NEW c \in Run, NEW ok \in BOOLEAN, NEW given \in BOOLEAN, Call(r, c, ok, given)
      PROVE  OrderInv'
  <2>1. OpenRun(c)
    BY <1>0, <1>3 DEF Call, MayCall, OpenInv, OpenRun
  <2> QED
    BY <1>3, <2>1, ContinueOrder DEF Call
<1>4. ASSUME NEW given \in BOOLEAN, Return(r, given)
      PROVE  OrderInv'
  <2>1. CASE r \in sync
    <3>1. OpenRun(r)
      BY <1>0, <1>1, <1>4, <2>1 DEF Return, OpenInv, StackInv
    <3>2. Continue(r, TRUE, given)
      BY <1>4, <2>1 DEF Return
    <3> QED
      BY <3>1, <3>2, ContinueOrder
  <2>2. CASE r \notin sync
    BY <1>4, <2>2, StutterOrder DEF Return
  <2> QED
    BY <2>1, <2>2
<1>5. ASSUME NEW ok \in BOOLEAN, NEW given \in BOOLEAN, Settle(r, ok, given)
      PROVE  OrderInv'
  <2>1. OpenRun(r)
    BY <1>0, <1>5 DEF Settle, OpenInv
  <2> QED
    BY <1>5, <2>1, ContinueOrder DEF Settle
<1>6. CASE Throw(r)
  <2>1. CASE r \in done
    BY <1>6, <2>1, StutterOrder DEF Throw
  <2>2. CASE r \notin done
    <3>1. OpenRun(r)
      BY <1>0, <1>1, <1>6, <2>2 DEF Throw, OpenInv
    <3>2. Continue(r, FALSE, FALSE)
      BY <1>6, <2>2 DEF Throw
    <3> QED
      BY <3>1, <3>2, ContinueOrder
  <2> QED
    BY <2>1, <2>2
<1> QED
  BY <1>2, <1>3, <1>4, <1>5, <1>6 DEF Code

\* Normal functions run from right to left over the loaders that were pitched,
\* without the one that gave the result, whatever the loaders do.
THEOREM OnionOrderCorrect == Spec => []OnionOrder
<1>1. ControlInv /\ OrderInv /\ [Next]_vars => OrderInv'
  BY ChainOrder, CodeOrder, StutterOrder DEF Next, vars
<1>2. OrderInv => OnionOrder
  BY DEF OrderInv
<1> QED
  BY InitOrder, ControlCorrect, <1>1, <1>2, PTL DEF Spec

(***************************************************************************)
(* Chunk groups: the inductive invariant.                                  *)
(***************************************************************************)

InfoType ==
    [modules : SUBSET Module, runtime : SUBSET Entry, async : BOOLEAN, min : ModuleSets,
     toMerge : SUBSET SUBSET Module, skipped : SUBSET Module, transitive : SUBSET Module,
     resulting : ModuleSets, children : SUBSET Group]

Groups == DOMAIN info
Knows(g) == info[g].min # Undefined
Offered(g) == info[g].toMerge # {}
Awaits(g) == \E pair \in connect : pair[2] = g
Connects(g) == \E pair \in connect : pair[1] = g

\* The groups whose set is known, and those that will know it after the next merge.
Knowing == {g \in Groups : Knows(g)}
Promised == {g \in Groups : Knows(g) \/ Offered(g) \/ Awaits(g)}

\* What may be in the queues for some groups: only modules are entered.
ItemsOf(groups) ==
    {i \in [enter : BOOLEAN, block : Module \cup Block, group : groups] :
        i.enter => i.block \in Module}

InfoInv ==
    /\ graph \in Graph
    /\ info \in [Groups -> InfoType]
    /\ Entry \subseteq Groups /\ Groups \subseteq Group

OtherTypes ==
    /\ nested \subseteq Block
    /\ combining \subseteq Entry /\ phase \in Phases
    /\ created \in Seq(Block)
    /\ parents \subseteq Group \X Group /\ connected \subseteq Block
    /\ page \in Entry \cup {Nobody} /\ imported \subseteq Block

\* Whatever is a chunk group has its information.
GroupsInv ==
    /\ DOMAIN blockGroup \subseteq Block
    /\ \A b \in DOMAIN blockGroup : blockGroup[b] \in Groups
    /\ \A n \in DOMAIN named : named[n] \in Groups
    /\ connections \subseteq Block \X Groups \X Groups
    /\ connect \subseteq Groups \X Groups
    /\ outdated \subseteq Groups
    /\ \A g \in Groups : info[g].children \subseteq Groups

\* Whose set is needed has one, or will have it after the next merge.
QueueInv ==
    /\ queue \in Seq(ItemsOf(Knowing))
    /\ delayed \in Seq(ItemsOf(IF phase = "revisit" THEN Knowing ELSE Promised))

KnownInv ==
    /\ \A pair \in connect : Knows(pair[1])
    /\ \A g \in outdated : Knows(g) \/ Offered(g)
    /\ phase = "combine" => \A e \in combining : \A p \in graph.dependOn[e] : Knows(p)
    /\ phase = "revisit" => \A g \in outdated : Knows(g)

\* What has been reset is calculated again.
ResultInv ==
    /\ \A c \in connections : Connects(c[2]) \/ info[c[2]].children # {}
    /\ \A g \in Groups : info[g].children # {} =>
          info[g].resulting # Undefined \/ g \in outdated \/ Connects(g)
    /\ phase = "connect" => connect = {} /\ outdated = {}

ChunkInv == InfoInv /\ OtherTypes /\ GroupsInv /\ QueueInv /\ KnownInv /\ ResultInv

\* The sequence of the elements of a finite set.
LEMMA SetToSeqFacts ==
    ASSUME NEW S, IsFiniteSet(S)
    PROVE  /\ Cardinality(S) \in Nat
           /\ SetToSeq(S) \in [1..Cardinality(S) -> S]
           /\ SetToSeq(S) \in Seq(S)
  <1>1. Cardinality(S) \in Nat /\ ExistsBijection(1..Cardinality(S), S)
    BY FS_CardinalityType
  <1>2. \E f \in [1..Cardinality(S) -> S] : IsInjective(f)
    BY <1>1 DEF ExistsBijection, Bijection, Injection, IsInjective
  <1>3. SetToSeq(S) \in [1..Cardinality(S) -> S]
    BY <1>2, Zenon DEF SetToSeq
  <1> HIDE DEF SetToSeq
  <1> QED
    BY <1>1, <1>3, SeqDef

LEMMA FiniteConstants ==
    /\ IsFiniteSet(Module) /\ IsFiniteSet(Block) /\ IsFiniteSet(Entry)
    /\ IsFiniteSet(Module \cup Block)
  <1>1. IsFiniteSet(Module \cup Block \cup Entry)
    BY BuildChunkGraphAssumption
  <1> QED
    BY <1>1, FS_Subset

LEMMA ItemsFacts ==
    ASSUME NEW groups, NEW g \in groups, NEW enter \in BOOLEAN,
           NEW blocks \in SUBSET (Module \cup Block), enter => blocks \subseteq Module
    PROVE  Items(enter, blocks, g) \in Seq(ItemsOf(groups))
  <1>1. IsFiniteSet(blocks)
    BY FiniteConstants, FS_Subset
  <1>2. Cardinality(blocks) \in Nat /\ SetToSeq(blocks) \in [1..Cardinality(blocks) -> blocks]
    BY <1>1, SetToSeqFacts
  <1> DEFINE n == Cardinality(blocks)
             s == SetToSeq(blocks)
  <1>3. Items(enter, blocks, g) = [i \in 1..n |-> [enter |-> enter, block |-> s[i], group |-> g]]
    BY DEF Items
  <1> HIDE DEF n, s
  <1>4. n \in Nat /\ s \in [1..n -> blocks]
    BY <1>2 DEF n, s
  <1>5. \A i \in 1..n : [enter |-> enter, block |-> s[i], group |-> g] \in ItemsOf(groups)
    BY <1>4 DEF ItemsOf
  <1>6. [i \in 1..n |-> [enter |-> enter, block |-> s[i], group |-> g]]
            \in [1..n -> ItemsOf(groups)]
    BY <1>5
  <1> QED
    BY <1>3, <1>4, <1>6, SeqDef

LEMMA ReverseFacts ==
    ASSUME NEW S, NEW q \in Seq(S)
    PROVE  Reverse(q) \in Seq(S)
  <1>1. Len(q) \in Nat /\ \A i \in 1..Len(q) : q[i] \in S
    BY LenProperties
  <1>2. \A i \in 1..Len(q) : (Len(q) - i) + 1 \in 1..Len(q)
    BY <1>1
  <1>3. [i \in 1..Len(q) |-> q[(Len(q) - i) + 1]] \in [1..Len(q) -> S]
    BY <1>1, <1>2
  <1> QED
    BY <1>1, <1>3, SeqDef DEF Reverse

LEMMA LastAndFront ==
    ASSUME NEW S, NEW q \in Seq(S), q # <<>>
    PROVE  Last(q) \in S /\ Front(q) \in Seq(S)
  <1>1. Len(q) \in Nat /\ Len(q) # 0 /\ \A i \in 1..Len(q) : q[i] \in S
    BY LenProperties, EmptySeq
  <1>2. Last(q) \in S
    BY <1>1 DEF Last
  <1>3. SubSeq(q, 1, Len(q) - 1) \in Seq(S)
    <2>1. Len(q) - 1 \in Int /\ \A i \in 1..(Len(q) - 1) : q[i] \in S
      BY <1>1
    <2> QED
      BY <2>1, SubSeqProperties
  <1> QED
    BY <1>2, <1>3 DEF Front

LEMMA MoreSeqs == ASSUME NEW S, NEW T, S \subseteq T PROVE Seq(S) \subseteq Seq(T)
  BY SeqMonotonic

LEMMA MoreItems ==
    ASSUME NEW S, NEW T, S \subseteq T
    PROVE  ItemsOf(S) \subseteq ItemsOf(T) /\ Seq(ItemsOf(S)) \subseteq Seq(ItemsOf(T))
  <1>1. ItemsOf(S) \subseteq ItemsOf(T)
    BY DEF ItemsOf
  <1> QED
    BY <1>1, MoreSeqs

\* A set of numbers has a least element.
LEMMA LeastNumber ==
  ASSUME NEW S, S \subseteq Nat, S # {}
  PROVE  \E x \in S : \A y \in S : x <= y
<1> DEFINE R == {p \in Nat \X Nat : p[1] < p[2]}
<1>1. IsWellFoundedOn(R, Nat)
  BY NatLessThanWellFounded, IsWellFoundedOnSubrelation DEF OpToRel
<1> HIDE DEF R
<1>2. PICK x \in S : \A y \in S : ~ (<<y, x>> \in R)
  BY <1>1, WFMin
<1>3. ASSUME NEW y \in S, y < x PROVE FALSE
  <2>1. <<y, x>> \in Nat \X Nat
    OBVIOUS
  <2>2. <<y, x>> \in R
    BY <1>3, <2>1 DEF R
  <2> QED
    BY <1>2, <2>2
<1>4. \A y \in S : x <= y
  BY <1>3
<1> QED
  BY <1>4

\* A fold takes the elements of a set one by one, as pick chooses them.
FoldInput(S, T, base, app, pick) ==
    /\ IsFiniteSet(S) /\ base \in T /\ app \in [S -> [T -> T]]
    /\ \A s \in SUBSET S : s # {} => pick[s] \in s
Folded(S, T, base, app, pick, W) ==
    /\ W \in [SUBSET S -> T]
    /\ \A s \in SUBSET S : W[s] = IF s = {} THEN base ELSE app[pick[s]][W[s \ {pick[s]}]]

\* It comes to an end, so what it computes is defined.
LEMMA FoldExists ==
    ASSUME NEW S, NEW T, NEW base, NEW app, NEW pick, FoldInput(S, T, base, app, pick)
    PROVE  \E W : Folded(S, T, base, app, pick, W)
  <1> USE DEF FoldInput
  <1> DEFINE Upto(n) == {s \in SUBSET S : Cardinality(s) <= n}
             Is(W, s) == W[s] = IF s = {} THEN base ELSE app[pick[s]][W[s \ {pick[s]}]]
             P == {n \in Nat : \E W \in [SUBSET S -> T] : \A s \in Upto(n) : Is(W, s)}
  <1>0. \A s \in SUBSET S : IsFiniteSet(s) /\ Cardinality(s) \in Nat
    BY FS_Subset, FS_CardinalityType
  <1>1. 0 \in P
    <2> DEFINE W == [s \in SUBSET S |-> base]
    <2>1. W \in [SUBSET S -> T]
      OBVIOUS
    <2>2. ASSUME NEW s \in Upto(0) PROVE Is(W, s)
      <3>1. Cardinality(s) = 0 /\ IsFiniteSet(s)
        BY <1>0
      <3>2. s = {}
        BY <3>1, FS_EmptySet
      <3> QED
        BY <3>2
    <2> QED
      BY <2>1, <2>2
  <1>2. ASSUME NEW n \in P PROVE n + 1 \in P
    <2>1. PICK W \in [SUBSET S -> T] : \A s \in Upto(n) : Is(W, s)
      OBVIOUS
    <2> DEFINE V == [s \in SUBSET S |-> IF s = {} THEN base
                                        ELSE app[pick[s]][W[s \ {pick[s]}]]]
    <2>2. V \in [SUBSET S -> T]
      <3>1. ASSUME NEW s \in SUBSET S, s # {} PROVE app[pick[s]][W[s \ {pick[s]}]] \in T
        <4>1. pick[s] \in S /\ s \ {pick[s]} \in SUBSET S
          BY <3>1
        <4> QED
          BY <4>1
      <3> QED
        BY <3>1
    <2>3. ASSUME NEW s \in Upto(n + 1) PROVE Is(V, s)
      <3>1. CASE s = {}
        BY <3>1
      <3>2. CASE s # {}
        <4> DEFINE d == s \ {pick[s]}
        <4>1. pick[s] \in s /\ d \in SUBSET S /\ n \in Nat
          BY <3>2
        <4>2. Cardinality(d) = Cardinality(s) - 1
          BY <1>0, <4>1, FS_RemoveElement
        <4>3. Cardinality(d) <= n
          BY <1>0, <4>1, <4>2
        <4>4. Is(W, d)
          BY <2>1, <4>1, <4>3
        <4>5. V[d] = W[d]
          BY <4>1, <4>4
        <4>6. V[s] = app[pick[s]][W[d]]
          BY <3>2
        <4> HIDE DEF V
        <4> QED
          BY <3>2, <4>5, <4>6
      <3> QED
        BY <3>1, <3>2
    <2>4. \A s \in Upto(n + 1) : Is(V, s)
      BY <2>3
    <2> HIDE DEF V, Upto, Is
    <2> QED
      BY <2>2, <2>4
  <1>3. Cardinality(S) \in P
    <2> DEFINE M == Nat \ P
    <2> HIDE DEF P
    <2>1. CASE M = {}
      BY <1>0, <2>1
    <2>2. CASE M # {}
      <3>1. PICK x \in M : \A y \in M : x <= y
        BY <2>2, LeastNumber
      <3>2. x # 0 /\ x \in Nat
        BY <1>1
      <3>3. x - 1 \in Nat /\ (x - 1) + 1 = x /\ ~(x <= x - 1)
        BY <3>2
      <3>4. x - 1 \in P
        BY <3>1, <3>3
      <3> QED
        BY <1>2, <3>3, <3>4
    <2> QED
      BY <2>1, <2>2
  <1>4. PICK W \in [SUBSET S -> T] : \A s \in Upto(Cardinality(S)) : Is(W, s)
    BY <1>3
  <1>5. \A s \in SUBSET S : Cardinality(s) <= Cardinality(S)
    BY FS_Subset
  <1>6. \A s \in SUBSET S : Is(W, s)
    BY <1>4, <1>5
  <1>7. Folded(S, T, base, app, pick, W)
    BY <1>6 DEF Folded
  <1> QED
    BY <1>7

\* What the steps of a fold keep, its result has too.
LEMMA FoldKeeps ==
    ASSUME NEW S, IsFiniteSet(S), NEW T, NEW pick, NEW U, U[{}] \in T,
           \A s \in SUBSET S : s # {} => pick[s] \in s,
           \A s \in SUBSET S : s # {} /\ U[s \ {pick[s]}] \in T => U[s] \in T
    PROVE  U[S] \in T
  <1> DEFINE Bad == {s \in SUBSET S : U[s] \notin T}
             sizes == {Cardinality(s) : s \in Bad}
  <1>0. \A s \in SUBSET S : IsFiniteSet(s) /\ Cardinality(s) \in Nat
    BY FS_Subset, FS_CardinalityType
  <1>1. SUFFICES ASSUME Bad # {} PROVE FALSE
    OBVIOUS
  <1>2. sizes \subseteq Nat /\ sizes # {}
    BY <1>0, <1>1
  <1>3. PICK n \in sizes : \A k \in sizes : n <= k
    BY <1>2, LeastNumber
  <1>4. PICK s \in Bad : n = Cardinality(s)
    BY <1>3
  <1> DEFINE d == s \ {pick[s]}
  <1>5. s # {} /\ pick[s] \in s /\ d \in SUBSET S
    BY <1>4
  <1>6. Cardinality(d) = Cardinality(s) - 1
    BY <1>0, <1>5, FS_RemoveElement
  <1>7. d \in Bad
    BY <1>4, <1>5
  <1>8. n <= Cardinality(d)
    BY <1>3, <1>7
  <1> QED
    BY <1>0, <1>2, <1>4, <1>6, <1>8

(***************************************************************************)
(* Chunk groups: the inputs and the initial state.                         *)
(***************************************************************************)

LEMMA GraphFacts ==
    ASSUME graph \in Graph
    PROVE  /\ \A e \in Entry : graph.dependOn[e] \subseteq Entry /\ graph.modules[e] \subseteq Module
           /\ \A c \in Module \cup Block : graph.blocks[c] \subseteq Block
           /\ \A c, rt, state : Refers(graph, c, rt, state) \subseteq Module
  <1>1. IsGraph(graph)
    BY BuildChunkGraphAssumption
  <1>2. \A d \in graph.deps : d.to \in Module
    BY <1>1 DEF IsGraph
  <1>3. \A c, rt, state : Refers(graph, c, rt, state) \subseteq Module
    BY <1>2 DEF Refers, Active
  <1>4. graph.modules \in [Entry -> SUBSET Module] /\ graph.dependOn \in [Entry -> SUBSET Entry]
        /\ \A c \in Module \cup Block : graph.blocks[c] \subseteq Block
    BY <1>1, Zenon DEF IsGraph
  <1>5. \A e \in Entry : graph.dependOn[e] \subseteq Entry /\ graph.modules[e] \subseteq Module
    BY <1>4
  <1> QED
    BY <1>3, <1>4, <1>5

LEMMA RuntimeFacts == ASSUME NEW g, NEW e \in Entry PROVE EntryRuntime(g, e) \subseteq Entry
  BY DEF EntryRuntime

LEMMA SetsAreNot == \A S \in SUBSET Module : S # Undefined
  BY BuildChunkGraphAssumption

LEMMA NewInfoFacts ==
    ASSUME NEW rt \in SUBSET Entry, NEW async \in BOOLEAN, NEW min \in ModuleSets,
           NEW skipped \in SUBSET Module
    PROVE  /\ NewInfo(rt, async, min, skipped) \in InfoType
           /\ NewInfo(rt, async, min, skipped).min = min
           /\ NewInfo(rt, async, min, skipped).toMerge = {}
           /\ NewInfo(rt, async, min, skipped).children = {}
  <1>1. Undefined \in ModuleSets
    BY DEF ModuleSets
  <1>2. NewInfo(rt, async, min, skipped) \in InfoType
    BY <1>1 DEF NewInfo, InfoType
  <1>3. /\ NewInfo(rt, async, min, skipped).min = min
        /\ NewInfo(rt, async, min, skipped).toMerge = {}
        /\ NewInfo(rt, async, min, skipped).children = {}
    BY DEF NewInfo
  <1> QED
    BY <1>2, <1>3

\* The entries that are visited first are those without a parent: their set is empty,
\* and known.
LEMMA InitQueue ==
    ASSUME ChunkInit
    PROVE  queue \in Seq(ItemsOf({e \in Entry : graph.dependOn[e] = {}}))
  <1> DEFINE roots == {e \in Entry : graph.dependOn[e] = {}}
             T == Seq(ItemsOf(roots))
             Then(e, q) == IF graph.dependOn[e] = {} THEN q \o Items(TRUE, graph.modules[e], e)
                           ELSE q
             app == [e \in Entry |-> [q \in T |-> Then(e, q)]]
             pick == [s \in SUBSET Entry |-> CHOOSE x \in s : TRUE]
  <1>1. graph \in Graph
    BY DEF ChunkInit
  <1>2. \A e \in Entry, q \in T : Then(e, q) \in T
    <2> SUFFICES ASSUME NEW e \in Entry, NEW q \in T PROVE Then(e, q) \in T
      OBVIOUS
    <2>1. CASE graph.dependOn[e] = {}
      <3>1. graph.modules[e] \in SUBSET (Module \cup Block) /\ graph.modules[e] \subseteq Module
        BY <1>1, GraphFacts
      <3>2. Items(TRUE, graph.modules[e], e) \in T
        BY <2>1, <3>1, ItemsFacts
      <3>3. q \o Items(TRUE, graph.modules[e], e) \in T
        BY <3>2, ConcatProperties
      <3> QED
        BY <2>1, <3>3
    <2>2. CASE graph.dependOn[e] # {}
      BY <2>2
    <2> QED
      BY <2>1, <2>2
  <1>3. <<>> \in T
    BY EmptySeq
  <1> HIDE DEF T
  <1>4. \A s \in SUBSET Entry : s # {} => (CHOOSE x \in s : TRUE) \in s
    BY Zenon
  <1>5. \A s \in SUBSET Entry : s # {} => pick[s] \in s
    BY <1>4, Zenon
  <1> HIDE DEF Then
  <1>6. app \in [Entry -> [T -> T]]
    BY <1>2
  <1>7. IsFiniteSet(Entry)
    BY FiniteConstants
  <1> HIDE DEF app
  <1>8. PICK W : Folded(Entry, T, <<>>, app, pick, W)
    <2>1. FoldInput(Entry, T, <<>>, app, pick)
      BY <1>3, <1>5, <1>6, <1>7 DEF FoldInput
    <2> QED
      BY <2>1, FoldExists
  <1> USE <1>8 DEF Folded
  <1>9. ASSUME NEW s \in SUBSET Entry
        PROVE  W[s] = IF s = {} THEN <<>> ELSE Then(CHOOSE x \in s : TRUE,
                                                    W[s \ {CHOOSE x \in s : TRUE}])
    <2>1. pick[s] = CHOOSE x \in s : TRUE
      BY Zenon
    <2> HIDE DEF pick
    <2>2. CASE s # {}
      <3>1. pick[s] \in Entry /\ s \ {pick[s]} \in SUBSET Entry
        BY <1>5, <2>2
      <3>2. W[s \ {pick[s]}] \in T
        BY <1>8, <3>1
      <3>3. app[pick[s]][W[s \ {pick[s]}]] = Then(pick[s], W[s \ {pick[s]}])
        BY <3>1, <3>2 DEF app
      <3>4. W[s] = Then(pick[s], W[s \ {pick[s]}])
        BY <1>8, <2>2, <3>3
      <3> QED
        BY <2>1, <2>2, <3>4, Zenon
    <2>3. CASE s = {}
      BY <1>8, <2>3
    <2> QED
      BY <2>2, <2>3, Zenon
  <1>10. \E V : V = [s \in SUBSET Entry |-> IF s = {} THEN <<>>
                        ELSE Then(CHOOSE x \in s : TRUE, V[s \ {CHOOSE x \in s : TRUE}])]
    <2>1. W = [s \in SUBSET Entry |-> W[s]]
      OBVIOUS
    <2>2. W = [s \in SUBSET Entry |-> IF s = {} THEN <<>>
                        ELSE Then(CHOOSE x \in s : TRUE, W[s \ {CHOOSE x \in s : TRUE}])]
      BY <1>9, <2>1, Zenon
    <2> QED
      BY <2>2, Zenon
  <1> DEFINE U == CHOOSE V : V = [s \in SUBSET Entry |-> IF s = {} THEN <<>>
                        ELSE Then(CHOOSE x \in s : TRUE, V[s \ {CHOOSE x \in s : TRUE}])]
  <1>11. U = [s \in SUBSET Entry |-> IF s = {} THEN <<>>
                        ELSE Then(CHOOSE x \in s : TRUE, U[s \ {CHOOSE x \in s : TRUE}])]
    BY <1>10, Zenon
  <1> HIDE DEF U
  <1>12. U[Entry] \in T
    <2>1. U[{}] = <<>>
      <3>1. {} \in SUBSET Entry
        OBVIOUS
      <3> QED
        BY <1>11, <3>1, Zenon
    <2>2. ASSUME NEW s \in SUBSET Entry, s # {}, U[s \ {pick[s]}] \in T PROVE U[s] \in T
      <3>1. pick[s] = CHOOSE x \in s : TRUE
        BY Zenon DEF pick
      <3>2. U[s] = Then(CHOOSE x \in s : TRUE, U[s \ {CHOOSE x \in s : TRUE}])
        BY <1>11, <2>2, Zenon
      <3>3. U[s] = Then(pick[s], U[s \ {pick[s]}])
        BY <3>1, <3>2, Zenon
      <3>4. pick[s] \in Entry
        BY <1>5, <2>2
      <3> QED
        BY <1>2, <2>2, <3>3, <3>4
    <2>3. U[{}] \in T
      BY <1>3, <2>1
    <2>4. \A s \in SUBSET Entry : s # {} /\ U[s \ {pick[s]}] \in T => U[s] \in T
      BY <2>2
    <2> QED
      BY <1>5, <1>7, <2>3, <2>4, FoldKeeps
  <1>13. queue = Reverse(U[Entry])
    <2>1. queue = Reverse(FoldSet(LAMBDA e, q : Then(e, q), <<>>, Entry))
      BY Zenon DEF ChunkInit, Then
    <2>2. FoldSet(LAMBDA e, q : Then(e, q), <<>>, Entry) = U[Entry]
      BY Zenon DEF FoldSet, MapThenFoldSet, U
    <2> QED
      BY <2>1, <2>2, Zenon
  <1> QED
    BY <1>12, <1>13, ReverseFacts DEF T

LEMMA InitChunk == ChunkInit => ChunkInv
  <1> SUFFICES ASSUME ChunkInit PROVE ChunkInv
    OBVIOUS
  <1>0. graph \in Graph
    BY DEF ChunkInit
  <1>1. Groups = Entry
    BY DEF ChunkInit, Groups
  <1>2. ASSUME NEW e \in Entry
        PROVE  /\ info[e] \in InfoType
               /\ info[e].children = {}
               /\ graph.dependOn[e] = {} => info[e].min = {}
    <2> DEFINE rt == EntryRuntime(graph, e)
    <2>1. rt \in SUBSET Entry /\ graph.modules[e] \in SUBSET Module
      BY <1>0, RuntimeFacts, GraphFacts
    <2>2. {} \in ModuleSets /\ Undefined \in ModuleSets
      BY DEF ModuleSets
    <2> HIDE DEF rt
    <2>3. CASE graph.dependOn[e] = {}
      <3>1. info[e] = NewInfo(rt, e \in graph.async, {}, {})
        BY <2>3 DEF ChunkInit, rt
      <3>2. NewInfo(rt, e \in graph.async, {}, {}) \in InfoType
        BY <2>1, <2>2 DEF NewInfo, InfoType
      <3> QED
        BY <3>1, <3>2 DEF NewInfo
    <2>4. CASE graph.dependOn[e] # {}
      <3>1. info[e] = NewInfo(rt, e \in graph.async, Undefined, graph.modules[e])
        BY <2>4 DEF ChunkInit, rt
      <3>2. NewInfo(rt, e \in graph.async, Undefined, graph.modules[e]) \in InfoType
        BY <2>1, <2>2 DEF NewInfo, InfoType
      <3> QED
        BY <2>4, <3>1, <3>2 DEF NewInfo
    <2> QED
      BY <2>3, <2>4
  <1>3. InfoInv
    <2>1. info \in [Entry -> InfoType]
      <3>1. info = [e \in Entry |-> info[e]]
        BY DEF ChunkInit
      <3> QED
        BY <1>2, <3>1
    <2> QED
      BY <1>0, <1>1, <2>1 DEF InfoInv, Group
  <1>4. OtherTypes
    <2>1. created \in Seq(Block)
      BY EmptySeq DEF ChunkInit
    <2> QED
      BY <2>1 DEF ChunkInit, OtherTypes, Phases, Nobody
  <1>5. GroupsInv
    <2>1. DOMAIN blockGroup = {} /\ DOMAIN named = {}
      <3>1. DOMAIN <<>> = {}
        OBVIOUS
      <3> QED
        BY <3>1 DEF ChunkInit
    <2>2. \A g \in Groups : info[g].children = {}
      BY <1>1, <1>2
    <2> QED
      BY <2>1, <2>2 DEF ChunkInit, GroupsInv
  <1>6. QueueInv
    <2>1. {e \in Entry : graph.dependOn[e] = {}} \subseteq Knowing
      <3>1. {} # Undefined
        BY SetsAreNot
      <3> QED
        BY <1>1, <1>2, <3>1 DEF Knowing, Knows
    <2>2. queue \in Seq(ItemsOf(Knowing))
      BY <2>1, InitQueue, MoreItems
    <2>3. delayed = <<>> /\ phase = "visit"
      BY DEF ChunkInit
    <2> QED
      BY <2>2, <2>3, EmptySeq DEF QueueInv
  <1>7. KnownInv
    BY DEF ChunkInit, KnownInv
  <1>8. ResultInv
    BY <1>1, <1>2 DEF ChunkInit, ResultInv
  <1> QED
    BY <1>3, <1>4, <1>5, <1>6, <1>7, <1>8 DEF ChunkInv

(***************************************************************************)
(* Chunk groups: the steps that leave the information as it is.            *)
(***************************************************************************)

LEMMA SameInfo ==
    ASSUME UNCHANGED <<graph, info, connect>>
    PROVE  /\ Groups' = Groups /\ Knowing' = Knowing /\ Promised' = Promised
           /\ \A g : Knows(g)' = Knows(g) /\ Offered(g)' = Offered(g)
           /\ \A g : Connects(g)' = Connects(g)
           /\ InfoInv => InfoInv'
  BY DEF Groups, Knowing, Promised, Knows, Offered, Awaits, Connects, InfoInv

LEMMA KnowingIsPromised == Knowing \subseteq Promised
  BY DEF Knowing, Promised

LEMMA AnyDelayed ==
    ASSUME QueueInv
    PROVE  delayed \in Seq(ItemsOf(Promised))
  <1>1. CASE phase = "revisit"
    BY <1>1, KnowingIsPromised, MoreItems DEF QueueInv
  <1>2. CASE phase # "revisit"
    BY <1>2 DEF QueueInv
  <1> QED
    BY <1>1, <1>2

LEMMA VisitEndStep == ASSUME ChunkInv, VisitEnd PROVE ChunkInv'
  <1> USE DEF ChunkInv
  <1>0. /\ UNCHANGED <<graph, info, connect>>
        /\ UNCHANGED <<queue, delayed, blockGroup, named, connections, nested, outdated>>
        /\ UNCHANGED <<created, parents, connected, page, imported>>
        /\ phase = "visit" /\ phase' = "combine"
        /\ combining' = {e \in combining :
                            \A p \in graph.dependOn[e] : info[p].min # Undefined}
    BY DEF VisitEnd, result, runtime
  <1>1. InfoInv'
    BY <1>0, SameInfo
  <1>2. OtherTypes'
    BY <1>0 DEF OtherTypes, Phases
  <1>3. GroupsInv'
    BY <1>0, SameInfo DEF GroupsInv
  <1>4. QueueInv'
    BY <1>0, SameInfo DEF QueueInv
  <1>5. KnownInv'
    BY <1>0 DEF KnownInv, Knows, Offered
  <1>6. ResultInv'
    BY <1>0, SameInfo DEF ResultInv
  <1> QED
    BY <1>1, <1>2, <1>3, <1>4, <1>5, <1>6

LEMMA NextRoundStep == ASSUME ChunkInv, NextRound PROVE ChunkInv'
  <1> USE DEF ChunkInv
  <1>0. /\ UNCHANGED <<graph, info, connect>>
        /\ UNCHANGED <<blockGroup, named, connections, nested, combining, outdated>>
        /\ UNCHANGED <<created, parents, connected, page, imported>>
        /\ phase = "revisit" /\ outdated = {}
        /\ phase' = "visit" \/ (phase' = "connect" /\ connect = {})
        /\ queue' = IF queue = <<>> THEN Reverse(delayed) ELSE queue
        /\ delayed' = IF queue = <<>> THEN <<>> ELSE delayed
    BY DEF NextRound, result, runtime
  <1>1. InfoInv'
    BY <1>0, SameInfo
  <1>2. OtherTypes'
    BY <1>0 DEF OtherTypes, Phases
  <1>3. GroupsInv'
    BY <1>0, SameInfo DEF GroupsInv
  <1>4. QueueInv'
    <2>1. queue \in Seq(ItemsOf(Knowing)) /\ delayed \in Seq(ItemsOf(Knowing))
      BY <1>0 DEF QueueInv
    <2>2. queue' \in Seq(ItemsOf(Knowing))
      BY <1>0, <2>1, ReverseFacts
    <2>3. delayed' \in Seq(ItemsOf(Promised))
      <3>1. delayed \in Seq(ItemsOf(Promised)) /\ <<>> \in Seq(ItemsOf(Promised))
        BY AnyDelayed, EmptySeq
      <3> QED
        BY <1>0, <3>1
    <2> QED
      BY <1>0, <2>2, <2>3, SameInfo DEF QueueInv
  <1>5. KnownInv'
    BY <1>0, SameInfo DEF KnownInv
  <1>6. ResultInv'
    BY <1>0, SameInfo DEF ResultInv
  <1> QED
    BY <1>1, <1>2, <1>3, <1>4, <1>5, <1>6

\* The end of the build, and the page: nothing of the traversal changes.
LEMMA AfterwardsStep ==
    ASSUME ChunkInv, UNCHANGED <<graph, traversal>>,
           \/ phase' = phase
           \/ phase \notin {"combine", "revisit"} /\ phase' \in {"cleanup", "built"},
           OtherTypes'
    PROVE  ChunkInv'
  <1> USE DEF ChunkInv
  <1>0. /\ UNCHANGED <<graph, info, connect>>
        /\ UNCHANGED <<queue, delayed, blockGroup, named, connections, nested, combining,
                       outdated>>
    BY DEF traversal
  <1>1. InfoInv'
    BY <1>0, SameInfo
  <1>3. GroupsInv'
    BY <1>0, SameInfo DEF GroupsInv
  <1>4. QueueInv'
    <2>1. phase = "revisit" <=> phase' = "revisit"
      OBVIOUS
    <2> QED
      BY <1>0, <2>1, SameInfo DEF QueueInv
  <1>5. KnownInv'
    BY <1>0, SameInfo DEF KnownInv
  <1>6. ResultInv'
    BY <1>0, SameInfo DEF ResultInv
  <1> QED
    BY <1>1, <1>3, <1>4, <1>5, <1>6

LEMMA BuiltStep ==
    ASSUME ChunkInv, ConnectChunkGroups \/ Cleanup \/ CleanupEnd
    PROVE  ChunkInv'
  <1> USE DEF ChunkInv
  <1>0. /\ UNCHANGED <<graph, traversal, page, imported>>
        /\ phase \notin {"combine", "revisit"} /\ phase' \in {"cleanup", "built"}
    BY DEF ConnectChunkGroups, Cleanup, CleanupEnd, runtime
  <1>1. UNCHANGED <<nested, combining>>
    BY <1>0 DEF traversal
  <1>2. created' \in Seq(Block)
    <2>1. CASE ConnectChunkGroups \/ CleanupEnd
      BY <2>1 DEF ConnectChunkGroups, CleanupEnd, result, OtherTypes
    <2>2. CASE Cleanup
      <3>1. created \in Seq(Block) /\ created # <<>> /\ created' = Tail(created)
        BY <2>2 DEF Cleanup, OtherTypes
      <3> QED
        BY <3>1, HeadTailProperties
    <2> QED
      BY <2>1, <2>2
  <1>3. parents' \subseteq Group \X Group /\ connected' \subseteq Block
    <2>1. CASE ConnectChunkGroups
      <3>1. connections \subseteq Block \X Group \X Group
        BY DEF GroupsInv, InfoInv
      <3>2. connected' \subseteq {c[1] : c \in connections}
        BY <2>1 DEF ConnectChunkGroups
      <3>3. \A c \in connections : c[1] \in Block /\ c[2] \in Group /\ c[3] \in Group
        BY <3>1
      <3>4. {<<c[2], c[3]>> : c \in {x \in connections : x[1] \in connected'}}
                \subseteq Group \X Group
        BY <3>3
      <3>5. {p \in Entry \X Entry : p[1] \in graph.dependOn[p[2]]} \subseteq Group \X Group
        BY DEF Group
      <3> QED
        BY <2>1, <3>2, <3>3, <3>4, <3>5 DEF ConnectChunkGroups
    <2>2. CASE Cleanup
      <3>1. parents' \subseteq parents /\ connected' \subseteq connected
        BY <2>2 DEF Cleanup
      <3> QED
        BY <3>1 DEF OtherTypes
    <2>3. CASE CleanupEnd
      BY <2>3 DEF CleanupEnd, result, OtherTypes
    <2> QED
      BY <2>1, <2>2, <2>3
  <1>4. OtherTypes'
    BY <1>0, <1>1, <1>2, <1>3 DEF OtherTypes, Phases
  <1> QED
    BY <1>0, <1>4, AfterwardsStep DEF Phases

LEMMA PageStep ==
    ASSUME ChunkInv, (\E e \in Entry : Open(e)) \/ (\E b \in Block : Import(b))
    PROVE  ChunkInv'
  <1> USE DEF ChunkInv
  <1>1. UNCHANGED <<graph, traversal, phase, result>>
    BY DEF Open, Import
  <1>2. page' \in Entry \cup {Nobody} /\ imported' \subseteq Block
    BY DEF Open, Import, OtherTypes
  <1>3. OtherTypes'
    BY <1>1, <1>2 DEF OtherTypes, traversal, result
  <1> QED
    BY <1>1, <1>3, AfterwardsStep DEF Phases

(***************************************************************************)
(* Chunk groups: combining, connecting, merging.                           *)
(***************************************************************************)

LEMMA ResultingFacts ==
    ASSUME NEW i \in InfoType, i.min # Undefined
    PROVE  Resulting(i) \in SUBSET Module /\ Resulting(i) \in ModuleSets
           /\ Resulting(i) # Undefined
  <1>1. i.min \in SUBSET Module /\ i.modules \in SUBSET Module /\ i.resulting \in ModuleSets
    BY DEF InfoType, ModuleSets
  <1>2. Resulting(i) \in SUBSET Module
    BY <1>1 DEF Resulting, ModuleSets
  <1> QED
    BY <1>2, SetsAreNot DEF ModuleSets

\* A step that keeps the groups and what they know keeps what is promised in the queues.
LEMMA QueuesKept ==
    ASSUME InfoInv, QueueInv, Groups' = Groups,
           UNCHANGED <<queue, delayed, phase>>, phase # "revisit",
           \A g \in Groups : Knows(g) => Knows(g)',
           \A g \in Promised : g \in Promised'
    PROVE  QueueInv'
  <1>1. Knowing \subseteq Knowing'
    BY DEF Knowing
  <1>2. Promised \subseteq Promised'
    OBVIOUS
  <1>3. queue \in Seq(ItemsOf(Knowing')) /\ delayed \in Seq(ItemsOf(Promised'))
    BY <1>1, <1>2, MoreItems DEF QueueInv
  <1> QED
    BY <1>3 DEF QueueInv

LEMMA CombineEffect ==
    ASSUME ChunkInv, NEW e \in Entry, Combine(e)
    PROVE  /\ Groups' = Groups
           /\ \A g \in Groups :
                /\ info'[g] \in InfoType
                /\ info'[g].children = info[g].children
                /\ info'[g].toMerge = info[g].toMerge
                /\ IF g = e THEN info'[g].min # Undefined ELSE info'[g].min = info[g].min
                /\ g # e => info'[g].resulting = info[g].resulting
                            \/ info'[g].resulting # Undefined
  <1> USE DEF ChunkInv
  <1> DEFINE sources == graph.dependOn[e]
             all == UNION {Resulting(info[p]) : p \in sources}
             known == [g \in DOMAIN info |->
                IF g \in sources THEN [info[g] EXCEPT !.resulting = Resulting(info[g])]
                ELSE info[g]]
  <1>1. info' = [known EXCEPT ![e].min = all, ![e].resulting = Undefined]
    BY DEF Combine
  <1>2. \A g \in Groups : info[g] \in InfoType
    BY DEF InfoInv
  <1>3. sources \subseteq Entry /\ Entry \subseteq Groups /\ \A p \in sources : Knows(p)
    BY GraphFacts DEF Combine, InfoInv, KnownInv
  <1>4. \A p \in sources : Resulting(info[p]) \in SUBSET Module
                           /\ Resulting(info[p]) \in ModuleSets
                           /\ Resulting(info[p]) # Undefined
    BY <1>2, <1>3, ResultingFacts DEF Knows
  <1>5. all \in SUBSET Module
    BY <1>4
  <1>6. all \in ModuleSets /\ all # Undefined /\ Undefined \in ModuleSets
    BY <1>5, SetsAreNot DEF ModuleSets
  <1> HIDE DEF all, sources
  <1>7. DOMAIN known = Groups
    BY DEF Groups
  <1>8. ASSUME NEW g \in Groups
        PROVE  /\ known[g] \in InfoType
               /\ known[g].children = info[g].children
               /\ known[g].toMerge = info[g].toMerge
               /\ known[g].min = info[g].min
               /\ known[g].resulting = info[g].resulting \/ known[g].resulting # Undefined
    <2>1. CASE g \in sources
      <3>1. known[g] = [info[g] EXCEPT !.resulting = Resulting(info[g])]
        BY <2>1 DEF Groups
      <3> HIDE DEF known
      <3>2. known[g] \in InfoType
        BY <1>2, <1>4, <2>1, <3>1 DEF InfoType
      <3> QED
        BY <1>2, <1>4, <2>1, <3>1, <3>2 DEF InfoType
    <2>2. CASE g \notin sources
      <3>1. known[g] = info[g]
        BY <2>2 DEF Groups
      <3> HIDE DEF known
      <3> QED
        BY <1>2, <3>1
    <2> QED
      BY <2>1, <2>2
  <1> HIDE DEF known
  <1>9. Groups' = Groups
    BY <1>1, <1>7 DEF Groups
  <1>10. ASSUME NEW g \in Groups, g # e PROVE info'[g] = known[g]
    BY <1>1, <1>7, <1>10
  <1>11. info'[e] = [known[e] EXCEPT !.min = all, !.resulting = Undefined] /\ e \in Groups
    BY <1>1, <1>3, <1>7
  <1>12. info'[e] \in InfoType
    <2>1. known[e] \in InfoType
      BY <1>8, <1>11
    <2> QED
      BY <1>6, <1>11, <2>1 DEF InfoType
  <1>13. /\ info'[e].children = info[e].children
         /\ info'[e].toMerge = info[e].toMerge
         /\ info'[e].min = all
    <2>1. known[e] \in InfoType /\ known[e].children = info[e].children
          /\ known[e].toMerge = info[e].toMerge
      BY <1>8, <1>11
    <2>2. info'[e].children = known[e].children
      BY <1>11, <2>1 DEF InfoType
    <2>3. info'[e].toMerge = known[e].toMerge
      BY <1>11, <2>1 DEF InfoType
    <2>4. info'[e].min = all
      BY <1>11, <2>1 DEF InfoType
    <2> QED
      BY <2>1, <2>2, <2>3, <2>4
  <1> QED
    BY <1>6, <1>8, <1>9, <1>10, <1>12, <1>13

LEMMA CombineStep == ASSUME ChunkInv, NEW e \in Entry, Combine(e) PROVE ChunkInv'
  <1> USE DEF ChunkInv
  <1>0. /\ UNCHANGED <<graph, queue, delayed, blockGroup, named, connections, nested, connect>>
        /\ UNCHANGED <<phase, created, parents, connected, page, imported>>
        /\ phase = "combine"
        /\ outdated' = outdated \cup {e} /\ combining' = combining \ {e}
    BY DEF Combine, result, runtime
  <1>1. /\ Groups' = Groups
        /\ \A g \in Groups : info'[g].children = info[g].children
        /\ \A g \in Groups : info'[g].toMerge = info[g].toMerge
        /\ info'[e].min # Undefined
        /\ \A g \in Groups : g # e => info'[g].min = info[g].min
        /\ \A g \in Groups : g # e => info'[g].resulting = info[g].resulting
                                      \/ info'[g].resulting # Undefined
        /\ \A g \in Groups : info'[g] \in InfoType
        /\ e \in Groups
    BY CombineEffect DEF InfoInv
  <1>2. info' \in [Groups -> InfoType]
    <2>1. DOMAIN info' = Groups /\ info' = [g \in DOMAIN info' |-> info'[g]]
      BY <1>1 DEF Combine, Groups
    <2> QED
      BY <1>1, <2>1
  <1>3. InfoInv'
    BY <1>0, <1>1, <1>2 DEF InfoInv
  <1>4. OtherTypes'
    BY <1>0 DEF OtherTypes
  <1>5. GroupsInv'
    BY <1>0, <1>1 DEF GroupsInv
  <1>6. \A g \in Groups : /\ Knows(g) => Knows(g)'
                          /\ Offered(g)' = Offered(g)
                          /\ Connects(g)' = Connects(g)
                          /\ Awaits(g)' = Awaits(g)
    BY <1>0, <1>1 DEF Knows, Offered, Connects, Awaits
  <1>7. QueueInv'
    BY <1>0, <1>1, <1>6, QueuesKept DEF Promised
  <1>8. KnownInv'
    <2>1. Knows(e)'
      BY <1>1 DEF Knows
    <2>2. \A e1 \in combining : \A p \in graph.dependOn[e1] : p \in Groups
      BY GraphFacts DEF InfoInv, OtherTypes
    <2>3. \A pair \in connect : pair[1] \in Groups
      BY DEF GroupsInv
    <2> QED
      BY <1>0, <1>1, <1>6, <2>1, <2>2, <2>3 DEF KnownInv, GroupsInv
  <1>9. ResultInv'
    <2>1. \A c \in connections : c[2] \in Groups
      BY DEF GroupsInv
    <2> QED
      BY <1>0, <1>1, <1>6, <2>1 DEF ResultInv
  <1> QED
    BY <1>3, <1>4, <1>5, <1>7, <1>8, <1>9

LEMMA ConnectEffect ==
    ASSUME ChunkInv, NEW g \in Group, Connect(g)
    PROVE  LET targets == {h \in DOMAIN info : <<g, h>> \in connect}
           IN  /\ g \in Groups /\ targets # {} /\ Groups' = Groups
               /\ info' \in [Groups -> InfoType]
               /\ \A h \in Groups :
                    /\ info'[h].min = info[h].min
                    /\ info'[h].children = IF h = g THEN info[h].children \cup targets
                                           ELSE info[h].children
                    /\ IF h \in targets THEN info'[h].toMerge # {}
                       ELSE info'[h].toMerge = info[h].toMerge
                    /\ IF h = g THEN info'[h].resulting # Undefined
                       ELSE info'[h].resulting = info[h].resulting
  <1> USE DEF ChunkInv
  <1> DEFINE targets == {h \in DOMAIN info : <<g, h>> \in connect}
             available == Resulting(info[g])
             rt == info[g].runtime
             Hand(i) == [i EXCEPT !.toMerge = @ \cup {available}, !.runtime = @ \cup rt]
             From(i) == [i EXCEPT !.children = @ \cup targets, !.resulting = available]
             mid == [h \in Groups |-> IF h = g THEN From(info[h]) ELSE info[h]]
  <1>1. info' = [h \in DOMAIN info |->
            LET i == IF h = g THEN From(info[h]) ELSE info[h]
            IN  IF h \in targets THEN Hand(i) ELSE i]
    BY DEF Connect
  <1>2. PICK pair \in connect : pair[1] = g
    BY DEF Connect
  <1>3. pair \in Groups \X Groups
    BY DEF GroupsInv
  <1>4. g \in Groups /\ pair[2] \in Groups /\ pair = <<g, pair[2]>> /\ Knows(g)
    BY <1>2, <1>3 DEF KnownInv
  <1>5. targets # {} /\ targets \subseteq Groups /\ targets \in SUBSET Group
    BY <1>2, <1>4 DEF Groups, InfoInv
  <1>6. \A h \in Groups : info[h] \in InfoType
    BY DEF InfoInv
  <1>7. available \in SUBSET Module /\ available \in ModuleSets /\ available # Undefined
    BY <1>4, <1>6, ResultingFacts DEF Knows
  <1>8. rt \in SUBSET Entry
    BY <1>4, <1>6 DEF InfoType
  <1>9. \A h \in Groups : info'[h] = IF h \in targets THEN Hand(mid[h]) ELSE mid[h]
    BY <1>1 DEF Groups
  <1>10. DOMAIN info' = DOMAIN info
    BY <1>1
  <1>11. info' = [h \in DOMAIN info' |-> info'[h]]
    BY <1>1
  <1> HIDE DEF targets, available, rt
  <1>12. ASSUME NEW h \in Groups
         PROVE  /\ mid[h] \in InfoType
                /\ mid[h].min = info[h].min
                /\ mid[h].toMerge = info[h].toMerge
                /\ mid[h].children = IF h = g THEN info[h].children \cup targets
                                     ELSE info[h].children
                /\ IF h = g THEN mid[h].resulting # Undefined
                   ELSE mid[h].resulting = info[h].resulting
    <2>1. CASE h = g
      <3>0. info[g] \in InfoType
        BY <1>4, <1>6
      <3>1. mid[h] = [info[g] EXCEPT !.children = @ \cup targets, !.resulting = available]
        BY <2>1
      <3> HIDE DEF mid
      <3>2. mid[h] \in InfoType
        <4>1. info[g].children \cup targets \in SUBSET Group
          BY <1>5, <3>0 DEF InfoType
        <4> QED
          BY <1>7, <3>0, <3>1, <4>1 DEF InfoType
      <3>3. mid[h].min = info[h].min
        BY <2>1, <3>0, <3>1 DEF InfoType
      <3>4. mid[h].toMerge = info[h].toMerge
        BY <2>1, <3>0, <3>1 DEF InfoType
      <3>5. mid[h].children = info[h].children \cup targets
        BY <2>1, <3>0, <3>1 DEF InfoType
      <3>6. mid[h].resulting = available
        BY <2>1, <3>0, <3>1 DEF InfoType
      <3> QED
        BY <1>7, <2>1, <3>2, <3>3, <3>4, <3>5, <3>6
    <2>2. CASE h # g
      <3>1. mid[h] = info[h]
        BY <2>2
      <3> HIDE DEF mid
      <3> QED
        BY <1>6, <2>2, <3>1
    <2> QED
      BY <2>1, <2>2
  <1> HIDE DEF mid
  <1>13. ASSUME NEW h \in Groups
         PROVE  /\ info'[h] \in InfoType
                /\ info'[h].min = mid[h].min
                /\ info'[h].children = mid[h].children
                /\ info'[h].resulting = mid[h].resulting
                /\ IF h \in targets THEN info'[h].toMerge # {}
                   ELSE info'[h].toMerge = mid[h].toMerge
    <2>0. mid[h] \in InfoType
      BY <1>12
    <2>1. CASE h \in targets
      <3>1. info'[h] = [mid[h] EXCEPT !.toMerge = @ \cup {available}, !.runtime = @ \cup rt]
        BY <1>9, <2>1
      <3>2. info'[h] \in InfoType
        <4>1. mid[h].toMerge \cup {available} \in SUBSET SUBSET Module
              /\ mid[h].runtime \cup rt \in SUBSET Entry
          BY <1>7, <1>8, <2>0 DEF InfoType
        <4> QED
          BY <2>0, <3>1, <4>1 DEF InfoType
      <3>3. info'[h].min = mid[h].min
        BY <2>0, <3>1 DEF InfoType
      <3>4. info'[h].children = mid[h].children
        BY <2>0, <3>1 DEF InfoType
      <3>5. info'[h].resulting = mid[h].resulting
        BY <2>0, <3>1 DEF InfoType
      <3>6. info'[h].toMerge = mid[h].toMerge \cup {available}
        BY <2>0, <3>1 DEF InfoType
      <3> QED
        BY <2>1, <3>2, <3>3, <3>4, <3>5, <3>6
    <2>2. CASE h \notin targets
      <3>1. info'[h] = mid[h]
        BY <1>9, <2>2
      <3> QED
        BY <2>0, <2>2, <3>1
    <2> QED
      BY <2>1, <2>2
  <1>14. Groups' = Groups
    BY <1>10 DEF Groups
  <1>15. info' \in [Groups -> InfoType]
    BY <1>11, <1>13, <1>14 DEF Groups
  <1>16. ASSUME NEW h \in Groups
         PROVE  /\ info'[h].min = info[h].min
                /\ info'[h].children = IF h = g THEN info[h].children \cup targets
                                       ELSE info[h].children
                /\ IF h \in targets THEN info'[h].toMerge # {}
                   ELSE info'[h].toMerge = info[h].toMerge
                /\ IF h = g THEN info'[h].resulting # Undefined
                   ELSE info'[h].resulting = info[h].resulting
    BY <1>12, <1>13
  <1> QED
    BY <1>4, <1>5, <1>14, <1>15, <1>16 DEF targets

LEMMA ConnectStep == ASSUME ChunkInv, NEW g \in Group, Connect(g) PROVE ChunkInv'
  <1> USE DEF ChunkInv
  <1> DEFINE targets == {h \in DOMAIN info : <<g, h>> \in connect}
  <1>0. /\ UNCHANGED <<graph, queue, delayed, blockGroup, named, connections, nested>>
        /\ UNCHANGED <<combining, phase, created, parents, connected, page, imported>>
        /\ phase = "combine" /\ combining = {}
        /\ connect' = {pair \in connect : pair[1] # g}
        /\ outdated \subseteq outdated' /\ outdated' \subseteq outdated \cup targets
    BY DEF Connect, result, runtime
  <1>1. /\ g \in Groups /\ targets # {} /\ Groups' = Groups
        /\ info' \in [Groups -> InfoType]
        /\ \A h \in Groups :
             /\ info'[h].min = info[h].min
             /\ info'[h].children = IF h = g THEN info[h].children \cup targets
                                    ELSE info[h].children
             /\ IF h \in targets THEN info'[h].toMerge # {}
                ELSE info'[h].toMerge = info[h].toMerge
             /\ IF h = g THEN info'[h].resulting # Undefined
                ELSE info'[h].resulting = info[h].resulting
    BY ConnectEffect
  <1>2. targets \subseteq Groups /\ \A h \in Groups : <<g, h>> \in connect => h \in targets
    BY DEF Groups
  <1> HIDE DEF targets
  <1>3. InfoInv'
    BY <1>0, <1>1 DEF InfoInv
  <1>4. OtherTypes'
    BY <1>0 DEF OtherTypes
  <1>5. GroupsInv'
    <2>1. \A h \in Groups : info'[h].children \subseteq Groups
      BY <1>1, <1>2 DEF GroupsInv
    <2> QED
      BY <1>0, <1>1, <1>2, <2>1 DEF GroupsInv
  <1>6. \A h \in Groups : /\ Knows(h) <=> Knows(h)'
                          /\ Offered(h) => Offered(h)'
                          /\ h \in targets => Offered(h)'
                          /\ Connects(h) => Connects(h)' \/ h = g
    BY <1>0, <1>1 DEF Knows, Offered, Connects
  <1>7. ASSUME NEW h \in Groups, Awaits(h) PROVE Awaits(h)' \/ Offered(h)'
    <2>1. PICK pair \in connect : pair[2] = h
      BY <1>7 DEF Awaits
    <2>2. pair = <<pair[1], pair[2]>>
      BY DEF GroupsInv
    <2>3. CASE pair[1] = g
      <3>1. h \in targets
        BY <1>2, <2>1, <2>2, <2>3
      <3> QED
        BY <1>6, <3>1
    <2>4. CASE pair[1] # g
      BY <1>0, <2>1, <2>4 DEF Awaits
    <2> QED
      BY <2>3, <2>4
  <1>8. QueueInv'
    <2>1. \A h \in Promised : h \in Promised'
      BY <1>1, <1>6, <1>7 DEF Promised
    <2> QED
      BY <1>0, <1>1, <1>6, <2>1, QueuesKept
  <1>9. KnownInv'
    <2>1. \A pair \in connect : pair[1] \in Groups
      BY DEF GroupsInv
    <2>2. outdated \subseteq Groups
      BY DEF GroupsInv
    <2> QED
      BY <1>0, <1>2, <1>6, <2>1, <2>2 DEF KnownInv
  <1>10. ResultInv'
    <2>1. ASSUME NEW c \in connections PROVE Connects(c[2])' \/ info'[c[2]].children # {}
      <3>1. c[2] \in Groups
        BY DEF GroupsInv
      <3>2. Connects(c[2]) \/ info[c[2]].children # {}
        BY DEF ResultInv
      <3>3. info'[c[2]].children = IF c[2] = g THEN info[c[2]].children \cup targets
                                   ELSE info[c[2]].children
        BY <1>1, <3>1
      <3> QED
        BY <1>1, <1>6, <3>1, <3>2, <3>3
    <2>2. ASSUME NEW h \in Groups, info'[h].children # {}
          PROVE  info'[h].resulting # Undefined \/ h \in outdated' \/ Connects(h)'
      <3>1. CASE h = g
        BY <1>1, <3>1
      <3>2. CASE h # g
        <4>1. info[h].children # {} /\ info'[h].resulting = info[h].resulting
          BY <1>1, <2>2, <3>2
        <4> QED
          BY <1>0, <1>6, <3>2, <4>1 DEF ResultInv
      <3> QED
        BY <3>1, <3>2
    <2> QED
      BY <1>0, <1>1, <2>1, <2>2 DEF ResultInv
  <1> QED
    BY <1>3, <1>4, <1>5, <1>8, <1>9, <1>10

LEMMA MergedFacts ==
    ASSUME NEW i \in InfoType
    PROVE  /\ Merged(i) \in InfoType
           /\ Merged(i).children = i.children
           /\ i.toMerge # {} \/ i.min # Undefined => Merged(i).min # Undefined
           /\ Merged(i).min # i.min => i.toMerge # {}
           /\ Merged(i).min = i.min => Merged(i).resulting = i.resulting
  <1> DEFINE sets == i.toMerge \cup ({i.min} \ {Undefined})
             min == Intersection(sets)
  <1>1. i.toMerge \in SUBSET SUBSET Module /\ i.min \in ModuleSets
    BY DEF InfoType
  <1>2. sets \subseteq SUBSET Module
    BY <1>1 DEF ModuleSets
  <1>3. min \in SUBSET Module
    BY <1>2 DEF Intersection
  <1> HIDE DEF sets
  <1>4. min \in ModuleSets /\ Undefined \in ModuleSets /\ min # Undefined
    BY <1>3, SetsAreNot DEF ModuleSets
  <1>5. Merged(i) = IF i.toMerge = {} \/ min = i.min THEN [i EXCEPT !.toMerge = {}]
                    ELSE [i EXCEPT !.toMerge = {}, !.min = min, !.resulting = Undefined]
    BY Zenon DEF Merged, sets
  <1> HIDE DEF min
  <1> DEFINE r == Merged(i)
  <1>6. CASE i.toMerge = {} \/ min = i.min
    <2>1. r = [i EXCEPT !.toMerge = {}]
      BY <1>5, <1>6
    <2> HIDE DEF r
    <2>2. r \in InfoType
      BY <2>1 DEF InfoType
    <2>3. r.children = i.children /\ r.min = i.min /\ r.resulting = i.resulting
      BY <2>1 DEF InfoType
    <2>4. i.toMerge # {} => i.min # Undefined
      BY <1>4, <1>6
    <2>5. /\ r \in InfoType /\ r.children = i.children
          /\ i.toMerge # {} \/ i.min # Undefined => r.min # Undefined
          /\ r.min # i.min => i.toMerge # {}
          /\ r.min = i.min => r.resulting = i.resulting
      BY <2>2, <2>3, <2>4
    <2> QED
      BY <2>5 DEF r
  <1>7. CASE i.toMerge # {} /\ min # i.min
    <2>1. r = [i EXCEPT !.toMerge = {}, !.min = min, !.resulting = Undefined]
      BY <1>5, <1>7
    <2> HIDE DEF r
    <2>2. r \in InfoType
      BY <1>4, <2>1 DEF InfoType
    <2>3. r.children = i.children
      BY <2>1 DEF InfoType
    <2>4. r.min = min
      BY <2>1 DEF InfoType
    <2>5. /\ r \in InfoType /\ r.children = i.children
          /\ i.toMerge # {} \/ i.min # Undefined => r.min # Undefined
          /\ r.min # i.min => i.toMerge # {}
          /\ r.min = i.min => r.resulting = i.resulting
      BY <1>4, <1>7, <2>2, <2>3, <2>4
    <2> QED
      BY <2>5 DEF r
  <1> QED
    BY <1>6, <1>7

LEMMA MergeStep == ASSUME ChunkInv, Merge PROVE ChunkInv'
  <1> USE DEF ChunkInv
  <1>0. /\ UNCHANGED <<graph, queue, delayed, blockGroup, named, connections, nested, connect>>
        /\ UNCHANGED <<combining, created, parents, connected, page, imported>>
        /\ phase = "combine" /\ phase' = "revisit" /\ connect = {}
        /\ info' = [g \in DOMAIN info |-> Merged(info[g])]
        /\ outdated' = outdated \cup {g \in DOMAIN info : info'[g].min # info[g].min}
    BY DEF Merge, EndMerge, result, runtime
  <1>1. Groups' = Groups /\ \A g \in Groups : info[g] \in InfoType /\ info'[g] = Merged(info[g])
    BY <1>0 DEF Groups, InfoInv
  <1>2. ASSUME NEW g \in Groups
        PROVE  /\ info'[g] \in InfoType
               /\ info'[g].children = info[g].children
               /\ Offered(g) \/ Knows(g) => Knows(g)'
               /\ info'[g].min # info[g].min => Offered(g) /\ g \in outdated'
               /\ info'[g].min = info[g].min => info'[g].resulting = info[g].resulting
    <2>1. info'[g].min # info[g].min => g \in outdated'
      BY <1>0 DEF Groups
    <2> DEFINE i == info[g]
    <2>2. i \in InfoType /\ info'[g] = Merged(i)
      BY <1>1
    <2>3. /\ Merged(i) \in InfoType
          /\ Merged(i).children = i.children
          /\ i.toMerge # {} \/ i.min # Undefined => Merged(i).min # Undefined
          /\ Merged(i).min # i.min => i.toMerge # {}
          /\ Merged(i).min = i.min => Merged(i).resulting = i.resulting
      BY <2>2, MergedFacts
    <2>4. Knows(g) = (i.min # Undefined) /\ Offered(g) = (i.toMerge # {})
          /\ Knows(g)' = (info'[g].min # Undefined)
      BY DEF Knows, Offered
    <2> HIDE DEF i
    <2>5. /\ info'[g] \in InfoType
          /\ info'[g].children = i.children
          /\ Offered(g) \/ Knows(g) => Knows(g)'
          /\ info'[g].min # i.min => Offered(g)
          /\ info'[g].min = i.min => info'[g].resulting = i.resulting
      BY <2>2, <2>3, <2>4
    <2> QED
      BY <2>1, <2>5 DEF i
  <1>3. InfoInv'
    <2>1. info' \in [Groups -> InfoType]
      <3>1. info' = [g \in Groups |-> info'[g]]
        BY <1>0 DEF Groups
      <3> QED
        BY <1>2, <3>1
    <2> QED
      BY <1>0, <1>1, <2>1 DEF InfoInv
  <1>4. OtherTypes'
    BY <1>0 DEF OtherTypes, Phases
  <1>5. GroupsInv'
    <2>1. outdated' \subseteq Groups
      BY <1>0 DEF GroupsInv, Groups
    <2> QED
      BY <1>0, <1>1, <1>2, <2>1 DEF GroupsInv
  <1>6. QueueInv'
    <2>1. Promised \subseteq Knowing' /\ Knowing \subseteq Knowing'
      BY <1>0, <1>1, <1>2 DEF Promised, Knowing, Awaits
    <2> QED
      BY <1>0, <2>1, MoreItems DEF QueueInv
  <1>7. KnownInv'
    <2>1. \A g \in outdated' : Knows(g)'
      <3>1. \A g \in outdated : g \in Groups /\ (Knows(g) \/ Offered(g))
        BY DEF GroupsInv, KnownInv
      <3>2. \A g \in outdated' : g \in outdated
                                 \/ (g \in Groups /\ info'[g].min # info[g].min)
        BY <1>0 DEF Groups
      <3> QED
        BY <1>2, <3>1, <3>2
    <2> QED
      BY <1>0, <2>1 DEF KnownInv
  <1>8. ResultInv'
    <2>1. \A c \in connections : c[2] \in Groups
      BY DEF GroupsInv
    <2>2. \A g : Connects(g)' = Connects(g)
      BY <1>0 DEF Connects
    <2>3. ASSUME NEW g \in Groups, info'[g].children # {}
          PROVE  info'[g].resulting # Undefined \/ g \in outdated' \/ Connects(g)'
      BY <1>0, <1>2, <2>2, <2>3 DEF ResultInv
    <2> QED
      BY <1>0, <1>1, <1>2, <2>1, <2>2, <2>3 DEF ResultInv
  <1> QED
    BY <1>3, <1>4, <1>5, <1>6, <1>7, <1>8

(***************************************************************************)
(* Chunk groups: revisiting and visiting.                                  *)
(***************************************************************************)

\* A queue that gets the items of a group.
LEMMA ItemsAdded ==
    ASSUME NEW groups, NEW g \in groups, NEW enter \in BOOLEAN,
           NEW blocks \in SUBSET (Module \cup Block), enter => blocks \subseteq Module,
           NEW q \in Seq(ItemsOf(groups))
    PROVE  q \o Items(enter, blocks, g) \in Seq(ItemsOf(groups))
  BY ItemsFacts, ConcatProperties

LEMMA RevisitStep == ASSUME ChunkInv, NEW g \in Group, Revisit(g) PROVE ChunkInv'
  <1> USE DEF ChunkInv
  <1> DEFINE i == info[g]
             again == i.skipped \ i.min
  <1>0. /\ UNCHANGED <<graph, delayed, blockGroup, named, connections, nested>>
        /\ UNCHANGED <<phase, created, parents, connected, page, imported>>
        /\ phase = "revisit" /\ g \in outdated
        /\ queue' = queue \o Items(TRUE, again, g) \o Items(FALSE, i.transitive, g)
        /\ info' = [info EXCEPT ![g].skipped = @ \ again]
        /\ connect' = connect \cup {<<g, h>> : h \in i.children}
        /\ combining' = combining \cup {e \in Entry : g \in graph.dependOn[e]}
        /\ outdated' = outdated \ {g}
    BY DEF Revisit, result, runtime
  <1>1. g \in Groups /\ Knows(g) /\ i \in InfoType
    BY <1>0 DEF GroupsInv, KnownInv, InfoInv
  <1>2. i.skipped \in SUBSET Module /\ i.transitive \in SUBSET Module
        /\ again \in SUBSET Module /\ i.skipped \ again \in SUBSET Module
    BY <1>1 DEF InfoType
  <1>3. i.children \subseteq Groups
    BY <1>1 DEF GroupsInv
  <1> HIDE DEF again
  <1>4. Groups' = Groups
    BY <1>0 DEF Groups
  <1>5. info'[g] = [i EXCEPT !.skipped = @ \ again] /\ \A h \in Groups : h # g => info'[h] = info[h]
    BY <1>0, <1>1 DEF Groups
  <1> HIDE DEF i
  <1>6. info'[g] \in InfoType
    BY <1>1, <1>2, <1>5 DEF InfoType
  <1>7. info'[g].min = i.min
    BY <1>1, <1>5 DEF InfoType
  <1>8. info'[g].toMerge = i.toMerge
    BY <1>1, <1>5 DEF InfoType
  <1>9. info'[g].children = i.children
    BY <1>1, <1>5 DEF InfoType
  <1>10. info'[g].resulting = i.resulting
    BY <1>1, <1>5 DEF InfoType
  <1>11. \A h \in Groups : /\ info'[h] \in InfoType
                           /\ info'[h].min = info[h].min
                           /\ info'[h].toMerge = info[h].toMerge
                           /\ info'[h].children = info[h].children
                           /\ info'[h].resulting = info[h].resulting
    BY <1>5, <1>6, <1>7, <1>8, <1>9, <1>10 DEF i, InfoInv
  <1>12. InfoInv'
    <2>1. info' = [h \in Groups |-> info'[h]]
      BY <1>0 DEF Groups, InfoInv
    <2>2. info' \in [Groups -> InfoType]
      BY <1>11, <2>1
    <2> QED
      BY <1>0, <1>4, <2>2 DEF InfoInv
  <1>13. OtherTypes'
    BY <1>0 DEF OtherTypes
  <1>14. GroupsInv'
    <2>1. connect' \subseteq Groups \X Groups
      BY <1>0, <1>1, <1>3 DEF GroupsInv
    <2> QED
      BY <1>0, <1>4, <1>11, <2>1 DEF GroupsInv
  <1>15. \A h \in Groups : /\ Knows(h)' = Knows(h)
                           /\ Offered(h)' = Offered(h)
                           /\ Connects(h) => Connects(h)'
    BY <1>0, <1>11 DEF Knows, Offered, Connects
  <1>16. QueueInv'
    <2>1. Knowing' = Knowing /\ g \in Knowing
      BY <1>1, <1>4, <1>15 DEF Knowing
    <2>2. queue \in Seq(ItemsOf(Knowing)) /\ delayed \in Seq(ItemsOf(Knowing))
      BY <1>0 DEF QueueInv
    <2>3. again \in SUBSET (Module \cup Block) /\ i.transitive \in SUBSET (Module \cup Block)
      BY <1>2
    <2>4. queue \o Items(TRUE, again, g) \in Seq(ItemsOf(Knowing))
      BY <1>2, <2>1, <2>2, <2>3, ItemsAdded
    <2>5. queue' \in Seq(ItemsOf(Knowing))
      BY <1>0, <2>1, <2>3, <2>4, ItemsAdded DEF i
    <2> QED
      BY <1>0, <2>1, <2>2, <2>5 DEF QueueInv
  <1>17. KnownInv'
    <2>1. ASSUME NEW pair \in connect' PROVE Knows(pair[1])'
      <3>1. pair \in connect \/ pair[1] = g
        BY <1>0
      <3>2. pair \in connect => pair[1] \in Groups
        BY DEF GroupsInv
      <3> QED
        BY <1>1, <1>15, <3>1, <3>2 DEF KnownInv
    <2>2. \A h \in outdated' : Knows(h)'
      <3>1. outdated \subseteq Groups
        BY DEF GroupsInv
      <3> QED
        BY <1>0, <1>15, <3>1 DEF KnownInv
    <2> QED
      BY <1>0, <2>1, <2>2 DEF KnownInv
  <1>18. ResultInv'
    <2>1. \A c \in connections : c[2] \in Groups
      BY DEF GroupsInv
    <2>2. ASSUME NEW h \in Groups, info'[h].children # {}
          PROVE  info'[h].resulting # Undefined \/ h \in outdated' \/ Connects(h)'
      <3>1. CASE h = g
        <4>1. PICK child \in i.children : TRUE
          BY <1>11, <2>2, <3>1 DEF i
        <4>2. <<g, child>> \in connect' /\ <<g, child>>[1] = g
          BY <1>0, <4>1 DEF i
        <4> QED
          BY <3>1, <4>2 DEF Connects
      <3>2. CASE h # g
        BY <1>0, <1>11, <1>15, <2>2, <3>2 DEF ResultInv
      <3> QED
        BY <3>1, <3>2
    <2> QED
      BY <1>0, <1>4, <1>11, <1>15, <2>1, <2>2 DEF ResultInv
  <1> QED
    BY <1>12, <1>13, <1>14, <1>16, <1>17, <1>18

\* The group of a block exists or is a block, for which one is made.
LEMMA GroupOfFacts ==
    ASSUME ChunkInv, NEW c \in Module \cup Block, NEW b \in graph.blocks[c]
    PROVE  GroupOf(b, c) \in Groups \cup Block
  <1> DEFINE name == graph.name[b]
             siblings == {x \in graph.blocks[c] : graph.name[x] = name} \ DOMAIN blockGroup
             sibling == CHOOSE x \in siblings : TRUE
  <1>1. graph.blocks[c] \subseteq Block
    BY GraphFacts DEF ChunkInv, InfoInv
  <1>2. siblings \subseteq Block
    BY <1>1
  <1>3. b \in DOMAIN blockGroup \/ b \in siblings
    OBVIOUS
  <1>4. siblings # {} => sibling \in siblings
    BY Zenon
  <1>5. GroupOf(b, c) = IF b \in DOMAIN blockGroup THEN blockGroup[b]
                        ELSE IF name = NoName THEN b
                        ELSE IF name \in DOMAIN named THEN named[name]
                        ELSE sibling
    BY Zenon DEF GroupOf
  <1>6. \A x \in DOMAIN blockGroup : blockGroup[x] \in Groups
    BY DEF ChunkInv, GroupsInv
  <1>7. \A n \in DOMAIN named : named[n] \in Groups
    BY DEF ChunkInv, GroupsInv
  <1> HIDE DEF siblings, sibling, name
  <1>8. b \notin DOMAIN blockGroup => sibling \in Block
    BY <1>2, <1>3, <1>4
  <1> QED
    BY <1>1, <1>5, <1>6, <1>7, <1>8

Split(c, g) == graph.blocks[c] \ Inlined(c, g)
Targets(c, g) == {GroupOf(b, c) : b \in Split(c, g)}
Fresh(c, g) == Targets(c, g) \ DOMAIN info

LEMMA TargetsFacts ==
    ASSUME ChunkInv, NEW c \in Module \cup Block, NEW g
    PROVE  /\ Split(c, g) \subseteq Block /\ IsFiniteSet(Split(c, g))
           /\ Fresh(c, g) \subseteq Block /\ IsFiniteSet(Fresh(c, g))
           /\ Targets(c, g) \subseteq Groups \cup Fresh(c, g)
           /\ Fresh(c, g) \cap Groups = {}
           /\ \A b \in Split(c, g) : GroupOf(b, c) \in Targets(c, g)
  <1>1. graph.blocks[c] \subseteq Block
    BY GraphFacts DEF ChunkInv, InfoInv
  <1>2. Split(c, g) \subseteq Block /\ Split(c, g) \subseteq graph.blocks[c]
    BY <1>1 DEF Split
  <1>3. \A b \in Split(c, g) : GroupOf(b, c) \in Groups \cup Block
    BY <1>2, GroupOfFacts
  <1>4. Targets(c, g) \subseteq Groups \cup Block
    BY <1>3 DEF Targets
  <1>5. Fresh(c, g) \subseteq Block /\ Targets(c, g) \subseteq Groups \cup Fresh(c, g)
        /\ Fresh(c, g) \cap Groups = {}
    BY <1>4 DEF Fresh, Groups
  <1>6. IsFiniteSet(Split(c, g)) /\ IsFiniteSet(Fresh(c, g))
    BY <1>2, <1>5, FiniteConstants, FS_Subset
  <1> QED
    BY <1>2, <1>5, <1>6 DEF Targets

\* What iteratorBlock() puts in the queues, for all async blocks of c.
LEMMA IterateEffect ==
    ASSUME ChunkInv, NEW c \in Module \cup Block, NEW g \in Groups, IterateBlocks(c, g)
    PROVE  /\ DOMAIN blockGroup' \subseteq Block
           /\ \A b \in DOMAIN blockGroup' : blockGroup'[b] \in Groups \cup Fresh(c, g)
           /\ \A n \in DOMAIN named' : named'[n] \in Groups \cup Fresh(c, g)
           /\ created' \in Seq(Block)
           /\ connections' = connections \cup {<<b, g, GroupOf(b, c)>> : b \in Split(c, g)}
           /\ connect' = connect \cup {<<g, GroupOf(b, c)>> : b \in Split(c, g)}
           /\ \E more \in Seq(ItemsOf(Targets(c, g))) : delayed' = delayed \o more
           /\ nested' \subseteq Block
  <1> USE DEF ChunkInv
  <1> DEFINE split == Split(c, g)
             target == [b \in split |-> GroupOf(b, c)]
             fresh == Fresh(c, g)
             names == {graph.name[b] : b \in fresh} \ {NoName}
             items == {[enter |-> FALSE, block |-> b, group |-> target[b]] : b \in split}
  <1>0. {target[b] : b \in split} = Targets(c, g)
    BY DEF Targets
  <1>1. /\ blockGroup' = Over(target, blockGroup)
        /\ created' = created \o SetToSeq({target[b] : b \in split} \ DOMAIN info)
        /\ connections' = connections \cup {<<b, g, target[b]>> : b \in split}
        /\ connect' = connect \cup {<<g, target[b]>> : b \in split}
        /\ delayed' = delayed \o SetToSeq(items)
        /\ nested' = IF c \in Block /\ graph.blocks[c] # {} THEN nested \cup {c} ELSE nested
    BY Zenon DEF IterateBlocks, Split
  <1>2. named' = Over([n \in {graph.name[b] : b \in {target[b] : b \in split} \ DOMAIN info}
                        \ {NoName} |->
                    CHOOSE b \in {target[b] : b \in split} \ DOMAIN info :
                        graph.name[b] = n], named)
    BY Zenon DEF IterateBlocks, Split
  <1>3. {target[b] : b \in split} \ DOMAIN info = fresh
    BY <1>0 DEF Fresh
  <1>4. named' = Over([n \in names |-> CHOOSE b \in fresh : graph.name[b] = n], named)
    BY <1>2, <1>3, Zenon
  <1>5. /\ split \subseteq Block /\ IsFiniteSet(split)
        /\ fresh \subseteq Block /\ IsFiniteSet(fresh)
        /\ \A b \in split : target[b] = GroupOf(b, c) /\ target[b] \in Targets(c, g)
        /\ Targets(c, g) \subseteq Groups \cup fresh
    BY TargetsFacts
  <1>6. DOMAIN target = split
    OBVIOUS
  <1> HIDE DEF split, target, fresh
  <1>7. DOMAIN blockGroup' = split \cup DOMAIN blockGroup
        /\ \A b \in DOMAIN blockGroup' :
              blockGroup'[b] = IF b \in split THEN target[b] ELSE blockGroup[b]
    BY <1>1, <1>6 DEF Over
  <1>8. DOMAIN blockGroup' \subseteq Block
    BY <1>5, <1>7 DEF GroupsInv
  <1>9. \A b \in DOMAIN blockGroup' : blockGroup'[b] \in Groups \cup fresh
    BY <1>5, <1>7 DEF GroupsInv
  <1>10. \A n \in DOMAIN named' : named'[n] \in Groups \cup fresh
    <2> DEFINE first == [n \in names |-> CHOOSE b \in fresh : graph.name[b] = n]
    <2>1. ASSUME NEW n \in names PROVE first[n] \in fresh
      <3>1. \E b \in fresh : graph.name[b] = n
        OBVIOUS
      <3>2. (CHOOSE b \in fresh : graph.name[b] = n) \in fresh
        BY <3>1, Zenon
      <3> QED
        BY <3>2, Zenon
    <2>2. DOMAIN first = names
      BY Zenon
    <2>3. named' = Over(first, named)
      BY <1>4, Zenon
    <2> HIDE DEF first, names
    <2>4. \A n \in DOMAIN named : named[n] \in Groups
      BY DEF GroupsInv
    <2>5. DOMAIN named' = names \cup DOMAIN named
          /\ \A n \in DOMAIN named' : named'[n] = IF n \in names THEN first[n] ELSE named[n]
      BY <2>2, <2>3 DEF Over
    <2> QED
      BY <2>1, <2>4, <2>5
  <1>11. created' \in Seq(Block)
    <2>1. SetToSeq(fresh) \in Seq(fresh)
      BY <1>5, SetToSeqFacts
    <2>2. SetToSeq(fresh) \in Seq(Block) /\ created \in Seq(Block)
      BY <1>5, <2>1, MoreSeqs DEF OtherTypes
    <2> QED
      BY <1>1, <1>3, <2>2, ConcatProperties
  <1>12. connections' = connections \cup {<<b, g, GroupOf(b, c)>> : b \in split}
         /\ connect' = connect \cup {<<g, GroupOf(b, c)>> : b \in split}
    BY <1>1, <1>5
  <1>13. \E more \in Seq(ItemsOf(Targets(c, g))) : delayed' = delayed \o more
    <2>1. items \subseteq ItemsOf(Targets(c, g))
      <3>1. ASSUME NEW b \in split
            PROVE  [enter |-> FALSE, block |-> b, group |-> target[b]]
                        \in ItemsOf(Targets(c, g))
        <4>1. b \in Module \cup Block /\ target[b] \in Targets(c, g)
          BY <1>5
        <4> DEFINE t == target[b]
        <4> HIDE DEF t
        <4>2. [enter |-> FALSE, block |-> b, group |-> t]
                \in [enter : BOOLEAN, block : Module \cup Block, group : Targets(c, g)]
          BY <4>1 DEF t
        <4>3. [enter |-> FALSE, block |-> b, group |-> t] \in ItemsOf(Targets(c, g))
          BY <4>2 DEF ItemsOf
        <4> QED
          BY <4>3 DEF t
      <3> QED
        BY <3>1
    <2>2. IsFiniteSet(items)
      <3> DEFINE f == [b \in split |-> [enter |-> FALSE, block |-> b, group |-> target[b]]]
      <3>1. f \in Surjection(split, items)
        BY DEF Surjection
      <3> QED
        BY <1>5, <3>1, FS_Surjection
    <2> HIDE DEF items
    <2>3. SetToSeq(items) \in Seq(ItemsOf(Targets(c, g)))
      BY <2>1, <2>2, SetToSeqFacts, MoreSeqs
    <2> QED
      BY <1>1, <2>3
  <1>14. nested' \subseteq Block
    BY <1>1 DEF OtherTypes
  <1> QED
    BY <1>8, <1>9, <1>10, <1>11, <1>12, <1>13, <1>14 DEF split, fresh

LEMMA BlockEffect ==
    ASSUME ChunkInv, NEW c \in Module \cup Block, NEW g \in Groups, Knows(g),
           NEW own \in SUBSET Module, NEW rest \in Seq(ItemsOf(Knowing)),
           ProcessBlock(c, g, own, rest)
    PROVE  /\ Groups' = Groups \cup Fresh(c, g)
           /\ info' \in [Groups' -> InfoType]
           /\ \A h \in Groups : /\ info'[h].min = info[h].min
                                /\ info'[h].toMerge = info[h].toMerge
                                /\ info'[h].children = info[h].children
                                /\ info'[h].resulting = info[h].resulting
           /\ \A h \in Fresh(c, g) : info'[h].children = {}
           /\ queue' \in Seq(ItemsOf(Knowing))
  <1> USE DEF ChunkInv
  <1> DEFINE i == info[g]
             Referred(state) == Refers(graph, c, i.runtime, state) \ (i.modules \cup own)
             skipped == Referred("active") \cap i.min
             entered == Referred("active") \ skipped
             passed == Referred("transitive")
             first == NewInfo(i.runtime, i.async, Undefined, {})
             made == [h \in Fresh(c, g) |-> first]
             kept == [info EXCEPT ![g].modules = @ \cup own,
                                  ![g].skipped = @ \cup skipped,
                                  ![g].transitive = @ \cup passed]
             mine == [i EXCEPT !.modules = @ \cup own, !.skipped = @ \cup skipped,
                               !.transitive = @ \cup passed]
  <1>1. /\ queue' = rest \o Items(TRUE, entered, g) \o Items(FALSE, passed, g)
                         \o Items(FALSE, Inlined(c, g), g)
        /\ info' = Over(made, kept)
    BY Zenon DEF ProcessBlock, Fresh, Targets, Split
  <1>2. i \in InfoType /\ g \in Knowing /\ \A h \in Groups : info[h] \in InfoType
    BY DEF InfoInv, Knowing
  <1>3. \A state : Referred(state) \subseteq Module
    BY GraphFacts DEF InfoInv
  <1> HIDE DEF Referred
  <1>4. skipped \in SUBSET Module /\ entered \in SUBSET Module /\ passed \in SUBSET Module
    BY <1>3
  <1>5. Inlined(c, g) \in SUBSET Block
    BY GraphFacts DEF Inlined, InfoInv
  <1> HIDE DEF skipped, entered, passed
  <1>6. queue' \in Seq(ItemsOf(Knowing))
    <2>1. /\ entered \in SUBSET (Module \cup Block) /\ passed \in SUBSET (Module \cup Block)
          /\ Inlined(c, g) \in SUBSET (Module \cup Block) /\ entered \subseteq Module
      BY <1>4, <1>5
    <2> DEFINE q1 == rest \o Items(TRUE, entered, g)
               q2 == q1 \o Items(FALSE, passed, g)
    <2>2. q1 \in Seq(ItemsOf(Knowing))
      BY <1>2, <2>1, ItemsAdded
    <2> HIDE DEF q1
    <2>3. q2 \in Seq(ItemsOf(Knowing))
      BY <1>2, <2>1, <2>2, ItemsAdded
    <2> HIDE DEF q2
    <2>4. q2 \o Items(FALSE, Inlined(c, g), g) \in Seq(ItemsOf(Knowing))
      BY <1>2, <2>1, <2>3, ItemsAdded
    <2> QED
      BY <1>1, <2>4, Zenon DEF q1, q2
  <1>7. first \in InfoType /\ first.children = {}
    <2>1. i.runtime \in SUBSET Entry /\ i.async \in BOOLEAN
      BY <1>2 DEF InfoType
    <2>2. Undefined \in ModuleSets /\ {} \in SUBSET Module
      BY DEF ModuleSets
    <2> QED
      BY <2>1, <2>2, NewInfoFacts
  <1>8. DOMAIN kept = Groups /\ kept[g] = mine /\ \A h \in Groups : h # g => kept[h] = info[h]
    BY DEF InfoInv, Groups
  <1>9. mine \in InfoType
    <2>1. /\ i.modules \cup own \in SUBSET Module
          /\ i.skipped \cup skipped \in SUBSET Module
          /\ i.transitive \cup passed \in SUBSET Module
      BY <1>2, <1>4 DEF InfoType
    <2> HIDE DEF i
    <2> QED
      BY <1>2, <2>1 DEF InfoType
  <1>10. mine.min = i.min
    <2> HIDE DEF i
    <2> QED
      BY <1>2 DEF InfoType
  <1>11. mine.toMerge = i.toMerge
    <2> HIDE DEF i
    <2> QED
      BY <1>2 DEF InfoType
  <1>12. mine.children = i.children
    <2> HIDE DEF i
    <2> QED
      BY <1>2 DEF InfoType
  <1>13. mine.resulting = i.resulting
    <2> HIDE DEF i
    <2> QED
      BY <1>2 DEF InfoType
  <1> HIDE DEF mine, kept, first
  <1>14. \A h \in Groups : /\ kept[h] \in InfoType
                           /\ kept[h].min = info[h].min
                           /\ kept[h].toMerge = info[h].toMerge
                           /\ kept[h].children = info[h].children
                           /\ kept[h].resulting = info[h].resulting
    BY <1>2, <1>8, <1>9, <1>10, <1>11, <1>12, <1>13
  <1>15. /\ DOMAIN info' = Fresh(c, g) \cup Groups
         /\ info' = [h \in Fresh(c, g) \cup Groups |-> info'[h]]
         /\ \A h \in Fresh(c, g) \cup Groups :
               info'[h] = IF h \in Fresh(c, g) THEN first ELSE kept[h]
    BY <1>1, <1>8 DEF Over
  <1>16. Fresh(c, g) \cap Groups = {}
    BY TargetsFacts
  <1>17. Groups' = Groups \cup Fresh(c, g)
    BY <1>15 DEF Groups
  <1>18. info' \in [Groups' -> InfoType]
    <2>1. \A h \in Fresh(c, g) \cup Groups : info'[h] \in InfoType
      BY <1>7, <1>14, <1>15
    <2>2. Groups' = Fresh(c, g) \cup Groups
      BY <1>17
    <2> QED
      BY <1>15, <2>1, <2>2
  <1>19. \A h \in Groups : info'[h] = kept[h]
    BY <1>15, <1>16
  <1>20. \A h \in Fresh(c, g) : info'[h].children = {}
    BY <1>7, <1>15
  <1> QED
    BY <1>6, <1>14, <1>17, <1>18, <1>19, <1>20

\* One module or block of a group whose set is known is processed.
LEMMA BlockStep ==
    ASSUME ChunkInv, NEW c \in Module \cup Block, NEW g \in Groups, Knows(g),
           NEW own \in SUBSET Module, NEW rest \in Seq(ItemsOf(Knowing)),
           ProcessBlock(c, g, own, rest), phase = "visit",
           UNCHANGED <<graph, combining, outdated, phase, parents, connected, runtime>>
    PROVE  ChunkInv'
  <1> USE DEF ChunkInv
  <1> DEFINE fresh == Fresh(c, g)
             split == Split(c, g)
  <1>0. UNCHANGED <<page, imported>>
    BY DEF runtime
  <1>1. /\ Groups' = Groups \cup fresh
        /\ info' \in [Groups' -> InfoType]
        /\ \A h \in Groups : /\ info'[h].min = info[h].min
                             /\ info'[h].toMerge = info[h].toMerge
                             /\ info'[h].children = info[h].children
                             /\ info'[h].resulting = info[h].resulting
        /\ \A h \in fresh : info'[h].children = {}
        /\ queue' \in Seq(ItemsOf(Knowing))
    BY BlockEffect
  <1>2. /\ DOMAIN blockGroup' \subseteq Block
        /\ \A b \in DOMAIN blockGroup' : blockGroup'[b] \in Groups \cup fresh
        /\ \A n \in DOMAIN named' : named'[n] \in Groups \cup fresh
        /\ created' \in Seq(Block)
        /\ connections' = connections \cup {<<b, g, GroupOf(b, c)>> : b \in split}
        /\ connect' = connect \cup {<<g, GroupOf(b, c)>> : b \in split}
        /\ \E more \in Seq(ItemsOf(Targets(c, g))) : delayed' = delayed \o more
        /\ nested' \subseteq Block
    <2>1. IterateBlocks(c, g)
      BY Zenon DEF ProcessBlock
    <2> QED
      BY <2>1, IterateEffect
  <1>3. /\ split \subseteq Block /\ fresh \subseteq Block /\ fresh \cap Groups = {}
        /\ Targets(c, g) \subseteq Groups \cup fresh
        /\ \A b \in split : GroupOf(b, c) \in Targets(c, g)
        /\ Targets(c, g) = {GroupOf(b, c) : b \in split}
    BY TargetsFacts DEF Targets
  <1> HIDE DEF fresh, split
  <1>4. InfoInv'
    BY <1>1, <1>3 DEF InfoInv, Group
  <1>5. OtherTypes'
    BY <1>0, <1>2 DEF OtherTypes
  <1>6. \A b \in split : GroupOf(b, c) \in Groups'
    BY <1>1, <1>3
  <1>7. GroupsInv'
    <2>1. connections' \subseteq Block \X Groups' \X Groups'
      <3>1. connections \subseteq Block \X Groups' \X Groups'
        BY <1>1 DEF GroupsInv
      <3>2. \A b \in split : <<b, g, GroupOf(b, c)>> \in Block \X Groups' \X Groups'
        BY <1>1, <1>3, <1>6
      <3> QED
        BY <1>2, <3>1, <3>2
    <2>2. connect' \subseteq Groups' \X Groups'
      <3>1. connect \subseteq Groups' \X Groups'
        BY <1>1 DEF GroupsInv
      <3>2. \A b \in split : <<g, GroupOf(b, c)>> \in Groups' \X Groups'
        BY <1>1, <1>6
      <3> QED
        BY <1>2, <3>1, <3>2
    <2>3. \A h \in Groups' : info'[h].children \subseteq Groups'
      BY <1>1 DEF GroupsInv
    <2>4. outdated' \subseteq Groups'
      BY <1>1 DEF GroupsInv
    <2> QED
      BY <1>1, <1>2, <2>1, <2>2, <2>3, <2>4 DEF GroupsInv
  <1>8. \A h \in Groups : /\ Knows(h)' = Knows(h)
                          /\ Offered(h)' = Offered(h)
    BY <1>1 DEF Knows, Offered
  <1>9. \A h : /\ Connects(h) => Connects(h)'
               /\ Awaits(h) => Awaits(h)'
    BY <1>2 DEF Connects, Awaits
  <1>10. /\ \A h \in Targets(c, g) : Awaits(h)'
         /\ split # {} => Connects(g)'
    <2>1. ASSUME NEW h \in Targets(c, g) PROVE Awaits(h)' /\ Connects(g)'
      <3>1. PICK b \in split : h = GroupOf(b, c)
        BY <1>3
      <3>2. <<g, h>> \in connect'
        BY <1>2, <3>1
      <3>3. <<g, h>>[1] = g /\ <<g, h>>[2] = h
        OBVIOUS
      <3> QED
        BY <3>2, <3>3 DEF Awaits, Connects
    <2> QED
      BY <1>3, <2>1
  <1>11. QueueInv'
    <2>1. Knowing \subseteq Knowing'
      BY <1>1, <1>8 DEF Knowing
    <2>2. Promised \subseteq Promised'
      BY <1>1, <1>8, <1>9 DEF Promised
    <2>3. Targets(c, g) \subseteq Promised'
      BY <1>1, <1>3, <1>10 DEF Promised
    <2>4. queue' \in Seq(ItemsOf(Knowing'))
      BY <1>1, <2>1, MoreItems
    <2>5. delayed \in Seq(ItemsOf(Promised'))
      BY <2>2, AnyDelayed, MoreItems
    <2>6. PICK more \in Seq(ItemsOf(Targets(c, g))) : delayed' = delayed \o more
      BY <1>2
    <2>7. more \in Seq(ItemsOf(Promised'))
      BY <2>3, MoreItems
    <2>8. delayed' \in Seq(ItemsOf(Promised'))
      BY <2>5, <2>6, <2>7, ConcatProperties
    <2>9. phase' # "revisit"
      OBVIOUS
    <2> QED
      BY <2>4, <2>8, <2>9 DEF QueueInv
  <1>12. KnownInv'
    <2>1. ASSUME NEW pair \in connect' PROVE Knows(pair[1])'
      <3>1. pair \in connect \/ pair[1] = g
        BY <1>2
      <3>2. pair \in connect => pair[1] \in Groups
        BY DEF GroupsInv
      <3> QED
        BY <1>8, <3>1, <3>2 DEF KnownInv
    <2>2. \A h \in outdated' : Knows(h)' \/ Offered(h)'
      <3>1. outdated \subseteq Groups
        BY DEF GroupsInv
      <3> QED
        BY <1>8, <3>1 DEF KnownInv
    <2>3. phase' = "visit"
      OBVIOUS
    <2> QED
      BY <2>1, <2>2, <2>3 DEF KnownInv
  <1>13. ResultInv'
    <2>1. ASSUME NEW d \in connections' PROVE Connects(d[2])' \/ info'[d[2]].children # {}
      <3>1. CASE d \in connections
        <4>1. d[2] \in Groups /\ (Connects(d[2]) \/ info[d[2]].children # {})
          BY <3>1 DEF GroupsInv, ResultInv
        <4> QED
          BY <1>1, <1>9, <4>1
      <3>2. CASE d \notin connections
        <4>1. PICK b \in split : d = <<b, g, GroupOf(b, c)>>
          BY <1>2, <3>2
        <4>2. d[2] = g /\ Connects(g)'
          BY <1>10, <4>1
        <4>3. \A h : h = g => Connects(h)'
          BY <4>2
        <4> QED
          BY <4>2, <4>3
      <3> QED
        BY <3>1, <3>2
    <2>2. ASSUME NEW h \in Groups', info'[h].children # {}
          PROVE  info'[h].resulting # Undefined \/ h \in outdated' \/ Connects(h)'
      <3>1. h \in Groups
        BY <1>1, <2>2
      <3> QED
        BY <1>1, <1>9, <2>2, <3>1 DEF ResultInv
    <2>3. phase' = "visit"
      OBVIOUS
    <2> QED
      BY <2>1, <2>2, <2>3 DEF ResultInv
  <1> QED
    BY <1>4, <1>5, <1>7, <1>11, <1>12, <1>13

LEMMA VisitStep == ASSUME ChunkInv, Visit PROVE ChunkInv'
  <1> USE DEF ChunkInv
  <1> DEFINE item == Last(queue)
             rest == Front(queue)
             own == IF item.enter THEN {item.block} ELSE {}
  <1>1. /\ phase = "visit" /\ queue # <<>>
        /\ UNCHANGED <<graph, combining, outdated, phase, parents, connected, runtime>>
        /\ IF item.enter /\ item.block \in info[item.group].modules
           THEN /\ queue' = rest
                /\ UNCHANGED <<delayed, info, blockGroup, named, connections, nested,
                               connect, created>>
           ELSE ProcessBlock(item.block, item.group, own, rest)
    BY Zenon DEF Visit
  <1>2. item \in ItemsOf(Knowing) /\ rest \in Seq(ItemsOf(Knowing))
    BY <1>1, LastAndFront DEF QueueInv
  <1> HIDE DEF item, rest
  <1>3. item.block \in Module \cup Block /\ item.group \in Knowing /\ own \in SUBSET Module
    BY <1>2 DEF ItemsOf
  <1>4. item.group \in Groups /\ Knows(item.group)
    BY <1>3 DEF Knowing
  <1> HIDE DEF own
  <1>5. CASE ProcessBlock(item.block, item.group, own, rest)
    BY <1>1, <1>2, <1>3, <1>4, <1>5, BlockStep
  <1>6. CASE /\ queue' = rest
             /\ UNCHANGED <<delayed, info, blockGroup, named, connections, nested,
                            connect, created>>
    <2>0. UNCHANGED <<graph, info, connect>> /\ UNCHANGED <<page, imported>>
      BY <1>1, <1>6 DEF runtime
    <2>1. InfoInv'
      BY <2>0, SameInfo
    <2>2. OtherTypes'
      BY <1>1, <1>6, <2>0 DEF OtherTypes
    <2>3. GroupsInv'
      BY <1>1, <1>6, <2>0, SameInfo DEF GroupsInv
    <2>4. QueueInv'
      BY <1>1, <1>2, <1>6, <2>0, SameInfo DEF QueueInv
    <2>5. KnownInv'
      BY <1>1, <1>6, <2>0, SameInfo DEF KnownInv
    <2>6. ResultInv'
      BY <1>1, <1>6, <2>0, SameInfo DEF ResultInv
    <2> QED
      BY <2>1, <2>2, <2>3, <2>4, <2>5, <2>6
  <1> QED
    BY <1>1, <1>5, <1>6

LEMMA BuildStep == ASSUME ChunkInv, Build PROVE ChunkInv'
  <1>1. CASE Visit
    BY <1>1, VisitStep
  <1>2. CASE VisitEnd
    BY <1>2, VisitEndStep
  <1>3. CASE \E e \in Entry : Combine(e)
    BY <1>3, CombineStep
  <1>4. CASE \E g \in Group : Connect(g)
    BY <1>4, ConnectStep
  <1>5. CASE Merge
    BY <1>5, MergeStep
  <1>6. CASE \E g \in Group : Revisit(g)
    BY <1>6, RevisitStep
  <1>7. CASE NextRound
    BY <1>7, NextRoundStep
  <1>8. CASE ConnectChunkGroups \/ Cleanup \/ CleanupEnd
    BY <1>8, BuiltStep
  <1> QED
    BY <1>1, <1>2, <1>3, <1>4, <1>5, <1>6, <1>7, <1>8 DEF Build

LEMMA ChunkStutter == ASSUME ChunkInv, UNCHANGED chunkVars PROVE ChunkInv'
  <1>1. UNCHANGED <<graph, traversal, phase, result, runtime>>
    BY DEF chunkVars
  <1>2. OtherTypes'
    BY <1>1 DEF ChunkInv, OtherTypes, traversal, result, runtime
  <1> QED
    BY <1>1, <1>2, AfterwardsStep

LEMMA ChunkInvariance == ChunkSpec => []ChunkInv
  <1>1. ChunkInit => ChunkInv
    BY InitChunk
  <1>2. ChunkInv /\ [ChunkNext]_chunkVars => ChunkInv'
    BY BuildStep, PageStep, ChunkStutter DEF ChunkNext
  <1> QED
    BY <1>1, <1>2, PTL DEF ChunkSpec

LEMMA ChunkTypes == ChunkInv => ChunkTypeOK
  <1> SUFFICES ASSUME ChunkInv PROVE ChunkTypeOK
    OBVIOUS
  <1> USE DEF ChunkInv
  <1>1. Groups \subseteq Group
    BY DEF InfoInv
  <1>2. queue \in Seq(Item) /\ delayed \in Seq(Item)
    <2>1. ItemsOf(Knowing) \subseteq Item /\ ItemsOf(Promised) \subseteq Item
      BY <1>1 DEF ItemsOf, Item, Knowing, Promised
    <2> QED
      BY <2>1, AnyDelayed, MoreSeqs DEF QueueInv
  <1>3. \A g \in DOMAIN info : IsInfo(info[g])
    <2>1. ASSUME NEW g \in DOMAIN info PROVE IsInfo(info[g])
      <3> DEFINE i == info[g]
      <3>1. i \in InfoType
        BY DEF InfoInv, Groups
      <3> HIDE DEF i
      <3>2. IsInfo(i)
        BY <3>1 DEF InfoType, IsInfo
      <3> QED
        BY <3>2 DEF i
    <2> QED
      BY <2>1
  <1>4. DOMAIN info \subseteq Group
    BY <1>1 DEF Groups
  <1>5. /\ DOMAIN blockGroup \subseteq Block /\ Range(blockGroup) \subseteq Group
        /\ Range(named) \subseteq Group
    BY <1>1 DEF GroupsInv, Range
  <1>6. /\ connections \subseteq Block \X Group \X Group
        /\ connect \subseteq Group \X Group
        /\ outdated \subseteq Group
    BY <1>1 DEF GroupsInv
  <1>7. /\ nested \subseteq Block
        /\ combining \subseteq Entry
        /\ phase \in Phases
        /\ created \in Seq(Block) /\ parents \subseteq Group \X Group /\ connected \subseteq Block
        /\ page \in Entry \cup {Nobody} /\ imported \subseteq Block
    BY DEF OtherTypes
  <1> QED
    BY <1>2, <1>3, <1>4, <1>5, <1>6, <1>7 DEF ChunkTypeOK

\* A set of available modules is only read when it is known, for every module graph:
\* the chunk group of the block visited next knows what its parents have loaded, so do
\* the origins of the connections that wait, and before the groups are connected
\* every origin's resulting set is calculated.
THEOREM SetsAreKnownCorrect == ChunkSpec => []SetsAreKnown
  <1>1. ChunkInv => SetsAreKnown
    <2> SUFFICES ASSUME ChunkInv PROVE SetsAreKnown
      OBVIOUS
    <2> USE DEF ChunkInv
    <2>1. phase = "visit" /\ queue # <<>> => info[Last(queue).group].min # Undefined
      <3> SUFFICES ASSUME queue # <<>> PROVE info[Last(queue).group].min # Undefined
        OBVIOUS
      <3>1. Last(queue) \in ItemsOf(Knowing)
        BY LastAndFront DEF QueueInv
      <3> QED
        BY <3>1 DEF ItemsOf, Knowing, Knows
    <2>2. \A pair \in connect : info[pair[1]].min # Undefined
      BY DEF KnownInv, Knows
    <2>3. phase = "connect" => \A c \in connections : info[c[2]].resulting # Undefined
      <3>1. ASSUME phase = "connect", NEW c \in connections
            PROVE  info[c[2]].resulting # Undefined
        <4>1. connect = {} /\ outdated = {} /\ c[2] \in Groups
          BY <3>1 DEF ResultInv, GroupsInv
        <4>2. info[c[2]].children # {}
          BY <4>1 DEF ResultInv, Connects
        <4> QED
          BY <4>1, <4>2 DEF ResultInv, Connects
      <3> QED
        BY <3>1
    <2> QED
      BY <2>1, <2>2, <2>3, ChunkTypes DEF SetsAreKnown
  <1> QED
    BY <1>1, ChunkInvariance, PTL

=============================================================================
