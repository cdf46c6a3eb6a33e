------------------------ MODULE SnapshotAndUpdateProofs ------------------------
(***************************************************************************)
(* Theorems about HotUpdate, for every program, and any number of checks,  *)
(* chunks and invalidations: first how the status and the promise of       *)
(* check() go together, then the graph of modules; and about               *)
(* FileSystemInfo, for every set of files and builds, every mode and any   *)
(* number of edits and compilations, which rest on SnapshotInv: what the   *)
(* caches, the snapshots and the optimization's map say of each other and  *)
(* of the disk.                                                            *)
(***************************************************************************)
EXTENDS HotUpdate, FileSystemInfo, TLAPS, FiniteSetTheorems, SequenceTheorems, NaturalsInduction, WellFoundedInduction


\* There is no update to apply.
Inert == handlers = None /\ ~pending /\ updated = {} /\ reloaded = {}

\* The check has an update whose chunks it waits for.
Downloading == check \in {"loading", "loaded", "waiting"}

\* How far the check is decides what the status can be and where the update is.
ControlInv ==
    /\ blocking > 0 => status = "prepare"
    /\ check = "manifest" => status = "check"
    /\ check = "preparing" \/ Downloading => status \in {"prepare", "ready"}
    /\ check = "applying" => settling
    /\ settling => status = "apply" /\ check \in {"none", "applying"}
    /\ status = "idle" => check = "none"
    /\ status = "idle" \/ check = "manifest" \/ settling => Inert
    /\ check = "preparing" => handlers = None /\ updated = {}
    /\ status \in {"prepare", "ready"} /\ (check = "none" \/ Downloading)
          => handlers = 1 /\ pending

\* Every module that has invalidated itself is in an update or in the queue, or has
\* done so in the window of check(); before the download, only the queue counts.
InvalidInv ==
    /\ status \notin {"abort", "fail"} => invalid \subseteq Collect \cup missed
    /\ check = "preparing" => invalid \subseteq queued \cup missed
    /\ status = "idle" => queued = {}

\* The module cache is closed and up to date, whatever the status is.
PageInv ==
    /\ old = {}
    /\ \A e \in Pairs(cache) : e[2] \in cache /\ (e \in current \/ e[2] \in app.self)

(***************************************************************************)
(* Types.                                                                  *)
(***************************************************************************)

\* What is reachable contains where one starts, and is closed.
LEMMA ReachableClosed ==
  ASSUME NEW G \in SUBSET (Module \X Module), NEW S \in SUBSET Module
  PROVE  /\ Reachable(G, S) \subseteq Module
         /\ S \subseteq Reachable(G, S)
         /\ \A e \in G : e[1] \in Reachable(G, S) => e[2] \in Reachable(G, S)
BY DEF Reachable

\* TypeOK, one variable at a time.
Types ==
    /\ app \in App /\ status \in Status /\ check \in CheckStage
    /\ autoApply \in BOOLEAN /\ pending \in BOOLEAN /\ settling \in BOOLEAN
    /\ blocking \in Nat /\ unblocked \in Nat
    /\ handlers \in {None, 0, 1}
    /\ news \subseteq Module /\ updated \subseteq Module /\ reloaded \subseteq Module
    /\ queued \subseteq Module /\ cache \subseteq Module /\ old \subseteq Module
    /\ invalid \subseteq Module /\ missed \subseteq Module
    /\ current \subseteq app.requires

LEMMA TypesAreTypeOK == (TypeOK <=> Types) /\ (TypeOK' <=> Types')
BY DEF TypeOK, Types

\* What is known of an update that is applied.
LEMMA ReplaceTypes ==
  ASSUME TypeOK, NEW O \in SUBSET Module, NEW code \in SUBSET Module, Replace(O, code)
  PROVE  /\ cache' \subseteq Module /\ old' \subseteq Module
         /\ invalid' \subseteq Module /\ missed' \subseteq Module
         /\ current' \subseteq app.requires
<1>1. /\ cache \subseteq Module /\ old \subseteq Module /\ invalid \subseteq Module
      /\ missed \subseteq Module /\ current \subseteq app.requires
  BY DEF TypeOK
<1>2. /\ app.requires \subseteq Module \X Module
      /\ app.accepts \subseteq app.requires
  BY HotUpdateAssumption DEF HotUpdateAssumption, TypeOK, IsApp
<1> DEFINE kept == cache \ O
           G == {e \in app.requires : e[2] \notin kept}
           S == Told(O) \cup Again(O)
           fresh == Reachable(G, S)
<1>3. fresh \subseteq Module
  BY DEF Reachable
<1> HIDE DEF fresh
<1>4. /\ cache' = kept \cup fresh
      /\ current' = {e \in current : e[1] \in kept /\ e[2] \in kept} \cup Pairs(fresh)
                       \cup {e \in app.accepts : e[1] \in kept /\ e[2] \in Told(O)}
      /\ old' = (old \cup code) \cap kept
      /\ invalid' = invalid \cap kept
      /\ missed' = missed \cap kept
  BY DEF Replace, fresh
<1>5. Pairs(fresh) \subseteq app.requires
  BY DEF Pairs
<1> QED
  BY <1>1, <1>2, <1>3, <1>4, <1>5

\* What is outdated, of what is collected.
LEMMA OutdatedModules ==
  ASSUME TypeOK
  PROVE  Outdated(Collect) \in SUBSET Module /\ Collect \in SUBSET Module
BY DEF TypeOK, Outdated, Reachable, Collect

\* The runtime keeps its types, whatever order checks, chunks, invalidations
\* and promises come in: the update handlers are undefined, none or one.
THEOREM ControlCorrect == Spec => [](TypeOK /\ ControlInv)
<1>1. Init => TypeOK /\ ControlInv
  <2> SUFFICES ASSUME Init PROVE TypeOK /\ ControlInv
    OBVIOUS
  <2>1. cache \subseteq Module /\ current \subseteq app.requires
    BY DEF Init, Reachable, Pairs
  <2>2. Types
    BY <2>1 DEF Init, Types, Status, CheckStage, None
  <2>3. ControlInv
    BY DEF Init, ControlInv, Inert, Downloading
  <2> QED
    BY <2>2, <2>3, TypesAreTypeOK
<1>2. TypeOK /\ ControlInv /\ [Next]_vars => (TypeOK /\ ControlInv)'
  <2> SUFFICES ASSUME TypeOK, Types, ControlInv, [Next]_vars PROVE Types' /\ ControlInv'
    BY TypesAreTypeOK
  <2> USE DEF update, page, counts, Status, CheckStage, None
  <2>1. ASSUME NEW m \in Module, Invalidate(m) PROVE Types' /\ ControlInv'
    <3>1. /\ UNCHANGED <<app, check, autoApply, news, blocking, unblocked, settling,
                         cache, current, old>>
          /\ invalid' \subseteq Module /\ missed' \subseteq Module
      BY <2>1 DEF Invalidate, Types
    <3>2. CASE InvalidateIdle(m)
      <4>1. Types'
        BY <3>1, <3>2 DEF InvalidateIdle, Invalidated, Types, ControlInv, Inert
      <4>2. ControlInv'
        BY <3>1, <3>2 DEF InvalidateIdle, Invalidated, Types, ControlInv, Inert, Downloading
      <4> QED
        BY <4>1, <4>2
    <3>3. CASE InvalidateReady(m)
      <4>1. handlers # None => handlers = 1 /\ pending
        BY <3>3 DEF InvalidateReady, ControlInv, Types, Downloading
      <4>2. Types'
        BY <3>1, <3>3, <4>1 DEF InvalidateReady, Invalidated, Types
      <4>3. ControlInv'
        BY <3>1, <3>3, <4>1 DEF InvalidateReady, Invalidated, Types, ControlInv, Inert,
           Downloading
      <4> QED
        BY <4>2, <4>3
    <3>4. CASE InvalidateBusy(m) \/ InvalidateFailed
      <4>1. Types'
        BY <3>1, <3>4 DEF InvalidateBusy, InvalidateFailed, Types
      <4>2. ControlInv'
        BY <3>1, <3>4 DEF InvalidateBusy, InvalidateFailed, ControlInv, Inert, Downloading
      <4> QED
        BY <4>1, <4>2
    <3> QED
      BY <2>1, <3>2, <3>3, <3>4 DEF Invalidate
  \* Wherever an update is applied from, no chunk is loading.
  <2>2. ASSUME InternalApply, blocking = 0, unblocked' \in Nat,
               UNCHANGED <<app, autoApply, news, blocking>>
        PROVE  Types' /\ ControlInv'
    <3>1. CASE status' = "abort"
      <4>1. /\ handlers' = None /\ queued' = {} /\ check' = "none" /\ settling' = FALSE
            /\ UNCHANGED <<updated, reloaded, pending, page>>
        BY <2>2, <3>1 DEF InternalApply
      <4>2. Types'
        BY <2>2, <3>1, <4>1 DEF Types
      <4>3. ControlInv'
        BY <2>2, <3>1, <4>1 DEF ControlInv, Inert, Downloading
      <4> QED
        BY <4>2, <4>3
    <3>2. CASE status' = "apply"
      <4>1. Replace(Outdated(Collect), updated)
        BY <2>2, <3>2 DEF InternalApply
      <4>2. Outdated(Collect) \in SUBSET Module /\ updated \in SUBSET Module
        BY OutdatedModules DEF Types
      <4>3. /\ cache' \subseteq Module /\ old' \subseteq Module
            /\ invalid' \subseteq Module /\ missed' \subseteq Module
            /\ current' \subseteq app.requires
        BY <4>1, <4>2, ReplaceTypes
      <4>4. /\ handlers' = None /\ queued' = {} /\ settling' = TRUE
            /\ updated' = {} /\ reloaded' = {} /\ pending' = FALSE
            /\ check' = IF check = "none" THEN "none" ELSE "applying"
        BY <2>2, <3>2 DEF InternalApply
      <4>5. Types'
        BY <2>2, <3>2, <4>3, <4>4 DEF Types
      <4>6. ControlInv'
        BY <2>2, <3>2, <4>4 DEF ControlInv, Inert, Downloading
      <4> QED
        BY <4>5, <4>6
    <3> QED
      BY <2>2, <3>1, <3>2 DEF InternalApply
  <2>3. CASE Apply
    BY <2>2, <2>3 DEF Apply, ControlInv, Types
  <2>4. CASE Settle
    <3>1. CASE Fail \/ Finish
      <4>1. /\ status' \in {"fail", "idle"} /\ check' = "none" /\ settling' = FALSE
            /\ UNCHANGED <<app, autoApply, news, blocking, unblocked, update, page>>
        BY <2>4, <3>1 DEF Settle, Fail, Finish
      <4>2. Types'
        BY <4>1 DEF Types
      <4>3. ControlInv'
        BY <2>4, <4>1 DEF Settle, ControlInv, Inert, Downloading
      <4> QED
        BY <4>2, <4>3
    <3>2. CASE InternalApply
      BY <2>2, <2>4, <3>2 DEF Settle, ControlInv, Types
    <3> QED
      BY <2>4, <3>1, <3>2 DEF Settle
  <2>5. ASSUME NEW apply \in BOOLEAN, Check(apply) PROVE Types' /\ ControlInv'
    BY <2>5 DEF Check, Types, ControlInv, Inert, Downloading
  <2>6. CASE NoUpdate
    <3>1. CASE queued # {}
      <4>1. /\ status' = "ready" /\ check' = "none" /\ queued' = {}
            /\ handlers' = 1 /\ pending' = TRUE
            /\ reloaded' = reloaded \cup (queued \ updated)
            /\ UNCHANGED <<app, autoApply, news, blocking, unblocked, settling, page, updated>>
        BY <2>6, <3>1 DEF NoUpdate, Invalidated, ControlInv, Inert
      <4>2. Types'
        BY <4>1 DEF Types
      <4>3. ControlInv'
        BY <2>6, <4>1 DEF NoUpdate, ControlInv, Inert, Downloading
      <4> QED
        BY <4>2, <4>3
    <3>2. CASE queued = {}
      BY <2>6, <3>2 DEF NoUpdate, Types, ControlInv, Inert, Downloading
    <3> QED
      BY <3>1, <3>2
  <2>7. CASE Manifest \/ Download \/ Arrive \/ CheckFails
    <3>1. CASE Manifest
      BY <2>7, <3>1 DEF Manifest, Types, ControlInv, Inert, Downloading
    <3>2. CASE Download
      BY <2>7, <3>2 DEF Download, Types, ControlInv, Inert, Downloading
    <3>3. CASE Arrive
      BY <2>7, <3>3 DEF Arrive, Types, ControlInv, Inert, Downloading
    <3>4. CASE CheckFails
      BY <2>7, <3>4 DEF CheckFails, Types, ControlInv, Inert, Downloading
    <3> QED
      BY <2>7, <3>1, <3>2, <3>3, <3>4
  <2>8. ASSUME Proceed, blocking = 0, Downloading, unblocked' \in Nat,
               UNCHANGED <<app, autoApply, news, blocking>>
        PROVE  Types' /\ ControlInv'
    <3>1. CASE InternalApply
      BY <2>2, <2>8, <3>1
    <3>2. CASE ~autoApply
      BY <2>8, <3>2 DEF Proceed, Types, ControlInv, Inert, Downloading
    <3> QED
      BY <2>8, <3>1, <3>2 DEF Proceed
  <2>9. CASE Wait
    <3>1. CASE blocking = 0
      BY <2>8, <2>9, <3>1 DEF Wait, Downloading, Types
    <3>2. CASE blocking # 0
      BY <2>9, <3>2 DEF Wait, Types, ControlInv, Inert, Downloading
    <3> QED
      BY <3>1, <3>2
  <2>10. CASE LoadChunk \/ Unblock
    <3>1. CASE LoadChunk
      BY <2>10, <3>1 DEF LoadChunk, Types, ControlInv, Inert, Downloading
    <3>2. CASE Unblock
      BY <2>10, <3>2 DEF Unblock, Types, ControlInv, Inert, Downloading
    <3> QED
      BY <2>10, <3>1, <3>2
  <2>11. CASE Unblocked
    <3>1. unblocked' \in Nat /\ UNCHANGED <<app, autoApply, news, blocking>>
      BY <2>11 DEF Unblocked, Types
    <3>2. CASE check = "waiting" /\ StillUnblocked
      BY <2>8, <2>11, <3>1, <3>2 DEF Unblocked, StillUnblocked, Downloading
    <3>3. CASE ~(check = "waiting" /\ StillUnblocked)
      BY <2>11, <3>1, <3>3 DEF Unblocked, Types, ControlInv, Inert, Downloading
    <3> QED
      BY <3>2, <3>3
  <2>12. CASE UNCHANGED vars
    BY <2>12 DEF vars, Types, ControlInv, Inert, Downloading
  <2> QED
    BY <2>1, <2>3, <2>4, <2>5, <2>6, <2>7, <2>9, <2>10, <2>11, <2>12 DEF Next, CheckStep
<1> QED
  BY <1>1, <1>2, PTL DEF Spec

\* No update is applied while a chunk is loading, and apply() always finds
\* the handlers of the update.
THEOREM NoApplyWhileLoadingCorrect == Spec => []NoApplyWhileLoading
<1>1. TypeOK /\ ControlInv => NoApplyWhileLoading
  BY DEF NoApplyWhileLoading, ControlInv, Inert, None
<1> QED
  BY <1>1, ControlCorrect, PTL

(***************************************************************************)
(* Invalidations.                                                          *)
(***************************************************************************)

\* An update that is applied replaces what is collected: a module that is left
\* in the cache with an invalidation is one that was invalidated in the window.
LEMMA AppliedIsReplaced ==
  ASSUME TypeOK, Replace(Outdated(Collect), updated), invalid \subseteq Collect \cup missed
  PROVE  invalid' \subseteq missed'
<1>1. Collect \subseteq Outdated(Collect)
  <2>1. Collect \subseteq Module
    BY OutdatedModules
  <2> QED
    BY <2>1 DEF Outdated, Reachable
<1>2. /\ invalid' = invalid \cap (cache \ Outdated(Collect))
      /\ missed' = missed \cap (cache \ Outdated(Collect))
  BY DEF Replace
<1> QED
  BY <1>1, <1>2

\* No invalidation outside the window of check() is forgotten: until the module is
\* replaced it is part of the update or of the queue, and of the queue as long as a
\* download can overwrite the update.
THEOREM InvalidCorrect == Spec => []InvalidInv
<1>1. Init => InvalidInv
  BY DEF Init, InvalidInv
<1>2. TypeOK /\ ControlInv /\ InvalidInv /\ [Next]_vars => InvalidInv'
  <2> SUFFICES ASSUME TypeOK, Types, ControlInv, InvalidInv, [Next]_vars PROVE InvalidInv'
    BY TypesAreTypeOK
  <2> USE DEF update, page, counts
  <2>1. ASSUME NEW m \in Module, Invalidate(m) PROVE InvalidInv'
    <3>1. /\ invalid' = invalid \cup {m}
          /\ missed' = IF Window THEN missed \cup ({m} \ queued) ELSE missed \ {m}
          /\ check' = check
      BY <2>1 DEF Invalidate
    <3>2. CASE InvalidateIdle(m)
      <4>1. missed' = missed \ {m} /\ check' = "none" /\ Collect' = Collect \cup {m}
        BY <3>1, <3>2 DEF InvalidateIdle, Invalidated, Window, ControlInv, Collect
      <4> QED
        BY <3>1, <3>2, <4>1 DEF InvalidateIdle, InvalidInv
    <3>3. CASE InvalidateReady(m) /\ Window
      <4>1. /\ missed' = missed \cup ({m} \ queued) /\ queued' = queued
            /\ invalid \subseteq queued \cup missed
        BY <3>1, <3>3 DEF InvalidateReady, Window, InvalidInv
      <4>2. invalid' \subseteq queued' \cup missed' /\ status' = "ready"
        BY <3>1, <3>3, <4>1 DEF InvalidateReady
      <4> QED
        BY <4>2 DEF InvalidInv, Collect
    <3>4. CASE InvalidateReady(m) /\ ~Window
      <4>1. handlers = 1 /\ check # "preparing"
        BY <3>4 DEF InvalidateReady, Window, ControlInv, Downloading, Types, CheckStage
      <4>2. missed' = missed \ {m} /\ Collect' = Collect \cup {m} /\ status' = "ready"
        BY <3>1, <3>4, <4>1 DEF InvalidateReady, Invalidated, Collect, None
      <4> QED
        BY <3>1, <3>4, <4>1, <4>2 DEF InvalidateReady, InvalidInv
    <3>5. CASE InvalidateBusy(m)
      <4>1. /\ missed' = missed \ {m} /\ queued' = queued \cup {m}
            /\ Collect' = Collect \cup {m}
        BY <3>1, <3>5 DEF InvalidateBusy, Window, Collect
      <4> QED
        BY <3>1, <3>5, <4>1 DEF InvalidateBusy, InvalidInv
    <3>6. CASE InvalidateFailed
      BY <3>1, <3>6 DEF InvalidateFailed, InvalidInv, ControlInv
    <3> QED
      BY <2>1, <3>2, <3>3, <3>4, <3>5, <3>6 DEF Invalidate
  <2>2. ASSUME InternalApply, status \notin {"abort", "fail"} PROVE InvalidInv'
    <3>1. CASE status' = "abort"
      BY <2>2, <3>1 DEF InternalApply, InvalidInv
    <3>2. CASE status' = "apply"
      <4>1. invalid' \subseteq missed'
        BY <2>2, <3>2, AppliedIsReplaced DEF InternalApply, InvalidInv
      <4> QED
        BY <3>2, <4>1 DEF InvalidInv
    <3> QED
      BY <2>2, <3>1, <3>2 DEF InternalApply
  <2>3. CASE Apply
    BY <2>2, <2>3 DEF Apply
  <2>4. CASE Settle
    <3>1. CASE Fail
      BY <3>1 DEF Fail, InvalidInv
    <3>2. CASE queued # {} /\ InternalApply
      BY <2>2, <2>4, <3>2 DEF Settle, ControlInv
    <3>3. CASE queued = {} /\ Finish
      BY <2>4, <3>3 DEF Settle, Finish, InvalidInv, ControlInv, Collect
    <3> QED
      BY <2>4, <3>1, <3>2, <3>3 DEF Settle
  <2>5. ASSUME NEW apply \in BOOLEAN, Check(apply) PROVE InvalidInv'
    BY <2>5 DEF Check, InvalidInv, Collect
  <2>6. CASE NoUpdate
    <3>1. CASE queued # {}
      <4>1. reloaded' = reloaded \cup (queued \ updated) /\ UNCHANGED <<updated, invalid, missed>>
        BY <2>6, <3>1 DEF NoUpdate, Invalidated
      <4>2. status = "check" /\ status' = "ready" /\ check' = "none"
        BY <2>6, <3>1 DEF NoUpdate, ControlInv
      <4> QED
        BY <4>1, <4>2 DEF InvalidInv, Collect
    <3>2. CASE queued = {}
      BY <2>6, <3>2 DEF NoUpdate, InvalidInv, ControlInv, Collect
    <3> QED
      BY <3>1, <3>2
  <2>7. CASE Manifest
    BY <2>7 DEF Manifest, InvalidInv, ControlInv, Inert, Collect
  <2>8. CASE Download
    BY <2>8 DEF Download, InvalidInv, ControlInv, Collect
  <2>9. CASE Arrive
    BY <2>9 DEF Arrive, InvalidInv, Collect
  <2>10. CASE CheckFails
    BY <2>10 DEF CheckFails, InvalidInv, Collect
  <2>11. ASSUME Proceed, Downloading PROVE InvalidInv'
    <3>1. status \in {"prepare", "ready"}
      BY <2>11 DEF ControlInv
    <3>2. CASE InternalApply
      BY <2>2, <3>1, <3>2
    <3>3. CASE ~autoApply
      BY <2>11, <3>1, <3>3 DEF Proceed, InvalidInv, Collect
    <3> QED
      BY <2>11, <3>2, <3>3 DEF Proceed
  <2>12. CASE Wait
    BY <2>11, <2>12 DEF Wait, Downloading, InvalidInv, Collect
  <2>13. CASE LoadChunk
    BY <2>13 DEF LoadChunk, InvalidInv, Collect
  <2>14. CASE Unblock
    BY <2>14 DEF Unblock, InvalidInv, ControlInv, Collect
  <2>15. CASE Unblocked
    BY <2>11, <2>15 DEF Unblocked, Downloading, InvalidInv, Collect
  <2>16. CASE UNCHANGED vars
    BY <2>16 DEF vars, InvalidInv, Collect
  <2> QED
    BY <2>1, <2>3, <2>4, <2>5, <2>6, <2>7, <2>8, <2>9, <2>10, <2>12, <2>13, <2>14, <2>15,
       <2>16 DEF Next, CheckStep
<1> QED
  BY <1>1, <1>2, ControlCorrect, PTL DEF Spec

\* Corollary: a module that invalidated itself is replaced by the time the page is
\* idle, unless it did so in the window.
THEOREM InvalidatedIsReplacedCorrect == Spec => []InvalidatedIsReplaced
<1>1. ControlInv /\ InvalidInv => InvalidatedIsReplaced
  BY DEF ControlInv, InvalidInv, InvalidatedIsReplaced, Inert, Collect
<1> QED
  BY <1>1, ControlCorrect, InvalidCorrect, PTL

(***************************************************************************)
(* The modules of the page.                                                *)
(***************************************************************************)

\* Replacing what is outdated keeps the page closed and up to date: a parent
\* that is kept accepts the module, or the module accepts itself.
LEMMA ReplaceKeepsPage ==
  ASSUME TypeOK, PageInv, Replace(Outdated(Collect), updated), app' = app
  PROVE  PageInv'
<1> DEFINE O == Outdated(Collect)
           kept == cache \ O
           G == {e \in app.requires : e[2] \notin kept}
           S == Told(O) \cup Again(O)
           fresh == Reachable(G, S)
<1>1. /\ app.requires \subseteq Module \X Module
      /\ app.accepts \subseteq app.requires
      /\ app.self \subseteq Module
  BY HotUpdateAssumption DEF HotUpdateAssumption, TypeOK, IsApp
<1>2. /\ cache \subseteq Module /\ O \subseteq Module /\ Collect \subseteq Module
  BY OutdatedModules DEF TypeOK
<1>3. /\ Collect \subseteq O
      /\ \A e \in app.requires \ app.accepts :
            ~StopsAt(e[2]) /\ e[1] \in cache /\ e[2] \in O => e[1] \in O
  <2> DEFINE H == {<<e[2], e[1]>> : e \in {e \in app.requires \ app.accepts :
                                             ~StopsAt(e[2]) /\ e[1] \in cache}}
  <2>1. H \in SUBSET (Module \X Module) /\ O = Reachable(H, Collect)
    BY <1>1 DEF Outdated
  <2> HIDE DEF O, H
  <2>2. Collect \subseteq O /\ \A f \in H : f[1] \in O => f[2] \in O
    <3>1. Collect \in SUBSET Module
      BY <1>2
    <3> QED
      BY <2>1, <3>1, ReachableClosed
  <2> SUFFICES ASSUME NEW e \in app.requires \ app.accepts, ~StopsAt(e[2]),
                      e[1] \in cache, e[2] \in O
               PROVE  e[1] \in O
    BY <2>2
  <2>3. <<e[2], e[1]>> \in H
    BY DEF H
  <2> QED
    BY <2>2, <2>3
<1>4. /\ fresh \subseteq Module /\ S \subseteq fresh
      /\ \A e \in G : e[1] \in fresh => e[2] \in fresh
  <2>1. G \in SUBSET (Module \X Module) /\ S \in SUBSET Module
    BY <1>1, <1>2 DEF Told, Again
  <2> QED
    BY <2>1, ReachableClosed
<1>5. /\ cache' = kept \cup fresh
      /\ current' = {e \in current : e[1] \in kept /\ e[2] \in kept} \cup Pairs(fresh)
                       \cup {e \in app.accepts : e[1] \in kept /\ e[2] \in Told(O)}
      /\ old' = (old \cup updated) \cap kept
  BY DEF Replace
<1> HIDE DEF O, kept, G, S, fresh
<1>6. old' = {}
  BY <1>3, <1>5 DEF PageInv, Collect, kept
<1>7. ASSUME NEW e \in Pairs(cache')
      PROVE  e[2] \in cache' /\ (e \in current' \/ e[2] \in app.self)
  <2>1. e \in app.requires /\ e[1] \in kept \cup fresh
    BY <1>5, <1>7 DEF Pairs
  <2>2. CASE e[1] \in fresh
    <3>1. e \in Pairs(fresh)
      BY <2>1, <2>2 DEF Pairs
    <3>2. e[2] \in kept \/ e[2] \in fresh
      BY <1>4, <2>1, <2>2 DEF G
    <3> QED
      BY <1>5, <3>1, <3>2
  <2>3. CASE e[1] \in kept
    <3>1. /\ e[1] \in cache /\ e[1] \notin O /\ e[2] \in cache
          /\ e \in current \/ e[2] \in app.self
      BY <2>1, <2>3 DEF PageInv, Pairs, kept
    <3>2. CASE e[2] \in kept
      BY <1>5, <2>3, <3>1, <3>2
    <3>3. CASE e[2] \notin kept /\ StopsAt(e[2])
      <4>1. e[2] \in O /\ e[2] \in app.self /\ e[2] \notin invalid
        BY <3>1, <3>3 DEF StopsAt, kept
      <4>2. e[2] \in Again(O)
        BY <3>1, <4>1 DEF Again
      <4> QED
        BY <1>4, <1>5, <4>1, <4>2 DEF S
    <3>4. CASE e[2] \notin kept /\ ~StopsAt(e[2])
      <4>1. e[2] \in O /\ e \in app.accepts
        BY <1>3, <2>1, <3>1, <3>4 DEF kept
      <4>2. e[2] \in Told(O)
        BY <3>1, <3>4, <4>1 DEF Told
      <4> QED
        BY <1>4, <1>5, <2>3, <4>1, <4>2 DEF S
    <3> QED
      BY <3>2, <3>3, <3>4
  <2> QED
    BY <2>1, <2>2, <2>3
<1> QED
  BY <1>6, <1>7 DEF PageInv, Pairs

\* In no status is there a module that has required a replaced instance.
THEOREM PageCorrect == Spec => []PageInv
<1>1. Init => PageInv
  <2> SUFFICES ASSUME Init PROVE PageInv
    OBVIOUS
  <2>1. app.requires \in SUBSET (Module \X Module) /\ {Main} \in SUBSET Module
    BY HotUpdateAssumption DEF HotUpdateAssumption, Init, IsApp
  <2>2. \A e \in app.requires : e[1] \in cache => e[2] \in cache
    BY <2>1, ReachableClosed DEF Init
  <2> QED
    BY <2>2 DEF Init, PageInv, Pairs
<1>2. TypeOK /\ PageInv /\ [Next]_vars => PageInv'
  <2> SUFFICES ASSUME TypeOK, PageInv, [Next]_vars PROVE PageInv'
    OBVIOUS
  <2> USE DEF update, page, counts
  <2>1. CASE UNCHANGED <<app, cache, current, old>>
    BY <2>1 DEF PageInv, Pairs
  <2>2. ASSUME InternalApply, app' = app PROVE PageInv'
    BY <2>1, <2>2, ReplaceKeepsPage DEF InternalApply
  <2>3. CASE Apply \/ Settle
    BY <2>1, <2>2, <2>3 DEF Apply, Settle, Fail, Finish
  <2>4. CASE Wait \/ Unblocked
    BY <2>1, <2>2, <2>4 DEF Wait, Unblocked, Proceed
  <2> QED
    BY <2>1, <2>3, <2>4
       DEF Next, CheckStep, vars, Invalidate, Check, NoUpdate, Manifest, Download, Arrive,
           CheckFails, LoadChunk, Unblock
<1> QED
  BY <1>1, <1>2, ControlCorrect, PTL DEF Spec

\* Corollary: the property of that name.
THEOREM NoStaleModuleCorrect == Spec => []NoStaleModule
<1>1. PageInv => NoStaleModule
  BY DEF PageInv, NoStaleModule
<1> QED
  BY <1>1, PageCorrect, PTL

(***************************************************************************)
(* Snapshots: what can be reached from a snapshot through its children.    *)
(***************************************************************************)

Graph(K) == \A t \in DOMAIN K : K[t] \subseteq DOMAIN K
Closed(K, C) == \A t \in C : K[t] \subseteq C
Acyclic(K) == \A S \in SUBSET DOMAIN K : S # {} => \E t \in S : K[t] \cap S = {}
Reach(K, s) == {t \in DOMAIN K : \A C \in SUBSET DOMAIN K : s \in C /\ Closed(K, C) => t \in C}

\* What is reached from s contains s, lies in the graph and is closed.
LEMMA ReachFacts ==
    ASSUME NEW K, Graph(K), NEW s \in DOMAIN K
    PROVE  /\ s \in Reach(K, s) /\ Reach(K, s) \subseteq DOMAIN K
           /\ Closed(K, Reach(K, s))
           /\ \A C \in SUBSET DOMAIN K : s \in C /\ Closed(K, C) => Reach(K, s) \subseteq C
  BY DEF Reach, Closed, Graph

\* What a child reaches, its parent reaches.
LEMMA ReachOfKid ==
    ASSUME NEW K, Graph(K), NEW s \in DOMAIN K, NEW t \in Reach(K, s)
    PROVE  Reach(K, t) \subseteq Reach(K, s)
  <1>1. t \in DOMAIN K
    BY ReachFacts
  <1> QED
    BY <1>1, ReachFacts

\* The parent, and what its children reach.
LEMMA ReachUnfolds ==
    ASSUME NEW K, Graph(K), NEW s \in DOMAIN K
    PROVE  Reach(K, s) = {s} \cup UNION {Reach(K, k) : k \in K[s]}
  <1> DEFINE C == {s} \cup UNION {Reach(K, k) : k \in K[s]}
  <1>1. K[s] \subseteq DOMAIN K /\ K[s] \subseteq Reach(K, s)
    BY ReachFacts DEF Graph, Closed
  <1>2. C \subseteq Reach(K, s)
    BY <1>1, ReachFacts, ReachOfKid
  <1>3. Closed(K, C)
    <2> SUFFICES ASSUME NEW t \in C PROVE K[t] \subseteq C
      BY DEF Closed
    <2>1. CASE t = s
      BY <1>1, <2>1, ReachFacts
    <2>2. CASE t # s
      <3>1. PICK k \in K[s] : t \in Reach(K, k)
        BY <2>2
      <3>2. K[t] \subseteq Reach(K, k)
        BY <1>1, <3>1, ReachFacts DEF Closed
      <3> QED
        BY <3>2
    <2> QED
      BY <2>1, <2>2
  <1>4. C \subseteq DOMAIN K
    BY <1>1, ReachFacts
  <1>5. Reach(K, s) \subseteq C
    <2>1. s \in C
      OBVIOUS
    <2> HIDE DEF C
    <2> QED
      BY <1>3, <1>4, <2>1, ReachFacts
  <1> QED
    BY <1>2, <1>5

\* The recursion of Below ends in a graph without cycles, and gives what is reached.
LEMMA BelowIsReach ==
    ASSUME NEW K, Graph(K), Acyclic(K), NEW s \in DOMAIN K
    PROVE  Below(K, s) = Reach(K, s)
  <1> DEFINE F == [t \in DOMAIN K |-> Reach(K, t)]
  <1>1. F = [t \in DOMAIN K |-> {t} \cup UNION {F[k] : k \in K[t]}]
    <2>1. \A t \in DOMAIN K : Reach(K, t) = {t} \cup UNION {F[k] : k \in K[t]}
      <3> SUFFICES ASSUME NEW t \in DOMAIN K PROVE Reach(K, t) = {t} \cup UNION {F[k] : k \in K[t]}
        OBVIOUS
      <3>1. \A k \in K[t] : F[k] = Reach(K, k)
        BY DEF Graph
      <3> HIDE DEF F
      <3>2. UNION {F[k] : k \in K[t]} = UNION {Reach(K, k) : k \in K[t]}
        BY <3>1
      <3> QED
        BY <3>2, ReachUnfolds
    <2> QED
      BY <2>1
  <1>2. \E f : f = [t \in DOMAIN K |-> {t} \cup UNION {f[k] : k \in K[t]}]
    <2> HIDE DEF F
    <2> QED
      BY <1>1, Zenon
  <1> HIDE DEF F
  <1> DEFINE Of == CHOOSE f : f = [t \in DOMAIN K |-> {t} \cup UNION {f[k] : k \in K[t]}]
  <1>3. Of = [t \in DOMAIN K |-> {t} \cup UNION {Of[k] : k \in K[t]}]
    BY <1>2, Zenon
  <1>4. Below(K, s) = Of[s]
    BY Zenon DEF Below
  <1> HIDE DEF Of
  <1>5. \A t \in DOMAIN K : Of[t] = {t} \cup UNION {Of[k] : k \in K[t]}
    BY <1>3, Zenon
  <1> DEFINE B == {t \in DOMAIN K : Of[t] # Reach(K, t)}
  <1>6. B = {}
    <2>1. SUFFICES ASSUME B # {} PROVE FALSE
      OBVIOUS
    <2>2. PICK t \in B : K[t] \cap B = {}
      BY <2>1 DEF Acyclic
    <2>3. \A k \in K[t] : Of[k] = Reach(K, k)
      BY <2>2 DEF Graph
    <2>4. UNION {Of[k] : k \in K[t]} = UNION {Reach(K, k) : k \in K[t]}
      BY <2>3
    <2>5. Of[t] = Reach(K, t)
      BY <1>5, <2>2, <2>4, ReachUnfolds
    <2> QED
      BY <2>2, <2>5
  <1> QED
    BY <1>4, <1>6

\* Who is nobody's child is reached from itself only.
LEMMA NobodysKid ==
    ASSUME NEW K, Graph(K), NEW n \in DOMAIN K, \A t \in DOMAIN K : n \notin K[t],
           NEW s \in DOMAIN K, s # n
    PROVE  n \notin Reach(K, s)
  <1> DEFINE C == DOMAIN K \ {n}
  <1>1. s \in C /\ Closed(K, C) /\ C \in SUBSET DOMAIN K
    BY DEF Closed, Graph
  <1> QED
    BY <1>1, ReachFacts

\* A new child c, without children, of those in X.
NewLeaf(K, L, X, c) ==
    /\ Graph(K) /\ c \notin DOMAIN K /\ X \subseteq DOMAIN K
    /\ DOMAIN L = DOMAIN K \cup {c} /\ L[c] = {}
    /\ \A t \in DOMAIN K : L[t] = IF t \in X THEN K[t] \cup {c} ELSE K[t]

\* A new vertex without children, below every vertex of X, is reached by what reaches one of X.
LEMMA NewLeafReach ==
    ASSUME NEW K, NEW L, NEW X, NEW c, NewLeaf(K, L, X, c)
    PROVE  /\ Graph(L) /\ Reach(L, c) = {c}
           /\ \A s \in DOMAIN K : Reach(L, s) = Reach(K, s) \cup {x \in {c} : Reach(K, s) \cap X # {}}
           /\ Acyclic(K) => Acyclic(L)
  <1> USE DEF NewLeaf
  <1>1. Graph(L)
    BY DEF Graph
  <1>2. Reach(L, c) = {c}
    <2>1. Closed(L, {c}) /\ {c} \in SUBSET DOMAIN L
      BY DEF Closed
    <2> QED
      BY <1>1, <2>1, ReachFacts
  <1>3. ASSUME NEW s \in DOMAIN K
        PROVE  Reach(L, s) = Reach(K, s) \cup {x \in {c} : Reach(K, s) \cap X # {}}
    <2> DEFINE C == Reach(K, s) \cup {x \in {c} : Reach(K, s) \cap X # {}}
    <2>1. Reach(L, s) \subseteq C
      <3>1. s \in C /\ C \in SUBSET DOMAIN L
        BY ReachFacts
      <3>2. Closed(L, C)
        <4> SUFFICES ASSUME NEW t \in C PROVE L[t] \subseteq C
          BY DEF Closed
        <4>1. CASE t = c
          BY <4>1
        <4>2. CASE t # c
          <5>1. t \in Reach(K, s) /\ K[t] \subseteq Reach(K, s) /\ t \in DOMAIN K
            BY <4>2, ReachFacts DEF Closed
          <5> QED
            BY <5>1
        <4> QED
          BY <4>1, <4>2
      <3> HIDE DEF C
      <3> QED
        BY <1>1, <3>1, <3>2, ReachFacts
    <2>2. Reach(K, s) \subseteq Reach(L, s)
      <3> DEFINE D == Reach(L, s) \cap DOMAIN K
      <3>1. s \in D /\ D \in SUBSET DOMAIN K
        BY <1>1, ReachFacts
      <3>2. Closed(K, D)
        <4> SUFFICES ASSUME NEW t \in D PROVE K[t] \subseteq D
          BY DEF Closed
        <4>1. L[t] \subseteq Reach(L, s)
          BY <1>1, ReachFacts DEF Closed
        <4> QED
          BY <4>1 DEF Graph
      <3> HIDE DEF D
      <3>3. Reach(K, s) \subseteq D
        BY <3>1, <3>2, ReachFacts
      <3> QED
        BY <3>3 DEF D
    <2>3. ASSUME NEW x \in Reach(K, s) \cap X PROVE c \in Reach(L, s)
      <3>1. x \in Reach(L, s) /\ c \in L[x]
        BY <2>2
      <3> QED
        BY <1>1, <3>1, ReachFacts DEF Closed
    <2> QED
      BY <2>1, <2>2, <2>3
  <1>4. ASSUME Acyclic(K) PROVE Acyclic(L)
    <2> SUFFICES ASSUME NEW S \in SUBSET DOMAIN L, S # {} PROVE \E t \in S : L[t] \cap S = {}
      BY DEF Acyclic
    <2>1. CASE c \in S
      BY <2>1
    <2>2. CASE c \notin S
      <3>1. S \in SUBSET DOMAIN K
        BY <2>2
      <3>2. PICK t \in S : K[t] \cap S = {}
        BY <1>4, <3>1 DEF Acyclic
      <3>3. L[t] \subseteq K[t] \cup {c}
        BY <3>1
      <3> QED
        BY <2>2, <3>2, <3>3
    <2> QED
      BY <2>1, <2>2
  <1> QED
    BY <1>1, <1>2, <1>3, <1>4

\* A new edge, from n, who is nobody's child, to e.
NewEdge(K, L, n, e) ==
    /\ Graph(K) /\ n \in DOMAIN K /\ e \in DOMAIN K /\ n # e
    /\ \A t \in DOMAIN K : n \notin K[t]
    /\ DOMAIN L = DOMAIN K
    /\ \A t \in DOMAIN K : L[t] = IF t = n THEN K[t] \cup {e} ELSE K[t]

\* A new edge from n, which has no parent, to e: n now reaches what e reaches.
LEMMA NewEdgeReach ==
    ASSUME NEW K, NEW L, NEW n, NEW e, NewEdge(K, L, n, e)
    PROVE  /\ Graph(L)
           /\ \A s \in DOMAIN K : s # n => Reach(L, s) = Reach(K, s)
           /\ Reach(L, n) = Reach(K, n) \cup Reach(K, e)
           /\ Acyclic(K) => Acyclic(L)
  <1> USE DEF NewEdge
  <1>1. Graph(L)
    BY DEF Graph
  <1>2. ASSUME NEW s \in DOMAIN K PROVE Reach(K, s) \subseteq Reach(L, s)
    <2>1. s \in Reach(L, s) /\ Reach(L, s) \in SUBSET DOMAIN K
      BY <1>1, ReachFacts
    <2>2. Closed(K, Reach(L, s))
      <3> SUFFICES ASSUME NEW t \in Reach(L, s) PROVE K[t] \subseteq Reach(L, s)
        BY DEF Closed
      <3>1. L[t] \subseteq Reach(L, s)
        BY <1>1, ReachFacts DEF Closed
      <3> QED
        BY <2>1, <3>1
    <2> QED
      BY <2>1, <2>2, ReachFacts
  <1>3. ASSUME NEW s \in DOMAIN K, s # n PROVE Reach(L, s) \subseteq Reach(K, s)
    <2>1. n \notin Reach(K, s)
      BY <1>3, NobodysKid
    <2>2. s \in Reach(K, s) /\ Reach(K, s) \in SUBSET DOMAIN L
      BY ReachFacts
    <2>3. Closed(L, Reach(K, s))
      BY <2>1, <2>2, ReachFacts DEF Closed
    <2> QED
      BY <1>1, <2>2, <2>3, ReachFacts
  <1>4. Reach(L, n) \subseteq Reach(K, n) \cup Reach(K, e)
    <2> DEFINE C == Reach(K, n) \cup Reach(K, e)
    <2>1. n \in C /\ C \in SUBSET DOMAIN L
      BY ReachFacts
    <2>2. Closed(L, C)
      <3> SUFFICES ASSUME NEW t \in C PROVE L[t] \subseteq C
        BY DEF Closed
      <3>1. K[t] \subseteq C /\ t \in DOMAIN K
        BY ReachFacts DEF Closed
      <3>2. e \in C
        BY ReachFacts
      <3> HIDE DEF C
      <3> QED
        BY <3>1, <3>2
    <2> HIDE DEF C
    <2>3. Reach(L, n) \subseteq C
      BY <1>1, <2>1, <2>2, ReachFacts
    <2> QED
      BY <2>3 DEF C
  <1>5. Reach(K, e) \subseteq Reach(L, n)
    <2>1. e \in L[n]
      OBVIOUS
    <2>2. e \in Reach(L, n)
      BY <1>1, <2>1, ReachFacts DEF Closed
    <2>3. Reach(L, e) \subseteq Reach(L, n)
      BY <1>1, <2>2, ReachOfKid
    <2> QED
      BY <1>2, <2>3
  <1>6. ASSUME Acyclic(K) PROVE Acyclic(L)
    <2> SUFFICES ASSUME NEW S \in SUBSET DOMAIN L, S # {} PROVE \E t \in S : L[t] \cap S = {}
      BY DEF Acyclic
    <2>1. CASE S = {n}
      BY <2>1
    <2>2. CASE S # {n}
      <3>1. S \ {n} # {} /\ S \ {n} \in SUBSET DOMAIN K
        BY <2>2
      <3>2. PICK t \in S \ {n} : K[t] \cap (S \ {n}) = {}
        BY <1>6, <3>1 DEF Acyclic
      <3>3. L[t] = K[t] /\ n \notin K[t]
        BY <3>1, <3>2
      <3> QED
        BY <3>2, <3>3
    <2> QED
      BY <2>1, <2>2
  <1> QED
    BY <1>1, <1>2, <1>3, <1>4, <1>5, <1>6

\* Multiples.
LEMMA Remainder ==
    ASSUME NEW a \in Nat, NEW g \in Nat \ {0}
    PROVE  a % g \in Nat /\ a % g < g /\ a % g <= a
  OBVIOUS

\* Remainders: what Mtime and applyMtime compute.
LEMMA Multiple == ASSUME NEW q \in Nat, NEW d \in Nat \ {0} PROVE (q * d) % d = 0
  OBVIOUS

\* Every number is a multiple and a remainder.
LEMMA Quotient ==
    ASSUME NEW a \in Nat, NEW g \in Nat \ {0}
    PROVE  \E q \in Nat : a = q * g + (a % g)
  <1>1. (a \div g) \in Nat /\ a = (a \div g) * g + (a % g)
    OBVIOUS
  <1> QED
    BY <1>1

\* clock - (clock % grain) is the last multiple of the granularity.
LEMMA RoundedDown ==
    ASSUME NEW a \in Nat, NEW g \in Nat \ {0}
    PROVE  (a - (a % g)) % g = 0
  <1>1. PICK q \in Nat : a = q * g + (a % g)
    BY Quotient
  <1>2. a % g \in Nat /\ q * g \in Nat
    OBVIOUS
  <1>3. a - (a % g) = q * g
    BY <1>1, <1>2
  <1> QED
    BY <1>3, Multiple

\* A multiple of a multiple is a multiple.
LEMMA MultipleOfMultiple ==
    ASSUME NEW m \in Nat, NEW g \in Nat \ {0}, NEW d \in Nat \ {0}, m % g = 0, g % d = 0
    PROVE  m % d = 0
  <1>1. PICK k \in Nat : m = k * g + (m % g)
    BY Quotient
  <1>2. PICK j \in Nat : g = j * d + (g % d)
    BY Quotient
  <1>3. m = k * g /\ g = j * d
    BY <1>1, <1>2
  <1>4. m = (k * j) * d /\ k * j \in Nat
    BY <1>3
  <1> QED
    BY <1>4, Multiple

(***************************************************************************)
(* Snapshots: what they hold, and what optimize() keeps of it.             *)
(***************************************************************************)

Readings == {Unread, Failed, Absent} \cup {File(v, safe) : v \in Nat, safe \in Nat}
Kept == [stamp : Readings \cup {Untimed}, hash : Readings]
Owns == UNION {[D -> Kept] : D \in SUBSET Path}
SnapType == [start : Nat, own : Owns, kids : SUBSET Nat, ready : BOOLEAN]
EntryType == [shared : Nat, content : SUBSET Path, kids : SUBSET Nat]
OptType == [snap : Seq(SnapType), entry : Seq(EntryType), owner : [Path -> Nat], left : SUBSET Path]

KidsOf(S) == [t \in 1 .. Len(S) |-> S[t].kids]
Under(S, s) == Reach(KidsOf(S), s)

\* Snapshot s, or one under it, has the entry x for path p.
Holds(S, s, p, x) == \E t \in Under(S, s) : p \in DOMAIN S[t].own /\ S[t].own[p] = x
Covers(S, s) == UNION {DOMAIN S[t].own : t \in Under(S, s)}

\* A child is complete, and did not start later.
SnapsInv(S) ==
    /\ S \in Seq(SnapType)
    /\ \A s \in 1 .. Len(S) : S[s].kids \subseteq 1 .. Len(S)
    /\ Acyclic(KidsOf(S))
    /\ \A s \in 1 .. Len(S) : \A k \in S[s].kids : S[k].ready
    /\ \A s \in 1 .. Len(S) : ~ S[s].ready => DOMAIN S[s].own = {}
    /\ UsesStart => \A s \in 1 .. Len(S) : S[s].start > 0 /\ \A k \in S[s].kids : S[k].start <= S[s].start

\* What is shared is complete, and its content is what it covers.
EntriesInv(S, E) ==
    /\ E \in Seq(EntryType) /\ Len(E) = Len(S)
    /\ \A x \in 1 .. Len(E) : E[x].kids \subseteq S[x].kids
    /\ \A x \in 1 .. Len(E) : E[x].shared > 0 =>
          /\ S[x].ready /\ E[x].content = Covers(S, x)
          /\ \A k \in E[x].kids : E[k].shared > 0

\* On the way through optimize(): the first "prior" snapshots are of an earlier
\* compilation, "before" are the snapshots there were, the next one is made of
\* "files" at time "start".
OptInv(o, before, prior, start, files) ==
    LET new == Len(before) + 1
    IN  /\ o \in OptType /\ SnapsInv(o.snap) /\ EntriesInv(o.snap, o.entry)
        /\ new <= Len(o.snap)
        /\ \A p \in Path : o.owner[p] = 0 \/ o.owner[p] \in (prior + 1) .. Len(o.snap)
        /\ \A s \in 1 .. prior : o.snap[s] = before[s] /\ o.entry[s].shared = 0
        /\ \A s \in (prior + 1) .. Len(o.snap) : o.snap[s].kids \subseteq (prior + 1) .. Len(o.snap)
        /\ \A s \in 1 .. Len(before) :
              /\ o.snap[s].start = before[s].start /\ o.snap[s].ready = before[s].ready
              /\ \A p, x : Holds(o.snap, s, p, x) <=> Holds(before, s, p, x)
        /\ \A s \in (prior + 1) .. Len(o.snap) : \A p \in DOMAIN o.snap[s].own :
              \E t \in (prior + 1) .. Len(before) :
                  p \in DOMAIN before[t].own /\ before[t].own[p] = o.snap[s].own[p]
        /\ o.snap[new].start = start /\ ~ o.snap[new].ready
        /\ Covers(o.snap, new) \cup o.left = files

\* The children of well-formed snapshots are a graph without cycles.
LEMMA KidsOfFacts ==
    ASSUME NEW S, SnapsInv(S)
    PROVE  /\ Len(S) \in Nat /\ DOMAIN KidsOf(S) = 1 .. Len(S)
           /\ \A s \in 1 .. Len(S) : KidsOf(S)[s] = S[s].kids /\ S[s] \in SnapType
           /\ Graph(KidsOf(S)) /\ Acyclic(KidsOf(S))
  <1>1. Len(S) \in Nat /\ \A s \in 1 .. Len(S) : S[s] \in SnapType
    BY LenProperties DEF SnapsInv
  <1>2. DOMAIN KidsOf(S) = 1 .. Len(S) /\ \A s \in 1 .. Len(S) : KidsOf(S)[s] = S[s].kids
    BY DEF KidsOf
  <1>3. Graph(KidsOf(S))
    BY <1>2 DEF Graph, SnapsInv
  <1> QED
    BY <1>1, <1>2, <1>3 DEF SnapsInv

\* What is under a snapshot, which is the least closed set it is in.
LEMMA UnderFacts ==
    ASSUME NEW S, SnapsInv(S), NEW s \in 1 .. Len(S)
    PROVE  /\ s \in Under(S, s) /\ Under(S, s) \subseteq 1 .. Len(S)
           /\ \A t \in Under(S, s) : S[t].kids \subseteq Under(S, s) /\ Under(S, t) \subseteq Under(S, s)
           /\ \A C \in SUBSET (1 .. Len(S)) : s \in C /\ (\A t \in C : S[t].kids \subseteq C) => Under(S, s) \subseteq C
  <1> DEFINE K == KidsOf(S)
  <1>1. Graph(K) /\ DOMAIN K = 1 .. Len(S) /\ s \in DOMAIN K
    BY KidsOfFacts
  <1>2. \A t \in 1 .. Len(S) : K[t] = S[t].kids
    BY KidsOfFacts
  <1> HIDE DEF K
  <1>3. /\ s \in Reach(K, s) /\ Reach(K, s) \subseteq DOMAIN K
        /\ Closed(K, Reach(K, s))
        /\ \A C \in SUBSET DOMAIN K : s \in C /\ Closed(K, C) => Reach(K, s) \subseteq C
    BY <1>1, ReachFacts
  <1>4. \A t \in Reach(K, s) : Reach(K, t) \subseteq Reach(K, s)
    BY <1>1, ReachOfKid
  <1>5. \A t : Under(S, t) = Reach(K, t)
    BY DEF Under, K
  <1>6. \A t \in Reach(K, s) : S[t].kids \subseteq Reach(K, s)
    BY <1>1, <1>2, <1>3 DEF Closed
  <1>7. ASSUME NEW C \in SUBSET (1 .. Len(S)), s \in C, \A t \in C : S[t].kids \subseteq C
        PROVE  Reach(K, s) \subseteq C
    <2>1. Closed(K, C)
      BY <1>2, <1>7 DEF Closed
    <2> QED
      BY <1>1, <1>3, <1>7, <2>1
  <1> QED
    BY <1>1, <1>3, <1>4, <1>5, <1>6, <1>7

\* What is covered is what is held.
LEMMA CoversHolds ==
    ASSUME NEW S, NEW s, NEW R, NEW r, \A p, x : Holds(S, s, p, x) <=> Holds(R, r, p, x)
    PROVE  Covers(S, s) = Covers(R, r)
  <1>1. ASSUME NEW q, NEW u, NEW p PROVE p \in Covers(q, u) <=> \E x : Holds(q, u, p, x)
    <2>1. ASSUME p \in Covers(q, u) PROVE \E x : Holds(q, u, p, x)
      <3>1. PICK t \in Under(q, u) : p \in DOMAIN q[t].own
        BY <2>1 DEF Covers
      <3>2. Holds(q, u, p, q[t].own[p])
        BY <3>1 DEF Holds
      <3> QED
        BY <3>2
    <2>2. ASSUME NEW x, Holds(q, u, p, x) PROVE p \in Covers(q, u)
      BY <2>2 DEF Covers, Holds
    <2> QED
      BY <2>1, <2>2
  <1>2. \A p : p \in Covers(S, s) <=> p \in Covers(R, r)
    <2> SUFFICES ASSUME NEW p PROVE p \in Covers(S, s) <=> p \in Covers(R, r)
      OBVIOUS
    <2>1. p \in Covers(S, s) <=> \E x : Holds(S, s, p, x)
      BY <1>1
    <2>2. p \in Covers(R, r) <=> \E x : Holds(R, r, p, x)
      BY <1>1
    <2> QED
      BY <2>1, <2>2
  <1> HIDE DEF Covers
  <1> QED
    BY <1>2

\* S becomes R: "paths" of snapshot e are in a new one, a child of e and n.
Extracted(S, R, n, e, paths, start) ==
    LET c == Len(S) + 1
    IN  /\ R \in Seq(SnapType) /\ Len(R) = c
        /\ R[c].own = Only(S[e].own, paths) /\ R[c].kids = {} /\ R[c].ready /\ R[c].start = start
        /\ \A s \in 1 .. Len(S) :
              /\ R[s].start = S[s].start /\ R[s].ready = S[s].ready
              /\ R[s].kids = IF s \in {n, e} THEN S[s].kids \cup {c} ELSE S[s].kids
              /\ R[s].own = IF s = e THEN Only(S[e].own, DOMAIN S[e].own \ paths) ELSE S[s].own

\* Moving paths of e to a new child of n and e leaves every snapshot but n what it held.
LEMMA ExtractedFacts ==
    ASSUME NEW S, NEW R, NEW n \in 1 .. Len(S), NEW e \in 1 .. Len(S), NEW paths, NEW start,
           SnapsInv(S), Extracted(S, R, n, e, paths, start),
           n # e, ~ S[n].ready, S[e].ready, paths \subseteq DOMAIN S[e].own,
           UsesStart => start > 0 /\ start <= S[n].start /\ start <= S[e].start
    PROVE  /\ SnapsInv(R)
           /\ \A s \in 1 .. Len(S) : s # n => \A p, x : Holds(R, s, p, x) <=> Holds(S, s, p, x)
           /\ Covers(R, n) = Covers(S, n) \cup paths
           /\ Covers(R, Len(S) + 1) = paths
  <1> DEFINE c == Len(S) + 1
             K == KidsOf(S)
             L == KidsOf(R)
  <1>1. /\ Len(S) \in Nat /\ DOMAIN K = 1 .. Len(S) /\ Graph(K) /\ Acyclic(K)
        /\ \A s \in 1 .. Len(S) : K[s] = S[s].kids /\ S[s] \in SnapType
    BY KidsOfFacts
  <1>2. DOMAIN L = 1 .. c /\ \A s \in 1 .. c : L[s] = R[s].kids
    BY <1>1 DEF KidsOf, Extracted
  <1> HIDE DEF K, L
  <1>3. c \notin 1 .. Len(S) /\ 1 .. c = (1 .. Len(S)) \cup {c}
    BY <1>1
  <1>4. NewLeaf(K, L, {n, e}, c)
    <2>1. L[c] = {}
      BY <1>2, <1>3 DEF Extracted
    <2>2. \A t \in 1 .. Len(S) : L[t] = IF t \in {n, e} THEN K[t] \cup {c} ELSE K[t]
      BY <1>1, <1>2, <1>3 DEF Extracted
    <2> HIDE DEF c
    <2> QED
      BY <1>1, <1>2, <1>3, <2>1, <2>2 DEF NewLeaf
  <1>5. /\ Graph(L) /\ Acyclic(L) /\ Reach(L, c) = {c}
        /\ \A s \in 1 .. Len(S) : Reach(L, s) = Reach(K, s) \cup {x \in {c} : Reach(K, s) \cap {n, e} # {}}
    BY <1>1, <1>4, NewLeafReach
  <1>6. /\ Under(R, c) = {c} /\ \A s : Under(S, s) = Reach(K, s)
        /\ \A s \in 1 .. Len(S) : Under(R, s) = Under(S, s) \cup {x \in {c} : Under(S, s) \cap {n, e} # {}}
    BY <1>5 DEF Under, K, L
  <1>7. \A s \in 1 .. Len(S) : Under(S, s) \subseteq 1 .. Len(S) /\ s \in Under(S, s)
    BY UnderFacts
  <1>8. \A t \in 1 .. Len(S) : n \notin K[t]
    BY <1>1 DEF SnapsInv
  <1>9. \A s \in 1 .. Len(S) : s # n => n \notin Under(S, s)
    BY <1>1, <1>6, <1>8, NobodysKid
  <1>10. R[c].own = Only(S[e].own, paths) /\ R[e].own = Only(S[e].own, DOMAIN S[e].own \ paths)
    BY DEF Extracted
  <1>11. /\ DOMAIN R[c].own = paths /\ DOMAIN R[e].own = DOMAIN S[e].own \ paths
         /\ \A p \in paths : R[c].own[p] = S[e].own[p]
         /\ \A p \in DOMAIN S[e].own \ paths : R[e].own[p] = S[e].own[p]
    BY <1>10 DEF Only
  <1>12. \A t \in 1 .. Len(S) : t # e => R[t].own = S[t].own
    BY DEF Extracted
  <1>13. SnapsInv(R)
    <2>1. R \in Seq(SnapType) /\ Len(R) = c
      BY DEF Extracted
    <2>2. \A s \in 1 .. c : R[s].kids \subseteq 1 .. c
      BY <1>2, <1>5 DEF Graph
    <2>3. Acyclic(KidsOf(R))
      BY <1>5 DEF L
    <2>4. ASSUME NEW s \in 1 .. c, NEW k \in R[s].kids PROVE R[k].ready
      <3>1. CASE k = c
        BY <3>1 DEF Extracted
      <3>2. CASE k # c
        <4>1. s # c
          BY <2>4 DEF Extracted
        <4>2. s \in 1 .. Len(S) /\ k \in S[s].kids
          <5>1. s \in 1 .. Len(S)
            BY <1>3, <4>1
          <5>2. R[s].kids = IF s \in {n, e} THEN S[s].kids \cup {c} ELSE S[s].kids
            BY <5>1 DEF Extracted
          <5> QED
            BY <2>4, <3>2, <5>1, <5>2
        <4>3. k \in 1 .. Len(S) /\ S[k].ready
          BY <4>2 DEF SnapsInv
        <4> QED
          BY <4>3 DEF Extracted
      <3> QED
        BY <3>1, <3>2
    <2>5. ASSUME NEW s \in 1 .. c, ~ R[s].ready PROVE DOMAIN R[s].own = {}
      <3>1. s # c
        BY <2>5 DEF Extracted
      <3>2. s \in 1 .. Len(S) /\ ~ S[s].ready
        BY <1>3, <2>5, <3>1 DEF Extracted
      <3>3. DOMAIN S[s].own = {} /\ s # e
        BY <3>2 DEF SnapsInv
      <3> QED
        BY <1>12, <3>2, <3>3
    <2>6. ASSUME UsesStart, NEW s \in 1 .. c
          PROVE  R[s].start > 0 /\ \A k \in R[s].kids : R[k].start <= R[s].start
      <3>1. CASE s = c
        BY <2>6, <3>1 DEF Extracted
      <3>2. CASE s # c
        <4>1. s \in 1 .. Len(S) /\ R[s].start = S[s].start /\ S[s].start > 0
          BY <1>3, <2>6, <3>2 DEF Extracted, SnapsInv
        <4>2. ASSUME NEW k \in R[s].kids PROVE R[k].start <= R[s].start
          <5>1. CASE k = c
            <6>1. s \in {n, e}
              <7>1. S[s].kids \subseteq 1 .. Len(S)
                BY <4>1 DEF SnapsInv
              <7> QED
                BY <1>3, <4>1, <4>2, <5>1, <7>1 DEF Extracted
            <6>2. R[c].start = start
              BY DEF Extracted
            <6> QED
              BY <2>6, <4>1, <5>1, <6>1, <6>2
          <5>2. CASE k # c
            <6>1. k \in S[s].kids
              BY <4>1, <4>2, <5>2 DEF Extracted
            <6>2. k \in 1 .. Len(S) /\ S[k].start <= S[s].start
              BY <2>6, <4>1, <6>1 DEF SnapsInv
            <6> QED
              BY <4>1, <6>2 DEF Extracted
          <5> QED
            BY <5>1, <5>2
        <4> QED
          BY <4>1, <4>2
      <3> QED
        BY <3>1, <3>2
    <2> HIDE DEF c
    <2> QED
      BY <2>1, <2>2, <2>3, <2>4, <2>5, <2>6 DEF SnapsInv
  <1> HIDE DEF c
  <1>14. ASSUME NEW s \in 1 .. Len(S), NEW p, NEW x, Holds(R, s, p, x) PROVE Holds(S, s, p, x) \/ s = n
    <2>1. PICK t \in Under(R, s) : p \in DOMAIN R[t].own /\ R[t].own[p] = x
      BY <1>14 DEF Holds
    <2>2. SUFFICES ASSUME s # n PROVE \E u \in Under(S, s) : p \in DOMAIN S[u].own /\ S[u].own[p] = x
      BY DEF Holds
    <2>3. CASE t = c
      <3>1. e \in Under(S, s)
        BY <1>3, <1>6, <1>7, <1>9, <2>1, <2>2, <2>3
      <3>2. p \in DOMAIN S[e].own /\ S[e].own[p] = x
        BY <1>11, <2>1, <2>3
      <3> QED
        BY <3>1, <3>2
    <2>4. CASE t # c
      <3>1. t \in Under(S, s) /\ t \in 1 .. Len(S)
        BY <1>6, <1>7, <2>1, <2>4
      <3>2. p \in DOMAIN S[t].own /\ S[t].own[p] = x
        BY <1>11, <1>12, <2>1, <3>1
      <3> QED
        BY <3>1, <3>2
    <2> QED
      BY <2>3, <2>4
  <1>15. ASSUME NEW s \in 1 .. Len(S), NEW p, NEW x, Holds(S, s, p, x) PROVE Holds(R, s, p, x)
    <2>1. PICK t \in Under(S, s) : p \in DOMAIN S[t].own /\ S[t].own[p] = x
      BY <1>15 DEF Holds
    <2>2. t \in 1 .. Len(S) /\ t \in Under(R, s)
      BY <1>6, <1>7, <2>1
    <2>3. CASE t = e /\ p \in paths
      <3>1. c \in Under(R, s) /\ p \in DOMAIN R[c].own /\ R[c].own[p] = x
        BY <1>6, <1>11, <2>1, <2>3
      <3> QED
        BY <3>1 DEF Holds
    <2>4. CASE ~ (t = e /\ p \in paths)
      <3>1. p \in DOMAIN R[t].own /\ R[t].own[p] = x
        BY <1>11, <1>12, <2>1, <2>2, <2>4
      <3> QED
        BY <2>2, <3>1 DEF Holds
    <2> QED
      BY <2>3, <2>4
  <1>16. Covers(R, c) = paths
    BY <1>6, <1>11 DEF Covers
  <1>17. Covers(R, n) = Covers(S, n) \cup paths
    <2>1. ASSUME NEW p \in Covers(R, n) PROVE p \in Covers(S, n) \cup paths
      <3>1. PICK t \in Under(R, n) : p \in DOMAIN R[t].own
        BY <2>1 DEF Covers
      <3>2. CASE t = c
        BY <1>11, <3>1, <3>2
      <3>3. CASE t # c
        <4>1. t \in Under(S, n) /\ t \in 1 .. Len(S)
          BY <1>6, <1>7, <3>1, <3>3
        <4>2. p \in DOMAIN S[t].own
          BY <1>11, <1>12, <3>1, <4>1
        <4> QED
          BY <4>1, <4>2 DEF Covers
      <3> QED
        BY <3>2, <3>3
    <2>2. ASSUME NEW p \in paths PROVE p \in Covers(R, n)
      <3>1. c \in Under(R, n) /\ p \in DOMAIN R[c].own
        BY <1>6, <1>7, <1>11
      <3> QED
        BY <3>1 DEF Covers
    <2>3. ASSUME NEW p \in Covers(S, n) PROVE p \in Covers(R, n)
      <3>1. PICK t \in Under(S, n) : p \in DOMAIN S[t].own
        BY <2>3 DEF Covers
      <3>2. Holds(S, n, p, S[t].own[p])
        BY <3>1 DEF Holds
      <3>3. Holds(R, n, p, S[t].own[p])
        BY <1>15, <3>2
      <3> QED
        BY <3>3 DEF Holds, Covers
    <2> QED
      BY <2>1, <2>2, <2>3
  <1> QED
    BY <1>13, <1>14, <1>15, <1>16, <1>17 DEF c

\* A part of the entries of a snapshot is a set of entries.
LEMMA OnlyType ==
    ASSUME NEW f \in Owns, NEW D \in SUBSET DOMAIN f
    PROVE  Only(f, D) \in Owns /\ DOMAIN f \in SUBSET Path
  <1>1. PICK C \in SUBSET Path : f \in [C -> Kept]
    BY DEF Owns
  <1>2. DOMAIN f = C /\ \A p \in C : f[p] \in Kept
    BY <1>1
  <1>3. Only(f, D) \in [D -> Kept] /\ D \in SUBSET Path
    BY <1>2 DEF Only
  <1> QED
    BY <1>2, <1>3 DEF Owns

\* A sequence with changed and one new element.
LEMMA ChangedAndMore ==
    ASSUME NEW T, NEW S \in Seq(T), NEW f \in [1 .. Len(S) -> T], NEW x \in T
    PROVE  /\ f \in Seq(T) /\ Len(f) = Len(S)
           /\ Append(f, x) \in Seq(T) /\ Len(Append(f, x)) = Len(S) + 1
           /\ Append(f, x)[Len(S) + 1] = x
           /\ \A i \in 1 .. Len(S) : Append(f, x)[i] = f[i]
  <1>1. Len(S) \in Nat
    BY LenProperties
  <1>2. f \in Seq(T) /\ Len(f) = Len(S)
    BY <1>1, SeqDef, LenProperties
  <1> QED
    BY <1>1, <1>2, AppendProperties

IsOpt(o) == o = [snap |-> o.snap, entry |-> o.entry, owner |-> o.owner, left |-> o.left]

\* What storeOptimizationEntry changes: the map and the paths left.
LEMMA StoreFacts ==
    ASSUME NEW o, IsOpt(o), NEW e
    PROVE  LET q == Store(o, e)
           IN  /\ IsOpt(q) /\ q.snap = o.snap /\ q.entry = o.entry
               /\ q.left = o.left \ o.entry[e].content
               /\ q.owner = [p \in Path |->
                     IF p \in o.entry[e].content /\ o.entry[o.owner[p]].shared < o.entry[e].shared
                     THEN e ELSE o.owner[p]]
  <1> DEFINE q == Store(o, e)
             owner2 == [p \in Path |->
                          IF p \in o.entry[e].content /\ o.entry[o.owner[p]].shared < o.entry[e].shared
                          THEN e ELSE o.owner[p]]
  <1>1. q = [o EXCEPT !.owner = owner2, !.left = @ \ o.entry[e].content]
    BY DEF Store
  <1> HIDE DEF q, owner2
  <1>2. /\ IsOpt(q) /\ q.snap = o.snap /\ q.entry = o.entry
        /\ q.owner = owner2 /\ q.left = o.left \ o.entry[e].content
    BY <1>1 DEF IsOpt
  <1> QED
    BY <1>2 DEF q, owner2

\* What is extracted, before it is stored.
LEMMA ExtractIsStore ==
    ASSUME NEW o \in OptType, NEW e, NEW n, NEW paths
    PROVE  LET S == o.snap
               E == o.entry
               c == Len(S) + 1
               shared == E[e].shared > 0
               st == IF UsesStart THEN MergedStart(S[n].start, S[e].start) ELSE 0
               common == [start |-> st, own |-> Only(S[e].own, paths), kids |-> {}, ready |-> TRUE]
               one == [shared |-> IF shared THEN E[e].shared + 1 ELSE 2, content |-> paths, kids |-> {}]
           IN  Extract(o, e, n, paths) =
               Store([snap |-> Append([S EXCEPT ![n].kids = @ \cup {c}, ![e].kids = @ \cup {c},
                                                ![e].own = Only(@, DOMAIN @ \ paths)], common),
                      entry |-> Append([E EXCEPT ![e].kids = IF shared THEN @ \cup {c} ELSE @], one),
                      owner |-> o.owner, left |-> o.left], c)
  <1> DEFINE c == Len(o.snap) + 1
             shared == o.entry[e].shared > 0
             common == [start |-> IF UsesStart THEN MergedStart(o.snap[n].start, o.snap[e].start) ELSE 0,
                        own |-> Only(o.snap[e].own, paths), kids |-> {}, ready |-> TRUE]
             x == Append([o.snap EXCEPT ![n].kids = @ \cup {c}, ![e].kids = @ \cup {c},
                                        ![e].own = Only(@, DOMAIN @ \ paths)], common)
             y == Append([o.entry EXCEPT ![e].kids = IF shared THEN @ \cup {c} ELSE @],
                         [shared |-> IF shared THEN o.entry[e].shared + 1 ELSE 2,
                          content |-> paths, kids |-> {}])
             b == [o EXCEPT !.snap = x, !.entry = y]
  <1>1. Extract(o, e, n, paths) = Store(b, c)
    BY DEF Extract
  <1>2. b = [o EXCEPT !.snap = x, !.entry = y]
    OBVIOUS
  <1> HIDE DEF b, x, y
  <1>3. b = [snap |-> x, entry |-> y, owner |-> o.owner, left |-> o.left]
    BY <1>2 DEF OptType
  <1> QED
    BY <1>1, <1>3 DEF x, y

\* "e" is a snapshot of this compilation that optimize() meets.
Met(o, before, prior, start, files, e) ==
    /\ OptInv(o, before, prior, start, files)
    /\ prior \in Nat /\ Len(before) \in Nat /\ e \in (prior + 1) .. Len(before)

\* The snapshots after Extract.
LEMMA ExtractSnaps ==
    ASSUME NEW before, NEW prior, NEW start, NEW files, NEW o, NEW e,
           Met(o, before, prior, start, files, e), o.snap[e].ready,
           NEW paths, paths \subseteq DOMAIN o.snap[e].own
    PROVE  LET n == Len(before) + 1
               q == Extract(o, e, n, paths)
           IN  \E st \in Nat :
                  /\ Extracted(o.snap, q.snap, n, e, paths, st)
                  /\ UsesStart => st > 0 /\ st <= o.snap[n].start /\ st <= o.snap[e].start
  <1> DEFINE n == Len(before) + 1
             S == o.snap
             c == Len(S) + 1
             st == IF UsesStart THEN MergedStart(S[n].start, S[e].start) ELSE 0
             common == [start |-> st, own |-> Only(S[e].own, paths), kids |-> {}, ready |-> TRUE]
             f == [S EXCEPT ![n].kids = @ \cup {c}, ![e].kids = @ \cup {c},
                            ![e].own = Only(@, DOMAIN @ \ paths)]
             R == Extract(o, e, n, paths).snap
  <1>1. R = Append(f, common)
    <2>1. o \in OptType
      BY DEF Met, OptInv
    <2> DEFINE shared == o.entry[e].shared > 0
               b == [snap |-> Append(f, common),
                     entry |-> Append([o.entry EXCEPT ![e].kids = IF shared THEN @ \cup {c} ELSE @],
                                      [shared |-> IF shared THEN o.entry[e].shared + 1 ELSE 2,
                                       content |-> paths, kids |-> {}]),
                     owner |-> o.owner, left |-> o.left]
    <2>2. Extract(o, e, n, paths) = Store(b, c)
      BY <2>1, ExtractIsStore
    <2>3. IsOpt(b) /\ b.snap = Append(f, common)
      BY DEF IsOpt
    <2> HIDE DEF b
    <2>4. Store(b, c).snap = b.snap
      BY <2>3, StoreFacts
    <2> QED
      BY <2>2, <2>3, <2>4
  <1>2. SnapsInv(S) /\ S \in Seq(SnapType) /\ n \in 1 .. Len(S) /\ e \in 1 .. Len(S) /\ n # e /\ Len(S) \in Nat
    <2>1. SnapsInv(S) /\ n <= Len(S)
      BY DEF Met, OptInv
    <2>2. Len(S) \in Nat /\ S \in Seq(SnapType)
      BY <2>1, KidsOfFacts DEF SnapsInv
    <2> QED
      BY <2>1, <2>2 DEF Met
  <1> HIDE DEF n, R, S
  <1>3. \A s \in 1 .. Len(S) : S[s] \in SnapType
    BY <1>2, KidsOfFacts
  <1>4. st \in Nat /\ (UsesStart => st > 0 /\ st <= S[n].start /\ st <= S[e].start)
    <2>1. S[n].start \in Nat /\ S[e].start \in Nat
      BY <1>2, <1>3 DEF SnapType
    <2>2. UsesStart => S[n].start > 0 /\ S[e].start > 0
      BY <1>2 DEF SnapsInv
    <2> QED
      BY <2>1, <2>2 DEF MergedStart, Lesser
  <1> HIDE DEF st
  <1>5. S[e].own \in Owns /\ S[n].own \in Owns /\ paths \in SUBSET DOMAIN S[e].own
    BY <1>2, <1>3 DEF SnapType, S
  <1>6. Only(S[e].own, paths) \in Owns /\ Only(S[e].own, DOMAIN S[e].own \ paths) \in Owns
    BY <1>5, OnlyType
  <1>7. common \in SnapType
    BY <1>4, <1>6 DEF SnapType
  <1>8. DOMAIN S = 1 .. Len(S) /\ c \in Nat
    BY <1>2, LenProperties
  <1>9. \A s \in 1 .. Len(S) :
           f[s] = IF s = n THEN [S[n] EXCEPT !.kids = @ \cup {c}]
                  ELSE IF s = e THEN [S[e] EXCEPT !.kids = @ \cup {c},
                                                  !.own = Only(S[e].own, DOMAIN S[e].own \ paths)]
                  ELSE S[s]
    BY <1>2, <1>3, <1>8 DEF SnapType
  <1>10. DOMAIN f = 1 .. Len(S)
    BY <1>8
  <1> HIDE DEF f, common, c
  <1>11. \A s \in 1 .. Len(S) :
            /\ f[s] \in SnapType
            /\ f[s].start = S[s].start /\ f[s].ready = S[s].ready
            /\ f[s].kids = IF s \in {n, e} THEN S[s].kids \cup {c} ELSE S[s].kids
            /\ f[s].own = IF s = e THEN Only(S[e].own, DOMAIN S[e].own \ paths) ELSE S[s].own
    <2> SUFFICES ASSUME NEW s \in 1 .. Len(S)
                 PROVE  /\ f[s] \in SnapType
                        /\ f[s].start = S[s].start /\ f[s].ready = S[s].ready
                        /\ f[s].kids = IF s \in {n, e} THEN S[s].kids \cup {c} ELSE S[s].kids
                        /\ f[s].own = IF s = e THEN Only(S[e].own, DOMAIN S[e].own \ paths) ELSE S[s].own
      OBVIOUS
    <2>1. S[s] \in SnapType
      BY <1>3
    <2>2. CASE s = n
      <3>1. f[s] = [S[s] EXCEPT !.kids = @ \cup {c}]
        BY <1>9, <2>2
      <3> QED
        BY <1>2, <1>8, <2>1, <2>2, <3>1 DEF SnapType
    <2>3. CASE s = e
      <3>1. f[s] = [S[s] EXCEPT !.kids = @ \cup {c}, !.own = Only(S[e].own, DOMAIN S[e].own \ paths)]
        BY <1>2, <1>9, <2>3
      <3> QED
        <4>1. f[s].kids = S[s].kids \cup {c} /\ f[s].kids \in SUBSET Nat
          BY <1>8, <2>1, <3>1 DEF SnapType
        <4>2. f[s].own = Only(S[e].own, DOMAIN S[e].own \ paths) /\ f[s].own \in Owns
          BY <1>6, <2>1, <3>1 DEF SnapType
        <4>3. f[s].start = S[s].start /\ f[s].ready = S[s].ready
          BY <2>1, <3>1 DEF SnapType
        <4>4. f[s] = [start |-> f[s].start, own |-> f[s].own, kids |-> f[s].kids, ready |-> f[s].ready]
          BY <2>1, <3>1 DEF SnapType
        <4>5. f[s] \in SnapType
          BY <2>1, <4>1, <4>2, <4>3, <4>4 DEF SnapType
        <4> QED
          BY <1>2, <2>3, <4>1, <4>2, <4>3, <4>5
    <2>4. CASE s # n /\ s # e
      BY <1>9, <2>1, <2>4
    <2> QED
      BY <2>2, <2>3, <2>4
  <1>12. f \in [1 .. Len(S) -> SnapType]
    <2>1. \A s \in 1 .. Len(S) : f[s] \in SnapType
      BY <1>11
    <2>2. f = [s \in 1 .. Len(S) |-> f[s]]
      BY <1>10 DEF f
    <2> QED
      BY <2>1, <2>2
  <1>13. /\ R \in Seq(SnapType) /\ Len(R) = Len(S) + 1 /\ R[Len(S) + 1] = common
         /\ \A s \in 1 .. Len(S) : R[s] = f[s]
    BY <1>1, <1>2, <1>7, <1>12, ChangedAndMore
  <1>14. Extracted(S, R, n, e, paths, st)
    <2>1. R[c] = common
      BY <1>13 DEF c
    <2>2. R[c].own = Only(S[e].own, paths) /\ R[c].kids = {} /\ R[c].ready /\ R[c].start = st
      BY <2>1 DEF common
    <2> QED
      BY <1>11, <1>13, <2>2 DEF Extracted, c
  <1> QED
    BY <1>4, <1>14 DEF n, R, S

\* The optimization entries after Extract fit the snapshots.
LEMMA ExtractEntries ==
    ASSUME NEW before, NEW prior, NEW start, NEW files, NEW o, NEW e,
           Met(o, before, prior, start, files, e), NEW paths \in SUBSET Path
    PROVE  LET q == Extract(o, e, Len(before) + 1, paths)
               c == Len(o.snap) + 1
           IN  /\ q.entry \in Seq(EntryType) /\ Len(q.entry) = c
               /\ q.entry[c].shared > 0 /\ q.entry[c].content = paths /\ q.entry[c].kids = {}
               /\ \A x \in 1 .. Len(o.snap) :
                     /\ q.entry[x].shared = o.entry[x].shared /\ q.entry[x].content = o.entry[x].content
                     /\ q.entry[x].kids = o.entry[x].kids
                        \/ (x = e /\ o.entry[x].shared > 0 /\ q.entry[x].kids = o.entry[x].kids \cup {c})
               /\ q.owner \in [Path -> Nat] /\ \A p \in Path : q.owner[p] \in {o.owner[p], c}
               /\ q.left = o.left \ paths
               /\ IsOpt(q)
  <1> DEFINE n == Len(before) + 1
             E == o.entry
             c == Len(o.snap) + 1
             shared == E[e].shared > 0
             one == [shared |-> IF shared THEN E[e].shared + 1 ELSE 2, content |-> paths, kids |-> {}]
             f == [E EXCEPT ![e].kids = IF shared THEN @ \cup {c} ELSE @]
             q == Extract(o, e, n, paths)
  <1>1. /\ SnapsInv(o.snap) /\ E \in Seq(EntryType) /\ Len(E) = Len(o.snap) /\ Len(E) \in Nat
        /\ e \in 1 .. Len(E) /\ o \in OptType
    <2>1. SnapsInv(o.snap) /\ n <= Len(o.snap) /\ EntriesInv(o.snap, E) /\ o \in OptType
      BY DEF Met, OptInv
    <2>2. Len(o.snap) \in Nat
      BY <2>1, KidsOfFacts
    <2> QED
      BY <2>1, <2>2 DEF Met, EntriesInv
  <1>2. \A x \in 1 .. Len(E) : E[x] \in EntryType
    BY <1>1, LenProperties
  <1>3. one \in EntryType /\ one.shared > 0
    <2>1. E[e].shared \in Nat
      BY <1>1, <1>2 DEF EntryType
    <2> QED
      BY <2>1 DEF EntryType
  <1>4. DOMAIN E = 1 .. Len(E) /\ c \in Nat
    BY <1>1, LenProperties
  <1>5. \A x \in 1 .. Len(E) :
           f[x] = IF x = e THEN [E[e] EXCEPT !.kids = IF shared THEN @ \cup {c} ELSE @] ELSE E[x]
    BY <1>1, <1>2, <1>4 DEF EntryType
  <1>6. DOMAIN f = 1 .. Len(E)
    BY <1>4
  <1> DEFINE b == [snap |-> q.snap, entry |-> Append(f, one), owner |-> o.owner, left |-> o.left]
  <1>0. q = Store(b, c)
    <2> DEFINE S == o.snap
               common == [start |-> IF UsesStart THEN MergedStart(S[n].start, S[e].start) ELSE 0,
                          own |-> Only(S[e].own, paths), kids |-> {}, ready |-> TRUE]
               a == [snap |-> Append([S EXCEPT ![n].kids = @ \cup {c}, ![e].kids = @ \cup {c},
                                               ![e].own = Only(@, DOMAIN @ \ paths)], common),
                     entry |-> Append(f, one), owner |-> o.owner, left |-> o.left]
    <2>1. q = Store(a, c)
      BY <1>1, ExtractIsStore
    <2>2. IsOpt(a) /\ a.entry = Append(f, one) /\ a.owner = o.owner /\ a.left = o.left
      BY DEF IsOpt
    <2> HIDE DEF a
    <2>3. Store(a, c).snap = a.snap
      BY <2>2, StoreFacts
    <2>4. a = b
      BY <2>1, <2>2, <2>3 DEF IsOpt
    <2> QED
      BY <2>1, <2>4
  <1>a. IsOpt(b) /\ b.entry = Append(f, one) /\ b.owner = o.owner /\ b.left = o.left
    BY DEF IsOpt
  <1> HIDE DEF b, q
  <1> HIDE DEF c
  <1>b. /\ IsOpt(Store(b, c)) /\ Store(b, c).snap = b.snap /\ Store(b, c).entry = b.entry
        /\ Store(b, c).left = b.left \ b.entry[c].content
        /\ Store(b, c).owner = [p \in Path |->
              IF p \in b.entry[c].content /\ b.entry[b.owner[p]].shared < b.entry[c].shared
              THEN c ELSE b.owner[p]]
    BY <1>a, StoreFacts
  <1>7. q.entry = Append(f, one) /\ q.left = o.left \ q.entry[c].content
    BY <1>0, <1>a, <1>b
  <1>8. q.owner = [p \in Path |->
                     IF p \in q.entry[c].content /\ q.entry[o.owner[p]].shared < q.entry[c].shared
                     THEN c ELSE o.owner[p]]
    <2>1. q.entry = b.entry /\ b.owner = o.owner
      BY <1>0, <1>a, <1>b
    <2> QED
      BY <1>0, <1>b, <2>1
  <1>9. IsOpt(q)
    BY <1>0, <1>b
  <1> HIDE DEF f
  <1>10. \A x \in 1 .. Len(E) :
            /\ f[x] \in EntryType
            /\ f[x].shared = E[x].shared /\ f[x].content = E[x].content
            /\ f[x].kids = E[x].kids \/ (x = e /\ E[x].shared > 0 /\ f[x].kids = E[x].kids \cup {c})
    <2> SUFFICES ASSUME NEW x \in 1 .. Len(E)
                 PROVE  /\ f[x] \in EntryType
                        /\ f[x].shared = E[x].shared /\ f[x].content = E[x].content
                        /\ f[x].kids = E[x].kids \/ (x = e /\ E[x].shared > 0 /\ f[x].kids = E[x].kids \cup {c})
      OBVIOUS
    <2>1. E[x] \in EntryType
      BY <1>2
    <2>2. CASE x = e /\ shared
      <3>1. f[x] = [E[x] EXCEPT !.kids = @ \cup {c}]
        BY <1>5, <2>2
      <3> QED
        BY <1>4, <2>1, <2>2, <3>1 DEF EntryType
    <2>3. CASE x = e /\ ~ shared
      <3>1. f[x] = [E[x] EXCEPT !.kids = @]
        BY <1>5, <2>3
      <3> QED
        <4>1. f[x] = E[x]
          BY <2>1, <3>1 DEF EntryType
        <4> QED
          BY <2>1, <4>1
    <2>4. CASE x # e
      <3>1. f[x] = E[x]
        BY <1>5, <2>4
      <3> QED
        BY <2>1, <3>1
    <2> QED
      BY <2>2, <2>3, <2>4
  <1>11. f \in [1 .. Len(E) -> EntryType]
    <2>1. f = [x \in 1 .. Len(E) |-> f[x]]
      BY <1>6 DEF f
    <2> QED
      BY <1>10, <2>1
  <1>12. /\ q.entry \in Seq(EntryType) /\ Len(q.entry) = Len(E) + 1 /\ q.entry[Len(E) + 1] = one
         /\ \A x \in 1 .. Len(E) : q.entry[x] = f[x]
    <2> HIDE DEF one, E
    <2>1. /\ Append(f, one) \in Seq(EntryType) /\ Len(Append(f, one)) = Len(E) + 1
          /\ Append(f, one)[Len(E) + 1] = one /\ \A x \in 1 .. Len(E) : Append(f, one)[x] = f[x]
      BY <1>1, <1>3, <1>11, ChangedAndMore
    <2> QED
      BY <1>7, <2>1
  <1>13. q.entry[c].shared > 0 /\ q.entry[c].content = paths /\ q.entry[c].kids = {}
    BY <1>1, <1>3, <1>12 DEF c
  <1>14. q.owner \in [Path -> Nat] /\ \A p \in Path : q.owner[p] \in {o.owner[p], c}
    <2>1. o.owner \in [Path -> Nat]
      BY <1>1 DEF OptType
    <2> QED
      BY <1>4, <1>8, <2>1
  <1>15. \A x \in 1 .. Len(E) :
            /\ q.entry[x].shared = E[x].shared /\ q.entry[x].content = E[x].content
            /\ q.entry[x].kids = E[x].kids \/ (x = e /\ E[x].shared > 0 /\ q.entry[x].kids = E[x].kids \cup {c})
    BY <1>10, <1>12
  <1>16. q.left = o.left \ paths
    BY <1>7, <1>13
  <1> HIDE DEF one, shared
  <1> QED
    BY <1>1, <1>9, <1>12, <1>13, <1>14, <1>15, <1>16 DEF q, c

\* Extract keeps the invariant of optimize().
LEMMA ExtractKeeps ==
    ASSUME NEW before, NEW prior, NEW start, NEW files, NEW o, NEW e,
           Met(o, before, prior, start, files, e), o.snap[e].ready,
           NEW paths, paths \subseteq DOMAIN o.snap[e].own, paths \subseteq o.left
    PROVE  OptInv(Extract(o, e, Len(before) + 1, paths), before, prior, start, files)
  <1> DEFINE n == Len(before) + 1
             S == o.snap
             q == Extract(o, e, n, paths)
             R == q.snap
             c == Len(S) + 1
  <1>1. PICK st \in Nat :
           /\ Extracted(S, R, n, e, paths, st)
           /\ UsesStart => st > 0 /\ st <= S[n].start /\ st <= S[e].start
    BY ExtractSnaps
  <1>2. paths \in SUBSET Path
    BY DEF Met, OptInv, OptType
  <1>3. /\ q.entry \in Seq(EntryType) /\ Len(q.entry) = c
        /\ q.entry[c].shared > 0 /\ q.entry[c].content = paths /\ q.entry[c].kids = {}
        /\ \A x \in 1 .. Len(S) :
              /\ q.entry[x].shared = o.entry[x].shared /\ q.entry[x].content = o.entry[x].content
              /\ q.entry[x].kids = o.entry[x].kids
                 \/ (x = e /\ o.entry[x].shared > 0 /\ q.entry[x].kids = o.entry[x].kids \cup {c})
        /\ q.owner \in [Path -> Nat] /\ \A p \in Path : q.owner[p] \in {o.owner[p], c}
        /\ q.left = o.left \ paths
        /\ IsOpt(q)
    BY <1>2, ExtractEntries
  <1>4. /\ SnapsInv(S) /\ EntriesInv(S, o.entry) /\ n <= Len(S) /\ Len(S) \in Nat
        /\ prior \in Nat /\ Len(before) \in Nat /\ prior < e /\ e < n /\ e \in Nat
        /\ ~ S[n].ready /\ S[n].start = start /\ Covers(S, n) \cup o.left = files
    <2>1. SnapsInv(S) /\ EntriesInv(S, o.entry) /\ n <= Len(S)
      BY DEF Met, OptInv
    <2>2. Len(S) \in Nat
      BY <2>1, KidsOfFacts
    <2>3. prior \in Nat /\ Len(before) \in Nat /\ prior < e /\ e < n /\ e \in Nat
      BY DEF Met
    <2> QED
      BY <2>1, <2>2, <2>3 DEF Met, OptInv
  <1> HIDE DEF q
  <1>5. n \in 1 .. Len(S) /\ e \in 1 .. Len(S) /\ n # e
    BY <1>4
  <1>6. /\ SnapsInv(R)
        /\ \A s \in 1 .. Len(S) : s # n => \A p, x : Holds(R, s, p, x) <=> Holds(S, s, p, x)
        /\ Covers(R, n) = Covers(S, n) \cup paths
        /\ Covers(R, c) = paths
    <2> HIDE DEF n, S, R, c
    <2>1. S[e].ready /\ paths \subseteq DOMAIN S[e].own
      BY DEF S
    <2> QED
      BY <1>1, <1>4, <1>5, <2>1, ExtractedFacts DEF c
  <1>7. /\ Len(R) = c /\ R[c].ready /\ R[c].kids = {} /\ R[c].own = Only(S[e].own, paths)
        /\ \A s \in 1 .. Len(S) :
              /\ R[s].start = S[s].start /\ R[s].ready = S[s].ready
              /\ R[s].kids = IF s \in {n, e} THEN S[s].kids \cup {c} ELSE S[s].kids
              /\ R[s].own = IF s = e THEN Only(S[e].own, DOMAIN S[e].own \ paths) ELSE S[s].own
    BY <1>1 DEF Extracted
  <1>8. 1 .. c = (1 .. Len(S)) \cup {c} /\ c \notin 1 .. Len(S) /\ c \in Nat
    BY <1>4
  <1>9. EntriesInv(R, q.entry)
    <2>0. ASSUME NEW x \in 1 .. c PROVE q.entry[x].kids \subseteq R[x].kids
      <3>1. CASE x = c
        BY <1>3, <3>1
      <3>2. CASE x # c
        <4>1. x \in 1 .. Len(S) /\ Len(o.entry) = Len(S)
          BY <1>4, <1>8, <3>2 DEF EntriesInv
        <4>2. o.entry[x].kids \subseteq S[x].kids
          BY <1>4, <4>1 DEF EntriesInv
        <4>3. S[x].kids \subseteq R[x].kids /\ (x = e => c \in R[x].kids)
          BY <1>7, <4>1
        <4> QED
          BY <1>3, <4>1, <4>2, <4>3
      <3> QED
        BY <3>1, <3>2
    <2> SUFFICES ASSUME NEW x \in 1 .. c, q.entry[x].shared > 0
                 PROVE  /\ R[x].ready /\ q.entry[x].content = Covers(R, x)
                        /\ \A k \in q.entry[x].kids : q.entry[k].shared > 0
      BY <1>3, <1>7, <2>0 DEF EntriesInv
    <2>1. CASE x = c
      BY <1>3, <1>6, <1>7, <2>1
    <2>2. CASE x # c
      <3>1. x \in 1 .. Len(S) /\ o.entry[x].shared > 0 /\ Len(o.entry) = Len(S)
        BY <1>3, <1>4, <1>8, <2>2 DEF EntriesInv
      <3>2. /\ S[x].ready /\ o.entry[x].content = Covers(S, x)
            /\ o.entry[x].kids \subseteq S[x].kids
            /\ \A k \in o.entry[x].kids : o.entry[k].shared > 0
        BY <1>4, <3>1 DEF EntriesInv
      <3>3. x # n
        BY <1>4, <3>2
      <3>4. Covers(R, x) = Covers(S, x)
        <4>1. \A p, y : Holds(R, x, p, y) <=> Holds(S, x, p, y)
          BY <1>6, <3>1, <3>3
        <4> QED
          BY <4>1, CoversHolds
      <3>5. q.entry[x].content = o.entry[x].content /\ R[x].ready = S[x].ready
        BY <1>3, <1>7, <3>1
      <3>7. ASSUME NEW k \in q.entry[x].kids PROVE q.entry[k].shared > 0
        <4>1. k = c \/ k \in o.entry[x].kids
          BY <1>3, <3>1, <3>7
        <4>2. k \in o.entry[x].kids => k \in 1 .. Len(S)
          BY <1>4, <3>1, <3>2 DEF SnapsInv
        <4> QED
          BY <1>3, <3>2, <4>1, <4>2
      <3> QED
        BY <3>2, <3>4, <3>5, <3>7
    <2> QED
      BY <2>1, <2>2
  <1>10. q \in OptType
    <2>1. R \in Seq(SnapType)
      BY <1>6 DEF SnapsInv
    <2>2. q.left \in SUBSET Path
      BY <1>3 DEF Met, OptInv, OptType
    <2> QED
      BY <1>3, <2>1, <2>2 DEF IsOpt, OptType
  <1>11. \A p \in Path : q.owner[p] = 0 \/ q.owner[p] \in (prior + 1) .. Len(R)
    <2>1. \A p \in Path : o.owner[p] = 0 \/ o.owner[p] \in (prior + 1) .. Len(S)
      BY DEF Met, OptInv
    <2>2. c \in (prior + 1) .. c /\ (prior + 1) .. Len(S) \subseteq (prior + 1) .. c
      BY <1>4
    <2> HIDE DEF c
    <2> QED
      BY <1>3, <1>7, <2>1, <2>2
  <1>12. ASSUME NEW s \in 1 .. prior PROVE R[s] = before[s] /\ q.entry[s].shared = 0
    <2>1. S[s] = before[s] /\ o.entry[s].shared = 0
      BY DEF Met, OptInv
    <2>2. s \in 1 .. Len(S) /\ s # e /\ s # n
      BY <1>4
    <2>3. S[s] \in SnapType /\ R[s] \in SnapType
      <3>1. S[s] \in SnapType
        BY <1>4, <2>2, KidsOfFacts
      <3>2. s \in 1 .. Len(R)
        BY <1>7, <1>8, <2>2
      <3>3. R[s] \in SnapType
        BY <1>6, <3>2, KidsOfFacts
      <3> QED
        BY <3>1, <3>3
    <2>4. R[s].start = S[s].start /\ R[s].ready = S[s].ready /\ R[s].kids = S[s].kids /\ R[s].own = S[s].own
      BY <1>7, <2>2
    <2>5. R[s] = S[s]
      BY <2>3, <2>4 DEF SnapType
    <2> QED
      BY <1>3, <2>1, <2>2, <2>5
  <1>13. ASSUME NEW s \in (prior + 1) .. Len(R) PROVE R[s].kids \subseteq (prior + 1) .. Len(R)
    <2>1. CASE s = c
      BY <1>7, <2>1
    <2>2. CASE s # c
      <3>1. s \in (prior + 1) .. Len(S) /\ s \in 1 .. Len(S)
        BY <1>4, <1>7, <2>2
      <3>2. S[s].kids \subseteq (prior + 1) .. Len(S)
        BY <3>1 DEF Met, OptInv
      <3>3. R[s].kids \subseteq S[s].kids \cup {c}
        BY <1>7, <3>1
      <3>4. (prior + 1) .. Len(S) \subseteq (prior + 1) .. c /\ c \in (prior + 1) .. c
        BY <1>4
      <3> HIDE DEF c
      <3> QED
        BY <1>7, <3>2, <3>3, <3>4
    <2> QED
      BY <2>1, <2>2
  <1>14. ASSUME NEW s \in 1 .. Len(before)
         PROVE  /\ R[s].start = before[s].start /\ R[s].ready = before[s].ready
                /\ \A p, x : Holds(R, s, p, x) <=> Holds(before, s, p, x)
    <2>1. /\ S[s].start = before[s].start /\ S[s].ready = before[s].ready
          /\ \A p, x : Holds(S, s, p, x) <=> Holds(before, s, p, x)
      BY DEF Met, OptInv
    <2>2. s \in 1 .. Len(S) /\ s # n
      BY <1>4
    <2>3. \A p, x : Holds(R, s, p, x) <=> Holds(S, s, p, x)
      BY <1>6, <2>2
    <2> QED
      BY <1>7, <2>1, <2>2, <2>3
  <1>15. ASSUME NEW s \in (prior + 1) .. Len(R), NEW p \in DOMAIN R[s].own
         PROVE  \E t \in (prior + 1) .. Len(before) : p \in DOMAIN before[t].own /\ before[t].own[p] = R[s].own[p]
    <2>1. \E u \in (prior + 1) .. Len(S) : p \in DOMAIN S[u].own /\ S[u].own[p] = R[s].own[p]
      <3>1. e \in (prior + 1) .. Len(S)
        BY <1>4
      <3>2. CASE s = c
        <4>1. p \in paths /\ R[s].own[p] = S[e].own[p]
          BY <1>7, <1>15, <3>2 DEF Only
        <4> QED
          BY <3>1, <4>1
      <3>3. CASE s = e
        <4>1. R[s].own = Only(S[e].own, DOMAIN S[e].own \ paths)
          BY <1>5, <1>7, <3>3
        <4>2. p \in DOMAIN S[e].own /\ R[s].own[p] = S[e].own[p]
          BY <1>15, <4>1 DEF Only
        <4> QED
          BY <3>1, <4>2
      <3>4. CASE s # c /\ s # e
        <4>1. s \in (prior + 1) .. Len(S) /\ s \in 1 .. Len(S)
          BY <1>4, <1>7, <3>4
        <4>2. R[s].own = S[s].own
          BY <1>7, <3>4, <4>1
        <4> QED
          BY <1>15, <4>1, <4>2
      <3> QED
        BY <3>2, <3>3, <3>4
    <2>2. \A u \in (prior + 1) .. Len(S) : \A r \in DOMAIN S[u].own :
             \E t \in (prior + 1) .. Len(before) : r \in DOMAIN before[t].own /\ before[t].own[r] = S[u].own[r]
      BY DEF Met, OptInv
    <2> HIDE DEF S, R
    <2> QED
      BY <2>1, <2>2
  <1>16. R[n].start = start /\ ~ R[n].ready /\ n <= Len(R)
    <2>1. R[n].start = S[n].start /\ R[n].ready = S[n].ready
      BY <1>5, <1>7
    <2>2. n <= Len(R)
      BY <1>4, <1>7
    <2> QED
      BY <1>4, <2>1, <2>2
  <1>17. Covers(R, n) \cup q.left = files
    BY <1>3, <1>4, <1>6
  <1> HIDE DEF c, S, n
  <1>18. OptInv(q, before, prior, start, files)
    BY <1>6, <1>9, <1>10, <1>11, <1>12, <1>13, <1>14, <1>15, <1>16, <1>17 DEF OptInv, n
  <1> QED
    BY <1>18 DEF q, n

\* A set of numbers has a least element.
LEMMA LeastNumber ==
  ASSUME NEW S, S \subseteq Nat, S # {}
  PROVE  \E x \in S : \A y \in S : x <= y
<1> DEFINE R == {p \in Nat \X Nat : p[1] < p[2]}
<1>1. IsWellFoundedOn(R, Nat)
  BY NatLessThanWellFounded, IsWellFoundedOnSubrelation DEF OpToRel
<1> HIDE DEF R
<1>2. PICK x \in S : \A y \in S : ~ (<<y, x>> \in R)
  BY <1>1, WFMin
<1>3. ASSUME NEW y \in S, y < x PROVE FALSE
  <2>1. <<y, x>> \in Nat \X Nat
    OBVIOUS
  <2>2. <<y, x>> \in R
    BY <1>3, <2>1 DEF R
  <2> QED
    BY <1>2, <2>2
<1>4. \A y \in S : x <= y
  BY <1>3
<1> QED
  BY <1>4

\* A fold takes the elements of a set one by one, as pick chooses them.
FoldInput(S, T, base, step, pick) ==
    /\ IsFiniteSet(S) /\ base \in T /\ step \in [S -> [T -> T]]
    /\ \A s \in SUBSET S : s # {} => pick[s] \in s
Folded(S, T, base, step, pick, W) ==
    /\ W \in [SUBSET S -> T]
    /\ \A s \in SUBSET S : W[s] = IF s = {} THEN base ELSE step[pick[s]][W[s \ {pick[s]}]]

\* It comes to an end, so what it computes is defined.
LEMMA FoldExists ==
    ASSUME NEW S, NEW T, NEW base, NEW step, NEW pick, FoldInput(S, T, base, step, pick)
    PROVE  \E W : Folded(S, T, base, step, pick, W)
  <1> USE DEF FoldInput
  <1> DEFINE Upto(n) == {s \in SUBSET S : Cardinality(s) <= n}
             Is(W, s) == W[s] = IF s = {} THEN base ELSE step[pick[s]][W[s \ {pick[s]}]]
             P == {n \in Nat : \E W \in [SUBSET S -> T] : \A s \in Upto(n) : Is(W, s)}
  <1>0. \A s \in SUBSET S : IsFiniteSet(s) /\ Cardinality(s) \in Nat
    BY FS_Subset, FS_CardinalityType
  <1>1. 0 \in P
    <2> DEFINE W == [s \in SUBSET S |-> base]
    <2>1. W \in [SUBSET S -> T]
      OBVIOUS
    <2>2. ASSUME NEW s \in Upto(0) PROVE Is(W, s)
      <3>1. Cardinality(s) = 0 /\ IsFiniteSet(s)
        BY <1>0
      <3>2. s = {}
        BY <3>1, FS_EmptySet
      <3> QED
        BY <3>2
    <2> QED
      BY <2>1, <2>2
  <1>2. ASSUME NEW n \in P PROVE n + 1 \in P
    <2>1. PICK W \in [SUBSET S -> T] : \A s \in Upto(n) : Is(W, s)
      OBVIOUS
    <2> DEFINE V == [s \in SUBSET S |-> IF s = {} THEN base
                                        ELSE step[pick[s]][W[s \ {pick[s]}]]]
    <2>2. V \in [SUBSET S -> T]
      <3>1. ASSUME NEW s \in SUBSET S, s # {} PROVE step[pick[s]][W[s \ {pick[s]}]] \in T
        <4>1. pick[s] \in S /\ s \ {pick[s]} \in SUBSET S
          BY <3>1
        <4> QED
          BY <4>1
      <3> QED
        BY <3>1
    <2>3. ASSUME NEW s \in Upto(n + 1) PROVE Is(V, s)
      <3>1. CASE s = {}
        BY <3>1
      <3>2. CASE s # {}
        <4> DEFINE d == s \ {pick[s]}
        <4>1. pick[s] \in s /\ d \in SUBSET S /\ n \in Nat
          BY <3>2
        <4>2. Cardinality(d) = Cardinality(s) - 1
          BY <1>0, <4>1, FS_RemoveElement
        <4>3. Cardinality(d) <= n
          BY <1>0, <4>1, <4>2
        <4>4. Is(W, d)
          BY <2>1, <4>1, <4>3
        <4>5. V[d] = W[d]
          BY <4>1, <4>4
        <4>6. V[s] = step[pick[s]][W[d]]
          BY <3>2
        <4> HIDE DEF V
        <4> QED
          BY <3>2, <4>5, <4>6
      <3> QED
        BY <3>1, <3>2
    <2>4. \A s \in Upto(n + 1) : Is(V, s)
      BY <2>3
    <2> HIDE DEF V, Upto, Is
    <2> QED
      BY <2>2, <2>4
  <1>3. Cardinality(S) \in P
    <2> DEFINE M == Nat \ P
    <2> HIDE DEF P
    <2>1. CASE M = {}
      BY <1>0, <2>1
    <2>2. CASE M # {}
      <3>1. PICK x \in M : \A y \in M : x <= y
        BY <2>2, LeastNumber
      <3>2. x # 0 /\ x \in Nat
        BY <1>1
      <3>3. x - 1 \in Nat /\ (x - 1) + 1 = x /\ ~(x <= x - 1)
        BY <3>2
      <3>4. x - 1 \in P
        BY <3>1, <3>3
      <3> QED
        BY <1>2, <3>3, <3>4
    <2> QED
      BY <2>1, <2>2
  <1>4. PICK W \in [SUBSET S -> T] : \A s \in Upto(Cardinality(S)) : Is(W, s)
    BY <1>3
  <1>5. \A s \in SUBSET S : Cardinality(s) <= Cardinality(S)
    BY FS_Subset
  <1>6. \A s \in SUBSET S : Is(W, s)
    BY <1>4, <1>5
  <1>7. Folded(S, T, base, step, pick, W)
    BY <1>6 DEF Folded
  <1> QED
    BY <1>7

\* What the steps of a fold keep, its result has too.
LEMMA FoldKeeps ==
    ASSUME NEW S, IsFiniteSet(S), NEW T, NEW pick, NEW U, U[{}] \in T,
           \A s \in SUBSET S : s # {} => pick[s] \in s,
           \A s \in SUBSET S : s # {} /\ U[s \ {pick[s]}] \in T => U[s] \in T
    PROVE  U[S] \in T
  <1> DEFINE Bad == {s \in SUBSET S : U[s] \notin T}
             sizes == {Cardinality(s) : s \in Bad}
  <1>0. \A s \in SUBSET S : IsFiniteSet(s) /\ Cardinality(s) \in Nat
    BY FS_Subset, FS_CardinalityType
  <1>1. SUFFICES ASSUME Bad # {} PROVE FALSE
    OBVIOUS
  <1>2. sizes \subseteq Nat /\ sizes # {}
    BY <1>0, <1>1
  <1>3. PICK n \in sizes : \A k \in sizes : n <= k
    BY <1>2, LeastNumber
  <1>4. PICK s \in Bad : n = Cardinality(s)
    BY <1>3
  <1> DEFINE d == s \ {pick[s]}
  <1>5. s # {} /\ pick[s] \in s /\ d \in SUBSET S
    BY <1>4
  <1>6. Cardinality(d) = Cardinality(s) - 1
    BY <1>0, <1>5, FS_RemoveElement
  <1>7. d \in Bad
    BY <1>4, <1>5
  <1>8. n <= Cardinality(d)
    BY <1>3, <1>7
  <1> QED
    BY <1>0, <1>2, <1>4, <1>6, <1>8

\* The numbers of a finite set, one by one, from the greatest or from the least.
LEMMA MinIn ==
    ASSUME NEW S \in SUBSET Nat, S # {}
    PROVE  Min(S) \in S
  <1>1. \E x \in S : \A y \in S : x =< y
    BY LeastNumber
  <1> QED
    BY <1>1, Zenon DEF Min

\* The greatest number of a set of indices is one of them.
LEMMA MaxIn ==
    ASSUME NEW n \in Nat, NEW S \in SUBSET (1 .. n), S # {}
    PROVE  Max(S) \in S
  <1> DEFINE D == {n - x : x \in S}
  <1>1. D \subseteq Nat /\ D # {}
    OBVIOUS
  <1>2. PICK d \in D : \A y \in D : d <= y
    BY <1>1, LeastNumber
  <1>3. PICK x \in S : d = n - x
    BY <1>2
  <1>4. \A y \in S : n - x <= n - y
    BY <1>2, <1>3
  <1>5. \A y \in S : x >= y
    BY <1>4
  <1>6. \E z \in S : \A y \in S : z >= y
    BY <1>5
  <1> QED
    BY <1>6, Zenon DEF Max

\* Entry x and those under it are shared once more.
Grow(x, q) == Store([q EXCEPT !.entry[x].shared = @ + 1], x)
EntryKids(E) == [x \in 1 .. Len(E) |-> E[x].kids]

\* What is below a shared entry is shared, and the shared snapshot has its content.
LEMMA TreeFacts ==
    ASSUME NEW S, NEW E, SnapsInv(S), EntriesInv(S, E), NEW e \in 1 .. Len(E), E[e].shared > 0
    PROVE  LET tree == Below(EntryKids(E), e)
           IN  /\ tree \subseteq 1 .. Len(E) /\ IsFiniteSet(tree)
               /\ \A x \in tree : E[x].shared > 0 /\ E[x].content \subseteq Covers(S, e)
  <1> DEFINE K == EntryKids(E)
  <1>1. Len(E) = Len(S) /\ Len(S) \in Nat /\ DOMAIN KidsOf(S) = 1 .. Len(S)
    BY KidsOfFacts DEF EntriesInv
  <1>2. DOMAIN K = 1 .. Len(E) /\ \A x \in 1 .. Len(E) : K[x] = E[x].kids /\ K[x] \subseteq S[x].kids
    BY DEF EntryKids, EntriesInv
  <1> HIDE DEF K
  <1>3. Graph(K)
    BY <1>1, <1>2 DEF Graph, SnapsInv
  <1>4. Acyclic(K)
    <2> SUFFICES ASSUME NEW C \in SUBSET DOMAIN K, C # {} PROVE \E t \in C : K[t] \cap C = {}
      BY DEF Acyclic
    <2>1. PICK t \in C : KidsOf(S)[t] \cap C = {}
      BY <1>1, <1>2 DEF SnapsInv, Acyclic
    <2>2. K[t] \subseteq KidsOf(S)[t]
      BY <1>1, <1>2, KidsOfFacts
    <2> QED
      BY <2>1, <2>2
  <1>5. Below(K, e) = Reach(K, e)
    BY <1>2, <1>3, <1>4, BelowIsReach
  <1> DEFINE C == {x \in Under(S, e) : E[x].shared > 0}
  <1>6. e \in C /\ C \in SUBSET (1 .. Len(E))
    BY <1>1, UnderFacts
  <1>7. Closed(K, C)
    <2> SUFFICES ASSUME NEW x \in C, NEW k \in K[x] PROVE k \in C
      BY DEF Closed
    <2>1. x \in 1 .. Len(E) /\ k \in E[x].kids /\ k \in S[x].kids
      BY <1>2, <1>6
    <2>2. E[k].shared > 0
      BY <2>1 DEF EntriesInv
    <2>3. k \in Under(S, e)
      BY <1>1, <2>1, UnderFacts
    <2> QED
      BY <2>2, <2>3
  <1>8. Reach(K, e) \subseteq C
    <2> HIDE DEF C
    <2> QED
      BY <1>2, <1>3, <1>6, <1>7, ReachFacts
  <1>9. ASSUME NEW x \in C PROVE E[x].content \subseteq Covers(S, e)
    <2>1. x \in 1 .. Len(E)
      BY <1>6
    <2>2. E[x].content = Covers(S, x)
      BY <2>1 DEF EntriesInv
    <2>3. Under(S, x) \subseteq Under(S, e)
      BY <1>1, UnderFacts
    <2> QED
      BY <2>2, <2>3 DEF Covers
  <1>10. IsFiniteSet(Reach(K, e))
    <2>1. IsFiniteSet(1 .. Len(E))
      <3>1. 1 \in Int /\ Len(E) \in Int
        BY <1>1
      <3> QED
        BY <3>1, FS_Interval
    <2> QED
      BY <1>6, <1>8, <2>1, FS_Subset
  <1> QED
    BY <1>5, <1>6, <1>8, <1>9, <1>10 DEF K

\* What has become of o when entries were shared once more that cover no more than "covered".
Grown(o, snaps, prior, covered) ==
    {q \in OptType :
        /\ q.snap = snaps /\ Len(q.entry) = Len(o.entry)
        /\ \A x \in 1 .. Len(o.entry) :
              /\ q.entry[x].content = o.entry[x].content /\ q.entry[x].kids = o.entry[x].kids
              /\ q.entry[x].shared > 0 <=> o.entry[x].shared > 0
        /\ \A p \in Path : q.owner[p] = 0 \/ q.owner[p] \in (prior + 1) .. Len(o.entry)
        /\ q.left \subseteq o.left /\ o.left \ covered \subseteq q.left}

\* Taking over one more entry keeps what the others have.
LEMMA GrowKeeps ==
    ASSUME NEW o, NEW snaps, NEW prior \in Nat, NEW covered,
           NEW q \in Grown(o, snaps, prior, covered),
           NEW x \in (prior + 1) .. Len(o.entry), Len(o.entry) \in Nat,
           o.entry[x].shared > 0, o.entry[x].content \subseteq covered
    PROVE  Grow(x, q) \in Grown(o, snaps, prior, covered)
  <1> DEFINE one == [q.entry[x] EXCEPT !.shared = @ + 1]
             E == [q.entry EXCEPT ![x] = one]
             b == [snap |-> q.snap, entry |-> E, owner |-> q.owner, left |-> q.left]
  <1>1. /\ q \in OptType /\ q.entry \in Seq(EntryType) /\ Len(q.entry) = Len(o.entry)
        /\ x \in 1 .. Len(o.entry)
    BY DEF Grown, OptType
  <1>2. DOMAIN q.entry = 1 .. Len(o.entry) /\ \A y \in 1 .. Len(o.entry) : q.entry[y] \in EntryType
    BY <1>1, LenProperties
  <1>3. [q EXCEPT !.entry[x].shared = @ + 1] = b
    <2> DEFINE a == [q EXCEPT !.entry = E]
    <2>1. [q EXCEPT !.entry[x].shared = @ + 1] = a
      BY <1>1, <1>2 DEF OptType
    <2> HIDE DEF E
    <2>2. a = [q EXCEPT !.entry = E]
      OBVIOUS
    <2> HIDE DEF a
    <2>3. a = b
      BY <1>1, <2>2 DEF OptType
    <2> QED
      BY <2>1, <2>3
  <1>4. IsOpt(b) /\ b.snap = q.snap /\ b.entry = E /\ b.owner = q.owner /\ b.left = q.left
    BY DEF IsOpt
  <1>5. /\ one \in EntryType /\ one.content = q.entry[x].content /\ one.kids = q.entry[x].kids
        /\ one.shared > 0
    <2>1. q.entry[x] \in EntryType
      BY <1>1, <1>2
    <2> QED
      BY <2>1 DEF EntryType
  <1>6. \A y \in 1 .. Len(o.entry) : E[y] = IF y = x THEN one ELSE q.entry[y]
    BY <1>1, <1>2
  <1> HIDE DEF one
  <1>7. E \in [1 .. Len(o.entry) -> EntryType]
    BY <1>1, <1>2, <1>5
  <1>8. E \in Seq(EntryType) /\ Len(E) = Len(o.entry)
    BY <1>1, <1>5, <1>7, ChangedAndMore
  <1> HIDE DEF b, E
  <1> DEFINE r == Grow(x, q)
  <1>9. r = Store(b, x)
    BY <1>3 DEF Grow
  <1> HIDE DEF r
  <1>10. /\ IsOpt(r) /\ r.snap = snaps /\ r.entry = E /\ r.left = q.left \ o.entry[x].content
         /\ \A p \in Path : r.owner[p] \in {x, q.owner[p]}
         /\ r.owner \in [Path -> Nat]
    <2>1. /\ IsOpt(r) /\ r.snap = b.snap /\ r.entry = b.entry /\ r.left = b.left \ b.entry[x].content
          /\ r.owner = [p \in Path |->
               IF p \in b.entry[x].content /\ b.entry[b.owner[p]].shared < b.entry[x].shared
               THEN x ELSE b.owner[p]]
      BY <1>4, <1>9, StoreFacts
    <2>2. b.entry[x].content = o.entry[x].content
      BY <1>1, <1>4, <1>5, <1>6 DEF Grown
    <2>3. b.snap = snaps
      BY <1>4 DEF Grown
    <2>4. q.owner \in [Path -> Nat]
      BY <1>1 DEF OptType
    <2>5. r.owner \in [Path -> Nat] /\ \A p \in Path : r.owner[p] \in {x, q.owner[p]}
      BY <1>4, <2>1, <2>4
    <2> QED
      BY <1>4, <2>1, <2>2, <2>3, <2>5
  <1>11. r \in OptType
    BY <1>1, <1>8, <1>10 DEF IsOpt, OptType, Grown
  <1>12. \A y \in 1 .. Len(o.entry) :
            /\ r.entry[y].content = o.entry[y].content /\ r.entry[y].kids = o.entry[y].kids
            /\ r.entry[y].shared > 0 <=> o.entry[y].shared > 0
    BY <1>1, <1>5, <1>6, <1>10 DEF Grown
  <1>13. \A p \in Path : r.owner[p] = 0 \/ r.owner[p] \in (prior + 1) .. Len(o.entry)
    BY <1>10 DEF Grown
  <1>14. r.left \subseteq o.left /\ o.left \ covered \subseteq r.left
    BY <1>10 DEF Grown
  <1>15. r \in Grown(o, snaps, prior, covered)
    BY <1>8, <1>10, <1>11, <1>12, <1>13, <1>14 DEF Grown
  <1> QED
    BY <1>15 DEF r

\* So does taking over all that is below an entry.
LEMMA GrowFold ==
    ASSUME NEW T, NEW tree \in SUBSET Nat, IsFiniteSet(tree), NEW base \in T,
           \A x \in tree, q \in T : Grow(x, q) \in T
    PROVE  MapThenFoldSet(LAMBDA x, q : Grow(x, q), base, LAMBDA x : x, Min, tree) \in T
  <1> DEFINE pick == [s \in SUBSET tree |-> Min(s)]
             step == [x \in tree |-> [q \in T |-> Grow(x, q)]]
  <1>1. \A s \in SUBSET tree : s # {} => Min(s) \in s
    BY MinIn
  <1>2. \A s \in SUBSET tree : pick[s] = Min(s)
    OBVIOUS
  <1>3. \A s \in SUBSET tree : s # {} => pick[s] \in s
    BY <1>1, <1>2
  <1>4. step \in [tree -> [T -> T]]
    OBVIOUS
  <1> HIDE DEF pick
  <1>5. PICK W : Folded(tree, T, base, step, pick, W)
    <2> HIDE DEF step
    <2>1. FoldInput(tree, T, base, step, pick)
      BY <1>3, <1>4 DEF FoldInput
    <2> QED
      BY <2>1, FoldExists
  <1>6. ASSUME NEW s \in SUBSET tree
        PROVE  W[s] = IF s = {} THEN base ELSE Grow(Min(s), W[s \ {Min(s)}])
    <2>1. CASE s # {}
      <3>1. pick[s] \in tree /\ s \ {pick[s]} \in SUBSET tree
        BY <1>3, <2>1
      <3>2. W[s \ {pick[s]}] \in T
        BY <1>5, <3>1 DEF Folded
      <3>3. step[pick[s]][W[s \ {pick[s]}]] = Grow(pick[s], W[s \ {pick[s]}])
        BY <3>1, <3>2
      <3>4. W[s] = step[pick[s]][W[s \ {pick[s]}]]
        BY <1>5, <2>1 DEF Folded
      <3>5. W[s] = Grow(pick[s], W[s \ {pick[s]}])
        BY <3>3, <3>4
      <3> QED
        BY <1>2, <2>1, <3>5, Zenon
    <2>2. CASE s = {}
      BY <1>5, <2>2 DEF Folded
    <2> QED
      BY <2>1, <2>2, Zenon
  <1>7. \E V : V = [s \in SUBSET tree |-> IF s = {} THEN base ELSE Grow(Min(s), V[s \ {Min(s)}])]
    <2>1. W = [s \in SUBSET tree |-> W[s]]
      BY <1>5 DEF Folded
    <2>2. W = [s \in SUBSET tree |-> IF s = {} THEN base ELSE Grow(Min(s), W[s \ {Min(s)}])]
      BY <1>6, <2>1, Zenon
    <2> QED
      BY <2>2, Zenon
  <1> DEFINE U == CHOOSE V : V = [s \in SUBSET tree |-> IF s = {} THEN base
                                                        ELSE Grow(Min(s), V[s \ {Min(s)}])]
  <1>8. U = [s \in SUBSET tree |-> IF s = {} THEN base ELSE Grow(Min(s), U[s \ {Min(s)}])]
    BY <1>7, Zenon
  <1> HIDE DEF U
  <1>9. U[tree] \in T
    <2>1. U[{}] = base
      <3>1. {} \in SUBSET tree
        OBVIOUS
      <3> QED
        BY <1>8, <3>1, Zenon
    <2>2. ASSUME NEW s \in SUBSET tree, s # {}, U[s \ {pick[s]}] \in T PROVE U[s] \in T
      <3>1. U[s] = Grow(Min(s), U[s \ {Min(s)}])
        BY <1>8, <2>2, Zenon
      <3>2. U[s] = Grow(pick[s], U[s \ {pick[s]}])
        BY <1>2, <3>1, Zenon
      <3>3. pick[s] \in tree
        BY <1>3, <2>2
      <3> QED
        BY <2>2, <3>2, <3>3
    <2>3. U[{}] \in T
      BY <2>1
    <2>4. \A s \in SUBSET tree : s # {} /\ U[s \ {pick[s]}] \in T => U[s] \in T
      BY <2>2
    <2> QED
      BY <1>3, <2>3, <2>4, FoldKeeps
  <1>10. MapThenFoldSet(LAMBDA x, q : Grow(x, q), base, LAMBDA x : x, Min, tree) = U[tree]
    BY Zenon DEF MapThenFoldSet, U
  <1> QED
    BY <1>9, <1>10

\* S becomes R: e is a child of n.
Linked(S, R, n, e) ==
    /\ R \in Seq(SnapType) /\ Len(R) = Len(S)
    /\ \A s \in 1 .. Len(S) :
          /\ R[s].start = S[s].start /\ R[s].ready = S[s].ready /\ R[s].own = S[s].own
          /\ R[s].kids = IF s = n THEN S[s].kids \cup {e} ELSE S[s].kids

\* The new snapshot n may have e as a child.
Fits(S, n, e) ==
    /\ SnapsInv(S) /\ n \in 1 .. Len(S) /\ e \in 1 .. Len(S)
    /\ n # e /\ ~ S[n].ready /\ S[e].ready
    /\ UsesStart => S[e].start <= S[n].start

\* Making e a child of n leaves every snapshot but n what it held, and n covers what e covers.
LEMMA LinkedFacts ==
    ASSUME NEW S, NEW R, NEW n, NEW e, Fits(S, n, e), Linked(S, R, n, e)
    PROVE  /\ SnapsInv(R)
           /\ \A s \in 1 .. Len(S) : s # n => \A p, x : Holds(R, s, p, x) <=> Holds(S, s, p, x)
           /\ Covers(R, n) = Covers(S, n) \cup Covers(S, e)
  <1> DEFINE K == KidsOf(S)
             L == KidsOf(R)
  <1> USE DEF Fits
  <1>1. /\ Len(S) \in Nat /\ DOMAIN K = 1 .. Len(S) /\ Graph(K) /\ Acyclic(K)
        /\ \A s \in 1 .. Len(S) : K[s] = S[s].kids /\ S[s] \in SnapType
    BY KidsOfFacts
  <1>2. DOMAIN L = 1 .. Len(S) /\ \A s \in 1 .. Len(S) : L[s] = R[s].kids
    BY <1>1 DEF KidsOf, Linked
  <1> HIDE DEF K, L
  <1>3. NewEdge(K, L, n, e)
    <2>1. \A t \in 1 .. Len(S) : n \notin K[t]
      BY <1>1 DEF SnapsInv
    <2>2. \A t \in 1 .. Len(S) : L[t] = IF t = n THEN K[t] \cup {e} ELSE K[t]
      BY <1>1, <1>2 DEF Linked
    <2> QED
      BY <1>1, <1>2, <2>1, <2>2 DEF NewEdge
  <1>4. /\ Graph(L) /\ Acyclic(L)
        /\ \A s \in 1 .. Len(S) : s # n => Reach(L, s) = Reach(K, s)
        /\ Reach(L, n) = Reach(K, n) \cup Reach(K, e)
    BY <1>1, <1>3, NewEdgeReach
  <1>5. /\ \A s \in 1 .. Len(S) : s # n => Under(R, s) = Under(S, s)
        /\ Under(R, n) = Under(S, n) \cup Under(S, e)
    BY <1>4 DEF Under, K, L
  <1>6. \A s \in 1 .. Len(S) : Under(S, s) \subseteq 1 .. Len(S)
    BY UnderFacts
  <1>7. SnapsInv(R)
    <2>1. R \in Seq(SnapType) /\ Len(R) = Len(S)
      BY DEF Linked
    <2>2. \A s \in 1 .. Len(S) : R[s].kids \subseteq 1 .. Len(S)
      BY <1>2, <1>4 DEF Graph
    <2>3. Acyclic(KidsOf(R))
      BY <1>4 DEF L
    <2>4. ASSUME NEW s \in 1 .. Len(S), NEW k \in R[s].kids
          PROVE  k \in 1 .. Len(S) /\ (k \in S[s].kids \/ (s = n /\ k = e))
      <3>1. R[s].kids = IF s = n THEN S[s].kids \cup {e} ELSE S[s].kids
        BY DEF Linked
      <3> QED
        BY <2>2, <2>4, <3>1
    <2>5. ASSUME NEW s \in 1 .. Len(S), NEW k \in R[s].kids PROVE R[k].ready
      <3>1. R[k].ready = S[k].ready
        BY <2>4, <2>5 DEF Linked
      <3> QED
        BY <2>4, <2>5, <3>1 DEF SnapsInv
    <2>6. ASSUME NEW s \in 1 .. Len(S), ~ R[s].ready PROVE DOMAIN R[s].own = {}
      <3>1. R[s].ready = S[s].ready /\ R[s].own = S[s].own
        BY DEF Linked
      <3> QED
        BY <2>6, <3>1 DEF SnapsInv
    <2>7. ASSUME UsesStart, NEW s \in 1 .. Len(S)
          PROVE  R[s].start > 0 /\ \A k \in R[s].kids : R[k].start <= R[s].start
      <3>1. R[s].start = S[s].start /\ S[s].start > 0
        BY <2>7 DEF Linked, SnapsInv
      <3>2. ASSUME NEW k \in R[s].kids PROVE R[k].start <= R[s].start
        <4>1. R[k].start = S[k].start
          BY <2>4 DEF Linked
        <4> QED
          BY <2>4, <2>7, <3>1, <4>1 DEF SnapsInv
      <3> QED
        BY <3>1, <3>2
    <2> QED
      BY <2>1, <2>2, <2>3, <2>5, <2>6, <2>7 DEF SnapsInv
  <1>8. ASSUME NEW s \in 1 .. Len(S), s # n, NEW p, NEW x
        PROVE  Holds(R, s, p, x) <=> Holds(S, s, p, x)
    <2>1. \A t \in Under(S, s) : R[t].own = S[t].own
      BY <1>6 DEF Linked
    <2>2. Under(R, s) = Under(S, s)
      BY <1>5, <1>8
    <2> QED
      BY <2>1, <2>2 DEF Holds
  <1>9. Covers(R, n) = Covers(S, n) \cup Covers(S, e)
    <2>1. \A t \in Under(R, n) : R[t].own = S[t].own
      BY <1>5, <1>6 DEF Linked
    <2> QED
      BY <1>5, <2>1 DEF Covers
  <1> QED
    BY <1>7, <1>8, <1>9

\* Reuse is a new child, then the fold over what is below the entry.
LEMMA ReuseGrows ==
    ASSUME NEW before, NEW prior, NEW start, NEW files, NEW o, NEW e,
           Met(o, before, prior, start, files, e), o.entry[e].shared > 0
    PROVE  LET n == Len(before) + 1
           IN  \E R : /\ Linked(o.snap, R, n, e)
                      /\ Reuse(o, e, n) \in Grown(o, R, prior, Covers(o.snap, e))
  <1> DEFINE n == Len(before) + 1
             S == o.snap
             one == [S[n] EXCEPT !.kids = @ \cup {e}]
             R == [S EXCEPT ![n] = one]
             covered == Covers(S, e)
             T == Grown(o, R, prior, covered)
             b == [o EXCEPT !.snap[n].kids = @ \cup {e}]
             tree == Below(EntryKids(o.entry), e)
  <1>1. /\ o \in OptType /\ SnapsInv(S) /\ EntriesInv(S, o.entry) /\ n <= Len(S)
        /\ Len(o.entry) = Len(S) /\ o.entry \in Seq(EntryType) /\ S \in Seq(SnapType)
        /\ prior \in Nat /\ Len(before) \in Nat
    BY DEF Met, OptInv, EntriesInv, SnapsInv
  <1>2. Len(S) \in Nat /\ n \in 1 .. Len(S) /\ e \in 1 .. Len(S) /\ DOMAIN S = 1 .. Len(S)
        /\ \A s \in 1 .. Len(S) : S[s] \in SnapType
    <2>1. Len(S) \in Nat /\ \A s \in 1 .. Len(S) : S[s] \in SnapType
      BY <1>1, KidsOfFacts
    <2> QED
      BY <1>1, <2>1, LenProperties DEF Met
  <1>3. one \in SnapType /\ one.start = S[n].start /\ one.ready = S[n].ready /\ one.own = S[n].own
        /\ one.kids = S[n].kids \cup {e}
    <2>1. S[n] \in SnapType /\ e \in Nat
      BY <1>2
    <2> QED
      BY <2>1 DEF SnapType
  <1>4. \A s \in 1 .. Len(S) : R[s] = IF s = n THEN one ELSE S[s]
    BY <1>2
  <1>5. b = [o EXCEPT !.snap = R]
    BY <1>1, <1>2 DEF OptType
  <1> HIDE DEF one
  <1>6. R \in [1 .. Len(S) -> SnapType]
    BY <1>2, <1>3
  <1> HIDE DEF R, b
  <1>7. R \in Seq(SnapType) /\ Len(R) = Len(S)
    BY <1>1, <1>2, <1>3, <1>6, ChangedAndMore
  <1>8. Linked(S, R, n, e)
    BY <1>2, <1>3, <1>4, <1>7 DEF Linked
  <1>9. /\ b.snap = R /\ b.entry = o.entry /\ b.owner = o.owner /\ b.left = o.left
        /\ b \in OptType
    BY <1>1, <1>5, <1>7 DEF OptType
  <1>10. b \in T
    <2>1. \A p \in Path : o.owner[p] = 0 \/ o.owner[p] \in (prior + 1) .. Len(S)
      BY DEF Met, OptInv
    <2> QED
      BY <1>1, <1>9, <2>1 DEF Grown
  <1>11. /\ tree \subseteq 1 .. Len(S) /\ IsFiniteSet(tree)
         /\ \A x \in tree : o.entry[x].shared > 0 /\ o.entry[x].content \subseteq covered
    BY <1>1, <1>2, TreeFacts
  <1> HIDE DEF tree, covered
  <1>12. tree \subseteq (prior + 1) .. Len(S)
    <2> SUFFICES ASSUME NEW x \in tree PROVE x \in (prior + 1) .. Len(S)
      OBVIOUS
    <2>1. x \in 1 .. Len(S) /\ o.entry[x].shared > 0
      BY <1>11
    <2>2. OptInv(o, before, prior, start, files)
      BY DEF Met
    <2>3. \A s \in 1 .. prior : o.entry[s].shared = 0
      BY <2>2, Zenon DEF OptInv
    <2>4. x \notin 1 .. prior
      BY <2>1, <2>3
    <2> QED
      BY <1>1, <1>2, <2>1, <2>4
  <1>13. ASSUME NEW x \in tree, NEW q \in T PROVE Grow(x, q) \in T
    <2>1. x \in (prior + 1) .. Len(o.entry) /\ Len(o.entry) \in Nat
      BY <1>1, <1>2, <1>12
    <2> QED
      BY <1>1, <1>11, <2>1, GrowKeeps
  <1> HIDE DEF T
  <1>14. MapThenFoldSet(LAMBDA x, q : Grow(x, q), b, LAMBDA x : x, Min, tree) \in T
    <2>1. tree \in SUBSET Nat
      BY <1>2, <1>11
    <2> QED
      BY <1>10, <1>11, <1>13, <2>1, GrowFold
  <1>15. Reuse(o, e, n) = MapThenFoldSet(LAMBDA x, q : Grow(x, q), b, LAMBDA x : x, Min, tree)
    BY Zenon DEF Reuse, Grow, b, tree, EntryKids
  <1>16. Reuse(o, e, n) \in T
    BY <1>14, <1>15, Zenon
  <1> QED
    BY <1>8, <1>16 DEF T, covered

\* Reuse keeps the invariant of optimize().
LEMMA ReuseKeeps ==
    ASSUME NEW before, NEW prior, NEW start, NEW files, NEW o, NEW e,
           Met(o, before, prior, start, files, e), o.entry[e].shared > 0,
           o.entry[e].content \subseteq o.left,
           ~ StartsTooLate(o, e, Len(before) + 1)
    PROVE  OptInv(Reuse(o, e, Len(before) + 1), before, prior, start, files)
  <1> DEFINE n == Len(before) + 1
             S == o.snap
             q == Reuse(o, e, n)
             covered == Covers(S, e)
  <1>1. PICK R : Linked(S, R, n, e) /\ q \in Grown(o, R, prior, covered)
    BY ReuseGrows
  <1>2. /\ SnapsInv(S) /\ EntriesInv(S, o.entry) /\ n <= Len(S) /\ Len(S) \in Nat /\ Len(o.entry) = Len(S)
        /\ prior \in Nat /\ Len(before) \in Nat /\ prior < e /\ e < n /\ e \in Nat
        /\ ~ S[n].ready /\ S[n].start = start /\ Covers(S, n) \cup o.left = files
    <2>1. SnapsInv(S) /\ EntriesInv(S, o.entry) /\ n <= Len(S)
      BY DEF Met, OptInv
    <2>2. Len(S) \in Nat /\ Len(o.entry) = Len(S)
      BY <2>1, KidsOfFacts DEF EntriesInv
    <2>3. prior \in Nat /\ Len(before) \in Nat /\ prior < e /\ e < n /\ e \in Nat
      BY DEF Met
    <2> QED
      BY <2>1, <2>2, <2>3 DEF Met, OptInv
  <1> HIDE DEF q
  <1>3. n \in 1 .. Len(S) /\ e \in 1 .. Len(S) /\ n # e
    BY <1>2
  <1>4. S[e].ready /\ o.entry[e].content = covered
    BY <1>2, <1>3 DEF EntriesInv
  <1>5. UsesStart => S[e].start <= S[n].start
    <2>1. UsesStart => S[n].start > 0 /\ S[n].start \in Nat /\ S[e].start \in Nat
      BY <1>2, <1>3, KidsOfFacts DEF SnapsInv, SnapType
    <2> QED
      BY <2>1 DEF StartsTooLate
  <1>6. /\ SnapsInv(R)
        /\ \A s \in 1 .. Len(S) : s # n => \A p, x : Holds(R, s, p, x) <=> Holds(S, s, p, x)
        /\ Covers(R, n) = Covers(S, n) \cup covered
    <2>1. Fits(S, n, e)
      BY <1>2, <1>3, <1>4, <1>5 DEF Fits
    <2> HIDE DEF n, S
    <2> QED
      BY <1>1, <2>1, LinkedFacts
  <1>7. /\ R \in Seq(SnapType) /\ Len(R) = Len(S)
        /\ \A s \in 1 .. Len(S) :
              /\ R[s].start = S[s].start /\ R[s].ready = S[s].ready /\ R[s].own = S[s].own
              /\ R[s].kids = IF s = n THEN S[s].kids \cup {e} ELSE S[s].kids
    BY <1>1 DEF Linked
  <1>8. /\ q \in OptType /\ q.snap = R /\ Len(q.entry) = Len(S)
        /\ \A x \in 1 .. Len(S) :
              /\ q.entry[x].content = o.entry[x].content /\ q.entry[x].kids = o.entry[x].kids
              /\ q.entry[x].shared > 0 <=> o.entry[x].shared > 0
        /\ \A p \in Path : q.owner[p] = 0 \/ q.owner[p] \in (prior + 1) .. Len(S)
        /\ q.left \subseteq o.left /\ o.left \ covered \subseteq q.left
    BY <1>1, <1>2 DEF Grown
  <1>9. EntriesInv(R, q.entry)
    <2>1. q.entry \in Seq(EntryType)
      BY <1>8 DEF OptType
    <2>2. ASSUME NEW x \in 1 .. Len(S) PROVE q.entry[x].kids \subseteq R[x].kids
      <3>1. o.entry[x].kids \subseteq S[x].kids
        BY <1>2 DEF EntriesInv
      <3> QED
        BY <1>7, <1>8, <3>1
    <2>3. ASSUME NEW x \in 1 .. Len(S), q.entry[x].shared > 0
          PROVE  /\ R[x].ready /\ q.entry[x].content = Covers(R, x)
                 /\ \A k \in q.entry[x].kids : q.entry[k].shared > 0
      <3>1. /\ S[x].ready /\ o.entry[x].content = Covers(S, x)
            /\ \A k \in o.entry[x].kids : o.entry[k].shared > 0
            /\ o.entry[x].kids \subseteq S[x].kids
        BY <1>2, <1>8, <2>3 DEF EntriesInv
      <3>2. x # n
        BY <1>2, <3>1
      <3>3. Covers(R, x) = Covers(S, x)
        <4>1. \A p, y : Holds(R, x, p, y) <=> Holds(S, x, p, y)
          BY <1>6, <3>2
        <4> QED
          BY <4>1, CoversHolds
      <3>4. S[x].kids \subseteq 1 .. Len(S)
        BY <1>2 DEF SnapsInv
      <3> QED
        BY <1>7, <1>8, <3>1, <3>3, <3>4
    <2> QED
      BY <1>7, <1>8, <2>1, <2>2, <2>3 DEF EntriesInv
  <1>10. ASSUME NEW s \in 1 .. prior PROVE R[s] = before[s] /\ q.entry[s].shared = 0
    <2>1. S[s] = before[s] /\ o.entry[s].shared = 0
      BY DEF Met, OptInv
    <2>2. s \in 1 .. Len(S) /\ s # n
      BY <1>2
    <2>3. S[s] \in SnapType /\ R[s] \in SnapType
      BY <1>2, <1>6, <1>7, <2>2, KidsOfFacts
    <2>4. R[s].start = S[s].start /\ R[s].ready = S[s].ready /\ R[s].kids = S[s].kids /\ R[s].own = S[s].own
      BY <1>7, <2>2
    <2>5. R[s] = S[s]
      BY <2>3, <2>4 DEF SnapType
    <2>6. q.entry[s].shared \in Nat /\ ~ (q.entry[s].shared > 0)
      <3>1. q.entry \in Seq(EntryType) /\ s \in 1 .. Len(q.entry)
        BY <1>8, <2>2 DEF OptType
      <3>2. q.entry[s] \in EntryType
        BY <3>1, LenProperties
      <3> QED
        BY <1>8, <2>1, <2>2, <3>2 DEF EntryType
    <2> QED
      BY <2>1, <2>5, <2>6
  <1>11. ASSUME NEW s \in (prior + 1) .. Len(R) PROVE R[s].kids \subseteq (prior + 1) .. Len(R)
    <2>1. s \in (prior + 1) .. Len(S) /\ s \in 1 .. Len(S)
      BY <1>2, <1>7
    <2>2. S[s].kids \subseteq (prior + 1) .. Len(S)
      BY <2>1 DEF Met, OptInv
    <2>3. e \in (prior + 1) .. Len(S)
      BY <1>2
    <2> HIDE DEF S, n
    <2> QED
      BY <1>7, <2>1, <2>2, <2>3
  <1>12. ASSUME NEW s \in 1 .. Len(before)
         PROVE  /\ R[s].start = before[s].start /\ R[s].ready = before[s].ready
                /\ \A p, x : Holds(R, s, p, x) <=> Holds(before, s, p, x)
    <2>1. /\ S[s].start = before[s].start /\ S[s].ready = before[s].ready
          /\ \A p, x : Holds(S, s, p, x) <=> Holds(before, s, p, x)
      BY DEF Met, OptInv
    <2>2. s \in 1 .. Len(S) /\ s # n
      BY <1>2
    <2>3. \A p, x : Holds(R, s, p, x) <=> Holds(S, s, p, x)
      BY <1>6, <2>2
    <2> QED
      BY <1>7, <2>1, <2>2, <2>3
  <1>13. ASSUME NEW s \in (prior + 1) .. Len(R), NEW p \in DOMAIN R[s].own
         PROVE  \E t \in (prior + 1) .. Len(before) : p \in DOMAIN before[t].own /\ before[t].own[p] = R[s].own[p]
    <2>1. s \in (prior + 1) .. Len(S) /\ s \in 1 .. Len(S)
      BY <1>2, <1>7
    <2>2. R[s].own = S[s].own
      BY <1>7, <2>1
    <2> QED
      BY <1>13, <2>1, <2>2 DEF Met, OptInv
  <1>14. R[n].start = start /\ ~ R[n].ready /\ n <= Len(R)
    <2>1. R[n].start = S[n].start /\ R[n].ready = S[n].ready
      BY <1>3, <1>7
    <2> QED
      BY <1>2, <1>7, <2>1
  <1>15. Covers(R, n) \cup q.left = files
    <2> HIDE DEF covered
    <2> QED
      BY <1>2, <1>4, <1>6, <1>8
  <1>16. \A p \in Path : q.owner[p] = 0 \/ q.owner[p] \in (prior + 1) .. Len(R)
    BY <1>7, <1>8
  <1> HIDE DEF S, n, covered
  <1>17. OptInv(q, before, prior, start, files)
    BY <1>6, <1>8, <1>9, <1>10, <1>11, <1>12, <1>13, <1>14, <1>15, <1>16 DEF OptInv, n
  <1> QED
    BY <1>17 DEF q, n

\* Every way through the loop of optimize() keeps its invariant.
LEMMA ShareKeeps ==
    ASSUME NEW before, NEW prior, NEW start, NEW files, NEW o, NEW e,
           Met(o, before, prior, start, files, e)
    PROVE  OptInv(Share(o, e, Len(before) + 1), before, prior, start, files)
  <1> DEFINE n == Len(before) + 1
             own == DOMAIN o.snap[e].own
             other == o.entry[e].content \ o.left
             both == own \cap o.left
             small == Cardinality(o.entry[e].content \ other) < MinCommon
             few == Cardinality(both) < MinCommon
  <1>1. OptInv(o, before, prior, start, files)
    BY DEF Met
  <1>2. /\ SnapsInv(o.snap) /\ EntriesInv(o.snap, o.entry) /\ e \in 1 .. Len(o.snap)
        /\ Len(o.entry) = Len(o.snap) /\ o.entry[e] \in EntryType
    <2>1. SnapsInv(o.snap) /\ EntriesInv(o.snap, o.entry) /\ n <= Len(o.snap)
      BY <1>1 DEF OptInv
    <2>2. Len(o.snap) \in Nat
      BY <2>1, KidsOfFacts
    <2>3. e \in 1 .. Len(o.snap) /\ Len(o.entry) = Len(o.snap)
      BY <2>1, <2>2 DEF Met, EntriesInv
    <2> QED
      BY <2>1, <2>3, LenProperties DEF EntriesInv
  <1>3. Share(o, e, n) =
          IF o.entry[e].shared > 0
          THEN IF StartsTooLate(o, e, n) \/ ~ other \subseteq own THEN o
               ELSE IF other = {} THEN Reuse(o, e, n)
               ELSE IF small THEN o ELSE Extract(o, e, n, own \ other)
          ELSE IF ~ o.snap[e].ready \/ few THEN o ELSE Extract(o, e, n, both)
    BY DEF Share
  <1> HIDE DEF small, few
  <1>4. CASE Share(o, e, n) = o
    BY <1>1, <1>4
  <1>5. CASE o.entry[e].shared > 0 /\ ~ StartsTooLate(o, e, n) /\ other = {}
    <2>1. Share(o, e, n) = Reuse(o, e, n) \/ Share(o, e, n) = o
      BY <1>3, <1>5
    <2>2. o.entry[e].content \subseteq o.left
      BY <1>5
    <2>3. OptInv(Reuse(o, e, n), before, prior, start, files)
      BY <1>5, <2>2, ReuseKeeps
    <2> QED
      BY <1>4, <2>1, <2>3
  <1>6. CASE o.entry[e].shared > 0 /\ Share(o, e, n) = Extract(o, e, n, own \ other)
    <2>1. o.snap[e].ready /\ o.entry[e].content = Covers(o.snap, e)
      BY <1>2, <1>6 DEF EntriesInv
    <2>2. own \subseteq o.entry[e].content
      BY <1>2, <2>1, UnderFacts DEF Covers
    <2>3. own \ other \subseteq o.left
      BY <2>2
    <2>4. OptInv(Extract(o, e, n, own \ other), before, prior, start, files)
      BY <2>1, <2>3, ExtractKeeps
    <2> QED
      BY <1>6, <2>4
  <1>7. CASE o.snap[e].ready /\ Share(o, e, n) = Extract(o, e, n, both)
    <2>1. OptInv(Extract(o, e, n, both), before, prior, start, files)
      BY <1>7, ExtractKeeps
    <2> QED
      BY <1>7, <2>1
  <1>8. \/ Share(o, e, n) = o
        \/ o.entry[e].shared > 0 /\ ~ StartsTooLate(o, e, n) /\ other = {}
        \/ o.entry[e].shared > 0 /\ Share(o, e, n) = Extract(o, e, n, own \ other)
        \/ o.snap[e].ready /\ Share(o, e, n) = Extract(o, e, n, both)
    <2> HIDE DEF other, own, both
    <2> QED
      BY <1>3
  <1> QED
    BY <1>4, <1>5, <1>6, <1>7, <1>8

\* One round of optimize(): the i-th of the entries it meets.
Consider(met, n, i, q) ==
    IF met[i] \in {0} \cup ToSet(SubSeq(met, 1, i - 1)) THEN q ELSE Share(q, met[i], n)

\* All rounds.
Considered(met, n, m, base) ==
    LET V[s \in SUBSET (1 .. m)] ==
            IF s = {} THEN base ELSE Consider(met, n, Max(s), V[s \ {Max(s)}])
    IN  V[1 .. m]

\* The loop of optimize() keeps what each round of it keeps.
LEMMA ConsiderFold ==
    ASSUME NEW T, NEW met, NEW n, NEW m \in Nat, NEW base \in T,
           \A i \in 1 .. m, q \in T : Consider(met, n, i, q) \in T
    PROVE  Considered(met, n, m, base) \in T
  <1> DEFINE all == 1 .. m
             Then(i, q) == Consider(met, n, i, q)
             pick == [s \in SUBSET all |-> Max(s)]
             step == [i \in all |-> [q \in T |-> Then(i, q)]]
  <1>0. \A i \in all, q \in T : Then(i, q) \in T
    OBVIOUS
  <1>1. \A s \in SUBSET all : s # {} => Max(s) \in s
    BY MaxIn
  <1>2. \A s \in SUBSET all : pick[s] = Max(s)
    OBVIOUS
  <1>3. \A s \in SUBSET all : s # {} => pick[s] \in s
    BY <1>1, <1>2
  <1>3a. IsFiniteSet(all)
    <2>1. 1 \in Int /\ m \in Int
      OBVIOUS
    <2> QED
      BY <2>1, FS_Interval
  <1> HIDE DEF Then
  <1>4. step \in [all -> [T -> T]]
    BY <1>0
  <1> HIDE DEF pick, all
  <1>5. PICK W : Folded(all, T, base, step, pick, W)
    <2> HIDE DEF step
    <2>1. FoldInput(all, T, base, step, pick)
      BY <1>3, <1>3a, <1>4 DEF FoldInput
    <2> QED
      BY <2>1, FoldExists
  <1>6. ASSUME NEW s \in SUBSET all
        PROVE  W[s] = IF s = {} THEN base ELSE Then(Max(s), W[s \ {Max(s)}])
    <2>1. CASE s # {}
      <3>1. pick[s] \in all /\ s \ {pick[s]} \in SUBSET all
        BY <1>3, <2>1
      <3>2. W[s \ {pick[s]}] \in T
        BY <1>5, <3>1 DEF Folded
      <3>3. step[pick[s]][W[s \ {pick[s]}]] = Then(pick[s], W[s \ {pick[s]}])
        BY <3>1, <3>2
      <3>4. W[s] = step[pick[s]][W[s \ {pick[s]}]]
        BY <1>5, <2>1 DEF Folded
      <3>5. W[s] = Then(pick[s], W[s \ {pick[s]}])
        BY <3>3, <3>4
      <3> QED
        BY <1>2, <2>1, <3>5, Zenon
    <2>2. CASE s = {}
      BY <1>5, <2>2 DEF Folded
    <2> QED
      BY <2>1, <2>2, Zenon
  <1>7. \E V : V = [s \in SUBSET all |-> IF s = {} THEN base ELSE Then(Max(s), V[s \ {Max(s)}])]
    <2>1. W = [s \in SUBSET all |-> W[s]]
      BY <1>5 DEF Folded
    <2>2. W = [s \in SUBSET all |-> IF s = {} THEN base ELSE Then(Max(s), W[s \ {Max(s)}])]
      BY <1>6, <2>1, Zenon
    <2> QED
      BY <2>2, Zenon
  <1> DEFINE U == CHOOSE V : V = [s \in SUBSET all |-> IF s = {} THEN base
                                                       ELSE Then(Max(s), V[s \ {Max(s)}])]
  <1>8. U = [s \in SUBSET all |-> IF s = {} THEN base ELSE Then(Max(s), U[s \ {Max(s)}])]
    BY <1>7, Zenon
  <1> HIDE DEF U
  <1>9. U[all] \in T
    <2>1. U[{}] = base
      <3>1. {} \in SUBSET all
        OBVIOUS
      <3> QED
        BY <1>8, <3>1, Zenon
    <2>2. ASSUME NEW s \in SUBSET all, s # {}, U[s \ {pick[s]}] \in T PROVE U[s] \in T
      <3>1. U[s] = Then(Max(s), U[s \ {Max(s)}])
        BY <1>8, <2>2, Zenon
      <3>2. U[s] = Then(pick[s], U[s \ {pick[s]}])
        BY <1>2, <3>1, Zenon
      <3>3. pick[s] \in all
        BY <1>3, <2>2
      <3> QED
        BY <1>0, <2>2, <3>2, <3>3
    <2>3. U[{}] \in T
      BY <2>1
    <2>4. \A s \in SUBSET all : s # {} /\ U[s \ {pick[s]}] \in T => U[s] \in T
      BY <2>2
    <2> QED
      BY <1>3, <1>3a, <2>3, <2>4, FoldKeeps
  <1>10. Considered(met, n, m, base) = U[all]
    BY Zenon DEF Considered, U, Then, all
  <1> QED
    BY <1>9, <1>10

\* optimize() keeps its invariant: nothing is dropped from a snapshot, and nothing is captured twice.
LEMMA OptimizeKeeps ==
    ASSUME NEW before, NEW prior \in Nat, NEW start, NEW files \in Seq(Path), NEW o,
           OptInv(o, before, prior, start, ToSet(files)), Len(before) \in Nat, prior <= Len(before),
           \A p \in Path : o.owner[p] <= Len(before)
    PROVE  OptInv(Optimize(o, Len(before) + 1, files), before, prior, start, ToSet(files))
  <1> DEFINE n == Len(before) + 1
             fresh == {p \in o.left : o.owner[p] = 0}
             met == [i \in 1 .. Len(files) |-> o.owner[files[i]]]
             owner2 == [p \in Path |-> IF p \in fresh THEN n ELSE o.owner[p]]
             b == [o EXCEPT !.owner = [p \in Path |-> IF p \in fresh THEN n ELSE @[p]]]
             T == {q \in OptType : OptInv(q, before, prior, start, ToSet(files))}
  <1>1. Len(files) \in Nat /\ \A i \in 1 .. Len(files) : files[i] \in Path
    BY LenProperties
  <1>2. o \in OptType /\ n <= Len(o.snap) /\ Len(o.snap) \in Nat
    BY KidsOfFacts DEF OptInv
  <1>3. \A i \in 1 .. Len(files) : met[i] = 0 \/ met[i] \in (prior + 1) .. Len(before)
    <2> SUFFICES ASSUME NEW i \in 1 .. Len(files) PROVE met[i] = 0 \/ met[i] \in (prior + 1) .. Len(before)
      OBVIOUS
    <2>1. files[i] \in Path /\ met[i] = o.owner[files[i]]
      BY <1>1
    <2>2. o.owner[files[i]] = 0 \/ o.owner[files[i]] \in (prior + 1) .. Len(o.snap)
      BY <2>1 DEF OptInv
    <2>3. o.owner[files[i]] <= Len(before)
      BY <2>1
    <2> QED
      BY <1>2, <2>1, <2>2, <2>3
  <1>4. b = [o EXCEPT !.owner = owner2]
    OBVIOUS
  <1>5. owner2 \in [Path -> Nat] /\ \A p \in Path : owner2[p] = 0 \/ owner2[p] \in (prior + 1) .. Len(o.snap)
    <2>1. \A p \in Path : o.owner[p] = 0 \/ o.owner[p] \in (prior + 1) .. Len(o.snap)
      BY DEF OptInv
    <2>2. n \in (prior + 1) .. Len(o.snap) /\ n \in Nat
      BY <1>2
    <2>3. o.owner \in [Path -> Nat]
      BY <1>2 DEF OptType
    <2> HIDE DEF n, fresh
    <2> QED
      BY <2>1, <2>2, <2>3
  <1> HIDE DEF b, owner2, met
  <1>6. /\ b.snap = o.snap /\ b.entry = o.entry /\ b.left = o.left /\ b.owner = owner2
        /\ b \in OptType
    BY <1>2, <1>4, <1>5 DEF OptType
  <1>7. b \in T
    <2>1. \A p \in Path : b.owner[p] = 0 \/ b.owner[p] \in (prior + 1) .. Len(b.snap)
      BY <1>5, <1>6
    <2>2. OptInv(b, before, prior, start, ToSet(files))
      BY <1>6, <2>1 DEF OptInv
    <2> QED
      BY <1>6, <2>2
  <1>8. ASSUME NEW i \in 1 .. Len(files), NEW q \in T PROVE Consider(met, n, i, q) \in T
    <2>1. CASE Consider(met, n, i, q) = q
      BY <2>1
    <2>2. CASE Consider(met, n, i, q) # q
      <3>1. met[i] # 0 /\ Consider(met, n, i, q) = Share(q, met[i], n)
        BY <2>2 DEF Consider
      <3>2. Met(q, before, prior, start, ToSet(files), met[i])
        BY <1>3, <3>1 DEF Met
      <3>3. OptInv(Share(q, met[i], n), before, prior, start, ToSet(files))
        BY <3>2, ShareKeeps
      <3>4. Share(q, met[i], n) \in OptType
        BY <3>3 DEF OptInv
      <3> QED
        BY <3>1, <3>3, <3>4
    <2> QED
      BY <2>1, <2>2
  <1> HIDE DEF T
  <1>9. Considered(met, n, Len(files), b) \in T
    <2>1. \A i \in 1 .. Len(files), q \in T : Consider(met, n, i, q) \in T
      BY <1>8
    <2> HIDE DEF n
    <2> QED
      BY <1>1, <1>7, <2>1, ConsiderFold
  <1>10. Len(met) = Len(files)
    <2>1. met = [i \in 1 .. Len(files) |-> o.owner[files[i]]]
      BY DEF met
    <2>2. met \in Seq({o.owner[files[i]] : i \in 1 .. Len(files)}) /\ Len(met) = Len(files)
      BY <1>1, <2>1, SeqDef, LenProperties
    <2> QED
      BY <2>2
  <1>11. Optimize(o, n, files) = Considered(met, n, Len(met), b)
    <2>1. Optimize(o, n, files) =
            MapThenFoldSet(LAMBDA i, q : Consider(met, n, i, q), b, LAMBDA i : i, Max, 1 .. Len(met))
      BY Zenon DEF Optimize, Consider, b, met, fresh
    <2> HIDE DEF n
    <2>2. MapThenFoldSet(LAMBDA i, q : Consider(met, n, i, q), b, LAMBDA i : i, Max, 1 .. Len(met))
            = Considered(met, n, Len(met), b)
      BY Zenon DEF MapThenFoldSet, Considered
    <2> QED
      BY <2>1, <2>2, Zenon
  <1>12. Optimize(o, n, files) \in T
    BY <1>9, <1>10, <1>11, Zenon
  <1> QED
    BY <1>12 DEF T

\* The snapshots in C become complete, with entries of their own.
Filled(S, R, C) ==
    /\ R \in Seq(SnapType) /\ Len(R) = Len(S)
    /\ \A s \in C : s \in 1 .. Len(S) /\ ~ S[s].ready /\ R[s].ready
    /\ \A s \in 1 .. Len(S) :
          /\ R[s].start = S[s].start /\ R[s].kids = S[s].kids
          /\ s \notin C => R[s] = S[s]

\* Completing snapshots that nothing is above changes what these hold only.
LEMMA FilledFacts ==
    ASSUME NEW S, NEW R, NEW C, SnapsInv(S), Filled(S, R, C)
    PROVE  /\ SnapsInv(R)
           /\ \A s \in 1 .. Len(S) : Under(R, s) = Under(S, s)
           /\ \A s \in 1 .. Len(S) : \A t \in Under(S, s) : t \in C => t = s
           /\ \A s \in 1 .. Len(S) : s \notin C => \A p, x : Holds(R, s, p, x) <=> Holds(S, s, p, x)
           /\ \A s \in C : \A p, x :
                 Holds(R, s, p, x) <=> Holds(S, s, p, x) \/ (p \in DOMAIN R[s].own /\ R[s].own[p] = x)
  <1>1. /\ Len(S) \in Nat /\ DOMAIN KidsOf(S) = 1 .. Len(S) /\ Graph(KidsOf(S)) /\ Acyclic(KidsOf(S))
        /\ \A s \in 1 .. Len(S) : KidsOf(S)[s] = S[s].kids /\ S[s] \in SnapType
    BY KidsOfFacts
  <1>2. KidsOf(R) = KidsOf(S)
    BY DEF KidsOf, Filled
  <1>3. \A s : Under(R, s) = Under(S, s)
    BY <1>2 DEF Under
  <1>4. \A c \in C : \A t \in 1 .. Len(S) : c \notin S[t].kids
    BY DEF SnapsInv, Filled
  <1>5. ASSUME NEW s \in 1 .. Len(S), NEW t \in Under(S, s), t \in C PROVE t = s
    <2>1. t \in DOMAIN KidsOf(S) /\ s \in DOMAIN KidsOf(S)
      BY <1>1, <1>5 DEF Filled
    <2>2. \A u \in DOMAIN KidsOf(S) : t \notin KidsOf(S)[u]
      BY <1>1, <1>4, <1>5
    <2> QED
      BY <1>1, <1>5, <2>1, <2>2, NobodysKid DEF Under
  <1>6. \A s \in 1 .. Len(S) : s \in Under(S, s) /\ Under(S, s) \subseteq 1 .. Len(S)
    BY UnderFacts
  <1>7. SnapsInv(R)
    <2>1. \A s \in 1 .. Len(R) : R[s].kids \subseteq 1 .. Len(R)
      BY DEF Filled, SnapsInv
    <2>2. Acyclic(KidsOf(R))
      BY <1>1, <1>2
    <2>3. \A s \in 1 .. Len(R) : \A k \in R[s].kids : R[k].ready
      BY DEF Filled, SnapsInv
    <2>4. ASSUME NEW s \in 1 .. Len(R), ~ R[s].ready PROVE DOMAIN R[s].own = {}
      <3>1. s \notin C /\ s \in 1 .. Len(S)
        BY <2>4 DEF Filled
      <3>2. R[s] = S[s]
        BY <3>1 DEF Filled
      <3> QED
        BY <2>4, <3>1, <3>2 DEF SnapsInv
    <2>5. ASSUME UsesStart, NEW s \in 1 .. Len(R)
          PROVE  R[s].start > 0 /\ \A k \in R[s].kids : R[k].start <= R[s].start
      <3>1. /\ Len(R) = Len(S) /\ R[s].start = S[s].start /\ R[s].kids = S[s].kids
        BY DEF Filled
      <3>2. S[s].start > 0 /\ S[s].kids \subseteq 1 .. Len(S) /\ \A k \in S[s].kids : S[k].start <= S[s].start
        BY <2>5, <3>1 DEF SnapsInv
      <3>3. \A k \in S[s].kids : R[k].start = S[k].start
        BY <3>2 DEF Filled
      <3> QED
        BY <3>1, <3>2, <3>3
    <2> QED
      BY <2>1, <2>2, <2>3, <2>4, <2>5 DEF SnapsInv, Filled
  <1>8. ASSUME NEW s \in 1 .. Len(S), s \notin C, NEW p, NEW x
        PROVE  Holds(R, s, p, x) <=> Holds(S, s, p, x)
    <2>1. \A t \in Under(S, s) : t \in 1 .. Len(S) /\ t \notin C
      BY <1>5, <1>6, <1>8
    <2>2. \A t \in Under(S, s) : R[t] = S[t]
      BY <2>1 DEF Filled
    <2> QED
      BY <1>3, <2>2 DEF Holds
  <1>9. ASSUME NEW s \in C, NEW p, NEW x
        PROVE  Holds(R, s, p, x) <=> Holds(S, s, p, x) \/ (p \in DOMAIN R[s].own /\ R[s].own[p] = x)
    <2>1. s \in 1 .. Len(S) /\ DOMAIN S[s].own = {}
      BY DEF Filled, SnapsInv
    <2>2. \A t \in Under(S, s) : t # s => t \in 1 .. Len(S) /\ t \notin C
      BY <1>5, <1>6, <2>1
    <2>3. \A t \in Under(S, s) : t # s => R[t] = S[t]
      BY <2>2 DEF Filled
    <2>4. ASSUME Holds(R, s, p, x)
          PROVE  Holds(S, s, p, x) \/ (p \in DOMAIN R[s].own /\ R[s].own[p] = x)
      <3>1. PICK t \in Under(S, s) : p \in DOMAIN R[t].own /\ R[t].own[p] = x
        BY <1>3, <2>4 DEF Holds
      <3>2. CASE t = s
        BY <3>1, <3>2
      <3>3. CASE t # s
        BY <2>3, <3>1, <3>3 DEF Holds
      <3> QED
        BY <3>2, <3>3
    <2>5. ASSUME Holds(S, s, p, x) PROVE Holds(R, s, p, x)
      <3>1. PICK t \in Under(S, s) : p \in DOMAIN S[t].own /\ S[t].own[p] = x
        BY <2>5 DEF Holds
      <3>2. t # s
        BY <2>1, <3>1
      <3> QED
        BY <1>3, <2>3, <3>1, <3>2 DEF Holds
    <2>6. ASSUME p \in DOMAIN R[s].own, R[s].own[p] = x PROVE Holds(R, s, p, x)
      BY <1>3, <1>6, <2>1, <2>6 DEF Holds
    <2> QED
      BY <2>4, <2>5, <2>6
  <1> QED
    BY <1>3, <1>5, <1>7, <1>8, <1>9

\* The first m snapshots have their children among themselves.
Closes(S, m) == m \in Nat /\ m <= Len(S) /\ \A s \in 1 .. m : S[s].kids \subseteq 1 .. m

\* Below a snapshot of an earlier compilation are such snapshots.
LEMMA UnderBelow ==
    ASSUME NEW S, NEW m, SnapsInv(S), Closes(S, m), NEW s \in 1 .. m
    PROVE  s \in 1 .. Len(S) /\ Under(S, s) \subseteq 1 .. m
  <1>1. Len(S) \in Nat
    BY KidsOfFacts
  <1>2. s \in 1 .. Len(S) /\ 1 .. m \in SUBSET (1 .. Len(S))
    BY <1>1 DEF Closes
  <1>3. \A t \in 1 .. m : S[t].kids \subseteq 1 .. m
    BY DEF Closes
  <1> QED
    BY <1>2, <1>3, UnderFacts

\* What is below a snapshot does not depend on the snapshots made after it.
LEMMA SameBelow ==
    ASSUME NEW S, NEW R, NEW m, SnapsInv(S), SnapsInv(R), Closes(S, m), m <= Len(R),
           \A s \in 1 .. m : R[s] = S[s], NEW s \in 1 .. m
    PROVE  Under(R, s) = Under(S, s)
  <1>1. Closes(R, m)
    BY DEF Closes
  <1>2. s \in 1 .. Len(S) /\ s \in 1 .. Len(R) /\ Under(S, s) \subseteq 1 .. m /\ Under(R, s) \subseteq 1 .. m
    BY <1>1, UnderBelow
  <1>3. /\ s \in Under(S, s) /\ \A t \in Under(S, s) : S[t].kids \subseteq Under(S, s)
        /\ \A C \in SUBSET (1 .. Len(S)) : s \in C /\ (\A t \in C : S[t].kids \subseteq C) => Under(S, s) \subseteq C
    BY <1>2, UnderFacts
  <1>4. /\ s \in Under(R, s) /\ \A t \in Under(R, s) : R[t].kids \subseteq Under(R, s)
        /\ \A C \in SUBSET (1 .. Len(R)) : s \in C /\ (\A t \in C : R[t].kids \subseteq C) => Under(R, s) \subseteq C
    BY <1>2, UnderFacts
  <1>5. Len(S) \in Nat /\ Len(R) \in Nat
    BY KidsOfFacts
  <1>6. 1 .. m \subseteq 1 .. Len(S) /\ 1 .. m \subseteq 1 .. Len(R)
    BY <1>5 DEF Closes
  <1>7. Under(S, s) \subseteq Under(R, s)
    <2>1. \A t \in Under(R, s) : S[t].kids \subseteq Under(R, s)
      BY <1>2, <1>4
    <2>2. Under(R, s) \in SUBSET (1 .. Len(S))
      BY <1>2, <1>6
    <2> QED
      BY <1>3, <1>4, <2>1, <2>2
  <1>8. Under(R, s) \subseteq Under(S, s)
    <2>1. \A t \in Under(S, s) : R[t].kids \subseteq Under(S, s)
      BY <1>2, <1>3
    <2>2. Under(S, s) \in SUBSET (1 .. Len(R))
      BY <1>2, <1>6
    <2> QED
      BY <1>3, <1>4, <2>1, <2>2
  <1> QED
    BY <1>7, <1>8

\* What an entry says of its snapshot, and what that says of the whole.
Modes == {"timestamp", "hash", "both", "existence"}
Verdicts == {"none", "pending", "valid", "invalid"}
Says(S, st, hs, t, p) == EntryVerdict(st[p], hs[p], S[t].own[p], S[t].start)
Checked(S, st, hs, s) == \A t \in Under(S, s) : \A p \in DOMAIN S[t].own : Says(S, st, hs, t, p) = "valid"
Refuted(S, st, hs, s) == \E t \in Under(S, s) : \E p \in DOMAIN S[t].own : Says(S, st, hs, t, p) = "invalid"

\* An entry has one of three answers.
LEMMA EntrySays ==
    ASSUME mode \in Modes, NEW t, NEW h, NEW x, NEW start
    PROVE  EntryVerdict(t, h, x, start) \in {"valid", "invalid", "pending"}
  <1>1. HashVerdict(h, x.hash) \in {"valid", "invalid", "pending"}
    BY DEF HashVerdict, Verdict
  <1>2. Verdict(SameExistence(t, x.stamp)) \in {"valid", "invalid", "pending"}
    BY DEF Verdict
  <1> QED
    BY <1>1, <1>2 DEF EntryVerdict, Modes

\* The snapshots that a check of s looks at: it goes no further than an answer.
Settled(V, t) == V[t] \in {"valid", "invalid"}
Looked(S, V) == [t \in 1 .. Len(S) |-> IF Settled(V, t) THEN {} ELSE S[t].kids]
AnyInvalid(S, st, hs, V, t) ==
    \/ V[t] = "invalid"
    \/ ~ Settled(V, t) /\ \E p \in DOMAIN S[t].own : Says(S, st, hs, t, p) = "invalid"
AnyPending(S, st, hs, V, t) ==
    ~ Settled(V, t) /\ \E p \in DOMAIN S[t].own : Says(S, st, hs, t, p) = "pending"
Outcome(S, st, hs, V, s) ==
    IF \E t \in Reach(Looked(S, V), s) : AnyInvalid(S, st, hs, V, t) THEN "invalid"
    ELSE IF \E t \in Reach(Looked(S, V), s) : AnyPending(S, st, hs, V, t) THEN "pending"
    ELSE "valid"
Parts(S, st, hs, F, t) == {Says(S, st, hs, t, p) : p \in DOMAIN S[t].own} \cup {F[k] : k \in S[t].kids}
Value(S, st, hs, V, F, t) ==
    IF V[t] \in {"valid", "invalid"} THEN V[t]
    ELSE IF "invalid" \in Parts(S, st, hs, F, t) THEN "invalid"
    ELSE IF "pending" \in Parts(S, st, hs, F, t) THEN "pending"
    ELSE "valid"

\* The outcome follows from the entries and the outcomes of the children.
LEMMA OutcomeUnfolds ==
    ASSUME NEW S, SnapsInv(S), NEW st, NEW hs, NEW V, NEW F, NEW s \in 1 .. Len(S),
           \A k \in S[s].kids : F[k] = Outcome(S, st, hs, V, k)
    PROVE  Outcome(S, st, hs, V, s) = Value(S, st, hs, V, F, s)
  <1> DEFINE L == Looked(S, V)
             Inv1(t) == AnyInvalid(S, st, hs, V, t)
             Pen(t) == AnyPending(S, st, hs, V, t)
             Out(t) == Outcome(S, st, hs, V, t)
             P == Parts(S, st, hs, F, s)
  <1>1. DOMAIN L = 1 .. Len(S) /\ L[s] = IF Settled(V, s) THEN {} ELSE S[s].kids
    BY DEF Looked
  <1>2. Graph(L)
    <2>1. \A t \in 1 .. Len(S) : L[t] = {} \/ L[t] = S[t].kids
      BY DEF Looked
    <2>2. \A t \in 1 .. Len(S) : S[t].kids \subseteq 1 .. Len(S)
      BY DEF SnapsInv
    <2> HIDE DEF L
    <2> QED
      BY <1>1, <2>1, <2>2 DEF Graph
  <1>3. Reach(L, s) = {s} \cup UNION {Reach(L, k) : k \in L[s]}
    BY <1>1, <1>2, ReachUnfolds
  <1>4. \A t : Out(t) = IF \E u \in Reach(L, t) : Inv1(u) THEN "invalid"
                        ELSE IF \E u \in Reach(L, t) : Pen(u) THEN "pending" ELSE "valid"
    BY DEF Outcome
  <1> HIDE DEF L, Inv1, Pen, Out
  <1>5. CASE Settled(V, s)
    <2>1. Reach(L, s) = {s}
      BY <1>1, <1>3, <1>5
    <2>2. (Inv1(s) <=> V[s] = "invalid") /\ ~ Pen(s)
      BY <1>5 DEF Inv1, Pen, AnyInvalid, AnyPending, Settled
    <2>3. Out(s) = V[s]
      BY <1>4, <1>5, <2>1, <2>2 DEF Settled
    <2>4. Value(S, st, hs, V, F, s) = V[s]
      BY <1>5, Zenon DEF Value, Settled
    <2> QED
      BY <2>3, <2>4 DEF Out
  <1>6. CASE ~ Settled(V, s)
    <2>1. L[s] = S[s].kids
      BY <1>1, <1>6
    <2>2. Inv1(s) <=> \E p \in DOMAIN S[s].own : Says(S, st, hs, s, p) = "invalid"
      BY <1>6 DEF Inv1, AnyInvalid, Settled
    <2>3. Pen(s) <=> \E p \in DOMAIN S[s].own : Says(S, st, hs, s, p) = "pending"
      BY <1>6 DEF Pen, AnyPending
    <2>4. \A k \in S[s].kids : F[k] = Out(k)
      BY DEF Out
    <2>5. "invalid" \in P <=> Inv1(s) \/ \E k \in S[s].kids : Out(k) = "invalid"
      BY <2>2, <2>4 DEF Parts
    <2>6. "pending" \in P <=> Pen(s) \/ \E k \in S[s].kids : Out(k) = "pending"
      BY <2>3, <2>4 DEF Parts
    <2>7. (\E t \in Reach(L, s) : Inv1(t)) <=> Inv1(s) \/ \E k \in S[s].kids : \E t \in Reach(L, k) : Inv1(t)
      BY <1>3, <2>1
    <2>8. (\E t \in Reach(L, s) : Pen(t)) <=> Pen(s) \/ \E k \in S[s].kids : \E t \in Reach(L, k) : Pen(t)
      BY <1>3, <2>1
    <2> HIDE DEF P
    <2>9. "invalid" \in P <=> \E t \in Reach(L, s) : Inv1(t)
      <3>1. \A k : Out(k) = "invalid" <=> \E t \in Reach(L, k) : Inv1(t)
        BY <1>4
      <3> QED
        BY <2>5, <2>7, <3>1
    <2>10. ASSUME "invalid" \notin P
           PROVE  "pending" \in P <=> \E t \in Reach(L, s) : Pen(t)
      <3>1. \A k \in S[s].kids : ~ \E t \in Reach(L, k) : Inv1(t)
        BY <2>7, <2>9, <2>10
      <3>2. \A k \in S[s].kids : Out(k) = "pending" <=> \E t \in Reach(L, k) : Pen(t)
        BY <1>4, <3>1
      <3> QED
        BY <2>6, <2>8, <3>2
    <2>11. Value(S, st, hs, V, F, s) = IF "invalid" \in P THEN "invalid"
                                       ELSE IF "pending" \in P THEN "pending" ELSE "valid"
      <3>1. V[s] \notin {"valid", "invalid"}
        BY <1>6 DEF Settled
      <3>2. CASE "invalid" \in P
        BY <3>1, <3>2, Zenon DEF Value, P
      <3>3. CASE "invalid" \notin P /\ "pending" \in P
        BY <3>1, <3>3, Zenon DEF Value, P
      <3>4. CASE "invalid" \notin P /\ "pending" \notin P
        BY <3>1, <3>4, Zenon DEF Value, P
      <3> QED
        BY <3>2, <3>3, <3>4
    <2>12. Out(s) = Value(S, st, hs, V, F, s)
      BY <1>4, <2>9, <2>10, <2>11
    <2> QED
      BY <2>12 DEF Out
  <1> QED
    BY <1>5, <1>6

\* So the recursion comes to an end, with that outcome.
LEMMA AnswerIsOutcome ==
    ASSUME SnapsInv(snap), NEW st, NEW hs, NEW V, NEW s \in 1 .. Len(snap)
    PROVE  Answer(s, st, hs, V) = Outcome(snap, st, hs, V, s)
  <1> DEFINE ids == 1 .. Len(snap)
             O == [t \in ids |-> Outcome(snap, st, hs, V, t)]
             Val(t, F) == Value(snap, st, hs, V, F, t)
  <1>1. \A t \in ids : snap[t].kids \subseteq ids
    BY DEF SnapsInv
  <1>2. O = [t \in ids |-> Val(t, O)]
    <2>1. ASSUME NEW t \in ids PROVE Outcome(snap, st, hs, V, t) = Val(t, O)
      <3>1. \A k \in snap[t].kids : O[k] = Outcome(snap, st, hs, V, k)
        BY <1>1
      <3> HIDE DEF O
      <3> QED
        BY <3>1, OutcomeUnfolds
    <2> HIDE DEF Val
    <2> QED
      BY <2>1
  <1>3. \E f : f = [t \in ids |-> Val(t, f)]
    <2> HIDE DEF O, Val
    <2> QED
      BY <1>2, Zenon
  <1> DEFINE Of == CHOOSE f : f = [t \in ids |-> Val(t, f)]
  <1>4. Of = [t \in ids |-> Val(t, Of)]
    <2> HIDE DEF Val
    <2> QED
      BY <1>3, Zenon
  <1>5. Answer(s, st, hs, V) = Of[s]
    BY Zenon DEF Answer, Value, Parts, Says
  <1> HIDE DEF Of
  <1>6. \A t \in ids : Of[t] = Val(t, Of)
    <2> HIDE DEF Val
    <2> QED
      BY <1>4, Zenon
  <1> DEFINE B == {t \in ids : Of[t] # Outcome(snap, st, hs, V, t)}
  <1>7. B = {}
    <2>1. SUFFICES ASSUME B # {} PROVE FALSE
      OBVIOUS
    <2>2. /\ Acyclic(KidsOf(snap)) /\ DOMAIN KidsOf(snap) = ids
          /\ \A t \in ids : KidsOf(snap)[t] = snap[t].kids
      BY KidsOfFacts
    <2>3. PICK t \in B : KidsOf(snap)[t] \cap B = {}
      BY <2>1, <2>2 DEF Acyclic
    <2>4. \A k \in snap[t].kids : Of[k] = Outcome(snap, st, hs, V, k)
      BY <1>1, <2>2, <2>3
    <2>5. Outcome(snap, st, hs, V, t) = Val(t, Of)
      BY <2>4, OutcomeUnfolds
    <2> QED
      BY <1>6, <2>3, <2>5
  <1> QED
    BY <1>5, <1>7

\* A snapshot has one of three answers.
LEMMA AnswerKinds ==
    ASSUME SnapsInv(snap), NEW st, NEW hs, NEW V, NEW s \in 1 .. Len(snap)
    PROVE  Answer(s, st, hs, V) \in {"valid", "invalid", "pending"}
  <1>1. Answer(s, st, hs, V) = Outcome(snap, st, hs, V, s)
    BY AnswerIsOutcome
  <1> QED
    BY <1>1 DEF Outcome

\* The answers of a compilation are about snapshots of earlier ones.
Answered(S, V, st, hs, m) ==
    \A s \in 1 .. m : /\ V[s] = "valid" => Checked(S, st, hs, s)
                      /\ V[s] = "invalid" => Refuted(S, st, hs, s)

\* An answer that is decided is justified by the entries of the snapshot and what is below it.
LEMMA AnswerIsRight ==
    ASSUME mode \in Modes, SnapsInv(snap), NEW st, NEW hs, NEW V, NEW m,
           Closes(snap, m), Answered(snap, V, st, hs, m), NEW s \in 1 .. m
    PROVE  /\ Answer(s, st, hs, V) = "valid" => Checked(snap, st, hs, s)
           /\ Answer(s, st, hs, V) = "invalid" => Refuted(snap, st, hs, s)
  <1> DEFINE L == Looked(snap, V)
             R == Reach(L, s)
             Un == Under(snap, s)
  <1>1. /\ s \in 1 .. Len(snap) /\ Un \subseteq 1 .. m /\ s \in Un
        /\ \A t \in Un : t \in 1 .. Len(snap) /\ Under(snap, t) \subseteq Un
        /\ \A t \in Un : snap[t].kids \subseteq Un
    <2>1. s \in 1 .. Len(snap)
      BY UnderBelow
    <2> QED
      BY <2>1, UnderBelow, UnderFacts
  <1>2. Answer(s, st, hs, V) = Outcome(snap, st, hs, V, s)
    BY <1>1, AnswerIsOutcome
  <1>3. DOMAIN L = 1 .. Len(snap) /\ \A t \in 1 .. Len(snap) : L[t] = IF Settled(V, t) THEN {} ELSE snap[t].kids
    BY DEF Looked
  <1> HIDE DEF L, Un
  <1>4. Graph(L)
    <2>1. \A t \in 1 .. Len(snap) : snap[t].kids \subseteq 1 .. Len(snap)
      BY DEF SnapsInv
    <2> QED
      BY <1>3, <2>1 DEF Graph
  <1>5. s \in R /\ R \subseteq 1 .. Len(snap) /\ Closed(L, R)
        /\ \A C \in SUBSET DOMAIN L : s \in C /\ Closed(L, C) => R \subseteq C
    BY <1>1, <1>3, <1>4, ReachFacts
  <1>6. R \subseteq Un
    <2>1. Un \in SUBSET DOMAIN L /\ Closed(L, Un)
      BY <1>1, <1>3 DEF Closed
    <2> QED
      BY <1>1, <1>5, <2>1
  <1>7. Outcome(snap, st, hs, V, s) =
           IF \E t \in R : AnyInvalid(snap, st, hs, V, t) THEN "invalid"
           ELSE IF \E t \in R : AnyPending(snap, st, hs, V, t) THEN "pending" ELSE "valid"
    BY DEF Outcome, L
  <1> HIDE DEF R
  <1>8. ASSUME Outcome(snap, st, hs, V, s) = "invalid" PROVE Refuted(snap, st, hs, s)
    <2>1. PICK t \in R : AnyInvalid(snap, st, hs, V, t)
      BY <1>7, <1>8
    <2>2. t \in 1 .. m /\ t \in Un /\ Under(snap, t) \subseteq Un
      BY <1>1, <1>6
    <2>3. CASE V[t] = "invalid"
      <3>1. Refuted(snap, st, hs, t)
        BY <2>2, <2>3 DEF Answered
      <3> QED
        BY <2>2, <3>1 DEF Refuted, Un
    <2>4. CASE \E p \in DOMAIN snap[t].own : Says(snap, st, hs, t, p) = "invalid"
      BY <2>2, <2>4 DEF Refuted, Un
    <2> QED
      BY <2>1, <2>3, <2>4 DEF AnyInvalid
  <1>9. ASSUME Outcome(snap, st, hs, V, s) = "valid" PROVE Checked(snap, st, hs, s)
    <2> DEFINE Good(t) == \A p \in DOMAIN snap[t].own : Says(snap, st, hs, t, p) = "valid"
               C == R \cup UNION {Under(snap, t) : t \in {u \in R : Settled(V, u)}}
    <2>1. \A t \in R : ~ AnyInvalid(snap, st, hs, V, t) /\ ~ AnyPending(snap, st, hs, V, t)
      BY <1>7, <1>9
    <2>2. ASSUME NEW t \in R, Settled(V, t) PROVE Checked(snap, st, hs, t)
      <3>1. V[t] = "valid"
        BY <2>1, <2>2 DEF AnyInvalid, Settled
      <3>2. t \in 1 .. m
        BY <1>1, <1>6
      <3> QED
        BY <3>1, <3>2 DEF Answered
    <2>3. ASSUME NEW t \in R, ~ Settled(V, t) PROVE Good(t)
      <3> SUFFICES ASSUME NEW p \in DOMAIN snap[t].own PROVE Says(snap, st, hs, t, p) = "valid"
        OBVIOUS
      <3>1. Says(snap, st, hs, t, p) \in {"valid", "invalid", "pending"}
        BY EntrySays DEF Says
      <3>2. Says(snap, st, hs, t, p) # "invalid" /\ Says(snap, st, hs, t, p) # "pending"
        BY <2>1, <2>3 DEF AnyInvalid, AnyPending
      <3> QED
        BY <3>1, <3>2
    <2>4. \A t \in C : Good(t)
      <3>1. ASSUME NEW t \in R, Settled(V, t), NEW u \in Under(snap, t) PROVE Good(u)
        BY <2>2, <3>1 DEF Checked
      <3>2. \A t \in R : t \in Under(snap, t)
        BY <1>5, UnderFacts
      <3> HIDE DEF Good
      <3> QED
        BY <2>3, <3>1, <3>2
    <2>5. C \in SUBSET (1 .. Len(snap))
      <3>1. \A t \in R : Under(snap, t) \subseteq 1 .. Len(snap)
        BY <1>5, UnderFacts
      <3> QED
        BY <1>5, <3>1
    <2>6. ASSUME NEW t \in C PROVE snap[t].kids \subseteq C
      <3>1. CASE t \in R /\ ~ Settled(V, t)
        <4>1. L[t] = snap[t].kids
          BY <1>3, <1>5, <3>1
        <4> QED
          BY <1>5, <3>1, <4>1 DEF Closed
      <3>2. ASSUME NEW u \in R, Settled(V, u), t \in Under(snap, u) PROVE snap[t].kids \subseteq C
        <4>1. snap[t].kids \subseteq Under(snap, u)
          BY <1>5, <3>2, UnderFacts
        <4> QED
          BY <3>2, <4>1
      <3>3. \A u \in R : u \in Under(snap, u)
        BY <1>5, UnderFacts
      <3>4. CASE t \in R /\ Settled(V, t)
        BY <3>2, <3>3, <3>4
      <3> QED
        BY <3>1, <3>2, <3>4
    <2>7. Un \subseteq C
      <3> HIDE DEF C
      <3>1. s \in C
        BY <1>5 DEF C
      <3> QED
        BY <1>1, <2>5, <2>6, <3>1, UnderFacts DEF Un
    <2> HIDE DEF C
    <2> QED
      BY <2>4, <2>7 DEF Checked, Un
  <1> QED
    BY <1>2, <1>8, <1>9

(***************************************************************************)
(* The invariant.                                                          *)
(***************************************************************************)

Stages == {"none", "started", "read", "capturing", "ready", "failed"}
BuildType == [stage : Stages, round : Nat, start : Nat, got : UNION {[D -> Nat] : D \in SUBSET Path},
              took : UNION {[D -> SUBSET Nat] : D \in SUBSET Path}, id : Nat, want : SUBSET Path]

\* The clock and the disk: every mtime is a multiple of the granularity, and
\* the accuracy is never finer than that.
DiskInv ==
    /\ setting \in Settings
    /\ clock \in FirstTime .. LastTime /\ fsStartTime \in FirstTime .. clock
    /\ edits \in Nat /\ round \in Nat \ {0}
    /\ accuracy \in Steps \cup {Coarsest} /\ setting.grain <= accuracy /\ accuracy <= Coarsest
    /\ disk \in [Path -> [version : Nat, mtime : Nat]]
    /\ \A p \in Path : /\ disk[p].mtime % setting.grain = 0
                       /\ disk[p].version = 1 => disk[p].mtime = setting.old[p]

\* What is read of a file that nobody edited.
RestInv(st, hs) ==
    /\ st \in [Path -> Readings] /\ hs \in [Path -> Readings]
    /\ \A p \in Path : disk[p].version = 1 =>
          /\ \/ st[p].kind \in {"unread", "failed"}
             \/ st[p].kind = "file" /\ st[p].value = disk[p].mtime /\ st[p].safe <= disk[p].mtime + Coarsest
          /\ \/ hs[p].kind \in {"unread", "failed"}
             \/ hs[p].kind = "file" /\ hs[p].value = 1

\* What was read is what was seen.
ReadAt(st, hs, sn, p) ==
    /\ hs[p].kind \in {"file", "absent"} => hs[p].value \in sn[p]
    /\ st[p].kind = "absent" => 0 \in sn[p]
    /\ mode = "existence" => /\ st[p].kind = "absent" => sn[p] = {0}
                             /\ st[p].kind = "file" => 0 \notin sn[p]
                             /\ st[p].kind \in {"unread", "failed"} => sn[p] = {}

\* A timestamp that is safe for a build of an earlier compilation is that of a
\* file that has not changed since.
SafeAt(st, sn, B, p) ==
    st[p].kind = "file" =>
        \A b \in Build :
            B[b].stage = "ready" /\ B[b].round < round /\ p \in Files(b) /\ st[p].safe <= B[b].start
            => B[b].got[p] \in sn[p]
SeenInv(st, hs, sn, B) == \A p \in Path : ReadAt(st, hs, sn, p) /\ SafeAt(st, sn, B, p)

\* A file whose mtime is older than the start of a build, is what the build read.
GotInv(B) ==
    \A b \in Build : B[b].stage \in {"read", "capturing", "ready"} =>
        /\ B[b].got \in [Files(b) -> Nat]
        /\ \A p \in Files(b) :
              disk[p].version # 0 /\ disk[p].mtime + setting.grain <= B[b].start => B[b].got[p] = disk[p].version

\* The first m snapshots are of earlier compilations; sharing leaves them alone.
Shape(S, E, W, m) ==
    /\ SnapsInv(S) /\ EntriesInv(S, E) /\ W \in [Path -> Nat]
    /\ m \in 0 .. Len(S)
    /\ \A p \in Path : W[p] = 0 \/ W[p] \in (m + 1) .. Len(S)
    /\ \A s \in 1 .. m : S[s].kids \subseteq 1 .. m /\ E[s].shared = 0
    /\ \A s \in (m + 1) .. Len(S) : S[s].kids \subseteq (m + 1) .. Len(S)

\* The entries of this compilation are what its caches hold.
EntryInv(S, m, st, hs) ==
    \A s \in 1 .. Len(S) : \A p \in DOMAIN S[s].own :
        /\ s > m => S[s].own[p] = EntryOf(st[p], hs[p]) /\ Needed(st[p], hs[p]) \cap {Unread, Failed} = {}
        /\ mode = "both" => S[s].own[p].stamp.kind # "absent"
        /\ disk[p].version = 1 /\ mode # "hash" =>
              S[s].own[p].stamp.kind = "file" /\ S[s].own[p].stamp.value = disk[p].mtime
        /\ disk[p].version = 1 /\ mode \in {"hash", "both"} =>
              S[s].own[p].hash.kind = "file" /\ S[s].own[p].hash.value = 1

\* The version an entry speaks of.
TookOf(x) == IF mode \in {"hash", "both"} THEN {x.hash.value} ELSE IF x.stamp = Absent THEN {0} ELSE {}

\* The snapshot of a build has its start time and its files.
Capture(S, x, files, m) ==
    /\ x.id \in (m + 1) .. Len(S) /\ ~ S[x.id].ready /\ S[x.id].start = x.start
    /\ x.want \cup Covers(S, x.id) = files
Complement(S, V, x, files, m) ==
    /\ x.id \in 1 .. Len(V) /\ S[x.id].ready /\ S[x.id].start = x.start
    /\ Covers(S, x.id) = files
    /\ \A p, y : Holds(S, x.id, p, y) => x.took[p] = TookOf(y)
    /\ x.round < round => x.id <= m
    /\ x.id <= m \/ V[x.id] = "valid"
BuildInv(S, B, V, m) ==
    /\ B \in [Build -> BuildType]
    /\ \A b \in Build :
          /\ B[b].stage # "none" => 0 < B[b].start /\ B[b].start <= clock /\ B[b].round <= round
          /\ B[b].stage \in {"started", "read", "capturing"} => B[b].round = round
          /\ B[b].stage = "capturing" => Capture(S, B[b], Files(b), m)
          /\ B[b].stage = "ready" => Complement(S, V, B[b], Files(b), m)
    /\ \A b, c \in Build : B[b].stage = "capturing" /\ B[c].stage = "capturing" /\ B[b].id = B[c].id => b = c

VerdictInv(S, V, m) ==
    /\ V \in Seq(Verdicts) /\ m <= Len(V) /\ Len(V) <= Len(S)
    /\ \A s \in (m + 1) .. Len(V) : V[s] \in {"none", "valid"}

\* With the optimization state o, the builds B, the verdicts V and the readings.
Whole(o, B, V, st, hs, m) ==
    /\ Shape(o.snap, o.entry, o.owner, m) /\ BuildInv(o.snap, B, V, m)
    /\ EntryInv(o.snap, m, st, hs) /\ VerdictInv(o.snap, V, m) /\ RestInv(st, hs)

Sound(m) ==
    /\ Shape(snap, entry, owner, m) /\ BuildInv(snap, build, verdict, m)
    /\ EntryInv(snap, m, stamp, hash) /\ VerdictInv(snap, verdict, m)
    /\ Answered(snap, verdict, stamp, hash, m)

SnapshotInv ==
    /\ DiskInv /\ RestInv(stamp, hash) /\ SeenInv(stamp, hash, seen, build) /\ GotInv(build)
    /\ seen \in [Path -> SUBSET Nat] /\ Len(verdict) = Len(snap)
    /\ \E m \in Nat : Sound(m)

\* What the assumptions say of the setting.
LEMMA SettingFacts ==
    ASSUME setting \in Settings
    PROVE  /\ mode \in Modes /\ setting.grain \in Nat \ {0} /\ setting.grain <= Coarsest
           /\ Coarsest \in Nat \ {0} /\ setting.old \in [Path -> Nat \ {0}] /\ Steps \subseteq Nat \ {0}
           /\ FirstTime \in Nat \ {0} /\ LastTime \in Nat /\ FirstTime <= LastTime
           /\ \A b \in Build : Captures[b] \in Seq(Path) /\ Files(b) \in SUBSET Path
  <1>1. /\ mode \in Modes /\ setting.grain \in Nat \ {0} /\ setting.grain <= Coarsest
        /\ setting.old \in [Path -> Nat \ {0}]
    BY FileSystemInfoAssumption, FileSystemAssumption DEF mode, Modes
  <1>2. /\ Coarsest \in Nat \ {0} /\ Steps \subseteq Nat \ {0}
        /\ FirstTime \in Nat \ {0} /\ LastTime \in Nat /\ FirstTime <= LastTime
    BY FileSystemInfoAssumption
  <1>3. ASSUME NEW b \in Build PROVE Captures[b] \in Seq(Path) /\ Files(b) \in SUBSET Path
    <2>1. Captures[b] \in Seq(Path)
      BY FileSystemInfoAssumption
    <2>2. \A i \in 1 .. Len(Captures[b]) : Captures[b][i] \in Path
      BY <2>1, LenProperties
    <2>3. ToSet(Captures[b]) = {Captures[b][i] : i \in DOMAIN Captures[b]} /\ DOMAIN Captures[b] = 1 .. Len(Captures[b])
      BY <2>1, LenProperties DEF ToSet
    <2> QED
      BY <2>1, <2>2, <2>3 DEF Files
  <1> QED
    BY <1>1, <1>2, <1>3

\* The entry that is captured from a timestamp and a hash.
LEMMA EntryOfFacts ==
    ASSUME mode \in Modes, NEW t \in Readings, NEW h \in Readings
    PROVE  /\ EntryOf(t, h) \in Kept
           /\ TookOf(EntryOf(t, h)) = Captured(t, h)
           /\ mode = "both" => EntryOf(t, h).stamp.kind # "absent"
           /\ mode \in {"timestamp", "existence"} => EntryOf(t, h).stamp = t
           /\ mode = "both" => EntryOf(t, h).stamp = IF t = Absent THEN Untimed ELSE t
           /\ mode \in {"hash", "both"} => EntryOf(t, h).hash = h
  <1>1. Unread \in Readings /\ Untimed.kind = "untimed"
    BY DEF Readings, Untimed
  <1>2. t # Absent => t.kind # "absent"
    BY DEF Readings, Unread, Failed, Absent, File
  <1>3. EntryOf(t, h) = IF mode \in {"timestamp", "existence"} THEN [stamp |-> t, hash |-> Unread]
                        ELSE IF mode = "hash" THEN [stamp |-> Unread, hash |-> h]
                        ELSE [stamp |-> IF t = Absent THEN Untimed ELSE t, hash |-> h]
    BY DEF EntryOf, Modes
  <1>4. CASE mode \in {"timestamp", "existence"}
    <2>1. EntryOf(t, h) = [stamp |-> t, hash |-> Unread]
      BY <1>3, <1>4
    <2> HIDE DEF mode
    <2> QED
      BY <1>1, <1>4, <2>1 DEF Kept, TookOf, Captured
  <1>5. CASE mode = "hash"
    <2>1. EntryOf(t, h) = [stamp |-> Unread, hash |-> h]
      BY <1>3, <1>5
    <2> QED
      BY <1>1, <1>5, <2>1 DEF Kept, TookOf, Captured
  <1>6. CASE mode = "both"
    <2>1. EntryOf(t, h) = [stamp |-> IF t = Absent THEN Untimed ELSE t, hash |-> h]
      BY <1>3, <1>6
    <2> QED
      BY <1>1, <1>2, <1>6, <2>1 DEF Kept, TookOf, Captured
  <1> QED
    BY <1>4, <1>5, <1>6 DEF Modes

\* Nothing above m leads below.
LEMMA UnderAbove ==
    ASSUME NEW S, NEW m \in Nat, SnapsInv(S),
           \A s \in (m + 1) .. Len(S) : S[s].kids \subseteq (m + 1) .. Len(S),
           NEW s \in (m + 1) .. Len(S)
    PROVE  s \in 1 .. Len(S) /\ Under(S, s) \subseteq (m + 1) .. Len(S)
  <1>1. Len(S) \in Nat
    BY KidsOfFacts
  <1> DEFINE C == (m + 1) .. Len(S)
  <1>2. s \in 1 .. Len(S) /\ C \in SUBSET (1 .. Len(S)) /\ s \in C /\ \A t \in C : S[t].kids \subseteq C
    BY <1>1
  <1> HIDE DEF C
  <1>3. Under(S, s) \subseteq C
    BY <1>2, UnderFacts
  <1> QED
    BY <1>2, <1>3 DEF C

\* What a read completes.
ReadsOf(x, st, hs) == UNION {Needed(st[p], hs[p]) : p \in x.want}
LostIn(B, st, hs) == {b \in Build : B[b].stage = "capturing" /\ Failed \in ReadsOf(B[b], st, hs)}
DoneIn(B, st, hs) == {b \in Build : B[b].stage = "capturing" /\ ReadsOf(B[b], st, hs) \cap {Failed, Unread} = {}}
IdsDone(B, st, hs) == {B[b].id : b \in DoneIn(B, st, hs)}
WantedBy(B, st, hs, s) == UNION {B[b].want : b \in {d \in DoneIn(B, st, hs) : B[d].id = s}}
NewSnap(S, B, st, hs, s) ==
    IF s \in IdsDone(B, st, hs)
    THEN [S[s] EXCEPT !.own = [p \in WantedBy(B, st, hs, s) |-> EntryOf(st[p], hs[p])], !.ready = TRUE]
    ELSE S[s]
NewBuild(B, st, hs, b) ==
    IF b \in LostIn(B, st, hs) THEN [B[b] EXCEPT !.stage = "failed"]
    ELSE IF b \in DoneIn(B, st, hs)
    THEN [B[b] EXCEPT !.stage = "ready", !.took = [p \in Files(b) |-> Captured(st[p], hs[p])]]
    ELSE B[b]
NewVerdict(B, V, st, hs, s) ==
    IF s \in IdsDone(B, st, hs) THEN "valid"
    ELSE IF s > Len(V) THEN "none"
    ELSE IF V[s] = "pending" THEN Answer(s, st, hs, V)
    ELSE V[s]

\* Complete, one snapshot and one build at a time.
LEMMA CompleteIs ==
    ASSUME NEW o, NEW B, NEW V, NEW st, NEW hs, Complete(o, B, V, st, hs)
    PROVE  /\ snap' = [s \in 1 .. Len(o.snap) |-> NewSnap(o.snap, B, st, hs, s)]
           /\ build' = [b \in Build |-> NewBuild(B, st, hs, b)]
           /\ verdict' = [s \in 1 .. Len(o.snap) |-> NewVerdict(B, V, st, hs, s)]
           /\ entry' = o.entry /\ owner' = o.owner
  BY Zenon DEF Complete, NewSnap, NewBuild, NewVerdict, LostIn, DoneIn, IdsDone, WantedBy, ReadsOf

\* After a read: R, NB and NV are the snapshots, the builds and the verdicts.
Finishes(o, B, V, st, hs, m, R, NB, NV) ==
    /\ mode \in Modes /\ m \in Nat /\ Whole(o, B, V, st, hs, m)
    /\ \A b \in Build : Files(b) \in SUBSET Path
    /\ SnapsInv(snap) /\ Len(V) <= Len(snap)
    /\ R = [s \in 1 .. Len(o.snap) |-> NewSnap(o.snap, B, st, hs, s)]
    /\ NB = [b \in Build |-> NewBuild(B, st, hs, b)]
    /\ NV = [s \in 1 .. Len(o.snap) |-> NewVerdict(B, V, st, hs, s)]

\* The entries of a snapshot that is complete now.
OwnIs(R, x, st, hs) ==
    /\ DOMAIN R[x.id].own = x.want
    /\ \A p \in x.want : R[x.id].own[p] = EntryOf(st[p], hs[p])

\* What Complete does to the snapshots: those that are done hold what was read.
LEMMA NewSnaps ==
    ASSUME NEW o, NEW B, NEW V, NEW st, NEW hs, NEW m, NEW R, NEW NB, NEW NV,
           Finishes(o, B, V, st, hs, m, R, NB, NV)
    PROVE  /\ Filled(o.snap, R, IdsDone(B, st, hs))
           /\ \A b \in DoneIn(B, st, hs) : OwnIs(R, B[b], st, hs)
  <1> DEFINE S == o.snap
             C == IdsDone(B, st, hs)
             D == DoneIn(B, st, hs)
  <1>0. /\ mode \in Modes /\ m \in Nat /\ Whole(o, B, V, st, hs, m)
        /\ R = [s \in 1 .. Len(S) |-> NewSnap(S, B, st, hs, s)]
    BY DEF Finishes
  <1>1. /\ SnapsInv(S) /\ Len(S) \in Nat /\ S \in Seq(SnapType)
        /\ \A s \in 1 .. Len(S) : S[s] \in SnapType
    BY <1>0, KidsOfFacts DEF Whole, Shape, SnapsInv
  <1>2. \A b \in D : b \in Build /\ B[b].stage = "capturing" /\ B[b] \in BuildType
    BY <1>0 DEF DoneIn, Whole, BuildInv
  <1>3. ASSUME NEW b \in D
        PROVE  /\ B[b].id \in 1 .. Len(S) /\ ~ S[B[b].id].ready /\ B[b].want \in SUBSET Path
               /\ WantedBy(B, st, hs, B[b].id) = B[b].want
    <2>1. B[b].id \in (m + 1) .. Len(S) /\ ~ S[B[b].id].ready
      BY <1>0, <1>2 DEF Whole, BuildInv, Capture
    <2>2. \A d \in D : B[d].id = B[b].id => d = b
      BY <1>0, <1>2 DEF Whole, BuildInv
    <2>3. {d \in D : B[d].id = B[b].id} = {b}
      BY <2>2
    <2>4. WantedBy(B, st, hs, B[b].id) = B[b].want
      BY <2>3 DEF WantedBy
    <2> QED
      BY <1>0, <1>1, <1>2, <2>1, <2>4 DEF BuildType
  <1>4. C = {B[b].id : b \in D}
    BY DEF IdsDone
  <1>5. \A s \in 1 .. Len(S) : R[s] = NewSnap(S, B, st, hs, s)
    BY <1>0
  <1>6. ASSUME NEW b \in D
        PROVE  LET s == B[b].id
               IN  /\ R[s] \in SnapType /\ R[s].ready /\ R[s].start = S[s].start /\ R[s].kids = S[s].kids
                   /\ R[s].own = [p \in B[b].want |-> EntryOf(st[p], hs[p])]
    <2> DEFINE s == B[b].id
               f == [p \in B[b].want |-> EntryOf(st[p], hs[p])]
    <2>1. s \in C /\ s \in 1 .. Len(S) /\ WantedBy(B, st, hs, s) = B[b].want
      BY <1>3, <1>4
    <2>2. R[s] = [S[s] EXCEPT !.own = f, !.ready = TRUE]
      BY <1>5, <2>1 DEF NewSnap
    <2>3. f \in Owns
      <3>1. \A p \in B[b].want : st[p] \in Readings /\ hs[p] \in Readings
        BY <1>0, <1>3 DEF Whole, RestInv
      <3>2. \A p \in B[b].want : EntryOf(st[p], hs[p]) \in Kept
        BY <1>0, <3>1, EntryOfFacts
      <3> QED
        BY <1>3, <3>2 DEF Owns
    <2>4. S[s] \in SnapType
      BY <1>1, <2>1
    <2> HIDE DEF s
    <2> HIDE DEF f
    <2>5. R[s].own = f /\ R[s].ready = TRUE /\ R[s].start = S[s].start /\ R[s].kids = S[s].kids
      BY <2>2, <2>4 DEF SnapType
    <2>6. R[s] \in SnapType
      BY <2>2, <2>3, <2>4 DEF SnapType
    <2> QED
      BY <2>5, <2>6 DEF s, f
  <1>7. \A s \in 1 .. Len(S) : s \notin C => R[s] = S[s]
    BY <1>5 DEF NewSnap
  <1> HIDE DEF C, D
  <1>a. ASSUME NEW s \in C
        PROVE  /\ s \in 1 .. Len(S) /\ ~ S[s].ready
               /\ R[s] \in SnapType /\ R[s].ready /\ R[s].start = S[s].start /\ R[s].kids = S[s].kids
    <2>1. PICK b \in D : s = B[b].id
      BY <1>4
    <2> QED
      BY <1>3, <1>6, <2>1
  <1>8. \A s \in 1 .. Len(S) : R[s] \in SnapType /\ R[s].start = S[s].start /\ R[s].kids = S[s].kids
    BY <1>1, <1>7, <1>a
  <1>9. R \in Seq(SnapType) /\ Len(R) = Len(S)
    <2>1. R = [s \in 1 .. Len(S) |-> R[s]]
      BY <1>0
    <2>2. R \in [1 .. Len(S) -> SnapType]
      BY <1>8, <2>1
    <2> QED
      BY <1>1, <2>2, SeqDef, LenProperties
  <1>10. Filled(S, R, C)
    <2>1. \A s \in C : s \in 1 .. Len(S) /\ ~ S[s].ready /\ R[s].ready
      BY <1>a
    <2> QED
      BY <1>7, <1>8, <1>9, <2>1 DEF Filled
  <1>11. \A b \in D : OwnIs(R, B[b], st, hs)
    BY <1>6 DEF OwnIs
  <1> QED
    BY <1>10, <1>11 DEF C, D

\* A build is given up, or ready, or as it was.
LEMMA NewBuilds ==
    ASSUME NEW B \in [Build -> BuildType], NEW st, NEW hs, NEW b \in Build,
           st \in [Path -> Readings], hs \in [Path -> Readings], Files(b) \in SUBSET Path
    PROVE  LET x == NewBuild(B, st, hs, b)
           IN  /\ x \in BuildType
               /\ x.round = B[b].round /\ x.start = B[b].start /\ x.got = B[b].got
               /\ x.id = B[b].id /\ x.want = B[b].want
               /\ \/ B[b].stage = "capturing" /\ x.stage = "failed"
                  \/ /\ b \in DoneIn(B, st, hs) /\ B[b].stage = "capturing" /\ x.stage = "ready"
                     /\ x.took = [p \in Files(b) |-> Captured(st[p], hs[p])]
                  \/ b \notin DoneIn(B, st, hs) /\ x = B[b]
  <1> DEFINE x == NewBuild(B, st, hs, b)
             f == [p \in Files(b) |-> Captured(st[p], hs[p])]
  <1>1. B[b] \in BuildType
    OBVIOUS
  <1>2. f \in UNION {[D -> SUBSET Nat] : D \in SUBSET Path}
    <2>1. \A p \in Path : st[p].value \in Nat /\ hs[p].value \in Nat
      BY DEF Readings, Unread, Failed, Absent, File
    <2>2. \A p \in Files(b) : Captured(st[p], hs[p]) \in SUBSET Nat
      BY <2>1 DEF Captured
    <2> QED
      BY <2>2
  <1>3. CASE b \in LostIn(B, st, hs)
    <2>1. x = [B[b] EXCEPT !.stage = "failed"] /\ B[b].stage = "capturing"
      BY <1>3 DEF NewBuild, LostIn
    <2> HIDE DEF x
    <2>2. x \in BuildType
      BY <1>1, <2>1 DEF BuildType, Stages
    <2>3. /\ x.round = B[b].round /\ x.start = B[b].start /\ x.got = B[b].got
          /\ x.id = B[b].id /\ x.want = B[b].want /\ x.stage = "failed"
      BY <1>1, <2>1 DEF BuildType
    <2> QED
      BY <2>1, <2>2, <2>3 DEF x
  <1>4. CASE b \notin LostIn(B, st, hs) /\ b \in DoneIn(B, st, hs)
    <2>1. x = [B[b] EXCEPT !.stage = "ready", !.took = f] /\ B[b].stage = "capturing"
      BY <1>4 DEF NewBuild, DoneIn
    <2> HIDE DEF x, f
    <2>2. x \in BuildType
      <3>1. "ready" \in Stages
        BY DEF Stages
      <3> QED
        BY <1>1, <1>2, <2>1, <3>1 DEF BuildType
    <2>3. /\ x.round = B[b].round /\ x.start = B[b].start /\ x.got = B[b].got
          /\ x.id = B[b].id /\ x.want = B[b].want /\ x.stage = "ready" /\ x.took = f
      BY <1>1, <2>1 DEF BuildType
    <2> QED
      BY <1>4, <2>1, <2>2, <2>3 DEF x, f
  <1>5. CASE b \notin LostIn(B, st, hs) /\ b \notin DoneIn(B, st, hs)
    <2>1. x = B[b]
      BY <1>5 DEF NewBuild
    <2> QED
      BY <1>1, <1>5, <2>1
  <1> QED
    BY <1>3, <1>4, <1>5

\* The snapshots before and after Complete.
LEMMA FinishFilled ==
    ASSUME NEW o, NEW B, NEW V, NEW st, NEW hs, NEW m, NEW R, NEW NB, NEW NV,
           Finishes(o, B, V, st, hs, m, R, NB, NV)
    PROVE  LET S == o.snap
               C == IdsDone(B, st, hs)
           IN  /\ Filled(S, R, C) /\ SnapsInv(S) /\ SnapsInv(R) /\ Len(R) = Len(S) /\ Len(S) \in Nat
               /\ \A s \in C : s \in (m + 1) .. Len(S)
               /\ \A s \in C : \E b \in DoneIn(B, st, hs) : B[b].id = s
               /\ \A b \in DoneIn(B, st, hs) :
                     /\ b \in Build /\ B[b].stage = "capturing" /\ B[b].id \in C /\ B[b].want \in SUBSET Path
                     /\ OwnIs(R, B[b], st, hs)
                     /\ \A p \in B[b].want : Needed(st[p], hs[p]) \cap {Unread, Failed} = {}
               /\ \A s \in 1 .. Len(S) : s \notin C => \A p, x : Holds(R, s, p, x) <=> Holds(S, s, p, x)
               /\ \A s \in 1 .. Len(S) : s \notin C => Covers(R, s) = Covers(S, s)
               /\ \A s \in C : \A p, x :
                     Holds(R, s, p, x) <=> Holds(S, s, p, x) \/ (p \in DOMAIN R[s].own /\ R[s].own[p] = x)
  <1> DEFINE S == o.snap
             C == IdsDone(B, st, hs)
             D == DoneIn(B, st, hs)
  <1>1. Filled(S, R, C) /\ \A b \in D : OwnIs(R, B[b], st, hs)
    BY NewSnaps
  <1>2. SnapsInv(S) /\ Len(S) \in Nat
    BY KidsOfFacts DEF Finishes, Whole, Shape
  <1>3. Len(R) = Len(S)
    BY <1>1 DEF Filled
  <1>4. \A s \in C : \E b \in D : B[b].id = s
    BY DEF IdsDone
  <1>5. ASSUME NEW b \in D
        PROVE  /\ b \in Build /\ B[b].stage = "capturing" /\ B[b].id \in C /\ B[b].want \in SUBSET Path
               /\ B[b].id \in (m + 1) .. Len(S)
               /\ \A p \in B[b].want : Needed(st[p], hs[p]) \cap {Unread, Failed} = {}
    <2>1. b \in Build /\ B[b].stage = "capturing" /\ B[b].id \in C
      BY DEF DoneIn, IdsDone
    <2>2. B[b] \in BuildType /\ Capture(S, B[b], Files(b), m)
      BY <2>1 DEF Finishes, Whole, BuildInv
    <2>3. \A p \in B[b].want : Needed(st[p], hs[p]) \cap {Unread, Failed} = {}
      BY DEF DoneIn, ReadsOf
    <2> QED
      BY <2>1, <2>2, <2>3 DEF BuildType, Capture
  <1> HIDE DEF C, D
  <1>6. /\ SnapsInv(R)
        /\ \A s \in 1 .. Len(S) : s \notin C => \A p, x : Holds(R, s, p, x) <=> Holds(S, s, p, x)
        /\ \A s \in C : \A p, x :
              Holds(R, s, p, x) <=> Holds(S, s, p, x) \/ (p \in DOMAIN R[s].own /\ R[s].own[p] = x)
    BY <1>1, <1>2, FilledFacts
  <1>7. ASSUME NEW s \in 1 .. Len(S), s \notin C PROVE Covers(R, s) = Covers(S, s)
    <2>1. \A p, x : Holds(R, s, p, x) <=> Holds(S, s, p, x)
      BY <1>6, <1>7
    <2> QED
      BY <2>1, CoversHolds
  <1>8. \A s \in C : s \in (m + 1) .. Len(S)
    BY <1>4, <1>5
  <1> QED
    BY <1>1, <1>2, <1>3, <1>4, <1>5, <1>6, <1>7, <1>8 DEF C, D

\* Complete keeps the shape of the snapshots.
LEMMA ShapeKept ==
    ASSUME NEW o, NEW B, NEW V, NEW st, NEW hs, NEW m, NEW R, NEW NB, NEW NV,
           Finishes(o, B, V, st, hs, m, R, NB, NV)
    PROVE  Shape(R, o.entry, o.owner, m)
  <1> DEFINE S == o.snap
             E == o.entry
             C == IdsDone(B, st, hs)
  <1>1. /\ Filled(S, R, C) /\ SnapsInv(S) /\ SnapsInv(R) /\ Len(R) = Len(S) /\ Len(S) \in Nat
        /\ \A s \in 1 .. Len(S) : s \notin C => Covers(R, s) = Covers(S, s)
    BY FinishFilled
  <1>2. Shape(S, E, o.owner, m) /\ EntriesInv(S, E)
    BY DEF Finishes, Whole, Shape
  <1>3. \A s \in 1 .. Len(S) : R[s].kids = S[s].kids /\ (s \notin C => R[s] = S[s])
    BY <1>1 DEF Filled
  <1> HIDE DEF C
  <1>4. EntriesInv(R, E)
    <2>1. ASSUME NEW x \in 1 .. Len(E), E[x].shared > 0
          PROVE  /\ R[x].ready /\ E[x].content = Covers(R, x)
                 /\ \A k \in E[x].kids : E[k].shared > 0
      <3>1. /\ S[x].ready /\ E[x].content = Covers(S, x) /\ x \in 1 .. Len(S)
            /\ \A k \in E[x].kids : E[k].shared > 0
        BY <1>2, <2>1 DEF EntriesInv
      <3>2. x \notin C
        BY <1>1, <3>1 DEF Filled
      <3> QED
        BY <1>1, <1>3, <3>1, <3>2
    <2>2. \A x \in 1 .. Len(E) : E[x].kids \subseteq R[x].kids
      BY <1>2, <1>3 DEF EntriesInv
    <2>3. E \in Seq(EntryType) /\ Len(E) = Len(R)
      BY <1>1, <1>2 DEF EntriesInv
    <2> HIDE DEF E
    <2> QED
      BY <2>1, <2>2, <2>3 DEF EntriesInv
  <1>5. m \in Nat
    BY DEF Finishes
  <1>6. \A s \in 1 .. m : R[s].kids \subseteq 1 .. m /\ E[s].shared = 0
    BY <1>1, <1>2, <1>3, <1>5 DEF Shape
  <1>7. \A s \in (m + 1) .. Len(R) : R[s].kids \subseteq (m + 1) .. Len(R)
    BY <1>1, <1>2, <1>3, <1>5 DEF Shape
  <1>8. \A p \in Path : o.owner[p] = 0 \/ o.owner[p] \in (m + 1) .. Len(R)
    BY <1>1, <1>2 DEF Shape
  <1>9. m \in 0 .. Len(R) /\ o.owner \in [Path -> Nat]
    BY <1>1, <1>2 DEF Shape
  <1> HIDE DEF S, E
  <1> QED
    BY <1>1, <1>4, <1>6, <1>7, <1>8, <1>9 DEF Shape, E

\* Complete keeps that the entries are what the caches hold.
LEMMA EntriesKept ==
    ASSUME NEW o, NEW B, NEW V, NEW st, NEW hs, NEW m, NEW R, NEW NB, NEW NV,
           Finishes(o, B, V, st, hs, m, R, NB, NV)
    PROVE  EntryInv(R, m, st, hs)
  <1> DEFINE S == o.snap
             C == IdsDone(B, st, hs)
             Right(s, p, x) ==
                /\ s > m => x = EntryOf(st[p], hs[p]) /\ Needed(st[p], hs[p]) \cap {Unread, Failed} = {}
                /\ mode = "both" => x.stamp.kind # "absent"
                /\ disk[p].version = 1 /\ mode # "hash" => x.stamp.kind = "file" /\ x.stamp.value = disk[p].mtime
                /\ disk[p].version = 1 /\ mode \in {"hash", "both"} => x.hash.kind = "file" /\ x.hash.value = 1
  <1>1. /\ Filled(S, R, C) /\ Len(R) = Len(S)
        /\ \A s \in C : \E b \in DoneIn(B, st, hs) : B[b].id = s
    BY FinishFilled
  <1>a. \A b \in DoneIn(B, st, hs) :
           /\ B[b].want \in SUBSET Path /\ OwnIs(R, B[b], st, hs)
           /\ \A p \in B[b].want : Needed(st[p], hs[p]) \cap {Unread, Failed} = {}
    BY FinishFilled
  <1>2. mode \in Modes /\ RestInv(st, hs) /\ EntryInv(S, m, st, hs)
    BY DEF Finishes, Whole
  <1>3. ASSUME NEW p \in Path, Needed(st[p], hs[p]) \cap {Unread, Failed} = {}, NEW s
        PROVE  Right(s, p, EntryOf(st[p], hs[p]))
    <2> DEFINE t == st[p]
               h == hs[p]
               x == EntryOf(t, h)
    <2>1. t \in Readings /\ h \in Readings
      BY <1>2 DEF RestInv
    <2>2. /\ mode = "both" => x.stamp.kind # "absent"
          /\ mode \in {"timestamp", "existence"} => x.stamp = t
          /\ mode = "both" => x.stamp = IF t = Absent THEN Untimed ELSE t
          /\ mode \in {"hash", "both"} => x.hash = h
      BY <1>2, <2>1, EntryOfFacts
    <2>3. /\ mode # "hash" => t # Unread /\ t # Failed
          /\ mode \in {"hash", "both"} => h # Unread /\ h # Failed
      BY <1>2, <1>3 DEF Needed, Modes
    <2>4. \A r \in Readings : r # Unread /\ r # Failed => r.kind \notin {"unread", "failed"}
      BY DEF Readings, Unread, Failed, Absent, File
    <2>5. disk[p].version = 1 /\ mode # "hash" => t.kind = "file" /\ t.value = disk[p].mtime
      BY <1>2, <2>1, <2>3, <2>4 DEF RestInv
    <2>6. disk[p].version = 1 /\ mode \in {"hash", "both"} => h.kind = "file" /\ h.value = 1
      BY <1>2, <2>1, <2>3, <2>4 DEF RestInv
    <2>7. t.kind = "file" => t # Absent
      BY DEF Absent
    <2> HIDE DEF t, h, x
    <2>8. disk[p].version = 1 /\ mode # "hash" => x.stamp.kind = "file" /\ x.stamp.value = disk[p].mtime
      BY <1>2, <2>2, <2>5, <2>7 DEF Modes
    <2>9. disk[p].version = 1 /\ mode \in {"hash", "both"} => x.hash.kind = "file" /\ x.hash.value = 1
      BY <2>2, <2>6
    <2> QED
      BY <1>3, <2>2, <2>8, <2>9 DEF t, h, x
  <1>4. ASSUME NEW s \in 1 .. Len(R), NEW p \in DOMAIN R[s].own PROVE Right(s, p, R[s].own[p])
    <2>1. CASE s \in C
      <3>1. PICK b \in DoneIn(B, st, hs) : B[b].id = s
        BY <1>1, <2>1
      <3>2. /\ OwnIs(R, B[b], st, hs) /\ B[b].want \in SUBSET Path
            /\ \A q \in B[b].want : Needed(st[q], hs[q]) \cap {Unread, Failed} = {}
        BY <1>a, <3>1
      <3>3. p \in B[b].want /\ R[s].own[p] = EntryOf(st[p], hs[p])
        BY <1>4, <3>1, <3>2 DEF OwnIs
      <3> HIDE DEF Right
      <3> QED
        BY <1>3, <3>2, <3>3
    <2>2. CASE s \notin C
      <3>1. R[s] = S[s] /\ s \in 1 .. Len(S)
        BY <1>1, <2>2 DEF Filled
      <3>2. p \in DOMAIN S[s].own
        BY <1>4, <3>1
      <3>3. Right(s, p, S[s].own[p])
        BY <1>2, <3>1, <3>2 DEF EntryInv
      <3> QED
        BY <3>1, <3>3
    <2> QED
      BY <2>1, <2>2
  <1> QED
    BY <1>4 DEF EntryInv

\* A path is covered, when there is an entry of it.
LEMMA CoversHeld ==
    ASSUME NEW S, NEW s, NEW p
    PROVE  p \in Covers(S, s) <=> \E x : Holds(S, s, p, x)
  <1>1. ASSUME p \in Covers(S, s) PROVE \E x : Holds(S, s, p, x)
    <2>1. PICK t \in Under(S, s) : p \in DOMAIN S[t].own
      BY <1>1 DEF Covers
    <2>2. Holds(S, s, p, S[t].own[p])
      BY <2>1 DEF Holds
    <2> QED
      BY <2>2
  <1>2. ASSUME NEW x, Holds(S, s, p, x) PROVE p \in Covers(S, s)
    BY <1>2 DEF Covers, Holds
  <1> QED
    BY <1>1, <1>2

\* What a snapshot of this compilation holds is what the caches hold.
LEMMA HeldIsRead ==
    ASSUME NEW S, NEW m \in Nat, NEW st, NEW hs, SnapsInv(S), EntryInv(S, m, st, hs),
           \A s \in (m + 1) .. Len(S) : S[s].kids \subseteq (m + 1) .. Len(S),
           NEW s \in (m + 1) .. Len(S), NEW p, NEW x, Holds(S, s, p, x)
    PROVE  x = EntryOf(st[p], hs[p])
  <1>1. PICK t \in Under(S, s) : p \in DOMAIN S[t].own /\ S[t].own[p] = x
    BY DEF Holds
  <1>2. t \in (m + 1) .. Len(S)
    BY UnderAbove
  <1>3. t \in 1 .. Len(S) /\ t > m
    BY <1>2
  <1> QED
    BY <1>1, <1>3 DEF EntryInv

\* Complete keeps what is known of the builds.
LEMMA BuildsKept ==
    ASSUME NEW o, NEW B, NEW V, NEW st, NEW hs, NEW m, NEW R, NEW NB, NEW NV,
           Finishes(o, B, V, st, hs, m, R, NB, NV), round \in Nat
    PROVE  BuildInv(R, NB, NV, m)
  <1> DEFINE S == o.snap
             C == IdsDone(B, st, hs)
             D == DoneIn(B, st, hs)
  <1>1. /\ mode \in Modes /\ m \in Nat /\ Shape(S, o.entry, o.owner, m) /\ BuildInv(S, B, V, m)
        /\ EntryInv(S, m, st, hs) /\ VerdictInv(S, V, m) /\ RestInv(st, hs)
        /\ \A b \in Build : Files(b) \in SUBSET Path
        /\ NB = [b \in Build |-> NewBuild(B, st, hs, b)]
        /\ NV = [s \in 1 .. Len(S) |-> NewVerdict(B, V, st, hs, s)]
    BY DEF Finishes, Whole
  <1>2. /\ Filled(S, R, C) /\ SnapsInv(S) /\ Len(R) = Len(S) /\ Len(S) \in Nat
        /\ \A s \in C : \E b \in D : B[b].id = s
    BY FinishFilled
  <1>3. \A b \in D : /\ b \in Build /\ B[b].stage = "capturing" /\ B[b].id \in C /\ OwnIs(R, B[b], st, hs)
    BY FinishFilled
  <1>4. \A s \in 1 .. Len(S) : s \notin C => \A p, x : Holds(R, s, p, x) <=> Holds(S, s, p, x)
    BY FinishFilled
  <1>5. \A s \in 1 .. Len(S) : s \notin C => Covers(R, s) = Covers(S, s)
    BY FinishFilled
  <1>6. \A s \in C : \A p, x :
           Holds(R, s, p, x) <=> Holds(S, s, p, x) \/ (p \in DOMAIN R[s].own /\ R[s].own[p] = x)
    BY FinishFilled
  <1>7. B \in [Build -> BuildType] /\ st \in [Path -> Readings] /\ hs \in [Path -> Readings]
    BY <1>1 DEF BuildInv, RestInv
  <1>8. ASSUME NEW b \in Build
        PROVE  /\ NB[b] \in BuildType
               /\ NB[b].round = B[b].round /\ NB[b].start = B[b].start
               /\ NB[b].id = B[b].id /\ NB[b].want = B[b].want
               /\ \/ B[b].stage = "capturing" /\ NB[b].stage = "failed"
                  \/ /\ b \in D /\ B[b].stage = "capturing" /\ NB[b].stage = "ready"
                     /\ NB[b].took = [p \in Files(b) |-> Captured(st[p], hs[p])]
                  \/ b \notin D /\ NB[b] = B[b]
    <2>1. NB[b] = NewBuild(B, st, hs, b) /\ Files(b) \in SUBSET Path
      BY <1>1
    <2> QED
      BY <1>7, <2>1, NewBuilds
  <1>9. \A s \in 1 .. Len(S) : NV[s] = NewVerdict(B, V, st, hs, s)
    BY <1>1
  <1>10. NB \in [Build -> BuildType]
    <2>1. NB = [b \in Build |-> NB[b]]
      BY <1>1
    <2> QED
      BY <1>8, <2>1
  <1>11. Len(NV) = Len(S)
    <2>1. NV \in Seq({NewVerdict(B, V, st, hs, s) : s \in 1 .. Len(S)}) /\ Len(NV) = Len(S)
      BY <1>1, <1>2, SeqDef, LenProperties
    <2> QED
      BY <2>1
  <1>12. Len(V) \in Nat /\ Len(V) <= Len(S)
    BY <1>1, LenProperties DEF VerdictInv
  <1> HIDE DEF C, D
  <1>13. \A b \in Build :
            /\ B[b].stage # "none" => 0 < B[b].start /\ B[b].start <= clock /\ B[b].round <= round
            /\ B[b].stage \in {"started", "read", "capturing"} => B[b].round = round
            /\ B[b].stage = "capturing" => Capture(S, B[b], Files(b), m)
            /\ B[b].stage = "ready" => Complement(S, V, B[b], Files(b), m)
    BY <1>1 DEF BuildInv
  <1>14. \A b, c \in Build : B[b].stage = "capturing" /\ B[c].stage = "capturing" /\ B[b].id = B[c].id => b = c
    BY <1>1 DEF BuildInv
  <1>15. ASSUME NEW b \in Build, NB[b].stage = "capturing"
         PROVE  B[b].stage = "capturing" /\ Capture(R, NB[b], Files(b), m)
    <2>1. b \notin D /\ NB[b] = B[b] /\ B[b].stage = "capturing"
      BY <1>8, <1>15
    <2>2. Capture(S, B[b], Files(b), m)
      BY <1>13, <2>1
    <2>3. B[b].id \notin C
      BY <1>2, <1>3, <1>14, <2>1
    <2>4. B[b].id \in 1 .. Len(S) /\ B[b].id \in (m + 1) .. Len(S)
      BY <1>1, <1>2, <2>2 DEF Capture
    <2>5. R[B[b].id] = S[B[b].id] /\ Covers(R, B[b].id) = Covers(S, B[b].id)
      BY <1>2, <1>5, <2>3, <2>4 DEF Filled
    <2> QED
      BY <1>2, <2>1, <2>2, <2>5 DEF Capture
  <1>16. ASSUME NEW b \in Build, NB[b].stage = "ready", b \in D
         PROVE  Complement(R, NV, NB[b], Files(b), m)
    <2> DEFINE id == B[b].id
    <2>1. /\ B[b].stage = "capturing" /\ Capture(S, B[b], Files(b), m) /\ B[b].round = round
          /\ NB[b].took = [p \in Files(b) |-> Captured(st[p], hs[p])]
      BY <1>3, <1>8, <1>13, <1>16
    <2>2. id \in (m + 1) .. Len(S) /\ S[id].start = B[b].start /\ B[b].want \cup Covers(S, id) = Files(b)
      BY <2>1 DEF Capture
    <2>3. id \in 1 .. Len(S) /\ id \in C /\ OwnIs(R, B[b], st, hs)
      BY <1>1, <1>2, <1>3, <1>16, <2>2
    <2> HIDE DEF id
    <2>4. DOMAIN R[id].own = B[b].want /\ \A p \in B[b].want : R[id].own[p] = EntryOf(st[p], hs[p])
      BY <2>3 DEF OwnIs, id
    <2>5. ASSUME NEW p PROVE p \in Covers(R, id) <=> p \in Files(b)
      <3>1. p \in Covers(R, id) <=> \E x : Holds(R, id, p, x)
        BY CoversHeld
      <3>2. p \in Covers(S, id) <=> \E x : Holds(S, id, p, x)
        BY CoversHeld
      <3>3. (\E x : Holds(R, id, p, x)) <=> (\E x : Holds(S, id, p, x)) \/ p \in DOMAIN R[id].own
        BY <1>6, <2>3
      <3> QED
        BY <2>2, <2>4, <3>1, <3>2, <3>3
    <2>6. Covers(R, id) = Files(b)
      <3> HIDE DEF Covers
      <3> QED
        BY <2>5
    <2>7. ASSUME NEW p, NEW y, Holds(R, id, p, y) PROVE NB[b].took[p] = TookOf(y)
      <3>1. y = EntryOf(st[p], hs[p])
        <4>1. CASE Holds(S, id, p, y)
          <5>1. \A s \in (m + 1) .. Len(S) : S[s].kids \subseteq (m + 1) .. Len(S)
            BY <1>1 DEF Shape
          <5> QED
            BY <1>1, <1>2, <2>2, <4>1, <5>1, HeldIsRead
        <4>2. CASE p \in DOMAIN R[id].own /\ R[id].own[p] = y
          BY <2>4, <4>2
        <4> QED
          BY <1>6, <2>3, <2>7, <4>1, <4>2
      <3>2. p \in Files(b)
        BY <2>5, <2>7, CoversHeld
      <3>3. st[p] \in Readings /\ hs[p] \in Readings
        BY <1>1, <1>7, <3>2
      <3>4. TookOf(y) = Captured(st[p], hs[p])
        BY <1>1, <3>1, <3>3, EntryOfFacts
      <3> QED
        BY <2>1, <3>2, <3>4
    <2>8. R[id].ready /\ R[id].start = NB[b].start
      BY <1>2, <1>8, <2>2, <2>3 DEF Filled
    <2>9. ~ (NB[b].round < round)
      BY <1>8, <2>1
    <2>10. NV[id] = "valid"
      BY <1>9, <2>3 DEF NewVerdict, C
    <2>11. NB[b].id = id
      BY <1>8 DEF id
    <2> QED
      BY <1>11, <2>3, <2>6, <2>7, <2>8, <2>9, <2>10, <2>11 DEF Complement
  <1>17. ASSUME NEW b \in Build, NB[b].stage = "ready", b \notin D
         PROVE  Complement(R, NV, NB[b], Files(b), m)
    <2> DEFINE id == B[b].id
    <2>1. NB[b] = B[b] /\ B[b].stage = "ready"
      BY <1>8, <1>17
    <2>2. Complement(S, V, B[b], Files(b), m)
      BY <1>13, <2>1
    <2>3. id \in 1 .. Len(V) /\ id \in 1 .. Len(S) /\ S[id].ready
      BY <1>12, <1>2, <2>2 DEF Complement
    <2>4. id \notin C
      BY <1>2, <2>3 DEF Filled
    <2>5. /\ R[id] = S[id] /\ Covers(R, id) = Covers(S, id)
          /\ \A p, x : Holds(R, id, p, x) <=> Holds(S, id, p, x)
      BY <1>2, <1>4, <1>5, <2>3, <2>4 DEF Filled
    <2>6. V[id] = "valid" => NV[id] = "valid"
      <3>1. ~ (id > Len(V))
        BY <1>12, <2>3
      <3> QED
        BY <1>9, <2>3, <2>4, <3>1 DEF NewVerdict, C
    <2> QED
      BY <1>11, <2>1, <2>2, <2>3, <2>5, <2>6 DEF Complement
  <1>18. ASSUME NEW b \in Build
         PROVE  /\ NB[b].stage # "none" => 0 < NB[b].start /\ NB[b].start <= clock /\ NB[b].round <= round
                /\ NB[b].stage \in {"started", "read", "capturing"} => NB[b].round = round
    BY <1>8, <1>13
  <1>19. ASSUME NEW b \in Build, NEW c \in Build,
                NB[b].stage = "capturing", NB[c].stage = "capturing", NB[b].id = NB[c].id
         PROVE  b = c
    <2>1. B[b].stage = "capturing" /\ B[c].stage = "capturing"
      BY <1>15, <1>19
    <2>2. B[b].id = B[c].id
      BY <1>8, <1>19
    <2> QED
      BY <1>14, <2>1, <2>2
  <1> QED
    BY <1>10, <1>15, <1>16, <1>17, <1>18, <1>19 DEF BuildInv

\* Complete keeps what is known of the snapshot cache.
LEMMA VerdictsKept ==
    ASSUME NEW o, NEW B, NEW V, NEW st, NEW hs, NEW m, NEW R, NEW NB, NEW NV,
           Finishes(o, B, V, st, hs, m, R, NB, NV)
    PROVE  VerdictInv(R, NV, m) /\ Len(NV) = Len(R)
  <1> DEFINE S == o.snap
             C == IdsDone(B, st, hs)
  <1>1. /\ m \in Nat /\ VerdictInv(S, V, m) /\ SnapsInv(snap) /\ Len(V) <= Len(snap)
        /\ NV = [s \in 1 .. Len(S) |-> NewVerdict(B, V, st, hs, s)]
    BY DEF Finishes, Whole
  <1>2. Len(R) = Len(S) /\ Len(S) \in Nat /\ \A s \in C : s \in (m + 1) .. Len(S)
    BY FinishFilled
  <1>3. V \in Seq(Verdicts) /\ Len(V) \in Nat /\ m <= Len(V) /\ Len(V) <= Len(S) /\ Len(snap) \in Nat
    BY <1>1, KidsOfFacts, LenProperties DEF VerdictInv
  <1>4. \A s \in 1 .. Len(V) : V[s] \in Verdicts
    BY <1>3, LenProperties
  <1>5. \A s \in 1 .. Len(S) : NV[s] = NewVerdict(B, V, st, hs, s)
    BY <1>1
  <1>6. ASSUME NEW s \in 1 .. Len(S) PROVE NV[s] \in Verdicts
    <2>1. CASE s \in C \/ s > Len(V)
      BY <1>5, <2>1 DEF NewVerdict, Verdicts
    <2>2. CASE s \notin C /\ ~ (s > Len(V)) /\ V[s] # "pending"
      BY <1>2, <1>3, <1>4, <1>5, <2>2 DEF NewVerdict
    <2>3. CASE s \notin C /\ ~ (s > Len(V)) /\ V[s] = "pending"
      <3>1. NV[s] = Answer(s, st, hs, V) /\ s \in 1 .. Len(snap)
        BY <1>1, <1>2, <1>3, <1>5, <2>3 DEF NewVerdict
      <3>2. Answer(s, st, hs, V) \in {"valid", "invalid", "pending"}
        BY <1>1, <3>1, AnswerKinds
      <3> QED
        BY <3>1, <3>2 DEF Verdicts
    <2> QED
      BY <2>1, <2>2, <2>3
  <1>7. NV \in Seq(Verdicts) /\ Len(NV) = Len(S)
    <2>1. NV = [s \in 1 .. Len(S) |-> NV[s]]
      BY <1>1
    <2>2. NV \in [1 .. Len(S) -> Verdicts]
      BY <1>6, <2>1
    <2> QED
      BY <1>2, <2>2, SeqDef, LenProperties
  <1>8. ASSUME NEW s \in (m + 1) .. Len(NV) PROVE NV[s] \in {"none", "valid"}
    <2>1. s \in 1 .. Len(S) /\ s \in Nat
      BY <1>1, <1>2, <1>7
    <2>2. CASE s \in C \/ s > Len(V)
      BY <1>5, <2>1, <2>2 DEF NewVerdict
    <2>3. CASE s \notin C /\ ~ (s > Len(V))
      <3>1. s \in (m + 1) .. Len(V)
        BY <1>1, <1>3, <2>1, <2>3
      <3>2. V[s] \in {"none", "valid"}
        BY <1>1, <3>1 DEF VerdictInv
      <3> QED
        BY <1>5, <2>1, <2>3, <3>2 DEF NewVerdict
    <2> QED
      BY <2>2, <2>3
  <1>9. m <= Len(NV) /\ Len(NV) <= Len(R)
    BY <1>1, <1>2, <1>3, <1>7
  <1> QED
    BY <1>2, <1>7, <1>8, <1>9 DEF VerdictInv

\* So everything holds of what is there after it.
LEMMA WholeKept ==
    ASSUME NEW o, NEW B, NEW V, NEW st, NEW hs, NEW m, NEW R, NEW NB, NEW NV,
           Finishes(o, B, V, st, hs, m, R, NB, NV), round \in Nat
    PROVE  /\ Shape(R, o.entry, o.owner, m) /\ BuildInv(R, NB, NV, m) /\ EntryInv(R, m, st, hs)
           /\ VerdictInv(R, NV, m) /\ Len(NV) = Len(R)
  BY ShapeKept, BuildsKept, EntriesKept, VerdictsKept

\* The answers are right when those before were, of the snapshots of before.
LEMMA AnswersKept ==
    ASSUME NEW o, NEW B, NEW V, NEW st, NEW hs, NEW m, NEW R, NEW NB, NEW NV,
           Finishes(o, B, V, st, hs, m, R, NB, NV),
           \A s \in 1 .. m : o.snap[s] = snap[s], m <= Len(snap),
           Answered(snap, V, st, hs, m)
    PROVE  Answered(R, NV, st, hs, m)
  <1> DEFINE S == o.snap
             C == IdsDone(B, st, hs)
  <1>1. /\ m \in Nat /\ VerdictInv(S, V, m) /\ SnapsInv(snap) /\ mode \in Modes /\ Shape(S, o.entry, o.owner, m)
        /\ NV = [s \in 1 .. Len(S) |-> NewVerdict(B, V, st, hs, s)]
    BY DEF Finishes, Whole
  <1>2. Filled(S, R, C) /\ SnapsInv(R) /\ SnapsInv(S) /\ Len(R) = Len(S) /\ Len(S) \in Nat
    BY FinishFilled
  <1>3. \A s \in C : s \in (m + 1) .. Len(S)
    BY FinishFilled
  <1>4. m <= Len(V) /\ Len(V) <= Len(S) /\ Len(V) \in Nat
    BY <1>1, LenProperties DEF VerdictInv
  <1> HIDE DEF C
  <1>5. \A s \in 1 .. m : s \in 1 .. Len(S) /\ s \notin C /\ ~ (s > Len(V))
    BY <1>1, <1>2, <1>3, <1>4
  <1>6. \A s \in 1 .. m : R[s] = snap[s]
    BY <1>2, <1>5 DEF Filled
  <1>7. Closes(snap, m)
    <2>1. \A s \in 1 .. m : S[s].kids \subseteq 1 .. m
      BY <1>1 DEF Shape
    <2> QED
      BY <1>1, <2>1 DEF Closes
  <1>8. m <= Len(R)
    BY <1>1, <1>2, <1>4
  <1>9. \A s \in 1 .. m : Under(R, s) = Under(snap, s) /\ Under(snap, s) \subseteq 1 .. m
    BY <1>1, <1>2, <1>6, <1>7, <1>8, SameBelow, UnderBelow
  <1>10. ASSUME NEW s \in 1 .. m
         PROVE  /\ Checked(R, st, hs, s) <=> Checked(snap, st, hs, s)
                /\ Refuted(R, st, hs, s) <=> Refuted(snap, st, hs, s)
    <2>1. \A t \in Under(snap, s) : R[t] = snap[t]
      BY <1>6, <1>9
    <2>2. Under(R, s) = Under(snap, s)
      BY <1>9
    <2> QED
      BY <2>1, <2>2 DEF Checked, Refuted, Says
  <1>11. \A s \in 1 .. m : NV[s] = IF V[s] = "pending" THEN Answer(s, st, hs, V) ELSE V[s]
    <2>1. \A s \in 1 .. m : NV[s] = NewVerdict(B, V, st, hs, s)
      BY <1>1, <1>5
    <2> QED
      BY <1>5, <2>1 DEF NewVerdict, C
  <1>12. ASSUME NEW s \in 1 .. m
         PROVE  /\ NV[s] = "valid" => Checked(snap, st, hs, s)
                /\ NV[s] = "invalid" => Refuted(snap, st, hs, s)
    <2>1. CASE V[s] = "pending"
      BY <1>1, <1>7, <1>11, <2>1, AnswerIsRight
    <2>2. CASE V[s] # "pending"
      BY <1>11, <2>2 DEF Answered
    <2> QED
      BY <2>1, <2>2
  <1> QED
    BY <1>10, <1>12 DEF Answered

\* The invariant of the next state, from its parts.
LEMMA SoundNext ==
    ASSUME NEW m, setting' = setting, round' = round, clock \in Nat, clock' \in Nat, clock <= clock',
           \A p \in Path : disk'[p].version = 1 => disk'[p] = disk[p],
           Shape(snap', entry', owner', m), BuildInv(snap', build', verdict', m),
           EntryInv(snap', m, stamp', hash'), VerdictInv(snap', verdict', m),
           Answered(snap', verdict', stamp', hash', m)
    PROVE  Sound(m)'
  <1>1. mode' = mode /\ (UsesStart <=> UsesStart')
    BY DEF mode, UsesStart
  <1>2. Shape(snap, entry, owner, m)'
    BY <1>1 DEF Shape, SnapsInv, EntriesInv
  <1>3. BuildInv(snap, build, verdict, m)'
    <2> DEFINE B == build'
    <2>1. /\ B \in [Build -> BuildType]
          /\ \A b \in Build :
                /\ B[b].stage # "none" => 0 < B[b].start /\ B[b].start <= clock /\ B[b].round <= round
                /\ B[b].stage \in {"started", "read", "capturing"} => B[b].round = round
                /\ B[b].stage = "capturing" => Capture(snap', B[b], Files(b), m)
                /\ B[b].stage = "ready" => Complement(snap', verdict', B[b], Files(b), m)
          /\ \A b, c \in Build : B[b].stage = "capturing" /\ B[c].stage = "capturing" /\ B[b].id = B[c].id => b = c
      BY DEF BuildInv
    <2>2. ASSUME NEW b \in Build, B[b].stage # "none" PROVE B[b].start <= clock'
      <3>1. B[b].start \in Nat /\ B[b].start <= clock
        BY <2>1, <2>2 DEF BuildType
      <3> QED
        BY <3>1
    <2>3. \A b \in Build : Complement(snap', verdict', B[b], Files(b), m) => Complement(snap, verdict, build[b], Files(b), m)'
      BY <1>1 DEF Complement, TookOf
    <2>4. \A b \in Build : Capture(snap', B[b], Files(b), m) => Capture(snap, build[b], Files(b), m)'
      BY DEF Capture
    <2> QED
      BY <2>1, <2>2, <2>3, <2>4 DEF BuildInv
  <1>4. EntryInv(snap, m, stamp, hash)'
    <2> SUFFICES ASSUME NEW s \in 1 .. Len(snap'), NEW p \in DOMAIN snap'[s].own
                 PROVE  /\ s > m => snap'[s].own[p] = EntryOf(stamp[p], hash[p])' /\ Needed(stamp[p], hash[p])' \cap {Unread, Failed} = {}
                        /\ mode' = "both" => snap'[s].own[p].stamp.kind # "absent"
                        /\ disk'[p].version = 1 /\ mode' # "hash" =>
                              snap'[s].own[p].stamp.kind = "file" /\ snap'[s].own[p].stamp.value = disk'[p].mtime
                        /\ disk'[p].version = 1 /\ mode' \in {"hash", "both"} =>
                              snap'[s].own[p].hash.kind = "file" /\ snap'[s].own[p].hash.value = 1
      BY DEF EntryInv
    <2>1. p \in Path
      <3>1. snap'[s].own \in Owns
        BY KidsOfFacts DEF Shape, SnapType
      <3> QED
        BY <3>1 DEF Owns
    <2>2. EntryOf(stamp[p], hash[p])' = EntryOf(stamp'[p], hash'[p]) /\ Needed(stamp[p], hash[p])' = Needed(stamp'[p], hash'[p])
      BY <1>1 DEF EntryOf, Needed
    <2>3. disk'[p].version = 1 => disk'[p] = disk[p]
      BY <2>1
    <2> DEFINE x == snap'[s].own[p]
               e == EntryOf(stamp'[p], hash'[p])
               n == Needed(stamp'[p], hash'[p])
    <2>4. /\ s > m => x = e /\ n \cap {Unread, Failed} = {}
          /\ mode = "both" => x.stamp.kind # "absent"
          /\ disk[p].version = 1 /\ mode # "hash" => x.stamp.kind = "file" /\ x.stamp.value = disk[p].mtime
          /\ disk[p].version = 1 /\ mode \in {"hash", "both"} => x.hash.kind = "file" /\ x.hash.value = 1
      BY DEF EntryInv
    <2> HIDE DEF x, e, n
    <2>5. /\ s > m => x = e /\ n \cap {Unread, Failed} = {}
          /\ mode' = "both" => x.stamp.kind # "absent"
          /\ disk'[p].version = 1 /\ mode' # "hash" => x.stamp.kind = "file" /\ x.stamp.value = disk'[p].mtime
          /\ disk'[p].version = 1 /\ mode' \in {"hash", "both"} => x.hash.kind = "file" /\ x.hash.value = 1
      BY <1>1, <2>3, <2>4
    <2> QED
      BY <2>2, <2>5 DEF x, e, n
  <1>5. VerdictInv(snap, verdict, m)'
    BY DEF VerdictInv
  <1>6. Answered(snap, verdict, stamp, hash, m)'
    BY DEF Answered, Checked, Refuted, Says, EntryVerdict, mode
  <1> QED
    BY <1>2, <1>3, <1>4, <1>5, <1>6 DEF Sound

\* Complete as a whole, from the state of the steps that end with it.
LEMMA CompleteEffect ==
    ASSUME DiskInv, SnapsInv(snap), NEW o, NEW B, NEW V, NEW st, NEW hs, NEW m \in Nat,
           Whole(o, B, V, st, hs, m), Len(V) <= Len(snap),
           \A s \in 1 .. m : o.snap[s] = snap[s], m <= Len(snap),
           Answered(snap, V, st, hs, m), Complete(o, B, V, st, hs)
    PROVE  /\ Shape(snap', entry', owner', m) /\ BuildInv(snap', build', verdict', m)
           /\ EntryInv(snap', m, st, hs) /\ VerdictInv(snap', verdict', m)
           /\ Answered(snap', verdict', st, hs, m) /\ Len(verdict') = Len(snap')
           /\ \A b \in Build :
                 /\ build'[b].round = B[b].round /\ build'[b].start = B[b].start /\ build'[b].got = B[b].got
                 /\ build'[b].stage \in {"read", "capturing", "ready"} => B[b].stage \in {"read", "capturing", "ready"}
                 /\ build'[b].stage = "ready" /\ B[b].round < round => B[b].stage = "ready"
  <1>1. /\ snap' = [s \in 1 .. Len(o.snap) |-> NewSnap(o.snap, B, st, hs, s)]
        /\ build' = [b \in Build |-> NewBuild(B, st, hs, b)]
        /\ verdict' = [s \in 1 .. Len(o.snap) |-> NewVerdict(B, V, st, hs, s)]
        /\ entry' = o.entry /\ owner' = o.owner
    BY CompleteIs
  <1>2. mode \in Modes /\ \A b \in Build : Files(b) \in SUBSET Path
    BY SettingFacts DEF DiskInv
  <1>3. Finishes(o, B, V, st, hs, m, snap', build', verdict')
    BY <1>1, <1>2 DEF Finishes
  <1>4. round \in Nat
    BY DEF DiskInv
  <1>5. /\ Shape(snap', o.entry, o.owner, m) /\ BuildInv(snap', build', verdict', m)
        /\ EntryInv(snap', m, st, hs) /\ VerdictInv(snap', verdict', m) /\ Len(verdict') = Len(snap')
    BY <1>3, <1>4, WholeKept
  <1>6. Answered(snap', verdict', st, hs, m)
    BY <1>3, AnswersKept
  <1>7. ASSUME NEW b \in Build
        PROVE  /\ build'[b].round = B[b].round /\ build'[b].start = B[b].start /\ build'[b].got = B[b].got
               /\ build'[b].stage \in {"read", "capturing", "ready"} => B[b].stage \in {"read", "capturing", "ready"}
               /\ build'[b].stage = "ready" /\ B[b].round < round => B[b].stage = "ready"
    <2>1. /\ B \in [Build -> BuildType] /\ st \in [Path -> Readings] /\ hs \in [Path -> Readings]
          /\ B[b].stage = "capturing" => B[b].round = round
      BY DEF Whole, BuildInv, RestInv
    <2>2. build'[b] = NewBuild(B, st, hs, b)
      BY <1>1
    <2>a. B \in [Build -> BuildType] /\ st \in [Path -> Readings] /\ hs \in [Path -> Readings] /\ Files(b) \in SUBSET Path
      BY <1>2, <2>1
    <2>b. /\ build'[b] \in BuildType
          /\ build'[b].round = B[b].round /\ build'[b].start = B[b].start /\ build'[b].got = B[b].got
          /\ build'[b].id = B[b].id /\ build'[b].want = B[b].want
          /\ \/ B[b].stage = "capturing" /\ build'[b].stage = "failed"
             \/ /\ b \in DoneIn(B, st, hs) /\ B[b].stage = "capturing" /\ build'[b].stage = "ready"
                /\ build'[b].took = [p \in Files(b) |-> Captured(st[p], hs[p])]
             \/ b \notin DoneIn(B, st, hs) /\ build'[b] = B[b]
      BY <2>a, <2>2, NewBuilds
    <2>3. /\ build'[b].round = B[b].round /\ build'[b].start = B[b].start /\ build'[b].got = B[b].got
          /\ \/ B[b].stage = "capturing" /\ build'[b].stage = "failed"
             \/ B[b].stage = "capturing" /\ build'[b].stage = "ready"
             \/ build'[b] = B[b]
      BY <2>b
    <2> QED
      BY <1>4, <2>1, <2>3
  <1> QED
    BY <1>1, <1>5, <1>6, <1>7

Started(r, t) == [NoBuild EXCEPT !.stage = "started", !.round = r, !.start = t]

\* A build that has just started.
LEMMA NoBuildType ==
    ASSUME NEW r \in Nat, NEW t \in Nat, NEW x, x = Started(r, t)
    PROVE  /\ NoBuild \in BuildType /\ NoBuild.stage = "none"
           /\ x \in BuildType /\ x.stage = "started" /\ x.round = r /\ x.start = t
  <1>1. <<>> \in [{} -> Nat] /\ <<>> \in [{} -> SUBSET Nat]
    OBVIOUS
  <1>2. {} \in SUBSET Path
    OBVIOUS
  <1>3. <<>> \in UNION {[D -> Nat] : D \in SUBSET Path} /\ <<>> \in UNION {[D -> SUBSET Nat] : D \in SUBSET Path}
    BY <1>1, <1>2
  <1>4. NoBuild \in BuildType /\ NoBuild.stage = "none"
    BY <1>3 DEF NoBuild, BuildType, Stages
  <1> DEFINE y == NoBuild
  <1>5. y \in BuildType /\ x = [y EXCEPT !.stage = "started", !.round = r, !.start = t]
    BY <1>4 DEF Started
  <1> HIDE DEF y
  <1>6. x \in BuildType /\ x.stage = "started" /\ x.round = r /\ x.start = t
    BY <1>5 DEF BuildType, Stages
  <1> QED
    BY <1>4, <1>6 DEF y

\* What is seen is safe for builds that are not newer.
LEMMA SeenForBuilds ==
    ASSUME NEW st, NEW hs, NEW sn, NEW B, NEW NB, SeenInv(st, hs, sn, B),
           \A b \in Build : NB[b].stage = "ready" /\ NB[b].round < round =>
               /\ B[b].stage = "ready" /\ B[b].round = NB[b].round
               /\ B[b].start = NB[b].start /\ B[b].got = NB[b].got
    PROVE  SeenInv(st, hs, sn, NB)
  <1> SUFFICES ASSUME NEW p \in Path PROVE SafeAt(st, sn, NB, p)
    BY DEF SeenInv
  <1>1. SafeAt(st, sn, B, p)
    BY DEF SeenInv
  <1> QED
    BY <1>1 DEF SafeAt

\* Nothing happens, but that time may pass.
LEMMA TimeKeeps ==
    ASSUME SnapshotInv, clock' = clock \/ (clock < LastTime /\ clock' = clock + 1),
           UNCHANGED <<setting, fsStartTime, disk, edits, round, caches, snapshots>>
    PROVE  SnapshotInv'
  <1>1. /\ UNCHANGED <<setting, fsStartTime, disk, edits, round, accuracy, stamp, hash, seen>>
        /\ UNCHANGED <<snap, verdict, owner, entry, build>>
    BY DEF caches, snapshots
  <1>2. /\ clock \in Nat /\ clock' \in Nat /\ clock <= clock' /\ clock' \in FirstTime .. LastTime
        /\ fsStartTime' \in FirstTime .. clock'
    BY SettingFacts DEF SnapshotInv, DiskInv
  <1>3. PICK m \in Nat : Sound(m)
    BY DEF SnapshotInv
  <1>4. Sound(m)'
    <2>1. /\ Shape(snap', entry', owner', m) /\ BuildInv(snap', build', verdict', m)
          /\ EntryInv(snap', m, stamp', hash') /\ VerdictInv(snap', verdict', m)
          /\ Answered(snap', verdict', stamp', hash', m)
      BY <1>1, <1>3 DEF Sound
    <2> QED
      BY <1>1, <1>2, <2>1, SoundNext
  <1>5. DiskInv'
    BY <1>1, <1>2 DEF SnapshotInv, DiskInv
  <1>6. RestInv(stamp, hash)'
    BY <1>1 DEF SnapshotInv, RestInv
  <1>7. SeenInv(stamp, hash, seen, build)'
    BY <1>1 DEF SnapshotInv, SeenInv, ReadAt, SafeAt, mode
  <1>8. GotInv(build)'
    BY <1>1 DEF SnapshotInv, GotInv
  <1> QED
    BY <1>1, <1>3, <1>4, <1>5, <1>6, <1>7, <1>8 DEF SnapshotInv

\* Another build, its start or what it read, and no snapshot.
LEMMA BuildChanges ==
    ASSUME SnapshotInv, NEW b \in Build, NEW x \in BuildType,
           build' = [build EXCEPT ![b] = x], x.stage \in {"started", "read"},
           0 < x.start, x.start <= clock, x.round = round,
           UNCHANGED <<world, round, caches, snap, verdict, owner, entry>>,
           x.stage = "read" => /\ x.got \in [Files(b) -> Nat]
                               /\ \A p \in Files(b) : disk[p].version # 0 /\ disk[p].mtime + setting.grain <= x.start
                                     => x.got[p] = disk[p].version
    PROVE  SnapshotInv'
  <1>1. /\ UNCHANGED <<setting, clock, fsStartTime, disk, edits, round, accuracy, stamp, hash, seen>>
        /\ UNCHANGED <<snap, verdict, owner, entry>>
    BY DEF world, caches
  <1>2. PICK m \in Nat : Sound(m)
    BY DEF SnapshotInv
  <1>3. /\ build \in [Build -> BuildType] /\ BuildInv(snap, build, verdict, m)
        /\ clock \in Nat /\ round \in Nat
    BY <1>2, SettingFacts DEF Sound, BuildInv, SnapshotInv, DiskInv
  <1>4. /\ build' \in [Build -> BuildType] /\ build'[b] = x
        /\ \A c \in Build : c # b => build'[c] = build[c]
    BY <1>3
  <1>5. BuildInv(snap, build', verdict, m)
    <2>1. ASSUME NEW c \in Build
          PROVE  /\ build'[c].stage # "none" => 0 < build'[c].start /\ build'[c].start <= clock /\ build'[c].round <= round
                 /\ build'[c].stage \in {"started", "read", "capturing"} => build'[c].round = round
                 /\ build'[c].stage = "capturing" => Capture(snap, build'[c], Files(c), m)
                 /\ build'[c].stage = "ready" => Complement(snap, verdict, build'[c], Files(c), m)
      <3>1. CASE c = b
        BY <1>3, <1>4, <3>1
      <3>2. CASE c # b
        BY <1>3, <1>4, <3>2 DEF BuildInv
      <3> QED
        BY <3>1, <3>2
    <2>2. ASSUME NEW c \in Build, NEW d \in Build, build'[c].stage = "capturing", build'[d].stage = "capturing",
                 build'[c].id = build'[d].id
          PROVE  c = d
      <3>1. c # b /\ d # b
        BY <1>4, <2>2
      <3> QED
        BY <1>3, <1>4, <2>2, <3>1 DEF BuildInv
    <2> QED
      BY <1>4, <2>1, <2>2 DEF BuildInv
  <1>6. Sound(m)'
    <2>1. /\ Shape(snap', entry', owner', m) /\ BuildInv(snap', build', verdict', m)
          /\ EntryInv(snap', m, stamp', hash') /\ VerdictInv(snap', verdict', m)
          /\ Answered(snap', verdict', stamp', hash', m)
      BY <1>1, <1>2, <1>5 DEF Sound
    <2>2. setting' = setting /\ round' = round /\ clock' \in Nat /\ clock <= clock' /\ disk' = disk
      BY <1>1, <1>3
    <2> QED
      BY <1>3, <2>1, <2>2, SoundNext
  <1>7. DiskInv'
    BY <1>1 DEF SnapshotInv, DiskInv
  <1>8. RestInv(stamp, hash)'
    BY <1>1 DEF SnapshotInv, RestInv
  <1>9. SeenInv(stamp, hash, seen, build)'
    <2>1. \A c \in Build : build'[c].stage = "ready" => build'[c] = build[c]
      BY <1>4
    <2>2. mode' = mode /\ SeenInv(stamp, hash, seen, build)
      BY <1>1 DEF mode, SnapshotInv
    <2>3. SeenInv(stamp, hash, seen, build')
      <3>1. \A c \in Build : build'[c].stage = "ready" /\ build'[c].round < round =>
               /\ build[c].stage = "ready" /\ build[c].round = build'[c].round
               /\ build[c].start = build'[c].start /\ build[c].got = build'[c].got
        BY <2>1
      <3> QED
        BY <2>2, <3>1, SeenForBuilds
    <2> QED
      BY <1>1, <2>2, <2>3 DEF SeenInv, ReadAt, SafeAt
  <1>10. GotInv(build)'
    <2>1. GotInv(build)
      BY DEF SnapshotInv
    <2>2. ASSUME NEW c \in Build, build'[c].stage \in {"read", "capturing", "ready"}
          PROVE  /\ build'[c].got \in [Files(c) -> Nat]
                 /\ \A p \in Files(c) : disk[p].version # 0 /\ disk[p].mtime + setting.grain <= build'[c].start
                       => build'[c].got[p] = disk[p].version
      <3>1. CASE c = b
        BY <1>4, <2>2, <3>1
      <3>2. CASE c # b
        BY <1>4, <2>1, <2>2, <3>2 DEF GotInv
      <3> QED
        BY <3>1, <3>2
    <2> QED
      BY <1>1, <2>2 DEF GotInv
  <1> QED
    BY <1>1, <1>2, <1>6, <1>7, <1>8, <1>9, <1>10 DEF SnapshotInv

\* Begin keeps the invariant.
LEMMA BeginKeeps ==
    ASSUME SnapshotInv, NEW b \in Build, Begin(b)
    PROVE  SnapshotInv'
  <1>1. /\ clock \in Nat /\ round \in Nat /\ 0 < clock
        /\ fsStartTime \in Nat /\ 0 < fsStartTime /\ fsStartTime <= clock
    BY SettingFacts DEF SnapshotInv, DiskInv
  <1>2. PICK start \in {fsStartTime, clock} : build' = [build EXCEPT ![b] = Started(round, start)]
    BY DEF Begin, Started
  <1>3. start \in Nat /\ 0 < start /\ start <= clock
    BY <1>1, <1>2
  <1> DEFINE x == Started(round, start)
  <1>4. x = Started(round, start)
    OBVIOUS
  <1>5. build' = [build EXCEPT ![b] = x]
    BY <1>2
  <1>6. UNCHANGED <<world, round, caches, snap, verdict, owner, entry>>
    BY DEF Begin
  <1> HIDE DEF x
  <1>7. x \in BuildType /\ x.stage = "started" /\ x.round = round /\ x.start = start
    BY <1>1, <1>3, <1>4, NoBuildType
  <1>8. x.stage \in {"started", "read"} /\ 0 < x.start /\ x.start <= clock /\ x.stage # "read"
    BY <1>3, <1>7
  <1> QED
    BY <1>5, <1>6, <1>7, <1>8, BuildChanges

\* ReadFiles keeps the invariant: what is read now is what a later, safe timestamp speaks of.
LEMMA ReadFilesKeeps ==
    ASSUME SnapshotInv, NEW b \in Build, ReadFiles(b)
    PROVE  SnapshotInv'
  <1> DEFINE f == [p \in Files(b) |-> disk[p].version]
             x == [build[b] EXCEPT !.stage = "read", !.got = f]
  <1>1. PICK m \in Nat : BuildInv(snap, build, verdict, m)
    BY DEF SnapshotInv, Sound
  <1>2. /\ build \in [Build -> BuildType] /\ build[b] \in BuildType /\ build[b].stage = "started"
        /\ 0 < build[b].start /\ build[b].start <= clock /\ build[b].round = round
    BY <1>1 DEF ReadFiles, BuildInv
  <1>3. build' = [build EXCEPT ![b] = x]
    BY <1>2 DEF ReadFiles
  <1>4. UNCHANGED <<world, round, caches, snap, verdict, owner, entry>>
    BY DEF ReadFiles
  <1>5. f \in [Files(b) -> Nat] /\ Files(b) \in SUBSET Path
    BY SettingFacts DEF SnapshotInv, DiskInv
  <1>6. x = [build[b] EXCEPT !.stage = "read", !.got = f]
    OBVIOUS
  <1>7. \A p \in Files(b) : f[p] = disk[p].version
    OBVIOUS
  <1> HIDE DEF x, f
  <1>8. /\ x.stage = "read" /\ x.got = f /\ x.start = build[b].start /\ x.round = round
        /\ x.took = build[b].took /\ x.id = build[b].id /\ x.want = build[b].want
    BY <1>2, <1>6 DEF BuildType
  <1>9. x \in BuildType
    <2>1. f \in UNION {[D -> Nat] : D \in SUBSET Path}
      BY <1>5
    <2> QED
      BY <1>2, <1>6, <2>1 DEF BuildType, Stages
  <1> QED
    BY <1>2, <1>3, <1>4, <1>5, <1>7, <1>8, <1>9, BuildChanges

\* Edit keeps the invariant: a new mtime is too late to be safe for a build that has started.
LEMMA EditKeeps ==
    ASSUME SnapshotInv, NEW q \in Path, Edit(q)
    PROVE  SnapshotInv'
  <1>1. /\ UNCHANGED <<setting, clock, fsStartTime, round, accuracy, stamp, hash, seen>>
        /\ UNCHANGED <<snap, verdict, owner, entry, build>>
        /\ edits' = edits + 1
    BY DEF Edit, caches, snapshots
  <1>2. PICK version \in {edits + 2} \cup (IF disk[q].version = 0 THEN {} ELSE {0}) :
           disk' = [disk EXCEPT ![q] = [version |-> version, mtime |-> IF version = 0 THEN 0 ELSE Mtime]]
    BY DEF Edit
  <1>3. /\ clock \in Nat /\ edits \in Nat /\ round \in Nat /\ setting \in Settings /\ setting.grain \in Nat \ {0}
        /\ disk \in [Path -> [version : Nat, mtime : Nat]]
        /\ \A p \in Path : disk[p].mtime % setting.grain = 0
    BY SettingFacts DEF SnapshotInv, DiskInv
  <1>4. version \in Nat /\ version # 1 /\ edits' \in Nat
    BY <1>1, <1>2, <1>3
  <1> DEFINE g == setting.grain
             t == IF version = 0 THEN 0 ELSE Mtime
  <1>5. clock % g \in Nat /\ clock % g < g /\ clock % g <= clock
    BY <1>3, Remainder
  <1>6. Mtime \in Nat /\ Mtime + g > clock /\ Mtime % g = 0
    <2>1. Mtime = clock - (clock % g)
      BY DEF Mtime
    <2>2. (clock - (clock % g)) % g = 0
      BY <1>3, RoundedDown
    <2>3. clock - (clock % g) \in Nat /\ (clock - (clock % g)) + g > clock
      BY <1>3, <1>5
    <2> HIDE DEF g
    <2> QED
      BY <2>1, <2>2, <2>3
  <1>7. t \in Nat /\ t % g = 0
    <2>1. 0 % g = 0
      BY <1>3
    <2> QED
      BY <1>6, <2>1
  <1>8. /\ disk' \in [Path -> [version : Nat, mtime : Nat]]
        /\ disk'[q].version = version /\ disk'[q].mtime = t
        /\ \A p \in Path : p # q => disk'[p] = disk[p]
    <2> HIDE DEF t
    <2>1. disk' = [disk EXCEPT ![q] = [version |-> version, mtime |-> t]]
      BY <1>2 DEF t
    <2> QED
      BY <1>3, <1>4, <1>7, <2>1
  <1> HIDE DEF g, t
  <1>9. \A p \in Path : disk'[p].version = 1 => disk'[p] = disk[p]
    BY <1>4, <1>8
  <1>10. DiskInv'
    <2>1. \A p \in Path : disk'[p].mtime % g = 0
      BY <1>3, <1>7, <1>8 DEF g
    <2>2. \A p \in Path : disk'[p].version = 1 => disk'[p].mtime = setting.old[p]
      BY <1>9 DEF SnapshotInv, DiskInv
    <2> QED
      BY <1>1, <1>4, <1>8, <2>1, <2>2 DEF g, SnapshotInv, DiskInv
  <1>11. PICK m \in Nat : Sound(m)
    BY DEF SnapshotInv
  <1>12. Sound(m)'
    <2>1. /\ Shape(snap', entry', owner', m) /\ BuildInv(snap', build', verdict', m)
          /\ VerdictInv(snap', verdict', m) /\ Answered(snap', verdict', stamp', hash', m)
          /\ EntryInv(snap', m, stamp', hash')
      BY <1>1, <1>11 DEF Sound
    <2>2. setting' = setting /\ round' = round /\ clock' \in Nat /\ clock <= clock'
      BY <1>1, <1>3
    <2> QED
      BY <1>3, <1>9, <2>1, <2>2, SoundNext
  <1>13. RestInv(stamp, hash)'
    <2>1. \A p \in Path : disk[p].version = 1 =>
             /\ \/ stamp[p].kind \in {"unread", "failed"}
                \/ stamp[p].kind = "file" /\ stamp[p].value = disk[p].mtime /\ stamp[p].safe <= disk[p].mtime + Coarsest
             /\ \/ hash[p].kind \in {"unread", "failed"}
                \/ hash[p].kind = "file" /\ hash[p].value = 1
      BY DEF SnapshotInv, RestInv
    <2>2. \A p \in Path : disk'[p].version = 1 =>
             /\ \/ stamp[p].kind \in {"unread", "failed"}
                \/ stamp[p].kind = "file" /\ stamp[p].value = disk'[p].mtime /\ stamp[p].safe <= disk'[p].mtime + Coarsest
             /\ \/ hash[p].kind \in {"unread", "failed"}
                \/ hash[p].kind = "file" /\ hash[p].value = 1
      BY <1>9, <2>1
    <2> QED
      BY <1>1, <2>2 DEF SnapshotInv, RestInv
  <1>14. SeenInv(stamp, hash, seen, build)'
    BY <1>1 DEF SnapshotInv, SeenInv, ReadAt, SafeAt, mode
  <1>15. GotInv(build)'
    <2>1. GotInv(build)
      BY DEF SnapshotInv
    <2>2. ASSUME NEW c \in Build, build[c].stage \in {"read", "capturing", "ready"}, NEW p \in Files(c),
                 disk'[p].version # 0, disk'[p].mtime + g <= build[c].start
          PROVE  build[c].got[p] = disk'[p].version
      <3>1. build[c].start \in Nat /\ build[c].start <= clock
        BY <1>11, <2>2 DEF Sound, BuildInv, BuildType
      <3>2. p \in Path /\ g \in Nat
        BY <1>3, SettingFacts DEF g
      <3>3. p # q
        BY <1>3, <1>6, <1>8, <2>2, <3>1, <3>2 DEF t
      <3>4. disk'[p] = disk[p]
        BY <1>8, <3>2, <3>3
      <3> QED
        BY <2>1, <2>2, <3>4 DEF GotInv, g
    <2> QED
      BY <1>1, <2>1, <2>2 DEF GotInv, g
  <1> QED
    BY <1>1, <1>10, <1>11, <1>12, <1>13, <1>14, <1>15 DEF SnapshotInv

\* The next compilation: every snapshot is one of before now.
LEMMA NextKeeps ==
    ASSUME SnapshotInv, NextCompilation
    PROVE  SnapshotInv'
  <1>0. PICK m \in Nat : m = Len(snap)
    <2>1. Len(snap) \in Nat
      BY KidsOfFacts DEF SnapshotInv, Sound, Shape
    <2> QED
      BY <2>1
  <1>1. UNCHANGED <<setting, clock, disk, edits, accuracy, snap, build>>
    BY DEF NextCompilation
  <1>2. /\ round' = round + 1 /\ fsStartTime' = clock
        /\ stamp' = [p \in Path |-> Unread] /\ hash' = [p \in Path |-> Unread] /\ seen' = [p \in Path |-> {}]
        /\ verdict' = [s \in 1 .. m |-> "none"] /\ entry' = [s \in 1 .. m |-> NoEntry]
        /\ owner' = [p \in Path |-> 0]
        /\ \A b \in Build : build[b].stage \in {"none", "ready", "failed"}
    BY <1>0 DEF NextCompilation
  <1>3. PICK k \in Nat : Sound(k)
    BY DEF SnapshotInv
  <1>4. SnapsInv(snap) /\ BuildInv(snap, build, verdict, k) /\ Len(verdict) = m
    BY <1>0, <1>3 DEF Sound, Shape, SnapshotInv
  <1>5. round \in Nat /\ round' \in Nat \ {0} /\ clock \in Nat
    BY <1>2, SettingFacts DEF SnapshotInv, DiskInv
  <1>6. mode' = mode /\ (UsesStart <=> UsesStart')
    BY <1>1 DEF mode, UsesStart
  <1>7. Len(verdict') = m /\ verdict' \in Seq(Verdicts) /\ \A s \in 1 .. m : verdict'[s] = "none"
    <2>1. verdict' \in [1 .. m -> Verdicts]
      BY <1>2 DEF Verdicts
    <2> QED
      BY <1>2, <1>4, <2>1, SeqDef, LenProperties
  <1>8. entry' \in Seq(EntryType) /\ Len(entry') = m /\ \A s \in 1 .. m : entry'[s].shared = 0 /\ entry'[s].kids = {}
    <2>1. NoEntry \in EntryType /\ NoEntry.shared = 0 /\ NoEntry.kids = {}
      BY DEF NoEntry, EntryType
    <2>2. entry' \in [1 .. m -> EntryType]
      BY <1>2, <2>1
    <2> QED
      BY <1>2, <1>4, <2>1, <2>2, SeqDef, LenProperties
  <1>9. Shape(snap, entry', owner', m)
    <2>1. EntriesInv(snap, entry')
      BY <1>0, <1>8 DEF EntriesInv
    <2>2. owner' \in [Path -> Nat] /\ \A p \in Path : owner'[p] = 0
      BY <1>2
    <2>3. \A s \in 1 .. m : snap[s].kids \subseteq 1 .. m
      BY <1>0, <1>4 DEF SnapsInv
    <2>4. m = Len(snap) /\ m \in 0 .. Len(snap) /\ (m + 1) .. Len(snap) = {}
      BY <1>0
    <2> QED
      BY <1>4, <1>8, <2>1, <2>2, <2>3, <2>4 DEF Shape
  <1>10. ASSUME NEW b \in Build
         PROVE  /\ build[b].stage \in {"none", "ready", "failed"}
                /\ build[b].stage # "none" => 0 < build[b].start /\ build[b].start <= clock /\ build[b].round <= round'
                /\ build[b].stage = "ready" =>
                      /\ build[b].id \in 1 .. Len(verdict') /\ build[b].id <= m
                      /\ snap[build[b].id].ready /\ snap[build[b].id].start = build[b].start
                      /\ Covers(snap, build[b].id) = Files(b)
                      /\ \A p, y : Holds(snap, build[b].id, p, y) => build[b].took[p] = TookOf(y)'
    <2>1. /\ build[b].stage # "none" => 0 < build[b].start /\ build[b].start <= clock /\ build[b].round <= round
          /\ build[b].stage = "ready" => Complement(snap, verdict, build[b], Files(b), k)
          /\ build[b] \in BuildType
      BY <1>4 DEF BuildInv
    <2>2. build[b].round \in Nat
      BY <2>1 DEF BuildType
    <2>3. build[b].round <= round => build[b].round <= round' /\ build[b].round < round'
      BY <1>2, <1>5, <2>2
    <2>4. ASSUME build[b].stage = "ready"
          PROVE  /\ build[b].id \in 1 .. Len(verdict') /\ build[b].id <= m
                 /\ snap[build[b].id].ready /\ snap[build[b].id].start = build[b].start
                 /\ Covers(snap, build[b].id) = Files(b)
                 /\ \A p, y : Holds(snap, build[b].id, p, y) => build[b].took[p] = TookOf(y)
      BY <1>0, <1>4, <1>7, <2>1, <2>4 DEF Complement
    <2>5. \A y : TookOf(y)' = TookOf(y)
      BY <1>6 DEF TookOf
    <2> QED
      BY <1>2, <2>1, <2>3, <2>4, <2>5
  <1>11. Sound(m)'
    <2>1. Shape(snap, entry, owner, m)'
      BY <1>1, <1>6, <1>9 DEF Shape, SnapsInv, EntriesInv
    <2>2. BuildInv(snap, build, verdict, m)'
      <3>1. \A b \in Build : build[b].stage \notin {"started", "read", "capturing"}
        BY <1>10
      <3>2. build \in [Build -> BuildType]
        BY <1>4 DEF BuildInv
      <3>3. ASSUME NEW b \in Build, build[b].stage = "ready" PROVE Complement(snap, verdict, build[b], Files(b), m)'
        <4>1. /\ build[b].id \in 1 .. Len(verdict') /\ build[b].id <= m
              /\ snap[build[b].id].ready /\ snap[build[b].id].start = build[b].start
              /\ Covers(snap, build[b].id) = Files(b)
              /\ \A p, y : Holds(snap, build[b].id, p, y) => build[b].took[p] = TookOf(y)'
          BY <1>10, <3>3
        <4> QED
          BY <1>1, <4>1 DEF Complement
      <3> QED
        BY <1>1, <1>10, <3>1, <3>2, <3>3 DEF BuildInv
    <2>3. EntryInv(snap, m, stamp, hash)'
      <3>1. \A s \in 1 .. Len(snap) : \A p \in DOMAIN snap[s].own :
               /\ mode = "both" => snap[s].own[p].stamp.kind # "absent"
               /\ disk[p].version = 1 /\ mode # "hash" =>
                     snap[s].own[p].stamp.kind = "file" /\ snap[s].own[p].stamp.value = disk[p].mtime
               /\ disk[p].version = 1 /\ mode \in {"hash", "both"} =>
                     snap[s].own[p].hash.kind = "file" /\ snap[s].own[p].hash.value = 1
        BY <1>3 DEF Sound, EntryInv
      <3>2. \A s \in 1 .. Len(snap) : ~ (s > m)
        BY <1>0
      <3> QED
        BY <1>1, <1>6, <3>1, <3>2 DEF EntryInv
    <2>4. VerdictInv(snap, verdict, m)'
      BY <1>0, <1>1, <1>7 DEF VerdictInv
    <2>5. Answered(snap, verdict, stamp, hash, m)'
      BY <1>7 DEF Answered
    <2> QED
      BY <2>1, <2>2, <2>3, <2>4, <2>5 DEF Sound
  <1>12. DiskInv'
    BY <1>1, <1>2, <1>5, SettingFacts DEF SnapshotInv, DiskInv
  <1>13. /\ stamp' \in [Path -> Readings] /\ hash' \in [Path -> Readings]
         /\ \A p \in Path : stamp'[p].kind = "unread" /\ hash'[p].kind = "unread" /\ seen'[p] = {}
    BY <1>2 DEF Readings, Unread
  <1>14. RestInv(stamp, hash)'
    BY <1>13 DEF RestInv
  <1>15. SeenInv(stamp, hash, seen, build)'
    BY <1>13 DEF SeenInv, ReadAt, SafeAt
  <1>16. GotInv(build)'
    BY <1>1 DEF SnapshotInv, GotInv
  <1>17. seen' \in [Path -> SUBSET Nat]
    BY <1>2
  <1>18. Len(verdict') = Len(snap')
    BY <1>0, <1>1, <1>7
  <1> QED
    BY <1>11, <1>12, <1>14, <1>15, <1>16, <1>17, <1>18 DEF SnapshotInv

\* A reading that is there stays.
Stays(x, y) == x # Unread => y = x

\* An answer of an entry stays, when more is read.
LEMMA VerdictStays ==
    ASSUME mode \in Modes, NEW t \in Readings, NEW u \in Readings, NEW h \in Readings, NEW g \in Readings,
           Stays(t, u), Stays(h, g), NEW x, NEW start, EntryVerdict(t, h, x, start) # "pending"
    PROVE  EntryVerdict(u, g, x, start) = EntryVerdict(t, h, x, start)
  <1>1. (t.kind = "unread" <=> t = Unread) /\ (h.kind = "unread" <=> h = Unread)
    BY DEF Readings, Unread, Failed, Absent, File
  <1>2. h.kind # "unread" => HashVerdict(g, x.hash) = HashVerdict(h, x.hash)
    BY <1>1 DEF Stays
  <1>3. h.kind = "unread" => HashVerdict(h, x.hash) = "pending"
    BY DEF HashVerdict
  <1>4. t.kind # "unread" => u = t
    BY <1>1 DEF Stays
  <1> DEFINE v == HashVerdict(h, x.hash)
             w == HashVerdict(g, x.hash)
             e == SameExistence(t, x.stamp)
             f == SameFile(t, x.stamp, start)
  <1>5. EntryVerdict(t, h, x, start) =
           IF mode = "hash" THEN v ELSE IF t.kind = "unread" THEN "pending" ELSE IF t.kind = "failed" THEN "invalid"
           ELSE IF mode = "existence" THEN Verdict(e) ELSE IF f THEN "valid" ELSE IF mode = "both" THEN v ELSE "invalid"
    BY Zenon DEF EntryVerdict
  <1>6. u = t => EntryVerdict(u, g, x, start) =
           IF mode = "hash" THEN w ELSE IF t.kind = "unread" THEN "pending" ELSE IF t.kind = "failed" THEN "invalid"
           ELSE IF mode = "existence" THEN Verdict(e) ELSE IF f THEN "valid" ELSE IF mode = "both" THEN w ELSE "invalid"
    BY Zenon DEF EntryVerdict
  <1>7. mode = "hash" => EntryVerdict(u, g, x, start) = w
    BY Zenon DEF EntryVerdict
  <1> HIDE DEF v, w, e, f
  <1>8. CASE mode = "hash"
    BY <1>2, <1>3, <1>5, <1>7, <1>8 DEF v, w
  <1>9. CASE mode # "hash"
    <2>1. u = t /\ t.kind # "unread"
      BY <1>4, <1>5, <1>9
    <2>2. v # "pending" => w = v
      BY <1>2, <1>3 DEF v, w
    <2> QED
      BY <1>5, <1>6, <1>9, <2>1, <2>2
  <1> QED
    BY <1>8, <1>9

\* So an answer stays right when more is read.
LEMMA AnsweredStays ==
    ASSUME mode \in Modes, NEW S, SnapsInv(S), NEW V, NEW m \in Nat, m <= Len(S),
           NEW st \in [Path -> Readings], NEW hs \in [Path -> Readings],
           NEW su \in [Path -> Readings], NEW hu \in [Path -> Readings],
           \A p \in Path : Stays(st[p], su[p]) /\ Stays(hs[p], hu[p]),
           Answered(S, V, st, hs, m)
    PROVE  Answered(S, V, su, hu, m)
  <1>1. Len(S) \in Nat /\ \A t \in 1 .. Len(S) : S[t] \in SnapType
    BY KidsOfFacts
  <1>2. ASSUME NEW t \in 1 .. Len(S), NEW p \in DOMAIN S[t].own, Says(S, st, hs, t, p) # "pending"
        PROVE  Says(S, su, hu, t, p) = Says(S, st, hs, t, p)
    <2>1. p \in Path
      BY <1>1 DEF SnapType, Owns
    <2>2. /\ st[p] \in Readings /\ su[p] \in Readings /\ hs[p] \in Readings /\ hu[p] \in Readings
          /\ Stays(st[p], su[p]) /\ Stays(hs[p], hu[p])
      BY <2>1
    <2> QED
      BY <1>2, <2>2, VerdictStays DEF Says
  <1>3. ASSUME NEW s \in 1 .. m PROVE Under(S, s) \subseteq 1 .. Len(S)
    <2>1. s \in 1 .. Len(S)
      BY <1>1
    <2> QED
      BY <2>1, UnderFacts
  <1>4. ASSUME NEW s \in 1 .. m, Checked(S, st, hs, s) PROVE Checked(S, su, hu, s)
    <2> SUFFICES ASSUME NEW t \in Under(S, s), NEW p \in DOMAIN S[t].own PROVE Says(S, su, hu, t, p) = "valid"
      BY DEF Checked
    <2>1. t \in 1 .. Len(S) /\ Says(S, st, hs, t, p) = "valid"
      BY <1>3, <1>4 DEF Checked
    <2> QED
      BY <1>2, <2>1
  <1>5. ASSUME NEW s \in 1 .. m, Refuted(S, st, hs, s) PROVE Refuted(S, su, hu, s)
    <2>1. PICK t \in Under(S, s) : \E p \in DOMAIN S[t].own : Says(S, st, hs, t, p) = "invalid"
      BY <1>5 DEF Refuted
    <2>2. PICK p \in DOMAIN S[t].own : Says(S, st, hs, t, p) = "invalid"
      BY <2>1
    <2>3. Says(S, su, hu, t, p) = "invalid"
      BY <1>2, <1>3, <2>1, <2>2
    <2> QED
      BY <2>1, <2>2, <2>3 DEF Refuted
  <1> QED
    BY <1>4, <1>5 DEF Answered

\* So do the entries of this compilation.
LEMMA EntriesStay ==
    ASSUME mode \in Modes, NEW S, SnapsInv(S), NEW m,
           NEW st \in [Path -> Readings], NEW hs \in [Path -> Readings],
           NEW su \in [Path -> Readings], NEW hu \in [Path -> Readings],
           \A p \in Path : Stays(st[p], su[p]) /\ Stays(hs[p], hu[p]),
           EntryInv(S, m, st, hs)
    PROVE  EntryInv(S, m, su, hu)
  <1>1. ASSUME NEW s \in 1 .. Len(S), NEW p \in DOMAIN S[s].own, s > m
        PROVE  S[s].own[p] = EntryOf(su[p], hu[p]) /\ Needed(su[p], hu[p]) \cap {Unread, Failed} = {}
    <2>1. S[s].own[p] = EntryOf(st[p], hs[p]) /\ Needed(st[p], hs[p]) \cap {Unread, Failed} = {}
      BY <1>1 DEF EntryInv
    <2>2. S[s].own \in Owns
      BY KidsOfFacts DEF SnapType
    <2>3. p \in Path
      BY <2>2 DEF Owns
    <2>4. Stays(st[p], su[p]) /\ Stays(hs[p], hu[p])
      BY <2>3
    <2>5. CASE mode \in {"timestamp", "existence"}
      <3>1. st[p] # Unread
        BY <2>1, <2>5 DEF Needed
      <3>2. su[p] = st[p]
        BY <2>4, <3>1 DEF Stays
      <3> QED
        BY <2>1, <2>5, <3>2 DEF EntryOf, Needed
    <2>6. CASE mode = "hash"
      <3>1. hs[p] # Unread
        BY <2>1, <2>6 DEF Needed
      <3>2. hu[p] = hs[p]
        BY <2>4, <3>1 DEF Stays
      <3> QED
        BY <2>1, <2>6, <3>2 DEF EntryOf, Needed
    <2>7. CASE mode = "both"
      <3>1. st[p] # Unread /\ hs[p] # Unread
        BY <2>1, <2>7 DEF Needed
      <3>2. su[p] = st[p] /\ hu[p] = hs[p]
        BY <2>4, <3>1 DEF Stays
      <3> QED
        BY <2>1, <3>2
    <2> QED
      BY <2>5, <2>6, <2>7 DEF Modes
  <1> QED
    BY <1>1 DEF EntryInv

\* A read, whatever it is, of path p.
LEMMA ReadKeeps ==
    ASSUME SnapshotInv, NEW p \in Path, UNCHANGED <<world, round>>,
           accuracy' \in Steps \cup {Coarsest}, setting.grain <= accuracy', accuracy' <= Coarsest,
           RestInv(stamp', hash'), seen' \in [Path -> SUBSET Nat],
           \A q \in Path : Stays(stamp[q], stamp'[q]) /\ Stays(hash[q], hash'[q]),
           \A q \in Path : q # p => stamp'[q] = stamp[q] /\ hash'[q] = hash[q] /\ seen'[q] = seen[q],
           ReadAt(stamp', hash', seen', p), SafeAt(stamp', seen', build, p),
           Complete(Now, build, verdict, stamp', hash')
    PROVE  SnapshotInv'
  <1>1. UNCHANGED <<setting, clock, fsStartTime, disk, edits, round>>
    BY DEF world
  <1>2. PICK m \in Nat : Sound(m)
    BY DEF SnapshotInv
  <1>3. /\ DiskInv /\ mode \in Modes /\ clock \in Nat /\ mode' = mode
        /\ stamp \in [Path -> Readings] /\ hash \in [Path -> Readings]
        /\ stamp' \in [Path -> Readings] /\ hash' \in [Path -> Readings]
    BY <1>1, SettingFacts DEF SnapshotInv, DiskInv, RestInv, mode
  <1>4. /\ Shape(snap, entry, owner, m) /\ BuildInv(snap, build, verdict, m) /\ SnapsInv(snap)
        /\ EntryInv(snap, m, stamp, hash) /\ VerdictInv(snap, verdict, m) /\ m <= Len(snap)
        /\ Answered(snap, verdict, stamp, hash, m) /\ Len(verdict) = Len(snap) /\ Len(snap) \in Nat
    BY <1>2, KidsOfFacts DEF SnapshotInv, Sound, Shape
  <1>5. EntryInv(snap, m, stamp', hash')
    BY <1>3, <1>4, EntriesStay
  <1>6. Answered(snap, verdict, stamp', hash', m)
    BY <1>3, <1>4, AnsweredStays
  <1>7. Now.snap = snap /\ Now.entry = entry /\ Now.owner = owner
    BY DEF Now
  <1>8. Whole(Now, build, verdict, stamp', hash', m)
    BY <1>4, <1>5, <1>7 DEF Whole
  <1>9. PICK o : o = Now
    OBVIOUS
  <1>10. Whole(o, build, verdict, stamp', hash', m) /\ Complete(o, build, verdict, stamp', hash') /\ \A s \in 1 .. m : o.snap[s] = snap[s]
    BY <1>7, <1>8, <1>9
  <1>11. Len(verdict) <= Len(snap)
    BY <1>4
  <1>12. /\ Shape(snap', entry', owner', m) /\ BuildInv(snap', build', verdict', m)
         /\ EntryInv(snap', m, stamp', hash') /\ VerdictInv(snap', verdict', m)
         /\ Answered(snap', verdict', stamp', hash', m) /\ Len(verdict') = Len(snap')
         /\ \A b \in Build :
               /\ build'[b].round = build[b].round /\ build'[b].start = build[b].start /\ build'[b].got = build[b].got
               /\ build'[b].stage \in {"read", "capturing", "ready"} => build[b].stage \in {"read", "capturing", "ready"}
               /\ build'[b].stage = "ready" /\ build[b].round < round => build[b].stage = "ready"
    BY <1>3, <1>4, <1>6, <1>10, <1>11, CompleteEffect
  <1>13. Sound(m)'
    <2>1. /\ Shape(snap', entry', owner', m) /\ BuildInv(snap', build', verdict', m)
          /\ EntryInv(snap', m, stamp', hash') /\ VerdictInv(snap', verdict', m)
          /\ Answered(snap', verdict', stamp', hash', m)
      BY <1>12
    <2>2. /\ setting' = setting /\ round' = round /\ clock' \in Nat /\ clock <= clock'
          /\ \A q \in Path : disk'[q].version = 1 => disk'[q] = disk[q]
      BY <1>1, <1>3
    <2> QED
      BY <1>3, <2>1, <2>2, SoundNext
  <1>14. DiskInv'
    BY <1>1, <1>3 DEF DiskInv
  <1>15. RestInv(stamp, hash)'
    BY <1>1 DEF RestInv
  <1>16. SeenInv(stamp, hash, seen, build)'
    <2>1. \A q \in Path : ReadAt(stamp, hash, seen, q) /\ SafeAt(stamp, seen, build, q)
      BY DEF SnapshotInv, SeenInv
    <2>2. ASSUME NEW q \in Path PROVE ReadAt(stamp', hash', seen', q) /\ SafeAt(stamp', seen', build, q)
      <3>1. CASE q = p
        BY <3>1
      <3>2. CASE q # p
        <4>1. stamp'[q] = stamp[q] /\ hash'[q] = hash[q] /\ seen'[q] = seen[q]
          BY <3>2
        <4> QED
          BY <2>1, <4>1 DEF ReadAt, SafeAt
      <3> QED
        BY <3>1, <3>2
    <2>3. SeenInv(stamp', hash', seen', build)
      BY <2>2 DEF SeenInv
    <2>4. \A c \in Build : build'[c].stage = "ready" /\ build'[c].round < round =>
               /\ build[c].stage = "ready" /\ build[c].round = build'[c].round
               /\ build[c].start = build'[c].start /\ build[c].got = build'[c].got
      BY <1>12
    <2>5. SeenInv(stamp', hash', seen', build')
      BY <2>3, <2>4, SeenForBuilds
    <2> QED
      BY <1>1, <1>3, <2>5 DEF SeenInv, ReadAt, SafeAt
  <1>17. GotInv(build)'
    <2>1. GotInv(build)
      BY DEF SnapshotInv
    <2> QED
      BY <1>1, <1>12, <2>1 DEF GotInv
  <1> QED
    BY <1>12, <1>13, <1>14, <1>15, <1>16, <1>17 DEF SnapshotInv

\* applyMtime never chooses an accuracy that is finer than the granularity.
LEMMA FinerFacts ==
    ASSUME DiskInv, NEW t \in Nat, t % setting.grain = 0
    PROVE  Finer(t) \in Steps \cup {Coarsest} /\ setting.grain <= Finer(t) /\ Finer(t) <= Coarsest
  <1> DEFINE fit == {a \in Steps : a < accuracy /\ t % (2 * a) # 0}
             g == setting.grain
  <1>1. /\ accuracy \in Steps \cup {Coarsest} /\ g <= accuracy /\ accuracy <= Coarsest
        /\ g \in Nat \ {0} /\ Steps \subseteq Nat \ {0} /\ Coarsest \in Nat \ {0} /\ t % g = 0
        /\ \A a \in Steps : a < g => g % (2 * a) = 0
    BY SettingFacts, FileSystemAssumption DEF DiskInv
  <1>2. Finer(t) = IF fit = {} THEN accuracy ELSE CHOOSE a \in fit : \A x \in fit : a <= x
    BY Zenon DEF Finer
  <1> HIDE DEF g
  <1>3. CASE fit = {}
    <2>1. Finer(t) = accuracy
      BY <1>2, <1>3, Zenon
    <2> QED
      BY <1>1, <2>1 DEF g
  <1>4. CASE fit # {}
    <2>1. fit \subseteq Nat
      BY <1>1
    <2>2. \E a \in fit : \A x \in fit : a <= x
      <3> HIDE DEF fit
      <3> QED
        BY <1>4, <2>1, LeastNumber
    <2>3. Finer(t) = CHOOSE a \in fit : \A x \in fit : a <= x
      BY <1>2, <1>4, Zenon
    <2>4. Finer(t) \in fit
      <3> HIDE DEF fit
      <3>1. (CHOOSE a \in fit : \A x \in fit : a <= x) \in fit
        BY <2>2, Zenon
      <3> QED
        BY <2>3, <3>1, Zenon
    <2> DEFINE a == Finer(t)
    <2>5. a \in Steps /\ a < accuracy /\ t % (2 * a) # 0
      BY <2>4
    <2> HIDE DEF a
    <2>6. a \in Nat \ {0} /\ 2 * a \in Nat \ {0}
      BY <1>1, <2>5
    <2>7. ~ (a < g)
      <3> SUFFICES ASSUME a < g PROVE FALSE
        OBVIOUS
      <3>1. g % (2 * a) = 0
        BY <1>1, <2>5
      <3>2. t % (2 * a) = 0
        BY <1>1, <2>6, <3>1, MultipleOfMultiple
      <3> QED
        BY <2>5, <3>2
    <2>8. a \in Steps \cup {Coarsest} /\ g <= a /\ a <= Coarsest
      BY <1>1, <2>5, <2>6, <2>7
    <2> QED
      BY <2>8 DEF a, g
  <1> QED
    BY <1>3, <1>4

\* What the caches are before a read.
LEMMA BeforeRead ==
    ASSUME SnapshotInv, NEW p \in Path
    PROVE  /\ DiskInv /\ mode \in Modes /\ stamp \in [Path -> Readings] /\ hash \in [Path -> Readings]
           /\ seen \in [Path -> SUBSET Nat] /\ disk[p].version \in Nat /\ disk[p].mtime \in Nat
           /\ disk[p].mtime % setting.grain = 0
           /\ disk[p].version = 1 => disk[p].mtime > 0
           /\ ReadAt(stamp, hash, seen, p) /\ SafeAt(stamp, seen, build, p)
           /\ accuracy \in Steps \cup {Coarsest} /\ setting.grain <= accuracy /\ accuracy <= Coarsest
           /\ Coarsest \in Nat \ {0} /\ Steps \subseteq Nat \ {0} /\ Infinity \in Nat /\ Infinity > clock
           /\ setting.grain \in Nat \ {0} /\ clock \in Nat
           /\ \A b \in Build : build[b].stage = "ready" => build[b].start \in Nat /\ build[b].start <= clock
  <1>1. /\ DiskInv /\ stamp \in [Path -> Readings] /\ hash \in [Path -> Readings]
        /\ seen \in [Path -> SUBSET Nat] /\ ReadAt(stamp, hash, seen, p) /\ SafeAt(stamp, seen, build, p)
    BY DEF SnapshotInv, RestInv, SeenInv
  <1>2. /\ mode \in Modes /\ setting.grain \in Nat \ {0} /\ Coarsest \in Nat \ {0} /\ setting.old \in [Path -> Nat \ {0}]
        /\ Steps \subseteq Nat \ {0} /\ FirstTime \in Nat \ {0} /\ LastTime \in Nat
    BY <1>1, SettingFacts DEF DiskInv
  <1>3. /\ disk[p].version \in Nat /\ disk[p].mtime \in Nat
        /\ disk[p].mtime % setting.grain = 0 /\ (disk[p].version = 1 => disk[p].mtime = setting.old[p])
        /\ accuracy \in Steps \cup {Coarsest} /\ setting.grain <= accuracy /\ accuracy <= Coarsest
        /\ clock \in FirstTime .. LastTime
    BY <1>1 DEF DiskInv
  <1>4. setting.old[p] \in Nat \ {0}
    BY <1>2
  <1>5. clock \in Nat /\ Infinity \in Nat /\ Infinity > clock
    BY <1>2, <1>3 DEF Infinity
  <1>6. ASSUME NEW b \in Build, build[b].stage = "ready" PROVE build[b].start \in Nat /\ build[b].start <= clock
    BY <1>6 DEF SnapshotInv, Sound, BuildInv, BuildType
  <1> QED
    BY <1>1, <1>2, <1>3, <1>4, <1>5, <1>6

\* ReadTimestamp keeps the invariant.
LEMMA ReadTimestampKeeps ==
    ASSUME SnapshotInv, NEW p \in Path, ReadTimestamp(p)
    PROVE  SnapshotInv'
  <1> DEFINE f == disk[p]
             r == StampOf(f, accuracy')
  <1>1. /\ accuracy' = IF f.mtime = 0 THEN accuracy ELSE Finer(f.mtime)
        /\ seen' = [seen EXCEPT ![p] = @ \cup {f.version}]
        /\ mode # "hash" /\ stamp[p] = Unread /\ stamp' = [stamp EXCEPT ![p] = r]
        /\ Complete(Now, build, verdict, stamp', hash) /\ hash' = hash /\ UNCHANGED <<world, round>>
    BY DEF ReadTimestamp, ReadFileTimestamp, StampAsked
  <1>2. /\ DiskInv /\ mode \in Modes /\ stamp \in [Path -> Readings] /\ hash \in [Path -> Readings]
        /\ seen \in [Path -> SUBSET Nat] /\ f.version \in Nat /\ f.mtime \in Nat
        /\ f.mtime % setting.grain = 0
        /\ f.version = 1 => f.mtime > 0
    BY BeforeRead
  <1>3. /\ ReadAt(stamp, hash, seen, p)
        /\ accuracy \in Steps \cup {Coarsest} /\ setting.grain <= accuracy /\ accuracy <= Coarsest
        /\ Coarsest \in Nat \ {0} /\ Steps \subseteq Nat \ {0} /\ Infinity \in Nat /\ Infinity > clock
        /\ setting.grain \in Nat \ {0} /\ clock \in Nat
        /\ \A b \in Build : build[b].stage = "ready" => build[b].start \in Nat /\ build[b].start <= clock
    BY BeforeRead
  <1> HIDE DEF f
  <1>4. accuracy' \in Steps \cup {Coarsest} /\ setting.grain <= accuracy' /\ accuracy' <= Coarsest /\ accuracy' \in Nat
    BY <1>1, <1>2, <1>3, FinerFacts
  <1>5. /\ r \in Readings /\ r.kind = IF f.version = 0 THEN "absent" ELSE "file"
        /\ f.version # 0 => r.value = f.mtime /\ r.safe = IF f.mtime = 0 THEN Infinity ELSE f.mtime + accuracy'
    <2>1. CASE f.version = 0
      BY <2>1 DEF StampOf, Absent, Readings
    <2>2. CASE f.version # 0
      <3>1. r = File(f.mtime, IF f.mtime = 0 THEN Infinity ELSE f.mtime + accuracy')
        BY <2>2 DEF StampOf
      <3>2. (IF f.mtime = 0 THEN Infinity ELSE f.mtime + accuracy') \in Nat
        BY <1>2, <1>3, <1>4
      <3>3. r \in Readings
        BY <1>2, <3>1, <3>2 DEF Readings
      <3> QED
        BY <2>2, <3>1, <3>3 DEF File
    <2> QED
      BY <2>1, <2>2
  <1> HIDE DEF r
  <1>6. /\ stamp' \in [Path -> Readings] /\ stamp'[p] = r /\ \A q \in Path : q # p => stamp'[q] = stamp[q]
        /\ seen' \in [Path -> SUBSET Nat] /\ seen'[p] = seen[p] \cup {f.version}
        /\ \A q \in Path : q # p => seen'[q] = seen[q]
    BY <1>1, <1>2, <1>5
  <1>7. RestInv(stamp', hash')
    <2>1. RestInv(stamp, hash)
      BY DEF SnapshotInv
    <2>2. f.version = 1 => r.kind = "file" /\ r.value = f.mtime /\ r.safe <= f.mtime + Coarsest
      BY <1>2, <1>3, <1>4, <1>5
    <2> QED
      BY <1>1, <1>2, <1>6, <2>1, <2>2 DEF RestInv, f
  <1>8. ReadAt(stamp', hash', seen', p)
    <2>1. Unread.kind = "unread"
      BY DEF Unread
    <2>2. /\ hash[p].kind \in {"file", "absent"} => hash[p].value \in seen[p]
          /\ mode = "existence" => seen[p] = {}
      BY <1>1, <1>3, <2>1 DEF ReadAt
    <2> QED
      BY <1>1, <1>5, <1>6, <2>2 DEF ReadAt
  <1>9. SafeAt(stamp', seen', build, p)
    <2> SUFFICES ASSUME r.kind = "file", NEW b \in Build, build[b].stage = "ready", build[b].round < round,
                        p \in Files(b), r.safe <= build[b].start
                 PROVE  build[b].got[p] \in seen'[p]
      BY <1>6 DEF SafeAt
    <2>1. f.version # 0
      BY <1>5
    <2>2. build[b].start \in Nat /\ build[b].start <= clock
      BY <1>3
    <2>3. f.mtime # 0
      BY <1>3, <1>5, <2>1, <2>2
    <2>4. f.mtime + setting.grain <= build[b].start
      BY <1>2, <1>3, <1>4, <1>5, <2>1, <2>2, <2>3
    <2>5. build[b].got[p] = f.version
      BY <2>1, <2>4 DEF SnapshotInv, GotInv, f
    <2> QED
      BY <1>6, <2>5
  <1>10. \A q \in Path : Stays(stamp[q], stamp'[q]) /\ Stays(hash[q], hash'[q])
    BY <1>1, <1>6 DEF Stays
  <1>11. \A q \in Path : q # p => stamp'[q] = stamp[q] /\ hash'[q] = hash[q] /\ seen'[q] = seen[q]
    BY <1>1, <1>6
  <1>12. Complete(Now, build, verdict, stamp', hash')
    BY <1>1, Zenon
  <1> QED
    BY <1>1, <1>4, <1>6, <1>7, <1>8, <1>9, <1>10, <1>11, <1>12, ReadKeeps

\* TimestampFails keeps the invariant.
LEMMA TimestampFailsKeeps ==
    ASSUME SnapshotInv, NEW p \in Path, TimestampFails(p)
    PROVE  SnapshotInv'
  <1>1. /\ accuracy' = accuracy /\ seen' = seen
        /\ stamp[p] = Unread /\ stamp' = [stamp EXCEPT ![p] = Failed]
        /\ Complete(Now, build, verdict, stamp', hash) /\ hash' = hash /\ UNCHANGED <<world, round>>
    BY DEF TimestampFails, ReadFileTimestamp, StampAsked
  <1>2. /\ stamp \in [Path -> Readings] /\ hash \in [Path -> Readings] /\ seen \in [Path -> SUBSET Nat]
        /\ accuracy \in Steps \cup {Coarsest} /\ setting.grain <= accuracy /\ accuracy <= Coarsest
        /\ ReadAt(stamp, hash, seen, p)
    BY BeforeRead
  <1>3. Failed \in Readings /\ Failed.kind = "failed" /\ Unread.kind = "unread"
    BY DEF Readings, Failed, Unread
  <1>4. /\ stamp' \in [Path -> Readings] /\ stamp'[p] = Failed /\ \A q \in Path : q # p => stamp'[q] = stamp[q]
    BY <1>1, <1>2, <1>3
  <1>5. RestInv(stamp', hash')
    <2>1. RestInv(stamp, hash)
      BY DEF SnapshotInv
    <2> QED
      BY <1>1, <1>3, <1>4, <2>1 DEF RestInv
  <1>6. ReadAt(stamp', hash', seen', p) /\ SafeAt(stamp', seen', build, p)
    BY <1>1, <1>2, <1>3, <1>4 DEF ReadAt, SafeAt
  <1>7. \A q \in Path : Stays(stamp[q], stamp'[q]) /\ Stays(hash[q], hash'[q])
    BY <1>1, <1>4 DEF Stays
  <1>8. \A q \in Path : q # p => stamp'[q] = stamp[q] /\ hash'[q] = hash[q] /\ seen'[q] = seen[q]
    BY <1>1, <1>4
  <1>9. Complete(Now, build, verdict, stamp', hash')
    BY <1>1, Zenon
  <1> QED
    BY <1>1, <1>2, <1>5, <1>6, <1>7, <1>8, <1>9, ReadKeeps

\* ReadHash keeps the invariant.
LEMMA ReadHashKeeps ==
    ASSUME SnapshotInv, NEW p \in Path, ReadHash(p)
    PROVE  SnapshotInv'
  <1> DEFINE f == disk[p]
             r == HashOf(f)
  <1>1. /\ accuracy' = accuracy /\ stamp' = stamp
        /\ seen' = [seen EXCEPT ![p] = @ \cup {f.version}]
        /\ mode \in {"hash", "both"} /\ hash[p] = Unread /\ hash' = [hash EXCEPT ![p] = r]
        /\ Complete(Now, build, verdict, stamp, hash') /\ UNCHANGED <<world, round>>
    BY DEF ReadHash, ReadFileHash, HashAsked
  <1>2. /\ stamp \in [Path -> Readings] /\ hash \in [Path -> Readings] /\ seen \in [Path -> SUBSET Nat]
        /\ accuracy \in Steps \cup {Coarsest} /\ setting.grain <= accuracy /\ accuracy <= Coarsest
        /\ ReadAt(stamp, hash, seen, p) /\ SafeAt(stamp, seen, build, p) /\ f.version \in Nat
    BY BeforeRead
  <1>3. /\ r \in Readings /\ r.kind = (IF f.version = 0 THEN "absent" ELSE "file") /\ r.value = f.version
    BY <1>2 DEF HashOf, Readings, Absent, File
  <1> HIDE DEF f, r
  <1>4. /\ hash' \in [Path -> Readings] /\ hash'[p] = r /\ \A q \in Path : q # p => hash'[q] = hash[q]
        /\ seen' \in [Path -> SUBSET Nat] /\ seen'[p] = seen[p] \cup {f.version}
        /\ \A q \in Path : q # p => seen'[q] = seen[q]
    BY <1>1, <1>2, <1>3
  <1>5. RestInv(stamp', hash')
    <2>1. RestInv(stamp, hash)
      BY DEF SnapshotInv
    <2>2. f.version = 1 => r.kind = "file" /\ r.value = 1
      BY <1>3
    <2> QED
      BY <1>1, <1>4, <2>1, <2>2 DEF RestInv, f
  <1>6. ReadAt(stamp', hash', seen', p) /\ SafeAt(stamp', seen', build, p)
    BY <1>1, <1>2, <1>3, <1>4 DEF ReadAt, SafeAt
  <1>7. \A q \in Path : Stays(stamp[q], stamp'[q]) /\ Stays(hash[q], hash'[q])
    BY <1>1, <1>4 DEF Stays
  <1>8. \A q \in Path : q # p => stamp'[q] = stamp[q] /\ hash'[q] = hash[q] /\ seen'[q] = seen[q]
    BY <1>1, <1>4
  <1>9. Complete(Now, build, verdict, stamp', hash')
    BY <1>1, Zenon
  <1> QED
    BY <1>1, <1>2, <1>4, <1>5, <1>6, <1>7, <1>8, <1>9, ReadKeeps

\* HashFails keeps the invariant.
LEMMA HashFailsKeeps ==
    ASSUME SnapshotInv, NEW p \in Path, HashFails(p)
    PROVE  SnapshotInv'
  <1>1. /\ accuracy' = accuracy /\ stamp' = stamp /\ seen' = seen
        /\ mode \in {"hash", "both"} /\ hash[p] = Unread /\ hash' = [hash EXCEPT ![p] = Failed]
        /\ Complete(Now, build, verdict, stamp, hash') /\ UNCHANGED <<world, round>>
    BY DEF HashFails, ReadFileHash, HashAsked
  <1>2. /\ stamp \in [Path -> Readings] /\ hash \in [Path -> Readings] /\ seen \in [Path -> SUBSET Nat]
        /\ accuracy \in Steps \cup {Coarsest} /\ setting.grain <= accuracy /\ accuracy <= Coarsest
        /\ ReadAt(stamp, hash, seen, p) /\ SafeAt(stamp, seen, build, p)
    BY BeforeRead
  <1>3. Failed \in Readings /\ Failed.kind = "failed"
    BY DEF Readings, Failed
  <1>4. /\ hash' \in [Path -> Readings] /\ hash'[p] = Failed /\ \A q \in Path : q # p => hash'[q] = hash[q]
    BY <1>1, <1>2, <1>3
  <1>5. RestInv(stamp', hash')
    <2>1. RestInv(stamp, hash)
      BY DEF SnapshotInv
    <2> QED
      BY <1>1, <1>3, <1>4, <2>1 DEF RestInv
  <1>6. ReadAt(stamp', hash', seen', p) /\ SafeAt(stamp', seen', build, p)
    BY <1>1, <1>2, <1>3, <1>4 DEF ReadAt, SafeAt
  <1>7. \A q \in Path : Stays(stamp[q], stamp'[q]) /\ Stays(hash[q], hash'[q])
    BY <1>1, <1>4 DEF Stays
  <1>8. \A q \in Path : q # p => stamp'[q] = stamp[q] /\ hash'[q] = hash[q] /\ seen'[q] = seen[q]
    BY <1>1, <1>4
  <1>9. Complete(Now, build, verdict, stamp', hash')
    BY <1>1, Zenon
  <1> QED
    BY <1>1, <1>2, <1>5, <1>6, <1>7, <1>8, <1>9, ReadKeeps

\* Family is what is reached through the children.
LEMMA FamilyIsUnder ==
    ASSUME SnapsInv(snap), NEW s \in 1 .. Len(snap)
    PROVE  Family(s) = Under(snap, s)
  <1>1. DOMAIN KidsOf(snap) = 1 .. Len(snap) /\ Graph(KidsOf(snap)) /\ Acyclic(KidsOf(snap))
    BY KidsOfFacts
  <1>2. Family(s) = Below(KidsOf(snap), s)
    BY Zenon DEF Family, KidsOf
  <1>3. Below(KidsOf(snap), s) = Reach(KidsOf(snap), s)
    BY <1>1, BelowIsReach
  <1> QED
    BY <1>2, <1>3 DEF Under

\* A build of B is one of before, as far as its files go.
SameSource(B, b) ==
    /\ B[b].round = build[b].round /\ B[b].start = build[b].start /\ B[b].got = build[b].got
    /\ B[b].stage \in {"read", "capturing", "ready"} => build[b].stage \in {"read", "capturing", "ready"}
    /\ B[b].stage = "ready" => build[b].stage = "ready"

\* No file is read: a snapshot is made, or checked.
LEMMA CompleteKeeps ==
    ASSUME SnapshotInv, UNCHANGED <<world, round, caches>>,
           NEW o, NEW B, NEW V, NEW m \in Nat, m <= Len(snap),
           Whole(o, B, V, stamp, hash, m), Len(V) <= Len(snap),
           \A s \in 1 .. m : o.snap[s] = snap[s],
           Answered(snap, V, stamp, hash, m), Complete(o, B, V, stamp, hash),
           \A b \in Build : SameSource(B, b)
    PROVE  SnapshotInv'
  <1>1. UNCHANGED <<setting, clock, fsStartTime, disk, edits, round, accuracy, stamp, hash, seen>>
    BY DEF world, caches
  <1>2. DiskInv /\ clock \in Nat /\ SnapsInv(snap) /\ mode' = mode
    BY <1>1, SettingFacts DEF SnapshotInv, DiskInv, Sound, Shape, mode
  <1>3. /\ Shape(snap', entry', owner', m) /\ BuildInv(snap', build', verdict', m)
        /\ EntryInv(snap', m, stamp, hash) /\ VerdictInv(snap', verdict', m)
        /\ Answered(snap', verdict', stamp, hash, m) /\ Len(verdict') = Len(snap')
        /\ \A b \in Build :
              /\ build'[b].round = B[b].round /\ build'[b].start = B[b].start /\ build'[b].got = B[b].got
              /\ build'[b].stage \in {"read", "capturing", "ready"} => B[b].stage \in {"read", "capturing", "ready"}
              /\ build'[b].stage = "ready" /\ B[b].round < round => B[b].stage = "ready"
    BY <1>2, CompleteEffect
  <1>4. Sound(m)'
    <2>1. /\ Shape(snap', entry', owner', m) /\ BuildInv(snap', build', verdict', m)
          /\ EntryInv(snap', m, stamp', hash') /\ VerdictInv(snap', verdict', m)
          /\ Answered(snap', verdict', stamp', hash', m)
      BY <1>1, <1>3
    <2>2. /\ setting' = setting /\ round' = round /\ clock' \in Nat /\ clock <= clock'
          /\ \A q \in Path : disk'[q].version = 1 => disk'[q] = disk[q]
      BY <1>1, <1>2
    <2> QED
      BY <1>2, <2>1, <2>2, SoundNext
  <1>5. DiskInv'
    BY <1>1, <1>2 DEF DiskInv
  <1>6. RestInv(stamp, hash)'
    BY <1>1 DEF SnapshotInv, RestInv
  <1>7. SeenInv(stamp, hash, seen, build)'
    <2>1. SeenInv(stamp, hash, seen, build)
      BY DEF SnapshotInv
    <2>2. \A c \in Build : build'[c].stage = "ready" /\ build'[c].round < round =>
               /\ build[c].stage = "ready" /\ build[c].round = build'[c].round
               /\ build[c].start = build'[c].start /\ build[c].got = build'[c].got
      BY <1>3 DEF SameSource
    <2>3. SeenInv(stamp, hash, seen, build')
      BY <2>1, <2>2, SeenForBuilds
    <2> QED
      BY <1>1, <1>2, <2>3 DEF SeenInv, ReadAt, SafeAt
  <1>8. GotInv(build)'
    <2>1. GotInv(build)
      BY DEF SnapshotInv
    <2> QED
      BY <1>1, <1>3, <2>1 DEF GotInv, SameSource
  <1> QED
    BY <1>1, <1>3, <1>4, <1>5, <1>6, <1>7, <1>8 DEF SnapshotInv

\* CheckSnapshotValid keeps the invariant.
LEMMA CheckKeeps ==
    ASSUME SnapshotInv, NEW b \in Build, CheckSnapshotValid(b)
    PROVE  SnapshotInv'
  <1> DEFINE id == build[b].id
             asked == {s \in Family(id) : verdict[s] = "none"}
             V == [s \in 1 .. Len(snap) |-> IF s \in asked THEN "pending" ELSE verdict[s]]
  <1>1. /\ build[b].stage = "ready" /\ verdict[id] = "none" /\ UNCHANGED <<world, round, caches>>
        /\ Complete(Now, build, V, stamp, hash)
    BY DEF CheckSnapshotValid
  <1>2. PICK m \in Nat : Sound(m)
    BY DEF SnapshotInv
  <1>3. /\ Shape(snap, entry, owner, m) /\ BuildInv(snap, build, verdict, m) /\ SnapsInv(snap)
        /\ EntryInv(snap, m, stamp, hash) /\ VerdictInv(snap, verdict, m) /\ m <= Len(snap)
        /\ Answered(snap, verdict, stamp, hash, m) /\ Len(verdict) = Len(snap) /\ Len(snap) \in Nat
        /\ RestInv(stamp, hash)
    BY <1>2, KidsOfFacts DEF SnapshotInv, Sound, Shape
  <1>4. id \in 1 .. m
    <2>1. Complement(snap, verdict, build[b], Files(b), m)
      BY <1>1, <1>3 DEF BuildInv
    <2>2. id \in 1 .. Len(verdict) /\ (id <= m \/ verdict[id] = "valid")
      BY <2>1 DEF Complement
    <2> QED
      BY <1>1, <2>2
  <1> HIDE DEF id
  <1>5. asked \subseteq 1 .. m /\ \A s \in asked : verdict[s] = "none"
    <2>1. Closes(snap, m)
      BY <1>3 DEF Closes, Shape
    <2>2. id \in 1 .. Len(snap) /\ Under(snap, id) \subseteq 1 .. m
      BY <1>3, <1>4, <2>1, UnderBelow
    <2>3. Family(id) = Under(snap, id)
      BY <1>3, <2>2, FamilyIsUnder
    <2> QED
      BY <2>2, <2>3
  <1> HIDE DEF asked
  <1>6. verdict \in Seq(Verdicts) /\ \A s \in 1 .. Len(snap) : verdict[s] \in Verdicts
    BY <1>3, LenProperties DEF VerdictInv
  <1>7. \A s \in 1 .. Len(snap) : V[s] = IF s \in asked THEN "pending" ELSE verdict[s]
    OBVIOUS
  <1>8. V \in Seq(Verdicts) /\ Len(V) = Len(snap)
    <2>1. V \in [1 .. Len(snap) -> Verdicts]
      BY <1>6 DEF Verdicts
    <2> QED
      BY <1>3, <2>1, SeqDef, LenProperties
  <1> HIDE DEF V
  <1>9. VerdictInv(snap, V, m)
    <2>1. \A s \in (m + 1) .. Len(snap) : V[s] = verdict[s]
      <3>1. \A s \in (m + 1) .. Len(snap) : s \in 1 .. Len(snap) /\ s \notin asked
        BY <1>3, <1>5
      <3> QED
        BY <1>7, <3>1
    <2> QED
      BY <1>3, <1>8, <2>1 DEF VerdictInv
  <1>10. BuildInv(snap, build, V, m)
    <2>1. ASSUME NEW c \in Build, build[c].stage = "ready" PROVE Complement(snap, V, build[c], Files(c), m)
      <3>1. Complement(snap, verdict, build[c], Files(c), m)
        BY <1>3, <2>1 DEF BuildInv
      <3>2. build[c].id \in 1 .. Len(snap) /\ (build[c].id <= m \/ verdict[build[c].id] = "valid")
        BY <1>3, <3>1 DEF Complement
      <3>3. build[c].id <= m \/ V[build[c].id] = "valid"
        BY <1>5, <1>7, <3>2
      <3> QED
        BY <1>8, <3>1, <3>2, <3>3 DEF Complement
    <2> QED
      BY <1>3, <2>1 DEF BuildInv
  <1>11. Answered(snap, V, stamp, hash, m)
    <2>1. \A s \in 1 .. m : V[s] \in {"valid", "invalid"} => V[s] = verdict[s]
      <3>1. \A s \in 1 .. m : s \in 1 .. Len(snap)
        BY <1>3
      <3> QED
        BY <1>7, <3>1
    <2> QED
      BY <1>3, <2>1 DEF Answered
  <1>12. PICK o : o = Now
    OBVIOUS
  <1>13. o.snap = snap /\ o.entry = entry /\ o.owner = owner
    BY <1>12 DEF Now
  <1>14. /\ Whole(o, build, V, stamp, hash, m) /\ Complete(o, build, V, stamp, hash)
         /\ \A s \in 1 .. m : o.snap[s] = snap[s]
    BY <1>1, <1>3, <1>9, <1>10, <1>12, <1>13 DEF Whole
  <1>15. \A c \in Build : SameSource(build, c)
    BY DEF SameSource
  <1>16. Len(V) <= Len(snap)
    BY <1>3, <1>8
  <1> QED
    BY <1>1, <1>3, <1>11, <1>14, <1>15, <1>16, CompleteKeeps

\* A new snapshot, not complete and without children.
Blank(x) == x \in SnapType /\ x.own = <<>> /\ x.kids = {} /\ ~ x.ready /\ x.start > 0

\* A new, empty snapshot changes no other.
LEMMA BlankSnap ==
    ASSUME NEW S, SnapsInv(S), NEW x, Blank(x), NEW R, R = Append(S, x)
    PROVE  /\ SnapsInv(R) /\ Len(R) = Len(S) + 1 /\ R[Len(S) + 1] = x /\ \A s \in 1 .. Len(S) : R[s] = S[s]
           /\ \A s \in 1 .. Len(S) : \A p, y : Holds(R, s, p, y) <=> Holds(S, s, p, y)
           /\ Covers(R, Len(S) + 1) = {}
  <1>1. /\ Len(S) \in Nat /\ DOMAIN KidsOf(S) = 1 .. Len(S) /\ Graph(KidsOf(S)) /\ Acyclic(KidsOf(S))
        /\ \A s \in 1 .. Len(S) : KidsOf(S)[s] = S[s].kids
        /\ S \in Seq(SnapType) /\ x \in SnapType
    BY KidsOfFacts DEF SnapsInv, Blank
  <1>2. /\ R \in Seq(SnapType) /\ Len(R) = Len(S) + 1 /\ R[Len(S) + 1] = x /\ \A s \in 1 .. Len(S) : R[s] = S[s]
    BY <1>1, AppendProperties
  <1> DEFINE n == Len(S) + 1
             K == KidsOf(S)
             L == KidsOf(R)
  <1>3. x.own = <<>> /\ x.kids = {} /\ ~ x.ready /\ x.start > 0 /\ DOMAIN x.own = {}
    BY DEF Blank
  <1>4. NewLeaf(K, L, {}, n)
    <2>1. DOMAIN L = 1 .. Len(R) /\ \A s \in 1 .. Len(R) : L[s] = R[s].kids
      BY DEF KidsOf
    <2>2. 1 .. Len(R) = (1 .. Len(S)) \cup {n} /\ n \notin 1 .. Len(S)
      BY <1>1, <1>2
    <2> HIDE DEF n, K, L
    <2> QED
      BY <1>1, <1>2, <1>3, <2>1, <2>2 DEF NewLeaf, K, n
  <1>5. /\ Graph(L) /\ Reach(L, n) = {n} /\ Acyclic(L)
        /\ \A s \in DOMAIN K : Reach(L, s) = Reach(K, s)
    <2>1. /\ Graph(L) /\ Reach(L, n) = {n}
          /\ \A s \in DOMAIN K : Reach(L, s) = Reach(K, s) \cup {z \in {n} : Reach(K, s) \cap {} # {}}
          /\ Acyclic(K) => Acyclic(L)
      BY <1>4, NewLeafReach
    <2> HIDE DEF n, K, L
    <2>2. \A s : {z \in {n} : Reach(K, s) \cap {} # {}} = {}
      OBVIOUS
    <2>3. \A s \in DOMAIN K : Reach(L, s) = Reach(K, s)
      BY <2>1, <2>2
    <2> QED
      BY <1>1, <2>1, <2>3 DEF K
  <1>6. Under(R, n) = {n} /\ \A s \in 1 .. Len(S) : Under(R, s) = Under(S, s) /\ Under(S, s) \subseteq 1 .. Len(S)
    BY <1>1, <1>5, UnderFacts DEF Under
  <1>7. ASSUME NEW s \in 1 .. Len(S), NEW p, NEW y PROVE Holds(R, s, p, y) <=> Holds(S, s, p, y)
    BY <1>2, <1>6 DEF Holds
  <1>8. Covers(R, n) = {}
    BY <1>2, <1>3, <1>6 DEF Covers
  <1>9. \A s \in 1 .. Len(R) : s \in 1 .. Len(S) \/ s = n
    BY <1>1, <1>2
  <1>10. SnapsInv(R)
    <2>1. \A s \in 1 .. Len(S) : S[s].kids \subseteq 1 .. Len(S) /\ \A k \in S[s].kids : S[k].ready
      BY DEF SnapsInv
    <2>2. \A s \in 1 .. Len(R) : R[s].kids \subseteq 1 .. Len(R)
      <3>1. 1 .. Len(S) \subseteq 1 .. Len(R)
        BY <1>1, <1>2
      <3> QED
        BY <1>2, <1>3, <1>9, <2>1, <3>1
    <2>3. \A s \in 1 .. Len(R) : \A k \in R[s].kids : R[k].ready
      BY <1>2, <1>3, <1>9, <2>1
    <2>4. \A s \in 1 .. Len(R) : ~ R[s].ready => DOMAIN R[s].own = {}
      BY <1>2, <1>3, <1>9 DEF SnapsInv
    <2>5. ASSUME UsesStart, NEW s \in 1 .. Len(R)
          PROVE  R[s].start > 0 /\ \A k \in R[s].kids : R[k].start <= R[s].start
      <3>1. \A u \in 1 .. Len(S) : S[u].start > 0 /\ \A k \in S[u].kids : S[k].start <= S[u].start
        BY <2>5 DEF SnapsInv
      <3> QED
        BY <1>2, <1>3, <1>9, <2>1, <3>1
    <2> QED
      BY <1>2, <1>5, <2>2, <2>3, <2>4, <2>5 DEF SnapsInv
  <1> QED
    BY <1>2, <1>7, <1>8, <1>10

OneMore(S, R) ==
    /\ SnapsInv(R) /\ Len(R) = Len(S) + 1 /\ R[Len(S) + 1].kids = {}
    /\ \A s \in 1 .. Len(S) : R[s] = S[s]
    /\ \A s \in 1 .. Len(S) : \A p, y : Holds(R, s, p, y) <=> Holds(S, s, p, y)
WithBlank(E, F) == F = Append(E, NoEntry)

\* A new, empty optimization entry changes no other.
LEMMA BlankEntry ==
    ASSUME NEW S, SnapsInv(S), NEW E, EntriesInv(S, E), NEW R, OneMore(S, R), NEW F, WithBlank(E, F)
    PROVE  EntriesInv(R, F) /\ \A s \in 1 .. Len(S) : F[s] = E[s]
  <1>0. /\ SnapsInv(R) /\ Len(R) = Len(S) + 1 /\ R[Len(S) + 1].kids = {}
        /\ \A s \in 1 .. Len(S) : R[s] = S[s]
        /\ \A s \in 1 .. Len(S) : \A p, y : Holds(R, s, p, y) <=> Holds(S, s, p, y)
    BY DEF OneMore
  <1>1. Len(S) \in Nat /\ Len(E) = Len(S) /\ E \in Seq(EntryType)
    BY KidsOfFacts DEF EntriesInv
  <1>2. NoEntry \in EntryType /\ NoEntry.shared = 0 /\ NoEntry.kids = {}
    BY DEF NoEntry, EntryType
  <1>3. /\ F \in Seq(EntryType) /\ Len(F) = Len(E) + 1 /\ F[Len(E) + 1] = NoEntry
        /\ \A s \in 1 .. Len(E) : F[s] = E[s]
    BY <1>1, <1>2, AppendProperties DEF WithBlank
  <1>4. \A s \in 1 .. Len(F) : s \in 1 .. Len(S) \/ s = Len(S) + 1
    BY <1>1, <1>3
  <1>5. \A s \in 1 .. Len(F) : F[s].kids \subseteq R[s].kids
    BY <1>0, <1>1, <1>2, <1>3, <1>4 DEF EntriesInv
  <1>6. ASSUME NEW s \in 1 .. Len(F), F[s].shared > 0
        PROVE  /\ R[s].ready /\ F[s].content = Covers(R, s)
               /\ \A k \in F[s].kids : F[k].shared > 0
    <2>1. s \in 1 .. Len(S)
      BY <1>1, <1>2, <1>3, <1>4, <1>6
    <2>2. /\ S[s].ready /\ E[s].content = Covers(S, s) /\ E[s].kids \subseteq S[s].kids
          /\ \A k \in E[s].kids : E[k].shared > 0
      BY <1>1, <1>3, <1>6, <2>1 DEF EntriesInv
    <2>3. Covers(R, s) = Covers(S, s)
      BY <1>0, <2>1, CoversHolds
    <2>4. S[s].kids \subseteq 1 .. Len(S)
      BY <2>1 DEF SnapsInv
    <2> QED
      BY <1>0, <1>1, <1>3, <2>1, <2>2, <2>3, <2>4
  <1> QED
    BY <1>0, <1>1, <1>3, <1>5, <1>6 DEF EntriesInv

\* Where optimize() begins.
LEMMA OptimizeBegins ==
    ASSUME NEW m \in Nat, Shape(snap, entry, owner, m), NEW x, Blank(x), NEW files \in SUBSET Path,
           NEW o, IsOpt(o), o.snap = Append(snap, x), o.entry = Append(entry, NoEntry),
           o.owner = owner, o.left = files
    PROVE  OptInv(o, snap, m, x.start, files) /\ \A p \in Path : o.owner[p] <= Len(snap)
  <1>1. /\ SnapsInv(snap) /\ EntriesInv(snap, entry) /\ owner \in [Path -> Nat] /\ m \in 0 .. Len(snap)
        /\ \A p \in Path : owner[p] = 0 \/ owner[p] \in (m + 1) .. Len(snap)
        /\ \A s \in 1 .. m : entry[s].shared = 0
        /\ \A s \in (m + 1) .. Len(snap) : snap[s].kids \subseteq (m + 1) .. Len(snap)
    BY DEF Shape
  <1>2. Len(snap) \in Nat
    BY <1>1, KidsOfFacts
  <1> DEFINE n == Len(snap) + 1
  <1>3. /\ SnapsInv(o.snap) /\ Len(o.snap) = n /\ o.snap[n] = x /\ \A s \in 1 .. Len(snap) : o.snap[s] = snap[s]
        /\ \A s \in 1 .. Len(snap) : \A p, y : Holds(o.snap, s, p, y) <=> Holds(snap, s, p, y)
        /\ Covers(o.snap, n) = {}
    BY <1>1, BlankSnap
  <1>4. x.kids = {} /\ DOMAIN x.own = {} /\ ~ x.ready
    BY DEF Blank
  <1>5. EntriesInv(o.snap, o.entry) /\ \A s \in 1 .. Len(snap) : o.entry[s] = entry[s]
    <2> DEFINE R == o.snap
               F == o.entry
    <2>1. /\ SnapsInv(R) /\ Len(R) = Len(snap) + 1 /\ R[Len(snap) + 1].kids = {} /\ F = Append(entry, NoEntry)
          /\ \A s \in 1 .. Len(snap) : R[s] = snap[s]
      BY <1>3, <1>4
    <2>2. \A s \in 1 .. Len(snap) : \A p, y : Holds(R, s, p, y) <=> Holds(snap, s, p, y)
      BY <1>3
    <2> HIDE DEF R, F, n
    <2>3. EntriesInv(R, F) /\ \A s \in 1 .. Len(snap) : F[s] = entry[s]
      <3>1. OneMore(snap, R)
        BY <2>1, <2>2 DEF OneMore
      <3>2. WithBlank(entry, F)
        BY <2>1 DEF WithBlank
      <3> QED
        BY <1>1, <3>1, <3>2, BlankEntry
    <2> QED
      BY <2>3 DEF R, F
  <1>6. o \in OptType
    <2>1. o.snap \in Seq(SnapType) /\ o.entry \in Seq(EntryType)
      BY <1>3, <1>5 DEF SnapsInv, EntriesInv
    <2> QED
      BY <1>1, <2>1 DEF IsOpt, OptType
  <1>7. /\ (m + 1) .. Len(snap) \subseteq (m + 1) .. n
        /\ \A s \in (m + 1) .. n : (s \in (m + 1) .. Len(snap) /\ s \in 1 .. Len(snap)) \/ s = n
        /\ \A s \in 1 .. m : s \in 1 .. Len(snap)
    BY <1>1, <1>2
  <1> HIDE DEF n
  <1>8. \A p \in Path : o.owner[p] = 0 \/ o.owner[p] \in (m + 1) .. n
    BY <1>1, <1>7
  <1>9. \A s \in (m + 1) .. n : o.snap[s].kids \subseteq (m + 1) .. n
    <2> SUFFICES ASSUME NEW s \in (m + 1) .. n PROVE o.snap[s].kids \subseteq (m + 1) .. n
      OBVIOUS
    <2>1. CASE s = n
      BY <1>3, <1>4, <2>1
    <2>2. CASE s # n
      <3>1. o.snap[s] = snap[s] /\ snap[s].kids \subseteq (m + 1) .. Len(snap)
        BY <1>1, <1>3, <1>7, <2>2
      <3> QED
        BY <1>7, <3>1
    <2> QED
      BY <2>1, <2>2
  <1>10. \A s \in (m + 1) .. n : \A p \in DOMAIN o.snap[s].own :
            \E t \in (m + 1) .. Len(snap) : p \in DOMAIN snap[t].own /\ snap[t].own[p] = o.snap[s].own[p]
    <2> SUFFICES ASSUME NEW s \in (m + 1) .. n, NEW p \in DOMAIN o.snap[s].own
                 PROVE  \E t \in (m + 1) .. Len(snap) : p \in DOMAIN snap[t].own /\ snap[t].own[p] = o.snap[s].own[p]
      OBVIOUS
    <2>1. s # n
      BY <1>3, <1>4
    <2>2. s \in (m + 1) .. Len(snap) /\ o.snap[s] = snap[s]
      BY <1>3, <1>7, <2>1
    <2> QED
      BY <2>2
  <1>11. \A s \in 1 .. m : o.snap[s] = snap[s] /\ o.entry[s].shared = 0
    BY <1>1, <1>3, <1>5, <1>7
  <1>12. \A s \in 1 .. Len(snap) :
              /\ o.snap[s].start = snap[s].start /\ o.snap[s].ready = snap[s].ready
              /\ \A p, y : Holds(o.snap, s, p, y) <=> Holds(snap, s, p, y)
    BY <1>3
  <1>13. o.snap[n].start = x.start /\ ~ o.snap[n].ready /\ Covers(o.snap, n) \cup o.left = files
    BY <1>3, <1>4
  <1>14. n <= Len(o.snap) /\ Len(o.snap) = n
    BY <1>2, <1>3 DEF n
  <1>15. OptInv(o, snap, m, x.start, files)
    BY <1>3, <1>5, <1>6, <1>8, <1>9, <1>10, <1>11, <1>12, <1>13, <1>14, Zenon DEF OptInv, n
  <1>16. \A p \in Path : o.owner[p] <= Len(snap)
    BY <1>1, <1>2
  <1> QED
    BY <1>15, <1>16

\* What optimize() leaves, for the builds and the entries.
LEMMA OptimizedWhole ==
    ASSUME NEW m \in Nat, Sound(m), RestInv(stamp, hash), Len(verdict) = Len(snap), round \in Nat,
           NEW b \in Build, NEW o, OptInv(o, snap, m, build[b].start, Files(b)),
           build[b].stage = "read", NEW y,
           y = [build[b] EXCEPT !.stage = "capturing", !.id = Len(snap) + 1, !.want = o.left],
           NEW B, B = [build EXCEPT ![b] = y]
    PROVE  /\ Whole(o, B, verdict, stamp, hash, m) /\ \A s \in 1 .. m : o.snap[s] = snap[s]
           /\ \A c \in Build : SameSource(B, c)
  <1> DEFINE n == Len(snap) + 1
             S == o.snap
  <1>1. /\ SnapsInv(snap) /\ EntryInv(snap, m, stamp, hash) /\ VerdictInv(snap, verdict, m)
        /\ BuildInv(snap, build, verdict, m) /\ m \in 0 .. Len(snap)
        /\ \A s \in 1 .. m : snap[s].kids \subseteq 1 .. m
        /\ Len(snap) \in Nat
    BY KidsOfFacts DEF Sound, Shape
  <1>2. /\ o \in OptType /\ SnapsInv(S) /\ EntriesInv(S, o.entry) /\ n <= Len(S)
        /\ \A p \in Path : o.owner[p] = 0 \/ o.owner[p] \in (m + 1) .. Len(S)
        /\ \A s \in 1 .. m : S[s] = snap[s] /\ o.entry[s].shared = 0
        /\ \A s \in (m + 1) .. Len(S) : S[s].kids \subseteq (m + 1) .. Len(S)
    BY DEF OptInv
  <1>3. /\ \A s \in 1 .. Len(snap) : S[s].start = snap[s].start /\ S[s].ready = snap[s].ready
        /\ \A s \in 1 .. Len(snap) : \A p, x : Holds(S, s, p, x) <=> Holds(snap, s, p, x)
        /\ \A s \in (m + 1) .. Len(S) : \A p \in DOMAIN S[s].own :
              \E t \in (m + 1) .. Len(snap) : p \in DOMAIN snap[t].own /\ snap[t].own[p] = S[s].own[p]
        /\ S[n].start = build[b].start /\ ~ S[n].ready /\ Covers(S, n) \cup o.left = Files(b)
    BY DEF OptInv
  <1>4. Len(S) \in Nat /\ n \in (m + 1) .. Len(S) /\ n \in Nat
    <2>1. Len(S) \in Nat
      BY <1>2, KidsOfFacts
    <2> QED
      BY <1>1, <1>2, <2>1
  <1>5. \A s \in 1 .. Len(snap) : Covers(S, s) = Covers(snap, s)
    <2> SUFFICES ASSUME NEW s \in 1 .. Len(snap) PROVE Covers(S, s) = Covers(snap, s)
      OBVIOUS
    <2>1. \A p, x : Holds(S, s, p, x) <=> Holds(snap, s, p, x)
      BY <1>3
    <2> QED
      BY <2>1, CoversHolds
  <1> HIDE DEF S
  <1>6. Shape(S, o.entry, o.owner, m)
    <2>1. o.owner \in [Path -> Nat]
      BY <1>2 DEF OptType
    <2>2. m \in 0 .. Len(S)
      BY <1>1, <1>2, <1>4
    <2>3. \A s \in 1 .. m : S[s].kids \subseteq 1 .. m /\ o.entry[s].shared = 0
      BY <1>1, <1>2
    <2> QED
      BY <1>2, <2>1, <2>2, <2>3 DEF Shape
  <1>7. /\ build \in [Build -> BuildType]
        /\ \A c \in Build :
              /\ build[c].stage # "none" => 0 < build[c].start /\ build[c].start <= clock /\ build[c].round <= round
              /\ build[c].stage \in {"started", "read", "capturing"} => build[c].round = round
              /\ build[c].stage = "capturing" => Capture(snap, build[c], Files(c), m)
              /\ build[c].stage = "ready" => Complement(snap, verdict, build[c], Files(c), m)
        /\ \A c, d \in Build : build[c].stage = "capturing" /\ build[d].stage = "capturing" /\ build[c].id = build[d].id => c = d
    BY <1>1 DEF BuildInv
  <1>8. /\ y.stage = "capturing" /\ y.id = n /\ y.want = o.left
        /\ y.round = build[b].round /\ y.start = build[b].start /\ y.got = build[b].got
    BY <1>7 DEF BuildType
  <1>9. y \in BuildType
    <2>1. o.left \in SUBSET Path /\ "capturing" \in Stages /\ n \in Nat
      BY <1>2, <1>4 DEF OptType, Stages
    <2>2. build[b] \in BuildType
      BY <1>7
    <2> QED
      BY <2>1, <2>2 DEF BuildType
  <1>10. B \in [Build -> BuildType] /\ B[b] = y /\ \A c \in Build : c # b => B[c] = build[c]
    BY <1>7, <1>9
  <1>11. Capture(S, y, Files(b), m)
    BY <1>3, <1>4, <1>8 DEF Capture
  <1>12. ASSUME NEW c \in Build, build[c].stage = "capturing"
         PROVE  Capture(S, build[c], Files(c), m) /\ build[c].id # n
    <2>1. Capture(snap, build[c], Files(c), m)
      BY <1>7, <1>12
    <2>2. build[c].id \in (m + 1) .. Len(snap) /\ build[c].id \in 1 .. Len(snap)
      BY <1>1, <2>1 DEF Capture
    <2>3. build[c].id \in (m + 1) .. Len(S) /\ build[c].id # n
      BY <1>1, <1>2, <1>4, <2>2
    <2> QED
      BY <1>3, <1>5, <2>1, <2>2, <2>3 DEF Capture
  <1>13. ASSUME NEW c \in Build, build[c].stage = "ready"
         PROVE  Complement(S, verdict, build[c], Files(c), m)
    <2>1. Complement(snap, verdict, build[c], Files(c), m)
      BY <1>7, <1>13
    <2>2. build[c].id \in 1 .. Len(snap)
      BY <2>1 DEF Complement
    <2> QED
      BY <1>3, <1>5, <2>1, <2>2 DEF Complement
  <1> HIDE DEF n
  <1>14. BuildInv(S, B, verdict, m)
    <2>1. ASSUME NEW c \in Build
          PROVE  /\ B[c].stage # "none" => 0 < B[c].start /\ B[c].start <= clock /\ B[c].round <= round
                 /\ B[c].stage \in {"started", "read", "capturing"} => B[c].round = round
                 /\ B[c].stage = "capturing" => Capture(S, B[c], Files(c), m)
                 /\ B[c].stage = "ready" => Complement(S, verdict, B[c], Files(c), m)
      <3>1. CASE c = b
        BY <1>7, <1>8, <1>10, <1>11, <3>1
      <3>2. CASE c # b
        BY <1>7, <1>10, <1>12, <1>13, <3>2
      <3> QED
        BY <3>1, <3>2
    <2>2. ASSUME NEW c \in Build, NEW d \in Build, B[c].stage = "capturing", B[d].stage = "capturing", B[c].id = B[d].id
          PROVE  c = d
      BY <1>7, <1>8, <1>10, <1>12, <2>2
    <2> QED
      BY <1>10, <2>1, <2>2 DEF BuildInv
  <1>15. EntryInv(S, m, stamp, hash)
    <2> SUFFICES ASSUME NEW s \in 1 .. Len(S), NEW p \in DOMAIN S[s].own
                 PROVE  /\ s > m => S[s].own[p] = EntryOf(stamp[p], hash[p]) /\ Needed(stamp[p], hash[p]) \cap {Unread, Failed} = {}
                        /\ mode = "both" => S[s].own[p].stamp.kind # "absent"
                        /\ disk[p].version = 1 /\ mode # "hash" =>
                              S[s].own[p].stamp.kind = "file" /\ S[s].own[p].stamp.value = disk[p].mtime
                        /\ disk[p].version = 1 /\ mode \in {"hash", "both"} =>
                              S[s].own[p].hash.kind = "file" /\ S[s].own[p].hash.value = 1
      BY DEF EntryInv
    <2>1. CASE s <= m
      <3>1. s \in 1 .. m /\ s \in 1 .. Len(snap) /\ ~ (s > m)
        BY <1>1, <2>1
      <3>2. S[s] = snap[s]
        BY <1>2, <3>1
      <3> QED
        BY <1>1, <3>1, <3>2 DEF EntryInv
    <2>2. CASE ~ (s <= m)
      <3>1. s \in (m + 1) .. Len(S)
        BY <1>4, <2>2
      <3>2. PICK t \in (m + 1) .. Len(snap) : p \in DOMAIN snap[t].own /\ snap[t].own[p] = S[s].own[p]
        BY <1>3, <3>1
      <3>3. t \in 1 .. Len(snap) /\ t > m
        BY <3>2
      <3>4. /\ snap[t].own[p] = EntryOf(stamp[p], hash[p]) /\ Needed(stamp[p], hash[p]) \cap {Unread, Failed} = {}
            /\ mode = "both" => snap[t].own[p].stamp.kind # "absent"
            /\ disk[p].version = 1 /\ mode # "hash" =>
                  snap[t].own[p].stamp.kind = "file" /\ snap[t].own[p].stamp.value = disk[p].mtime
            /\ disk[p].version = 1 /\ mode \in {"hash", "both"} =>
                  snap[t].own[p].hash.kind = "file" /\ snap[t].own[p].hash.value = 1
        BY <1>1, <3>2, <3>3 DEF EntryInv
      <3> QED
        BY <3>2, <3>4
    <2> QED
      BY <2>1, <2>2
  <1>16. VerdictInv(S, verdict, m)
    BY <1>1, <1>2, <1>4 DEF VerdictInv, n
  <1>17. Whole(o, B, verdict, stamp, hash, m)
    BY <1>6, <1>14, <1>15, <1>16 DEF Whole, S
  <1>18. \A c \in Build : SameSource(B, c)
    <2> SUFFICES ASSUME NEW c \in Build PROVE SameSource(B, c)
      OBVIOUS
    <2>1. CASE c = b
      BY <1>8, <1>10, <2>1 DEF SameSource
    <2>2. CASE c # b
      BY <1>10, <2>2 DEF SameSource
    <2> QED
      BY <2>1, <2>2
  <1> QED
    BY <1>2, <1>17, <1>18 DEF S

\* CreateSnapshot keeps the invariant.
LEMMA CreateKeeps ==
    ASSUME SnapshotInv, NEW b \in Build, CreateSnapshot(b)
    PROVE  SnapshotInv'
  <1> DEFINE n == Len(snap) + 1
             x == [start |-> build[b].start, own |-> <<>>, kids |-> {}, ready |-> FALSE]
             o0 == [Now EXCEPT !.snap = Append(@, x), !.entry = Append(@, NoEntry), !.left = Files(b)]
             o == Optimize(o0, n, Captures[b])
             y == [build[b] EXCEPT !.stage = "capturing", !.id = n, !.want = o.left]
             B == [build EXCEPT ![b] = y]
  <1>1. PICK m \in Nat : Sound(m)
    BY DEF SnapshotInv
  <1>2. /\ build[b].stage = "read" /\ UNCHANGED <<world, round, caches>>
    BY DEF CreateSnapshot
  <1>3. Complete(o, B, verdict, stamp, hash)
    <2>1. B = [build EXCEPT ![b] = [@ EXCEPT !.stage = "capturing", !.id = n, !.want = o.left]]
      OBVIOUS
    <2> QED
      BY <2>1, Zenon DEF CreateSnapshot
  <1>4. /\ Shape(snap, entry, owner, m) /\ SnapsInv(snap) /\ Len(snap) \in Nat /\ m <= Len(snap)
        /\ Answered(snap, verdict, stamp, hash, m) /\ Len(verdict) = Len(snap) /\ RestInv(stamp, hash)
        /\ build \in [Build -> BuildType] /\ 0 < build[b].start
    BY <1>1, <1>2, KidsOfFacts DEF SnapshotInv, Sound, Shape, BuildInv
  <1>5. round \in Nat /\ Captures[b] \in Seq(Path) /\ Files(b) \in SUBSET Path /\ Files(b) = ToSet(Captures[b])
    BY SettingFacts DEF SnapshotInv, DiskInv, Files
  <1>6. Blank(x) /\ x.start = build[b].start
    <2>1. build[b].start \in Nat
      BY <1>4 DEF BuildType
    <2>2. <<>> \in [{} -> Kept] /\ {} \in SUBSET Path
      OBVIOUS
    <2>3. <<>> \in Owns
      BY <2>2 DEF Owns
    <2> QED
      BY <1>4, <2>1, <2>3 DEF Blank, SnapType
  <1> HIDE DEF x
  <1>7. /\ IsOpt(o0) /\ o0.snap = Append(snap, x) /\ o0.entry = Append(entry, NoEntry)
        /\ o0.owner = owner /\ o0.left = Files(b)
    <2> DEFINE z == Now
    <2>1. IsOpt(z) /\ z.snap = snap /\ z.entry = entry /\ z.owner = owner
      BY DEF Now, IsOpt
    <2>2. o0 = [z EXCEPT !.snap = Append(z.snap, x), !.entry = Append(z.entry, NoEntry), !.left = Files(b)]
      OBVIOUS
    <2> HIDE DEF o0, z
    <2> QED
      BY <2>1, <2>2 DEF IsOpt
  <1> HIDE DEF o0
  <1>8. OptInv(o0, snap, m, build[b].start, ToSet(Captures[b])) /\ \A p \in Path : o0.owner[p] <= Len(snap)
    BY <1>4, <1>5, <1>6, <1>7, OptimizeBegins
  <1>9. OptInv(o, snap, m, build[b].start, ToSet(Captures[b]))
    BY <1>4, <1>5, <1>8, OptimizeKeeps
  <1>a. OptInv(o, snap, m, build[b].start, Files(b))
    BY <1>5, <1>9
  <1> HIDE DEF o
  <1>b. y = [build[b] EXCEPT !.stage = "capturing", !.id = Len(snap) + 1, !.want = o.left]
    OBVIOUS
  <1> HIDE DEF y
  <1>c. B = [build EXCEPT ![b] = y]
    OBVIOUS
  <1> HIDE DEF B
  <1>d. /\ Whole(o, B, verdict, stamp, hash, m) /\ \A s \in 1 .. m : o.snap[s] = snap[s]
        /\ \A c \in Build : SameSource(B, c)
    BY <1>1, <1>2, <1>4, <1>5, <1>a, <1>b, <1>c, OptimizedWhole
  <1>e. Len(verdict) <= Len(snap)
    BY <1>4
  <1> QED
    BY <1>2, <1>3, <1>4, <1>d, <1>e, CompleteKeeps

\* The invariant holds at first.
LEMMA SnapshotInitially ==
    ASSUME SnapshotInit
    PROVE  SnapshotInv
  <1>1. /\ setting \in Settings /\ disk = [p \in Path |-> [version |-> 1, mtime |-> setting.old[p]]]
        /\ clock = FirstTime /\ fsStartTime = FirstTime /\ edits = 0 /\ accuracy = Coarsest /\ round = 1
        /\ stamp = [p \in Path |-> Unread] /\ hash = [p \in Path |-> Unread] /\ seen = [p \in Path |-> {}]
        /\ snap = <<>> /\ verdict = <<>> /\ entry = <<>>
        /\ owner = [p \in Path |-> 0] /\ build = [b \in Build |-> NoBuild]
    BY DEF SnapshotInit
  <1>2. /\ setting.grain <= Coarsest /\ setting.old \in [Path -> Nat \ {0}] /\ Coarsest \in Nat \ {0}
        /\ FirstTime \in Nat \ {0} /\ LastTime \in Nat /\ FirstTime <= LastTime
        /\ \A p \in Path : setting.old[p] % setting.grain = 0
    BY <1>1, SettingFacts, FileSystemAssumption
  <1>3. DiskInv
    <2>1. \A p \in Path : setting.old[p] \in Nat
      BY <1>2
    <2>2. /\ disk \in [Path -> [version : Nat, mtime : Nat]]
          /\ \A p \in Path : disk[p].version = 1 /\ disk[p].mtime = setting.old[p]
      BY <1>1, <2>1
    <2> QED
      BY <1>1, <1>2, <2>2 DEF DiskInv
  <1>4. /\ stamp \in [Path -> Readings] /\ hash \in [Path -> Readings]
        /\ \A p \in Path : stamp[p].kind = "unread" /\ hash[p].kind = "unread" /\ seen[p] = {}
    BY <1>1 DEF Readings, Unread
  <1>5. RestInv(stamp, hash) /\ SeenInv(stamp, hash, seen, build) /\ seen \in [Path -> SUBSET Nat]
    BY <1>1, <1>4 DEF RestInv, SeenInv, ReadAt, SafeAt
  <1>6. build \in [Build -> BuildType] /\ \A b \in Build : build[b].stage = "none"
    <2>1. NoBuild \in BuildType /\ NoBuild.stage = "none"
      <3>1. 0 \in Nat /\ Started(0, 0) = Started(0, 0)
        OBVIOUS
      <3> QED
        BY <3>1, NoBuildType
    <2> QED
      BY <1>1, <2>1
  <1>7. GotInv(build)
    BY <1>6 DEF GotInv
  <1>8. Len(snap) = 0 /\ Len(verdict) = 0 /\ Len(entry) = 0 /\ 1 .. 0 = {}
    BY <1>1
  <1>9. Sound(0)
    <2>1. SnapsInv(snap)
      <3>1. snap \in Seq(SnapType)
        BY <1>1
      <3>2. Acyclic(KidsOf(snap))
        BY <1>8 DEF Acyclic, KidsOf
      <3> QED
        BY <1>8, <3>1, <3>2 DEF SnapsInv
    <2>2. EntriesInv(snap, entry)
      BY <1>1, <1>8 DEF EntriesInv
    <2>3. Shape(snap, entry, owner, 0)
      <3>1. owner \in [Path -> Nat] /\ \A p \in Path : owner[p] = 0
        BY <1>1
      <3>2. 0 \in 0 .. Len(snap) /\ (0 + 1) .. Len(snap) = {}
        BY <1>8
      <3> QED
        BY <1>8, <2>1, <2>2, <3>1, <3>2 DEF Shape
    <2>4. BuildInv(snap, build, verdict, 0)
      BY <1>6 DEF BuildInv
    <2>5. EntryInv(snap, 0, stamp, hash)
      BY <1>8 DEF EntryInv
    <2>6. VerdictInv(snap, verdict, 0)
      <3>1. verdict \in Seq(Verdicts) /\ (0 + 1) .. Len(verdict) = {}
        BY <1>1, <1>8
      <3> QED
        BY <1>8, <3>1 DEF VerdictInv
    <2>7. Answered(snap, verdict, stamp, hash, 0)
      BY <1>8 DEF Answered
    <2> QED
      BY <2>3, <2>4, <2>5, <2>6, <2>7 DEF Sound
  <1> QED
    BY <1>3, <1>5, <1>7, <1>8, <1>9 DEF SnapshotInv

\* Every step keeps the invariant.
LEMMA SnapshotStep ==
    ASSUME SnapshotInv, [SnapshotNext]_snapshotVars
    PROVE  SnapshotInv'
  <1>1. CASE Tick
    <2>1. clock < LastTime /\ clock' = clock + 1 /\ UNCHANGED <<setting, fsStartTime, disk, edits, round, caches, snapshots>>
      BY <1>1 DEF Tick
    <2> QED
      BY <2>1, TimeKeeps
  <1>2. CASE NextCompilation
    BY <1>2, NextKeeps
  <1>3. ASSUME NEW b \in Build, Begin(b) PROVE SnapshotInv'
    BY <1>3, BeginKeeps
  <1>4. ASSUME NEW b \in Build, ReadFiles(b) PROVE SnapshotInv'
    BY <1>4, ReadFilesKeeps
  <1>5. ASSUME NEW b \in Build, CreateSnapshot(b) PROVE SnapshotInv'
    BY <1>5, CreateKeeps
  <1>6. ASSUME NEW b \in Build, CheckSnapshotValid(b) PROVE SnapshotInv'
    BY <1>6, CheckKeeps
  <1>7. ASSUME NEW p \in Path, Edit(p) PROVE SnapshotInv'
    BY <1>7, EditKeeps
  <1>8. ASSUME NEW p \in Path, ReadTimestamp(p) PROVE SnapshotInv'
    BY <1>8, ReadTimestampKeeps
  <1>9. ASSUME NEW p \in Path, TimestampFails(p) PROVE SnapshotInv'
    BY <1>9, TimestampFailsKeeps
  <1>10. ASSUME NEW p \in Path, ReadHash(p) PROVE SnapshotInv'
    BY <1>10, ReadHashKeeps
  <1>11. ASSUME NEW p \in Path, HashFails(p) PROVE SnapshotInv'
    BY <1>11, HashFailsKeeps
  <1>12. CASE UNCHANGED snapshotVars
    <2>1. clock' = clock /\ UNCHANGED <<setting, fsStartTime, disk, edits, round, caches, snapshots>>
      BY <1>12 DEF snapshotVars, caches, snapshots
    <2> QED
      BY <2>1, TimeKeeps
  <1>13. SnapshotNext \/ UNCHANGED snapshotVars
    OBVIOUS
  <1> QED
    BY <1>1, <1>2, <1>3, <1>4, <1>5, <1>6, <1>7, <1>8, <1>9, <1>10, <1>11, <1>12, <1>13, Zenon DEF SnapshotNext

\* Type correctness, and all that the other theorems rest on: in every state of every
\* execution the snapshots are a graph without cycles, whose entries are what was read,
\* and what the caches and the snapshot cache say was justified by the disk.
THEOREM SnapshotInvariant == SnapshotSpec => []SnapshotInv
  <1>1. SnapshotInit => SnapshotInv
    BY SnapshotInitially
  <1>2. SnapshotInv /\ [SnapshotNext]_snapshotVars => SnapshotInv'
    BY SnapshotStep
  <1> QED
    BY <1>1, <1>2, PTL DEF SnapshotSpec

\* The invariant contains the types.
LEMMA SnapshotTypes ==
    ASSUME SnapshotInv
    PROVE  SnapshotTypeOK
  <1>1. PICK m \in Nat : Sound(m)
    BY DEF SnapshotInv
  <1>2. /\ setting \in Settings /\ accuracy \in Steps \cup {Coarsest} /\ Len(verdict) = Len(snap)
        /\ stamp \in [Path -> Readings] /\ hash \in [Path -> Readings]
    BY DEF SnapshotInv, DiskInv, RestInv
  <1>3. \A x \in Readings : x.kind \in {"unread", "failed", "absent", "file"}
    BY DEF Readings, Unread, Failed, Absent, File
  <1>4. \A p \in Path : {stamp[p].kind, hash[p].kind} \subseteq {"unread", "failed", "absent", "file"}
    BY <1>2, <1>3
  <1>5. /\ Len(snap) \in Nat /\ Len(entry) = Len(snap)
        /\ \A p \in Path : owner[p] \in 0 .. Len(snap)
        /\ \A s \in 1 .. Len(snap) : snap[s].kids \subseteq 1 .. Len(snap)
    <2>1. SnapsInv(snap) /\ m \in 0 .. Len(snap) /\ \A p \in Path : owner[p] = 0 \/ owner[p] \in (m + 1) .. Len(snap)
      BY <1>1 DEF Sound, Shape
    <2>2. Len(snap) \in Nat
      BY <2>1, KidsOfFacts
    <2>3. Len(entry) = Len(snap)
      BY <1>1 DEF Sound, Shape, EntriesInv
    <2> QED
      BY <2>1, <2>2, <2>3 DEF SnapsInv
  <1>6. \A s \in 1 .. Len(snap) : verdict[s] \in {"none", "pending", "valid", "invalid"}
    <2>1. verdict \in Seq(Verdicts)
      BY <1>1 DEF Sound, VerdictInv
    <2>2. \A s \in 1 .. Len(verdict) : verdict[s] \in Verdicts
      BY <2>1, LenProperties
    <2> QED
      BY <1>2, <2>2 DEF Verdicts
  <1>7. \A b \in Build : build[b].stage \in {"none", "started", "read", "capturing", "ready", "failed"}
    BY <1>1 DEF Sound, BuildInv, BuildType, Stages
  <1> QED
    BY <1>2, <1>4, <1>5, <1>6, <1>7 DEF SnapshotTypeOK, Ids

\* A child never starts later.
LEMMA StartsUnder ==
    ASSUME NEW S, SnapsInv(S), UsesStart, NEW s \in 1 .. Len(S), NEW t \in Under(S, s)
    PROVE  S[t].start <= S[s].start /\ S[t].start > 0
  <1> DEFINE C == {u \in 1 .. Len(S) : S[u].start <= S[s].start}
  <1>1. /\ \A u \in 1 .. Len(S) : S[u].kids \subseteq 1 .. Len(S)
        /\ \A u \in 1 .. Len(S) : S[u].start > 0 /\ \A k \in S[u].kids : S[k].start <= S[u].start
    BY DEF SnapsInv
  <1>2. \A u \in 1 .. Len(S) : S[u].start \in Nat
    BY KidsOfFacts DEF SnapType
  <1>3. s \in C /\ C \in SUBSET (1 .. Len(S))
    BY <1>2
  <1>4. ASSUME NEW u \in C, NEW k \in S[u].kids PROVE k \in C
    <2>1. u \in 1 .. Len(S) /\ k \in 1 .. Len(S) /\ S[k].start <= S[u].start /\ S[u].start <= S[s].start
      BY <1>1
    <2> QED
      BY <1>2, <2>1
  <1>5. \A u \in C : S[u].kids \subseteq C
    BY <1>4
  <1>6. t \in C
    <2> HIDE DEF C
    <2> QED
      BY <1>3, <1>5, UnderFacts
  <1> QED
    BY <1>1, <1>6

\* What is known of a build whose snapshot is complete.
LEMMA ReadyFacts ==
    ASSUME SnapshotInv, NEW b \in Build, build[b].stage = "ready"
    PROVE  LET id == build[b].id
           IN  /\ SnapsInv(snap) /\ id \in 1 .. Len(snap) /\ Family(id) = Under(snap, id)
               /\ CoveredBy(id) = Files(b) /\ Covers(snap, id) = Files(b)
               /\ snap[id].start = build[b].start
               /\ \A p, y : Holds(snap, id, p, y) => build[b].took[p] = TookOf(y)
  <1>1. PICK m \in Nat : Sound(m)
    BY DEF SnapshotInv
  <1>2. SnapsInv(snap) /\ Complement(snap, verdict, build[b], Files(b), m) /\ Len(verdict) = Len(snap)
    BY <1>1 DEF SnapshotInv, Sound, Shape, BuildInv
  <1>3. /\ build[b].id \in 1 .. Len(snap) /\ Covers(snap, build[b].id) = Files(b)
        /\ snap[build[b].id].start = build[b].start
        /\ \A p, y : Holds(snap, build[b].id, p, y) => build[b].took[p] = TookOf(y)
    BY <1>2 DEF Complement
  <1>4. Family(build[b].id) = Under(snap, build[b].id)
    BY <1>2, <1>3, FamilyIsUnder
  <1>5. CoveredBy(build[b].id) = Covers(snap, build[b].id)
    BY <1>4 DEF CoveredBy, Covers
  <1> QED
    BY <1>2, <1>3, <1>4, <1>5

\* Every file of a complete build is in its snapshot or in one below it, however many
\* snapshots share how much (_optimize, Share): and no shared one starts later.
THEOREM NothingDroppedCorrect == SnapshotSpec => []NothingDropped
  <1>1. SnapshotInv => NothingDropped
    <2> SUFFICES ASSUME SnapshotInv PROVE NothingDropped
      OBVIOUS
    <2>1. SnapshotTypeOK
      BY SnapshotTypes
    <2>2. ASSUME NEW b \in Build, build[b].stage = "ready"
          PROVE  /\ CoveredBy(build[b].id) = Files(b)
                 /\ UsesStart => \A t \in Family(build[b].id) : snap[t].start <= snap[build[b].id].start
      <3>1. /\ SnapsInv(snap) /\ build[b].id \in 1 .. Len(snap)
            /\ Family(build[b].id) = Under(snap, build[b].id) /\ CoveredBy(build[b].id) = Files(b)
        BY <2>2, ReadyFacts
      <3>2. ASSUME UsesStart, NEW t \in Family(build[b].id) PROVE snap[t].start <= snap[build[b].id].start
        BY <3>1, <3>2, StartsUnder
      <3> QED
        BY <3>1, <3>2
    <2> QED
      BY <2>1, <2>2 DEF NothingDropped
  <1> QED
    BY <1>1, SnapshotInvariant, PTL

\* An entry x that a snapshot under that of build b has for p.
OfBuild(b, t, p, x) ==
    /\ build[b].stage = "ready" /\ t \in Under(snap, build[b].id) /\ p \in Files(b)
    /\ p \in DOMAIN snap[t].own /\ x = snap[t].own[p]

\* An entry of a build, and what is known of it.
LEMMA EntryFacts ==
    ASSUME SnapshotInv, NEW b \in Build, NEW t, NEW p, NEW x, OfBuild(b, t, p, x)
    PROVE  /\ p \in Path /\ x \in Kept /\ stamp[p] \in Readings /\ hash[p] \in Readings
           /\ build[b].took[p] = TookOf(x) /\ mode \in Modes
           /\ mode = "both" => x.stamp.kind # "absent"
           /\ disk[p].version = 1 /\ mode # "hash" => x.stamp.kind = "file" /\ x.stamp.value = disk[p].mtime
           /\ disk[p].version = 1 /\ mode \in {"hash", "both"} => x.hash.kind = "file" /\ x.hash.value = 1
           /\ UsesStart => snap[t].start > 0 /\ snap[t].start <= build[b].start
           /\ snap[t].start \in Nat /\ build[b].start \in Nat
  <1>1. /\ SnapsInv(snap) /\ build[b].id \in 1 .. Len(snap) /\ snap[build[b].id].start = build[b].start
        /\ \A q, y : Holds(snap, build[b].id, q, y) => build[b].took[q] = TookOf(y)
    BY ReadyFacts DEF OfBuild
  <1>2. PICK m \in Nat : Sound(m)
    BY DEF SnapshotInv
  <1>3. t \in 1 .. Len(snap) /\ t \in Under(snap, build[b].id) /\ p \in DOMAIN snap[t].own /\ x = snap[t].own[p]
    BY <1>1, UnderFacts DEF OfBuild
  <1>4. snap[t] \in SnapType /\ snap[build[b].id] \in SnapType
    BY <1>1, <1>3, KidsOfFacts
  <1>5. p \in Path /\ x \in Kept
    BY <1>3, <1>4 DEF SnapType, Owns
  <1>6. stamp[p] \in Readings /\ hash[p] \in Readings /\ mode \in Modes
    BY <1>5, SettingFacts DEF SnapshotInv, RestInv, DiskInv
  <1>7. build[b].took[p] = TookOf(x)
    <2>1. Holds(snap, build[b].id, p, x)
      BY <1>3 DEF Holds
    <2> QED
      BY <1>1, <2>1
  <1>8. /\ mode = "both" => x.stamp.kind # "absent"
        /\ disk[p].version = 1 /\ mode # "hash" => x.stamp.kind = "file" /\ x.stamp.value = disk[p].mtime
        /\ disk[p].version = 1 /\ mode \in {"hash", "both"} => x.hash.kind = "file" /\ x.hash.value = 1
    <2>1. EntryInv(snap, m, stamp, hash)
      BY <1>2 DEF Sound
    <2> QED
      BY <1>3, <2>1 DEF EntryInv
  <1>9. UsesStart => snap[t].start > 0 /\ snap[t].start <= build[b].start
    <2> SUFFICES ASSUME UsesStart PROVE snap[t].start > 0 /\ snap[t].start <= snap[build[b].id].start
      BY <1>1
    <2> QED
      BY <1>1, <1>3, StartsUnder
  <1>10. snap[t].start \in Nat /\ build[b].start \in Nat
    BY <1>1, <1>4 DEF SnapType
  <1> QED
    BY <1>5, <1>6, <1>7, <1>8, <1>9, <1>10

\* What an answer from a hash says.
LEMMA HashSays ==
    ASSUME NEW h \in Readings, NEW x
    PROVE  /\ h.kind \in {"unread", "failed", "absent", "file"}
           /\ h.kind = "unread" => HashVerdict(h, x) = "pending"
           /\ HashVerdict(h, x) = "valid" => h.kind \in {"absent", "file"} /\ h.value = x.value
           /\ HashVerdict(h, x) = "invalid" => h.kind = "failed" \/ ~ (h.kind = x.kind /\ h.value = x.value)
  <1>1. h.kind \in {"unread", "failed", "absent", "file"}
    BY DEF Readings, Unread, Failed, Absent, File
  <1>2. CASE h.kind \in {"unread", "failed"}
    BY <1>2 DEF HashVerdict
  <1>3. CASE h.kind \in {"absent", "file"}
    <2>1. HashVerdict(h, x) = Verdict(h.kind = x.kind /\ h.value = x.value)
      BY <1>3 DEF HashVerdict
    <2>2. CASE h.kind = x.kind /\ h.value = x.value
      <3>1. HashVerdict(h, x) = "valid"
        BY <2>1, <2>2 DEF Verdict
      <3> QED
        BY <1>3, <2>2, <3>1
    <2>3. CASE ~ (h.kind = x.kind /\ h.value = x.value)
      <3>1. HashVerdict(h, x) = "invalid"
        BY <2>1, <2>3 DEF Verdict
      <3> QED
        BY <1>3, <2>3, <3>1
    <2> QED
      BY <2>2, <2>3
  <1> QED
    BY <1>1, <1>2, <1>3

\* What is found valid, is what was read or what the entry is of.
LEMMA ValidEntry ==
    ASSUME SnapshotInv, NEW b \in Build, build[b].round < round, NEW t, NEW p, NEW x, OfBuild(b, t, p, x),
           EntryVerdict(stamp[p], hash[p], x, snap[t].start) = "valid"
    PROVE  IF mode = "existence" THEN build[b].took[p] = {0} <=> seen[p] = {0}
           ELSE ({build[b].got[p]} \cup build[b].took[p]) \cap seen[p] # {}
  <1> DEFINE st == stamp[p]
             h == hash[p]
             start == snap[t].start
             took == build[b].took[p]
  <1>1. /\ p \in Path /\ x \in Kept /\ st \in Readings /\ h \in Readings /\ took = TookOf(x) /\ mode \in Modes
        /\ mode = "both" => x.stamp.kind # "absent"
        /\ UsesStart => start > 0 /\ start <= build[b].start
        /\ start \in Nat /\ build[b].start \in Nat
    BY EntryFacts
  <1>2. /\ h.kind \in {"file", "absent"} => h.value \in seen[p]
        /\ st.kind = "absent" => 0 \in seen[p]
        /\ mode = "existence" => /\ st.kind = "absent" => seen[p] = {0}
                                 /\ st.kind = "file" => 0 \notin seen[p]
    BY <1>1 DEF SnapshotInv, SeenInv, ReadAt
  <1>3. ASSUME st.kind = "file", st.safe <= build[b].start PROVE build[b].got[p] \in seen[p]
    <2>1. build[b].stage = "ready" /\ p \in Files(b) /\ SafeAt(stamp, seen, build, p)
      BY <1>1 DEF OfBuild, SnapshotInv, SeenInv
    <2> QED
      BY <1>3, <2>1 DEF SafeAt
  <1>4. st.kind \in {"unread", "failed", "absent", "file"} /\ (st.kind \in {"absent", "file"} => st.safe \in Nat)
    BY <1>1 DEF Readings, Unread, Failed, Absent, File
  <1>5. x.stamp.kind = "absent" <=> x.stamp = Absent
    BY <1>1 DEF Kept, Readings, Unread, Failed, Absent, File, Untimed
  <1>6. EntryVerdict(st, h, x, start) = "valid"
    OBVIOUS
  <1> HIDE DEF st, h, start, took
  <1>7. ASSUME mode \in {"hash", "both"}, HashVerdict(h, x.hash) = "valid" PROVE took \cap seen[p] # {}
    <2>1. h.kind \in {"absent", "file"} /\ h.value = x.hash.value
      BY <1>1, <1>7, HashSays
    <2>2. took = {x.hash.value}
      BY <1>1, <1>7 DEF TookOf
    <2> QED
      BY <1>2, <2>1, <2>2
  <1>8. CASE mode = "hash"
    <2>1. HashVerdict(h, x.hash) = "valid"
      BY <1>6, <1>8 DEF EntryVerdict
    <2> QED
      BY <1>7, <1>8, <2>1 DEF took
  <1>9. CASE mode = "existence"
    <2>1. st.kind \in {"absent", "file"} /\ SameExistence(st, x.stamp)
      BY <1>4, <1>6, <1>9 DEF EntryVerdict, Verdict
    <2>2. took = IF x.stamp = Absent THEN {0} ELSE {}
      BY <1>1, <1>9 DEF TookOf
    <2>3. st.kind = "absent" <=> x.stamp = Absent
      BY <1>5, <2>1 DEF SameExistence
    <2>4. took = {0} <=> st.kind = "absent"
      BY <2>2, <2>3
    <2>5. seen[p] = {0} <=> st.kind = "absent"
      BY <1>2, <1>9, <2>1
    <2> QED
      BY <1>9, <2>4, <2>5 DEF took
  <1>10. CASE mode \in {"timestamp", "both"}
    <2>1. st.kind \in {"absent", "file"} /\ (SameFile(st, x.stamp, start) \/ (mode = "both" /\ HashVerdict(h, x.hash) = "valid"))
      BY <1>4, <1>6, <1>10 DEF EntryVerdict
    <2>2. CASE mode = "both" /\ HashVerdict(h, x.hash) = "valid"
      BY <1>7, <1>10, <2>2 DEF took
    <2>3. CASE SameFile(st, x.stamp, start) /\ st.kind = "file"
      <3>1. UsesStart
        BY <1>10 DEF UsesStart
      <3>2. start # 0 /\ start <= build[b].start
        BY <1>1, <3>1
      <3>3. st.safe <= start
        BY <2>3, <3>2 DEF SameFile
      <3>4. st.safe <= build[b].start
        BY <1>1, <1>4, <2>3, <3>2, <3>3
      <3> QED
        BY <1>3, <1>10, <2>3, <3>4
    <2>4. CASE SameFile(st, x.stamp, start) /\ st.kind = "absent"
      <3>1. x.stamp = Absent
        BY <1>5, <2>4 DEF SameFile, SameExistence
      <3>2. mode = "timestamp"
        BY <1>1, <1>5, <1>10, <3>1
      <3>3. took = {0}
        BY <1>1, <3>1, <3>2 DEF TookOf
      <3> QED
        BY <1>2, <2>4, <3>2, <3>3 DEF took
    <2> QED
      BY <2>1, <2>2, <2>3, <2>4
  <1> QED
    BY <1>1, <1>8, <1>9, <1>10 DEF Modes

\* What nobody edited, and was at rest, is not found invalid.
LEMMA QuietEntry ==
    ASSUME SnapshotInv, NEW b \in Build, NEW t, NEW p, NEW x, OfBuild(b, t, p, x),
           disk[p].version = 1, Failed \notin {stamp[p], hash[p]}, disk[p].mtime + Coarsest <= snap[t].start
    PROVE  EntryVerdict(stamp[p], hash[p], x, snap[t].start) # "invalid"
  <1> DEFINE st == stamp[p]
             h == hash[p]
             start == snap[t].start
  <1>1. /\ p \in Path /\ st \in Readings /\ h \in Readings /\ mode \in Modes
        /\ mode # "hash" => x.stamp.kind = "file" /\ x.stamp.value = disk[p].mtime
        /\ mode \in {"hash", "both"} => x.hash.kind = "file" /\ x.hash.value = 1
        /\ start \in Nat
    BY EntryFacts
  <1>2. /\ st.kind = "failed" <=> st = Failed
        /\ h.kind = "failed" <=> h = Failed
        /\ st.safe \in Nat
    BY <1>1 DEF Readings, Unread, Failed, Absent, File
  <1>3. /\ st.kind = "unread" \/ (st.kind = "file" /\ st.value = disk[p].mtime /\ st.safe <= disk[p].mtime + Coarsest)
        /\ h.kind = "unread" \/ (h.kind = "file" /\ h.value = 1)
    BY <1>1, <1>2 DEF SnapshotInv, RestInv
  <1>4. disk[p].mtime \in Nat /\ Coarsest \in Nat /\ disk[p].mtime + Coarsest <= start
    BY <1>1, SettingFacts DEF SnapshotInv, DiskInv
  <1> HIDE DEF st, h, start
  <1>5. mode \in {"hash", "both"} => HashVerdict(h, x.hash) # "invalid"
    <2> SUFFICES ASSUME mode \in {"hash", "both"}, HashVerdict(h, x.hash) = "invalid" PROVE FALSE
      OBVIOUS
    <2>1. h.kind = "failed" \/ ~ (h.kind = x.hash.kind /\ h.value = x.hash.value)
      BY <1>1, HashSays
    <2>2. h.kind # "unread"
      BY <1>1, HashSays
    <2> QED
      BY <1>1, <1>3, <2>1, <2>2
  <1>6. mode # "hash" /\ st.kind # "unread" => SameFile(st, x.stamp, start) /\ SameExistence(st, x.stamp)
    <2> SUFFICES ASSUME mode # "hash", st.kind # "unread" PROVE SameFile(st, x.stamp, start) /\ SameExistence(st, x.stamp)
      OBVIOUS
    <2>1. st.safe <= start
      BY <1>1, <1>2, <1>3, <1>4
    <2> QED
      BY <1>1, <1>3, <2>1 DEF SameFile, SameExistence
  <1>7. EntryVerdict(st, h, x, start) # "invalid"
    BY <1>1, <1>3, <1>5, <1>6 DEF EntryVerdict, Verdict, Modes
  <1> QED
    BY <1>7 DEF st, h, start

\* The answers that the snapshot cache has are right.
LEMMA AnswerFacts ==
    ASSUME SnapshotInv, NEW b \in Build, Old(b)
    PROVE  LET id == build[b].id
           IN  /\ verdict[id] = "valid" => Checked(snap, stamp, hash, id)
               /\ verdict[id] = "invalid" => Refuted(snap, stamp, hash, id)
  <1>1. PICK m \in Nat : Sound(m)
    BY DEF SnapshotInv
  <1>2. /\ Complement(snap, verdict, build[b], Files(b), m) /\ Answered(snap, verdict, stamp, hash, m)
        /\ build[b].round < round
    BY <1>1 DEF Old, Sound, BuildInv
  <1>3. build[b].id \in 1 .. m
    <2>1. build[b].id \in 1 .. Len(verdict) /\ build[b].id <= m
      BY <1>2 DEF Complement
    <2> QED
      BY <2>1
  <1> QED
    BY <1>2, <1>3 DEF Answered

\* A snapshot that checkSnapshotValid finds valid in a later compilation, is of files
\* that are what the build read, or what the entry itself speaks of.
THEOREM ValidIsFreshCorrect == SnapshotSpec => []ValidIsFresh
  <1>1. SnapshotInv => ValidIsFresh
    <2> SUFFICES ASSUME SnapshotInv, NEW b \in Build, Old(b), verdict[build[b].id] = "valid", NEW p \in Files(b)
                 PROVE  IF mode = "existence" THEN build[b].took[p] = {0} <=> seen[p] = {0}
                        ELSE ({build[b].got[p]} \cup build[b].took[p]) \cap seen[p] # {}
      BY Zenon DEF ValidIsFresh
    <2>1. Checked(snap, stamp, hash, build[b].id)
      BY AnswerFacts
    <2>2. build[b].stage = "ready" /\ build[b].round < round /\ Covers(snap, build[b].id) = Files(b)
      BY ReadyFacts DEF Old
    <2>3. PICK t \in Under(snap, build[b].id) : p \in DOMAIN snap[t].own
      BY <2>2 DEF Covers
    <2>4. PICK x : x = snap[t].own[p]
      OBVIOUS
    <2>5. OfBuild(b, t, p, x)
      BY <2>2, <2>3, <2>4 DEF OfBuild
    <2>6. EntryVerdict(stamp[p], hash[p], x, snap[t].start) = "valid"
      BY <2>1, <2>3, <2>4 DEF Checked, Says
    <2> QED
      BY <2>2, <2>5, <2>6, ValidEntry
  <1> QED
    BY <1>1, SnapshotInvariant, PTL

\* Nobody edits the files, and they were at rest when the builds started: then no
\* later compilation finds the snapshot invalid.
THEOREM QuietIsValidCorrect == SnapshotSpec => []QuietIsValid
  <1>1. SnapshotInv => QuietIsValid
    <2> SUFFICES ASSUME SnapshotInv, NEW b \in Build, Old(b), \A p \in Files(b) : Quiet(b, p),
                        verdict[build[b].id] = "invalid"
                 PROVE  FALSE
      BY Zenon DEF QuietIsValid
    <2>1. Refuted(snap, stamp, hash, build[b].id)
      BY AnswerFacts
    <2>2. /\ build[b].stage = "ready" /\ Covers(snap, build[b].id) = Files(b)
          /\ Family(build[b].id) = Under(snap, build[b].id)
      BY ReadyFacts DEF Old
    <2>3. PICK t \in Under(snap, build[b].id) : \E p \in DOMAIN snap[t].own : Says(snap, stamp, hash, t, p) = "invalid"
      BY <2>1 DEF Refuted
    <2>4. PICK p \in DOMAIN snap[t].own : Says(snap, stamp, hash, t, p) = "invalid"
      BY <2>3
    <2>5. p \in Files(b)
      BY <2>2, <2>3, <2>4 DEF Covers
    <2>6. PICK x : x = snap[t].own[p]
      OBVIOUS
    <2>7. OfBuild(b, t, p, x)
      BY <2>2, <2>3, <2>4, <2>5, <2>6 DEF OfBuild
    <2>8. disk[p].version = 1 /\ Failed \notin {stamp[p], hash[p]} /\ disk[p].mtime + Coarsest <= snap[t].start
      BY <2>2, <2>3, <2>5 DEF Quiet
    <2>9. EntryVerdict(stamp[p], hash[p], x, snap[t].start) = "invalid"
      BY <2>4, <2>6 DEF Says
    <2> QED
      BY <2>7, <2>8, <2>9, QuietEntry
  <1> QED
    BY <1>1, SnapshotInvariant, PTL

=============================================================================
