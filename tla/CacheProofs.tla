----------------------------- MODULE CacheProofs -----------------------------
(***************************************************************************)
(* Proofs about two caches.  IdleFileCache, for any keys and bounds: no    *)
(* version is lost between store() and the disk, and no write takes an     *)
(* item back.  CacheBackend, for any paths, levels and times: entries are  *)
(* served in time and not dropped early, reads never go back in time.      *)
(***************************************************************************)
EXTENDS IdleFileCache, CacheBackend, TLAPS, FiniteSetTheorems, SequenceTheorems, NaturalsInduction, WellFoundedInduction

(***************************************************************************)
(* The invariant.                                                          *)
(***************************************************************************)

TimerTypes ==
    /\ isIdle \in BOOLEAN
    /\ begins \in Nat /\ begins <= builds + (IF mode = "build" THEN 0 ELSE 1)
    /\ chunks \in Nat
    /\ idleTimer \in {"none", "begin", "chunk", "fired"}
    /\ idleTimer = "begin" => begins > 0
    /\ idleTimer = "chunk" => chunks > 0

ClientTypes ==
    /\ mode \in {"build", "idle", "down"}
    /\ latest \in [Key -> Version]
    /\ builds \in 0 .. MaxBuilds

PackTypes ==
    /\ packPromise \in {"none", "queued", "opening", "ready"}
    /\ storing \in BOOLEAN /\ dirty \in BOOLEAN /\ stale \in BOOLEAN
    /\ saving \in [Key -> Version] /\ items \in [Key -> Version]
    /\ waiting \in Seq(Callback)

PendingTypes == pending \in Seq(Item)
ChainTypes == chain \in Seq(Link)
FileTypes == disk \in [Key -> Version] /\ failures \in 0 .. MaxFailures

Types == ClientTypes /\ PendingTypes /\ TimerTypes /\ ChainTypes /\ PackTypes /\ FileTypes

\* What a pack holds, or will hold when it has been opened again.
Base == IF packPromise = "ready" THEN items ELSE IF storing THEN saving ELSE disk

Writes(c, k) == c.op \in {"store", "fetch"} /\ c.key = k

\* A pack is either open, or being written, or on disk.
PackInv ==
    /\ storing => packPromise \in {"none", "queued"}
    /\ packPromise = "queued" => storing
    /\ packPromise \in {"none", "ready"} => waiting = <<>>
    /\ packPromise = "ready" /\ ~dirty => items = disk

\* There is one pending task for a key, and it is the last one.
PendingInv ==
    /\ \A i, j \in DOMAIN pending : pending[i].key = pending[j].key => i = j
    /\ \A i \in DOMAIN pending : pending[i].ver = latest[pending[i].key]

\* From the disk to the pack and the callbacks the versions of a key never get
\* older.
OrderInv ==
    /\ \A k \in Key : disk[k] <= Base[k] /\ Base[k] <= latest[k]
    /\ \A k \in Key, i \in DOMAIN waiting : Writes(waiting[i], k) =>
          Base[k] <= waiting[i].ver /\ waiting[i].ver <= latest[k]
    /\ \A k \in Key, i, j \in DOMAIN waiting :
          i < j /\ Writes(waiting[i], k) /\ Writes(waiting[j], k) => waiting[i].ver <= waiting[j].ver

\* Unless a write has failed, the last version is on its way, and who waits for
\* an item will find the version it is called for.
PresentInv ==
    failures = 0 =>
        /\ ~stale
        /\ \A k \in Key : Position(k) = {} =>
              \/ Base[k] = latest[k]
              \/ \E i \in DOMAIN waiting : Writes(waiting[i], k) /\ waiting[i].ver = latest[k]
        /\ \A i \in DOMAIN waiting : waiting[i].op = "get" =>
              \/ waiting[i].ver <= Base[waiting[i].key]
              \/ \E j \in DOMAIN waiting : /\ j < i /\ Writes(waiting[j], waiting[i].key)
                                           /\ waiting[i].ver <= waiting[j].ver

Waits(op) == \E i \in DOMAIN waiting : waiting[i].op = op
HasLink(kind) == \E i \in DOMAIN chain : chain[i].kind = kind

\* Whatever is done with the pack is done for the first link, and tasks that wait
\* for the pack have a link that waits for them.
LinkInv ==
    /\ storing \/ Waits("flush") =>
          chain # <<>> /\ chain[1].kind \in {"flush", "final"} /\ chain[1].waits
    /\ storing => ~Waits("flush")
    /\ \A i \in DOMAIN chain : i > 1 /\ chain[i].kind \in {"flush", "final"} => ~chain[i].waits
    /\ Waits("store") => \E i \in DOMAIN chain : chain[i].kind \in {"chunk", "jobs"} /\ chain[i].waits

\* The links of shutdown follow each other, behind all tasks of idle times.
DownLinks ==
    /\ \A i, j \in DOMAIN chain :
          chain[i].kind = chain[j].kind /\ chain[i].kind \in {"jobs", "final", "clear"} => i = j
    /\ \A i \in DOMAIN chain :
          /\ chain[i].kind = "chunk" => \E j \in DOMAIN chain : j > i /\ chain[j].kind = "jobs"
          /\ chain[i].kind = "jobs" => i + 1 \in DOMAIN chain /\ chain[i + 1].kind = "final"
          /\ chain[i].kind = "final" => i + 1 \in DOMAIN chain /\ chain[i + 1].kind = "clear"
          /\ chain[i].kind = "clear" /\ i > 1 => chain[i - 1].kind = "final"

\* Everything has been written, nothing is going to be.
Landed ==
    /\ waiting = <<>> /\ ~storing
    /\ packPromise = "ready" => ~dirty
    /\ failures = 0 => disk = latest
    /\ ~HasLink("clear") => packPromise = "none"

DownInv ==
    /\ mode # "down" => \A i \in DOMAIN chain : chain[i].kind \in {"chunk", "flush"}
    /\ mode = "down" =>
          /\ pending = <<>> /\ ~Waits("get") /\ ~Waits("fetch")
          /\ DownLinks
          /\ ~HasLink("final") => Landed

DataInv == PackInv /\ OrderInv /\ PresentInv

IInv == Types /\ PendingInv /\ DataInv /\ LinkInv /\ DownInv

(***************************************************************************)
(* Callbacks and what they leave in a pack.                                *)
(***************************************************************************)

\* A set of numbers has a least element.
LEMMA LeastNumber ==
  ASSUME NEW S, S \subseteq Nat, S # {}
  PROVE  \E x \in S : \A y \in S : x <= y
<1> DEFINE R == {p \in Nat \X Nat : p[1] < p[2]}
<1>1. IsWellFoundedOn(R, Nat)
  BY NatLessThanWellFounded, IsWellFoundedOnSubrelation DEF OpToRel
<1> HIDE DEF R
<1>2. PICK x \in S : \A y \in S : ~ (<<y, x>> \in R)
  BY <1>1, WFMin
<1>3. ASSUME NEW y \in S, y < x PROVE FALSE
  <2>1. <<y, x>> \in Nat \X Nat
    OBVIOUS
  <2>2. <<y, x>> \in R
    BY <1>3, <2>1 DEF R
  <2> QED
    BY <1>2, <2>2
<1>4. \A y \in S : x <= y
  BY <1>3
<1> QED
  BY <1>4

\* ... and, with a bound, a greatest one.
LEMMA MaxFacts ==
  ASSUME NEW n \in Nat, NEW S, S \subseteq 1 .. n, S # {}
  PROVE  Max(S) \in S /\ \A y \in S : y <= Max(S)
<1> DEFINE T == {n - x : x \in S}
<1>1. T \subseteq Nat /\ T # {}
  OBVIOUS
<1>2. PICK t \in T : \A y \in T : t <= y
  BY <1>1, LeastNumber
<1>3. PICK x \in S : t = n - x
  BY <1>2
<1>4. \A y \in S : n - x <= n - y
  BY <1>2, <1>3
<1>5. \A y \in S : x >= y
  BY <1>4
<1>6. \E m \in S : \A y \in S : m >= y
  BY <1>5
<1>7. Max(S) \in S /\ \A y \in S : Max(S) >= y
  BY <1>6 DEF Max
<1> QED
  BY <1>7

LEMMA CallbackFacts ==
  ASSUME NEW c \in Callback
  PROVE  /\ c.op \in {"store", "fetch", "get", "flush"}
         /\ c.op # "flush" => c.key \in Key /\ c.ver \in Version
         /\ \A k \in Key : Writes(c, k) => c.ver \in Version
BY DEF Callback, Writes

LEMMA VersionsAreNumbers ==
  ASSUME NEW f \in [Key -> Version]
  PROVE  \A k \in Key : f[k] \in Version /\ f[k] \in Nat
BY BoundsAssumption DEF Version

\* The last callback that writes an item decides.
LEMMA AfterFacts ==
  ASSUME NEW content \in [Key -> Version], NEW C \in Seq(Callback), NEW n \in 0 .. Len(C)
  PROVE  /\ ItemsAfter(content, C, n) \in [Key -> Version]
         /\ \A k \in Key :
              \/ /\ \A i \in 1 .. n : ~Writes(C[i], k)
                 /\ ItemsAfter(content, C, n)[k] = content[k]
              \/ \E m \in 1 .. n :
                    /\ Writes(C[m], k)
                    /\ ItemsAfter(content, C, n)[k] = C[m].ver
                    /\ \A i \in 1 .. n : Writes(C[i], k) => i <= m
<1> DEFINE S(k) == {i \in 1 .. n : C[i].op \in {"store", "fetch"} /\ C[i].key = k}
           after == ItemsAfter(content, C, n)
<1>1. \A k \in Key : after[k] = IF S(k) = {} THEN content[k] ELSE C[Max(S(k))].ver
  BY DEF ItemsAfter
<1>2. \A k \in Key, i \in 1 .. n : i \in S(k) <=> Writes(C[i], k)
  BY DEF Writes
<1>3. n \in Nat /\ \A i \in 1 .. n : C[i] \in Callback
  BY LenProperties
<1> DEFINE Decided(k) ==
      \/ (\A i \in 1 .. n : ~Writes(C[i], k)) /\ after[k] = content[k]
      \/ \E m \in 1 .. n : /\ Writes(C[m], k) /\ after[k] = C[m].ver
                           /\ \A i \in 1 .. n : Writes(C[i], k) => i <= m
<1>4. ASSUME NEW k \in Key PROVE after[k] \in Version /\ Decided(k)
  <2>1. CASE S(k) = {}
    BY <1>1, <1>2, <2>1, VersionsAreNumbers
  <2>2. CASE S(k) # {}
    <3> DEFINE m == Max(S(k))
    <3>1. S(k) \subseteq 1 .. n
      OBVIOUS
    <3>2. m \in S(k) /\ \A y \in S(k) : y <= m
      BY <1>3, <2>2, <3>1, MaxFacts
    <3>3. after[k] = C[m].ver
      BY <1>1, <2>2
    <3> HIDE DEF m, S, after
    <3>4. m \in 1 .. n
      BY <3>1, <3>2
    <3>5. Writes(C[m], k) /\ C[m].ver \in Version
      BY <1>2, <1>3, <3>2, <3>4, CallbackFacts
    <3>6. \A i \in 1 .. n : Writes(C[i], k) => i <= m
      BY <1>2, <3>2
    <3> QED
      BY <3>3, <3>4, <3>5, <3>6
  <2> QED
    BY <2>1, <2>2
<1>5. after \in [Key -> Version]
  <2>1. after = [k \in Key |-> after[k]]
    BY DEF ItemsAfter
  <2> HIDE DEF after
  <2> QED
    BY <1>4, <2>1
<1> QED
  BY <1>4, <1>5

\* Callbacks whose versions fit behind `content` and each other.
InSequence(content, C) ==
    /\ \A k \in Key : content[k] <= latest[k]
    /\ \A k \in Key, i \in DOMAIN C :
          Writes(C[i], k) => content[k] <= C[i].ver /\ C[i].ver <= latest[k]
    /\ \A k \in Key, i, j \in DOMAIN C :
          i < j /\ Writes(C[i], k) /\ Writes(C[j], k) => C[i].ver <= C[j].ver

\* Every get() finds what it is called for.
Findable(content, C) ==
    \A i \in DOMAIN C : C[i].op = "get" =>
        \/ C[i].ver <= content[C[i].key]
        \/ \E j \in DOMAIN C : j < i /\ Writes(C[j], C[i].key) /\ C[i].ver <= C[j].ver

LEMMA AfterIsNewest ==
  ASSUME NEW content \in [Key -> Version], NEW C \in Seq(Callback), NEW n \in 0 .. Len(C),
         latest \in [Key -> Version], InSequence(content, C)
  PROVE  \A k \in Key :
            /\ content[k] <= ItemsAfter(content, C, n)[k]
            /\ ItemsAfter(content, C, n)[k] <= latest[k]
            /\ \A i \in 1 .. n : Writes(C[i], k) => C[i].ver <= ItemsAfter(content, C, n)[k]
<1> DEFINE after == ItemsAfter(content, C, n)
<1>1. n \in Nat /\ DOMAIN C = 1 .. Len(C) /\ \A i \in 1 .. n : C[i] \in Callback
  BY LenProperties
<1>2. \A k \in Key : content[k] \in Nat /\ latest[k] \in Nat
  BY VersionsAreNumbers
<1>3. \A k \in Key, i \in 1 .. n : Writes(C[i], k) => C[i].ver \in Nat
  BY <1>1, CallbackFacts, BoundsAssumption DEF Version
<1> SUFFICES ASSUME NEW k \in Key
             PROVE  /\ content[k] <= after[k] /\ after[k] <= latest[k]
                    /\ \A i \in 1 .. n : Writes(C[i], k) => C[i].ver <= after[k]
  OBVIOUS
<1> HIDE DEF after
<1>4. CASE (\A i \in 1 .. n : ~Writes(C[i], k)) /\ after[k] = content[k]
  BY <1>2, <1>4 DEF InSequence
<1>5. ASSUME NEW m \in 1 .. n, Writes(C[m], k), after[k] = C[m].ver,
             \A i \in 1 .. n : Writes(C[i], k) => i <= m
      PROVE  /\ content[k] <= after[k] /\ after[k] <= latest[k]
             /\ \A i \in 1 .. n : Writes(C[i], k) => C[i].ver <= after[k]
  <2>1. m \in DOMAIN C /\ \A i \in 1 .. n : i \in DOMAIN C
    BY <1>1
  <2>2. content[k] <= after[k] /\ after[k] <= latest[k]
    BY <1>5, <2>1 DEF InSequence
  <2>3. ASSUME NEW i \in 1 .. n, Writes(C[i], k) PROVE C[i].ver <= after[k]
    <3>1. i = m \/ i < m
      BY <1>5, <2>3
    <3> QED
      BY <1>3, <1>5, <2>1, <2>3, <3>1 DEF InSequence
  <2> QED
    BY <2>2, <2>3
<1> QED
  BY <1>4, <1>5, AfterFacts DEF after

LEMMA FetchedFacts ==
  ASSUME NEW C \in Seq(Callback)
  PROVE  /\ Fetched(C) \in Seq(Callback)
         /\ \A i \in DOMAIN Fetched(C) : Fetched(C)[i].op = "get" /\
               \E j \in DOMAIN C : /\ C[j].op = "fetch" /\ Fetched(C)[i].key = C[j].key
                                   /\ Fetched(C)[i].ver = C[j].ver
         /\ (\A j \in DOMAIN C : C[j].op # "fetch") => Fetched(C) = <<>>
<1> DEFINE S == {i \in DOMAIN C : C[i].op = "fetch"}
           F == SetToSeq(S)
           size == Cardinality(S)
<1>1. DOMAIN C = 1 .. Len(C) /\ Len(C) \in Nat /\ \A i \in DOMAIN C : C[i] \in Callback
  BY LenProperties
<1>2. IsFiniteSet(S)
  <2>1. IsFiniteSet(1 .. Len(C)) /\ S \in SUBSET (1 .. Len(C))
    BY <1>1, FS_Interval
  <2> QED
    BY <2>1, FS_Subset
<1>3. size \in Nat /\ F \in [1 .. size -> S]
  <2>1. size \in Nat /\ ExistsBijection(1 .. size, S)
    BY <1>2, FS_CardinalityType
  <2>2. \E f \in [1 .. size -> S] : IsInjective(f)
    BY <2>1 DEF ExistsBijection, Bijection, Injection, IsInjective
  <2> QED
    BY <2>1, <2>2 DEF SetToSeq
<1>4. Fetched(C) = [i \in DOMAIN F |-> [C[F[i]] EXCEPT !.op = "get"]]
  BY DEF Fetched
<1> HIDE DEF F, size
<1>5. DOMAIN Fetched(C) = 1 .. size
  BY <1>3, <1>4
<1>6. ASSUME NEW i \in 1 .. size
      PROVE  /\ Fetched(C)[i] \in Callback /\ Fetched(C)[i].op = "get"
             /\ \E j \in DOMAIN C : /\ C[j].op = "fetch" /\ Fetched(C)[i].key = C[j].key
                                    /\ Fetched(C)[i].ver = C[j].ver
  <2>1. F[i] \in DOMAIN C /\ C[F[i]].op = "fetch" /\ C[F[i]] \in Callback
    BY <1>1, <1>3
  <2>2. Fetched(C)[i] = [C[F[i]] EXCEPT !.op = "get"]
    BY <1>3, <1>4
  <2>3. C[F[i]] \in [op : {"store", "fetch", "get"}, key : Key, ver : Version]
    BY <2>1 DEF Callback
  <2>4. /\ Fetched(C)[i] \in [op : {"store", "fetch", "get"}, key : Key, ver : Version]
        /\ Fetched(C)[i].op = "get" /\ Fetched(C)[i].key = C[F[i]].key /\ Fetched(C)[i].ver = C[F[i]].ver
    BY <2>2, <2>3
  <2> QED
    BY <2>1, <2>4 DEF Callback
<1>7. Fetched(C) \in Seq(Callback)
  <2>1. Fetched(C) = [i \in 1 .. size |-> Fetched(C)[i]]
    BY <1>3, <1>4
  <2>2. Fetched(C) \in [1 .. size -> Callback]
    BY <1>6, <2>1
  <2> QED
    BY <1>3, <2>2
<1>8. ASSUME \A j \in DOMAIN C : C[j].op # "fetch" PROVE Fetched(C) = <<>>
  <2>1. S = {}
    BY <1>8
  <2>2. size = 0
    BY <2>1, FS_EmptySet DEF size
  <2>3. Len(Fetched(C)) = 0
    BY <1>5, <1>7, <2>2, LenProperties
  <2> QED
    BY <1>7, <2>3, EmptySeq
<1> QED
  BY <1>5, <1>6, <1>7, <1>8

\* Nobody finds an item that is too old, neither the get() calls nor those
\* behind a fetch.
LEMMA NobodyFindsStale ==
  ASSUME NEW content \in [Key -> Version], NEW C \in Seq(Callback),
         latest \in [Key -> Version], InSequence(content, C), Findable(content, C)
  PROVE  ~FindsStale(content, C)
<1> SUFFICES ASSUME NEW i \in DOMAIN C, C[i].op = "get",
                    ItemsAfter(content, C, i)[C[i].key] < C[i].ver
             PROVE  FALSE
  BY DEF FindsStale
<1> DEFINE k == C[i].key
           found == ItemsAfter(content, C, i)[k]
<1>1. DOMAIN C = 1 .. Len(C) /\ Len(C) \in Nat /\ \A j \in DOMAIN C : C[j] \in Callback
  BY LenProperties
<1>2. k \in Key /\ C[i].ver \in Nat
  BY <1>1, CallbackFacts, BoundsAssumption DEF Version
<1>3. /\ content[k] <= found /\ \A j \in 1 .. i : Writes(C[j], k) => C[j].ver <= found
      /\ found \in Nat /\ content[k] \in Nat
  <2>1. i \in 0 .. Len(C)
    BY <1>1
  <2>2. ItemsAfter(content, C, i) \in [Key -> Version]
    BY <2>1, AfterFacts
  <2> QED
    BY <1>2, <2>1, <2>2, AfterIsNewest, VersionsAreNumbers
<1>4. \A j \in 1 .. i : Writes(C[j], k) => C[j].ver \in Nat
  BY <1>1, <1>2, CallbackFacts, BoundsAssumption DEF Version
<1>5. \/ C[i].ver <= content[k]
      \/ \E j \in 1 .. i : Writes(C[j], k) /\ C[i].ver <= C[j].ver
  BY <1>1 DEF Findable
<1>6. found < C[i].ver
  OBVIOUS
<1> HIDE DEF found, k
<1> QED
  BY <1>2, <1>3, <1>4, <1>5, <1>6

\* What the callbacks leave behind: a pack that holds the newest versions, open
\* or being written, and gets that will find theirs.
RunLeaves(content, changed, C) ==
    /\ \/ packPromise' \in {"none", "queued"} /\ storing'
       \/ packPromise' = "ready" /\ ~storing'
    /\ Base' = ItemsAfter(content, C, Len(C))
    /\ packPromise' # "queued" => waiting' = <<>>
    /\ \A i \in DOMAIN waiting' : /\ waiting'[i].op = "get" /\ waiting'[i].key \in Key
                                  /\ waiting'[i].ver <= Base'[waiting'[i].key]
    /\ packPromise' = "ready" /\ ~dirty' => items' = content /\ ~changed
    /\ (\A i \in DOMAIN C : C[i].op # "fetch") => waiting' = <<>>
    /\ storing' => GivenUp(changed, C)
    /\ failures = 0 => ~stale'

LEMMA RunFacts ==
  ASSUME Types, ~storing, NEW content \in [Key -> Version], NEW changed \in BOOLEAN,
         NEW C \in Seq(Callback), InSequence(content, C),
         failures = 0 => ~stale /\ Findable(content, C), RunCallbacks(content, changed, C)
  PROVE  PackTypes' /\ RunLeaves(content, changed, C)
<1> DEFINE after == ItemsAfter(content, C, Len(C))
           gets == Fetched(C)
<1>1. /\ DOMAIN C = 1 .. Len(C) /\ Len(C) \in Nat /\ Len(C) \in 0 .. Len(C)
      /\ \A i \in DOMAIN C : C[i] \in Callback
      /\ latest \in [Key -> Version] /\ PackTypes
  BY LenProperties DEF Types, ClientTypes
<1>2. after \in [Key -> Version]
  BY <1>1, AfterFacts
<1>3. \A k \in Key, i \in DOMAIN C : Writes(C[i], k) => C[i].ver <= after[k]
  BY <1>1, AfterIsNewest
<1>4. /\ gets \in Seq(Callback) /\ DOMAIN gets = 1 .. Len(gets)
      /\ \A i \in DOMAIN gets : gets[i].op = "get" /\
            \E j \in DOMAIN C : /\ C[j].op = "fetch" /\ gets[i].key = C[j].key
                                /\ gets[i].ver = C[j].ver
      /\ (\A j \in DOMAIN C : C[j].op # "fetch") => gets = <<>>
  <2>1. gets \in Seq(Callback)
    BY FetchedFacts
  <2> QED
    BY <2>1, FetchedFacts, LenProperties
<1>5. Nothing \in [Key -> Version]
  BY BoundsAssumption DEF Nothing, Version
<1>6. ASSUME \A i \in DOMAIN C : C[i].op \notin {"store", "fetch"} PROVE after = content
  <2>1. \A k \in Key, i \in 1 .. Len(C) : ~Writes(C[i], k)
    BY <1>1, <1>6 DEF Writes
  <2>2. \A k \in Key : after[k] = content[k]
    BY <1>1, <2>1, AfterFacts
  <2> HIDE DEF after
  <2> QED
    BY <1>2, <2>2
<1> HIDE DEF after, gets
<1>7. \A i \in DOMAIN gets : gets[i].key \in Key /\ gets[i].ver <= after[gets[i].key]
  <2> SUFFICES ASSUME NEW i \in DOMAIN gets
               PROVE  gets[i].key \in Key /\ gets[i].ver <= after[gets[i].key]
    OBVIOUS
  <2>1. PICK j \in DOMAIN C : C[j].op = "fetch" /\ gets[i].key = C[j].key /\ gets[i].ver = C[j].ver
    BY <1>4
  <2>2. C[j].key \in Key /\ Writes(C[j], C[j].key)
    BY <1>1, <2>1, CallbackFacts DEF Writes
  <2> QED
    BY <1>3, <2>1, <2>2
<1>8. failures = 0 => ~FindsStale(content, C) /\ ~FindsStale(after, gets)
  <2>1. failures = 0 => ~FindsStale(content, C)
    BY <1>1, NobodyFindsStale
  <2>2. InSequence(after, gets)
    BY <1>1, <1>4, AfterIsNewest DEF InSequence, Writes, after
  <2>3. Findable(after, gets)
    BY <1>7 DEF Findable
  <2> QED
    BY <1>1, <1>2, <1>4, <2>1, <2>2, <2>3, NobodyFindsStale
<1>9. CASE GivenUp(changed, C)
  <2>1. /\ packPromise' = IF gets = <<>> THEN "none" ELSE "queued"
        /\ storing' = TRUE /\ saving' = after /\ items' = Nothing /\ dirty' = FALSE
        /\ waiting' = gets /\ stale' = (stale \/ FindsStale(content, C))
    BY <1>9 DEF RunCallbacks, after, gets
  <2>2. PackTypes'
    BY <1>2, <1>4, <1>5, <2>1 DEF PackTypes, FindsStale
  <2>3. Base' = after
    BY <2>1 DEF Base
  <2> QED
    BY <1>4, <1>7, <1>8, <1>9, <2>1, <2>2, <2>3 DEF RunLeaves, after
<1>10. CASE ~GivenUp(changed, C)
  <2>1. /\ packPromise' = "ready" /\ items' = after
        /\ dirty' = (changed \/ Changes(C))
        /\ waiting' = <<>>
        /\ stale' = (stale \/ FindsStale(content, C) \/ FindsStale(after, gets))
        /\ UNCHANGED <<storing, saving>>
    BY <1>10 DEF RunCallbacks, after, gets
  <2>2. PackTypes'
    BY <1>1, <1>2, <2>1, EmptySeq DEF PackTypes, FindsStale, Changes
  <2>3. Base' = after
    BY <2>1 DEF Base
  <2>4. DOMAIN waiting' = {}
    BY <2>1
  <2>5. ~dirty' => items' = content /\ ~changed
    BY <1>6, <2>1 DEF Changes
  <2> QED
    BY <1>8, <2>1, <2>2, <2>3, <2>4, <2>5 DEF RunLeaves, after
<1> QED
  BY <1>9, <1>10

LEMMA RunData ==
  ASSUME Types, PackTypes', UNCHANGED <<latest, disk, failures>>,
         NEW content \in [Key -> Version], NEW changed \in BOOLEAN,
         NEW C \in Seq(Callback), InSequence(content, C), RunLeaves(content, changed, C),
         \A k \in Key : disk[k] <= content[k],
         ~changed => content = disk,
         failures = 0 => \A k \in Key : (Position(k) = {})' =>
             content[k] = latest[k] \/ \E i \in DOMAIN C : Writes(C[i], k) /\ C[i].ver = latest[k]
  PROVE  DataInv'
<1> DEFINE after == ItemsAfter(content, C, Len(C))
<1>1. /\ DOMAIN C = 1 .. Len(C) /\ Len(C) \in 0 .. Len(C)
      /\ latest \in [Key -> Version]
  BY LenProperties DEF Types, ClientTypes
<1>2. /\ after \in [Key -> Version]
      /\ \A k \in Key : /\ content[k] <= after[k] /\ after[k] <= latest[k]
                        /\ \A i \in DOMAIN C : Writes(C[i], k) => C[i].ver <= after[k]
  BY <1>1, AfterFacts, AfterIsNewest
<1>3. \A k \in Key : /\ content[k] \in Nat /\ after[k] \in Nat /\ latest[k] \in Nat /\ disk[k] \in Nat
  BY <1>1, <1>2, VersionsAreNumbers DEF Types, FileTypes
<1>4. Base' = after
  BY DEF RunLeaves
<1> HIDE DEF after
<1>5. \A i \in DOMAIN waiting', k \in Key : ~Writes(waiting'[i], k)
  BY DEF RunLeaves, Writes
<1>6. PackInv'
  BY DEF PackInv, RunLeaves
<1>7. OrderInv'
  <2>1. \A k \in Key : disk'[k] <= Base'[k] /\ Base'[k] <= latest'[k]
    BY <1>2, <1>3, <1>4
  <2> QED
    BY <1>5, <2>1 DEF OrderInv
<1>8. PresentInv'
  <2> SUFFICES ASSUME failures = 0
               PROVE  /\ ~stale'
                      /\ \A k \in Key : (Position(k) = {})' => Base'[k] = latest'[k]
                      /\ \A i \in DOMAIN waiting' : waiting'[i].op = "get" =>
                            waiting'[i].ver <= Base'[waiting'[i].key]
    BY DEF PresentInv
  <2>1. ASSUME NEW k \in Key, (Position(k) = {})' PROVE after[k] = latest[k]
    BY <1>2, <1>3, <2>1
  <2> QED
    BY <1>4, <2>1 DEF RunLeaves
<1> QED
  BY <1>6, <1>7, <1>8 DEF DataInv

\* The pack is handed callbacks with the last versions.
LEMMA OnPackFacts ==
  ASSUME Types, DataInv, UNCHANGED <<latest, disk, failures>>,
         NEW C \in Seq(Callback), OnPack(C),
         \A i \in DOMAIN C : C[i].op # "flush" => C[i].ver = latest[C[i].key],
         \A i \in DOMAIN C : C[i].op = "get" => Position(C[i].key) = {},
         \A k \in Key : (Position(k) = {})' => Position(k) = {} \/ \E i \in DOMAIN C : Writes(C[i], k)
  PROVE  /\ PackTypes' /\ DataInv'
         /\ packPromise = "ready" => RunLeaves(items, dirty, C)
         /\ packPromise # "ready" => /\ waiting' = waiting \o C /\ packPromise' # "ready"
                                     /\ UNCHANGED <<storing, saving, items, dirty, stale>>
                                     /\ C = <<>> => UNCHANGED packPromise
<1>1. /\ DOMAIN C = 1 .. Len(C) /\ Len(C) \in Nat /\ \A i \in DOMAIN C : C[i] \in Callback
      /\ waiting \in Seq(Callback) /\ DOMAIN waiting = 1 .. Len(waiting) /\ Len(waiting) \in Nat
      /\ latest \in [Key -> Version] /\ items \in [Key -> Version] /\ dirty \in BOOLEAN
      /\ \A i \in DOMAIN waiting : waiting[i] \in Callback
  BY LenProperties DEF Types, ClientTypes, PackTypes
<1>2. /\ \A k \in Key : latest[k] \in Nat /\ Base[k] \in Nat
      /\ \A i \in DOMAIN C, k \in Key : Writes(C[i], k) => C[i].ver = latest[k]
  <2>1. Base \in [Key -> Version]
    BY DEF Types, PackTypes, FileTypes, Base
  <2> QED
    BY <1>1, <2>1, VersionsAreNumbers DEF Writes
<1>3. CASE packPromise = "ready"
  <2>1. Base = items /\ ~storing /\ waiting = <<>>
    BY <1>3 DEF Base, DataInv, PackInv
  <2>2. RunCallbacks(items, dirty, C)
    BY <1>3 DEF OnPack
  <2>3. InSequence(items, C)
    BY <1>1, <1>2, <2>1 DEF InSequence, DataInv, OrderInv
  <2>4. ASSUME failures = 0
        PROVE  /\ ~stale /\ Findable(items, C)
               /\ \A k \in Key : Position(k) = {} => items[k] = latest[k]
    <3>1. \A k \in Key : Position(k) = {} => items[k] = latest[k]
      BY <2>1, <2>4 DEF DataInv, PresentInv
    <3>2. \A i \in DOMAIN C : C[i].op = "get" => C[i].ver <= items[C[i].key]
      <4> SUFFICES ASSUME NEW i \in DOMAIN C, C[i].op = "get" PROVE C[i].ver <= items[C[i].key]
        OBVIOUS
      <4>1. C[i].key \in Key /\ C[i].ver = latest[C[i].key] /\ Position(C[i].key) = {}
        BY <1>1, CallbackFacts
      <4> QED
        BY <1>2, <3>1, <4>1
    <3> QED
      BY <2>4, <3>1, <3>2 DEF Findable, DataInv, PresentInv
  <2>5. PackTypes' /\ RunLeaves(items, dirty, C)
    BY <1>1, <2>1, <2>2, <2>3, <2>4, RunFacts
  <2>6. failures = 0 => \A k \in Key : (Position(k) = {})' =>
            items[k] = latest[k] \/ \E i \in DOMAIN C : Writes(C[i], k) /\ C[i].ver = latest[k]
    BY <1>2, <2>4
  <2>7. (\A k \in Key : disk[k] <= items[k]) /\ (~dirty => items = disk)
    BY <1>3, <2>1 DEF DataInv, OrderInv, PackInv
  <2>8. DataInv'
    BY <1>1, <2>3, <2>5, <2>6, <2>7, RunData
  <2> QED
    BY <1>3, <2>5, <2>8
<1>4. CASE packPromise # "ready"
  <2>1. /\ waiting' = waiting \o C
        /\ packPromise' = IF C = <<>> THEN packPromise ELSE GetPack
        /\ UNCHANGED <<storing, saving, items, dirty, stale>>
    BY <1>4 DEF OnPack
  <2>2. /\ packPromise \in {"none", "queued", "opening"}
        /\ packPromise' \in {"none", "queued", "opening"}
    BY <1>4, <2>1 DEF GetPack, OpenLater, Types, PackTypes
  <2>3. /\ waiting' \in Seq(Callback) /\ Len(waiting') = Len(waiting) + Len(C)
        /\ DOMAIN waiting' = 1 .. Len(waiting')
        /\ \A i \in DOMAIN waiting' : waiting'[i] = IF i <= Len(waiting) THEN waiting[i] ELSE C[i - Len(waiting)]
    BY <1>1, <2>1, ConcatProperties, LenProperties
  <2>4. PackTypes'
    BY <2>1, <2>2, <2>3 DEF Types, PackTypes
  <2>5. Base' = Base
    BY <1>4, <2>1, <2>2 DEF Base
  <2>6. PackInv'
    <3>1. packPromise' = "none" => waiting = <<>> /\ C = <<>>
      BY <2>1, <2>2 DEF DataInv, PackInv, GetPack, OpenLater
    <3>2. packPromise' = "none" => waiting' = <<>>
      BY <2>1, <3>1
    <3> QED
      BY <2>1, <2>2, <3>2 DEF DataInv, PackInv, GetPack, OpenLater
  <2>7. \A i \in DOMAIN waiting' :
           \/ i \in DOMAIN waiting /\ waiting'[i] = waiting[i]
           \/ i - Len(waiting) \in DOMAIN C /\ waiting'[i] = C[i - Len(waiting)] /\ i > Len(waiting)
    BY <1>1, <2>3
  <2>8. OrderInv'
    <3>1. \A k \in Key, i \in DOMAIN waiting' : Writes(waiting'[i], k) =>
            Base'[k] <= waiting'[i].ver /\ waiting'[i].ver <= latest'[k]
      BY <1>2, <2>5, <2>7 DEF DataInv, OrderInv
    <3>2. ASSUME NEW k \in Key, NEW i \in DOMAIN waiting', NEW j \in DOMAIN waiting',
                 i < j, Writes(waiting'[i], k), Writes(waiting'[j], k)
          PROVE  waiting'[i].ver <= waiting'[j].ver
      <4>1. CASE j \in DOMAIN waiting
        <5>1. i \in DOMAIN waiting
          BY <1>1, <2>3, <3>2, <4>1
        <5> QED
          BY <1>1, <2>3, <3>2, <4>1, <5>1 DEF DataInv, OrderInv
      <4>2. CASE j \notin DOMAIN waiting
        BY <1>2, <2>7, <3>1, <3>2, <4>2
      <4> QED
        BY <4>1, <4>2
    <3> QED
      BY <2>5, <3>1, <3>2 DEF DataInv, OrderInv
  <2>9. PresentInv'
    <3> SUFFICES ASSUME failures = 0
                 PROVE  /\ ~stale'
                        /\ \A k \in Key : (Position(k) = {})' =>
                              \/ Base'[k] = latest'[k]
                              \/ \E i \in DOMAIN waiting' : Writes(waiting'[i], k) /\ waiting'[i].ver = latest'[k]
                        /\ \A i \in DOMAIN waiting' : waiting'[i].op = "get" =>
                              \/ waiting'[i].ver <= Base'[waiting'[i].key]
                              \/ \E j \in DOMAIN waiting' : /\ j < i /\ Writes(waiting'[j], waiting'[i].key)
                                                            /\ waiting'[i].ver <= waiting'[j].ver
      BY DEF PresentInv
    <3>1. \A i \in DOMAIN waiting : i \in DOMAIN waiting' /\ waiting'[i] = waiting[i]
      BY <1>1, <2>3
    <3>2. \A i \in DOMAIN C : i + Len(waiting) \in DOMAIN waiting' /\ waiting'[i + Len(waiting)] = C[i]
      BY <1>1, <2>3
    <3>3. \A k \in Key : Position(k) = {} =>
             Base[k] = latest[k] \/ \E i \in DOMAIN waiting : Writes(waiting[i], k) /\ waiting[i].ver = latest[k]
      BY DEF DataInv, PresentInv
    <3>4. ASSUME NEW k \in Key, (Position(k) = {})'
          PROVE  \/ Base'[k] = latest'[k]
                 \/ \E i \in DOMAIN waiting' : Writes(waiting'[i], k) /\ waiting'[i].ver = latest'[k]
      <4>1. CASE Position(k) = {}
        BY <2>5, <3>1, <3>3, <4>1
      <4>2. CASE \E i \in DOMAIN C : Writes(C[i], k)
        BY <1>2, <3>2, <4>2
      <4> QED
        BY <3>4, <4>1, <4>2
    <3>5. ASSUME NEW i \in DOMAIN waiting', waiting'[i].op = "get"
          PROVE  \/ waiting'[i].ver <= Base'[waiting'[i].key]
                 \/ \E j \in DOMAIN waiting' : /\ j < i /\ Writes(waiting'[j], waiting'[i].key)
                                               /\ waiting'[i].ver <= waiting'[j].ver
      <4>1. CASE i \in DOMAIN waiting
        BY <2>5, <3>1, <3>5, <4>1 DEF DataInv, PresentInv
      <4>2. CASE i \notin DOMAIN waiting
        <5>1. i > Len(waiting) /\ waiting'[i] = C[i - Len(waiting)] /\ i - Len(waiting) \in DOMAIN C
          BY <2>7, <4>2
        <5>2. /\ waiting'[i].key \in Key /\ waiting'[i].ver = latest[waiting'[i].key]
              /\ Position(waiting'[i].key) = {}
          BY <1>1, <3>5, <5>1, CallbackFacts
        <5>3. CASE Base[waiting'[i].key] = latest[waiting'[i].key]
          BY <1>2, <2>5, <5>2, <5>3
        <5>4. ASSUME NEW j \in DOMAIN waiting, Writes(waiting[j], waiting'[i].key),
                     waiting[j].ver = latest[waiting'[i].key]
              PROVE  \E l \in DOMAIN waiting' : /\ l < i /\ Writes(waiting'[l], waiting'[i].key)
                                                /\ waiting'[i].ver <= waiting'[l].ver
          <6>1. j \in Nat /\ i \in Nat /\ j < i
            BY <1>1, <2>3, <5>1
          <6>2. waiting'[i].ver <= waiting'[j].ver
            BY <1>2, <3>1, <5>2, <5>4
          <6> QED
            BY <3>1, <5>4, <6>1, <6>2
        <5> QED
          BY <3>3, <5>2, <5>3, <5>4
      <4> QED
        BY <4>1, <4>2
    <3>6. ~stale'
      BY <2>1 DEF DataInv, PresentInv
    <3> QED
      BY <3>4, <3>5, <3>6
  <2> QED
    BY <1>4, <2>1, <2>2, <2>4, <2>6, <2>8, <2>9 DEF DataInv
<1> QED
  BY <1>3, <1>4

(***************************************************************************)
(* The pending tasks, and the links that wait.                             *)
(***************************************************************************)

\* Callbacks without afterAllStored write nothing, and wait for a pack that is not open.
LEMMA OnPackWaits ==
  ASSUME Types, DataInv, PackTypes', NEW C \in Seq(Callback),
         \A i \in DOMAIN C : C[i].op # "flush",
         packPromise = "ready" => RunLeaves(items, dirty, C),
         packPromise # "ready" => waiting' = waiting \o C /\ UNCHANGED storing
  PROVE  /\ storing' = storing
         /\ packPromise = "ready" => waiting' = <<>>
         /\ \A op \in {"store", "fetch", "get", "flush"} :
               Waits(op)' <=> Waits(op) \/ (packPromise # "ready" /\ \E i \in DOMAIN C : C[i].op = op)
<1>1. /\ DOMAIN C = 1 .. Len(C) /\ Len(C) \in Nat
      /\ waiting \in Seq(Callback) /\ DOMAIN waiting = 1 .. Len(waiting) /\ Len(waiting) \in Nat
  BY LenProperties DEF Types, PackTypes
<1>2. CASE packPromise = "ready"
  <2>1. ~GivenUp(dirty, C)
    BY DEF GivenUp
  <2>2. ~storing' /\ packPromise' = "ready" /\ waiting' = <<>>
    BY <1>2, <2>1 DEF RunLeaves
  <2>3. ~storing /\ waiting = <<>> /\ storing \in BOOLEAN /\ storing' \in BOOLEAN
    <3>1. ~storing /\ waiting = <<>>
      BY <1>2 DEF DataInv, PackInv
    <3> QED
      BY <1>2, <2>2, <3>1 DEF Types, PackTypes, RunLeaves
  <2> QED
    BY <1>2, <2>2, <2>3 DEF Waits
<1>3. CASE packPromise # "ready"
  <2>1. /\ waiting' = waiting \o C /\ DOMAIN waiting' = 1 .. (Len(waiting) + Len(C))
        /\ \A i \in DOMAIN waiting' : waiting'[i] = IF i <= Len(waiting) THEN waiting[i] ELSE C[i - Len(waiting)]
    BY <1>1, <1>3, ConcatProperties, LenProperties
  <2>2. \A i \in DOMAIN waiting : i \in DOMAIN waiting' /\ waiting'[i] = waiting[i]
    BY <1>1, <2>1
  <2>3. \A i \in DOMAIN C : i + Len(waiting) \in DOMAIN waiting' /\ waiting'[i + Len(waiting)] = C[i]
    BY <1>1, <2>1
  <2>4. \A i \in DOMAIN waiting' :
           \/ i \in DOMAIN waiting /\ waiting'[i] = waiting[i]
           \/ i - Len(waiting) \in DOMAIN C /\ waiting'[i] = C[i - Len(waiting)]
    BY <1>1, <2>1
  <2>5. \A op \in {"store", "fetch", "get", "flush"} :
           Waits(op)' <=> Waits(op) \/ \E i \in DOMAIN C : C[i].op = op
    BY <2>2, <2>3, <2>4 DEF Waits
  <2> QED
    BY <1>3, <2>5
<1> QED
  BY <1>2, <1>3

LEMMA AsStoresFacts ==
  ASSUME NEW P \in Seq(Item)
  PROVE  /\ AsStores(P) \in Seq(Callback)
         /\ DOMAIN AsStores(P) = DOMAIN P
         /\ \A i \in DOMAIN P : /\ AsStores(P)[i].op = "store" /\ AsStores(P)[i].key = P[i].key
                                /\ AsStores(P)[i].ver = P[i].ver
         /\ P = <<>> => AsStores(P) = <<>>
<1>1. DOMAIN P = 1 .. Len(P) /\ Len(P) \in Nat /\ \A i \in DOMAIN P : P[i] \in Item
  BY LenProperties
<1>2. \A i \in DOMAIN P : [op |-> "store", key |-> P[i].key, ver |-> P[i].ver] \in Callback
  BY <1>1 DEF Item, Callback
<1>3. AsStores(P) \in [1 .. Len(P) -> Callback]
  BY <1>1, <1>2 DEF AsStores
<1>4. AsStores(P) \in Seq(Callback)
  BY <1>1, <1>3
<1>5. P = <<>> => AsStores(P) = <<>>
  BY <1>1, <1>4, EmptySeq DEF AsStores
<1> QED
  BY <1>4, <1>5 DEF AsStores

\* Tasks are only taken out.
LEMMA PendingShrinks ==
  ASSUME Types, PendingInv, UNCHANGED latest, PendingTypes',
         NEW f \in [DOMAIN pending' -> DOMAIN pending],
         \A i, j \in DOMAIN pending' : f[i] = f[j] => i = j,
         \A i \in DOMAIN pending' : pending'[i] = pending[f[i]]
  PROVE  PendingInv'
BY DEF PendingInv

\* A link that is not waiting leaves the chain ...
LEMMA LinkPopped ==
  ASSUME Types, LinkInv, chain # <<>>, ~chain[1].waits, chain' = Tail(chain),
         UNCHANGED <<storing, waiting>>
  PROVE  ChainTypes' /\ LinkInv'
<1>1. /\ DOMAIN chain = 1 .. Len(chain) /\ Len(chain) \in Nat \ {0}
      /\ chain' \in Seq(Link) /\ DOMAIN chain' = 1 .. (Len(chain) - 1)
      /\ \A i \in DOMAIN chain' : chain'[i] = chain[i + 1] /\ i + 1 \in DOMAIN chain
  <2>1. chain \in Seq(Link)
    BY DEF Types, ChainTypes
  <2>2. Len(chain) \in Nat \ {0} /\ DOMAIN chain = 1 .. Len(chain)
    BY <2>1, EmptySeq, LenProperties
  <2>3. /\ chain' \in Seq(Link) /\ Len(chain') = Len(chain) - 1 /\ DOMAIN chain' = 1 .. Len(chain')
        /\ \A i \in 1 .. Len(chain') : chain'[i] = chain[i + 1]
    BY <2>1, HeadTailProperties, LenProperties
  <2> QED
    BY <2>2, <2>3
<1>2. ~storing /\ ~Waits("flush")
  BY DEF LinkInv
<1>3. ~storing' /\ ~Waits("flush")' /\ (Waits("store")' <=> Waits("store"))
  BY <1>2 DEF Waits
<1>4. ASSUME Waits("store")
      PROVE  \E i \in DOMAIN chain' : chain'[i].kind \in {"chunk", "jobs"} /\ chain'[i].waits
  <2>1. PICK i \in DOMAIN chain : chain[i].kind \in {"chunk", "jobs"} /\ chain[i].waits
    BY <1>4 DEF LinkInv
  <2>2. i # 1
    BY <2>1
  <2>3. i - 1 \in DOMAIN chain' /\ chain'[i - 1] = chain[i]
    BY <1>1, <2>2
  <2> QED
    BY <2>1, <2>3
<1>5. \A i \in DOMAIN chain' : i > 1 /\ chain'[i].kind \in {"flush", "final"} => ~chain'[i].waits
  BY <1>1 DEF LinkInv
<1> QED
  BY <1>1, <1>3, <1>4, <1>5 DEF LinkInv, ChainTypes

\* ... and the links of shutdown keep their order.
LEMMA TailFacts ==
  ASSUME Types, chain # <<>>, NEW L \in Seq(Link), DOMAIN L = DOMAIN chain,
         \A i \in DOMAIN chain : L[i].kind = chain[i].kind, chain' = Tail(L)
  PROVE  /\ chain' \in Seq(Link)
         /\ \A i \in DOMAIN chain' : i + 1 \in DOMAIN chain /\ chain'[i] = L[i + 1] /\ chain'[i].kind = chain[i + 1].kind
         /\ \A i \in DOMAIN chain : i = 1 \/ (i - 1 \in DOMAIN chain' /\ chain'[i - 1].kind = chain[i].kind)
         /\ DOMAIN chain' = 1 .. (Len(chain) - 1) /\ Len(chain) \in Nat \ {0} /\ DOMAIN chain = 1 .. Len(chain)
         /\ 1 \in DOMAIN chain /\ Head(chain) = chain[1]
<1>1. chain \in Seq(Link) /\ Len(chain) \in Nat \ {0} /\ DOMAIN chain = 1 .. Len(chain)
  BY EmptySeq, LenProperties DEF Types, ChainTypes
<1>2. Len(L) = Len(chain) /\ L # <<>>
  BY <1>1, LenProperties
<1>3. /\ chain' \in Seq(Link) /\ Len(chain') = Len(chain) - 1 /\ DOMAIN chain' = 1 .. Len(chain')
      /\ \A i \in 1 .. Len(chain') : chain'[i] = L[i + 1]
  BY <1>2, HeadTailProperties, LenProperties
<1>4. \A i \in DOMAIN chain' : i + 1 \in DOMAIN chain /\ chain'[i] = L[i + 1] /\ chain'[i].kind = chain[i + 1].kind
  BY <1>1, <1>3
<1>5. \A i \in DOMAIN chain : i = 1 \/ (i - 1 \in DOMAIN chain' /\ chain'[i - 1].kind = chain[i].kind)
  BY <1>1, <1>3
<1> QED
  BY <1>1, <1>3, <1>4, <1>5

LEMMA DownLinksPopped ==
  ASSUME Types, DownLinks, chain # <<>>, NEW L \in Seq(Link), DOMAIN L = DOMAIN chain,
         \A i \in DOMAIN chain : L[i].kind = chain[i].kind, chain' = Tail(L)
  PROVE  /\ DownLinks'
         /\ chain[1].kind = "final" => ~HasLink("jobs") /\ ~HasLink("chunk") /\ ~HasLink("final")' /\ HasLink("clear")'
         /\ chain[1].kind = "clear" => ~HasLink("final") /\ ~HasLink("clear")'
<1>1. /\ \A i \in DOMAIN chain' : i + 1 \in DOMAIN chain /\ chain'[i].kind = chain[i + 1].kind
      /\ \A i \in DOMAIN chain : i = 1 \/ (i - 1 \in DOMAIN chain' /\ chain'[i - 1].kind = chain[i].kind)
      /\ DOMAIN chain' = 1 .. (Len(chain) - 1) /\ Len(chain) \in Nat \ {0} /\ DOMAIN chain = 1 .. Len(chain)
      /\ 1 \in DOMAIN chain
  BY TailFacts
<1>0. /\ \A i, j \in DOMAIN chain :
            chain[i].kind = chain[j].kind /\ chain[i].kind \in {"jobs", "final", "clear"} => i = j
      /\ \A i \in DOMAIN chain : chain[i].kind = "chunk" => \E j \in DOMAIN chain : j > i /\ chain[j].kind = "jobs"
  BY DEF DownLinks
<1>2. \A i \in DOMAIN chain' : i \in Nat /\ i >= 1 /\ i + 1 \in DOMAIN chain /\ (i + 1) + 1 = i + 2
  BY <1>1
<1>3. \A i, j \in DOMAIN chain' :
         chain'[i].kind = chain'[j].kind /\ chain'[i].kind \in {"jobs", "final", "clear"} => i = j
  <2> SUFFICES ASSUME NEW i \in DOMAIN chain', NEW j \in DOMAIN chain',
                      chain'[i].kind = chain'[j].kind, chain'[i].kind \in {"jobs", "final", "clear"}
               PROVE  i = j
    OBVIOUS
  <2> DEFINE a == i + 1
             b == j + 1
  <2>0. /\ a \in DOMAIN chain /\ b \in DOMAIN chain
        /\ chain[a].kind = chain[b].kind /\ chain[a].kind \in {"jobs", "final", "clear"}
    BY <1>1
  <2>1. a = b
    <3> HIDE DEF a, b
    <3> QED
      BY <1>0, <2>0
  <2> QED
    BY <1>2, <2>1
<1>4. ASSUME NEW i \in DOMAIN chain'
      PROVE  /\ chain'[i].kind = "chunk" => \E j \in DOMAIN chain' : j > i /\ chain'[j].kind = "jobs"
             /\ chain'[i].kind = "jobs" => i + 1 \in DOMAIN chain' /\ chain'[i + 1].kind = "final"
             /\ chain'[i].kind = "final" => i + 1 \in DOMAIN chain' /\ chain'[i + 1].kind = "clear"
             /\ chain'[i].kind = "clear" /\ i > 1 => chain'[i - 1].kind = "final"
  <2> DEFINE m == i + 1
  <2>1. m \in DOMAIN chain /\ chain[m].kind = chain'[i].kind /\ m > 1 /\ m \in Nat /\ i \in Nat
    BY <1>1, <1>2
  <2>2. \A j \in DOMAIN chain : j > m => j - 1 \in DOMAIN chain' /\ j - 1 > i /\ chain'[j - 1].kind = chain[j].kind
    BY <1>1, <2>1
  <2>3. chain'[i].kind = "chunk" => \E j \in DOMAIN chain' : j > i /\ chain'[j].kind = "jobs"
    <3> SUFFICES ASSUME chain'[i].kind = "chunk" PROVE \E j \in DOMAIN chain' : j > i /\ chain'[j].kind = "jobs"
      OBVIOUS
    <3>1. PICK j \in DOMAIN chain : j > m /\ chain[j].kind = "jobs"
      <4> HIDE DEF m
      <4> QED
        BY <1>0, <2>1
    <3> QED
      BY <2>2, <3>1
  <2>4. m + 1 \in DOMAIN chain => i + 1 \in DOMAIN chain' /\ chain'[i + 1].kind = chain[m + 1].kind
    BY <1>1, <2>1
  <2>5. i > 1 => i - 1 \in DOMAIN chain' /\ chain'[i - 1].kind = chain[m - 1].kind
    BY <1>1, <2>1
  <2> QED
    BY <2>1, <2>3, <2>4, <2>5 DEF DownLinks
<1>5. ASSUME chain[1].kind = "final"
      PROVE  ~HasLink("jobs") /\ ~HasLink("chunk") /\ ~HasLink("final")' /\ HasLink("clear")'
  <2>1. ~HasLink("jobs")
    <3> SUFFICES ASSUME NEW i \in DOMAIN chain, chain[i].kind = "jobs" PROVE FALSE
      BY DEF HasLink
    <3>1. i + 1 \in DOMAIN chain /\ chain[i + 1].kind = "final"
      BY DEF DownLinks
    <3>2. i + 1 = 1
      BY <1>0, <1>1, <1>5, <3>1
    <3> QED
      BY <1>1, <3>2
  <2>2. ~HasLink("chunk")
    BY <2>1 DEF DownLinks, HasLink
  <2>3. ~HasLink("final")'
    <3> SUFFICES ASSUME NEW i \in DOMAIN chain', chain'[i].kind = "final" PROVE FALSE
      BY DEF HasLink
    <3>1. i + 1 \in DOMAIN chain /\ chain[i + 1].kind = "final"
      BY <1>1
    <3>2. i + 1 = 1
      BY <1>0, <1>1, <1>5, <3>1
    <3> QED
      BY <1>2, <3>2
  <2>4. 2 \in DOMAIN chain /\ chain[2].kind = "clear"
    <3>1. 1 + 1 \in DOMAIN chain /\ chain[1 + 1].kind = "clear"
      BY <1>1, <1>5 DEF DownLinks
    <3> QED
      BY <3>1
  <2>5. HasLink("clear")'
    <3>1. 2 - 1 \in DOMAIN chain' /\ chain'[2 - 1].kind = "clear"
      BY <1>1, <2>4
    <3> QED
      BY <3>1 DEF HasLink
  <2> QED
    BY <2>1, <2>2, <2>3, <2>5
<1>6. ASSUME chain[1].kind = "clear" PROVE ~HasLink("final") /\ ~HasLink("clear")'
  <2>1. ~HasLink("final")
    <3> SUFFICES ASSUME NEW i \in DOMAIN chain, chain[i].kind = "final" PROVE FALSE
      BY DEF HasLink
    <3>1. i + 1 \in DOMAIN chain /\ chain[i + 1].kind = "clear"
      BY DEF DownLinks
    <3>2. i + 1 = 1
      BY <1>1, <1>6, <3>1 DEF DownLinks
    <3> QED
      BY <1>1, <3>2
  <2>2. ~HasLink("clear")'
    <3> SUFFICES ASSUME NEW i \in DOMAIN chain', chain'[i].kind = "clear" PROVE FALSE
      BY DEF HasLink
    <3>1. i + 1 \in DOMAIN chain /\ chain[i + 1].kind = "clear"
      BY <1>1
    <3>2. i + 1 = 1
      BY <1>0, <1>1, <1>6, <3>1
    <3> QED
      BY <1>2, <3>2
  <2> QED
    BY <2>1, <2>2
<1> QED
  BY <1>3, <1>4, <1>5, <1>6 DEF DownLinks

\* Links are only added, for what is added to the callbacks that wait.
LEMMA LinksGrow ==
  ASSUME Types, LinkInv, ChainTypes', UNCHANGED storing, Waits("flush")' => Waits("flush"),
         \A i \in DOMAIN chain : i \in DOMAIN chain' /\ chain'[i] = chain[i],
         \A i \in DOMAIN chain' : i \in DOMAIN chain \/ (chain'[i].kind \in {"flush", "final"} => ~chain'[i].waits),
         Waits("store")' => \/ Waits("store")
                            \/ \E i \in DOMAIN chain' : chain'[i].kind \in {"chunk", "jobs"} /\ chain'[i].waits
  PROVE  LinkInv'
<1>1. storing' \/ Waits("flush")' => storing \/ Waits("flush")
  OBVIOUS
<1>2. storing' \/ Waits("flush")' =>
          chain' # <<>> /\ chain'[1].kind \in {"flush", "final"} /\ chain'[1].waits
  <2> SUFFICES ASSUME storing' \/ Waits("flush")'
               PROVE  chain' # <<>> /\ chain'[1].kind \in {"flush", "final"} /\ chain'[1].waits
    OBVIOUS
  <2>1. chain # <<>> /\ chain[1].kind \in {"flush", "final"} /\ chain[1].waits
    BY <1>1 DEF LinkInv
  <2>2. 1 \in DOMAIN chain
    BY <2>1, EmptySeq, LenProperties DEF Types, ChainTypes
  <2>3. 1 \in DOMAIN chain' /\ chain'[1] = chain[1]
    BY <2>2
  <2> QED
    BY <2>1, <2>3
<1>3. \A i \in DOMAIN chain' : i > 1 /\ chain'[i].kind \in {"flush", "final"} => ~chain'[i].waits
  BY DEF LinkInv
<1>4. Waits("store")' => \E i \in DOMAIN chain' : chain'[i].kind \in {"chunk", "jobs"} /\ chain'[i].waits
  BY DEF LinkInv
<1>5. storing' => ~Waits("flush")'
  BY DEF LinkInv
<1> QED
  BY <1>2, <1>3, <1>4, <1>5 DEF LinkInv

(***************************************************************************)
(* The invariant holds initially, and every step preserves it.             *)
(***************************************************************************)

LEMMA DataKept ==
  ASSUME DataInv, UNCHANGED <<latest, pending, pack, disk, failures>>
  PROVE  DataInv'
<1>1. /\ UNCHANGED <<packPromise, storing, saving, items, dirty, waiting, stale>>
      /\ UNCHANGED <<latest, pending, disk, failures>>
  BY DEF pack
<1>2. Base' = Base /\ \A k \in Key : Position(k)' = Position(k)
  BY <1>1 DEF Base, Position
<1>3. PackInv'
  BY <1>1 DEF DataInv, PackInv
<1>4. OrderInv'
  BY <1>1, <1>2 DEF DataInv, OrderInv
<1>5. PresentInv'
  BY <1>1, <1>2 DEF DataInv, PresentInv
<1> QED
  BY <1>3, <1>4, <1>5 DEF DataInv

LEMMA InitInv == Init => IInv
<1> SUFFICES ASSUME Init PROVE IInv
  OBVIOUS
<1>1. Nothing \in [Key -> Version] /\ 0 \in Version /\ 0 \in 0 .. MaxBuilds /\ 0 \in 0 .. MaxFailures
  BY BoundsAssumption DEF Nothing, Version
<1>2. latest = Nothing /\ disk = Nothing /\ saving = Nothing /\ items = Nothing
  BY DEF Init, Nothing
<1>3. Types
  <2>1. ClientTypes
    BY <1>1, <1>2 DEF Init, ClientTypes
  <2>2. PendingTypes /\ ChainTypes
    BY EmptySeq DEF Init, PendingTypes, ChainTypes
  <2>3. TimerTypes
    <3>1. isIdle = FALSE /\ begins = 0 /\ builds = 0 /\ chunks = 0 /\ idleTimer = "none" /\ mode = "build"
      BY DEF Init
    <3>2. (IF mode = "build" THEN 0 ELSE 1) = 0
      BY <3>1
    <3>3. begins <= builds + (IF mode = "build" THEN 0 ELSE 1)
      BY <3>1, <3>2
    <3> QED
      BY <3>1, <3>3 DEF TimerTypes
  <2>4. PackTypes
    <3>1. waiting \in Seq(Callback)
      BY EmptySeq DEF Init
    <3> QED
      BY <1>1, <1>2, <3>1 DEF Init, PackTypes
  <2>5. FileTypes
    BY <1>1, <1>2 DEF Init, FileTypes
  <2> QED
    BY <2>1, <2>2, <2>3, <2>4, <2>5 DEF Types
<1>4. DOMAIN pending = {} /\ DOMAIN waiting = {} /\ DOMAIN chain = {}
  BY DEF Init
<1>5. PendingInv
  BY <1>4 DEF PendingInv
<1>6. Base = Nothing
  BY <1>2 DEF Init, Base
<1>7. DataInv
  <2>1. PackInv
    BY DEF Init, PackInv
  <2>2. OrderInv
    BY <1>2, <1>4, <1>6 DEF OrderInv, Nothing
  <2>3. PresentInv
    BY <1>2, <1>4, <1>6 DEF Init, PresentInv
  <2> QED
    BY <2>1, <2>2, <2>3 DEF DataInv
<1>8. LinkInv
  BY <1>4 DEF Init, LinkInv, Waits
<1>9. DownInv
  BY <1>4 DEF Init, DownInv
<1> QED
  BY <1>3, <1>5, <1>7, <1>8, <1>9 DEF IInv

\* The client and its timers: nothing that is stored or waits is touched.
LEMMA ClientStep ==
  ASSUME IInv, UNCHANGED <<latest, pending, chain, pack, files>>, ClientTypes', TimerTypes',
         mode # "down", mode' # "down"
  PROVE  IInv'
<1>1. UNCHANGED <<latest, pending, chain, packPromise, storing, saving, items, dirty, waiting, stale, disk, failures>>
  BY DEF pack, files
<1>2. Types'
  BY <1>1 DEF IInv, Types, PendingTypes, ChainTypes, PackTypes, FileTypes
<1>3. PendingInv'
  BY <1>1 DEF IInv, PendingInv
<1>4. DataInv'
  BY <1>1, DataKept DEF IInv
<1>5. LinkInv'
  BY <1>1 DEF IInv, LinkInv, Waits
<1>6. DownInv'
  BY <1>1 DEF IInv, DownInv
<1> QED
  BY <1>2, <1>3, <1>4, <1>5, <1>6 DEF IInv

LEMMA BeginIdleStep == IInv /\ BeginIdle => IInv'
<1> SUFFICES ASSUME IInv, BeginIdle PROVE IInv'
  OBVIOUS
<1>1. ClientTypes' /\ TimerTypes'
  BY DEF IInv, Types, ClientTypes, TimerTypes, BeginIdle
<1> QED
  BY <1>1, ClientStep DEF BeginIdle

LEMMA EndIdleStep == IInv /\ EndIdle => IInv'
<1> SUFFICES ASSUME IInv, EndIdle PROVE IInv'
  OBVIOUS
<1>1. ClientTypes'
  BY BoundsAssumption DEF IInv, Types, ClientTypes, EndIdle
<1>2. TimerTypes'
  <2>1. /\ builds \in Nat /\ begins \in Nat /\ chunks \in Nat /\ begins <= builds + 1
        /\ idleTimer = "begin" => begins > 0
    BY BoundsAssumption DEF IInv, Types, ClientTypes, TimerTypes, EndIdle
  <2>2. /\ mode' = "build" /\ builds' = builds + 1 /\ isIdle' = FALSE /\ idleTimer' = "none"
        /\ begins' = IF idleTimer = "begin" THEN begins - 1 ELSE begins
        /\ chunks' = IF idleTimer = "chunk" THEN chunks - 1 ELSE chunks
    BY DEF EndIdle, ClearTimer
  <2>3. begins' \in Nat /\ begins' <= builds' + (IF mode' = "build" THEN 0 ELSE 1)
    BY <2>1, <2>2
  <2>4. chunks' \in Nat
    BY <2>1, <2>2 DEF IInv, Types, TimerTypes
  <2> QED
    BY <2>2, <2>3, <2>4 DEF TimerTypes
<1> QED
  BY <1>1, <1>2, ClientStep DEF EndIdle

\* The new version has a pending task.
LEMMA StoreStep == \A k \in Key : IInv /\ Store(k) => IInv'
<1> SUFFICES ASSUME NEW k \in Key, IInv, Store(k) PROVE IInv'
  OBVIOUS
<1> DEFINE item == [key |-> k, ver |-> latest[k] + 1]
<1>1. /\ latest \in [Key -> Version] /\ mode = "build" /\ latest[k] < MaxVersion
      /\ latest' = [latest EXCEPT ![k] = @ + 1] /\ latest[k] \in Nat
      /\ UNCHANGED <<mode, builds, isIdle, begins, chunks, idleTimer, chain, disk, failures>>
      /\ UNCHANGED <<packPromise, storing, saving, items, dirty, waiting, stale>>
      /\ pending \in Seq(Item) /\ DOMAIN pending = 1 .. Len(pending) /\ Len(pending) \in Nat
      /\ \A i \in DOMAIN pending : pending[i] \in Item
  <2>1. latest \in [Key -> Version] /\ pending \in Seq(Item)
    BY DEF IInv, Types, ClientTypes, PendingTypes
  <2>2. latest[k] \in Nat
    BY <2>1, VersionsAreNumbers
  <2>3. DOMAIN pending = 1 .. Len(pending) /\ Len(pending) \in Nat /\ \A i \in DOMAIN pending : pending[i] \in Item
    BY <2>1, LenProperties
  <2> QED
    BY <2>1, <2>2, <2>3 DEF Store, timers, pack, files
<1>2. /\ latest[k] + 1 \in Version /\ latest' \in [Key -> Version]
      /\ latest'[k] = latest[k] + 1 /\ \A l \in Key : l # k => latest'[l] = latest[l]
  <2>1. latest[k] + 1 \in Version
    BY <1>1, BoundsAssumption DEF Version
  <2> QED
    BY <1>1, <2>1
<1>3. item \in Item /\ item.key = k /\ item.ver = latest[k] + 1
  BY <1>2 DEF Item
<1>4. pending' = IF Position(k) = {} THEN Append(pending, item)
                 ELSE [i \in DOMAIN pending |-> IF i \in Position(k) THEN item ELSE pending[i]]
  BY DEF Store
<1> HIDE DEF item
<1>5. /\ pending' \in Seq(Item)
      /\ \A i \in DOMAIN pending' :
            \/ pending'[i] = item /\ (i \notin DOMAIN pending \/ i \in Position(k))
            \/ i \in DOMAIN pending /\ pending'[i] = pending[i] /\ pending[i].key # k
      /\ \A i, j \in DOMAIN pending' : pending'[i] = item /\ pending'[j] = item => i = j
      /\ \A i \in DOMAIN pending : i \in DOMAIN pending' /\ pending'[i].key = pending[i].key
      /\ \E i \in DOMAIN pending' : pending'[i] = item
  <2>1. CASE Position(k) = {}
    <3>1. /\ pending' \in Seq(Item) /\ Len(pending') = Len(pending) + 1 /\ DOMAIN pending' = 1 .. Len(pending')
          /\ \A i \in 1 .. Len(pending) : pending'[i] = pending[i]
          /\ pending'[Len(pending) + 1] = item
      BY <1>1, <1>3, <1>4, <2>1, AppendProperties, LenProperties
    <3>2. \A i \in DOMAIN pending : pending[i].key # k
      BY <2>1 DEF Position
    <3>3. \A i \in DOMAIN pending' : i \in DOMAIN pending \/ i = Len(pending) + 1
      BY <1>1, <3>1
    <3>4. /\ \A i \in DOMAIN pending : i \in DOMAIN pending' /\ pending'[i] = pending[i]
          /\ Len(pending) + 1 \in DOMAIN pending' /\ Len(pending) + 1 \notin DOMAIN pending
      BY <1>1, <3>1
    <3> QED
      BY <1>3, <3>1, <3>2, <3>3, <3>4
  <2>2. CASE Position(k) # {}
    <3>1. pending' = [i \in 1 .. Len(pending) |-> IF i \in Position(k) THEN item ELSE pending[i]]
      BY <1>1, <1>4, <2>2
    <3>2. pending' \in [1 .. Len(pending) -> Item]
      BY <1>1, <1>3, <3>1
    <3>3. pending' \in Seq(Item) /\ DOMAIN pending' = DOMAIN pending
      BY <1>1, <3>1, <3>2
    <3>4. \A i \in DOMAIN pending : i \in Position(k) <=> pending[i].key = k
      BY DEF Position
    <3>5. \A i, j \in Position(k) : i = j
      BY DEF Position, IInv, PendingInv
    <3>6. \A i \in DOMAIN pending : pending'[i] = IF i \in Position(k) THEN item ELSE pending[i]
      BY <1>1, <3>1
    <3>7. PICK i \in Position(k) : TRUE
      BY <2>2
    <3>8. i \in DOMAIN pending
      BY <3>7 DEF Position
    <3> QED
      BY <1>3, <3>3, <3>4, <3>5, <3>6, <3>7, <3>8
  <2> QED
    BY <2>1, <2>2
<1>6. Types'
  <2>1. ClientTypes' /\ PendingTypes'
    BY <1>1, <1>2, <1>5 DEF IInv, Types, ClientTypes, PendingTypes
  <2>2. TimerTypes' /\ ChainTypes' /\ PackTypes' /\ FileTypes'
    BY <1>1 DEF IInv, Types, TimerTypes, ChainTypes, PackTypes, FileTypes
  <2> QED
    BY <2>1, <2>2 DEF Types
<1>7. PendingInv'
  <2>1. \A i \in DOMAIN pending : pending[i].key \in Key
    BY <1>1 DEF Item
  <2>2. \A i \in DOMAIN pending' : pending'[i].ver = latest'[pending'[i].key]
    BY <1>2, <1>3, <1>5, <2>1 DEF IInv, PendingInv
  <2>3. \A i, j \in DOMAIN pending' : pending'[i].key = pending'[j].key => i = j
    BY <1>3, <1>5 DEF IInv, PendingInv
  <2> QED
    BY <2>2, <2>3 DEF PendingInv
<1>8. Base' = Base /\ Base \in [Key -> Version]
  BY <1>1 DEF Base, IInv, Types, PackTypes, FileTypes
<1>9. DataInv'
  <2>1. PackInv'
    BY <1>1 DEF IInv, DataInv, PackInv
  <2>2. \A l \in Key : latest[l] \in Nat /\ latest[l] <= latest'[l] /\ latest'[l] \in Nat /\ Base[l] \in Nat /\ disk[l] \in Nat
    BY <1>1, <1>2, <1>8, VersionsAreNumbers DEF IInv, Types, FileTypes
  <2>3. \A i \in DOMAIN waiting, l \in Key : Writes(waiting[i], l) => waiting[i].ver \in Nat
    BY CallbackFacts, LenProperties, BoundsAssumption DEF IInv, Types, PackTypes, Version
  <2>4. OrderInv'
    <3>1. \A l \in Key : disk'[l] <= Base'[l] /\ Base'[l] <= latest'[l]
      BY <1>1, <1>8, <2>2 DEF IInv, DataInv, OrderInv
    <3>2. \A l \in Key, i \in DOMAIN waiting : Writes(waiting[i], l) =>
             Base[l] <= waiting[i].ver /\ waiting[i].ver <= latest'[l]
      BY <2>2, <2>3 DEF IInv, DataInv, OrderInv
    <3> QED
      BY <1>1, <1>8, <3>1, <3>2 DEF IInv, DataInv, OrderInv
  <2>5. PresentInv'
    <3>1. \A l \in Key : (Position(l) = {})' => Position(l) = {} /\ l # k
      <4> SUFFICES ASSUME NEW l \in Key, (Position(l) = {})' PROVE Position(l) = {} /\ l # k
        OBVIOUS
      <4>1. \A i \in DOMAIN pending' : pending'[i].key # l
        BY DEF Position
      <4> QED
        BY <1>3, <1>5, <4>1 DEF Position
    <3>2. \A l \in Key : (Position(l) = {})' => Position(l) = {} /\ latest'[l] = latest[l]
      BY <1>2, <3>1
    <3> QED
      BY <1>1, <1>8, <3>2 DEF IInv, DataInv, PresentInv
  <2> QED
    BY <2>1, <2>4, <2>5 DEF DataInv
<1>10. LinkInv' /\ DownInv'
  BY <1>1 DEF IInv, LinkInv, DownInv, Waits
<1> QED
  BY <1>6, <1>7, <1>9, <1>10 DEF IInv

LEMMA NobodyWaits ==
  ASSUME waiting \in Seq(Callback), ~Waits("store"), ~Waits("fetch"), ~Waits("get"), ~Waits("flush")
  PROVE  waiting = <<>>
<1>1. \A i \in DOMAIN waiting : FALSE
  BY CallbackFacts, LenProperties DEF Waits
<1>2. 1 .. Len(waiting) = {} /\ Len(waiting) \in Nat
  BY <1>1, LenProperties
<1>3. Len(waiting) = 0
  BY <1>2
<1> QED
  BY <1>3, EmptySeq

LEMMA NothingPending ==
  ASSUME pending = <<>> PROVE \A k \in Key : Position(k) = {}
<1>1. DOMAIN pending = {}
  OBVIOUS
<1> QED
  BY <1>1 DEF Position

\* The last version is on the disk, unless the write has failed.
LEMMA WrittenStep == \A ok \in BOOLEAN : IInv /\ Written(ok) => IInv'
<1> SUFFICES ASSUME NEW ok \in BOOLEAN, IInv, Written(ok) PROVE IInv'
  OBVIOUS
<1>1. /\ storing /\ ~storing' /\ storing' \in BOOLEAN /\ chain' = Tail(chain) /\ saving' = Nothing
      /\ packPromise' = IF packPromise = "queued" THEN "opening" ELSE packPromise
      /\ UNCHANGED <<mode, latest, builds, pending, isIdle, begins, chunks, idleTimer>>
      /\ UNCHANGED <<items, dirty, waiting, stale>>
      /\ packPromise \in {"none", "queued"}
  BY DEF Written, client, timers, IInv, DataInv, PackInv
<1>2. /\ Base = saving /\ Base' = disk'
      /\ \/ disk' = saving /\ failures' = failures
         \/ disk' = disk /\ failures' = failures + 1 /\ failures < MaxFailures
  BY <1>1 DEF Base, Written
<1>3. /\ saving \in [Key -> Version] /\ disk \in [Key -> Version] /\ disk' \in [Key -> Version]
      /\ latest \in [Key -> Version]
      /\ failures \in 0 .. MaxFailures /\ failures' \in 0 .. MaxFailures
  BY <1>2, BoundsAssumption DEF IInv, Types, ClientTypes, PackTypes, FileTypes
<1>4. \A k \in Key : /\ disk[k] \in Nat /\ saving[k] \in Nat /\ disk'[k] \in Nat /\ latest[k] \in Nat
                     /\ disk[k] <= saving[k] /\ saving[k] <= latest[k] /\ disk'[k] <= saving[k]
  BY <1>2, <1>3, VersionsAreNumbers DEF IInv, DataInv, OrderInv
<1>5. chain # <<>> /\ chain[1].kind \in {"flush", "final"} /\ chain[1].waits /\ ~Waits("flush")
  BY <1>1 DEF IInv, LinkInv
<1>6. /\ chain' \in Seq(Link) /\ DOMAIN chain' = 1 .. (Len(chain) - 1) /\ Len(chain) \in Nat \ {0}
      /\ DOMAIN chain = 1 .. Len(chain)
      /\ \A i \in DOMAIN chain' : i + 1 \in DOMAIN chain /\ chain'[i] = chain[i + 1]
      /\ \A i \in DOMAIN chain : i = 1 \/ (i - 1 \in DOMAIN chain' /\ chain'[i - 1].kind = chain[i].kind)
  BY <1>1, <1>5, TailFacts DEF IInv, Types, ChainTypes
<1>7. Types'
  <2>1. ClientTypes' /\ PendingTypes' /\ TimerTypes'
    BY <1>1 DEF IInv, Types, ClientTypes, PendingTypes, TimerTypes
  <2>2. PackTypes'
    <3>1. Nothing \in [Key -> Version]
      BY BoundsAssumption DEF Nothing, Version
    <3> QED
      BY <1>1, <3>1 DEF IInv, Types, PackTypes
  <2> QED
    BY <1>3, <1>6, <2>1, <2>2 DEF Types, FileTypes, ChainTypes
<1>8. PendingInv'
  BY <1>1 DEF IInv, PendingInv
<1>9. \A i \in DOMAIN waiting, k \in Key : Writes(waiting[i], k) => waiting[i].ver \in Nat
  BY CallbackFacts, LenProperties, BoundsAssumption DEF IInv, Types, PackTypes, Version
<1>10. DataInv'
  <2>1. PackInv'
    BY <1>1 DEF IInv, DataInv, PackInv
  <2>2. OrderInv'
    <3>1. \A k \in Key, i \in DOMAIN waiting : Writes(waiting[i], k) =>
             disk'[k] <= waiting[i].ver /\ waiting[i].ver <= latest[k]
      BY <1>2, <1>4, <1>9 DEF IInv, DataInv, OrderInv
    <3>2. \A k \in Key : disk'[k] <= Base'[k] /\ Base'[k] <= latest[k]
      BY <1>2, <1>4
    <3> QED
      BY <1>1, <1>2, <3>1, <3>2 DEF IInv, DataInv, OrderInv
  <2>3. PresentInv'
    <3>1. failures' = 0 => failures = 0 /\ Base' = Base
      BY <1>2, <1>3
    <3>2. \A k \in Key : Position(k)' = Position(k)
      BY <1>1 DEF Position
    <3> QED
      BY <1>1, <3>1, <3>2 DEF IInv, DataInv, PresentInv
  <2> QED
    BY <2>1, <2>2, <2>3 DEF DataInv
<1>11. LinkInv'
  <2>1. ~Waits("flush")' /\ (Waits("store")' <=> Waits("store"))
    BY <1>1, <1>5 DEF Waits
  <2>2. ASSUME Waits("store")
        PROVE  \E i \in DOMAIN chain' : chain'[i].kind \in {"chunk", "jobs"} /\ chain'[i].waits
    <3>1. PICK i \in DOMAIN chain : chain[i].kind \in {"chunk", "jobs"} /\ chain[i].waits
      BY <2>2 DEF IInv, LinkInv
    <3>2. i # 1
      BY <1>5, <3>1
    <3>3. i - 1 \in DOMAIN chain' /\ (i - 1) + 1 = i
      BY <1>6, <3>2
    <3>4. chain'[i - 1] = chain[i]
      BY <1>6, <3>3
    <3> QED
      BY <3>1, <3>3, <3>4
  <2>3. \A i \in DOMAIN chain' : i > 1 /\ chain'[i].kind \in {"flush", "final"} => ~chain'[i].waits
    BY <1>6 DEF IInv, LinkInv
  <2> QED
    BY <1>1, <2>1, <2>2, <2>3 DEF LinkInv
<1>12. DownInv'
  <2>1. mode' # "down" => \A i \in DOMAIN chain' : chain'[i].kind \in {"chunk", "flush"}
    BY <1>1, <1>6 DEF IInv, DownInv
  <2>2. ASSUME mode = "down" PROVE pending' = <<>> /\ ~Waits("get")' /\ ~Waits("fetch")' /\ DownLinks'
    <3>1. pending' = <<>> /\ ~Waits("get")' /\ ~Waits("fetch")'
      BY <1>1, <2>2 DEF IInv, DownInv, Waits
    <3> QED
      BY <1>1, <1>5, <2>2, <3>1, DownLinksPopped DEF IInv, DownInv, Types, ChainTypes
  <2>3. ASSUME mode = "down" PROVE HasLink("final") /\ pending = <<>> /\ DownLinks
    BY <1>1, <2>3 DEF IInv, DownInv, Landed
  <2>4. ASSUME mode = "down", ~HasLink("final")' PROVE Landed'
    <3>1. chain[1].kind = "final"
      <4>1. PICK i \in DOMAIN chain : chain[i].kind = "final"
        BY <2>3, <2>4 DEF HasLink
      <4>2. i = 1
        BY <1>6, <2>4, <4>1 DEF HasLink
      <4> QED
        BY <4>1, <4>2
    <3>2. ~HasLink("jobs") /\ ~HasLink("chunk") /\ HasLink("clear")'
      BY <1>1, <1>5, <2>3, <2>4, <3>1, DownLinksPopped DEF IInv, Types, ChainTypes
    <3>3. ~Waits("store")
      BY <3>2 DEF IInv, LinkInv, HasLink
    <3>4. waiting = <<>>
      BY <1>5, <2>4, <3>3, NobodyWaits DEF IInv, DownInv, Types, PackTypes
    <3>5. failures' = 0 => disk' = latest
      <4> SUFFICES ASSUME failures' = 0 PROVE disk' = latest
        OBVIOUS
      <4>1. failures = 0 /\ disk' = saving
        BY <1>2, <1>3
      <4>2. \A k \in Key : Position(k) = {}
        BY <2>3, <2>4, NothingPending
      <4>3. \A k \in Key : saving[k] = latest[k]
        BY <1>2, <3>4, <4>1, <4>2 DEF IInv, DataInv, PresentInv
      <4> QED
        BY <1>3, <4>1, <4>3
    <3> QED
      BY <1>1, <3>2, <3>4, <3>5 DEF Landed
  <2> QED
    BY <1>1, <2>1, <2>2, <2>4 DEF DownInv
<1> QED
  BY <1>7, <1>8, <1>10, <1>11, <1>12 DEF IInv

\* A link is resolved that leaves the pack alone.  When the last one of
\* shutdown finds nothing to write, everything has landed.
LEMMA PopStep ==
  ASSUME IInv, chain # <<>>, ~chain[1].waits, chain[1].kind # "clear", chain' = Tail(chain),
         chain[1].kind = "final" => packPromise = "none" \/ (packPromise = "ready" /\ ~dirty),
         UNCHANGED <<client, pending, pack, files>>, TimerTypes'
  PROVE  IInv'
<1>1. /\ UNCHANGED <<mode, latest, builds, pending, disk, failures>>
      /\ UNCHANGED <<packPromise, storing, saving, items, dirty, waiting, stale>>
  BY DEF client, pack, files
<1>2. Types /\ LinkInv /\ chain \in Seq(Link)
  BY DEF IInv, Types, ChainTypes
<1>3. ChainTypes' /\ LinkInv'
  BY <1>1, <1>2, LinkPopped
<1>4. Types'
  BY <1>1, <1>2, <1>3 DEF Types, ClientTypes, PendingTypes, PackTypes, FileTypes
<1>5. PendingInv'
  BY <1>1 DEF IInv, PendingInv
<1>6. DataInv'
  BY <1>1, DataKept DEF IInv
<1>7. /\ \A i \in DOMAIN chain' : i + 1 \in DOMAIN chain /\ chain'[i].kind = chain[i + 1].kind
      /\ \A i \in DOMAIN chain : i = 1 \/ (i - 1 \in DOMAIN chain' /\ chain'[i - 1].kind = chain[i].kind)
      /\ 1 \in DOMAIN chain
  BY <1>2, TailFacts
<1>8. DownInv'
  <2>1. mode' # "down" => \A i \in DOMAIN chain' : chain'[i].kind \in {"chunk", "flush"}
    BY <1>1, <1>7 DEF IInv, DownInv
  <2>2. CASE mode = "down"
    <3>1. pending' = <<>> /\ ~Waits("get")' /\ ~Waits("fetch")' /\ DownLinks
      BY <1>1, <2>2 DEF IInv, DownInv, Waits
    <3>2. /\ DownLinks'
          /\ chain[1].kind = "final" => ~HasLink("jobs") /\ ~HasLink("chunk") /\ HasLink("clear")'
      BY <1>2, <3>1, DownLinksPopped
    <3>3. ASSUME ~HasLink("final")', chain[1].kind = "final" PROVE Landed'
      <4>1. ~Waits("store")
        BY <3>2, <3>3 DEF IInv, LinkInv, HasLink
      <4>2. ~storing /\ ~Waits("flush")
        BY <1>2 DEF LinkInv
      <4>3. waiting = <<>>
        BY <1>1, <3>1, <4>1, <4>2, <2>2, NobodyWaits DEF IInv, Types, PackTypes, DownInv
      <4>4. Base = disk
        BY <3>3, <4>2 DEF Base, IInv, DataInv, PackInv
      <4>5. failures = 0 => disk = latest
        <5> SUFFICES ASSUME failures = 0 PROVE disk = latest
          OBVIOUS
        <5>1. \A k \in Key : Position(k) = {}
          BY <1>1, <3>1, NothingPending
        <5>2. \A k \in Key : disk[k] = latest[k]
          BY <4>3, <4>4, <5>1 DEF IInv, DataInv, PresentInv
        <5>3. disk \in [Key -> Version] /\ latest \in [Key -> Version]
          BY DEF IInv, Types, ClientTypes, FileTypes
        <5> QED
          BY <5>2, <5>3
      <4> QED
        BY <1>1, <3>2, <3>3, <4>2, <4>3, <4>5 DEF Landed
    <3>4. ASSUME ~HasLink("final")', chain[1].kind # "final" PROVE Landed'
      <4>1. ~HasLink("final")
        <5> SUFFICES ASSUME NEW i \in DOMAIN chain, chain[i].kind = "final" PROVE FALSE
          BY DEF HasLink
        <5>1. i # 1
          BY <3>4
        <5>2. i - 1 \in DOMAIN chain' /\ chain'[i - 1].kind = "final"
          BY <1>7, <5>1
        <5> QED
          BY <3>4, <5>2 DEF HasLink
      <4>2. HasLink("clear") => HasLink("clear")'
        <5> SUFFICES ASSUME NEW i \in DOMAIN chain, chain[i].kind = "clear" PROVE HasLink("clear")'
          BY DEF HasLink
        <5>1. i - 1 \in DOMAIN chain' /\ chain'[i - 1].kind = "clear"
          BY <1>7
        <5> QED
          BY <5>1 DEF HasLink
      <4>3. Landed
        BY <2>2, <4>1 DEF IInv, DownInv
      <4> QED
        BY <1>1, <4>2, <4>3 DEF Landed
    <3> QED
      BY <2>1, <3>1, <3>2, <3>3, <3>4 DEF DownInv
  <2> QED
    BY <1>1, <2>1, <2>2 DEF DownInv
<1> QED
  BY <1>3, <1>4, <1>5, <1>6, <1>8 DEF IInv

LEMMA HeadFacts ==
  ASSUME Types, chain # <<>> PROVE Head(chain) = chain[1] /\ 1 \in DOMAIN chain
<1>1. chain \in Seq(Link)
  BY DEF Types, ChainTypes
<1> QED
  BY <1>1, EmptySeq, LenProperties

LEMMA ResolveTasksStep == IInv /\ ResolveTasks => IInv'
<1> SUFFICES ASSUME IInv, ResolveTasks PROVE IInv'
  OBVIOUS
<1>1. /\ chain # <<>> /\ chain[1].kind \in {"chunk", "jobs"} /\ ~chain[1].waits /\ chain' = Tail(chain)
      /\ UNCHANGED <<client, pending, pack, files>>
  BY HeadFacts DEF ResolveTasks, IInv
<1>2. UNCHANGED <<isIdle, begins, mode, builds>> /\ (ChunkDone \/ UNCHANGED <<chunks, idleTimer>>)
  BY DEF ResolveTasks, client
<1>3. TimerTypes'
  BY <1>2 DEF IInv, Types, TimerTypes, ChunkDone
<1> QED
  BY <1>1, <1>3, PopStep

\* The end of shutdown, when everything has landed.
LEMMA ClearStep == IInv /\ Clear => IInv'
<1> SUFFICES ASSUME IInv, Clear PROVE IInv'
  OBVIOUS
<1>1. /\ chain # <<>> /\ chain[1].kind = "clear" /\ 1 \in DOMAIN chain /\ chain' = Tail(chain)
      /\ packPromise' = "none" /\ items' = Nothing /\ dirty' = FALSE
      /\ UNCHANGED <<mode, latest, builds, pending, isIdle, begins, chunks, idleTimer>>
      /\ UNCHANGED <<storing, saving, waiting, stale, disk, failures>>
  BY HeadFacts DEF Clear, IInv, client, timers, files
<1>2. mode = "down" /\ DownLinks /\ pending = <<>> /\ ~Waits("get") /\ ~Waits("fetch")
  BY <1>1 DEF IInv, DownInv
<1>3. Types /\ chain \in Seq(Link)
  BY DEF IInv, Types, ChainTypes
<1>4. DownLinks' /\ ~HasLink("final") /\ ~HasLink("clear")'
  BY <1>1, <1>2, <1>3, DownLinksPopped
<1>5. Landed
  BY <1>2, <1>4 DEF IInv, DownInv
<1>6. /\ chain' \in Seq(Link)
      /\ \A i \in DOMAIN chain' : i + 1 \in DOMAIN chain /\ chain'[i] = chain[i + 1] /\ i >= 1 /\ i \in Nat
  BY <1>1, <1>3, TailFacts
<1>7. waiting = <<>> /\ ~storing /\ (failures = 0 => disk = latest) /\ Base' = disk
  BY <1>1, <1>5 DEF Landed, Base
<1>8. Types'
  <2>1. Nothing \in [Key -> Version]
    BY BoundsAssumption DEF Nothing, Version
  <2>2. PackTypes'
    BY <1>1, <1>3, <2>1 DEF Types, PackTypes
  <2>3. ClientTypes' /\ PendingTypes' /\ TimerTypes'
    BY <1>1, <1>3 DEF Types, ClientTypes, PendingTypes, TimerTypes
  <2> QED
    BY <1>1, <1>3, <1>6, <2>2, <2>3 DEF Types, ChainTypes, FileTypes
<1>9. PendingInv'
  BY <1>1 DEF IInv, PendingInv
<1>10. DataInv'
  <2>1. DOMAIN waiting' = {}
    BY <1>1, <1>7
  <2>2. \A k \in Key : disk[k] \in Nat /\ disk[k] <= latest[k]
    <3>1. disk \in [Key -> Version] /\ latest \in [Key -> Version] /\ Base \in [Key -> Version]
      BY DEF IInv, Types, ClientTypes, PackTypes, FileTypes, Base
    <3> QED
      BY <3>1, VersionsAreNumbers DEF IInv, DataInv, OrderInv
  <2>3. PackInv'
    BY <1>1, <1>7 DEF PackInv
  <2>4. OrderInv'
    BY <1>1, <1>7, <2>1, <2>2 DEF OrderInv
  <2>5. PresentInv'
    BY <1>1, <1>7, <2>1 DEF IInv, DataInv, PresentInv
  <2> QED
    BY <2>3, <2>4, <2>5 DEF DataInv
<1>11. LinkInv'
  <2>1. ~storing' /\ ~Waits("flush")' /\ ~Waits("store")'
    BY <1>1, <1>7 DEF Waits
  <2>2. \A i \in DOMAIN chain' : i > 1 /\ chain'[i].kind \in {"flush", "final"} => ~chain'[i].waits
    BY <1>6 DEF IInv, LinkInv
  <2> QED
    BY <2>1, <2>2 DEF LinkInv
<1>12. DownInv'
  BY <1>1, <1>2, <1>4, <1>7 DEF DownInv, Landed, Waits
<1> QED
  BY <1>8, <1>9, <1>10, <1>11, <1>12 DEF IInv

\* Links may change whom they wait for: what they are stays.
LEMMA KindsKept ==
  ASSUME Types, DownLinks, DOMAIN chain' = DOMAIN chain,
         \A i \in DOMAIN chain : chain'[i].kind = chain[i].kind
  PROVE  DownLinks' /\ \A kind \in {"jobs", "final", "clear"} : HasLink(kind)' <=> HasLink(kind)
<1>1. \A i \in DOMAIN chain :
         /\ chain[i].kind = "chunk" => \E j \in DOMAIN chain : j > i /\ chain'[j].kind = "jobs"
         /\ chain[i].kind = "jobs" => i + 1 \in DOMAIN chain /\ chain'[i + 1].kind = "final"
         /\ chain[i].kind = "final" => i + 1 \in DOMAIN chain /\ chain'[i + 1].kind = "clear"
  BY DEF DownLinks
<1>2. ASSUME NEW i \in DOMAIN chain, chain[i].kind = "clear", i > 1
      PROVE  chain'[i - 1].kind = "final"
  <2>1. chain[i - 1].kind = "final"
    BY <1>2 DEF DownLinks
  <2>2. i - 1 \in DOMAIN chain
    <3>1. DOMAIN chain = 1 .. Len(chain) /\ Len(chain) \in Nat
      BY LenProperties DEF Types, ChainTypes
    <3> QED
      BY <1>2, <3>1
  <2> QED
    BY <2>1, <2>2
<1>3. \A i, j \in DOMAIN chain :
         chain'[i].kind = chain'[j].kind /\ chain'[i].kind \in {"jobs", "final", "clear"} => i = j
  BY DEF DownLinks
<1>4. DownLinks'
  BY <1>1, <1>2, <1>3 DEF DownLinks
<1>5. \A kind \in {"jobs", "final", "clear"} : HasLink(kind)' <=> HasLink(kind)
  BY DEF HasLink
<1> QED
  BY <1>4, <1>5

\* afterAllStored is called, and the link waits for it.
LEMMA CallAfterAllStoredStep == IInv /\ CallAfterAllStored => IInv'
<1> SUFFICES ASSUME IInv, CallAfterAllStored PROVE IInv'
  OBVIOUS
<1>1. /\ chain # <<>> /\ 1 \in DOMAIN chain /\ chain[1].kind \in {"flush", "final"} /\ ~chain[1].waits
      /\ UNCHANGED <<client, pending, timers, files>>
  BY HeadFacts DEF CallAfterAllStored, IInv
<1>2. /\ UNCHANGED <<mode, latest, builds, pending, isIdle, begins, chunks, idleTimer, disk, failures>>
      /\ Types /\ LinkInv /\ DataInv /\ chain \in Seq(Link) /\ waiting \in Seq(Callback)
  BY <1>1 DEF client, timers, files, IInv, Types, ChainTypes, PackTypes
<1>3. TimerTypes'
  BY <1>2 DEF Types, TimerTypes
<1>4. CASE packPromise = "none" \/ (packPromise = "ready" /\ ~dirty)
  <2>1. chain' = Tail(chain) /\ UNCHANGED pack
    BY <1>4 DEF CallAfterAllStored
  <2> QED
    BY <1>1, <1>2, <1>3, <1>4, <2>1, PopStep
<1>5. CASE ~(packPromise = "none" \/ (packPromise = "ready" /\ ~dirty))
  <2> DEFINE C == <<[op |-> "flush"]>>
  <2>1. chain' = [chain EXCEPT ![1].waits = TRUE] /\ OnPack(C)
    BY <1>5 DEF CallAfterAllStored
  <2>2. C \in Seq(Callback) /\ DOMAIN C = {1} /\ C[1].op = "flush" /\ C # <<>>
    BY DEF Callback
  <2>3. \A i \in DOMAIN C : C[i].op = "flush"
    BY <2>2
  <2> HIDE DEF C
  <2>4. \A k \in Key : (Position(k) = {})' => Position(k) = {}
    BY <1>2 DEF Position
  <2>5. /\ PackTypes' /\ DataInv'
        /\ packPromise = "ready" => RunLeaves(items, dirty, C)
        /\ packPromise # "ready" => /\ waiting' = waiting \o C
                                    /\ UNCHANGED <<storing, saving, items, dirty, stale>>
    BY <1>2, <2>1, <2>2, <2>3, <2>4, OnPackFacts
  <2>6. ~storing /\ ~Waits("flush")
    BY <1>1, <1>2 DEF LinkInv
  <2>7. /\ chain' \in Seq(Link) /\ DOMAIN chain' = DOMAIN chain
        /\ \A i \in DOMAIN chain : i \in Nat /\ chain'[i].kind = chain[i].kind
        /\ chain'[1].waits /\ \A i \in DOMAIN chain : i # 1 => chain'[i] = chain[i]
    <3> DEFINE head == [chain[1] EXCEPT !.waits = TRUE]
    <3>0. chain[1] \in Link
      BY <1>1, <1>2, LenProperties
    <3>1. head \in Link /\ head.kind = chain[1].kind /\ head.waits
      BY <3>0 DEF Link
    <3>2. chain' = [chain EXCEPT ![1] = head]
      BY <2>1
    <3>3. DOMAIN chain = 1 .. Len(chain) /\ Len(chain) \in Nat /\ 1 \in 1 .. Len(chain)
      BY <1>1, <1>2, LenProperties
    <3> HIDE DEF head
    <3>4. /\ chain' \in Seq(Link) /\ Len(chain') = Len(chain)
          /\ \A j \in 1 .. Len(chain) : chain'[j] = IF j = 1 THEN head ELSE chain[j]
      BY <1>2, <3>1, <3>2, <3>3, ExceptSeq
    <3>5. DOMAIN chain' = DOMAIN chain
      BY <3>3, <3>4, LenProperties
    <3> QED
      BY <3>1, <3>3, <3>4, <3>5
  <2>8. /\ packPromise = "ready" => waiting' = <<>>
        /\ packPromise # "ready" =>
              /\ ~storing'
              /\ \A op \in {"store", "fetch", "get"} : Waits(op)' => Waits(op)
    <3>1. packPromise = "ready" => waiting' = <<>>
      BY <2>3, <2>5 DEF RunLeaves
    <3>2. ASSUME packPromise # "ready", NEW op \in {"store", "fetch", "get"}, Waits(op)' PROVE Waits(op)
      <4>1. PICK i \in DOMAIN waiting' : waiting'[i].op = op
        BY <3>2 DEF Waits
      <4>2. waiting' = waiting \o C /\ DOMAIN waiting' = 1 .. (Len(waiting) + Len(C))
        BY <1>2, <2>2, <2>5, <3>2, ConcatProperties, LenProperties
      <4>3. waiting'[i] = IF i <= Len(waiting) THEN waiting[i] ELSE C[i - Len(waiting)]
        BY <1>2, <2>2, <4>2, ConcatProperties
      <4>4. DOMAIN waiting = 1 .. Len(waiting) /\ Len(waiting) \in Nat /\ DOMAIN C = 1 .. Len(C) /\ Len(C) \in Nat
        BY <1>2, <2>2, LenProperties
      <4>5. i <= Len(waiting)
        BY <2>3, <3>2, <4>1, <4>2, <4>3, <4>4
      <4> QED
        BY <4>1, <4>2, <4>3, <4>4, <4>5 DEF Waits
    <3> QED
      BY <2>5, <2>6, <3>1, <3>2
  <2>9. \A op \in {"store", "fetch", "get"} : Waits(op)' => Waits(op)
    BY <2>8 DEF Waits
  <2>10. LinkInv'
    <3>1. chain' # <<>> /\ chain'[1].kind \in {"flush", "final"} /\ chain'[1].waits
      BY <1>1, <2>7
    <3>2. storing' => ~Waits("flush")'
      BY <2>8 DEF Waits
    <3>3. Waits("store")' => \E i \in DOMAIN chain' : chain'[i].kind \in {"chunk", "jobs"} /\ chain'[i].waits
      <4> SUFFICES ASSUME Waits("store")
                   PROVE  \E i \in DOMAIN chain' : chain'[i].kind \in {"chunk", "jobs"} /\ chain'[i].waits
        BY <2>9
      <4>1. PICK i \in DOMAIN chain : chain[i].kind \in {"chunk", "jobs"} /\ chain[i].waits
        BY <1>2 DEF LinkInv
      <4>2. i # 1
        BY <1>1, <4>1
      <4> QED
        BY <2>7, <4>1, <4>2
    <3>4. \A i \in DOMAIN chain' : i > 1 /\ chain'[i].kind \in {"flush", "final"} => ~chain'[i].waits
      BY <1>2, <2>7 DEF LinkInv
    <3> QED
      BY <3>1, <3>2, <3>3, <3>4 DEF LinkInv
  <2>11. DownInv'
    <3>1. mode' # "down" => \A i \in DOMAIN chain' : chain'[i].kind \in {"chunk", "flush"}
      BY <1>2, <2>7 DEF IInv, DownInv
    <3>2. ASSUME mode = "down" PROVE pending' = <<>> /\ ~Waits("get")' /\ ~Waits("fetch")' /\ DownLinks
      BY <1>2, <2>9, <3>2 DEF IInv, DownInv
    <3>3. ASSUME mode = "down" PROVE HasLink("final")
      <4> SUFFICES ASSUME ~HasLink("final") PROVE FALSE
        OBVIOUS
      <4>1. Landed
        BY <3>3 DEF IInv, DownInv
      <4>2. HasLink("clear")
        BY <1>5, <4>1 DEF Landed
      <4>3. PICK i \in DOMAIN chain : chain[i].kind = "clear"
        BY <4>2 DEF HasLink
      <4>4. i # 1 /\ i \in 1 .. Len(chain) /\ Len(chain) \in Nat
        BY <1>1, <1>2, <4>3, LenProperties
      <4>5. i > 1 /\ i - 1 \in DOMAIN chain
        BY <1>2, <4>4, LenProperties
      <4>6. chain[i - 1].kind = "final"
        BY <3>2, <3>3, <4>3, <4>5 DEF DownLinks
      <4> QED
        BY <4>5, <4>6 DEF HasLink
    <3>4. ASSUME mode = "down" PROVE DownLinks' /\ HasLink("final")'
      BY <1>2, <2>7, <3>2, <3>3, <3>4, KindsKept
    <3> QED
      BY <1>2, <3>1, <3>2, <3>4 DEF DownInv
  <2>12. Types'
    BY <1>2, <1>3, <2>5, <2>7 DEF Types, ClientTypes, PendingTypes, ChainTypes, FileTypes
  <2>13. PendingInv'
    BY <1>2 DEF IInv, PendingInv
  <2> QED
    BY <2>5, <2>10, <2>11, <2>12, <2>13 DEF IInv
<1> QED
  BY <1>4, <1>5

LEMMA SettleFacts ==
  ASSUME chain \in Seq(Link)
  PROVE  /\ Settle(chain) \in Seq(Link) /\ DOMAIN Settle(chain) = DOMAIN chain
         /\ \A i \in DOMAIN chain :
               /\ Settle(chain)[i].kind = chain[i].kind
               /\ chain[i].kind \in {"flush", "final"} => Settle(chain)[i].waits = chain[i].waits
<1> DEFINE settled(i) == [chain[i] EXCEPT !.waits = @ /\ chain[i].kind \notin {"chunk", "jobs"}]
<1>1. DOMAIN chain = 1 .. Len(chain) /\ Len(chain) \in Nat /\ \A i \in DOMAIN chain : chain[i] \in Link
  BY LenProperties
<1>2. \A i \in DOMAIN chain : settled(i) = [kind |-> chain[i].kind,
                                            waits |-> chain[i].waits /\ chain[i].kind \notin {"chunk", "jobs"}]
  BY <1>1 DEF Link
<1>3. \A i \in DOMAIN chain : settled(i) \in Link
  BY <1>1, <1>2 DEF Link
<1>4. Settle(chain) = [i \in 1 .. Len(chain) |-> settled(i)]
  BY <1>1 DEF Settle
<1>5. Settle(chain) \in Seq(Link) /\ DOMAIN Settle(chain) = DOMAIN chain
  <2> HIDE DEF settled
  <2>1. Settle(chain) \in [1 .. Len(chain) -> Link]
    BY <1>1, <1>3, <1>4
  <2> QED
    BY <1>1, <2>1
<1>6. ASSUME NEW i \in DOMAIN chain
      PROVE  /\ Settle(chain)[i].kind = chain[i].kind
             /\ chain[i].kind \in {"flush", "final"} => Settle(chain)[i].waits = chain[i].waits
  <2>1. Settle(chain)[i] = [kind |-> chain[i].kind,
                            waits |-> chain[i].waits /\ chain[i].kind \notin {"chunk", "jobs"}]
    BY <1>1, <1>2, <1>4
  <2>2. chain[i].waits \in BOOLEAN
    BY <1>1 DEF Link
  <2>3. chain[i].kind \in {"flush", "final"} =>
           (chain[i].waits /\ chain[i].kind \notin {"chunk", "jobs"}) = chain[i].waits
    BY <2>2
  <2> QED
    BY <2>1, <2>3
<1> QED
  BY <1>5, <1>6

\* The pack has been read: its callbacks run on what is on the disk.
LEMMA OpenedData ==
  ASSUME IInv, Opened
  PROVE  PackTypes' /\ DataInv' /\ RunLeaves(disk, FALSE, waiting)
         /\ (~Changes(waiting) => ~dirty')
<1>1. /\ packPromise = "opening" /\ RunCallbacks(disk, FALSE, waiting)
      /\ UNCHANGED <<mode, latest, builds, pending, isIdle, begins, chunks, idleTimer, disk, failures>>
  BY DEF Opened, client, timers, files
<1>2. /\ ~storing /\ Base = disk /\ disk \in [Key -> Version] /\ latest \in [Key -> Version]
      /\ waiting \in Seq(Callback) /\ Types
  BY <1>1 DEF IInv, DataInv, PackInv, Base, Types, ClientTypes, PackTypes, FileTypes
<1>3. InSequence(disk, waiting)
  BY <1>2 DEF IInv, DataInv, OrderInv, InSequence
<1>4. failures = 0 => ~stale /\ Findable(disk, waiting)
  BY <1>2 DEF IInv, DataInv, PresentInv, Findable
<1>5. PackTypes' /\ RunLeaves(disk, FALSE, waiting)
  BY <1>1, <1>2, <1>3, <1>4, RunFacts
<1>6. failures = 0 => \A k \in Key : (Position(k) = {})' =>
          disk[k] = latest[k] \/ \E i \in DOMAIN waiting : Writes(waiting[i], k) /\ waiting[i].ver = latest[k]
  <2>1. \A k \in Key : Position(k)' = Position(k)
    BY <1>1 DEF Position
  <2> QED
    BY <1>2, <2>1 DEF IInv, DataInv, PresentInv
<1>7. \A k \in Key : disk[k] <= disk[k]
  BY <1>2, VersionsAreNumbers
<1>8. DataInv'
  BY <1>1, <1>2, <1>3, <1>5, <1>6, <1>7, RunData
<1>9. ~Changes(waiting) => ~dirty'
  BY <1>1 DEF RunCallbacks
<1> QED
  BY <1>5, <1>8, <1>9

LEMMA OpenedStep == IInv /\ Opened => IInv'
<1> SUFFICES ASSUME IInv, Opened PROVE IInv'
  OBVIOUS
<1> DEFINE L == Settle(chain)
<1>1. /\ packPromise = "opening"
      /\ chain' = IF Waits("flush") /\ ~storing' THEN Tail(L) ELSE L
      /\ UNCHANGED <<mode, latest, builds, pending, isIdle, begins, chunks, idleTimer, disk, failures>>
  BY DEF Opened, client, timers, files, Waits
<1>2. /\ PackTypes' /\ DataInv' /\ RunLeaves(disk, FALSE, waiting)
      /\ ~Changes(waiting) => ~dirty'
  BY OpenedData
<1>3. /\ Types /\ LinkInv /\ chain \in Seq(Link) /\ waiting \in Seq(Callback)
      /\ disk \in [Key -> Version] /\ latest \in [Key -> Version]
  BY DEF IInv, Types, ChainTypes, PackTypes, ClientTypes, FileTypes
<1>4. /\ L \in Seq(Link) /\ DOMAIN L = DOMAIN chain
      /\ \A i \in DOMAIN chain : /\ L[i].kind = chain[i].kind
                                 /\ chain[i].kind \in {"flush", "final"} => L[i].waits = chain[i].waits
  BY <1>3, SettleFacts
<1> HIDE DEF L
<1>5. /\ storing' => Waits("flush")
      /\ ~storing' => packPromise' = "ready" /\ waiting' = <<>>
      /\ ~Waits("flush")' /\ ~Waits("store")' /\ ~Waits("fetch")'
      /\ ~Waits("fetch") => waiting' = <<>>
      /\ packPromise' = "ready" /\ ~dirty' => items' = disk
  <2>1. storing' => Waits("flush")
    BY <1>2 DEF RunLeaves, GivenUp, Waits
  <2> QED
    BY <1>2, <2>1 DEF RunLeaves, Waits
<1>6. Waits("flush") => /\ chain # <<>> /\ 1 \in DOMAIN chain
                        /\ chain[1].kind \in {"flush", "final"} /\ chain[1].waits
  BY <1>3, HeadFacts DEF LinkInv
<1>7. mode = "down" => pending = <<>> /\ ~Waits("get") /\ ~Waits("fetch") /\ DownLinks
  BY DEF IInv, DownInv
<1>8. ClientTypes' /\ PendingTypes' /\ TimerTypes' /\ FileTypes' /\ PendingInv'
  BY <1>1 DEF IInv, Types, ClientTypes, PendingTypes, TimerTypes, FileTypes, PendingInv
<1>9. mode = "down" => pending' = <<>> /\ ~Waits("get")' /\ ~Waits("fetch")'
  BY <1>1, <1>5, <1>7 DEF Waits
<1>10. CASE Waits("flush") /\ ~storing'
  <2>1. chain' = Tail(L) /\ chain # <<>> /\ chain[1].kind \in {"flush", "final"} /\ 1 \in DOMAIN chain
    BY <1>1, <1>6, <1>10
  <2>2. /\ chain' \in Seq(Link)
        /\ \A i \in DOMAIN chain' : /\ i + 1 \in DOMAIN chain /\ chain'[i] = L[i + 1]
                                    /\ chain'[i].kind = chain[i + 1].kind
        /\ \A i \in DOMAIN chain : i = 1 \/ (i - 1 \in DOMAIN chain' /\ chain'[i - 1].kind = chain[i].kind)
        /\ DOMAIN chain' = 1 .. (Len(chain) - 1) /\ Len(chain) \in Nat
    BY <1>3, <1>4, <2>1, TailFacts
  <2>3. LinkInv'
    <3>1. ASSUME NEW i \in DOMAIN chain', i > 1, chain'[i].kind \in {"flush", "final"} PROVE ~chain'[i].waits
      <4> DEFINE m == i + 1
      <4>1. m \in DOMAIN chain /\ m > 1 /\ chain'[i] = L[m] /\ chain'[i].kind = chain[m].kind
        BY <2>2, <3>1
      <4> HIDE DEF m
      <4>2. ~chain[m].waits
        BY <1>3, <3>1, <4>1 DEF LinkInv
      <4> QED
        BY <1>4, <3>1, <4>1, <4>2
    <3> QED
      BY <1>5, <1>10, <3>1 DEF LinkInv
  <2>4. mode' # "down" => \A i \in DOMAIN chain' : chain'[i].kind \in {"chunk", "flush"}
    BY <1>1, <2>2 DEF IInv, DownInv
  <2>5. ASSUME mode = "down"
        PROVE  /\ DownLinks'
               /\ chain[1].kind = "final" => ~HasLink("jobs") /\ ~HasLink("chunk") /\ HasLink("clear")'
    BY <1>3, <1>4, <1>7, <2>1, <2>5, DownLinksPopped
  <2>6. ASSUME mode = "down", ~HasLink("final")' PROVE Landed'
    <3>1. HasLink("final")
      BY <1>10, <2>6 DEF IInv, DownInv, Landed, Waits
    <3>2. PICK i \in DOMAIN chain : chain[i].kind = "final"
      BY <3>1 DEF HasLink
    <3>3. i = 1
      BY <2>2, <2>6, <3>2 DEF HasLink
    <3>4. ~HasLink("jobs") /\ ~HasLink("chunk") /\ HasLink("clear")'
      BY <2>5, <2>6, <3>2, <3>3
    <3>5. ~Waits("store")
      BY <1>3, <3>4 DEF LinkInv, HasLink
    <3>6. ~Changes(waiting)
      BY <1>7, <2>6, <3>5 DEF Changes, Waits
    <3>7. waiting' = <<>> /\ ~storing' /\ ~dirty' /\ packPromise' = "ready" /\ items' = disk
      BY <1>2, <1>5, <1>10, <3>6
    <3>8. failures' = 0 => disk' = latest'
      <4> SUFFICES ASSUME failures = 0 PROVE disk = latest
        BY <1>1
      <4>1. \A k \in Key : Position(k)' = {}
        BY <1>1, <1>7, <2>6, NothingPending DEF Position
      <4>2. Base' = disk /\ DOMAIN waiting' = {}
        BY <3>7 DEF Base
      <4>3. \A k \in Key : disk[k] = latest[k]
        BY <1>1, <1>2, <4>1, <4>2 DEF DataInv, PresentInv
      <4> QED
        BY <1>3, <4>3
    <3> QED
      BY <3>4, <3>7, <3>8 DEF Landed
  <2>7. DownInv'
    BY <1>1, <1>9, <2>4, <2>5, <2>6 DEF DownInv
  <2> QED
    BY <1>2, <1>8, <2>2, <2>3, <2>7 DEF IInv, Types, ChainTypes
<1>11. CASE ~(Waits("flush") /\ ~storing')
  <2>1. chain' = L
    BY <1>1, <1>11
  <2>2. LinkInv'
    <3>1. storing' => chain' # <<>> /\ chain'[1].kind \in {"flush", "final"} /\ chain'[1].waits
      <4> SUFFICES ASSUME storing'
                   PROVE  chain' # <<>> /\ chain'[1].kind \in {"flush", "final"} /\ chain'[1].waits
        OBVIOUS
      <4>1. 1 \in DOMAIN chain /\ chain[1].kind \in {"flush", "final"} /\ chain[1].waits
        BY <1>5, <1>6
      <4> QED
        BY <1>4, <2>1, <4>1
    <3>2. \A i \in DOMAIN chain' : i > 1 /\ chain'[i].kind \in {"flush", "final"} => ~chain'[i].waits
      BY <1>3, <1>4, <2>1 DEF LinkInv
    <3> QED
      BY <1>5, <3>1, <3>2 DEF LinkInv
  <2>3. mode' # "down" => \A i \in DOMAIN chain' : chain'[i].kind \in {"chunk", "flush"}
    BY <1>1, <1>4, <2>1 DEF IInv, DownInv
  <2>4. ASSUME mode = "down" PROVE DownLinks' /\ \A kind \in {"jobs", "final", "clear"} : HasLink(kind)' <=> HasLink(kind)
    BY <1>3, <1>4, <1>7, <2>1, <2>4, KindsKept
  <2>5. ASSUME mode = "down", ~HasLink("final")' PROVE Landed'
    <3>1. Landed /\ (HasLink("clear")' <=> HasLink("clear"))
      BY <2>4, <2>5 DEF IInv, DownInv
    <3>2. ~Waits("flush") /\ ~Changes(waiting) /\ HasLink("clear")'
      BY <1>1, <3>1 DEF Landed, Waits, Changes
    <3>3. ~storing' /\ waiting' = <<>> /\ ~dirty'
      BY <1>2, <1>5, <3>2
    <3> QED
      BY <1>1, <3>1, <3>2, <3>3 DEF Landed
  <2>6. DownInv'
    BY <1>1, <1>9, <2>3, <2>4, <2>5 DEF DownInv
  <2> QED
    BY <1>2, <1>4, <1>8, <2>1, <2>2, <2>6 DEF IInv, Types, ChainTypes
<1> QED
  BY <1>10, <1>11

\* The pending task of k is taken out, and nothing else.
LEMMA TakenOut ==
  ASSUME Types, PendingInv, NEW k \in Key, NEW i \in Position(k), UNCHANGED latest,
         pending' = RemoveAt(pending, i)
  PROVE  /\ PendingTypes' /\ PendingInv'
         /\ \A l \in Key : (Position(l) = {})' => Position(l) = {} \/ l = k
<1>2. /\ pending \in Seq(Item) /\ DOMAIN pending = 1 .. Len(pending) /\ Len(pending) \in Nat
      /\ i \in 1 .. Len(pending) /\ pending[i].key = k
      /\ \A j \in 1 .. Len(pending) : pending[j] \in Item
  <2>1. pending \in Seq(Item)
    BY DEF Types, PendingTypes
  <2> QED
    BY <2>1, LenProperties DEF Position
<1> DEFINE A == SubSeq(pending, 1, i - 1)
           B == SubSeq(pending, i + 1, Len(pending))
<1>3. A \in Seq(Item) /\ Len(A) = i - 1 /\ \A j \in 1 .. i - 1 : A[j] = pending[j]
  <2>1. \A j \in 1 .. i - 1 : pending[j] \in Item
    BY <1>2
  <2>2. A \in Seq(Item) /\ Len(A) = (IF 1 <= i - 1 THEN (i - 1) - 1 + 1 ELSE 0)
        /\ \A j \in 1 .. (i - 1) - 1 + 1 : A[j] = pending[1 + j - 1]
    BY <1>2, <2>1, SubSeqProperties
  <2>3. Len(A) = i - 1 /\ \A j \in 1 .. i - 1 : 1 + j - 1 = j
    BY <1>2, <2>2
  <2> QED
    BY <1>2, <2>2, <2>3
<1>4. /\ B \in Seq(Item) /\ Len(B) = Len(pending) - i
      /\ \A j \in 1 .. Len(pending) - i : B[j] = pending[i + j]
  <2>1. \A j \in i + 1 .. Len(pending) : pending[j] \in Item
    BY <1>2
  <2>2. B \in Seq(Item) /\ Len(B) = (IF i + 1 <= Len(pending) THEN Len(pending) - (i + 1) + 1 ELSE 0)
        /\ \A j \in 1 .. Len(pending) - (i + 1) + 1 : B[j] = pending[(i + 1) + j - 1]
    BY <1>2, <2>1, SubSeqProperties
  <2> HIDE DEF B
  <2>3. Len(B) = Len(pending) - i
    <3>1. i \in Int /\ Len(pending) \in Int /\ i <= Len(pending)
      BY <1>2
    <3>2. Len(B) = IF i + 1 <= Len(pending) THEN Len(pending) - (i + 1) + 1 ELSE 0
      BY <2>2
    <3> QED
      BY <3>1, <3>2
  <2>4. ASSUME NEW j \in 1 .. Len(pending) - i PROVE B[j] = pending[i + j]
    <3>1. j \in 1 .. Len(pending) - (i + 1) + 1 /\ (i + 1) + j - 1 = i + j
      BY <1>2
    <3>2. B[j] = pending[(i + 1) + j - 1]
      BY <2>2, <3>1
    <3> QED
      BY <3>1, <3>2
  <2> QED
    BY <2>2, <2>3, <2>4
<1>5. pending' = A \o B
  BY DEF RemoveAt
<1> HIDE DEF A, B
<1> DEFINE index(j) == IF j < i THEN j ELSE j + 1
<1>6. /\ pending' \in Seq(Item) /\ DOMAIN pending' = 1 .. (Len(pending) - 1)
      /\ \A j \in 1 .. (Len(pending) - 1) : pending'[j] = IF j <= i - 1 THEN A[j] ELSE B[j - (i - 1)]
  <2>1. /\ pending' \in Seq(Item) /\ Len(pending') = (i - 1) + (Len(pending) - i)
        /\ \A j \in 1 .. (i - 1) + (Len(pending) - i) : pending'[j] = IF j <= i - 1 THEN A[j] ELSE B[j - (i - 1)]
    <3>1. /\ pending' \in Seq(Item) /\ Len(pending') = Len(A) + Len(B)
          /\ \A j \in 1 .. Len(A) + Len(B) : pending'[j] = IF j <= Len(A) THEN A[j] ELSE B[j - Len(A)]
      <4>1. A \in Seq(Item) /\ B \in Seq(Item)
        BY <1>3, <1>4
      <4>2. /\ A \o B \in Seq(Item) /\ Len(A \o B) = Len(A) + Len(B)
            /\ \A j \in 1 .. Len(A) + Len(B) : (A \o B)[j] = IF j <= Len(A) THEN A[j] ELSE B[j - Len(A)]
        BY <4>1, ConcatProperties
      <4> QED
        BY <1>5, <4>2
    <3>2. Len(A) = i - 1 /\ Len(B) = Len(pending) - i
      BY <1>3, <1>4
    <3> QED
      BY <3>1, <3>2
  <2>2. (i - 1) + (Len(pending) - i) = Len(pending) - 1
    BY <1>2
  <2> QED
    BY <2>1, <2>2, LenProperties
<1>7. \A j \in DOMAIN pending' : index(j) \in DOMAIN pending /\ pending'[j] = pending[index(j)]
  <2> SUFFICES ASSUME NEW j \in DOMAIN pending'
               PROVE  index(j) \in DOMAIN pending /\ pending'[j] = pending[index(j)]
    OBVIOUS
  <2>1. CASE j < i
    BY <1>2, <1>3, <1>6, <2>1
  <2>2. CASE ~(j < i)
    <3>1. j - (i - 1) \in 1 .. Len(pending) - i /\ i + (j - (i - 1)) = j + 1 /\ ~(j <= i - 1)
      BY <1>2, <1>6, <2>2
    <3>2. B[j - (i - 1)] = pending[j + 1]
      BY <1>4, <3>1
    <3> QED
      BY <1>2, <1>6, <2>2, <3>1, <3>2
  <2> QED
    BY <2>1, <2>2
<1>8. PendingTypes'
  BY <1>6 DEF PendingTypes
<1>9. PendingInv'
  <2> DEFINE f == [j \in DOMAIN pending' |-> index(j)]
  <2>1. f \in [DOMAIN pending' -> DOMAIN pending]
    BY <1>7
  <2>2. \A j, m \in DOMAIN pending' : f[j] = f[m] => j = m
    BY <1>2, <1>6
  <2>3. \A j \in DOMAIN pending' : pending'[j] = pending[f[j]]
    BY <1>7
  <2> HIDE DEF f, index
  <2> QED
    BY <1>8, <2>1, <2>2, <2>3, PendingShrinks
<1>10. ASSUME NEW l \in Key, (Position(l) = {})', l # k PROVE Position(l) = {}
  <2> SUFFICES ASSUME NEW m \in DOMAIN pending, pending[m].key = l PROVE FALSE
    BY DEF Position
  <2>1. m # i
    BY <1>2, <1>10
  <2> DEFINE j == IF m < i THEN m ELSE m - 1
  <2>2. j \in DOMAIN pending' /\ index(j) = m
    BY <1>2, <1>6, <2>1
  <2> HIDE DEF j, index
  <2>3. pending'[j].key = l
    BY <1>7, <2>2
  <2> QED
    BY <1>10, <2>2, <2>3 DEF Position
<1> QED
  BY <1>8, <1>9, <1>10

LEMMA GetStep == \A k \in Key : IInv /\ Get(k) => IInv'
<1> SUFFICES ASSUME NEW k \in Key, IInv, Get(k) PROVE IInv'
  OBVIOUS
<1> DEFINE C == Fetch(k)
<1>1. /\ mode = "build" /\ OnPack(C)
      /\ pending' = IF Position(k) = {} THEN pending
                    ELSE RemoveAt(pending, CHOOSE i \in Position(k) : TRUE)
      /\ UNCHANGED <<mode, latest, builds, isIdle, begins, chunks, idleTimer, chain, disk, failures>>
  BY DEF Get, client, timers, files
<1>2. Types /\ PendingInv /\ DataInv /\ LinkInv
  BY DEF IInv
<1>3. /\ C \in Seq(Callback) /\ DOMAIN C = {1}
      /\ C[1].key = k /\ C[1].ver = latest[k]
      /\ C[1].op = IF Position(k) = {} THEN "get" ELSE "fetch"
  <2> DEFINE c == [op |-> IF Position(k) = {} THEN "get" ELSE "fetch", key |-> k, ver |-> latest[k]]
  <2>1. c \in Callback /\ c.key = k /\ c.ver = latest[k] /\ c.op = IF Position(k) = {} THEN "get" ELSE "fetch"
    BY <1>2 DEF Types, ClientTypes, Callback
  <2>2. C = <<c>>
    BY DEF Fetch
  <2> HIDE DEF c
  <2>3. C \in Seq(Callback) /\ DOMAIN C = {1} /\ C[1] = c
    BY <2>1, <2>2
  <2> QED
    BY <2>1, <2>3
<1> HIDE DEF C
<1>4. /\ PendingTypes' /\ PendingInv'
      /\ \A l \in Key : (Position(l) = {})' => Position(l) = {} \/ (l = k /\ Position(k) # {})
  <2>1. CASE Position(k) = {}
    <3>1. pending' = pending
      BY <1>1, <2>1
    <3> QED
      BY <1>1, <1>2, <3>1 DEF Types, PendingTypes, PendingInv, Position
  <2>2. CASE Position(k) # {}
    <3> DEFINE i == CHOOSE i \in Position(k) : TRUE
    <3>1. i \in Position(k)
      BY <2>2
    <3>2. pending' = RemoveAt(pending, i)
      BY <1>1, <2>2
    <3> HIDE DEF i
    <3> QED
      BY <1>1, <1>2, <2>2, <3>1, <3>2, TakenOut
  <2> QED
    BY <2>1, <2>2
<1>5. \A l \in Key : (Position(l) = {})' => Position(l) = {} \/ \E i \in DOMAIN C : Writes(C[i], l)
  BY <1>3, <1>4 DEF Writes
<1>6. /\ PackTypes' /\ DataInv'
      /\ packPromise = "ready" => RunLeaves(items, dirty, C)
      /\ packPromise # "ready" => waiting' = waiting \o C /\ UNCHANGED storing
  BY <1>1, <1>2, <1>3, <1>5, OnPackFacts
<1>7. /\ storing' = storing /\ (Waits("store")' => Waits("store")) /\ (Waits("flush")' => Waits("flush"))
  BY <1>2, <1>3, <1>6, OnPackWaits
<1>8. Types'
  BY <1>1, <1>2, <1>4, <1>6 DEF Types, ClientTypes, TimerTypes, ChainTypes, FileTypes
<1>9. LinkInv'
  BY <1>1, <1>2, <1>7, <1>8, LinksGrow DEF Types
<1>10. DownInv'
  BY <1>1 DEF IInv, DownInv
<1> QED
  BY <1>4, <1>6, <1>8, <1>9, <1>10 DEF IInv

\* A link at the end of the chain.
LEMMA LinkAdded ==
  ASSUME Types, NEW l \in Link, chain' = Append(chain, l)
  PROVE  /\ chain' \in Seq(Link) /\ DOMAIN chain' = 1 .. (Len(chain) + 1) /\ Len(chain) \in Nat
         /\ DOMAIN chain = 1 .. Len(chain)
         /\ \A i \in DOMAIN chain : i \in DOMAIN chain' /\ chain'[i] = chain[i]
         /\ \A i \in DOMAIN chain' : i \in DOMAIN chain \/ i = Len(chain) + 1
         /\ chain'[Len(chain) + 1] = l /\ Len(chain) + 1 \in DOMAIN chain'
<1>1. chain \in Seq(Link) /\ Len(chain) \in Nat /\ DOMAIN chain = 1 .. Len(chain)
  BY LenProperties DEF Types, ChainTypes
<1>2. /\ chain' \in Seq(Link) /\ Len(chain') = Len(chain) + 1
      /\ \A i \in 1 .. Len(chain) : chain'[i] = chain[i]
      /\ chain'[Len(chain) + 1] = l
  BY <1>1, AppendProperties
<1>3. DOMAIN chain' = 1 .. (Len(chain) + 1)
  BY <1>2, LenProperties
<1> QED
  BY <1>1, <1>2, <1>3

\* A flush that comes late, from a timer that shutdown has not cleared.
LEMMA FlushAdded ==
  ASSUME Types, DownLinks, NEW l \in Link, l.kind = "flush", chain' = Append(chain, l)
  PROVE  DownLinks' /\ \A kind \in {"jobs", "final", "clear"} : HasLink(kind)' <=> HasLink(kind)
<1>1. /\ DOMAIN chain' = 1 .. (Len(chain) + 1) /\ Len(chain) \in Nat /\ DOMAIN chain = 1 .. Len(chain)
      /\ \A i \in DOMAIN chain : i \in DOMAIN chain' /\ chain'[i] = chain[i]
      /\ \A i \in DOMAIN chain' : i \in DOMAIN chain \/ chain'[i].kind = "flush"
  BY LinkAdded
<1>2. \A i \in DOMAIN chain : i > 1 => i - 1 \in DOMAIN chain
  BY <1>1
<1>3. \A i, j \in DOMAIN chain' :
         chain'[i].kind = chain'[j].kind /\ chain'[i].kind \in {"jobs", "final", "clear"} => i = j
  <2> SUFFICES ASSUME NEW i \in DOMAIN chain', NEW j \in DOMAIN chain',
                      chain'[i].kind = chain'[j].kind, chain'[i].kind \in {"jobs", "final", "clear"}
               PROVE  i = j
    OBVIOUS
  <2>1. i \in DOMAIN chain /\ j \in DOMAIN chain
    BY <1>1
  <2>2. chain[i].kind = chain[j].kind /\ chain[i].kind \in {"jobs", "final", "clear"}
    BY <1>1, <2>1
  <2> QED
    BY <2>1, <2>2 DEF DownLinks
<1>4. ASSUME NEW i \in DOMAIN chain'
      PROVE  /\ chain'[i].kind = "chunk" => \E j \in DOMAIN chain' : j > i /\ chain'[j].kind = "jobs"
             /\ chain'[i].kind = "jobs" => i + 1 \in DOMAIN chain' /\ chain'[i + 1].kind = "final"
             /\ chain'[i].kind = "final" => i + 1 \in DOMAIN chain' /\ chain'[i + 1].kind = "clear"
             /\ chain'[i].kind = "clear" /\ i > 1 => chain'[i - 1].kind = "final"
  <2>1. CASE i \in DOMAIN chain
    <3>1. chain'[i] = chain[i]
      BY <1>1, <2>1
    <3>2. chain[i].kind = "chunk" => \E j \in DOMAIN chain : j > i /\ chain[j].kind = "jobs"
      BY <2>1 DEF DownLinks
    <3>3. chain[i].kind = "jobs" => i + 1 \in DOMAIN chain /\ chain[i + 1].kind = "final"
      BY <2>1 DEF DownLinks
    <3>4. chain[i].kind = "final" => i + 1 \in DOMAIN chain /\ chain[i + 1].kind = "clear"
      BY <2>1 DEF DownLinks
    <3>5. chain[i].kind = "clear" /\ i > 1 => i - 1 \in DOMAIN chain /\ chain[i - 1].kind = "final"
      BY <1>2, <2>1 DEF DownLinks
    <3> QED
      BY <1>1, <3>1, <3>2, <3>3, <3>4, <3>5
  <2>2. CASE i \notin DOMAIN chain
    BY <1>1, <2>2
  <2> QED
    BY <2>1, <2>2
<1>5. \A kind \in {"jobs", "final", "clear"} : HasLink(kind)' <=> HasLink(kind)
  BY <1>1 DEF HasLink
<1> QED
  BY <1>3, <1>4, <1>5 DEF DownLinks

\* The first n pending tasks are started.
LEMMA ChunkStarted ==
  ASSUME IInv, pending # <<>>, NEW n \in 1 .. Len(pending),
         OnPack(AsStores(SubSeq(pending, 1, n))),
         pending' = SubSeq(pending, n + 1, Len(pending)),
         chain' = Append(chain, [kind |-> "chunk", waits |-> packPromise # "ready"]),
         UNCHANGED <<client, files>>, TimerTypes'
  PROVE  IInv'
<1> DEFINE P == SubSeq(pending, 1, n)
           R == SubSeq(pending, n + 1, Len(pending))
           C == AsStores(P)
           l == [kind |-> "chunk", waits |-> packPromise # "ready"]
<1>1. /\ Types /\ PendingInv /\ DataInv /\ LinkInv
      /\ UNCHANGED <<mode, latest, builds, disk, failures>>
      /\ mode # "down"
  BY DEF client, files, IInv, DownInv
<1>2. /\ pending \in Seq(Item) /\ DOMAIN pending = 1 .. Len(pending) /\ Len(pending) \in Nat
      /\ \A i \in 1 .. Len(pending) : pending[i] \in Item
      /\ n \in Nat /\ n >= 1 /\ n <= Len(pending)
  <2>1. pending \in Seq(Item)
    BY <1>1 DEF Types, PendingTypes
  <2> QED
    BY <2>1, LenProperties
<1>3. P \in Seq(Item) /\ DOMAIN P = 1 .. n /\ \A i \in 1 .. n : P[i] = pending[i]
  <2>1. \A i \in 1 .. n : pending[i] \in Item
    BY <1>2
  <2>2. P \in Seq(Item) /\ Len(P) = (IF 1 <= n THEN n - 1 + 1 ELSE 0)
        /\ \A i \in 1 .. n - 1 + 1 : P[i] = pending[1 + i - 1]
    BY <1>2, <2>1, SubSeqProperties
  <2> HIDE DEF P
  <2>3. Len(P) = n /\ n - 1 + 1 = n /\ \A i \in 1 .. n : 1 + i - 1 = i
    <3>1. n \in Int /\ 1 <= n
      BY <1>2
    <3>2. Len(P) = IF 1 <= n THEN n - 1 + 1 ELSE 0
      BY <2>2
    <3> QED
      BY <3>1, <3>2
  <2>4. DOMAIN P = 1 .. n
    BY <2>2, <2>3, LenProperties
  <2> QED
    BY <2>2, <2>3, <2>4
<1>4. R \in Seq(Item) /\ DOMAIN R = 1 .. (Len(pending) - n) /\ \A i \in 1 .. (Len(pending) - n) : R[i] = pending[n + i]
  <2>1. \A i \in n + 1 .. Len(pending) : pending[i] \in Item
    BY <1>2
  <2>2. R \in Seq(Item) /\ Len(R) = (IF n + 1 <= Len(pending) THEN Len(pending) - (n + 1) + 1 ELSE 0)
        /\ \A i \in 1 .. Len(pending) - (n + 1) + 1 : R[i] = pending[(n + 1) + i - 1]
    BY <1>2, <2>1, SubSeqProperties
  <2> HIDE DEF R
  <2>3. Len(R) = Len(pending) - n
    <3>1. n \in Int /\ Len(pending) \in Int /\ n <= Len(pending)
      BY <1>2
    <3>2. Len(R) = IF n + 1 <= Len(pending) THEN Len(pending) - (n + 1) + 1 ELSE 0
      BY <2>2
    <3> QED
      BY <3>1, <3>2
  <2>4. ASSUME NEW i \in 1 .. (Len(pending) - n) PROVE R[i] = pending[n + i]
    <3>1. i \in 1 .. Len(pending) - (n + 1) + 1 /\ (n + 1) + i - 1 = n + i
      BY <1>2
    <3>2. R[i] = pending[(n + 1) + i - 1]
      BY <2>2, <3>1
    <3> QED
      BY <3>1, <3>2
  <2>5. DOMAIN R = 1 .. (Len(pending) - n)
    BY <2>2, <2>3, LenProperties
  <2> QED
    BY <2>2, <2>4, <2>5
<1>5. pending' = R
  OBVIOUS
<1> HIDE DEF R, P
<1>6. /\ C \in Seq(Callback) /\ DOMAIN C = 1 .. n
      /\ \A i \in 1 .. n : C[i].op = "store" /\ C[i].key = pending[i].key /\ C[i].ver = latest[pending[i].key]
  <2>1. \A i \in 1 .. n : pending[i].ver = latest[pending[i].key]
    BY <1>1, <1>2 DEF PendingInv
  <2>2. /\ C \in Seq(Callback) /\ DOMAIN C = DOMAIN P
        /\ \A i \in DOMAIN P : C[i].op = "store" /\ C[i].key = P[i].key /\ C[i].ver = P[i].ver
    BY <1>3, AsStoresFacts
  <2>3. DOMAIN C = 1 .. n
    BY <1>3, <2>2
  <2>4. ASSUME NEW i \in 1 .. n
        PROVE  /\ C[i].op = "store" /\ C[i].key = pending[i].key
               /\ C[i].ver = latest[pending[i].key]
    <3>1. P[i] = pending[i] /\ i \in DOMAIN P
      BY <1>3
    <3> QED
      BY <2>1, <2>2, <3>1
  <2> QED
    BY <2>2, <2>3, <2>4
<1>7. OnPack(C)
  BY DEF P
<1> HIDE DEF C
<1>8. PendingTypes' /\ PendingInv'
  <2> DEFINE f == [i \in DOMAIN pending' |-> n + i]
  <2>1. f \in [DOMAIN pending' -> DOMAIN pending]
    BY <1>2, <1>4, <1>5
  <2>2. \A i, j \in DOMAIN pending' : f[i] = f[j] => i = j
    BY <1>2, <1>4, <1>5
  <2>3. \A i \in DOMAIN pending' : pending'[i] = pending[f[i]]
    BY <1>4, <1>5
  <2>4. PendingTypes'
    BY <1>4, <1>5 DEF PendingTypes
  <2> HIDE DEF f
  <2> QED
    BY <1>1, <2>1, <2>2, <2>3, <2>4, PendingShrinks
<1>9. ASSUME NEW k \in Key, (Position(k) = {})'
      PROVE  Position(k) = {} \/ \E i \in DOMAIN C : Writes(C[i], k)
  <2> SUFFICES ASSUME NEW i \in DOMAIN pending, pending[i].key = k PROVE \E j \in DOMAIN C : Writes(C[j], k)
    BY DEF Position
  <2>1. CASE i <= n
    <3>1. i \in 1 .. n /\ i \in DOMAIN C
      BY <1>2, <1>6, <2>1
    <3>2. C[i].op = "store" /\ C[i].key = k
      BY <1>6, <3>1
    <3> QED
      BY <3>1, <3>2 DEF Writes
  <2>2. CASE ~(i <= n)
    <3>0. i \in Int /\ n \in Int /\ Len(pending) \in Int /\ n < i /\ i <= Len(pending)
      BY <1>2, <2>2
    <3>1. i - n \in 1 .. (Len(pending) - n) /\ n + (i - n) = i
      <4>1. i - n \in Int /\ 1 <= i - n /\ i - n <= Len(pending) - n
        BY <3>0
      <4>2. n + (i - n) = i
        BY <3>0
      <4>3. Len(pending) - n \in Int
        BY <3>0
      <4> QED
        BY <4>1, <4>2, <4>3
    <3>2. i - n \in DOMAIN pending' /\ pending'[i - n] = pending[i]
      BY <1>4, <1>5, <3>1
    <3> QED
      BY <1>9, <3>2 DEF Position
  <2> QED
    BY <2>1, <2>2
<1>10. /\ PackTypes' /\ DataInv'
       /\ packPromise = "ready" => RunLeaves(items, dirty, C)
       /\ packPromise # "ready" => waiting' = waiting \o C /\ UNCHANGED storing
  BY <1>1, <1>6, <1>7, <1>9, OnPackFacts
<1>11. /\ storing' = storing /\ (Waits("flush")' => Waits("flush"))
       /\ Waits("store")' => Waits("store") \/ packPromise # "ready"
  BY <1>1, <1>6, <1>10, OnPackWaits
<1>12. /\ chain' \in Seq(Link)
       /\ \A i \in DOMAIN chain : i \in DOMAIN chain' /\ chain'[i] = chain[i]
       /\ \A i \in DOMAIN chain' : i \in DOMAIN chain \/ chain'[i] = l
       /\ \E i \in DOMAIN chain' : chain'[i] = l
  <2>1. l \in Link
    BY DEF Link
  <2> HIDE DEF l
  <2>2. chain' = Append(chain, l)
    BY DEF l
  <2> QED
    BY <1>1, <2>1, <2>2, LinkAdded
<1>13. l.kind = "chunk" /\ (packPromise # "ready" => l.waits)
  OBVIOUS
<1> HIDE DEF l
<1>14. LinkInv'
  BY <1>1, <1>11, <1>12, <1>13, LinksGrow DEF ChainTypes
<1>15. DownInv'
  BY <1>1, <1>12, <1>13 DEF IInv, DownInv
<1>16. Types'
  BY <1>1, <1>8, <1>10, <1>12 DEF Types, ClientTypes, ChainTypes, FileTypes
<1> QED
  BY <1>8, <1>10, <1>14, <1>15, <1>16 DEF IInv

LEMMA TasksStep ==
  ASSUME IInv, ProcessIdleTasks, UNCHANGED <<client, files>>, TimerTypes'
  PROVE  IInv'
<1>1. CASE pending # <<>>
  BY <1>1, ChunkStarted DEF ProcessIdleTasks
<1>2. CASE pending = <<>>
  <2> DEFINE l == [kind |-> "flush", waits |-> FALSE]
  <2>1. chain' = Append(chain, l) /\ UNCHANGED <<pending, pack>>
    BY <1>2 DEF ProcessIdleTasks
  <2>2. l \in Link /\ l.kind = "flush" /\ ~l.waits
    BY DEF Link
  <2> HIDE DEF l
  <2>3. /\ UNCHANGED <<mode, latest, builds, pending, disk, failures>>
        /\ UNCHANGED <<packPromise, storing, saving, items, dirty, waiting, stale>>
        /\ Types /\ LinkInv
    BY <2>1 DEF client, files, pack, IInv
  <2>4. /\ chain' \in Seq(Link)
        /\ \A i \in DOMAIN chain : i \in DOMAIN chain' /\ chain'[i] = chain[i]
        /\ \A i \in DOMAIN chain' : i \in DOMAIN chain \/ chain'[i] = l
    BY <2>1, <2>2, <2>3, LinkAdded
  <2>5. Types'
    BY <2>3, <2>4 DEF Types, ClientTypes, PendingTypes, ChainTypes, PackTypes, FileTypes
  <2>6. PendingInv' /\ DataInv'
    BY <2>1, <2>3, DataKept DEF IInv, PendingInv
  <2>7. LinkInv'
    <3>1. (Waits("flush")' => Waits("flush")) /\ (Waits("store")' => Waits("store"))
      BY <2>3 DEF Waits
    <3> QED
      BY <2>2, <2>3, <2>4, <3>1, LinksGrow DEF ChainTypes
  <2>8. DownInv'
    <3>1. mode' # "down" => \A i \in DOMAIN chain' : chain'[i].kind \in {"chunk", "flush"}
      BY <2>2, <2>3, <2>4 DEF IInv, DownInv
    <3>2. ASSUME mode = "down"
          PROVE  /\ pending' = <<>> /\ ~Waits("get")' /\ ~Waits("fetch")'
                 /\ DownLinks' /\ (~HasLink("final")' => Landed')
      <4>1. pending' = <<>> /\ ~Waits("get")' /\ ~Waits("fetch")' /\ DownLinks
        BY <2>3, <3>2 DEF IInv, DownInv, Waits
      <4>2. DownLinks' /\ \A kind \in {"jobs", "final", "clear"} : HasLink(kind)' <=> HasLink(kind)
        BY <2>1, <2>2, <2>3, <4>1, FlushAdded
      <4>3. ~HasLink("final") => Landed
        BY <3>2 DEF IInv, DownInv
      <4>4. Landed => Landed'
        BY <2>3, <4>2 DEF Landed
      <4> QED
        BY <4>1, <4>2, <4>3, <4>4
    <3> QED
      BY <2>3, <3>1, <3>2 DEF DownInv
  <2> QED
    BY <2>5, <2>6, <2>7, <2>8 DEF IInv
<1> QED
  BY <1>1, <1>2

LEMMA FireBeginStep == IInv /\ FireBegin => IInv'
<1> SUFFICES ASSUME IInv, FireBegin PROVE IInv'
  OBVIOUS
<1>1. /\ begins > 0 /\ begins' = begins - 1 /\ idleTimer' = "none" /\ isIdle' = TRUE
      /\ UNCHANGED <<mode, builds, chunks>>
  BY DEF FireBegin, client
<1>2. begins \in Nat /\ builds \in Nat /\ begins <= builds + (IF mode = "build" THEN 0 ELSE 1)
  BY BoundsAssumption DEF IInv, Types, TimerTypes, ClientTypes
<1>3. begins' \in Nat /\ begins' <= builds' + (IF mode' = "build" THEN 0 ELSE 1)
  BY <1>1, <1>2
<1>4. TimerTypes'
  BY <1>1, <1>3 DEF IInv, Types, TimerTypes
<1> QED
  BY <1>4, TasksStep DEF FireBegin

LEMMA FireChunkStep == IInv /\ FireChunk => IInv'
<1> SUFFICES ASSUME IInv, FireChunk PROVE IInv'
  OBVIOUS
<1>1. /\ chunks > 0 /\ chunks' = chunks - 1
      /\ idleTimer' = IF idleTimer = "chunk" /\ chunks = 1 THEN "fired" ELSE idleTimer
      /\ UNCHANGED <<client, mode, latest, builds, isIdle, begins, files, disk, failures>>
  BY DEF FireChunk, client, files
<1>2. TimerTypes'
  BY <1>1 DEF IInv, Types, TimerTypes
<1>3. CASE isIdle
  BY <1>1, <1>2, <1>3, TasksStep DEF FireChunk
<1>4. CASE ~isIdle
  <2>1. UNCHANGED <<pending, chain, pack>>
    BY <1>4 DEF FireChunk
  <2>2. UNCHANGED <<packPromise, storing, saving, items, dirty, waiting, stale, pending, chain>>
    BY <2>1 DEF pack
  <2>3. Types'
    BY <1>1, <1>2, <2>2 DEF IInv, Types, ClientTypes, PendingTypes, ChainTypes, PackTypes, FileTypes
  <2>4. PendingInv' /\ DataInv'
    BY <1>1, <2>1, <2>2, DataKept DEF IInv, PendingInv
  <2>5. LinkInv'
    BY <2>2 DEF IInv, LinkInv, Waits
  <2>6. DownInv'
    BY <1>1, <2>2 DEF IInv, DownInv, DownLinks, Landed, Waits, HasLink
  <2> QED
    BY <2>3, <2>4, <2>5, <2>6 DEF IInv
<1> QED
  BY <1>3, <1>4

\* All pending tasks are started, behind whatever the idle times have begun.
LEMMA ShutdownStep == IInv /\ Shutdown => IInv'
<1> SUFFICES ASSUME IInv, Shutdown PROVE IInv'
  OBVIOUS
<1> DEFINE C == AsStores(pending)
           n == Len(chain)
           jobs == [kind |-> "jobs", waits |-> pending # <<>> /\ packPromise # "ready"]
           final == [kind |-> "final", waits |-> FALSE]
           clear == [kind |-> "clear", waits |-> FALSE]
           L == <<jobs, final, clear>>
<1>1. /\ mode \in {"idle", "build"} /\ mode' = "down" /\ isIdle' = FALSE
      /\ \A i \in DOMAIN waiting : waiting[i].op \notin {"get", "fetch"}
      /\ ClearTimer /\ OnPack(C) /\ pending' = <<>> /\ chain' = chain \o L
      /\ UNCHANGED <<latest, builds, disk, failures>>
  BY DEF Shutdown, ShutdownChain, files
<1>2. /\ Types /\ PendingInv /\ DataInv /\ LinkInv /\ chain \in Seq(Link) /\ pending \in Seq(Item)
      /\ mode # "down"
  BY <1>1 DEF IInv, Types, ChainTypes, PendingTypes
<1>3. /\ C \in Seq(Callback) /\ DOMAIN C = DOMAIN pending
      /\ \A i \in DOMAIN C : C[i].op = "store" /\ C[i].key = pending[i].key /\ C[i].ver = latest[pending[i].key]
      /\ pending = <<>> => C = <<>>
  BY <1>2, AsStoresFacts DEF PendingInv
<1> HIDE DEF C
<1>4. \A k \in Key : (Position(k) = {})' => Position(k) = {} \/ \E i \in DOMAIN C : Writes(C[i], k)
  BY <1>3 DEF Position, Writes
<1>5. /\ PackTypes' /\ DataInv'
      /\ packPromise = "ready" => RunLeaves(items, dirty, C)
      /\ packPromise # "ready" => waiting' = waiting \o C /\ UNCHANGED storing
  BY <1>1, <1>2, <1>3, <1>4, OnPackFacts
<1>6. /\ storing' = storing
      /\ \A op \in {"store", "fetch", "get", "flush"} :
            Waits(op)' <=> Waits(op) \/ (packPromise # "ready" /\ \E i \in DOMAIN C : C[i].op = op)
  BY <1>2, <1>3, <1>5, OnPackWaits
<1>7. /\ (Waits("flush")' => Waits("flush")) /\ ~Waits("get")' /\ ~Waits("fetch")'
      /\ Waits("store")' => Waits("store") \/ (packPromise # "ready" /\ pending # <<>>)
  <2>1. ~Waits("get") /\ ~Waits("fetch")
    BY <1>1 DEF Waits
  <2>2. (\E i \in DOMAIN C : C[i].op = "store") => pending # <<>>
    BY <1>3
  <2> QED
    BY <1>3, <1>6, <2>1, <2>2
<1>8. jobs \in Link /\ final \in Link /\ clear \in Link
  BY DEF Link
<1>9. L \in Seq(Link) /\ Len(L) = 3 /\ L[1] = jobs /\ L[2] = final /\ L[3] = clear
  <2> HIDE DEF jobs, final, clear
  <2> QED
    BY <1>8
<1>10. /\ jobs.kind = "jobs" /\ (pending # <<>> /\ packPromise # "ready" => jobs.waits)
       /\ final.kind = "final" /\ ~final.waits /\ clear.kind = "clear" /\ ~clear.waits
  OBVIOUS
<1> HIDE DEF L, jobs, final, clear
<1>11. /\ n \in Nat /\ DOMAIN chain = 1 .. n /\ chain' \in Seq(Link) /\ DOMAIN chain' = 1 .. (n + 3)
       /\ \A i \in 1 .. n : chain'[i] = chain[i]
       /\ chain'[n + 1] = jobs /\ chain'[n + 2] = final /\ chain'[n + 3] = clear
  <2>1. n \in Nat /\ DOMAIN chain = 1 .. n
    BY <1>2, LenProperties
  <2>2. /\ chain' \in Seq(Link) /\ Len(chain') = n + 3
        /\ \A i \in 1 .. n + 3 : chain'[i] = IF i <= n THEN chain[i] ELSE L[i - n]
    <3>1. /\ chain \o L \in Seq(Link) /\ Len(chain \o L) = Len(chain) + Len(L)
          /\ \A i \in 1 .. Len(chain) + Len(L) :
                (chain \o L)[i] = IF i <= Len(chain) THEN chain[i] ELSE L[i - Len(chain)]
      BY <1>2, <1>9, ConcatProperties
    <3> QED
      BY <1>1, <1>9, <3>1
  <2> HIDE DEF n
  <2>3. DOMAIN chain' = 1 .. (n + 3)
    BY <2>2, LenProperties
  <2>4. \A i \in 1 .. n : i \in 1 .. n + 3 /\ i <= n
    BY <2>1
  <2>5. /\ n + 1 \in 1 .. n + 3 /\ ~(n + 1 <= n) /\ (n + 1) - n = 1
        /\ n + 2 \in 1 .. n + 3 /\ ~(n + 2 <= n) /\ (n + 2) - n = 2
        /\ n + 3 \in 1 .. n + 3 /\ ~(n + 3 <= n) /\ (n + 3) - n = 3
    BY <2>1
  <2>6. chain'[n + 1] = L[1] /\ chain'[n + 2] = L[2] /\ chain'[n + 3] = L[3]
    BY <2>2, <2>5
  <2> QED
    BY <1>9, <2>1, <2>2, <2>3, <2>4, <2>6
<1> HIDE DEF n
<1>12. /\ \A i \in DOMAIN chain : i \in DOMAIN chain'
       /\ \A i \in DOMAIN chain' : i \in DOMAIN chain \/ i = n + 1 \/ i = n + 2 \/ i = n + 3
       /\ n + 1 \in DOMAIN chain' /\ n + 2 \in DOMAIN chain' /\ n + 3 \in DOMAIN chain'
  BY <1>11
<1>13. \A i \in DOMAIN chain : chain'[i] = chain[i] /\ chain'[i].kind \in {"chunk", "flush"}
  BY <1>2, <1>11 DEF IInv, DownInv
<1>14. LinkInv'
  <2>1. \A i \in DOMAIN chain' : i \in DOMAIN chain \/ (chain'[i].kind \in {"flush", "final"} => ~chain'[i].waits)
    BY <1>10, <1>11, <1>12
  <2>2. pending # <<>> /\ packPromise # "ready" =>
           \E i \in DOMAIN chain' : chain'[i].kind \in {"chunk", "jobs"} /\ chain'[i].waits
    BY <1>10, <1>11, <1>12
  <2> QED
    BY <1>2, <1>6, <1>7, <1>11, <1>12, <1>13, <2>1, <2>2, LinksGrow DEF ChainTypes
<1>15. DownLinks' /\ HasLink("final")'
  <2>1. \A i \in DOMAIN chain' : /\ chain'[i].kind = "jobs" => i = n + 1
                                 /\ chain'[i].kind = "final" => i = n + 2
                                 /\ chain'[i].kind = "clear" => i = n + 3
                                 /\ chain'[i].kind = "chunk" => i \in DOMAIN chain
    BY <1>10, <1>11, <1>12, <1>13
  <2>2. \A i, j \in DOMAIN chain' :
           chain'[i].kind = chain'[j].kind /\ chain'[i].kind \in {"jobs", "final", "clear"} => i = j
    BY <2>1
  <2>3. \A i \in DOMAIN chain : n + 1 > i
    BY <1>11
  <2>4. (n + 1) + 1 = n + 2 /\ (n + 2) + 1 = n + 3 /\ (n + 3) - 1 = n + 2
    BY <1>11
  <2>5. /\ chain'[n + 1].kind = "jobs" /\ chain'[n + 2].kind = "final" /\ chain'[n + 3].kind = "clear"
    BY <1>10, <1>11
  <2>6. ASSUME NEW i \in DOMAIN chain'
        PROVE  /\ chain'[i].kind = "chunk" => \E j \in DOMAIN chain' : j > i /\ chain'[j].kind = "jobs"
               /\ chain'[i].kind = "jobs" => i + 1 \in DOMAIN chain' /\ chain'[i + 1].kind = "final"
               /\ chain'[i].kind = "final" => i + 1 \in DOMAIN chain' /\ chain'[i + 1].kind = "clear"
               /\ chain'[i].kind = "clear" /\ i > 1 => chain'[i - 1].kind = "final"
    <3>1. chain'[i].kind = "chunk" => \E j \in DOMAIN chain' : j > i /\ chain'[j].kind = "jobs"
      BY <1>12, <2>1, <2>3, <2>5
    <3> QED
      BY <1>12, <2>1, <2>4, <2>5, <3>1
  <2> QED
    BY <1>12, <2>2, <2>5, <2>6 DEF DownLinks, HasLink
<1>16. TimerTypes'
  <2>1. /\ builds \in Nat /\ begins \in Nat /\ chunks \in Nat /\ begins <= builds + 1
        /\ idleTimer = "begin" => begins > 0
        /\ idleTimer = "chunk" => chunks > 0
    BY <1>1, <1>2, BoundsAssumption DEF Types, ClientTypes, TimerTypes
  <2>2. /\ idleTimer' = "none"
        /\ begins' = IF idleTimer = "begin" THEN begins - 1 ELSE begins
        /\ chunks' = IF idleTimer = "chunk" THEN chunks - 1 ELSE chunks
    BY <1>1 DEF ClearTimer
  <2>3. begins' \in Nat /\ begins' <= builds' + (IF mode' = "build" THEN 0 ELSE 1)
    BY <1>1, <2>1, <2>2
  <2>4. chunks' \in Nat
    BY <2>1, <2>2
  <2> QED
    BY <1>1, <2>2, <2>3, <2>4 DEF TimerTypes
<1>17. Types'
  <2>1. pending' \in Seq(Item)
    BY <1>1, EmptySeq
  <2>2. ClientTypes' /\ FileTypes'
    BY <1>1, <1>2 DEF Types, ClientTypes, FileTypes
  <2> QED
    BY <1>5, <1>11, <1>16, <2>1, <2>2 DEF Types, PendingTypes, ChainTypes
<1>18. PendingInv'
  <2>1. DOMAIN pending' = {}
    BY <1>1
  <2> QED
    BY <2>1 DEF PendingInv
<1>19. DownInv'
  BY <1>1, <1>7, <1>15 DEF DownInv
<1> QED
  BY <1>5, <1>14, <1>17, <1>18, <1>19 DEF IInv

LEMMA StutterStep == IInv /\ UNCHANGED vars => IInv'
<1> SUFFICES ASSUME IInv, UNCHANGED vars PROVE IInv'
  OBVIOUS
<1>1. /\ UNCHANGED <<mode, latest, builds, pending, isIdle, begins, chunks, idleTimer, chain, disk, failures>>
      /\ UNCHANGED <<packPromise, storing, saving, items, dirty, waiting, stale>>
  BY DEF vars, client, timers, pack, files
<1>2. Types'
  BY <1>1 DEF IInv, Types, ClientTypes, PendingTypes, TimerTypes, ChainTypes, PackTypes, FileTypes
<1>3. PendingInv' /\ DataInv'
  BY <1>1, DataKept DEF IInv, PendingInv, pack
<1>4. LinkInv' /\ DownInv'
  BY <1>1 DEF IInv, LinkInv, DownInv, DownLinks, Landed, Waits, HasLink
<1> QED
  BY <1>2, <1>3, <1>4 DEF IInv

LEMMA NextInv == IInv /\ [Next]_vars => IInv'
<1> SUFFICES ASSUME IInv, [Next]_vars PROVE IInv'
  OBVIOUS
<1>1. CASE Client
  BY <1>1, StoreStep, GetStep, BeginIdleStep, EndIdleStep, ShutdownStep DEF Client
<1>2. CASE Background
  BY <1>2, FireBeginStep, FireChunkStep, ResolveTasksStep, CallAfterAllStoredStep, OpenedStep,
     WrittenStep, ClearStep DEF Background
<1>3. CASE Written(FALSE)
  BY <1>3, WrittenStep
<1>4. CASE UNCHANGED vars
  BY <1>4, StutterStep
<1> QED
  BY <1>1, <1>2, <1>3, <1>4 DEF Next

THEOREM Invariance == Spec => []IInv
BY InitInv, NextInv, PTL DEF Spec

(***************************************************************************)
(* What it promises.                                                       *)
(***************************************************************************)

LEMMA IsTyped == Types => TypeOK
<1> SUFFICES ASSUME Types PROVE TypeOK
  OBVIOUS
<1>1. begins \in 0 .. builds + 1
  BY BoundsAssumption DEF Types, TimerTypes, ClientTypes
<1> QED
  BY <1>1 DEF Types, ClientTypes, PendingTypes, TimerTypes, ChainTypes, PackTypes, FileTypes, TypeOK

\* A version that is not pending is in a pack, in a callback or on the disk.
LEMMA IsOnItsWay == IInv => OnItsWay
<1> SUFFICES ASSUME IInv, failures = 0, NEW k \in Key
             PROVE  \/ \E i \in DOMAIN pending : pending[i] = [key |-> k, ver |-> latest[k]]
                    \/ \E i \in DOMAIN waiting :
                          /\ waiting[i].op \in {"store", "fetch"}
                          /\ waiting[i].key = k
                          /\ waiting[i].ver = latest[k]
                    \/ packPromise = "ready" /\ items[k] = latest[k]
                    \/ storing /\ saving[k] = latest[k]
                    \/ disk[k] = latest[k]
  BY DEF OnItsWay
<1>1. CASE Position(k) # {}
  <2>1. PICK i \in DOMAIN pending : pending[i].key = k
    BY <1>1 DEF Position
  <2>2. pending[i] \in Item
    BY LenProperties DEF IInv, Types, PendingTypes
  <2>3. pending[i] = [key |-> k, ver |-> latest[k]]
    BY <2>1, <2>2 DEF IInv, PendingInv, Item
  <2> QED
    BY <2>3
<1>2. CASE Position(k) = {}
  <2>1. \/ Base[k] = latest[k]
        \/ \E i \in DOMAIN waiting : Writes(waiting[i], k) /\ waiting[i].ver = latest[k]
    BY <1>2 DEF IInv, DataInv, PresentInv
  <2> QED
    BY <2>1 DEF Base, Writes
<1> QED
  BY <1>1, <1>2

LEMMA StoresAll == IInv => ShutdownStoresAll
<1> SUFFICES ASSUME IInv, mode = "down", \A i \in DOMAIN chain : chain[i].kind \notin {"jobs", "final", "clear"},
                    failures = 0
             PROVE  disk = latest
  BY DEF ShutdownStoresAll, IInv, Types, FileTypes
<1>1. ~HasLink("final")
  BY DEF HasLink
<1> QED
  BY <1>1 DEF IInv, DownInv, Landed

\* From the call that stores it to the end of shutdown() no version is lost, every
\* get() sees the newest one, and shutdown() calls back when all of them are on the
\* disk, for any keys, builds, timers and orders of opening and writing the pack.
THEOREM NothingLostCorrect == Spec => []NothingLost
<1>1. IInv => NothingLost
  <2> SUFFICES ASSUME IInv PROVE NothingLost
    OBVIOUS
  <2>1. TypeOK
    BY IsTyped DEF IInv
  <2>2. GetSeesLatest
    BY DEF IInv, DataInv, PresentInv, GetSeesLatest
  <2> QED
    BY <2>1, <2>2, IsOnItsWay, StoresAll DEF NothingLost
<1> QED
  BY <1>1, Invariance, PTL

\* No write takes an item on the disk back to an older version, whatever failed.
THEOREM DiskNeverOlderCorrect == Spec => DiskNeverOlder
<1>1. IInv /\ [Next]_vars => [\A k \in Key : disk'[k] >= disk[k]]_vars
  <2> SUFFICES ASSUME IInv, [Next]_vars, NEW k \in Key PROVE disk'[k] >= disk[k]
    OBVIOUS
  <2>1. disk[k] \in Nat
    BY VersionsAreNumbers DEF IInv, Types, FileTypes
  <2>2. CASE UNCHANGED disk
    BY <2>1, <2>2
  <2>3. CASE storing /\ disk' = saving
    <3>1. Base = saving
      BY <2>3 DEF IInv, DataInv, PackInv, Base
    <3>2. disk[k] <= saving[k] /\ saving[k] \in Nat
      BY <3>1, VersionsAreNumbers DEF IInv, DataInv, OrderInv, Types, PackTypes
    <3> QED
      BY <2>1, <2>3, <3>2
  <2>4. UNCHANGED disk \/ (storing /\ disk' = saving)
    BY DEF Next, Client, Background, Store, Get, BeginIdle, EndIdle, Shutdown, FireBegin, FireChunk,
       ResolveTasks, CallAfterAllStored, Opened, Written, Clear, vars, files
  <2> QED
    BY <2>2, <2>3, <2>4
<1> QED
  BY <1>1, Invariance, PTL DEF Spec, DiskNeverOlder

(***************************************************************************)
(* Induction and loops.  The library's induction theorems have an operator *)
(* as a parameter; here the predicate is a set.                            *)
(***************************************************************************)

\* Induction: a set of numbers with 0 and all successors has all numbers.
LEMMA AllNumbers ==
    ASSUME NEW P, 0 \in P, \A n \in Nat : n \in P => n + 1 \in P
    PROVE  Nat \subseteq P
  <1> SUFFICES ASSUME Nat \ P # {} PROVE FALSE
    OBVIOUS
  <1>1. PICK x \in Nat \ P : \A y \in Nat \ P : x <= y
    <2>1. Nat \ P \subseteq Nat
      OBVIOUS
    <2> QED
      BY <2>1, LeastNumber
  <1>2. x # 0 /\ x \in Nat
    BY <1>1
  <1>3. x - 1 \in Nat /\ (x - 1) + 1 = x
    BY <1>2
  <1>4. ~ (x <= x - 1)
    BY <1>2
  <1>5. x - 1 \in P
    BY <1>1, <1>3, <1>4
  <1> QED
    BY <1>1, <1>3, <1>5

\* A loop that goes from c to step[c] until c is in stop, and m counts its rounds
\* down; and the function it computes.
CountsDown(S, step, stop, m, N) ==
    /\ step \in [S -> S] /\ m \in [S -> Nat] /\ N \in Nat
    /\ \A c \in S : m[c] <= N
    /\ \A c \in S : c \notin stop => m[step[c]] < m[c]
Loops(S, step, stop, W) == W = [c \in S |-> IF c \in stop THEN c ELSE W[step[c]]]

\* A loop that comes to an end defines a function.
LEMMA LoopExists ==
    ASSUME NEW S, NEW step, NEW stop, NEW m, NEW N, CountsDown(S, step, stop, m, N)
    PROVE  \E W : Loops(S, step, stop, W)
  <1> USE DEF CountsDown
  <1> DEFINE Upto(n) == {c \in S : m[c] <= n}
             Is(W, c) == W[c] = IF c \in stop THEN c ELSE W[step[c]]
             P == {n \in Nat : \E W \in [S -> S] : \A c \in Upto(n) : Is(W, c)}
  <1>1. 0 \in P
    <2> DEFINE W == [c \in S |-> c]
    <2>1. W \in [S -> S]
      OBVIOUS
    <2>2. ASSUME NEW c \in Upto(0) PROVE Is(W, c)
      <3>1. m[c] = 0 /\ c \in S /\ step[c] \in S
        OBVIOUS
      <3>2. m[step[c]] \in Nat
        BY <3>1
      <3>3. c \in stop
        BY <3>1, <3>2
      <3> QED
        BY <3>1, <3>3
    <2> QED
      BY <2>1, <2>2
  <1>2. ASSUME NEW n \in Nat, n \in P PROVE n + 1 \in P
    <2>1. PICK W \in [S -> S] : \A c \in Upto(n) : Is(W, c)
      BY <1>2
    <2> DEFINE V == [c \in S |-> IF c \in stop THEN c
                                 ELSE IF m[c] <= n + 1 THEN W[step[c]] ELSE c]
    <2>2. V \in [S -> S]
      OBVIOUS
    <2>3. ASSUME NEW c \in Upto(n + 1) PROVE Is(V, c)
      <3>1. CASE c \in stop
        BY <3>1
      <3>2. CASE c \notin stop
        <4> DEFINE d == step[c]
        <4>1. c \in S /\ d \in S /\ m[c] <= n + 1 /\ m[c] \in Nat /\ m[d] \in Nat
          OBVIOUS
        <4>2. m[d] < m[c]
          BY <3>2, <4>1
        <4>3. m[d] <= n /\ m[d] <= n + 1
          BY <4>1, <4>2
        <4>4. Is(W, d)
          BY <2>1, <4>1, <4>3
        <4>5. V[c] = W[d]
          BY <3>2, <4>1
        <4>6. V[d] = W[d]
          BY <4>1, <4>3, <4>4
        <4> QED
          BY <3>2, <4>5, <4>6
      <3> QED
        BY <3>1, <3>2
    <2>4. \A c \in Upto(n + 1) : Is(V, c)
      BY <2>3
    <2> HIDE DEF V, Upto, Is
    <2> QED
      BY <2>2, <2>4
  <1>3. N \in P
    <2> HIDE DEF P
    <2> QED
      BY <1>1, <1>2, AllNumbers
  <1>4. PICK W \in [S -> S] : \A c \in Upto(N) : Is(W, c)
    BY <1>3
  <1>5. \A c \in S : Is(W, c)
    BY <1>4
  <1>6. Loops(S, step, stop, W)
    BY <1>5 DEF Loops
  <1> QED
    BY <1>6

\* What the steps of a loop keep, its end has too.
LEMMA LoopKeeps ==
    ASSUME NEW S, NEW step, NEW stop, NEW m, NEW N, CountsDown(S, step, stop, m, N),
           NEW W, Loops(S, step, stop, W),
           NEW I \in SUBSET S, \A c \in I : c \notin stop => step[c] \in I
    PROVE  \A c \in I : W[c] \in I /\ W[c] \in stop
  <1> USE DEF CountsDown
  <1> DEFINE P == {n \in Nat : \A c \in I : m[c] <= n => W[c] \in I /\ W[c] \in stop}
  <1>0. \A c \in S : W[c] = IF c \in stop THEN c ELSE W[step[c]]
    BY DEF Loops
  <1>1. 0 \in P
    <2>1. ASSUME NEW c \in I, m[c] <= 0 PROVE W[c] \in I /\ W[c] \in stop
      <3>1. m[c] = 0 /\ c \in S /\ step[c] \in S
        BY <2>1
      <3>2. m[step[c]] \in Nat
        BY <3>1
      <3>3. c \in stop
        BY <3>1, <3>2
      <3> QED
        BY <1>0, <3>1, <3>3
    <2> QED
      BY <2>1
  <1>2. ASSUME NEW n \in Nat, n \in P PROVE n + 1 \in P
    <2>1. ASSUME NEW c \in I, m[c] <= n + 1 PROVE W[c] \in I /\ W[c] \in stop
      <3>1. CASE c \in stop
        BY <1>0, <3>1
      <3>2. CASE c \notin stop
        <4> DEFINE d == step[c]
        <4>1. c \in S /\ d \in S /\ d \in I /\ m[c] \in Nat /\ m[d] \in Nat
          BY <3>2
        <4>2. m[d] < m[c]
          BY <3>2, <4>1
        <4>3. m[d] <= n
          BY <2>1, <4>1, <4>2
        <4>4. W[d] \in I /\ W[d] \in stop
          BY <1>2, <4>1, <4>3
        <4> QED
          BY <1>0, <3>2, <4>1, <4>4
      <3> QED
        BY <3>1, <3>2
    <2> QED
      BY <2>1
  <1>3. N \in P
    <2> HIDE DEF P
    <2> QED
      BY <1>1, <1>2, AllNumbers
  <1> QED
    BY <1>3

(***************************************************************************)
(* The ring of levels.                                                     *)
(***************************************************************************)

LEMMA Constants ==
    /\ Levels \in Nat /\ Levels > 1 /\ Tick \in Nat /\ Tick > 0 /\ MaxLate \in Nat
    /\ Duration \in Nat /\ Duration >= Tick
    /\ Level \subseteq Nat /\ 0 \in Level
    /\ None \in Int /\ None \notin Level
    /\ Never \in Nat /\ Never > Tick /\ Throwing \subseteq Request
  <1>1. Levels \in Nat /\ Levels > 1 /\ Tick \in Nat /\ Tick > 0 /\ MaxLate \in Nat
        /\ Throwing \subseteq Request
    BY CacheAssumption
  <1>2. \A a, b \in Nat : a > 1 => a * b \in Nat /\ a * b >= b
    OBVIOUS
  <1>3. Duration \in Nat /\ Duration >= Tick
    BY <1>1, <1>2 DEF Duration
  <1>4. Level \subseteq Nat /\ 0 \in Level
    BY <1>1 DEF Level
  <1>5. None \in Int /\ None \notin Level
    BY <1>1 DEF Level, None
  <1>6. Never \in Nat /\ Never > Tick
    BY <1>1 DEF Never
  <1> QED
    BY <1>1, <1>3, <1>4, <1>5, <1>6

\* The decays until level i is emptied, and the time from the next one to it.
Left(c, i) == IF i > c.current THEN i - c.current ELSE i - c.current + Levels
TimeLeft(c, i) == (Left(c, i) - 1) * Tick

LEMMA NextLevelIs ==
    ASSUME NEW c, c.current \in Level
    PROVE  /\ NextLevel(c) = IF c.current + 1 = Levels THEN 0 ELSE c.current + 1
           /\ NextLevel(c) \in Level
  <1>1. Levels \in Nat /\ Levels > 1 /\ c.current \in 0 .. Levels - 1
    BY Constants DEF Level
  <1>2. \A a, n \in Nat : n > 1 /\ a < n => a % n = a
    OBVIOUS
  <1>3. \A n \in Nat : n > 1 => n % n = 0
    OBVIOUS
  <1>4. NextLevel(c) = IF c.current + 1 = Levels THEN 0 ELSE c.current + 1
    BY <1>1, <1>2, <1>3 DEF NextLevel
  <1> QED
    BY <1>1, <1>4 DEF Level

LEMMA LeftIs ==
    ASSUME NEW c, c.current \in Level, NEW i \in Level
    PROVE  /\ Left(c, i) \in 1 .. Levels
           /\ Left(c, i) = 1 <=> i = NextLevel(c)
           /\ Left(c, c.current) = Levels
           /\ \A d : d.current = NextLevel(c) /\ i # NextLevel(c) => Left(d, i) = Left(c, i) - 1
  <1>1. /\ Levels \in Nat /\ Levels > 1 /\ c.current \in 0 .. Levels - 1
        /\ i \in 0 .. Levels - 1
    BY Constants DEF Level
  <1>2. NextLevel(c) = IF c.current + 1 = Levels THEN 0 ELSE c.current + 1
    BY NextLevelIs
  <1> QED
    BY <1>1, <1>2 DEF Left

LEMMA TimeLeftIs ==
    ASSUME NEW c, c.current \in Level, NEW i \in Level
    PROVE  /\ TimeLeft(c, i) \in Nat /\ TimeLeft(c, i) <= Duration - Tick
           /\ i = NextLevel(c) => TimeLeft(c, i) = 0
           /\ TimeLeft(c, c.current) = Duration - Tick
           /\ \A d : d.current = NextLevel(c) /\ i # NextLevel(c) =>
                 TimeLeft(d, i) = TimeLeft(c, i) - Tick
  <1>1. /\ Levels \in Nat /\ Tick \in Nat /\ Left(c, i) \in Nat
        /\ 1 <= Left(c, i) /\ Left(c, i) <= Levels
    BY Constants, LeftIs
  <1>2. \A a, b, t \in Nat : 1 <= a /\ a <= b => (a - 1) * t \in Nat /\ (a - 1) * t <= b * t - t
    <2>1. \A a, b, t \in Nat : 1 <= a /\ a <= b => (a - 1) * t \in Nat /\ (b - a) * t \in Nat
      OBVIOUS
    <2>2. \A a, b, t \in Nat : b * t - t - (a - 1) * t = (b - a) * t /\ b * t \in Nat
      OBVIOUS
    <2> QED
      BY <2>1, <2>2
  <1>3. TimeLeft(c, i) \in Nat /\ TimeLeft(c, i) <= Duration - Tick
    BY <1>1, <1>2 DEF TimeLeft, Duration
  <1>4. i = NextLevel(c) => TimeLeft(c, i) = 0
    <2>1. i = NextLevel(c) => Left(c, i) = 1
      BY LeftIs
    <2> QED
      BY <1>1, <2>1 DEF TimeLeft
  <1>5. TimeLeft(c, c.current) = Duration - Tick
    <2>1. Left(c, c.current) = Levels
      BY LeftIs
    <2>2. \A a, t \in Nat : (a - 1) * t = a * t - t
      OBVIOUS
    <2> QED
      BY <1>1, <2>1, <2>2 DEF TimeLeft, Duration
  <1>6. ASSUME NEW d, d.current = NextLevel(c), i # NextLevel(c)
        PROVE  TimeLeft(d, i) = TimeLeft(c, i) - Tick
    <2>1. Left(d, i) = Left(c, i) - 1
      BY <1>6, LeftIs
    <2>2. \A a, t \in Nat : ((a - 1) - 1) * t = (a - 1) * t - t
      OBVIOUS
    <2> QED
      BY <1>1, <2>1, <2>2 DEF TimeLeft
  <1> QED
    BY <1>3, <1>4, <1>5, <1>6

(***************************************************************************)
(* The private methods.                                                    *)
(***************************************************************************)

\* The state is consistent: ModeExact and LevelsAgree, as predicates.
Exact(c) ==
    /\ c.mode = "idle" <=> Cached(c) = {}
    /\ c.mode = "idle" <=> c.due = Never
    /\ c.mode = "async" <=> c.timer # Never
Agrees(c) == \A p \in Path : \A i \in Level : p \in c.levels[i] <=> c.data[p] = i

\* The fields of an object.
LEMMA FieldsOf ==
    ASSUME NEW c \in CacheType
    PROVE  /\ c.data \in [Path -> Level \cup {None}]
           /\ c.value \in [Path -> Nat]
           /\ c.age \in [Path -> 0 .. Duration + MaxLate + 1]
           /\ c.levels \in [Level -> SUBSET Path]
           /\ c.current \in Level
           /\ c.mode \in {"idle", "sync", "async"}
           /\ c.due \in -Duration .. Never
           /\ c.timer \in -MaxLate .. Never
  BY DEF CacheType

LEMMA CachedIs ==
    ASSUME NEW c \in CacheType
    PROVE  /\ Cached(c) \subseteq Path
           /\ \A p \in Cached(c) : c.data[p] \in Level
  BY FieldsOf DEF Cached

LEMMA WithoutIs ==
    ASSUME NEW c \in CacheType, NEW P
    PROVE  /\ Without(c, P) \in CacheType
           /\ Without(c, P).data = [p \in Path |-> IF p \in P THEN None ELSE c.data[p]]
           /\ Without(c, P).value = [p \in Path |-> IF p \in P THEN 0 ELSE c.value[p]]
           /\ Without(c, P).age = [p \in Path |-> IF p \in P THEN 0 ELSE c.age[p]]
           /\ Without(c, P).levels = [i \in Level |-> c.levels[i] \ P]
           /\ Without(c, P).current = c.current
           /\ Without(c, P).mode = c.mode
           /\ Without(c, P).due = c.due
           /\ Without(c, P).timer = c.timer
           /\ Cached(Without(c, P)) = Cached(c) \ P
           /\ Agrees(c) => Agrees(Without(c, P))
  <1> DEFINE d == Without(c, P)
  <1>1. /\ d.data = [p \in Path |-> IF p \in P THEN None ELSE c.data[p]]
        /\ d.value = [p \in Path |-> IF p \in P THEN 0 ELSE c.value[p]]
        /\ d.age = [p \in Path |-> IF p \in P THEN 0 ELSE c.age[p]]
        /\ d.levels = [i \in Level |-> c.levels[i] \ P]
        /\ d.current = c.current /\ d.mode = c.mode /\ d.due = c.due /\ d.timer = c.timer
    BY DEF Without, CacheType
  <1>2. /\ [p \in Path |-> IF p \in P THEN None ELSE c.data[p]] \in [Path -> Level \cup {None}]
        /\ [p \in Path |-> IF p \in P THEN 0 ELSE c.value[p]] \in [Path -> Nat]
        /\ [p \in Path |-> IF p \in P THEN 0 ELSE c.age[p]]
              \in [Path -> 0 .. Duration + MaxLate + 1]
        /\ [i \in Level |-> c.levels[i] \ P] \in [Level -> SUBSET Path]
    BY FieldsOf, Constants
  <1>3. d \in CacheType
    BY <1>2 DEF Without, CacheType
  <1> HIDE DEF d
  <1>4. Cached(d) = Cached(c) \ P
    BY <1>1, Constants, FieldsOf DEF Cached
  <1>5. ASSUME Agrees(c) PROVE Agrees(d)
    BY <1>1, <1>5, Constants, FieldsOf DEF Agrees
  <1> QED
    BY <1>1, <1>3, <1>4, <1>5 DEF d

LEMMA LeavesOthers ==
    ASSUME NEW c \in CacheType, NEW P
    PROVE  \A q \in Path \ P : /\ Without(c, P).data[q] = c.data[q]
                             /\ Without(c, P).value[q] = c.value[q]
                             /\ Without(c, P).age[q] = c.age[q]
  BY DEF Without, CacheType

LEMMA EnterIdleModeIs ==
    ASSUME NEW c \in CacheType
    PROVE  /\ EnterIdleMode(c) \in CacheType
           /\ EnterIdleMode(c).data = c.data
           /\ EnterIdleMode(c).value = c.value
           /\ EnterIdleMode(c).age = c.age
           /\ EnterIdleMode(c).levels = c.levels
           /\ EnterIdleMode(c).current = c.current
           /\ EnterIdleMode(c).mode = "idle"
           /\ EnterIdleMode(c).due = Never
           /\ EnterIdleMode(c).timer = Never
           /\ Cached(EnterIdleMode(c)) = Cached(c)
           /\ Agrees(c) => Agrees(EnterIdleMode(c))
  <1> DEFINE d == EnterIdleMode(c)
  <1>1. /\ d.data = c.data /\ d.value = c.value /\ d.age = c.age /\ d.levels = c.levels
        /\ d.current = c.current /\ d.mode = "idle" /\ d.due = Never /\ d.timer = Never
    BY DEF EnterIdleMode, CacheType
  <1>2. Never \in -Duration .. Never /\ Never \in -MaxLate .. Never
    BY Constants
  <1>3. d \in CacheType
    BY <1>2 DEF EnterIdleMode, CacheType
  <1> HIDE DEF d
  <1>4. Cached(d) = Cached(c) /\ (Agrees(c) => Agrees(d))
    BY <1>1 DEF Cached, Agrees
  <1> QED
    BY <1>1, <1>3, <1>4 DEF d

\* What decays leave: entries whose deadline has passed are gone, the others
\* are as they were.
Deadline(c, p) == c.due + TimeLeft(c, c.data[p])
Decayed(c, d) ==
    /\ Cached(d) \subseteq Cached(c)
    /\ \A p \in Cached(d) : /\ d.value[p] = c.value[p]
                            /\ d.age[p] = c.age[p]
                            /\ Deadline(d, p) = Deadline(c, p)
    /\ \A p \in Cached(c) \ Cached(d) : Deadline(c, p) <= 0

\* An object without a timeout that is consistent: what decays work on.
Passive(c) == c \in CacheType /\ Exact(c) /\ Agrees(c) /\ c.mode # "async"

LEMMA DecayLevelIs ==
    ASSUME NEW c, Passive(c), c.due <= 0, c.mode # "idle"
    PROVE  /\ Passive(DecayLevel(c))
           /\ Decayed(c, DecayLevel(c))
           /\ DecayLevel(c).mode = "idle" \/ DecayLevel(c).due = c.due + Tick
  <1> DEFINE n == NextLevel(c)
             w == Without(c, c.levels[n])
             r == [w EXCEPT !.current = n]
             d == DecayLevel(c)
  <1>0. c \in CacheType /\ Exact(c) /\ Agrees(c) /\ c.mode = "sync" /\ c.timer = Never
    BY FieldsOf DEF Passive, Exact
  <1>1. n \in Level
    BY <1>0, FieldsOf, NextLevelIs
  <1>2. w \in CacheType /\ Agrees(w) /\ Cached(w) = Cached(c) \ c.levels[n]
    BY <1>0, WithoutIs
  <1>3. /\ w.data = [p \in Path |-> IF p \in c.levels[n] THEN None ELSE c.data[p]]
        /\ w.value = [p \in Path |-> IF p \in c.levels[n] THEN 0 ELSE c.value[p]]
        /\ w.age = [p \in Path |-> IF p \in c.levels[n] THEN 0 ELSE c.age[p]]
        /\ w.levels = [i \in Level |-> c.levels[i] \ c.levels[n]]
        /\ w.mode = "sync" /\ w.due = c.due /\ w.timer = Never
    BY <1>0, WithoutIs
  <1> HIDE DEF w
  <1>4. /\ r \in CacheType /\ r.current = n /\ r.data = w.data /\ r.value = w.value
        /\ r.age = w.age /\ r.levels = w.levels
        /\ r.mode = "sync" /\ r.due = c.due /\ r.timer = Never
    BY <1>1, <1>2, <1>3 DEF CacheType
  <1>5. Cached(r) = Cached(w) /\ Agrees(r)
    BY <1>2, <1>4 DEF Cached, Agrees
  <1>6. d = IF Cached(r) = {} THEN EnterIdleMode(r) ELSE [r EXCEPT !.due = @ + Tick]
    BY DEF DecayLevel, NextLevel, w
  <1>7. \A p \in Cached(c) : p \in c.levels[n] <=> c.data[p] = n
    BY <1>0, <1>1, CachedIs DEF Agrees
  <1>8. \A p \in Cached(c) \ Cached(r) : Deadline(c, p) <= 0
    <2> SUFFICES ASSUME NEW p \in Cached(c) \ Cached(r) PROVE Deadline(c, p) <= 0
      OBVIOUS
    <2>1. c.data[p] = n
      BY <1>2, <1>5, <1>7
    <2>2. TimeLeft(c, n) = 0
      BY <1>0, <1>1, FieldsOf, TimeLeftIs
    <2>3. c.due \in Int
      BY <1>0, FieldsOf
    <2> QED
      BY <2>1, <2>2, <2>3 DEF Deadline
  <1>9. CASE Cached(r) = {}
    <2>1. d = EnterIdleMode(r)
      BY <1>6, <1>9
    <2>2. /\ d \in CacheType /\ d.mode = "idle" /\ d.due = Never /\ d.timer = Never
          /\ Cached(d) = {} /\ Agrees(d)
      BY <1>4, <1>5, <1>9, <2>1, EnterIdleModeIs
    <2>3. Passive(d)
      BY <2>2 DEF Passive, Exact
    <2>4. Decayed(c, d)
      BY <1>8, <1>9, <2>2 DEF Decayed
    <2> QED
      BY <2>2, <2>3, <2>4
  <1>10. CASE Cached(r) # {}
    <2>1. d = [r EXCEPT !.due = @ + Tick]
      BY <1>6, <1>10
    <2>2. c.due + Tick \in -Duration .. Never /\ c.due + Tick # Never
      BY <1>0, FieldsOf, Constants
    <2>3. /\ d \in CacheType /\ d.data = w.data /\ d.value = w.value /\ d.age = w.age
          /\ d.levels = w.levels /\ d.current = n /\ d.mode = "sync" /\ d.due = c.due + Tick
          /\ d.timer = Never
      BY <1>4, <2>1, <2>2 DEF CacheType
    <2>4. Cached(d) = Cached(r) /\ Agrees(d)
      BY <1>4, <1>5, <2>3 DEF Cached, Agrees
    <2>5. Passive(d)
      BY <1>10, <2>2, <2>3, <2>4 DEF Passive, Exact
    <2>6. Cached(d) \subseteq Cached(c)
      BY <1>2, <1>5, <2>4
    <2>7. ASSUME NEW p \in Cached(d)
          PROVE  d.value[p] = c.value[p] /\ d.age[p] = c.age[p] /\ Deadline(d, p) = Deadline(c, p)
      <3>1. p \in Cached(c) /\ p \notin c.levels[n] /\ p \in Path
        BY <1>0, <1>2, <1>5, <2>4, CachedIs
      <3>2. d.value[p] = c.value[p] /\ d.age[p] = c.age[p] /\ d.data[p] = c.data[p]
        BY <1>3, <2>3, <3>1
      <3>3. c.data[p] \in Level /\ c.data[p] # n
        BY <1>0, <1>7, <3>1, CachedIs
      <3>4. TimeLeft(d, c.data[p]) = TimeLeft(c, c.data[p]) - Tick /\ TimeLeft(c, c.data[p]) \in Nat
        BY <1>0, <2>3, <3>3, FieldsOf, TimeLeftIs
      <3>5. c.due \in Int /\ Tick \in Int
        BY <1>0, FieldsOf, Constants
      <3>6. Deadline(d, p) = c.due + Tick + (TimeLeft(c, c.data[p]) - Tick)
        BY <2>3, <3>2, <3>4 DEF Deadline
      <3>7. Deadline(d, p) = Deadline(c, p)
        BY <3>4, <3>5, <3>6 DEF Deadline
      <3> QED
        BY <3>2, <3>7
    <2>8. Decayed(c, d)
      BY <1>8, <2>4, <2>6, <2>7 DEF Decayed
    <2> QED
      BY <2>3, <2>5, <2>8
  <1> HIDE DEF d
  <1> QED
    BY <1>9, <1>10 DEF d

\* The loop of _runDecays() ends at an object whose next decay is not due, or
\* that is idle.
Stopped == {c \in CacheType : c.due > 0 \/ c.mode = "idle"}

LEMMA DecayTyped ==
    ASSUME NEW c \in CacheType, c.due <= 0
    PROVE  /\ DecayLevel(c) \in CacheType
           /\ DecayLevel(c).mode = "idle" \/ DecayLevel(c).due = c.due + Tick
  <1> DEFINE n == NextLevel(c)
             w == Without(c, c.levels[n])
             r == [w EXCEPT !.current = n]
  <1>1. n \in Level
    BY FieldsOf, NextLevelIs
  <1>2. w \in CacheType /\ w.due = c.due
    BY WithoutIs
  <1> HIDE DEF w
  <1>3. r \in CacheType /\ r.due = c.due
    BY <1>1, <1>2 DEF CacheType
  <1>4. DecayLevel(c) = IF Cached(r) = {} THEN EnterIdleMode(r) ELSE [r EXCEPT !.due = @ + Tick]
    BY DEF DecayLevel, NextLevel, w
  <1>5. c.due + Tick \in -Duration .. Never
    BY FieldsOf, Constants
  <1>6. [r EXCEPT !.due = @ + Tick] \in CacheType /\ [r EXCEPT !.due = @ + Tick].due = c.due + Tick
    BY <1>3, <1>5 DEF CacheType
  <1>7. EnterIdleMode(r) \in CacheType /\ EnterIdleMode(r).mode = "idle"
    BY <1>3, EnterIdleModeIs
  <1> HIDE DEF r
  <1> QED
    BY <1>4, <1>6, <1>7

\* RunDecays is the function that its equation says.
LEMMA RunDecaysLoop ==
    /\ RunDecays = [c \in CacheType |->
            IF c.due > 0 \/ c.mode = "idle" THEN c ELSE RunDecays[DecayLevel(c)]]
    /\ \A I \in SUBSET CacheType :
          (\A c \in I : c \notin Stopped => DecayLevel(c) \in I) =>
              \A c \in I : RunDecays[c] \in I /\ RunDecays[c] \in Stopped
  <1> DEFINE step == [c \in CacheType |-> IF c \in Stopped THEN c ELSE DecayLevel(c)]
             m == [c \in CacheType |-> IF c \in Stopped THEN 0 ELSE 1 - c.due]
             N == Duration + 1
  <1>1. ASSUME NEW c \in CacheType, c \notin Stopped
        PROVE  /\ c.due <= 0 /\ c.due \in Int /\ c.due >= -Duration
               /\ DecayLevel(c) \in CacheType
               /\ DecayLevel(c) \in Stopped \/ DecayLevel(c).due = c.due + Tick
    <2>1. c.due <= 0 /\ c.due \in Int /\ c.due >= -Duration
      BY <1>1, FieldsOf, Constants DEF Stopped
    <2>2. /\ DecayLevel(c) \in CacheType
          /\ DecayLevel(c).mode = "idle" \/ DecayLevel(c).due = c.due + Tick
      BY <2>1, DecayTyped
    <2> QED
      BY <2>1, <2>2 DEF Stopped
  <1>2. step \in [CacheType -> CacheType]
    BY <1>1
  <1>3. \A c \in CacheType : m[c] \in Nat /\ m[c] <= Duration + 1
    <2> SUFFICES ASSUME NEW c \in CacheType PROVE m[c] \in Nat /\ m[c] <= Duration + 1
      OBVIOUS
    <2>1. CASE c \in Stopped
      BY <2>1, Constants
    <2>2. CASE c \notin Stopped
      <3>1. m[c] = 1 - c.due
        BY <2>2
      <3> QED
        BY <1>1, <2>2, <3>1, Constants
    <2> QED
      BY <2>1, <2>2
  <1>4. m \in [CacheType -> Nat]
    BY <1>3
  <1>5. ASSUME NEW c \in CacheType, c \notin Stopped PROVE m[step[c]] < m[c]
    <2>1. step[c] = DecayLevel(c) /\ m[c] = 1 - c.due
      BY <1>5
    <2>2. CASE DecayLevel(c) \in Stopped
      <3>1. m[DecayLevel(c)] = 0
        BY <1>1, <1>5, <2>2
      <3> QED
        BY <1>1, <1>5, <2>1, <3>1
    <2>3. CASE DecayLevel(c) \notin Stopped
      <3>1. m[DecayLevel(c)] = 1 - (c.due + Tick)
        BY <1>1, <1>5, <2>3
      <3> QED
        BY <1>1, <1>5, <2>1, <3>1, Constants
    <2> QED
      BY <2>2, <2>3
  <1>6. N \in Nat
    BY Constants
  <1> HIDE DEF m
  <1>7. \A c \in CacheType : m[c] <= N
    BY <1>3
  <1>8. \A c \in CacheType : c \notin Stopped => m[step[c]] < m[c]
    BY <1>5
  <1> HIDE DEF step, N
  <1>9. CountsDown(CacheType, step, Stopped, m, N)
    BY <1>2, <1>4, <1>6, <1>7, <1>8 DEF CountsDown
  <1>10. \E W : W = [c \in CacheType |->
              IF c.due > 0 \/ c.mode = "idle" THEN c ELSE W[DecayLevel(c)]]
    <2>0. PICK W : Loops(CacheType, step, Stopped, W)
      BY <1>9, LoopExists
    <2>1. W = [c \in CacheType |-> IF c \in Stopped THEN c ELSE W[step[c]]]
      BY <2>0 DEF Loops
    <2>2. ASSUME NEW c \in CacheType
          PROVE  (IF c \in Stopped THEN c ELSE W[step[c]]) =
                 (IF c.due > 0 \/ c.mode = "idle" THEN c ELSE W[DecayLevel(c)])
      <3>1. c \in Stopped <=> (c.due > 0 \/ c.mode = "idle")
        BY DEF Stopped
      <3>2. c \notin Stopped => step[c] = DecayLevel(c)
        BY DEF step
      <3> QED
        BY <3>1, <3>2
    <2>3. [c \in CacheType |-> IF c \in Stopped THEN c ELSE W[step[c]]] =
          [c \in CacheType |-> IF c.due > 0 \/ c.mode = "idle" THEN c ELSE W[DecayLevel(c)]]
      BY <2>2
    <2> QED
      BY <2>1, <2>3
  <1>11. RunDecays = [c \in CacheType |->
              IF c.due > 0 \/ c.mode = "idle" THEN c ELSE RunDecays[DecayLevel(c)]]
    BY <1>10, Zenon DEF RunDecays
  <1>12. Loops(CacheType, step, Stopped, RunDecays)
    <2>2. ASSUME NEW c \in CacheType
          PROVE  (IF c \in Stopped THEN c ELSE RunDecays[step[c]]) =
                 (IF c.due > 0 \/ c.mode = "idle" THEN c ELSE RunDecays[DecayLevel(c)])
      <3>1. c \in Stopped <=> (c.due > 0 \/ c.mode = "idle")
        BY DEF Stopped
      <3>2. c \notin Stopped => step[c] = DecayLevel(c)
        BY DEF step
      <3> QED
        BY <3>1, <3>2
    <2>3. [c \in CacheType |-> IF c \in Stopped THEN c ELSE RunDecays[step[c]]] =
          [c \in CacheType |-> IF c.due > 0 \/ c.mode = "idle" THEN c ELSE RunDecays[DecayLevel(c)]]
      BY <2>2
    <2> QED
      BY <1>11, <2>3 DEF Loops
  <1>13. ASSUME NEW I \in SUBSET CacheType, \A c \in I : c \notin Stopped => DecayLevel(c) \in I
         PROVE  \A c \in I : RunDecays[c] \in I /\ RunDecays[c] \in Stopped
    <2>1. \A c \in I : c \notin Stopped => step[c] \in I
      BY <1>13 DEF step
    <2> QED
      BY <1>9, <1>12, <2>1, LoopKeeps
  <1> QED
    BY <1>11, <1>13

LEMMA DecayedOn ==
    ASSUME NEW c, NEW d, NEW e, Decayed(c, d), Decayed(d, e)
    PROVE  Decayed(c, e)
  <1>1. Cached(e) \subseteq Cached(d) /\ Cached(d) \subseteq Cached(c)
    BY DEF Decayed
  <1>2. ASSUME NEW p \in Cached(e)
        PROVE  e.value[p] = c.value[p] /\ e.age[p] = c.age[p] /\ Deadline(e, p) = Deadline(c, p)
    BY <1>1 DEF Decayed
  <1>3. ASSUME NEW p \in Cached(c) \ Cached(e) PROVE Deadline(c, p) <= 0
    <2>1. CASE p \in Cached(d)
      BY <1>3, <2>1 DEF Decayed
    <2>2. CASE p \notin Cached(d)
      BY <1>3, <2>2 DEF Decayed
    <2> QED
      BY <2>1, <2>2
  <1> QED
    BY <1>1, <1>2, <1>3 DEF Decayed

\* What _runDecays() does to an object without a timeout.
LEMMA RunDecaysIs ==
    ASSUME NEW c, Passive(c)
    PROVE  /\ Passive(RunDecays[c])
           /\ Decayed(c, RunDecays[c])
           /\ RunDecays[c].mode = "idle" \/ RunDecays[c].due > 0
  <1> DEFINE I == {d \in CacheType : Passive(d) /\ Decayed(c, d)}
  <1>1. c \in I
    BY DEF Passive, Decayed
  <1>2. ASSUME NEW d \in I, d \notin Stopped PROVE DecayLevel(d) \in I
    <2>1. Passive(d) /\ Decayed(c, d) /\ d \in CacheType
      OBVIOUS
    <2>2. d.mode # "idle" /\ d.due <= 0
      BY <1>2, <2>1, FieldsOf, Constants DEF Stopped
    <2>3. Passive(DecayLevel(d)) /\ Decayed(d, DecayLevel(d))
      BY <2>1, <2>2, DecayLevelIs
    <2>4. Decayed(c, DecayLevel(d))
      BY <2>1, <2>3, DecayedOn
    <2> QED
      BY <2>3, <2>4 DEF Passive
  <1>3. I \in SUBSET CacheType
    OBVIOUS
  <1>4. \A d \in I : d \notin Stopped => DecayLevel(d) \in I
    BY <1>2
  <1>5. RunDecays[c] \in I /\ RunDecays[c] \in Stopped
    <2> HIDE DEF I
    <2> QED
      BY <1>1, <1>3, <1>4, RunDecaysLoop
  <1> QED
    BY <1>5 DEF Stopped

\* _runDecays ends, however many levels are overdue, and drops the entries whose
\* deadline has passed and no others.
THEOREM RunDecaysCorrect ==
    ASSUME NEW c, Passive(c)
    PROVE  /\ Cached(RunDecays[c]) = {p \in Cached(c) : Deadline(c, p) > 0}
           /\ \A p \in Cached(RunDecays[c]) : /\ RunDecays[c].value[p] = c.value[p]
                                             /\ RunDecays[c].age[p] = c.age[p]
  <1> DEFINE d == RunDecays[c]
  <1>1. Passive(d) /\ Decayed(c, d) /\ (d.mode = "idle" \/ d.due > 0)
    BY RunDecaysIs
  <1>2. c \in CacheType
    BY DEF Passive
  <1> HIDE DEF d
  <1>3. d \in CacheType
    BY <1>1 DEF Passive
  <1>4. ASSUME NEW p \in Cached(d) PROVE p \in Cached(c) /\ Deadline(c, p) > 0
    <2>1. d.mode # "idle" /\ d.due > 0 /\ d.due \in Int
      BY <1>1, <1>3, FieldsOf DEF Passive, Exact
    <2>2. TimeLeft(d, d.data[p]) \in Nat
      BY <1>3, CachedIs, FieldsOf, TimeLeftIs
    <2>3. Deadline(d, p) > 0
      BY <2>1, <2>2 DEF Deadline
    <2> QED
      BY <1>1, <2>3 DEF Decayed
  <1>5. ASSUME NEW p \in Cached(c), Deadline(c, p) > 0 PROVE p \in Cached(d)
    <2>1. Deadline(c, p) \in Int
      <3>1. TimeLeft(c, c.data[p]) \in Nat /\ c.due \in Int
        BY <1>2, CachedIs, FieldsOf, TimeLeftIs
      <3> QED
        BY <3>1 DEF Deadline
    <2>2. ~ (Deadline(c, p) <= 0)
      BY <1>5, <2>1
    <2> QED
      BY <1>1, <2>2 DEF Decayed
  <1>6. \A p \in Cached(d) : d.value[p] = c.value[p] /\ d.age[p] = c.age[p]
    BY <1>1 DEF Decayed
  <1> QED
    BY <1>4, <1>5, <1>6 DEF d

(***************************************************************************)
(* How long entries stay, as invariants of an object.                      *)
(***************************************************************************)

\* The timeout is due with the next decay; `due` stops at -Duration.
Timed(c) == c.mode = "async" => c.due = c.timer \/ (c.due = -Duration /\ c.timer <= c.due)

\* When the entry is dropped at its deadline, its age will be `duration`; an
\* entry without a timeout whose deadline has passed is dropped before it is
\* looked at.
InTime(c) ==
    \A p \in Cached(c) :
        IF c.mode = "async"
        THEN c.age[p] + c.timer + TimeLeft(c, c.data[p]) <= Duration
        ELSE Deadline(c, p) <= 0 \/ c.age[p] + Deadline(c, p) <= Duration

Healthy(c) == c \in CacheType /\ Exact(c) /\ Agrees(c) /\ Timed(c) /\ InTime(c)

LEMMA EntryIs ==
    ASSUME NEW c \in CacheType, NEW p \in Cached(c)
    PROVE  /\ p \in Path /\ c.data[p] \in Level /\ c.age[p] \in Nat /\ c.value[p] \in Nat
           /\ TimeLeft(c, c.data[p]) \in Nat /\ TimeLeft(c, c.data[p]) <= Duration - Tick
           /\ Deadline(c, p) \in Int
           /\ Deadline(c, p) = c.due + TimeLeft(c, c.data[p])
  <1>1. p \in Path /\ c.data[p] \in Level
    BY CachedIs
  <1>2. TimeLeft(c, c.data[p]) \in Nat /\ TimeLeft(c, c.data[p]) <= Duration - Tick
    BY <1>1, FieldsOf, TimeLeftIs
  <1>3. c.due \in Int
    BY FieldsOf
  <1>4. c.age[p] \in Nat /\ c.value[p] \in Nat
    BY <1>1, FieldsOf
  <1> QED
    BY <1>1, <1>2, <1>3, <1>4 DEF Deadline

LEMMA StoreResultIs ==
    ASSUME NEW c \in CacheType, Agrees(c), NEW p \in Path, p \notin Cached(c), NEW v \in Nat
    PROVE  /\ StoreResult(c, p, v) \in CacheType
           /\ Agrees(StoreResult(c, p, v))
           /\ Cached(StoreResult(c, p, v)) = Cached(c) \cup {p}
           /\ StoreResult(c, p, v).data = [c.data EXCEPT ![p] = c.current]
           /\ StoreResult(c, p, v).value = [c.value EXCEPT ![p] = v]
           /\ StoreResult(c, p, v).age = [c.age EXCEPT ![p] = 0]
           /\ StoreResult(c, p, v).current = c.current
           /\ StoreResult(c, p, v).mode = c.mode
           /\ StoreResult(c, p, v).due = c.due
           /\ StoreResult(c, p, v).timer = c.timer
  <1> DEFINE s == [c EXCEPT !.data[p] = c.current, !.value[p] = v, !.age[p] = 0,
                            !.levels[c.current] = @ \cup {p}]
  <1>1. StoreResult(c, p, v) = s
    BY DEF StoreResult
  <1>2. /\ s.data = [c.data EXCEPT ![p] = c.current]
        /\ s.value = [c.value EXCEPT ![p] = v]
        /\ s.age = [c.age EXCEPT ![p] = 0]
        /\ s.levels = [c.levels EXCEPT ![c.current] = @ \cup {p}]
        /\ s.current = c.current /\ s.mode = c.mode /\ s.due = c.due /\ s.timer = c.timer
    BY DEF CacheType
  <1>3. /\ [c.data EXCEPT ![p] = c.current] \in [Path -> Level \cup {None}]
        /\ [c.value EXCEPT ![p] = v] \in [Path -> Nat]
        /\ [c.age EXCEPT ![p] = 0] \in [Path -> 0 .. Duration + MaxLate + 1]
        /\ [c.levels EXCEPT ![c.current] = @ \cup {p}] \in [Level -> SUBSET Path]
    <2>1. c.current \in Level /\ 0 \in 0 .. Duration + MaxLate + 1
      BY FieldsOf, Constants
    <2>2. [c.data EXCEPT ![p] = c.current] \in [Path -> Level \cup {None}]
      BY <2>1, FieldsOf
    <2>3. [c.value EXCEPT ![p] = v] \in [Path -> Nat]
      BY FieldsOf
    <2>4. [c.age EXCEPT ![p] = 0] \in [Path -> 0 .. Duration + MaxLate + 1]
      BY <2>1, FieldsOf
    <2>5. [c.levels EXCEPT ![c.current] = @ \cup {p}] \in [Level -> SUBSET Path]
      BY <2>1, FieldsOf
    <2> QED
      BY <2>2, <2>3, <2>4, <2>5
  <1>4. s \in CacheType
    BY <1>3 DEF CacheType
  <1> HIDE DEF s
  <1>5. c.current # None /\ c.current \in Level
    BY FieldsOf, Constants
  <1>6. Cached(s) = Cached(c) \cup {p}
    BY <1>2, <1>5, FieldsOf DEF Cached
  <1>7. c.data[p] = None
    BY DEF Cached
  <1>8. Agrees(s)
    <2> SUFFICES ASSUME NEW q \in Path, NEW i \in Level
                 PROVE  q \in s.levels[i] <=> s.data[q] = i
      BY DEF Agrees
    <2>1. q \in c.levels[i] <=> c.data[q] = i
      BY DEF Agrees
    <2>2. s.data[q] = IF q = p THEN c.current ELSE c.data[q]
      BY <1>2, FieldsOf
    <2>3. s.levels[i] = IF i = c.current THEN c.levels[i] \cup {p} ELSE c.levels[i]
      BY <1>2, FieldsOf
    <2>4. i # None
      BY Constants
    <2> QED
      BY <1>7, <2>1, <2>2, <2>3, <2>4
  <1> QED
    BY <1>1, <1>2, <1>4, <1>6, <1>8

\* Decays keep an object without a timeout healthy.
LEMMA DecaysKeep ==
    ASSUME NEW c, Healthy(c), c.mode # "async"
    PROVE  /\ Healthy(RunDecays[c])
           /\ Decayed(c, RunDecays[c])
           /\ RunDecays[c].mode \in {"idle", "sync"}
           /\ RunDecays[c].mode = "idle" \/ RunDecays[c].due > 0
  <1> DEFINE d == RunDecays[c]
  <1>1. Passive(c)
    BY DEF Healthy, Passive
  <1>2. Passive(d) /\ Decayed(c, d) /\ (d.mode = "idle" \/ d.due > 0)
    BY <1>1, RunDecaysIs
  <1> HIDE DEF d
  <1>3. d \in CacheType /\ d.mode \in {"idle", "sync"}
    BY <1>2, FieldsOf DEF Passive
  <1>4. InTime(d)
    <2> SUFFICES ASSUME NEW p \in Cached(d)
                 PROVE  Deadline(d, p) <= 0 \/ d.age[p] + Deadline(d, p) <= Duration
      BY <1>3 DEF InTime
    <2>1. p \in Cached(c) /\ d.age[p] = c.age[p] /\ Deadline(d, p) = Deadline(c, p)
      BY <1>2 DEF Decayed
    <2>2. Deadline(c, p) <= 0 \/ c.age[p] + Deadline(c, p) <= Duration
      BY <2>1 DEF Healthy, InTime
    <2> QED
      BY <2>1, <2>2
  <1>5. Healthy(d)
    BY <1>2, <1>3, <1>4 DEF Passive, Healthy, Timed
  <1> QED
    BY <1>2, <1>3, <1>5 DEF d

LEMMA StartTimerIs ==
    ASSUME NEW c, Healthy(c), c.mode = "sync", c.due > 0
    PROVE  /\ Healthy(StartTimer(c))
           /\ Decayed(c, StartTimer(c))
           /\ StartTimer(c).mode = "async"
  <1> DEFINE d == StartTimer(c)
  <1>1. c \in CacheType /\ c.due \in Int /\ c.due # Never /\ c.due <= Never
    BY FieldsOf, Constants DEF Healthy, Exact
  <1>2. c.due \in -MaxLate .. Never
    BY <1>1, Constants
  <1>3. (IF c.due < 0 THEN 0 ELSE c.due) = c.due
    BY <1>1
  <1>4. /\ d \in CacheType /\ d.data = c.data /\ d.value = c.value /\ d.age = c.age
        /\ d.levels = c.levels /\ d.current = c.current /\ d.due = c.due
        /\ d.mode = "async" /\ d.timer = c.due
    BY <1>1, <1>2, <1>3 DEF StartTimer, CacheType
  <1> HIDE DEF d
  <1>5. Cached(d) = Cached(c) /\ Agrees(d)
    BY <1>4 DEF Cached, Agrees, Healthy
  <1>6. \A p : TimeLeft(d, d.data[p]) = TimeLeft(c, c.data[p]) /\ Deadline(d, p) = Deadline(c, p)
    BY <1>4 DEF TimeLeft, Left, Deadline
  <1>7. Decayed(c, d)
    BY <1>4, <1>5, <1>6 DEF Decayed
  <1>8. InTime(d)
    <2> SUFFICES ASSUME NEW p \in Cached(d)
                 PROVE  d.age[p] + d.timer + TimeLeft(d, d.data[p]) <= Duration
      BY <1>4 DEF InTime
    <2>1. /\ TimeLeft(c, c.data[p]) \in Nat /\ c.age[p] \in Nat /\ Deadline(c, p) \in Int
          /\ Deadline(c, p) = c.due + TimeLeft(c, c.data[p])
      BY <1>1, <1>5, EntryIs
    <2>2. Deadline(c, p) <= 0 \/ c.age[p] + Deadline(c, p) <= Duration
      BY <1>5 DEF Healthy, InTime
    <2>3. c.age[p] + c.due + TimeLeft(c, c.data[p]) <= Duration
      BY <1>1, <2>1, <2>2, Constants
    <2> QED
      BY <1>4, <1>6, <2>3
  <1>9. Healthy(d)
    BY <1>1, <1>4, <1>5, <1>8 DEF Healthy, Exact, Timed
  <1> QED
    BY <1>4, <1>7, <1>9 DEF d

LEMMA EnterAsyncModeIs ==
    ASSUME NEW c, Healthy(c), c.mode # "idle"
    PROVE  /\ Healthy(EnterAsyncMode(c))
           /\ Decayed(c, EnterAsyncMode(c))
           /\ EnterAsyncMode(c).mode \in {"idle", "async"}
  <1>1. CASE c.mode = "async"
    <2>1. EnterAsyncMode(c) = c
      BY <1>1 DEF EnterAsyncMode
    <2>2. Decayed(c, c)
      BY DEF Decayed
    <2> QED
      BY <1>1, <2>1, <2>2
  <1>2. CASE c.mode = "sync"
    <2> DEFINE d == RunDecays[c]
    <2>1. EnterAsyncMode(c) = IF d.mode = "idle" THEN d ELSE StartTimer(d)
      BY <1>2 DEF EnterAsyncMode
    <2>2. /\ Healthy(d) /\ Decayed(c, d) /\ d.mode \in {"idle", "sync"}
          /\ d.mode = "idle" \/ d.due > 0
      BY <1>2, DecaysKeep
    <2> HIDE DEF d
    <2>3. CASE d.mode = "idle"
      BY <2>1, <2>2, <2>3
    <2>4. CASE d.mode # "idle"
      <3>1. /\ Healthy(StartTimer(d)) /\ Decayed(d, StartTimer(d))
            /\ StartTimer(d).mode = "async"
        BY <2>2, <2>4, StartTimerIs
      <3>2. Decayed(c, StartTimer(d))
        BY <2>2, <3>1, DecayedOn
      <3> QED
        BY <2>1, <2>4, <3>1, <3>2
    <2> QED
      BY <2>3, <2>4
  <1>3. c.mode \in {"idle", "sync", "async"}
    BY FieldsOf DEF Healthy
  <1> QED
    BY <1>1, <1>2, <1>3

LEMMA SameObject ==
    ASSUME NEW c \in CacheType, NEW d \in CacheType,
           c.data = d.data, c.value = d.value, c.age = d.age, c.levels = d.levels,
           c.current = d.current, c.mode = d.mode, c.due = d.due, c.timer = d.timer
    PROVE  c = d
  BY DEF CacheType

LEMMA SameLevel ==
    ASSUME NEW c, NEW d, c.current = d.current
    PROVE  \A i : TimeLeft(c, i) = TimeLeft(d, i)
  BY DEF TimeLeft, Left

\* A new entry, for a synchronous read.
LEMMA SyncStore ==
    ASSUME NEW c, Healthy(c), NEW p \in Path, p \notin Cached(c), NEW v \in Nat,
           NEW d, d = EnterSyncModeWhenIdle(StoreResult(c, p, v))
    PROVE  /\ Healthy(d) /\ d.mode # "idle"
           /\ Cached(d) = Cached(c) \cup {p}
           /\ d.value[p] = v /\ d.age[p] = 0
           /\ Deadline(d, p) = Duration - Tick + (IF c.mode = "idle" THEN Tick ELSE c.due)
           /\ \A q \in Cached(c) : /\ d.value[q] = c.value[q] /\ d.age[q] = c.age[q]
                                   /\ Deadline(d, q) = Deadline(c, q)
           /\ c.mode # "idle" => d = StoreResult(c, p, v)
           /\ c.mode = "idle" => d.mode = "sync" /\ d.due = Tick
  <1> DEFINE s == StoreResult(c, p, v)
  <1>1. c \in CacheType /\ Exact(c) /\ Agrees(c)
    BY DEF Healthy
  <1>2. /\ s \in CacheType /\ Agrees(s) /\ Cached(s) = Cached(c) \cup {p}
        /\ s.data = [c.data EXCEPT ![p] = c.current]
        /\ s.value = [c.value EXCEPT ![p] = v]
        /\ s.age = [c.age EXCEPT ![p] = 0]
        /\ s.current = c.current /\ s.mode = c.mode /\ s.due = c.due /\ s.timer = c.timer
    BY <1>1, StoreResultIs
  <1> HIDE DEF s
  <1>3. d = IF s.mode = "idle" THEN [s EXCEPT !.mode = "sync", !.due = Tick] ELSE s
    BY DEF EnterSyncModeWhenIdle, s
  <1>4. Tick \in -Duration .. Never
    BY Constants
  <1>5. /\ d \in CacheType /\ d.data = s.data /\ d.value = s.value /\ d.age = s.age
        /\ d.levels = s.levels /\ d.current = s.current /\ d.timer = s.timer
        /\ d.mode = IF c.mode = "idle" THEN "sync" ELSE c.mode
        /\ d.due = IF c.mode = "idle" THEN Tick ELSE c.due
    <2>1. CASE c.mode = "idle"
      <3>1. d = [s EXCEPT !.mode = "sync", !.due = Tick]
        BY <1>2, <1>3, <2>1
      <3>2. /\ d \in CacheType /\ d.data = s.data /\ d.value = s.value /\ d.age = s.age
            /\ d.levels = s.levels /\ d.current = s.current /\ d.timer = s.timer
            /\ d.mode = "sync" /\ d.due = Tick
        BY <1>2, <1>4, <3>1 DEF CacheType
      <3> QED
        BY <2>1, <3>2
    <2>2. CASE c.mode # "idle"
      BY <1>2, <1>3, <2>2
    <2> QED
      BY <2>1, <2>2
  <1>6. Cached(d) = Cached(c) \cup {p} /\ Agrees(d)
    BY <1>2, <1>5 DEF Cached, Agrees
  <1>7. d.value[p] = v /\ d.age[p] = 0 /\ d.data[p] = c.current
    BY <1>1, <1>2, <1>5, FieldsOf
  <1>8. d.mode # "idle"
    BY <1>5
  <1>9. Exact(d)
    <2>1. d.due # Never
      BY <1>1, <1>5, Constants DEF Exact
    <2>2. Cached(d) # {}
      BY <1>6
    <2>3. d.mode = "async" <=> d.timer # Never
      BY <1>1, <1>2, <1>5 DEF Exact
    <2> QED
      BY <1>8, <2>1, <2>2, <2>3 DEF Exact
  <1>10. \A i : TimeLeft(d, i) = TimeLeft(c, i)
    BY <1>2, <1>5, SameLevel
  <1>11. TimeLeft(c, c.current) = Duration - Tick
    BY <1>1, FieldsOf, TimeLeftIs
  <1>12. Deadline(d, p) = Duration - Tick + (IF c.mode = "idle" THEN Tick ELSE c.due)
    <2>1. Deadline(d, p) = d.due + (Duration - Tick)
      BY <1>7, <1>10, <1>11 DEF Deadline
    <2>2. d.due \in Int
      BY <1>5, FieldsOf
    <2> QED
      BY <1>5, <2>1, <2>2, Constants
  <1>13. ASSUME NEW q \in Cached(c)
         PROVE  /\ d.value[q] = c.value[q] /\ d.age[q] = c.age[q] /\ d.data[q] = c.data[q]
                /\ d.due = c.due /\ d.mode = c.mode /\ d.timer = c.timer
                /\ Deadline(d, q) = Deadline(c, q)
    <2>1. q \in Path /\ q # p
      BY <1>1, CachedIs
    <2>2. c.mode # "idle"
      BY <1>1 DEF Exact
    <2>3. d.value[q] = c.value[q] /\ d.age[q] = c.age[q] /\ d.data[q] = c.data[q]
      BY <1>1, <1>2, <1>5, <2>1, FieldsOf
    <2>4. d.due = c.due /\ d.mode = c.mode /\ d.timer = c.timer
      BY <1>2, <1>5, <2>2
    <2> QED
      BY <1>10, <2>3, <2>4 DEF Deadline
  <1>14. Timed(d)
    BY <1>2, <1>5 DEF Timed, Healthy
  <1>15. InTime(d)
    <2> SUFFICES ASSUME NEW q \in Cached(d)
                 PROVE  IF d.mode = "async"
                        THEN d.age[q] + d.timer + TimeLeft(d, d.data[q]) <= Duration
                        ELSE Deadline(d, q) <= 0 \/ d.age[q] + Deadline(d, q) <= Duration
      BY DEF InTime
    <2>1. CASE q \in Cached(c)
      <3>1. IF c.mode = "async"
            THEN c.age[q] + c.timer + TimeLeft(c, c.data[q]) <= Duration
            ELSE Deadline(c, q) <= 0 \/ c.age[q] + Deadline(c, q) <= Duration
        BY <2>1 DEF Healthy, InTime
      <3> QED
        BY <1>10, <1>13, <2>1, <3>1
    <2>2. CASE q = p
      <3>1. CASE d.mode = "async"
        <4>1. d.timer \in Int /\ d.timer <= Tick
          BY <1>5, <1>9, <3>1, FieldsOf, Constants DEF Exact, Never
        <4>2. TimeLeft(d, d.data[p]) = Duration - Tick
          BY <1>7, <1>10, <1>11
        <4> QED
          BY <1>7, <2>2, <3>1, <4>1, <4>2, Constants
      <3>2. CASE d.mode # "async"
        <4>1. d.due \in Int /\ d.due <= Tick
          BY <1>5, <1>8, <1>9, FieldsOf, Constants DEF Exact, Never
        <4>2. Deadline(d, p) = d.due + (Duration - Tick)
          BY <1>7, <1>10, <1>11 DEF Deadline
        <4> QED
          BY <1>7, <2>2, <3>2, <4>1, <4>2, Constants
      <3> QED
        BY <3>1, <3>2
    <2> QED
      BY <1>6, <2>1, <2>2
  <1>16. Healthy(d)
    BY <1>5, <1>6, <1>9, <1>14, <1>15 DEF Healthy
  <1>17. (c.mode # "idle" => d = s) /\ (c.mode = "idle" => d.mode = "sync" /\ d.due = Tick)
    BY <1>2, <1>3, <1>5
  <1> QED
    BY <1>6, <1>7, <1>8, <1>12, <1>13, <1>16, <1>17 DEF s

\* What may have become of an object c when result v of p has been stored and
\* decays have run.
Updated(c, d, p, v) ==
    /\ Cached(d) \subseteq Cached(c) \cup {p}
    /\ \A q \in Cached(d) : IF q \in Cached(c)
                            THEN /\ d.value[q] = c.value[q] /\ d.age[q] = c.age[q]
                                 /\ Deadline(d, q) = Deadline(c, q)
                            ELSE d.value[q] = v
    /\ \A q \in Cached(c) \ Cached(d) : Deadline(c, q) <= 0

\* A result, for an asynchronous read.
LEMMA AsyncStore ==
    ASSUME NEW c, Healthy(c), NEW p \in Path, NEW v \in Nat,
           NEW d, d = EnterAsyncMode(StoreResult(c, p, v))
    PROVE  Healthy(d) /\ Updated(c, d, p, v)
  <1>1. CASE p \in Cached(c)
    <2>1. StoreResult(c, p, v) = c
      BY <1>1 DEF StoreResult
    <2>2. c.mode # "idle"
      BY <1>1 DEF Healthy, Exact
    <2>3. Healthy(d) /\ Decayed(c, d)
      BY <2>1, <2>2, EnterAsyncModeIs
    <2> QED
      BY <2>3 DEF Updated, Decayed
  <1>2. CASE p \notin Cached(c)
    <2> DEFINE s == StoreResult(c, p, v)
               e == EnterSyncModeWhenIdle(s)
    <2>1. /\ Healthy(e) /\ e.mode # "idle" /\ Cached(e) = Cached(c) \cup {p} /\ e.value[p] = v
          /\ \A q \in Cached(c) : /\ e.value[q] = c.value[q] /\ e.age[q] = c.age[q]
                                  /\ Deadline(e, q) = Deadline(c, q)
          /\ c.mode # "idle" => e = s
          /\ c.mode = "idle" => e.mode = "sync" /\ e.due = Tick
      BY <1>2, SyncStore
    <2>2. Healthy(d) /\ Decayed(e, d)
      <3>1. CASE c.mode # "idle"
        BY <2>1, <3>1, EnterAsyncModeIs
      <3>2. CASE c.mode = "idle"
        <4>1. s \in CacheType /\ s.mode = "idle"
          BY <1>2, <3>2, StoreResultIs DEF Healthy
        <4>2. d = StartTimer([s EXCEPT !.due = Tick])
          BY <4>1 DEF EnterAsyncMode
        <4>3. e = [s EXCEPT !.mode = "sync", !.due = Tick]
          BY <4>1 DEF EnterSyncModeWhenIdle
        <4>4. Tick \in -Duration .. Never /\ Tick \in -MaxLate .. Never /\ ~ (Tick < 0)
          BY Constants
        <4> HIDE DEF s, e
        <4>5. /\ d \in CacheType /\ d.data = s.data /\ d.value = s.value /\ d.age = s.age
              /\ d.levels = s.levels /\ d.current = s.current /\ d.mode = "async"
              /\ d.due = Tick /\ d.timer = Tick
          BY <4>1, <4>2, <4>4 DEF StartTimer, CacheType
        <4>6. /\ e \in CacheType /\ e.data = s.data /\ e.value = s.value /\ e.age = s.age
              /\ e.levels = s.levels /\ e.current = s.current /\ e.mode = "sync"
              /\ e.due = Tick
          BY <4>1, <4>3, <4>4 DEF CacheType
        <4>7. /\ StartTimer(e) \in CacheType /\ StartTimer(e).data = s.data
              /\ StartTimer(e).value = s.value /\ StartTimer(e).age = s.age
              /\ StartTimer(e).levels = s.levels /\ StartTimer(e).current = s.current
              /\ StartTimer(e).mode = "async" /\ StartTimer(e).due = Tick
              /\ StartTimer(e).timer = Tick
          BY <4>4, <4>6 DEF StartTimer, CacheType
        <4>8. d = StartTimer(e)
          BY <4>5, <4>7, SameObject
        <4>9. e.due > 0
          BY <4>6, Constants
        <4> QED
          BY <2>1, <4>6, <4>8, <4>9, StartTimerIs DEF e
      <3> QED
        BY <3>1, <3>2
    <2> HIDE DEF s, e
    <2>3. Updated(c, d, p, v)
      <3>1. Cached(d) \subseteq Cached(c) \cup {p}
        BY <2>1, <2>2 DEF Decayed
      <3>2. ASSUME NEW q \in Cached(d)
            PROVE  IF q \in Cached(c)
                   THEN /\ d.value[q] = c.value[q] /\ d.age[q] = c.age[q]
                        /\ Deadline(d, q) = Deadline(c, q)
                   ELSE d.value[q] = v
        <4>1. d.value[q] = e.value[q] /\ d.age[q] = e.age[q] /\ Deadline(d, q) = Deadline(e, q)
          BY <2>2 DEF Decayed
        <4>2. q \notin Cached(c) => q = p
          BY <3>1
        <4> QED
          BY <2>1, <4>1, <4>2
      <3>3. \A q \in Cached(c) \ Cached(d) : Deadline(c, q) <= 0
        BY <2>1, <2>2 DEF Decayed
      <3> QED
        BY <3>1, <3>2, <3>3 DEF Updated
    <2> QED
      BY <2>2, <2>3
  <1> QED
    BY <1>1, <1>2

LEMMA PurgeIs ==
    ASSUME NEW c, Healthy(c), NEW P,
           NEW d, d = IF Cached(Without(c, P)) = {} THEN EnterIdleMode(Without(c, P))
                      ELSE Without(c, P)
    PROVE  /\ Healthy(d) /\ Cached(d) = Cached(c) \ P
           /\ \A q \in Cached(d) : /\ d.value[q] = c.value[q] /\ d.age[q] = c.age[q]
                                   /\ Deadline(d, q) = Deadline(c, q)
  <1> DEFINE w == Without(c, P)
  <1>1. c \in CacheType /\ Exact(c) /\ Agrees(c)
    BY DEF Healthy
  <1>2. /\ w \in CacheType /\ Agrees(w) /\ Cached(w) = Cached(c) \ P
        /\ \A q \in Path \ P : /\ w.data[q] = c.data[q] /\ w.value[q] = c.value[q]
                              /\ w.age[q] = c.age[q]
        /\ w.current = c.current /\ w.mode = c.mode /\ w.due = c.due /\ w.timer = c.timer
    <2>1. w \in CacheType /\ Agrees(w) /\ Cached(w) = Cached(c) \ P
      BY <1>1, WithoutIs
    <2>2. \A q \in Path \ P : /\ w.data[q] = c.data[q] /\ w.value[q] = c.value[q]
                            /\ w.age[q] = c.age[q]
      BY <1>1, LeavesOthers
    <2>3. w.current = c.current /\ w.mode = c.mode /\ w.due = c.due /\ w.timer = c.timer
      BY <1>1, WithoutIs
    <2> QED
      BY <2>1, <2>2, <2>3
  <1> HIDE DEF w
  <1>3. CASE Cached(w) = {}
    <2>1. d = EnterIdleMode(w)
      BY <1>3 DEF w
    <2>2. /\ d \in CacheType /\ d.mode = "idle" /\ d.due = Never /\ d.timer = Never
          /\ Cached(d) = {} /\ Agrees(d)
      BY <1>2, <1>3, <2>1, EnterIdleModeIs
    <2> QED
      BY <1>2, <1>3, <2>2 DEF Healthy, Exact, Timed, InTime
  <1>4. CASE Cached(w) # {}
    <2>1. d = w
      BY <1>4 DEF w
    <2>2. Exact(w)
      BY <1>1, <1>2, <1>4 DEF Exact
    <2>3. Timed(w)
      BY <1>2 DEF Timed, Healthy
    <2>4. \A i : TimeLeft(w, i) = TimeLeft(c, i)
      BY <1>2, SameLevel
    <2>5. ASSUME NEW q \in Cached(w)
          PROVE  /\ w.value[q] = c.value[q] /\ w.age[q] = c.age[q] /\ w.data[q] = c.data[q]
                 /\ Deadline(w, q) = Deadline(c, q) /\ q \in Cached(c)
      <3>1. q \in Cached(c) /\ q \notin P /\ q \in Path
        BY <1>1, <1>2, CachedIs
      <3>2. w.value[q] = c.value[q] /\ w.age[q] = c.age[q] /\ w.data[q] = c.data[q]
        BY <1>2, <3>1
      <3> QED
        BY <1>2, <2>4, <3>1, <3>2 DEF Deadline
    <2>6. InTime(w)
      <3> SUFFICES ASSUME NEW q \in Cached(w)
                   PROVE  IF w.mode = "async"
                          THEN w.age[q] + w.timer + TimeLeft(w, w.data[q]) <= Duration
                          ELSE Deadline(w, q) <= 0 \/ w.age[q] + Deadline(w, q) <= Duration
        BY DEF InTime
      <3>1. IF c.mode = "async"
            THEN c.age[q] + c.timer + TimeLeft(c, c.data[q]) <= Duration
            ELSE Deadline(c, q) <= 0 \/ c.age[q] + Deadline(c, q) <= Duration
        BY <2>5 DEF Healthy, InTime
      <3> QED
        BY <1>2, <2>4, <2>5, <3>1
    <2>7. Healthy(w)
      BY <1>2, <2>2, <2>3, <2>6 DEF Healthy
    <2> QED
      BY <1>2, <2>1, <2>5, <2>7
  <1> QED
    BY <1>3, <1>4

TimerOff(c) == [c EXCEPT !.mode = "sync", !.timer = Never]

LEMMA TimeoutIs ==
    ASSUME NEW c, Healthy(c), c.timer <= 0, NEW d, d = RunDecays[TimerOff(c)]
    PROVE  Healthy(d) /\ Decayed(c, d)
  <1> DEFINE x == TimerOff(c)
  <1>1. c \in CacheType /\ Exact(c) /\ Agrees(c) /\ c.mode = "async"
    <2>1. c.timer # Never
      BY FieldsOf, Constants DEF Healthy
    <2> QED
      BY <2>1 DEF Healthy, Exact
  <1>2. Never \in -MaxLate .. Never
    BY Constants
  <1>3. /\ x \in CacheType /\ x.data = c.data /\ x.value = c.value /\ x.age = c.age
        /\ x.levels = c.levels /\ x.current = c.current /\ x.mode = "sync"
        /\ x.due = c.due /\ x.timer = Never
    BY <1>1, <1>2 DEF TimerOff, CacheType
  <1>4. d = RunDecays[x]
    OBVIOUS
  <1> HIDE DEF x
  <1>5. Cached(x) = Cached(c) /\ Agrees(x)
    BY <1>1, <1>3 DEF Cached, Agrees
  <1>6. \A i : TimeLeft(x, i) = TimeLeft(c, i)
    BY <1>3, SameLevel
  <1>7. \A q : Deadline(x, q) = Deadline(c, q)
    BY <1>3, <1>6 DEF Deadline
  <1>8. Exact(x) /\ Timed(x)
    BY <1>1, <1>3, <1>5 DEF Exact, Timed
  <1>9. InTime(x)
    <2> SUFFICES ASSUME NEW q \in Cached(c)
                 PROVE  Deadline(c, q) <= 0 \/ c.age[q] + Deadline(c, q) <= Duration
      BY <1>3, <1>5, <1>7 DEF InTime
    <2>1. c.age[q] + c.timer + TimeLeft(c, c.data[q]) <= Duration
      BY <1>1 DEF Healthy, InTime
    <2>2. /\ TimeLeft(c, c.data[q]) \in Nat /\ TimeLeft(c, c.data[q]) <= Duration - Tick
          /\ Deadline(c, q) = c.due + TimeLeft(c, c.data[q])
      BY <1>1, EntryIs
    <2>3. CASE c.due = c.timer
      <3>1. c.age[q] \in Nat /\ c.due \in Int
        BY <1>1, EntryIs, FieldsOf
      <3> QED
        BY <2>1, <2>2, <2>3, <3>1
    <2>4. CASE c.due = -Duration
      BY <2>2, <2>4, Constants
    <2> QED
      BY <1>1, <2>3, <2>4 DEF Healthy, Timed
  <1>10. Healthy(x)
    BY <1>3, <1>5, <1>8, <1>9 DEF Healthy
  <1>11. Healthy(d) /\ Decayed(x, d)
    BY <1>3, <1>4, <1>10, DecaysKeep
  <1>12. Decayed(c, x)
    BY <1>3, <1>5, <1>7 DEF Decayed
  <1> QED
    BY <1>11, <1>12, DecayedOn

\* A unit of time.
Aged(c) == [c EXCEPT
              !.due = IF @ > -Duration THEN @ - 1 ELSE @,
              !.timer = IF c.mode = "async" THEN @ - 1 ELSE @,
              !.age = [p \in Path |-> IF p \in Cached(c) /\ @[p] <= Duration + MaxLate
                                      THEN @[p] + 1 ELSE @[p]]]

LEMMA AgedIs ==
    ASSUME NEW c, Healthy(c), c.mode # "idle", c.timer > -MaxLate
    PROVE  /\ Healthy(Aged(c)) /\ Cached(Aged(c)) = Cached(c)
           /\ \A q \in Cached(c) :
                 /\ Aged(c).value[q] = c.value[q]
                 /\ \/ Aged(c).age[q] = c.age[q] + 1
                    \/ Aged(c).age[q] = c.age[q] /\ c.age[q] > Duration + MaxLate
                 /\ Deadline(Aged(c), q) >= Deadline(c, q) - 1
  <1> DEFINE d == Aged(c)
             due == IF c.due > -Duration THEN c.due - 1 ELSE c.due
             timer == IF c.mode = "async" THEN c.timer - 1 ELSE c.timer
             age == [p \in Path |-> IF p \in Cached(c) /\ c.age[p] <= Duration + MaxLate
                                    THEN c.age[p] + 1 ELSE c.age[p]]
  <1>1. c \in CacheType /\ Exact(c) /\ Agrees(c)
    BY DEF Healthy
  <1>2. /\ c.due \in Int /\ c.timer \in Int /\ c.due >= -Duration /\ c.due <= Tick
        /\ c.timer <= Never
    BY <1>1, FieldsOf, Constants DEF Exact, Never
  <1>3. /\ due \in -Duration .. Never /\ due <= Tick
        /\ due = c.due - 1 \/ (due = c.due /\ due = -Duration)
    <2>1. CASE c.due > -Duration
      <3>1. due = c.due - 1
        BY <2>1
      <3>2. due >= -Duration /\ due <= Tick /\ due \in Int
        BY <1>2, <2>1, <3>1, Constants
      <3> HIDE DEF due
      <3> QED
        BY <3>1, <3>2, Constants
    <2>2. CASE ~ (c.due > -Duration)
      <3>1. due = c.due /\ due = -Duration
        BY <1>2, <2>2, Constants
      <3> HIDE DEF due
      <3> QED
        BY <1>2, <3>1, Constants
    <2> QED
      BY <2>1, <2>2
  <1>4. timer \in -MaxLate .. Never
    BY <1>2, Constants
  <1>5. age \in [Path -> 0 .. Duration + MaxLate + 1]
    <2> SUFFICES ASSUME NEW p \in Path
                 PROVE  (IF p \in Cached(c) /\ c.age[p] <= Duration + MaxLate
                         THEN c.age[p] + 1 ELSE c.age[p]) \in 0 .. Duration + MaxLate + 1
      OBVIOUS
    <2>1. c.age[p] \in 0 .. Duration + MaxLate + 1
      BY <1>1, FieldsOf
    <2> QED
      BY <2>1, Constants
  <1>6. d = [c EXCEPT !.due = due, !.timer = timer, !.age = age]
    BY DEF Aged
  <1> HIDE DEF d, due, timer, age
  <1>7. /\ d \in CacheType /\ d.data = c.data /\ d.value = c.value /\ d.age = age
        /\ d.levels = c.levels /\ d.current = c.current /\ d.mode = c.mode
        /\ d.due = due /\ d.timer = timer
    BY <1>1, <1>3, <1>4, <1>5, <1>6 DEF CacheType
  <1>8. Cached(d) = Cached(c) /\ Agrees(d)
    BY <1>1, <1>7 DEF Cached, Agrees
  <1>9. \A i : TimeLeft(d, i) = TimeLeft(c, i)
    BY <1>7, SameLevel
  <1>10. Exact(d)
    <2>1. d.due # Never
      BY <1>3, <1>7, Constants
    <2>2. d.mode = "async" <=> d.timer # Never
      BY <1>1, <1>2, <1>7, Constants DEF Exact, timer
    <2> QED
      BY <1>1, <1>7, <1>8, <2>1, <2>2 DEF Exact
  <1>11. Timed(d)
    <2> SUFFICES ASSUME c.mode = "async"
                 PROVE  due = timer \/ (due = -Duration /\ timer <= due)
      BY <1>7 DEF Timed
    <2>1. timer = c.timer - 1
      BY DEF timer
    <2>2. c.due = c.timer \/ (c.due = -Duration /\ c.timer <= c.due)
      BY DEF Healthy, Timed
    <2>3. due = IF c.due > -Duration THEN c.due - 1 ELSE c.due
      BY DEF due
    <2> QED
      BY <1>2, <2>1, <2>2, <2>3, Constants
  <1>12. ASSUME NEW q \in Cached(c)
         PROVE  /\ d.value[q] = c.value[q]
                /\ d.age[q] = c.age[q] + 1 \/ (d.age[q] = c.age[q] /\ c.age[q] > Duration + MaxLate)
                /\ d.age[q] \in Nat /\ c.age[q] \in Nat /\ d.age[q] <= c.age[q] + 1
                /\ Deadline(d, q) = due + TimeLeft(c, c.data[q])
                /\ Deadline(c, q) = c.due + TimeLeft(c, c.data[q])
                /\ TimeLeft(c, c.data[q]) \in Nat /\ TimeLeft(c, c.data[q]) <= Duration - Tick
    <2>1. /\ q \in Path /\ c.age[q] \in Nat /\ Deadline(c, q) = c.due + TimeLeft(c, c.data[q])
          /\ TimeLeft(c, c.data[q]) \in Nat /\ TimeLeft(c, c.data[q]) <= Duration - Tick
      BY <1>1, EntryIs
    <2>2. d.age[q] = IF c.age[q] <= Duration + MaxLate THEN c.age[q] + 1 ELSE c.age[q]
      BY <1>7, <2>1 DEF age
    <2>3. d.age[q] = c.age[q] + 1 \/ (d.age[q] = c.age[q] /\ c.age[q] > Duration + MaxLate)
      BY <2>1, <2>2, Constants
    <2>4. Deadline(d, q) = due + TimeLeft(c, c.data[q])
      BY <1>7, <1>9 DEF Deadline
    <2> QED
      BY <1>7, <2>1, <2>3, <2>4
  <1>13. InTime(d)
    <2> SUFFICES ASSUME NEW q \in Cached(c)
                 PROVE  IF c.mode = "async"
                        THEN d.age[q] + timer + TimeLeft(c, c.data[q]) <= Duration
                        ELSE Deadline(d, q) <= 0 \/ d.age[q] + Deadline(d, q) <= Duration
      BY <1>7, <1>8, <1>9 DEF InTime
    <2>1. IF c.mode = "async"
          THEN c.age[q] + c.timer + TimeLeft(c, c.data[q]) <= Duration
          ELSE Deadline(c, q) <= 0 \/ c.age[q] + Deadline(c, q) <= Duration
      BY DEF Healthy, InTime
    <2>2. CASE c.mode = "async"
      <3>1. timer = c.timer - 1
        BY <2>2 DEF timer
      <3>2. d.age[q] + (c.timer - 1) + TimeLeft(c, c.data[q]) <= Duration
        BY <1>2, <1>12, <2>1, <2>2, Constants
      <3> QED
        BY <2>2, <3>1, <3>2
    <2>3. CASE c.mode # "async"
      <3>1. CASE due = c.due - 1
        BY <1>2, <1>12, <2>1, <2>3, <3>1, Constants
      <3>2. CASE due = -Duration
        BY <1>12, <2>3, <3>2, Constants
      <3> QED
        BY <1>3, <3>1, <3>2
    <2> QED
      BY <2>2, <2>3
  <1>14. Healthy(d)
    BY <1>7, <1>8, <1>10, <1>11, <1>13 DEF Healthy
  <1>15. \A q \in Cached(c) : Deadline(d, q) >= Deadline(c, q) - 1
    <2> SUFFICES ASSUME NEW q \in Cached(c) PROVE Deadline(d, q) >= Deadline(c, q) - 1
      OBVIOUS
    <2>1. due \in Int /\ c.due \in Int /\ due >= c.due - 1
      BY <1>2, <1>3, Constants
    <2> QED
      BY <1>12, <2>1
  <1> QED
    BY <1>8, <1>12, <1>14, <1>15 DEF d
(***************************************************************************)
(* The reads.                                                              *)
(***************************************************************************)

\* An entry that is served is not too old.
LEMMA ServedAge ==
    ASSUME NEW c, Healthy(c), c.mode = "async" \/ c.mode = "idle" \/ c.due > 0, NEW p \in Cached(c)
    PROVE  c.age[p] \in Nat /\ c.age[p] <= Duration + MaxLate
  <1>1. c \in CacheType /\ c.mode # "idle"
    BY DEF Healthy, Exact
  <1>2. /\ c.age[p] \in Nat /\ TimeLeft(c, c.data[p]) \in Nat
        /\ Deadline(c, p) = c.due + TimeLeft(c, c.data[p])
    BY <1>1, EntryIs
  <1>3. c.timer \in Int /\ c.timer >= -MaxLate /\ c.due \in Int
    BY <1>1, FieldsOf, Constants
  <1>4. CASE c.mode = "async"
    <2>1. c.age[p] + c.timer + TimeLeft(c, c.data[p]) <= Duration
      BY <1>4 DEF Healthy, InTime
    <2> QED
      BY <1>2, <1>3, <2>1, Constants
  <1>5. CASE c.mode # "async"
    <2>1. Deadline(c, p) <= 0 \/ c.age[p] + Deadline(c, p) <= Duration
      BY <1>5 DEF Healthy, InTime
    <2> QED
      BY <1>1, <1>2, <1>3, <1>5, <2>1, Constants
  <1> QED
    BY <1>4, <1>5

LEMMA BeforeProvideIs ==
    ASSUME NEW c, Healthy(c), NEW d, d = BeforeProvide(c)
    PROVE  /\ Healthy(d) /\ Decayed(c, d)
           /\ \A p \in Cached(d) : d.age[p] \in Nat /\ d.age[p] <= Duration + MaxLate
  <1>1. c.mode \in {"idle", "sync", "async"}
    BY FieldsOf DEF Healthy
  <1>2. Healthy(d) /\ Decayed(c, d) /\ d.mode \in {"idle", "async"}
    <2>1. CASE c.mode = "sync"
      <3>1. d = EnterAsyncMode(c)
        BY <2>1 DEF BeforeProvide
      <3> QED
        BY <2>1, <3>1, EnterAsyncModeIs
    <2>2. CASE c.mode # "sync"
      BY <1>1, <2>2 DEF BeforeProvide, Decayed
    <2> QED
      BY <2>1, <2>2
  <1> QED
    BY <1>2, ServedAge

LEMMA BeforeProvideSyncIs ==
    ASSUME NEW c, Healthy(c), NEW d, d = BeforeProvideSync(c)
    PROVE  /\ Healthy(d) /\ Decayed(c, d)
           /\ d.mode = "async" \/ d.mode = "idle" \/ d.due > 0
           /\ \A p \in Cached(d) : d.age[p] \in Nat /\ d.age[p] <= Duration + MaxLate
  <1>1. c.mode \in {"idle", "sync", "async"}
    BY FieldsOf DEF Healthy
  <1>2. Healthy(d) /\ Decayed(c, d) /\ (d.mode = "async" \/ d.mode = "idle" \/ d.due > 0)
    <2>1. CASE c.mode = "sync"
      <3>1. d = RunDecays[c]
        BY <2>1 DEF BeforeProvideSync
      <3> QED
        BY <2>1, <3>1, DecaysKeep
    <2>2. CASE c.mode # "sync"
      BY <1>1, <2>2 DEF BeforeProvideSync, Decayed
    <2> QED
      BY <2>1, <2>2
  <1> QED
    BY <1>2, ServedAge

\* What KeptLongEnough promises of an entry.
Least == Duration - Tick - MaxLate

\* A synchronous read that finds no entry: p is stored, after entries whose
\* deadline has passed are gone.
SyncRead(c, d, p, v) ==
    /\ Cached(d) \subseteq Cached(c) \cup {p}
    /\ p \in Cached(d) /\ d.value[p] = v /\ d.age[p] = 0 /\ Deadline(d, p) >= Least
    /\ \A q \in Cached(d) \ {p} : /\ d.value[q] = c.value[q] /\ d.age[q] = c.age[q]
                                  /\ Deadline(d, q) = Deadline(c, q)
    /\ \A q \in Cached(c) \ Cached(d) : Deadline(c, q) <= 0

LEMMA SyncReadIs ==
    ASSUME NEW c, Healthy(c), NEW p \in Path, NEW v \in Nat,
           p \notin Cached(BeforeProvideSync(c)),
           NEW d, d = EnterSyncModeWhenIdle(StoreResult(BeforeProvideSync(c), p, v))
    PROVE  Healthy(d) /\ SyncRead(c, d, p, v)
  <1> DEFINE e == BeforeProvideSync(c)
  <1>1. Healthy(e) /\ Decayed(c, e) /\ (e.mode = "async" \/ e.mode = "idle" \/ e.due > 0)
    BY BeforeProvideSyncIs
  <1>2. p \notin Cached(e) /\ d = EnterSyncModeWhenIdle(StoreResult(e, p, v))
    OBVIOUS
  <1> HIDE DEF e
  <1>3. /\ Healthy(d) /\ Cached(d) = Cached(e) \cup {p}
        /\ d.value[p] = v /\ d.age[p] = 0
        /\ Deadline(d, p) = Duration - Tick + (IF e.mode = "idle" THEN Tick ELSE e.due)
        /\ \A q \in Cached(e) : /\ d.value[q] = e.value[q] /\ d.age[q] = e.age[q]
                                /\ Deadline(d, q) = Deadline(e, q)
    BY <1>1, <1>2, SyncStore
  <1>4. Deadline(d, p) >= Least
    <2>1. e.due \in Int /\ e.timer \in Int /\ e.timer >= -MaxLate
      BY <1>1, FieldsOf, Constants DEF Healthy
    <2>2. CASE e.mode = "idle"
      BY <1>3, <2>2, Constants DEF Least
    <2>3. CASE e.mode # "idle"
      <3>1. e.due >= -MaxLate
        <4>1. CASE e.mode = "async"
          BY <1>1, <2>1, <4>1, Constants DEF Healthy, Timed
        <4>2. CASE e.mode # "async"
          BY <1>1, <2>1, <2>3, <4>2, Constants
        <4> QED
          BY <4>1, <4>2
      <3> QED
        BY <1>3, <2>1, <2>3, <3>1, Constants DEF Least
    <2> QED
      BY <2>2, <2>3
  <1>5. Cached(d) \subseteq Cached(c) \cup {p} /\ p \in Cached(d)
    BY <1>1, <1>3 DEF Decayed
  <1>6. ASSUME NEW q \in Cached(d) \ {p}
        PROVE  /\ d.value[q] = c.value[q] /\ d.age[q] = c.age[q]
               /\ Deadline(d, q) = Deadline(c, q)
    <2>1. q \in Cached(e)
      BY <1>3
    <2> QED
      BY <1>1, <1>3, <2>1 DEF Decayed
  <1>7. \A q \in Cached(c) \ Cached(d) : Deadline(c, q) <= 0
    BY <1>1, <1>3 DEF Decayed
  <1> QED
    BY <1>3, <1>4, <1>5, <1>6, <1>7 DEF SyncRead
(***************************************************************************)
(* The steps.                                                              *)
(***************************************************************************)

\* The other variables.
Typed ==
    /\ session \in Sessions
    /\ file \in [Path -> Nat]
    /\ active \in [Path -> Op \cup {None}]
    /\ reads \in [Op -> [path : Path, seen : Nat] \cup {NoRead}]
    /\ list \in [Op -> SUBSET Request]
    /\ status \in [Request -> {"new", "waiting", "ticking", "called", "again"}]
    /\ result \in [Request -> Nat]
    /\ wants \in [Request -> Nat]
    /\ floor \in [Path -> Nat]
    /\ served \in Nat /\ served <= Duration + MaxLate

Sound == Typed /\ Healthy(cache)

LEMMA SessionIs ==
    ASSUME Typed
    PROVE  session.paths \subseteq Path /\ session.requests \subseteq Request
  BY CacheAssumption DEF Typed

LEMMA CallTyped ==
    ASSUME Typed, NEW R, NEW v \in Nat, Call(R, v)
    PROVE  /\ status' \in [Request -> {"new", "waiting", "ticking", "called", "again"}]
           /\ result' \in [Request -> Nat]
           /\ \A r \in Request \ R : status'[r] = status[r] /\ result'[r] = result[r]
           /\ \A r \in Request \cap R : /\ status'[r] \in {"called", "again"} /\ result'[r] = v
                                        /\ status[r] # "called" => status'[r] = "called"
  <1>1. \A r \in Request : status[r] \in {"new", "waiting", "ticking", "called", "again"}
    BY DEF Typed
  <1>2. \A r \in Request : result[r] \in Nat
    BY DEF Typed
  <1> QED
    BY <1>1, <1>2 DEF Call

LEMMA ServeIs ==
    ASSUME Typed, NEW c, NEW p, Serve(c, p), c.age[p] \in Nat, c.age[p] <= Duration + MaxLate
    PROVE  served' \in Nat /\ served' <= Duration + MaxLate
  BY DEF Serve, Typed

LEMMA ReadIs ==
    ASSUME Typed, NEW o \in Op, reads[o] # NoRead
    PROVE  reads[o] \in [path : Path, seen : Nat] /\ reads[o].path \in Path /\ reads[o].seen \in Nat
  <1>1. reads[o] \in [path : Path, seen : Nat]
    BY DEF Typed
  <1> QED
    BY <1>1

LEMMA SoundProvide ==
    ASSUME Sound, NEW r \in Request, NEW p \in Path, Provide(r, p)
    PROVE  Sound' /\ Decayed(cache, cache')
  <1> DEFINE c == BeforeProvide(cache)
  <1>1. cache' = c
    BY DEF Provide
  <1>2. /\ Healthy(c) /\ Decayed(cache, c)
        /\ \A q \in Cached(c) : c.age[q] \in Nat /\ c.age[q] <= Duration + MaxLate
    BY BeforeProvideIs DEF Sound
  <1>3. c \in CacheType
    BY <1>2 DEF Healthy
  <1>4. /\ session' = session /\ file' = file /\ floor' = floor
        /\ wants' = [wants EXCEPT ![r] = floor[p]]
    BY DEF Provide
  <1>5. wants' \in [Request -> Nat]
    BY <1>4 DEF Sound, Typed
  <1>6. Typed'
    <2>1. CASE /\ p \in Cached(c)
               /\ status' = [status EXCEPT ![r] = "ticking"]
               /\ result' = [result EXCEPT ![r] = c.value[p]]
               /\ Serve(c, p)
               /\ UNCHANGED <<active, reads, list>>
      <3>1. c.value[p] \in Nat
        BY <1>3, FieldsOf
      <3>2. served' \in Nat /\ served' <= Duration + MaxLate
        BY <1>2, <2>1, ServeIs DEF Sound
      <3> HIDE DEF c
      <3> QED
        BY <1>4, <1>5, <2>1, <3>1, <3>2 DEF Sound, Typed
    <2>2. CASE /\ p \notin Cached(c)
               /\ active[p] # None
               /\ status' = [status EXCEPT ![r] = "waiting"]
               /\ list' = [list EXCEPT ![active[p]] = @ \cup {r}]
               /\ UNCHANGED <<active, reads, result, served>>
      <3>1. active[p] \in Op
        BY <2>2 DEF Sound, Typed
      <3> HIDE DEF c
      <3> QED
        BY <1>4, <1>5, <2>2, <3>1 DEF Sound, Typed
    <2>3. CASE /\ p \notin Cached(c)
               /\ active[p] = None
               /\ \E o \in Op :
                     /\ reads[o] = NoRead
                     /\ \A q \in Op : reads[q] = NoRead => o <= q
                     /\ active' = [active EXCEPT ![p] = o]
                     /\ reads' = [reads EXCEPT ![o] = [path |-> p, seen |-> file[p]]]
                     /\ list' = [list EXCEPT ![o] = {r}]
               /\ status' = [status EXCEPT ![r] = "waiting"]
               /\ UNCHANGED <<result, served>>
      <3>1. PICK o \in Op : /\ active' = [active EXCEPT ![p] = o]
                            /\ reads' = [reads EXCEPT ![o] = [path |-> p, seen |-> file[p]]]
                            /\ list' = [list EXCEPT ![o] = {r}]
        BY <2>3
      <3>2. [path |-> p, seen |-> file[p]] \in [path : Path, seen : Nat]
        BY DEF Sound, Typed
      <3> HIDE DEF c
      <3> QED
        BY <1>4, <1>5, <2>3, <3>1, <3>2 DEF Sound, Typed
    <2> QED
      BY <2>1, <2>2, <2>3 DEF Provide
  <1> HIDE DEF c
  <1> QED
    BY <1>1, <1>2, <1>6 DEF Sound

LEMMA SoundRunTick ==
    ASSUME Sound, NEW r \in Request, RunTick(r)
    PROVE  Sound' /\ cache' = cache
  <1>1. result[r] \in Nat /\ Call({r}, result[r])
    BY DEF Sound, Typed, RunTick
  <1>2. /\ status' \in [Request -> {"new", "waiting", "ticking", "called", "again"}]
        /\ result' \in [Request -> Nat]
    BY <1>1, CallTyped DEF Sound
  <1>3. UNCHANGED <<session, file, cache, active, reads, list, wants, floor, served>>
    BY DEF RunTick
  <1> QED
    BY <1>2, <1>3 DEF Sound, Typed

\* What a provider call that completes does.
Completed(o, v) ==
    LET p == reads[o].path IN
    /\ v \in Nat /\ reads[o].seen <= v /\ v <= file[p]
    /\ Updated(cache, cache', p, v)
    /\ Call(list[o], v)

LEMMA SoundComplete ==
    ASSUME Sound, NEW o \in Op, Complete(o)
    PROVE  Sound' /\ \E v \in Nat : Completed(o, v)
  <1> DEFINE p == reads[o].path
  <1>1. reads[o] # NoRead /\ p \in Path /\ reads[o].seen \in Nat
    BY ReadIs DEF Sound, Complete
  <1>2. file[p] \in Nat
    BY <1>1 DEF Sound, Typed
  <1>3. PICK v \in reads[o].seen .. file[p] :
           /\ cache' = EnterAsyncMode(StoreResult(cache, p, v))
           /\ Call(list[o], v)
    BY DEF Complete
  <1>4. v \in Nat /\ reads[o].seen <= v /\ v <= file[p]
    BY <1>1, <1>2
  <1>5. Healthy(cache') /\ Updated(cache, cache', p, v)
    BY <1>1, <1>3, <1>4, AsyncStore DEF Sound
  <1>6. /\ status' \in [Request -> {"new", "waiting", "ticking", "called", "again"}]
        /\ result' \in [Request -> Nat]
    BY <1>3, <1>4, CallTyped DEF Sound
  <1>7. Typed'
    <2>1. /\ active' = [active EXCEPT ![p] = None]
          /\ reads' = [reads EXCEPT ![o] = NoRead]
          /\ list' = [list EXCEPT ![o] = {}]
          /\ UNCHANGED <<session, file, wants, floor, served>>
      BY DEF Complete
    <2> HIDE DEF p
    <2> QED
      BY <1>1, <1>6, <2>1 DEF Sound, Typed
  <1> QED
    BY <1>3, <1>4, <1>5, <1>7 DEF Sound, Completed

LEMMA SoundProvideSync ==
    ASSUME Sound, NEW p \in Path, ProvideSync(p)
    PROVE  /\ Sound'
           /\ \/ /\ Decayed(cache, cache')
                 /\ UNCHANGED <<file, active, reads, list, status, result, wants, floor>>
              \/ /\ SyncRead(cache, cache', p, file[p]) /\ TakeOver(p, file[p])
                 /\ UNCHANGED <<file, reads, wants, floor>>
  <1> DEFINE c == BeforeProvideSync(cache)
  <1>1. /\ Healthy(c) /\ Decayed(cache, c)
        /\ \A q \in Cached(c) : c.age[q] \in Nat /\ c.age[q] <= Duration + MaxLate
    BY BeforeProvideSyncIs DEF Sound
  <1>2. CASE /\ p \in Cached(c)
             /\ cache' = c
             /\ Serve(c, p)
             /\ UNCHANGED <<session, file, active, reads, list, status, result, wants, floor>>
    <2>1. served' \in Nat /\ served' <= Duration + MaxLate
      BY <1>1, <1>2, ServeIs DEF Sound
    <2>2. Typed'
      BY <1>2, <2>1 DEF Sound, Typed
    <2> HIDE DEF c
    <2> QED
      BY <1>1, <1>2, <2>2 DEF Sound
  <1>3. CASE /\ p \notin Cached(c)
             /\ cache' = EnterSyncModeWhenIdle(StoreResult(c, p, file[p]))
             /\ TakeOver(p, file[p])
             /\ UNCHANGED <<session, file, reads, wants, floor, served>>
    <2>1. file[p] \in Nat
      BY DEF Sound, Typed
    <2>2. Healthy(cache') /\ SyncRead(cache, cache', p, file[p])
      BY <1>3, <2>1, SyncReadIs DEF Sound
    <2>3. PICK R : Call(R, file[p])
      BY <1>3 DEF TakeOver
    <2>4. /\ status' \in [Request -> {"new", "waiting", "ticking", "called", "again"}]
          /\ result' \in [Request -> Nat]
      BY <2>1, <2>3, CallTyped DEF Sound
    <2>5. /\ active' = [active EXCEPT ![p] = None]
          /\ list' = [o \in Op |-> IF o = active[p] THEN RunList(list[o]) ELSE list[o]]
      BY <1>3 DEF TakeOver
    <2>6. \A o \in Op : RunList(list[o]) \in SUBSET Request /\ list[o] \in SUBSET Request
      BY DEF Sound, Typed, RunList
    <2>7. active' \in [Path -> Op \cup {None}] /\ list' \in [Op -> SUBSET Request]
      BY <2>5, <2>6 DEF Sound, Typed
    <2>8. Typed'
      BY <1>3, <2>4, <2>7 DEF Sound, Typed
    <2> QED
      BY <1>3, <2>2, <2>8 DEF Sound
  <1> QED
    BY <1>2, <1>3 DEF ProvideSync

LEMMA SoundPurge ==
    ASSUME Sound, NEW P \in SUBSET Path, Purge(P)
    PROVE  /\ Sound'
           /\ Cached(cache') = Cached(cache) \ P
           /\ \A q \in Cached(cache') : /\ cache'.value[q] = cache.value[q]
                                        /\ cache'.age[q] = cache.age[q]
                                        /\ Deadline(cache', q) = Deadline(cache, q)
  <1>1. cache' = IF Cached(Without(cache, P)) = {} THEN EnterIdleMode(Without(cache, P))
                 ELSE Without(cache, P)
    BY DEF Purge, Purged
  <1>2. /\ Healthy(cache') /\ Cached(cache') = Cached(cache) \ P
        /\ \A q \in Cached(cache') : /\ cache'.value[q] = cache.value[q]
                                     /\ cache'.age[q] = cache.age[q]
                                     /\ Deadline(cache', q) = Deadline(cache, q)
    BY <1>1, PurgeIs DEF Sound
  <1>3. floor' \in [Path -> Nat]
    <2>1. \A p \in Path : file[p] \in Nat /\ floor[p] \in Nat
      BY DEF Sound, Typed
    <2> QED
      BY <2>1 DEF Purge
  <1>4. UNCHANGED <<session, file, active, reads, list, status, result, wants, served>>
    BY DEF Purge
  <1>5. Typed'
    BY <1>3, <1>4 DEF Sound, Typed
  <1> QED
    BY <1>2, <1>5 DEF Sound

LEMMA SoundTimeout ==
    ASSUME Sound, Timeout
    PROVE  Sound' /\ Decayed(cache, cache')
  <1>1. Healthy(cache) /\ cache.timer <= 0 /\ cache' = RunDecays[TimerOff(cache)]
    BY DEF Sound, Timeout, TimerOff
  <1>2. Healthy(cache') /\ Decayed(cache, cache')
    BY <1>1, TimeoutIs
  <1>3. UNCHANGED <<session, file, active, reads, list, status, result, wants, floor, served>>
    BY DEF Timeout
  <1>4. Typed'
    BY <1>3 DEF Sound, Typed
  <1> QED
    BY <1>2, <1>4 DEF Sound

LEMMA SoundPass ==
    ASSUME Sound, Pass
    PROVE  /\ Sound' /\ Cached(cache') = Cached(cache)
           /\ \A q \in Cached(cache) :
                 /\ cache'.value[q] = cache.value[q]
                 /\ \/ cache'.age[q] = cache.age[q] + 1
                    \/ cache'.age[q] = cache.age[q] /\ cache.age[q] > Duration + MaxLate
                 /\ Deadline(cache', q) >= Deadline(cache, q) - 1
  <1>1. cache' = Aged(cache) /\ cache.mode # "idle" /\ cache.timer > -MaxLate
    BY DEF Pass, Aged
  <1>2. Healthy(cache)
    BY DEF Sound
  <1>3. /\ Healthy(Aged(cache)) /\ Cached(Aged(cache)) = Cached(cache)
        /\ \A q \in Cached(cache) :
              /\ Aged(cache).value[q] = cache.value[q]
              /\ \/ Aged(cache).age[q] = cache.age[q] + 1
                 \/ Aged(cache).age[q] = cache.age[q] /\ cache.age[q] > Duration + MaxLate
              /\ Deadline(Aged(cache), q) >= Deadline(cache, q) - 1
    BY <1>1, <1>2, AgedIs
  <1>4. UNCHANGED <<session, file, active, reads, list, status, result, wants, floor, served>>
    BY DEF Pass
  <1>5. Typed'
    BY <1>4 DEF Sound, Typed
  <1> QED
    BY <1>1, <1>3, <1>5 DEF Sound

LEMMA SoundChange ==
    ASSUME Sound, NEW p \in Path, Change(p)
    PROVE  Sound' /\ cache' = cache
  <1>1. file' \in [Path -> Nat]
    BY DEF Sound, Typed, Change
  <1>2. UNCHANGED <<session, cache, active, reads, list, status, result, wants, floor, served>>
    BY DEF Change
  <1> QED
    BY <1>1, <1>2 DEF Sound, Typed

LEMMA SoundInit == ASSUME BackendInit PROVE Sound
  <1> DEFINE c == [data |-> [p \in Path |-> None], value |-> [p \in Path |-> 0],
                   age |-> [p \in Path |-> 0], levels |-> [i \in Level |-> {}],
                   current |-> 0, mode |-> "idle", due |-> Never, timer |-> Never]
  <1>1. cache = c
    BY DEF BackendInit
  <1>2. /\ Never \in -Duration .. Never /\ Never \in -MaxLate .. Never
        /\ 0 \in 0 .. Duration + MaxLate + 1 /\ 0 \in Level
    BY Constants
  <1>3. c \in CacheType
    BY <1>2 DEF CacheType
  <1>4. Cached(c) = {}
    BY DEF Cached
  <1>5. Exact(c) /\ Agrees(c)
    BY <1>4, Constants DEF Exact, Agrees
  <1>6. Timed(c) /\ InTime(c)
    BY <1>4 DEF Timed, InTime
  <1> HIDE DEF c
  <1>7. Healthy(cache)
    BY <1>1, <1>3, <1>5, <1>6 DEF Healthy
  <1>8. served \in Nat /\ served <= Duration + MaxLate
    BY Constants DEF BackendInit
  <1>9. Typed
    BY <1>8 DEF BackendInit, Typed
  <1> QED
    BY <1>7, <1>9 DEF Sound

\* The steps of the specification, with what the session allows.
LEMMA Steps ==
    ASSUME Sound, [BackendNext]_backendVars
    PROVE  \/ \E r \in Request, p \in Path : Provide(r, p)
           \/ \E r \in Request : RunTick(r)
           \/ \E o \in Op : Complete(o)
           \/ \E p \in Path : ProvideSync(p)
           \/ \E P \in SUBSET session.paths : P \in SUBSET Path /\ Purge(P)
           \/ Timeout
           \/ Pass
           \/ \E p \in Path : Change(p)
           \/ UNCHANGED backendVars
  <1>1. session.paths \subseteq Path /\ session.requests \subseteq Request
    BY SessionIs DEF Sound
  <1> QED
    BY <1>1 DEF BackendNext, Answer

LEMMA SoundStep == ASSUME Sound, [BackendNext]_backendVars PROVE Sound'
  <1>1. CASE \E r \in Request, p \in Path : Provide(r, p)
    BY <1>1, SoundProvide
  <1>2. CASE \E r \in Request : RunTick(r)
    BY <1>2, SoundRunTick
  <1>3. CASE \E o \in Op : Complete(o)
    BY <1>3, SoundComplete
  <1>4. CASE \E p \in Path : ProvideSync(p)
    BY <1>4, SoundProvideSync
  <1>5. CASE \E P \in SUBSET session.paths : P \in SUBSET Path /\ Purge(P)
    BY <1>5, SoundPurge
  <1>6. CASE Timeout
    BY <1>6, SoundTimeout
  <1>7. CASE Pass
    BY <1>7, SoundPass
  <1>8. CASE \E p \in Path : Change(p)
    BY <1>8, SoundChange
  <1>9. CASE UNCHANGED backendVars
    BY <1>9 DEF backendVars, Sound, Typed
  <1> QED
    BY <1>1, <1>2, <1>3, <1>4, <1>5, <1>6, <1>7, <1>8, <1>9, Steps

LEMMA AlwaysSound == BackendSpec => []Sound
  <1>1. BackendInit => Sound
    BY SoundInit
  <1>2. Sound /\ [BackendNext]_backendVars => Sound'
    BY SoundStep
  <1> QED
    BY <1>1, <1>2, PTL DEF BackendSpec

\* An entry is served for `duration` at most, plus the time by which a busy
\* event loop delays the timeout, and the entries, the ring of levels, the mode
\* and the timeout stay consistent: for any number of levels, any tick and any
\* bound on the lateness.
THEOREM ServedInTimeCorrect == BackendSpec => []ServedInTime
  <1>1. Sound => ServedInTime
    <2> SUFFICES ASSUME Sound PROVE ServedInTime
      OBVIOUS
    <2>1. Typed /\ cache \in CacheType /\ Exact(cache) /\ Agrees(cache)
      BY DEF Sound, Healthy
    <2>2. ModeExact /\ LevelsAgree
      BY <2>1 DEF Exact, Agrees, ModeExact, LevelsAgree
    <2>3. served \in 0 .. Duration + MaxLate + 1 /\ served <= Duration + MaxLate
      BY <2>1, Constants DEF Typed
    <2>4. BackendTypeOK
      BY <2>1, <2>3 DEF Typed, BackendTypeOK
    <2> QED
      BY <2>2, <2>3, <2>4 DEF ServedInTime
  <1> QED
    BY <1>1, AlwaysSound, PTL

(***************************************************************************)
(* KeptLongEnough.                                                         *)
(***************************************************************************)

\* A callback has been called.
Answered == \E r \in Request : status[r] \in {"called", "again"}

\* Every entry is old enough, or will be at its deadline.
Keeps(c) == \A q \in Cached(c) : c.age[q] >= Least \/ c.age[q] + Deadline(c, q) >= Least

\* Until a callback has been called every operation has one to call.
ListsUsed == \A o \in Op : reads[o] # NoRead /\ list[o] = {} => Answered

Kept == Sound /\ ListsUsed /\ (Answered \/ Keeps(cache))

LEMMA NoneIsNot == None \notin Path /\ None \notin Op
  BY CacheAssumption DEF None

LEMMA LeastIs == Least \in Int /\ Least <= Duration
  BY Constants DEF Least

LEMMA DecayedKeeps ==
    ASSUME NEW c, NEW d, c \in CacheType, d \in CacheType, Decayed(c, d), Keeps(c)
    PROVE  /\ Keeps(d)
           /\ \A q \in Cached(c) \ Cached(d) : c.age[q] >= Least
  <1>1. ASSUME NEW q \in Cached(c)
        PROVE  /\ c.age[q] \in Nat /\ Deadline(c, q) \in Int
               /\ c.age[q] >= Least \/ c.age[q] + Deadline(c, q) >= Least
    BY EntryIs DEF Keeps
  <1>2. Keeps(d)
    BY <1>1 DEF Decayed, Keeps
  <1>3. ASSUME NEW q \in Cached(c) \ Cached(d) PROVE c.age[q] >= Least
    <2>1. Deadline(c, q) <= 0
      BY DEF Decayed
    <2> QED
      BY <1>1, <2>1, LeastIs
  <1> QED
    BY <1>2, <1>3

LEMMA SyncReadKeeps ==
    ASSUME NEW c, NEW d, c \in CacheType, d \in CacheType, NEW p, NEW v,
           SyncRead(c, d, p, v), Keeps(c)
    PROVE  /\ Keeps(d)
           /\ \A q \in Cached(c) \ Cached(d) : c.age[q] >= Least
  <1>1. ASSUME NEW q \in Cached(c)
        PROVE  /\ c.age[q] \in Nat /\ Deadline(c, q) \in Int
               /\ c.age[q] >= Least \/ c.age[q] + Deadline(c, q) >= Least
    BY EntryIs DEF Keeps
  <1>2. ASSUME NEW q \in Cached(d)
        PROVE  d.age[q] >= Least \/ d.age[q] + Deadline(d, q) >= Least
    <2>1. d.age[q] \in Nat /\ Deadline(d, q) \in Int
      BY EntryIs
    <2>2. CASE q = p
      BY <2>1, <2>2, LeastIs DEF SyncRead
    <2>3. CASE q # p
      BY <1>1, <2>3 DEF SyncRead
    <2> QED
      BY <2>2, <2>3
  <1>3. ASSUME NEW q \in Cached(c) \ Cached(d) PROVE c.age[q] >= Least
    <2>1. Deadline(c, q) <= 0
      BY DEF SyncRead
    <2> QED
      BY <1>1, <2>1, LeastIs
  <1> QED
    BY <1>2, <1>3 DEF Keeps

LEMMA CallAnswers ==
    ASSUME Sound, NEW R \in SUBSET Request, NEW v \in Nat, Call(R, v)
    PROVE  Answered' <=> (Answered \/ R # {})
  <1>1. /\ \A r \in Request \ R : status'[r] = status[r]
        /\ \A r \in Request \cap R : status'[r] \in {"called", "again"}
    BY CallTyped DEF Sound
  <1>2. ASSUME Answered PROVE Answered'
    <2>1. PICK r \in Request : status[r] \in {"called", "again"}
      BY <1>2 DEF Answered
    <2>2. status'[r] \in {"called", "again"}
      BY <1>1, <2>1
    <2> QED
      BY <2>2 DEF Answered
  <1>3. ASSUME R # {} PROVE Answered'
    BY <1>1, <1>3 DEF Answered
  <1>4. ASSUME Answered', R = {} PROVE Answered
    BY <1>1, <1>4 DEF Answered
  <1> QED
    BY <1>2, <1>3, <1>4

LEMMA KeptProvide ==
    ASSUME Kept, NEW r \in Request, NEW p \in Path, Provide(r, p)
    PROVE  Kept' /\ Decayed(cache, cache')
  <1> DEFINE c == BeforeProvide(cache)
  <1>1. Sound /\ Sound' /\ Decayed(cache, cache')
    BY SoundProvide DEF Kept
  <1>2. cache \in CacheType /\ cache' \in CacheType
    BY <1>1 DEF Sound, Healthy
  <1>3. Keeps(cache) => Keeps(cache')
    BY <1>1, <1>2, DecayedKeeps
  <1>4. status[r] = "new" /\ status \in [Request -> {"new", "waiting", "ticking", "called", "again"}]
        /\ (status' = [status EXCEPT ![r] = "ticking"] \/ status' = [status EXCEPT ![r] = "waiting"])
    BY <1>1 DEF Provide, Sound, Typed
  <1>5. Answered => Answered'
    BY <1>4 DEF Answered
  <1>6. ListsUsed'
    <2>1. CASE UNCHANGED <<active, reads, list>>
      BY <1>5, <2>1 DEF Kept, ListsUsed
    <2>2. CASE /\ active[p] # None
               /\ list' = [list EXCEPT ![active[p]] = @ \cup {r}]
               /\ reads' = reads
      <3>1. \A o \in Op : list'[o] = {} => list[o] = {}
        BY <1>1, <2>2 DEF Sound, Typed
      <3> QED
        BY <1>5, <2>2, <3>1 DEF Kept, ListsUsed
    <2>3. CASE \E o \in Op : /\ reads' = [reads EXCEPT ![o] = [path |-> p, seen |-> file[p]]]
                             /\ list' = [list EXCEPT ![o] = {r}]
      <3>1. PICK o \in Op : /\ reads' = [reads EXCEPT ![o] = [path |-> p, seen |-> file[p]]]
                            /\ list' = [list EXCEPT ![o] = {r}]
        BY <2>3
      <3>2. \A u \in Op : list'[u] = {} => list[u] = {} /\ reads'[u] = reads[u]
        BY <1>1, <3>1 DEF Sound, Typed
      <3> QED
        BY <1>5, <3>2 DEF Kept, ListsUsed
    <2> QED
      BY <2>1, <2>2, <2>3 DEF Provide
  <1> QED
    BY <1>1, <1>3, <1>5, <1>6 DEF Kept

LEMMA KeptRunTick ==
    ASSUME Kept, NEW r \in Request, RunTick(r)
    PROVE  Kept' /\ cache' = cache
  <1>1. Sound /\ Sound' /\ cache' = cache
    BY SoundRunTick DEF Kept
  <1>2. result[r] \in Nat /\ Call({r}, result[r])
    BY <1>1 DEF Sound, Typed, RunTick
  <1>3. Answered'
    BY <1>1, <1>2, CallAnswers
  <1> QED
    BY <1>1, <1>3 DEF Kept, ListsUsed

LEMMA KeptComplete ==
    ASSUME Kept, NEW o \in Op, Complete(o)
    PROVE  /\ Kept'
           /\ Keeps(cache) => \A q \in Cached(cache) \ Cached(cache') : cache.age[q] >= Least
  <1>1. Sound /\ Sound' /\ \E v \in Nat : Completed(o, v)
    BY SoundComplete DEF Kept
  <1>2. PICK v \in Nat : Call(list[o], v) /\ Updated(cache, cache', reads[o].path, v)
    BY <1>1 DEF Completed
  <1>3. list[o] \in SUBSET Request
    BY <1>1 DEF Sound, Typed
  <1>4. Answered' <=> (Answered \/ list[o] # {})
    BY <1>1, <1>2, <1>3, CallAnswers
  <1>5. reads[o] # NoRead
    BY DEF Complete
  <1>6. Answered'
    BY <1>4, <1>5 DEF Kept, ListsUsed
  <1>7. ASSUME Keeps(cache), NEW q \in Cached(cache) \ Cached(cache') PROVE cache.age[q] >= Least
    <2>1. cache \in CacheType
      BY <1>1 DEF Sound, Healthy
    <2>2. /\ cache.age[q] \in Nat /\ Deadline(cache, q) \in Int /\ Deadline(cache, q) <= 0
          /\ cache.age[q] >= Least \/ cache.age[q] + Deadline(cache, q) >= Least
      BY <1>2, <1>7, <2>1, EntryIs DEF Updated, Keeps
    <2> QED
      BY <2>2, LeastIs
  <1> QED
    BY <1>1, <1>6, <1>7 DEF Kept, ListsUsed

LEMMA KeptProvideSync ==
    ASSUME Kept, NEW p \in Path, ProvideSync(p)
    PROVE  /\ Kept'
           /\ Keeps(cache) => \A q \in Cached(cache) \ Cached(cache') : cache.age[q] >= Least
  <1>1. /\ Sound /\ Sound'
        /\ \/ /\ Decayed(cache, cache')
              /\ UNCHANGED <<file, active, reads, list, status, result, wants, floor>>
           \/ /\ SyncRead(cache, cache', p, file[p]) /\ TakeOver(p, file[p])
              /\ UNCHANGED <<file, reads, wants, floor>>
    BY SoundProvideSync DEF Kept
  <1>2. cache \in CacheType /\ cache' \in CacheType
    BY <1>1 DEF Sound, Healthy
  <1>3. CASE /\ Decayed(cache, cache')
             /\ UNCHANGED <<file, active, reads, list, status, result, wants, floor>>
    <2>1. Answered' <=> Answered
      BY <1>3 DEF Answered
    <2>2. ListsUsed'
      BY <1>3, <2>1 DEF Kept, ListsUsed
    <2>3. Keeps(cache) =>
            Keeps(cache') /\ \A q \in Cached(cache) \ Cached(cache') : cache.age[q] >= Least
      BY <1>2, <1>3, DecayedKeeps
    <2> QED
      BY <1>1, <2>1, <2>2, <2>3 DEF Kept
  <1>4. CASE /\ SyncRead(cache, cache', p, file[p]) /\ TakeOver(p, file[p])
             /\ UNCHANGED <<file, reads, wants, floor>>
    <2> DEFINE R == IF active[p] = None THEN {} ELSE list[active[p]]
    <2>1. R \in SUBSET Request /\ file[p] \in Nat
      BY <1>1 DEF Sound, Typed
    <2>2. Call(R, file[p])
      BY <1>4 DEF TakeOver
    <2>3. Answered' <=> (Answered \/ R # {})
      <3> HIDE DEF R
      <3> QED
        BY <1>1, <2>1, <2>2, CallAnswers
    <2>4. ASSUME NEW o \in Op, reads'[o] # NoRead, list'[o] = {} PROVE Answered'
      <3>1. reads[o] # NoRead
        BY <1>4, <2>4
      <3>2. CASE o = active[p]
        <4>1. active[p] # None => R = list[o]
          BY <3>2
        <4>2. CASE list[o] = {}
          BY <2>3, <3>1, <4>2 DEF Kept, ListsUsed
        <4>3. CASE active[p] # None /\ list[o] # {}
          BY <2>3, <4>1, <4>3
        <4>4. active[p] # None
          BY <3>2, NoneIsNot
        <4> QED
          BY <4>2, <4>3, <4>4
      <3>3. CASE o # active[p]
        <4>1. list'[o] = list[o]
          BY <1>4, <3>3 DEF TakeOver
        <4> QED
          BY <2>3, <2>4, <3>1, <4>1 DEF Kept, ListsUsed
      <3> QED
        BY <3>2, <3>3
    <2>5. ListsUsed'
      BY <2>4 DEF ListsUsed
    <2>6. Keeps(cache) =>
            Keeps(cache') /\ \A q \in Cached(cache) \ Cached(cache') : cache.age[q] >= Least
      BY <1>2, <1>4, SyncReadKeeps
    <2> QED
      BY <1>1, <2>3, <2>5, <2>6 DEF Kept
  <1> QED
    BY <1>1, <1>3, <1>4

LEMMA KeptPurge ==
    ASSUME Kept, NEW P \in SUBSET Path, Purge(P)
    PROVE  Kept' /\ Cached(cache') = Cached(cache) \ P
  <1>1. /\ Sound' /\ Cached(cache') = Cached(cache) \ P
        /\ \A q \in Cached(cache') : /\ cache'.age[q] = cache.age[q]
                                     /\ Deadline(cache', q) = Deadline(cache, q)
    BY SoundPurge DEF Kept
  <1>2. Keeps(cache) => Keeps(cache')
    BY <1>1 DEF Keeps
  <1>3. UNCHANGED <<reads, list, status>>
    BY DEF Purge
  <1> QED
    BY <1>1, <1>2, <1>3 DEF Kept, ListsUsed, Answered

LEMMA KeptTimeout ==
    ASSUME Kept, Timeout
    PROVE  Kept' /\ Decayed(cache, cache')
  <1>1. Sound /\ Sound' /\ Decayed(cache, cache')
    BY SoundTimeout DEF Kept
  <1>2. cache \in CacheType /\ cache' \in CacheType
    BY <1>1 DEF Sound, Healthy
  <1>3. Keeps(cache) => Keeps(cache')
    BY <1>1, <1>2, DecayedKeeps
  <1>4. UNCHANGED <<reads, list, status>>
    BY DEF Timeout
  <1> QED
    BY <1>1, <1>3, <1>4 DEF Kept, ListsUsed, Answered

LEMMA KeptPass ==
    ASSUME Kept, Pass
    PROVE  Kept' /\ Cached(cache') = Cached(cache)
  <1>1. /\ Sound /\ Sound' /\ Cached(cache') = Cached(cache)
        /\ \A q \in Cached(cache) :
              /\ \/ cache'.age[q] = cache.age[q] + 1
                 \/ cache'.age[q] = cache.age[q] /\ cache.age[q] > Duration + MaxLate
              /\ Deadline(cache', q) >= Deadline(cache, q) - 1
    BY SoundPass DEF Kept
  <1>2. cache \in CacheType /\ cache' \in CacheType
    BY <1>1 DEF Sound, Healthy
  <1>3. ASSUME Keeps(cache), NEW q \in Cached(cache)
        PROVE  cache'.age[q] >= Least \/ cache'.age[q] + Deadline(cache', q) >= Least
    <2>1. /\ cache.age[q] \in Nat /\ Deadline(cache, q) \in Int
          /\ cache'.age[q] \in Nat /\ Deadline(cache', q) \in Int
      BY <1>1, <1>2, EntryIs
    <2>2. cache.age[q] >= Least \/ cache.age[q] + Deadline(cache, q) >= Least
      BY <1>3 DEF Keeps
    <2> QED
      BY <1>1, <2>1, <2>2, LeastIs, Constants
  <1>4. Keeps(cache) => Keeps(cache')
    BY <1>1, <1>3 DEF Keeps
  <1>5. UNCHANGED <<reads, list, status>>
    BY DEF Pass
  <1> QED
    BY <1>1, <1>4, <1>5 DEF Kept, ListsUsed, Answered

LEMMA KeptChange ==
    ASSUME Kept, NEW p \in Path, Change(p)
    PROVE  Kept' /\ cache' = cache
  <1>1. Sound' /\ cache' = cache
    BY SoundChange DEF Kept
  <1>2. UNCHANGED <<reads, list, status>>
    BY DEF Change
  <1> QED
    BY <1>1, <1>2 DEF Kept, ListsUsed, Answered

LEMMA KeptStep ==
    ASSUME Kept, [BackendNext]_backendVars
    PROVE  /\ Kept'
           /\ (\A r \in Request : status[r] \notin {"called", "again"}) =>
                 \A q \in Cached(cache) : q \notin Cached(cache') =>
                    \/ cache.age[q] >= Duration - Tick - MaxLate
                    \/ \E P \in SUBSET Path : q \in P /\ Purge(P)
  <1>0. Sound /\ cache \in CacheType
    BY DEF Kept, Sound, Healthy
  <1>a. ASSUME Kept', Decayed(cache, cache')
        PROVE  Keeps(cache) => \A q \in Cached(cache) \ Cached(cache') : cache.age[q] >= Least
    <2>1. cache' \in CacheType
      BY <1>a DEF Kept, Sound, Healthy
    <2> QED
      BY <1>0, <1>a, <2>1, DecayedKeeps
  <1>1. CASE \E r \in Request, p \in Path : Provide(r, p)
    <2>1. Kept' /\ Decayed(cache, cache')
      BY <1>1, KeptProvide
    <2> QED
      BY <1>a, <2>1 DEF Kept, Answered, Least
  <1>2. CASE \E r \in Request : RunTick(r)
    <2>1. Kept' /\ cache' = cache
      BY <1>2, KeptRunTick
    <2> QED
      BY <2>1
  <1>3. CASE \E o \in Op : Complete(o)
    <2>1. /\ Kept'
          /\ Keeps(cache) => \A q \in Cached(cache) \ Cached(cache') : cache.age[q] >= Least
      BY <1>3, KeptComplete
    <2> QED
      BY <2>1 DEF Kept, Answered, Least
  <1>4. CASE \E p \in Path : ProvideSync(p)
    <2>1. /\ Kept'
          /\ Keeps(cache) => \A q \in Cached(cache) \ Cached(cache') : cache.age[q] >= Least
      BY <1>4, KeptProvideSync
    <2> QED
      BY <2>1 DEF Kept, Answered, Least
  <1>5. CASE \E P \in SUBSET session.paths : P \in SUBSET Path /\ Purge(P)
    <2>1. PICK P \in SUBSET Path : Purge(P)
      BY <1>5
    <2>2. Kept' /\ Cached(cache') = Cached(cache) \ P
      BY <2>1, KeptPurge
    <2> QED
      BY <2>1, <2>2
  <1>6. CASE Timeout
    <2>1. Kept' /\ Decayed(cache, cache')
      BY <1>6, KeptTimeout
    <2> QED
      BY <1>a, <2>1 DEF Kept, Answered, Least
  <1>7. CASE Pass
    BY <1>7, KeptPass
  <1>8. CASE \E p \in Path : Change(p)
    <2>1. Kept' /\ cache' = cache
      BY <1>8, KeptChange
    <2> QED
      BY <2>1
  <1>9. CASE UNCHANGED backendVars
    <2>1. Kept' /\ cache' = cache
      BY <1>9, SoundStep DEF backendVars, Kept, ListsUsed, Answered
    <2> QED
      BY <2>1
  <1> QED
    BY <1>0, <1>1, <1>2, <1>3, <1>4, <1>5, <1>6, <1>7, <1>8, <1>9, Steps

\* What happens to be cached stays cached for `duration`, but for one level and
\* the lateness of the timeout, until it is purged or a callback has been called:
\* for all levels, ticks and sessions.
THEOREM KeptLongEnoughCorrect == BackendSpec => KeptLongEnough
  <1> DEFINE Step == (\A r \in Request : status[r] \notin {"called", "again"}) =>
                        \A p \in Cached(cache) : p \notin Cached(cache)' =>
                          \/ cache.age[p] >= Duration - Tick - MaxLate
                          \/ \E P \in SUBSET Path : p \in P /\ Purge(P)
  <1>1. BackendInit => Kept
    <2> SUFFICES ASSUME BackendInit PROVE Kept
      OBVIOUS
    <2>1. Sound
      BY SoundInit
    <2>2. Cached(cache) = {}
      BY DEF BackendInit, Cached
    <2>3. ListsUsed
      BY DEF BackendInit, ListsUsed
    <2> QED
      BY <2>1, <2>2, <2>3 DEF Kept, Keeps
  <1>2. Kept /\ [BackendNext]_backendVars => Kept'
    BY KeptStep
  <1>3. Kept /\ [BackendNext]_backendVars => [Step]_backendVars
    <2> SUFFICES ASSUME Kept, [BackendNext]_backendVars PROVE Step
      OBVIOUS
    <2>1. (\A r \in Request : status[r] \notin {"called", "again"}) =>
             \A q \in Cached(cache) : q \notin Cached(cache') =>
                \/ cache.age[q] >= Duration - Tick - MaxLate
                \/ \E P \in SUBSET Path : q \in P /\ Purge(P)
      BY KeptStep
    <2>2. Cached(cache)' = Cached(cache')
      BY DEF Cached
    <2> QED
      BY <2>1, <2>2
  <1>4. BackendSpec => [][Step]_backendVars
    BY <1>1, <1>2, <1>3, PTL DEF BackendSpec
  <1> QED
    BY <1>4 DEF KeptLongEnough

(***************************************************************************)
(* NeverOlder and CalledOnce.                                              *)
(***************************************************************************)

\* What is cached, and what is being read, is not older than the last purge that
\* counts; and what is registered for a path is a read of it that is under way.
Fresh ==
    /\ \A p \in Path : floor[p] <= file[p]
    /\ \A p \in Cached(cache) : floor[p] <= cache.value[p] /\ cache.value[p] <= file[p]
    /\ \A o \in Op : reads[o] # NoRead =>
          floor[reads[o].path] <= reads[o].seen /\ reads[o].seen <= file[reads[o].path]
    /\ \A p \in Path : active[p] # None =>
          reads[active[p]] # NoRead /\ reads[active[p]].path = p

\* The callbacks in the lists wait for a read that will bring what they want.
Listed ==
    /\ \A o \in Op : \A r \in list[o] :
          status[r] # "new" /\ reads[o] # NoRead /\ wants[r] <= reads[o].seen
    /\ \A r \in Request : status[r] \in {"ticking", "called"} => result[r] >= wants[r]

\* A callback that does not throw is in one list at most, and only until it is called.
Once ==
    /\ \A o \in Op : \A r \in list[o] : status[r] = "waiting" \/ r \in Throwing
    /\ \A o, u \in Op : \A r \in list[o] : r \in list[u] => o = u
    /\ CalledOnce

Overtaken == Sound /\ Fresh /\ Listed /\ Once

LEMMA Numbers ==
    ASSUME Sound
    PROVE  /\ \A p \in Path : file[p] \in Nat /\ floor[p] \in Nat /\ cache.value[p] \in Nat
           /\ \A o \in Op : list[o] \subseteq Request
           /\ \A r \in Request : /\ wants[r] \in Nat /\ result[r] \in Nat
                                 /\ status[r] \in {"new", "waiting", "ticking", "called", "again"}
           /\ \A p \in Cached(cache) : p \in Path
  <1>1. cache \in CacheType
    BY DEF Sound, Healthy
  <1>2. cache.value \in [Path -> Nat]
    BY <1>1, FieldsOf
  <1>3. \A p \in Cached(cache) : p \in Path
    BY <1>1, CachedIs
  <1> QED
    BY <1>2, <1>3 DEF Sound, Typed

\* Decays, and nothing else, leave what is cached fresh.
LEMMA FreshDecayed ==
    ASSUME Sound, Fresh, Decayed(cache, cache')
    PROVE  \A p \in Cached(cache') : /\ p \in Cached(cache) /\ cache'.value[p] = cache.value[p]
                                     /\ floor[p] <= cache'.value[p] /\ cache'.value[p] <= file[p]
  BY DEF Fresh, Decayed

LEMMA FreshProvide ==
    ASSUME Overtaken, NEW r \in Request, NEW p \in Path, Provide(r, p)
    PROVE  /\ Fresh' /\ Listed' /\ Once'
           /\ \A q \in Cached(cache') : q \in Cached(cache) /\ cache'.value[q] = cache.value[q]
  <1> DEFINE c == BeforeProvide(cache)
  <1>1. Sound /\ Sound' /\ Fresh /\ Listed /\ Once /\ Decayed(cache, cache') /\ cache' = c
    BY SoundProvide DEF Overtaken, Provide
  <1>2. \A q \in Cached(cache') : /\ q \in Cached(cache) /\ cache'.value[q] = cache.value[q]
                                  /\ floor[q] <= cache'.value[q] /\ cache'.value[q] <= file[q]
    BY <1>1, FreshDecayed
  <1>3. /\ \A q \in Path : file[q] \in Nat /\ floor[q] \in Nat /\ cache.value[q] \in Nat
        /\ \A o \in Op : list[o] \subseteq Request
        /\ \A x \in Request : wants[x] \in Nat /\ result[x] \in Nat
    BY <1>1, Numbers
  <1>4. /\ status[r] = "new" /\ UNCHANGED <<file, floor>>
        /\ wants' = [wants EXCEPT ![r] = floor[p]]
    BY DEF Provide
  <1>5. /\ wants'[r] = floor[p]
        /\ \A x \in Request \ {r} : wants'[x] = wants[x]
        /\ \A o \in Op : r \notin list[o]
    BY <1>1, <1>4 DEF Sound, Typed, Listed
  <1>6. CASE /\ p \in Cached(c)
             /\ status' = [status EXCEPT ![r] = "ticking"]
             /\ result' = [result EXCEPT ![r] = c.value[p]]
             /\ UNCHANGED <<active, reads, list>>
    <2>1. /\ status'[r] = "ticking" /\ result'[r] = cache'.value[p]
          /\ \A x \in Request \ {r} : status'[x] = status[x] /\ result'[x] = result[x]
      <3> HIDE DEF c
      <3> QED
        BY <1>1, <1>6 DEF Sound, Typed
    <2>2. floor[p] <= cache'.value[p]
      BY <1>1, <1>2, <1>6
    <2> HIDE DEF c
    <2>3. Fresh'
      BY <1>1, <1>2, <1>4, <1>6 DEF Fresh
    <2>4. Listed'
      BY <1>1, <1>3, <1>5, <1>6, <2>1, <2>2 DEF Listed
    <2>5. Once'
      BY <1>1, <1>3, <1>5, <1>6, <2>1 DEF Once, CalledOnce
    <2> QED
      BY <1>2, <2>3, <2>4, <2>5
  <1>7. CASE /\ active[p] # None
             /\ status' = [status EXCEPT ![r] = "waiting"]
             /\ list' = [list EXCEPT ![active[p]] = @ \cup {r}]
             /\ UNCHANGED <<active, reads, result>>
    <2> DEFINE o == active[p]
    <2>1. o \in Op /\ reads[o] # NoRead /\ reads[o].path = p /\ floor[p] <= reads[o].seen
      BY <1>1, <1>7 DEF Sound, Typed, Fresh
    <2>2. /\ list'[o] = list[o] \cup {r} /\ \A u \in Op \ {o} : list'[u] = list[u]
          /\ status'[r] = "waiting" /\ \A x \in Request \ {r} : status'[x] = status[x]
      BY <1>1, <1>7, <2>1 DEF Sound, Typed
    <2> HIDE DEF o
    <2>3. Fresh'
      BY <1>1, <1>2, <1>4, <1>7 DEF Fresh
    <2>4. Listed'
      <3>1. ASSUME NEW u \in Op, NEW x \in list'[u]
            PROVE  status'[x] # "new" /\ reads'[u] # NoRead /\ wants'[x] <= reads'[u].seen
        <4>1. CASE x = r
          <5>1. u = o
            BY <1>5, <2>2, <3>1, <4>1
          <5> QED
            BY <1>5, <1>7, <2>1, <2>2, <4>1, <5>1
        <4>2. CASE x # r
          <5>1. x \in list[u] /\ x \in Request
            BY <1>3, <2>2, <3>1, <4>2
          <5> QED
            BY <1>1, <1>5, <1>7, <2>2, <4>2, <5>1 DEF Listed
        <4> QED
          BY <4>1, <4>2
      <3>2. \A x \in Request : status'[x] \in {"ticking", "called"} => result'[x] >= wants'[x]
        BY <1>1, <1>5, <1>7, <2>2 DEF Listed
      <3> QED
        BY <3>1, <3>2 DEF Listed
    <2>5. Once'
      <3>1. \A u, w \in Op : \A x \in list'[u] : x \in list'[w] => u = w
        BY <1>1, <1>5, <2>2 DEF Once
      <3>2. \A u \in Op : \A x \in list'[u] : status'[x] = "waiting" \/ x \in Throwing
        BY <1>1, <1>3, <2>2 DEF Once
      <3>3. CalledOnce'
        BY <1>1, <2>2 DEF Once, CalledOnce
      <3> QED
        BY <3>1, <3>2, <3>3 DEF Once
    <2> QED
      BY <1>2, <2>3, <2>4, <2>5
  <1>8. CASE /\ active[p] = None
             /\ \E o \in Op :
                   /\ reads[o] = NoRead
                   /\ active' = [active EXCEPT ![p] = o]
                   /\ reads' = [reads EXCEPT ![o] = [path |-> p, seen |-> file[p]]]
                   /\ list' = [list EXCEPT ![o] = {r}]
             /\ status' = [status EXCEPT ![r] = "waiting"]
             /\ UNCHANGED result
    <2>1. PICK o \in Op :
             /\ reads[o] = NoRead
             /\ active' = [active EXCEPT ![p] = o]
             /\ reads' = [reads EXCEPT ![o] = [path |-> p, seen |-> file[p]]]
             /\ list' = [list EXCEPT ![o] = {r}]
      BY <1>8
    <2>2. /\ active'[p] = o /\ \A q \in Path \ {p} : active'[q] = active[q]
          /\ reads'[o] = [path |-> p, seen |-> file[p]] /\ \A u \in Op \ {o} : reads'[u] = reads[u]
          /\ list'[o] = {r} /\ \A u \in Op \ {o} : list'[u] = list[u]
          /\ status'[r] = "waiting" /\ \A x \in Request \ {r} : status'[x] = status[x]
      BY <1>1, <1>8, <2>1 DEF Sound, Typed
    <2>3. reads'[o] # NoRead /\ reads'[o].path = p /\ reads'[o].seen = file[p]
      BY <2>2, NoneIsNot DEF NoRead
    <2>4. floor[p] <= file[p] /\ o # None
      BY <1>1, NoneIsNot DEF Fresh
    <2>5. \A q \in Path \ {p} : active[q] # None => active[q] # o /\ active[q] \in Op
      BY <1>1, <2>1 DEF Fresh, Sound, Typed
    <2>6. Fresh'
      <3>1. ASSUME NEW u \in Op, reads'[u] # NoRead
            PROVE  /\ floor'[reads'[u].path] <= reads'[u].seen
                   /\ reads'[u].seen <= file'[reads'[u].path]
        <4>1. CASE u = o
          BY <1>3, <1>4, <2>3, <2>4, <4>1
        <4>2. CASE u # o
          BY <1>1, <1>4, <2>2, <3>1, <4>2 DEF Fresh
        <4> QED
          BY <4>1, <4>2
      <3>2. ASSUME NEW q \in Path, active'[q] # None
            PROVE  reads'[active'[q]] # NoRead /\ reads'[active'[q]].path = q
        <4>1. CASE q = p
          BY <2>2, <2>3, <4>1
        <4>2. CASE q # p
          <5>1. active'[q] = active[q] /\ active[q] # o /\ active[q] \in Op
            BY <2>2, <2>5, <3>2, <4>2
          <5> QED
            BY <1>1, <2>2, <3>2, <5>1 DEF Fresh
        <4> QED
          BY <4>1, <4>2
      <3>3. /\ \A q \in Path : floor'[q] <= file'[q]
            /\ \A q \in Cached(cache') : floor'[q] <= cache'.value[q] /\ cache'.value[q] <= file'[q]
        BY <1>1, <1>2, <1>4 DEF Fresh
      <3> QED
        BY <3>1, <3>2, <3>3 DEF Fresh
    <2>7. Listed'
      <3>1. ASSUME NEW u \in Op, NEW x \in list'[u]
            PROVE  status'[x] # "new" /\ reads'[u] # NoRead /\ wants'[x] <= reads'[u].seen
        <4>1. CASE u = o
          <5>1. x = r
            BY <2>2, <3>1, <4>1
          <5> QED
            BY <1>5, <2>2, <2>3, <2>4, <4>1, <5>1
        <4>2. CASE u # o
          <5>1. x \in list[u] /\ x \in Request /\ x # r
            BY <1>3, <1>5, <2>2, <3>1, <4>2
          <5> QED
            BY <1>1, <1>5, <2>2, <4>2, <5>1 DEF Listed
        <4> QED
          BY <4>1, <4>2
      <3>2. \A x \in Request : status'[x] \in {"ticking", "called"} => result'[x] >= wants'[x]
        BY <1>1, <1>5, <1>8, <2>2 DEF Listed
      <3> QED
        BY <3>1, <3>2 DEF Listed
    <2>8. Once'
      <3>1. \A u, w \in Op : \A x \in list'[u] : x \in list'[w] => u = w
        BY <1>1, <1>5, <2>2 DEF Once
      <3>2. \A u \in Op : \A x \in list'[u] : status'[x] = "waiting" \/ x \in Throwing
        BY <1>1, <1>3, <2>2 DEF Once
      <3>3. CalledOnce'
        BY <1>1, <2>2 DEF Once, CalledOnce
      <3> QED
        BY <3>1, <3>2, <3>3 DEF Once
    <2> QED
      BY <1>2, <2>6, <2>7, <2>8
  <1> QED
    BY <1>6, <1>7, <1>8 DEF Provide

LEMMA FreshRunTick ==
    ASSUME Overtaken, NEW r \in Request, RunTick(r)
    PROVE  Fresh' /\ Listed' /\ Once' /\ cache' = cache
  <1>1. Sound /\ Fresh /\ Listed /\ Once
    BY DEF Overtaken
  <1>2. /\ status[r] = "ticking" /\ result[r] \in Nat /\ Call({r}, result[r])
        /\ UNCHANGED <<session, file, cache, active, reads, list, wants, floor, served>>
    BY <1>1 DEF RunTick, Sound, Typed
  <1>3. /\ status'[r] = "called" /\ result'[r] = result[r]
        /\ \A x \in Request \ {r} : status'[x] = status[x] /\ result'[x] = result[x]
    BY <1>1, <1>2, CallTyped DEF Sound
  <1>4. \A o \in Op : list[o] \subseteq Request
    BY <1>1, Numbers
  <1>5. Fresh'
    BY <1>1, <1>2 DEF Fresh
  <1>6. Listed'
    BY <1>1, <1>2, <1>3, <1>4 DEF Listed
  <1>7. Once'
    <2>1. \A u, w \in Op : \A x \in list'[u] : x \in list'[w] => u = w
      BY <1>1, <1>2 DEF Once
    <2>2. \A u \in Op : \A x \in list'[u] : status'[x] = "waiting" \/ x \in Throwing
      BY <1>1, <1>2, <1>3, <1>4 DEF Once
    <2>3. CalledOnce'
      BY <1>1, <1>3 DEF Once, CalledOnce
    <2> QED
      BY <2>1, <2>2, <2>3 DEF Once
  <1> QED
    BY <1>2, <1>5, <1>6, <1>7

LEMMA FreshComplete ==
    ASSUME Overtaken, NEW o \in Op, Complete(o)
    PROVE  /\ Fresh' /\ Listed' /\ Once'
           /\ \A q \in Cached(cache) : q \in Cached(cache') => cache'.value[q] = cache.value[q]
  <1> DEFINE p == reads[o].path
             R == list[o]
  <1>1. Sound /\ Sound' /\ Fresh /\ Listed /\ Once /\ \E v \in Nat : Completed(o, v)
    BY SoundComplete DEF Overtaken
  <1>2. PICK v \in Nat : Completed(o, v)
    BY <1>1
  <1>3. reads[o] # NoRead /\ p \in Path /\ reads[o].seen \in Nat
    BY <1>1, ReadIs DEF Sound, Complete
  <1>4. /\ reads[o].seen <= v /\ v <= file[p] /\ Updated(cache, cache', p, v) /\ Call(R, v)
        /\ floor[p] <= reads[o].seen
    BY <1>1, <1>2, <1>3 DEF Completed, Fresh
  <1>5. /\ active' = [active EXCEPT ![p] = None]
        /\ reads' = [reads EXCEPT ![o] = NoRead]
        /\ list' = [list EXCEPT ![o] = {}]
        /\ UNCHANGED <<session, file, wants, floor, served>>
    BY DEF Complete
  <1>6. /\ \A q \in Path : file[q] \in Nat /\ floor[q] \in Nat /\ cache.value[q] \in Nat
        /\ \A u \in Op : list[u] \subseteq Request
        /\ \A x \in Request : wants[x] \in Nat /\ result[x] \in Nat
    BY <1>1, Numbers
  <1>7. /\ \A x \in Request \ R : status'[x] = status[x] /\ result'[x] = result[x]
        /\ \A x \in R : /\ status'[x] \in {"called", "again"} /\ result'[x] = v
                        /\ status[x] # "called" => status'[x] = "called"
                        /\ x \in Request
    BY <1>1, <1>4, <1>6, CallTyped DEF Sound
  <1>8. /\ active'[p] = None /\ \A q \in Path \ {p} : active'[q] = active[q]
        /\ reads'[o] = NoRead /\ \A u \in Op \ {o} : reads'[u] = reads[u]
        /\ list'[o] = {} /\ \A u \in Op \ {o} : list'[u] = list[u]
    BY <1>1, <1>3, <1>5 DEF Sound, Typed
  <1>9. \A x \in R : wants[x] <= v
    BY <1>1, <1>3, <1>4, <1>6 DEF Listed
  <1>10. Fresh'
    <2>1. ASSUME NEW q \in Cached(cache')
          PROVE  floor[q] <= cache'.value[q] /\ cache'.value[q] <= file[q]
      <3>1. CASE q \in Cached(cache)
        BY <1>1, <1>4, <3>1 DEF Fresh, Updated
      <3>2. CASE q \notin Cached(cache)
        <4>1. q = p /\ cache'.value[q] = v
          BY <1>4, <3>2 DEF Updated
        <4> QED
          BY <1>3, <1>4, <1>6, <4>1
      <3> QED
        BY <3>1, <3>2
    <2>2. ASSUME NEW q \in Path, active'[q] # None
          PROVE  reads'[active'[q]] # NoRead /\ reads'[active'[q]].path = q
      <3>1. active'[q] = active[q] /\ active[q] \in Op /\ q # p
        BY <1>1, <1>8, <2>2 DEF Sound, Typed
      <3>2. reads[active[q]] # NoRead /\ reads[active[q]].path = q
        BY <1>1, <2>2, <3>1 DEF Fresh
      <3>3. active[q] # o
        BY <3>1, <3>2
      <3> QED
        BY <1>8, <3>1, <3>2, <3>3
    <2>3. ASSUME NEW u \in Op, reads'[u] # NoRead
          PROVE  /\ floor'[reads'[u].path] <= reads'[u].seen
                 /\ reads'[u].seen <= file'[reads'[u].path]
      <3>1. u # o
        BY <1>8, <2>3
      <3> QED
        BY <1>1, <1>5, <1>8, <2>3, <3>1 DEF Fresh
    <2> HIDE DEF p
    <2>4. \A q \in Path : floor'[q] <= file'[q]
      BY <1>1, <1>5 DEF Fresh
    <2> QED
      BY <1>5, <2>1, <2>2, <2>3, <2>4 DEF Fresh
  <1>11. Listed'
    <2>1. ASSUME NEW u \in Op, NEW x \in list'[u]
          PROVE  status'[x] # "new" /\ reads'[u] # NoRead /\ wants'[x] <= reads'[u].seen
      <3>1. u # o /\ x \in list[u] /\ x \in Request /\ reads'[u] = reads[u]
        BY <1>6, <1>8, <2>1
      <3>2. status[x] # "new" /\ reads[u] # NoRead /\ wants[x] <= reads[u].seen
        BY <1>1, <3>1 DEF Listed
      <3>3. status'[x] # "new"
        BY <1>7, <3>1, <3>2
      <3> QED
        BY <1>5, <3>1, <3>2, <3>3
    <2>2. ASSUME NEW x \in Request, status'[x] \in {"ticking", "called"}
          PROVE  result'[x] >= wants'[x]
      <3>1. CASE x \in R
        BY <1>5, <1>6, <1>7, <1>9, <3>1
      <3>2. CASE x \notin R
        BY <1>1, <1>5, <1>7, <2>2, <3>2 DEF Listed
      <3> QED
        BY <3>1, <3>2
    <2> QED
      BY <2>1, <2>2 DEF Listed
  <1>12. Once'
    <2>1. \A u, w \in Op : \A x \in list'[u] : x \in list'[w] => u = w
      BY <1>1, <1>8 DEF Once
    <2>2. ASSUME NEW u \in Op, NEW x \in list'[u] PROVE status'[x] = "waiting" \/ x \in Throwing
      <3>1. u # o /\ x \in list[u] /\ x \in Request
        BY <1>6, <1>8, <2>2
      <3>2. x \notin R
        BY <1>1, <3>1 DEF Once
      <3> QED
        BY <1>1, <1>7, <3>1, <3>2 DEF Once
    <2>3. ASSUME NEW x \in Request \ Throwing PROVE status'[x] # "again"
      <3>1. CASE x \in R
        BY <1>1, <1>7, <3>1 DEF Once
      <3>2. CASE x \notin R
        BY <1>1, <1>7, <3>2 DEF Once, CalledOnce
      <3> QED
        BY <3>1, <3>2
    <2> QED
      BY <2>1, <2>2, <2>3 DEF Once, CalledOnce
  <1> QED
    BY <1>4, <1>10, <1>11, <1>12 DEF Updated

LEMMA FreshProvideSync ==
    ASSUME Overtaken, NEW p \in Path, ProvideSync(p)
    PROVE  /\ Fresh' /\ Listed' /\ Once'
           /\ \A q \in Cached(cache) : q \in Cached(cache') => cache'.value[q] >= cache.value[q]
  <1>1. /\ Sound /\ Sound' /\ Fresh /\ Listed /\ Once
        /\ \/ /\ Decayed(cache, cache')
              /\ UNCHANGED <<file, active, reads, list, status, result, wants, floor>>
           \/ /\ SyncRead(cache, cache', p, file[p]) /\ TakeOver(p, file[p])
              /\ UNCHANGED <<file, reads, wants, floor>>
    BY SoundProvideSync DEF Overtaken
  <1>2. /\ \A q \in Path : file[q] \in Nat /\ floor[q] \in Nat /\ cache.value[q] \in Nat
        /\ \A u \in Op : list[u] \subseteq Request
        /\ \A x \in Request : wants[x] \in Nat /\ result[x] \in Nat
        /\ \A q \in Cached(cache) : q \in Path
    BY <1>1, Numbers
  <1>3. CASE /\ Decayed(cache, cache')
             /\ UNCHANGED <<file, active, reads, list, status, result, wants, floor>>
    <2>1. \A q \in Cached(cache') : /\ q \in Cached(cache) /\ cache'.value[q] = cache.value[q]
                                    /\ floor[q] <= cache'.value[q] /\ cache'.value[q] <= file[q]
      BY <1>1, <1>3, FreshDecayed
    <2>2. Fresh'
      BY <1>1, <1>3, <2>1 DEF Fresh
    <2>3. Listed' /\ Once'
      BY <1>1, <1>3 DEF Listed, Once, CalledOnce
    <2>4. \A q \in Cached(cache) : q \in Cached(cache') => cache'.value[q] >= cache.value[q]
      BY <1>2, <2>1
    <2> QED
      BY <2>2, <2>3, <2>4
  <1>4. CASE /\ SyncRead(cache, cache', p, file[p]) /\ TakeOver(p, file[p])
             /\ UNCHANGED <<file, reads, wants, floor>>
    <2> DEFINE R == IF active[p] = None THEN {} ELSE list[active[p]]
    <2>1. /\ R \in SUBSET Request /\ file[p] \in Nat
          /\ active[p] # None => active[p] \in Op
      BY <1>1 DEF Sound, Typed
    <2>2. Call(R, file[p])
      BY <1>4 DEF TakeOver
    <2>3. /\ active'[p] = None /\ \A q \in Path \ {p} : active'[q] = active[q]
          /\ \A o \in Op : list'[o] = IF o = active[p] THEN RunList(list[o]) ELSE list[o]
      BY <1>1, <1>4 DEF TakeOver, Sound, Typed
    <2>4. \A o \in Op : list'[o] \subseteq list[o] /\ (o = active[p] => list'[o] \subseteq Throwing)
      BY <2>3 DEF RunList
    <2>5. \A x \in R : active[p] \in Op /\ x \in list[active[p]]
      BY <2>1
    <2>6. \A x \in R : wants[x] <= file[p]
      <3>1. ASSUME NEW x \in R PROVE wants[x] <= file[p]
        <4>1. /\ active[p] \in Op /\ x \in list[active[p]] /\ x \in Request
              /\ active[p] # None
          BY <2>1, <2>5, NoneIsNot
        <4>2. /\ reads[active[p]] # NoRead /\ reads[active[p]].path = p
              /\ wants[x] <= reads[active[p]].seen
          BY <1>1, <4>1 DEF Listed, Fresh
        <4>3. reads[active[p]].seen \in Nat /\ reads[active[p]].seen <= file[p]
          BY <1>1, <4>1, <4>2, ReadIs DEF Sound, Fresh
        <4> QED
          BY <1>2, <2>1, <4>1, <4>2, <4>3
      <3> QED
        BY <3>1
    <2>7. \A o \in Op : \A x \in list[o] : x \in R => o = active[p]
      BY <1>1, <2>5 DEF Once
    <2> HIDE DEF R
    <2>8. /\ \A x \in Request \ R : status'[x] = status[x] /\ result'[x] = result[x]
          /\ \A x \in R : /\ status'[x] \in {"called", "again"} /\ result'[x] = file[p]
                          /\ status[x] # "called" => status'[x] = "called"
                          /\ x \in Request
      BY <1>1, <2>1, <2>2, CallTyped DEF Sound
    <2>9. Fresh'
      <3>1. ASSUME NEW q \in Cached(cache')
            PROVE  floor[q] <= cache'.value[q] /\ cache'.value[q] <= file[q]
        <4>1. CASE q = p
          <5>1. cache'.value[p] = file[p] /\ floor[p] <= file[p]
            BY <1>1, <1>4 DEF SyncRead, Fresh
          <5> QED
            BY <2>1, <4>1, <5>1
        <4>2. CASE q # p
          BY <1>1, <1>4, <3>1, <4>2 DEF SyncRead, Fresh
        <4> QED
          BY <4>1, <4>2
      <3>2. ASSUME NEW q \in Path, active'[q] # None
            PROVE  reads'[active'[q]] # NoRead /\ reads'[active'[q]].path = q
        <4>1. active'[q] = active[q]
          BY <2>3, <3>2
        <4> QED
          BY <1>1, <1>4, <3>2, <4>1 DEF Fresh
      <3>3. /\ \A q \in Path : floor'[q] <= file'[q]
            /\ \A u \in Op : reads'[u] # NoRead =>
                  /\ floor'[reads'[u].path] <= reads'[u].seen
                  /\ reads'[u].seen <= file'[reads'[u].path]
        BY <1>1, <1>4 DEF Fresh
      <3> QED
        BY <1>4, <3>1, <3>2, <3>3 DEF Fresh
    <2>10. Listed'
      <3>1. ASSUME NEW u \in Op, NEW x \in list'[u]
            PROVE  status'[x] # "new" /\ reads'[u] # NoRead /\ wants'[x] <= reads'[u].seen
        <4>1. x \in list[u] /\ x \in Request
          BY <1>2, <2>4, <3>1
        <4>2. status[x] # "new" /\ reads[u] # NoRead /\ wants[x] <= reads[u].seen
          BY <1>1, <4>1 DEF Listed
        <4>3. status'[x] # "new"
          BY <2>8, <4>1, <4>2
        <4> QED
          BY <1>4, <4>2, <4>3
      <3>2. ASSUME NEW x \in Request, status'[x] \in {"ticking", "called"}
            PROVE  result'[x] >= wants'[x]
        <4>1. CASE x \in R
          BY <1>2, <1>4, <2>1, <2>6, <2>8, <4>1
        <4>2. CASE x \notin R
          BY <1>1, <1>4, <2>8, <3>2, <4>2 DEF Listed
        <4> QED
          BY <4>1, <4>2
      <3> QED
        BY <3>1, <3>2 DEF Listed
    <2>11. Once'
      <3>1. \A u, w \in Op : \A x \in list'[u] : x \in list'[w] => u = w
        BY <1>1, <2>4 DEF Once
      <3>2. ASSUME NEW u \in Op, NEW x \in list'[u]
            PROVE  status'[x] = "waiting" \/ x \in Throwing
        <4>1. x \in list[u] /\ x \in Request
          BY <1>2, <2>4, <3>2
        <4>2. CASE u = active[p]
          BY <2>4, <3>2, <4>2
        <4>3. CASE u # active[p]
          <5>1. x \notin R
            BY <2>7, <4>1, <4>3
          <5> QED
            BY <1>1, <2>8, <4>1, <5>1 DEF Once
        <4> QED
          BY <4>2, <4>3
      <3>3. ASSUME NEW x \in Request \ Throwing PROVE status'[x] # "again"
        <4>1. CASE x \in R
          <5>1. status[x] = "waiting"
            BY <1>1, <2>5, <4>1 DEF Once
          <5> QED
            BY <2>8, <4>1, <5>1
        <4>2. CASE x \notin R
          BY <1>1, <2>8, <4>2 DEF Once, CalledOnce
        <4> QED
          BY <4>1, <4>2
      <3> QED
        BY <3>1, <3>2, <3>3 DEF Once, CalledOnce
    <2>12. ASSUME NEW q \in Cached(cache), q \in Cached(cache')
           PROVE  cache'.value[q] >= cache.value[q]
      <3>1. CASE q = p
        <4>1. cache'.value[q] = file[q] /\ cache.value[q] <= file[q]
          BY <1>1, <1>4, <3>1 DEF SyncRead, Fresh
        <4> QED
          BY <1>2, <4>1
      <3>2. CASE q # p
        <4>1. cache'.value[q] = cache.value[q]
          BY <1>4, <2>12, <3>2 DEF SyncRead
        <4> QED
          BY <1>2, <4>1
      <3> QED
        BY <3>1, <3>2
    <2> QED
      BY <2>9, <2>10, <2>11, <2>12
  <1> QED
    BY <1>1, <1>3, <1>4

LEMMA FreshPurge ==
    ASSUME Overtaken, NEW P \in SUBSET Path, Purge(P)
    PROVE  /\ Fresh' /\ Listed' /\ Once'
           /\ \A q \in Cached(cache') : cache'.value[q] = cache.value[q]
  <1> DEFINE quiet == {p \in P : \A o \in Op : reads[o].path # p}
  <1>1. /\ Sound /\ Fresh /\ Listed /\ Once
        /\ Cached(cache') = Cached(cache) \ P
        /\ \A q \in Cached(cache') : cache'.value[q] = cache.value[q]
    BY SoundPurge DEF Overtaken
  <1>2. /\ floor' = [p \in Path |-> IF p \in quiet THEN file[p] ELSE floor[p]]
        /\ UNCHANGED <<session, file, active, reads, list, status, result, wants, served>>
    BY DEF Purge
  <1>3. \A q \in Path : file[q] \in Nat /\ floor[q] \in Nat
    BY <1>1, Numbers
  <1>4. Fresh'
    <2>1. \A q \in Path : floor'[q] <= file[q]
      BY <1>1, <1>2, <1>3 DEF Fresh
    <2>2. ASSUME NEW q \in Cached(cache')
          PROVE  floor'[q] <= cache'.value[q] /\ cache'.value[q] <= file[q]
      <3>1. q \in Path /\ q \in Cached(cache) /\ q \notin quiet
        BY <1>1, Numbers
      <3>2. floor'[q] = floor[q]
        BY <1>2, <3>1
      <3> QED
        BY <1>1, <3>1, <3>2 DEF Fresh
    <2>3. ASSUME NEW o \in Op, reads[o] # NoRead
          PROVE  floor'[reads[o].path] <= reads[o].seen /\ reads[o].seen <= file[reads[o].path]
      <3>1. reads[o].path \in Path /\ reads[o].path \notin quiet
        BY <1>1, <2>3, ReadIs DEF Sound
      <3>2. floor'[reads[o].path] = floor[reads[o].path]
        BY <1>2, <3>1
      <3> QED
        BY <1>1, <2>3, <3>2 DEF Fresh
    <2> QED
      BY <1>1, <1>2, <2>1, <2>2, <2>3 DEF Fresh
  <1>5. Listed' /\ Once'
    BY <1>1, <1>2 DEF Listed, Once, CalledOnce
  <1> QED
    BY <1>1, <1>4, <1>5

LEMMA FreshTimeout ==
    ASSUME Overtaken, Timeout
    PROVE  /\ Fresh' /\ Listed' /\ Once'
           /\ \A q \in Cached(cache') : q \in Cached(cache) /\ cache'.value[q] = cache.value[q]
  <1>1. Sound /\ Fresh /\ Listed /\ Once /\ Decayed(cache, cache')
    BY SoundTimeout DEF Overtaken
  <1>2. \A q \in Cached(cache') : /\ q \in Cached(cache) /\ cache'.value[q] = cache.value[q]
                                  /\ floor[q] <= cache'.value[q] /\ cache'.value[q] <= file[q]
    BY <1>1, FreshDecayed
  <1>3. UNCHANGED <<session, file, active, reads, list, status, result, wants, floor, served>>
    BY DEF Timeout
  <1>4. Fresh' /\ Listed' /\ Once'
    BY <1>1, <1>2, <1>3 DEF Fresh, Listed, Once, CalledOnce
  <1> QED
    BY <1>2, <1>4

LEMMA FreshPass ==
    ASSUME Overtaken, Pass
    PROVE  /\ Fresh' /\ Listed' /\ Once'
           /\ \A q \in Cached(cache') : q \in Cached(cache) /\ cache'.value[q] = cache.value[q]
  <1>1. /\ Sound /\ Fresh /\ Listed /\ Once /\ Cached(cache') = Cached(cache)
        /\ \A q \in Cached(cache) : cache'.value[q] = cache.value[q]
    BY SoundPass DEF Overtaken
  <1>2. UNCHANGED <<session, file, active, reads, list, status, result, wants, floor, served>>
    BY DEF Pass
  <1>3. Fresh' /\ Listed' /\ Once'
    BY <1>1, <1>2 DEF Fresh, Listed, Once, CalledOnce
  <1> QED
    BY <1>1, <1>3

LEMMA FreshChange ==
    ASSUME Overtaken, NEW p \in Path, Change(p)
    PROVE  Fresh' /\ Listed' /\ Once' /\ cache' = cache
  <1>1. Sound /\ Fresh /\ Listed /\ Once
    BY DEF Overtaken
  <1>2. /\ file' = [file EXCEPT ![p] = @ + 1]
        /\ UNCHANGED <<session, cache, active, reads, list, status, result, wants, floor, served>>
    BY DEF Change
  <1>3. \A q \in Path : file[q] \in Nat /\ floor[q] \in Nat /\ cache.value[q] \in Nat
    BY <1>1, Numbers
  <1>4. \A q \in Path : file'[q] \in Nat /\ file[q] <= file'[q]
    BY <1>1, <1>2, <1>3 DEF Sound, Typed
  <1>5. Fresh'
    <2>1. \A q \in Path : floor[q] <= file'[q]
      BY <1>1, <1>3, <1>4 DEF Fresh
    <2>2. \A q \in Cached(cache) : floor[q] <= cache.value[q] /\ cache.value[q] <= file'[q]
      <3>1. ASSUME NEW q \in Cached(cache)
            PROVE  floor[q] <= cache.value[q] /\ cache.value[q] <= file'[q]
        <4>1. q \in Path /\ floor[q] <= cache.value[q] /\ cache.value[q] <= file[q]
          BY <1>1, Numbers DEF Fresh
        <4> QED
          BY <1>3, <1>4, <4>1
      <3> QED
        BY <3>1
    <2>3. ASSUME NEW o \in Op, reads[o] # NoRead
          PROVE  floor[reads[o].path] <= reads[o].seen /\ reads[o].seen <= file'[reads[o].path]
      <3>1. reads[o].path \in Path /\ reads[o].seen \in Nat
        BY <1>1, <2>3, ReadIs DEF Sound
      <3>2. floor[reads[o].path] <= reads[o].seen /\ reads[o].seen <= file[reads[o].path]
        BY <1>1, <2>3 DEF Fresh
      <3> QED
        BY <1>3, <1>4, <3>1, <3>2
    <2>4. \A q \in Path : active[q] # None =>
             reads[active[q]] # NoRead /\ reads[active[q]].path = q
      BY <1>1 DEF Fresh
    <2> QED
      BY <1>2, <2>1, <2>2, <2>3, <2>4 DEF Fresh
  <1>6. Listed' /\ Once'
    BY <1>1, <1>2 DEF Listed, Once, CalledOnce
  <1> QED
    BY <1>2, <1>5, <1>6

LEMMA OvertakenInit == ASSUME BackendInit PROVE Overtaken
  <1>1. Sound
    BY SoundInit
  <1>2. Cached(cache) = {}
    BY DEF BackendInit, Cached
  <1>3. Fresh
    <2>1. /\ \A p \in Path : floor[p] = 0 /\ file[p] = 0 /\ active[p] = None
          /\ \A o \in Op : reads[o] = NoRead
      BY DEF BackendInit
    <2> QED
      BY <1>2, <2>1 DEF Fresh
  <1>4. Listed /\ Once
    BY DEF BackendInit, Listed, Once, CalledOnce
  <1> QED
    BY <1>1, <1>3, <1>4 DEF Overtaken

LEMMA OvertakenStep ==
    ASSUME Overtaken, [BackendNext]_backendVars
    PROVE  /\ Overtaken'
           /\ \A p \in Cached(cache) : p \in Cached(cache') => cache'.value[p] >= cache.value[p]
  <1>1. Sound /\ Sound'
    BY SoundStep DEF Overtaken
  <1>2. \A p \in Cached(cache) : cache.value[p] \in Nat /\ cache.value[p] >= cache.value[p]
    BY <1>1, Numbers
  <1>3. CASE \E r \in Request, p \in Path : Provide(r, p)
    <2>1. PICK r \in Request, p \in Path : Provide(r, p)
      BY <1>3
    <2> QED
      BY <1>1, <1>2, <2>1, FreshProvide DEF Overtaken
  <1>4. CASE \E r \in Request : RunTick(r)
    BY <1>1, <1>2, <1>4, FreshRunTick DEF Overtaken
  <1>5. CASE \E o \in Op : Complete(o)
    BY <1>1, <1>2, <1>5, FreshComplete DEF Overtaken
  <1>6. CASE \E p \in Path : ProvideSync(p)
    BY <1>1, <1>6, FreshProvideSync DEF Overtaken
  <1>7. CASE \E P \in SUBSET session.paths : P \in SUBSET Path /\ Purge(P)
    BY <1>1, <1>2, <1>7, FreshPurge DEF Overtaken
  <1>8. CASE Timeout
    BY <1>1, <1>2, <1>8, FreshTimeout DEF Overtaken
  <1>9. CASE Pass
    BY <1>1, <1>2, <1>9, FreshPass DEF Overtaken
  <1>10. CASE \E p \in Path : Change(p)
    BY <1>1, <1>2, <1>10, FreshChange DEF Overtaken
  <1>11. CASE UNCHANGED backendVars
    <2>1. UNCHANGED <<file, cache, active, reads, list, status, result, wants, floor>>
      BY <1>11 DEF backendVars
    <2>2. Fresh' /\ Listed' /\ Once'
      BY <2>1 DEF Overtaken, Fresh, Listed, Once, CalledOnce
    <2> QED
      BY <1>1, <1>2, <2>1, <2>2 DEF Overtaken
  <1> QED
    BY <1>1, <1>3, <1>4, <1>5, <1>6, <1>7, <1>8, <1>9, <1>10, <1>11, Steps

LEMMA AlwaysOvertaken == BackendSpec => []Overtaken
  <1>1. BackendInit => Overtaken
    BY OvertakenInit
  <1>2. Overtaken /\ [BackendNext]_backendVars => Overtaken'
    BY OvertakenStep
  <1> QED
    BY <1>1, <1>2, PTL DEF BackendSpec

\* Who asks after a purge gets the file as it was at the purge or newer, and no
\* result replaces a newer one, whichever of the reads of a path completes first
\* and however a synchronous read takes over the callbacks of the others.
THEOREM NeverOlderCorrect == BackendSpec => NeverOlder
  <1> DEFINE Step == \A p \in Cached(cache) : p \in Cached(cache)' =>
                        cache'.value[p] >= cache.value[p]
  <1>1. Overtaken => FreshAfterPurge
    <2> SUFFICES ASSUME Overtaken PROVE FreshAfterPurge
      OBVIOUS
    <2>1. \A p \in Cached(cache) : cache.value[p] >= floor[p]
      <3>1. ASSUME NEW p \in Cached(cache) PROVE cache.value[p] >= floor[p]
        <4>1. p \in Path /\ cache.value[p] \in Nat /\ floor[p] \in Nat
          BY Numbers DEF Overtaken
        <4> QED
          BY <4>1 DEF Overtaken, Fresh
      <3> QED
        BY <3>1
    <2> QED
      BY <2>1 DEF Overtaken, Listed, FreshAfterPurge
  <1>2. Overtaken /\ [BackendNext]_backendVars => [Step]_backendVars
    <2> SUFFICES ASSUME Overtaken, [BackendNext]_backendVars PROVE Step
      OBVIOUS
    <2>1. \A p \in Cached(cache) : p \in Cached(cache') => cache'.value[p] >= cache.value[p]
      BY OvertakenStep
    <2>2. Cached(cache)' = Cached(cache')
      BY DEF Cached
    <2> QED
      BY <2>1, <2>2
  <1>3. BackendSpec => []FreshAfterPurge /\ [][Step]_backendVars
    <2>1. BackendSpec => []FreshAfterPurge
      BY <1>1, AlwaysOvertaken, PTL
    <2>2. BackendSpec => [][Step]_backendVars
      BY <1>2, AlwaysOvertaken, PTL DEF BackendSpec
    <2> QED
      BY <2>1, <2>2
  <1> QED
    BY <1>3 DEF NeverOlder

\* No callback that does not throw is called twice: neither by a synchronous read
\* and by the operation that it has completed, nor by a tick and by a list.
THEOREM CalledOnceCorrect == BackendSpec => []CalledOnce
  <1>1. Overtaken => CalledOnce
    BY DEF Overtaken, Once
  <1> QED
    BY <1>1, AlwaysOvertaken, PTL
=============================================================================
