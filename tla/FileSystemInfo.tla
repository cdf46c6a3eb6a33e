--------------------------- MODULE FileSystemInfo ---------------------------
(***************************************************************************)
(* Snapshots: how webpack decides that what it built from a set of files   *)
(* may be used again (lib/FileSystemInfo.js).                              *)
(*                                                                         *)
(* A build notes when it starts, reads its files, and then asks for a      *)
(* snapshot of them: of their timestamps, of their hashes, of both, or of  *)
(* their existence ("mode").  Timestamps and hashes are read once per      *)
(* compilation and cached.  A later compilation asks whether the snapshot  *)
(* is still valid.  Snapshots of one compilation share what they have in   *)
(* common: SnapshotOptimization moves it to a snapshot of its own, which   *)
(* becomes a child of both.                                                *)
(*                                                                         *)
(* The files are edited at any time, and their mtime has the granularity   *)
(* of the file system; a build reads its files from the disk, as a loader  *)
(* that reads its dependencies itself does.                                *)
(***************************************************************************)
EXTENDS Naturals, Sequences, FiniteSets, SequencesExt

CONSTANTS
    Path,       \* files
    Build,      \* what is built and cached: modules
    Captures,   \* the files of each build, as a sequence: the order of its Set
    Settings,   \* what to consider: the mode of the snapshots, the granularity of
                \* mtime, the mtime of each file at first, and the files whose reads
                \* may fail
    Coarsest,   \* the accuracy assumed at first (2000 in the code)
    Steps,      \* the finer accuracies it may be replaced by (1, 10, 100, 1000)
    MinCommon,  \* MIN_COMMON_SNAPSHOT_SIZE
    Edited,     \* the files that are edited at all
    FirstTime, LastTime, MaxEdits, MaxRounds  \* bounds

ASSUME FileSystemInfoAssumption ==
    /\ Captures \in [Build -> Seq(Path)]
    /\ Settings \subseteq [mode : {"timestamp", "hash", "both", "existence"},
                            grain : Nat \ {0}, old : [Path -> Nat \ {0}], failing : SUBSET Path]
    /\ Steps \cup {Coarsest, MinCommon, FirstTime} \subseteq Nat \ {0}
    /\ Edited \subseteq Path
    /\ LastTime \in Nat /\ MaxEdits \in Nat /\ MaxRounds \in Nat /\ FirstTime <= LastTime

\* The file systems that the list of accuracies was made for: none is coarser than
\* the one assumed at first, and every mtime is a multiple of twice each accuracy
\* that is too fine.
ASSUME FileSystemAssumption ==
    \A s \in Settings :
        /\ s.grain <= Coarsest
        /\ \A p \in Path : s.old[p] % s.grain = 0
        /\ \A a \in Steps : a < s.grain => s.grain % (2 * a) = 0

Infinity == LastTime + 2 * Coarsest

VARIABLES
    setting,      \* one of Settings, never changed
    clock,        \* Date.now()
    fsStartTime,  \* of the compiler: when the compilation began
    disk,         \* path -> version (0: there is no such file) and mtime
    edits,        \* how often the files were edited; every edit is a new version
    accuracy,     \* FS_ACCURACY
    round,        \* the number of the compilation
    stamp, hash,  \* _fileTimestamps, _fileHashes: what has been read
    seen,         \* history: the versions that were on disk at those reads
    snap,         \* every snapshot made, in any compilation
    verdict,      \* _snapshotCache: "none", "pending", "valid" or "invalid"
    owner,        \* _map of the optimization: path -> snapshot (0: none)
    entry,        \* the optimization entry of each snapshot that has one
    build         \* the builds; "got" (history) is what they read, "took" what was hashed

snapshotVars == <<setting, clock, fsStartTime, disk, edits, accuracy, round, stamp, hash, seen, snap,
          verdict, owner, entry, build>>

Unread == [kind |-> "unread", value |-> 0, safe |-> 0]
Failed == [kind |-> "failed", value |-> 0, safe |-> 0]
Absent == [kind |-> "absent", value |-> 0, safe |-> 0]
Untimed == [kind |-> "untimed", value |-> 0, safe |-> 0]
File(value, safe) == [kind |-> "file", value |-> value, safe |-> safe]

mode == setting.mode
Files(b) == ToSet(Captures[b])
Only(f, S) == [x \in S |-> f[x]]
Lesser(a, b) == IF a < b THEN a ELSE b

NoBuild == [stage |-> "none", round |-> 0, start |-> 0, got |-> <<>>, took |-> <<>>, id |-> 0, want |-> {}]
NoEntry == [shared |-> 0, content |-> {}, kids |-> {}]

Mtime == clock - (clock % setting.grain)

SnapshotInit ==
    /\ setting \in Settings
    /\ disk = [p \in Path |-> [version |-> 1, mtime |-> setting.old[p]]]
    /\ clock = FirstTime /\ fsStartTime = FirstTime
    /\ edits = 0
    /\ accuracy = Coarsest
    /\ round = 1
    /\ stamp = [p \in Path |-> Unread] /\ hash = [p \in Path |-> Unread]
    /\ seen = [p \in Path |-> {}]
    /\ snap = <<>> /\ verdict = <<>> /\ entry = <<>>
    /\ owner = [p \in Path |-> 0]
    /\ build = [b \in Build |-> NoBuild]

-----------------------------------------------------------------------------
(* Reading the disk.                                                       *)

\* applyMtime: an mtime that is no multiple of twice an accuracy is finer than it.
Finer(mtime) ==
    LET fit == {a \in Steps : a < accuracy /\ mtime % (2 * a) # 0}
    IN  IF fit = {} THEN accuracy ELSE CHOOSE a \in fit : \A x \in fit : a <= x

\* _readFileTimestamp
StampOf(f, acc) ==
    IF f.version = 0 THEN Absent
    ELSE File(f.mtime, IF f.mtime = 0 THEN Infinity ELSE f.mtime + acc)

\* _readFileHash
HashOf(f) == IF f.version = 0 THEN Absent ELSE File(f.version, 0)

-----------------------------------------------------------------------------
(* Comparing an entry of a snapshot with what is on disk now.              *)

Verdict(holds) == IF holds THEN "valid" ELSE "invalid"

\* checkExistence
SameExistence(found, was) == found.kind = "absent" <=> was.kind = "absent"

\* mutant: a time that is exactly safe does not count as safe.
SameFileMutant(found, was, start) ==
    /\ SameExistence(found, was)
    /\ found.kind = "file" => /\ start # 0 => found.safe < start
                              /\ was # Untimed => found.value = was.value

\* checkFile
SameFile(found, was, start) ==
    /\ SameExistence(found, was)
    /\ found.kind = "file" => /\ start # 0 => found.safe <= start
                              /\ was # Untimed => found.value = was.value

\* checkHash, once the hash is there: an error makes the snapshot invalid.
HashVerdict(h, was) ==
    CASE h.kind = "unread" -> "pending"
      [] h.kind = "failed" -> "invalid"
      [] OTHER -> Verdict(h.kind = was.kind /\ h.value = was.value)

EntryVerdict(t, h, was, start) ==
    IF mode = "hash" THEN HashVerdict(h, was.hash)
    ELSE IF t.kind = "unread" THEN "pending"
    ELSE IF t.kind = "failed" THEN "invalid"
    ELSE IF mode = "existence" THEN Verdict(SameExistence(t, was.stamp))
    ELSE IF SameFile(t, was.stamp, start) THEN "valid"
    ELSE IF mode = "both" THEN HashVerdict(h, was.hash)
    ELSE "invalid"

\* What _checkSnapshotValidNoCache says of snapshot s when "stamps" and "hashes"
\* are known and "answers" is the snapshot cache: one entry or child that is
\* invalid makes it invalid, one that is not known yet makes it wait.
Answer(s, stamps, hashes, answers) ==
    LET Of[t \in 1 .. Len(snap)] ==
            LET parts == {EntryVerdict(stamps[p], hashes[p], snap[t].own[p], snap[t].start) : p \in DOMAIN snap[t].own}
                             \cup {Of[k] : k \in snap[t].kids}
            IN  IF answers[t] \in {"valid", "invalid"} THEN answers[t]
                ELSE IF "invalid" \in parts THEN "invalid"
                ELSE IF "pending" \in parts THEN "pending"
                ELSE "valid"
    IN  Of[s]

\* The snapshot and its children, and theirs.
Below(kids, s) == LET Of[t \in DOMAIN kids] == {t} \cup UNION {Of[k] : k \in kids[t]} IN Of[s]
Family(s) == Below([t \in 1 .. Len(snap) |-> snap[t].kids], s)

-----------------------------------------------------------------------------
(* SnapshotOptimization.  "o" is its state on the way through optimize():   *)
(* the snapshots, the entries, the map, and the paths left to capture.      *)

UsesStart == mode \in {"timestamp", "both"}

\* mutant: the later of the two start times.
MergedStartMutant(a, b) == IF a = 0 THEN b ELSE IF b = 0 THEN a ELSE IF a < b THEN b ELSE a

\* setMergedStartTime
MergedStart(a, b) == IF a = 0 THEN b ELSE IF b = 0 THEN a ELSE Lesser(a, b)

\* storeOptimizationEntry
Store(o, e) ==
    [o EXCEPT !.owner = [p \in Path |->
                  IF p \in o.entry[e].content /\ o.entry[o.owner[p]].shared < o.entry[e].shared
                  THEN e ELSE o.owner[p]],
              !.left = @ \ o.entry[e].content]

\* Snapshot e is taken over as it is: increaseSharedAndStoreOptimizationEntry,
\* the children of an entry, which are younger, before the entry.
Reuse(o, e, n) ==
    LET Grow(x, oo) == Store([oo EXCEPT !.entry[x].shared = @ + 1], x)
        tree == Below([x \in 1 .. Len(o.entry) |-> o.entry[x].kids], e)
    IN  MapThenFoldSet(Grow, [o EXCEPT !.snap[n].kids = @ \cup {e}], LAMBDA x : x, Min, tree)

\* What e has of "paths" becomes a snapshot of its own, a child of both.
Extract(o, e, n, paths) ==
    LET c == Len(o.snap) + 1
        shared == o.entry[e].shared > 0
        common == [start |-> IF UsesStart THEN MergedStart(o.snap[n].start, o.snap[e].start) ELSE 0,
                   own |-> Only(o.snap[e].own, paths), kids |-> {}, ready |-> TRUE]
        snaps == [o.snap EXCEPT ![n].kids = @ \cup {c}, ![e].kids = @ \cup {c},
                                ![e].own = Only(@, DOMAIN @ \ paths)]
        entries == [o.entry EXCEPT ![e].kids = IF shared THEN @ \cup {c} ELSE @]
        new == [shared |-> IF shared THEN o.entry[e].shared + 1 ELSE 2, content |-> paths, kids |-> {}]
    IN  Store([o EXCEPT !.snap = Append(snaps, common), !.entry = Append(entries, new)], c)

\* mutant: the start times are not compared.
StartsTooLateMutant(o, e, n) == FALSE

\* The start time of a shared snapshot may not be later than that of the new one.
StartsTooLate(o, e, n) ==
    UsesStart /\ o.snap[n].start # 0
              /\ (o.snap[e].start = 0 \/ o.snap[e].start > o.snap[n].start)

\* One round of the loop over optimizationEntries.
Share(o, e, n) ==
    LET own == DOMAIN o.snap[e].own
        other == o.entry[e].content \ o.left
        both == own \cap o.left
    IN  IF o.entry[e].shared > 0
        THEN IF StartsTooLate(o, e, n) \/ ~ other \subseteq own THEN o
             ELSE IF other = {} THEN Reuse(o, e, n)
             ELSE IF Cardinality(o.entry[e].content \ other) < MinCommon THEN o
             ELSE Extract(o, e, n, own \ other)
        ELSE IF ~ o.snap[e].ready \/ Cardinality(both) < MinCommon THEN o
             ELSE Extract(o, e, n, both)

\* optimize(): the paths that no snapshot has yet are the new one's, then each
\* entry the others lead to is considered once.
Optimize(o, n, files) ==
    LET fresh == {p \in o.left : o.owner[p] = 0}
        met == [i \in 1 .. Len(files) |-> o.owner[files[i]]]
        Consider(i, oo) == IF met[i] \in {0} \cup ToSet(SubSeq(met, 1, i - 1)) THEN oo ELSE Share(oo, met[i], n)
    IN  MapThenFoldSet(Consider, [o EXCEPT !.owner = [p \in Path |-> IF p \in fresh THEN n ELSE @[p]]],
                       LAMBDA i : i, Max, 1 .. Len(met))

-----------------------------------------------------------------------------
(* Builds and their snapshots.                                              *)

\* The entry of a captured path, from what has been read of it.  With both, it is
\* always an object, {...timestamp, hash}: one without a timestamp if the file
\* was gone by then.
EntryOf(t, h) ==
    CASE mode \in {"timestamp", "existence"} -> [stamp |-> t, hash |-> Unread]
      [] mode = "hash" -> [stamp |-> Unread, hash |-> h]
      [] mode = "both" -> [stamp |-> IF t = Absent THEN Untimed ELSE t, hash |-> h]

Needed(t, h) ==
    CASE mode \in {"timestamp", "existence"} -> {t}
      [] mode = "hash" -> {h}
      [] mode = "both" -> {t, h}

\* History: the version the entry itself speaks of, if it does: that there was
\* no file, or the one that was hashed.  A timestamp speaks of no version.
Captured(t, h) ==
    IF mode \in {"hash", "both"} THEN {h.value} ELSE IF t = Absent THEN {0} ELSE {}

\* After a read, with the caches "stamps" and "hashes": every snapshot that
\* waits for nothing more is complete, one that met an error is given up, and
\* every check that is decided is answered.
Complete(o, builds, answers, stamps, hashes) ==
    LET reads(b) == UNION {Needed(stamps[p], hashes[p]) : p \in builds[b].want}
        lost == {b \in Build : builds[b].stage = "capturing" /\ Failed \in reads(b)}
        done == {b \in Build : builds[b].stage = "capturing" /\ reads(b) \cap {Failed, Unread} = {}}
        complete == {builds[b].id : b \in done}
        wanted(s) == UNION {builds[b].want : b \in {d \in done : builds[d].id = s}}
    IN  /\ snap' = [s \in 1 .. Len(o.snap) |->
                      IF s \in complete
                      THEN [o.snap[s] EXCEPT !.own = [p \in wanted(s) |-> EntryOf(stamps[p], hashes[p])],
                                             !.ready = TRUE]
                      ELSE o.snap[s]]
        /\ build' = [b \in Build |->
                       IF b \in lost THEN [builds[b] EXCEPT !.stage = "failed"]
                       ELSE IF b \in done
                       THEN [builds[b] EXCEPT !.stage = "ready",
                                              !.took = [p \in Files(b) |-> Captured(stamps[p], hashes[p])]]
                       ELSE builds[b]]
        /\ verdict' = [s \in 1 .. Len(o.snap) |->
                        IF s \in complete THEN "valid"
                        ELSE IF s > Len(answers) THEN "none"
                        ELSE IF answers[s] = "pending" THEN Answer(s, stamps, hashes, answers)
                        ELSE answers[s]]
        /\ entry' = o.entry /\ owner' = o.owner

Now == [snap |-> snap, entry |-> entry, owner |-> owner, left |-> {}]

-----------------------------------------------------------------------------
(* The steps.                                                               *)

world == <<setting, clock, fsStartTime, disk, edits>>
caches == <<accuracy, stamp, hash, seen>>
snapshots == <<snap, verdict, owner, entry, build>>

Tick ==
    /\ clock < LastTime /\ clock' = clock + 1
    /\ UNCHANGED <<setting, fsStartTime, disk, edits, round, caches, snapshots>>

Edit(p) ==
    /\ p \in Edited /\ edits < MaxEdits /\ edits' = edits + 1
    /\ \E version \in {edits + 2} \cup (IF disk[p].version = 0 THEN {} ELSE {0}) :
          disk' = [disk EXCEPT ![p] = [version |-> version, mtime |-> IF version = 0 THEN 0 ELSE Mtime]]
    /\ UNCHANGED <<setting, clock, fsStartTime, round, caches, snapshots>>

\* A module is not in the cache, or its snapshot is not valid.
NeedBuild(b) ==
    \/ build[b].stage \in {"none", "failed"} /\ build[b].round < round
    \/ build[b].stage = "ready" /\ verdict[build[b].id] = "invalid"

\* NormalModule.build: its start time is that of the compilation; with an input file
\* system of one's own there is none, and it is the present time.
\* Bound: what the last compilation builds would never be asked for again.
Begin(b) ==
    /\ round < MaxRounds
    /\ NeedBuild(b)
    /\ \E start \in {fsStartTime, clock} :
          build' = [build EXCEPT ![b] =
                       [NoBuild EXCEPT !.stage = "started", !.round = round, !.start = start]]
    /\ UNCHANGED <<world, round, caches, snap, verdict, owner, entry>>

ReadFiles(b) ==
    /\ build[b].stage = "started"
    /\ build' = [build EXCEPT ![b].stage = "read", ![b].got = [p \in Files(b) |-> disk[p].version]]
    /\ UNCHANGED <<world, round, caches, snap, verdict, owner, entry>>

\* createSnapshot
CreateSnapshot(b) ==
    /\ build[b].stage = "read"
    /\ LET n == Len(snap) + 1
           o == Optimize([Now EXCEPT
                    !.snap = Append(@, [start |-> build[b].start, own |-> <<>>, kids |-> {}, ready |-> FALSE]),
                    !.entry = Append(@, NoEntry),
                    !.left = Files(b)], n, Captures[b])
       IN  Complete(o, [build EXCEPT ![b] = [@ EXCEPT !.stage = "capturing", !.id = n, !.want = o.left]],
                  verdict, stamp, hash)
    /\ UNCHANGED <<world, round, caches>>

\* checkSnapshotValid, with the checks of the children it starts.
CheckSnapshotValid(b) ==
    /\ build[b].stage = "ready" /\ verdict[build[b].id] = "none"
    /\ LET asked == {s \in Family(build[b].id) : verdict[s] = "none"}
       IN  Complete(Now, build, [s \in 1 .. Len(snap) |-> IF s \in asked THEN "pending" ELSE verdict[s]], stamp, hash)
    /\ UNCHANGED <<world, round, caches>>

\* Who waits for a read of path p: a snapshot that is being made (of both, the
\* hash comes first) or checked (of both, the timestamp comes first).
Capturing(p) == \E b \in Build : build[b].stage = "capturing" /\ p \in build[b].want
Checking(p) ==
    \E s \in 1 .. Len(snap) :
        /\ verdict[s] = "pending" /\ p \in DOMAIN snap[s].own
        /\ EntryVerdict(stamp[p], hash[p], snap[s].own[p], snap[s].start) = "pending"

StampAsked(p) ==
    /\ mode # "hash" /\ stamp[p] = Unread
    /\ Checking(p) \/ (Capturing(p) /\ (mode = "both" => hash[p] # Unread))
HashAsked(p) ==
    /\ mode \in {"hash", "both"} /\ hash[p] = Unread
    /\ Capturing(p) \/ (Checking(p) /\ (mode = "both" => stamp[p] # Unread))

\* _readFileTimestamp.  That it failed is remembered by the queue.
ReadFileTimestamp(p, t) ==
    /\ StampAsked(p)
    /\ stamp' = [stamp EXCEPT ![p] = t]
    /\ Complete(Now, build, verdict, stamp', hash)
    /\ UNCHANGED <<world, round, hash>>

ReadTimestamp(p) ==
    /\ accuracy' = IF disk[p].mtime = 0 THEN accuracy ELSE Finer(disk[p].mtime)
    /\ seen' = [seen EXCEPT ![p] = @ \cup {disk[p].version}]
    /\ ReadFileTimestamp(p, StampOf(disk[p], accuracy'))

TimestampFails(p) == p \in setting.failing /\ ReadFileTimestamp(p, Failed) /\ UNCHANGED <<accuracy, seen>>

\* _readFileHash
ReadFileHash(p, h) ==
    /\ HashAsked(p)
    /\ hash' = [hash EXCEPT ![p] = h]
    /\ Complete(Now, build, verdict, stamp, hash')
    /\ UNCHANGED <<world, round, accuracy, stamp>>

ReadHash(p) ==
    /\ seen' = [seen EXCEPT ![p] = @ \cup {disk[p].version}]
    /\ ReadFileHash(p, HashOf(disk[p]))

HashFails(p) == p \in setting.failing /\ ReadFileHash(p, Failed) /\ UNCHANGED seen

\* The next compilation has a FileSystemInfo of its own (or cleared it); the
\* snapshots are in the cache.
NextCompilation ==
    /\ round < MaxRounds /\ round' = round + 1 /\ fsStartTime' = clock
    /\ \A b \in Build : build[b].stage \in {"none", "ready", "failed"}
    /\ \A s \in 1 .. Len(snap) : verdict[s] # "pending"
    /\ stamp' = [p \in Path |-> Unread] /\ hash' = [p \in Path |-> Unread]
    /\ seen' = [p \in Path |-> {}]
    /\ verdict' = [s \in 1 .. Len(snap) |-> "none"]
    /\ entry' = [s \in 1 .. Len(snap) |-> NoEntry]
    /\ owner' = [p \in Path |-> 0]
    /\ UNCHANGED <<setting, clock, disk, edits, accuracy, snap, build>>

SnapshotNext ==
    \/ Tick \/ NextCompilation
    \/ \E b \in Build : Begin(b) \/ ReadFiles(b) \/ CreateSnapshot(b) \/ CheckSnapshotValid(b)
    \/ \E p \in Path : Edit(p) \/ ReadTimestamp(p) \/ TimestampFails(p) \/ ReadHash(p) \/ HashFails(p)

SnapshotSpec == SnapshotInit /\ [][SnapshotNext]_snapshotVars

-----------------------------------------------------------------------------
(* Properties.                                                             *)

Ids == 1 .. Len(snap)

SnapshotTypeOK ==
    /\ setting \in Settings
    /\ accuracy \in Steps \cup {Coarsest}
    /\ \A p \in Path : owner[p] \in 0 .. Len(snap) /\ {stamp[p].kind, hash[p].kind} \subseteq {"unread", "failed", "absent", "file"}
    /\ Len(verdict) = Len(snap) /\ Len(entry) = Len(snap)
    /\ \A s \in Ids : snap[s].kids \subseteq Ids /\ verdict[s] \in {"none", "pending", "valid", "invalid"}
    /\ \A b \in Build : build[b].stage \in {"none", "started", "read", "capturing", "ready", "failed"}

Old(b) == build[b].stage = "ready" /\ build[b].round < round
CoveredBy(s) == UNION {DOMAIN snap[t].own : t \in Family(s)}

\* Every file of a build is in its snapshot or in a child of it, once complete:
\* what sharing takes out of a snapshot is in a child that all who had it have,
\* and a child never starts later than its parent.
NothingDropped ==
    /\ SnapshotTypeOK
    /\ \A b \in Build : build[b].stage = "ready" =>
           LET id == build[b].id
           IN  /\ CoveredBy(id) = Files(b)
               /\ UsesStart => \A t \in Family(id) : snap[t].start <= snap[id].start

\* A snapshot that a later compilation finds valid: what the build read of each
\* file is what this compilation found on disk, however the edits fell between
\* the reads, the timestamps and the start times, and whatever was shared with
\* snapshots of other builds.  Where the entry itself speaks of a version (a
\* hash, or that there was no file) it may be that one.
ValidIsFresh ==
    \A b \in Build : Old(b) /\ verdict[build[b].id] = "valid" =>
        \A p \in Files(b) :
            IF mode = "existence" THEN build[b].took[p] = {0} <=> seen[p] = {0}
            ELSE ({build[b].got[p]} \cup build[b].took[p]) \cap seen[p] # {}

\* The comment in checkFile, "If a change happened after starting reading the
\* item this may no longer be valid", for every mode: valid means that what the
\* build read is still there.  It does not hold in the mode "both" (README,
\* "Disagreements").
ValidIsWhatWasRead ==
    \A b \in Build : Old(b) /\ verdict[build[b].id] = "valid" /\ mode # "existence" =>
        \A p \in Files(b) : build[b].got[p] \in seen[p]

\* A snapshot of files that nobody edits, and that were at rest when the first
\* build it shares with started, is not thrown away.
Quiet(b, p) ==
    /\ disk[p].version = 1 /\ Failed \notin {stamp[p], hash[p]}
    /\ \A t \in Family(build[b].id) : disk[p].mtime + Coarsest <= snap[t].start

QuietIsValid ==
    \A b \in Build : Old(b) /\ (\A p \in Files(b) : Quiet(b, p)) => verdict[build[b].id] # "invalid"

=============================================================================
