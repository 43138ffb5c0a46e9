-------------------------------- MODULE Wal ---------------------------------
(***************************************************************************)
(* The life of a log file: commits appended and synced, process crashes,   *)
(* power cuts that tear what was not synced, damage at rest, and Open,     *)
(* which repairs, refuses or starts the file over.                         *)
(*                                                                         *)
(* What a power cut leaves depends on the order in which the disk takes    *)
(* the writes and truncations since the last fsync; DiskOrder states it.   *)
(***************************************************************************)
EXTENDS WalFormat

LOCAL INSTANCE SequencesExt

CONSTANTS
  Starts,      \* what the file may be at first: "new", "legacy", "newer"
  Kinds,       \* the kinds of commits made: see Recs
  Configs,     \* the options Open is called with: a key and truncateAtCorrupt
  DiskOrder,   \* the order in which unsynced changes reach the disk: see below
  SectorJunk,  \* whether a power cut may leave junk behind the bytes it kept
  StatMayFail, \* whether Stat of the open file may fail
  MaxCommits,  \* bound on the commits ever tried
  MaxCrashes,  \* bound on process crashes and power cuts
  MaxDamage    \* bound on cells damaged at rest

ASSUME WalAssumption ==
  /\ Starts \subseteq {"new", "legacy", "newer"}
  /\ Kinds \subseteq {"set", "ttl", "delete", "batch", "framed", "huge"}
  /\ \A c \in Configs : DOMAIN c = {"key", "truncateAtCorrupt"}
  /\ DiskOrder \in {"inOrder", "writesAnyOrder", "cutsAnyOrder"}
  /\ SectorJunk \in BOOLEAN /\ StatMayFail \in BOOLEAN
  /\ {MaxCommits, MaxCrashes, MaxDamage} \subseteq Nat

VARIABLES
  file,       \* the cells a process reads
  survivors,  \* the files a power cut may leave
  landing,    \* those of them that the next write may find on the disk
  db,         \* "down", "creating" (header not yet synced), "open" or "failed"
  key,        \* the key the process opened the log with
  walSize,    \* where its next record goes
  mem,        \* the records applied to the in-memory state
  history,    \* the commits those records come from
  synced,     \* how many of them a successful fsync ever covered
  durable,    \* how many of them this process knows an fsync covered
  acked,      \* how many of them were acknowledged
  lost,       \* acknowledged commits that some Open silently dropped
  result,     \* why the last Open refused the file; "none" if it did not
  tried,      \* commits ever tried
  crashes,    \* crashes and power cuts so far
  damaged     \* cells damaged so far

memVars == <<mem, history>>
ackVars == <<synced, durable, acked, lost>>
boundVars == <<tried, crashes, damaged>>
diskVars == <<survivors, landing>>
vars == <<file, diskVars, db, key, walSize, mem, history, synced, durable, acked, lost, result, boundVars>>
-----------------------------------------------------------------------------
(***************************************************************************)
(* Commits.                                                                *)
(***************************************************************************)
Rec(op, k, val) == [op |-> op, key |-> k, val |-> val]
Val(id) == <<[val |-> id]>>

\* The records of a commit.  Each has contents of its own.  A "framed" value
\* is one that itself holds a framed record, a "huge" one is longer than
\* maxPartLen.
Recs(c) ==
  CASE c.kind = "set"    -> <<Rec("set", 1, Val(c.id))>>
    [] c.kind = "ttl"    -> <<Rec("setttl", 1, prependDeadline(c.id, Val(c.id)))>>
    [] c.kind = "delete" -> <<Rec("delete", 1, <<>>)>>
    [] c.kind = "batch"  -> <<Rec("set", 1, Val(c.id)), Rec("delete", 2, <<>>)>>
    [] c.kind = "framed" -> <<Rec("set", 1, appendRecord("set", <<[key |-> 1]>>, Val(c.id)))>>
    [] c.kind = "huge"   -> <<Rec("set", 1, [i \in 1 .. maxPartLen + 1 |-> [val |-> c.id]])>>

RecsOf(commits) == FlattenSeq([i \in DOMAIN commits |-> Recs(commits[i])])

\* What one commit appends: a batch header goes before several records.
CommitCells(c) ==
  LET recs == Recs(c)
      framed == FlattenSeq([i \in DOMAIN recs |-> appendSealedRecord(c.under, recs[i])])
  IN  IF Len(recs) > 1 THEN batchHeader(Len(recs)) \o framed ELSE framed

-----------------------------------------------------------------------------
(***************************************************************************)
(* The disk (external: the file system behind logfile).  "inOrder": what   *)
(* is on the disk is one of the states the file went through since the     *)
(* last fsync, torn at any cell.  This is the disk of powerfail_test.go    *)
(* ("the durable bytes plus an arbitrary torn prefix") and of replayLog    *)
(* ("writes stop at the tear").  "writesAnyOrder": a stretch of each write *)
(* may be missing although later cells and later writes are there.         *)
(* "cutsAnyOrder": a truncation may be missing although later writes are   *)
(* there.                                                                  *)
(***************************************************************************)

\* f after a write of cells at offset at, of which some are missing.
Patch(f, at, cells, missing) ==
  LET kept == DOMAIN cells \ missing IN
  [i \in 1 .. Max({Len(f)} \union {at + k : k \in kept}) |->
     IF i > at /\ i - at \in kept THEN cells[i - at]
     ELSE IF i <= Len(f) THEN f[i] ELSE Junk]

\* The stretches of n cells that a write of them may miss.
Missing(n) ==
  IF DiskOrder = "writesAnyOrder" THEN {m + 1 .. e : m \in 0 .. n, e \in 0 .. n}
  ELSE {m + 1 .. n : m \in 0 .. n}

\* What a power cut may make of such a write to f.
Torn(f, at, cells) ==
  {Patch(f, at, cells, missing) : missing \in Missing(Len(cells))}
    \union (IF SectorJunk
            THEN {Patch(f, at, Append(SubSeq(cells, 1, m), Junk), {}) : m \in 0 .. Len(cells)}
            ELSE {})

\* f after a truncation to n cells, which may also lengthen it.
Cut(f, n) == [i \in 1 .. n |-> IF i <= Len(f) THEN f[i] ELSE Junk]

\* What the disk may hold for the next write to land on after a truncation.
Cuts(n) ==
  LET cuts == {Cut(f, n) : f \in landing} IN
  IF DiskOrder = "cutsAnyOrder" THEN landing \union cuts ELSE cuts

\* A write of cells at offset at lands on one of the files fs.
Lands(fs, at, cells) ==
  LET torn == UNION {Torn(f, at, cells) : f \in fs} IN
  /\ survivors' = survivors \union fs \union torn
  /\ landing' = IF DiskOrder = "writesAnyOrder" THEN fs \union torn
                ELSE {Patch(f, at, cells, {}) : f \in fs}
-----------------------------------------------------------------------------
LegacyCommit == [id |-> 0, kind |-> "set", under |-> NoKey]

Init ==
  \E start \in Starts :
    /\ file = CASE start = "new" -> <<>>
                [] start = "legacy" -> CommitCells(LegacyCommit)
                [] start = "newer" -> Prefix(logFormatVersion + 1)
    /\ survivors = {file} /\ landing = {file}
    /\ db = "down"
    /\ key = NoKey /\ walSize = 0
    /\ mem = <<>>
    /\ history = IF start = "legacy" THEN <<LegacyCommit>> ELSE <<>>
    /\ synced = Len(history) /\ durable = Len(history) /\ acked = Len(history)
    /\ lost = 0
    /\ result = "none"
    /\ tried = 0 /\ crashes = 0 /\ damaged = 0
-----------------------------------------------------------------------------
(***************************************************************************)
(* A running database.                                                     *)
(***************************************************************************)
NextCommit(kind) == [id |-> tried + 1, kind |-> kind, under |-> key]

\* writeLog appends a direct write's record or a transaction's batch.
writeLog(kind) ==
  LET c == NextCommit(kind) IN
  /\ db = "open"
  /\ tried < MaxCommits
  /\ tried' = tried + 1
  /\ file' = Patch(file, walSize, CommitCells(c), {})
  /\ Lands(landing, walSize, CommitCells(c))
  /\ walSize' = walSize + Len(CommitCells(c))
  /\ mem' = mem \o Recs(c)
  /\ history' = Append(history, c)
  /\ UNCHANGED <<db, key, ackVars, result, crashes, damaged>>

\* The write fails part of the way; the database is read-only from then on.
writeLogFails(kind) ==
  LET cells == CommitCells(NextCommit(kind)) IN
  /\ db = "open"
  /\ tried < MaxCommits
  /\ tried' = tried + 1
  /\ \E m \in 0 .. Len(cells) - 1 :
       /\ file' = Patch(file, walSize, SubSeq(cells, 1, m), {})
       /\ Lands(landing, walSize, SubSeq(cells, 1, m))
  /\ db' = "failed"
  /\ UNCHANGED <<key, walSize, memVars, ackVars, result, crashes, damaged>>

\* Mutant: the fsync is forgotten.
FsyncForgotten ==
  /\ UNCHANGED diskVars
  /\ synced' = Len(history) /\ durable' = Len(history)

\* An fsync that succeeds: the file is on disk and waiters may go.
Fsynced ==
  /\ survivors' = {file} /\ landing' = {file}
  /\ synced' = Len(history) /\ durable' = Len(history)

Sync ==
  /\ db \in {"open", "failed"}
  /\ Fsynced
  /\ UNCHANGED <<file, db, key, walSize, memVars, acked, lost, result, boundVars>>

\* Mutant: a commit is acknowledged once it is applied.
AcknowledgeEarly ==
  /\ acked < Len(history)
  /\ acked' = Len(history)
  /\ UNCHANGED <<file, diskVars, db, key, walSize, memVars, synced, durable, lost, result,
                 boundVars>>

\* The waiters covered by an fsync return nil to their callers.
Acknowledge ==
  /\ acked < durable
  /\ acked' = durable
  /\ UNCHANGED <<file, diskVars, db, key, walSize, memVars, synced, durable, lost, result,
                 boundVars>>

Down == db' = "down" /\ mem' = <<>> /\ key' = NoKey /\ walSize' = 0

\* Close: a last fsync, and the process lets go of the file.  If the fsync
\* fails, Close leaves what Crash leaves.
Close ==
  /\ db \in {"open", "failed"}
  /\ Fsynced
  /\ Down
  /\ UNCHANGED <<file, history, acked, lost, result, boundVars>>

\* The process is killed; what it wrote stays in the page cache.
Crash ==
  /\ db # "down"
  /\ crashes < MaxCrashes
  /\ crashes' = crashes + 1
  /\ Down
  /\ durable' = acked
  /\ UNCHANGED <<file, diskVars, history, synced, acked, lost, result, tried, damaged>>

PowerCut ==
  /\ crashes < MaxCrashes
  /\ crashes' = crashes + 1
  /\ file' \in survivors
  /\ survivors' = {file'} /\ landing' = {file'}
  /\ Down
  /\ durable' = acked
  /\ UNCHANGED <<history, synced, acked, lost, result, tried, damaged>>

\* A cell of the file at rest goes bad.
Damage ==
  /\ db = "down"
  /\ survivors = {file}
  /\ damaged < MaxDamage
  /\ damaged' = damaged + 1
  /\ \E i \in DOMAIN file : file[i] # Junk /\ file' = [file EXCEPT ![i] = Junk]
  /\ survivors' = {file'} /\ landing' = {file'}
  /\ UNCHANGED <<db, key, walSize, memVars, ackVars, result, tried, crashes>>
-----------------------------------------------------------------------------
(***************************************************************************)
(* Open.                                                                   *)
(***************************************************************************)
Data(f, start) == SubSeq(f, start + 1, Len(f))

\* Mutant: the remainder is scanned from the last record applied.
intactTailFromValid(f, start) ==
  LET r == replayLog(Data(f, start)) IN
  Len(f) > start + r.parsedLen /\ scanForRecord(Data(f, start + r.validLen))

\* An intact record follows the last one that framed.
intactTail(f, start) ==
  LET r == replayLog(Data(f, start)) IN
  Len(f) > start + r.parsedLen /\ scanForRecord(Data(f, start + r.parsedLen))

\* What Open does with a file whose records begin at start.  If Stat fails,
\* the remainder is not scanned.
openLog(f, start, c, scans) ==
  LET r == replayLog(Data(f, start)) IN
  IF \E i \in DOMAIN r.recs : ~opens(c.key, r.recs[i]) THEN Refuse("decrypt")
  ELSE IF scans /\ ~c.truncateAtCorrupt /\ intactTail(f, start) THEN Refuse("ErrCorrupt")
  ELSE [do   |-> "open",
        size |-> start + r.validLen,
        recs |-> [i \in DOMAIN r.recs |-> openRecord(c.key, r.recs[i])]]

\* The commits a sequence of records comes from: the prefix of the history
\* that has these records, if there is one.
Explained(recs) ==
  LET ns == {n \in 0 .. Len(history) : RecsOf(SubSeq(history, 1, n)) = recs} IN
  IF ns = {} THEN history ELSE SubSeq(history, 1, CHOOSE n \in ns : TRUE)

Least(m, n) == IF m < n THEN m ELSE n

\* Open returns a database holding these records, which appends at size.  What
\* truncateAtCorrupt discards is not lost silently.
Opened(recs, c, size) ==
  /\ db' = "open"
  /\ walSize' = size
  /\ key' = c.key
  /\ mem' = recs
  /\ history' = Explained(recs)
  /\ synced' = Least(synced, Len(history'))
  /\ durable' = Least(durable, Len(history'))
  /\ acked' = Least(acked, Len(history'))
  /\ lost' = lost + (IF c.truncateAtCorrupt THEN 0 ELSE acked - acked')
  /\ result' = "none"

Refused(err) ==
  /\ result' = err
  /\ UNCHANGED <<file, diskVars, db, key, walSize, memVars, ackVars>>

Stats == IF StatMayFail THEN BOOLEAN ELSE {TRUE}

\* The torn tail past size is cut off; nothing syncs the cut.
TruncateTail(size, cuts) ==
  IF cuts /\ Len(file) > size
  THEN /\ file' = Cut(file, size)
       /\ landing' = Cuts(size)
       /\ survivors' = survivors \union landing'
  ELSE UNCHANGED <<file, diskVars>>

\* Open of a file that is not started over.  If Stat fails, the scan or the
\* cut is skipped.  If a read or the truncation fails, nothing changes; if the
\* seek fails, Open leaves what a crash right after it leaves.
Open(c) ==
  \E scans, cuts \in Stats :
    LET h == prepareHeader(file, c.key)
        r == openLog(file, h.start, c, scans) IN
    /\ db = "down"
    /\ h.do # "fresh"
    /\ IF h.do = "refuse" THEN Refused(h.err)
       ELSE IF r.do = "refuse" THEN Refused(r.err)
       ELSE \/ TruncateTail(r.size, cuts) /\ Opened(r.recs, c, r.size)
            \/ Refused("none")
    /\ UNCHANGED boundVars

\* writeFresh up to its write, which a crash or an error may cut short.
OpenFresh(c) ==
  LET cells == headerFor(c.key) IN
  /\ db = "down"
  /\ prepareHeader(file, c.key).do = "fresh"
  /\ \E m \in 0 .. Len(cells) :
       /\ file' = SubSeq(cells, 1, m)
       /\ Lands(Cuts(0), 0, file')
       /\ \/ m = Len(cells) /\ db' = "creating" /\ key' = c.key /\ result' = result
          \/ m < Len(cells) /\ result' = "none" /\ UNCHANGED <<db, key>>
  /\ UNCHANGED <<walSize, memVars, ackVars, boundVars>>

\* writeFresh's sync fails: Open gives up, and leaves the header unsynced.
OpenUnsynced ==
  /\ db = "creating"
  /\ Down
  /\ result' = "none"
  /\ UNCHANGED <<file, diskVars, history, ackVars, boundVars>>

\* writeFresh's sync, and the rest of Open on a file with no records.
OpenSynced ==
  /\ db = "creating"
  /\ survivors' = {file} /\ landing' = {file}
  /\ Opened(<<>>, [key |-> key, truncateAtCorrupt |-> FALSE], Len(file))
  /\ UNCHANGED <<file, boundVars>>

Next ==
  \/ \E kind \in Kinds : writeLog(kind) \/ writeLogFails(kind)
  \/ Sync \/ Acknowledge \/ Close \/ Crash \/ PowerCut \/ Damage
  \/ \E c \in Configs : Open(c) \/ OpenFresh(c)
  \/ OpenSynced \/ OpenUnsynced

Spec == Init /\ [][Next]_vars

-----------------------------------------------------------------------------
(***************************************************************************)
(* Properties.                                                             *)
(***************************************************************************)
\* Variables hold what their comments say, and acknowledged commits are ones
\* an fsync covered.
TypeOK ==
  /\ file \in landing /\ landing \subseteq survivors
  /\ db \in {"open", "failed"} => walSize <= Len(file)
  /\ db \in {"down", "creating", "open", "failed"}
  /\ key \in {NoKey} \union {c.key : c \in Configs}
  /\ acked \in 0 .. durable /\ durable \in 0 .. synced /\ synced \in 0 .. Len(history)
  /\ lost \in Nat
  /\ tried \in 0 .. MaxCommits /\ crashes \in 0 .. MaxCrashes /\ damaged \in 0 .. MaxDamage

\* What Open recovers, after any crashes, is the records of a prefix of the
\* commits made, each transaction whole or absent (replayLog: "keeping
\* multi-op transactions atomic across a crash"), and what is written on top
\* of it follows: no torn, stale or foreign record reaches memory.  A write
\* must not reach the disk ahead of the truncation before it: nothing syncs
\* Open's cut (DiskOrder = "cutsAnyOrder" refutes it).
MemoryIsHistory == db \in {"open", "failed"} => mem = RecsOf(history)

\* An Open that succeeds has lost no acknowledged commit, and after damage at
\* rest at most one per damaged cell: a record intact behind the damage is
\* never silently cut off with it (scanForRecord).
AckedSurvive == lost <= damaged

\* Crashes and power cuts alone never make Open refuse the log to the options
\* it was written with: "A plain torn tail ... is repaired silently" (ErrCorrupt,
\* db.go).  This is about disks that take unsynced appends in order, as those
\* of powerfail_test.go do; one that keeps a later record and misses an earlier
\* one leaves what Open reports as corruption ("writesAnyOrder" refutes it).
CrashNeverRefused == damaged = 0 => result = "none"

\* A log holds records of one key, or plaintext ones, and is open only with
\* that key (prepareHeader reconciles the two "before any record is read").
OneKeyPerLog ==
  db \in {"open", "failed"} => \A i \in DOMAIN history : history[i].under = key

\* An open log starts with the header of its key ("a headerless-but-nonempty
\* new-format file can never exist", prepareHeader).
NeverHeaderless ==
  db \in {"open", "failed"} =>
    /\ Len(file) >= Len(headerFor(key))
    /\ SubSeq(file, 1, Len(headerFor(key))) = headerFor(key)

DL == INSTANCE DurableLog WITH applied <- Len(history), disk <- synced, acked <- acked

\* The file, replay and repair keep the durability contract: a log's cells,
\* torn anywhere by a power cut and cut back by Open, implement DurableLog.
ImplementsDurableLog == DL!DLSpec

=============================================================================
