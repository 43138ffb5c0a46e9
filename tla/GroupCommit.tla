----------------------------- MODULE GroupCommit ----------------------------
(***************************************************************************)
(* The durability path of btypedb: log appends under DB.mu, the group      *)
(* commit that shares one fsync between committers (groupcommit.go), and   *)
(* everything that races it: DB.Sync, the background syncer, Close, the    *)
(* two-phase compaction that swaps the log file, failing writes and        *)
(* fsyncs, process restarts and power cuts.                                *)
(*                                                                         *)
(* A log file is abstracted to the number of commits that replaying it     *)
(* yields: written[i] in the page cache of inode i, durable[i] on disk.    *)
(* Commits are numbered over the whole history: commit base + s is the     *)
(* s-th append since the database was last opened.                         *)
(***************************************************************************)
EXTENDS Naturals

CONSTANTS
  Writers,          \* goroutines that call Set, Delete or Commit
  Policy,           \* "SyncAlways", "SyncEverySecond" or "SyncNever"
  AutoCompact,      \* WithAutoCompact: appends may spawn a compaction
  DropsDirty,       \* a failed fsync leaves its pages clean but not on disk
  SyncDirMayFail,   \* the directory fsync may fail; its error is ignored
  MaxAppends,       \* bound on commits in the log
  MaxSwaps,         \* bound on compactions that reach the swap
  MaxRestarts       \* bound on process restarts and power cuts

ASSUME PolicyAssumption == Policy \in {"SyncAlways", "SyncEverySecond", "SyncNever"}
ASSUME FlagAssumption ==
  AutoCompact \in BOOLEAN /\ DropsDirty \in BOOLEAN /\ SyncDirMayFail \in BOOLEAN
ASSUME BoundAssumption == MaxAppends \in Nat /\ MaxSwaps \in Nat /\ MaxRestarts \in Nat

VARIABLES
  \* DB fields guarded by mu
  appendSeq,  \* appends since Open
  file,       \* inode of the live log handle
  writeErr,   \* sticky: a log append or a group fsync failed
  bgErr,      \* syncErr or compactErr, reported by Close
  auto,       \* the auto-compaction goroutine; compacting = (auto # "none")
  tail,       \* whether the live log ends in a torn record
  \* groupSync fields guarded by gsync.mu
  synced,     \* highest append sequence known durable
  syncing,    \* a leader's fsync is in flight
  gsErr,      \* sticky: a group sync failed
  \* locals of the goroutines
  pc,         \* where each writer is in its write call
  seq,        \* the append sequence it waits for
  ldr,        \* a leader's f and cover, what its fsync must reach, its err
  cpc,        \* where the compaction is (compactMu admits one at a time)
  tailStart,  \* commits in the snapshot of Phase A
  clpc,       \* where the call of Close is
  closeErr,   \* what Close returned
  \* the file system
  written,    \* commits a replay of the inode's cached bytes yields
  durable,    \* commits a replay of the inode's bytes on disk yields
  hole,       \* inodes whose unsynced bytes a failed fsync dropped
  dirCur,     \* inode the path names now
  dirDur,     \* inode the path names on disk
  \* history
  base,       \* commits in the log when it was last opened
  acked,      \* highest commit whose call returned nil
  restarts    \* restarts so far

dbVars == <<appendSeq, file, writeErr, bgErr, auto, tail>>
gsVars == <<synced, syncing, gsErr>>
wrVars == <<pc, seq, ldr>>
cpVars == <<cpc, tailStart>>
clVars == <<clpc, closeErr>>
diskVars == <<written, durable, hole>>
dirVars == <<dirCur, dirDur>>
histVars == <<base, acked, restarts>>
vars == <<dbVars, gsVars, wrVars, cpVars, clVars, diskVars, dirVars, histVars>>

Inodes == 0 .. MaxSwaps
Error == {"nil", "err"}
Idle == [f |-> 0, cover |-> 0, goal |-> 0, err |-> "nil"]
LeaderPcs == {"capture", "fsync", "check", "poison", "finish"}
PhaseB == {"sync", "rename", "syncdir", "swap"}

TypeDB ==
  /\ appendSeq \in Nat
  /\ file \in Inodes
  /\ writeErr \in Error /\ bgErr \in Error
  /\ auto \in {"none", "spawned", "running", "done", "failed"}
  /\ tail \in {"whole", "torn"}

TypeGroup ==
  /\ synced \in Nat
  /\ syncing \in {"idle", "inflight"}
  /\ gsErr \in Error

TypeWriters ==
  /\ pc \in [Writers -> {"idle", "wait", "sleep"} \union LeaderPcs]
  /\ seq \in [Writers -> Nat]
  /\ ldr \in [Writers -> [f : Inodes, cover : Nat, goal : Nat, err : Error]]

TypeCompact ==
  /\ cpc \in {"idle", "stream", "tail"} \union PhaseB
  /\ tailStart \in Nat

TypeClose ==
  /\ clpc \in {"open", "drain", "done"}
  /\ closeErr \in Error \union {"none"}

TypeDisk ==
  /\ written \in [Inodes -> Nat]
  /\ durable \in [Inodes -> Nat]
  /\ hole \subseteq Inodes

TypeDir == dirCur \in Inodes /\ dirDur \in Inodes

TypeHistory == base \in Nat /\ acked \in Nat /\ restarts \in Nat

\* Every variable stays in its type.
TypeOK ==
  /\ TypeDB /\ TypeGroup /\ TypeWriters /\ TypeCompact /\ TypeClose
  /\ TypeDisk /\ TypeDir /\ TypeHistory

Larger(m, n) == IF m >= n THEN m ELSE n

\* Compact holds mu from the tail copy to the swap; every other critical
\* section of mu is one action of this module.
MuFree == cpc \notin PhaseB

\* Commits in the live log and in the in-memory state.
Applied == base + appendSeq

tmp == file + 1

\* Close sets closed before anything else.
closed == clpc # "open"

Init ==
  /\ appendSeq = 0 /\ file = 0 /\ writeErr = "nil"
  /\ bgErr = "nil" /\ auto = "none"
  /\ synced = 0 /\ syncing = "idle" /\ gsErr = "nil"
  /\ pc = [w \in Writers |-> "idle"]
  /\ seq = [w \in Writers |-> 0]
  /\ ldr = [w \in Writers |-> Idle]
  /\ cpc = "idle" /\ tailStart = 0
  /\ clpc = "open" /\ closeErr = "none"
  /\ written = [i \in Inodes |-> 0]
  /\ durable = [i \in Inodes |-> 0]
  /\ hole = {} /\ tail = "whole"
  /\ dirCur = 0 /\ dirDur = 0
  /\ base = 0 /\ acked = 0 /\ restarts = 0
-----------------------------------------------------------------------------
(***************************************************************************)
(* The file system (external: the operating system behind fsys).           *)
(***************************************************************************)

\* fsync of inode i returns nil: what it held when the call began, goal
\* commits, is on disk, unless an earlier failure already dropped it.
FsyncOk(i, goal) ==
  /\ durable' = IF i \in hole THEN durable
                ELSE [durable EXCEPT ![i] = Larger(durable[i], goal)]
  /\ UNCHANGED <<written, hole>>

\* fsync of inode i reports an I/O error.
FsyncFail(i) ==
  /\ hole' = IF DropsDirty THEN hole \union {i} ELSE hole
  /\ UNCHANGED <<written, durable>>

\* SyncDir: the directory entry reaches the disk, or the error is ignored.
SyncDir(i) ==
  \/ dirDur' = i
  \/ SyncDirMayFail /\ dirDur' = dirDur

-----------------------------------------------------------------------------
(***************************************************************************)
(* The write path: append under mu, then waitDurable with no lock held.    *)
(***************************************************************************)

\* Mutants: a failed append is not sticky; a closed database takes writes.
CanWriteAfterError == ~closed
CanWriteAfterClose == writeErr = "nil"

CanWrite == ~closed /\ writeErr = "nil"

\* The size thresholds are abstracted to a choice.
MaybeAutoCompact ==
  \/ auto' = auto
  \/ AutoCompact /\ auto = "none" /\ auto' = "spawned"

\* writeLog succeeds.  A record placed after torn bytes is out of replay's
\* reach.
WriteLog ==
  /\ Applied < MaxAppends
  /\ appendSeq' = appendSeq + 1
  /\ written' = IF tail = "torn" THEN written ELSE [written EXCEPT ![file] = written[file] + 1]
  /\ MaybeAutoCompact
  /\ UNCHANGED <<file, writeErr, bgErr, durable, hole>>

\* Set, Delete or Commit appends its record or batch and leaves the locks.
Append(w) ==
  /\ pc[w] = "idle" /\ MuFree /\ CanWrite
  /\ WriteLog
  /\ pc' = [pc EXCEPT ![w] = "wait"]
  /\ seq' = [seq EXCEPT ![w] = appendSeq + 1]
  /\ UNCHANGED <<gsVars, ldr, cpVars, clVars, tail, dirVars, histVars>>

\* file.Write fails: the call returns the error, the record may be torn.
AppendFail(w) ==
  /\ pc[w] = "idle" /\ MuFree /\ CanWrite
  /\ writeErr' = "err" /\ tail' = "torn"
  /\ UNCHANGED <<appendSeq, file, bgErr, auto, gsVars, wrVars, cpVars,
                 clVars, diskVars, dirVars, histVars>>

\* Mutant: the loop condition is off by one.
CoveredOffByOne(w) == Policy # "SyncAlways" \/ synced + 1 >= seq[w]

Covered(w) == Policy # "SyncAlways" \/ synced >= seq[w]

\* waitDurable leaves its loop: nil when covered, the group's error if not.
Return(w) ==
  /\ pc[w] = "wait"
  /\ Covered(w) \/ gsErr # "nil"
  /\ acked' = IF Covered(w) THEN Larger(acked, base + seq[w]) ELSE acked
  /\ pc' = [pc EXCEPT ![w] = "idle"]
  /\ seq' = [seq EXCEPT ![w] = 0]
  /\ UNCHANGED <<dbVars, gsVars, ldr, cpVars, clVars, diskVars, dirVars,
                 base, restarts>>

\* cond.Wait: another committer is leading.
Sleep(w) ==
  /\ pc[w] = "wait" /\ ~Covered(w) /\ gsErr = "nil" /\ syncing = "inflight"
  /\ pc' = [pc EXCEPT ![w] = "sleep"]
  /\ UNCHANGED <<dbVars, gsVars, seq, ldr, cpVars, clVars, diskVars,
                 dirVars, histVars>>

\* Mutant: syncing is not tested.
LeadUnchecked(w) ==
  /\ pc[w] = "wait" /\ ~Covered(w) /\ gsErr = "nil"
  /\ syncing' = "inflight"
  /\ pc' = [pc EXCEPT ![w] = "capture"]
  /\ UNCHANGED <<dbVars, synced, gsErr, seq, ldr, cpVars, clVars, diskVars, dirVars, histVars>>

Lead(w) ==
  /\ pc[w] = "wait" /\ ~Covered(w) /\ gsErr = "nil" /\ syncing = "idle"
  /\ syncing' = "inflight"
  /\ pc' = [pc EXCEPT ![w] = "capture"]
  /\ UNCHANGED <<dbVars, synced, gsErr, seq, ldr, cpVars, clVars, diskVars, dirVars, histVars>>

\* Under RLock: the handle and the sequence the fsync will cover.  The fsync
\* that follows reaches at least what the file holds now.
LeaderCapture(w) ==
  /\ pc[w] = "capture" /\ MuFree
  /\ ldr' = [ldr EXCEPT ![w] = [f |-> file, cover |-> appendSeq,
                                goal |-> written[file], 
                                err |-> IF closed THEN "err" ELSE "nil"]]
  /\ pc' = [pc EXCEPT ![w] = IF closed THEN "finish" ELSE "fsync"]
  /\ UNCHANGED <<dbVars, gsVars, seq, cpVars, clVars, diskVars, dirVars,
                 histVars>>

\* f.Sync returns nil; a handle closed meanwhile may still get here.
LeaderSyncOk(w) ==
  /\ pc[w] = "fsync"
  /\ FsyncOk(ldr[w].f, ldr[w].goal)
  /\ pc' = [pc EXCEPT ![w] = "finish"]
  /\ UNCHANGED <<dbVars, gsVars, seq, ldr, cpVars, clVars, dirVars, histVars>>

\* f.Sync fails: an I/O error, or a handle that Compact or Close has closed.
LeaderSyncFail(w) ==
  /\ pc[w] = "fsync"
  /\ \/ ldr[w].f = file /\ clpc # "done" /\ FsyncFail(file)
     \/ (ldr[w].f # file \/ clpc = "done") /\ UNCHANGED diskVars
  /\ pc' = [pc EXCEPT ![w] = "check"]
  /\ UNCHANGED <<dbVars, gsVars, seq, ldr, cpVars, clVars, dirVars, histVars>>

\* Under RLock: a compaction has swapped the file, so the failure is moot.
LeaderCheck(w) ==
  /\ pc[w] = "check" /\ MuFree
  /\ pc' = [pc EXCEPT ![w] = IF file # ldr[w].f THEN "finish" ELSE "poison"]
  /\ UNCHANGED <<dbVars, gsVars, seq, ldr, cpVars, clVars, diskVars,
                 dirVars, histVars>>

\* Under Lock: the database goes read-only.
LeaderPoison(w) ==
  /\ pc[w] = "poison" /\ MuFree
  /\ writeErr' = "err"
  /\ ldr' = [ldr EXCEPT ![w] = [f |-> ldr[w].f, cover |-> ldr[w].cover,
                                goal |-> ldr[w].goal, err |-> "err"]]
  /\ pc' = [pc EXCEPT ![w] = "finish"]
  /\ UNCHANGED <<appendSeq, file, bgErr, auto, gsVars, seq, cpVars,
                 clVars, diskVars, tail, dirVars, histVars>>

\* Mutant: no Broadcast.
NotWoken(pcs) == pcs

\* cond.Broadcast: every sleeper, changed to pcs, wakes up.
Woken(pcs) == [w \in Writers |-> IF pcs[w] = "sleep" THEN "wait" ELSE pcs[w]]

\* The leader publishes its result and evaluates the loop condition again.
LeaderFinish(w) ==
  /\ pc[w] = "finish"
  /\ syncing' = "idle"
  /\ gsErr' = IF ldr[w].err = "nil" THEN gsErr ELSE ldr[w].err
  /\ synced' = IF ldr[w].err = "nil" THEN Larger(synced, ldr[w].cover) ELSE synced
  /\ pc' = Woken([pc EXCEPT ![w] = "wait"])
  /\ ldr' = [ldr EXCEPT ![w] = Idle]
  /\ UNCHANGED <<dbVars, seq, cpVars, clVars, diskVars, dirVars, histVars>>

\* Mutant: the sequence before the last one is published.
MarkDurableOffByOne ==
  /\ synced' = appendSeq - 1
  /\ pc' = Woken(pc)
  /\ UNCHANGED <<syncing, gsErr, seq, ldr>>

\* markDurable, called with mu held after an fsync of the live log.
MarkDurable ==
  /\ synced' = Larger(synced, appendSeq)
  /\ pc' = Woken(pc)
  /\ UNCHANGED <<syncing, gsErr, seq, ldr>>

\* DB.Sync.
Sync ==
  /\ MuFree /\ ~closed
  /\ \/ FsyncOk(file, written[file]) /\ MarkDurable
     \/ FsyncFail(file) /\ UNCHANGED <<gsVars, wrVars>>
  /\ UNCHANGED <<dbVars, cpVars, clVars, dirVars, histVars>>

\* One tick of backgroundSync; it does not move the watermark.
BackgroundSync ==
  /\ Policy = "SyncEverySecond" /\ MuFree /\ ~closed
  /\ \/ FsyncOk(file, written[file]) /\ bgErr' = bgErr
     \/ FsyncFail(file) /\ bgErr' = "err"
  /\ UNCHANGED <<appendSeq, file, writeErr, auto, gsVars, wrVars,
                 cpVars, clVars, tail, dirVars, histVars>>
-----------------------------------------------------------------------------
(***************************************************************************)
(* Compact, called by the application or by the auto-compaction goroutine. *)
(***************************************************************************)

\* Phase A, under mu.
CompactStart ==
  /\ cpc = "idle" /\ ~closed /\ writeErr = "nil" /\ file < MaxSwaps
  /\ \/ auto' = auto
     \/ auto = "spawned" /\ auto' = "running"
  /\ tailStart' = Applied
  /\ cpc' = "stream"
  /\ UNCHANGED <<appendSeq, file, writeErr, bgErr, gsVars, wrVars,
                 clVars, diskVars, tail, dirVars, histVars>>

\* The goroutine's Compact returns at Phase A or fails to create the file.
AutoRefused ==
  /\ cpc = "idle" /\ auto = "spawned"
  /\ auto' = IF closed THEN "done" ELSE "failed"
  /\ UNCHANGED <<appendSeq, file, writeErr, bgErr, gsVars, wrVars,
                 cpVars, clVars, diskVars, tail, dirVars, histVars>>

\* Mutant: compacting is cleared on success only.
AutoFinishOnSuccess ==
  /\ MuFree /\ auto = "done"
  /\ auto' = "none"
  /\ UNCHANGED <<appendSeq, file, writeErr, bgErr, gsVars, wrVars, cpVars,
                 clVars, diskVars, tail, dirVars, histVars>>

\* The goroutine clears compacting and keeps the error for Close.
AutoFinish ==
  /\ MuFree /\ auto \in {"done", "failed"}
  /\ auto' = "none"
  /\ bgErr' = IF auto = "failed" THEN "err" ELSE bgErr
  /\ UNCHANGED <<appendSeq, file, writeErr, gsVars, wrVars, cpVars,
                 clVars, diskVars, tail, dirVars, histVars>>

\* Create the temporary file and stream the snapshot, no lock held.
CompactStream ==
  /\ cpc = "stream"
  /\ written' = [written EXCEPT ![tmp] = tailStart]
  /\ durable' = [durable EXCEPT ![tmp] = 0]
  /\ hole' = hole \ {tmp}
  /\ cpc' = "tail"
  /\ UNCHANGED <<dbVars, gsVars, wrVars, tailStart, clVars, dirVars, histVars>>

\* Compact returns; its goroutine, if it has one, sees the result.
CompactReturn(result) ==
  /\ cpc' = "idle" /\ tailStart' = 0
  /\ auto' = IF auto = "running" THEN result ELSE auto

\* Mutant: the tail is not spliced in.
CompactTailSkipped ==
  /\ cpc = "tail" /\ ~closed /\ writeErr = "nil"
  /\ cpc' = "sync"
  /\ UNCHANGED <<dbVars, gsVars, wrVars, tailStart, clVars, diskVars, dirVars, histVars>>

\* Mutant: Phase B does not look at closed and writeErr again.
CompactTailUnchecked ==
  /\ cpc = "tail"
  /\ written' = [written EXCEPT ![tmp] = written[tmp] + (Applied - tailStart)]
  /\ cpc' = "sync"
  /\ UNCHANGED <<dbVars, gsVars, wrVars, tailStart, clVars, durable, hole, dirVars, histVars>>

\* Phase B takes mu and copies the tail that committed since the snapshot.
CompactTail ==
  /\ cpc = "tail" /\ ~closed /\ writeErr = "nil"
  /\ written' = [written EXCEPT ![tmp] = written[tmp] + (Applied - tailStart)]
  /\ cpc' = "sync"
  /\ UNCHANGED <<dbVars, gsVars, wrVars, tailStart, clVars, durable, hole,
                 dirVars, histVars>>

\* Phase B finds the database closed or its log suspect and discards.
CompactRefused ==
  /\ cpc = "tail" /\ (closed \/ writeErr # "nil")
  /\ CompactReturn(IF closed THEN "done" ELSE "failed")
  /\ UNCHANGED <<appendSeq, file, writeErr, bgErr, gsVars, wrVars,
                 clVars, diskVars, tail, dirVars, histVars>>

\* A write, copy, fsync or rename of the temporary file fails.
CompactAbort ==
  /\ cpc \in {"stream", "tail", "sync", "rename"}
  /\ CompactReturn("failed")
  /\ UNCHANGED <<appendSeq, file, writeErr, bgErr, gsVars, wrVars,
                 clVars, diskVars, tail, dirVars, histVars>>

\* Mutant: the rename is not preceded by an fsync.
CompactSyncSkipped ==
  /\ cpc = "sync"
  /\ cpc' = "rename"
  /\ UNCHANGED <<dbVars, gsVars, wrVars, tailStart, clVars, diskVars, dirVars, histVars>>

CompactSync ==
  /\ cpc = "sync"
  /\ FsyncOk(tmp, written[tmp])
  /\ cpc' = "rename"
  /\ UNCHANGED <<dbVars, gsVars, wrVars, tailStart, clVars, dirVars, histVars>>

CompactRename ==
  /\ cpc = "rename"
  /\ dirCur' = tmp
  /\ cpc' = "syncdir"
  /\ UNCHANGED <<dbVars, gsVars, wrVars, tailStart, clVars, diskVars,
                 dirDur, histVars>>

CompactSyncDir ==
  /\ cpc = "syncdir"
  /\ SyncDir(tmp)
  /\ cpc' = "swap"
  /\ UNCHANGED <<dbVars, gsVars, wrVars, tailStart, clVars, diskVars,
                 dirCur, histVars>>

\* The retired handle is closed, the new one installed, waiters released.
CompactSwap ==
  /\ cpc = "swap"
  /\ file' = tmp
  /\ tail' = "whole"
  /\ MarkDurable
  /\ CompactReturn("done")
  /\ UNCHANGED <<appendSeq, writeErr, bgErr, clVars, diskVars, dirVars, histVars>>
-----------------------------------------------------------------------------
(***************************************************************************)
(* Close, and opening the database again.                                  *)
(***************************************************************************)

CloseBegin ==
  /\ clpc = "open" /\ MuFree
  /\ clpc' = "drain"
  /\ UNCHANGED <<appendSeq, file, writeErr, bgErr, auto, gsVars, wrVars, cpVars,
                 closeErr, diskVars, tail, dirVars, histVars>>

\* After bgWG.Wait: final fsync, release of the waiters, file.Close.
CloseFinish ==
  /\ clpc = "drain" /\ auto = "none" /\ MuFree
  /\ \/ /\ FsyncOk(file, written[file]) /\ MarkDurable
        /\ closeErr' \in {"err", bgErr}
     \/ /\ FsyncFail(file) /\ UNCHANGED <<gsVars, wrVars>>
        /\ closeErr' = "err"
  /\ clpc' = "done"
  /\ UNCHANGED <<dbVars, cpVars, dirVars, histVars>>

\* Open on inode d, which replays to n commits; the torn tail is truncated.
Open(d, n) ==
  /\ appendSeq' = 0 /\ file' = d /\ writeErr' = "nil"
  /\ bgErr' = "nil" /\ auto' = "none"
  /\ synced' = 0 /\ syncing' = "idle" /\ gsErr' = "nil"
  /\ pc' = [w \in Writers |-> "idle"]
  /\ seq' = [w \in Writers |-> 0]
  /\ ldr' = [w \in Writers |-> Idle]
  /\ cpc' = "idle" /\ tailStart' = 0
  /\ clpc' = "open" /\ closeErr' = "none"
  /\ tail' = "whole"
  /\ base' = n

\* The process ends, killed or after Close; the page cache survives.
ProcessRestart ==
  /\ restarts < MaxRestarts /\ restarts' = restarts + 1
  /\ Open(dirCur, written[dirCur])
  /\ SyncDir(dirCur)
  /\ UNCHANGED <<diskVars, dirCur, acked>>

\* Power is lost: the directory holds the old or the new entry, the file its
\* durable bytes and any prefix of the pending ones.
PowerCut ==
  /\ restarts < MaxRestarts /\ restarts' = restarts + 1
  /\ \E d \in {dirCur, dirDur} : \E n \in durable[d] .. written[d] :
       /\ Open(d, n)
       /\ written' = [written EXCEPT ![d] = n]
       /\ durable' = [durable EXCEPT ![d] = n]
       /\ dirCur' = d /\ dirDur' = d
  /\ hole' = {}
  /\ UNCHANGED acked
-----------------------------------------------------------------------------
WriterStep(w) ==
  \/ Return(w) \/ Sleep(w) \/ Lead(w)
  \/ LeaderSyncOk(w) \/ LeaderSyncFail(w) \/ LeaderFinish(w)

\* The leader's steps that take mu.
LeaderLock(w) == LeaderCapture(w) \/ LeaderCheck(w) \/ LeaderPoison(w)

CompactStep ==
  \/ CompactStream \/ CompactTail \/ CompactRefused \/ CompactAbort
  \/ CompactSync \/ CompactRename \/ CompactSyncDir \/ CompactSwap

Next ==
  \/ \E w \in Writers : Append(w) \/ AppendFail(w) \/ WriterStep(w) \/ LeaderLock(w)
  \/ Sync \/ BackgroundSync
  \/ CompactStart \/ CompactStep \/ AutoRefused \/ AutoFinish
  \/ CloseBegin \/ CloseFinish
  \/ ProcessRestart \/ PowerCut

Spec == Init /\ [][Next]_vars

\* Goroutines run and system calls return.  A goroutine blocked on mu gets
\* it even when others keep taking it: sync.RWMutex admits waiting readers
\* on every Unlock and sync.Mutex has a starvation mode.  Nothing obliges
\* anyone to write, compact, sync, close or crash.
Fairness ==
  /\ \A w \in Writers : WF_vars(WriterStep(w)) /\ SF_vars(LeaderLock(w))
  /\ WF_vars(CompactStep)
  /\ WF_vars(AutoRefused \/ AutoFinish)
  /\ WF_vars(CloseFinish)

FairSpec == Spec /\ Fairness
-----------------------------------------------------------------------------
(***************************************************************************)
(* Properties.                                                             *)
(***************************************************************************)

\* The two inodes a power cut may leave under the database's path.
OnDisk(n) == n <= durable[dirCur] /\ n <= durable[dirDur]

\* Durable to the last acknowledged operation (SyncAlways): whenever Set,
\* Delete or Commit has returned nil, its commit survives a power cut at that
\* moment, whatever leader, compaction, Sync or Close is in progress.
AckedDurable == Policy = "SyncAlways" => OnDisk(acked)

\* The live log replays to exactly the commits applied in memory, across
\* failed appends, compaction's tail splice and file swap, and reopening.
LogMatchesMemory == written[file] = Applied

\* A committer asleep in cond.Wait always has a leader that has still to
\* broadcast: no wake-up is lost between syncing and the watermark.
NoLostWakeup ==
  (\E w \in Writers : pc[w] = "sleep") => \E w \in Writers : pc[w] \in LeaderPcs

\* One fsync at a time: two committers never lead together, and syncing says
\* exactly whether one does.
OneLeader ==
  /\ syncing = "inflight" <=> \E w \in Writers : pc[w] \in LeaderPcs
  /\ \A v, w \in Writers : pc[v] \in LeaderPcs /\ pc[w] \in LeaderPcs => v = w

\* A compaction renames its file over the log only while the database is open
\* and its log not suspect, although both were last known when Phase A froze
\* the snapshot: no Close, failed append or failed group fsync comes between
\* Phase B's second look and the rename, and a compaction that outlives Close
\* leaves the file alone.
SwapsLiveLogOnly ==
  [][dirCur' # dirCur /\ restarts' = restarts => ~closed /\ writeErr = "nil"]_vars

\* When Close has returned nil every commit is on disk, under every policy
\* and although a compaction may have swapped the file while Close ran.
CloseDurable == closeErr = "nil" => OnDisk(Applied)

\* The commits that survive whichever entry a power cut leaves.
Disk == IF durable[dirCur] <= durable[dirDur] THEN durable[dirCur] ELSE durable[dirDur]

DL == INSTANCE DurableLog WITH applied <- Applied, disk <- Disk, acked <- acked

\* Group commit, compaction, Close and recovery implement the durable log:
\* the disk never goes back, nothing is acknowledged ahead of it, and a
\* restart yields a prefix of the applied commits that holds what was on disk.
ImplementsDurableLog == DL!DLSpec

\* Every write call returns: no committer waits for ever on the watermark,
\* whatever fails, swaps or closes meanwhile.
WritersReturn == \A w \in Writers : pc[w] # "idle" ~> pc[w] = "idle"

\* Close returns: the auto-compaction it waits for finishes or gives up.
CloseReturns == clpc = "drain" ~> clpc # "drain"

=============================================================================
