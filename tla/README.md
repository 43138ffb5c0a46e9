# TLA+ specifications of btypedb

btypedb is an embedded ordered key-value store: a copy-on-write in-memory
state, a write-ahead log, transactions with savepoints, TTLs, secondary
indexes, group commit, online compaction, backups and log shipping. These
modules model what is hard to test in it, model-check it on small instances
with TLC, and prove the central results for every instance with TLAPS.

## The system and its parts

| Part | Source | Modules | Status |
|---|---|---|---|
| Group commit (`waitDurable`, `markDurable`) | `groupcommit.go` | `GroupCommit`, `DurableLog` | modelled, proved |
| Log append, sync policies, sticky errors | `db.go` | `GroupCommit` | modelled, proved |
| Compaction, auto-compaction | `compact.go` | `GroupCommit` (durability), `Transactions` (contents) | modelled, proved |
| File system layer | `fs.go` | `GroupCommit`, `Backup` | modelled |
| Log format, replay, header | `wal.go` | `WalFormat`, `Wal`, `DBState` (`replay`) | modelled |
| `Open`, recovery | `db.go` | `Wal`, `GroupCommit`, `Transactions` | modelled |
| `Close` | `db.go` | `Locks`, `GroupCommit`, `Transactions`, `Wal` | modelled |
| In-memory state | `state.go` | `DBState` | modelled, proved |
| Transactions, savepoints | `tx.go`, `savepoint.go` | `Transactions`, `TransactionalMap` | modelled, proved |
| Direct writes | `db.go` | `Transactions`, `GroupCommit` | modelled, proved |
| Expiry sweeper | `ttl.go` | `Transactions` | modelled, safety proved |
| Secondary indexes | `index.go` | `DBState`, `Transactions`, `Scans` | modelled |
| Reads and iterators | `db.go`, `tx.go`, `index.go` | `Scans`, `DBState` | modelled |
| Lock hierarchy | all of them | `Locks` | modelled |
| Backup | `backup.go` | `Backup`, `LogFile` | modelled |
| Log shipping | `replication.go` | `Replication`, `LogFile` | modelled, splicing proved |
| Encryption at rest | `encrypt.go` | `WalFormat`, `Wal` | partly: headers, keys, what is sealed; not the ciphers |
| Codecs | `codec.go` | | not modelled |

A write goes through most of them in this order: it takes `writerMu` (for one
call, or for the life of a transaction), then `mu`; it appends to the log,
changes the live state, leaves both locks, and waits in `waitDurable` until an
fsync covers its append. `Locks` models the locks on this path and on all
others; `Transactions` what the write does to the contents; `Wal` the bytes it
appends and what `Open` makes of them; `GroupCommit` which of them are on disk
when. The log append is the step they share. `Wal` and `GroupCommit` implement
the same abstract log, `DurableLog`: the one down to the cells of a file, the
other down to the files, fsyncs and renames.

## Modules

**`DurableLog`** is what the log promises: commits are applied in order, the
disk holds a prefix of them that grows, a commit is acknowledged only when it is
on disk, and reopening yields a prefix between the disk's and memory's.

**`TransactionalMap`** is what the store promises its users: a map whose entries
expire, one writer at a time, snapshot transactions, atomic commits. It knows
no log, sweeper, compaction, index or crash.

**`GroupCommit`** is how the code does it. A log file (an inode) is abstracted
to the number of commits a replay of it yields, in the page cache (`written`)
and on disk (`durable`). The state is the fields of `DB` and `groupSync` under
their Go names, a program counter for each goroutine that is inside
`waitDurable`, for `Compact` and for `Close`, and the directory entry in the
cache and on disk. Each action is one critical section, or one system call made
outside of any. `Compact` holds `mu` from the tail copy to the swap while it
makes several calls between which power may be lost, so these are separate
actions, and `MuFree` keeps everyone else out. Failing writes, fsyncs,
renames and directory syncs, process exits and power cuts are actions or
alternatives. Two constants select file-system assumptions: `DropsDirty` (a
failed fsync leaves its pages clean though not written) and `SyncDirMayFail`.

**`DBState`** has the operations of `dbState` (`set`, `delete`, `get`,
`expired`, `liveLen`, index scans) over the primary tree and the trees derived
from it, and the replay of log records.

**`Transactions`** composes direct writes, transactions, savepoints, the
sweeper, index registration, compaction, close and reopening over one live
state. The log is the state its replay yields (`logged`); the records written
between a compaction's phases are kept in `tail`. A snapshot is a value, since
the copy-on-write trees are immutable once copied. Times that the code reads
before it takes the writer lock (the deadline of `SetTTL`, the `now` of
`Delete`) may be any time up to the present.

**`Scans`** has the iterators: loops over a tree, in order, that hold `mu`'s
read lock (`DB`) or walk a snapshot (`Tx`) while others write.

**`WalFormat`** has the file format as operators: headers, framing, sealing,
`replayLog`, `scanForRecord` and `prepareHeader`. A file is a sequence of cells,
one per field; a checksum cell holds exactly what it was computed over, a sealed
cell its key and additional data, and `Junk` stands for bytes that are not what
was written. **`Wal`** is the life of a file: commits, fsyncs, failed writes,
crashes, power cuts, damage at rest, and `Open` with its options and refusals.
The files a power cut may leave (`survivors`) depend on the order in which the
disk takes what was not synced, which is the constant `DiskOrder` (see
*Assumptions about the disk*); `StatMayFail` says whether `Open`'s calls of
`Stat` may fail, which makes it skip the scan or the truncation.

**`Locks`** writes each method as its sequence of lock operations, checks that
may fail (with what is executed instead) and waits, and executes these sequences
for any set of callers, the sweeper, the syncer and auto-compaction.
`sync.RWMutex` is modelled with its announcement: a waiting writer shuts out new
readers. Since `writeErr` may be set at any time, a check may fail at any time.

**`LogFile`** is a primary whose log is copied by others: appends, failed
appends, fsyncs, both phases of `Compact`, `Close`, power cuts, `Open`. A record
is one cell here. **`Replication`** adds `LogState`, `ReadLogRange` and the
follower that the package comment of `replication.go` describes; **`Backup`** the
calls of `Backup`, with files, names and a directory that fall back to what was
synced. Epochs mean nothing across Opens; the follower's new generation on every
Open is its duty under `replication.go:24-33`, which the model's follower does
and no code in the repository enforces.

**Proofs**: `GroupCommitTypes`, `GroupCommitDisk` and `GroupCommitProofs`;
`DBStateProofs`, `TransactionsTypes`, `TransactionsProofs` and `TransactionsLog`;
`ReplicationProofs`. Within a group each extends the one before. The `MC`
modules give the constants small values.

Definitions marked *Mutant* are wrong variants of the definition that follows
them. No specification uses them; they document which mistake each property
catches.

## Model checking

| Run | Configuration | Checks | Bounds |
|---|---|---|---|
| `group_commit` | `MCGroupCommit_always` | `TypeOK`, `AckedDurable`, `LogMatchesMemory`, `NoLostWakeup`, `OneLeader`, `SwapsLiveLogOnly`, `ImplementsDurableLog` | SyncAlways, 2 writers, 3 commits, 2 swaps, 1 restart |
| `relaxed_policy` | `MCGroupCommit_relaxed` | `LogMatchesMemory`, `CloseDurable` | SyncEverySecond with auto-compaction, same bounds |
| `progress` | `MCGroupCommit_live` | `WritersReturn`, `CloseReturns` | SyncAlways with auto-compaction, 2 writers, 2 commits, 1 swap |
| `transactions` | `MCTransactions_tx` | `TypeOK`, `Mirrored`, `ReadsAgree`, `PendingExplainsState` | 1 handle, 2 records and 2 savepoints, 2 keys, 2 values, 1 index, 2 times, 1 reopening |
| `transactional_map` | `MCTransactions_map` | `LogReplays`, `SweepsOnlyExpired`, `ImplementsTransactionalMap`, `ExpiredAreSwept` | 1 handle with batches of 2, 2 keys, 2 times, compactions with 1 record in the tail, 1 reopening |
| `scans` | `MCScans` | `ScanIsASnapshot` | 1 scanner, 3 keys, 2 values, 1 index, 3 writes, 2 times |
| `wal_crash` | `MCWal_crash` | `TypeOK`, `MemoryIsHistory`, `CrashNeverRefused`, `ImplementsDurableLog` | plaintext, unsynced changes reach the disk in order, 3 commits (single with deadline, or batch), 2 crashes, sector junk |
| `wal_damage` | `MCWal_damage` | `OneKeyPerLog`, `MemoryIsHistory`, `AckedSurvive` | new, legacy and newer files; no key, 2 keys, `truncateAtCorrupt`; changes in order; 2 commits, 1 crash, 1 damaged cell |
| `lock_order` | `MCLocks_order` | `TypeOK`, `LockOrder`, `QuietAfterClose`, `NoDeadlock` | 2 callers, 1 call each of any method, sweeper, syncer and auto-compaction |
| `log_shipping` | `MCReplication_ship` | `TypeOK`, `NeverSpliced`, `RestoresToAState`, `CatchesUp` | 2 keys, 2 commits, 2 compactions, 2 reopenings, ranges of 2 |
| `backup` | `MCBackup_one` | `TypeOK`, `DestWhole`, `ReturnedBackupRestores` | 2 backups one after the other, 2 keys, 2 commits of one or both, whole or torn, 1 compaction, 1 reopening |
| `wal_huge` | `MCWal_huge` | `AckedSurvive` fails | 1 commit, 1 crash |

Two writers are enough for a leader and a sleeper, and three commits for one
before, one during and one after an fsync or a compaction; a second swap lets a
leader hold a handle that is two files old. Two keys tell a key that is touched
from one that is not; two savepoints nest; three keys give a scan an entry
before, at and after its cursor. In `Wal`, three commits put one before, at and
behind a tear, two put one behind a damaged one, and a second crash strikes a
log that was already repaired once; `maxPartLen` is 4 cells, enough for a value
that holds a record. A second backup meets what the first left behind, and with two keys
the log it copies holds batches and may end in part of one; a second
reopening, a follower whose epoch number comes again. Where a bound is tight,
the theorems stand behind it: overlapping transactions, longer tails and more
times are covered by the proofs about `Transactions`. In `Locks`, a deadlock
over four locks needs as many goroutines as it has waits: two callers, of any
two methods, and three background goroutines.
The bounds cap counters in the guards (`MaxAppends`, `MaxSwaps`, `MaxRestarts`,
`MaxClock`, `MaxPending`, `MaxSaves`, `MaxTail`, `MaxCommits`, `MaxCrashes`,
`MaxDamage`, `MaxCalls`, `MaxCompactions`, `MaxOpens`, `MaxBackups`,
`MaxWrites`) and restrict nothing else. Most of the systems may stop (a closed
database, everyone idle, a bound reached), and there deadlock is not checked.

The properties in words:

- `AckedDurable`: a write that returned nil under SyncAlways survives a power
  cut at that moment, whichever of the two directory entries it leaves.
- `LogMatchesMemory`: the live log replays to exactly the commits in memory.
- `ImplementsDurableLog`: the code's steps are steps of `DurableLog`.
- `NoLostWakeup`, `OneLeader`, `WritersReturn`, `CloseReturns`: group commit
  wakes everyone it puts to sleep, and Close's waiting ends.
- `SwapsLiveLogOnly`: a compaction renames its file over the log only while the
  database is open and the log not suspect, whatever happened while the snapshot
  streamed without a lock.
- `CloseDurable`: a Close that returned nil has everything on disk, under every
  policy.
- `PendingExplainsState`: an open transaction's state, and each of its
  savepoints', is the live state plus the records it will log. This is
  isolation of writers, atomic commit and savepoint rollback in one.
- `Mirrored`, `ReadsAgree`: deadlines, the expiry order and every index are
  functions of the data, so `Get`, `LiveLen` and index scans agree at any time.
- `LogReplays`: replaying the log yields what readers see, now and later.
- `SweepsOnlyExpired`, `ExpiredAreSwept`: the sweeper removes nothing visible,
  and everything expired in the end.
- `ImplementsTransactionalMap`: what readers and transactions see changes only
  as `TransactionalMap` allows.
- `ScanIsASnapshot`: every iterator yields, in its order, the visible pairs of
  one state.
- `MemoryIsHistory`: what `Open` recovers is whole commits from the beginning of
  the log, and later writes follow them.
- `CrashNeverRefused`, `AckedSurvive`: on a disk that takes unsynced appends in
  order, crashes alone never make `Open` refuse, and no `Open` silently drops an acknowledged commit, except the one that was
  damaged.
- `OneKeyPerLog`: records of different keys never meet in a log.
- `LockOrder`, `NoDeadlock`, `QuietAfterClose`: the documented lock order, no
  circle of goroutines that wait for each other, and nothing left running behind
  `Close`.
- `NeverSpliced`, `RestoresToAState`, `CatchesUp`: a replica is a prefix of its
  log, restores to a state that was, and gets to the end.
- `DestWhole`, `ReturnedBackupRestores`: `destPath` holds a whole backup or what
  it held before, and a backup that returned nil, and whose directory sync
  succeeded, restores to a state no older than its call. `Backup` ignores the
  error of that sync, so its caller does not know whether it did.

### Where the code and its comments differ

TLC finds a counterexample with each of these configurations. `wal_huge` is
one of the runs above; the others are kept for reference, and the passing runs
leave out the case they are about.

- `MCGroupCommit_fsyncgate` (`AckedDurable`): `DB.Sync` does not poison the database when its fsync fails,
  and the next fsync that succeeds acknowledges everything. Where the kernel
  drops dirty pages on a failed fsync, an acknowledged write can be lost,
  against `db.go:74-75`.
- `MCGroupCommit_syncdir` (`AckedDurable`): the error of the directory fsync after a compaction's rename
  is ignored, against `README.md:225-228` of the repository.
- `MCTransactions_delete` (`DeleteReportsVisible`): `Delete` reports a key as deleted that expired while it
  waited for the writer lock, against `db.go:458-459`.
- `MCWal_framed` (`CrashNeverRefused`): a torn record whose value holds a framed record is refused with
  `ErrCorrupt`, against `db.go:41-42`.
- `MCWal_reordered` (`CrashNeverRefused`): where a power cut may keep a later
  part of the unsynced appends and miss an earlier one, an intact record follows
  a broken one, and `Open` refuses with `ErrCorrupt` a log that was only cut off,
  against `db.go:41-42`.
- `MCWal_mixed` (`MemoryIsHistory`): nothing syncs the truncation of a torn tail.
  Where the next append may reach the disk before it, a power cut leaves the new
  record with the rest of the old tail behind it, and a member of a transaction
  that was torn is replayed on its own, against `wal.go:287-288`.
- `MCWal_stat` (`MemoryIsHistory`): the same without a power cut when `Stat` fails
  and the truncation is skipped, against `db.go:352`.
- `MCWal_torncreate` (`CrashNeverRefused`): an encrypted log whose creation tore within the magic,
  with junk behind, is refused to its own key with `ErrNotEncrypted`, against
  `header_test.go:131-133`.
- `MCWal_headerless` (`NeverHeaderless`): the same without a key yields a log without a header,
  against `wal.go:103-105`.
- `MCWal_huge` (`AckedSurvive`): lengths are bounded when a record is read, not when it is written;
  a value above 1 GiB is acknowledged and lost at the next `Open`, against
  `db.go:70-71`.
- `MCLocks_nested` (`NoDeadlock`): a read inside an iterator's loop can deadlock with a writer;
  `db.go:534-535` warns of writes only.
- `MCReplication_partial` (`EveryGenerationRestores`): part of the snapshot at the beginning of a compacted log
  restores to a state that never was, against `replication.go:32-33`.
- `MCBackup_shared` (`DestWhole`): concurrent backups to one path share the temp file, against
  `backup.go:55-56` and `db.go:183`.
- `MCBackup_syncdir` (`ReturnedBackupRestores`): `Backup` returns nil although its
  directory sync failed; a power cut then brings back what destPath held before.
  A caller that trusts every nil (`TrustsNil`) has lost the backup.

### Assumptions about the disk

- *Unsynced changes reach the disk in order*: a power cut leaves one of the states
  the file went through since the last fsync, torn at any cell, with junk behind
  the tear where `SectorJunk` says so. The repository assumes it too:
  `powerfail_test.go:17-22` keeps "the durable bytes plus an arbitrary torn
  prefix", and `wal.go:344-345` reasons that "writes stop at the tear". It holds
  of every power cut in `GroupCommit` and `LogFile` and of the runs of `Wal`
  (`DiskOrder = "inOrder"`). `CrashNeverRefused` needs it of appends
  (`MCWal_reordered`) and `MemoryIsHistory` of the truncation before them
  (`MCWal_mixed`). With appends in any order, `MCWal_scattered` passes:
  `MemoryIsHistory`, `AckedSurvive` and `ImplementsDurableLog` hold for two
  commits and one crash, so there the cost is a refusal, never a wrong state.
- *A failed fsync drops no pages* (`DropsDirty`) and *directory syncs succeed*
  (`SyncDirMayFail`, `TrustsNil`) where acknowledged or returned work is to
  survive: `MCGroupCommit_fsyncgate`, `MCGroupCommit_syncdir`, `MCBackup_syncdir`.
- *`Stat` of an open file succeeds* (`StatMayFail`): `MCWal_stat`.

### Fairness

Goroutines that can run do run, and system calls return (weak fairness). A
goroutine that waits for `mu` gets it although others keep taking it (strong
fairness): Go's `RWMutex` admits waiting readers at each `Unlock` and blocks new
readers behind a waiting writer, and `Mutex` has a starvation mode. The sweeper
has a ticker, and waits for `writerMu` in the same way. Whoever begins a
transaction ends it: `View` and `Update` do so for every return and panic of
their function. Nobody is assumed to write, sync, compact, close or crash.

A compaction that has started ends, which also keeps the bound on its tail from
holding the sweeper back. `SweepBatchLimit` is as large as the number of keys
there: with a smaller limit, writes of keys that are already expired could keep
the sweeper busy for ever.

In `Replication` the follower keeps polling, a compaction ends, and `compactMu`,
a mutex with a starvation mode, does not pass the follower over for ever.
`Locks` needs no fairness: that no circle of waits forms is an invariant, and a
call consists of finitely many steps.

## Proofs

Everything is proved for any sets of keys, values, writers, transactions and
indexes and any bounds.

**Durability** (`GroupCommitTypes`, `GroupCommitDisk`, `GroupCommitProofs`):

- `TypeCorrect`, `OneCommitterLeads`, `SleepersAreWoken`, `SwapIsSound`,
  `LogComplete` without assumptions on the file system;
- `AcknowledgedIsDurable`, `ClosedIsDurable`, assuming that a failed fsync drops
  no pages and directory syncs succeed (`~DropsDirty`, `~SyncDirMayFail`);
- `Refinement`, that under SyncAlways and the same assumptions `GroupCommit`
  implements `DurableLog`.

The two assumptions are exactly what `MCGroupCommit_fsyncgate` and
`MCGroupCommit_syncdir` show to be needed.

The inductive invariant `DurabilityInv` has these parts. `LogInv`: what the live
log and the temporary file hold, phase by phase. `DirectoryInv`: which inode the
directory names in the cache and on disk while the swap is under way, and that
the file renamed over the log was complete on disk before. `DiskInv`: the disk
is never ahead of the cache. `WatermarkInv`: the watermark, the acknowledgements
and Close's result are backed by the disk. `LeaderInv` is the part that makes it
inductive: while a leader's handle is the live file, its fsync will reach at
least the commits it covers; once a compaction has swapped the file, those
commits are already on disk in the new one, so that even a failing fsync of the
retired handle lets the leader publish its cover. `AckedDurable` alone says
nothing about a leader on its way to the watermark and is not inductive. TLC
checked `DurabilityInv` before it was proved. `SwapIsSound` rests on `HealthyInv`:
from Phase B's second look to the swap `mu` is held, so what it saw stays true.

**Contents** (`DBStateProofs`, `TransactionsTypes`, `TransactionsProofs`,
`TransactionsLog`):

- `StoreTypes`, `DerivedTreesMirror` from `StoreInv`: types, lock ownership, and
  that every state anyone holds (live, snapshots, savepoints, a compaction's) is
  `Good`, that is, its derived trees mirror its data;
- `WaysToReadAgree`: a consequence for the read operations;
- `PendingIsExact` from `PendingInv`, which adds to `PendingExplainsState` that
  every savepoint is explained by a prefix of the pending records, so that
  `RollbackTo` cuts state and records at the same place;
- `LogRecovers` from `LogInv`: the log, and while a compaction runs also its
  snapshot followed by the tail, agree with the live state from now on. "From
  now on" is needed because a compaction drops what has expired, which is
  harmless only as time does not go back. The second half is what makes it
  inductive: it becomes the first at the swap;
- `SweeperIsInvisible`, and `StoreIsAMap`, the refinement of `TransactionalMap`,
  action by action from these invariants.

`replay` folds records over a state by a recursive function. What it does for
sequences of any length (that it distributes over concatenation, keeps states
`Good`, keeps states equal that agree) is proved in `DBStateProofs` by
induction, stated there as `SetInduction` on a set of naturals and derived from
their well-ordering.

**Shipping** (`ReplicationProofs`): `ShippingTypes` and `RangesNeverSplice` from
`ShipInv`, which adds who holds `compactMu` in which phase, that a range in
flight lies below `walSize` of a file that cannot be swapped, and that a
follower's epoch is never ahead of the log's. The bytes below `walSize` are
immutable within an epoch; that is why the copy needs no other lock.

**Only model-checked**: liveness (`WritersReturn`, `CloseReturns`,
`ExpiredAreSwept`, `CatchesUp`), which is out of the prover's
reach; the properties of `Wal`, `Locks`, `Scans` and `Backup`; and
`RestoresToAState`.

## Not modelled

- Codecs: conversions between a type and bytes, without state. Their errors
  return before anything changes.
- The ciphers: AES-GCM and HKDF are taken for what they claim to be.
- The byte structure within a field. A tear or damage within a field is `Junk`
  in its cell; a checksum matches only what it was computed over, so a CRC
  collision does not happen.
- The copy-on-write bookkeeping of the `btype` trees, a library: a snapshot is a
  value.
- The size thresholds of auto-compaction: when one starts is a choice.
- Calls against the documented usage: one `Tx` used by several goroutines, a
  write inside an iterator's loop or inside `Update`, `Close` by the owner of an
  open writable transaction, two processes on one file.
- A TTL that ends after the year 2262 wraps to a negative deadline. The code then
  stores the key without expiry, in memory and in the log alike, which the
  models include as a write with deadline 0.
