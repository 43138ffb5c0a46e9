------------------------------- MODULE Backup -------------------------------
(***************************************************************************)
(* Backup and BackupTo (backup.go), over a file system that may lose power *)
(* (fs.go): destPath and destPath + ".backup-tmp" name files, a file's     *)
(* unsynced cells and an unsynced directory may be lost.  Several calls    *)
(* may be in flight for the same destPath.                                 *)
(***************************************************************************)
EXTENDS LogFile

CONSTANTS Callers,     \* goroutines that call Backup
          NoFile,      \* what a name without a file refers to
          TrustsNil,   \* whether a nil counts although SyncDir failed
          MaxBackups   \* bound on the calls

ASSUME TrustsNilAssumption == TrustsNil \in BOOLEAN

VARIABLES
  dir,        \* the file each name refers to
  dirDisk,    \* the same after a power cut
  data,       \* the cells of each file
  synced,     \* how many of them survive a power cut
  pc,         \* where each call of Backup is
  handle,     \* the file it has open
  want,       \* the cells BackupTo captured the length of
  done,       \* the cells it has copied
  since,      \* how many states the database had gone through at the call
  captured,   \* what the calls captured, in any order
  promised,   \* since, of the last call whose nil its caller may rely on
  backups     \* calls so far

callVars == <<pc, handle, want, done, since>>
fsVars == <<dir, dirDisk, data, synced>>
vars == <<logVars, fsVars, callVars, captured, promised, backups>>

Names == {"dest", "tmp"}
Files == 0 .. MaxBackups          \* 0 is what dest holds before
Old == <<[old |-> 0]>>
Hole == [hole |-> 0]
-----------------------------------------------------------------------------
Init ==
  /\ LogInit
  /\ dir = [n \in Names |-> IF n = "dest" THEN 0 ELSE NoFile]
  /\ dirDisk = dir
  /\ data = [f \in Files |-> IF f = 0 THEN Old ELSE <<>>]
  /\ synced = [f \in Files |-> Len(data[f])]
  /\ pc = [c \in Callers |-> "idle"]
  /\ handle = [c \in Callers |-> NoFile]
  /\ want = [c \in Callers |-> <<>>]
  /\ done = [c \in Callers |-> 0]
  /\ since = [c \in Callers |-> 0]
  /\ captured = {}
  /\ promised = 0
  /\ backups = 0

Goes(c, to) == pc' = [pc EXCEPT ![c] = to]

\* Mutant: a file left by an earlier call is not truncated.
CreateOver(c) ==
  LET f == IF dir["tmp"] = NoFile THEN backups + 1 ELSE dir["tmp"] IN
  /\ pc[c] = "idle"
  /\ backups < MaxBackups
  /\ backups' = backups + 1
  /\ dir' = [dir EXCEPT !["tmp"] = f]
  /\ handle' = [handle EXCEPT ![c] = f]
  /\ since' = [since EXCEPT ![c] = Len(states)]
  /\ Goes(c, "created")
  /\ UNCHANGED <<logVars, dirDisk, data, synced, want, done, captured, promised>>

\* fs.Create: the file that has the name, truncated, or a new one.
Create(c) ==
  LET f == IF dir["tmp"] = NoFile THEN backups + 1 ELSE dir["tmp"] IN
  /\ pc[c] = "idle"
  /\ backups < MaxBackups
  /\ backups' = backups + 1
  /\ dir' = [dir EXCEPT !["tmp"] = f]
  /\ data' = [data EXCEPT ![f] = <<>>]
  /\ synced' = [synced EXCEPT ![f] = 0]
  /\ handle' = [handle EXCEPT ![c] = f]
  /\ since' = [since EXCEPT ![c] = Len(states)]
  /\ Goes(c, "created")
  /\ UNCHANGED <<logVars, dirDisk, want, done, captured, promised>>

\* A call that has returned.
Returns(c) ==
  /\ Goes(c, "idle")
  /\ handle' = [handle EXCEPT ![c] = NoFile]
  /\ want' = [want EXCEPT ![c] = <<>>]
  /\ done' = [done EXCEPT ![c] = 0]
  /\ since' = [since EXCEPT ![c] = 0]

\* discard, and the return of an error.
Discards(c) ==
  /\ dir' = [dir EXCEPT !["tmp"] = NoFile]
  /\ Returns(c)

Unlocks(owner) ==
  /\ compactMu = owner
  /\ compactMu' = Unlocked
  /\ UNCHANGED <<file, walSize, durable, fileEpoch, status, writeErr, snap, state, states,
                 rewritten, counters>>

\* Mutant: only the synced part of the log is captured.
CaptureStale(c) ==
  /\ pc[c] = "created"
  /\ compactMu = Unlocked
  /\ status = "open"
  /\ compactMu' = "backup"
  /\ want' = [want EXCEPT ![c] = SubSeq(file, 1, durable)]
  /\ done' = [done EXCEPT ![c] = 0]
  /\ captured' = captured \union {want'[c]}
  /\ Goes(c, "copying")
  /\ UNCHANGED <<file, walSize, durable, fileEpoch, status, writeErr, snap, state, states,
                 rewritten, counters, dir, dirDisk, data, synced, handle, since, promised, backups>>

\* Mutant: the copy goes on without compactMu.
CaptureUnlocked(c) ==
  /\ pc[c] = "created"
  /\ compactMu = Unlocked
  /\ status = "open"
  /\ want' = [want EXCEPT ![c] = SubSeq(file, 1, walSize)]
  /\ done' = [done EXCEPT ![c] = 0]
  /\ captured' = captured \union {want'[c]}
  /\ Goes(c, "copying")
  /\ UNCHANGED <<logVars, fsVars, handle, since, promised, backups>>

\* BackupTo takes compactMu and captures the log's size, or finds it closed.
Capture(c) ==
  /\ pc[c] = "created"
  /\ compactMu = Unlocked
  /\ \/ /\ status = "open"
        /\ compactMu' = "backup"
        /\ want' = [want EXCEPT ![c] = SubSeq(file, 1, walSize)]
        /\ done' = [done EXCEPT ![c] = 0]
        /\ captured' = captured \union {want'[c]}
        /\ Goes(c, "copying")
        /\ UNCHANGED <<dir, handle, since>>
     \/ /\ status # "open"
        /\ Discards(c)
        /\ UNCHANGED <<compactMu, captured>>
  /\ UNCHANGED <<file, walSize, durable, fileEpoch, status, writeErr, snap, state, states,
                 rewritten, counters, dirDisk, data, synced, promised, backups>>

\* A write past the end of a file leaves a hole.
WrittenAt(cells, at, cell) ==
  [i \in 1 .. (IF at > Len(cells) THEN at ELSE Len(cells)) |->
     IF i = at THEN cell ELSE IF i <= Len(cells) THEN cells[i] ELSE Hole]

\* One write of io.Copy at the handle's own offset.  It fails if Close has
\* closed the log under it, and may fail anyway.
Copy(c) ==
  LET f == handle[c]
      n == done[c] IN
  /\ pc[c] = "copying"
  /\ n < Len(want[c])
  /\ \/ /\ status # "closed"
        /\ data' = [data EXCEPT ![f] = WrittenAt(@, n + 1, file[n + 1])]
        /\ synced' = [synced EXCEPT ![f] = IF @ < n THEN @ ELSE n]
        /\ done' = [done EXCEPT ![c] = n + 1]
        /\ UNCHANGED <<logVars, dir, pc, handle, want, since>>
     \/ /\ Discards(c)
        /\ Unlocks("backup")
        /\ UNCHANGED <<data, synced>>
  /\ UNCHANGED <<dirDisk, captured, promised, backups>>

CopyEnd(c) ==
  /\ pc[c] = "copying"
  /\ done[c] = Len(want[c])
  /\ Goes(c, "copied")
  /\ Unlocks("backup")
  /\ UNCHANGED <<fsVars, handle, want, done, since, captured, promised, backups>>

Sync(c) ==
  /\ pc[c] = "copied"
  /\ \/ /\ synced' = [synced EXCEPT ![handle[c]] = Len(data[handle[c]])]
        /\ Goes(c, "synced")
        /\ UNCHANGED <<dir, handle, want, done, since>>
     \/ Discards(c) /\ UNCHANGED synced
  /\ UNCHANGED <<logVars, dirDisk, data, captured, promised, backups>>

\* fs.Rename fails if there is no file of that name.
Rename(c) ==
  /\ pc[c] = "synced"
  /\ \/ /\ dir["tmp"] # NoFile
        /\ dir' = [dest |-> dir["tmp"], tmp |-> NoFile]
        /\ Goes(c, "renamed")
        /\ UNCHANGED <<handle, want, done, since>>
     \/ Discards(c)
  /\ UNCHANGED <<logVars, dirDisk, data, synced, captured, promised, backups>>

\* SyncDir, whose error is ignored, and tmp.Close, whose error is returned.
SyncDir(c) ==
  /\ pc[c] = "renamed"
  /\ dirDisk' \in {dir, dirDisk}
  /\ \/ (dirDisk' = dir \/ TrustsNil) /\ promised' = since[c]
     \/ promised' = promised
  /\ Returns(c)
  /\ UNCHANGED <<logVars, dir, data, synced, captured, backups>>

\* Power is cut: the directory and the files fall back to what was synced, or
\* keep what was written.
Crash ==
  /\ LogCrash
  /\ dir' \in {dirDisk, dir} /\ dirDisk' = dir'
  /\ \E lost \in SUBSET {f \in Files : synced[f] < Len(data[f])} :
       data' = [f \in Files |-> IF f \in lost THEN SubSeq(data[f], 1, synced[f]) ELSE data[f]]
  /\ synced' = [f \in Files |-> Len(data'[f])]
  /\ pc' = [c \in Callers |-> "idle"]
  /\ handle' = [c \in Callers |-> NoFile]
  /\ want' = [c \in Callers |-> <<>>]
  /\ done' = [c \in Callers |-> 0]
  /\ since' = [c \in Callers |-> 0]
  /\ UNCHANGED <<captured, promised, backups>>

Reopen ==
  /\ LogOpen
  /\ \A c \in Callers : pc[c] = "idle"
  /\ UNCHANGED <<fsVars, callVars, captured, promised, backups>>

Step(c) == Create(c) \/ Capture(c) \/ Copy(c) \/ CopyEnd(c) \/ Sync(c) \/ Rename(c) \/ SyncDir(c)

Next ==
  \/ LogNext /\ UNCHANGED <<fsVars, callVars, captured, promised, backups>>
  \/ \E c \in Callers : Step(c)
  \/ Crash \/ Reopen

Spec == Init /\ [][Next]_vars
-----------------------------------------------------------------------------
(***************************************************************************)
(* Properties.                                                             *)
(***************************************************************************)
\* compactMu is held exactly while one call copies.
TypeOK ==
  /\ LogTypeOK
  /\ compactMu = "backup" <=> \E c \in Callers : pc[c] = "copying"
  /\ \A f \in Files : synced[f] <= Len(data[f])
  /\ \A c \in Callers : done[c] <= Len(want[c])

\* destPath holds what it held before or a complete copy of what some call
\* captured, at every moment and after a power cut at any moment.
DestWhole == data[dir["dest"]] \in {Old} \union captured

\* Once Backup has returned nil and its directory sync has succeeded, opening
\* destPath yields a state of the database no older than the call, with every
\* transaction committed before it whole, whatever was written, compacted,
\* closed or cut off since.  Backup does not say whether the directory sync
\* succeeded: a caller that trusts every nil may lose the backup to a power
\* cut (TrustsNil refutes it).
ReturnedBackupRestores ==
  promised > 0 =>
    \E i \in promised .. Len(states) : Replayed(data[dir["dest"]]) = states[i]

=============================================================================
