------------------------------ MODULE LogFile -------------------------------
(***************************************************************************)
(* The primary whose log file is shipped and backed up: commits append,    *)
(* Compact swaps the file, Close closes it under its readers, a power cut  *)
(* tears it (db.go, compact.go).  WalFormat has the bytes of a record;     *)
(* here a record is one cell, and a multi-op commit is a batch header and  *)
(* its members.  compactMu is what ReadLogRange and BackupTo share with    *)
(* Compact, so its owner is state.                                         *)
(***************************************************************************)
EXTENDS Naturals, Sequences, SequencesExt, FiniteSets

CONSTANTS Keys,            \* 1 .. n, in key order
          MaxCommits, MaxCompactions, MaxOpens   \* bounds

ASSUME KeysAssumption == Keys \subseteq Nat /\ IsFiniteSet(Keys)

VARIABLES
  file,        \* the cells of the log file
  walSize,     \* cells of whole appends
  durable,     \* cells that survive a power cut
  fileEpoch,   \* swaps since Open
  status,      \* "open", "closing" (closed is set), "closed" (the file too)
  writeErr,    \* "none", or "failed" after a torn append
  compactMu,   \* its owner
  snap,        \* what Compact froze: the state and the tail's start
  state,       \* the value of each key, 0 for none
  states,      \* every state the database has been in, in order
  rewritten,   \* cells of the file that one compaction wrote
  commits, compactions, opens   \* how often each happened

counters == <<commits, compactions, opens>>
logVars == <<file, walSize, durable, fileEpoch, status, writeErr, compactMu, snap,
             state, states, rewritten, counters>>
-----------------------------------------------------------------------------
Header == [header |-> 0]
NoState == [k \in Keys |-> 0]
NoSnap == [state |-> NoState, tailStart |-> 0]
Unlocked == "nobody"

\* The i-th key of a set, in key order.
KeyAt(ks, i) == CHOOSE k \in ks : Cardinality({j \in ks : j < k}) = i - 1

\* A set record for each key.
SetCells(st, ks) ==
  [i \in 1 .. Cardinality(ks) |-> [key |-> KeyAt(ks, i), val |-> st[KeyAt(ks, i)]]]

\* One append: a lone record, or a batch.
CommitCells(st, ks) ==
  (IF Cardinality(ks) > 1 THEN <<[batch |-> Cardinality(ks)]>> ELSE <<>>) \o SetCells(st, ks)

\* writeSnapshot, after the header.
writeSnapshot(st) == <<Header>> \o SetCells(st, {k \in Keys : st[k] # 0})

IsBatch(cell) == "batch" \in DOMAIN cell
IsSet(cell) == "key" \in DOMAIN cell

\* What opening a file yields, and the cells of it that are kept: a batch
\* counts only with all its members.
Recovered(f) ==
  LET from[i \in 1 .. Len(f) + 1] ==
        \* the cells applied from i on, and where they end
        IF i > Len(f) THEN [end |-> i - 1, sets |-> <<>>]
        ELSE IF IsBatch(f[i])
        THEN LET n == f[i].batch IN
             IF i + n > Len(f) THEN [end |-> i - 1, sets |-> <<>>]
             ELSE [from[i + n + 1] EXCEPT !.sets = SubSeq(f, i + 1, i + n) \o @]
        ELSE [from[i + 1] EXCEPT !.sets = SelectSeq(<<f[i]>>, IsSet) \o @]
  IN  from[1]

Apply(st, cell) == [st EXCEPT ![cell.key] = cell.val]
Replayed(f) == FoldLeft(Apply, NoState, Recovered(f).sets)
ValidLen(f) == Recovered(f).end
-----------------------------------------------------------------------------
LogInit ==
  /\ file = <<Header>> /\ walSize = 1 /\ durable = 1
  /\ fileEpoch = 0
  /\ status = "open" /\ writeErr = "none"
  /\ compactMu = Unlocked
  /\ snap = NoSnap
  /\ state = NoState /\ states = <<NoState>>
  /\ rewritten = 0
  /\ commits = 0 /\ compactions = 0 /\ opens = 0

canWrite == status = "open" /\ writeErr = "none"

\* A commit that writes the keys ks: the log first, then the state.
Write(ks) ==
  LET st == [k \in Keys |-> IF k \in ks THEN commits + 1 ELSE state[k]] IN
  /\ canWrite
  /\ commits < MaxCommits
  /\ commits' = commits + 1
  /\ file' = file \o CommitCells(st, ks)
  /\ walSize' = Len(file')
  /\ state' = st /\ states' = Append(states, st)
  /\ UNCHANGED <<durable, fileEpoch, status, writeErr, compactMu, snap, rewritten,
                 compactions, opens>>

\* Mutant: the failed append is forgotten.
WriteFailsUnnoticed(ks) ==
  LET cells == CommitCells([k \in Keys |-> commits + 1], ks) IN
  /\ canWrite
  /\ commits < MaxCommits
  /\ commits' = commits + 1
  /\ \E n \in 0 .. Len(cells) - 1 : file' = file \o SubSeq(cells, 1, n)
  /\ UNCHANGED <<walSize, durable, fileEpoch, status, writeErr, compactMu, snap, state, states,
                 rewritten, compactions, opens>>

\* The append fails part of the way; walSize does not move.
WriteFails(ks) ==
  LET cells == CommitCells([k \in Keys |-> commits + 1], ks) IN
  /\ canWrite
  /\ commits < MaxCommits
  /\ commits' = commits + 1
  /\ writeErr' = "failed"
  /\ \E n \in 0 .. Len(cells) - 1 : file' = file \o SubSeq(cells, 1, n)
  /\ UNCHANGED <<walSize, durable, fileEpoch, status, compactMu, snap, state, states,
                 rewritten, compactions, opens>>

\* An fsync of the log: a group fsync, Sync, backgroundSync.
Fsync ==
  /\ status = "open"
  /\ durable # Len(file)
  /\ durable' = Len(file)
  /\ UNCHANGED <<file, walSize, fileEpoch, status, writeErr, compactMu, snap, state, states,
                 rewritten, counters>>

\* Compact up to the end of Phase A.
CompactBegin ==
  /\ compactMu = Unlocked
  /\ canWrite
  /\ compactions < MaxCompactions
  /\ compactMu' = "compact"
  /\ compactions' = compactions + 1
  /\ snap' = [state |-> state, tailStart |-> walSize]
  /\ UNCHANGED <<file, walSize, durable, fileEpoch, status, writeErr, state, states,
                 rewritten, commits, opens>>

\* Phase B: the tail is spliced in, the new file is synced and swapped.  A
\* closed or failed log, or an error, leaves the old file.
CompactEnd ==
  /\ compactMu = "compact"
  /\ compactMu' = Unlocked
  /\ \/ /\ canWrite
        /\ file' = writeSnapshot(snap.state) \o SubSeq(file, snap.tailStart + 1, walSize)
        /\ walSize' = Len(file') /\ durable' = Len(file') /\ rewritten' = Len(file')
        /\ fileEpoch' = fileEpoch + 1
     \/ UNCHANGED <<file, walSize, durable, rewritten, fileEpoch>>
  /\ snap' = NoSnap
  /\ UNCHANGED <<status, writeErr, state, states, counters>>

\* Close sets closed; it does not take compactMu.
CloseBegin ==
  /\ status = "open"
  /\ status' = "closing"
  /\ UNCHANGED <<file, walSize, durable, fileEpoch, writeErr, compactMu, snap, state, states,
                 rewritten, counters>>

\* The final sync, which may fail, and the close of the file.
CloseEnd ==
  /\ status = "closing"
  /\ status' = "closed"
  /\ durable' \in {durable, Len(file)}
  /\ UNCHANGED <<file, walSize, fileEpoch, writeErr, compactMu, snap, state, states, rewritten,
                 counters>>

\* Power is cut: the cells not yet synced may be gone, from any of them on.
LogCrash ==
  /\ opens < MaxOpens   \* it is opened again
  /\ status' = "closed"
  /\ \E n \in durable .. Len(file) : file' = SubSeq(file, 1, n) /\ durable' = n
  /\ compactMu' = Unlocked /\ snap' = NoSnap
  /\ UNCHANGED <<walSize, fileEpoch, writeErr, state, states, rewritten,
                 counters>>

\* Open replays the file and cuts off a torn tail; epochs restart at zero.
\* Calls on the old handle have returned by then.
LogOpen ==
  /\ status = "closed" /\ compactMu = Unlocked
  /\ opens < MaxOpens
  /\ opens' = opens + 1
  /\ status' = "open" /\ writeErr' = "none"
  /\ fileEpoch' = 0
  /\ \E n \in 0 .. Len(file) : n = ValidLen(file) /\ file' = SubSeq(file, 1, n)
  /\ walSize' = Len(file')
  /\ durable' = IF durable < Len(file') THEN durable ELSE Len(file')
  /\ state' = Replayed(file')
  /\ states' = Append(states, state')
  /\ UNCHANGED <<compactMu, snap, rewritten, commits, compactions>>

Commit == \E ks \in SUBSET Keys \ {{}} : Write(ks) \/ WriteFails(ks)

LogNext ==
  \/ Commit \/ Fsync \/ CompactBegin \/ CompactEnd \/ CloseBegin \/ CloseEnd

\* A failed append leaves its remains beyond walSize, and nothing follows
\* them.
LogTypeOK ==
  /\ status \in {"open", "closing", "closed"}
  /\ status = "open" => walSize <= Len(file) /\ (writeErr = "none" => walSize = Len(file))
  /\ durable <= Len(file)
  /\ compactMu = "compact" => snap.tailStart <= walSize

=============================================================================
