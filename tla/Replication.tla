---------------------------- MODULE Replication -----------------------------
(***************************************************************************)
(* Log shipping (replication.go): LogState and ReadLogRange, and the       *)
(* follower the package comment describes, which copies the log range by   *)
(* range and starts a new generation when the epoch changes and on every   *)
(* Open.                                                                   *)
(***************************************************************************)
EXTENDS LogFile

CONSTANT MaxRange   \* cells one ReadLogRange asks for

ASSUME MaxRangeAssumption == MaxRange \in Nat

VARIABLES
  epoch,     \* the epoch of the follower's generation
  replica,   \* the cells it has copied
  base,      \* the rewritten part of that generation's file
  reading    \* the cells the ReadLogRange in flight will copy

followerVars == <<epoch, replica, base, reading>>
vars == <<logVars, followerVars>>

Idle == 0
-----------------------------------------------------------------------------
Init ==
  /\ LogInit
  /\ epoch = 0 /\ replica = <<>> /\ base = 0 /\ reading = Idle

\* A new generation from offset zero, at the epoch LogState gives.
NewGeneration ==
  /\ epoch' = fileEpoch'
  /\ replica' = <<>>
  /\ base' = rewritten'

\* LogState finds another epoch than the follower's.
LogState ==
  /\ reading = Idle
  /\ status = "open" /\ fileEpoch # epoch
  /\ UNCHANGED logVars
  /\ NewGeneration
  /\ UNCHANGED reading

\* Mutant: one cell too few.
RangeLenShort(from) == IF MaxRange < walSize - from - 1 THEN MaxRange ELSE walSize - from - 1

\* Mutant: up to the end of the file, the remains of a failed append included.
RangeLenOfFile(from) == IF MaxRange < Len(file) - from THEN MaxRange ELSE Len(file) - from

\* How much ReadLogRange copies.
RangeLen(from) == IF MaxRange < walSize - from THEN MaxRange ELSE walSize - from

\* Mutant: the epoch is not compared.
ReadBeginUnchecked ==
  /\ reading = Idle
  /\ compactMu = Unlocked
  /\ status = "open"
  /\ RangeLen(Len(replica)) > 0
  /\ reading' = RangeLen(Len(replica))
  /\ compactMu' = "read"
  /\ UNCHANGED <<file, walSize, durable, fileEpoch, status, writeErr, snap, state, states,
                 rewritten, counters, epoch, replica, base>>

\* ReadLogRange takes compactMu, compares the epoch and captures the size.
\* A refusal and an empty range change nothing.
ReadBegin ==
  /\ reading = Idle
  /\ compactMu = Unlocked
  /\ status = "open"
  /\ fileEpoch = epoch
  /\ RangeLen(Len(replica)) > 0
  /\ reading' = RangeLen(Len(replica))
  /\ compactMu' = "read"
  /\ UNCHANGED <<file, walSize, durable, fileEpoch, status, writeErr, snap, state, states,
                 rewritten, counters, epoch, replica, base>>

\* The copy, with no lock but compactMu.  Close may close the file under it,
\* and then it copies less.
ReadEnd ==
  /\ reading # Idle
  /\ \E n \in 0 .. reading :
       /\ n < reading => status = "closed"
       /\ replica' = replica \o SubSeq(file, Len(replica) + 1, Len(replica) + n)
  /\ reading' = Idle
  /\ compactMu' = Unlocked
  /\ UNCHANGED <<file, walSize, durable, fileEpoch, status, writeErr, snap, state, states,
                 rewritten, counters, epoch, base>>

Crash ==
  /\ LogCrash
  /\ reading' = Idle
  /\ UNCHANGED <<epoch, replica, base>>

\* Epochs mean nothing across Opens, so the follower's duty, which the package
\* comment states and no code enforces, is a new generation on every Open.  It
\* asks nothing of the new database before that, so the two are one step.
Reopen ==
  /\ LogOpen
  /\ NewGeneration
  /\ UNCHANGED reading

Next ==
  \/ LogNext /\ UNCHANGED followerVars
  \/ LogState \/ ReadBegin \/ ReadEnd
  \/ Crash \/ Reopen

Spec == Init /\ [][Next]_vars

\* The follower polls forever, a compaction ends, and compactMu, a Go mutex,
\* does not starve the follower.
FairSpec ==
  /\ Spec
  /\ WF_vars(LogState) /\ SF_vars(ReadBegin) /\ WF_vars(ReadEnd)
  /\ WF_vars(CompactEnd /\ UNCHANGED followerVars)
-----------------------------------------------------------------------------
(***************************************************************************)
(* Properties.                                                             *)
(***************************************************************************)
\* A ReadLogRange in flight owns compactMu.
TypeOK ==
  /\ LogTypeOK
  /\ reading # Idle <=> compactMu = "read"
  /\ reading <= MaxRange

\* ReadLogRange never splices bytes of two files: at the log's own epoch,
\* the replica is a prefix of the log, whatever was compacted meanwhile; so
\* a follower is never beyond the end of it.
NeverSpliced ==
  status = "open" /\ epoch = fileEpoch =>
    /\ Len(replica) <= walSize
    /\ \A i \in 1 .. Len(replica) : replica[i] = file[i]

\* A replica that holds the rewritten part of its file restores to a state
\* the database was in, with no transaction in part, though the log may
\* since have been swapped, torn by a power cut or closed under the copy.
RestoresToAState ==
  Len(replica) >= base => Replayed(replica) \in {states[i] : i \in DOMAIN states}

\* Any generation, complete or not, restores to such a state.
EveryGenerationRestores == Replayed(replica) \in {states[i] : i \in DOMAIN states}

\* A follower of a database that stays open ends up with the whole log, since
\* writes and compactions come to an end.
HasWholeLog == status = "open" /\ epoch = fileEpoch /\ replica = SubSeq(file, 1, walSize)
CatchesUp == <>[](status = "open") => <>[]HasWholeLog

=============================================================================
