---------------------------- MODULE Transactions ----------------------------
(***************************************************************************)
(* The in-memory store: direct writes, transactions with savepoints, the   *)
(* expiry sweeper, index registration and compaction, all over one live    *)
(* dbState (db.go, tx.go, savepoint.go, ttl.go, index.go, compact.go).     *)
(* Every action is one critical section of db.mu.  When the log's bytes    *)
(* reach the disk is the subject of GroupCommit; here the log is the state *)
(* that replaying it from the start yields.                                *)
(***************************************************************************)
EXTENDS DBState

CONSTANTS Txs,              \* transaction handles callers hold at once
          Compacts,         \* whether Compact is called
          SweepBatchLimit,  \* keys per sweep (512 in ttl.go)
          MaxClock,         \* bound on time, and on deadlines
          MaxPending,       \* bound on the records of one transaction
          MaxSaves,         \* bound on a transaction's savepoints
          MaxTail,          \* bound on the records logged during one compaction
          MaxRestarts       \* bound on the times the database is opened again

ASSUME TxsAssumption == "free" \notin Txs   \* a value of writerMu
ASSUME BoundsAssumption ==
  /\ Compacts \in BOOLEAN
  /\ {SweepBatchLimit, MaxClock, MaxPending, MaxSaves, MaxTail, MaxRestarts} \subseteq Nat

VARIABLES
  db,        \* "open", "failed" (writeErr is set) or "closed"
  state,     \* db.state
  logged,    \* what replaying the log yields
  writerMu,  \* the transaction holding writerMu, or "free"
  mode,      \* per handle: "done", "read" or "write"
  view,      \* tx.state
  pending,   \* tx.pending, as records
  saves,     \* tx.saves, oldest first
  sweep,     \* what sweepExpired found: its now and its keys
  compact,   \* Compact's phase: "idle", "stream" or "tail"
  snap,      \* Compact's frozen snapshot, then what the temp file replays to
  tail,      \* records appended to the log since tailStart
  clock,     \* the wall clock
  restarts   \* times the database was opened again

dbVars == <<db, state, logged>>
txVars == <<writerMu, mode, view, pending, saves>>
compactVars == <<compact, snap, tail>>
timeVars == <<clock, restarts>>
vars == <<dbVars, txVars, sweep, compactVars, timeVars>>

NoSweep == [now |-> 0, keys |-> {}]

\* Each variable holds a value of the Go type it stands for, the writer lock
\* is held by a writable transaction or by nobody, and pending records and
\* savepoints are those of open transactions.
TypeOK ==
  /\ db \in {"open", "failed", "closed"}
  /\ state \in States /\ logged \in States
  /\ writerMu \in Txs \union {"free"}
  /\ mode \in [Txs -> {"done", "read", "write"}]
  /\ \A t \in Txs : mode[t] = "write" <=> writerMu = t
  /\ view \in [Txs -> States]
  /\ pending \in [Txs -> Seq(Records)]
  /\ saves \in [Txs -> Seq([state : States, pendingLen : Nat])]
  /\ \A t \in Txs : \A i \in DOMAIN saves[t] : saves[t][i].pendingLen <= Len(pending[t])
  /\ sweep \in [now : Nat, keys : SUBSET Keys]
  /\ compact \in {"idle", "stream", "tail"}
  /\ snap \in States
  /\ tail \in Seq(Records)
  /\ clock \in Nat /\ restarts \in Nat

Init ==
  /\ db = "open"
  /\ state = newDBState
  /\ logged = newDBState
  /\ writerMu = "free"
  /\ mode = [t \in Txs |-> "done"]
  /\ view = [t \in Txs |-> newDBState]
  /\ pending = [t \in Txs |-> <<>>]
  /\ saves = [t \in Txs |-> <<>>]
  /\ sweep = NoSweep
  /\ compact = "idle"
  /\ snap = newDBState
  /\ tail = <<>>
  /\ clock = 0
  /\ restarts = 0
-----------------------------------------------------------------------------
(***************************************************************************)
(* The log.  A record appended between a compaction's two phases is also   *)
(* part of the tail that the compaction copies.                            *)
(***************************************************************************)
canWrite == db = "open"

writeLog(recs) ==
  /\ canWrite
  /\ logged' = replay(logged, recs)
  /\ IF compact = "idle" THEN tail' = tail
     ELSE Len(tail) + Len(recs) <= MaxTail /\ tail' = tail \o recs
  /\ db' = db

\* The append fails: replay drops the torn bytes, and writeErr is sticky.
writeLogFails ==
  /\ canWrite
  /\ db' = "failed"
  /\ UNCHANGED <<state, logged, tail>>

\* The records that delete a set of keys, in key order.
DeleteOps(ks) ==
  LET sorted == CHOOSE q \in [1 .. Cardinality(ks) -> ks] :
                  \A i, j \in 1 .. Cardinality(ks) : i < j => q[i] < q[j]
  IN  [i \in 1 .. Cardinality(ks) |-> DeleteOp(sorted[i])]
-----------------------------------------------------------------------------
(***************************************************************************)
(* Direct writes, which take writerMu for the one operation.  The deadline *)
(* of a SetTTL and the now of a Delete are read before writerMu is, so     *)
(* they may lie any time in the past.                                      *)
(***************************************************************************)
\* Mutant: a direct write does not wait for the writer lock.
SetUnlocked(k, v, deadline) ==
  /\ writeLog(<<SetOp(k, v, deadline)>>)
  /\ state' = set(state, k, v, deadline)
  /\ UNCHANGED <<txVars, sweep, compact, snap, timeVars>>

Set(k, v, deadline) ==
  /\ writerMu = "free"
  /\ writeLog(<<SetOp(k, v, deadline)>>)
  /\ state' = set(state, k, v, deadline)
  /\ UNCHANGED <<txVars, sweep, compact, snap, timeVars>>

\* Delete and the existed it returns.
Delete(k, now, existed) ==
  /\ writerMu = "free"
  /\ Contains(state, k)
  /\ existed = ~expired(state, k, now)
  /\ writeLog(<<DeleteOp(k)>>)
  /\ state' = delete(state, k)
  /\ UNCHANGED <<txVars, sweep, compact, snap, timeVars>>

\* A direct write whose append fails; a record is lost, nothing is applied.
WriteFails ==
  /\ writerMu = "free"
  /\ writeLogFails
  /\ UNCHANGED <<txVars, sweep, compact, snap, timeVars>>

CreateIndex(n) ==
  /\ writerMu = "free"
  /\ db # "closed"
  /\ n \notin DOMAIN state.idx
  /\ state' = addIndex(state, n)
  /\ UNCHANGED <<db, logged, txVars, sweep, compactVars, timeVars>>

DropIndex(n) ==
  /\ writerMu = "free"
  /\ db # "closed"
  /\ n \in DOMAIN state.idx
  /\ state' = dropIndex(state, n)
  /\ UNCHANGED <<db, logged, txVars, sweep, compactVars, timeVars>>
-----------------------------------------------------------------------------
(***************************************************************************)
(* Transactions.                                                           *)
(***************************************************************************)
Begin(t, writable) ==
  /\ mode[t] = "done"
  /\ IF writable THEN writerMu = "free" /\ canWrite /\ writerMu' = t
                 ELSE db # "closed" /\ writerMu' = writerMu
  /\ mode' = [mode EXCEPT ![t] = IF writable THEN "write" ELSE "read"]
  /\ view' = [view EXCEPT ![t] = state]
  /\ UNCHANGED <<dbVars, pending, saves, sweep, compactVars, timeVars>>

\* setInternal.
TxSet(t, k, v, deadline) ==
  /\ mode[t] = "write"
  /\ Len(pending[t]) < MaxPending
  /\ pending' = [pending EXCEPT ![t] = Append(@, SetOp(k, v, deadline))]
  /\ view' = [view EXCEPT ![t] = set(@, k, v, deadline)]
  /\ UNCHANGED <<dbVars, writerMu, mode, saves, sweep, compactVars, timeVars>>

TxDelete(t, k) ==
  /\ mode[t] = "write"
  /\ Contains(view[t], k)
  /\ Len(pending[t]) < MaxPending
  /\ pending' = [pending EXCEPT ![t] = Append(@, DeleteOp(k))]
  /\ view' = [view EXCEPT ![t] = delete(@, k)]
  /\ UNCHANGED <<dbVars, writerMu, mode, saves, sweep, compactVars, timeVars>>

\* Every present key of [min, max), expired or not.
DeleteRange(t, min, max) ==
  LET ks == {k \in Keys : Contains(view[t], k) /\ min <= k /\ k < max} IN
  /\ mode[t] = "write"
  /\ Len(pending[t]) + Cardinality(ks) <= MaxPending
  /\ pending' = [pending EXCEPT ![t] = @ \o DeleteOps(ks)]
  /\ view' = [view EXCEPT ![t] = replay(@, DeleteOps(ks))]
  /\ UNCHANGED <<dbVars, writerMu, mode, saves, sweep, compactVars, timeVars>>

Savepoint(t) ==
  /\ mode[t] # "done"
  /\ Len(saves[t]) < MaxSaves
  /\ saves' = [saves EXCEPT ![t] =
                 Append(@, [state |-> view[t], pendingLen |-> Len(pending[t])])]
  /\ UNCHANGED <<dbVars, writerMu, mode, view, pending, sweep, compactVars, timeVars>>

\* Mutant: the records after the savepoint stay pending.
RollbackToKeepingPending(t, i) ==
  /\ mode[t] # "done"
  /\ i \in DOMAIN saves[t]
  /\ view' = [view EXCEPT ![t] = saves[t][i].state]
  /\ saves' = [saves EXCEPT ![t] = SubSeq(@, 1, i)]
  /\ UNCHANGED <<dbVars, writerMu, mode, pending, sweep, compactVars, timeVars>>

\* The i-th outstanding savepoint; later ones are destroyed, this one stays.
RollbackTo(t, i) ==
  /\ mode[t] # "done"
  /\ i \in DOMAIN saves[t]
  /\ view' = [view EXCEPT ![t] = saves[t][i].state]
  /\ saves' = [saves EXCEPT ![t] = SubSeq(@, 1, i)]
  /\ pending' = [pending EXCEPT ![t] = SubSeq(@, 1, saves[t][i].pendingLen)]
  /\ UNCHANGED <<dbVars, writerMu, mode, sweep, compactVars, timeVars>>

Release(t, i) ==
  /\ mode[t] # "done"
  /\ i \in DOMAIN saves[t]
  /\ saves' = [saves EXCEPT ![t] = SubSeq(@, 1, i - 1)]
  /\ UNCHANGED <<dbVars, writerMu, mode, view, pending, sweep, compactVars, timeVars>>

\* Mutant: writerMu stays locked.
finishLocked(t) ==
  /\ mode' = [mode EXCEPT ![t] = "done"]
  /\ view' = [view EXCEPT ![t] = newDBState]
  /\ pending' = [pending EXCEPT ![t] = <<>>]
  /\ saves' = [saves EXCEPT ![t] = <<>>]
  /\ writerMu' = writerMu

\* The handle is finished: snapshot and savepoints go, writerMu is given up.
finish(t) ==
  /\ mode' = [mode EXCEPT ![t] = "done"]
  /\ view' = [view EXCEPT ![t] = newDBState]
  /\ pending' = [pending EXCEPT ![t] = <<>>]
  /\ saves' = [saves EXCEPT ![t] = <<>>]
  /\ writerMu' = IF mode[t] = "write" THEN "free" ELSE writerMu

\* Commit of a transaction with records: one append, one pointer swap.
Commit(t) ==
  /\ mode[t] = "write"
  /\ pending[t] # <<>>
  /\ writeLog(pending[t])
  /\ state' = view[t]
  /\ finish(t)
  /\ UNCHANGED <<sweep, compact, snap, timeVars>>

CommitFails(t) ==
  /\ mode[t] = "write"
  /\ pending[t] # <<>>
  /\ writeLogFails
  /\ finish(t)
  /\ UNCHANGED <<sweep, compact, snap, timeVars>>

\* Rollback, from the caller or from Update after an error or a panic; and
\* the Commit of a transaction that is read-only, is empty or cannot write.
Rollback(t) ==
  /\ mode[t] # "done"
  /\ finish(t)
  /\ UNCHANGED <<dbVars, sweep, compactVars, timeVars>>
-----------------------------------------------------------------------------
(***************************************************************************)
(* The sweeper.  It collects the earliest expired entries under a read     *)
(* lock, and deletes in a transaction of its own.  That transaction holds  *)
(* writerMu throughout and depends on nothing but the live state, so it is *)
(* one step.                                                               *)
(***************************************************************************)
Due == {e \in state.exp : e[1] <= clock}

Earlier(e, f) == e[1] < f[1] \/ (e[1] = f[1] /\ e[2] < f[2])

\* The code reads the clock just before it takes the read lock.  An earlier
\* reading finds fewer keys, and SweepUpdate compares with the same one.
SweepScan ==
  LET first == {e \in Due : Cardinality({f \in Due : Earlier(f, e)}) < SweepBatchLimit} IN
  /\ db # "closed"
  /\ sweep = NoSweep
  /\ Due # {}
  /\ sweep' = [now |-> clock, keys |-> {e[2] : e \in first}]
  /\ UNCHANGED <<dbVars, txVars, compactVars, timeVars>>

\* Mutant: the scan is trusted.
StillDueUnchecked == sweep.keys

\* Keys whose deadline moved or was cleared since the scan are left alone.
StillDue == {k \in sweep.keys : state.ttl[k] > 0 /\ state.ttl[k] <= sweep.now}

SweepUpdate ==
  /\ sweep # NoSweep
  /\ writerMu = "free"
  /\ StillDue # {}
  /\ writeLog(DeleteOps(StillDue))
  /\ state' = replay(state, DeleteOps(StillDue))
  /\ sweep' = NoSweep
  /\ UNCHANGED <<txVars, compact, snap, timeVars>>

\* An empty transaction, a failed append, or Begin's refusal.
SweepNothing ==
  /\ sweep # NoSweep
  /\ writerMu = "free"
  /\ \/ StillDue = {} /\ UNCHANGED <<dbVars, tail>>
     \/ StillDue # {} /\ writeLogFails
     \/ ~canWrite /\ UNCHANGED <<dbVars, tail>>
  /\ sweep' = NoSweep
  /\ UNCHANGED <<txVars, compact, snap, timeVars>>
-----------------------------------------------------------------------------
(***************************************************************************)
(* Compaction, as far as the contents of the log go.                       *)
(***************************************************************************)
CompactStart ==
  /\ Compacts
  /\ compact = "idle"
  /\ canWrite
  /\ compact' = "stream"
  /\ snap' = state
  /\ tail' = <<>>
  /\ UNCHANGED <<dbVars, txVars, sweep, timeVars>>

\* What replaying a snapshot's records yields: a set record for each key
\* that is not expired when the stream starts, with its deadline.
written(s, now) ==
  LET kept == {k \in Keys : Contains(s, k) /\ ~expired(s, k, now)} IN
  [data |-> [k \in Keys |-> IF k \in kept THEN s.data[k] ELSE NoValue],
   ttl  |-> [k \in Keys |-> IF k \in kept THEN s.ttl[k] ELSE 0],
   exp  |-> {<<s.ttl[k], k>> : k \in {j \in kept : s.ttl[j] > 0}},
   idx  |-> [n \in {} |-> {}]]

writeSnapshot ==
  /\ compact = "stream"
  /\ compact' = "tail"
  /\ snap' = written(snap, clock)
  /\ UNCHANGED <<dbVars, txVars, sweep, tail, timeVars>>

CompactIdle == compact' = "idle" /\ snap' = newDBState /\ tail' = <<>>

\* Mutant: the tail is not spliced in.
CompactSwapWithoutTail ==
  /\ compact = "tail"
  /\ canWrite
  /\ logged' = snap
  /\ CompactIdle
  /\ UNCHANGED <<db, state, txVars, sweep, timeVars>>

\* Phase B: the tail is spliced in and the new file becomes the log.
CompactSwap ==
  /\ compact = "tail"
  /\ canWrite
  /\ logged' = replay(snap, tail)
  /\ CompactIdle
  /\ UNCHANGED <<db, state, txVars, sweep, timeVars>>

\* An error on the way, or Phase B's refusal of a closed or failed database.
CompactAbort ==
  /\ compact # "idle"
  /\ CompactIdle
  /\ UNCHANGED <<dbVars, txVars, sweep, timeVars>>
-----------------------------------------------------------------------------
Close ==
  /\ db # "closed"
  /\ db' = "closed"
  /\ UNCHANGED <<state, logged, txVars, sweep, compactVars, timeVars>>

\* Open after a Close or a crash: handles, indexes and the temp file are gone.
Open ==
  /\ restarts < MaxRestarts
  /\ restarts' = restarts + 1
  /\ db' = "open"
  /\ state' = logged
  /\ logged' = logged
  /\ writerMu' = "free"
  /\ mode' = [t \in Txs |-> "done"]
  /\ view' = [t \in Txs |-> newDBState]
  /\ pending' = [t \in Txs |-> <<>>]
  /\ saves' = [t \in Txs |-> <<>>]
  /\ sweep' = NoSweep
  /\ CompactIdle
  /\ clock' = clock

Tick ==
  /\ clock < MaxClock
  /\ clock' = clock + 1
  /\ UNCHANGED <<dbVars, txVars, sweep, compactVars, restarts>>

DirectStep ==
  \/ \E k \in Keys, v \in Values, deadline \in 0 .. MaxClock : Set(k, v, deadline)
  \/ \E k \in Keys, now \in 0 .. clock, existed \in BOOLEAN : Delete(k, now, existed)
  \/ WriteFails
  \/ \E n \in Names : CreateIndex(n) \/ DropIndex(n)

TxStep(t) ==
  \/ Begin(t, TRUE) \/ Begin(t, FALSE)
  \/ \E k \in Keys, v \in Values, deadline \in {0} \union (clock + 1 .. MaxClock) :
       TxSet(t, k, v, deadline)
  \/ \E k \in Keys : TxDelete(t, k)
  \/ \E min \in Keys, max \in Keys : DeleteRange(t, min, max + 1)
  \/ Savepoint(t)
  \/ \E i \in 1 .. MaxSaves : RollbackTo(t, i) \/ Release(t, i)
  \/ Commit(t) \/ CommitFails(t) \/ Rollback(t)

SweepStep == SweepScan \/ SweepUpdate \/ SweepNothing

CompactStep == CompactStart \/ writeSnapshot \/ CompactSwap \/ CompactAbort

Next ==
  \/ DirectStep
  \/ \E t \in Txs : TxStep(t)
  \/ SweepStep
  \/ CompactStep
  \/ Close \/ Open
  \/ Tick

Spec == Init /\ [][Next]_vars
-----------------------------------------------------------------------------
(***************************************************************************)
(* Properties.                                                             *)
(***************************************************************************)
\* Every state a reader, a transaction or a savepoint can be given.
AllStates ==
  {state, logged, snap} \union {view[t] : t \in Txs}
    \union UNION {{saves[t][i].state : i \in DOMAIN saves[t]} : t \in Txs}

\* The derived trees agree with the primary tree (the comment on dbState:
\* "data, TTLs, and indexes always change atomically together") in the live
\* state, in every transaction's and savepoint's state, and after replay.
Mirrored == \A s \in AllStates : Mirror(s)

\* The ways to read agree at every time: an index scan yields exactly the
\* pairs Get returns, and LiveLen, which counts down from the tree's size by
\* the deadlines passed, counts them.
ReadsAgree ==
  \A s \in AllStates, now \in 0 .. MaxClock :
    LET pairs == {<<k, get(s, k, now)>> : k \in {j \in Keys : get(s, j, now) # NoValue}} IN
    /\ liveLen(s, now) = Cardinality(pairs)
    /\ \A n \in DOMAIN s.idx : iterIndexTree(s, n, now) = pairs

\* A writable transaction's state is the live state plus exactly the records
\* it will log, and so is each of its savepoints: no write, sweep or index
\* registration slips under an open transaction and is lost when Commit swaps
\* the state in, and RollbackTo takes back the records with the changes.
PendingExplainsState ==
  \A t \in Txs : mode[t] = "write" =>
    /\ view[t] = replay(state, pending[t])
    /\ \A i \in DOMAIN saves[t] :
         saves[t][i].state = replay(state, SubSeq(pending[t], 1, saves[t][i].pendingLen))

\* Replaying the log gives what readers see now and later: a crash, and a
\* compaction that drops expired keys while writes go on, neither lose a
\* visible key nor bring one back.
LogReplays == \A now \in clock .. MaxClock : SameAt(logged, state, now)

\* The store behaves as the transactional map: readers and transactions see
\* snapshots, a commit publishes all of its changes and undoes nobody's, and
\* compaction, the sweeper, index registration, failed appends, Close and
\* Open change nothing that can be read.
TM == INSTANCE TransactionalMap WITH
        Absent <- <<NoValue, 0>>,
        map <- View(state, clock),
        private <- [t \in Txs |-> View(view[t], clock)],
        now <- clock

ImplementsTransactionalMap == TM!Spec

\* A sweep changes nothing a reader can see, though keys may have been given
\* new deadlines between its scan and its transaction.
SweepsOnlyExpired == [][SweepUpdate => SameAt(state, state', clock)]_vars

\* Delete reports whether the key was visible: "An expired-but-unswept key is
\* physically removed but reported as absent" (db.go).
DeleteReportsVisible ==
  [][\A k \in Keys, now \in 0 .. clock :
       Delete(k, now, TRUE) => get(state, k, clock) # NoValue]_vars

\* An expired key is physically removed in the end, while the database stays
\* open (the comment on SetTTL: "later removed by the background sweeper").
ExpiredAreSwept ==
  \A k \in Keys : (expired(state, k, clock) /\ db = "open")
                    ~> (~expired(state, k, clock) \/ db # "open")

\* The sweeper runs on a ticker, writerMu is a fair mutex, whoever begins a
\* transaction finishes it, and a compaction ends.
Fairness ==
  /\ WF_vars(SweepScan)
  /\ SF_vars(SweepUpdate \/ SweepNothing)
  /\ \A t \in Txs : WF_vars(Commit(t) \/ CommitFails(t) \/ Rollback(t))
  /\ WF_vars(writeSnapshot \/ CompactSwap \/ CompactAbort)

FairSpec == Spec /\ Fairness

=============================================================================
