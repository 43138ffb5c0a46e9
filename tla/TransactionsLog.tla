-------------------------- MODULE TransactionsLog ---------------------------
(***************************************************************************)
(* The log replays to what readers see, the sweeper removes nothing        *)
(* visible, and the store is a transactional map, for any keys, values,    *)
(* indexes, handles and bounds.                                            *)
(***************************************************************************)
EXTENDS TransactionsProofs

-----------------------------------------------------------------------------
(***************************************************************************)
(* States that no reader tells apart from some time on.                    *)
(***************************************************************************)
Same(s, t, from) == \A now \in Nat : from <= now => SameAt(s, t, now)

LEMMA SameEquiv ==
  ASSUME NEW s, NEW t, NEW u, NEW from
  PROVE  /\ Same(s, s, from)
         /\ Same(s, t, from) => Same(t, s, from)
         /\ Same(s, t, from) /\ Same(t, u, from) => Same(s, u, from)
BY DEF Same, SameAt

LEMMA SameReplay ==
  ASSUME NEW s \in Good, NEW t \in Good, NEW from \in Nat, Same(s, t, from),
         NEW recs \in Seq(Records)
  PROVE  Same(replay(s, recs), replay(t, recs), from)
<1> SUFFICES ASSUME NEW now \in Nat, from <= now
             PROVE  SameAt(replay(s, recs), replay(t, recs), now)
  BY DEF Same
<1>1. SameAt(s, t, now)
  BY DEF Same
<1> QED
  BY <1>1, ReplaySame

\* Registering or dropping an index changes no value and no deadline.
LEMMA SameIndexed ==
  ASSUME NEW s, NEW t, t.data = s.data, t.ttl = s.ttl, NEW from
  PROVE  Same(s, t, from)
BY DEF Same, SameAt, View, get, Contains, expired
-----------------------------------------------------------------------------
(***************************************************************************)
(* The log and, while a compaction runs, the file it will swap in: both    *)
(* replay to what readers see from now on.                                 *)
(***************************************************************************)
LogInv ==
  /\ Same(logged, state, clock)
  /\ compact # "idle" => Same(replay(snap, tail), state, clock)

LEMMA LogInit == Init => LogInv
BY SameEquiv DEF Init, LogInv

\* Nothing that the invariant speaks of changes.
LEMMA LogKept ==
  ASSUME LogInv, UNCHANGED <<state, logged, compactVars, clock>>
  PROVE  LogInv'
BY DEF LogInv, compactVars

\* Records reach the log, the tail and the live state in one step.
LEMMA LogWrite ==
  ASSUME StoreInv, LogInv, NEW recs \in Seq(Records), writeLog(recs),
         state' = replay(state, recs), UNCHANGED <<compact, snap, clock>>
  PROVE  LogInv'
<1>1. /\ logged \in Good /\ state \in Good /\ snap \in Good /\ tail \in Seq(Records)
      /\ clock \in Nat
  BY DEF StoreInv, DbOK, CompactOK, TimeOK
<1>2. Same(logged, state, clock)
  BY DEF LogInv
<1>3. logged' = replay(logged, recs)
  BY DEF writeLog
<1>4. Same(logged', state', clock')
  BY <1>1, <1>2, <1>3, SameReplay
<1>5. ASSUME compact # "idle"
      PROVE  Same(replay(snap', tail'), state', clock')
  <2>1. Same(replay(snap, tail), state, clock)
    BY <1>5 DEF LogInv
  <2>2. replay(snap, tail) \in Good
    BY <1>1, ReplayGood
  <2>3. Same(replay(replay(snap, tail), recs), replay(state, recs), clock)
    BY <1>1, <2>1, <2>2, SameReplay
  <2>4. replay(snap, tail \o recs) = replay(replay(snap, tail), recs)
    BY <1>1, ReplayConcat
  <2>5. tail' = tail \o recs
    BY <1>5 DEF writeLog
  <2> QED
    BY <2>3, <2>4, <2>5
<1> QED
  BY <1>4, <1>5 DEF LogInv

LEMMA LogDirect ==
  ASSUME StoreInv, LogInv,
         \/ \E k \in Keys, v \in Values, deadline \in Nat : Set(k, v, deadline)
         \/ \E k \in Keys, now \in 0 .. clock, existed \in BOOLEAN : Delete(k, now, existed)
         \/ WriteFails
         \/ \E n \in Names : CreateIndex(n) \/ DropIndex(n)
  PROVE  LogInv'
<1>1. ASSUME NEW k \in Keys, NEW v \in Values, NEW deadline \in Nat, Set(k, v, deadline)
      PROVE  LogInv'
  <2> DEFINE recs == <<SetOp(k, v, deadline)>>
  <2>1. recs \in Seq(Records) /\ replay(state, recs) = set(state, k, v, deadline)
    BY SetOpRecord, ReplayOne
  <2>2. /\ writeLog(recs) /\ state' = set(state, k, v, deadline)
        /\ UNCHANGED <<compact, snap, clock>>
    BY <1>1 DEF Set, timeVars
  <2> HIDE DEF recs
  <2> QED
    BY <2>1, <2>2, LogWrite
<1>2. ASSUME NEW k \in Keys, NEW now, NEW existed, Delete(k, now, existed)
      PROVE  LogInv'
  <2> DEFINE recs == <<DeleteOp(k)>>
  <2>1. recs \in Seq(Records) /\ replay(state, recs) = delete(state, k)
    BY DeleteOpRecord, ReplayOne
  <2>2. /\ writeLog(recs) /\ state' = delete(state, k)
        /\ UNCHANGED <<compact, snap, clock>>
    BY <1>2 DEF Delete, timeVars
  <2> HIDE DEF recs
  <2> QED
    BY <2>1, <2>2, LogWrite
<1>3. CASE WriteFails
  BY <1>3, LogKept DEF WriteFails, writeLogFails, compactVars, timeVars
<1>4. ASSUME NEW n \in Names, CreateIndex(n) \/ DropIndex(n)
      PROVE  LogInv'
  <2>1. state'.data = state.data /\ state'.ttl = state.ttl
    BY <1>4 DEF CreateIndex, DropIndex, addIndex, dropIndex
  <2>2. Same(state, state', clock)
    BY <2>1, SameIndexed
  <2>3. UNCHANGED <<logged, compact, snap, tail, clock>>
    BY <1>4 DEF CreateIndex, DropIndex, compactVars, timeVars
  <2>4. Same(logged', state', clock')
    BY <2>2, <2>3, SameEquiv DEF LogInv
  <2>5. compact' # "idle" => Same(replay(snap', tail'), state', clock')
    BY <2>2, <2>3, SameEquiv DEF LogInv
  <2> QED
    BY <2>4, <2>5 DEF LogInv
<1> QED
  BY <1>1, <1>2, <1>3, <1>4

\* What Commit logs is what its state is made of.
LEMMA LogTx ==
  ASSUME StoreInv, PendingInv, LogInv, NEW t \in Txs,
         \/ \E writable \in BOOLEAN : Begin(t, writable)
         \/ \E recs \in Seq(Records) : TxWrite(t, recs)
         \/ Savepoint(t)
         \/ \E i \in Nat : RollbackTo(t, i) \/ Release(t, i)
         \/ Commit(t) \/ CommitFails(t) \/ Rollback(t)
  PROVE  LogInv'
<1>1. CASE Commit(t)
  <2>1. /\ mode[t] = "write" /\ writeLog(pending[t]) /\ state' = view[t]
        /\ UNCHANGED <<compact, snap, clock>>
    BY <1>1 DEF Commit, timeVars
  <2>2. view[t] = replay(state, pending[t])
    BY <2>1 DEF PendingInv, Explains
  <2>3. pending[t] \in Seq(Records)
    BY TxHas DEF StoreInv
  <2> QED
    BY <2>1, <2>2, <2>3, LogWrite
<1>2. ASSUME ~Commit(t)
      PROVE  UNCHANGED <<state, logged, compactVars, clock>>
  BY <1>2 DEF Begin, TxWrite, Private, Savepoint, RollbackTo, Release, CommitFails, Rollback,
              writeLogFails, dbVars, compactVars, timeVars
<1> QED
  BY <1>1, <1>2, LogKept

LEMMA LogSweep ==
  ASSUME StoreInv, LogInv, SweepScan \/ SweepUpdate \/ SweepNothing
  PROVE  LogInv'
<1>1. CASE SweepUpdate
  <2> DEFINE recs == DeleteOps(StillDue)
  <2>1. recs \in Seq(Records)
    BY <1>1, SweepUpdateOK
  <2>2. writeLog(recs) /\ state' = replay(state, recs) /\ UNCHANGED <<compact, snap, clock>>
    BY <1>1 DEF SweepUpdate, timeVars
  <2> HIDE DEF recs
  <2> QED
    BY <2>1, <2>2, LogWrite
<1>2. CASE SweepScan \/ SweepNothing
  BY <1>2, LogKept DEF SweepScan, SweepNothing, writeLogFails, dbVars, compactVars, timeVars
<1> QED
  BY <1>1, <1>2

LEMMA LogCompact ==
  ASSUME StoreInv, LogInv, CompactStep
  PROVE  LogInv'
<1>1. UNCHANGED <<state, clock>>
  BY DEF CompactStep, CompactStart, writeSnapshot, CompactSwap, CompactAbort, dbVars, timeVars
<1>2. CASE CompactStart
  <2>1. snap' = state /\ tail' = <<>> /\ logged' = logged
    BY <1>2 DEF CompactStart, dbVars
  <2>2. replay(snap', tail') = state
    BY <2>1, ReplayEmpty
  <2> QED
    BY <1>1, <2>1, <2>2, SameEquiv DEF LogInv
<1>3. CASE writeSnapshot
  <2>1. /\ compact = "stream" /\ compact' = "tail" /\ snap' = written(snap, clock)
        /\ UNCHANGED <<logged, tail>>
    BY <1>3 DEF writeSnapshot, dbVars
  <2>2. snap \in Good /\ tail \in Seq(Records) /\ clock \in Nat
    BY DEF StoreInv, CompactOK, TimeOK
  <2>3. snap' \in Good /\ Same(snap, snap', clock)
    BY <2>1, <2>2, WrittenGood DEF Same
  <2>4. Same(replay(snap, tail), replay(snap', tail), clock)
    BY <2>2, <2>3, SameReplay
  <2>5. Same(replay(snap, tail), state, clock)
    BY <2>1 DEF LogInv
  <2>6. Same(replay(snap', tail), state, clock)
    BY <2>4, <2>5, SameEquiv
  <2> QED
    BY <1>1, <2>1, <2>6 DEF LogInv
<1>4. CASE CompactSwap
  BY <1>1, <1>4 DEF CompactSwap, CompactIdle, LogInv
<1>5. CASE CompactAbort
  BY <1>1, <1>5 DEF CompactAbort, CompactIdle, LogInv, dbVars
<1> QED
  BY <1>2, <1>3, <1>4, <1>5 DEF CompactStep

LEMMA LogCloseOpenTick ==
  ASSUME StoreInv, LogInv, Close \/ Open \/ Tick
  PROVE  LogInv'
<1>1. CASE Close
  BY <1>1, LogKept DEF Close, timeVars
<1>2. CASE Open
  BY <1>2, SameEquiv DEF Open, CompactIdle, LogInv
<1>3. CASE Tick
  <2>1. UNCHANGED <<state, logged, compact, snap, tail>> /\ clock' = clock + 1 /\ clock \in Nat
    BY <1>3 DEF Tick, dbVars, compactVars, StoreInv, TimeOK
  <2>2. \A s, t : Same(s, t, clock) => Same(s, t, clock')
    BY <2>1 DEF Same
  <2> QED
    BY <2>1, <2>2 DEF LogInv
<1> QED
  BY <1>1, <1>2, <1>3

LEMMA LogStep == StoreInv /\ PendingInv /\ LogInv /\ [Next]_vars => LogInv'
<1> SUFFICES ASSUME StoreInv, PendingInv, LogInv, [Next]_vars PROVE LogInv'
  OBVIOUS
<1>1. CASE UNCHANGED vars
  BY <1>1, LogKept DEF vars, dbVars, timeVars
<1>2. CASE Next
  BY <1>2, Steps, LogDirect, LogTx, LogSweep, LogCompact, LogCloseOpenTick
<1> QED
  BY <1>1, <1>2

LEMMA LogSpec == Spec => []LogInv
BY LogInit, LogStep, StoreSpec, PendingSpec, PTL DEF Spec

\* Open after a crash gives back what readers saw, now and at any later time,
\* with compactions that drop expired keys while writes go on.
THEOREM LogRecovers == Spec => []LogReplays
<1>1. StoreInv /\ LogInv => LogReplays
  <2> SUFFICES ASSUME StoreInv, LogInv, NEW now \in clock .. MaxClock
               PROVE  SameAt(logged, state, now)
    BY DEF LogReplays
  <2>1. now \in Nat /\ clock <= now
    BY BoundsAssumption DEF StoreInv, TimeOK
  <2> QED
    BY <2>1 DEF LogInv, Same
<1> QED
  BY <1>1, StoreSpec, LogSpec, PTL

\* The keys that are still due have expired, so deleting them goes unseen.
LEMMA SweepUnseen ==
  ASSUME StoreInv, SweepUpdate
  PROVE  SameAt(state, state', clock)
<1> DEFINE recs == DeleteOps(StillDue)
<1>1. StillDue \in SUBSET Keys /\ \A k \in StillDue : expired(state, k, clock)
  <2>1. state.ttl \in [Keys -> Nat]
    BY StateParts DEF StoreInv, DbOK, Good
  <2> QED
    BY <2>1 DEF StillDue, expired, StoreInv, SweepOK, TimeOK
<1>2. /\ recs \in Seq(Records)
      /\ \A i \in 1 .. Len(recs) : recs[i].op = "delete" /\ recs[i].key \in StillDue
  BY <1>1, DeleteOpsRecords
<1>3. state' = replay(state, recs) /\ state \in Good /\ clock \in Nat
  BY DEF SweepUpdate, StoreInv, DbOK, TimeOK
<1> HIDE DEF recs
<1>4. \A i \in 1 .. Len(recs) : recs[i].op = "delete" /\ expired(state, recs[i].key, clock)
  BY <1>1, <1>2
<1> QED
  BY <1>2, <1>3, <1>4, DeletesUnseen

\* The sweeper's transaction removes nothing a reader sees, though keys may
\* have been given new deadlines since its scan.
THEOREM SweeperIsInvisible == Spec => SweepsOnlyExpired
<1>1. StoreInv /\ [Next]_vars => [SweepUpdate => SameAt(state, state', clock)]_vars
  BY SweepUnseen
<1> QED
  BY <1>1, StoreSpec, PTL DEF Spec, SweepsOnlyExpired
-----------------------------------------------------------------------------
(***************************************************************************)
(* The store implements the transactional map.                             *)
(***************************************************************************)
TMap == View(state, clock)
TPrivate == [t \in Txs |-> View(view[t], clock)]
TEmpty == [k \in Keys |-> <<NoValue, 0>>]

\* Nothing that can be read changes.
Unread == UNCHANGED <<TMap, TPrivate, mode, clock>>

LEMMA NewReads ==
  ASSUME NEW now
  PROVE  View(newDBState, now) = TEmpty
BY DEF View, TEmpty, get, Contains, newDBState

LEMMA UnreadWhen ==
  ASSUME SameAt(state, state', clock), UNCHANGED <<view, mode, clock>>
  PROVE  Unread
BY DEF Unread, TMap, TPrivate, SameAt

LEMMA MapWrite ==
  ASSUME StoreInv, NEW k \in Keys, writerMu = "free",
         \A j \in Keys \ {k} : state'.data[j] = state.data[j] /\ state'.ttl[j] = state.ttl[j],
         UNCHANGED <<view, mode, clock>>
  PROVE  TM!Write
<1>1. \A t \in Txs : mode[t] # "write"
  BY TxsAssumption DEF StoreInv, TxOK
<1>2. \A j \in Keys \ {k} : View(state, clock)[j] = View(state', clock')[j]
  BY DEF View, get, Contains, expired
<1> QED
  BY <1>1, <1>2 DEF TM!Write, TM!NoWriter, TM!OneKey

LEMMA MapDirect ==
  ASSUME StoreInv,
         \/ \E k \in Keys, v \in Values, deadline \in Nat : Set(k, v, deadline)
         \/ \E k \in Keys, now \in 0 .. clock, existed \in BOOLEAN : Delete(k, now, existed)
         \/ WriteFails
         \/ \E n \in Names : CreateIndex(n) \/ DropIndex(n)
  PROVE  TM!Write \/ Unread
<1>1. UNCHANGED <<view, mode, clock>> /\ writerMu = "free"
  BY DEF Set, Delete, WriteFails, CreateIndex, DropIndex, txVars, timeVars
<1>2. state.data \in [Keys -> Values \union {NoValue}] /\ state.ttl \in [Keys -> Nat]
  BY StateParts DEF StoreInv, DbOK, Good
<1>3. ASSUME NEW k \in Keys, NEW v, NEW deadline, Set(k, v, deadline)
      PROVE  TM!Write
  <2>1. state' = set(state, k, v, deadline)
    BY <1>3 DEF Set
  <2>2. \A j \in Keys \ {k} : state'.data[j] = state.data[j] /\ state'.ttl[j] = state.ttl[j]
    BY <1>2, <2>1 DEF set
  <2> QED
    BY <1>1, <2>2, MapWrite
<1>4. ASSUME NEW k \in Keys, NEW now, NEW existed, Delete(k, now, existed)
      PROVE  TM!Write
  <2>1. state' = delete(state, k)
    BY <1>4 DEF Delete
  <2>2. \A j \in Keys \ {k} : state'.data[j] = state.data[j] /\ state'.ttl[j] = state.ttl[j]
    BY <1>2, <2>1 DEF delete
  <2> QED
    BY <1>1, <2>2, MapWrite
<1>5. CASE WriteFails
  <2>1. state' = state
    BY <1>5 DEF WriteFails, writeLogFails
  <2> QED
    BY <1>1, <2>1, UnreadWhen DEF SameAt
<1>6. ASSUME NEW n \in Names, CreateIndex(n) \/ DropIndex(n)
      PROVE  Unread
  <2>1. state'.data = state.data /\ state'.ttl = state.ttl
    BY <1>6 DEF CreateIndex, DropIndex, addIndex, dropIndex
  <2>2. SameAt(state, state', clock)
    BY <2>1 DEF SameAt, View, get, Contains, expired
  <2> QED
    BY <1>1, <2>2, UnreadWhen
<1> QED
  BY <1>3, <1>4, <1>5, <1>6

LEMMA PrivateOne ==
  ASSUME TxOK, NEW t \in Txs, NEW v, view' = [view EXCEPT ![t] = v], clock' = clock
  PROVE  TPrivate' = [TPrivate EXCEPT ![t] = View(v, clock)]
<1>1. \A u \in Txs : view'[u] = IF u = t THEN v ELSE view[u]
  BY DEF TxOK
<1>2. \A u \in Txs : TPrivate'[u] = [TPrivate EXCEPT ![t] = View(v, clock)][u]
  BY <1>1 DEF TPrivate
<1> QED
  BY <1>2 DEF TPrivate

LEMMA MapTx ==
  ASSUME StoreInv, PendingInv, NEW t \in Txs,
         \/ \E writable \in BOOLEAN : Begin(t, writable)
         \/ \E recs \in Seq(Records) : TxWrite(t, recs)
         \/ Savepoint(t)
         \/ \E i \in Nat : RollbackTo(t, i) \/ Release(t, i)
         \/ Commit(t) \/ CommitFails(t) \/ Rollback(t)
  PROVE  TM!Begin(t) \/ TM!TxWrite(t) \/ TM!Commit(t) \/ TM!Rollback(t) \/ Unread
<1>1. clock' = clock
  BY DEF Begin, TxWrite, Private, Savepoint, RollbackTo, Release, Commit, CommitFails, Rollback,
         timeVars
<1>2. TxOK /\ mode \in [Txs -> {"done", "read", "write"}]
  BY DEF StoreInv, TxOK
<1>3. ASSUME NEW writable \in BOOLEAN, Begin(t, writable)
      PROVE  TM!Begin(t)
  <2>1. /\ mode[t] = "done" /\ state' = state
        /\ mode' = [mode EXCEPT ![t] = IF writable THEN "write" ELSE "read"]
        /\ writable => writerMu = "free"
    BY <1>3 DEF Begin, dbVars
  <2>2. view' = [view EXCEPT ![t] = state]
    BY <1>3 DEF Begin
  <2>3. TPrivate' = [TPrivate EXCEPT ![t] = View(state, clock)]
    BY <1>1, <1>2, <2>2, PrivateOne
  <2>4. writable => \A u \in Txs : mode[u] # "write"
    BY <2>1, TxsAssumption DEF StoreInv, TxOK
  <2> QED
    BY <1>1, <2>1, <2>3, <2>4 DEF TM!Begin, TM!NoWriter, TPrivate
<1>4. ASSUME NEW v, mode[t] = "write", view' = [view EXCEPT ![t] = v], UNCHANGED <<state, mode>>
      PROVE  TM!TxWrite(t)
  <2>1. \A u \in Txs \ {t} : view'[u] = view[u]
    BY <1>2, <1>4 DEF TxOK
  <2> QED
    BY <1>1, <1>4, <2>1 DEF TM!TxWrite
<1>5. ASSUME NEW recs, TxWrite(t, recs)
      PROVE  TM!TxWrite(t)
  <2>1. /\ mode[t] = "write" /\ UNCHANGED <<state, mode>>
        /\ view' = [view EXCEPT ![t] = replay(view[t], recs)]
    BY <1>5 DEF TxWrite, Private, dbVars
  <2> QED
    BY <1>4, <2>1
<1>6. ASSUME UNCHANGED <<state, view, mode>>
      PROVE  Unread
  BY <1>1, <1>6, UnreadWhen DEF SameAt
<1>7. ASSUME NEW i \in Nat, RollbackTo(t, i)
      PROVE  TM!TxWrite(t) \/ Unread
  <2>1. /\ mode[t] # "done" /\ UNCHANGED <<state, mode>>
        /\ view' = [view EXCEPT ![t] = saves[t][i].state]
    BY <1>7 DEF RollbackTo, dbVars
  <2>2. i \in 1 .. Len(saves[t])
    BY <1>7, RollbackToOK
  <2>3. CASE mode[t] = "write"
    BY <1>4, <2>1, <2>3
  <2>4. CASE mode[t] = "read"
    <3>1. saves[t][i].state = view[t]
      BY <2>2, <2>4 DEF PendingInv, Explains
    <3>2. view' = view
      BY <1>2, <2>1, <3>1, TxHas
    <3> QED
      BY <1>6, <2>1, <3>2
  <2> QED
    BY <1>2, <2>1, <2>3, <2>4
<1>8. ASSUME NEW i, Savepoint(t) \/ Release(t, i)
      PROVE  Unread
  BY <1>6, <1>8 DEF Savepoint, Release, dbVars
<1>9. ASSUME Commit(t) \/ CommitFails(t) \/ Rollback(t)
      PROVE  TM!Commit(t) \/ TM!Rollback(t)
  <2>1. /\ mode[t] # "done" /\ mode' = [mode EXCEPT ![t] = "done"]
        /\ view' = [view EXCEPT ![t] = newDBState]
    BY <1>9 DEF Commit, CommitFails, Rollback, finish
  <2>2. TPrivate' = [TPrivate EXCEPT ![t] = TEmpty]
    BY <1>1, <1>2, <2>1, PrivateOne, NewReads
  <2>3. TM!Finish(t)
    BY <1>1, <2>1, <2>2 DEF TM!Finish, TM!Empty, TPrivate, TEmpty
  <2>4. CASE Commit(t)
    <3>1. mode[t] = "write" /\ state' = view[t]
      BY <2>4 DEF Commit
    <3> QED
      BY <1>1, <2>3, <3>1 DEF TM!Commit
  <2>5. CASE CommitFails(t) \/ Rollback(t)
    <3>1. state' = state
      BY <2>5 DEF CommitFails, Rollback, writeLogFails, dbVars
    <3> QED
      BY <1>1, <2>3, <3>1 DEF TM!Rollback
  <2> QED
    BY <1>9, <2>4, <2>5
<1> QED
  BY <1>3, <1>5, <1>7, <1>8, <1>9

\* A view later on is the view now without what expires in between.
LEMMA ViewExpires ==
  ASSUME NEW s \in Good, NEW now \in Nat
  PROVE  View(s, now + 1) = TM!Live(View(s, now), now + 1)
<1>1. s.ttl \in [Keys -> Nat] /\ s.data \in [Keys -> Values \union {NoValue}]
  BY StateParts DEF Good
<1>2. ASSUME NEW k \in Keys
      PROVE  View(s, now + 1)[k] = TM!Live(View(s, now), now + 1)[k]
  <2> DEFINE e == View(s, now)[k]
  <2>1. s.ttl[k] \in Nat
    BY <1>1
  <2>2. TM!Live(View(s, now), now + 1)[k] =
          IF e # <<NoValue, 0>> /\ e[2] > 0 /\ e[2] <= now + 1 THEN <<NoValue, 0>> ELSE e
    BY DEF TM!Live
  <2>3. e = IF Contains(s, k) /\ ~expired(s, k, now) THEN <<s.data[k], s.ttl[k]>>
            ELSE <<NoValue, 0>>
    BY DEF View, get, Contains
  <2>4. View(s, now + 1)[k] = IF Contains(s, k) /\ ~expired(s, k, now + 1)
                              THEN <<s.data[k], s.ttl[k]>> ELSE <<NoValue, 0>>
    BY DEF View, get, Contains
  <2> HIDE DEF e
  <2>5. CASE Contains(s, k) /\ ~expired(s, k, now)
    <3>1. e = <<s.data[k], s.ttl[k]>> /\ e[2] = s.ttl[k] /\ e # <<NoValue, 0>>
      BY <2>3, <2>5 DEF Contains
    <3>2. expired(s, k, now + 1) <=> e[2] > 0 /\ e[2] <= now + 1
      BY <3>1 DEF expired
    <3> QED
      BY <2>2, <2>4, <2>5, <3>1, <3>2
  <2>6. CASE ~(Contains(s, k) /\ ~expired(s, k, now))
    <3>1. ~(Contains(s, k) /\ ~expired(s, k, now + 1))
      BY <2>1, <2>6 DEF expired
    <3> QED
      BY <2>2, <2>3, <2>4, <2>6, <3>1
  <2> QED
    BY <2>5, <2>6
<1> QED
  BY <1>2 DEF View, TM!Live

LEMMA MapRest ==
  ASSUME StoreInv, LogInv,
         \/ SweepScan \/ SweepUpdate \/ SweepNothing \/ CompactStep
         \/ Close \/ Open \/ Tick
  PROVE  TM!Restart \/ TM!Expire \/ Unread
<1>1. CASE SweepUpdate
  BY <1>1, SweepUnseen, UnreadWhen DEF SweepUpdate, txVars, timeVars
<1>2. CASE SweepScan \/ SweepNothing \/ CompactStep \/ Close
  <2>1. UNCHANGED <<state, view, mode, clock>>
    BY <1>2 DEF SweepScan, SweepNothing, writeLogFails, CompactStep, CompactStart, writeSnapshot,
                CompactSwap, CompactAbort, Close, dbVars, txVars, timeVars
  <2> QED
    BY <2>1, UnreadWhen DEF SameAt
<1>3. CASE Open
  <2>1. /\ state' = logged /\ clock' = clock /\ mode' = [t \in Txs |-> "done"]
        /\ view' = [t \in Txs |-> newDBState]
    BY <1>3 DEF Open
  <2>2. View(logged, clock) = View(state, clock)
    BY DEF LogInv, Same, SameAt, StoreInv, TimeOK
  <2>3. \A t \in Txs : View(view'[t], clock') = TEmpty
    BY <2>1, NewReads
  <2> QED
    BY <2>1, <2>2, <2>3 DEF TM!Restart, TM!Empty, TEmpty
<1>4. CASE Tick
  <2>1. UNCHANGED <<state, view, mode>> /\ clock' = clock + 1
    BY <1>4 DEF Tick, dbVars, txVars
  <2>2. clock \in Nat /\ state \in Good /\ \A t \in Txs : view[t] \in Good
    BY DEF StoreInv, TimeOK, DbOK, TxOK
  <2>3. View(state', clock') = TM!Live(View(state, clock), clock')
    BY <2>1, <2>2, ViewExpires
  <2>4. \A t \in Txs : View(view'[t], clock') = TM!Live(TPrivate[t], clock')
    BY <2>1, <2>2, ViewExpires DEF TPrivate
  <2> QED
    BY <2>1, <2>3, <2>4 DEF TM!Expire, TPrivate
<1> QED
  BY <1>1, <1>2, <1>3, <1>4

LEMMA MapStep == StoreInv /\ PendingInv /\ LogInv /\ [Next]_vars => [TM!Next]_(TM!vars)
<1> SUFFICES ASSUME StoreInv, PendingInv, LogInv, [Next]_vars PROVE [TM!Next]_(TM!vars)
  OBVIOUS
<1>1. Unread => UNCHANGED TM!vars
  BY DEF Unread, TMap, TPrivate, TM!vars
<1>2. CASE UNCHANGED vars
  <2>1. UNCHANGED <<state, view, mode, clock>>
    BY <1>2 DEF vars, dbVars, txVars, timeVars
  <2> QED
    BY <1>1, <2>1, UnreadWhen DEF SameAt
<1>3. CASE Next
  BY <1>1, <1>3, Steps, MapDirect, MapTx, MapRest DEF TM!Next
<1> QED
  BY <1>2, <1>3

\* The store is a transactional map: snapshots, one writer, atomic commits,
\* and no trace of compactions, sweeps, failed appends or restarts in what
\* can be read.
THEOREM StoreIsAMap == Spec => ImplementsTransactionalMap
<1>1. Init => TM!Init
  BY NewReads DEF Init, TM!Init, TM!Empty, TEmpty
<1> QED
  BY <1>1, MapStep, StoreSpec, PendingSpec, LogSpec, PTL
     DEF Spec, ImplementsTransactionalMap, TM!Spec

=============================================================================
