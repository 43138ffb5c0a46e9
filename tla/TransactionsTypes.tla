-------------------------- MODULE TransactionsTypes -------------------------
(***************************************************************************)
(* Transactions keeps its types, its writer lock and its derived trees in  *)
(* order, for any keys, values, indexes, handles and bounds.               *)
(***************************************************************************)
EXTENDS Transactions, DBStateProofs

-----------------------------------------------------------------------------
(***************************************************************************)
(* The inductive invariant.  Beyond types and Mirror it says that a later  *)
(* savepoint has at least the records of an earlier one, which makes       *)
(* RollbackTo safe, and that the sweeper's now has passed.                 *)
(***************************************************************************)
Saves == [state : Good, pendingLen : Nat]

SavesOK(sv, n) ==
  /\ \A i \in 1 .. Len(sv) : sv[i].pendingLen <= n
  /\ \A i, j \in 1 .. Len(sv) : i <= j => sv[i].pendingLen <= sv[j].pendingLen

DbOK == db \in {"open", "failed", "closed"} /\ state \in Good /\ logged \in Good

TxOK ==
  /\ writerMu \in Txs \union {"free"}
  /\ mode \in [Txs -> {"done", "read", "write"}]
  /\ \A t \in Txs : mode[t] = "write" <=> writerMu = t
  /\ view \in [Txs -> Good]
  /\ pending \in [Txs -> Seq(Records)]
  /\ saves \in [Txs -> Seq(Saves)]
  /\ \A t \in Txs : SavesOK(saves[t], Len(pending[t]))

SweepOK == sweep \in [now : Nat, keys : SUBSET Keys] /\ sweep.now <= clock

CompactOK == compact \in {"idle", "stream", "tail"} /\ snap \in Good /\ tail \in Seq(Records)

TimeOK == clock \in Nat /\ restarts \in Nat

StoreInv == DbOK /\ TxOK /\ SweepOK /\ CompactOK /\ TimeOK
-----------------------------------------------------------------------------
(***************************************************************************)
(* Lemmas on records and savepoints.                                       *)
(***************************************************************************)
LEMMA NewGood == newDBState \in Good
BY NewType, NewMirrors DEF Good

LEMMA SetOpRecord ==
  ASSUME NEW k \in Keys, NEW v \in Values, NEW deadline \in Nat
  PROVE  /\ SetOp(k, v, deadline) \in Records
         /\ \A s : apply(s, SetOp(k, v, deadline)) = set(s, k, v, deadline)
BY DEF SetOp, Records, apply

LEMMA DeleteOpRecord ==
  ASSUME NEW k \in Keys
  PROVE  /\ DeleteOp(k) \in Records
         /\ \A s : apply(s, DeleteOp(k)) = delete(s, k)
BY DEF DeleteOp, Records, apply

LEMMA DeleteOpsRecords ==
  ASSUME NEW ks \in SUBSET Keys
  PROVE  /\ DeleteOps(ks) \in Seq(Records)
         /\ \A i \in 1 .. Len(DeleteOps(ks)) :
              DeleteOps(ks)[i].op = "delete" /\ DeleteOps(ks)[i].key \in ks
<1>1. ks \in SUBSET Nat /\ IsFiniteSet(ks)
  BY KeysAssumption, FS_Subset
<1> DEFINE n == Cardinality(ks)
           Increasing(q) == \A i, j \in 1 .. n : i < j => q[i] < q[j]
           sorted == CHOOSE q \in [1 .. n -> ks] : Increasing(q)
<1>2. n \in Nat
  BY <1>1, FS_CardinalityType
<1>3. \E q \in [1 .. n -> ks] : Increasing(q)
  BY <1>1, Sorted
<1>4. sorted \in [1 .. n -> ks]
  BY <1>3
<1>5. DeleteOps(ks) = [i \in 1 .. n |-> DeleteOp(sorted[i])]
  BY DEF DeleteOps
<1> HIDE DEF n, sorted
<1>6. \A i \in 1 .. n : DeleteOp(sorted[i]) \in Records
  BY <1>4, DeleteOpRecord
<1>7. DeleteOps(ks) \in [1 .. n -> Records]
  BY <1>5, <1>6
<1>8. DeleteOps(ks) \in Seq(Records) /\ Len(DeleteOps(ks)) = n
  BY <1>2, <1>7, SeqDef, LenProperties
<1>9. \A i \in 1 .. n : DeleteOps(ks)[i].op = "delete" /\ DeleteOps(ks)[i].key \in ks
  BY <1>4, <1>5 DEF DeleteOp
<1> QED
  BY <1>8, <1>9

\* A beginning of a sequence.
LEMMA Beginning ==
  ASSUME NEW S, NEW q \in Seq(S), NEW n \in Nat, n <= Len(q)
  PROVE  /\ SubSeq(q, 1, n) \in Seq(S)
         /\ Len(SubSeq(q, 1, n)) = n
         /\ \A i \in 1 .. n : SubSeq(q, 1, n)[i] = q[i]
<1>1. Len(q) \in Nat
  BY LenProperties
<1>2. \A i \in 1 .. n : q[i] \in S
  BY <1>1, ElementOfSeq
<1>3. /\ SubSeq(q, 1, n) \in Seq(S)
      /\ Len(SubSeq(q, 1, n)) = IF 1 <= n THEN n - 1 + 1 ELSE 0
      /\ \A i \in 1 .. n - 1 + 1 : SubSeq(q, 1, n)[i] = q[1 + i - 1]
  BY <1>2, SubSeqProperties
<1>4. n - 1 + 1 = n /\ \A i \in 1 .. n : 1 + i - 1 = i
  OBVIOUS
<1> QED
  BY <1>3, <1>4

LEMMA SaveTypes ==
  ASSUME NEW sv \in Seq(Saves)
  PROVE  \A i \in 1 .. Len(sv) : sv[i].state \in Good /\ sv[i].pendingLen \in Nat
<1>1. \A i \in 1 .. Len(sv) : sv[i] \in Saves
  BY ElementOfSeq
<1> QED
  BY <1>1 DEF Saves

LEMMA SavesNone ==
  ASSUME NEW n
  PROVE  SavesOK(<<>>, n)
BY DEF SavesOK

LEMMA SavesGrow ==
  ASSUME NEW sv \in Seq(Saves), NEW m \in Nat, NEW n \in Nat, m <= n, SavesOK(sv, m)
  PROVE  SavesOK(sv, n)
<1>1. \A i \in 1 .. Len(sv) : sv[i].pendingLen \in Nat
  BY SaveTypes
<1> QED
  BY <1>1 DEF SavesOK

LEMMA SavesAppend ==
  ASSUME NEW sv \in Seq(Saves), NEW n \in Nat, SavesOK(sv, n), NEW s \in Good
  PROVE  LET one == [state |-> s, pendingLen |-> n]
         IN  Append(sv, one) \in Seq(Saves) /\ SavesOK(Append(sv, one), n)
<1> DEFINE one == [state |-> s, pendingLen |-> n]
<1>1. one \in Saves /\ one.pendingLen = n
  BY DEF Saves
<1> HIDE DEF one
<1>2. /\ Append(sv, one) \in Seq(Saves)
      /\ Len(sv) \in Nat
      /\ Len(Append(sv, one)) = Len(sv) + 1
      /\ \A i \in 1 .. Len(sv) : Append(sv, one)[i] = sv[i]
      /\ Append(sv, one)[Len(sv) + 1] = one
  BY <1>1, AppendProperties, LenProperties
<1>3. \A i \in 1 .. Len(sv) : sv[i].pendingLen \in Nat
  BY SaveTypes
<1>4. \A i \in 1 .. Len(sv) + 1 : i \in 1 .. Len(sv) \/ i = Len(sv) + 1
  BY <1>2
<1>5. SavesOK(Append(sv, one), n)
  BY <1>1, <1>2, <1>3, <1>4 DEF SavesOK
<1> QED
  BY <1>2, <1>5 DEF one

LEMMA SavesCut ==
  ASSUME NEW sv \in Seq(Saves), NEW n \in Nat, SavesOK(sv, n), NEW i \in 0 .. Len(sv)
  PROVE  /\ SubSeq(sv, 1, i) \in Seq(Saves)
         /\ SavesOK(SubSeq(sv, 1, i), n)
         /\ i > 0 => SavesOK(SubSeq(sv, 1, i), sv[i].pendingLen)
<1>1. Len(sv) \in Nat
  BY LenProperties
<1>2. i \in Nat /\ i <= Len(sv)
  BY <1>1
<1>3. /\ SubSeq(sv, 1, i) \in Seq(Saves)
      /\ Len(SubSeq(sv, 1, i)) = i
      /\ \A j \in 1 .. i : SubSeq(sv, 1, i)[j] = sv[j]
  BY <1>2, Beginning
<1> QED
  BY <1>1, <1>2, <1>3 DEF SavesOK
-----------------------------------------------------------------------------
(***************************************************************************)
(* The parts of the invariant that an action leaves alone.                 *)
(***************************************************************************)
LEMMA TxUnchanged ==
  ASSUME TxOK, UNCHANGED txVars
  PROVE  TxOK'
BY DEF TxOK, txVars, SavesOK

LEMMA RestUnchanged ==
  ASSUME SweepOK, CompactOK, TimeOK
  PROVE  /\ UNCHANGED <<sweep, clock>> => SweepOK'
         /\ UNCHANGED compactVars => CompactOK'
         /\ UNCHANGED timeVars => TimeOK'
BY DEF SweepOK, CompactOK, TimeOK, compactVars, timeVars

LEMMA WriteLogOK ==
  ASSUME DbOK, CompactOK, NEW recs \in Seq(Records), writeLog(recs),
         UNCHANGED <<compact, snap>>
  PROVE  /\ db' \in {"open", "failed", "closed"}
         /\ logged' = replay(logged, recs) /\ logged' \in Good
         /\ CompactOK'
<1>1. logged' = replay(logged, recs) /\ db' = db
  BY DEF writeLog
<1>2. replay(logged, recs) \in Good
  BY ReplayGood DEF DbOK
<1>3. tail' \in Seq(Records)
  BY ConcatProperties DEF writeLog, CompactOK
<1> QED
  BY <1>1, <1>2, <1>3 DEF DbOK, CompactOK

LEMMA WriteLogFailsOK ==
  ASSUME DbOK, CompactOK, writeLogFails, UNCHANGED <<compact, snap>>
  PROVE  DbOK' /\ CompactOK'
BY DEF DbOK, CompactOK, writeLogFails
-----------------------------------------------------------------------------
(***************************************************************************)
(* Each action keeps the invariant.                                        *)
(***************************************************************************)
LEMMA InitOK == Init => StoreInv
<1> SUFFICES ASSUME Init PROVE StoreInv
  OBVIOUS
<1>1. DbOK /\ CompactOK /\ TimeOK
  BY NewGood DEF Init, DbOK, CompactOK, TimeOK
<1>2. SweepOK
  BY DEF Init, SweepOK, NoSweep
<1>3. TxOK
  <2>1. \A t \in Txs : saves[t] = <<>> /\ mode[t] = "done" /\ writerMu # t
    BY TxsAssumption DEF Init
  <2>2. \A t \in Txs : SavesOK(saves[t], Len(pending[t]))
    BY <2>1, SavesNone
  <2>3. pending \in [Txs -> Seq(Records)] /\ saves \in [Txs -> Seq(Saves)]
    BY DEF Init
  <2> QED
    BY <2>1, <2>2, <2>3, NewGood DEF Init, TxOK
<1> QED
  BY <1>1, <1>2, <1>3 DEF StoreInv

LEMMA SetOK ==
  ASSUME StoreInv, NEW k \in Keys, NEW v \in Values, NEW deadline \in Nat,
         Set(k, v, deadline)
  PROVE  StoreInv'
<1> DEFINE recs == <<SetOp(k, v, deadline)>>
<1>1. recs \in Seq(Records)
  BY SetOpRecord
<1>2. writeLog(recs) /\ state' = set(state, k, v, deadline)
  BY DEF Set
<1> HIDE DEF recs
<1>3. UNCHANGED <<txVars, sweep, compact, snap, timeVars, clock>>
  BY DEF Set, timeVars
<1>4. state' \in Good
  BY <1>2, SetType, SetMirrors DEF StoreInv, DbOK, Good
<1>5. DbOK' /\ CompactOK'
  BY <1>1, <1>2, <1>3, <1>4, WriteLogOK DEF StoreInv, DbOK
<1> QED
  BY <1>3, <1>5, TxUnchanged, RestUnchanged DEF StoreInv

LEMMA DeleteOK ==
  ASSUME StoreInv, NEW k \in Keys, NEW now, NEW existed, Delete(k, now, existed)
  PROVE  StoreInv'
<1> DEFINE recs == <<DeleteOp(k)>>
<1>1. recs \in Seq(Records)
  BY DeleteOpRecord
<1>2. writeLog(recs) /\ state' = delete(state, k)
  BY DEF Delete
<1> HIDE DEF recs
<1>3. UNCHANGED <<txVars, sweep, compact, snap, timeVars, clock>>
  BY DEF Delete, timeVars
<1>4. state' \in Good
  BY <1>2, DeleteType, DeleteMirrors DEF StoreInv, DbOK, Good
<1>5. DbOK' /\ CompactOK'
  BY <1>1, <1>2, <1>3, <1>4, WriteLogOK DEF StoreInv, DbOK
<1> QED
  BY <1>3, <1>5, TxUnchanged, RestUnchanged DEF StoreInv

LEMMA WriteFailsOK ==
  ASSUME StoreInv, WriteFails
  PROVE  StoreInv'
<1>1. writeLogFails /\ UNCHANGED <<txVars, sweep, compact, snap, timeVars, clock>>
  BY DEF WriteFails, timeVars
<1> QED
  BY <1>1, WriteLogFailsOK, TxUnchanged, RestUnchanged DEF StoreInv

LEMMA IndexOK ==
  ASSUME StoreInv, NEW n \in Names, CreateIndex(n) \/ DropIndex(n)
  PROVE  StoreInv'
<1>1. state' = addIndex(state, n) \/ state' = dropIndex(state, n)
  BY DEF CreateIndex, DropIndex
<1>2. UNCHANGED <<db, logged, txVars, sweep, compactVars, timeVars, clock>>
  BY DEF CreateIndex, DropIndex, timeVars
<1>3. state' \in Good
  BY <1>1, AddIndexMirrors, DropIndexMirrors DEF StoreInv, DbOK, Good
<1> QED
  BY <1>2, <1>3, TxUnchanged, RestUnchanged DEF StoreInv, DbOK

\* One handle's state, records and savepoints are replaced.
LEMMA TxChanged ==
  ASSUME TxOK, NEW t \in Txs, NEW v \in Good, NEW p \in Seq(Records), NEW sv \in Seq(Saves),
         SavesOK(sv, Len(p)),
         view' = [view EXCEPT ![t] = v],
         pending' = [pending EXCEPT ![t] = p],
         saves' = [saves EXCEPT ![t] = sv],
         UNCHANGED <<writerMu, mode>>
  PROVE  TxOK'
<1>1. view' \in [Txs -> Good] /\ pending' \in [Txs -> Seq(Records)] /\ saves' \in [Txs -> Seq(Saves)]
  BY DEF TxOK
<1>2. \A u \in Txs : SavesOK(saves'[u], Len(pending'[u]))
  <2> TAKE u \in Txs
  <2>1. CASE u = t
    <3>1. saves'[u] = sv /\ pending'[u] = p
      BY <2>1 DEF TxOK
    <3> QED
      BY <3>1
  <2>2. CASE u # t
    <3>1. saves'[u] = saves[u] /\ pending'[u] = pending[u]
      BY <2>2 DEF TxOK
    <3> QED
      BY <3>1 DEF TxOK
  <2> QED
    BY <2>1, <2>2
<1> QED
  BY <1>1, <1>2 DEF TxOK

\* What a handle has.
LEMMA TxHas ==
  ASSUME TxOK, NEW t \in Txs
  PROVE  /\ view[t] \in Good /\ pending[t] \in Seq(Records) /\ saves[t] \in Seq(Saves)
         /\ Len(pending[t]) \in Nat
         /\ SavesOK(saves[t], Len(pending[t]))
         /\ view = [view EXCEPT ![t] = view[t]]
         /\ pending = [pending EXCEPT ![t] = pending[t]]
         /\ saves = [saves EXCEPT ![t] = saves[t]]
<1>1. view[t] \in Good /\ pending[t] \in Seq(Records) /\ saves[t] \in Seq(Saves)
  BY DEF TxOK
<1>2. Len(pending[t]) \in Nat
  BY <1>1, LenProperties
<1>3. /\ view = [view EXCEPT ![t] = view[t]]
      /\ pending = [pending EXCEPT ![t] = pending[t]]
      /\ saves = [saves EXCEPT ![t] = saves[t]]
  BY DEF TxOK
<1> QED
  BY <1>1, <1>2, <1>3 DEF TxOK

\* What a transaction's own steps leave alone.
Private == UNCHANGED <<dbVars, sweep, compactVars, timeVars>>

LEMMA PrivateOK ==
  ASSUME StoreInv, Private
  PROVE  DbOK' /\ SweepOK' /\ CompactOK' /\ TimeOK'
<1>1. UNCHANGED <<sweep, clock, db, state, logged>>
  BY DEF Private, timeVars, dbVars
<1> QED
  BY <1>1, RestUnchanged DEF StoreInv, Private, DbOK

LEMMA BeginOK ==
  ASSUME StoreInv, NEW t \in Txs, NEW writable \in BOOLEAN, Begin(t, writable)
  PROVE  StoreInv'
<1>1. Private /\ UNCHANGED <<pending, saves>>
  BY DEF Begin, Private
<1>2. view' = [view EXCEPT ![t] = state] /\ state \in Good
  BY DEF Begin, StoreInv, DbOK
<1>3. view' \in [Txs -> Good]
  BY <1>2 DEF StoreInv, TxOK
<1>4. mode[t] = "done" /\ mode' = [mode EXCEPT ![t] = IF writable THEN "write" ELSE "read"]
  BY DEF Begin
<1>5. CASE writable
  <2>1. writerMu = "free" /\ writerMu' = t /\ mode' = [mode EXCEPT ![t] = "write"]
    BY <1>5 DEF Begin
  <2>2. \A u \in Txs : mode'[u] = "write" <=> writerMu' = u
    BY <2>1, TxsAssumption DEF StoreInv, TxOK
  <2>3. TxOK'
    BY <1>1, <1>3, <2>1, <2>2 DEF StoreInv, TxOK
  <2> QED
    BY <1>1, <2>3, PrivateOK DEF StoreInv
<1>6. CASE ~writable
  <2>1. writerMu' = writerMu /\ mode' = [mode EXCEPT ![t] = "read"]
    BY <1>6 DEF Begin
  <2>2. \A u \in Txs : mode'[u] = "write" <=> writerMu' = u
    BY <1>4, <2>1 DEF StoreInv, TxOK
  <2>3. TxOK'
    BY <1>1, <1>3, <2>1, <2>2 DEF StoreInv, TxOK
  <2> QED
    BY <1>1, <2>3, PrivateOK DEF StoreInv
<1> QED
  BY <1>5, <1>6

\* TxSet, TxDelete and DeleteRange: records are added and applied.
TxWrite(t, recs) ==
  /\ mode[t] = "write"
  /\ view' = [view EXCEPT ![t] = replay(view[t], recs)]
  /\ pending' = [pending EXCEPT ![t] = pending[t] \o recs]
  /\ Private
  /\ UNCHANGED <<writerMu, mode, saves>>

LEMMA TxWrites ==
  ASSUME StoreInv, NEW t \in Txs,
         \/ \E k \in Keys, v \in Values, deadline \in Nat : TxSet(t, k, v, deadline)
         \/ \E k \in Keys : TxDelete(t, k)
         \/ \E min, max : DeleteRange(t, min, max)
  PROVE  \E recs \in Seq(Records) : TxWrite(t, recs)
<1>1. pending[t] \in Seq(Records)
  BY TxHas DEF StoreInv
<1>2. ASSUME NEW k \in Keys, NEW v \in Values, NEW deadline \in Nat, TxSet(t, k, v, deadline)
      PROVE  \E recs \in Seq(Records) : TxWrite(t, recs)
  <2> DEFINE r == SetOp(k, v, deadline)
             recs == <<r>>
  <2>1. r \in Records /\ \A s : apply(s, r) = set(s, k, v, deadline)
    BY SetOpRecord
  <2>2. /\ mode[t] = "write"
        /\ view' = [view EXCEPT ![t] = set(view[t], k, v, deadline)]
        /\ pending' = [pending EXCEPT ![t] = Append(pending[t], r)]
        /\ Private /\ UNCHANGED <<writerMu, mode, saves>>
    BY <1>2 DEF TxSet, Private
  <2> HIDE DEF r
  <2>3. recs \in Seq(Records) /\ Append(pending[t], r) = pending[t] \o recs
    BY <1>1, <2>1, AppendIsConcat
  <2>4. replay(view[t], recs) = set(view[t], k, v, deadline)
    BY <2>1, ReplayOne
  <2> HIDE DEF recs
  <2> QED
    BY <2>2, <2>3, <2>4 DEF TxWrite
<1>3. ASSUME NEW k \in Keys, TxDelete(t, k)
      PROVE  \E recs \in Seq(Records) : TxWrite(t, recs)
  <2> DEFINE r == DeleteOp(k)
             recs == <<r>>
  <2>1. r \in Records /\ \A s : apply(s, r) = delete(s, k)
    BY DeleteOpRecord
  <2>2. /\ mode[t] = "write"
        /\ view' = [view EXCEPT ![t] = delete(view[t], k)]
        /\ pending' = [pending EXCEPT ![t] = Append(pending[t], r)]
        /\ Private /\ UNCHANGED <<writerMu, mode, saves>>
    BY <1>3 DEF TxDelete, Private
  <2> HIDE DEF r
  <2>3. recs \in Seq(Records) /\ Append(pending[t], r) = pending[t] \o recs
    BY <1>1, <2>1, AppendIsConcat
  <2>4. replay(view[t], recs) = delete(view[t], k)
    BY <2>1, ReplayOne
  <2> HIDE DEF recs
  <2> QED
    BY <2>2, <2>3, <2>4 DEF TxWrite
<1>4. ASSUME NEW min, NEW max, DeleteRange(t, min, max)
      PROVE  \E recs \in Seq(Records) : TxWrite(t, recs)
  <2> DEFINE ks == {k \in Keys : Contains(view[t], k) /\ min <= k /\ k < max}
             recs == DeleteOps(ks)
  <2>1. recs \in Seq(Records)
    BY DeleteOpsRecords
  <2>2. TxWrite(t, recs)
    BY <1>4 DEF DeleteRange, TxWrite, Private
  <2> QED
    BY <2>1, <2>2
<1> QED
  BY <1>2, <1>3, <1>4

LEMMA TxWriteOK ==
  ASSUME StoreInv, NEW t \in Txs, NEW recs \in Seq(Records), TxWrite(t, recs)
  PROVE  StoreInv'
<1> USE DEF TxWrite
<1> DEFINE p == pending[t] \o recs
<1>1. TxOK
  BY DEF StoreInv
<1>2. p \in Seq(Records) /\ Len(p) = Len(pending[t]) + Len(recs) /\ Len(recs) \in Nat
  BY <1>1, TxHas, ConcatProperties, LenProperties
<1>3. SavesOK(saves[t], Len(p))
  <2>1. Len(pending[t]) \in Nat /\ Len(p) \in Nat /\ Len(pending[t]) <= Len(p)
    BY <1>1, <1>2, TxHas
  <2> HIDE DEF p
  <2> QED
    BY <1>1, <2>1, TxHas, SavesGrow
<1>4. replay(view[t], recs) \in Good
  BY <1>1, TxHas, ReplayGood
<1> HIDE DEF p
<1>5. pending' = [pending EXCEPT ![t] = p]
  BY DEF p
<1>6. saves' = [saves EXCEPT ![t] = saves[t]] /\ saves[t] \in Seq(Saves)
  BY <1>1, TxHas
<1>7. TxOK'
  BY <1>1, <1>2, <1>3, <1>4, <1>5, <1>6, TxChanged
<1> QED
  BY <1>7, PrivateOK DEF StoreInv

LEMMA SavepointOK ==
  ASSUME StoreInv, NEW t \in Txs, Savepoint(t)
  PROVE  StoreInv'
<1> DEFINE sv == Append(saves[t], [state |-> view[t], pendingLen |-> Len(pending[t])])
<1>1. TxOK
  BY DEF StoreInv
<1>2. sv \in Seq(Saves) /\ SavesOK(sv, Len(pending[t]))
  BY <1>1, TxHas, SavesAppend
<1>3. saves' = [saves EXCEPT ![t] = sv]
  BY DEF Savepoint
<1> HIDE DEF sv
<1>4. Private /\ UNCHANGED <<writerMu, mode, view, pending>>
  BY DEF Savepoint, Private
<1>5. /\ view' = [view EXCEPT ![t] = view[t]] /\ view[t] \in Good
      /\ pending' = [pending EXCEPT ![t] = pending[t]] /\ pending[t] \in Seq(Records)
  BY <1>1, <1>4, TxHas
<1>6. TxOK'
  BY <1>1, <1>2, <1>3, <1>4, <1>5, TxChanged
<1> QED
  BY <1>4, <1>6, PrivateOK DEF StoreInv

\* The savepoint's records are a beginning of the transaction's.
LEMMA RollbackToOK ==
  ASSUME StoreInv, NEW t \in Txs, NEW i \in Nat, RollbackTo(t, i)
  PROVE  /\ StoreInv'
         /\ i \in 1 .. Len(saves[t])
<1> DEFINE n == saves[t][i].pendingLen
           p == SubSeq(pending[t], 1, n)
           sv == SubSeq(saves[t], 1, i)
<1>1. TxOK
  BY DEF StoreInv
<1>2. i \in 1 .. Len(saves[t])
  BY <1>1, TxHas, LenProperties DEF RollbackTo
<1>3. saves[t][i].state \in Good /\ n \in Nat /\ n <= Len(pending[t])
  BY <1>1, <1>2, TxHas, SaveTypes DEF SavesOK
<1>4. p \in Seq(Records) /\ Len(p) = n
  <2> HIDE DEF n
  <2> QED
    BY <1>1, <1>3, TxHas, Beginning
<1>5. sv \in Seq(Saves) /\ SavesOK(sv, Len(p))
  <2>1. i \in 0 .. Len(saves[t]) /\ i > 0
    BY <1>2
  <2>2. sv \in Seq(Saves) /\ SavesOK(sv, n)
    BY <1>1, <2>1, TxHas, SavesCut
  <2> QED
    BY <1>4, <2>2
<1>6. /\ view' = [view EXCEPT ![t] = saves[t][i].state]
      /\ pending' = [pending EXCEPT ![t] = p]
      /\ saves' = [saves EXCEPT ![t] = sv]
      /\ Private /\ UNCHANGED <<writerMu, mode>>
  BY DEF RollbackTo, Private
<1> HIDE DEF p, sv, n
<1>7. TxOK'
  BY <1>1, <1>3, <1>4, <1>5, <1>6, TxChanged
<1> QED
  BY <1>2, <1>6, <1>7, PrivateOK DEF StoreInv

LEMMA ReleaseOK ==
  ASSUME StoreInv, NEW t \in Txs, NEW i \in Nat, Release(t, i)
  PROVE  /\ StoreInv'
         /\ i \in 1 .. Len(saves[t])
<1> DEFINE sv == SubSeq(saves[t], 1, i - 1)
<1>1. TxOK
  BY DEF StoreInv
<1>2. i \in 1 .. Len(saves[t])
  BY <1>1, TxHas, LenProperties DEF Release
<1>3. sv \in Seq(Saves) /\ SavesOK(sv, Len(pending[t]))
  <2>1. i - 1 \in 0 .. Len(saves[t])
    BY <1>2
  <2> QED
    BY <1>1, <2>1, TxHas, SavesCut
<1>4. saves' = [saves EXCEPT ![t] = sv] /\ Private /\ UNCHANGED <<writerMu, mode, view, pending>>
  BY DEF Release, Private
<1> HIDE DEF sv
<1>5. /\ view' = [view EXCEPT ![t] = view[t]] /\ view[t] \in Good
      /\ pending' = [pending EXCEPT ![t] = pending[t]] /\ pending[t] \in Seq(Records)
  BY <1>1, <1>4, TxHas
<1>6. TxOK'
  BY <1>1, <1>3, <1>4, <1>5, TxChanged
<1> QED
  BY <1>2, <1>4, <1>6, PrivateOK DEF StoreInv

LEMMA FinishOK ==
  ASSUME TxOK, NEW t \in Txs, finish(t), mode[t] # "done"
  PROVE  TxOK' /\ mode'[t] = "done"
<1>1. /\ mode' = [mode EXCEPT ![t] = "done"]
      /\ writerMu' = IF mode[t] = "write" THEN "free" ELSE writerMu
  BY DEF finish
<1>2. mode' \in [Txs -> {"done", "read", "write"}] /\ writerMu' \in Txs \union {"free"}
  BY <1>1 DEF TxOK
<1>3. \A u \in Txs : mode'[u] = "write" <=> writerMu' = u
  BY <1>1, TxsAssumption DEF TxOK
<1>4. /\ view' \in [Txs -> Good]
      /\ pending' \in [Txs -> Seq(Records)] /\ saves' \in [Txs -> Seq(Saves)]
  BY NewGood DEF TxOK, finish
<1>5. \A u \in Txs : SavesOK(saves'[u], Len(pending'[u]))
  <2> TAKE u \in Txs
  <2>1. CASE u = t
    <3>1. saves'[u] = <<>>
      BY <2>1 DEF TxOK, finish
    <3> QED
      BY <3>1, SavesNone
  <2>2. CASE u # t
    <3>1. saves'[u] = saves[u] /\ pending'[u] = pending[u]
      BY <2>2 DEF TxOK, finish
    <3> QED
      BY <3>1 DEF TxOK
  <2> QED
    BY <2>1, <2>2
<1>6. mode'[t] = "done"
  BY <1>1 DEF TxOK
<1> QED
  BY <1>2, <1>3, <1>4, <1>5, <1>6 DEF TxOK

LEMMA EndTxOK ==
  ASSUME StoreInv, NEW t \in Txs, Commit(t) \/ CommitFails(t) \/ Rollback(t)
  PROVE  StoreInv'
<1>1. TxOK'
  BY FinishOK DEF StoreInv, Commit, CommitFails, Rollback
<1>2. UNCHANGED <<sweep, timeVars, clock>>
  BY DEF Commit, CommitFails, Rollback, timeVars
<1>3. SweepOK' /\ TimeOK'
  BY <1>2, RestUnchanged DEF StoreInv
<1>4. CASE Commit(t)
  <2>1. pending[t] \in Seq(Records) /\ view[t] \in Good
    BY TxHas DEF StoreInv
  <2>2. writeLog(pending[t]) /\ UNCHANGED <<compact, snap>> /\ state' = view[t]
    BY <1>4 DEF Commit
  <2>3. DbOK' /\ CompactOK'
    BY <2>1, <2>2, WriteLogOK DEF StoreInv, DbOK
  <2> QED
    BY <1>1, <1>3, <2>3 DEF StoreInv
<1>5. CASE CommitFails(t)
  <2>1. writeLogFails /\ UNCHANGED <<compact, snap>>
    BY <1>5 DEF CommitFails
  <2> QED
    BY <1>1, <1>3, <2>1, WriteLogFailsOK DEF StoreInv
<1>6. CASE Rollback(t)
  <2>1. Private
    BY <1>6 DEF Rollback, Private
  <2> QED
    BY <1>1, <2>1, PrivateOK DEF StoreInv
<1> QED
  BY <1>4, <1>5, <1>6

LEMMA SweepScanOK ==
  ASSUME StoreInv, SweepScan
  PROVE  StoreInv'
<1>1. UNCHANGED <<dbVars, txVars, compactVars, timeVars, clock>>
  BY DEF SweepScan, timeVars
<1>2. sweep'.now = clock /\ sweep' \in [now : Nat, keys : SUBSET Keys]
  <2>1. state.exp \subseteq Nat \X Keys
    BY StateParts DEF StoreInv, DbOK, Good
  <2>2. \A e \in Due : e[2] \in Keys
    BY <2>1 DEF Due
  <2> QED
    BY <2>2 DEF SweepScan, StoreInv, TimeOK
<1>3. SweepOK'
  BY <1>1, <1>2 DEF SweepOK, StoreInv, TimeOK
<1>4. DbOK'
  BY <1>1 DEF StoreInv, DbOK, dbVars
<1> QED
  BY <1>1, <1>3, <1>4, TxUnchanged, RestUnchanged DEF StoreInv

\* The sweeper deletes keys that had expired when it scanned.
LEMMA SweepUpdateOK ==
  ASSUME StoreInv, SweepUpdate
  PROVE  /\ StoreInv'
         /\ DeleteOps(StillDue) \in Seq(Records)
<1> DEFINE recs == DeleteOps(StillDue)
<1>1. StillDue \in SUBSET Keys
  BY DEF StillDue, StoreInv, SweepOK
<1>2. recs \in Seq(Records)
  BY <1>1, DeleteOpsRecords
<1>3. /\ writeLog(recs) /\ state' = replay(state, recs) /\ sweep' = NoSweep
      /\ UNCHANGED <<txVars, compact, snap, timeVars, clock>>
  BY DEF SweepUpdate, timeVars
<1> HIDE DEF recs
<1>4. DbOK' /\ CompactOK'
  BY <1>2, <1>3, WriteLogOK, ReplayGood DEF StoreInv, DbOK
<1>5. SweepOK'
  BY <1>3 DEF SweepOK, NoSweep, StoreInv, TimeOK
<1> QED
  BY <1>2, <1>3, <1>4, <1>5, TxUnchanged, RestUnchanged DEF StoreInv, recs

LEMMA SweepNothingOK ==
  ASSUME StoreInv, SweepNothing
  PROVE  StoreInv'
<1>1. sweep' = NoSweep /\ UNCHANGED <<txVars, compact, snap, timeVars, clock>>
  BY DEF SweepNothing, timeVars
<1>2. writeLogFails \/ UNCHANGED <<dbVars, tail>>
  BY DEF SweepNothing
<1>3. DbOK' /\ CompactOK'
  <2>1. CASE writeLogFails
    BY <1>1, <2>1, WriteLogFailsOK DEF StoreInv
  <2>2. CASE UNCHANGED <<dbVars, tail>>
    BY <1>1, <2>2 DEF StoreInv, DbOK, CompactOK, dbVars
  <2> QED
    BY <1>2, <2>1, <2>2
<1>4. SweepOK'
  BY <1>1 DEF SweepOK, NoSweep, StoreInv, TimeOK
<1> QED
  BY <1>1, <1>3, <1>4, TxUnchanged, RestUnchanged DEF StoreInv

\* A snapshot drops what has expired when it is written: it is in step, and
\* no reader misses anything then or later.
LEMMA WrittenGood ==
  ASSUME NEW s \in Good, NEW now \in Nat
  PROVE  /\ written(s, now) \in Good
         /\ \A later \in Nat : now <= later => SameAt(s, written(s, now), later)
<1> DEFINE kept == {k \in Keys : Contains(s, k) /\ ~expired(s, k, now)}
           d == [k \in Keys |-> IF k \in kept THEN s.data[k] ELSE NoValue]
           l == [k \in Keys |-> IF k \in kept THEN s.ttl[k] ELSE 0]
           e == {<<s.ttl[k], k>> : k \in {j \in kept : s.ttl[j] > 0}}
           x == [n \in {} |-> {}]
           w == written(s, now)
<1>1. s \in States
  BY DEF Good
<1>2. w = [data |-> d, ttl |-> l, exp |-> e, idx |-> x]
  BY DEF written
<1>3. d \in [Keys -> Values \union {NoValue}] /\ l \in [Keys -> Nat]
  BY <1>1, StateParts
<1>4. e \in SUBSET (Nat \X Keys)
  BY <1>1, StateParts
<1>5. x \in IdxTypes /\ DOMAIN x = {}
  BY Idx
<1>6. w \in States
  <2> HIDE DEF d, l, e, x, w
  <2>1. [data |-> d, ttl |-> l, exp |-> e, idx |-> x] \in States
    BY <1>3, <1>4, <1>5, StateOf
  <2> QED
    BY <1>2, <2>1
<1>7. w.data = d /\ w.ttl = l /\ w.exp = e /\ w.idx = x
  BY <1>2
<1>8. \A k \in Keys : IF k \in kept THEN w.data[k] = s.data[k] /\ w.ttl[k] = s.ttl[k]
                      ELSE w.data[k] = NoValue /\ w.ttl[k] = 0
  BY <1>7
<1>9. Mirror(w)
  <2>1. w.exp = {<<w.ttl[k], k>> : k \in {j \in Keys : w.ttl[j] > 0}}
    <3> HIDE DEF w, d, l, x
    <3> QED
      BY <1>7, <1>8
  <2>2. \A k \in Keys : w.ttl[k] > 0 => Contains(w, k)
    <3> HIDE DEF w, d, l, e, x
    <3> QED
      BY <1>8 DEF Contains
  <2>3. DOMAIN w.idx = {}
    BY <1>5, <1>7
  <2> HIDE DEF w
  <2> QED
    BY <2>1, <2>2, <2>3 DEF Mirror
<1> HIDE DEF w, d, l, e, x
<1>10. ASSUME NEW later \in Nat, now <= later
       PROVE  SameAt(s, w, later)
  <2> SUFFICES ASSUME NEW k \in Keys
               PROVE  IF get(s, k, later) = NoValue THEN get(w, k, later) = NoValue
                      ELSE /\ get(w, k, later) # NoValue
                           /\ s.data[k] = w.data[k] /\ s.ttl[k] = w.ttl[k]
    BY <1>1, <1>6, <1>10, SameView
  <2>1. s.ttl[k] \in Nat
    BY <1>1, StateParts
  <2>2. CASE k \in kept
    BY <1>8, <2>2 DEF get, Contains, expired
  <2>3. CASE k \notin kept
    BY <1>8, <1>10, <2>1, <2>3 DEF get, Contains, expired
  <2> QED
    BY <2>2, <2>3
<1> QED
  BY <1>6, <1>9, <1>10 DEF Good, w

LEMMA CompactStepOK ==
  ASSUME StoreInv, CompactStep
  PROVE  StoreInv'
<1>1. UNCHANGED <<db, state, txVars, sweep, timeVars, clock>>
  BY DEF CompactStep, CompactStart, writeSnapshot, CompactSwap, CompactAbort, dbVars, timeVars
<1>2. logged' \in Good /\ CompactOK'
  <2>1. CASE CompactStart
    BY <2>1 DEF CompactStart, StoreInv, DbOK, CompactOK, dbVars
  <2>2. CASE writeSnapshot
    <3>1. written(snap, clock) \in Good
      BY WrittenGood DEF StoreInv, CompactOK, TimeOK
    <3> QED
      BY <2>2, <3>1 DEF writeSnapshot, StoreInv, DbOK, CompactOK, dbVars
  <2>3. CASE CompactSwap
    <3>1. replay(snap, tail) \in Good
      BY ReplayGood DEF StoreInv, CompactOK
    <3> QED
      BY <2>3, <3>1, NewGood DEF CompactSwap, CompactIdle, CompactOK
  <2>4. CASE CompactAbort
    BY <2>4, NewGood DEF CompactAbort, CompactIdle, StoreInv, DbOK, CompactOK, dbVars
  <2> QED
    BY <2>1, <2>2, <2>3, <2>4 DEF CompactStep
<1> QED
  BY <1>1, <1>2, TxUnchanged, RestUnchanged DEF StoreInv, DbOK

LEMMA CloseOpenTickOK ==
  ASSUME StoreInv, Close \/ Open \/ Tick
  PROVE  StoreInv'
<1>1. CASE Close
  <2>1. UNCHANGED <<txVars, sweep, compactVars, timeVars, clock>> /\ DbOK'
    BY <1>1 DEF Close, StoreInv, DbOK, timeVars
  <2> QED
    BY <2>1, TxUnchanged, RestUnchanged DEF StoreInv
<1>2. CASE Open
  <2>1. DbOK' /\ CompactOK'
    BY <1>2, NewGood DEF Open, CompactIdle, StoreInv, DbOK, CompactOK
  <2>2. SweepOK' /\ TimeOK'
    BY <1>2 DEF Open, NoSweep, StoreInv, SweepOK, TimeOK
  <2>3. TxOK'
    <3>1. \A t \in Txs : saves'[t] = <<>> /\ mode'[t] = "done" /\ writerMu' # t
      BY <1>2, TxsAssumption DEF Open
    <3>2. \A t \in Txs : SavesOK(saves'[t], Len(pending'[t]))
      BY <3>1, SavesNone
    <3>3. pending' \in [Txs -> Seq(Records)] /\ saves' \in [Txs -> Seq(Saves)]
      BY <1>2 DEF Open
    <3> QED
      BY <1>2, <3>1, <3>2, <3>3, NewGood DEF Open, TxOK
  <2> QED
    BY <2>1, <2>2, <2>3 DEF StoreInv
<1>3. CASE Tick
  <2>1. UNCHANGED <<dbVars, txVars, sweep, compactVars, restarts>> /\ clock' = clock + 1
    BY <1>3 DEF Tick
  <2>2. DbOK' /\ SweepOK' /\ TimeOK'
    BY <2>1 DEF StoreInv, DbOK, SweepOK, TimeOK, dbVars
  <2> QED
    BY <2>1, <2>2, TxUnchanged, RestUnchanged DEF StoreInv
<1> QED
  BY <1>1, <1>2, <1>3

\* The steps of Next, with their bound variables in their sets.
LEMMA Steps ==
  ASSUME StoreInv, Next
  PROVE  \/ \E k \in Keys, v \in Values, deadline \in Nat : Set(k, v, deadline)
         \/ \E k \in Keys, now \in 0 .. clock, existed \in BOOLEAN : Delete(k, now, existed)
         \/ WriteFails
         \/ \E n \in Names : CreateIndex(n) \/ DropIndex(n)
         \/ \E t \in Txs :
              \/ \E writable \in BOOLEAN : Begin(t, writable)
              \/ \E recs \in Seq(Records) : TxWrite(t, recs)
              \/ Savepoint(t)
              \/ \E i \in Nat : RollbackTo(t, i) \/ Release(t, i)
              \/ Commit(t) \/ CommitFails(t) \/ Rollback(t)
         \/ SweepScan \/ SweepUpdate \/ SweepNothing
         \/ CompactStep
         \/ Close \/ Open \/ Tick
<1>1. 0 .. MaxClock \subseteq Nat /\ 1 .. MaxSaves \subseteq Nat
  BY BoundsAssumption
<1>2. {0} \union (clock + 1 .. MaxClock) \subseteq Nat
  BY BoundsAssumption DEF StoreInv, TimeOK
<1>3. CASE DirectStep
  BY <1>1, <1>3 DEF DirectStep
<1>4. ASSUME NEW t \in Txs, TxStep(t)
      PROVE  \/ \E writable \in BOOLEAN : Begin(t, writable)
             \/ \E recs \in Seq(Records) : TxWrite(t, recs)
             \/ Savepoint(t)
             \/ \E i \in Nat : RollbackTo(t, i) \/ Release(t, i)
             \/ Commit(t) \/ CommitFails(t) \/ Rollback(t)
  <2>1. CASE \/ \E k \in Keys, v \in Values, deadline \in {0} \union (clock + 1 .. MaxClock) :
                  TxSet(t, k, v, deadline)
             \/ \E k \in Keys : TxDelete(t, k)
             \/ \E min \in Keys, max \in Keys : DeleteRange(t, min, max + 1)
    BY <1>2, <2>1, TxWrites
  <2> QED
    BY <1>1, <1>4, <2>1 DEF TxStep
<1> QED
  BY <1>3, <1>4 DEF Next, SweepStep

LEMMA StoreStep == StoreInv /\ [Next]_vars => StoreInv'
<1> SUFFICES ASSUME StoreInv, [Next]_vars PROVE StoreInv'
  OBVIOUS
<1>1. CASE UNCHANGED vars
  <2>1. UNCHANGED <<dbVars, txVars, sweep, compactVars, timeVars, clock>>
    BY <1>1 DEF vars, timeVars
  <2>2. DbOK'
    BY <2>1 DEF StoreInv, DbOK, dbVars
  <2> QED
    BY <2>1, <2>2, TxUnchanged, RestUnchanged DEF StoreInv
<1>2. CASE Next
  <2>1. ASSUME NEW t \in Txs,
               \/ \E writable \in BOOLEAN : Begin(t, writable)
               \/ \E recs \in Seq(Records) : TxWrite(t, recs)
               \/ Savepoint(t)
               \/ \E i \in Nat : RollbackTo(t, i) \/ Release(t, i)
               \/ Commit(t) \/ CommitFails(t) \/ Rollback(t)
        PROVE  StoreInv'
    BY <2>1, BeginOK, TxWriteOK, SavepointOK, RollbackToOK, ReleaseOK, EndTxOK
  <2> QED
    BY <1>2, <2>1, Steps, SetOK, DeleteOK, WriteFailsOK, IndexOK, SweepScanOK, SweepUpdateOK,
       SweepNothingOK, CompactStepOK, CloseOpenTickOK
<1> QED
  BY <1>1, <1>2

LEMMA StoreSpec == Spec => []StoreInv
BY InitOK, StoreStep, PTL DEF Spec

\* Types, and the writer lock: it is held by the one writable transaction,
\* and savepoints never point beyond the pending records.
THEOREM StoreTypes == Spec => []TypeOK
<1>1. StoreInv => TypeOK
  <2> SUFFICES ASSUME StoreInv PROVE TypeOK
    OBVIOUS
  <2>1. Good \subseteq States
    BY DEF Good
  <2>2. \A t \in Txs : /\ saves[t] \in Seq([state : States, pendingLen : Nat])
                       /\ \A i \in DOMAIN saves[t] : saves[t][i].pendingLen <= Len(pending[t])
    <3> TAKE t \in Txs
    <3>1. saves[t] \in Seq(Saves) /\ SavesOK(saves[t], Len(pending[t]))
      BY TxHas DEF StoreInv
    <3>2. Saves \subseteq [state : States, pendingLen : Nat]
      BY <2>1 DEF Saves
    <3>3. DOMAIN saves[t] = 1 .. Len(saves[t])
      BY <3>1, LenProperties
    <3> QED
      BY <3>1, <3>2, <3>3, SeqMonotonic DEF SavesOK
  <2>3. saves \in [Txs -> Seq([state : States, pendingLen : Nat])] /\ view \in [Txs -> States]
    BY <2>1, <2>2 DEF StoreInv, TxOK
  <2> QED
    BY <2>1, <2>2, <2>3
       DEF TypeOK, StoreInv, DbOK, TxOK, SweepOK, CompactOK, TimeOK
<1> QED
  BY <1>1, StoreSpec, PTL

\* Deadlines, the expiry order and every index are functions of the data in
\* every state of dbState that a reader, a transaction, a savepoint or a
\* replay can be given.
THEOREM DerivedTreesMirror == Spec => []Mirrored
<1>1. StoreInv => Mirrored
  <2> SUFFICES ASSUME StoreInv PROVE Mirrored
    OBVIOUS
  <2>1. \A t \in Txs : \A i \in DOMAIN saves[t] : saves[t][i].state \in Good
    <3> TAKE t \in Txs
    <3>1. saves[t] \in Seq(Saves)
      BY TxHas DEF StoreInv
    <3> QED
      BY <3>1, LenProperties, SaveTypes
  <2>2. AllStates \subseteq Good
    BY <2>1 DEF AllStates, StoreInv, DbOK, TxOK, CompactOK
  <2> QED
    BY <2>2 DEF Mirrored, Good
<1> QED
  BY <1>1, StoreSpec, PTL

=============================================================================
