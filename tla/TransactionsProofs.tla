------------------------- MODULE TransactionsProofs -------------------------
(***************************************************************************)
(* Reads agree, an open transaction is the live state plus its records,    *)
(* the log replays to what readers see, and the sweeper removes nothing    *)
(* visible, for any keys, values, indexes, handles and bounds.             *)
(***************************************************************************)
EXTENDS TransactionsTypes

-----------------------------------------------------------------------------
(***************************************************************************)
(* Reads.                                                                  *)
(***************************************************************************)
\* A function's image is as large as its domain when it is one-to-one.
LEMMA SameSize ==
  ASSUME NEW S, IsFiniteSet(S), NEW T, NEW f \in [S -> T],
         \A t \in T : \E x \in S : f[x] = t,
         \A x, y \in S : f[x] = f[y] => x = y
  PROVE  Cardinality(T) = Cardinality(S)
<1>1. f \in Bijection(S, T)
  BY DEF Bijection, Injection, Surjection, IsInjective
<1>2. ExistsBijection(S, T)
  BY <1>1 DEF ExistsBijection
<1> QED
  BY <1>2, FS_Bijection

LEMMA GoodReads ==
  ASSUME NEW s \in Good, NEW now \in Nat
  PROVE  LET pairs == {<<k, get(s, k, now)>> : k \in {j \in Keys : get(s, j, now) # NoValue}}
         IN  /\ liveLen(s, now) = Cardinality(pairs)
             /\ \A n \in DOMAIN s.idx : iterIndexTree(s, n, now) = pairs
<1> DEFINE present == {k \in Keys : Contains(s, k)}
           gone == {k \in Keys : expired(s, k, now)}
           seen == {j \in Keys : get(s, j, now) # NoValue}
           pairs == {<<k, get(s, k, now)>> : k \in seen}
           passed == {e \in s.exp : e[1] <= now}
<1>1. s \in States /\ Mirror(s)
  BY DEF Good
<1>2. s.ttl \in [Keys -> Nat]
  BY <1>1, StateParts
<1>3. gone \subseteq present
  BY <1>1 DEF Mirror, expired
<1>4. seen = present \ gone
  BY DEF get, Contains
<1>5. IsFiniteSet(present) /\ IsFiniteSet(gone) /\ IsFiniteSet(seen)
  BY KeysAssumption, FS_Subset
<1>6. Cardinality(seen) = Cardinality(present) - Cardinality(gone)
  <2>1. present \cap gone = gone
    BY <1>3
  <2> HIDE DEF present, gone, seen
  <2> QED
    BY <1>4, <1>5, <2>1, FS_Difference
<1>7. Cardinality(passed) = Cardinality(gone)
  <2> DEFINE f == [k \in gone |-> <<s.ttl[k], k>>]
  <2>1. passed = {<<s.ttl[k], k>> : k \in gone}
    BY <1>1, <1>2 DEF Mirror, expired
  <2>2. f \in [gone -> passed]
    BY <2>1
  <2>3. \A e \in passed : \E k \in gone : f[k] = e
    BY <2>1
  <2>4. \A j, k \in gone : f[j] = f[k] => j = k
    OBVIOUS
  <2> HIDE DEF f, gone, passed
  <2> QED
    BY <1>5, <2>2, <2>3, <2>4, SameSize
<1>8. Cardinality(pairs) = Cardinality(seen)
  <2> DEFINE f == [k \in seen |-> <<k, get(s, k, now)>>]
  <2>1. f \in [seen -> pairs]
    OBVIOUS
  <2>2. \A e \in pairs : \E k \in seen : f[k] = e
    OBVIOUS
  <2>3. \A j, k \in seen : f[j] = f[k] => j = k
    OBVIOUS
  <2> HIDE DEF f, seen, pairs
  <2> QED
    BY <1>5, <2>1, <2>2, <2>3, SameSize
<1>9. liveLen(s, now) = Cardinality(present) - Cardinality(passed)
  BY DEF liveLen
<1>10. ASSUME NEW n \in DOMAIN s.idx PROVE iterIndexTree(s, n, now) = pairs
  <2>1. s.idx[n] = {<<k, s.data[k]>> : k \in present}
    BY <1>1 DEF Mirror
  <2>2. \A k \in seen : get(s, k, now) = s.data[k] /\ k \in present /\ ~expired(s, k, now)
    BY DEF get
  <2>3. \A k \in present : ~expired(s, k, now) => k \in seen
    BY <1>4
  <2> HIDE DEF seen, present
  <2> QED
    BY <2>1, <2>2, <2>3 DEF iterIndexTree
<1> HIDE DEF present, gone, seen, passed
<1>11. liveLen(s, now) = Cardinality(pairs)
  BY <1>6, <1>7, <1>8, <1>9
<1> QED
  BY <1>10, <1>11 DEF seen

\* Get, index scans and LiveLen agree in every state a reader can be given, at
\* any time.
THEOREM WaysToReadAgree == Spec => []ReadsAgree
<1>1. TypeOK /\ Mirrored => ReadsAgree
  <2> SUFFICES ASSUME TypeOK, Mirrored, NEW s \in AllStates, NEW now \in 0 .. MaxClock
               PROVE  LET pairs == {<<k, get(s, k, now)>> :
                                      k \in {j \in Keys : get(s, j, now) # NoValue}}
                      IN  /\ liveLen(s, now) = Cardinality(pairs)
                          /\ \A n \in DOMAIN s.idx : iterIndexTree(s, n, now) = pairs
    BY DEF ReadsAgree
  <2>1. \A t \in Txs : \A i \in DOMAIN saves[t] : saves[t][i].state \in States
    <3> TAKE t \in Txs
    <3>1. saves[t] \in Seq([state : States, pendingLen : Nat])
      BY DEF TypeOK
    <3>2. \A i \in DOMAIN saves[t] : saves[t][i] \in [state : States, pendingLen : Nat]
      BY <3>1, LenProperties, ElementOfSeq
    <3> QED
      BY <3>2
  <2>2. s \in States
    BY <2>1 DEF AllStates, TypeOK
  <2>3. s \in Good
    BY <2>2 DEF Mirrored, Good
  <2>4. now \in Nat
    BY BoundsAssumption
  <2> QED
    BY <2>3, <2>4, GoodReads
<1> QED
  BY <1>1, StoreTypes, DerivedTreesMirror, PTL
-----------------------------------------------------------------------------
(***************************************************************************)
(* Pending records explain a transaction's state.  A finished handle has   *)
(* no records and no savepoints, so that Begin starts from none; the       *)
(* savepoints of a read-only transaction are all its one state.            *)
(***************************************************************************)
Explains(st, m, v, p, sv) ==
  /\ m = "done" => p = <<>> /\ sv = <<>>
  /\ m = "read" => \A i \in 1 .. Len(sv) : sv[i].state = v
  /\ m = "write" =>
       /\ v = replay(st, p)
       /\ \A i \in 1 .. Len(sv) : sv[i].state = replay(st, SubSeq(p, 1, sv[i].pendingLen))

PendingInv == \A t \in Txs : Explains(state, mode[t], view[t], pending[t], saves[t])

\* Cutting a sequence that was appended to, or cut before.
LEMMA CutConcat ==
  ASSUME NEW S, NEW p \in Seq(S), NEW q \in Seq(S), NEW n \in Nat, n <= Len(p)
  PROVE  SubSeq(p \o q, 1, n) = SubSeq(p, 1, n)
<1>1. /\ p \o q \in Seq(S) /\ Len(p \o q) = Len(p) + Len(q)
      /\ \A i \in 1 .. Len(p) + Len(q) : (p \o q)[i] = IF i <= Len(p) THEN p[i] ELSE q[i - Len(p)]
  BY ConcatProperties
<1>2. Len(p) \in Nat /\ Len(q) \in Nat
  BY LenProperties
<1>3. n <= Len(p \o q) /\ \A i \in 1 .. n : (p \o q)[i] = p[i]
  BY <1>1, <1>2
<1> DEFINE c == p \o q
<1> HIDE DEF c
<1>4. /\ SubSeq(c, 1, n) \in Seq(S) /\ Len(SubSeq(c, 1, n)) = n
      /\ \A i \in 1 .. n : SubSeq(c, 1, n)[i] = c[i]
  BY <1>1, <1>3, Beginning DEF c
<1>5. /\ SubSeq(p, 1, n) \in Seq(S) /\ Len(SubSeq(p, 1, n)) = n
      /\ \A i \in 1 .. n : SubSeq(p, 1, n)[i] = p[i]
  BY Beginning
<1>6. \A i \in 1 .. n : SubSeq(c, 1, n)[i] = SubSeq(p, 1, n)[i]
  BY <1>3, <1>4, <1>5 DEF c
<1>7. SubSeq(c, 1, n) = SubSeq(p, 1, n)
  BY <1>4, <1>5, <1>6, SeqEqual
<1> QED
  BY <1>7 DEF c

LEMMA CutCut ==
  ASSUME NEW S, NEW p \in Seq(S), NEW m \in Nat, NEW n \in Nat, n <= m, m <= Len(p)
  PROVE  SubSeq(SubSeq(p, 1, m), 1, n) = SubSeq(p, 1, n)
<1>1. Len(p) \in Nat /\ n <= Len(p)
  BY LenProperties
<1> DEFINE c == SubSeq(p, 1, m)
<1>2. c \in Seq(S) /\ Len(c) = m /\ \A i \in 1 .. m : c[i] = p[i]
  BY Beginning
<1> HIDE DEF c
<1>3. /\ SubSeq(c, 1, n) \in Seq(S) /\ Len(SubSeq(c, 1, n)) = n
      /\ \A i \in 1 .. n : SubSeq(c, 1, n)[i] = c[i]
  BY <1>2, Beginning
<1>4. /\ SubSeq(p, 1, n) \in Seq(S) /\ Len(SubSeq(p, 1, n)) = n
      /\ \A i \in 1 .. n : SubSeq(p, 1, n)[i] = p[i]
  BY <1>1, Beginning
<1>5. \A i \in 1 .. n : SubSeq(c, 1, n)[i] = SubSeq(p, 1, n)[i]
  BY <1>2, <1>3, <1>4
<1>6. SubSeq(c, 1, n) = SubSeq(p, 1, n)
  BY <1>3, <1>4, <1>5, SeqEqual
<1> QED
  BY <1>6 DEF c

LEMMA CutWhole ==
  ASSUME NEW S, NEW p \in Seq(S)
  PROVE  SubSeq(p, 1, Len(p)) = p
<1>1. Len(p) \in Nat
  BY LenProperties
<1>2. /\ SubSeq(p, 1, Len(p)) \in Seq(S) /\ Len(SubSeq(p, 1, Len(p))) = Len(p)
      /\ \A i \in 1 .. Len(p) : SubSeq(p, 1, Len(p))[i] = p[i]
  BY <1>1, Beginning
<1> QED
  BY <1>2, SeqEqual

\* The live state changes only while no transaction can write, or by the
\* commit of the one that can.
LEMMA PendingKept ==
  ASSUME StoreInv, PendingInv, UNCHANGED txVars, writerMu = "free" \/ state' = state
  PROVE  PendingInv'
<1>1. UNCHANGED <<writerMu, mode, view, pending, saves>>
  BY DEF txVars
<1>2. ASSUME NEW t \in Txs
      PROVE  Explains(state', mode'[t], view'[t], pending'[t], saves'[t])
  <2>1. CASE state' = state
    BY <1>1, <2>1 DEF PendingInv
  <2>2. CASE writerMu = "free"
    <3>1. mode[t] # "write"
      BY <2>2, TxsAssumption DEF StoreInv, TxOK
    <3> QED
      BY <1>1, <3>1 DEF PendingInv, Explains
  <2> QED
    BY <2>1, <2>2
<1> QED
  BY <1>2 DEF PendingInv

\* One handle changes, and the live state does not.
LEMMA PendingOne ==
  ASSUME StoreInv, PendingInv, NEW t \in Txs, state' = state,
         NEW m, NEW v, NEW p, NEW sv, Explains(state, m, v, p, sv),
         mode' = [mode EXCEPT ![t] = m],
         view' = [view EXCEPT ![t] = v],
         pending' = [pending EXCEPT ![t] = p],
         saves' = [saves EXCEPT ![t] = sv]
  PROVE  PendingInv'
<1>1. ASSUME NEW u \in Txs
      PROVE  Explains(state', mode'[u], view'[u], pending'[u], saves'[u])
  <2>1. CASE u = t
    <3>1. mode'[u] = m /\ view'[u] = v /\ pending'[u] = p /\ saves'[u] = sv
      BY <2>1 DEF StoreInv, TxOK
    <3> QED
      BY <3>1
  <2>2. CASE u # t
    <3>1. mode'[u] = mode[u] /\ view'[u] = view[u] /\ pending'[u] = pending[u] /\ saves'[u] = saves[u]
      BY <2>2 DEF StoreInv, TxOK
    <3> QED
      BY <3>1 DEF PendingInv
  <2> QED
    BY <2>1, <2>2
<1> QED
  BY <1>1 DEF PendingInv

LEMMA PendingInit == Init => PendingInv
BY DEF Init, PendingInv, Explains

LEMMA PendingBegin ==
  ASSUME StoreInv, PendingInv, NEW t \in Txs, NEW writable \in BOOLEAN, Begin(t, writable)
  PROVE  PendingInv'
<1> DEFINE m == IF writable THEN "write" ELSE "read"
<1>1. /\ mode[t] = "done" /\ state' = state
      /\ mode' = [mode EXCEPT ![t] = m] /\ view' = [view EXCEPT ![t] = state]
      /\ UNCHANGED <<pending, saves>>
  BY DEF Begin, dbVars
<1>2. pending[t] = <<>> /\ saves[t] = <<>>
  BY <1>1 DEF PendingInv, Explains
<1>3. Explains(state, m, state, pending[t], saves[t])
  BY <1>2, ReplayEmpty DEF Explains
<1>4. /\ pending' = [pending EXCEPT ![t] = pending[t]]
      /\ saves' = [saves EXCEPT ![t] = saves[t]]
  BY <1>1, TxHas DEF StoreInv
<1>5. state' = state /\ mode' = [mode EXCEPT ![t] = m] /\ view' = [view EXCEPT ![t] = state]
  BY <1>1
<1> HIDE DEF m
<1> DEFINE v == state
           p == pending[t]
           sv == saves[t]
<1>6. Explains(state, m, v, p, sv)
  BY <1>3
<1>7. /\ view' = [view EXCEPT ![t] = v] /\ pending' = [pending EXCEPT ![t] = p]
      /\ saves' = [saves EXCEPT ![t] = sv]
  BY <1>4, <1>5
<1> HIDE DEF v, p, sv
<1> QED
  BY <1>5, <1>6, <1>7, PendingOne

\* Records are applied to the private state in the order they will be logged.
LEMMA PendingWrite ==
  ASSUME StoreInv, PendingInv, NEW t \in Txs, NEW recs \in Seq(Records), TxWrite(t, recs)
  PROVE  PendingInv'
<1> DEFINE p == pending[t]
           q == p \o recs
           v == replay(view[t], recs)
           sv == saves[t]
<1>1. /\ mode[t] = "write" /\ state' = state /\ UNCHANGED <<mode, saves>>
      /\ view' = [view EXCEPT ![t] = v] /\ pending' = [pending EXCEPT ![t] = q]
  BY DEF TxWrite, Private, dbVars
<1>2. /\ p \in Seq(Records) /\ sv \in Seq(Saves) /\ SavesOK(sv, Len(p))
      /\ saves = [saves EXCEPT ![t] = sv] /\ mode = [mode EXCEPT ![t] = mode[t]]
  BY TxHas DEF StoreInv, TxOK
<1>3. Explains(state, mode[t], view[t], p, sv)
  BY DEF PendingInv
<1>4. v = replay(state, q)
  BY <1>1, <1>2, <1>3, ReplayConcat DEF Explains
<1>5. ASSUME NEW i \in 1 .. Len(sv)
      PROVE  sv[i].state = replay(state, SubSeq(q, 1, sv[i].pendingLen))
  <2> DEFINE n == sv[i].pendingLen
  <2>1. n \in Nat /\ n <= Len(p)
    BY <1>2, SaveTypes DEF SavesOK
  <2>2. sv[i].state = replay(state, SubSeq(p, 1, n))
    BY <1>1, <1>3 DEF Explains
  <2> HIDE DEF n, p, sv
  <2>3. SubSeq(q, 1, n) = SubSeq(p, 1, n)
    BY <1>2, <2>1, CutConcat
  <2> QED
    BY <2>2, <2>3 DEF n
<1>6. Explains(state, mode[t], v, q, sv)
  BY <1>1, <1>4, <1>5 DEF Explains
<1> HIDE DEF p, q, v, sv
<1> QED
  BY <1>1, <1>2, <1>6, PendingOne

LEMMA PendingSavepoint ==
  ASSUME StoreInv, PendingInv, NEW t \in Txs, Savepoint(t)
  PROVE  PendingInv'
<1> DEFINE p == pending[t]
           one == [state |-> view[t], pendingLen |-> Len(p)]
           sv == saves[t]
           sw == Append(sv, one)
<1>1. /\ mode[t] # "done" /\ state' = state /\ UNCHANGED <<mode, view, pending>>
      /\ saves' = [saves EXCEPT ![t] = sw]
  BY DEF Savepoint, dbVars
<1>2. /\ p \in Seq(Records) /\ sv \in Seq(Saves) /\ view[t] \in Good /\ Len(p) \in Nat
      /\ view = [view EXCEPT ![t] = view[t]] /\ mode = [mode EXCEPT ![t] = mode[t]]
      /\ pending = [pending EXCEPT ![t] = p]
  BY TxHas DEF StoreInv, TxOK
<1>3. Explains(state, mode[t], view[t], p, sv)
  BY DEF PendingInv
<1>4. one \in Saves /\ one.state = view[t] /\ one.pendingLen = Len(p)
  BY <1>2 DEF Saves
<1>5. SubSeq(p, 1, Len(p)) = p
  BY <1>2, CutWhole
<1> HIDE DEF one, p, sv
<1>6. /\ Len(sv) \in Nat /\ Len(sw) = Len(sv) + 1
      /\ \A i \in 1 .. Len(sv) : sw[i] = sv[i]
      /\ sw[Len(sv) + 1] = one
  BY <1>2, <1>4, AppendProperties, LenProperties
<1> HIDE DEF sw
<1>7. \A i \in 1 .. Len(sw) : i \in 1 .. Len(sv) \/ i = Len(sv) + 1
  BY <1>6
<1>8. Explains(state, mode[t], view[t], p, sw)
  BY <1>1, <1>3, <1>4, <1>5, <1>6, <1>7 DEF Explains
<1> QED
  BY <1>1, <1>2, <1>8, PendingOne

\* The records of earlier savepoints are beginnings of those that stay.
LEMMA PendingRollbackTo ==
  ASSUME StoreInv, PendingInv, NEW t \in Txs, NEW i \in Nat, RollbackTo(t, i)
  PROVE  PendingInv'
<1> DEFINE p == pending[t]
           sv == saves[t]
           n == sv[i].pendingLen
           q == SubSeq(p, 1, n)
           sw == SubSeq(sv, 1, i)
<1>1. /\ mode[t] # "done" /\ state' = state /\ mode' = mode
      /\ view' = [view EXCEPT ![t] = sv[i].state]
      /\ pending' = [pending EXCEPT ![t] = q] /\ saves' = [saves EXCEPT ![t] = sw]
  BY DEF RollbackTo, dbVars
<1>2. /\ p \in Seq(Records) /\ sv \in Seq(Saves) /\ SavesOK(sv, Len(p))
      /\ mode = [mode EXCEPT ![t] = mode[t]]
  BY TxHas DEF StoreInv, TxOK
<1>3. Explains(state, mode[t], view[t], p, sv)
  BY DEF PendingInv
<1>4. i \in 1 .. Len(sv) /\ Len(sv) \in Nat /\ i <= Len(sv)
  BY <1>2, RollbackToOK, LenProperties
<1>5. n \in Nat /\ n <= Len(p)
  BY <1>2, <1>4, SaveTypes DEF SavesOK
<1>6. Len(sw) = i /\ \A j \in 1 .. i : sw[j] = sv[j]
  <2> HIDE DEF sv
  <2> QED
    BY <1>2, <1>4, Beginning
<1>7. ASSUME NEW j \in 1 .. i, mode[t] = "write"
      PROVE  sw[j].state = replay(state, SubSeq(q, 1, sw[j].pendingLen))
  <2> DEFINE k == sv[j].pendingLen
  <2>1. j \in 1 .. Len(sv) /\ sw[j] = sv[j]
    BY <1>4, <1>6
  <2>2. k \in Nat /\ k <= n
    BY <1>2, <1>4, <2>1, SaveTypes DEF SavesOK
  <2>3. sv[j].state = replay(state, SubSeq(p, 1, k))
    BY <1>3, <1>7, <2>1 DEF Explains
  <2> HIDE DEF k, n, p, sv, sw
  <2>4. SubSeq(q, 1, k) = SubSeq(p, 1, k)
    BY <1>2, <1>5, <2>2, CutCut
  <2> QED
    BY <2>1, <2>3, <2>4 DEF k
<1>8. /\ mode[t] = "write" => sv[i].state = replay(state, q)
      /\ mode[t] = "read" => \A j \in 1 .. i : sv[j].state = sv[i].state
  BY <1>3, <1>4 DEF Explains
<1> HIDE DEF p, sv, n, q, sw
<1>9. Explains(state, mode[t], sv[i].state, q, sw)
  BY <1>1, <1>6, <1>7, <1>8 DEF Explains
<1> QED
  BY <1>1, <1>2, <1>9, PendingOne

LEMMA PendingRelease ==
  ASSUME StoreInv, PendingInv, NEW t \in Txs, NEW i \in Nat, Release(t, i)
  PROVE  PendingInv'
<1> DEFINE sv == saves[t]
           sw == SubSeq(sv, 1, i - 1)
<1>1. /\ mode[t] # "done" /\ state' = state /\ UNCHANGED <<mode, view, pending>>
      /\ saves' = [saves EXCEPT ![t] = sw]
  BY DEF Release, dbVars
<1>2. /\ sv \in Seq(Saves)
      /\ view = [view EXCEPT ![t] = view[t]] /\ mode = [mode EXCEPT ![t] = mode[t]]
      /\ pending = [pending EXCEPT ![t] = pending[t]]
  BY TxHas DEF StoreInv, TxOK
<1>3. Explains(state, mode[t], view[t], pending[t], sv)
  BY DEF PendingInv
<1>4. Len(sv) \in Nat /\ i - 1 \in Nat /\ i - 1 <= Len(sv)
  BY <1>2, ReleaseOK, LenProperties
<1>5. Len(sw) = i - 1 /\ \A j \in 1 .. i - 1 : sw[j] = sv[j]
  <2> HIDE DEF sv
  <2> QED
    BY <1>2, <1>4, Beginning
<1> HIDE DEF sv, sw
<1>6. \A j \in 1 .. i - 1 : j \in 1 .. Len(sv)
  BY <1>4
<1>7. Explains(state, mode[t], view[t], pending[t], sw)
  BY <1>1, <1>3, <1>5, <1>6 DEF Explains
<1> QED
  BY <1>1, <1>2, <1>7, PendingOne

\* The one transaction that can write ends with its commit, so a new live
\* state meets no open writer.
LEMMA PendingEnd ==
  ASSUME StoreInv, PendingInv, NEW t \in Txs, Commit(t) \/ CommitFails(t) \/ Rollback(t)
  PROVE  PendingInv'
<1>1. /\ mode' = [mode EXCEPT ![t] = "done"]
      /\ view' = [view EXCEPT ![t] = newDBState]
      /\ pending' = [pending EXCEPT ![t] = <<>>]
      /\ saves' = [saves EXCEPT ![t] = <<>>]
  BY DEF Commit, CommitFails, Rollback, finish
<1>2. Explains(state, "done", newDBState, <<>>, <<>>)
  BY DEF Explains
<1>3. CASE state' = state
  BY <1>1, <1>2, <1>3, PendingOne
<1>4. CASE Commit(t)
  <2>1. mode[t] = "write"
    BY <1>4 DEF Commit
  <2>2. ASSUME NEW u \in Txs
        PROVE  Explains(state', mode'[u], view'[u], pending'[u], saves'[u])
    <3>1. CASE u = t
      BY <1>1, <3>1 DEF Explains, StoreInv, TxOK
    <3>2. CASE u # t
      <4>1. mode[u] # "write"
        BY <2>1, <3>2 DEF StoreInv, TxOK
      <4>2. /\ mode'[u] = mode[u] /\ view'[u] = view[u]
            /\ pending'[u] = pending[u] /\ saves'[u] = saves[u]
        BY <1>1, <3>2 DEF StoreInv, TxOK
      <4> QED
        BY <4>1, <4>2 DEF PendingInv, Explains
    <3> QED
      BY <3>1, <3>2
  <2> QED
    BY <2>2 DEF PendingInv
<1>5. CommitFails(t) \/ Rollback(t) => state' = state
  BY DEF CommitFails, Rollback, writeLogFails, dbVars
<1> QED
  BY <1>3, <1>4, <1>5

LEMMA PendingStep == StoreInv /\ PendingInv /\ [Next]_vars => PendingInv'
<1> SUFFICES ASSUME StoreInv, PendingInv, [Next]_vars PROVE PendingInv'
  OBVIOUS
<1>1. CASE UNCHANGED vars
  <2>1. UNCHANGED txVars /\ state' = state
    BY <1>1 DEF vars, dbVars
  <2> QED
    BY <2>1, PendingKept
<1>2. CASE Next
  <2>1. ASSUME \/ \E k \in Keys, v \in Values, deadline \in Nat : Set(k, v, deadline)
               \/ \E k \in Keys, now \in 0 .. clock, existed \in BOOLEAN : Delete(k, now, existed)
               \/ WriteFails
               \/ \E n \in Names : CreateIndex(n) \/ DropIndex(n)
               \/ SweepUpdate \/ SweepNothing
        PROVE  PendingInv'
    <3>1. writerMu = "free" /\ UNCHANGED txVars
      BY <2>1 DEF Set, Delete, WriteFails, CreateIndex, DropIndex, SweepUpdate, SweepNothing
    <3> QED
      BY <3>1, PendingKept
  <2>2. ASSUME SweepScan \/ CompactStep \/ Close \/ Tick PROVE PendingInv'
    <3>1. state' = state /\ UNCHANGED txVars
      BY <2>2 DEF SweepScan, CompactStep, CompactStart, writeSnapshot, CompactSwap, CompactAbort,
                  Close, Tick, dbVars
    <3> QED
      BY <3>1, PendingKept
  <2>3. CASE Open
    BY <2>3 DEF Open, PendingInv, Explains
  <2>4. ASSUME NEW t \in Txs,
               \/ \E writable \in BOOLEAN : Begin(t, writable)
               \/ \E recs \in Seq(Records) : TxWrite(t, recs)
               \/ Savepoint(t)
               \/ \E i \in Nat : RollbackTo(t, i) \/ Release(t, i)
               \/ Commit(t) \/ CommitFails(t) \/ Rollback(t)
        PROVE  PendingInv'
    BY <2>4, PendingBegin, PendingWrite, PendingSavepoint, PendingRollbackTo, PendingRelease,
       PendingEnd
  <2> QED
    BY <1>2, <2>1, <2>2, <2>3, <2>4, Steps
<1> QED
  BY <1>1, <1>2

LEMMA PendingSpec == Spec => []PendingInv
BY PendingInit, PendingStep, StoreSpec, PTL DEF Spec

\* A writable transaction's state, and each of its savepoints', is the live
\* state plus the records it will log: writers are isolated, Commit publishes
\* what it logs, and RollbackTo takes back records together with changes.
THEOREM PendingIsExact == Spec => []PendingExplainsState
<1>1. StoreInv /\ PendingInv => PendingExplainsState
  <2> SUFFICES ASSUME StoreInv, PendingInv PROVE PendingExplainsState
    OBVIOUS
  <2>1. \A t \in Txs : DOMAIN saves[t] = 1 .. Len(saves[t])
    BY TxHas, LenProperties DEF StoreInv
  <2> QED
    BY <2>1 DEF PendingInv, Explains, PendingExplainsState
<1> QED
  BY <1>1, StoreSpec, PendingSpec, PTL

=============================================================================
