------------------------- MODULE ReplicationProofs --------------------------
(***************************************************************************)
(* Log shipping never splices two files, for any set of keys, any bounds   *)
(* and any range size.                                                     *)
(***************************************************************************)
EXTENDS Replication, SequenceTheorems, FiniteSetTheorems, TLAPS

\* A sequence of anything: what a cell holds does not matter here.
IsSeq(s) == \E S : s \in Seq(S)

\* Concatenation keeps what the first sequence holds (an append to the log).
LEMMA Concat ==
  ASSUME NEW s, NEW t, IsSeq(s), IsSeq(t)
  PROVE  /\ IsSeq(s \o t)
         /\ Len(s) \in Nat /\ Len(t) \in Nat
         /\ Len(s \o t) = Len(s) + Len(t)
         /\ \A i \in 1 .. Len(s) : (s \o t)[i] = s[i]
         /\ \A i \in 1 .. Len(t) : (s \o t)[Len(s) + i] = t[i]
<1>1. PICK S : s \in Seq(S)
  BY DEF IsSeq
<1>2. PICK T : t \in Seq(T)
  BY DEF IsSeq
<1> DEFINE U == S \cup T
<1>3. s \in Seq(U) /\ t \in Seq(U)
  BY <1>1, <1>2, SeqMonotonic
<1> HIDE DEF U
<1>4. /\ s \o t \in Seq(U)
      /\ Len(s \o t) = Len(s) + Len(t)
      /\ \A i \in 1 .. Len(s) + Len(t) :
           (s \o t)[i] = IF i <= Len(s) THEN s[i] ELSE t[i - Len(s)]
  BY <1>3, ConcatProperties
<1>5. Len(s) \in Nat /\ Len(t) \in Nat
  BY <1>3, LenProperties
<1>6. \A i \in 1 .. Len(s) : (s \o t)[i] = s[i]
  BY <1>4, <1>5
<1>7. \A i \in 1 .. Len(t) : (s \o t)[Len(s) + i] = t[i]
  BY <1>4, <1>5
<1> QED
  BY <1>4, <1>5, <1>6, <1>7 DEF IsSeq

\* A range within a sequence (a copy of part of the log).
LEMMA Subrange ==
  ASSUME NEW s, IsSeq(s), NEW m \in Nat, NEW n \in Nat, m <= n, n <= Len(s)
  PROVE  /\ IsSeq(SubSeq(s, m + 1, n))
         /\ Len(SubSeq(s, m + 1, n)) = n - m
         /\ \A i \in 1 .. n - m : SubSeq(s, m + 1, n)[i] = s[m + i]
<1>1. PICK S : s \in Seq(S)
  BY DEF IsSeq
<1>2. Len(s) \in Nat
  BY <1>1, LenProperties
<1>3. \A i \in m + 1 .. n : s[i] \in S
  BY <1>1, <1>2, ElementOfSeq
<1>4. /\ SubSeq(s, m + 1, n) \in Seq(S)
      /\ Len(SubSeq(s, m + 1, n)) = IF m + 1 <= n THEN n - (m + 1) + 1 ELSE 0
      /\ \A i \in 1 .. n - (m + 1) + 1 : SubSeq(s, m + 1, n)[i] = s[m + 1 + i - 1]
  <2>1. m + 1 \in Int /\ n \in Int
    OBVIOUS
  <2> QED
    BY <1>3, <2>1, SubSeqProperties
<1>5. IsSeq(SubSeq(s, m + 1, n))
  BY <1>4 DEF IsSeq
<1>6. Len(SubSeq(s, m + 1, n)) = n - m
  BY <1>4
<1>7. \A i \in 1 .. n - m : SubSeq(s, m + 1, n)[i] = s[m + i]
  BY <1>4
<1> QED
  BY <1>5, <1>6, <1>7

\* The records of a commit or of a snapshot are a sequence.
LEMMA SetCellsSeq ==
  ASSUME NEW st, NEW ks \in SUBSET Keys
  PROVE  IsSeq(SetCells(st, ks))
<1>1. IsFiniteSet(ks)
  BY KeysAssumption, FS_Subset
<1>2. Cardinality(ks) \in Nat
  BY <1>1, FS_CardinalityType
<1> DEFINE N == Cardinality(ks)
           F(i) == [key |-> KeyAt(ks, i), val |-> st[KeyAt(ks, i)]]
           S == {F(i) : i \in 1 .. N}
<1>3. SetCells(st, ks) = [i \in 1 .. N |-> F(i)]
  BY DEF SetCells
<1>4. \A i \in 1 .. N : F(i) \in S
  OBVIOUS
<1> HIDE DEF F, S
<1>5. [i \in 1 .. N |-> F(i)] \in [1 .. N -> S]
  BY <1>4
<1>6. [i \in 1 .. N |-> F(i)] \in Seq(S)
  BY <1>2, <1>5, SeqDef
<1> QED
  BY <1>3, <1>6 DEF IsSeq

LEMMA OneCell ==
  ASSUME NEW c
  PROVE  IsSeq(<<c>>) /\ IsSeq(<<>>) /\ Len(<<c>>) = 1 /\ Len(<<>>) = 0
<1>1. <<c>> \in Seq({c}) /\ <<>> \in Seq({c})
  OBVIOUS
<1> QED
  BY <1>1 DEF IsSeq

LEMMA CommitCellsSeq ==
  ASSUME NEW st, NEW ks \in SUBSET Keys
  PROVE  IsSeq(CommitCells(st, ks))
<1>1. IsSeq(SetCells(st, ks))
  BY SetCellsSeq
<1> DEFINE head == IF Cardinality(ks) > 1 THEN <<[batch |-> Cardinality(ks)]>> ELSE <<>>
<1>2. IsSeq(head)
  BY OneCell
<1> HIDE DEF head
<1>3. IsSeq(head \o SetCells(st, ks))
  BY <1>1, <1>2, Concat
<1> QED
  BY <1>3 DEF CommitCells, head

LEMMA SnapshotSeq ==
  ASSUME NEW st
  PROVE  IsSeq(writeSnapshot(st))
<1>1. IsSeq(SetCells(st, {k \in Keys : st[k] # 0}))
  BY SetCellsSeq
<1>2. IsSeq(<<Header>>)
  BY OneCell
<1> QED
  BY <1>1, <1>2, Concat DEF writeSnapshot
-----------------------------------------------------------------------------
(***************************************************************************)
(* The inductive invariant.  What a read in flight will copy lies in the   *)
(* file, and in a file that is open within the appends that were whole; and*)
(* epochs only grow, so that a swap leaves every follower behind.          *)
(***************************************************************************)
Types ==
  /\ IsSeq(file) /\ IsSeq(replica)
  /\ walSize \in Nat /\ durable \in Nat
  /\ fileEpoch \in Nat /\ epoch \in Nat
  /\ reading \in Nat
  /\ snap.tailStart \in Nat

InFlight ==
  reading # Idle =>
    /\ Len(replica) + reading <= Len(file)
    /\ status = "open" => epoch = fileEpoch /\ Len(replica) + reading <= walSize

ShipInv ==
  /\ Types
  /\ TypeOK
  /\ InFlight
  /\ status = "open" => epoch <= fileEpoch
  /\ NeverSpliced

USE MaxRangeAssumption DEF Idle, Unlocked

LEMMA ShipInit == Init => ShipInv
<1> SUFFICES ASSUME Init PROVE ShipInv
  OBVIOUS
<1>1. IsSeq(<<Header>>) /\ IsSeq(<<>>) /\ Len(<<Header>>) = 1 /\ Len(<<>>) = 0
  BY OneCell
<1> QED
  BY <1>1 DEF Init, LogInit, NoSnap, ShipInv, Types, TypeOK, LogTypeOK, InFlight, NeverSpliced

\* An append, whole or not, leaves what is before it alone.
LEMMA AppendKeeps ==
  ASSUME ShipInv, NEW cells, IsSeq(cells),
         canWrite,
         file' = file \o cells,
         walSize' \in {walSize, Len(file')},
         walSize' = Len(file') \/ writeErr' = "failed",
         UNCHANGED <<durable, fileEpoch, status, compactMu, snap, followerVars>>
  PROVE  ShipInv'
<1>1. /\ IsSeq(file')
      /\ Len(file) \in Nat /\ Len(file') \in Nat
      /\ Len(file) <= Len(file')
      /\ \A i \in 1 .. Len(file) : file'[i] = file[i]
  BY Concat DEF ShipInv, Types
<1>2. Len(replica) \in Nat
  BY OneCell, Concat DEF ShipInv, Types
<1>3. walSize' \in Nat /\ walSize <= walSize' /\ walSize' <= Len(file') /\ walSize = Len(file)
  BY <1>1 DEF ShipInv, Types, TypeOK, LogTypeOK, canWrite
<1>4. Types'
  BY <1>1, <1>3 DEF ShipInv, Types, followerVars
<1>5. TypeOK'
  BY <1>1, <1>3 DEF ShipInv, Types, TypeOK, LogTypeOK, followerVars, canWrite
<1>6. InFlight' /\ (status = "open" => epoch <= fileEpoch)'
  BY <1>1, <1>2, <1>3 DEF ShipInv, Types, InFlight, followerVars
<1>7. NeverSpliced'
  BY <1>1, <1>2, <1>3 DEF ShipInv, NeverSpliced, followerVars
<1> QED
  BY <1>4, <1>5, <1>6, <1>7 DEF ShipInv

LEMMA WriteShips ==
  ASSUME ShipInv, NEW ks \in SUBSET Keys, Write(ks), UNCHANGED followerVars
  PROVE  ShipInv'
<1> DEFINE st == [k \in Keys |-> IF k \in ks THEN commits + 1 ELSE state[k]]
<1>1. IsSeq(CommitCells(st, ks))
  BY CommitCellsSeq
<1> HIDE DEF st
<1>2. file' = file \o CommitCells(st, ks)
  BY DEF Write, st
<1> QED
  BY <1>1, <1>2, AppendKeeps DEF Write

LEMMA WriteFailsShips ==
  ASSUME ShipInv, NEW ks \in SUBSET Keys, WriteFails(ks), UNCHANGED followerVars
  PROVE  ShipInv'
<1> DEFINE cells == CommitCells([k \in Keys |-> commits + 1], ks)
<1>1. IsSeq(cells)
  BY CommitCellsSeq
<1> HIDE DEF cells
<1>2. PICK n \in 0 .. Len(cells) - 1 : file' = file \o SubSeq(cells, 1, n)
  BY DEF WriteFails, cells
<1>3. Len(cells) \in Nat
  BY <1>1, Concat
<1>4. IsSeq(SubSeq(cells, 0 + 1, n))
  <2>1. 0 \in Nat /\ n \in Nat /\ 0 <= n /\ n <= Len(cells)
    BY <1>2, <1>3
  <2> QED
    BY <1>1, <2>1, Subrange
<1>5. IsSeq(SubSeq(cells, 1, n))
  BY <1>4
<1> QED
  BY <1>2, <1>5, AppendKeeps DEF WriteFails

\* Fsync and Close move no cell.
LEMMA SyncAndCloseShip ==
  ASSUME ShipInv, Fsync \/ CloseBegin \/ CloseEnd, UNCHANGED followerVars
  PROVE  ShipInv'
<1>1. Len(file) \in Nat /\ Len(replica) \in Nat
  BY Concat DEF ShipInv, Types
<1>2. UNCHANGED <<file, walSize, fileEpoch, writeErr, compactMu, snap, followerVars>>
  BY DEF Fsync, CloseBegin, CloseEnd
<1>3. /\ durable' \in {durable, Len(file)}
      /\ status' = status \/ status' \in {"closing", "closed"}
  BY DEF Fsync, CloseBegin, CloseEnd
<1>4. Types'
  BY <1>1, <1>2, <1>3 DEF ShipInv, Types, followerVars
<1>5. TypeOK'
  BY <1>1, <1>2, <1>3 DEF ShipInv, Types, TypeOK, LogTypeOK, followerVars
<1>6. InFlight' /\ (status = "open" => epoch <= fileEpoch)'
  BY <1>2, <1>3 DEF ShipInv, InFlight, followerVars
<1>7. NeverSpliced'
  BY <1>2, <1>3 DEF ShipInv, NeverSpliced, followerVars
<1> QED
  BY <1>4, <1>5, <1>6, <1>7 DEF ShipInv

LEMMA CompactBeginShips ==
  ASSUME ShipInv, CompactBegin, UNCHANGED followerVars
  PROVE  ShipInv'
<1>1. /\ UNCHANGED <<file, walSize, durable, fileEpoch, status, writeErr, followerVars>>
      /\ compactMu = "nobody" /\ compactMu' = "compact"
      /\ snap'.tailStart = walSize
  BY DEF CompactBegin
<1>2. Types'
  BY <1>1 DEF ShipInv, Types, followerVars
<1>3. TypeOK'
  BY <1>1 DEF ShipInv, Types, TypeOK, LogTypeOK, followerVars
<1>4. InFlight' /\ (status = "open" => epoch <= fileEpoch)' /\ NeverSpliced'
  BY <1>1 DEF ShipInv, InFlight, NeverSpliced, followerVars
<1> QED
  BY <1>2, <1>3, <1>4 DEF ShipInv

\* The swap: no read is in flight, and no follower has the new epoch.
LEMMA CompactEndShips ==
  ASSUME ShipInv, CompactEnd, UNCHANGED followerVars
  PROVE  ShipInv'
<1> DEFINE tail == SubSeq(file, snap.tailStart + 1, walSize)
<1>1. /\ UNCHANGED <<status, writeErr, followerVars>>
      /\ compactMu = "compact" /\ compactMu' = "nobody"
      /\ snap'.tailStart = 0
  BY DEF CompactEnd, NoSnap
<1>2. reading = 0 /\ reading' = 0
  BY <1>1 DEF ShipInv, TypeOK, followerVars
<1>3. CASE UNCHANGED <<file, walSize, durable, fileEpoch>>
  <2>1. Types' /\ TypeOK'
    BY <1>1, <1>2, <1>3 DEF ShipInv, Types, TypeOK, LogTypeOK, followerVars
  <2>2. InFlight' /\ (status = "open" => epoch <= fileEpoch)' /\ NeverSpliced'
    BY <1>1, <1>2, <1>3 DEF ShipInv, InFlight, NeverSpliced, followerVars
  <2> QED
    BY <2>1, <2>2 DEF ShipInv
<1>4. CASE /\ canWrite
           /\ file' = writeSnapshot(snap.state) \o tail
           /\ walSize' = Len(file') /\ durable' = Len(file')
           /\ fileEpoch' = fileEpoch + 1
  <2>1. IsSeq(tail)
    <3>1. /\ snap.tailStart \in Nat /\ walSize \in Nat
          /\ snap.tailStart <= walSize /\ walSize <= Len(file)
          /\ IsSeq(file)
      BY <1>1, <1>4 DEF ShipInv, Types, TypeOK, LogTypeOK, canWrite
    <3> QED
      BY <3>1, Subrange
  <2> HIDE DEF tail
  <2>2. IsSeq(file')
    BY <1>4, <2>1, SnapshotSeq, Concat
  <2>3. Len(file') \in Nat
    BY <2>2, Concat
  <2>4. Types'
    BY <1>1, <1>2, <1>4, <2>2, <2>3 DEF ShipInv, Types, followerVars
  <2>5. TypeOK'
    BY <1>1, <1>2, <1>4, <2>3 DEF ShipInv, TypeOK, LogTypeOK
  <2>6. epoch' <= fileEpoch' /\ epoch' # fileEpoch'
    BY <1>1, <1>4 DEF ShipInv, Types, followerVars, canWrite
  <2> QED
    BY <1>2, <2>4, <2>5, <2>6 DEF ShipInv, InFlight, NeverSpliced
<1> QED
  BY <1>3, <1>4 DEF CompactEnd, tail

\* A new generation is empty.
LEMMA LogStateShips ==
  ASSUME ShipInv, LogState
  PROVE  ShipInv'
<1>1. IsSeq(<<>>) /\ Len(<<>>) = 0
  BY OneCell
<1>2. UNCHANGED <<file, walSize, durable, fileEpoch, status, writeErr, compactMu, snap, reading>>
  BY DEF LogState, logVars
<1>3. epoch' = fileEpoch' /\ replica' = <<>> /\ reading = 0
  BY DEF LogState, NewGeneration
<1>4. Types' /\ TypeOK'
  BY <1>1, <1>2, <1>3 DEF ShipInv, Types, TypeOK, LogTypeOK
<1>5. InFlight' /\ (status = "open" => epoch <= fileEpoch)' /\ NeverSpliced'
  BY <1>1, <1>2, <1>3 DEF ShipInv, Types, InFlight, NeverSpliced
<1> QED
  BY <1>4, <1>5 DEF ShipInv

LEMMA ReadBeginShips ==
  ASSUME ShipInv, ReadBegin
  PROVE  ShipInv'
<1>1. Len(file) \in Nat /\ Len(replica) \in Nat
  BY Concat DEF ShipInv, Types
<1>2. /\ UNCHANGED <<file, walSize, durable, fileEpoch, status, writeErr, snap, epoch, replica>>
      /\ status = "open" /\ fileEpoch = epoch
      /\ compactMu' = "read"
      /\ reading' = RangeLen(Len(replica)) /\ reading' > 0
  BY DEF ReadBegin
<1>3. walSize \in Nat /\ walSize <= Len(file)
  BY <1>2 DEF ShipInv, Types, TypeOK, LogTypeOK
<1>4. reading' \in Nat /\ reading' <= MaxRange /\ Len(replica) + reading' <= walSize
  BY <1>1, <1>2, <1>3 DEF RangeLen
<1>5. Types'
  BY <1>2, <1>4 DEF ShipInv, Types
<1>6. TypeOK'
  BY <1>2, <1>4 DEF ShipInv, TypeOK, LogTypeOK
<1>7. InFlight'
  BY <1>1, <1>2, <1>3, <1>4 DEF InFlight
<1>8. (status = "open" => epoch <= fileEpoch)' /\ NeverSpliced'
  BY <1>2 DEF ShipInv, NeverSpliced
<1> QED
  BY <1>5, <1>6, <1>7, <1>8 DEF ShipInv

\* The copied range continues the prefix the replica already is.
LEMMA ReadEndShips ==
  ASSUME ShipInv, ReadEnd
  PROVE  ShipInv'
<1>1. Len(file) \in Nat /\ Len(replica) \in Nat
  BY Concat DEF ShipInv, Types
<1>2. /\ UNCHANGED <<file, walSize, durable, fileEpoch, status, writeErr, snap, epoch>>
      /\ reading # 0 /\ reading' = 0 /\ compactMu' = "nobody"
  BY DEF ReadEnd
<1>3. PICK n \in 0 .. reading :
        /\ n < reading => status = "closed"
        /\ replica' = replica \o SubSeq(file, Len(replica) + 1, Len(replica) + n)
  BY DEF ReadEnd
<1>4. n \in Nat /\ n <= reading /\ Len(replica) + n <= Len(file)
  BY <1>1, <1>2, <1>3 DEF ShipInv, Types, InFlight
<1> DEFINE m == Len(replica)
           copied == SubSeq(file, m + 1, m + n)
<1>5. /\ IsSeq(copied) /\ Len(copied) = n
      /\ \A i \in 1 .. n : copied[i] = file[m + i]
  <2>1. m \in Nat /\ m + n \in Nat /\ m <= m + n /\ m + n <= Len(file) /\ m + n - m = n
    BY <1>1, <1>4
  <2>2. IsSeq(file)
    BY DEF ShipInv, Types
  <2> HIDE DEF m
  <2>3. /\ IsSeq(copied) /\ Len(copied) = m + n - m
        /\ \A i \in 1 .. m + n - m : copied[i] = file[m + i]
    BY <2>1, <2>2, Subrange
  <2> QED
    BY <2>1, <2>3
<1> HIDE DEF copied
<1>6. replica' = replica \o copied
  BY <1>3 DEF copied
<1>7. IsSeq(replica) /\ IsSeq(copied)
  BY <1>5 DEF ShipInv, Types
<1>8. /\ IsSeq(replica') /\ Len(replica') = Len(replica) + n
      /\ \A i \in 1 .. Len(replica) : replica'[i] = replica[i]
      /\ \A i \in 1 .. n : replica'[Len(replica) + i] = copied[i]
  <2> DEFINE joined == replica \o copied
  <2>1. /\ IsSeq(joined) /\ Len(joined) = Len(replica) + Len(copied)
        /\ \A i \in 1 .. Len(replica) : joined[i] = replica[i]
        /\ \A i \in 1 .. Len(copied) : joined[Len(replica) + i] = copied[i]
    BY <1>7, Concat
  <2>2. replica' = joined
    BY <1>6
  <2> HIDE DEF joined
  <2> QED
    BY <1>5, <2>1, <2>2
<1>9. Types' /\ TypeOK'
  BY <1>2, <1>8 DEF ShipInv, Types, TypeOK, LogTypeOK
<1>10. InFlight' /\ (status = "open" => epoch <= fileEpoch)'
  BY <1>2 DEF ShipInv, InFlight
<1>11. NeverSpliced'
  <2> SUFFICES ASSUME status = "open", epoch = fileEpoch
               PROVE  /\ Len(replica') <= walSize
                      /\ \A i \in 1 .. Len(replica') : replica'[i] = file[i]
    BY <1>2 DEF NeverSpliced
  <2>1. Len(replica) + reading <= walSize
    BY <1>2 DEF ShipInv, InFlight
  <2>2. Len(replica') <= walSize
    BY <1>1, <1>4, <1>8, <2>1 DEF ShipInv, Types
  <2>3. \A i \in 1 .. Len(replica) : replica'[i] = file[i]
    BY <1>8 DEF ShipInv, NeverSpliced
  <2>4. \A i \in 1 .. n : replica'[Len(replica) + i] = file[Len(replica) + i]
    BY <1>5, <1>8 DEF m
  <2>5. ASSUME NEW i \in 1 .. Len(replica')
        PROVE  replica'[i] = file[i]
    <3>1. CASE i <= Len(replica)
      BY <1>1, <2>3, <3>1
    <3>2. CASE i > Len(replica)
      <4>1. i - Len(replica) \in 1 .. n /\ Len(replica) + (i - Len(replica)) = i
        BY <1>1, <1>4, <1>8, <3>2
      <4> QED
        BY <2>4, <4>1
    <3> QED
      BY <1>1, <1>4, <1>8, <3>1, <3>2
  <2> QED
    BY <2>2, <2>5
<1> QED
  BY <1>9, <1>10, <1>11 DEF ShipInv

LEMMA CrashShips ==
  ASSUME ShipInv, Crash
  PROVE  ShipInv'
<1>1. Len(file) \in Nat
  BY Concat DEF ShipInv, Types
<1>2. /\ UNCHANGED <<walSize, fileEpoch, epoch, replica>>
      /\ status' = "closed" /\ compactMu' = "nobody" /\ reading' = 0
      /\ snap'.tailStart = 0
  BY DEF Crash, LogCrash, NoSnap
<1>3. PICK n \in durable .. Len(file) : file' = SubSeq(file, 1, n) /\ durable' = n
  BY DEF Crash, LogCrash
<1>4. n \in Nat /\ 0 \in Nat /\ 0 <= n /\ n <= Len(file) /\ n - 0 = n /\ 0 + 1 = 1
  BY <1>1 DEF ShipInv, Types
<1>5. IsSeq(file)
  BY DEF ShipInv, Types
<1>6. IsSeq(SubSeq(file, 0 + 1, n)) /\ Len(SubSeq(file, 0 + 1, n)) = n - 0
  BY <1>4, <1>5, Subrange
<1>7. IsSeq(file') /\ Len(file') = n
  BY <1>3, <1>4, <1>6
<1>8. Types' /\ TypeOK'
  BY <1>2, <1>3, <1>4, <1>7 DEF ShipInv, Types, TypeOK, LogTypeOK
<1> QED
  BY <1>2, <1>8 DEF ShipInv, InFlight, NeverSpliced

\* A new process: the epoch restarts at zero, and so does the follower.
LEMMA ReopenShips ==
  ASSUME ShipInv, Reopen
  PROVE  ShipInv'
<1>1. Len(file) \in Nat
  BY Concat DEF ShipInv, Types
<1>2. /\ UNCHANGED <<compactMu, snap, reading>>
      /\ compactMu = "nobody" /\ status' = "open"
      /\ fileEpoch' = 0 /\ epoch' = fileEpoch' /\ replica' = <<>>
      /\ walSize' = Len(file')
      /\ durable' = IF durable < Len(file') THEN durable ELSE Len(file')
  BY DEF Reopen, LogOpen, NewGeneration
<1>3. PICK n \in 0 .. Len(file) : file' = SubSeq(file, 1, n)
  BY DEF Reopen, LogOpen
<1>4. n \in Nat /\ 0 \in Nat /\ 0 <= n /\ n <= Len(file) /\ n - 0 = n /\ 0 + 1 = 1
  BY <1>1
<1>5. IsSeq(file) /\ reading = 0 /\ durable \in Nat
  BY <1>2 DEF ShipInv, Types, TypeOK
<1>6. IsSeq(SubSeq(file, 0 + 1, n)) /\ Len(SubSeq(file, 0 + 1, n)) = n - 0
  BY <1>4, <1>5, Subrange
<1>7. IsSeq(file') /\ Len(file') = n
  BY <1>3, <1>4, <1>6
<1>8. IsSeq(<<>>) /\ Len(<<>>) = 0
  BY OneCell
<1>9. Types' /\ TypeOK'
  BY <1>2, <1>4, <1>5, <1>7, <1>8 DEF ShipInv, Types, TypeOK, LogTypeOK
<1>10. InFlight' /\ (status = "open" => epoch <= fileEpoch)' /\ NeverSpliced'
  BY <1>2, <1>4, <1>5, <1>7, <1>8 DEF InFlight, NeverSpliced
<1> QED
  BY <1>9, <1>10 DEF ShipInv

LEMMA ShipStep == ShipInv /\ [Next]_vars => ShipInv'
<1> SUFFICES ASSUME ShipInv, [Next]_vars PROVE ShipInv'
  OBVIOUS
<1>1. CASE LogNext /\ UNCHANGED followerVars
  <2>1. CASE Commit
    <3>1. PICK ks \in SUBSET Keys : Write(ks) \/ WriteFails(ks)
      BY <2>1 DEF Commit
    <3> QED
      BY <1>1, <3>1, WriteShips, WriteFailsShips
  <2>2. CASE Fsync \/ CloseBegin \/ CloseEnd
    BY <1>1, <2>2, SyncAndCloseShip
  <2>3. CASE CompactBegin
    BY <1>1, <2>3, CompactBeginShips
  <2>4. CASE CompactEnd
    BY <1>1, <2>4, CompactEndShips
  <2> QED
    BY <1>1, <2>1, <2>2, <2>3, <2>4 DEF LogNext
<1>2. CASE LogState
  BY <1>2, LogStateShips
<1>3. CASE ReadBegin
  BY <1>3, ReadBeginShips
<1>4. CASE ReadEnd
  BY <1>4, ReadEndShips
<1>5. CASE Crash
  BY <1>5, CrashShips
<1>6. CASE Reopen
  BY <1>6, ReopenShips
<1>7. CASE UNCHANGED vars
  BY <1>7 DEF vars, logVars, followerVars, ShipInv, Types, TypeOK, LogTypeOK, InFlight,
     NeverSpliced
<1> QED
  BY <1>1, <1>2, <1>3, <1>4, <1>5, <1>6, <1>7 DEF Next

\* A read in flight owns compactMu, and appends that failed stay beyond
\* walSize, in every execution of ReadLogRange, Compact, Close and writers.
THEOREM ShippingTypes == Spec => []TypeOK
<1>1. Spec => []ShipInv
  BY ShipInit, ShipStep, PTL DEF Spec
<1>2. ShipInv => TypeOK
  BY DEF ShipInv
<1> QED
  BY <1>1, <1>2, PTL

\* What ReadLogRange gave a follower at the log's own epoch is a prefix of
\* the log: no range ever comes from another file than the one before it.
THEOREM RangesNeverSplice == Spec => []NeverSpliced
<1>1. Spec => []ShipInv
  BY ShipInit, ShipStep, PTL DEF Spec
<1>2. ShipInv => NeverSpliced
  BY DEF ShipInv
<1> QED
  BY <1>1, <1>2, PTL

=============================================================================
