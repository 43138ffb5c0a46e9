------------------------- MODULE GroupCommitProofs --------------------------
(***************************************************************************)
(* Acknowledged commits are durable and GroupCommit implements DurableLog. *)
(***************************************************************************)
EXTENDS GroupCommitDisk

\* What a leader's fsync will have established when it publishes its cover.
LeaderInv(w) ==
  /\ pc[w] \in {"fsync", "check", "poison"} =>
       /\ ldr[w].err = "nil"
       /\ ldr[w].f = file => base + ldr[w].cover <= ldr[w].goal
       /\ ldr[w].f # file => OnDisk(base + ldr[w].cover)
  /\ pc[w] = "finish" /\ ldr[w].err = "nil" => OnDisk(base + ldr[w].cover)

\* The watermark, the acknowledgements and Close's result are backed by disk.
SyncedInv == synced <= appendSeq /\ (synced > 0 => OnDisk(base + synced))

WaitInv == \A w \in Writers : pc[w] # "idle" => seq[w] > 0

ClosedInv == closeErr = "nil" => closed /\ MuFree /\ OnDisk(Applied)

WatermarkInv == SyncedInv /\ AckedDurable /\ WaitInv /\ ClosedInv

DurabilityInv ==
  /\ TypeInv /\ LogInv
  /\ DirectoryInv /\ DiskInv /\ WatermarkInv
  /\ \A w \in Writers : LeaderInv(w)

-----------------------------------------------------------------------------
LEMMA WatermarkStep ==
  ASSUME ~DropsDirty, ~SyncDirMayFail, DurabilityInv, [Next]_vars
  PROVE  WatermarkInv'
<1>a. TypeInv /\ LogInv /\ DirectoryInv /\ DiskInv
  BY DEF DurabilityInv
<1>b. SyncedInv /\ AckedDurable /\ WaitInv /\ ClosedInv
  BY DEF DurabilityInv, WatermarkInv
<1>c. \A n \in Nat : n <= durable[dirCur] /\ n <= durable[dirDur] =>
                     n <= durable'[dirCur'] /\ n <= durable'[dirDur']
  BY <1>a, DiskGrows DEF OnDisk
<1>d. /\ synced \in Nat /\ appendSeq \in Nat /\ base \in Nat /\ acked \in Nat
      /\ base + synced \in Nat /\ Applied \in Nat
  BY <1>a, TypeFacts DEF Applied
<1>e. /\ seq \in [Writers -> Nat] /\ \A w \in Writers : seq[w] \in Nat
      /\ pc \in [Writers -> {"idle", "wait", "sleep"} \union LeaderPcs]
  BY <1>a, TypeFacts
\* Each part of the invariant survives a step that leaves its variables alone.
<1>1. ASSUME UNCHANGED <<synced, base>>, appendSeq' \in {appendSeq, appendSeq + 1} PROVE SyncedInv'
  BY <1>1, <1>b, <1>c, <1>d DEF SyncedInv, OnDisk
<1>2. ASSUME UNCHANGED acked PROVE AckedDurable'
  BY <1>2, <1>b, <1>c, <1>d DEF AckedDurable, OnDisk
<1>3. ASSUME UNCHANGED seq, \A v \in Writers : pc'[v] # "idle" => pc[v] # "idle" PROVE WaitInv'
  BY <1>3, <1>b DEF WaitInv
<1>4. ASSUME UNCHANGED <<closeErr, base, appendSeq>>, closed => closed',
             closed => (MuFree => MuFree')
      PROVE  ClosedInv'
  BY <1>4, <1>b, <1>c, <1>d DEF ClosedInv, OnDisk, Applied
\* markDurable after an fsync that covers the whole log.
<1>5. ASSUME UNCHANGED <<base, appendSeq>>, synced' = Larger(synced, appendSeq), OnDisk(Applied)'
      PROVE  SyncedInv'
  <2>1. synced' = appendSeq
    BY <1>5, <1>b, <1>d DEF SyncedInv, Larger
  <2>2. QED
    BY <1>5, <2>1, <1>d DEF SyncedInv, OnDisk, Applied
<1>6. ASSUME MarkDurable PROVE WaitInv'
  <2>1. seq' = seq /\ \A v \in Writers : pc'[v] # "idle" => pc[v] # "idle"
    BY <1>6 DEF MarkDurable, Woken
  <2>2. QED
    BY <1>3, <2>1
<1> USE DEF WatermarkInv
<1>7. ASSUME NEW w \in Writers, Append(w) PROVE WatermarkInv'
  <2>1. UNCHANGED <<synced, base, acked, closeErr>> /\ appendSeq' = appendSeq + 1 /\ ~closed
    BY <1>7 DEF Append, WriteLog, CanWrite, gsVars, clVars, histVars
  <2>2. \A v \in Writers : seq'[v] = (IF v = w THEN appendSeq + 1 ELSE seq[v])
                           /\ (v # w => pc'[v] = pc[v])
    BY <1>7, <1>e DEF Append
  <2>3. WaitInv'
    BY <2>2, <1>b, <1>d DEF WaitInv
  <2>4. ClosedInv'
    BY <2>1, <1>b DEF ClosedInv
  <2>5. QED
    BY <1>1, <1>2, <2>1, <2>3, <2>4
<1>8. ASSUME NEW w \in Writers, Return(w) PROVE WatermarkInv'
  <2>1. UNCHANGED <<synced, base, appendSeq, clpc, closeErr, cpc, durable, dirCur, dirDur>>
        /\ acked' = (IF Covered(w) THEN Larger(acked, base + seq[w]) ELSE acked) /\ pc[w] = "wait"
    BY <1>8 DEF Return, dbVars, gsVars, clVars, cpVars, diskVars, dirVars
  <2>2. \A v \in Writers : pc'[v] # "idle" => pc[v] # "idle" /\ seq'[v] = seq[v]
    BY <1>8, <1>e DEF Return
  <2>3. Policy = "SyncAlways" /\ Covered(w) => OnDisk(base + seq[w])
    <3>1. seq[w] > 0 /\ seq[w] \in Nat
      BY <2>1, <1>b, <1>e DEF WaitInv
    <3>2. Policy = "SyncAlways" /\ Covered(w) => synced >= seq[w]
      BY DEF Covered
    <3>3. durable[dirCur] \in Nat /\ durable[dirDur] \in Nat
      BY <1>a, TypeFacts
    <3>4. QED
      BY <3>1, <3>2, <3>3, <1>b, <1>d DEF SyncedInv, OnDisk
  <2>4. AckedDurable'
    BY <2>1, <2>3, <1>b DEF AckedDurable, OnDisk, Larger
  <2>5. WaitInv'
    BY <2>2, <1>b DEF WaitInv
  <2>6. QED
    BY <1>1, <1>4, <2>1, <2>4, <2>5 DEF MuFree, closed
<1>9. ASSUME NEW w \in Writers,
             Sleep(w) \/ Lead(w) \/ LeaderCapture(w) \/ LeaderSyncOk(w)
               \/ LeaderSyncFail(w) \/ LeaderCheck(w) \/ LeaderPoison(w)
      PROVE  WatermarkInv'
  <2>1. UNCHANGED <<synced, appendSeq, base, acked, seq, clpc, closeErr, cpc>>
    BY <1>9 DEF Sleep, Lead, LeaderCapture, LeaderSyncOk, LeaderSyncFail, LeaderCheck,
       LeaderPoison, dbVars, gsVars, clVars, cpVars, histVars
  <2>2. pc[w] # "idle" /\ \E p : pc' = [pc EXCEPT ![w] = p]
    BY <1>9 DEF Sleep, Lead, LeaderCapture, LeaderSyncOk, LeaderSyncFail, LeaderCheck,
       LeaderPoison
  <2>3. \A v \in Writers : pc'[v] # "idle" => pc[v] # "idle"
    BY <2>2, <1>e
  <2>4. SyncedInv' /\ AckedDurable'
    BY <1>1, <1>2, <2>1
  <2>5. WaitInv'
    BY <1>3, <2>1, <2>3
  <2>6. ClosedInv'
    BY <1>4, <2>1 DEF MuFree, closed
  <2>7. QED
    BY <2>4, <2>5, <2>6
<1>10. ASSUME NEW w \in Writers, LeaderFinish(w) PROVE WatermarkInv'
  <2>1. /\ UNCHANGED <<appendSeq, base, acked, seq, clpc, closeErr, cpc, durable, dirCur, dirDur>>
        /\ synced' = (IF ldr[w].err = "nil" THEN Larger(synced, ldr[w].cover) ELSE synced)
        /\ pc[w] = "finish"
    BY <1>10 DEF LeaderFinish, dbVars, clVars, cpVars, histVars, diskVars, dirVars
  <2>2. ldr[w].cover <= appendSeq /\ ldr[w].cover \in Nat
    BY <2>1, <1>a, TypeFacts DEF DiskInv, LeaderPcs
  <2>3. ldr[w].err = "nil" => OnDisk(base + ldr[w].cover)
    BY <2>1 DEF DurabilityInv, LeaderInv
  <2>4. synced' \in {synced, ldr[w].cover} /\ (synced' = synced \/ ldr[w].err = "nil")
    BY <2>1 DEF Larger
  <2>5. SyncedInv'
    BY <2>1, <2>2, <2>3, <2>4, <1>b DEF SyncedInv, OnDisk
  <2>6. \A v \in Writers : pc'[v] # "idle" => pc[v] # "idle"
    BY <1>10, <1>e, <2>1 DEF LeaderFinish, Woken
  <2>7. AckedDurable' /\ WaitInv'
    BY <1>2, <1>3, <2>1, <2>6
  <2>8. ClosedInv'
    BY <1>4, <2>1 DEF MuFree, closed
  <2>9. QED
    BY <2>5, <2>7, <2>8
<1>11. CASE Sync
  <2>1. UNCHANGED <<appendSeq, base, acked, clpc, closeErr, cpc, dirCur, dirDur>> /\ MuFree
    BY <1>11 DEF Sync, dbVars, clVars, cpVars, dirVars, histVars
  <2>2. AckedDurable' /\ ClosedInv'
    BY <1>2, <1>4, <2>1 DEF MuFree, closed
  <2>3. CASE FsyncOk(file, written[file]) /\ MarkDurable
    <3>1. OnDisk(Applied)'
      BY <1>a, <2>1, <2>3, SyncCovers
    <3>2. SyncedInv'
      BY <1>5, <2>1, <2>3, <3>1 DEF MarkDurable
    <3>3. QED
      BY <1>6, <2>2, <2>3, <3>2
  <2>4. CASE UNCHANGED <<gsVars, wrVars>>
    BY <1>1, <1>3, <2>1, <2>2, <2>4 DEF gsVars, wrVars
  <2>5. QED
    BY <1>11, <2>3, <2>4 DEF Sync
<1>12. CASE CloseFinish
  <2>1. UNCHANGED <<appendSeq, base, acked, cpc, dirCur, dirDur>> /\ MuFree /\ clpc' = "done"
    BY <1>12 DEF CloseFinish, dbVars, cpVars, dirVars, histVars
  <2>2. CASE FsyncOk(file, written[file]) /\ MarkDurable
    <3>1. OnDisk(Applied)'
      BY <1>a, <2>1, <2>2, SyncCovers
    <3>2. SyncedInv'
      BY <1>5, <2>1, <2>2, <3>1 DEF MarkDurable
    <3>3. ClosedInv'
      BY <2>1, <3>1 DEF ClosedInv, closed, MuFree
    <3>4. QED
      BY <1>2, <1>6, <2>1, <2>2, <3>2, <3>3
  <2>3. CASE UNCHANGED <<gsVars, wrVars>> /\ closeErr' = "err"
    <3>1. ClosedInv'
      BY <2>3 DEF ClosedInv
    <3>2. QED
      BY <1>1, <1>2, <1>3, <2>1, <2>3, <3>1 DEF gsVars, wrVars
  <2>4. QED
    BY <1>12, <2>2, <2>3 DEF CloseFinish
<1>13. CASE CompactSwap
  <2>1. UNCHANGED <<appendSeq, base, acked, clpc, closeErr, durable, dirCur, dirDur>>
        /\ MarkDurable /\ cpc = "swap" /\ cpc' = "idle"
    BY <1>13 DEF CompactSwap, CompactReturn, clVars, diskVars, dirVars, histVars
  <2>2. durable[dirCur] = Applied /\ durable[dirDur] = Applied
    BY <1>a, <2>1 DEF DirectoryInv
  <2>3. OnDisk(Applied)'
    BY <2>1, <2>2, <1>d DEF OnDisk, Applied
  <2>4. SyncedInv'
    BY <1>5, <2>1, <2>3 DEF MarkDurable
  <2>5. QED
    BY <1>2, <1>4, <1>6, <2>1, <2>4 DEF MuFree, PhaseB, closed
<1>14. ASSUME NEW w \in Writers, AppendFail(w) PROVE WatermarkInv'
  <2>1. UNCHANGED <<synced, appendSeq, base, acked, pc, seq, clpc, closeErr, cpc>>
    BY <1>14 DEF AppendFail, gsVars, wrVars, clVars, cpVars, histVars
  <2>2. SyncedInv' /\ AckedDurable' /\ WaitInv'
    BY <1>1, <1>2, <1>3, <2>1
  <2>3. QED
    BY <1>4, <2>1, <2>2 DEF MuFree, closed
<1>15. CASE Bystander
  <2>1. UNCHANGED <<synced, appendSeq, base, acked, pc, seq, closeErr>>
    BY <1>15, BystanderFrame
  <2>2. closed => closed'
    BY <1>15 DEF Bystander, BackgroundSync, CloseBegin, vars, CompactStart, AutoRefused,
       AutoFinish, CompactStream, CompactTail, CompactRefused, CompactAbort, CompactSync,
       CompactRename, CompactSyncDir, clVars, closed
  <2>3. closed => (MuFree => MuFree')
    <3>1. CASE BackgroundSync \/ CloseBegin \/ UNCHANGED vars \/ AutoRefused \/ AutoFinish
      BY <3>1 DEF BackgroundSync, CloseBegin, vars, AutoRefused, AutoFinish, cpVars, MuFree
    <3>2. CASE CompactStart \/ CompactStream \/ CompactRefused \/ CompactAbort
      BY <3>2 DEF CompactStart, CompactStream, CompactRefused, CompactAbort, CompactReturn,
         MuFree, PhaseB
    <3>3. CASE CompactTail \/ CompactSync \/ CompactRename \/ CompactSyncDir
      BY <3>3 DEF CompactTail, CompactSync, CompactRename, CompactSyncDir, MuFree, PhaseB
    <3>4. QED
      BY <1>15, <3>1, <3>2, <3>3 DEF Bystander
  <2>4. SyncedInv' /\ AckedDurable' /\ WaitInv'
    BY <1>1, <1>2, <1>3, <2>1
  <2>5. QED
    BY <1>4, <2>1, <2>2, <2>3, <2>4
<1>16. CASE ProcessRestart \/ PowerCut
  <2>1. /\ synced' = 0 /\ appendSeq' = 0 /\ acked' = acked /\ closeErr' = "none"
        /\ \A v \in Writers : pc'[v] = "idle"
    BY <1>16 DEF ProcessRestart, PowerCut, Open
  <2>2. SyncedInv' /\ WaitInv' /\ ClosedInv'
    BY <2>1 DEF SyncedInv, WaitInv, ClosedInv
  <2>3. QED
    BY <1>2, <2>1, <2>2
<1>17. QED
  BY <1>7, <1>8, <1>9, <1>10, <1>11, <1>12, <1>13, <1>14, <1>15, <1>16
     DEF Next, WriterStep, LeaderLock, CompactStep, Bystander

LEMMA LeaderStep ==
  ASSUME ~DropsDirty, ~SyncDirMayFail, DurabilityInv, [Next]_vars, NEW v \in Writers
  PROVE  LeaderInv(v)'
<1>a. TypeInv /\ LogInv /\ DirectoryInv /\ DiskInv /\ LeaderInv(v)
  BY DEF DurabilityInv
<1>b. \A n \in Nat : n <= durable[dirCur] /\ n <= durable[dirDur] =>
                     n <= durable'[dirCur'] /\ n <= durable'[dirDur']
  BY <1>a, DiskGrows DEF OnDisk
<1>c. /\ base \in Nat /\ ldr[v].cover \in Nat /\ base + ldr[v].cover \in Nat
      /\ appendSeq \in Nat /\ Applied \in Nat
  BY <1>a, CapturedType, TypeFacts DEF Applied
<1>d. pc[v] \in LeaderPcs \ {"capture"} => base + ldr[v].cover <= Applied /\ ldr[v].f <= file
  BY <1>a, <1>c DEF DiskInv, Applied
<1>e. /\ pc \in [Writers -> {"idle", "wait", "sleep"} \union LeaderPcs]
      /\ ldr \in [Writers -> [f : Inodes, cover : Nat, goal : Nat, err : Error]]
      /\ file \in Inodes /\ written \in [Inodes -> Nat] /\ durable \in [Inodes -> Nat]
  BY <1>a, TypeFacts
\* What the leader's commits need on disk stays there.
<1>f. LeaderInv(v) /\ OnDisk(base + ldr[v].cover) =>
        base + ldr[v].cover <= durable'[dirCur'] /\ base + ldr[v].cover <= durable'[dirDur']
  BY <1>b, <1>c DEF OnDisk
\* Writers that captured nothing have nothing to show.
<1>1. ASSUME pc'[v] \in {"idle", "wait", "sleep", "capture"} PROVE LeaderInv(v)'
  BY <1>1 DEF LeaderInv
<1>2. ASSUME UNCHANGED <<file, base>>, pc'[v] = pc[v], ldr'[v] = ldr[v] PROVE LeaderInv(v)'
  BY <1>2, <1>a, <1>f DEF LeaderInv, OnDisk
<1>3. ASSUME UNCHANGED <<file, base, ldr>>, pc'[v] \in {pc[v], "idle", "wait", "sleep", "capture"}
      PROVE  LeaderInv(v)'
  BY <1>1, <1>2, <1>3
<1>4. ASSUME NEW w \in Writers, Append(w) \/ AppendFail(w) \/ Return(w) \/ Sleep(w) \/ Lead(w)
      PROVE  LeaderInv(v)'
  <2>1. UNCHANGED <<file, base, ldr>>
    BY <1>4 DEF Append, WriteLog, AppendFail, Return, Sleep, Lead, dbVars, wrVars, histVars
  <2>2. pc'[v] \in {pc[v], "idle", "wait", "sleep", "capture"}
    BY <1>4, <1>e DEF Append, AppendFail, Return, Sleep, Lead, wrVars
  <2>3. QED
    BY <1>3, <2>1, <2>2
<1>5. ASSUME NEW w \in Writers, w # v, LeaderSyncOk(w) \/ LeaderSyncFail(w) \/ LeaderLock(w)
      PROVE  LeaderInv(v)'
  <2>1. UNCHANGED <<file, base>>
    BY <1>5 DEF LeaderSyncOk, LeaderSyncFail, LeaderLock, LeaderCapture, LeaderCheck,
       LeaderPoison, dbVars, histVars
  <2>2. /\ \E p : pc' = [pc EXCEPT ![w] = p]
        /\ ldr' = ldr \/ \E l : ldr' = [ldr EXCEPT ![w] = l]
    BY <1>5 DEF LeaderSyncOk, LeaderSyncFail, LeaderLock, LeaderCapture, LeaderCheck, LeaderPoison
  <2>3. pc'[v] = pc[v] /\ ldr'[v] = ldr[v]
    BY <1>5, <1>e, <2>2
  <2>4. QED
    BY <1>2, <2>1, <2>3
<1>6. ASSUME NEW w \in Writers, LeaderFinish(w) PROVE LeaderInv(v)'
  <2>1. UNCHANGED <<file, base>>
    BY <1>6 DEF LeaderFinish, dbVars, histVars
  <2>2. CASE w = v
    <3>1. pc'[v] = "wait"
      BY <1>6, <1>e, <2>2 DEF LeaderFinish, Woken
    <3>2. QED
      BY <1>1, <3>1
  <2>3. CASE w # v
    <3>1. ldr'[v] = ldr[v] /\ pc'[v] \in {pc[v], "wait"}
      BY <1>6, <1>e, <2>3 DEF LeaderFinish, Woken
    <3>2. QED
      BY <1>1, <1>2, <2>1, <3>1
  <2>4. QED
    BY <2>2, <2>3
<1>7. CASE LeaderCapture(v)
  <2>1. UNCHANGED <<file, base>> /\ pc'[v] = (IF closed THEN "finish" ELSE "fsync")
    BY <1>7, <1>e DEF LeaderCapture, dbVars, histVars
  <2>2. /\ ldr'[v].f = file /\ ldr'[v].cover = appendSeq /\ ldr'[v].goal = written[file]
        /\ ldr'[v].err = IF closed THEN "err" ELSE "nil"
    BY <1>7, <1>e DEF LeaderCapture
  <2>3. base + appendSeq <= written[file]
    BY <1>a, <1>c DEF LogInv, LogMatchesMemory, Applied
  <2>4. QED
    BY <2>1, <2>2, <2>3 DEF LeaderInv
<1>8. CASE LeaderSyncOk(v)
  <2>1. UNCHANGED <<file, base, ldr, dirCur, dirDur>> /\ pc[v] = "fsync" /\ pc'[v] = "finish"
        /\ FsyncOk(ldr[v].f, ldr[v].goal)
    BY <1>8, <1>e DEF LeaderSyncOk, dbVars, dirVars, histVars
  <2>2. CASE ldr[v].f # file
    <3>1. OnDisk(base + ldr[v].cover)
      BY <1>a, <2>1, <2>2 DEF LeaderInv
    <3>2. QED
      BY <1>a, <1>f, <2>1, <3>1 DEF LeaderInv, OnDisk
  <2>3. CASE ldr[v].f = file
    <3>1. base + ldr[v].cover <= ldr[v].goal /\ ldr[v].goal \in Nat /\ hole = {}
      BY <1>a, <2>1, <2>3, CapturedType DEF LeaderInv, DiskInv
    <3>2. durable'[file] = Larger(durable[file], ldr[v].goal) /\ durable[file] \in Nat
      BY <1>e, <2>1, <2>3, <3>1 DEF FsyncOk
    <3>3. base + ldr[v].cover <= durable'[file]
      BY <1>c, <3>1, <3>2 DEF Larger
    <3>4. cpc \in {"syncdir", "swap"} => durable'[tmp] = Applied
      <4>1. cpc \in {"syncdir", "swap"} => tmp \in Inodes /\ tmp # file /\ durable[tmp] = Applied
        BY <1>a, TypeFacts DEF DirectoryInv
      <4>2. QED
        BY <1>e, <2>1, <2>3, <4>1 DEF FsyncOk
    <3>5. {dirCur, dirDur} \subseteq {file} \/ (cpc \in {"syncdir", "swap"}
                                              /\ {dirCur, dirDur} \subseteq {file, tmp})
      BY <1>a DEF DirectoryInv
    <3>6. pc[v] \in LeaderPcs \ {"capture"}
      BY <2>1 DEF LeaderPcs
    <3>7. base + ldr[v].cover <= durable'[dirCur] /\ base + ldr[v].cover <= durable'[dirDur]
      BY <1>d, <3>3, <3>4, <3>5, <3>6
    <3>8. QED
      BY <2>1, <3>7 DEF LeaderInv, OnDisk
  <2>4. QED
    BY <2>2, <2>3
<1>9. CASE LeaderSyncFail(v) \/ LeaderCheck(v)
  <2>1. UNCHANGED <<dbVars, histVars, ldr>>
    BY <1>9 DEF LeaderSyncFail, LeaderCheck
  <2>2. CASE LeaderSyncFail(v)
    <3>1. pc[v] = "fsync" /\ pc'[v] = "check"
      BY <2>2, <1>e DEF LeaderSyncFail
    <3>2. QED
      BY <1>a, <1>f, <2>1, <3>1 DEF LeaderInv, OnDisk, dbVars, histVars
  <2>3. CASE LeaderCheck(v)
    <3>1. pc[v] = "check" /\ pc'[v] = IF file # ldr[v].f THEN "finish" ELSE "poison"
      BY <2>3, <1>e DEF LeaderCheck
    <3>2. QED
      BY <1>a, <1>f, <2>1, <3>1 DEF LeaderInv, OnDisk, dbVars, histVars
  <2>4. QED
    BY <1>9, <2>2, <2>3
<1>10. CASE LeaderPoison(v)
  <2>1. pc'[v] = "finish" /\ ldr'[v].err = "err"
    BY <1>10, <1>e DEF LeaderPoison
  <2>2. QED
    BY <2>1 DEF LeaderInv
<1>11. CASE Sync \/ CloseFinish
  <2>1. UNCHANGED <<file, base, ldr>>
    BY <1>11 DEF Sync, CloseFinish, MarkDurable, dbVars, wrVars, histVars
  <2>2. pc'[v] \in {pc[v], "wait"}
    BY <1>11 DEF Sync, CloseFinish, MarkDurable, Woken, wrVars
  <2>3. QED
    BY <1>3, <2>1, <2>2
<1>12. CASE Bystander
  BY <1>2, <1>12, BystanderFrame
<1>13. CASE CompactSwap
  <2>1. file' = tmp /\ UNCHANGED <<base, ldr, durable, dirCur, dirDur>> /\ cpc = "swap"
    BY <1>13 DEF CompactSwap, MarkDurable, diskVars, dirVars, histVars
  <2>2. pc'[v] \in {pc[v], "wait"}
    BY <1>13 DEF CompactSwap, MarkDurable, Woken
  <2>3. pc[v] \in LeaderPcs \ {"capture"} => ldr[v].f # tmp
    BY <1>a, <1>d, <2>1, TypeFacts
  <2>4. Applied <= durable[dirCur] /\ Applied <= durable[dirDur]
    BY <1>a, <1>c, <2>1 DEF DirectoryInv
  <2>5. pc[v] \in LeaderPcs \ {"capture"} => OnDisk(base + ldr[v].cover)
    <3>1. durable[dirCur] \in Nat /\ durable[dirDur] \in Nat
      BY <1>a, TypeFacts
    <3>2. QED
      BY <1>c, <1>d, <2>4, <3>1 DEF OnDisk
  <2>6. CASE pc[v] \in LeaderPcs \ {"capture"} /\ pc'[v] = pc[v]
    BY <1>a, <2>1, <2>3, <2>5, <2>6 DEF LeaderInv, OnDisk
  <2>7. CASE ~(pc[v] \in LeaderPcs \ {"capture"} /\ pc'[v] = pc[v])
    BY <1>1, <1>e, <2>2, <2>7 DEF LeaderPcs
  <2>8. QED
    BY <2>6, <2>7
<1>14. CASE ProcessRestart \/ PowerCut
  <2>1. pc'[v] = "idle"
    BY <1>14 DEF ProcessRestart, PowerCut, Open
  <2>2. QED
    BY <1>1, <2>1
<1>15. QED
  BY <1>4, <1>5, <1>6, <1>7, <1>8, <1>9, <1>10, <1>11, <1>12, <1>13, <1>14
     DEF Next, WriterStep, LeaderLock, CompactStep, Bystander

LEMMA DurabilityInit == Init => DurabilityInv
<1> SUFFICES ASSUME Init PROVE DurabilityInv
  OBVIOUS
<1>1. TypeInv
  BY TypeInit
<1>2. /\ file = 0 /\ appendSeq = 0 /\ base = 0 /\ tail = "whole" /\ cpc = "idle"
      /\ synced = 0 /\ acked = 0 /\ closeErr = "none" /\ hole = {}
      /\ dirCur = 0 /\ dirDur = 0 /\ 0 \in Inodes
      /\ \A i \in Inodes : written[i] = 0 /\ durable[i] = 0
      /\ \A w \in Writers : pc[w] = "idle"
  BY ZeroInode DEF Init
<1>3. LogInv /\ DirectoryInv
  BY <1>2 DEF LogInv, LogMatchesMemory, DirectoryInv, Applied, PhaseB
<1>4. DiskInv /\ \A w \in Writers : LeaderInv(w)
  BY <1>2 DEF DiskInv, LeaderInv, LeaderPcs
<1>5. WatermarkInv
  BY <1>2 DEF WatermarkInv, SyncedInv, AckedDurable, WaitInv, ClosedInv, OnDisk
<1>6. QED
  BY <1>1, <1>3, <1>4, <1>5 DEF DurabilityInv

LEMMA DurabilityStep ==
  ASSUME ~DropsDirty, ~SyncDirMayFail
  PROVE  DurabilityInv /\ [Next]_vars => DurabilityInv'
<1> SUFFICES ASSUME DurabilityInv, [Next]_vars PROVE DurabilityInv'
  OBVIOUS
<1>1. TypeInv' /\ LogInv' /\ DirectoryInv' /\ DiskInv'
  BY TypeStep, LogStep, DirectoryStep, DiskStep DEF DurabilityInv
<1>2. \A v \in Writers : LeaderInv(v)'
  BY LeaderStep
<1>3. QED
  BY <1>1, <1>2, WatermarkStep DEF DurabilityInv

\* Under SyncAlways an acknowledged commit survives a power cut at any later
\* moment, for any number of writers, appends, compactions and restarts,
\* provided that a failed fsync keeps its pages dirty and SyncDir succeeds.
THEOREM AcknowledgedIsDurable ==
  ASSUME ~DropsDirty, ~SyncDirMayFail
  PROVE  Spec => []AckedDurable
<1>1. DurabilityInv => AckedDurable
  BY DEF DurabilityInv, WatermarkInv
<1>2. QED
  BY DurabilityInit, DurabilityStep, <1>1, PTL DEF Spec

\* Once Close has returned nil every commit is on disk, under every policy.
THEOREM ClosedIsDurable ==
  ASSUME ~DropsDirty, ~SyncDirMayFail
  PROVE  Spec => []CloseDurable
<1>1. DurabilityInv => CloseDurable
  BY DEF DurabilityInv, WatermarkInv, ClosedInv, CloseDurable
<1>2. QED
  BY DurabilityInit, DurabilityStep, <1>1, PTL DEF Spec

-----------------------------------------------------------------------------
(***************************************************************************)
(* The detailed protocol implements DurableLog.                            *)
(***************************************************************************)
DiskFacts ==
  /\ Disk \in Nat /\ Applied \in Nat /\ acked \in Nat
  /\ Disk <= Applied /\ Disk <= durable[dirCur] /\ Disk <= durable[dirDur]
  /\ written[dirCur] = Applied /\ written[dirDur] = Applied

LEMMA DiskBounds == DurabilityInv => DiskFacts
<1> SUFFICES ASSUME DurabilityInv PROVE DiskFacts
  OBVIOUS
<1>1. TypeInv /\ LogInv /\ DirectoryInv /\ DiskInv
  BY DEF DurabilityInv
<1>2. /\ written[dirCur] = Applied /\ written[dirDur] = Applied
      /\ durable[dirCur] <= written[dirCur] /\ durable[dirDur] <= written[dirDur]
  BY <1>1, TypeFacts DEF DirectoryInv, LogInv, LogMatchesMemory, PhaseB, DiskInv
<1>3. Applied \in Nat /\ acked \in Nat
  BY <1>1, TypeFacts DEF Applied
<1>4. QED
  BY <1>1, <1>2, <1>3, TypeFacts DEF DiskFacts, Disk

LEMMA RefinementStep ==
  ASSUME ~DropsDirty, ~SyncDirMayFail, Policy = "SyncAlways",
         DurabilityInv, DurabilityInv', [Next]_vars
  PROVE  [DL!DLNext]_<<Applied, Disk, acked>>
<1>1. TypeInv /\ LogInv /\ DirectoryInv /\ DiskInv
  BY DEF DurabilityInv
<1>a. DiskFacts /\ DiskFacts'
  BY DiskBounds, PTL
<1>2. /\ Disk \in Nat /\ Applied \in Nat /\ acked \in Nat /\ Disk <= Applied
      /\ Disk' \in Nat /\ Applied' \in Nat /\ acked' \in Nat /\ Disk' <= Applied'
      /\ written[dirCur] = Applied /\ written[dirDur] = Applied
  BY <1>a DEF DiskFacts
<1>3. Disk <= Disk'
  <2>1. Disk <= durable[dirCur] /\ Disk <= durable[dirDur]
    BY <1>a DEF DiskFacts
  <2>2. Disk <= durable'[dirCur'] /\ Disk <= durable'[dirDur']
    BY <1>1, <1>2, <2>1, DiskGrows DEF OnDisk
  <2>3. QED
    BY <2>2 DEF Disk
<1>4. CASE UNCHANGED <<appendSeq, base, acked>>
  BY <1>2, <1>3, <1>4 DEF DL!DLNext, DL!Persist, Applied
<1>5. ASSUME NEW w \in Writers, Append(w) PROVE DL!Apply
  BY <1>1, <1>5, TypeFacts DEF Append, WriteLog, DL!Apply, Applied, Disk, dirVars, histVars
<1>6. ASSUME NEW w \in Writers, Return(w) PROVE DL!Acknowledge
  <2>1. UNCHANGED <<Disk, Applied>> /\ acked <= acked'
    BY <1>1, <1>6, TypeFacts DEF Return, Larger, Disk, Applied, dbVars, diskVars, dirVars
  <2>2. acked' <= Disk'
    BY DEF DurabilityInv, WatermarkInv, AckedDurable, OnDisk, Disk
  <2>3. QED
    BY <1>2, <2>1, <2>2 DEF DL!Acknowledge
<1>7. ASSUME ProcessRestart PROVE DL!Reopen
  BY <1>2, <1>3, <1>7 DEF ProcessRestart, Open, Applied, DL!Reopen
<1>8. ASSUME PowerCut PROVE DL!Reopen
  <2>1. PICK d \in {dirCur, dirDur} : \E n \in durable[d] .. written[d] : Open(d, n)
    BY <1>8, Zenon DEF PowerCut
  <2>2. PICK n \in durable[d] .. written[d] : Open(d, n)
    BY <2>1
  <2>3. Applied' = n /\ Disk <= durable[d] /\ durable[d] \in Nat
    <3>1. durable[dirCur] \in Nat /\ durable[dirDur] \in Nat /\ written[d] = Applied
      BY <1>1, <1>2, <2>1, TypeFacts
    <3>2. n \in Nat /\ base' = n /\ appendSeq' = 0
      BY <1>2, <2>2, <3>1 DEF Open
    <3>3. Disk <= durable[d] /\ durable[d] \in Nat
      BY <2>1, <3>1 DEF Disk
    <3>4. QED
      BY <3>2, <3>3 DEF Applied
  <2>4. n \in Disk .. Applied
    BY <1>2, <2>1, <2>2, <2>3
  <2>5. QED
    <3>1. acked' = acked
      BY <1>8 DEF PowerCut
    <3>2. QED
      BY <1>2, <1>3, <2>3, <2>4, <3>1 DEF DL!Reopen
<1>9. ASSUME NEW w \in Writers,
             AppendFail(w) \/ Sleep(w) \/ Lead(w) \/ LeaderLock(w)
               \/ LeaderSyncOk(w) \/ LeaderSyncFail(w) \/ LeaderFinish(w)
      PROVE  UNCHANGED <<appendSeq, base, acked>>
  <2>1. CASE AppendFail(w) \/ LeaderPoison(w)
    BY <2>1 DEF AppendFail, LeaderPoison, histVars
  <2>2. ASSUME Sleep(w) \/ Lead(w) \/ LeaderCapture(w) \/ LeaderCheck(w)
        PROVE  UNCHANGED <<dbVars, histVars>>
    BY <2>2 DEF Sleep, Lead, LeaderCapture, LeaderCheck
  <2>3. ASSUME LeaderSyncOk(w) \/ LeaderSyncFail(w) PROVE UNCHANGED <<dbVars, histVars>>
    BY <2>3 DEF LeaderSyncOk, LeaderSyncFail
  <2>4. ASSUME LeaderFinish(w) PROVE UNCHANGED <<dbVars, histVars>>
    BY <2>4 DEF LeaderFinish
  <2>5. QED
    BY <1>9, <2>1, <2>2, <2>3, <2>4 DEF LeaderLock, dbVars, histVars
<1>10. ASSUME Sync \/ CloseFinish \/ CompactSwap PROVE UNCHANGED <<appendSeq, base, acked>>
  BY <1>10 DEF Sync, CloseFinish, CompactSwap, dbVars, histVars
<1>11. ASSUME Bystander PROVE UNCHANGED <<appendSeq, base, acked>>
  BY <1>11, BystanderFrame
<1>12. QED
  BY <1>4, <1>5, <1>6, <1>7, <1>8, <1>9, <1>10, <1>11
     DEF Next, WriterStep, CompactStep, Bystander, DL!DLNext

\* Under SyncAlways the whole protocol implements the durable log, again for
\* any number of writers, appends, compactions and restarts.
THEOREM Refinement ==
  ASSUME ~DropsDirty, ~SyncDirMayFail, Policy = "SyncAlways"
  PROVE  Spec => ImplementsDurableLog
<1>1. Init => DL!DLInit
  BY BoundAssumption DEF Init, DL!DLInit, Applied, Disk, Inodes
<1>2. DurabilityInv /\ DurabilityInv' /\ [Next]_vars => [DL!DLNext]_<<Applied, Disk, acked>>
  BY RefinementStep
<1>3. QED
  BY <1>1, <1>2, DurabilityInit, DurabilityStep, PTL
     DEF Spec, ImplementsDurableLog, DL!DLSpec, DL!dlVars

=============================================================================
