-------------------------- MODULE GroupCommitDisk ---------------------------
(***************************************************************************)
(* The files of GroupCommit: the live log replays to what is in memory, and *)
(* the disk never takes a commit back, provided that a failed fsync keeps its *)
(* pages dirty and SyncDir works.                                          *)
(***************************************************************************)
EXTENDS GroupCommitTypes

\* The live log holds every commit, and what the temporary file holds.
LogInv ==
  /\ LogMatchesMemory
  /\ tail = "torn" => writeErr # "nil"
  /\ cpc = "tail" => written[tmp] = tailStart
  /\ cpc \in PhaseB => written[tmp] = Applied

\* The directory names the live log except while the swap is under way, and
\* the file that is renamed over it is complete on disk.
DirectoryInv ==
  /\ cpc \notin {"syncdir", "swap"} => dirCur = file /\ dirDur = file
  /\ cpc = "syncdir" => dirCur = tmp /\ dirDur = file
  /\ cpc = "swap" => dirCur = tmp /\ dirDur = tmp
  /\ cpc \in {"rename", "syncdir", "swap"} => durable[tmp] = Applied

\* No page is dropped, no disk image is ahead of the page cache, and a leader
\* syncs the live file or one that was live before it.
DiskInv ==
  /\ hole = {}
  /\ \A i \in Inodes : durable[i] <= written[i]
  /\ \A w \in Writers : pc[w] \in LeaderPcs \ {"capture"} =>
       /\ ldr[w].f <= file
       /\ ldr[w].cover <= appendSeq
       /\ ldr[w].goal <= written[ldr[w].f]

-----------------------------------------------------------------------------
(***************************************************************************)
(* The live log replays to what is in memory.                              *)
(***************************************************************************)
LEMMA LogFrame ==
  /\ UNCHANGED histVars => UNCHANGED base
  /\ UNCHANGED diskVars => UNCHANGED written
  /\ LogInv /\ UNCHANGED <<dbVars, cpVars, written, base>> => LogInv'
<1>1. UNCHANGED histVars => UNCHANGED base
  BY DEF histVars
<1>2. UNCHANGED diskVars => UNCHANGED written
  BY DEF diskVars
<1>3. LogInv /\ UNCHANGED <<dbVars, cpVars, written, base>> => LogInv'
  BY DEF LogInv, LogMatchesMemory, Applied, tmp, dbVars, cpVars
<1>4. QED
  BY <1>1, <1>2, <1>3

LEMMA LogStep == TypeInv /\ LogInv /\ [Next]_vars => LogInv'
<1> SUFFICES ASSUME TypeInv, LogInv, [Next]_vars PROVE LogInv'
  OBVIOUS
<1> USE LogFrame
<1>1. ASSUME NEW w \in Writers, Append(w) PROVE LogInv'
  BY <1>1, TypeFacts DEF Append, WriteLog, MuFree, CanWrite, LogInv, LogMatchesMemory,
     Applied, tmp, cpVars, histVars
<1>2. ASSUME NEW w \in Writers, AppendFail(w) PROVE LogInv'
  BY <1>2 DEF AppendFail, LogInv, LogMatchesMemory, Applied, tmp, cpVars
<1>3. ASSUME NEW w \in Writers, WriterStep(w) PROVE LogInv'
  BY <1>3 DEF WriterStep, Return, Sleep, Lead, LeaderSyncOk, LeaderSyncFail,
     LeaderFinish, FsyncOk, FsyncFail
<1>4. ASSUME NEW w \in Writers, LeaderCapture(w) \/ LeaderCheck(w) PROVE LogInv'
  BY <1>4 DEF LeaderCapture, LeaderCheck
<1>5. ASSUME NEW w \in Writers, LeaderPoison(w) PROVE LogInv'
  BY <1>5 DEF LeaderPoison, LogInv, LogMatchesMemory, Applied, tmp, cpVars
<1>6. CASE Sync \/ CloseFinish
  BY <1>6 DEF Sync, CloseFinish, FsyncOk, FsyncFail
<1>7. CASE BackgroundSync \/ AutoRefused \/ AutoFinish \/ CloseBegin
  BY <1>7 DEF BackgroundSync, AutoRefused, AutoFinish, CloseBegin, FsyncOk, FsyncFail,
     LogInv, LogMatchesMemory, Applied, tmp, cpVars
<1>8. CASE CompactStart
  BY <1>8 DEF CompactStart, LogInv, LogMatchesMemory, Applied, tmp, PhaseB
<1>9. CASE CompactStream
  BY <1>9, TypeFacts DEF CompactStream, LogInv, LogMatchesMemory, Applied, tmp, PhaseB, dbVars
<1>10. CASE CompactTail
  BY <1>10, TypeFacts DEF CompactTail, LogInv, LogMatchesMemory, Applied, tmp, PhaseB, dbVars
<1>11. CASE CompactRefused \/ CompactAbort
  BY <1>11 DEF CompactRefused, CompactAbort, CompactReturn, LogInv, LogMatchesMemory,
     Applied, tmp, PhaseB
<1>12. CASE CompactSync \/ CompactRename \/ CompactSyncDir
  BY <1>12 DEF CompactSync, CompactRename, CompactSyncDir, FsyncOk, LogInv,
     LogMatchesMemory, Applied, tmp, PhaseB, dbVars
<1>13. CASE CompactSwap
  BY <1>13 DEF CompactSwap, CompactReturn, LogInv, LogMatchesMemory, Applied, tmp, PhaseB
<1>14. CASE ProcessRestart
  BY <1>14, TypeFacts DEF ProcessRestart, Open, LogInv, LogMatchesMemory, Applied, PhaseB
<1>15. CASE PowerCut
  BY <1>15, TypeFacts DEF PowerCut, Open, LogInv, LogMatchesMemory, Applied, PhaseB
<1>16. CASE UNCHANGED vars
  BY <1>16 DEF vars
<1>17. QED
  BY <1>1, <1>2, <1>3, <1>4, <1>5, <1>6, <1>7, <1>8, <1>9, <1>10, <1>11, <1>12,
     <1>13, <1>14, <1>15, <1>16 DEF Next, LeaderLock, CompactStep

\* The live log always replays to the commits applied in memory.
THEOREM LogComplete == Spec => []LogMatchesMemory
<1>1. Init => LogInv
  <2>1. Init => /\ file = 0 /\ appendSeq = 0 /\ base = 0 /\ tail = "whole"
                /\ cpc = "idle" /\ written[0] = 0
    BY ZeroInode DEF Init
  <2>2. QED
    BY <2>1 DEF LogInv, LogMatchesMemory, Applied, PhaseB
<1>2. LogInv => LogMatchesMemory
  BY DEF LogInv
<1>3. QED
  BY TypeInit, TypeStep, LogStep, <1>1, <1>2, PTL DEF Spec

-----------------------------------------------------------------------------
(***************************************************************************)
(* Durability, when a failed fsync keeps its pages dirty and SyncDir works.*)
(***************************************************************************)
LEMMA DirectoryStep ==
  ASSUME ~SyncDirMayFail, TypeInv, LogInv, DirectoryInv, DiskInv, [Next]_vars
  PROVE  DirectoryInv'
<1> USE DEF DirectoryInv, PhaseB
<1>0. ASSUME UNCHANGED <<file, appendSeq, base, cpc, dirCur, dirDur, durable>>
      PROVE  DirectoryInv'
  BY <1>0 DEF tmp, Applied
<1>1. ASSUME NEW w \in Writers, Append(w) \/ AppendFail(w) PROVE DirectoryInv'
  BY <1>1 DEF Append, AppendFail, WriteLog, MuFree, cpVars, dirVars, diskVars
<1>2. ASSUME NEW w \in Writers, LeaderSyncOk(w) PROVE DirectoryInv'
  <2>1. UNCHANGED <<file, appendSeq, base, cpc, dirCur, dirDur>>
    BY <1>2 DEF LeaderSyncOk, cpVars, dirVars, dbVars, histVars
  <2>2. ldr[w].f <= file
    BY <1>2 DEF LeaderSyncOk, DiskInv, LeaderPcs
  <2>3. cpc # "idle" => tmp \in Inodes /\ ~(tmp <= file)
    BY TypeFacts
  <2>4. cpc # "idle" => durable'[tmp] = durable[tmp]
    BY <1>2, <2>2, <2>3, TypeFacts DEF LeaderSyncOk, FsyncOk
  <2>5. QED
    BY <2>1, <2>4 DEF tmp, Applied
<1>3. ASSUME NEW w \in Writers, Return(w) \/ Sleep(w) \/ Lead(w) \/ LeaderSyncFail(w)
                                \/ LeaderFinish(w) \/ LeaderLock(w)
      PROVE DirectoryInv'
  <2>1. UNCHANGED <<file, appendSeq, base, cpc, dirCur, dirDur, durable>>
    BY <1>3 DEF Return, Sleep, Lead, LeaderSyncFail, FsyncFail, LeaderFinish, LeaderLock,
       LeaderCapture, LeaderCheck, LeaderPoison, cpVars, dirVars, dbVars, histVars, diskVars
  <2>2. QED
    BY <1>0, <2>1
<1>4. CASE Sync \/ CloseFinish \/ BackgroundSync
  BY <1>4 DEF Sync, CloseFinish, BackgroundSync, MuFree, cpVars, dirVars, dbVars
<1>5. CASE CompactStart \/ AutoRefused \/ AutoFinish \/ CloseBegin
  BY <1>5 DEF CompactStart, AutoRefused, AutoFinish, CloseBegin, MuFree, cpVars, dirVars
<1>6. CASE CompactStream \/ CompactTail
  BY <1>6 DEF CompactStream, CompactTail, dirVars, dbVars
<1>7. CASE CompactRefused \/ CompactAbort
  BY <1>7 DEF CompactRefused, CompactAbort, CompactReturn, dirVars
<1>8. CASE CompactSync
  <2>1. /\ tmp \in Inodes /\ durable \in [Inodes -> Nat] /\ hole = {}
        /\ written[tmp] \in Nat /\ written[tmp] = Applied /\ durable[tmp] <= written[tmp]
    BY <1>8, TypeFacts DEF CompactSync, LogInv, DiskInv
  <2>2. Larger(durable[tmp], written[tmp]) = Applied
    BY <2>1 DEF Larger
  <2>a. durable'[tmp] = Applied
    BY <1>8, <2>1, <2>2 DEF CompactSync, FsyncOk
  <2>3. UNCHANGED <<file, appendSeq, base, dirCur, dirDur>> /\ cpc' = "rename"
    BY <1>8 DEF CompactSync, dirVars, dbVars, histVars
  <2>4. QED
    BY <1>8, <2>a, <2>3 DEF CompactSync, tmp, Applied
<1>9. CASE CompactRename \/ CompactSyncDir
  BY <1>9 DEF CompactRename, CompactSyncDir, SyncDir, dbVars, histVars, diskVars, tmp, Applied
<1>10. CASE CompactSwap
  BY <1>10 DEF CompactSwap, CompactReturn, dirVars
<1>11. CASE ProcessRestart \/ PowerCut
  BY <1>11 DEF ProcessRestart, PowerCut, Open, SyncDir
<1>12. CASE UNCHANGED vars
  BY <1>0, <1>12 DEF vars, cpVars, dirVars, dbVars, histVars, diskVars
<1>13. QED
  BY <1>1, <1>2, <1>3, <1>4, <1>5, <1>6, <1>7, <1>8, <1>9, <1>10, <1>11, <1>12
     DEF Next, WriterStep, CompactStep

\* A step keeps DiskInv if no cached file of a leader shrinks and no writer
\* enters the part of the leader's code that uses what it captured.
LEMMA DiskFrame ==
  ASSUME TypeInv, TypeInv', DiskInv, hole' = {},
         \A i \in Inodes : durable'[i] <= written'[i],
         file <= file', appendSeq <= appendSeq',
         \A i \in Inodes : i <= file => written[i] <= written'[i],
         \A v \in Writers : pc'[v] \in LeaderPcs \ {"capture"} =>
           /\ pc[v] \in LeaderPcs \ {"capture"}
           /\ ldr'[v].f = ldr[v].f /\ ldr'[v].cover = ldr[v].cover /\ ldr'[v].goal = ldr[v].goal
  PROVE  DiskInv'
<1> SUFFICES ASSUME NEW v \in Writers, pc'[v] \in LeaderPcs \ {"capture"}
             PROVE  /\ ldr'[v].f <= file' /\ ldr'[v].cover <= appendSeq'
                    /\ ldr'[v].goal <= written'[ldr'[v].f]
  BY DEF DiskInv
<1>1. /\ pc[v] \in LeaderPcs \ {"capture"}
      /\ ldr'[v].f = ldr[v].f /\ ldr'[v].cover = ldr[v].cover /\ ldr'[v].goal = ldr[v].goal
  OBVIOUS
<1>2. /\ ldr[v].f <= file /\ ldr[v].cover <= appendSeq
      /\ ldr[v].goal <= written[ldr[v].f]
  BY <1>1 DEF DiskInv
<1>3. ldr[v].f \in Inodes /\ ldr[v].cover \in Nat /\ ldr[v].goal \in Nat
  BY CapturedType
<1>4. ldr[v].f \in Nat /\ file \in Nat /\ appendSeq \in Nat /\ written[ldr[v].f] \in Nat
  BY <1>3, TypeFacts
<1>5. written'[ldr[v].f] \in Nat /\ file' \in Nat /\ appendSeq' \in Nat
  BY <1>3 DEF TypeInv, TypeOK, TypeDisk, TypeDB, Inodes
<1>6. written[ldr[v].f] <= written'[ldr[v].f]
  BY <1>2, <1>3
<1>7. QED
  BY <1>1, <1>2, <1>3, <1>4, <1>5, <1>6

LEMMA DiskStep ==
  ASSUME ~DropsDirty, TypeInv, LogInv, DirectoryInv, DiskInv, [Next]_vars
  PROVE  DiskInv'
<1>a. TypeInv'
  BY TypeStep
<1>b. /\ \A i \in Inodes : i \in Nat /\ written[i] \in Nat /\ durable[i] \in Nat
      /\ \A i \in Inodes : durable[i] <= written[i]
      /\ hole = {} /\ file \in Inodes /\ appendSeq \in Nat
      /\ written \in [Inodes -> Nat] /\ durable \in [Inodes -> Nat]
  BY TypeFacts DEF DiskInv
<1>c. \A v \in Writers : ldr[v].f \in Inodes /\ ldr[v].goal \in Nat
  BY CapturedType
<1>d. pc \in [Writers -> {"idle", "wait", "sleep"} \union LeaderPcs]
      /\ ldr \in [Writers -> [f : Inodes, cover : Nat, goal : Nat, err : Error]]
  BY TypeFacts
\* The step leaves the files and what the leaders captured alone.
<1>1. ASSUME UNCHANGED <<file, appendSeq, written, durable, hole>>,
             \A v \in Writers : pc'[v] \in LeaderPcs \ {"capture"} =>
               pc[v] \in LeaderPcs \ {"capture"} /\ ldr'[v] = ldr[v]
      PROVE  DiskInv'
  <2>1. /\ file <= file' /\ appendSeq <= appendSeq' /\ hole' = {}
        /\ \A i \in Inodes : durable'[i] <= written'[i] /\ written[i] <= written'[i]
    BY <1>1, <1>b
  <2>2. QED
    BY <1>1, <1>a, <2>1, DiskFrame
\* An fsync succeeds or fails, and no writer starts to lead.
<1>2. ASSUME NEW i \in Inodes, NEW goal \in Nat, goal <= written[i],
             FsyncOk(i, goal) \/ FsyncFail(i), UNCHANGED <<file, appendSeq, ldr>>,
             \A v \in Writers : pc'[v] \in LeaderPcs \ {"capture"} =>
               pc[v] \in LeaderPcs \ {"capture"}
      PROVE  DiskInv'
  <2>1. hole' = {} /\ written' = written
    BY <1>2, <1>b DEF FsyncOk, FsyncFail
  <2>2. Larger(durable[i], goal) <= written[i]
    BY <1>2, <1>b DEF Larger
  <2>3. ASSUME NEW j \in Inodes PROVE durable'[j] <= written[j]
    <3>1. durable'[j] = durable[j] \/ (j = i /\ durable'[j] = Larger(durable[i], goal))
      BY <1>2, <1>b DEF FsyncOk, FsyncFail
    <3>2. QED
      BY <2>2, <3>1, <1>b
  <2>4. /\ file <= file' /\ appendSeq <= appendSeq'
        /\ \A j \in Inodes : durable'[j] <= written'[j] /\ written[j] <= written'[j]
    BY <1>2, <1>b, <2>1, <2>3
  <2>5. QED
    BY <1>2, <1>a, <2>1, <2>4, DiskFrame
<1>3. ASSUME NEW w \in Writers, Append(w) PROVE DiskInv'
  <2>1. /\ file' = file /\ appendSeq' = appendSeq + 1
        /\ durable' = durable /\ hole' = hole /\ ldr' = ldr
    BY <1>3 DEF Append, WriteLog
  <2>2. \A i \in Inodes : written[i] <= written'[i] /\ durable[i] <= written'[i]
    BY <1>3, <1>b DEF Append, WriteLog
  <2>3. \A v \in Writers : pc'[v] \in LeaderPcs \ {"capture"} => pc'[v] = pc[v]
    BY <1>3, <1>d DEF Append, LeaderPcs
  <2>4. file <= file' /\ appendSeq <= appendSeq'
    BY <2>1, <1>b
  <2>5. QED
    BY <1>a, <1>b, <2>1, <2>2, <2>3, <2>4, DiskFrame
<1>4. ASSUME NEW w \in Writers, AppendFail(w) \/ Return(w) \/ Sleep(w) \/ Lead(w) \/ LeaderCheck(w)
      PROVE  DiskInv'
  <2>1. UNCHANGED <<file, appendSeq, written, durable, hole, ldr>>
    BY <1>4 DEF AppendFail, Return, Sleep, Lead, LeaderCheck, wrVars, diskVars, dbVars
  <2>2. \A v \in Writers : pc'[v] \in LeaderPcs \ {"capture"} => pc[v] \in LeaderPcs \ {"capture"}
    BY <1>4, <1>d DEF AppendFail, Return, Sleep, Lead, LeaderCheck, wrVars, LeaderPcs
  <2>3. QED
    BY <1>1, <2>1, <2>2
<1>5. ASSUME NEW w \in Writers, LeaderCapture(w) PROVE DiskInv'
  <2>1. UNCHANGED <<file, appendSeq, written, durable, hole>>
    BY <1>5 DEF LeaderCapture, diskVars, dbVars
  <2>2. ldr'[w].f = file /\ ldr'[w].cover = appendSeq /\ ldr'[w].goal = written[file]
    BY <1>5, <1>d DEF LeaderCapture
  <2>3. \A v \in Writers \ {w} : pc'[v] = pc[v] /\ ldr'[v] = ldr[v]
    BY <1>5, <1>d DEF LeaderCapture
  <2>4. file <= file /\ appendSeq <= appendSeq /\ written[file] <= written[file]
    BY <1>b
  <2>5. QED
    BY <2>1, <2>2, <2>3, <2>4 DEF DiskInv
<1>6. ASSUME NEW w \in Writers, LeaderSyncOk(w) \/ LeaderSyncFail(w) PROVE DiskInv'
  <2>1. UNCHANGED <<file, appendSeq, ldr>> /\ pc[w] = "fsync"
    BY <1>6 DEF LeaderSyncOk, LeaderSyncFail, dbVars
  <2>2. \A v \in Writers : pc'[v] \in LeaderPcs \ {"capture"} => pc[v] \in LeaderPcs \ {"capture"}
    BY <1>6, <1>d DEF LeaderSyncOk, LeaderSyncFail, LeaderPcs
  <2>3. ldr[w].goal <= written[ldr[w].f] /\ 0 <= written[file]
    BY <2>1, <1>b DEF DiskInv, LeaderPcs
  <2>4. \/ FsyncOk(ldr[w].f, ldr[w].goal) \/ FsyncFail(file)
        \/ UNCHANGED <<written, durable, hole>>
    BY <1>6 DEF LeaderSyncOk, LeaderSyncFail, diskVars
  <2>5. QED
    BY <1>1, <1>2, <1>b, <1>c, <2>1, <2>2, <2>3, <2>4
<1>7. ASSUME NEW w \in Writers, LeaderPoison(w) PROVE DiskInv'
  <2>1. UNCHANGED <<file, appendSeq, written, durable, hole>>
    BY <1>7 DEF LeaderPoison, diskVars
  <2>2. /\ pc[w] = "poison" /\ ldr'[w].f = ldr[w].f
        /\ ldr'[w].cover = ldr[w].cover /\ ldr'[w].goal = ldr[w].goal
    BY <1>7, <1>d DEF LeaderPoison
  <2>3. \A v \in Writers \ {w} : pc'[v] = pc[v] /\ ldr'[v] = ldr[v]
    BY <1>7, <1>d DEF LeaderPoison
  <2>4. QED
    BY <2>1, <2>2, <2>3 DEF DiskInv, LeaderPcs
<1>8. ASSUME NEW w \in Writers, LeaderFinish(w) PROVE DiskInv'
  <2>1. UNCHANGED <<file, appendSeq, written, durable, hole>>
    BY <1>8 DEF LeaderFinish, diskVars, dbVars
  <2>2. pc'[w] = "wait" /\ \A v \in Writers \ {w} : ldr'[v] = ldr[v] /\ pc'[v] \in {pc[v], "wait"}
    BY <1>8, <1>d DEF LeaderFinish, Woken
  <2>3. QED
    BY <1>1, <2>1, <2>2 DEF LeaderPcs
<1>9. CASE Sync \/ CloseFinish \/ BackgroundSync
  <2>1. UNCHANGED <<file, appendSeq, ldr>>
    BY <1>9 DEF Sync, CloseFinish, BackgroundSync, MarkDurable, dbVars, wrVars
  <2>2. \A v \in Writers : pc'[v] \in {pc[v], "wait"}
    BY <1>9 DEF Sync, CloseFinish, BackgroundSync, MarkDurable, Woken, wrVars
  <2>3. FsyncOk(file, written[file]) \/ FsyncFail(file)
    BY <1>9 DEF Sync, CloseFinish, BackgroundSync
  <2>4. written[file] \in Nat /\ written[file] <= written[file]
    BY <1>b
  <2>5. \A v \in Writers : pc'[v] \in LeaderPcs \ {"capture"} => pc[v] \in LeaderPcs \ {"capture"}
    BY <2>2 DEF LeaderPcs
  <2>6. QED
    BY <1>2, <1>b, <2>1, <2>3, <2>4, <2>5
<1>10. CASE CompactStart \/ AutoRefused \/ AutoFinish \/ CloseBegin \/ CompactRefused
            \/ CompactAbort \/ CompactRename \/ CompactSyncDir \/ UNCHANGED vars
  <2>1. UNCHANGED <<file, appendSeq, pc, ldr>>
    BY <1>10, BystanderFrame DEF Bystander
  <2>2. UNCHANGED diskVars
    BY <1>10 DEF CompactStart, AutoRefused, AutoFinish, CloseBegin, CompactRefused,
       CompactAbort, CompactRename, CompactSyncDir, vars
  <2>3. QED
    BY <1>1, <2>1, <2>2 DEF diskVars
<1>11. CASE CompactStream \/ CompactTail
  <2>1. UNCHANGED <<file, appendSeq, pc, ldr>> /\ cpc \in {"stream", "tail"} /\ hole' = {}
    <3>1. UNCHANGED <<file, appendSeq, pc, ldr>>
      BY <1>11, BystanderFrame DEF Bystander
    <3>2. QED
      BY <1>11, <1>b, <3>1 DEF CompactStream, CompactTail
  <2>2. tmp \in Inodes /\ ~(tmp <= file) /\ Applied - tailStart \in Nat /\ tailStart \in Nat
    BY <2>1, TypeFacts DEF Applied
  <2>3. \A i \in Inodes \ {tmp} : written'[i] = written[i] /\ durable'[i] = durable[i]
    BY <1>11, <1>b DEF CompactStream, CompactTail
  <2>4. durable'[tmp] <= written'[tmp]
    <3>1. CASE CompactStream
      BY <3>1, <2>2, <1>b DEF CompactStream
    <3>2. CASE CompactTail
      <4>1. durable'[tmp] = durable[tmp] /\ written'[tmp] = written[tmp] + (Applied - tailStart)
        BY <3>2, <2>2, <1>b DEF CompactTail
      <4>2. QED
        BY <4>1, <2>2, <1>b
    <3>3. QED
      BY <1>11, <3>1, <3>2
  <2>5. \A i \in Inodes : durable'[i] <= written'[i] /\ (i <= file => written[i] <= written'[i])
    BY <2>2, <2>3, <2>4, <1>b
  <2>6. file <= file' /\ appendSeq <= appendSeq'
    BY <2>1, <1>b
  <2>7. QED
    BY <1>a, <2>1, <2>5, <2>6, DiskFrame
<1>12. CASE CompactSync
  <2>1. UNCHANGED <<file, appendSeq, pc, ldr>> /\ cpc # "idle" /\ FsyncOk(tmp, written[tmp])
    BY <1>12 DEF CompactSync, dbVars, wrVars
  <2>2. tmp \in Inodes
    BY <2>1, TypeFacts
  <2>3. written[tmp] \in Nat /\ written[tmp] <= written[tmp]
    BY <2>2, <1>b
  <2>4. QED
    BY <1>2, <2>1, <2>2, <2>3
<1>13. CASE CompactSwap
  <2>1. UNCHANGED <<appendSeq, written, durable, hole, ldr>> /\ file' = file + 1
    BY <1>13 DEF CompactSwap, MarkDurable, diskVars, tmp
  <2>2. \A v \in Writers : pc'[v] \in {pc[v], "wait"}
    BY <1>13 DEF CompactSwap, MarkDurable, Woken
  <2>3. /\ file <= file' /\ appendSeq <= appendSeq' /\ hole' = {}
        /\ \A i \in Inodes : durable'[i] <= written'[i] /\ written[i] <= written'[i]
    BY <2>1, <1>b
  <2>4. QED
    BY <1>a, <2>1, <2>2, <2>3, DiskFrame DEF LeaderPcs
<1>14. CASE ProcessRestart \/ PowerCut
  <2>1. hole' = {} /\ \A v \in Writers : pc'[v] = "idle"
    BY <1>14, <1>b DEF ProcessRestart, PowerCut, Open, diskVars
  <2>2. \A i \in Inodes : durable'[i] <= written'[i]
    <3>1. CASE ProcessRestart
      BY <3>1, <1>b DEF ProcessRestart, diskVars
    <3>2. CASE PowerCut
      <4>1. PICK d \in Inodes, n \in Nat : /\ written' = [written EXCEPT ![d] = n]
                                          /\ durable' = [durable EXCEPT ![d] = n]
        <5>1. \A d \in Inodes : durable[d] .. written[d] \subseteq Nat
          BY <1>b
        <5>2. dirCur \in Inodes /\ dirDur \in Inodes
          BY TypeFacts
        <5>3. QED
          BY <3>2, <5>1, <5>2, Zenon DEF PowerCut
      <4>2. QED
        BY <4>1, <1>b
    <3>3. QED
      BY <1>14, <3>1, <3>2
  <2>3. QED
    BY <2>1, <2>2 DEF DiskInv, LeaderPcs
<1>15. QED
  BY <1>3, <1>4, <1>5, <1>6, <1>7, <1>8, <1>9, <1>10, <1>11, <1>12, <1>13, <1>14
     DEF Next, WriterStep, LeaderLock, CompactStep

\* What the disk holds is never lost again: no step takes back a commit that
\* would survive a power cut.
LEMMA DiskGrows ==
  ASSUME ~DropsDirty, ~SyncDirMayFail, TypeInv, LogInv, DirectoryInv, DiskInv,
         [Next]_vars, NEW n \in Nat, OnDisk(n)
  PROVE  OnDisk(n)'
<1> USE DEF OnDisk
<1>a. /\ file \in Inodes /\ dirCur \in Inodes /\ dirDur \in Inodes
      /\ written \in [Inodes -> Nat] /\ durable \in [Inodes -> Nat]
      /\ cpc # "idle" => tmp \in Inodes /\ tmp # file
  BY TypeFacts
<1>1. CASE \/ UNCHANGED durable /\ UNCHANGED dirVars
           \/ UNCHANGED diskVars /\ UNCHANGED dirVars
  BY <1>1 DEF dirVars, diskVars
<1>2. ASSUME NEW i \in Inodes, NEW g \in Nat, FsyncOk(i, g), UNCHANGED dirVars
      PROVE  OnDisk(n)'
  BY <1>2, <1>a DEF FsyncOk, Larger, dirVars
<1>3. ASSUME NEW w \in Writers, Append(w) \/ AppendFail(w) \/ WriterStep(w) \/ LeaderLock(w)
      PROVE  OnDisk(n)'
  <2>1. CASE LeaderSyncOk(w)
    BY <1>2, <2>1, CapturedType DEF LeaderSyncOk
  <2>2. CASE Append(w) \/ AppendFail(w) \/ Return(w) \/ Sleep(w) \/ Lead(w)
    BY <1>1, <2>2 DEF Append, WriteLog, AppendFail, Return, Sleep, Lead
  <2>3. CASE LeaderSyncFail(w) \/ LeaderFinish(w) \/ LeaderLock(w)
    BY <1>1, <2>3 DEF LeaderSyncFail, FsyncFail, LeaderFinish, LeaderLock, LeaderCapture,
       LeaderCheck, LeaderPoison
  <2>4. QED
    BY <1>3, <2>1, <2>2, <2>3 DEF WriterStep
<1>4. CASE Sync \/ CloseFinish \/ BackgroundSync
  BY <1>1, <1>2, <1>4, <1>a DEF Sync, CloseFinish, BackgroundSync, FsyncFail
<1>5. CASE CompactStart \/ AutoRefused \/ AutoFinish \/ CloseBegin \/ CompactRefused
           \/ CompactAbort \/ CompactTail \/ CompactSwap
  BY <1>1, <1>5 DEF CompactStart, AutoRefused, AutoFinish, CloseBegin, CompactRefused,
     CompactAbort, CompactTail, CompactSwap
<1>6. CASE CompactStream
  BY <1>6, <1>a DEF CompactStream, DirectoryInv, dirVars
<1>7. CASE CompactSync
  BY <1>2, <1>7, <1>a DEF CompactSync, PhaseB
<1>8. CASE CompactRename \/ CompactSyncDir
  <2>1. durable[tmp] = Applied /\ durable[file] <= Applied
    BY <1>8, <1>a DEF CompactRename, CompactSyncDir, DirectoryInv, DiskInv, LogInv, LogMatchesMemory
  <2>2. n <= durable[tmp] /\ n <= durable[file]
    <3>1. durable[file] \in Nat /\ Applied \in Nat
      BY <1>a, TypeFacts DEF Applied
    <3>2. n <= durable[file]
      BY <1>8 DEF CompactRename, CompactSyncDir, DirectoryInv
    <3>3. QED
      BY <2>1, <3>1, <3>2
  <2>3. QED
    BY <1>8, <2>2 DEF CompactRename, CompactSyncDir, SyncDir, DirectoryInv, diskVars
<1>9. CASE ProcessRestart
  BY <1>9 DEF ProcessRestart, SyncDir, diskVars
<1>10. CASE PowerCut
  BY <1>10, <1>a DEF PowerCut
<1>11. CASE UNCHANGED vars
  BY <1>1, <1>11 DEF vars
<1>12. QED
  BY <1>3, <1>4, <1>5, <1>6, <1>7, <1>8, <1>9, <1>10, <1>11 DEF Next, CompactStep

\* Outside Phase B an fsync of the live log makes every commit durable.
LEMMA SyncCovers ==
  ASSUME TypeInv, LogInv, DirectoryInv, DiskInv, MuFree,
         FsyncOk(file, written[file]), UNCHANGED <<dirCur, dirDur, base, appendSeq>>
  PROVE  OnDisk(Applied)'
<1>1. dirCur = file /\ dirDur = file /\ written[file] = Applied
  BY DEF DirectoryInv, LogInv, LogMatchesMemory, MuFree, PhaseB
<1>2. durable'[file] >= Applied /\ durable'[file] \in Nat
  BY <1>1, TypeFacts DEF FsyncOk, Larger, DiskInv
<1>3. QED
  BY <1>1, <1>2, TypeFacts DEF OnDisk, Applied

=============================================================================
