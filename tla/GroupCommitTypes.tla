-------------------------- MODULE GroupCommitTypes --------------------------
(***************************************************************************)
(* Type correctness of GroupCommit, together with the range of the         *)
(* temporary inode, the safety of its leadership protocol, and what Phase  *)
(* B of Compact may rely on, for any set of writers and any bounds.        *)
(***************************************************************************)
EXTENDS GroupCommit, TLAPS

\* The temporary file has an inode and Phase A lies in the past.
TmpInv ==
  /\ cpc # "idle" => file < MaxSwaps
  /\ cpc \in {"stream", "tail"} => tailStart <= Applied

TypeInv == TypeOK /\ TmpInv

\* A group of variables that a step leaves alone keeps its type.
LEMMA TypeFrame ==
  /\ TypeDB /\ UNCHANGED dbVars => TypeDB'
  /\ TypeGroup /\ UNCHANGED gsVars => TypeGroup'
  /\ TypeWriters /\ UNCHANGED wrVars => TypeWriters'
  /\ TypeCompact /\ UNCHANGED cpVars => TypeCompact'
  /\ TypeClose /\ UNCHANGED clVars => TypeClose'
  /\ TypeDisk /\ UNCHANGED diskVars => TypeDisk'
  /\ TypeDir /\ UNCHANGED dirVars => TypeDir'
  /\ TypeHistory /\ UNCHANGED histVars => TypeHistory'
  /\ UNCHANGED histVars => UNCHANGED base
  /\ TmpInv /\ UNCHANGED <<dbVars, cpVars, base>> => TmpInv'
<1>1. TypeDB /\ UNCHANGED dbVars => TypeDB'
  BY DEF TypeDB, dbVars
<1>2. TypeGroup /\ UNCHANGED gsVars => TypeGroup'
  BY DEF TypeGroup, gsVars
<1>3. TypeWriters /\ UNCHANGED wrVars => TypeWriters'
  BY DEF TypeWriters, wrVars
<1>4. TypeCompact /\ UNCHANGED cpVars => TypeCompact'
  BY DEF TypeCompact, cpVars
<1>5. TypeClose /\ UNCHANGED clVars => TypeClose'
  BY DEF TypeClose, clVars
<1>6. TypeDisk /\ UNCHANGED diskVars => TypeDisk'
  BY DEF TypeDisk, diskVars
<1>7. TypeDir /\ UNCHANGED dirVars => TypeDir'
  BY DEF TypeDir, dirVars
<1>8. TypeHistory /\ UNCHANGED histVars => TypeHistory'
  BY DEF TypeHistory, histVars
<1>9. UNCHANGED histVars => UNCHANGED base
  BY DEF histVars
<1>10. TmpInv /\ UNCHANGED <<dbVars, cpVars, base>> => TmpInv'
  BY DEF TmpInv, Applied, dbVars, cpVars
<1>11. QED
  BY <1>1, <1>2, <1>3, <1>4, <1>5, <1>6, <1>7, <1>8, <1>9, <1>10

LEMMA TypeInit == Init => TypeInv
<1> SUFFICES ASSUME Init PROVE TypeInv
  OBVIOUS
<1> USE BoundAssumption DEF Init, Inodes, Error
<1>1. TypeDB /\ TypeGroup /\ TypeCompact /\ TypeClose
  BY DEF TypeDB, TypeGroup, TypeCompact, TypeClose
<1>2. TypeWriters
  BY DEF TypeWriters, Idle
<1>3. TypeDisk /\ TypeDir /\ TypeHistory /\ TmpInv
  BY DEF TypeDisk, TypeDir, TypeHistory, TmpInv
<1>4. QED
  BY <1>1, <1>2, <1>3 DEF TypeInv, TypeOK

LEMMA FsyncType ==
  ASSUME NEW i \in Inodes, NEW goal \in Nat, TypeDisk, FsyncOk(i, goal) \/ FsyncFail(i)
  PROVE  TypeDisk'
<1>1. Larger(durable[i], goal) \in Nat
  BY DEF TypeDisk, Larger
<1>2. QED
  BY <1>1 DEF TypeDisk, FsyncOk, FsyncFail

LEMMA TmpInode == TypeDB /\ TmpInv /\ cpc # "idle" => tmp \in Inodes
  BY BoundAssumption DEF TypeDB, TmpInv, Inodes, tmp

LEMMA ZeroInode == 0 \in Inodes
  BY BoundAssumption DEF Inodes

LEMMA IdleType == Idle \in [f : Inodes, cover : Nat, goal : Nat, err : Error]
  BY ZeroInode DEF Idle, Error

LEMMA TypeStep == TypeInv /\ [Next]_vars => TypeInv'
<1> SUFFICES ASSUME TypeDB, TypeGroup, TypeWriters, TypeCompact, TypeClose,
                    TypeDisk, TypeDir, TypeHistory, TmpInv, [Next]_vars
             PROVE  TypeInv'
  BY DEF TypeInv, TypeOK
<1> USE DEF Error
<1>1. ASSUME NEW w \in Writers, Append(w) PROVE TypeInv'
  <2>1. TypeDB'
    BY <1>1 DEF Append, WriteLog, MaybeAutoCompact, TypeDB
  <2>2. TypeWriters'
    BY <1>1 DEF Append, TypeDB, TypeWriters
  <2>3. TypeDisk'
    <3>1. file \in Inodes /\ written[file] + 1 \in Nat
      BY DEF TypeDB, TypeDisk
    <3>2. QED
      BY <1>1, <3>1 DEF Append, WriteLog, TypeDisk
  <2>4. TmpInv'
    BY <1>1 DEF Append, WriteLog, cpVars, histVars, Applied, TypeDB, TypeHistory,
       TypeCompact, TmpInv
  <2>5. QED
    BY TypeFrame, <1>1, <2>1, <2>2, <2>3, <2>4 DEF Append, TypeInv, TypeOK
<1>2. ASSUME NEW w \in Writers, AppendFail(w) PROVE TypeInv'
  <2>1. TypeDB'
    BY <1>2 DEF AppendFail, TypeDB
  <2>2. TmpInv'
    BY <1>2 DEF AppendFail, cpVars, histVars, Applied, TmpInv
  <2>3. QED
    BY TypeFrame, <1>2, <2>1, <2>2 DEF AppendFail, TypeInv, TypeOK
<1>3. ASSUME NEW w \in Writers, Return(w) PROVE TypeInv'
  <2>1. TypeWriters'
    BY <1>3 DEF Return, TypeWriters
  <2>2. TypeHistory'
    BY <1>3 DEF Return, TypeWriters, Larger, Covered, TypeHistory
  <2>3. TmpInv'
    BY <1>3 DEF Return, Applied, dbVars, cpVars, TmpInv
  <2>4. QED
    BY TypeFrame, <1>3, <2>1, <2>2, <2>3 DEF Return, TypeInv, TypeOK
<1>4. ASSUME NEW w \in Writers, Sleep(w) PROVE TypeInv'
  <2>1. TypeWriters'
    BY <1>4 DEF Sleep, TypeWriters
  <2>2. QED
    BY TypeFrame, <1>4, <2>1 DEF Sleep, TypeInv, TypeOK
<1>5. ASSUME NEW w \in Writers, Lead(w) PROVE TypeInv'
  <2>1. TypeGroup'
    BY <1>5 DEF Lead, TypeGroup
  <2>2. TypeWriters'
    BY <1>5 DEF Lead, LeaderPcs, TypeWriters
  <2>3. QED
    BY TypeFrame, <1>5, <2>1, <2>2 DEF Lead, TypeInv, TypeOK
<1>6. ASSUME NEW w \in Writers, LeaderCapture(w) PROVE TypeInv'
  <2>1. TypeWriters'
    BY <1>6 DEF LeaderCapture, LeaderPcs, TypeDB, TypeDisk, TypeWriters
  <2>2. QED
    BY TypeFrame, <1>6, <2>1 DEF LeaderCapture, TypeInv, TypeOK
<1>7. ASSUME NEW w \in Writers, LeaderSyncOk(w) PROVE TypeInv'
  <2>1. TypeWriters'
    BY <1>7 DEF LeaderSyncOk, LeaderPcs, TypeWriters
  <2>2. TypeDisk'
    <3>1. ldr[w].f \in Inodes /\ ldr[w].goal \in Nat
      BY DEF TypeWriters
    <3>2. QED
      BY <1>7, <3>1, FsyncType DEF LeaderSyncOk
  <2>3. QED
    BY TypeFrame, <1>7, <2>1, <2>2 DEF LeaderSyncOk, TypeInv, TypeOK
<1>8. ASSUME NEW w \in Writers, LeaderSyncFail(w) PROVE TypeInv'
  <2>1. TypeWriters'
    BY <1>8 DEF LeaderSyncFail, LeaderPcs, TypeWriters
  <2>2. TypeDisk'
    <3>1. file \in Inodes /\ 0 \in Nat
      BY DEF TypeDB
    <3>2. QED
      BY <1>8, <3>1, FsyncType, TypeFrame DEF LeaderSyncFail
  <2>3. QED
    BY TypeFrame, <1>8, <2>1, <2>2 DEF LeaderSyncFail, TypeInv, TypeOK
<1>9. ASSUME NEW w \in Writers, LeaderCheck(w) PROVE TypeInv'
  <2>1. TypeWriters'
    BY <1>9 DEF LeaderCheck, LeaderPcs, TypeWriters
  <2>2. QED
    BY TypeFrame, <1>9, <2>1 DEF LeaderCheck, TypeInv, TypeOK
<1>10. ASSUME NEW w \in Writers, LeaderPoison(w) PROVE TypeInv'
  <2>1. TypeDB'
    BY <1>10 DEF LeaderPoison, TypeDB
  <2>2. TypeWriters'
    BY <1>10 DEF LeaderPoison, LeaderPcs, TypeWriters
  <2>3. TmpInv'
    BY <1>10 DEF LeaderPoison, cpVars, histVars, Applied, TmpInv
  <2>4. QED
    BY TypeFrame, <1>10, <2>1, <2>2, <2>3 DEF LeaderPoison, TypeInv, TypeOK
<1>11. ASSUME NEW w \in Writers, LeaderFinish(w) PROVE TypeInv'
  <2>1. TypeGroup'
    BY <1>11 DEF LeaderFinish, TypeWriters, Larger, TypeGroup
  <2>2. TypeWriters'
    <3>1. pc' \in [Writers -> {"idle", "wait", "sleep"} \union LeaderPcs]
      BY <1>11 DEF LeaderFinish, Woken, TypeWriters
    <3>2. QED
      BY <1>11, <3>1, IdleType, Zenon DEF LeaderFinish, TypeWriters
  <2>3. QED
    BY TypeFrame, <1>11, <2>1, <2>2 DEF LeaderFinish, TypeInv, TypeOK
<1>12. CASE Sync
  <2>1. TypeGroup'
    BY <1>12 DEF Sync, MarkDurable, TypeDB, gsVars, Larger, TypeGroup
  <2>2. TypeWriters'
    BY <1>12 DEF Sync, MarkDurable, Woken, wrVars, TypeWriters
  <2>3. TypeDisk'
    <3>1. file \in Inodes /\ written[file] \in Nat
      BY DEF TypeDB, TypeDisk
    <3>2. QED
      BY <1>12, <3>1, FsyncType DEF Sync
  <2>4. QED
    BY TypeFrame, <1>12, <2>1, <2>2, <2>3 DEF Sync, TypeInv, TypeOK
<1>13. CASE BackgroundSync
  <2>1. TypeDB'
    BY <1>13 DEF BackgroundSync, TypeDB
  <2>2. TypeDisk'
    <3>1. file \in Inodes /\ written[file] \in Nat
      BY DEF TypeDB, TypeDisk
    <3>2. QED
      BY <1>13, <3>1, FsyncType DEF BackgroundSync
  <2>3. TmpInv'
    BY <1>13 DEF BackgroundSync, cpVars, histVars, Applied, TmpInv
  <2>4. QED
    BY TypeFrame, <1>13, <2>1, <2>2, <2>3 DEF BackgroundSync, TypeInv, TypeOK
<1>14. CASE CompactStart
  <2>1. TypeDB'
    BY <1>14 DEF CompactStart, TypeDB
  <2>2. TypeCompact'
    BY <1>14 DEF CompactStart, Applied, TypeDB, TypeHistory, TypeCompact
  <2>3. TmpInv'
    BY <1>14 DEF CompactStart, histVars, Applied, TypeDB, TypeHistory, TmpInv
  <2>4. QED
    BY TypeFrame, <1>14, <2>1, <2>2, <2>3 DEF CompactStart, TypeInv, TypeOK
<1>15. CASE AutoRefused
  <2>1. TypeDB'
    BY <1>15 DEF AutoRefused, TypeDB
  <2>2. TmpInv'
    BY <1>15 DEF AutoRefused, cpVars, histVars, Applied, TmpInv
  <2>3. QED
    BY TypeFrame, <1>15, <2>1, <2>2 DEF AutoRefused, TypeInv, TypeOK
<1>16. CASE AutoFinish
  <2>1. TypeDB'
    BY <1>16 DEF AutoFinish, TypeDB
  <2>2. TmpInv'
    BY <1>16 DEF AutoFinish, cpVars, histVars, Applied, TmpInv
  <2>3. QED
    BY TypeFrame, <1>16, <2>1, <2>2 DEF AutoFinish, TypeInv, TypeOK
<1>17. CASE CompactStream
  <2>1. TypeCompact'
    BY <1>17 DEF CompactStream, TypeCompact
  <2>2. TypeDisk'
    BY <1>17, TmpInode DEF CompactStream, TypeCompact, TypeDisk
  <2>3. TmpInv'
    BY <1>17 DEF CompactStream, dbVars, histVars, Applied, PhaseB, TmpInv
  <2>4. QED
    BY TypeFrame, <1>17, <2>1, <2>2, <2>3 DEF CompactStream, TypeInv, TypeOK
<1>18. CASE CompactTail
  <2>1. TypeCompact'
    BY <1>18 DEF CompactTail, PhaseB, TypeCompact
  <2>2. TypeDisk'
    <3>1. tmp \in Inodes /\ written[tmp] \in Nat
      BY <1>18, TmpInode DEF CompactTail, TypeDisk
    <3>2. Applied \in Nat /\ tailStart \in Nat /\ tailStart <= Applied
      BY <1>18 DEF CompactTail, TypeDB, TypeHistory, TypeCompact, TmpInv, Applied
    <3>3. written[tmp] + (Applied - tailStart) \in Nat
      BY <3>1, <3>2
    <3>4. QED
      BY <1>18, <3>1, <3>3 DEF CompactTail, TypeDisk
  <2>3. TmpInv'
    BY <1>18 DEF CompactTail, dbVars, histVars, Applied, PhaseB, TmpInv
  <2>4. QED
    BY TypeFrame, <1>18, <2>1, <2>2, <2>3 DEF CompactTail, TypeInv, TypeOK
<1>19. CASE CompactRefused
  <2>1. TypeDB'
    BY <1>19 DEF CompactRefused, CompactReturn, TypeDB
  <2>2. TypeCompact'
    BY <1>19 DEF CompactRefused, CompactReturn, TypeCompact
  <2>3. TmpInv'
    BY <1>19 DEF CompactRefused, CompactReturn, TmpInv
  <2>4. QED
    BY TypeFrame, <1>19, <2>1, <2>2, <2>3 DEF CompactRefused, TypeInv, TypeOK
<1>20. CASE CompactAbort
  <2>1. TypeDB'
    BY <1>20 DEF CompactAbort, CompactReturn, TypeDB
  <2>2. TypeCompact'
    BY <1>20 DEF CompactAbort, CompactReturn, TypeCompact
  <2>3. TmpInv'
    BY <1>20 DEF CompactAbort, CompactReturn, TmpInv
  <2>4. QED
    BY TypeFrame, <1>20, <2>1, <2>2, <2>3 DEF CompactAbort, TypeInv, TypeOK
<1>21. CASE CompactSync
  <2>1. TypeCompact'
    BY <1>21 DEF CompactSync, PhaseB, TypeCompact
  <2>2. TypeDisk'
    <3>1. tmp \in Inodes /\ written[tmp] \in Nat
      BY <1>21, TmpInode DEF CompactSync, TypeDisk
    <3>2. QED
      BY <1>21, <3>1, FsyncType DEF CompactSync
  <2>3. TmpInv'
    BY <1>21 DEF CompactSync, dbVars, histVars, Applied, PhaseB, TmpInv
  <2>4. QED
    BY TypeFrame, <1>21, <2>1, <2>2, <2>3 DEF CompactSync, TypeInv, TypeOK
<1>22. CASE CompactRename
  <2>1. TypeCompact'
    BY <1>22 DEF CompactRename, PhaseB, TypeCompact
  <2>2. TypeDir'
    BY <1>22, TmpInode DEF CompactRename, TypeDir
  <2>3. TmpInv'
    BY <1>22 DEF CompactRename, dbVars, histVars, Applied, PhaseB, TmpInv
  <2>4. QED
    BY TypeFrame, <1>22, <2>1, <2>2, <2>3 DEF CompactRename, TypeInv, TypeOK
<1>23. CASE CompactSyncDir
  <2>1. TypeCompact'
    BY <1>23 DEF CompactSyncDir, PhaseB, TypeCompact
  <2>2. TypeDir'
    BY <1>23, TmpInode DEF CompactSyncDir, SyncDir, TypeDir
  <2>3. TmpInv'
    BY <1>23 DEF CompactSyncDir, dbVars, histVars, Applied, PhaseB, TmpInv
  <2>4. QED
    BY TypeFrame, <1>23, <2>1, <2>2, <2>3 DEF CompactSyncDir, TypeInv, TypeOK
<1>24. CASE CompactSwap
  <2>1. TypeDB'
    BY <1>24, TmpInode DEF CompactSwap, CompactReturn, TypeDB
  <2>2. TypeGroup'
    BY <1>24 DEF CompactSwap, MarkDurable, TypeDB, Larger, TypeGroup
  <2>3. TypeWriters'
    BY <1>24 DEF CompactSwap, MarkDurable, Woken, TypeWriters
  <2>4. TypeCompact'
    BY <1>24 DEF CompactSwap, CompactReturn, TypeCompact
  <2>5. TmpInv'
    BY <1>24 DEF CompactSwap, CompactReturn, TmpInv
  <2>6. QED
    BY TypeFrame, <1>24, <2>1, <2>2, <2>3, <2>4, <2>5 DEF CompactSwap, TypeInv, TypeOK
<1>25. CASE CloseBegin
  <2>1. TypeDB'
    BY <1>25 DEF CloseBegin, TypeDB
  <2>2. TypeClose'
    BY <1>25 DEF CloseBegin, TypeClose
  <2>3. TmpInv'
    BY <1>25 DEF CloseBegin, cpVars, histVars, Applied, TmpInv
  <2>4. QED
    BY TypeFrame, <1>25, <2>1, <2>2, <2>3 DEF CloseBegin, TypeInv, TypeOK
<1>26. CASE CloseFinish
  <2>1. TypeGroup'
    BY <1>26 DEF CloseFinish, MarkDurable, TypeDB, gsVars, Larger, TypeGroup
  <2>2. TypeWriters'
    BY <1>26 DEF CloseFinish, MarkDurable, Woken, wrVars, TypeWriters
  <2>3. TypeClose'
    BY <1>26 DEF CloseFinish, TypeDB, TypeClose
  <2>4. TypeDisk'
    <3>1. file \in Inodes /\ written[file] \in Nat
      BY DEF TypeDB, TypeDisk
    <3>2. QED
      BY <1>26, <3>1, FsyncType DEF CloseFinish
  <2>5. QED
    BY TypeFrame, <1>26, <2>1, <2>2, <2>3, <2>4 DEF CloseFinish, TypeInv, TypeOK
<1>27. CASE ProcessRestart
  <2>1. TypeDB'
    BY <1>27 DEF ProcessRestart, Open, TypeDir, TypeDB
  <2>2. TypeGroup'
    BY <1>27 DEF ProcessRestart, Open, TypeGroup
  <2>3. TypeWriters'
    BY <1>27, IdleType DEF ProcessRestart, Open, TypeWriters
  <2>4. TypeCompact'
    BY <1>27 DEF ProcessRestart, Open, TypeCompact
  <2>5. TypeClose'
    BY <1>27 DEF ProcessRestart, Open, TypeClose
  <2>6. TypeDir'
    BY <1>27 DEF ProcessRestart, SyncDir, TypeDir
  <2>7. TypeHistory'
    BY <1>27 DEF ProcessRestart, Open, TypeDir, TypeDisk, TypeHistory
  <2>8. TmpInv'
    BY <1>27 DEF ProcessRestart, Open, TmpInv
  <2>9. QED
    BY TypeFrame, <1>27, <2>1, <2>2, <2>3, <2>4, <2>5, <2>6, <2>7, <2>8
       DEF ProcessRestart, TypeInv, TypeOK
<1>28. CASE PowerCut
  <2>1. TypeDB'
    BY <1>28 DEF PowerCut, Open, TypeDir, TypeDB
  <2>2. TypeGroup'
    BY <1>28 DEF PowerCut, Open, TypeGroup
  <2>3. TypeWriters'
    BY <1>28, IdleType DEF PowerCut, Open, TypeWriters
  <2>4. TypeCompact'
    BY <1>28 DEF PowerCut, Open, TypeCompact
  <2>5. TypeClose'
    BY <1>28 DEF PowerCut, Open, TypeClose
  <2>6. TypeDisk'
    BY <1>28 DEF PowerCut, TypeDir, TypeDisk
  <2>7. TypeDir'
    BY <1>28 DEF PowerCut, TypeDir
  <2>8. TypeHistory'
    BY <1>28 DEF PowerCut, Open, TypeDir, TypeDisk, TypeHistory
  <2>9. TmpInv'
    BY <1>28 DEF PowerCut, Open, TmpInv
  <2>10. QED
    BY TypeFrame, <1>28, <2>1, <2>2, <2>3, <2>4, <2>5, <2>6, <2>7, <2>8, <2>9
       DEF PowerCut, TypeInv, TypeOK
<1>29. CASE UNCHANGED vars
  BY <1>29, TypeFrame DEF vars, TypeInv, TypeOK
<1>30. QED
  BY <1>1, <1>2, <1>3, <1>4, <1>5, <1>6, <1>7, <1>8, <1>9, <1>10, <1>11,
     <1>12, <1>13, <1>14, <1>15, <1>16, <1>17, <1>18, <1>19, <1>20, <1>21,
     <1>22, <1>23, <1>24, <1>25, <1>26, <1>27, <1>28, <1>29
     DEF Next, WriterStep, LeaderLock, CompactStep

\* Every variable keeps its type in every behaviour.
THEOREM TypeCorrect == Spec => []TypeOK
<1>1. TypeInv => TypeOK
  BY DEF TypeInv
<1>2. QED
  BY TypeInit, TypeStep, <1>1, PTL DEF Spec
-----------------------------------------------------------------------------
\* The typing facts the proofs below use.
LEMMA TypeFacts ==
  TypeInv =>
    /\ file \in Inodes /\ Inodes \subseteq Nat
    /\ base \in Nat /\ appendSeq \in Nat /\ tailStart \in Nat
    /\ synced \in Nat /\ acked \in Nat
    /\ dirCur \in Inodes /\ dirDur \in Inodes
    /\ cpc \in {"idle", "stream", "tail"} \union PhaseB
    /\ cpc # "idle" => tmp \in Inodes /\ tmp # file /\ ~(tmp <= file)
    /\ cpc \in {"stream", "tail"} => tailStart <= Applied
    /\ written \in [Inodes -> Nat] /\ durable \in [Inodes -> Nat]
    /\ pc \in [Writers -> {"idle", "wait", "sleep"} \union LeaderPcs]
    /\ seq \in [Writers -> Nat]
    /\ ldr \in [Writers -> [f : Inodes, cover : Nat, goal : Nat, err : Error]]
BY BoundAssumption DEF TypeInv, TypeOK, TmpInv, TypeDB, TypeHistory, TypeCompact,
   TypeDir, TypeDisk, TypeGroup, TypeWriters, Inodes, tmp

LEMMA CapturedType ==
  ASSUME TypeInv, NEW w \in Writers
  PROVE  ldr[w].f \in Inodes /\ ldr[w].cover \in Nat /\ ldr[w].goal \in Nat
  BY DEF TypeInv, TypeOK, TypeWriters

\* The steps that neither write, acknowledge nor open the log, and leave the
\* group commit and its writers alone.
Bystander ==
  \/ BackgroundSync \/ CloseBegin \/ UNCHANGED vars
  \/ CompactStart \/ AutoRefused \/ AutoFinish
  \/ CompactStream \/ CompactTail \/ CompactRefused \/ CompactAbort
  \/ CompactSync \/ CompactRename \/ CompactSyncDir

LEMMA BystanderFrame ==
  Bystander => UNCHANGED <<appendSeq, file, synced, syncing, pc, seq, ldr, closeErr, base, acked>>
<1> SUFFICES ASSUME Bystander
             PROVE  UNCHANGED <<appendSeq, file, synced, syncing, pc, seq, ldr, closeErr, base, acked>>
  OBVIOUS
<1> USE DEF dbVars, gsVars, wrVars, clVars, histVars
<1>1. CASE BackgroundSync
  BY <1>1 DEF BackgroundSync
<1>2. CASE CloseBegin
  BY <1>2 DEF CloseBegin
<1>3. CASE CompactStart
  BY <1>3 DEF CompactStart
<1>4. CASE AutoRefused
  BY <1>4 DEF AutoRefused
<1>5. CASE AutoFinish
  BY <1>5 DEF AutoFinish
<1>6. CASE CompactStream
  BY <1>6 DEF CompactStream
<1>7. CASE CompactTail
  BY <1>7 DEF CompactTail
<1>8. CASE CompactRefused
  BY <1>8 DEF CompactRefused
<1>9. CASE CompactAbort
  BY <1>9 DEF CompactAbort
<1>10. CASE CompactSync
  BY <1>10 DEF CompactSync
<1>11. CASE CompactRename
  BY <1>11 DEF CompactRename
<1>12. CASE CompactSyncDir
  BY <1>12 DEF CompactSyncDir
<1>13. CASE UNCHANGED vars
  BY <1>13 DEF vars
<1>14. QED
  BY <1>1, <1>2, <1>3, <1>4, <1>5, <1>6, <1>7, <1>8,
     <1>9, <1>10, <1>11, <1>12, <1>13 DEF Bystander

-----------------------------------------------------------------------------
(***************************************************************************)
(* Leadership and wake-ups.                                                *)
(***************************************************************************)
LEMMA GroupStep ==
  TypeInv /\ OneLeader /\ NoLostWakeup /\ [Next]_vars => (OneLeader /\ NoLostWakeup)'
<1> SUFFICES ASSUME TypeInv, OneLeader, NoLostWakeup, [Next]_vars
             PROVE  (OneLeader /\ NoLostWakeup)'
  OBVIOUS
<1> USE DEF OneLeader, NoLostWakeup
<1>a. pc \in [Writers -> {"idle", "wait", "sleep"} \union LeaderPcs]
  BY TypeFacts
\* Writers may stop sleeping, or wait or go idle, while the leader stays.
<1>1. ASSUME UNCHANGED syncing,
             \A w \in Writers : pc'[w] \in LeaderPcs <=> pc[w] \in LeaderPcs,
             (\E w \in Writers : pc'[w] = "sleep") =>
                syncing = "inflight" \/ \E w \in Writers : pc[w] = "sleep"
      PROVE  (OneLeader /\ NoLostWakeup)'
  BY <1>1
<1>2. CASE UNCHANGED <<pc, syncing>>
  BY <1>2
<1>3. ASSUME NEW w \in Writers, Append(w) \/ Return(w) \/ Sleep(w)
      PROVE  (OneLeader /\ NoLostWakeup)'
  <2>1. /\ UNCHANGED syncing /\ pc[w] \in {"idle", "wait"}
        /\ \/ pc' = [pc EXCEPT ![w] = "wait"] \/ pc' = [pc EXCEPT ![w] = "idle"]
           \/ pc' = [pc EXCEPT ![w] = "sleep"] /\ syncing = "inflight"
    BY <1>3 DEF Append, Return, Sleep, gsVars
  <2>2. \A v \in Writers : pc'[v] \in LeaderPcs <=> pc[v] \in LeaderPcs
    BY <1>a, <2>1 DEF LeaderPcs
  <2>3. (\E v \in Writers : pc'[v] = "sleep") =>
           syncing = "inflight" \/ \E v \in Writers : pc[v] = "sleep"
    BY <1>a, <2>1
  <2>4. QED
    BY <1>1, <2>1, <2>2, <2>3
<1>4. ASSUME NEW w \in Writers, Lead(w) PROVE (OneLeader /\ NoLostWakeup)'
  <2>1. /\ syncing = "idle" /\ syncing' = "inflight"
        /\ pc'[w] = "capture" /\ \A v \in Writers : v # w => pc'[v] = pc[v]
    BY <1>4, <1>a DEF Lead
  <2>2. pc'[w] \in LeaderPcs /\ \A v \in Writers : v # w => pc'[v] \notin LeaderPcs
    BY <2>1 DEF LeaderPcs
  <2>3. QED
    BY <2>1, <2>2
<1>5. ASSUME NEW w \in Writers, LeaderSyncOk(w) \/ LeaderSyncFail(w) \/ LeaderLock(w)
      PROVE (OneLeader /\ NoLostWakeup)'
  <2>1. UNCHANGED syncing /\ pc[w] \in LeaderPcs /\ \E p \in LeaderPcs : pc' = [pc EXCEPT ![w] = p]
    BY <1>5 DEF LeaderSyncOk, LeaderSyncFail, LeaderLock, LeaderCapture, LeaderCheck,
       LeaderPoison, gsVars, LeaderPcs
  <2>2. \A v \in Writers : pc'[v] \in LeaderPcs <=> pc[v] \in LeaderPcs
    BY <1>a, <2>1
  <2>3. syncing = "inflight"
    BY <2>1
  <2>4. QED
    BY <1>1, <2>1, <2>2, <2>3
<1>6. ASSUME NEW w \in Writers, LeaderFinish(w) PROVE (OneLeader /\ NoLostWakeup)'
  <2>1. /\ syncing' = "idle" /\ pc[w] \in LeaderPcs
        /\ pc'[w] = "wait"
        /\ \A v \in Writers : v # w => pc'[v] = IF pc[v] = "sleep" THEN "wait" ELSE pc[v]
    BY <1>6, <1>a DEF LeaderFinish, Woken, LeaderPcs
  <2>2. \A v \in Writers : pc'[v] \notin LeaderPcs /\ pc'[v] # "sleep"
    BY <2>1 DEF LeaderPcs
  <2>3. QED
    BY <2>1, <2>2
<1>7. CASE MarkDurable
  <2>1. UNCHANGED syncing /\ \A v \in Writers : pc'[v] = IF pc[v] = "sleep" THEN "wait" ELSE pc[v]
    BY <1>7 DEF MarkDurable, Woken
  <2>2. \A v \in Writers : pc'[v] # "sleep" /\ (pc'[v] \in LeaderPcs <=> pc[v] \in LeaderPcs)
    BY <2>1 DEF LeaderPcs
  <2>3. QED
    BY <1>1, <2>1, <2>2
<1>8. CASE ProcessRestart \/ PowerCut
  <2>1. syncing' = "idle" /\ \A v \in Writers : pc'[v] = "idle"
    BY <1>8 DEF ProcessRestart, PowerCut, Open
  <2>2. QED
    BY <2>1 DEF LeaderPcs
<1>9. ASSUME NEW w \in Writers, AppendFail(w) PROVE UNCHANGED <<pc, syncing>>
  BY <1>9 DEF AppendFail, gsVars, wrVars
<1>10. CASE Sync \/ CloseFinish \/ CompactSwap
  <2>1. MarkDurable \/ UNCHANGED <<pc, syncing>>
    BY <1>10 DEF Sync, CloseFinish, CompactSwap, gsVars, wrVars
  <2>2. QED
    BY <1>2, <1>7, <2>1
<1>11. CASE Bystander
  BY <1>2, <1>11, BystanderFrame
<1>12. QED
  BY <1>2, <1>3, <1>4, <1>5, <1>6, <1>8, <1>9, <1>10, <1>11
     DEF Next, WriterStep, CompactStep, Bystander

LEMMA GroupInv == Spec => [](OneLeader /\ NoLostWakeup)
<1>1. Init => OneLeader /\ NoLostWakeup
  BY DEF Init, OneLeader, NoLostWakeup, LeaderPcs
<1>2. QED
  BY TypeInit, TypeStep, GroupStep, <1>1, PTL DEF Spec

\* At most one committer in waitDurable leads, and syncing says whether one
\* does.
THEOREM OneCommitterLeads == Spec => []OneLeader
BY GroupInv, PTL

\* A committer that sleeps in waitDurable always has a leader that will
\* broadcast.
THEOREM SleepersAreWoken == Spec => []NoLostWakeup
BY GroupInv, PTL
-----------------------------------------------------------------------------
(***************************************************************************)
(* Phase B of Compact.                                                     *)
(***************************************************************************)

\* From the second look at closed and writeErr to the swap, mu is held and
\* neither changes.
HealthyInv == cpc \in PhaseB => ~closed /\ writeErr = "nil"

LEMMA HealthyStep ==
  TypeInv /\ HealthyInv /\ [Next]_vars =>
    /\ HealthyInv'
    /\ dirCur' # dirCur /\ restarts' = restarts => ~closed /\ writeErr = "nil"
<1> DEFINE Goal == /\ HealthyInv'
                   /\ dirCur' # dirCur /\ restarts' = restarts => ~closed /\ writeErr = "nil"
<1> SUFFICES ASSUME TypeInv, HealthyInv, [Next]_vars PROVE Goal
  OBVIOUS
<1> USE DEF HealthyInv, closed
<1>1. CASE UNCHANGED <<cpc, clpc, writeErr, dirCur>>
  BY <1>1
\* Steps that need mu find it free and take the compaction nowhere.
<1>2. CASE MuFree /\ UNCHANGED <<cpc, dirCur>>
  BY <1>2 DEF MuFree
<1>3. ASSUME NEW w \in Writers,
             Append(w) \/ AppendFail(w) \/ LeaderLock(w)
      PROVE  MuFree /\ UNCHANGED <<cpc, dirCur>>
  BY <1>3 DEF Append, AppendFail, LeaderLock, LeaderCapture, LeaderCheck, LeaderPoison,
     cpVars, dirVars
<1>4. ASSUME NEW w \in Writers, WriterStep(w)
      PROVE  UNCHANGED <<cpc, clpc, writeErr, dirCur>>
  BY <1>4 DEF WriterStep, Return, Sleep, Lead, LeaderSyncOk, LeaderSyncFail, LeaderFinish,
     dbVars, cpVars, clVars, dirVars
<1>5. CASE Sync \/ BackgroundSync \/ AutoFinish \/ CloseBegin \/ CloseFinish
  <2>1. MuFree /\ UNCHANGED <<cpc, dirCur>>
    BY <1>5 DEF Sync, BackgroundSync, AutoFinish, CloseBegin, CloseFinish, cpVars, dirVars
  <2>2. QED
    BY <1>2, <2>1
<1>6. CASE AutoRefused
  BY <1>1, <1>6 DEF AutoRefused, cpVars, clVars, dirVars
<1>7. CASE CompactStart \/ CompactStream \/ CompactRefused \/ CompactAbort \/ CompactSwap
  <2>1. cpc' \notin PhaseB /\ UNCHANGED dirCur
    BY <1>7 DEF CompactStart, CompactStream, CompactRefused, CompactAbort, CompactSwap,
       CompactReturn, PhaseB, dirVars
  <2>2. QED
    BY <2>1
<1>8. CASE CompactTail
  BY <1>8 DEF CompactTail, dbVars, clVars, dirVars
<1>9. CASE CompactSync \/ CompactRename \/ CompactSyncDir
  <2>1. cpc \in PhaseB /\ UNCHANGED <<clpc, writeErr>>
    BY <1>9 DEF CompactSync, CompactRename, CompactSyncDir, PhaseB, dbVars, clVars
  <2>2. QED
    BY <2>1
<1>10. CASE ProcessRestart \/ PowerCut
  <2>1. cpc' = "idle" /\ restarts' # restarts
    BY <1>10 DEF ProcessRestart, PowerCut, Open, TypeInv, TypeOK, TypeHistory
  <2>2. QED
    BY <2>1 DEF PhaseB
<1>11. CASE UNCHANGED vars
  BY <1>1, <1>11 DEF vars, dbVars, cpVars, clVars, dirVars
<1> HIDE DEF Goal
<1>12. QED
  BY <1>2, <1>3, <1>1, <1>4, <1>5, <1>6, <1>7, <1>8, <1>9, <1>10, <1>11
     DEF Next, CompactStep

\* A compaction replaces the log only while the database is open and its log
\* not suspect: what Phase B checks under mu still holds at its rename.
THEOREM SwapIsSound == Spec => SwapsLiveLogOnly
<1>1. Init => HealthyInv
  BY DEF Init, HealthyInv, PhaseB
<1>2. QED
  BY TypeInit, TypeStep, <1>1, HealthyStep, PTL DEF Spec, SwapsLiveLogOnly

=============================================================================
