----------------------------- MODULE DurableLog -----------------------------
(***************************************************************************)
(* What btypedb promises about durability under SyncAlways, with no trace  *)
(* of how: commits are applied one after the other, the disk holds a       *)
(* prefix of them, a commit is acknowledged only once that prefix covers   *)
(* it, and a restart keeps some prefix that is at least what the disk      *)
(* held.  GroupCommit implements this specification.                       *)
(***************************************************************************)
EXTENDS Naturals

VARIABLES applied,   \* commits applied to the in-memory state, in order
          disk,      \* the first disk commits survive any power cut
          acked      \* highest commit acknowledged to its caller

dlVars == <<applied, disk, acked>>

DLTypeOK ==
  /\ applied \in Nat
  /\ disk \in Nat
  /\ acked \in Nat

DLInit == applied = 0 /\ disk = 0 /\ acked = 0

\* A write or a transaction is applied and appended to the log.
Apply ==
  /\ applied' = applied + 1
  /\ UNCHANGED <<disk, acked>>

\* An fsync or a compaction moves more of the applied commits to disk.
Persist ==
  /\ disk' \in disk .. applied
  /\ UNCHANGED <<applied, acked>>

\* A committer returns nil: its commit is on disk.
Acknowledge ==
  /\ acked' \in acked .. disk
  /\ UNCHANGED <<applied, disk>>

\* The process stops and the database is opened again.  What it finds is a
\* prefix of what was applied and holds everything that was on disk.
Reopen ==
  /\ applied' \in disk .. applied
  /\ disk' \in disk .. applied'
  /\ UNCHANGED acked

DLNext == Apply \/ Persist \/ Acknowledge \/ Reopen

DLSpec == DLInit /\ [][DLNext]_dlVars

=============================================================================
