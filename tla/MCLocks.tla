------------------------------ MODULE MCLocks -------------------------------
(***************************************************************************)
(* Small instances of Locks.                                               *)
(***************************************************************************)
EXTENDS Locks, TLC

CONSTANTS g1, g2

MCTwoCallers == {g1, g2}
MCAllCalls ==
  {"setInternal", "Get", "Update", "View", "CreateIndex", "Sync", "Compact", "BackupTo",
   "ReadLogRange", "Close"}
MCWrites == {"setInternal"}
MCEmptyBody == {}
MCGet == {"Get"}

Opts(policy, background) == [policy |-> policy, background |-> background]

MCPlain == {Opts("SyncAlways", {})}
MCOptions ==
  {Opts("SyncAlways", {"sweeper", "auto"}), Opts("SyncEverySecond", {"sweeper"}),
   Opts("SyncEverySecond", {"auto"})}

MCSymmetry == Permutations(Callers)

=============================================================================
