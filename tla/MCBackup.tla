------------------------------ MODULE MCBackup ------------------------------
(***************************************************************************)
(* Small instances of Backup.                                              *)
(***************************************************************************)
EXTENDS Backup

CONSTANTS c1, c2

MCKeys == {1, 2}
MCOneCaller == {c1}
MCTwoCallers == {c1, c2}

=============================================================================
