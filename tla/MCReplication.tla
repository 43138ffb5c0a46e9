--------------------------- MODULE MCReplication ----------------------------
(***************************************************************************)
(* Small instances of Replication.                                         *)
(***************************************************************************)
EXTENDS Replication

MCKeys == {1, 2}

=============================================================================
