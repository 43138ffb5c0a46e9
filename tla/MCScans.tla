------------------------------ MODULE MCScans -------------------------------
(***************************************************************************)
(* Small instances of Scans.                                               *)
(***************************************************************************)
EXTENDS Scans

CONSTANTS g1, byValue

MCKeys == {1, 2, 3}
MCValues == {1, 2}
MCNames == {byValue}
MCScanners == {g1}

=============================================================================
