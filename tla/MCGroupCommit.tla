--------------------------- MODULE MCGroupCommit ---------------------------
(***************************************************************************)
(* GroupCommit on small instances.  The writers are interchangeable.       *)
(***************************************************************************)
EXTENDS GroupCommit, TLC

CONSTANTS w1, w2, w3

MCTwoWriters == {w1, w2}

MCThreeWriters == {w1, w2, w3}

MCSymmetry == Permutations(Writers)

=============================================================================
