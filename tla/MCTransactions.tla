--------------------------- MODULE MCTransactions ---------------------------
(***************************************************************************)
(* Small instances of Transactions.                                        *)
(***************************************************************************)
EXTENDS Transactions, TLC

CONSTANTS t1, v1, v2, byValue

MCOneKey == {1}
MCTwoKeys == {1, 2}
MCOneValue == {v1}
MCTwoValues == {v1, v2}
MCNames == {byValue}
MCNoNames == {}
MCNoTxs == {}
MCOneTx == {t1}

MCSymmetry == Permutations(Values)

=============================================================================
