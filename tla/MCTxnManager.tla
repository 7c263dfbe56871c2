---------------------------- MODULE MCTxnManager ----------------------------
(* The transaction manager on a small set of transactions.                 *)
EXTENDS TxnManagerRefinement, TLC

\* Transactions are interchangeable: no definition tells them apart.
TxnSymmetry == Permutations(Txns)
=============================================================================
