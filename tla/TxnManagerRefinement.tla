------------------------ MODULE TxnManagerRefinement ------------------------
(***************************************************************************)
(* The transaction manager implements TxnOrder: a transaction is pending   *)
(* from the moment onPreparing stamps it until Done, whatever the queues   *)
(* and the store do in between.                                            *)
(***************************************************************************)
EXTENDS TxnManager

Outcome(t) == CASE state[t] = "Active" -> "open"
                [] state[t] = "Committing" -> "pending"
                [] state[t] = "Rollbacking" -> "pending"
                [] state[t] = "Committed" -> "committed"
                [] state[t] = "Rollbacked" -> "aborted"

Order == INSTANCE TxnOrder WITH
             clock <- tsAlloc,
             start <- startTS,
             stamp <- commitTS,
             outcome <- [t \in Txns |-> Outcome(t)],
             answered <- {t \in Txns : client[t] = "returned"}

\* Every step of the manager is a step of TxnOrder or leaves it unchanged.
ImplementsTxnOrder == Order!Spec

\* The goroutines' fairness makes every stamped transaction final and every
\* final transaction's caller answered.
ImplementsFairTxnOrder == Order!FairSpec
=============================================================================
