----------------------------- MODULE MCTxnStore -----------------------------
(* The catalog and the transaction manager together, by who does what.     *)
EXTENDS TxnStore, TLC

CONSTANTS
    Readers,        \* look tables up
    Creators,       \* create tables
    Droppers,       \* drop tables
    Inserters,      \* look tables up and create segments in them
    DBWriters,      \* create and drop databases
    Committers,     \* end with Commit
    Rollbackers     \* end with Rollback

\* Sound for safety where all transactions have the same roles.
TxnSymmetry == Permutations(Txns)

RoleOps ==
    [t \in Txns |->
        {"GetDB"}
        \cup (IF t \in Readers \cup Inserters THEN {"GetTable"} ELSE {})
        \cup (IF t \in Creators THEN {"CreateTable"} ELSE {})
        \cup (IF t \in Droppers THEN {"DropTable"} ELSE {})
        \cup (IF t \in Inserters THEN {"CreateSegment"} ELSE {})
        \cup (IF t \in DBWriters THEN {"CreateDB", "DropDB"} ELSE {})
        \cup (IF t \in Committers THEN {"Commit"} ELSE {})
        \cup (IF t \in Rollbackers THEN {"Rollback"} ELSE {})]
=============================================================================
