\* Commit returns nil for a transaction that was rolled back.
CONSTANTS
    t1 = t1
    t2 = t2
    NoTxn = NoTxn
    Preparer = Preparer
    Txns = {t1, t2}
    PrevTs = 0
    QueueCap = 1
SPECIFICATION MgrSpec
INVARIANT
    NilCommitIsCommitted
