\* Safety of the manager: three transactions, queues of two.
CONSTANTS
    t1 = t1
    t2 = t2
    t3 = t3
    NoTxn = NoTxn
    Preparer = Preparer
    Txns = {t1, t2, t3}
    PrevTs = 0
    QueueCap = 2
SPECIFICATION MgrSpec
SYMMETRY TxnSymmetry
INVARIANTS
    DoneInTimestampOrder
    NoLostWakeup
    IndInv
PROPERTY
    ImplementsTxnOrder
