\* Liveness and refinement of the manager: two transactions, queues of one.
CONSTANTS
    t1 = t1
    t2 = t2
    NoTxn = NoTxn
    Preparer = Preparer
    Txns = {t1, t2}
    PrevTs = 0
    QueueCap = 1
SPECIFICATION FairMgrSpec
PROPERTIES
    CallsReturn
    ImplementsFairTxnOrder
