\* One writer of tables and two readers that never end: every call returns.
CONSTANTS
    t1 = t1
    t2 = t2
    t3 = t3
    NoTxn = NoTxn
    Preparer = Preparer
    Txns = {t1, t2, t3}
    PrevTs = 1
    QueueCap = 2
    DBNames = {"db"}
    TableNames = {"tb"}
    SeedTables = {"tb"}
    May <- RoleOps
    MaxCalls = 2
    Readers = {t2, t3}
    Creators = {t1}
    Droppers = {t1}
    Inserters = {}
    DBWriters = {}
    Committers = {t1}
    Rollbackers = {t1}
SPECIFICATION FairSpec
CHECK_DEADLOCK FALSE
INVARIANTS
    MissMeetsInFlight
PROPERTIES
    CallsEnd
