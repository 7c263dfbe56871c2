\* The database itself is created and dropped under the tables' writers.
CONSTANTS
    t1 = t1
    t2 = t2
    NoTxn = NoTxn
    Preparer = Preparer
    Txns = {t1, t2}
    PrevTs = 1
    QueueCap = 2
    DBNames = {"db"}
    TableNames = {"tb"}
    SeedTables = {"tb"}
    May <- RoleOps
    MaxCalls = 3
    Readers = {t1, t2}
    Creators = {t1, t2}
    Droppers = {t2}
    Inserters = {t2}
    DBWriters = {t1, t2}
    Committers = {t1, t2}
    Rollbackers = {t1, t2}
SPECIFICATION Spec
CHECK_DEADLOCK FALSE
INVARIANTS
    NoWriteAfterDrop
    StampedWillCommit
    DiesOnlyAfterRollback
PROPERTIES
    ImplementsManager
