\* Two droppers of one table: one holds the database's lock and waits for the
\* other, whose check needs that lock.
CONSTANTS
    t1 = t1
    t2 = t2
    NoTxn = NoTxn
    Preparer = Preparer
    Txns = {t1, t2}
    PrevTs = 1
    QueueCap = 2
    DBNames = {"db"}
    TableNames = {"tb"}
    SeedTables = {"tb"}
    May <- RoleOps
    MaxCalls = 3
    Readers = {}
    Creators = {}
    Droppers = {t1, t2}
    Inserters = {}
    DBWriters = {}
    Committers = {t1, t2}
    Rollbackers = {}
SPECIFICATION FairSpec
CHECK_DEADLOCK FALSE
PROPERTIES
    CallsEnd
