\* Two gets of one name by one transaction disagree.
CONSTANTS
    t1 = t1
    t2 = t2
    NoTxn = NoTxn
    Preparer = Preparer
    Txns = {t1, t2}
    PrevTs = 1
    QueueCap = 2
    DBNames = {"db"}
    TableNames = {"tb"}
    SeedTables = {"tb"}
    May <- RoleOps
    MaxCalls = 3
    Readers = {t1, t2}
    Creators = {t1, t2}
    Droppers = {t1, t2}
    Inserters = {}
    DBWriters = {}
    Committers = {t1, t2}
    Rollbackers = {t1, t2}
SPECIFICATION Spec
CHECK_DEADLOCK FALSE
INVARIANTS
    RepeatableRead
