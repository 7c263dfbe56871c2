\* Two transactions that read, create, drop and write into a committed table
\* and a new one.
CONSTANTS
    t1 = t1
    t2 = t2
    NoTxn = NoTxn
    Preparer = Preparer
    Txns = {t1, t2}
    PrevTs = 1
    QueueCap = 2
    DBNames = {"db"}
    TableNames = {"tb", "tc"}
    SeedTables = {"tb"}
    May <- RoleOps
    MaxCalls = 3
    Readers = {t1, t2}
    Creators = {t1, t2}
    Droppers = {t1, t2}
    Inserters = {t1, t2}
    DBWriters = {}
    Committers = {t1, t2}
    Rollbackers = {t1, t2}
SPECIFICATION Spec
SYMMETRY TxnSymmetry
CHECK_DEADLOCK FALSE
INVARIANTS
    IndexesAgree
    ReadsFromSnapshot
    DroppedOnce
    DoneReleasesEntries
    DuplicateNeedsUndoneDrop
