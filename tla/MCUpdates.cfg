SPECIFICATION UpSpec
CONSTANTS
  t1 = t1
  t2 = t2
  t3 = t3
  NoTxn = NoTxn
  Txns = {t1, t2, t3}
  Rows = {0, 1}
  MaxMerges = 2
  MaxEntries = 4
  Starts = {1, 2}
  W = 16
  Commands <- MCCommands
  MaxCmds = 3
  Ids = {2, 16}
  Fixed = {1, 2}
  Bytes <- MCBytes
  MaxRows = 3
  MaxApplies = 2
  Scenes = {"order", "merge", "read", "list", "record", "symbol", "column"}
SYMMETRY Symmetry
CHECK_DEADLOCK FALSE
INVARIANTS
  ChainIntact
  MergeSums
  
  IteratorComplete
  
  SymbolsResolve
  ColumnApplied
