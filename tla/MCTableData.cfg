SPECIFICATION MCSpec
CONSTANTS
  t1 = t1
  t2 = t2
  t3 = t3
  NodeRows = 2
  Keys = {1, 2}
  MaxNodeRows = 2
  MaxBatch = 3
  MaxLocalRows = 5
  MaxRecords = 5
  Txns = {t1, t2, t3}
  NoTxn = NoTxn
  BlockMaxRows = 2
  SegmentMaxBlocks = 3
  RowCounts = {3}
  MaxCreates = 1
  Scenes = {"local", "info", "fresh", "grown"}
SYMMETRY Symmetry
INVARIANTS
   LocalDeletesExact CommandsHaveRows VisibleIsLastCommitted
  RowsPlaced AppendersFill  
CHECK_DEADLOCK FALSE
