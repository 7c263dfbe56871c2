SPECIFICATION MemSpec
CONSTANTS
  c1 = c1
  c2 = c2
  n1 = n1
  n2 = n2
  n3 = n3
  Nodes = {n1, n2, n3}
  Clients = {c1, c2}
  NoNode = NoNode
  NoClient = NoClient
  InitSize <- Sizes
  MaxSize = 2
  QCapacity = 2
  Deltas = {1}
  MaxCalls <- Calls
  Users = {u1, u2}
  PageSizes <- Pages
  Capacity = 12
  U32 = 8
  U64 = 64
  Requests = {0, 3, 4, 9}
INVARIANTS PinnedStaysLoaded QuotaExact UnpinnedIsEvictable NoSelfWait BufInv PoolAccounts
PROPERTIES ImplementsPinCache BufCallsEnd
CHECK_DEADLOCK FALSE
