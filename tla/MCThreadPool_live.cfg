CONSTANTS
  Clients = {c1, c2}
  NoClient = NoClient
  MaxThreads = 2
  MaxTasks = 2
  CpuNumber = 2
  Requests = {0, 2}
  MaxWork = 2
  MaxOpen = 2
  KeepBackends = FALSE
  MaxLeak = 0
SPECIFICATION FairSpec
INVARIANTS ActiveBalanced
PROPERTIES EnqueueReturns DestroyReturns WorkersRest
