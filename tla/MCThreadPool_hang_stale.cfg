CONSTANTS
  Clients = {c1}
  NoClient = NoClient
  MaxThreads = 3
  MaxTasks = 1
  CpuNumber = 3
  Requests = {2, 3}
  MaxWork = 3
  MaxOpen = 1
  KeepBackends = TRUE
  MaxLeak = 0
SPECIFICATION FairSpec
PROPERTIES EnqueueReturns
