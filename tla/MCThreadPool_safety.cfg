CONSTANTS
  Clients = {c1, c2}
  NoClient = NoClient
  MaxThreads = 3
  MaxTasks = 1
  CpuNumber = 0
  Requests = {2, 4}
  MaxWork = 4
  MaxOpen = 1
  KeepBackends = TRUE
  MaxLeak = 1
SPECIFICATION Spec
SYMMETRY Symmetry
INVARIANTS TypeOK SlotExclusive InBounds
PROPERTIES TaskStable ParallelForSpec
