CONSTANTS
  Files = 2
  Size <- MCSize
  MaxRetry = 2
  Task = {t1, t2}
  Blocks = 2
  Kept = {1}
  MaxRevision = 2
SYMMETRY Tasks
CONSTRAINT TwoOnFirst
SPECIFICATION StoreSpec
INVARIANTS
  TypeOK
  BlobsWhole
  WeightsRight
PROPERTY StorePromise
