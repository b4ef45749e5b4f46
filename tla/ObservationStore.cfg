SPECIFICATION StoreSpec
CONSTANTS
  Writers = {w1, w2}
  Purposes = {interfaces, check}
  MaxTime = 2
  MaxStores = 3
CHECK_DEADLOCK FALSE
INVARIANTS
  StoreTypeOK
  IndexInOrder
  IndexedFilesExist
  LatestHasRaw
PROPERTY AloneStoreIsComplete
