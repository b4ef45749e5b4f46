SPECIFICATION StoreSpec
CONSTANTS
  Writers = {w1}
  Purposes = {interfaces}
  MaxTime = 2
  MaxStores = 2
CHECK_DEADLOCK FALSE
INVARIANT LatestAnsweredOnceStored
