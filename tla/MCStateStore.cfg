CONSTANTS
  Categories <- MCCategories
  FailThreshold = 3
  MaxVersion = 4
  MaxFaults = 4
  MaxCrashes = 2
SPECIFICATION StoreSpec
INVARIANT RedisIsWhole
PROPERTY SnapshotsAdvance
