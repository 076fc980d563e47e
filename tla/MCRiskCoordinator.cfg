CONSTANTS
  btc = btc
  eth = eth
  xrp = xrp
  Symbols = {btc, eth, xrp}
  Sizes = {2, 3}
  Losses = {1, 2}
  Allocation <- MCAllocation
  MaxExposure = 4
  MaxDailyLoss = 3
  EmergencyLoss = 4
  MaxSize = 2
  MaxCount = 2
  MaxSymbolLoss = 3
  LossCount = 2
  LossBound = 4
  EntryBound = 6
SPECIFICATION CoordinatorSpec
INVARIANTS BooksAgree AllocationKept OvershootBounded
PROPERTIES BreakerHolds
