\* Liveness of one process that is not restarted.
CONSTANTS
  Books <- MCBooks
  BpsScale = 100
  CostBps = 1
  MaxOpenTrades = 2
  CloseOnReversal = TRUE
  MaxTrades = 3
  PositionUsd = 1
  MaxNotionalPerTrade = 1
  MaxDailyLoss = 5
  GuardMaxOpenTrades = 1
  OrderOutcomes = {"accepted", "refused", "lost"}
  LossTenths = 5
  RuntimeLimited = FALSE
  HeedsStop = TRUE
  MaxCrashes = 0
SPECIFICATION FairRunnerSpec
PROPERTIES
  PositionsClose
  StopEndsLoop
