\* Does a position restored after a crash ever close?
CONSTANTS
  Books <- MCBooks
  BpsScale = 100
  CostBps = 1
  MaxOpenTrades = 2
  CloseOnReversal = TRUE
  MaxTrades = 2
  PositionUsd = 1
  MaxNotionalPerTrade = 1
  MaxDailyLoss = 100
  GuardMaxOpenTrades = 2
  OrderOutcomes = {"accepted"}
  LossTenths = 5
  RuntimeLimited = FALSE
  HeedsStop = TRUE
  MaxCrashes = 1
SPECIFICATION FairRunnerSpec
PROPERTY PositionsClose
