\* Three trades, every outcome of an order, one crash at any point, resume or reset.
CONSTANTS
  Books <- MCBooks
  BpsScale = 100
  CostBps = 1
  MaxOpenTrades = 2
  CloseOnReversal = TRUE
  MaxTrades = 3
  PositionUsd = 1
  MaxNotionalPerTrade = 1
  MaxDailyLoss = 10
  GuardMaxOpenTrades = 2
  OrderOutcomes = {"accepted", "refused", "lost"}
  LossTenths = 5
  RuntimeLimited = TRUE
  HeedsStop = FALSE
  MaxCrashes = 1
SPECIFICATION RunnerSpec
INVARIANTS
  SingleDirection
  NoLossAtClose
  ActiveOrdersBounded
  ActiveOrdersHedged
  LedgersAgree
  PositionsHeldByEngine
  StopFindsNoPosition
PROPERTIES
  NoOrderBeyondLossLimit
  SessionRefined
