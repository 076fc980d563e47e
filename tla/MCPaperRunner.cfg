\* A campaign with whole, partial and no fills.
CONSTANTS
  Quotes <- MCQuotes
  FillModels <- MCFillModels
  EntryBps = 20
  TpBps = 25
  SlBps = 20
  ReversalBps <- MCReversalBps
  MaxHold = 2
  Notional = 1600
  MaxConcurrent = 3
  KillLimit = 200000
  MaxEntries = 6
SPECIFICATION FairPaperSpec
INVARIANTS
  RoundTripsAgree
  LossBounded
PROPERTY PositionsExit
CHECK_DEADLOCK FALSE
