\* The provider of Binance: its stream, its stop and its restarts.
CONSTANTS
  Exchange = "binance"
  Threads = {t1}
  Conns <- MCConns
  MaxReconnectAttempts = 2
  None = None
SPECIFICATION FairStreamSpec
INVARIANT RunningHasThread
PROPERTIES
  LostStreamRetried
  StopEndsReader
CHECK_DEADLOCK FALSE
