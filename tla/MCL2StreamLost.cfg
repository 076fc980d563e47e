\* Is a lost stream of Upbit connected again?
CONSTANTS
  Exchange = "upbit"
  Threads = {t1}
  Conns <- MCConns
  MaxReconnectAttempts = 2
  None = None
SPECIFICATION FairStreamSpec
PROPERTY LostStreamRetried
CHECK_DEADLOCK FALSE
