\* An alert, two worker threads, a restart of the worker, a crash and a failing command.
CONSTANTS
  Alerts = {a1}
  Workers = {w1, w2}
  MaxRetries = 2
  MaxStops = 1
  MaxCrashes = 1
  MaxFaults = 1
SPECIFICATION FairQueueSpec
INVARIANTS
  AttemptsWereMade
  NothingLost
PROPERTIES
  NoTryAfterSettled
  DeliveryRefined
  AlertsSettle
  PendingIsTaken
CHECK_DEADLOCK FALSE
