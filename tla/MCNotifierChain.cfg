\* Two threads, two channels, three notifiers, every answer of the services.
CONSTANTS
  Threads = {t1, t2}
  Alerts = {a1}
  Notifiers <- MCNotifiers
  Log = "local_log"
  Routes <- MCRoutes
  Threshold = 2
SPECIFICATION FairChainSpec
INVARIANT BreakerRests
PROPERTIES
  LogIsLastResort
  SendRefined
  DispatchEnds
  DirectChannelRecovers
CHECK_DEADLOCK FALSE
