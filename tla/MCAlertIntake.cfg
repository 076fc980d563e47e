CONSTANTS
  None = None
  p1 = p1
  p2 = p2
  down = down
  slow = slow
  lost = lost
  Producers = {p1, p2}
  Keys = {down, slow, lost}
  Rules = {"P1", "P2"}
  Groups = {"g"}
  RuleOf <- MCRuleOf
  GroupOf <- MCGroupOf
  Aggregated = {"P2"}
  ThrottleWindow = 2
  RateWindow = 1
  BatchWindow = 2
  RateLimit <- MCRateLimit
  MaxBatch = 3
  OverRedis = TRUE
  MaxTime = 3
  MaxFaults = 1
SYMMETRY MCSymmetry
SPECIFICATION IntakeSpec
INVARIANTS IntakeTypeOK RateLimitHolds DroppedAreSpokenFor
PROPERTIES ProducerThrottled
