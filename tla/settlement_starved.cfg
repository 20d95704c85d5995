SPECIFICATION FairSpec
CONSTANTS
  None = None
  Ids = {1, 2}
  Terms = {t1}
  Origins = {o1}
  MaxAttempt = 1
  SettlementDelay = 1
  Handlers = {}
  Worker = worker
  PollLimit = 1
  CarriesCustomId = TRUE
  InitKinds = {"stripe"}
  MaxTime = 2
  MaxFaults = 0
PROPERTIES
  PaymentNeverLost
CHECK_DEADLOCK FALSE
