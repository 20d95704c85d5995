SPECIFICATION GatewaySpec
CONSTANTS
  None = None
  Ids = {1}
  Terms = {t1}
  Origins = {o1}
  MaxAttempt = 2
  Clients = {c1}
  Handlers = {h1}
  Worker = w
  Configured = {"stripe"}
  DefaultKind = "stripe"
  Ttl = 2
  OrderTtl = 2
  Slack = 1
  ReplayOnMismatch = FALSE
  SettlementDelay = 1
  PollLimit = 1
  CarriesCustomId = TRUE
  InitKinds = {}
  Events = {"refund"}
  Drifting = {}
  MaxTime = 1
  MaxFaults = 1
INVARIANTS
  EveryStateEarned
  RecordEarned
  AbandonedOnlyForShop
