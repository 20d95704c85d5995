SPECIFICATION GatewaySpec
CONSTANTS
  None = None
  Ids = {1}
  Terms = {t1}
  Origins = {o1}
  MaxAttempt = 3
  Clients = {c1}
  Handlers = {}
  Worker = w
  Configured = {"stripe", "paypal"}
  DefaultKind = "stripe"
  Ttl = 2
  OrderTtl = 2
  Slack = 1
  ReplayOnMismatch = FALSE
  SettlementDelay = 1
  PollLimit = 1
  CarriesCustomId = TRUE
  InitKinds = {}
  Events = {}
  Drifting = {}
  MaxTime = 2
  MaxFaults = 0
INVARIANTS
  PromotionPullsPaidSession
