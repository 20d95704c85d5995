SPECIFICATION Spec
CONSTANTS
  None = None
  Ids = {1}
  Terms = {t1}
  Origins = {o1}
  MaxAttempt = 2
  Clients = {c1}
  Configured = {"paypal"}
  DefaultKind = "paypal"
  Ttl = 2
  OrderTtl = 2
  Slack = 1
  ReplayOnMismatch = FALSE
  MaxTime = 4
  MaxFaults = 1
INVARIANTS
  LiveSessionPayable
