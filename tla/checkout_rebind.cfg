SPECIFICATION Spec
CONSTANTS
  None = None
  Ids = {1}
  Terms = {t1}
  Origins = {o1}
  MaxAttempt = 3
  Clients = {c1, c2}
  Configured = {"stripe", "paypal"}
  DefaultKind = "stripe"
  Ttl = 2
  OrderTtl = 2
  Slack = 1
  ReplayOnMismatch = FALSE
  MaxTime = 3
  MaxFaults = 0
SYMMETRY ClientSymmetry
PROPERTIES
  ProcessorNeverRebound
