SPECIFICATION Spec
CONSTANTS
  None = None
  Ids = {1}
  Terms = {t1, t2}
  Origins = {o1, o2}
  MaxAttempt = 2
  Clients = {c1, c2}
  Configured = {"stripe", "paypal"}
  DefaultKind = "stripe"
  Ttl = 2
  OrderTtl = 3
  Slack = 1
  ReplayOnMismatch = FALSE
  MaxTime = 2
  MaxFaults = 1
SYMMETRY ClientSymmetry
INVARIANTS
  TypeOK
  RowSessionFits
  RowUrlsMatchBinding
  ServedUrlsAreBound
  StripeSessionPayable
  OneLiveSession
PROPERTIES
  OriginNeverRebound
