SPECIFICATION FairSpec
CONSTANTS
  None = None
  Ids = {1}
  Terms = {t1}
  Origins = {o1}
  MaxAttempt = 1
  SettlementDelay = 1
  Handlers = {h1}
  Worker = worker
  PollLimit = 1
  CarriesCustomId = TRUE
  InitKinds = {"paypal"}
  MaxTime = 2
  MaxFaults = 1
INVARIANTS
  EarlyRefundNeverConfirmed
  MismatchNeverPromoted
  RecordedRefundApplied
  ReferenceLeadsToRow
  NothingFalseHeld
  SessionKept
  RefundsUnderWay
PROPERTIES
  PaymentNeverLost
  ApprovalCaptured
