SPECIFICATION Spec
CONSTANTS
  None = None
  Ids = {1}
  Terms = {t1}
  Origins = {o1}
  MaxAttempt = 1
  SettlementDelay = 1
  Handlers = {h1, h2}
  Worker = worker
  PollLimit = 0
  CarriesCustomId = TRUE
  InitKinds = {"stripe"}
  MaxTime = 2
  MaxFaults = 0
SYMMETRY HandlerSymmetry
INVARIANTS
  ConfirmedAnswerMatchesRow
