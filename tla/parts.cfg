SPECIFICATION Spec
CONSTANTS
  None = None
  Nil = Nil
  Rate = 2
  Burst = 3
  Unit = 3
  MaxInstant = 7
  Callers = {c1, c2, c3}
  Slack = 1
  Lifetimes = {1, 3}
  MaxTime = 3
  Assets = {"USD", "JPY"}
  ZeroDecimalAssets = {"JPY"}
  MaxInt = 299
  Minors = {0, 1, 5, 10, 99, 100, 101, 299}
  Values <- MCValues
  Codes = {"BTC", "USD"}
  Ids = {1}
  Calls = {d1, d2}
  Criteria <- MCCriteria
  MaxEdits = 1
  MaxFaults = 1
INVARIANTS
  LimiterTypeOK
  AdmissionsBounded
  ClientTypeOK
  TokenOutlivesSlack
  AskedMatches
  MatchedWasDue
  NeverForgotten
  AcceptedAsBound
  DefaultUsable
PROPERTIES
  BudgetKept
  NoNeedlessFetch
  EveryCallReturns
