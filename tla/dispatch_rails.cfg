SPECIFICATION DispatchSpec
CONSTANTS
  Nil = Nil
  Codes = {"BTC", "USD"}
  Ids = {1}
  Calls = {c1, c2}
  Criteria <- MCCriteria
  MaxEdits = 1
  MaxFaults = 0
SYMMETRY CallSymmetry
INVARIANTS
  OneRailPerIdentity
