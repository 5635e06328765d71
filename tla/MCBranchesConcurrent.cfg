SPECIFICATION Spec
CONSTANTS
  p = p
  q = q
  Key = {p, q}
  NoKey = NoKey
  Items <- ItemsValue
  KeyIsFilingPackId = TRUE
  Reports = {}
  Worker = {w1, w2}
  NoJob = NoJob
  MaxDuplicates = 0
  MaxCrashes = 0
SYMMETRY Containers
INVARIANT AnswersFindTheirItem
INVARIANT ListHoldsOwnData
CHECK_DEADLOCK FALSE
