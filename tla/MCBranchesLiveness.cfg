SPECIFICATION FairSpec
CONSTANTS
  p = p
  q = q
  Key = {p, q}
  NoKey = NoKey
  Items <- ItemsValue
  KeyIsFilingPackId = TRUE
  Reports = {"HELD", "RELEASED"}
  Worker = {w1}
  NoJob = NoJob
  MaxDuplicates = 1
  MaxCrashes = 0
PROPERTY EveryBranchIsRequested
PROPERTY AnswersReachTheList
CHECK_DEADLOCK FALSE
