SPECIFICATION Spec
CONSTANTS
  p = p
  q = q
  Key = {p, q}
  NoKey = NoKey
  Items <- ItemsValue
  KeyIsFilingPackId = TRUE
  Reports = {"HELD", "RELEASED"}
  Worker = {w1}
  NoJob = NoJob
  MaxDuplicates = 0
  MaxCrashes = 0
PROPERTY JoinWaitsForAllBranches
CHECK_DEADLOCK FALSE
