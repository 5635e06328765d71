SPECIFICATION Spec
CONSTANTS
  p = p
  q = q
  Key = {p, q}
  NoKey = NoKey
  Items <- ItemsValue
  KeyIsFilingPackId = TRUE
  Reports = {"HELD", "RELEASED"}
  Worker = {w1}
  NoJob = NoJob
  MaxDuplicates = 1
  MaxCrashes = 1
INVARIANT RequestsNameTheirBranch
INVARIANT OneRequestPerBranch
PROPERTY ListKeepsAnswers
CHECK_DEADLOCK FALSE
