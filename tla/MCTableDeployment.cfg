SPECIFICATION FairSpec
CONSTANTS
  Process = {p1, p2, p3}
  Checkpoint = {c1, c2}
  Write = {w1}
  Absent = Absent
  MaxVersion = 2
  MaxCrashes = 1
INVARIANTS TypeOK OneBackfill BackfillCoversTheTable
PROPERTY DeploymentTakesEffect
\* Every deployment comes to its end.
CHECK_DEADLOCK FALSE
