SPECIFICATION Spec
CONSTANTS
  Process = {p1, p2}
  Task = {t1}
  Absent = Absent
  Width = 2
  Ttl = 1
  MaxId = 3
  MaxTime = 1
  MaxRuns = 1
INVARIANTS TypeOK WritesOutliveTheirCheckpoint SkipsOnlyWhatRan
PROPERTY ImplementsRegister
SYMMETRY Symmetry
