SPECIFICATION FairSpec

CONSTANTS
  Name = {"a", "b", "c", "d"}
  NoName = NoName
  Definitions <- SmallDefinitions

INVARIANTS
  ResultsAreTheFrontier
  NearestFirst

PROPERTIES
  Terminates

\* The function returns.
CHECK_DEADLOCK FALSE
