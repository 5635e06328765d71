SPECIFICATION FairSpec

CONSTANTS
  Name = {"a", "b", "c"}
  NoName = NoName
  Definitions <- SmallDefinitions

INVARIANTS
  AnswerIsReachability

PROPERTIES
  Terminates

\* The function returns.
CHECK_DEADLOCK FALSE
