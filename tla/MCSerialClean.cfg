SPECIFICATION FairSpec

CONSTANTS
  Node <- NodeV200
  Definition <- DefV200
  NoNode = NoNode
  StartNode = StartNode
  NoStatus = NoStatus
  NoCheckpoint = NoCheckpoint
  NoJob = NoJob
  MarkMoves = TRUE
  Worker = {w1}
  AnswerStatus <- SuccessOrError
  ResolutionStatus <- SuccessOnly
  MaxReceive = 3
  MaxTriggers = 2
  MaxRequests = 4
  MaxAnswers = 2
  MaxResolutions = 1
  MaxDuplicates = 1
  MaxCrashes = 0
  MaxFaults = 0
  MaxSendFailures = 0

INVARIANTS
  PausedHasOutstandingRequest
  QuietOnlyAtPauses
PROPERTIES
  ResolutionsEndOnlyWaits
  AnswersTakeEffect
  InstanceSettles

\* Every command is bounded, so the queue runs empty and the system rests.
CHECK_DEADLOCK FALSE
