SPECIFICATION Spec

CONSTANTS
  Node <- NodeEdges
  Definition <- DefEdges
  NoNode = NoNode
  StartNode = StartNode
  NoStatus = NoStatus
  NoCheckpoint = NoCheckpoint
  NoJob = NoJob
  MarkMoves = TRUE
  Worker = {w1, w2}
  AnswerStatus <- SuccessOrError
  ResolutionStatus <- SuccessOrNone
  MaxReceive = 3
  MaxTriggers = 1
  MaxRequests = 2
  MaxAnswers = 1
  MaxResolutions = 1
  MaxDuplicates = 1
  MaxCrashes = 0
  MaxFaults = 0
  MaxSendFailures = 1

SYMMETRY WorkerSymmetry

INVARIANTS
  OneRequestPerDelivery
  RequestsHaveACause
  CompletionNeedsAnAnswer

\* Every command is bounded, so the queue runs empty and the system rests.
CHECK_DEADLOCK FALSE
