SPECIFICATION ESpec

CONSTANTS
  Node <- NodeV111
  Definition <- DefV111
  NoNode = NoNode
  StartNode = StartNode
  NoStatus = NoStatus
  NoCheckpoint = NoCheckpoint
  NoJob = NoJob
  MarkMoves = TRUE
  Worker = {w1}
  AnswerStatus <- SuccessOrError
  ResolutionStatus <- SuccessOnly
  MaxReceive = 3
  MaxTriggers = 2
  MaxRequests = 3
  MaxAnswers = 1
  MaxResolutions = 2
  MaxDuplicates = 1
  MaxCrashes = 1
  MaxFaults = 0
  MaxSendFailures = 1

INVARIANTS
  EventTypeOK
  RestIsAnnounced
PROPERTIES
  FirstStepWasPromised
  EndOfRequestAnnouncedOnce

\* Every command is bounded, so the queue runs empty and the system rests.
CHECK_DEADLOCK FALSE
