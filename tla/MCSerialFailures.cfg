SPECIFICATION Spec

CONSTANTS
  Node <- NodeV200
  Definition <- DefV200
  NoNode = NoNode
  StartNode = StartNode
  NoStatus = NoStatus
  NoCheckpoint = NoCheckpoint
  NoJob = NoJob
  MarkMoves = FALSE
  Worker = {w1}
  AnswerStatus <- SuccessOrError
  ResolutionStatus <- SuccessOnly
  MaxReceive = 2
  MaxTriggers = 1
  MaxRequests = 4
  MaxAnswers = 1
  MaxResolutions = 2
  MaxDuplicates = 1
  MaxCrashes = 1
  MaxFaults = 1
  MaxSendFailures = 1

INVARIANTS
  TypeOK
  ReplyAppliedAtMostOnce
  EndLeavesNothingOutstanding

PROPERTIES
  EndIsFinal
  RepliesOnlyGrow
  AnswerResumesItsRequester
  

\* Every command is bounded, so the queue runs empty and the system rests.
CHECK_DEADLOCK FALSE
