-------------------------- MODULE InstanceLifecycle --------------------------
(***************************************************************************)
(* What the orchestrator promises about one workflow instance, without     *)
(* queue, containers or checkpoints: the instance walks along the edges of *)
(* its definition, one node at a time; it leaves a node it waits at only   *)
(* because of a response; an answer to a request is used at most once; and *)
(* once it has ended it stays where it is.                                 *)
(***************************************************************************)
EXTENDS WorkflowDefinition

CONSTANTS
  RequestId,   \* what an answer refers to
  NotStarted   \* the instance does not exist yet

VARIABLES
  at,          \* the node the instance is at
  consumed     \* the requests whose answer has been used

vars == <<at, consumed>>

TypeOK ==
  /\ at \in Pending \cup {NotStarted}
  /\ consumed \subseteq RequestId

Init ==
  /\ at = NotStarted
  /\ consumed = {}

Begin ==
  /\ at = NotStarted
  /\ at' = StartNode
  /\ UNCHANGED consumed

Enter ==
  /\ at = StartNode
  /\ at' = Definition.entry_point
  /\ UNCHANGED consumed

\* The node runs; a request that could not be sent counts as a node that ran.
Step ==
  /\ at \in Node
  /\ Type(at) # "event_wait"
  /\ at' \in EdgeTargets(at)
  /\ UNCHANGED consumed

\* A response moves the instance on along the edges of the node it names.
ResumeBy(commandType) ==
  /\ at \in Node
  /\ TransitionNode(at, commandType) # NoNode
  /\ at' \in EdgeTargets(TransitionNode(at, commandType))

Answered(r) ==
  /\ r \notin consumed
  /\ consumed' = consumed \cup {r}
  /\ ResumeBy("ASYNC_RESP")

Resolved ==
  /\ ResumeBy("EVENT_WAIT_RESP")
  /\ UNCHANGED consumed

Next == Begin \/ Enter \/ Step \/ (\E r \in RequestId : Answered(r)) \/ Resolved

Spec == Init /\ [][Next]_vars

=============================================================================
