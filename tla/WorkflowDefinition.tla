-------------------------- MODULE WorkflowDefinition --------------------------
(***************************************************************************)
(* A workflow definition (the YAML file graph_builder.py compiles into a   *)
(* LangGraph graph) and the routing the compiled graph performs.           *)
(*                                                                         *)
(* A definition is data, so it is a CONSTANT: every operator here is a     *)
(* pure function of the definition and of the routing-relevant part of a   *)
(* checkpoint.  The 'data' channel is abstracted to the one key routing    *)
(* reads in the shipped definitions, data.status.                          *)
(***************************************************************************)
CONSTANTS
  Node,        \* the keys of definition["nodes"]
  Definition,  \* [entry_point : Node, nodes : [Node -> NodeDef]]
  NoNode,      \* "no such key": an absent target, and LangGraph's END
  StartNode,   \* LangGraph's own first task, "__start__"
  NoStatus     \* data.status absent, None, or a command without a status

\* orchestrator-command.schema.json:123-129; the status is optional there.
CommandStatus == {"SUCCESS", "ERROR", NoStatus}

\* data.status: what a command, a set_state or an end node has left in it.
DataStatus == CommandStatus \cup {"COMPLETED"}

\* The node types of this module.  map_fork, join and end_branch add branches
\* to an instance and are not part of the sequential core.
NodeType == {"start", "condition", "set_state", "end", "log_error",
             "event_wait", "async_request", "sync_call"}

Target == Node \cup {NoNode}

NodeDef ==
  [type          : NodeType,
   on_success    : Target,
   on_response   : Target,
   on_event      : Target,
   on_failure    : Target,
   branches      : [DataStatus -> Target],  \* a condition's explicit branches
   default       : Target,                  \* its "_default" branch
   static_status : DataStatus \cup {NoNode}]  \* static_outputs.status, or none

\* What LangGraph can have pending on a sequential thread: state.next[0].
Pending == Node \cup {StartNode, NoNode}

ASSUME DefinitionAssumption ==
  /\ NoNode \notin Node
  /\ StartNode \notin Node \cup {NoNode}
  /\ NoStatus \notin {"SUCCESS", "ERROR", "COMPLETED", NoNode}
  /\ NoNode \notin {"SUCCESS", "ERROR", "COMPLETED"}
  /\ Definition.entry_point \in Node
  /\ Definition.nodes \in [Node -> NodeDef]

Def(n) == Definition.nodes[n]
Type(n) == IF n \in Node THEN Def(n).type ELSE "none"

\* `a or b`: the first of two optional targets that is present.
Or(a, b) == IF a # NoNode THEN a ELSE b

_get_success_path(n) ==
  Or(Def(n).on_success, Or(Def(n).on_response, Def(n).on_event))

\* The branch a condition node takes.  NoNode means that the resolver raises:
\* no branch, no _default, no failure path.
resolve_branch(n, status, isError) ==
  LET taken == Or(Def(n).branches[status], Def(n).default)
  IN  IF isError /\ Def(n).on_failure # NoNode
        THEN Def(n).on_failure
        ELSE Or(taken, Def(n).on_failure)

\* An event_wait without on_failure gets no outgoing edge at all; every other
\* node with on_failure is routed by is_error, without it to its success path.
Successor(n, status, isError) ==
  CASE Type(n) = "condition" -> resolve_branch(n, status, isError)
    [] Type(n) # "condition" /\ Def(n).on_failure # NoNode ->
         IF isError THEN Def(n).on_failure ELSE _get_success_path(n)
    [] Type(n) = "event_wait" /\ Def(n).on_failure = NoNode -> NoNode
    [] OTHER -> _get_success_path(n)

EdgeRaises(n, status, isError) ==
  Type(n) = "condition" /\ resolve_branch(n, status, isError) = NoNode

SuccessOfAnyNode(n, commandType) ==                                \* mutant
  IF commandType = "ASYNC_RESP" THEN Def(n).on_response ELSE _get_success_path(n)

\* The node whose outgoing edges a response continues from.
TransitionNode(n, commandType) ==
  IF commandType = "ASYNC_RESP" THEN Def(n).on_response
  ELSE IF Type(n) = "event_wait" THEN Or(Def(n).on_event, Def(n).on_success)
  ELSE Def(n).on_success

\* Every place an edge of the compiled graph can lead to from n.
EdgeTargets(n) ==
  {Successor(n, s, e) : s \in DataStatus, e \in BOOLEAN}
    \ (IF Type(n) = "condition" THEN {NoNode} ELSE {})

(***************************************************************************)
(* What the theorems ask of a definition.  The shipped ones satisfy all    *)
(* three; graph_builder.py checks none of them.                            *)
(***************************************************************************)

\* A resolution that is delivered to a pending async_request finds no transition.
OnlyAnswersEndRequests ==
  \A n \in Node : Type(n) = "async_request" => Def(n).on_success = NoNode

\* Every condition has a branch, a _default or a failure path for every status.
ConditionsAreTotal ==
  \A n \in Node, s \in DataStatus, e \in BOOLEAN : ~EdgeRaises(n, s, e)

\* Every path from the entry point meets an async_request before it meets a wait
\* or a node that completes the instance: S is what lies before.
RequestsGuard(S) ==
  /\ Definition.entry_point \in S
  /\ \A n \in S : /\ Type(n) \notin {"end", "event_wait"}
                  /\ Def(n).static_status # "COMPLETED"
                  /\ Type(n) = "async_request" \/ EdgeTargets(n) \subseteq S \cup {NoNode}

RequestsGuardTheEnd == \E S \in SUBSET Node : RequestsGuard(S)

=============================================================================
