----------------------------- MODULE SuccessEdges -----------------------------
(***************************************************************************)
(* The part of a workflow definition that the two traversals of it read    *)
(* (compute_next_steps and EventPublishingCheckpointer._can_reach), and    *)
(* the edges of the compiled graph they are meant to agree with.           *)
(***************************************************************************)
EXTENDS Sequences, Functions

CONSTANTS
  Name,        \* names a definition can use, for its nodes and as targets
  NoName,      \* an absent target (None)
  Definitions  \* the "nodes" dictionaries under consideration

\* workflow-definition.schema.json; the types no traversal tells apart are one.
NodeType == {"async_request", "event_wait", "map_fork", "end", "end_branch",
             "condition", "other"}

Target == Name \cup {NoName}

NodeDef ==
  [type              : NodeType,
   on_success        : Target,
   on_response       : Target,
   on_event          : Target,
   on_failure        : Target,
   branches          : Seq(Name),  \* in the order of the definition
   branch_entry_node : Target]

\* A target need not be a node: a dictionary lookup then yields {}.  on_event
\* is a property of event_wait nodes in the schema.
ASSUME SuccessEdgesAssumption ==
  /\ NoName \notin Name
  /\ \A nodes \in Definitions :
       /\ DOMAIN nodes \subseteq Name
       /\ nodes \in [DOMAIN nodes -> NodeDef]
       /\ \A n \in DOMAIN nodes :
            nodes[n].type # "event_wait" => nodes[n].on_event = NoName

Type(nodes, n) == IF n \in DOMAIN nodes THEN nodes[n].type ELSE "none"

\* `a or b`
Or(a, b) == IF a # NoName THEN a ELSE b

\* `if target: queue.append(target)`
Present(target) == IF target = NoName THEN <<>> ELSE <<target>>

FirstBranchOnly(nodes, n) ==                                       \* mutant
  CASE Type(nodes, n) = "none" -> <<>>
    [] Type(nodes, n) = "condition" ->
         IF nodes[n].branches = <<>> THEN <<>> ELSE <<Head(nodes[n].branches)>>
    [] Type(nodes, n) = "map_fork" -> Present(nodes[n].branch_entry_node)
    [] OTHER -> Present(Or(nodes[n].on_success, nodes[n].on_response))

\* What both traversals append to their queue after visiting a node.
SuccessLike(nodes, n) ==
  CASE Type(nodes, n) = "none" -> <<>>
    [] Type(nodes, n) = "condition" -> nodes[n].branches
    [] Type(nodes, n) = "event_wait" ->
         Present(Or(nodes[n].on_event, nodes[n].on_success))
    [] Type(nodes, n) = "map_fork" -> Present(nodes[n].branch_entry_node)
    [] OTHER -> Present(Or(nodes[n].on_success, nodes[n].on_response))

\* Where the compiled graph can go from a node while is_error is unset and
\* every condition finds its branch.  A map_fork passes through its
\* registration node; an event_wait without on_failure has no edge.  Left out is
\* the edge an end_branch gets when there is one join (graph_builder.py:105-108):
\* _can_reach is called only when there are several, and compute_next_steps never
\* goes past an end_branch, a step of its own.
Compiled(nodes, n) ==
  CASE Type(nodes, n) = "none" -> {}
    [] Type(nodes, n) = "condition" -> Range(nodes[n].branches)
    [] Type(nodes, n) = "map_fork" -> {nodes[n].branch_entry_node} \ {NoName}
    [] Type(nodes, n) = "event_wait" /\ nodes[n].on_failure = NoName -> {}
    [] OTHER ->
         {Or(nodes[n].on_success, Or(nodes[n].on_response, nodes[n].on_event))}
           \ {NoName}

=============================================================================
