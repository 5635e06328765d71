------------------------------- MODULE CanReach -------------------------------
(***************************************************************************)
(* EventPublishingCheckpointer._can_reach: whether an end_branch node can  *)
(* be reached from the entry node of a branch.  When a definition has      *)
(* several joins, the event that reports the end of a branch announces the *)
(* joins of those map_forks whose branches can end there.                  *)
(***************************************************************************)
EXTENDS SuccessEdges

VARIABLES
  nodes,
  start_node_name,
  target_node_name,
  queue,
  visited,
  answer            \* "searching", "reachable" or "unreachable"

vars == <<nodes, start_node_name, target_node_name, queue, visited, answer>>

TypeOK ==
  /\ nodes \in Definitions
  /\ {start_node_name, target_node_name} \subseteq Name
  /\ queue \in Seq(Target)
  /\ visited \subseteq Target
  /\ answer \in {"searching", "reachable", "unreachable"}

Init ==
  /\ nodes \in Definitions
  /\ start_node_name \in Name
  /\ target_node_name \in Name
  /\ queue = <<start_node_name>>
  /\ visited = {}
  /\ answer = "searching"

Popped(n) == answer = "searching" /\ queue # <<>> /\ Head(queue) = n

PeekVisited(n) == Popped(n) /\ n \in visited /\ UNCHANGED vars     \* mutant
SkipVisited(n) ==
  /\ Popped(n)
  /\ n \in visited
  /\ queue' = Tail(queue)
  /\ UNCHANGED <<nodes, start_node_name, target_node_name, visited, answer>>

Find(n) ==
  /\ Popped(n)
  /\ n \notin visited
  /\ n = target_node_name
  /\ visited' = visited \cup {n}
  /\ answer' = "reachable"
  /\ queue' = Tail(queue)
  /\ UNCHANGED <<nodes, start_node_name, target_node_name>>

Expand(n) ==
  /\ Popped(n)
  /\ n \notin visited
  /\ n # target_node_name
  /\ visited' = visited \cup {n}
  /\ queue' = Tail(queue) \o SuccessLike(nodes, n)
  /\ UNCHANGED <<nodes, start_node_name, target_node_name, answer>>

GiveUp ==
  /\ answer = "searching"
  /\ queue = <<>>
  /\ answer' = "unreachable"
  /\ UNCHANGED <<nodes, start_node_name, target_node_name, queue, visited>>

Next ==
  \/ \E n \in Target : SkipVisited(n) \/ Find(n) \/ Expand(n)
  \/ GiveUp

Spec == Init /\ [][Next]_vars

FairSpec == Spec /\ WF_vars(Next)

-----------------------------------------------------------------------------
(* The reference: the steps an instance takes when every answer and event  *)
(* arrives.  A response at an event_wait goes to on_event or on_success    *)
(* (service.py:251-254), whatever edges the node has.                      *)

Resumed(n) ==
  IF Type(nodes, n) = "event_wait"
    THEN {Or(nodes[n].on_event, nodes[n].on_success)} \ {NoName}
    ELSE Compiled(nodes, n)

Closed(S) ==
  /\ start_node_name \in S
  /\ \A m \in S : Resumed(m) \subseteq S

Reachable == \A S \in SUBSET Name : Closed(S) => target_node_name \in S

\* The answer is yes exactly when some error-free run of the branch, resumed at
\* its waits, arrives at the node.
AnswerIsReachability ==
  /\ answer = "reachable" => Reachable
  /\ answer = "unreachable" => ~Reachable

\* The search ends, loops such as "wait for the next status" included.
Terminates == <>(answer # "searching")

=============================================================================
