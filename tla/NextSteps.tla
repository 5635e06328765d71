------------------------------- MODULE NextSteps -------------------------------
(***************************************************************************)
(* compute_next_steps (next_steps.py): the breadth-first traversal whose   *)
(* result every published event carries as nextSteps.  One action is one   *)
(* iteration of its loop.  Definitions are cyclic (retries), incomplete    *)
(* (targets that name no node) and arbitrary, so Init takes any.           *)
(***************************************************************************)
EXTENDS SuccessEdges, Integers, FiniteSets

VARIABLES
  nodes,            \* definition["nodes"]
  start_node_name,
  queue,
  visited,
  results,          \* names of the steps found, in order
  returned

vars == <<nodes, start_node_name, queue, visited, results, returned>>

include_types == {"async_request", "event_wait", "map_fork", "end", "end_branch"}

Significant(n) == Type(nodes, n) \in include_types

TypeOK ==
  /\ nodes \in Definitions
  /\ start_node_name \in Target
  /\ queue \in Seq(Target)
  /\ visited \subseteq Target
  /\ results \in Seq(Name)
  /\ returned \in BOOLEAN

Init ==
  /\ nodes \in Definitions
  /\ start_node_name \in Target
  /\ queue = <<start_node_name>>
  /\ visited = {}
  /\ results = <<>>
  /\ returned = FALSE

Popped(n) == ~returned /\ queue # <<>> /\ Head(queue) = n

Visited(n) == n \in visited

\* mutant: looks at the head of the queue without taking it
PeekVisited(n) == Popped(n) /\ Visited(n) /\ UNCHANGED vars
SkipVisited(n) ==
  /\ Popped(n)
  /\ Visited(n)
  /\ queue' = Tail(queue)
  /\ UNCHANGED <<nodes, start_node_name, visited, results, returned>>

\* mutant: traverses beyond a significant node
CollectAndExpand(n) ==
  /\ Popped(n)
  /\ ~Visited(n)
  /\ Significant(n)
  /\ visited' = visited \cup {n}
  /\ results' = Append(results, n)
  /\ queue' = Tail(queue) \o SuccessLike(nodes, n)
  /\ UNCHANGED <<nodes, start_node_name, returned>>

\* A significant node is a result; the traversal does not go beyond it.  The
\* names of the results so far are seen_names.
Collect(n) ==
  /\ Popped(n)
  /\ ~Visited(n)
  /\ Significant(n)
  /\ visited' = visited \cup {n}
  /\ results' = IF n \in Range(results) THEN results ELSE Append(results, n)
  /\ queue' = Tail(queue)
  /\ UNCHANGED <<nodes, start_node_name, returned>>

DepthFirst(n) == SuccessLike(nodes, n) \o Tail(queue)              \* mutant
Enqueued(n) == Tail(queue) \o SuccessLike(nodes, n)

Expand(n) ==
  /\ Popped(n)
  /\ ~Visited(n)
  /\ ~Significant(n)
  /\ visited' = visited \cup {n}
  /\ queue' = Enqueued(n)
  /\ UNCHANGED <<nodes, start_node_name, results, returned>>

Return ==
  /\ ~returned
  /\ queue = <<>>
  /\ returned' = TRUE
  /\ UNCHANGED <<nodes, start_node_name, queue, visited, results>>

Next ==
  \/ \E n \in Target : SkipVisited(n) \/ Collect(n) \/ Expand(n)
  \/ Return

Spec == Init /\ [][Next]_vars

\* The function is called and runs by itself.
FairSpec == Spec /\ WF_vars(Next)

-----------------------------------------------------------------------------
(* The reference: the frontier of the compiled graph.                      *)

\* A set that holds the start and everything the compiled graph leads to from
\* an insignificant member.
Closed(S) ==
  /\ start_node_name \in S
  /\ \A m \in S : ~Significant(m) => Compiled(nodes, m) \subseteq S

\* The significant nodes that an error-free run from the start meets first.
Frontier ==
  {n \in Name : Significant(n) /\ \A S \in SUBSET Target : Closed(S) => n \in S}

\* Within[k]: what such a run can have reached after k nodes.
Within[k \in Nat] ==
  IF k = 0 THEN {start_node_name}
  ELSE Within[k - 1] \cup
       UNION {Compiled(nodes, m) : m \in {x \in Within[k - 1] : ~Significant(x)}}

-----------------------------------------------------------------------------

\* The steps announced are exactly the significant nodes at which an error-free
\* run of the compiled graph can arrive next (next_steps.py:10-13, "identify
\* the first frontier of significant nodes"), although the traversal and the
\* graph builder derive their edges in different places, and none is announced
\* twice, however many paths lead to it.
ResultsAreTheFrontier ==
  returned => Range(results) = Frontier /\ IsInjective(results)

\* Nearer steps come first: the traversal is breadth-first.
NearestFirst ==
  \A i, j \in DOMAIN results : \A k \in 0..Cardinality(Name) :
    i < j /\ results[j] \in Within[k] => results[i] \in Within[k]

\* next_steps.py:18: "map_fork: include the map_fork itself, and enqueue its
\* branch_entry_node".  The traversal stops at the map_fork, a significant node,
\* before the lines that would enqueue the entry node are reached.
MapForkEntryIsVisited ==
  returned => \A n \in Range(results) :
    Type(nodes, n) = "map_fork" => nodes[n].branch_entry_node \in visited \cup {NoName}

\* The traversal ends, retry loops in the definition included.
Terminates == <>returned

=============================================================================
