----------------------------- MODULE CanReach_proofs -----------------------------
(***************************************************************************)
(* _can_reach answers reachability, for every definition.                  *)
(***************************************************************************)
EXTENDS CanReach, SuccessEdges_proofs

\* The inductive invariant: what has been visited or waits in the queue holds
\* the start, leads nowhere else from a visited node, and lies within every
\* closed set; while the answer is not yes, the target has not been visited.
Found == visited \cup Range(queue)

IInv ==
  /\ TypeOK
  /\ start_node_name \in Found
  /\ \A S \in SUBSET Name : Closed(S) => Found \subseteq S
  /\ answer # "reachable" =>
       /\ target_node_name \notin visited
       /\ \A m \in visited : Resumed(m) \subseteq Found
  /\ answer = "reachable" => target_node_name \in visited
  /\ answer = "unreachable" => queue = <<>>

\* What the search enqueues after a node is where a resumed run can go from it.
LEMMA SearchFollowsResumption ==
  ASSUME nodes \in Definitions, NEW n
  PROVE  Range(SuccessLike(nodes, n)) = Resumed(n)
<1>1. CASE Type(nodes, n) # "event_wait"
  BY <1>1, TraversalFollowsTheGraph DEF Resumed
<1>2. CASE Type(nodes, n) = "event_wait"
  <2> DEFINE t == Or(nodes[n].on_event, nodes[n].on_success)
  <2>1. n \in DOMAIN nodes
    BY <1>2 DEF Type
  <2>2. t \in Target
    BY <2>1, FieldTypes DEF Or
  <2>3. SuccessLike(nodes, n) = Present(t)
    BY <1>2 DEF SuccessLike
  <2>4. Resumed(n) = {t} \ {NoName}
    BY <1>2 DEF Resumed
  <2> QED
    BY <2>2, <2>3, <2>4, PresentRange
<1> QED
  BY <1>1, <1>2

\* Every name a resumed run can go to is one of the definition's names.
LEMMA ResumedNames ==
  ASSUME nodes \in Definitions, NEW n
  PROVE  Resumed(n) \subseteq Name
<1>1. CASE n \notin DOMAIN nodes
  BY <1>1 DEF Resumed, Compiled, Type
<1>2. CASE n \in DOMAIN nodes
  <2>1. /\ Or(nodes[n].on_event, nodes[n].on_success) \in Target
        /\ Or(nodes[n].on_success, Or(nodes[n].on_response, nodes[n].on_event)) \in Target
        /\ nodes[n].branch_entry_node \in Target
    BY <1>2, FieldTypes DEF Or
  <2>2. Range(nodes[n].branches) \subseteq Name
    <3>1. nodes[n].branches \in Seq(Name)
      BY <1>2, FieldTypes
    <3>2. \A i \in DOMAIN nodes[n].branches : nodes[n].branches[i] \in Name
      BY <3>1
    <3> QED
      BY <3>2 DEF Range
  <2>3. Compiled(nodes, n) \subseteq Name
    <3>1. CASE Type(nodes, n) = "condition"
      BY <2>2, <3>1 DEF Compiled
    <3>2. CASE Type(nodes, n) # "condition"
      BY <2>1, <3>2, Zenon DEF Compiled, Target
    <3> QED
      BY <3>1, <3>2
  <2> QED
    BY <2>1, <2>3 DEF Resumed, Target
<1> QED
  BY <1>1, <1>2

\* The search starts with its start node queued and nothing visited.
LEMMA InitIInv == Init => IInv
<1> SUFFICES ASSUME Init PROVE IInv
  OBVIOUS
<1>1. queue \in Seq(Target) /\ Range(queue) = {start_node_name}
  BY DEF Init, Range, Target
<1>2. TypeOK
  BY <1>1 DEF Init, TypeOK
<1> QED
  BY <1>1, <1>2 DEF Init, IInv, Found, Closed

\* Every turn of the loop keeps the invariant.
LEMMA NextIInv == IInv /\ [Next]_vars => IInv'
<1> SUFFICES ASSUME IInv, [Next]_vars PROVE IInv'
  OBVIOUS
<1> USE DEF IInv
<1>0. nodes \in Definitions /\ queue \in Seq(Target) /\ visited \subseteq Target
  BY DEF TypeOK
<1>1. ASSUME NEW n \in Target, SkipVisited(n)
      PROVE  IInv'
  <2>1. Tail(queue) \in Seq(Target) /\ Range(queue) = {n} \cup Range(Tail(queue))
    BY <1>0, <1>1, RangeHeadTail DEF SkipVisited, Popped
  <2>2. /\ UNCHANGED <<nodes, start_node_name, target_node_name, visited, answer>>
        /\ queue' = Tail(queue) /\ n \in visited /\ answer = "searching"
    BY <1>1 DEF SkipVisited, Popped
  <2>3. Found' = Found
    BY <2>1, <2>2 DEF Found
  <2>4. TypeOK'
    BY <2>1, <2>2 DEF TypeOK
  <2> QED
    BY <2>2, <2>3, <2>4 DEF Closed, Resumed
<1>2. ASSUME NEW n \in Target, Find(n)
      PROVE  IInv'
  <2>1. Tail(queue) \in Seq(Target) /\ Range(queue) = {n} \cup Range(Tail(queue))
    BY <1>0, <1>2, RangeHeadTail DEF Find, Popped
  <2>2. /\ UNCHANGED <<nodes, start_node_name, target_node_name>>
        /\ visited' = visited \cup {n} /\ n = target_node_name
        /\ queue' = Tail(queue) /\ answer' = "reachable"
    BY <1>2 DEF Find
  <2>3. Found' = Found
    BY <2>1, <2>2 DEF Found
  <2>4. TypeOK'
    BY <2>1, <2>2 DEF TypeOK
  <2> QED
    BY <2>2, <2>3, <2>4 DEF Closed, Resumed
<1>3. ASSUME NEW n \in Target, Expand(n)
      PROVE  IInv'
  <2>1. Tail(queue) \in Seq(Target) /\ Range(queue) = {n} \cup Range(Tail(queue))
    BY <1>0, <1>3, RangeHeadTail DEF Expand, Popped
  <2>2. /\ UNCHANGED <<nodes, start_node_name, target_node_name, answer>>
        /\ visited' = visited \cup {n} /\ n # target_node_name
        /\ queue' = Tail(queue) \o SuccessLike(nodes, n)
        /\ answer = "searching"
    BY <1>3 DEF Expand, Popped
  <2>3. Range(SuccessLike(nodes, n)) = Resumed(n)
    BY <1>0, SearchFollowsResumption
  <2>4. SuccessLike(nodes, n) \in Seq(Target)
    BY <1>0, SuccessLikeType
  <2>5. queue' \in Seq(Target) /\ Range(queue') = Range(Tail(queue)) \cup Resumed(n)
    <3> DEFINE p == Tail(queue)
               q == SuccessLike(nodes, n)
    <3> HIDE DEF p, q
    <3>1. p \o q \in Seq(Target) /\ Range(p \o q) = Range(p) \cup Range(q)
      <4>1. p \in Seq(Target) /\ q \in Seq(Target)
        BY <2>1, <2>4 DEF p, q
      <4> QED
        BY <4>1, RangeConcat
    <3> QED
      BY <2>2, <2>3, <3>1 DEF p, q
  <2>6. Found' = Found \cup Resumed(n)
    BY <2>1, <2>2, <2>5 DEF Found
  <2>7. TypeOK'
    BY <2>2, <2>5 DEF TypeOK
  <2>8. \A m : Resumed(m)' = Resumed(m)
    BY <2>2 DEF Resumed
  <2>9. \A S : Closed(S)' = Closed(S)
    BY <2>2, <2>8 DEF Closed
  <2>10. ASSUME NEW S \in SUBSET Name, Closed(S)
         PROVE  Found' \subseteq S
    <3>1. Found \subseteq S
      BY <2>10
    <3>2. n \in S
      BY <2>1, <3>1 DEF Found
    <3> QED
      BY <2>6, <2>10, <3>1, <3>2 DEF Closed
  <2>11. \A m \in visited' : Resumed(m)' \subseteq Found'
    BY <2>2, <2>6, <2>8
  <2>12. start_node_name' \in Found' /\ target_node_name' \notin visited'
    BY <2>2, <2>6
  <2> QED
    BY <2>2, <2>7, <2>9, <2>10, <2>11, <2>12
<1>4. CASE GiveUp
  <2>1. UNCHANGED <<nodes, start_node_name, target_node_name, queue, visited>>
    BY <1>4 DEF GiveUp
  <2>2. TypeOK'
    BY <1>4 DEF GiveUp, TypeOK
  <2> QED
    BY <1>4, <2>1, <2>2 DEF GiveUp, Found, Closed, Resumed
<1>5. CASE UNCHANGED vars
  <2>1. TypeOK'
    BY <1>5 DEF vars, TypeOK
  <2> QED
    BY <1>5, <2>1 DEF vars, Found, Closed, Resumed
<1> QED
  BY <1>1, <1>2, <1>3, <1>4, <1>5 DEF Next

\* An exhausted search has visited a closed set that misses the target.
LEMMA IInvAnswer == IInv => AnswerIsReachability
<1> SUFFICES ASSUME IInv PROVE AnswerIsReachability
  OBVIOUS
<1>1. CASE answer = "reachable"
  BY <1>1 DEF IInv, Found, AnswerIsReachability, Reachable
<1>2. CASE answer = "unreachable"
  <2> DEFINE S == visited \cap Name
  <2>1. Range(queue) = {}
    BY <1>2 DEF IInv, Range
  <2>2. nodes \in Definitions /\ start_node_name \in Name
    BY DEF IInv, TypeOK
  <2>3. start_node_name \in S /\ \A m \in S : Resumed(m) \subseteq S
    BY <1>2, <2>1, <2>2, ResumedNames DEF IInv, Found
  <2>4. Closed(S) /\ target_node_name \notin S
    BY <1>2, <2>3 DEF IInv, Closed
  <2> QED
    BY <1>2, <2>4 DEF AnswerIsReachability, Reachable
<1> QED
  BY <1>1, <1>2 DEF AnswerIsReachability

\* The invariant of the traversal holds throughout.
THEOREM IInvInvariant == Spec => []IInv
BY InitIInv, NextIInv, PTL DEF Spec

\* _can_reach is right whenever it answers, whatever the definition.
THEOREM ReachabilityAnswered == Spec => []AnswerIsReachability
BY IInvInvariant, IInvAnswer, PTL

=============================================================================
