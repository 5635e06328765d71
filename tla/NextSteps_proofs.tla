---------------------------- MODULE NextSteps_proofs ----------------------------
(***************************************************************************)
(* compute_next_steps announces the frontier, for every definition.        *)
(***************************************************************************)
EXTENDS NextSteps, SuccessEdges_proofs, WellFoundedInduction,
        FiniteSetTheorems

\* The inductive invariant: what has been visited or waits in the queue holds
\* the start, leads nowhere else from an insignificant visited node, and lies
\* within every closed set; the results are the significant visited nodes.
Found == visited \cup Range(queue)

IInv ==
  /\ TypeOK
  /\ start_node_name \in Found
  /\ \A S \in SUBSET Target : Closed(S) => Found \subseteq S
  /\ \A m \in visited : ~Significant(m) => Compiled(nodes, m) \subseteq Found
  /\ Range(results) = {m \in visited : Significant(m)}
  /\ IsInjective(results)
  /\ returned => queue = <<>>

\* Nothing is announced yet, so nothing twice.
LEMMA EmptyRange ==
  /\ Range(<<>>) = {}
  /\ IsInjective(<<>>)
BY DEF Range, IsInjective

\* A significant target is a node of the definition.
LEMMA SignificantIsName ==
  ASSUME nodes \in Definitions, NEW n, Significant(n)
  PROVE  n \in Name
BY SuccessEdgesAssumption DEF Significant, Type, include_types

\* The search starts with its start node queued and nothing visited.
LEMMA InitIInv == Init => IInv
<1> SUFFICES ASSUME Init PROVE IInv
  OBVIOUS
<1>1. queue \in Seq(Target) /\ Range(queue) = {start_node_name}
  BY DEF Init, Range
<1>2. results = <<>> /\ visited = {}
  BY DEF Init
<1>3. TypeOK
  <2>1. results \in Seq(Name) /\ visited \subseteq Target
    BY <1>2
  <2> QED
    BY <1>1, <2>1 DEF Init, TypeOK
<1>4. Range(results) = {m \in visited : Significant(m)} /\ IsInjective(results)
  <2>1. {m \in {} : Significant(m)} = {}
    OBVIOUS
  <2> QED
    BY <1>2, <2>1, EmptyRange
<1>5. Found = {start_node_name}
  BY <1>1, <1>2 DEF Found
<1>6. \A S \in SUBSET Target : Closed(S) => Found \subseteq S
  BY <1>5 DEF Closed
<1>7. ~returned
  BY DEF Init
<1> QED
  BY <1>2, <1>3, <1>4, <1>5, <1>6, <1>7 DEF IInv

\* Every turn of the loop keeps the invariant.
LEMMA NextIInv == IInv /\ [Next]_vars => IInv'
<1> SUFFICES ASSUME IInv, [Next]_vars PROVE IInv'
  OBVIOUS
<1> USE DEF IInv
<1>0. nodes \in Definitions /\ queue \in Seq(Target) /\ results \in Seq(Name)
      /\ visited \subseteq Target
  BY DEF TypeOK
<1>1. ASSUME NEW n \in Target, SkipVisited(n)
      PROVE  IInv'
  <2>1. Tail(queue) \in Seq(Target) /\ Range(queue) = {n} \cup Range(Tail(queue))
    BY <1>0, <1>1, RangeHeadTail DEF SkipVisited, Popped
  <2>2. Found' = Found
    BY <1>1, <2>1 DEF SkipVisited, Visited, Found
  <2>3. UNCHANGED <<nodes, start_node_name, visited, results, returned>>
    BY <1>1 DEF SkipVisited
  <2>4. TypeOK'
    BY <1>1, <2>1, <2>3 DEF TypeOK, SkipVisited
  <2>5. ~returned
    BY <1>1 DEF SkipVisited, Popped
  <2> QED
    BY <2>2, <2>3, <2>4, <2>5 DEF Closed, Significant
<1>2. ASSUME NEW n \in Target, Collect(n)
      PROVE  IInv'
  <2>1. Tail(queue) \in Seq(Target) /\ Range(queue) = {n} \cup Range(Tail(queue))
    BY <1>0, <1>2, RangeHeadTail DEF Collect, Popped
  <2>2. /\ visited' = visited \cup {n} /\ n \notin visited /\ Significant(n)
        /\ queue' = Tail(queue) /\ ~returned
        /\ UNCHANGED <<nodes, start_node_name, returned>>
    BY <1>2 DEF Collect, Popped, Visited
  <2>3. Found' = Found
    BY <2>1, <2>2 DEF Found
  <2>4. n \in Name /\ n \notin Range(results)
    BY <1>0, <2>2, SignificantIsName
  <2>5. results' = Append(results, n)
    BY <1>2, <2>4 DEF Collect
  <2>6. /\ results' \in Seq(Name)
        /\ Range(results') = Range(results) \cup {n}
        /\ IsInjective(results')
    BY <1>0, <2>4, <2>5, AppendNew
  <2>7. TypeOK'
    BY <2>1, <2>2, <2>6 DEF TypeOK
  <2>8. \A m : Significant(m)' = Significant(m)
    BY <2>2 DEF Significant
  <2>9. \A S : Closed(S)' = Closed(S)
    BY <2>2, <2>8 DEF Closed
  <2>10. Range(results)' = {m \in visited' : Significant(m)'}
    BY <2>2, <2>6, <2>8
  <2>11. \A m \in visited' : ~Significant(m)' => Compiled(nodes, m)' \subseteq Found'
    BY <2>2, <2>3, <2>8
  <2> QED
    BY <2>2, <2>3, <2>6, <2>7, <2>9, <2>10, <2>11
<1>3. ASSUME NEW n \in Target, Expand(n)
      PROVE  IInv'
  <2>1. Tail(queue) \in Seq(Target) /\ Range(queue) = {n} \cup Range(Tail(queue))
    BY <1>0, <1>3, RangeHeadTail DEF Expand, Popped
  <2>2. /\ visited' = visited \cup {n} /\ ~Significant(n) /\ ~returned
        /\ queue' = Tail(queue) \o SuccessLike(nodes, n)
        /\ UNCHANGED <<nodes, start_node_name, results, returned>>
    BY <1>3 DEF Expand, Popped, Enqueued
  <2>3. Type(nodes, n) # "event_wait"
    BY <2>2 DEF Significant, include_types
  <2>4. Range(SuccessLike(nodes, n)) = Compiled(nodes, n)
    BY <1>0, <2>3, TraversalFollowsTheGraph
  <2>5. SuccessLike(nodes, n) \in Seq(Target)
    BY <1>0, SuccessLikeType
  <2>6. /\ queue' \in Seq(Target)
        /\ Range(queue') = Range(Tail(queue)) \cup Compiled(nodes, n)
    <3> DEFINE p == Tail(queue)
               q == SuccessLike(nodes, n)
    <3> HIDE DEF p, q
    <3>1. p \o q \in Seq(Target) /\ Range(p \o q) = Range(p) \cup Range(q)
      <4>1. p \in Seq(Target) /\ q \in Seq(Target)
        BY <2>1, <2>5 DEF p, q
      <4> QED
        BY <4>1, RangeConcat
    <3> QED
      BY <2>2, <2>4, <3>1 DEF p, q
  <2>7. Found' = Found \cup Compiled(nodes, n)
    BY <2>1, <2>2, <2>6 DEF Found
  <2>8. TypeOK'
    BY <2>2, <2>6 DEF TypeOK
  <2>9. \A m : Significant(m)' = Significant(m)
    BY <2>2 DEF Significant
  <2>10. \A S : Closed(S)' = Closed(S)
    BY <2>2, <2>9 DEF Closed
  <2>11. ASSUME NEW S \in SUBSET Target, Closed(S)
         PROVE  Found' \subseteq S
    <3>1. Found \subseteq S
      BY <2>11
    <3>2. n \in S
      BY <2>1, <3>1 DEF Found
    <3> QED
      BY <2>2, <2>7, <2>11, <3>1, <3>2 DEF Closed
  <2>12. ASSUME NEW m \in visited', ~Significant(m)'
         PROVE  Compiled(nodes, m)' \subseteq Found'
    BY <2>2, <2>7, <2>9, <2>12
  <2>13. Range(results)' = {m \in visited' : Significant(m)'}
    BY <2>2, <2>9
  <2>14. start_node_name' \in Found'
    BY <2>2, <2>7
  <2> QED
    BY <2>2, <2>8, <2>10, <2>11, <2>12, <2>13, <2>14
<1>4. CASE Return
  <2>1. UNCHANGED <<nodes, start_node_name, queue, visited, results>>
    BY <1>4 DEF Return
  <2>2. TypeOK'
    BY <1>4 DEF Return, TypeOK
  <2> QED
    BY <1>4, <2>1, <2>2 DEF Return, Found, Closed, Significant
<1>5. CASE UNCHANGED vars
  <2>1. TypeOK'
    BY <1>5 DEF vars, TypeOK
  <2> QED
    BY <1>5, <2>1 DEF vars, Found, Closed, Significant
<1> QED
  BY <1>1, <1>2, <1>3, <1>4, <1>5 DEF Next

\* When the traversal has returned, its visited nodes are a closed set, and the
\* smallest one.
LEMMA IInvFrontier == IInv => ResultsAreTheFrontier
<1> SUFFICES ASSUME IInv, returned
             PROVE  Range(results) = Frontier /\ IsInjective(results)
  BY DEF ResultsAreTheFrontier
<1>1. Found = visited
  BY EmptyRange DEF IInv, Found
<1>2. visited \in SUBSET Target /\ nodes \in Definitions
  BY DEF IInv, TypeOK
<1>3. Closed(visited)
  BY <1>1 DEF IInv, Closed
<1>4. ASSUME NEW n \in Range(results)
      PROVE  n \in Frontier
  <2>1. n \in visited /\ Significant(n)
    BY DEF IInv
  <2>2. n \in Name
    BY <1>2, <2>1, SignificantIsName
  <2> QED
    BY <1>1, <2>1, <2>2 DEF IInv, Frontier
<1>5. ASSUME NEW n \in Frontier
      PROVE  n \in Range(results)
  BY <1>2, <1>3 DEF Frontier, IInv
<1> QED
  BY <1>4, <1>5 DEF IInv

\* The invariant of the traversal holds throughout.
THEOREM IInvInvariant == Spec => []IInv
BY InitIInv, NextIInv, PTL DEF Spec

\* compute_next_steps announces exactly the first significant nodes that an
\* error-free run of the compiled graph meets, each once, whatever the
\* definition.
THEOREM FrontierAnnounced == Spec => []ResultsAreTheFrontier
BY IInvInvariant, IInvFrontier, PTL

\* Type correctness of the traversal.
THEOREM NextStepsTypeCorrect == Spec => []TypeOK
<1>1. IInv => TypeOK
  BY DEF IInv
<1> QED
  BY <1>1, IInvInvariant, PTL

-----------------------------------------------------------------------------
(* Breadth first.                                                          *)

\* A non-empty set of naturals has a least element.
LEMMA LeastNatural ==
  ASSUME NEW T, T \subseteq Nat, T # {}
  PROVE  \E x \in T : \A y \in T : x <= y
<1>1. \A x, y \in Nat : <<x, y>> \in OpToRel(<, Nat) <=> x < y
  BY DEF OpToRel
<1>2. \E x \in T : \A y \in T : ~ (<<y, x>> \in OpToRel(<, Nat))
  BY NatLessThanWellFounded, WFMin, Zenon
<1>3. \E x \in T : \A y \in T : ~ (y < x)
  BY <1>1, <1>2, Zenon
<1> QED
  BY <1>3

\* What an error-free run can reach from S with one node more.
Wider(S) == S \cup UNION {Compiled(nodes, m) : m \in {x \in S : ~Significant(x)}}

\* A run that stays where it is, or goes on from an insignificant node.
Goes(a, b) == b = a \/ (~Significant(a) /\ b \in Compiled(nodes, a))

\* What can be reached after k nodes, without recursion: the ends of the paths of
\* that length.
Ends(k) ==
  {x \in Target : \E p \in [0..k -> Target] :
     /\ p[0] = start_node_name /\ p[k] = x
     /\ \A i \in 0..(k - 1) : Goes(p[i], p[i + 1])}

\* The compiled graph leads to targets.
LEMMA CompiledType ==
  ASSUME nodes \in Definitions, NEW m, ~Significant(m)
  PROVE  Compiled(nodes, m) \subseteq Target
<1>1. Type(nodes, m) # "event_wait"
  BY DEF Significant, include_types
<1>2. SuccessLike(nodes, m) \in Seq(Target)
  BY SuccessLikeType
<1>3. Range(SuccessLike(nodes, m)) \subseteq Target
  BY <1>2 DEF Range
<1> QED
  BY <1>1, <1>3, TraversalFollowsTheGraph

\* A path shows that its end can be reached.
LEMMA EndOfPath ==
  ASSUME NEW k \in Nat, NEW p \in [0..k -> Target], p[0] = start_node_name,
         \A i \in 0..(k - 1) : Goes(p[i], p[i + 1])
  PROVE  p[k] \in Ends(k)
<1>1. p[k] \in Target
  OBVIOUS
<1> QED
  BY <1>1 DEF Ends

\* A path of one node is the start, and a path one longer ends where the shorter
\* one can go.
LEMMA EndsLemma ==
  ASSUME nodes \in Definitions, start_node_name \in Target
  PROVE  /\ Ends(0) = {start_node_name}
         /\ \A k \in Nat : Ends(k + 1) = Wider(Ends(k))
<1>1. Ends(0) = {start_node_name}
  <2> DEFINE q == [i \in 0..0 |-> start_node_name]
  <2>1. /\ q \in [0..0 -> Target] /\ q[0] = start_node_name
        /\ \A i \in 0..(0 - 1) : Goes(q[i], q[i + 1])
    OBVIOUS
  <2> HIDE DEF q
  <2>2. start_node_name \in Ends(0)
    BY <2>1, EndOfPath
  <2> QED
    BY <2>2 DEF Ends
<1>2. ASSUME NEW k \in Nat, NEW x \in Ends(k + 1)
      PROVE  x \in Wider(Ends(k))
  <2>1. PICK p \in [0..(k + 1) -> Target] :
          /\ p[0] = start_node_name /\ p[k + 1] = x
          /\ \A i \in 0..k : Goes(p[i], p[i + 1])
    BY <1>2 DEF Ends
  <2> DEFINE q == [i \in 0..k |-> p[i]]
  <2>2. q \in [0..k -> Target] /\ q[0] = start_node_name /\ q[k] = p[k]
    BY <2>1
  <2>3. \A i \in 0..(k - 1) : Goes(q[i], q[i + 1])
    BY <2>1
  <2>4. Goes(p[k], x)
    BY <2>1
  <2> HIDE DEF q
  <2>5. p[k] \in Ends(k)
    BY <2>2, <2>3, EndOfPath
  <2> QED
    BY <2>4, <2>5 DEF Goes, Wider
<1>3. ASSUME NEW k \in Nat, NEW x \in Wider(Ends(k))
      PROVE  x \in Ends(k + 1)
  <2>1. PICK y \in Ends(k) : Goes(y, x)
    BY <1>3 DEF Wider, Goes
  <2>2. PICK p \in [0..k -> Target] :
          /\ p[0] = start_node_name /\ p[k] = y
          /\ \A i \in 0..(k - 1) : Goes(p[i], p[i + 1])
    BY <2>1 DEF Ends
  <2>3. x \in Target
    BY <2>1, CompiledType DEF Goes, Ends
  <2> DEFINE q == [i \in 0..(k + 1) |-> IF i = k + 1 THEN x ELSE p[i]]
  <2>4. q \in [0..(k + 1) -> Target] /\ q[0] = start_node_name /\ q[k + 1] = x
    BY <2>2, <2>3
  <2>5. ASSUME NEW i \in 0..k
        PROVE  Goes(q[i], q[i + 1])
    <3>1. CASE i = k
      BY <2>1, <2>2, <3>1
    <3>2. CASE i # k
      <4>1. i \in 0..(k - 1) /\ q[i] = p[i] /\ q[i + 1] = p[i + 1]
        BY <3>2
      <4> QED
        BY <2>2, <4>1
    <3> QED
      BY <3>1, <3>2
  <2>6. k + 1 \in Nat /\ (k + 1) - 1 = k
    OBVIOUS
  <2> HIDE DEF q
  <2> QED
    BY <2>4, <2>5, <2>6, EndOfPath
<1> QED
  BY <1>1, <1>2, <1>3

\* The recursion of Within has a solution, so Within is one.
LEMMA WithinLemma ==
  ASSUME nodes \in Definitions, start_node_name \in Target
  PROVE  /\ Within[0] = {start_node_name}
         /\ \A k \in Nat : Within[k + 1] = Wider(Within[k])
<1> DEFINE Solves(f) ==
      f = [k \in Nat |->
             IF k = 0 THEN {start_node_name}
             ELSE f[k - 1] \cup
                  UNION {Compiled(nodes, m) : m \in {x \in f[k - 1] : ~Significant(x)}}]
<1> DEFINE E == [k \in Nat |-> Ends(k)]
<1>1. ASSUME NEW k \in Nat
      PROVE  E[k] = IF k = 0 THEN {start_node_name}
                    ELSE E[k - 1] \cup
                  UNION {Compiled(nodes, m) : m \in {x \in E[k - 1] : ~Significant(x)}}
  <2>1. CASE k = 0
    BY <2>1, EndsLemma
  <2>2. CASE k # 0
    <3>1. k - 1 \in Nat /\ (k - 1) + 1 = k
      BY <2>2
    <3>2. Ends(k) = Wider(Ends(k - 1))
      BY <3>1, EndsLemma
    <3> QED
      BY <2>2, <3>1, <3>2 DEF Wider
  <2> QED
    BY <2>1, <2>2
<1>2. Solves(E)
  BY <1>1
<1>3. Within = CHOOSE f : Solves(f)
  BY DEF Within
<1>4. Solves(Within)
  <2> HIDE DEF Solves, E
  <2> QED
    BY <1>2, <1>3
<1>5. Within[0] = {start_node_name}
  BY <1>4
<1>6. ASSUME NEW k \in Nat
      PROVE  Within[k + 1] = Wider(Within[k])
  BY <1>4 DEF Wider
<1> QED
  BY <1>5, <1>6

\* The reference does not move while the traversal runs.
LEMMA WithinStays ==
  ASSUME nodes' = nodes, start_node_name' = start_node_name
  PROVE  Within' = Within
BY DEF Within, Significant

\* A longer run reaches more.
LEMMA WithinGrows ==
  ASSUME nodes \in Definitions, start_node_name \in Target,
         NEW k \in Nat, NEW l \in Nat, l <= k
  PROVE  Within[l] \subseteq Within[k]
<1> DEFINE T == {d \in Nat : ~(Within[l] \subseteq Within[l + d])}
<1>1. T = {}
  <2> SUFFICES ASSUME T # {} PROVE FALSE
    OBVIOUS
  <2>1. PICK d \in T : \A e \in T : d <= e
    BY LeastNatural
  <2>2. d # 0
    BY <2>1
  <2>3. d - 1 \in Nat /\ d - 1 \notin T
    BY <2>1, <2>2
  <2>4. l + (d - 1) \in Nat /\ (l + (d - 1)) + 1 = l + d
    BY <2>3
  <2>5. Within[l + d] = Wider(Within[l + (d - 1)])
    BY <2>4, WithinLemma
  <2> QED
    BY <2>1, <2>3, <2>5 DEF Wider
<1>2. k - l \in Nat /\ l + (k - l) = k
  OBVIOUS
<1> QED
  BY <1>1, <1>2

\* While something within k nodes has not been visited, everything visited lies
\* within k nodes, and everything queued within one more.
Layered ==
  \A k \in Nat : ~(Within[k] \subseteq visited) =>
    visited \subseteq Within[k] /\ Range(queue) \subseteq Within[k + 1]

\* Of the nodes of q outside V, a farther one comes after an occurrence of each
\* nearer one.  (A node can be queued again behind farther ones.)
Nearer(q, V) ==
  \A k \in Nat : \A i, j \in DOMAIN q :
    q[j] \in Within[k] \ V /\ q[i] \notin Within[k] \cup V
      => \E l \in DOMAIN q : l < i /\ q[l] = q[j]

InOrder ==
  \A k \in Nat : \A i, j \in DOMAIN results :
    i < j /\ results[j] \in Within[k] => results[i] \in Within[k]

BreadthInv == Layered /\ Nearer(queue, visited) /\ InOrder

\* What is near and not visited waits in the queue, or something as near does.
LEMMA QueueReaches ==
  ASSUME IInv, NEW k \in Nat, ~(Within[k] \subseteq visited)
  PROVE  \E j \in DOMAIN queue : queue[j] \in Within[k] \ visited
<1>1. nodes \in Definitions /\ start_node_name \in Target
  BY DEF IInv, TypeOK
<1> DEFINE T == {l \in Nat : l <= k /\ ~(Within[l] \subseteq visited)}
<1>2. PICK l \in T : \A e \in T : l <= e
  <2>1. k \in T
    OBVIOUS
  <2> QED
    BY <2>1, LeastNatural
<1>3. PICK x \in Within[l] : x \notin visited
  BY <1>2
<1>4. x \in Found
  <2>1. CASE l = 0
    BY <1>1, <1>3, <2>1, WithinLemma DEF IInv
  <2>2. CASE l # 0
    <3>1. l - 1 \in Nat /\ (l - 1) + 1 = l /\ l - 1 \notin T
      BY <1>2, <2>2
    <3>2. Within[l - 1] \subseteq visited
      BY <1>2, <3>1
    <3>3. Within[l] = Wider(Within[l - 1])
      BY <1>1, <3>1, WithinLemma
    <3>4. PICK m \in Within[l - 1] : ~Significant(m) /\ x \in Compiled(nodes, m)
      BY <1>3, <3>2, <3>3 DEF Wider
    <3> QED
      BY <3>2, <3>4 DEF IInv
  <2> QED
    BY <2>1, <2>2
<1>5. Within[l] \subseteq Within[k]
  BY <1>1, <1>2, WithinGrows
<1> QED
  BY <1>3, <1>4, <1>5 DEF Found, Range

\* What the traversal visits next is as near as anything it has not visited.
LEMMA HeadIsNearest ==
  ASSUME IInv, BreadthInv, queue # <<>>, Head(queue) \notin visited,
         NEW k \in Nat, ~(Within[k] \subseteq visited)
  PROVE  Head(queue) \in Within[k]
<1>1. queue \in Seq(Target)
  BY DEF IInv, TypeOK
<1>2. Head(queue) = queue[1] /\ 1 \in DOMAIN queue /\ DOMAIN queue \subseteq Nat \ {0}
  BY <1>1
<1>3. PICK j \in DOMAIN queue : queue[j] \in Within[k] \ visited
  BY QueueReaches
<1> QED
  BY <1>2, <1>3 DEF BreadthInv, Nearer

\* Taking the head from the queue keeps the order of the rest.
LEMMA TailIsNearer ==
  ASSUME IInv, Nearer(queue, visited), queue # <<>>,
         NEW V, V = visited \cup {Head(queue)}
  PROVE  Nearer(Tail(queue), V)
<1>1. queue \in Seq(Target)
  BY DEF IInv, TypeOK
<1>2. /\ Len(queue) \in Nat \ {0} /\ DOMAIN queue = 1..Len(queue)
      /\ DOMAIN Tail(queue) = 1..(Len(queue) - 1)
      /\ \A i \in 1..(Len(queue) - 1) : Tail(queue)[i] = queue[i + 1]
      /\ Head(queue) = queue[1]
  BY <1>1
<1> SUFFICES ASSUME NEW k \in Nat,
                    NEW i \in DOMAIN Tail(queue), NEW j \in DOMAIN Tail(queue),
                    Tail(queue)[j] \in Within[k] \ V,
                    Tail(queue)[i] \notin Within[k] \cup V
             PROVE  \E l \in DOMAIN Tail(queue) : l < i /\ Tail(queue)[l] = Tail(queue)[j]
  BY DEF Nearer
<1>3. /\ i + 1 \in DOMAIN queue /\ j + 1 \in DOMAIN queue
      /\ queue[j + 1] \in Within[k] \ V /\ queue[i + 1] \notin Within[k] \cup V
  BY <1>2
<1>4. PICK l \in DOMAIN queue : l < i + 1 /\ queue[l] = queue[j + 1]
  BY <1>3 DEF Nearer
<1>5. l # 1
  BY <1>2, <1>3, <1>4
<1>6. l - 1 \in DOMAIN Tail(queue) /\ l - 1 < i /\ Tail(queue)[l - 1] = queue[l]
  BY <1>2, <1>4, <1>5
<1> QED
  BY <1>2, <1>4, <1>6

\* The edges of an insignificant node go to the end of the queue without breaking
\* its order: a nearer node that is not yet visited already waits there.
LEMMA EnqueueKeepsOrder ==
  ASSUME IInv, BreadthInv, queue # <<>>, NEW n, n = Head(queue), n \notin visited,
         ~Significant(n), NEW s \in Seq(Target), Range(s) = Compiled(nodes, n)
  PROVE  Nearer(Tail(queue) \o s, visited \cup {n})
<1> DEFINE t == Tail(queue)
           V == visited \cup {n}
<1>1. /\ nodes \in Definitions /\ start_node_name \in Target
      /\ t \in Seq(Target) /\ Range(queue) = {n} \cup Range(t)
  BY RangeHeadTail DEF IInv, TypeOK
<1>2. Nearer(t, V)
  BY TailIsNearer DEF BreadthInv
<1>3. ASSUME NEW k \in Nat, NEW c \in Within[k] \ V,
             NEW z \in Range(t) \cup Range(s), z \notin Within[k]
      PROVE  c \in Range(t)
  <2>1. k # 0
    <3>1. SUFFICES ASSUME k = 0 PROVE FALSE
      OBVIOUS
    <3>2. Within[k] = {start_node_name}
      BY <1>1, <3>1, WithinLemma
    <3> QED
      BY <3>2, HeadIsNearest
  <2>2. k - 1 \in Nat /\ (k - 1) + 1 = k
    BY <2>1
  <2>3. Within[k] = Wider(Within[k - 1])
    BY <1>1, <2>2, WithinLemma
  <2>4. Within[k - 1] \subseteq visited
    <3>1. SUFFICES ASSUME ~(Within[k - 1] \subseteq visited) PROVE FALSE
      OBVIOUS
    <3>2. n \in Within[k - 1]
      BY <2>2, <3>1, HeadIsNearest
    <3>3. Compiled(nodes, n) \subseteq Within[k]
      BY <2>3, <3>2 DEF Wider
    <3>4. Range(queue) \subseteq Within[k]
      BY <2>2, <3>1 DEF BreadthInv, Layered
    <3> QED
      BY <1>1, <1>3, <3>3, <3>4
  <2>5. PICK m \in Within[k - 1] : ~Significant(m) /\ c \in Compiled(nodes, m)
    BY <2>3, <2>4 DEF Wider
  <2>6. c \in Found
    BY <2>4, <2>5 DEF IInv
  <2> QED
    BY <1>1, <2>6 DEF Found
<1>4. /\ Len(t) \in Nat /\ Len(s) \in Nat
      /\ DOMAIN t = 1..Len(t) /\ DOMAIN s = 1..Len(s)
      /\ DOMAIN (t \o s) = 1..(Len(t) + Len(s))
      /\ \A i \in 1..(Len(t) + Len(s)) :
           (t \o s)[i] = IF i <= Len(t) THEN t[i] ELSE s[i - Len(t)]
  BY <1>1
<1> HIDE DEF t, V
<1>5. ASSUME NEW k \in Nat, NEW i \in DOMAIN (t \o s), NEW j \in DOMAIN (t \o s),
             (t \o s)[j] \in Within[k] \ V, (t \o s)[i] \notin Within[k] \cup V
      PROVE  \E l \in DOMAIN (t \o s) : l < i /\ (t \o s)[l] = (t \o s)[j]
  <2>1. (t \o s)[i] \in Range(t) \cup Range(s)
    <3>1. CASE i <= Len(t)
      BY <1>4, <3>1 DEF Range
    <3>2. CASE ~ (i <= Len(t))
      <4>1. i - Len(t) \in DOMAIN s
        BY <1>4, <3>2
      <4> QED
        BY <1>4, <3>2, <4>1 DEF Range
    <3> QED
      BY <3>1, <3>2
  <2>2. (t \o s)[j] \in Range(t)
    BY <1>3, <1>5, <2>1
  <2>3. PICK h \in DOMAIN t : t[h] = (t \o s)[j]
    BY <2>2 DEF Range
  <2>4. \E l \in DOMAIN t : l < i /\ t[l] = t[h]
    <3>1. CASE i <= Len(t)
      <4>1. i \in DOMAIN t /\ t[i] = (t \o s)[i]
        BY <1>4, <3>1
      <4> QED
        BY <1>2, <1>5, <2>3, <4>1 DEF Nearer
    <3>2. CASE ~ (i <= Len(t))
      BY <1>4, <2>3, <3>2
    <3> QED
      BY <3>1, <3>2
  <2> QED
    BY <1>4, <2>3, <2>4
<1> QED
  BY <1>5 DEF Nearer, t, V

\* The search starts with everything still before it.
LEMMA InitBreadthInv == Init => BreadthInv
<1> SUFFICES ASSUME Init PROVE BreadthInv
  OBVIOUS
<1>1. /\ nodes \in Definitions /\ start_node_name \in Target
      /\ queue = <<start_node_name>> /\ visited = {} /\ results = <<>>
  BY DEF Init
<1>2. DOMAIN queue = {1} /\ Range(queue) = {start_node_name}
  BY <1>1 DEF Range
<1>3. \A k \in Nat : start_node_name \in Within[k]
  <2>1. \A k \in Nat : Within[0] \subseteq Within[k]
    BY <1>1, WithinGrows
  <2> QED
    BY <1>1, <2>1, WithinLemma
<1>4. Layered
  BY <1>1, <1>2, <1>3 DEF Layered
<1>5. Nearer(queue, visited)
  BY <1>1, <1>2, <1>3 DEF Nearer
<1>6. InOrder
  BY <1>1 DEF InOrder
<1> QED
  BY <1>4, <1>5, <1>6 DEF BreadthInv

\* Visiting the head, and queueing what an insignificant head leads to, keeps the
\* layers.
LEMMA VisitKeepsLayers ==
  ASSUME IInv, BreadthInv, queue # <<>>, Head(queue) \notin visited, Within' = Within,
         visited' = visited \cup {Head(queue)},
         \/ Range(queue') \subseteq Range(queue)
         \/ /\ ~Significant(Head(queue))
            /\ Range(queue') \subseteq Range(queue) \cup Compiled(nodes, Head(queue))
  PROVE  Layered'
<1>1. nodes \in Definitions /\ start_node_name \in Target
  BY DEF IInv, TypeOK
<1> SUFFICES ASSUME NEW k \in Nat, ~(Within[k] \subseteq visited')
             PROVE  visited' \subseteq Within[k] /\ Range(queue') \subseteq Within[k + 1]
  BY DEF Layered
<1>2. ~(Within[k] \subseteq visited)
  OBVIOUS
<1>3. Head(queue) \in Within[k]
  BY <1>2, HeadIsNearest
<1>4. visited \subseteq Within[k] /\ Range(queue) \subseteq Within[k + 1]
  BY <1>2 DEF BreadthInv, Layered
<1>5. ~Significant(Head(queue)) => Compiled(nodes, Head(queue)) \subseteq Within[k + 1]
  <2>1. Within[k + 1] = Wider(Within[k])
    BY <1>1, WithinLemma
  <2> QED
    BY <1>3, <2>1 DEF Wider
<1> QED
  BY <1>3, <1>4, <1>5

\* Every turn of the loop keeps the breadth-first order.
LEMMA NextBreadthInv == IInv /\ BreadthInv /\ [Next]_vars => BreadthInv'
<1> SUFFICES ASSUME IInv, BreadthInv, [Next]_vars PROVE BreadthInv'
  OBVIOUS
<1>1. /\ nodes \in Definitions /\ queue \in Seq(Target) /\ results \in Seq(Name)
      /\ Range(results) = {m \in visited : Significant(m)}
  BY DEF IInv, TypeOK
<1>2. nodes' = nodes /\ start_node_name' = start_node_name
  BY DEF Next, SkipVisited, Collect, Expand, Return, vars
<1>3. Within' = Within
  BY <1>2, WithinStays
<1>4. ASSUME NEW n \in Target, SkipVisited(n)
      PROVE  BreadthInv'
  <2>1. /\ queue # <<>> /\ n = Head(queue) /\ n \in visited /\ queue' = Tail(queue)
        /\ UNCHANGED <<visited, results>>
    BY <1>4 DEF SkipVisited, Popped, Visited
  <2>2. Range(Tail(queue)) \subseteq Range(queue)
    BY <1>1, <2>1, RangeHeadTail
  <2>3. Layered'
    BY <1>3, <2>1, <2>2 DEF BreadthInv, Layered
  <2>4. visited = visited \cup {n}
    BY <2>1
  <2>5. Nearer(Tail(queue), visited)
    BY <2>1, <2>4, TailIsNearer DEF BreadthInv
  <2>6. Nearer(queue, visited)'
    BY <1>3, <2>1, <2>5 DEF Nearer
  <2>7. InOrder'
    BY <1>3, <2>1 DEF BreadthInv, InOrder
  <2> QED
    BY <2>3, <2>6, <2>7 DEF BreadthInv
<1>5. ASSUME NEW n \in Target, Collect(n)
      PROVE  BreadthInv'
  <2>1. /\ queue # <<>> /\ n = Head(queue) /\ n \notin visited /\ Significant(n)
        /\ visited' = visited \cup {n} /\ queue' = Tail(queue)
    BY <1>5 DEF Collect, Popped, Visited
  <2>2. Range(Tail(queue)) \subseteq Range(queue)
    BY <1>1, <2>1, RangeHeadTail
  <2>3. Layered'
    BY <1>3, <2>1, <2>2, VisitKeepsLayers
  <2>4. Nearer(Tail(queue), visited')
    BY <2>1, TailIsNearer DEF BreadthInv
  <2>5. Nearer(queue, visited)'
    BY <1>3, <2>1, <2>4 DEF Nearer
  <2>6. n \in Name /\ n \notin Range(results)
    BY <1>1, <2>1, SignificantIsName
  <2>7. results' = Append(results, n)
    BY <1>5, <2>6 DEF Collect
  <2>8. /\ DOMAIN results' = DOMAIN results \cup {Len(results) + 1}
        /\ DOMAIN results = 1..Len(results) /\ Len(results) \in Nat
        /\ \A i \in DOMAIN results : results'[i] = results[i]
        /\ results'[Len(results) + 1] = n
    BY <1>1, <2>6, <2>7
  <2>9. ASSUME NEW k \in Nat, n \in Within[k]
        PROVE  \A i \in DOMAIN results : results[i] \in Within[k]
    <3>1. visited \subseteq Within[k]
      BY <2>1, <2>9 DEF BreadthInv, Layered
    <3> QED
      BY <1>1, <3>1 DEF Range
  <2>10. InOrder'
    <3> SUFFICES ASSUME NEW k \in Nat, NEW i \in DOMAIN results',
                        NEW j \in DOMAIN results', i < j, results'[j] \in Within[k]
                 PROVE  results'[i] \in Within[k]
      BY <1>3 DEF InOrder
    <3>1. i \in DOMAIN results
      BY <2>8
    <3>2. CASE j \in DOMAIN results
      BY <2>8, <3>1, <3>2 DEF BreadthInv, InOrder
    <3>3. CASE j = Len(results) + 1
      BY <2>8, <2>9, <3>1, <3>3
    <3> QED
      BY <2>8, <3>2, <3>3
  <2> QED
    BY <2>3, <2>5, <2>10 DEF BreadthInv
<1>6. ASSUME NEW n \in Target, Expand(n)
      PROVE  BreadthInv'
  <2>1. /\ queue # <<>> /\ n = Head(queue) /\ n \notin visited /\ ~Significant(n)
        /\ visited' = visited \cup {n} /\ results' = results
        /\ queue' = Tail(queue) \o SuccessLike(nodes, n)
    BY <1>6 DEF Expand, Popped, Visited, Enqueued
  <2>2. Type(nodes, n) # "event_wait"
    BY <2>1 DEF Significant, include_types
  <2>3. /\ SuccessLike(nodes, n) \in Seq(Target)
        /\ Range(SuccessLike(nodes, n)) = Compiled(nodes, n)
    BY <1>1, <2>2, SuccessLikeType, TraversalFollowsTheGraph
  <2>4. Tail(queue) \in Seq(Target) /\ Range(Tail(queue)) \subseteq Range(queue)
    BY <1>1, <2>1, RangeHeadTail
  <2>5. Range(queue') \subseteq Range(queue) \cup Compiled(nodes, n)
    <3> DEFINE p == Tail(queue)
               q == SuccessLike(nodes, n)
    <3> HIDE DEF p, q
    <3>1. p \in Seq(Target) /\ q \in Seq(Target)
      BY <2>3, <2>4 DEF p, q
    <3>2. Range(p \o q) = Range(p) \cup Range(q)
      BY <3>1, RangeConcat
    <3> QED
      BY <2>1, <2>3, <2>4, <3>2 DEF p, q
  <2>6. Layered'
    BY <1>3, <2>1, <2>5, VisitKeepsLayers
  <2>7. Nearer(queue', visited')
    BY <2>1, <2>3, EnqueueKeepsOrder
  <2>8. Nearer(queue, visited)'
    BY <1>3, <2>7 DEF Nearer
  <2>9. InOrder'
    BY <1>3, <2>1 DEF BreadthInv, InOrder
  <2> QED
    BY <2>6, <2>8, <2>9 DEF BreadthInv
<1>7. CASE UNCHANGED <<queue, visited, results>>
  BY <1>3, <1>7 DEF BreadthInv, Layered, Nearer, InOrder
<1> QED
  BY <1>4, <1>5, <1>6, <1>7 DEF Next, Return, vars

\* The steps announced come in the order of their distance from the start, for
\* every definition: no step is announced before one that an error-free run can
\* reach after fewer nodes, retry loops and nodes queued twice included.
THEOREM NearerStepsComeFirst ==
  ASSUME IsFiniteSet(Name)
  PROVE  Spec => []NearestFirst
<1>1. 0..Cardinality(Name) \subseteq Nat
  BY FS_CardinalityType
<1>2. BreadthInv => NearestFirst
  BY <1>1 DEF BreadthInv, InOrder, NearestFirst
<1> QED
  BY <1>2, IInvInvariant, InitBreadthInv, NextBreadthInv, PTL DEF Spec

=============================================================================
