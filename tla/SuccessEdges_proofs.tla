-------------------------- MODULE SuccessEdges_proofs --------------------------
(***************************************************************************)
(* What the traversals append to their queues, and the queue operations    *)
(* both are built from.                                                    *)
(***************************************************************************)
EXTENDS SuccessEdges, Integers, TLAPS

\* The elements of a queue are its head and the elements of its tail.
LEMMA RangeHeadTail ==
  ASSUME NEW S, NEW q \in Seq(S), q # <<>>
  PROVE  /\ Head(q) \in S
         /\ Tail(q) \in Seq(S)
         /\ Range(q) = {Head(q)} \cup Range(Tail(q))
<1>1. Len(q) \in Nat \ {0} /\ Head(q) = q[1] /\ Head(q) \in S
  OBVIOUS
<1>2. /\ Tail(q) \in Seq(S)
      /\ DOMAIN q = 1..Len(q)
      /\ DOMAIN Tail(q) = 1..(Len(q) - 1)
      /\ \A i \in 1..(Len(q) - 1) : Tail(q)[i] = q[i + 1]
  BY <1>1
<1>3. ASSUME NEW x \in Range(q)
      PROVE  x \in {Head(q)} \cup Range(Tail(q))
  <2>1. PICK i \in 1..Len(q) : x = q[i]
    BY <1>2 DEF Range
  <2>2. CASE i = 1
    BY <1>1, <2>1, <2>2
  <2>3. CASE i # 1
    <3>1. i - 1 \in 1..(Len(q) - 1) /\ Tail(q)[i - 1] = x
      BY <1>1, <1>2, <2>1, <2>3
    <3> QED
      BY <1>2, <3>1 DEF Range
  <2> QED
    BY <2>2, <2>3
<1>4. ASSUME NEW x \in Range(Tail(q))
      PROVE  x \in Range(q)
  <2>1. PICK i \in 1..(Len(q) - 1) : x = Tail(q)[i]
    BY <1>2 DEF Range
  <2>2. i + 1 \in 1..Len(q) /\ q[i + 1] = x
    BY <1>1, <1>2, <2>1
  <2> QED
    BY <1>2, <2>2 DEF Range
<1>5. Head(q) \in Range(q)
  BY <1>1, <1>2 DEF Range
<1> QED
  BY <1>1, <1>2, <1>3, <1>4, <1>5

\* The elements of a concatenation are those of its parts.
LEMMA RangeConcat ==
  ASSUME NEW S, NEW p \in Seq(S), NEW q \in Seq(S)
  PROVE  p \o q \in Seq(S) /\ Range(p \o q) = Range(p) \cup Range(q)
<1>1. /\ Len(p) \in Nat /\ Len(q) \in Nat
      /\ DOMAIN p = 1..Len(p) /\ DOMAIN q = 1..Len(q)
  OBVIOUS
<1>2. /\ p \o q \in Seq(S)
      /\ DOMAIN (p \o q) = 1..(Len(p) + Len(q))
      /\ \A i \in 1..Len(p) : (p \o q)[i] = p[i]
      /\ \A i \in 1..Len(q) : (p \o q)[Len(p) + i] = q[i]
  BY <1>1
<1>3. ASSUME NEW x \in Range(p \o q)
      PROVE  x \in Range(p) \cup Range(q)
  <2>1. PICK i \in 1..(Len(p) + Len(q)) : x = (p \o q)[i]
    BY <1>2 DEF Range
  <2>2. CASE i <= Len(p)
    BY <1>1, <1>2, <2>1, <2>2 DEF Range
  <2>3. CASE i > Len(p)
    <3>1. i - Len(p) \in 1..Len(q) /\ Len(p) + (i - Len(p)) = i
      BY <1>1, <2>1, <2>3
    <3>2. x = q[i - Len(p)]
      BY <1>2, <2>1, <3>1
    <3> QED
      BY <1>1, <3>1, <3>2 DEF Range
  <2> QED
    BY <1>1, <2>1, <2>2, <2>3
<1>4. ASSUME NEW x \in Range(p)
      PROVE  x \in Range(p \o q)
  BY <1>1, <1>2 DEF Range
<1>5. ASSUME NEW x \in Range(q)
      PROVE  x \in Range(p \o q)
  <2>1. PICK i \in 1..Len(q) : x = q[i]
    BY <1>1 DEF Range
  <2>2. Len(p) + i \in 1..(Len(p) + Len(q)) /\ (p \o q)[Len(p) + i] = x
    BY <1>1, <1>2, <2>1
  <2> QED
    BY <1>2, <2>2 DEF Range
<1> QED
  BY <1>2, <1>3, <1>4, <1>5

\* Appending a new element keeps a sequence without repetitions.
LEMMA AppendNew ==
  ASSUME NEW S, NEW q \in Seq(S), NEW x \in S
  PROVE  /\ Append(q, x) \in Seq(S)
         /\ Range(Append(q, x)) = Range(q) \cup {x}
         /\ IsInjective(q) /\ x \notin Range(q) => IsInjective(Append(q, x))
<1>1. /\ Len(q) \in Nat
      /\ DOMAIN q = 1..Len(q)
      /\ Append(q, x) \in Seq(S)
      /\ DOMAIN Append(q, x) = 1..(Len(q) + 1)
      /\ Append(q, x)[Len(q) + 1] = x
      /\ \A i \in 1..Len(q) : Append(q, x)[i] = q[i]
  OBVIOUS
<1>2. \A i \in 1..(Len(q) + 1) : i \in 1..Len(q) \/ i = Len(q) + 1
  BY <1>1
<1>3. Range(Append(q, x)) = Range(q) \cup {x}
  <2>1. ASSUME NEW y \in Range(Append(q, x))
        PROVE  y \in Range(q) \cup {x}
    BY <1>1, <1>2 DEF Range
  <2>2. Range(q) \subseteq Range(Append(q, x))
    BY <1>1 DEF Range
  <2>3. x \in Range(Append(q, x))
    BY <1>1 DEF Range
  <2> QED
    BY <2>1, <2>2, <2>3
<1>4. ASSUME IsInjective(q), x \notin Range(q)
      PROVE  IsInjective(Append(q, x))
  <2> SUFFICES ASSUME NEW i \in 1..(Len(q) + 1), NEW j \in 1..(Len(q) + 1),
                      Append(q, x)[i] = Append(q, x)[j]
               PROVE  i = j
    BY <1>1 DEF IsInjective
  <2>1. \A k \in 1..Len(q) : q[k] # x
    BY <1>1, <1>4 DEF Range
  <2> QED
    BY <1>1, <1>2, <1>4, <2>1 DEF IsInjective
<1> QED
  BY <1>1, <1>3, <1>4

\* `if target: queue.append(target)` enqueues the target when there is one.
LEMMA PresentRange ==
  ASSUME NEW t \in Target
  PROVE  Present(t) \in Seq(Target) /\ Range(Present(t)) = {t} \ {NoName}
<1>1. CASE t = NoName
  BY <1>1 DEF Present, Range
<1>2. CASE t # NoName
  BY <1>2 DEF Present, Range
<1> QED
  BY <1>1, <1>2

\* A definition's fields have their types.
LEMMA FieldTypes ==
  ASSUME NEW nodes \in Definitions, NEW n \in DOMAIN nodes
  PROVE  /\ n \in Name
         /\ nodes[n].type \in NodeType
         /\ nodes[n].on_success \in Target /\ nodes[n].on_response \in Target
         /\ nodes[n].on_event \in Target /\ nodes[n].on_failure \in Target
         /\ nodes[n].branch_entry_node \in Target
         /\ nodes[n].branches \in Seq(Name)
         /\ nodes[n].type # "event_wait" => nodes[n].on_event = NoName
<1>1. nodes[n] \in NodeDef
  BY SuccessEdgesAssumption
<1> QED
  BY <1>1, SuccessEdgesAssumption DEF NodeDef

\* What a traversal enqueues is a sequence of names that exist as targets.
LEMMA SuccessLikeType ==
  ASSUME NEW nodes \in Definitions, NEW n
  PROVE  SuccessLike(nodes, n) \in Seq(Target)
<1>1. CASE n \notin DOMAIN nodes
  BY <1>1 DEF SuccessLike, Type
<1>2. CASE n \in DOMAIN nodes
  <2>1. nodes[n].branches \in Seq(Target)
    BY <1>2, FieldTypes DEF Target
  <2>2. /\ Or(nodes[n].on_event, nodes[n].on_success) \in Target
        /\ Or(nodes[n].on_success, nodes[n].on_response) \in Target
        /\ nodes[n].branch_entry_node \in Target
    BY <1>2, FieldTypes DEF Or
  <2>3. Type(nodes, n) \in NodeType
    BY <1>2, FieldTypes DEF Type
  <2> QED
    BY <2>1, <2>2, <2>3, PresentRange, Zenon DEF SuccessLike, NodeType, Type
<1> QED
  BY <1>1, <1>2

\* The two derivations of the edges agree, except at an event_wait: what a
\* traversal enqueues is where the compiled graph can go.
THEOREM TraversalFollowsTheGraph ==
  ASSUME NEW nodes \in Definitions, NEW n,
         Type(nodes, n) # "event_wait"
  PROVE  Range(SuccessLike(nodes, n)) = Compiled(nodes, n)
<1>1. CASE n \notin DOMAIN nodes
  <2>1. SuccessLike(nodes, n) = <<>> /\ Compiled(nodes, n) = {}
    BY <1>1 DEF SuccessLike, Compiled, Type
  <2> QED
    BY <2>1 DEF Range
<1>2. CASE n \in DOMAIN nodes
  <2>1. Type(nodes, n) = nodes[n].type /\ Type(nodes, n) \in NodeType
    BY <1>2, FieldTypes DEF Type
  <2>2. CASE Type(nodes, n) = "condition"
    <3>1. /\ SuccessLike(nodes, n) = nodes[n].branches
          /\ Compiled(nodes, n) = Range(nodes[n].branches)
      BY <2>2 DEF SuccessLike, Compiled
    <3> QED
      BY <3>1
  <2>3. CASE Type(nodes, n) = "map_fork"
    <3>1. /\ SuccessLike(nodes, n) = Present(nodes[n].branch_entry_node)
          /\ Compiled(nodes, n) = {nodes[n].branch_entry_node} \ {NoName}
      BY <2>3 DEF SuccessLike, Compiled
    <3> QED
      BY <1>2, <3>1, FieldTypes, PresentRange
  <2>4. CASE Type(nodes, n) \notin {"condition", "map_fork"}
    <3> DEFINE t == Or(nodes[n].on_success, nodes[n].on_response)
    <3>1. t \in Target
      BY <1>2, FieldTypes DEF Or
    <3>2. t = Or(nodes[n].on_success, Or(nodes[n].on_response, nodes[n].on_event))
      BY <1>2, <2>1, FieldTypes DEF Or
    <3>3. /\ SuccessLike(nodes, n) = Present(t)
          /\ Compiled(nodes, n) = {t} \ {NoName}
      BY <2>1, <2>4, <3>2 DEF SuccessLike, Compiled, NodeType
    <3> QED
      BY <3>1, <3>3, PresentRange
  <2> QED
    BY <2>2, <2>3, <2>4
<1> QED
  BY <1>1, <1>2

=============================================================================
