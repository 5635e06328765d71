---------------------------- MODULE Branches_proofs ----------------------------
(***************************************************************************)
(* Theorems about Branches, for every list of items, every number of       *)
(* containers and every bound.                                             *)
(***************************************************************************)
EXTENDS Branches, TLAPS, WellFoundedInduction

-----------------------------------------------------------------------------
(* Items and keys.                                                         *)

\* A deep merge keeps a value unless the other operand has one for the field,
\* and makes an item of which nothing is lost.
LEMMA MergeLemma ==
  ASSUME NEW left \in Item, NEW right \in Item
  PROVE  /\ Merge(left, right) \in Item
         /\ \A f \in Field : Merge(left, right)[f] =
                               IF right[f] # NoKey THEN right[f] ELSE left[f]
         /\ left # Empty \/ right # Empty => Merge(left, right) # Empty
<1>1. /\ Merge(left, right) \in Item
      /\ \A f \in Field : Merge(left, right)[f] =
                            IF right[f] # NoKey THEN right[f] ELSE left[f]
  BY DEF Merge, Item
<1>2. ASSUME NEW i \in Item, i # Empty
      PROVE  \E f \in Field : i[f] # NoKey
  BY <1>2 DEF Item, Empty
<1>3. \A f \in Field : Empty[f] = NoKey
  BY DEF Empty
<1> QED
  BY <1>1, <1>2, <1>3

\* An item without a field is no item.
LEMMA EmptyLemma ==
  /\ Empty \in Item
  /\ \A f \in Field : Empty[f] = NoKey
  /\ \A k \in Key : FilingPack(k) \in Item /\ FilingPack(k) # Empty
  /\ \A k \in Key : FilingPack(k)["id"] = k
  /\ \A k \in Key, f \in Field : FilingPack(k)[f] \in {NoKey, k}
BY BranchesAssumption DEF Empty, Item, Field, FilingPack

\* The keys of the list are branch keys, and the last one is one of them.
LEMMA ItemsLemma ==
  /\ Range(Items) \subseteq Key
  /\ Items \in Seq(Range(Items))
  /\ Last(Items) \in Range(Items)
<1>1. /\ Len(Items) \in Nat \ {0} /\ DOMAIN Items = 1..Len(Items)
      /\ \A i \in 1..Len(Items) : Items[i] \in Key
  BY BranchesAssumption
<1>2. \A i \in 1..Len(Items) : Items[i] \in Range(Items)
  BY <1>1 DEF Range
<1>3. Items = [i \in 1..Len(Items) |-> Items[i]]
  BY BranchesAssumption
<1>4. Items \in Seq(Range(Items))
  BY <1>1, <1>2, <1>3
<1>5. Len(Items) \in 1..Len(Items)
  BY <1>1
<1> QED
  BY <1>1, <1>2, <1>4, <1>5 DEF Range, Last

\* A non-empty set of naturals has a least element.
LEMMA LeastNatural ==
  ASSUME NEW T, T \subseteq Nat, T # {}
  PROVE  \E x \in T : \A y \in T : x <= y
<1>1. \A x, y \in Nat : <<x, y>> \in OpToRel(<, Nat) <=> x < y
  BY DEF OpToRel
<1>2. \E x \in T : \A y \in T : ~ (<<y, x>> \in OpToRel(<, Nat))
  BY NatLessThanWellFounded, WFMin, Zenon
<1>3. \E x \in T : \A y \in T : ~ (y < x)
  BY <1>1, <1>2, Zenon
<1> QED
  BY <1>3

-----------------------------------------------------------------------------
(* Checkpoints keep their type.                                            *)

\* What the registrations leave in a field is what the last item that has the
\* field has there, or what was there before.
LEMMA LastWithType ==
  ASSUME NEW c \in Checkpoint, NEW f \in Field
  PROVE  LastWith(c, f) \in Key \cup {NoKey}
<1> DEFINE having == {i \in DOMAIN Items : c.packs[Items[i]][f] # NoKey}
<1>1. /\ Len(Items) \in Nat
      /\ DOMAIN Items = 1..Len(Items)
      /\ \A i \in DOMAIN Items : Items[i] \in Key
  BY BranchesAssumption
<1>2. CASE having = {}
  BY <1>2 DEF LastWith, Checkpoint, Item
<1>3. CASE having # {}
  <2> DEFINE T == {Len(Items) - i : i \in having}
  <2>1. T \subseteq Nat /\ T # {}
    BY <1>1, <1>3
  <2>2. PICK x \in T : \A y \in T : x <= y
    BY <2>1, LeastNatural
  <2>3. PICK m \in having : x = Len(Items) - m
    OBVIOUS
  <2>4. ASSUME NEW j \in having
        PROVE  j <= m
    <3>1. Len(Items) - j \in T /\ j \in Nat /\ m \in Nat
      BY <1>1
    <3>2. Len(Items) - m <= Len(Items) - j
      BY <2>2, <2>3, <3>1
    <3> QED
      BY <1>1, <3>1, <3>2
  <2> DEFINE i == CHOOSE i \in having : \A j \in having : j <= i
  <2>5. i \in having
    BY <2>4
  <2>6. LastWith(c, f) = c.packs[Items[i]][f]
    BY <1>3 DEF LastWith
  <2>7. c.packs[Items[i]] \in Item
    BY <1>1, <2>5 DEF Checkpoint
  <2> QED
    BY <2>6, <2>7 DEF Item
<1> QED
  BY <1>2, <1>3

\* Commands and requests only carry keys.
LEMMA CommandFields ==
  ASSUME NEW c \in Command
  PROVE  /\ c.branch \in Key \cup {NoKey}
         /\ c.in_reply_to \in Nat
         /\ c.branch = NoKey => c.type = "ASYNC_RESP"
         /\ c.branch # NoKey => Payload(c) \in Item
<1>1. /\ c.branch \in Key \cup {NoKey}
      /\ c.in_reply_to \in Nat
      /\ c.branch = NoKey => c.type = "ASYNC_RESP"
  BY BranchesAssumption DEF Command, CreateAnswer, BranchAnswer, BranchEvent
<1> QED
  BY <1>1 DEF Payload, Empty, Item, Field

\* The edges a response follows lead to nodes.
LEMMA EdgeType ==
  ASSUME NEW c \in Command
  PROVE  /\ EdgeOfTransition(c) \in Node
         /\ EdgeOfTransition(c) \notin {"Create_Filing_Packs", "Submit_Import_Filing"}
         /\ EdgeOfTransition(c) = "Submit_Import_Filing_Fork" => c.branch = NoKey
<1>1. CASE c.branch = NoKey
  BY <1>1 DEF EdgeOfTransition, Node
<1>2. CASE c.branch # NoKey /\ c.outcome = "ERROR"
  BY <1>2 DEF EdgeOfTransition, Node
<1>3. CASE c.branch # NoKey /\ c.outcome = "RELEASED"
  BY <1>3 DEF EdgeOfTransition, Node
<1>4. CASE c.branch # NoKey /\ c.outcome \notin {"ERROR", "RELEASED"}
  BY <1>4 DEF EdgeOfTransition, Node
<1> QED
  BY <1>1, <1>2, <1>3, <1>4

\* The instance starts from a proper checkpoint.
LEMMA PausedType == Paused \in Checkpoint
BY EmptyLemma DEF Paused, Checkpoint, Node

\* The answer's list is a list of items.
LEMMA NewListType == NewList \in [Key -> Item]
BY EmptyLemma DEF NewList

\* The two updates the handlers make most, and what they read.
LEMMA UpdateType ==
  ASSUME NEW c \in Checkpoint, NEW i \in Item, NEW k \in Key
  PROVE  /\ [c EXCEPT !.current_map_item = Merge(@, i)] \in Checkpoint
         /\ [c EXCEPT !.map_items_by_key[k] = Merge(@, i)] \in Checkpoint
         /\ c.map_items_by_key[k] \in Item
         /\ c.packs[k] \in Item
         /\ c.current_map_item \in Item
<1>1. /\ c.map_items_by_key[k] \in Item
      /\ c.packs[k] \in Item
      /\ c.current_map_item \in Item
  BY DEF Checkpoint
<1>2. /\ Merge(c.current_map_item, i) \in Item
      /\ Merge(c.map_items_by_key[k], i) \in Item
  BY <1>1, MergeLemma
<1> QED
  BY <1>1, <1>2 DEF Checkpoint

\* The registrations leave a checkpoint that names the last branch.
LEMMA RegisteredType ==
  ASSUME NEW c \in Checkpoint
  PROVE  [c EXCEPT
            !.next = "Submit_Import_Filing",
            !.branch_key = Last(Items),
            !.current_map_item = [f \in Field |-> LastWith(c, f)],
            !.map_items_by_key = [k \in Key |-> Merge(@[k], c.packs[k])]]
           \in Checkpoint
<1>1. [f \in Field |-> LastWith(c, f)] \in Item
  BY LastWithType DEF Item
<1>2. [k \in Key |-> Merge(c.map_items_by_key[k], c.packs[k])] \in [Key -> Item]
  BY MergeLemma DEF Checkpoint
<1> QED
  BY <1>1, <1>2, ItemsLemma DEF Checkpoint, Node

\* What a container at work holds.
Working ==
  /\ \A w \in Worker : pc[w] # "idle" => job[w] \in Command
  /\ \A w \in Worker :
       pc[w] \in {"restore", "merge", "persist", "readList", "writeList",
                  "readMirror", "writeMirror"} => IsBranch(w)
  /\ \A w \in Worker : pc[w] \in {"drainSend", "drainMark"} => todo[w] # <<>>

\* The graph asks in the name of a branch of the list, and so does the drain.
Keyed(c) == c.next = "Submit_Import_Filing" => c.branch_key \in Range(Items)

KeysOK ==
  /\ Keyed(checkpoint)
  /\ \A w \in Worker : Keyed(mem[w])
  /\ \A i \in DOMAIN requests : requests[i].branch \in Range(Items)

TInv == TypeOK /\ Working /\ KeysOK

\* What it means for the container's own variables.
Holds(w) ==
  /\ job[w] \in Command
  /\ ~ IsBranch(w) => IsAnswer(w)
  /\ IsBranch(w) => Branch(w) \in Key /\ Payload(job[w]) \in Item
  /\ checkpoint \in Checkpoint /\ mem[w] \in Checkpoint
  /\ item[w] \in Item
  /\ todo[w] \in Seq(Range(Items))

USE DEF Holds

\* A container at work holds what the invariant says.
LEMMA AtWork ==
  ASSUME TInv, NEW w \in Worker, pc[w] # "idle"
  PROVE  Holds(w)
BY CommandFields DEF TInv, TypeOK, Working, IsBranch, Branch, IsAnswer

\* Types, and what the program counter says of a container, are inductive.
LEMMA TInvStep ==
  ASSUME TInv, [Next]_vars
  PROVE  TInv'
<1> USE DEF world
<1>1. ASSUME NEW w \in Worker, Receive(w)
      PROVE  TInv'
  <2>1. TypeOK'
    BY <1>1
       DEF Receive, Goto, TInv, TypeOK
  <2>2. Working'
    BY <1>1, CommandFields
       DEF Receive, Goto, TInv, TypeOK, Working, IsBranch
  <2>3. KeysOK'
    BY <1>1
       DEF Receive, Goto, TInv, TypeOK, KeysOK, Keyed
  <2> QED
    BY <2>1, <2>2, <2>3 DEF TInv
<1>2. ASSUME NEW w \in Worker, Finish(w) \/ Crash(w)
      PROVE  TInv'
  <2>1. /\ Forget(w) /\ checkpoint' = checkpoint /\ sent' = sent /\ requests' = requests
        /\ duplicates' = duplicates
    BY <1>2 DEF Finish, Crash
  <2>2. queue' \subseteq Command /\ crashes' \in 0..MaxCrashes
    BY <1>2, BranchesAssumption DEF Finish, Crash, TInv, TypeOK, Working
  <2>3. TypeOK'
    BY <1>2, <2>1, <2>2, PausedType, EmptyLemma
       DEF Forget, Goto, TInv, TypeOK
  <2>4. Working'
    BY <1>2, <2>1, <2>2, <2>3
       DEF Forget, Goto, TInv, TypeOK, Working, IsBranch
  <2>5. KeysOK'
    BY <1>2, <2>1, <2>2
       DEF Forget, Goto, Paused, TInv, TypeOK, KeysOK, Keyed
  <2> QED
    BY <2>3, <2>4, <2>5 DEF TInv
<1>3. ASSUME NEW c \in sent, Duplicate(c)
      PROVE  TInv'
  <2>1. TypeOK'
    BY <1>3, BranchesAssumption
       DEF Duplicate, TInv, TypeOK
  <2>2. Working'
    BY <1>3
       DEF Duplicate, TInv, TypeOK, Working, IsBranch
  <2>3. KeysOK'
    BY <1>3
       DEF Duplicate, TInv, TypeOK, KeysOK, Keyed
  <2> QED
    BY <2>1, <2>2, <2>3 DEF TInv
<1>4. ASSUME NEW c \in Command, Send(c)
      PROVE  TInv'
  <2>1. TypeOK'
    BY <1>4
       DEF Send, TInv, TypeOK
  <2>2. Working'
    BY <1>4
       DEF Send, TInv, TypeOK, Working, IsBranch
  <2>3. KeysOK'
    BY <1>4
       DEF Send, TInv, TypeOK, KeysOK, Keyed
  <2> QED
    BY <2>1, <2>2, <2>3 DEF TInv
<1>5. ASSUME NEW w \in Worker, LookupItem(w)
      PROVE  TInv'
  <2>1. Holds(w)
    BY <1>5, AtWork DEF LookupItem
  <2>2. IsBranch(w)
    BY <1>5 DEF LookupItem, TInv, Working
  <2>3. checkpoint.map_items_by_key[Branch(w)] \in Item
    BY <2>1, <2>2 DEF Checkpoint
  <2>4. TypeOK'
    BY <1>5, <2>1, <2>2, <2>3
       DEF LookupItem, Goto, TInv, TypeOK
  <2>5. Working'
    BY <1>5, <2>1, <2>2, <2>3
       DEF LookupItem, Goto, TInv, TypeOK, Working, IsBranch
  <2>6. KeysOK'
    BY <1>5, <2>1, <2>2, <2>3
       DEF LookupItem, Goto, TInv, TypeOK, KeysOK, Keyed
  <2> QED
    BY <2>4, <2>5, <2>6 DEF TInv
<1>6. ASSUME NEW w \in Worker, RestoreItem(w)
      PROVE  TInv'
  <2>1. Holds(w)
    BY <1>6, AtWork DEF RestoreItem
  <2>2. IsBranch(w)
    BY <1>6 DEF RestoreItem, TInv, Working
  <2>3. checkpoint' \in Checkpoint
    BY <1>6, <2>1, <2>2, UpdateType DEF RestoreItem
  <2>4. TypeOK'
    BY <1>6, <2>1, <2>2, <2>3
       DEF RestoreItem, Goto, TInv, TypeOK
  <2>5. Working'
    BY <1>6, <2>1, <2>2, <2>3
       DEF RestoreItem, Goto, TInv, TypeOK, Working, IsBranch
  <2>6. KeysOK'
    BY <1>6, <2>1, <2>2, <2>3
       DEF RestoreItem, Goto, Checkpoint, TInv, TypeOK, KeysOK, Keyed
  <2> QED
    BY <2>4, <2>5, <2>6 DEF TInv
<1>7. ASSUME NEW w \in Worker, Snapshot(w)
      PROVE  TInv'
  <2>1. Holds(w)
    BY <1>7, AtWork DEF Snapshot
  <2>2. TypeOK'
    BY <1>7, <2>1
       DEF Snapshot, Goto, TInv, TypeOK
  <2>3. Working'
    BY <1>7, <2>1
       DEF Snapshot, Goto, TInv, TypeOK, Working, IsBranch
  <2>4. KeysOK'
    BY <1>7, <2>1
       DEF Snapshot, Goto, TInv, TypeOK, KeysOK, Keyed
  <2> QED
    BY <2>2, <2>3, <2>4 DEF TInv
<1>8. ASSUME NEW w \in Worker, Mark(w)
      PROVE  TInv'
  <2>1. Holds(w)
    BY <1>8, AtWork DEF Mark
  <2>2. checkpoint' \in Checkpoint
    BY <1>8, <2>1, CommandFields DEF Mark, Checkpoint
  <2>3. TypeOK'
    BY <1>8, <2>1, <2>2
       DEF Mark, Goto, TInv, TypeOK
  <2>4. Working'
    BY <1>8, <2>1, <2>2
       DEF Mark, Goto, TInv, TypeOK, Working, IsBranch
  <2>5. KeysOK'
    BY <1>8, <2>1, <2>2
       DEF Mark, Goto, Checkpoint, TInv, TypeOK, KeysOK, Keyed
  <2> QED
    BY <2>3, <2>4, <2>5 DEF TInv
<1>9. ASSUME NEW w \in Worker, MergeItem(w)
      PROVE  TInv'
  <2>1. Holds(w)
    BY <1>9, AtWork DEF MergeItem
  <2>2. IsBranch(w)
    BY <1>9 DEF MergeItem, TInv, Working
  <2>3. MergedItem(w) \in Item
    BY <2>1, <2>2, MergeLemma DEF MergedItem, ExistingItem, Checkpoint
  <2>4. checkpoint' \in Checkpoint
    BY <1>9, <2>1, <2>2, <2>3, UpdateType DEF MergeItem
  <2>5. TypeOK'
    BY <1>9, <2>1, <2>2, <2>3, <2>4
       DEF MergeItem, Goto, TInv, TypeOK
  <2>6. Working'
    BY <1>9, <2>1, <2>2, <2>3, <2>4
       DEF MergeItem, Goto, TInv, TypeOK, Working, IsBranch
  <2>7. KeysOK'
    BY <1>9, <2>1, <2>2, <2>3, <2>4
       DEF MergeItem, Goto, Checkpoint, TInv, TypeOK, KeysOK, Keyed
  <2> QED
    BY <2>5, <2>6, <2>7 DEF TInv
<1>10. ASSUME NEW w \in Worker, PersistItem(w)
      PROVE  TInv'
  <2>1. Holds(w)
    BY <1>10, AtWork DEF PersistItem
  <2>2. IsBranch(w)
    BY <1>10 DEF PersistItem, TInv, Working
  <2>3. checkpoint' \in Checkpoint
    BY <1>10, <2>1, <2>2, UpdateType DEF PersistItem
  <2>4. TypeOK'
    BY <1>10, <2>1, <2>2, <2>3
       DEF PersistItem, Goto, TInv, TypeOK
  <2>5. Working'
    BY <1>10, <2>1, <2>2, <2>3
       DEF PersistItem, Goto, TInv, TypeOK, Working, IsBranch
  <2>6. KeysOK'
    BY <1>10, <2>1, <2>2, <2>3
       DEF PersistItem, Goto, Checkpoint, TInv, TypeOK, KeysOK, Keyed
  <2> QED
    BY <2>4, <2>5, <2>6 DEF TInv
<1>11. ASSUME NEW w \in Worker, ReadList(w)
      PROVE  TInv'
  <2>1. Holds(w)
    BY <1>11, AtWork DEF ReadList
  <2>2. TypeOK'
    BY <1>11, <2>1
       DEF ReadList, Goto, TInv, TypeOK
  <2>3. Working'
    BY <1>11, <2>1
       DEF ReadList, Goto, TInv, TypeOK, Working, IsBranch
  <2>4. KeysOK'
    BY <1>11, <2>1
       DEF ReadList, Goto, TInv, TypeOK, KeysOK, Keyed
  <2> QED
    BY <2>2, <2>3, <2>4 DEF TInv
<1>12. ASSUME NEW w \in Worker, WriteList(w)
      PROVE  TInv'
  <2>1. Holds(w)
    BY <1>12, AtWork DEF WriteList
  <2>2. IsBranch(w)
    BY <1>12 DEF WriteList, TInv, Working
  <2>3. ListWithPayload(w) \in [Key -> Item]
    BY <2>1, <2>2, MergeLemma, UpdateType DEF ListWithPayload, Checkpoint
  <2>4. checkpoint' \in Checkpoint
    BY <1>12, <2>1, <2>3 DEF WriteList, Checkpoint
  <2>5. TypeOK'
    BY <1>12, <2>1, <2>2, <2>3, <2>4
       DEF WriteList, Goto, TInv, TypeOK
  <2>6. Working'
    BY <1>12, <2>1, <2>2, <2>3, <2>4
       DEF WriteList, Goto, TInv, TypeOK, Working, IsBranch
  <2>7. KeysOK'
    BY <1>12, <2>1, <2>2, <2>3, <2>4
       DEF WriteList, Goto, Checkpoint, TInv, TypeOK, KeysOK, Keyed
  <2> QED
    BY <2>5, <2>6, <2>7 DEF TInv
<1>13. ASSUME NEW w \in Worker, ReadData(w)
      PROVE  TInv'
  <2>1. Holds(w)
    BY <1>13, AtWork DEF ReadData
  <2>2. TypeOK'
    BY <1>13, <2>1
       DEF ReadData, Goto, TInv, TypeOK
  <2>3. Working'
    BY <1>13, <2>1
       DEF ReadData, Goto, TInv, TypeOK, Working, IsBranch
  <2>4. KeysOK'
    BY <1>13, <2>1
       DEF ReadData, Goto, TInv, TypeOK, KeysOK, Keyed
  <2> QED
    BY <2>2, <2>3, <2>4 DEF TInv
<1>14. ASSUME NEW w \in Worker, Apply(w)
      PROVE  TInv'
  <2>1. Holds(w)
    BY <1>14, AtWork DEF Apply
  <2>2. Merge(checkpoint.current_map_item, mem[w].current_map_item) \in Item
    BY <2>1, MergeLemma DEF Checkpoint
  <2>3. (IF IsBranch(w) THEN mem[w].packs ELSE NewList) \in [Key -> Item]
    BY <2>1, NewListType DEF Checkpoint
  <2>4. checkpoint' \in Checkpoint /\ Keyed(checkpoint')
    BY <1>14, <2>1, <2>2, <2>3, EdgeType DEF Apply, Checkpoint, Keyed
  <2>5. TypeOK'
    BY <1>14, <2>1, <2>2, <2>3, <2>4
       DEF Apply, Goto, TInv, TypeOK
  <2>6. Working'
    BY <1>14, <2>1, <2>2, <2>3, <2>4
       DEF Apply, Goto, TInv, TypeOK, Working, IsBranch
  <2>7. KeysOK'
    BY <1>14, <2>1, <2>2, <2>3, <2>4
       DEF Apply, Goto, TInv, TypeOK, KeysOK, Keyed
  <2> QED
    BY <2>5, <2>6, <2>7 DEF TInv
<1>15. ASSUME NEW w \in Worker, LoadForInvoke(w)
      PROVE  TInv'
  <2>1. Holds(w)
    BY <1>15, AtWork DEF LoadForInvoke
  <2>2. TypeOK'
    BY <1>15, <2>1
       DEF LoadForInvoke, Goto, TInv, TypeOK
  <2>3. Working'
    BY <1>15, <2>1
       DEF LoadForInvoke, Goto, TInv, TypeOK, Working, IsBranch
  <2>4. KeysOK'
    BY <1>15, <2>1
       DEF LoadForInvoke, Goto, TInv, TypeOK, KeysOK, Keyed
  <2> QED
    BY <2>2, <2>3, <2>4 DEF TInv
<1>16. ASSUME NEW w \in Worker, RegisterBranches(w)
      PROVE  TInv'
  <2>1. Holds(w)
    BY <1>16, AtWork DEF RegisterBranches, Running
  <2>2. /\ Put(w, checkpoint')
        /\ checkpoint' \in Checkpoint /\ Keyed(checkpoint')
    BY <1>16, <2>1, RegisteredType, ItemsLemma
       DEF RegisterBranches, Running, Put, Keyed, Checkpoint
  <2>3. TypeOK'
    BY <1>16, <2>1, <2>2
       DEF Put, TInv, TypeOK
  <2>4. Working'
    BY <1>16, <2>1, <2>2
       DEF Put, TInv, TypeOK, Working, IsBranch
  <2>5. KeysOK'
    BY <1>16, <2>1, <2>2
       DEF Put, TInv, TypeOK, KeysOK, Keyed
  <2> QED
    BY <2>3, <2>4, <2>5 DEF TInv
<1>17. ASSUME NEW w \in Worker, RunSubmit(w)
      PROVE  TInv'
  <2>1. Holds(w)
    BY <1>17, AtWork DEF RunSubmit, Running
  <2>2. requests' \in Seq(Request) /\ Len(requests') = Len(requests) + 1
    BY <1>17, <2>1 DEF RunSubmit, Running, Request, Checkpoint, TInv, TypeOK
  <2>3. \A j \in DOMAIN requests' : requests'[j].branch \in Range(Items)
    BY <1>17, <2>1, <2>2 DEF RunSubmit, Running, TInv, TypeOK, KeysOK, Keyed
  <2>4. TypeOK'
    BY <1>17, <2>1, <2>2, <2>3
       DEF RunSubmit, Running, AfterInvoke, Goto, TInv, TypeOK
  <2>5. Working'
    BY <1>17, <2>1, <2>2, <2>3
       DEF RunSubmit, Running, AfterInvoke, Goto, TInv, TypeOK, Working, IsBranch
  <2>6. KeysOK'
    BY <1>17, <2>1, <2>2, <2>3
       DEF RunSubmit, AfterInvoke, Goto, TInv, TypeOK, KeysOK, Keyed
  <2> QED
    BY <2>4, <2>5, <2>6 DEF TInv
<1>18. ASSUME NEW w \in Worker, RunStops(w)
      PROVE  TInv'
  <2>1. Holds(w)
    BY <1>18, AtWork DEF RunStops
  <2>2. TypeOK'
    BY <1>18, <2>1
       DEF RunStops, AfterInvoke, Goto, TInv, TypeOK
  <2>3. Working'
    BY <1>18, <2>1
       DEF RunStops, AfterInvoke, Goto, TInv, TypeOK, Working, IsBranch
  <2>4. KeysOK'
    BY <1>18, <2>1
       DEF RunStops, AfterInvoke, Goto, TInv, TypeOK, KeysOK, Keyed
  <2> QED
    BY <2>2, <2>3, <2>4 DEF TInv
<1>19. ASSUME NEW w \in Worker, RunEndBranch(w)
      PROVE  TInv'
  <2>1. Holds(w)
    BY <1>19, AtWork DEF RunEndBranch, Running
  <2>2. /\ Put(w, checkpoint')
        /\ checkpoint' \in Checkpoint /\ Keyed(checkpoint')
    BY <1>19, <2>1 DEF RunEndBranch, Running, Put, Keyed, Checkpoint, Node
  <2>3. TypeOK'
    BY <1>19, <2>1, <2>2
       DEF Put, TInv, TypeOK
  <2>4. Working'
    BY <1>19, <2>1, <2>2
       DEF Put, TInv, TypeOK, Working, IsBranch
  <2>5. KeysOK'
    BY <1>19, <2>1, <2>2
       DEF Put, TInv, TypeOK, KeysOK, Keyed
  <2> QED
    BY <2>3, <2>4, <2>5 DEF TInv
<1>20. ASSUME NEW w \in Worker, JoinPasses(w)
      PROVE  TInv'
  <2>1. Holds(w)
    BY <1>20, AtWork DEF JoinPasses, Running
  <2>2. /\ Put(w, checkpoint')
        /\ checkpoint' \in Checkpoint /\ Keyed(checkpoint')
    BY <1>20, <2>1 DEF JoinPasses, Running, Put, Keyed, Checkpoint, Node
  <2>3. TypeOK'
    BY <1>20, <2>1, <2>2
       DEF Put, TInv, TypeOK
  <2>4. Working'
    BY <1>20, <2>1, <2>2
       DEF Put, TInv, TypeOK, Working, IsBranch
  <2>5. KeysOK'
    BY <1>20, <2>1, <2>2
       DEF Put, TInv, TypeOK, KeysOK, Keyed
  <2> QED
    BY <2>3, <2>4, <2>5 DEF TInv
<1>21. ASSUME NEW w \in Worker, RunHandleError(w)
      PROVE  TInv'
  <2>1. Holds(w)
    BY <1>21, AtWork DEF RunHandleError, Running
  <2>2. /\ Put(w, checkpoint')
        /\ checkpoint' \in Checkpoint /\ Keyed(checkpoint')
    BY <1>21, <2>1 DEF RunHandleError, Running, Put, Keyed, Checkpoint, Node
  <2>3. TypeOK'
    BY <1>21, <2>1, <2>2
       DEF Put, TInv, TypeOK
  <2>4. Working'
    BY <1>21, <2>1, <2>2
       DEF Put, TInv, TypeOK, Working, IsBranch
  <2>5. KeysOK'
    BY <1>21, <2>1, <2>2
       DEF Put, TInv, TypeOK, KeysOK, Keyed
  <2> QED
    BY <2>3, <2>4, <2>5 DEF TInv
<1>22. ASSUME NEW w \in Worker, RunEnd(w)
      PROVE  TInv'
  <2>1. Holds(w)
    BY <1>22, AtWork DEF RunEnd, Running
  <2>2. /\ Put(w, checkpoint')
        /\ checkpoint' \in Checkpoint /\ Keyed(checkpoint')
    BY <1>22, <2>1 DEF RunEnd, Running, Put, Keyed, Checkpoint, Node
  <2>3. TypeOK'
    BY <1>22, <2>1, <2>2
       DEF Put, TInv, TypeOK
  <2>4. Working'
    BY <1>22, <2>1, <2>2
       DEF Put, TInv, TypeOK, Working, IsBranch
  <2>5. KeysOK'
    BY <1>22, <2>1, <2>2
       DEF Put, TInv, TypeOK, KeysOK, Keyed
  <2> QED
    BY <2>3, <2>4, <2>5 DEF TInv
<1>23. ASSUME NEW w \in Worker, DrainRead(w)
      PROVE  TInv'
  <2>1. Holds(w)
    BY <1>23, AtWork DEF DrainRead
  <2>2. TypeOK'
    BY <1>23, <2>1, ItemsLemma
       DEF DrainRead, Goto, TInv, TypeOK
  <2>3. Working'
    BY <1>23, <2>1
       DEF DrainRead, Goto, TInv, TypeOK, Working, IsBranch
  <2>4. KeysOK'
    BY <1>23, <2>1
       DEF DrainRead, Goto, TInv, TypeOK, KeysOK, Keyed
  <2> QED
    BY <2>2, <2>3, <2>4 DEF TInv
<1>24. ASSUME NEW w \in Worker, PersistInFlight(w)
      PROVE  TInv'
  <2>1. Holds(w)
    BY <1>24, AtWork DEF PersistInFlight
  <2>2. InFlight(w) \in Key \cup {NoKey}
    BY <2>1 DEF InFlight, Checkpoint, Item, Field
  <2>3. mem[w].current_map_item \in Item
    BY <2>1 DEF Checkpoint
  <2>4. checkpoint' \in Checkpoint
    BY <1>24, <2>1, <2>2, <2>3, UpdateType DEF PersistInFlight
  <2>5. TypeOK'
    BY <1>24, <2>1, <2>2, <2>3, <2>4
       DEF PersistInFlight, Goto, TInv, TypeOK
  <2>6. Working'
    BY <1>24, <2>1, <2>2, <2>3, <2>4
       DEF PersistInFlight, Goto, TInv, TypeOK, Working, IsBranch
  <2>7. KeysOK'
    BY <1>24, <2>1, <2>2, <2>3, <2>4
       DEF PersistInFlight, Goto, Checkpoint, TInv, TypeOK, KeysOK, Keyed
  <2> QED
    BY <2>5, <2>6, <2>7 DEF TInv
<1>25. ASSUME NEW w \in Worker, DrainSkip(w)
      PROVE  TInv'
  <2>1. Holds(w)
    BY <1>25, AtWork DEF DrainSkip
  <2>2. TypeOK'
    BY <1>25, <2>1
       DEF DrainSkip, TInv, TypeOK
  <2>3. Working'
    BY <1>25, <2>1
       DEF DrainSkip, TInv, TypeOK, Working, IsBranch
  <2>4. KeysOK'
    BY <1>25, <2>1
       DEF DrainSkip, TInv, TypeOK, KeysOK, Keyed
  <2> QED
    BY <2>2, <2>3, <2>4 DEF TInv
<1>26. ASSUME NEW w \in Worker, DrainPersist(w)
      PROVE  TInv'
  <2>1. Holds(w)
    BY <1>26, AtWork DEF DrainPersist
  <2>2. Head(todo[w]) \in Range(Items) /\ Head(todo[w]) \in Key
    BY <1>26, <2>1, ItemsLemma DEF DrainPersist
  <2>3. mem[w].packs[Head(todo[w])] \in Item
    BY <2>1, <2>2 DEF Checkpoint
  <2>4. checkpoint' \in Checkpoint
    BY <1>26, <2>1, <2>2, <2>3, UpdateType DEF DrainPersist
  <2>5. TypeOK'
    BY <1>26, <2>1, <2>2, <2>3, <2>4
       DEF DrainPersist, Goto, TInv, TypeOK
  <2>6. Working'
    BY <1>26, <2>1, <2>2, <2>3, <2>4
       DEF DrainPersist, Goto, TInv, TypeOK, Working, IsBranch
  <2>7. KeysOK'
    BY <1>26, <2>1, <2>2, <2>3, <2>4
       DEF DrainPersist, Goto, Checkpoint, TInv, TypeOK, KeysOK, Keyed
  <2> QED
    BY <2>5, <2>6, <2>7 DEF TInv
<1>27. ASSUME NEW w \in Worker, DrainSend(w)
      PROVE  TInv'
  <2>1. Holds(w)
    BY <1>27, AtWork DEF DrainSend
  <2>2. Head(todo[w]) \in Range(Items) /\ Head(todo[w]) \in Key
    BY <1>27, <2>1, ItemsLemma DEF DrainSend, TInv, Working
  <2>3. requests' \in Seq(Request) /\ Len(requests') = Len(requests) + 1
    BY <1>27, <2>1, <2>2
       DEF DrainSend, DrainRequest, Request, Checkpoint, TInv, TypeOK
  <2>4. \A j \in DOMAIN requests' : requests'[j].branch \in Range(Items)
    BY <1>27, <2>1, <2>2, <2>3 DEF DrainSend, DrainRequest, TInv, TypeOK, KeysOK
  <2>5. TypeOK'
    BY <1>27, <2>1, <2>2, <2>3, <2>4
       DEF DrainSend, Goto, TInv, TypeOK
  <2>6. Working'
    BY <1>27, <2>1, <2>2, <2>3, <2>4
       DEF DrainSend, Goto, TInv, TypeOK, Working, IsBranch
  <2>7. KeysOK'
    BY <1>27, <2>1, <2>2, <2>3, <2>4
       DEF DrainSend, Goto, TInv, TypeOK, KeysOK, Keyed
  <2> QED
    BY <2>5, <2>6, <2>7 DEF TInv
<1>28. ASSUME NEW w \in Worker, DrainMark(w)
      PROVE  TInv'
  <2>1. Holds(w)
    BY <1>28, AtWork DEF DrainMark
  <2>2. Head(todo[w]) \in Range(Items) /\ Head(todo[w]) \in Key
    BY <1>28, <2>1, ItemsLemma DEF DrainMark, TInv, Working
  <2>3. checkpoint' \in Checkpoint
    BY <1>28, <2>1, <2>2 DEF DrainMark, Checkpoint
  <2>4. Tail(todo[w]) \in Seq(Range(Items))
    BY <1>28, <2>1 DEF DrainMark, TInv, Working
  <2>5. TypeOK'
    BY <1>28, <2>1, <2>2, <2>3, <2>4
       DEF DrainMark, Goto, TInv, TypeOK
  <2>6. Working'
    BY <1>28, <2>1, <2>2, <2>3, <2>4
       DEF DrainMark, Goto, TInv, TypeOK, Working, IsBranch
  <2>7. KeysOK'
    BY <1>28, <2>1, <2>2, <2>3, <2>4
       DEF DrainMark, Goto, Checkpoint, TInv, TypeOK, KeysOK, Keyed
  <2> QED
    BY <2>5, <2>6, <2>7 DEF TInv
<1>29. ASSUME NEW w \in Worker, DrainDone(w)
      PROVE  TInv'
  <2>1. Holds(w)
    BY <1>29, AtWork DEF DrainDone
  <2>2. TypeOK'
    BY <1>29, <2>1
       DEF DrainDone, Goto, TInv, TypeOK
  <2>3. Working'
    BY <1>29, <2>1
       DEF DrainDone, Goto, TInv, TypeOK, Working, IsBranch
  <2>4. KeysOK'
    BY <1>29, <2>1
       DEF DrainDone, Goto, TInv, TypeOK, KeysOK, Keyed
  <2> QED
    BY <2>2, <2>3, <2>4 DEF TInv
<1>30. ASSUME NEW j \in DOMAIN requests, CapabilityAnswers(j)
      PROVE  TInv'
  <2>1. j \in Nat \ {0} /\ requests[j].branch \in Key
    BY ItemsLemma DEF TInv, TypeOK, KeysOK
  <2>2. PICK outcome \in {"SUCCESS", "ERROR"} :
          Send([type |-> "ASYNC_RESP", branch |-> requests[j].branch,
                in_reply_to |-> j, outcome |-> outcome])
    BY <1>30 DEF CapabilityAnswers
  <2> QED
    BY <1>4, <2>1, <2>2 DEF Command, BranchAnswer
<1>31. ASSUME NEW k \in Key, CustomsReports(k)
      PROVE  TInv'
  <2>1. PICK outcome \in Reports :
          Send([type |-> "EVENT_WAIT_RESP", branch |-> k, in_reply_to |-> 0,
                outcome |-> outcome])
    BY <1>31 DEF CustomsReports
  <2> QED
    BY <1>4, <2>1, BranchesAssumption DEF Command, BranchEvent
<1>32. CASE UNCHANGED vars
  BY <1>32 DEF vars, TInv, TypeOK, Working, IsBranch, KeysOK, Keyed
<1> QED
  BY <1>1, <1>2, <1>3, <1>4, <1>5, <1>6, <1>7, <1>8, <1>9, <1>10, <1>11, <1>12,
     <1>13, <1>14, <1>15, <1>16, <1>17, <1>18, <1>19, <1>20, <1>21, <1>22, <1>23,
     <1>24, <1>25, <1>26, <1>27, <1>28, <1>29, <1>30, <1>31, <1>32
     DEF Next, Environment, Handle, Respond, Run, Drain

\* The machine keeps its types, and every request, of the graph or of the drain,
\* is in the name of a branch of the list.
LEMMA TInvInvariant == Spec => []TInv
<1>1. Init => TInv
  <2> SUFFICES ASSUME Init
               PROVE  TInv
    OBVIOUS
  <2>1. TypeOK
    BY PausedType, EmptyLemma, BranchesAssumption DEF Init, TypeOK, Command
  <2> QED
    BY <2>1 DEF Init, TInv, Working, KeysOK, Keyed, Paused
<1> QED
  BY <1>1, TInvStep, PTL DEF Spec

\* Every variable keeps to its type: whatever the reducers make of the items, a
\* checkpoint stays one, and the drain only walks over branches of the list.
THEOREM BranchesTypeCorrect == Spec => []TypeOK
BY TInvInvariant, PTL DEF TInv

-----------------------------------------------------------------------------
(* The list holds own data only.                                           *)

OwnPacks(c) == \A k \in Key, f \in Field : c.packs[k][f] \in {NoKey, k}

\* A container's copy of the list may be old, but it is one the checkpoint had.
OwnInv == OwnPacks(checkpoint) /\ \A w \in Worker : OwnPacks(mem[w])

\* A payload only goes into the entry of the branch that sent it.
LEMMA OwnList ==
  ASSUME TInv, NEW w \in Worker, pc[w] # "idle", IsBranch(w), OwnPacks(mem[w])
  PROVE  \A k \in Key, f \in Field : ListWithPayload(w)[k][f] \in {NoKey, k}
<1>1. Branch(w) \in Key /\ Payload(job[w]) \in Item /\ mem[w] \in Checkpoint
  BY AtWork
<1>2. \A f \in Field : Payload(job[w])[f] \in {NoKey, Branch(w)}
  BY <1>1 DEF Payload, Empty, Branch, Field
<1>3. \A k \in Key : ListWithPayload(w)[k] =
        IF k = Branch(w) THEN Merge(mem[w].packs[k], Payload(job[w]))
                         ELSE mem[w].packs[k]
  BY <1>1 DEF ListWithPayload, Checkpoint
<1>4. \A k \in Key : mem[w].packs[k] \in Item
  BY <1>1 DEF Checkpoint
<1>5. \A f \in Field : Merge(mem[w].packs[Branch(w)], Payload(job[w]))[f]
                         \in {NoKey, Branch(w)}
  BY <1>1, <1>2, <1>4, MergeLemma DEF OwnPacks
<1> QED
  BY <1>3, <1>5 DEF OwnPacks

\* Apart from the two actions that write the list, a step leaves it alone or puts
\* one a container read before.
LEMMA ListStep ==
  ASSUME TInv, NEW w \in Worker, Handle(w) \/ Crash(w), ~ WriteList(w), ~ Apply(w)
  PROVE  /\ checkpoint'.packs \in {checkpoint.packs, mem[w].packs}
         /\ \A v \in Worker :
              mem'[v].packs \in {checkpoint.packs, mem[v].packs, Paused.packs}
<1>1. checkpoint \in Checkpoint /\ mem \in [Worker -> Checkpoint]
  BY DEF TInv, TypeOK
<1>2. CASE Receive(w) \/ Finish(w) \/ Crash(w)
  BY <1>1, <1>2 DEF Receive, Finish, Crash, Forget
<1>3. CASE \/ LookupItem(w) \/ RestoreItem(w) \/ Snapshot(w) \/ Mark(w)
           \/ MergeItem(w) \/ PersistItem(w) \/ ReadList(w) \/ ReadData(w)
           \/ LoadForInvoke(w)
  BY <1>1, <1>3 DEF LookupItem, RestoreItem, Snapshot, Mark, MergeItem, PersistItem,
                    ReadList, ReadData, LoadForInvoke, Checkpoint
<1>4. CASE Run(w)
  <2>1. CASE RunSubmit(w) \/ RunStops(w)
    BY <1>1, <2>1 DEF RunSubmit, RunStops
  <2>2. CASE RegisterBranches(w)
    BY <1>1, <2>2 DEF RegisterBranches, Put, Checkpoint
  <2>3. CASE RunEndBranch(w)
    BY <1>1, <2>3 DEF RunEndBranch, Put, Checkpoint
  <2>4. CASE JoinPasses(w)
    BY <1>1, <2>4 DEF JoinPasses, Put, Checkpoint
  <2>5. CASE RunHandleError(w)
    BY <1>1, <2>5 DEF RunHandleError, Put, Checkpoint
  <2>6. CASE RunEnd(w)
    BY <1>1, <2>6 DEF RunEnd, Put, Checkpoint
  <2> QED
    BY <1>4, <2>1, <2>2, <2>3, <2>4, <2>5, <2>6 DEF Run
<1>5. CASE Drain(w)
  BY <1>1, <1>5 DEF Drain, DrainRead, PersistInFlight, DrainSkip, DrainPersist,
                    DrainSend, DrainMark, DrainDone, Checkpoint
<1> QED
  BY <1>2, <1>3, <1>4, <1>5 DEF Handle, Respond

\* Every step keeps the lists, on the table and in the containers, their own.
LEMMA OwnStep ==
  ASSUME TInv, OwnInv, [Next]_vars
  PROVE  OwnInv'
<1> USE DEF world
<1>1. checkpoint \in Checkpoint /\ mem \in [Worker -> Checkpoint]
  BY DEF TInv, TypeOK
<1>2. OwnPacks(Paused)
  BY DEF OwnPacks, Paused, Empty
<1>3. CASE Environment
  BY <1>3 DEF Environment, CapabilityAnswers, CustomsReports, Duplicate, Send,
              OwnInv, OwnPacks
<1>4. ASSUME NEW w \in Worker, WriteList(w)
      PROVE  OwnInv'
  <2>1. pc[w] # "idle" /\ IsBranch(w)
    BY <1>4 DEF WriteList, TInv, Working
  <2>2. checkpoint'.packs = ListWithPayload(w) /\ mem' = mem
    BY <1>1, <1>4 DEF WriteList, Checkpoint
  <2> QED
    BY <2>1, <2>2, OwnList DEF OwnInv, OwnPacks
<1>5. ASSUME NEW w \in Worker, Apply(w)
      PROVE  OwnInv'
  <2>1. /\ checkpoint'.packs = IF IsBranch(w) THEN mem[w].packs ELSE NewList
        /\ mem' = mem
    BY <1>1, <1>5 DEF Apply, Checkpoint
  <2>2. \A k \in Key, f \in Field : NewList[k][f] \in {NoKey, k}
    BY EmptyLemma DEF NewList
  <2> QED
    BY <2>1, <2>2 DEF OwnInv, OwnPacks
<1>6. ASSUME NEW w \in Worker, Handle(w) \/ Crash(w), ~ WriteList(w), ~ Apply(w)
      PROVE  OwnInv'
  BY <1>2, <1>6, ListStep DEF OwnInv, OwnPacks
<1>7. CASE UNCHANGED vars
  BY <1>7 DEF vars, OwnInv, OwnPacks
<1> QED
  BY <1>3, <1>4, <1>5, <1>6, <1>7 DEF Next

\* However many containers write the list, an entry of it only ever holds values
\* of its own branch's item and responses.
THEOREM OwnDataInList == Spec => []ListHoldsOwnData
<1>1. Init => OwnInv
  BY DEF Init, OwnInv, OwnPacks, Paused, Empty
<1>2. OwnInv => ListHoldsOwnData
  BY DEF OwnInv, OwnPacks, ListHoldsOwnData
<1> QED
  BY <1>1, <1>2, OwnStep, TInvInvariant, PTL DEF Spec

-----------------------------------------------------------------------------
(* Every request's branch is registered.                                   *)

Unregistered == {"Create_Filing_Packs", "Submit_Import_Filing_Fork"}
Draining     == {"drain", "inFlight", "drainItem", "drainSend", "drainMark"}
Merging      == {"mark", "merge", "persist", "readList", "writeList", "readMirror",
                 "writeMirror", "readData", "apply"}

Listed(c)     == \A k \in Range(Items) : c.packs[k] # Empty
Registered(c) == \A k \in Range(Items) : c.map_items_by_key[k] # Empty

\* What the pending task of a checkpoint says of its data.
GoodCheckpoint(c) ==
  /\ c.next # "Create_Filing_Packs" => Listed(c)
  /\ c.next \notin Unregistered => Registered(c)

\* From here on every branch can be answered, and it stays so.
Started == checkpoint.next # "Create_Filing_Packs" /\ Registered(checkpoint)

RegisteredInv ==
  /\ GoodCheckpoint(checkpoint)
  /\ \A w \in Worker : GoodCheckpoint(mem[w])
  /\ queue \subseteq sent
  /\ \A w \in Worker : pc[w] # "idle" => job[w] \in sent
  /\ requests # <<>> => Started
  /\ \A c \in sent : c.branch # NoKey => Started
  /\ \A w \in Worker : mem[w].next \notin Unregistered => Started
  /\ \A w \in Worker : pc[w] \in Draining => Started
  /\ \A w \in Worker :
       pc[w] \in Merging /\ IsBranch(w) => mem[w].next # "Create_Filing_Packs"

\* An update of the channels that does not touch the graph's position.
Grows(c, d) ==
  /\ d.next = c.next
  /\ Listed(c) => Listed(d)
  /\ Registered(c) => Registered(d)

\* Merging into the item of one branch takes nothing from the others.
LEMMA GrowsLemma ==
  ASSUME NEW c \in Checkpoint, NEW i \in Item, NEW k \in Key
  PROVE  Grows(c, [c EXCEPT !.map_items_by_key[k] = Merge(@, i)])
<1> DEFINE d == [c EXCEPT !.map_items_by_key[k] = Merge(@, i)]
<1>1. /\ d.next = c.next /\ d.packs = c.packs
      /\ d.map_items_by_key[k] = Merge(c.map_items_by_key[k], i)
      /\ \A j \in Key : j # k => d.map_items_by_key[j] = c.map_items_by_key[j]
  BY DEF Checkpoint
<1>2. c.map_items_by_key[k] # Empty => d.map_items_by_key[k] # Empty
  BY <1>1, MergeLemma, UpdateType
<1> QED
  BY <1>1, <1>2, ItemsLemma DEF Grows, Listed, Registered

\* A container that merges a response has the list before it.
LEMMA UpdateSteps ==
  ASSUME TInv, RegisteredInv, NEW w \in Worker,
         \/ RestoreItem(w) \/ Mark(w) \/ MergeItem(w) \/ PersistItem(w) \/ WriteList(w)
         \/ PersistInFlight(w) \/ DrainPersist(w) \/ DrainMark(w)
  PROVE  Grows(checkpoint, checkpoint') /\ mem' = mem
<1>1. /\ pc[w] # "idle" /\ checkpoint \in Checkpoint /\ mem[w] \in Checkpoint
      /\ item[w] \in Item
  BY AtWork DEF TInv, TypeOK, RestoreItem, Mark, MergeItem, PersistItem, WriteList,
                PersistInFlight, DrainPersist, DrainMark
<1>2. CASE RestoreItem(w) \/ Mark(w) \/ MergeItem(w) \/ DrainMark(w)
  BY <1>1, <1>2 DEF RestoreItem, Mark, MergeItem, DrainMark, Checkpoint,
                    Grows, Listed, Registered
<1>3. CASE PersistItem(w)
  <2>1. Branch(w) \in Key
    BY <1>1, <1>3, AtWork DEF PersistItem, TInv, Working
  <2> QED
    BY <1>1, <1>3, <2>1, GrowsLemma DEF PersistItem
<1>4. CASE WriteList(w)
  <2>1. IsBranch(w) /\ Branch(w) \in Key /\ Payload(job[w]) \in Item
    BY <1>1, <1>4, AtWork DEF WriteList, TInv, Working
  <2>2. Listed(mem[w])
    BY <1>4, <2>1 DEF WriteList, RegisteredInv, Merging, GoodCheckpoint
  <2>3. \A k \in Range(Items) : ListWithPayload(w)[k] # Empty
    BY <1>1, <2>1, <2>2, MergeLemma, UpdateType, ItemsLemma
       DEF ListWithPayload, Listed, Checkpoint
  <2>4. /\ checkpoint'.packs = ListWithPayload(w)
        /\ checkpoint'.next = checkpoint.next
        /\ checkpoint'.map_items_by_key = checkpoint.map_items_by_key
    BY <1>1, <1>4 DEF WriteList, Checkpoint
  <2> QED
    BY <1>4, <2>3, <2>4 DEF WriteList, Grows, Listed, Registered
<1>5. CASE PersistInFlight(w)
  <2>1. InFlight(w) \in Key \cup {NoKey} /\ mem[w].current_map_item \in Item
    BY <1>1 DEF InFlight, Checkpoint, Item, Field
  <2>2. Grows(checkpoint, checkpoint)
    BY DEF Grows
  <2> QED
    BY <1>1, <1>5, <2>1, <2>2, GrowsLemma DEF PersistInFlight
<1>6. CASE DrainPersist(w)
  <2>1. Head(todo[w]) \in Key
    BY <1>1, <1>6, AtWork, ItemsLemma DEF DrainPersist
  <2>2. mem[w].packs[Head(todo[w])] \in Item
    BY <1>1, <2>1 DEF Checkpoint
  <2> QED
    BY <1>1, <1>6, <2>1, <2>2, GrowsLemma DEF DrainPersist
<1>7. CASE DrainMark(w)
  BY <1>2, <1>7
<1> QED
  BY <1>2, <1>3, <1>4, <1>5, <1>6

\* What invoke puts has every branch registered: the fork has just done so, or
\* what was loaded had it.
LEMMA PutSteps ==
  ASSUME TInv, RegisteredInv, NEW w \in Worker,
         \/ RegisterBranches(w) \/ RunEndBranch(w) \/ JoinPasses(w)
         \/ RunHandleError(w) \/ RunEnd(w)
  PROVE  /\ GoodCheckpoint(checkpoint') /\ checkpoint'.next \notin Unregistered
         /\ mem' = [mem EXCEPT ![w] = checkpoint']
         /\ UNCHANGED <<pc, job, item, todo, world>>
<1>1. mem[w] \in Checkpoint /\ GoodCheckpoint(mem[w])
  BY DEF TInv, TypeOK, RegisteredInv
<1>2. CASE RegisterBranches(w)
  <2>1. Listed(mem[w])
    BY <1>1, <1>2 DEF RegisterBranches, Running, GoodCheckpoint
  <2>2. \A k \in Key : /\ mem[w].packs[k] \in Item
                       /\ mem[w].map_items_by_key[k] \in Item
    BY <1>1 DEF Checkpoint
  <2>3. /\ checkpoint'.next = "Submit_Import_Filing"
        /\ checkpoint'.packs = mem[w].packs
        /\ \A k \in Key : checkpoint'.map_items_by_key[k] =
                            Merge(mem[w].map_items_by_key[k], mem[w].packs[k])
    BY <1>1, <1>2 DEF RegisterBranches, Put, Checkpoint
  <2>4. Listed(checkpoint') /\ Registered(checkpoint')
    BY <2>1, <2>2, <2>3, MergeLemma, ItemsLemma DEF Listed, Registered
  <2>5. /\ mem' = [mem EXCEPT ![w] = checkpoint']
        /\ UNCHANGED <<pc, job, item, todo, world>>
    BY <1>2 DEF RegisterBranches, Put
  <2> QED
    BY <2>3, <2>4, <2>5 DEF GoodCheckpoint, Unregistered
<1>3. CASE RunEndBranch(w)
  <2>1. /\ checkpoint'.packs = mem[w].packs
        /\ checkpoint'.map_items_by_key = mem[w].map_items_by_key
        /\ checkpoint'.next \notin Unregistered
        /\ mem' = [mem EXCEPT ![w] = checkpoint']
        /\ UNCHANGED <<pc, job, item, todo, world>>
    BY <1>1, <1>3 DEF RunEndBranch, Put, Checkpoint, Unregistered
  <2>2. mem[w].next \notin Unregistered
    BY <1>3 DEF RunEndBranch, Running, Unregistered
  <2> QED
    BY <1>1, <2>1, <2>2 DEF GoodCheckpoint, Listed, Registered, Unregistered
<1>4. CASE JoinPasses(w)
  <2>1. /\ checkpoint'.packs = mem[w].packs
        /\ checkpoint'.map_items_by_key = mem[w].map_items_by_key
        /\ checkpoint'.next \notin Unregistered
        /\ mem' = [mem EXCEPT ![w] = checkpoint']
        /\ UNCHANGED <<pc, job, item, todo, world>>
    BY <1>1, <1>4 DEF JoinPasses, Put, Checkpoint, Unregistered
  <2>2. mem[w].next \notin Unregistered
    BY <1>4 DEF JoinPasses, Running, Unregistered
  <2> QED
    BY <1>1, <2>1, <2>2 DEF GoodCheckpoint, Listed, Registered, Unregistered
<1>5. CASE RunHandleError(w)
  <2>1. /\ checkpoint'.packs = mem[w].packs
        /\ checkpoint'.map_items_by_key = mem[w].map_items_by_key
        /\ checkpoint'.next \notin Unregistered
        /\ mem' = [mem EXCEPT ![w] = checkpoint']
        /\ UNCHANGED <<pc, job, item, todo, world>>
    BY <1>1, <1>5 DEF RunHandleError, Put, Checkpoint, Unregistered
  <2>2. mem[w].next \notin Unregistered
    BY <1>5 DEF RunHandleError, Running, Unregistered
  <2> QED
    BY <1>1, <2>1, <2>2 DEF GoodCheckpoint, Listed, Registered, Unregistered
<1>6. CASE RunEnd(w)
  <2>1. /\ checkpoint'.packs = mem[w].packs
        /\ checkpoint'.map_items_by_key = mem[w].map_items_by_key
        /\ checkpoint'.next \notin Unregistered
        /\ mem' = [mem EXCEPT ![w] = checkpoint']
        /\ UNCHANGED <<pc, job, item, todo, world>>
    BY <1>1, <1>6 DEF RunEnd, Put, Checkpoint, Unregistered
  <2>2. mem[w].next \notin Unregistered
    BY <1>6 DEF RunEnd, Running, Unregistered
  <2> QED
    BY <1>1, <2>1, <2>2 DEF GoodCheckpoint, Listed, Registered, Unregistered
<1> QED
  BY <1>2, <1>3, <1>4, <1>5, <1>6

\* The update that resumes the graph.
LEMMA ApplyStep ==
  ASSUME TInv, RegisteredInv, NEW w \in Worker, Apply(w)
  PROVE  /\ GoodCheckpoint(checkpoint') /\ checkpoint'.next # "Create_Filing_Packs"
         /\ Registered(checkpoint) => Registered(checkpoint')
         /\ mem' = mem
<1>1. /\ pc[w] = "apply" /\ checkpoint \in Checkpoint /\ mem[w] \in Checkpoint
      /\ job[w] \in Command /\ job[w] \in sent /\ GoodCheckpoint(mem[w])
  BY AtWork DEF Apply, RegisteredInv, TInv, TypeOK
<1>2. /\ checkpoint'.next = EdgeOfTransition(job[w])
      /\ checkpoint'.packs = IF IsBranch(w) THEN mem[w].packs ELSE NewList
      /\ checkpoint'.map_items_by_key = checkpoint.map_items_by_key
      /\ mem' = mem
  BY <1>1 DEF Apply, Checkpoint
<1>3. /\ checkpoint'.next # "Create_Filing_Packs"
      /\ checkpoint'.next = "Submit_Import_Filing_Fork" => ~ IsBranch(w)
  BY <1>1, <1>2, EdgeType DEF IsBranch
<1>4. Listed(checkpoint')
  <2>1. CASE IsBranch(w)
    BY <1>1, <1>2, <2>1 DEF RegisteredInv, Merging, GoodCheckpoint, Listed
  <2>2. CASE ~ IsBranch(w)
    BY <1>2, <2>2, EmptyLemma, ItemsLemma DEF Listed, NewList
  <2> QED
    BY <2>1, <2>2
<1>5. checkpoint'.next \notin Unregistered => Registered(checkpoint')
  <2>1. CASE IsBranch(w)
    BY <1>1, <1>2, <2>1 DEF IsBranch, RegisteredInv, Started, Registered
  <2>2. CASE ~ IsBranch(w)
    <3>1. job[w].branch = NoKey /\ job[w].outcome = "SUCCESS"
      BY <1>1, <2>2, BranchesAssumption
         DEF IsBranch, Command, CreateAnswer, BranchAnswer, BranchEvent
    <3>2. checkpoint'.next = "Submit_Import_Filing_Fork"
      BY <1>2, <3>1 DEF EdgeOfTransition
    <3> QED
      BY <3>2 DEF Unregistered
  <2> QED
    BY <2>1, <2>2
<1> QED
  BY <1>2, <1>3, <1>4, <1>5 DEF GoodCheckpoint, Registered

\* A container that reads the checkpoint learns no more than it says.
LEMMA ReadLemma ==
  ASSUME RegisteredInv
  PROVE  /\ checkpoint.next \notin Unregistered => Started
         /\ \A w \in Worker : pc[w] # "idle" /\ IsBranch(w) => Started
BY DEF RegisteredInv, GoodCheckpoint, Started, Unregistered, IsBranch

\* Every step keeps all branches registered once they are.
LEMMA RegisteredStep ==
  ASSUME TInv, RegisteredInv, [Next]_vars
  PROVE  RegisteredInv'
<1> USE DEF world
<1>1. checkpoint \in Checkpoint /\ mem \in [Worker -> Checkpoint]
  BY DEF TInv, TypeOK
<1>2. ASSUME NEW w \in Worker, Receive(w)
      PROVE  RegisteredInv'
  BY <1>2
     DEF Receive, Goto, RegisteredInv, GoodCheckpoint, Started, Registered, Listed,
         Draining, Merging, IsBranch, TInv, TypeOK
<1>3. ASSUME NEW w \in Worker, Finish(w) \/ Crash(w)
      PROVE  RegisteredInv'
  <2>1. /\ Forget(w) /\ checkpoint' = checkpoint /\ sent' = sent
        /\ requests' = requests /\ queue' \subseteq sent'
    BY <1>3 DEF Finish, Crash, RegisteredInv
  <2>2. mem' = [mem EXCEPT ![w] = Paused] /\ Paused.next = "Create_Filing_Packs"
    BY <2>1 DEF Forget, Paused
  <2> QED
    BY <1>1, <2>1, <2>2
       DEF Forget, Goto, RegisteredInv, GoodCheckpoint, Started, Registered,
           Listed, Unregistered, Draining, Merging, IsBranch,
           TInv, TypeOK
<1>4. CASE Environment
  <2>1. ASSUME NEW c \in sent, Duplicate(c)
        PROVE  RegisteredInv'
    BY <2>1
       DEF Duplicate, RegisteredInv, GoodCheckpoint, Started, Registered, Listed,
           IsBranch
  <2>2. ASSUME NEW i \in DOMAIN requests, CapabilityAnswers(i)
        PROVE  RegisteredInv'
    <3>1. requests # <<>>
      BY DEF TInv, TypeOK
    <3> QED
      BY <2>2, <3>1
         DEF CapabilityAnswers, Send, RegisteredInv, GoodCheckpoint, Started,
             Registered, Listed, IsBranch
  <2>3. ASSUME NEW k \in Key, CustomsReports(k)
        PROVE  RegisteredInv'
    <3>1. \E c \in sent : c.branch # NoKey
      BY <2>3, BranchesAssumption DEF CustomsReports
    <3> QED
      BY <2>3, <3>1
         DEF CustomsReports, Send, RegisteredInv, GoodCheckpoint, Started,
             Registered, Listed, IsBranch
  <2> QED
    BY <1>4, <2>1, <2>2, <2>3 DEF Environment
<1>5. ASSUME NEW w \in Worker,
             \/ RestoreItem(w) \/ Mark(w) \/ MergeItem(w) \/ PersistItem(w)
             \/ WriteList(w) \/ PersistInFlight(w) \/ DrainPersist(w) \/ DrainMark(w)
      PROVE  RegisteredInv'
  <2>1. Grows(checkpoint, checkpoint') /\ mem' = mem
    BY <1>5, UpdateSteps
  <2>2. /\ GoodCheckpoint(checkpoint')
        /\ Started => checkpoint'.next # "Create_Filing_Packs" /\ Registered(checkpoint')
    BY <2>1 DEF Grows, GoodCheckpoint, RegisteredInv, Started
  <2>3. pc[w] # "idle" /\ (pc'[w] \in Draining => pc[w] \in Draining)
    BY <1>5
       DEF RestoreItem, Mark, MergeItem, PersistItem, WriteList, PersistInFlight,
             DrainPersist, DrainMark, Goto, Draining, TInv, TypeOK
  <2>4. pc'[w] \in Merging /\ IsBranch(w) => mem[w].next # "Create_Filing_Packs"
    <3>1. CASE Mark(w) \/ MergeItem(w) \/ PersistItem(w) \/ WriteList(w)
      BY <3>1 DEF Mark, MergeItem, PersistItem, WriteList, Merging, RegisteredInv
    <3>2. CASE RestoreItem(w) \/ PersistInFlight(w) \/ DrainPersist(w) \/ DrainMark(w)
      BY <3>2 DEF RestoreItem, PersistInFlight, DrainPersist, DrainMark, Goto,
                  Merging, TInv, TypeOK
    <3> QED
      BY <1>5, <3>1, <3>2
  <2>5. /\ UNCHANGED <<queue, sent, requests, job>>
        /\ \A v \in Worker : v # w => pc'[v] = pc[v]
    BY <1>5
       DEF RestoreItem, Mark, MergeItem, PersistItem, WriteList, PersistInFlight,
             DrainPersist, DrainMark, Goto, TInv, TypeOK
  <2> QED
    BY <2>1, <2>2, <2>3, <2>4, <2>5
       DEF RegisteredInv, Started, IsBranch
<1>6. ASSUME NEW w \in Worker,
             \/ RegisterBranches(w) \/ RunEndBranch(w) \/ JoinPasses(w)
             \/ RunHandleError(w) \/ RunEnd(w)
      PROVE  RegisteredInv'
  <2>1. /\ GoodCheckpoint(checkpoint') /\ checkpoint'.next \notin Unregistered
        /\ mem' = [mem EXCEPT ![w] = checkpoint']
        /\ UNCHANGED <<pc, job, item, todo, queue, sent, requests>>
    BY <1>6, PutSteps
  <2>2. checkpoint'.next # "Create_Filing_Packs" /\ Registered(checkpoint')
    BY <2>1 DEF GoodCheckpoint, Unregistered
  <2> QED
    BY <1>1, <2>1, <2>2 DEF RegisteredInv, Started, IsBranch
<1>7. ASSUME NEW w \in Worker, Apply(w)
      PROVE  RegisteredInv'
  <2>1. /\ GoodCheckpoint(checkpoint') /\ mem' = mem
        /\ Started => checkpoint'.next # "Create_Filing_Packs" /\ Registered(checkpoint')
    BY <1>7, ApplyStep DEF Started
  <2>2. /\ pc[w] = "apply" /\ pc' = [pc EXCEPT ![w] = "load"]
        /\ UNCHANGED <<queue, sent, requests, job>>
    BY <1>7 DEF Apply, Goto
  <2> QED
    BY <2>1, <2>2
       DEF RegisteredInv, Started, IsBranch, Draining, Merging, TInv, TypeOK
<1>8. ASSUME NEW w \in Worker,
             Snapshot(w) \/ ReadList(w) \/ ReadData(w) \/ LoadForInvoke(w)
      PROVE  RegisteredInv'
  <2>1. /\ mem' = [mem EXCEPT ![w] = checkpoint]
        /\ UNCHANGED <<checkpoint, queue, sent, requests, job>>
        /\ pc[w] # "idle" /\ pc'[w] \notin Draining
        /\ \A v \in Worker : v # w => pc'[v] = pc[v]
    BY <1>8
       DEF Snapshot, ReadList, ReadData, LoadForInvoke, Goto, Draining, TInv, TypeOK
  <2>2. IsBranch(w) => checkpoint.next # "Create_Filing_Packs"
    BY <2>1, ReadLemma DEF Started
  <2>3. checkpoint.next \notin Unregistered => Started
    BY ReadLemma
  <2> QED
    BY <1>1, <2>1, <2>2, <2>3
       DEF RegisteredInv, GoodCheckpoint, Started, Registered, Listed, IsBranch
<1>9. ASSUME NEW w \in Worker, DrainRead(w)
      PROVE  RegisteredInv'
  <2>1. Started
    BY <1>9 DEF DrainRead, RegisteredInv, Draining
  <2> QED
    BY <1>9, <1>1, <2>1
       DEF DrainRead, Goto, RegisteredInv, GoodCheckpoint, Started, Registered,
           Listed, IsBranch, Merging, TInv, TypeOK
<1>10. ASSUME NEW w \in Worker, RunSubmit(w) \/ RunStops(w)
      PROVE  RegisteredInv'
  <2>1. Started
    BY <1>10 DEF RunSubmit, RunStops, Running, RegisteredInv, Unregistered
  <2>2. /\ UNCHANGED <<checkpoint, queue, sent, job, mem>>
        /\ pc[w] # "idle" /\ pc'[w] \notin Merging
        /\ \A v \in Worker : v # w => pc'[v] = pc[v]
    BY <1>10
       DEF RunSubmit, RunStops, Running, AfterInvoke, Goto, Merging, TInv, TypeOK
  <2> QED
    BY <2>1, <2>2
       DEF RegisteredInv, GoodCheckpoint, Started, Registered, Listed, IsBranch
<1>11. ASSUME NEW w \in Worker, LookupItem(w)
      PROVE  RegisteredInv'
  BY <1>11
     DEF LookupItem, Goto, RegisteredInv, GoodCheckpoint, Started, Registered,
         Listed, IsBranch, Draining, Merging, TInv, TypeOK
<1>12. ASSUME NEW w \in Worker, DrainSkip(w) \/ DrainSend(w) \/ DrainDone(w)
      PROVE  RegisteredInv'
  <2>1. Started
    BY <1>12 DEF DrainSkip, DrainSend, DrainDone, RegisteredInv, Draining
  <2>2. /\ UNCHANGED <<checkpoint, queue, sent, job, mem>>
        /\ pc[w] # "idle" /\ pc'[w] \notin Merging
        /\ \A v \in Worker : v # w => pc'[v] = pc[v]
    BY <1>12 DEF DrainSkip, DrainSend, DrainDone, Goto, Merging, TInv, TypeOK
  <2> QED
    BY <2>1, <2>2
       DEF RegisteredInv, GoodCheckpoint, Started, Registered, Listed, IsBranch
<1>13. CASE UNCHANGED vars
  BY <1>13
     DEF vars, RegisteredInv, GoodCheckpoint, Started, Registered, Listed, IsBranch
<1> QED
  BY <1>2, <1>3, <1>4, <1>5, <1>6, <1>7, <1>8, <1>9, <1>10, <1>11, <1>12, <1>13
     DEF Next, Handle, Respond, Run, Drain

\* However many containers work on an instance, and wherever they crash, a response
\* finds the item of its branch in the context: the error the code logs for a
\* branch without one never arises.
THEOREM AnswersCanBeRouted == Spec => []AnswersFindTheirItem
<1>1. Init => RegisteredInv
  BY BranchesAssumption
     DEF Init, RegisteredInv, GoodCheckpoint, Paused, Unregistered, CreateAnswer,
         Draining, Merging
<1>2. TInv /\ RegisteredInv => AnswersFindTheirItem
  BY
     DEF TInv, TypeOK, KeysOK, RegisteredInv, Started, Registered,
         AnswersFindTheirItem
<1> QED
  BY <1>1, <1>2, RegisteredStep, TInvInvariant, PTL DEF Spec

-----------------------------------------------------------------------------
(* One container at a time.                                                *)

OneContainer == \A v, w \in Worker : v = w

\* The answer with the list has not been marked as processed.
Unanswered == 0 \notin checkpoint.replies

\* Where a container's copy is the checkpoint: nobody wrote since it was read.
Current == {"writeList", "writeMirror", "apply", "run", "inFlight"}

\* Where the drain works on the copy it made.
Walking == {"inFlight", "drainItem", "drainSend", "drainMark"}

\* The branch that the graph asks for is the last one of the list.
LastIsCurrent(c) ==
  c.branch_key = Last(Items) /\ c.current_map_item["id"] = Last(Items)

\* A container with the answer that delivers the list gets past the mark once,
\* and from there to the drain it has the instance to itself.
HandlesList(w) ==
  /\ pc[w] = "mark" => Unanswered
  /\ pc[w] \in {"readData", "apply", "load", "run"} => requests = <<>>
  /\ pc[w] \in {"readData", "apply"} => checkpoint.packs = Paused.packs
  /\ pc[w] \in {"load", "run", "drain"} => checkpoint.packs = NewList
  /\ pc[w] = "load" => checkpoint.next = "Submit_Import_Filing_Fork"
  /\ pc[w] = "run" =>
       checkpoint.next \in {"Submit_Import_Filing_Fork", "Submit_Import_Filing"}
  /\ pc[w] = "run" /\ checkpoint.next = "Submit_Import_Filing" => LastIsCurrent(checkpoint)
  /\ pc[w] = "drain" => LastIsCurrent(checkpoint)
  /\ pc[w] \in Walking => mem[w].packs = NewList /\ LastIsCurrent(mem[w])

\* One with a response never asks for a branch.
HandlesBranch(w) ==
  /\ pc[w] \notin Draining
  /\ pc[w] \in {"load", "run"} =>
       checkpoint.next \notin {"Submit_Import_Filing_Fork", "Submit_Import_Filing"}

SerialAt(w) ==
  /\ Unanswered => /\ checkpoint = Paused /\ requests = <<>> /\ sent \subseteq CreateAnswer
                   /\ pc[w] \in {"idle", "snapshot", "mark"}
  /\ pc[w] \in Current => mem[w] = checkpoint
  /\ pc[w] # "idle" /\ ~ IsBranch(w) => HandlesList(w)
  /\ pc[w] # "idle" /\ IsBranch(w) => HandlesBranch(w)

SerialInv == \A w \in Worker : SerialAt(w)

\* A mark on an answer stays, through the container's updates and its runs.
LEMMA RepliesGrow ==
  ASSUME TInv, NEW w \in Worker, SerialAt(w), Handle(w)
  PROVE  checkpoint.replies \subseteq checkpoint'.replies
<1>1. checkpoint \in Checkpoint /\ mem[w] \in Checkpoint
  BY DEF TInv, TypeOK
<1>2. CASE Receive(w) \/ Finish(w)
  BY <1>2 DEF Receive, Finish
<1>3. CASE Respond(w)
  BY <1>1, <1>3
     DEF Respond, LookupItem, RestoreItem, Snapshot, Mark, MergeItem, PersistItem,
         ReadList, WriteList, ReadData, Apply, LoadForInvoke, Checkpoint
<1>4. CASE Run(w)
  <2>1. CASE RunSubmit(w) \/ RunStops(w)
    BY <2>1 DEF RunSubmit, RunStops
  <2>2. CASE ~ (RunSubmit(w) \/ RunStops(w))
    <3>1. pc[w] = "run"
      BY <1>4, <2>2 DEF Run, RegisterBranches, RunEndBranch, JoinPasses,
                        RunHandleError, RunEnd, Running
    <3>2. mem[w] = checkpoint
      BY <3>1 DEF SerialAt, Current
    <3>3. CASE RegisterBranches(w)
      BY <1>1, <3>2, <3>3 DEF RegisterBranches, Put, Checkpoint
    <3>4. CASE RunEndBranch(w)
      BY <1>1, <3>2, <3>4 DEF RunEndBranch, Put, Checkpoint
    <3>5. CASE JoinPasses(w) \/ RunHandleError(w) \/ RunEnd(w)
      BY <1>1, <3>2, <3>5 DEF JoinPasses, RunHandleError, RunEnd, Put, Checkpoint
    <3> QED
      BY <1>4, <2>2, <3>3, <3>4, <3>5 DEF Run
  <2> QED
    BY <2>1, <2>2
<1>5. CASE Drain(w)
  BY <1>1, <1>5 DEF Drain, DrainRead, PersistInFlight, DrainSkip, DrainPersist,
                    DrainSend, DrainMark, DrainDone, Checkpoint
<1> QED
  BY <1>2, <1>3, <1>4, <1>5 DEF Handle

\* Of a fresh list, the registrations leave the last item as the current one.
LEMMA LastOfNewList ==
  ASSUME NEW c \in Checkpoint, c.packs = NewList
  PROVE  LastWith(c, "id") = Last(Items)
<1> DEFINE having == {i \in DOMAIN Items : c.packs[Items[i]]["id"] # NoKey}
<1>1. /\ Len(Items) \in Nat \ {0} /\ DOMAIN Items = 1..Len(Items)
      /\ \A i \in DOMAIN Items : Items[i] \in Key /\ Items[i] \in Range(Items)
  BY BranchesAssumption DEF Range
<1>2. \A i \in DOMAIN Items : c.packs[Items[i]]["id"] = Items[i]
  BY <1>1, EmptyLemma DEF NewList
<1>3. having = 1..Len(Items) /\ having # {}
  BY <1>1, <1>2, BranchesAssumption
<1> DEFINE i == CHOOSE i \in having : \A j \in having : j <= i
<1>4. Len(Items) \in having /\ \A j \in having : j <= Len(Items)
  BY <1>1, <1>3
<1>5. i \in having /\ Len(Items) <= i
  BY <1>4
<1>6. i = Len(Items)
  BY <1>1, <1>3, <1>5
<1>7. LastWith(c, "id") = c.packs[Items[i]]["id"]
  BY <1>3 DEF LastWith
<1> HIDE DEF i
<1> QED
  BY <1>1, <1>2, <1>6, <1>7 DEF Last

\* What others send, and a container's comings and goings, change nothing of it.
LEMMA SerialMail ==
  ASSUME TInv, RegisteredInv, SerialInv, NEW w \in Worker,
         Environment \/ Receive(w) \/ Finish(w) \/ Crash(w), OneContainer
  PROVE  SerialAt(w)'
<1> USE DEF world
<1>1. SerialAt(w)
  BY DEF SerialInv
<1>2. CASE Environment
  <2>1. /\ UNCHANGED <<checkpoint, requests, pc, job, mem, todo>>
        /\ Unanswered => sent' \subseteq CreateAnswer
    <3>1. ASSUME NEW c \in sent, Duplicate(c)
          PROVE  UNCHANGED <<checkpoint, requests, pc, job, mem, todo, sent>>
      BY <3>1 DEF Duplicate
    <3>2. ASSUME NEW i \in DOMAIN requests, CapabilityAnswers(i)
          PROVE  /\ UNCHANGED <<checkpoint, requests, pc, job, mem, todo>>
                 /\ ~ Unanswered
      BY <1>1, <3>2 DEF CapabilityAnswers, Send, SerialAt
    <3>3. ASSUME NEW k \in Key, CustomsReports(k)
          PROVE  /\ UNCHANGED <<checkpoint, requests, pc, job, mem, todo>>
                 /\ ~ Unanswered
      <4>1. \E c \in sent : c.branch = k
        BY <3>3 DEF CustomsReports
      <4>2. ~ Unanswered
        BY <1>1, <4>1, BranchesAssumption DEF SerialAt, CreateAnswer
      <4> QED
        BY <3>3, <4>2 DEF CustomsReports, Send
    <3> QED
      BY <1>1, <1>2, <3>1, <3>2, <3>3 DEF Environment, SerialAt
  <2> QED
    BY <1>1, <2>1
       DEF SerialAt, Unanswered, Current, Walking, Draining, HandlesList,
           HandlesBranch, IsBranch, LastIsCurrent
<1>3. CASE Receive(w)
  <2>1. PICK c \in queue :
          /\ job' = [job EXCEPT ![w] = c]
          /\ Goto(w, IF c.branch = NoKey THEN "snapshot" ELSE "restore")
          /\ UNCHANGED <<checkpoint, sent, requests, mem, todo>>
    BY <1>3 DEF Receive
  <2>2. /\ c \in sent /\ job'[w] = c
        /\ pc'[w] = IF c.branch = NoKey THEN "snapshot" ELSE "restore"
    BY <2>1 DEF Goto, RegisteredInv, TInv, TypeOK
  <2>3. pc'[w] \in {"snapshot", "restore"} /\ (Unanswered => pc'[w] = "snapshot")
    BY <1>1, <2>2 DEF SerialAt, CreateAnswer
  <2> QED
    BY <1>1, <2>1, <2>3
       DEF SerialAt, Unanswered, Current, Walking, Draining, HandlesList,
           HandlesBranch
<1>4. CASE Finish(w) \/ Crash(w)
  <2>1. pc'[w] = "idle" /\ UNCHANGED <<checkpoint, sent, requests>>
    BY <1>4 DEF Finish, Crash, Forget, Goto, TInv, TypeOK
  <2> QED
    BY <1>1, <2>1 DEF SerialAt, Unanswered, Current
<1> QED
  BY <1>2, <1>3, <1>4

\* A response's updates, and the update that resumes the graph.
LEMMA SerialRespond ==
  ASSUME TInv, RegisteredInv, SerialInv, OneContainer, NEW w \in Worker, Respond(w)
  PROVE  SerialAt(w)'
<1> USE DEF world
<1>1. /\ SerialAt(w) /\ pc = [v \in Worker |-> pc[v]] /\ mem \in [Worker -> Checkpoint]
      /\ checkpoint \in Checkpoint
  BY DEF SerialInv, TInv, TypeOK
<1>2. /\ pc[w] # "idle" /\ job[w] \in Command /\ Holds(w)
      /\ UNCHANGED <<requests, sent, job, todo>>
  <2>1. pc[w] # "idle" /\ UNCHANGED <<requests, sent, job, todo>>
    BY DEF Respond, LookupItem, RestoreItem, Snapshot, Mark, MergeItem, PersistItem,
           ReadList, WriteList, ReadData, Apply, LoadForInvoke
  <2> QED
    BY <2>1, AtWork
<1>3. checkpoint.replies \subseteq checkpoint'.replies
  BY <1>1, RepliesGrow DEF Handle
<1>4. CASE \/ LookupItem(w) \/ RestoreItem(w) \/ MergeItem(w) \/ PersistItem(w)
           \/ WriteList(w)
  <2>1. /\ pc[w] \in {"restore", "merge", "persist", "writeList", "writeMirror"}
        /\ pc'[w] \in {"restore", "snapshot", "persist", "readList", "readMirror",
                       "readData", "finish"}
    BY <1>1, <1>4
       DEF LookupItem, RestoreItem, MergeItem, PersistItem, WriteList, Goto
  <2>2. IsBranch(w) /\ IsBranch(w)'
    BY <1>2, <2>1 DEF TInv, Working, IsBranch
  <2>3. ~ Unanswered /\ ~ Unanswered'
    BY <1>1, <1>3, <2>1 DEF SerialAt, Unanswered
  <2> QED
    BY <2>1, <2>2, <2>3
       DEF SerialAt, Current, Draining, HandlesBranch
<1>5. CASE Snapshot(w)
  <2>1. /\ pc[w] = "snapshot" /\ checkpoint' = checkpoint /\ mem'[w] = checkpoint
        /\ pc'[w] \in {"finish", "mark", "merge"}
        /\ pc'[w] = "finish" => IsAnswer(w) /\
             (AlreadyProcessed(w) \/ (~ IsBranch(w) /\ checkpoint.next = "END"))
        /\ pc'[w] = "mark" => ~ AlreadyProcessed(w)
        /\ pc'[w] = "merge" => ~ IsAnswer(w)
    BY <1>1, <1>5 DEF Snapshot, Goto
  <2>2. ~ IsBranch(w) => job[w].in_reply_to = 0 /\ job[w].type = "ASYNC_RESP"
    BY <1>2, BranchesAssumption
       DEF IsBranch, Command, CreateAnswer, BranchAnswer, BranchEvent
  <2>3. Unanswered => /\ checkpoint = Paused /\ ~ IsBranch(w)
    BY <1>1, <1>2, BranchesAssumption
       DEF SerialAt, RegisteredInv, Started, Paused, IsBranch
  <2>4. Unanswered => pc'[w] = "mark"
    BY <2>1, <2>2, <2>3 DEF Paused, IsAnswer, AlreadyProcessed
  <2>5. ~ IsBranch(w) /\ pc'[w] = "mark" => Unanswered
    BY <2>1, <2>2 DEF AlreadyProcessed, Unanswered
  <2> QED
    BY <1>1, <1>2, <2>1, <2>4, <2>5
       DEF SerialAt, Unanswered, Current, Walking, Draining, HandlesBranch,
           HandlesList, IsBranch
<1>6. CASE Mark(w)
  <2>1. /\ pc[w] = "mark"
        /\ checkpoint' = [checkpoint EXCEPT !.replies = @ \cup {job[w].in_reply_to}]
        /\ pc'[w] = IF IsBranch(w) THEN "merge" ELSE "readData"
    BY <1>1, <1>6 DEF Mark, Goto
  <2>2. CASE IsBranch(w)
    <3>1. ~ Unanswered
      BY <1>1, <1>2, <2>2, BranchesAssumption
         DEF SerialAt, RegisteredInv, Started, Paused, IsBranch
    <3> QED
      BY <1>2, <1>3, <2>1, <2>2, <3>1
         DEF SerialAt, Unanswered, Current, Draining, HandlesBranch, IsBranch
  <2>3. CASE ~ IsBranch(w)
    <3>1. checkpoint = Paused /\ requests = <<>>
      BY <1>1, <2>1, <2>3 DEF SerialAt, HandlesList
    <3>2. job[w].in_reply_to = 0
      BY <1>2, <2>3, BranchesAssumption
         DEF IsBranch, Command, CreateAnswer, BranchAnswer, BranchEvent
    <3>3. 0 \in checkpoint'.replies /\ checkpoint'.packs = Paused.packs
      BY <1>1, <2>1, <3>1, <3>2 DEF Checkpoint
    <3> QED
      BY <1>2, <2>1, <2>3, <3>1, <3>3
         DEF SerialAt, Unanswered, Current, Walking, HandlesList, IsBranch
  <2> QED
    BY <2>2, <2>3
<1>7. CASE ReadList(w) \/ ReadData(w)
  <2>1. /\ pc[w] \in {"readList", "readMirror", "readData"}
        /\ pc'[w] \in {"writeList", "writeMirror", "apply"}
        /\ pc'[w] = "apply" => pc[w] = "readData"
        /\ checkpoint' = checkpoint /\ mem'[w] = checkpoint
    BY <1>1, <1>7 DEF ReadList, ReadData, Goto
  <2>2. ~ Unanswered /\ ~ Unanswered'
    BY <1>1, <2>1 DEF SerialAt, Unanswered
  <2> QED
    BY <1>1, <1>2, <2>1, <2>2
       DEF SerialAt, Walking, Draining, HandlesBranch, HandlesList, IsBranch, TInv,
           Working
<1>8. CASE Apply(w)
  <2>1. /\ pc[w] = "apply" /\ pc'[w] = "load"
        /\ checkpoint'.next = EdgeOfTransition(job[w])
        /\ ~ IsBranch(w) => checkpoint'.packs = NewList
    BY <1>1, <1>8 DEF Apply, Goto, Checkpoint
  <2>2. ~ Unanswered /\ ~ Unanswered'
    BY <1>1, <1>3, <2>1 DEF SerialAt, Unanswered
  <2>3. ~ IsBranch(w) => checkpoint'.next = "Submit_Import_Filing_Fork"
    <3>1. ~ IsBranch(w) => job[w].outcome = "SUCCESS"
      BY <1>2, BranchesAssumption
         DEF IsBranch, Command, CreateAnswer, BranchAnswer, BranchEvent
    <3> QED
      BY <2>1, <3>1 DEF EdgeOfTransition, IsBranch
  <2>4. IsBranch(w) => checkpoint'.next \notin {"Submit_Import_Filing_Fork",
                                                "Submit_Import_Filing"}
    BY <1>2, <2>1, EdgeType DEF IsBranch
  <2> QED
    BY <1>1, <1>2, <2>1, <2>2, <2>3, <2>4
       DEF SerialAt, Current, Walking, Draining, HandlesBranch, HandlesList, IsBranch
<1>9. CASE LoadForInvoke(w)
  <2>1. /\ pc[w] = "load" /\ pc'[w] = "run"
        /\ checkpoint' = checkpoint /\ mem'[w] = checkpoint
    BY <1>1, <1>9 DEF LoadForInvoke, Goto
  <2>2. ~ Unanswered /\ ~ Unanswered'
    BY <1>1, <2>1 DEF SerialAt, Unanswered
  <2> QED
    BY <1>1, <1>2, <2>1, <2>2
       DEF SerialAt, Walking, Draining, HandlesBranch, HandlesList, IsBranch
<1> QED
  BY <1>4, <1>5, <1>6, <1>7, <1>8, <1>9 DEF Respond

\* The supersteps of a run.
LEMMA SerialRun ==
  ASSUME TInv, SerialInv, OneContainer, NEW w \in Worker, Run(w)
  PROVE  SerialAt(w)'
<1> USE DEF world
<1>1. /\ SerialAt(w) /\ pc = [v \in Worker |-> pc[v]] /\ mem \in [Worker -> Checkpoint]
      /\ checkpoint \in Checkpoint
  BY DEF SerialInv, TInv, TypeOK
<1>2. /\ pc[w] = "run" /\ UNCHANGED <<sent, job, todo>>
      /\ RunSubmit(w) \/ UNCHANGED requests
  BY DEF Run, RegisterBranches, RunSubmit, RunStops, RunEndBranch, JoinPasses,
         RunHandleError, RunEnd, Running, Put
<1>3. mem[w] = checkpoint
  BY <1>1, <1>2 DEF SerialAt, Current
<1>4. ~ Unanswered /\ ~ Unanswered'
  BY <1>1, <1>2, RepliesGrow DEF SerialAt, Unanswered, Handle
<1>5. CASE RegisterBranches(w)
  <2>1. ~ IsBranch(w)
    BY <1>1, <1>2, <1>3, <1>5
       DEF RegisterBranches, Running, SerialAt, HandlesBranch
  <2>2. checkpoint.packs = NewList /\ requests = <<>>
    BY <1>1, <1>2, <2>1 DEF SerialAt, HandlesList
  <2>3. /\ checkpoint'.next = "Submit_Import_Filing"
        /\ checkpoint'.branch_key = Last(Items)
        /\ checkpoint'.packs = checkpoint.packs
        /\ checkpoint'.current_map_item["id"] = LastWith(checkpoint, "id")
        /\ mem'[w] = checkpoint' /\ UNCHANGED <<pc, requests>>
    BY <1>1, <1>3, <1>5 DEF RegisterBranches, Put, Checkpoint, Field
  <2>4. LastIsCurrent(checkpoint')
    BY <1>1, <2>2, <2>3, LastOfNewList DEF LastIsCurrent
  <2> QED
    BY <1>2, <1>4, <2>1, <2>2, <2>3, <2>4
       DEF SerialAt, Current, Walking, HandlesList, IsBranch
<1>6. CASE RunSubmit(w) \/ RunStops(w)
  <2>1. /\ UNCHANGED <<checkpoint, mem>>
        /\ pc'[w] = IF IsBranch(w) THEN "finish" ELSE "drain"
        /\ ~ IsBranch(w) => checkpoint.next = "Submit_Import_Filing"
    <3>1. \/ UNCHANGED <<checkpoint, mem>> /\ AfterInvoke(w)
             /\ checkpoint.next = "Submit_Import_Filing"
          \/ UNCHANGED <<checkpoint, mem>> /\ AfterInvoke(w)
             /\ checkpoint.next \in {"Wait_For_Custom_Status_Update", "END"}
      BY <1>3, <1>6 DEF RunSubmit, RunStops, Running
    <3>2. ~ IsBranch(w) => checkpoint.next \in {"Submit_Import_Filing_Fork",
                                                "Submit_Import_Filing"}
      BY <1>1, <1>2 DEF SerialAt, HandlesList
    <3> QED
      BY <1>1, <3>1, <3>2 DEF AfterInvoke, Goto
  <2> QED
    BY <1>1, <1>2, <1>4, <2>1
       DEF SerialAt, Current, Walking, Draining, HandlesList, HandlesBranch, IsBranch
<1>7. CASE RunEndBranch(w) \/ JoinPasses(w) \/ RunHandleError(w) \/ RunEnd(w)
  <2>1. /\ mem[w].next \in {"End_Branch", "Join_Filing_Pack_Submissions",
                            "Handle_Error", "End_Workflow"}
        /\ checkpoint'.next \in {"Join_Filing_Pack_Submissions", "End_Workflow", "END"}
        /\ mem'[w] = checkpoint' /\ pc' = pc
    <3>1. CASE RunEndBranch(w)
      BY <1>1, <3>1 DEF RunEndBranch, Running, Put, Checkpoint
    <3>2. CASE JoinPasses(w) \/ RunHandleError(w) \/ RunEnd(w)
      BY <1>1, <3>2 DEF JoinPasses, RunHandleError, RunEnd, Running, Put, Checkpoint
    <3> QED
      BY <1>7, <3>1, <3>2
  <2>2. IsBranch(w)
    BY <1>1, <1>2, <1>3, <2>1 DEF SerialAt, HandlesList
  <2> QED
    BY <1>2, <1>4, <2>1, <2>2 DEF SerialAt, Draining, HandlesBranch, IsBranch
<1> QED
  BY <1>5, <1>6, <1>7 DEF Run

\* The drain.
LEMMA SerialDrain ==
  ASSUME TInv, SerialInv, OneContainer, NEW w \in Worker, Drain(w)
  PROVE  SerialAt(w)'
<1> USE DEF world
<1>1. /\ SerialAt(w) /\ pc = [v \in Worker |-> pc[v]] /\ mem \in [Worker -> Checkpoint]
      /\ checkpoint \in Checkpoint
  BY DEF SerialInv, TInv, TypeOK
<1>2. /\ pc[w] \in Draining /\ UNCHANGED <<sent, job>>
  BY DEF Drain, DrainRead, PersistInFlight, DrainSkip, DrainPersist, DrainSend,
         DrainMark, DrainDone, Draining
<1>3. ~ Unanswered /\ ~ Unanswered'
  BY <1>1, <1>2, RepliesGrow DEF SerialAt, Unanswered, Handle, Draining
<1>4. ~ IsBranch(w) /\ HandlesList(w)
  BY <1>1, <1>2 DEF SerialAt, HandlesBranch, Draining
<1>5. CASE DrainRead(w)
  <2>1. /\ pc[w] = "drain" /\ pc'[w] = "inFlight" /\ checkpoint' = checkpoint
        /\ mem'[w] = checkpoint
    BY <1>1, <1>5 DEF DrainRead, Goto
  <2> QED
    BY <1>2, <1>3, <1>4, <2>1
       DEF SerialAt, Walking, Draining, HandlesList, IsBranch
<1>6. CASE ~ DrainRead(w)
  <2>1. /\ pc[w] \in Walking /\ pc'[w] \in (Walking \ {"inFlight"}) \cup {"finish"}
        /\ mem' = mem
    BY <1>1, <1>6
       DEF Drain, PersistInFlight, DrainSkip, DrainPersist, DrainSend, DrainMark,
           DrainDone, Goto, Walking
  <2>2. mem[w].packs = NewList /\ LastIsCurrent(mem[w])
    BY <1>4, <2>1 DEF HandlesList
  <2> QED
    BY <1>2, <1>3, <1>4, <2>1, <2>2
       DEF SerialAt, Current, Walking, HandlesList, IsBranch, LastIsCurrent
<1> QED
  BY <1>5, <1>6

\* Every step of one container at a time, and of the world around it, keeps the
\* hand-over of the list.
LEMMA SerialStep ==
  ASSUME TInv, RegisteredInv, SerialInv, OneContainer, [Next]_vars
  PROVE  SerialInv'
<1>1. ASSUME NEW w \in Worker, Handle(w) \/ Crash(w)
      PROVE  SerialAt(w)'
  BY <1>1, SerialMail, SerialRespond, SerialRun, SerialDrain DEF Handle
<1>2. ASSUME NEW w \in Worker, Environment
      PROVE  SerialAt(w)'
  BY <1>2, SerialMail
<1>3. CASE UNCHANGED vars
  BY <1>3
     DEF vars, SerialInv, SerialAt, Unanswered, Current, Walking, Draining,
         HandlesList, HandlesBranch, IsBranch, LastIsCurrent
<1> QED
  BY <1>1, <1>2, <1>3 DEF Next, SerialInv, OneContainer

\* The machine starts before the hand-over.
LEMMA SerialInit == Init => SerialInv
BY DEF Init, SerialInv, SerialAt, Unanswered, Current

\* What the theorems about one container at a time rest on.
LEMMA SerialInvariant ==
  ASSUME OneContainer
  PROVE  Spec => [](TInv /\ RegisteredInv /\ SerialInv)
<1>1. Init => RegisteredInv
  BY BranchesAssumption
     DEF Init, RegisteredInv, GoodCheckpoint, Paused, Unregistered, CreateAnswer,
         Draining, Merging
<1>2. TInv /\ RegisteredInv /\ SerialInv /\ [Next]_vars => RegisteredInv' /\ SerialInv'
  BY RegisteredStep, SerialStep
<1> QED
  BY <1>1, <1>2, SerialInit, TInvInvariant, PTL DEF Spec

\* A request appended is the last of the requests, and only it is new.
LEMMA AppendLemma ==
  ASSUME TypeOK, NEW r, requests' = Append(requests, r)
  PROVE  /\ DOMAIN requests' = DOMAIN requests \cup {Len(requests) + 1}
         /\ \A i \in DOMAIN requests : requests'[i] = requests[i]
         /\ requests'[Len(requests) + 1] = r
         /\ Len(requests) + 1 \notin DOMAIN requests
<1>1. requests \in Seq(Request) /\ Len(requests) \in Nat
  BY DEF TypeOK
<1>2. DOMAIN requests = 1..Len(requests)
  BY <1>1
<1>3. DOMAIN requests' = 1..(Len(requests) + 1)
  BY <1>1
<1> QED
  BY <1>1, <1>2, <1>3

\* Only the graph's submission and the drain ask for anything.
LEMMA RequestsStep ==
  ASSUME [Next]_vars
  PROVE  \/ requests' = requests
         \/ \E w \in Worker : RunSubmit(w) \/ DrainSend(w)
<1> USE DEF world
<1>1. CASE Environment
  BY <1>1 DEF Environment, CapabilityAnswers, CustomsReports, Duplicate, Send
<1>2. ASSUME NEW w \in Worker, Handle(w) \/ Crash(w)
      PROVE  requests' = requests \/ RunSubmit(w) \/ DrainSend(w)
  <2>1. CASE Receive(w) \/ Finish(w) \/ Crash(w)
    BY <2>1 DEF Receive, Finish, Crash
  <2>2. CASE Respond(w)
    BY <2>2
       DEF Respond, LookupItem, RestoreItem, Snapshot, Mark, MergeItem, PersistItem,
           ReadList, WriteList, ReadData, Apply, LoadForInvoke
  <2>3. CASE Run(w)
    BY <2>3
       DEF Run, RegisterBranches, RunStops, RunEndBranch, JoinPasses, RunHandleError,
           RunEnd, Put
  <2>4. CASE Drain(w)
    BY <2>4
       DEF Drain, DrainRead, PersistInFlight, DrainSkip, DrainPersist, DrainMark,
           DrainDone
  <2> QED
    BY <1>2, <2>1, <2>2, <2>3, <2>4 DEF Handle
<1> QED
  BY <1>1, <1>2 DEF Next, vars

\* The items the two kinds of requests carry.
LEMMA NamesStep ==
  ASSUME TInv, RegisteredInv, SerialInv, RequestsNameTheirBranch, [Next]_vars
  PROVE  RequestsNameTheirBranch'
<1>1. TypeOK
  BY DEF TInv
<1>2. ASSUME NEW w \in Worker, RunSubmit(w)
      PROVE  RequestsNameTheirBranch'
  <2>1. pc[w] = "run" /\ mem[w].next = "Submit_Import_Filing" /\ SerialAt(w)
    BY <1>2 DEF RunSubmit, Running, SerialInv
  <2>2. mem[w] = checkpoint /\ ~ IsBranch(w)
    BY <2>1 DEF SerialAt, Current, HandlesBranch
  <2>3. LastIsCurrent(mem[w])
    BY <2>1, <2>2 DEF SerialAt, HandlesList
  <2> DEFINE r == [branch |-> mem[w].branch_key, item |-> mem[w].current_map_item]
  <2>4. requests' = Append(requests, r) /\ r.item["id"] = r.branch
    BY <1>2, <2>3 DEF RunSubmit, LastIsCurrent
  <2> QED
    BY <1>1, <2>4, AppendLemma DEF RequestsNameTheirBranch
<1>3. ASSUME NEW w \in Worker, DrainSend(w)
      PROVE  RequestsNameTheirBranch'
  <2>1. pc[w] = "drainSend" /\ SerialAt(w)
    BY <1>3 DEF DrainSend, SerialInv
  <2>2. mem[w].packs = NewList
    BY <2>1 DEF SerialAt, HandlesList, HandlesBranch, Draining, Walking
  <2>3. Head(todo[w]) \in Range(Items) /\ Head(todo[w]) \in Key
    BY <2>1, ItemsLemma DEF TInv, TypeOK, Working
  <2>4. /\ requests' = Append(requests, DrainRequest(w))
        /\ DrainRequest(w).item["id"] = DrainRequest(w).branch
    BY <1>3, <2>2, <2>3, EmptyLemma DEF DrainSend, DrainRequest, NewList
  <2> QED
    BY <1>1, <2>4, AppendLemma DEF RequestsNameTheirBranch
<1>4. CASE requests' = requests
  BY <1>4 DEF RequestsNameTheirBranch
<1> QED
  BY <1>2, <1>3, <1>4, RequestsStep

\* With one container at a time a request carries the item of the branch that its
\* routing hint names, whoever builds it: the graph, from the channels that all
\* registrations were merged into, or the drain, from a list it read before.
THEOREM RequestsAreNamed ==
  ASSUME OneContainer
  PROVE  Spec => []RequestsNameTheirBranch
<1>1. Init => RequestsNameTheirBranch
  BY DEF Init, RequestsNameTheirBranch
<1>2. TInv /\ RegisteredInv /\ SerialInv /\ RequestsNameTheirBranch /\ [Next]_vars
        => RequestsNameTheirBranch'
  BY NamesStep
<1> QED
  BY <1>1, <1>2, SerialInvariant, PTL DEF Spec

-----------------------------------------------------------------------------
(* The graph and the drain share the branches out.                         *)

Asked(k) == \E i \in DOMAIN requests : requests[i].branch = k

\* Of what the drain has before it, only the branch in flight was asked for.
Remains(s) == \A k \in Range(s) : Asked(k) => k = Last(Items)

UniqueInv ==
  /\ OneRequestPerBranch
  /\ \A w \in Worker : pc[w] = "drain" => Remains(Items)
  /\ \A w \in Worker : pc[w] \in Walking => IsInjective(todo[w])
  /\ \A w \in Worker :
       pc[w] \in {"inFlight", "drainItem", "drainSend"} => Remains(todo[w])
  /\ \A w \in Worker : pc[w] = "drainSend" => Head(todo[w]) # Last(Items)
  /\ \A w \in Worker : pc[w] = "drainMark" => Remains(Tail(todo[w]))

\* The rest of a list without repetitions has none, and not its head.
LEMMA TailLemma ==
  ASSUME NEW S, NEW s \in Seq(S), s # <<>>, IsInjective(s)
  PROVE  IsInjective(Tail(s)) /\ Range(Tail(s)) \subseteq Range(s) \ {Head(s)}
<1>1. /\ Len(s) \in Nat \ {0} /\ DOMAIN s = 1..Len(s)
      /\ Tail(s) \in Seq(S) /\ DOMAIN Tail(s) = 1..(Len(s) - 1)
      /\ \A i \in 1..(Len(s) - 1) : Tail(s)[i] = s[i + 1]
      /\ Head(s) = s[1]
  OBVIOUS
<1>2. \A i \in 1..(Len(s) - 1) : i + 1 \in DOMAIN s /\ i + 1 # 1 /\ 1 \in DOMAIN s
  BY <1>1
<1>3. \A a, b \in DOMAIN s : s[a] = s[b] => a = b
  BY DEF IsInjective
<1>4. IsInjective(Tail(s))
  BY <1>1, <1>2, <1>3 DEF IsInjective
<1>5. \A i \in DOMAIN Tail(s) : Tail(s)[i] \in Range(s) /\ Tail(s)[i] # Head(s)
  BY <1>1, <1>2, <1>3 DEF Range
<1> QED
  BY <1>4, <1>5 DEF Range

\* What was asked for before a request, and what after it.
LEMMA AskedLemma ==
  ASSUME TypeOK, NEW r, requests' = Append(requests, r)
  PROVE  /\ \A k : Asked(k)' <=> Asked(k) \/ k = r.branch
         /\ OneRequestPerBranch /\ ~ Asked(r.branch) => OneRequestPerBranch'
BY AppendLemma DEF Asked, OneRequestPerBranch

\* A run and a drain ask for no branch that was asked for.
LEMMA UniqueStep ==
  ASSUME TInv, SerialInv, UniqueInv, OneContainer, KeyIsFilingPackId,
         [Next]_vars
  PROVE  UniqueInv'
<1> USE DEF world
<1>1. TypeOK /\ Items \in Seq(Range(Items)) /\ IsInjective(Items)
  BY ItemsLemma, BranchesAssumption DEF TInv
<1>2. ASSUME NEW w \in Worker, RunSubmit(w)
      PROVE  UniqueInv'
  <2>1. pc[w] = "run" /\ mem[w].next = "Submit_Import_Filing" /\ SerialAt(w)
    BY <1>2 DEF RunSubmit, Running, SerialInv
  <2>2. mem[w] = checkpoint /\ ~ IsBranch(w)
    BY <2>1 DEF SerialAt, Current, HandlesBranch
  <2>3. requests = <<>> /\ LastIsCurrent(mem[w])
    BY <2>1, <2>2 DEF SerialAt, HandlesList
  <2> DEFINE r == [branch |-> mem[w].branch_key, item |-> mem[w].current_map_item]
  <2>4. /\ requests' = Append(requests, r) /\ r.branch = Last(Items)
        /\ pc'[w] = "drain"
    BY <1>1, <1>2, <2>2, <2>3
       DEF RunSubmit, LastIsCurrent, AfterInvoke, Goto, TypeOK
  <2>5. \A k : ~ Asked(k)
    BY <2>3 DEF Asked
  <2>6. OneRequestPerBranch' /\ \A k : Asked(k)' => k = Last(Items)
    BY <1>1, <2>4, <2>5, AskedLemma DEF UniqueInv
  <2> QED
    BY <2>4, <2>6 DEF UniqueInv, OneContainer, Walking, Remains
<1>3. ASSUME NEW w \in Worker, DrainSend(w)
      PROVE  UniqueInv'
  <2>1. /\ pc[w] = "drainSend" /\ pc'[w] = "drainMark" /\ todo' = todo
        /\ todo[w] \in Seq(Range(Items)) /\ todo[w] # <<>> /\ IsInjective(todo[w])
        /\ Remains(todo[w]) /\ Head(todo[w]) # Last(Items)
    BY <1>1, <1>3 DEF DrainSend, Goto, TInv, TypeOK, Working, UniqueInv, Walking
  <2>2. /\ IsInjective(Tail(todo[w])) /\ Head(todo[w]) \in Range(todo[w])
        /\ Range(Tail(todo[w])) \subseteq Range(todo[w]) \ {Head(todo[w])}
    <3>1. Head(todo[w]) = todo[w][1] /\ 1 \in DOMAIN todo[w]
      BY <2>1
    <3>2. Head(todo[w]) \in Range(todo[w])
      BY <3>1 DEF Range
    <3> QED
      BY <2>1, <3>2, TailLemma
  <2>3. /\ requests' = Append(requests, DrainRequest(w))
        /\ DrainRequest(w).branch = Head(todo[w])
    BY <1>3 DEF DrainSend, DrainRequest
  <2>4. OneRequestPerBranch' /\ \A k : Asked(k)' <=> Asked(k) \/ k = Head(todo[w])
    BY <1>1, <2>1, <2>2, <2>3, AskedLemma DEF UniqueInv, Remains
  <2>5. Remains(Tail(todo[w]))'
    BY <2>1, <2>2, <2>4 DEF Remains
  <2> QED
    BY <2>1, <2>4, <2>5 DEF UniqueInv, OneContainer, Walking
<1>4. ASSUME NEW w \in Worker, Handle(w) \/ Crash(w), ~ RunSubmit(w), ~ DrainSend(w)
      PROVE  UniqueInv'
  <2>1. requests' = requests
    BY <1>4, RequestsStep DEF OneContainer
  <2>2. OneRequestPerBranch' /\ \A k : Asked(k)' <=> Asked(k)
    BY <2>1 DEF UniqueInv, OneRequestPerBranch, Asked
  <2>3. \A s : Remains(s)' <=> Remains(s)
    BY <2>2 DEF Remains
  <2>4. SerialAt(w)
    BY DEF SerialInv
  <2>5. pc = [v \in Worker |-> pc[v]] /\ todo = [v \in Worker |-> todo[v]]
    BY <1>1 DEF TypeOK
  <2>6. CASE ~ Drain(w)
    <3>1. pc'[w] \notin Draining
      <4>1. CASE Receive(w) \/ Finish(w) \/ Crash(w)
        BY <2>5, <4>1 DEF Receive, Finish, Crash, Forget, Goto, Draining
      <4>2. CASE Respond(w)
        BY <2>5, <4>2
           DEF Respond, LookupItem, RestoreItem, Snapshot, Mark, MergeItem, PersistItem,
               ReadList, WriteList, ReadData, Apply, LoadForInvoke, Goto, Draining
      <4>3. CASE RunStops(w)
        <5>1. pc[w] = "run" /\ mem[w] = checkpoint
          BY <2>4, <4>3 DEF RunStops, SerialAt, Current
        <5>2. IsBranch(w)
          BY <2>4, <4>3, <5>1 DEF RunStops, SerialAt, HandlesList
        <5> QED
          BY <2>5, <4>3, <5>2 DEF RunStops, AfterInvoke, Goto, Draining
      <4>4. CASE Run(w) /\ ~ RunStops(w)
        BY <1>4, <4>4 DEF Run, RegisterBranches, RunEndBranch, JoinPasses,
                          RunHandleError, RunEnd, Running, Put, Draining
      <4> QED
        BY <1>4, <2>6, <4>1, <4>2, <4>3, <4>4 DEF Handle
    <3> QED
      BY <2>2, <3>1 DEF UniqueInv, OneContainer, Walking, Draining
  <2>7. CASE DrainRead(w)
    <3>1. pc[w] = "drain" /\ pc'[w] = "inFlight" /\ todo'[w] = Items
      BY <2>5, <2>7 DEF DrainRead, Goto
    <3> QED
      BY <1>1, <2>2, <2>3, <3>1 DEF UniqueInv, OneContainer
  <2>8. CASE PersistInFlight(w) \/ DrainDone(w)
    <3>1. /\ pc[w] \in {"inFlight", "drainItem"} /\ todo' = todo
          /\ pc'[w] \in {"drainItem", "finish"}
      BY <2>5, <2>8 DEF PersistInFlight, DrainDone, Goto
    <3> QED
      BY <2>2, <2>3, <3>1 DEF UniqueInv, OneContainer, Walking
  <2>9. CASE DrainSkip(w)
    <3>1. /\ pc[w] = "drainItem" /\ pc' = pc /\ todo'[w] = Tail(todo[w])
          /\ todo[w] # <<>> /\ todo[w] \in Seq(Range(Items))
          /\ IsInjective(todo[w]) /\ Remains(todo[w])
      BY <1>1, <2>5, <2>9 DEF DrainSkip, TypeOK, UniqueInv, Walking
    <3>2. IsInjective(Tail(todo[w])) /\ Remains(Tail(todo[w]))
      BY <3>1, TailLemma DEF Remains
    <3> QED
      BY <2>2, <2>3, <3>1, <3>2 DEF UniqueInv, OneContainer
  <2>10. CASE DrainPersist(w)
    <3>1. /\ pc[w] = "drainItem" /\ pc'[w] = "drainSend" /\ todo' = todo
          /\ ~ Skipped(w, Head(todo[w]))
      BY <2>5, <2>10 DEF DrainPersist, Goto
    <3>2. LastIsCurrent(mem[w])
      BY <2>4, <3>1 DEF SerialAt, HandlesList, HandlesBranch, Draining, Walking
    <3>3. Head(todo[w]) # Last(Items)
      BY <3>1, <3>2 DEF Skipped, InFlight, LastIsCurrent
    <3> QED
      BY <2>2, <2>3, <3>1, <3>3 DEF UniqueInv, OneContainer, Walking
  <2>11. CASE DrainMark(w)
    <3>1. /\ pc[w] = "drainMark" /\ pc'[w] = "drainItem" /\ todo'[w] = Tail(todo[w])
          /\ todo[w] # <<>> /\ todo[w] \in Seq(Range(Items))
          /\ IsInjective(todo[w]) /\ Remains(Tail(todo[w]))
      BY <1>1, <2>5, <2>11
         DEF DrainMark, Goto, TInv, TypeOK, Working, UniqueInv, Walking
    <3>2. IsInjective(Tail(todo[w]))
      BY <3>1, TailLemma
    <3> QED
      BY <2>2, <2>3, <3>1, <3>2 DEF UniqueInv, OneContainer
  <2> QED
    BY <1>4, <2>6, <2>7, <2>8, <2>9, <2>10, <2>11 DEF Drain
<1>5. CASE UNCHANGED <<requests, pc, todo>>
  BY <1>5 DEF UniqueInv, OneRequestPerBranch, Remains, Asked
<1>6. CASE Environment
  BY <1>5, <1>6 DEF Environment, CapabilityAnswers, CustomsReports, Duplicate, Send
<1> QED
  BY <1>2, <1>3, <1>4, <1>5, <1>6 DEF Next, vars

\* The graph asks for one branch and the drain for the others.  With one container
\* at a time, however often the answer with the list is delivered and wherever the
\* container dies, no branch is asked for twice.  (Under another branch key the
\* drain does not see which branch is in flight.)
THEOREM NoBranchIsAskedTwice ==
  ASSUME OneContainer, KeyIsFilingPackId
  PROVE  Spec => []OneRequestPerBranch
<1>1. Init => UniqueInv
  BY DEF Init, UniqueInv, OneRequestPerBranch, Walking
<1>2. TInv /\ RegisteredInv /\ SerialInv /\ UniqueInv /\ [Next]_vars => UniqueInv'
  BY UniqueStep
<1>3. UniqueInv => OneRequestPerBranch
  BY DEF UniqueInv
<1> QED
  BY <1>1, <1>2, <1>3, SerialInvariant, PTL DEF Spec

-----------------------------------------------------------------------------
(* The list keeps the responses.                                           *)

\* A container that writes the list back writes what is there, and its payload.
LEMMA ListKeepsStep ==
  ASSUME TInv, RegisteredInv, SerialInv, OneContainer, [Next]_vars
  PROVE  \A k \in Key, f \in Field :
           checkpoint.packs[k][f] = k => checkpoint'.packs[k][f] = k
<1> USE DEF world
<1>1. checkpoint \in Checkpoint /\ mem \in [Worker -> Checkpoint]
  BY DEF TInv, TypeOK
<1>2. ASSUME NEW w \in Worker, WriteList(w)
      PROVE  \A k \in Key, f \in Field :
               checkpoint.packs[k][f] = k => checkpoint'.packs[k][f] = k
  <2>1. pc[w] # "idle" /\ IsBranch(w) /\ mem[w] = checkpoint
    BY <1>2 DEF WriteList, TInv, Working, SerialInv, SerialAt, Current
  <2>2. Branch(w) \in Key /\ Payload(job[w]) \in Item
    BY <2>1, AtWork
  <2>3. \A f \in Field : Payload(job[w])[f] \in {NoKey, Branch(w)}
    BY <2>2 DEF Payload, Empty, Branch, Field
  <2>4. \A k \in Key : /\ checkpoint'.packs[k] =
                            IF k = Branch(w)
                              THEN Merge(checkpoint.packs[k], Payload(job[w]))
                              ELSE checkpoint.packs[k]
                       /\ checkpoint.packs[k] \in Item
    BY <1>1, <1>2, <2>1, <2>2 DEF WriteList, ListWithPayload, Checkpoint
  <2> QED
    BY <2>2, <2>3, <2>4, MergeLemma
<1>3. ASSUME NEW w \in Worker, Apply(w)
      PROVE  \A k \in Key, f \in Field :
               checkpoint.packs[k][f] = k => checkpoint'.packs[k][f] = k
  <2>1. pc[w] = "apply" /\ SerialAt(w)
    BY <1>3 DEF Apply, SerialInv
  <2>2. checkpoint'.packs = IF IsBranch(w) THEN mem[w].packs ELSE NewList
    BY <1>1, <1>3 DEF Apply, Checkpoint
  <2>3. CASE IsBranch(w)
    BY <2>1, <2>2, <2>3 DEF SerialAt, Current
  <2>4. CASE ~ IsBranch(w)
    <3>1. checkpoint.packs = Paused.packs
      BY <2>1, <2>4 DEF SerialAt, HandlesList
    <3> QED
      BY <3>1, BranchesAssumption DEF Paused, Empty
  <2> QED
    BY <2>3, <2>4
<1>4. ASSUME NEW w \in Worker, Handle(w) \/ Crash(w), ~ WriteList(w), ~ Apply(w)
      PROVE  checkpoint'.packs = checkpoint.packs
  <2>1. CASE Run(w)
    <3>1. mem[w] = checkpoint
      BY <2>1 DEF Run, RegisterBranches, RunSubmit, RunStops, RunEndBranch, JoinPasses,
                  RunHandleError, RunEnd, Running, SerialInv, SerialAt, Current
    <3> QED
      BY <1>4, <3>1, ListStep
  <2>2. CASE Receive(w) \/ Finish(w) \/ Crash(w)
    BY <2>2 DEF Receive, Finish, Crash
  <2>3. CASE Respond(w)
    BY <1>1, <1>4, <2>3
       DEF Respond, LookupItem, RestoreItem, Snapshot, Mark, MergeItem, PersistItem,
           ReadList, ReadData, LoadForInvoke, Checkpoint
  <2>4. CASE Drain(w)
    BY <1>1, <2>4
       DEF Drain, DrainRead, PersistInFlight, DrainSkip, DrainPersist, DrainSend,
           DrainMark, DrainDone, Checkpoint
  <2> QED
    BY <1>4, <2>1, <2>2, <2>3, <2>4 DEF Handle
<1>5. CASE UNCHANGED checkpoint
  BY <1>5
<1>6. CASE Environment
  BY <1>6 DEF Environment, CapabilityAnswers, CustomsReports, Duplicate, Send
<1> QED
  BY <1>2, <1>3, <1>4, <1>5, <1>6 DEF Next, vars

\* With one container at a time, what a response has put into the list stays there,
\* although every response writes the list back as a whole, three times, and the
\* graph puts whole checkpoints in between.
THEOREM ResponsesStayInTheList ==
  ASSUME OneContainer
  PROVE  Spec => ListKeepsAnswers
<1>1. TInv /\ RegisteredInv /\ SerialInv /\ [Next]_vars
        => [\A k \in Key, f \in Field :
              checkpoint.packs[k][f] = k => checkpoint'.packs[k][f] = k]_vars
  BY ListKeepsStep
<1> QED
  BY <1>1, SerialInvariant, PTL DEF Spec, ListKeepsAnswers

=============================================================================
