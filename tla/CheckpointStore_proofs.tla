------------------------- MODULE CheckpointStore_proofs -------------------------
(***************************************************************************)
(* Theorems about CheckpointStore, for every number of processes and tasks *)
(* and every bound.                                                        *)
(***************************************************************************)
EXTENDS CheckpointStore, WellFoundedInduction, TLAPS

\* What a process at work holds.
LocalsOK ==
  \A p \in Process :
    /\ pc[p] \in {"pending", "run", "batch"} => held[p] # 0
    /\ pc[p] = "put" => new[p] # 0
    /\ pc[p] = "batch" => batch[p].task \in Task
    /\ pc[p] = "idle" => done[p] = {}

\* No process has written or read anything under an id.
Unused(id) ==
  /\ table[CheckpointKey(id)] = Absent
  /\ \A t \in Task, i \in Index : table[WriteKey(id, t, i)] = Absent
  /\ \A q \in Process : held[q] # id

\* An id is used from the moment its checkpoint is put; until then it is its
\* process's own.
IdsOK ==
  /\ \A p \in Process : held[p] <= stamp
  /\ \A id \in Id : id > stamp => Unused(id)
  /\ \A p \in Process : pc[p] = "put" =>
       /\ held[p] < new[p] /\ new[p] <= stamp
       /\ Unused(new[p])
       /\ \A q \in Process \ {p} : pc[q] = "put" => new[q] # new[p]

Expiry(id) == table[CheckpointKey(id)].expire

\* Later checkpoints expire later, and a checkpoint before its writes.  What is
\* newer than a checkpoint still to be put was put within the same day.
ExpiryOK ==
  /\ \A id \in Stored : Expiry(id) <= ExpireAt
  /\ \A i, j \in Stored : i < j => Expiry(i) <= Expiry(j)
  /\ \A p \in Process : pc[p] = "put" =>
       \A j \in Stored : new[p] < j => Expiry(j) = ExpireAt
  /\ \A id \in Stored, t \in Task, i \in Index :
       table[WriteKey(id, t, i)] # Absent =>
         Expiry(id) <= table[WriteKey(id, t, i)].expire

\* A write, in the table or in a replica, comes from an execution.
RanOK ==
  /\ \A id \in Id, t \in Task, i \in Index :
       table[WriteKey(id, t, i)] # Absent \/ replica[WriteKey(id, t, i)] # Absent
         => ran[id][t] > 0
  /\ \A p \in Process : pc[p] = "batch" => ran[held[p]][batch[p].task] > 0
  /\ SkipsOnlyWhatRan

TInv == TypeOK /\ LocalsOK
IInv == TInv /\ IdsOK /\ ExpiryOK

-----------------------------------------------------------------------------
(* Keys and the newest of a set of ids.                                    *)

\* No two items share a key.
LEMMA Keys ==
  /\ \A i, j \in Id : CheckpointKey(i) = CheckpointKey(j) => i = j
  /\ \A i, j \in Id, s, t \in Task, a, b \in Index :
       WriteKey(i, s, a) = WriteKey(j, t, b) => i = j /\ s = t /\ a = b
  /\ \A i, j \in Id, t \in Task, a \in Index : CheckpointKey(i) # WriteKey(j, t, a)
  /\ \A i \in Id : CheckpointKey(i) \in Key
  /\ \A i \in Id, t \in Task, a \in Index : WriteKey(i, t, a) \in Key
BY DEF CheckpointKey, WriteKey, Key

\* A set of ids has a greatest one.
LEMMA Greatest ==
  ASSUME NEW S \in SUBSET Id, S # {}
  PROVE  \E m \in S : \A j \in S : j <= m
<1> DEFINE R == OpToRel(<, Nat)
           T == {MaxId - i : i \in S}
<1>1. MaxId \in Nat
  BY StoreAssumption
<1>2. \A i \in S : i \in Nat /\ MaxId - i \in Nat
  BY <1>1 DEF Id
<1>3. T \subseteq Nat /\ T # {}
  BY <1>2
<1>4. IsWellFoundedOn(R, Nat)
  BY NatLessThanWellFounded
<1>5. PICK x \in T : \A y \in T : ~ (<<y, x>> \in R)
  <2> HIDE DEF R, T
  <2> QED
    BY <1>3, <1>4, WFMin
<1>6. \A y \in T : ~ (y < x)
  BY <1>3, <1>5 DEF OpToRel
<1>7. PICK m \in S : x = MaxId - m
  OBVIOUS
<1>8. ASSUME NEW j \in S PROVE j <= m
  <2>1. ~ (MaxId - j < MaxId - m)
    BY <1>6, <1>7
  <2> QED
    BY <1>1, <1>2, <2>1
<1> QED
  BY <1>8

\* Max picks it.
LEMMA MaxIs ==
  ASSUME NEW S \in SUBSET Id, NEW m \in S, \A j \in S : j <= m
  PROVE  Max(S) = m
<1>1. MaxId \in Nat /\ \A i \in S : i \in Nat
  BY StoreAssumption DEF Id
<1> DEFINE P(x) == x \in S /\ \A y \in S : x >= y
<1>2. P(m)
  BY <1>1
<1>3. \A x : P(x) => x = m
  BY <1>1
<1>4. P(CHOOSE x : P(x))
  BY <1>2
<1>5. Max(S) = CHOOSE x : P(x)
  BY DEF Max
<1> QED
  BY <1>3, <1>4, <1>5

-----------------------------------------------------------------------------
(* Types.                                                                  *)

LEMMA NewestType ==
  ASSUME NEW view
  PROVE  Newest(view) \in 0..MaxId
<1>1. CASE IdsIn(view) = {}
  BY <1>1, StoreAssumption DEF Newest
<1>2. CASE IdsIn(view) # {}
  <2>1. IdsIn(view) \subseteq Id
    BY DEF IdsIn
  <2>2. PICK m \in IdsIn(view) : \A j \in IdsIn(view) : j <= m
    BY <1>2, <2>1, Greatest
  <2>3. Max(IdsIn(view)) = m
    BY <2>1, <2>2, MaxIs
  <2> QED
    BY <2>1, <2>3, StoreAssumption DEF Newest, Id
<1> QED
  BY <1>1, <1>2

LEMMA ItemType ==
  ASSUME TypeOK, NEW n \in Nat
  PROVE  /\ [value |-> n, expire |-> ExpireAt] \in Item
         /\ ExpireAt \in Nat /\ ExpireAt > now
  BY StoreAssumption DEF TypeOK, Item, ExpireAt, Never

LEMMA AbsentIsNoItem == Absent \notin Item
  BY StoreAssumption DEF Item, Never

LEMMA TypeInit == Init => TInv
<1> SUFFICES ASSUME Init PROVE TInv
  OBVIOUS
<1>1. TypeOK
  BY StoreAssumption DEF Init, TypeOK, NoBatch
<1>2. LocalsOK
  BY DEF Init, LocalsOK
<1> QED
  BY <1>1, <1>2 DEF TInv

LEMMA TypeStep == TInv /\ [Next]_vars => TInv'
<1> SUFFICES ASSUME TInv, [Next]_vars PROVE TInv'
  OBVIOUS
<1> USE StoreAssumption
<1>t. TypeOK /\ LocalsOK
  BY DEF TInv
<1>1. ASSUME NEW p \in Process, LoadCheckpoint(p) PROVE TInv'
  <2>1. Newest(LatestView) \in 0..MaxId
    BY NewestType
  <2>2. TypeOK'
    BY <1>t, <1>1, <2>1 DEF TypeOK, LoadCheckpoint, Goto
  <2>3. LocalsOK'
    BY <1>t, <1>1, <2>1 DEF TypeOK, LocalsOK, LoadCheckpoint, Goto
  <2> QED
    BY <2>2, <2>3 DEF TInv
<1>2. ASSUME NEW p \in Process, LoadWrites(p) PROVE TInv'
  <2>1. PICK view \in {table, replica} : done' = [done EXCEPT ![p] = WritesIn(view, held[p])]
    BY <1>2 DEF LoadWrites
  <2>2. WritesIn(view, held[p]) \in SUBSET Task
    BY DEF WritesIn
  <2>3. TypeOK'
    BY <1>t, <1>2, <2>1, <2>2 DEF TypeOK, LoadWrites, Goto
  <2>4. LocalsOK'
    BY <1>t, <1>2, <2>1 DEF TypeOK, LocalsOK, LoadWrites, Goto
  <2> QED
    BY <2>3, <2>4 DEF TInv
<1>3. ASSUME NEW p \in Process, Execute(p) PROVE TInv'
  <2>1. PICK t \in Task \ done[p] :
          /\ ran[held[p]][t] < MaxRuns
          /\ ran' = [ran EXCEPT ![held[p]][t] = @ + 1]
          /\ batch' = [batch EXCEPT ![p] = [task |-> t, left |-> Index]]
    BY <1>3 DEF Execute, WriteIndexes
  <2>2. held[p] \in Id /\ pc[p] = "run"
    BY <1>t, <1>3 DEF Execute, TypeOK, LocalsOK, Id
  <2>3. ran' \in [Id -> [Task -> 0..MaxRuns]]
    BY <1>t, <2>1, <2>2 DEF TypeOK
  <2>4. batch' \in [Process -> [task : Task \cup {Absent}, left : SUBSET Index]]
    BY <1>t, <2>1 DEF TypeOK
  <2>5. TypeOK'
    BY <1>t, <1>3, <2>3, <2>4 DEF TypeOK, Execute, Goto
  <2>6. LocalsOK'
    BY <1>t, <1>3, <2>1, <2>2 DEF TypeOK, LocalsOK, Execute, Goto
  <2> QED
    BY <2>5, <2>6 DEF TInv
<1>4. ASSUME NEW p \in Process, PutWrite(p) PROVE TInv'
  <2> DEFINE t == batch[p].task
  <2>1. PICK i \in batch[p].left :
          /\ table' = [table EXCEPT ![WriteKey(held[p], t, i)] = NewWrite(ran[held[p]][t])]
          /\ \/ /\ batch' = [batch EXCEPT ![p].left = @ \ {i}]
                /\ UNCHANGED <<pc, done>>
             \/ /\ batch' = [batch EXCEPT ![p] = NoBatch]
                /\ done' = [done EXCEPT ![p] = @ \cup {t}]
                /\ Goto(p, "run")
    BY <1>4 DEF PutWrite
  <2>2. held[p] \in Id /\ t \in Task /\ pc[p] = "batch"
    BY <1>t, <1>4 DEF PutWrite, TypeOK, LocalsOK, Id
  <2>3. NewWrite(ran[held[p]][t]) \in Item
    BY <1>t, <2>2, ItemType DEF TypeOK, NewWrite
  <2>4. table' \in [Key -> Item \cup {Absent}]
    BY <1>t, <2>1, <2>3 DEF TypeOK
  <2>5. batch' \in [Process -> [task : Task \cup {Absent}, left : SUBSET Index]]
    BY <1>t, <2>1 DEF TypeOK, NoBatch
  <2>6. TypeOK'
    <3>1. /\ pc' \in [Process -> {"idle", "pending", "run", "batch", "stamp", "put"}]
          /\ done' \in [Process -> SUBSET Task]
      <4>1. done[p] \cup {t} \in SUBSET Task
        BY <1>t, <2>2 DEF TypeOK
      <4>2. done' = done \/ done' = [done EXCEPT ![p] = done[p] \cup {t}]
        BY <2>1
      <4>3. pc' = pc \/ pc' = [pc EXCEPT ![p] = "run"]
        BY <2>1 DEF Goto
      <4> HIDE DEF t
      <4> QED
        BY <1>t, <4>1, <4>2, <4>3 DEF TypeOK
    <3>2. UNCHANGED <<replica, now, stamp, held, new, ran>>
      BY <1>4 DEF PutWrite
    <3> QED
      BY <1>t, <2>4, <2>5, <3>1, <3>2 DEF TypeOK
  <2>7. /\ \A q \in Process \ {p} : batch'[q] = batch[q] /\ pc'[q] = pc[q] /\ done'[q] = done[q]
        /\ \/ batch'[p].task = t /\ pc'[p] = pc[p] /\ done'[p] = done[p]
           \/ pc'[p] = "run"
        /\ held' = held /\ new' = new
    BY <1>t, <1>4, <2>1 DEF TypeOK, PutWrite, Goto
  <2>8. LocalsOK'
    BY <1>t, <2>2, <2>7 DEF LocalsOK
  <2> QED
    BY <2>6, <2>8 DEF TInv
<1>5. ASSUME NEW p \in Process, Stamp(p) PROVE TInv'
  <2>1. TypeOK'
    BY <1>t, <1>5 DEF TypeOK, Stamp, Goto
  <2>2. LocalsOK'
    BY <1>t, <1>5 DEF TypeOK, LocalsOK, Stamp, Goto
  <2> QED
    BY <2>1, <2>2 DEF TInv
<1>6. ASSUME NEW p \in Process, PutCheckpoint(p) PROVE TInv'
  <2>1. NewCheckpoint(held[p]) \in Item
    BY <1>t, ItemType DEF TypeOK, NewCheckpoint
  <2>2. TypeOK'
    <3>1. table' \in [Key -> Item \cup {Absent}]
      BY <1>t, <1>6, <2>1 DEF TypeOK, PutCheckpoint
    <3>2. /\ pc' \in [Process -> {"idle", "pending", "run", "batch", "stamp", "put"}]
          /\ held' \in [Process -> 0..MaxId]
          /\ new' \in [Process -> 0..MaxId]
          /\ done' \in [Process -> SUBSET Task]
      BY <1>t, <1>6 DEF TypeOK, PutCheckpoint, Goto
    <3> QED
      BY <1>t, <1>6, <3>1, <3>2 DEF TypeOK, PutCheckpoint
  <2>3. LocalsOK'
    BY <1>t, <1>6 DEF TypeOK, LocalsOK, PutCheckpoint, Goto
  <2> QED
    BY <2>2, <2>3 DEF TInv
<1>7. ASSUME NEW p \in Process, Leave(p) PROVE TInv'
  <2>1. TypeOK'
    BY <1>t, <1>7 DEF TypeOK, Leave, Goto, NoBatch
  <2>2. LocalsOK'
    BY <1>t, <1>7 DEF TypeOK, LocalsOK, Leave, Goto
  <2> QED
    BY <2>1, <2>2 DEF TInv
<1>8. ASSUME Replicate \/ Tick \/ \E k \in Key : DeleteExpired(k) PROVE TInv'
  <2>1. TypeOK'
    <3>1. table' \in [Key -> Item \cup {Absent}] /\ replica' \in [Key -> Item \cup {Absent}]
      BY <1>t, <1>8 DEF TypeOK, Replicate, Tick, DeleteExpired
    <3>2. now' \in 0..MaxTime /\ UNCHANGED <<stamp, local, ran>>
      BY <1>t, <1>8 DEF TypeOK, Replicate, Tick, DeleteExpired
    <3> QED
      BY <1>t, <3>1, <3>2 DEF TypeOK, local
  <2>2. LocalsOK'
    BY <1>t, <1>8 DEF LocalsOK, Replicate, Tick, DeleteExpired, local
  <2> QED
    BY <2>1, <2>2 DEF TInv
<1>9. CASE UNCHANGED vars
  BY <1>t, <1>9 DEF vars, local, TInv, TypeOK, LocalsOK
<1> QED
  BY <1>1, <1>2, <1>3, <1>4, <1>5, <1>6, <1>7, <1>8, <1>9 DEF Next

\* Items, processes and history keep their types: no step stores a value the
\* readers of the table cannot interpret, and no process enters put_writes
\* without a checkpoint to write under.
THEOREM StoreTypeCorrect == Spec => []TypeOK
<1>1. TInv => TypeOK
  BY DEF TInv
<1> QED
  BY <1>1, TypeInit, TypeStep, PTL DEF Spec

-----------------------------------------------------------------------------
(* What a step does to the items.                                          *)

LEMMA NewestIs ==
  ASSUME NEW view
  PROVE  Newest(view) = 0 \/ (Newest(view) \in IdsIn(view) /\ Live(view[CheckpointKey(Newest(view))])
                              /\ \A j \in IdsIn(view) : j <= Newest(view))
<1>1. CASE IdsIn(view) = {}
  BY <1>1 DEF Newest
<1>2. CASE IdsIn(view) # {}
  <2>1. IdsIn(view) \subseteq Id
    BY DEF IdsIn
  <2>2. PICK m \in IdsIn(view) : \A j \in IdsIn(view) : j <= m
    BY <1>2, <2>1, Greatest
  <2>3. Max(IdsIn(view)) = m
    BY <2>1, <2>2, MaxIs
  <2> QED
    BY <2>2, <2>3 DEF Newest
<1> QED
  BY <1>1, <1>2

\* put_writes stores one item under the checkpoint its process holds.
LEMMA WriteEffect ==
  ASSUME TInv, NEW p \in Process, PutWrite(p)
  PROVE  \E t \in Task, i \in Index :
           /\ pc[p] = "batch" /\ held[p] \in Id /\ t = batch[p].task
           /\ UNCHANGED <<replica, now, stamp, held, new, ran>>
           /\ \A id \in Id : table'[CheckpointKey(id)] = table[CheckpointKey(id)]
           /\ table'[WriteKey(held[p], t, i)] = NewWrite(ran[held[p]][t])
           /\ \A id \in Id, s \in Task, j \in Index :
                \/ table'[WriteKey(id, s, j)] = table[WriteKey(id, s, j)]
                \/ id = held[p] /\ s = t /\ j = i
           /\ \A q \in Process : pc'[q] = "put" => pc[q] = "put"
           /\ \A q \in Process : pc'[q] = "batch" =>
                pc[q] = "batch" /\ batch'[q].task = batch[q].task
           /\ \A q \in Process : done'[q] = done[q] \/ (q = p /\ done'[q] = done[q] \cup {t})
           /\ \A q \in Process : pc[q] = "idle" <=> pc'[q] = "idle"
<1> DEFINE t == batch[p].task
<1>1. PICK i \in batch[p].left :
        /\ table' = [table EXCEPT ![WriteKey(held[p], t, i)] = NewWrite(ran[held[p]][t])]
        /\ \/ /\ batch' = [batch EXCEPT ![p].left = @ \ {i}]
              /\ UNCHANGED <<pc, done>>
           \/ /\ batch' = [batch EXCEPT ![p] = NoBatch]
              /\ done' = [done EXCEPT ![p] = @ \cup {t}]
              /\ Goto(p, "run")
  BY DEF PutWrite
<1>2. pc[p] = "batch" /\ held[p] \in Id /\ t \in Task /\ i \in Index
  BY DEF PutWrite, TInv, TypeOK, LocalsOK, Id
<1>3. UNCHANGED <<replica, now, stamp, held, new, ran>>
  BY DEF PutWrite
<1>4. \A k \in Key : table'[k] = IF k = WriteKey(held[p], t, i) THEN NewWrite(ran[held[p]][t])
                                                                ELSE table[k]
  BY <1>1 DEF TInv, TypeOK
<1>5. /\ \A id \in Id : table'[CheckpointKey(id)] = table[CheckpointKey(id)]
      /\ table'[WriteKey(held[p], t, i)] = NewWrite(ran[held[p]][t])
      /\ \A id \in Id, s \in Task, j \in Index :
           \/ table'[WriteKey(id, s, j)] = table[WriteKey(id, s, j)]
           \/ id = held[p] /\ s = t /\ j = i
  BY <1>2, <1>4, Keys
<1>6. /\ \A q \in Process : pc'[q] = "put" => pc[q] = "put"
      /\ \A q \in Process : pc'[q] = "batch" =>
           pc[q] = "batch" /\ batch'[q].task = batch[q].task
      /\ \A q \in Process : done'[q] = done[q] \/ (q = p /\ done'[q] = done[q] \cup {t})
      /\ \A q \in Process : pc[q] = "idle" <=> pc'[q] = "idle"
  <2>1. /\ pc \in [Process -> {"idle", "pending", "run", "batch", "stamp", "put"}]
        /\ done \in [Process -> SUBSET Task]
        /\ batch \in [Process -> [task : Task \cup {Absent}, left : SUBSET Index]]
    BY Zenon DEF TInv, TypeOK
  <2>2. CASE batch' = [batch EXCEPT ![p].left = @ \ {i}] /\ UNCHANGED <<pc, done>>
    BY <2>1, <2>2
  <2>3. CASE done' = [done EXCEPT ![p] = @ \cup {t}] /\ Goto(p, "run") /\ batch' = [batch EXCEPT ![p] = NoBatch]
    <3>1. \A q \in Process \ {p} : batch'[q] = batch[q] /\ pc'[q] = pc[q] /\ done'[q] = done[q]
      BY <2>1, <2>3 DEF Goto
    <3>2. pc'[p] = "run" /\ done'[p] = done[p] \cup {t}
      BY <2>1, <2>3 DEF Goto
    <3> QED
      BY <1>2, <3>1, <3>2
  <2> QED
    BY <1>1, <2>2, <2>3
<1> QED
  BY <1>2, <1>3, <1>5, <1>6

\* put stores one item under the id its process has drawn, and the process
\* builds on it from then on.
LEMMA CheckpointEffect ==
  ASSUME TInv, NEW p \in Process, PutCheckpoint(p)
  PROVE  /\ pc[p] = "put" /\ new[p] \in Id
         /\ UNCHANGED <<replica, now, stamp, batch, ran>>
         /\ table'[CheckpointKey(new[p])] = NewCheckpoint(held[p])
         /\ \A id \in Id : id = new[p] \/ table'[CheckpointKey(id)] = table[CheckpointKey(id)]
         /\ \A id \in Id, t \in Task, i \in Index :
              table'[WriteKey(id, t, i)] = table[WriteKey(id, t, i)]
         /\ held'[p] = new[p] /\ pc'[p] = "run" /\ done'[p] = {}
         /\ \A q \in Process \ {p} : /\ held'[q] = held[q] /\ pc'[q] = pc[q]
                                     /\ new'[q] = new[q] /\ done'[q] = done[q]
<1>1. pc[p] = "put" /\ new[p] \in Id
  BY DEF PutCheckpoint, TInv, TypeOK, LocalsOK, Id
<1>2. \A k \in Key : table'[k] = IF k = CheckpointKey(new[p]) THEN NewCheckpoint(held[p])
                                                             ELSE table[k]
  BY DEF PutCheckpoint, TInv, TypeOK
<1>3. /\ table'[CheckpointKey(new[p])] = NewCheckpoint(held[p])
      /\ \A id \in Id : id = new[p] \/ table'[CheckpointKey(id)] = table[CheckpointKey(id)]
      /\ \A id \in Id, t \in Task, i \in Index :
           table'[WriteKey(id, t, i)] = table[WriteKey(id, t, i)]
  BY <1>1, <1>2, Keys
<1>4. /\ held'[p] = new[p] /\ pc'[p] = "run" /\ done'[p] = {}
      /\ \A q \in Process \ {p} : /\ held'[q] = held[q] /\ pc'[q] = pc[q]
                                  /\ new'[q] = new[q] /\ done'[q] = done[q]
  BY DEF PutCheckpoint, TInv, TypeOK, Goto
<1> QED
  BY <1>1, <1>3, <1>4 DEF PutCheckpoint

\* DynamoDB only deletes what no longer counts.
LEMMA DeleteEffect ==
  ASSUME TInv, NEW k \in Key, DeleteExpired(k)
  PROVE  /\ UNCHANGED <<now, stamp, local, ran>>
         /\ \A l \in Key : table'[l] = table[l] \/ (table'[l] = Absent /\ ~ Live(table[l]))
         /\ \A l \in Key : replica'[l] = replica[l] \/ replica'[l] = Absent
<1>1. table[k] \in Item /\ now \in Nat
  BY DEF TInv, TypeOK, DeleteExpired
<1>2. ~ Live(table[k])
  BY <1>1 DEF Live, DeleteExpired, Item
<1>3. /\ \A l \in Key : table'[l] = IF l = k THEN Absent ELSE table[l]
      /\ \A l \in Key : replica'[l] = IF l = k THEN Absent ELSE replica[l]
  BY DEF DeleteExpired, TInv, TypeOK
<1> QED
  BY <1>2, <1>3 DEF DeleteExpired

-----------------------------------------------------------------------------
(* Ids.                                                                    *)

LEMMA IdsInit == Init => IdsOK
  BY StoreAssumption, Keys DEF Init, IdsOK, Unused, Id

LEMMA IdsStep == TInv /\ IdsOK /\ [Next]_vars => IdsOK'
<1> SUFFICES ASSUME TInv, IdsOK, [Next]_vars PROVE IdsOK'
  OBVIOUS
<1>t. /\ stamp \in Nat /\ \A q \in Process : held[q] \in Nat /\ new[q] \in Nat
      /\ \A q \in Process : pc[q] = "put" => new[q] \in Id
      /\ MaxId \in Nat /\ 0 \notin Id
  BY StoreAssumption DEF TInv, TypeOK, LocalsOK, Id
<1>1. ASSUME NEW p \in Process, LoadCheckpoint(p) PROVE IdsOK'
  <2>1. held'[p] = Newest(table)
    BY <1>1 DEF LoadCheckpoint, LatestView, TInv, TypeOK
  <2>2. held'[p] = 0 \/ held'[p] \in Stored
    BY <2>1, NewestIs DEF Stored
  <2>3. held'[p] = 0 \/ (held'[p] \in Id /\ ~ Unused(held'[p]))
    <3>1. \A id \in Stored : id \in Id /\ ~ Unused(id)
      BY DEF Stored, IdsIn, Unused
    <3> QED
      BY <2>2, <3>1
  <2>4. held'[p] <= stamp
    BY <1>t, <2>3 DEF IdsOK, Id
  <2>5. /\ \A q \in Process \ {p} : held'[q] = held[q] /\ pc'[q] = pc[q]
        /\ pc'[p] # "put" /\ UNCHANGED <<table, stamp, new>>
    BY <1>1 DEF LoadCheckpoint, Goto, TInv, TypeOK
  <2>6. \A id \in Id : Unused(id) => Unused(id)'
    BY <1>t, <2>3, <2>5 DEF Unused
  <2> QED
    BY <1>t, <2>4, <2>5, <2>6 DEF IdsOK
<1>2. ASSUME NEW p \in Process, LoadWrites(p) \/ Execute(p) \/ Leave(p) PROVE IdsOK'
  <2>1. /\ \A q \in Process : /\ held'[q] = held[q] \/ held'[q] = 0
                              /\ pc'[q] = "put" => /\ pc[q] = "put" /\ new'[q] = new[q]
                                                   /\ held'[q] = held[q]
        /\ UNCHANGED <<table, stamp>>
    BY <1>2 DEF LoadWrites, Execute, Leave, Goto, TInv, TypeOK
  <2>2. \A id \in Id : Unused(id) => Unused(id)'
    BY <1>t, <2>1 DEF Unused
  <2> QED
    BY <1>t, <2>1, <2>2 DEF IdsOK
<1>3. ASSUME NEW p \in Process, PutWrite(p) PROVE IdsOK'
  <2>1. PICK t \in Task, i \in Index :
          /\ UNCHANGED <<stamp, held, new>>
          /\ \A id \in Id : table'[CheckpointKey(id)] = table[CheckpointKey(id)]
          /\ \A id \in Id, s \in Task, j \in Index :
               \/ table'[WriteKey(id, s, j)] = table[WriteKey(id, s, j)]
               \/ id = held[p] /\ s = t /\ j = i
          /\ \A q \in Process : pc'[q] = "put" => pc[q] = "put"
    BY <1>3, WriteEffect
  <2>2. \A id \in Id : Unused(id) => Unused(id)'
    BY <2>1 DEF Unused
  <2> QED
    BY <1>t, <2>1, <2>2 DEF IdsOK
<1>4. ASSUME NEW p \in Process, Stamp(p) PROVE IdsOK'
  <2>1. /\ stamp' = stamp + 1 /\ new'[p] = stamp + 1 /\ stamp + 1 \in Id
        /\ \A q \in Process \ {p} : new'[q] = new[q] /\ pc'[q] = pc[q]
        /\ UNCHANGED <<table, held>>
    BY <1>4, <1>t DEF Stamp, Goto, TInv, TypeOK, Id
  <2>2. \A id \in Id : Unused(id) => Unused(id)'
    BY <2>1 DEF Unused
  <2>3. /\ \A q \in Process : held'[q] <= stamp'
        /\ \A id \in Id : id > stamp' => Unused(id)'
    BY <1>t, <2>1, <2>2 DEF IdsOK, Id
  <2>4. held'[p] < new'[p] /\ new'[p] <= stamp' /\ Unused(new[p])'
    BY <1>t, <2>1, <2>2 DEF IdsOK
  <2>5. \A q \in Process \ {p} : pc[q] = "put" =>
          /\ held'[q] < new'[q] /\ new'[q] <= stamp' /\ Unused(new[q])'
          /\ new'[q] # new'[p]
          /\ \A r \in Process \ {p, q} : pc[r] = "put" => new'[r] # new'[q]
    BY <1>t, <2>1, <2>2 DEF IdsOK
  <2> QED
    BY <2>1, <2>3, <2>4, <2>5 DEF IdsOK
<1>5. ASSUME NEW p \in Process, PutCheckpoint(p) PROVE IdsOK'
  <2>1. /\ pc[p] = "put" /\ new[p] \in Id /\ stamp' = stamp
        /\ \A id \in Id : id = new[p] \/ table'[CheckpointKey(id)] = table[CheckpointKey(id)]
        /\ \A id \in Id, t \in Task, i \in Index :
             table'[WriteKey(id, t, i)] = table[WriteKey(id, t, i)]
        /\ held'[p] = new[p] /\ pc'[p] = "run"
        /\ \A q \in Process \ {p} : held'[q] = held[q] /\ pc'[q] = pc[q] /\ new'[q] = new[q]
    BY <1>5, CheckpointEffect
  <2>2. \A id \in Id : id # new[p] /\ Unused(id) => Unused(id)'
    BY <2>1 DEF Unused
  <2>3. new[p] <= stamp
    BY <2>1 DEF IdsOK
  <2>4. /\ \A q \in Process : held'[q] <= stamp'
        /\ \A id \in Id : id > stamp' => Unused(id)'
    BY <1>t, <2>1, <2>2, <2>3 DEF IdsOK, Id
  <2>5. \A q \in Process \ {p} : pc[q] = "put" =>
          /\ held'[q] < new'[q] /\ new'[q] <= stamp' /\ Unused(new[q])'
          /\ \A r \in Process \ {p, q} : pc[r] = "put" => new'[r] # new'[q]
    BY <1>t, <2>1, <2>2 DEF IdsOK
  <2> QED
    BY <2>1, <2>4, <2>5 DEF IdsOK
<1>6. ASSUME NEW k \in Key, DeleteExpired(k) PROVE IdsOK'
  <2>1. /\ UNCHANGED <<stamp, pc, held, new>>
        /\ \A l \in Key : table'[l] = table[l] \/ table'[l] = Absent
    BY <1>6, DeleteEffect DEF local
  <2>2. \A id \in Id : Unused(id) => Unused(id)'
    BY <2>1, Keys DEF Unused
  <2> QED
    BY <1>t, <2>1, <2>2 DEF IdsOK
<1>7. CASE Replicate \/ Tick \/ UNCHANGED vars
  <2>1. UNCHANGED <<table, stamp, pc, held, new>>
    BY <1>7 DEF Replicate, Tick, vars, local
  <2> QED
    BY <2>1 DEF IdsOK, Unused
<1> QED
  BY <1>1, <1>2, <1>3, <1>4, <1>5, <1>6, <1>7 DEF Next

-----------------------------------------------------------------------------
(* Expiry.                                                                 *)

LEMMA ExpiryTypes ==
  ASSUME TInv
  PROVE  /\ \A id \in Stored : id \in Nat /\ Expiry(id) \in Nat
         /\ \A id \in Id, t \in Task, i \in Index :
              table[WriteKey(id, t, i)] # Absent => table[WriteKey(id, t, i)].expire \in Nat
         /\ ExpireAt \in Nat /\ ExpireAt > now /\ now \in Nat
<1>1. \A k \in Key : table[k] # Absent => table[k] \in Item
  BY DEF TInv, TypeOK
<1>2. \A item \in Item : item.expire \in Nat
  BY DEF Item
<1>3. ExpireAt \in Nat /\ ExpireAt > now /\ now \in Nat
  BY StoreAssumption DEF TInv, TypeOK, ExpireAt, Never
<1> QED
  BY <1>1, <1>2, <1>3, Keys DEF Stored, IdsIn, Expiry, Id

LEMMA ExpiryInit == Init => ExpiryOK
  BY Keys DEF Init, ExpiryOK, Stored, IdsIn

LEMMA ExpiryStep == TInv /\ IdsOK /\ ExpiryOK /\ [Next]_vars => ExpiryOK'
<1> SUFFICES ASSUME TInv, IdsOK, ExpiryOK, [Next]_vars PROVE ExpiryOK'
  OBVIOUS
<1>t. /\ \A id \in Stored : id \in Nat /\ Expiry(id) \in Nat
      /\ ExpireAt \in Nat
  BY ExpiryTypes
<1>1. ASSUME UNCHANGED <<table, now>>,
             \A q \in Process : pc'[q] = "put" => pc[q] = "put" /\ new'[q] = new[q]
      PROVE  ExpiryOK'
  <2>1. Stored' = Stored /\ ExpireAt' = ExpireAt /\ \A id \in Id : Expiry(id)' = Expiry(id)
    BY <1>1 DEF Stored, IdsIn, ExpireAt, Expiry
  <2>2. Stored \subseteq Id
    BY DEF Stored, IdsIn
  <2> QED
    BY <1>1, <2>1, <2>2 DEF ExpiryOK
<1>2. ASSUME NEW p \in Process, LoadCheckpoint(p) \/ LoadWrites(p) \/ Execute(p) \/ Leave(p)
      PROVE  ExpiryOK'
  <2>1. /\ UNCHANGED <<table, now>>
        /\ \A q \in Process : pc'[q] = "put" => pc[q] = "put" /\ new'[q] = new[q]
    BY <1>2 DEF LoadCheckpoint, LoadWrites, Execute, Leave, Goto, TInv, TypeOK
  <2> QED
    BY <1>1, <2>1
<1>3. CASE Replicate \/ UNCHANGED vars
  <2>1. UNCHANGED <<table, now, pc, new>>
    BY <1>3 DEF Replicate, vars, local
  <2> QED
    BY <1>1, <2>1
<1>4. ASSUME NEW p \in Process, Stamp(p) PROVE ExpiryOK'
  <2>1. /\ new'[p] = stamp + 1 /\ UNCHANGED <<table, now>>
        /\ \A q \in Process \ {p} : new'[q] = new[q] /\ pc'[q] = pc[q]
    BY <1>4 DEF Stamp, Goto, TInv, TypeOK
  <2>2. Stored' = Stored /\ ExpireAt' = ExpireAt /\ \A id \in Id : Expiry(id)' = Expiry(id)
    BY <2>1 DEF Stored, IdsIn, ExpireAt, Expiry
  <2>3. \A j \in Stored : j \in Id /\ ~ (stamp + 1 < j)
    BY <1>t DEF IdsOK, Unused, Stored, IdsIn, TInv, TypeOK
  <2> QED
    BY <2>1, <2>2, <2>3 DEF ExpiryOK
<1>5. CASE Tick
  <2>1. /\ UNCHANGED <<table, pc>> /\ now' = now + 1 /\ now \in Nat
        /\ \A q \in Process : pc[q] # "put"
    BY <1>5 DEF Tick, local, TInv, TypeOK
  <2>2. Stored' = Stored /\ \A id \in Id : Expiry(id)' = Expiry(id)
    BY <2>1 DEF Stored, IdsIn, Expiry
  <2>3. ExpireAt' \in Nat /\ ExpireAt <= ExpireAt'
    BY <2>1, StoreAssumption DEF ExpireAt, Never
  <2>4. Stored \subseteq Id
    BY DEF Stored, IdsIn
  <2>5. \A id \in Stored : Expiry(id) <= ExpireAt'
    BY <1>t, <2>3 DEF ExpiryOK
  <2> QED
    BY <2>1, <2>2, <2>4, <2>5 DEF ExpiryOK
<1>6. ASSUME NEW p \in Process, PutWrite(p) PROVE ExpiryOK'
  <2>1. PICK t \in Task, i \in Index :
          /\ held[p] \in Id /\ UNCHANGED <<now, new>>
          /\ \A id \in Id : table'[CheckpointKey(id)] = table[CheckpointKey(id)]
          /\ table'[WriteKey(held[p], t, i)] = NewWrite(ran[held[p]][t])
          /\ \A id \in Id, s \in Task, j \in Index :
               \/ table'[WriteKey(id, s, j)] = table[WriteKey(id, s, j)]
               \/ id = held[p] /\ s = t /\ j = i
          /\ \A q \in Process : pc'[q] = "put" => pc[q] = "put"
    BY <1>6, WriteEffect
  <2>2. Stored' = Stored /\ ExpireAt' = ExpireAt /\ \A id \in Id : Expiry(id)' = Expiry(id)
    BY <2>1 DEF Stored, IdsIn, ExpireAt, Expiry
  <2>3. Stored \subseteq Id
    BY DEF Stored, IdsIn
  <2>4. table'[WriteKey(held[p], t, i)].expire = ExpireAt
    BY <2>1 DEF NewWrite
  <2>5. ASSUME NEW id \in Stored, NEW s \in Task, NEW j \in Index,
               table'[WriteKey(id, s, j)] # Absent
        PROVE  Expiry(id) <= table'[WriteKey(id, s, j)].expire
    <3>1. CASE table'[WriteKey(id, s, j)] = table[WriteKey(id, s, j)]
      BY <2>5, <3>1 DEF ExpiryOK
    <3>2. CASE id = held[p] /\ s = t /\ j = i
      BY <2>4, <3>2 DEF ExpiryOK
    <3> QED
      BY <2>1, <2>3, <3>1, <3>2
  <2> QED
    BY <2>1, <2>2, <2>3, <2>5 DEF ExpiryOK
<1>7. ASSUME NEW p \in Process, PutCheckpoint(p) PROVE ExpiryOK'
  <2>0. PICK n : n = new[p]
    OBVIOUS
  <2>1. /\ pc[p] = "put" /\ n \in Id /\ UNCHANGED now
        /\ table'[CheckpointKey(n)] = NewCheckpoint(held[p])
        /\ \A id \in Id : id = n \/ table'[CheckpointKey(id)] = table[CheckpointKey(id)]
        /\ \A id \in Id, t \in Task, i \in Index :
             table'[WriteKey(id, t, i)] = table[WriteKey(id, t, i)]
        /\ pc'[p] = "run"
        /\ \A q \in Process \ {p} : pc'[q] = pc[q] /\ new'[q] = new[q]
    BY <1>7, <2>0, CheckpointEffect
  <2>2. /\ Expiry(n)' = ExpireAt /\ ExpireAt' = ExpireAt
        /\ \A id \in Id \ {n} : Expiry(id)' = Expiry(id)
    BY <2>1 DEF Expiry, NewCheckpoint, ExpireAt
  <2>3. \A id \in Stored' : id = n \/ (id \in Stored /\ id # n)
    BY <2>1 DEF Stored, IdsIn
  <2>4. Stored \subseteq Id /\ n \in Nat
    BY <2>1 DEF Stored, IdsIn, Id
  <2>5. \A id \in Stored' : Expiry(id)' <= ExpireAt'
    BY <1>t, <2>2, <2>3, <2>4 DEF ExpiryOK
  <2>6. \A i, j \in Stored' : i < j => Expiry(i)' <= Expiry(j)'
    BY <1>t, <2>0, <2>1, <2>2, <2>3, <2>4 DEF ExpiryOK
  <2>7. \A q \in Process : pc'[q] = "put" =>
          \A j \in Stored' : new'[q] < j => Expiry(j)' = ExpireAt'
    BY <2>1, <2>2, <2>3, <2>4 DEF ExpiryOK
  <2>8. \A t \in Task, i \in Index : table'[WriteKey(n, t, i)] = Absent
    BY <2>0, <2>1 DEF IdsOK, Unused
  <2>9. \A id \in Stored', t \in Task, i \in Index :
          table'[WriteKey(id, t, i)] # Absent =>
            Expiry(id)' <= table'[WriteKey(id, t, i)].expire
    <3> SUFFICES ASSUME NEW id \in Stored', NEW t \in Task, NEW i \in Index,
                        table'[WriteKey(id, t, i)] # Absent
                 PROVE  Expiry(id)' <= table'[WriteKey(id, t, i)].expire
      OBVIOUS
    <3>1. id \in Stored /\ id \in Id \ {n}
      BY <2>3, <2>4, <2>8
    <3>2. table'[WriteKey(id, t, i)] = table[WriteKey(id, t, i)] /\ Expiry(id)' = Expiry(id)
      BY <2>1, <2>2, <3>1
    <3>3. table[WriteKey(id, t, i)] # Absent => Expiry(id) <= table[WriteKey(id, t, i)].expire
      BY <3>1 DEF ExpiryOK
    <3> QED
      BY <3>2, <3>3
  <2> QED
    BY <2>5, <2>6, <2>7, <2>9 DEF ExpiryOK
<1>8. ASSUME NEW k \in Key, DeleteExpired(k) PROVE ExpiryOK'
  <2>1. /\ UNCHANGED <<now, pc, new>>
        /\ \A l \in Key : table'[l] = table[l] \/ table'[l] = Absent
    BY <1>8, DeleteEffect DEF local
  <2>2. Stored' \subseteq Stored /\ Stored \subseteq Id /\ ExpireAt' = ExpireAt
        /\ \A id \in Stored' : Expiry(id)' = Expiry(id)
    BY <2>1, Keys DEF Stored, IdsIn, ExpireAt, Expiry
  <2>3. \A id \in Stored', t \in Task, i \in Index :
          table'[WriteKey(id, t, i)] # Absent =>
            table'[WriteKey(id, t, i)] = table[WriteKey(id, t, i)]
    BY <2>1, <2>2, Keys
  <2> QED
    BY <2>1, <2>2, <2>3 DEF ExpiryOK
<1> QED
  BY <1>2, <1>3, <1>4, <1>5, <1>6, <1>7, <1>8 DEF Next

LEMMA StoreInvariance == Spec => []IInv
<1>1. Init => IInv
  BY TypeInit, IdsInit, ExpiryInit DEF IInv
<1>2. IInv /\ [Next]_vars => IInv'
  BY TypeStep, IdsStep, ExpiryStep DEF IInv
<1> QED
  BY <1>1, <1>2, PTL DEF Spec

\* As long as a checkpoint can be loaded none of its pending writes has expired,
\* whatever the order in which containers draw ids and put (utils.py:154, 190).
THEOREM WritesOutlive == Spec => []WritesOutliveTheirCheckpoint
<1>1. IInv => WritesOutliveTheirCheckpoint
  <2> SUFFICES ASSUME IInv, NEW id \in Stored, NEW t \in Task, NEW i \in Index,
                      table[WriteKey(id, t, i)] # Absent, Live(table[CheckpointKey(id)])
               PROVE  Live(table[WriteKey(id, t, i)])
    BY DEF WritesOutliveTheirCheckpoint
  <2>1. id \in Id
    BY DEF Stored, IdsIn
  <2> QED
    BY <2>1, ExpiryTypes DEF IInv, ExpiryOK, Expiry, Live
<1> QED
  BY <1>1, StoreInvariance, PTL

-----------------------------------------------------------------------------
(* History.                                                                *)

LEMMA RanInit == Init => RanOK
  BY Keys DEF Init, RanOK, SkipsOnlyWhatRan

LEMMA RanStep == TInv /\ RanOK /\ [Next]_vars => RanOK'
<1> SUFFICES ASSUME TInv, RanOK, [Next]_vars PROVE RanOK'
  OBVIOUS
<1> DEFINE WritesRan(view, runs) ==
      \A id \in Id, t \in Task, i \in Index :
        view[WriteKey(id, t, i)] # Absent => runs[id][t] > 0
<1>t. /\ WritesRan(table, ran) /\ WritesRan(replica, ran)
      /\ \A p \in Process : pc[p] = "batch" => ran[held[p]][batch[p].task] > 0
      /\ \A p \in Process : held[p] # 0 => \A t \in done[p] : ran[held[p]][t] > 0
  BY DEF RanOK, SkipsOnlyWhatRan
<1>q. ASSUME WritesRan(table', ran') /\ WritesRan(replica', ran'),
             \A p \in Process : pc'[p] = "batch" => ran'[held'[p]][batch'[p].task] > 0,
             \A p \in Process : held'[p] # 0 => \A t \in done'[p] : ran'[held'[p]][t] > 0
      PROVE  RanOK'
  BY <1>q DEF RanOK, SkipsOnlyWhatRan
<1> HIDE DEF WritesRan
<1>1. ASSUME NEW p \in Process, LoadCheckpoint(p) PROVE RanOK'
  <2>1. /\ UNCHANGED <<table, replica, batch, ran>> /\ done'[p] = {} /\ pc'[p] # "batch"
        /\ \A q \in Process \ {p} : held'[q] = held[q] /\ pc'[q] = pc[q] /\ done'[q] = done[q]
    BY <1>1 DEF LoadCheckpoint, Goto, TInv, TypeOK, LocalsOK
  <2> QED
    BY <1>t, <1>q, <2>1
<1>2. ASSUME NEW p \in Process, LoadWrites(p) PROVE RanOK'
  <2>1. PICK view \in {table, replica} : done' = [done EXCEPT ![p] = WritesIn(view, held[p])]
    BY <1>2 DEF LoadWrites
  <2>2. held[p] \in Id
    BY <1>2 DEF LoadWrites, TInv, TypeOK, LocalsOK, Id
  <2>3. \A t \in WritesIn(view, held[p]) : ran[held[p]][t] > 0
    BY <1>t, <2>2 DEF WritesIn, WritesRan
  <2>4. /\ UNCHANGED <<table, replica, held, batch, ran>> /\ pc'[p] # "batch"
        /\ done'[p] = WritesIn(view, held[p])
        /\ \A q \in Process \ {p} : pc'[q] = pc[q] /\ done'[q] = done[q]
    BY <1>2, <2>1 DEF LoadWrites, Goto, TInv, TypeOK
  <2> QED
    BY <1>t, <1>q, <2>3, <2>4
<1>3. ASSUME NEW p \in Process, Execute(p) PROVE RanOK'
  <2>1. PICK t \in Task :
          /\ ran' = [ran EXCEPT ![held[p]][t] = @ + 1]
          /\ batch' = [batch EXCEPT ![p] = [task |-> t, left |-> WriteIndexes]]
    BY <1>3 DEF Execute
  <2>2. held[p] \in Id /\ ran \in [Id -> [Task -> 0..MaxRuns]]
    BY <1>3 DEF Execute, TInv, TypeOK, LocalsOK, Id
  <2>3. ran'[held[p]][t] > 0 /\ \A id \in Id, s \in Task : ran[id][s] > 0 => ran'[id][s] > 0
    BY <2>1, <2>2, StoreAssumption
  <2>4. WritesRan(table, ran') /\ WritesRan(replica, ran')
    BY <1>t, <2>3 DEF WritesRan
  <2>5. /\ UNCHANGED <<table, replica, held, done>> /\ batch'[p].task = t
        /\ \A q \in Process \ {p} : pc'[q] = pc[q] /\ batch'[q] = batch[q]
    BY <1>3, <2>1 DEF Execute, Goto, TInv, TypeOK
  <2>6. \A q \in Process : /\ held[q] = 0 \/ held[q] \in Id
                           /\ done[q] \subseteq Task
                           /\ pc[q] = "batch" => held[q] \in Id /\ batch[q].task \in Task
    BY DEF TInv, TypeOK, LocalsOK, Id
  <2>7. \A q \in Process : pc'[q] = "batch" => ran'[held'[q]][batch'[q].task] > 0
    BY <1>t, <2>3, <2>5, <2>6
  <2>8. \A q \in Process : held'[q] # 0 => \A s \in done'[q] : ran'[held'[q]][s] > 0
    BY <1>t, <2>3, <2>5, <2>6
  <2> QED
    BY <1>q, <2>4, <2>5, <2>7, <2>8
<1>4. ASSUME NEW p \in Process, PutWrite(p) PROVE RanOK'
  <2>1. PICK t \in Task, i \in Index :
          /\ pc[p] = "batch" /\ t = batch[p].task
          /\ UNCHANGED <<replica, held, ran>>
          /\ \A id \in Id, s \in Task, j \in Index :
               \/ table'[WriteKey(id, s, j)] = table[WriteKey(id, s, j)]
               \/ id = held[p] /\ s = t /\ j = i
          /\ \A q \in Process : pc'[q] = "batch" =>
               pc[q] = "batch" /\ batch'[q].task = batch[q].task
          /\ \A q \in Process : done'[q] = done[q] \/ (q = p /\ done'[q] = done[q] \cup {t})
    BY <1>4, WriteEffect
  <2>2. ran[held[p]][t] > 0
    BY <1>t, <2>1
  <2>3. WritesRan(table', ran)
    BY <1>t, <2>1, <2>2 DEF WritesRan
  <2> QED
    BY <1>t, <1>q, <2>1, <2>2, <2>3
<1>5. ASSUME NEW p \in Process, PutCheckpoint(p) PROVE RanOK'
  <2>1. /\ UNCHANGED <<replica, batch, ran>>
        /\ \A id \in Id, t \in Task, i \in Index :
             table'[WriteKey(id, t, i)] = table[WriteKey(id, t, i)]
        /\ pc'[p] = "run" /\ done'[p] = {}
        /\ \A q \in Process \ {p} : held'[q] = held[q] /\ pc'[q] = pc[q] /\ done'[q] = done[q]
    BY <1>5, CheckpointEffect
  <2>2. WritesRan(table', ran)
    BY <1>t, <2>1 DEF WritesRan
  <2> QED
    BY <1>t, <1>q, <2>1, <2>2
<1>6. ASSUME NEW p \in Process, Stamp(p) \/ Leave(p) PROVE RanOK'
  <2>1. /\ UNCHANGED <<table, replica, ran>> /\ pc'[p] # "batch"
        /\ held'[p] = 0 \/ (held'[p] = held[p] /\ done'[p] = done[p])
        /\ \A q \in Process \ {p} : /\ held'[q] = held[q] /\ pc'[q] = pc[q]
                                    /\ done'[q] = done[q] /\ batch'[q] = batch[q]
    BY <1>6 DEF Stamp, Leave, Goto, TInv, TypeOK
  <2> QED
    BY <1>t, <1>q, <2>1
<1>7. CASE Replicate \/ Tick \/ UNCHANGED vars
  <2>1. /\ UNCHANGED <<table, pc, held, done, batch, ran>>
        /\ replica' = table \/ replica' = replica
    BY <1>7 DEF Replicate, Tick, vars, local
  <2> QED
    BY <1>t, <1>q, <2>1
<1>8. ASSUME NEW k \in Key, DeleteExpired(k) PROVE RanOK'
  <2>1. /\ UNCHANGED <<pc, held, done, batch, ran>>
        /\ \A l \in Key : table'[l] = table[l] \/ table'[l] = Absent
        /\ \A l \in Key : replica'[l] = replica[l] \/ replica'[l] = Absent
    BY <1>8, DeleteEffect DEF local
  <2>2. WritesRan(table', ran) /\ WritesRan(replica', ran)
    BY <1>t, <2>1, Keys DEF WritesRan
  <2> QED
    BY <1>t, <1>q, <2>1, <2>2
<1> QED
  BY <1>1, <1>2, <1>3, <1>4, <1>5, <1>6, <1>7, <1>8 DEF Next

\* Whatever a replica lags behind and a crash leaves over, a run skips a task
\* only when the task has been executed at that very checkpoint.
THEOREM SkipsOnlyRan == Spec => []SkipsOnlyWhatRan
<1>1. RanOK => SkipsOnlyWhatRan
  BY DEF RanOK
<1> QED
  BY <1>1, TypeInit, TypeStep, RanInit, RanStep, PTL DEF Spec

-----------------------------------------------------------------------------
(* The register.                                                           *)

LEMMA MaxOfIds ==
  ASSUME NEW S \in SUBSET Id, S # {}
  PROVE  Max(S) \in S /\ \A j \in S : j <= Max(S)
<1>1. PICK m \in S : \A j \in S : j <= m
  BY Greatest
<1> QED
  BY <1>1, MaxIs

\* Newest, written out for this state and the next.
LEMMA NewestCases ==
  /\ Stored = {} => Newest(table) = 0
  /\ \A m \in Stored : (\A j \in Stored : j <= m) =>
       Newest(table) = IF Live(table[CheckpointKey(m)]) THEN m ELSE 0
<1>1. Stored \in SUBSET Id
  BY DEF Stored, IdsIn
<1>2. \A m \in Stored : (\A j \in Stored : j <= m) => Max(Stored) = m
  BY <1>1, MaxIs
<1> QED
  BY <1>2 DEF Newest, Stored

LEMMA NewestCasesNext ==
  /\ Stored' = {} => Newest(table)' = 0
  /\ \A m \in Stored' : (\A j \in Stored' : j <= m) =>
       Newest(table)' = IF table'[CheckpointKey(m)].expire > now' THEN m ELSE 0
<1>1. Stored' \in SUBSET Id
  BY DEF Stored, IdsIn
<1>2. \A m \in Stored' : (\A j \in Stored' : j <= m) => Max(Stored') = m
  BY <1>1, MaxIs
<1> QED
  BY <1>2 DEF Newest, Stored, IdsIn, Live

Running == {p \in Process : pc[p] # "idle"}

LEMMA RegisterStep ==
  ASSUME IInv, [Next]_vars
  PROVE  [Register!Next]_(Register!vars)
<1>t. /\ TypeOK /\ LocalsOK /\ IdsOK /\ ExpiryOK /\ TInv
      /\ \A id \in Stored : id \in Id /\ id \in Nat
      /\ Stored \in SUBSET Id
  BY DEF IInv, TInv, Stored, IdsIn, Id
<1>s. ASSUME Newest(table)' = Newest(table), Running' = Running, held' = held
      PROVE  [Register!Next]_(Register!vars)
  BY <1>s DEF Register!vars, Running
<1>n. ASSUME UNCHANGED now,
             \A id \in Id : table'[CheckpointKey(id)] = table[CheckpointKey(id)]
      PROVE  Newest(table)' = Newest(table)
  <2>1. IdsIn(table)' = IdsIn(table)
    BY <1>n DEF IdsIn
  <2>2. IdsIn(table) # {} => Max(IdsIn(table)) \in Id
    BY <1>t, MaxOfIds DEF Stored
  <2> QED
    BY <1>n, <2>1, <2>2 DEF Newest, Live
<1>1. ASSUME NEW p \in Process, LoadCheckpoint(p) PROVE [Register!Next]_(Register!vars)
  <2>1. /\ pc[p] = "idle" /\ pc'[p] # "idle" /\ \A q \in Process \ {p} : pc'[q] = pc[q]
        /\ held' = [held EXCEPT ![p] = Newest(table)]
        /\ Newest(table)' = Newest(table)
    BY <1>1, <1>t, <1>n DEF LoadCheckpoint, LatestView, Goto, TypeOK
  <2>2. p \notin Running /\ Running' = Running \cup {p}
    BY <2>1 DEF Running
  <2>3. Register!Load(p)
    BY <2>1, <2>2 DEF Register!Load, Running
  <2> QED
    BY <2>3 DEF Register!Next
<1>2. ASSUME NEW p \in Process, LoadWrites(p) \/ Execute(p) \/ Stamp(p)
      PROVE  [Register!Next]_(Register!vars)
  <2>1. /\ pc[p] # "idle" /\ pc'[p] # "idle" /\ \A q \in Process \ {p} : pc'[q] = pc[q]
        /\ UNCHANGED <<table, now, held>>
    BY <1>2, <1>t DEF LoadWrites, Execute, Stamp, Goto, TypeOK
  <2>2. Running' = Running
    BY <2>1 DEF Running
  <2> QED
    BY <1>s, <1>n, <2>1, <2>2
<1>3. ASSUME NEW p \in Process, Leave(p) PROVE [Register!Next]_(Register!vars)
  <2>1. /\ pc[p] # "idle" /\ pc'[p] = "idle" /\ \A q \in Process \ {p} : pc'[q] = pc[q]
        /\ held' = [held EXCEPT ![p] = 0]
        /\ Newest(table)' = Newest(table)
    BY <1>3, <1>t, <1>n DEF Leave, Goto, TypeOK
  <2>2. p \in Running /\ Running' = Running \ {p}
    BY <2>1 DEF Running
  <2>3. Register!Leave(p)
    BY <2>1, <2>2 DEF Register!Leave, Running
  <2> QED
    BY <2>3 DEF Register!Next
<1>4. ASSUME NEW p \in Process, PutWrite(p) PROVE [Register!Next]_(Register!vars)
  <2>1. /\ UNCHANGED <<now, held>>
        /\ \A id \in Id : table'[CheckpointKey(id)] = table[CheckpointKey(id)]
        /\ \A q \in Process : pc[q] = "idle" <=> pc'[q] = "idle"
    BY <1>4, <1>t, WriteEffect
  <2>2. Running' = Running
    BY <2>1 DEF Running
  <2> QED
    BY <1>s, <1>n, <2>1, <2>2
<1>5. ASSUME NEW p \in Process, PutCheckpoint(p) PROVE [Register!Next]_(Register!vars)
  <2>0. PICK n : n = new[p]
    OBVIOUS
  <2>1. /\ pc[p] = "put" /\ n \in Id /\ n \in Nat /\ UNCHANGED now
        /\ table'[CheckpointKey(n)] = NewCheckpoint(held[p])
        /\ \A id \in Id : id = n \/ table'[CheckpointKey(id)] = table[CheckpointKey(id)]
        /\ pc'[p] = "run"
        /\ \A q \in Process \ {p} : pc'[q] = pc[q]
    BY <1>5, <1>t, <2>0, CheckpointEffect DEF Id
  <2>2. held' = [held EXCEPT ![p] = n]
    BY <1>5, <2>0 DEF PutCheckpoint
  <2>3. Running' = Running /\ p \in Running
    BY <2>1 DEF Running
  <2>4. n > held[p] /\ held[p] \in Nat /\ n \notin Stored
    BY <1>t, <2>0, <2>1 DEF IdsOK, Unused, Stored, IdsIn, TypeOK
  <2>5. NewCheckpoint(held[p]) # Absent
    BY <1>t, <2>4, ItemType, AbsentIsNoItem DEF NewCheckpoint
  <2>6. Stored' = Stored \cup {n}
    BY <2>1, <2>5 DEF Stored, IdsIn
  <2>7. ExpireAt > now
    BY <1>t, ExpiryTypes
  <2>8. CASE \A j \in Stored : j < n
    <3>1. \A j \in Stored' : j <= n
      BY <1>t, <2>1, <2>6, <2>8
    <3>2. Newest(table)' = n
      BY <2>1, <2>6, <2>7, <3>1, NewestCasesNext DEF NewCheckpoint
    <3>3. Newest(table) = 0 \/ Newest(table) \in Stored
      BY NewestIs DEF Stored
    <3>4. n > Newest(table)
      BY <2>1, <2>8, <3>3 DEF Id
    <3>5. Register!Put(p)
      BY <2>1, <2>2, <2>3, <2>4, <3>2, <3>4 DEF Register!Put, Running
    <3> QED
      BY <3>5 DEF Register!Next
  <2>9. CASE \E j \in Stored : n < j
    <3>1. PICK m \in Stored : \A j \in Stored : j <= m
      BY <1>t, <2>9, Greatest
    <3>2. n < m /\ m \in Id /\ m \in Nat
      BY <1>t, <2>1, <2>9, <3>1
    <3>3. table'[CheckpointKey(m)] = table[CheckpointKey(m)] /\ Expiry(m) = ExpireAt
      BY <1>t, <2>0, <2>1, <3>2 DEF ExpiryOK
    <3>4. Newest(table) = m
      BY <2>7, <3>1, <3>3, NewestCases DEF Expiry, Live
    <3>5. Newest(table)' = m
      BY <2>1, <2>6, <2>7, <3>1, <3>2, <3>3, NewestCasesNext DEF Expiry
    <3>6. held[p] # m
      BY <2>4, <3>2, <2>1
    <3>7. Register!Put(p)
      BY <2>1, <2>2, <2>3, <2>4, <3>2, <3>4, <3>5, <3>6 DEF Register!Put, Running
    <3> QED
      BY <3>7 DEF Register!Next
  <2>10. \A j \in Stored : j < n \/ n < j
    <3>1. \A j \in Stored : j \in Nat /\ j # n
      BY <1>t, <2>4
    <3> QED
      BY <2>1, <3>1
  <2> QED
    BY <2>8, <2>9, <2>10
<1>6. CASE Tick
  <2>1. /\ UNCHANGED <<table, pc, held>> /\ now \in Nat /\ now' = now + 1
        /\ \A q \in Process : pc[q] = "idle"
    BY <1>6, <1>t DEF Tick, local, TypeOK
  <2>2. Running = {} /\ Running' = Running /\ Stored' = Stored
    BY <2>1 DEF Running, Stored, IdsIn
  <2>3. Newest(table)' = Newest(table) \/ Newest(table)' = 0
    <3>1. CASE Stored = {}
      BY <2>2, <3>1, NewestCasesNext
    <3>2. CASE Stored # {}
      <4>1. PICK m \in Stored : \A j \in Stored : j <= m
        BY <1>t, <3>2, Greatest
      <4>2. table[CheckpointKey(m)].expire \in Nat
        BY <1>t, ExpiryTypes DEF Expiry
      <4> QED
        BY <2>1, <2>2, <4>1, <4>2, NewestCases, NewestCasesNext DEF Live
    <3> QED
      BY <3>1, <3>2
  <2>4. CASE Newest(table)' = Newest(table)
    BY <1>s, <2>1, <2>2, <2>4
  <2>5. CASE Newest(table)' = 0
    BY <2>1, <2>2, <2>5 DEF Register!Next, Register!Expire, Running
  <2> QED
    BY <2>3, <2>4, <2>5
<1>7. ASSUME NEW k \in Key, DeleteExpired(k) PROVE [Register!Next]_(Register!vars)
  <2>1. /\ UNCHANGED <<now, pc, held>>
        /\ \A l \in Key : table'[l] = table[l] \/ (table'[l] = Absent /\ ~ Live(table[l]))
    BY <1>7, <1>t, DeleteEffect DEF local
  <2>2. /\ Stored' \subseteq Stored
        /\ \A id \in Stored' : table'[CheckpointKey(id)] = table[CheckpointKey(id)]
        /\ \A id \in Stored : id \notin Stored' => ~ Live(table[CheckpointKey(id)])
    BY <2>1, Keys DEF Stored, IdsIn
  <2>3. CASE Stored = {}
    BY <1>s, <2>1, <2>2, <2>3, NewestCases, NewestCasesNext DEF Running
  <2>4. CASE Stored # {}
    <3>1. PICK m \in Stored : \A j \in Stored : j <= m
      BY <1>t, <2>4, Greatest
    <3>2. CASE m \in Stored'
      <4>1. Newest(table)' = Newest(table)
        BY <2>1, <2>2, <3>1, <3>2, NewestCases, NewestCasesNext DEF Live
      <4> QED
        BY <1>s, <2>1, <4>1 DEF Running
    <3>3. CASE m \notin Stored'
      <4>1. ~ Live(table[CheckpointKey(m)]) /\ Newest(table) = 0
        BY <2>2, <3>1, <3>3, NewestCases
      <4>2. Newest(table)' = 0
        <5>1. CASE Stored' = {}
          BY <5>1, NewestCasesNext
        <5>2. CASE Stored' # {}
          <6>1. Stored' \in SUBSET Id
            BY <1>t, <2>2
          <6>2. PICK i \in Stored' : \A j \in Stored' : j <= i
            BY <5>2, <6>1, Greatest
          <6>3. i < m /\ i \in Stored
            BY <1>t, <2>2, <3>1, <3>3, <6>2
          <6>4. Expiry(i) <= Expiry(m) /\ Expiry(i) \in Nat /\ Expiry(m) \in Nat
            BY <1>t, <3>1, <6>3, ExpiryTypes DEF ExpiryOK
          <6>5. ~ (table'[CheckpointKey(i)].expire > now')
            BY <1>t, <2>1, <2>2, <4>1, <6>2, <6>4, ExpiryTypes DEF Expiry, Live
          <6> QED
            BY <6>2, <6>5, NewestCasesNext
        <5> QED
          BY <5>1, <5>2
      <4> QED
        BY <1>s, <2>1, <4>1, <4>2 DEF Running
    <3> QED
      BY <3>2, <3>3
  <2> QED
    BY <2>3, <2>4
<1>8. CASE Replicate \/ UNCHANGED vars
  <2>1. UNCHANGED <<table, now, pc, held>>
    BY <1>8 DEF Replicate, vars, local
  <2> QED
    BY <1>s, <1>n, <2>1 DEF Running
<1> QED
  BY <1>1, <1>2, <1>3, <1>4, <1>5, <1>6, <1>7, <1>8 DEF Next

\* To the runs that load its newest checkpoint and put the next one the table
\* is a register: expired items never uncover an older checkpoint, the limit of
\* the query notwithstanding (saver.py:128), and only the put of a concurrent
\* run hides one.
THEOREM StoreIsARegister == Spec => ImplementsRegister
<1>1. Init => Register!Init
  <2> SUFFICES ASSUME Init PROVE Register!Init
    OBVIOUS
  <2>1. Stored = {}
    BY Keys DEF Init, Stored, IdsIn
  <2>2. Newest(table) = 0
    BY <2>1, NewestCases
  <2> QED
    BY <2>2 DEF Init, Register!Init
<1>2. IInv /\ [Next]_vars => [Register!Next]_(Register!vars)
  BY RegisterStep
<1> QED
  BY <1>1, <1>2, StoreInvariance, PTL DEF Spec, ImplementsRegister, Register!Spec

=============================================================================
