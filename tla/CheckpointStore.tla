---------------------------- MODULE CheckpointStore ----------------------------
(***************************************************************************)
(* The checkpoint table as DynamoDBSaver keeps it for one thread and the   *)
(* root namespace.  Checkpoints and the writes of a checkpoint's tasks are *)
(* items of one partition; a query may read them from a replica that lags  *)
(* behind, items expire and are deleted later, and a batch of writes lands *)
(* item by item.                                                           *)
(*                                                                         *)
(* LangGraph is modelled from how it uses the saver: a run loads the       *)
(* newest checkpoint with its pending writes, executes the tasks that have *)
(* none, stores their writes and puts the checkpoint of the next step.     *)
(***************************************************************************)
EXTENDS Naturals, FiniteSetsExt

CONSTANTS
  Process,   \* containers, each running at most one invoke or update_state
  Task,      \* the tasks of every step
  Width,     \* how many channels a task writes
  Absent,    \* no item under this key
  Ttl,       \* ttl_days in units of the clock; 0 stands for None
  MaxId,     \* bound: checkpoints ever created
  MaxTime,   \* bound: the clock
  MaxRuns    \* bound: executions of one task at one checkpoint

ASSUME StoreAssumption ==
  /\ Width \in Nat \ {0} /\ Ttl \in Nat
  /\ MaxId \in Nat /\ MaxTime \in Nat /\ MaxRuns \in Nat
  /\ Absent \notin [value : Nat, expire : Nat]

Id    == 1..MaxId
Index == 0..(Width - 1)
Never == MaxTime + Ttl + 1   \* the item has no TTL attribute

CheckpointKey(id)   == <<"checkpoint", id>>
\* mutant: the checkpoint is left out of the key
WriteKeyOfTask(id, t, i) == <<"write", 1, t, i>>
WriteKey(id, t, i)  == <<"write", id, t, i>>

Key == {CheckpointKey(id) : id \in Id}
         \cup {WriteKey(id, t, i) : id \in Id, t \in Task, i \in Index}

\* A checkpoint's value is its parent, a write's value the execution it is of.
Item == [value : Nat, expire : 0..Never]

VARIABLES
  table,    \* what a consistent read sees
  replica,  \* what an eventually consistent read may see instead
  now,      \* the clock the TTL is counted on
  stamp,    \* the newest checkpoint id handed out
  pc, held, \* per process: its step, the id of the checkpoint it builds on
  new,      \* the id of the checkpoint it is about to put
  done,     \* the tasks it holds writes of
  batch,    \* the write items of its current task that have not landed
  ran       \* history: executions of each task at each checkpoint

local == <<pc, held, new, done, batch>>
vars  == <<table, replica, now, stamp, local, ran>>

NoBatch == [task |-> Absent, left |-> {}]

TypeOK ==
  /\ table \in [Key -> Item \cup {Absent}]
  /\ replica \in [Key -> Item \cup {Absent}]
  /\ now \in 0..MaxTime
  /\ stamp \in 0..MaxId
  /\ pc \in [Process -> {"idle", "pending", "run", "batch", "stamp", "put"}]
  /\ held \in [Process -> 0..MaxId]
  /\ new \in [Process -> 0..MaxId]
  /\ done \in [Process -> SUBSET Task]
  /\ batch \in [Process -> [task : Task \cup {Absent}, left : SUBSET Index]]
  /\ ran \in [Id -> [Task -> 0..MaxRuns]]

Init ==
  /\ table = [k \in Key |-> Absent]
  /\ replica = table
  /\ now = 0
  /\ stamp = 0
  /\ pc = [p \in Process |-> "idle"]
  /\ held = [p \in Process |-> 0]
  /\ new = [p \in Process |-> 0]
  /\ done = [p \in Process |-> {}]
  /\ batch = [p \in Process |-> NoBatch]
  /\ ran = [id \in Id |-> [t \in Task |-> 0]]

Goto(p, label) == pc' = [pc EXCEPT ![p] = label]

-----------------------------------------------------------------------------
(* Items.                                                                  *)

ExpireAtTtl == IF Ttl = 0 THEN Never ELSE Ttl                      \* mutant
ExpireAt == IF Ttl = 0 THEN Never ELSE now + Ttl
NewCheckpoint(parent) == [value |-> parent, expire |-> ExpireAt]
WriteExpiringAtTtl(run) == [value |-> run, expire |-> ExpireAtTtl]   \* mutant
NewWrite(run)         == [value |-> run, expire |-> ExpireAt]

Live(item) == item.expire > now

IdsIn(view) == {id \in Id : view[CheckpointKey(id)] # Absent}
Stored == IdsIn(table)

\* The newest checkpoint a view holds: the query in descending order with
\* Limit 1.  DynamoDB filters after the limit, so an expired item is no answer
\* and no older one is looked at.
Newest(view) ==
  IF IdsIn(view) # {} /\ Live(view[CheckpointKey(Max(IdsIn(view)))])
    THEN Max(IdsIn(view)) ELSE 0

\* The view the query for the newest checkpoint reads: ConsistentRead=True.
ReplicaView == replica                                             \* mutant
LatestView  == table

\* The tasks with a live write under checkpoint id.
WritesIn(view, id) ==
  {t \in Task : \E i \in Index : /\ view[WriteKey(id, t, i)] # Absent
                                 /\ Live(view[WriteKey(id, t, i)])}

-----------------------------------------------------------------------------
(* get_tuple: the newest checkpoint, then its pending writes.              *)

\* An invoke goes on to the writes; an update_state, and an invoke with the
\* input of a new instance, puts a checkpoint right away.
LoadCheckpoint(p) ==
  /\ pc[p] = "idle"
  /\ held' = [held EXCEPT ![p] = Newest(LatestView)]
  /\ \/ held'[p] # 0 /\ Goto(p, "pending")
     \/ Goto(p, "stamp")
  /\ UNCHANGED <<table, replica, now, stamp, new, done, batch, ran>>

\* The query for the writes does not ask for a consistent read.
LoadWrites(p) ==
  /\ pc[p] = "pending"
  /\ \E view \in {table, replica} : done' = [done EXCEPT ![p] = WritesIn(view, held[p])]
  /\ Goto(p, "run")
  /\ UNCHANGED <<table, replica, now, stamp, held, new, batch, ran>>

-----------------------------------------------------------------------------
(* put_writes and put.                                                     *)

WriteIndexesFromOne == 1..Width                                    \* mutant
WriteIndexes == Index

\* A task without pending writes is executed and its writes handed over.
Execute(p) ==
  /\ pc[p] = "run"
  /\ \E t \in Task \ done[p] :
       /\ ran[held[p]][t] < MaxRuns
       /\ ran' = [ran EXCEPT ![held[p]][t] = @ + 1]
       /\ batch' = [batch EXCEPT ![p] = [task |-> t, left |-> WriteIndexes]]
  /\ Goto(p, "batch")
  /\ UNCHANGED <<table, replica, now, stamp, held, new, done>>

\* One item of the batch lands; batch_writer returns with the last one.
PutWrite(p) ==
  /\ pc[p] = "batch"
  /\ LET t == batch[p].task
     IN  \E i \in batch[p].left :
           /\ table' = [table EXCEPT ![WriteKey(held[p], t, i)] =
                                       NewWrite(ran[held[p]][t])]
           /\ \/ /\ batch[p].left # {i}
                 /\ batch' = [batch EXCEPT ![p].left = @ \ {i}]
                 /\ UNCHANGED <<pc, done>>
              \/ /\ batch[p].left = {i}
                 /\ batch' = [batch EXCEPT ![p] = NoBatch]
                 /\ done' = [done EXCEPT ![p] = @ \cup {t}]
                 /\ Goto(p, "run")
  /\ UNCHANGED <<replica, now, stamp, held, new, ran>>

\* create_checkpoint takes the next id from the clock, on which the containers
\* are taken to agree; the put comes later.
Stamp(p) ==
  /\ stamp < MaxId
  /\ pc[p] = "stamp" \/ (pc[p] = "run" /\ done[p] = Task)
  /\ stamp' = stamp + 1
  /\ new' = [new EXCEPT ![p] = stamp + 1]
  /\ Goto(p, "put")
  /\ UNCHANGED <<table, replica, now, held, done, batch, ran>>

PutCheckpoint(p) ==
  /\ pc[p] = "put"
  /\ table' = [table EXCEPT ![CheckpointKey(new[p])] = NewCheckpoint(held[p])]
  /\ held' = [held EXCEPT ![p] = new[p]]
  /\ new' = [new EXCEPT ![p] = 0]
  /\ done' = [done EXCEPT ![p] = {}]
  /\ Goto(p, "run")
  /\ UNCHANGED <<replica, now, stamp, batch, ran>>

\* The run is over: it has been interrupted, a saver call has raised a
\* DynamoDBCheckpointError, or the container has died.
Leave(p) ==
  /\ pc[p] # "idle"
  /\ Goto(p, "idle")
  /\ held' = [held EXCEPT ![p] = 0]
  /\ new' = [new EXCEPT ![p] = 0]
  /\ done' = [done EXCEPT ![p] = {}]
  /\ batch' = [batch EXCEPT ![p] = NoBatch]
  /\ UNCHANGED <<table, replica, now, stamp, ran>>

-----------------------------------------------------------------------------
(* DynamoDB.                                                               *)

Replicate ==
  /\ replica # table
  /\ replica' = table
  /\ UNCHANGED <<table, now, stamp, local, ran>>

\* The TTL is counted in days; a container lives for minutes, a replica lags
\* for seconds.
Tick ==
  /\ now < MaxTime
  /\ \A p \in Process : pc[p] = "idle"
  /\ now' = now + 1
  /\ replica' = table
  /\ UNCHANGED <<table, stamp, local, ran>>

\* Expired items are deleted some time later, in any order.
DeleteExpired(k) ==
  /\ table[k] # Absent /\ table[k].expire <= now
  /\ table' = [table EXCEPT ![k] = Absent]
  /\ replica' = [replica EXCEPT ![k] = Absent]
  /\ UNCHANGED <<now, stamp, local, ran>>

Next ==
  \/ \E p \in Process : \/ LoadCheckpoint(p) \/ LoadWrites(p) \/ Execute(p)
                        \/ PutWrite(p) \/ Stamp(p) \/ PutCheckpoint(p) \/ Leave(p)
  \/ Replicate \/ Tick
  \/ \E k \in Key : DeleteExpired(k)

Spec == Init /\ [][Next]_vars

-----------------------------------------------------------------------------
(* Properties.                                                             *)

\* Whatever replicas, expiry and crashes do, the table is a register to those
\* who load the newest checkpoint and put the next: an instance never goes back
\* to an older checkpoint, and only a concurrent run can hide a put.
Register == INSTANCE CheckpointRegister WITH
  latest  <- Newest(table),
  running <- {p \in Process : pc[p] # "idle"}

ImplementsRegister == Register!Spec

\* As long as a checkpoint can be loaded none of its pending writes has expired:
\* no task is executed again because of the TTL (saver.py:164, utils.py:179).
WritesOutliveTheirCheckpoint ==
  \A id \in Stored, t \in Task, i \in Index :
    LET item == table[WriteKey(id, t, i)]
    IN  item # Absent /\ Live(table[CheckpointKey(id)]) => Live(item)

\* A run skips a task only if some run has executed it at that very checkpoint.
SkipsOnlyWhatRan ==
  \A p \in Process : held[p] # 0 => \A t \in done[p] : ran[held[p]][t] > 0

\* A task whose writes a run relies on has stored all of them, and all are of
\* one execution (saver.py:454, "batch writing").
PendingWritesAreWhole ==
  \A p \in Process : pc[p] = "put" /\ held[p] # 0 =>
    \A t \in done[p] : \A i, j \in Index :
      /\ table[WriteKey(held[p], t, i)] # Absent
      /\ table[WriteKey(held[p], t, i)].value = table[WriteKey(held[p], t, j)].value

\* A task whose writes have all been stored is not executed again at that
\* checkpoint.
StoredTasksAreNotRepeated ==
  [][\A id \in Id, t \in Task :
       (\A i \in Index : table[WriteKey(id, t, i)] # Absent /\ Live(table[WriteKey(id, t, i)]))
         => ran'[id][t] = ran[id][t]]_vars

=============================================================================
