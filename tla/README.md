# Formal models of the CCH workflow orchestrator

The orchestrator runs long-lived workflows described in YAML. A Lambda function
takes commands from an SQS queue, loads the workflow instance's LangGraph
checkpoint from DynamoDB, runs the graph to its next pause, and stores
checkpoints on the way. This directory holds TLA+ models of that system, TLC
configurations that check them on small instances, and proofs for the parts
that hold for instances of every size.

## The system

| Part | Source (under `src/workflow-orchestrator/src/`) | State it keeps | Operations |
|---|---|---|---|
| Handler | `app.py` | none | `handler`: one SQS record at a time, every exception swallowed, so every record is acknowledged unless the process dies |
| Service | `orchestrator/service.py` | compiled graphs per URI, in the container's memory | `process_command` (EVENT, ASYNC_RESP, EVENT_WAIT_RESP, branch responses), `_drain_parallel_fanout` |
| Graph builder | `orchestrator/graph_builder.py` | none; its output is the compiled graph | edges, conditional edges, branch resolvers, the node wrapper |
| Nodes | `orchestrator/nodes/*.py` | none; they return patches of the state | one handler per node type; `async_request` also sends a request |
| State | `orchestrator/state.py` | the channels of a checkpoint | reducers: deep merge for `context` and `data`, `or` for `is_error` |
| Next steps | `orchestrator/next_steps.py`, `_can_reach` in the checkpointer | none | breadth-first traversals of the definition |
| Events | `orchestrator/event_publishing_checkpointer.py`, `event_publisher.py`, `context_merge.py` | ids of published checkpoints, in memory | `put` (save, then publish), `publish_event` |
| Saver | `lib/langgraph_checkpoint_dynamodb/.../saver.py`, `utils.py`, `config.py` | the DynamoDB table | `get_tuple`, `list`, `put`, `put_writes`, TTL backfill |
| Clients | `clients/*.py` | none | SQS, SNS, S3, Scheduler, HTTP calls |
| Deployment | `workflow-orchestrator/cdk/lib/cdk-stack.ts` | command queue, dead-letter queue, table | receive limit 3, visibility timeout 300 s |

The parts interact as follows. A producer, a capability or an operator sends a
command to the command queue; SQS invokes a Lambda container with it; the
service reads and writes the instance's checkpoints through the saver, wrapped
by the event-publishing checkpointer; `async_request` nodes send a request to a
capability queue, and the capability's answer comes back as a command. The
containers share nothing but the table and the queues. A command for one
instance never touches the checkpoints of another (the thread id is the
partition key), so the models hold one instance.

What makes it hard:

* SQS delivers at least once, so every command may be handled again, by another
  container, at the same time or much later;
* containers die between any two AWS calls (crash, 300 s timeout), and AWS calls
  raise; the service swallows exceptions, so a failed command is not retried,
  and a killed one is;
* every `update_state` and every superstep of `invoke` is a read of the latest
  checkpoint followed by an unconditional put: there is no lock and no condition
  that would order two containers;
* answers are matched to the node the instance is paused at, not to a request;
* node handlers run at least as often as their result is recorded.

What makes each part correct is stated as properties below; the `hazards` list
of `PROJECT.json` names the lines where each could go wrong.

## Modules

| Module | What it models |
|---|---|
| `WorkflowDefinition` | a definition as data, and the routing of the graph compiled from it |
| `Orchestrator` | one instance, the service in any number of containers, SQS, the capability and the operator |
| `InstanceLifecycle` | the abstract specification: what is promised of one instance |
| `MCOrchestrator` | the shipped definitions v1.1.1 and v2.0.0, and a retry loop with the node types they lack |
| `Orchestrator_proofs` | the theorems about `Orchestrator` |
| `SuccessEdges` | a definition as the traversals see it: what follows a node by their precedence rules, and what the compiled graph does |
| `NextSteps` | `compute_next_steps`, one action per iteration of its loop |
| `CanReach` | `_can_reach`, one action per iteration of its loop |
| `SuccessEdges_proofs`, `NextSteps_proofs`, `CanReach_proofs` | the theorems about the traversals |
| `Branches` | the parallel branches of a map_fork: registration, the drain, the branches' responses, the join |
| `Branches_proofs` | the theorems about `Branches` |
| `CheckpointStore` | the checkpoint table of one thread: consistent and lagging reads, batches, expiry, crashes between items |
| `CheckpointRegister` | the abstract specification of that table: one register per instance |
| `CheckpointStore_proofs` | the theorems about `CheckpointStore`, the refinement among them |
| `TableDeployment` | `DynamoDBSaver(deploy=True)` in several processes, with the TTL backfill |
| `TableDeployment_proofs` | the theorems about `TableDeployment` |
| `EventPublication` | `Orchestrator` with the events it publishes |
| `EventPublication_proofs` | the theorems about `EventPublication` |
| `MCNextSteps`, `MCCanReach`, `MCBranches`, `MCCheckpointStore`, `MCEvents` | the instances TLC checks; `TableDeployment` needs none of its own |

### Orchestrator

`checkpoint` is the part of the instance's latest checkpoint that control
depends on: the pending task, the node that ran last (`ran`), `data.status`,
`is_error` and the set of processed replies. `queue`, `receives`, `dlq` and `sent` are SQS. `requests` is the
sequence of requests ever sent to the capability queue; a request's number is
its command id, which an answer carries as `in_reply_to`. Per container, `pc` is
the next access to shared state, `job` the delivery being handled, `mem` the
checkpoint loaded last, `node` the interrupted node. `applied` is history: the
deliveries whose response was written to `data`.

| Action | Code |
|---|---|
| `Receive`, `Finish`, `Fault`, `Crash` | `app.handler`; an exception swallowed; a container killed |
| `LookupTrigger`, `LoadForStart`, `PutInput` | EVENT: `state_saver.get`, `graph.invoke(initial_state_patch)` |
| `Snapshot` | `get_state` with the pause and idempotency checks made on it |
| `LoadForMark`, `PutMark` | the `update_state` that marks the reply processed |
| `Route` | the interrupted node's transition, and the early returns |
| `LoadForApply`, `PutApply` | `update_state(..., as_node=transition_node)` |
| `LoadForInvoke`, `Run*` | `graph.invoke(None)`: one superstep, one checkpoint each, per node type |
| `Redeliver`, `DeadLetter` | SQS and its redrive policy |
| `SendTrigger`, `CapabilityAnswers`, `OperatorResolves` | the environment |

What is taken from LangGraph, which is not in the repository (the `external`
entries of the map): an `update_state` without `as_node` takes the outgoing edges of the
node that ran last (see below); with `as_node` only the named node's outgoing edges run, not its
action; `invoke` with an input on a thread that has a checkpoint keeps the
channels and discards the pending task; `interrupt` ends the run and puts no
checkpoint; the checkpoint of a superstep is put before the next superstep's
nodes run (with LangGraph's default asynchronous durability the put runs in a
background thread; a crash that overtakes it is not modelled). That the latest put
wins is what `CheckpointStore` implements.

The mark (`service.py:209`) is an `update_state` without `as_node`. LangGraph finds
the node that ran last by the checkpoint's `versions_seen`, in which an earlier
update with `as_node` (`service.py:380`) does not count as a run. Its edges may
therefore lead elsewhere than to the pending node, and the checkpoint names
another one until line 380 puts the instance where the answer leads. `MarkMoves`
says whether that may happen and `PendingAfterMark` to which nodes; edges that
raise are a `Fault`. The handler goes on with the node it read before the mark, so with
one container this matters only if it ends in this window: it dies, a call
raises, or the answer finds no transition.
`MarkMoves` is `TRUE` in `MCSerialClean`, `MCConcurrent` and `MCEvents`, and
`FALSE` in `MCSerialFailures`, because a crash there may leave the instance off
the edges of its definition, and `ImplementsLifecycle` is then violated. The
other properties of `MCSerialFailures` hold with `TRUE` as well. Which theorems need it to be
`FALSE` is under Proofs.

### InstanceLifecycle

The instance is `at` a node, and `consumed` holds the requests whose answer has
been used. It begins, enters its entry point, walks along the edges of its
definition, leaves a node it waits at only by a response, uses each answer at
most once and, having ended, stays. `ImplementsLifecycle` instantiates it with
`at <- checkpoint.next` and `consumed` computed from `applied`.

### SuccessEdges, NextSteps, CanReach

Each put of a checkpoint publishes an event that announces the next steps;
`compute_next_steps` finds them by a breadth-first search of the definition, and
`_can_reach` decides which joins an ending branch may announce. Both follow
`on_success`, `on_response`, `on_event` and all branches of a condition by rules
of their own. `SuccessEdges` has these rules (`SuccessLike`) next to the edges of
the graph `GraphBuilder` compiles (`Compiled`), so that what is announced can be
compared with where an instance goes: `ResultsAreTheFrontier` defines the
frontier by closed sets of the compiled graph, not by the search. The variables are
those of the functions: `queue`, `visited`, `results`. `Compiled` leaves out the
edge from an `end_branch` to a sole join (`graph_builder.py:105-108`), which neither
search can come to: `_can_reach` is called only when there are several joins, and
`compute_next_steps` never goes past an `end_branch`, a step of its own. TLC checks every
definition of three nodes, which is where loops, diamonds, paths of different
length and missing edges first occur together; the theorems hold for all.

### Branches

All branches of a fork run on one thread, so they share one chain of checkpoints.
`checkpoint` holds the channels they depend on: the pending task, the list in
`data`, `data.current_map_item`, and from `context` the item per branch, the
branch requests and replies processed, the branch key and the completed
branches. A field of an item is abstracted to the branch whose item or response
it comes from, which is all the properties distinguish and makes a mix-up of two
branches visible. The fork's own answer and the branches' responses run through
the same actions where the code does.

| Action | Code |
|---|---|
| `LookupItem`, `RestoreItem` | the routing hint, `service.py:156-185` |
| `Snapshot`, `Mark` | the idempotency check and its mark |
| `MergeItem`, `PersistItem` | the payload merged into `current_map_item` and the branch's item |
| `ReadList`, `WriteList` | the read-modify-write of the list, once for the thread and once "for the parent" |
| `ReadData`, `Apply` | the last read and `update_state(..., as_node=transition_node)` |
| `LoadForInvoke`, `RegisterBranches`, `Run*`, `JoinPasses` | `graph.invoke(None)`; `map_resolver`'s registrations are one superstep |
| `DrainRead`, `PersistInFlight`, `DrainSkip`, `DrainPersist`, `DrainSend`, `DrainMark`, `DrainDone` | `_drain_parallel_fanout` |
| `Crash`, `Duplicate`, `CapabilityAnswers`, `CustomsReports` | the environment |

Differences from `Orchestrator`, where the same code is modelled more finely: an
`update_state` is one step, not a read and a put; AWS calls do not raise; a
crashed command always becomes visible again. What is taken from LangGraph: the
registrations sent by a fork run in one superstep, their patches are reduced in
the order of the list, and they lead to one run of the branch entry node; a
write to a channel the graph does not declare (`branch_checkpoints.<key>`,
`map_items_by_key.<key>`, put by `handle_register_branch`) is never read back.

### CheckpointStore, CheckpointRegister

`Orchestrator` and `Branches` take a put and a read of the latest checkpoint to
be atomic and the latest put to win. `CheckpointStore` is what stands behind
that: `table` holds the items of one thread's partition, a checkpoint per id and
a write per id, task and index, each with an expiry; `replica` is what an
eventually consistent query may still return; `stamp` is the clock checkpoint
ids are drawn from. A process is one `invoke` or `update_state`: it loads the
newest checkpoint, then its pending writes, executes the tasks without any,
stores their writes item by item, draws an id and puts.

| Action | Code |
|---|---|
| `LoadCheckpoint` | `get_tuple` without an id: descending, `Limit=1`, `ConsistentRead=True`, the TTL filter applied after the limit |
| `LoadWrites` | the second query of `get_tuple`, which asks for no consistent read |
| `Execute`, `PutWrite` | a task and `put_writes`; `batch_writer` lands its items in any order and may be cut off |
| `Stamp`, `PutCheckpoint` | LangGraph draws the id, `put` stores the item without a condition |
| `Leave` | the run ends: an interrupt, a `DynamoDBCheckpointError`, a dead container |
| `Replicate`, `Tick`, `DeleteExpired` | DynamoDB and the clock |

`ImplementsRegister` instantiates `CheckpointRegister` with
`latest <- Newest(table)`: a run loads the latest checkpoint, a put either
becomes the latest or is hidden by a newer one of another run, and checkpoints
vanish only all at once while nobody runs. Assumed: the containers' clocks agree
on the order of ids (uuid6); a run and a replica's lag are short against the TTL,
which counts in days, so the clock ticks between runs only. Writes are
`INSERT`s of LangGraph with fresh ids.

### TableDeployment

`table` and `ttl` are the table's status and its `TimeToLiveStatus`, `items` the
item under each key with the version a saver put last and whether it has an
expiry. Per process: `pc`, the prefix its scan is filtered for (`kind`), the keys
the scan has not come to (`left`), the page it is putting back (`page`). Savers
put items all the while.

| Action | Code |
|---|---|
| `Deploy`, `DescribeTable`, `CheckTable` | `deploy`, `__init__`, `_create_or_update_table` up to the updates |
| `CreateTable`, `WaitUntilExists` | the `ResourceNotFoundException` branch |
| `EnableTtl` | `update_time_to_live` and its two refusals |
| `ScanPage`, `BackfillPut`, `PageDone`, `ScanDone` | the two paged scans and `_batch_update_ttl` |
| `TableActive`, `TtlActive`, `PutItem`, `Crash` | DynamoDB, savers of the service, a killed deployer |

Billing mode, capacity and point-in-time recovery are settings every process sets
to the same value and are left out. Taken from DynamoDB: `create_table` and
`update_time_to_live` raise `ResourceInUseException` while the table exists or is
being created, and `update_time_to_live` refuses while the TTL is on or being
turned on, with an error `__init__` turns into a `DynamoDBCheckpointError`. The
prefixes `#checkpoint#` and `#write#` select the items of the root namespace
only; items of other namespaces are not backfilled by the code and are not in
the model.

### EventPublication

Extends `Orchestrator` by what its observers see. `shown` is
`context.current_node` of the latest checkpoint, `seen` the same in the channels
a container holds; `announced`, `promise` and `ended` are history: the events
since the instance last got going, the next steps it was said to go to, the
answers whose end was announced. Every action of `Orchestrator` appears once,
with its publications: `StartAnnounced` and `EndAnnounced` are the service's,
`PutShown` and `RunAnnounced` those of `EventPublishingCheckpointer.put`, `Guard`
is the check at the end of a response. `compute_next_steps` is given by what it
computes, which `NextSteps` shows of the algorithm.

The node wrapper assigns `current_node` in the object the context channel holds,
while LangGraph may still be writing the checkpoint of the step before in
another thread. What is saved and what is announced are therefore read at two
moments, in this order, out of those at which `current_node` names the node that
ran, the next one, or, past a `log_error` that returns no context, the one after
it. SNS is assumed to accept what it is sent: `_publish` swallows its failures,
and with a lost event nothing can be promised. The set of published checkpoint
ids suppresses no event here, as every put has a new id.

## Runs

| Run | Instance | What it shows |
|---|---|---|
| `MCSerialFailures` | 1 container, v2.0.0, 4 requests, 2 resolutions, a duplicate delivery, a crash, a fault, a failed send, receive limit 2, marks that leave the pending node | answers apply at most once and resume the node that asked, the record of processed answers only grows, an ended instance stays ended with nothing outstanding, and the lifecycle is implemented |
| `MCSerialClean` | 1 container, v2.0.0, two triggers, two answers per request, a duplicate delivery, no failures, marks that may move the pending node, fair | at rest the instance is at a node a command can move it on from, with its request out; every answer takes effect; a duplicate or late resolution never takes the place of an answer; a triggered instance settles |
| `MCConcurrent` | 2 containers, the retry loop of v1.1.1 with start, sync_call and a condition whose resolver raises; a failed send with a failure path to the end; marks that may move the pending node | what survives lost updates: one request per delivery, every request has a cause, nothing completes unanswered except with the error of a request that could not be sent |
| `MCNextSteps` | every definition of 3 nodes | the announced steps are the frontier, each once and nearest first; the search ends |
| `MCCanReach` | every definition of 3 nodes, every goal | the answer is reachability in the compiled graph, waits resumed; the search ends |
| `MCBranchesSerial` | 1 container, 2 filing packs, a redelivery, a crash | each branch is asked for at most once, with its own item; no response takes another's out of the list |
| `MCBranchesConcurrent` | 2 containers, 2 filing packs; no customs reports, no redelivery | a response finds its branch's item; the list does not mix branches |
| `MCBranchesLiveness` | 1 container, 2 filing packs, a redelivery, fair | every branch is asked for, every response reaches the list |
| `MCJoinBarrier` | 1 container, 2 filing packs | violation: the join lets the first branch pass |
| `MCCheckpointStore` | 2 processes, 3 checkpoint ids, a task of two writes, a TTL of one tick | the store is a register, writes outlive their checkpoint, and only tasks that ran are skipped |
| `MCTableDeployment` | 3 processes, 2 checkpoints, a write put twice, a crash, fair | one process backfills, its backfill covers the table, and every deployment takes effect unless one has crashed |
| `MCEvents` | 1 container, v1.1.1, two triggers, 3 requests, a duplicate delivery, a crash, a failed send, marks that may move the pending node | where an instance rests was announced, its first step was promised, and the end of a request is announced once |

### Further counterexamples

These configurations state further promises of docs and comments that the code
does not keep. They stand beside the runs above, as `tlc -config X.cfg M`, each
with a counterexample of a few commands.

| Configuration | Module | Promise | What happens |
|---|---|---|---|
| `MCRapidDuplicates` | `MCOrchestrator` | `ReplyAppliedAtMostOnce`: "Mark as processed immediately to protect from rapid duplicates" (service.py:208) | two containers that handle the same answer both find it unprocessed and both apply it |
| `MCSkippedRetry` | `MCOrchestrator` | `ResolutionRetriesTheNode`: "Retry the node" (the v2.0.0 scenario definition) | service.py:380 takes the async_request a resolution leads back to as executed; no request is sent |
| `MCConcurrentEnd` | `MCOrchestrator` | `EndIsFinal`: "`end`: Terminates the workflow instance" (README.md:51) | with two containers, one that loaded an older checkpoint moves an ended instance |
| `MCLostAnswer` | `MCOrchestrator` | `AnswersTakeEffect`: "The workflow resumes when the capability sends an `ASYNC_RESP` command back" (README.md:46) | a container killed between service.py:209 and 380 leaves an answer marked but never applied |
| `MCSkippedSetState` | `MCOrchestrator` | `SetStateIsApplied`: set_state "updates the workflow's state" (README.md:49) | service.py:380 takes a set_state a resolution leads to as already executed |
| `MCStickyError` | `MCOrchestrator` | `LogErrorClearsTheError`: "then clears the error state" (core_nodes.py:177) | the `or_` reducer of state.py:52 keeps the flag |
| `MCWaitFirst` | `MCEvents` | `RestIsAnnounced`: "Ensure an EventWaitStarted event is published" (service.py:384) | the guard stands on the response path alone; a trigger that leads straight to an event_wait may be announced by nobody |
| `MCPartialWrites` | `MCCheckpointStore` | `PendingWritesAreWhole`: "batch writing" (saver.py:454) | a batch cut off half-way leaves some writes of a task, and the next run takes the task as done |
| `MCRepeatedTask` | `MCCheckpointStore` | `StoredTasksAreNotRepeated` | the query for pending writes (saver.py:164) reads a replica, so a stored task is executed again |
| `MCInterruptedBackfill` | `TableDeployment` | `NoItemIsLeftOut`: "once TTL is enabled, attribute will be added to all items without it" (config.py:20) | the TTL is turned on first; after a crash in the backfill every later deployment finds it on and skips the backfill |
| `MCStaleBackfill` | `TableDeployment` | `OnlyItemsWithoutTtlAreUpdated`: "only those without the TTL attribute" (saver.py:673) | the scanned item is put back over one a saver has put since |
| `MCEarlyReturn` | `TableDeployment` | `ReturnedMeansUsable`: "ensure table exists" (saver.py:516) | the process that loses the race to create the table returns while it is being created |
| `MCMapForkEntry` | `MCNextSteps` | `MapForkEntryIsVisited`: "enqueue its branch_entry_node" (next_steps.py:18) | the traversal stops at the map_fork, next_steps.py:48 |
| `MCCompletedBranch` | `MCBranches` | `CompletedBranchesWereReleased`: "Marks the current branch as completed" (core_nodes.py:86) | the key is that of the branch registered last |
| `MCRestoredItem` | `MCBranches` | `ItemIsRestored`: "restore current_map_item from persisted map" (service.py:174) | the deep merge keeps fields of the branch handled before |
| `MCLostBranchAnswer` | `MCBranches` | `ListKeepsAnswers`: "merge the payload into the corresponding item within the parent data list" (service.py:288) | with two containers a response is overwritten by the list another one read |
| `MCFixedBranchKey` | `MCBranches` | `OneRequestPerBranch`: "avoid duplicates" (service.py:470) | with a branch_key other than filingPackId a branch is asked for twice |

Bounds. `MaxReceive = 3` is the deployed value; `MCSerialFailures` lowers it to 2
so that its one crash and one duplicate reach the dead-letter queue. Requests are bounded by what the
definition needs for one success path and one or two retries; answers and
resolutions likewise. One duplicate and one failure of each kind are enough to
separate a duplicate from the original and a failure between any two steps,
since every step is a separate action; two would multiply the states by ten
without a new kind of interleaving, because a container handles one command at a
time. Two containers suffice for a lost update. Deadlock is not checked: with
every command bounded the queue runs empty and the system comes to rest, which
the liveness properties describe instead.

`MCCheckpointStore` has two processes, three checkpoint ids (one to build on, two
put by concurrent runs), a task of two writes (so that a batch can be cut in
two) and a clock with one tick at a TTL of one, after which the first items have
expired and later ones have not; an id, a task or a tick more gives no
interleaving of a new kind. `MCTableDeployment` has three processes (one that
creates or backfills, one that loses the race, one that comes late), two
checkpoints, a write put twice, and one crash.

Fairness. `WF(Handle(w))`: Lambda polls the queue as long as it holds a command
and a handler runs to its end (the code has no wait in it). The first answer to
each request is weakly fair: a capability answers. Nothing is assumed of the
operator, of duplicates or of failures. In
`MCTableDeployment` each deployer runs on, as its calls return, and DynamoDB
completes what it began (`TableActive`, `TtlActive`); a crash is never required,
and `DeploymentTakesEffect` promises nothing once one has happened.

## Proofs

`Orchestrator_proofs` proves, for every definition that satisfies
`DefinitionAssumption` and all values of the bounds:

| Theorem | Containers | Further hypotheses | Statement |
|---|---|---|---|
| `TypeCorrect` | any number | | `Spec => []TypeOK` |
| `OneRequest` | any number | | `Spec => []OneRequestPerDelivery` |
| `RequestsAreCaused` | any number | | `Spec => []RequestsHaveACause` |
| `CompletionIsAnswered` | any number | `RequestsGuardTheEnd` | `Spec /\ []NoSendFailed => []CompletionNeedsAnAnswer` |
| `AtMostOnce` | one | | `Spec => []ReplyAppliedAtMostOnce` |
| `RecordGrows` | one | | `Spec => RepliesOnlyGrow` |
| `CompletionIsAnsweredOrFailed` | one | `RequestsGuardTheEnd` | `Spec => []CompletionNeedsAnAnswer` |
| `EndedStaysEnded` | one | `MarkKeepsPending` | `Spec => EndIsFinal` |
| `Refinement` | one | `MarkKeepsPending` | `Spec => ImplementsLifecycle` |
| `NothingOutstandingAtTheEnd` | one | `MarkKeepsPending`, `OnlyAnswersEndRequests` | `Spec => []EndLeavesNothingOutstanding` |
| `AnswersResumeTheirRequester` | one | `MarkKeepsPending`, `OnlyAnswersEndRequests` | `Spec => AnswerResumesItsRequester` |
| `RestsOnlyAtPauses` | one | `MarkKeepsPending`, `ConditionsAreTotal` | `Spec /\ []Undisturbed => []QuietOnlyAtPauses` |
| `NoLostWakeUp` | one | `MarkKeepsPending` | `Spec /\ []Undisturbed => []PausedHasOutstandingRequest` |
| `ResolutionsEndWaits` | one | `MarkKeepsPending`, `ConditionsAreTotal`, `OnlyAnswersEndRequests` | `Spec /\ []Undisturbed => ResolutionsEndOnlyWaits` |

The hypotheses. `OneWorker`, a single container, is what a reserved concurrency
of one gives; `MCRapidDuplicates` and `MCConcurrentEnd` show it to be necessary.
`Undisturbed` says that no handler has died and no AWS call inside one has
raised: after a death in the middle of a run the instance rests wherever the
last superstep left it, and its request may not have been sent. `NoSendFailed`:
a request that cannot be sent takes the failure path, which may complete the
instance. With one container the theorem after it, `CompletionIsAnsweredOrFailed`,
does without: the instance then carries the error. With several, another
container's put may take the error away, and failed sends are only
model-checked. `MarkKeepsPending` (`~MarkMoves`): the mark of an answer leaves the
pending task as it is. TLC finds `ImplementsLifecycle` alone violated without it,
in `MCSerialFailures`; the other theorems that assume it rest on invariants that use
`checkpoint.next` between the mark and the update, and TLC finds their
properties to hold without it on the instances of the runs. The predicates on
definitions are in `WorkflowDefinition`;
`graph_builder.py` checks none of them, so they are hypotheses of the theorems
that need them and not part of `DefinitionAssumption`:

* `OnlyAnswersEndRequests`: no `async_request` has an `on_success`, so that an
  `EVENT_WAIT_RESP` delivered to one finds no transition.
* `ConditionsAreTotal`: every condition has somewhere to go for every status, so
  that routing never raises.
* `RequestsGuardTheEnd`: every path from the entry point meets an
  `async_request` before a wait or a node that sets `COMPLETED`.

`DefinitionsAreSound` (`MCOrchestrator`) and `EventsAreSound` (`MCEvents`) have
TLC evaluate which of them the definitions of the runs satisfy; `DefV111`
(shipped) and `DefV200` (of the scenario tests) satisfy these three.

`TypeCorrect`, `OneRequest` and `RequestsAreCaused` rest on
`IInv == TypeOK /\ LocalsOK /\ DeliveriesOK /\ CausesOK`.
Neither property is inductive alone: that a delivery sends one request needs to
know that a container which is still going to run has not sent one
(`DeliveriesOK`: a delivery is held by one container, has a receive number no
other delivery of the command has, and its requests exist only once the
container has left `run`), and that every request has a cause needs to know that
a container in `run` holds a trigger or a delivery already in `applied`
(`CausesOK`). `LocalsOK` relates `pc` to what the container holds.

The theorems about one container add `SerialInv`. It says that the loaded
checkpoint is
the stored one while the container is about to put, that an answer past its mark
is in `replies` and was not applied before, and that all applied answers are in
`replies`. Each invariant was checked by TLC before it was proved. The
refinement theorem uses that every put moves `checkpoint.next` along
`EdgeTargets`, a lemma on the routing operators of `WorkflowDefinition`.

The rest add one invariant each to these. `SentOK`: commands are delivered and
applied only after they were sent, and an answer is sent only after its request.
`OutstandingOK`: only the newest request can be outstanding, and while it is the
instance rests at the node that sent it; the converse direction, `AskedOK`, is
that between two runs of the graph an instance at a capability has an
outstanding request to it. `PauseOK`: between two runs the instance is at an end
or where the graph pauses. Both are about the moments between two runs, a weaker
condition than the properties' "all containers idle", because a container also
takes and returns commands there. `GuardOK(S)`: before the first
answer is applied, the stored checkpoint and every container's copy are at a
node of a set `S` that `RequestsGuard` allows, and have run no other last.
Where sends may fail `GuardOK(S) \/ Excused` takes its place: a failed send
puts a checkpoint with the error (`FailedSendExcuses`), and with one container
neither the error nor the count of failures is ever taken back (`ErrorsStay`,
`FailuresCount`).

`SuccessEdges_proofs`, `NextSteps_proofs` and `CanReach_proofs` prove, for every
definition:

| Theorem | Statement |
|---|---|
| `TraversalFollowsTheGraph` | outside event_wait nodes the traversals enqueue exactly the compiled graph's successors |
| `FrontierAnnounced` | `Spec => []ResultsAreTheFrontier` |
| `NextStepsTypeCorrect` | `Spec => []TypeOK` |
| `NearerStepsComeFirst` | `Spec => []NearestFirst`, for a finite set of names |
| `ReachabilityAnswered` | `Spec => []AnswerIsReachability` |

The invariant of both searches is the usual one of a traversal: what is visited
or queued holds the start, lies within every set of nodes that holds the start
and is closed under the edges, and holds every successor of an expanded node.
Reachability is stated by closed sets and not by paths, so no step needs
induction over a definition: when the queue is empty, the visited nodes are
themselves such a closed set, hence the smallest.

`NearestFirst` compares distances. `BreadthInv` strengthens it: while something
within `k` nodes has not been visited, all that is visited lies within `k` nodes
and all that is queued within `k + 1` (`Layered`); of what is queued and not
visited, a farther node never stands before every occurrence of a nearer one
(`Nearer`, which needs the care because the code queues a node again and drops
the second one when it comes up); results come in the order of their distance
(`InOrder`). Two things replace an
induction: a claim about all `k` is refuted at its least counterexample
(`LeastNatural`), and the recursive function `Within` is shown to be what its
equation says by a solution without recursion, the ends of the paths of length
`k` (`WithinLemma`). Termination (`Terminates`, and `CanReach`'s) is liveness
and is model-checked only.

`Branches_proofs` proves, for every list of items and all bounds:

| Theorem | Containers | Statement |
|---|---|---|
| `BranchesTypeCorrect` | any number | `Spec => []TypeOK` |
| `OwnDataInList` | any number | `Spec => []ListHoldsOwnData` |
| `AnswersCanBeRouted` | any number | `Spec => []AnswersFindTheirItem` |
| `RequestsAreNamed` | one | `Spec => []RequestsNameTheirBranch` |
| `NoBranchIsAskedTwice` | one | `Spec => []OneRequestPerBranch`, under `KeyIsFilingPackId` |
| `ResponsesStayInTheList` | one | `Spec => ListKeepsAnswers` |

`TInv` adds to the types what a container at work holds and that every request
and every checkpoint about to make one names a branch of the list: without it a
request could be answered by a command without routing hint. `OwnInv` extends
`ListHoldsOwnData` to the copies the containers hold. `RegisteredInv` says what a
checkpoint's pending task implies (past the fork's predecessor the list is there,
past the fork every branch is registered) for the stored checkpoint and for all
copies, so that even a stale put cannot take an item away, and that every
response, request and drain comes after the registration.

The other three add `SerialInv`: nobody writes between a container's read and
its own writes, so its copy is the checkpoint in the states of `Current`; the
answer with the list is the first that is marked, and only the container that
handles it ever runs the fork, the submission and the drain. `UniqueInv` makes
`OneRequestPerBranch` inductive. The graph asks for one branch, the one in
flight, and the drain skips it: while the drain has items before it, only the
last branch of the list can have been asked for, and the drain's list has no
repetitions. `MCLostBranchAnswer` shows that a second container breaks what
these rest on, `MCFixedBranchKey` what another branch key does to the drain.
Only model-checked: liveness (`EveryBranchIsRequested`, `AnswersReachTheList`).

`CheckpointStore_proofs` proves, for any number of processes, tasks and writes
per task, every TTL and all bounds:

| Theorem | Statement |
|---|---|
| `StoreTypeCorrect` | `Spec => []TypeOK` |
| `WritesOutlive` | `Spec => []WritesOutliveTheirCheckpoint` |
| `SkipsOnlyRan` | `Spec => []SkipsOnlyWhatRan` |
| `StoreIsARegister` | `Spec => ImplementsRegister` |

The invariant is `IInv == TInv /\ IdsOK /\ ExpiryOK`. `IdsOK`: every stored id
has been drawn, an id about to be put is larger than the one it builds on, not
stored yet and nobody else's. `ExpiryOK`: no stored checkpoint expires
later than one put now would, expiry grows with the id, also past an id that is
drawn and not yet put, and a write's expiry is at least its checkpoint's. From these, a newer checkpoint never expires
before an older one, so the query that looks at the newest item alone never
uncovers an old one, which is what the register needs. `RanOK` carries
`SkipsOnlyWhatRan`: every write, in the table or a replica, is of an execution
in `ran`.

`TableDeployment_proofs` proves, for any number of processes, keys and crashes:

| Theorem | Statement |
|---|---|
| `DeploymentTypeCorrect` | `Spec => []TypeOK` |
| `OneProcessBackfills` | `Spec => []OneBackfill` |
| `BackfillIsComplete` | `Spec => []BackfillCoversTheTable` |

That one process backfills needs that the TTL is on or coming as soon as one is
past its update (`BackfillNeedsTtl`). That a backfill is complete needs what it
has `Behind` it at every moment: the keys of its finished scan, and of this scan
those evaluated and not in its page; all of them have an expiry, and no put takes
one away. It holds although keys may be put behind the scan, because savers set
the expiry themselves.

`EventPublication_proofs` proves, for every definition and all bounds:

| Theorem | Containers | Statement |
|---|---|---|
| `PublishingIsTransparent` | any number | `ESpec => Spec` |
| `EventTypeCorrect` | any number | `ESpec => []EventTypeOK` |
| `AnnouncedOnce` | one | `ESpec => EndOfRequestAnnouncedOnce` |
| `RestsAreAnnounced` | one | `ESpec => []RestIsAnnounced`, if `MarkKeepsPending`, `PathsEndAtEnds`, and `TriggersMeetNoWait(R)` for some `R` |
| `PromisesAreKept` | one | `ESpec /\ []Undisturbed => FirstStepWasPromised`, if `MarkKeepsPending`, `ConditionsAreTotal` and `RoutesAreAnnounced` |

By the first every theorem of `Orchestrator_proofs` holds of the publishing
service too, and the third uses its invariants: an answer whose end was
announced is marked in the stored checkpoint, and a marked answer never gets to
`Route` again.

The last two depend on the definition, and say how. `PathsEndAtEnds`: an
instance is out of nodes only after an end node, which is what announces
`WorkflowStateEnded`, and a response continues neither at an end nor at a wait.
`TriggersMeetNoWait(R)`: a trigger's run, failures included, comes to no
`event_wait` before it pauses; `R` is the set of the nodes and
statuses it can come to. `RoutesAreAnnounced`: outside the announced steps
routing only follows edges `compute_next_steps` looks along. `RestIsAnnounced`
speaks of undisturbed states itself; its proof adds `AnnouncedOK` (where the
instance is, or has ended, is announced) and `TriggerOK(R)` to `PauseOK`.
`FirstStepWasPromised` is proved of behaviours in which no handler dies: after a
death a resolution can be applied to whatever node the instance was left at.
`PromiseOK` says that until the instance comes to a step, the steps announced
are closed under what is ahead of it. `DefV111`, the shipped definition, satisfies all
of these, and `EventsAreSound` has TLC evaluate them, with `RunOfTrigger` for `R`.

Liveness of `TableDeployment` (`DeploymentTakesEffect`) is model-checked only.

Only model-checked of `Orchestrator`: liveness (`AnswersTakeEffect`,
`InstanceSettles`), which the prover cannot reach because fairness speaks of
`ENABLED`, and the violations.

## Plan

Done: the sequential core, the traversals, the branches, the checkpoint saver,
the deployment of its table, event publication; and a theorem for every
invariant and every action property of a passing run. Left, in this order:

1. The events of branches and the announcement of joins
   (`event_publishing_checkpointer.py:104-178`), over `Branches` and `CanReach`.
2. An abstract specification of a fork and its join, and which part of it
   `Branches` implements; failing AWS calls in `Branches`.
3. Asynchronous durability of checkpoints: a crash that overtakes the put of a
   superstep.

## Not modelled

* Payloads and the contents of `data` beyond the status key, except the items of
  parallel branches, which `Branches` has; formatting; schema
  validation of a well-formed command.
* `scheduled_request`: it schedules an `EXECUTE_SCHEDULED_TASK` command, a type
  the command schema rejects.
* `library_function`: `graph_builder.py:340` refers to
  `library_nodes.library_node_wrapper`, which does not exist, so a definition
  with such a node does not compile.
* `enhanced_error_nodes.py`: imported nowhere; `execute_with_retry`
  (`utils.py:75`): called nowhere.
* `DynamoDBSaver.list`: no path of the service calls it, and with `before=` its
  key condition has two terms on the sort key, which DynamoDB rejects;
  `destroy`, an operator's tool; the `a*` methods, which run the same calls in a
  thread.
* The cache of compiled graphs (`service.py:78`): the definition is a constant of
  the models. Were it a variable, nothing in the code would relate the cached
  graph to the definition the transition is read from, so there is no property
  to check beyond the disagreement the hazard states.
* The events of branches (see the plan).
* Telemetry, logging, AWS client wrappers and the CDK stack beyond its queues:
  no workflow state.
