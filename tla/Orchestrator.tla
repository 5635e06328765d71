----------------------------- MODULE Orchestrator -----------------------------
(***************************************************************************)
(* One workflow instance driven by commands from an SQS queue.             *)
(*                                                                         *)
(* Lambda containers (Worker) take commands from the queue and run         *)
(* OrchestratorService.process_command.  The only state that survives a    *)
(* command is the instance's latest checkpoint in DynamoDB, so every       *)
(* access to it is a step of its own: between two of them another          *)
(* container may write a checkpoint, or this one may die.                  *)
(*                                                                         *)
(* Around the service stand the capability that answers requests, the      *)
(* operator who resolves event_wait nodes, and SQS itself, which delivers  *)
(* at least once.  Instances share nothing but the queue (the thread id is *)
(* the DynamoDB partition key), so one instance is modelled.               *)
(***************************************************************************)
EXTENDS WorkflowDefinition, Integers, Sequences, FiniteSets

CONSTANTS
  Worker,            \* concurrently running Lambda containers
  NoCheckpoint,      \* the instance has no checkpoint yet
  NoJob,             \* the container is handling no command
  MarkMoves,         \* whether marking an answer may make another node pending
  AnswerStatus,      \* the statuses the capability answers with
  ResolutionStatus,  \* the statuses the operator resolves with
  MaxReceive,        \* maxReceiveCount of the command queue
  MaxTriggers,       \* bound: EVENT commands sent for the instance
  MaxRequests,       \* bound: requests the capability queue ever holds
  MaxAnswers,        \* bound: answers the capability sends per request
  MaxResolutions,    \* bound: EVENT_WAIT_RESP commands the operator sends
  MaxDuplicates,     \* bound: extra deliveries SQS makes on its own
  MaxCrashes,        \* bound: containers killed (crash or 300 s timeout)
  MaxFaults,         \* bound: AWS calls that raise inside process_command
  MaxSendFailures    \* bound: send_message calls that raise

Trigger    == [type : {"EVENT"}, id : 1..MaxTriggers, status : {NoStatus}]
Answer     == [type : {"ASYNC_RESP"}, id : 1..MaxRequests, status : AnswerStatus]
Resolution == [type : {"EVENT_WAIT_RESP"}, id : 1..MaxResolutions,
               status : ResolutionStatus]

\* The id of an Answer is its in_reply_to, the number of the request.
Command  == Trigger \cup Answer \cup Resolution
Delivery == [cmd : Command, receive : 1..MaxReceive]

\* The part of a checkpoint that control depends on: the pending task, the node
\* that ran last, and in the channels data.status, is_error and
\* context.processed_async_replies.
Checkpoint == [next    : Pending,
               ran     : Node \cup {StartNode},
               status  : DataStatus,
               isError : BOOLEAN,
               replies : SUBSET (1..MaxRequests)]

Request == [node : Node, cause : Delivery]

ASSUME OrchestratorAssumption ==
  /\ NoCheckpoint \notin Checkpoint \cup Pending
  /\ NoJob \notin Delivery
  /\ MarkMoves \in BOOLEAN
  /\ AnswerStatus \subseteq CommandStatus
  /\ ResolutionStatus \subseteq CommandStatus
  /\ MaxReceive \in Nat \ {0}
  /\ {MaxTriggers, MaxRequests, MaxAnswers, MaxResolutions, MaxDuplicates,
      MaxCrashes, MaxFaults, MaxSendFailures} \subseteq Nat

VARIABLES
  checkpoint,  \* the latest checkpoint of the instance
  queue,       \* commands a receive call can return
  receives,    \* SQS's receive count of every command
  dlq,         \* commands moved to the dead-letter queue
  sent,        \* commands the environment has sent
  requests,    \* requests put on the capability queue, in order
  pc,          \* what each worker does next
  job,         \* the delivery each worker handles
  mem,         \* the checkpoint each worker has loaded
  node,        \* the node each worker found interrupted
  applied,     \* history: deliveries whose response was written to 'data'
  disturbed    \* how often each disturbance has happened

store   == <<checkpoint, requests, applied>>
channel == <<queue, receives, dlq, sent>>
local   == <<pc, job, mem, node>>
vars    == <<store, channel, local, disturbed>>

PC == {"idle", "lookup", "start", "input", "snapshot", "mark", "markput",
       "route", "apply", "applyput", "invoke", "run", "finish"}

Disturbance == {"duplicate", "crash", "fault", "sendfailure"}

TypeOK ==
  /\ checkpoint \in Checkpoint \cup {NoCheckpoint}
  /\ queue \subseteq Command
  /\ receives \in [Command -> 0..MaxReceive]
  /\ dlq \subseteq Command
  /\ sent \subseteq Command
  /\ requests \in Seq(Request)
  /\ Len(requests) <= MaxRequests
  /\ pc \in [Worker -> PC]
  /\ job \in [Worker -> Delivery \cup {NoJob}]
  /\ mem \in [Worker -> Checkpoint \cup {NoCheckpoint}]
  /\ node \in [Worker -> Pending]
  /\ applied \subseteq Delivery
  /\ disturbed \in [Disturbance -> Nat]

Init ==
  /\ checkpoint = NoCheckpoint
  /\ queue = {}
  /\ receives = [c \in Command |-> 0]
  /\ dlq = {}
  /\ sent = {}
  /\ requests = <<>>
  /\ pc = [w \in Worker |-> "idle"]
  /\ job = [w \in Worker |-> NoJob]
  /\ mem = [w \in Worker |-> NoCheckpoint]
  /\ node = [w \in Worker |-> NoNode]
  /\ applied = {}
  /\ disturbed = [d \in Disturbance |-> 0]

-----------------------------------------------------------------------------
(* The environment: trigger, capability, operator, SQS.                    *)

Send(c) ==
  /\ c \notin sent
  /\ sent' = sent \cup {c}
  /\ queue' = queue \cup {c}
  /\ UNCHANGED <<store, receives, dlq, local, disturbed>>

SendTrigger == \E c \in Trigger : Send(c)

Answers(r) == {c \in sent \cap Answer : c.id = r}

\* The capability answers a request it has received, possibly more than once.
CapabilityAnswers(r) ==
  /\ r \in 1..Len(requests)
  /\ Cardinality(Answers(r)) < MaxAnswers
  /\ \E c \in Answer : c.id = r /\ Send(c)

\* The operator sees an instance paused at an event_wait node.
OperatorResolves ==
  /\ checkpoint # NoCheckpoint
  /\ Type(checkpoint.next) = "event_wait"
  /\ \E c \in Resolution :
       /\ \A d \in sent \cap Resolution : d.id < c.id
       /\ Send(c)

Disturb(d, bound) ==
  /\ disturbed[d] < bound
  /\ disturbed' = [disturbed EXCEPT ![d] = @ + 1]

\* A standard queue may deliver a command again, handled or not.
Redeliver(c) ==
  /\ c \in sent \ queue
  /\ Disturb("duplicate", MaxDuplicates)
  /\ queue' = queue \cup {c}
  /\ UNCHANGED <<store, receives, dlq, sent, local>>

DeadLetter(c) ==
  /\ c \in queue
  /\ receives[c] = MaxReceive
  /\ queue' = queue \ {c}
  /\ dlq' = dlq \cup {c}
  /\ UNCHANGED <<store, receives, sent, local, disturbed>>

-----------------------------------------------------------------------------
(* app.handler and the beginning of process_command.                       *)

Goto(w, label) == pc' = [pc EXCEPT ![w] = label]

\* A receive past the limit dead-letters the command instead.
ReceiveWithoutLimit(c) == TRUE                                     \* mutant
Receivable(c) == receives[c] < MaxReceive

\* Every command here passes is_valid_command, and compiling the graph or
\* finding it in the container's cache changes nothing outside the container.
Receive(w) ==
  /\ pc[w] = "idle"
  /\ \E c \in queue :
       /\ Receivable(c)
       /\ queue' = queue \ {c}
       /\ receives' = [receives EXCEPT ![c] = @ + 1]
       /\ job' = [job EXCEPT ![w] = [cmd |-> c, receive |-> receives[c] + 1]]
       /\ Goto(w, IF c.type = "EVENT" THEN "lookup" ELSE "snapshot")
  /\ UNCHANGED <<store, dlq, sent, mem, node, disturbed>>

\* process_command returned or raised; either way the record is acknowledged.
Forget(w) ==
  /\ pc' = [pc EXCEPT ![w] = "idle"]
  /\ job' = [job EXCEPT ![w] = NoJob]
  /\ mem' = [mem EXCEPT ![w] = NoCheckpoint]
  /\ node' = [node EXCEPT ![w] = NoNode]

Finish(w) ==
  /\ pc[w] = "finish"
  /\ Forget(w)
  /\ UNCHANGED <<store, channel, disturbed>>

\* An AWS call raises: the handler logs it, swallows it and acknowledges.
Fault(w) ==
  /\ pc[w] \notin {"idle", "finish"}
  /\ Disturb("fault", MaxFaults)
  /\ Forget(w)
  /\ UNCHANGED <<store, channel>>

\* The container dies before the acknowledgement: after the visibility timeout
\* the command can be received again.
Crash(w) ==
  /\ pc[w] # "idle"
  /\ Disturb("crash", MaxCrashes)
  /\ queue' = queue \cup {job[w].cmd}
  /\ Forget(w)
  /\ UNCHANGED <<store, receives, dlq, sent>>

-----------------------------------------------------------------------------
(* EVENT: start the instance.                                              *)

AnyTriggerIsNew == TRUE                                            \* mutant
TriggerIsNew == checkpoint = NoCheckpoint

\* A trigger for an instance that has a checkpoint is a duplicate.
LookupTrigger(w) ==
  /\ pc[w] = "lookup"
  /\ Goto(w, IF TriggerIsNew THEN "start" ELSE "finish")
  /\ UNCHANGED <<store, channel, job, mem, node, disturbed>>

FreshCheckpoint ==
  [next |-> StartNode, ran |-> StartNode, status |-> NoStatus, isError |-> FALSE,
   replies |-> {}]

\* graph.invoke(initial_state_patch): an existing checkpoint keeps its channels
\* and loses its pending task.
LoadForStart(w) ==
  /\ pc[w] = "start"
  /\ mem' = [mem EXCEPT ![w] =
               IF checkpoint = NoCheckpoint
                 THEN FreshCheckpoint
                 ELSE [checkpoint EXCEPT !.next = StartNode]]
  /\ Goto(w, "input")
  /\ UNCHANGED <<store, channel, job, node, disturbed>>

PutInput(w) ==
  /\ pc[w] = "input"
  /\ checkpoint' = mem[w]
  /\ Goto(w, "run")
  /\ UNCHANGED <<requests, applied, channel, job, mem, node, disturbed>>

-----------------------------------------------------------------------------
(* ASYNC_RESP and EVENT_WAIT_RESP: resume the instance.                    *)

IsAnswer(w) == job[w].cmd.type = "ASYNC_RESP"
ReplyKey(w) == job[w].cmd.id

NeverProcessed(w) == FALSE                                         \* mutant
AlreadyProcessed(w) == IsAnswer(w) /\ ReplyKey(w) \in checkpoint.replies

\* get_state with the idempotency checks made on that snapshot.
Snapshot(w) ==
  /\ pc[w] = "snapshot"
  /\ LET paused == checkpoint # NoCheckpoint /\ checkpoint.next # NoNode
         ignored == ~paused \/ AlreadyProcessed(w)
     IN  \/ /\ ignored
            /\ Goto(w, "finish")
            /\ UNCHANGED node
         \/ /\ ~ignored
            /\ node' = [node EXCEPT ![w] = checkpoint.next]
            /\ Goto(w, IF IsAnswer(w) THEN "mark" ELSE "route")
  /\ UNCHANGED <<store, channel, job, mem, disturbed>>

\* Each update_state reads the latest checkpoint, then puts a new one.
Load(w, from, to) ==
  /\ pc[w] = from
  /\ mem' = [mem EXCEPT ![w] = checkpoint]
  /\ Goto(w, to)
  /\ UNCHANGED <<store, channel, job, node, disturbed>>

LoadForMark(w) == Load(w, "mark", "markput")

OnlyThisReply(w) == {ReplyKey(w)}                                  \* mutant
MarkedReplies(w) == mem[w].replies \cup {ReplyKey(w)}

\* An update_state without as_node takes the outgoing edges of the node LangGraph
\* finds to have run last.  They lead to the pending node again or, when an as_node
\* took the place of a run since, perhaps to another one, until PutApply chooses
\* anew.  (Edges that raise, instead, are a Fault.)
PendingAfterMark(c) ==
  {c.next} \cup (IF ~MarkMoves THEN {}
                ELSE IF c.ran = StartNode THEN {Definition.entry_point}
                ELSE EdgeTargets(c.ran))

PutMark(w) ==
  /\ pc[w] = "markput"
  /\ \E n \in PendingAfterMark(mem[w]) :
       checkpoint' = [mem[w] EXCEPT !.replies = MarkedReplies(w), !.next = n]
  /\ Goto(w, "route")
  /\ UNCHANGED <<requests, applied, channel, job, mem, node, disturbed>>

TransitionOf(w) == TransitionNode(node[w], job[w].cmd.type)

HasTransition(w) == node[w] \in Node /\ TransitionOf(w) # NoNode

\* mutants: invoke all the same; look the reply up again, after the mark
RouteAnyway(w) == IF HasTransition(w) THEN "apply" ELSE "invoke"
RouteUnprocessed(w) ==
  IF HasTransition(w) /\ ~AlreadyProcessed(w) THEN "apply" ELSE "finish"

\* A snapshot taken at "__start__" has no definition: the lookup raises.
RouteTo(w) == IF HasTransition(w) THEN "apply" ELSE "finish"

Route(w) ==
  /\ pc[w] = "route"
  /\ Goto(w, RouteTo(w))
  /\ UNCHANGED <<store, channel, job, mem, node, disturbed>>

LoadForApply(w) == Load(w, "apply", "applyput")

AsInterruptedNode(w) == node[w]                                    \* mutant
AsNode(w) == TransitionOf(w)

\* update_state(..., as_node=T): only T's outgoing edges run, not its action.
PutApply(w) ==
  /\ pc[w] = "applyput"
  /\ LET target == AsNode(w)
         status == job[w].cmd.status
     IN  \/ /\ EdgeRaises(target, status, mem[w].isError)
            /\ Goto(w, "finish")
            /\ UNCHANGED <<checkpoint, applied>>
         \/ /\ ~EdgeRaises(target, status, mem[w].isError)
            /\ checkpoint' =
                 [mem[w] EXCEPT
                    !.status = status,
                    !.next = Successor(target, status, mem[w].isError)]
            /\ applied' = applied \cup {job[w]}
            /\ Goto(w, "invoke")
  /\ UNCHANGED <<requests, channel, job, mem, node, disturbed>>

LoadWithoutInvoke(w) == Load(w, "invoke", "finish")                \* mutant
LoadForInvoke(w) == Load(w, "invoke", "run")

-----------------------------------------------------------------------------
(* graph.invoke: one superstep per pending node, one checkpoint per step.  *)

Running(w, types) == pc[w] = "run" /\ Type(mem[w].next) \in types

Put(w, c) ==
  /\ checkpoint' = c
  /\ mem' = [mem EXCEPT ![w] = c]
  /\ UNCHANGED <<requests, applied, channel, pc, job, node, disturbed>>

\* The reducer of the is_error channel, operator.or_: a node's return value can
\* set the flag and never clear it.
ErrorReducer(old, returned) == old \/ returned

\* The checkpoint after node c.next has returned the given status and is_error.
After(c, status, returned) ==
  LET err == ErrorReducer(c.isError, returned)
  IN  [c EXCEPT !.status = status, !.isError = err, !.ran = c.next,
                !.next = Successor(c.next, status, err)]

RunStart(w) ==
  /\ pc[w] = "run"
  /\ mem[w].next = StartNode
  /\ Put(w, [mem[w] EXCEPT !.next = Definition.entry_point, !.ran = StartNode])

RunPassThrough(w) ==
  /\ Running(w, {"start", "condition"})
  /\ ~EdgeRaises(mem[w].next, mem[w].status, mem[w].isError)
  /\ Put(w, After(mem[w], mem[w].status, mem[w].isError))

\* The branch resolver raises out of invoke, and process_command swallows it.
RunRaises(w) ==
  /\ Running(w, {"condition"})
  /\ EdgeRaises(mem[w].next, mem[w].status, mem[w].isError)
  /\ Goto(w, "finish")
  /\ UNCHANGED <<store, channel, job, mem, node, disturbed>>

StaticStatus(n, old) ==
  IF Type(n) = "end" THEN "COMPLETED"
  ELSE IF Def(n).static_status # NoNode THEN Def(n).static_status ELSE old

SetStateInterrupts(w) ==                                           \* mutant
  /\ Running(w, {"set_state", "end"})
  /\ Goto(w, "finish")
  /\ UNCHANGED <<store, channel, job, mem, node, disturbed>>
RunSetState(w) ==
  /\ Running(w, {"set_state", "end"})
  /\ Put(w, After(mem[w], StaticStatus(mem[w].next, mem[w].status), FALSE))

\* The node returns is_error FALSE.
RunLogError(w) ==
  /\ Running(w, {"log_error"})
  /\ Put(w, After(mem[w], mem[w].status, FALSE))

\* interrupt() without its argument raises TypeError, caught as an error.
RunSyncCall(w) ==
  /\ Running(w, {"sync_call"})
  /\ Put(w, After(mem[w], mem[w].status, TRUE))

RequestSent(w) == Append(requests, [node |-> mem[w].next, cause |-> job[w]])

\* mutants: interrupt before the send; send without the interrupt, so that the
\* node is executed again or the instance walks on; take the send for the answer
InterruptBeforeSend(w) ==
  /\ Running(w, {"async_request"})
  /\ Goto(w, "finish")
  /\ UNCHANGED <<store, channel, job, mem, node, disturbed>>
SendWithoutInterrupt(w) ==
  /\ Running(w, {"async_request"})
  /\ Len(requests) < MaxRequests
  /\ requests' = RequestSent(w)
  /\ LET c == After(mem[w], mem[w].status, FALSE)
     IN  /\ checkpoint' \in {checkpoint, c}
         /\ mem' = [mem EXCEPT ![w] = IF checkpoint' = c THEN c ELSE @]
  /\ UNCHANGED <<applied, channel, pc, job, node, disturbed>>
TakeSendForAnswer(w) ==
  /\ Running(w, {"async_request"})
  /\ Len(requests) < MaxRequests
  /\ requests' = RequestSent(w)
  /\ LET c == After(mem[w], "SUCCESS", FALSE)
     IN  checkpoint' = c /\ mem' = [mem EXCEPT ![w] = c]
  /\ UNCHANGED <<applied, channel, pc, job, node, disturbed>>

\* The request leaves before interrupt(); the node stays pending.
RunAsyncRequest(w) ==
  /\ Running(w, {"async_request"})
  /\ Len(requests) < MaxRequests
  /\ requests' = RequestSent(w)
  /\ Goto(w, "finish")
  /\ UNCHANGED <<checkpoint, applied, channel, job, mem, node, disturbed>>

\* No queue configured, or send_message raises: the error becomes state.
RunAsyncFails(w) ==
  /\ Running(w, {"async_request"})
  /\ Disturb("sendfailure", MaxSendFailures)
  /\ LET c == After(mem[w], mem[w].status, TRUE)
     IN  checkpoint' = c /\ mem' = [mem EXCEPT ![w] = c]
  /\ UNCHANGED <<requests, applied, channel, pc, job, node>>

\* interrupt() at an event_wait node, or nothing left to run.
RunStops(w) ==
  /\ pc[w] = "run"
  /\ mem[w].next = NoNode \/ Type(mem[w].next) = "event_wait"
  /\ Goto(w, "finish")
  /\ UNCHANGED <<store, channel, job, mem, node, disturbed>>

-----------------------------------------------------------------------------

Resume(w) ==
  \/ Snapshot(w) \/ LoadForMark(w) \/ PutMark(w) \/ Route(w)
  \/ LoadForApply(w) \/ PutApply(w) \/ LoadForInvoke(w)

Run(w) ==
  \/ RunStart(w) \/ RunPassThrough(w) \/ RunRaises(w) \/ RunSetState(w)
  \/ RunLogError(w) \/ RunSyncCall(w) \/ RunAsyncRequest(w) \/ RunStops(w)

Handle(w) ==
  \/ Receive(w) \/ LookupTrigger(w) \/ LoadForStart(w) \/ PutInput(w)
  \/ Resume(w) \/ Run(w) \/ Finish(w)

Environment ==
  \/ SendTrigger
  \/ \E r \in 1..MaxRequests : CapabilityAnswers(r)
  \/ OperatorResolves
  \/ \E c \in Command : Redeliver(c) \/ DeadLetter(c)

Next ==
  \/ Environment
  \/ \E w \in Worker : Handle(w) \/ RunAsyncFails(w) \/ Fault(w) \/ Crash(w)

Spec == Init /\ [][Next]_vars

(***************************************************************************)
(* Lambda polls the queue as long as it holds a command, a handler runs to *)
(* its end, and the capability answers what it is asked.  Nothing is       *)
(* assumed of the operator, of SQS duplicates or of failures.              *)
(***************************************************************************)
Fairness ==
  /\ \A w \in Worker : WF_vars(Handle(w))
  /\ \A r \in 1..MaxRequests : WF_vars(Answers(r) = {} /\ CapabilityAnswers(r))

FairSpec == Spec /\ Fairness

-----------------------------------------------------------------------------
(* Safety.                                                                 *)

IsReply(d) == d.cmd.type = "ASYNC_RESP"

\* A capability's answer to one request takes effect at most once, however
\* often it is delivered or sent again: the promise of the idempotency check
\* on processed_async_replies (service.py:196-209).
ReplyAppliedAtMostOnce ==
  \A a, b \in applied :
    IsReply(a) /\ IsReply(b) /\ a.cmd.id = b.cmd.id => a = b

\* One delivery of a command sends at most one request, whatever other
\* containers write meanwhile: a request always ends the invoke that sent it.
OneRequestPerDelivery ==
  \A i, j \in DOMAIN requests : requests[i].cause = requests[j].cause => i = j

\* A request is only ever caused by a trigger or by a response that was written
\* to the instance: rejected and ignored responses send nothing.
RequestsHaveACause ==
  \A i \in DOMAIN requests :
    requests[i].cause.cmd.type = "EVENT" \/ requests[i].cause \in applied

Quiet == \A w \in Worker : pc[w] = "idle"

\* No handler has been killed, and no AWS call inside one has raised.
Undisturbed == disturbed["crash"] = 0 /\ disturbed["fault"] = 0

NoSendFailed == disturbed["sendfailure"] = 0

AnswerApplied(r) == \E d \in applied : IsReply(d) /\ d.cmd.id = r

\* No lost wake-up: an instance at rest at an async_request node has asked that
\* node's capability and has not used up the answer it waits for.
PausedHasOutstandingRequest ==
  Quiet /\ checkpoint # NoCheckpoint /\ Type(checkpoint.next) = "async_request"
    => \E r \in DOMAIN requests :
         requests[r].node = checkpoint.next /\ ~AnswerApplied(r)

\* An instance at rest is somewhere a command can move it on from: it never
\* stands at a node that should have run by itself.
QuietOnlyAtPauses ==
  Quiet /\ checkpoint # NoCheckpoint
    => \/ checkpoint.next = NoNode
       \/ Type(checkpoint.next) \in {"async_request", "event_wait"}

\* An instance never ends while a request is out whose answer nobody will read.
EndLeavesNothingOutstanding ==
  checkpoint # NoCheckpoint /\ checkpoint.next = NoNode
    => \A r \in DOMAIN requests : AnswerApplied(r)

\* No instance completes before a capability has answered it, but for one whose
\* request could not be sent; and that one carries its error, the is_error of
\* state.py:52, which is all that tells it from an answered one.
CompletionNeedsAnAnswer ==
  checkpoint # NoCheckpoint /\ checkpoint.status = "COMPLETED"
    => \/ \E d \in applied : IsReply(d)
       \/ ~NoSendFailed /\ checkpoint.isError

-----------------------------------------------------------------------------
(* What a step may never do.                                               *)

\* A finished instance stays as it is (README.md:51, "end: Terminates the
\* workflow instance"): no late answer, resolution or trigger moves it again.
EndIsFinal ==
  [][checkpoint # NoCheckpoint /\ checkpoint.next = NoNode
       => checkpoint' # NoCheckpoint /\ checkpoint'.next = NoNode]_vars

\* The record of processed answers is never lost by a later checkpoint.
RepliesOnlyGrow ==
  [][checkpoint # NoCheckpoint
       => checkpoint' # NoCheckpoint /\ checkpoint.replies \subseteq checkpoint'.replies]_vars

\* An answer resumes the node that asked: it answers the newest request, and
\* that request was sent by the node the answer is taken to belong to.
AnswerResumesItsRequester ==
  [][\A w \in Worker :
       PutApply(w) /\ IsAnswer(w) /\ applied' # applied
         => ReplyKey(w) = Len(requests) /\ requests[ReplyKey(w)].node = node[w]]_vars

\* Nothing tells an old resolution from a new one, and yet one that is delivered
\* again, or after its wait is over, moves no instance on that waits for a
\* capability.  (A container that died may leave it where a resolution does.)
ResolutionsEndOnlyWaits ==
  [][\A w \in Worker :
       PutApply(w) /\ ~IsAnswer(w) /\ applied' # applied
         => Type(checkpoint.next) = "event_wait"]_vars

\* The set_state node a response leads to has its values in the state it leaves
\* behind (README.md:49, "Synchronously updates the workflow's state with a
\* predefined set of static values").
SetStateIsApplied ==
  [][\A w \in Worker :
       PutApply(w) /\ applied' # applied /\ Type(TransitionOf(w)) = "set_state"
         => checkpoint'.status = StaticStatus(TransitionOf(w), job[w].cmd.status)]_vars

\* A resolution whose target is an async_request makes that node run again (the
\* v2.0.0 scenario definition: "on_success: Create_Filing_Packs # Retry the
\* node").
ResolutionRetriesTheNode ==
  [][\A w \in Worker :
       PutApply(w) /\ applied' # applied /\ ~IsAnswer(w)
         /\ Type(TransitionOf(w)) = "async_request"
         => checkpoint'.next = TransitionOf(w)]_vars

\* A log_error node clears the error it has logged (core_nodes.py:177, "then
\* clears the error state").
LogErrorClearsTheError ==
  [][\A w \in Worker : RunLogError(w) => ~checkpoint'.isError]_vars

-----------------------------------------------------------------------------
(* The abstract specification this one implements, one container at a time. *)

Consumed == {d.cmd.id : d \in {a \in applied : IsReply(a)}}

Lifecycle == INSTANCE InstanceLifecycle WITH
  RequestId  <- 1..MaxRequests,
  NotStarted <- NoCheckpoint,
  at         <- IF checkpoint = NoCheckpoint THEN NoCheckpoint ELSE checkpoint.next,
  consumed   <- Consumed

\* With commands handled one at a time, and unless a mark moves the pending node
\* off the definition's edges, every step of the service, crashes and redeliveries
\* included, is a step of the instance's lifecycle or none.
ImplementsLifecycle == Lifecycle!Spec

-----------------------------------------------------------------------------
(* Liveness.                                                               *)

\* README.md:46: "The workflow resumes when the capability sends an ASYNC_RESP
\* command back": every answer sent is applied (itself, or another answer to
\* the same request).
AnswersTakeEffect ==
  \A r \in 1..MaxRequests : Answers(r) # {} ~> AnswerApplied(r)

\* A triggered instance ends or comes to wait for its operator, for good.
InstanceSettles ==
  (sent \cap Trigger # {}) ~>
    [](Quiet /\ checkpoint # NoCheckpoint /\
       (checkpoint.next = NoNode \/ Type(checkpoint.next) = "event_wait"))

=============================================================================
