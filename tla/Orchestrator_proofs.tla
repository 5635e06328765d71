-------------------------- MODULE Orchestrator_proofs --------------------------
(***************************************************************************)
(* Theorems about Orchestrator, for every definition, every number of      *)
(* containers and every bound.                                             *)
(***************************************************************************)
EXTENDS Orchestrator, TLAPS

-----------------------------------------------------------------------------
(* The operators the module is built from.                                 *)

\* The routing of the compiled graph never leaves the definition: the successor
\* of a node is a node or the end.
LEMMA SuccessorType ==
  ASSUME NEW n \in Node, NEW s \in DataStatus, NEW e \in BOOLEAN
  PROVE  Successor(n, s, e) \in Target
<1>1. Definition.nodes[n] \in NodeDef
  BY DefinitionAssumption
<1>2. /\ Def(n).on_success \in Target /\ Def(n).on_response \in Target
      /\ Def(n).on_event \in Target /\ Def(n).on_failure \in Target
      /\ Def(n).default \in Target /\ Def(n).branches[s] \in Target
  BY <1>1 DEF Def, NodeDef
<1>3. _get_success_path(n) \in Target
  BY <1>2 DEF _get_success_path, Or
<1>4. resolve_branch(n, s, e) \in Target
  BY <1>2 DEF resolve_branch, Or
<1> QED
  BY <1>2, <1>3, <1>4 DEF Successor, Target

\* The node a response continues from is one of the definition, or missing.
LEMMA TransitionType ==
  ASSUME NEW n \in Node, NEW t
  PROVE  TransitionNode(n, t) \in Target
<1>1. Definition.nodes[n] \in NodeDef
  BY DefinitionAssumption
<1> QED
  BY <1>1 DEF TransitionNode, Def, NodeDef, Or

\* Only nodes of the definition have one of its types.
LEMMA TypedIsNode ==
  ASSUME NEW n, Type(n) \in NodeType
  PROVE  n \in Node
BY DEF Type, NodeType

\* What the node handlers leave in data.status is a status.
LEMMA StaticStatusType ==
  ASSUME NEW n \in Node, NEW s \in DataStatus
  PROVE  StaticStatus(n, s) \in DataStatus
<1>1. Definition.nodes[n] \in NodeDef
  BY DefinitionAssumption
<1> QED
  BY <1>1 DEF StaticStatus, Def, NodeDef, DataStatus

\* What every command carries.
LEMMA CommandFields ==
  ASSUME NEW c \in Command
  PROVE  /\ c.type \in {"EVENT", "ASYNC_RESP", "EVENT_WAIT_RESP"}
         /\ c.status \in DataStatus
         /\ c.type = "ASYNC_RESP" => c.id \in 1..MaxRequests
BY OrchestratorAssumption
   DEF Command, Trigger, Answer, Resolution, DataStatus, CommandStatus

\* A node that ran leaves a checkpoint whose task is again in the definition.
LEMMA AfterType ==
  ASSUME NEW c \in Checkpoint, c.next \in Node,
         NEW s \in DataStatus, NEW e \in BOOLEAN
  PROVE  /\ After(c, s, e) \in Checkpoint
         /\ After(c, s, e).next \in Target
         /\ After(c, s, e).replies = c.replies
<1>1. ErrorReducer(c.isError, e) \in BOOLEAN
  BY DEF ErrorReducer, Checkpoint
<1>2. Successor(c.next, s, ErrorReducer(c.isError, e)) \in Target
  BY <1>1, SuccessorType
<1> QED
  BY <1>1, <1>2 DEF After, Checkpoint, Pending, Target

\* An edge leads to a node or to the end.
LEMMA EdgeTargetsType ==
  ASSUME NEW n \in Node
  PROVE  EdgeTargets(n) \subseteq Target
BY SuccessorType DEF EdgeTargets

\* Wherever a mark leaves the instance, it leaves it pending somewhere.
LEMMA PendingAfterMarkType ==
  ASSUME NEW c \in Checkpoint
  PROVE  PendingAfterMark(c) \subseteq Pending
<1>1. c.next \in Pending /\ c.ran \in Node \cup {StartNode}
  BY DEF Checkpoint
<1> QED
  BY <1>1, EdgeTargetsType, DefinitionAssumption DEF PendingAfterMark, Pending, Target

-----------------------------------------------------------------------------
(* The inductive invariant, for any number of containers.                  *)

Starting   == {"lookup", "start", "input"}
Responding == {"snapshot", "mark", "markput", "route", "apply", "applyput", "invoke"}

\* What a container's program counter says about what it holds.
LocalOK(w) ==
  /\ pc[w] = "idle" => job[w] = NoJob
  /\ pc[w] # "idle" => job[w] \in Delivery
  /\ pc[w] \in Starting => job[w].cmd.type = "EVENT"
  /\ pc[w] \in Responding => job[w].cmd.type # "EVENT"
  /\ pc[w] \in {"mark", "markput"} => IsAnswer(w)
  /\ pc[w] \in {"mark", "markput", "route", "apply", "applyput", "invoke"}
       => checkpoint # NoCheckpoint
  /\ pc[w] \in {"apply", "applyput"} => HasTransition(w)
  /\ pc[w] \in {"input", "markput", "applyput", "run"} => mem[w] \in Checkpoint
  /\ pc[w] = "input" => mem[w].next = StartNode

\* A delivery is identified by its command and the receive count, so it is
\* handled by one container and never again.
DeliveriesOK ==
  /\ \A w \in Worker : pc[w] # "idle" => job[w].receive <= receives[job[w].cmd]
  /\ \A v, w \in Worker :
       pc[v] # "idle" /\ pc[w] # "idle" /\ job[v] = job[w] => v = w
  /\ \A i \in DOMAIN requests :
       requests[i].cause.receive <= receives[requests[i].cause.cmd]
  /\ \A d \in applied : d.receive <= receives[d.cmd]

\* A container that has sent a request is done with its delivery.
CausesOK ==
  /\ \A w \in Worker : pc[w] \notin {"idle", "finish"} =>
       \A i \in DOMAIN requests : requests[i].cause # job[w]
  /\ \A w \in Worker :
       pc[w] = "invoke" \/ (pc[w] = "run" /\ job[w].cmd.type # "EVENT")
         => job[w] \in applied
  /\ OneRequestPerDelivery
  /\ RequestsHaveACause

LocalsOK == \A w \in Worker : LocalOK(w)

IInv == TypeOK /\ LocalsOK /\ DeliveriesOK /\ CausesOK

-----------------------------------------------------------------------------
(* With one container: the checkpoint cannot change under its hands.       *)

OneWorker == \A v, w \in Worker : v = w

\* Marking an answer leaves the pending node as it is: what the theorems about
\* where an instance stands assume of LangGraph (PutMark).
MarkKeepsPending == ~MarkMoves

RepliesOK ==
  \A d \in applied : IsReply(d) =>
    checkpoint # NoCheckpoint /\ d.cmd.id \in checkpoint.replies

SerialOK(w) ==
  /\ pc[w] \in {"start", "input"} => checkpoint = NoCheckpoint
  /\ pc[w] \in {"markput", "applyput", "run"} => mem[w] = checkpoint
  /\ pc[w] \in {"mark", "markput", "route", "apply", "applyput"}
       => /\ node[w] # NoNode
          /\ MarkKeepsPending => checkpoint.next = node[w]
  /\ pc[w] \in {"mark", "markput", "route", "apply", "applyput"} /\ IsAnswer(w)
       => ~AnswerApplied(ReplyKey(w))
  /\ pc[w] \in {"route", "apply", "applyput"} /\ IsAnswer(w)
       => ReplyKey(w) \in checkpoint.replies

SerialInv ==
  /\ RepliesOK
  /\ ReplyAppliedAtMostOnce
  /\ \A w \in Worker : SerialOK(w)

-----------------------------------------------------------------------------
(* Type correctness.                                                       *)

Step(w) == Handle(w) \/ RunAsyncFails(w) \/ Fault(w) \/ Crash(w)

OthersStill(w) ==
  \A u \in Worker \ {w} :
    pc'[u] = pc[u] /\ job'[u] = job[u] /\ mem'[u] = mem[u] /\ node'[u] = node[u]

\* A step of a container is not a step of any other.
LEMMA ContainerFrame ==
  ASSUME TypeOK, NEW w \in Worker, Step(w)
  PROVE  OthersStill(w)
<1> USE DEF TypeOK, OthersStill, Goto, local
<1>1. CASE Receive(w) \/ Finish(w) \/ Fault(w) \/ Crash(w)
  BY <1>1 DEF Receive, Finish, Fault, Crash, Forget
<1>2. CASE LookupTrigger(w) \/ LoadForStart(w) \/ PutInput(w)
  BY <1>2 DEF LookupTrigger, LoadForStart, PutInput
<1>3. CASE Resume(w)
  BY <1>3 DEF Resume, Snapshot, LoadForMark, PutMark, Route, LoadForApply,
              PutApply, LoadForInvoke, Load
<1>4. CASE Run(w)
  BY <1>4 DEF Run, RunStart, RunPassThrough, RunRaises, RunSetState, RunLogError,
              RunSyncCall, RunAsyncRequest, RunStops, Put
<1>5. CASE RunAsyncFails(w)
  BY <1>5 DEF RunAsyncFails
<1> QED
  BY <1>1, <1>2, <1>3, <1>4, <1>5 DEF Step, Handle

\* A step of one container leaves what the others know about themselves alone.
LEMMA OneContainerMoves ==
  ASSUME NEW w \in Worker, LocalsOK, TypeOK, OthersStill(w),
         checkpoint # NoCheckpoint => checkpoint' # NoCheckpoint,
         LocalOK(w)'
  PROVE  LocalsOK'
<1> SUFFICES ASSUME NEW u \in Worker, u # w
             PROVE  LocalOK(u)'
  BY DEF LocalsOK
<1>1. LocalOK(u)
  BY DEF LocalsOK
<1> QED
  BY <1>1 DEF LocalOK, IsAnswer, HasTransition, TransitionOf, OthersStill

\* What Delivery and Checkpoint give the other proofs.
LEMMA DeliveryFields ==
  ASSUME NEW d \in Delivery
  PROVE  d.cmd \in Command /\ d.receive \in 1..MaxReceive
BY DEF Delivery

\* Checkpoints are records, and none is the missing one.
LEMMA CheckpointFields ==
  ASSUME NEW c \in Checkpoint
  PROVE  /\ c # NoCheckpoint
         /\ c.next \in Pending /\ c.ran \in Node \cup {StartNode}
         /\ c.status \in DataStatus /\ c.isError \in BOOLEAN
         /\ c.replies \subseteq 1..MaxRequests
         /\ c = [next |-> c.next, ran |-> c.ran, status |-> c.status,
                 isError |-> c.isError, replies |-> c.replies]
BY OrchestratorAssumption DEF Checkpoint

\* The environment touches neither the instance nor a container.
LEMMA EnvironmentType ==
  ASSUME TypeOK, LocalsOK, Environment
  PROVE  TypeOK' /\ LocalsOK'
<1>1. UNCHANGED <<store, local>> /\ UNCHANGED receives
  BY DEF Environment, SendTrigger, Send, CapabilityAnswers, OperatorResolves,
         Redeliver, DeadLetter
<1>2. queue' \subseteq Command /\ dlq' \subseteq Command /\ sent' \subseteq Command
  <2>1. CASE SendTrigger
    BY <2>1 DEF SendTrigger, Send, TypeOK, Command
  <2>2. CASE \E r \in 1..MaxRequests : CapabilityAnswers(r)
    BY <2>2 DEF CapabilityAnswers, Send, TypeOK, Command
  <2>3. CASE OperatorResolves
    BY <2>3 DEF OperatorResolves, Send, TypeOK, Command
  <2>4. CASE \E c \in Command : Redeliver(c) \/ DeadLetter(c)
    BY <2>4 DEF Redeliver, DeadLetter, TypeOK
  <2> QED
    BY <2>1, <2>2, <2>3, <2>4 DEF Environment
<1>3. disturbed' \in [Disturbance -> Nat]
  BY DEF Environment, SendTrigger, Send, CapabilityAnswers, OperatorResolves,
         Redeliver, DeadLetter, Disturb, Disturbance, TypeOK
<1>4. TypeOK'
  BY <1>1, <1>2, <1>3 DEF TypeOK, store, local
<1>5. LocalsOK'
  BY <1>1 DEF LocalsOK, LocalOK, IsAnswer, HasTransition, TransitionOf, store, local
<1> QED
  BY <1>4, <1>5

\* Taking a command, dropping it, or dying with it.
LEMMA DeliveryType ==
  ASSUME TypeOK, LocalsOK, NEW w \in Worker,
         Receive(w) \/ Finish(w) \/ Fault(w) \/ Crash(w)
  PROVE  TypeOK' /\ LocalOK(w)'
<1>1. LocalOK(w)
  BY DEF LocalsOK
<1>2. CASE Receive(w)
  <2>1. PICK c \in queue : /\ receives[c] < MaxReceive
                           /\ queue' = queue \ {c}
                           /\ receives' = [receives EXCEPT ![c] = @ + 1]
                           /\ job' = [job EXCEPT ![w] =
                                       [cmd |-> c, receive |-> receives[c] + 1]]
                           /\ Goto(w, IF c.type = "EVENT" THEN "lookup" ELSE "snapshot")
    BY <1>2 DEF Receive, Receivable
  <2>2. c \in Command /\ receives[c] \in 0..MaxReceive
    BY DEF TypeOK
  <2>3. receives[c] + 1 \in 1..MaxReceive
    BY <2>1, <2>2, OrchestratorAssumption
  <2>4. job'[w] = [cmd |-> c, receive |-> receives[c] + 1] /\ job'[w] \in Delivery
    BY <2>1, <2>2, <2>3 DEF TypeOK, Delivery
  <2>5. TypeOK'
    BY <1>2, <2>1, <2>2, <2>3, <2>4 DEF TypeOK, Receive, Goto, PC, store
  <2>6. LocalOK(w)'
    BY <1>2, <2>1, <2>2, <2>4, CommandFields
       DEF TypeOK, LocalOK, Receive, Goto, Starting, Responding
  <2> QED
    BY <2>5, <2>6
<1>3. CASE Finish(w)
  BY <1>3 DEF Finish, Forget, TypeOK, LocalOK, PC, store, channel, Starting,
              Responding, Pending
<1>4. CASE Fault(w)
  BY <1>4 DEF Fault, Disturb, Forget, TypeOK, LocalOK, PC, store, channel, Starting,
              Responding, Pending, Disturbance
<1>5. CASE Crash(w)
  <2>1. job[w].cmd \in Command
    BY <1>1, <1>5, DeliveryFields DEF Crash, LocalOK
  <2> QED
    BY <1>5, <2>1 DEF Crash, Disturb, Forget, TypeOK, LocalOK, PC, store, Starting,
                      Responding, Pending, Disturbance
<1> QED
  BY <1>2, <1>3, <1>4, <1>5

\* Starting the instance.
LEMMA StartType ==
  ASSUME TypeOK, LocalsOK, NEW w \in Worker,
         LookupTrigger(w) \/ LoadForStart(w) \/ PutInput(w)
  PROVE  /\ TypeOK' /\ LocalOK(w)'
         /\ checkpoint # NoCheckpoint => checkpoint' # NoCheckpoint
<1>1. LocalOK(w)
  BY DEF LocalsOK
<1>2. CASE LookupTrigger(w)
  BY <1>1, <1>2 DEF LookupTrigger, Goto, TypeOK, LocalOK, PC, store, channel,
                    Starting, Responding
<1>3. CASE LoadForStart(w)
  <2>1. FreshCheckpoint \in Checkpoint /\ FreshCheckpoint.next = StartNode
    BY DEF FreshCheckpoint, Checkpoint, Pending, DataStatus, CommandStatus
  <2>2. checkpoint # NoCheckpoint =>
          /\ [checkpoint EXCEPT !.next = StartNode] \in Checkpoint
          /\ [checkpoint EXCEPT !.next = StartNode].next = StartNode
    BY DEF TypeOK, Checkpoint, Pending
  <2>3. mem'[w] \in Checkpoint /\ mem'[w].next = StartNode
    BY <1>3, <2>1, <2>2 DEF LoadForStart, TypeOK
  <2> QED
    BY <1>1, <1>3, <2>3 DEF LoadForStart, Goto, TypeOK, LocalOK, PC, store, channel,
                            Starting, Responding
<1>4. CASE PutInput(w)
  <2>1. mem[w] \in Checkpoint
    BY <1>1, <1>4 DEF PutInput, LocalOK
  <2> QED
    BY <1>1, <1>4, <2>1, OrchestratorAssumption
       DEF PutInput, Goto, TypeOK, LocalOK, PC, channel, Starting, Responding
<1> QED
  BY <1>2, <1>3, <1>4 DEF LookupTrigger, LoadForStart, store

\* Resuming the instance with a response.
LEMMA ResumeType ==
  ASSUME TypeOK, LocalsOK, NEW w \in Worker, Resume(w)
  PROVE  /\ TypeOK' /\ LocalOK(w)'
         /\ checkpoint # NoCheckpoint => checkpoint' # NoCheckpoint
<1>1. LocalOK(w)
  BY DEF LocalsOK
<1>2. pc[w] \in Responding /\ job[w] \in Delivery /\ job[w].cmd \in Command
  BY <1>1, DeliveryFields
     DEF Resume, Snapshot, LoadForMark, PutMark, Route, LoadForApply, PutApply,
         LoadForInvoke, Load, LocalOK, Responding
<1>3. CASE Snapshot(w)
  <2>1. checkpoint # NoCheckpoint => checkpoint.next \in Pending
    BY CheckpointFields DEF TypeOK
  <2> QED
    BY <1>1, <1>2, <1>3, <2>1
       DEF Snapshot, Goto, TypeOK, LocalOK, PC, store, channel, Starting, Responding,
           IsAnswer, AlreadyProcessed
<1>4. CASE LoadForMark(w) \/ LoadForApply(w) \/ LoadForInvoke(w)
  BY <1>1, <1>2, <1>4
     DEF LoadForMark, LoadForApply, LoadForInvoke, Load, Goto, TypeOK, LocalOK, PC,
         store, channel, Starting, Responding, IsAnswer, HasTransition, TransitionOf
<1>5. CASE PutMark(w)
  <2>1. mem[w] \in Checkpoint /\ IsAnswer(w)
    BY <1>1, <1>5 DEF PutMark, LocalOK
  <2>2. MarkedReplies(w) \subseteq 1..MaxRequests
    BY <1>2, <2>1, CommandFields, CheckpointFields DEF MarkedReplies, ReplyKey, IsAnswer
  <2>3. checkpoint' \in Checkpoint
    BY <1>5, <2>1, <2>2, PendingAfterMarkType DEF PutMark, Checkpoint
  <2> QED
    BY <1>1, <1>2, <1>5, <2>3, OrchestratorAssumption
       DEF PutMark, Goto, TypeOK, LocalOK, PC, channel, Starting, Responding
<1>6. CASE Route(w)
  BY <1>1, <1>2, <1>6
     DEF Route, RouteTo, Goto, TypeOK, LocalOK, PC, store, channel, Starting,
         Responding, HasTransition, TransitionOf
<1>7. CASE PutApply(w)
  <2>1. mem[w] \in Checkpoint /\ HasTransition(w)
    BY <1>1, <1>7 DEF PutApply, LocalOK
  <2>2. AsNode(w) \in Node
    BY <2>1, TransitionType DEF AsNode, HasTransition, TransitionOf, Target
  <2>3. job[w].cmd.status \in DataStatus
    BY <1>2, CommandFields
  <2>4. Successor(AsNode(w), job[w].cmd.status, mem[w].isError) \in Pending
    BY <2>1, <2>2, <2>3, SuccessorType, CheckpointFields DEF Pending, Target
  <2>5. checkpoint' \in Checkpoint \/ UNCHANGED checkpoint
    BY <1>7, <2>1, <2>3, <2>4 DEF PutApply, Checkpoint
  <2>6. checkpoint' \in Checkpoint \cup {NoCheckpoint}
        /\ (checkpoint # NoCheckpoint => checkpoint' # NoCheckpoint)
    BY <2>5, OrchestratorAssumption DEF TypeOK
  <2>7. checkpoint # NoCheckpoint
    BY <1>1, <1>7 DEF PutApply, LocalOK
  <2>8. applied' \subseteq Delivery
    BY <1>2, <1>7 DEF PutApply, TypeOK
  <2>9. /\ pc'[w] \in {"invoke", "finish"} /\ pc' \in [Worker -> PC]
        /\ UNCHANGED <<requests, channel, job, mem, node, disturbed>>
    BY <1>7 DEF PutApply, Goto, TypeOK, PC
  <2>10. TypeOK'
    BY <2>6, <2>8, <2>9 DEF TypeOK, channel
  <2>11. LocalOK(w)'
    BY <1>1, <1>2, <2>6, <2>7, <2>9 DEF LocalOK, Starting, Responding
  <2> QED
    BY <2>6, <2>10, <2>11
<1> QED
  BY <1>3, <1>4, <1>5, <1>6, <1>7
     DEF Resume, Snapshot, LoadForMark, LoadForApply, LoadForInvoke, Load, Route, store

\* A checkpoint put while the graph runs.
LEMMA PutType ==
  ASSUME TypeOK, LocalsOK, NEW w \in Worker, pc[w] = "run",
         NEW c \in Checkpoint, checkpoint' = c, mem' = [mem EXCEPT ![w] = c],
         disturbed' \in [Disturbance -> Nat],
         UNCHANGED <<requests, applied, channel, pc, job, node>>
  PROVE  /\ TypeOK' /\ LocalOK(w)'
         /\ checkpoint # NoCheckpoint => checkpoint' # NoCheckpoint
<1>1. LocalOK(w) /\ c # NoCheckpoint
  BY OrchestratorAssumption DEF LocalsOK
<1>2. TypeOK'
  BY DEF TypeOK, channel
<1>3. LocalOK(w)'
  BY <1>1 DEF TypeOK, LocalOK, Starting, Responding
<1> QED
  BY <1>1, <1>2, <1>3

\* Running the graph.
LEMMA RunType ==
  ASSUME TypeOK, LocalsOK, NEW w \in Worker, Run(w) \/ RunAsyncFails(w)
  PROVE  /\ TypeOK' /\ LocalOK(w)'
         /\ checkpoint # NoCheckpoint => checkpoint' # NoCheckpoint
<1>1. /\ LocalOK(w) /\ pc[w] = "run" /\ mem[w] \in Checkpoint
      /\ job[w] \in Delivery
  BY DEF LocalsOK, LocalOK, Run, RunStart, RunPassThrough, RunRaises, RunSetState,
         RunLogError, RunSyncCall, RunAsyncRequest, RunStops, RunAsyncFails, Running
<1>2. /\ mem[w].next \in Pending /\ mem[w].status \in DataStatus
      /\ mem[w].isError \in BOOLEAN
  BY <1>1, CheckpointFields
<1>3. ASSUME NEW s \in DataStatus, NEW e \in BOOLEAN, mem[w].next \in Node
      PROVE  After(mem[w], s, e) \in Checkpoint
  BY <1>1, <1>3, AfterType
<1>4. disturbed \in [Disturbance -> Nat]
  BY DEF TypeOK
<1>5. CASE RunStart(w)
  <2>1. [mem[w] EXCEPT !.next = Definition.entry_point, !.ran = StartNode] \in Checkpoint
    BY <1>1, DefinitionAssumption DEF Checkpoint, Pending
  <2> QED
    BY <1>1, <1>4, <1>5, <2>1, PutType DEF RunStart, Put
<1>6. CASE RunPassThrough(w)
  <2>1. mem[w].next \in Node
    BY <1>6, TypedIsNode DEF RunPassThrough, Running, NodeType
  <2> QED
    BY <1>1, <1>2, <1>3, <1>4, <1>6, <2>1, PutType DEF RunPassThrough, Put
<1>7. CASE RunSetState(w)
  <2>1. mem[w].next \in Node
    BY <1>7, TypedIsNode DEF RunSetState, Running, NodeType
  <2>2. StaticStatus(mem[w].next, mem[w].status) \in DataStatus
    BY <1>2, <2>1, StaticStatusType
  <2> QED
    BY <1>1, <1>3, <1>4, <1>7, <2>1, <2>2, PutType DEF RunSetState, Put
<1>8. CASE RunLogError(w)
  <2>1. mem[w].next \in Node
    BY <1>8, TypedIsNode DEF RunLogError, Running, NodeType
  <2> QED
    BY <1>1, <1>2, <1>3, <1>4, <1>8, <2>1, PutType DEF RunLogError, Put
<1>9. CASE RunSyncCall(w)
  <2>1. mem[w].next \in Node
    BY <1>9, TypedIsNode DEF RunSyncCall, Running, NodeType
  <2> QED
    BY <1>1, <1>2, <1>3, <1>4, <1>9, <2>1, PutType DEF RunSyncCall, Put
<1>10. CASE RunAsyncFails(w)
  <2>1. mem[w].next \in Node
    BY <1>10, TypedIsNode DEF RunAsyncFails, Running, NodeType
  <2>2. disturbed' \in [Disturbance -> Nat]
    BY <1>4, <1>10 DEF RunAsyncFails, Disturb, Disturbance
  <2> QED
    BY <1>1, <1>2, <1>3, <1>10, <2>1, <2>2, PutType DEF RunAsyncFails
<1>11. CASE RunAsyncRequest(w)
  <2>1. mem[w].next \in Node
    BY <1>11, TypedIsNode DEF RunAsyncRequest, Running, NodeType
  <2>2. [node |-> mem[w].next, cause |-> job[w]] \in Request
    BY <1>1, <2>1 DEF Request
  <2>3. requests' \in Seq(Request) /\ Len(requests') <= MaxRequests
    BY <1>11, <2>2, OrchestratorAssumption DEF RunAsyncRequest, RequestSent, TypeOK
  <2> QED
    BY <1>1, <1>11, <2>3 DEF RunAsyncRequest, Goto, TypeOK, LocalOK, PC, channel,
                             Starting, Responding
<1>12. CASE RunRaises(w) \/ RunStops(w)
  BY <1>1, <1>12 DEF RunRaises, RunStops, Goto, TypeOK, LocalOK, PC, store, channel,
                     Starting, Responding
<1> QED
  BY <1>5, <1>6, <1>7, <1>8, <1>9, <1>10, <1>11, <1>12 DEF Run

\* Types and local knowledge are kept by every step.
LEMMA TypeStep ==
  ASSUME TypeOK, LocalsOK, [Next]_vars
  PROVE  TypeOK' /\ LocalsOK'
<1>1. CASE Environment
  BY <1>1, EnvironmentType
<1>2. ASSUME NEW w \in Worker, Step(w)
      PROVE  TypeOK' /\ LocalsOK'
  <2>1. OthersStill(w)
    BY <1>2, ContainerFrame
  <2>2. /\ TypeOK' /\ LocalOK(w)'
        /\ checkpoint # NoCheckpoint => checkpoint' # NoCheckpoint
    <3>1. CASE Receive(w) \/ Finish(w) \/ Fault(w) \/ Crash(w)
      BY <3>1, DeliveryType DEF Receive, Finish, Fault, Crash, store
    <3>2. CASE LookupTrigger(w) \/ LoadForStart(w) \/ PutInput(w)
      BY <3>2, StartType
    <3>3. CASE Resume(w)
      BY <3>3, ResumeType
    <3>4. CASE Run(w) \/ RunAsyncFails(w)
      BY <3>4, RunType
    <3> QED
      BY <1>2, <3>1, <3>2, <3>3, <3>4 DEF Step, Handle
  <2> QED
    BY <2>1, <2>2, OneContainerMoves
<1>3. CASE UNCHANGED vars
  BY <1>3 DEF vars, store, channel, local, TypeOK, LocalsOK, LocalOK, IsAnswer,
              HasTransition, TransitionOf
<1> QED
  BY <1>1, <1>2, <1>3 DEF Next, Step

\* Before the first command every container is idle and knows nothing.
LEMMA TypeInit ==
  ASSUME Init
  PROVE  TypeOK /\ LocalsOK
BY OrchestratorAssumption
   DEF Init, TypeOK, LocalsOK, LocalOK, PC, Pending, Starting, Responding, Disturbance

\* Every variable keeps to its type: in particular every checkpoint the service
\* writes names a node of the definition, whichever containers interleave.
THEOREM TypeCorrect == Spec => []TypeOK
<1>1. Init => TypeOK /\ LocalsOK
  BY TypeInit
<1>2. TypeOK /\ LocalsOK /\ [Next]_vars => (TypeOK /\ LocalsOK)'
  BY TypeStep
<1> QED
  BY <1>1, <1>2, PTL DEF Spec

-----------------------------------------------------------------------------
(* Deliveries, requests and their causes.                                  *)

\* What a container's step after the receive call does to the history: it sends
\* and applies on behalf of its own delivery only.
LEMMA HandlerEffect ==
  ASSUME TypeOK, NEW w \in Worker, Step(w), ~Receive(w)
  PROVE  /\ receives' = receives /\ pc[w] # "idle"
         /\ \/ requests' = requests
            \/ /\ requests' = RequestSent(w) /\ mem[w].next \in Node
               /\ pc[w] = "run" /\ pc'[w] = "finish" /\ job' = job
         /\ \/ applied' = applied
            \/ pc[w] = "applyput" /\ applied' = applied \cup {job[w]}
         /\ pc'[w] # "idle" => job' = job
<1> USE DEF TypeOK, Goto, store, channel, local, PC
<1>1. CASE Finish(w) \/ Fault(w) \/ Crash(w)
  BY <1>1 DEF Finish, Fault, Crash, Forget
<1>2. CASE LookupTrigger(w) \/ LoadForStart(w) \/ PutInput(w)
  BY <1>2 DEF LookupTrigger, LoadForStart, PutInput
<1>3. CASE Resume(w)
  BY <1>3 DEF Resume, Snapshot, LoadForMark, PutMark, Route, LoadForApply,
              PutApply, LoadForInvoke, Load
<1>4. CASE Run(w)
  <2>1. CASE RunAsyncRequest(w)
    <3>1. mem[w].next \in Node
      BY <2>1, TypedIsNode DEF RunAsyncRequest, Running, NodeType
    <3> QED
      BY <2>1, <3>1 DEF RunAsyncRequest, Running
  <2>2. CASE ~RunAsyncRequest(w)
    BY <1>4, <2>2 DEF Run, RunStart, RunPassThrough, RunRaises, RunSetState,
                      RunLogError, RunSyncCall, RunStops, Put, Running
  <2> QED
    BY <2>1, <2>2
<1>5. CASE RunAsyncFails(w)
  BY <1>5 DEF RunAsyncFails, Running
<1> QED
  BY <1>1, <1>2, <1>3, <1>4, <1>5 DEF Step, Handle

\* The delivery a receive call makes is new.
LEMMA ReceiveEffect ==
  ASSUME TypeOK, NEW w \in Worker, Receive(w)
  PROVE  /\ job'[w] \in Delivery
         /\ receives[job'[w].cmd] < job'[w].receive
         /\ job'[w].receive <= receives'[job'[w].cmd]
         /\ \A c \in Command : receives[c] <= receives'[c]
         /\ pc'[w] \in {"lookup", "snapshot"}
         /\ UNCHANGED <<requests, applied>>
<1>1. PICK c \in queue : /\ receives[c] < MaxReceive
                         /\ receives' = [receives EXCEPT ![c] = @ + 1]
                         /\ job' = [job EXCEPT ![w] =
                                     [cmd |-> c, receive |-> receives[c] + 1]]
                         /\ Goto(w, IF c.type = "EVENT" THEN "lookup" ELSE "snapshot")
  BY DEF Receive, Receivable
<1>2. c \in Command /\ receives \in [Command -> 0..MaxReceive] /\ MaxReceive \in Nat
  BY OrchestratorAssumption DEF TypeOK
<1>3. receives[c] + 1 \in 1..MaxReceive
  BY <1>1, <1>2
<1>4. job'[w] = [cmd |-> c, receive |-> receives[c] + 1] /\ job'[w] \in Delivery
  BY <1>1, <1>2, <1>3 DEF TypeOK, Delivery
<1>5. pc'[w] \in {"lookup", "snapshot"}
  BY <1>1 DEF TypeOK, Goto
<1>6. UNCHANGED <<requests, applied>>
  BY DEF Receive, store
<1>7. \A d \in Command : receives[d] <= receives'[d]
  BY <1>1, <1>2
<1>8. receives'[c] = receives[c] + 1
  BY <1>1, <1>2
<1> QED
  BY <1>2, <1>4, <1>5, <1>6, <1>7, <1>8

\* Every request names the node that sent it and the delivery it serves.
LEMMA RequestFields ==
  ASSUME TypeOK
  PROVE  \A i \in DOMAIN requests : requests[i].node \in Node /\ requests[i].cause \in Delivery
<1>1. requests \in Seq(Request)
  BY DEF TypeOK
<1> TAKE i \in DOMAIN requests
<1>2. requests[i] \in Request
  BY <1>1
<1> QED
  BY <1>2 DEF Request

\* The causes of the requests so far, and one more.
LEMMA RequestSentFields ==
  ASSUME TypeOK, NEW w \in Worker, requests' = RequestSent(w), mem[w].next \in Node,
         job[w] \in Delivery
  PROVE  /\ DOMAIN requests' = DOMAIN requests \cup {Len(requests) + 1}
         /\ \A i \in DOMAIN requests : requests'[i] = requests[i] /\ i # Len(requests) + 1
         /\ requests'[Len(requests) + 1].cause = job[w]
<1>1. [node |-> mem[w].next, cause |-> job[w]] \in Request
  BY DEF Request
<1>2. requests \in Seq(Request)
  BY DEF TypeOK
<1> QED
  BY <1>1, <1>2 DEF RequestSent

\* Deliveries keep apart.
LEMMA DeliveriesStep ==
  ASSUME IInv, [Next]_vars
  PROVE  DeliveriesOK'
<1> USE DEF IInv
<1>1. CASE Environment
  <2>1. UNCHANGED <<pc, job, receives, requests, applied>>
    BY <1>1 DEF Environment, SendTrigger, Send, CapabilityAnswers, OperatorResolves,
                Redeliver, DeadLetter, store, local
  <2> QED
    BY <2>1 DEF DeliveriesOK
<1>2. ASSUME NEW w \in Worker, Step(w), Receive(w)
      PROVE  DeliveriesOK'
  <2>1. OthersStill(w)
    BY <1>2, ContainerFrame
  <2>2. /\ job'[w] \in Delivery /\ receives[job'[w].cmd] < job'[w].receive
        /\ job'[w].receive <= receives'[job'[w].cmd]
        /\ \A c \in Command : receives[c] <= receives'[c]
        /\ UNCHANGED <<requests, applied>>
    BY <1>2, ReceiveEffect
  <2>3. \A c \in Command : receives[c] \in Nat /\ receives'[c] \in Nat
    <3>1. TypeOK'
      BY TypeStep
    <3> QED
      BY <3>1 DEF TypeOK
  <2>4. \A u \in Worker : pc[u] # "idle" => job[u] \in Delivery
    BY DEF LocalsOK, LocalOK
  <2>5. \A d \in Delivery : d.cmd \in Command /\ d.receive \in Nat
    BY DeliveryFields
  <2>6. \A u \in Worker : pc'[u] # "idle" => job'[u].receive <= receives'[job'[u].cmd]
    BY <2>1, <2>2, <2>3, <2>4, <2>5 DEF DeliveriesOK, OthersStill
  <2>7. \A u \in Worker \ {w} : pc[u] # "idle" => job[u] # job'[w]
    BY <2>2, <2>3, <2>4, <2>5 DEF DeliveriesOK
  <2>8. \A v, u \in Worker :
          pc'[v] # "idle" /\ pc'[u] # "idle" /\ job'[v] = job'[u] => v = u
    BY <2>1, <2>7 DEF DeliveriesOK, OthersStill
  <2>9. \A i \in DOMAIN requests : requests[i].cause \in Delivery
    BY RequestFields
  <2>10. \A i \in DOMAIN requests' :
           requests'[i].cause.receive <= receives'[requests'[i].cause.cmd]
    BY <2>2, <2>3, <2>5, <2>9 DEF DeliveriesOK
  <2>11. \A d \in applied' : d.receive <= receives'[d.cmd]
    BY <2>2, <2>3, <2>5 DEF DeliveriesOK, TypeOK
  <2> QED
    BY <2>6, <2>8, <2>10, <2>11 DEF DeliveriesOK
<1>3. ASSUME NEW w \in Worker, Step(w), ~Receive(w)
      PROVE  DeliveriesOK'
  <2>1. OthersStill(w)
    BY <1>3, ContainerFrame
  <2>2. /\ receives' = receives /\ pc[w] # "idle"
        /\ \/ requests' = requests
           \/ requests' = RequestSent(w) /\ mem[w].next \in Node
        /\ \/ applied' = applied
           \/ applied' = applied \cup {job[w]}
        /\ pc'[w] # "idle" => job' = job
    BY <1>3, HandlerEffect
  <2>3. job[w] \in Delivery /\ job[w].receive <= receives[job[w].cmd]
    BY <2>2 DEF LocalsOK, LocalOK, DeliveriesOK
  <2>4. \A u \in Worker : pc'[u] # "idle" => pc[u] # "idle" /\ job'[u] = job[u]
    BY <2>1, <2>2 DEF OthersStill
  <2>5. \A i \in DOMAIN requests' :
           requests'[i].cause.receive <= receives'[requests'[i].cause.cmd]
    <3>1. CASE requests' = requests
      BY <2>2, <3>1 DEF DeliveriesOK
    <3>2. CASE requests' = RequestSent(w) /\ requests' # requests
      BY <2>2, <2>3, <3>2, RequestSentFields DEF DeliveriesOK
    <3> QED
      BY <2>2, <3>1, <3>2
  <2> QED
    BY <2>2, <2>3, <2>4, <2>5 DEF DeliveriesOK
<1>4. CASE UNCHANGED vars
  BY <1>4 DEF vars, store, channel, local, DeliveriesOK
<1> QED
  BY <1>1, <1>2, <1>3, <1>4 DEF Next, Step

\* Where an invoke comes from: a container that is about to run the graph for a
\* response has written that response, in this step or before.
LEMMA AppliedBeforeRun ==
  ASSUME IInv, NEW w \in Worker, Step(w), ~Receive(w),
         pc'[w] = "invoke" \/ (pc'[w] = "run" /\ job'[w].cmd.type # "EVENT")
  PROVE  job'[w] \in applied'
<1> USE DEF TypeOK, Goto, store, channel, local, PC, IInv, CausesOK
<1>1. LocalOK(w)
  BY DEF LocalsOK
<1>2. CASE Finish(w) \/ Fault(w) \/ Crash(w)
  BY <1>2 DEF Finish, Fault, Crash, Forget
<1>3. CASE LookupTrigger(w) \/ LoadForStart(w) \/ PutInput(w)
  BY <1>1, <1>3 DEF LookupTrigger, LoadForStart, PutInput, LocalOK, Starting
<1>4. CASE PutApply(w)
  BY <1>4 DEF PutApply
<1>5. CASE Resume(w) /\ ~PutApply(w)
  BY <1>5 DEF Resume, Snapshot, LoadForMark, PutMark, Route, RouteTo, LoadForApply,
              LoadForInvoke, Load
<1>6. CASE Run(w)
  BY <1>6 DEF Run, RunStart, RunPassThrough, RunRaises, RunSetState, RunLogError,
              RunSyncCall, RunAsyncRequest, RunStops, Put, Running
<1>7. CASE RunAsyncFails(w)
  BY <1>7 DEF RunAsyncFails, Running
<1> QED
  BY <1>2, <1>3, <1>4, <1>5, <1>6, <1>7 DEF Step, Handle

\* A container never goes back to work it has finished.
LEMMA WorkingStays ==
  ASSUME TypeOK, NEW w \in Worker, Step(w), ~Receive(w), pc'[w] \notin {"idle", "finish"}
  PROVE  pc[w] \notin {"idle", "finish"} /\ UNCHANGED requests
<1> USE DEF TypeOK, Goto, store, channel, local, PC
<1>1. CASE Finish(w) \/ Fault(w) \/ Crash(w)
  BY <1>1 DEF Finish, Fault, Crash, Forget
<1>2. CASE LookupTrigger(w) \/ LoadForStart(w) \/ PutInput(w)
  BY <1>2 DEF LookupTrigger, LoadForStart, PutInput
<1>3. CASE Resume(w)
  BY <1>3 DEF Resume, Snapshot, LoadForMark, PutMark, Route, RouteTo, LoadForApply,
              PutApply, LoadForInvoke, Load
<1>4. CASE Run(w)
  BY <1>4 DEF Run, RunStart, RunPassThrough, RunRaises, RunSetState, RunLogError,
              RunSyncCall, RunAsyncRequest, RunStops, Put, Running
<1>5. CASE RunAsyncFails(w)
  BY <1>5 DEF RunAsyncFails, Running
<1> QED
  BY <1>1, <1>2, <1>3, <1>4, <1>5 DEF Step, Handle

\* Every request keeps a cause, and every container its warrant to send one.
LEMMA CausesStep ==
  ASSUME IInv, [Next]_vars
  PROVE  CausesOK'
<1> USE DEF IInv
<1>1. CASE Environment
  <2>1. UNCHANGED <<pc, job, requests, applied>>
    BY <1>1 DEF Environment, SendTrigger, Send, CapabilityAnswers, OperatorResolves,
                Redeliver, DeadLetter, store, local
  <2> QED
    BY <2>1 DEF CausesOK, OneRequestPerDelivery, RequestsHaveACause
<1>2. ASSUME NEW w \in Worker, Step(w), Receive(w)
      PROVE  CausesOK'
  <2>1. OthersStill(w)
    BY <1>2, ContainerFrame
  <2>2. /\ job'[w] \in Delivery /\ receives[job'[w].cmd] < job'[w].receive
        /\ pc'[w] \in {"lookup", "snapshot"} /\ UNCHANGED <<requests, applied>>
    BY <1>2, ReceiveEffect
  <2>3. \A c \in Command : receives[c] \in Nat
    BY DEF TypeOK
  <2>4. \A i \in DOMAIN requests : requests[i].cause # job'[w]
    <3> SUFFICES ASSUME NEW i \in DOMAIN requests, requests[i].cause = job'[w]
                 PROVE  FALSE
      OBVIOUS
    <3>1. job'[w].receive <= receives[job'[w].cmd]
      BY DEF DeliveriesOK
    <3>2. job'[w].cmd \in Command /\ job'[w].receive \in Nat
      BY <2>2, DeliveryFields
    <3> QED
      BY <2>2, <2>3, <3>1, <3>2
  <2> QED
    BY <2>1, <2>2, <2>4 DEF CausesOK, OthersStill, OneRequestPerDelivery, RequestsHaveACause
<1>3. ASSUME NEW w \in Worker, Step(w), ~Receive(w)
      PROVE  CausesOK'
  <2>1. OthersStill(w)
    BY <1>3, ContainerFrame
  <2>2. /\ pc[w] # "idle"
        /\ \/ requests' = requests
           \/ /\ requests' = RequestSent(w) /\ mem[w].next \in Node
              /\ pc[w] = "run" /\ pc'[w] = "finish"
        /\ applied \subseteq applied'
        /\ pc'[w] # "idle" => job' = job
    BY <1>3, HandlerEffect
  <2>3. job[w] \in Delivery /\ (\A i \in DOMAIN requests : requests[i].cause \in Delivery)
    BY <2>2, RequestFields DEF LocalsOK, LocalOK
  <2>4. pc'[w] \notin {"idle", "finish"} => pc[w] \notin {"idle", "finish"} /\ UNCHANGED requests
    BY <1>3, WorkingStays
  <2>5. ASSUME NEW u \in Worker, pc'[u] \notin {"idle", "finish"}
        PROVE  \A i \in DOMAIN requests' : requests'[i].cause # job'[u]
    <3>1. pc[u] \notin {"idle", "finish"} /\ job'[u] = job[u]
      BY <2>1, <2>2, <2>4, <2>5 DEF OthersStill
    <3>2. CASE requests' = requests
      BY <3>1, <3>2 DEF CausesOK
    <3>3. CASE requests' = RequestSent(w) /\ u # w
      <4>1. job[u] # job[w]
        BY <2>2, <3>1, <3>3 DEF DeliveriesOK
      <4> QED
        BY <2>2, <2>3, <3>1, <3>2, <3>3, <4>1, RequestSentFields DEF CausesOK
    <3> QED
      BY <2>2, <2>4, <2>5, <3>2, <3>3
  <2>6. ASSUME NEW u \in Worker,
               pc'[u] = "invoke" \/ (pc'[u] = "run" /\ job'[u].cmd.type # "EVENT")
        PROVE  job'[u] \in applied'
    <3>1. CASE u = w
      BY <1>3, <2>6, <3>1, AppliedBeforeRun
    <3>2. CASE u # w
      BY <2>1, <2>2, <2>6, <3>2 DEF OthersStill, CausesOK
    <3> QED
      BY <3>1, <3>2
  <2>7. OneRequestPerDelivery'
    <3>1. CASE requests' = requests
      BY <3>1 DEF CausesOK, OneRequestPerDelivery
    <3>2. CASE requests' = RequestSent(w) /\ pc[w] = "run" /\ mem[w].next \in Node
      BY <2>3, <3>2, RequestSentFields DEF CausesOK, OneRequestPerDelivery
    <3> QED
      BY <2>2, <3>1, <3>2
  <2>8. RequestsHaveACause'
    <3>1. CASE requests' = requests
      BY <2>2, <3>1 DEF CausesOK, RequestsHaveACause
    <3>2. CASE requests' = RequestSent(w) /\ pc[w] = "run" /\ mem[w].next \in Node
      BY <2>2, <2>3, <3>2, RequestSentFields DEF CausesOK, RequestsHaveACause
    <3> QED
      BY <2>2, <3>1, <3>2
  <2> QED
    BY <2>5, <2>6, <2>7, <2>8 DEF CausesOK
<1>4. CASE UNCHANGED vars
  BY <1>4 DEF vars, store, local, CausesOK, OneRequestPerDelivery, RequestsHaveACause
<1> QED
  BY <1>1, <1>2, <1>3, <1>4 DEF Next, Step

\* The invariant of any number of containers holds initially ...
LEMMA InitInv == Init => IInv
<1> SUFFICES ASSUME Init PROVE IInv
  OBVIOUS
<1>1. TypeOK /\ LocalsOK
  BY TypeInit
<1>2. DeliveriesOK /\ CausesOK
  BY DEF Init, DeliveriesOK, CausesOK, OneRequestPerDelivery, RequestsHaveACause
<1> QED
  BY <1>1, <1>2 DEF IInv

\* ... is kept by every step ...
LEMMA StepInv == IInv /\ [Next]_vars => IInv'
BY TypeStep, DeliveriesStep, CausesStep DEF IInv

\* ... and so holds throughout.
LEMMA Invariance == Spec => []IInv
BY InitInv, StepInv, PTL DEF Spec

\* However many containers handle the commands of an instance and whatever they
\* overwrite, no delivery of a command makes the orchestrator send two requests.
THEOREM OneRequest == Spec => []OneRequestPerDelivery
<1>1. IInv => OneRequestPerDelivery
  BY DEF IInv, CausesOK
<1> QED
  BY <1>1, Invariance, PTL

\* No request is sent on behalf of a response that was ignored or rejected.
THEOREM RequestsAreCaused == Spec => []RequestsHaveACause
<1>1. IInv => RequestsHaveACause
  BY DEF IInv, CausesOK
<1> QED
  BY <1>1, Invariance, PTL

-----------------------------------------------------------------------------
(* One container at a time.                                                *)

\* A mark adds its answer to the record; the pending node is another matter.
LEMMA MarkEffect ==
  ASSUME TypeOK, LocalsOK, NEW w \in Worker, PutMark(w)
  PROVE  /\ checkpoint'.replies = MarkedReplies(w)
         /\ checkpoint'.next \in PendingAfterMark(mem[w])
         /\ checkpoint'.ran = mem[w].ran /\ checkpoint'.status = mem[w].status
         /\ checkpoint'.isError = mem[w].isError
         /\ checkpoint' # NoCheckpoint
         /\ MarkKeepsPending => checkpoint'.next = mem[w].next
<1>1. PICK n \in PendingAfterMark(mem[w]) :
        checkpoint' = [mem[w] EXCEPT !.replies = MarkedReplies(w), !.next = n]
  BY DEF PutMark
<1>2. MarkKeepsPending => n = mem[w].next
  BY <1>1 DEF PendingAfterMark, MarkKeepsPending
<1>3. mem[w] \in Checkpoint /\ checkpoint # NoCheckpoint
  BY DEF PutMark, LocalsOK, LocalOK
<1>4. checkpoint' # NoCheckpoint
  BY <1>3, ResumeType DEF Resume
<1> QED
  BY <1>1, <1>2, <1>3, <1>4 DEF Checkpoint

\* The checkpoint a run of the graph puts keeps the record of answers.
LEMMA RunPuts ==
  ASSUME IInv, NEW w \in Worker, Run(w) \/ RunAsyncFails(w)
  PROVE  /\ pc[w] = "run" /\ UNCHANGED <<applied, job, node>>
         /\ \/ /\ UNCHANGED <<checkpoint, mem>>
               /\ pc'[w] = "finish"
            \/ /\ checkpoint' = mem'[w] /\ checkpoint' \in Checkpoint
               /\ checkpoint'.replies = mem[w].replies
               /\ pc'[w] = "run"
<1> USE DEF IInv
<1>1. /\ LocalOK(w) /\ pc[w] = "run" /\ mem[w] \in Checkpoint
      /\ mem \in [Worker -> Checkpoint \cup {NoCheckpoint}] /\ pc \in [Worker -> PC]
  BY DEF LocalsOK, LocalOK, TypeOK, Run, RunStart, RunPassThrough, RunRaises,
         RunSetState, RunLogError, RunSyncCall, RunAsyncRequest, RunStops,
         RunAsyncFails, Running
<1>2. mem[w].status \in DataStatus /\ mem[w].isError \in BOOLEAN
  BY <1>1, CheckpointFields
<1>3. ASSUME NEW s \in DataStatus, NEW e \in BOOLEAN, mem[w].next \in Node
      PROVE  After(mem[w], s, e) \in Checkpoint /\ After(mem[w], s, e).replies = mem[w].replies
  BY <1>1, <1>3, AfterType
<1>4. CASE RunStart(w)
  <2> DEFINE c == [mem[w] EXCEPT !.next = Definition.entry_point, !.ran = StartNode]
  <2>1. c \in Checkpoint /\ c.replies = mem[w].replies
    BY <1>1, DefinitionAssumption DEF Checkpoint, Pending
  <2> QED
    BY <1>1, <1>4, <2>1 DEF RunStart, Put
<1>5. CASE RunPassThrough(w) \/ RunLogError(w) \/ RunSyncCall(w)
  <2>1. Type(mem[w].next) \in NodeType
    BY <1>5 DEF RunPassThrough, RunLogError, RunSyncCall, Running, NodeType
  <2>2. mem[w].next \in Node
    BY <2>1, TypedIsNode
  <2> QED
    BY <1>1, <1>2, <1>3, <1>5, <2>2 DEF RunPassThrough, RunLogError, RunSyncCall, Put
<1>6. CASE RunSetState(w)
  <2>1. mem[w].next \in Node
    BY <1>6, TypedIsNode DEF RunSetState, Running, NodeType
  <2>2. StaticStatus(mem[w].next, mem[w].status) \in DataStatus
    BY <1>2, <2>1, StaticStatusType
  <2> QED
    BY <1>1, <1>3, <1>6, <2>1, <2>2 DEF RunSetState, Put
<1>7. CASE RunAsyncFails(w)
  <2>1. mem[w].next \in Node
    BY <1>7, TypedIsNode DEF RunAsyncFails, Running, NodeType
  <2> QED
    BY <1>1, <1>2, <1>3, <1>7, <2>1 DEF RunAsyncFails
<1>8. CASE RunAsyncRequest(w) \/ RunRaises(w) \/ RunStops(w)
  BY <1>1, <1>8 DEF RunAsyncRequest, RunRaises, RunStops, Goto, store
<1> QED
  BY <1>4, <1>5, <1>6, <1>7, <1>8 DEF Run

\* With one container the record of answers only grows, and it covers every
\* answer applied.
LEMMA SerialStep ==
  ASSUME OneWorker, IInv, SerialInv, [Next]_vars
  PROVE  SerialInv' /\ [checkpoint # NoCheckpoint =>
                          /\ checkpoint' # NoCheckpoint
                          /\ checkpoint.replies \subseteq checkpoint'.replies]_vars
<1> DEFINE Grows == checkpoint # NoCheckpoint =>
                      /\ checkpoint' # NoCheckpoint
                      /\ checkpoint.replies \subseteq checkpoint'.replies
<1> SUFFICES SerialInv' /\ Grows
  OBVIOUS
<1> USE DEF IInv
<1>1. CASE UNCHANGED <<checkpoint, applied, local>>
  BY <1>1 DEF local, SerialInv, RepliesOK, ReplyAppliedAtMostOnce, SerialOK, IsReply,
              IsAnswer, ReplyKey, AnswerApplied
<1>2. ASSUME NEW w \in Worker, Step(w)
      PROVE  SerialInv' /\ Grows
  <2>1. \A u \in Worker : u = w
    BY DEF OneWorker
  <2>2. SerialOK(w) /\ LocalOK(w) /\ RepliesOK /\ ReplyAppliedAtMostOnce
    BY DEF SerialInv, LocalsOK
  <2>3. SUFFICES RepliesOK' /\ ReplyAppliedAtMostOnce' /\ SerialOK(w)' /\ Grows
    BY <2>1 DEF SerialInv
  <2>4. ASSUME UNCHANGED <<checkpoint, applied>>
        PROVE  RepliesOK' /\ ReplyAppliedAtMostOnce' /\ Grows
    BY <2>2, <2>4 DEF RepliesOK, ReplyAppliedAtMostOnce, IsReply
  <2>5. /\ pc \in [Worker -> PC] /\ job \in [Worker -> Delivery \cup {NoJob}]
        /\ mem \in [Worker -> Checkpoint \cup {NoCheckpoint}]
        /\ node \in [Worker -> Pending]
    BY DEF TypeOK
  <2>6. CASE Receive(w) \/ Finish(w) \/ Fault(w) \/ Crash(w)
    <3>1. UNCHANGED <<checkpoint, applied>> /\ pc'[w] \in {"idle", "lookup", "snapshot"}
      BY <2>5, <2>6 DEF Receive, Finish, Fault, Crash, Forget, Goto, store
    <3> QED
      BY <2>4, <3>1 DEF SerialOK
  <2>7. CASE LookupTrigger(w) \/ LoadForStart(w)
    <3>1. /\ UNCHANGED <<checkpoint, applied>>
          /\ pc'[w] = "finish" \/ (pc'[w] \in {"start", "input"} /\ checkpoint = NoCheckpoint)
      BY <2>2, <2>5, <2>7 DEF LookupTrigger, LoadForStart, TriggerIsNew, Goto, store, SerialOK
    <3> QED
      BY <2>4, <3>1 DEF SerialOK
  <2>8. CASE PutInput(w)
    <3>1. checkpoint = NoCheckpoint /\ \A d \in applied : ~IsReply(d)
      BY <2>2, <2>8 DEF PutInput, SerialOK, RepliesOK
    <3>2. /\ checkpoint' = mem'[w] /\ applied' = applied /\ pc'[w] = "run"
      BY <2>5, <2>8 DEF PutInput, Goto
    <3> QED
      BY <3>1, <3>2 DEF RepliesOK, ReplyAppliedAtMostOnce, IsReply, SerialOK
  <2>9. CASE Snapshot(w)
    <3>1. UNCHANGED <<checkpoint, applied, job>>
      BY <2>9 DEF Snapshot, store
    <3>2. \/ pc'[w] = "finish"
          \/ /\ pc'[w] \in {"mark", "route"}
             /\ checkpoint # NoCheckpoint /\ checkpoint.next # NoNode
             /\ node'[w] = checkpoint.next
             /\ IsAnswer(w) => pc'[w] = "mark" /\ ReplyKey(w) \notin checkpoint.replies
      BY <2>5, <2>9 DEF Snapshot, AlreadyProcessed, Goto
    <3>3. IsAnswer(w) /\ pc'[w] = "mark" => ~AnswerApplied(ReplyKey(w))
      BY <2>2, <3>2 DEF RepliesOK, AnswerApplied
    <3> QED
      BY <2>4, <3>1, <3>2, <3>3 DEF SerialOK, IsAnswer, ReplyKey, AnswerApplied, IsReply
  <2>10. CASE LoadForMark(w) \/ LoadForApply(w) \/ LoadForInvoke(w)
    BY <2>2, <2>4, <2>5, <2>10
       DEF LoadForMark, LoadForApply, LoadForInvoke, Load, Goto, store, SerialOK,
           IsAnswer, ReplyKey, AnswerApplied, IsReply
  <2>11. CASE PutMark(w)
    <3>1. mem[w] = checkpoint /\ checkpoint \in Checkpoint
      BY <2>2, <2>11 DEF PutMark, SerialOK, LocalOK
    <3>2. /\ MarkKeepsPending => checkpoint'.next = checkpoint.next
          /\ checkpoint'.replies = checkpoint.replies \cup {ReplyKey(w)}
          /\ checkpoint' # NoCheckpoint
      BY <2>11, <3>1, MarkEffect, OrchestratorAssumption DEF MarkedReplies
    <3>3. pc'[w] = "route" /\ UNCHANGED <<applied, job, node>>
      BY <2>5, <2>11 DEF PutMark, Goto
    <3>4. pc[w] = "markput"
      BY <2>11 DEF PutMark
    <3>5. RepliesOK' /\ ReplyAppliedAtMostOnce' /\ Grows
      BY <2>2, <3>2, <3>3 DEF RepliesOK, ReplyAppliedAtMostOnce, IsReply
    <3>6. SerialOK(w)'
      BY <2>2, <3>2, <3>3, <3>4 DEF SerialOK, IsAnswer, ReplyKey, AnswerApplied, IsReply
    <3> QED
      BY <3>5, <3>6
  <2>12. CASE Route(w)
    <3>1. UNCHANGED <<checkpoint, applied, job, node>> /\ pc'[w] \in {"apply", "finish"}
      BY <2>5, <2>12 DEF Route, RouteTo, Goto, store
    <3>2. pc[w] = "route"
      BY <2>12 DEF Route
    <3> QED
      BY <2>2, <2>4, <3>1, <3>2 DEF SerialOK, IsAnswer, ReplyKey, AnswerApplied, IsReply
  <2>13. CASE PutApply(w)
    <3>1. mem[w] = checkpoint /\ checkpoint \in Checkpoint /\ pc[w] = "applyput"
      BY <2>2, <2>13 DEF PutApply, SerialOK, LocalOK
    <3>2. CASE UNCHANGED <<checkpoint, applied>> /\ pc'[w] = "finish"
      BY <2>4, <3>2 DEF SerialOK
    <3>3. CASE /\ checkpoint' =
                   [checkpoint EXCEPT
                      !.status = job[w].cmd.status,
                      !.next = Successor(AsNode(w), job[w].cmd.status, checkpoint.isError)]
               /\ applied' = applied \cup {job[w]} /\ pc'[w] = "invoke"
      <4>1. checkpoint' # NoCheckpoint /\ checkpoint'.replies = checkpoint.replies
        <5>1. LocalOK(w)'
          BY TypeStep DEF LocalsOK
        <5> QED
          BY <3>1, <3>3, <5>1 DEF Checkpoint, LocalOK
      <4>2. IsReply(job[w]) => IsAnswer(w) /\ job[w].cmd.id = ReplyKey(w)
        BY DEF IsReply, IsAnswer, ReplyKey
      <4>3. IsReply(job[w]) =>
              ReplyKey(w) \in checkpoint.replies /\ ~AnswerApplied(ReplyKey(w))
        BY <2>2, <3>1, <4>2 DEF SerialOK
      <4>4. RepliesOK'
        BY <2>2, <3>3, <4>1, <4>2, <4>3 DEF RepliesOK, IsReply
      <4>5. ReplyAppliedAtMostOnce'
        BY <2>2, <3>3, <4>2, <4>3 DEF ReplyAppliedAtMostOnce, AnswerApplied, IsReply
      <4> QED
        BY <3>3, <4>1, <4>4, <4>5 DEF SerialOK
    <3> QED
      BY <2>5, <2>13, <3>1, <3>2, <3>3 DEF PutApply, Goto
  <2>14. CASE Run(w) \/ RunAsyncFails(w)
    <3>1. /\ pc[w] = "run" /\ UNCHANGED <<applied, job, node>>
          /\ \/ UNCHANGED checkpoint /\ pc'[w] = "finish"
             \/ /\ checkpoint' = mem'[w] /\ checkpoint' \in Checkpoint
                /\ checkpoint'.replies = mem[w].replies
                /\ pc'[w] = "run"
      BY <2>14, RunPuts
    <3>2. mem[w] = checkpoint
      BY <2>2, <3>1 DEF SerialOK
    <3>3. RepliesOK' /\ ReplyAppliedAtMostOnce' /\ Grows
      BY <2>2, <3>1, <3>2, OrchestratorAssumption
         DEF RepliesOK, ReplyAppliedAtMostOnce, IsReply
    <3> QED
      BY <3>1, <3>3 DEF SerialOK
  <2> QED
    BY <1>2, <2>6, <2>7, <2>8, <2>9, <2>10, <2>11, <2>12, <2>13, <2>14
       DEF Step, Handle, Resume
<1>3. CASE Environment
  BY <1>1, <1>3 DEF Environment, SendTrigger, Send, CapabilityAnswers,
                    OperatorResolves, Redeliver, DeadLetter, store
<1> QED
  BY <1>1, <1>2, <1>3 DEF Next, Step, vars, store

\* Before the first command no answer is processed or applied.
LEMMA SerialInit ==
  ASSUME Init
  PROVE  SerialInv
BY DEF Init, SerialInv, RepliesOK, ReplyAppliedAtMostOnce, SerialOK

\* When one container handles the instance's commands, whichever of them SQS
\* delivers again and wherever the container dies, an answer takes effect at
\* most once.
THEOREM AtMostOnce ==
  ASSUME OneWorker
  PROVE  Spec => []ReplyAppliedAtMostOnce
<1>1. Init => SerialInv
  BY SerialInit
<1>2. IInv /\ SerialInv /\ [Next]_vars => SerialInv'
  BY SerialStep
<1>3. SerialInv => ReplyAppliedAtMostOnce
  BY DEF SerialInv
<1> QED
  BY <1>1, <1>2, <1>3, Invariance, PTL DEF Spec

\* ... and the record of the answers processed is never lost.
THEOREM RecordGrows ==
  ASSUME OneWorker
  PROVE  Spec => RepliesOnlyGrow
<1>1. Init => SerialInv
  BY SerialInit
<1>2. IInv /\ SerialInv /\ [Next]_vars => SerialInv'
  BY SerialStep
<1>3. IInv /\ SerialInv /\ [Next]_vars =>
        [checkpoint # NoCheckpoint => /\ checkpoint' # NoCheckpoint
                                      /\ checkpoint.replies \subseteq checkpoint'.replies]_vars
  BY SerialStep
<1> QED
  BY <1>1, <1>2, <1>3, Invariance, PTL DEF Spec, RepliesOnlyGrow

-----------------------------------------------------------------------------
(* The service implements the instance's lifecycle.                        *)

At == IF checkpoint = NoCheckpoint THEN NoCheckpoint ELSE checkpoint.next

\* The instance of the abstract module routes by the same definition.
LEMMA SameRouting ==
  ASSUME NEW n, NEW t
  PROVE  /\ Lifecycle!EdgeTargets(n) = EdgeTargets(n)
         /\ Lifecycle!TransitionNode(n, t) = TransitionNode(n, t)
         /\ Lifecycle!Type(n) = Type(n)
<1>1. Lifecycle!Type(n) = Type(n) /\ Lifecycle!Def(n) = Def(n)
  BY DEF Lifecycle!Type, Type, Lifecycle!Def, Def
<1>2. Lifecycle!TransitionNode(n, t) = TransitionNode(n, t)
  BY <1>1 DEF Lifecycle!TransitionNode, TransitionNode, Lifecycle!Or, Or
<1>3. Lifecycle!DataStatus = DataStatus
  BY DEF Lifecycle!DataStatus, DataStatus, Lifecycle!CommandStatus, CommandStatus
<1>4. ASSUME NEW s, NEW e
      PROVE  Lifecycle!Successor(n, s, e) = Successor(n, s, e)
  BY DEF Lifecycle!Successor, Successor, Lifecycle!resolve_branch, resolve_branch,
         Lifecycle!_get_success_path, _get_success_path, Lifecycle!Or, Or,
         Lifecycle!Type, Type, Lifecycle!Def, Def
<1>5. Lifecycle!EdgeTargets(n) = EdgeTargets(n)
  BY <1>1, <1>3, <1>4 DEF Lifecycle!EdgeTargets, EdgeTargets
<1> QED
  BY <1>1, <1>2, <1>5

\* Where a node that ran leads to is one of its edges' ends.
LEMMA SuccessorIsTarget ==
  ASSUME NEW n, NEW s \in DataStatus, NEW e \in BOOLEAN, ~EdgeRaises(n, s, e)
  PROVE  Successor(n, s, e) \in EdgeTargets(n)
BY DEF EdgeTargets, EdgeRaises, Successor

\* One superstep of the graph is a step of the lifecycle.
LEMMA RunStepsLifecycle ==
  ASSUME IInv, SerialInv, NEW w \in Worker, Run(w) \/ RunAsyncFails(w)
  PROVE  applied' = applied /\ (checkpoint' = checkpoint \/ Lifecycle!Enter \/ Lifecycle!Step)
<1> USE DEF IInv
<1>1. /\ LocalOK(w) /\ SerialOK(w) /\ pc[w] = "run" /\ mem[w] = checkpoint
      /\ mem[w] \in Checkpoint /\ applied' = applied
      /\ checkpoint # NoCheckpoint
  BY RunPuts, OrchestratorAssumption DEF SerialInv, LocalsOK, LocalOK, SerialOK
<1>2. /\ checkpoint.status \in DataStatus /\ checkpoint.isError \in BOOLEAN
      /\ checkpoint.next \in Pending
  BY <1>1, CheckpointFields
<1>3. Consumed' = Consumed
  BY <1>1 DEF Consumed, IsReply
<1>4. checkpoint' # NoCheckpoint
  BY <1>1, RunPuts, OrchestratorAssumption
<1>5. ASSUME NEW s \in DataStatus, NEW e \in BOOLEAN, checkpoint' = After(checkpoint, s, e),
             checkpoint.next \in Node, Type(checkpoint.next) # "event_wait",
             ~EdgeRaises(checkpoint.next, s, ErrorReducer(checkpoint.isError, e))
      PROVE  Lifecycle!Step
  <2>1. ErrorReducer(checkpoint.isError, e) \in BOOLEAN
    BY <1>2 DEF ErrorReducer
  <2>2. checkpoint'.next = Successor(checkpoint.next, s, ErrorReducer(checkpoint.isError, e))
    BY <1>1, <1>5, <2>1 DEF After, Checkpoint
  <2>3. checkpoint'.next \in EdgeTargets(checkpoint.next)
    BY <1>5, <2>1, <2>2, SuccessorIsTarget
  <2> QED
    BY <1>1, <1>3, <1>4, <1>5, <2>3, SameRouting DEF Lifecycle!Step
<1>6. CASE RunStart(w)
  <2>1. checkpoint'.next = Definition.entry_point /\ checkpoint.next = StartNode
    BY <1>1, <1>6 DEF RunStart, Put, Checkpoint
  <2> QED
    BY <1>1, <1>3, <1>4, <2>1 DEF Lifecycle!Enter
<1>7. CASE RunPassThrough(w)
  <2>1. /\ Type(checkpoint.next) \in {"start", "condition"} /\ checkpoint.next \in Node
        /\ checkpoint' = After(checkpoint, checkpoint.status, checkpoint.isError)
    BY <1>1, <1>7, TypedIsNode DEF RunPassThrough, Running, Put, NodeType
  <2>2. ErrorReducer(checkpoint.isError, checkpoint.isError) = checkpoint.isError
    BY <1>2 DEF ErrorReducer
  <2> QED
    BY <1>1, <1>2, <1>5, <1>7, <2>1, <2>2 DEF RunPassThrough
<1>8. CASE RunSetState(w)
  <2>1. /\ Type(checkpoint.next) \in {"set_state", "end"} /\ checkpoint.next \in Node
        /\ checkpoint' = After(checkpoint,
                               StaticStatus(checkpoint.next, checkpoint.status), FALSE)
    BY <1>1, <1>8, TypedIsNode DEF RunSetState, Running, Put, NodeType
  <2>2. StaticStatus(checkpoint.next, checkpoint.status) \in DataStatus
    BY <1>2, <2>1, StaticStatusType
  <2> QED
    BY <1>1, <1>5, <2>1, <2>2 DEF EdgeRaises
<1>9. CASE RunLogError(w)
  <2>1. /\ Type(checkpoint.next) = "log_error" /\ checkpoint.next \in Node
        /\ checkpoint' = After(checkpoint, checkpoint.status, FALSE)
    BY <1>1, <1>9, TypedIsNode DEF RunLogError, Running, Put, NodeType
  <2> QED
    BY <1>1, <1>2, <1>5, <2>1 DEF EdgeRaises
<1>10. CASE RunSyncCall(w)
  <2>1. /\ Type(checkpoint.next) = "sync_call" /\ checkpoint.next \in Node
        /\ checkpoint' = After(checkpoint, checkpoint.status, TRUE)
    BY <1>1, <1>10, TypedIsNode DEF RunSyncCall, Running, Put, NodeType
  <2> QED
    BY <1>1, <1>2, <1>5, <2>1 DEF EdgeRaises
<1>11. CASE RunAsyncFails(w)
  <2>1. /\ Type(checkpoint.next) = "async_request" /\ checkpoint.next \in Node
        /\ checkpoint' = After(checkpoint, checkpoint.status, TRUE)
    BY <1>1, <1>11, TypedIsNode DEF RunAsyncFails, Running, NodeType
  <2> QED
    BY <1>1, <1>2, <1>5, <2>1 DEF EdgeRaises
<1>12. CASE RunAsyncRequest(w) \/ RunRaises(w) \/ RunStops(w)
  BY <1>1, <1>12 DEF RunAsyncRequest, RunRaises, RunStops, store
<1> QED
  BY <1>1, <1>6, <1>7, <1>8, <1>9, <1>10, <1>11, <1>12 DEF Run

\* Writing a response is the lifecycle's Answered or Resolved.
LEMMA ApplyStepsLifecycle ==
  ASSUME MarkKeepsPending, IInv, SerialInv, NEW w \in Worker, PutApply(w)
  PROVE  \/ UNCHANGED <<checkpoint, applied>>
         \/ \E r \in 1..MaxRequests : Lifecycle!Answered(r)
         \/ Lifecycle!Resolved
<1> USE DEF IInv
<1> DEFINE T == TransitionOf(w)
           s == job[w].cmd.status
           c2 == [checkpoint EXCEPT !.status = s, !.next = Successor(T, s, checkpoint.isError)]
<1>1. /\ LocalOK(w) /\ SerialOK(w) /\ pc[w] = "applyput" /\ mem[w] = checkpoint
      /\ checkpoint \in Checkpoint /\ job[w] \in Delivery /\ HasTransition(w)
      /\ job[w].cmd.type # "EVENT" /\ checkpoint.next = node[w]
      /\ checkpoint # NoCheckpoint
  BY DEF PutApply, SerialInv, LocalsOK, LocalOK, SerialOK, Responding
<1>2. job[w].cmd \in Command /\ s \in DataStatus /\ checkpoint.isError \in BOOLEAN
  BY <1>1, DeliveryFields, CommandFields, CheckpointFields
<1>3. node[w] \in Node /\ T # NoNode
  BY <1>1 DEF HasTransition
<1> HIDE DEF T, s
<1>4. CASE UNCHANGED <<checkpoint, applied>>
  BY <1>4
<1>5. CASE /\ ~EdgeRaises(T, s, checkpoint.isError)
           /\ checkpoint' = c2 /\ applied' = applied \cup {job[w]}
  <2>1. checkpoint'.next = Successor(T, s, checkpoint.isError)
    BY <1>1, <1>5 DEF Checkpoint
  <2>2. checkpoint'.next \in EdgeTargets(T)
    BY <1>2, <1>5, <2>1, SuccessorIsTarget
  <2>3. checkpoint' # NoCheckpoint
    <3>1. OthersStill(w)
      BY ContainerFrame DEF Step, Handle, Resume
    <3> QED
      BY <1>1, ResumeType DEF Resume
  <2>4. At = node[w] /\ At' \in EdgeTargets(T)
    BY <1>1, <2>2, <2>3 DEF At
  <2>5. CASE IsAnswer(w)
    <3>1. ReplyKey(w) \in 1..MaxRequests /\ T = TransitionNode(node[w], "ASYNC_RESP")
      BY <1>2, <2>5, CommandFields DEF IsAnswer, ReplyKey, T, TransitionOf
    <3>2. ReplyKey(w) \notin Consumed
      BY <1>1, <2>5 DEF SerialOK, AnswerApplied, Consumed
    <3>3. Consumed' = Consumed \cup {ReplyKey(w)}
      BY <1>5, <2>5 DEF Consumed, IsReply, IsAnswer, ReplyKey
    <3>4. Lifecycle!Answered(ReplyKey(w))
      BY <1>3, <2>4, <3>1, <3>2, <3>3, SameRouting
         DEF Lifecycle!Answered, Lifecycle!ResumeBy, At
    <3> QED
      BY <3>1, <3>4
  <2>6. CASE ~IsAnswer(w)
    <3>1. T = TransitionNode(node[w], "EVENT_WAIT_RESP")
      BY <1>1, <1>2, <2>6, CommandFields DEF IsAnswer, T, TransitionOf
    <3>2. Consumed' = Consumed
      BY <1>5, <2>6 DEF Consumed, IsReply, IsAnswer
    <3>3. Lifecycle!Resolved
      BY <1>3, <2>4, <3>1, <3>2, SameRouting DEF Lifecycle!Resolved, Lifecycle!ResumeBy, At
    <3> QED
      BY <3>3
  <2> QED
    BY <2>5, <2>6
<1> QED
  BY <1>1, <1>4, <1>5 DEF PutApply, AsNode, T, s

\* Every step of the service is a step of the lifecycle or leaves it alone.
LEMMA LifecycleStep ==
  ASSUME OneWorker, MarkKeepsPending, IInv, SerialInv, [Next]_vars
  PROVE  [Lifecycle!Next]_(Lifecycle!vars)
<1> USE DEF IInv
<1>1. ASSUME UNCHANGED <<checkpoint, applied>>
      PROVE  UNCHANGED Lifecycle!vars
  BY <1>1 DEF Lifecycle!vars, Consumed, IsReply
<1>2. ASSUME NEW w \in Worker, Step(w)
      PROVE  [Lifecycle!Next]_(Lifecycle!vars)
  <2>1. SerialOK(w) /\ LocalOK(w)
    BY DEF SerialInv, LocalsOK
  <2>2. CASE Run(w) \/ RunAsyncFails(w)
    BY <1>1, <2>2, RunStepsLifecycle DEF Lifecycle!Next
  <2>3. CASE PutApply(w)
    BY <1>1, <2>3, ApplyStepsLifecycle DEF Lifecycle!Next
  <2>4. CASE PutInput(w)
    <3>1. /\ checkpoint = NoCheckpoint /\ checkpoint' = mem[w] /\ mem[w] \in Checkpoint
          /\ mem[w].next = StartNode /\ applied' = applied
      BY <2>1, <2>4 DEF PutInput, SerialOK, LocalOK
    <3>2. Lifecycle!Begin
      BY <3>1, OrchestratorAssumption DEF Lifecycle!Begin, Consumed, IsReply
    <3> QED
      BY <3>2 DEF Lifecycle!Next
  <2>5. CASE PutMark(w)
    <3>1. mem[w] = checkpoint /\ checkpoint \in Checkpoint /\ applied' = applied
      BY <2>1, <2>5 DEF PutMark, SerialOK, LocalOK
    <3>2. /\ checkpoint'.next = checkpoint.next
          /\ checkpoint # NoCheckpoint /\ checkpoint' # NoCheckpoint
      BY <2>5, <3>1, MarkEffect, OrchestratorAssumption
    <3> QED
      BY <3>1, <3>2 DEF Lifecycle!vars, Consumed, IsReply
  <2>6. CASE ~(Run(w) \/ RunAsyncFails(w) \/ PutApply(w) \/ PutInput(w) \/ PutMark(w))
    <3>1. UNCHANGED <<checkpoint, applied>>
      BY <1>2, <2>6
         DEF Step, Handle, Receive, Finish, Fault, Crash, LookupTrigger, LoadForStart,
             Resume, Snapshot, LoadForMark, Route, LoadForApply, LoadForInvoke, Load, store
    <3> QED
      BY <1>1, <3>1
  <2> QED
    BY <2>2, <2>3, <2>4, <2>5, <2>6
<1>3. CASE Environment
  BY <1>1, <1>3 DEF Environment, SendTrigger, Send, CapabilityAnswers,
                    OperatorResolves, Redeliver, DeadLetter, store
<1>4. CASE UNCHANGED vars
  BY <1>1, <1>4 DEF vars, store
<1> QED
  BY <1>2, <1>3, <1>4 DEF Next, Step

\* When one container handles the instance's commands and a mark leaves the
\* pending node alone, the service implements the instance's lifecycle: no crash,
\* fault, redelivery or failed send takes the instance off the edges of its
\* definition.
THEOREM Refinement ==
  ASSUME OneWorker, MarkKeepsPending
  PROVE  Spec => ImplementsLifecycle
<1>1. Init => SerialInv /\ Lifecycle!Init
  BY SerialInit DEF Init, Lifecycle!Init, Consumed
<1>2. IInv /\ SerialInv /\ [Next]_vars => SerialInv'
  BY SerialStep
<1>3. IInv /\ SerialInv /\ [Next]_vars => [Lifecycle!Next]_(Lifecycle!vars)
  BY LifecycleStep
<1> QED
  BY <1>1, <1>2, <1>3, Invariance, PTL DEF Spec, ImplementsLifecycle, Lifecycle!Spec

\* ... and an instance that has ended stays ended, since its lifecycle does.
THEOREM EndedStaysEnded ==
  ASSUME OneWorker, MarkKeepsPending
  PROVE  Spec => EndIsFinal
<1> DEFINE Final == checkpoint # NoCheckpoint /\ checkpoint.next = NoNode
                      => checkpoint' # NoCheckpoint /\ checkpoint'.next = NoNode
<1>1. Init => SerialInv
  BY SerialInit
<1>2. IInv /\ SerialInv /\ [Next]_vars => SerialInv'
  BY SerialStep
<1>3. IInv /\ SerialInv /\ [Next]_vars => [Final]_vars
  <2> SUFFICES ASSUME IInv, SerialInv, Next, checkpoint # NoCheckpoint,
                      checkpoint.next = NoNode
               PROVE  checkpoint' # NoCheckpoint /\ checkpoint'.next = NoNode
    OBVIOUS
  <2>1. [Lifecycle!Next]_(Lifecycle!vars) /\ checkpoint' # NoCheckpoint
    <3>1. [Next]_vars
      OBVIOUS
    <3>2. [checkpoint # NoCheckpoint => checkpoint' # NoCheckpoint]_vars
      BY <3>1, SerialStep
    <3> QED
      BY <3>1, <3>2, LifecycleStep DEF vars, store
  <2>2. ~Lifecycle!Next
    BY DefinitionAssumption, OrchestratorAssumption
       DEF Lifecycle!Next, Lifecycle!Begin, Lifecycle!Enter, Lifecycle!Step,
           Lifecycle!Answered, Lifecycle!Resolved, Lifecycle!ResumeBy, Pending
  <2> QED
    BY <2>1, <2>2 DEF Lifecycle!vars
<1> QED
  BY <1>1, <1>2, <1>3, Invariance, PTL DEF Spec, EndIsFinal

-----------------------------------------------------------------------------
(* Commands, answers and the requests they answer.                         *)

\* Nothing is delivered that was not sent, and no answer is sent before its
\* request: whatever is applied answers a request on the queue.
SentOK ==
  /\ queue \subseteq sent
  /\ \A w \in Worker : pc[w] # "idle" => job[w].cmd \in sent
  /\ \A d \in applied : d.cmd \in sent
  /\ \A c \in sent : c.type = "ASYNC_RESP" => c.id \in DOMAIN requests

\* A container takes its command from the queue and returns it at most.
LEMMA QueueEffect ==
  ASSUME TypeOK, NEW w \in Worker, Step(w)
  PROVE  /\ sent' = sent
         /\ \/ Receive(w) /\ queue' \subseteq queue /\ job'[w].cmd \in queue
            \/ ~Receive(w) /\ queue' \subseteq queue \cup {job[w].cmd}
<1> USE DEF store, channel
<1>1. CASE Receive(w)
  <2>1. PICK c \in queue : /\ queue' = queue \ {c}
                           /\ job' = [job EXCEPT ![w] =
                                       [cmd |-> c, receive |-> receives[c] + 1]]
    BY <1>1 DEF Receive
  <2>2. job'[w].cmd = c
    BY <2>1 DEF TypeOK
  <2> QED
    BY <1>1, <2>1, <2>2 DEF Receive
<1>2. CASE Crash(w)
  BY <1>2 DEF Crash, Receive
<1>3. CASE Finish(w) \/ Fault(w) \/ LookupTrigger(w) \/ LoadForStart(w) \/ PutInput(w)
  BY <1>3 DEF Finish, Fault, LookupTrigger, LoadForStart, PutInput, Receive
<1>4. CASE Resume(w)
  BY <1>4 DEF Resume, Snapshot, LoadForMark, PutMark, Route, LoadForApply, PutApply,
              LoadForInvoke, Load, Receive
<1>5. CASE Run(w) \/ RunAsyncFails(w)
  BY <1>5 DEF Run, RunStart, RunPassThrough, RunRaises, RunSetState, RunLogError,
              RunSyncCall, RunAsyncRequest, RunStops, Put, RunAsyncFails, Running, Receive
<1> QED
  BY <1>1, <1>2, <1>3, <1>4, <1>5 DEF Step, Handle

\* The requests only grow, and what was asked stays asked.
LEMMA RequestsGrow ==
  ASSUME IInv, NEW w \in Worker, Step(w)
  PROVE  DOMAIN requests \subseteq DOMAIN requests'
<1> USE DEF IInv
<1>1. CASE Receive(w)
  BY <1>1, ReceiveEffect
<1>2. CASE ~Receive(w)
  <2>1. job[w] \in Delivery
    BY <1>2, HandlerEffect DEF LocalsOK, LocalOK
  <2> QED
    BY <1>2, <2>1, HandlerEffect, RequestSentFields
<1> QED
  BY <1>1, <1>2

\* What the environment sends is new, and an answer follows its request.
LEMMA SentByEnvironment ==
  ASSUME TypeOK, SentOK, Environment
  PROVE  /\ sent \subseteq sent' /\ queue' \subseteq sent'
         /\ \A c \in sent' : c.type = "ASYNC_RESP" => c.id \in DOMAIN requests
         /\ UNCHANGED <<store, local>>
<1> USE DEF SentOK, store, local
<1>1. CASE SendTrigger
  BY <1>1 DEF SendTrigger, Send, Trigger
<1>2. CASE \E r \in 1..MaxRequests : CapabilityAnswers(r)
  <2>1. PICK r \in 1..Len(requests), c \in Answer : c.id = r /\ Send(c)
    BY <1>2 DEF CapabilityAnswers
  <2>2. DOMAIN requests = 1..Len(requests)
    BY DEF TypeOK
  <2> QED
    BY <2>1, <2>2 DEF Send
<1>3. CASE OperatorResolves
  BY <1>3 DEF OperatorResolves, Send, Resolution
<1>4. CASE \E c \in Command : Redeliver(c) \/ DeadLetter(c)
  BY <1>4 DEF Redeliver, DeadLetter
<1> QED
  BY <1>1, <1>2, <1>3, <1>4 DEF Environment

\* However commands are delivered again, answers are to requests.
LEMMA SentStep ==
  ASSUME IInv, SentOK, [Next]_vars
  PROVE  SentOK'
<1> USE DEF IInv
<1>1. CASE Environment
  BY <1>1, SentByEnvironment DEF SentOK, store, local
<1>2. ASSUME NEW w \in Worker, Step(w)
      PROVE  SentOK'
  <2>1. OthersStill(w) /\ DOMAIN requests \subseteq DOMAIN requests'
    BY <1>2, ContainerFrame, RequestsGrow
  <2>2. CASE Receive(w)
    BY <1>2, <2>1, <2>2, QueueEffect, ReceiveEffect DEF SentOK, OthersStill
  <2>3. CASE ~Receive(w)
    <3>1. /\ pc[w] # "idle" /\ (pc'[w] # "idle" => job' = job)
          /\ applied' \subseteq applied \cup {job[w]}
      BY <1>2, <2>3, HandlerEffect
    <3> QED
      BY <1>2, <2>1, <2>3, <3>1, QueueEffect DEF SentOK, OthersStill
  <2> QED
    BY <2>2, <2>3
<1>3. CASE UNCHANGED vars
  BY <1>3 DEF vars, store, channel, local, SentOK
<1> QED
  BY <1>1, <1>2, <1>3 DEF Next, Step

\* Before the first command nothing is sent.
LEMMA SentInit ==
  ASSUME Init
  PROVE  SentOK
BY DEF Init, SentOK

-----------------------------------------------------------------------------
(* Where the instance is between two runs of its graph, with one container. *)

GraphPC == {"invoke", "run"}

GraphRuns == \E w \in Worker : pc[w] \in GraphPC

\* What a step of the one container does to the instance.
NoPut(w) ==
  /\ UNCHANGED <<checkpoint, applied, requests>>
  /\ \/ pc'[w] \in GraphPC <=> pc[w] \in GraphPC
     \/ Fault(w) \/ Crash(w) \/ RunRaises(w) \/ RunStops(w)
  /\ pc'[w] \in GraphPC => pc[w] \in GraphPC

Begins(w) ==
  /\ checkpoint = NoCheckpoint /\ checkpoint' # NoCheckpoint
  /\ pc'[w] = "run" /\ UNCHANGED <<applied, requests>>

Marks(w) ==
  /\ checkpoint # NoCheckpoint /\ checkpoint' # NoCheckpoint
  /\ MarkKeepsPending => checkpoint'.next = checkpoint.next
  /\ pc[w] \notin GraphPC /\ pc'[w] \notin GraphPC
  /\ UNCHANGED <<applied, requests>>

Applies(w) ==
  /\ PutApply(w) /\ HasTransition(w)
  /\ checkpoint # NoCheckpoint /\ checkpoint' # NoCheckpoint
  /\ MarkKeepsPending => checkpoint.next = node[w]
  /\ IsAnswer(w) => ~AnswerApplied(ReplyKey(w))
  /\ ~IsAnswer(w) => job[w].cmd.type = "EVENT_WAIT_RESP"
  /\ applied' = applied \cup {job[w]} /\ requests' = requests
  /\ pc[w] \notin GraphPC /\ pc'[w] \in GraphPC

Walks(w) ==
  /\ pc[w] = "run" /\ pc'[w] = "run"
  /\ checkpoint # NoCheckpoint /\ checkpoint' # NoCheckpoint
  /\ UNCHANGED <<applied, requests>>

Asks(w) ==
  /\ pc[w] = "run" /\ pc'[w] = "finish"
  /\ checkpoint # NoCheckpoint /\ Type(checkpoint.next) = "async_request"
  /\ mem[w].next = checkpoint.next /\ checkpoint.next \in Node
  /\ requests' = RequestSent(w) /\ UNCHANGED <<checkpoint, applied>>

\* Every step of the one container is one of these.
LEMMA StepEffects ==
  ASSUME IInv, SerialInv, NEW w \in Worker, Step(w)
  PROVE  NoPut(w) \/ Begins(w) \/ Marks(w) \/ Applies(w) \/ Walks(w) \/ Asks(w)
<1> USE DEF IInv
<1>1. /\ SerialOK(w) /\ LocalOK(w)
      /\ pc \in [Worker -> PC] /\ job \in [Worker -> Delivery \cup {NoJob}]
      /\ mem \in [Worker -> Checkpoint \cup {NoCheckpoint}]
      /\ checkpoint \in Checkpoint => checkpoint # NoCheckpoint
  BY CheckpointFields DEF SerialInv, LocalsOK, TypeOK
<1>2. TypeOK' /\ LocalOK(w)' /\ (checkpoint # NoCheckpoint => checkpoint' # NoCheckpoint)
  <2>1. [Next]_vars
    BY DEF Next, Step
  <2> QED
    BY <2>1, TypeStep, RunType, ResumeType, StartType, <1>1
       DEF LocalsOK, Step, Handle, Receive, Finish, Fault, Crash, store
<1>3. CASE Receive(w) \/ Finish(w) \/ LookupTrigger(w) \/ LoadForStart(w)
  BY <1>1, <1>3 DEF Receive, Finish, Forget, LookupTrigger, LoadForStart, Goto, NoPut,
                    store, GraphPC
<1>4. CASE Fault(w) \/ Crash(w)
  BY <1>1, <1>4 DEF Fault, Crash, Forget, NoPut, store, GraphPC
<1>5. CASE PutInput(w)
  <2>1. checkpoint' # NoCheckpoint
    BY <1>1, <1>5, OrchestratorAssumption DEF PutInput, LocalOK
  <2> QED
    BY <1>1, <1>5, <2>1 DEF PutInput, Begins, Goto, SerialOK
<1>6. CASE Snapshot(w) \/ LoadForMark(w) \/ Route(w) \/ LoadForApply(w) \/ LoadForInvoke(w)
  BY <1>1, <1>6 DEF Snapshot, LoadForMark, Route, RouteTo, LoadForApply, LoadForInvoke,
                    Load, Goto, NoPut, store, GraphPC
<1>7. CASE PutMark(w)
  <2>1. mem[w] = checkpoint /\ checkpoint \in Checkpoint
    BY <1>1, <1>7 DEF PutMark, SerialOK, LocalOK
  <2>2. MarkKeepsPending => checkpoint'.next = checkpoint.next
    BY <1>7, <2>1, MarkEffect
  <2> QED
    BY <1>1, <1>2, <1>7, <2>1, <2>2 DEF PutMark, Marks, Goto, GraphPC
<1>8. CASE PutApply(w)
  <2>1. job[w] \in Delivery /\ job[w].cmd.type # "EVENT" /\ checkpoint # NoCheckpoint
        /\ HasTransition(w)
    BY <1>1, <1>8 DEF PutApply, LocalOK, Responding
  <2>2. ~IsAnswer(w) => job[w].cmd.type = "EVENT_WAIT_RESP"
    BY <2>1, DeliveryFields, CommandFields DEF IsAnswer
  <2>3. CASE UNCHANGED <<checkpoint, applied>> /\ pc'[w] = "finish"
    BY <1>8, <2>3 DEF PutApply, NoPut, GraphPC
  <2>4. CASE applied' = applied \cup {job[w]} /\ pc'[w] = "invoke"
    BY <1>1, <1>2, <1>8, <2>1, <2>2, <2>4 DEF PutApply, Applies, SerialOK, GraphPC
  <2> QED
    BY <1>1, <1>8, <2>3, <2>4 DEF PutApply, Goto
<1>9. CASE RunAsyncRequest(w)
  <2>1. mem[w] = checkpoint /\ checkpoint # NoCheckpoint /\ mem[w].next \in Node
    BY <1>1, <1>9, TypedIsNode DEF RunAsyncRequest, Running, SerialOK, LocalOK, NodeType
  <2> QED
    BY <1>1, <1>9, <2>1 DEF RunAsyncRequest, Running, Asks, Goto
<1>10. CASE RunRaises(w) \/ RunStops(w)
  BY <1>1, <1>10 DEF RunRaises, RunStops, Running, NoPut, Goto, store, GraphPC
<1>11. CASE \/ RunStart(w) \/ RunPassThrough(w) \/ RunSetState(w) \/ RunLogError(w)
            \/ RunSyncCall(w) \/ RunAsyncFails(w)
  <2>1. pc[w] = "run" /\ pc' = pc /\ UNCHANGED <<applied, requests>>
    BY <1>11 DEF RunStart, RunPassThrough, RunSetState, RunLogError, RunSyncCall,
                 RunAsyncFails, Running, Put
  <2>2. checkpoint # NoCheckpoint
    BY <1>1, <2>1 DEF SerialOK, LocalOK
  <2> QED
    BY <1>2, <2>1, <2>2 DEF Walks
<1> QED
  BY <1>3, <1>4, <1>5, <1>6, <1>7, <1>8, <1>9, <1>10, <1>11 DEF Step, Handle, Resume, Run

Outstanding(r) == r \in DOMAIN requests /\ ~AnswerApplied(r)

\* Only the newest request can be outstanding, and while it is the instance
\* rests at the node that sent it.
OutstandingOK ==
  \A r \in DOMAIN requests : Outstanding(r) =>
    /\ r = Len(requests)
    /\ checkpoint # NoCheckpoint /\ checkpoint.next = requests[r].node
    /\ Type(requests[r].node) = "async_request"
    /\ ~GraphRuns

\* A response either takes the answer of the outstanding request or finds none.
LEMMA AppliesTheAnswer ==
  ASSUME OneWorker, MarkKeepsPending, OnlyAnswersEndRequests, IInv, SentOK,
         OutstandingOK,
         NEW w \in Worker, Applies(w)
  PROVE  /\ \A r \in DOMAIN requests : ~Outstanding(r)'
         /\ IsAnswer(w) => /\ ReplyKey(w) = Len(requests)
                           /\ requests[ReplyKey(w)].node = node[w]
<1> USE DEF IInv
<1>1. pc[w] # "idle" /\ job[w].cmd \in sent
  BY DEF Applies, PutApply, SentOK
<1>2. ASSUME IsAnswer(w)
      PROVE  Outstanding(ReplyKey(w))
  BY <1>1, <1>2 DEF Applies, IsAnswer, ReplyKey, SentOK, Outstanding
<1>3. IsAnswer(w) => /\ ReplyKey(w) = Len(requests)
                     /\ requests[ReplyKey(w)].node = node[w]
  BY <1>2 DEF OutstandingOK, Outstanding, Applies
<1>4. ASSUME NEW r \in DOMAIN requests, Outstanding(r)'
      PROVE  FALSE
  <2>1. Outstanding(r)
    BY <1>4 DEF Outstanding, Applies, AnswerApplied, IsReply
  <2>2. r = Len(requests) /\ node[w] = requests[r].node
        /\ Type(node[w]) = "async_request"
    BY <2>1 DEF OutstandingOK, Applies
  <2>3. CASE IsAnswer(w)
    BY <1>3, <1>4, <2>2, <2>3
       DEF Applies, Outstanding, AnswerApplied, IsReply, IsAnswer, ReplyKey
  <2>4. CASE ~IsAnswer(w)
    BY <2>2, <2>4 DEF Applies, HasTransition, TransitionOf, TransitionNode,
                      OnlyAnswersEndRequests
  <2> QED
    BY <2>3, <2>4
<1> QED
  BY <1>3, <1>4

\* At most one request is outstanding, the one the instance waits for.
LEMMA OutstandingStep ==
  ASSUME OneWorker, MarkKeepsPending, OnlyAnswersEndRequests, IInv, SerialInv,
         SentOK, OutstandingOK, [Next]_vars
  PROVE  OutstandingOK'
<1> USE DEF IInv
<1>1. CASE UNCHANGED <<store, local>>
  BY <1>1 DEF store, local, OutstandingOK, Outstanding, AnswerApplied, IsReply, GraphRuns
<1>2. ASSUME NEW w \in Worker, Step(w)
      PROVE  OutstandingOK'
  <2>1. (GraphRuns <=> pc[w] \in GraphPC) /\ (GraphRuns' <=> pc'[w] \in GraphPC)
    BY DEF OneWorker, GraphRuns
  <2>2. CASE NoPut(w)
    BY <2>1, <2>2 DEF NoPut, OutstandingOK, Outstanding, AnswerApplied, IsReply
  <2>3. CASE Begins(w) \/ Walks(w)
    <3>1. \A r \in DOMAIN requests : ~Outstanding(r)
      BY <2>1, <2>3 DEF Begins, Walks, OutstandingOK, GraphPC
    <3> QED
      BY <2>3, <3>1 DEF Begins, Walks, OutstandingOK, Outstanding, AnswerApplied, IsReply
  <2>4. CASE Marks(w)
    BY <2>1, <2>4 DEF Marks, OutstandingOK, Outstanding, AnswerApplied, IsReply
  <2>5. CASE Applies(w)
    <3>1. \A r \in DOMAIN requests : ~Outstanding(r)'
      BY <2>5, AppliesTheAnswer
    <3> QED
      BY <2>5, <3>1 DEF Applies, OutstandingOK
  <2>6. CASE Asks(w)
    <3>1. \A r \in DOMAIN requests : ~Outstanding(r)
      BY <2>1, <2>6 DEF Asks, OutstandingOK, GraphPC
    <3>2. requests \in Seq(Request) /\ job[w] \in Delivery
      BY <2>6 DEF Asks, TypeOK, LocalsOK, LocalOK
    <3>3. /\ DOMAIN requests' = DOMAIN requests \cup {Len(requests) + 1}
          /\ Len(requests') = Len(requests) + 1
          /\ requests'[Len(requests) + 1].node = checkpoint.next
      <4>1. [node |-> mem[w].next, cause |-> job[w]] \in Request
        BY <2>6, <3>2 DEF Asks, Request
      <4> QED
        BY <2>6, <3>2, <4>1 DEF Asks, RequestSent
    <3>4. ASSUME NEW r \in DOMAIN requests', Outstanding(r)'
          PROVE  r = Len(requests) + 1
      BY <2>6, <3>1, <3>3, <3>4 DEF Asks, Outstanding, AnswerApplied, IsReply
    <3> QED
      BY <2>1, <2>6, <3>3, <3>4 DEF Asks, OutstandingOK, GraphPC
  <2> QED
    BY <1>2, <2>2, <2>3, <2>4, <2>5, <2>6, StepEffects
<1>3. CASE Environment
  BY <1>1, <1>3, SentByEnvironment
<1>4. CASE UNCHANGED vars
  BY <1>1, <1>4 DEF vars
<1> QED
  BY <1>2, <1>3, <1>4 DEF Next, Step

\* With one container, whichever answers are late, lost with a container that
\* dies or delivered again: an instance that has ended has used the answer to
\* every request it sent.
THEOREM NothingOutstandingAtTheEnd ==
  ASSUME OneWorker, MarkKeepsPending, OnlyAnswersEndRequests
  PROVE  Spec => []EndLeavesNothingOutstanding
<1>1. Init => SerialInv /\ SentOK /\ OutstandingOK
  BY SerialInit, SentInit DEF Init, OutstandingOK
<1>2. IInv /\ SerialInv /\ SentOK /\ OutstandingOK /\ [Next]_vars
        => (SerialInv /\ SentOK /\ OutstandingOK)'
  BY SerialStep, SentStep, OutstandingStep
<1>3. OutstandingOK => EndLeavesNothingOutstanding
  BY DefinitionAssumption
     DEF OutstandingOK, Outstanding, EndLeavesNothingOutstanding, Type
<1> QED
  BY <1>1, <1>2, <1>3, Invariance, PTL DEF Spec

\* ... and an answer resumes the node that sent the request it answers, never
\* one the instance has come to since.
THEOREM AnswersResumeTheirRequester ==
  ASSUME OneWorker, MarkKeepsPending, OnlyAnswersEndRequests
  PROVE  Spec => AnswerResumesItsRequester
<1> DEFINE Resumes ==
             \A w \in Worker :
               PutApply(w) /\ IsAnswer(w) /\ applied' # applied
                 => ReplyKey(w) = Len(requests) /\ requests[ReplyKey(w)].node = node[w]
<1>1. Init => SerialInv /\ SentOK /\ OutstandingOK
  BY SerialInit, SentInit DEF Init, OutstandingOK
<1>2. IInv /\ SerialInv /\ SentOK /\ OutstandingOK /\ [Next]_vars
        => (SerialInv /\ SentOK /\ OutstandingOK)'
  BY SerialStep, SentStep, OutstandingStep
<1>3. IInv /\ SerialInv /\ SentOK /\ OutstandingOK /\ [Next]_vars => [Resumes]_vars
  <2> SUFFICES ASSUME IInv, SerialInv, SentOK, OutstandingOK,
                      NEW w \in Worker, PutApply(w), IsAnswer(w), applied' # applied
               PROVE  ReplyKey(w) = Len(requests) /\ requests[ReplyKey(w)].node = node[w]
    OBVIOUS
  <2>1. Applies(w)
    BY StepEffects DEF Step, Handle, Resume, NoPut, Begins, Marks, Walks, Asks
  <2> QED
    BY <2>1, AppliesTheAnswer
<1> QED
  BY <1>1, <1>2, <1>3, Invariance, PTL DEF Spec, AnswerResumesItsRequester

-----------------------------------------------------------------------------
(* Instances at rest, in behaviours no handler dies in.                    *)

\* Between two runs of the graph the instance is where the graph pauses it ...
PauseOK ==
  ~GraphRuns /\ checkpoint # NoCheckpoint =>
    \/ checkpoint.next = NoNode
    \/ Type(checkpoint.next) \in {"async_request", "event_wait"}

\* ... and has asked the capability it pauses for.
AskedOK ==
  ~GraphRuns /\ checkpoint # NoCheckpoint /\ Type(checkpoint.next) = "async_request"
    => \E r \in DOMAIN requests :
         requests[r].node = checkpoint.next /\ ~AnswerApplied(r)

\* A handler that dies shows.
LEMMA DeathsShow ==
  ASSUME TypeOK, Undisturbed, Undisturbed', NEW w \in Worker
  PROVE  ~Fault(w) /\ ~Crash(w)
BY DEF TypeOK, Undisturbed, Fault, Crash, Disturb, Disturbance

\* Where a container stops running the graph, short of dying.
LEMMA StopsAtPause ==
  ASSUME IInv, SerialInv, NEW w \in Worker, RunRaises(w) \/ RunStops(w)
  PROVE  /\ checkpoint' = checkpoint
         /\ Type(checkpoint.next) # "async_request"
         /\ \/ checkpoint.next = NoNode
            \/ Type(checkpoint.next) = "event_wait"
            \/ ~ConditionsAreTotal
<1> USE DEF IInv
<1>1. /\ mem[w] = checkpoint /\ checkpoint \in Checkpoint
      /\ checkpoint.status \in DataStatus /\ checkpoint.isError \in BOOLEAN
  BY CheckpointFields
     DEF SerialInv, SerialOK, LocalsOK, LocalOK, RunRaises, RunStops, Running
<1>2. CASE RunRaises(w)
  <2>1. Type(checkpoint.next) = "condition" /\ checkpoint.next \in Node
    BY <1>1, <1>2, TypedIsNode DEF RunRaises, Running, NodeType
  <2>2. EdgeRaises(checkpoint.next, checkpoint.status, checkpoint.isError)
    BY <1>1, <1>2 DEF RunRaises
  <2> QED
    BY <1>1, <1>2, <2>1, <2>2 DEF RunRaises, ConditionsAreTotal, store
<1>3. CASE RunStops(w)
  BY <1>1, <1>3, DefinitionAssumption DEF RunStops, Type, store
<1> QED
  BY <1>2, <1>3

\* The graph leaves an instance where it pauses.
LEMMA PauseStep ==
  ASSUME OneWorker, MarkKeepsPending, ConditionsAreTotal, IInv, SerialInv,
         Undisturbed, Undisturbed', PauseOK, [Next]_vars
  PROVE  PauseOK'
<1> USE DEF IInv
<1>1. CASE UNCHANGED <<store, local>>
  BY <1>1 DEF store, local, PauseOK, GraphRuns
<1>2. ASSUME NEW w \in Worker, Step(w)
      PROVE  PauseOK'
  <2>1. (GraphRuns <=> pc[w] \in GraphPC) /\ (GraphRuns' <=> pc'[w] \in GraphPC)
    BY DEF OneWorker, GraphRuns
  <2>2. CASE NoPut(w)
    <3>1. ~Fault(w) /\ ~Crash(w)
      BY DeathsShow
    <3> QED
      BY <2>1, <2>2, <3>1, StopsAtPause DEF NoPut, PauseOK
  <2>3. CASE Begins(w) \/ Walks(w) \/ Applies(w)
    BY <2>1, <2>3 DEF Begins, Walks, Applies, PauseOK, GraphPC
  <2>4. CASE Marks(w) \/ Asks(w)
    BY <2>1, <2>4 DEF Marks, Asks, PauseOK
  <2> QED
    BY <1>2, <2>2, <2>3, <2>4, StepEffects
<1>3. CASE Environment
  <2>1. UNCHANGED <<store, local>>
    BY <1>3 DEF Environment, SendTrigger, Send, CapabilityAnswers, OperatorResolves,
                Redeliver, DeadLetter
  <2> QED
    BY <1>1, <2>1
<1>4. CASE UNCHANGED vars
  BY <1>1, <1>4 DEF vars
<1> QED
  BY <1>2, <1>3, <1>4 DEF Next, Step

\* A node that waits for a capability has asked it, and its answer is to come.
LEMMA AskedStep ==
  ASSUME OneWorker, MarkKeepsPending, IInv, SerialInv, SentOK,
         Undisturbed, Undisturbed', AskedOK, [Next]_vars
  PROVE  AskedOK'
<1> USE DEF IInv
<1>1. CASE UNCHANGED <<store, local>>
  BY <1>1 DEF store, local, AskedOK, GraphRuns, AnswerApplied, IsReply
<1>2. ASSUME NEW w \in Worker, Step(w)
      PROVE  AskedOK'
  <2>1. (GraphRuns <=> pc[w] \in GraphPC) /\ (GraphRuns' <=> pc'[w] \in GraphPC)
    BY DEF OneWorker, GraphRuns
  <2>2. CASE NoPut(w)
    <3>1. ~Fault(w) /\ ~Crash(w)
      BY DeathsShow
    <3> QED
      BY <2>1, <2>2, <3>1, StopsAtPause DEF NoPut, AskedOK, AnswerApplied, IsReply
  <2>3. CASE Begins(w) \/ Walks(w) \/ Applies(w)
    BY <2>1, <2>3 DEF Begins, Walks, Applies, AskedOK, GraphPC
  <2>4. CASE Marks(w)
    BY <2>1, <2>4 DEF Marks, AskedOK, AnswerApplied, IsReply
  <2>5. CASE Asks(w)
    <3>1. requests \in Seq(Request) /\ job[w] \in Delivery
      BY <2>5 DEF Asks, TypeOK, LocalsOK, LocalOK
    <3>2. /\ Len(requests) + 1 \in DOMAIN requests'
          /\ requests'[Len(requests) + 1].node = checkpoint.next
          /\ Len(requests) + 1 \notin DOMAIN requests
      <4>1. [node |-> mem[w].next, cause |-> job[w]] \in Request
        BY <2>5, <3>1 DEF Asks, Request
      <4> QED
        BY <2>5, <3>1, <4>1 DEF Asks, RequestSent
    <3>3. ~AnswerApplied(Len(requests) + 1)
      BY <3>2 DEF AnswerApplied, SentOK, IsReply
    <3> QED
      BY <2>5, <3>2, <3>3 DEF Asks, AskedOK, AnswerApplied, IsReply
  <2> QED
    BY <1>2, <2>2, <2>3, <2>4, <2>5, StepEffects
<1>3. CASE Environment
  BY <1>1, <1>3, SentByEnvironment
<1>4. CASE UNCHANGED vars
  BY <1>1, <1>4 DEF vars
<1> QED
  BY <1>2, <1>3, <1>4 DEF Next, Step

\* A container at rest is not running the graph.
LEMMA QuietIsBetweenRuns ==
  ASSUME Quiet
  PROVE  ~GraphRuns
BY DEF Quiet, GraphRuns, GraphPC

\* An instance none of whose handlers dies rests only at an end, at a capability
\* or at a wait: the graph never stops where a node should have run.
THEOREM RestsOnlyAtPauses ==
  ASSUME OneWorker, MarkKeepsPending, ConditionsAreTotal
  PROVE  Spec /\ []Undisturbed => []QuietOnlyAtPauses
<1>1. Init => SerialInv /\ PauseOK
  BY SerialInit DEF Init, PauseOK
<1>2. IInv /\ SerialInv /\ [Next]_vars => SerialInv'
  BY SerialStep
<1>3. IInv /\ SerialInv /\ Undisturbed /\ Undisturbed' /\ PauseOK /\ [Next]_vars => PauseOK'
  BY PauseStep
<1>4. PauseOK => QuietOnlyAtPauses
  BY QuietIsBetweenRuns DEF PauseOK, QuietOnlyAtPauses
<1> QED
  BY <1>1, <1>2, <1>3, <1>4, Invariance, PTL DEF Spec

\* No lost wake-up: an instance at rest at a capability's node has a request out
\* to it whose answer has not been used up, in whatever order answers arrive.
THEOREM NoLostWakeUp ==
  ASSUME OneWorker, MarkKeepsPending
  PROVE  Spec /\ []Undisturbed => []PausedHasOutstandingRequest
<1>1. Init => SerialInv /\ SentOK /\ AskedOK
  BY SerialInit, SentInit DEF Init, AskedOK
<1>2. IInv /\ SerialInv /\ SentOK /\ [Next]_vars => (SerialInv /\ SentOK)'
  BY SerialStep, SentStep
<1>3. IInv /\ SerialInv /\ SentOK /\ Undisturbed /\ Undisturbed' /\ AskedOK /\ [Next]_vars
        => AskedOK'
  BY AskedStep
<1>4. AskedOK => PausedHasOutstandingRequest
  BY QuietIsBetweenRuns DEF AskedOK, PausedHasOutstandingRequest
<1> QED
  BY <1>1, <1>2, <1>3, <1>4, Invariance, PTL DEF Spec

\* A resolution that is late, sent twice or delivered again moves on no instance
\* that waits for a capability, and none that has ended.
THEOREM ResolutionsEndWaits ==
  ASSUME OneWorker, MarkKeepsPending, ConditionsAreTotal, OnlyAnswersEndRequests
  PROVE  Spec /\ []Undisturbed => ResolutionsEndOnlyWaits
<1> DEFINE EndsAWait ==
             \A w \in Worker :
               PutApply(w) /\ ~IsAnswer(w) /\ applied' # applied
                 => Type(checkpoint.next) = "event_wait"
<1>1. Init => SerialInv /\ PauseOK
  BY SerialInit DEF Init, PauseOK
<1>2. IInv /\ SerialInv /\ [Next]_vars => SerialInv'
  BY SerialStep
<1>3. IInv /\ SerialInv /\ Undisturbed /\ Undisturbed' /\ PauseOK /\ [Next]_vars => PauseOK'
  BY PauseStep
<1>4. IInv /\ SerialInv /\ PauseOK /\ [Next]_vars => [EndsAWait]_vars
  <2> SUFFICES ASSUME IInv, SerialInv, PauseOK,
                      NEW w \in Worker, PutApply(w), ~IsAnswer(w), applied' # applied
               PROVE  Type(checkpoint.next) = "event_wait"
    OBVIOUS
  <2>1. Applies(w)
    BY StepEffects DEF Step, Handle, Resume, NoPut, Begins, Marks, Walks, Asks
  <2>2. ~GraphRuns /\ checkpoint # NoCheckpoint /\ checkpoint.next = node[w]
    BY <2>1 DEF Applies, OneWorker, GraphRuns
  <2>3. node[w] \in Node /\ TransitionNode(node[w], "EVENT_WAIT_RESP") # NoNode
    BY <2>1 DEF Applies, HasTransition, TransitionOf
  <2>4. checkpoint.next # NoNode /\ Type(checkpoint.next) # "async_request"
    BY <2>2, <2>3, DefinitionAssumption DEF TransitionNode, OnlyAnswersEndRequests
  <2> QED
    BY <2>2, <2>4 DEF PauseOK
<1> QED
  BY <1>1, <1>2, <1>3, <1>4, Invariance, PTL DEF Spec, ResolutionsEndOnlyWaits

-----------------------------------------------------------------------------
(* Completion, with any number of containers.                              *)

Answered == \E d \in applied : IsReply(d)

Guarded(c, S) ==
  c # NoCheckpoint =>
    /\ c.next \in S \cup {StartNode, NoNode}
    /\ c.ran \in {n \in S : Type(n) # "async_request"} \cup {StartNode}
    /\ c.status # "COMPLETED"

\* Until an answer is applied every checkpoint, and every copy of one that a
\* container holds, is at a node of S and has run none but its own nodes, and no
\* wait has been seen to resolve.
GuardOK(S) ==
  ~Answered =>
    /\ Guarded(checkpoint, S)
    /\ \A w \in Worker : Guarded(mem[w], S)
    /\ \A c \in sent : c.type # "EVENT_WAIT_RESP"

\* A node of S that runs leads to S.
LEMMA GuardedAfter ==
  ASSUME NEW S \in SUBSET Node, RequestsGuard(S),
         NEW c \in Checkpoint, Guarded(c, S), c.next \in Node,
         Type(c.next) # "async_request",
         NEW s \in DataStatus, s # "COMPLETED", NEW e \in BOOLEAN,
         ~EdgeRaises(c.next, s, ErrorReducer(c.isError, e))
  PROVE  Guarded(After(c, s, e), S)
<1>1. c.next \in S
  BY CheckpointFields, DefinitionAssumption DEF Guarded
<1>2. ErrorReducer(c.isError, e) \in BOOLEAN
  BY DEF ErrorReducer, Checkpoint
<1>3. Successor(c.next, s, ErrorReducer(c.isError, e)) \in EdgeTargets(c.next)
  BY <1>2 DEF EdgeTargets, EdgeRaises, Successor
<1>4. Successor(c.next, s, ErrorReducer(c.isError, e)) \in S \cup {NoNode}
  BY <1>1, <1>3 DEF RequestsGuard
<1>5. /\ After(c, s, e).next = Successor(c.next, s, ErrorReducer(c.isError, e))
      /\ After(c, s, e).ran = c.next /\ After(c, s, e).status = s
  BY DEF After, Checkpoint
<1> QED
  BY <1>1, <1>4, <1>5 DEF Guarded

\* Running the graph, while every send succeeds.
LEMMA RunGuarded ==
  ASSUME NEW S \in SUBSET Node, RequestsGuard(S), IInv, NEW w \in Worker,
         Run(w), Guarded(checkpoint, S), Guarded(mem[w], S)
  PROVE  Guarded(checkpoint', S) /\ Guarded(mem'[w], S)
<1> USE DEF IInv
<1>1. /\ pc[w] = "run" /\ mem[w] \in Checkpoint /\ mem[w] # NoCheckpoint
      /\ mem \in [Worker -> Checkpoint \cup {NoCheckpoint}]
      /\ mem[w].status \in DataStatus /\ mem[w].isError \in BOOLEAN
      /\ mem[w].status # "COMPLETED"
  BY RunPuts, CheckpointFields DEF LocalsOK, LocalOK, TypeOK, Guarded
<1>2. ErrorReducer(mem[w].isError, mem[w].isError) = mem[w].isError
  BY <1>1 DEF ErrorReducer
<1>3. ASSUME NEW s \in DataStatus, s # "COMPLETED", NEW e \in BOOLEAN,
             Put(w, After(mem[w], s, e)),
             Type(mem[w].next) \in NodeType \ {"async_request"},
             ~EdgeRaises(mem[w].next, s, ErrorReducer(mem[w].isError, e))
      PROVE  Guarded(checkpoint', S) /\ Guarded(mem'[w], S)
  <2>1. Guarded(After(mem[w], s, e), S)
    BY <1>1, <1>3, GuardedAfter, TypedIsNode
  <2> QED
    BY <1>1, <1>3, <2>1 DEF Put
<1>4. CASE RunStart(w)
  <2>1. Guarded([mem[w] EXCEPT !.next = Definition.entry_point, !.ran = StartNode], S)
    BY <1>1 DEF Guarded, Checkpoint, RequestsGuard
  <2> QED
    BY <1>1, <1>4, <2>1 DEF RunStart, Put
<1>5. CASE RunPassThrough(w)
  BY <1>1, <1>2, <1>3, <1>5 DEF RunPassThrough, Running, NodeType
<1>6. CASE RunSetState(w)
  <2>1. mem[w].next \in Node /\ Type(mem[w].next) \in {"set_state", "end"}
    BY <1>6, TypedIsNode DEF RunSetState, Running, NodeType
  <2>2. mem[w].next \in S
    BY <1>1, <2>1, DefinitionAssumption DEF Guarded
  <2>3. /\ StaticStatus(mem[w].next, mem[w].status) \in DataStatus
        /\ StaticStatus(mem[w].next, mem[w].status) # "COMPLETED"
    BY <1>1, <2>1, <2>2, StaticStatusType DEF StaticStatus, RequestsGuard
  <2> QED
    BY <1>3, <1>6, <2>1, <2>3 DEF RunSetState, NodeType, EdgeRaises
<1>7. CASE RunLogError(w)
  BY <1>1, <1>3, <1>7 DEF RunLogError, Running, NodeType, EdgeRaises
<1>8. CASE RunSyncCall(w)
  BY <1>1, <1>3, <1>8 DEF RunSyncCall, Running, NodeType, EdgeRaises
<1>9. CASE RunAsyncRequest(w) \/ RunRaises(w) \/ RunStops(w)
  BY <1>9 DEF RunAsyncRequest, RunRaises, RunStops, store
<1> QED
  BY <1>4, <1>5, <1>6, <1>7, <1>8, <1>9 DEF Run

\* Whatever containers overwrite, they overwrite it with copies of the same kind.
LEMMA HandleGuarded ==
  ASSUME NEW S \in SUBSET Node, RequestsGuard(S), IInv, SentOK, NEW w \in Worker,
         Step(w), ~RunAsyncFails(w), ~Answered',
         Guarded(checkpoint, S), Guarded(mem[w], S),
         \A c \in sent : c.type # "EVENT_WAIT_RESP"
  PROVE  Guarded(checkpoint', S) /\ Guarded(mem'[w], S)
<1> USE DEF IInv
<1>1. /\ LocalOK(w) /\ mem \in [Worker -> Checkpoint \cup {NoCheckpoint}]
      /\ checkpoint \in Checkpoint \cup {NoCheckpoint}
  BY DEF LocalsOK, TypeOK
<1>2. CASE Receive(w) \/ Finish(w) \/ Fault(w) \/ Crash(w)
  BY <1>1, <1>2 DEF Receive, Finish, Fault, Crash, Forget, store, Guarded
<1>3. CASE LookupTrigger(w) \/ Snapshot(w) \/ Route(w)
  BY <1>3 DEF LookupTrigger, Snapshot, Route, store
<1>4. CASE LoadForStart(w)
  <2>1. Guarded(FreshCheckpoint, S)
    BY DefinitionAssumption DEF FreshCheckpoint, Guarded
  <2>2. checkpoint # NoCheckpoint => Guarded([checkpoint EXCEPT !.next = StartNode], S)
    BY <1>1 DEF Guarded, Checkpoint
  <2> QED
    BY <1>1, <1>4, <2>1, <2>2 DEF LoadForStart, store
<1>5. CASE LoadForMark(w) \/ LoadForApply(w) \/ LoadForInvoke(w)
  BY <1>1, <1>5 DEF LoadForMark, LoadForApply, LoadForInvoke, Load, store
<1>6. CASE PutInput(w)
  BY <1>6 DEF PutInput
<1>7. CASE PutMark(w)
  <2>1. mem[w] \in Checkpoint /\ mem[w] # NoCheckpoint
    BY <1>1, <1>7, CheckpointFields DEF PutMark, LocalOK
  <2>2. mem[w].ran = StartNode \/ EdgeTargets(mem[w].ran) \subseteq S \cup {NoNode}
    BY <1>1, <1>7, <2>1 DEF Guarded, RequestsGuard
  <2>3. PendingAfterMark(mem[w]) \subseteq S \cup {StartNode, NoNode}
    BY <1>1, <1>7, <2>1, <2>2 DEF PendingAfterMark, Guarded, RequestsGuard
  <2>4. Guarded(checkpoint', S)
    BY <1>7, <2>1, <2>3, MarkEffect DEF Guarded
  <2> QED
    BY <1>7, <2>4 DEF PutMark
<1>8. CASE PutApply(w)
  <2>1. job[w].cmd \in sent /\ job[w] \in Delivery /\ job[w].cmd.type # "EVENT"
    BY <1>1, <1>8 DEF PutApply, LocalOK, SentOK, Responding
  <2>2. IsReply(job[w])
    BY <2>1, DeliveryFields, CommandFields DEF IsReply
  <2>3. job[w] \notin applied'
    BY <2>2 DEF Answered, IsReply
  <2> QED
    BY <1>8, <2>3 DEF PutApply
<1>9. CASE Run(w)
  BY <1>9, RunGuarded
<1> QED
  BY <1>2, <1>3, <1>4, <1>5, <1>6, <1>7, <1>8, <1>9 DEF Step, Handle, Resume

\* A failed send shows.
LEMMA FailedSendsShow ==
  ASSUME TypeOK, NoSendFailed, NoSendFailed', NEW w \in Worker
  PROVE  ~RunAsyncFails(w)
<1> SUFFICES ASSUME RunAsyncFails(w)
             PROVE  FALSE
  OBVIOUS
<1>1. disturbed' = [disturbed EXCEPT !["sendfailure"] = @ + 1]
  BY DEF RunAsyncFails, Disturb
<1> QED
  BY <1>1 DEF TypeOK, NoSendFailed, Disturbance

\* No checkpoint leaves S before an answer is applied, but by a failed send.
LEMMA GuardStep ==
  ASSUME NEW S \in SUBSET Node, RequestsGuard(S), IInv, SentOK, GuardOK(S),
         \A w \in Worker : ~RunAsyncFails(w), [Next]_vars
  PROVE  GuardOK(S)'
<1> USE DEF IInv
<1> SUFFICES ASSUME ~Answered'
             PROVE  /\ Guarded(checkpoint', S)
                    /\ \A w \in Worker : Guarded(mem'[w], S)
                    /\ \A c \in sent' : c.type # "EVENT_WAIT_RESP"
  BY DEF GuardOK, Guarded
<1>1. ASSUME ~Answered
      PROVE  /\ Guarded(checkpoint, S)
             /\ \A w \in Worker : Guarded(mem[w], S)
             /\ \A c \in sent : c.type # "EVENT_WAIT_RESP"
  BY <1>1 DEF GuardOK
<1>2. CASE Environment
  <2>1. UNCHANGED <<store, local>> /\ ~Answered
    BY <1>2, SentByEnvironment DEF store, Answered, IsReply
  <2>2. ~OperatorResolves
    BY <1>1, <2>1, DefinitionAssumption
       DEF OperatorResolves, Guarded, RequestsGuard, Type
  <2>3. \A c \in sent' : c.type # "EVENT_WAIT_RESP"
    BY <1>1, <1>2, <2>1, <2>2
       DEF Environment, SendTrigger, Send, CapabilityAnswers, Redeliver, DeadLetter,
           Trigger, Answer
  <2> QED
    BY <1>1, <2>1, <2>3 DEF store, local
<1>3. ASSUME NEW w \in Worker, Step(w)
      PROVE  /\ Guarded(checkpoint', S)
             /\ \A u \in Worker : Guarded(mem'[u], S)
             /\ \A c \in sent' : c.type # "EVENT_WAIT_RESP"
  <2>1. OthersStill(w) /\ sent' = sent /\ ~RunAsyncFails(w)
    BY <1>3, ContainerFrame, QueueEffect
  <2>2. ~Answered
    BY <1>3, HandlerEffect, ReceiveEffect DEF Answered, IsReply
  <2>3. Guarded(checkpoint', S) /\ Guarded(mem'[w], S)
    BY <1>1, <1>3, <2>1, <2>2, HandleGuarded
  <2> QED
    BY <1>1, <2>1, <2>2, <2>3 DEF OthersStill
<1>4. CASE UNCHANGED vars
  BY <1>1, <1>4 DEF vars, store, channel, local, Answered, IsReply
<1> QED
  BY <1>2, <1>3, <1>4 DEF Next, Step

\* However many containers work on an instance, whatever they overwrite and
\* wherever they die: unless a send has failed, no instance is COMPLETED before
\* a capability's answer has been applied to it.
THEOREM CompletionIsAnswered ==
  ASSUME RequestsGuardTheEnd
  PROVE  Spec /\ []NoSendFailed => []CompletionNeedsAnAnswer
<1>1. PICK S \in SUBSET Node : RequestsGuard(S)
  BY DEF RequestsGuardTheEnd
<1>2. Init => SentOK /\ GuardOK(S)
  BY SentInit DEF Init, GuardOK, Guarded
<1>3. IInv /\ SentOK /\ [Next]_vars => SentOK'
  BY SentStep
<1>4. IInv /\ SentOK /\ NoSendFailed /\ NoSendFailed' /\ GuardOK(S) /\ [Next]_vars
        => GuardOK(S)'
  BY <1>1, GuardStep, FailedSendsShow DEF IInv
<1>5. GuardOK(S) => CompletionNeedsAnAnswer
  BY DEF GuardOK, Guarded, Answered, CompletionNeedsAnAnswer
<1> QED
  BY <1>2, <1>3, <1>4, <1>5, Invariance, PTL DEF Spec

-----------------------------------------------------------------------------
(* Completion after a failed send, with one container.                     *)

\* The instance went on without an answer since a send failed, and it says so.
Excused == checkpoint # NoCheckpoint /\ checkpoint.isError /\ ~NoSendFailed

\* Failed sends are not forgotten.
LEMMA FailuresCount ==
  ASSUME TypeOK, [Next]_vars, ~NoSendFailed
  PROVE  ~NoSendFailed'
<1>1. disturbed \in [Disturbance -> Nat] /\ disturbed["sendfailure"] # 0
  BY DEF TypeOK, NoSendFailed
<1>2. \/ disturbed' = disturbed
      \/ \E d \in Disturbance : disturbed' = [disturbed EXCEPT ![d] = @ + 1]
  <2>1. CASE Environment
    BY <2>1 DEF Environment, SendTrigger, Send, CapabilityAnswers, OperatorResolves,
                Redeliver, DeadLetter, Disturb, Disturbance
  <2>2. ASSUME NEW w \in Worker, Step(w)
        PROVE  \/ disturbed' = disturbed
               \/ \E d \in Disturbance : disturbed' = [disturbed EXCEPT ![d] = @ + 1]
    BY <2>2 DEF Step, Handle, Receive, Finish, Fault, Crash, LookupTrigger, LoadForStart,
                PutInput, Resume, Snapshot, LoadForMark, PutMark, Route, LoadForApply,
                PutApply, LoadForInvoke, Load, Run, RunStart, RunPassThrough, RunRaises,
                RunSetState, RunLogError, RunSyncCall, RunAsyncRequest, RunStops, Put,
                RunAsyncFails, Disturb, Disturbance
  <2>3. CASE UNCHANGED vars
    BY <2>3 DEF vars
  <2> QED
    BY <2>1, <2>2, <2>3 DEF Next, Step
<1> QED
  BY <1>1, <1>2 DEF NoSendFailed, Disturbance

\* What is_error returns the reducer never takes back.
LEMMA AfterKeepsErrors ==
  ASSUME NEW c \in Checkpoint, NEW s, NEW e \in BOOLEAN, c.isError \/ e
  PROVE  After(c, s, e).isError
BY DEF After, ErrorReducer, Checkpoint

\* With one container no later checkpoint of an instance loses its error flag.
LEMMA ErrorsStay ==
  ASSUME OneWorker, IInv, SerialInv, [Next]_vars,
         checkpoint # NoCheckpoint, checkpoint.isError
  PROVE  checkpoint'.isError
<1> USE DEF IInv
<1>1. ASSUME NEW w \in Worker, Step(w)
      PROVE  checkpoint'.isError
  <2>1. SerialOK(w) /\ LocalOK(w) /\ checkpoint \in Checkpoint
    BY DEF SerialInv, LocalsOK, TypeOK
  <2>2. CASE PutInput(w)
    BY <2>1, <2>2 DEF PutInput, SerialOK
  <2>3. CASE PutMark(w)
    BY <2>1, <2>3, MarkEffect DEF PutMark, SerialOK
  <2>4. CASE PutApply(w)
    BY <2>1, <2>4 DEF PutApply, SerialOK, Checkpoint
  <2>5. CASE Run(w) \/ RunAsyncFails(w)
    <3>1. mem[w] = checkpoint
      BY <2>1, <2>5, RunPuts DEF SerialOK
    <3>2. CASE UNCHANGED checkpoint
      BY <3>2
    <3>3. CASE RunStart(w)
      BY <2>1, <3>1, <3>3 DEF RunStart, Put, Checkpoint
    <3>4. CASE \E s, e : checkpoint' = After(mem[w], s, e) /\ e \in BOOLEAN
      BY <2>1, <3>1, <3>4, AfterKeepsErrors
    <3>5. checkpoint.isError \in BOOLEAN
      BY <2>1 DEF Checkpoint
    <3> QED
      BY <2>5, <3>1, <3>2, <3>3, <3>4, <3>5
         DEF Run, RunPassThrough, RunRaises, RunSetState, RunLogError, RunSyncCall,
             RunAsyncRequest, RunStops, RunAsyncFails, Put, store
  <2>6. CASE ~(Run(w) \/ RunAsyncFails(w) \/ PutApply(w) \/ PutInput(w) \/ PutMark(w))
    BY <1>1, <2>6
       DEF Step, Handle, Receive, Finish, Fault, Crash, LookupTrigger, LoadForStart,
           Resume, Snapshot, LoadForMark, Route, LoadForApply, LoadForInvoke, Load, store
  <2> QED
    BY <2>2, <2>3, <2>4, <2>5, <2>6
<1>2. CASE Environment
  BY <1>2 DEF Environment, SendTrigger, Send, CapabilityAnswers, OperatorResolves,
              Redeliver, DeadLetter, store
<1>3. CASE UNCHANGED vars
  BY <1>3 DEF vars, store
<1> QED
  BY <1>1, <1>2, <1>3 DEF Next, Step

\* A send that fails leaves its error in the instance.
LEMMA FailedSendExcuses ==
  ASSUME IInv, NEW w \in Worker, RunAsyncFails(w)
  PROVE  Excused'
<1> USE DEF IInv
<1>1. mem[w] \in Checkpoint /\ checkpoint' \in Checkpoint
  <2>1. checkpoint' \in Checkpoint
    BY RunPuts DEF RunAsyncFails, Running
  <2> QED
    BY <2>1 DEF LocalsOK, LocalOK, RunAsyncFails, Running
<1>2. checkpoint' # NoCheckpoint /\ checkpoint'.isError
  BY <1>1, AfterKeepsErrors, OrchestratorAssumption DEF RunAsyncFails
<1>3. ~NoSendFailed'
  BY DEF RunAsyncFails, Disturb, TypeOK, NoSendFailed, Disturbance
<1> QED
  BY <1>2, <1>3 DEF Excused

\* With one container, whatever else is lost, delivered again or fails: an
\* instance COMPLETED without a capability's answer is one whose request could
\* not be sent, and it carries the error.
THEOREM CompletionIsAnsweredOrFailed ==
  ASSUME OneWorker, RequestsGuardTheEnd
  PROVE  Spec => []CompletionNeedsAnAnswer
<1>1. PICK S \in SUBSET Node : RequestsGuard(S)
  BY DEF RequestsGuardTheEnd
<1> DEFINE EInv == SerialInv /\ SentOK /\ (GuardOK(S) \/ Excused)
<1>2. Init => EInv
  BY SerialInit, SentInit DEF Init, GuardOK, Guarded
<1>3. IInv /\ EInv /\ [Next]_vars => EInv'
  <2> SUFFICES ASSUME IInv, EInv, [Next]_vars
               PROVE  EInv'
    OBVIOUS
  <2>1. SerialInv' /\ SentOK'
    BY SerialStep, SentStep
  <2>2. ASSUME NEW w \in Worker, RunAsyncFails(w)
        PROVE  Excused'
    BY <2>2, FailedSendExcuses
  <2>3. CASE GuardOK(S) /\ \A w \in Worker : ~RunAsyncFails(w)
    BY <1>1, <2>1, <2>3, GuardStep
  <2>4. CASE Excused
    <3>1. checkpoint' # NoCheckpoint
      <4>1. [checkpoint # NoCheckpoint => checkpoint' # NoCheckpoint]_vars
        BY SerialStep
      <4> QED
        BY <2>4, <4>1 DEF Excused, vars, store
    <3>2. checkpoint'.isError
      BY <2>4, ErrorsStay DEF Excused
    <3>3. ~NoSendFailed'
      BY <2>4, FailuresCount DEF Excused, IInv
    <3> QED
      BY <2>1, <3>1, <3>2, <3>3 DEF Excused
  <2> QED
    BY <2>1, <2>2, <2>3, <2>4
<1>4. EInv => CompletionNeedsAnAnswer
  BY DEF GuardOK, Guarded, Answered, Excused, CompletionNeedsAnAnswer
<1> QED
  BY <1>2, <1>3, <1>4, Invariance, PTL DEF Spec

=============================================================================
