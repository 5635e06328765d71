------------------------ MODULE EventPublication_proofs ------------------------
(***************************************************************************)
(* Theorems about EventPublication, for every definition, every number of  *)
(* containers and every bound.                                             *)
(***************************************************************************)
EXTENDS EventPublication, Orchestrator_proofs

-----------------------------------------------------------------------------
(* Publishing does not change what the service does.                       *)

LEMMA EveryStepIsAStep == ENext => [Next]_vars
<1> SUFFICES ASSUME ENext PROVE [Next]_vars
  OBVIOUS
<1>1. CASE Environment
  BY <1>1 DEF Next
<1>2. ASSUME NEW w \in Worker,
             \/ StartAnnounced(w) \/ EndAnnounced(w) \/ LoadShown(w)
             \/ PutShown(w) \/ RunAnnounced(w) \/ Silent(w)
      PROVE  Next
  <2>1. Step(w)
    BY <1>2 DEF StartAnnounced, EndAnnounced, LoadShown, PutShown, RunAnnounced, Silent,
                Step, Handle, Resume
  <2> QED
    BY <2>1 DEF Next, Step
<1> QED
  BY <1>1, <1>2 DEF ENext

\* An instance that publishes its events behaves as Orchestrator says: whatever
\* is proved of the service holds of the service with its publisher.
THEOREM PublishingIsTransparent == ESpec => Spec
<1>1. EInit => Init
  BY DEF EInit
<1>2. [ENext]_evars => [Next]_vars
  BY EveryStepIsAStep DEF evars
<1> QED
  BY <1>1, <1>2, PTL DEF ESpec, Spec

-----------------------------------------------------------------------------
(* Types.                                                                  *)

LEMMA EventTypeInit == EInit => EventTypeOK
  BY DEF EInit, EventTypeOK, Target

\* Only the types of Significant are announced.
LEMMA PutEventsType ==
  ASSUME NEW n
  PROVE  PutEvents(n) \subseteq [kind : Kind, node : Node]
<1>1. Type(n) \in {"end", "event_wait"} => n \in Node
  BY TypedIsNode DEF NodeType
<1> QED
  BY <1>1 DEF PutEvents, Event, Kind

LEMMA GuardType ==
  ASSUME NEW w, NEW n
  PROVE  Guard(w, n) \subseteq [kind : Kind, node : Node]
<1>1. Type(n) = "event_wait" => n \in Node
  BY TypedIsNode DEF NodeType
<1> QED
  BY <1>1 DEF Guard, Event, Kind

LEMMA EventTypeStep ==
  ASSUME IInv, EventTypeOK, [ENext]_evars
  PROVE  EventTypeOK'
<1> DEFINE AnEvent == [kind : Kind, node : Node]
<1>t. /\ shown \in Target /\ seen \in [Worker -> Target] /\ announced \subseteq AnEvent
      /\ promise \subseteq Node /\ ended \subseteq 1..MaxRequests
      /\ NoNode \in Target /\ Node \subseteq Target
  BY DEF EventTypeOK, Target
<1> HIDE DEF AnEvent
<1>e. ASSUME shown' \in Target, seen' \in [Worker -> Target], announced' \subseteq AnEvent,
             promise' \subseteq Node, ended' \subseteq 1..MaxRequests
      PROVE  EventTypeOK'
  BY <1>e DEF EventTypeOK, AnEvent
<1>1. CASE UNCHANGED events
  BY <1>t, <1>e, <1>1 DEF events
<1>2. ASSUME NEW w \in Worker, StartAnnounced(w) PROVE EventTypeOK'
  <2>1. promise' \subseteq Node /\ announced' \subseteq AnEvent
    BY <1>t, <1>2, DefinitionAssumption DEF StartAnnounced
  <2> QED
    BY <1>t, <1>e, <1>2, <2>1 DEF StartAnnounced
<1>3. ASSUME NEW w \in Worker, EndAnnounced(w) PROVE EventTypeOK'
  <2>1. CASE pc'[w] = "apply"
    <3>1. pc[w] = "route" /\ HasTransition(w) /\ job[w] \in Delivery
      BY <1>3, <2>1 DEF EndAnnounced, Route, RouteTo, Goto, IInv, TypeOK, LocalsOK, LocalOK
    <3>2. IsAnswer(w) => ReplyKey(w) \in 1..MaxRequests
      BY <3>1, DeliveryFields, CommandFields DEF IsAnswer, ReplyKey
    <3>3. TransitionOf(w) \in Node
      BY <3>1, TransitionType DEF HasTransition, TransitionOf, Target
    <3>4. AnnouncedSteps(w) \subseteq Node
      BY <3>3 DEF AnnouncedSteps, compute_next_steps
    <3> QED
      BY <1>t, <1>e, <1>3, <2>1, <3>2, <3>4 DEF EndAnnounced
  <2>2. CASE pc'[w] # "apply"
    BY <1>t, <1>e, <1>3, <2>2 DEF EndAnnounced
  <2> QED
    BY <2>1, <2>2
<1>4. ASSUME NEW w \in Worker, LoadShown(w) PROVE EventTypeOK'
  BY <1>t, <1>e, <1>4 DEF LoadShown
<1>5. ASSUME NEW w \in Worker, PutShown(w) PROVE EventTypeOK'
  <2>1. seen[w] \in Target
    BY <1>t
  <2>2. shown' \in Target /\ announced' \subseteq AnEvent
    BY <1>t, <1>5, <2>1, PutEventsType DEF PutShown, AnEvent
  <2> QED
    BY <1>t, <1>e, <1>5, <2>2 DEF PutShown
<1>6. ASSUME NEW w \in Worker, RunAnnounced(w) PROVE EventTypeOK'
  <2> DEFINE n == mem[w].next
             current == IF n \in Node THEN n ELSE seen[w]
             racing == Racing(current, mem'[w])
             request == IF Type(n) = "async_request" THEN {Event("AsyncRequestStarted", n)}
                                                      ELSE {}
  <2>1. /\ seen' = [seen EXCEPT ![w] = current]
        /\ promise' = IF Significant(n) THEN {} ELSE promise
        /\ ended' = ended
        /\ \/ Announce(request) /\ shown' = current
           \/ \E saved, published \in Moments(racing) :
                /\ shown' = racing[saved]
                /\ Announce(request \cup PutEvents(racing[published]))
           \/ /\ Announce(request \cup IF RunRaises(w) THEN {} ELSE Guard(w, current))
              /\ UNCHANGED shown
    BY <1>6 DEF RunAnnounced
  <2>2. current \in Target
    BY <1>t
  <2>3. request \subseteq AnEvent
    <3>1. Type(n) = "async_request" => n \in Node
      BY TypedIsNode DEF NodeType
    <3> QED
      BY <3>1 DEF AnEvent, Event, Kind
  <2> HIDE DEF n, current, racing, request
  <2>4. seen' \in [Worker -> Target] /\ promise' \subseteq Node /\ ended' \subseteq 1..MaxRequests
    BY <1>t, <2>1, <2>2
  <2>5. shown' \in Target /\ announced' \subseteq AnEvent
    <3>1. CASE Announce(request) /\ shown' = current
      BY <1>t, <2>2, <2>3, <3>1 DEF Announce
    <3>2. CASE \E saved, published \in Moments(racing) :
                 /\ shown' = racing[saved]
                 /\ Announce(request \cup PutEvents(racing[published]))
      <4>1. PICK saved \in Moments(racing), published \in Moments(racing) :
              /\ shown' = racing[saved]
              /\ Announce(request \cup PutEvents(racing[published]))
        BY <3>2
      <4>2. racing[saved] \in Node
        BY <4>1 DEF Moments
      <4>3. PutEvents(racing[published]) \subseteq AnEvent
        BY PutEventsType DEF AnEvent
      <4> QED
        BY <1>t, <2>3, <4>1, <4>2, <4>3 DEF Announce
    <3>3. CASE /\ Announce(request \cup IF RunRaises(w) THEN {} ELSE Guard(w, current))
               /\ UNCHANGED shown
      <4>1. Guard(w, current) \subseteq AnEvent
        BY GuardType DEF AnEvent
      <4> QED
        BY <1>t, <2>3, <3>3, <4>1 DEF Announce
    <3> QED
      BY <2>1, <3>1, <3>2, <3>3
  <2> QED
    BY <1>e, <2>4, <2>5
<1>7. ASSUME NEW w \in Worker, Silent(w) PROVE EventTypeOK'
  BY <1>t, <1>e, <1>7 DEF Silent
<1> QED
  BY <1>1, <1>2, <1>3, <1>4, <1>5, <1>6, <1>7 DEF ENext, evars

LEMMA ServiceInvariance == ESpec => []IInv
  BY PublishingIsTransparent, Invariance, PTL

\* No event of another type is published, and none that names no node of the
\* definition (event_publishing_checkpointer.py:58-103).
THEOREM EventTypeCorrect == ESpec => []EventTypeOK
<1>1. IInv /\ EventTypeOK /\ [ENext]_evars => EventTypeOK'
  BY EventTypeStep
<1> QED
  BY <1>1, EventTypeInit, ServiceInvariance, PTL DEF ESpec

-----------------------------------------------------------------------------
(* The end of a request.                                                   *)

\* What has been announced as ended is on record, and a container on its way to
\* announce an end has found it not on record.
EndedOK ==
  /\ ended # {} => checkpoint # NoCheckpoint /\ ended \subseteq checkpoint.replies
  /\ \A w \in Worker :
       pc[w] \in {"mark", "markput", "route"} /\ IsAnswer(w) => ReplyKey(w) \notin ended

LEMMA EndedStep ==
  ASSUME OneWorker, IInv, SerialInv, EndedOK, [ENext]_evars
  PROVE  EndedOK'
<1>1. /\ checkpoint # NoCheckpoint =>
           checkpoint' # NoCheckpoint /\ checkpoint.replies \subseteq checkpoint'.replies
  <2>1. [Next]_vars
    BY EveryStepIsAStep DEF evars
  <2> QED
    BY <2>1, SerialStep DEF vars, store
<1>2. ASSUME ended' = ended,
             \A w \in Worker : pc'[w] \in {"mark", "markput", "route"} =>
               job'[w] = job[w] /\ (\/ pc[w] \in {"mark", "markput", "route"}
                                    \/ IsAnswer(w) => ReplyKey(w) \notin ended)
      PROVE  EndedOK'
  BY <1>1, <1>2 DEF EndedOK, IsAnswer, ReplyKey
<1>3. CASE UNCHANGED evars \/ (Environment /\ UNCHANGED events)
  <2>1. ended' = ended /\ UNCHANGED <<pc, job>>
    BY <1>3 DEF evars, vars, events, local, Environment, SendTrigger, Send,
                CapabilityAnswers, OperatorResolves, Redeliver, DeadLetter
  <2> QED
    BY <1>2, <2>1
<1>4. ASSUME NEW w \in Worker,
             \/ StartAnnounced(w) \/ EndAnnounced(w) \/ LoadShown(w)
             \/ PutShown(w) \/ RunAnnounced(w) \/ Silent(w)
      PROVE  EndedOK'
  <2>w. \A u \in Worker : u = w
    BY DEF OneWorker
  <2>p. pc \in [Worker -> PC]
    BY DEF IInv, TypeOK
  <2>1. CASE EndAnnounced(w)
    <3>1. /\ pc[w] = "route" /\ pc'[w] \in {"apply", "finish"} /\ UNCHANGED <<checkpoint, job>>
          /\ ended' = ended \/ (IsAnswer(w) /\ ended' = ended \cup {ReplyKey(w)})
      BY <2>p, <2>1 DEF EndAnnounced, Route, RouteTo, Goto, store
    <3>2. IsAnswer(w) => ReplyKey(w) \in checkpoint.replies
      BY <3>1 DEF SerialInv, SerialOK
    <3>3. checkpoint # NoCheckpoint
      BY <3>1 DEF IInv, LocalsOK, LocalOK
    <3> QED
      BY <2>w, <3>1, <3>2, <3>3 DEF EndedOK
  <2>2. CASE Silent(w) /\ Snapshot(w)
    <3>1. /\ ended' = ended /\ job' = job
          /\ \/ pc'[w] = "finish"
             \/ ~ (IsAnswer(w) /\ ReplyKey(w) \in checkpoint.replies)
      BY <2>p, <2>2 DEF Silent, Snapshot, AlreadyProcessed, Goto
    <3>2. \A r \in ended : r \in checkpoint.replies
      BY DEF EndedOK
    <3> QED
      BY <1>2, <2>w, <3>1, <3>2
  <2>3. CASE (LoadShown(w) /\ LoadForMark(w)) \/ (PutShown(w) /\ PutMark(w))
    <3>1. ended' = ended /\ job' = job /\ pc[w] \in {"mark", "markput"}
      BY <2>3 DEF LoadShown, LoadForMark, Load, PutShown, PutMark
    <3> QED
      BY <1>2, <2>w, <3>1
  <2>4. CASE \/ StartAnnounced(w) \/ RunAnnounced(w)
             \/ LoadShown(w) /\ ~ LoadForMark(w)
             \/ PutShown(w) /\ ~ PutMark(w)
             \/ Silent(w) /\ ~ Snapshot(w)
    <3>1. ended' = ended
      BY <2>4 DEF StartAnnounced, RunAnnounced, LoadShown, PutShown, Silent
    <3>2. CASE StartAnnounced(w)
      <4>1. pc'[w] \in {"start", "finish"}
        BY <2>p, <3>2 DEF StartAnnounced, LookupTrigger, Goto
      <4> QED
        BY <1>2, <2>w, <3>1, <4>1
    <3>3. CASE RunAnnounced(w)
      <4>1. pc'[w] \in {"run", "finish"}
        BY <3>3 DEF RunAnnounced
      <4> QED
        BY <1>2, <2>w, <3>1, <4>1
    <3>4. CASE LoadShown(w) /\ ~ LoadForMark(w)
      <4>1. pc'[w] \in {"input", "applyput", "run"}
        BY <2>p, <3>4 DEF LoadShown, LoadForStart, LoadForApply, LoadForInvoke, Load, Goto
      <4> QED
        BY <1>2, <2>w, <3>1, <4>1
    <3>5. CASE PutShown(w) /\ ~ PutMark(w)
      <4>1. pc'[w] \in {"run", "finish", "invoke"}
        BY <2>p, <3>5 DEF PutShown, PutInput, PutApply, Goto
      <4> QED
        BY <1>2, <2>w, <3>1, <4>1
    <3>6. CASE Silent(w) /\ ~ Snapshot(w)
      <4>1. pc'[w] \in {"lookup", "snapshot", "idle"}
        BY <2>p, <3>6 DEF Silent, Receive, Finish, Fault, Crash, Forget, Goto
      <4> QED
        BY <1>2, <2>w, <3>1, <4>1
    <3> QED
      BY <2>4, <3>2, <3>3, <3>4, <3>5, <3>6
  <2> QED
    BY <1>4, <2>1, <2>2, <2>3, <2>4
<1> QED
  BY <1>3, <1>4 DEF ENext

\* When one container handles the instance's commands the end of a request is
\* announced once: AsyncRequestEnded is published after the reply is on record
\* (service.py:363), and a reply on record never gets that far again.
THEOREM AnnouncedOnce ==
  ASSUME OneWorker
  PROVE  ESpec => EndOfRequestAnnouncedOnce
<1>1. EInit => SerialInv /\ EndedOK
  BY SerialInit DEF EInit, Init, EndedOK
<1>2. IInv /\ SerialInv /\ [ENext]_evars => SerialInv'
  <2> SUFFICES ASSUME IInv, SerialInv, [ENext]_evars PROVE SerialInv'
    OBVIOUS
  <2>1. [Next]_vars
    BY EveryStepIsAStep DEF evars
  <2> QED
    BY <2>1, SerialStep
<1>3. IInv /\ SerialInv /\ EndedOK /\ [ENext]_evars => EndedOK'
  BY EndedStep
<1>4. EndedOK => [\A w \in Worker :
                    Route(w) /\ pc'[w] = "apply" /\ IsAnswer(w) => ReplyKey(w) \notin ended]_evars
  BY DEF EndedOK, Route
<1> QED
  BY <1>1, <1>2, <1>3, <1>4, ServiceInvariance, PTL DEF ESpec, EndOfRequestAnnouncedOnce

-----------------------------------------------------------------------------
(* Instances at rest have announced where they are.                        *)

EStep(w) ==
  \/ StartAnnounced(w) \/ EndAnnounced(w) \/ LoadShown(w)
  \/ PutShown(w) \/ RunAnnounced(w) \/ Silent(w)

LEMMA EStepIsStep ==
  ASSUME NEW w \in Worker, EStep(w)
  PROVE  Step(w)
BY DEF EStep, StartAnnounced, EndAnnounced, LoadShown, PutShown, RunAnnounced, Silent,
       Step, Handle, Resume

\* Disturbances are never forgotten.
LEMMA DisturbanceStays ==
  ASSUME TypeOK, [Next]_vars, Undisturbed'
  PROVE  Undisturbed
<1>1. \/ disturbed' = disturbed
      \/ \E d \in Disturbance : disturbed' = [disturbed EXCEPT ![d] = @ + 1]
  <2>1. CASE Environment
    BY <2>1 DEF Environment, SendTrigger, Send, CapabilityAnswers, OperatorResolves,
                Redeliver, DeadLetter, Disturb, Disturbance
  <2>2. ASSUME NEW w \in Worker, Step(w)
        PROVE  \/ disturbed' = disturbed
               \/ \E d \in Disturbance : disturbed' = [disturbed EXCEPT ![d] = @ + 1]
    <3>1. CASE Fault(w) \/ Crash(w) \/ RunAsyncFails(w)
      BY <3>1 DEF Fault, Crash, RunAsyncFails, Disturb, Disturbance
    <3>2. CASE Receive(w) \/ LookupTrigger(w) \/ LoadForStart(w) \/ PutInput(w) \/ Finish(w)
      BY <3>2 DEF Receive, LookupTrigger, LoadForStart, PutInput, Finish
    <3>3. CASE Resume(w)
      BY <3>3 DEF Resume, Snapshot, LoadForMark, PutMark, Route, LoadForApply, PutApply,
                  LoadForInvoke, Load
    <3>4. CASE Run(w)
      BY <3>4 DEF Run, RunStart, RunPassThrough, RunRaises, RunSetState, RunLogError,
                  RunSyncCall, RunAsyncRequest, RunStops, Put
    <3> QED
      BY <2>2, <3>1, <3>2, <3>3, <3>4 DEF Step, Handle
  <2> QED
    BY <2>1, <2>2 DEF Next, Step, vars
<1> QED
  BY <1>1 DEF TypeOK, Undisturbed, Disturbance

\* A definition whose paths end at end nodes raises nowhere.
LEMMA PathsAreTotal ==
  ASSUME PathsEndAtEnds
  PROVE  ConditionsAreTotal
BY DEF PathsEndAtEnds, ConditionsAreTotal, EdgeRaises, Successor

\* The trigger's container runs the graph among the nodes of R.
TriggerOK(R) ==
  \A w \in Worker :
    /\ pc[w] = "input" => mem[w] = FreshCheckpoint
    /\ pc[w] = "run" /\ job[w].cmd.type = "EVENT" =>
         \/ mem[w].next = StartNode /\ mem[w].status = NoStatus
         \/ <<mem[w].next, mem[w].status>> \in R

\* One superstep of a trigger's run.
LEMMA TriggerRuns ==
  ASSUME NEW R, TriggersMeetNoWait(R), IInv, NEW w \in Worker, Run(w) \/ RunAsyncFails(w),
         pc'[w] = "run",
         \/ mem[w].next = StartNode /\ mem[w].status = NoStatus
         \/ <<mem[w].next, mem[w].status>> \in R
  PROVE  <<mem'[w].next, mem'[w].status>> \in R
<1> USE DEF IInv
<1>1. /\ pc[w] = "run" /\ mem[w] \in Checkpoint /\ mem[w].status \in DataStatus
      /\ mem \in [Worker -> Checkpoint \cup {NoCheckpoint}]
      /\ pc \in [Worker -> PC]
  BY RunPuts, CheckpointFields DEF LocalsOK, LocalOK, TypeOK
<1>2. ASSUME mem[w].next \in Node, NEW e \in BOOLEAN,
             mem' = [mem EXCEPT ![w] = After(mem[w], StatusAfter(mem[w].next, mem[w].status), e)]
      PROVE  <<mem'[w].next, mem'[w].status>> \in R
  <2>1. <<mem[w].next, mem[w].status>> \in R
    BY <1>2, DefinitionAssumption
  <2>2. ErrorReducer(mem[w].isError, e) \in BOOLEAN
    BY <1>1 DEF ErrorReducer, Checkpoint
  <2>3. <<Successor(mem[w].next, StatusAfter(mem[w].next, mem[w].status),
                    ErrorReducer(mem[w].isError, e)),
          StatusAfter(mem[w].next, mem[w].status)>> \in R
    BY <1>1, <1>2, <2>1, <2>2 DEF TriggersMeetNoWait
  <2>4. /\ mem'[w].next = Successor(mem[w].next, StatusAfter(mem[w].next, mem[w].status),
                                    ErrorReducer(mem[w].isError, e))
        /\ mem'[w].status = StatusAfter(mem[w].next, mem[w].status)
    BY <1>1, <1>2 DEF After, Checkpoint
  <2> QED
    BY <2>3, <2>4
<1>3. CASE RunStart(w)
  <2>1. mem[w].next = StartNode /\ StartNode \notin Target
    BY <1>3, DefinitionAssumption DEF RunStart, Target
  <2>2. mem[w].status = NoStatus
    BY <2>1 DEF TriggersMeetNoWait
  <2>3. mem'[w] = [mem[w] EXCEPT !.next = Definition.entry_point, !.ran = StartNode]
    BY <1>1, <1>3 DEF RunStart, Put
  <2> QED
    BY <1>1, <2>2, <2>3 DEF Checkpoint, TriggersMeetNoWait
<1>4. CASE RunPassThrough(w) \/ RunLogError(w) \/ RunSyncCall(w) \/ RunAsyncFails(w)
  <2>1. Type(mem[w].next) \in NodeType \ {"set_state", "end"}
    BY <1>4 DEF RunPassThrough, RunLogError, RunSyncCall, RunAsyncFails, Running, NodeType
  <2>2. mem[w].next \in Node /\ StatusAfter(mem[w].next, mem[w].status) = mem[w].status
    BY <2>1, TypedIsNode DEF StatusAfter
  <2>3. \E e \in BOOLEAN : mem' = [mem EXCEPT ![w] = After(mem[w], mem[w].status, e)]
    BY <1>1, <1>4, CheckpointFields
       DEF RunPassThrough, RunLogError, RunSyncCall, RunAsyncFails, Put
  <2> QED
    BY <1>2, <2>2, <2>3
<1>5. CASE RunSetState(w)
  <2>1. Type(mem[w].next) \in {"set_state", "end"} /\ mem[w].next \in Node
    BY <1>5, TypedIsNode DEF RunSetState, Running, NodeType
  <2> QED
    BY <1>2, <1>5, <2>1 DEF RunSetState, Put, StatusAfter
<1>6. CASE RunAsyncRequest(w) \/ RunRaises(w) \/ RunStops(w)
  BY <1>1, <1>6 DEF RunAsyncRequest, RunRaises, RunStops, Goto
<1> QED
  BY <1>3, <1>4, <1>5, <1>6 DEF Run

\* A trigger starts the instance afresh, and no response interferes.
LEMMA TriggerStep ==
  ASSUME NEW R, TriggersMeetNoWait(R), IInv, SerialInv, TriggerOK(R), [Next]_vars
  PROVE  TriggerOK(R)'
<1> USE DEF IInv
<1>1. CASE UNCHANGED local
  BY <1>1 DEF local, TriggerOK
<1>2. ASSUME NEW w \in Worker, Step(w)
      PROVE  TriggerOK(R)'
  <2>1. OthersStill(w) /\ LocalOK(w) /\ SerialOK(w)
    BY <1>2, ContainerFrame DEF LocalsOK, SerialInv
  <2>2. SUFFICES
          /\ pc'[w] = "input" => mem'[w] = FreshCheckpoint
          /\ pc'[w] = "run" /\ job'[w].cmd.type = "EVENT" =>
               \/ mem'[w].next = StartNode /\ mem'[w].status = NoStatus
               \/ <<mem'[w].next, mem'[w].status>> \in R
    BY <2>1 DEF TriggerOK, OthersStill
  <2>3. /\ pc \in [Worker -> PC] /\ mem \in [Worker -> Checkpoint \cup {NoCheckpoint}]
    BY DEF TypeOK
  <2>4. CASE Receive(w) \/ Finish(w) \/ Fault(w) \/ Crash(w) \/ LookupTrigger(w)
    BY <2>3, <2>4 DEF Receive, Finish, Fault, Crash, Forget, LookupTrigger, Goto
  <2>5. CASE LoadForStart(w)
    BY <2>1, <2>3, <2>5 DEF LoadForStart, Goto, SerialOK
  <2>6. CASE PutInput(w)
    <3>1. mem'[w] = FreshCheckpoint /\ pc'[w] = "run"
      BY <2>3, <2>6 DEF PutInput, Goto, TriggerOK
    <3> QED
      BY <3>1 DEF FreshCheckpoint
  <2>7. CASE Resume(w)
    BY <2>1, <2>3, <2>7
       DEF Resume, Snapshot, LoadForMark, PutMark, Route, RouteTo, LoadForApply,
           PutApply, LoadForInvoke, Load, Goto, LocalOK, Responding
  <2>8. CASE Run(w) \/ RunAsyncFails(w)
    <3>1. pc[w] = "run" /\ job' = job /\ pc'[w] \in {"run", "finish"}
      BY <2>8, RunPuts
    <3> QED
      BY <2>8, <3>1, TriggerRuns DEF TriggerOK
  <2> QED
    BY <1>2, <2>4, <2>5, <2>6, <2>7, <2>8 DEF Step, Handle
<1>3. CASE Environment
  BY <1>1, <1>3 DEF Environment, SendTrigger, Send, CapabilityAnswers,
                    OperatorResolves, Redeliver, DeadLetter
<1>4. CASE UNCHANGED vars
  BY <1>1, <1>4 DEF vars
<1> QED
  BY <1>2, <1>3, <1>4 DEF Next, Step

\* Where the instance has come to is announced.
AnnouncedOK ==
  checkpoint # NoCheckpoint =>
    /\ checkpoint.next = NoNode => \E e \in announced : e.kind = "WorkflowStateEnded"
    /\ ~GraphRuns /\ Type(checkpoint.next) = "async_request" =>
         Event("AsyncRequestStarted", checkpoint.next) \in announced
    /\ ~GraphRuns /\ Type(checkpoint.next) = "event_wait" =>
         Event("EventWaitStarted", checkpoint.next) \in announced

\* A response that is applied continues from the transition of a pause.
LEMMA AppliesATransition ==
  ASSUME OneWorker, MarkKeepsPending, IInv, SerialInv, PauseOK,
         NEW w \in Worker, PutApply(w)
  PROVE  /\ TransitionOf(w) \in Node /\ TransitionOf(w) \in Transitions
         /\ mem[w] = checkpoint /\ checkpoint \in Checkpoint /\ node[w] = checkpoint.next
         /\ job[w].cmd.status \in DataStatus
<1> USE DEF IInv
<1>1. /\ LocalOK(w) /\ SerialOK(w) /\ pc[w] = "applyput"
  BY DEF PutApply, SerialInv, LocalsOK
<1>2. /\ mem[w] = checkpoint /\ checkpoint \in Checkpoint /\ node[w] = checkpoint.next
      /\ HasTransition(w) /\ job[w] \in Delivery /\ job[w].cmd.type # "EVENT"
      /\ checkpoint # NoCheckpoint
  BY <1>1 DEF SerialOK, LocalOK, Responding
<1>3. ~GraphRuns
  BY <1>1 DEF OneWorker, GraphRuns, GraphPC
<1>4. node[w] \in Node /\ TransitionOf(w) # NoNode
  BY <1>2 DEF HasTransition
<1>5. Type(node[w]) \in {"async_request", "event_wait"}
  BY <1>2, <1>3, <1>4, DefinitionAssumption DEF PauseOK
<1>6. job[w].cmd.type \in {"ASYNC_RESP", "EVENT_WAIT_RESP"} /\ job[w].cmd.status \in DataStatus
  BY <1>2, DeliveryFields, CommandFields
<1>7. TransitionOf(w) \in Node
  BY <1>4, TransitionType DEF TransitionOf, Target
<1>8. TransitionOf(w) \in Transitions
  BY <1>4, <1>5, <1>6 DEF Transitions, TransitionOf
<1> QED
  BY <1>2, <1>6, <1>7, <1>8

\* What is announced stays announced while a graph runs.
LEMMA RunAnnounces ==
  ASSUME NEW w \in Worker, RunAnnounced(w)
  PROVE  /\ announced \subseteq announced'
         /\ Type(mem[w].next) = "async_request" =>
              Event("AsyncRequestStarted", mem[w].next) \in announced'
         /\ pc'[w] = "finish" /\ ~RunRaises(w) /\ mem[w].next \in Node =>
              Guard(w, mem[w].next) \subseteq announced'
<1> DEFINE n == mem[w].next
           current == IF n \in Node THEN n ELSE seen[w]
           racing == Racing(current, mem'[w])
           request == IF Type(n) = "async_request" THEN {Event("AsyncRequestStarted", n)}
                                                    ELSE {}
<1>1. \/ pc'[w] = "run" /\ Announce(request)
      \/ /\ pc'[w] = "run"
         /\ \E published \in Moments(racing) :
              Announce(request \cup PutEvents(racing[published]))
      \/ /\ pc'[w] = "finish"
         /\ Announce(request \cup IF RunRaises(w) THEN {} ELSE Guard(w, current))
  BY DEF RunAnnounced
<1>2. Type(n) = "async_request" => Event("AsyncRequestStarted", n) \in request
  OBVIOUS
<1>3. n \in Node => current = n
  OBVIOUS
<1> HIDE DEF n, current, racing, request
<1>4. /\ announced \subseteq announced' /\ request \subseteq announced'
      /\ pc'[w] = "finish" /\ ~RunRaises(w) => Guard(w, current) \subseteq announced'
  BY <1>1 DEF Announce
<1> QED
  BY <1>2, <1>3, <1>4 DEF n

\* An end node that runs, and leaves nothing to run, is announced as the end.
LEMMA EndIsPublished ==
  ASSUME NEW w \in Worker, RunAnnounced(w), pc'[w] = "run", mem[w].next \in Node,
         Type(mem[w].next) = "end", mem'[w].next = NoNode
  PROVE  \E e \in announced' : e.kind = "WorkflowStateEnded"
<1> DEFINE n == mem[w].next
           racing == Racing(n, mem'[w])
<1>1. racing = <<n, NoNode, NoNode>>
  BY DefinitionAssumption DEF Racing, Type
<1>2. Moments(racing) = {1}
  <2>1. \A i \in 1..3 : i = 1 \/ i = 2 \/ i = 3
    OBVIOUS
  <2>2. racing[1] = n /\ racing[2] = NoNode /\ racing[3] = NoNode
    BY <1>1
  <2> HIDE DEF racing
  <2> QED
    BY <2>1, <2>2, DefinitionAssumption DEF Moments
<1>3. PICK published \in Moments(racing) :
        announced' = announced \cup ({} \cup PutEvents(racing[published]))
  BY <1>2 DEF RunAnnounced, Announce
<1>4. PutEvents(n) \subseteq announced'
  BY <1>1, <1>2, <1>3
<1>5. Event("WorkflowStateEnded", n) \in announced'
  BY <1>4 DEF PutEvents
<1> QED
  BY <1>5 DEF Event

\* A superstep follows an edge of the graph.
LEMMA RunFollowsEdges ==
  ASSUME IInv, NEW w \in Worker, Run(w) \/ RunAsyncFails(w), pc'[w] = "run"
  PROVE  \/ mem[w].next = StartNode /\ mem'[w].next = Definition.entry_point
         \/ /\ mem[w].next \in Node /\ Type(mem[w].next) # "event_wait"
            /\ \E s \in DataStatus, e \in BOOLEAN :
                 mem'[w].next = Successor(mem[w].next, s, e)
<1> USE DEF IInv
<1>1. /\ pc[w] = "run" /\ mem[w] \in Checkpoint /\ mem[w].status \in DataStatus
      /\ mem \in [Worker -> Checkpoint \cup {NoCheckpoint}] /\ mem[w].isError \in BOOLEAN
      /\ pc \in [Worker -> PC]
  BY RunPuts, CheckpointFields DEF LocalsOK, LocalOK, TypeOK
<1>2. ASSUME NEW s \in DataStatus, NEW e \in BOOLEAN,
             mem' = [mem EXCEPT ![w] = After(mem[w], s, e)],
             Type(mem[w].next) \in NodeType \ {"event_wait"}
      PROVE  /\ mem[w].next \in Node /\ Type(mem[w].next) # "event_wait"
             /\ \E t \in DataStatus, f \in BOOLEAN :
                  mem'[w].next = Successor(mem[w].next, t, f)
  <2>1. ErrorReducer(mem[w].isError, e) \in BOOLEAN
    BY <1>1 DEF ErrorReducer
  <2>2. mem'[w].next = Successor(mem[w].next, s, ErrorReducer(mem[w].isError, e))
    BY <1>1, <1>2 DEF After, Checkpoint
  <2> QED
    BY <1>2, <2>1, <2>2, TypedIsNode
<1>3. CASE RunStart(w)
  BY <1>1, <1>3 DEF RunStart, Put, Checkpoint
<1>4. CASE RunPassThrough(w) \/ RunLogError(w) \/ RunSyncCall(w) \/ RunAsyncFails(w)
  BY <1>1, <1>2, <1>4
     DEF RunPassThrough, RunLogError, RunSyncCall, RunAsyncFails, Running, Put, NodeType
<1>5. CASE RunSetState(w)
  <2>1. mem[w].next \in Node /\ Type(mem[w].next) \in {"set_state", "end"}
    BY <1>5, TypedIsNode DEF RunSetState, Running, NodeType
  <2>2. StaticStatus(mem[w].next, mem[w].status) \in DataStatus
    BY <1>1, <2>1, StaticStatusType
  <2> QED
    BY <1>2, <1>5, <2>1, <2>2 DEF RunSetState, Put, NodeType
<1>6. CASE RunAsyncRequest(w) \/ RunRaises(w) \/ RunStops(w)
  BY <1>1, <1>6 DEF RunAsyncRequest, RunRaises, RunStops, Goto
<1> QED
  BY <1>3, <1>4, <1>5, <1>6 DEF Run

\* Nothing is left to run only after an end node.
LEMMA RunEndsAtEnds ==
  ASSUME PathsEndAtEnds, IInv, NEW w \in Worker, Run(w) \/ RunAsyncFails(w),
         pc'[w] = "run", mem'[w].next = NoNode
  PROVE  mem[w].next \in Node /\ Type(mem[w].next) = "end"
BY RunFollowsEdges, DefinitionAssumption DEF PathsEndAtEnds

\* One superstep, or the end of the run, is announced.
LEMMA RunStaysAnnounced ==
  ASSUME OneWorker, PathsEndAtEnds, NEW R, TriggersMeetNoWait(R), IInv, SerialInv,
         TriggerOK(R), AnnouncedOK, NEW w \in Worker, RunAnnounced(w)
  PROVE  AnnouncedOK'
<1> USE DEF IInv
<1>1. /\ pc[w] = "run" /\ mem[w] = checkpoint /\ job' = job
      /\ checkpoint \in Checkpoint /\ checkpoint # NoCheckpoint
      /\ mem[w].status \in DataStatus
      /\ \/ UNCHANGED <<checkpoint, mem>> /\ pc'[w] = "finish"
         \/ checkpoint' = mem'[w] /\ pc'[w] = "run"
  BY RunPuts, CheckpointFields
     DEF RunAnnounced, SerialInv, SerialOK, LocalsOK, LocalOK
<1>2. (Run(w) \/ RunAsyncFails(w)) /\ announced \subseteq announced'
  BY RunAnnounces DEF RunAnnounced
<1>3. CASE pc'[w] = "run"
  <2>1. GraphRuns'
    BY <1>3 DEF GraphRuns, GraphPC
  <2>2. checkpoint'.next = NoNode => \E e \in announced' : e.kind = "WorkflowStateEnded"
    BY <1>1, <1>2, <1>3, RunEndsAtEnds, EndIsPublished
  <2> QED
    BY <2>1, <2>2 DEF AnnouncedOK
<1>4. CASE pc'[w] = "finish"
  <2>1. checkpoint' = checkpoint
    BY <1>1, <1>4
  <2>2. CASE RunAsyncRequest(w)
    <3>1. Event("AsyncRequestStarted", checkpoint.next) \in announced'
      BY <1>1, <2>2, RunAnnounces DEF RunAsyncRequest, Running
    <3>2. Type(checkpoint.next) = "async_request"
      BY <1>1, <2>2 DEF RunAsyncRequest, Running
    <3> QED
      BY <1>1, <2>1, <3>1, <3>2, DefinitionAssumption DEF AnnouncedOK, Type
  <2>3. CASE RunRaises(w)
    <3>1. Type(checkpoint.next) = "condition"
      BY <1>1, <2>3 DEF RunRaises, Running
    <3> QED
      BY <2>3, <3>1, StopsAtPause, PathsAreTotal, DefinitionAssumption DEF Type
  <2>4. CASE RunStops(w) /\ checkpoint.next = NoNode
    BY <1>1, <1>2, <2>1, <2>4, DefinitionAssumption DEF AnnouncedOK, Type
  <2>5. CASE RunStops(w) /\ Type(checkpoint.next) = "event_wait"
    <3>1. checkpoint.next \in Node /\ checkpoint.next # StartNode
      BY <2>5, TypedIsNode, DefinitionAssumption DEF NodeType
    <3>2. job[w].cmd.type # "EVENT"
      BY <1>1, <2>5, <3>1 DEF TriggerOK, TriggersMeetNoWait
    <3>3. ~RunRaises(w)
      BY <1>1, <2>5 DEF RunRaises, Running
    <3>4. Event("EventWaitStarted", checkpoint.next) \in announced'
      BY <1>1, <1>4, <2>5, <3>1, <3>2, <3>3, RunAnnounces DEF Guard
    <3> QED
      BY <1>1, <2>1, <2>5, <3>1, <3>4, DefinitionAssumption DEF AnnouncedOK
  <2>6. RunAsyncRequest(w) \/ RunRaises(w) \/ RunStops(w)
    BY <1>1, <1>2, <1>4
       DEF Run, RunStart, RunPassThrough, RunSetState, RunLogError, RunSyncCall,
           RunAsyncFails, Put
  <2> QED
    BY <1>1, <2>2, <2>3, <2>4, <2>5, <2>6 DEF RunStops
<1> QED
  BY <1>1, <1>3, <1>4

\* Every step that moves the instance announces where to.
LEMMA AnnouncedStep ==
  ASSUME OneWorker, MarkKeepsPending, PathsEndAtEnds, NEW R, TriggersMeetNoWait(R),
         IInv, SerialInv, TriggerOK(R), PauseOK, AnnouncedOK, Undisturbed, Undisturbed', [ENext]_evars
  PROVE  AnnouncedOK'
<1> USE DEF IInv
<1>1. ASSUME UNCHANGED <<checkpoint, announced>>,
             \A w \in Worker : pc[w] \in GraphPC => pc'[w] \in GraphPC
      PROVE  AnnouncedOK'
  BY <1>1 DEF AnnouncedOK, GraphRuns
<1>2. CASE UNCHANGED evars \/ (Environment /\ UNCHANGED events)
  <2>1. UNCHANGED <<checkpoint, announced, pc>>
    BY <1>2 DEF evars, vars, events, store, local, Environment, SendTrigger, Send,
                CapabilityAnswers, OperatorResolves, Redeliver, DeadLetter
  <2> QED
    BY <1>1, <2>1
<1>3. ASSUME NEW w \in Worker, EStep(w)
      PROVE  AnnouncedOK'
  <2>1. (GraphRuns <=> pc[w] \in GraphPC) /\ (GraphRuns' <=> pc'[w] \in GraphPC)
        /\ \A u \in Worker : u = w
    BY DEF OneWorker, GraphRuns
  <2>2. /\ pc \in [Worker -> PC] /\ LocalOK(w) /\ SerialOK(w)
    BY DEF TypeOK, LocalsOK, SerialInv
  <2>3. CASE StartAnnounced(w)
    BY <2>1, <2>2, <2>3
       DEF StartAnnounced, LookupTrigger, TriggerIsNew, Goto, store, AnnouncedOK, GraphPC
  <2>4. CASE EndAnnounced(w)
    <3>1. UNCHANGED <<checkpoint, announced>> /\ pc[w] = "route"
      BY <2>4 DEF EndAnnounced, Route, store
    <3> QED
      BY <1>1, <2>1, <3>1 DEF GraphPC
  <2>5. CASE LoadShown(w)
    <3>1. UNCHANGED <<checkpoint, announced>> /\ (pc[w] \in GraphPC => pc'[w] \in GraphPC)
      BY <2>2, <2>5 DEF LoadShown, LoadForStart, LoadForMark, LoadForApply, LoadForInvoke,
                        Load, Goto, store, GraphPC
    <3> QED
      BY <1>1, <2>1, <3>1
  <2>6. CASE Silent(w)
    <3>1. ~Fault(w) /\ ~Crash(w)
      BY DeathsShow
    <3>2. UNCHANGED <<checkpoint, announced>> /\ pc[w] \notin GraphPC
      BY <2>6, <3>1 DEF Silent, Receive, Snapshot, Finish, store, GraphPC
    <3> QED
      BY <1>1, <2>1, <3>2
  <2>7. CASE PutShown(w) /\ PutInput(w)
    <3>1. checkpoint'.next = StartNode /\ pc'[w] = "run"
      BY <2>2, <2>7 DEF PutInput, LocalOK, Goto
    <3> QED
      BY <2>1, <3>1, DefinitionAssumption DEF AnnouncedOK, GraphPC
  <2>8. CASE PutShown(w) /\ PutMark(w)
    <3>1. pc[w] = "markput" /\ pc'[w] = "route" /\ announced \subseteq announced'
      BY <2>2, <2>8 DEF PutShown, PutMark, Goto
    <3>2. checkpoint \in Checkpoint /\ checkpoint # NoCheckpoint /\ mem[w] = checkpoint
      BY <2>2, <3>1 DEF LocalOK, SerialOK
    <3>3. checkpoint'.next = checkpoint.next
      BY <2>8, <3>2, MarkEffect
    <3> QED
      BY <2>1, <3>1, <3>2, <3>3 DEF AnnouncedOK, GraphPC
  <2>9. CASE PutShown(w) /\ PutApply(w)
    <3>1. /\ TransitionOf(w) \in Node /\ TransitionOf(w) \in Transitions
          /\ mem[w] = checkpoint /\ checkpoint \in Checkpoint
          /\ job[w].cmd.status \in DataStatus
      BY <2>9, AppliesATransition
    <3>2. checkpoint.isError \in BOOLEAN
      BY <3>1, CheckpointFields
    <3>3. Successor(TransitionOf(w), job[w].cmd.status, checkpoint.isError) # NoNode
      BY <3>1, <3>2 DEF PathsEndAtEnds
    <3>4. CASE pc'[w] = "finish"
      <4>1. UNCHANGED <<checkpoint, announced>> /\ pc[w] \notin GraphPC
        BY <2>2, <2>9, <3>4 DEF PutShown, PutApply, Goto, GraphPC
      <4> QED
        BY <1>1, <2>1, <4>1
    <3>5. CASE pc'[w] # "finish"
      <4>1. /\ checkpoint'.next
                 = Successor(TransitionOf(w), job[w].cmd.status, checkpoint.isError)
            /\ pc'[w] = "invoke"
        BY <2>2, <2>9, <3>1, <3>5 DEF PutApply, AsNode, Goto, Checkpoint
      <4> QED
        BY <2>1, <3>3, <4>1 DEF AnnouncedOK, GraphPC
    <3> QED
      BY <3>4, <3>5
  <2>10. CASE RunAnnounced(w)
    BY <2>10, RunStaysAnnounced
  <2> QED
    BY <1>3, <2>3, <2>4, <2>5, <2>6, <2>7, <2>8, <2>9, <2>10 DEF EStep, PutShown
<1> QED
  BY <1>2, <1>3 DEF ENext, EStep

\* Consumers can follow the instance: with one container, and unless a handler
\* has died, what an instance rests at has been announced since it got there,
\* whichever of its two moments the publisher of each checkpoint reads.
THEOREM RestsAreAnnounced ==
  ASSUME OneWorker, MarkKeepsPending, PathsEndAtEnds, NEW R, TriggersMeetNoWait(R)
  PROVE  ESpec => []RestIsAnnounced
<1> DEFINE AtRest == Undisturbed => PauseOK /\ AnnouncedOK
<1>1. EInit => SerialInv /\ TriggerOK(R) /\ AtRest
  BY SerialInit DEF EInit, Init, TriggerOK, PauseOK, AnnouncedOK
<1>2. [ENext]_evars => [Next]_vars
  BY EveryStepIsAStep DEF evars
<1>3. IInv /\ SerialInv /\ TriggerOK(R) /\ [Next]_vars => SerialInv' /\ TriggerOK(R)'
  BY SerialStep, TriggerStep
<1>4. IInv /\ SerialInv /\ TriggerOK(R) /\ AtRest /\ [ENext]_evars => AtRest'
  <2> SUFFICES ASSUME IInv, SerialInv, TriggerOK(R), AtRest, [ENext]_evars, Undisturbed'
               PROVE  PauseOK' /\ AnnouncedOK'
    OBVIOUS
  <2>1. [Next]_vars /\ TypeOK
    BY <1>2 DEF IInv
  <2>2. Undisturbed
    BY <2>1, DisturbanceStays
  <2> QED
    BY <2>1, <2>2, PauseStep, PathsAreTotal, AnnouncedStep
<1>5. AtRest => RestIsAnnounced
  <2> SUFFICES ASSUME PauseOK, AnnouncedOK, Quiet, checkpoint # NoCheckpoint
               PROVE  CASE Type(checkpoint.next) = "async_request" ->
                             Event("AsyncRequestStarted", checkpoint.next) \in announced
                        [] Type(checkpoint.next) = "event_wait" ->
                             Event("EventWaitStarted", checkpoint.next) \in announced
                        [] OTHER -> \E e \in announced : e.kind = "WorkflowStateEnded"
    BY DEF RestIsAnnounced
  <2> QED
    BY QuietIsBetweenRuns DEF PauseOK, AnnouncedOK
<1> QED
  BY <1>1, <1>2, <1>3, <1>4, <1>5, ServiceInvariance, PTL DEF ESpec

-----------------------------------------------------------------------------
(* The next steps announced.                                               *)

\* The sets of nodes the search that starts at a node stays in.
Closed(start) ==
  {S \in SUBSET Node :
     start \in S /\ \A m \in S : ~Significant(m) => SuccessLike(m) \subseteq S}

\* The steps announced are those a search finds, and n is on its way.
OnTheWay(n) ==
  n \in Node => \E start \in Node : /\ promise = compute_next_steps[start]
                                    /\ \A S \in Closed(start) : n \in S

\* A search that starts at a step finds it and looks no further.
LEMMA StepFindsItself ==
  ASSUME NEW n \in Node, Significant(n)
  PROVE  compute_next_steps[n] = {n}
<1>1. {n} \in Closed(n)
  BY DEF Closed
<1>2. compute_next_steps[n] = {m \in Node : Significant(m) /\ \A S \in Closed(n) : m \in S}
  BY DEF compute_next_steps, Closed
<1>3. \A S \in Closed(n) : n \in S
  BY DEF Closed
<1> QED
  BY <1>1, <1>2, <1>3

\* What is on the way and is a step is among the steps found.
LEMMA StepsAreFound ==
  ASSUME NEW n \in Node, Significant(n), OnTheWay(n)
  PROVE  n \in promise
BY DEF OnTheWay, compute_next_steps, Closed

\* The search goes where the instance goes.
LEMMA TheWayGoesOn ==
  ASSUME RoutesAreAnnounced, NEW n \in Node, ~Significant(n), OnTheWay(n),
         NEW s \in DataStatus, NEW e \in BOOLEAN, promise' = promise,
         NEW m, m = Successor(n, s, e)
  PROVE  OnTheWay(m)'
<1> SUFFICES ASSUME m \in Node
             PROVE  \E start \in Node : /\ promise = compute_next_steps[start]
                                        /\ \A S \in Closed(start) : m \in S
  BY DEF OnTheWay, compute_next_steps, Closed
<1>1. m \in SuccessLike(n)
  BY DefinitionAssumption DEF RoutesAreAnnounced
<1>2. PICK start \in Node : /\ promise = compute_next_steps[start]
                            /\ \A S \in Closed(start) : n \in S
  BY DEF OnTheWay
<1>3. \A S \in Closed(start) : m \in S
  BY <1>1, <1>2 DEF Closed
<1> QED
  BY <1>2, <1>3

\* From the moment the instance gets going until it comes to a step, what is
\* announced covers where it is.
PromiseOK ==
  \A w \in Worker :
    /\ pc[w] \in {"start", "input"} => promise = {Definition.entry_point}
    /\ pc[w] \in {"apply", "applyput"} => promise = AnnouncedSteps(w)
    /\ pc[w] = "invoke" => OnTheWay(checkpoint.next) /\ checkpoint.next # StartNode
    /\ pc[w] = "run" /\ promise # {} =>
         /\ OnTheWay(mem[w].next)
         /\ mem[w].next = StartNode => promise = {Definition.entry_point}

\* A response announces the steps that follow its transition.
LEMMA ApplyPromises ==
  ASSUME OneWorker, MarkKeepsPending, RoutesAreAnnounced, IInv, SerialInv, PauseOK,
         PromiseOK,
         NEW w \in Worker, PutShown(w), PutApply(w), pc'[w] = "invoke"
  PROVE  OnTheWay(checkpoint.next)' /\ checkpoint'.next # StartNode
<1> DEFINE T == TransitionOf(w)
<1>1. /\ T \in Node /\ T \in Transitions /\ mem[w] = checkpoint
      /\ checkpoint \in Checkpoint /\ job[w].cmd.status \in DataStatus
      /\ pc[w] = "applyput" /\ promise' = promise /\ pc \in [Worker -> PC]
  BY AppliesATransition DEF PutShown, PutApply, IInv, TypeOK
<1>2. checkpoint.isError \in BOOLEAN
  BY <1>1, CheckpointFields
<1>3. checkpoint'.next = Successor(T, job[w].cmd.status, checkpoint.isError)
  BY <1>1 DEF PutApply, AsNode, Goto, Checkpoint
<1>4. promise = compute_next_steps[T]
  BY <1>1 DEF PromiseOK, AnnouncedSteps
<1> HIDE DEF T
<1>5. OnTheWay(T)
  BY <1>4, <1>1 DEF OnTheWay, Closed
<1>6. ~Significant(T)
  BY <1>1 DEF RoutesAreAnnounced
<1>7. \A m : m = checkpoint'.next => OnTheWay(m)'
  BY <1>1, <1>2, <1>3, <1>5, <1>6, TheWayGoesOn
<1>8. OnTheWay(checkpoint.next)'
  BY <1>7 DEF OnTheWay
<1>9. checkpoint'.next \in Target
  BY <1>1, <1>2, <1>3, SuccessorType
<1> QED
  BY <1>8, <1>9, DefinitionAssumption DEF Target

\* A run of the graph stays on the way until it comes to a step.
LEMMA RunKeepsPromise ==
  ASSUME RoutesAreAnnounced, IInv, PromiseOK,
         NEW w \in Worker, RunAnnounced(w), pc'[w] = "run", promise' # {}
  PROVE  /\ OnTheWay(mem[w].next)'
         /\ mem'[w].next = StartNode => promise' = {Definition.entry_point}
<1> USE DEF IInv
<1>1. /\ ~Significant(mem[w].next) /\ promise' = promise
      /\ pc[w] = "run" /\ (Run(w) \/ RunAsyncFails(w))
  BY RunPuts DEF RunAnnounced
<1>2. /\ OnTheWay(mem[w].next)
      /\ mem[w].next = StartNode => promise = {Definition.entry_point}
  BY <1>1 DEF PromiseOK
<1>3. Definition.entry_point \in Node /\ Significant(Definition.entry_point)
  BY DefinitionAssumption DEF RoutesAreAnnounced
<1>4. CASE mem[w].next = StartNode /\ mem'[w].next = Definition.entry_point
  <2>1. promise' = compute_next_steps[Definition.entry_point]
    BY <1>1, <1>2, <1>3, <1>4, StepFindsItself
  <2>2. \A S \in Closed(Definition.entry_point) : Definition.entry_point \in S
    BY DEF Closed
  <2>3. OnTheWay(mem[w].next)'
    BY <1>3, <1>4, <2>1, <2>2 DEF OnTheWay, Closed, compute_next_steps
  <2> QED
    BY <1>1, <1>2, <1>4, <2>3
<1>5. CASE /\ mem[w].next \in Node
           /\ \E s \in DataStatus, e \in BOOLEAN :
                mem'[w].next = Successor(mem[w].next, s, e)
  <2>1. \A m : m = mem'[w].next => OnTheWay(m)'
    BY <1>1, <1>2, <1>5, TheWayGoesOn
  <2>2. OnTheWay(mem[w].next)'
    BY <2>1 DEF OnTheWay
  <2>3. mem'[w].next \in Target
    BY <1>5, SuccessorType
  <2> QED
    BY <2>2, <2>3, DefinitionAssumption DEF Target
<1> QED
  BY <1>1, <1>4, <1>5, RunFollowsEdges

\* Every step keeps to what was announced.
LEMMA PromiseStep ==
  ASSUME OneWorker, MarkKeepsPending, RoutesAreAnnounced, IInv, SerialInv, PauseOK,
         PromiseOK, [ENext]_evars
  PROVE  PromiseOK'
<1> USE DEF IInv
<1>1. CASE UNCHANGED evars \/ (Environment /\ UNCHANGED events)
  <2>1. UNCHANGED <<checkpoint, promise, pc, mem, node, job>>
    BY <1>1 DEF evars, vars, events, store, local, Environment, SendTrigger, Send,
                CapabilityAnswers, OperatorResolves, Redeliver, DeadLetter
  <2> QED
    BY <2>1 DEF PromiseOK, OnTheWay, AnnouncedSteps, TransitionOf
<1>2. ASSUME NEW w \in Worker, EStep(w)
      PROVE  PromiseOK'
  <2>1. (\A u \in Worker : u = w) /\ LocalOK(w) /\ pc \in [Worker -> PC]
        /\ mem \in [Worker -> Checkpoint \cup {NoCheckpoint}]
    BY DEF OneWorker, LocalsOK, TypeOK
  <2>2. CASE StartAnnounced(w)
    <3>1. \/ pc'[w] = "start" /\ promise' = {Definition.entry_point}
          \/ pc'[w] = "finish"
      BY <2>1, <2>2 DEF StartAnnounced, LookupTrigger, Goto
    <3> QED
      BY <2>1, <3>1 DEF PromiseOK
  <2>3. CASE EndAnnounced(w)
    <3>1. \/ pc'[w] = "apply" /\ promise' = AnnouncedSteps(w) /\ UNCHANGED <<node, job>>
          \/ pc'[w] = "finish"
      BY <2>1, <2>3 DEF EndAnnounced, Route, RouteTo, Goto
    <3> QED
      BY <2>1, <3>1 DEF PromiseOK, AnnouncedSteps, TransitionOf
  <2>4. CASE LoadShown(w) /\ LoadForStart(w)
    <3>1. pc[w] = "start" /\ pc'[w] = "input" /\ promise' = promise
      BY <2>1, <2>4 DEF LoadShown, LoadForStart, Goto
    <3> QED
      BY <2>1, <3>1 DEF PromiseOK
  <2>5. CASE LoadShown(w) /\ LoadForMark(w)
    <3>1. pc'[w] = "markput"
      BY <2>1, <2>5 DEF LoadForMark, Load, Goto
    <3> QED
      BY <2>1, <3>1 DEF PromiseOK
  <2>6. CASE LoadShown(w) /\ LoadForApply(w)
    <3>1. /\ pc[w] = "apply" /\ pc'[w] = "applyput" /\ promise' = promise
          /\ UNCHANGED <<node, job>>
      BY <2>1, <2>6 DEF LoadShown, LoadForApply, Load, Goto
    <3> QED
      BY <2>1, <3>1 DEF PromiseOK, AnnouncedSteps, TransitionOf
  <2>7. CASE LoadShown(w) /\ LoadForInvoke(w)
    <3>1. /\ pc[w] = "invoke" /\ pc'[w] = "run" /\ promise' = promise
          /\ mem'[w] = checkpoint
      BY <2>1, <2>7 DEF LoadShown, LoadForInvoke, Load, Goto
    <3> QED
      BY <2>1, <3>1 DEF PromiseOK, OnTheWay
  <2>8. CASE PutShown(w) /\ PutInput(w)
    <3>1. /\ pc[w] = "input" /\ pc'[w] = "run" /\ promise' = promise
          /\ mem'[w].next = StartNode
      BY <2>1, <2>8 DEF PutShown, PutInput, Goto, LocalOK
    <3> QED
      BY <2>1, <3>1, DefinitionAssumption DEF PromiseOK, OnTheWay
  <2>9. CASE PutShown(w) /\ PutMark(w)
    <3>1. pc'[w] = "route"
      BY <2>1, <2>9 DEF PutMark, Goto
    <3> QED
      BY <2>1, <3>1 DEF PromiseOK
  <2>10. CASE PutShown(w) /\ PutApply(w)
    <3>1. pc'[w] \in {"invoke", "finish"}
      BY <2>1, <2>10 DEF PutApply, Goto
    <3> QED
      BY <2>1, <2>10, <3>1, ApplyPromises DEF PromiseOK
  <2>11. CASE RunAnnounced(w)
    <3>1. pc'[w] \in {"run", "finish"}
      BY <2>11 DEF RunAnnounced
    <3> QED
      BY <2>1, <2>11, <3>1, RunKeepsPromise DEF PromiseOK
  <2>12. CASE Silent(w)
    <3>1. pc'[w] \in {"lookup", "snapshot", "mark", "route", "finish", "idle"}
      BY <2>1, <2>12 DEF Silent, Receive, Snapshot, Finish, Fault, Crash, Forget, Goto
    <3> QED
      BY <2>1, <3>1 DEF PromiseOK
  <2> QED
    BY <1>2, <2>2, <2>3, <2>4, <2>5, <2>6, <2>7, <2>8, <2>9, <2>10, <2>11, <2>12
       DEF EStep, LoadShown, PutShown
<1> QED
  BY <1>1, <1>2 DEF ENext, EStep

\* With one container, and while no handler dies, the first capability, wait or
\* end an instance comes to is among the next steps announced when it got going,
\* for every definition compute_next_steps looks through.
THEOREM PromisesAreKept ==
  ASSUME OneWorker, MarkKeepsPending, ConditionsAreTotal, RoutesAreAnnounced
  PROVE  ESpec /\ []Undisturbed => FirstStepWasPromised
<1> DEFINE Promised ==
             \A w \in Worker :
               Running(w, {"async_request", "event_wait", "end"})
                 /\ promise # {} /\ promise' = {} => mem[w].next \in promise
<1>1. EInit => SerialInv /\ PauseOK /\ PromiseOK
  BY SerialInit DEF EInit, Init, PauseOK, PromiseOK
<1>2. [ENext]_evars => [Next]_vars
  BY EveryStepIsAStep DEF evars
<1>3. IInv /\ SerialInv /\ [Next]_vars => SerialInv'
  BY SerialStep
<1>4. IInv /\ SerialInv /\ Undisturbed /\ Undisturbed' /\ PauseOK /\ [Next]_vars => PauseOK'
  BY PauseStep
<1>5. IInv /\ SerialInv /\ PauseOK /\ PromiseOK /\ [ENext]_evars => PromiseOK'
  BY PromiseStep
<1>6. PromiseOK => [Promised]_evars
  <2> SUFFICES ASSUME PromiseOK, NEW w \in Worker,
                      Running(w, {"async_request", "event_wait", "end"}), promise # {}
               PROVE  mem[w].next \in promise
    OBVIOUS
  <2>1. mem[w].next \in Node /\ Significant(mem[w].next) /\ pc[w] = "run"
    BY TypedIsNode DEF Running, NodeType, Significant
  <2> QED
    BY <2>1, StepsAreFound DEF PromiseOK
<1> QED
  BY <1>1, <1>2, <1>3, <1>4, <1>5, <1>6, ServiceInvariance, PTL
     DEF ESpec, FirstStepWasPromised

=============================================================================
