--------------------------- MODULE EventPublication ---------------------------
(***************************************************************************)
(* The system events an instance publishes while Orchestrator runs it: by  *)
(* the service, by async_request nodes, and by EventPublishingCheckpointer *)
(* after every put, according to context.current_node of what was put.     *)
(*                                                                         *)
(* The node wrapper assigns current_node in the very object the channel    *)
(* holds, while LangGraph writes the previous step's checkpoint in another *)
(* thread: the checkpoint saved, and the event published for it, may carry *)
(* the node that ran or one that has started since.                        *)
(***************************************************************************)
EXTENDS Orchestrator

VARIABLES
  shown,     \* context.current_node of the latest checkpoint
  seen,      \* context.current_node in the channels each worker holds
  announced, \* history: events since the instance last got going
  promise,   \* history: nextSteps of the event that got it going, until met
  ended      \* history: answers whose AsyncRequestEnded was published

events == <<shown, seen, announced, promise, ended>>
evars  == <<vars, events>>

\* The eventType a status is published as.
Kind == {"AsyncRequestStarted", "EventWaitStarted", "WorkflowStateEnded"}

Event(kind, n) == [kind |-> kind, node |-> n]

EventTypeOK ==
  /\ shown \in Target
  /\ seen \in [Worker -> Target]
  /\ announced \subseteq [kind : Kind, node : Node]
  /\ promise \subseteq Node
  /\ ended \subseteq 1..MaxRequests

EInit ==
  /\ Init
  /\ shown = NoNode
  /\ seen = [w \in Worker |-> NoNode]
  /\ announced = {}
  /\ promise = {}
  /\ ended = {}

-----------------------------------------------------------------------------
(* compute_next_steps, by what it computes (module NextSteps).             *)

Significant(n) == Type(n) \in {"async_request", "event_wait", "end"}

SuccessLike(n) ==
  IF Type(n) = "condition"
    THEN ({Def(n).branches[s] : s \in DataStatus} \cup {Def(n).default}) \ {NoNode}
    ELSE {Or(Def(n).on_success, Def(n).on_response)} \ {NoNode}

compute_next_steps ==
  [start \in Node |->
    LET closed == {S \in SUBSET Node :
                     /\ start \in S
                     /\ \A m \in S : ~Significant(m) => SuccessLike(m) \subseteq S}
    IN  {n \in Node : Significant(n) /\ \A S \in closed : n \in S}]

-----------------------------------------------------------------------------
(* What is published when.                                                 *)

\* mutant: every type is published
EveryType(n) ==
  CASE Type(n) = "end"        -> {Event("WorkflowStateEnded", n)}
    [] Type(n) = "event_wait" -> {Event("EventWaitStarted", n)}
    [] OTHER                  -> {Event("WorkflowStateUpdated", n)}

\* EventPublishingCheckpointer.put, by the type of the current node.
PutEvents(n) ==
  CASE Type(n) = "end"        -> {Event("WorkflowStateEnded", n)}
    [] Type(n) = "event_wait" -> {Event("EventWaitStarted", n)}
    [] OTHER                  -> {}

\* What current_node names in turn while the checkpoint put after node n is
\* written: n, the next node, and past a log_error, which returns no context,
\* its successor in the same object.
Racing(n, c) ==
  LET after == IF Type(c.next) = "log_error"
                 THEN Successor(c.next, c.status, c.isError) ELSE NoNode
  IN  <<n, c.next, after>>

\* The moments at which it names a node.
Moments(racing) == {i \in 1..3 : racing[i] \in Node}

NoGuard(w, n) == {}                                                \* mutant
\* The guard at the end of a response: a wait the instance has come to rest at.
Guard(w, n) ==
  IF job[w].cmd.type # "EVENT" /\ Type(n) = "event_wait"
    THEN {Event("EventWaitStarted", n)} ELSE {}

Announce(E) == announced' = announced \cup E

StepsFromInterrupted(w) == compute_next_steps[node[w]]             \* mutant
AnnouncedSteps(w) == compute_next_steps[TransitionOf(w)]

-----------------------------------------------------------------------------
(* The steps of Orchestrator with their publications.                      *)

\* WorkflowStateInitiated names the entry point as the next step.
StartAnnounced(w) ==
  /\ LookupTrigger(w)
  /\ IF pc'[w] = "start"
       THEN announced' = {} /\ promise' = {Definition.entry_point}
       ELSE UNCHANGED <<announced, promise>>
  /\ UNCHANGED <<shown, seen, ended>>

\* AsyncRequestEnded or EventWaitEnded, before the response is applied.
EndAnnounced(w) ==
  /\ Route(w)
  /\ IF pc'[w] = "apply"
       THEN /\ promise' = AnnouncedSteps(w)
            /\ ended' = IF IsAnswer(w) THEN ended \cup {ReplyKey(w)} ELSE ended
       ELSE UNCHANGED <<promise, ended>>
  /\ UNCHANGED <<shown, seen, announced>>

LoadShown(w) ==
  /\ LoadForStart(w) \/ LoadForMark(w) \/ LoadForApply(w) \/ LoadForInvoke(w)
  /\ seen' = [seen EXCEPT ![w] = shown]
  /\ UNCHANGED <<shown, announced, promise, ended>>

\* An update_state and the input of an invoke put current_node as loaded.
PutShown(w) ==
  /\ PutInput(w) \/ PutMark(w) \/ PutApply(w)
  /\ IF pc'[w] = "finish"
       THEN UNCHANGED <<shown, announced>>
       ELSE /\ shown' = seen[w]
            /\ announced' = PutEvents(seen[w])
                              \cup IF pc'[w] = "invoke" THEN {} ELSE announced
  /\ UNCHANGED <<seen, promise, ended>>

\* A node runs.  Whatever it does, current_node names it first; a checkpoint
\* is saved and then announced, each with the current_node of its moment.
RunAnnounced(w) ==
  /\ Run(w) \/ RunAsyncFails(w)
  /\ LET n == mem[w].next
         current == IF n \in Node THEN n ELSE seen[w]
         racing == Racing(current, mem'[w])
         request == IF Type(n) = "async_request"
                      THEN {Event("AsyncRequestStarted", n)} ELSE {}
     IN  /\ seen' = [seen EXCEPT ![w] = current]
         /\ promise' = IF Significant(n) THEN {} ELSE promise
         /\ \/ /\ pc'[w] = "run" /\ Moments(racing) = {}
               /\ Announce(request)
               /\ shown' = current
            \/ /\ pc'[w] = "run"
               /\ \E saved, published \in Moments(racing) :
                    /\ saved <= published
                    /\ shown' = racing[saved]
                    /\ Announce(request \cup PutEvents(racing[published]))
            \/ /\ pc'[w] = "finish"
               /\ Announce(request \cup IF RunRaises(w) THEN {} ELSE Guard(w, current))
               /\ UNCHANGED shown
  /\ UNCHANGED ended

Silent(w) ==
  /\ Receive(w) \/ Snapshot(w) \/ Finish(w) \/ Fault(w) \/ Crash(w)
  /\ seen' = IF pc'[w] = "idle" THEN [seen EXCEPT ![w] = NoNode] ELSE seen
  /\ UNCHANGED <<shown, announced, promise, ended>>

ENext ==
  \/ Environment /\ UNCHANGED events
  \/ \E w \in Worker :
       \/ StartAnnounced(w) \/ EndAnnounced(w) \/ LoadShown(w)
       \/ PutShown(w) \/ RunAnnounced(w) \/ Silent(w)

ESpec == EInit /\ [][ENext]_evars

-----------------------------------------------------------------------------

\* What the theorems ask of a definition: after a response, a path ends at an end
\* node only, and no condition raises.
Transitions ==
  {TransitionNode(n, t) : n \in {m \in Node : Type(m) \in {"async_request", "event_wait"}},
                          t \in {"ASYNC_RESP", "EVENT_WAIT_RESP"}}

PathsEndAtEnds ==
  /\ \A n \in Node, s \in DataStatus, e \in BOOLEAN :
       Type(n) \notin {"end", "event_wait"} => Successor(n, s, e) # NoNode
  /\ \A n \in Transitions : Type(n) \notin {"end", "event_wait"}

StatusAfter(n, s) ==
  IF Type(n) \in {"set_state", "end"} THEN StaticStatus(n, s) ELSE s

\* R holds every node a trigger's run comes to, sends that fail included, with the
\* status it comes to it with; no event_wait is among them.
TriggersMeetNoWait(R) ==
  /\ R \subseteq Target \X DataStatus
  /\ <<Definition.entry_point, NoStatus>> \in R
  /\ \A n \in Node, s \in DataStatus : <<n, s>> \in R =>
       /\ Type(n) # "event_wait"
       /\ \A e \in BOOLEAN :
            <<Successor(n, StatusAfter(n, s), e), StatusAfter(n, s)>> \in R

\* compute_next_steps looks along every edge the instance can take: no failure
\* path, and no response whose transition node is a step itself.
RoutesAreAnnounced ==
  /\ Significant(Definition.entry_point)
  /\ \A n \in Transitions : ~Significant(n)
  /\ \A n \in Node, s \in DataStatus, e \in BOOLEAN :
       ~Significant(n) => Successor(n, s, e) \in SuccessLike(n) \cup {NoNode}

-----------------------------------------------------------------------------

\* Consumers can follow the instance: unless a container has died on it, what
\* an instance rests at was announced since it got there, a wait by the
\* checkpointer or by the guard (service.py:384, "Ensure an EventWaitStarted
\* event is published if we paused on an event_wait and no publisher fired").
RestIsAnnounced ==
  Quiet /\ checkpoint # NoCheckpoint /\ Undisturbed =>
    CASE Type(checkpoint.next) = "async_request" ->
           Event("AsyncRequestStarted", checkpoint.next) \in announced
      [] Type(checkpoint.next) = "event_wait" ->
           Event("EventWaitStarted", checkpoint.next) \in announced
      [] OTHER -> \E e \in announced : e.kind = "WorkflowStateEnded"

\* The first significant node an instance comes to is one of the next steps
\* announced when it got going, whatever it passes on the way.
FirstStepWasPromised ==
  [][\A w \in Worker :
       Running(w, {"async_request", "event_wait", "end"}) /\ promise # {} /\ promise' = {}
         => mem[w].next \in promise]_evars

\* The end of a request is announced once, however often its answer is sent or
\* delivered and whenever a container dies over it.
EndOfRequestAnnouncedOnce ==
  [][\A w \in Worker :
       Route(w) /\ pc'[w] = "apply" /\ IsAnswer(w) => ReplyKey(w) \notin ended]_evars

=============================================================================
