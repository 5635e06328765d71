---------------------------- MODULE MCOrchestrator ----------------------------
(***************************************************************************)
(* Instances of Orchestrator for TLC: workflow definitions as they are     *)
(* shipped with the repository, node names and all.                        *)
(***************************************************************************)
EXTENDS Orchestrator, TLC

Blank ==
  [type |-> "end", on_success |-> NoNode, on_response |-> NoNode,
   on_event |-> NoNode, on_failure |-> NoNode,
   branches |-> [s \in DataStatus |-> NoNode], default |-> NoNode,
   static_status |-> NoNode]

Async(response, failure) ==
  [Blank EXCEPT !.type = "async_request", !.on_response = response,
                !.on_failure = failure]

Condition(success, error, default, failure) ==
  [Blank EXCEPT !.type = "condition",
                !.branches["SUCCESS"] = success, !.branches["ERROR"] = error,
                !.default = default, !.on_failure = failure]

EventWait(success, failure) ==
  [Blank EXCEPT !.type = "event_wait", !.on_success = success,
                !.on_failure = failure]

SetState(status, success) ==
  [Blank EXCEPT !.type = "set_state", !.static_status = status,
                !.on_success = success]

LogError(success) == [Blank EXCEPT !.type = "log_error", !.on_success = success]

\* workflow-definitions/import_us_v1.1.1-simplified-errorhandling.yaml
DefV111 ==
  [entry_point |-> "Create_Filing_Packs",
   nodes |->
     "Create_Filing_Packs" :> Async("Check_Response_Status", NoNode) @@
     "Check_Response_Status" :>
       Condition("End_Workflow", "Wait_For_HITL_Resolution", "Handle_Error", NoNode) @@
     "Wait_For_HITL_Resolution" :> EventWait("Mark_As_Resolved", "Handle_Error") @@
     "Mark_As_Resolved" :> SetState("SUCCESS", "Create_Filing_Packs") @@
     "Handle_Error" :> LogError("End_Workflow") @@
     "End_Workflow" :> Blank]

NodeV111 == {"Create_Filing_Packs", "Check_Response_Status",
             "Wait_For_HITL_Resolution", "Mark_As_Resolved", "Handle_Error",
             "End_Workflow"}

\* tests/scenarios/hitl_error_handling_interactive_v2.0.0/
\*   import_us_v2.0.0-simplified-errorhandling.yaml
DefV200 ==
  [entry_point |-> "Enrich_Consignment",
   nodes |->
     "Enrich_Consignment" :>
       Async("Check_Enrichment_Response_Status", "Handle_Error") @@
     "Check_Enrichment_Response_Status" :>
       Condition("Create_Filing_Packs", "Wait_Enrich_Exception_Resolution",
                 NoNode, "Handle_Error") @@
     "Create_Filing_Packs" :>
       Async("Check_Filing_Packs_Response_Status", "End_Workflow") @@
     "Check_Filing_Packs_Response_Status" :>
       Condition("End_Workflow", "Wait_Create_FilingPack_Resolution",
                 NoNode, "Handle_Error") @@
     "Clear_Enrichment_Status" :> SetState(NoStatus, "Enrich_Consignment") @@
     "Wait_Enrich_Exception_Resolution" :>
       EventWait("Clear_Enrichment_Status", "Handle_Error") @@
     "Wait_Create_FilingPack_Resolution" :>
       EventWait("Create_Filing_Packs", "Handle_Error") @@
     "Handle_Error" :> LogError("End_Workflow") @@
     "End_Workflow" :> Blank]

NodeV200 == {"Enrich_Consignment", "Check_Enrichment_Response_Status",
             "Create_Filing_Packs", "Check_Filing_Packs_Response_Status",
             "Clear_Enrichment_Status", "Wait_Enrich_Exception_Resolution",
             "Wait_Create_FilingPack_Resolution", "Handle_Error",
             "End_Workflow"}

\* The retry loop of v1.1.1 with the node types the two above lack (the start
\* node and the sync_call of import_us_v1.1.1-simplified.yaml), the failure path
\* that definition gives its async_request, to a node of its own that does not
\* lead back to a request, and a condition without a branch for every status.
DefEdges ==
  [entry_point |-> "Start",
   nodes |->
     "Start" :> [Blank EXCEPT !.type = "start", !.on_success = "Create"] @@
     "Create" :> Async("Check", "Give_Up") @@
     "Give_Up" :> LogError("End_Workflow") @@
     "Check" :> Condition("End_Workflow", "Process", NoNode, NoNode) @@
     "Process" :> [Blank EXCEPT !.type = "sync_call", !.on_success = "End_Workflow",
                                !.on_failure = "Handle_Error"] @@
     "Handle_Error" :> LogError("Recheck") @@
     "Recheck" :> Condition("Create", "Wait", NoNode, NoNode) @@
     "Wait" :> EventWait("Mark_As_Resolved", NoNode) @@
     "Mark_As_Resolved" :> SetState("SUCCESS", "Recheck") @@
     "End_Workflow" :> Blank]

NodeEdges == {"Start", "Create", "Give_Up", "Check", "Process", "Handle_Error",
              "Recheck", "Wait", "Mark_As_Resolved", "End_Workflow"}

SuccessOrNone  == {"SUCCESS", NoStatus}
SuccessOnly    == {"SUCCESS"}
SuccessOrError == {"SUCCESS", "ERROR"}

WorkerSymmetry == Permutations(Worker)

\* The definitions above are as the theorems want them.  (The conditions of
\* DefEdges are not total: that is what it is for.)
ASSUME DefinitionsAreSound ==
  /\ Definition \in {DefV111, DefV200, DefEdges} =>
       OnlyAnswersEndRequests /\ RequestsGuardTheEnd
  /\ Definition \in {DefV111, DefV200} => ConditionsAreTotal

=============================================================================
