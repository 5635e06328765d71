------------------------------- MODULE MCEvents -------------------------------
(***************************************************************************)
(* Instances of EventPublication, over the definitions of MCOrchestrator.  *)
(***************************************************************************)
EXTENDS EventPublication, MCOrchestrator

\* An instance that waits before it asks any capability.
DefWaitFirst ==
  [entry_point |-> "Initialize",
   nodes |->
     "Initialize" :> SetState(NoNode, "Wait") @@
     "Wait" :> EventWait("Record", "Finish") @@
     "Record" :> SetState(NoNode, "Finish") @@
     "Finish" :> Blank]

NodeWaitFirst == {"Initialize", "Wait", "Record", "Finish"}

\* What a trigger of v1.1.1 can run through: a send that fails leads by way of the
\* condition's _default to the end.
RunOfTrigger ==
  {"Create_Filing_Packs", "Check_Response_Status", "Handle_Error", "End_Workflow"}
    \X {NoStatus}
  \cup {<<NoNode, "COMPLETED">>}

\* The definition of the run is as the theorems want it; that of v2.0.0 is but for
\* its failure paths and its retry of an async_request.
ASSUME EventsAreSound ==
  /\ Definition \in {DefV111, DefV200} => PathsEndAtEnds
  /\ Definition = DefV111 => TriggersMeetNoWait(RunOfTrigger) /\ RoutesAreAnnounced

=============================================================================
