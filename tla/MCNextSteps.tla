------------------------------ MODULE MCNextSteps ------------------------------
(***************************************************************************)
(* Instances of NextSteps: every definition of three nodes whose types the *)
(* traversal tells apart ("d" is then a target that names no node), a      *)
(* diamond of four nodes with paths of different length, and a map_fork.   *)
(***************************************************************************)
EXTENDS NextSteps, TLC

Blank == [type |-> "other", on_success |-> NoName, on_response |-> NoName,
          on_event |-> NoName, on_failure |-> NoName, branches |-> <<>>,
          branch_entry_node |-> NoName]

Capability == [Blank EXCEPT !.type = "async_request", !.on_response = "a"]
Step(s, r) == [Blank EXCEPT !.on_success = s, !.on_response = r]
Choice(b)  == [Blank EXCEPT !.type = "condition", !.branches = b]

SmallNode ==
  {Capability, Step(NoName, NoName), Step("a", "b"), Step(NoName, "c")}
    \cup {Step(s, NoName) : s \in Name}
    \cup {Choice(<<x>>) : x \in {"a", "d"}}
    \cup {Choice(<<x, y>>) : x, y \in {"a", "b", "c"}}

Diamond ==
  "a" :> Choice(<<"b", "c">>) @@ "b" :> Step("d", NoName) @@
  "c" :> Capability @@ "d" :> [Blank EXCEPT !.type = "end"]

\* A map_fork with a branch of one step.
Forking ==
  "a" :> Step("b", NoName) @@
  "b" :> [Blank EXCEPT !.type = "map_fork", !.branch_entry_node = "c"] @@
  "c" :> Capability @@ "d" :> [Blank EXCEPT !.type = "end_branch"]

ForkingDefinitions == {Forking}

SmallDefinitions == [{"a", "b", "c"} -> SmallNode] \cup {Diamond, Forking}

=============================================================================
