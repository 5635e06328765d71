------------------------------- MODULE MCCanReach -------------------------------
(***************************************************************************)
(* Instances of CanReach: every definition of three nodes over the types   *)
(* whose edges the search distinguishes.                                   *)
(***************************************************************************)
EXTENDS CanReach, TLC

Blank == [type |-> "other", on_success |-> NoName, on_response |-> NoName,
          on_event |-> NoName, on_failure |-> NoName, branches |-> <<>>,
          branch_entry_node |-> NoName]

Step(s, r)    == [Blank EXCEPT !.on_success = s, !.on_response = r]
Choice(b)     == [Blank EXCEPT !.type = "condition", !.branches = b]
Wait(e, s)    == [Blank EXCEPT !.type = "event_wait", !.on_event = e, !.on_success = s]
Fork(entry)   == [Blank EXCEPT !.type = "map_fork", !.branch_entry_node = entry]

SmallNode ==
  {Step(s, NoName) : s \in Target} \cup {Step("a", "b"), Step(NoName, "c")}
    \cup {Choice(<<x, y>>) : x, y \in Name}
    \cup {Wait(NoName, s) : s \in Name} \cup {Wait("b", "c"), Wait(NoName, NoName)}
    \cup {Fork(x) : x \in {"a", "c"}}

SmallDefinitions == [{"a", "b", "c"} -> SmallNode]

=============================================================================
