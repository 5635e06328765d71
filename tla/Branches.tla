------------------------------- MODULE Branches -------------------------------
(***************************************************************************)
(* The parallel branches of a map_fork, from the answer that delivers the  *)
(* list of items to the join: OrchestratorService.process_command on an    *)
(* answer that leads into a map_fork and on the responses of its branches, *)
(* and _drain_parallel_fanout.                                             *)
(*                                                                         *)
(* All branches live on one thread and one chain of checkpoints.  Each     *)
(* get_state and each update_state is a step.  (Orchestrator splits        *)
(* update_state further, into its read and its put.)  The definition is    *)
(* the branch part of the v2.2.0 scenario, whose nodes the actions name.   *)
(***************************************************************************)
EXTENDS Integers, Sequences, FiniteSets, Functions

CONSTANTS
  Key,                  \* branch keys (the values of filingPackId)
  NoKey,                \* no branch; an absent field
  Items,                \* the keys of the items in the answer's list, in order
  KeyIsFilingPackId,    \* the map_fork's branch_key is the field filingPackId
  Reports,              \* bound: outcomes the customs authority may report
  Worker,               \* concurrently running Lambda containers
  NoJob,                \* the container is handling no command
  MaxDuplicates,        \* bound: deliveries of a command beyond the first
  MaxCrashes            \* bound: containers killed

Field == {"id", "submissionStatus", "customStatus"}

\* A field's value is abstracted to the branch whose item or response it is of.
Item  == [Field -> Key \cup {NoKey}]
Empty == [f \in Field |-> NoKey]

FilingPack(k) == [Empty EXCEPT !["id"] = k]

Node == {"Create_Filing_Packs", "Submit_Import_Filing_Fork",
         "Submit_Import_Filing", "Wait_For_Custom_Status_Update", "End_Branch",
         "Join_Filing_Pack_Submissions", "Handle_Error", "End_Workflow", "END"}

\* in_reply_to 0 is the request of Create_Filing_Packs.
CreateAnswer   == [type : {"ASYNC_RESP"}, branch : {NoKey}, in_reply_to : {0},
                   outcome : {"SUCCESS"}]
BranchAnswer   == [type : {"ASYNC_RESP"}, branch : Key, in_reply_to : Nat \ {0},
                   outcome : {"SUCCESS", "ERROR"}]
BranchEvent    == [type : {"EVENT_WAIT_RESP"}, branch : Key, in_reply_to : {0},
                   outcome : {"HELD", "RELEASED"}]
Command        == CreateAnswer \cup BranchAnswer \cup BranchEvent

Request == [branch : Key \cup {NoKey}, item : Item]

\* The channels of a checkpoint that the branches depend on.
Checkpoint ==
  [next              : Node,             \* pending task
   packs             : [Key -> Item],    \* data.importFilingPacks, by key
   current_map_item  : Item,             \* data.current_map_item
   map_items_by_key  : [Key -> Item],    \* context, Empty if absent
   processed         : SUBSET Key,       \* context.processed_branch_requests
   replies           : SUBSET Nat,       \* context.processed_async_replies
   branch_key        : Key \cup {NoKey}, \* context.branch_key
   completed         : SUBSET Key]       \* context.completed_branch_keys

ASSUME BranchesAssumption ==
  /\ NoKey \notin Key
  /\ Items \in Seq(Key) /\ Items # <<>> /\ IsInjective(Items)
  /\ KeyIsFilingPackId \in BOOLEAN
  /\ Reports \subseteq {"HELD", "RELEASED"}
  /\ NoJob \notin Command
  /\ MaxDuplicates \in Nat /\ MaxCrashes \in Nat

VARIABLES
  checkpoint,  \* the latest checkpoint of the instance
  queue,       \* commands waiting in the command queue
  sent,        \* every command ever sent
  requests,    \* sequence of the requests sent to the branches' capability
  pc,          \* per container: its next step
  job,         \* per container: the command it handles
  mem,         \* per container: the checkpoint it read last, or runs on
  item,        \* per container: map_item, then merged_item
  todo,        \* per container: items the drain has not looked at
  duplicates, crashes

vars == <<checkpoint, queue, sent, requests, pc, job, mem, item, todo,
          duplicates, crashes>>

world == <<queue, sent, requests, duplicates, crashes>>

TypeOK ==
  /\ checkpoint \in Checkpoint
  /\ queue \subseteq Command
  /\ sent \subseteq Command
  /\ requests \in Seq(Request)
  /\ pc \in [Worker -> {"idle", "restore", "snapshot", "mark", "merge", "persist",
                        "readList", "writeList", "readMirror", "writeMirror",
                        "readData", "apply", "load", "run", "drain", "inFlight",
                        "drainItem", "drainSend", "drainMark", "finish"}]
  /\ job \in [Worker -> Command \cup {NoJob}]
  /\ mem \in [Worker -> Checkpoint]
  /\ item \in [Worker -> Item]
  /\ todo \in [Worker -> Seq(Range(Items))]
  /\ duplicates \in 0..MaxDuplicates
  /\ crashes \in 0..MaxCrashes

\* The instance is paused at Create_Filing_Packs.
Paused ==
  [next |-> "Create_Filing_Packs", packs |-> [k \in Key |-> Empty],
   current_map_item |-> Empty, map_items_by_key |-> [k \in Key |-> Empty],
   processed |-> {}, replies |-> {}, branch_key |-> NoKey, completed |-> {}]

Init ==
  /\ checkpoint = Paused
  /\ sent = CreateAnswer
  /\ queue = CreateAnswer
  /\ requests = <<>>
  /\ pc = [w \in Worker |-> "idle"]
  /\ job = [w \in Worker |-> NoJob]
  /\ mem = [w \in Worker |-> Paused]
  /\ item = [w \in Worker |-> Empty]
  /\ todo = [w \in Worker |-> <<>>]
  /\ duplicates = 0
  /\ crashes = 0

\* _deep_merge_dict, of items: the right operand wins where it has a value.
Merge(left, right) ==
  [f \in Field |-> IF right[f] # NoKey THEN right[f] ELSE left[f]]

Goto(w, label) == pc' = [pc EXCEPT ![w] = label]

IsBranch(w) == job[w].branch # NoKey
Branch(w)   == job[w].branch

\* The command's payload, as far as it goes into the branch's item.
Payload(c) ==
  [Empty EXCEPT ![IF c.type = "ASYNC_RESP" THEN "submissionStatus"
                                           ELSE "customStatus"] = c.branch]

-----------------------------------------------------------------------------
(* The queue.                                                              *)

Receive(w) ==
  /\ pc[w] = "idle"
  /\ \E c \in queue :
       /\ queue' = queue \ {c}
       /\ job' = [job EXCEPT ![w] = c]
       /\ Goto(w, IF c.branch = NoKey THEN "snapshot" ELSE "restore")
  /\ UNCHANGED <<checkpoint, sent, requests, mem, item, todo, duplicates, crashes>>

\* What a container remembers of a command does not outlive it.
Forget(w) ==
  /\ Goto(w, "idle")
  /\ job' = [job EXCEPT ![w] = NoJob]
  /\ mem' = [mem EXCEPT ![w] = Paused]
  /\ item' = [item EXCEPT ![w] = Empty]
  /\ todo' = [todo EXCEPT ![w] = <<>>]

Finish(w) ==
  /\ pc[w] = "finish"
  /\ Forget(w)
  /\ UNCHANGED <<checkpoint, queue, sent, requests, duplicates, crashes>>

\* The command becomes visible again after the visibility timeout.
Crash(w) ==
  /\ pc[w] # "idle"
  /\ crashes < MaxCrashes
  /\ crashes' = crashes + 1
  /\ queue' = queue \cup {job[w]}
  /\ Forget(w)
  /\ UNCHANGED <<checkpoint, sent, requests, duplicates>>

Duplicate(c) ==
  /\ c \in sent \ queue
  /\ duplicates < MaxDuplicates
  /\ duplicates' = duplicates + 1
  /\ queue' = queue \cup {c}
  /\ UNCHANGED <<checkpoint, sent, requests, pc, job, mem, item, todo, crashes>>

Send(c) ==
  /\ c \notin sent
  /\ sent' = sent \cup {c}
  /\ queue' = queue \cup {c}
  /\ UNCHANGED <<checkpoint, requests, pc, job, mem, item, todo, duplicates, crashes>>

Answered(i) == \E c \in sent : c.in_reply_to = i

\* The capability answers a request once, with the routing hint it came with.
CapabilityAnswers(i) ==
  /\ i \in DOMAIN requests
  /\ ~Answered(i)
  /\ \E outcome \in {"SUCCESS", "ERROR"} :
       Send([type |-> "ASYNC_RESP", branch |-> requests[i].branch,
             in_reply_to |-> i, outcome |-> outcome])

\* The customs authority reports on an item that was submitted.
CustomsReports(k) ==
  /\ \E c \in sent : c.branch = k /\ c.type = "ASYNC_RESP" /\ c.outcome = "SUCCESS"
  /\ \E outcome \in Reports :
       Send([type |-> "EVENT_WAIT_RESP", branch |-> k, in_reply_to |-> 0,
             outcome |-> outcome])

-----------------------------------------------------------------------------
(* A response: from its receipt to the update that resumes the graph.      *)

\* No channel is ever called branch_checkpoints.<key> or map_items_by_key.<key>,
\* so both lookups fall through to context.map_items_by_key.
LookupItem(w) ==
  /\ pc[w] = "restore"
  /\ item[w] = Empty
  /\ IF checkpoint.map_items_by_key[Branch(w)] = Empty
       THEN Goto(w, "finish") /\ UNCHANGED item
       ELSE UNCHANGED pc /\
            item' = [item EXCEPT ![w] = checkpoint.map_items_by_key[Branch(w)]]
  /\ UNCHANGED <<checkpoint, job, mem, todo, world>>

RestoreItem(w) ==
  /\ pc[w] = "restore"
  /\ item[w] # Empty
  /\ checkpoint' = [checkpoint EXCEPT !.current_map_item = Merge(@, item[w])]
  /\ Goto(w, "snapshot")
  /\ UNCHANGED <<job, mem, item, todo, world>>

IsAnswer(w) == job[w].type = "ASYNC_RESP"

AnyProcessed(w) == checkpoint.replies # {}                         \* mutant
AlreadyProcessed(w) == job[w].in_reply_to \in checkpoint.replies

\* get_state, the pause check (not made for branches) and the idempotency check
Snapshot(w) ==
  /\ pc[w] = "snapshot"
  /\ mem' = [mem EXCEPT ![w] = checkpoint]
  /\ IF IsAnswer(w) /\ (AlreadyProcessed(w) \/ (~IsBranch(w) /\ checkpoint.next = "END"))
       THEN Goto(w, "finish")
       ELSE Goto(w, IF IsAnswer(w) THEN "mark" ELSE "merge")
  /\ UNCHANGED <<checkpoint, job, item, todo, world>>

Mark(w) ==
  /\ pc[w] = "mark"
  /\ checkpoint' = [checkpoint EXCEPT !.replies = @ \cup {job[w].in_reply_to}]
  /\ Goto(w, IF IsBranch(w) THEN "merge" ELSE "readData")
  /\ UNCHANGED <<job, mem, item, todo, world>>

ExistingItem(w) ==
  IF mem[w].current_map_item # Empty THEN mem[w].current_map_item
  ELSE mem[w].map_items_by_key[Branch(w)]

MergedItem(w) == Merge(ExistingItem(w), Payload(job[w]))

MergeItem(w) ==
  /\ pc[w] = "merge"
  /\ item' = [item EXCEPT ![w] = MergedItem(w)]
  /\ checkpoint' = [checkpoint EXCEPT !.current_map_item = Merge(@, MergedItem(w))]
  /\ Goto(w, "persist")
  /\ UNCHANGED <<job, mem, todo, world>>

\* Twice the same update: the parent thread is the active one.
PersistItem(w) ==
  /\ pc[w] = "persist"
  /\ checkpoint' =
       [checkpoint EXCEPT !.map_items_by_key[Branch(w)] = Merge(@, item[w])]
  /\ Goto(w, "readList")
  /\ UNCHANGED <<job, mem, item, todo, world>>

\* The list is read, changed and written back as a whole, and then once more
\* "on the parent".
ReadList(w) ==
  /\ pc[w] \in {"readList", "readMirror"}
  /\ mem' = [mem EXCEPT ![w] = checkpoint]
  /\ Goto(w, IF pc[w] = "readList" THEN "writeList" ELSE "writeMirror")
  /\ UNCHANGED <<checkpoint, job, item, todo, world>>

\* mutants: writes the merged item, or the bare payload, into the list
MergedItemIntoList(w) ==
  [mem[w].packs EXCEPT ![Branch(w)] = Merge(@, item[w])]
PayloadIntoList(w) == [mem[w].packs EXCEPT ![Branch(w)] = Payload(job[w])]
ListWithPayload(w) ==
  [mem[w].packs EXCEPT ![Branch(w)] = Merge(@, Payload(job[w]))]

WriteList(w) ==
  /\ pc[w] \in {"writeList", "writeMirror"}
  /\ checkpoint' = [checkpoint EXCEPT !.packs = ListWithPayload(w)]
  /\ Goto(w, IF pc[w] = "writeList" THEN "readMirror" ELSE "readData")
  /\ UNCHANGED <<job, mem, item, todo, world>>

ReadData(w) ==
  /\ pc[w] = "readData"
  /\ mem' = [mem EXCEPT ![w] = checkpoint]
  /\ Goto(w, "apply")
  /\ UNCHANGED <<checkpoint, job, item, todo, world>>

\* The answer of Create_Filing_Packs replaces the list.
NewList == [k \in Key |-> IF k \in Range(Items) THEN FilingPack(k) ELSE Empty]

\* Where the edges of the transition node lead: the map_fork, else the condition
\* Check_Submit_Response or Check_Custom_Status on the response's own status.
EdgeOfTransition(c) ==
  CASE c.branch = NoKey         -> "Submit_Import_Filing_Fork"
    [] c.outcome = "ERROR"      -> "Handle_Error"
    [] c.outcome = "RELEASED"   -> "End_Branch"
    [] OTHER                    -> "Wait_For_Custom_Status_Update"

\* update_state(data as read, merged with the payload; as_node=transition_node)
Apply(w) ==
  /\ pc[w] = "apply"
  /\ checkpoint' =
       [checkpoint EXCEPT
          !.next = EdgeOfTransition(job[w]),
          !.packs = IF IsBranch(w) THEN mem[w].packs ELSE NewList,
          !.current_map_item = Merge(@, mem[w].current_map_item)]
  /\ Goto(w, "load")
  /\ UNCHANGED <<job, mem, item, todo, world>>

-----------------------------------------------------------------------------
(* graph.invoke(None): one superstep, one checkpoint at a time.            *)

LoadForInvoke(w) ==
  /\ pc[w] = "load"
  /\ mem' = [mem EXCEPT ![w] = checkpoint]
  /\ Goto(w, "run")
  /\ UNCHANGED <<checkpoint, job, item, todo, world>>

Running(w, n) == pc[w] = "run" /\ mem[w].next = n

Put(w, c) ==
  /\ checkpoint' = c
  /\ mem' = [mem EXCEPT ![w] = c]
  /\ UNCHANGED <<pc, job, item, todo, world>>

Last(s) == s[Len(s)]

\* What the reducers make of the registered items, taken in the order of the
\* list: in each field the last item that has it wins.
LastWith(c, f) ==
  LET having == {i \in DOMAIN Items : c.packs[Items[i]][f] # NoKey}
  IN  IF having = {} THEN c.current_map_item[f]
      ELSE c.packs[Items[CHOOSE i \in having : \A j \in having : j <= i]][f]

RegisterWithoutItems(w) ==                                         \* mutant
  /\ Running(w, "Submit_Import_Filing_Fork")
  /\ Put(w, [mem[w] EXCEPT
                !.next = "Submit_Import_Filing",
                !.branch_key = Last(Items),
                !.current_map_item = [f \in Field |-> LastWith(mem[w], f)]])

\* map_resolver sends one registration per item; they run in one superstep and
\* lead to one run of the entry node.  (Their put_writes reach no channel.)
RegisterBranches(w) ==
  /\ Running(w, "Submit_Import_Filing_Fork")
  /\ Put(w, [mem[w] EXCEPT
                !.next = "Submit_Import_Filing",
                !.branch_key = Last(Items),
                !.current_map_item = [f \in Field |-> LastWith(mem[w], f)],
                !.map_items_by_key =
                   [k \in Key |-> Merge(@[k], mem[w].packs[k])]])

AfterInvoke(w) == Goto(w, IF IsBranch(w) THEN "finish" ELSE "drain")

RunSubmit(w) ==
  /\ Running(w, "Submit_Import_Filing")
  /\ requests' = Append(requests, [branch |-> mem[w].branch_key,
                                   item   |-> mem[w].current_map_item])
  /\ AfterInvoke(w)
  /\ UNCHANGED <<checkpoint, queue, sent, job, mem, item, todo, duplicates, crashes>>

\* interrupt() at the wait, or nothing left to run.  (Invoked on a checkpoint
\* that still waits for Create_Filing_Packs, the graph would ask again; that is
\* Orchestrator's subject.)
RunStops(w) ==
  /\ pc[w] = "run"
  /\ mem[w].next \in {"Wait_For_Custom_Status_Update", "END"}
  /\ AfterInvoke(w)
  /\ UNCHANGED <<checkpoint, job, mem, item, todo, world>>

RunEndBranch(w) ==
  /\ Running(w, "End_Branch")
  /\ Put(w, [mem[w] EXCEPT
                !.next = "Join_Filing_Pack_Submissions",
                !.completed = @ \cup ({mem[w].branch_key} \ {NoKey})])

\* context.join_expected_by_join is read here and written nowhere.
join_expected_by_join == {}

JoinPasses(w) ==
  /\ Running(w, "Join_Filing_Pack_Submissions")
  /\ join_expected_by_join \subseteq mem[w].completed
  /\ Put(w, [mem[w] EXCEPT !.next = "End_Workflow"])

RunHandleError(w) ==
  /\ Running(w, "Handle_Error")
  /\ Put(w, [mem[w] EXCEPT !.next = "End_Workflow"])

RunEnd(w) ==
  /\ Running(w, "End_Workflow")
  /\ Put(w, [mem[w] EXCEPT !.next = "END"])

-----------------------------------------------------------------------------
(* _drain_parallel_fanout                                                  *)

\* The list is still that of the answer, whatever was merged into its items.
DrainRead(w) ==
  /\ pc[w] = "drain"
  /\ mem' = [mem EXCEPT ![w] = checkpoint]
  /\ todo' = [todo EXCEPT ![w] = Items]
  /\ Goto(w, "inFlight")
  /\ UNCHANGED <<checkpoint, job, item, world>>

\* The field is filingPackId whatever the map_fork's branch_key is.
InFlight(w) == IF KeyIsFilingPackId THEN mem[w].current_map_item["id"] ELSE NoKey

PersistInFlight(w) ==
  /\ pc[w] = "inFlight"
  /\ checkpoint' =
       IF InFlight(w) = NoKey THEN checkpoint
       ELSE [checkpoint EXCEPT !.map_items_by_key[InFlight(w)] =
                                  Merge(@, mem[w].current_map_item)]
  /\ Goto(w, "drainItem")
  /\ UNCHANGED <<job, mem, item, todo, world>>

\* mutants: forget the branch in flight, or skip what is registered
NotInFlight(w, k) == k \in mem[w].processed
SkipRegistered(w, k) == mem[w].map_items_by_key[k] # Empty
Skipped(w, k) == k \in mem[w].processed \/ k = InFlight(w)

DrainSkip(w) ==
  /\ pc[w] = "drainItem"
  /\ todo[w] # <<>>
  /\ Skipped(w, Head(todo[w]))
  /\ todo' = [todo EXCEPT ![w] = Tail(@)]
  /\ UNCHANGED <<checkpoint, pc, job, mem, item, world>>

DrainPersist(w) ==
  /\ pc[w] = "drainItem"
  /\ todo[w] # <<>>
  /\ LET k == Head(todo[w])
     IN  /\ ~Skipped(w, k)
         /\ checkpoint' = [checkpoint EXCEPT !.map_items_by_key[k] =
                                                Merge(@, mem[w].packs[k])]
  /\ Goto(w, "drainSend")
  /\ UNCHANGED <<job, mem, item, todo, world>>

\* mutant: keeps the current_map_item of data
DrainRequestOfData(w) ==
  [branch |-> Head(todo[w]), item |-> mem[w].current_map_item]
DrainRequest(w) == [branch |-> Head(todo[w]), item |-> mem[w].packs[Head(todo[w])]]

DrainSend(w) ==
  /\ pc[w] = "drainSend"
  /\ requests' = Append(requests, DrainRequest(w))
  /\ Goto(w, "drainMark")
  /\ UNCHANGED <<checkpoint, queue, sent, job, mem, item, todo, duplicates, crashes>>

DrainMark(w) ==
  /\ pc[w] = "drainMark"
  /\ checkpoint' = [checkpoint EXCEPT !.processed = @ \cup {Head(todo[w])}]
  /\ todo' = [todo EXCEPT ![w] = Tail(@)]
  /\ Goto(w, "drainItem")
  /\ UNCHANGED <<job, mem, item, world>>

DrainDone(w) ==
  /\ pc[w] = "drainItem"
  /\ todo[w] = <<>>
  /\ Goto(w, "finish")
  /\ UNCHANGED <<checkpoint, job, mem, item, todo, world>>

-----------------------------------------------------------------------------

Respond(w) ==
  \/ LookupItem(w) \/ RestoreItem(w) \/ Snapshot(w)
  \/ Mark(w) \/ MergeItem(w) \/ PersistItem(w) \/ ReadList(w) \/ WriteList(w)
  \/ ReadData(w) \/ Apply(w) \/ LoadForInvoke(w)

Run(w) ==
  \/ RegisterBranches(w) \/ RunSubmit(w) \/ RunStops(w) \/ RunEndBranch(w)
  \/ JoinPasses(w) \/ RunHandleError(w) \/ RunEnd(w)

Drain(w) ==
  \/ DrainRead(w) \/ PersistInFlight(w) \/ DrainSkip(w) \/ DrainPersist(w)
  \/ DrainSend(w) \/ DrainMark(w) \/ DrainDone(w)

Handle(w) == Receive(w) \/ Respond(w) \/ Run(w) \/ Drain(w) \/ Finish(w)

Environment ==
  \/ \E i \in DOMAIN requests : CapabilityAnswers(i)
  \/ \E k \in Key : CustomsReports(k)
  \/ \E c \in sent : Duplicate(c)

Next == Environment \/ \E w \in Worker : Handle(w) \/ Crash(w)

Spec == Init /\ [][Next]_vars

\* As in Orchestrator: Lambda polls, handlers run, the capability answers.
Fairness ==
  /\ \A w \in Worker : WF_vars(Handle(w))
  /\ \A i \in 1..Len(Items) : WF_vars(CapabilityAnswers(i))

FairSpec == Spec /\ Fairness

-----------------------------------------------------------------------------
(* Properties.                                                             *)

\* Whoever is asked about a branch can be answered: the items of all branches
\* are in the context before the first request leaves, and no update, on however
\* many containers, removes one.  (A response without an item is an error the
\* code logs and drops.)
AnswersFindTheirItem ==
  \A i \in DOMAIN requests :
    checkpoint.map_items_by_key[requests[i].branch] # Empty

\* The two ways a branch's request is built, by the graph from the channels and
\* by the drain from a state of its own, put the branch's item under the
\* branch's routing hint.
RequestsNameTheirBranch ==
  \A i \in DOMAIN requests : requests[i].item["id"] = requests[i].branch

\* The graph and the drain share the branches out: no branch is asked for twice,
\* whatever is delivered again and wherever a container dies.
OneRequestPerBranch ==
  \A i, j \in DOMAIN requests : requests[i].branch = requests[j].branch => i = j

\* Responses of different branches meet in data.current_map_item, but what is
\* written into the list is of the item's own branch only.
ListHoldsOwnData ==
  \A k \in Key, f \in Field : checkpoint.packs[k][f] \in {NoKey, k}

\* What a response has put into the list stays there, although every response
\* writes the list three times as a whole.
ListKeepsAnswers ==
  [][\A k \in Key, f \in Field :
       checkpoint.packs[k][f] = k => checkpoint'.packs[k][f] = k]_vars

\* The drain leaves no branch out: once the answer with the list is taken, each
\* of its items is asked for.
EveryBranchIsRequested ==
  \A k \in Range(Items) :
    0 \in checkpoint.replies ~> \E i \in DOMAIN requests : requests[i].branch = k

\* Every branch's response reaches the list the workflow goes on with.
AnswersReachTheList ==
  \A k \in Key :
    (\E c \in sent : c.branch = k /\ c.type = "ASYNC_RESP")
      ~> checkpoint.packs[k]["submissionStatus"] = k

-----------------------------------------------------------------------------
(* What comments of the code say, and the code does not do.                *)

\* handle_join: "wait until all are completed"
JoinWaitsForAllBranches ==
  [][(checkpoint.next = "Join_Filing_Pack_Submissions"
        /\ checkpoint'.next = "End_Workflow")
      => Range(Items) \subseteq checkpoint.completed]_vars

\* handle_end_branch: "Marks the current branch as completed"
CompletedBranchesWereReleased ==
  \A k \in checkpoint.completed :
    \E c \in sent : c.branch = k /\ c.outcome = "RELEASED"

\* process_command: "restore current_map_item from persisted map"
ItemIsRestored ==
  \A w \in Worker :
    (pc[w] = "snapshot" /\ IsBranch(w)) => checkpoint.current_map_item = item[w]

=============================================================================
