---------------------------- MODULE TableDeployment ----------------------------
(***************************************************************************)
(* DynamoDBSaver(deploy=True) in several processes at once: create the     *)
(* table or bring an existing one to its configuration, turn the TTL on    *)
(* and give every item stored before it an expiry, while savers of the     *)
(* service go on putting items.  Items are those of the root namespace.    *)
(***************************************************************************)
EXTENDS Naturals, FiniteSets

CONSTANTS
  Process,     \* the processes that deploy
  Checkpoint,  \* keys of checkpoints, each put once
  Write,       \* keys of writes, put again when a task is executed again
  Absent,      \* no item under this key
  MaxVersion,  \* bound: puts under one write key
  MaxCrashes   \* bound: processes killed while they deploy

ASSUME DeploymentAssumption ==
  /\ MaxVersion \in Nat \ {0} /\ MaxCrashes \in Nat
  /\ Checkpoint \cap Write = {}
  /\ Absent \notin [version : Nat, ttl : BOOLEAN]

Key  == Checkpoint \cup Write
Item == [version : 1..MaxVersion, ttl : BOOLEAN]

VARIABLES
  table,    \* "none", "creating" or "active"
  ttl,      \* the table's TimeToLiveStatus
  items,    \* the item under each key
  pc,       \* what each process does next
  kind,     \* the keys its current scan is filtered for
  left,     \* the keys its current scan has not evaluated
  page,     \* the items of the current page it has not put back yet
  crashes

vars == <<table, ttl, items, pc, kind, left, page, crashes>>

Enabled == {"scan", "put", "backfilled"}   \* past update_time_to_live

TypeOK ==
  /\ table \in {"none", "creating", "active"}
  /\ ttl \in {"disabled", "enabling", "enabled"}
  /\ items \in [Key -> Item \cup {Absent}]
  /\ pc \in [Process -> Enabled \cup {"new", "describe", "check", "create", "wait", "enable",
                                      "returned", "failed", "dead"}]
  /\ kind \in [Process -> {Checkpoint, Write}]
  /\ left \in [Process -> SUBSET Key]
  /\ page \in [Process -> [Key -> Item \cup {Absent}]]
  /\ crashes \in 0..MaxCrashes

NoPage == [k \in Key |-> Absent]

\* Either there is no table, or one from before the TTL with items in it.
Init ==
  /\ \/ table = "none" /\ items = NoPage
     \/ /\ table = "active"
        /\ items \in [Key -> {[version |-> 1, ttl |-> FALSE], Absent}]
  /\ ttl = "disabled"
  /\ pc = [p \in Process |-> "new"]
  /\ kind = [p \in Process |-> Checkpoint]
  /\ left = [p \in Process |-> {}]
  /\ page = [p \in Process |-> NoPage]
  /\ crashes = 0

At(p, label)   == pc[p] = label
Goto(p, label) == pc' = [pc EXCEPT ![p] = label]

-----------------------------------------------------------------------------
(* _create_or_update_table.                                                *)

Deploy(p) ==
  /\ At(p, "new")
  /\ Goto(p, "describe")
  /\ UNCHANGED <<table, ttl, items, kind, left, page, crashes>>

DescribeTable(p) ==
  /\ At(p, "describe")
  /\ Goto(p, IF table = "none" THEN "create" ELSE "check")
  /\ UNCHANGED <<table, ttl, items, kind, left, page, crashes>>

LacksTtl == ttl # "enabled"

\* Billing mode, capacity and backups are set to the same values by every
\* process; only the TTL is more than a setting.
CheckTable(p) ==
  /\ At(p, "check")
  /\ Goto(p, IF LacksTtl THEN "enable" ELSE "returned")
  /\ UNCHANGED <<table, ttl, items, kind, left, page, crashes>>

\* ResourceInUseException: another process creates it, and deploy returns.
CreateTable(p) ==
  /\ At(p, "create")
  /\ \/ table = "none" /\ table' = "creating" /\ Goto(p, "wait")
     \/ table # "none" /\ Goto(p, "returned") /\ UNCHANGED table
  /\ UNCHANGED <<ttl, items, kind, left, page, crashes>>

EnableAtOnce(p) ==                                                 \* mutant
  /\ At(p, "wait")
  /\ Goto(p, "enable")
  /\ UNCHANGED <<table, ttl, items, kind, left, page, crashes>>

WaitUntilExists(p) ==
  /\ At(p, "wait")
  /\ table = "active"
  /\ Goto(p, "enable")
  /\ UNCHANGED <<table, ttl, items, kind, left, page, crashes>>

-----------------------------------------------------------------------------
(* _enable_ttl.                                                            *)

Scan(p, keys) ==
  /\ kind' = [kind EXCEPT ![p] = keys]
  /\ left' = [left EXCEPT ![p] = Key]

TtlAlreadyOn == FALSE                                              \* mutant
TtlIsChanging == ttl # "disabled"

\* update_time_to_live raises when the table is still being created, which
\* __init__ takes for another process at work, and when the TTL is on or about
\* to be, which fails the deployment.
EnableTtl(p) ==
  /\ At(p, "enable")
  /\ \/ /\ table = "active" /\ ~TtlIsChanging
        /\ ttl' = "enabling"
        /\ Scan(p, Checkpoint)
        /\ Goto(p, "scan")
     \/ /\ table # "active"
        /\ Goto(p, "returned")
        /\ UNCHANGED <<ttl, kind, left>>
     \/ /\ table = "active" /\ TtlIsChanging
        /\ Goto(p, "failed")
        /\ UNCHANGED <<ttl, kind, left>>
  /\ UNCHANGED <<table, items, page, crashes>>

\* attribute_not_exists(#ttl), and the prefix of the kind of item.
Selected(p, k) == k \in kind[p] /\ items[k] # Absent /\ ~items[k].ttl

ScanOnce(p) == At(p, "scan") /\ page[p] = NoPage /\ left[p] = Key  \* mutant
More(p)     == At(p, "scan") /\ left[p] # {}

\* One page: the scan evaluates some more keys and returns those selected.
ScanPage(p) ==
  /\ More(p)
  /\ \E keys \in SUBSET left[p] \ {{}} :
       /\ left' = [left EXCEPT ![p] = @ \ keys]
       /\ page' = [page EXCEPT ![p] =
                     [k \in Key |-> IF k \in keys /\ Selected(p, k) THEN items[k] ELSE Absent]]
  /\ Goto(p, "put")
  /\ UNCHANGED <<table, ttl, items, kind, crashes>>

OnlyTheTtl(item) == [ttl |-> TRUE]                                 \* mutant
Stamped(item)    == [item EXCEPT !.ttl = TRUE]

\* batch.put_item({**item, ttl_attr: expiration_time}), item by item.
BackfillPut(p) ==
  /\ At(p, "put")
  /\ \E k \in Key :
       /\ page[p][k] # Absent
       /\ items' = [items EXCEPT ![k] = Stamped(page[p][k])]
       /\ page' = [page EXCEPT ![p][k] = Absent]
  /\ UNCHANGED <<table, ttl, pc, kind, left, crashes>>

PageDone(p) ==
  /\ At(p, "put")
  /\ page[p] = NoPage
  /\ Goto(p, "scan")
  /\ UNCHANGED <<table, ttl, items, kind, left, page, crashes>>

ScanDone(p) ==
  /\ At(p, "scan")
  /\ ~More(p)
  /\ \/ kind[p] = Checkpoint /\ Scan(p, Write) /\ UNCHANGED pc
     \/ kind[p] # Checkpoint /\ Goto(p, "backfilled") /\ UNCHANGED <<kind, left>>
  /\ UNCHANGED <<table, ttl, items, page, crashes>>

-----------------------------------------------------------------------------
(* DynamoDB, the savers of the service, and the death of a process.        *)

TableActive ==
  /\ table = "creating"
  /\ table' = "active"
  /\ UNCHANGED <<ttl, items, pc, kind, left, page, crashes>>

TtlActive ==
  /\ ttl = "enabling"
  /\ ttl' = "enabled"
  /\ UNCHANGED <<table, items, pc, kind, left, page, crashes>>

\* put and put_writes of savers that have the TTL in their configuration.
PutItem(k) ==
  /\ table = "active"
  /\ \/ items[k] = Absent /\ items' = [items EXCEPT ![k] = [version |-> 1, ttl |-> TRUE]]
     \/ /\ k \in Write /\ items[k] # Absent /\ items[k].version < MaxVersion
        /\ items' = [items EXCEPT ![k] = [version |-> @.version + 1, ttl |-> TRUE]]
  /\ UNCHANGED <<table, ttl, pc, kind, left, page, crashes>>

Crash(p) ==
  /\ pc[p] \notin {"new", "returned", "failed", "backfilled", "dead"}
  /\ crashes < MaxCrashes
  /\ crashes' = crashes + 1
  /\ Goto(p, "dead")
  /\ UNCHANGED <<table, ttl, items, kind, left, page>>

Step(p) ==
  \/ Deploy(p) \/ DescribeTable(p) \/ CheckTable(p) \/ CreateTable(p) \/ WaitUntilExists(p)
  \/ EnableTtl(p) \/ ScanPage(p) \/ BackfillPut(p) \/ PageDone(p) \/ ScanDone(p)

Next ==
  \/ \E p \in Process : Step(p) \/ Crash(p)
  \/ \E k \in Key : PutItem(k)
  \/ TableActive \/ TtlActive

Spec == Init /\ [][Next]_vars

\* DynamoDB finishes what it has begun and a process that deploys runs on.
Fairness ==
  /\ WF_vars(TableActive) /\ WF_vars(TtlActive)
  /\ \A p \in Process : WF_vars(Step(p))

FairSpec == Spec /\ Fairness

-----------------------------------------------------------------------------
(* Properties.                                                             *)

\* However many processes deploy at once, one backfills: no item is stamped by
\* two processes with two different expiries.
OneBackfill ==
  \A p, q \in Process : pc[p] \in Enabled /\ pc[q] \in Enabled => p = q

HasTtl(k) == items[k] # Absent => items[k].ttl

\* A process that returns from a backfill leaves no item without an expiry,
\* whatever is put between the pages of its scans.
BackfillCoversTheTable ==
  \A p \in Process : At(p, "backfilled") => \A k \in Key : HasTtl(k)

\* Once a process deploys, and unless one is killed at it, there will be a table
\* with the TTL on and an expiry on every item, whoever gets in whose way.
DeploymentTakesEffect ==
  (\E p \in Process : ~At(p, "new")) ~>
    (crashes > 0 \/ [](table = "active" /\ ttl = "enabled" /\ \A k \in Key : HasTtl(k)))

\* "once TTL is enabled, attribute will be added to all items without it"
\* (config.py:20): at the end of all deployments there are none left.
NoItemIsLeftOut ==
  ttl = "enabled" /\ (\A p \in Process : pc[p] \in {"returned", "failed", "backfilled", "dead"})
    => \A k \in Key : HasTtl(k)

\* "Then update existing items with TTL, but only those without the TTL
\* attribute" (saver.py:673).
OnlyItemsWithoutTtlAreUpdated ==
  [][\A p \in Process, k \in Key :
       BackfillPut(p) /\ items'[k] # items[k] => ~items[k].ttl]_vars

\* "Create a DynamoDBSaver instance and ensure table exists" (saver.py:516).
ReturnedMeansUsable ==
  \A p \in Process : At(p, "returned") => table = "active"

=============================================================================
