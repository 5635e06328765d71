------------------------ MODULE TableDeployment_proofs ------------------------
(***************************************************************************)
(* For any number of processes and keys: the types, that one process       *)
(* backfills, and that a finished backfill has covered the table.          *)
(***************************************************************************)
EXTENDS TableDeployment, TLAPS

\* The TTL is on or coming from the moment a process is past its update.
BackfillNeedsTtl ==
  /\ \A p \in Process : pc[p] \in Enabled => ttl # "disabled"
  /\ OneBackfill

\* What a backfill has behind it: the keys of the scans it finished, and of this
\* scan the keys it evaluated and does not hold in its page.
Behind(p, k) ==
  \/ At(p, "backfilled")
  \/ kind[p] = Write /\ k \in Checkpoint
  \/ k \in kind[p] /\ k \notin left[p] /\ page[p][k] = Absent

Progress(p) ==
  /\ pc[p] # "put" /\ pc[p] # "dead" => page[p] = NoPage
  /\ pc[p] \in Enabled => \A k \in Key : Behind(p, k) => HasTtl(k)

BackfillProgress == \A p \in Process : Progress(p)

LEMMA Kinds ==
  ASSUME NEW k \in Key PROVE k \in Checkpoint \/ k \in Write
PROOF BY DEF Key

(* Types.                                                                  *)

LEMMA InitType == Init => TypeOK
PROOF
<1>1. {[version |-> 1, ttl |-> FALSE], Absent} \subseteq Item \cup {Absent}
  BY DeploymentAssumption DEF DeploymentAssumption, Item
<1>2. NoPage \in [Key -> Item \cup {Absent}]
  BY DEF NoPage
<1>3. 0 \in 0..MaxCrashes
  BY DeploymentAssumption DEF DeploymentAssumption
<1> QED
  BY <1>1, <1>2, <1>3 DEF Init, TypeOK

LEMMA StepType ==
  ASSUME TypeOK, [Next]_vars
  PROVE  TypeOK'
PROOF
<1> USE DEF TypeOK, Enabled, Goto, At
<1>1. CASE UNCHANGED vars
  BY <1>1 DEF vars
<1>2. ASSUME NEW p \in Process, Deploy(p) PROVE TypeOK'
  BY <1>2 DEF Deploy
<1>3. ASSUME NEW p \in Process, DescribeTable(p) PROVE TypeOK'
  BY <1>3 DEF DescribeTable
<1>4. ASSUME NEW p \in Process, CheckTable(p) PROVE TypeOK'
  BY <1>4 DEF CheckTable
<1>5. ASSUME NEW p \in Process, CreateTable(p) PROVE TypeOK'
  BY <1>5 DEF CreateTable
<1>6. ASSUME NEW p \in Process, WaitUntilExists(p) PROVE TypeOK'
  BY <1>6 DEF WaitUntilExists
<1>7. ASSUME NEW p \in Process, EnableTtl(p) PROVE TypeOK'
  BY <1>7 DEF EnableTtl, Scan
<1>8. ASSUME NEW p \in Process, ScanPage(p) PROVE TypeOK'
  <2>1. PICK keys \in SUBSET left[p] \ {{}} :
          /\ left' = [left EXCEPT ![p] = @ \ keys]
          /\ page' = [page EXCEPT ![p] =
               [k \in Key |-> IF k \in keys /\ Selected(p, k) THEN items[k] ELSE Absent]]
    BY <1>8 DEF ScanPage
  <2>2. [k \in Key |-> IF k \in keys /\ Selected(p, k) THEN items[k] ELSE Absent]
          \in [Key -> Item \cup {Absent}]
    OBVIOUS
  <2>3. page' \in [Process -> [Key -> Item \cup {Absent}]]
    BY <2>1, <2>2
  <2>4. left' \in [Process -> SUBSET Key]
    BY <2>1
  <2> QED
    BY <1>8, <2>3, <2>4 DEF ScanPage
<1>9. ASSUME NEW p \in Process, BackfillPut(p) PROVE TypeOK'
  <2>1. PICK k \in Key : /\ page[p][k] # Absent
                         /\ items' = [items EXCEPT ![k] = Stamped(page[p][k])]
                         /\ page' = [page EXCEPT ![p][k] = Absent]
    BY <1>9 DEF BackfillPut
  <2>2. page[p][k] \in Item
    BY <2>1
  <2>3. Stamped(page[p][k]) \in Item
    BY <2>2 DEF Item, Stamped
  <2>4. items' \in [Key -> Item \cup {Absent}]
    BY <2>1, <2>3
  <2>5. page' \in [Process -> [Key -> Item \cup {Absent}]]
    BY <2>1
  <2> QED
    BY <1>9, <2>4, <2>5 DEF BackfillPut
<1>10. ASSUME NEW p \in Process, PageDone(p) PROVE TypeOK'
  BY <1>10 DEF PageDone
<1>11. ASSUME NEW p \in Process, ScanDone(p) PROVE TypeOK'
  BY <1>11 DEF ScanDone, Scan
<1>12. ASSUME NEW p \in Process, Crash(p) PROVE TypeOK'
  <2>1. crashes' \in 0..MaxCrashes
    BY <1>12, DeploymentAssumption DEF Crash, DeploymentAssumption
  <2> QED
    BY <1>12, <2>1 DEF Crash
<1>13. ASSUME NEW k \in Key, PutItem(k) PROVE TypeOK'
  <2>1. [version |-> 1, ttl |-> TRUE] \in Item
    BY DeploymentAssumption DEF DeploymentAssumption, Item
  <2>2. CASE items[k] = Absent
    <3>1. items' = [items EXCEPT ![k] = [version |-> 1, ttl |-> TRUE]]
      BY <1>13, <2>2 DEF PutItem
    <3>2. items' \in [Key -> Item \cup {Absent}]
      BY <2>1, <3>1
    <3> QED
      BY <1>13, <3>2 DEF PutItem
  <2>3. CASE items[k] # Absent
    <3>1. /\ items' = [items EXCEPT ![k] = [version |-> items[k].version + 1, ttl |-> TRUE]]
          /\ items[k].version < MaxVersion
      BY <1>13, <2>3 DEF PutItem
    <3>2. items[k].version \in 1..MaxVersion
      BY <2>3 DEF Item
    <3>3. [version |-> items[k].version + 1, ttl |-> TRUE] \in Item
      BY <3>1, <3>2, DeploymentAssumption DEF DeploymentAssumption, Item
    <3>4. items' \in [Key -> Item \cup {Absent}]
      BY <3>1, <3>3
    <3> QED
      BY <1>13, <3>4 DEF PutItem
  <2> QED
    BY <2>2, <2>3
<1>14. CASE TableActive
  BY <1>14 DEF TableActive
<1>15. CASE TtlActive
  BY <1>15 DEF TtlActive
<1> QED
  BY <1>1, <1>2, <1>3, <1>4, <1>5, <1>6, <1>7, <1>8, <1>9, <1>10, <1>11, <1>12, <1>13, <1>14,
     <1>15 DEF Next, Step

\* Any number of processes may deploy, die and be joined by savers: the table,
\* its items and every scan keep their types (saver.py:530-748).
THEOREM DeploymentTypeCorrect == Spec => []TypeOK
PROOF BY InitType, StepType, PTL DEF Spec

(* One backfill.                                                           *)

LEMMA InitOne == Init => BackfillNeedsTtl
PROOF BY DEF Init, BackfillNeedsTtl, OneBackfill, Enabled

LEMMA StepOne ==
  ASSUME TypeOK, BackfillNeedsTtl, [Next]_vars
  PROVE  BackfillNeedsTtl'
PROOF
<1> USE DEF BackfillNeedsTtl, OneBackfill, TypeOK, Enabled, Goto, At
<1>1. CASE UNCHANGED vars
  BY <1>1 DEF vars
\* The only way in: the TTL was off, so that no other process is past it.
<1>2. ASSUME NEW p \in Process, EnableTtl(p) PROVE BackfillNeedsTtl'
  <2>1. CASE ttl = "disabled"
    <3>1. \A q \in Process : pc[q] \notin Enabled
      BY <2>1
    <3>2. \A q \in Process \ {p} : pc'[q] = pc[q]
      BY <1>2 DEF EnableTtl
    <3>3. \A q \in Process : pc'[q] \in Enabled => q = p
      BY <3>1, <3>2
    <3>4. pc'[p] \in Enabled => ttl' # "disabled"
      BY <1>2 DEF EnableTtl
    <3> QED
      BY <3>3, <3>4
  <2>2. CASE ttl # "disabled"
    BY <1>2, <2>2 DEF EnableTtl, TtlIsChanging
  <2> QED
    BY <2>1, <2>2
<1>3. ASSUME NEW p \in Process, \/ Deploy(p) \/ DescribeTable(p) \/ CheckTable(p)
                                \/ CreateTable(p) \/ WaitUntilExists(p)
      PROVE  BackfillNeedsTtl'
  BY <1>3 DEF Deploy, DescribeTable, CheckTable, CreateTable, WaitUntilExists
<1>4. ASSUME NEW p \in Process, ScanPage(p) \/ BackfillPut(p) \/ PageDone(p) \/ ScanDone(p)
      PROVE  BackfillNeedsTtl'
  <2>1. pc[p] \in Enabled /\ UNCHANGED ttl
    BY <1>4 DEF ScanPage, BackfillPut, PageDone, ScanDone, More
  <2>2. \A q \in Process : pc'[q] \in Enabled => pc[q] \in Enabled
    <3>1. CASE ScanPage(p)
      BY <3>1, <2>1 DEF ScanPage
    <3>2. CASE BackfillPut(p)
      BY <3>2 DEF BackfillPut
    <3>3. CASE PageDone(p)
      BY <3>3, <2>1 DEF PageDone
    <3>4. CASE ScanDone(p)
      BY <3>4, <2>1 DEF ScanDone
    <3> QED
      BY <1>4, <3>1, <3>2, <3>3, <3>4
  <2> QED
    BY <2>1, <2>2
<1>5. ASSUME NEW p \in Process, Crash(p) PROVE BackfillNeedsTtl'
  BY <1>5 DEF Crash
<1>6. ASSUME NEW k \in Key, PutItem(k) PROVE BackfillNeedsTtl'
  BY <1>6 DEF PutItem
<1>7. CASE TableActive
  BY <1>7 DEF TableActive
<1>8. CASE TtlActive
  BY <1>8 DEF TtlActive
<1> QED
  BY <1>1, <1>2, <1>3, <1>4, <1>5, <1>6, <1>7, <1>8 DEF Next, Step

\* However many processes find the TTL off at saver.py:577, one gets past
\* update_time_to_live and backfills.
THEOREM OneProcessBackfills == Spec => []OneBackfill
PROOF
<1>1. BackfillNeedsTtl => OneBackfill
  BY DEF BackfillNeedsTtl
<1> QED
  BY <1>1, InitOne, StepOne, DeploymentTypeCorrect, PTL DEF Spec

(* What a backfill has behind it has an expiry.                            *)

LEMMA InitProgress == Init => BackfillProgress
PROOF BY DEF Init, BackfillProgress, Progress, Enabled

\* A put of a saver or of a backfill adds an expiry and never takes one away.
LEMMA PutsKeepTtl ==
  ASSUME TypeOK, NEW k \in Key, HasTtl(k),
         \/ \E j \in Key : PutItem(j)
         \/ \E p \in Process : BackfillPut(p)
  PROVE  HasTtl(k)'
PROOF
<1> USE DEF TypeOK, HasTtl
<1>1. ASSUME NEW j \in Key, PutItem(j) PROVE HasTtl(k)'
  BY <1>1 DEF PutItem
<1>2. ASSUME NEW p \in Process, BackfillPut(p) PROVE HasTtl(k)'
  <2>1. PICK j \in Key : /\ page[p][j] # Absent
                         /\ items' = [items EXCEPT ![j] = Stamped(page[p][j])]
    BY <1>2 DEF BackfillPut
  <2>2. page[p][j] \in Item
    BY <2>1
  <2>3. Stamped(page[p][j]).ttl
    BY <2>2 DEF Stamped, Item
  <2> QED
    BY <2>1, <2>3
<1> QED
  BY <1>1, <1>2

LEMMA StepProgress ==
  ASSUME TypeOK, TypeOK', BackfillProgress, [Next]_vars
  PROVE  BackfillProgress'
PROOF
<1> SUFFICES ASSUME NEW q \in Process
             PROVE  Progress(q)'
  BY DEF BackfillProgress
<1> USE DEF TypeOK, Enabled, Goto, At, Progress
<1>0. Progress(q)
  BY DEF BackfillProgress
\* Steps of the settings and of other processes leave the scan of q alone.
<1>a. ASSUME UNCHANGED <<items, kind, left, page>>,
             \/ pc'[q] = pc[q]
             \/ pc[q] \notin {"put", "dead"} /\ pc'[q] \notin Enabled
             \/ pc'[q] = "dead"
      PROVE  Progress(q)'
  <2>1. CASE pc'[q] = pc[q]
    BY <1>0, <1>a, <2>1 DEF Behind, HasTtl
  <2>2. CASE pc'[q] # pc[q]
    BY <1>0, <1>a, <2>2
  <2> QED
    BY <2>1, <2>2
<1>1. CASE UNCHANGED vars
  BY <1>a, <1>1 DEF vars
<1>2. ASSUME NEW p \in Process, \/ Deploy(p) \/ DescribeTable(p) \/ CheckTable(p)
                                \/ CreateTable(p) \/ WaitUntilExists(p) \/ Crash(p)
      PROVE  /\ UNCHANGED <<items, kind, left, page>>
             /\ \/ pc'[q] = pc[q]
                \/ pc[q] \notin {"put", "dead"} /\ pc'[q] \notin Enabled
                \/ pc'[q] = "dead"
  BY <1>2 DEF Deploy, DescribeTable, CheckTable, CreateTable, WaitUntilExists, Crash
<1>3. ASSUME NEW p \in Process, EnableTtl(p)
      PROVE  Progress(q)'
  <2>1. CASE q = p /\ ttl' # ttl
    <3>1. /\ At(q, "enable") /\ UNCHANGED <<items, page>>
          /\ kind'[q] = Checkpoint /\ left'[q] = Key /\ pc'[q] = "scan"
      BY <1>3, <2>1 DEF EnableTtl, Scan
    <3>2. \A k \in Key : ~Behind(q, k)'
      BY <3>1, DeploymentAssumption DEF Behind, DeploymentAssumption
    <3> QED
      BY <1>0, <3>1, <3>2
  <2>2. CASE q # p \/ ttl' = ttl
    <3>1. UNCHANGED <<items, page>> /\ kind'[q] = kind[q] /\ left'[q] = left[q]
      BY <1>3, <2>2 DEF EnableTtl, Scan, TtlIsChanging
    <3>2. pc'[q] = pc[q] \/ (pc[q] \notin {"put", "dead"} /\ pc'[q] \notin Enabled)
      BY <1>3, <2>2 DEF EnableTtl, TtlIsChanging
    <3>3. CASE pc'[q] = pc[q]
      BY <1>0, <3>1, <3>3 DEF Behind, HasTtl
    <3> QED
      BY <1>0, <3>1, <3>2, <3>3
  <2> QED
    BY <2>1, <2>2
\* Of the keys a page evaluates, those it does not hold are absent or have a TTL.
<1>4. ASSUME NEW p \in Process, ScanPage(p)
      PROVE  Progress(q)'
  <2>1. UNCHANGED <<items, kind>> /\ At(p, "scan") /\ pc' = [pc EXCEPT ![p] = "put"]
    BY <1>4 DEF ScanPage, More
  <2>2. CASE q # p
    <3>1. page'[q] = page[q] /\ left'[q] = left[q] /\ pc'[q] = pc[q]
      BY <1>4, <2>2 DEF ScanPage
    <3> QED
      BY <1>0, <2>1, <3>1 DEF Behind, HasTtl
  <2>3. CASE q = p
    <3>1. PICK keys \in SUBSET left[p] \ {{}} :
            /\ left' = [left EXCEPT ![p] = @ \ keys]
            /\ page' = [page EXCEPT ![p] =
                 [k \in Key |-> IF k \in keys /\ Selected(p, k) THEN items[k] ELSE Absent]]
      BY <1>4 DEF ScanPage
    <3>2. ASSUME NEW k \in Key, Behind(q, k)' PROVE HasTtl(k)'
      <4>1. CASE Behind(q, k)
        BY <1>0, <2>1, <2>3, <4>1 DEF HasTtl
      <4>2. CASE ~Behind(q, k)
        <5>1. /\ k \in kind[p] /\ k \notin left'[p] /\ page'[p][k] = Absent
              /\ page[p][k] = Absent
          BY <1>0, <2>1, <2>3, <3>2, <4>2 DEF Behind, NoPage
        <5>2. k \in keys
          BY <2>3, <3>1, <4>2, <5>1 DEF Behind
        <5>3. page'[p][k] = IF k \in keys /\ Selected(p, k) THEN items[k] ELSE Absent
          BY <3>1
        <5> QED
          BY <2>1, <5>1, <5>2, <5>3 DEF Selected, HasTtl
      <4> QED
        BY <4>1, <4>2
    <3>3. pc'[q] = "put"
      BY <2>1, <2>3
    <3> QED
      BY <3>2, <3>3
  <2> QED
    BY <2>2, <2>3
<1>5. ASSUME NEW p \in Process, BackfillPut(p)
      PROVE  Progress(q)'
  <2>1. PICK j \in Key : /\ page[p][j] # Absent
                         /\ items' = [items EXCEPT ![j] = Stamped(page[p][j])]
                         /\ page' = [page EXCEPT ![p][j] = Absent]
    BY <1>5 DEF BackfillPut
  <2>2. UNCHANGED <<pc, kind, left>> /\ At(p, "put")
    BY <1>5 DEF BackfillPut
  <2>3. HasTtl(j)'
    BY <2>1 DEF HasTtl, Stamped, Item
  <2>4. ASSUME NEW k \in Key, Behind(q, k)', pc'[q] \in Enabled PROVE HasTtl(k)'
    <3>1. CASE q = p /\ k = j
      BY <2>3, <3>1
    <3>2. CASE q # p \/ k # j
      <4>1. page'[q][k] = page[q][k]
        BY <2>1, <3>2
      <4>2. HasTtl(k)
        BY <1>0, <2>2, <2>4, <4>1 DEF Behind
      <4> QED
        BY <1>5, <4>2, PutsKeepTtl
    <3> QED
      BY <3>1, <3>2
  <2>5. pc'[q] # "put" => page'[q] = page[q]
    BY <2>1, <2>2
  <2> QED
    BY <1>0, <2>2, <2>4, <2>5
<1>6. ASSUME NEW p \in Process, PageDone(p)
      PROVE  Progress(q)'
  BY <1>0, <1>6 DEF PageDone, Behind, HasTtl
<1>7. ASSUME NEW p \in Process, ScanDone(p)
      PROVE  Progress(q)'
  <2>1. UNCHANGED <<items, page>> /\ At(p, "scan") /\ left[p] = {}
    BY <1>7 DEF ScanDone, More
  <2>2. CASE q # p
    <3>1. kind'[q] = kind[q] /\ left'[q] = left[q] /\ pc'[q] = pc[q]
      BY <1>7, <2>2 DEF ScanDone, Scan
    <3> QED
      BY <1>0, <2>1, <3>1 DEF Behind, HasTtl
  <2>3. CASE q = p
    <3>1. page'[q] = NoPage
      BY <1>0, <2>1, <2>3
    <3>2. \A k \in Key : k \in kind[q] => HasTtl(k)
      BY <1>0, <2>1, <2>3, <3>1 DEF Behind, NoPage
    <3>3. CASE kind[p] = Checkpoint
      <4>1. pc'[q] = "scan" /\ kind'[q] = Write /\ left'[q] = Key
        BY <1>7, <2>1, <2>3, <3>3 DEF ScanDone, Scan
      <4>2. \A k \in Key : Behind(q, k)' => k \in Checkpoint
        BY <4>1 DEF Behind
      <4> QED
        BY <2>1, <2>3, <3>1, <3>2, <3>3, <4>2 DEF HasTtl
    <3>4. CASE kind[p] # Checkpoint
      <4>1. kind[q] = Write
        BY <2>3, <3>4
      <4>2. \A k \in Key : HasTtl(k)
        BY <1>0, <2>1, <2>3, <3>2, <4>1, Kinds DEF Behind
      <4> QED
        BY <2>1, <3>1, <4>2 DEF HasTtl
    <3> QED
      BY <3>3, <3>4
  <2> QED
    BY <2>2, <2>3
<1>8. ASSUME NEW j \in Key, PutItem(j)
      PROVE  Progress(q)'
  <2>1. UNCHANGED <<pc, kind, left, page>>
    BY <1>8 DEF PutItem
  <2>2. ASSUME NEW k \in Key, Behind(q, k)', pc'[q] \in Enabled PROVE HasTtl(k)'
    <3>1. HasTtl(k)
      BY <1>0, <2>1, <2>2 DEF Behind
    <3> QED
      BY <1>8, <3>1, PutsKeepTtl
  <2> QED
    BY <1>0, <2>1, <2>2
<1>9. CASE TableActive \/ TtlActive
  <2>1. UNCHANGED <<items, kind, left, page, pc>>
    BY <1>9 DEF TableActive, TtlActive
  <2> QED
    BY <1>a, <2>1
<1>10. ASSUME NEW p \in Process, \/ Deploy(p) \/ DescribeTable(p) \/ CheckTable(p)
                                 \/ CreateTable(p) \/ WaitUntilExists(p) \/ Crash(p)
       PROVE  Progress(q)'
  BY <1>a, <1>2, <1>10
<1> QED
  BY <1>1, <1>3, <1>4, <1>5, <1>6, <1>7, <1>8, <1>9, <1>10 DEF Next, Step

\* What is put between the pages of its scans does not escape a backfill: when
\* it is over, every item has an expiry.
THEOREM BackfillIsComplete == Spec => []BackfillCoversTheTable
PROOF
<1>1. BackfillProgress => BackfillCoversTheTable
  BY DEF BackfillProgress, Progress, BackfillCoversTheTable, Behind, At, Enabled
<1>2. TypeOK /\ BackfillProgress /\ TypeOK' /\ [Next]_vars => BackfillProgress'
  BY StepProgress
<1> QED
  BY <1>1, <1>2, InitProgress, DeploymentTypeCorrect, PTL DEF Spec

=============================================================================
