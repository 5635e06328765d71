-------------------------- MODULE CheckpointRegister --------------------------
(***************************************************************************)
(* What the rest of the service takes the checkpoint table to be: one      *)
(* register per instance holding its newest checkpoint, which a run loads  *)
(* once, builds on and replaces.                                           *)
(***************************************************************************)
EXTENDS Naturals

CONSTANTS Process, Id  \* the numbers checkpoints are known by

VARIABLES latest,   \* the newest checkpoint, 0 when there is none
          running,  \* the processes in a run
          held      \* the checkpoint each process builds on, 0 when none

vars == <<latest, running, held>>

Init == latest = 0 /\ running = {} /\ held = [p \in Process |-> 0]

Load(p) ==
  /\ p \notin running
  /\ running' = running \cup {p}
  /\ held' = [held EXCEPT ![p] = latest]
  /\ UNCHANGED latest

\* A put becomes invisible only to a newer one of another process.
Put(p) ==
  /\ p \in running
  /\ \E id \in Id :
       /\ id > held[p]
       /\ held' = [held EXCEPT ![p] = id]
       /\ \/ id > latest /\ latest' = id
          \/ id < latest /\ held[p] # latest /\ UNCHANGED latest
  /\ UNCHANGED running

Leave(p) ==
  /\ p \in running
  /\ running' = running \ {p}
  /\ held' = [held EXCEPT ![p] = 0]
  /\ UNCHANGED latest

\* Checkpoints expire while nobody runs, all of them at once: what is left is
\* an instance that never was.
Expire == running = {} /\ latest' = 0 /\ UNCHANGED <<running, held>>

Next == Expire \/ \E p \in Process : Load(p) \/ Put(p) \/ Leave(p)

Spec == Init /\ [][Next]_vars

=============================================================================
