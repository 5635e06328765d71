----------------------------- MODULE MCBranches -----------------------------
(* Branches with two filing packs, in the order p, q.                       *)
EXTENDS Branches, TLC

CONSTANTS p, q

ItemsValue == <<p, q>>
Containers == Permutations(Worker)
=============================================================================
