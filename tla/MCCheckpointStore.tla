--------------------------- MODULE MCCheckpointStore ---------------------------
EXTENDS CheckpointStore, TLC

Symmetry == Permutations(Process) \cup Permutations(Task)

=============================================================================
