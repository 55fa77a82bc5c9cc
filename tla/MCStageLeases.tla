-------------------------- MODULE MCStageLeases --------------------------
EXTENDS StageLeases, TLC

\* Clients of one kind are alike.
Symmetric == Permutations(Prompt) \cup Permutations(Batch)

=============================================================================
