------------------------------ MODULE MCGateway -----------------------------
EXTENDS Workbench, TLC

\* Analyses, keys and the candidates without artifacts are interchangeable.
CONSTANTS SoftShas
Symmetry == Permutations(Analyses) \cup Permutations(Keys) \cup Permutations(SoftShas)
=============================================================================
