------------------------------ MODULE MCProduct -----------------------------
EXTENDS ProductPipeline, TLC

\* No definition tells two analyses, or two contents, apart by name.
Symmetry == Permutations(Analyses) \cup Permutations(Shas)
=============================================================================
