---------------------------- MODULE MCChangeQueue ---------------------------
EXTENDS ChangeQueue, TLC

\* Paths are interchangeable, and so are the digests that are neither twins
\* nor unreadable.
CONSTANTS PlainShas
Symmetry == Permutations(Paths) \cup Permutations(PlainShas)
=============================================================================
