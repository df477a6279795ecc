---------------------------- MODULE MCGitMonitor ----------------------------
EXTENDS GitMonitor, TLC

\* Two patches that look alike where they are cut.
MCShown(p) == IF p = NoPatch THEN NoPatch ELSE "cut"

\* No definition tells two commits, or two patches, apart by name.
Symmetry == Permutations(Heads) \cup Permutations(Patches \ {NoPatch})
=============================================================================
