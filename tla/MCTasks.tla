-------------------------------- MODULE MCTasks --------------------------------
\* Small instances of Tasks.
EXTENDS Tasks, TLC
Symmetry == Permutations(Workers)
=============================================================================
