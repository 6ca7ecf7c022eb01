---------------------------- MODULE MCAllocFastpath ----------------------------
EXTENDS AllocFastpath, TLC

\* Mutators are interchangeable.
Symmetry == Permutations(Mutators)
===============================================================================
