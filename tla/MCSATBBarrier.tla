----------------------------- MODULE MCSATBBarrier -----------------------------
EXTENDS SATBBarrier, TLC

\* Objects and mutators are interchangeable.
Symmetry == Permutations(Objects) \cup Permutations(Mutators)
===============================================================================
