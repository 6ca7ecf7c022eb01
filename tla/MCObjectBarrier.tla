---------------------------- MODULE MCObjectBarrier ----------------------------
EXTENDS ObjectBarrier, TLC

\* Objects and mutators are interchangeable.
Symmetry == Permutations(Objects) \cup Permutations(Mutators)
===============================================================================
