---------------------------- MODULE MCAtomicFile ----------------------------
EXTENDS AtomicFile, TLC
Symmetry == Permutations(Writers)
=============================================================================
