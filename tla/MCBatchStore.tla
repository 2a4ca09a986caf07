--------------------------- MODULE MCBatchStore ---------------------------
EXTENDS BatchStore, TLC
Symmetry == Permutations(Jobs)
===========================================================================
