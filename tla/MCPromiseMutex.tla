--------------------------- MODULE MCPromiseMutex ---------------------------
EXTENDS PromiseMutex, TLC

Symmetry == Permutations(Call)
=============================================================================
