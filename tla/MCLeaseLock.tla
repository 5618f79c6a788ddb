----------------------------- MODULE MCLeaseLock -----------------------------
EXTENDS LeaseLock, TLC

Symmetry == Permutations(Call)
==============================================================================
