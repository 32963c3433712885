---------------------------- MODULE MCRunOutput ----------------------------
EXTENDS RunOutput, TLC
Symmetry == Permutations(Runs)
=============================================================================
