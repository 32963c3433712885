-------------------------- MODULE MCTaskLifecycle --------------------------
EXTENDS TaskLifecycle, TLC
AllSupported == Workers \X Tasks
Symmetry == Permutations(Workers) \cup Permutations(Schedulers)
=============================================================================
