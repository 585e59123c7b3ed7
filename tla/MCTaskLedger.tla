---------------------------- MODULE MCTaskLedger ----------------------------
EXTENDS TaskLedger, TLC

Symmetry == Permutations(Events)
=============================================================================
