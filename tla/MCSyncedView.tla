----------------------------- MODULE MCSyncedView -----------------------------
EXTENDS SyncedView, TLC

Symmetry == Permutations(Doc)
=============================================================================
