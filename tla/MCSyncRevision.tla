--------------------------- MODULE MCSyncRevision ---------------------------
EXTENDS SyncRevision, TLC

MCSymmetry == Permutations(Txns)
=============================================================================
