------------------------ MODULE MC_ChunkWritesTracker ------------------------
(* Three writers on one chunk of 10 bytes: a split is warranted past 2     *)
(* bytes, so two or three writes race for the split lock.                  *)
EXTENDS ChunkWritesTracker, TLC

CONSTANTS t1, t2, t3

MCThreads == {t1, t2, t3}

MCSymmetry == Permutations(MCThreads)

=============================================================================
