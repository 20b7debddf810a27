---- MODULE MCDiskGate ----
EXTENDS DiskGate, TLC

MCCore == <<[start |-> 2, end |-> 4, level |-> "SIGNED_ONLY"]>>

MCKernel == <<2, 4>>

\* The header, and the segment of the kernel.
MCRequests == {<<1, 1>>, <<2, 2>>}

HashSymmetry == Permutations(Hashes)
====
