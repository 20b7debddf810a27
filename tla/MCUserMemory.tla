---- MODULE MCUserMemory ----
EXTENDS UserMemory, TLC

\* mm_alloc takes any free frame, so frames may be exchanged.
FrameSymmetry == Permutations(Frames)
====
