---- MODULE MCAddressSpaces ----
EXTENDS AddressSpaces, TLC

\* Tables of two pages.  Directory 0 holds the image and a page of the kernel,
\* 1 to 12 the pool with the stacks in it, 13 and 14 the kernel heap; directory
\* 15 is a program's own.  Kernel stacks lie over the second table of the heap
\* (frame 7) and over frames of its pages (5 and 6), the stack of a spawned
\* program over the table of the first program's stack (frame 17).
KernelCode == {1}

PoolFrames == 2 .. 24

HeapPages == 26 .. 29

ImagePages == {0}

StackPages == {30}

KernelStacks == 0 :> {5} @@ 1 :> {7} @@ 3 :> {6}

UserStacks == 3 :> {17}

\* In a page of the kernel, on a kernel stack, in the heap below the table that
\* is lost, above the first stack, and under the other name of the pool.
HintPages == {1, 6, 28, 31, 34 + 20}

Symmetry == Permutations(Spaces)
====
