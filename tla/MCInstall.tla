---- MODULE MCInstall ----
EXTENDS Install

Image(n, k) == [name |-> n, sectors |-> k]

\* Two slots of two sectors each.
MCSegments == <<[lba_start |-> 2, max_sectors |-> 2], [lba_start |-> 4, max_sectors |-> 2]>>

\* A full disk, its shorter successor, a first module that is empty, a
\* module too long for its place, and no modules at all.
MCBoots == { <<Image("kernel", 2), Image("devspace", 1), Image("fsserver", 1)>>,
             <<Image("kernel2", 1), Image("devspace2", 2)>>,
             <<Image("kernel", 0), Image("devspace", 1)>>,
             <<Image("kernel", 1), Image("devspace", 3)>>,
             <<>> }
====
