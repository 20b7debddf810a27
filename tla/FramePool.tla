---- MODULE FramePool ----
(***************************************************************************)
(* What the physical memory manager promises to the rest of the kernel.    *)
(* A frame is free or granted; a granted frame has holders, each of which  *)
(* may let another one join or leave.  The frame is free again when the    *)
(* last holder leaves, and not earlier.  The one exception is a frame that *)
(* had MaxHolders holders at some time: it is pinned, granted for good.    *)
(***************************************************************************)
EXTENDS Integers

CONSTANTS
    Pool,       \* the frames that may be granted
    Blocks,     \* the sets of frames that make a huge page
    MaxHolders  \* a frame with this many holders is pinned

VARIABLES
    free,       \* the free frames
    holders,    \* how many holders a frame has
    pinned,     \* the frames granted for good
    oom         \* an allocation found no frame: the kernel has panicked

vars == <<free, holders, pinned, oom>>

Init ==
    /\ free = Pool
    /\ holders = [f \in Pool |-> 0]
    /\ pinned = {}
    /\ oom = FALSE

Grant(S) ==
    /\ S \subseteq free
    /\ free' = free \ S
    /\ holders' = [f \in Pool |-> IF f \in S THEN 1 ELSE holders[f]]
    /\ UNCHANGED <<pinned, oom>>

Join(f) ==
    /\ holders[f] > 0
    /\ holders' = [holders EXCEPT ![f] = @ + 1]
    /\ pinned' = IF holders'[f] >= MaxHolders THEN pinned \cup {f} ELSE pinned
    /\ UNCHANGED <<free, oom>>

\* One holder of every frame of S leaves.
Leave(S) ==
    /\ \A f \in S : holders[f] > 0
    /\ holders' = [f \in Pool |-> holders[f] - (IF f \in S THEN 1 ELSE 0)]
    /\ free' = free \cup {f \in S \ pinned : holders[f] = 1}
    /\ UNCHANGED <<pinned, oom>>

\* A holder of a shared frame exchanges it for a frame of its own.
Copy(old, new) ==
    /\ holders[old] > 1
    /\ new \in free
    /\ free' = free \ {new}
    /\ holders' = [holders EXCEPT ![old] = @ - 1, ![new] = 1]
    /\ UNCHANGED <<pinned, oom>>

Exhausted ==
    /\ free = {}
    /\ oom' = TRUE
    /\ UNCHANGED <<free, holders, pinned>>

Next ==
    \/ \E f \in Pool : Grant({f}) \/ Join(f) \/ Leave({f})
    \/ \E S \in Blocks : Grant(S) \/ Leave(S)
    \/ \E old, new \in Pool : Copy(old, new)
    \/ Exhausted

Spec == Init /\ [][Next]_vars
====
