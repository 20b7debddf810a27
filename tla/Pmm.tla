---- MODULE Pmm ----
(***************************************************************************)
(* The physical memory manager: the frame bitmap of src/kernel/src/mm/     *)
(* pmm.rs with its HINT and its counter, and the reference counters of     *)
(* frame.rs that copy-on-write sharing rests on.                           *)
(*                                                                         *)
(* Frames are numbered from MEM_BASE.  A call holds MM_LOCK, and its       *)
(* callers run with interrupts off (boot, int 0x80), so it is one step.    *)
(* The callers follow the protocol of the module's comments: who holds a   *)
(* frame shares it with frame_inc, leaves it with frame_dec, and hands a   *)
(* frame that was never shared back with mm_free_phys or mm_free_huge.     *)
(* The variable holders is the ledger of that protocol, not program state. *)
(***************************************************************************)
EXTENDS Integers, FiniteSets

CONSTANTS
    Total,       \* MEM_SIZE / PAGE_SIZE: frames managed; 61440 in the code
    Word,        \* frames per word of FRAME_BM; 64 in the code
    Huge,        \* frames per huge page; 512 in the code
    MaxRef,      \* u16::MAX, where a reference counter is pinned
    MaxHolders   \* bound: how many holders the callers give one frame

ASSUME PmmAssumption ==
    /\ Total \in Nat \ {0}
    /\ Word \in Nat \ {0}
    /\ Huge \in Nat \ {0}
    /\ MaxRef \in Nat /\ MaxRef > 1
    /\ MaxHolders \in Nat

Frames == 0 .. Total - 1

VARIABLES
    used,         \* FRAME_BM: whether the frame's bit is set
    HINT,         \* the word of the bitmap a search starts from
    FREE_FRAMES,  \* the counter of free frames
    refs,         \* FRAME_REFS
    panicked,     \* the kernel has panicked: out of frames
    holders       \* how many callers hold the frame (ledger)

vars == <<used, HINT, FREE_FRAMES, refs, panicked, holders>>

\* mm_init: frame 0 is reserved, every other frame gets counter 1.
Init ==
    /\ used = [i \in Frames |-> i = 0]
    /\ HINT = 0
    /\ FREE_FRAMES = Total - 1
    /\ refs = [i \in Frames |-> IF i = 0 THEN 0 ELSE 1]
    /\ panicked = FALSE
    /\ holders = [i \in Frames |-> 0]

(***************************************************************************)
(* Helpers.                                                                *)
(***************************************************************************)
Free == {i \in Frames : ~used[i]}

WordOf(i) == i \div Word

\* The frame mm_alloc_nolock takes: the first free one from word HINT on, or
\* else the first free one before.
IsPick(i) ==
    /\ i \in Free
    /\ LET upper == {j \in Free : WordOf(j) >= HINT} IN
       \A j \in (IF upper = {} THEN Free ELSE upper) : i =< j
    /\ WordOf(i) >= HINT \/ \A j \in Free : WordOf(j) < HINT

\* Seeded fault: the counter is decremented for one frame only.
MarkUsed_CountsOne(S) ==
    /\ used' = [i \in Frames |-> used[i] \/ i \in S]
    /\ FREE_FRAMES' = FREE_FRAMES - 1

MarkUsed(S) ==
    /\ used' = [i \in Frames |-> used[i] \/ i \in S]
    /\ FREE_FRAMES' = FREE_FRAMES - Cardinality(S \cap Free)

\* Seeded fault: freeing a frame does not lower HINT.
MarkFree_KeepsHint(S) ==
    /\ used' = [i \in Frames |-> used[i] /\ i \notin S]
    /\ FREE_FRAMES' = FREE_FRAMES + Cardinality({i \in S : used[i]})
    /\ UNCHANGED HINT

MarkFree(S) ==
    LET freed == {i \in S : used[i]}
        low == {WordOf(i) : i \in freed} \cup {HINT}
    IN /\ used' = [i \in Frames |-> used[i] /\ i \notin S]
       /\ FREE_FRAMES' = FREE_FRAMES + Cardinality(freed)
       /\ HINT' \in low
       /\ \A w \in low : HINT' =< w

\* Seeded fault: a pinned counter is decremented like any other.
Counted_NoPin(i) == [refs EXCEPT ![i] = @ - 1]

Counted(i) == [refs EXCEPT ![i] = IF @ = MaxRef THEN MaxRef ELSE @ - 1]

(***************************************************************************)
(* Operations.                                                             *)
(***************************************************************************)
\* mm_alloc, mm_alloc_zeroed, mm_alloc_nolock.
Alloc(i) ==
    /\ ~panicked
    /\ IsPick(i)
    /\ MarkUsed({i})
    /\ HINT' = WordOf(i)
    /\ refs' = [refs EXCEPT ![i] = 1]
    /\ holders' = [holders EXCEPT ![i] = 1]
    /\ UNCHANGED panicked

OutOfMemory ==
    /\ ~panicked
    /\ Free = {}
    /\ panicked' = TRUE
    /\ UNCHANGED <<used, HINT, FREE_FRAMES, refs, holders>>

Block(i) == i .. i + Huge - 1

\* The aligned blocks mm_alloc_huge looks at: the first one is left out.
HugeStarts == {i \in Frames : i > 0 /\ i % Huge = 0 /\ i + Huge =< Total}

\* mm_alloc_huge; without a free block it returns 0 and changes nothing.
AllocHuge(i) ==
    /\ ~panicked
    /\ i \in HugeStarts
    /\ Block(i) \subseteq Free
    /\ \A j \in HugeStarts : j < i => ~(Block(j) \subseteq Free)
    /\ MarkUsed(Block(i))
    /\ refs' = [j \in Frames |-> IF j \in Block(i) THEN 1 ELSE refs[j]]
    /\ holders' = [j \in Frames |-> IF j \in Block(i) THEN 1 ELSE holders[j]]
    /\ UNCHANGED <<HINT, panicked>>

\* mm_free_phys and mm_free_huge leave the reference counters alone.
FreePhys(S) ==
    /\ ~panicked
    /\ \A i \in S : holders[i] = 1 /\ refs[i] = 1
    /\ MarkFree(S)
    /\ holders' = [i \in Frames |-> IF i \in S THEN 0 ELSE holders[i]]
    /\ UNCHANGED <<refs, panicked>>

\* frame_inc by a holder; at u16::MAX the counter stays.
FrameInc(i) ==
    /\ ~panicked
    /\ holders[i] \in 1 .. MaxHolders - 1
    /\ refs' = [refs EXCEPT ![i] = IF @ = MaxRef THEN MaxRef ELSE @ + 1]
    /\ holders' = [holders EXCEPT ![i] = @ + 1]
    /\ UNCHANGED <<used, HINT, FREE_FRAMES, panicked>>

\* Seeded fault: the frame is given back while one holder is left.
FrameDec_TooEarly(i) ==
    /\ ~panicked
    /\ holders[i] > 0
    /\ holders' = [holders EXCEPT ![i] = @ - 1]
    /\ refs' = Counted(i)
    /\ IF refs[i] =< 2 /\ used[i]
       THEN MarkFree({i})
       ELSE UNCHANGED <<used, HINT, FREE_FRAMES>>
    /\ UNCHANGED panicked

\* frame_dec by a holder: the last one gives the frame back to the PMM.
FrameDec(i) ==
    /\ ~panicked
    /\ holders[i] > 0
    /\ holders' = [holders EXCEPT ![i] = @ - 1]
    /\ refs' = Counted(i)
    /\ IF refs[i] = 1
       THEN MarkFree({i})
       ELSE UNCHANGED <<used, HINT, FREE_FRAMES>>
    /\ UNCHANGED panicked

\* frame_cow_copy by a holder of a shared frame (frame_shared); the frame it
\* leaves keeps other holders, so frame_dec frees nothing.
CowCopy(i, new) ==
    /\ ~panicked
    /\ holders[i] > 1
    /\ refs[i] > 1
    /\ IsPick(new)
    /\ MarkUsed({new})
    /\ HINT' = WordOf(new)
    /\ refs' = [Counted(i) EXCEPT ![new] = 1]
    /\ holders' = [holders EXCEPT ![i] = @ - 1, ![new] = 1]
    /\ UNCHANGED panicked

Next ==
    \/ \E i \in Frames : Alloc(i)
    \/ OutOfMemory
    \/ \E i \in HugeStarts : AllocHuge(i)
    \/ \E i \in Frames : FreePhys({i})
    \/ \E i \in HugeStarts : FreePhys(Block(i))
    \/ \E i \in Frames : FrameInc(i)
    \/ \E i \in Frames : FrameDec(i)
    \/ \E i, new \in Frames : CowCopy(i, new)

Spec == Init /\ [][Next]_vars

----
TypeOK ==
    /\ used \in [Frames -> BOOLEAN]
    /\ HINT \in Nat
    /\ FREE_FRAMES \in Nat
    /\ refs \in [Frames -> 0 .. MaxRef]
    /\ panicked \in BOOLEAN
    /\ holders \in [Frames -> Nat]

\* The words below HINT have no free frame: a search that starts at HINT takes
\* the lowest free frame, and the second pass of mm_alloc_nolock is never
\* needed, whatever mm_free_phys and mm_alloc_huge did in between.
HintSound == \A i \in Free : WordOf(i) >= HINT

\* mm_free_kb and mm_used_kb report what the bitmap says.
FreeCount == FREE_FRAMES = Cardinality(Free)

\* A frame that somebody holds is not free, and its counter is the number of
\* its holders until it is pinned; an unpinned frame nobody holds is free, and
\* frame 0 is never given out.
HeldFrames ==
    /\ used[0] /\ holders[0] = 0
    /\ \A i \in Frames \ {0} :
           /\ holders[i] > 0 => used[i] /\ refs[i] \in {holders[i], MaxRef}
           /\ holders[i] = 0 /\ refs[i] < MaxRef => ~used[i]

Pool == INSTANCE FramePool
            WITH Pool <- Frames \ {0},
                 Blocks <- {Block(i) : i \in HugeStarts},
                 MaxHolders <- MaxRef,
                 free <- Free,
                 holders <- [i \in Frames \ {0} |-> holders[i]],
                 pinned <- {i \in Frames : refs[i] = MaxRef},
                 oom <- panicked

\* The bitmap and the counters together keep the promise of FramePool: no
\* frame is granted twice, none is freed under a holder, none but a pinned one
\* leaks, and the kernel panics only when every frame is taken.
ImplementsPool == Pool!Spec
====
