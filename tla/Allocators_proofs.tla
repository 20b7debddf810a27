---- MODULE Allocators_proofs ----
(***************************************************************************)
(* Proofs about the two allocators of the kernel: the physical frames      *)
(* (Pmm) and the heap (KernelHeap).  They share no state; each part stands *)
(* on its own.                                                             *)
(*                                                                         *)
(* Pmm: for every number of frames, every word and huge-page size and      *)
(* every limit of the reference counters.  The inductive invariant PInv    *)
(* joins the invariants of Pmm, which lean on each other (HINT is right    *)
(* because the bitmap is, the bitmap because the counters are), with one   *)
(* more fact: a free frame is never a pinned one.                          *)
(*                                                                         *)
(* KernelHeap: for every number of pages, every order, page size and set   *)
(* of layouts, and every sequence of alloc, dealloc and realloc.  The      *)
(* argument has three layers.  Cells: the pages with the same quotient by  *)
(* 2^order, which nest, and whose buddies are disjoint.  Blocks: free      *)
(* lists that tile a bitmap with cells of which no two are buddies; taking *)
(* a block apart and joining one to its buddies keeps this, and under it a *)
(* buddy whose pages are all free is listed as one block.  HeapInv: the    *)
(* buddy allocator is such a tiling, and the slots, the allocations alive  *)
(* and the lost pages keep apart from it and from each other.              *)
(***************************************************************************)
EXTENDS Pmm, KernelHeap, FiniteSetTheorems, SequenceTheorems, WellFoundedInduction, TLAPS

----
(***************************************************************************)
(* Physical frames.                                                        *)
(***************************************************************************)
Unpinned == refs[0] = 0 /\ \A i \in Frames : ~used[i] => refs[i] < MaxRef

PInv == TypeOK /\ HintSound /\ FreeCount /\ HeldFrames /\ Unpinned

----
(***************************************************************************)
(* Frames and words.                                                       *)
(***************************************************************************)
LEMMA FrameFacts == IsFiniteSet(Frames) /\ Frames \subseteq Nat /\ 0 \in Frames
  BY PmmAssumption, FS_Interval DEF Frames

\* Every frame has its word of the bitmap.
LEMMA WordFacts ==
    ASSUME NEW i \in Nat
    PROVE  WordOf(i) \in Nat
  BY PmmAssumption DEF WordOf

\* A lower frame is in a lower word, or in the same one.
LEMMA WordOrder ==
    ASSUME NEW i \in Nat, NEW j \in Nat, i =< j
    PROVE  WordOf(i) =< WordOf(j)
<1>. DEFINE a == i \div Word
            b == j \div Word
<1>1. Word \in Nat /\ Word > 0
  BY PmmAssumption
<1>2. a \in Nat /\ b \in Nat /\ Word * a =< i /\ j < Word * (b + 1)
  BY <1>1, SMT
<1>. HIDE DEF a, b
<1>3. ~(a >= b + 1)
  <2>. SUFFICES ASSUME a >= b + 1 PROVE FALSE
    OBVIOUS
  <2>1. Word * (b + 1) =< Word * a
    BY <1>1, <1>2, SMT
  <2>. QED  BY <1>1, <1>2, <2>1, SMT
<1>. QED  BY <1>2, <1>3 DEF WordOf, a, b

\* The free frames are finitely many frames.
LEMMA FreeFacts ==
    ASSUME TypeOK
    PROVE  /\ Free \subseteq Frames /\ IsFiniteSet(Free)
           /\ Cardinality(Free) \in Nat
<1>1. Free \subseteq Frames
  BY DEF Free
<1>. QED  BY <1>1, FrameFacts, FS_Subset, FS_CardinalityType

----
(***************************************************************************)
(* What marking frames used or free does.                                  *)
(***************************************************************************)
LEMMA MarkUsedFacts ==
    ASSUME PInv, NEW S \in SUBSET Free, MarkUsed(S)
    PROVE  /\ used' \in [Frames -> BOOLEAN]
           /\ \A i \in Frames : used'[i] <=> used[i] \/ i \in S
           /\ Free' = Free \ S
           /\ FREE_FRAMES' \in Nat /\ FreeCount'
<1>1. /\ used' = [i \in Frames |-> used[i] \/ i \in S]
      /\ FREE_FRAMES' = FREE_FRAMES - Cardinality(S \cap Free)
  BY DEF MarkUsed
<1>2. \A i \in Frames : used'[i] <=> used[i] \/ i \in S
  BY <1>1
<1>3. used' \in [Frames -> BOOLEAN]
  BY <1>1 DEF PInv, TypeOK
<1>4. Free' = Free \ S
  BY <1>2 DEF Free
<1>5. S \cap Free = Free \cap S
  OBVIOUS
<1>6. IsFiniteSet(Free) /\ FREE_FRAMES = Cardinality(Free)
  BY FreeFacts DEF PInv, FreeCount
<1>7. /\ Cardinality(Free \ S) = Cardinality(Free) - Cardinality(Free \cap S)
      /\ IsFiniteSet(Free \ S)
  BY <1>6, FS_Difference
<1>8. FREE_FRAMES' = Cardinality(Free \ S)
  BY <1>1, <1>5, <1>6, <1>7
<1>9. Cardinality(Free \ S) \in Nat
  BY <1>7, FS_CardinalityType
<1>. QED  BY <1>2, <1>3, <1>4, <1>8, <1>9 DEF FreeCount

\* What marking frames free does to the bitmap, the count and the hint.
LEMMA MarkFreeFacts ==
    ASSUME PInv, NEW S \in SUBSET Frames, MarkFree(S)
    PROVE  /\ used' \in [Frames -> BOOLEAN]
           /\ \A i \in Frames : used'[i] <=> used[i] /\ i \notin S
           /\ Free' = Free \cup S
           /\ FREE_FRAMES' \in Nat /\ FreeCount'
           /\ HINT' \in Nat /\ HintSound'
<1>. DEFINE freed == {i \in S : used[i]}
            low == {WordOf(i) : i \in freed} \cup {HINT}
<1>1. /\ used' = [i \in Frames |-> used[i] /\ i \notin S]
      /\ FREE_FRAMES' = FREE_FRAMES + Cardinality(freed)
      /\ HINT' \in low
      /\ \A w \in low : HINT' =< w
  BY DEF MarkFree
<1>2. \A i \in Frames : used'[i] <=> used[i] /\ i \notin S
  BY <1>1
<1>3. used' \in [Frames -> BOOLEAN]
  BY <1>1 DEF PInv, TypeOK
<1>4. Free' = Free \cup S /\ Free' = Free \cup freed /\ Free \cap freed = {}
  BY <1>2 DEF Free
<1>5. IsFiniteSet(Free) /\ IsFiniteSet(freed)
  <2>1. freed \subseteq Frames
    OBVIOUS
  <2>. QED  BY <2>1, FrameFacts, FreeFacts, FS_Subset DEF PInv
<1>6. /\ Cardinality(Free \cup freed)
             = Cardinality(Free) + Cardinality(freed) - Cardinality(Free \cap freed)
      /\ IsFiniteSet(Free \cup freed)
  BY <1>5, FS_Union
<1>7. /\ Cardinality(Free \cap freed) = 0 /\ Cardinality(freed) \in Nat
      /\ Cardinality(Free) \in Nat /\ Cardinality(Free \cup freed) \in Nat
  <2>1. Cardinality(Free \cap freed) = Cardinality({})
    BY <1>4
  <2>. QED  BY <1>5, <1>6, <2>1, FS_EmptySet, FS_CardinalityType
<1>8. FREE_FRAMES' = Cardinality(Free \cup freed)
  BY <1>1, <1>6, <1>7 DEF PInv, FreeCount
<1>9. FreeCount'
  <2>1. Cardinality(Free') = Cardinality(Free \cup freed)
    BY <1>4
  <2>. QED  BY <1>8, <2>1 DEF FreeCount
<1>10. low \subseteq Nat /\ HINT \in low
  BY WordFacts, FrameFacts DEF PInv, TypeOK
<1>11. HINT' \in Nat
  BY <1>1, <1>10
<1>12. HintSound'
  <2>. SUFFICES ASSUME NEW i \in Free'
                PROVE  WordOf(i) >= HINT'
    BY DEF HintSound
  <2>1. CASE i \in freed
    BY <1>1, <2>1
  <2>2. CASE i \in Free
    <3>1. WordOf(i) >= HINT /\ HINT' =< HINT
      BY <1>1, <1>10, <2>2 DEF PInv, HintSound
    <3>2. WordOf(i) \in Nat /\ HINT \in Nat
      BY <2>2, FrameFacts, WordFacts DEF Free, PInv, TypeOK
    <3>. QED  BY <1>11, <3>1, <3>2
  <2>. QED  BY <1>4, <2>1, <2>2
<1>. QED  BY <1>2, <1>3, <1>4, <1>7, <1>8, <1>9, <1>11, <1>12

\* The frame a search takes is the lowest free one.
LEMMA PickFacts ==
    ASSUME PInv, NEW i \in Frames, IsPick(i)
    PROVE  i \in Free /\ i # 0 /\ \A j \in Free : i =< j
<1>1. {j \in Free : WordOf(j) >= HINT} = Free
  BY DEF PInv, HintSound
<1>2. i \in Free
  BY DEF IsPick
<1>3. \A j \in Free : i =< j
  BY <1>1, <1>2 DEF IsPick
<1>. QED  BY <1>2, <1>3 DEF PInv, HeldFrames, Free

\* So is HINT right after it.
LEMMA PickHint ==
    ASSUME PInv, NEW i \in Frames, IsPick(i), Free' \subseteq Free,
           HINT' = WordOf(i)
    PROVE  HINT' \in Nat /\ HintSound'
<1>1. \A j \in Free : WordOf(i) =< WordOf(j)
  BY PickFacts, WordOrder, FrameFacts DEF Free
<1>2. \A j \in Free : WordOf(j) \in Nat
  BY WordFacts, FrameFacts DEF Free
<1>. QED  BY <1>1, <1>2, WordFacts, FrameFacts DEF HintSound

----
(***************************************************************************)
(* The operations keep the invariant and are steps of the abstract pool.   *)
(***************************************************************************)
LEMMA PInvInit == Init => PInv
<1>. SUFFICES ASSUME Init PROVE PInv
  OBVIOUS
<1>1. Free = Frames \ {0}
  BY DEF Init, Free
<1>2. Cardinality(Frames) = Total
  <2>1. \A t \in Nat \ {0} : Cardinality(0 .. t - 1) = t
    BY FS_Interval
  <2>. QED  BY <2>1, PmmAssumption DEF Frames
<1>3. Cardinality(Frames \ {0}) = Total - 1
  BY <1>2, FrameFacts, FS_RemoveElement
<1>4. TypeOK
  <2>1. 0 \in 0 .. MaxRef /\ 1 \in 0 .. MaxRef /\ Total - 1 \in Nat
    BY PmmAssumption
  <2>2. refs \in [Frames -> 0 .. MaxRef]
    BY <2>1 DEF Init
  <2>3. used \in [Frames -> BOOLEAN] /\ holders \in [Frames -> Nat]
    BY DEF Init
  <2>. QED  BY <2>1, <2>2, <2>3 DEF Init, TypeOK
<1>5. FreeCount
  BY <1>1, <1>3 DEF FreeCount, Init
<1>6. HintSound
  BY FrameFacts, WordFacts DEF HintSound, Init, Free
<1>7. HeldFrames /\ Unpinned
  <2>1. \A i \in Frames : /\ used[i] <=> i = 0
                          /\ refs[i] = IF i = 0 THEN 0 ELSE 1
                          /\ holders[i] = 0
    BY DEF Init
  <2>. QED  BY <2>1, PmmAssumption, FrameFacts DEF HeldFrames, Unpinned
<1>. QED  BY <1>4, <1>5, <1>6, <1>7 DEF PInv

\* mm_alloc hands out one frame.
LEMMA AllocStep ==
    ASSUME PInv, NEW i \in Frames, Alloc(i)
    PROVE  PInv' /\ Pool!Grant({i}) /\ i # 0
<1>1. /\ IsPick(i) /\ MarkUsed({i}) /\ HINT' = WordOf(i)
      /\ refs' = [refs EXCEPT ![i] = 1]
      /\ holders' = [holders EXCEPT ![i] = 1]
      /\ panicked' = panicked
  BY DEF Alloc
<1>2. i \in Free /\ i # 0
  BY <1>1, PickFacts
<1>3. /\ used' \in [Frames -> BOOLEAN]
      /\ \A j \in Frames : used'[j] <=> used[j] \/ j = i
      /\ Free' = Free \ {i}
      /\ FREE_FRAMES' \in Nat /\ FreeCount'
  BY <1>1, <1>2, MarkUsedFacts
<1>4. HINT' \in Nat /\ HintSound'
  BY <1>1, <1>3, PickHint
<1>5. TypeOK'
  <2>1. 1 \in 0 .. MaxRef
    BY PmmAssumption
  <2>. QED  BY <1>1, <1>3, <1>4, <2>1 DEF PInv, TypeOK
<1>6. HeldFrames' /\ Unpinned'
  <2>1. \A j \in Frames : /\ refs'[j] = IF j = i THEN 1 ELSE refs[j]
                          /\ holders'[j] = IF j = i THEN 1 ELSE holders[j]
    BY <1>1 DEF PInv, TypeOK
  <2>. QED  BY <1>2, <1>3, <2>1, PmmAssumption, FrameFacts
            DEF PInv, HeldFrames, Unpinned
<1>7. Pool!Grant({i})
  <2>1. {j \in Frames : refs'[j] = MaxRef} = {j \in Frames : refs[j] = MaxRef}
    BY <1>1, <1>2, PmmAssumption DEF PInv, TypeOK, Unpinned, Free
  <2>2. [j \in Frames \ {0} |-> holders'[j]]
            = [j \in Frames \ {0} |-> IF j \in {i} THEN 1
                                      ELSE [k \in Frames \ {0} |-> holders[k]][j]]
    BY <1>1 DEF PInv, TypeOK
  <2>. QED  BY <1>1, <1>2, <1>3, <2>1, <2>2 DEF Pool!Grant
<1>. QED  BY <1>2, <1>3, <1>4, <1>5, <1>6, <1>7 DEF PInv

\* The frames of a 2 MB page, of which frame 0 is none.
LEMMA BlockFacts ==
    ASSUME NEW i \in HugeStarts
    PROVE  Block(i) \subseteq Frames \ {0}
BY PmmAssumption DEF HugeStarts, Block, Frames

\* The allocation of a 2 MB page hands out its frames.
LEMMA AllocHugeStep ==
    ASSUME PInv, NEW i \in HugeStarts, AllocHuge(i)
    PROVE  PInv' /\ Pool!Grant(Block(i))
<1>. DEFINE S == Block(i)
<1>1. /\ S \subseteq Free /\ S \subseteq Frames \ {0} /\ MarkUsed(S)
      /\ refs' = [j \in Frames |-> IF j \in S THEN 1 ELSE refs[j]]
      /\ holders' = [j \in Frames |-> IF j \in S THEN 1 ELSE holders[j]]
      /\ HINT' = HINT /\ panicked' = panicked
  BY BlockFacts DEF AllocHuge
<1>. HIDE DEF S
<1>2. /\ used' \in [Frames -> BOOLEAN]
      /\ \A j \in Frames : used'[j] <=> used[j] \/ j \in S
      /\ Free' = Free \ S
      /\ FREE_FRAMES' \in Nat /\ FreeCount'
  BY <1>1, MarkUsedFacts
<1>3. TypeOK'
  <2>1. 1 \in 0 .. MaxRef
    BY PmmAssumption
  <2>. QED  BY <1>1, <1>2, <2>1 DEF PInv, TypeOK
<1>4. HintSound'
  BY <1>1, <1>2 DEF PInv, HintSound
<1>5. HeldFrames' /\ Unpinned'
  BY <1>1, <1>2, PmmAssumption, FrameFacts DEF PInv, HeldFrames, Unpinned
<1>6. Pool!Grant(S)
  <2>1. {j \in Frames : refs'[j] = MaxRef} = {j \in Frames : refs[j] = MaxRef}
    BY <1>1, PmmAssumption DEF PInv, TypeOK, Unpinned, Free
  <2>2. [j \in Frames \ {0} |-> holders'[j]]
            = [j \in Frames \ {0} |-> IF j \in S THEN 1
                                      ELSE [k \in Frames \ {0} |-> holders[k]][j]]
    BY <1>1
  <2>. QED  BY <1>1, <1>2, <2>1, <2>2 DEF Pool!Grant
<1>. QED  BY <1>2, <1>3, <1>4, <1>5, <1>6 DEF PInv, S

\* mm_free_phys gives frames back to the pool.
LEMMA FreePhysStep ==
    ASSUME PInv, NEW S \in SUBSET Frames, FreePhys(S)
    PROVE  PInv' /\ Pool!Leave(S) /\ 0 \notin S
<1>1. /\ \A j \in S : holders[j] = 1 /\ refs[j] = 1
      /\ MarkFree(S)
      /\ holders' = [j \in Frames |-> IF j \in S THEN 0 ELSE holders[j]]
      /\ refs' = refs /\ panicked' = panicked
  BY DEF FreePhys
<1>2. 0 \notin S
  BY <1>1 DEF PInv, HeldFrames
<1>3. /\ used' \in [Frames -> BOOLEAN]
      /\ \A j \in Frames : used'[j] <=> used[j] /\ j \notin S
      /\ Free' = Free \cup S
      /\ FREE_FRAMES' \in Nat /\ FreeCount'
      /\ HINT' \in Nat /\ HintSound'
  BY <1>1, MarkFreeFacts
<1>4. TypeOK'
  BY <1>1, <1>3 DEF PInv, TypeOK
<1>5. HeldFrames' /\ Unpinned'
  BY <1>1, <1>2, <1>3, PmmAssumption, FrameFacts DEF PInv, HeldFrames, Unpinned
<1>6. Pool!Leave(S)
  <2>. DEFINE hs == [k \in Frames \ {0} |-> holders[k]]
              pinned == {j \in Frames : refs[j] = MaxRef}
  <2>1. \A f \in S : hs[f] = 1 /\ f \notin pinned
    BY <1>1, <1>2, PmmAssumption
  <2>2. hs' = [f \in Frames \ {0} |-> hs[f] - (IF f \in S THEN 1 ELSE 0)]
    BY <1>1, <1>2 DEF PInv, TypeOK
  <2>3. {f \in S \ pinned : hs[f] = 1} = S
    BY <2>1
  <2>4. pinned' = pinned
    BY <1>1
  <2>. QED  BY <1>1, <1>3, <2>1, <2>2, <2>3, <2>4 DEF Pool!Leave
<1>. QED  BY <1>2, <1>3, <1>4, <1>5, <1>6 DEF PInv

\* frame_inc counts one holder more.
LEMMA FrameIncStep ==
    ASSUME PInv, NEW i \in Frames, FrameInc(i)
    PROVE  PInv' /\ Pool!Join(i) /\ i # 0
<1>1. /\ holders[i] > 0
      /\ refs' = [refs EXCEPT ![i] = IF refs[i] = MaxRef THEN MaxRef
                                     ELSE refs[i] + 1]
      /\ holders' = [holders EXCEPT ![i] = holders[i] + 1]
      /\ UNCHANGED <<used, HINT, FREE_FRAMES, panicked>>
  BY DEF FrameInc, PInv, TypeOK
<1>2. i # 0 /\ used[i] /\ holders[i] \in Nat
      /\ refs[i] \in 0 .. MaxRef /\ refs[i] \in {holders[i], MaxRef}
  BY <1>1 DEF PInv, HeldFrames, TypeOK
<1>3. \A j \in Frames :
          /\ refs'[j] = IF j # i \/ refs[j] = MaxRef THEN refs[j] ELSE refs[j] + 1
          /\ holders'[j] = IF j = i THEN holders[j] + 1 ELSE holders[j]
  BY <1>1 DEF PInv, TypeOK
<1>4. TypeOK'
  <2>1. (IF refs[i] = MaxRef THEN MaxRef ELSE refs[i] + 1) \in 0 .. MaxRef
    BY <1>2, PmmAssumption
  <2>2. refs' \in [Frames -> 0 .. MaxRef]
    BY <1>1, <2>1 DEF PInv, TypeOK
  <2>3. holders' \in [Frames -> Nat]
    BY <1>1, <1>2 DEF PInv, TypeOK
  <2>. QED  BY <1>1, <2>2, <2>3 DEF PInv, TypeOK
<1>5. Free' = Free
  BY <1>1 DEF Free
<1>6. HintSound' /\ FreeCount'
  BY <1>1, <1>5 DEF PInv, HintSound, FreeCount
<1>7. HeldFrames' /\ Unpinned'
  BY <1>1, <1>2, <1>3, PmmAssumption, FrameFacts
     DEF PInv, TypeOK, HeldFrames, Unpinned
<1>8. Pool!Join(i)
  <2>. DEFINE hs == [k \in Frames \ {0} |-> holders[k]]
              pinned == {j \in Frames : refs[j] = MaxRef}
  <2>1. hs[i] > 0 /\ hs'[i] = holders[i] + 1
    BY <1>1, <1>2, <1>3
  <2>2. hs' = [hs EXCEPT ![i] = hs[i] + 1]
    BY <1>2, <1>3
  <2>3. pinned' = IF holders[i] + 1 >= MaxRef THEN pinned \cup {i} ELSE pinned
    <3>1. \A j \in Frames \ {i} : refs'[j] = refs[j]
      BY <1>3
    <3>2. refs'[i] = MaxRef <=> refs[i] = MaxRef \/ holders[i] + 1 >= MaxRef
      BY <1>2, <1>3, PmmAssumption
    <3>. QED  BY <3>1, <3>2
  <2>. QED  BY <1>1, <1>5, <2>1, <2>2, <2>3 DEF Pool!Join
<1>. QED  BY <1>2, <1>4, <1>6, <1>7, <1>8 DEF PInv

\* A counter that frame_dec has been called on.
LEMMA CountedFacts ==
    ASSUME PInv, NEW i \in Frames, holders[i] > 0
    PROVE  /\ i # 0 /\ used[i] /\ holders[i] \in Nat \ {0}
           /\ refs[i] \in 1 .. MaxRef /\ refs[i] \in {holders[i], MaxRef}
           /\ Counted(i) \in [Frames -> 0 .. MaxRef]
           /\ \A j \in Frames : Counted(i)[j] =
                  IF j # i \/ refs[j] = MaxRef THEN refs[j] ELSE refs[j] - 1
<1>1. i # 0 /\ used[i] /\ holders[i] \in Nat \ {0}
      /\ refs[i] \in 1 .. MaxRef /\ refs[i] \in {holders[i], MaxRef}
  BY PmmAssumption DEF PInv, HeldFrames, TypeOK
<1>2. Counted(i) = [refs EXCEPT ![i] = IF refs[i] = MaxRef THEN MaxRef
                                       ELSE refs[i] - 1]
  BY DEF Counted, PInv, TypeOK
<1>3. (IF refs[i] = MaxRef THEN MaxRef ELSE refs[i] - 1) \in 0 .. MaxRef
  BY <1>1, PmmAssumption
<1>. QED  BY <1>1, <1>2, <1>3 DEF PInv, TypeOK

\* frame_dec counts one less, and gives the frame back with the last.
LEMMA FrameDecStep ==
    ASSUME PInv, NEW i \in Frames, FrameDec(i)
    PROVE  PInv' /\ Pool!Leave({i}) /\ i # 0
<1>. DEFINE hs == [k \in Frames \ {0} |-> holders[k]]
            pinned == {j \in Frames : refs[j] = MaxRef}
<1>1. /\ holders[i] > 0
      /\ refs' = Counted(i)
      /\ holders' = [holders EXCEPT ![i] = holders[i] - 1]
      /\ IF refs[i] = 1 THEN MarkFree({i})
         ELSE UNCHANGED <<used, HINT, FREE_FRAMES>>
      /\ panicked' = panicked
  BY DEF FrameDec, PInv, TypeOK
<1>2. /\ i # 0 /\ used[i] /\ holders[i] \in Nat \ {0}
      /\ refs[i] \in 1 .. MaxRef /\ refs[i] \in {holders[i], MaxRef}
      /\ refs' \in [Frames -> 0 .. MaxRef]
      /\ \A j \in Frames : refs'[j] =
             IF j # i \/ refs[j] = MaxRef THEN refs[j] ELSE refs[j] - 1
  BY <1>1, CountedFacts
<1>3. /\ holders' \in [Frames -> Nat]
      /\ \A j \in Frames : holders'[j] = IF j = i THEN holders[j] - 1
                                         ELSE holders[j]
  BY <1>1, <1>2 DEF PInv, TypeOK
<1>4. pinned' = pinned
  BY <1>2, PmmAssumption
<1>5. /\ \A f \in {i} : hs[f] > 0
      /\ hs' = [f \in Frames \ {0} |-> hs[f] - (IF f \in {i} THEN 1 ELSE 0)]
  BY <1>1, <1>2, <1>3 DEF PInv, TypeOK
<1>6. CASE refs[i] = 1
  <2>1. /\ used' \in [Frames -> BOOLEAN]
        /\ \A j \in Frames : used'[j] <=> used[j] /\ j # i
        /\ Free' = Free \cup {i}
        /\ FREE_FRAMES' \in Nat /\ FreeCount'
        /\ HINT' \in Nat /\ HintSound'
    BY <1>1, <1>6, MarkFreeFacts
  <2>2. TypeOK'
    BY <1>1, <1>2, <1>3, <2>1 DEF PInv, TypeOK
  <2>3. HeldFrames' /\ Unpinned'
    BY <1>2, <1>3, <1>6, <2>1, PmmAssumption, FrameFacts
       DEF PInv, TypeOK, HeldFrames, Unpinned
  <2>4. {f \in {i} \ pinned : hs[f] = 1} = {i}
    BY <1>2, <1>6, PmmAssumption
  <2>5. Pool!Leave({i})
    BY <1>1, <1>4, <1>5, <2>1, <2>4 DEF Pool!Leave
  <2>. QED  BY <1>2, <2>1, <2>2, <2>3, <2>5 DEF PInv
<1>7. CASE refs[i] # 1
  <2>1. UNCHANGED <<used, HINT, FREE_FRAMES, panicked>>
    BY <1>1, <1>7
  <2>2. Free' = Free
    BY <2>1 DEF Free
  <2>3. TypeOK'
    BY <1>2, <1>3, <2>1 DEF PInv, TypeOK
  <2>4. HintSound' /\ FreeCount'
    BY <2>1, <2>2 DEF PInv, HintSound, FreeCount
  <2>5. HeldFrames' /\ Unpinned'
    BY <1>2, <1>3, <1>7, <2>1, PmmAssumption, FrameFacts
       DEF PInv, TypeOK, HeldFrames, Unpinned
  <2>6. {f \in {i} \ pinned : hs[f] = 1} = {}
    BY <1>2, <1>7
  <2>7. Pool!Leave({i})
    BY <1>4, <1>5, <2>1, <2>2, <2>6 DEF Pool!Leave
  <2>. QED  BY <1>2, <2>3, <2>4, <2>5, <2>7 DEF PInv
<1>. QED  BY <1>6, <1>7

\* frame_cow_copy hands out one frame for the copy.
LEMMA CowCopyStep ==
    ASSUME PInv, NEW i \in Frames, NEW new \in Frames, CowCopy(i, new)
    PROVE  PInv' /\ Pool!Copy(i, new) /\ i # 0 /\ new # 0
<1>. DEFINE hs == [k \in Frames \ {0} |-> holders[k]]
            pinned == {j \in Frames : refs[j] = MaxRef}
<1>1. /\ holders[i] > 1 /\ refs[i] > 1
      /\ IsPick(new) /\ MarkUsed({new}) /\ HINT' = WordOf(new)
      /\ refs' = [Counted(i) EXCEPT ![new] = 1]
      /\ panicked' = panicked
  BY DEF CowCopy
<1>2. new \in Free /\ new # 0 /\ ~used[new]
  BY <1>1, PickFacts DEF Free
<1>3. /\ i # 0 /\ used[i] /\ holders[i] \in Nat \ {0, 1}
      /\ refs[i] \in 1 .. MaxRef /\ refs[i] \in {holders[i], MaxRef}
      /\ Counted(i) \in [Frames -> 0 .. MaxRef]
      /\ \A j \in Frames : Counted(i)[j] =
             IF j # i \/ refs[j] = MaxRef THEN refs[j] ELSE refs[j] - 1
  <2>1. holders[i] \in Nat /\ holders[i] > 0
    BY <1>1 DEF PInv, TypeOK
  <2>. QED  BY <1>1, <2>1, CountedFacts
<1>4. i # new
  BY <1>2, <1>3
<1>5. holders' = [holders EXCEPT ![i] = holders[i] - 1, ![new] = 1]
  BY DEF CowCopy, PInv, TypeOK
<1>6. /\ holders' \in [Frames -> Nat]
      /\ \A j \in Frames : holders'[j] = IF j = new THEN 1
                                         ELSE IF j = i THEN holders[j] - 1
                                         ELSE holders[j]
  BY <1>3, <1>4, <1>5 DEF PInv, TypeOK
<1>7. /\ refs' \in [Frames -> 0 .. MaxRef]
      /\ \A j \in Frames : refs'[j] =
             IF j = new THEN 1
             ELSE IF j # i \/ refs[j] = MaxRef THEN refs[j] ELSE refs[j] - 1
  <2>1. 1 \in 0 .. MaxRef
    BY PmmAssumption
  <2>. QED  BY <1>1, <1>3, <2>1
<1>8. /\ used' \in [Frames -> BOOLEAN]
      /\ \A j \in Frames : used'[j] <=> used[j] \/ j = new
      /\ Free' = Free \ {new}
      /\ FREE_FRAMES' \in Nat /\ FreeCount'
  BY <1>1, <1>2, MarkUsedFacts
<1>9. HINT' \in Nat /\ HintSound'
  BY <1>1, <1>8, PickHint
<1>10. TypeOK'
  BY <1>1, <1>6, <1>7, <1>8, <1>9 DEF PInv, TypeOK
<1>11. HeldFrames' /\ Unpinned'
  BY <1>1, <1>2, <1>3, <1>4, <1>6, <1>7, <1>8, PmmAssumption, FrameFacts
     DEF PInv, TypeOK, HeldFrames, Unpinned
<1>12. Pool!Copy(i, new)
  <2>1. hs[i] > 1
    BY <1>1, <1>3
  <2>2. hs' = [hs EXCEPT ![i] = hs[i] - 1, ![new] = 1]
    BY <1>2, <1>3, <1>4, <1>6
  <2>3. pinned' = pinned
    BY <1>2, <1>3, <1>7, PmmAssumption DEF PInv, Unpinned
  <2>. QED  BY <1>1, <1>2, <1>8, <2>1, <2>2, <2>3 DEF Pool!Copy
<1>. QED  BY <1>2, <1>3, <1>8, <1>9, <1>10, <1>11, <1>12 DEF PInv

\* A panic finds the pool exhausted.
LEMMA OutOfMemoryStep ==
    ASSUME PInv, OutOfMemory
    PROVE  PInv' /\ Pool!Exhausted
<1>1. /\ Free = {} /\ panicked' = TRUE
      /\ UNCHANGED <<used, HINT, FREE_FRAMES, refs, holders>>
  BY DEF OutOfMemory
<1>2. Free' = Free
  BY <1>1 DEF Free
<1>3. TypeOK' /\ HintSound' /\ FreeCount' /\ HeldFrames' /\ Unpinned'
  BY <1>1, <1>2
     DEF PInv, TypeOK, HintSound, FreeCount, HeldFrames, Unpinned
<1>4. Pool!Exhausted
  BY <1>1, <1>2 DEF Pool!Exhausted
<1>. QED  BY <1>3, <1>4 DEF PInv

\* Every operation keeps the invariant and is one of the pool.
LEMMA PInvStep == PInv /\ [Next]_vars => PInv' /\ [Pool!Next]_(Pool!vars)
<1>. SUFFICES ASSUME PInv, [Next]_vars
              PROVE  PInv' /\ [Pool!Next]_(Pool!vars)
  OBVIOUS
<1>1. CASE \E i \in Frames : Alloc(i)
  BY <1>1, AllocStep DEF Pool!Next
<1>2. CASE OutOfMemory
  BY <1>2, OutOfMemoryStep DEF Pool!Next
<1>3. CASE \E i \in HugeStarts : AllocHuge(i)
  BY <1>3, AllocHugeStep DEF Pool!Next
<1>4. CASE \E i \in Frames : FreePhys({i})
  BY <1>4, FreePhysStep DEF Pool!Next
<1>5. CASE \E i \in HugeStarts : FreePhys(Block(i))
  BY <1>5, FreePhysStep, BlockFacts DEF Pool!Next
<1>6. CASE \E i \in Frames : FrameInc(i)
  BY <1>6, FrameIncStep DEF Pool!Next
<1>7. CASE \E i \in Frames : FrameDec(i)
  BY <1>7, FrameDecStep DEF Pool!Next
<1>8. CASE \E i, new \in Frames : CowCopy(i, new)
  BY <1>8, CowCopyStep DEF Pool!Next
<1>9. CASE UNCHANGED vars
  BY <1>9 DEF vars, Pool!vars, PInv, TypeOK, HintSound, FreeCount, HeldFrames,
              Unpinned, Free
<1>. QED  BY <1>1, <1>2, <1>3, <1>4, <1>5, <1>6, <1>7, <1>8, <1>9 DEF Next

\* The invariant holds in every state.
THEOREM Inductive == Spec => []PInv
<1>1. PInv /\ [Next]_vars => PInv'
  BY PInvStep
<1>. QED  BY PInvInit, <1>1, PTL DEF Spec

----
(***************************************************************************)
(* What follows.                                                           *)
(***************************************************************************)
\* The counters keep their ranges: neither FREE_FRAMES nor a reference
\* counter ever wraps below zero or above u16::MAX.
THEOREM TypeCorrect == Spec => []TypeOK
BY Inductive, PTL DEF PInv

\* No free frame lies below HINT: mm_alloc_nolock never needs its second pass.
THEOREM HintIsSound == Spec => []HintSound
BY Inductive, PTL DEF PInv

\* FREE_FRAMES, kept without the lock, agrees with the bitmap.
THEOREM CounterAgrees == Spec => []FreeCount
BY Inductive, PTL DEF PInv

\* A held frame is in use and counted, an unheld one is free unless pinned.
THEOREM HeldFramesAreSafe == Spec => []HeldFrames
BY Inductive, PTL DEF PInv

\* The bitmap and the reference counters implement the abstract frame pool.
THEOREM PmmImplementsPool == Spec => ImplementsPool
<1>1. Init => Pool!Init
  <2>. SUFFICES ASSUME Init PROVE Pool!Init
    OBVIOUS
  <2>1. Free = Frames \ {0}
    BY DEF Init, Free
  <2>2. [j \in Frames \ {0} |-> holders[j]] = [j \in Frames \ {0} |-> 0]
    BY DEF Init
  <2>3. {j \in Frames : refs[j] = MaxRef} = {}
    BY PmmAssumption DEF Init
  <2>. QED  BY <2>1, <2>2, <2>3 DEF Init, Pool!Init
<1>2. PInv /\ [Next]_vars => [Pool!Next]_(Pool!vars)
  BY PInvStep
<1>. QED  BY Inductive, <1>1, <1>2, PTL DEF Spec, ImplementsPool, Pool!Spec

----
(***************************************************************************)
(* Powers of two and division.                                             *)
(***************************************************************************)
\* The least of a set of numbers is in the set, and none is less.
LEMMA MinIsLeast ==
    ASSUME NEW S \in SUBSET Nat, S # {}
    PROVE  Min(S) \in S /\ \A y \in S : Min(S) <= y
<1>. DEFINE Less == OpToRel(<, Nat)
<1>1. \E x \in S : \A y \in S : ~ (<<y, x>> \in Less)
  BY NatLessThanWellFounded, WFMin, Zenon
<1>2. Less = {ss \in Nat \X Nat : ss[1] < ss[2]}
  BY Zenon DEF OpToRel
<1>. HIDE DEF Less
<1>3. \A x, y \in Nat : <<y, x>> \in Less <=> y < x
  BY <1>2
<1>4. PICK x \in S : \A y \in S : ~ (<<y, x>> \in Less)
  BY <1>1
<1>5. ASSUME NEW y \in S PROVE x =< y
  <2>1. x \in Nat /\ y \in Nat
    OBVIOUS
  <2>2. ~ (y < x)
    BY <1>3, <1>4, <2>1, Zenon
  <2>. QED  BY <2>1, <2>2
<1>. QED  BY <1>5 DEF Min

\* What division by a positive number returns.
LEMMA Division ==
    ASSUME NEW n \in Nat, NEW d \in Nat \ {0}
    PROVE  /\ n \div d \in Nat /\ n % d \in Nat /\ n % d < d
           /\ n = d * (n \div d) + (n % d)
  BY SMT

\* The quotient is the number whose multiples enclose the dividend.
LEMMA QuotientIs ==
    ASSUME NEW n \in Nat, NEW d \in Nat \ {0}, NEW k \in Nat,
           d * k <= n, n < d * k + d
    PROVE  n \div d = k
<1>. DEFINE q == n \div d
<1>1. q \in Nat /\ d * q <= n /\ n < d * q + d
  BY Division, SMT
<1>. HIDE DEF q
<1>2. ~(q >= k + 1)
  <2>. SUFFICES ASSUME q >= k + 1 PROVE FALSE
    OBVIOUS
  <2>1. d * (k + 1) <= d * q
    BY <1>1, SMT
  <2>. QED  BY <1>1, <2>1, SMT
<1>3. ~(k >= q + 1)
  <2>. SUFFICES ASSUME k >= q + 1 PROVE FALSE
    OBVIOUS
  <2>1. d * (q + 1) <= d * k
    BY <1>1, SMT
  <2>. QED  BY <1>1, <2>1, SMT
<1>4. q = k
  BY <1>1, <1>2, <1>3, SMT
<1>. QED  BY <1>4 DEF q

\* Dividing by twice a number is dividing by it and then by two.
LEMMA DivideTwice ==
    ASSUME NEW n \in Nat, NEW d \in Nat \ {0}
    PROVE  n \div (2 * d) = (n \div d) \div 2
<1>. DEFINE q == n \div d
            h == q \div 2
<1>1. q \in Nat /\ d * q <= n /\ n < d * q + d
  BY Division, SMT
<1>. HIDE DEF q
<1>2. h \in Nat /\ 2 * h <= q /\ q <= 2 * h + 1
  BY <1>1, SMT
<1>. HIDE DEF h
<1>3. d * (2 * h) <= d * q /\ d * q <= d * (2 * h + 1)
  BY <1>1, <1>2, SMT
<1>4. 2 * d \in Nat \ {0}
  BY SMT
<1>5. (2 * d) * h <= n /\ n < (2 * d) * h + 2 * d
  BY <1>1, <1>2, <1>3, SMT
<1>6. n \div (2 * d) = h
  BY <1>2, <1>4, <1>5, QuotientIs
<1>. QED  BY <1>6 DEF h, q

----
(***************************************************************************)
(* Cells: the aligned runs of 2^order pages.                               *)
(***************************************************************************)
\* The pages of the aligned block of an order that a page lies in.
Cell(p, o) == {q \in Nat : q \div 2^o = p \div 2^o}

LEMMA Powers ==
    /\ 2^0 = 1 /\ 0 \in Orders /\ MAX_ORDER - 1 \in Orders /\ Orders \subseteq Nat
    /\ MAX_ORDER \in Nat
    /\ \A o \in Orders : /\ 2^o \in Nat \ {0} /\ 2^(o + 1) \in Nat \ {0}
                          /\ 2^(o + 1) = 2 * 2^o
  BY HeapAssumption, PowersOfTwo DEF Orders

\* One order up, the number of a page's cell is halved.
LEMMA CellNumbers ==
    ASSUME NEW q \in Nat, NEW o \in Orders
    PROVE  /\ q \div 2^0 = q
           /\ q \div 2^o \in Nat
           /\ q \div 2^(o + 1) = (q \div 2^o) \div 2
<1>1. q \div 1 = q
  BY SMT
<1>2. 2^o \in Nat \ {0} /\ 2^(o + 1) = 2 * 2^o /\ 2^0 = 1
  BY Powers
<1>3. q \div 2^o \in Nat
  BY <1>2, Division
<1>4. q \div (2 * 2^o) = (q \div 2^o) \div 2
  BY <1>2, DivideTwice
<1>. QED  BY <1>1, <1>2, <1>3, <1>4

\* Pages that share a cell share the larger ones.
LEMMA CellsGrow ==
    ASSUME NEW p \in Nat, NEW q \in Nat, NEW j \in Orders, NEW k \in Orders, j <= k,
           p \div 2^j = q \div 2^j
    PROVE  p \div 2^k = q \div 2^k
<1>. DEFINE S == {n \in Orders : j <= n /\ p \div 2^n # q \div 2^n}
<1>1. S \in SUBSET Nat
  BY Powers
<1>2. SUFFICES ASSUME S # {} PROVE FALSE
  OBVIOUS
<1>. DEFINE m == Min(S)
<1>3. m \in S /\ \A n \in S : m <= n
  BY <1>1, <1>2, MinIsLeast
<1>. HIDE DEF m
<1>4. m \in Orders /\ m \in Nat /\ j \in Nat /\ j <= m /\ p \div 2^m # q \div 2^m
  BY <1>3, Powers
<1>5. m # j
  BY <1>4
<1>6. m - 1 \in Orders /\ j <= m - 1 /\ ~(m <= m - 1)
  BY <1>4, <1>5, Powers DEF Orders
<1>7. p \div 2^(m - 1) = q \div 2^(m - 1)
  BY <1>3, <1>6
<1>. DEFINE n == m - 1
<1>8. p \div 2^(n + 1) = q \div 2^(n + 1)
  <2>. HIDE DEF n
  <2>1. n \in Orders /\ p \div 2^n = q \div 2^n
    BY <1>6, <1>7 DEF n
  <2>. QED  BY <2>1, CellNumbers
<1>9. n + 1 = m
  BY <1>4
<1>. QED  BY <1>4, <1>8, <1>9

\* The aligned block around a page starts at Aligned, and is the page's cell.
LEMMA AlignedIs ==
    ASSUME NEW p \in Nat, NEW o \in Orders
    PROVE  /\ Aligned(p, o) = 2^o * (p \div 2^o)
           /\ Aligned(p, o) \in Nat
           /\ Aligned(p, o) \div 2^o = p \div 2^o
           /\ Aligned(Aligned(p, o), o) = Aligned(p, o)
           /\ PagesFrom(Aligned(p, o), o) = Cell(p, o)
<1>. DEFINE d == 2^o
            k == p \div d
            a == d * k
<1>1. d \in Nat \ {0}
  BY Powers
<1>2. k \in Nat /\ p % d \in Nat /\ p = d * k + (p % d) /\ p % d < d
  BY <1>1, Division
<1>. HIDE DEF d, k
<1>3. p - (p % d) = d * k /\ a \in Nat
  BY <1>1, <1>2, SMT
<1>4. a \div d = k
  <2>1. d * k <= a /\ a < d * k + d
    BY <1>1, <1>2, <1>3, SMT
  <2>. QED  BY <2>1, <1>1, <1>2, <1>3, QuotientIs
<1>5. a - (a % d) = a
  <2>1. a = d * (a \div d) + (a % d) /\ a % d \in Nat
    BY <1>1, <1>3, Division
  <2>. QED  BY <2>1, <1>1, <1>2, <1>3, <1>4, SMT
<1>6. a .. a + d - 1 = {q \in Nat : q \div d = k}
  <2>1. ASSUME NEW q \in Nat, q \div d = k PROVE q \in a .. a + d - 1
    <3>1. q = d * (q \div d) + (q % d) /\ q % d \in Nat /\ q % d < d
      BY <1>1, Division
    <3>. QED  BY <3>1, <2>1, <1>1, <1>2, <1>3, SMT
  <2>2. ASSUME NEW q \in a .. a + d - 1 PROVE q \in Nat /\ q \div d = k
    <3>1. q \in Nat /\ d * k <= q /\ q < d * k + d
      BY <1>1, <1>2, <1>3, SMT
    <3>. QED  BY <3>1, <1>1, <1>2, QuotientIs
  <2>. QED  BY <2>1, <2>2
<1>. QED  BY <1>3, <1>4, <1>5, <1>6 DEF Aligned, PagesFrom, Cell, d, k, a

\* What depends on a page's cell only.
LEMMA SameCell ==
    ASSUME NEW p \in Nat, NEW q \in Nat, NEW o \in Orders, p \div 2^o = q \div 2^o
    PROVE  /\ Aligned(p, o) = Aligned(q, o) /\ Buddy(p, o) = Buddy(q, o)
           /\ Cell(p, o) = Cell(q, o)
<1>1. Aligned(p, o) = Aligned(q, o)
  BY AlignedIs
<1>2. Aligned(p, o) \div 2^o = Aligned(q, o) \div 2^o
  BY AlignedIs
<1>. QED  BY <1>1, <1>2 DEF Buddy, Cell

\* The buddy is the other half of the cell one order up.
LEMMA BuddyIs ==
    ASSUME NEW p \in Nat, NEW o \in Orders
    PROVE  /\ Buddy(p, o) \in Nat
           /\ Aligned(Buddy(p, o), o) = Buddy(p, o)
           /\ Buddy(p, o) \div 2^o # p \div 2^o
           /\ \A q \in Nat : q \div 2^(o + 1) = p \div 2^(o + 1) <=>
                  q \div 2^o \in {p \div 2^o, Buddy(p, o) \div 2^o}
<1>. DEFINE d == 2^o
            k == p \div d
            a == Aligned(p, o)
            b == Buddy(p, o)
            n == IF k % 2 = 0 THEN k + 1 ELSE k - 1
<1>1. d \in Nat \ {0} /\ k \in Nat /\ a = d * k /\ a \div d = k
  BY Powers, CellNumbers, AlignedIs
<1>2. b = IF k % 2 = 0 THEN a + d ELSE a - d
  BY <1>1 DEF Buddy
<1>. HIDE DEF k, a, b, d
<1>3. n \in Nat /\ n # k /\ (k % 2 = 0 => n = k + 1) /\ (k % 2 # 0 => n = k - 1)
  BY <1>1, SMT
<1>. HIDE DEF n
<1>4. b = d * n
  <2>1. CASE k % 2 = 0
    BY <2>1, <1>1, <1>2, <1>3, SMT
  <2>2. CASE k % 2 # 0
    BY <2>2, <1>1, <1>2, <1>3, SMT
  <2>. QED  BY <2>1, <2>2
<1>5. b \in Nat /\ d * n <= b /\ b < d * n + d
  BY <1>1, <1>3, <1>4, SMT
<1>6. b \div d = n
  BY <1>1, <1>3, <1>5, QuotientIs
<1>7. Aligned(b, o) = b
  <2>1. Aligned(b, o) = d * (b \div d)
    BY <1>5, AlignedIs DEF d
  <2>. QED  BY <2>1, <1>4, <1>6
<1>8. ASSUME NEW q \in Nat
      PROVE  q \div 2^(o + 1) = p \div 2^(o + 1) <=> q \div d \in {k, n}
  <2>1. q \div 2^(o + 1) = (q \div d) \div 2 /\ q \div d \in Nat
        /\ p \div 2^(o + 1) = k \div 2
    BY CellNumbers DEF d, k
  <2>. DEFINE i == q \div d
  <2>. HIDE DEF i
  <2>2. i \in Nat /\ k \in Nat => (i \div 2 = k \div 2 <=> i \in {k, n})
    BY <1>3, SMT
  <2>. QED  BY <2>1, <2>2, <1>1 DEF i
<1>. QED  BY <1>3, <1>5, <1>6, <1>7, <1>8 DEF d, k, b

\* Buddies share the cell one order up.
LEMMA BuddyUp ==
    ASSUME NEW p \in Nat, NEW o \in Orders
    PROVE  Buddy(p, o) \div 2^(o + 1) = p \div 2^(o + 1)
<1>. DEFINE b == Buddy(p, o)
<1>1. b \in Nat /\ b \div 2^o \in {p \div 2^o, b \div 2^o}
  BY BuddyIs
<1>2. \A q \in Nat : q \div 2^(o + 1) = p \div 2^(o + 1) <=>
                        q \div 2^o \in {p \div 2^o, b \div 2^o}
  BY BuddyIs
<1>. HIDE DEF b
<1>3. b \div 2^(o + 1) = p \div 2^(o + 1)
  BY <1>1, <1>2
<1>. QED  BY <1>3 DEF b

\* Being buddies is mutual.
LEMMA BuddyOfBuddy ==
    ASSUME NEW p \in Nat, NEW o \in Orders
    PROVE  Buddy(Buddy(p, o), o) = Aligned(p, o)
<1>. DEFINE b == Buddy(p, o)
            c == Buddy(b, o)
<1>1. b \in Nat /\ c \in Nat /\ Aligned(c, o) = c
  BY BuddyIs
<1>2. b \div 2^o # p \div 2^o /\ c \div 2^o # b \div 2^o
  <2>1. b \div 2^o # p \div 2^o
    BY BuddyIs
  <2>2. c \div 2^o # b \div 2^o
    BY <1>1, BuddyIs
  <2>. QED  BY <2>1, <2>2
<1>3. b \div 2^(o + 1) = p \div 2^(o + 1)
  BY BuddyUp
<1>4. c \div 2^(o + 1) = b \div 2^(o + 1)
  BY <1>1, BuddyUp
<1>5. c \div 2^o \in {p \div 2^o, b \div 2^o}
  BY <1>1, <1>3, <1>4, BuddyIs
<1>6. c \div 2^o = p \div 2^o
  BY <1>2, <1>5
<1>. QED  BY <1>1, <1>6, SameCell

\* Cells of two orders are nested or apart.
LEMMA CellsNest ==
    ASSUME NEW p \in Nat, NEW q \in Nat, NEW j \in Orders, NEW k \in Orders, j <= k,
           NEW r \in Nat, r \in Cell(p, j), r \in Cell(q, k)
    PROVE  /\ Cell(p, j) \subseteq Cell(q, k)
           /\ Cell(p, k) = Cell(q, k) /\ Aligned(p, k) = Aligned(q, k)
<1>1. r \div 2^j = p \div 2^j /\ r \div 2^k = q \div 2^k
  BY DEF Cell
<1>2. p \div 2^k = q \div 2^k
  BY <1>1, CellsGrow
<1>3. ASSUME NEW x \in Cell(p, j) PROVE x \in Cell(q, k)
  <2>1. x \in Nat /\ x \div 2^j = p \div 2^j
    BY DEF Cell
  <2>2. x \div 2^k = p \div 2^k
    BY <2>1, CellsGrow
  <2>. QED  BY <2>1, <2>2, <1>2 DEF Cell
<1>. QED  BY <1>2, <1>3, SameCell

\* An order below another one of the heap, and the one above it.
LEMMA OrdersBetween ==
    ASSUME NEW lo \in Orders, NEW hi \in Orders, NEW k \in lo .. hi - 1
    PROVE  k \in Orders /\ k + 1 \in Orders /\ k < hi /\ k + 1 <= hi /\ lo <= k
           /\ k < MAX_ORDER - 1 /\ k # hi
  BY HeapAssumption DEF Orders

\* A cell is a smaller one in it and the buddies on the way up.
LEMMA CellParts ==
    ASSUME NEW p \in Nat, NEW lo \in Orders, NEW hi \in Orders, lo <= hi, NEW q \in Nat
    PROVE  q \in Cell(p, hi) <=>
               q \in Cell(p, lo) \/ \E k \in lo .. hi - 1 : q \in Cell(Buddy(p, k), k)
<1>1. ASSUME q \in Cell(p, lo) PROVE q \in Cell(p, hi)
  <2>1. q \div 2^lo = p \div 2^lo
    BY <1>1 DEF Cell
  <2>2. q \div 2^hi = p \div 2^hi
    BY <2>1, CellsGrow
  <2>. QED  BY <2>2 DEF Cell
<1>2. ASSUME NEW k \in lo .. hi - 1, q \in Cell(Buddy(p, k), k) PROVE q \in Cell(p, hi)
  <2>. DEFINE n == k + 1
  <2>1. k \in Orders /\ n \in Orders /\ n <= hi
    BY OrdersBetween
  <2>2. q \div 2^n = p \div 2^n
    BY <1>2, <2>1, BuddyIs DEF Cell
  <2>. HIDE DEF n
  <2>3. q \div 2^hi = p \div 2^hi
    BY <2>1, <2>2, CellsGrow
  <2>. QED  BY <2>3 DEF Cell
<1>3. ASSUME q \in Cell(p, hi), q \notin Cell(p, lo)
      PROVE  \E k \in lo .. hi - 1 : q \in Cell(Buddy(p, k), k)
  <2>. DEFINE S == {n \in Orders : lo <= n /\ n <= hi /\ q \in Cell(p, n)}
              m == Min(S)
              k == m - 1
  <2>0. hi \in Nat /\ Orders \subseteq Nat
    BY Powers
  <2>1. S \in SUBSET Nat /\ hi \in S
    <3>1. S \subseteq Nat
      BY <2>0, Zenon
    <3>2. hi <= hi
      BY <2>0
    <3>. QED  BY <3>1, <3>2, <1>3, Zenon
  <2>2. m \in S /\ \A n \in S : m <= n
    BY <2>1, MinIsLeast
  <2>. HIDE DEF m
  <2>3. m \in Nat /\ lo \in Nat /\ hi \in Nat /\ lo <= m /\ m <= hi /\ m # lo
    BY <2>2, <1>3, Powers
  <2>4. k \in lo .. hi - 1 /\ m = k + 1 /\ ~(m <= k)
    BY <2>3
  <2>. HIDE DEF k
  <2>5. k \in Orders /\ lo <= k /\ k <= hi
    BY <2>4, OrdersBetween, Powers
  <2>6. k \notin S
    BY <2>2, <2>4
  <2>7. q \div 2^k # p \div 2^k
    BY <2>5, <2>6 DEF Cell
  <2>8. q \div 2^(k + 1) = p \div 2^(k + 1)
    BY <2>2, <2>4 DEF Cell
  <2>9. q \div 2^k = Buddy(p, k) \div 2^k
    BY <2>5, <2>7, <2>8, BuddyIs
  <2>. QED  BY <2>4, <2>9 DEF Cell
<1>. QED  BY <1>1, <1>2, <1>3

\* These parts are apart.
LEMMA PartsApart ==
    ASSUME NEW p \in Nat, NEW lo \in Orders, NEW hi \in Orders, NEW q \in Nat,
           NEW k \in lo .. hi - 1, q \in Cell(Buddy(p, k), k)
    PROVE  /\ q \notin Cell(p, lo)
           /\ \A j \in lo .. hi - 1 : q \in Cell(Buddy(p, j), j) => j = k
<1>1. \A j \in lo .. hi - 1 : j \in Orders /\ j + 1 \in Orders /\ lo <= j /\ j \in Nat
  BY OrdersBetween, Powers
<1>2. \A j \in lo .. hi - 1 : q \in Cell(Buddy(p, j), j) =>
          q \div 2^j # p \div 2^j /\ q \div 2^(j + 1) = p \div 2^(j + 1)
  <2>. SUFFICES ASSUME NEW j \in lo .. hi - 1, q \in Cell(Buddy(p, j), j)
                PROVE  q \div 2^j # p \div 2^j /\ q \div 2^(j + 1) = p \div 2^(j + 1)
    OBVIOUS
  <2>1. j \in Orders /\ q \div 2^j = Buddy(p, j) \div 2^j
    BY <1>1 DEF Cell
  <2>. QED  BY <2>1, BuddyIs
<1>3. q \notin Cell(p, lo)
  <2>. SUFFICES ASSUME q \in Cell(p, lo) PROVE FALSE
    OBVIOUS
  <2>1. q \div 2^lo = p \div 2^lo
    BY DEF Cell
  <2>2. q \div 2^k = p \div 2^k
    BY <1>1, <2>1, CellsGrow
  <2>. QED  BY <1>2, <2>2
<1>4. ASSUME NEW i \in lo .. hi - 1, NEW j \in lo .. hi - 1, i + 1 <= j,
             q \in Cell(Buddy(p, i), i), q \in Cell(Buddy(p, j), j)
      PROVE  FALSE
  <2>. DEFINE n == i + 1
  <2>1. n \in Orders /\ j \in Orders /\ n <= j /\ q \div 2^n = p \div 2^n
    BY <1>1, <1>2, <1>4
  <2>. HIDE DEF n
  <2>2. q \div 2^j = p \div 2^j
    BY <2>1, CellsGrow
  <2>. QED  BY <2>2, <1>2, <1>4
<1>5. ASSUME NEW j \in lo .. hi - 1, q \in Cell(Buddy(p, j), j) PROVE j = k
  <2>1. j \in Nat /\ k \in Nat
    BY <1>1
  <2>2. ~(j + 1 <= k) /\ ~(k + 1 <= j)
    BY <1>4, <1>5
  <2>. QED  BY <2>1, <2>2
<1>. QED  BY <1>3, <1>5

\* Below its own order, an aligned page starts its cell, and its buddy is the
\* upper half.
LEMMA UpperHalf ==
    ASSUME NEW a \in Nat, NEW hi \in Orders, Aligned(a, hi) = a,
           NEW o \in Orders, o <= hi
    PROVE  /\ Aligned(a, o) = a
           /\ o < hi => Buddy(a, o) = a + 2^o
<1>1. \A k \in Orders : 2^k \in Nat /\ 2^k > 0
  BY Powers
<1>2. \A q \in Cell(a, hi) : a <= q
  <2>1. PagesFrom(a, hi) = Cell(a, hi)
    BY AlignedIs
  <2>. QED  BY <2>1, <1>1 DEF PagesFrom
<1>3. Aligned(a, o) = a
  <2>. DEFINE b == Aligned(a, o)
  <2>1. b \in Nat /\ b \div 2^o = a \div 2^o
    BY AlignedIs
  <2>2. a % 2^o \in Nat
    BY Division, Powers
  <2>3. b = a - (a % 2^o)
    BY DEF Aligned
  <2>. HIDE DEF b
  <2>4. b \div 2^hi = a \div 2^hi
    BY <2>1, CellsGrow
  <2>5. a <= b
    BY <2>1, <2>4, <1>2 DEF Cell
  <2>. QED  BY <2>1, <2>2, <2>3, <2>5 DEF b
<1>4. ASSUME o < hi PROVE Buddy(a, o) = a + 2^o
  <2>. DEFINE b == Buddy(a, o)
  <2>1. o \in o .. hi - 1 /\ hi \in Nat /\ o \in Nat
    BY <1>4, Powers
  <2>2. b \in Nat /\ b \div 2^o # a \div 2^o
    BY BuddyIs
  <2>3. b \in Cell(a, hi)
    <3>1. b \in Cell(Buddy(a, o), o)
      BY <2>2 DEF Cell
    <3>. QED  BY <3>1, <2>1, <2>2, CellParts
  <2>4. a <= b
    BY <2>3, <1>2
  <2>5. b = a + 2^o \/ b = a - 2^o
    BY <1>3 DEF Buddy
  <2>. HIDE DEF b
  <2>6. b = a + 2^o
    BY <2>2, <2>4, <2>5, <1>1
  <2>. QED  BY <2>6 DEF b
<1>. QED  BY <1>3, <1>4

----
(***************************************************************************)
(* Free blocks: G[o] is the set of the blocks listed under order o, B the  *)
(* pages they make up.                                                     *)
(***************************************************************************)
Blocks(G, B) ==
    /\ G \in [Orders -> SUBSET Nat] /\ B \subseteq Nat
    /\ \A o \in Orders : \A x \in G[o] : Aligned(x, o) = x /\ Cell(x, o) \subseteq B
    /\ \A q \in B : \E o \in Orders : \E x \in G[o] : q \in Cell(x, o)
    /\ \A o \in Orders : o < MAX_ORDER - 1 => \A x \in G[o] : Buddy(x, o) \notin G[o]
    /\ \A j, k \in Orders : \A x \in G[j], y \in G[k] :
           \A q \in Nat : q \in Cell(x, j) /\ q \in Cell(y, k) => j = k /\ x = y

\* A page is in its own cells.
LEMMA OwnCell ==
    ASSUME NEW p \in Nat, NEW o \in Orders
    PROVE  p \in Cell(p, o) /\ Cell(p, o) \subseteq Nat /\ Cell(Aligned(p, o), o) = Cell(p, o)
<1>1. Aligned(p, o) \in Nat /\ Aligned(p, o) \div 2^o = p \div 2^o
  BY AlignedIs
<1>. QED  BY <1>1 DEF Cell

\* The buddy of a block that is not free, if all its pages are free, is
\* listed as one block: what free_remove relies on.
LEMMA ListedBuddy ==
    ASSUME NEW G, NEW B, Blocks(G, B), NEW p \in Nat, NEW lo \in Orders,
           NEW k \in Orders, lo <= k, k < MAX_ORDER - 1,
           Cell(p, lo) \cap B = {}, Cell(Buddy(p, k), k) \subseteq B
    PROVE  Buddy(p, k) \in G[k]
<1>. DEFINE b == Buddy(p, k)
            n == k + 1
            T == {o \in Orders : \E x \in G[o] : \E r \in Cell(b, k) : r \in Cell(x, o)}
            m == Min(T)
<1>1. /\ b \in Nat /\ Aligned(b, k) = b /\ b \div 2^n = p \div 2^n
      /\ b \in Cell(b, k) /\ p \in Cell(p, lo)
  BY BuddyIs, BuddyUp, OwnCell
<1>2. n \in Orders /\ n \in Nat /\ k \in Nat
  BY HeapAssumption DEF Orders
<1>3. /\ G \in [Orders -> SUBSET Nat] /\ B \subseteq Nat
      /\ \A o \in Orders : \A x \in G[o] : x \in Nat
      /\ \A o \in Orders : \A x \in G[o] : Aligned(x, o) = x /\ Cell(x, o) \subseteq B
      /\ \A q \in B : \E o \in Orders : \E x \in G[o] : q \in Cell(x, o)
      /\ \A o \in Orders : o < MAX_ORDER - 1 => \A x \in G[o] : Buddy(x, o) \notin G[o]
      /\ \A i, j \in Orders : \A x \in G[i], y \in G[j] :
           \A q \in Nat : q \in Cell(x, i) /\ q \in Cell(y, j) => i = j /\ x = y
  BY DEF Blocks
<1>. HIDE DEF b, m
<1>4. T \in SUBSET Nat /\ T # {}
  <2>1. T \subseteq Nat
    BY Powers, Zenon
  <2>2. b \in B
    BY <1>1 DEF b
  <2>3. \E o \in Orders : \E x \in G[o] : b \in Cell(x, o)
    BY <1>3, <2>2, Zenon
  <2>. QED  BY <2>1, <2>3, <1>1, Zenon
<1>5. m \in T /\ \A o \in T : m <= o
  BY <1>4, MinIsLeast DEF m
<1>6. PICK x \in G[m] : \E r \in Cell(b, k) : r \in Cell(x, m)
  BY <1>5
<1>7. PICK r \in Cell(b, k) : r \in Cell(x, m)
  BY <1>6
<1>8. m \in Orders /\ m \in Nat /\ x \in Nat /\ Aligned(x, m) = x
      /\ r \in Nat /\ r \div 2^k = b \div 2^k /\ r \div 2^m = x \div 2^m
  BY <1>3, <1>4, <1>5, <1>6, <1>7 DEF Cell
<1>9. ~(k + 1 <= m)
  <2>. SUFFICES ASSUME n <= m PROVE FALSE
    OBVIOUS
  <2>. HIDE DEF n
  <2>1. k <= m
    BY <1>2, <1>8 DEF n
  <2>2. r \div 2^m = b \div 2^m /\ b \div 2^m = p \div 2^m
    BY <1>1, <1>2, <1>8, <2>1, CellsGrow
  <2>3. p \in Cell(x, m)
    BY <1>8, <2>2 DEF Cell
  <2>. QED  BY <2>3, <1>1, <1>3, <1>6, <1>8
<1>10. CASE m = k
  <2>1. Aligned(x, k) = Aligned(b, k)
    BY <1>1, <1>8, <1>10, SameCell
  <2>. QED  BY <2>1, <1>1, <1>6, <1>8, <1>10 DEF b
<1>11. CASE m # k
  <2>. DEFINE y == Buddy(x, m)
              i == m + 1
  <2>1. i <= k /\ m < MAX_ORDER - 1 /\ i \in Orders /\ i \in Nat /\ m <= k
    BY <1>2, <1>8, <1>9, <1>11, HeapAssumption DEF Orders
  <2>2. y \in Nat /\ y \div 2^i = x \div 2^i /\ Aligned(y, m) = y
    <3>1. y \in Nat /\ Aligned(y, m) = y
      BY <1>8, BuddyIs
    <3>. HIDE DEF y
    <3>2. y \div 2^(m + 1) = x \div 2^(m + 1)
      BY <1>8, BuddyUp DEF y
    <3>. QED  BY <3>1, <3>2
  <2>. HIDE DEF y, i
  <2>3. y \div 2^k = x \div 2^k /\ x \div 2^k = r \div 2^k
    BY <2>1, <2>2, <1>8, CellsGrow
  <2>4. y \in Cell(b, k)
    BY <2>2, <2>3, <1>8 DEF Cell
  <2>5. PICK o \in Orders : \E z \in G[o] : y \in Cell(z, o)
    BY <2>4, <1>3 DEF b
  <2>6. PICK z \in G[o] : y \in Cell(z, o)
    BY <2>5
  <2>7. z \in Nat /\ Aligned(z, o) = z /\ y \div 2^o = z \div 2^o /\ o \in Nat
    BY <2>6, <1>3, Powers DEF Cell
  <2>8. m <= o
    BY <2>4, <2>6, <1>5
  <2>9. CASE o = m
    <3>1. Aligned(z, m) = Aligned(y, m)
      BY <2>2, <2>7, <2>9, <1>8, SameCell
    <3>2. y \in G[m]
      BY <3>1, <2>2, <2>6, <2>7, <2>9
    <3>. QED  BY <3>2, <2>1, <1>3, <1>6, <1>8 DEF y
  <2>10. CASE o # m
    <3>1. i <= o
      BY <2>7, <2>8, <2>10, <1>8 DEF i
    <3>2. x \div 2^o = z \div 2^o
      BY <3>1, <2>1, <2>2, <2>7, <1>8, CellsGrow
    <3>3. x \in Cell(z, o) /\ x \in Cell(x, m)
      BY <3>2, <1>8 DEF Cell
    <3>. QED  BY <3>3, <2>6, <2>10, <1>3, <1>6, <1>8
  <2>. QED  BY <2>9, <2>10
<1>. QED  BY <1>10, <1>11

\* What free_coalesce makes of the free blocks: the buddies on the way up
\* leave their lists, and the block they grow into comes in.
LEMMA BlocksJoin ==
    ASSUME NEW G, NEW B, Blocks(G, B), NEW p \in Nat, NEW lo \in Orders,
           NEW hi \in Orders, lo <= hi, Cell(p, lo) \cap B = {},
           \A k \in lo .. hi - 1 : Cell(Buddy(p, k), k) \subseteq B,
           hi < MAX_ORDER - 1 => ~(Cell(Buddy(p, hi), hi) \subseteq B),
           NEW H, H = [o \in Orders |-> IF o = hi THEN G[o] \cup {Aligned(p, o)}
                                       ELSE IF o \in lo .. hi - 1 THEN G[o] \ {Buddy(p, o)}
                                       ELSE G[o]]
    PROVE  Blocks(H, B \cup Cell(p, lo))
<1>. DEFINE a == Aligned(p, hi)
            C == B \cup Cell(p, lo)
<1>1. /\ G \in [Orders -> SUBSET Nat] /\ B \subseteq Nat
      /\ \A o \in Orders : \A x \in G[o] : x \in Nat
      /\ \A o \in Orders : \A x \in G[o] : Aligned(x, o) = x /\ Cell(x, o) \subseteq B
      /\ \A q \in B : \E o \in Orders : \E x \in G[o] : q \in Cell(x, o)
      /\ \A o \in Orders : o < MAX_ORDER - 1 => \A x \in G[o] : Buddy(x, o) \notin G[o]
      /\ \A i, j \in Orders : \A x \in G[i], y \in G[j] :
           \A q \in Nat : q \in Cell(x, i) /\ q \in Cell(y, j) => i = j /\ x = y
  BY DEF Blocks
<1>2. /\ a \in Nat /\ Aligned(a, hi) = a /\ Cell(a, hi) = Cell(p, hi)
      /\ Cell(p, hi) \subseteq Nat /\ Cell(p, lo) \subseteq Nat
  BY AlignedIs, OwnCell
<1>3. \A k \in lo .. hi - 1 : k \in Orders /\ lo <= k /\ k < MAX_ORDER - 1 /\ k # hi
  BY OrdersBetween
<1>4. \A k \in lo .. hi - 1 : Buddy(p, k) \in G[k]
  BY <1>3, ListedBuddy
<1>5. /\ H[hi] = G[hi] \cup {a}
      /\ \A k \in lo .. hi - 1 : H[k] = G[k] \ {Buddy(p, k)}
      /\ \A o \in Orders : o # hi => H[o] \subseteq G[o]
      /\ \A o \in Orders : o # hi /\ o \notin lo .. hi - 1 => H[o] = G[o]
  BY <1>3
<1>6. \A o \in Orders : \A x \in H[o] : x \in G[o] \/ (o = hi /\ x = a)
  BY <1>5
<1>7. \A q \in Nat : q \in Cell(p, hi) <=>
          q \in Cell(p, lo) \/ \E k \in lo .. hi - 1 : q \in Cell(Buddy(p, k), k)
  BY CellParts
<1>8. Buddy(a, hi) = Buddy(p, hi) /\ Buddy(p, hi) # a
  <2>1. a \div 2^hi = p \div 2^hi /\ Buddy(p, hi) \div 2^hi # p \div 2^hi
    BY AlignedIs, BuddyIs
  <2>. QED  BY <2>1, <1>2, SameCell
<1>. HIDE DEF a
<1>9. H \in [Orders -> SUBSET Nat] /\ C \subseteq Nat
  <2>1. \A o \in Orders : H[o] \subseteq Nat
    BY <1>1, <1>2, <1>6
  <2>2. DOMAIN H = Orders /\ H = [o \in Orders |-> H[o]]
    OBVIOUS
  <2>. QED  BY <2>1, <2>2, <1>1, <1>2
<1>10. \A o \in Orders : \A x \in H[o] : Aligned(x, o) = x /\ Cell(x, o) \subseteq C
  <2>1. Cell(a, hi) \subseteq C
    BY <1>2, <1>7
  <2>. QED  BY <2>1, <1>1, <1>2, <1>6
<1>11. ASSUME NEW q \in C PROVE \E o \in Orders : \E x \in H[o] : q \in Cell(x, o)
  <2>1. q \in Nat
    BY <1>1, <1>2
  <2>2. CASE q \in Cell(p, hi)
    BY <2>2, <1>2, <1>5
  <2>3. CASE q \notin Cell(p, hi)
    <3>1. q \in B
      BY <2>1, <2>3, <1>7
    <3>2. PICK o \in Orders : \E x \in G[o] : q \in Cell(x, o)
      BY <3>1, <1>1
    <3>3. PICK x \in G[o] : q \in Cell(x, o)
      BY <3>2
    <3>4. x \in H[o]
      <4>1. CASE o \in lo .. hi - 1
        <5>1. x # Buddy(p, o)
          BY <2>1, <2>3, <3>3, <4>1, <1>7
        <5>. QED  BY <5>1, <4>1, <3>3, <1>5
      <4>2. CASE o \notin lo .. hi - 1
        BY <4>2, <3>3, <1>5
      <4>. QED  BY <4>1, <4>2
    <3>. QED  BY <3>3, <3>4
  <2>. QED  BY <2>2, <2>3
<1>12. ASSUME NEW o \in Orders, o < MAX_ORDER - 1, NEW x \in H[o], Buddy(x, o) \in H[o]
       PROVE  FALSE
  <2>1. CASE x \in G[o] /\ Buddy(x, o) \in G[o]
    BY <2>1, <1>1, <1>12
  <2>2. CASE o = hi /\ x = a
    <3>1. Buddy(p, hi) \in G[hi]
      BY <2>2, <1>6, <1>8, <1>12
    <3>. QED  BY <3>1, <2>2, <1>1, <1>12
  <2>3. CASE o = hi /\ x \in G[o] /\ Buddy(x, o) = a
    <3>1. x \in Nat /\ Aligned(x, hi) = x
      BY <2>3, <1>1
    <3>2. Buddy(a, hi) = x
      BY <3>1, <2>3, BuddyOfBuddy
    <3>. QED  BY <3>2, <2>3, <1>1, <1>8, <1>12
  <2>. QED  BY <2>1, <2>2, <2>3, <1>6, <1>12
<1>13. ASSUME NEW k \in Orders, NEW y \in H[k], y \in G[k], NEW q \in Nat,
              q \in Cell(a, hi), q \in Cell(y, k)
       PROVE  FALSE
  <2>1. q \in B
    BY <1>1, <1>13
  <2>2. q \notin Cell(p, lo)
    BY <2>1
  <2>3. PICK j \in lo .. hi - 1 : q \in Cell(Buddy(p, j), j)
    BY <2>2, <1>2, <1>7, <1>13
  <2>4. k = j /\ y = Buddy(p, j)
    BY <2>3, <1>1, <1>3, <1>4, <1>13
  <2>. QED  BY <2>4, <1>5, <1>13
<1>14. ASSUME NEW j \in Orders, NEW k \in Orders, NEW x \in H[j], NEW y \in H[k],
              NEW q \in Nat, q \in Cell(x, j), q \in Cell(y, k)
       PROVE  j = k /\ x = y
  <2>1. CASE x \in G[j] /\ y \in G[k]
    BY <2>1, <1>1, <1>14
  <2>2. CASE j = hi /\ x = a /\ y \in G[k]
    BY <2>2, <1>13, <1>14
  <2>3. CASE k = hi /\ y = a /\ x \in G[j]
    BY <2>3, <1>13, <1>14
  <2>. QED  BY <2>1, <2>2, <2>3, <1>6
<1>. QED  BY <1>9, <1>10, <1>11, <1>12, <1>14 DEF Blocks

\* What alloc_order makes of them: the block it finds leaves its list, and the
\* upper halves come in.
LEMMA BlocksSplit ==
    ASSUME NEW G, NEW B, Blocks(G, B), NEW lo \in Orders, NEW hi \in Orders, lo <= hi,
           NEW a \in G[hi],
           NEW H, H = [o \in Orders |-> IF o = hi THEN G[o] \ {a}
                                       ELSE IF o \in lo .. hi - 1 THEN G[o] \cup {Buddy(a, o)}
                                       ELSE G[o]]
    PROVE  Blocks(H, B \ Cell(a, lo))
<1>. DEFINE C == B \ Cell(a, lo)
<1>1. /\ G \in [Orders -> SUBSET Nat] /\ B \subseteq Nat
      /\ \A o \in Orders : \A x \in G[o] : x \in Nat
      /\ \A o \in Orders : \A x \in G[o] : Aligned(x, o) = x /\ Cell(x, o) \subseteq B
      /\ \A q \in B : \E o \in Orders : \E x \in G[o] : q \in Cell(x, o)
      /\ \A o \in Orders : o < MAX_ORDER - 1 => \A x \in G[o] : Buddy(x, o) \notin G[o]
      /\ \A i, j \in Orders : \A x \in G[i], y \in G[j] :
           \A q \in Nat : q \in Cell(x, i) /\ q \in Cell(y, j) => i = j /\ x = y
  BY DEF Blocks
<1>2. a \in Nat /\ Aligned(a, hi) = a /\ Cell(a, hi) \subseteq B /\ Cell(a, hi) \subseteq Nat
  BY <1>1, OwnCell
<1>3. \A k \in lo .. hi - 1 : /\ k \in Orders /\ k # hi /\ Buddy(a, k) \in Nat
                               /\ Aligned(Buddy(a, k), k) = Buddy(a, k)
                               /\ Cell(Buddy(a, k), k) \subseteq Nat
  BY <1>2, OrdersBetween, BuddyIs, OwnCell
<1>4. \A q \in Nat : q \in Cell(a, hi) <=>
          q \in Cell(a, lo) \/ \E k \in lo .. hi - 1 : q \in Cell(Buddy(a, k), k)
  BY <1>2, CellParts
<1>5. \A o \in Orders : \A x \in H[o] :
          \/ x \in G[o] /\ ~(o = hi /\ x = a)
          \/ o \in lo .. hi - 1 /\ x = Buddy(a, o)
  BY <1>3
<1>6. /\ \A o \in Orders : \A x \in G[o] : ~(o = hi /\ x = a) => x \in H[o]
      /\ \A k \in lo .. hi - 1 : Buddy(a, k) \in H[k]
  BY <1>3
<1>7. H \in [Orders -> SUBSET Nat] /\ C \subseteq Nat
  <2>1. \A o \in Orders : H[o] \subseteq Nat
    BY <1>1, <1>3, <1>5
  <2>2. DOMAIN H = Orders /\ H = [o \in Orders |-> H[o]]
    OBVIOUS
  <2>. QED  BY <2>1, <2>2, <1>1
<1>8. ASSUME NEW o \in Orders, NEW x \in H[o]
      PROVE  x \in Nat /\ Aligned(x, o) = x /\ Cell(x, o) \subseteq C
  <2>1. CASE x \in G[o] /\ ~(o = hi /\ x = a)
    <3>1. x \in Nat /\ Aligned(x, o) = x /\ Cell(x, o) \subseteq B
      BY <2>1, <1>1
    <3>2. ASSUME NEW q \in Cell(x, o), q \in Cell(a, lo) PROVE FALSE
      <4>1. q \in Nat /\ q \in Cell(a, hi)
        BY <3>1, <3>2, <1>1, <1>4
      <4>. QED  BY <4>1, <3>2, <2>1, <1>1
    <3>. QED  BY <3>1, <3>2
  <2>2. CASE o \in lo .. hi - 1 /\ x = Buddy(a, o)
    <3>1. ASSUME NEW q \in Cell(x, o) PROVE q \in B /\ q \notin Cell(a, lo)
      <4>1. q \in Nat
        BY <2>2, <1>3
      <4>2. q \in Cell(a, hi)
        BY <4>1, <2>2, <1>4
      <4>3. q \notin Cell(a, lo)
        BY <4>1, <2>2, <1>2, PartsApart
      <4>. QED  BY <4>2, <4>3, <1>2
    <3>. QED  BY <3>1, <2>2, <1>3
  <2>. QED  BY <2>1, <2>2, <1>5
<1>9. ASSUME NEW q \in C PROVE \E o \in Orders : \E x \in H[o] : q \in Cell(x, o)
  <2>1. PICK o \in Orders : \E x \in G[o] : q \in Cell(x, o)
    BY <1>1
  <2>2. PICK x \in G[o] : q \in Cell(x, o)
    BY <2>1
  <2>3. CASE o = hi /\ x = a
    <3>1. PICK k \in lo .. hi - 1 : q \in Cell(Buddy(a, k), k)
      BY <2>2, <2>3, <1>1, <1>4
    <3>. QED  BY <3>1, <1>3, <1>6
  <2>4. CASE ~(o = hi /\ x = a)
    BY <2>2, <2>4, <1>6
  <2>. QED  BY <2>3, <2>4
<1>10. a \notin C
  BY <1>2, OwnCell
<1>11. ASSUME NEW o \in lo .. hi - 1, NEW x \in Nat, Cell(x, o) \subseteq C,
              x \in Cell(a, o) \/ Aligned(a, o) = x
       PROVE  FALSE
  <2>1. o \in Orders
    BY <1>3
  <2>2. x \div 2^o = a \div 2^o
    BY <2>1, <1>2, <1>11, AlignedIs DEF Cell
  <2>3. a \in Cell(x, o)
    BY <2>2, <1>2 DEF Cell
  <2>. QED  BY <2>3, <1>10, <1>11
<1>12. ASSUME NEW o \in Orders, o < MAX_ORDER - 1, NEW x \in H[o], Buddy(x, o) \in H[o]
       PROVE  FALSE
  <2>. DEFINE y == Buddy(x, o)
  <2>1. /\ x \in Nat /\ Aligned(x, o) = x /\ Cell(x, o) \subseteq C
        /\ y \in Nat /\ Cell(y, o) \subseteq C
    BY <1>8, <1>12
  <2>2. CASE x \in G[o] /\ y \in G[o]
    BY <2>2, <1>1, <1>12
  <2>3. CASE o \in lo .. hi - 1 /\ x = Buddy(a, o)
    <3>1. y = Aligned(a, o)
      BY <2>3, <1>2, <1>3, BuddyOfBuddy
    <3>. QED  BY <3>1, <2>1, <2>3, <1>11
  <2>4. CASE o \in lo .. hi - 1 /\ y = Buddy(a, o)
    <3>1. Buddy(y, o) = x /\ Buddy(y, o) = Aligned(a, o)
      BY <2>1, <2>4, <1>2, <1>3, BuddyOfBuddy
    <3>. QED  BY <3>1, <2>1, <2>4, <1>11
  <2>. QED  BY <2>2, <2>3, <2>4, <1>5, <1>12
<1>13. ASSUME NEW j \in Orders, NEW k \in Orders, NEW x \in H[j], NEW y \in H[k],
              NEW q \in Nat, q \in Cell(x, j), q \in Cell(y, k)
       PROVE  j = k /\ x = y
  <2>1. CASE x \in G[j] /\ y \in G[k]
    BY <2>1, <1>1, <1>13
  <2>2. ASSUME NEW i \in Orders, NEW l \in lo .. hi - 1, NEW z \in G[i],
               q \in Cell(z, i), q \in Cell(Buddy(a, l), l)
        PROVE  i = hi /\ z = a
    BY <2>2, <1>1, <1>4
  <2>3. CASE x \in G[j] /\ ~(j = hi /\ x = a) /\ k \in lo .. hi - 1 /\ y = Buddy(a, k)
    BY <2>2, <2>3, <1>13
  <2>4. CASE y \in G[k] /\ ~(k = hi /\ y = a) /\ j \in lo .. hi - 1 /\ x = Buddy(a, j)
    BY <2>2, <2>4, <1>13
  <2>5. CASE j \in lo .. hi - 1 /\ x = Buddy(a, j) /\ k \in lo .. hi - 1 /\ y = Buddy(a, k)
    <3>1. j = k
      BY <2>5, <1>2, <1>13, PartsApart
    <3>. QED  BY <3>1, <2>5
  <2>. QED  BY <2>1, <2>3, <2>4, <2>5, <1>5
<1>. QED  BY <1>7, <1>8, <1>9, <1>12, <1>13 DEF Blocks

----
(***************************************************************************)
(* Lists without repetition.                                               *)
(***************************************************************************)
Distinct(s) == \A i, j \in DOMAIN s : s[i] = s[j] => i = j

\* A push at the front.
LEMMA PushIs ==
    ASSUME NEW S, NEW s \in Seq(S), NEW x \in S
    PROVE  /\ <<x>> \o s \in Seq(S) /\ Len(<<x>> \o s) = Len(s) + 1
           /\ Range(<<x>> \o s) = Range(s) \cup {x} /\ Head(<<x>> \o s) = x
           /\ Distinct(s) /\ x \notin Range(s) => Distinct(<<x>> \o s)
<1>. DEFINE t == <<x>> \o s
<1>1. t \in Seq(S) /\ Len(t) = Len(s) + 1 /\ Len(s) \in Nat
  OBVIOUS
<1>2. t[1] = x /\ \A i \in 1 .. Len(s) : t[i + 1] = s[i]
  OBVIOUS
<1>3. DOMAIN t = 1 .. Len(s) + 1 /\ DOMAIN s = 1 .. Len(s)
  OBVIOUS
<1>. HIDE DEF t
<1>4. \A i \in DOMAIN t : i = 1 \/ (i - 1 \in DOMAIN s /\ t[i] = s[i - 1])
  <2>. SUFFICES ASSUME NEW i \in DOMAIN t, i # 1 PROVE i - 1 \in DOMAIN s /\ t[i] = s[i - 1]
    OBVIOUS
  <2>1. i - 1 \in 1 .. Len(s) /\ (i - 1) + 1 = i
    BY <1>1, <1>3
  <2>. QED  BY <2>1, <1>2, <1>3
<1>5. Range(t) = Range(s) \cup {x}
  <2>1. \A i \in DOMAIN t : t[i] \in Range(s) \cup {x}
    BY <1>2, <1>4 DEF Range
  <2>2. \A i \in DOMAIN s : i + 1 \in DOMAIN t /\ t[i + 1] = s[i]
    BY <1>1, <1>2, <1>3
  <2>3. 1 \in DOMAIN t
    BY <1>1, <1>3
  <2>. QED  BY <2>1, <2>2, <2>3, <1>2 DEF Range
<1>6. ASSUME Distinct(s), x \notin Range(s) PROVE Distinct(t)
  <2>. SUFFICES ASSUME NEW i \in DOMAIN t, NEW j \in DOMAIN t, t[i] = t[j] PROVE i = j
    BY DEF Distinct
  <2>1. i \in Nat /\ j \in Nat
    BY <1>1, <1>3
  <2>2. CASE i = 1 \/ j = 1
    BY <2>2, <1>2, <1>4, <1>6 DEF Range
  <2>3. CASE i # 1 /\ j # 1
    <3>1. i - 1 = j - 1
      BY <2>3, <1>4, <1>6 DEF Distinct
    <3>. QED  BY <3>1, <2>1
  <2>. QED  BY <2>2, <2>3
<1>7. Head(t) = x
  BY <1>2 DEF t
<1>. QED  BY <1>1, <1>5, <1>6, <1>7 DEF t

\* What is left after the front of a list.
LEMMA TailIs ==
    ASSUME NEW S, NEW s \in Seq(S), s # <<>>
    PROVE  /\ Tail(s) \in Seq(S) /\ Head(s) \in Range(s) /\ Head(s) \in S
           /\ Distinct(s) => /\ Distinct(Tail(s))
                             /\ Range(Tail(s)) = Range(s) \ {Head(s)}
<1>. DEFINE t == Tail(s)
<1>1. t \in Seq(S) /\ Len(t) = Len(s) - 1 /\ Len(s) \in Nat /\ Len(s) # 0 /\ Head(s) = s[1]
  OBVIOUS
<1>2. DOMAIN t = 1 .. Len(s) - 1 /\ DOMAIN s = 1 .. Len(s)
  OBVIOUS
<1>3. \A i \in DOMAIN t : i \in Nat /\ i + 1 \in DOMAIN s /\ t[i] = s[i + 1]
  OBVIOUS
<1>. HIDE DEF t
<1>4. 1 \in DOMAIN s /\ Head(s) \in Range(s) /\ Head(s) \in S
  BY <1>1, <1>2 DEF Range
<1>5. ASSUME Distinct(s) PROVE Distinct(t)
  <2>. SUFFICES ASSUME NEW i \in DOMAIN t, NEW j \in DOMAIN t, t[i] = t[j] PROVE i = j
    BY DEF Distinct
  <2>1. i + 1 \in DOMAIN s /\ j + 1 \in DOMAIN s /\ s[i + 1] = s[j + 1]
    BY <1>3
  <2>2. \A x, y \in DOMAIN s : s[x] = s[y] => x = y
    BY <1>5 DEF Distinct
  <2>3. i + 1 = j + 1
    BY <2>1, <2>2
  <2>. QED  BY <2>3, <1>3
<1>6. ASSUME Distinct(s) PROVE Range(t) = Range(s) \ {Head(s)}
  <2>1. ASSUME NEW i \in DOMAIN t PROVE t[i] \in Range(s) \ {Head(s)}
    <3>1. i + 1 # 1 /\ i + 1 \in DOMAIN s /\ t[i] = s[i + 1]
      BY <1>3
    <3>. QED  BY <3>1, <1>1, <1>4, <1>6 DEF Distinct, Range
  <2>2. ASSUME NEW j \in DOMAIN s, s[j] # Head(s) PROVE s[j] \in Range(t)
    <3>. DEFINE i == j - 1
    <3>1. i \in DOMAIN t /\ i + 1 = j
      BY <2>2, <1>1, <1>2
    <3>. HIDE DEF i
    <3>. QED  BY <3>1, <1>3 DEF Range
  <2>. QED  BY <2>1, <2>2 DEF Range
<1>. QED  BY <1>1, <1>4, <1>5, <1>6 DEF t

\* free_remove takes out the node, and nothing else.
LEMMA UnlinkedIs ==
    ASSUME NEW S, NEW s \in Seq(S), Distinct(s), NEW x \in Range(s)
    PROVE  /\ Unlinked(s, x) \in Seq(S) /\ Distinct(Unlinked(s, x))
           /\ Range(Unlinked(s, x)) = Range(s) \ {x}
<1>. DEFINE k == CHOOSE j \in DOMAIN s : s[j] = x
            u == SubSeq(s, 1, k - 1)
            v == SubSeq(s, k + 1, Len(s))
            t == u \o v
            n == Len(s)
            Old(i) == IF i < k THEN i ELSE i + 1
<1>1. k \in DOMAIN s /\ s[k] = x
  BY DEF Range
<1>2. DOMAIN s = 1 .. n /\ n \in Nat /\ k \in 1 .. n
  BY <1>1
<1>. HIDE DEF k
<1>3. u \in Seq(S) /\ Len(u) = k - 1 /\ \A i \in 1 .. k - 1 : u[i] = s[i]
  BY <1>1, <1>2, SubSeqProperties
<1>4. v \in Seq(S) /\ Len(v) = n - k /\ \A i \in 1 .. n - k : v[i] = s[k + i]
  BY <1>1, <1>2, SubSeqProperties
<1>. HIDE DEF u, v, n
<1>5. /\ t \in Seq(S) /\ Len(t) = n - 1 /\ DOMAIN t = 1 .. n - 1
      /\ \A i \in 1 .. n - 1 : t[i] = IF i <= k - 1 THEN u[i] ELSE v[i - (k - 1)]
  <2>0. t \in Seq(S) /\ Len(t) = Len(u) + Len(v)
    BY <1>3, <1>4, ConcatProperties
  <2>1. t \in Seq(S) /\ Len(t) = n - 1
    BY <2>0, <1>2, <1>3, <1>4
  <2>2. DOMAIN t = 1 .. n - 1
    BY <2>1
  <2>3. \A i \in 1 .. n - 1 : t[i] = IF i <= k - 1 THEN u[i] ELSE v[i - (k - 1)]
    BY <1>2, <1>3, <1>4
  <2>. QED  BY <2>1, <2>2, <2>3
<1>. HIDE DEF t
<1>6. \A i \in DOMAIN t : Old(i) \in DOMAIN s \ {k} /\ t[i] = s[Old(i)]
  <2>. SUFFICES ASSUME NEW i \in 1 .. n - 1 PROVE Old(i) \in DOMAIN s \ {k} /\ t[i] = s[Old(i)]
    BY <1>5
  <2>1. CASE i < k
    <3>1. i \in 1 .. k - 1 /\ i <= k - 1 /\ i \in 1 .. n /\ i # k
      BY <2>1, <1>2
    <3>. QED  BY <3>1, <2>1, <1>2, <1>3, <1>5
  <2>2. CASE ~(i < k)
    <3>1. i - (k - 1) \in 1 .. n - k /\ ~(i <= k - 1) /\ k + (i - (k - 1)) = i + 1
          /\ i + 1 \in 1 .. n /\ i + 1 # k
      BY <2>2, <1>2
    <3>. QED  BY <3>1, <2>2, <1>2, <1>4, <1>5
  <2>. QED  BY <2>1, <2>2
<1>7. \A j \in DOMAIN s \ {k} : \E i \in DOMAIN t : Old(i) = j
  <2>. SUFFICES ASSUME NEW j \in DOMAIN s \ {k} PROVE \E i \in DOMAIN t : Old(i) = j
    OBVIOUS
  <2>1. CASE j < k
    <3>1. j \in DOMAIN t /\ Old(j) = j
      BY <2>1, <1>1, <1>2, <1>5
    <3>. QED  BY <3>1
  <2>2. CASE ~(j < k)
    <3>. DEFINE i == j - 1
    <3>1. j \in 1 .. n /\ j > k
      BY <2>2, <1>1, <1>2
    <3>2. i \in 1 .. n - 1 /\ ~(i < k) /\ i + 1 = j
      BY <3>1, <1>1, <1>2
    <3>3. i \in DOMAIN t
      BY <3>2, <1>5
    <3>. HIDE DEF i
    <3>4. Old(i) = j
      BY <3>2
    <3>. QED  BY <3>3, <3>4
  <2>. QED  BY <2>1, <2>2
<1>8. \A i, j \in DOMAIN t : Old(i) = Old(j) => i = j
  BY <1>1, <1>2, <1>5
<1>. HIDE DEF Old
<1>9. Distinct(t)
  BY <1>6, <1>8 DEF Distinct
<1>10. Range(t) = Range(s) \ {x}
  <2>1. \A i \in DOMAIN t : t[i] \in Range(s) \ {x}
    BY <1>1, <1>6 DEF Distinct, Range
  <2>2. ASSUME NEW j \in DOMAIN s, s[j] # x PROVE s[j] \in Range(t)
    BY <2>2, <1>1, <1>6, <1>7 DEF Range
  <2>. QED  BY <2>1, <2>2 DEF Range
<1>. QED  BY <1>5, <1>9, <1>10 DEF Unlinked, t, u, v, k

----
(***************************************************************************)
(* The buddy allocator.                                                    *)
(***************************************************************************)
HeapRecs == [free_lists : [Orders -> Seq(Nat)], bitmap : SUBSET Pages, free_bytes : Int,
             slots : Seq(Nat), tail : {"null", "wild"}, free_count : Int]

\* The blocks listed under each order.
FreeOf(h) == [o \in Orders |-> Range(h.free_lists[o])]

BuddyOk(h) ==
    /\ h \in HeapRecs
    /\ \A o \in Orders : Distinct(h.free_lists[o])
    /\ Blocks(FreeOf(h), h.bitmap)
    /\ h.free_bytes = Cardinality(h.bitmap)

SameSlots(h, g) == h.slots = g.slots /\ h.tail = g.tail /\ h.free_count = g.free_count

LEMMA PagesFinite == IsFiniteSet(Pages) /\ Pages \subseteq Nat
  BY HeapAssumption, FS_Interval DEF Pages

\* A block of an order has 2^order pages.
LEMMA BlockSize ==
    ASSUME NEW p \in Nat, NEW o \in Orders
    PROVE  /\ IsFiniteSet(PagesFrom(p, o)) /\ Cardinality(PagesFrom(p, o)) = 2^o
           /\ PagesFrom(p, o) \subseteq Nat /\ 2^o \in Nat \ {0}
<1>1. 2^o \in Nat \ {0}
  BY Powers
<1>. DEFINE n == p + 2^o - 1
<1>2. n \in Int /\ p \in Int /\ ~(p > n) /\ n - p + 1 = 2^o
  BY <1>1
<1>3. p .. n \subseteq Nat
  OBVIOUS
<1>4. PagesFrom(p, o) = p .. n
  BY DEF PagesFrom
<1>. HIDE DEF n
<1>5. IsFiniteSet(p .. n) /\ Cardinality(p .. n) = n - p + 1
  BY <1>2, FS_Interval
<1>. QED  BY <1>1, <1>2, <1>3, <1>4, <1>5

\* Pages that leave and pages that come are counted.
LEMMA PagesCounted ==
    ASSUME NEW B, B \subseteq Pages, NEW C, C \subseteq Pages
    PROVE  /\ Cardinality(B) \in Nat /\ Cardinality(C) \in Nat
           /\ C \subseteq B => Cardinality(B \ C) = Cardinality(B) - Cardinality(C)
           /\ C \cap B = {} => Cardinality(B \cup C) = Cardinality(B) + Cardinality(C)
<1>1. IsFiniteSet(B) /\ IsFiniteSet(C) /\ IsFiniteSet(B \ C)
  BY PagesFinite, FS_Subset
<1>2. /\ Cardinality(B) \in Nat /\ Cardinality(C) \in Nat /\ Cardinality(B \ C) \in Nat
      /\ Cardinality({}) = 0
  BY <1>1, FS_CardinalityType, FS_EmptySet
<1>3. ASSUME C \cap B = {} PROVE Cardinality(B \cup C) = Cardinality(B) + Cardinality(C)
  <2>1. B \cap C = {}
    BY <1>3
  <2>2. Cardinality(B \cup C) = Cardinality(B) + Cardinality(C) - Cardinality(B \cap C)
    BY <1>1, FS_Union, Zenon
  <2>3. Cardinality(B \cup C) = Cardinality(B) + Cardinality(C) - Cardinality({})
    BY <2>1, <2>2, Zenon
  <2>. QED  BY <2>3, <1>2
<1>4. ASSUME C \subseteq B PROVE Cardinality(B \ C) = Cardinality(B) - Cardinality(C)
  <2>1. (B \ C) \cap C = {} /\ (B \ C) \cup C = B
    BY <1>4
  <2>. DEFINE D == B \ C
  <2>. HIDE DEF D
  <2>2. IsFiniteSet(D) /\ IsFiniteSet(C) /\ D \cap C = {} /\ D \cup C = B
        /\ Cardinality(D) \in Nat
    BY <1>1, <1>2, <2>1 DEF D
  <2>3. Cardinality(D \cup C) = Cardinality(D) + Cardinality(C) - Cardinality(D \cap C)
    BY <2>2, FS_Union, Zenon
  <2>4. Cardinality(B) = Cardinality(D) + Cardinality(C) - Cardinality({})
    BY <2>2, <2>3, Zenon
  <2>. QED  BY <1>2, <2>2, <2>4 DEF D
<1>. QED  BY <1>2, <1>3, <1>4

\* A heap with other lists, another bitmap and another count.
With(h, L, B, n) == [h EXCEPT !.free_lists = L, !.bitmap = B, !.free_bytes = n]

LEMMA WithIs ==
    ASSUME NEW h \in HeapRecs, NEW L \in [Orders -> Seq(Nat)], NEW B \in SUBSET Pages,
           NEW n \in Int
    PROVE  /\ With(h, L, B, n) \in HeapRecs
           /\ With(h, L, B, n).free_lists = L /\ With(h, L, B, n).bitmap = B
           /\ With(h, L, B, n).free_bytes = n /\ SameSlots(With(h, L, B, n), h)
  BY DEF HeapRecs, SameSlots, With

\* What alloc_order takes and leaves.
LEMMA AllocOrderIs ==
    ASSUME NEW h, BuddyOk(h), NEW order \in Orders, IsRoom(h, order)
    PROVE  /\ BuddyOk(AllocOrder(h, order)) /\ SameSlots(AllocOrder(h, order), h)
           /\ Address(h, order) \in Nat
           /\ Aligned(Address(h, order), order) = Address(h, order)
           /\ PagesFrom(Address(h, order), order) \subseteq h.bitmap
           /\ AllocOrder(h, order).bitmap = h.bitmap \ PagesFrom(Address(h, order), order)
<1>. DEFINE found == Found(h, order)
            a == Address(h, order)
            L == h.free_lists
            G == FreeOf(h)
            K == [o \in Orders |-> IF o = found THEN Tail(L[o])
                                  ELSE IF o \in order .. found - 1 THEN <<a + 2^o>> \o L[o]
                                  ELSE L[o]]
            g == AllocOrder(h, order)
            H == FreeOf(g)
<1>1. /\ h \in HeapRecs /\ L \in [Orders -> Seq(Nat)] /\ h.bitmap \subseteq Pages
      /\ \A o \in Orders : Distinct(L[o]) /\ L[o] \in Seq(Nat)
      /\ h.free_bytes = Cardinality(h.bitmap)
  BY DEF BuddyOk, HeapRecs
<1>2. Blocks(G, h.bitmap) /\ \A o \in Orders : G[o] = Range(L[o])
  BY DEF BuddyOk, FreeOf
<1>3. found \in Orders /\ order <= found /\ L[found] # <<>>
  <2>. DEFINE S == {o \in order .. MAX_ORDER - 1 : L[o] # <<>>}
  <2>1. S \in SUBSET Nat /\ S # {}
    BY Powers DEF IsRoom, Orders
  <2>2. Min(S) \in S
    BY <2>1, MinIsLeast
  <2>3. found = Min(S)
    BY DEF Found
  <2>. HIDE DEF found
  <2>4. found \in order .. MAX_ORDER - 1 /\ L[found] # <<>>
    BY <2>2, <2>3
  <2>. QED  BY <2>4, HeapAssumption DEF Orders
<1>. HIDE DEF found
<1>4. a = Head(L[found])
  BY DEF Address, found
<1>5. /\ a \in Nat /\ a \in G[found] /\ Tail(L[found]) \in Seq(Nat)
      /\ Distinct(Tail(L[found])) /\ Range(Tail(L[found])) = G[found] \ {a}
  <2>1. L[found] \in Seq(Nat) /\ Distinct(L[found]) /\ G[found] = Range(L[found])
    BY <1>1, <1>2, <1>3
  <2>. QED  BY <2>1, <1>3, <1>4, TailIs
<1>. HIDE DEF a
<1>6. Aligned(a, found) = a /\ Cell(a, found) \subseteq h.bitmap
  BY <1>2, <1>3, <1>5 DEF Blocks
<1>7. /\ Aligned(a, order) = a /\ PagesFrom(a, order) = Cell(a, order)
      /\ Cell(a, order) \subseteq Cell(a, found)
  <2>1. Aligned(a, order) = a
    BY <1>3, <1>5, <1>6, UpperHalf
  <2>2. a \in Cell(a, order) /\ a \in Cell(a, found)
    BY <1>3, <1>5, OwnCell
  <2>3. Cell(a, order) \subseteq Cell(a, found)
    BY <2>2, <1>3, <1>5, CellsNest
  <2>. QED  BY <2>1, <2>3, <1>5, AlignedIs
<1>8. ASSUME NEW o \in order .. found - 1
      PROVE  /\ o \in Orders /\ o # found /\ a + 2^o = Buddy(a, o) /\ a + 2^o \in Nat
             /\ a + 2^o \notin Range(L[o])
  <2>0. o \in Orders /\ o < found /\ Orders \subseteq Nat
    BY <1>3, OrdersBetween, Powers
  <2>1. o \in Orders /\ o # found /\ o < found /\ o <= found
    BY <2>0, <1>3
  <2>2. a + 2^o = Buddy(a, o) /\ a + 2^o \in Nat
    BY <2>1, <1>3, <1>5, <1>6, UpperHalf, Powers
  <2>3. a + 2^o \in Cell(a, found)
    <3>1. a + 2^o \in Cell(Buddy(a, o), o)
      BY <2>1, <2>2, OwnCell
    <3>. QED  BY <3>1, <2>2, <1>3, <1>5, CellParts
  <2>4. a + 2^o \in Cell(a + 2^o, o)
    BY <2>1, <2>2, OwnCell
  <2>5. a + 2^o \notin G[o]
    BY <2>1, <2>2, <2>3, <2>4, <1>2, <1>3, <1>5 DEF Blocks
  <2>. QED  BY <2>1, <2>2, <2>5, <1>2
<1>9. ASSUME NEW o \in Orders
      PROVE  /\ K[o] \in Seq(Nat) /\ Distinct(K[o])
             /\ Range(K[o]) = IF o = found THEN G[o] \ {a}
                             ELSE IF o \in order .. found - 1 THEN G[o] \cup {Buddy(a, o)}
                             ELSE G[o]
  <2>1. CASE o = found
    BY <2>1, <1>5
  <2>2. CASE o # found /\ o \in order .. found - 1
    <3>1. L[o] \in Seq(Nat) /\ Distinct(L[o]) /\ K[o] = <<a + 2^o>> \o L[o]
      BY <2>2, <1>1
    <3>. HIDE DEF K
    <3>2. /\ K[o] \in Seq(Nat) /\ Distinct(K[o]) /\ Range(K[o]) = Range(L[o]) \cup {a + 2^o}
      BY <3>1, <2>2, <1>8, PushIs
    <3>. QED  BY <3>2, <2>2, <1>2, <1>8
  <2>3. CASE o # found /\ o \notin order .. found - 1
    BY <2>3, <1>1, <1>2
  <2>. QED  BY <2>1, <2>2, <2>3
<1>10. g = With(h, K, h.bitmap \ PagesFrom(a, order), h.free_bytes - 2^order)
  BY DEF AllocOrder, With, a, found
<1>11. K \in [Orders -> Seq(Nat)]
  BY <1>9
<1>. HIDE DEF K, g
<1>12. /\ g \in HeapRecs /\ g.free_lists = K /\ g.bitmap = h.bitmap \ PagesFrom(a, order)
       /\ g.free_bytes = h.free_bytes - 2^order /\ SameSlots(g, h)
  <2>1. h.free_bytes \in Int /\ 2^order \in Int
    BY <1>1, Powers DEF HeapRecs
  <2>. DEFINE B == h.bitmap \ PagesFrom(a, order)
              n == h.free_bytes - 2^order
  <2>2. n \in Int /\ B \in SUBSET Pages /\ g = With(h, K, B, n)
    BY <2>1, <1>1, <1>10
  <2>. HIDE DEF B, n
  <2>3. h \in HeapRecs /\ K \in [Orders -> Seq(Nat)] /\ n \in Int /\ B \in SUBSET Pages
    BY <2>2, <1>1, <1>11
  <2>4. /\ With(h, K, B, n) \in HeapRecs
        /\ With(h, K, B, n).free_lists = K /\ With(h, K, B, n).bitmap = B
        /\ With(h, K, B, n).free_bytes = n /\ SameSlots(With(h, K, B, n), h)
    BY <2>3, WithIs, Zenon
  <2>5. /\ g \in HeapRecs /\ g.free_lists = K /\ g.bitmap = B /\ g.free_bytes = n
        /\ SameSlots(g, h)
    BY <2>2, <2>4, Zenon
  <2>. QED  BY <2>5 DEF B, n
<1>13. H = [o \in Orders |-> IF o = found THEN G[o] \ {a}
                            ELSE IF o \in order .. found - 1 THEN G[o] \cup {Buddy(a, o)}
                            ELSE G[o]]
  BY <1>9, <1>12 DEF FreeOf
<1>14. Blocks(H, h.bitmap \ Cell(a, order))
  <2>. HIDE DEF H, G
  <2>. QED  BY <1>2, <1>3, <1>5, <1>13, BlocksSplit
<1>15. g.free_bytes = Cardinality(g.bitmap)
  <2>1. PagesFrom(a, order) \subseteq h.bitmap /\ PagesFrom(a, order) \subseteq Pages
    BY <1>1, <1>6, <1>7
  <2>2. Cardinality(PagesFrom(a, order)) = 2^order
    BY <1>5, BlockSize
  <2>. DEFINE P == PagesFrom(a, order)
  <2>. HIDE DEF P
  <2>3. h.bitmap \subseteq Pages /\ P \subseteq Pages /\ P \subseteq h.bitmap
    BY <2>1, <1>1 DEF P
  <2>4. Cardinality(h.bitmap \ P) = Cardinality(h.bitmap) - Cardinality(P)
    BY <2>3, PagesCounted, Zenon
  <2>. QED  BY <2>2, <2>4, <1>1, <1>12 DEF P
<1>16. \A o \in Orders : Distinct(g.free_lists[o])
  BY <1>9, <1>12
<1>17. BuddyOk(g)
  BY <1>7, <1>12, <1>14, <1>15, <1>16 DEF BuddyOk
<1>. QED  BY <1>5, <1>6, <1>7, <1>12, <1>17 DEF a, g

\* What free_coalesce gives back; every block it unlinks is on its list.
LEMMA CoalescedIs ==
    ASSUME NEW h, BuddyOk(h), NEW order \in Orders, NEW page \in Nat,
           Aligned(page, order) = page, PagesFrom(page, order) \subseteq Pages,
           PagesFrom(page, order) \cap h.bitmap = {}
    PROVE  /\ Listed(h, page, order)
           /\ BuddyOk(Coalesced(h, page, order)) /\ SameSlots(Coalesced(h, page, order), h)
           /\ Coalesced(h, page, order).bitmap = h.bitmap \cup PagesFrom(page, order)
<1>. DEFINE top == Top(h, page, order)
            L == h.free_lists
            G == FreeOf(h)
            K == [o \in Orders |-> IF o = top THEN <<Aligned(page, o)>> \o L[o]
                                  ELSE IF o \in order .. top - 1
                                       THEN Unlinked(L[o], Buddy(page, o))
                                  ELSE L[o]]
            B == h.bitmap \cup PagesFrom(page, order)
            n == h.free_bytes + 2^order
            g == Coalesced(h, page, order)
            H == FreeOf(g)
<1>1. /\ h \in HeapRecs /\ L \in [Orders -> Seq(Nat)] /\ h.bitmap \subseteq Pages
      /\ \A o \in Orders : Distinct(L[o]) /\ L[o] \in Seq(Nat)
      /\ h.free_bytes = Cardinality(h.bitmap)
  BY DEF BuddyOk, HeapRecs
<1>2. Blocks(G, h.bitmap) /\ \A o \in Orders : G[o] = Range(L[o])
  BY DEF BuddyOk, FreeOf
<1>3. PagesFrom(page, order) = Cell(page, order)
  BY AlignedIs
<1>4. \A o \in Orders : /\ PagesFrom(Buddy(page, o), o) = Cell(Buddy(page, o), o)
                        /\ Buddy(page, o) \in Cell(Buddy(page, o), o)
                        /\ Buddy(page, o) \in Nat
  BY BuddyIs, AlignedIs, OwnCell
<1>5. \A o \in Orders : Merges(h, page, o) <=>
          o < MAX_ORDER - 1 /\ Cell(Buddy(page, o), o) \subseteq h.bitmap
  BY <1>1, <1>4 DEF Merges
<1>6. /\ top \in Orders /\ order <= top /\ ~Merges(h, page, top)
      /\ \A o \in order .. top - 1 : Merges(h, page, o)
  <2>. DEFINE S == {o \in order .. MAX_ORDER - 1 : ~Merges(h, page, o)}
  <2>1. order .. MAX_ORDER - 1 \subseteq Orders /\ MAX_ORDER - 1 \in order .. MAX_ORDER - 1
    BY HeapAssumption DEF Orders
  <2>2. ~(MAX_ORDER - 1 < MAX_ORDER - 1)
    BY HeapAssumption
  <2>3. S \in SUBSET Nat /\ S # {}
    BY <2>1, <2>2, <1>5, Powers
  <2>4. Min(S) \in S /\ \A y \in S : Min(S) <= y
    BY <2>3, MinIsLeast
  <2>5. top = Min(S)
    BY DEF Top
  <2>. HIDE DEF top
  <2>6. top \in S /\ \A y \in S : top <= y
    BY <2>4, <2>5
  <2>. HIDE DEF S
  <2>7. top \in Orders /\ order <= top /\ ~Merges(h, page, top) /\ top \in Nat /\ order \in Nat
        /\ top <= MAX_ORDER - 1
    BY <2>1, <2>6, Powers DEF S, Orders
  <2>8. ASSUME NEW o \in order .. top - 1 PROVE Merges(h, page, o)
    <3>1. o \in order .. MAX_ORDER - 1 /\ ~(top <= o)
      BY <2>7, HeapAssumption
    <3>. QED  BY <3>1, <2>6 DEF S
  <2>. QED  BY <2>7, <2>8
<1>. HIDE DEF top
<1>7. \A o \in order .. top - 1 : /\ o \in Orders /\ o # top /\ order <= o
                                   /\ o < MAX_ORDER - 1
                                   /\ Cell(Buddy(page, o), o) \subseteq h.bitmap
  BY <1>5, <1>6, OrdersBetween
<1>8. top < MAX_ORDER - 1 => ~(Cell(Buddy(page, top), top) \subseteq h.bitmap)
  BY <1>5, <1>6
<1>9. Cell(page, order) \cap h.bitmap = {}
  BY <1>3
<1>10. \A o \in order .. top - 1 : Buddy(page, o) \in G[o]
  <2>. HIDE DEF G
  <2>. QED  BY <1>2, <1>7, <1>9, ListedBuddy
<1>11. Listed(h, page, order)
  BY <1>2, <1>7, <1>10 DEF Listed, top
<1>12. Aligned(page, top) \in Nat /\ Aligned(page, top) \notin G[top]
  <2>. DEFINE a == Aligned(page, top)
  <2>1. a \in Nat /\ Cell(a, top) = Cell(page, top)
    BY <1>6, AlignedIs, OwnCell
  <2>2. page \in Cell(page, order) /\ page \in Cell(page, top)
    BY <1>6, OwnCell
  <2>. HIDE DEF a, G
  <2>3. a \in G[top] => Cell(a, top) \subseteq h.bitmap
    BY <1>2, <1>6 DEF Blocks
  <2>4. a \notin G[top]
    BY <2>1, <2>2, <2>3, <1>9
  <2>. QED  BY <2>1, <2>4 DEF a
<1>13. ASSUME NEW o \in Orders
       PROVE  /\ K[o] \in Seq(Nat) /\ Distinct(K[o])
              /\ Range(K[o]) = IF o = top THEN G[o] \cup {Aligned(page, o)}
                              ELSE IF o \in order .. top - 1 THEN G[o] \ {Buddy(page, o)}
                              ELSE G[o]
  <2>0. L[o] \in Seq(Nat) /\ Distinct(L[o]) /\ G[o] = Range(L[o])
    BY <1>1, <1>2
  <2>1. CASE o = top
    <3>1. K[o] = <<Aligned(page, o)>> \o L[o]
      BY <2>1
    <3>. HIDE DEF K, G
    <3>2. /\ K[o] \in Seq(Nat) /\ Distinct(K[o])
          /\ Range(K[o]) = Range(L[o]) \cup {Aligned(page, o)}
      BY <3>1, <2>0, <2>1, <1>12, PushIs
    <3>. QED  BY <3>2, <2>0, <2>1
  <2>2. CASE o # top /\ o \in order .. top - 1
    <3>1. K[o] = Unlinked(L[o], Buddy(page, o)) /\ Buddy(page, o) \in Range(L[o])
      BY <2>0, <2>2, <1>10
    <3>. HIDE DEF K, G
    <3>2. /\ K[o] \in Seq(Nat) /\ Distinct(K[o])
          /\ Range(K[o]) = Range(L[o]) \ {Buddy(page, o)}
      BY <3>1, <2>0, UnlinkedIs
    <3>. QED  BY <3>2, <2>0, <2>2
  <2>3. CASE o # top /\ o \notin order .. top - 1
    BY <2>3, <2>0
  <2>. QED  BY <2>1, <2>2, <2>3
<1>14. g = With(h, K, B, n)
  BY DEF Coalesced, With, top
<1>15. K \in [Orders -> Seq(Nat)]
  BY <1>13
<1>16. h.free_bytes \in Int /\ 2^order \in Int
  BY <1>1, Powers DEF HeapRecs
<1>17. n \in Int /\ B \in SUBSET Pages
  BY <1>1, <1>16
<1>. HIDE DEF K, g, n, B
<1>18. /\ With(h, K, B, n) \in HeapRecs
       /\ With(h, K, B, n).free_lists = K /\ With(h, K, B, n).bitmap = B
       /\ With(h, K, B, n).free_bytes = n /\ SameSlots(With(h, K, B, n), h)
  BY <1>1, <1>15, <1>17, WithIs, Zenon
<1>19. /\ g \in HeapRecs /\ g.free_lists = K /\ g.bitmap = B /\ g.free_bytes = n
       /\ SameSlots(g, h)
  BY <1>14, <1>18, Zenon
<1>20. H = [o \in Orders |-> IF o = top THEN G[o] \cup {Aligned(page, o)}
                            ELSE IF o \in order .. top - 1 THEN G[o] \ {Buddy(page, o)}
                            ELSE G[o]]
  BY <1>13, <1>19 DEF FreeOf
<1>21. Blocks(H, h.bitmap \cup Cell(page, order))
  <2>. HIDE DEF H, G
  <2>. QED  BY <1>2, <1>6, <1>7, <1>8, <1>9, <1>20, BlocksJoin
<1>22. g.free_bytes = Cardinality(g.bitmap)
  <2>1. Cardinality(PagesFrom(page, order)) = 2^order
    BY BlockSize
  <2>. QED  BY <2>1, <1>1, <1>19, PagesCounted DEF B, n
<1>23. \A o \in Orders : Distinct(g.free_lists[o])
  BY <1>13, <1>19
<1>24. BuddyOk(g)
  BY <1>3, <1>19, <1>21, <1>22, <1>23 DEF BuddyOk, B
<1>. QED  BY <1>11, <1>19, <1>24 DEF B, g

----
(***************************************************************************)
(* The fresh heap.                                                         *)
(***************************************************************************)
Big == 2^(MAX_ORDER - 1)
Whole == NPages \div Big
Rest == NPages % Big

\* The pages behind the blocks of order o and more.
Behind(o) == Rest % 2^o

LEMMA BigIs ==
    /\ Big \in Nat \ {0} /\ Whole \in Nat /\ Rest \in Nat /\ Rest < Big /\ NPages \in Nat
    /\ NPages = Big * Whole + Rest
<1>1. Big \in Nat \ {0} /\ NPages \in Nat
  BY Powers, HeapAssumption DEF Big
<1>. QED  BY <1>1, Division DEF Whole, Rest

\* A multiple of a power of two is where a cell starts.
LEMMA AlignedMultiple ==
    ASSUME NEW o \in Orders, NEW k \in Nat
    PROVE  2^o * k \in Nat /\ Aligned(2^o * k, o) = 2^o * k /\ (2^o * k) \div 2^o = k
<1>. DEFINE d == 2^o
            p == d * k
<1>1. d \in Nat \ {0}
  BY Powers
<1>. HIDE DEF d
<1>2. p \in Nat /\ d * k <= p /\ p < d * k + d
  BY <1>1, SMT
<1>3. p \div d = k
  BY <1>1, <1>2, QuotientIs
<1>4. Aligned(p, o) = d * (p \div d)
  BY <1>2, AlignedIs DEF d
<1>. QED  BY <1>2, <1>3, <1>4 DEF d

\* A larger power of two is a multiple of a smaller one.
LEMMA PowersDivide ==
    ASSUME NEW j \in Orders, NEW k \in Orders, j <= k
    PROVE  \E c \in Nat : 2^k = 2^j * c
<1>. DEFINE S == {n \in Orders : j <= n /\ ~\E c \in Nat : 2^n = 2^j * c}
            m == Min(S)
<1>1. SUFFICES ASSUME S # {} PROVE FALSE
  OBVIOUS
<1>2. S \in SUBSET Nat
  BY Powers
<1>3. m \in S /\ \A n \in S : m <= n
  BY <1>1, <1>2, MinIsLeast
<1>. HIDE DEF m
<1>4. m \in Orders /\ m \in Nat /\ j \in Nat /\ j <= m
  BY <1>2, <1>3, Powers
<1>5. m # j
  <2>1. 2^j = 2^j * 1 /\ 1 \in Nat
    BY Powers
  <2>. QED  BY <2>1, <1>3
<1>. DEFINE n == m - 1
<1>6. n \in Orders /\ j <= n /\ ~(m <= n) /\ n + 1 = m
  BY <1>4, <1>5, Powers DEF Orders
<1>. HIDE DEF n
<1>7. PICK c \in Nat : 2^n = 2^j * c
  BY <1>3, <1>6
<1>8. 2^m = 2 * 2^n
  BY <1>6, Powers
<1>9. 2^m = 2^j * (2 * c) /\ 2 * c \in Nat
  <2>. DEFINE x == 2^j
              y == 2^n
              z == 2^m
  <2>1. x \in Nat /\ y = x * c /\ z = 2 * y
    BY <1>7, <1>8, Powers
  <2>. HIDE DEF x, y, z
  <2>2. z = x * (2 * c) /\ 2 * c \in Nat
    BY <2>1
  <2>. QED  BY <2>2 DEF x, z
<1>. QED  BY <1>3, <1>9

\* One order up, a block more is behind if the order's bit is set.
LEMMA BehindUp ==
    ASSUME NEW o \in Orders
    PROVE  /\ Behind(o) \in Nat /\ Behind(o + 1) \in Nat
           /\ (Rest \div 2^o) % 2 = 1 => Behind(o + 1) = Behind(o) + 2^o
           /\ (Rest \div 2^o) % 2 # 1 => Behind(o + 1) = Behind(o)
<1>. DEFINE d == 2^o
            e == 2^(o + 1)
            q == Rest \div d
            h == q \div 2
            r == Rest % d
            s == Rest % e
<1>1. d \in Nat \ {0} /\ e \in Nat \ {0} /\ e = 2 * d /\ Rest \in Nat
  BY Powers, BigIs
<1>2. Rest \div e = h
  <2>. HIDE DEF d, e
  <2>. QED  BY <1>1, DivideTwice
<1>3. q \in Nat /\ r \in Nat /\ Rest = d * q + r /\ s \in Nat /\ Rest = e * h + s
  <2>. HIDE DEF d, e, h
  <2>. QED  BY <1>1, <1>2, Division
<1>. HIDE DEF q, r, s, d, e
<1>4. h \in Nat /\ q = 2 * h + (q % 2) /\ q % 2 \in {0, 1}
  BY <1>3, SMT
<1>. HIDE DEF h
<1>5. CASE q % 2 = 1
  <2>1. q = 2 * h + 1
    BY <1>4, <1>5
  <2>2. d * q = 2 * d * h + d /\ e * h = 2 * d * h
    BY <2>1, <1>1, <1>3, <1>4, SMT
  <2>3. s = r + d
    <3>. DEFINE x == d * q
                y == e * h
                z == 2 * d * h
    <3>1. x = z + d /\ y = z /\ Rest = x + r /\ Rest = y + s /\ z \in Int
      BY <2>2, <1>1, <1>3, <1>4
    <3>. HIDE DEF x, y, z
    <3>. QED  BY <3>1, <1>1, <1>3
  <2>. QED  BY <2>3, <1>3, <1>5 DEF Behind, r, s, d, e, q
<1>6. CASE q % 2 # 1
  <2>1. q = 2 * h
    BY <1>4, <1>6
  <2>2. d * q = 2 * d * h /\ e * h = 2 * d * h
    BY <2>1, <1>1, <1>3, <1>4, SMT
  <2>3. s = r
    <3>. DEFINE x == d * q
                y == e * h
                z == 2 * d * h
    <3>1. x = z /\ y = z /\ Rest = x + r /\ Rest = y + s /\ z \in Int
      BY <2>2, <1>1, <1>3, <1>4
    <3>. HIDE DEF x, y, z
    <3>. QED  BY <3>1, <1>1, <1>3
  <2>. QED  BY <2>3, <1>3, <1>6 DEF Behind, r, s, d, e, q
<1>. QED  BY <1>5, <1>6

\* Nothing is behind a page, the rest behind the largest blocks, and more
\* behind the larger ones.
LEMMA BehindGrows ==
    /\ Behind(0) = 0 /\ Behind(MAX_ORDER - 1) = Rest
    /\ \A j, k \in Orders : j <= k => Behind(j) <= Behind(k)
<1>1. Rest % 1 = 0
  BY BigIs, SMT
<1>2. Rest % Big = Rest
  <2>1. Rest = Big * (Rest \div Big) + (Rest % Big) /\ Rest \div Big = 0
        /\ Rest % Big \in Nat
    <3>1. Big * 0 <= Rest /\ Rest < Big * 0 + Big
      BY BigIs
    <3>. QED  BY <3>1, BigIs, Division, QuotientIs
  <2>. QED  BY <2>1, BigIs
<1>3. ASSUME NEW j \in Orders, NEW k \in Orders, j <= k PROVE Behind(j) <= Behind(k)
  <2>. DEFINE S == {n \in Orders : j <= n /\ ~(Behind(j) <= Behind(n))}
              m == Min(S)
  <2>1. SUFFICES ASSUME S # {} PROVE FALSE
    BY <1>3
  <2>2. S \in SUBSET Nat
    BY Powers
  <2>3. m \in S /\ \A n \in S : m <= n
    BY <2>1, <2>2, MinIsLeast
  <2>. HIDE DEF m
  <2>4. m \in Orders /\ m \in Nat /\ j \in Nat /\ j <= m /\ Behind(j) \in Nat
    BY <2>2, <2>3, Powers, BehindUp
  <2>5. m # j
    BY <2>3, <2>4
  <2>. DEFINE n == m - 1
  <2>6. n \in Orders /\ j <= n /\ ~(m <= n) /\ n + 1 = m
    BY <2>4, <2>5, Powers DEF Orders
  <2>. HIDE DEF n
  <2>7. Behind(j) <= Behind(n)
    BY <2>3, <2>6
  <2>8. Behind(n) \in Nat /\ Behind(m) \in Nat /\ 2^n \in Nat
        /\ (Behind(m) = Behind(n) + 2^n \/ Behind(m) = Behind(n))
    BY <2>6, BehindUp, Powers
  <2>9. Behind(j) <= Behind(m)
    BY <2>4, <2>7, <2>8
  <2>. QED  BY <2>3, <2>9
<1>. QED  BY <1>1, <1>2, <1>3, Powers DEF Behind, Big

\* A page is in a cell of its order if the multiples of the order enclose it.
LEMMA MultipleCell ==
    ASSUME NEW o \in Orders, NEW k \in Nat, NEW x, x = 2^o * k
    PROVE  x \in Nat /\ Aligned(x, o) = x /\ Cell(x, o) = x .. x + 2^o - 1
<1>1. x \in Nat /\ Aligned(x, o) = x
  BY AlignedMultiple
<1>. QED  BY <1>1, AlignedIs DEF PagesFrom

\* The lists init pushes: the largest blocks, then at most one of each order.
LEMMA FreshListsAre ==
    /\ FreshLists \in [Orders -> Seq(Nat)]
    /\ \A o \in Orders : Distinct(FreshLists[o])
    /\ Range(FreshLists[MAX_ORDER - 1]) = {Big * k : k \in 0 .. Whole - 1}
    /\ \A o \in Orders : o # MAX_ORDER - 1 =>
           Range(FreshLists[o]) = IF (Rest \div 2^o) % 2 = 1 THEN {NPages - Behind(o + 1)}
                                                            ELSE {}
<1>. DEFINE M == MAX_ORDER - 1
            F(o) == IF o = M THEN [i \in 1 .. Whole |-> Big * (Whole - i)]
                    ELSE IF (Rest \div 2^o) % 2 = 1 THEN <<NPages - (Rest % (2^(o + 1)))>>
                    ELSE <<>>
<1>1. FreshLists = [o \in Orders |-> F(o)]
  BY DEF FreshLists, Big, Whole, Rest
<1>2. Big \in Nat \ {0} /\ Whole \in Nat /\ Rest \in Nat /\ Rest < Big /\ NPages \in Nat
      /\ NPages = Big * Whole + Rest
  BY BigIs
<1>3. M \in Orders
  BY Powers
<1>. HIDE DEF M
<1>4. F(M) \in Seq(Nat) /\ Distinct(F(M)) /\ Range(F(M)) = {Big * k : k \in 0 .. Whole - 1}
  <2>. DEFINE t == [i \in 1 .. Whole |-> Big * (Whole - i)]
  <2>1. \A i \in 1 .. Whole : Whole - i \in 0 .. Whole - 1 /\ Whole - (Whole - i) = i
    BY <1>2
  <2>2. \A k \in 0 .. Whole - 1 : Whole - k \in 1 .. Whole /\ Whole - (Whole - k) = k
    BY <1>2
  <2>3. \A k \in 0 .. Whole - 1 : Big * k \in Nat
    BY <1>2, SMT
  <2>4. t \in Seq(Nat)
    <3>1. \A i \in 1 .. Whole : Big * (Whole - i) \in Nat
      BY <2>1, <2>3
    <3>2. t \in [1 .. Whole -> Nat]
      BY <3>1
    <3>. QED  BY <3>2, <1>2
  <2>5. ASSUME NEW i \in 1 .. Whole, NEW j \in 1 .. Whole, t[i] = t[j] PROVE i = j
    <3>. DEFINE a == Whole - i
                b == Whole - j
    <3>1. Big * a = Big * b /\ a \in Nat /\ b \in Nat
      BY <2>1, <2>5
    <3>. HIDE DEF a, b
    <3>2. (Big * a) \div Big = a /\ (Big * b) \div Big = b
      <4>1. Big = 2^M
        BY Powers DEF Big, M
      <4>. QED  BY <4>1, <3>1, <1>3, AlignedMultiple
    <3>3. a = b
      BY <3>1, <3>2
    <3>. QED  BY <3>3, <2>1 DEF a, b
  <2>6. Range(t) = {Big * k : k \in 0 .. Whole - 1}
    <3>1. \A i \in DOMAIN t : t[i] \in {Big * k : k \in 0 .. Whole - 1}
      BY <2>1
    <3>2. \A k \in 0 .. Whole - 1 : Big * k \in {t[i] : i \in DOMAIN t}
      BY <2>2
    <3>. QED  BY <3>1, <3>2 DEF Range
  <2>7. F(M) = t
    OBVIOUS
  <2>8. DOMAIN t = 1 .. Whole
    OBVIOUS
  <2>. HIDE DEF t
  <2>. QED  BY <2>4, <2>5, <2>6, <2>7, <2>8 DEF Distinct
<1>5. ASSUME NEW o \in Orders, o # M
      PROVE  /\ F(o) \in Seq(Nat) /\ Distinct(F(o))
             /\ Range(F(o)) = IF (Rest \div 2^o) % 2 = 1 THEN {NPages - Behind(o + 1)} ELSE {}
  <2>1. o + 1 \in Orders
    BY <1>5, Powers DEF Orders, M
  <2>2. Behind(o + 1) \in Nat /\ Behind(o + 1) <= Rest
    <3>1. Behind(o + 1) <= Behind(M) /\ Behind(M) = Rest
      <4>1. o + 1 <= M
        BY <2>1, Powers DEF Orders, M
      <4>. QED  BY <4>1, <2>1, <1>3, BehindGrows DEF M
    <3>. QED  BY <3>1, BehindUp
  <2>3. Big * Whole \in Nat
    BY <1>2, SMT
  <2>4. NPages - Behind(o + 1) \in Nat
    BY <1>2, <2>2, <2>3
  <2>. DEFINE x == NPages - Behind(o + 1)
  <2>5. CASE (Rest \div 2^o) % 2 = 1
    <3>1. F(o) = <<x>>
      BY <1>5, <2>5 DEF Behind
    <3>. HIDE DEF x, F
    <3>2. <<x>> \in Seq(Nat) /\ Distinct(<<x>>) /\ Range(<<x>>) = {x}
      BY <2>4 DEF Distinct, Range, x
    <3>. QED  BY <3>1, <3>2, <2>5 DEF x
  <2>6. CASE (Rest \div 2^o) % 2 # 1
    <3>1. F(o) = <<>>
      BY <1>5, <2>6
    <3>. HIDE DEF F
    <3>2. <<>> \in Seq(Nat) /\ Distinct(<<>>) /\ Range(<<>>) = {}
      BY DEF Distinct, Range
    <3>. QED  BY <3>1, <3>2, <2>6
  <2>. QED  BY <2>5, <2>6
<1>. HIDE DEF F
<1>6. \A o \in Orders : FreshLists[o] = F(o) /\ F(o) \in Seq(Nat) /\ Distinct(F(o))
  BY <1>1, <1>3, <1>4, <1>5
<1>7. FreshLists \in [Orders -> Seq(Nat)]
  BY <1>1, <1>6
<1>. QED  BY <1>3, <1>4, <1>5, <1>6, <1>7 DEF M

Fresh == [free_lists |-> FreshLists, bitmap |-> Pages, free_bytes |-> NPages,
          slots |-> <<>>, tail |-> "null", free_count |-> 0]

\* They are disjoint, aligned, and tile the heap.
LEMMA FreshOk == BuddyOk(Fresh)
<1>. DEFINE M == MAX_ORDER - 1
            G == FreeOf(Fresh)
            Top0 == Big * Whole
<1>1. Big \in Nat \ {0} /\ Whole \in Nat /\ Rest \in Nat /\ Rest < Big /\ NPages \in Nat
      /\ NPages = Top0 + Rest
  BY BigIs
<1>2. Top0 \in Nat
  BY <1>1, SMT
<1>3. M \in Orders /\ M \in Nat /\ Big = 2^M /\ Orders = 0 .. M
  BY Powers DEF Big, Orders
<1>4. /\ DOMAIN G = Orders /\ G[M] = {Big * k : k \in 0 .. Whole - 1}
      /\ \A o \in Orders : o # M =>
           G[o] = IF (Rest \div 2^o) % 2 = 1 THEN {NPages - Behind(o + 1)} ELSE {}
  BY <1>3, FreshListsAre DEF FreeOf, Fresh
<1>. HIDE DEF Top0, M, G
<1>5. ASSUME NEW x \in G[M]
      PROVE  /\ x \in Nat /\ Aligned(x, M) = x /\ Cell(x, M) = x .. x + Big - 1
             /\ x + Big <= Top0 /\ \E k \in Nat : x = Big * k
  <2>1. PICK k \in 0 .. Whole - 1 : x = Big * k
    BY <1>4
  <2>2. k \in Nat /\ k + 1 <= Whole
    BY <1>1, <2>1
  <2>3. Big * (k + 1) <= Big * Whole /\ Big * (k + 1) = Big * k + Big
    BY <2>2, <1>1, SMT
  <2>4. x + Big <= Top0
    BY <2>1, <2>3 DEF Top0
  <2>5. x \in Nat /\ Aligned(x, M) = x /\ Cell(x, M) = x .. x + 2^M - 1
    BY <2>1, <2>2, <1>3, MultipleCell
  <2>. QED  BY <2>1, <2>2, <2>4, <2>5, <1>3
<1>6. ASSUME NEW o \in Orders, o # M, NEW x \in G[o]
      PROVE  /\ x \in Nat /\ Aligned(x, o) = x /\ x = NPages - Behind(o + 1)
             /\ Cell(x, o) = x .. NPages - Behind(o) - 1
             /\ o \in Nat /\ o + 1 \in Orders /\ Behind(o) \in Nat /\ Behind(o + 1) \in Nat
             /\ Behind(o + 1) <= Rest /\ Behind(o) < Behind(o + 1)
  <2>1. (Rest \div 2^o) % 2 = 1 /\ x = NPages - Behind(o + 1)
    BY <1>4, <1>6
  <2>2. o \in Nat /\ o + 1 \in Orders /\ o + 1 <= M /\ o <= o + 1
    BY <1>3, <1>6
  <2>3. /\ Behind(o) \in Nat /\ Behind(o + 1) \in Nat /\ Behind(o + 1) = Behind(o) + 2^o
        /\ 2^o \in Nat \ {0}
    BY <2>1, BehindUp, Powers
  <2>4. Behind(o + 1) <= Rest
    BY <2>2, <1>3, BehindGrows DEF M
  <2>. DEFINE n == o + 1
              e == 2^n
              b == Rest \div e
  <2>5. n \in Orders /\ e \in Nat \ {0} /\ n <= M
    BY <2>2, Powers
  <2>6. PICK c \in Nat : 2^M = 2^n * c
    <3>. HIDE DEF n
    <3>. QED  BY <2>5, <1>3, PowersDivide
  <2>7. b \in Nat /\ Rest = e * b + Behind(n)
    <3>1. Behind(n) = Rest % e
      BY DEF Behind
    <3>. HIDE DEF e, n
    <3>. QED  BY <3>1, <2>5, <1>1, Division
  <2>8. Big = e * c
    BY <2>6, <1>3
  <2>9. x = NPages - Behind(n) /\ Behind(n) \in Nat
    BY <2>1, <2>3
  <2>. HIDE DEF b, e
  <2>10. x = e * (c * Whole + b) /\ c * Whole + b \in Nat
    <3>1. Top0 = e * (c * Whole) /\ c * Whole \in Nat
      BY <2>5, <2>8, <1>1, SMT DEF Top0
    <3>2. e * (c * Whole + b) = e * (c * Whole) + e * b /\ e * b \in Nat
      BY <3>1, <2>5, <2>7, SMT
    <3>. DEFINE y == e * (c * Whole)
                z == e * b
    <3>3. Top0 = y /\ Rest = z + Behind(n) /\ e * (c * Whole + b) = y + z
          /\ y \in Nat /\ z \in Nat
      BY <3>1, <3>2, <2>7, <1>2
    <3>. HIDE DEF y, z
    <3>4. x = y + z
      BY <3>3, <2>9, <1>1
    <3>. QED  BY <3>1, <3>3, <3>4, <2>7
  <2>11. x \in Nat /\ Aligned(x, n) = x
    <3>. HIDE DEF n
    <3>. QED  BY <2>5, <2>10, AlignedMultiple DEF e
  <2>12. Aligned(x, o) = x
    BY <2>2, <2>5, <2>11, UpperHalf
  <2>13. Cell(x, o) = x .. x + 2^o - 1
    BY <2>11, <2>12, AlignedIs DEF PagesFrom
  <2>14. x + 2^o - 1 = NPages - Behind(o) - 1
    BY <2>1, <2>3, <1>1
  <2>. QED  BY <2>1, <2>2, <2>3, <2>4, <2>11, <2>12, <2>13, <2>14
<1>7. ASSUME NEW o \in Orders, NEW x \in G[o]
      PROVE  x \in Nat /\ Aligned(x, o) = x /\ Cell(x, o) \subseteq Pages
  <2>1. CASE o = M
    BY <2>1, <1>1, <1>2, <1>5 DEF Pages
  <2>2. CASE o # M
    BY <2>2, <1>1, <1>2, <1>6 DEF Pages
  <2>. QED  BY <2>1, <2>2
<1>8. ASSUME NEW q \in Pages PROVE \E o \in Orders : \E x \in G[o] : q \in Cell(x, o)
  <2>0. q \in Nat /\ q < NPages
    BY <1>1 DEF Pages
  <2>1. CASE q < Top0
    <3>. DEFINE k == q \div Big
                x == Big * k
    <3>1. k \in Nat /\ q = Big * k + (q % Big) /\ q % Big \in Nat /\ q % Big < Big
      BY <1>1, <2>0, Division
    <3>. HIDE DEF k
    <3>2. ~(k >= Whole)
      <4>. SUFFICES ASSUME k >= Whole PROVE FALSE
        OBVIOUS
      <4>1. Big * Whole <= Big * k /\ Big * k \in Nat
        BY <3>1, <1>1, SMT
      <4>. QED  BY <4>1, <3>1, <2>0, <2>1, <1>2 DEF Top0
    <3>3. x \in G[M]
      BY <3>1, <3>2, <1>1, <1>4
    <3>4. x \in Nat /\ Cell(x, M) = x .. x + Big - 1
      BY <3>3, <1>5
    <3>5. q = x + (q % Big)
      BY <3>1
    <3>. HIDE DEF x
    <3>6. q \in x .. x + Big - 1
      BY <3>1, <3>4, <3>5, <2>0, <1>1
    <3>. QED  BY <3>3, <3>4, <3>6, <1>3
  <2>2. CASE ~(q < Top0)
    <3>. DEFINE d == NPages - q
                S == {o \in Orders : d <= Behind(o)}
                m == Min(S)
    <3>1. d \in Nat /\ d > 0 /\ d <= Rest
      BY <2>0, <2>2, <1>1, <1>2
    <3>2. S \in SUBSET Nat /\ S # {}
      <4>1. S \subseteq Nat
        BY Powers, Zenon
      <4>2. Behind(M) = Rest
        BY BehindGrows DEF M
      <4>. QED  BY <4>1, <4>2, <3>1, <1>3
    <3>3. m \in S /\ \A n \in S : m <= n
      BY <3>2, MinIsLeast
    <3>. HIDE DEF m
    <3>4. m \in Orders /\ m \in Nat /\ m # 0
      <4>1. Behind(0) = 0
        BY BehindGrows
      <4>. QED  BY <4>1, <3>1, <3>2, <3>3
    <3>. DEFINE o == m - 1
    <3>5. o \in Orders /\ o # M /\ o + 1 = m /\ ~(m <= o)
      BY <3>4, <1>3
    <3>. HIDE DEF o
    <3>6. ~(d <= Behind(o)) /\ d <= Behind(o + 1)
      BY <3>3, <3>5
    <3>7. Behind(o) \in Nat /\ Behind(o + 1) \in Nat
          /\ ((Rest \div 2^o) % 2 = 1 \/ Behind(o + 1) = Behind(o))
      BY <3>5, BehindUp
    <3>8. (Rest \div 2^o) % 2 = 1
      BY <3>6, <3>7
    <3>. DEFINE x == NPages - Behind(o + 1)
    <3>9. x \in G[o]
      BY <3>5, <3>8, <1>4
    <3>10. Cell(x, o) = x .. NPages - Behind(o) - 1
      BY <3>5, <3>9, <1>6
    <3>11. q \in x .. NPages - Behind(o) - 1
      BY <3>1, <3>6, <3>7, <2>0, <1>1
    <3>. QED  BY <3>5, <3>9, <3>10, <3>11
  <2>. QED  BY <2>1, <2>2
<1>9. ASSUME NEW o \in Orders, o < M, NEW x \in G[o], Buddy(x, o) \in G[o] PROVE FALSE
  <2>1. o # M /\ Buddy(x, o) = x
    <3>1. o # M
      BY <1>9, <1>3
    <3>. QED  BY <3>1, <1>4, <1>9
  <2>. QED  BY <2>1, <1>7, BuddyIs
<1>10. ASSUME NEW k \in Orders, k # M, NEW x \in G[M], NEW y \in G[k], NEW q \in Nat,
              q \in Cell(x, M), q \in Cell(y, k)
       PROVE  FALSE
  <2>1. q < Top0
    BY <1>1, <1>2, <1>5, <1>10
  <2>2. y \in Nat /\ Cell(y, k) = y .. NPages - Behind(k) - 1
        /\ y = NPages - Behind(k + 1) /\ Behind(k + 1) <= Rest /\ Behind(k + 1) \in Nat
        /\ Behind(k) \in Nat
    BY <1>6, <1>10
  <2>3. y <= q
    BY <2>2, <1>1, <1>10
  <2>. QED  BY <2>1, <2>2, <2>3, <1>1, <1>2
<1>11. ASSUME NEW j \in Orders, j # M, NEW k \in Orders, k # M, NEW x \in G[j],
              NEW y \in G[k], NEW q \in Nat, q \in Cell(x, j), q \in Cell(y, k), j + 1 <= k
       PROVE  FALSE
  <2>1. /\ x \in Nat /\ Cell(x, j) = x .. NPages - Behind(j) - 1
        /\ x = NPages - Behind(j + 1) /\ Behind(j + 1) \in Nat /\ Behind(j) \in Nat
        /\ j + 1 \in Orders
    BY <1>6, <1>11
  <2>2. /\ y \in Nat /\ Cell(y, k) = y .. NPages - Behind(k) - 1 /\ Behind(k) \in Nat
    BY <1>6, <1>11
  <2>3. Behind(j + 1) <= Behind(k)
    BY <2>1, <1>11, BehindGrows
  <2>4. x <= q /\ q <= NPages - Behind(k) - 1
    BY <2>1, <2>2, <1>1, <1>11
  <2>. QED  BY <2>1, <2>2, <2>3, <2>4, <1>1
<1>12. ASSUME NEW j \in Orders, NEW k \in Orders, NEW x \in G[j], NEW y \in G[k],
              NEW q \in Nat, q \in Cell(x, j), q \in Cell(y, k)
       PROVE  j = k /\ x = y
  <2>1. CASE j = M /\ k = M
    <3>1. x \in Nat /\ y \in Nat /\ Aligned(x, M) = x /\ Aligned(y, M) = y
      BY <2>1, <1>5
    <3>2. Aligned(x, M) = Aligned(y, M)
      BY <3>1, <2>1, <1>3, <1>12, CellsNest
    <3>. QED  BY <3>1, <3>2, <2>1
  <2>2. CASE (j = M /\ k # M) \/ (j # M /\ k = M)
    BY <2>2, <1>10, <1>12
  <2>3. CASE j # M /\ k # M
    <3>1. ~(j + 1 <= k) /\ ~(k + 1 <= j) /\ j \in Nat /\ k \in Nat
      BY <2>3, <1>3, <1>11, <1>12
    <3>2. j = k
      BY <3>1
    <3>. QED  BY <3>2, <2>3, <1>4
  <2>. QED  BY <2>1, <2>2, <2>3
<1>13. G \in [Orders -> SUBSET Nat] /\ Pages \subseteq Nat
  <2>1. \A o \in Orders : G[o] \subseteq Nat
    BY <1>7
  <2>2. G = [o \in Orders |-> G[o]]
    BY DEF G, FreeOf
  <2>. QED  BY <2>1, <2>2, PagesFinite
<1>14. Blocks(G, Pages)
  BY <1>7, <1>8, <1>9, <1>12, <1>13 DEF Blocks, M
<1>15. NPages = Cardinality(Pages)
  <2>1. NPages - 1 \in Int /\ 0 \in Int /\ (0 > NPages - 1 => NPages = 0)
        /\ (NPages - 1) - 0 + 1 = NPages
    BY <1>1
  <2>2. Cardinality(0 .. NPages - 1) = IF 0 > NPages - 1 THEN 0 ELSE (NPages - 1) - 0 + 1
    BY <2>1, FS_Interval, Zenon
  <2>. QED  BY <2>1, <2>2 DEF Pages
<1>16. Fresh \in HeapRecs
  <2>1. <<>> \in Seq(Nat) /\ NPages \in Int
    BY <1>1
  <2>. QED  BY <2>1, FreshListsAre DEF HeapRecs, Fresh
<1>. QED  BY <1>14, <1>15, <1>16, FreshListsAre DEF BuddyOk, Fresh, G

----
(***************************************************************************)
(* The bytes of a set of allocations.                                      *)
(***************************************************************************)
Allocs == [ptr : Nat, size : Nat \ {0}, align : Nat \ {0}, intact : BOOLEAN]

\* One element for each byte.
Bytes(S) == UNION {{b} \X (0 .. b.size - 1) : b \in S}

ByteSum(S) == Cardinality(Bytes(S))

\* Among subsets of a finite set, one from which nothing can be taken away.
LEMMA SmallestSet ==
    ASSUME NEW S, IsFiniteSet(S), NEW C, C \subseteq SUBSET S, C # {}
    PROVE  \E T \in C : \A x \in T : T \ {x} \notin C
<1>. DEFINE N == {Cardinality(T) : T \in C}
            m == Min(N)
<1>1. \A T \in C : IsFiniteSet(T) /\ Cardinality(T) \in Nat
  BY FS_Subset, FS_CardinalityType
<1>2. N \in SUBSET Nat /\ N # {}
  BY <1>1
<1>3. m \in N /\ \A n \in N : m <= n
  BY <1>2, MinIsLeast
<1>. HIDE DEF m
<1>4. PICK T \in C : Cardinality(T) = m
  BY <1>3
<1>5. ASSUME NEW x \in T, T \ {x} \in C PROVE FALSE
  <2>1. m <= Cardinality(T \ {x})
    BY <1>3, <1>5
  <2>2. Cardinality(T \ {x}) = Cardinality(T) - 1
    BY <1>1, <1>5, FS_RemoveElement
  <2>. QED  BY <2>1, <2>2, <1>1, <1>4
<1>. QED  BY <1>5

\* The bytes of one allocation are as many as its size.
LEMMA BytesOfOne ==
    ASSUME NEW b \in Allocs
    PROVE  /\ IsFiniteSet({b} \X (0 .. b.size - 1))
           /\ Cardinality({b} \X (0 .. b.size - 1)) = b.size
           /\ b.size \in Nat
<1>. DEFINE n == b.size - 1
<1>1. b.size \in Nat \ {0} /\ n \in Int /\ ~(0 > n) /\ n - 0 + 1 = b.size
  BY DEF Allocs
<1>. HIDE DEF n
<1>2. IsFiniteSet(0 .. n) /\ Cardinality(0 .. n) = b.size
  <2>1. 0 \in Int
    OBVIOUS
  <2>2. IsFiniteSet(0 .. n) /\ Cardinality(0 .. n) = IF 0 > n THEN 0 ELSE n - 0 + 1
    BY <1>1, <2>1, FS_Interval, Zenon
  <2>. QED  BY <1>1, <2>2
<1>3. IsFiniteSet({b}) /\ Cardinality({b}) = 1
  BY FS_Singleton
<1>4. IsFiniteSet({b} \X (0 .. n)) /\ Cardinality({b} \X (0 .. n)) = 1 * b.size
  <2>. DEFINE X == {b}
              Y == 0 .. n
  <2>1. IsFiniteSet(X) /\ IsFiniteSet(Y) /\ Cardinality(X) = 1 /\ Cardinality(Y) = b.size
    BY <1>2, <1>3
  <2>. HIDE DEF X, Y
  <2>2. IsFiniteSet(X \X Y) /\ Cardinality(X \X Y) = Cardinality(X) * Cardinality(Y)
    BY <2>1, FS_Product, Zenon
  <2>. QED  BY <2>1, <2>2 DEF X, Y
<1>5. 1 * b.size = b.size
  BY <1>1
<1>. QED  BY <1>1, <1>4, <1>5 DEF n

\* An allocation adds its own bytes to those of the others.
LEMMA BytesSplit ==
    ASSUME NEW S, NEW b \in S
    PROVE  /\ Bytes(S) = Bytes(S \ {b}) \cup ({b} \X (0 .. b.size - 1))
           /\ Bytes(S \ {b}) \cap ({b} \X (0 .. b.size - 1)) = {}
<1>1. S = (S \ {b}) \cup {b}
  OBVIOUS
<1>2. ASSUME NEW p \in Bytes(S \ {b}) PROVE p \notin {b} \X (0 .. b.size - 1)
  <2>1. PICK c \in S \ {b} : p \in {c} \X (0 .. c.size - 1)
    BY <1>2 DEF Bytes
  <2>2. p[1] = c
    BY <2>1
  <2>. QED  BY <2>1, <2>2
<1>. QED  BY <1>1, <1>2 DEF Bytes

\* Finitely many allocations have finitely many bytes.
LEMMA BytesFinite ==
    ASSUME NEW S, IsFiniteSet(S), S \subseteq Allocs
    PROVE  IsFiniteSet(Bytes(S)) /\ ByteSum(S) \in Nat
<1>. DEFINE C == {T \in SUBSET S : ~IsFiniteSet(Bytes(T))}
<1>1. ASSUME C # {} PROVE FALSE
  <2>1. PICK T \in C : \A x \in T : T \ {x} \notin C
    BY <1>1, SmallestSet
  <2>2. Bytes({}) = {}
    BY DEF Bytes
  <2>3. T # {}
    BY <2>1, <2>2, FS_EmptySet
  <2>4. PICK x \in T : TRUE
    BY <2>3
  <2>5. x \in Allocs /\ IsFiniteSet(Bytes(T \ {x}))
    BY <2>1
  <2>6. IsFiniteSet({x} \X (0 .. x.size - 1))
    BY <2>5, BytesOfOne
  <2>7. IsFiniteSet(Bytes(T \ {x}) \cup ({x} \X (0 .. x.size - 1)))
    BY <2>5, <2>6, FS_Union
  <2>8. Bytes(T) = Bytes(T \ {x}) \cup ({x} \X (0 .. x.size - 1))
    BY BytesSplit
  <2>. QED  BY <2>1, <2>7, <2>8
<1>2. IsFiniteSet(Bytes(S))
  BY <1>1
<1>. QED  BY <1>2, FS_CardinalityType DEF ByteSum

\* The total of a set, one of its allocations counted apart.
LEMMA TotalStep ==
    ASSUME NEW S, IsFiniteSet(S), S \subseteq Allocs, NEW b \in S
    PROVE  /\ ByteSum(S) = b.size + ByteSum(S \ {b})
           /\ ByteSum(S) \in Nat /\ ByteSum(S \ {b}) \in Nat /\ b.size \in Nat
<1>. DEFINE X == Bytes(S \ {b})
            Y == {b} \X (0 .. b.size - 1)
<1>1. IsFiniteSet(S \ {b}) /\ S \ {b} \subseteq Allocs /\ b \in Allocs
  BY FS_RemoveElement
<1>2. IsFiniteSet(X) /\ Cardinality(X) \in Nat
  BY <1>1, BytesFinite DEF ByteSum
<1>3. IsFiniteSet(Y) /\ Cardinality(Y) = b.size /\ b.size \in Nat
  BY <1>1, BytesOfOne
<1>4. Bytes(S) = X \cup Y /\ X \cap Y = {}
  BY BytesSplit
<1>. HIDE DEF X, Y
<1>5. Cardinality(X \cup Y) = Cardinality(X) + Cardinality(Y) - Cardinality({})
  <2>1. Cardinality(X \cup Y) = Cardinality(X) + Cardinality(Y) - Cardinality(X \cap Y)
    BY <1>2, <1>3, FS_Union, Zenon
  <2>. QED  BY <2>1, <1>4, Zenon
<1>6. Cardinality({}) = 0
  BY FS_EmptySet
<1>7. Cardinality(Bytes(S)) = Cardinality(X) + b.size
  BY <1>2, <1>3, <1>4, <1>5, <1>6
<1>. QED  BY <1>2, <1>3, <1>7 DEF ByteSum, X

LEMMA TotalOfNone == ByteSum({}) = 0
<1>1. Bytes({}) = {}
  BY DEF Bytes
<1>. QED  BY <1>1, FS_EmptySet DEF ByteSum

\* The fold of the audit's property is this total.
LEMMA FoldIsTotal ==
    ASSUME NEW S, IsFiniteSet(S), S \subseteq Allocs
    PROVE  FoldSet(LAMBDA b, n : b.size + n, 0, S) = ByteSum(S)
<1>. DEFINE Step(f) == [s \in SUBSET S |->
                          IF s = {} THEN 0
                          ELSE (CHOOSE x \in s : TRUE).size + f[s \ {CHOOSE x \in s : TRUE}]]
            iter == CHOOSE f : f = Step(f)
            g == [s \in SUBSET S |-> ByteSum(s)]
<1>1. FoldSet(LAMBDA b, n : b.size + n, 0, S) = iter[S]
  BY DEF FoldSet, MapThenFoldSet
<1>2. \A s \in SUBSET S : s # {} =>
          LET x == CHOOSE x \in s : TRUE
          IN  x \in s /\ s \ {x} \in SUBSET S /\ ByteSum(s) = x.size + ByteSum(s \ {x})
  <2>. SUFFICES ASSUME NEW s \in SUBSET S, s # {}, NEW x, x = CHOOSE y \in s : TRUE
                PROVE  x \in s /\ s \ {x} \in SUBSET S /\ ByteSum(s) = x.size + ByteSum(s \ {x})
    BY Zenon
  <2>1. x \in s
    OBVIOUS
  <2>2. IsFiniteSet(s) /\ s \subseteq Allocs
    BY FS_Subset
  <2>. QED  BY <2>1, <2>2, TotalStep
<1>3. g = Step(g)
  <2>1. \A s \in SUBSET S : g[s] = Step(g)[s]
    BY <1>2, TotalOfNone
  <2>2. DOMAIN g = SUBSET S /\ DOMAIN Step(g) = SUBSET S
    OBVIOUS
  <2>. QED  BY <2>1
<1>4. iter = Step(iter)
  <2>. HIDE DEF Step, g
  <2>. QED  BY <1>3, Zenon
<1>. HIDE DEF iter
<1>5. \A s \in SUBSET S : s # {} =>
          LET x == CHOOSE x \in s : TRUE IN iter[s] = x.size + iter[s \ {x}]
  <2>. SUFFICES ASSUME NEW s \in SUBSET S, s # {}
                PROVE  iter[s] = (CHOOSE x \in s : TRUE).size + iter[s \ {CHOOSE x \in s : TRUE}]
    BY Zenon
  <2>1. iter[s] = Step(iter)[s]
    BY <1>4, Zenon
  <2>2. Step(iter)[s] = (CHOOSE x \in s : TRUE).size + iter[s \ {CHOOSE x \in s : TRUE}]
    OBVIOUS
  <2>. QED  BY <2>1, <2>2, Zenon
<1>6. iter[{}] = 0
  <2>1. {} \in SUBSET S
    OBVIOUS
  <2>2. Step(iter)[{}] = 0
    BY <2>1
  <2>. QED  BY <2>2, <1>4, Zenon
<1>. DEFINE C == {T \in SUBSET S : iter[T] # ByteSum(T)}
<1>7. ASSUME C # {} PROVE FALSE
  <2>1. PICK T \in C : \A x \in T : T \ {x} \notin C
    BY <1>7, SmallestSet
  <2>2. T # {}
    BY <2>1, <1>6, TotalOfNone
  <2>. DEFINE x == CHOOSE x \in T : TRUE
  <2>3. x \in T /\ T \ {x} \in SUBSET S /\ ByteSum(T) = x.size + ByteSum(T \ {x})
    BY <2>1, <2>2, <1>2
  <2>4. iter[T] = x.size + iter[T \ {x}]
    BY <2>1, <2>2, <1>5
  <2>. HIDE DEF x
  <2>5. iter[T \ {x}] = ByteSum(T \ {x})
    BY <2>1, <2>3
  <2>. QED  BY <2>1, <2>3, <2>4, <2>5
<1>. QED  BY <1>1, <1>7

----
(***************************************************************************)
(* Pointers, pages and requests.                                           *)
(***************************************************************************)
\* No request asks for more than the largest block: above it alloc hands out
\* the largest block all the same.
RequestsFit == \A req \in Requests : req.size <= PAGE_SIZE * 2^(MAX_ORDER - 1)

Home(ptr) == ptr \div PAGE_SIZE

Given(b) == size_to_order(Max({b.size, b.align}))

Fits(b) == b.size <= PAGE_SIZE * 2^Given(b)

\* The page of a pointer, and the page of a pointer into a page.
LEMMA HomeIs ==
    /\ \A n \in Nat : /\ Home(n) \in Nat /\ PAGE_SIZE * Home(n) \in Nat
                      /\ PAGE_SIZE * Home(n) <= n /\ n < PAGE_SIZE * Home(n) + PAGE_SIZE
    /\ \A page \in Nat, k \in Nat : k < PAGE_SIZE =>
           PAGE_SIZE * page + k \in Nat /\ Home(PAGE_SIZE * page + k) = page
    /\ \A page \in Nat : PAGE_SIZE * page \in Nat /\ Home(PAGE_SIZE * page) = page
<1>1. PAGE_SIZE \in Nat \ {0}
  BY HeapAssumption
<1>2. ASSUME NEW n \in Nat
      PROVE  /\ Home(n) \in Nat /\ PAGE_SIZE * Home(n) \in Nat
             /\ PAGE_SIZE * Home(n) <= n /\ n < PAGE_SIZE * Home(n) + PAGE_SIZE
  <2>. DEFINE q == n \div PAGE_SIZE
  <2>1. q \in Nat /\ n = PAGE_SIZE * q + (n % PAGE_SIZE) /\ n % PAGE_SIZE \in Nat
        /\ n % PAGE_SIZE < PAGE_SIZE
    BY <1>1, Division
  <2>. HIDE DEF q
  <2>2. PAGE_SIZE * q \in Nat
    BY <1>1, <2>1, SMT
  <2>. QED  BY <1>1, <2>1, <2>2 DEF Home, q
<1>3. ASSUME NEW page \in Nat, NEW k \in Nat, k < PAGE_SIZE
      PROVE  PAGE_SIZE * page + k \in Nat /\ Home(PAGE_SIZE * page + k) = page
  <2>. DEFINE n == PAGE_SIZE * page + k
  <2>1. n \in Nat /\ PAGE_SIZE * page <= n /\ n < PAGE_SIZE * page + PAGE_SIZE
    BY <1>1, <1>3, SMT
  <2>. HIDE DEF n
  <2>2. n \div PAGE_SIZE = page
    BY <1>1, <2>1, QuotientIs
  <2>. QED  BY <2>1, <2>2 DEF Home, n
<1>4. ASSUME NEW page \in Nat
      PROVE  PAGE_SIZE * page \in Nat /\ Home(PAGE_SIZE * page) = page
  <2>1. 0 < PAGE_SIZE /\ 0 \in Nat
    BY <1>1
  <2>2. PAGE_SIZE * page + 0 \in Nat /\ Home(PAGE_SIZE * page + 0) = page
    BY <1>3, <2>1
  <2>3. PAGE_SIZE * page \in Nat
    BY <1>1, SMT
  <2>4. PAGE_SIZE * page + 0 = PAGE_SIZE * page
    BY <2>3
  <2>. QED  BY <2>2, <2>3, <2>4
<1>. QED  BY <1>2, <1>3, <1>4

\* The larger of two numbers.
LEMMA MaxIs ==
    ASSUME NEW m \in Nat, NEW n \in Nat
    PROVE  Max({m, n}) \in {m, n} /\ m <= Max({m, n}) /\ n <= Max({m, n})
<1>1. \E x \in {m, n} : \A y \in {m, n} : x >= y
  <2>1. CASE m <= n
    BY <2>1
  <2>2. CASE n <= m
    BY <2>2
  <2>. QED  BY <2>1, <2>2
<1>2. Max({m, n}) \in {m, n} /\ \A y \in {m, n} : Max({m, n}) >= y
  BY <1>1, Zenon DEF Max
<1>. QED  BY <1>2

\* A block of a higher order has no less room.
LEMMA RoomGrows ==
    ASSUME NEW j \in Orders, NEW k \in Orders, j <= k
    PROVE  /\ PAGE_SIZE * 2^j <= PAGE_SIZE * 2^k
           /\ PAGE_SIZE * 2^j \in Nat /\ PAGE_SIZE * 2^k \in Nat
<1>1. PICK c \in Nat : 2^k = 2^j * c
  BY PowersDivide
<1>. DEFINE x == 2^j
            y == 2^k
<1>2. x \in Nat \ {0} /\ y \in Nat \ {0} /\ y = x * c /\ PAGE_SIZE \in Nat
  BY <1>1, Powers, HeapAssumption
<1>. HIDE DEF x, y
<1>3. c # 0
  BY <1>2, SMT
<1>4. x <= y
  BY <1>2, <1>3, SMT
<1>5. PAGE_SIZE * x <= PAGE_SIZE * y /\ PAGE_SIZE * x \in Nat /\ PAGE_SIZE * y \in Nat
  BY <1>2, <1>4, SMT
<1>. QED  BY <1>5 DEF x, y

\* The order of a size is enough for it, unless no order is, and a larger size
\* has no smaller order.
LEMMA OrderIs ==
    ASSUME NEW m \in Nat
    PROVE  /\ size_to_order(m) \in Orders
           /\ m <= PAGE_SIZE * 2^(MAX_ORDER - 1) => m <= PAGE_SIZE * 2^size_to_order(m)
           /\ m > PAGE_SIZE * 2^(MAX_ORDER - 1) => size_to_order(m) = MAX_ORDER - 1
           /\ \A n \in Nat : m <= n => size_to_order(m) <= size_to_order(n)
<1>. DEFINE M == MAX_ORDER - 1
            S(n) == {o \in Orders : n <= PAGE_SIZE * 2^o} \cup {M}
<1>1. M \in Orders /\ Orders \subseteq Nat
  BY Powers
<1>2. \A n : size_to_order(n) = Min(S(n))
  BY DEF size_to_order
<1>3. \A n \in Nat : S(n) \in SUBSET Nat /\ S(n) # {}
  BY <1>1
<1>. HIDE DEF M
<1>4. \A n \in Nat : size_to_order(n) \in S(n) /\ \A y \in S(n) : size_to_order(n) <= y
  <2>. SUFFICES ASSUME NEW n \in Nat
                PROVE  size_to_order(n) \in S(n) /\ \A y \in S(n) : size_to_order(n) <= y
    OBVIOUS
  <2>. DEFINE T == S(n)
  <2>1. T \in SUBSET Nat /\ T # {} /\ size_to_order(n) = Min(T)
    BY <1>2, <1>3
  <2>. HIDE DEF T
  <2>2. size_to_order(n) \in T /\ \A y \in T : size_to_order(n) <= y
    BY <2>1, MinIsLeast
  <2>. QED  BY <2>2 DEF T
<1>5. size_to_order(m) \in Orders
  BY <1>1, <1>4
<1>6. m <= PAGE_SIZE * 2^M => m <= PAGE_SIZE * 2^size_to_order(m)
  BY <1>4
<1>7. ASSUME NEW n \in Nat, m <= n PROVE size_to_order(m) <= size_to_order(n)
  <2>1. \A o \in Orders : PAGE_SIZE * 2^o \in Nat
    <3>1. PAGE_SIZE \in Nat /\ \A o \in Orders : 2^o \in Nat
      BY HeapAssumption, Powers
    <3>2. \A x \in Nat : PAGE_SIZE * x \in Nat
      BY <3>1, SMT
    <3>. QED  BY <3>1, <3>2
  <2>2. S(n) \subseteq S(m)
    BY <2>1, <1>7
  <2>. QED  BY <2>2, <1>4, <1>7
<1>8. ASSUME m > PAGE_SIZE * 2^M, size_to_order(m) # M PROVE FALSE
  <2>. DEFINE o == size_to_order(m)
  <2>1. o \in Orders /\ m <= PAGE_SIZE * 2^o
    BY <1>4, <1>8
  <2>. HIDE DEF o
  <2>2. o <= M
    BY <2>1, HeapAssumption DEF Orders, M
  <2>3. PAGE_SIZE * 2^o <= PAGE_SIZE * 2^M /\ PAGE_SIZE * 2^o \in Nat /\ PAGE_SIZE * 2^M \in Nat
    BY <1>1, <2>1, <2>2, RoomGrows
  <2>. QED  BY <2>1, <2>3, <1>8
<1>. QED  BY <1>5, <1>6, <1>7, <1>8 DEF M

\* The order a layout is given is enough for its size, unless no order is.
LEMMA GivenHasRoom ==
    ASSUME NEW size \in Nat, NEW align \in Nat, size <= PAGE_SIZE * 2^(MAX_ORDER - 1)
    PROVE  size <= PAGE_SIZE * 2^size_to_order(Max({size, align}))
<1>. DEFINE m == Max({size, align})
            j == size_to_order(size)
            k == size_to_order(m)
<1>1. m \in Nat /\ size <= m
  BY MaxIs
<1>. HIDE DEF m
<1>2. /\ j \in Orders /\ size <= PAGE_SIZE * 2^j
      /\ \A x \in Nat : size <= x => j <= size_to_order(x)
  BY OrderIs, Zenon
<1>3. k \in Orders /\ j <= k
  BY <1>1, <1>2, OrderIs
<1>. HIDE DEF j, k
<1>4. PAGE_SIZE * 2^j <= PAGE_SIZE * 2^k
      /\ PAGE_SIZE * 2^j \in Nat /\ PAGE_SIZE * 2^k \in Nat
  BY <1>2, <1>3, RoomGrows
<1>5. size <= PAGE_SIZE * 2^k
  BY <1>2, <1>4
<1>. QED  BY <1>5 DEF k, m

\* A block that lies in the heap has room for what fits it.
LEMMA BlockRoom ==
    ASSUME NEW p \in Nat, NEW o \in Orders, PagesFrom(p, o) \subseteq Pages,
           NEW size \in Nat, size <= PAGE_SIZE * 2^o
    PROVE  /\ PAGE_SIZE * p + size <= PAGE_SIZE * NPages
           /\ PAGE_SIZE * p \in Nat /\ PAGE_SIZE * NPages \in Nat /\ p + 2^o <= NPages
           /\ p \in PagesFrom(p, o)
<1>1. 2^o \in Nat \ {0} /\ PAGE_SIZE \in Nat /\ NPages \in Nat
  BY Powers, HeapAssumption
<1>. DEFINE d == 2^o
            last == p + d - 1
<1>2. last \in p .. p + d - 1 /\ p \in PagesFrom(p, o)
  BY <1>1 DEF PagesFrom
<1>3. last \in Pages
  BY <1>2 DEF PagesFrom
<1>4. p + d <= NPages
  BY <1>1, <1>3 DEF Pages
<1>. HIDE DEF d
<1>5. PAGE_SIZE * (p + d) <= PAGE_SIZE * NPages
  BY <1>1, <1>4, SMT DEF d
<1>6. PAGE_SIZE * (p + d) = PAGE_SIZE * p + PAGE_SIZE * d
      /\ PAGE_SIZE * p \in Nat /\ PAGE_SIZE * d \in Nat /\ PAGE_SIZE * NPages \in Nat
  BY <1>1, SMT DEF d
<1>7. size <= PAGE_SIZE * d
  BY DEF d
<1>. QED  BY <1>2, <1>4, <1>5, <1>6, <1>7 DEF d

\* What lies in one page ends where the next one starts.
LEMMA BytesOfPage ==
    ASSUME NEW p \in Nat, NEW n \in Nat, Home(p) < n
    PROVE  p + 1 <= PAGE_SIZE * n /\ PAGE_SIZE * n \in Nat
<1>1. PAGE_SIZE \in Nat
  BY HeapAssumption
<1>. DEFINE k == Home(p)
<1>2. k \in Nat /\ p < PAGE_SIZE * k + PAGE_SIZE /\ k + 1 <= n
  BY HomeIs
<1>. HIDE DEF k
<1>3. PAGE_SIZE * (k + 1) <= PAGE_SIZE * n /\ PAGE_SIZE * (k + 1) = PAGE_SIZE * k + PAGE_SIZE
      /\ PAGE_SIZE * k \in Nat /\ PAGE_SIZE * n \in Nat
  BY <1>1, <1>2, SMT
<1>. QED  BY <1>1, <1>2, <1>3

\* A pointer in the heap has a page of the heap, and the other way round.
LEMMA HomeInHeap ==
    ASSUME NEW p \in Nat
    PROVE  Home(p) \in Pages <=> p < PAGE_SIZE * NPages
<1>1. PAGE_SIZE \in Nat /\ NPages \in Nat /\ PAGE_SIZE * NPages \in Nat
  BY HeapAssumption, SMT
<1>. DEFINE k == Home(p)
<1>2. k \in Nat /\ PAGE_SIZE * k <= p
  BY HomeIs
<1>3. ASSUME k < NPages PROVE p < PAGE_SIZE * NPages
  BY <1>1, <1>3, BytesOfPage
<1>. HIDE DEF k
<1>4. ASSUME ~(k < NPages) PROVE ~(p < PAGE_SIZE * NPages)
  <2>1. PAGE_SIZE * NPages <= PAGE_SIZE * k /\ PAGE_SIZE * k \in Nat
    BY <1>1, <1>2, <1>4, SMT
  <2>. QED  BY <1>1, <1>2, <2>1
<1>. QED  BY <1>1, <1>2, <1>3, <1>4 DEF Pages, k

(***************************************************************************)
(* What is held, what is cut into slots and what is free.  Q is the list   *)
(* of free slots, B the bitmap, H the allocations alive, L the lost pages. *)
(***************************************************************************)
\* An allocation is of a layout that was asked for.
Asks(b) == \E req \in Requests : b.size = req.size /\ b.align = req.align

SlabPtrs(H) == {b.ptr : b \in {c \in H : IsSlab(c)}}

\* A block that is held begins at its first page and owns all its pages.
OwnsBlock(b, B, L) ==
    /\ b.ptr = PAGE_SIZE * Home(b.ptr)
    /\ Aligned(Home(b.ptr), Given(b)) = Home(b.ptr)
    /\ PagesOf(b) \subseteq Pages \ (B \cup L)

\* The page of a slot is in no block.
OwnsSlot(p, B, H, L) ==
    /\ Home(p) \in Pages \ (B \cup L)
    /\ \A b \in H : ~IsSlab(b) => Home(p) \notin PagesOf(b)

Typed(Q, B, H, L) ==
    /\ Q \in Seq(Nat) /\ Distinct(Q) /\ B \subseteq Pages /\ L \subseteq Pages
    /\ B \cap L = {} /\ H \subseteq Allocs /\ IsFiniteSet(H)

Apart(Q, B, H, L) ==
    /\ Typed(Q, B, H, L)
    /\ \A b \in H : Asks(b) /\ (~IsSlab(b) => OwnsBlock(b, B, L))
    /\ \A b, c \in H : b # c =>
           b.ptr # c.ptr /\ (~IsSlab(b) /\ ~IsSlab(c) => PagesOf(b) \cap PagesOf(c) = {})
    /\ Range(Q) \cap SlabPtrs(H) = {}
    /\ \A p \in Range(Q) \cup SlabPtrs(H) : OwnsSlot(p, B, H, L)

\* A request of the slab class is for one slot.
LEMMA SlabIs ==
    ASSUME NEW b \in Allocs, IsSlab(b)
    PROVE  b.size = 1 /\ b.align = 1
  BY DEF Allocs, IsSlab

\* The pages of a block are those of its order from its first page.
LEMMA PagesOfIs ==
    ASSUME NEW b \in Allocs
    PROVE  /\ PagesOf(b) = PagesFrom(Home(b.ptr), Given(b))
           /\ Given(b) \in Orders /\ Home(b.ptr) \in Nat /\ b.ptr \in Nat
           /\ Home(b.ptr) \in PagesOf(b) /\ PagesOf(b) \subseteq Nat
<1>1. b.ptr \in Nat /\ b.size \in Nat /\ b.align \in Nat
  BY DEF Allocs
<1>2. Max({b.size, b.align}) \in Nat
  BY <1>1, MaxIs
<1>3. Given(b) \in Orders
  BY <1>2, OrderIs DEF Given
<1>4. Home(b.ptr) \in Nat
  BY <1>1, HomeIs
<1>5. PagesOf(b) = PagesFrom(Home(b.ptr), Given(b))
  BY DEF PagesOf, Given, Home
<1>6. 2^Given(b) \in Nat \ {0}
  BY <1>3, Powers
<1>7. Home(b.ptr) \in PagesFrom(Home(b.ptr), Given(b)) /\ PagesFrom(Home(b.ptr), Given(b)) \subseteq Nat
  BY <1>4, <1>6 DEF PagesFrom
<1>. QED  BY <1>1, <1>3, <1>4, <1>5, <1>7

\* The tail of a list from its third element on.
LEMMA RestIs ==
    ASSUME NEW S, NEW s \in Seq(S), s # <<>>
    PROVE  /\ SubSeq(s, 3, Len(s)) \in Seq(S) /\ Head(s) \in Range(s) /\ Head(s) \in S
           /\ Range(SubSeq(s, 3, Len(s))) \subseteq Range(s)
           /\ Len(SubSeq(s, 3, Len(s))) + 1 <= Len(s) /\ Len(s) \in Nat
           /\ Distinct(s) => /\ Distinct(SubSeq(s, 3, Len(s)))
                             /\ Head(s) \notin Range(SubSeq(s, 3, Len(s)))
<1>. DEFINE n == Len(s)
            t == SubSeq(s, 3, n)
<1>1. n \in Nat /\ n >= 1 /\ DOMAIN s = 1 .. n /\ Head(s) = s[1] /\ s[1] \in S
  BY EmptySeq
<1>2. /\ t \in Seq(S) /\ Len(t) = IF n >= 3 THEN n - 2 ELSE 0
      /\ DOMAIN t = 1 .. Len(t) /\ \A i \in 1 .. Len(t) : t[i] = s[i + 2] /\ i + 2 \in 1 .. n
  <2>1. CASE n >= 3
    <3>1. t \in Seq(S) /\ Len(t) = n - 2 /\ \A i \in 1 .. n - 2 : t[i] = s[i + 2]
      BY <1>1, <2>1
    <3>. QED  BY <1>1, <2>1, <3>1
  <2>2. CASE n < 3
    <3>1. t = <<>>
      BY <1>1, <2>2
    <3>. QED  BY <1>1, <2>2, <3>1
  <2>. QED  BY <1>1, <2>1, <2>2
<1>. HIDE DEF n, t
<1>3. Range(t) \subseteq Range(s) /\ Head(s) \in Range(s)
  BY <1>1, <1>2 DEF Range
<1>4. ASSUME Distinct(s) PROVE Distinct(t) /\ Head(s) \notin Range(t)
  <2>1. \A i, j \in 1 .. n : s[i] = s[j] => i = j
    BY <1>1, <1>4 DEF Distinct
  <2>2. \A i \in 1 .. Len(t) : i + 2 \in 1 .. n /\ i + 2 # 1 /\ 1 \in 1 .. n
    BY <1>1, <1>2
  <2>3. Distinct(t)
    <3>1. ASSUME NEW i \in 1 .. Len(t), NEW j \in 1 .. Len(t), t[i] = t[j] PROVE i = j
      <4>1. s[i + 2] = s[j + 2]
        BY <1>2, <3>1
      <4>2. i + 2 = j + 2
        BY <4>1, <2>1, <2>2
      <4>. QED  BY <4>2
    <3>. QED  BY <1>2, <3>1 DEF Distinct
  <2>4. ASSUME Head(s) \in Range(t) PROVE FALSE
    <3>1. PICK i \in 1 .. Len(t) : t[i] = s[1]
      BY <1>1, <1>2, <2>4 DEF Range
    <3>2. s[i + 2] = s[1]
      BY <1>2, <3>1
    <3>. QED  BY <3>2, <2>1, <2>2
  <2>. QED  BY <2>3, <2>4
<1>5. Len(t) + 1 <= n
  BY <1>1, <1>2
<1>. QED  BY <1>1, <1>2, <1>3, <1>4, <1>5 DEF n, t

\* The slots of the allocations when one comes or goes.
LEMMA SlabPtrsAre ==
    ASSUME NEW H, NEW b
    PROVE  /\ SlabPtrs(H \cup {b}) = SlabPtrs(H) \cup (IF IsSlab(b) THEN {b.ptr} ELSE {})
           /\ SlabPtrs(H \ {b}) \subseteq SlabPtrs(H)
           /\ \A p \in SlabPtrs(H) : \E c \in H : IsSlab(c) /\ c.ptr = p
           /\ \A c \in H : IsSlab(c) => c.ptr \in SlabPtrs(H)
  BY DEF SlabPtrs

\* pop hands out the first slot and drops the second.
LEMMA SlotTaken ==
    ASSUME NEW Q, NEW B, NEW H, NEW L, Apart(Q, B, H, L), Q # <<>>,
           NEW b \in Allocs, IsSlab(b), Asks(b), b.ptr = Head(Q)
    PROVE  Apart(SubSeq(Q, 3, Len(Q)), B, H \cup {b}, L) /\ b \notin H
<1>. DEFINE T == SubSeq(Q, 3, Len(Q))
            G == H \cup {b}
<1>1. /\ Q \in Seq(Nat) /\ Distinct(Q) /\ B \subseteq Pages /\ L \subseteq Pages
      /\ B \cap L = {} /\ H \subseteq Allocs /\ IsFiniteSet(H)
      /\ \A c \in H : Asks(c) /\ (~IsSlab(c) => OwnsBlock(c, B, L))
      /\ \A c, d \in H : c # d =>
           c.ptr # d.ptr /\ (~IsSlab(c) /\ ~IsSlab(d) => PagesOf(c) \cap PagesOf(d) = {})
      /\ Range(Q) \cap SlabPtrs(H) = {}
      /\ \A p \in Range(Q) \cup SlabPtrs(H) : OwnsSlot(p, B, H, L)
  BY DEF Apart, Typed
<1>2. T \in Seq(Nat) /\ Range(T) \subseteq Range(Q) /\ Distinct(T) /\ b.ptr \notin Range(T)
      /\ b.ptr \in Range(Q)
  BY <1>1, RestIs
<1>. HIDE DEF T
<1>3. SlabPtrs(G) = SlabPtrs(H) \cup {b.ptr} /\ \A c \in H : IsSlab(c) => c.ptr \in SlabPtrs(H)
  BY SlabPtrsAre
<1>4. \A c \in H : c.ptr # b.ptr
  <2>. SUFFICES ASSUME NEW c \in H, c.ptr = b.ptr PROVE FALSE
    OBVIOUS
  <2>1. CASE IsSlab(c)
    BY <2>1, <1>1, <1>2, <1>3
  <2>2. CASE ~IsSlab(c)
    <3>1. Home(c.ptr) \in PagesOf(c)
      BY <1>1, PagesOfIs
    <3>2. OwnsSlot(b.ptr, B, H, L)
      BY <1>1, <1>2
    <3>. QED  BY <3>1, <3>2, <2>2 DEF OwnsSlot
  <2>. QED  BY <2>1, <2>2
<1>5. IsFiniteSet(G)
  BY <1>1, FS_AddElement
<1>6. Typed(T, B, G, L)
  BY <1>1, <1>2, <1>5 DEF Typed
<1>7. \A c, d \in G : c # d =>
           c.ptr # d.ptr /\ (~IsSlab(c) /\ ~IsSlab(d) => PagesOf(c) \cap PagesOf(d) = {})
  BY <1>1, <1>4
<1>8. \A p \in Range(T) \cup SlabPtrs(G) : OwnsSlot(p, B, G, L)
  <2>1. \A p \in Range(Q) \cup SlabPtrs(H) : OwnsSlot(p, B, G, L)
    BY <1>1 DEF OwnsSlot
  <2>. QED  BY <2>1, <1>2, <1>3
<1>9. Range(T) \cap SlabPtrs(G) = {}
  BY <1>1, <1>2, <1>3
<1>10. \A c \in G : Asks(c) /\ (~IsSlab(c) => OwnsBlock(c, B, L))
  BY <1>1
<1>. QED  BY <1>4, <1>6, <1>7, <1>8, <1>9, <1>10 DEF Apart, T

\* An allocation that is a block of the bitmap.
FreshBlock(b, B) ==
    /\ b \in Allocs /\ ~IsSlab(b) /\ Asks(b) /\ b.ptr = PAGE_SIZE * Home(b.ptr)
    /\ Aligned(Home(b.ptr), Given(b)) = Home(b.ptr) /\ PagesOf(b) \subseteq B

\* A block taken out of the bitmap is held.
LEMMA BlockTaken ==
    ASSUME NEW Q, NEW B, NEW H, NEW L, Apart(Q, B, H, L), NEW b, FreshBlock(b, B)
    PROVE  Apart(Q, B \ PagesOf(b), H \cup {b}, L) /\ b \notin H
<1>. DEFINE C == B \ PagesOf(b)
            G == H \cup {b}
<1>0. /\ b \in Allocs /\ ~IsSlab(b) /\ Asks(b) /\ b.ptr = PAGE_SIZE * Home(b.ptr)
      /\ Aligned(Home(b.ptr), Given(b)) = Home(b.ptr) /\ PagesOf(b) \subseteq B
  BY DEF FreshBlock
<1>1. /\ Q \in Seq(Nat) /\ Distinct(Q) /\ B \subseteq Pages /\ L \subseteq Pages
      /\ B \cap L = {} /\ H \subseteq Allocs /\ IsFiniteSet(H)
      /\ \A c \in H : Asks(c) /\ (~IsSlab(c) => OwnsBlock(c, B, L))
      /\ \A c, d \in H : c # d =>
           c.ptr # d.ptr /\ (~IsSlab(c) /\ ~IsSlab(d) => PagesOf(c) \cap PagesOf(d) = {})
      /\ Range(Q) \cap SlabPtrs(H) = {}
      /\ \A p \in Range(Q) \cup SlabPtrs(H) : OwnsSlot(p, B, H, L)
  BY DEF Apart, Typed
<1>2. SlabPtrs(G) = SlabPtrs(H) /\ \A c \in H : IsSlab(c) => c.ptr \in SlabPtrs(H)
  <2>1. /\ SlabPtrs(H \cup {b}) = SlabPtrs(H) \cup (IF IsSlab(b) THEN {b.ptr} ELSE {})
        /\ \A c \in H : IsSlab(c) => c.ptr \in SlabPtrs(H)
    BY SlabPtrsAre, Zenon
  <2>2. (IF IsSlab(b) THEN {b.ptr} ELSE {}) = {}
    BY <1>0
  <2>. QED  BY <2>1, <2>2
<1>3. Home(b.ptr) \in PagesOf(b)
  BY <1>0, PagesOfIs
<1>4. \A c \in H : c.ptr # b.ptr /\ (~IsSlab(c) => PagesOf(c) \cap PagesOf(b) = {})
  <2>. SUFFICES ASSUME NEW c \in H
                PROVE  c.ptr # b.ptr /\ (~IsSlab(c) => PagesOf(c) \cap PagesOf(b) = {})
    OBVIOUS
  <2>1. CASE IsSlab(c)
    <3>1. OwnsSlot(c.ptr, B, H, L)
      BY <2>1, <1>1, <1>2
    <3>. QED  BY <3>1, <2>1, <1>0, <1>3 DEF OwnsSlot
  <2>2. CASE ~IsSlab(c)
    <3>1. PagesOf(c) \cap B = {} /\ Home(c.ptr) \in PagesOf(c)
      BY <2>2, <1>0, <1>1, PagesOfIs DEF OwnsBlock
    <3>. QED  BY <3>1, <1>0, <1>3
  <2>. QED  BY <2>1, <2>2
<1>5. IsFiniteSet(G)
  BY <1>1, FS_AddElement
<1>6. Typed(Q, C, G, L)
  BY <1>0, <1>1, <1>5 DEF Typed
<1>7. \A c, d \in G : c # d =>
           c.ptr # d.ptr /\ (~IsSlab(c) /\ ~IsSlab(d) => PagesOf(c) \cap PagesOf(d) = {})
  BY <1>0, <1>1, <1>4
<1>8. \A p \in Range(Q) \cup SlabPtrs(G) : OwnsSlot(p, C, G, L)
  BY <1>0, <1>1, <1>2 DEF OwnsSlot
<1>9. \A c \in G : Asks(c) /\ (~IsSlab(c) => OwnsBlock(c, C, L))
  <2>1. \A c \in H : Asks(c) /\ (~IsSlab(c) => OwnsBlock(c, C, L))
    BY <1>1 DEF OwnsBlock
  <2>2. OwnsBlock(b, C, L)
    BY <1>0, <1>1 DEF OwnsBlock
  <2>. QED  BY <2>1, <2>2, <1>0
<1>. QED  BY <1>0, <1>1, <1>2, <1>4, <1>6, <1>7, <1>8, <1>9 DEF Apart

\* A page taken out of the bitmap is cut into slots.
LEMMA PageCut ==
    ASSUME NEW Q, NEW B, NEW H, NEW L, Apart(Q, B, H, L), Q = <<>>, NEW page \in B
    PROVE  LET T == [k \in 1 .. PAGE_SIZE |-> PAGE_SIZE * page + k - 1] \o Q
           IN  Apart(T, B \ {page}, H, L) /\ T # <<>> /\ Len(T) = PAGE_SIZE /\ T \in Seq(Nat)
<1>. DEFINE U == [k \in 1 .. PAGE_SIZE |-> PAGE_SIZE * page + k - 1]
            T == U \o Q
            C == B \ {page}
<1>1. /\ Q \in Seq(Nat) /\ Distinct(Q) /\ B \subseteq Pages /\ L \subseteq Pages
      /\ B \cap L = {} /\ H \subseteq Allocs /\ IsFiniteSet(H)
      /\ \A c \in H : Asks(c) /\ (~IsSlab(c) => OwnsBlock(c, B, L))
      /\ \A c, d \in H : c # d =>
           c.ptr # d.ptr /\ (~IsSlab(c) /\ ~IsSlab(d) => PagesOf(c) \cap PagesOf(d) = {})
      /\ Range(Q) \cap SlabPtrs(H) = {}
      /\ \A p \in Range(Q) \cup SlabPtrs(H) : OwnsSlot(p, B, H, L)
  BY DEF Apart, Typed
<1>2. PAGE_SIZE \in Nat \ {0} /\ page \in Nat /\ PAGE_SIZE * page \in Nat
  <2>1. PAGE_SIZE \in Nat \ {0} /\ page \in Nat
    BY <1>1, HeapAssumption DEF Pages
  <2>. QED  BY <2>1, SMT
<1>3. \A k \in 1 .. PAGE_SIZE : /\ PAGE_SIZE * page + k - 1 \in Nat
                                /\ Home(PAGE_SIZE * page + k - 1) = page
  <2>. SUFFICES ASSUME NEW k \in 1 .. PAGE_SIZE
                PROVE  /\ PAGE_SIZE * page + k - 1 \in Nat
                       /\ Home(PAGE_SIZE * page + k - 1) = page
    OBVIOUS
  <2>1. k - 1 \in Nat /\ k - 1 < PAGE_SIZE /\ PAGE_SIZE * page + k - 1 = PAGE_SIZE * page + (k - 1)
    BY <1>2
  <2>. QED  BY <2>1, <1>2, HomeIs
<1>4. U \in Seq(Nat) /\ Len(U) = PAGE_SIZE /\ DOMAIN U = 1 .. PAGE_SIZE
  BY <1>2, <1>3
<1>5. T = U
  BY <1>4
<1>6. T \in Seq(Nat) /\ T # <<>> /\ Len(T) = PAGE_SIZE
  BY <1>2, <1>4, <1>5
<1>7. Distinct(T)
  <2>1. ASSUME NEW i \in 1 .. PAGE_SIZE, NEW j \in 1 .. PAGE_SIZE, U[i] = U[j] PROVE i = j
    BY <2>1, <1>2
  <2>. QED  BY <2>1, <1>4, <1>5 DEF Distinct
<1>8. \A p \in Range(T) : Home(p) = page
  <2>1. \A p \in Range(U) : \E k \in 1 .. PAGE_SIZE : p = PAGE_SIZE * page + k - 1
    BY DEF Range
  <2>. QED  BY <2>1, <1>3, <1>5
<1>. HIDE DEF U, T
<1>9. Range(T) \cap SlabPtrs(H) = {}
  <2>. SUFFICES ASSUME NEW p \in Range(T), p \in SlabPtrs(H) PROVE FALSE
    OBVIOUS
  <2>. QED  BY <1>1, <1>8 DEF OwnsSlot
<1>10. \A p \in Range(T) \cup SlabPtrs(H) : OwnsSlot(p, C, H, L)
  <2>1. \A p \in SlabPtrs(H) : OwnsSlot(p, C, H, L)
    BY <1>1 DEF OwnsSlot
  <2>2. ASSUME NEW p \in Range(T) PROVE OwnsSlot(p, C, H, L)
    <3>1. Home(p) = page
      BY <1>8
    <3>2. \A b \in H : ~IsSlab(b) => page \notin PagesOf(b)
      BY <1>1 DEF OwnsBlock
    <3>. QED  BY <3>1, <3>2, <1>1 DEF OwnsSlot
  <2>. QED  BY <2>1, <2>2
<1>11. \A c \in H : Asks(c) /\ (~IsSlab(c) => OwnsBlock(c, C, L))
  BY <1>1 DEF OwnsBlock
<1>12. Typed(T, C, H, L)
  BY <1>1, <1>6, <1>7 DEF Typed
<1>13. Apart(T, C, H, L)
  BY <1>1, <1>9, <1>10, <1>11, <1>12 DEF Apart
<1>. QED  BY <1>6, <1>13 DEF T, U

\* A freed slot is pushed.
LEMMA SlotBack ==
    ASSUME NEW Q, NEW B, NEW H, NEW L, Apart(Q, B, H, L), NEW b \in H, IsSlab(b)
    PROVE  Apart(<<b.ptr>> \o Q, B, H \ {b}, L)
<1>. DEFINE T == <<b.ptr>> \o Q
            G == H \ {b}
<1>1. /\ Q \in Seq(Nat) /\ Distinct(Q) /\ B \subseteq Pages /\ L \subseteq Pages
      /\ B \cap L = {} /\ H \subseteq Allocs /\ IsFiniteSet(H)
      /\ \A c \in H : Asks(c) /\ (~IsSlab(c) => OwnsBlock(c, B, L))
      /\ \A c, d \in H : c # d =>
           c.ptr # d.ptr /\ (~IsSlab(c) /\ ~IsSlab(d) => PagesOf(c) \cap PagesOf(d) = {})
      /\ Range(Q) \cap SlabPtrs(H) = {}
      /\ \A p \in Range(Q) \cup SlabPtrs(H) : OwnsSlot(p, B, H, L)
  BY DEF Apart, Typed
<1>2. b.ptr \in SlabPtrs(H) /\ SlabPtrs(G) \subseteq SlabPtrs(H)
      /\ \A p \in SlabPtrs(G) : \E c \in G : IsSlab(c) /\ c.ptr = p
  BY SlabPtrsAre
<1>3. b.ptr \in Nat /\ b.ptr \notin Range(Q)
  BY <1>1, <1>2 DEF Allocs
<1>4. T \in Seq(Nat) /\ Range(T) = Range(Q) \cup {b.ptr} /\ Distinct(T)
  BY <1>1, <1>3, PushIs
<1>. HIDE DEF T
<1>5. IsFiniteSet(G)
  BY <1>1, FS_Subset
<1>6. Typed(T, B, G, L)
  BY <1>1, <1>4, <1>5 DEF Typed
<1>7. b.ptr \notin SlabPtrs(G)
  BY <1>1, <1>2
<1>8. Range(T) \cap SlabPtrs(G) = {}
  BY <1>1, <1>2, <1>4, <1>7
<1>9. \A p \in Range(T) \cup SlabPtrs(G) : OwnsSlot(p, B, G, L)
  BY <1>1, <1>2, <1>4 DEF OwnsSlot
<1>. QED  BY <1>1, <1>6, <1>8, <1>9 DEF Apart, T

\* A freed block goes back to the bitmap, as far as its size reaches; what its
\* alignment had added is lost.
LEMMA BlockBack ==
    ASSUME NEW Q, NEW B, NEW H, NEW L, Apart(Q, B, H, L), NEW b \in H, ~IsSlab(b),
           NEW D, D \subseteq PagesOf(b)
    PROVE  Apart(Q, B \cup D, H \ {b}, L \cup (PagesOf(b) \ D))
<1>. DEFINE C == B \cup D
            M == L \cup (PagesOf(b) \ D)
            G == H \ {b}
<1>1. /\ Q \in Seq(Nat) /\ Distinct(Q) /\ B \subseteq Pages /\ L \subseteq Pages
      /\ B \cap L = {} /\ H \subseteq Allocs /\ IsFiniteSet(H)
      /\ \A c \in H : Asks(c) /\ (~IsSlab(c) => OwnsBlock(c, B, L))
      /\ \A c, d \in H : c # d =>
           c.ptr # d.ptr /\ (~IsSlab(c) /\ ~IsSlab(d) => PagesOf(c) \cap PagesOf(d) = {})
      /\ Range(Q) \cap SlabPtrs(H) = {}
      /\ \A p \in Range(Q) \cup SlabPtrs(H) : OwnsSlot(p, B, H, L)
  BY DEF Apart, Typed
<1>2. SlabPtrs(G) \subseteq SlabPtrs(H)
  BY SlabPtrsAre
<1>3. PagesOf(b) \subseteq Pages \ (B \cup L)
  BY <1>1 DEF OwnsBlock
<1>4. C \subseteq Pages /\ M \subseteq Pages /\ C \cap M = {} /\ C \cup M = B \cup L \cup PagesOf(b)
  BY <1>1, <1>3
<1>5. IsFiniteSet(G)
  BY <1>1, FS_Subset
<1>. HIDE DEF C, M
<1>6. Typed(Q, C, G, M)
  BY <1>1, <1>4, <1>5 DEF Typed
<1>7. \A p \in Range(Q) \cup SlabPtrs(G) : OwnsSlot(p, C, G, M)
  <2>. SUFFICES ASSUME NEW p \in Range(Q) \cup SlabPtrs(G) PROVE OwnsSlot(p, C, G, M)
    OBVIOUS
  <2>1. /\ Home(p) \in Pages /\ Home(p) \notin B \cup L
        /\ \A c \in H : ~IsSlab(c) => Home(p) \notin PagesOf(c)
    BY <1>1, <1>2 DEF OwnsSlot
  <2>2. Home(p) \notin PagesOf(b)
    BY <2>1
  <2>3. Home(p) \notin C \cup M
    BY <2>1, <2>2, <1>4
  <2>. QED  BY <2>1, <2>3 DEF OwnsSlot
<1>8. \A c \in G : Asks(c) /\ (~IsSlab(c) => OwnsBlock(c, C, M))
  <2>. SUFFICES ASSUME NEW c \in G, ~IsSlab(c) PROVE OwnsBlock(c, C, M)
    BY <1>1
  <2>1. PagesOf(c) \cap PagesOf(b) = {} /\ OwnsBlock(c, B, L)
    BY <1>1
  <2>2. PagesOf(c) \subseteq Pages \ (C \cup M)
    BY <2>1, <1>4 DEF OwnsBlock
  <2>. QED  BY <2>1, <2>2 DEF OwnsBlock
<1>. QED  BY <1>1, <1>2, <1>6, <1>7, <1>8 DEF Apart, C, M

\* An allocation whose canary was written over lies where it lay.
LEMMA WrittenOver ==
    ASSUME NEW Q, NEW B, NEW H, NEW L, Apart(Q, B, H, L), NEW b \in H
    PROVE  LET n == [b EXCEPT !.intact = FALSE]
           IN  /\ Apart(Q, B, (H \ {b}) \cup {n}, L) /\ n \in Allocs /\ n.ptr = b.ptr
               /\ n.size = b.size /\ n.align = b.align /\ n \notin H \ {b}
<1>. DEFINE n == [b EXCEPT !.intact = FALSE]
            G == (H \ {b}) \cup {n}
<1>1. /\ Q \in Seq(Nat) /\ Distinct(Q) /\ B \subseteq Pages /\ L \subseteq Pages
      /\ B \cap L = {} /\ H \subseteq Allocs /\ IsFiniteSet(H)
      /\ \A c \in H : Asks(c) /\ (~IsSlab(c) => OwnsBlock(c, B, L))
      /\ \A c, d \in H : c # d =>
           c.ptr # d.ptr /\ (~IsSlab(c) /\ ~IsSlab(d) => PagesOf(c) \cap PagesOf(d) = {})
      /\ Range(Q) \cap SlabPtrs(H) = {}
      /\ \A p \in Range(Q) \cup SlabPtrs(H) : OwnsSlot(p, B, H, L)
  BY DEF Apart, Typed
<1>2. n \in Allocs /\ n.ptr = b.ptr /\ n.size = b.size /\ n.align = b.align
  BY <1>1 DEF Allocs
<1>. HIDE DEF n
<1>3. /\ PagesOf(n) = PagesOf(b) /\ Given(n) = Given(b)
      /\ (IsSlab(n) <=> IsSlab(b)) /\ (Asks(n) <=> Asks(b))
  BY <1>2 DEF PagesOf, Given, IsSlab, Asks
<1>4. n \notin H \ {b}
  BY <1>1, <1>2
<1>5. IsFiniteSet(H \ {b})
  BY <1>1, FS_Subset
<1>6. IsFiniteSet(G)
  BY <1>5, FS_AddElement
<1>7. Typed(Q, B, G, L)
  BY <1>1, <1>2, <1>6 DEF Typed
<1>8. SlabPtrs(G) = SlabPtrs(H)
  BY <1>2, <1>3 DEF SlabPtrs
<1>9. OwnsBlock(n, B, L) <=> OwnsBlock(b, B, L)
  BY <1>2, <1>3 DEF OwnsBlock
<1>10. \A c \in G : Asks(c) /\ (~IsSlab(c) => OwnsBlock(c, B, L))
  BY <1>1, <1>3, <1>9
<1>11. \A c, d \in G : c # d =>
           c.ptr # d.ptr /\ (~IsSlab(c) /\ ~IsSlab(d) => PagesOf(c) \cap PagesOf(d) = {})
  <2>1. \A c \in H \ {b} : /\ c.ptr # n.ptr
                           /\ ~IsSlab(c) /\ ~IsSlab(n) => PagesOf(c) \cap PagesOf(n) = {}
    BY <1>1, <1>2, <1>3
  <2>2. \A c \in H \ {b} : /\ n.ptr # c.ptr
                           /\ ~IsSlab(n) /\ ~IsSlab(c) => PagesOf(n) \cap PagesOf(c) = {}
    BY <2>1
  <2>. QED  BY <2>1, <2>2, <1>1
<1>12. \A p \in Range(Q) \cup SlabPtrs(G) : OwnsSlot(p, B, G, L)
  <2>. SUFFICES ASSUME NEW p \in Range(Q) \cup SlabPtrs(H) PROVE OwnsSlot(p, B, G, L)
    BY <1>8
  <2>1. /\ Home(p) \in Pages \ (B \cup L)
        /\ \A c \in H : ~IsSlab(c) => Home(p) \notin PagesOf(c)
    BY <1>1 DEF OwnsSlot
  <2>2. \A c \in G : ~IsSlab(c) => Home(p) \notin PagesOf(c)
    BY <2>1, <1>3
  <2>. QED  BY <2>1, <2>2 DEF OwnsSlot
<1>13. Apart(Q, B, G, L)
  BY <1>1, <1>7, <1>8, <1>10, <1>11, <1>12 DEF Apart
<1>. QED  BY <1>2, <1>4, <1>13 DEF n

(***************************************************************************)
(* States of the heap and its hooks.                                       *)
(***************************************************************************)
States == [inner : HeapRecs, held : SUBSET Allocs, ring : Seq(Nat), live : Nat,
           lost : SUBSET Pages, machine : {"runs", "halted", "faulted"}]

StateOk(s) ==
    /\ s \in States
    /\ BuddyOk(s.inner)
    /\ Len(s.inner.slots) <= s.inner.free_count
    /\ Apart(s.inner.slots, s.inner.bitmap, s.held, s.lost)
    /\ s.live = ByteSum(s.held)

\* The inductive invariant.
HeapInv == StateOk(State) /\ word0 \in {"null", "wild"}

\* The buddy allocator is not touched by what the slab class does.
LEMMA SameBuddy ==
    ASSUME NEW h, BuddyOk(h), NEW g \in HeapRecs, g.free_lists = h.free_lists,
           g.bitmap = h.bitmap, g.free_bytes = h.free_bytes
    PROVE  BuddyOk(g)
<1>1. FreeOf(g) = FreeOf(h)
  BY DEF FreeOf
<1>. QED  BY <1>1 DEF BuddyOk

\* What pop leaves.
LEMMA PopIs ==
    ASSUME NEW h, BuddyOk(h), h.slots # <<>>, word0 \in {"null", "wild"},
           Len(h.slots) <= h.free_count
    PROVE  /\ BuddyOk(Pop(h)) /\ Pop(h).bitmap = h.bitmap
           /\ Pop(h).slots = SubSeq(h.slots, 3, Len(h.slots))
           /\ Len(Pop(h).slots) <= Pop(h).free_count
<1>1. h \in HeapRecs /\ h.slots \in Seq(Nat) /\ h.free_count \in Int
  BY DEF BuddyOk, HeapRecs
<1>2. /\ SubSeq(h.slots, 3, Len(h.slots)) \in Seq(Nat) /\ Len(h.slots) \in Nat
      /\ Len(SubSeq(h.slots, 3, Len(h.slots))) + 1 <= Len(h.slots)
  BY <1>1, RestIs
<1>. DEFINE Q == SubSeq(h.slots, 3, Len(h.slots))
            t == IF Len(h.slots) = 1 THEN word0 ELSE h.tail
            n == h.free_count - 1
<1>3. Q \in Seq(Nat) /\ t \in {"null", "wild"} /\ n \in Int
  BY <1>1, <1>2 DEF HeapRecs
<1>4. Len(Q) \in Nat /\ Len(Q) <= n
  BY <1>1, <1>2
<1>5. Pop(h) = [h EXCEPT !.slots = Q, !.tail = t, !.free_count = n]
  BY DEF Pop
<1>. HIDE DEF Q, t, n
<1>6. /\ Pop(h) \in HeapRecs /\ Pop(h).slots = Q /\ Pop(h).bitmap = h.bitmap
      /\ Pop(h).free_lists = h.free_lists /\ Pop(h).free_bytes = h.free_bytes
      /\ Pop(h).free_count = n
  BY <1>1, <1>3, <1>5 DEF HeapRecs
<1>7. BuddyOk(Pop(h))
  BY <1>6, SameBuddy, Zenon
<1>. QED  BY <1>4, <1>6, <1>7 DEF Q

\* What push leaves.
LEMMA PushedIs ==
    ASSUME NEW h, BuddyOk(h), NEW ptr \in Nat, Len(h.slots) <= h.free_count
    PROVE  /\ BuddyOk(Push(h, ptr)) /\ Push(h, ptr).bitmap = h.bitmap
           /\ Push(h, ptr).slots = <<ptr>> \o h.slots
           /\ Len(Push(h, ptr).slots) <= Push(h, ptr).free_count
<1>1. h \in HeapRecs /\ h.slots \in Seq(Nat) /\ h.free_count \in Int
  BY DEF BuddyOk, HeapRecs
<1>. DEFINE Q == <<ptr>> \o h.slots
            n == h.free_count + 1
<1>2. Q \in Seq(Nat) /\ Len(Q) = Len(h.slots) + 1 /\ n \in Int /\ Len(h.slots) \in Nat
  BY <1>1, PushIs
<1>3. Push(h, ptr) = [h EXCEPT !.slots = Q, !.free_count = n]
  BY DEF Push
<1>4. Len(Q) <= n
  BY <1>1, <1>2
<1>. HIDE DEF Q, n
<1>5. /\ Push(h, ptr) \in HeapRecs /\ Push(h, ptr).slots = Q /\ Push(h, ptr).bitmap = h.bitmap
      /\ Push(h, ptr).free_lists = h.free_lists /\ Push(h, ptr).free_bytes = h.free_bytes
      /\ Push(h, ptr).free_count = n
  BY <1>1, <1>2, <1>3 DEF HeapRecs
<1>6. BuddyOk(Push(h, ptr))
  BY <1>5, SameBuddy, Zenon
<1>. QED  BY <1>4, <1>5, <1>6 DEF Q

\* What populate leaves of a heap whose class is empty.
LEMMA PopulateIs ==
    ASSUME NEW h, BuddyOk(h), IsRoom(h, 0), h.slots = <<>>, Len(h.slots) <= h.free_count,
           NEW H, NEW L, Apart(h.slots, h.bitmap, H, L)
    PROVE  /\ BuddyOk(Populate(h)) /\ Populate(h).slots # <<>>
           /\ Len(Populate(h).slots) <= Populate(h).free_count
           /\ Apart(Populate(h).slots, Populate(h).bitmap, H, L)
<1>. DEFINE g == AllocOrder(h, 0)
            page == Address(h, 0)
            T == [k \in 1 .. PAGE_SIZE |-> PAGE_SIZE * page + k - 1] \o <<>>
            n == h.free_count + PAGE_SIZE
<1>1. 0 \in Orders /\ 2^0 = 1 /\ PAGE_SIZE \in Nat /\ h.free_count \in Int
  BY Powers, HeapAssumption DEF BuddyOk, HeapRecs
<1>2. /\ BuddyOk(g) /\ SameSlots(g, h) /\ page \in Nat
      /\ PagesFrom(page, 0) \subseteq h.bitmap /\ g.bitmap = h.bitmap \ PagesFrom(page, 0)
  BY <1>1, AllocOrderIs
<1>3. PagesFrom(page, 0) = {page}
  <2>1. page .. page + 1 - 1 = {page}
    BY <1>2
  <2>. QED  BY <2>1, <1>1 DEF PagesFrom
<1>4. page \in h.bitmap /\ g.bitmap = h.bitmap \ {page}
  BY <1>2, <1>3
<1>5. g.slots = <<>> /\ g.free_count = h.free_count
  BY <1>2 DEF SameSlots
<1>6. /\ Apart(T, h.bitmap \ {page}, H, L) /\ T # <<>> /\ Len(T) = PAGE_SIZE /\ T \in Seq(Nat)
  <2>1. Apart(<<>>, h.bitmap, H, L) /\ <<>> = <<>>
    BY Zenon
  <2>. QED  BY <2>1, <1>4, PageCut, Zenon
<1>7. Populate(h) = [g EXCEPT !.slots = T, !.free_count = n]
  BY <1>5 DEF Populate
<1>8. n \in Int /\ PAGE_SIZE <= n
  <2>1. Len(h.slots) = 0
    OBVIOUS
  <2>. QED  BY <2>1, <1>1
<1>9. g \in HeapRecs
  BY <1>2 DEF BuddyOk
<1>. HIDE DEF g, T, n, page
<1>10. /\ Populate(h) \in HeapRecs /\ Populate(h).slots = T /\ Populate(h).bitmap = g.bitmap
       /\ Populate(h).free_lists = g.free_lists /\ Populate(h).free_bytes = g.free_bytes
       /\ Populate(h).free_count = n
  BY <1>6, <1>7, <1>8, <1>9 DEF HeapRecs
<1>11. BuddyOk(Populate(h))
  BY <1>2, <1>10, SameBuddy, Zenon
<1>. QED  BY <1>4, <1>6, <1>8, <1>10, <1>11

\* The allocation that on_alloc records.
NewAlloc(ptr, req) ==
    [ptr |-> ptr, size |-> req.size, align |-> req.align, intact |-> TRUE]

\* What on_alloc may be given to record.
Grantable(s, h, ptr, req) ==
    /\ StateOk(s) /\ BuddyOk(h) /\ Len(h.slots) <= h.free_count
    /\ ptr \in Nat /\ req \in [size : Nat \ {0}, align : Nat \ {0}]
    /\ NewAlloc(ptr, req) \notin s.held
    /\ Apart(h.slots, h.bitmap, s.held \cup {NewAlloc(ptr, req)}, s.lost)

\* Another allocation, another total.
LEMMA GrantedOk ==
    ASSUME NEW s, NEW h, NEW ptr, NEW req, Grantable(s, h, ptr, req)
    PROVE  /\ StateOk(Granted(s, h, ptr, req)) /\ NewAlloc(ptr, req) \in Allocs
           /\ Granted(s, h, ptr, req).held = s.held \cup {NewAlloc(ptr, req)}
<1>. DEFINE n == NewAlloc(ptr, req)
            H == s.held \cup {n}
            live == s.live + req.size
            g == Granted(s, h, ptr, req)
<1>0. /\ StateOk(s) /\ BuddyOk(h) /\ Len(h.slots) <= h.free_count
      /\ ptr \in Nat /\ req \in [size : Nat \ {0}, align : Nat \ {0}]
      /\ n \notin s.held /\ Apart(h.slots, h.bitmap, H, s.lost)
  BY DEF Grantable
<1>1. s \in States /\ s.live = ByteSum(s.held) /\ IsFiniteSet(s.held) /\ s.held \subseteq Allocs
  BY <1>0 DEF StateOk, Apart, Typed
<1>2. n \in Allocs /\ n.size = req.size /\ req.size \in Nat
  BY <1>0 DEF Allocs, NewAlloc
<1>3. H \subseteq Allocs /\ IsFiniteSet(H) /\ n \in H /\ H \ {n} = s.held
  BY <1>0, <1>1, <1>2, FS_AddElement
<1>4. ByteSum(H) = n.size + ByteSum(H \ {n}) /\ ByteSum(H) \in Nat /\ ByteSum(s.held) \in Nat
  BY <1>3, TotalStep, Zenon
<1>5. live = ByteSum(H) /\ live \in Nat
  <2>1. ByteSum(H) = n.size + ByteSum(s.held)
    BY <1>3, <1>4, Zenon
  <2>2. n.size = req.size /\ s.live = ByteSum(s.held) /\ req.size \in Nat
        /\ ByteSum(s.held) \in Nat
    BY <1>1, <1>2, <1>4, Zenon
  <2>. HIDE DEF H
  <2>. QED  BY <2>1, <2>2
<1>6. g = [s EXCEPT !.inner = h, !.live = live, !.held = H]
  BY DEF Granted, NewAlloc
<1>7. h \in HeapRecs
  BY <1>0 DEF BuddyOk
<1>. HIDE DEF H, live, g
<1>8. g \in States /\ g.inner = h /\ g.live = live /\ g.held = H /\ g.lost = s.lost
  BY <1>1, <1>3, <1>5, <1>6, <1>7 DEF States
<1>9. StateOk(g)
  BY <1>0, <1>5, <1>8 DEF StateOk
<1>. QED  BY <1>2, <1>8, <1>9 DEF g, H

\* A block that was taken and is refused goes back as it came.
LEMMA RefusedOk ==
    ASSUME NEW s, StateOk(s), NEW order \in Orders, IsRoom(s.inner, order)
    PROVE  LET g == Coalesced(AllocOrder(s.inner, order), Address(s.inner, order), order)
           IN  StateOk([s EXCEPT !.inner = g])
<1>. DEFINE h == AllocOrder(s.inner, order)
            page == Address(s.inner, order)
            D == PagesFrom(page, order)
            g == Coalesced(h, page, order)
            z == [s EXCEPT !.inner = g]
<1>1. /\ BuddyOk(s.inner) /\ Len(s.inner.slots) <= s.inner.free_count /\ s \in States
      /\ Apart(s.inner.slots, s.inner.bitmap, s.held, s.lost) /\ s.live = ByteSum(s.held)
      /\ s.inner.bitmap \subseteq Pages
  BY DEF StateOk, BuddyOk, HeapRecs
<1>2. /\ BuddyOk(h) /\ SameSlots(h, s.inner) /\ page \in Nat /\ Aligned(page, order) = page
      /\ D \subseteq s.inner.bitmap /\ h.bitmap = s.inner.bitmap \ D
  BY <1>1, AllocOrderIs, Zenon
<1>. HIDE DEF h, page
<1>3. D \subseteq Pages /\ D \cap h.bitmap = {} /\ h.bitmap \cup D = s.inner.bitmap
  BY <1>1, <1>2
<1>4. BuddyOk(g) /\ SameSlots(g, h) /\ g.bitmap = h.bitmap \cup D
  BY <1>2, <1>3, CoalescedIs, Zenon
<1>. HIDE DEF g, D
<1>5. /\ g.slots = s.inner.slots /\ g.free_count = s.inner.free_count
      /\ g.bitmap = s.inner.bitmap /\ g \in HeapRecs
  BY <1>2, <1>3, <1>4 DEF SameSlots, BuddyOk
<1>6. z \in States /\ z.inner = g /\ z.held = s.held /\ z.lost = s.lost /\ z.live = s.live
  BY <1>1, <1>5 DEF States
<1>. HIDE DEF z
<1>7. StateOk(z)
  BY <1>1, <1>4, <1>5, <1>6 DEF StateOk
<1>. QED  BY <1>7 DEF z, g, h, page

\* A block of the buddy allocator is granted, or refused if it would end past
\* the heap: only a size above the largest block does.
LEMMA BuddyAllocOk ==
    ASSUME NEW s, StateOk(s), NEW req \in Requests, ~IsSlab(req)
    PROVE  /\ StateOk(BuddyAlloc(s, req))
           /\ \/ BuddyAlloc(s, req).held = s.held
              \/ \E n \in Allocs : /\ n \notin s.held
                                   /\ BuddyAlloc(s, req).held = s.held \cup {n}
<1>. DEFINE m == Max({req.size, req.align})
            order == size_to_order(m)
            page == Address(s.inner, order)
            h == AllocOrder(s.inner, order)
            ptr == PAGE_SIZE * page
            n == NewAlloc(ptr, req)
            ends == PAGE_SIZE * page + req.size > PAGE_SIZE * NPages
<1>1. /\ req.size \in Nat \ {0} /\ req.align \in Nat \ {0} /\ req.size \in Nat /\ req.align \in Nat
      /\ req \in [size : Nat \ {0}, align : Nat \ {0}]
  BY HeapAssumption
<1>2. m \in Nat /\ req.size <= m
  BY <1>1, MaxIs
<1>3. order \in Orders
  BY <1>2, OrderIs
<1>4. CASE ~IsRoom(s.inner, order)
  BY <1>4 DEF BuddyAlloc
<1>5. CASE IsRoom(s.inner, order)
  <2>1. BuddyOk(s.inner) /\ s \in States
    BY DEF StateOk
  <2>2. /\ BuddyOk(h) /\ SameSlots(h, s.inner) /\ page \in Nat
        /\ Aligned(page, order) = page /\ PagesFrom(page, order) \subseteq s.inner.bitmap
        /\ h.bitmap = s.inner.bitmap \ PagesFrom(page, order)
    <3>. HIDE DEF order
    <3>. QED  BY <1>3, <1>5, <2>1, AllocOrderIs, Zenon
  <2>3. Len(s.inner.slots) <= s.inner.free_count /\ s.inner.bitmap \subseteq Pages
        /\ Apart(s.inner.slots, s.inner.bitmap, s.held, s.lost)
    BY DEF StateOk, Apart, Typed
  <2>4. CASE ends
    <3>1. ~(req.size <= PAGE_SIZE * 2^order)
      <4>1. PagesFrom(page, order) \subseteq Pages
        BY <2>2, <2>3
      <4>. HIDE DEF order, page
      <4>2. req.size <= PAGE_SIZE * 2^order =>
                PAGE_SIZE * page + req.size <= PAGE_SIZE * NPages
        BY <1>1, <1>3, <2>2, <4>1, BlockRoom
      <4>3. PAGE_SIZE * page \in Nat /\ PAGE_SIZE * NPages \in Nat
        <5>1. PAGE_SIZE \in Nat /\ NPages \in Nat /\ page \in Nat
          BY <2>2, HeapAssumption
        <5>. QED  BY <5>1, SMT
      <4>. QED  BY <1>1, <2>4, <4>2, <4>3
    <3>2. ~(req.size <= PAGE_SIZE * 2^(MAX_ORDER - 1))
      BY <1>1, <3>1, GivenHasRoom
    <3>3. /\ MAX_ORDER - 1 \in Orders /\ PAGE_SIZE * 2^(MAX_ORDER - 1) \in Nat
          /\ MAX_ORDER \in Nat
      BY Powers, RoomGrows
    <3>4. req.size > PAGE_SIZE * 2^(MAX_ORDER - 1) /\ m > PAGE_SIZE * 2^(MAX_ORDER - 1)
      BY <1>1, <1>2, <3>2, <3>3
    <3>5. size_to_order(req.size) = MAX_ORDER - 1
      BY <1>1, <3>4, OrderIs
    <3>6. order = MAX_ORDER - 1
      <4>. HIDE DEF m
      <4>. QED  BY <1>2, <3>4, OrderIs
    <3>7. BuddyAlloc(s, req) = [s EXCEPT !.inner = Coalesced(h, page, size_to_order(req.size))]
      BY <1>5, <2>4 DEF BuddyAlloc
    <3>. DEFINE z == [s EXCEPT !.inner = Coalesced(h, page, order)]
    <3>8. BuddyAlloc(s, req) = z
      BY <3>5, <3>6, <3>7
    <3>9. StateOk(z)
      <4>. HIDE DEF order
      <4>. QED  BY <1>3, <1>5, RefusedOk
    <3>10. z.held = s.held
      BY <2>1 DEF States
    <3>. HIDE DEF z
    <3>. QED  BY <3>8, <3>9, <3>10
  <2>5. CASE ~ends
    <3>1. BuddyAlloc(s, req) = Granted(s, h, ptr, req)
      BY <1>5, <2>5 DEF BuddyAlloc
    <3>. HIDE DEF order, m, page, h
    <3>2. ptr \in Nat
      <4>1. PAGE_SIZE \in Nat
        BY HeapAssumption
      <4>. QED  BY <2>2, <4>1, SMT
    <3>3. /\ n \in Allocs /\ n.ptr = PAGE_SIZE * page /\ n.size = req.size
          /\ n.align = req.align
      BY <1>1, <3>2 DEF Allocs, NewAlloc
    <3>4. Home(ptr) = page
      BY <2>2, HomeIs
    <3>. HIDE DEF n, ptr
    <3>5. Given(n) = order /\ ~IsSlab(n) /\ Asks(n)
      BY <3>3 DEF Given, IsSlab, Asks, order, m
    <3>6. n.ptr = ptr /\ n.ptr = PAGE_SIZE * Home(n.ptr) /\ Home(n.ptr) = page
      BY <3>3, <3>4 DEF ptr
    <3>7. PagesOf(n) = PagesFrom(page, order)
      BY <3>3, <3>5, <3>6, PagesOfIs
    <3>8. Aligned(Home(n.ptr), Given(n)) = Home(n.ptr) /\ PagesOf(n) \subseteq s.inner.bitmap
      BY <2>2, <3>5, <3>6, <3>7
    <3>9. Apart(s.inner.slots, s.inner.bitmap \ PagesOf(n), s.held \cup {n}, s.lost)
          /\ n \notin s.held
      <4>1. FreshBlock(n, s.inner.bitmap)
        BY <3>3, <3>5, <3>6, <3>8 DEF FreshBlock
      <4>. QED  BY <2>3, <4>1, BlockTaken, Zenon
    <3>10. h.slots = s.inner.slots /\ h.free_count = s.inner.free_count
           /\ h.bitmap = s.inner.bitmap \ PagesOf(n)
      BY <2>2, <3>7 DEF SameSlots
    <3>11. Apart(h.slots, h.bitmap, s.held \cup {n}, s.lost) /\ Len(h.slots) <= h.free_count
      BY <2>3, <3>9, <3>10
    <3>12. n = NewAlloc(ptr, req)
      BY DEF n
    <3>13. Grantable(s, h, ptr, req)
      BY <1>1, <2>2, <3>2, <3>9, <3>11, <3>12 DEF Grantable
    <3>14. /\ StateOk(Granted(s, h, ptr, req)) /\ NewAlloc(ptr, req) \in Allocs
           /\ Granted(s, h, ptr, req).held = s.held \cup {NewAlloc(ptr, req)}
      BY <3>13, GrantedOk
    <3>. QED  BY <3>1, <3>9, <3>12, <3>14
  <2>. QED  BY <2>4, <2>5
<1>. QED  BY <1>4, <1>5

\* A slot is granted from a heap that has one.
LEMMA SlotGranted ==
    ASSUME NEW s, StateOk(s), NEW h, BuddyOk(h), h.slots # <<>>,
           Len(h.slots) <= h.free_count, Apart(h.slots, h.bitmap, s.held, s.lost),
           NEW req \in Requests, IsSlab(req),
           word0 \in {"null", "wild"}
    PROVE  LET g == Granted(s, Pop(h), Head(h.slots), req)
           IN  StateOk(g) /\ \E n \in Allocs : n \notin s.held /\ g.held = s.held \cup {n}
<1>. DEFINE ptr == Head(h.slots)
            n == NewAlloc(ptr, req)
            p == Pop(h)
            g == Granted(s, p, ptr, req)
<1>0. req \in [size : Nat \ {0}, align : Nat \ {0}]
  BY HeapAssumption
<1>1. /\ BuddyOk(p) /\ p.bitmap = h.bitmap
      /\ p.slots = SubSeq(h.slots, 3, Len(h.slots)) /\ Len(p.slots) <= p.free_count
  BY PopIs, Zenon
<1>2. ptr \in Nat
  <2>1. h.slots \in Seq(Nat)
    BY DEF BuddyOk, HeapRecs
  <2>. QED  BY <2>1, RestIs
<1>. HIDE DEF p, ptr
<1>3. n \in Allocs /\ n.ptr = ptr /\ n.size = req.size /\ n.align = req.align
  BY <1>0, <1>2 DEF Allocs, NewAlloc
<1>. HIDE DEF n
<1>4. IsSlab(n)
  BY <1>3 DEF IsSlab
<1>5. Asks(n)
  BY <1>3 DEF Asks
<1>6. n.ptr = Head(h.slots)
  BY <1>3 DEF ptr
<1>7. Apart(SubSeq(h.slots, 3, Len(h.slots)), h.bitmap, s.held \cup {n}, s.lost)
      /\ n \notin s.held
  BY <1>3, <1>4, <1>5, <1>6, SlotTaken
<1>8. Apart(p.slots, p.bitmap, s.held \cup {n}, s.lost)
  BY <1>1, <1>7
<1>9. /\ NewAlloc(ptr, req) \notin s.held
      /\ Apart(p.slots, p.bitmap, s.held \cup {NewAlloc(ptr, req)}, s.lost)
  BY <1>7, <1>8 DEF n
<1>10. /\ StateOk(Granted(s, p, ptr, req)) /\ NewAlloc(ptr, req) \in Allocs
       /\ Granted(s, p, ptr, req).held = s.held \cup {NewAlloc(ptr, req)}
  <2>1. /\ StateOk(s) /\ BuddyOk(p) /\ Len(p.slots) <= p.free_count
        /\ ptr \in Nat /\ req \in [size : Nat \ {0}, align : Nat \ {0}]
        /\ NewAlloc(ptr, req) \notin s.held
        /\ Apart(p.slots, p.bitmap, s.held \cup {NewAlloc(ptr, req)}, s.lost)
    BY <1>0, <1>1, <1>2, <1>9
  <2>2. Grantable(s, p, ptr, req)
    BY <2>1 DEF Grantable
  <2>. QED  BY <2>2, GrantedOk
<1>. QED  BY <1>9, <1>10 DEF p, ptr

\* alloc keeps the invariant and adds at most one allocation.
LEMMA DoAllocOk ==
    ASSUME NEW s, StateOk(s), NEW req \in Requests, word0 \in {"null", "wild"}
    PROVE  /\ StateOk(DoAlloc(s, req))
           /\ \/ DoAlloc(s, req).held = s.held
              \/ \E n \in Allocs : n \notin s.held /\ DoAlloc(s, req).held = s.held \cup {n}
<1>1. CASE ~IsSlab(req)
  <2>1. DoAlloc(s, req) = BuddyAlloc(s, req)
    BY <1>1 DEF DoAlloc
  <2>. QED  BY <1>1, <2>1, BuddyAllocOk
<1>2. CASE IsSlab(req) /\ PopFaults(s.inner)
  <2>. DEFINE g == [s EXCEPT !.machine = "faulted"]
  <2>1. DoAlloc(s, req) = g
    BY <1>2 DEF DoAlloc
  <2>2. s \in States
    BY DEF StateOk
  <2>3. g \in States /\ g.inner = s.inner /\ g.held = s.held /\ g.lost = s.lost /\ g.live = s.live
    BY <2>2 DEF States
  <2>. HIDE DEF g
  <2>4. StateOk(g)
    BY <2>3 DEF StateOk
  <2>. QED  BY <2>1, <2>3, <2>4
<1>3. CASE IsSlab(req) /\ ~PopFaults(s.inner)
  <2>1. /\ BuddyOk(s.inner) /\ Len(s.inner.slots) <= s.inner.free_count
        /\ Apart(s.inner.slots, s.inner.bitmap, s.held, s.lost)
    BY DEF StateOk
  <2>2. CASE s.inner.slots # <<>>
    <3>1. DoAlloc(s, req) = Granted(s, Pop(s.inner), Head(s.inner.slots), req)
      BY <1>3, <2>2 DEF DoAlloc
    <3>. DEFINE g == Granted(s, Pop(s.inner), Head(s.inner.slots), req)
    <3>2. StateOk(g) /\ \E n \in Allocs : n \notin s.held /\ g.held = s.held \cup {n}
      BY <1>3, <2>1, <2>2, SlotGranted
    <3>. QED  BY <3>1, <3>2
  <2>3. CASE s.inner.slots = <<>> /\ ~IsRoom(s.inner, 0)
    <3>1. DoAlloc(s, req) = s
      BY <1>3, <2>3 DEF DoAlloc
    <3>. QED  BY <3>1
  <2>4. CASE s.inner.slots = <<>> /\ IsRoom(s.inner, 0)
    <3>. DEFINE h == Populate(s.inner)
                g == Granted(s, Pop(h), Head(h.slots), req)
    <3>1. DoAlloc(s, req) = g
      BY <1>3, <2>4 DEF DoAlloc
    <3>2. /\ BuddyOk(h) /\ h.slots # <<>> /\ Len(h.slots) <= h.free_count
          /\ Apart(h.slots, h.bitmap, s.held, s.lost)
      BY <2>1, <2>4, PopulateIs
    <3>. HIDE DEF h
    <3>3. StateOk(g) /\ \E n \in Allocs : n \notin s.held /\ g.held = s.held \cup {n}
      BY <1>3, <3>2, SlotGranted
    <3>. QED  BY <3>1, <3>3
  <2>. QED  BY <2>2, <2>3, <2>4
<1>. QED  BY <1>1, <1>2, <1>3

\* The ring of freed pointers.
LEMMA RememberedIs ==
    ASSUME NEW ring \in Seq(Nat), NEW ptr \in Nat
    PROVE  Remembered(ring, ptr) \in Seq(Nat)
<1>. DEFINE t == Append(ring, ptr)
            lo == IF Len(t) > DFREE_BUF_SIZE THEN 2 ELSE 1
<1>1. t \in Seq(Nat) /\ Len(t) \in Nat /\ lo \in {1, 2}
  OBVIOUS
<1>2. Remembered(ring, ptr) = SubSeq(t, lo, Len(t))
  BY DEF Remembered
<1>. HIDE DEF t, lo
<1>3. SubSeq(t, 1, Len(t)) \in Seq(Nat) /\ SubSeq(t, 2, Len(t)) \in Seq(Nat)
  BY <1>1
<1>. QED  BY <1>1, <1>2, <1>3

\* What the frees have in common: one allocation less, its bytes off the total.
LEMMA ReleasedIs ==
    ASSUME NEW s, StateOk(s), NEW b \in s.held
    PROVE  LET r == Released(s, b)
           IN  /\ r \in States /\ r.inner = s.inner /\ r.held = s.held \ {b}
               /\ r.live = ByteSum(r.held) /\ r.lost = s.lost
<1>. DEFINE r == Released(s, b)
            H == s.held \ {b}
            ring == Remembered(s.ring, b.ptr)
            live == IF s.live >= b.size THEN s.live - b.size ELSE 0
<1>1. s \in States /\ s.live = ByteSum(s.held) /\ IsFiniteSet(s.held) /\ s.held \subseteq Allocs
  BY DEF StateOk, Apart, Typed
<1>2. b \in Allocs /\ b.ptr \in Nat /\ s.ring \in Seq(Nat)
  BY <1>1 DEF Allocs, States
<1>3. ring \in Seq(Nat)
  BY <1>2, RememberedIs
<1>4. /\ ByteSum(s.held) = b.size + ByteSum(H) /\ ByteSum(s.held) \in Nat
      /\ ByteSum(H) \in Nat /\ b.size \in Nat
  BY <1>1, TotalStep, Zenon
<1>. DEFINE total == ByteSum(H)
<1>. HIDE DEF total
<1>5. s.live = b.size + total /\ total \in Nat /\ b.size \in Nat
  BY <1>1, <1>4 DEF total
<1>6. live = total /\ live \in Nat
  BY <1>5
<1>7. r = [s EXCEPT !.held = H, !.ring = ring, !.live = live]
  BY DEF Released
<1>8. H \subseteq Allocs
  BY <1>1
<1>. HIDE DEF H, ring, live, r
<1>9. r \in States /\ r.inner = s.inner /\ r.held = H /\ r.live = live /\ r.lost = s.lost
  BY <1>1, <1>3, <1>6, <1>7, <1>8 DEF States
<1>10. r.live = ByteSum(r.held)
  BY <1>6, <1>9 DEF total
<1>. QED  BY <1>9, <1>10 DEF r, H

\* dealloc keeps the invariant: no bitmap sends it to a list without the buddy.
LEMMA DoDeallocOk ==
    ASSUME NEW s, StateOk(s), NEW b \in s.held
    PROVE  StateOk(DoDealloc(s, b))
<1>. DEFINE r == Released(s, b)
            page == Home(b.ptr)
            order == size_to_order(b.size)
            given == Given(b)
<1>1. /\ BuddyOk(s.inner) /\ Len(s.inner.slots) <= s.inner.free_count /\ s \in States
      /\ Apart(s.inner.slots, s.inner.bitmap, s.held, s.lost) /\ s.live = ByteSum(s.held)
  BY DEF StateOk
<1>2. b \in Allocs /\ b.ptr \in Nat /\ b.size \in Nat /\ b.align \in Nat
  BY <1>1 DEF Apart, Typed, Allocs
<1>3. /\ r \in States /\ r.inner = s.inner /\ r.held = s.held \ {b}
      /\ r.live = ByteSum(r.held) /\ r.lost = s.lost
  BY ReleasedIs
<1>. HIDE DEF r
<1>4. CASE ~on_free(s, b)
  <2>. DEFINE g == [s EXCEPT !.machine = "halted"]
  <2>1. DoDealloc(s, b) = g
    BY <1>4 DEF DoDealloc
  <2>2. g \in States /\ g.inner = s.inner /\ g.held = s.held /\ g.lost = s.lost /\ g.live = s.live
    BY <1>1 DEF States
  <2>. HIDE DEF g
  <2>3. StateOk(g)
    BY <1>1, <2>2 DEF StateOk
  <2>. QED  BY <2>1, <2>3
<1>5. CASE on_free(s, b) /\ IsSlab(b)
  <2>. DEFINE h == Push(s.inner, b.ptr)
              g == [r EXCEPT !.inner = h]
  <2>1. DoDealloc(s, b) = g
    BY <1>3, <1>5 DEF DoDealloc, r
  <2>2. /\ BuddyOk(h) /\ h.bitmap = s.inner.bitmap /\ h.slots = <<b.ptr>> \o s.inner.slots
        /\ Len(h.slots) <= h.free_count
    BY <1>1, <1>2, PushedIs
  <2>. HIDE DEF h
  <2>3. Apart(<<b.ptr>> \o s.inner.slots, s.inner.bitmap, s.held \ {b}, s.lost)
    BY <1>1, <1>5, SlotBack
  <2>4. h \in HeapRecs
    BY <2>2 DEF BuddyOk
  <2>5. g \in States /\ g.inner = h /\ g.held = r.held /\ g.lost = r.lost /\ g.live = r.live
    BY <1>3, <2>4 DEF States
  <2>. HIDE DEF g
  <2>6. Apart(g.inner.slots, g.inner.bitmap, g.held, g.lost)
    BY <1>3, <2>2, <2>3, <2>5
  <2>7. StateOk(g)
    BY <1>3, <2>2, <2>5, <2>6 DEF StateOk
  <2>. QED  BY <2>1, <2>7
<1>6. CASE on_free(s, b) /\ ~IsSlab(b)
  <2>. DEFINE h == Coalesced(s.inner, page, order)
              D == PagesFrom(page, order)
              L == s.lost \cup (PagesOf(b) \ D)
              g == [r EXCEPT !.inner = h, !.lost = L]
  <2>1. /\ PagesOf(b) = PagesFrom(page, given) /\ given \in Orders /\ page \in Nat
        /\ OwnsBlock(b, s.inner.bitmap, s.lost)
    BY <1>1, <1>2, <1>6, PagesOfIs DEF Apart
  <2>2. order \in Orders /\ order <= given
    <3>. DEFINE m == Max({b.size, b.align})
    <3>1. m \in Nat /\ b.size <= m
      BY <1>2, MaxIs
    <3>2. size_to_order(b.size) \in Orders
          /\ \A x \in Nat : b.size <= x => size_to_order(b.size) <= size_to_order(x)
      BY <1>2, OrderIs, Zenon
    <3>. QED  BY <3>1, <3>2, Zenon DEF Given
  <2>3. Aligned(page, given) = page /\ PagesOf(b) \subseteq Pages \ (s.inner.bitmap \cup s.lost)
    BY <2>1 DEF OwnsBlock
  <2>. HIDE DEF page, order, given
  <2>4. Aligned(page, order) = page
    BY <2>1, <2>2, <2>3, UpperHalf
  <2>5. D \subseteq PagesOf(b)
    <3>1. PagesFrom(page, given) = Cell(page, given) /\ PagesFrom(page, order) = Cell(page, order)
      BY <2>1, <2>2, <2>3, <2>4, AlignedIs
    <3>2. page \in Cell(page, given) /\ page \in Cell(page, order)
      BY <2>1, <2>2, OwnCell
    <3>3. Cell(page, order) \subseteq Cell(page, given)
      BY <2>1, <2>2, <3>2, CellsNest
    <3>. QED  BY <2>1, <3>1, <3>3
  <2>6. D \subseteq Pages /\ D \cap s.inner.bitmap = {}
    BY <2>3, <2>5
  <2>7. /\ Listed(s.inner, page, order) /\ BuddyOk(h) /\ SameSlots(h, s.inner)
        /\ h.bitmap = s.inner.bitmap \cup D
    BY <1>1, <2>1, <2>2, <2>4, <2>6, CoalescedIs, Zenon
  <2>8. DoDealloc(s, b) = g
    <3>1. /\ PagesFrom(page, size_to_order(Max({b.size, b.align}))) = PagesOf(b)
          /\ b.ptr \div PAGE_SIZE = page
      BY <2>1 DEF given, Given, page, Home
    <3>. QED  BY <1>3, <1>6, <2>7, <3>1 DEF DoDealloc, r, order
  <2>9. Apart(s.inner.slots, s.inner.bitmap \cup D, s.held \ {b}, L)
    BY <1>1, <1>6, <2>5, BlockBack
  <2>10. L \subseteq Pages
    BY <2>9 DEF Apart, Typed
  <2>. HIDE DEF h, L, D
  <2>11. h \in HeapRecs
    BY <2>7 DEF BuddyOk
  <2>12. g \in States /\ g.inner = h /\ g.held = r.held /\ g.lost = L /\ g.live = r.live
    BY <1>3, <2>10, <2>11 DEF States
  <2>. HIDE DEF g
  <2>13. h.slots = s.inner.slots /\ h.free_count = s.inner.free_count
    BY <2>7 DEF SameSlots
  <2>14. Apart(g.inner.slots, g.inner.bitmap, g.held, g.lost)
    BY <1>3, <2>7, <2>9, <2>12, <2>13
  <2>15. StateOk(g)
    BY <1>1, <1>3, <2>7, <2>12, <2>13, <2>14 DEF StateOk
  <2>. QED  BY <2>8, <2>15
<1>. QED  BY <1>4, <1>5, <1>6

\* A canary written over changes nothing but the canary.
LEMMA TouchedOk ==
    ASSUME NEW s, StateOk(s), NEW b \in s.held
    PROVE  LET n == [b EXCEPT !.intact = FALSE]
               H == (s.held \ {b}) \cup {n}
           IN  StateOk([s EXCEPT !.held = H])
<1>. DEFINE n == [b EXCEPT !.intact = FALSE]
            H == (s.held \ {b}) \cup {n}
            g == [s EXCEPT !.held = H]
<1>1. /\ BuddyOk(s.inner) /\ Len(s.inner.slots) <= s.inner.free_count /\ s \in States
      /\ Apart(s.inner.slots, s.inner.bitmap, s.held, s.lost) /\ s.live = ByteSum(s.held)
  BY DEF StateOk
<1>2. /\ Apart(s.inner.slots, s.inner.bitmap, H, s.lost) /\ n \in Allocs
      /\ n.size = b.size /\ n \notin s.held \ {b}
  <2>1. Apart(s.inner.slots, s.inner.bitmap, s.held, s.lost)
    BY <1>1
  <2>. QED  BY <2>1, WrittenOver
<1>3. H \subseteq Allocs /\ IsFiniteSet(H) /\ s.held \subseteq Allocs /\ IsFiniteSet(s.held)
  BY <1>1, <1>2 DEF Apart, Typed
<1>. HIDE DEF n
<1>4. ByteSum(s.held) = b.size + ByteSum(s.held \ {b})
  BY <1>3, TotalStep, Zenon
<1>5. n \in H /\ H \ {n} = s.held \ {b}
  BY <1>2
<1>6. ByteSum(H) = n.size + ByteSum(H \ {n})
  BY <1>3, <1>5, TotalStep, Zenon
<1>7. ByteSum(H) = ByteSum(s.held)
  BY <1>2, <1>4, <1>5, <1>6, Zenon
<1>. HIDE DEF H
<1>8. g \in States /\ g.inner = s.inner /\ g.held = H /\ g.lost = s.lost /\ g.live = s.live
  BY <1>1, <1>3 DEF States
<1>. HIDE DEF g
<1>9. StateOk(g)
  BY <1>1, <1>2, <1>7, <1>8 DEF StateOk
<1>. QED  BY <1>9 DEF g, H, n

\* The copy of a realloc changes at most the new block's canary.
LEMMA CopiedOk ==
    ASSUME NEW s, StateOk(s), NEW b \in s.held, NEW new \in s.held, b # new
    PROVE  StateOk(Copied(s, b, new)) /\ b \in Copied(s, b, new).held
<1>1. CASE new.size > b.size \/ (new.size = b.size /\ b.intact)
  <2>1. Copied(s, b, new) = s
    BY <1>1 DEF Copied
  <2>. QED  BY <2>1
<1>2. CASE ~(new.size > b.size \/ (new.size = b.size /\ b.intact))
  <2>. DEFINE n == [new EXCEPT !.intact = FALSE]
              H == (s.held \ {new}) \cup {n}
              g == [s EXCEPT !.held = H]
  <2>1. Copied(s, b, new) = g
    BY <1>2 DEF Copied
  <2>2. StateOk(g)
    BY TouchedOk
  <2>3. s \in States
    BY DEF StateOk
  <2>. HIDE DEF H
  <2>4. g.held = H
    BY <2>3 DEF States
  <2>. HIDE DEF g
  <2>5. b \in H
    BY DEF H
  <2>. QED  BY <2>1, <2>2, <2>4, <2>5
<1>. QED  BY <1>1, <1>2

(***************************************************************************)
(* The heap keeps the invariant.                                           *)
(***************************************************************************)
\* The next state is the one a call returns.
LEMMA BecomesOk ==
    ASSUME NEW s, StateOk(s), Becomes(s), word0 \in {"null", "wild"}
    PROVE  HeapInv'
<1>1. s \in States
  BY DEF StateOk
<1>2. /\ inner' = s.inner /\ held' = s.held /\ Free_Ring' = s.ring /\ Live_Total' = s.live
      /\ lost' = s.lost /\ machine' = s.machine /\ word0' = word0
  BY DEF Becomes
<1>3. s = [inner |-> s.inner, held |-> s.held, ring |-> s.ring, live |-> s.live,
           lost |-> s.lost, machine |-> s.machine]
  BY <1>1 DEF States
<1>4. State' = s
  BY <1>2, <1>3 DEF State
<1>5. StateOk(State')
  BY <1>4, Zenon
<1>. QED  BY <1>2, <1>5 DEF HeapInv, StateOk, BuddyOk, Apart

\* The heap as init leaves it.
LEMMA HeapInitInv == HeapInit => HeapInv
<1>. SUFFICES ASSUME HeapInit PROVE HeapInv
  OBVIOUS
<1>1. inner = Fresh /\ held = {} /\ Free_Ring = <<>> /\ Live_Total = 0 /\ lost = {}
      /\ machine = "runs" /\ word0 \in {"null", "wild"}
  BY DEF HeapInit, Fresh
<1>2. Fresh.slots = <<>> /\ Fresh.free_count = 0 /\ Fresh.bitmap = Pages /\ BuddyOk(Fresh)
  BY FreshOk DEF Fresh
<1>3. /\ State.inner = Fresh /\ State.held = {} /\ State.live = 0 /\ State.lost = {}
      /\ State.ring = <<>> /\ State.machine = "runs"
  BY <1>1 DEF State
<1>4. State \in States
  <2>1. Fresh \in HeapRecs /\ <<>> \in Seq(Nat)
    BY <1>2 DEF BuddyOk
  <2>2. Free_Ring \in Seq(Nat) /\ inner \in HeapRecs /\ held \in SUBSET Allocs /\ Live_Total \in Nat
        /\ lost \in SUBSET Pages /\ machine \in {"runs", "halted", "faulted"}
    BY <1>1, <2>1
  <2>. QED  BY <2>2 DEF State, States
<1>5. Apart(<<>>, Pages, {}, {})
  <2>1. IsFiniteSet({}) /\ <<>> \in Seq(Nat) /\ Distinct(<<>>) /\ Range(<<>>) = {}
        /\ SlabPtrs({}) = {}
    BY FS_EmptySet DEF Distinct, Range, SlabPtrs
  <2>. QED  BY <2>1 DEF Apart, Typed
<1>6. Apart(State.inner.slots, State.inner.bitmap, State.held, State.lost)
  BY <1>2, <1>3, <1>5
<1>7. State.live = ByteSum(State.held)
  BY <1>3, TotalOfNone
<1>8. Len(State.inner.slots) <= State.inner.free_count
  BY <1>2, <1>3
<1>. QED  BY <1>1, <1>2, <1>3, <1>4, <1>6, <1>7, <1>8 DEF HeapInv, StateOk

\* Every call keeps it.
LEMMA HeapNextInv ==
    ASSUME HeapInv, [HeapNext]_heapVars
    PROVE  HeapInv'
<1>1. StateOk(State) /\ word0 \in {"null", "wild"} /\ State.held = held
  BY DEF HeapInv, State
<1>3. CASE alloc
  <2>1. PICK req \in Requests : Becomes(DoAlloc(State, req))
    BY <1>3 DEF alloc
  <2>2. StateOk(DoAlloc(State, req))
    BY <1>1, DoAllocOk
  <2>3. PICK s : s = DoAlloc(State, req)
    OBVIOUS
  <2>4. StateOk(s) /\ Becomes(s)
    BY <2>1, <2>2, <2>3, Zenon DEF Becomes
  <2>. QED  BY <1>1, <2>4, BecomesOk
<1>4. CASE dealloc
  <2>1. PICK b \in held : Becomes(DoDealloc(State, b))
    BY <1>4 DEF dealloc
  <2>2. StateOk(DoDealloc(State, b))
    BY <1>1, DoDeallocOk
  <2>3. PICK s : s = DoDealloc(State, b)
    OBVIOUS
  <2>4. StateOk(s) /\ Becomes(s)
    BY <2>1, <2>2, <2>3, Zenon DEF Becomes
  <2>. QED  BY <1>1, <2>4, BecomesOk
<1>5. CASE Fill
  <2>1. PICK b \in held : /\ held' = (held \ {b}) \cup {[b EXCEPT !.intact = FALSE]}
                          /\ UNCHANGED <<inner, Free_Ring, Live_Total, lost, machine, word0>>
    BY <1>5 DEF Fill
  <2>. DEFINE H == (held \ {b}) \cup {[b EXCEPT !.intact = FALSE]}
              g == [State EXCEPT !.held = H]
  <2>2. StateOk(g)
    BY <1>1, TouchedOk
  <2>3. g = [inner |-> inner, held |-> H, ring |-> Free_Ring, live |-> Live_Total,
             lost |-> lost, machine |-> machine]
    BY DEF State
  <2>. HIDE DEF H
  <2>4. /\ g.inner = inner /\ g.held = H /\ g.ring = Free_Ring /\ g.live = Live_Total
        /\ g.lost = lost /\ g.machine = machine
    BY <2>3
  <2>. HIDE DEF g
  <2>5. PICK s : s = g
    OBVIOUS
  <2>6. Becomes(s)
    BY <2>1, <2>4, <2>5 DEF Becomes, H
  <2>. QED  BY <1>1, <2>2, <2>5, <2>6, BecomesOk
<1>6. CASE realloc
  <2>1. PICK b \in held, req \in Requests :
            LET s == DoAlloc(State, req)
            IN  Becomes(IF s.held = held THEN s
                        ELSE DoDealloc(Copied(s, b, CHOOSE n \in s.held \ held : TRUE), b))
    BY <1>6 DEF realloc
  <2>. DEFINE s == DoAlloc(State, req)
              new == CHOOSE n \in s.held \ held : TRUE
              t == IF s.held = held THEN s ELSE DoDealloc(Copied(s, b, new), b)
  <2>2. /\ StateOk(s)
        /\ s.held = held \/ \E n \in Allocs : n \notin held /\ s.held = held \cup {n}
    BY <1>1, DoAllocOk
  <2>. HIDE DEF s
  <2>3. StateOk(t)
    <3>1. CASE s.held = held
      BY <2>2, <3>1
    <3>2. CASE s.held # held
      <4>1. new \in s.held \ held /\ b \in s.held
        BY <2>2, <3>2
      <4>. HIDE DEF new
      <4>2. new \in s.held /\ b # new
        BY <4>1
      <4>3. StateOk(Copied(s, b, new)) /\ b \in Copied(s, b, new).held
        BY <2>2, <4>1, <4>2, CopiedOk
      <4>4. StateOk(DoDealloc(Copied(s, b, new), b))
        BY <4>3, DoDeallocOk
      <4>. QED  BY <3>2, <4>4
    <3>. QED  BY <3>1, <3>2
  <2>4. Becomes(t)
    BY <2>1 DEF s
  <2>. HIDE DEF t
  <2>5. PICK u : u = t
    OBVIOUS
  <2>6. StateOk(u) /\ Becomes(u)
    BY <2>3, <2>4, <2>5, Zenon DEF Becomes
  <2>. QED  BY <1>1, <2>6, BecomesOk
<1>7. CASE UNCHANGED heapVars
  <2>1. inner' = inner /\ held' = held /\ Free_Ring' = Free_Ring /\ Live_Total' = Live_Total
        /\ lost' = lost /\ machine' = machine /\ word0' = word0
    BY <1>7 DEF heapVars
  <2>2. PICK s : s = State
    OBVIOUS
  <2>3. StateOk(s)
    BY <1>1, <2>2
  <2>4. Becomes(s)
    BY <2>1, <2>2 DEF Becomes, State
  <2>. QED  BY <1>1, <2>3, <2>4, BecomesOk
<1>. QED  BY <1>3, <1>4, <1>5, <1>6, <1>7 DEF HeapNext

\* The free blocks, as pairs and as lists.
LEMMA FreeBlocksAre ==
    ASSUME HeapInv
    PROVE  /\ \A o \in Orders : \A x \in FreeOf(inner)[o] :
                  /\ x \in Nat /\ x \in Pages /\ <<x, o>> \in FreeBlocks
                  /\ Aligned(x, o) = x /\ PagesFrom(x, o) = Cell(x, o)
           /\ \A f \in FreeBlocks : /\ f = <<f[1], f[2]>> /\ f[2] \in Orders
                                    /\ f[1] \in FreeOf(inner)[f[2]]
           /\ Blocks(FreeOf(inner), inner.bitmap) /\ inner.bitmap \subseteq Pages
<1>1. /\ BuddyOk(inner) /\ Blocks(FreeOf(inner), inner.bitmap) /\ inner.bitmap \subseteq Pages
      /\ Pages \subseteq Nat
  BY PagesFinite DEF HeapInv, StateOk, State, BuddyOk, HeapRecs
<1>2. \A o \in Orders : FreeOf(inner)[o] = Range(inner.free_lists[o])
  BY DEF FreeOf
<1>3. /\ FreeOf(inner) \in [Orders -> SUBSET Nat]
      /\ \A o \in Orders : \A x \in FreeOf(inner)[o] :
             Aligned(x, o) = x /\ Cell(x, o) \subseteq inner.bitmap
  BY <1>1 DEF Blocks
<1>4. ASSUME NEW o \in Orders, NEW x \in FreeOf(inner)[o]
      PROVE  /\ x \in Nat /\ x \in Pages /\ <<x, o>> \in FreeBlocks
             /\ Aligned(x, o) = x /\ PagesFrom(x, o) = Cell(x, o)
  <2>1. x \in Nat /\ Aligned(x, o) = x /\ Cell(x, o) \subseteq inner.bitmap
    BY <1>3
  <2>2. x \in Cell(x, o) /\ PagesFrom(x, o) = Cell(x, o)
    BY <2>1, OwnCell, AlignedIs
  <2>3. x \in Pages
    BY <1>1, <2>1, <2>2
  <2>4. <<x, o>> \in FreeBlocks
    BY <1>2, <2>3 DEF FreeBlocks
  <2>. QED  BY <2>1, <2>2, <2>3, <2>4
<1>5. ASSUME NEW f \in FreeBlocks
      PROVE  f = <<f[1], f[2]>> /\ f[2] \in Orders /\ f[1] \in FreeOf(inner)[f[2]]
  BY <1>2 DEF FreeBlocks
<1>. QED  BY <1>1, <1>4, <1>5

\* The invariant says what the free lists, the bitmap and the count promise.
LEMMA InvIsSound == HeapInv => BuddySound
<1>. SUFFICES ASSUME HeapInv PROVE BuddySound
  OBVIOUS
<1>. DEFINE G == FreeOf(inner)
            B == inner.bitmap
<1>1. /\ \A o \in Orders : \A x \in G[o] :
             /\ x \in Nat /\ x \in Pages /\ <<x, o>> \in FreeBlocks
             /\ Aligned(x, o) = x /\ PagesFrom(x, o) = Cell(x, o)
      /\ \A f \in FreeBlocks : f = <<f[1], f[2]>> /\ f[2] \in Orders /\ f[1] \in G[f[2]]
      /\ Blocks(G, B) /\ B \subseteq Pages
  BY FreeBlocksAre
<1>2. machine # "corrupt" /\ inner.free_bytes = Cardinality(B)
  BY DEF HeapInv, StateOk, State, States, BuddyOk
<1>. HIDE DEF G, B
<1>3. /\ B \subseteq Nat
      /\ \A o \in Orders : \A x \in G[o] : Cell(x, o) \subseteq B
      /\ \A q \in B : \E o \in Orders : \E x \in G[o] : q \in Cell(x, o)
      /\ \A o \in Orders : o < MAX_ORDER - 1 => \A x \in G[o] : Buddy(x, o) \notin G[o]
      /\ \A j, k \in Orders : \A x \in G[j], y \in G[k] :
             \A q \in Nat : q \in Cell(x, j) /\ q \in Cell(y, k) => j = k /\ x = y
  BY <1>1 DEF Blocks
<1>4. B = UNION {PagesFrom(f[1], f[2]) : f \in FreeBlocks}
  <2>1. ASSUME NEW f \in FreeBlocks PROVE PagesFrom(f[1], f[2]) \subseteq B
    BY <1>1, <1>3
  <2>2. ASSUME NEW q \in B PROVE \E f \in FreeBlocks : q \in PagesFrom(f[1], f[2])
    <3>0. PICK o \in Orders : \E x \in G[o] : q \in Cell(x, o)
      BY <1>3
    <3>1. PICK x \in G[o] : q \in Cell(x, o)
      BY <3>0
    <3>2. <<x, o>> \in FreeBlocks /\ PagesFrom(x, o) = Cell(x, o)
      BY <1>1
    <3>. DEFINE f == <<x, o>>
    <3>3. f[1] = x /\ f[2] = o
      OBVIOUS
    <3>4. f \in FreeBlocks /\ q \in PagesFrom(f[1], f[2])
      BY <3>1, <3>2, <3>3
    <3>. QED  BY <3>4
  <2>. QED  BY <2>1, <2>2
<1>5. ASSUME NEW f \in FreeBlocks
      PROVE  /\ Aligned(f[1], f[2]) = f[1]
             /\ f[2] < MAX_ORDER - 1 => <<Buddy(f[1], f[2]), f[2]>> \notin FreeBlocks
             /\ \A g \in FreeBlocks \ {f} :
                    PagesFrom(f[1], f[2]) \cap PagesFrom(g[1], g[2]) = {}
  <2>1. f[2] \in Orders /\ f[1] \in G[f[2]] /\ f = <<f[1], f[2]>>
    BY <1>1
  <2>2. Aligned(f[1], f[2]) = f[1] /\ PagesFrom(f[1], f[2]) = Cell(f[1], f[2])
    BY <1>1, <2>1
  <2>3. ASSUME f[2] < MAX_ORDER - 1, <<Buddy(f[1], f[2]), f[2]>> \in FreeBlocks PROVE FALSE
    <3>. DEFINE e == <<Buddy(f[1], f[2]), f[2]>>
    <3>1. e[1] = Buddy(f[1], f[2]) /\ e[2] = f[2]
      OBVIOUS
    <3>2. e[1] \in G[e[2]]
      BY <1>1, <2>3
    <3>. QED  BY <3>1, <3>2, <2>1, <2>3, <1>3
  <2>4. ASSUME NEW g \in FreeBlocks \ {f}, NEW q \in PagesFrom(f[1], f[2]),
               q \in PagesFrom(g[1], g[2])
        PROVE  FALSE
    <3>1. /\ g[2] \in Orders /\ g[1] \in G[g[2]] /\ g = <<g[1], g[2]>>
          /\ PagesFrom(g[1], g[2]) = Cell(g[1], g[2])
      BY <1>1
    <3>2. q \in Nat /\ q \in Cell(f[1], f[2]) /\ q \in Cell(g[1], g[2])
      BY <2>1, <2>2, <2>4, <3>1, <1>3
    <3>. DEFINE j == f[2]
                k == g[2]
                x == f[1]
                y == g[1]
    <3>. HIDE DEF j, k, x, y
    <3>3. /\ j \in Orders /\ k \in Orders /\ x \in G[j] /\ y \in G[k]
          /\ q \in Cell(x, j) /\ q \in Cell(y, k) /\ q \in Nat
      BY <2>1, <3>1, <3>2 DEF j, k, x, y
    <3>4. j = k /\ x = y
      BY <1>3, <3>3
    <3>. QED  BY <3>4, <3>1, <2>1, <2>4 DEF j, k, x, y
  <2>. QED  BY <2>2, <2>3, <2>4
<1>. QED  BY <1>2, <1>4, <1>5 DEF BuddySound, B

\* The audit's total is the sum of the sizes.
LEMMA InvIsAudited == HeapInv => LiveTotalAgrees
<1>. SUFFICES ASSUME HeapInv PROVE LiveTotalAgrees
  OBVIOUS
<1>1. Live_Total = ByteSum(held) /\ IsFiniteSet(held) /\ held \subseteq Allocs
  BY DEF HeapInv, StateOk, State, Apart, Typed
<1>2. FoldSet(LAMBDA b, n : b.size + n, 0, held) = ByteSum(held)
  BY <1>1, FoldIsTotal, Zenon
<1>. QED  BY <1>1, <1>2, Zenon DEF LiveTotalAgrees

\* A list without repetitions has as many elements as places.
LEMMA DistinctSize ==
    ASSUME NEW S, NEW s \in Seq(S), Distinct(s)
    PROVE  Cardinality(Range(s)) = Len(s)
<1>. DEFINE n == Len(s)
            f == [i \in 1 .. n |-> s[i]]
<1>1. n \in Nat /\ DOMAIN s = 1 .. n
  OBVIOUS
<1>2. IsFiniteSet(1 .. n) /\ Cardinality(1 .. n) = n
  <2>1. Cardinality(1 .. n) = IF 1 > n THEN 0 ELSE n - 1 + 1
    BY <1>1, FS_Interval
  <2>2. IsFiniteSet(1 .. n)
    BY <1>1, FS_Interval
  <2>. QED  BY <1>1, <2>1, <2>2
<1>. HIDE DEF n
<1>3. Range(s) = {s[i] : i \in 1 .. n}
  BY <1>1 DEF Range
<1>4. \A i, j \in 1 .. n : s[i] = s[j] => i = j
  BY <1>1 DEF Distinct
<1>5. f \in Bijection(1 .. n, Range(s))
  <2>1. f \in [1 .. n -> Range(s)] /\ \A i \in 1 .. n : f[i] = s[i]
    BY <1>3
  <2>. HIDE DEF f
  <2>2. f \in Injection(1 .. n, Range(s))
    BY <2>1, <1>4 DEF Injection, IsInjective
  <2>3. f \in Surjection(1 .. n, Range(s))
    BY <2>1, <1>3 DEF Surjection
  <2>. QED  BY <2>2, <2>3 DEF Bijection
<1>6. Cardinality(1 .. n) = Cardinality(Range(s))
  <2>1. ExistsBijection(1 .. n, Range(s))
    BY <1>5 DEF ExistsBijection
  <2>. QED  BY <1>2, <2>1, FS_Bijection, Zenon
<1>. QED  BY <1>2, <1>6, Zenon DEF n

\* A block has room for a layout that was asked for.
LEMMA AskedFits ==
    ASSUME RequestsFit, NEW b \in Allocs, Asks(b)
    PROVE  Fits(b)
<1>1. b.size \in Nat /\ b.align \in Nat /\ b.size <= PAGE_SIZE * 2^(MAX_ORDER - 1)
  BY DEF Allocs, Asks, RequestsFit
<1>. QED  BY <1>1, GivenHasRoom DEF Fits, Given

\* Where an allocation's bytes lie: those of a slot in its page, those of a
\* block in the block's pages.
LEMMA BytesLie ==
    ASSUME NEW b \in Allocs, Fits(b)
    PROVE  /\ IsSlab(b) => b.size = 1
           /\ ~IsSlab(b) /\ b.ptr = PAGE_SIZE * Home(b.ptr) =>
                 /\ b.ptr + b.size <= PAGE_SIZE * (Home(b.ptr) + 2^Given(b))
                 /\ \A p \in Nat : Home(p) < Home(b.ptr) => p + 1 <= b.ptr
                 /\ \A p \in Nat : Home(b.ptr) + 2^Given(b) <= Home(p) =>
                        b.ptr + b.size <= p
<1>. DEFINE k == Home(b.ptr)
            d == 2^Given(b)
<1>1. b.ptr \in Nat /\ b.size \in Nat /\ k \in Nat /\ d \in Nat \ {0} /\ PAGE_SIZE \in Nat
      /\ b.size <= PAGE_SIZE * d
  <2>1. Given(b) \in Orders
    BY PagesOfIs
  <2>. QED  BY <2>1, PagesOfIs, Powers, HeapAssumption DEF Allocs, Fits
<1>2. IsSlab(b) => b.size = 1
  BY SlabIs
<1>. HIDE DEF k, d
<1>3. /\ PAGE_SIZE * (k + d) = PAGE_SIZE * k + PAGE_SIZE * d /\ PAGE_SIZE * k \in Nat
      /\ PAGE_SIZE * d \in Nat
  BY <1>1, SMT
<1>4. ASSUME b.ptr = PAGE_SIZE * k
      PROVE  /\ b.ptr + b.size <= PAGE_SIZE * (k + d)
             /\ \A p \in Nat : Home(p) < k => p + 1 <= b.ptr
             /\ \A p \in Nat : k + d <= Home(p) => b.ptr + b.size <= p
  <2>1. b.ptr + b.size <= PAGE_SIZE * (k + d)
    BY <1>1, <1>3, <1>4
  <2>2. ASSUME NEW p \in Nat, Home(p) < k PROVE p + 1 <= b.ptr
    BY <1>1, <1>4, <2>2, BytesOfPage
  <2>3. ASSUME NEW p \in Nat, k + d <= Home(p) PROVE b.ptr + b.size <= p
    <3>. DEFINE h == Home(p)
    <3>1. h \in Nat /\ PAGE_SIZE * h \in Nat /\ PAGE_SIZE * h <= p
      BY HomeIs
    <3>. HIDE DEF h
    <3>2. k + d <= h
      BY <2>3 DEF h
    <3>3. PAGE_SIZE * (k + d) <= PAGE_SIZE * h
      BY <1>1, <3>1, <3>2, SMT
    <3>. QED  BY <1>1, <1>3, <2>1, <3>1, <3>3
  <2>. QED  BY <2>1, <2>2, <2>3
<1>. QED  BY <1>2, <1>4 DEF k, d

\* A slot and a block, and two blocks, do not overlap.
LEMMA NoOverlap ==
    ASSUME NEW b \in Allocs, NEW c \in Allocs, Fits(b), Fits(c), ~IsSlab(b),
           b.ptr = PAGE_SIZE * Home(b.ptr), Home(c.ptr) \notin PagesOf(b),
           \/ IsSlab(c)
           \/ c.ptr = PAGE_SIZE * Home(c.ptr) /\ Home(b.ptr) \notin PagesOf(c)
    PROVE  b.ptr + b.size <= c.ptr \/ c.ptr + c.size <= b.ptr
<1>1. /\ PagesOf(b) = PagesFrom(Home(b.ptr), Given(b)) /\ Home(b.ptr) \in Nat
      /\ PagesOf(c) = PagesFrom(Home(c.ptr), Given(c)) /\ Home(c.ptr) \in Nat
      /\ 2^Given(b) \in Nat \ {0} /\ 2^Given(c) \in Nat \ {0}
      /\ b.ptr \in Nat /\ c.ptr \in Nat /\ b.size \in Nat /\ c.size \in Nat
  <2>1. Given(b) \in Orders /\ Given(c) \in Orders
    BY PagesOfIs
  <2>. QED  BY <2>1, PagesOfIs, Powers DEF Allocs
<1>. DEFINE j == Home(b.ptr)
            k == Home(c.ptr)
            d == 2^Given(b)
            e == 2^Given(c)
<1>2. /\ \A p \in Nat : Home(p) < j => p + 1 <= b.ptr
      /\ \A p \in Nat : j + d <= Home(p) => b.ptr + b.size <= p
  BY BytesLie
<1>3. k < j \/ j + d <= k
  <2>1. k \notin j .. j + d - 1
    BY <1>1 DEF PagesFrom
  <2>. HIDE DEF j, k, d
  <2>2. j \in Nat /\ k \in Nat /\ d \in Nat
    BY <1>1 DEF j, k, d
  <2>. QED  BY <2>1, <2>2
<1>4. CASE j + d <= k
  BY <1>1, <1>2, <1>4
<1>5. CASE k < j /\ IsSlab(c)
  <2>1. c.ptr + 1 <= b.ptr /\ c.size = 1
    BY <1>1, <1>2, <1>5, SlabIs
  <2>. QED  BY <2>1, <1>1
<1>6. CASE k < j /\ ~IsSlab(c)
  <2>1. \A p \in Nat : k + e <= Home(p) => c.ptr + c.size <= p
    BY <1>6, BytesLie
  <2>2. j \notin k .. k + e - 1
    BY <1>1, <1>6 DEF PagesFrom
  <2>3. k + e <= j
    <3>. HIDE DEF j, k, e
    <3>1. j \in Nat /\ k \in Nat /\ e \in Nat
      BY <1>1 DEF j, k, e
    <3>. QED  BY <2>2, <3>1, <1>6
  <2>. QED  BY <1>1, <2>1, <2>3
<1>. QED  BY <1>3, <1>4, <1>5, <1>6

\* The invariant keeps what is held apart from all else.
LEMMA InvIsApart == RequestsFit /\ HeapInv => HeldApart
<1>. SUFFICES ASSUME RequestsFit, HeapInv PROVE HeldApart
  OBVIOUS
<1>. DEFINE Q == inner.slots
            B == inner.bitmap
<1>1. Apart(Q, B, held, lost) /\ Len(Q) <= inner.free_count
  BY DEF HeapInv, StateOk, State
<1>. HIDE DEF Q, B
<1>2. /\ Q \in Seq(Nat) /\ Distinct(Q) /\ B \subseteq Pages /\ lost \subseteq Pages
      /\ B \cap lost = {} /\ held \subseteq Allocs
      /\ \A b \in held : Asks(b) /\ (~IsSlab(b) => OwnsBlock(b, B, lost))
      /\ \A b, c \in held : b # c =>
           b.ptr # c.ptr /\ (~IsSlab(b) /\ ~IsSlab(c) => PagesOf(b) \cap PagesOf(c) = {})
      /\ Range(Q) \cap SlabPtrs(held) = {}
      /\ \A p \in Range(Q) \cup SlabPtrs(held) : OwnsSlot(p, B, held, lost)
  BY <1>1 DEF Apart, Typed
<1>fit. \A b \in held : Fits(b)
  BY <1>2, AskedFits
<1>3. \A b \in held : IsSlab(b) => OwnsSlot(b.ptr, B, held, lost)
  BY <1>2, SlabPtrsAre
<1>4. ASSUME NEW b \in held PROVE b.ptr >= 0 /\ b.ptr + b.size <= PAGE_SIZE * NPages
  <2>1. b.ptr \in Nat /\ b.size \in Nat /\ Home(b.ptr) \in Nat /\ Given(b) \in Orders
        /\ PagesOf(b) = PagesFrom(Home(b.ptr), Given(b)) /\ b \in Allocs
    BY <1>2, PagesOfIs DEF Allocs
  <2>2. CASE IsSlab(b)
    <3>1. Home(b.ptr) \in Pages
      BY <1>3, <2>2 DEF OwnsSlot
    <3>2. b.ptr < PAGE_SIZE * NPages /\ b.size = 1
      BY <2>1, <2>2, <3>1, HomeInHeap, SlabIs
    <3>3. PAGE_SIZE * NPages \in Nat
      BY HeapAssumption, SMT
    <3>. QED  BY <2>1, <3>2, <3>3
  <2>3. CASE ~IsSlab(b)
    <3>1. /\ PagesFrom(Home(b.ptr), Given(b)) \subseteq Pages
          /\ b.ptr = PAGE_SIZE * Home(b.ptr) /\ b.size <= PAGE_SIZE * 2^Given(b)
      BY <1>2, <1>fit, <2>1, <2>3 DEF OwnsBlock, Fits
    <3>2. PAGE_SIZE * Home(b.ptr) + b.size <= PAGE_SIZE * NPages
      BY <2>1, <3>1, BlockRoom
    <3>3. b.ptr + b.size <= PAGE_SIZE * NPages
      BY <3>1, <3>2, Zenon
    <3>. QED  BY <2>1, <3>3
  <2>. QED  BY <2>2, <2>3
<1>5. ASSUME NEW b \in held, NEW c \in held, b # c
      PROVE  b.ptr + b.size <= c.ptr \/ c.ptr + c.size <= b.ptr
  <2>1. /\ b \in Allocs /\ c \in Allocs /\ Fits(b) /\ Fits(c) /\ b.ptr # c.ptr
        /\ b.ptr \in Nat /\ c.ptr \in Nat /\ b.size \in Nat /\ c.size \in Nat
        /\ Home(b.ptr) \in PagesOf(b) /\ Home(c.ptr) \in PagesOf(c)
    BY <1>2, <1>5, <1>fit, PagesOfIs DEF Allocs
  <2>2. CASE IsSlab(b) /\ IsSlab(c)
    <3>1. b.size = 1 /\ c.size = 1
      BY <2>1, <2>2, SlabIs
    <3>. QED  BY <2>1, <3>1
  <2>3. CASE ~IsSlab(b) /\ IsSlab(c)
    <3>1. b.ptr = PAGE_SIZE * Home(b.ptr) /\ Home(c.ptr) \notin PagesOf(b)
      BY <1>2, <1>3, <2>3 DEF OwnsBlock, OwnsSlot
    <3>. QED  BY <2>1, <2>3, <3>1, NoOverlap
  <2>4. CASE IsSlab(b) /\ ~IsSlab(c)
    <3>1. c.ptr = PAGE_SIZE * Home(c.ptr) /\ Home(b.ptr) \notin PagesOf(c)
      BY <1>2, <1>3, <2>4 DEF OwnsBlock, OwnsSlot
    <3>2. c.ptr + c.size <= b.ptr \/ b.ptr + b.size <= c.ptr
      BY <2>1, <2>4, <3>1, NoOverlap
    <3>. QED  BY <3>2
  <2>5. CASE ~IsSlab(b) /\ ~IsSlab(c)
    <3>1. /\ b.ptr = PAGE_SIZE * Home(b.ptr) /\ c.ptr = PAGE_SIZE * Home(c.ptr)
          /\ PagesOf(b) \cap PagesOf(c) = {}
      BY <1>2, <1>5, <2>5 DEF OwnsBlock
    <3>2. Home(c.ptr) \notin PagesOf(b) /\ Home(b.ptr) \notin PagesOf(c)
      BY <2>1, <3>1
    <3>. QED  BY <2>1, <2>5, <3>1, <3>2, NoOverlap
  <2>. QED  BY <2>2, <2>3, <2>4, <2>5
<1>6. SlabSlots = Range(Q) \cup SlabPtrs(held)
  BY DEF SlabSlots, SlabPtrs, Q
<1>7. \A ptr \in SlabSlots : ptr \div PAGE_SIZE \notin B \cup HeldPages \cup lost
  <2>. SUFFICES ASSUME NEW ptr \in SlabSlots
                PROVE  ptr \div PAGE_SIZE \notin B \cup HeldPages \cup lost
    OBVIOUS
  <2>1. OwnsSlot(ptr, B, held, lost)
    BY <1>2, <1>6
  <2>2. Home(ptr) \notin B \cup lost /\ \A b \in held : ~IsSlab(b) => Home(ptr) \notin PagesOf(b)
    BY <2>1 DEF OwnsSlot
  <2>3. Home(ptr) \notin HeldPages
    BY <2>2 DEF HeldPages
  <2>. QED  BY <2>2, <2>3 DEF Home
<1>8. HeldPages \cap (B \cup lost) = {}
  BY <1>2 DEF HeldPages, OwnsBlock
<1>9. Cardinality(Range(Q)) = Len(Q)
  BY <1>2, DistinctSize
<1>10. Range(Q) \cap {b.ptr : b \in {c \in held : IsSlab(c)}} = {}
  BY <1>2 DEF SlabPtrs
<1>. QED  BY <1>1, <1>2, <1>4, <1>5, <1>7, <1>8, <1>9, <1>10 DEF HeldApart, Q, B

(***************************************************************************)
(* The theorems.                                                           *)
(***************************************************************************)
\* Whatever is asked for and freed in whatever order, the heap keeps its
\* invariant.
THEOREM HeapKeepsInv == HeapSpec => []HeapInv
<1>1. HeapInit => HeapInv
  BY HeapInitInv
<1>2. HeapInv /\ [HeapNext]_heapVars => HeapInv'
  BY HeapNextInv
<1>. QED  BY <1>1, <1>2, PTL DEF HeapSpec

\* alloc_order and free_coalesce keep the free lists, the bitmap and the count
\* in step: free_remove is never sent to a list that has not the buddy.
THEOREM BuddyStaysSound == HeapSpec => []BuddySound
  BY HeapKeepsInv, InvIsSound, PTL

\* No two allocations that are alive share a byte, and none shares a page with
\* what the allocators can still give away, as long as no request is larger
\* than the largest block.
THEOREM HeldStayApart == RequestsFit => (HeapSpec => []HeldApart)
<1>. SUFFICES ASSUME RequestsFit PROVE HeapSpec => []HeldApart
  OBVIOUS
<1>1. HeapInv => HeldApart
  BY InvIsApart
<1>. QED  BY <1>1, HeapKeepsInv, PTL

\* The audit's live bytes are at all times those of the allocations alive.
THEOREM AuditStaysExact == HeapSpec => []LiveTotalAgrees
  BY HeapKeepsInv, InvIsAudited, PTL
====
