---- MODULE UserMemory ----
(***************************************************************************)
(* User memory as src/kernel/src/mm offers it: the areas of a process      *)
(* (AddressSpace of vma.rs: mmap, munmap, sbrk, demand paging), the faults *)
(* and the old allocation calls of user.rs, and the page tables that fork  *)
(* and exit copy and drop (clone_user_p4, free_user_p4, handle_cow_fault   *)
(* of vmm.rs) with the counters of frame.rs.                               *)
(*                                                                         *)
(* The tables are seen from the root down.  Entry 0 of a P4 names one     *)
(* tree for every process (new_user_p4 and clone_user_p4 copy the entry);  *)
(* its first pages are the identity map, 2 MB pages of the kernel's.       *)
(* Entry 256 of a process that was started names the same tree, as boot    *)
(* left it; that of a clone names a copy of its parent's.  The last entry  *)
(* below 256, where the stack is, gets its table from the first mapping,   *)
(* and a clone shares it.  The entries from 257 on, reached by fixed       *)
(* hints, are a process's own.  Pages and sizes count in PAGE_SIZE.        *)
(*                                                                         *)
(* A call runs with interrupts off and is one step.  One that finds too    *)
(* few frames panics.  One that drops the last reference to a frame calls  *)
(* mm_free_phys with MM_LOCK held and waits for it for ever.  One that     *)
(* takes a 2 MB page or a freed table for a table goes wild, and so does   *)
(* one that takes from the kernel the pages at which it reaches Frames:    *)
(* what follows is not modelled.  Frames are those no stack of the kernel  *)
(* is mapped over (AddressSpaces); the frames of tables are not counted,   *)
(* and which free frame mm_alloc takes is left open (Pmm).  External: the  *)
(* caller that forks copies the AddressSpace, as the head of user.rs says, *)
(* keeps its heap above its start, and forks less than 65000 times.        *)
(***************************************************************************)
EXTENDS Integers, Sequences, FiniteSets, FiniteSetsExt, SequencesExt

CONSTANTS
    Procs,       \* the processes ever made, 1 .. n; none is used twice
    Frames,      \* the frames
    Blocks,      \* bound: which of them a fork may find behind 2 MB pages
    NoFrame,     \* no frame
    HeapBases,   \* USER_HEAP_BASE and its random offsets
    Code,        \* the pages of the program
    LegacyTop,   \* LEGACY_ALLOC_TOP
    IdentityEnd, \* the end of the identity map
    PoolPages,   \* the pages at which the kernel reaches Frames
    StackBase,   \* the guard page of the stack: the first under its entry
    StackTop,    \* USER_STACK_TOP
    OwnEnd,      \* bound: the end of the pages under the entries from 257 on
    Hints,       \* bound: the pages callers name, and where searches start
    MAX_VMAS,    \* areas of a process; 128 in the code
    MaxSize,     \* bound: pages per call
    MaxCalls,    \* bound: calls that map or unmap
    Values       \* what a page holds; 0 is a zeroed page

ASSUME UserMemoryAssumption ==
    /\ Procs \subseteq Nat \ {0} /\ IsFiniteSet(Procs)
    /\ NoFrame \notin Frames
    /\ Blocks \subseteq SUBSET Frames
    /\ {LegacyTop, StackBase, StackTop, OwnEnd, MAX_VMAS} \cup HeapBases \subseteq Nat \ {0}
    /\ IdentityEnd \in 0 .. StackBase /\ PoolPages \subseteq 0 .. IdentityEnd - 1
    /\ MAX_VMAS >= 2
    /\ \A h \in HeapBases : h < LegacyTop
    /\ Code \subseteq 0 .. StackBase - 1
    /\ LegacyTop <= StackBase /\ StackBase + 1 < StackTop
    /\ StackTop + StackBase <= OwnEnd
    /\ Hints \subseteq Nat /\ {MaxSize, MaxCalls} \subseteq Nat
    /\ 0 \in Values /\ NoFrame \notin Values

KernelPages == 0 .. StackBase - 1
StackPages == StackBase .. StackTop - 1
\* The pages under entry 256 come in the order of those under entry 0.
OwnBase == StackTop + StackBase
AliasPages == StackTop .. OwnBase - 1
OwnPages == OwnBase .. OwnEnd - 1
Pages == 0 .. OwnEnd - 1

VARIABLES
    live,         \* the processes there are
    areas,        \* vmas of each, in order of base
    heap_start, heap_end,
    cloned,       \* the processes whose entry 256 names a copy
    stack_entry,  \* whose table the P4's entry for the stack names, or 0
    pte,          \* leaf of <<owner of the table, page>>; 0 owns the kernel's
    used,         \* FRAME_BM: the frames in use
    refs,         \* FRAME_REFS
    clones,       \* of refs, what forks counted for the identity map
    content,      \* what each frame holds; 0 while it is free
    machine,      \* "runs", "panicked", "hung" on MM_LOCK, or "wild"
    calls         \* how many calls mapped or unmapped

spaces == <<live, areas, heap_start, heap_end>>
counters == <<used, refs, clones>>
tables == <<cloned, stack_entry, pte, counters, content>>
vars == <<spaces, tables, machine, calls>>

-----------------------------------------------------------------------------
\* Areas (vma.rs)

End(a) == a.base + a.size

Covers(a, v) == a.base <= v /\ v < End(a)

overlaps(a, base, size) == a.base < base + size /\ base < End(a)

has_overlap(p, base, size) == \E i \in DOMAIN areas[p] : overlaps(areas[p][i], base, size)

\* find_vma: the first area of as that covers v; 0 for none.
find_vma(as, v) ==
    LET found == {i \in DOMAIN as : Covers(as[i], v)} IN
    IF found = {} THEN 0 ELSE Min(found)

\* add_vma keeps the order of the bases; with MAX_VMAS areas it adds none.
add_vma(as, a) ==
    IF Len(as) >= MAX_VMAS THEN as
    ELSE InsertAt(as, 1 + Cardinality({i \in DOMAIN as : as[i].base <= a.base}), a)

remove_vma(as, base) ==
    LET found == {i \in DOMAIN as : as[i].base = base} IN
    IF found = {} THEN as ELSE RemoveAt(as, Min(found))

\* find_free_range: the first range from start on that no area overlaps.
find_free_range(p, size, start) ==
    LET fits == {v \in start .. StackTop - size : ~has_overlap(p, v, size)} IN
    IF fits = {} THEN 0 ELSE Min(fits)

Area(base, size, typ, demand, mapped) ==
    [base |-> base, size |-> size, typ |-> typ, demand |-> demand, mapped |-> mapped]

\* init_aslr: the guard page and the stack above it.
StackAreas ==
    << Area(StackBase, 1, "GuardPage", FALSE, 0),
       Area(StackBase + 1, StackTop - StackBase - 1, "Stack", TRUE, 0) >>

-----------------------------------------------------------------------------
\* Page tables and frames

Absent == [frame |-> NoFrame, w |-> FALSE, cow |-> FALSE]

\* A page of the identity map: present, and not the user's.
Identity == [frame |-> NoFrame, w |-> TRUE, cow |-> FALSE]

FreeFrames == Frames \ used

\* The table in which the walk of p finds v, and where in it.
Owner(p, v) ==
    IF v \in StackPages THEN stack_entry[p]
    ELSE IF v \in OwnPages \/ (v \in AliasPages /\ p \in cloned) THEN p ELSE 0

Home(v) == IF v \in AliasPages THEN v - StackTop ELSE v

Place(p, v) == <<Owner(p, v), Home(v)>>

Pte(p, v) == pte[Place(p, v)]

\* v is a page of the user's.
Present(p, v) == Pte(p, v).frame # NoFrame

\* goc: an empty entry for the stack gets a table of p.
Reached(p, v) ==
    IF v \in StackPages /\ stack_entry[p] = 0 THEN <<p, v>> ELSE Place(p, v)

\* Frames of g, references and all, go from the pool to the places that g maps.
Take(g) ==
    /\ used' = used \cup Range(g)
    /\ refs' = [f \in Frames |-> IF f \in Range(g) THEN 1 ELSE refs[f]]
    /\ clones' = [f \in Frames |-> IF f \in Range(g) THEN 0 ELSE clones[f]]

\* Zeroed frames under the pages V of p, whatever was mapped there: vmap.
vmap(p, V) ==
    /\ \A v \in V : Home(v) \notin PoolPages
    /\ \E fresh \in [{Reached(p, v) : v \in V} -> FreeFrames] :
           /\ IsInjective(fresh)
           /\ pte' = [x \in DOMAIN pte |->
                  IF x \in DOMAIN fresh
                  THEN [frame |-> fresh[x], w |-> TRUE, cow |-> FALSE] ELSE pte[x]]
           /\ Take(fresh)
    /\ stack_entry' = [stack_entry EXCEPT ![p] = IF V \cap StackPages # {} /\ @ = 0 THEN p ELSE @]
    /\ UNCHANGED <<cloned, content, machine>>

\* The machine is lost in the middle of a call.
Lost(how) == machine' = how /\ UNCHANGED <<spaces, tables>>

\* Seeded fault: a reference is left behind.
frame_dec_Keeps(F) == UNCHANGED refs

\* One reference less to each of the frames F.
frame_dec(F) == refs' = [f \in Frames |-> IF f \in F THEN refs[f] - 1 ELSE refs[f]]

\* Nothing is left in the table of p's stack without the places N.
Emptied(p, N) ==
    /\ stack_entry[p] # 0
    /\ \E v \in StackPages : <<stack_entry[p], v>> \in N
    /\ \A v \in StackPages : <<stack_entry[p], v>> \in N \/ ~Present(p, v)

\* Seeded fault: the leaf of a frame that others hold stays.
Unmap_KeepsShared(p, N) == UNCHANGED tables

\* vunmap where it comes to an end; it frees the stack's table with its last leaf.
Unmap(p, N) ==
    /\ frame_dec({pte[x].frame : x \in N})
    /\ pte' = [x \in DOMAIN pte |-> IF x \in N THEN Absent ELSE pte[x]]
    /\ stack_entry' = [stack_entry EXCEPT ![p] = IF Emptied(p, N) THEN 0 ELSE @]
    /\ UNCHANGED <<cloned, used, clones, content>>

\* vunmap of the pages V: a page of the identity map may be behind a 2 MB page,
\* the last reference to a frame hangs, and what a clone shares is freed.
Drop(p, V) ==
    LET N == {Place(p, v) : v \in V} IN
    \/ (\E x \in N : pte[x] = Identity) /\ Lost("wild")
    \/ /\ \A v \in V : Home(v) \notin PoolPages
       /\ IF \E x \in N : pte[x].frame # NoFrame /\ refs[pte[x].frame] = 1 THEN Lost("hung")
          ELSE IF Emptied(p, N) /\ \E q \in live \ {p} : stack_entry[q] = stack_entry[p]
          THEN Lost("wild")
          ELSE Unmap(p, N) /\ UNCHANGED machine

-----------------------------------------------------------------------------
Init ==
    /\ live = {}
    /\ areas = [p \in Procs |-> <<>>]
    /\ heap_start = [p \in Procs |-> 0] /\ heap_end = heap_start
    /\ cloned = {} /\ stack_entry = [p \in Procs |-> 0]
    /\ pte = [x \in (Procs \cup {0}) \X Pages |->
                 IF x[1] = 0 /\ x[2] < IdentityEnd THEN Identity ELSE Absent]
    /\ used = {} /\ refs = [f \in Frames |-> 1]
    /\ clones = [f \in Frames |-> 0] /\ content = [f \in Frames |-> 0]
    /\ machine = "runs" /\ calls = 0

\* The next process there has not been.
Fresh(p) == heap_start[p] = 0 /\ \A q \in Procs : q < p => heap_start[q] # 0

\* new_user_p4, init_aslr, and map_elf_segment for the program.
Start(p) ==
    /\ Fresh(p)
    /\ live' = live \cup {p}
    /\ areas' = [areas EXCEPT ![p] = StackAreas]
    /\ \E h \in HeapBases :
           /\ heap_start' = [heap_start EXCEPT ![p] = h]
           /\ heap_end' = [heap_end EXCEPT ![p] = h]
    /\ vmap(p, Code)

\* Where a search for free pages starts: at the hint or mmap_next, plus a random
\* offset (aslr_offset), at any page below the stack.
SearchStarts == Hints \cap KernelPages

\* mmap_anon once the base is known.
MapAt(p, base, size, demand) ==
    /\ base # 0 /\ ~has_overlap(p, base, size) /\ Len(areas[p]) < MAX_VMAS
    /\ areas' = [areas EXCEPT ![p] =
           add_vma(@, Area(base, size, "Anonymous", demand, IF demand THEN 0 ELSE size))]
    /\ IF demand THEN UNCHANGED <<tables, machine>>
       ELSE vmap(p, base .. base + size - 1)
    /\ UNCHANGED <<live, heap_start, heap_end>>

\* Bound: no range goes on behind StackTop, where the addresses are not canonical,
\* or from entry 256 to the next.
InOnePart(base, size) ==
    \/ base + size <= StackTop
    \/ StackTop <= base /\ base + size <= OwnBase
    \/ OwnBase <= base /\ base + size <= OwnEnd

mmap_anon(p, size, demand) ==
    \/ \E base \in Hints : InOnePart(base, size) /\ MapAt(p, base, size, demand)
    \/ \E start \in SearchStarts : MapAt(p, find_free_range(p, size, start), size, demand)

munmap(p, a) ==
    /\ Drop(p, a.base .. End(a) - 1)
    /\ machine' = "runs" =>
           /\ areas' = [areas EXCEPT ![p] = remove_vma(@, a.base)]
           /\ UNCHANGED <<live, heap_start, heap_end>>

\* sbrk: the area at heap_start takes the new size.
Resized(as, start, end) ==
    LET i == find_vma(as, start) IN
    IF i = 0 THEN as ELSE [as EXCEPT ![i].size = end - start, ![i].mapped = end - start]

\* Seeded fault: the pages are not looked up before they are taken.
Grown_Blind(p, n) == heap_end[p] + n

\* How far the heap grows: up to the first page of another area.
Grown(p, n) ==
    LET old == heap_end[p] IN
    Min({old + n} \cup {v \in old .. old + n - 1 : has_overlap(p, v, 1)})

sbrk(p, n) ==
    LET old == heap_end[p]
        end == IF n > 0 THEN Grown(p, n) ELSE old + n
    IN /\ n # 0 /\ end >= heap_start[p] /\ end <= StackTop
       /\ IF n > 0 THEN vmap(p, old .. end - 1) ELSE Drop(p, end .. old - 1)
       /\ machine' = "runs" =>
              /\ heap_end' = [heap_end EXCEPT ![p] = end]
              /\ areas' = [areas EXCEPT ![p] =
                     IF n > 0 /\ old = heap_start[p]
                     THEN add_vma(@, Area(old, end - old, "Heap", FALSE, end - old))
                     ELSE Resized(@, heap_start[p], end)]
              /\ UNCHANGED <<live, heap_start>>

\* legacy_mem_alloc with or without a hint: pages from LEGACY_ALLOC_TOP on are
\* refused, those before them stay.
LegacyBase(p, n, hint) ==
    IF hint # 0 THEN hint
    ELSE Min({v \in Min(HeapBases) .. StackTop :
                  \A u \in v .. v + n - 1 : u < StackTop => ~Present(p, u)})

legacy_mem_alloc(p, n, hint) ==
    LET base == LegacyBase(p, n, hint) IN
    /\ vmap(p, {v \in base .. base + n - 1 : v < LegacyTop})
    /\ UNCHANGED spaces

\* Bound: what is freed can have come from legacy_mem_alloc.
legacy_mem_free(p, base, n) ==
    /\ base + n <= LegacyTop
    /\ Drop(p, base .. base + n - 1)
    /\ UNCHANGED spaces

-----------------------------------------------------------------------------
\* Faults: handle_page_fault

\* handle_demand_fault
DemandFault(p, v) ==
    LET i == find_vma(areas[p], v) IN
    /\ Pte(p, v) = Absent
    /\ i # 0 /\ areas[p][i].typ # "GuardPage" /\ areas[p][i].demand
    /\ vmap(p, {v})
    /\ areas' = [areas EXCEPT ![p][i].mapped = @ + 1]
    /\ UNCHANGED <<live, heap_start, heap_end>>

\* handle_cow_fault and frame_cow_copy
CowFault(p, v) ==
    LET x == Place(p, v)
        old == pte[x].frame
    IN /\ pte[x].cow
       /\ \/ /\ refs[old] <= 1
             /\ pte' = [pte EXCEPT ![x].w = TRUE, ![x].cow = FALSE]
             /\ UNCHANGED <<counters, content>>
          \/ /\ refs[old] > 1
             /\ \E new \in FreeFrames :
                    /\ pte' = [pte EXCEPT ![x] = [frame |-> new, w |-> TRUE, cow |-> FALSE]]
                    /\ used' = used \cup {new}
                    /\ refs' = [refs EXCEPT ![new] = 1, ![old] = @ - 1]
                    /\ clones' = [clones EXCEPT ![new] = 0]
                    /\ content' = [content EXCEPT ![new] = content[old]]
       /\ UNCHANGED <<spaces, cloned, stack_entry, machine>>

\* handle_cow_fault at a page of the identity map, which a fork marked: the copy of
\* 2 MB waits for MM_LOCK in mm_alloc_huge.
BlockFault(p, v) == cloned # {} /\ Pte(p, v) = Identity /\ Lost("hung")

\* The process writes to a page it can write; only what its own pages hold is
\* kept.
Store(p, v, x) ==
    /\ v \in OwnPages /\ Pte(p, v).w
    /\ content' = [content EXCEPT ![Pte(p, v).frame] = x]
    /\ UNCHANGED <<spaces, cloned, stack_entry, pte, counters, machine>>

-----------------------------------------------------------------------------
\* fork and exit

\* The pages of a copy, and the place each is copied from: from entry 256 on.
ClonedPages == KernelPages \cup OwnPages

Origin(p, u) == <<IF u \in KernelPages /\ p \notin cloned THEN 0 ELSE p, u>>

\* A user's entry becomes read-only and copy-on-write, a kernel's stays.
Lowered(l) == IF l.frame = NoFrame THEN l ELSE [l EXCEPT !.w = FALSE, !.cow = TRUE]

\* Seeded fault: the parent's entries keep their write access.
CowEntries_Child(p, c) ==
    [x \in DOMAIN pte |->
        IF x[1] = c /\ x[2] \in ClonedPages THEN Lowered(pte[Origin(p, x[2])]) ELSE pte[x]]

\* clone_user_p4: the entries of both trees.
CowEntries(p, c) ==
    [x \in DOMAIN pte |->
        IF x[1] = c /\ x[2] \in ClonedPages THEN Lowered(pte[Origin(p, x[2])])
        ELSE IF \E u \in ClonedPages : x = Origin(p, u) THEN Lowered(pte[x]) ELSE pte[x]]

\* One reference more for each copied entry, and one for the frames behind the
\* 2 MB pages.  Of the frames that the copies of tables take one is kept apart:
\* that of the kernel heap's tables, which lie behind the pool's 2 MB pages, is
\* taken after those were counted.
CountClone(p) ==
    \E block \in Blocks, table \in FreeFrames :
        /\ used' = used \cup {table}
        /\ refs' = [f \in Frames |->
               IF f = table THEN 1
               ELSE refs[f] + (IF f \in block THEN 1 ELSE 0)
                    + Cardinality({u \in ClonedPages : pte[Origin(p, u)].frame = f})]
        /\ clones' = [f \in Frames |->
               IF f = table THEN 0 ELSE clones[f] + (IF f \in block THEN 1 ELSE 0)]

Fork(p, c) ==
    /\ Fresh(c)
    /\ live' = live \cup {c}
    /\ areas' = [areas EXCEPT ![c] = areas[p]]
    /\ heap_start' = [heap_start EXCEPT ![c] = heap_start[p]]
    /\ heap_end' = [heap_end EXCEPT ![c] = heap_end[p]]
    /\ cloned' = cloned \cup {c}
    /\ stack_entry' = [stack_entry EXCEPT ![c] = stack_entry[p]]
    /\ pte' = CowEntries(p, c) /\ CountClone(p)
    /\ UNCHANGED <<content, machine>>

\* free_user_p4 drops a reference to each frame behind the 2 MB pages of entry 256:
\* it waits for MM_LOCK at the first that has only one, and frees the shared tree
\* if there is none.
Exit(p) == Lost(IF \E f \in Frames : refs[f] = 1 THEN "hung" ELSE "wild")

OutOfMemory == Cardinality(FreeFrames) < MaxSize /\ Lost("panicked")

\* A call maps a page over one at which the kernel reaches Frames.
Overmap ==
    /\ \E base \in Hints, n \in 1 .. MaxSize :
           \E v \in base .. base + n - 1 : Home(v) \in PoolPages
    /\ Lost("wild")

Syscall(p) ==
    \/ \E size \in 1 .. MaxSize, demand \in BOOLEAN : mmap_anon(p, size, demand)
    \/ \E i \in DOMAIN areas[p] : munmap(p, areas[p][i])
    \/ \E n \in 1 .. MaxSize : sbrk(p, n) \/ sbrk(p, -n)
    \/ \E n \in 1 .. MaxSize, hint \in Hints \cap KernelPages :
           legacy_mem_alloc(p, n, hint) \/ legacy_mem_free(p, hint, n)
    \/ \E n \in 1 .. MaxSize : legacy_mem_alloc(p, n, 0)
    \/ Overmap

Next ==
    /\ machine = "runs"
    /\ \/ \E p \in live : calls < MaxCalls /\ Syscall(p) /\ calls' = calls + 1
       \/ /\ \/ \E p \in Procs : Start(p)
             \/ \E p \in live, c \in Procs : Fork(p, c)
             \/ \E p \in live : Exit(p)
             \/ \E p \in live, v \in Pages : 
                    DemandFault(p, v) \/ CowFault(p, v) \/ BlockFault(p, v)
             \/ \E p \in live, v \in OwnPages, x \in Values : Store(p, v, x)
             \/ OutOfMemory
          /\ UNCHANGED calls

Spec == Init /\ [][Next]_vars

-----------------------------------------------------------------------------
\* Properties

\* The leaves that name a frame.
Users(f) == {x \in DOMAIN pte : pte[x].frame = f}

TypeOK ==
    /\ live \subseteq Procs
    /\ \A p \in Procs : Len(areas[p]) <= MAX_VMAS
    /\ stack_entry \in [Procs -> Procs \cup {0}]
    /\ pte \in [(Procs \cup {0}) \X Pages ->
                   [frame : Frames \cup {NoFrame}, w : BOOLEAN, cow : BOOLEAN]]
    /\ cloned \subseteq Procs /\ used \subseteq Frames
    /\ refs \in [Frames -> Nat] /\ clones \in [Frames -> Nat]
    /\ content \in [Frames -> Values]
    /\ machine \in {"runs", "panicked", "hung", "wild"}

\* The heap has its area, which sbrk forgets to make when there are MAX_VMAS.
HeapListed(p) ==
    heap_start[p] < heap_end[p] =>
        \E i \in DOMAIN areas[p] :
            /\ areas[p][i].typ = "Heap"
            /\ areas[p][i].base = heap_start[p] /\ End(areas[p][i]) = heap_end[p]

Apart(a, b) == \A v \in Pages : ~(Covers(a, v) /\ Covers(b, v))

\* No page belongs to two areas of a process, whatever mix of mmap, sbrk,
\* munmap and fork made them, as long as its heap has an area.
AreasDisjoint ==
    \A p \in live : HeapListed(p) =>
        \A i, j \in DOMAIN areas[p] : i # j => Apart(areas[p][i], areas[p][j])

\* Under every leaf is a reference that is the leaf's own, besides those that forks
\* counted for the identity map: no leaf names a free frame or one whose last
\* reference went with another leaf.  For the frames of pages that processes own
\* the numbers agree: nothing a process mapped and left is kept for ever.
RefsCountLeaves ==
    \A f \in Frames :
        /\ f \in FreeFrames => Users(f) = {}
        /\ Cardinality(Users(f)) + clones[f] <= refs[f]
        /\ (\E x \in Users(f) : x[2] \in OwnPages) =>
               Cardinality(Users(f)) + clones[f] = refs[f]

\* The areas say which of a process's own pages are there: each lies in one,
\* and mapped_pages counts them.
AreasCountPages ==
    \A p \in live :
        /\ \A v \in OwnPages : Present(p, v) => find_vma(areas[p], v) # 0
        /\ \A i \in DOMAIN areas[p] :
               LET a == areas[p][i] IN
               a.base \in OwnPages =>
                   a.mapped = Cardinality({v \in OwnPages : Covers(a, v) /\ Present(p, v)})

Private == INSTANCE PrivateMemory WITH
    Pages <- OwnPages,
    Zero <- 0,
    Unmapped <- NoFrame,
    view <- [p \in Procs |-> [v \in OwnPages |->
                IF Present(p, v) THEN content[Pte(p, v).frame] ELSE NoFrame]]

\* Fork and copy-on-write give each process a memory of its own: a write
\* reaches nobody else, however often the page is shared, copied and dropped.
ImplementsPrivateMemory == Private!Spec

-----------------------------------------------------------------------------
\* What a comment says and the code does not do.

\* "Stop if we would overlap another VMA" (vma.rs:358): growing the heap makes
\* no page belong to two areas.  But a heap without an area does not keep others
\* out of its pages, and the next sbrk takes the area it finds at heap_start for
\* its own and stretches it over those behind.
NoPageTwice ==
    \A p \in live : \A i, j \in DOMAIN areas[p] : i # j => Apart(areas[p][i], areas[p][j])
====
