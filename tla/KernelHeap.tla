---- MODULE KernelHeap ----
(***************************************************************************)
(* The global allocator of src/kernel/src/allocator: the buddy allocator   *)
(* (buddy.rs), one class of the slab allocator on top of it (slab.rs), the *)
(* dispatch between them (kernel_heap.rs) and the Ada hooks: canaries, the *)
(* ring of freed pointers and the audit totals.  Each call runs under the  *)
(* heap's lock and is one step.  Sizes and addresses count slots of the    *)
(* slab class from the heap's base, blocks count pages.                    *)
(***************************************************************************)
EXTENDS Integers, Sequences, FiniteSets, Functions, FiniteSetsExt

CONSTANTS
    NPages,          \* pages of the heap: 8192 of them at boot
    MAX_ORDER,       \* 10: the largest block has 2^(MAX_ORDER - 1) pages
    PAGE_SIZE,       \* slots per page
    DFREE_BUF_SIZE,  \* freed pointers remembered: 256
    Requests,        \* the layouts asked for: [size, align]
    MaxHeld          \* bound: allocations alive at once

ASSUME HeapAssumption ==
    /\ NPages \in Nat /\ MAX_ORDER \in Nat \ {0} /\ PAGE_SIZE \in Nat \ {0}
    /\ DFREE_BUF_SIZE \in Nat \ {0} /\ MaxHeld \in Nat
    /\ Requests \subseteq [size : Nat \ {0}, align : Nat \ {0}]

\* What the provers, which do not interpret ^, have to know of it.
ASSUME PowersOfTwo ==
    /\ 2^0 = 1
    /\ \A o \in 0 .. MAX_ORDER - 1 : 2^o \in Nat \ {0} /\ 2^(o + 1) = 2 * 2^o

VARIABLES
    inner,      \* HeapInner: free_lists, bitmap, free_bytes; slots, tail, free_count
    held,       \* the allocations alive: [ptr, size, align, intact canary]
    Free_Ring,  \* the last freed pointers, latest last
    Live_Total, \* the audit's live bytes
    lost,       \* ledger: pages a free of less than the block left behind
    machine,    \* "runs", "halted" by an integrity check, "faulted", "corrupt"
    word0       \* the word at physical address 0, as the boot loader left it

heapVars == <<inner, held, Free_Ring, Live_Total, lost, machine, word0>>

Orders == 0 .. MAX_ORDER - 1
Pages == 0 .. NPages - 1

PagesFrom(page, order) == page .. page + 2^order - 1

(***************************************************************************)
(* The buddy allocator.                                                    *)
(***************************************************************************)
\* Largest blocks first, then smaller ones down to the end of the heap, each
\* pushed at the front of its list.
FreshLists ==
    LET big == 2^(MAX_ORDER - 1)
        whole == NPages \div big
        rest == NPages % big
    IN  [o \in Orders |->
            IF o = MAX_ORDER - 1 THEN [i \in 1 .. whole |-> big * (whole - i)]
            ELSE IF (rest \div 2^o) % 2 = 1 THEN <<NPages - (rest % (2^(o + 1)))>>
            ELSE <<>>]

\* Seeded fault: too small a block for a size that is no power of two.
size_to_order_Down(size) ==
    Max({0} \cup {o \in Orders : PAGE_SIZE * 2^o <= size})

\* A size above the largest block gets the largest order.
size_to_order(size) ==
    Min({o \in Orders : size <= PAGE_SIZE * 2^o} \cup {MAX_ORDER - 1})

IsRoom(h, order) == \E o \in order .. MAX_ORDER - 1 : h.free_lists[o] # <<>>

Found(h, order) == Min({o \in order .. MAX_ORDER - 1 : h.free_lists[o] # <<>>})

Address(h, order) == Head(h.free_lists[Found(h, order)])

\* The first block of the smallest order that has one is taken, and its upper
\* halves are pushed back.
AllocOrder(h, order) ==
    LET found == Found(h, order)
        addr == Address(h, order)
    IN  [h EXCEPT
            !.free_lists = [o \in Orders |->
                IF o = found THEN Tail(@[o])
                ELSE IF o \in order .. found - 1 THEN <<addr + 2^o>> \o @[o]
                ELSE @[o]],
            !.bitmap = @ \ PagesFrom(addr, order),
            !.free_bytes = @ - 2^order]

Aligned(page, order) == page - (page % (2^order))

Buddy(page, order) ==
    LET block == Aligned(page, order)
    IN  IF (block \div 2^order) % 2 = 0 THEN block + 2^order ELSE block - 2^order

\* Seeded fault: only the buddy's first page is looked at.
Merges_FirstPage(h, page, order) ==
    /\ order < MAX_ORDER - 1
    /\ Buddy(page, order) \in Pages
    /\ Buddy(page, order) \in h.bitmap

Merges(h, page, order) ==
    /\ order < MAX_ORDER - 1
    /\ Buddy(page, order) \in Pages
    /\ PagesFrom(Buddy(page, order), order) \subseteq h.bitmap

\* The order at which free_coalesce stops.
Top(h, page, order) == Min({o \in order .. MAX_ORDER - 1 : ~Merges(h, page, o)})

\* Whether every buddy it takes out is on the list it is taken from.
Listed(h, page, order) ==
    \A o \in order .. Top(h, page, order) - 1 :
        Buddy(page, o) \in Range(h.free_lists[o])

\* free_remove: the node leaves the list, its neighbours are linked.
Unlinked(list, page) ==
    LET i == CHOOSE j \in DOMAIN list : list[j] = page
    IN  SubSeq(list, 1, i - 1) \o SubSeq(list, i + 1, Len(list))

Coalesced(h, page, order) ==
    LET top == Top(h, page, order)
    IN  [h EXCEPT
            !.free_lists = [o \in Orders |->
                IF o = top THEN <<Aligned(page, o)>> \o @[o]
                ELSE IF o \in order .. top - 1
                     THEN Unlinked(@[o], Buddy(page, o))
                ELSE @[o]],
            !.bitmap = @ \cup PagesFrom(page, order),
            !.free_bytes = @ + 2^order]

(***************************************************************************)
(* The slab class: a list linked through the free slots, ended by tail.    *)
(***************************************************************************)
\* pop reads one link too far: the second slot leaves the list with the first,
\* and after the last slot the link is read at address 0.
Pop(h) ==
    [h EXCEPT !.slots = SubSeq(@, 3, Len(@)),
              !.tail = IF Len(h.slots) = 1 THEN word0 ELSE @,
              !.free_count = @ - 1]

PopFaults(h) == h.tail = "wild" /\ Len(h.slots) <= 1

\* Seeded fault: the slots of the page are pushed although it stays in the buddy.
Populate_Kept(h) ==
    LET page == Address(h, 0)
    IN  [h EXCEPT
            !.slots = [k \in 1 .. PAGE_SIZE |-> PAGE_SIZE * page + k - 1] \o @,
            !.free_count = @ + PAGE_SIZE]

Populate(h) ==
    LET page == Address(h, 0)
    IN  [AllocOrder(h, 0) EXCEPT
            !.slots = [k \in 1 .. PAGE_SIZE |-> PAGE_SIZE * page + k - 1] \o @,
            !.free_count = @ + PAGE_SIZE]

Push(h, ptr) == [h EXCEPT !.slots = <<ptr>> \o @, !.free_count = @ + 1]

(***************************************************************************)
(* alloc, dealloc and realloc of a state s of the heap and its hooks.      *)
(***************************************************************************)
State == [inner |-> inner, held |-> held, ring |-> Free_Ring, live |-> Live_Total,
          lost |-> lost, machine |-> machine]

Becomes(s) ==
    /\ inner' = s.inner /\ held' = s.held /\ Free_Ring' = s.ring
    /\ Live_Total' = s.live /\ lost' = s.lost /\ machine' = s.machine
    /\ UNCHANGED word0

Null == -1

IsSlab(req) == req.size <= 1 /\ req.align <= req.size

\* on_alloc of a block inside the heap: canary and audit.
Granted(s, h, ptr, req) ==
    [s EXCEPT !.inner = h, !.live = @ + req.size,
              !.held = @ \cup {[ptr |-> ptr, size |-> req.size, align |-> req.align,
                                intact |-> TRUE]}]

\* A block that would end past the heap is refused by check_bounds and freed.
BuddyAlloc(s, req) ==
    LET order == size_to_order(Max({req.size, req.align}))
        page == Address(s.inner, order)
        h == AllocOrder(s.inner, order)
    IN  IF ~IsRoom(s.inner, order) THEN s
        ELSE IF PAGE_SIZE * page + req.size > PAGE_SIZE * NPages
             THEN [s EXCEPT !.inner = Coalesced(h, page, size_to_order(req.size))]
        ELSE Granted(s, h, PAGE_SIZE * page, req)

DoAlloc(s, req) ==
    IF ~IsSlab(req) THEN BuddyAlloc(s, req)
    ELSE IF PopFaults(s.inner) THEN [s EXCEPT !.machine = "faulted"]
    ELSE IF s.inner.slots # <<>> THEN Granted(s, Pop(s.inner), Head(s.inner.slots), req)
    ELSE IF ~IsRoom(s.inner, 0) THEN s
    ELSE LET h == Populate(s.inner) IN Granted(s, Pop(h), Head(h.slots), req)

Remembered(ring, ptr) ==
    LET longer == Append(ring, ptr)
    IN  SubSeq(longer, IF Len(longer) > DFREE_BUF_SIZE THEN 2 ELSE 1, Len(longer))

\* Seeded fault: the block of a realloc is not taken off the audit's total.
Released_Unaudited(s, b) ==
    [s EXCEPT !.held = @ \ {b}, !.ring = Remembered(@, b.ptr)]

Released(s, b) ==
    [s EXCEPT !.held = @ \ {b}, !.ring = Remembered(@, b.ptr),
              !.live = IF @ >= b.size THEN @ - b.size ELSE 0]

\* A pointer that was freed lately, or a canary that was written over, is refused.
on_free(s, b) == b.ptr \notin Range(s.ring) /\ b.intact

DoDealloc(s, b) ==
    LET r == Released(s, b)
        page == b.ptr \div PAGE_SIZE
        order == size_to_order(b.size)
        given == size_to_order(Max({b.size, b.align}))
    IN  IF ~on_free(s, b) THEN [s EXCEPT !.machine = "halted"]
        ELSE IF IsSlab(b) THEN [r EXCEPT !.inner = Push(@, b.ptr)]
        ELSE IF Listed(s.inner, page, order)
             THEN [r EXCEPT !.inner = Coalesced(@, page, order),
                            !.lost = @ \cup (PagesFrom(page, given) \ PagesFrom(page, order))]
        ELSE [s EXCEPT !.machine = "corrupt"]

HeapInit ==
    /\ inner = [free_lists |-> FreshLists, bitmap |-> Pages, free_bytes |-> NPages,
                slots |-> <<>>, tail |-> "null", free_count |-> 0]
    /\ held = {} /\ Free_Ring = <<>> /\ Live_Total = 0 /\ lost = {}
    /\ machine = "runs"
    /\ word0 \in {"null", "wild"}

alloc ==
    /\ machine = "runs" /\ Cardinality(held) < MaxHeld
    /\ \E req \in Requests : Becomes(DoAlloc(State, req))

dealloc ==
    /\ machine = "runs"
    /\ \E b \in held : Becomes(DoDealloc(State, b))

\* The holder fills its block to the last byte, where the canary lies.
Fill ==
    /\ machine = "runs"
    /\ \E b \in {c \in held : c.intact} :
           held' = (held \ {b}) \cup {[b EXCEPT !.intact = FALSE]}
    /\ UNCHANGED <<inner, Free_Ring, Live_Total, lost, machine, word0>>

\* The copy brings the bytes where the new canary lies: the old canary if the
\* size is the same, the holder's data if the block shrinks.
Copied(s, b, new) ==
    IF new.size > b.size \/ (new.size = b.size /\ b.intact) THEN s
    ELSE [s EXCEPT !.held = (@ \ {new}) \cup {[new EXCEPT !.intact = FALSE]}]

realloc ==
    /\ machine = "runs"
    /\ \E b \in held, req \in Requests :
           /\ req.align = b.align
           /\ LET s == DoAlloc(State, req)
              IN  Becomes(IF s.held = held THEN s
                          ELSE DoDealloc(Copied(s, b, CHOOSE n \in s.held \ held : TRUE), b))

HeapNext == alloc \/ dealloc \/ Fill \/ realloc

HeapSpec == HeapInit /\ [][HeapNext]_heapVars

(***************************************************************************)
(* Properties.                                                             *)
(***************************************************************************)
PagesOf(b) ==
    LET first == b.ptr \div PAGE_SIZE
        order == size_to_order(Max({b.size, b.align}))
    IN  PagesFrom(first, order)

HeldPages == UNION {PagesOf(b) : b \in {c \in held : ~IsSlab(c)}}

FreeBlocks == {f \in Pages \X Orders : f[1] \in Range(inner.free_lists[f[2]])}

SlabSlots == Range(inner.slots) \cup {b.ptr : b \in {c \in held : IsSlab(c)}}

\* The free lists, the bitmap and the byte count of the buddy allocator tell
\* the same story: listed blocks are aligned, disjoint and make up the bitmap,
\* no two buddies are free side by side, and a buddy that the bitmap calls
\* free is always on the list free_remove unlinks it from.
BuddySound ==
    /\ machine # "corrupt"
    /\ inner.free_bytes = Cardinality(inner.bitmap)
    /\ inner.bitmap = UNION {PagesFrom(f[1], f[2]) : f \in FreeBlocks}
    /\ \A f \in FreeBlocks :
           /\ Aligned(f[1], f[2]) = f[1]
           /\ f[2] < MAX_ORDER - 1 => <<Buddy(f[1], f[2]), f[2]>> \notin FreeBlocks
           /\ \A g \in FreeBlocks \ {f} : PagesFrom(f[1], f[2]) \cap PagesFrom(g[1], g[2]) = {}

\* Two allocations that are alive never overlap, nor does one of them overlap
\* what the allocators still hold to give away; a page is in the buddy, held,
\* cut into slots, or lost to a free of less than its block.
HeldApart ==
    /\ \A b \in held : b.ptr >= 0 /\ b.ptr + b.size <= PAGE_SIZE * NPages
    /\ \A b, c \in held :
           b # c => b.ptr + b.size <= c.ptr \/ c.ptr + c.size <= b.ptr
    /\ Range(inner.slots) \cap {b.ptr : b \in {c \in held : IsSlab(c)}} = {}
    /\ Cardinality(Range(inner.slots)) = Len(inner.slots)
    /\ Len(inner.slots) <= inner.free_count
    /\ \A ptr \in SlabSlots :
           ptr \div PAGE_SIZE \notin inner.bitmap \cup HeldPages \cup lost
    /\ HeldPages \cap (inner.bitmap \cup lost) = {} /\ inner.bitmap \cap lost = {}

\* The audit's live bytes are those of the allocations that are alive, over
\* every order of allocations, frees and reallocations that fail or succeed.
LiveTotalAgrees ==
    Live_Total = FoldSet(LAMBDA b, n : b.size + n, 0, held)
====
