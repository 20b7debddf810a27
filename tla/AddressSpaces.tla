---- MODULE AddressSpaces ----
(***************************************************************************)
(* Page tables and the address spaces made of them: vmap, virt_to_phys,    *)
(* valid_user and new_user_p4 of src/kernel/src/mm/vmm.rs, and the code    *)
(* that uses them while the system runs: the kernel heap and the stacks of *)
(* lib.rs and threading.rs, the image loader of userspace_loader.rs, and   *)
(* sys_mem_alloc and sys_mem_free of syscall_api.rs.                       *)
(*                                                                         *)
(* A P4 is copied from K_P4, so the tree below its entry 0 is one and the  *)
(* same in every address space ("Low": the identity map with the image,    *)
(* the stacks and the kernel heap in it).  The boot code names that tree   *)
(* in entry 256 as well, where its pages are seen a second time ("Alias"). *)
(* The tables below the other entries a program uses ("High") are its own. *)
(* P3 and P2 are folded into one level of directories.  Pages are numbered *)
(* by address and frames by physical address, so the identity map takes    *)
(* page n to frame n.                                                      *)
(*                                                                         *)
(* The kernel reads and writes tables, and fills fresh pages, at the       *)
(* address that is their frame's number (pt_ptr, zpg), while stacks and    *)
(* program pages are mapped over that very range.  A step has its effect   *)
(* only if the addresses it uses lead to the frames it means (Found); from *)
(* the first stack on an access may go astray (Astray), after which the    *)
(* machine is "wild" and nothing is said of it.                            *)
(*                                                                         *)
(* All of it runs with interrupts off and is one step.  mm_alloc hands out *)
(* the lowest free frame (Pmm): first to a new P4, then to every page in   *)
(* order of address, each followed by the table it needs.                  *)
(***************************************************************************)
EXTENDS Integers, FiniteSets

CONSTANTS
    PagesPerTable,  \* 512 in the code
    LowEnd,         \* the pages below are under entry 0 of every P4
    HighEnd,        \* bound: the pages from LowEnd on are under other entries
    AliasBase,      \* the pages from here on are under entry 256 of every P4
    KernelPages,    \* the pages of the kernel's own image and the boot tables
    Pool,           \* the frames of the PMM: those from MEM_BASE on
    Heap,           \* the pages of KHEAP_BASE .. KHEAP_BASE + KHEAP_SIZE
    AllocBase,      \* where sys_mem_alloc puts pages without a hint
    Hints,          \* bound: the hints that programs give
    MaxPages,       \* bound: pages per call of sys_mem_alloc; 512 in the code
    Image,          \* the pages of the program image
    FirstStack,     \* the pages of its stack
    KStack, UStack, \* the stack pages of the slots that get spawned
    Spaces          \* bound: the user address spaces

Low == 0 .. LowEnd - 1

High == LowEnd .. HighEnd - 1

Alias == AliasBase .. AliasBase + LowEnd - 1

Pages == Low \cup High \cup Alias

ASSUME LayoutAssumption ==
    /\ PagesPerTable \in Nat \ {0}
    /\ {LowEnd, HighEnd, AliasBase} \subseteq Nat
    /\ LowEnd % PagesPerTable = 0
    /\ LowEnd =< HighEnd /\ HighEnd < AliasBase
    /\ Pool \subseteq Low /\ KernelPages \subseteq Low \ Pool
    /\ Heap \subseteq Low \ Pool
    /\ Hints \cup {AllocBase} \subseteq Pages
    /\ Image \cup FirstStack \subseteq Low \cup High
    /\ \A i \in DOMAIN KStack : KStack[i] \subseteq Low
    /\ \A i \in DOMAIN UStack : UStack[i] \subseteq Low /\ i \in DOMAIN KStack

Kernel == "K_P4"

Shared == "low"   \* the tree below entry 0

ASSUME NamesAssumption == Kernel \notin Spaces /\ Shared \notin Spaces

Bases == Hints \cup {AllocBase}

Run(base, n) == base .. base + n - 1

None == -1

Absent == -2   \* an entry without PTE_P

Block == -3    \* an entry with PTE_PS: 2 MB of the identity map

VARIABLES
    free,     \* the free frames of the PMM
    p4,       \* the frame of every P4, or None
    rootUser, \* the entries, of 0 and 256, that have PTE_U in every P4
    dir,      \* directory entries: Absent, Block or the frame of a table
    dirUser,  \* PTE_U of the directory entries
    leaf,     \* the frames mapped by table entries, or None
    leafUser, \* PTE_U of the table entries
    granted,  \* the pages a program was given (ledger)
    handed,   \* the frames handed out for pages of programs (ledger)
    stage     \* how far boot has come; "run"; "hung", "panicked" or "wild"

vars == <<free, p4, rootUser, dir, dirUser, leaf, leafUser, granted, handed,
          stage>>

(***************************************************************************)
(* Page walks.                                                             *)
(***************************************************************************)
\* Where the walk for page v of space s ends, and the directory above.
Place(s, v) ==
    IF v \in Low THEN <<Shared, v>>
    ELSE IF v \in Alias THEN <<Shared, v - AliasBase>>
    ELSE <<s, v>>

DirOf(place) == <<place[1], place[2] \div PagesPerTable>>

Places == ({Shared} \X Low) \cup (Spaces \X High)

Dirs == {DirOf(place) : place \in Places}

\* The entry of its P4 that page v is below, of those that all P4s share.
RootEntry(v) == IF v \in Low THEN 0 ELSE 256

\* Where the processor's walk leads.
Translate(s, v) ==
    LET place == Place(s, v) IN
    IF dir[DirOf(place)] = Absent THEN None
    ELSE IF dir[DirOf(place)] = Block THEN place[2]
    ELSE leaf[place]

\* A program can use the page: every entry on the way is present and has
\* PTE_U.
Accessible(s, v) ==
    LET place == Place(s, v) IN
    /\ p4[s] # None
    /\ v \notin High => RootEntry(v) \in rootUser[s]
    /\ dir[DirOf(place)] # Absent /\ dirUser[DirOf(place)]
    /\ dir[DirOf(place)] # Block => leaf[place] # None /\ leafUser[place]

\* pt_ptr: the address that is the frame's number leads to the frame.
Direct(f) ==
    LET place == <<Shared, f>> IN dir[DirOf(place)] = Block \/ leaf[place] = f

TablesOf(places) == {dir[DirOf(place)] : place \in places} \ {Absent, Block}

\* The tables on the way to page v are where the kernel reads them.
Reached(s, v) == \A f \in {p4[s]} \cup TablesOf({Place(s, v)}) : Direct(f)

\* What virt_to_phys and valid_user may answer: the walk that the processor
\* does, or whatever is read where the tables are not.
virt_to_phys(s, v) == IF Reached(s, v) THEN {Translate(s, v)} ELSE Low \cup {None}

valid_user(s, v) == IF Reached(s, v) THEN {Accessible(s, v)} ELSE BOOLEAN

Init ==  \* after vmm_init: K_P4 has the boot tables, 2 MB pages throughout
    /\ \E f \in Pool :
           /\ \A g \in Pool : f =< g
           /\ free = Pool \ {f}
           /\ p4 = [s \in Spaces \cup {Kernel} |-> IF s = Kernel THEN f ELSE None]
    /\ rootUser = [s \in Spaces \cup {Kernel} |-> {}]
    /\ dir = [d \in Dirs |-> IF d[1] = Shared THEN Block ELSE Absent]
    /\ dirUser = [d \in Dirs |-> FALSE]
    /\ leaf = [place \in Places |-> None]
    /\ leafUser = [place \in Places |-> FALSE]
    /\ granted = [s \in Spaces |-> {}]
    /\ handed = {}
    /\ stage = "heap"

(***************************************************************************)
(* Mapping pages to fresh frames.                                          *)
(***************************************************************************)
\* The directories that need a table: no entry yet, or a 2 MB page to split.
Lacking(places) ==
    {d \in {DirOf(place) : place \in places} : dir[d] \in {Absent, Block}}

\* Seeded fault: the flag is not merged into an entry that is present.
MergedUser_NewOnly(d, lacking, user) ==
    IF d \in lacking THEN d \in {DirOf(place) : place \in user} ELSE dirUser[d]

\* goc: the entries on the way get PTE_U if the page has it.
MergedUser(d, lacking, user) ==
    \/ d \in {DirOf(place) : place \in user}
    \/ d \notin lacking /\ dirUser[d]

\* Seeded fault: the pages of a split 2 MB page all map its first frame.
Inherited_FirstFrame(place, lacking) ==
    IF DirOf(place) \in lacking /\ dir[DirOf(place)] = Block
    THEN DirOf(place)[2] * PagesPerTable ELSE leaf[place]

\* goc: a split 2 MB page leaves the translation of its pages as it was.
Inherited(place, lacking) ==
    IF DirOf(place) \in lacking /\ dir[DirOf(place)] = Block
    THEN place[2] ELSE leaf[place]

\* Seeded fault: the pages of a split 2 MB page get PTE_U.
InheritedUser_Split(place, lacking) ==
    (DirOf(place) \in lacking /\ dir[DirOf(place)] = Block) \/ leafUser[place]

\* goc: the pages of a split 2 MB page are the kernel's.
InheritedUser(place, lacking) ==
    ~ (DirOf(place) \in lacking /\ dir[DirOf(place)] = Block) /\ leafUser[place]

Injective(F) == \A x, y \in DOMAIN F : F[x] = F[y] => x = y

\* The order of the calls of mm_alloc: a P4, then every page before the table
\* that it is the first to need, before the pages that come after it.
InOrder(F, G, roots) ==
    /\ \A f \in roots, place \in DOMAIN F : f < F[place]
    /\ \A a, b \in DOMAIN F : a[2] < b[2] => F[a] < F[b]
    /\ \A a \in DOMAIN F, d \in DOMAIN G :
           F[a] < G[d] <=> \A b \in DOMAIN F : DirOf(b) = d => a[2] =< b[2]

\* Seeded fault: a table's frame is not marked used.
FramesTaken_NoTables(F, G) == {F[place] : place \in DOMAIN F}

\* The frames of the pages (F) and of the tables (G) are taken together.
FramesTaken(F, G) ==
    {F[place] : place \in DOMAIN F} \cup {G[d] : d \in DOMAIN G}

\* vmap of the kernel pages and the user pages given, each to a frame from
\* mm_alloc; roots are the frames of the P4s that are made in the same step.
MapFresh(kernel, user, roots) ==
    LET places == kernel \cup user
        lacking == Lacking(places)
        lowest == {f \in free : Cardinality({g \in free : g < f})
                                   < Cardinality(places) + Cardinality(lacking)
                                     + Cardinality(roots)}
    IN \E F \in [places -> lowest], G \in [lacking -> lowest] :
        /\ InOrder(F, G, roots) /\ Injective(F) /\ Injective(G)
        /\ \A place \in places :
               F[place] \notin roots \cup {G[d] : d \in lacking}
        /\ \A d \in lacking : G[d] \notin roots
        /\ free' = free \ (FramesTaken(F, G) \cup roots)
        /\ dir' = [d \in Dirs |-> IF d \in lacking THEN G[d] ELSE dir[d]]
        /\ dirUser' = [d \in Dirs |-> MergedUser(d, lacking, user)]
        /\ leaf' = [place \in Places |->
                       IF place \in places THEN F[place]
                       ELSE Inherited(place, lacking)]
        /\ leafUser' = [place \in Places |->
                           IF place \in places THEN place \in user
                           ELSE InheritedUser(place, lacking)]
        /\ handed' = handed \cup {F[place] : place \in user}

\* mm_alloc panics when no frame is left; what was mapped by then is left out.
OutOfFrames(places, roots) ==
    /\ Cardinality(places) + Cardinality(Lacking(places)) + roots
           > Cardinality(free)
    /\ stage' = "panicked"
    /\ UNCHANGED <<free, p4, rootUser, dir, dirUser, leaf, leafUser, granted,
                   handed>>

\* The addresses that the step uses for these frames, the P4s and the tables
\* walked on the way to the places among them, lead there while it lasts.
Found(places, frames) ==
    \A f \in frames \cup TablesOf(places)' : Direct(f) \/ Direct(f)'

\* The frames of pages that are filled where they are: not those of stacks.
Filled(places) == {leaf[place] : place \in places}'

\* A mapping over the kernel itself or the boot tables pulls them away.
Spared(places, next) ==
    stage' = IF places \cap ({Shared} \X KernelPages) = {} THEN next ELSE "wild"

\* Pages V of space s are given to its program; the entry of its P4 that they
\* are below gets PTE_U.
Grant(s, V) ==
    /\ rootUser' = [rootUser EXCEPT ![s] = @ \cup {RootEntry(v) : v \in V \ High}]
    /\ granted' = [granted EXCEPT ![s] = @ \cup V]

PlacesOf(s, V) == {Place(s, v) : v \in V}

(***************************************************************************)
(* Boot: the kernel heap, the stacks of the kernel threads, the program.   *)
(***************************************************************************)
KernelMaps(V, before, after) ==
    LET places == PlacesOf(Kernel, V) IN
    /\ stage = before
    /\ \/ /\ MapFresh(places, {}, {})
          /\ Found(places, {p4[Kernel]})
          /\ Spared(places, after)
          /\ UNCHANGED <<p4, rootUser, granted>>
       \/ OutOfFrames(places, 0)

MapHeap == KernelMaps(Heap, "heap", "threads")

\* sched_init and spawn_k, for the slots that are not spawned for a program.
SpawnKernelThreads ==
    KernelMaps(UNION {KStack[i] : i \in DOMAIN KStack \ DOMAIN UStack},
               "threads", "load")

\* new_user_p4, a copy of K_P4, and the mappings made in the new space before
\* it runs; filled are the places that are filled by then.
NewSpace(s, kernel, V, filled) ==
    LET kplaces == PlacesOf(Kernel, kernel)
        places == kplaces \cup PlacesOf(s, V)
    IN
    /\ p4[s] = None
    /\ \/ \E f \in free :
              /\ \A g \in free : f =< g
              /\ MapFresh(kplaces, PlacesOf(s, V), {f})
              /\ Found(places, {p4[Kernel], f} \cup Filled(filled))
              /\ p4' = [p4 EXCEPT ![s] = f]
              /\ Grant(s, V)
              /\ Spared(places, "run")
       \/ OutOfFrames(places, 1)

\* load_userspace, with the stack of spawn_and_report.
Load(s) ==
    /\ stage = "load"
    /\ NewSpace(s, {}, Image \cup FirstStack, PlacesOf(s, Image \cup FirstStack))

\* new_user_p4 and spawn_user_on_cr3 for slot i.
SpawnUserThread(s, i) ==
    /\ stage = "run"
    /\ NewSpace(s, KStack[i], UStack[i], {})

(***************************************************************************)
(* System calls of a program that runs in space s.                         *)
(***************************************************************************)
SysMemAlloc(s, base, n) ==
    LET places == PlacesOf(s, Run(base, n)) IN
    /\ stage = "run"
    /\ p4[s] # None
    /\ Run(base, n) \subseteq Pages
    /\ \/ /\ MapFresh({}, places, {})
          /\ Found(places, {p4[s]} \cup Filled(places))
          /\ Grant(s, Run(base, n))
          /\ Spared(places, "run")
          /\ UNCHANGED p4
       \/ OutOfFrames(places, 0)

\* A program frees pages that it allocated and that are still its own.
\* mm_free_phys gives the first frame back; vunmap takes MM_LOCK, and the
\* frame_dec below it calls mm_free_phys, which waits for that lock with
\* interrupts off.
SysMemFree(s, base, n) ==
    /\ stage = "run"
    /\ p4[s] # None
    /\ Run(base, n) \subseteq granted[s]
    /\ \A v \in Run(base, n) : Accessible(s, v)
    /\ Reached(s, base)
    /\ \E phys \in virt_to_phys(s, base) : free' = free \cup ({phys} \cap Pool)
    /\ stage' = "hung"
    /\ UNCHANGED <<p4, rootUser, dir, dirUser, leaf, leafUser, granted, handed>>

\* As soon as one address of the pool leads elsewhere, an access to a table,
\* one of the levels that are folded here included, to a page that is filled
\* or to the stack of a kernel thread may be to another frame.
Astray ==
    /\ stage \in {"threads", "load", "run"}
    /\ \E f \in Pool : ~ Direct(f)
    /\ stage' = "wild"
    /\ UNCHANGED <<free, p4, rootUser, dir, dirUser, leaf, leafUser, granted, handed>>

Next ==
    \/ MapHeap
    \/ SpawnKernelThreads
    \/ \E s \in Spaces : Load(s)
    \/ \E s \in Spaces, i \in DOMAIN UStack : SpawnUserThread(s, i)
    \/ \E s \in Spaces, base \in Bases, n \in 1 .. MaxPages :
           SysMemAlloc(s, base, n) \/ SysMemFree(s, base, n)
    \/ Astray

Spec == Init /\ [][Next]_vars

----
TypeOK ==
    /\ free \subseteq Pool
    /\ p4 \in [Spaces \cup {Kernel} -> Pool \cup {None}]
    /\ rootUser \in [Spaces \cup {Kernel} -> SUBSET {0, 256}]
    /\ dir \in [Dirs -> Pool \cup {Absent, Block}]
    /\ dirUser \in [Dirs -> BOOLEAN]
    /\ leaf \in [Places -> Low \cup {None}]
    /\ leafUser \in [Places -> BOOLEAN]
    /\ \A d \in Dirs : dirUser[d] => dir[d] \in Pool
    /\ \A place \in Places :
           /\ leaf[place] # None => dir[DirOf(place)] \in Pool
           /\ leafUser[place] => leaf[place] # None
    /\ granted \in [Spaces -> SUBSET Pages]
    /\ handed \subseteq Pool
    /\ stage \in {"heap", "threads", "load", "run", "hung", "panicked", "wild"}

\* A program can use a page only where it leads to a frame that programs were
\* given, through either name of the shared tree: the flags merged into the
\* upper entries on behalf of one page open neither its neighbours in the table
\* nor the pages of the 2 MB page that was split.
UserSeesOnlyUserPages ==
    stage # "wild" =>
        \A s \in Spaces, v \in Pages : Accessible(s, v) => Translate(s, v) \in handed

\* The pages of the stacks that the kernel maps.
Taken == UNION {KStack[i] : i \in DOMAIN KStack}

\* What a program was given stays usable in its space, whatever the kernel and
\* the other programs map into the tree that they all share, unless the program
\* asked for a page where the kernel puts a stack.
GrantedStaysUsable ==
    stage # "wild" =>
        \A s \in Spaces : \A v \in granted[s] :
            Place(s, v) \notin {Shared} \X Taken => Accessible(s, v)

Tables == {dir[d] : d \in Dirs} \cup {p4[s] : s \in Spaces \cup {Kernel}}

\* The places whose frame is a program's, or another than the identity map's.
Remapped ==
    {place \in Places :
        leaf[place] # None /\ (leafUser[place] \/ leaf[place] # place[2])}

\* A frame that mm_alloc handed out has one use: one page or one table, and it
\* is not free, until sys_mem_free hangs half way.
OneUseOfAFrame ==
    stage # "wild" =>
        /\ \A a, b \in Remapped : leaf[a] = leaf[b] => a = b
        /\ \A a \in Remapped : leaf[a] \notin Tables
        /\ stage # "hung" => \A a \in Remapped : leaf[a] \notin free
        /\ Tables \cap free = {}

\* Mapping a page changes the translation of that page alone, under both its
\* names: what changes in any space leads to a frame that was free before.
TouchesOnlyItsPages ==
    [][stage' # "wild" => \A s \in Spaces, v \in Pages :
           Translate(s, v)' # Translate(s, v) => Translate(s, v)' \in free]_vars

----
(***************************************************************************)
(* What comments say and the code does not do.                             *)
(***************************************************************************)
\* "Allocate a new P4 that inherits all kernel mappings" (vmm.rs:310): what a
\* program does leaves the kernel's heap mapped as it is.
KernelHeapKept ==
    [][stage = "run" => \A v \in Heap : Translate(Kernel, v)'
                                            = Translate(Kernel, v)]_vars

\* "Decrement refcount. Returns true when the frame was freed" (frame.rs:55):
\* freeing a page comes back to the program.
FreeReturns == stage # "hung"

\* "check whether an address is accessible from ring-3" (vmm.rs:18): valid_user
\* finds the tables of the pages that programs use.
ChecksReachTables ==
    stage = "run" => \A s \in Spaces : \A v \in granted[s] :
        Accessible(s, v) => valid_user(s, v) = {TRUE}
====
