---- MODULE BlockCache ----
(***************************************************************************)
(* The block cache of the file system server (userspace/src/filesystem/    *)
(* cache.zig) with the sector operations of io.zig above it and the device *)
(* of block.zig below.  The server is one thread: a call is one step.      *)
(*                                                                         *)
(* The lines form a doubly linked list from the most to the least recently *)
(* used.  A sector is a function from its parts (bytes that are written    *)
(* together) to values.  A failed transfer leaves the buffer and the disk  *)
(* as they were: the driver gives up before the first word (drive.odin).   *)
(***************************************************************************)
EXTENDS Integers, SequencesExt

CONSTANTS
    CACHE_LINES,  \* lines of the cache; 256 in the code
    Sectors,      \* sector_count of the device
    Parts,        \* the parts of a sector
    Values,       \* what is written
    Zero,         \* a zeroed part
    Writes,       \* bound: the writes considered, as <<lba, part, value>>
    Zeroed,       \* bound: the sectors that are zeroed
    ReadErrors,   \* the sectors whose reads may fail
    WriteErrors   \* the sectors whose writes may fail

Lines == 0 .. CACHE_LINES - 1

Lbas == 0 .. Sectors - 1

None == -1    \* INVALID_IDX

ASSUME CacheAssumption ==
    /\ CACHE_LINES \in Nat \ {0}
    /\ Sectors \in Nat \ {0}
    /\ Writes \subseteq Lbas \X Parts \X Values
    /\ Zeroed \subseteq Lbas

VARIABLES
    tag,      \* CacheLine.lba
    valid,    \* CacheLine.valid
    dirty,    \* CacheLine.dirty
    data,     \* CacheLine.data
    lru,      \* the list: CacheLine.prev and next, lru_head and lru_tail
    alive,    \* FALSE after an access to a line that does not exist
    disk,     \* the content of the device
    content,  \* ledger: what the sectors were last written with
    order,    \* ledger: the linked lines, the last used first
    answer    \* what the last call read: {}, or one pair <<sector, data>>

vars == <<tag, valid, dirty, data, lru, alive, disk, content, order, answer>>

Contents == [Parts -> Values \cup {Zero} \cup (Lbas \X Parts)]

Zeros == [part \in Parts |-> Zero]

AllOff == [i \in Lines |-> FALSE]

\* The order s once line i is out of the list.
Without(s, i) ==
    IF \E k \in DOMAIN s : s[k] = i
    THEN RemoveAt(s, CHOOSE k \in DOMAIN s : s[k] = i)
    ELSE s

\* The state of BlockCache.init.
FreshTag == [i \in Lines |-> 0]
FreshData == [i \in Lines |-> Zeros]
FreshLru ==
    [prev |-> [i \in Lines |-> IF i = 0 THEN None ELSE i - 1],
     next |-> [i \in Lines |-> IF i = CACHE_LINES - 1 THEN None ELSE i + 1],
     head |-> 0,
     tail |-> CACHE_LINES - 1]
FreshOrder == [k \in 1 .. CACHE_LINES |-> k - 1]

\* Every part of every sector has a content of its own to start with.
Init ==
    /\ tag = FreshTag /\ valid = AllOff /\ dirty = AllOff /\ data = FreshData
    /\ lru = FreshLru /\ order = FreshOrder
    /\ alive = TRUE
    /\ disk = [l \in Lbas |-> [part \in Parts |-> <<l, part>>]]
    /\ content = disk
    /\ answer = {}

(***************************************************************************)
(* The list.                                                               *)
(***************************************************************************)
\* Seeded fault: the line before the detached one keeps pointing at it.
Detach_OneWay(l, i) ==
    [prev |-> [j \in Lines |-> IF j = i THEN None
                               ELSE IF j = l.next[i] THEN l.prev[i] ELSE l.prev[j]],
     next |-> [l.next EXCEPT ![i] = None],
     head |-> IF l.head = i THEN l.next[i] ELSE l.head,
     tail |-> IF l.tail = i THEN l.prev[i] ELSE l.tail]

Detach(l, i) ==
    [prev |-> [j \in Lines |-> IF j = i THEN None
                               ELSE IF j = l.next[i] THEN l.prev[i] ELSE l.prev[j]],
     next |-> [j \in Lines |-> IF j = i THEN None
                               ELSE IF j = l.prev[i] THEN l.next[i] ELSE l.next[j]],
     head |-> IF l.head = i THEN l.next[i] ELSE l.head,
     tail |-> IF l.tail = i THEN l.prev[i] ELSE l.tail]

PushFront(l, i) ==
    [prev |-> [j \in Lines |-> IF j = i THEN None
                               ELSE IF j = l.head THEN i ELSE l.prev[j]],
     next |-> [l.next EXCEPT ![i] = l.head],
     head |-> i,
     tail |-> IF l.tail = None THEN i ELSE l.tail]

PromoteToFront(l, i) == IF l.head = i THEN l ELSE PushFront(Detach(l, i), i)

(***************************************************************************)
(* Finding a sector: readBlock and getWritable, which differ in their      *)
(* statistics only.                                                        *)
(***************************************************************************)
Holds(i, lba) == valid[i] /\ tag[i] = lba

IsMiss(lba) == \A i \in Lines : ~Holds(i, lba)

\* findLine: the first line that holds the sector.
IsHit(lba, i) == Holds(i, lba) /\ \A j \in Lines : j < i => ~Holds(j, lba)

\* Seeded fault: a dirty line is given away without being written back.
Cleaned_Never(i) == disk

\* The disk once line i, if dirty, is written back (writebackLine).
Cleaned(i) == IF dirty[i] THEN [disk EXCEPT ![tag[i]] = data[i]] ELSE disk

Hit(lba, i) ==
    /\ IsHit(lba, i)
    /\ lru' = PromoteToFront(lru, i)
    /\ UNCHANGED <<tag, valid, disk>>

\* evict of line i, for a sector that can be read.
Miss(lba, i) ==
    /\ IsMiss(lba)
    /\ i = lru.tail /\ i # None
    /\ disk' = Cleaned(i)
    /\ tag' = [tag EXCEPT ![i] = lba]
    /\ valid' = [valid EXCEPT ![i] = TRUE]
    /\ lru' = PushFront(Detach(lru, i), i)

Fetch(lba, i) ==
    /\ alive
    /\ Hit(lba, i) \/ Miss(lba, i)
    /\ order' = <<i>> \o Without(order, i)
    /\ UNCHANGED alive

\* The data that Fetch(lba, i) hands to its caller, and whether it is dirty.
Fetched(lba, i) == IF Holds(i, lba) THEN data[i] ELSE disk'[lba]

StillDirty(lba, i) == Holds(i, lba) /\ dirty[i]

\* The victim cannot be written back: only the statistics change.
EvictFails(lba) ==
    /\ alive
    /\ IsMiss(lba)
    /\ lru.tail # None
    /\ dirty[lru.tail]
    /\ tag[lru.tail] \in WriteErrors
    /\ answer' = {}
    /\ UNCHANGED <<tag, valid, dirty, data, lru, alive, disk, content, order>>

\* The sector cannot be read: by then the line is out of the list, and says
\* that it holds the sector, with the data of the one before.
ReadFails(lba) ==
    /\ alive
    /\ IsMiss(lba)
    /\ lba \in ReadErrors
    /\ lru.tail # None
    /\ disk' = Cleaned(lru.tail)
    /\ tag' = [tag EXCEPT ![lru.tail] = lba]
    /\ valid' = [valid EXCEPT ![lru.tail] = TRUE]
    /\ dirty' = [dirty EXCEPT ![lru.tail] = FALSE]
    /\ lru' = Detach(lru, lru.tail)
    /\ order' = Without(order, lru.tail)
    /\ answer' = {}
    /\ UNCHANGED <<data, alive, content>>

\* evict when no line is left in the list: INVALID_IDX is used as an index.
NoVictim(lba) ==
    /\ alive
    /\ IsMiss(lba)
    /\ lru.tail = None
    /\ alive' = FALSE
    /\ answer' = {}
    /\ UNCHANGED <<tag, valid, dirty, data, lru, disk, content, order>>

(***************************************************************************)
(* The calls that succeed.                                                 *)
(***************************************************************************)
ReadPartial(lba) ==
    \E i \in Lines :
        /\ Fetch(lba, i)
        /\ data' = [data EXCEPT ![i] = Fetched(lba, i)]
        /\ dirty' = [dirty EXCEPT ![i] = StillDirty(lba, i)]
        /\ answer' = {<<lba, Fetched(lba, i)>>}
        /\ UNCHANGED content

\* Seeded fault: a line that was written to while it was clean stays clean.
WritePartial_Unmarked(lba, part, v) ==
    \E i \in Lines :
        /\ Fetch(lba, i)
        /\ data' = [data EXCEPT ![i] = [Fetched(lba, i) EXCEPT ![part] = v]]
        /\ dirty' = [dirty EXCEPT ![i] = StillDirty(lba, i)]
        /\ content' = [content EXCEPT ![lba][part] = v]
        /\ answer' = {}

WritePartial(lba, part, v) ==
    \E i \in Lines :
        /\ Fetch(lba, i)
        /\ data' = [data EXCEPT ![i] = [Fetched(lba, i) EXCEPT ![part] = v]]
        /\ dirty' = [dirty EXCEPT ![i] = TRUE]
        /\ content' = [content EXCEPT ![lba][part] = v]
        /\ answer' = {}

ZeroBlock(lba) ==
    \E i \in Lines :
        /\ Fetch(lba, i)
        /\ data' = [data EXCEPT ![i] = Zeros]
        /\ dirty' = [dirty EXCEPT ![i] = TRUE]
        /\ content' = [content EXCEPT ![lba] = Zeros]
        /\ answer' = {}

\* flushAll: the lines that cannot be written stay dirty; nobody is told.
FlushAll ==
    /\ alive
    /\ \E kept \in SUBSET {i \in Lines : dirty[i] /\ tag[i] \in WriteErrors} :
           LET written == {i \in Lines : valid[i] /\ dirty[i]} \ kept
               Line(l) == CHOOSE i \in written : tag[i] = l
           IN  /\ dirty' = [i \in Lines |-> dirty[i] /\ i \notin written]
               /\ disk' = [l \in Lbas |-> IF \E i \in written : tag[i] = l
                                          THEN data[Line(l)] ELSE disk[l]]
    /\ answer' = {}
    /\ UNCHANGED <<tag, valid, data, lru, alive, content, order>>

\* Without a flush, what was written is given up.
InvalidateAll ==
    /\ alive
    /\ valid' = AllOff
    /\ dirty' = AllOff
    /\ content' = disk
    /\ answer' = {}
    /\ UNCHANGED <<tag, data, lru, alive, disk, order>>

\* The server starts again: autoMount calls BlockCache.init.
AutoMount ==
    /\ tag' = FreshTag /\ valid' = AllOff /\ dirty' = AllOff /\ data' = FreshData
    /\ lru' = FreshLru /\ order' = FreshOrder
    /\ alive' = TRUE
    /\ content' = disk
    /\ answer' = {}
    /\ UNCHANGED disk

Next ==
    \/ \E lba \in Lbas : EvictFails(lba) \/ ReadFails(lba) \/ NoVictim(lba)
    \/ \E lba \in Lbas : ReadPartial(lba)
    \/ \E w \in Writes : WritePartial(w[1], w[2], w[3])
    \/ \E lba \in Zeroed : ZeroBlock(lba)
    \/ FlushAll
    \/ InvalidateAll
    \/ AutoMount

Spec == Init /\ [][Next]_vars

(***************************************************************************)
(* Properties.                                                             *)
(***************************************************************************)
\* Every field of the cache, the disk and the ledgers is well typed, and a
\* dirty line is a valid one.
TypeOK ==
    /\ tag \in [Lines -> Lbas]
    /\ valid \in [Lines -> BOOLEAN]
    /\ dirty \in [Lines -> BOOLEAN]
    /\ \A i \in Lines : dirty[i] => valid[i]
    /\ data \in [Lines -> Contents]
    /\ lru \in [prev : [Lines -> Lines \cup {None}], next : [Lines -> Lines \cup {None}],
                head : Lines \cup {None}, tail : Lines \cup {None}]
    /\ alive \in BOOLEAN
    /\ disk \in [Lbas -> Contents]
    /\ content \in [Lbas -> Contents]
    /\ answer \in SUBSET (Lbas \X Contents)

At(k) == IF k \in 1 .. Len(order) THEN order[k] ELSE None

\* Read from either end, the list is the lines in the order of their last
\* use, and lines that a failed read took out of it point nowhere: detach and
\* pushFront keep both directions, head and tail in step.
ListIsRecency ==
    /\ lru.head = At(1)
    /\ lru.tail = At(Len(order))
    /\ \A k \in 1 .. Len(order) :
           /\ lru.next[At(k)] = At(k + 1)
           /\ lru.prev[At(k)] = At(k - 1)
    /\ \A i \in Lines \ {order[k] : k \in 1 .. Len(order)} :
           lru.next[i] = None /\ lru.prev[i] = None

\* The sectors that can always be read.
Good == Lbas \ ReadErrors

\* No two lines hold one sector; a line of a good sector has what was last
\* written to the sector, and so has the disk unless the line is dirty.
\* Eviction, flushes that fail half way and errors on other sectors keep it.
Coherent ==
    /\ \A i, j \in Lines : valid[i] /\ valid[j] /\ tag[i] = tag[j] => i = j
    /\ \A i \in Lines : valid[i] /\ tag[i] \in Good => data[i] = content[tag[i]]
    /\ \A l \in Good :
           (\A i \in Lines : ~(Holds(i, l) /\ dirty[i])) => disk[l] = content[l]

\* For the sectors that can always be read, the cache over the device is an
\* array of sectors, whatever happens to the others.
Store == INSTANCE SectorStore WITH
    Lbas <- Good,
    disk <- [l \in Good |-> disk[l]],
    content <- [l \in Good |-> content[l]],
    answer <- {a \in answer : a[1] \in Good}

ImplementsStore == Store!Spec

\* readBlock returns a pointer to the sector's data (cache.zig:119).
ReadsReturnSector == \A a \in answer : a[2] = content[a[1]]
====
