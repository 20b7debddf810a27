---- MODULE BlockCache_proofs ----
(***************************************************************************)
(* For every number of lines and sectors, and whichever sectors cannot be  *)
(* read or written: the cache is coherent for the sectors that can be      *)
(* read, and implements SectorStore for them, for which any choice of      *)
(* victim would do; and the list that chooses the victim is the order of   *)
(* the last use.                                                           *)
(***************************************************************************)
EXTENDS BlockCache, SequenceTheorems, TLAPS

USE DEF Lines, Lbas, None

Inv == TypeOK /\ Coherent

\* The data of a sector are data of a sector after one part is written.
LEMMA PartWritten ==
    ASSUME NEW d \in Contents, NEW part \in Parts, NEW v \in Values
    PROVE  [d EXCEPT ![part] = v] \in Contents
BY DEF Contents

\* Zeros are the data of a sector.
LEMMA ZerosAreData == Zeros \in Contents
BY DEF Zeros, Contents

\* The list operations keep the links among the lines.
LEMMA ListTyped ==
    ASSUME NEW l, NEW i \in Lines,
           l \in [prev : [Lines -> Lines \cup {None}],
                  next : [Lines -> Lines \cup {None}],
                  head : Lines \cup {None}, tail : Lines \cup {None}]
    PROVE  /\ Detach(l, i) \in [prev : [Lines -> Lines \cup {None}],
                                next : [Lines -> Lines \cup {None}],
                                head : Lines \cup {None}, tail : Lines \cup {None}]
           /\ PushFront(l, i) \in [prev : [Lines -> Lines \cup {None}],
                                   next : [Lines -> Lines \cup {None}],
                                   head : Lines \cup {None}, tail : Lines \cup {None}]
<1>1. Detach(l, i) \in [prev : [Lines -> Lines \cup {None}],
                        next : [Lines -> Lines \cup {None}],
                        head : Lines \cup {None}, tail : Lines \cup {None}]
  BY DEF Detach
<1>2. PushFront(l, i) \in [prev : [Lines -> Lines \cup {None}],
                           next : [Lines -> Lines \cup {None}],
                           head : Lines \cup {None}, tail : Lines \cup {None}]
  BY DEF PushFront
<1>. QED
  BY <1>1, <1>2

\* Writing a line back changes at most the sector the line holds.
LEMMA WrittenBack ==
    ASSUME TypeOK, NEW i \in Lines
    PROVE  /\ Cleaned(i) \in [Lbas -> Contents]
           /\ \A l \in Lbas :
                  Cleaned(i)[l] = IF dirty[i] /\ tag[i] = l THEN data[i] ELSE disk[l]
BY DEF TypeOK, Cleaned

\* Hit or miss, afterwards line i holds the sector and no other line does.
LEMMA Fetching ==
    ASSUME Inv, NEW lba \in Lbas, NEW i \in Lines, Fetch(lba, i)
    PROVE  /\ tag' = [tag EXCEPT ![i] = lba]
           /\ valid' = [valid EXCEPT ![i] = TRUE]
           /\ \A j \in Lines : Holds(j, lba) => j = i
           /\ lru' \in [prev : [Lines -> Lines \cup {None}],
                        next : [Lines -> Lines \cup {None}],
                        head : Lines \cup {None}, tail : Lines \cup {None}]
           /\ alive' = alive
<1>. USE DEF TypeOK, Inv
<1>1. CASE Hit(lba, i)
  <2>1. /\ valid[i] /\ tag[i] = lba
        /\ tag' = tag /\ valid' = valid /\ alive' = alive
        /\ lru' = PromoteToFront(lru, i)
    BY <1>1 DEF Hit, IsHit, Holds, Fetch
  <2>2. \A j \in Lines : Holds(j, lba) => j = i
    BY <2>1 DEF Holds, Coherent
  <2>3. tag = [tag EXCEPT ![i] = lba] /\ valid = [valid EXCEPT ![i] = TRUE]
    BY <2>1
  <2>4. lru' \in [prev : [Lines -> Lines \cup {None}],
                  next : [Lines -> Lines \cup {None}],
                  head : Lines \cup {None}, tail : Lines \cup {None}]
    BY <2>1, ListTyped DEF PromoteToFront
  <2>. QED
    BY <2>1, <2>2, <2>3, <2>4
<1>2. CASE Miss(lba, i)
  <2>1. lru' = PushFront(Detach(lru, i), i)
    BY <1>2 DEF Miss
  <2>2. lru' \in [prev : [Lines -> Lines \cup {None}],
                  next : [Lines -> Lines \cup {None}],
                  head : Lines \cup {None}, tail : Lines \cup {None}]
    BY <2>1, ListTyped
  <2>. QED
    BY <1>2, <2>2 DEF Miss, IsMiss, Fetch
<1>. QED
  BY <1>1, <1>2 DEF Fetch

\* What a fetch does to the disk, and the data it hands out.
LEMMA FetchedData ==
    ASSUME Inv, NEW lba \in Lbas, NEW i \in Lines, Fetch(lba, i)
    PROVE  /\ disk' \in [Lbas -> Contents]
           /\ \A l \in Lbas :
                  disk'[l] = IF ~Holds(i, lba) /\ dirty[i] /\ tag[i] = l
                             THEN data[i] ELSE disk[l]
           /\ Fetched(lba, i) \in Contents
           /\ lba \in Good => Fetched(lba, i) = content[lba]
<1>. USE DEF TypeOK, Inv
<1>1. CASE Hit(lba, i)
  <2>1. Holds(i, lba) /\ disk' = disk
    BY <1>1 DEF Hit, IsHit
  <2>2. Fetched(lba, i) = data[i]
    BY <2>1 DEF Fetched
  <2>3. lba \in Good => data[i] = content[lba]
    BY <2>1 DEF Holds, Coherent
  <2>. QED
    BY <2>1, <2>2, <2>3
<1>2. CASE Miss(lba, i)
  <2>1. ~Holds(i, lba) /\ disk' = Cleaned(i)
    BY <1>2 DEF Miss, IsMiss
  <2>2. Fetched(lba, i) = disk'[lba]
    BY <2>1 DEF Fetched
  <2>3. ~(dirty[i] /\ tag[i] = lba)
    BY <2>1 DEF Holds
  <2>4. disk'[lba] = disk[lba]
    BY <2>1, <2>3, WrittenBack
  <2>5. lba \in Good => disk[lba] = content[lba]
    BY <1>2 DEF Miss, IsMiss, Coherent
  <2>. QED
    BY <2>1, <2>2, <2>4, <2>5, WrittenBack
<1>. QED
  BY <1>1, <1>2 DEF Fetch

(***************************************************************************)
(* A call that fetches a sector, makes d of its data and c of its content, *)
(* and leaves the line dirty or not.                                       *)
(***************************************************************************)
\* Such a call keeps the cache coherent if what it makes of the data is what
\* it makes of the content, and a line it leaves clean was not written to.
LEMMA CallKeeps ==
    ASSUME Inv, NEW lba \in Lbas, NEW i \in Lines, Fetch(lba, i),
           NEW d \in Contents, NEW c \in Contents, NEW marked \in BOOLEAN,
           data' = [data EXCEPT ![i] = d],
           dirty' = [dirty EXCEPT ![i] = marked],
           content' = [content EXCEPT ![lba] = c],
           lba \in Good => d = c,
           ~marked => c = content[lba] /\ ~StillDirty(lba, i)
    PROVE  /\ Coherent'
           /\ answer' \in SUBSET (Lbas \X Contents) => TypeOK'
<1>. USE DEF TypeOK, Inv
<1>1. /\ tag' = [tag EXCEPT ![i] = lba]
      /\ valid' = [valid EXCEPT ![i] = TRUE]
      /\ \A j \in Lines : Holds(j, lba) => j = i
      /\ lru' \in [prev : [Lines -> Lines \cup {None}],
                   next : [Lines -> Lines \cup {None}],
                   head : Lines \cup {None}, tail : Lines \cup {None}]
      /\ alive' = alive
  BY Fetching
<1>2. /\ disk' \in [Lbas -> Contents]
      /\ \A l \in Lbas :
             disk'[l] = IF ~Holds(i, lba) /\ dirty[i] /\ tag[i] = l
                        THEN data[i] ELSE disk[l]
  BY FetchedData
<1>3. answer' \in SUBSET (Lbas \X Contents) => TypeOK'
  BY <1>1, <1>2
<1>4. (\A j, k \in Lines : valid[j] /\ valid[k] /\ tag[j] = tag[k] => j = k)'
  BY <1>1 DEF Coherent, Holds
<1>5. (\A j \in Lines : valid[j] /\ tag[j] \in Good => data[j] = content[tag[j]])'
  <2>. SUFFICES ASSUME NEW j \in Lines, valid'[j], tag'[j] \in Good
                PROVE  data'[j] = content'[tag'[j]]
    BY DEF Good
  <2>1. CASE j = i
    BY <2>1, <1>1
  <2>2. CASE j # i
    <3>1. valid[j] /\ tag'[j] = tag[j] /\ data'[j] = data[j] /\ tag[j] # lba
      BY <2>2, <1>1 DEF Holds
    <3>. QED
      BY <3>1 DEF Coherent
  <2>. QED
    BY <2>1, <2>2
<1>6. ASSUME NEW l \in Good, \A j \in Lines : ~(Holds(j, l)' /\ dirty'[j])
      PROVE  disk'[l] = content'[l]
  <2>. l \in Lbas
    BY DEF Good
  <2>1. CASE l = lba
    <3>1. Holds(i, l)' /\ dirty'[i] = marked
      BY <2>1, <1>1 DEF Holds
    <3>2. ~marked
      BY <3>1, <1>6
    <3>3. c = content[lba] /\ \A j \in Lines : ~(Holds(j, lba) /\ dirty[j])
      BY <3>2, <1>1 DEF StillDirty
    <3>4. disk[lba] = content[lba]
      BY <3>3, <2>1 DEF Coherent
    <3>5. disk'[lba] = disk[lba]
      BY <1>2 DEF Holds
    <3>. QED
      BY <2>1, <3>3, <3>4, <3>5
  <2>2. CASE l # lba
    <3>1. content'[l] = content[l]
      BY <2>2
    <3>2. CASE Holds(i, l) /\ dirty[i]
      <4>1. ~Holds(i, lba) /\ tag[i] = l /\ data[i] = content[l]
        BY <3>2, <2>2 DEF Holds, Coherent
      <4>. QED
        BY <3>1, <3>2, <4>1, <1>2
    <3>3. CASE ~(Holds(i, l) /\ dirty[i])
      <4>1. disk'[l] = disk[l]
        BY <3>3, <1>2 DEF Holds
      <4>2. \A j \in Lines : ~(Holds(j, l) /\ dirty[j])
        BY <3>3, <1>1, <1>6, <2>2 DEF Holds
      <4>. QED
        BY <3>1, <4>1, <4>2 DEF Coherent
    <3>. QED
      BY <3>2, <3>3
  <2>. QED
    BY <2>1, <2>2
<1>. QED
  BY <1>3, <1>4, <1>5, <1>6 DEF Coherent, Good

\* Such a call may write back a sector, and then writes what it should be.
LEMMA CallSettles ==
    ASSUME Inv, NEW lba \in Lbas, NEW i \in Lines, Fetch(lba, i)
    PROVE  \A l \in Good : disk'[l] = disk[l] \/ disk'[l] = content[l]
BY FetchedData DEF Inv, TypeOK, Coherent, Good, Holds

(***************************************************************************)
(* The calls.                                                              *)
(***************************************************************************)
LEMMA ReadKeeps ==
    ASSUME Inv, NEW lba \in Lbas, ReadPartial(lba)
    PROVE  Inv'
<1>1. PICK i \in Lines :
          /\ Fetch(lba, i)
          /\ data' = [data EXCEPT ![i] = Fetched(lba, i)]
          /\ dirty' = [dirty EXCEPT ![i] = StillDirty(lba, i)]
          /\ answer' = {<<lba, Fetched(lba, i)>>}
          /\ content' = content
  BY DEF ReadPartial
<1>2. Fetched(lba, i) \in Contents /\ (lba \in Good => Fetched(lba, i) = content[lba])
  BY <1>1, FetchedData
<1>3. StillDirty(lba, i) \in BOOLEAN
  BY DEF StillDirty
<1>4. content' = [content EXCEPT ![lba] = content[lba]] /\ content[lba] \in Contents
  BY <1>1 DEF Inv, TypeOK
<1>5. answer' \in SUBSET (Lbas \X Contents)
  BY <1>1, <1>2
<1>. QED
  BY <1>1, <1>2, <1>3, <1>4, <1>5, CallKeeps DEF Inv

\* A write of one part is such a call,
LEMMA WriteKeeps ==
    ASSUME Inv, NEW lba \in Lbas, NEW part \in Parts, NEW v \in Values,
           WritePartial(lba, part, v)
    PROVE  Inv'
<1>1. PICK i \in Lines :
          /\ Fetch(lba, i)
          /\ data' = [data EXCEPT ![i] = [Fetched(lba, i) EXCEPT ![part] = v]]
          /\ dirty' = [dirty EXCEPT ![i] = TRUE]
          /\ content' = [content EXCEPT ![lba][part] = v]
          /\ answer' = {}
  BY DEF WritePartial
<1>. DEFINE d == [Fetched(lba, i) EXCEPT ![part] = v]
            c == [content[lba] EXCEPT ![part] = v]
<1>2. Fetched(lba, i) \in Contents /\ (lba \in Good => Fetched(lba, i) = content[lba])
  BY <1>1, FetchedData
<1>3. content[lba] \in Contents
  BY DEF Inv, TypeOK
<1>4. d \in Contents /\ c \in Contents
  BY <1>2, <1>3, PartWritten
<1>5. (lba \in Good => d = c) /\ content' = [content EXCEPT ![lba] = c]
  BY <1>1, <1>2
<1>6. answer' \in SUBSET (Lbas \X Contents)
  BY <1>1
<1>. HIDE DEF d, c
<1>7. data' = [data EXCEPT ![i] = d]
  BY <1>1 DEF d
<1>. QED
  BY <1>1, <1>4, <1>5, <1>6, <1>7, CallKeeps DEF Inv

\* and so is zeroing a sector.
LEMMA ZeroKeeps ==
    ASSUME Inv, NEW lba \in Lbas, ZeroBlock(lba)
    PROVE  Inv'
<1>1. PICK i \in Lines :
          /\ Fetch(lba, i)
          /\ data' = [data EXCEPT ![i] = Zeros]
          /\ dirty' = [dirty EXCEPT ![i] = TRUE]
          /\ content' = [content EXCEPT ![lba] = Zeros]
          /\ answer' = {}
  BY DEF ZeroBlock
<1>2. answer' \in SUBSET (Lbas \X Contents)
  BY <1>1
<1>. QED
  BY <1>1, <1>2, ZerosAreData, CallKeeps DEF Inv

\* A victim that goes out of the list over a sector that cannot be read.
LEMMA FailedReadKeeps ==
    ASSUME Inv, NEW lba \in Lbas, ReadFails(lba)
    PROVE  Inv'
<1>. USE DEF Inv, TypeOK
<1>. DEFINE i == lru.tail
<1>1. /\ i \in Lines /\ lba \in Lbas \ Good
      /\ \A j \in Lines : ~Holds(j, lba)
      /\ disk' = Cleaned(i)
      /\ tag' = [tag EXCEPT ![i] = lba]
      /\ valid' = [valid EXCEPT ![i] = TRUE]
      /\ dirty' = [dirty EXCEPT ![i] = FALSE]
      /\ lru' = Detach(lru, i)
      /\ answer' = {} /\ data' = data /\ alive' = alive /\ content' = content
  BY DEF ReadFails, IsMiss, Good
<1>. HIDE DEF i
<1>2. /\ disk' \in [Lbas -> Contents]
      /\ \A l \in Lbas :
             disk'[l] = IF dirty[i] /\ tag[i] = l THEN data[i] ELSE disk[l]
  BY <1>1, WrittenBack
<1>3. TypeOK'
  BY <1>1, <1>2, ListTyped
<1>4. (\A j, k \in Lines : valid[j] /\ valid[k] /\ tag[j] = tag[k] => j = k)'
  BY <1>1 DEF Coherent, Holds
<1>5. (\A j \in Lines : valid[j] /\ tag[j] \in Good => data[j] = content[tag[j]])'
  BY <1>1 DEF Coherent, Good
<1>6. ASSUME NEW l \in Good, \A j \in Lines : ~(Holds(j, l)' /\ dirty'[j])
      PROVE  disk'[l] = content'[l]
  <2>. l \in Lbas
    BY DEF Good
  <2>1. CASE Holds(i, l) /\ dirty[i]
    BY <2>1, <1>1, <1>2 DEF Holds, Coherent
  <2>2. CASE ~(Holds(i, l) /\ dirty[i])
    <3>1. disk'[l] = disk[l]
      BY <2>2, <1>1, <1>2 DEF Holds
    <3>2. \A j \in Lines : ~(Holds(j, l) /\ dirty[j])
      BY <2>2, <1>1, <1>6 DEF Holds
    <3>. QED
      BY <3>1, <3>2, <1>1 DEF Coherent
  <2>. QED
    BY <2>1, <2>2
<1>. QED
  BY <1>3, <1>4, <1>5, <1>6 DEF Coherent, Good

\* What a flush does to the disk: sectors of dirty lines get their data.
LEMMA Flushing ==
    ASSUME Inv, FlushAll
    PROVE  /\ disk' \in [Lbas -> Contents]
           /\ \A l \in Lbas : \/ disk'[l] = disk[l]
                              \/ \E i \in Lines : Holds(i, l) /\ disk'[l] = data[i]
           /\ \A i \in Lines : dirty[i] =>
                  dirty'[i] \/ disk'[tag[i]] = data[i]
           /\ \A i \in Lines : dirty'[i] => dirty[i]
           /\ dirty' \in [Lines -> BOOLEAN]
<1>. USE DEF Inv, TypeOK
<1>1. PICK kept \in SUBSET {i \in Lines : dirty[i] /\ tag[i] \in WriteErrors} :
          LET written == {i \in Lines : valid[i] /\ dirty[i]} \ kept
              Line(l) == CHOOSE i \in written : tag[i] = l
          IN  /\ dirty' = [i \in Lines |-> dirty[i] /\ i \notin written]
              /\ disk' = [l \in Lbas |-> IF \E i \in written : tag[i] = l
                                         THEN data[Line(l)] ELSE disk[l]]
  BY DEF FlushAll
<1>. DEFINE written == {i \in Lines : valid[i] /\ dirty[i]} \ kept
            Line(l) == CHOOSE i \in written : tag[i] = l
<1>2. /\ dirty' = [i \in Lines |-> dirty[i] /\ i \notin written]
      /\ disk' = [l \in Lbas |-> IF \E i \in written : tag[i] = l
                                 THEN data[Line(l)] ELSE disk[l]]
  BY <1>1
<1>3. \A i \in written : i \in Lines /\ valid[i] /\ dirty[i]
  OBVIOUS
<1>4. \A i \in Lines : dirty[i] => valid[i]
  OBVIOUS
<1>5. ASSUME NEW l \in Lbas, \E i \in written : tag[i] = l
      PROVE  Line(l) \in written /\ tag[Line(l)] = l
  BY <1>5
<1>6. \A i \in written : Line(tag[i]) = i
  <2>. SUFFICES ASSUME NEW i \in written
                PROVE  Line(tag[i]) = i
    OBVIOUS
  <2>1. tag[i] \in Lbas
    BY <1>3
  <2>2. Line(tag[i]) \in written /\ tag[Line(tag[i])] = tag[i]
    BY <1>5, <2>1
  <2>. QED
    BY <2>2, <1>3 DEF Coherent
<1>7. \A i \in Lines : dirty[i] => dirty'[i] \/ i \in written
  BY <1>2
<1>. HIDE DEF written, Line
<1>8. disk' \in [Lbas -> Contents]
  BY <1>2, <1>3, <1>5
<1>9. \A l \in Lbas : \/ disk'[l] = disk[l]
                      \/ \E i \in Lines : Holds(i, l) /\ disk'[l] = data[i]
  BY <1>2, <1>3, <1>5 DEF Holds
<1>10. \A i \in written : disk'[tag[i]] = data[i]
  <2>. SUFFICES ASSUME NEW i \in written
                PROVE  disk'[tag[i]] = data[i]
    OBVIOUS
  <2>1. tag[i] \in Lbas
    BY <1>3
  <2>. QED
    BY <2>1, <1>2, <1>6
<1>11. /\ dirty' \in [Lines -> BOOLEAN]
       /\ \A i \in Lines : dirty'[i] => dirty[i]
  BY <1>2
<1>. QED
  BY <1>7, <1>8, <1>9, <1>10, <1>11

\* A flush keeps the cache coherent, whichever lines stay dirty.
LEMMA FlushKeeps ==
    ASSUME Inv, FlushAll
    PROVE  Inv'
<1>. USE DEF Inv, TypeOK
<1>1. /\ answer' = {}
      /\ UNCHANGED <<tag, valid, data, lru, alive, content, order>>
  BY DEF FlushAll
<1>2. TypeOK'
  BY <1>1, Flushing
<1>3. ASSUME NEW l \in Good, \A j \in Lines : ~(Holds(j, l)' /\ dirty'[j])
      PROVE  disk'[l] = content'[l]
  <2>. l \in Lbas
    BY DEF Good
  <2>1. CASE \E i \in Lines : Holds(i, l) /\ dirty[i]
    <3>1. PICK i \in Lines : Holds(i, l) /\ dirty[i]
      BY <2>1
    <3>2. ~dirty'[i] /\ tag[i] = l
      BY <3>1, <1>1, <1>3 DEF Holds
    <3>3. disk'[l] = data[i]
      BY <3>1, <3>2, Flushing
    <3>. QED
      BY <3>1, <3>3, <1>1 DEF Holds, Coherent
  <2>2. CASE \A i \in Lines : ~(Holds(i, l) /\ dirty[i])
    <3>1. disk[l] = content[l]
      BY <2>2 DEF Coherent
    <3>2. \A i \in Lines : Holds(i, l) => data[i] = content[l]
      BY DEF Holds, Coherent
    <3>. QED
      BY <3>1, <3>2, <1>1, Flushing
  <2>. QED
    BY <2>1, <2>2
<1>4. /\ (\A j, k \in Lines : valid[j] /\ valid[k] /\ tag[j] = tag[k] => j = k)'
      /\ (\A j \in Lines : valid[j] /\ tag[j] \in Good => data[j] = content[tag[j]])'
  BY <1>1 DEF Coherent, Good
<1>. QED
  BY <1>2, <1>3, <1>4 DEF Coherent, Good

\* The cache of BlockCache.init is well typed.
LEMMA FreshTyped ==
    /\ FreshTag \in [Lines -> Lbas]
    /\ AllOff \in [Lines -> BOOLEAN]
    /\ FreshData \in [Lines -> Contents]
    /\ FreshLru \in [prev : [Lines -> Lines \cup {None}],
                     next : [Lines -> Lines \cup {None}],
                     head : Lines \cup {None}, tail : Lines \cup {None}]
<1>1. 0 \in Lines /\ CACHE_LINES - 1 \in Lines /\ 0 \in Lbas
  BY CacheAssumption
<1>2. FreshLru \in [prev : [Lines -> Lines \cup {None}],
                    next : [Lines -> Lines \cup {None}],
                    head : Lines \cup {None}, tail : Lines \cup {None}]
  BY <1>1, CacheAssumption DEF FreshLru
<1>3. FreshTag \in [Lines -> Lbas]
  BY <1>1 DEF FreshTag
<1>. QED
  BY <1>2, <1>3, ZerosAreData DEF AllOff, FreshData

\* The cache starts coherent.
LEMMA InitInv == Init => Inv
<1>. SUFFICES ASSUME Init PROVE Inv
  OBVIOUS
<1>1. disk \in [Lbas -> Contents] /\ content = disk
  BY DEF Init, Contents
<1>2. TypeOK
  BY <1>1, FreshTyped DEF Init, TypeOK, AllOff
<1>3. Coherent
  BY <1>1 DEF Init, Coherent, AllOff, Holds, Good
<1>. QED
  BY <1>2, <1>3 DEF Inv

\* The calls that write no data keep it so,
LEMMA RestKeeps ==
    ASSUME Inv,
           \/ InvalidateAll
           \/ AutoMount
           \/ \E lba \in Lbas : EvictFails(lba) \/ NoVictim(lba)
           \/ UNCHANGED vars
    PROVE  Inv'
<1>. USE DEF Inv, TypeOK
<1>1. CASE InvalidateAll
  BY <1>1, FreshTyped DEF InvalidateAll, Coherent, AllOff, Holds, Good
<1>2. CASE AutoMount
  BY <1>2, FreshTyped DEF AutoMount, Coherent, AllOff, Holds, Good
<1>3. CASE \E lba \in Lbas : EvictFails(lba) \/ NoVictim(lba)
  <2>1. /\ answer' = {} /\ alive' \in BOOLEAN
        /\ UNCHANGED <<tag, valid, dirty, data, lru, disk, content>>
    BY <1>3 DEF EvictFails, NoVictim
  <2>. QED
    BY <2>1 DEF Coherent, Holds, Good
<1>4. CASE UNCHANGED vars
  BY <1>4 DEF vars, Coherent, Holds, Good
<1>. QED
  BY <1>1, <1>2, <1>3, <1>4

\* and so does every step.
LEMMA StepKeeps == Inv /\ [Next]_vars => Inv'
<1>. SUFFICES ASSUME Inv, [Next]_vars PROVE Inv'
  OBVIOUS
<1>1. ASSUME NEW w \in Writes, WritePartial(w[1], w[2], w[3])
      PROVE  Inv'
  <2>1. w[1] \in Lbas /\ w[2] \in Parts /\ w[3] \in Values
    BY CacheAssumption
  <2>. QED
    BY <1>1, <2>1, WriteKeeps
<1>2. ASSUME NEW lba \in Zeroed, ZeroBlock(lba)
      PROVE  Inv'
  BY <1>2, ZeroKeeps, CacheAssumption
<1>. QED
  BY <1>1, <1>2, ReadKeeps, FailedReadKeeps, FlushKeeps, RestKeeps DEF Next

(***************************************************************************)
(* The refinement: what each step is for an observer of the good sectors.  *)
(***************************************************************************)
DiskSeen == [l \in Good |-> disk[l]]

ContentSeen == [l \in Good |-> content[l]]

AnswerSeen == {a \in answer : a[1] \in Good}

\* A step that leaves each good sector on disk, or writes it back, settles.
LEMMA Settles ==
    ASSUME Inv, \A l \in Good : disk'[l] = disk[l] \/ disk'[l] = content[l]
    PROVE  Store!Settle
<1>. DEFINE S == {l \in Good : disk'[l] = content[l]}
<1>1. DiskSeen' = [l \in Good |-> IF l \in S THEN ContentSeen[l] ELSE DiskSeen[l]]
  BY DEF DiskSeen, ContentSeen, Good
<1>. QED
  BY <1>1 DEF Store!Settle, DiskSeen, ContentSeen

\* A step that settles, changes no good content and reads no good sector.
LEMMA Others ==
    ASSUME Inv, \A l \in Good : disk'[l] = disk[l] \/ disk'[l] = content[l],
           \A l \in Good : content'[l] = content[l],
           \A a \in answer' : a[1] \notin Good
    PROVE  Store!Other
<1>1. Store!Settle
  BY Settles
<1>2. ContentSeen' = ContentSeen
  BY DEF ContentSeen, Good
<1>3. AnswerSeen' = {}
  BY DEF AnswerSeen, Good
<1>. QED
  BY <1>1, <1>2, <1>3 DEF Store!Other, ContentSeen, AnswerSeen

\* A step after which the content is what the disk has.
LEMMA Forgets ==
    ASSUME content' = disk, disk' = disk, answer' = {}
    PROVE  Store!Forget
BY DEF Store!Forget, Good

\* A read is one of the store, or unseen there.
LEMMA ReadStep ==
    ASSUME Inv, NEW lba \in Lbas, ReadPartial(lba)
    PROVE  Store!Next
<1>1. PICK i \in Lines :
          /\ Fetch(lba, i)
          /\ answer' = {<<lba, Fetched(lba, i)>>}
          /\ content' = content
  BY DEF ReadPartial
<1>2. \A l \in Good : disk'[l] = disk[l] \/ disk'[l] = content[l]
  BY <1>1, CallSettles
<1>3. CASE lba \in Good
  <2>1. Fetched(lba, i) = content[lba]
    BY <1>1, <1>3, FetchedData
  <2>2. AnswerSeen' = {<<lba, ContentSeen[lba]>>}
    BY <1>1, <1>3, <2>1 DEF AnswerSeen, ContentSeen, Good
  <2>3. ContentSeen' = ContentSeen
    BY <1>1 DEF ContentSeen, Good
  <2>4. Store!Settle
    BY <1>2, Settles
  <2>. QED
    BY <1>3, <2>2, <2>3, <2>4 DEF Store!Next, Store!Read, AnswerSeen, ContentSeen
<1>4. CASE lba \notin Good
  BY <1>1, <1>2, <1>4, Others DEF Store!Next
<1>. QED
  BY <1>3, <1>4

\* A write is a write of the store, or unseen there,
LEMMA WriteStep ==
    ASSUME Inv, NEW lba \in Lbas, NEW part \in Parts, NEW v \in Values,
           WritePartial(lba, part, v)
    PROVE  Store!Next
<1>1. PICK i \in Lines :
          /\ Fetch(lba, i)
          /\ content' = [content EXCEPT ![lba][part] = v]
          /\ answer' = {}
  BY DEF WritePartial
<1>2. \A l \in Good : disk'[l] = disk[l] \/ disk'[l] = content[l]
  BY <1>1, CallSettles
<1>3. CASE lba \in Good
  <2>1. ContentSeen' = [ContentSeen EXCEPT ![lba][part] = v]
    BY <1>1, <1>3 DEF ContentSeen, Good, Inv, TypeOK
  <2>2. AnswerSeen' = {}
    BY <1>1 DEF AnswerSeen
  <2>3. Store!Settle
    BY <1>2, Settles
  <2>4. \E l \in Good, q \in Parts, w \in Values :
            ContentSeen' = [ContentSeen EXCEPT ![l][q] = w]
    BY <1>3, <2>1
  <2>5. Store!Write
    BY <2>2, <2>3, <2>4 DEF Store!Write, AnswerSeen, ContentSeen
  <2>. QED
    BY <2>5 DEF Store!Next
<1>4. CASE lba \notin Good
  <2>1. \A l \in Good : content'[l] = content[l]
    BY <1>1, <1>4 DEF Good, Inv, TypeOK
  <2>. QED
    BY <1>1, <1>2, <2>1, Others DEF Store!Next
<1>. QED
  BY <1>3, <1>4

\* and zeroing a sector likewise.
LEMMA ZeroStep ==
    ASSUME Inv, NEW lba \in Lbas, ZeroBlock(lba)
    PROVE  Store!Next
<1>1. PICK i \in Lines :
          /\ Fetch(lba, i)
          /\ content' = [content EXCEPT ![lba] = Zeros]
          /\ answer' = {}
  BY DEF ZeroBlock
<1>2. \A l \in Good : disk'[l] = disk[l] \/ disk'[l] = content[l]
  BY <1>1, CallSettles
<1>3. CASE lba \in Good
  <2>1. ContentSeen' = [ContentSeen EXCEPT ![lba] = [part \in Parts |-> Zero]]
    BY <1>1, <1>3 DEF ContentSeen, Good, Zeros, Inv, TypeOK
  <2>2. AnswerSeen' = {}
    BY <1>1 DEF AnswerSeen
  <2>3. Store!Settle
    BY <1>2, Settles
  <2>4. Store!ZeroFill
    BY <1>3, <2>1, <2>2, <2>3 DEF Store!ZeroFill, AnswerSeen, ContentSeen
  <2>. QED
    BY <2>4 DEF Store!Next
<1>4. CASE lba \notin Good
  <2>1. \A l \in Good : content'[l] = content[l]
    BY <1>1, <1>4 DEF Good, Inv, TypeOK
  <2>. QED
    BY <1>1, <1>2, <2>1, Others DEF Store!Next
<1>. QED
  BY <1>3, <1>4

\* A call that fails reads and writes nothing there.
LEMMA FailStep ==
    ASSUME Inv, NEW lba \in Lbas, EvictFails(lba) \/ ReadFails(lba) \/ NoVictim(lba)
    PROVE  Store!Other
<1>1. content' = content /\ answer' = {}
  BY DEF EvictFails, ReadFails, NoVictim
<1>2. \A l \in Good : disk'[l] = disk[l] \/ disk'[l] = content[l]
  <2>1. CASE disk' = disk
    BY <2>1
  <2>2. CASE ReadFails(lba)
    <3>1. lru.tail \in Lines /\ disk' = Cleaned(lru.tail)
      BY <2>2 DEF ReadFails, Inv, TypeOK
    <3>2. \A l \in Lbas : disk'[l] = IF dirty[lru.tail] /\ tag[lru.tail] = l
                                     THEN data[lru.tail] ELSE disk[l]
      BY <3>1, WrittenBack DEF Inv
    <3>. QED
      BY <3>1, <3>2 DEF Inv, TypeOK, Coherent, Good
  <2>. QED
    BY <2>1, <2>2 DEF EvictFails, NoVictim
<1>. QED
  BY <1>1, <1>2, Others

\* A flush is one of the calls the store says nothing else of.
LEMMA FlushStep ==
    ASSUME Inv, FlushAll
    PROVE  Store!Other
<1>1. content' = content /\ answer' = {}
  BY DEF FlushAll
<1>2. \A l \in Good : disk'[l] = disk[l] \/ disk'[l] = content[l]
  BY Flushing DEF Holds, Coherent, Inv, Good
<1>. QED
  BY <1>1, <1>2, Others

\* Every step is one of the store or changes nothing there.
LEMMA StepRefines == Inv /\ [Next]_vars => [Store!Next]_(Store!storeVars)
<1>. SUFFICES ASSUME Inv, [Next]_vars
              PROVE  Store!Next \/ UNCHANGED Store!storeVars
  OBVIOUS
<1>1. CASE \E lba \in Lbas : EvictFails(lba) \/ ReadFails(lba) \/ NoVictim(lba)
  BY <1>1, FailStep DEF Store!Next
<1>2. CASE \E lba \in Lbas : ReadPartial(lba)
  BY <1>2, ReadStep
<1>3. ASSUME NEW w \in Writes, WritePartial(w[1], w[2], w[3])
      PROVE  Store!Next
  <2>1. w[1] \in Lbas /\ w[2] \in Parts /\ w[3] \in Values
    BY CacheAssumption
  <2>. QED
    BY <1>3, <2>1, WriteStep
<1>4. ASSUME NEW lba \in Zeroed, ZeroBlock(lba)
      PROVE  Store!Next
  BY <1>4, ZeroStep, CacheAssumption
<1>5. CASE FlushAll
  BY <1>5, FlushStep DEF Store!Next
<1>6. CASE InvalidateAll
  BY <1>6, Forgets DEF InvalidateAll, Store!Next
<1>7. CASE AutoMount
  BY <1>7, Forgets DEF AutoMount, Store!Next
<1>8. CASE UNCHANGED vars
  BY <1>8 DEF vars, Store!storeVars, Good
<1>. QED
  BY <1>1, <1>2, <1>3, <1>4, <1>5, <1>6, <1>7, <1>8 DEF Next

(***************************************************************************)
(* What follows.                                                           *)
(***************************************************************************)
THEOREM Inductive == Spec => []Inv
BY InitInv, StepKeeps, PTL DEF Spec

\* The links stay among the lines or leave the list, and no line is dirty
\* that is not valid: an evicted line is never written over another sector.
THEOREM TypeCorrect == Spec => []TypeOK
BY Inductive, PTL DEF Inv

\* A line has what was last written to its sector, and the disk has it when
\* no line is dirty, for all sectors that can be read, whatever fails.
THEOREM StaysCoherent == Spec => []Coherent
BY Inductive, PTL DEF Inv

\* A wrong answer, which the code can give, is always about a sector whose
\* reads may fail: without such sectors, ReadsReturnSector would hold.
THEOREM OnlyBadSectorsMislead ==
    Spec => [](\A a \in answer : a[1] \in Good => a[2] = content[a[1]])
<1>. DEFINE Right == \A a \in answer : a[1] \in Good => a[2] = content[a[1]]
<1>1. Init => Right
  BY DEF Init
<1>2. Inv /\ Right /\ [Next]_vars => Right'
  <2>. SUFFICES ASSUME Inv, Right, [Next]_vars PROVE Right'
    OBVIOUS
  <2>1. CASE \E lba \in Lbas : ReadPartial(lba)
    <3>1. PICK lba \in Lbas, i \in Lines :
              /\ Fetch(lba, i)
              /\ answer' = {<<lba, Fetched(lba, i)>>}
              /\ content' = content
      BY <2>1 DEF ReadPartial
    <3>2. lba \in Good => Fetched(lba, i) = content[lba]
      BY <3>1, FetchedData
    <3>. QED
      BY <3>1, <3>2 DEF Good
  <2>2. CASE UNCHANGED vars
    BY <2>2 DEF vars, Good
  <2>3. ASSUME Next, ~(\E lba \in Lbas : ReadPartial(lba))
        PROVE  answer' = {}
    BY <2>3 DEF Next, EvictFails, ReadFails, NoVictim, WritePartial, ZeroBlock,
                FlushAll, InvalidateAll, AutoMount
  <2>. QED
    BY <2>1, <2>2, <2>3
<1>. QED
  BY Inductive, <1>1, <1>2, PTL DEF Spec

\* The cache over the device implements an array of the sectors that can be
\* read, for any sequence of calls, failures and restarts.
THEOREM CacheImplementsStore == Spec => ImplementsStore
<1>1. Init => Store!Init
  <2>. SUFFICES ASSUME Init PROVE Store!Init
    OBVIOUS
  <2>1. DiskSeen \in [Good -> [Parts -> Values \cup {Zero} \cup (Good \X Parts)]]
    BY DEF Init, DiskSeen, Good
  <2>2. ContentSeen = DiskSeen /\ AnswerSeen = {}
    BY DEF Init, ContentSeen, DiskSeen, AnswerSeen
  <2>. QED
    BY <2>1, <2>2 DEF Store!Init, DiskSeen, ContentSeen, AnswerSeen
<1>. QED
  BY Inductive, <1>1, StepRefines, PTL DEF Spec, ImplementsStore, Store!Spec

(***************************************************************************)
(* The list.                                                               *)
(***************************************************************************)
HIDE DEF Lines, Lbas, None

\* INVALID_IDX is the index of no line.
LEMMA NoneIsNoLine == None \notin Lines
BY CacheAssumption DEF None, Lines

\* What the list operations work on, and the lines in one order or another.
Lists == [prev : [Lines -> Lines \cup {None}], next : [Lines -> Lines \cup {None}],
          head : Lines \cup {None}, tail : Lines \cup {None}]

Orders == {s \in Seq(Lines) : \A a, b \in 1 .. Len(s) : s[a] = s[b] => a = b}

\* Entry k of s, or no line.
Nth(s, k) == IF k \in 1 .. Len(s) THEN s[k] ELSE None

IsIn(s, i) == \E k \in 1 .. Len(s) : s[k] = i

\* List l is the lines of s in their order, and the others point nowhere.
Linked(l, s) ==
    /\ l.head = Nth(s, 1)
    /\ l.tail = Nth(s, Len(s))
    /\ \A k \in 1 .. Len(s) : l.next[s[k]] = Nth(s, k + 1) /\ l.prev[s[k]] = Nth(s, k - 1)
    /\ \A i \in Lines : ~IsIn(s, i) => l.next[i] = None /\ l.prev[i] = None

ListInv == order \in Orders /\ Linked(lru, order)

\* The property is about the order of the lines in just this way.
LEMMA LinkedMeans == order \in Seq(Lines) => (ListIsRecency <=> Linked(lru, order))
<1>. SUFFICES ASSUME order \in Seq(Lines) PROVE ListIsRecency <=> Linked(lru, order)
  OBVIOUS
<1>1. \A k : At(k) = Nth(order, k)
  BY DEF At, Nth
<1>2. \A k \in 1 .. Len(order) : At(k) = order[k]
  BY DEF At
<1>3. \A i \in Lines : IsIn(order, i) <=> i \in {order[k] : k \in 1 .. Len(order)}
  BY DEF IsIn
<1>. QED  BY <1>1, <1>2, <1>3 DEF ListIsRecency, Linked

\* An order without the line at p: the lines behind move up.
LEMMA WithoutIs ==
    ASSUME NEW s \in Orders, NEW p \in 1 .. Len(s)
    PROVE  LET t == Without(s, s[p]) IN
           /\ t \in Orders
           /\ Len(t) = Len(s) - 1
           /\ \A k \in 1 .. Len(s) - 1 : t[k] = IF k < p THEN s[k] ELSE s[k + 1]
<1>. DEFINE t == Without(s, s[p])
            q == CHOOSE k \in DOMAIN s : s[k] = s[p]
            n == Len(s)
            before == SubSeq(s, 1, p - 1)
            behind == SubSeq(s, p + 1, n)
<1>1. s \in Seq(Lines) /\ n \in Nat /\ DOMAIN s = 1 .. n /\ \A a, b \in 1 .. n : s[a] = s[b] => a = b
  BY DEF Orders
<1>2. q = p
  <2>1. p \in DOMAIN s
    BY <1>1
  <2>2. q \in DOMAIN s /\ s[q] = s[p]
    BY <2>1
  <2>. QED  BY <1>1, <2>2
<1>3. t = before \o behind
  BY <1>1, <1>2 DEF Without, RemoveAt
<1>. HIDE DEF t, q
<1>4. before \in Seq(Lines) /\ Len(before) = p - 1 /\ \A k \in 1 .. p - 1 : before[k] = s[k]
  BY <1>1
<1>5. behind \in Seq(Lines) /\ Len(behind) = n - p /\ \A k \in 1 .. n - p : behind[k] = s[k + p]
  <2>1. p + 1 \in Int /\ n \in Int /\ \A k \in p + 1 .. n : s[k] \in Lines
    BY <1>1
  <2>2. /\ behind \in Seq(Lines)
        /\ Len(behind) = IF p + 1 <= n THEN n - (p + 1) + 1 ELSE 0
        /\ \A k \in 1 .. n - (p + 1) + 1 : behind[k] = s[p + 1 + k - 1]
    BY <2>1, SubSeqProperties
  <2>. HIDE DEF behind
  <2>3. \A k \in 1 .. n - p : p + 1 + k - 1 = k + p
    BY <1>1
  <2>4. n - (p + 1) + 1 = n - p /\ (p + 1 <= n \/ n - p = 0)
    <3>1. p \in Int /\ n \in Int /\ p <= n
      BY <1>1
    <3>. HIDE DEF n
    <3>. QED  BY <3>1
  <2>. QED  BY <2>2, <2>3, <2>4
<1>. HIDE DEF before, behind
<1>6. t \in Seq(Lines) /\ Len(t) = n - 1
  <2>1. t \in Seq(Lines) /\ Len(t) = Len(before) + Len(behind)
    BY <1>3, <1>4, <1>5, ConcatProperties
  <2>. QED  BY <1>1, <1>4, <1>5, <2>1
<1>7. ASSUME NEW k \in 1 .. n - 1 PROVE t[k] = IF k < p THEN s[k] ELSE s[k + 1]
  <2>1. CASE k < p
    <3>1. k \in 1 .. p - 1
      BY <1>1, <2>1
    <3>. QED  BY <1>3, <1>4, <1>5, <2>1, <3>1
  <2>2. CASE ~ k < p
    <3>1. k - (p - 1) \in 1 .. n - p /\ (k - (p - 1)) + p = k + 1 /\ k \notin 1 .. p - 1
      BY <1>1, <2>2
    <3>2. t[k] = behind[k - (p - 1)]
      BY <1>3, <1>4, <1>5, <3>1
    <3>. QED  BY <1>5, <2>2, <3>1, <3>2
  <2>. QED  BY <2>1, <2>2
<1>8. ASSUME NEW a \in 1 .. n - 1, NEW b \in 1 .. n - 1, t[a] = t[b] PROVE a = b
  <2>1. /\ a \in 1 .. n /\ b \in 1 .. n /\ a + 1 \in 1 .. n /\ b + 1 \in 1 .. n
    BY <1>1
  <2>. QED  BY <1>1, <1>7, <1>8, <2>1
<1>9. t \in Orders
  BY <1>6, <1>8 DEF Orders
<1>. QED  BY <1>6, <1>7, <1>9 DEF t

\* An order without a line it does not have is that order.
LEMMA WithoutNone ==
    ASSUME NEW s \in Orders, NEW i, ~IsIn(s, i)
    PROVE  Without(s, i) = s
BY DEF Without, IsIn, Orders

\* A line is put before the others.
LEMMA InFront ==
    ASSUME NEW s \in Orders, NEW i \in Lines, ~IsIn(s, i)
    PROVE  LET t == <<i>> \o s IN
           /\ t \in Orders
           /\ Len(t) = Len(s) + 1 /\ t[1] = i
           /\ \A k \in 1 .. Len(s) : t[k + 1] = s[k]
<1>. DEFINE t == <<i>> \o s
            n == Len(s)
<1>1. s \in Seq(Lines) /\ n \in Nat /\ \A a, b \in 1 .. n : s[a] = s[b] => a = b
  BY DEF Orders
<1>2. t \in Seq(Lines) /\ Len(t) = n + 1 /\ t[1] = i
  BY <1>1
<1>3. \A k \in 1 .. n : t[k + 1] = s[k]
  BY <1>1
<1>. HIDE DEF t
<1>4. \A k \in 1 .. n : t[k + 1] # t[1]
  BY <1>2, <1>3 DEF IsIn
<1>5. ASSUME NEW a \in 1 .. n + 1, NEW b \in 1 .. n + 1, t[a] = t[b] PROVE a = b
  <2>1. (a = 1 \/ a - 1 \in 1 .. n) /\ (b = 1 \/ b - 1 \in 1 .. n)
    BY <1>1
  <2>2. a # 1 => t[a] = s[a - 1] /\ t[a] # t[1]
    <3>. SUFFICES ASSUME a # 1 PROVE t[a] = s[a - 1] /\ t[a] # t[1]
      OBVIOUS
    <3>1. a - 1 \in 1 .. n /\ (a - 1) + 1 = a
      BY <1>1
    <3>. QED  BY <1>3, <1>4, <3>1
  <2>3. b # 1 => t[b] = s[b - 1] /\ t[b] # t[1]
    <3>. SUFFICES ASSUME b # 1 PROVE t[b] = s[b - 1] /\ t[b] # t[1]
      OBVIOUS
    <3>1. b - 1 \in 1 .. n /\ (b - 1) + 1 = b
      BY <1>1
    <3>. QED  BY <1>3, <1>4, <3>1
  <2>4. CASE a = 1 \/ b = 1
    BY <1>5, <2>2, <2>3, <2>4
  <2>5. CASE a # 1 /\ b # 1
    <3>1. s[a - 1] = s[b - 1] /\ a - 1 \in 1 .. n /\ b - 1 \in 1 .. n
      BY <1>5, <2>1, <2>2, <2>3, <2>5
    <3>2. a - 1 = b - 1
      BY <1>1, <3>1
    <3>. QED  BY <3>2
  <2>. QED  BY <2>4, <2>5
<1>6. t \in Orders
  BY <1>2, <1>5 DEF Orders
<1>. QED  BY <1>2, <1>3, <1>6 DEF t

\* detach takes a line out of the list, wherever it stands.
LEMMA DetachKeeps ==
    ASSUME NEW s \in Orders, NEW l \in Lists, Linked(l, s), NEW p \in 1 .. Len(s)
    PROVE  Linked(Detach(l, s[p]), Without(s, s[p])) /\ ~IsIn(Without(s, s[p]), s[p])
<1>. DEFINE i == s[p]
            t == Without(s, i)
            d == Detach(l, i)
            n == Len(s)
<1>0. None \notin Lines
  BY NoneIsNoLine
<1>1. s \in Seq(Lines) /\ n \in Nat \ {0} /\ i \in Lines /\ \A a, b \in 1 .. n : s[a] = s[b] => a = b
  BY DEF Orders
<1>2. /\ t \in Seq(Lines) /\ Len(t) = n - 1
      /\ \A k \in 1 .. n - 1 : t[k] = IF k < p THEN s[k] ELSE s[k + 1]
  BY WithoutIs DEF Orders
<1>3. /\ l.head = Nth(s, 1) /\ l.tail = Nth(s, n)
      /\ \A k \in 1 .. n : l.next[s[k]] = Nth(s, k + 1) /\ l.prev[s[k]] = Nth(s, k - 1)
      /\ \A j \in Lines : ~IsIn(s, j) => l.next[j] = None /\ l.prev[j] = None
  BY DEF Linked
<1>4. l.next[i] = Nth(s, p + 1) /\ l.prev[i] = Nth(s, p - 1)
  BY <1>3
<1>5. /\ \A j \in Lines : d.prev[j] = IF j = i THEN None
                                       ELSE IF j = Nth(s, p + 1) THEN Nth(s, p - 1) ELSE l.prev[j]
      /\ \A j \in Lines : d.next[j] = IF j = i THEN None
                                       ELSE IF j = Nth(s, p - 1) THEN Nth(s, p + 1) ELSE l.next[j]
      /\ d.head = IF l.head = i THEN Nth(s, p + 1) ELSE l.head
      /\ d.tail = IF l.tail = i THEN Nth(s, p - 1) ELSE l.tail
  BY <1>4 DEF Detach
<1>. HIDE DEF d, t, i
<1>6. d.head = Nth(t, 1)
  BY <1>0, <1>1, <1>2, <1>3, <1>5 DEF Nth, i
<1>7. d.tail = Nth(t, n - 1)
  BY <1>0, <1>1, <1>2, <1>3, <1>5 DEF Nth, i
<1>8. ASSUME NEW k \in 1 .. n - 1 PROVE d.next[t[k]] = Nth(t, k + 1) /\ d.prev[t[k]] = Nth(t, k - 1)
  <2>1. PICK m \in 1 .. n : m = IF k < p THEN k ELSE k + 1
    BY <1>1
  <2>2. t[k] = s[m] /\ m # p /\ s[m] # i /\ s[m] \in Lines
    BY <1>0, <1>1, <1>2, <2>1 DEF i
  <2>3. l.next[s[m]] = Nth(s, m + 1) /\ l.prev[s[m]] = Nth(s, m - 1)
    BY <1>3
  <2>4. (s[m] = Nth(s, p - 1) <=> m = p - 1) /\ (s[m] = Nth(s, p + 1) <=> m = p + 1)
    BY <1>0, <1>1, <2>2 DEF Nth
  <2>5. /\ d.next[s[m]] = IF m = p - 1 THEN Nth(s, p + 1) ELSE Nth(s, m + 1)
        /\ d.prev[s[m]] = IF m = p + 1 THEN Nth(s, p - 1) ELSE Nth(s, m - 1)
    BY <1>5, <2>2, <2>3, <2>4
  <2>6. Nth(t, k + 1) = IF m = p - 1 THEN Nth(s, p + 1) ELSE Nth(s, m + 1)
    BY <1>0, <1>1, <1>2, <2>1, <2>2 DEF Nth
  <2>7. Nth(t, k - 1) = IF m = p + 1 THEN Nth(s, p - 1) ELSE Nth(s, m - 1)
    BY <1>0, <1>1, <1>2, <2>1, <2>2 DEF Nth
  <2>. QED  BY <2>2, <2>5, <2>6, <2>7
<1>9. ASSUME NEW j \in Lines, ~IsIn(t, j) PROVE d.next[j] = None /\ d.prev[j] = None
  <2>1. CASE j = i
    BY <1>5, <2>1
  <2>2. CASE j # i
    <3>1. ASSUME NEW m \in 1 .. n, s[m] = j PROVE FALSE
      <4>1. m # p
        BY <2>2, <3>1 DEF i
      <4>2. PICK k \in 1 .. n - 1 : m = IF k < p THEN k ELSE k + 1
        <5>1. CASE m < p
          BY <1>0, <1>1, <5>1
        <5>2. CASE m > p
          <6>1. m - 1 \in 1 .. n - 1 /\ m = (m - 1) + 1 /\ ~ (m - 1 < p)
            BY <1>0, <1>1, <5>2
          <6>. QED  BY <6>1
        <5>. QED  BY <1>0, <1>1, <4>1, <5>1, <5>2
      <4>3. t[k] = j
        BY <1>2, <3>1, <4>2
      <4>. QED  BY <1>2, <1>9, <4>3 DEF IsIn
    <3>2. ~IsIn(s, j)
      BY <3>1 DEF IsIn
    <3>3. j # Nth(s, p - 1) /\ j # Nth(s, p + 1)
      BY <1>0, <1>1, <3>2 DEF IsIn, Nth
    <3>. QED  BY <1>3, <1>5, <2>2, <3>2, <3>3
  <2>. QED  BY <2>1, <2>2
<1>10. ~IsIn(t, i)
  BY <1>0, <1>1, <1>2 DEF IsIn, i
<1>. QED  BY <1>2, <1>6, <1>7, <1>8, <1>9, <1>10 DEF Linked, d, t, i

\* A line that is not in the list can be detached to no effect.
LEMMA DetachNone ==
    ASSUME NEW s \in Orders, NEW l \in Lists, Linked(l, s), NEW i \in Lines, ~IsIn(s, i)
    PROVE  Linked(Detach(l, i), s)
<1>. DEFINE d == Detach(l, i)
<1>0. None \notin Lines
  BY NoneIsNoLine
<1>1. s \in Seq(Lines) /\ Len(s) \in Nat
  BY DEF Orders
<1>2. l.next[i] = None /\ l.prev[i] = None
  BY DEF Linked
<1>3. i # Nth(s, 1) /\ i # Nth(s, Len(s))
  BY <1>0, <1>1 DEF Nth, IsIn
<1>4. l.head # i /\ l.tail # i
  BY <1>3 DEF Linked
<1>5. /\ l.prev \in [Lines -> Lines \cup {None}] /\ l.next \in [Lines -> Lines \cup {None}]
      /\ \A j \in Lines : j # None
  BY <1>0 DEF Lists
<1>6. /\ \A j \in Lines : d.prev[j] = l.prev[j] /\ d.next[j] = l.next[j]
      /\ d.head = l.head /\ d.tail = l.tail
  BY <1>2, <1>4, <1>5 DEF Detach
<1>. HIDE DEF d
<1>7. \A k \in 1 .. Len(s) : s[k] \in Lines
  BY <1>1
<1>. QED  BY <1>6, <1>7 DEF Linked, d

\* pushFront puts a line that is not in the list before the others.
LEMMA PushKeeps ==
    ASSUME NEW s \in Orders, NEW l \in Lists, Linked(l, s), NEW i \in Lines, ~IsIn(s, i)
    PROVE  Linked(PushFront(l, i), <<i>> \o s)
<1>. DEFINE t == <<i>> \o s
            d == PushFront(l, i)
            n == Len(s)
<1>0. None \notin Lines
  BY NoneIsNoLine
<1>1. s \in Seq(Lines) /\ n \in Nat /\ \A a, b \in 1 .. n : s[a] = s[b] => a = b
  BY DEF Orders
<1>2. t \in Seq(Lines) /\ Len(t) = n + 1 /\ t[1] = i /\ \A k \in 1 .. n : t[k + 1] = s[k]
  BY InFront DEF Orders
<1>3. /\ l.head = Nth(s, 1) /\ l.tail = Nth(s, n)
      /\ \A k \in 1 .. n : l.next[s[k]] = Nth(s, k + 1) /\ l.prev[s[k]] = Nth(s, k - 1)
      /\ \A j \in Lines : ~IsIn(s, j) => l.next[j] = None /\ l.prev[j] = None
  BY DEF Linked
<1>4. /\ \A j \in Lines : d.prev[j] = IF j = i THEN None ELSE IF j = Nth(s, 1) THEN i ELSE l.prev[j]
      /\ \A j \in Lines : d.next[j] = IF j = i THEN Nth(s, 1) ELSE l.next[j]
      /\ d.head = i
      /\ d.tail = IF Nth(s, n) = None THEN i ELSE Nth(s, n)
  BY <1>3 DEF PushFront, Lists
<1>. HIDE DEF d, t
<1>5. d.head = Nth(t, 1) /\ d.tail = Nth(t, n + 1)
  <2>1. CASE n = 0
    BY <1>0, <1>1, <1>2, <1>4, <2>1 DEF Nth
  <2>2. CASE n # 0
    <3>1. s[n] \in Lines /\ Nth(s, n) = s[n] /\ t[n + 1] = s[n]
      BY <1>0, <1>1, <1>2, <2>2 DEF Nth
    <3>. QED  BY <1>0, <1>1, <1>2, <1>4, <3>1 DEF Nth
  <2>. QED  BY <2>1, <2>2
<1>6. \A k \in 1 .. n : s[k] # i /\ s[k] \in Lines
  BY <1>1 DEF IsIn
<1>7. ASSUME NEW k \in 1 .. n + 1 PROVE d.next[t[k]] = Nth(t, k + 1) /\ d.prev[t[k]] = Nth(t, k - 1)
  <2>1. CASE k = 1
    <3>1. t[k] = i /\ Nth(t, k - 1) = None
      BY <1>0, <1>1, <1>2, <2>1 DEF Nth
    <3>2. Nth(t, k + 1) = Nth(s, 1)
      BY <1>0, <1>1, <1>2, <2>1 DEF Nth
    <3>. QED  BY <1>4, <3>1, <3>2
  <2>2. CASE k # 1
    <3>1. PICK m \in 1 .. n : k = m + 1
      <4>1. k - 1 \in 1 .. n /\ k = (k - 1) + 1
        BY <1>0, <1>1, <2>2
      <4>. QED  BY <4>1
    <3>2. t[k] = s[m] /\ s[m] # i /\ s[m] \in Lines
      BY <1>2, <1>6, <3>1
    <3>3. s[m] = Nth(s, 1) <=> m = 1
      BY <1>1 DEF Nth
    <3>4. d.next[s[m]] = Nth(s, m + 1) /\ d.prev[s[m]] = IF m = 1 THEN i ELSE Nth(s, m - 1)
      BY <1>3, <1>4, <3>2, <3>3
    <3>5. Nth(t, k + 1) = Nth(s, m + 1)
      BY <1>0, <1>1, <1>2, <3>1 DEF Nth
    <3>6. Nth(t, k - 1) = IF m = 1 THEN i ELSE Nth(s, m - 1)
      <4>1. CASE m = 1
        BY <1>0, <1>1, <1>2, <3>1, <4>1 DEF Nth
      <4>2. CASE m # 1
        <5>1. m - 1 \in 1 .. n /\ k - 1 = (m - 1) + 1 /\ k - 1 \in 1 .. n + 1
          BY <1>0, <1>1, <3>1, <4>2
        <5>2. t[k - 1] = s[m - 1]
          BY <1>2, <5>1
        <5>. QED  BY <1>2, <4>2, <5>1, <5>2 DEF Nth
      <4>. QED  BY <4>1, <4>2
    <3>. QED  BY <3>2, <3>4, <3>5, <3>6
  <2>. QED  BY <2>1, <2>2
<1>8. ASSUME NEW j \in Lines, ~IsIn(t, j) PROVE d.next[j] = None /\ d.prev[j] = None
  <2>1. j # i
    BY <1>0, <1>1, <1>2, <1>8 DEF IsIn
  <2>2. ASSUME NEW m \in 1 .. n PROVE s[m] # j
    <3>1. m + 1 \in 1 .. Len(t) /\ t[m + 1] = s[m]
      BY <1>0, <1>1, <1>2
    <3>. QED  BY <1>8, <3>1 DEF IsIn
  <2>3. ~IsIn(s, j) /\ j # Nth(s, 1)
    BY <1>0, <1>1, <2>2 DEF IsIn, Nth
  <2>. QED  BY <1>3, <1>4, <2>1, <2>3
<1>. QED  BY <1>2, <1>5, <1>7, <1>8 DEF Linked, d, t

\* A call puts the line it fetches in front, wherever it was: evicted from the
\* tail, found in the list, or found outside of it after a failed read.
LEMMA FetchKeepsList ==
    ASSUME Inv, ListInv, NEW lba \in Lbas, NEW i \in Lines, Fetch(lba, i)
    PROVE  ListInv'
<1>1. order \in Orders /\ Linked(lru, order) /\ lru \in Lists
  BY DEF ListInv, Inv, TypeOK, Lists
<1>2. order' = <<i>> \o Without(order, i)
  BY DEF Fetch
<1>3. lru' = PromoteToFront(lru, i) \/ lru' = PushFront(Detach(lru, i), i)
  BY DEF Fetch, Hit, Miss
<1>4. Detach(lru, i) \in Lists
  BY <1>1, ListTyped DEF Lists
<1>5. /\ Without(order, i) \in Orders /\ ~IsIn(Without(order, i), i)
      /\ Linked(Detach(lru, i), Without(order, i))
  <2>1. CASE IsIn(order, i)
    <3>1. PICK p \in 1 .. Len(order) : order[p] = i
      BY <2>1 DEF IsIn
    <3>. QED  BY <1>1, <3>1, DetachKeeps, WithoutIs
  <2>2. CASE ~IsIn(order, i)
    BY <1>1, <2>2, WithoutNone, DetachNone
  <2>. QED  BY <2>1, <2>2
<1>6. /\ Linked(PushFront(Detach(lru, i), i), order')
      /\ order' \in Orders
      /\ Len(order') = Len(Without(order, i)) + 1 /\ order'[1] = i
      /\ \A k \in 1 .. Len(Without(order, i)) : order'[k + 1] = Without(order, i)[k]
  BY <1>2, <1>4, <1>5, PushKeeps, InFront
<1>7. CASE lru' = PushFront(Detach(lru, i), i)
  BY <1>6, <1>7 DEF ListInv
<1>8. CASE lru' = PromoteToFront(lru, i) /\ lru.head # i
  BY <1>6, <1>8 DEF ListInv, PromoteToFront
\* The line was in front already.
<1>9. CASE lru' = PromoteToFront(lru, i) /\ lru.head = i
  <2>1. order \in Seq(Lines) /\ Len(order) \in Nat /\ order' \in Seq(Lines)
    BY <1>1, <1>6 DEF Orders
  <2>2. 1 \in 1 .. Len(order) /\ order[1] = i
    BY <1>1, <1>9, NoneIsNoLine DEF Linked, Nth
  <2>3. /\ Len(Without(order, i)) = Len(order) - 1
        /\ \A k \in 1 .. Len(order) - 1 : Without(order, i)[k] = order[k + 1]
    <3>1. /\ Len(Without(order, order[1])) = Len(order) - 1
          /\ \A k \in 1 .. Len(order) - 1 :
                 Without(order, order[1])[k] = IF k < 1 THEN order[k] ELSE order[k + 1]
      BY <1>1, <2>2, WithoutIs
    <3>2. \A k \in 1 .. Len(order) - 1 : ~ k < 1
      BY <2>1
    <3>. QED  BY <2>2, <3>1, <3>2
  <2>4. Len(order') = Len(order)
    BY <1>6, <2>1, <2>3
  <2>5. ASSUME NEW k \in 1 .. Len(order) PROVE order'[k] = order[k]
    <3>1. CASE k = 1
      BY <1>6, <2>2, <3>1
    <3>2. CASE k # 1
      <4>1. k - 1 \in 1 .. Len(order) - 1 /\ (k - 1) + 1 = k
        BY <2>1, <3>2
      <4>. QED  BY <1>6, <2>3, <4>1
    <3>. QED  BY <3>1, <3>2
  <2>6. order' = order
    BY <2>1, <2>4, <2>5, SeqEqual
  <2>. QED  BY <1>1, <1>9, <2>6 DEF ListInv, PromoteToFront
<1>. QED  BY <1>3, <1>7, <1>8, <1>9

\* A read that fails leaves its line out.
LEMMA FailKeepsList ==
    ASSUME Inv, ListInv, NEW lba \in Lbas, ReadFails(lba)
    PROVE  ListInv'
<1>1. order \in Orders /\ Linked(lru, order) /\ lru \in Lists
  BY DEF ListInv, Inv, TypeOK, Lists
<1>2. /\ lru.tail # None /\ lru' = Detach(lru, lru.tail)
      /\ order' = Without(order, lru.tail)
  BY DEF ReadFails
<1>3. lru.tail = Nth(order, Len(order))
  BY <1>1 DEF Linked
<1>4. PICK p \in 1 .. Len(order) : order[p] = lru.tail
  BY <1>2, <1>3 DEF Nth
<1>. QED  BY <1>1, <1>2, <1>4, DetachKeeps, WithoutIs DEF ListInv

\* init links all lines in the order of their numbers.
LEMMA FreshLinked == FreshOrder \in Orders /\ Linked(FreshLru, FreshOrder)
<1>1. CACHE_LINES \in Nat /\ CACHE_LINES > 0
  BY CacheAssumption
<1>2. /\ FreshOrder \in Seq(Lines) /\ Len(FreshOrder) = CACHE_LINES
      /\ \A k \in 1 .. CACHE_LINES : FreshOrder[k] = k - 1
  <2>1. \A k \in 1 .. CACHE_LINES : k - 1 \in Lines
    BY <1>1 DEF Lines
  <2>. QED  BY <1>1, <2>1 DEF FreshOrder
<1>3. FreshOrder \in Orders
  BY <1>1, <1>2 DEF Orders
<1>4. FreshLru.head = Nth(FreshOrder, 1) /\ FreshLru.tail = Nth(FreshOrder, CACHE_LINES)
  BY <1>1, <1>2 DEF FreshLru, Nth
<1>5. ASSUME NEW k \in 1 .. CACHE_LINES
      PROVE  /\ FreshLru.next[FreshOrder[k]] = Nth(FreshOrder, k + 1)
             /\ FreshLru.prev[FreshOrder[k]] = Nth(FreshOrder, k - 1)
  <2>1. FreshOrder[k] = k - 1 /\ k - 1 \in Lines
    BY <1>1, <1>2 DEF Lines
  <2>2. /\ FreshLru.next[k - 1] = IF k = CACHE_LINES THEN None ELSE k
        /\ FreshLru.prev[k - 1] = IF k = 1 THEN None ELSE k - 2
    BY <1>1, <2>1 DEF FreshLru
  <2>3. Nth(FreshOrder, k + 1) = IF k = CACHE_LINES THEN None ELSE k
    BY <1>1, <1>2 DEF Nth
  <2>4. Nth(FreshOrder, k - 1) = IF k = 1 THEN None ELSE k - 2
    BY <1>1, <1>2 DEF Nth
  <2>. QED  BY <2>1, <2>2, <2>3, <2>4
<1>6. ASSUME NEW i \in Lines PROVE IsIn(FreshOrder, i)
  <2>1. i + 1 \in 1 .. CACHE_LINES /\ (i + 1) - 1 = i
    BY <1>1 DEF Lines
  <2>. QED  BY <1>2, <2>1 DEF IsIn
<1>. QED  BY <1>2, <1>3, <1>4, <1>5, <1>6 DEF Linked

\* Every step keeps the list and the order in step.
LEMMA ListStep == Inv /\ ListInv /\ [Next]_vars => ListInv'
<1>. SUFFICES ASSUME Inv, ListInv, [Next]_vars PROVE ListInv'
  OBVIOUS
<1>1. ASSUME NEW lba \in Lbas, ReadFails(lba) PROVE ListInv'
  BY <1>1, FailKeepsList
<1>2. ASSUME NEW lba \in Lbas, NEW i \in Lines, Fetch(lba, i) PROVE ListInv'
  BY <1>2, FetchKeepsList
<1>3. ASSUME NEW lba \in Lbas, ReadPartial(lba) PROVE ListInv'
  BY <1>2, <1>3 DEF ReadPartial
<1>4. ASSUME NEW w \in Writes, WritePartial(w[1], w[2], w[3]) PROVE ListInv'
  <2>1. w[1] \in Lbas
    BY CacheAssumption
  <2>. QED  BY <1>2, <1>4, <2>1 DEF WritePartial
<1>5. ASSUME NEW lba \in Zeroed, ZeroBlock(lba) PROVE ListInv'
  <2>1. lba \in Lbas
    BY CacheAssumption
  <2>. QED  BY <1>2, <1>5, <2>1 DEF ZeroBlock
<1>6. ASSUME AutoMount PROVE ListInv'
  BY <1>6, FreshLinked DEF AutoMount, ListInv
<1>7. ASSUME UNCHANGED <<lru, order>> PROVE ListInv'
  BY <1>7 DEF ListInv
<1>8. ASSUME NEW lba \in Lbas, EvictFails(lba) \/ NoVictim(lba) PROVE ListInv'
  BY <1>7, <1>8 DEF EvictFails, NoVictim
<1>9. ASSUME FlushAll \/ InvalidateAll \/ UNCHANGED vars PROVE ListInv'
  BY <1>7, <1>9 DEF FlushAll, InvalidateAll, vars
<1>. QED  BY <1>1, <1>3, <1>4, <1>5, <1>6, <1>8, <1>9 DEF Next

\* Whatever calls are made, and whichever of them fail, the links of the list
\* are the order of the last use read from either end, and a line that a failed
\* read took out of it points nowhere: the victim is the least recently used.
THEOREM ListKeepsRecency == Spec => []ListIsRecency
<1>1. Init => ListInv
  BY FreshLinked DEF Init, ListInv
<1>2. Spec => []ListInv
  BY Inductive, <1>1, ListStep, PTL DEF Spec
<1>3. ListInv => ListIsRecency
  BY LinkedMeans DEF ListInv, Orders
<1>. QED  BY <1>2, <1>3, PTL
====
