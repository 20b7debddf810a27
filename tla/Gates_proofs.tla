---- MODULE Gates_proofs ----
(***************************************************************************)
(* Theorems about the three modules that stand between a caller and the    *)
(* disk or a capability, and their proofs: the installer (Install), the    *)
(* disk gate (DiskGate) and the capability policy (RootPolicy).  They      *)
(* share no state; one module holds their proofs because they share the    *)
(* lemmas they cite.                                                       *)
(***************************************************************************)
EXTENDS Install, DiskGate, RootPolicy, SequenceTheorems, FiniteSetTheorems, TLAPS

----
(***************************************************************************)
(* Install: whatever the drive and the power do, the platter holds nothing *)
(* or one complete system for good, for every layout of segments, every    *)
(* set of module lists and any number of tries and boots.                  *)
(***************************************************************************)
\* The lists of modules check_and_install may work on.
Lists == {collect_modules(list) : list \in Boots}

\* The sector of the disk for sector i of slot s.
Place(s, i) == Segments[s].lba_start + i

\* Sector i of slot s is on the platter, and the drive holds nothing newer.
Safe(ms, s, i) ==
    /\ media[Place(s, i)] = <<ms[s].name, i>>
    /\ cache[Place(s, i)] = Clean

\* The whole of slot s is.
SafeSlot(ms, s) ==
    /\ SectorsOf(ms, s) <= Segments[s].max_sectors
    /\ \A i \in 0 .. SectorsOf(ms, s) - 1 : Safe(ms, s, i)

\* No header has been sent to the drive.
NoHeader == media[HEADER_LBA] = Blank /\ cache[HEADER_LBA] = Clean

\* All of ms is on the platter, and if there is a header it is theirs.
HeaderOf(ms) ==
    /\ \A s \in Slots : SafeSlot(ms, s)
    /\ media[HEADER_LBA] \in {Blank, InstallHeader(ms)}
    /\ cache[HEADER_LBA] \in {Clean, InstallHeader(ms)}

Outcomes == {"off", "already", "skipped", "failed", "complete"}

TypeInv ==
    /\ pc \in Running \cup Outcomes
    /\ pc \in Running => mods \in Lists
    /\ slot \in 1 .. Len(Segments) + 1 /\ sector \in Nat
    /\ media = [l \in Lbas |-> media[l]]
    /\ cache = [l \in Lbas |-> cache[l]]

\* While an installation runs, what lies behind it is safe.
Progress ==
    pc \in Running \ {"check"} =>
        /\ \A s \in Slots : s < slot => SafeSlot(mods, s)
        /\ slot \in Slots => NoHeader
        /\ slot \notin Slots => HeaderOf(mods)

\* Within a segment, so are the sectors before the one being written; once
\* the drive has taken that one, it answers it.
InSegment ==
    pc \in {"send", "settle", "flush"} =>
        /\ slot \in Slots =>
               /\ sector < SectorsOf(mods, slot)
               /\ SectorsOf(mods, slot) <= Segments[slot].max_sectors
               /\ \A i \in 0 .. sector - 1 : Safe(mods, slot, i)
        /\ pc # "send" => Read(Target) = Data

\* A header, on the platter or in the cache, has its system behind it.
HeaderLast == NoHeader \/ \E ms \in Lists : HeaderOf(ms)

Finished ==
    pc = "complete" => /\ media[HEADER_LBA] # Blank
                       /\ \A l \in Lbas : cache[l] = Clean

IInv == TypeInv /\ Progress /\ InSegment /\ HeaderLast /\ Finished

----
(***************************************************************************)
(* Places and contents.                                                    *)
(***************************************************************************)
LEMMA SlotsAre ==
    /\ Len(Segments) \in Nat
    /\ Slots = 1 .. Len(Segments)
    /\ \A s \in Slots : Segments[s].lba_start \in Nat /\ Segments[s].max_sectors \in Nat
<1>1. Segments \in Seq([lba_start : Nat, max_sectors : Nat])
  BY InstallAssumption
<1>2. Len(Segments) \in Nat /\ Slots = 1 .. Len(Segments)
  BY <1>1 DEF Slots
<1>3. \A s \in Slots : Segments[s] \in [lba_start : Nat, max_sectors : Nat]
  BY <1>1, <1>2, ElementOfSeq
<1>. QED  BY <1>2, <1>3

\* A module of a list has a number of sectors.
LEMMA Sizes ==
    ASSUME NEW ms \in Lists, NEW s \in Slots
    PROVE  SectorsOf(ms, s) \in Nat
BY CollectAssumption DEF Lists

\* A sector of a module has a place of its own, which is not the header's.
LEMMA Places ==
    ASSUME NEW s \in Slots, NEW i \in Nat, i < Segments[s].max_sectors
    PROVE  /\ Place(s, i) \in Lbas
           /\ Place(s, i) # HEADER_LBA
           /\ \A t \in Slots, j \in Nat :
                  j < Segments[t].max_sectors /\ Place(t, j) = Place(s, i) => t = s /\ j = i
<1>1. \A t \in Slots, j \in Nat : j < Segments[t].max_sectors => Place(t, j) \in Extent(t)
  BY SlotsAre DEF Place, Extent
<1>2. Place(s, i) \in Extent(s)
  BY <1>1
<1>3. ASSUME NEW t \in Slots, NEW j \in Nat, j < Segments[t].max_sectors, Place(t, j) = Place(s, i)
      PROVE  t = s /\ j = i
  <2>1. t = s
    BY <1>1, <1>2, <1>3, LayoutAssumption
  <2>. QED  BY <2>1, <1>3, SlotsAre DEF Place
<1>. QED  BY <1>2, <1>3, LayoutAssumption DEF Lbas

\* Data of the drive is told apart from its absence.
LEMMA Contents ==
    ASSUME NEW ms, NEW n, NEW i
    PROVE  /\ Blank # InstallHeader(ms) /\ Clean # InstallHeader(ms)
           /\ Blank # Clean /\ <<n, i>> # Clean
           /\ is_valid(InstallHeader(ms)) /\ ~ is_valid(Blank)
<1>1. Len(<<n, i>>) = 2 /\ Len(Clean) = 1
  BY DEF Clean
<1>2. InstallHeader(ms)[1] = "COSINST" /\ Blank[1] = "blank" /\ Clean[1] = "clean"
  BY DEF InstallHeader, Blank, Clean
<1>. QED  BY <1>1, <1>2 DEF is_valid

\* The sector being written.
LEMMA Targets ==
    ASSUME TypeInv, InSegment, pc \in {"send", "settle", "flush"}
    PROVE  /\ Data # Clean
           /\ slot \notin Slots => Target = HEADER_LBA /\ Data = InstallHeader(mods)
           /\ slot \in Slots => /\ Target = Place(slot, sector)
                                /\ Data = <<mods[slot].name, sector>>
                                /\ sector < Segments[slot].max_sectors
           /\ Target \in Lbas
<1>1. mods \in Lists
  BY DEF TypeInv, Running
<1>2. CASE slot \in Slots
  <2>1. sector < Segments[slot].max_sectors /\ sector \in Nat
    BY <1>1, <1>2, Sizes, SlotsAre DEF InSegment, TypeInv
  <2>. QED  BY <1>2, <2>1, Places, Contents DEF Target, Data, Place
<1>3. CASE slot \notin Slots
  BY <1>3, Contents DEF Target, Data, Lbas
<1>. QED  BY <1>2, <1>3

----
(***************************************************************************)
(* What a step leaves alone: a sector that is clean in the cache and not   *)
(* the one being written.                                                  *)
(***************************************************************************)
Untouched(l) == cache'[l] = Clean /\ media'[l] = media[l]

\* A sector the drive holds nothing for, and no command writes, stays as it is.
LEMMA CleanStays ==
    ASSUME IInv, [Next]_vars, NEW l \in Lbas, cache[l] = Clean,
           pc \in {"send", "settle"} => l # Target
    PROVE  Untouched(l)
<1>. USE DEF Untouched
<1>0. /\ DOMAIN cache = Lbas /\ DOMAIN media = Lbas
  BY DEF IInv, TypeInv
<1>1. CASE PowerOn
  BY <1>1 DEF PowerOn
<1>2. CASE CheckHeader
  BY <1>2 DEF CheckHeader
<1>3. CASE SkipModule
  BY <1>3 DEF SkipModule
<1>4. CASE OpenSegment
  BY <1>4 DEF OpenSegment
<1>5. CASE SendSector
  BY <1>0, <1>5 DEF SendSector
<1>6. CASE Settle
  BY <1>0, <1>6 DEF Settle, KeptOrDropped
<1>7. CASE Flush
  <2>1. CASE media' = Flushed /\ cache' = [k \in Lbas |-> Clean]
    BY <2>1 DEF Flushed, Read
  <2>2. CASE KeptOrDropped /\ UNCHANGED media
    BY <1>0, <2>2 DEF KeptOrDropped
  <2>. QED  BY <1>7, <2>1, <2>2 DEF Flush, flush
<1>8. CASE PowerCut
  BY <1>8 DEF PowerCut
<1>9. CASE WarmReset
  BY <1>9 DEF WarmReset
<1>10. ASSUME NEW k \in Lbas, WriteBack(k) PROVE Untouched(l)
  BY <1>0, <1>10 DEF WriteBack
<1>11. CASE UNCHANGED vars
  BY <1>11 DEF vars
<1>. QED  BY <1>1, <1>2, <1>3, <1>4, <1>5, <1>6, <1>7, <1>8, <1>9, <1>10, <1>11 DEF Next, Boot

\* A sector behind the one being written stays safe, and the modules do too.
LEMMA SafeStays ==
    ASSUME IInv, [Next]_vars, NEW ms, NEW s \in Slots, NEW i \in Nat,
           i < Segments[s].max_sectors, Safe(ms, s, i),
           pc \in {"send", "settle"} => Place(s, i) # Target
    PROVE  Safe(ms, s, i)'
<1>1. Place(s, i) \in Lbas /\ Place(s, i)' = Place(s, i)
  BY Places DEF Place
<1>2. Untouched(Place(s, i))
  BY <1>1, CleanStays DEF Safe
<1>. QED  BY <1>1, <1>2 DEF Safe, Untouched

\* So does a slot that is not being written.
LEMMA SlotStays ==
    ASSUME IInv, [Next]_vars, NEW ms \in Lists, NEW s \in Slots, SafeSlot(ms, s),
           pc \in {"send", "settle"} => slot # s
    PROVE  SafeSlot(ms, s)'
<1>1. ASSUME NEW i \in 0 .. SectorsOf(ms, s) - 1 PROVE Safe(ms, s, i)'
  <2>1. i \in Nat /\ i < Segments[s].max_sectors /\ Safe(ms, s, i)
    BY <1>1, Sizes, SlotsAre DEF SafeSlot
  <2>2. ASSUME pc \in {"send", "settle"} PROVE Place(s, i) # Target
    <3>1. slot \in Slots => Target = Place(slot, sector) /\ sector < Segments[slot].max_sectors
      BY <2>2, Targets DEF IInv
    <3>2. slot \notin Slots => Target = HEADER_LBA
      BY DEF Target
    <3>3. sector \in Nat
      BY DEF IInv, TypeInv
    <3>. QED  BY <2>1, <2>2, <3>1, <3>2, <3>3, Places
  <2>. QED  BY <2>1, <2>2, SafeStays
<1>2. SectorsOf(ms, s)' = SectorsOf(ms, s)
  BY DEF SectorsOf
<1>. QED  BY <1>1, <1>2 DEF SafeSlot

\* A header, and the system behind it, stay; and no step but the writing of
\* the header makes one.
LEMMA HeaderStays ==
    ASSUME IInv, [Next]_vars, NEW ms \in Lists, HeaderOf(ms), ~ NoHeader
    PROVE  HeaderOf(ms)' /\ (media[HEADER_LBA] # Blank => media'[HEADER_LBA] = media[HEADER_LBA])
<1>. USE SlotsAre
<1>0. /\ DOMAIN cache = Lbas /\ DOMAIN media = Lbas /\ HEADER_LBA \in Lbas
      /\ InstallHeader(ms)' = InstallHeader(ms)
      /\ Blank # InstallHeader(ms) /\ Clean # InstallHeader(ms)
  BY Contents DEF IInv, TypeInv, Lbas, InstallHeader, SectorsOf
<1>1. ASSUME pc \in {"send", "settle", "flush"}
      PROVE  /\ slot \notin Slots /\ Target = HEADER_LBA
             /\ Data = InstallHeader(mods)
             /\ media[HEADER_LBA] \in {Blank, InstallHeader(mods)}
             /\ cache[HEADER_LBA] \in {Clean, InstallHeader(mods)}
  BY <1>1, Targets DEF IInv, Progress, HeaderOf, Running
<1>2. ASSUME NEW s \in Slots PROVE SafeSlot(ms, s)'
  BY <1>1, <1>2, SlotStays DEF HeaderOf
<1>3. /\ media'[HEADER_LBA] \in {Blank, InstallHeader(ms)}
      /\ cache'[HEADER_LBA] \in {Clean, InstallHeader(ms)}
      /\ media[HEADER_LBA] # Blank => media'[HEADER_LBA] = media[HEADER_LBA]
  <2>1. CASE UNCHANGED <<media, cache>>
    BY <2>1 DEF HeaderOf
  <2>2. CASE SendSector
    BY <1>0, <1>1, <2>2 DEF SendSector, HeaderOf, NoHeader
  <2>3. CASE Settle
    BY <1>0, <1>1, <2>3 DEF Settle, KeptOrDropped, HeaderOf
  <2>4. CASE Flush
    <3>1. CASE media' = Flushed /\ cache' = [k \in Lbas |-> Clean]
      BY <1>0, <3>1 DEF Flushed, Read, HeaderOf
    <3>2. CASE KeptOrDropped /\ UNCHANGED media
      BY <1>0, <3>2 DEF KeptOrDropped, HeaderOf
    <3>. QED  BY <2>4, <3>1, <3>2 DEF Flush, flush
  <2>5. CASE PowerCut
    BY <1>0, <2>5 DEF PowerCut, HeaderOf
  <2>6. ASSUME NEW k \in Lbas, WriteBack(k)
        PROVE  /\ media'[HEADER_LBA] \in {Blank, InstallHeader(ms)}
               /\ cache'[HEADER_LBA] \in {Clean, InstallHeader(ms)}
               /\ media[HEADER_LBA] # Blank => media'[HEADER_LBA] = media[HEADER_LBA]
    BY <1>0, <2>6 DEF WriteBack, HeaderOf
  <2>7. (PowerOn \/ CheckHeader \/ SkipModule \/ OpenSegment \/ WarmReset \/ UNCHANGED vars)
            => UNCHANGED <<media, cache>>
    BY DEF PowerOn, CheckHeader, SkipModule, OpenSegment, WarmReset, vars
  <2>. QED  BY <2>1, <2>2, <2>3, <2>4, <2>5, <2>6, <2>7 DEF Next, Boot
<1>. QED  BY <1>0, <1>2, <1>3 DEF HeaderOf

\* Only the command for the header makes a header.
LEMMA NoHeaderStays ==
    ASSUME IInv, [Next]_vars, NoHeader, ~ (SendSector /\ slot \notin Slots)
    PROVE  NoHeader'
<1>1. HEADER_LBA \in Lbas
  BY DEF Lbas
<1>2. CASE pc \in {"send", "settle"} => HEADER_LBA # Target
  BY <1>1, <1>2, CleanStays DEF NoHeader, Untouched
<1>3. CASE pc \in {"send", "settle"} /\ HEADER_LBA = Target
  <2>1. slot \notin Slots
    BY <1>3, Targets, Places DEF IInv, TypeInv
  <2>2. pc = "send"
    BY <1>3, <2>1, Targets, Contents DEF IInv, InSegment, NoHeader, Read
  <2>. QED
    BY <2>1, <2>2, <1>1 DEF Next, Boot, PowerOn, CheckHeader, SkipModule, OpenSegment, Settle,
       Flush, PowerCut, WarmReset, WriteBack, vars, NoHeader, IInv, TypeInv
<1>. QED  BY <1>2, <1>3

----
(***************************************************************************)
(* The invariant.                                                          *)
(***************************************************************************)
LEMMA InitEstablishes == Init => IInv
<1>. SUFFICES ASSUME Init PROVE IInv
  OBVIOUS
<1>1. HEADER_LBA \in Lbas
  BY DEF Lbas
<1>. QED
  BY <1>1, SlotsAre DEF Init, IInv, TypeInv, Progress, InSegment, HeaderLast, Finished, NoHeader,
     Running, Outcomes

\* Every step keeps the types.
LEMMA TypeStep == IInv /\ [Next]_vars => TypeInv'
<1>. SUFFICES ASSUME IInv, [Next]_vars PROVE TypeInv'
  OBVIOUS
<1>. USE SlotsAre DEF IInv, TypeInv, Running, Outcomes
<1>1. CASE PowerOn
  BY <1>1 DEF PowerOn, Lists
<1>2. CASE CheckHeader
  BY <1>2 DEF CheckHeader, check_header
<1>3. CASE SkipModule
  BY <1>3 DEF SkipModule
<1>4. CASE OpenSegment
  BY <1>4 DEF OpenSegment
<1>5. CASE SendSector
  BY <1>5 DEF SendSector, Retry
<1>6. CASE Settle
  BY <1>6 DEF Settle, Retry, KeptOrDropped
<1>7. CASE Flush
  <2>1. CASE Advance /\ media' = Flushed /\ cache' = [k \in Lbas |-> Clean]
    BY <1>7, <2>1 DEF Flush, Advance, Flushed
  <2>2. ASSUME NEW a \in Answers, Retry(a), KeptOrDropped, UNCHANGED <<slot, sector, media>>
        PROVE  TypeInv'
    BY <1>7, <2>2 DEF Flush, Retry, KeptOrDropped
  <2>. QED  BY <1>7, <2>1, <2>2 DEF Flush, flush
<1>8. CASE PowerCut
  BY <1>8 DEF PowerCut
<1>9. CASE WarmReset
  BY <1>9 DEF WarmReset
<1>10. ASSUME NEW k \in Lbas, WriteBack(k) PROVE TypeInv'
  BY <1>10 DEF WriteBack
<1>11. CASE UNCHANGED vars
  BY <1>11 DEF vars
<1>. QED  BY <1>1, <1>2, <1>3, <1>4, <1>5, <1>6, <1>7, <1>8, <1>9, <1>10, <1>11 DEF Next, Boot

\* What lies behind a running installation stays behind it.
LEMMA BehindStays ==
    ASSUME IInv, [Next]_vars, pc \in Running \ {"check"}, UNCHANGED mods
    PROVE  /\ \A s \in Slots : s < slot => SafeSlot(mods, s)'
           /\ slot \in Slots => NoHeader'
           /\ slot \notin Slots => HeaderOf(mods)'
<1>. PICK ms \in Lists : ms = mods
  BY DEF IInv, TypeInv
<1>1. ASSUME NEW s \in Slots, SafeSlot(ms, s)' PROVE SafeSlot(mods, s)'
  BY <1>1 DEF SafeSlot, Safe, SectorsOf, Place
<1>2. ASSUME NEW s \in Slots, s < slot PROVE SafeSlot(mods, s)'
  BY <1>1, <1>2, SlotStays, SlotsAre DEF IInv, TypeInv, Progress
<1>3. ASSUME slot \in Slots PROVE NoHeader'
  BY <1>3, NoHeaderStays DEF IInv, Progress
<1>4. ASSUME slot \notin Slots PROVE HeaderOf(mods)'
  <2>0. HeaderOf(mods) /\ InstallHeader(mods)' = InstallHeader(mods)
    BY <1>4 DEF IInv, Progress, InstallHeader, SectorsOf
  <2>1. \A s \in Slots : SafeSlot(mods, s)'
    BY <1>2, <1>4, SlotsAre DEF IInv, TypeInv
  <2>2. CASE ~ NoHeader
    <3>1. HeaderOf(ms)'
      BY <2>0, <2>2, HeaderStays
    <3>. QED  BY <2>0, <2>1, <3>1 DEF HeaderOf
  <2>3. CASE NoHeader'
    BY <2>1, <2>3 DEF HeaderOf, NoHeader
  <2>4. CASE NoHeader /\ SendSector
    <3>1. Target = HEADER_LBA /\ Data = InstallHeader(mods)
      BY <1>4, <2>4, Targets DEF SendSector, IInv
    <3>2. DOMAIN cache = Lbas /\ HEADER_LBA \in Lbas
      BY DEF IInv, TypeInv, Lbas
    <3>. QED  BY <2>0, <2>1, <2>4, <3>1, <3>2 DEF SendSector, HeaderOf, NoHeader
  <2>. QED  BY <2>2, <2>3, <2>4, NoHeaderStays
<1>. QED  BY <1>2, <1>3, <1>4

\* Every step keeps what the installation has behind it.
LEMMA ProgressStep == IInv /\ [Next]_vars => Progress'
<1>. SUFFICES ASSUME IInv, [Next]_vars, (pc \in Running \ {"check"})' PROVE Progress'
  BY DEF Progress
<1>. USE SlotsAre
<1>1. CASE CheckHeader
  <2>1. ~ is_valid(Read(HEADER_LBA)) /\ slot' = 1 /\ UNCHANGED <<mods, media, cache>>
    BY <1>1 DEF CheckHeader, check_header, Running
  <2>2. NoHeader
    BY <2>1, Contents DEF IInv, HeaderLast, HeaderOf, NoHeader, Read
  <2>. QED  BY <2>1, <2>2 DEF Progress, NoHeader, HeaderOf
<1>2. CASE SkipModule
  <2>1. UNCHANGED <<mods, media, cache>> /\ slot' = slot + 1 /\ slot \in Slots
        /\ SectorsOf(mods, slot) = 0 /\ pc = "open"
    BY <1>2 DEF SkipModule
  <2>2. \A s \in Slots : SafeSlot(mods, s)' = SafeSlot(mods, s)
    BY <2>1 DEF SafeSlot, Safe, SectorsOf, Place
  <2>3. SafeSlot(mods, slot) /\ NoHeader /\ \A s \in Slots : s < slot => SafeSlot(mods, s)
    BY <2>1 DEF SafeSlot, IInv, Progress, Running
  <2>4. \A s \in Slots : s < slot' => SafeSlot(mods, s)'
    BY <2>1, <2>2, <2>3 DEF IInv, TypeInv
  <2>. QED  BY <2>1, <2>3, <2>4 DEF Progress, NoHeader, HeaderOf
<1>3. CASE UNCHANGED <<mods, slot>> /\ pc \in Running \ {"check"}
  BY <1>3, BehindStays DEF Progress
<1>4. CASE Flush
  <2>1. UNCHANGED mods /\ pc = "flush" /\ slot \in Slots \cup {Len(Segments) + 1}
    BY <1>4 DEF Flush, IInv, TypeInv
  <2>2. ASSUME slot' # slot
        PROVE  /\ slot \in Slots /\ slot' = slot + 1 /\ ~ (sector + 1 < mods[slot].sectors)
               /\ media' = Flushed /\ cache' = [l \in Lbas |-> Clean]
    BY <1>4, <2>2 DEF Flush, flush, Advance, Retry
  <2>3. ASSUME slot' # slot, NEW s \in Slots, s = slot PROVE SafeSlot(mods, s)'
    <3>. PICK ms \in Lists : ms = mods
      BY <2>1 DEF IInv, TypeInv, Running
    <3>1. /\ sector < SectorsOf(ms, s) /\ SectorsOf(ms, s) <= Segments[s].max_sectors
          /\ \A i \in 0 .. sector - 1 : Safe(ms, s, i)
          /\ Read(Target) = Data
      BY <2>1, <2>2, <2>3 DEF IInv, InSegment
    <3>2. SectorsOf(ms, s) \in Nat /\ sector \in Nat
      BY Sizes DEF IInv, TypeInv
    <3>3. sector + 1 >= SectorsOf(ms, s)
      BY <2>2, <2>3, <3>1, <3>2 DEF SectorsOf
    <3>4. ASSUME NEW i \in 0 .. SectorsOf(ms, s) - 1 PROVE Safe(ms, s, i)'
      <4>0. i \in Nat /\ i < Segments[s].max_sectors
        BY <3>1, <3>2
      <4>1. CASE i < sector
        BY <2>1, <3>1, <3>2, <4>0, <4>1, SafeStays
      <4>2. CASE i = sector
        <5>1. Target = Place(s, i) /\ Data = <<ms[s].name, i>> /\ Target \in Lbas
          BY <2>1, <2>3, <4>2, Targets DEF IInv
        <5>2. media'[Place(s, i)] = <<ms[s].name, i>> /\ cache'[Place(s, i)] = Clean
          BY <2>2, <2>3, <3>1, <5>1 DEF Flushed
        <5>3. Place(s, i)' = Place(s, i)
          BY DEF Place
        <5>. QED  BY <5>2, <5>3 DEF Safe
      <4>. QED  BY <3>2, <3>3, <4>1, <4>2
    <3>5. SafeSlot(ms, s)'
      BY <3>1, <3>4 DEF SafeSlot, SectorsOf
    <3>. QED  BY <2>1, <3>5 DEF SafeSlot, Safe, SectorsOf, Place
  <2>4. CASE slot' # slot
    <3>1. ASSUME NEW s \in Slots, s < slot' PROVE SafeSlot(mods, s)'
      <4>1. s < slot \/ s = slot
        BY <2>2, <2>4, <3>1
      <4>. QED  BY <2>1, <2>3, <2>4, <4>1, BehindStays DEF Running
    <3>2. NoHeader'
      BY <2>1, <2>2, <2>4, BehindStays DEF Running
    <3>. QED  BY <2>2, <2>4, <3>1, <3>2 DEF Progress, HeaderOf, NoHeader
  <2>. QED  BY <1>3, <2>1, <2>4 DEF Running
<1>5. CASE OpenSegment \/ SendSector \/ Settle \/ (\E l \in Lbas : WriteBack(l)) \/ UNCHANGED vars
  BY <1>3, <1>5 DEF OpenSegment, SendSector, Settle, WriteBack, vars, Running
<1>. QED
  BY <1>1, <1>2, <1>4, <1>5 DEF Next, Boot, PowerOn, PowerCut, WarmReset, Running

\* Every step keeps the sectors of the segment that are behind.
LEMMA SegmentStep == IInv /\ [Next]_vars => InSegment'
<1>. SUFFICES ASSUME IInv, [Next]_vars, (pc \in {"send", "settle", "flush"})' PROVE InSegment'
  BY DEF InSegment
<1>. USE SlotsAre
\* The sectors behind, as long as the installation stays where it is.
<1>1. ASSUME UNCHANGED <<mods, slot, sector>>, pc \in {"send", "settle", "flush"}
      PROVE  slot \in Slots =>
                 /\ (sector < SectorsOf(mods, slot))'
                 /\ (SectorsOf(mods, slot) <= Segments[slot].max_sectors)'
                 /\ (\A i \in 0 .. sector - 1 : Safe(mods, slot, i))'
  <2>. SUFFICES ASSUME slot \in Slots
                PROVE  \A i \in 0 .. sector - 1 : Safe(mods, slot, i)'
    BY <1>1 DEF IInv, InSegment, SectorsOf
  <2>. PICK ms \in Lists, s \in Slots, k \in Nat : ms = mods /\ s = slot /\ k = sector
    BY <1>1 DEF IInv, TypeInv, Running
  <2>1. ASSUME NEW i \in 0 .. k - 1 PROVE Safe(ms, s, i)'
    <3>1. /\ i \in Nat /\ i < k /\ k < Segments[s].max_sectors
          /\ Safe(ms, s, i) /\ Target = Place(s, k)
      BY <1>1, Targets DEF IInv, InSegment
    <3>. QED  BY <3>1, SafeStays, Places
  <2>. QED  BY <1>1, <2>1 DEF Safe, Place
<1>2. DOMAIN cache = Lbas /\ DOMAIN media = Lbas
  BY DEF IInv, TypeInv
<1>3. CASE OpenSegment
  <2>1. slot \in Slots => SectorsOf(mods, slot) <= Segments[slot].max_sectors
    BY <1>3 DEF OpenSegment
  <2>2. slot \in Slots => SectorsOf(mods, slot) > 0
    BY <1>3 DEF OpenSegment
  <2>3. sector' = 0 /\ UNCHANGED <<mods, slot>> /\ pc' \in {"send", "failed"}
    BY <1>3 DEF OpenSegment
  <2>4. SectorsOf(mods, slot)' = SectorsOf(mods, slot)
    BY <2>3 DEF SectorsOf
  <2>. QED  BY <2>1, <2>2, <2>3, <2>4 DEF InSegment
<1>4. CASE SendSector
  <2>1. UNCHANGED <<mods, slot, sector>> /\ pc = "send" /\ Target' = Target /\ Data' = Data
    BY <1>4 DEF SendSector, Target, Data, InstallHeader, SectorsOf
  <2>2. pc' # "send" => cache' = [cache EXCEPT ![Target] = Data]
    BY <1>4 DEF SendSector, Retry
  <2>3. pc' # "send" => Read(Target)' = Data
    BY <1>2, <2>1, <2>2, Targets DEF Read, IInv
  <2>. QED  BY <1>1, <2>1, <2>3 DEF InSegment
<1>5. CASE Settle
  <2>1. UNCHANGED <<mods, slot, sector, media>> /\ pc = "settle" /\ Target' = Target /\ Data' = Data
    BY <1>5 DEF Settle, Target, Data, InstallHeader, SectorsOf
  <2>2. pc' # "send" => UNCHANGED cache
    BY <1>5 DEF Settle, Retry
  <2>3. pc' # "send" => Read(Target)' = Data
    BY <2>1, <2>2 DEF Read, IInv, InSegment
  <2>. QED  BY <1>1, <2>1, <2>3 DEF InSegment
<1>6. CASE Flush
  <2>1. pc' = "send" /\ pc = "flush" /\ UNCHANGED mods
    BY <1>6 DEF Flush, flush, Retry, Advance
  <2>2. CASE UNCHANGED <<slot, sector>>
    BY <1>1, <2>1, <2>2 DEF InSegment
  <2>3. CASE ~ UNCHANGED <<slot, sector>>
    <3>1. /\ slot \in Slots /\ slot' = slot /\ sector' = sector + 1 /\ sector + 1 < mods[slot].sectors
          /\ media' = Flushed /\ cache' = [l \in Lbas |-> Clean]
      BY <2>1, <1>6, <2>3 DEF Flush, flush, Retry, Advance
    <3>. PICK ms \in Lists, s \in Slots, k \in Nat : ms = mods /\ s = slot /\ k = sector
      BY <2>1, <3>1 DEF IInv, TypeInv, Running
    <3>2. /\ k < SectorsOf(ms, s) /\ SectorsOf(ms, s) <= Segments[s].max_sectors
          /\ \A i \in 0 .. k - 1 : Safe(ms, s, i)
          /\ Read(Target) = Data /\ Target = Place(s, k) /\ Data = <<ms[s].name, k>>
          /\ Target \in Lbas /\ k < Segments[s].max_sectors
      BY <2>1, <3>1, Targets DEF IInv, InSegment
    <3>3. SectorsOf(ms, s) = mods[slot].sectors /\ SectorsOf(ms, s) \in Nat
      BY <3>2, Sizes DEF SectorsOf
    <3>4. ASSUME NEW i \in 0 .. k PROVE Safe(ms, s, i)'
      <4>1. CASE i < k
        <5>1. i \in Nat /\ i < Segments[s].max_sectors /\ Safe(ms, s, i)
          BY <3>2, <4>1
        <5>. QED  BY <2>1, <5>1, SafeStays
      <4>2. CASE i = k
        <5>1. media'[Place(s, i)] = <<ms[s].name, i>> /\ cache'[Place(s, i)] = Clean
          BY <3>1, <3>2, <4>2 DEF Flushed
        <5>2. Place(s, i)' = Place(s, i)
          BY DEF Place
        <5>. QED  BY <5>1, <5>2 DEF Safe
      <4>. QED  BY <4>1, <4>2
    <3>5. /\ (sector < SectorsOf(mods, slot))'
          /\ (SectorsOf(mods, slot) <= Segments[slot].max_sectors)'
      <4>1. SectorsOf(mods, slot)' = SectorsOf(ms, s) /\ slot' = s /\ sector' = k + 1
        BY <2>1, <3>1 DEF SectorsOf
      <4>2. k + 1 < SectorsOf(ms, s)
        BY <3>1, <3>3
      <4>. QED  BY <3>2, <4>1, <4>2
    <3>6. (\A i \in 0 .. sector - 1 : Safe(mods, slot, i))'
      <4>1. mods' = ms /\ slot' = s /\ sector' - 1 = k
        BY <2>1, <3>1
      <4>. QED  BY <3>4, <4>1 DEF Safe, Place
    <3>. QED  BY <2>1, <3>5, <3>6 DEF InSegment
  <2>. QED  BY <2>2, <2>3
<1>7. ASSUME NEW l \in Lbas, WriteBack(l) PROVE InSegment'
  <2>1. UNCHANGED <<mods, slot, sector, pc>> /\ Target' = Target /\ Data' = Data
    BY <1>7 DEF WriteBack, Target, Data, InstallHeader, SectorsOf
  <2>2. Target \in Lbas => Read(Target)' = Read(Target)
    BY <1>2, <1>7, <2>1 DEF WriteBack, Read
  <2>3. pc # "send" => Read(Target)' = Data
    BY <2>1, <2>2, Targets DEF IInv, InSegment
  <2>. QED  BY <1>1, <2>1, <2>3 DEF InSegment
<1>8. CASE UNCHANGED vars
  <2>1. Target' = Target /\ Data' = Data /\ UNCHANGED <<mods, slot, sector, pc, media, cache>>
    BY <1>8 DEF vars, Target, Data, InstallHeader, SectorsOf
  <2>2. Read(Target)' = Read(Target)
    BY <2>1 DEF Read
  <2>. QED  BY <1>1, <2>1, <2>2 DEF InSegment, IInv
<1>. QED
  BY <1>3, <1>4, <1>5, <1>6, <1>7, <1>8
     DEF Next, Boot, PowerOn, PowerCut, WarmReset, CheckHeader, check_header, SkipModule

\* Every step keeps the header last and a finished installation whole.
LEMMA HeaderStep == IInv /\ [Next]_vars => HeaderLast' /\ Finished'
<1>. SUFFICES ASSUME IInv, [Next]_vars PROVE HeaderLast' /\ Finished'
  OBVIOUS
<1>1. HeaderLast'
  <2>1. CASE ~ NoHeader
    <3>. PICK ms \in Lists : HeaderOf(ms)
      BY <2>1 DEF IInv, HeaderLast
    <3>. QED  BY <2>1, HeaderStays DEF HeaderLast
  <2>2. CASE NoHeader /\ ~ (SendSector /\ slot \notin Slots)
    BY <2>2, NoHeaderStays DEF HeaderLast
  <2>3. CASE SendSector /\ slot \notin Slots
    <3>1. pc \in Running \ {"check"} /\ UNCHANGED mods
      BY <2>3 DEF SendSector, Running
    <3>. PICK ms \in Lists : ms = mods
      BY <3>1 DEF IInv, TypeInv
    <3>2. HeaderOf(mods)' /\ ms = mods'
      BY <2>3, <3>1, BehindStays
    <3>. QED  BY <3>2 DEF HeaderLast, HeaderOf, SafeSlot, Safe, SectorsOf, InstallHeader, Place
  <2>. QED  BY <2>1, <2>2, <2>3
<1>2. Finished'
  <2>. SUFFICES ASSUME pc' = "complete" PROVE Finished'
    BY DEF Finished
  <2>1. CASE Flush
    <3>1. /\ slot \notin Slots /\ pc = "flush" /\ media' = Flushed
          /\ cache' = [l \in Lbas |-> Clean]
      BY <2>1 DEF Flush, flush, Advance, Retry
    <3>2. Read(HEADER_LBA) = InstallHeader(mods) /\ HEADER_LBA \in Lbas
      BY <3>1, Targets DEF IInv, InSegment
    <3>. QED  BY <3>1, <3>2, Contents DEF Finished, Flushed
  <2>2. CASE UNCHANGED <<pc, media, cache>>
    BY <2>2 DEF IInv, Finished
  <2>3. ASSUME NEW l \in Lbas, WriteBack(l) PROVE FALSE
    BY <2>3 DEF WriteBack, IInv, Finished
  <2>. QED
    BY <2>1, <2>2, <2>3 DEF Next, Boot, PowerOn, CheckHeader, check_header, SkipModule, OpenSegment,
       SendSector, Settle, Retry, PowerCut, WarmReset, vars
<1>. QED  BY <1>1, <1>2

\* The invariant of the installer holds in every state.
THEOREM Inductive == Spec => []IInv
<1>1. IInv /\ [Next]_vars => IInv'
  BY TypeStep, ProgressStep, SegmentStep, HeaderStep DEF IInv
<1>. QED  BY InitEstablishes, <1>1, PTL DEF Spec

----
(***************************************************************************)
(* What follows.                                                           *)
(***************************************************************************)
\* When "Installation complete" is printed, the header is on the platter and
\* the drive has nothing left to write.
THEOREM CompletionIsDurable == Spec => []CompleteIsDurable
<1>1. IInv => CompleteIsDurable
  <2>. SUFFICES ASSUME IInv, pc = "complete"
                PROVE  OnDisk[1] = "installed" /\ cache = [l \in Lbas |-> Clean]
    BY DEF CompleteIsDurable
  <2>1. cache = [l \in Lbas |-> Clean]
    BY DEF IInv, TypeInv, Finished
  <2>2. PICK ms \in Lists : media[HEADER_LBA] = InstallHeader(ms)
    BY DEF IInv, Finished, HeaderLast, HeaderOf, NoHeader
  <2>. QED  BY <2>1, <2>2, Contents DEF OnDisk
<1>. QED  BY Inductive, <1>1, PTL

\* A header found on the platter names a complete system.
LEMMA Installed ==
    \A ms \in Lists : HeaderOf(ms) /\ media[HEADER_LBA] # Blank =>
        OnDisk = <<"installed", Content(ms)>> /\ OnDisk \in Complete
<1>. SUFFICES ASSUME NEW ms \in Lists, HeaderOf(ms), media[HEADER_LBA] # Blank
              PROVE  OnDisk = <<"installed", Content(ms)>> /\ OnDisk \in Complete
  OBVIOUS
<1>1. media[HEADER_LBA] = InstallHeader(ms) /\ is_valid(media[HEADER_LBA])
  BY Contents DEF HeaderOf
<1>2. \A s \in Slots : media[HEADER_LBA][2][s] = SectorsOf(ms, s) /\ SectorsOf(ms, s) \in Nat
  BY <1>1, Sizes DEF InstallHeader
<1>3. ASSUME NEW s \in Slots, NEW i \in 1 .. SectorsOf(ms, s)
      PROVE  media[Segments[s].lba_start + i - 1] = <<ms[s].name, i - 1>>
  <2>1. i - 1 \in 0 .. SectorsOf(ms, s) - 1
    BY <1>2
  <2>2. media[Place(s, i - 1)] = <<ms[s].name, i - 1>>
    BY <2>1 DEF HeaderOf, SafeSlot, Safe
  <2>3. Place(s, i - 1) = Segments[s].lba_start + i - 1
    BY <1>2, SlotsAre DEF Place
  <2>. QED  BY <2>2, <2>3
<1>4. OnDisk = <<"installed", Content(ms)>>
  BY <1>1, <1>2, <1>3 DEF OnDisk, Content
<1>5. Fits(ms)
  BY DEF Fits, HeaderOf, SafeSlot
<1>. QED  BY <1>1, <1>4, <1>5 DEF Complete, Lists

\* What a header says of the platter, after a step.
LEMMA InstalledNext ==
    (\A ms \in Lists : HeaderOf(ms) /\ media[HEADER_LBA] # Blank =>
        OnDisk = <<"installed", Content(ms)>> /\ OnDisk \in Complete)'
BY Installed, PTL

\* Whatever fails, whenever the power goes and however often the machine is
\* reset, the platter goes from nothing to one complete system and stays.
THEOREM InstallIsAtomic == Spec => ImplementsAtomicInstall
<1>1. Init => Disk!Init
  <2>. SUFFICES ASSUME Init PROVE OnDisk = <<Uninstalled>>
    BY DEF Disk!Init
  <2>. QED  BY Contents DEF Init, OnDisk, Lbas
<1>2. IInv /\ IInv' /\ [Next]_vars => [Disk!Install]_OnDisk
  <2>. SUFFICES ASSUME IInv, IInv', [Next]_vars PROVE Disk!Install \/ OnDisk' = OnDisk
    OBVIOUS
  <2>0. /\ media[HEADER_LBA] = Blank => OnDisk = <<Uninstalled>>
        /\ media'[HEADER_LBA] = Blank => OnDisk' = <<Uninstalled>>
    BY Contents DEF OnDisk
  <2>1. CASE media[HEADER_LBA] # Blank
    <3>1. PICK ms \in Lists : HeaderOf(ms)
      BY <2>1 DEF IInv, HeaderLast, NoHeader
    <3>2. HeaderOf(ms)' /\ media'[HEADER_LBA] # Blank
      BY <2>1, <3>1, HeaderStays DEF NoHeader
    <3>3. OnDisk' = <<"installed", Content(ms)>>
      <4>1. Content(ms)' = Content(ms)
        BY DEF Content, SectorsOf
      <4>. QED  BY <3>2, <4>1, InstalledNext
    <3>. QED  BY <2>1, <3>1, <3>3, Installed
  <2>2. CASE media[HEADER_LBA] = Blank /\ media'[HEADER_LBA] # Blank
    <3>1. PICK ms \in Lists : HeaderOf(ms)'
      BY <2>2 DEF IInv, HeaderLast, NoHeader, Lists
    <3>2. OnDisk' \in Complete
      BY <2>2, <3>1, InstalledNext
    <3>. QED  BY <2>0, <2>2, <3>2 DEF Disk!Install
  <2>. QED  BY <2>0, <2>1, <2>2
<1>. QED  BY Inductive, <1>1, <1>2, PTL DEF Spec, ImplementsAtomicInstall, Disk!Spec

----
(***************************************************************************)
(* DiskGate: the rate of writes is bounded, alerts lock, and a lock is     *)
(* final, for every layout of regions and all requests, limits and         *)
(* thresholds.                                                             *)
(***************************************************************************)
\* The alerts that must lock are among those that are counted.
AlertInv ==
    /\ Total_Alerts \in Nat
    /\ serious \in 0 .. Total_Alerts
    /\ AlertsLock

\* The window holds the clock, and no write was let through after now.
ClockInv ==
    /\ Tick \in Nat /\ Burst_Count \in Nat /\ Burst_Window_Start \in Nat
    /\ Burst_Window_Start <= Tick /\ Tick <= Burst_Window_Start + BURST_WINDOW
    /\ grants \in Seq(Nat)
    /\ \A i \in DOMAIN grants : grants[i] <= Tick

\* This window has let through at most as many writes as it has counted, and
\* at most BURST_LIMIT.
WindowHolds ==
    \A i \in DOMAIN grants :
        i + Burst_Count <= Len(grants) \/ i + BURST_LIMIT <= Len(grants)
            => grants[i] < Burst_Window_Start

\* Of two writes that far apart, the later of an earlier window, the earlier
\* comes a whole window before this one.
WindowsBetween ==
    \A i, j \in DOMAIN grants :
        j = i + BURST_LIMIT /\ grants[j] < Burst_Window_Start
            => grants[i] + BURST_WINDOW < Burst_Window_Start

BurstInv == ClockInv /\ WindowHolds /\ WindowsBetween /\ BurstBounded

\* A call that lets no write through, raises no alert and lifts no lock.
Harmless ==
    /\ UNCHANGED <<Total_Alerts, serious, Hard_Lock, grants>>
    /\ UNCHANGED <<Tick, Burst_Count, Burst_Window_Start>> \/ disk_gate_tick
    /\ Lock_All' \in {Lock_All, TRUE}

----
(***************************************************************************)
(* The calls.                                                              *)
(***************************************************************************)
\* Only security_init and a write that passes the lock, the region and the
\* permit are not harmless.
LEMMA Calls ==
    ASSUME [GateNext]_gateVars
    PROVE  \/ cosinus_disk_security_init_all
           \/ Harmless
           \/ /\ ~ Hard_Lock /\ ~ Lock_All /\ Initialized
              /\ \E lba, hash : Record_Write(Outcome(lba, hash))
              /\ UNCHANGED Lock_All
<1>. USE DEF Harmless, monitor, security
<1>1. CASE disk_gate_check_tamper
  BY <1>1 DEF disk_gate_check_tamper, Emergency_Lock_All
<1>2. CASE disk_gate_tick
  BY <1>2 DEF disk_gate_tick, StillLocked
<1>3. ASSUME NEW q \in Requests, NEW ring \in CallerRings, disk_gate_read(q[1], q[2], ring)
      PROVE  Harmless
  BY <1>3 DEF disk_gate_read, Accessed
<1>4. ASSUME NEW q \in Requests, NEW ring \in CallerRings, NEW hash \in Hashes,
             disk_gate_write(q[1], q[2], ring, hash), ~ Harmless
      PROVE  /\ ~ Hard_Lock /\ ~ Lock_All /\ Initialized
             /\ \E lba, h : Record_Write(Outcome(lba, h))
             /\ UNCHANGED Lock_All
  <2>1. ~ Hard_Lock
    BY <1>4 DEF disk_gate_write, gateVars
  <2>2. /\ Check_Access(q[1], q[2], TRUE, ring) = "ERR_OK"
        /\ Record_Write(Outcome(q[1], hash)) /\ UNCHANGED Lock_All
    BY <1>4, <2>1 DEF disk_gate_write, Accessed
  <2>. QED  BY <2>1, <2>2 DEF Check_Access
<1>5. ASSUME NEW q \in Requests, disk_gate_install(q[1], q[2]) PROVE Harmless
  BY <1>5 DEF disk_gate_install, Accessed
<1>6. ASSUME NEW q \in Requests, NEW hash \in Hashes, NEW lock \in BOOLEAN,
             disk_gate_post_install(q[1], q[2], hash, lock)
      PROVE  Harmless
  BY <1>6 DEF disk_gate_post_install
<1>7. ASSUME NEW q \in Requests, Register_Region(q[1], q[2], "OPEN") PROVE Harmless
  BY <1>7 DEF Register_Region
<1>8. ASSUME NEW q \in Requests, Unlock_Region(q[1]) PROVE Harmless
  BY <1>8 DEF Unlock_Region
<1>9. ASSUME NEW q \in Requests, NEW hash \in Hashes, NEW strict \in BOOLEAN,
             AddWatch(q[1], q[2], hash, strict)
      PROVE  Harmless
  BY <1>9 DEF AddWatch
<1>10. ASSUME NEW q \in Requests, Remove_Watch(q[1]) PROVE Harmless
  BY <1>10 DEF Remove_Watch
<1>11. CASE UNCHANGED gateVars
  BY <1>11 DEF gateVars
<1>. QED
  BY <1>1, <1>2, <1>3, <1>4, <1>5, <1>6, <1>7, <1>8, <1>9, <1>10, <1>11 DEF GateNext

----
(***************************************************************************)
(* The rate of writes.                                                     *)
(***************************************************************************)
\* A write is counted; it is let through only while the count is below the
\* limit.
LEMMA WriteKeepsBurst ==
    ASSUME BurstInv, NEW lba, NEW hash, Record_Write(Outcome(lba, hash))
    PROVE  BurstInv'
<1>. DEFINE n == Len(grants)
<1>0. BURST_LIMIT \in Nat /\ BURST_WINDOW \in Nat
  BY GateAssumption
<1>1. /\ UNCHANGED <<Tick, Burst_Window_Start>> /\ Burst_Count' = Burst_Count + 1
      /\ \/ UNCHANGED grants
         \/ grants' = Append(grants, Tick) /\ Burst_Count + 1 <= BURST_LIMIT
  <2>1. ASSUME Outcome(lba, hash) = "write" PROVE Burst_Count + 1 <= BURST_LIMIT
    <3>1. ~ Burst
      BY <2>1 DEF Outcome
    <3>. QED  BY <1>0, <3>1 DEF Burst, BurstInv, ClockInv
  <2>2. /\ UNCHANGED <<Tick, Burst_Window_Start>> /\ Burst_Count' = Burst_Count + 1
        /\ grants' = IF Outcome(lba, hash) = "write" THEN Append(grants, Tick) ELSE grants
    BY DEF Record_Write
  <2>. QED  BY <2>1, <2>2
<1>2. /\ Tick \in Nat /\ Burst_Count \in Nat /\ Burst_Window_Start \in Nat
      /\ Burst_Window_Start <= Tick /\ Tick <= Burst_Window_Start + BURST_WINDOW
      /\ grants \in Seq(Nat) /\ n \in Nat /\ DOMAIN grants = 1 .. n
      /\ \A i \in 1 .. n : grants[i] \in Nat /\ grants[i] <= Tick
  BY DEF BurstInv, ClockInv
<1>3. CASE UNCHANGED grants
  BY <1>0, <1>1, <1>3 DEF BurstInv, ClockInv, WindowHolds, WindowsBetween, BurstBounded
<1>4. CASE grants' = Append(grants, Tick) /\ Burst_Count + 1 <= BURST_LIMIT
  <2>1. /\ grants' \in Seq(Nat) /\ Len(grants') = n + 1 /\ DOMAIN grants' = 1 .. n + 1
        /\ grants'[n + 1] = Tick /\ \A i \in 1 .. n : grants'[i] = grants[i]
    BY <1>2, <1>4
  <2>2. \A i \in 1 .. n : /\ i + Burst_Count <= n \/ i + BURST_LIMIT <= n
                               => grants[i] < Burst_Window_Start
                          /\ i + BURST_LIMIT \in 1 .. n /\ grants[i + BURST_LIMIT] < Burst_Window_Start
                               => grants[i] + BURST_WINDOW < Burst_Window_Start
    BY <1>0, <1>2 DEF BurstInv, WindowHolds, WindowsBetween
  <2>. HIDE DEF n
  <2>3. ClockInv'
    BY <1>1, <1>2, <2>1 DEF ClockInv
  <2>4. ASSUME NEW i \in 1 .. n + 1, i + (Burst_Count + 1) <= n + 1 \/ i + BURST_LIMIT <= n + 1
        PROVE  i \in 1 .. n /\ i + Burst_Count <= n
    BY <1>0, <1>2, <1>4, <2>4
  <2>5. WindowHolds'
    BY <1>1, <2>1, <2>2, <2>4 DEF WindowHolds
  <2>6. WindowsBetween'
    <3>1. ASSUME NEW i \in 1 .. n + 1, NEW j \in 1 .. n + 1, j = i + BURST_LIMIT,
                 grants'[j] < Burst_Window_Start
          PROVE  grants'[i] + BURST_WINDOW < Burst_Window_Start
      <4>1. j # n + 1
        BY <1>2, <2>1, <3>1
      <4>2. j \in 1 .. n /\ i \in 1 .. n
        BY <1>0, <1>2, <3>1, <4>1
      <4>. QED  BY <2>1, <2>2, <3>1, <4>2
    <3>. QED  BY <1>1, <2>1, <3>1 DEF WindowsBetween
  <2>7. ASSUME NEW first \in 1 .. n + 1, n + 1 = first + 2 * BURST_LIMIT
        PROVE  grants'[n + 1] > grants'[first] + BURST_WINDOW
    <3>1. /\ first \in 1 .. n /\ first + BURST_LIMIT \in 1 .. n
          /\ first + BURST_LIMIT + Burst_Count <= n
      BY <1>0, <1>2, <1>4, <2>7
    <3>2. grants[first] + BURST_WINDOW < Burst_Window_Start
      BY <2>2, <3>1
    <3>. QED  BY <1>0, <1>2, <2>1, <3>1, <3>2
  <2>8. ASSUME NEW first \in 1 .. n + 1, NEW last \in 1 .. n + 1, last = first + 2 * BURST_LIMIT
        PROVE  grants'[last] > grants'[first] + BURST_WINDOW
    <3>1. CASE last = n + 1
      BY <2>7, <2>8, <3>1
    <3>2. CASE last # n + 1
      <4>1. first \in 1 .. n /\ last \in 1 .. n
        BY <1>0, <1>2, <2>8, <3>2
      <4>. QED  BY <1>2, <2>1, <2>8, <4>1 DEF BurstInv, BurstBounded
    <3>. QED  BY <3>1, <3>2
  <2>. QED  BY <2>1, <2>3, <2>5, <2>6, <2>8 DEF BurstInv, BurstBounded
<1>. QED  BY <1>1, <1>3, <1>4

\* A window that is over ends before the next one begins, a whole window
\* after its own beginning.
LEMMA TickKeepsBurst ==
    ASSUME BurstInv, disk_gate_tick
    PROVE  BurstInv'
<1>1. /\ Tick' = Tick + 1 /\ UNCHANGED grants
      /\ Burst_Count' = IF WindowOver THEN 0 ELSE Burst_Count
      /\ Burst_Window_Start' = IF WindowOver THEN Tick + 1 ELSE Burst_Window_Start
  BY DEF disk_gate_tick
<1>2. /\ Tick \in Nat /\ Burst_Count \in Nat /\ Burst_Window_Start \in Nat
      /\ BURST_WINDOW \in Nat /\ BURST_LIMIT \in Nat
      /\ Burst_Window_Start <= Tick /\ Tick <= Burst_Window_Start + BURST_WINDOW
      /\ grants \in Seq(Nat) /\ DOMAIN grants = 1 .. Len(grants)
  BY GateAssumption DEF BurstInv, ClockInv
<1>3. \A i \in DOMAIN grants : grants[i] \in Nat /\ grants[i] <= Tick
  BY <1>2 DEF BurstInv, ClockInv
<1>4. ClockInv'
  <2>1. \A i \in DOMAIN grants : grants[i] <= Tick + 1
    BY <1>2, <1>3
  <2>2. /\ Tick' \in Nat /\ Burst_Count' \in Nat /\ Burst_Window_Start' \in Nat
        /\ Burst_Window_Start' <= Tick' /\ Tick' <= Burst_Window_Start' + BURST_WINDOW
    BY <1>1, <1>2 DEF WindowOver
  <2>. QED  BY <1>1, <1>2, <2>1, <2>2 DEF ClockInv
<1>5. WindowHolds'
  <2>1. CASE ~ WindowOver
    BY <1>1, <2>1 DEF BurstInv, WindowHolds
  <2>2. CASE WindowOver
    BY <1>1, <1>2, <1>3, <2>2 DEF BurstInv, WindowHolds
  <2>. QED  BY <2>1, <2>2
<1>6. WindowsBetween'
  <2>1. CASE ~ WindowOver
    BY <1>1, <2>1 DEF BurstInv, WindowsBetween
  <2>2. ASSUME WindowOver, NEW i \in DOMAIN grants, NEW j \in DOMAIN grants, j = i + BURST_LIMIT
        PROVE  grants[i] + BURST_WINDOW < Tick + 1
    <3>1. grants[i] < Burst_Window_Start
      BY <1>2, <1>3, <2>2 DEF BurstInv, WindowHolds
    <3>2. grants[i] \in Nat /\ Tick + 1 - Burst_Window_Start > BURST_WINDOW
      BY <1>3, <2>2 DEF WindowOver
    <3>. QED  BY <1>2, <3>1, <3>2
  <2>. QED  BY <1>1, <2>1, <2>2 DEF WindowsBetween
<1>7. BurstBounded'
  BY <1>1 DEF BurstInv, BurstBounded
<1>. QED  BY <1>4, <1>5, <1>6, <1>7 DEF BurstInv

----
(***************************************************************************)
(* The theorems.                                                           *)
(***************************************************************************)
\* Of any 2 * BURST_LIMIT + 1 writes let through, the last comes more than a
\* window after the first, wherever the windows of the monitor begin.
THEOREM WritesAreRateLimited == GateSpec => []BurstBounded
<1>1. GateInit => BurstInv
  BY GateAssumption DEF GateInit, BurstInv, ClockInv, WindowHolds, WindowsBetween, BurstBounded
<1>2. BurstInv /\ [GateNext]_gateVars => BurstInv'
  <2>. SUFFICES ASSUME BurstInv, [GateNext]_gateVars PROVE BurstInv'
    OBVIOUS
  <2>1. CASE cosinus_disk_security_init_all
    BY <2>1, GateAssumption
    DEF cosinus_disk_security_init_all, BurstInv, ClockInv, WindowHolds, WindowsBetween,
        BurstBounded
  <2>2. CASE disk_gate_tick
    BY <2>2, TickKeepsBurst
  <2>3. CASE UNCHANGED <<Tick, Burst_Count, Burst_Window_Start, grants>>
    BY <2>3 DEF BurstInv, ClockInv, WindowHolds, WindowsBetween, BurstBounded
  <2>4. ASSUME NEW lba, NEW hash, Record_Write(Outcome(lba, hash)) PROVE BurstInv'
    BY <2>4, WriteKeepsBurst
  <2>. QED  BY <2>1, <2>2, <2>3, <2>4, Calls DEF Harmless
<1>. QED  BY <1>1, <1>2, PTL DEF GateSpec, BurstInv

\* As many alerts of strict watches and bursts as the threshold lock the
\* disk, however many alerts of changed hashes came in between.
THEOREM AlertsDoLock == GateSpec => []AlertsLock
<1>1. GateInit => AlertInv
  BY GateAssumption DEF GateInit, AlertInv, AlertsLock
<1>2. AlertInv /\ [GateNext]_gateVars => AlertInv'
  <2>. SUFFICES ASSUME AlertInv, [GateNext]_gateVars PROVE AlertInv'
    OBVIOUS
  <2>. USE GateAssumption DEF AlertInv, AlertsLock
  <2>1. CASE cosinus_disk_security_init_all
    BY <2>1 DEF cosinus_disk_security_init_all
  <2>2. CASE Harmless
    BY <2>2 DEF Harmless
  <2>3. ASSUME NEW outcome, Record_Write(outcome) PROVE AlertInv'
    <3>1. /\ Total_Alerts' = IF outcome = "write" THEN Total_Alerts ELSE Total_Alerts + 1
          /\ serious' = IF outcome \in {"burst", "strict"} THEN serious + 1 ELSE serious
      BY <2>3 DEF Record_Write
    <3>2. Hard_Lock \/ Locks(outcome) => Hard_Lock'
      BY <2>3, Zenon DEF Record_Write
    <3>3. Total_Alerts' \in Nat /\ serious' \in 0 .. Total_Alerts'
      BY <3>1
    <3>4. ASSUME serious' >= ALERT_THRESHOLD PROVE Hard_Lock'
      <4>1. CASE outcome \in {"burst", "strict"}
        <5>1. Total_Alerts + 1 >= ALERT_THRESHOLD
          BY <3>1, <3>4, <4>1
        <5>. QED  BY <3>2, <4>1, <5>1 DEF Locks
      <4>2. CASE outcome \notin {"burst", "strict"}
        BY <3>1, <3>2, <3>4, <4>2
      <4>. QED  BY <4>1, <4>2
    <3>. QED  BY <3>3, <3>4
  <2>. QED  BY <2>1, <2>2, <2>3, Calls
<1>. QED  BY <1>1, <1>2, PTL DEF GateSpec, AlertInv

\* Under a hard lock or an emergency lock no call but security_init lets a
\* write through or lifts both locks.
THEOREM LocksAreFinal == GateSpec => LockIsFinal
<1>1. [GateNext]_gateVars => [(Hard_Lock \/ Lock_All) /\ ~ cosinus_disk_security_init_all
                         => grants' = grants /\ (Hard_Lock' \/ Lock_All')]_gateVars
  BY Calls DEF Harmless
<1>. QED  BY <1>1, PTL DEF GateSpec, LockIsFinal

----
(***************************************************************************)
(* RootPolicy: the four checks of a slot decide by its mask and its deny   *)
(* list alone, and every refusal is recorded, for every set of threads,    *)
(* numbers and masks.                                                      *)
(***************************************************************************)
(***************************************************************************)
(* Deny lists.                                                             *)
(***************************************************************************)
\* What the deny array of a slot is, whatever calls made it.
DenyList(s) == s \in Seq(Nat) /\ Len(s) <= MAX_DENY_LIST /\ IsInjective(s)

\* No number stands in it twice, so its length counts them.
LEMMA DenyCount ==
    ASSUME NEW s, DenyList(s)
    PROVE  Cardinality(Range(s)) = Len(s)
<1>1. s \in [1 .. Len(s) -> Nat] /\ Len(s) \in Nat /\ DOMAIN s = 1 .. Len(s)
  BY DEF DenyList
<1>2. s \in [1 .. Len(s) -> Range(s)]
  BY <1>1 DEF Range
<1>3. s \in Surjection(1 .. Len(s), Range(s))
  BY <1>1, <1>2 DEF Range, Surjection
<1>4. s \in Injection(1 .. Len(s), Range(s))
  <2>1. IsInjective(s)
    BY DEF DenyList
  <2>. QED  BY <1>2, <2>1 DEF Injection
<1>5. IsFiniteSet(1 .. Len(s)) /\ Cardinality(1 .. Len(s)) = Len(s)
  <2>1. Len(s) \in Int /\ 1 \in Int
    BY <1>1
  <2>2. Cardinality(1 .. Len(s)) = IF 1 > Len(s) THEN 0 ELSE Len(s) - 1 + 1
    BY <2>1, FS_Interval
  <2>3. IsFiniteSet(1 .. Len(s))
    BY <2>1, FS_Interval
  <2>. QED  BY <1>1, <2>2, <2>3
<1>. QED  BY <1>3, <1>4, <1>5, FS_Surjection

\* A number is added once, if there is room.
LEMMA DenyAdds ==
    ASSUME NEW cap, DenyList(cap.deny), NEW nr \in Nat
    PROVE  LET new == WithDeny(cap, nr).deny IN
           /\ DenyList(new)
           /\ Range(new) = IF Len(cap.deny) < MAX_DENY_LIST THEN Range(cap.deny) \cup {nr}
                           ELSE Range(cap.deny)
<1>. DEFINE s == cap.deny
<1>1. CASE Len(s) >= MAX_DENY_LIST \/ denies(cap, nr)
  <2>1. WithDeny(cap, nr) = cap
    BY <1>1 DEF WithDeny
  <2>2. Len(s) \in Nat /\ MAX_DENY_LIST \in Nat
    BY PolicyAssumption DEF DenyList
  <2>3. Len(s) < MAX_DENY_LIST => Range(s) \cup {nr} = Range(s)
    BY <1>1, <2>2 DEF denies
  <2>. QED  BY <2>1, <2>3
<1>2. CASE Len(s) < MAX_DENY_LIST /\ ~ denies(cap, nr)
  <2>. DEFINE n == Len(s)
              new == Append(s, nr)
  <2>1. n \in Nat /\ MAX_DENY_LIST \in Nat /\ s \in Seq(Nat) /\ DOMAIN s = 1 .. n
    BY PolicyAssumption DEF DenyList
  <2>2. WithDeny(cap, nr).deny = new
    BY <1>2, <2>1 DEF WithDeny
  <2>3. /\ new \in Seq(Nat) /\ Len(new) = n + 1 /\ DOMAIN new = 1 .. n + 1
        /\ new[n + 1] = nr /\ \A i \in 1 .. n : new[i] = s[i]
    BY <2>1
  <2>. HIDE DEF new, n
  <2>4. Range(new) = Range(s) \cup {nr}
    <3>1. \A x \in Range(new) : x \in Range(s) \cup {nr}
      BY <2>1, <2>3 DEF Range
    <3>2. \A x \in Range(s) : x \in Range(new)
      BY <2>1, <2>3 DEF Range
    <3>3. nr \in Range(new)
      BY <2>1, <2>3 DEF Range
    <3>. QED  BY <3>1, <3>2, <3>3
  <2>5. \A i \in 1 .. n : s[i] # nr
    BY <1>2, <2>1 DEF denies, Range
  <2>6. IsInjective(new)
    <3>1. \A a, b \in 1 .. n : s[a] = s[b] => a = b
      BY <2>1 DEF DenyList, IsInjective
    <3>2. ASSUME NEW a \in 1 .. n + 1, NEW b \in 1 .. n + 1, new[a] = new[b]
          PROVE  a = b
      <4>1. (a \in 1 .. n \/ a = n + 1) /\ (b \in 1 .. n \/ b = n + 1)
        BY <2>1
      <4>. QED  BY <2>1, <2>3, <2>5, <3>1, <3>2, <4>1
    <3>. QED  BY <2>3, <3>2 DEF IsInjective
  <2>. QED  BY <1>2, <2>1, <2>2, <2>3, <2>4, <2>6 DEF DenyList, n
<1>3. Len(s) \in Nat /\ MAX_DENY_LIST \in Nat
  BY PolicyAssumption DEF DenyList
<1>. QED  BY <1>1, <1>2, <1>3

\* A number that is taken out is not denied any more; the others stay.
LEMMA DenyRemoves ==
    ASSUME NEW cap, DenyList(cap.deny), NEW nr \in Nat
    PROVE  LET new == WithoutDeny(cap, nr).deny IN
           /\ DenyList(new)
           /\ Range(new) = Range(cap.deny) \ {nr}
<1>. DEFINE s == cap.deny
            last == Len(s)
            found == CHOOSE i \in DOMAIN s : s[i] = nr
            new == SubSeq([s EXCEPT ![found] = s[last]], 1, last - 1)
<1>0. last \in Nat /\ MAX_DENY_LIST \in Nat /\ s \in Seq(Nat) /\ DOMAIN s = 1 .. last
  BY PolicyAssumption DEF DenyList
<1>1. CASE ~ denies(cap, nr)
  BY <1>1 DEF WithoutDeny, denies
<1>2. CASE denies(cap, nr)
  <2>1. WithoutDeny(cap, nr).deny = new
    BY <1>2 DEF WithoutDeny
  <2>2. found \in 1 .. last /\ s[found] = nr
    BY <1>0, <1>2 DEF denies, Range
  <2>3. \A i, j \in 1 .. last : s[i] = s[j] => i = j
    BY <1>0 DEF DenyList, IsInjective
  <2>. HIDE DEF found
  <2>4. /\ new \in Seq(Nat) /\ Len(new) = last - 1 /\ DOMAIN new = 1 .. last - 1
        /\ \A i \in 1 .. last - 1 : new[i] = IF i = found THEN s[last] ELSE s[i]
    <3>. DEFINE t == [s EXCEPT ![found] = s[last]]
    <3>1. t \in [1 .. last -> Nat] /\ \A i \in 1 .. last : t[i] = IF i = found THEN s[last] ELSE s[i]
      BY <1>0, <2>2
    <3>2. t \in Seq(Nat) /\ Len(t) = last
      BY <1>0, <3>1
    <3>. HIDE DEF t
    <3>3. new = SubSeq(t, 1, last - 1)
      BY DEF t
    <3>4. /\ new \in Seq(Nat) /\ Len(new) = last - 1
          /\ \A i \in 1 .. last - 1 : new[i] = t[i]
      <4>1. last - 1 \in 0 .. last
        BY <1>0, <2>2
      <4>. HIDE DEF new, last
      <4>2. new \in Seq(Nat) /\ Len(new) = last - 1
        BY <1>0, <3>2, <3>3, <4>1
      <4>3. \A i \in 1 .. last - 1 : new[i] = t[i]
        BY <1>0, <3>2, <3>3, <4>1
      <4>. QED  BY <4>2, <4>3
    <3>. HIDE DEF new, last
    <3>. QED  BY <1>0, <3>1, <3>4
  <2>. HIDE DEF new, last, s
  <2>5. \A x \in Range(new) : x \in Range(s) \ {nr}
    <3>1. ASSUME NEW i \in 1 .. last - 1 PROVE \E j \in 1 .. last : new[i] = s[j] /\ j # found
      <4>1. CASE i = found
        BY <1>0, <2>2, <2>4, <3>1, <4>1
      <4>2. CASE i # found
        BY <1>0, <2>2, <2>4, <3>1, <4>2
      <4>. QED  BY <4>1, <4>2
    <3>2. \A j \in 1 .. last : j # found => s[j] \in Range(s) /\ s[j] # nr
      BY <1>0, <2>2, <2>3 DEF Range
    <3>3. \A x \in Range(new) : \E i \in 1 .. last - 1 : x = new[i]
      BY <2>4 DEF Range
    <3>. QED  BY <3>1, <3>2, <3>3
  <2>6. ASSUME NEW i \in 1 .. last, s[i] # nr PROVE s[i] \in Range(new)
    <3>1. CASE i = last
      <4>1. found \in 1 .. last - 1
        BY <1>0, <2>2, <2>6, <3>1
      <4>. QED  BY <2>4, <3>1, <4>1 DEF Range
    <3>2. CASE i # last
      <4>1. i \in 1 .. last - 1 /\ i # found
        BY <1>0, <2>2, <2>6, <3>2
      <4>. QED  BY <2>4, <4>1 DEF Range
    <3>. QED  BY <3>1, <3>2
  <2>7. Range(new) = Range(s) \ {nr}
    <3>1. \A x \in Range(s) : \E i \in 1 .. last : x = s[i]
      BY <1>0 DEF Range
    <3>. QED  BY <2>5, <2>6, <3>1
  <2>8. IsInjective(new)
    BY <1>0, <2>2, <2>3, <2>4 DEF IsInjective
  <2>9. Len(new) <= MAX_DENY_LIST
    BY <1>0, <2>4 DEF DenyList, s, last
  <2>. QED  BY <2>1, <2>4, <2>7, <2>8, <2>9 DEF DenyList, s
<1>. QED  BY <1>1, <1>2

\* A thread that is revoked as a whole is denied the first numbers.
LEMMA DenyAll ==
    ASSUME NEW cap
    PROVE  LET new == RevokedAll(cap).deny IN
           DenyList(new) /\ Range(new) = 0 .. MAX_DENY_LIST - 1
<1>. DEFINE new == [i \in 1 .. MAX_DENY_LIST |-> i - 1]
<1>1. MAX_DENY_LIST \in Nat
  BY PolicyAssumption
<1>2. new \in Seq(Nat) /\ Len(new) = MAX_DENY_LIST /\ IsInjective(new)
  BY <1>1 DEF IsInjective
<1>3. Range(new) = 0 .. MAX_DENY_LIST - 1
  <2>1. \A x \in 0 .. MAX_DENY_LIST - 1 : x + 1 \in 1 .. MAX_DENY_LIST /\ new[x + 1] = x
    BY <1>1
  <2>2. \A x \in 0 .. MAX_DENY_LIST - 1 : x \in Range(new)
    BY <2>1 DEF Range
  <2>3. \A x \in Range(new) : x \in 0 .. MAX_DENY_LIST - 1
    BY <1>1 DEF Range
  <2>. QED  BY <2>2, <2>3
<1>. QED  BY <1>1, <1>2, <1>3 DEF RevokedAll, DenyList

\* A fresh slot denies nothing.
LEMMA DenyNone == DenyList(<<>>) /\ Range(<<>>) = {}
  BY PolicyAssumption DEF DenyList, IsInjective, Range
----
(***************************************************************************)
(* The log.                                                                *)
(***************************************************************************)
LogPlaces == 0 .. MAX_LOG_ENTRIES - 1

\* Adding less than one turn to a place and wrapping around.
LEMMA Around ==
    ASSUME NEW x \in 0 .. 2 * MAX_LOG_ENTRIES - 1
    PROVE  x % MAX_LOG_ENTRIES = IF x < MAX_LOG_ENTRIES THEN x ELSE x - MAX_LOG_ENTRIES
<1>1. CASE x < MAX_LOG_ENTRIES
  BY <1>1, PolicyAssumption, SMT
<1>2. CASE x >= MAX_LOG_ENTRIES
  BY <1>2, PolicyAssumption, SMT
<1>. QED  BY <1>1, <1>2, PolicyAssumption

\* The place after h.
LEMMA PlaceAfter ==
    ASSUME NEW h \in LogPlaces
    PROVE  (h + 1) % MAX_LOG_ENTRIES = IF h + 1 = MAX_LOG_ENTRIES THEN 0 ELSE h + 1
<1>. DEFINE x == h + 1
<1>1. x \in 0 .. 2 * MAX_LOG_ENTRIES - 1
  BY PolicyAssumption DEF LogPlaces
<1>2. x % MAX_LOG_ENTRIES = IF x < MAX_LOG_ENTRIES THEN x ELSE x - MAX_LOG_ENTRIES
  <2>. HIDE DEF x
  <2>. QED  BY <1>1, Around
<1>. QED  BY <1>2, PolicyAssumption DEF LogPlaces

\* The place of the i-th latest entry when head is h.
Back(h, i) == IF i <= h THEN h - i ELSE h + MAX_LOG_ENTRIES - i

\* What recent computes for the i-th latest entry.
LEMMA PlaceBefore ==
    ASSUME NEW h \in LogPlaces, NEW i \in 1 .. MAX_LOG_ENTRIES
    PROVE  /\ (h + MAX_LOG_ENTRIES - i) % MAX_LOG_ENTRIES = Back(h, i)
           /\ Back(h, i) \in LogPlaces
<1>. DEFINE x == h + MAX_LOG_ENTRIES - i
<1>1. x \in 0 .. 2 * MAX_LOG_ENTRIES - 1
  BY PolicyAssumption DEF LogPlaces
<1>2. x % MAX_LOG_ENTRIES = IF x < MAX_LOG_ENTRIES THEN x ELSE x - MAX_LOG_ENTRIES
  <2>. HIDE DEF x
  <2>. QED  BY <1>1, Around
<1>. QED  BY <1>1, <1>2, PolicyAssumption DEF LogPlaces, Back

\* An entry as the monitor shows it.
Row(e) == <<Reason[e[1]], e[2], e[3], e[4]>>

Count == IF total < MAX_LOG_ENTRIES THEN total ELSE MAX_LOG_ENTRIES

\* What the log reads back.
LogShows ==
    /\ Count \in 0 .. MAX_LOG_ENTRIES
    /\ Refused = [i \in 1 .. Count |-> Row(entries[Back(head, i)])]

\* The monitor sees the entries of the ring buffer, the latest first.
LEMMA RefusedFacts == TypeOK => LogShows
<1>. SUFFICES ASSUME TypeOK PROVE LogShows
  OBVIOUS
<1>1. Count \in 0 .. MAX_LOG_ENTRIES
  BY PolicyAssumption DEF TypeOK, Count
<1>2. Recent = [i \in 1 .. Count |-> entries[Back(head, i)]]
  <2>1. head \in LogPlaces /\ MAX_LOG_ENTRIES \in Nat
    BY PolicyAssumption DEF TypeOK, LogPlaces
  <2>2. \A i \in 1 .. Count : (head + MAX_LOG_ENTRIES - i) % MAX_LOG_ENTRIES = Back(head, i)
    BY <1>1, <2>1, PlaceBefore
  <2>3. Recent = [i \in 1 .. Count |-> entries[(head + MAX_LOG_ENTRIES - i) % MAX_LOG_ENTRIES]]
    BY DEF Recent, Count
  <2>. QED  BY <2>2, <2>3
<1>. QED  BY <1>1, <1>2, Zenon DEF Refused, Row, LogShows

\* A new entry is the latest; of the others those stay that there is room for.
LEMMA RecordShows ==
    ASSUME TypeOK, TypeOK', NEW kind, NEW ring, NEW tid, NEW detail,
           Record(kind, ring, tid, detail)
    PROVE  Refused' = Monitor!Latest(<< <<Reason[kind], ring, tid, detail>> >> \o Refused)
<1>. DEFINE row == <<Reason[kind], ring, tid, detail>>
            n == Count
            m == IF n < MAX_LOG_ENTRIES THEN n + 1 ELSE MAX_LOG_ENTRIES
            rows == [i \in 1 .. n |-> Row(entries[Back(head, i)])]
            shown == [i \in 1 .. m |-> IF i = 1 THEN row ELSE rows[i - 1]]
<1>1. /\ MAX_LOG_ENTRIES \in Nat \ {0} /\ n \in 0 .. MAX_LOG_ENTRIES
      /\ head \in LogPlaces /\ DOMAIN entries = LogPlaces /\ Refused = rows
  BY PolicyAssumption, RefusedFacts DEF TypeOK, LogPlaces, LogShows
<1>2. Count' = m
  <2>1. total' = IF total < MAX_TOTAL THEN total + 1 ELSE total
    BY DEF Record
  <2>2. total \in 0 .. MAX_TOTAL
    BY DEF TypeOK
  <2>. QED  BY <2>1, <2>2, PolicyAssumption DEF Count
<1>3. /\ head' = IF head + 1 = MAX_LOG_ENTRIES THEN 0 ELSE head + 1
      /\ entries' = [entries EXCEPT ![head] = <<kind, ring, tid, detail>>]
  BY <1>1, PlaceAfter DEF Record
<1>4. Refused' = [i \in 1 .. m |-> Row(entries'[Back(head', i)])]
  <2>1. LogShows'
    BY RefusedFacts, PTL
  <2>. QED  BY <1>2, <2>1, Zenon DEF LogShows
<1>. HIDE DEF n
<1>5. ASSUME NEW i \in 1 .. m PROVE Row(entries'[Back(head', i)]) = shown[i]
  <2>1. CASE i = 1
    <3>1. Back(head', i) = head
      BY <1>1, <1>3, <2>1 DEF Back, LogPlaces
    <3>2. entries'[head] = <<kind, ring, tid, detail>>
      BY <1>1, <1>3
    <3>3. Row(<<kind, ring, tid, detail>>) = row
      BY DEF Row
    <3>. QED  BY <2>1, <3>1, <3>2, <3>3
  <2>2. CASE i # 1
    <3>1. /\ i - 1 \in 1 .. n /\ i - 1 < MAX_LOG_ENTRIES
          /\ Back(head', i) = Back(head, i - 1)
      BY <1>1, <1>3, <2>2 DEF Back, LogPlaces
    <3>2. Back(head, i - 1) \in LogPlaces /\ Back(head, i - 1) # head
      BY <1>1, <3>1 DEF Back, LogPlaces
    <3>3. entries'[Back(head', i)] = entries[Back(head, i - 1)]
      BY <1>1, <1>3, <3>1, <3>2
    <3>. QED  BY <2>2, <3>1, <3>3
  <2>. QED  BY <2>1, <2>2
<1>6. Refused' = shown
  BY <1>4, <1>5
<1>7. Monitor!Latest(<<row>> \o rows) = shown
  <2>. HIDE DEF rows, row, m
  <2>1. rows \in Seq({rows[i] : i \in 1 .. n}) /\ Len(rows) = n
    BY <1>1 DEF rows
  <2>. DEFINE all == <<row>> \o rows
              R == {rows[i] : i \in 1 .. n} \cup {row}
  <2>2. /\ all \in Seq(R) /\ Len(all) = n + 1
        /\ all[1] = row /\ \A i \in 2 .. n + 1 : all[i] = rows[i - 1]
    <3>1. rows \in Seq(R) /\ <<row>> \in Seq(R) /\ n \in Nat
      BY <1>1, <2>1
    <3>. HIDE DEF R
    <3>. QED  BY <2>1, <3>1
  <2>. HIDE DEF all, R
  <2>3. m \in 1 .. n + 1 /\ m = IF Len(all) < MAX_LOG_ENTRIES THEN Len(all) ELSE MAX_LOG_ENTRIES
    BY <1>1, <2>2 DEF m
  <2>4. Monitor!Latest(all) = SubSeq(all, 1, m)
    BY <2>3 DEF Monitor!Latest
  <2>5. SubSeq(all, 1, m) = [i \in 1 .. m |-> all[i]]
    BY <1>1, <2>2, <2>3
  <2>6. \A i \in 1 .. m : all[i] = IF i = 1 THEN row ELSE rows[i - 1]
    BY <1>1, <2>2, <2>3
  <2>. QED  BY <2>4, <2>5, <2>6 DEF all
<1>. QED  BY <1>1, <1>6, <1>7
----
(***************************************************************************)
(* The invariant.                                                          *)
(***************************************************************************)
\* The booleans of a ring are those of its flags, no deny list names a number
\* twice, and the fourth check of check_syscall has refused nothing.
PolicyInv ==
    /\ TypeOK
    /\ \A r \in Rings : RING_CAPS[r].can = RING_CAPS[r].flags \cap {"io", "phys"}
    /\ \A t \in Tids : DenyList(CAP_TABLE[t].deny)
    /\ \A i \in DOMAIN entries : entries[i][1] # "RingCapDenied"

\* The masks of mod.rs and of policy.rs are the same.
LEMMA MasksAgree ==
    \A ring \in 0 .. 3 : policy_mask(ring) = ring_syscall_mask(ring)
<1>1. (0 .. 3) \cup (5 .. 13) = (0 .. 13) \ {4}
  OBVIOUS
<1>. QED  BY <1>1 DEF policy_mask, ring_syscall_mask

\* What check_syscall answers, in the words of the monitor.
LEMMA RefusalMeaning ==
    ASSUME NEW t \in Tids, NEW ring \in Rings, NEW nr \in Numbers
    PROVE  /\ Refusal(t, ring, nr) \in {"SyscallDenied", "ThreadRevoked", "ThreadDenied", "none"}
           /\ Refusal(t, ring, nr) = "none" <=>
                  /\ nr \in policy_mask(ring) \cup {n \in Numbers : n >= 64}
                  /\ t \notin RevokedThreads /\ nr \notin Denied[t]
<1>. DEFINE r == Refusal(t, ring, nr)
<1>1. nr \in Nat /\ ring \in 0 .. 3 /\ policy_mask(ring) = ring_syscall_mask(ring)
  BY PolicyAssumption, MasksAgree
<1>2. allows_syscall(ring, nr) <=> nr >= 64 \/ nr \in policy_mask(ring)
  BY DEF allows_syscall
<1>3. denies(CAP_TABLE[t], nr) <=> nr \in Denied[t]
  BY DEF denies, Denied
<1>4. is_revoked(CAP_TABLE[t]) <=> t \in RevokedThreads
  BY DEF RevokedThreads
<1>5. ~ (nr < 64) <=> nr >= 64
  BY <1>1
<1>. QED  BY <1>1, <1>2, <1>3, <1>4, <1>5 DEF Refusal

Kinds == {"SyscallDenied", "ThreadRevoked", "ThreadDenied", "KernelSpawnDenied", "IoDenied",
          "PhysMapDenied", "IrqDenied"}

Cap == [flags : SUBSET (Flags \cup {"REVOKED"}), deny : Seq(Nat)]

\* A slot with another list, or with other flags.
LEMMA CapWith ==
    ASSUME NEW cap \in Cap, NEW d, NEW F
    PROVE  /\ [cap EXCEPT !.deny = d] = [flags |-> cap.flags, deny |-> d]
           /\ [cap EXCEPT !.flags = F] = [flags |-> F, deny |-> cap.deny]
  BY DEF Cap

\* A slot that is given out denies nothing and is not revoked.
LEMMA FreshCaps ==
    \A cap \in {NewKernel, NewDevspace, NewUser, NoCap} :
        cap \in Cap /\ cap.deny = <<>> /\ ~ is_revoked(cap)
<1>1. NewKernel \in Cap /\ NewKernel.deny = <<>> /\ ~ is_revoked(NewKernel)
  BY DEF NewKernel, Cap, is_revoked
<1>2. NewDevspace \in Cap /\ NewDevspace.deny = <<>> /\ ~ is_revoked(NewDevspace)
  BY DEF NewDevspace, Cap, is_revoked
<1>3. NewUser \in Cap /\ NewUser.deny = <<>> /\ ~ is_revoked(NewUser)
  BY DEF NewUser, Cap, is_revoked
<1>4. NoCap \in Cap /\ NoCap.deny = <<>> /\ ~ is_revoked(NoCap)
  BY DEF NoCap, Cap, is_revoked
<1>. QED  BY <1>1, <1>2, <1>3, <1>4

\* What every answer of a gate keeps, and how the monitor sees it.
LEMMA AnswerKeeps ==
    ASSUME PolicyInv, NEW request, NEW kind \in Kinds \cup {"none"}, NEW ring \in Rings,
           NEW tid \in Tids, NEW detail \in Nat, Answer(request, kind, ring, tid, detail)
    PROVE  /\ PolicyInv'
           /\ UNCHANGED <<POLICY_ACTIVE, Denied, RevokedThreads, RingPowers>>
           /\ served' = <<request, ring, tid, detail, kind = "none">>
           /\ Refused' = IF kind = "none" THEN Refused
                         ELSE Monitor!Latest(<< <<Reason[kind], ring, tid, detail>> >> \o Refused)
<1>1. /\ UNCHANGED <<POLICY_ACTIVE, RING_CAPS, CAP_TABLE>>
      /\ served' = <<request, ring, tid, detail, kind = "none">>
      /\ IF kind = "none" THEN UNCHANGED policyLog ELSE Record(kind, ring, tid, detail)
  BY DEF Answer
<1>2. UNCHANGED <<POLICY_ACTIVE, Denied, RevokedThreads, RingPowers>>
  BY <1>1 DEF Denied, RevokedThreads, RingPowers
<1>3. CASE kind = "none"
  <2>1. UNCHANGED <<entries, head, total>>
    BY <1>1, <1>3 DEF policyLog
  <2>2. PolicyInv'
    BY <1>1, <2>1 DEF PolicyInv, TypeOK
  <2>3. Refused' = Refused
    BY <2>1 DEF Refused, Recent
  <2>. QED  BY <1>1, <1>2, <1>3, <2>2, <2>3
<1>4. CASE kind # "none"
  <2>1. Record(kind, ring, tid, detail) /\ kind \in Kinds
    BY <1>1, <1>4
  <2>2. <<kind, ring, tid, detail>> \in ViolationKinds \X Nat \X Nat \X Nat
    <3>1. ring \in Nat /\ tid \in Nat
      BY PolicyAssumption
    <3>2. kind \in ViolationKinds
      BY <2>1 DEF ViolationKinds, Kinds
    <3>. QED  BY <3>1, <3>2
  <2>3. /\ head \in 0 .. MAX_LOG_ENTRIES - 1
        /\ entries \in [0 .. MAX_LOG_ENTRIES - 1 -> ViolationKinds \X Nat \X Nat \X Nat]
        /\ entries' = [entries EXCEPT ![head] = <<kind, ring, tid, detail>>]
    BY <2>1 DEF PolicyInv, TypeOK, Record
  <2>4. /\ entries' \in [0 .. MAX_LOG_ENTRIES - 1 -> ViolationKinds \X Nat \X Nat \X Nat]
        /\ \A i \in DOMAIN entries' : entries'[i][1] # "RingCapDenied"
    <3>1. <<kind, ring, tid, detail>>[1] # "RingCapDenied"
      BY <2>1 DEF Kinds
    <3>2. \A i \in DOMAIN entries : entries[i][1] # "RingCapDenied"
      BY DEF PolicyInv
    <3>. QED  BY <2>2, <2>3, <3>1, <3>2
  <2>5. head' \in 0 .. MAX_LOG_ENTRIES - 1 /\ total' \in 0 .. MAX_TOTAL
    <3>1. head' = IF head + 1 = MAX_LOG_ENTRIES THEN 0 ELSE head + 1
      BY <2>1, <2>3, PlaceAfter DEF Record, LogPlaces
    <3>2. total' = IF total < MAX_TOTAL THEN total + 1 ELSE total
      BY <2>1 DEF Record
    <3>3. MAX_LOG_ENTRIES \in Nat \ {0} /\ MAX_TOTAL \in Nat /\ total \in 0 .. MAX_TOTAL
      BY PolicyAssumption DEF PolicyInv, TypeOK
    <3>4. head' \in 0 .. MAX_LOG_ENTRIES - 1
      BY <2>3, <3>1, <3>3
    <3>. QED  BY <3>2, <3>3, <3>4
  <2>6. PolicyInv'
    BY <1>1, <2>4, <2>5 DEF PolicyInv, TypeOK
  <2>7. Refused' = Monitor!Latest(<< <<Reason[kind], ring, tid, detail>> >> \o Refused)
    BY <2>1, <2>6, RecordShows DEF PolicyInv
  <2>. QED  BY <1>1, <1>2, <1>4, <2>6, <2>7
<1>. QED  BY <1>3, <1>4

\* The same for a change of one slot.
LEMMA SlotKeeps ==
    ASSUME PolicyInv, NEW request, NEW t \in Tids, NEW cap \in Cap, DenyList(cap.deny),
           SetCap(request, t, cap)
    PROVE  /\ PolicyInv'
           /\ UNCHANGED <<POLICY_ACTIVE, RingPowers, Refused>>
           /\ served' = request
           /\ Denied' = [Denied EXCEPT ![t] = Range(cap.deny)]
           /\ RevokedThreads' = IF is_revoked(cap) THEN RevokedThreads \cup {t}
                                ELSE RevokedThreads \ {t}
<1>1. /\ UNCHANGED <<POLICY_ACTIVE, RING_CAPS, entries, head, total>> /\ served' = request
      /\ CAP_TABLE' = [CAP_TABLE EXCEPT ![t] = cap]
  BY PolicyAssumption DEF SetCap, policyLog
<1>2. CAP_TABLE \in [Tids -> Cap] /\ \A u \in Tids : DenyList(CAP_TABLE[u].deny)
  BY DEF PolicyInv, TypeOK, Cap
<1>3. /\ CAP_TABLE' \in [Tids -> Cap] /\ CAP_TABLE'[t] = cap
      /\ \A u \in Tids \ {t} : CAP_TABLE'[u] = CAP_TABLE[u]
  BY <1>1, <1>2
<1>4. \A u \in Tids : DenyList(CAP_TABLE'[u].deny)
  BY <1>2, <1>3
<1>5. PolicyInv'
  BY <1>1, <1>3, <1>4 DEF PolicyInv, TypeOK, DenyList, Cap
<1>6. UNCHANGED <<RingPowers, Refused>>
  BY <1>1 DEF RingPowers, Refused, Recent
<1>7. Denied' = [Denied EXCEPT ![t] = Range(cap.deny)]
  BY <1>2, <1>3 DEF Denied
<1>8. RevokedThreads' = IF is_revoked(cap) THEN RevokedThreads \cup {t} ELSE RevokedThreads \ {t}
  BY <1>2, <1>3 DEF RevokedThreads, is_revoked
<1>. QED  BY <1>1, <1>5, <1>6, <1>7, <1>8

\* The same for a change of one ring.
LEMMA RingKeeps ==
    ASSUME PolicyInv, NEW request, NEW ring \in Rings, NEW flag \in RingFlags,
           NEW flags \in SUBSET DOMAIN FlagBit,
           SetRing(request, ring, flag, RingCaps(flags))
    PROVE  /\ PolicyInv'
           /\ UNCHANGED <<POLICY_ACTIVE, Denied, RevokedThreads, Refused>>
           /\ served' = <<request, ring, 0, FlagBit[flag], TRUE>>
           /\ RingPowers' = [RingPowers EXCEPT ![ring] = flags]
<1>. DEFINE caps == RingCaps(flags)
<1>1. /\ UNCHANGED <<POLICY_ACTIVE, CAP_TABLE, entries, head, total>>
      /\ served' = <<request, ring, 0, FlagBit[flag], TRUE>>
      /\ RING_CAPS' = [RING_CAPS EXCEPT ![ring] = caps]
  BY DEF SetRing, policyLog
<1>2. /\ caps \in [flags : SUBSET DOMAIN FlagBit, can : SUBSET {"io", "phys"}]
      /\ caps.flags = flags /\ caps.can = caps.flags \cap {"io", "phys"}
  BY DEF RingCaps
<1>. HIDE DEF caps
<1>3. /\ RING_CAPS \in [Rings -> [flags : SUBSET DOMAIN FlagBit, can : SUBSET {"io", "phys"}]]
      /\ \A r \in Rings : RING_CAPS[r].can = RING_CAPS[r].flags \cap {"io", "phys"}
  BY DEF PolicyInv, TypeOK
<1>4. /\ RING_CAPS' \in [Rings -> [flags : SUBSET DOMAIN FlagBit, can : SUBSET {"io", "phys"}]]
      /\ RING_CAPS'[ring] = caps /\ \A r \in Rings \ {ring} : RING_CAPS'[r] = RING_CAPS[r]
  BY <1>1, <1>2, <1>3
<1>5. \A r \in Rings : RING_CAPS'[r].can = RING_CAPS'[r].flags \cap {"io", "phys"}
  BY <1>2, <1>3, <1>4
<1>6. PolicyInv'
  BY <1>1, <1>4, <1>5 DEF PolicyInv, TypeOK
<1>7. UNCHANGED <<Denied, RevokedThreads, Refused>>
  BY <1>1 DEF Denied, RevokedThreads, Refused, Recent
<1>8. RingPowers' = [RingPowers EXCEPT ![ring] = flags]
  BY <1>2, <1>4 DEF RingPowers
<1>. QED  BY <1>1, <1>6, <1>7, <1>8

----
(***************************************************************************)
(* The theorems.                                                           *)
(***************************************************************************)
LEMMA StartsInPolicy == PolicyInit => PolicyInv /\ Monitor!Init
<1>. SUFFICES ASSUME PolicyInit PROVE PolicyInv /\ Monitor!Init
  OBVIOUS
<1>1. CAP_TABLE \in [Tids -> Cap] /\ \A t \in Tids : CAP_TABLE[t].deny = <<>> /\ CAP_TABLE[t].flags = {}
  BY DEF PolicyInit, NoCap, Cap
<1>2. /\ RING_CAPS \in [Rings -> [flags : SUBSET DOMAIN FlagBit, can : SUBSET {"io", "phys"}]]
      /\ \A r \in Rings : RING_CAPS[r].can = RING_CAPS[r].flags \cap {"io", "phys"}
  BY DEF PolicyInit, RingCaps, FlagBit
<1>3. EmptyEntry \in ViolationKinds \X Nat \X Nat \X Nat /\ EmptyEntry[1] # "RingCapDenied"
  <2>1. "None" \in ViolationKinds
    BY DEF ViolationKinds
  <2>. QED  BY <2>1 DEF EmptyEntry
<1>4. PolicyInv
  <2>1. POLICY_ACTIVE \in BOOLEAN /\ head \in 0 .. MAX_LOG_ENTRIES - 1 /\ total \in 0 .. MAX_TOTAL
    <3>1. POLICY_ACTIVE \in BOOLEAN
      BY DEF PolicyInit
    <3>2. head = 0 /\ total = 0
      BY DEF PolicyInit
    <3>. QED  BY <3>1, <3>2, PolicyAssumption
  <2>2. /\ entries \in [0 .. MAX_LOG_ENTRIES - 1 -> ViolationKinds \X Nat \X Nat \X Nat]
        /\ \A i \in DOMAIN entries : entries[i][1] # "RingCapDenied"
    <3>. HIDE DEF EmptyEntry
    <3>. QED  BY <1>3 DEF PolicyInit
  <2>. QED  BY <1>1, <1>2, <2>1, <2>2, DenyNone DEF PolicyInv, TypeOK, Cap, DenyList
<1>5. Refused = <<>>
  <2>1. Count = 0 /\ Refused = [i \in 1 .. Count |-> Row(entries[Back(head, i)])]
    BY <1>4, RefusedFacts, PolicyAssumption DEF PolicyInv, LogShows, Count, PolicyInit
  <2>. QED  BY <2>1
<1>6. Denied = [t \in Tids |-> {}] /\ RevokedThreads = {}
  BY <1>1, DenyNone DEF Denied, RevokedThreads, is_revoked
<1>7. RingPowers \in [Rings -> SUBSET DOMAIN FlagBit]
  BY <1>2 DEF RingPowers
<1>. QED  BY <1>4, <1>5, <1>6, <1>7 DEF PolicyInit, Other, Monitor!Init

\* A gate that grants an access, or refuses it, judges as the monitor does.
LEMMA CallIsCall ==
    ASSUME PolicyInv, NEW t \in Tids, NEW ring \in Rings, NEW nr \in Numbers,
           check_syscall(t, ring, nr)
    PROVE  PolicyInv' /\ Monitor!Next
<1>. DEFINE kind == IF POLICY_ACTIVE THEN Refusal(t, ring, nr) ELSE "none"
<1>1. kind \in Kinds \cup {"none"} /\ nr \in Nat
  BY RefusalMeaning, PolicyAssumption DEF Kinds
<1>2. Answer("call", kind, ring, t, nr)
  BY DEF check_syscall
<1>3. kind = "none" <=> \/ ~ POLICY_ACTIVE
                        \/ /\ nr \in policy_mask(ring) \cup {n \in Numbers : n >= 64}
                           /\ t \notin RevokedThreads /\ nr \notin Denied[t]
  BY RefusalMeaning
<1>4. kind # "none" => Reason[kind] = "call"
  BY RefusalMeaning DEF Reason
<1>. HIDE DEF kind
<1>. DEFINE ok == kind = "none"
<1>5. /\ PolicyInv'
      /\ UNCHANGED <<POLICY_ACTIVE, Denied, RevokedThreads, RingPowers>>
      /\ served' = <<"call", ring, t, nr, ok>>
      /\ Refused' = IF ok THEN Refused
                    ELSE Monitor!Latest(<< <<Reason[kind], ring, t, nr>> >> \o Refused)
  BY <1>1, <1>2, AnswerKeeps
<1>6. Monitor!Judge(ok, <<"call", ring, t, nr>>)
  BY <1>4, <1>5 DEF Monitor!Judge
<1>7. Monitor!Call
  BY <1>3, <1>6 DEF Monitor!Call
<1>. QED  BY <1>5, <1>7 DEF Monitor!Next

\* The four checks that no deny list is asked for are accesses of the monitor.
LEMMA AccessIsAccess ==
    ASSUME PolicyInv, NEW t \in Tids, NEW ring \in Rings,
           \/ check_spawn_kernel(t, ring) \/ check_irq_control(t, ring)
           \/ check_io_access(t, ring) \/ check_phys_map(t, ring)
    PROVE  PolicyInv' /\ Monitor!Next
<1>1. ASSUME NEW request, NEW kind \in Kinds \cup {"none"},
             Answer(request, kind, ring, t, 0), kind = "none" \/ Reason[kind] = request
      PROVE  PolicyInv' /\ Monitor!Judge(kind = "none", <<request, ring, t, 0>>)
  <2>1. /\ PolicyInv'
        /\ UNCHANGED <<POLICY_ACTIVE, Denied, RevokedThreads, RingPowers>>
        /\ served' = <<request, ring, t, 0, kind = "none">>
        /\ Refused' = IF kind = "none" THEN Refused
                      ELSE Monitor!Latest(<< <<Reason[kind], ring, t, 0>> >> \o Refused)
    BY <1>1, AnswerKeeps
  <2>. QED  BY <1>1, <2>1 DEF Monitor!Judge
<1>2. RingPowers[ring] = RING_CAPS[ring].flags
      /\ RING_CAPS[ring].can = RING_CAPS[ring].flags \cap {"io", "phys"}
  BY DEF RingPowers, PolicyInv
<1>3. CASE check_spawn_kernel(t, ring)
  <2>. DEFINE kind == IF ring # 0 THEN "KernelSpawnDenied" ELSE "none"
  <2>1. kind \in Kinds \cup {"none"} /\ (kind = "none" \/ Reason[kind] = "spawn")
    BY DEF Kinds, Reason
  <2>2. Answer("spawn", kind, ring, t, 0)
    BY <1>3 DEF check_spawn_kernel
  <2>3. kind = "none" <=> ring = 0
    OBVIOUS
  <2>. HIDE DEF kind
  <2>4. PolicyInv' /\ Monitor!Judge(ring = 0, <<"spawn", ring, t, 0>>)
    BY <1>1, <2>1, <2>2, <2>3
  <2>. QED  BY <2>4 DEF Monitor!Access, Monitor!Next
<1>4. CASE check_irq_control(t, ring)
  <2>. DEFINE kind == IF ring # 0 THEN "IrqDenied" ELSE "none"
  <2>1. kind \in Kinds \cup {"none"} /\ (kind = "none" \/ Reason[kind] = "irq")
    BY DEF Kinds, Reason
  <2>2. Answer("irq", kind, ring, t, 0)
    BY <1>4 DEF check_irq_control
  <2>3. kind = "none" <=> ring = 0
    OBVIOUS
  <2>. HIDE DEF kind
  <2>4. PolicyInv' /\ Monitor!Judge(ring = 0, <<"irq", ring, t, 0>>)
    BY <1>1, <2>1, <2>2, <2>3
  <2>. QED  BY <2>4 DEF Monitor!Access, Monitor!Next
<1>5. CASE check_io_access(t, ring)
  <2>. DEFINE kind == IF "io" \notin RING_CAPS[ring].can THEN "IoDenied" ELSE "none"
  <2>1. kind \in Kinds \cup {"none"} /\ (kind = "none" \/ Reason[kind] = "io")
    BY DEF Kinds, Reason
  <2>2. Answer("io", kind, ring, t, 0)
    BY <1>5 DEF check_io_access
  <2>3. kind = "none" <=> "io" \in RingPowers[ring]
    BY <1>2
  <2>. HIDE DEF kind
  <2>4. PolicyInv' /\ Monitor!Judge("io" \in RingPowers[ring], <<"io", ring, t, 0>>)
    BY <1>1, <2>1, <2>2, <2>3
  <2>. QED  BY <2>4 DEF Monitor!Access, Monitor!Next
<1>6. CASE check_phys_map(t, ring)
  <2>. DEFINE kind == IF "phys" \notin RING_CAPS[ring].can THEN "PhysMapDenied" ELSE "none"
  <2>1. kind \in Kinds \cup {"none"} /\ (kind = "none" \/ Reason[kind] = "phys")
    BY DEF Kinds, Reason
  <2>2. Answer("phys", kind, ring, t, 0)
    BY <1>6 DEF check_phys_map
  <2>3. kind = "none" <=> "phys" \in RingPowers[ring]
    BY <1>2
  <2>. HIDE DEF kind
  <2>4. PolicyInv' /\ Monitor!Judge("phys" \in RingPowers[ring], <<"phys", ring, t, 0>>)
    BY <1>1, <2>1, <2>2, <2>3
  <2>. QED  BY <2>4 DEF Monitor!Access, Monitor!Next
<1>. QED  BY <1>3, <1>4, <1>5, <1>6

\* A change of a slot is one the monitor knows: a number more or less, a thread
\* revoked or restored, a slot cleared.
LEMMA SlotIsSlot ==
    ASSUME PolicyInv, NEW t \in Tids,
           \/ \E ring \in Rings : init_thread_cap(t, ring)
           \/ \E flag \in Flags \cup {"REVOKED"} : grant_cap(t, flag) \/ revoke_cap(t, flag)
           \/ \E nr \in Numbers : deny_syscall(t, nr) \/ remove_deny(t, nr)
           \/ revoke_thread(t) \/ clear_thread_cap(t)
    PROVE  PolicyInv' /\ Monitor!Next
<1>. DEFINE old == CAP_TABLE[t]
<1>1. /\ old \in Cap /\ DenyList(old.deny) /\ Denied[t] = Range(old.deny)
      /\ t \in RevokedThreads <=> is_revoked(old)
  BY DEF PolicyInv, TypeOK, Cap, Denied, RevokedThreads
<1>2. Denied = [u \in Tids |-> Denied[u]] /\ RevokedThreads \subseteq Tids
  BY DEF Denied, RevokedThreads
<1>3. ASSUME NEW cap \in Cap, DenyList(cap.deny), SetCap(Other, t, cap),
             \/ cap.deny = <<>> /\ ~ is_revoked(cap)
             \/ cap.deny = old.deny
             \/ Range(cap.deny) = 0 .. MAX_DENY_LIST - 1 /\ is_revoked(cap)
      PROVE  PolicyInv' /\ Monitor!Next
  <2>1. /\ PolicyInv'
        /\ UNCHANGED <<POLICY_ACTIVE, RingPowers, Refused>>
        /\ served' = Other
        /\ Denied' = [Denied EXCEPT ![t] = Range(cap.deny)]
        /\ RevokedThreads' = IF is_revoked(cap) THEN RevokedThreads \cup {t}
                             ELSE RevokedThreads \ {t}
    BY <1>3, SlotKeeps
  <2>2. cap.deny = old.deny => Denied' = Denied
    BY <1>1, <1>2, <2>1
  <2>3. cap.deny = <<>> => Denied' = [Denied EXCEPT ![t] = {}]
    BY <2>1, DenyNone
  <2>4. Monitor!Restore
    BY <1>3, <2>1, <2>2, <2>3 DEF Monitor!Restore, Other
  <2>. QED  BY <2>1, <2>4 DEF Monitor!Next
<1>4. ASSUME NEW nr \in Numbers, deny_syscall(t, nr) PROVE PolicyInv' /\ Monitor!Next
  <2>. DEFINE cap == WithDeny(old, nr)
  <2>1. nr \in Nat
    BY PolicyAssumption
  <2>2. /\ DenyList(cap.deny)
        /\ Range(cap.deny) = IF Len(old.deny) < MAX_DENY_LIST THEN Range(old.deny) \cup {nr}
                             ELSE Range(old.deny)
    BY <1>1, <2>1, DenyAdds
  <2>3. cap \in Cap /\ cap.flags = old.flags
    <3>. DEFINE d == Append(old.deny, nr)
    <3>1. d \in Seq(Nat)
      BY <1>1, <2>1 DEF DenyList
    <3>. HIDE DEF d
    <3>2. cap = old \/ cap = [old EXCEPT !.deny = d]
      BY DEF WithDeny, d
    <3>3. cap = old \/ cap = [flags |-> old.flags, deny |-> d]
      BY <1>1, <3>2, CapWith
    <3>. HIDE DEF cap, old
    <3>. QED  BY <1>1, <3>1, <3>3 DEF Cap
  <2>4. SetCap(<<"deny", 0, t, nr, TRUE>>, t, cap)
    BY <1>4 DEF deny_syscall
  <2>. HIDE DEF cap
  <2>5. /\ PolicyInv'
        /\ UNCHANGED <<POLICY_ACTIVE, RingPowers, Refused>>
        /\ served' = <<"deny", 0, t, nr, TRUE>>
        /\ Denied' = [Denied EXCEPT ![t] = Range(cap.deny)]
        /\ RevokedThreads' = IF is_revoked(cap) THEN RevokedThreads \cup {t}
                             ELSE RevokedThreads \ {t}
    BY <2>2, <2>3, <2>4, SlotKeeps
  <2>6. RevokedThreads' = RevokedThreads
    BY <1>1, <1>2, <2>3, <2>5 DEF is_revoked
  <2>7. Range(cap.deny) = IF Cardinality(Denied[t]) < MAX_DENY_LIST THEN Denied[t] \cup {nr}
                          ELSE Denied[t]
    BY <1>1, <2>2, DenyCount
  <2>8. Monitor!Deny
    BY <2>5, <2>6, <2>7 DEF Monitor!Deny, Monitor!Cardinality, Cardinality
  <2>. QED  BY <2>5, <2>8 DEF Monitor!Next
<1>5. ASSUME NEW nr \in Numbers, remove_deny(t, nr) PROVE PolicyInv' /\ Monitor!Next
  <2>. DEFINE cap == WithoutDeny(old, nr)
  <2>1. nr \in Nat
    BY PolicyAssumption
  <2>2. DenyList(cap.deny) /\ Range(cap.deny) = Range(old.deny) \ {nr}
    BY <1>1, <2>1, DenyRemoves
  <2>3. cap \in Cap /\ cap.flags = old.flags
    <3>1. cap = old \/ \E d : cap = [old EXCEPT !.deny = d]
      BY DEF WithoutDeny
    <3>2. cap = old \/ \E d : cap = [flags |-> old.flags, deny |-> d]
      BY <1>1, <3>1, CapWith
    <3>. HIDE DEF cap, old
    <3>. QED  BY <1>1, <2>2, <3>2 DEF Cap, DenyList
  <2>4. SetCap(<<"undeny", 0, t, nr, TRUE>>, t, cap)
    BY <1>5 DEF remove_deny
  <2>. HIDE DEF cap
  <2>5. /\ PolicyInv'
        /\ UNCHANGED <<POLICY_ACTIVE, RingPowers, Refused>>
        /\ served' = <<"undeny", 0, t, nr, TRUE>>
        /\ Denied' = [Denied EXCEPT ![t] = Range(cap.deny)]
        /\ RevokedThreads' = IF is_revoked(cap) THEN RevokedThreads \cup {t}
                             ELSE RevokedThreads \ {t}
    BY <2>2, <2>3, <2>4, SlotKeeps
  <2>6. RevokedThreads' = RevokedThreads
    BY <1>1, <1>2, <2>3, <2>5 DEF is_revoked
  <2>7. Monitor!Undeny
    BY <1>1, <2>2, <2>5, <2>6 DEF Monitor!Undeny
  <2>. QED  BY <2>5, <2>7 DEF Monitor!Next
<1>6. ASSUME NEW ring \in Rings, init_thread_cap(t, ring) PROVE PolicyInv' /\ Monitor!Next
  <2>. DEFINE cap == IF ring = 0 THEN NewKernel ELSE IF ring = 1 THEN NewDevspace
                     ELSE IF ring = 3 THEN NewUser ELSE NoCap
  <2>1. cap \in {NewKernel, NewDevspace, NewUser, NoCap}
    OBVIOUS
  <2>2. cap \in Cap /\ cap.deny = <<>> /\ ~ is_revoked(cap)
    BY <2>1, FreshCaps
  <2>3. SetCap(Other, t, cap)
    BY <1>6 DEF init_thread_cap
  <2>. HIDE DEF cap
  <2>. QED  BY <1>3, <2>2, <2>3, DenyNone
<1>7. ASSUME NEW flag \in Flags \cup {"REVOKED"}, grant_cap(t, flag) \/ revoke_cap(t, flag)
      PROVE  PolicyInv' /\ Monitor!Next
  <2>1. ASSUME NEW cap, cap = Granted(old, flag) \/ cap = Revoked(old, flag), SetCap(Other, t, cap)
        PROVE  PolicyInv' /\ Monitor!Next
    <3>1. old.flags \in SUBSET (Flags \cup {"REVOKED"})
      BY <1>1 DEF Cap
    <3>2. cap = old \/ \E F \in SUBSET (Flags \cup {"REVOKED"}) : cap = [old EXCEPT !.flags = F]
      BY <2>1, <3>1 DEF Granted, Revoked
    <3>3. cap = old \/ \E F \in SUBSET (Flags \cup {"REVOKED"}) :
                           cap = [flags |-> F, deny |-> old.deny]
      BY <1>1, <3>2, CapWith
    <3>. HIDE DEF old
    <3>4. cap \in Cap /\ cap.deny = old.deny
      BY <1>1, <3>3 DEF Cap
    <3>. QED  BY <1>1, <1>3, <2>1, <3>4 DEF old
  <2>. QED  BY <1>7, <2>1 DEF grant_cap, revoke_cap
<1>8. ASSUME revoke_thread(t) PROVE PolicyInv' /\ Monitor!Next
  <2>. DEFINE cap == RevokedAll(old)
  <2>1. DenyList(cap.deny) /\ Range(cap.deny) = 0 .. MAX_DENY_LIST - 1
    BY DenyAll
  <2>2. cap \in Cap /\ is_revoked(cap)
    <3>1. cap = [flags |-> {"REVOKED"}, deny |-> cap.deny]
      BY DEF RevokedAll
    <3>. HIDE DEF cap
    <3>. QED  BY <2>1, <3>1 DEF Cap, is_revoked, DenyList
  <2>3. SetCap(Other, t, cap)
    BY <1>8 DEF revoke_thread
  <2>. HIDE DEF cap
  <2>. QED  BY <1>3, <2>1, <2>2, <2>3
<1>9. ASSUME clear_thread_cap(t) PROVE PolicyInv' /\ Monitor!Next
  <2>1. NoCap \in Cap /\ NoCap.deny = <<>> /\ ~ is_revoked(NoCap)
    BY FreshCaps
  <2>2. SetCap(Other, t, NoCap)
    BY <1>9 DEF clear_thread_cap
  <2>. QED  BY <1>3, <2>1, <2>2, DenyNone
<1>. QED  BY <1>4, <1>5, <1>6, <1>7, <1>8, <1>9

\* A change of a ring's powers is one of the monitor.
LEMMA RingIsRing ==
    ASSUME PolicyInv, NEW ring \in Rings, NEW flag \in RingFlags,
           ring_grant_cap(ring, flag) \/ ring_revoke_cap(ring, flag)
    PROVE  PolicyInv' /\ Monitor!Next
<1>1. /\ RING_CAPS[ring].flags \in SUBSET DOMAIN FlagBit
      /\ RingPowers[ring] = RING_CAPS[ring].flags
  BY DEF PolicyInv, TypeOK, RingPowers
<1>2. flag \in DOMAIN FlagBit
  BY PolicyAssumption DEF FlagBit
<1>. DEFINE more == RING_CAPS[ring].flags \cup {flag}
            less == RING_CAPS[ring].flags \ {flag}
<1>3. CASE ring_grant_cap(ring, flag)
  <2>1. more \in SUBSET DOMAIN FlagBit
    BY <1>1, <1>2, Zenon
  <2>2. SetRing("give", ring, flag, RingCaps(more))
    BY <1>3 DEF ring_grant_cap
  <2>3. /\ PolicyInv'
        /\ UNCHANGED <<POLICY_ACTIVE, Denied, RevokedThreads, Refused>>
        /\ served' = <<"give", ring, 0, FlagBit[flag], TRUE>>
        /\ RingPowers' = [RingPowers EXCEPT ![ring] = more]
    BY <2>1, <2>2, RingKeeps
  <2>4. Monitor!Empower
    BY <1>1, <1>2, <2>3 DEF Monitor!Empower
  <2>. QED  BY <2>3, <2>4 DEF Monitor!Next
<1>4. CASE ring_revoke_cap(ring, flag)
  <2>1. less \in SUBSET DOMAIN FlagBit
    BY <1>1, Zenon
  <2>2. SetRing("take", ring, flag, RingCaps(less))
    BY <1>4 DEF ring_revoke_cap
  <2>3. /\ PolicyInv'
        /\ UNCHANGED <<POLICY_ACTIVE, Denied, RevokedThreads, Refused>>
        /\ served' = <<"take", ring, 0, FlagBit[flag], TRUE>>
        /\ RingPowers' = [RingPowers EXCEPT ![ring] = less]
    BY <2>1, <2>2, RingKeeps
  <2>4. Monitor!Empower
    BY <1>1, <1>2, <2>3 DEF Monitor!Empower
  <2>. QED  BY <2>3, <2>4 DEF Monitor!Next
<1>. QED  BY <1>3, <1>4

\* The log is emptied, with or without a fresh start of the gate.
LEMMA EmptyIsEmpty ==
    ASSUME PolicyInv, init \/ Clear
    PROVE  PolicyInv' /\ Monitor!Next
<1>1. /\ entries' = [i \in DOMAIN entries |-> EmptyEntry] /\ head' = 0 /\ total' = 0
      /\ served' = Other /\ UNCHANGED RING_CAPS
  BY DEF init, Clear, ClearLog
<1>2. /\ entries' \in [0 .. MAX_LOG_ENTRIES - 1 -> ViolationKinds \X Nat \X Nat \X Nat]
      /\ \A i \in DOMAIN entries' : entries'[i][1] # "RingCapDenied"
  <2>1. EmptyEntry \in ViolationKinds \X Nat \X Nat \X Nat /\ EmptyEntry[1] # "RingCapDenied"
    <3>1. "None" \in ViolationKinds
      BY DEF ViolationKinds
    <3>. QED  BY <3>1 DEF EmptyEntry
  <2>2. DOMAIN entries = 0 .. MAX_LOG_ENTRIES - 1
    BY DEF PolicyInv, TypeOK
  <2>. QED  BY <1>1, <2>1, <2>2
<1>3. /\ CAP_TABLE' \in [Tids -> Cap] /\ \A t \in Tids : DenyList(CAP_TABLE'[t].deny)
      /\ POLICY_ACTIVE' \in BOOLEAN
      /\ \/ UNCHANGED <<POLICY_ACTIVE, Denied, RevokedThreads>>
         \/ /\ POLICY_ACTIVE' = TRUE /\ RevokedThreads' = {}
            /\ Denied' = [t \in Tids |-> {}]
  <2>1. CASE Clear
    <3>1. UNCHANGED <<POLICY_ACTIVE, CAP_TABLE>>
      BY <2>1 DEF Clear
    <3>. QED  BY <3>1 DEF PolicyInv, TypeOK, Cap, Denied, RevokedThreads
  <2>2. CASE init
    <3>1. \A t \in Tids : CAP_TABLE'[t] \in {NewKernel, NewUser, NoCap}
      BY <2>2 DEF init
    <3>2. \A cap \in {NewKernel, NewUser, NoCap} :
              cap \in Cap /\ cap.deny = <<>> /\ ~ is_revoked(cap)
      BY FreshCaps
    <3>3. POLICY_ACTIVE' = TRUE /\ CAP_TABLE' = [t \in Tids |-> CAP_TABLE'[t]]
      BY <2>2, Zenon DEF init
    <3>4. \A t \in Tids : /\ CAP_TABLE'[t] \in Cap /\ CAP_TABLE'[t].deny = <<>>
                          /\ ~ is_revoked(CAP_TABLE'[t])
      BY <3>1, <3>2
    <3>5. RevokedThreads' = {}
      BY <3>4 DEF RevokedThreads
    <3>6. Denied' = [t \in Tids |-> {}]
      BY <3>4, DenyNone DEF Denied
    <3>. QED  BY <3>3, <3>4, <3>5, <3>6, DenyNone
  <2>. QED  BY <2>1, <2>2
<1>4. PolicyInv'
  <2>1. head' \in 0 .. MAX_LOG_ENTRIES - 1 /\ total' \in 0 .. MAX_TOTAL
    BY <1>1, PolicyAssumption
  <2>. QED  BY <1>1, <1>2, <1>3, <2>1 DEF PolicyInv, TypeOK, Cap, DenyList
<1>5. Refused' = <<>>
  <2>1. LogShows'
    BY <1>4, RefusedFacts, PTL DEF PolicyInv
  <2>2. Count' = 0
    BY <1>1, PolicyAssumption DEF Count
  <2>. QED  BY <2>1, <2>2 DEF LogShows
<1>6. RingPowers' = RingPowers
  BY <1>1 DEF RingPowers
<1>7. Monitor!Empty
  BY <1>1, <1>3, <1>5, <1>6 DEF Monitor!Empty, Other
<1>. QED  BY <1>4, <1>7 DEF Monitor!Next

\* Every step keeps the invariant and is a step of the monitor or none of its steps.
LEMMA PolicyStep ==
    PolicyInv /\ [PolicyNext]_policyVars => PolicyInv' /\ [Monitor!Next]_Monitor!monitorVars
<1>. SUFFICES ASSUME PolicyInv, [PolicyNext]_policyVars
              PROVE  PolicyInv' /\ [Monitor!Next]_Monitor!monitorVars
  OBVIOUS
<1>1. CASE UNCHANGED policyVars
  <2>1. UNCHANGED <<POLICY_ACTIVE, RING_CAPS, CAP_TABLE, entries, head, total, served>>
    BY <1>1 DEF policyVars, policyLog
  <2>2. PolicyInv'
    BY <2>1 DEF PolicyInv, TypeOK
  <2>3. UNCHANGED Monitor!monitorVars
    BY <2>1 DEF Monitor!monitorVars, Denied, RevokedThreads, RingPowers, Refused, Recent
  <2>. QED  BY <2>2, <2>3
<1>2. CASE PolicyNext
  BY <1>2, CallIsCall, AccessIsAccess, SlotIsSlot, RingIsRing, EmptyIsEmpty, Zenon DEF PolicyNext
<1>. QED  BY <1>1, <1>2

\* The fourth check of check_syscall never refuses anything: the masks of
\* mod.rs and of policy.rs agree, whatever is granted to rings and threads.
THEOREM FourthCheckNeverRefuses == PolicySpec => []FourthCheckIdle
<1>1. PolicyInv => FourthCheckIdle
  BY MasksAgree DEF PolicyInv, FourthCheckIdle
<1>. QED  BY <1>1, StartsInPolicy, PolicyStep, PTL DEF PolicySpec

\* The gate with its deny arrays, flag words, derived booleans and circular
\* log implements the monitor: it refuses exactly what is denied at that
\* moment, and its log reads back the latest refusals in order.
THEOREM GateImplementsMonitor == PolicySpec => ImplementsMonitor
  BY StartsInPolicy, PolicyStep, PTL DEF PolicySpec, ImplementsMonitor, Monitor!Spec
====
