---- MODULE Install ----
(***************************************************************************)
(* The installer of src/kernel/src/root_file_system: check_and_install     *)
(* reads the header sector at every boot and, when it has no magic, copies *)
(* the boot loader's modules to their segments and then writes the header, *)
(* sector by sector through the ATA PIO driver (ata.rs), which waits,      *)
(* retries after a reset, and flushes.                                     *)
(*                                                                         *)
(* The drive is external: it has a volatile write cache that it writes     *)
(* back in any order, may fail any poll of its status, and may lose power  *)
(* between any two steps.  A sector is written whole or not at all.  The   *)
(* answer of the disk gate is free; DiskGate models which one it gives.    *)
(***************************************************************************)
EXTENDS Integers, Sequences

CONSTANTS
    Segments,    \* layout.rs: first sector and size of each module's place
    HEADER_LBA,
    Boots,       \* the lists of modules a boot loader may pass
    MAX_RETRY,
    MaxBoots     \* bound on the number of boots

ASSUME InstallAssumption ==
    /\ MAX_RETRY \in Nat \ {0} /\ MaxBoots \in Nat
    /\ HEADER_LBA \in Nat
    /\ Segments \in Seq([lba_start : Nat, max_sectors : Nat])

Slots == DOMAIN Segments

Extent(s) == Segments[s].lba_start .. Segments[s].lba_start + Segments[s].max_sectors - 1

Lbas == {HEADER_LBA} \cup UNION {Extent(s) : s \in Slots}

\* The segments lie apart from each other and from the header.
ASSUME LayoutAssumption ==
    /\ \A s \in Slots : HEADER_LBA \notin Extent(s)
    /\ \A s, t \in Slots : s # t => Extent(s) \cap Extent(t) = {}

VARIABLES
    pc,       \* where check_and_install is, or how it ended; "off" between boots
    mods,     \* the modules of this boot, one per slot as far as they go
    slot, sector, attempt,   \* what is being written, and the try
    media,    \* the sectors on the platter
    cache,    \* the sectors the drive has accepted and not written yet
    boots

vars == <<pc, mods, slot, sector, attempt, media, cache, boots>>

Blank == <<"blank">>
Clean == <<"clean">>

\* What a poll of the status register ends with.
Answers == {"ok", "DiskError", "DriveFault", "Timeout"}

Running == {"check", "open", "send", "settle", "flush"}

Init ==
    /\ pc = "off"
    /\ mods = <<>> /\ slot = 1 /\ sector = 0 /\ attempt = 0
    /\ media = [l \in Lbas |-> Blank]
    /\ cache = [l \in Lbas |-> Clean]
    /\ boots = 0

(***************************************************************************)
(* The modules and the header.                                             *)
(***************************************************************************)
\* Empty modules are passed over, and their slots go to the ones behind them.
collect_modules(list) ==
    LET found == SelectSeq(list, LAMBDA m : m.sectors > 0)
    IN  SubSeq(found, 1, IF Len(found) < Len(Segments) THEN Len(found) ELSE Len(Segments))

SectorsOf(ms, s) == IF s \in DOMAIN ms THEN ms[s].sectors ELSE 0

\* Every module that is collected has a size.
ASSUME CollectAssumption ==
    \A list \in Boots : \A s \in Slots : SectorsOf(collect_modules(list), s) \in Nat

InstallHeader(ms) == <<"COSINST", [s \in Slots |-> SectorsOf(ms, s)]>>

is_valid(data) == data[1] = "COSINST"

Target == IF slot \in Slots THEN Segments[slot].lba_start + sector ELSE HEADER_LBA

Data == IF slot \in Slots THEN <<mods[slot].name, sector>> ELSE InstallHeader(mods)

(***************************************************************************)
(* Boot, and the header check.                                             *)
(***************************************************************************)
PowerOn ==
    /\ pc = "off" /\ boots < MaxBoots
    /\ \E list \in Boots : mods' = collect_modules(list)
    /\ boots' = boots + 1
    /\ pc' = "check"
    /\ UNCHANGED <<slot, sector, attempt, media, cache>>

\* The drive answers a read from its cache when it has the sector there.
Read(lba) == IF cache[lba] # Clean THEN cache[lba] ELSE media[lba]

\* Seeded fault: a header that cannot be read is taken for a missing one.
check_header_Assume ==
    \E a \in Answers :
        IF a = "ok" /\ is_valid(Read(HEADER_LBA))
        THEN pc' = "already" /\ UNCHANGED <<slot, sector, attempt>>
        ELSE pc' = "open" /\ slot' = 1 /\ sector' = 0 /\ attempt' = 0

\* read_sector_raw tries once; when it fails nothing is installed.
check_header ==
    \E a \in Answers :
        IF a = "ok" /\ ~ is_valid(Read(HEADER_LBA))
        THEN pc' = "open" /\ slot' = 1 /\ sector' = 0 /\ attempt' = 0
        ELSE /\ pc' = IF a = "ok" THEN "already" ELSE "skipped"
             /\ UNCHANGED <<slot, sector, attempt>>

CheckHeader ==
    /\ pc = "check"
    /\ check_header
    /\ UNCHANGED <<mods, media, cache, boots>>

(***************************************************************************)
(* One module, or the header: write_bytes and write_sector.                *)
(***************************************************************************)
SkipModule ==
    /\ pc = "open" /\ slot \in Slots /\ SectorsOf(mods, slot) = 0
    /\ slot' = slot + 1
    /\ UNCHANGED <<pc, mods, sector, attempt, media, cache, boots>>

\* The size, the gate for the whole range, and the selection of the drive.
OpenSegment ==
    /\ pc = "open"
    /\ slot \in Slots => SectorsOf(mods, slot) > 0
    /\ \E granted \in BOOLEAN, a \in {"ok", "Timeout"} :
           pc' = IF (slot \in Slots => SectorsOf(mods, slot) <= Segments[slot].max_sectors)
                    /\ granted /\ a = "ok"
                 THEN "send" ELSE "failed"
    /\ sector' = 0 /\ attempt' = 0
    /\ UNCHANGED <<mods, slot, media, cache, boots>>

\* Seeded fault: the try is not counted.
Retry_Endless(a) ==
    /\ IF a = "DiskError" /\ attempt < MAX_RETRY - 1
       THEN pc' \in {"send", "failed"}
       ELSE pc' = "failed"
    /\ UNCHANGED attempt

\* After an error of the disk, reset, select the drive and write the sector
\* again, MAX_RETRY times in all; any other failure ends the installation.
Retry(a) ==
    IF a = "DiskError" /\ attempt < MAX_RETRY - 1
    THEN /\ pc' \in {"send", "failed"}
         /\ attempt' = attempt + 1
    ELSE pc' = "failed" /\ UNCHANGED attempt

\* A drive that reports an error may have kept the sector or dropped it.
KeptOrDropped == cache' \in {cache, [cache EXCEPT ![Target] = Clean]}

\* wait_ready, the command, wait_drq and the 256 words.
SendSector ==
    /\ pc = "send"
    /\ \E a \in Answers :
           IF a = "ok"
           THEN pc' = "settle" /\ cache' = [cache EXCEPT ![Target] = Data] /\ UNCHANGED attempt
           ELSE Retry(a) /\ UNCHANGED cache
    /\ UNCHANGED <<mods, slot, sector, media, boots>>

\* wait_ready behind the data.
Settle ==
    /\ pc = "settle"
    /\ \E a \in Answers :
           IF a = "ok" THEN pc' = "flush" /\ UNCHANGED <<attempt, cache>>
           ELSE Retry(a) /\ KeptOrDropped
    /\ UNCHANGED <<mods, slot, sector, media, boots>>

\* The next sector, the next segment, the end.
Advance ==
    /\ attempt' = 0
    /\ IF slot \notin Slots
       THEN pc' = "complete" /\ UNCHANGED <<slot, sector>>
       ELSE IF sector + 1 < mods[slot].sectors
       THEN pc' = "send" /\ sector' = sector + 1 /\ UNCHANGED slot
       ELSE pc' = "open" /\ slot' = slot + 1 /\ sector' = 0

Flushed == [l \in Lbas |-> Read(l)]

\* Seeded fault: the flush command is left out.
flush_Skipped ==
    /\ Advance
    /\ UNCHANGED <<media, cache>>

\* CMD_FLUSH, wait_ready, and the last look at the error bit.
flush ==
    \E a \in Answers :
        IF a = "ok"
        THEN Advance /\ media' = Flushed /\ cache' = [l \in Lbas |-> Clean]
        ELSE Retry(a) /\ KeptOrDropped /\ UNCHANGED <<slot, sector, media>>

Flush ==
    /\ pc = "flush"
    /\ flush
    /\ UNCHANGED <<mods, boots>>

(***************************************************************************)
(* The drive and the power (external).                                     *)
(***************************************************************************)
WriteBack(lba) ==
    /\ cache[lba] # Clean
    /\ media' = [media EXCEPT ![lba] = cache[lba]]
    /\ cache' = [cache EXCEPT ![lba] = Clean]
    /\ UNCHANGED <<pc, mods, slot, sector, attempt, boots>>

PowerCut ==
    /\ pc # "off"
    /\ pc' = "off"
    /\ cache' = [l \in Lbas |-> Clean]
    /\ UNCHANGED <<mods, slot, sector, attempt, media, boots>>

\* The machine is reset; the drive stays powered and keeps its cache.
WarmReset ==
    /\ pc # "off"
    /\ pc' = "off"
    /\ UNCHANGED <<mods, slot, sector, attempt, media, cache, boots>>

Boot == CheckHeader \/ SkipModule \/ OpenSegment \/ SendSector \/ Settle \/ Flush

Next == PowerOn \/ Boot \/ PowerCut \/ WarmReset \/ \E l \in Lbas : WriteBack(l)

\* While it has power the processor goes on.
Fairness == WF_vars(Boot)

Spec == Init /\ [][Next]_vars /\ Fairness

(***************************************************************************)
(* Properties.                                                             *)
(***************************************************************************)
Content(ms) ==
    [s \in Slots |-> [i \in 1 .. SectorsOf(ms, s) |-> <<ms[s].name, i - 1>>]]

Fits(ms) == \A s \in Slots : SectorsOf(ms, s) <= Segments[s].max_sectors

Uninstalled == "none"

\* What a boot from the platter finds: the sectors the header names.
OnDisk ==
    IF is_valid(media[HEADER_LBA])
    THEN <<"installed",
           [s \in Slots |-> [i \in 1 .. media[HEADER_LBA][2][s] |->
                               media[Segments[s].lba_start + i - 1]]]>>
    ELSE <<Uninstalled>>

Complete == {<<"installed", Content(ms)>> :
                ms \in {m \in {collect_modules(l) : l \in Boots} : Fits(m)}}

Disk == INSTANCE AtomicInstall WITH
            system <- OnDisk, Systems <- Complete, Nothing <- <<Uninstalled>>

\* The header reaches the platter only after every sector it names, all of
\* one boot's modules, and no later boot, retry or late write of the drive
\* changes an installed system, whatever fails and whenever the power goes:
\* the order of run_install and the flush behind every sector of ata.rs.
ImplementsAtomicInstall == Disk!Spec

\* When "Installation complete" is printed, losing power loses nothing.
CompleteIsDurable ==
    pc = "complete" => OnDisk[1] = "installed" /\ cache = [l \in Lbas |-> Clean]

\* The installer never holds up the boot: whatever the drive answers, the
\* bounded waits and tries of ata.rs end in one of the four outcomes.
BootGoesOn == (pc \in Running) ~> (pc \notin Running)
====
