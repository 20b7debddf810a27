---- MODULE DiskGate ----
(***************************************************************************)
(* The gate in front of disk writes (src/kernel/src/root_file_system/ada): *)
(* glue.c asks DiskSecurity for the region of a range, DiskAuth for a      *)
(* permit, and ChangeMonitor, which limits the rate of writes, watches     *)
(* ranges and locks everything after too many alerts.  The kernel is one   *)
(* caller at a time, so each entry of glue.c is one step.                  *)
(*                                                                         *)
(* Left out: the audit log, the journal and the counters that are only     *)
(* reported, and the sessions of DiskAuth, which nothing opens.            *)
(***************************************************************************)
EXTENDS Integers, Sequences, FiniteSets, FiniteSetsExt

CONSTANTS
    CoreRegions,        \* the segments Init registers, in order
    KernelSegment,      \* the range that is watched strictly
    Requests,           \* the ranges asked for: first sector and count
    CallerRings, Hashes,
    MAX_REGIONS, MAX_WATCH_REGIONS, MAX_PERMITS,
    BURST_WINDOW, BURST_LIMIT, ALERT_THRESHOLD, TAMPER_ALERTS,
    MaxTick, MaxAlerts  \* bounds on the clock and on the alerts

ASSUME GateAssumption ==
    /\ {MAX_REGIONS, MAX_WATCH_REGIONS, MAX_PERMITS, BURST_WINDOW, BURST_LIMIT,
        ALERT_THRESHOLD, TAMPER_ALERTS, MaxTick, MaxAlerts} \subseteq Nat
    /\ CallerRings \subseteq 0 .. 3 /\ 0 \notin Hashes
    /\ MAX_PERMITS >= 4 /\ MAX_WATCH_REGIONS > 0 /\ ALERT_THRESHOLD > 0
    /\ Len(CoreRegions) <= MAX_REGIONS

VARIABLES
    Initialized, Lock_All, Tamper_Detected,
    regions,         \* Regions (0 .. Active_Regions - 1)
    permits,         \* the number of permits in use; none is ever given back
    Tick, Burst_Count, Burst_Window_Start,
    Total_Alerts, Hard_Lock,
    Watches, Watch_Count,
    grants,          \* history: the ticks of the writes let through, in order
    serious          \* history: alerts of strict watches and of bursts

security == <<Initialized, Lock_All, Tamper_Detected, regions>>
monitor == <<Tick, Burst_Count, Burst_Window_Start, Total_Alerts, Hard_Lock,
             Watches, Watch_Count>>
gateVars == <<security, permits, monitor, grants, serious>>

NoWatch == [Active |-> FALSE, start |-> 0, end |-> 0, hash |-> 0, Strict |-> FALSE]

WatchSlots == 0 .. MAX_WATCH_REGIONS - 1

\* Static memory is zero: until security_init every gated access is refused.
GateInit ==
    /\ Initialized = FALSE /\ Lock_All = FALSE /\ Tamper_Detected = FALSE
    /\ regions = <<>>
    /\ permits = 0
    /\ Tick = 0 /\ Burst_Count = 0 /\ Burst_Window_Start = 0
    /\ Total_Alerts = 0 /\ Hard_Lock = FALSE
    /\ Watches = [w \in WatchSlots |-> NoWatch] /\ Watch_Count = 0
    /\ grants = <<>>
    /\ serious = 0

(***************************************************************************)
(* Regions (DiskSecurity).                                                 *)
(***************************************************************************)
\* The bytes CRC32_Region leaves out, and where the record has its checksum.
Skipped == 12 .. 15

ChecksumField == 28 .. 31

\* Nobody else changes a descriptor.  It is sealed with the CRC after every
\* change; when the CRC covers the field it is stored in, storing it makes
\* it wrong.
Verify_Descriptor == ChecksumField \subseteq Skipped

Find_Region(lba) == {i \in DOMAIN regions : lba \in regions[i].start .. regions[i].end - 1}

Overlaps(rs, start, end) == \E i \in DOMAIN rs : start < rs[i].end /\ end > rs[i].start

\* Register_Region on the table rs; a refused region leaves it as it is.
WithRegion(rs, start, end, level) ==
    IF Len(rs) >= MAX_REGIONS \/ Overlaps(rs, start, end) THEN rs
    ELSE Append(rs, [start |-> start, end |-> end, level |-> level, locked |-> FALSE])

Core[k \in 0 .. Len(CoreRegions)] ==
    IF k = 0 THEN <<>>
    ELSE WithRegion(Core[k - 1], CoreRegions[k].start, CoreRegions[k].end, CoreRegions[k].level)

\* Check_Access: only the region of the first sector is looked at.
Check_Access(lba, count, write, ring) ==
    IF ~ Initialized THEN "ERR_PERMISSION"
    ELSE IF Lock_All THEN "ERR_LOCKED"
    ELSE IF Find_Region(lba) = {} THEN IF write /\ ring > 0 THEN "ERR_PERMISSION" ELSE "ERR_OK"
    ELSE LET r == regions[Min(Find_Region(lba))] IN
         IF ~ Verify_Descriptor THEN "ERR_TAMPER"
         ELSE IF lba + count > r.end THEN "ERR_BOUNDS"
         ELSE IF ~ write THEN "ERR_OK"
         ELSE IF r.locked \/ r.level = "LOCKED" THEN "ERR_LOCKED"
         ELSE IF ring > 0 /\ r.level = "KERNEL_ONLY" THEN "ERR_PERMISSION"
         ELSE IF ring > 0 /\ r.level = "SIGNED_ONLY" THEN "ERR_AUTH_FAIL"
         ELSE "ERR_OK"

\* What Check_Access leaves behind.
Accessed(result) ==
    /\ Tamper_Detected' = (Tamper_Detected \/ result = "ERR_TAMPER")
    /\ UNCHANGED <<Initialized, Lock_All, regions>>

SetLocked(lba, locked) ==
    regions' = [i \in DOMAIN regions |->
        IF i \in Find_Region(lba) THEN [regions[i] EXCEPT !.locked = locked] ELSE regions[i]]

Emergency_Lock_All ==
    /\ Lock_All' = TRUE
    /\ regions' = [i \in DOMAIN regions |-> [regions[i] EXCEPT !.locked = TRUE]]

(***************************************************************************)
(* Permits (DiskAuth).                                                     *)
(***************************************************************************)
\* The admin flag of ring 0 needs no permit.  A permit of a session never
\* passes: CRC32_Permit leaves out bytes 96 to 99 of a record of 88, so its
\* checksum, too, is computed over itself.
Check_Permit(ring) == ring = 0

Admin_Permit == permits' = IF permits < MAX_PERMITS THEN permits + 1 ELSE permits

(***************************************************************************)
(* The change monitor.                                                     *)
(***************************************************************************)
\* Seeded fault: the write being asked for is not counted.
Burst_Late == Burst_Count > BURST_LIMIT

\* Check_Burst counts the write; the tick has restarted the window already
\* when it is over.
Burst == Burst_Count + 1 > BURST_LIMIT

Scanned == 0 .. Watch_Count - 1

Covering(lba) ==
    {w \in Scanned : Watches[w].Active /\ lba \in Watches[w].start .. Watches[w].end - 1}

Mismatch(w, hash) == Watches[w].hash # 0 /\ hash # Watches[w].hash

\* The watches that raise an alert; the first one in the table decides.
Alerting(lba, hash) == {w \in Covering(lba) : Watches[w].Strict \/ Mismatch(w, hash)}

Outcome(lba, hash) ==
    IF Burst THEN "burst"
    ELSE IF Alerting(lba, hash) = {} THEN "write"
    ELSE IF Watches[Min(Alerting(lba, hash))].Strict THEN "strict" ELSE "mismatch"

\* Seeded fault: the lock waits for one exact count.
Locks_Exactly(outcome) ==
    outcome \in {"burst", "strict"} /\ Total_Alerts + 1 = ALERT_THRESHOLD

\* A mismatch is counted, but does not lock.
Locks(outcome) ==
    outcome \in {"burst", "strict"} /\ Total_Alerts + 1 >= ALERT_THRESHOLD

Record_Write(outcome) ==
    /\ Burst_Count' = Burst_Count + 1
    /\ Total_Alerts' = IF outcome = "write" THEN Total_Alerts ELSE Total_Alerts + 1
    /\ Hard_Lock' = (Hard_Lock \/ Locks(outcome))
    /\ serious' = IF outcome \in {"burst", "strict"} THEN serious + 1 ELSE serious
    /\ grants' = IF outcome = "write" THEN Append(grants, Tick) ELSE grants
    /\ UNCHANGED <<Tick, Burst_Window_Start, Watches, Watch_Count>>

FreeWatches == {w \in WatchSlots : ~ Watches[w].Active}

Add_Watch(start, end, hash, strict) ==
    IF Watch_Count >= MAX_WATCH_REGIONS \/ FreeWatches = {}
    THEN UNCHANGED <<Watches, Watch_Count>>
    ELSE /\ Watches' = [Watches EXCEPT ![Min(FreeWatches)] =
                [Active |-> TRUE, start |-> start, end |-> end, hash |-> hash,
                 Strict |-> strict]]
         /\ Watch_Count' = Watch_Count + 1

(***************************************************************************)
(* The entries of glue.c.                                                  *)
(***************************************************************************)
cosinus_disk_security_init_all ==
    /\ Initialized' = TRUE /\ Lock_All' = FALSE /\ Tamper_Detected' = FALSE
    /\ regions' = Core[Len(CoreRegions)]
    /\ permits' = 4   \* the admin permits of the four segments
    /\ Tick' = 0 /\ Burst_Count' = 0 /\ Burst_Window_Start' = 0
    /\ Total_Alerts' = 0 /\ Hard_Lock' = FALSE
    /\ Watches' = [w \in WatchSlots |->
           IF w = 0 THEN [Active |-> TRUE, start |-> KernelSegment[1],
                          end |-> KernelSegment[2], hash |-> 0, Strict |-> TRUE]
           ELSE NoWatch]
    /\ Watch_Count' = 1
    /\ grants' = <<>>
    /\ serious' = 0

disk_gate_write(lba, count, ring, hash) ==
    /\ Total_Alerts < MaxAlerts
    /\ IF Hard_Lock THEN UNCHANGED gateVars
       ELSE LET result == Check_Access(lba, count, TRUE, ring) IN
            /\ Accessed(result)
            /\ IF result = "ERR_OK" /\ Check_Permit(ring)
               THEN Record_Write(Outcome(lba, hash))
               ELSE UNCHANGED <<monitor, grants, serious>>
            /\ UNCHANGED permits

disk_gate_read(lba, count, ring) ==
    /\ Accessed(Check_Access(lba, count, FALSE, ring))
    /\ UNCHANGED <<permits, monitor, grants, serious>>

disk_gate_install(lba, count) ==
    LET result == Check_Access(lba, count, TRUE, 0) IN
    /\ Accessed(result)
    /\ IF result = "ERR_OK" THEN Admin_Permit ELSE UNCHANGED permits
    /\ UNCHANGED <<monitor, grants, serious>>

\* The watch covers one sector more than the data.  A region that is not
\* found ends the call before the watch.
disk_gate_post_install(lba, count, hash, lock_after) ==
    /\ Find_Region(lba) # {}
    /\ IF lock_after THEN SetLocked(lba, TRUE) ELSE UNCHANGED regions
    /\ Add_Watch(lba, lba + count + 1, hash, FALSE)
    /\ UNCHANGED <<Initialized, Lock_All, Tamper_Detected, permits, Tick, Burst_Count,
                   Burst_Window_Start, Total_Alerts, Hard_Lock, grants, serious>>

disk_gate_check_tamper ==
    /\ Tamper_Detected \/ Total_Alerts > TAMPER_ALERTS
    /\ Emergency_Lock_All
    /\ UNCHANGED <<Initialized, Tamper_Detected, permits, monitor, grants, serious>>

WindowOver == Tick + 1 - Burst_Window_Start > BURST_WINDOW

\* Seeded fault: a new window also lifts the lock.
StillLocked_Window == Hard_Lock /\ ~ WindowOver

StillLocked == Hard_Lock

disk_gate_tick ==
    /\ Initialized /\ Tick < MaxTick
    /\ Tick' = Tick + 1
    /\ Burst_Count' = IF WindowOver THEN 0 ELSE Burst_Count
    /\ Burst_Window_Start' = IF WindowOver THEN Tick + 1 ELSE Burst_Window_Start
    /\ Hard_Lock' = StillLocked
    /\ UNCHANGED <<security, permits, Total_Alerts, Watches, Watch_Count, grants, serious>>

(***************************************************************************)
(* The entries of the Ada packages that glue.c only declares.              *)
(***************************************************************************)
Register_Region(lba, count, level) ==
    /\ Initialized
    /\ regions' = WithRegion(regions, lba, lba + count, level)
    /\ UNCHANGED <<Initialized, Lock_All, Tamper_Detected, permits, monitor, grants, serious>>

Unlock_Region(lba) ==
    /\ SetLocked(lba, FALSE)
    /\ UNCHANGED <<Initialized, Lock_All, Tamper_Detected, permits, monitor, grants, serious>>

AddWatch(lba, count, hash, strict) ==
    /\ Initialized
    /\ Add_Watch(lba, lba + count, hash, strict)
    /\ UNCHANGED <<security, permits, Tick, Burst_Count, Burst_Window_Start, Total_Alerts,
                   Hard_Lock, grants, serious>>

\* The slot is freed and the count lowered; the table is not closed up.
Remove_Watch(lba) ==
    /\ \E w \in Scanned :
           /\ Watches[w].Active /\ Watches[w].start = lba
           /\ \A v \in Scanned : v < w => ~ (Watches[v].Active /\ Watches[v].start = lba)
           /\ Watches' = [Watches EXCEPT ![w].Active = FALSE]
    /\ Watch_Count' = Watch_Count - 1
    /\ UNCHANGED <<security, permits, Tick, Burst_Count, Burst_Window_Start, Total_Alerts,
                   Hard_Lock, grants, serious>>

GateNext ==
    \/ cosinus_disk_security_init_all
    \/ disk_gate_check_tamper
    \/ disk_gate_tick
    \/ \E q \in Requests :
           \/ \E ring \in CallerRings : disk_gate_read(q[1], q[2], ring)
           \/ \E ring \in CallerRings, hash \in Hashes : disk_gate_write(q[1], q[2], ring, hash)
           \/ disk_gate_install(q[1], q[2])
           \/ \E hash \in Hashes, lock \in BOOLEAN : disk_gate_post_install(q[1], q[2], hash, lock)
           \/ Register_Region(q[1], q[2], "OPEN")
           \/ Unlock_Region(q[1])
           \/ \E hash \in Hashes, strict \in BOOLEAN : AddWatch(q[1], q[2], hash, strict)
           \/ Remove_Watch(q[1])

GateSpec == GateInit /\ [][GateNext]_gateVars

(***************************************************************************)
(* Properties.                                                             *)
(***************************************************************************)
\* Any BURST_WINDOW + 1 ticks in a row see at most twice BURST_LIMIT writes
\* let through, wherever the windows of changemonitor.adb begin: two windows
\* meet, and refused writes count too.  So of any 2 * BURST_LIMIT + 1 writes
\* let through, the last comes more than a window after the first.
BurstBounded ==
    \A first, last \in DOMAIN grants :
        last = first + 2 * BURST_LIMIT => grants[last] > grants[first] + BURST_WINDOW

\* As many alerts of strict watches and of bursts as the threshold leave the
\* disk locked, whatever other alerts came in between (Record_Write counts
\* those of a changed hash in the same counter, and does not lock for them).
AlertsLock == serious >= ALERT_THRESHOLD => Hard_Lock

\* Once the monitor or a tamper check has locked the disk, nothing but a new
\* security_init lets another write through: no tick, no unlocking of a
\* region, no new window.
LockIsFinal ==
    [][(Hard_Lock \/ Lock_All) /\ ~ cosinus_disk_security_init_all
           => grants' = grants /\ (Hard_Lock' \/ Lock_All')]_gateVars
====
