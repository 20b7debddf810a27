---- MODULE RootPolicy ----
(***************************************************************************)
(* The capability policy of src/kernel/src/root_policy: the gate in front  *)
(* of syscall_dispatch_v2 and of resources, per-ring masks and powers      *)
(* (policy.rs), per-slot tokens (thread_cap.rs) and the ring buffer of     *)
(* refusals (audit.rs).  Everything runs with interrupts off, so each call *)
(* is one step.  Memory limits, owner_ring and the tick of a log entry are *)
(* stored and never read; they are left out.                               *)
(***************************************************************************)
EXTENDS Integers, Sequences, FiniteSets, Functions

CONSTANTS
    Tids,            \* slots of CAP_TABLE in use; 0 and 1 are kernel threads
    Rings,           \* the privilege levels calls come from
    Numbers,         \* the syscall numbers that are called or denied
    Flags,           \* thread flags granted and revoked one by one
    RingFlags,       \* ring flags granted and revoked one by one
    MAX_THREADS,     \* 64
    MAX_DENY_LIST,   \* 16
    MAX_LOG_ENTRIES, \* 256
    MAX_TOTAL        \* u32::MAX

ASSUME PolicyAssumption ==
    /\ Rings \subseteq 0 .. 3 /\ RingFlags \subseteq {"io", "phys", "irq"}
    /\ MAX_THREADS \in Nat /\ Tids \subseteq 0 .. MAX_THREADS - 1
    /\ Numbers \subseteq Nat
    /\ MAX_DENY_LIST \in Nat \ {0} /\ MAX_LOG_ENTRIES \in Nat \ {0}
    /\ MAX_TOTAL \in Nat /\ MAX_TOTAL >= MAX_LOG_ENTRIES

VARIABLES
    POLICY_ACTIVE,
    RING_CAPS,  \* per ring: its flags and the booleans derived from them
    CAP_TABLE,  \* per slot: flags and deny list
    entries, head, total,   \* POLICY_LOG
    served      \* the last request: its kind, ring, thread, number, and TRUE for Ok

policyLog == <<entries, head, total>>
policyVars == <<POLICY_ACTIVE, RING_CAPS, CAP_TABLE, policyLog, served>>

(***************************************************************************)
(* The tables.  nr::EXIT .. nr::GET_FB_INFO are 0 .. 14, nr::SPAWN is 4.   *)
(***************************************************************************)
\* Seeded fault: user programs may spawn according to mod.rs only.
ring_syscall_mask_Spawn(ring) ==
    IF ring = 0 THEN 0 .. 63
    ELSE IF ring = 1 THEN 0 .. 12
    ELSE IF ring = 3 THEN 0 .. 13
    ELSE {}

ring_syscall_mask(ring) ==
    IF ring = 0 THEN 0 .. 63
    ELSE IF ring = 1 THEN 0 .. 12
    ELSE IF ring = 3 THEN (0 .. 13) \ {4}
    ELSE {}

policy_mask(ring) ==
    IF ring = 0 THEN 0 .. 63
    ELSE IF ring = 1 THEN (0 .. 12)
    ELSE IF ring = 3 THEN (0 .. 3) \cup (5 .. 13)
    ELSE {}

allows_syscall(ring, nr) == nr >= 64 \/ nr \in policy_mask(ring)

FlagBit == [io |-> 1, phys |-> 2, irq |-> 3]

\* RingCaps::new: can_io and can_phys_map are computed from the flags.
RingCaps(flags) == [flags |-> flags, can |-> flags \cap {"io", "phys"}]

NoCap == [flags |-> {}, deny |-> <<>>]

NewKernel == [flags |-> {"ELEVATED_IPC", "ELEVATED_MEM", "TRUST_SPAWN"} \cap Flags,
              deny |-> <<>>]

NewUser == [flags |-> {"TRUST_SPAWN"} \cap Flags, deny |-> <<>>]

NewDevspace == [flags |-> {"ELEVATED_IPC", "TRUST_SPAWN"} \cap Flags, deny |-> <<>>]

\* A request with nothing to say about it.
Other == <<"other", 0, 0, 0, TRUE>>

ViolationKinds == {"None", "SyscallDenied", "ThreadRevoked", "ThreadDenied", "RingCapDenied",
                   "KernelSpawnDenied", "IoDenied", "PhysMapDenied", "IrqDenied"}

EmptyEntry == <<"None", 0, 0, 0>>

PolicyInit ==
    /\ POLICY_ACTIVE = FALSE
    /\ RING_CAPS = [r \in Rings |->
           RingCaps(IF r = 0 THEN {"io", "phys", "irq"}
                    ELSE IF r = 1 THEN {"io"} ELSE {})]
    /\ CAP_TABLE = [t \in Tids |-> NoCap]
    /\ entries = [i \in 0 .. MAX_LOG_ENTRIES - 1 |-> EmptyEntry]
    /\ head = 0
    /\ total = 0
    /\ served = Other

(***************************************************************************)
(* The log.                                                                *)
(***************************************************************************)
\* Seeded fault: head moves before the entry is written.
Record_Late(kind, ring, tid, detail) ==
    /\ head' = (head + 1) % MAX_LOG_ENTRIES
    /\ entries' = [entries EXCEPT ![head'] = <<kind, ring, tid, detail>>]
    /\ total' = IF total < MAX_TOTAL THEN total + 1 ELSE total

Record(kind, ring, tid, detail) ==
    /\ entries' = [entries EXCEPT ![head] = <<kind, ring, tid, detail>>]
    /\ head' = (head + 1) % MAX_LOG_ENTRIES
    /\ total' = IF total < MAX_TOTAL THEN total + 1 ELSE total

\* What dump_recent(MAX_LOG_ENTRIES) prints, in its order.
Recent ==
    LET count == IF total < MAX_LOG_ENTRIES THEN total ELSE MAX_LOG_ENTRIES
    IN  [i \in 1 .. count |-> entries[(head + MAX_LOG_ENTRIES - i) % MAX_LOG_ENTRIES]]

ClearLog ==
    /\ entries' = [i \in DOMAIN entries |-> EmptyEntry]
    /\ head' = 0
    /\ total' = 0

Clear ==
    /\ ClearLog
    /\ served' = Other
    /\ UNCHANGED <<POLICY_ACTIVE, RING_CAPS, CAP_TABLE>>

(***************************************************************************)
(* A thread's token.                                                       *)
(***************************************************************************)
is_revoked(cap) == "REVOKED" \in cap.flags

denies(cap, nr) == nr \in Range(cap.deny)

Granted(cap, flag) ==
    IF is_revoked(cap) THEN cap ELSE [cap EXCEPT !.flags = @ \cup {flag}]

Revoked(cap, flag) == [cap EXCEPT !.flags = @ \ {flag}]

\* The whole array is filled, with the numbers 0, 1, 2, ...
RevokedAll(cap) == [flags |-> {"REVOKED"}, deny |-> [i \in 1 .. MAX_DENY_LIST |-> i - 1]]

\* Seeded fault: the list may name a number twice.
WithDeny_Twice(cap, nr) ==
    IF Len(cap.deny) >= MAX_DENY_LIST THEN cap
    ELSE [cap EXCEPT !.deny = Append(@, nr)]

WithDeny(cap, nr) ==
    IF Len(cap.deny) >= MAX_DENY_LIST \/ denies(cap, nr) THEN cap
    ELSE [cap EXCEPT !.deny = Append(@, nr)]

\* The first match is replaced by the last number of the list.
WithoutDeny(cap, nr) ==
    IF ~denies(cap, nr) THEN cap
    ELSE LET found == CHOOSE i \in DOMAIN cap.deny : cap.deny[i] = nr
             last == Len(cap.deny)
         IN  [cap EXCEPT !.deny =
                  SubSeq([@ EXCEPT ![found] = cap.deny[last]], 1, last - 1)]

(***************************************************************************)
(* The gate of system calls and the gates of resources.                    *)
(***************************************************************************)
\* The first check that refuses, or "none".
Refusal(tid, ring, nr) ==
    IF nr < 64 /\ nr \notin ring_syscall_mask(ring) THEN "SyscallDenied"
    ELSE IF is_revoked(CAP_TABLE[tid]) THEN "ThreadRevoked"
    ELSE IF denies(CAP_TABLE[tid], nr) THEN "ThreadDenied"
    ELSE IF ~allows_syscall(ring, nr) THEN "RingCapDenied"
    ELSE "none"

Answer(request, kind, ring, tid, detail) ==
    /\ IF kind = "none" THEN UNCHANGED policyLog ELSE Record(kind, ring, tid, detail)
    /\ served' = <<request, ring, tid, detail, kind = "none">>
    /\ UNCHANGED <<POLICY_ACTIVE, RING_CAPS, CAP_TABLE>>

check_syscall(tid, ring, nr) ==
    Answer("call", IF POLICY_ACTIVE THEN Refusal(tid, ring, nr) ELSE "none", ring, tid, nr)

\* The port and the address asked for are one port and one address, 0.
check_spawn_kernel(tid, ring) ==
    Answer("spawn", IF ring # 0 THEN "KernelSpawnDenied" ELSE "none", ring, tid, 0)

check_io_access(tid, ring) ==
    Answer("io", IF "io" \notin RING_CAPS[ring].can THEN "IoDenied" ELSE "none", ring, tid, 0)

check_phys_map(tid, ring) ==
    Answer("phys", IF "phys" \notin RING_CAPS[ring].can THEN "PhysMapDenied" ELSE "none",
           ring, tid, 0)

check_irq_control(tid, ring) ==
    Answer("irq", IF ring # 0 THEN "IrqDenied" ELSE "none", ring, tid, 0)

(***************************************************************************)
(* Changing the policy.                                                    *)
(***************************************************************************)
\* Slots 0 and 1 are idle and kterminal, slot 2 the first user thread.
init ==
    /\ ClearLog
    /\ POLICY_ACTIVE' = TRUE
    /\ CAP_TABLE' = [t \in Tids |-> IF t \in {0, 1} THEN NewKernel
                                    ELSE IF t = 2 THEN NewUser ELSE NoCap]
    /\ served' = Other
    /\ UNCHANGED RING_CAPS

\* Tids at or above MAX_THREADS are ignored.
SetCap(request, t, cap) ==
    /\ CAP_TABLE' = IF t < MAX_THREADS THEN [CAP_TABLE EXCEPT ![t] = cap] ELSE CAP_TABLE
    /\ served' = request
    /\ UNCHANGED <<POLICY_ACTIVE, RING_CAPS, policyLog>>

grant_cap(t, flag) == SetCap(Other, t, Granted(CAP_TABLE[t], flag))

revoke_cap(t, flag) == SetCap(Other, t, Revoked(CAP_TABLE[t], flag))

revoke_thread(t) == SetCap(Other, t, RevokedAll(CAP_TABLE[t]))

deny_syscall(t, nr) == SetCap(<<"deny", 0, t, nr, TRUE>>, t, WithDeny(CAP_TABLE[t], nr))

remove_deny(t, nr) == SetCap(<<"undeny", 0, t, nr, TRUE>>, t, WithoutDeny(CAP_TABLE[t], nr))

init_thread_cap(t, ring) ==
    SetCap(Other, t, IF ring = 0 THEN NewKernel ELSE IF ring = 1 THEN NewDevspace
              ELSE IF ring = 3 THEN NewUser ELSE NoCap)

clear_thread_cap(t) == SetCap(Other, t, NoCap)

SetRing(request, ring, flag, caps) ==
    /\ RING_CAPS' = [RING_CAPS EXCEPT ![ring] = caps]
    /\ served' = <<request, ring, 0, FlagBit[flag], TRUE>>
    /\ UNCHANGED <<POLICY_ACTIVE, CAP_TABLE, policyLog>>

ring_grant_cap(ring, flag) ==
    SetRing("give", ring, flag, RingCaps(RING_CAPS[ring].flags \cup {flag}))

\* Seeded fault: the derived booleans are not computed again.
ring_revoke_cap_Stale(ring, flag) ==
    SetRing("take", ring, flag, [RING_CAPS[ring] EXCEPT !.flags = @ \ {flag}])

ring_revoke_cap(ring, flag) ==
    SetRing("take", ring, flag, RingCaps(RING_CAPS[ring].flags \ {flag}))

PolicyNext ==
    \/ init \/ Clear
    \/ \E t \in Tids, ring \in Rings :
           \/ \E nr \in Numbers : check_syscall(t, ring, nr)
           \/ check_spawn_kernel(t, ring) \/ check_irq_control(t, ring)
           \/ check_io_access(t, ring) \/ check_phys_map(t, ring)
           \/ init_thread_cap(t, ring)
    \/ \E t \in Tids :
           \/ \E flag \in Flags \cup {"REVOKED"} : grant_cap(t, flag) \/ revoke_cap(t, flag)
           \/ \E nr \in Numbers : deny_syscall(t, nr) \/ remove_deny(t, nr)
           \/ revoke_thread(t) \/ clear_thread_cap(t)
    \/ \E ring \in Rings, flag \in RingFlags :
           ring_grant_cap(ring, flag) \/ ring_revoke_cap(ring, flag)

PolicySpec == PolicyInit /\ [][PolicyNext]_policyVars

(***************************************************************************)
(* Properties.                                                             *)
(***************************************************************************)
TypeOK ==
    /\ POLICY_ACTIVE \in BOOLEAN
    /\ RING_CAPS \in [Rings -> [flags : SUBSET DOMAIN FlagBit, can : SUBSET {"io", "phys"}]]
    /\ CAP_TABLE \in [Tids -> [flags : SUBSET (Flags \cup {"REVOKED"}), deny : Seq(Nat)]]
    /\ \A t \in Tids : Len(CAP_TABLE[t].deny) <= MAX_DENY_LIST
    /\ entries \in [0 .. MAX_LOG_ENTRIES - 1 -> ViolationKinds \X Nat \X Nat \X Nat]
    /\ head \in 0 .. MAX_LOG_ENTRIES - 1
    /\ total \in 0 .. MAX_TOTAL

\* The two copies of the masks, in mod.rs and in policy.rs, agree: the fourth
\* check of check_syscall has nothing left to refuse, whatever is granted to
\* rings and threads, so no entry of the log is of that kind.
FourthCheckIdle ==
    /\ \A i \in DOMAIN entries : entries[i][1] # "RingCapDenied"
    /\ \A ring \in 0 .. 3 : policy_mask(ring) = ring_syscall_mask(ring)

\* What kind of request a kind of refusal refuses.
Reason == [None |-> "none", SyscallDenied |-> "call", ThreadRevoked |-> "call", ThreadDenied |-> "call",
           RingCapDenied |-> "call", KernelSpawnDenied |-> "spawn", IoDenied |-> "io",
           PhysMapDenied |-> "phys", IrqDenied |-> "irq"]

Denied == [t \in Tids |-> Range(CAP_TABLE[t].deny)]

RevokedThreads == {t \in Tids : is_revoked(CAP_TABLE[t])}

RingPowers == [r \in Rings |-> RING_CAPS[r].flags]

Refused == [i \in DOMAIN Recent |->
                <<Reason[Recent[i][1]], Recent[i][2], Recent[i][3], Recent[i][4]>>]

Monitor == INSTANCE PolicyMonitor WITH
    Always <- {nr \in Numbers : nr >= 64},
    RingMay <- [r \in Rings |-> policy_mask(r)],
    Room <- MAX_DENY_LIST,
    AllDenied <- 0 .. MAX_DENY_LIST - 1,
    Kept <- MAX_LOG_ENTRIES,
    Powers <- FlagBit,
    on <- POLICY_ACTIVE,
    denied <- Denied,
    revoked <- RevokedThreads,
    powers <- RingPowers,
    recent <- Refused

\* The gate with its deny arrays, flag words, derived booleans and circular
\* log is the monitor of PolicyMonitor: it refuses exactly what is denied at
\* that moment and its log reads back the latest refusals in order.
ImplementsMonitor == Monitor!Spec
====
