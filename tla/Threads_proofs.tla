---- MODULE Threads_proofs ----
(***************************************************************************)
(* Proofs about Threads: for every size of the thread table, every queue   *)
(* capacity and every boot.                                                *)
(*                                                                         *)
(* The inductive invariant IInv adds to the invariants of Threads what     *)
(* makes them hold: idle stays marked Run and is never current, slot 1     *)
(* belongs to a kernel thread that only alternates between Ready and Run,  *)
(* and NTHREADS is the number of live threads or one short of it.          *)
(***************************************************************************)
EXTENDS Threads, FiniteSetTheorems, TLAPS

States == {"Run", "Ready", "Block", "Dead"}

LiveSet == {t \in Slots : state[t] # "Dead"}

\* idle and the kernel thread of slot 1.
KernelPair ==
    /\ CUR # Idle
    /\ ~user[Idle] /\ state[Idle] = "Run"
    /\ ~user[1] /\ state[1] \in {"Run", "Ready"}

CountOffset == NTHREADS = Live \/ NTHREADS = Live - 1

IInv == TypeOK /\ OneRunning /\ KernelPair /\ NoLostWakeup /\ CountOffset

----
(***************************************************************************)
(* The scheduler.                                                          *)
(***************************************************************************)
LEMMA SlotFacts ==
    /\ MAX_THREADS \in Nat /\ MAX_THREADS > 3
    /\ 0 \in Slots /\ 1 \in Slots /\ 2 \in Slots
    /\ IsFiniteSet(Slots)
  BY ConstantsAssumption, FS_Interval DEF Slots

\* What the selection does to the table it is given.
LEMMA SelectFacts ==
    ASSUME NEW st \in [Slots -> States], NEW wk \in [Slots -> Nat],
           NEW tick \in Nat, NEW n \in Slots, CUR \in Slots,
           Select(st, wk, tick, n)
    PROVE  /\ state' \in [Slots -> States]
           /\ wake_tick' \in [Slots -> Nat]
           /\ CUR' = n
           /\ state'[n] = "Run"
           /\ \A t \in Slots \ {n} :
                  state'[t] = IF t \in Due(st, wk, tick) THEN "Ready"
                              ELSE IF t = CUR /\ st[t] = "Run" THEN "Ready"
                              ELSE st[t]
           /\ \A t \in Slots : t \notin Due(st, wk, tick)
                                   => wake_tick'[t] = wk[t]
           /\ n # CUR => st[n] = "Ready" \/ n \in Due(st, wk, tick)
<1>. DEFINE due == Due(st, wk, tick)
            woken == [t \in Slots |-> IF t \in due THEN "Ready" ELSE st[t]]
<1>1. /\ IsNext(woken, n)
      /\ wake_tick' = [t \in Slots |-> IF t \in due THEN 0 ELSE wk[t]]
      /\ state' = [t \in Slots |->
                      IF t = n THEN "Run"
                      ELSE IF t = CUR /\ woken[t] = "Run" THEN "Ready"
                      ELSE woken[t]]
      /\ CUR' = n
  BY DEF Select
<1>2. n # CUR => woken[n] = "Ready"
  BY <1>1 DEF IsNext
<1>3. \A t \in Slots : woken[t] = IF t \in due THEN "Ready" ELSE st[t]
  OBVIOUS
<1>4. woken \in [Slots -> States]
  BY DEF States
<1>. HIDE DEF woken, due
<1>5. state' \in [Slots -> States] /\ wake_tick' \in [Slots -> Nat]
  BY <1>1, <1>4 DEF States
<1>. QED  BY <1>1, <1>2, <1>3, <1>5 DEF due

\* Between two other slots, the scan never prefers the current one.
LEMMA CurrentLast ==
    ASSUME CUR \in Slots, NEW t \in Slots, t # CUR
    PROVE  Distance(t) < Distance(CUR)
<1>1. Distance(CUR) = MAX_THREADS - 1
  BY SlotFacts DEF Distance, Slots
<1>2. CASE t > CUR
  <2>1. t - CUR - 1 \in 0 .. MAX_THREADS - 2
    BY <1>2, SlotFacts DEF Slots
  <2>2. Distance(t) = t - CUR - 1
    BY <1>2, <2>1, SlotFacts DEF Distance, Slots
  <2>. QED  BY <1>1, <2>1, <2>2, SlotFacts
<1>3. CASE t < CUR
  <2>1. t + MAX_THREADS - CUR - 1 \in 0 .. MAX_THREADS - 2
    BY <1>3, SlotFacts DEF Slots
  <2>2. Distance(t) = t + MAX_THREADS - CUR - 1
    BY <2>1, SlotFacts DEF Distance
  <2>. QED  BY <1>1, <2>1, <2>2, SlotFacts
<1>. QED  BY <1>2, <1>3 DEF Slots

\* With another Ready thread in the table, the scan leaves the current one.
LEMMA SelectLeaves ==
    ASSUME NEW st \in [Slots -> States], NEW wk \in [Slots -> Nat],
           NEW tick \in Nat, NEW n \in Slots, CUR \in Slots,
           Select(st, wk, tick, n),
           NEW k \in Slots, k # CUR, st[k] = "Ready"
    PROVE  n # CUR
<1>. DEFINE due == Due(st, wk, tick)
            woken == [t \in Slots |-> IF t \in due THEN "Ready" ELSE st[t]]
            Ready == {t \in Slots : woken[t] = "Ready"}
<1>1. IsNext(woken, n)
  BY DEF Select
<1>2. k \in Ready
  OBVIOUS
<1>3. n \in Ready /\ \A t \in Ready : Distance(n) =< Distance(t)
  BY <1>1, <1>2 DEF IsNext
<1>4. Distance(k) < Distance(CUR)
  BY CurrentLast
<1>5. Distance(k) \in Int /\ Distance(CUR) \in Int
  BY SlotFacts DEF Distance, Slots
<1>. QED  BY <1>2, <1>3, <1>4, <1>5

\* A selection keeps the table in order: one thread Run besides idle, idle and
\* the kernel thread of slot 1 as they are, no lost wakeup, the same threads
\* alive (unless it puts a current thread back to Run).
LEMMA SelectKeeps ==
    ASSUME NEW st \in [Slots -> States], NEW wk \in [Slots -> Nat],
           NEW tick \in Nat, NEW n \in Slots, CUR \in Slots, CUR # Idle,
           Select(st, wk, tick, n),
           \A t \in Slots : st[t] = "Run" => t \in {CUR, Idle},
           st[Idle] = "Run", st[1] \in {"Run", "Ready"},
           \A t \in Slots : st[t] = "Block" /\ wk[t] = 0 => queue[t] = <<>>
    PROVE  /\ CUR' # Idle
           /\ \A t \in Slots : state'[t] = "Run" => t \in {n, Idle}
           /\ state'[Idle] = "Run" /\ state'[1] \in {"Run", "Ready"}
           /\ \A t \in Slots : state'[t] = "Block" /\ wake_tick'[t] = 0
                                   => queue[t] = <<>>
           /\ \A t \in Slots : n # CUR \/ t # n
                                   => (state'[t] = "Dead" <=> st[t] = "Dead")
<1>1. \A t \in Slots : t \in Due(st, wk, tick) => st[t] = "Block"
  BY DEF Due
<1>2. CUR' = n /\ state'[n] = "Run" /\ n # Idle
  BY <1>1, SelectFacts, SlotFacts DEF Idle
<1>3. \A t \in Slots \ {n} :
          /\ st[t] = "Run" => state'[t] = IF t = CUR THEN "Ready" ELSE "Run"
          /\ st[t] = "Ready" => state'[t] = "Ready"
          /\ st[t] = "Dead" => state'[t] = "Dead"
          /\ st[t] = "Block" => state'[t] \in {"Block", "Ready"}
  BY <1>1, SelectFacts
<1>4. \A t \in Slots : state'[t] = "Block"
          => t # n /\ st[t] = "Block" /\ wake_tick'[t] = wk[t]
  BY <1>1, <1>2, SelectFacts
<1>5. state'[Idle] = "Run" /\ state'[1] \in {"Run", "Ready"}
  BY <1>2, <1>3, SlotFacts DEF Idle
<1>6. \A t \in Slots : state'[t] = "Run" => t \in {n, Idle}
  <2>. SUFFICES ASSUME NEW t \in Slots, state'[t] = "Run", t # n
                PROVE  t = Idle
    OBVIOUS
  <2>. QED  BY <1>3 DEF States
<1>7. \A t \in Slots : n # CUR \/ t # n
                           => (state'[t] = "Dead" <=> st[t] = "Dead")
  BY <1>1, <1>2, <1>3, SelectFacts DEF States
<1>. QED  BY <1>2, <1>4, <1>5, <1>6, <1>7

Kinds == {"fresh", "call", "isr", "stale", "foreign"}

\* The switch leaves well-formed frames.
LEMMA ResumeTypes ==
    ASSUME krsp \in [Slots -> Kinds], intr \in BOOLEAN,
           machine \in {"up", "lost"},
           NEW from, NEW n \in Slots, NEW kind \in Kinds, NEW if \in BOOLEAN,
           Resume(from, n, kind, if)
    PROVE  /\ krsp' \in [Slots -> Kinds] /\ intr' \in BOOLEAN
           /\ machine' \in {"up", "lost"}
<1>1. CASE user[n]
  BY <1>1 DEF Resume
<1>2. CASE ~user[n]
  <2>1. krsp' \in [Slots -> Kinds]
    BY <1>2 DEF Resume, Kinds
  <2>2. intr' \in BOOLEAN
    BY <1>2 DEF Resume
  <2>3. machine' \in {"up", "lost"}
    BY <1>2 DEF Resume
  <2>. QED  BY <2>1, <2>2, <2>3
<1>. QED  BY <1>1, <1>2

\* The two together, as every caller of schedule() but a preemptible yield
\* uses them.
LEMMA ScheduleKeeps ==
    ASSUME IInv,
           NEW st \in [Slots -> States], NEW wk \in [Slots -> Nat],
           NEW tick \in Nat, NEW kind \in Kinds,
           Schedule(st, wk, tick, kind),
           \A t \in Slots : st[t] = "Run" => t \in {CUR, Idle},
           st[Idle] = "Run", st[1] \in {"Run", "Ready"},
           \A t \in Slots : st[t] = "Block" /\ wk[t] = 0 => queue[t] = <<>>
    PROVE  /\ state' \in [Slots -> States] /\ wake_tick' \in [Slots -> Nat]
           /\ krsp' \in [Slots -> Kinds] /\ intr' \in BOOLEAN
           /\ machine' \in {"up", "lost"}
           /\ CUR' \in Slots \ {Idle} /\ state'[CUR'] = "Run"
           /\ \A t \in Slots : state'[t] = "Run" => t \in {CUR', Idle}
           /\ state'[Idle] = "Run" /\ state'[1] \in {"Run", "Ready"}
           /\ \A t \in Slots : state'[t] = "Block" /\ wake_tick'[t] = 0
                                   => queue[t] = <<>>
           /\ CUR' # CUR \/ st[CUR] # "Dead"
                  => \A t \in Slots : state'[t] = "Dead" <=> st[t] = "Dead"
<1>1. PICK n \in Slots :
          /\ Select(st, wk, tick, n)
          /\ IF Stays(st, n) THEN UNCHANGED <<krsp, intr, machine>>
             ELSE Resume(CUR, n, kind, FALSE)
  BY DEF Schedule
<1>2. CUR \in Slots /\ CUR # Idle
  BY DEF IInv, TypeOK, KernelPair
<1>3. krsp \in [Slots -> Kinds] /\ intr \in BOOLEAN /\ machine \in {"up", "lost"}
  BY DEF IInv, TypeOK, Kinds
<1>4. /\ krsp' \in [Slots -> Kinds] /\ intr' \in BOOLEAN
      /\ machine' \in {"up", "lost"}
  <2>1. CASE Stays(st, n)
    BY <1>1, <1>3, <2>1
  <2>2. CASE ~Stays(st, n)
    BY <1>1, <1>3, <2>2, ResumeTypes
  <2>. QED  BY <2>1, <2>2
<1>5. /\ state' \in [Slots -> States] /\ wake_tick' \in [Slots -> Nat]
      /\ CUR' = n /\ state'[n] = "Run"
  BY <1>1, <1>2, SelectFacts
<1>6. /\ CUR' # Idle
      /\ \A t \in Slots : state'[t] = "Run" => t \in {n, Idle}
      /\ state'[Idle] = "Run" /\ state'[1] \in {"Run", "Ready"}
      /\ \A t \in Slots : state'[t] = "Block" /\ wake_tick'[t] = 0
                              => queue[t] = <<>>
      /\ \A t \in Slots : n # CUR \/ t # n
                              => (state'[t] = "Dead" <=> st[t] = "Dead")
  BY <1>1, <1>2, SelectKeeps
<1>7. ASSUME CUR' # CUR \/ st[CUR] # "Dead"
      PROVE  \A t \in Slots : state'[t] = "Dead" <=> st[t] = "Dead"
  BY <1>5, <1>6, <1>7
<1>. QED  BY <1>4, <1>5, <1>6, <1>7

----
(***************************************************************************)
(* Counting the live threads.                                              *)
(***************************************************************************)
LEMMA LiveFacts == IsFiniteSet(LiveSet) /\ Live = Cardinality(LiveSet) /\ Live \in Nat
<1>1. LiveSet \subseteq Slots
  BY DEF LiveSet
<1>. QED  BY <1>1, SlotFacts, FS_Subset, FS_CardinalityType DEF Live, LiveSet

\* The number of live slots when none starts or ends,
LEMMA LiveSame ==
    ASSUME \A t \in Slots : state'[t] = "Dead" <=> state[t] = "Dead"
    PROVE  Live' = Live
<1>1. LiveSet' = LiveSet
  BY DEF LiveSet
<1>. QED  BY <1>1 DEF Live, LiveSet

\* when one ends,
LEMMA LiveLess ==
    ASSUME NEW c \in Slots, state[c] # "Dead",
           \A t \in Slots : state'[t] = "Dead" <=> t = c \/ state[t] = "Dead"
    PROVE  Live' = Live - 1
<1>1. LiveSet' = LiveSet \ {c} /\ c \in LiveSet
  BY DEF LiveSet
<1>2. Cardinality(LiveSet \ {c}) = Cardinality(LiveSet) - 1
  BY <1>1, LiveFacts, FS_RemoveElement
<1>. QED  BY <1>1, <1>2 DEF Live, LiveSet

\* and when one starts.
LEMMA LiveMore ==
    ASSUME NEW i \in Slots, state[i] = "Dead",
           \A t \in Slots : state'[t] = "Dead" <=> t # i /\ state[t] = "Dead"
    PROVE  Live' = Live + 1
<1>1. LiveSet' = LiveSet \cup {i} /\ i \notin LiveSet
  BY DEF LiveSet
<1>2. Cardinality(LiveSet \cup {i}) = Cardinality(LiveSet) + 1
  BY <1>1, LiveFacts, FS_AddElement
<1>. QED  BY <1>1, <1>2 DEF Live, LiveSet

\* The two kernel threads are two,
LEMMA TwoElements == IsFiniteSet({0, 1}) /\ Cardinality({0, 1}) = 2
<1>1. IsFiniteSet({0}) /\ Cardinality({0}) = 1
  BY FS_Singleton
<1>2. {0, 1} = {0} \cup {1}
  OBVIOUS
<1>. QED  BY <1>1, <1>2, FS_AddElement

\* three with another one,
LEMMA ThreeElements ==
    ASSUME NEW c \in Nat, c \notin {0, 1}
    PROVE  IsFiniteSet({0, 1} \cup {c}) /\ Cardinality({0, 1} \cup {c}) = 3
BY TwoElements, FS_AddElement

\* and so are three live slots.
LEMMA LiveThree ==
    ASSUME NEW c \in Nat, c \notin {0, 1}, LiveSet = {0, 1} \cup {c}
    PROVE  Live = 3
<1>1. Cardinality(LiveSet) = Cardinality({0, 1} \cup {c})
  BY Zenon
<1>2. Cardinality({0, 1} \cup {c}) = 3
  BY ThreeElements
<1>. QED  BY <1>1, <1>2, LiveFacts

\* idle, slot 1 and a third slot are alive.
LEMMA LiveAtLeastThree ==
    ASSUME NEW c \in Slots, c \notin {0, 1},
           \A t \in {0, 1, c} : state[t] # "Dead"
    PROVE  Live >= 3
<1>1. {0, 1} \cup {c} \subseteq LiveSet
  BY SlotFacts DEF LiveSet
<1>2. Cardinality({0, 1} \cup {c}) =< Cardinality(LiveSet)
  BY <1>1, LiveFacts, FS_Subset
<1>. QED  BY <1>2, ThreeElements, LiveFacts DEF Slots

----
(***************************************************************************)
(* The inductive invariant.                                                *)
(***************************************************************************)
LEMMA BootFacts ==
    ASSUME NEW b \in Boots
    PROVE  /\ b.usb \in BOOLEAN /\ b.loaded \in BOOLEAN
           /\ FirstThread(b) \in {1, 2}
           /\ KernelSlots(b) = IF b.usb THEN {1, 2} ELSE {1}
           /\ FirstThread(b) = 2 \/ KernelSlots(b) = {1}
           /\ b.usb => FirstThread(b) = 2
           /\ 1 \in KernelSlots(b)
           /\ b.loaded => FirstThread(b) = 2
           /\ Cardinality(KernelSlots(b)) = IF b.usb THEN 2 ELSE 1
<1>1. b \in [usb : BOOLEAN, loaded : BOOLEAN]
  BY ConstantsAssumption
<1>2. 1 .. 2 = {1, 2} /\ 1 .. 1 = {1}
  OBVIOUS
<1>3. Cardinality({1}) = 1 /\ Cardinality({1, 2}) = 2
  <2>1. IsFiniteSet({1}) /\ Cardinality({1}) = 1
    BY FS_Singleton
  <2>2. {1, 2} = {1} \cup {2}
    OBVIOUS
  <2>. QED  BY <2>1, <2>2, FS_AddElement
<1>4. KernelSlots(b) = IF b.usb THEN 1 .. 2 ELSE 1 .. 1
  BY <1>1 DEF KernelSlots
<1>. QED  BY <1>1, <1>2, <1>3, <1>4 DEF FirstThread

\* The scheduler starts in the invariant.
LEMMA IInvInit == Init => IInv
<1>. SUFFICES ASSUME NEW b \in Boots, Init!(b)
              PROVE  IInv
  BY DEF Init
<1>. DEFINE f == FirstThread(b)
            K == KernelSlots(b)
<1>1. f \in Slots /\ f # Idle /\ Idle \in Slots /\ f \in {1, 2}
  BY BootFacts, SlotFacts DEF Idle
<1>2. \A t \in Slots : state[t] = IF t \in {Idle, f} THEN "Run"
                                  ELSE IF t \in K THEN "Ready" ELSE "Dead"
  OBVIOUS
<1>3. \A t \in Slots : user[t] <=> b.loaded /\ t = 2
  BY BootFacts
<1>4. state \in [Slots -> States]
  BY DEF States
<1>5. TypeOK
  <2>1. user \in [Slots -> BOOLEAN]
    BY BootFacts
  <2>2. krsp \in [Slots -> {"fresh", "call", "isr", "stale", "foreign"}]
    OBVIOUS
  <2>3. queue \in [Slots -> Seq(Messages)]
    OBVIOUS
  <2>4. NTHREADS \in Nat
    BY BootFacts
  <2>5. TICK \in 0 .. MaxTick
    BY ConstantsAssumption
  <2>6. wake_tick \in [Slots -> Nat]
    OBVIOUS
  <2>. QED  BY <1>1, <1>4, <2>1, <2>2, <2>3, <2>4, <2>5, <2>6 DEF TypeOK, States
<1>6. OneRunning
  BY <1>1, <1>2 DEF OneRunning
<1>7. KernelPair
  <2>1. state[1] \in {"Run", "Ready"}
    BY <1>2, BootFacts, SlotFacts DEF Idle
  <2>2. ~user[1] /\ ~user[Idle]
    BY <1>3, SlotFacts DEF Idle
  <2>. QED  BY <1>1, <1>2, <2>1, <2>2 DEF KernelPair
<1>8. NoLostWakeup
  BY DEF NoLostWakeup
<1>9. CountOffset
  <2>1. LiveSet = {Idle, f} \cup K
    BY <1>1, <1>2, BootFacts, SlotFacts DEF LiveSet
  <2>2. LiveSet = IF f = 1 THEN {0, 1} ELSE {0, 1} \cup {f}
    BY <1>1, <2>1, BootFacts DEF Idle
  <2>3. CASE f = 1
    <3>1. Live = Cardinality({0, 1})
      BY <2>2, <2>3, LiveFacts, Zenon
    <3>. QED  BY <2>3, <3>1, TwoElements, BootFacts DEF CountOffset
  <2>4. CASE f = 2
    <3>1. LiveSet = {0, 1} \cup {f} /\ f \notin {0, 1} /\ f \in Nat
      BY <2>2, <2>4
    <3>2. Live = 3
      BY <3>1, LiveThree, Zenon
    <3>. QED  BY <2>4, <3>2, BootFacts DEF CountOffset
  <2>. QED  BY <1>1, <2>3, <2>4
<1>. QED  BY <1>5, <1>6, <1>7, <1>8, <1>9 DEF IInv

Counted == NTHREADS' = NTHREADS + (Live' - Live)

\* What every call of schedule() with interrupts off does to the invariant.
LEMMA ScheduleInvariant ==
    ASSUME IInv,
           NEW st \in [Slots -> States], NEW wk \in [Slots -> Nat],
           NEW tick \in Nat, NEW kind \in Kinds,
           Schedule(st, wk, tick, kind),
           \A t \in Slots : st[t] = "Run" => t \in {CUR, Idle},
           st[Idle] = "Run", st[1] \in {"Run", "Ready"},
           \A t \in Slots : st[t] = "Block" /\ wk[t] = 0 => queue[t] = <<>>,
           UNCHANGED <<user, queue, boot>>,
           NTHREADS' \in Nat, TICK' \in 0 .. MaxTick, switching' = NoTask
    PROVE  TypeOK' /\ OneRunning' /\ KernelPair' /\ NoLostWakeup'
<1>1. /\ state' \in [Slots -> States] /\ wake_tick' \in [Slots -> Nat]
      /\ krsp' \in [Slots -> Kinds] /\ intr' \in BOOLEAN
      /\ machine' \in {"up", "lost"}
      /\ CUR' \in Slots \ {Idle} /\ state'[CUR'] = "Run"
      /\ \A t \in Slots : state'[t] = "Run" => t \in {CUR', Idle}
      /\ state'[Idle] = "Run" /\ state'[1] \in {"Run", "Ready"}
      /\ \A t \in Slots : state'[t] = "Block" /\ wake_tick'[t] = 0
                              => queue[t] = <<>>
  BY ScheduleKeeps
<1>2. TypeOK'
  BY <1>1 DEF IInv, TypeOK, States, Kinds
<1>3. OneRunning'
  BY <1>1 DEF OneRunning
<1>4. KernelPair'
  BY <1>1 DEF IInv, KernelPair
<1>5. NoLostWakeup'
  BY <1>1 DEF NoLostWakeup
<1>. QED  BY <1>2, <1>3, <1>4, <1>5

\* A user thread always leaves the CPU when its slot is not Run any more.
LEMMA LeavesCpu ==
    ASSUME IInv, user[CUR],
           NEW st \in [Slots -> States], NEW wk \in [Slots -> Nat],
           NEW tick \in Nat, NEW kind,
           Schedule(st, wk, tick, kind), st[1] = state[1]
    PROVE  CUR' # CUR
<1>1. state[1] = "Ready" /\ 1 # CUR /\ CUR \in Slots /\ 1 \in Slots
  BY SlotFacts DEF IInv, TypeOK, KernelPair, OneRunning, Idle
<1>2. PICK n \in Slots : Select(st, wk, tick, n)
  BY DEF Schedule
<1>3. n # CUR
  BY <1>1, <1>2, SelectLeaves
<1>4. CUR' = n
  BY <1>2 DEF Select
<1>. QED  BY <1>3, <1>4

\* The table as the calls find it.
LEMMA TableFacts ==
    ASSUME IInv
    PROVE  /\ state \in [Slots -> States] /\ wake_tick \in [Slots -> Nat]
           /\ CUR \in Slots /\ CUR # Idle /\ state[CUR] = "Run"
           /\ TICK \in Nat /\ NTHREADS \in Nat /\ NoTask \notin Slots
           /\ user \in [Slots -> BOOLEAN] /\ krsp \in [Slots -> Kinds]
           /\ \A t \in Slots : state[t] = "Run" => t \in {CUR, Idle}
           /\ state[Idle] = "Run" /\ state[1] \in {"Run", "Ready"}
           /\ user[CUR] => CUR # 1
           /\ \A t \in Slots : state[t] = "Block" /\ wake_tick[t] = 0
                                   => queue[t] = <<>>
<1>1. NoTask \notin Slots
  BY SlotFacts DEF NoTask, Slots
<1>. QED  BY <1>1 DEF IInv, TypeOK, OneRunning, KernelPair, NoLostWakeup,
                      States, Kinds, Idle

\* IInv follows once the count is known to follow.
LEMMA CountKept ==
    ASSUME IInv, TypeOK' /\ OneRunning' /\ KernelPair' /\ NoLostWakeup',
           Live' \in Int, Counted
    PROVE  IInv'
<1>1. NTHREADS \in Nat
  BY DEF IInv, TypeOK
<1>2. NTHREADS' \in Nat
  BY DEF TypeOK
<1>3. Live \in Nat
  BY LiveFacts
<1>4. NTHREADS' = NTHREADS + (Live' - Live)
  BY DEF Counted
<1>a. PICK now \in Int : now = Live
  BY <1>3
<1>b. PICK then \in Int : then = Live'
  OBVIOUS
<1>c. NTHREADS' = NTHREADS + (then - now)
  BY <1>4, <1>a, <1>b
<1>5. ASSUME NTHREADS = Live PROVE NTHREADS' = Live'
  <2>1. NTHREADS' = now + (then - now)
    BY <1>a, <1>c, <1>5
  <2>2. NTHREADS' = then
    BY ONLY <2>1, now \in Int, then \in Int
  <2>. QED  BY <2>2, <1>b
<1>6. ASSUME NTHREADS = Live - 1 PROVE NTHREADS' = Live' - 1
  <2>1. NTHREADS' = (now - 1) + (then - now)
    BY <1>a, <1>c, <1>6
  <2>2. NTHREADS' = then - 1
    BY ONLY <2>1, now \in Int, then \in Int
  <2>. QED  BY <2>2, <1>b
<1>7. CountOffset
  BY DEF IInv
<1>8. CountOffset'
  BY <1>5, <1>6, <1>7 DEF CountOffset
<1>. QED  BY <1>8 DEF IInv

\* The timer interrupt keeps the invariant.
LEMMA TimerStep == IInv /\ Timer => IInv' /\ Counted
<1>. SUFFICES ASSUME IInv, Timer PROVE IInv' /\ Counted
  OBVIOUS
<1>1. TICK' \in Nat /\ TICK' \in 0 .. MaxTick
  BY ConstantsAssumption DEF Timer, IInv, TypeOK
<1>2. PICK kind \in Kinds : Schedule(state, wake_tick, TICK', kind)
  BY DEF Timer, Kinds
<1>3. TypeOK' /\ OneRunning' /\ KernelPair' /\ NoLostWakeup'
  BY <1>1, <1>2, TableFacts, ScheduleInvariant DEF Timer
<1>4. \A t \in Slots : state'[t] = "Dead" <=> state[t] = "Dead"
  BY <1>1, <1>2, TableFacts, ScheduleKeeps
<1>5. Live' = Live /\ Live \in Nat
  BY <1>4, LiveSame, LiveFacts
<1>6. Counted
  BY <1>5, TableFacts DEF Counted, Timer
<1>. QED  BY <1>3, <1>5, <1>6, CountKept

\* A yield with interrupts off, of a kernel or of a user thread.
LEMMA YieldStep ==
    ASSUME IInv, Schedule(state, wake_tick, TICK, "call"), switching = NoTask,
           UNCHANGED <<user, queue, NTHREADS, TICK, switching, boot>>
    PROVE  IInv' /\ Counted
<1>1. TICK \in Nat /\ TICK' \in 0 .. MaxTick /\ "call" \in Kinds
  BY DEF IInv, TypeOK, Kinds
<1>2. TypeOK' /\ OneRunning' /\ KernelPair' /\ NoLostWakeup'
  BY <1>1, TableFacts, ScheduleInvariant
<1>3. \A t \in Slots : state'[t] = "Dead" <=> state[t] = "Dead"
  BY <1>1, TableFacts, ScheduleKeeps
<1>4. Live' = Live /\ Live \in Nat
  BY <1>3, LiveSame, LiveFacts
<1>5. Counted
  BY <1>4, TableFacts DEF Counted
<1>. QED  BY <1>2, <1>4, <1>5, CountKept

\* A user thread that blocks, with or without a deadline.
LEMMA BlockStep ==
    ASSUME IInv, InUserThread,
           NEW wk \in [Slots -> Nat],
           \A t \in Slots \ {CUR} : wk[t] = wake_tick[t],
           wk[CUR] = 0 => queue[CUR] = <<>>,
           Schedule([state EXCEPT ![CUR] = "Block"], wk, TICK, "call"),
           UNCHANGED <<user, queue, NTHREADS, TICK, switching, boot>>
    PROVE  IInv' /\ Counted /\ CUR' # CUR
<1>. DEFINE st == [state EXCEPT ![CUR] = "Block"]
<1>1. /\ TICK \in Nat /\ TICK' \in 0 .. MaxTick /\ "call" \in Kinds
      /\ user[CUR] /\ switching' = NoTask /\ NTHREADS' \in Nat
  BY DEF IInv, TypeOK, Kinds, InUserThread
<1>2. /\ st \in [Slots -> States] /\ st[CUR] = "Block"
      /\ \A t \in Slots \ {CUR} : st[t] = state[t]
  BY TableFacts DEF States
<1>3. st[Idle] = state[Idle] /\ st[1] = state[1]
  BY <1>1, <1>2, TableFacts, SlotFacts DEF Idle
<1>4. /\ \A t \in Slots : st[t] = "Run" => t \in {CUR, Idle}
      /\ \A t \in Slots : st[t] = "Block" /\ wk[t] = 0 => queue[t] = <<>>
  BY <1>2, TableFacts
<1>5. Schedule(st, wk, TICK, "call") /\ st \in [Slots -> States]
  BY <1>2
<1>a. st[Idle] = "Run" /\ st[1] \in {"Run", "Ready"} /\ st[1] = state[1]
  BY <1>3, TableFacts
<1>b. UNCHANGED <<user, queue, boot>>
  OBVIOUS
<1>. HIDE DEF st
<1>6. TypeOK' /\ OneRunning' /\ KernelPair' /\ NoLostWakeup'
  BY <1>1, <1>a, <1>b, <1>4, <1>5, ScheduleInvariant
<1>7. CUR' # CUR
  BY <1>1, <1>a, <1>5, LeavesCpu
<1>8. \A t \in Slots : state'[t] = "Dead" <=> st[t] = "Dead"
  BY <1>1, <1>a, <1>4, <1>5, <1>7, ScheduleKeeps
<1>9. \A t \in Slots : state'[t] = "Dead" <=> state[t] = "Dead"
  BY <1>2, <1>8, TableFacts
<1>10. Live' = Live /\ Live \in Nat
  BY <1>9, LiveSame, LiveFacts
<1>11. Counted
  BY <1>10, TableFacts DEF Counted
<1>. QED  BY <1>6, <1>7, <1>10, <1>11, CountKept

\* sys_sleep keeps it, and another thread runs.
LEMMA SleepStep ==
    ASSUME IInv, NEW ticks \in SleepTicks, SysSleep(ticks)
    PROVE  IInv' /\ Counted /\ CUR' # CUR
<1>. DEFINE wk == [wake_tick EXCEPT ![CUR] = TICK + ticks]
<1>1. ticks \in Nat \ {0}
  BY ConstantsAssumption
<1>2. /\ wk \in [Slots -> Nat] /\ wk[CUR] # 0
      /\ \A t \in Slots \ {CUR} : wk[t] = wake_tick[t]
  BY <1>1, TableFacts
<1>3. /\ InUserThread
      /\ Schedule([state EXCEPT ![CUR] = "Block"], wk, TICK, "call")
      /\ UNCHANGED <<user, queue, NTHREADS, TICK, switching, boot>>
  BY DEF SysSleep
<1>. HIDE DEF wk
<1>. QED  BY <1>2, <1>3, BlockStep

\* So does waiting for a message,
LEMMA RecvBlockStep ==
    ASSUME IInv, SysIpcRecvBlock
    PROVE  IInv' /\ Counted /\ CUR' # CUR
BY TableFacts, BlockStep DEF SysIpcRecvBlock

\* and the end of a thread.
LEMMA ExitStep ==
    ASSUME IInv, SysExit
    PROVE  IInv' /\ Counted /\ CUR' # CUR
<1>. DEFINE st == [state EXCEPT ![CUR] = "Dead"]
<1>1. /\ TICK \in Nat /\ TICK' \in 0 .. MaxTick /\ "call" \in Kinds
      /\ user[CUR] /\ switching' = NoTask /\ NTHREADS' = NTHREADS - 1
      /\ UNCHANGED <<user, queue, boot>>
  BY DEF IInv, TypeOK, Kinds, InUserThread, SysExit
<1>2. /\ st \in [Slots -> States] /\ st[CUR] = "Dead"
      /\ \A t \in Slots \ {CUR} : st[t] = state[t]
  BY TableFacts DEF States
<1>3. st[Idle] = state[Idle] /\ st[1] = state[1]
  BY <1>1, <1>2, TableFacts, SlotFacts DEF Idle
<1>4. /\ \A t \in Slots : st[t] = "Run" => t \in {CUR, Idle}
      /\ \A t \in Slots : st[t] = "Block" /\ wake_tick[t] = 0
                              => queue[t] = <<>>
  BY <1>2, TableFacts
<1>5. Schedule(st, wake_tick, TICK, "call") /\ st \in [Slots -> States]
  BY <1>2 DEF SysExit
<1>a. /\ st[Idle] = "Run" /\ st[1] \in {"Run", "Ready"} /\ st[1] = state[1]
      /\ wake_tick \in [Slots -> Nat]
  BY <1>3, TableFacts
<1>. HIDE DEF st
<1>6. NTHREADS' \in Nat
  <2>1. Live >= 3 /\ Live \in Nat
    BY <1>1, TableFacts, SlotFacts, LiveAtLeastThree, LiveFacts DEF Idle
  <2>2. NTHREADS = Live \/ NTHREADS = Live - 1
    BY DEF IInv, CountOffset
  <2>. QED  BY <1>1, <2>1, <2>2, TableFacts
<1>7. TypeOK' /\ OneRunning' /\ KernelPair' /\ NoLostWakeup'
  BY <1>1, <1>a, <1>4, <1>6, <1>5, ScheduleInvariant
<1>8. CUR' # CUR
  BY <1>1, <1>a, <1>5, LeavesCpu
<1>9. \A t \in Slots : state'[t] = "Dead" <=> st[t] = "Dead"
  BY <1>1, <1>a, <1>4, <1>5, <1>8, ScheduleKeeps
<1>10. \A t \in Slots : state'[t] = "Dead" <=> t = CUR \/ state[t] = "Dead"
  BY <1>2, <1>9
<1>11. Live' = Live - 1 /\ Live \in Nat
  BY <1>10, TableFacts, LiveLess, LiveFacts
<1>12. Counted
  BY <1>1, <1>11, TableFacts DEF Counted
<1>. QED  BY <1>7, <1>8, <1>11, <1>12, CountKept

\* The first half of a kernel thread's yield keeps it,
LEMMA YieldSelectStep ==
    ASSUME IInv, KernelYieldSelect
    PROVE  IInv' /\ Counted
<1>1. PICK n \in Slots :
          /\ Select(state, wake_tick, TICK, n)
          /\ switching' = IF Stays(state, n) THEN NoTask ELSE CUR
  BY DEF KernelYieldSelect
<1>2. /\ UNCHANGED <<user, krsp, queue, NTHREADS, intr, boot, machine>>
      /\ TICK' \in 0 .. MaxTick
  BY ConstantsAssumption DEF KernelYieldSelect, IInv, TypeOK
<1>3. /\ state' \in [Slots -> States] /\ wake_tick' \in [Slots -> Nat]
      /\ CUR' = n /\ state'[n] = "Run"
  BY <1>1, TableFacts, SelectFacts
<1>4. /\ CUR' # Idle
      /\ \A t \in Slots : state'[t] = "Run" => t \in {n, Idle}
      /\ state'[Idle] = "Run" /\ state'[1] \in {"Run", "Ready"}
      /\ \A t \in Slots : state'[t] = "Block" /\ wake_tick'[t] = 0
                              => queue[t] = <<>>
      /\ \A t \in Slots : n # CUR \/ t # n
                              => (state'[t] = "Dead" <=> state[t] = "Dead")
  <2>1. Select(state, wake_tick, TICK, n)
    BY <1>1
  <2>2. /\ state \in [Slots -> States] /\ wake_tick \in [Slots -> Nat]
        /\ TICK \in Nat /\ CUR \in Slots /\ CUR # Idle
        /\ \A t \in Slots : state[t] = "Run" => t \in {CUR, Idle}
        /\ state[Idle] = "Run" /\ state[1] \in {"Run", "Ready"}
        /\ \A t \in Slots : state[t] = "Block" /\ wake_tick[t] = 0
                                => queue[t] = <<>>
    BY TableFacts
  <2>. HIDE DEF Select
  <2>. QED  BY <2>1, <2>2, SelectKeeps
<1>5. switching' # NoTask => switching' = CUR /\ n # CUR /\ state'[CUR] = "Ready"
  <2>. SUFFICES ASSUME switching' # NoTask
                PROVE  switching' = CUR /\ n # CUR /\ state'[CUR] = "Ready"
    OBVIOUS
  <2>1. switching' = CUR /\ n # CUR
    BY <1>1, TableFacts DEF Stays
  <2>2. CUR \notin Due(state, wake_tick, TICK)
    BY TableFacts DEF Due
  <2>3. \A t \in Slots \ {n} :
            state'[t] = IF t \in Due(state, wake_tick, TICK) THEN "Ready"
                        ELSE IF t = CUR /\ state[t] = "Run" THEN "Ready"
                        ELSE state[t]
    BY <1>1, TableFacts, SelectFacts
  <2>4. state'[CUR] = "Ready"
    BY <2>1, <2>2, <2>3, TableFacts
  <2>. QED  BY <2>1, <2>4
<1>6. switching' \in Slots \cup {NoTask}
  BY <1>5, TableFacts
<1>7. TypeOK'
  BY <1>2, <1>3, <1>6 DEF IInv, TypeOK, States
<1>8. OneRunning'
  BY <1>3, <1>4, <1>5 DEF OneRunning
<1>9. KernelPair'
  BY <1>2, <1>4 DEF IInv, KernelPair
<1>10. NoLostWakeup'
  BY <1>2, <1>4 DEF NoLostWakeup
<1>11. \A t \in Slots : state'[t] = "Dead" <=> state[t] = "Dead"
  BY <1>3, <1>4, TableFacts
<1>12. Live' = Live /\ Live \in Nat
  BY <1>11, LiveSame, LiveFacts
<1>13. Counted
  BY <1>2, <1>12, TableFacts DEF Counted
<1>. QED  BY <1>7, <1>8, <1>9, <1>10, <1>12, <1>13, CountKept

\* and so does the second, which switches.
LEMMA YieldSwitchStep ==
    ASSUME IInv, KernelYieldSwitch
    PROVE  IInv' /\ Counted
<1>1. /\ krsp' \in [Slots -> Kinds] /\ intr' \in BOOLEAN
      /\ machine' \in {"up", "lost"}
  <2>1. Resume(switching, CUR, "call", TRUE)
    BY DEF KernelYieldSwitch
  <2>2. krsp \in [Slots -> Kinds] /\ intr \in BOOLEAN
        /\ machine \in {"up", "lost"} /\ CUR \in Slots /\ "call" \in Kinds
    BY DEF IInv, TypeOK, Kinds
  <2>. QED  BY <2>1, <2>2, ResumeTypes
<1>2. /\ UNCHANGED <<state, wake_tick, user, queue, CUR, NTHREADS, TICK, boot>>
      /\ switching' = NoTask
  BY DEF KernelYieldSwitch
<1>3. TypeOK'
  BY <1>1, <1>2 DEF IInv, TypeOK, Kinds
<1>4. OneRunning' /\ KernelPair' /\ NoLostWakeup'
  BY <1>2 DEF IInv, OneRunning, KernelPair, NoLostWakeup
<1>5. Live' = Live /\ Live \in Nat
  BY <1>2, LiveSame, LiveFacts
<1>6. Counted
  BY <1>2, <1>5, TableFacts DEF Counted
<1>. QED  BY <1>3, <1>4, <1>5, <1>6, CountKept

\* A new user thread in a Dead slot.
LEMMA SpawnStep ==
    ASSUME IInv, NEW i \in Slots, SpawnUser(i), intr' \in BOOLEAN,
           switching = NoTask,
           UNCHANGED <<wake_tick, queue, CUR, TICK, switching, boot, machine>>
    PROVE  IInv' /\ Counted
<1>1. /\ state[i] = "Dead"
      /\ state' = [state EXCEPT ![i] = "Ready"]
      /\ user' = [user EXCEPT ![i] = TRUE]
      /\ krsp' = [krsp EXCEPT ![i] = "fresh"]
      /\ NTHREADS' = NTHREADS + 1
  BY DEF SpawnUser, IsFirstDead
<1>2. /\ i # CUR /\ i # Idle /\ i # 1
      /\ \A t \in Slots : state'[t] = IF t = i THEN "Ready" ELSE state[t]
  BY <1>1, TableFacts
<1>3. ~user'[Idle] /\ ~user'[1]
  BY <1>1, <1>2, SlotFacts, TableFacts DEF IInv, KernelPair, Idle
<1>4. TypeOK'
  BY <1>1 DEF IInv, TypeOK
<1>5. OneRunning'
  BY <1>2, TableFacts DEF OneRunning
<1>6. KernelPair'
  BY <1>2, <1>3, SlotFacts, TableFacts DEF KernelPair, Idle
<1>7. NoLostWakeup'
  BY <1>2, TableFacts DEF NoLostWakeup
<1>8. Live' = Live + 1 /\ Live \in Nat
  BY <1>1, <1>2, LiveMore, LiveFacts
<1>9. Counted
  BY <1>1, <1>8, TableFacts DEF Counted
<1>. QED  BY <1>4, <1>5, <1>6, <1>7, <1>8, <1>9, CountKept

\* A thread that the terminal spawns is one live slot more.
LEMMA TerminalSpawnStep ==
    ASSUME IInv, TerminalSpawn
    PROVE  IInv' /\ Counted
<1>1. /\ intr' \in BOOLEAN /\ switching = NoTask
      /\ UNCHANGED <<wake_tick, queue, CUR, TICK, switching, boot, machine>>
  BY DEF TerminalSpawn, InKernelThread
<1>2. CASE \E i \in Slots : SpawnUser(i)
  BY <1>1, <1>2, SpawnStep
<1>3. CASE UNCHANGED <<state, user, krsp, NTHREADS>>
  <2>1. TypeOK'
    BY <1>1, <1>3 DEF IInv, TypeOK
  <2>2. OneRunning' /\ KernelPair' /\ NoLostWakeup'
    BY <1>1, <1>3 DEF IInv, OneRunning, KernelPair, NoLostWakeup
  <2>3. Live' = Live /\ Live \in Nat
    BY <1>3, LiveSame, LiveFacts
  <2>4. Counted
    BY <1>3, <2>3, TableFacts DEF Counted
  <2>. QED  BY <2>1, <2>2, <2>3, <2>4, CountKept
<1>. QED  BY <1>2, <1>3 DEF TerminalSpawn

\* Sending a message keeps it,
LEMMA SendStep ==
    ASSUME IInv, NEW to \in Dests, NEW tag \in Tags, SysIpcSend(to, tag)
    PROVE  IInv' /\ Counted
<1>. DEFINE m == [from |-> CUR, tag |-> tag]
<1>1. /\ to \in Slots /\ m \in Messages
      /\ queue' = [queue EXCEPT ![to] = Append(queue[to], m)]
      /\ state' = [state EXCEPT ![to] = IF state[to] = "Block" THEN "Ready"
                                        ELSE state[to]]
      /\ UNCHANGED <<wake_tick, user, krsp, CUR, NTHREADS, TICK, intr,
                     switching, boot, machine>>
  BY ConstantsAssumption, TableFacts DEF SysIpcSend, Messages
<1>2. /\ \A t \in Slots : state[t] # "Block" => state'[t] = state[t]
      /\ \A t \in Slots : state'[t] = "Block"
                              => state[t] = "Block" /\ queue'[t] = queue[t]
      /\ \A t \in Slots : state'[t] \in {"Run", "Dead"} <=> state[t] \in {"Run", "Dead"}
  BY <1>1, TableFacts DEF IInv, TypeOK
<1>3. TypeOK'
  <2>1. state' \in [Slots -> States]
    BY <1>1, TableFacts DEF States
  <2>2. queue' \in [Slots -> Seq(Messages)]
    <3>1. queue \in [Slots -> Seq(Messages)]
      BY DEF IInv, TypeOK
    <3>. HIDE DEF m
    <3>2. Append(queue[to], m) \in Seq(Messages)
      BY <1>1, <3>1
    <3>. QED  BY <1>1, <3>1, <3>2
  <2>. QED  BY <1>1, <2>1, <2>2 DEF IInv, TypeOK, States
<1>4. OneRunning'
  BY <1>1, <1>2 DEF IInv, OneRunning, TypeOK
<1>5. KernelPair'
  BY <1>1, <1>2, SlotFacts, TableFacts DEF IInv, KernelPair, Idle
<1>6. NoLostWakeup'
  BY <1>1, <1>2 DEF IInv, NoLostWakeup
<1>7. \A t \in Slots : state'[t] = "Dead" <=> state[t] = "Dead"
  BY <1>2
<1>8. Live' = Live /\ Live \in Nat
  BY <1>7, LiveSame, LiveFacts
<1>9. Counted
  BY <1>1, <1>8, TableFacts DEF Counted
<1>. QED  BY <1>3, <1>4, <1>5, <1>6, <1>8, <1>9, CountKept

\* and so does receiving one.
LEMMA RecvStep ==
    ASSUME IInv, SysIpcRecv
    PROVE  IInv' /\ Counted
<1>1. /\ queue[CUR] # <<>> /\ queue' = [queue EXCEPT ![CUR] = Tail(queue[CUR])]
      /\ UNCHANGED <<state, wake_tick, user, krsp, CUR, NTHREADS, TICK, intr,
                     switching, boot, machine>>
  BY DEF SysIpcRecv
<1>2. TypeOK'
  <2>1. queue' \in [Slots -> Seq(Messages)]
    BY <1>1 DEF IInv, TypeOK
  <2>. QED  BY <1>1, <2>1 DEF IInv, TypeOK
<1>3. OneRunning' /\ KernelPair'
  BY <1>1 DEF IInv, OneRunning, KernelPair
<1>4. NoLostWakeup'
  BY <1>1, TableFacts DEF NoLostWakeup, IInv, TypeOK
<1>5. Live' = Live /\ Live \in Nat
  BY <1>1, LiveSame, LiveFacts
<1>6. Counted
  BY <1>1, <1>5, TableFacts DEF Counted
<1>. QED  BY <1>2, <1>3, <1>4, <1>5, <1>6, CountKept

\* Every step keeps the invariant and its counts.
LEMMA IInvStep == IInv /\ [Next]_vars => IInv' /\ Counted
<1>. SUFFICES ASSUME IInv, [Next]_vars
              PROVE  IInv' /\ Counted
  OBVIOUS
<1>1. CASE Timer
  BY <1>1, TimerStep
<1>2. CASE KernelYield
  BY <1>2, YieldStep DEF KernelYield, InKernelThread
<1>3. CASE KernelYieldSelect
  BY <1>3, YieldSelectStep
<1>4. CASE KernelYieldSwitch
  BY <1>4, YieldSwitchStep
<1>5. CASE TerminalSpawn
  BY <1>5, TerminalSpawnStep
<1>6. CASE SysYield
  BY <1>6, YieldStep DEF SysYield, InUserThread
<1>7. CASE SysExit
  BY <1>7, ExitStep
<1>8. CASE \E ticks \in SleepTicks : SysSleep(ticks)
  BY <1>8, SleepStep
<1>9. CASE SysSpawn
  <2>1. PICK i \in Slots : SpawnUser(i)
    BY <1>9 DEF SysSpawn
  <2>2. /\ intr' \in BOOLEAN /\ switching = NoTask
        /\ UNCHANGED <<wake_tick, queue, CUR, TICK, switching, boot, machine>>
    BY <1>9 DEF SysSpawn, InUserThread
  <2>. QED  BY <2>1, <2>2, SpawnStep
<1>10. CASE \E to \in Dests, tag \in Tags : SysIpcSend(to, tag)
  BY <1>10, SendStep
<1>11. CASE SysIpcRecv
  BY <1>11, RecvStep
<1>12. CASE SysIpcRecvBlock
  BY <1>12, RecvBlockStep
<1>13. CASE UNCHANGED vars
  <2>1. TypeOK' /\ OneRunning' /\ KernelPair' /\ NoLostWakeup'
    BY <1>13 DEF vars, IInv, TypeOK, OneRunning, KernelPair, NoLostWakeup
  <2>2. Live' = Live /\ Live \in Nat
    BY <1>13, LiveSame, LiveFacts DEF vars
  <2>3. Counted
    BY <1>13, <2>2, TableFacts DEF vars, Counted
  <2>. QED  BY <2>1, <2>2, <2>3, CountKept
<1>. QED  BY <1>1, <1>2, <1>3, <1>4, <1>5, <1>6, <1>7, <1>8, <1>9, <1>10,
             <1>11, <1>12, <1>13 DEF Next, KernelStep, Syscall

\* The invariant holds in every state.
THEOREM Inductive == Spec => []IInv
<1>1. IInv /\ [Next]_vars => IInv'
  BY IInvStep
<1>. QED  BY IInvInit, <1>1, PTL DEF Spec

----
(***************************************************************************)
(* What follows.                                                           *)
(***************************************************************************)
\* The table, the counters and the frames keep their types; in particular
\* NTHREADS never falls below zero, whatever exits.
THEOREM TypeCorrect == Spec => []TypeOK
BY Inductive, PTL DEF IInv

\* schedule() keeps exactly one thread Run besides the boot-time idle thread,
\* whichever interleaving of timer, yields and system calls runs it.
THEOREM OneThreadRuns == Spec => []OneRunning
BY Inductive, PTL DEF IInv

\* A thread blocked in sys_ipc_recv never has a message waiting.
THEOREM WakeupsAreNotLost == Spec => []NoLostWakeup
BY Inductive, PTL DEF IInv

\* While a user thread runs, some kernel thread is Ready: the fallback of
\* schedule() to the current thread never puts a blocked or dead one back.
THEOREM AnotherThreadIsReady == Spec => []KernelThreadReady
<1>1. IInv => KernelThreadReady
  <2>. SUFFICES ASSUME IInv, user[CUR]
                PROVE  1 \in Slots /\ ~user[1] /\ state[1] = "Ready"
    BY DEF KernelThreadReady
  <2>. QED  BY SlotFacts, TableFacts DEF IInv, KernelPair, Idle
<1>. QED  BY Inductive, <1>1, PTL

\* A thread that exits, sleeps or blocks leaves the CPU.
THEOREM BlockedThreadsLeave == Spec => GivesUpCpu
<1>. DEFINE Leaving == SysExit \/ SysIpcRecvBlock
                       \/ \E ticks \in SleepTicks : SysSleep(ticks)
<1>1. IInv /\ [Next]_vars => [Leaving => CUR' # CUR]_vars
  BY ExitStep, RecvBlockStep, SleepStep
<1>2. Spec => [][Leaving => CUR' # CUR]_vars
  BY Inductive, <1>1, PTL DEF Spec
<1>. QED  BY <1>2 DEF GivesUpCpu

\* NTHREADS moves with the number of live threads, in every step.
THEOREM ThreadsAreCounted == Spec => CountsThreads
<1>1. IInv /\ [Next]_vars => [NTHREADS' = NTHREADS + (Live' - Live)]_vars
  BY IInvStep DEF Counted
<1>2. Spec => [][NTHREADS' = NTHREADS + (Live' - Live)]_vars
  BY Inductive, <1>1, PTL DEF Spec
<1>. QED  BY <1>2 DEF CountsThreads

\* schedule() wakes only those whose deadline has passed.
LEMMA ScheduleWakes ==
    ASSUME IInv, NEW st \in [Slots -> States], NEW wk \in [Slots -> Nat],
           NEW tick \in Nat, NEW n \in Slots, Select(st, wk, tick, n),
           NEW t \in Slots, t # CUR, st[t] = "Block", state'[t] # "Block"
    PROVE  wk[t] # 0 /\ tick >= wk[t]
<1>1. n # CUR => st[n] = "Ready" \/ n \in Due(st, wk, tick)
  BY TableFacts, SelectFacts
<1>2. \A u \in Slots \ {n} :
          state'[u] = IF u \in Due(st, wk, tick) THEN "Ready"
                      ELSE IF u = CUR /\ st[u] = "Run" THEN "Ready"
                      ELSE st[u]
  BY TableFacts, SelectFacts
<1>3. t \in Due(st, wk, tick)
  BY <1>1, <1>2
<1>. QED  BY <1>3 DEF Due

\* A step that wakes a thread had its time come or a message for it.
LEMMA WakesStep ==
    ASSUME IInv, Next, NEW t \in Slots, state[t] = "Block", state'[t] # "Block"
    PROVE  \/ wake_tick[t] # 0 /\ TICK' >= wake_tick[t]
           \/ Len(queue'[t]) > Len(queue[t])
<1>1. t # CUR /\ TICK \in Nat /\ TICK' \in Nat /\ TICK' >= TICK
  <2>1. TICK' = TICK \/ TICK' = TICK + 1
    BY DEF Next, Timer, KernelStep, Syscall, KernelYield, KernelYieldSelect,
           KernelYieldSwitch, TerminalSpawn, SysYield, SysExit, SysSleep,
           SysSpawn, SysIpcSend, SysIpcRecv, SysIpcRecvBlock
  <2>. QED  BY <2>1, TableFacts
<1>2. ASSUME NEW st \in [Slots -> States], NEW wk \in [Slots -> Nat],
             NEW tick \in Nat, NEW n \in Slots, Select(st, wk, tick, n),
             tick =< TICK', st[t] = state[t], wk[t] = wake_tick[t]
      PROVE  wake_tick[t] # 0 /\ TICK' >= wake_tick[t]
  <2>1. state[t] = "Block" /\ state'[t] # "Block" /\ t # CUR
    BY <1>1
  <2>2. wk[t] # 0 /\ tick >= wk[t]
    BY <1>2, <2>1, ScheduleWakes
  <2>3. wk[t] \in Nat
    BY <1>2
  <2>. QED  BY <1>1, <1>2, <2>2, <2>3
<1>3. CASE Timer
  <2>1. PICK n \in Slots : Select(state, wake_tick, TICK', n)
    BY <1>3 DEF Timer, Schedule
  <2>2. state \in [Slots -> States] /\ wake_tick \in [Slots -> Nat]
    BY TableFacts
  <2>. QED  BY <1>1, <1>2, <2>1, <2>2
<1>4. CASE KernelYield \/ SysYield
  BY <1>1, <1>2, <1>4, TableFacts DEF KernelYield, SysYield, Schedule
<1>5. CASE KernelYieldSelect
  BY <1>1, <1>2, <1>5, TableFacts DEF KernelYieldSelect
<1>6. ASSUME NEW s \in {"Dead", "Block"}, NEW wk \in [Slots -> Nat],
             Schedule([state EXCEPT ![CUR] = s], wk, TICK, "call"),
             wk[t] = wake_tick[t]
      PROVE  wake_tick[t] # 0 /\ TICK' >= wake_tick[t]
  <2>. DEFINE st == [state EXCEPT ![CUR] = s]
  <2>1. st \in [Slots -> States] /\ st[t] = state[t]
    BY <1>1, TableFacts DEF States
  <2>2. PICK n \in Slots : Select(st, wk, TICK, n)
    BY <1>6 DEF Schedule
  <2>. HIDE DEF st
  <2>. QED  BY <1>1, <1>2, <1>6, <2>1, <2>2
<1>7. CASE SysExit
  BY <1>6, <1>7, TableFacts DEF SysExit
<1>8. CASE SysIpcRecvBlock
  BY <1>6, <1>8, TableFacts DEF SysIpcRecvBlock
<1>9. CASE \E ticks \in SleepTicks : SysSleep(ticks)
  <2>1. PICK ticks \in SleepTicks : SysSleep(ticks)
    BY <1>9
  <2>. DEFINE wk == [wake_tick EXCEPT ![CUR] = TICK + ticks]
  <2>2. Schedule([state EXCEPT ![CUR] = "Block"], wk, TICK, "call")
    BY <2>1 DEF SysSleep
  <2>3. wk \in [Slots -> Nat] /\ wk[t] = wake_tick[t]
    BY <1>1, TableFacts, ConstantsAssumption
  <2>. HIDE DEF wk
  <2>. QED  BY <1>6, <2>2, <2>3
<1>10. CASE \E to \in Dests, tag \in Tags : SysIpcSend(to, tag)
  <2>1. PICK to \in Dests, tag \in Tags : SysIpcSend(to, tag)
    BY <1>10
  <2>. DEFINE m == [from |-> CUR, tag |-> tag]
  <2>2. t = to
    BY <2>1, TableFacts DEF SysIpcSend
  <2>3. queue'[t] = Append(queue[t], m) /\ queue[t] \in Seq(Messages)
    BY <2>1, <2>2 DEF SysIpcSend, IInv, TypeOK
  <2>. HIDE DEF m
  <2>4. Len(queue'[t]) = Len(queue[t]) + 1 /\ Len(queue[t]) \in Nat
    BY <2>3
  <2>. QED  BY <2>4
<1>11. CASE SysIpcRecv \/ KernelYieldSwitch
  BY <1>11 DEF SysIpcRecv, KernelYieldSwitch
<1>12. CASE TerminalSpawn \/ SysSpawn
  BY <1>12, TableFacts DEF TerminalSpawn, SysSpawn, SpawnUser, IsFirstDead
<1>. QED  BY <1>3, <1>4, <1>5, <1>7, <1>8, <1>9, <1>10, <1>11, <1>12
          DEF Next, KernelStep, Syscall

\* A blocked thread becomes Ready only for its deadline or for a message.
THEOREM ThreadsWakeForAReason == Spec => WakesForAReason
<1>1. IInv /\ [Next]_vars =>
          [\A t \in Slots : state[t] = "Block" /\ state'[t] # "Block" =>
               \/ wake_tick[t] # 0 /\ TICK' >= wake_tick[t]
               \/ Len(queue'[t]) > Len(queue[t])]_vars
  BY WakesStep
<1>2. Spec => [][\A t \in Slots : state[t] = "Block" /\ state'[t] # "Block" =>
                     \/ wake_tick[t] # 0 /\ TICK' >= wake_tick[t]
                     \/ Len(queue'[t]) > Len(queue[t])]_vars
  BY Inductive, <1>1, PTL DEF Spec
<1>. QED  BY <1>2 DEF WakesForAReason
====
