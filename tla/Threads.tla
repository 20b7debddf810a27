---- MODULE Threads ----
(***************************************************************************)
(* The thread subsystem of the kernel: the thread table and schedule() of  *)
(* src/kernel/src/threading.rs, the timer interrupt of perm.rs, and the    *)
(* system calls of syscall_api.rs and ipc.rs that block, wake, create or   *)
(* end threads.                                                            *)
(*                                                                         *)
(* There is one CPU.  Every interrupt and int 0x80 enters through an       *)
(* interrupt gate, so a handler runs with interrupts off and is one step;  *)
(* only kernel threads that run with RFLAGS.IF set can be interrupted      *)
(* inside the kernel.  The IPC rings are used through the promise that     *)
(* MsgQueue is shown to keep (BoundedFifo).                                *)
(*                                                                         *)
(* Saved contexts.  A kernel thread's krsp points at a frame on its stack. *)
(* What matters about the frame is whether resuming it returns to the      *)
(* thread, and with which interrupt flag:                                  *)
(*   "fresh"    the frame built by init_thread_stack                       *)
(*   "call"     pushed by thread_switch below a call of thread_yield       *)
(*   "isr"      pushed by thread_switch below the timer handler            *)
(*   "stale"    a frame that was resumed already: its memory is in use     *)
(*   "foreign"  a frame that lies on the stack of another thread           *)
(* Resuming one of the last two runs garbage; machine = "lost" then, and   *)
(* nothing more is said about such a machine.                              *)
(***************************************************************************)
EXTENDS Integers, FiniteSets, Sequences

CONSTANTS
    MAX_THREADS,   \* slots of the thread table; 64 in the code
    QueueCap,      \* messages a queue holds: IPC_QUEUE_DEPTH - 1
    Tags,          \* message contents
    Dests,         \* bound: the slots that messages are sent to
    SleepTicks,    \* bound: the arguments of sys_sleep
    MaxTick,       \* bound: where the model stops the tick counter
    Boots,         \* the boots considered: [usb : BOOLEAN, loaded : BOOLEAN]
    MaySpawn       \* whether the policy lets ring 3 call sys_spawn

Slots == 0 .. MAX_THREADS - 1

Idle == 0

NoSlot == MAX_THREADS

NoTask == MAX_THREADS + 1

ASSUME ConstantsAssumption ==
    /\ MAX_THREADS \in Nat
    /\ MAX_THREADS > 3
    /\ QueueCap \in Nat
    /\ Dests \subseteq Slots
    /\ SleepTicks \subseteq Nat \ {0}
    /\ MaxTick \in Nat
    /\ Boots \subseteq [usb : BOOLEAN, loaded : BOOLEAN]
    /\ MaySpawn \in BOOLEAN

Messages == [from : Slots, tag : Tags]

VARIABLES
    state,      \* Thread.state of every slot: Run, Ready, Block or Dead
    wake_tick,  \* Thread.wake_tick; 0 means no deadline
    user,       \* whether Thread.cr3 is a user address space
    krsp,       \* the kind of frame Thread.krsp points at
    queue,      \* IPC_QUEUES: the pending messages, oldest first
    CUR,        \* the current thread
    NTHREADS,   \* the thread counter
    TICK,       \* the timer ticks so far
    intr,       \* RFLAGS.IF of the running code
    switching,  \* the thread that left in schedule() and whose thread_switch
                \* is still to come, or NoTask
    boot,       \* how the machine booted
    machine     \* "up", or "lost" once a stale or foreign frame was resumed

table == <<state, wake_tick, user, krsp, queue>>
vars == <<state, wake_tick, user, krsp, queue, CUR, NTHREADS, TICK,
          intr, switching, boot, machine>>

(***************************************************************************)
(* Boot.  kernel_main spawns idle, the USB thread if a controller was      *)
(* found, and kterminal, with interrupts off.  With a userspace image it   *)
(* writes slot 2 and enters ring 3 (run_userspace_direct); without, it     *)
(* jumps into the last Ready thread (jump_to_scheduler).                   *)
(***************************************************************************)
KernelSlots(b) == 1 .. (IF b.usb THEN 2 ELSE 1)

FirstThread(b) == IF b.loaded THEN 2 ELSE IF b.usb THEN 2 ELSE 1

Init ==
    \E b \in Boots :
        /\ boot = b
        /\ CUR = FirstThread(b)
        /\ state = [t \in Slots |->
                       IF t \in {Idle, FirstThread(b)} THEN "Run"
                       ELSE IF t \in KernelSlots(b) THEN "Ready"
                       ELSE "Dead"]
        /\ user = [t \in Slots |-> b.loaded /\ t = 2]
        /\ krsp = [t \in Slots |->
                       IF t \in ({Idle} \cup KernelSlots(b)) \ {FirstThread(b)}
                       THEN "fresh" ELSE "stale"]
        /\ wake_tick = [t \in Slots |-> 0]
        /\ queue = [t \in Slots |-> <<>>]
        /\ NTHREADS = 1 + Cardinality(KernelSlots(b))
        /\ TICK = 0
        /\ intr = TRUE
        /\ switching = NoTask
        /\ machine = "up"

\* The slot kterminal runs in; run_userspace_direct may have overwritten it.
Terminal == IF ~boot.usb THEN 1 ELSE IF boot.loaded THEN NoSlot ELSE 2

\* Seeded fault: a sleeper is woken one tick early.
Due_Early(st, wk, tick) ==
    {t \in Slots : st[t] = "Block" /\ wk[t] # 0 /\ tick + 1 >= wk[t]}

(***************************************************************************)
(* schedule().  st and wk are the thread table it is called with, tick the *)
(* value of TICK it reads.                                                 *)
(***************************************************************************)
Due(st, wk, tick) ==
    {t \in Slots : st[t] = "Block" /\ wk[t] # 0 /\ tick >= wk[t]}

\* How many slots after CUR the scan looks at t; CUR itself comes last.
Distance(t) == (t + MAX_THREADS - CUR - 1) % MAX_THREADS

\* Seeded fault: the scan does not wrap around.
IsNext_NoWrap(st, n) ==
    LET Ready == {t \in Slots : st[t] = "Ready" /\ t > CUR} IN
    IF Ready = {} THEN n = CUR
    ELSE n \in Ready /\ \A t \in Ready : n =< t

\* n is where the scan for a Ready thread stops.
IsNext(st, n) ==
    LET Ready == {t \in Slots : st[t] = "Ready"} IN
    IF Ready = {} THEN n = CUR
    ELSE n \in Ready /\ \A t \in Ready : Distance(n) =< Distance(t)

\* Seeded fault: the outgoing thread keeps the state Run.
Select_KeepsRun(st, wk, tick, n) ==
    LET due == Due(st, wk, tick)
        woken == [t \in Slots |-> IF t \in due THEN "Ready" ELSE st[t]]
    IN /\ IsNext(woken, n)
       /\ wake_tick' = [t \in Slots |-> IF t \in due THEN 0 ELSE wk[t]]
       /\ state' = [woken EXCEPT ![n] = "Run"]
       /\ CUR' = n

\* The part under SCHED_LOCK: wake the due sleepers, pick n, make it current.
Select(st, wk, tick, n) ==
    LET due == Due(st, wk, tick)
        woken == [t \in Slots |-> IF t \in due THEN "Ready" ELSE st[t]]
    IN /\ IsNext(woken, n)
       /\ wake_tick' = [t \in Slots |-> IF t \in due THEN 0 ELSE wk[t]]
       /\ state' = [t \in Slots |->
                       IF t = n THEN "Run"
                       ELSE IF t = CUR /\ woken[t] = "Run" THEN "Ready"
                       ELSE woken[t]]
       /\ CUR' = n

\* schedule() returns at once when it picks the thread that is running.
Stays(st, n) == n = CUR /\ st[CUR] = "Run"

\* Leaving for n: a user thread is entered from scratch at US_ENTRY and the
\* outgoing context is not saved; a kernel thread is resumed from its frame,
\* the outgoing one saved as a frame of the given kind.  The flag IF follows
\* the caller's unless the frame ends in the iretq of an interrupt.
Resume(from, n, kind, if) ==
    IF user[n]
    THEN /\ intr' = TRUE
         /\ UNCHANGED <<krsp, machine>>
    ELSE /\ krsp' = [t \in Slots |-> IF t = n THEN "stale"
                                     ELSE IF t = from THEN kind
                                     ELSE krsp[t]]
         /\ intr' = (if \/ krsp[n] = "isr")
         /\ machine' = IF krsp[n] \in {"stale", "foreign"} THEN "lost" ELSE "up"

\* schedule() called with interrupts off: the selection and the switch.
Schedule(st, wk, tick, kind) ==
    \E n \in Slots :
        /\ Select(st, wk, tick, n)
        /\ IF Stays(st, n) THEN UNCHANGED <<krsp, intr, machine>>
           ELSE Resume(CUR, n, kind, FALSE)

(***************************************************************************)
(* The timer interrupt.  Between the release of SCHED_LOCK and the         *)
(* thread_switch of a kernel thread's yield, CUR already names the next    *)
(* thread while the code still runs on the stack of the one that leaves:   *)
(* the frame saved into CUR's slot is a foreign one then.                  *)
(***************************************************************************)
Timer ==
    /\ machine = "up"
    /\ intr
    /\ TICK' = IF TICK < MaxTick THEN TICK + 1 ELSE TICK
    /\ Schedule(state, wake_tick, TICK',
                IF switching = NoTask THEN "isr" ELSE "foreign")
    /\ switching' = NoTask
    /\ UNCHANGED <<user, queue, NTHREADS, boot>>

(***************************************************************************)
(* Kernel threads poll their devices and yield, forever.                   *)
(***************************************************************************)
InKernelThread == machine = "up" /\ switching = NoTask /\ ~user[CUR]

\* thread_yield with interrupts off.
KernelYield ==
    /\ InKernelThread
    /\ ~intr
    /\ Schedule(state, wake_tick, TICK, "call")
    /\ UNCHANGED <<user, queue, NTHREADS, TICK, switching, boot>>

\* thread_yield with interrupts on, up to the release of SCHED_LOCK.  A timer
\* interrupt meanwhile finds the lock taken: it counts a tick, no more.
KernelYieldSelect ==
    /\ InKernelThread
    /\ intr
    /\ TICK' \in {TICK, IF TICK < MaxTick THEN TICK + 1 ELSE TICK}
    /\ \E n \in Slots :
           /\ Select(state, wake_tick, TICK, n)
           /\ switching' = IF Stays(state, n) THEN NoTask ELSE CUR
    /\ UNCHANGED <<user, krsp, queue, NTHREADS, intr, boot, machine>>

\* The rest of that thread_yield, when no timer interrupt came in between.
KernelYieldSwitch ==
    /\ machine = "up"
    /\ switching # NoTask
    /\ Resume(switching, CUR, "call", TRUE)
    /\ switching' = NoTask
    /\ UNCHANGED <<state, wake_tick, user, queue, CUR, NTHREADS, TICK, boot>>

\* Seeded fault: a Ready slot is taken for a free one.
IsFirstDead_OrReady(i) ==
    /\ i \in Slots
    /\ state[i] \in {"Dead", "Ready"}
    /\ \A j \in Slots : j < i => state[j] \notin {"Dead", "Ready"}

(***************************************************************************)
(* spawn_user_on_cr3: the first Dead slot; the code keeps the slot's old   *)
(* wake_tick and its old messages.                                         *)
(***************************************************************************)
IsFirstDead(i) ==
    /\ i \in Slots
    /\ state[i] = "Dead"
    /\ \A j \in Slots : j < i => state[j] # "Dead"

SpawnUser(i) ==
    /\ IsFirstDead(i)
    /\ state' = [state EXCEPT ![i] = "Ready"]
    /\ user' = [user EXCEPT ![i] = TRUE]
    /\ krsp' = [krsp EXCEPT ![i] = "fresh"]
    /\ NTHREADS' = NTHREADS + 1

\* The "userspace" command: only when no live thread is named "userspace" (the
\* name every user thread has here, those ring 3 spawns included) and an image
\* was loaded.  spawn_user_on_cr3 leaves interrupts off, slot or no slot.
TerminalSpawn ==
    /\ InKernelThread
    /\ CUR = Terminal
    /\ boot.loaded
    /\ \A t \in Slots : user[t] => state[t] = "Dead"
    /\ \/ \E i \in Slots : SpawnUser(i)
       \/ /\ \A i \in Slots : ~IsFirstDead(i)
          /\ UNCHANGED <<state, user, krsp, NTHREADS>>
    /\ intr' = FALSE
    /\ UNCHANGED <<wake_tick, queue, CUR, TICK, switching, boot, machine>>

(***************************************************************************)
(* System calls of the current user thread.  A call that leaves the table  *)
(* alone (a faulting buffer, a sleep of 0 ticks, a poll, sys_spawn without *)
(* a slot) is a stuttering step.                                           *)
(***************************************************************************)
InUserThread == machine = "up" /\ switching = NoTask /\ user[CUR]

SysYield ==
    /\ InUserThread
    /\ Schedule(state, wake_tick, TICK, "call")
    /\ UNCHANGED <<user, queue, NTHREADS, TICK, switching, boot>>

\* Seeded fault: the exit is not counted.
SysExit_NotCounted ==
    /\ InUserThread
    /\ Schedule([state EXCEPT ![CUR] = "Dead"], wake_tick, TICK, "call")
    /\ UNCHANGED <<user, queue, NTHREADS, TICK, switching, boot>>

SysExit ==
    /\ InUserThread
    /\ NTHREADS' = NTHREADS - 1
    /\ Schedule([state EXCEPT ![CUR] = "Dead"], wake_tick, TICK, "call")
    /\ UNCHANGED <<user, queue, TICK, switching, boot>>

SysSleep(ticks) ==
    /\ InUserThread
    /\ TICK + ticks =< MaxTick
    /\ Schedule([state EXCEPT ![CUR] = "Block"],
                [wake_tick EXCEPT ![CUR] = TICK + ticks], TICK, "call")
    /\ UNCHANGED <<user, queue, NTHREADS, TICK, switching, boot>>

SysSpawn ==
    /\ InUserThread
    /\ MaySpawn
    /\ \E i \in Slots : SpawnUser(i)
    /\ intr' = TRUE  \* spawn_user_on_cr3 does cli, the iretq restores IF
    /\ UNCHANGED <<wake_tick, queue, CUR, TICK, switching, boot, machine>>

\* Seeded fault: the send does not wake the receiver.
SysIpcSend_NoWake(to, tag) ==
    /\ InUserThread
    /\ state[to] # "Dead"
    /\ Len(queue[to]) < QueueCap
    /\ queue' = [queue EXCEPT ![to] = Append(@, [from |-> CUR, tag |-> tag])]
    /\ UNCHANGED <<state, wake_tick, user, krsp, CUR, NTHREADS, TICK, intr,
                   switching, boot, machine>>

\* A Dead receiver and a full queue refuse the message.  Any blocked receiver
\* becomes Ready, whether it waits for a message or sleeps.
SysIpcSend(to, tag) ==
    /\ InUserThread
    /\ state[to] # "Dead"
    /\ Len(queue[to]) < QueueCap
    /\ queue' = [queue EXCEPT ![to] = Append(@, [from |-> CUR, tag |-> tag])]
    /\ state' = [state EXCEPT ![to] = IF @ = "Block" THEN "Ready" ELSE @]
    /\ UNCHANGED <<wake_tick, user, krsp, CUR, NTHREADS, TICK, intr,
                   switching, boot, machine>>

SysIpcRecv ==
    /\ InUserThread
    /\ queue[CUR] # <<>>
    /\ queue' = [queue EXCEPT ![CUR] = Tail(@)]
    /\ UNCHANGED <<state, wake_tick, user, krsp, CUR, NTHREADS, TICK, intr,
                   switching, boot, machine>>

\* A blocking receive of an empty queue.  The loop around thread_yield never
\* goes round: the thread is entered again at US_ENTRY.
SysIpcRecvBlock ==
    /\ InUserThread
    /\ queue[CUR] = <<>>
    /\ Schedule([state EXCEPT ![CUR] = "Block"], wake_tick, TICK, "call")
    /\ UNCHANGED <<user, queue, NTHREADS, TICK, switching, boot>>

Syscall ==
    \/ SysYield
    \/ SysExit
    \/ \E ticks \in SleepTicks : SysSleep(ticks)
    \/ SysSpawn
    \/ \E to \in Dests, tag \in Tags : SysIpcSend(to, tag)
    \/ SysIpcRecv
    \/ SysIpcRecvBlock

KernelStep ==
    \/ KernelYield
    \/ KernelYieldSelect
    \/ KernelYieldSwitch
    \/ TerminalSpawn

Next == Timer \/ KernelStep \/ Syscall

Spec == Init /\ [][Next]_vars

\* The PIT keeps ticking and is served whenever interrupts are on, and a
\* kernel thread keeps calling thread_yield: its loop has no other way to wait.
Fairness == WF_vars(Timer) /\ WF_vars(KernelYield \/ KernelYieldSelect)
            /\ WF_vars(KernelYieldSwitch)

FairSpec == Spec /\ Fairness

----
TypeOK ==
    /\ state \in [Slots -> {"Run", "Ready", "Block", "Dead"}]
    /\ wake_tick \in [Slots -> Nat]
    /\ user \in [Slots -> BOOLEAN]
    /\ krsp \in [Slots -> {"fresh", "call", "isr", "stale", "foreign"}]
    /\ queue \in [Slots -> Seq(Messages)]
    /\ CUR \in Slots
    /\ NTHREADS \in Nat
    /\ TICK \in 0 .. MaxTick
    /\ intr \in BOOLEAN
    /\ switching \in Slots \cup {NoTask}
    /\ boot \in Boots
    /\ machine \in {"up", "lost"}

\* The current thread is the only one marked Run, but for idle, which boot
\* left so; a thread that left in schedule() is Ready until its switch.
OneRunning ==
    /\ state[CUR] = "Run"
    /\ \A t \in Slots : state[t] = "Run" => t \in {CUR, Idle}
    /\ switching # NoTask => switching # CUR /\ state[switching] = "Ready"

\* No lost wakeup: a thread blocked without a deadline, that is in
\* sys_ipc_recv, has nothing to receive.  Sends, sleeps that end early and
\* slots taken over with the old occupant's messages and deadline included.
NoLostWakeup ==
    \A t \in Slots :
        state[t] = "Block" /\ wake_tick[t] = 0 => queue[t] = <<>>

\* While a user thread runs, a kernel thread is Ready: schedule() always has
\* another thread to pick when the current one blocks or exits.
KernelThreadReady ==
    user[CUR] => \E t \in Slots : ~user[t] /\ state[t] = "Ready"

\* A thread that exits, sleeps or blocks in sys_ipc_recv leaves the CPU.
\* schedule() would put a Dead or Block current thread back to Run if its
\* scan found no Ready thread.
GivesUpCpu ==
    [][SysExit \/ SysIpcRecvBlock \/ (\E ticks \in SleepTicks : SysSleep(ticks))
           => CUR' # CUR]_vars

\* A blocked thread gets Ready only because its deadline passed or because a
\* message came in.
WakesForAReason ==
    [][\A t \in Slots : state[t] = "Block" /\ state'[t] # "Block" =>
           \/ wake_tick[t] # 0 /\ TICK' >= wake_tick[t]
           \/ Len(queue'[t]) > Len(queue[t])]_vars

Live == Cardinality({t \in Slots : state[t] # "Dead"})

\* NTHREADS follows the table: spawns and exits are counted once, and no
\* thread comes back to life uncounted.  (run_userspace_direct does not count
\* the thread it makes when slot 2 was free, so the counter starts one short.)
CountsThreads ==
    [][NTHREADS' = NTHREADS + (Live' - Live)]_vars

\* Round robin: every Ready thread gets to run, on a machine that lives.
ReadyRuns ==
    \A t \in Slots :
        state[t] = "Ready" ~> (state[t] = "Run" \/ machine = "lost")

----
(***************************************************************************)
(* What comments of threading.rs say and the code does not do.             *)
(***************************************************************************)
\* "thread_switch() saves/restores callee-saved regs on kstack" (line 10):
\* a Ready kernel thread that is not in the middle of its switch can be
\* resumed from the frame its krsp points at.
ContextSaved ==
    \A t \in Slots :
        state[t] = "Ready" /\ ~user[t] /\ t # switching
            => krsp[t] \in {"fresh", "call", "isr"}

\* "tick at which a sleeping thread wakes up" (line 95): on a machine that
\* lives, a sleeping thread gets Ready again.
SleeperWakes ==
    \A t \in Slots :
        (state[t] = "Block" /\ wake_tick[t] # 0)
            ~> (state[t] # "Block" \/ machine = "lost")
====
