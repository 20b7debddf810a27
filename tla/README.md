# TLA+ models of CosinusOS

CosinusOS is a small x86-64 operating system: a Rust kernel with assembly entry
code, an Ada/C layer for heap integrity and disk access control, a Zig file
system server and an Odin disk driver. This directory holds specifications of its
core, the TLC configurations that check them on small instances and TLAPS proofs
for every value of their constants. Paths below are relative to the repository;
`kernel/` stands for `src/kernel/src/`, `filesystem/` for
`src/userspace/src/filesystem/`.

`PROJECT.json` maps every definition to the lines it models, lists each run with
its properties, a seeded fault for every property that holds, the hazards of the
code and what covers them, and the theorems.

    tlc -workers 2 -config MCThreads.cfg MCThreads.tla     # a run
    tlapm Threads_proofs.tla                               # the proofs of a module

## 1. The system

### How it executes

One CPU. All interrupts and `int 0x80` enter through interrupt gates, so every
handler runs with interrupts off from entry to `iretq`, or to the switch to another
thread. A system call is therefore one step of the models. Two things are not
atomic: kernel threads, which run with interrupts on while they poll devices and
yield, and the gap in `schedule()` between the release of `SCHED_LOCK` and the
stack switch. Threads models both. User threads share one kernel stack for traps
and are always re-entered at `US_ENTRY`: their registers are never saved.

### Components

| Component (source) | State | Operations | Interacts with |
|---|---|---|---|
| Threads, scheduler (`kernel/threading.rs`, `perm.rs`) | `THREADS`, `CUR`, `NTHREADS`, `TICK`, saved stack pointers | boot, `schedule`, `thread_yield`, timer interrupt, `spawn_k`, `spawn_user_on_cr3`, `run_userspace_direct` | called from the timer, system calls and kernel threads; switches address spaces |
| Blocking system calls (`kernel/syscall_api.rs`) | the thread table | yield, exit, sleep, spawn | scheduler, virtual memory |
| IPC (`kernel/ipc.rs`) | one ring of 16 messages per thread | send, recv (blocking or not), poll | wakes threads in the thread table |
| Frames (`kernel/mm/pmm.rs`, `frame.rs`) | bitmap, `HINT`, `FREE_FRAMES`, a counter per frame | alloc, huge alloc, free, `frame_inc`, `frame_dec`, copy for a write | page tables, program memory |
| Virtual memory (`kernel/mm/vmm.rs`) | the tables below K_P4 and every user P4 | `vmap`, `vunmap`, `valid_user`, `virt_to_phys`, `new_user_p4` | takes frames; entry 0 of every P4 is shared, and `boot.asm` names the same tree in entry 256 |
| Loader (`kernel/userspace_loader.rs`, `lib.rs`) | the first user space | load flat or ELF image, report | virtual memory, scheduler |
| Memory calls (`kernel/syscall_api.rs`) | the caller's space | `sys_mem_alloc`, `sys_mem_free` | virtual memory, frames |
| Kernel heap (`kernel/allocator/*`) | buddy bitmap and lists, slab lists, Ada hooks with canaries and a ring of freed pointers | alloc, dealloc, realloc | the Rust allocator; page mapping at boot |
| Areas (`kernel/mm/vma.rs`, `mm/user.rs`, half of `vmm.rs`) | up to 128 areas per process, leaves marked copy-on-write | mmap, munmap, sbrk, faults, fork, exit | frames, reference counters and the shared tree; no caller yet |
| Capability policy (`kernel/root_policy/*`) | masks per ring, flags and a deny list per thread, a circular log | check, grant, revoke, deny | every system call; slots of dead threads |
| Disk gate (`kernel/root_file_system/ada`) | regions, watches, permits, rate window, alert counter, two locks | read, write, install, tick, check for tampering | the installer |
| Installer (`kernel/root_file_system/install.rs`, `ata.rs`) | where it is; the drive's cache and platter | look for the header, copy modules, write the header | gate, drive |
| USB (`kernel/usb`) | table of HID devices, port and transfer records of three drivers | enumerate, poll, hotplug | one kernel thread; controllers; the console |
| Console (`kernel/input.rs`, `kterminal.rs`, `usb/hid.rs`) | ring of 64 characters, line of the terminal, last USB report | keyboard interrupt, USB report, poll, line editing, `sys_read` | interrupts, both kernel threads, processes |
| File system server (`filesystem/*`) | block cache, descriptors, mounted format | open, read, close, stat over a shared ring | disk driver `devspace/src/drivers/drive` |
| Display, debug (`display`, `debug.rs`) | device registers | drawing, output | hardware |

### What is hard about it

* **Switching.** Who owns a saved context, and with which interrupt flag a thread
  comes back, depends on the path that took it off the CPU.
* **Blocking and waking.** A receive that blocks races with sends before, between and
  after; slots are taken over by new threads with the old deadline and messages.
* **Frames.** The same frame is guarded by a bitmap, a search hint, a hand-kept counter
  and a reference counter that saturates.
* **Shared page tables.** The table below P4 entries 0 and 256 belongs to all spaces; flags are
  merged into its upper entries and 2 MB pages are split while they are in use. The kernel reaches
  tables at their physical address, over which it maps stacks and programs map their pages.
* **Locks.** Spinlocks spin with interrupts off, so a lock taken twice stops the machine.
* **Failing devices.** The block cache reuses lines and writes back dirty sectors while
  any transfer may fail; the installer runs over a drive with a cache of its own that may
  lose power between two sectors; USB devices leave in the middle of their enumeration.
* **An unlocked ring.** Typed characters pass from interrupts and the USB thread to the
  terminal and to processes without a lock.
* **State kept twice.** Masks of the policy, deny lists in arrays, flags and booleans derived
  from them, alert counters and locks, area records and page tables have to agree.

### What makes each component correct

* Threads: one current thread; what is Ready gets to run; what blocks leaves the CPU and
  comes back for a reason and only then; contexts are resumed once, by their owner.
* IPC: a bounded FIFO; a receiver does not sleep while a message is there for it.
* Frames: never granted twice, never freed under a holder, leaked only when pinned; a
  search misses no free frame; counters agree with the bitmap.
* Virtual memory: a mapping changes nobody else's pages; user access exactly where a
  program was given pages; a frame has one use. All as long as tables are found where they are.
* Block cache: the cache is the disk, only faster, also when transfers fail.
* Policy: a call is refused exactly when ring, thread or a revocation says so now.
* Heap: free blocks are disjoint and known to list and bitmap alike; no two allocations overlap.
* Areas: areas are disjoint and agree with the tables; a fork gives a memory of its own.
* Installer: the disk holds nothing or one complete system, for good; the boot goes on.
* Disk gate: the rate limit holds in every window; alerts lock; a lock is final.
* USB: table, drivers and ports agree; a device that is gone is forgotten.
* Console: a character is lost only at a full ring, is read once and in order, and is read.

## 2. The modules

| Module | Models | Role |
|---|---|---|
| `Threads` | `threading.rs`, the timer of `perm.rs`, the blocking calls of `syscall_api.rs` and `ipc.rs` | composes scheduler, timer, IPC and system calls |
| `MsgQueue` / `BoundedFifo` | the ring of `ipc.rs` / what a message channel promises | refinement |
| `Pmm` / `FramePool` | `pmm.rs` and `frame.rs` / what the frame allocator promises | refinement |
| `AddressSpaces` | `vmm.rs` with its users in `lib.rs`, the loader, `threading.rs` and the memory calls | composes page tables, frames and programs |
| `BlockCache` / `SectorStore` | `cache.zig` with `io.zig` above and `block.zig` below / an array of sectors | refinement |
| `RootPolicy` / `PolicyMonitor` | `root_policy/*` / what the gate is to refuse and to remember | refinement |
| `KernelHeap` | `buddy.rs`, `slab.rs`, `kernel_heap.rs` and the Ada hooks | composes buddy, slab and integrity checks |
| `Install` / `AtomicInstall` | `install.rs` over `ata.rs` and a drive / an installation that happens at once | refinement, crashes |
| `DiskGate` | `glue.c`, `disksecurity.adb`, `changemonitor.adb`, permits of `diskauth.adb` | composes the three packages |
| `Usb` | `usb/mod.rs`, `hid.rs`, `xhci.rs`, `ehci.rs` (EHCI and OHCI) | composes table, drivers and polling thread |
| `UserMemory` / `PrivateMemory` | `vma.rs`, `user.rs`, fork, exit and faults of `vmm.rs`, `frame.rs` / a memory per process | refinement |
| `Console` / `TypedInput` | `input.rs`, `kterminal.rs`, keyboard of `hid.rs`, `sys_read` / a bounded buffer of keystrokes | refinement |
| `MC…` | | instances for TLC |
| `…_proofs` | | theorems and proofs; `Allocators_proofs` has those of `Pmm` and `KernelHeap`, `Gates_proofs` those of `Install`, `DiskGate` and `RootPolicy`, `Rings_proofs` those of `MsgQueue` and `Console` |

`Threads` uses the rings by the promise of `BoundedFifo` (sequences with a capacity);
`MsgQueue` shows that the ring keeps it. `AddressSpaces` uses the allocator by the fact
that it hands out the lowest free frame, which `HintSound` of `Pmm` shows; `UserMemory` leaves
open which frame it gets. `Install` leaves the gate's answer open, which `DiskGate` models.
`Console` takes from `Threads` which machines run kernel threads with interrupts on, and that
Ready threads get their turn.

### Threads

`state`, `wake_tick`, `user`, `krsp` are fields of the thread table; `user` abstracts
`cr3` and `krsp` the saved stack pointer to the kind of frame it names: `fresh`, `call`,
`isr`, or one that may not be resumed, `stale` (resumed before) and `foreign` (on the
stack of another thread). Resuming one of these sets `machine = "lost"` and the behaviour
ends: nothing is claimed about a machine that runs garbage. `intr` is RFLAGS.IF of the
running code. `switching` names the thread that has left under the lock and whose
`thread_switch` is still to come.

`Select` is the part of `schedule()` under the lock: it wakes due sleepers, scans for
the next Ready slot, and changes states and CUR. `Resume` is the rest: a user thread is
entered from scratch with no context saved; a kernel thread is resumed from its frame.
`Timer`, `KernelYield`, the system calls and `TerminalSpawn` call both in one step. Where
a kernel thread yields with interrupts on, they are two steps (`KernelYieldSelect`,
`KernelYieldSwitch`) and a timer interrupt may come between. System calls that change
nothing (bad buffer, empty poll, sleep of zero ticks) are stuttering steps.

### MsgQueue

The variables are the fields of the ring plus what the caller sees: the buffer `out`, the
result and the count of the last poll. `Push`, `Pop` and `Poll` are `sys_ipc_send` and
`k_send`, `sys_ipc_recv` and `sys_ipc_poll` under the queue's lock.

### Pmm

`used` is FRAME_BM, one Boolean per bit; `IsPick` says which frame the two passes of
`mm_alloc_nolock` find. `holders` is not in the code: it counts who holds a frame under
the protocol the comments of `frame.rs` describe. Callers keep that protocol: a holder
shares with `frame_inc`, leaves with `frame_dec`, and frees an unshared frame directly.
`FramePool` states the promise over holders alone: granted, joined, left, copied, pinned.

### AddressSpaces

Tables are functions from places: a place is a page in the shared tree below P4 entry 0
(`Shared`) or in a tree of one space. Entry 256 names the shared tree a second time: `Place`
takes pages from `AliasBase` on to the same places. P3 and P2 are folded into one level of
directories, whose entries are absent, a 2 MB block, or the frame of a table. `MapFresh` is a
run of `vmap` calls with all that `goc` does on the way: tables allocated in between,
blocks split with their translation inherited, `PTE_U` merged upwards. Boot runs
through the stages heap, threads, load, run; then programs spawn, allocate and free.
`granted` and `handed` are ledgers of what programs were given.

`pt_ptr` and `zpg` use the number of a frame as an address, and stacks and program pages are mapped
over that range. `Direct(f)` says that address f still leads to frame f. A mapping has the effect
of `MapFresh` only if the P4, the tables walked and the pages filled are `Found` there; otherwise,
and from the first stack on at any time (`Astray`), an access may reach another frame, `stage`
becomes `wild` and the behaviour ends. `virt_to_phys` and `valid_user` are sets of possible answers,
with one element where the walk reaches its tables. `Spared` lets a page that is mapped over the
kernel's image end the same way.

### BlockCache

Lines have `tag` (lba), `valid`, `dirty`, `data`; `lru` is the doubly linked list as the
code stores it, with -1 for INVALID_IDX. `Fetch` is what `readBlock` and `getWritable`
share: a hit moves the line to the front, a miss writes the last line back if dirty and
reads the sector into it. `EvictFails`, `ReadFails` and `NoVictim` are the ways it goes
wrong. The last is an access to line 0xFFFF when every line has left the list. The build
is ReleaseSmall, without bounds checks, so the model ends there until the server restarts
(`AutoMount`). `content` and `order` are ledgers: what was last written, and which line
was used when.

### RootPolicy

`check_syscall` is the gate of `syscall_dispatch_v2` with its four checks in their order
(`Refusal`); the gates of resources (`check_io_access` and the like) read the booleans that
`RingCaps::new` derives from flags. `CAP_TABLE[t].deny` is the array of `thread_cap.rs` with its
count: `add_deny` appends, `remove_deny` puts the last number in the place of the first match,
`revoke_all` fills the array. `entries`, `head` and `total` are the circular log, `Recent` what
`dump_recent` prints. `served` is the last request and its answer. `PolicyMonitor` has a set of
denied numbers per thread, a set of powers per ring, and a sequence of refusals, latest first.

### KernelHeap

Sizes count slots of one slab class, blocks count pages. `inner` is `HeapInner`: the free lists
per order as sequences in the order of the links, the bitmap, the byte count, and the slab list
with its `tail`, which becomes `wild` once `pop` has taken its next head from address 0.
`AllocOrder`, `Coalesced`, `Pop` and `Push` are the functions of `buddy.rs` and `slab.rs`;
`DoAlloc` and `DoDealloc` add bounds check, canary, ring of freed pointers and audit total, and
`realloc` is built from the two as in `kernel_heap.rs`. `Fill` is a holder that uses all it was
given. `machine` ends the behaviour where a check halts it (`halted`), where the wild link is
followed (`faulted`), or where a block is unlinked from a list it is not on (`corrupt`, which
`BuddySound` excludes).

### Install

`pc` walks through one sector's life in `write_sector`: `open`, `send`, `settle`, `flush`, with
the retries after a reset (`Retry`), over the segments and at last the header. `cache` and
`media` are the drive, external: it accepts sectors into a volatile cache, writes them back in
any order, fails any poll (`Answers`), and loses its cache with the power. `PowerCut` and
`WarmReset` come between any two steps, and each `PowerOn` may bring another list of modules.
`OnDisk` is what a boot from the platter finds: the sectors the header names, whatever they hold.

### DiskGate

One action per entry of `glue.c`. `Check_Access` looks up the region of the first sector only and
verifies the descriptor; `Record_Write` counts the write in the window, scans the watches, and
counts the alert. `grants` and `serious` are histories: the ticks of the writes let through, and
alerts of the two kinds that may lock. The checksum of a region's descriptor covers the field it
is stored in (`Skipped` against `ChecksumField`), so `Verify_Descriptor` never holds; the writes
that are let through in the model lie outside the regions.

### Usb

Three drivers share the table of `hid.rs`; `up` says which controller was chosen. `attached`,
`changed`, `companion`, `enabled`, `slot_port` and `linked` belong to the hardware: what is
plugged in, the change bits, the ports handed to a companion, the ports reset, which port a slot of
the xHCI was given to, and the endpoint on the EHCI's periodic list. An enumeration is two steps (`Probe` and
`HotplugProbe`) with the world between them, so that a device can leave in the middle. `xfer` is
the state of each IN transfer. `usb_poll` is one pass over all transfers with the look at the
clock at its end; `HotplugPort` is one port of the loop that follows. `image` says whether the machine
has a process. There the clock may stop for good while kernel threads poll, so nothing is
assumed of its thread and clock.

### UserMemory

`areas[p]` is the sorted array of `vma.rs` as a sequence; `pte` the leaves. `Place` says in whose
table, and where in it, the walk of a process finds a page:

| P4 entry | Pages | Table |
|---|---|---|
| 0 | `KernelPages`, the first of them the identity map (2 MB pages of the kernel's) | one for all processes |
| the last below 256 | `StackPages` | made by the first mapping, shared with clones (`stack_entry`) |
| 256 | `AliasPages`, in the order of those of entry 0 | that of entry 0; for a clone (`cloned`) a copy of its parent's |
| 257 and up | `OwnPages` | the process's own |

`DemandFault`, `CowFault` and `BlockFault` are `handle_page_fault`; `Fork` is `clone_user_p4` with the
copy of the areas that `user.rs` leaves to the caller. It walks entry 256 with the others: user leaves
of the shared tree become copy-on-write for everybody and get a reference (`CowEntries`), and every frame
behind a 2 MB page gets one, which no leaf gives back (`CountClone`; `clones` keeps these apart). `Exit`
is `free_user_p4`, which walks entry 256 as well and never comes to an end: it waits for a lock it holds at
the first frame of the identity map with a counter of 1, and without one frees the tree of all
processes. Calls that take pages of the identity map for tables, or map over the pages at which the
kernel reaches its frames (`Overmap`), end as `wild`. Random offsets (`aslr_offset`) are free choices.
`PrivateMemory` speaks of the own pages alone: what a process reads there changes by its own stores
and calls only. A process never leaves it, as none does.

### Console

A character carries the number of its keystroke. `UsbCheck`, `UsbWrite` and `UsbHead` are the
accesses of `kb_push` that an interrupt can separate; `TerminalPoll` and `TerminalTakes` those of
`input_poll`; `kbd_irq` is one step, as interrupts do not nest. On a machine with a process
kernel threads run with interrupts off from their dispatch to their yield, and interrupts come
in ring 3: `Interruptible` keeps the others out meanwhile. `TypedInput` is a bounded sequence of
keystrokes with one line edited at its end.

## 3. The runs

Runs that hold:

| Run | States | What it shows |
|---|---|---|
| `threads` | 54,661 | one thread runs; no lost wakeup; another thread is Ready whenever a user thread runs; who blocks or exits leaves the CPU; who wakes has a reason; NTHREADS follows the table; every Ready thread runs (liveness) |
| `msg_queue` | 8,552 | the ring implements a FIFO of IPC_QUEUE_DEPTH - 1 messages |
| `pmm` | 183,180 | hint, counter and reference counters agree with the bitmap and together implement the frame pool |
| `address_spaces` | 29,737 | system calls accept only pages programs were given, and all of them; a frame has one use; a mapping touches only its own pages; all up to the first access that may go astray |
| `block_cache` | 270,834 | the list is the recency order; lines and disk are coherent; the cache implements an array of the sectors that can be read |
| `policy` | 146,956 | the two copies of the masks agree; gate and log implement the monitor |
| `heap` | 420,517 | lists, bitmap and count of the buddy allocator agree; live allocations are apart; the audit's total follows them |
| `install` | 35,321 | the platter holds nothing or one complete system, for good; "complete" survives a power cut; the boot goes on (liveness) |
| `disk_gate` | 747,721 | the rate limit holds in every window; alerts lock; locks are final |
| `usb` | 1,210,148 | table, ports and periodic list agree; no ghost without a pending change; an unplugged device is forgotten on machines without a process (liveness) |
| `user_memory` | 672,590 | areas are disjoint while the heap has one of its own, and agree with the tables; counters cover leaves, forks over the shared tree included; fork and copy-on-write give each process its own memory |
| `console` | 722,295 | the ring implements a bounded buffer of keystrokes; what is kept is read (liveness) |

Every property has a seeded fault (definitions marked "Seeded fault" in the modules, paired in
`PROJECT.json`): put in place of the definition it is a fault of, it makes that property fail.

### Known disagreements

Where the code does not do what a comment says, a property states the comment and an instance
of its own shows the shortest trace. These instances are kept for whoever changes the code and are
not among the runs above: TLC is to find each of them violated.

| Instance (module, property) | Comment | What happens |
|---|---|---|
| `MCThreadsContext.cfg` (`MCThreads`, `ContextSaved`) | `threading.rs:10` | a switch to a user thread saves nothing; the kernel thread is later resumed from a frame it has overwritten |
| the same with `Boots <- KernelBoots` | `threading.rs:10` | a timer interrupt in the gap of `schedule()` stores one thread's stack pointer in another one's slot |
| `MCThreadsSleep.cfg` (`MCThreads`, `SleeperWakes`) | `threading.rs:95` | the last kernel thread is dispatched from a system call, runs with interrupts off and polls for ever; no tick comes, so the sleeper is never due |
| `MCAddressSpacesClaims.cfg` (`MCAddressSpaces`, `KernelHeapKept`) | `vmm.rs:310` | `sys_mem_alloc` without a hint maps its pages over the kernel heap (all three claims of this file are found to fail with `tlc -continue`) |
| the same (`FreeReturns`) | `frame.rs:55` | `vunmap` holds MM_LOCK while `frame_dec` waits for it |
| the same (`ChecksReachTables`) | `vmm.rs:18` | a stack lies over a table that `valid_user` walks, and it reads the stack |
| `MCUserMemoryFull.cfg` (`MCUserMemory`, `NoPageTwice`) | `vma.rs:358` | with all areas taken, `sbrk` ignores that `add_vma` adds none for the heap; a later `mmap` gets the heap's pages, and the next `sbrk` stretches the area it finds at the heap's start over those behind |
| `MCBlockCacheSector.cfg` (`MCBlockCache`, `ReadsReturnSector`) | `cache.zig:119` | the second read of a sector whose first read failed is a hit on a line with other bytes |
| `MCUsbSlot.cfg` (`MCUsb`, `SlotServesItsPort`) | `xhci.rs:546` | a disconnect frees the first slot in use, whatever port it serves |
| `MCConsoleTwo.cfg` (`MCConsole`, `ImplementsTypedInput`) | none | with both keyboards on a machine without a process, the interrupt pushes inside the USB thread's push and a character is overwritten |

Others were met while modelling and need no model: the scan of `schedule()` never reads `prio`
(`threading.rs:7` against 287); `build.zig:45` makes the boot menu pass `userspace.bin` where
`install.rs:20` puts the kernel; a region's checksum covers itself, so every gated access to a
region ends in `ERR_TAMPER` (`disksecurity.adb:87`), and as `security_init`, the tick and the check
for tampering have no caller, the gate refuses every write; the SETUP constants of the USB
drivers have `bRequest` in the wrong byte; `vmm.rs:321` calls entries 256 to 511 the user half, but
user areas lie below 256, which `clone_user_p4` shares, and 256 itself is the kernel's tree
(`boot.asm:50`); so `free_user_p4` frees the identity map, and hangs at its first frame (`vmm.rs:430`),
and a fork makes the kernel's 2 MB pages copy-on-write, whose copy hangs (`vmm.rs:487`); usage 8 of a USB keyboard,
which erases under Ctrl, is the key e, though `hid.rs:240` calls it Ctrl+H.

### Bounds, and why they are enough

* **threads**: 4 slots (idle, one or two kernel threads, one or two user threads), all four
  boots (USB controller or not, image or not), rings of 2 messages of one kind, sent to
  slots 2 and 3, sleeps of 1 and 2 ticks, `MaxTick` = 3. Slots get reused after an exit,
  two user threads talk to each other and to themselves, a ring fills up, a sleep
  is cut short by a message and its deadline stays behind. `MaxTick` stops the counter,
  not the timer: interrupts keep coming. `MaySpawn = TRUE` lets ring 3 spawn, which the
  policy of the repository denies (`root_policy`, ring 3 lacks SPAWN); it gives the table
  more histories than the default policy.
* **msg_queue**: depth 4, three messages: head and tail wrap around, with the ring full
  and empty at every position.
* **pmm**: 6 frames, words of 2, huge pages of 2, counters pinned at 3, up to 4 holders:
  several words and blocks, one unaligned to the reserved frame, exhaustion, and one
  holder beyond the pin.
* **address_spaces**: tables of two pages, so every table has a neighbour; 22 frames, which
  run out; the heap next to the pool as in the code; one spawn slot used twice, so a stack is mapped
  over an old one. Kernel stacks lie over one of the heap's tables and over frames of its
  pages, the spawned program's stack over the table of the first one's. Hints:
  a page of the kernel, a kernel stack, the heap, a table of the program's
  own, and a page of the pool by its second name.
* **block_cache**: 3 lines, so a line can be first, in the middle or last; 4 sectors, so one
  is always missing; one sector with read errors, one with write errors; sectors of two
  parts, so that a partial write must keep the other part.
* **policy**: one user thread and its ring, numbers that the mask forbids, allows and does not
  cover; a deny list and a log of two entries, which overflow and wrap around; `total`
  saturates. No check or grant for one slot reads another one, so one thread is enough.
* **heap**: five pages, so that the largest block does not cover the heap and a buddy may lie past
  its end; requests of a slot, a page, three pages (rounded to four) and a slot aligned to two
  pages; three allocations alive; a ring of one freed pointer.
* **install**: two slots of two sectors; five module lists (full, shorter, an empty module that
  shifts the ones behind it, one too large for its place, none); three boots, so that an
  interrupted installation is repeated with other modules and looked at again.
* **disk_gate**: one core region, a strict watch and one more; a window of two ticks, one write
  per window, two alerts lock; `MaxAlerts` lets the counter pass the threshold.
* **usb**: two ports; a table of one entry, which overflows, and of two; all three controllers;
  a look at the ports at every second tick; machines with a process and without. The tick is counted up to the
  interval only.
* **user_memory**: two processes, the second started or forked; four frames (two pages of the
  parent's own, and a copy of each), of which a fork finds all or none behind 2 MB pages; an identity
  map of four pages, the kernel reaching its frames at one of them; hints in it, under entry 256 and
  in the own pages, heap and stack besides. Three calls map or unmap before the behaviour goes on with
  faults, stores and forks alone. `InOnePart` keeps ranges from crossing `USER_STACK_TOP`, behind which
  addresses are not canonical, and from crossing from entry 256 to the next.
* **console**: a ring of two characters, full and empty at every position; four characters from
  two keys, e and Enter, with and without Ctrl: Ctrl+E is the backspace of a USB keyboard and a character
  that edits nothing on a PS/2 one; the other line end comes on the serial line; a line of two.

### Fairness

In `threads`: weak fairness of `Timer`: the PIT ticks for ever and is
served whenever interrupts are on. Weak fairness of a kernel thread's yield: the loops of
the USB thread and kterminal have no other way to wait (idle stays marked Run by boot and
is never picked by the scan, so it never executes its `hlt`). Weak fairness of `KernelYieldSwitch`: once
`schedule()` has released its lock it goes on. No fairness is assumed of user threads:
the timer takes the CPU from them. `MCThreadsSleep.cfg` is a counterexample under all of this.

In `install`: weak fairness of `Boot`, the processor that goes on while it has power; a power cut
ends the claim as well as any outcome does. In `usb`: weak fairness of the thread and of the tick; in
`console`: of the terminal and of the USB thread. Both on machines without a process only, which is
what `ReadyRuns` shows of `Threads`; with one the kernel threads run with interrupts off, may wait for a tick
that never comes (`MCThreadsSleep.cfg`) or never come back, and nothing is claimed there. On a
machine without a process, too, the two promises end with a machine that is lost in the gap of `schedule()`.

`ReadyRuns` promises nothing for a lost machine, and with an image loaded a machine is
usually lost within a few ticks (`MCThreadsContext.cfg`), so the property says most about boots
without an image. `CHECK_DEADLOCK FALSE` stands where the system may stop: a lost
machine, a kernel panic, a call that hangs, a bound that is reached.

## 4. What is proved

For all values of the constants that meet the named assumptions:

| Theorem (module) | Statement |
|---|---|
| `TypeCorrect` (Threads, MsgQueue, Pmm, AddressSpaces, BlockCache) | `Spec => []TypeOK` |
| `OneThreadRuns`, `WakeupsAreNotLost`, `AnotherThreadIsReady` (Threads) | `OneRunning`, `NoLostWakeup`, `KernelThreadReady` |
| `BlockedThreadsLeave`, `ThreadsAreCounted`, `ThreadsWakeForAReason` (Threads) | the action properties of the run `threads` |
| `OnlySentReceived`, `RingImplementsFifo` (MsgQueue) | `PendingWritten`; refinement of `BoundedFifo` |
| `HintIsSound`, `CounterAgrees`, `HeldFramesAreSafe`, `PmmImplementsPool` (Pmm) | the invariants; refinement of `FramePool` |
| `BuddyStaysSound`, `HeldStayApart`, `AuditStaysExact` (KernelHeap) | `BuddySound`; `HeldApart`, if no request is larger than the largest block; `LiveTotalAgrees` |
| `OnlyUserPagesSeen`, `GrantsStayUsable`, `FramesHaveOneUse`, `MappingsTouchOnlyTheirPages` (AddressSpaces) | `UserSeesOnlyUserPages`, `GrantedStaysUsable`, `OneUseOfAFrame`; the action property `TouchesOnlyItsPages` |
| `ListKeepsRecency`, `StaysCoherent`, `OnlyBadSectorsMislead`, `CacheImplementsStore` (BlockCache) | `ListIsRecency`; `Coherent`; reads are right unless the sector is bad; refinement of `SectorStore` |
| `CompletionIsDurable`, `InstallIsAtomic` (Install) | `CompleteIsDurable`; refinement of `AtomicInstall` under crashes |
| `WritesAreRateLimited`, `AlertsDoLock`, `LocksAreFinal` (DiskGate) | `BurstBounded`, `AlertsLock`, `LockIsFinal` |
| `FourthCheckNeverRefuses`, `GateImplementsMonitor` (RootPolicy) | `FourthCheckIdle`; refinement of `PolicyMonitor` |
| `GhostsAreNoticed`, `PeriodicListIsLive`, `TableAgrees` (Usb) | `NoGhost`, `ListIsLive`, `EntriesHaveOwners` |
| `TypesHold`, `AreasStayApart`, `RefsMatchLeaves`, `AreasKnowPages` (UserMemory) | `TypeOK`, `AreasDisjoint`, `RefsCountLeaves`, `AreasCountPages` |
| `MemoryIsPrivate` (UserMemory) | refinement of `PrivateMemory`: fork and copy-on-write |
| `NothingReadIsStale`, `KeysReachOneReader` (Console) | `ConsoleInv`; refinement of `TypedInput`, on machines with one writer of the ring |

The assumptions are on constants only: sizes are positive (`DepthAssumption`, `PmmAssumption`,
`CacheAssumption`, `ConstantsAssumption`: more than three slots, as boot fills up to three), `NoMsg`
is no message, names of spaces are distinct (`NamesAssumption`), the pool, the heap and the
stacks lie where the memory map puts them and the second name of the shared tree behind all others
(`LayoutAssumption`; hints may be any pages), segments of the disk lie apart (`LayoutAssumption` of Install), a threshold is positive
(`GateAssumption`), an index of the USB table is a byte below 0xFF (`UsbAssumption`), deny list and
log have room and `total` saturates behind the log's size (`PolicyAssumption`), and the parts of
an address space follow each other as in `vma.rs`: the identity map with the frames in it below the stack,
old allocations below it, the pages of entry 256 as many as those of entry 0, own pages behind, with room for at
least the two areas of the stack (`UserMemoryAssumption`), and ring, line and what is typed are bounded
(`ConsoleAssumption`), sizes and limits of the heap are positive (`HeapAssumption`). `PowersOfTwo` says of `^`, which the provers do not
interpret, that it doubles; it holds by arithmetic. The theorems about Console have a hypothesis besides, `OneWriterEach`: of the machines
considered, those without a process have one kind of keyboard. It is needed, as `MCConsoleTwo.cfg` shows, and the
machines of the run `console` meet it. `HeldStayApart` has the hypothesis `RequestsFit`: no request
is larger than the largest block. It is needed, because above that size `size_to_order` stops and
`alloc` hands out the largest block all the same (`buddy.rs:97`), whose end then lies in a neighbour; the requests of
the run `heap` meet it, and the two other theorems of the heap do without it. One says of a definition what induction over data would be needed for:
`CollectAssumption`, that the modules `collect_modules` selects have sizes. TLC evaluates each
on its instance.

The arguments:

* **Threads.** `IInv` adds two facts to the invariants. *KernelPair*: the kernel
  thread of slot 1 never blocks or dies, and idle keeps the state Run that boot left it in,
  so it is never picked. `KernelThreadReady` is not inductive without it. With
  it `schedule()` always finds another thread for a user thread that blocks or exits, hence
  `GivesUpCpu`; and
  `NoLostWakeup` is kept because the only step that blocks without a deadline starts from an
  empty ring and every send wakes. *CountOffset* ties NTHREADS to the number of live
  threads up to the thread that boot does not count.
* **MsgQueue.** The mapping sends the ring to the sequence of slots from tail to head. The
  proof is modular arithmetic: what push, pop and poll do to positions modulo the depth.
* **Pmm.** `PInv` joins types, hint, counter, holders and *Unpinned*: no free
  frame has a pinned counter, so a frame that is granted again starts from 1. The freeing
  step of `frame_dec` is right because a counter of 1 means one holder.
* **KernelHeap.** Three layers. *Cells*: the pages with one quotient by 2^order; cells nest
  (`CellsNest`), and a cell is a smaller one in it and the buddies on the way up, all disjoint (`CellParts`,
  `PartsApart`). *Blocks*: lists that tile a bitmap with cells no two of which are buddies. Splitting a
  block and joining one with its buddies keep this (`BlocksSplit`, `BlocksJoin`), and under it a buddy whose pages are all
  free is listed as one block (`ListedBuddy`): were it in pieces, the largest piece's buddy would be free too. That is
  what `free_coalesce` relies on when it reads the bitmap and unlinks from the list. `FreshOk` is the same of the
  lists that `init` builds for any number of pages. *`HeapInv`*: the buddy allocator is such a tiling; a block held is
  aligned to the order it was given and apart from bitmap, slots and other blocks; a slot lies in a page that is none
  of these, is on the list at most once and not on it while held. A free returns the order of the
  size, the first part of the block given (`UpperHalf`), and loses the rest. A refusal by `check_bounds` returns
  what was taken (`RefusedOk`). That `pop` skips slots, and its wild link, harm none of this. The audit's total is
  a fold over a set; it is shown equal to the cardinality of the set of bytes held (`FoldIsTotal`), which a grant or a
  release changes by one size.
* **AddressSpaces.** The theorems hold up to the access that may go astray: they say nothing once
  `stage` is `wild`. `IInv` says that blocks occur only in the shared tree, leaves of user
  pages map handed-out frames, grants lie in program pages with user flags all the way
  down except where the kernel puts a stack (*GrantsOpen*), a frame is behind one place (*LeavesOnce*)
  and is not free unless a free has hung (*LeavesTaken*). Merging only ever adds a flag to
  entries on the way to a page, and a split keeps translations, so one proof of `MapFresh` serves
  every mapping. Places, not pages, carry the invariants, which thus hold under both names.
* **AddressSpaces, mappings.** A frame a split puts into a table is where the 2 MB page had it, so
  `Translate` answers as before for every page but those mapped; a page mapped gets a free frame.
* **BlockCache.** `TypeOK` and `Coherent` are inductive together and do not mention the list:
  any choice of victim would be correct. The list is an invariant of its own (`ListInv`): what
  `detach` does to the links is what taking a line out does to the order, wherever it stands, and
  `pushFront` likewise. One lemma, `CallKeeps`, covers the three calls that fetch a
  line. A failed read leaves a wrong line only for a sector outside `Good`, which is why
  the theorem can speak of all other sectors without assuming that reads succeed.
* **Install.** `IInv`: while an installation runs, what lies behind it is on the platter and the
  drive holds nothing newer for it (*Progress*, *InSegment*); before the header is sent there is no
  trace of one, and wherever there is one its whole system is behind it (*HeaderLast*). The
  invariant is about platter and cache together: the flush behind every sector is what
  makes a sector safe, and a clean sector stays clean until it is written (`CleanStays`). A later boot finds
  the header or finds none, and either way `HeaderLast` says what it may do.
* **DiskGate.** The bound on bursts needs what the counter knows of the past: the writes let through
  in the current window are among the last `Burst_Count`, and among the last `BURST_LIMIT`
  (*WindowHolds*); a write followed by `BURST_LIMIT` others before the window began is
  more than a window older than that beginning (*WindowsBetween*). Where two windows meet, each
  contributes one limit. Alerts that must lock are among those that are counted, so at the threshold one of
  them has locked. A case split over the calls (`Calls`) shows that only a write that passes both locks is
  let through, and only `security_init` lifts a lock.
* **RootPolicy.** The mapping reads the deny array up to its count as a set and the circular log
  backwards as a sequence. `PolicyInv`: the booleans
  are the bits of the flags; no deny array holds a number twice, which is what `remove_deny` relies on
  when it takes out one place; and the log holds no refusal of the fourth check. That check
  is idle because the two tables of masks agree on every ring.
* **UserMemory.** `Inv` says of the areas of each live process (*AreasOK*): those above the stack are apart
  from all others; two areas meet only behind the start of the heap and where one of them covers it,
  which is where `sbrk` stretches the area it finds (*Met*); all are apart while the heap has its area; and
  the own pages that are there lie in areas, which count them (*Counted*). And of the tables (*TablesOK*): two
  leaves share a frame only if they are the same page in two tables, a page that a fork copies, and
  neither can be written (*Sharing*); `refs` without what forks counted for the identity map (*Eff*)
  covers the leaves of each frame, and is exact for frames of own pages (*CountsOK*); a dead process has no
  leaves; a free frame has no leaf and holds zeros. The two halves meet where frames are mapped: own pages
  outside all areas are absent, so nothing of a process's own is mapped over. *Sharing* makes
  `handle_cow_fault` right to keep the frame at a counter of 1; what forks counted besides can only
  make it copy once more. A fork takes each leaf of both trees it walks to the same page of the
  child's table and counts it once, so references and leaves grow alike (*Forked*, *MoreRefs*). An exit
  changes nothing but `machine`. For the refinement, `View` reads own pages through the leaves: a
  store goes through a leaf nobody shares, a copy reads as its original, and all other steps keep what the
  others see.
* **Usb.** `EntriesHaveOwners` is not inductive alone: that an enumeration adds an owner and an
  occupied port, and not one of them twice, needs that a port is enumerated only while it is held to
  be empty (*LoopInv*) and that the slot being enumerated is new (*SlotInv*); that a name frees the
  entry of its owner needs that every taken entry has an owner (*TableInv*). `NoGhost` rests on *LoopInv*
  too: a port that empties under its enumeration has its change bit set by then, and nobody
  clears it before the next look. Two lemmas, `Alloc` and `Freed`, serve all three drivers.
* **Console.** `ConsoleInv` says what holds at the accesses where other code may come in: between them
  the usb thread's head is still the head and there is still room (*UsbPushes*), since the only others that run
  move the tail, and that makes room; the terminal's character is still the one at the tail
  (*TerminalPolls*), since a push fills a place behind the last one. Two writers break the first. The mapping
  reads the ring as the window from tail to head: `WindowGrows` and `WindowShrinks` are what a move
  of the head or of the tail does to it, and a place that is filled before the head moves is outside. A
  character counts as typed when the head has moved.

Only model-checked:

* the liveness properties `ReadyRuns`, `BootGoesOn`, `UnpluggedIsForgotten` and `EverythingIsRead`,
  which need `ENABLED`.

Every invariant and every action property of the runs is stated by a theorem.

## 5. What is not modelled

* **Within Threads**: the few instructions of `thread_switch` where an interrupt would find
  the new stack with old registers are merged with the gap before them. Contents
  of registers, TSS and CR3 are abstracted to `user`. A user thread re-entered at
  `US_ENTRY` of a slot whose stack is not mapped there would fault; such threads go on running here.
  All user threads bear the name "userspace" that `kterminal` looks for. `TICK + ticks` does not
  wrap at 64 bits. `k_send` has no caller. `prio` is read only by `jump_to_scheduler` at boot.
* **Within AddressSpaces**: what memory holds once an access has gone astray. Kernel stacks of slots
  start at 0x0200_0000 with a stride of 0x9000, so the frame of the heap's ninth table, 0x0200_B000,
  is an address in the kernel stack of slot 1; user stacks start at 0x0400_0000. From there on any
  outcome is possible, and the model stops. P3 and P2 are folded. W and NX bits are left out, as are
  mappings made before a panic for lack of frames. Programs free only what they allocated.
  `vmap_huge` and `vunmap_huge` have no user in the running kernel; what fork and exit do to tables is
  in UserMemory.
* **Within BlockCache**: statistics, multi-sector transfers (no caller), and the walk from file
  offsets to sectors. A transfer that fails moves no data, as `drive.odin` polls before the
  first word. In the tree as it is, only reads reach the cache: the server refuses the
  write operations, and `flushAll` and `invalidateAll` have no caller. The model includes them as
  the public interface of the cache.
* **Within RootPolicy**: memory limits, `owner_ring` and `can_raw_disk` are stored and never read.
  `init_thread_cap` and `clear_thread_cap` have no caller, so a reused slot keeps the deny list of the
  thread that died in it; the resource gates and the log's dump have none either. The model lets
  any of them be called at any time.
* **Within KernelHeap**: the six other slab classes, which share nothing but the buddy; `init` again,
  `reinit` and `shutdown`, which have no caller and keep the slab lists of the old heap; reports.
* **Within Install**: `identify` and the unchecked transfers, which have no caller; LBA48 addressing.
* **Within DiskGate**: sessions (nothing opens one, and their permits never verify because the checksum
  covers itself), content hashes (nothing compares them), journal, audit log.
* **Within Usb**: register values, descriptors, data toggles, cycle bits of the TRB rings. The
  control transfers of the xHCI go to its command ring, and the SETUP constants are wrong: no
  device of a real controller would answer them, so the model lets each be answered or not. A frame
  leaks per report, and a replug between two looks at a port is not noticed.
* **Within UserMemory**: access rights of areas; huge user pages; file and shared areas, which are never
  made. A `FIXED` hint that is not aligned maps nothing and leaks; `sbrk` below the heap's start is
  assumed away; with 128 areas the heap grows by pages without an area. Dropping the last
  reference to a frame hangs (`machine = "hung"`), and every exit ends there or in `wild`; what
  happens behind either is not modelled. The frames are those no stack of the kernel lies over, which
  AddressSpaces is about. The frames of tables are not counted, but for one that a fork takes after it has
  counted the block that holds it. A counter of 65,535 is left to Pmm: forks stay below 65,000. Nothing in
  the running kernel calls this layer: every fault panics in `perm.rs`.
* **Within Console**: Shift (another printable character; left and right share a flag), mouse reports, what commands
  print. `PREV_KB` is shared by all USB keyboards (`hid.rs:220`), so a key held on one is typed again after a
  report of another; the model has one. Statics are not volatile; the model assumes that the
  compiler keeps the order of their accesses.
* **File system server protocol**: descriptors, the request ring and the one response slot. `api.rs` does
  not compile (`[6u8; 6]` as a type), asserts 32 bytes where `FsRequest` has 40, uses system call
  numbers the kernel does not have, and its client waits for nothing: there is no protocol
  between a client and the server to model yet, only the server's half. FAT32, ext2 and CSFS are
  parsing of on-disk formats.
* **Page-backed slab** (`mm/slab.rs`) and **range allocator** (`valloc.rs`): sequential and without
  a caller in the running kernel; see section 6.
* **Left out for good**: the display (its state is the hardware's), boot and debug output,
  `cryptofs.adb` (arithmetic), libcosinus (register shuffling), client programs (the models let
  ring 3 issue any call), and the stubs of GUI, OrbitMesh and Sinpr.

## 6. Plan

In order of what the system depends on most:

1. **FsServer**: once client and server agree on a protocol: descriptors, requests and responses over
   the shared ring, with `BlockCache` below; two clients, one path buffer, one response slot.
2. **KSlab** over `Pmm` (multi-page slabs assume contiguous frames) and **Valloc**: the coalescing free
   list over an abstract set of ranges.
3. **Usb** with several keyboards composed with **Console**, for `PREV_KB`.
