---- MODULE Usb ----
(***************************************************************************)
(* The USB subsystem of src/kernel/src/usb: the table of HID devices       *)
(* (hid.rs), the three host controller drivers (xhci.rs, and EHCI and OHCI *)
(* in ehci.rs), and the kernel thread that polls them and looks for        *)
(* plugged and unplugged devices every HOTPLUG_INTERVAL ticks (mod.rs).    *)
(*                                                                         *)
(* External: the controllers and the devices.  A port has a connect status *)
(* and a change bit that every connection change sets; a transfer          *)
(* completes or fails at any time, and only completes for a device that is *)
(* there; xHCI hands out its slots in order and refuses an address to an   *)
(* absent device.                                                          *)
(* A control transfer of an enumeration answers or not, which decides no   *)
(* more than the class of the device.  Two changes of one port are         *)
(* milliseconds apart, so the read of a port register and the write that   *)
(* clears its change bit are one step.                                     *)
(***************************************************************************)
EXTENDS Integers, FiniteSets, FiniteSetsExt

CONSTANTS
    NPorts,            \* ports of the root hub (at most 16 for EHCI and OHCI)
    MAX_SLOTS,         \* xHCI: slot numbers lie below
    TableSizes,        \* MAX_USB_DEVICES, every size considered
    HOTPLUG_INTERVAL   \* ticks between two looks at the ports

ASSUME UsbAssumption ==
    /\ {NPorts, HOTPLUG_INTERVAL} \subseteq Nat \ {0}
    /\ TableSizes \subseteq 1 .. 255    \* an index is a byte that is not 0xFF
    /\ MAX_SLOTS \in Nat /\ MAX_SLOTS > NPorts

Ports == 1 .. NPorts
Slots == 1 .. MAX_SLOTS - 1
Kinds == {"xhci", "ehci", "ohci"}

Free == -1       \* an entry of USB_DEVICES that is not active
None == 255      \* dev_idx: no entry (0xFF)

VARIABLES
    \* the hardware
    attached,    \* the ports with a device
    changed,     \* the ports whose connect status change bit is set
    companion,   \* EHCI: the ports handed to a companion controller
    enabled,     \* xHCI: the slots handed out so far
    slot_port,   \* xHCI: the port a slot was enabled for
    linked,      \* EHCI and OHCI: the port whose endpoint the periodic list names
    \* the driver
    up,          \* the controller usb_init brought up, or "none"
    image,       \* a program image was loaded: the machine runs processes
    USB_DEVICES, \* slot of each entry, or Free
    USB_NDEV,
    dev_idx,     \* entry of each slot (xHCI) or port
    active,      \* EHCI and OHCI: the ports that are polled
    port_ccs,    \* the ports the driver holds to be occupied
    xfer,        \* the IN transfer of each slot or port
    at,          \* where the usb thread is
    port,        \* the port of its loop
    probing,     \* the slot or port it is enumerating, or 0
    since        \* TICK - LAST_HOTPLUG_TICK, as far as it matters

hardware == <<attached, changed, companion, enabled, slot_port, linked>>
table == <<USB_DEVICES, USB_NDEV, dev_idx, active>>
boot == <<up, image>>
vars == <<hardware, boot, table, port_ccs, xfer, at, port, probing, since>>

\* The IN transfer: nothing set up; set up but not yet seen by the EHCI
\* (token 0); with the controller; finished or failed, and not yet handled;
\* no longer queued, so that the device is never heard again.
Transfers == {"none", "zero", "queued", "done", "failed", "deaf"}

-----------------------------------------------------------------------------
\* hid.rs

Entries == DOMAIN USB_DEVICES

\* The name a device has in the table.
NameOf(u) == IF up = "ohci" THEN u + 64 ELSE u

\* dev_alloc: the first entry that is not active.
dev_alloc(u) ==
    LET idle == {i \in Entries : USB_DEVICES[i] = Free} IN
    IF idle = {}
    THEN UNCHANGED <<USB_DEVICES, USB_NDEV, dev_idx>>
    ELSE /\ USB_DEVICES' = [USB_DEVICES EXCEPT ![Min(idle)] = NameOf(u)]
         /\ USB_NDEV' = USB_NDEV + 1
         /\ dev_idx' = [dev_idx EXCEPT ![u] = Min(idle)]

\* dev_free: the first active entry of that name.
dev_free(name) ==
    LET used == {i \in Entries : USB_DEVICES[i] = name} IN
    IF used = {}
    THEN UNCHANGED <<USB_DEVICES, USB_NDEV>>
    ELSE /\ USB_DEVICES' = [USB_DEVICES EXCEPT ![Min(used)] = Free]
         /\ USB_NDEV' = IF USB_NDEV > 0 THEN USB_NDEV - 1 ELSE 0

-----------------------------------------------------------------------------
\* usb_init: the first controller that is there and starts.
usb_init(works) ==
    IF "xhci" \in works THEN "xhci"
    ELSE IF "ehci" \in works THEN "ehci"
    ELSE IF "ohci" \in works THEN "ohci"
    ELSE "none"

Init ==
    /\ attached \in SUBSET Ports
    /\ changed = attached
    /\ companion = {} /\ enabled = {} /\ linked = 0
    /\ slot_port = [s \in Slots |-> 0]
    /\ \E works \in SUBSET Kinds : up = usb_init(works)
    /\ image \in BOOLEAN
    /\ \E n \in TableSizes : USB_DEVICES = [i \in 0 .. n - 1 |-> Free]
    /\ USB_NDEV = 0
    /\ dev_idx = [u \in Slots |-> None]
    /\ active = {} /\ port_ccs = {}
    /\ xfer = [u \in Slots |-> "none"]
    /\ at = "init" /\ port = 1 /\ probing = 0
    /\ since = HOTPLUG_INTERVAL

TypeOK ==
    /\ {attached, changed, companion, active, port_ccs} \subseteq SUBSET Ports
    /\ enabled \subseteq Slots
    /\ slot_port \in [Slots -> Ports \cup {0}]
    /\ linked \in Ports \cup {0}
    /\ up \in Kinds \cup {"none"} /\ image \in BOOLEAN
    /\ \E n \in TableSizes : USB_DEVICES \in [0 .. n - 1 -> Int] /\ USB_NDEV \in 0 .. n
    /\ dev_idx \in [Slots -> Entries \cup {None}]
    /\ xfer \in [Slots -> Transfers]
    /\ at \in {"init", "poll", "hotplug", "probe"}
    /\ port \in 1 .. NPorts + 1
    /\ probing \in Slots \cup {0}
    /\ since \in 0 .. HOTPLUG_INTERVAL

\* The connect status a driver reads: a port of a companion reads empty.
Ccs == attached \ companion

\* A loop over the ports goes on.
NextPort == port' = port + 1 /\ probing' = 0

\* The command rings of xHCI wait for their own answer and drop every other
\* event they find: an answer of an IN transfer among them is gone.
Drained == [u \in Slots |-> IF xfer[u] \in {"done", "failed"} THEN "deaf" ELSE xfer[u]]

-----------------------------------------------------------------------------
\* Enumeration of the port of the loop, in two steps with the world between.

\* The port is empty when the enumeration reads it.
ProbeEmpty ==
    /\ port \notin Ccs
    /\ NextPort
    /\ UNCHANGED <<hardware, boot, table, port_ccs, xfer, since>>

\* xhci_enumerate_port up to Enable Slot.  The write that clears the reset
\* change writes the connect change back too.
XhciProbe ==
    /\ up = "xhci" /\ port \in Ccs
    /\ changed' = changed \ {port}
    /\ xfer' = Drained
    /\ \/ \E s \in Slots :
            /\ enabled = 1 .. s - 1
            /\ enabled' = enabled \cup {s}
            /\ slot_port' = [slot_port EXCEPT ![s] = port]
            /\ probing' = s
            /\ UNCHANGED port
       \/ NextPort /\ UNCHANGED <<enabled, slot_port>>    \* "slot err"
    /\ UNCHANGED <<attached, companion, linked, boot, table, port_ccs, since>>

\* The rest of xhci_enumerate_port: the slot is lost when the device takes
\* no address, and an IN transfer is queued even when the table is full.
XhciProbed(s) ==
    /\ up = "xhci"
    /\ NextPort
    /\ \/ /\ xfer' = [Drained EXCEPT ![s] = "none"]
          /\ UNCHANGED <<table, port_ccs>>
       \/ /\ port \in attached
          /\ dev_alloc(s)
          /\ xfer' = [Drained EXCEPT ![s] = "queued"]
          /\ port_ccs' = port_ccs \cup {port}
          /\ UNCHANGED active
    /\ UNCHANGED <<hardware, boot, since>>

\* ehci_probe_port up to the reset: a slow device, seen before the reset or
\* after it, goes to the companion.  The reset writes the change bit back.  The
\* requests that follow (ehci_ctrl_transfer) take time and change nothing else.
EhciProbe ==
    /\ up = "ehci" /\ port \in Ccs
    /\ changed' = changed \ {port}
    /\ \/ probing' = port /\ UNCHANGED <<companion, port>>
       \/ companion' = companion \cup {port} /\ NextPort
    /\ UNCHANGED <<attached, enabled, slot_port, linked, boot, table, port_ccs, xfer, since>>

\* The interrupt endpoint of port p: every frame of the periodic list names
\* it and none but it from now on.
Listed(p, first) ==
    /\ linked' = p
    /\ xfer' = [xfer EXCEPT ![p] = first]

\* Seeded fault: the change bit is cleared once more at the end.
EhciProbed_Clears(p) ==
    /\ up = "ehci"
    /\ NextPort
    /\ dev_alloc(p)
    /\ active' = IF USB_NDEV' > USB_NDEV THEN active \cup {p} ELSE active
    /\ Listed(p, "zero")
    /\ port_ccs' = port_ccs \cup {p}
    /\ changed' = changed \ {p}
    /\ UNCHANGED <<attached, companion, enabled, slot_port, boot, since>>

\* The rest of ehci_probe_port: the port is polled if it found an entry.
EhciProbed(p) ==
    /\ up = "ehci"
    /\ NextPort
    /\ dev_alloc(p)
    /\ active' = IF USB_NDEV' > USB_NDEV THEN active \cup {p} ELSE active
    /\ Listed(p, "zero")
    /\ port_ccs' = port_ccs \cup {p}
    /\ UNCHANGED <<attached, changed, companion, enabled, slot_port, boot, since>>

\* ohci_probe_port: the reset and the requests of the enumeration, which take
\* time; the change bit stays, and the port is polled in any case.
OhciProbe ==
    /\ up = "ohci" /\ port \in Ccs
    /\ probing' = port
    /\ UNCHANGED <<hardware, boot, table, port_ccs, xfer, port, since>>

OhciProbed(p) ==
    /\ up = "ohci"
    /\ NextPort
    /\ dev_alloc(p)
    /\ active' = active \cup {p}
    /\ Listed(p, "queued")
    /\ port_ccs' = port_ccs \cup {p}
    /\ UNCHANGED <<attached, changed, companion, enabled, slot_port, boot, since>>

Probe ==
    IF probing = 0
    THEN ProbeEmpty \/ XhciProbe \/ EhciProbe \/ OhciProbe
    ELSE XhciProbed(probing) \/ EhciProbed(probing) \/ OhciProbed(probing)

-----------------------------------------------------------------------------
\* The usb thread.

\* The probe of every port before the thread starts.
Enumerate ==
    /\ up # "none" /\ at = "init"
    /\ \/ port \in Ports /\ Probe /\ UNCHANGED at
       \/ /\ port > NPorts
          /\ at' = "poll" /\ port' = 1
          /\ UNCHANGED <<hardware, boot, table, port_ccs, xfer, probing, since>>

\* xhci_poll_all, one slot: a failed transfer, and one for a slot without a
\* device, is not queued again.
XhciPolled(s) ==
    IF xfer[s] = "done" /\ dev_idx[s] # None THEN "queued" ELSE Drained[s]

\* ehci_poll_all, one port.  A token that is neither active nor halted is
\* taken for a report, the zero of a transfer the controller has not loaded
\* included; then, and after an error, the transfer starts again.
EhciPolled(p) ==
    IF p \in active /\ xfer[p] \in {"zero", "done", "failed"} THEN "zero" ELSE xfer[p]

\* ohci_poll_all, one port.
OhciPolled(p) ==
    IF p \in active /\ xfer[p] \in {"done", "failed"} THEN "queued" ELSE xfer[p]

\* Seeded fault: every call takes note of the tick.
usb_poll_Notes ==
    /\ up # "none" /\ at = "poll"
    /\ xfer' = [u \in Slots |-> IF up = "xhci" THEN XhciPolled(u)
                               ELSE IF up = "ehci" THEN EhciPolled(u)
                               ELSE OhciPolled(u)]
    /\ at' = IF since < HOTPLUG_INTERVAL THEN at ELSE "hotplug"
    /\ since' = 0
    /\ UNCHANGED <<hardware, boot, table, port_ccs, port, probing>>

\* usb_poll and, at its end, hotplug_check.  A report that comes in the
\* middle of the poll is one that comes before it or after it.
usb_poll ==
    /\ up # "none" /\ at = "poll"
    /\ xfer' = [u \in Slots |-> IF up = "xhci" THEN XhciPolled(u)
                               ELSE IF up = "ehci" THEN EhciPolled(u)
                               ELSE OhciPolled(u)]
    /\ IF since < HOTPLUG_INTERVAL
       THEN UNCHANGED <<at, since>>
       ELSE at' = "hotplug" /\ since' = 0
    /\ UNCHANGED <<hardware, boot, table, port_ccs, port, probing>>

\* A disconnect in xhci_hotplug: the first slot in use is freed.
XhciGone ==
    LET used == {s \in Slots : dev_idx[s] # None /\ USB_DEVICES[dev_idx[s]] = s} IN
    IF used = {}
    THEN UNCHANGED <<table, xfer>>
    ELSE /\ dev_free(Min(used))
         /\ dev_idx' = [dev_idx EXCEPT ![Min(used)] = None]
         /\ xfer' = [xfer EXCEPT ![Min(used)] = "none"]
         /\ UNCHANGED active

\* A disconnect of the other two: the port's record is emptied.
PortGone(p) ==
    /\ IF dev_idx[p] # None THEN dev_free(NameOf(p)) ELSE UNCHANGED <<USB_DEVICES, USB_NDEV>>
    /\ dev_idx' = [dev_idx EXCEPT ![p] = None]
    /\ active' = active \ {p}
    /\ xfer' = [xfer EXCEPT ![p] = "none"]

\* Seeded fault: the periodic list is left alone.
EhciGone_Linked(p) == PortGone(p) /\ UNCHANGED linked

\* ehci_hotplug takes every endpoint off the periodic list, whoever left.
EhciGone(p) == PortGone(p) /\ linked' = 0

\* Seeded fault: the entry is freed under the number of the port.
OhciGone_WrongName(p) ==
    /\ IF dev_idx[p] # None THEN dev_free(p) ELSE UNCHANGED <<USB_DEVICES, USB_NDEV>>
    /\ dev_idx' = [dev_idx EXCEPT ![p] = None]
    /\ active' = active \ {p}
    /\ xfer' = [xfer EXCEPT ![p] = "none"]
    /\ UNCHANGED linked

\* ohci_hotplug leaves the endpoint in the interrupt list.
OhciGone(p) == PortGone(p) /\ UNCHANGED linked

\* One port of xhci_hotplug, ehci_hotplug and ohci_hotplug.
HotplugPort ==
    /\ at = "hotplug" /\ port \in Ports
    /\ UNCHANGED <<attached, companion, enabled, slot_port, boot, since>>
    /\ changed' = changed \ {port}
    /\ \/ /\ port \in changed /\ port \in Ccs /\ port \notin port_ccs
          /\ at' = "probe"
          /\ UNCHANGED <<linked, table, port_ccs, xfer, port, probing>>
       \/ /\ port \in changed /\ port \notin Ccs /\ port \in port_ccs
          /\ \/ up = "xhci" /\ XhciGone /\ UNCHANGED linked
             \/ up = "ehci" /\ EhciGone(port)
             \/ up = "ohci" /\ OhciGone(port)
          /\ port_ccs' = port_ccs \ {port}
          /\ NextPort /\ UNCHANGED at
       \/ /\ port \in changed => (port \in Ccs <=> port \in port_ccs)
          /\ NextPort
          /\ UNCHANGED <<linked, table, port_ccs, xfer, at>>

HotplugProbe ==
    /\ at = "probe"
    /\ Probe
    /\ at' = IF port' = port THEN "probe" ELSE "hotplug"

HotplugEnd ==
    /\ at = "hotplug" /\ port > NPorts
    /\ at' = "poll" /\ port' = 1
    /\ UNCHANGED <<hardware, boot, table, port_ccs, xfer, probing, since>>

usb_thread ==
    \/ Enumerate \/ usb_poll
    \/ HotplugPort \/ HotplugProbe \/ HotplugEnd

-----------------------------------------------------------------------------
\* The world.

Plug(p) ==
    /\ p \notin attached
    /\ attached' = attached \cup {p}
    /\ changed' = changed \cup {p}
    /\ UNCHANGED <<companion, enabled, slot_port, linked, boot, table, port_ccs, xfer,
                   at, port, probing, since>>

\* A port of a companion comes back to the EHCI.
Unplug(p) ==
    /\ p \in attached
    /\ attached' = attached \ {p}
    /\ changed' = changed \cup {p}
    /\ companion' = companion \ {p}
    /\ UNCHANGED <<enabled, slot_port, linked, boot, table, port_ccs, xfer,
                   at, port, probing, since>>

\* The EHCI loads the transfer of the endpoint it finds in its list.
Load ==
    /\ up = "ehci" /\ linked # 0
    /\ xfer[linked] = "zero"
    /\ xfer' = [xfer EXCEPT ![linked] = "queued"]
    /\ UNCHANGED <<hardware, boot, table, port_ccs, at, port, probing, since>>

\* A transfer ends; one of EHCI and OHCI only while it is in the list.
Complete(u) ==
    /\ xfer[u] = "queued"
    /\ up # "xhci" => linked = u
    /\ \/ xfer' = [xfer EXCEPT ![u] = "failed"]
       \/ /\ (IF up = "xhci" THEN slot_port[u] ELSE u) \in attached
          /\ xfer' = [xfer EXCEPT ![u] = "done"]
    /\ UNCHANGED <<hardware, boot, table, port_ccs, at, port, probing, since>>

\* The timer interrupt, off until the kernel has started.
Tick ==
    /\ up # "none" /\ at # "init" /\ since < HOTPLUG_INTERVAL
    /\ since' = since + 1
    /\ UNCHANGED <<hardware, boot, table, port_ccs, xfer, at, port, probing>>

World ==
    \/ \E p \in Ports : Plug(p) \/ Unplug(p)
    \/ Load \/ Tick
    \/ \E u \in Slots : Complete(u)

Next == usb_thread \/ World

\* On a machine without an image the scheduler runs the usb thread again and
\* again and the timer ticks: ReadyRuns of Threads, hence only as long as the
\* machine is not lost in the gap of schedule().  With an image kernel threads
\* run with interrupts off: once every process sleeps or receives they poll
\* for ever without a tick (MCThreadsSleep.cfg).  Nothing is assumed there.
Fairness ==
    /\ WF_vars(~ image /\ usb_thread)
    /\ WF_vars(~ image /\ Tick)

Spec == Init /\ [][Next]_vars /\ Fairness

-----------------------------------------------------------------------------
\* Properties

\* The slots or ports that have an entry of the table.
Owners == {u \in Slots : dev_idx[u] # None}

\* Table and ports agree, whatever is plugged and unplugged while they are
\* being enumerated: each active entry belongs to the one slot or port it
\* names, the count is right, and no entry outlives the ports' devices.
EntriesHaveOwners ==
    /\ \A u \in Owners : USB_DEVICES[dev_idx[u]] = NameOf(u)
    /\ USB_NDEV = Cardinality(Owners)
    /\ USB_NDEV = Cardinality({i \in Entries : USB_DEVICES[i] # Free})
    /\ Cardinality(Owners) <= Cardinality(port_ccs)
    /\ up # "xhci" => Owners \subseteq port_ccs

\* A port the drivers hold to be occupied has a device, or a change that is
\* still to be looked at: no unplugged device is kept for good.
NoGhost == port_ccs \ attached \subseteq changed

\* The EHCI's periodic list names the endpoint of an occupied port or none.
ListIsLive == up = "ehci" /\ linked # 0 => linked \in port_ccs

\* On a machine without processes a device that is pulled out and stays out is
\* forgotten in the end.
UnpluggedIsForgotten ==
    ~ image => \A p \in Ports :
        p \in port_ccs \ attached ~> p \in attached \/ p \notin port_ccs

\* "Find the slot of this port and free it": a slot in use serves a port
\* that is occupied.
SlotServesItsPort ==
    up = "xhci" => \A s \in Owners : slot_port[s] \in port_ccs
====
