---- MODULE Usb_proofs ----
(***************************************************************************)
(* Theorems about Usb and their proofs: table, drivers and ports agree,    *)
(* whatever is plugged and unplugged at any moment, for any number of      *)
(* ports and slots and every size of the table.                            *)
(***************************************************************************)
EXTENDS Usb, FiniteSetTheorems, WellFoundedInduction, TLAPS

USE DEF boot

\* The entries that are taken.
Used == {i \in Entries : USB_DEVICES[i] # Free}

TypeInv ==
    /\ {attached, changed, port_ccs} \subseteq SUBSET Ports
    /\ enabled \subseteq Slots
    /\ up \in Kinds \cup {"none"}
    /\ USB_DEVICES \in [Entries -> Int] /\ Entries \subseteq 0 .. 254
    /\ USB_NDEV \in Nat
    /\ dev_idx \in [Slots -> Entries \cup {None}]
    /\ at \in {"init", "poll", "hotplug", "probe"}
    /\ port \in 1 .. NPorts + 1
    /\ probing \in Slots \cup {0}

\* Where the loop over the ports is: a port is enumerated only while the
\* driver holds it to be empty, and one that left meanwhile has its change
\* still to be looked at.
LoopInv ==
    /\ probing # 0 \/ at = "probe" => port \in Ports /\ at \in {"init", "probe"}
    /\ at = "init" => port_ccs \subseteq 1 .. port - 1
    /\ at = "probe" => port \notin port_ccs
    /\ probing # 0 /\ up # "xhci" => probing = port /\ port \in attached \cup changed

\* The slot that is being enumerated was handed out last.
SlotInv ==
    up = "xhci" =>
        /\ Owners \subseteq enabled
        /\ probing # 0 => probing \in enabled \ Owners

\* Every taken entry has an owner, which it names, and the counts agree.
TableInv ==
    /\ \A u \in Owners : USB_DEVICES[dev_idx[u]] = NameOf(u)
    /\ \A i \in Used : \E u \in Owners : dev_idx[u] = i
    /\ USB_NDEV = Cardinality(Owners)
    /\ USB_NDEV = Cardinality(Used)

PortInv ==
    /\ Cardinality(Owners) <= Cardinality(port_ccs)
    /\ up # "xhci" => Owners \subseteq port_ccs

IInv ==
    /\ TypeInv /\ LoopInv /\ SlotInv /\ TableInv /\ PortInv
    /\ NoGhost /\ ListIsLive

----
(***************************************************************************)
(* Sets and the table.                                                     *)
(***************************************************************************)
LEMMA Constants ==
    /\ NPorts \in Nat \ {0} /\ MAX_SLOTS \in Nat /\ MAX_SLOTS > NPorts
    /\ Ports \subseteq Slots /\ Slots \subseteq Nat \ {0}
BY UsbAssumption DEF Ports, Slots

\* The least of a set of numbers is in the set.
LEMMA MinIsIn ==
    ASSUME NEW S \in SUBSET Nat, S # {}
    PROVE  Min(S) \in S
<1>. DEFINE Less == OpToRel(<, Nat)
<1>1. \E x \in S : \A y \in S : ~ (<<y, x>> \in Less)
  BY NatLessThanWellFounded, WFMin, Zenon
<1>2. Less = {ss \in Nat \X Nat : ss[1] < ss[2]}
  BY Zenon DEF OpToRel
<1>. HIDE DEF Less
<1>3. \A x, y \in Nat : <<y, x>> \in Less <=> y < x
  BY <1>2
<1>4. PICK x \in S : \A y \in S : ~ (<<y, x>> \in Less)
  BY <1>1
<1>5. ASSUME NEW y \in S PROVE x =< y
  <2>1. x \in Nat /\ y \in Nat
    OBVIOUS
  <2>2. ~ (y < x)
    BY <1>3, <1>4, <2>1, Zenon
  <2>. QED  BY <2>1, <2>2
<1>. QED  BY <1>5 DEF Min

\* Ports and slots are finitely many.
LEMMA Finite ==
    ASSUME TypeInv
    PROVE  /\ IsFiniteSet(Owners) /\ Cardinality(Owners) \in Nat
           /\ IsFiniteSet(Used) /\ Cardinality(Used) \in Nat
           /\ IsFiniteSet(port_ccs) /\ Cardinality(port_ccs) \in Nat
<1>1. IsFiniteSet(Slots) /\ IsFiniteSet(Ports) /\ IsFiniteSet(0 .. 254)
  <2>1. {1, MAX_SLOTS - 1, NPorts, 0, 254} \subseteq Int
    BY Constants
  <2>2. IsFiniteSet(Slots) /\ IsFiniteSet(Ports)
    BY <2>1, FS_Interval DEF Slots, Ports
  <2>3. IsFiniteSet(0 .. 254)
    BY <2>1, FS_Interval
  <2>. QED  BY <2>2, <2>3
<1>2. Owners \subseteq Slots /\ Used \subseteq 0 .. 254 /\ port_ccs \subseteq Ports
  BY DEF TypeInv, Owners, Used
<1>3. IsFiniteSet(Owners) /\ IsFiniteSet(Used) /\ IsFiniteSet(port_ccs)
  BY <1>1, <1>2, FS_Subset, Zenon
<1>. QED  BY <1>3, FS_CardinalityType, Zenon

\* Two owners have two names, and no name is the mark of a free entry.
LEMMA Names ==
    ASSUME NEW u \in Slots, NEW v \in Slots
    PROVE  /\ NameOf(u) \in Int /\ NameOf(u) # Free
           /\ NameOf(u) = NameOf(v) => u = v
BY Constants DEF NameOf, Free

\* The device that is found gets an entry, or there is none left.
LEMMA Alloc ==
    ASSUME TypeInv, TableInv, NEW u \in Slots, u \notin Owners,
           dev_alloc(u), UNCHANGED up
    PROVE  /\ TableInv'
           /\ USB_DEVICES' \in [Entries' -> Int] /\ Entries' = Entries
           /\ dev_idx' \in [Slots -> Entries' \cup {None}]
           /\ USB_NDEV' \in Nat
           /\ Owners' \in {Owners, Owners \cup {u}}
<1>. DEFINE idle == {i \in Entries : USB_DEVICES[i] = Free}
<1>1. CASE idle = {}
  <2>1. UNCHANGED <<USB_DEVICES, USB_NDEV, dev_idx>>
    BY <1>1 DEF dev_alloc
  <2>. QED  BY <2>1 DEF TypeInv, TableInv, Owners, Used, Entries, NameOf
<1>2. CASE idle # {}
  <2>. DEFINE i == Min(idle)
  <2>1. i \in idle
    BY <1>2, MinIsIn DEF TypeInv
  <2>. HIDE DEF i
  <2>2. /\ USB_DEVICES' = [USB_DEVICES EXCEPT ![i] = NameOf(u)]
        /\ USB_NDEV' = USB_NDEV + 1
        /\ dev_idx' = [dev_idx EXCEPT ![u] = i]
    BY <1>2 DEF dev_alloc, i
  <2>3. /\ i \in Entries /\ USB_DEVICES[i] = Free /\ i # None /\ dev_idx[u] = None
        /\ NameOf(u) \in Int /\ NameOf(u) # Free
    BY <2>1, Names DEF TypeInv, None, Owners
  <2>4. /\ USB_DEVICES' \in [Entries -> Int] /\ Entries' = Entries
        /\ dev_idx' \in [Slots -> Entries \cup {None}]
    BY <2>2, <2>3 DEF TypeInv, Entries
  <2>5. Owners' = Owners \cup {u} /\ u \notin Owners
    BY <2>2, <2>3 DEF TypeInv, Owners
  <2>6. Used' = Used \cup {i} /\ i \notin Used
    BY <2>2, <2>3, <2>4 DEF TypeInv, Used
  <2>7. \A v \in Owners' : USB_DEVICES'[dev_idx'[v]] = NameOf(v)'
    <3>. SUFFICES ASSUME NEW v \in Owners'  PROVE USB_DEVICES'[dev_idx'[v]] = NameOf(v)
      BY DEF NameOf
    <3>1. CASE v = u
      BY <2>2, <2>3, <3>1 DEF TypeInv
    <3>2. CASE v # u
      <4>1. v \in Owners /\ v \in Slots /\ dev_idx'[v] = dev_idx[v] /\ dev_idx[v] \in Entries
        BY <2>2, <2>5, <3>2 DEF TypeInv, Owners
      <4>2. USB_DEVICES[dev_idx[v]] = NameOf(v) /\ NameOf(v) # Free
        BY <4>1, Names DEF TableInv
      <4>3. dev_idx[v] # i
        BY <2>3, <4>2
      <4>. QED  BY <2>2, <4>1, <4>2, <4>3 DEF TypeInv
    <3>. QED  BY <3>1, <3>2
  <2>8. \A j \in Used' : \E v \in Owners' : dev_idx'[v] = j
    <3>1. dev_idx'[u] = i
      BY <2>2 DEF TypeInv
    <3>2. \A v \in Owners : dev_idx'[v] = dev_idx[v]
      BY <2>2, <2>5 DEF TypeInv, Owners
    <3>. QED  BY <2>5, <2>6, <3>1, <3>2 DEF TableInv
  <2>9. USB_NDEV' = Cardinality(Owners') /\ USB_NDEV' = Cardinality(Used')
    <3>1. /\ Cardinality(Owners \cup {u}) = Cardinality(Owners) + 1
          /\ Cardinality(Used \cup {i}) = Cardinality(Used) + 1
      BY <2>5, <2>6, Finite, FS_AddElement
    <3>. QED  BY <2>2, <2>5, <2>6, <3>1 DEF TableInv
  <2>. QED  BY <2>2, <2>4, <2>5, <2>7, <2>8, <2>9 DEF TableInv, TypeInv
<1>. QED  BY <1>1, <1>2

\* The entry that is freed by name is the owner's.
LEMMA Freed ==
    ASSUME TypeInv, TableInv, NEW u \in Owners, dev_free(NameOf(u)),
           dev_idx' = [dev_idx EXCEPT ![u] = None], UNCHANGED up
    PROVE  /\ TableInv'
           /\ USB_DEVICES' \in [Entries' -> Int] /\ Entries' = Entries
           /\ dev_idx' \in [Slots -> Entries' \cup {None}]
           /\ USB_NDEV' \in Nat
           /\ Owners' = Owners \ {u}
<1>. DEFINE i == dev_idx[u]
            used == {j \in Entries : USB_DEVICES[j] = NameOf(u)}
<1>1. u \in Slots /\ i \in Entries /\ USB_DEVICES[i] = NameOf(u) /\ NameOf(u) # Free
  BY Names DEF TypeInv, TableInv, Owners
<1>2. ASSUME NEW j \in used PROVE j = i
  <2>1. j \in Used
    BY <1>1 DEF Used
  <2>2. PICK v \in Owners : dev_idx[v] = j
    BY <2>1 DEF TableInv
  <2>3. v \in Slots /\ NameOf(v) = NameOf(u)
    BY <2>2 DEF TableInv, Owners
  <2>. QED  BY <1>1, <2>2, <2>3, Names
<1>3. used = {i}
  BY <1>1, <1>2
<1>4. Min(used) = i
  BY <1>3 DEF Min, TypeInv
<1>5. USB_NDEV > 0 /\ USB_NDEV \in Nat
  <2>1. Cardinality(Owners) # 0
    BY Finite, FS_EmptySet
  <2>. QED  BY <2>1, Finite DEF TableInv
<1>6. /\ USB_DEVICES' = [USB_DEVICES EXCEPT ![i] = Free]
      /\ USB_NDEV' = USB_NDEV - 1
  BY <1>3, <1>4, <1>5 DEF dev_free
<1>7. /\ USB_DEVICES' \in [Entries -> Int] /\ Entries' = Entries
      /\ dev_idx' \in [Slots -> Entries \cup {None}]
      /\ USB_NDEV' \in Nat
  BY <1>1, <1>5, <1>6 DEF TypeInv, Entries, Free
<1>8. Owners' = Owners \ {u}
  BY <1>1 DEF TypeInv, Owners
<1>9. Used' = Used \ {i} /\ i \in Used
  BY <1>1, <1>6, <1>7 DEF TypeInv, Used
<1>10. \A v \in Owners' : dev_idx'[v] = dev_idx[v] /\ dev_idx[v] # i
  <2>. SUFFICES ASSUME NEW v \in Owners' PROVE dev_idx'[v] = dev_idx[v] /\ dev_idx[v] # i
    OBVIOUS
  <2>1. v \in Owners /\ v \in Slots /\ v # u
    BY <1>8 DEF Owners
  <2>2. USB_DEVICES[dev_idx[v]] = NameOf(v) /\ NameOf(v) # NameOf(u)
    BY <1>1, <2>1, Names DEF TableInv
  <2>. QED  BY <1>1, <2>1, <2>2 DEF TypeInv
<1>11. \A v \in Owners' : USB_DEVICES'[dev_idx'[v]] = NameOf(v)'
  BY <1>6, <1>8, <1>10 DEF TypeInv, TableInv, Owners, NameOf
<1>12. \A j \in Used' : \E v \in Owners' : dev_idx'[v] = j
  BY <1>8, <1>9, <1>10 DEF TableInv
<1>13. USB_NDEV' = Cardinality(Owners') /\ USB_NDEV' = Cardinality(Used')
  <2>1. /\ Cardinality(Owners \ {u}) = Cardinality(Owners) - 1
        /\ Cardinality(Used \ {i}) = Cardinality(Used) - 1
    BY <1>9, Finite, FS_RemoveElement
  <2>. QED  BY <1>6, <1>8, <1>9, <2>1 DEF TableInv
<1>. QED  BY <1>7, <1>8, <1>11, <1>12, <1>13 DEF TableInv

\* A step that leaves the table alone keeps what is said of it.
LEMMA TableSame ==
    ASSUME UNCHANGED <<USB_DEVICES, USB_NDEV, dev_idx, up>>
    PROVE  /\ Owners' = Owners /\ Used' = Used /\ Entries' = Entries
           /\ TableInv => TableInv'
BY DEF Owners, Used, Entries, TableInv, NameOf

----
(***************************************************************************)
(* Owners and occupied ports.                                              *)
(***************************************************************************)
LEMMA Joins ==
    ASSUME TypeInv, TypeInv', PortInv, UNCHANGED up, NEW u \in Slots, NEW p \in Ports,
           p \notin port_ccs, port_ccs' = port_ccs \cup {p},
           Owners' \in {Owners, Owners \cup {u}}, up # "xhci" => u = p
    PROVE  PortInv'
<1>1. Cardinality(port_ccs') = Cardinality(port_ccs) + 1
  BY Finite, FS_AddElement
<1>2. Cardinality(Owners \cup {u}) \in {Cardinality(Owners), Cardinality(Owners) + 1}
  <2>1. IsFiniteSet(Owners)
    BY Finite
  <2>2. Cardinality(Owners \cup {u}) =
            IF u \in Owners THEN Cardinality(Owners) ELSE Cardinality(Owners) + 1
    BY <2>1, FS_AddElement, Zenon
  <2>. QED  BY <2>2
<1>3. Cardinality(Owners') <= Cardinality(Owners) + 1
  <2>1. Cardinality(Owners') \in {Cardinality(Owners), Cardinality(Owners) + 1}
    BY <1>2, Zenon
  <2>. QED  BY <2>1, Finite
<1>4. Cardinality(Owners') <= Cardinality(port_ccs')
  <2>1. Cardinality(Owners') \in Nat
    <3>1. CASE Owners' = Owners
      BY <3>1, Finite
    <3>2. CASE Owners' = Owners \cup {u}
      BY <3>2, Finite, FS_AddElement, FS_CardinalityType
    <3>. QED  BY <3>1, <3>2
  <2>. QED  BY <1>1, <1>3, <2>1, Finite DEF PortInv
<1>. QED  BY <1>4 DEF PortInv

\* A port that leaves keeps the ports in step, if the right slot goes with it.
LEMMA Leaves ==
    ASSUME TypeInv, PortInv, UNCHANGED up, NEW p \in port_ccs,
           port_ccs' = port_ccs \ {p},
           \/ \E u \in Owners : Owners' = Owners \ {u} /\ (up # "xhci" => u = p)
           \/ Owners' = Owners /\ (IF up = "xhci" THEN Owners = {} ELSE p \notin Owners)
    PROVE  PortInv'
<1>1. up # "xhci" => Owners' \subseteq port_ccs'
  BY DEF PortInv
<1>2. Cardinality(port_ccs') = Cardinality(port_ccs) - 1
  BY Finite, FS_RemoveElement
<1>3. IsFiniteSet(port_ccs') /\ Cardinality(port_ccs') \in Nat
  BY Finite, FS_RemoveElement, FS_CardinalityType
<1>4. Cardinality(Owners') <= Cardinality(port_ccs')
  <2>1. CASE up # "xhci"
    BY <1>1, <1>3, <2>1, FS_Subset
  <2>2. CASE \E u \in Owners : Owners' = Owners \ {u}
    <3>1. PICK u \in Owners : Owners' = Owners \ {u}
      BY <2>2
    <3>2. Cardinality(Owners \ {u}) = Cardinality(Owners) - 1
      BY Finite, FS_RemoveElement
    <3>. QED  BY <1>2, <3>1, <3>2, Finite DEF PortInv
  <2>3. CASE Owners' = {}
    BY <1>3, <2>3, FS_EmptySet
  <2>. QED  BY <2>1, <2>2, <2>3
<1>. QED  BY <1>1, <1>4 DEF PortInv

----
(***************************************************************************)
(* The steps.                                                              *)
(***************************************************************************)
LEMMA InitEstablishes == Init => IInv
<1>. SUFFICES ASSUME Init PROVE IInv
  OBVIOUS
<1>. PICK n \in TableSizes : USB_DEVICES = [i \in 0 .. n - 1 |-> Free]
  BY DEF Init
<1>1. n \in Nat /\ n - 1 <= 254 /\ Entries = 0 .. n - 1
  BY UsbAssumption DEF Entries
<1>2. Owners = {} /\ Used = {}
  BY <1>1 DEF Init, Owners, Used
<1>3. up \in Kinds \cup {"none"}
  BY DEF Init, usb_init, Kinds
<1>4. TypeInv
  BY <1>1, <1>3, Constants DEF Init, TypeInv, Free
<1>5. LoopInv /\ NoGhost /\ ListIsLive
  BY DEF Init, LoopInv, NoGhost, ListIsLive
<1>6. SlotInv
  BY <1>2 DEF Init, SlotInv
<1>7. TableInv
  BY <1>2, FS_EmptySet DEF Init, TableInv
<1>8. PortInv
  BY <1>2, FS_EmptySet DEF Init, PortInv
<1>. QED  BY <1>4, <1>5, <1>6, <1>7, <1>8 DEF IInv

\* The loops call the enumeration of a port, and go on with the next one when
\* it is through.
Loops ==
    /\ Probe /\ port \in Ports
    /\ \/ at = "init" /\ at' = "init"
       \/ at = "probe" /\ at' = IF port' = port THEN "probe" ELSE "hotplug"

\* The first half of an enumeration: the table is left alone.
LEMMA FirstHalf ==
    ASSUME IInv, Loops, probing = 0
    PROVE  IInv'
<1>. USE Constants DEF hardware, table
<1>1. ProbeEmpty \/ XhciProbe \/ EhciProbe \/ OhciProbe
  BY DEF Loops, Probe
<1>2. /\ UNCHANGED <<attached, linked, up, USB_DEVICES, USB_NDEV, dev_idx, port_ccs>>
      /\ changed' \in {changed, changed \ {port}}
      /\ changed' # changed => port \in attached
  BY <1>1 DEF ProbeEmpty, XhciProbe, EhciProbe, OhciProbe, Ccs
<1>3. \/ NextPort /\ enabled' = enabled
      \/ /\ port' = port /\ port \in attached
         /\ \/ up = "xhci" /\ \E s \in Slots : /\ enabled = 1 .. s - 1 /\ probing' = s
                                               /\ enabled' = enabled \cup {s}
            \/ up # "xhci" /\ probing' = port /\ enabled' = enabled
  BY <1>1 DEF ProbeEmpty, XhciProbe, EhciProbe, OhciProbe, Ccs
<1>4. Owners' = Owners /\ Entries' = Entries /\ TableInv'
  BY <1>2, TableSame DEF IInv
<1>5. port' \in 1 .. NPorts + 1 /\ probing' \in Slots \cup {0} /\ enabled' \subseteq Slots
  <2>1. port \in Ports /\ enabled \subseteq Slots /\ Ports \subseteq Slots
    BY DEF IInv, TypeInv, Loops
  <2>2. CASE NextPort /\ enabled' = enabled
    BY <2>1, <2>2 DEF NextPort, Ports
  <2>3. ASSUME NEW s \in Slots, port' = port, probing' = s,
               enabled' \in {enabled, enabled \cup {s}}
        PROVE  /\ port' \in 1 .. NPorts + 1 /\ probing' \in Slots \cup {0}
               /\ enabled' \subseteq Slots
    BY <2>1, <2>3 DEF Ports
  <2>. QED  BY <1>3, <2>1, <2>2, <2>3
<1>6. TypeInv'
  BY <1>2, <1>4, <1>5 DEF IInv, TypeInv, Loops
<1>7. port \notin port_ccs
  BY DEF Loops, IInv, LoopInv, TypeInv
<1>8. LoopInv'
  <2>1. CASE NextPort
    <3>1. port' = port + 1 /\ probing' = 0 /\ port' # port
      BY <2>1 DEF NextPort, IInv, TypeInv
    <3>2. at = "init" => port_ccs \subseteq 1 .. port' - 1
      BY <3>1 DEF IInv, LoopInv, TypeInv
    <3>. QED  BY <1>2, <3>1, <3>2 DEF LoopInv, Loops
  <2>2. CASE port' = port /\ port \in attached
    BY <1>2, <1>3, <1>7, <2>2 DEF LoopInv, Loops, IInv, TypeInv, NextPort
  <2>. QED  BY <1>3, <2>1, <2>2
<1>9. SlotInv'
  <2>1. ASSUME NEW s \in Slots, enabled = 1 .. s - 1, up = "xhci", probing' = s,
               enabled' = enabled \cup {s}
        PROVE  SlotInv'
    <3>1. s \notin Owners
      BY <2>1 DEF IInv, SlotInv
    <3>. QED  BY <1>4, <2>1, <3>1 DEF IInv, SlotInv
  <2>2. CASE NextPort /\ enabled' = enabled
    BY <1>2, <1>4, <2>2 DEF IInv, SlotInv, NextPort
  <2>3. CASE up # "xhci"
    BY <1>2, <2>3 DEF SlotInv
  <2>. QED  BY <1>3, <2>1, <2>2, <2>3
<1>10. PortInv'
  BY <1>2, <1>4 DEF IInv, PortInv
<1>11. NoGhost' /\ ListIsLive'
  BY <1>2 DEF IInv, NoGhost, ListIsLive
<1>. QED  BY <1>4, <1>6, <1>8, <1>9, <1>10, <1>11 DEF IInv

\* The second half: an entry is taken, and the port is held to be occupied.
LEMMA SecondHalf ==
    ASSUME IInv, Loops, probing # 0
    PROVE  IInv'
<1>. USE Constants DEF hardware, table
<1>1. XhciProbed(probing) \/ EhciProbed(probing) \/ OhciProbed(probing)
  BY DEF Loops, Probe
<1>2. probing \in Slots /\ probing \notin Owners /\ port \notin port_ccs
      /\ (up # "xhci" => probing = port)
  BY DEF Loops, IInv, TypeInv, LoopInv, SlotInv, PortInv
<1>3. /\ UNCHANGED <<attached, changed, enabled, up>>
      /\ port' = port + 1 /\ probing' = 0
      /\ \/ UNCHANGED <<USB_DEVICES, USB_NDEV, dev_idx, port_ccs, linked>>
         \/ /\ dev_alloc(probing) /\ port_ccs' = port_ccs \cup {port}
            /\ port \in attached \cup changed
            /\ linked' # linked => linked' = port
  BY <1>1, <1>2 DEF XhciProbed, EhciProbed, OhciProbed, NextPort, Listed, IInv, LoopInv
<1>4. /\ TableInv'
      /\ USB_DEVICES' \in [Entries' -> Int] /\ Entries' = Entries
      /\ dev_idx' \in [Slots -> Entries' \cup {None}]
      /\ USB_NDEV' \in Nat
      /\ Owners' \in {Owners, Owners \cup {probing}}
  <2>1. CASE UNCHANGED <<USB_DEVICES, USB_NDEV, dev_idx>>
    BY <1>3, <2>1, TableSame DEF IInv, TypeInv
  <2>2. CASE dev_alloc(probing)
    BY <1>2, <1>3, <2>2, Alloc DEF IInv
  <2>. QED  BY <1>3, <2>1, <2>2
<1>5. port' \in 1 .. NPorts + 1 /\ port_ccs' \in SUBSET Ports
  BY <1>3 DEF Loops, IInv, TypeInv, Ports
<1>6. TypeInv'
  BY <1>3, <1>4, <1>5 DEF IInv, TypeInv, Loops
<1>7. LoopInv'
  <2>1. port' # port /\ at' \in {"init", "hotplug"}
    BY <1>3 DEF Loops, IInv, TypeInv
  <2>2. at' = "init" => port_ccs' \subseteq 1 .. port' - 1
    BY <1>3 DEF Loops, IInv, LoopInv, TypeInv, Ports
  <2>. QED  BY <1>3, <2>1, <2>2 DEF LoopInv
<1>8. SlotInv'
  BY <1>3, <1>4 DEF IInv, SlotInv
<1>9. PortInv'
  <2>1. CASE UNCHANGED <<USB_DEVICES, USB_NDEV, dev_idx, port_ccs>>
    BY <1>3, <2>1, TableSame DEF IInv, PortInv
  <2>2. CASE port_ccs' = port_ccs \cup {port}
    BY <1>2, <1>3, <1>4, <1>6, <2>2, Joins DEF IInv, Loops
  <2>. QED  BY <1>3, <2>1, <2>2
<1>10. NoGhost' /\ ListIsLive'
  BY <1>3 DEF IInv, NoGhost, ListIsLive
<1>. QED  BY <1>4, <1>6, <1>7, <1>8, <1>9, <1>10 DEF IInv

\* The loop at the ports: a change is looked at, and the record follows.
LEMMA LookAtPort ==
    ASSUME IInv, HotplugPort
    PROVE  IInv'
<1>. USE Constants DEF hardware, table
<1>1. /\ at = "hotplug" /\ port \in Ports /\ probing = 0
      /\ UNCHANGED <<attached, enabled, up>> /\ changed' = changed \ {port}
  BY DEF HotplugPort, IInv, LoopInv
<1>2. CASE /\ port \notin port_ccs /\ at' = "probe"
           /\ UNCHANGED <<linked, table, port_ccs, port, probing>>
  <2>1. Owners' = Owners /\ Entries' = Entries /\ TableInv'
    BY <1>1, <1>2, TableSame DEF IInv
  <2>2. TypeInv' /\ LoopInv' /\ SlotInv' /\ PortInv'
    BY <1>1, <1>2, <2>1 DEF IInv, TypeInv, LoopInv, SlotInv, PortInv
  <2>3. NoGhost' /\ ListIsLive'
    BY <1>1, <1>2 DEF IInv, NoGhost, ListIsLive
  <2>. QED  BY <2>1, <2>2, <2>3 DEF IInv
<1>3. CASE /\ port \in changed => (port \in Ccs <=> port \in port_ccs)
           /\ NextPort /\ UNCHANGED <<linked, table, port_ccs, at>>
  <2>1. Owners' = Owners /\ Entries' = Entries /\ TableInv'
    BY <1>1, <1>3, TableSame DEF IInv
  <2>2. port' \in 1 .. NPorts + 1 /\ probing' = 0
    BY <1>1, <1>3 DEF NextPort, Ports
  <2>3. TypeInv' /\ LoopInv' /\ SlotInv' /\ PortInv'
    BY <1>1, <1>3, <2>1, <2>2 DEF IInv, TypeInv, LoopInv, SlotInv, PortInv
  <2>4. NoGhost' /\ ListIsLive'
    BY <1>1, <1>3 DEF IInv, NoGhost, ListIsLive, Ccs
  <2>. QED  BY <2>1, <2>3, <2>4 DEF IInv
<1>4. CASE /\ port \in port_ccs /\ port_ccs' = port_ccs \ {port}
           /\ NextPort /\ at' = at
           /\ \/ up = "xhci" /\ XhciGone /\ UNCHANGED linked
              \/ up = "ehci" /\ EhciGone(port)
              \/ up = "ohci" /\ OhciGone(port)
  <2>1. port \in Slots
    BY <1>1
  <2>2. \/ /\ UNCHANGED <<USB_DEVICES, USB_NDEV, dev_idx>>
           /\ IF up = "xhci" THEN Owners = {} ELSE port \notin Owners
        \/ \E u \in Owners : /\ dev_free(NameOf(u)) /\ (up # "xhci" => u = port)
                             /\ dev_idx' = [dev_idx EXCEPT ![u] = None]
    <3>1. CASE up = "xhci" /\ XhciGone
      <4>. DEFINE used == {s \in Slots : dev_idx[s] # None /\ USB_DEVICES[dev_idx[s]] = s}
      <4>1. used = Owners /\ \A s \in Owners : NameOf(s) = s
        BY <3>1 DEF IInv, TableInv, Owners, NameOf
      <4>2. CASE used = {}
        BY <3>1, <4>1, <4>2 DEF XhciGone
      <4>3. CASE used # {}
        <5>1. Min(used) \in Owners
          BY <4>1, <4>3, MinIsIn DEF Owners
        <5>2. dev_free(Min(used)) /\ dev_idx' = [dev_idx EXCEPT ![Min(used)] = None]
          BY <3>1, <4>3 DEF XhciGone
        <5>. QED  BY <3>1, <4>1, <5>1, <5>2
      <4>. QED  BY <4>2, <4>3
    <3>2. CASE up # "xhci" /\ PortGone(port)
      <4>1. CASE dev_idx[port] = None
        BY <2>1, <3>2, <4>1 DEF PortGone, Owners, IInv, TypeInv
      <4>2. CASE dev_idx[port] # None
        BY <2>1, <3>2, <4>2 DEF PortGone, Owners
      <4>. QED  BY <4>1, <4>2
    <3>. QED  BY <1>4, <3>1, <3>2 DEF EhciGone, OhciGone
  <2>3. /\ TableInv'
        /\ USB_DEVICES' \in [Entries' -> Int] /\ Entries' = Entries
        /\ dev_idx' \in [Slots -> Entries' \cup {None}]
        /\ USB_NDEV' \in Nat
        /\ \/ \E u \in Owners : Owners' = Owners \ {u} /\ (up # "xhci" => u = port)
           \/ Owners' = Owners /\ (IF up = "xhci" THEN Owners = {} ELSE port \notin Owners)
    <3>1. CASE UNCHANGED <<USB_DEVICES, USB_NDEV, dev_idx>>
               /\ IF up = "xhci" THEN Owners = {} ELSE port \notin Owners
      BY <1>1, <3>1, TableSame DEF IInv, TypeInv
    <3>2. CASE \E u \in Owners : /\ dev_free(NameOf(u)) /\ (up # "xhci" => u = port)
                                 /\ dev_idx' = [dev_idx EXCEPT ![u] = None]
      <4>1. PICK u \in Owners : /\ dev_free(NameOf(u)) /\ (up # "xhci" => u = port)
                                /\ dev_idx' = [dev_idx EXCEPT ![u] = None]
        BY <3>2
      <4>2. TypeInv /\ TableInv /\ up' = up
        BY <1>1 DEF IInv
      <4>. QED  BY <4>1, <4>2, Freed
    <3>. QED  BY <2>2, <3>1, <3>2
  <2>4. port' \in 1 .. NPorts + 1 /\ probing' = 0 /\ port_ccs' \subseteq port_ccs
    BY <1>1, <1>4 DEF NextPort, Ports
  <2>5. TypeInv' /\ LoopInv'
    BY <1>1, <1>4, <2>3, <2>4 DEF IInv, TypeInv, LoopInv
  <2>6. SlotInv'
    BY <1>1, <2>3, <2>4 DEF IInv, SlotInv
  <2>7. PortInv'
    BY <1>1, <1>4, <2>3, Leaves DEF IInv
  <2>8. NoGhost'
    BY <1>1, <1>4 DEF IInv, NoGhost
  <2>9. ListIsLive'
    BY <1>1, <1>4 DEF IInv, ListIsLive, EhciGone
  <2>. QED  BY <2>3, <2>5, <2>6, <2>7, <2>8, <2>9 DEF IInv
<1>5. \/ /\ port \notin port_ccs /\ at' = "probe"
         /\ UNCHANGED <<linked, table, port_ccs, port, probing>>
      \/ /\ port \in changed => (port \in Ccs <=> port \in port_ccs)
         /\ NextPort /\ UNCHANGED <<linked, table, port_ccs, at>>
      \/ /\ port \in port_ccs /\ port_ccs' = port_ccs \ {port}
         /\ NextPort /\ at' = at
         /\ \/ up = "xhci" /\ XhciGone /\ UNCHANGED linked
            \/ up = "ehci" /\ EhciGone(port)
            \/ up = "ohci" /\ OhciGone(port)
  BY Zenon DEF HotplugPort
<1>. QED  BY <1>2, <1>3, <1>4, <1>5, Zenon

\* What happens outside of the enumerations and of the loop at the ports.
LEMMA OtherSteps ==
    ASSUME IInv,
           \/ at = "init" /\ port > NPorts /\ Enumerate
           \/ usb_poll \/ HotplugEnd \/ World \/ UNCHANGED vars
    PROVE  IInv'
<1>. USE Constants DEF hardware, table
<1>1. /\ UNCHANGED <<enabled, linked, up, USB_DEVICES, USB_NDEV, dev_idx, port_ccs, probing>>
      /\ \/ UNCHANGED <<attached, changed>>
         \/ \E p \in Ports : /\ changed' = changed \cup {p}
                             /\ attached' \in {attached \cup {p}, attached \ {p}}
      /\ \/ UNCHANGED <<at, port>>
         \/ port > NPorts /\ at' = "poll" /\ port' = 1 /\ at \in {"init", "hotplug"}
         \/ at = "poll" /\ at' = "hotplug" /\ port' = port
  <2>1. CASE at = "init" /\ port > NPorts /\ Enumerate
    BY <2>1 DEF Enumerate, Ports
  <2>2. CASE usb_poll
    <3>1. at' = at \/ (at = "poll" /\ at' = "hotplug")
      BY <2>2 DEF usb_poll
    <3>. QED  BY <2>2, <3>1 DEF usb_poll
  <2>3. CASE HotplugEnd
    BY <2>3 DEF HotplugEnd
  <2>4. ASSUME NEW p \in Ports, Plug(p) \/ Unplug(p)
        PROVE  /\ UNCHANGED <<enabled, linked, up, table, port_ccs, at, port, probing>>
               /\ changed' = changed \cup {p}
               /\ attached' \in {attached \cup {p}, attached \ {p}}
    BY <2>4 DEF Plug, Unplug
  <2>5. CASE Load \/ Tick \/ \E u \in Slots : Complete(u)
    BY <2>5 DEF Load, Tick, Complete
  <2>6. CASE UNCHANGED vars
    BY <2>6 DEF vars
  <2>. QED  BY <2>1, <2>2, <2>3, <2>4, <2>5, <2>6 DEF World
<1>2. Owners' = Owners /\ Entries' = Entries /\ TableInv'
  BY <1>1, TableSame DEF IInv
<1>3. TypeInv'
  BY <1>1, <1>2 DEF IInv, TypeInv
<1>4. LoopInv'
  BY <1>1 DEF IInv, TypeInv, LoopInv, Ports
<1>5. SlotInv' /\ PortInv' /\ ListIsLive'
  BY <1>1, <1>2 DEF IInv, SlotInv, PortInv, ListIsLive
<1>6. NoGhost'
  BY <1>1 DEF IInv, NoGhost
<1>. QED  BY <1>2, <1>3, <1>4, <1>5, <1>6 DEF IInv

\* Every step keeps the invariant.
LEMMA StepKeeps == IInv /\ [Next]_vars => IInv'
<1>. SUFFICES ASSUME IInv, [Next]_vars PROVE IInv'
  OBVIOUS
<1>1. CASE Loops
  BY <1>1, FirstHalf, SecondHalf
<1>2. CASE HotplugPort
  BY <1>2, LookAtPort
<1>3. CASE Enumerate
  BY <1>1, <1>3, OtherSteps DEF Enumerate, Loops, Ports, IInv, TypeInv
<1>4. CASE HotplugProbe
  BY <1>1, <1>4 DEF HotplugProbe, Loops, IInv, LoopInv
<1>5. CASE usb_poll \/ HotplugEnd \/ World \/ UNCHANGED vars
  BY <1>5, OtherSteps
<1>. QED  BY <1>2, <1>3, <1>4, <1>5 DEF Next, usb_thread

\* The invariant holds in every state.
THEOREM Inductive == Spec => []IInv
BY InitEstablishes, StepKeeps, PTL DEF Spec

----
(***************************************************************************)
(* The theorems.                                                           *)
(***************************************************************************)
\* No driver holds a port to be occupied whose device is gone, unless the
\* change is still to be looked at: hotplug loops and enumerations of the
\* three drivers never clear the change of a port they have not read.
THEOREM GhostsAreNoticed == Spec => []NoGhost
BY Inductive, PTL DEF IInv

\* The periodic list of the EHCI names an occupied port or none.
THEOREM PeriodicListIsLive == Spec => []ListIsLive
BY Inductive, PTL DEF IInv

\* Table of devices, indices of the drivers and occupied ports agree.
THEOREM TableAgrees == Spec => []EntriesHaveOwners
<1>1. IInv => EntriesHaveOwners
  BY DEF IInv, TableInv, PortInv, EntriesHaveOwners, Used
<1>. QED  BY <1>1, Inductive, PTL
====
