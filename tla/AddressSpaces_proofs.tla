---- MODULE AddressSpaces_proofs ----
(***************************************************************************)
(* Proofs about AddressSpaces, for every layout, table size and number of  *)
(* spaces.  The inductive invariant says what the entries of the tables    *)
(* are when they carry PTE_U, and which frames are in use.                 *)
(***************************************************************************)
EXTENDS AddressSpaces, TLAPS

\* A 2 MB page belongs to the identity map; programs have tables only.
BlocksAreShared == \A d \in Dirs : dir[d] = Block => d[1] = Shared

\* A table entry with PTE_U maps a frame that was handed out for a program.
UserLeavesHanded == \A a \in Places : leafUser[a] => leaf[a] \in handed

NoGrantsYet ==
    stage \in {"heap", "threads", "load"} => granted = [s \in Spaces |-> {}]

\* A walk that succeeds for a program ends in a table entry.
Open(a) ==
    /\ dir[DirOf(a)] \in Pool /\ dirUser[DirOf(a)]
    /\ leaf[a] # None /\ leafUser[a]

\* What a program was given is open, unless the kernel took the place.
Kept(s, v) ==
    /\ p4[s] # None
    /\ v \notin High => RootEntry(v) \in rootUser[s]
    /\ Place(s, v) \notin {Shared} \X Taken => Open(Place(s, v))

GrantsOpen == \A s \in Spaces : \A v \in granted[s] : Kept(s, v)

\* The part of OneUseOfAFrame that holds in every state.
LeavesOnce ==
    /\ \A a, b \in Remapped : leaf[a] = leaf[b] => a = b
    /\ \A a \in Remapped : leaf[a] \notin Tables
    /\ Tables \cap free = {}

LeavesTaken == stage # "hung" => \A a \in Remapped : leaf[a] \notin free

IInv ==
    /\ TypeOK
    /\ BlocksAreShared
    /\ UserLeavesHanded
    /\ NoGrantsYet
    /\ GrantsOpen
    /\ LeavesOnce
    /\ LeavesTaken

----
(***************************************************************************)
(* Places.                                                                 *)
(***************************************************************************)
LEMMA Numbers ==
    /\ Pages \subseteq Nat
    /\ Pool \subseteq Nat
    /\ None \notin Nat /\ Absent \notin Nat /\ Block \notin Nat
    /\ Absent # Block
BY LayoutAssumption DEF Pages, Low, High, Alias, None, Absent, Block

\* The walk for a page of a space ends at a place.
LEMMA PlaceIsPlace ==
    ASSUME NEW s \in Spaces, NEW v \in Pages
    PROVE  Place(s, v) \in Places /\ DirOf(Place(s, v)) \in Dirs
<1>1. ASSUME v \in Low PROVE Place(s, v) \in Places
  BY <1>1 DEF Place, Places
<1>2. ASSUME v \notin Low, v \in Alias PROVE Place(s, v) \in Places
  <2>1. v - AliasBase \in Low
    BY <1>2, LayoutAssumption DEF Alias, Low
  <2>2. Place(s, v) = <<Shared, v - AliasBase>>
    BY <1>2 DEF Place
  <2> QED BY <2>1, <2>2 DEF Places
<1>3. ASSUME v \notin Low, v \notin Alias PROVE Place(s, v) \in Places
  BY <1>3 DEF Place, Places, Pages
<1>4. Place(s, v) \in Places
  BY <1>1, <1>2, <1>3
<1> QED BY <1>4 DEF Dirs

\* The kernel's own pages are below entry 0.
LEMMA KernelPlace ==
    ASSUME NEW v \in Low
    PROVE  Place(Kernel, v) = <<Shared, v>> /\ Place(Kernel, v) \in Places
BY DEF Place, Places

\* Every place has a directory.
LEMMA PlaceDir == \A a \in Places : DirOf(a) \in Dirs
BY DEF Dirs

\* A place in the tree below entry 0 is a page of the identity map.
LEMMA SharedPlace ==
    ASSUME NEW a \in Places, DirOf(a)[1] = Shared
    PROVE  a[2] \in Low
<1>1. a[1] = Shared
  BY DEF DirOf
<1>2. a \in {Shared} \X Low
  BY <1>1, NamesAssumption DEF Places
<1> QED BY <1>2

\* Where the heap, the stacks and the image are.
LEMMA LowPages ==
    /\ Heap \subseteq Low
    /\ \A i \in DOMAIN KStack : KStack[i] \subseteq Low /\ KStack[i] \subseteq Taken
    /\ \A i \in DOMAIN UStack : UStack[i] \subseteq Pages /\ i \in DOMAIN KStack
    /\ Image \subseteq Pages /\ FirstStack \subseteq Pages
BY LayoutAssumption DEF Pages, Taken

\* A page that a program can use is open.
LEMMA UsableIsOpen ==
    ASSUME TypeOK, NEW s \in Spaces, NEW v \in Pages, Accessible(s, v)
    PROVE  Open(Place(s, v))
<1> DEFINE a == Place(s, v)
<1>1. a \in Places /\ DirOf(a) \in Dirs
  BY PlaceIsPlace
<1>2. dirUser[DirOf(a)]
  BY DEF Accessible
<1>3. dir[DirOf(a)] \in Pool
  BY <1>1, <1>2 DEF TypeOK
<1>4. dir[DirOf(a)] # Block
  BY <1>3, Numbers
<1>5. leaf[a] # None /\ leafUser[a]
  BY <1>4 DEF Accessible
<1> QED BY <1>2, <1>3, <1>5 DEF Open

----
(***************************************************************************)
(* A step of vmap.                                                         *)
(***************************************************************************)
\* MapFresh with its frames named: F for the pages, G for the tables.
Maps(kernel, user, roots, F, G) ==
    /\ F \in [kernel \cup user -> free]
    /\ G \in [Lacking(kernel \cup user) -> free]
    /\ \A x, y \in kernel \cup user : F[x] = F[y] => x = y
    /\ \A x, y \in Lacking(kernel \cup user) : G[x] = G[y] => x = y
    /\ \A a \in kernel \cup user :
           /\ F[a] \notin roots
           /\ \A d \in Lacking(kernel \cup user) : F[a] # G[d]
    /\ \A d \in Lacking(kernel \cup user) : G[d] \notin roots
    /\ free' = free \ ({F[a] : a \in kernel \cup user}
                        \cup {G[d] : d \in Lacking(kernel \cup user)}
                        \cup roots)
    /\ dir' = [d \in Dirs |->
                  IF d \in Lacking(kernel \cup user) THEN G[d] ELSE dir[d]]
    /\ dirUser' = [d \in Dirs |->
                      MergedUser(d, Lacking(kernel \cup user), user)]
    /\ leaf' = [a \in Places |->
                   IF a \in kernel \cup user THEN F[a]
                   ELSE Inherited(a, Lacking(kernel \cup user))]
    /\ leafUser' = [a \in Places |->
                       IF a \in kernel \cup user THEN a \in user
                       ELSE leafUser[a]]
    /\ handed' = handed \cup {F[a] : a \in user}

\* No page of a 2 MB page has PTE_U before it is split.
LEMMA InheritedUserIs ==
    ASSUME TypeOK, NEW a \in Places, NEW lacking
    PROVE  InheritedUser(a, lacking) = leafUser[a]
<1>1. leafUser[a] \in BOOLEAN /\ (leafUser[a] => dir[DirOf(a)] \in Pool)
  BY DEF TypeOK
<1>2. leafUser[a] => dir[DirOf(a)] # Block
  BY <1>1, Numbers
<1> QED BY <1>1, <1>2 DEF InheritedUser

\* MapFresh names its frames; their order plays no part in what follows.
LEMMA FreshIsMaps ==
    ASSUME TypeOK, NEW kernel, NEW user, NEW roots, MapFresh(kernel, user, roots)
    PROVE  \E F, G : Maps(kernel, user, roots, F, G)
<1> DEFINE places == kernel \cup user
           lacking == Lacking(places)
           lowest == {f \in free : Cardinality({g \in free : g < f})
                                      < Cardinality(places)
                                        + Cardinality(lacking)
                                        + Cardinality(roots)}
<1>1. PICK F \in [places -> lowest], G \in [lacking -> lowest] :
        /\ Injective(F) /\ Injective(G)
        /\ \A place \in places :
               F[place] \notin roots \cup {G[d] : d \in lacking}
        /\ \A d \in lacking : G[d] \notin roots
        /\ free' = free \ (FramesTaken(F, G) \cup roots)
        /\ dir' = [d \in Dirs |-> IF d \in lacking THEN G[d] ELSE dir[d]]
        /\ dirUser' = [d \in Dirs |-> MergedUser(d, lacking, user)]
        /\ leaf' = [place \in Places |->
                       IF place \in places THEN F[place]
                       ELSE Inherited(place, lacking)]
        /\ leafUser' = [place \in Places |->
                           IF place \in places THEN place \in user
                           ELSE InheritedUser(place, lacking)]
        /\ handed' = handed \cup {F[place] : place \in user}
  BY DEF MapFresh
<1>2. F \in [places -> free] /\ G \in [lacking -> free]
  OBVIOUS
<1>3. FramesTaken(F, G) = {F[a] : a \in places} \cup {G[d] : d \in lacking}
  BY DEF FramesTaken
<1> HIDE DEF lowest
<1>4. /\ \A x, y \in places : F[x] = F[y] => x = y
      /\ \A x, y \in lacking : G[x] = G[y] => x = y
  BY <1>1, <1>2 DEF Injective
<1>5. free' = free \ ({F[a] : a \in places} \cup {G[d] : d \in lacking}
                       \cup roots)
  BY <1>1, <1>3
<1>6. \A a \in places : F[a] \notin roots /\ \A d \in lacking : F[a] # G[d]
  BY <1>1
<1>8. leafUser' = [a \in Places |-> IF a \in places THEN a \in user ELSE leafUser[a]]
  <2> HIDE DEF places, lacking
  <2> QED BY <1>1, InheritedUserIs
<1>7. Maps(kernel, user, roots, F, G)
  BY <1>1, <1>2, <1>4, <1>5, <1>6, <1>8 DEF Maps
<1> QED BY <1>7

\* What the tables look like after a step of vmap.
LEMMA MapTypes ==
    ASSUME IInv, NEW kernel \in SUBSET Places, NEW user \in SUBSET Places,
           NEW roots \in SUBSET free, NEW F, NEW G,
           Maps(kernel, user, roots, F, G)
    PROVE  /\ free' \subseteq Pool
           /\ dir' \in [Dirs -> Pool \cup {Absent, Block}]
           /\ dirUser' \in [Dirs -> BOOLEAN]
           /\ leaf' \in [Places -> Low \cup {None}]
           /\ leafUser' \in [Places -> BOOLEAN]
           /\ handed' \subseteq Pool
           /\ \A d \in Dirs : dirUser'[d] => dir'[d] \in Pool
           /\ \A a \in Places :
                  /\ leaf'[a] # None => dir'[DirOf(a)] \in Pool
                  /\ leafUser'[a] => leaf'[a] # None
           /\ BlocksAreShared'
           /\ UserLeavesHanded'
<1> DEFINE places == kernel \cup user
           lacking == Lacking(places)
<1>1. /\ F \in [places -> free] /\ G \in [lacking -> free]
      /\ dir' = [d \in Dirs |-> IF d \in lacking THEN G[d] ELSE dir[d]]
      /\ dirUser' = [d \in Dirs |-> MergedUser(d, lacking, user)]
      /\ leaf' = [a \in Places |-> IF a \in places THEN F[a]
                                   ELSE Inherited(a, lacking)]
      /\ leafUser' = [a \in Places |-> IF a \in places THEN a \in user
                                       ELSE leafUser[a]]
      /\ handed' = handed \cup {F[a] : a \in user}
      /\ free' \subseteq free
  BY DEF Maps
<1>2. /\ free \subseteq Pool /\ Pool \subseteq Low /\ Pool \subseteq Nat
      /\ handed \subseteq Pool
      /\ dir \in [Dirs -> Pool \cup {Absent, Block}]
      /\ dirUser \in [Dirs -> BOOLEAN]
      /\ leaf \in [Places -> Low \cup {None}]
      /\ leafUser \in [Places -> BOOLEAN]
      /\ \A d \in Dirs : dirUser[d] => dir[d] \in Pool
      /\ \A a \in Places : leaf[a] # None => dir[DirOf(a)] \in Pool
      /\ \A a \in Places : leafUser[a] => leaf[a] # None
  BY LayoutAssumption, Numbers DEF IInv, TypeOK
<1>3. \A d \in Dirs : d \in lacking <=>
          d \in {DirOf(a) : a \in places} /\ dir[d] \in {Absent, Block}
  BY DEF Lacking
<1>4. \A d \in Dirs : dir'[d] \in Pool \cup {Absent, Block}
  BY <1>1, <1>2
<1>5. \A d \in {DirOf(a) : a \in places} : d \in Dirs /\ dir'[d] \in Pool
  <2> SUFFICES ASSUME NEW a \in places
               PROVE  DirOf(a) \in Dirs /\ dir'[DirOf(a)] \in Pool
    OBVIOUS
  <2>1. DirOf(a) \in Dirs
    BY PlaceDir
  <2>2. DirOf(a) \in lacking \/ dir[DirOf(a)] \in Pool
    BY <2>1, <1>2, <1>3
  <2> QED BY <2>1, <2>2, <1>1, <1>2
<1>6. \A d \in Dirs : dir[d] \in Pool => dir'[d] = dir[d]
  <2>1. \A d \in Dirs : dir[d] \in Pool => d \notin lacking
    BY <1>2, <1>3, Numbers
  <2> QED BY <2>1, <1>1
<1>7. \A d \in Dirs : dirUser'[d] \in BOOLEAN /\ (dirUser'[d] => dir'[d] \in Pool)
  <2> SUFFICES ASSUME NEW d \in Dirs
               PROVE  dirUser'[d] \in BOOLEAN /\ (dirUser'[d] => dir'[d] \in Pool)
    OBVIOUS
  <2>1. dirUser'[d] = MergedUser(d, lacking, user)
    BY <1>1
  <2>2. MergedUser(d, lacking, user) \in BOOLEAN
    BY DEF MergedUser
  <2>3. MergedUser(d, lacking, user) =>
            d \in {DirOf(a) : a \in places} \/ dir[d] \in Pool
    BY <1>2 DEF MergedUser
  <2> QED BY <2>1, <2>2, <2>3, <1>5, <1>6
<1>8. \A a \in Places \ places :
          /\ Inherited(a, lacking) \in Low \cup {None}
          /\ Inherited(a, lacking) # None => dir'[DirOf(a)] \in Pool
          /\ leafUser[a] => Inherited(a, lacking) = leaf[a]
  <2> SUFFICES ASSUME NEW a \in Places, a \notin places
               PROVE  /\ Inherited(a, lacking) \in Low \cup {None}
                      /\ Inherited(a, lacking) # None => dir'[DirOf(a)] \in Pool
                      /\ leafUser[a] => Inherited(a, lacking) = leaf[a]
    OBVIOUS
  <2>1. DirOf(a) \in Dirs
    BY PlaceDir
  <2>2. CASE DirOf(a) \in lacking /\ dir[DirOf(a)] = Block
    <3>1. Inherited(a, lacking) = a[2]
      BY <2>2 DEF Inherited
    <3>2. a[2] \in Low
      BY <2>1, <2>2, SharedPlace DEF IInv, BlocksAreShared
    <3>3. dir'[DirOf(a)] \in Pool
      BY <2>1, <2>2, <1>1, <1>2
    <3>4. ~leafUser[a]
      BY <2>2, <1>2, Numbers
    <3> QED BY <3>1, <3>2, <3>3, <3>4
  <2>3. CASE ~(DirOf(a) \in lacking /\ dir[DirOf(a)] = Block)
    <3>1. Inherited(a, lacking) = leaf[a]
      BY <2>3 DEF Inherited
    <3>2. leaf[a] # None => dir'[DirOf(a)] \in Pool
      BY <2>1, <1>2, <1>6
    <3> QED BY <3>1, <3>2, <1>2
  <2> QED BY <2>2, <2>3
<1>9. \A a \in places :
          leaf'[a] = F[a] /\ F[a] \in Pool /\ F[a] \in Low /\ F[a] # None
  <2> SUFFICES ASSUME NEW a \in places
               PROVE  leaf'[a] = F[a] /\ F[a] \in Pool /\ F[a] \in Low /\ F[a] # None
    OBVIOUS
  <2>1. a \in Places
    OBVIOUS
  <2> QED BY <2>1, <1>1, <1>2, Numbers
<1>10. \A a \in Places : /\ leaf'[a] \in Low \cup {None}
                         /\ leaf'[a] # None => dir'[DirOf(a)] \in Pool
                         /\ leafUser'[a] \in BOOLEAN
                         /\ leafUser'[a] => leaf'[a] # None /\ leaf'[a] \in handed'
  <2> SUFFICES ASSUME NEW a \in Places
               PROVE  /\ leaf'[a] \in Low \cup {None}
                      /\ leaf'[a] # None => dir'[DirOf(a)] \in Pool
                      /\ leafUser'[a] \in BOOLEAN
                      /\ leafUser'[a] => leaf'[a] # None /\ leaf'[a] \in handed'
    OBVIOUS
  <2>1. CASE a \in places
    <3>1. leafUser'[a] = (a \in user)
      BY <2>1, <1>1
    <3>2. a \in user => F[a] \in handed'
      BY <1>1
    <3>3. leafUser'[a] \in BOOLEAN
      BY <3>1
    <3>4. dir'[DirOf(a)] \in Pool
      BY <2>1, <1>5
    <3>5. leaf'[a] = F[a] /\ F[a] \in Low /\ F[a] # None
      BY <2>1, <1>9
    <3> QED BY <3>1, <3>2, <3>3, <3>4, <3>5
  <2>2. CASE a \notin places
    <3>1. leafUser'[a] = leafUser[a] /\ leaf'[a] = Inherited(a, lacking)
      BY <2>2, <1>1
    <3>2. leafUser[a] => leaf[a] \in handed
      BY DEF IInv, UserLeavesHanded
    <3> QED BY <2>2, <3>1, <3>2, <1>1, <1>2, <1>8
  <2> QED BY <2>1, <2>2
<1>11. dir' \in [Dirs -> Pool \cup {Absent, Block}]
       /\ dirUser' \in [Dirs -> BOOLEAN]
  BY <1>1, <1>4, <1>7
<1>12. leaf' \in [Places -> Low \cup {None}]
       /\ leafUser' \in [Places -> BOOLEAN]
  BY <1>1, <1>10
<1>13. handed' \subseteq Pool
  BY <1>1, <1>2, <1>9
<1>14. BlocksAreShared'
  <2> SUFFICES ASSUME NEW d \in Dirs, dir'[d] = Block
               PROVE  d[1] = Shared
    BY DEF BlocksAreShared
  <2>1. dir'[d] \notin Pool
    BY <1>2, Numbers
  <2>2. dir[d] = Block
    BY <2>1, <1>1, <1>2
  <2> QED BY <2>2 DEF IInv, BlocksAreShared
<1>15. UserLeavesHanded'
  BY <1>10 DEF UserLeavesHanded
<1> QED BY <1>1, <1>2, <1>7, <1>10, <1>11, <1>12, <1>13, <1>14, <1>15

\* A step of vmap opens the pages of programs that it maps, and keeps open
\* the others that it does not map for the kernel.
LEMMA MapOpens ==
    ASSUME IInv, NEW kernel \in SUBSET Places, NEW user \in SUBSET Places,
           NEW roots \in SUBSET free, NEW F, NEW G,
           Maps(kernel, user, roots, F, G),
           NEW a \in Places
    PROVE  /\ a \in user => Open(a)'
           /\ Open(a) /\ a \notin kernel => Open(a)'
<1> DEFINE lacking == Lacking(kernel \cup user)
<1>1. /\ F \in [kernel \cup user -> free] /\ G \in [lacking -> free]
      /\ dir' = [d \in Dirs |-> IF d \in lacking THEN G[d] ELSE dir[d]]
      /\ dirUser' = [d \in Dirs |-> MergedUser(d, lacking, user)]
      /\ leaf' = [b \in Places |-> IF b \in kernel \cup user THEN F[b]
                                   ELSE Inherited(b, lacking)]
      /\ leafUser' = [b \in Places |-> IF b \in kernel \cup user THEN b \in user
                                       ELSE leafUser[b]]
  BY DEF Maps
<1>2. DirOf(a) \in Dirs
  BY PlaceDir
<1>3. /\ free \subseteq Pool /\ Pool \subseteq Nat
      /\ dir \in [Dirs -> Pool \cup {Absent, Block}]
  BY Numbers DEF IInv, TypeOK
<1>4. DirOf(a) \in lacking =>
          dir[DirOf(a)] \notin Pool /\ dir'[DirOf(a)] \in Pool
  <2>1. DirOf(a) \in lacking => dir[DirOf(a)] \in {Absent, Block}
    BY DEF Lacking
  <2> QED BY <2>1, <1>1, <1>2, <1>3, Numbers
<1>5. DirOf(a) \notin lacking => dir'[DirOf(a)] = dir[DirOf(a)]
  BY <1>1, <1>2
<1>6. ASSUME a \in user PROVE Open(a)'
  <2>1. leaf'[a] = F[a] /\ leafUser'[a] /\ F[a] # None
    BY <1>1, <1>3, <1>6, Numbers
  <2>2. DirOf(a) \in {DirOf(b) : b \in user}
    BY <1>6
  <2>3. dirUser'[DirOf(a)]
    BY <2>2, <1>1, <1>2 DEF MergedUser
  <2>4. DirOf(a) \in lacking \/ dir[DirOf(a)] \in Pool
    BY <1>2, <1>3, <1>6 DEF Lacking
  <2> QED BY <2>1, <2>3, <2>4, <1>4, <1>5 DEF Open
<1>7. ASSUME Open(a), a \notin kernel, a \notin user PROVE Open(a)'
  <2>1. DirOf(a) \notin lacking
    BY <1>4, <1>7 DEF Open
  <2>2. leaf'[a] = leaf[a] /\ leafUser'[a] = leafUser[a]
    BY <2>1, <1>1, <1>7 DEF Inherited
  <2>3. dirUser'[DirOf(a)]
    BY <2>1, <1>1, <1>2, <1>7 DEF MergedUser, Open
  <2> QED BY <2>1, <2>2, <2>3, <1>5, <1>7 DEF Open
<1> QED BY <1>6, <1>7

\* A step of vmap gives every frame it takes one use.  roots are the frames of
\* the P4s made in the step.
LEMMA MapOnce ==
    ASSUME IInv, stage # "hung",
           NEW kernel \in SUBSET Places, NEW user \in SUBSET Places,
           NEW roots \in SUBSET free, NEW F, NEW G,
           Maps(kernel, user, roots, F, G),
           p4' \in [Spaces \cup {Kernel} -> Pool \cup {None}],
           \A s \in Spaces \cup {Kernel} : p4'[s] = p4[s] \/ p4'[s] \in roots
    PROVE  LeavesOnce' /\ \A a \in Remapped' : leaf'[a] \notin free'
<1> DEFINE places == kernel \cup user
           lacking == Lacking(places)
<1>1. /\ F \in [places -> free] /\ G \in [lacking -> free]
      /\ \A x, y \in places : F[x] = F[y] => x = y
      /\ \A a \in places :
             F[a] \notin roots /\ \A d \in lacking : F[a] # G[d]
      /\ \A d \in lacking : G[d] \notin roots
      /\ dir' = [d \in Dirs |-> IF d \in lacking THEN G[d] ELSE dir[d]]
      /\ leaf' = [a \in Places |-> IF a \in places THEN F[a]
                                   ELSE Inherited(a, lacking)]
      /\ free' = free \ ({F[a] : a \in places} \cup {G[d] : d \in lacking}
                         \cup roots)
  BY DEF Maps
<1>2. /\ \A a, b \in Remapped : leaf[a] = leaf[b] => a = b
      /\ \A a \in Remapped : leaf[a] \notin Tables /\ leaf[a] \notin free
      /\ Tables \cap free = {}
  BY DEF IInv, LeavesOnce, LeavesTaken
<1>3. ASSUME NEW t \in Tables' PROVE t \in Tables \cup roots \cup {G[d] : d \in lacking}
  <2>1. CASE t \in {dir'[d] : d \in Dirs}
    <3>1. PICK d \in Dirs : t = dir'[d]
      BY <2>1
    <3>2. (d \in lacking /\ dir'[d] = G[d]) \/ dir'[d] = dir[d]
      BY <1>1
    <3>3. dir[d] \in Tables
      BY DEF Tables
    <3> QED BY <3>1, <3>2, <3>3
  <2>2. CASE t \in {p4'[s] : s \in Spaces \cup {Kernel}}
    BY <2>2 DEF Tables
  <2> QED BY <1>3, <2>1, <2>2 DEF Tables
<1>4. ASSUME NEW a \in Remapped'
      PROVE  /\ a \in Places
             /\ \/ a \in places /\ leaf'[a] = F[a] /\ F[a] \in free
                \/ a \notin places /\ a \in Remapped /\ leaf'[a] = leaf[a]
  <2>1. a \in Places /\ leaf'[a] # None /\ (leafUser'[a] \/ leaf'[a] # a[2])
    BY <1>4 DEF Remapped
  <2>2. a \in places => leaf'[a] = F[a] /\ F[a] \in free
    BY <1>1, <2>1
  <2>3. ASSUME a \notin places PROVE a \in Remapped /\ leaf'[a] = leaf[a]
    <3>1. leaf'[a] = Inherited(a, lacking)
      BY <1>1, <2>1, <2>3
    <3>2. leafUser'[a] = leafUser[a]
      BY <2>1, <2>3 DEF Maps
    <3>3. leafUser[a] => dir[DirOf(a)] # Block
      <4>1. leafUser[a] => dir[DirOf(a)] \in Pool
        BY <2>1 DEF IInv, TypeOK
      <4> QED BY <4>1, Numbers
    <3>4. leaf'[a] = leaf[a]
      BY <3>1, <3>2, <3>3, <2>1 DEF Inherited
    <3> QED BY <3>2, <3>4, <2>1 DEF Remapped
  <2> QED BY <2>1, <2>2, <2>3
<1>5. ASSUME NEW a \in Remapped' PROVE leaf'[a] \notin Tables'
  <2> SUFFICES ASSUME leaf'[a] \in Tables' PROVE FALSE
    OBVIOUS
  <2>1. leaf'[a] \in Tables \cup roots \cup {G[d] : d \in lacking}
    BY <1>3
  <2>2. CASE a \in places
    <3>1. leaf'[a] = F[a] /\ F[a] \in free
      BY <1>4, <1>5, <2>2
    <3>2. leaf'[a] \notin Tables
      BY <3>1, <1>2
    <3>3. leaf'[a] \notin roots /\ leaf'[a] \notin {G[d] : d \in lacking}
      BY <3>1, <1>1, <2>2
    <3> QED BY <2>1, <3>2, <3>3
  <2>3. CASE a \notin places
    <3>1. a \in Remapped /\ leaf'[a] = leaf[a]
      BY <1>4, <1>5, <2>3
    <3>2. leaf'[a] \notin Tables /\ leaf'[a] \notin free
      BY <3>1, <1>2
    <3>3. leaf'[a] \notin roots
      BY <3>2
    <3>4. ASSUME NEW d \in lacking PROVE G[d] \in free
      <4>1. G \in [lacking -> free]
        BY <1>1
      <4> HIDE DEF lacking
      <4> QED BY <4>1
    <3>5. leaf'[a] \notin {G[d] : d \in lacking}
      BY <3>2, <3>4
    <3> QED BY <2>1, <3>2, <3>3, <3>5
  <2> QED BY <2>2, <2>3
<1>6. \A a \in Remapped' : leaf'[a] \notin free'
  <2> SUFFICES ASSUME NEW a \in Remapped' PROVE leaf'[a] \notin free'
    OBVIOUS
  <2>1. CASE a \in places
    BY <2>1, <1>1, <1>4
  <2>2. CASE a \notin places
    <3>1. a \in Remapped /\ leaf'[a] = leaf[a]
      BY <2>2, <1>4
    <3>2. free' \subseteq free
      BY <1>1
    <3> QED BY <3>1, <3>2, <1>2
  <2> QED BY <2>1, <2>2
<1>7. ASSUME NEW a \in Remapped', NEW b \in Remapped', leaf'[a] = leaf'[b]
      PROVE  a = b
  <2>1. CASE a \in places /\ b \in places
    BY <2>1, <1>1, <1>4, <1>7
  <2>2. CASE a \notin places /\ b \notin places
    BY <2>2, <1>2, <1>4, <1>7
  <2>3. CASE (a \in places) # (b \in places)
    BY <2>3, <1>2, <1>4, <1>7
  <2> QED BY <2>1, <2>2, <2>3
<1>8. Tables' \cap free' = {}
  <2> SUFFICES ASSUME NEW t \in Tables', t \in free' PROVE FALSE
    OBVIOUS
  <2>1. t \in Tables \cup roots \cup {G[d] : d \in lacking}
    BY <1>3
  <2>2. t \in free /\ t \notin roots /\ t \notin {G[d] : d \in lacking}
    BY <1>1
  <2> QED BY <2>1, <2>2, <1>2
<1> QED BY <1>5, <1>6, <1>7, <1>8 DEF LeavesOnce

----
(***************************************************************************)
(* The invariant.                                                          *)
(***************************************************************************)
LEMMA InitEstablishes == Init => IInv
<1> SUFFICES ASSUME Init PROVE IInv
  OBVIOUS
<1>1. PICK f \in Pool :
         /\ free = Pool \ {f}
         /\ p4 = [s \in Spaces \cup {Kernel} |-> IF s = Kernel THEN f ELSE None]
  BY DEF Init
<1>2. /\ rootUser = [s \in Spaces \cup {Kernel} |-> {}]
      /\ dir = [d \in Dirs |-> IF d[1] = Shared THEN Block ELSE Absent]
      /\ dirUser = [d \in Dirs |-> FALSE]
      /\ leaf = [a \in Places |-> None]
      /\ leafUser = [a \in Places |-> FALSE]
      /\ granted = [s \in Spaces |-> {}]
      /\ handed = {} /\ stage = "heap"
  BY DEF Init
<1>3. TypeOK
  <2>1. p4 \in [Spaces \cup {Kernel} -> Pool \cup {None}]
    BY <1>1
  <2>2. dir \in [Dirs -> Pool \cup {Absent, Block}] /\ dirUser \in [Dirs -> BOOLEAN]
    BY <1>2
  <2>3. leaf \in [Places -> Low \cup {None}] /\ leafUser \in [Places -> BOOLEAN]
    BY <1>2
  <2>4. /\ \A d \in Dirs : dirUser[d] => dir[d] \in Pool
        /\ \A a \in Places : /\ leaf[a] # None => dir[DirOf(a)] \in Pool
                             /\ leafUser[a] => leaf[a] # None
    BY <1>2
  <2>5. free \subseteq Pool
    BY <1>1
  <2> QED BY <1>2, <2>1, <2>2, <2>3, <2>4, <2>5 DEF TypeOK
<1>4. BlocksAreShared
  BY <1>2, Numbers DEF BlocksAreShared
<1>5. UserLeavesHanded /\ GrantsOpen /\ NoGrantsYet
  BY <1>2 DEF UserLeavesHanded, GrantsOpen, NoGrantsYet
<1>6. Remapped = {}
  BY <1>2 DEF Remapped
<1>7. Tables \cap free = {}
  <2>1. \A d \in Dirs : dir[d] \notin Pool
    BY <1>2, Numbers
  <2>2. \A s \in Spaces \cup {Kernel} : p4[s] \notin Pool \ {f}
    BY <1>1, Numbers
  <2> QED BY <1>1, <2>1, <2>2 DEF Tables
<1> QED BY <1>3, <1>4, <1>5, <1>6, <1>7 DEF IInv, LeavesOnce, LeavesTaken

\* Any step that maps pages: the kernel's, and pages V of a program in space s.
LEMMA MapPreserves ==
    ASSUME IInv, stage # "hung", stage' \in {"threads", "load", "run", "wild"},
           NEW K, K \subseteq Low, K \subseteq Taken \/ granted = [t \in Spaces |-> {}],
           NEW s, NEW V, V # {} => s \in Spaces, V \subseteq Pages,
           NEW roots \in SUBSET free,
           MapFresh(PlacesOf(Kernel, K), PlacesOf(s, V), roots),
           p4' \in [Spaces \cup {Kernel} -> Pool \cup {None}],
           \A t \in Spaces \cup {Kernel} :
               p4'[t] = p4[t] \/ (p4[t] = None /\ p4'[t] \in roots),
           V # {} => p4'[s] # None /\ Grant(s, V),
           V = {} => UNCHANGED <<rootUser, granted>>,
           stage' \in {"run", "wild"} \/ (V = {} /\ granted = [t \in Spaces |-> {}])
    PROVE  IInv'
<1> DEFINE kernel == PlacesOf(Kernel, K)
           user == PlacesOf(s, V)
<1>1. PICK F, G : Maps(kernel, user, roots, F, G)
  BY FreshIsMaps DEF IInv
<1>2. kernel \in SUBSET Places /\ user \in SUBSET Places
  <2>1. \A v \in V : Place(s, v) \in Places
    BY PlaceIsPlace
  <2> QED BY <2>1, KernelPlace DEF PlacesOf
<1>3. /\ rootUser \in [Spaces \cup {Kernel} -> SUBSET {0, 256}]
      /\ granted \in [Spaces -> SUBSET Pages]
  BY DEF IInv, TypeOK
<1>4. /\ rootUser' \in [Spaces \cup {Kernel} -> SUBSET {0, 256}]
      /\ \A t \in Spaces : rootUser[t] \subseteq rootUser'[t]
      /\ \A t \in Spaces : granted'[t] = granted[t] \cup (IF t = s THEN V ELSE {})
      /\ granted' \in [Spaces -> SUBSET Pages]
      /\ \A v \in V : v \notin High => RootEntry(v) \in rootUser'[s]
  <2>1. CASE V = {}
    BY <2>1, <1>3
  <2>2. CASE V # {}
    <3>1. s \in Spaces /\ V \subseteq Pages
      BY <2>2
    <3>2. {RootEntry(v) : v \in V \ High} \subseteq {0, 256}
      BY DEF RootEntry
    <3>3. /\ rootUser' = [rootUser EXCEPT ![s] = @ \cup {RootEntry(v) : v \in V \ High}]
          /\ granted' = [granted EXCEPT ![s] = @ \cup V]
      BY <2>2 DEF Grant
    <3> QED BY <3>1, <3>2, <3>3, <1>3
  <2> QED BY <2>1, <2>2
<1> HIDE DEF kernel, user
<1>5. TypeOK'
  BY <1>1, <1>2, <1>4, MapTypes DEF TypeOK
<1>6. BlocksAreShared' /\ UserLeavesHanded'
  BY <1>1, <1>2, MapTypes
<1>7. kernel \subseteq {Shared} \X K
  BY KernelPlace DEF kernel, PlacesOf
<1>8. LeavesOnce' /\ LeavesTaken'
  <2>1. \A t \in Spaces \cup {Kernel} : p4'[t] = p4[t] \/ p4'[t] \in roots
    OBVIOUS
  <2>2. LeavesOnce' /\ \A a \in Remapped' : leaf'[a] \notin free'
    BY <1>1, <1>2, <2>1, MapOnce
  <2> QED BY <2>2 DEF LeavesTaken
<1>9. ASSUME NEW t \in Spaces, NEW v \in granted'[t] PROVE Kept(t, v)'
  <2>1. v \in Pages
    BY <1>4, <1>9
  <2>2. Place(t, v) \in Places
    BY <2>1, PlaceIsPlace
  <2>3. CASE v \in granted[t]
    <3>1. Kept(t, v)
      BY <2>3 DEF IInv, GrantsOpen
    <3>2. K \subseteq Taken
      BY <2>3
    <3>3. p4'[t] # None /\ (v \notin High => RootEntry(v) \in rootUser'[t])
      BY <1>4, <3>1 DEF Kept
    <3>4. ASSUME Place(t, v) \notin {Shared} \X Taken PROVE Open(Place(t, v))'
      <4>1. Place(t, v) \notin kernel /\ Open(Place(t, v))
        BY <1>7, <3>1, <3>2, <3>4 DEF Kept
      <4> QED BY <1>1, <1>2, <2>2, <4>1, MapOpens
    <3> QED BY <3>3, <3>4 DEF Kept, Place
  <2>4. CASE v \notin granted[t]
    <3>1. t = s /\ v \in V
      BY <1>4, <1>9, <2>4
    <3>2. Place(t, v) \in user
      BY <3>1 DEF user, PlacesOf
    <3>3. Open(Place(t, v))'
      BY <1>1, <1>2, <2>2, <3>2, MapOpens
    <3>4. p4'[t] # None /\ (v \notin High => RootEntry(v) \in rootUser'[t])
      BY <1>4, <3>1
    <3> QED BY <3>3, <3>4 DEF Kept, Place
  <2> QED BY <2>3, <2>4
<1>10. GrantsOpen'
  <2> USE <1>9
  <2> QED BY DEF GrantsOpen
<1>11. NoGrantsYet'
  <2>1. CASE stage' \in {"run", "wild"}
    BY <2>1 DEF NoGrantsYet
  <2>2. CASE V = {} /\ granted = [t \in Spaces |-> {}]
    BY <2>2 DEF NoGrantsYet
  <2> QED BY <2>1, <2>2
<1> QED BY <1>5, <1>6, <1>7, <1>8, <1>10, <1>11 DEF IInv

\* A step that leaves the tables alone keeps the invariant,
LEMMA RestPreserves ==
    ASSUME IInv, stage' \in {"hung", "panicked", "wild"},
           free' \subseteq Pool, stage' = "hung" \/ free' = free,
           Tables \cap free' = {}, stage # "hung",
           UNCHANGED <<p4, rootUser, dir, dirUser, leaf, leafUser, granted, handed>>
    PROVE  IInv'
<1>1. TypeOK'
  BY DEF IInv, TypeOK
<1>2. Tables' = Tables /\ Remapped' = Remapped
  BY DEF Tables, Remapped
<1>3. LeavesOnce' /\ LeavesTaken'
  BY <1>2 DEF IInv, LeavesOnce, LeavesTaken
<1>4. BlocksAreShared' /\ UserLeavesHanded'
  BY DEF IInv, BlocksAreShared, UserLeavesHanded
<1>5. GrantsOpen' /\ NoGrantsYet'
  BY DEF IInv, GrantsOpen, NoGrantsYet, Kept, Open, Place
<1> QED BY <1>1, <1>3, <1>4, <1>5 DEF IInv

\* and so does running out of frames.
LEMMA PanicPreserves ==
    ASSUME IInv, NEW places, NEW roots, OutOfFrames(places, roots),
           stage # "hung"
    PROVE  IInv'
BY RestPreserves DEF OutOfFrames, IInv, TypeOK, LeavesOnce

\* The kernel's mappings at boot keep the invariant,
LEMMA KernelMapsPreserves ==
    ASSUME IInv, NEW V, V \subseteq Low, NEW before, NEW after,
           KernelMaps(V, before, after),
           before \in {"heap", "threads"}, after \in {"threads", "load"}
    PROVE  IInv'
<1>1. stage = before /\ stage # "hung" /\ granted = [t \in Spaces |-> {}]
  BY DEF KernelMaps, IInv, NoGrantsYet
<1>2. CASE /\ MapFresh(PlacesOf(Kernel, V), {}, {})
           /\ Spared(PlacesOf(Kernel, V), after)
           /\ UNCHANGED <<p4, rootUser, granted>>
  <2>1. \A s : PlacesOf(s, {}) = {}
    BY DEF PlacesOf
  <2>2. MapFresh(PlacesOf(Kernel, V), PlacesOf(Kernel, {}), {})
    BY <1>2, <2>1
  <2>3. p4' \in [Spaces \cup {Kernel} -> Pool \cup {None}]
    BY <1>2 DEF IInv, TypeOK
  <2>4. stage' \in {after, "wild"}
    BY <1>2 DEF Spared
  <2> HIDE DEF PlacesOf
  <2> QED BY <1>1, <1>2, <2>2, <2>3, <2>4, MapPreserves
<1>3. CASE OutOfFrames(PlacesOf(Kernel, V), 0)
  BY <1>1, <1>3, PanicPreserves
<1> QED BY <1>2, <1>3 DEF KernelMaps

\* as do a new space and what is mapped in it,
LEMMA NewSpacePreserves ==
    ASSUME IInv, NEW s \in Spaces, NEW K, K \subseteq Low, K \subseteq Taken,
           NEW V, V \subseteq Pages, NEW filled,
           NewSpace(s, K, V, filled), stage # "hung"
    PROVE  IInv'
<1>1. p4[s] = None /\ p4 \in [Spaces \cup {Kernel} -> Pool \cup {None}]
      /\ free \subseteq Pool
  BY DEF NewSpace, IInv, TypeOK
<1>2. ASSUME NEW f \in free,
             MapFresh(PlacesOf(Kernel, K), PlacesOf(s, V), {f}),
             p4' = [p4 EXCEPT ![s] = f], Grant(s, V), stage' \in {"run", "wild"}
      PROVE  IInv'
  <2>1. p4' \in [Spaces \cup {Kernel} -> Pool \cup {None}]
    BY <1>1, <1>2
  <2>2. \A t \in Spaces \cup {Kernel} :
            p4'[t] = p4[t] \/ (p4[t] = None /\ p4'[t] \in {f})
    BY <1>1, <1>2
  <2>3. p4'[s] # None
    BY <1>1, <1>2, Numbers
  <2>4. V = {} => UNCHANGED <<rootUser, granted>>
    BY <1>2 DEF Grant, IInv, TypeOK
  <2>5. {f} \in SUBSET free
    OBVIOUS
  <2> QED BY <1>2, <2>1, <2>2, <2>3, <2>4, <2>5, MapPreserves
<1>3. CASE OutOfFrames(PlacesOf(Kernel, K) \cup PlacesOf(s, V), 1)
  BY <1>3, PanicPreserves
<1> QED BY <1>2, <1>3 DEF NewSpace, Spared

\* the pages that a program asks for,
LEMMA AllocPreserves ==
    ASSUME IInv, NEW s \in Spaces, NEW base \in Bases, NEW n \in 1 .. MaxPages,
           SysMemAlloc(s, base, n)
    PROVE  IInv'
<1>1. Run(base, n) \subseteq Pages /\ stage = "run" /\ p4[s] # None
  BY DEF SysMemAlloc
<1>2. CASE /\ MapFresh({}, PlacesOf(s, Run(base, n)), {})
           /\ Grant(s, Run(base, n))
           /\ Spared(PlacesOf(s, Run(base, n)), "run")
           /\ UNCHANGED p4
  <2>1. MapFresh(PlacesOf(Kernel, {}), PlacesOf(s, Run(base, n)), {})
    <3>1. PlacesOf(Kernel, {}) = {}
      BY DEF PlacesOf
    <3> QED BY <1>2, <3>1
  <2>2. p4' \in [Spaces \cup {Kernel} -> Pool \cup {None}]
    BY <1>2 DEF IInv, TypeOK
  <2>3. Run(base, n) = {} => UNCHANGED <<rootUser, granted>>
    BY <1>2 DEF Grant, IInv, TypeOK
  <2>4. stage' \in {"run", "wild"}
    BY <1>2 DEF Spared
  <2>5. p4'[s] # None
    BY <1>1, <1>2
  <2> HIDE DEF Run
  <2> QED BY <1>1, <1>2, <2>1, <2>2, <2>3, <2>4, <2>5, MapPreserves
<1>3. CASE OutOfFrames(PlacesOf(s, Run(base, n)), 0)
  BY <1>1, <1>3, PanicPreserves
<1> QED BY <1>2, <1>3 DEF SysMemAlloc

\* the half of a free that comes before the machine hangs,
LEMMA FreePreserves ==
    ASSUME IInv, NEW s \in Spaces, NEW base \in Pages, Accessible(s, base),
           stage = "run", stage' = "hung",
           free' = free \cup ({Translate(s, base)} \cap Pool),
           UNCHANGED <<p4, rootUser, dir, dirUser, leaf, leafUser, granted, handed>>
    PROVE  IInv'
<1> DEFINE a == Place(s, base)
<1>1. Open(a)
  BY UsableIsOpen DEF IInv
<1>2. a \in Places
  BY PlaceIsPlace
<1>3. Translate(s, base) = leaf[a]
  <2>1. dir[DirOf(a)] # Absent /\ dir[DirOf(a)] # Block
    BY <1>1, Numbers DEF Open
  <2> QED BY <2>1 DEF Translate
<1>4. leaf[a] \notin Tables
  <2>1. a \in Remapped
    BY <1>1, <1>2 DEF Open, Remapped
  <2> QED BY <2>1 DEF IInv, LeavesOnce
<1>5. Tables \cap free' = {}
  BY <1>3, <1>4 DEF IInv, LeavesOnce
<1>6. free' \subseteq Pool
  BY DEF IInv, TypeOK
<1> QED BY <1>5, <1>6, RestPreserves

\* and an access that may have gone astray.
LEMMA AstrayPreserves == ASSUME IInv, Astray PROVE IInv'
BY RestPreserves DEF Astray, IInv, TypeOK, LeavesOnce

\* Every step keeps the invariant.
LEMMA NextPreserves == IInv /\ [Next]_vars => IInv'
<1> SUFFICES ASSUME IInv, [Next]_vars PROVE IInv'
  OBVIOUS
<1>1. CASE MapHeap
  BY <1>1, KernelMapsPreserves, LowPages DEF MapHeap
<1>2. CASE SpawnKernelThreads
  <2>1. UNION {KStack[i] : i \in DOMAIN KStack \ DOMAIN UStack} \subseteq Low
    BY LowPages
  <2> QED BY <1>2, <2>1, KernelMapsPreserves DEF SpawnKernelThreads
<1>3. ASSUME NEW s \in Spaces, Load(s) PROVE IInv'
  <2>1. Image \cup FirstStack \subseteq Pages /\ {} \subseteq Low /\ {} \subseteq Taken
    BY LowPages
  <2>2. /\ NewSpace(s, {}, Image \cup FirstStack, PlacesOf(s, Image \cup FirstStack))
        /\ stage # "hung"
    BY <1>3 DEF Load
  <2> QED BY <2>1, <2>2, NewSpacePreserves
<1>4. ASSUME NEW s \in Spaces, NEW i \in DOMAIN UStack, SpawnUserThread(s, i)
      PROVE  IInv'
  <2>1. UStack[i] \subseteq Pages /\ KStack[i] \subseteq Low /\ KStack[i] \subseteq Taken
    BY LowPages
  <2>2. NewSpace(s, KStack[i], UStack[i], {}) /\ stage # "hung"
    BY <1>4 DEF SpawnUserThread
  <2> QED BY <2>1, <2>2, NewSpacePreserves
<1>5. ASSUME NEW s \in Spaces, NEW base \in Bases, NEW n \in 1 .. MaxPages,
             SysMemAlloc(s, base, n)
      PROVE  IInv'
  BY <1>5, AllocPreserves
<1>6. ASSUME NEW s \in Spaces, NEW base \in Bases, NEW n \in 1 .. MaxPages,
             SysMemFree(s, base, n)
      PROVE  IInv'
  <2>1. base \in Run(base, n)
    <3>1. base \in Nat
      BY LayoutAssumption, Numbers DEF Bases
    <3> QED BY <3>1 DEF Run
  <2>2. base \in Pages /\ Accessible(s, base)
    BY <1>6, <2>1 DEF SysMemFree, IInv, TypeOK
  <2>3. virt_to_phys(s, base) = {Translate(s, base)}
    BY <1>6 DEF SysMemFree, virt_to_phys
  <2>4. free' = free \cup ({Translate(s, base)} \cap Pool)
    BY <1>6, <2>3 DEF SysMemFree
  <2> QED BY <1>6, <2>2, <2>4, FreePreserves DEF SysMemFree
<1>8. CASE Astray
  BY <1>8, AstrayPreserves
<1>7. CASE UNCHANGED vars
  <2>1. TypeOK'
    BY <1>7 DEF vars, IInv, TypeOK
  <2>2. Tables' = Tables /\ Remapped' = Remapped
    BY <1>7 DEF vars, Tables, Remapped
  <2>3. LeavesOnce' /\ LeavesTaken'
    BY <1>7, <2>2 DEF vars, IInv, LeavesOnce, LeavesTaken
  <2>4. BlocksAreShared' /\ UserLeavesHanded'
    BY <1>7 DEF vars, IInv, BlocksAreShared, UserLeavesHanded
  <2>5. GrantsOpen' /\ NoGrantsYet'
    BY <1>7 DEF vars, IInv, GrantsOpen, NoGrantsYet, Kept, Open, Place
  <2> QED BY <2>1, <2>3, <2>4, <2>5 DEF IInv
<1> QED BY <1>1, <1>2, <1>3, <1>4, <1>5, <1>6, <1>7, <1>8 DEF Next

\* The invariant holds in every state.
THEOREM Inductive == Spec => []IInv
<1> QED BY InitEstablishes, NextPreserves, PTL DEF Spec

----
(***************************************************************************)
(* The theorems.                                                           *)
(***************************************************************************)
\* The tables are well formed: no 2 MB page and no absent entry has PTE_U.
THEOREM TypeCorrect == Spec => []TypeOK
<1>1. IInv => TypeOK
  BY DEF IInv
<1> QED BY <1>1, Inductive, PTL

\* A program can use a page only where it leads to a frame that programs were
\* given, whatever hints it gives and under either name of the shared tree, as
\* long as no access of the kernel went astray.
THEOREM OnlyUserPagesSeen == Spec => []UserSeesOnlyUserPages
<1>1. ASSUME IInv PROVE UserSeesOnlyUserPages
  <2> SUFFICES ASSUME NEW s \in Spaces, NEW v \in Pages, Accessible(s, v)
               PROVE  Translate(s, v) \in handed
    BY DEF UserSeesOnlyUserPages
  <2> DEFINE a == Place(s, v)
  <2>1. a \in Places /\ Open(a)
    BY <1>1, PlaceIsPlace, UsableIsOpen DEF IInv
  <2>2. dir[DirOf(a)] # Absent /\ dir[DirOf(a)] # Block /\ leafUser[a]
    BY <2>1, Numbers DEF Open
  <2>3. Translate(s, v) = leaf[a]
    BY <2>2 DEF Translate
  <2> QED BY <1>1, <2>1, <2>2, <2>3 DEF IInv, UserLeavesHanded
<1> QED BY <1>1, Inductive, PTL

\* What a program was given stays usable, whatever is mapped next to it, except
\* where the kernel puts a stack.
THEOREM GrantsStayUsable == Spec => []GrantedStaysUsable
<1>1. ASSUME IInv PROVE GrantedStaysUsable
  <2> SUFFICES ASSUME NEW s \in Spaces, NEW v \in granted[s],
                      Place(s, v) \notin {Shared} \X Taken
               PROVE  Accessible(s, v)
    BY DEF GrantedStaysUsable
  <2>1. Kept(s, v)
    BY <1>1 DEF IInv, GrantsOpen
  <2>2. Open(Place(s, v))
    BY <2>1 DEF Kept
  <2>3. dir[DirOf(Place(s, v))] # Absent
    BY <2>2, Numbers DEF Open
  <2> QED BY <2>1, <2>2, <2>3 DEF Accessible, Kept, Open
<1> QED BY <1>1, Inductive, PTL

\* A frame that mm_alloc handed out is one page or one table, and not free.
THEOREM FramesHaveOneUse == Spec => []OneUseOfAFrame
<1>1. IInv => OneUseOfAFrame
  BY DEF IInv, LeavesOnce, LeavesTaken, OneUseOfAFrame
<1> QED BY <1>1, Inductive, PTL

----
(***************************************************************************)
(* What a step does to the translations.                                   *)
(***************************************************************************)
\* The new translations lead to frames that were free.
Touches ==
    \A s \in Spaces, v \in Pages :
        Translate(s, v)' # Translate(s, v) => Translate(s, v)' \in free

\* vmap changes the translations of the pages it maps and no other: splitting
\* a 2 MB page leaves its pages where they were, and a fresh table maps none.
LEMMA MapTouches ==
    ASSUME IInv, NEW kernel \in SUBSET Places, NEW user \in SUBSET Places,
           NEW roots \in SUBSET free, MapFresh(kernel, user, roots)
    PROVE  Touches
<1>1. PICK F, G : Maps(kernel, user, roots, F, G)
  BY FreshIsMaps DEF IInv
<1>. SUFFICES ASSUME NEW s \in Spaces, NEW v \in Pages
              PROVE  Translate(s, v)' = Translate(s, v) \/ Translate(s, v)' \in free
  BY DEF Touches
<1>. DEFINE a == Place(s, v)
            d == DirOf(a)
            places == kernel \cup user
            lacking == Lacking(places)
<1>2. /\ F \in [places -> free] /\ G \in [lacking -> free]
      /\ dir' = [e \in Dirs |-> IF e \in lacking THEN G[e] ELSE dir[e]]
      /\ leaf' = [b \in Places |-> IF b \in places THEN F[b] ELSE Inherited(b, lacking)]
  BY <1>1 DEF Maps
<1>3. a \in Places /\ d \in Dirs
  BY PlaceIsPlace
<1>4. /\ free \subseteq Pool /\ Absent \notin Pool /\ Block \notin Pool
      /\ dir[d] \in Pool \cup {Absent, Block}
      /\ leaf[a] # None => dir[d] \in Pool
  <2>1. free \subseteq Pool /\ dir \in [Dirs -> Pool \cup {Absent, Block}]
    BY DEF IInv, TypeOK
  <2>2. leaf[a] # None => dir[d] \in Pool
    BY <1>3 DEF IInv, TypeOK
  <2>. QED  BY <1>3, <2>1, <2>2, Numbers
<1>5. /\ Translate(s, v) = IF dir[d] = Absent THEN None ELSE IF dir[d] = Block THEN a[2] ELSE leaf[a]
      /\ Translate(s, v)' = IF dir'[d] = Absent THEN None
                            ELSE IF dir'[d] = Block THEN a[2] ELSE leaf'[a]
  BY DEF Translate, Place, DirOf
<1>6. d \in lacking => dir'[d] \in Pool /\ dir[d] \in {Absent, Block}
  BY <1>2, <1>3, <1>4 DEF Lacking
<1>7. d \notin lacking => dir'[d] = dir[d]
  BY <1>2, <1>3
<1>8. CASE a \in places
  <2>1. d \in lacking \/ dir[d] \in Pool
    BY <1>4, <1>8 DEF Lacking
  <2>2. dir'[d] \in Pool /\ leaf'[a] \in free
    BY <1>2, <1>3, <1>6, <1>7, <1>8, <2>1
  <2>. QED  BY <1>4, <1>5, <2>2
<1>9. CASE a \notin places /\ d \notin lacking
  <2>1. leaf'[a] = leaf[a]
    BY <1>2, <1>3, <1>9 DEF Inherited
  <2>. QED  BY <1>5, <1>7, <1>9, <2>1
<1>10. CASE a \notin places /\ d \in lacking
  <2>1. leaf'[a] = Inherited(a, lacking)
    BY <1>2, <1>3, <1>10
  <2>3. Inherited(a, lacking) = IF dir[d] = Block THEN a[2] ELSE leaf[a]
    BY <1>10 DEF Inherited
  <2>4. Translate(s, v)' = leaf'[a]
    BY <1>4, <1>5, <1>6, <1>10
  <2>5. dir[d] = Absent => leaf[a] = None
    BY <1>4
  <2>6. CASE dir[d] = Absent
    <3>1. Translate(s, v) = None /\ Absent # Block
      BY <1>5, <2>6, Numbers
    <3>2. Inherited(a, lacking) = None
      BY <2>3, <2>5, <2>6, <3>1
    <3>. QED  BY <2>1, <2>4, <3>1, <3>2
  <2>7. CASE dir[d] = Block
    BY <1>5, <2>1, <2>3, <2>4, <2>7, Numbers
  <2>. QED  BY <1>6, <1>10, <2>6, <2>7
<1>. QED  BY <1>8, <1>9, <1>10

\* A step that leaves the tables alone touches nothing.
LEMMA RestTouches ==
    ASSUME UNCHANGED <<dir, leaf>>
    PROVE  Touches
BY DEF Touches, Translate

\* The pages mapped have places.
LEMMA PlacesArePlaces ==
    /\ \A V \in SUBSET Low : PlacesOf(Kernel, V) \in SUBSET Places
    /\ \A s \in Spaces, V \in SUBSET Pages : PlacesOf(s, V) \in SUBSET Places
    /\ {} \in SUBSET Places /\ {} \in SUBSET free
<1>1. ASSUME NEW V \in SUBSET Low PROVE PlacesOf(Kernel, V) \in SUBSET Places
  BY KernelPlace DEF PlacesOf
<1>2. ASSUME NEW s \in Spaces, NEW V \in SUBSET Pages
      PROVE  PlacesOf(s, V) \in SUBSET Places
  BY PlaceIsPlace DEF PlacesOf
<1>. QED  BY <1>1, <1>2

\* The kernel's mappings at boot touch nothing else,
LEMMA KernelMapsTouches ==
    ASSUME IInv, NEW V \in SUBSET Low, NEW before, NEW after, KernelMaps(V, before, after)
    PROVE  Touches
<1>1. CASE MapFresh(PlacesOf(Kernel, V), {}, {})
  BY <1>1, MapTouches, PlacesArePlaces
<1>2. CASE OutOfFrames(PlacesOf(Kernel, V), 0)
  BY <1>2, RestTouches DEF OutOfFrames
<1>. QED  BY <1>1, <1>2 DEF KernelMaps

\* nor do those of a new space.
LEMMA NewSpaceTouches ==
    ASSUME IInv, NEW s \in Spaces, NEW K \in SUBSET Low, NEW V \in SUBSET Pages,
           NEW filled, NewSpace(s, K, V, filled)
    PROVE  Touches
<1>1. ASSUME NEW f \in free, MapFresh(PlacesOf(Kernel, K), PlacesOf(s, V), {f})
      PROVE  Touches
  <2>1. {f} \in SUBSET free
    OBVIOUS
  <2>. QED  BY <1>1, <2>1, MapTouches, PlacesArePlaces
<1>2. CASE OutOfFrames(PlacesOf(Kernel, K) \cup PlacesOf(s, V), 1)
  BY <1>2, RestTouches DEF OutOfFrames
<1>. QED  BY <1>1, <1>2 DEF NewSpace

\* Whatever is mapped, by the kernel or for a program, no page of any program
\* comes to lead anywhere else, except to a frame that was free.
THEOREM MappingsTouchOnlyTheirPages == Spec => TouchesOnlyItsPages
<1>1. ASSUME IInv, [Next]_vars PROVE [Touches]_vars
  <2>1. CASE MapHeap
    BY <1>1, <2>1, KernelMapsTouches, LowPages DEF MapHeap
  <2>2. CASE SpawnKernelThreads
    <3>1. UNION {KStack[i] : i \in DOMAIN KStack \ DOMAIN UStack} \in SUBSET Low
      BY LowPages
    <3>. QED  BY <1>1, <2>2, <3>1, KernelMapsTouches DEF SpawnKernelThreads
  <2>3. ASSUME NEW s \in Spaces, Load(s) PROVE Touches
    <3>1. /\ NewSpace(s, {}, Image \cup FirstStack, PlacesOf(s, Image \cup FirstStack))
          /\ Image \cup FirstStack \in SUBSET Pages
      BY <2>3, LowPages DEF Load
    <3>2. {} \in SUBSET Low
      OBVIOUS
    <3>. QED  BY <1>1, <3>1, <3>2, NewSpaceTouches
  <2>4. ASSUME NEW s \in Spaces, NEW i \in DOMAIN UStack, SpawnUserThread(s, i)
        PROVE  Touches
    <3>1. UStack[i] \in SUBSET Pages /\ KStack[i] \in SUBSET Low
      BY LowPages, LayoutAssumption
    <3>. QED  BY <1>1, <2>4, <3>1, NewSpaceTouches DEF SpawnUserThread
  <2>5. ASSUME NEW s \in Spaces, NEW base \in Bases, NEW n \in 1 .. MaxPages,
               SysMemAlloc(s, base, n)
        PROVE  Touches
    <3>1. Run(base, n) \in SUBSET Pages
      BY <2>5 DEF SysMemAlloc
    <3>2. CASE MapFresh({}, PlacesOf(s, Run(base, n)), {})
      BY <1>1, <3>1, <3>2, MapTouches, PlacesArePlaces
    <3>3. CASE OutOfFrames(PlacesOf(s, Run(base, n)), 0)
      BY <3>3, RestTouches DEF OutOfFrames
    <3>. QED  BY <2>5, <3>2, <3>3 DEF SysMemAlloc
  <2>6. ASSUME NEW s \in Spaces, NEW base \in Bases, NEW n \in 1 .. MaxPages,
               SysMemFree(s, base, n)
        PROVE  Touches
    BY <2>6, RestTouches DEF SysMemFree
  <2>7. CASE Astray
    BY <2>7, RestTouches DEF Astray
  <2>. QED  BY <1>1, <2>1, <2>2, <2>3, <2>4, <2>5, <2>6, <2>7 DEF Next
<1>2. Touches => (stage' # "wild" => \A s \in Spaces, v \in Pages :
                      Translate(s, v)' # Translate(s, v) => Translate(s, v)' \in free)
  BY DEF Touches
<1>. QED  BY Inductive, <1>1, <1>2, PTL DEF Spec, TouchesOnlyItsPages
====
