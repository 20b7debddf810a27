---- MODULE UserMemory_proofs ----
(***************************************************************************)
(* Proofs about UserMemory, for any processes, frames and layout: the      *)
(* areas of a process are disjoint and count its own pages, the counters   *)
(* of frames agree with the leaves that name them, and fork with           *)
(* copy-on-write gives each process a memory of its own.                   *)
(*                                                                         *)
(* The inductive invariant Inv has two halves.  ProcOK is about a process: *)
(* where its heap and its areas lie, which of its own pages are there.     *)
(* TableInv is about the tables and the frames: who shares a frame and who *)
(* can write to it, and how many of its references (Eff) no fork took for  *)
(* the identity map.  They meet where frames are mapped: a mapping puts    *)
(* its frames over absent own pages because the areas, of which those of   *)
(* own pages do not overlap, say which are there.  A page under entry 256  *)
(* stands for one under entry 0 (Home) and is nobody's own.                *)
(***************************************************************************)
EXTENDS UserMemory, SequenceTheorems, FiniteSetTheorems, NaturalsInduction,
        WellFoundedInduction, TLAPS

AreaRecs == [base : Nat, size : Nat, typ : {"GuardPage", "Stack", "Anonymous", "Heap"},
             demand : BOOLEAN, mapped : Nat]

Lists == Seq(AreaRecs)

-----------------------------------------------------------------------------
(***************************************************************************)
(* Numbers and constants                                                   *)
(***************************************************************************)

\* The least of a set of numbers is in the set, and none is less.
LEMMA MinIsLeast ==
    ASSUME NEW S \in SUBSET Nat, S # {}
    PROVE  Min(S) \in S /\ \A y \in S : Min(S) <= y
<1>. DEFINE Less == OpToRel(<, Nat)
<1>1. \E x \in S : \A y \in S : ~ (<<y, x>> \in Less)
  BY NatLessThanWellFounded, WFMin, Zenon
<1>2. Less = {ss \in Nat \X Nat : ss[1] < ss[2]}
  BY Zenon DEF OpToRel
<1>. HIDE DEF Less
<1>3. \A x, y \in Nat : <<y, x>> \in Less <=> y < x
  BY <1>2
<1>4. PICK x \in S : \A y \in S : ~ (<<y, x>> \in Less)
  BY <1>1
<1>5. ASSUME NEW y \in S PROVE x =< y
  <2>1. x \in Nat /\ y \in Nat
    OBVIOUS
  <2>2. ~ (y < x)
    BY <1>3, <1>4, <2>1, Zenon
  <2>. QED  BY <2>1, <2>2
<1>. QED  BY <1>5 DEF Min

\* The constants are numbers in the order the assumption gives them.
LEMMA Layout ==
    /\ LegacyTop \in Nat /\ StackBase \in Nat /\ StackTop \in Nat /\ OwnEnd \in Nat
    /\ MAX_VMAS \in Nat /\ MAX_VMAS >= 2
    /\ HeapBases \subseteq Nat /\ \A h \in HeapBases : 0 < h /\ h < LegacyTop
    /\ LegacyTop <= StackBase /\ StackBase + 1 < StackTop
    /\ OwnBase = StackTop + StackBase /\ OwnBase \in Nat /\ StackTop < OwnBase /\ OwnBase <= OwnEnd
    /\ IdentityEnd \in Nat /\ IdentityEnd <= StackBase
    /\ Hints \subseteq Nat /\ MaxSize \in Nat
    /\ Code \subseteq KernelPages
    /\ Procs \subseteq Nat /\ 0 \notin Procs /\ IsFiniteSet(Procs)
    /\ NoFrame \notin Frames /\ NoFrame \notin Values /\ 0 \in Values
<1>1. /\ LegacyTop \in Nat /\ StackBase \in Nat /\ StackTop \in Nat /\ OwnEnd \in Nat
      /\ StackBase # 0 /\ LegacyTop <= StackBase /\ StackBase + 1 < StackTop
      /\ StackTop + StackBase <= OwnEnd
      /\ IdentityEnd \in Nat /\ IdentityEnd <= StackBase
  BY UserMemoryAssumption DEF UserMemoryAssumption
<1>2. /\ MAX_VMAS \in Nat /\ MAX_VMAS >= 2
      /\ HeapBases \subseteq Nat /\ \A h \in HeapBases : 0 < h /\ h < LegacyTop
      /\ Hints \subseteq Nat /\ MaxSize \in Nat
      /\ Code \subseteq KernelPages
      /\ Procs \subseteq Nat /\ 0 \notin Procs /\ IsFiniteSet(Procs)
      /\ NoFrame \notin Frames /\ NoFrame \notin Values /\ 0 \in Values
  BY UserMemoryAssumption DEF UserMemoryAssumption, KernelPages
<1>3. OwnBase = StackTop + StackBase /\ OwnBase \in Nat /\ StackTop < OwnBase /\ OwnBase <= OwnEnd
  BY <1>1 DEF OwnBase
<1>. QED  BY <1>1, <1>2, <1>3

\* The pages of the four parts.
LEMMA Parts ==
    \A v : /\ v \in KernelPages <=> v \in Nat /\ v < StackBase
           /\ v \in StackPages <=> v \in Nat /\ StackBase <= v /\ v < StackTop
           /\ v \in AliasPages <=> v \in Nat /\ StackTop <= v /\ v < OwnBase
           /\ v \in OwnPages <=> v \in Nat /\ OwnBase <= v /\ v < OwnEnd
           /\ v \in Pages <=> v \in Nat /\ v < OwnEnd
BY Layout DEF KernelPages, StackPages, AliasPages, OwnPages, Pages

\* A page is in one of them, and under entry 256 stands for one under entry 0.
LEMMA HomeIs ==
    ASSUME NEW v \in Pages
    PROVE  /\ Home(v) \in Pages /\ v \in Int
           /\ v \in AliasPages => Home(v) \in KernelPages
           /\ v \notin AliasPages => Home(v) = v
           /\ v \in OwnPages => v \notin AliasPages /\ v \notin StackPages /\ v \notin KernelPages
           /\ v \in StackPages => v \notin AliasPages /\ v \notin KernelPages
           /\ v \in KernelPages => v \notin AliasPages
           /\ v \in KernelPages \/ v \in StackPages \/ v \in AliasPages \/ v \in OwnPages
BY Parts, Layout DEF Home

\* The leaves are finitely many.
LEMMA FiniteLeaves ==
    /\ IsFiniteSet((Procs \cup {0}) \X Pages)
    /\ IsFiniteSet(OwnPages) /\ IsFiniteSet(ClonedPages)
<1>1. IsFiniteSet(Procs \cup {0})
  BY Layout, FS_AddElement
<1>2. IsFiniteSet(Pages)
  <2>1. OwnEnd - 1 \in Int /\ 0 \in Int
    BY Layout
  <2>2. IsFiniteSet(0 .. OwnEnd - 1)
    BY <2>1, FS_Interval
  <2>. QED  BY <2>2 DEF Pages
<1>3. OwnPages \subseteq Pages /\ ClonedPages \subseteq Pages
  BY Parts, Layout DEF ClonedPages
<1>4. IsFiniteSet(OwnPages) /\ IsFiniteSet(ClonedPages)
  BY <1>2, <1>3, FS_Subset
<1>. QED  BY <1>1, <1>2, <1>4, FS_Product

-----------------------------------------------------------------------------
(***************************************************************************)
(* Lists of areas                                                          *)
(***************************************************************************)

\* The fields of an area.
LEMMA Fields ==
    \A a \in AreaRecs : /\ a.base \in Nat /\ a.size \in Nat /\ a.mapped \in Nat
                        /\ a.demand \in BOOLEAN /\ End(a) = a.base + a.size /\ End(a) \in Nat
BY DEF AreaRecs, End

\* A list and its indices.
LEMMA ListIs ==
    ASSUME NEW s \in Lists
    PROVE  /\ Len(s) \in Nat /\ DOMAIN s = 1 .. Len(s)
           /\ \A i \in DOMAIN s : s[i] \in AreaRecs
BY DEF Lists

\* new is s with a somewhere in it: from says where the others were.
Added(s, new, a) ==
    \E k \in DOMAIN new, from \in [DOMAIN new -> Nat] :
        /\ new[k] = a
        /\ \A i \in DOMAIN new : i # k => from[i] \in DOMAIN s /\ new[i] = s[from[i]]
        /\ \A i, j \in DOMAIN new : i # k /\ j # k /\ i # j => from[i] # from[j]
        /\ \A m \in DOMAIN s : \E i \in DOMAIN new : i # k /\ from[i] = m

\* new is s without its r-th area.
Removed(s, new, r) ==
    \E from \in [DOMAIN new -> Nat] :
        /\ \A i \in DOMAIN new : from[i] \in DOMAIN s /\ from[i] # r /\ new[i] = s[from[i]]
        /\ \A i, j \in DOMAIN new : i # j => from[i] # from[j]
        /\ \A m \in DOMAIN s : m # r => \E i \in DOMAIN new : from[i] = m

\* add_vma adds an area as long as there is room.
LEMMA AddIs ==
    ASSUME NEW s \in Lists, NEW a \in AreaRecs, Len(s) < MAX_VMAS
    PROVE  /\ add_vma(s, a) \in Lists
           /\ Len(add_vma(s, a)) = Len(s) + 1
           /\ Added(s, add_vma(s, a), a)
<1>. DEFINE n == Len(s)
            c == Cardinality({i \in DOMAIN s : s[i].base <= a.base})
            k == 1 + c
            before == SubSeq(s, 1, k - 1)
            behind == SubSeq(s, k, n)
            new == add_vma(s, a)
<1>1. n \in Nat /\ DOMAIN s = 1 .. n /\ \A i \in 1 .. n : s[i] \in AreaRecs
  BY ListIs
<1>2. c \in 0 .. n
  <2>. HIDE DEF n
  <2>. DEFINE S == {i \in DOMAIN s : s[i].base <= a.base}
  <2>1. IsFiniteSet(1 .. n) /\ Cardinality(1 .. n) = n
    BY <1>1, FS_Interval
  <2>2. S \in SUBSET (1 .. n)
    BY <1>1
  <2>. HIDE DEF S
  <2>3. IsFiniteSet(S) /\ Cardinality(S) <= n
    BY <2>1, <2>2, FS_Subset
  <2>4. Cardinality(S) \in Nat
    BY <2>3, FS_CardinalityType
  <2>. QED  BY <1>1, <2>3, <2>4 DEF S
<1>3. new = (before \o <<a>>) \o behind
  <2>1. ~ (Len(s) >= MAX_VMAS)
    BY <1>1, Layout
  <2>. QED  BY <2>1 DEF add_vma, InsertAt
<1>. HIDE DEF c, new
<1>4. before \in Lists /\ Len(before) = c /\ \A i \in 1 .. c : before[i] = s[i]
  <2>1. 1 \in Int /\ k - 1 \in Int /\ \A i \in 1 .. k - 1 : s[i] \in AreaRecs
    BY <1>1, <1>2
  <2>2. /\ before \in Lists
        /\ Len(before) = IF 1 <= k - 1 THEN k - 1 - 1 + 1 ELSE 0
        /\ \A i \in 1 .. k - 1 - 1 + 1 : before[i] = s[1 + i - 1]
    BY <2>1, SubSeqProperties DEF Lists
  <2>. HIDE DEF before
  <2>3. c \in Nat /\ k - 1 = c /\ k - 1 - 1 + 1 = c
    BY <1>1, <1>2
  <2>4. \A i \in 1 .. c : 1 + i - 1 = i
    BY <2>3
  <2>5. Len(before) = c
    BY <2>2, <2>3
  <2>. QED  BY <2>2, <2>3, <2>4, <2>5
<1>5. behind \in Lists /\ Len(behind) = n - c /\ \A i \in 1 .. n - c : behind[i] = s[c + i]
  <2>1. n \in Int /\ k \in Int /\ \A i \in k .. n : s[i] \in AreaRecs
    BY <1>1, <1>2
  <2>2. /\ behind \in Lists
        /\ Len(behind) = IF k <= n THEN n - k + 1 ELSE 0
        /\ \A i \in 1 .. n - k + 1 : behind[i] = s[k + i - 1]
    BY <2>1, SubSeqProperties DEF Lists
  <2>. HIDE DEF before, behind, n
  <2>3. c \in Int /\ n \in Int /\ c <= n
    BY <1>1, <1>2
  <2>4. n - k + 1 = n - c /\ \A i \in 1 .. n - c : k + i - 1 = c + i
    BY <2>3
  <2>5. Len(behind) = n - c
    BY <2>2, <2>3
  <2>. QED  BY <2>2, <2>4, <2>5
<1>. HIDE DEF before, behind
<1>6. <<a>> \in Lists /\ Len(<<a>>) = 1 /\ <<a>>[1] = a
  BY DEF Lists
<1>. DEFINE mid == before \o <<a>>
<1>7. /\ mid \in Lists /\ Len(mid) = c + 1
      /\ \A i \in 1 .. c + 1 : mid[i] = IF i <= c THEN s[i] ELSE a
  <2>1. /\ mid \in Lists /\ Len(mid) = Len(before) + Len(<<a>>)
        /\ \A i \in 1 .. Len(before) + Len(<<a>>) :
               mid[i] = IF i <= Len(before) THEN before[i] ELSE <<a>>[i - Len(before)]
    BY <1>4, <1>6, ConcatProperties DEF Lists
  <2>. HIDE DEF mid
  <2>2. ASSUME NEW i \in 1 .. c + 1 PROVE mid[i] = IF i <= c THEN s[i] ELSE a
    <3>1. CASE i <= c
      BY <1>2, <1>4, <1>6, <2>1, <3>1
    <3>2. CASE ~ (i <= c)
      <4>1. c \in Int /\ i - c = 1
        BY <1>2, <3>2
      <4>2. mid[i] = <<a>>[i - Len(before)]
        BY <1>4, <1>6, <2>1, <3>2
      <4>. QED  BY <1>4, <1>6, <3>2, <4>1, <4>2
    <3>. QED  BY <3>1, <3>2
  <2>. QED  BY <1>4, <1>6, <2>1, <2>2
<1>8. /\ new \in Lists /\ Len(new) = n + 1
      /\ \A i \in 1 .. n + 1 : new[i] = IF i <= c THEN s[i] ELSE IF i = k THEN a ELSE s[i - 1]
  <2>. HIDE DEF mid, n
  <2>1. /\ new \in Lists /\ Len(new) = Len(mid) + Len(behind)
        /\ \A i \in 1 .. Len(mid) + Len(behind) :
               new[i] = IF i <= Len(mid) THEN mid[i] ELSE behind[i - Len(mid)]
    BY <1>3, <1>5, <1>7, ConcatProperties DEF Lists, mid
  <2>2. c \in Int /\ n \in Int /\ c <= n /\ 0 <= c
    BY <1>1, <1>2
  <2>3. Len(mid) + Len(behind) = n + 1
    BY <1>5, <1>7, <2>2
  <2>4. ASSUME NEW i \in 1 .. n + 1
        PROVE  new[i] = IF i <= c THEN s[i] ELSE IF i = k THEN a ELSE s[i - 1]
    <3>1. CASE i <= c + 1
      BY <1>7, <2>1, <2>2, <2>3, <3>1
    <3>2. CASE ~ (i <= c + 1)
      <4>1. i - (c + 1) \in 1 .. n - c /\ c + (i - (c + 1)) = i - 1
        BY <2>2, <3>2
      <4>2. new[i] = behind[i - (c + 1)]
        BY <1>7, <2>1, <2>3, <3>2
      <4>3. new[i] = s[i - 1]
        BY <1>5, <4>1, <4>2
      <4>. QED  BY <2>2, <3>2, <4>3
    <3>. QED  BY <3>1, <3>2
  <2>. QED  BY <2>1, <2>3, <2>4
<1>9. Added(s, new, a)
  <2>. DEFINE from == [i \in DOMAIN new |-> IF i <= c THEN i ELSE i - 1]
  <2>. HIDE DEF n
  <2>1. DOMAIN new = 1 .. n + 1
    BY <1>8, ListIs
  <2>2. c \in Nat /\ n \in Nat /\ c <= n
    BY <1>1, <1>2
  <2>3. from \in [DOMAIN new -> Nat] /\ k \in DOMAIN new /\ new[k] = a
    BY <1>8, <2>1, <2>2
  <2>4. \A i \in DOMAIN new : i # k => from[i] \in DOMAIN s /\ new[i] = s[from[i]]
    BY <1>1, <1>8, <2>1, <2>2
  <2>5. \A i, j \in DOMAIN new : i # k /\ j # k /\ i # j => from[i] # from[j]
    BY <2>1, <2>2
  <2>6. ASSUME NEW m \in DOMAIN s PROVE \E i \in DOMAIN new : i # k /\ from[i] = m
    <3>1. CASE m <= c
      <4>1. m \in DOMAIN new /\ m # k /\ from[m] = m
        BY <1>1, <2>1, <2>2, <3>1
      <4>. QED  BY <4>1
    <3>2. CASE ~ (m <= c)
      <4>1. m + 1 \in DOMAIN new /\ m + 1 # k /\ from[m + 1] = m
        BY <1>1, <2>1, <2>2, <3>2
      <4>. QED  BY <4>1
    <3>. QED  BY <3>1, <3>2
  <2>. HIDE DEF from
  <2>. QED  BY <2>3, <2>4, <2>5, <2>6 DEF Added
<1>. QED  BY <1>8, <1>9 DEF new

\* Taking out the r-th area.
LEMMA RemoveAtIs ==
    ASSUME NEW s \in Lists, NEW r \in DOMAIN s
    PROVE  RemoveAt(s, r) \in Lists /\ Len(RemoveAt(s, r)) = Len(s) - 1 /\ Removed(s, RemoveAt(s, r), r)
<1>. DEFINE n == Len(s)
            before == SubSeq(s, 1, r - 1)
            behind == SubSeq(s, r + 1, n)
            new == RemoveAt(s, r)
<1>1. /\ n \in Nat /\ DOMAIN s = 1 .. n /\ \A i \in 1 .. n : s[i] \in AreaRecs
      /\ r \in Nat /\ 1 <= r /\ r <= n
  BY ListIs
<1>2. new = before \o behind
  BY DEF RemoveAt
<1>. HIDE DEF new
<1>3. before \in Lists /\ Len(before) = r - 1 /\ \A i \in 1 .. r - 1 : before[i] = s[i]
  <2>1. 1 \in Int /\ r - 1 \in Int /\ \A i \in 1 .. r - 1 : s[i] \in AreaRecs
    BY <1>1
  <2>2. /\ before \in Lists
        /\ Len(before) = IF 1 <= r - 1 THEN r - 1 - 1 + 1 ELSE 0
        /\ \A i \in 1 .. r - 1 - 1 + 1 : before[i] = s[1 + i - 1]
    BY <2>1, SubSeqProperties DEF Lists
  <2>. HIDE DEF before, n
  <2>3. r - 1 - 1 + 1 = r - 1 /\ \A i \in 1 .. r - 1 : 1 + i - 1 = i
    BY <1>1
  <2>4. Len(before) = r - 1
    BY <1>1, <2>2, <2>3
  <2>. QED  BY <2>2, <2>3, <2>4
<1>4. behind \in Lists /\ Len(behind) = n - r /\ \A i \in 1 .. n - r : behind[i] = s[r + i]
  <2>1. n \in Int /\ r + 1 \in Int /\ \A i \in r + 1 .. n : s[i] \in AreaRecs
    BY <1>1
  <2>2. /\ behind \in Lists
        /\ Len(behind) = IF r + 1 <= n THEN n - (r + 1) + 1 ELSE 0
        /\ \A i \in 1 .. n - (r + 1) + 1 : behind[i] = s[r + 1 + i - 1]
    BY <2>1, SubSeqProperties DEF Lists
  <2>. HIDE DEF behind, n
  <2>3. n - (r + 1) + 1 = n - r /\ \A i \in 1 .. n - r : r + 1 + i - 1 = r + i
    BY <1>1
  <2>4. Len(behind) = n - r
    BY <1>1, <2>2, <2>3
  <2>. QED  BY <2>2, <2>3, <2>4
<1>. HIDE DEF before, behind, n
<1>5. /\ new \in Lists /\ Len(new) = n - 1
      /\ \A i \in 1 .. n - 1 : new[i] = IF i < r THEN s[i] ELSE s[i + 1]
  <2>1. /\ new \in Lists /\ Len(new) = Len(before) + Len(behind)
        /\ \A i \in 1 .. Len(before) + Len(behind) :
               new[i] = IF i <= Len(before) THEN before[i] ELSE behind[i - Len(before)]
    BY <1>2, <1>3, <1>4, ConcatProperties DEF Lists
  <2>2. Len(before) + Len(behind) = n - 1
    BY <1>1, <1>3, <1>4
  <2>3. ASSUME NEW i \in 1 .. n - 1 PROVE new[i] = IF i < r THEN s[i] ELSE s[i + 1]
    <3>1. CASE i < r
      BY <1>1, <1>3, <2>1, <2>2, <3>1
    <3>2. CASE ~ (i < r)
      <4>1. i - (r - 1) \in 1 .. n - r /\ r + (i - (r - 1)) = i + 1 /\ ~ (i <= r - 1)
        BY <1>1, <3>2
      <4>2. new[i] = behind[i - (r - 1)]
        BY <1>3, <2>1, <2>2, <4>1
      <4>. QED  BY <1>4, <3>2, <4>1, <4>2
    <3>. QED  BY <3>1, <3>2
  <2>. QED  BY <2>1, <2>2, <2>3
<1>6. Removed(s, new, r)
  <2>. DEFINE from == [i \in DOMAIN new |-> IF i < r THEN i ELSE i + 1]
  <2>1. DOMAIN new = 1 .. n - 1
    BY <1>5, ListIs
  <2>2. from \in [DOMAIN new -> Nat]
    BY <1>1, <2>1
  <2>3. \A i \in DOMAIN new : from[i] \in DOMAIN s /\ from[i] # r /\ new[i] = s[from[i]]
    BY <1>1, <1>5, <2>1
  <2>4. \A i, j \in DOMAIN new : i # j => from[i] # from[j]
    BY <1>1, <2>1
  <2>5. ASSUME NEW m \in DOMAIN s, m # r PROVE \E i \in DOMAIN new : from[i] = m
    <3>1. CASE m < r
      <4>1. m \in DOMAIN new /\ from[m] = m
        BY <1>1, <2>1, <3>1
      <4>. QED  BY <4>1
    <3>2. CASE ~ (m < r)
      <4>1. m - 1 \in DOMAIN new /\ from[m - 1] = m
        BY <1>1, <2>1, <2>5, <3>2
      <4>. QED  BY <4>1
    <3>. QED  BY <3>1, <3>2
  <2>. HIDE DEF from
  <2>. QED  BY <2>2, <2>3, <2>4, <2>5 DEF Removed
<1>. QED  BY <1>5, <1>6 DEF new, n

\* remove_vma takes out an area with the base it is given, if there is one.
LEMMA RemoveIs ==
    ASSUME NEW s \in Lists, NEW r \in DOMAIN s
    PROVE  /\ remove_vma(s, s[r].base) \in Lists
           /\ Len(remove_vma(s, s[r].base)) = Len(s) - 1
           /\ \E q \in DOMAIN s :
                  s[q].base = s[r].base /\ Removed(s, remove_vma(s, s[r].base), q)
<1>. DEFINE found == {i \in DOMAIN s : s[i].base = s[r].base}
            q == Min(found)
<1>1. found \in SUBSET Nat /\ found # {} /\ found \subseteq DOMAIN s
  BY ListIs
<1>2. remove_vma(s, s[r].base) = RemoveAt(s, q)
  BY <1>1 DEF remove_vma
<1>3. q \in found
  <2>. HIDE DEF found
  <2>. QED  BY <1>1, MinIsLeast
<1>4. q \in DOMAIN s /\ s[q].base = s[r].base
  BY <1>3
<1>. HIDE DEF q, found
<1>. QED  BY <1>2, <1>4, RemoveAtIs

\* find_vma gives an area that covers the page, if there is one.
LEMMA FindIs ==
    ASSUME NEW s \in Lists, NEW v
    PROVE  /\ find_vma(s, v) = 0 => \A i \in DOMAIN s : ~Covers(s[i], v)
           /\ find_vma(s, v) # 0 => find_vma(s, v) \in DOMAIN s /\ Covers(s[find_vma(s, v)], v)
           /\ (\E i \in DOMAIN s : Covers(s[i], v)) => find_vma(s, v) # 0
<1>. DEFINE found == {i \in DOMAIN s : Covers(s[i], v)}
<1>1. found \in SUBSET Nat /\ found \subseteq DOMAIN s /\ 0 \notin DOMAIN s
  BY ListIs
<1>2. found # {} => Min(found) \in found
  <2>. HIDE DEF found
  <2>. QED  BY <1>1, MinIsLeast
<1>3. find_vma(s, v) = IF found = {} THEN 0 ELSE Min(found)
  BY DEF find_vma
<1>4. CASE found = {}
  BY <1>3, <1>4
<1>5. CASE found # {}
  <2>1. find_vma(s, v) = Min(found) /\ Min(found) \in found
    BY <1>2, <1>3, <1>5
  <2>. HIDE DEF found
  <2>2. find_vma(s, v) \in found
    BY <2>1
  <2>3. find_vma(s, v) \in DOMAIN s /\ find_vma(s, v) # 0
    BY <1>1, <2>2
  <2>4. Covers(s[find_vma(s, v)], v)
    BY <2>2 DEF found
  <2>. QED  BY <2>3, <2>4
<1>. QED  BY <1>4, <1>5

-----------------------------------------------------------------------------
(***************************************************************************)
(* What the areas of a process keep                                        *)
(***************************************************************************)

\* An area lies below the end of the stack, or under entry 256 or in the
\* process's own pages, and is not empty there.
InPart(a) ==
    \/ a.base < StackTop /\ End(a) <= StackTop
    \/ StackTop <= a.base /\ 0 < a.size /\ End(a) <= OwnBase
    \/ OwnBase <= a.base /\ 0 < a.size /\ End(a) <= OwnEnd

\* HeapListed for a list.
Listed(s, start, end) ==
    start < end => \E i \in DOMAIN s :
                       s[i].typ = "Heap" /\ s[i].base = start /\ End(s[i]) = end

\* Two areas meet only behind start, where one of them covers start.
Met(a, b, start) ==
    \A v \in Pages : Covers(a, v) /\ Covers(b, v) =>
        start < v /\ (Covers(a, start) \/ Covers(b, start))

\* An area above the stack is apart from every other, with or without an area
\* for the heap; without one, areas meet only where sbrk stretched the one it
\* found at the start of the heap.
AreasOK(s, start, end) ==
    /\ \A i \in DOMAIN s : InPart(s[i])
    /\ \A i, j \in DOMAIN s : i # j /\ StackTop <= s[i].base => Apart(s[i], s[j])
    /\ \A i, j \in DOMAIN s : i # j => Met(s[i], s[j], start)
    /\ \A i \in DOMAIN s : s[i].typ = "Heap" =>
           s[i].base = start /\ (s[i].size = 0 \/ End(s[i]) = end)
    /\ Listed(s, start, end) =>
           \A i, j \in DOMAIN s : i # j => Apart(s[i], s[j])

\* The areas say which of the own pages W are there.
Counted(s, W) ==
    /\ \A v \in W : \E i \in DOMAIN s : Covers(s[i], v)
    /\ \A i \in DOMAIN s : OwnBase <= s[i].base =>
           s[i].mapped = Cardinality({v \in W : Covers(s[i], v)})

\* Being apart does not depend on which comes first.
LEMMA ApartBoth == \A a, b : Apart(a, b) <=> Apart(b, a)
BY DEF Apart

\* Areas that are apart do not meet.
LEMMA ApartMet == \A a, b, start : Apart(a, b) => Met(a, b, start)
BY DEF Apart, Met

\* What overlaps tells apart has no page in common.
LEMMA NoOverlapApart ==
    ASSUME NEW a \in AreaRecs, NEW b \in AreaRecs, ~overlaps(a, b.base, b.size)
    PROVE  Apart(a, b)
BY Fields, Parts DEF Apart, Covers, overlaps

\* An area that covers an own page is one of own pages.
LEMMA OwnAreas ==
    ASSUME NEW a \in AreaRecs, InPart(a), NEW v \in OwnPages, Covers(a, v)
    PROVE  OwnBase <= a.base
BY Fields, Parts, Layout DEF InPart, Covers

\* Pairs of areas after an addition.
LEMMA AddedPairs ==
    ASSUME NEW s \in Lists, NEW new \in Lists, NEW a, Added(s, new, a),
           \A m \in DOMAIN s : Apart(s[m], a)
    PROVE  /\ \A i \in DOMAIN new : new[i] = a \/ \E m \in DOMAIN s : new[i] = s[m]
           /\ \A i, j \in DOMAIN new : i # j =>
                  \/ Apart(new[i], new[j])
                  \/ \E m, q \in DOMAIN s : m # q /\ new[i] = s[m] /\ new[j] = s[q]
           /\ \A m \in DOMAIN s : \E i \in DOMAIN new : new[i] = s[m]
           /\ \E i \in DOMAIN new : new[i] = a
<1>1. PICK k \in DOMAIN new, from \in [DOMAIN new -> Nat] :
          /\ new[k] = a
          /\ \A i \in DOMAIN new : i # k => from[i] \in DOMAIN s /\ new[i] = s[from[i]]
          /\ \A i, j \in DOMAIN new : i # k /\ j # k /\ i # j => from[i] # from[j]
          /\ \A m \in DOMAIN s : \E i \in DOMAIN new : i # k /\ from[i] = m
  BY DEF Added
<1>2. \A i \in DOMAIN new : new[i] = a \/ \E m \in DOMAIN s : new[i] = s[m]
  BY <1>1
<1>3. ASSUME NEW i \in DOMAIN new, NEW j \in DOMAIN new, i # j
      PROVE  \/ Apart(new[i], new[j])
             \/ \E m, q \in DOMAIN s : m # q /\ new[i] = s[m] /\ new[j] = s[q]
  <2>1. CASE i = k
    BY <1>1, <1>3, <2>1, ApartBoth
  <2>2. CASE j = k
    BY <1>1, <1>3, <2>2
  <2>3. CASE i # k /\ j # k
    BY <1>1, <1>3, <2>3
  <2>. QED  BY <2>1, <2>2, <2>3
<1>4. \A m \in DOMAIN s : \E i \in DOMAIN new : new[i] = s[m]
  BY <1>1
<1>. QED  BY <1>1, <1>2, <1>3, <1>4

\* Pairs of areas after a removal.
LEMMA RemovedPairs ==
    ASSUME NEW s \in Lists, NEW new \in Lists, NEW r, Removed(s, new, r)
    PROVE  /\ \A i \in DOMAIN new : \E m \in DOMAIN s : m # r /\ new[i] = s[m]
           /\ \A i, j \in DOMAIN new : i # j =>
                  \E m, q \in DOMAIN s : m # q /\ new[i] = s[m] /\ new[j] = s[q]
           /\ \A m \in DOMAIN s : m # r => \E i \in DOMAIN new : new[i] = s[m]
<1>1. PICK from \in [DOMAIN new -> Nat] :
          /\ \A i \in DOMAIN new : from[i] \in DOMAIN s /\ from[i] # r /\ new[i] = s[from[i]]
          /\ \A i, j \in DOMAIN new : i # j => from[i] # from[j]
          /\ \A m \in DOMAIN s : m # r => \E i \in DOMAIN new : from[i] = m
  BY DEF Removed
<1>. QED  BY <1>1

\* mmap_anon: an area that is not the heap, apart from the others.
LEMMA AddKeeps ==
    ASSUME NEW s \in Lists, NEW new \in Lists, NEW a \in AreaRecs, Added(s, new, a),
           NEW start, NEW end, AreasOK(s, start, end),
           InPart(a), a.typ # "Heap", \A m \in DOMAIN s : Apart(s[m], a)
    PROVE  AreasOK(new, start, end)
<1>1. /\ \A i \in DOMAIN new : new[i] = a \/ \E m \in DOMAIN s : new[i] = s[m]
      /\ \A i, j \in DOMAIN new : i # j =>
             \/ Apart(new[i], new[j])
             \/ \E m, q \in DOMAIN s : m # q /\ new[i] = s[m] /\ new[j] = s[q]
  BY AddedPairs
<1>2. \A i \in DOMAIN new : InPart(new[i])
  BY <1>1 DEF AreasOK
<1>3. \A i, j \in DOMAIN new : i # j /\ StackTop <= new[i].base => Apart(new[i], new[j])
  BY <1>1 DEF AreasOK
<1>4. \A i \in DOMAIN new : new[i].typ = "Heap" =>
          new[i].base = start /\ (new[i].size = 0 \/ End(new[i]) = end)
  BY <1>1 DEF AreasOK
<1>7. \A i, j \in DOMAIN new : i # j => Met(new[i], new[j], start)
  BY <1>1, ApartMet DEF AreasOK
<1>5. Listed(new, start, end) => Listed(s, start, end)
  BY <1>1 DEF Listed
<1>6. Listed(new, start, end) => \A i, j \in DOMAIN new : i # j => Apart(new[i], new[j])
  BY <1>1, <1>5 DEF AreasOK
<1>. QED  BY <1>2, <1>3, <1>4, <1>6, <1>7 DEF AreasOK

\* munmap
LEMMA RemoveKeeps ==
    ASSUME NEW s \in Lists, NEW new \in Lists, NEW r, Removed(s, new, r),
           NEW start, NEW end, AreasOK(s, start, end)
    PROVE  AreasOK(new, start, end)
<1>1. /\ \A i \in DOMAIN new : \E m \in DOMAIN s : m # r /\ new[i] = s[m]
      /\ \A i, j \in DOMAIN new : i # j =>
             \E m, q \in DOMAIN s : m # q /\ new[i] = s[m] /\ new[j] = s[q]
  BY RemovedPairs
<1>2. Listed(new, start, end) => Listed(s, start, end)
  BY <1>1 DEF Listed
<1>3. /\ \A i \in DOMAIN new : InPart(new[i])
      /\ \A i \in DOMAIN new : new[i].typ = "Heap" =>
             new[i].base = start /\ (new[i].size = 0 \/ End(new[i]) = end)
  BY <1>1 DEF AreasOK
<1>4. /\ \A i, j \in DOMAIN new : i # j /\ StackTop <= new[i].base => Apart(new[i], new[j])
      /\ \A i, j \in DOMAIN new : i # j => Met(new[i], new[j], start)
      /\ Listed(new, start, end) => \A i, j \in DOMAIN new : i # j => Apart(new[i], new[j])
  BY <1>1, <1>2 DEF AreasOK
<1>. QED  BY <1>3, <1>4 DEF AreasOK

\* sbrk makes the area of an empty heap: no page up to the new end is covered.
LEMMA HeapAdded ==
    ASSUME NEW s \in Lists, NEW new \in Lists, NEW start \in Nat, NEW end \in Nat,
           start < StackTop, start <= end, end <= StackTop,
           AreasOK(s, start, start),
           Added(s, new, Area(start, end - start, "Heap", FALSE, end - start)),
           \A m \in DOMAIN s : \A v \in start .. end - 1 : ~Covers(s[m], v)
    PROVE  AreasOK(new, start, end)
<1>. DEFINE a == Area(start, end - start, "Heap", FALSE, end - start)
<1>1. /\ a.base = start /\ a.size = end - start /\ a.typ = "Heap" /\ a \in AreaRecs
      /\ end - start \in Nat
  BY DEF Area, AreaRecs
<1>0. Added(s, new, a)
  OBVIOUS
<1>. HIDE DEF a
<1>2. End(a) = end
  BY <1>1 DEF End
<1>3. InPart(a)
  BY <1>1, <1>2 DEF InPart
<1>4. \A m \in DOMAIN s : Apart(s[m], a)
  <2>1. ASSUME NEW v \in Pages, Covers(a, v) PROVE v \in start .. end - 1
    BY <1>1, <1>2, <2>1, Parts DEF Covers
  <2>. QED  BY <2>1 DEF Apart
<1>5. /\ \A i \in DOMAIN new : new[i] = a \/ \E m \in DOMAIN s : new[i] = s[m]
      /\ \A i, j \in DOMAIN new : i # j =>
             \/ Apart(new[i], new[j])
             \/ \E m, q \in DOMAIN s : m # q /\ new[i] = s[m] /\ new[j] = s[q]
  BY <1>0, <1>4, AddedPairs
<1>6. Listed(s, start, start)
  BY DEF Listed
<1>7. \A i, j \in DOMAIN new : i # j => Apart(new[i], new[j])
  BY <1>5, <1>6 DEF AreasOK
<1>8. \A i \in DOMAIN new : InPart(new[i])
  BY <1>3, <1>5 DEF AreasOK
<1>9. ASSUME NEW i \in DOMAIN new, new[i].typ = "Heap"
      PROVE  new[i].base = start /\ (new[i].size = 0 \/ End(new[i]) = end)
  <2>1. CASE new[i] = a
    BY <1>1, <1>2, <2>1
  <2>2. ASSUME NEW m \in DOMAIN s, new[i] = s[m]
        PROVE  new[i].base = start /\ (new[i].size = 0 \/ End(new[i]) = end)
    <3>1. s[m].base = start /\ (s[m].size = 0 \/ End(s[m]) = start)
      BY <1>9, <2>2 DEF AreasOK
    <3>2. s[m].size = 0
      BY <3>1, Fields, ListIs
    <3>. QED  BY <2>2, <3>1, <3>2
  <2>. QED  BY <1>5, <2>1, <2>2
<1>. QED  BY <1>7, <1>8, <1>9, ApartMet DEF AreasOK

\* sbrk with MAX_VMAS areas: the heap grows and has no area.
LEMMA HeapNotAdded ==
    ASSUME NEW s \in Lists, NEW start \in Nat, NEW end \in Nat,
           start <= end, AreasOK(s, start, start)
    PROVE  AreasOK(s, start, end)
<1>1. Listed(s, start, start)
  BY DEF Listed
<1>2. ASSUME NEW i \in DOMAIN s, s[i].typ = "Heap"
      PROVE  s[i].base = start /\ s[i].size = 0
  <2>1. s[i].base = start /\ (s[i].size = 0 \/ End(s[i]) = start)
    BY <1>2 DEF AreasOK
  <2>. QED  BY <2>1, Fields, ListIs
<1>. QED  BY <1>1, <1>2 DEF AreasOK

\* sbrk resizes the area that covers the start of the heap.
LEMMA ResizedIs ==
    ASSUME NEW s \in Lists, NEW start \in Nat, NEW end \in Nat, start <= end
    PROVE  LET t == Resized(s, start, end)
               i == find_vma(s, start)
           IN /\ t \in Lists /\ DOMAIN t = DOMAIN s
              /\ \A j \in DOMAIN s : j # i => t[j] = s[j]
              /\ i # 0 => /\ i \in DOMAIN s /\ Covers(s[i], start)
                          /\ t[i].base = s[i].base /\ t[i].typ = s[i].typ
                          /\ t[i].size = end - start
<1>. DEFINE t == Resized(s, start, end)
            i == find_vma(s, start)
<1>1. /\ i # 0 => i \in DOMAIN s /\ Covers(s[i], start)
      /\ t = IF i = 0 THEN s ELSE [s EXCEPT ![i].size = end - start, ![i].mapped = end - start]
  BY FindIs DEF Resized
<1>. HIDE DEF t, i
<1>2. CASE i = 0
  <2>1. 0 \notin DOMAIN s
    BY ListIs
  <2>. QED  BY <1>1, <1>2, <2>1 DEF t, i
<1>3. CASE i # 0
  <2>. DEFINE n == Len(s)
              e == [s[i] EXCEPT !.size = end - start, !.mapped = end - start]
  <2>1. n \in Nat /\ DOMAIN s = 1 .. n /\ i \in 1 .. n /\ s[i] \in AreaRecs
    BY <1>1, <1>3, ListIs
  <2>2. e \in AreaRecs /\ e.base = s[i].base /\ e.typ = s[i].typ /\ e.size = end - start
    <3>1. end - start \in Nat
      OBVIOUS
    <3>. QED  BY <2>1, <3>1 DEF AreaRecs
  <2>3. t = [s EXCEPT ![i] = e]
    BY <1>1, <1>3, <2>1, ListIs
  <2>. HIDE DEF e
  <2>4. t \in Lists /\ Len(t) = n /\ \A j \in 1 .. n : t[j] = IF j = i THEN e ELSE s[j]
    BY <2>1, <2>2, <2>3, ExceptSeq DEF Lists
  <2>5. DOMAIN t = DOMAIN s
    BY <2>1, <2>4, ListIs
  <2>. QED  BY <1>1, <1>3, <2>1, <2>2, <2>4, <2>5 DEF t, i
<1>. QED  BY <1>2, <1>3

\* sbrk when the heap is not empty, up or down: no page from the old end to the
\* new one is covered.  The area that covers the start takes the new size.
LEMMA HeapResized ==
    ASSUME NEW s \in Lists, NEW start \in Nat, NEW old \in Nat, NEW end \in Nat,
           start < old, start <= end, end <= StackTop, start < StackTop,
           AreasOK(s, start, old),
           \A m \in DOMAIN s : \A v \in old .. end - 1 : ~Covers(s[m], v)
    PROVE  AreasOK(Resized(s, start, end), start, end)
<1>. DEFINE t == Resized(s, start, end)
            i == find_vma(s, start)
<1>1. /\ t \in Lists /\ DOMAIN t = DOMAIN s
      /\ \A j \in DOMAIN s : j # i => t[j] = s[j]
      /\ i # 0 => /\ i \in DOMAIN s /\ Covers(s[i], start)
                  /\ t[i].base = s[i].base /\ t[i].typ = s[i].typ
                  /\ t[i].size = end - start
  BY ResizedIs
<1>2. start \in Pages
  BY Layout, Parts
<1>. HIDE DEF t
<1>3. \A j \in DOMAIN s : s[j] \in AreaRecs /\ t[j] \in AreaRecs
  BY <1>1, ListIs
<1>4. i # 0 => /\ s[i].base <= start /\ start < End(s[i])
               /\ s[i].base < StackTop /\ End(t[i]) <= end /\ t[i].base < StackTop
               /\ (s[i].base = start => End(t[i]) = end)
  <2>. SUFFICES ASSUME i # 0
                PROVE  /\ s[i].base <= start /\ start < End(s[i])
                       /\ s[i].base < StackTop /\ End(t[i]) <= end /\ t[i].base < StackTop
                       /\ (s[i].base = start => End(t[i]) = end)
    OBVIOUS
  <2>1. s[i] \in AreaRecs /\ t[i] \in AreaRecs /\ t[i].size = end - start
        /\ t[i].base = s[i].base /\ Covers(s[i], start)
    BY <1>1, <1>3
  <2>. HIDE DEF i
  <2>2. s[i].base <= start /\ start < End(s[i]) /\ s[i].base \in Nat
    BY <2>1, Fields DEF Covers
  <2>3. End(t[i]) = s[i].base + (end - start)
    BY <2>1, Fields
  <2>. QED  BY <1>2, <2>1, <2>2, <2>3, Layout
<1>. HIDE DEF i
<1>5. \A j \in DOMAIN t : InPart(t[j])
  <2>1. ASSUME NEW j \in DOMAIN t, j = i PROVE InPart(t[j])
    <3>1. 0 \notin DOMAIN s
      BY ListIs
    <3>2. End(t[i]) \in Nat /\ StackTop \in Nat
      BY <1>1, <1>3, <2>1, Fields, Layout
    <3>. QED  BY <1>1, <1>4, <2>1, <3>1, <3>2 DEF InPart
  <2>. QED  BY <1>1, <2>1 DEF AreasOK
<1>6. ASSUME NEW j \in DOMAIN s, Covers(s[j], start) PROVE j = i /\ i # 0
  <2>1. i # 0
    BY <1>6, FindIs DEF i
  <2>2. j # i => Met(s[j], s[i], start)
    BY <1>1, <2>1 DEF AreasOK
  <2>. QED  BY <1>1, <1>2, <1>6, <2>1, <2>2 DEF Met
<1>7. ASSUME NEW j \in DOMAIN t, t[j].typ = "Heap"
      PROVE  t[j].base = start /\ (t[j].size = 0 \/ End(t[j]) = end)
  <2>0. 0 \notin DOMAIN s
    BY ListIs
  <2>1. CASE j = i
    <3>1. s[j].typ = "Heap" /\ s[j].base = start /\ t[j].base = start
      BY <1>1, <1>7, <2>0, <2>1 DEF AreasOK
    <3>. QED  BY <1>1, <1>4, <2>0, <2>1, <3>1
  <2>2. CASE j # i
    <3>1. t[j] = s[j] /\ s[j].base = start /\ (s[j].size = 0 \/ End(s[j]) = old)
      BY <1>1, <1>7, <2>2 DEF AreasOK
    <3>2. ~(End(s[j]) = old)
      BY <1>1, <1>6, <2>2, <3>1 DEF Covers
    <3>. QED  BY <3>1, <3>2
  <2>. QED  BY <2>1, <2>2
<1>8. ASSUME NEW v \in Pages, i # 0, Covers(t[i], v)
      PROVE  /\ v <= start => Covers(s[i], v)
             /\ start < v => Covers(t[i], start)
             /\ s[i].base = start /\ End(s[i]) = old => Covers(s[i], v) \/ v \in old .. end - 1
             /\ start < end
  BY <1>1, <1>3, <1>4, <1>8, Fields, Parts DEF Covers
<1>9. ASSUME NEW j \in DOMAIN t, NEW k \in DOMAIN t, j # k PROVE Met(t[j], t[k], start)
  <2>. SUFFICES ASSUME NEW v \in Pages, Covers(t[j], v), Covers(t[k], v)
                PROVE  start < v /\ (Covers(t[j], start) \/ Covers(t[k], start))
    BY DEF Met
  <2>0. 0 \notin DOMAIN s /\ v \in Int
    BY ListIs, Parts
  <2>1. Met(s[j], s[k], start)
    BY <1>1, <1>9 DEF AreasOK
  <2>2. CASE j # i /\ k # i
    BY <1>1, <2>1, <2>2 DEF Met
  <2>3. CASE j = i
    <3>1. i # 0 /\ t[k] = s[k] /\ Covers(t[i], v)
      BY <1>1, <1>9, <2>0, <2>3
    <3>2. v <= start => start < v
      <4>. SUFFICES ASSUME v <= start PROVE start < v
        OBVIOUS
      <4>1. Covers(s[j], v) /\ Covers(s[k], v)
        BY <1>8, <2>3, <3>1
      <4>. QED  BY <2>1, <4>1 DEF Met
    <3>3. start < v
      BY <2>0, <3>2
    <3>4. Covers(t[i], start)
      BY <1>8, <3>1, <3>3
    <3>. QED  BY <2>3, <3>3, <3>4
  <2>4. CASE k = i
    <3>1. i # 0 /\ t[j] = s[j] /\ Covers(t[i], v)
      BY <1>1, <1>9, <2>0, <2>4
    <3>2. v <= start => start < v
      <4>. SUFFICES ASSUME v <= start PROVE start < v
        OBVIOUS
      <4>1. Covers(s[j], v) /\ Covers(s[k], v)
        BY <1>8, <2>4, <3>1
      <4>. QED  BY <2>1, <4>1 DEF Met
    <3>3. start < v
      BY <2>0, <3>2
    <3>4. Covers(t[i], start)
      BY <1>8, <3>1, <3>3
    <3>. QED  BY <2>4, <3>3, <3>4
  <2>. QED  BY <2>2, <2>3, <2>4
<1>10. Listed(t, start, end) /\ start < end =>
           Listed(s, start, old) /\ i # 0 /\ s[i].base = start /\ End(s[i]) = old
  <2>. SUFFICES ASSUME Listed(t, start, end), start < end
                PROVE  Listed(s, start, old) /\ i # 0 /\ s[i].base = start /\ End(s[i]) = old
    OBVIOUS
  <2>1. PICK k \in DOMAIN t : t[k].typ = "Heap" /\ t[k].base = start /\ End(t[k]) = end
    BY DEF Listed
  <2>2. s[k].typ = "Heap" /\ s[k].base = start /\ (s[k].size = 0 \/ End(s[k]) = old)
    <3>1. s[k].typ = "Heap"
      BY <1>1, <2>1, ListIs
    <3>. QED  BY <1>1, <3>1 DEF AreasOK
  <2>3. s[k].size # 0
    <3>1. CASE k = i
      <4>1. Covers(s[k], start)
        BY <1>1, <3>1, ListIs
      <4>. QED  BY <1>1, <1>3, <2>2, <4>1, Fields DEF Covers
    <3>2. CASE k # i
      <4>1. t[k] = s[k] /\ s[k] \in AreaRecs
        BY <1>1, <1>3, <3>2
      <4>. QED  BY <2>1, <2>2, <4>1, Fields
    <3>. QED  BY <3>1, <3>2
  <2>4. End(s[k]) = old /\ Covers(s[k], start)
    BY <1>1, <1>3, <2>2, <2>3, Fields DEF Covers
  <2>5. Listed(s, start, old)
    BY <1>1, <2>2, <2>4 DEF Listed
  <2>6. i = k /\ i # 0
    BY <1>1, <1>6, <2>4
  <2>. QED  BY <2>2, <2>4, <2>5, <2>6
<1>11. ASSUME Listed(t, start, end), NEW j \in DOMAIN t, NEW k \in DOMAIN t, j # k
       PROVE  Apart(t[j], t[k])
  <2>. SUFFICES ASSUME NEW v \in Pages, Covers(t[j], v), Covers(t[k], v) PROVE FALSE
    BY DEF Apart
  <2>0. 0 \notin DOMAIN s /\ Met(s[j], s[k], start)
    BY <1>1, <1>11, ListIs DEF AreasOK
  <2>1. CASE j # i /\ k # i
    BY <1>1, <1>6, <2>0, <2>1 DEF Met
  <2>2. CASE j = i \/ k = i
    <3>1. i # 0 /\ Covers(t[i], v)
      BY <1>1, <2>0, <2>2
    <3>2. Listed(s, start, old) /\ s[i].base = start /\ End(s[i]) = old
      BY <1>8, <1>10, <1>11, <3>1
    <3>3. Apart(s[j], s[k])
      BY <1>1, <1>11, <3>2 DEF AreasOK
    <3>4. Covers(s[i], v) \/ v \in old .. end - 1
      BY <1>8, <3>1, <3>2
    <3>. QED  BY <1>1, <1>11, <2>2, <3>3, <3>4 DEF Apart
  <2>. QED  BY <2>1, <2>2
<1>12. ASSUME NEW j \in DOMAIN t, NEW k \in DOMAIN t, j # k, StackTop <= t[j].base
       PROVE  Apart(t[j], t[k])
  <2>1. j # i
    BY <1>1, <1>3, <1>4, <1>12, ListIs, Layout, Fields
  <2>2. t[j] = s[j] /\ Apart(s[j], s[k])
    BY <1>1, <1>12, <2>1 DEF AreasOK
  <2>3. CASE k # i
    BY <1>1, <2>2, <2>3
  <2>4. CASE k = i
    <3>1. i # 0
      BY <1>1, <2>4, ListIs
    <3>2. End(t[k]) <= StackTop /\ t[k] \in AreaRecs /\ t[j] \in AreaRecs
      BY <1>1, <1>3, <1>4, <2>4, <3>1, Layout, Fields
    <3>3. ASSUME NEW v \in Pages, Covers(t[j], v), Covers(t[k], v) PROVE FALSE
      <4>1. v \in Nat /\ t[j].base <= v /\ v < End(t[k])
        BY <3>3, Parts DEF Covers
      <4>2. t[j].base \in Nat /\ End(t[k]) \in Nat
        BY <3>2, Fields
      <4>. QED  BY <1>12, <3>2, <4>1, <4>2, Layout
    <3>. QED  BY <3>3 DEF Apart
  <2>. QED  BY <2>3, <2>4
<1>. QED  BY <1>5, <1>7, <1>9, <1>11, <1>12 DEF AreasOK, t

\* With the area a the own pages W become X: a counts those of its own, and the
\* pages of the areas in s are there as before.
Joins(s, a, W, X) ==
    /\ W \subseteq OwnPages /\ X \subseteq OwnPages
    /\ \A m \in DOMAIN s : Apart(s[m], a)
    /\ \A m \in DOMAIN s : \A v \in OwnPages : Covers(s[m], v) => (v \in X <=> v \in W)
    /\ \A v \in X : v \in W \/ Covers(a, v)
    /\ OwnBase <= a.base => a.mapped = Cardinality({v \in X : Covers(a, v)})

\* mmap_anon: the areas count what is there after it.
LEMMA AddCounts ==
    ASSUME NEW s \in Lists, NEW new \in Lists, NEW a \in AreaRecs, Added(s, new, a),
           NEW W, NEW X, Joins(s, a, W, X), Counted(s, W)
    PROVE  Counted(new, X)
<1>. USE DEF Joins
<1>1. /\ \A i \in DOMAIN new : new[i] = a \/ \E m \in DOMAIN s : new[i] = s[m]
      /\ \A m \in DOMAIN s : \E i \in DOMAIN new : new[i] = s[m]
      /\ \E i \in DOMAIN new : new[i] = a
  BY AddedPairs
<1>2. \A v \in X : \E i \in DOMAIN new : Covers(new[i], v)
  BY <1>1 DEF Counted
<1>3. ASSUME NEW i \in DOMAIN new, OwnBase <= new[i].base
      PROVE  new[i].mapped = Cardinality({v \in X : Covers(new[i], v)})
  <2>1. ASSUME NEW m \in DOMAIN s, new[i] = s[m]
        PROVE  new[i].mapped = Cardinality({v \in X : Covers(new[i], v)})
    <3>1. {v \in X : Covers(s[m], v)} = {v \in W : Covers(s[m], v)}
      OBVIOUS
    <3>2. s[m].mapped = Cardinality({v \in W : Covers(s[m], v)})
      BY <1>3, <2>1 DEF Counted
    <3>. QED  BY <2>1, <3>1, <3>2
  <2>. QED  BY <1>1, <1>3, <2>1
<1>. QED  BY <1>2, <1>3 DEF Counted

\* Without the r-th area the own pages W become X, and the pages of the other
\* areas are there as before.
Departs(s, r, W, X) ==
    /\ W \subseteq OwnPages /\ X \subseteq OwnPages
    /\ \A m \in DOMAIN s : m # r =>
           \A v \in OwnPages : Covers(s[m], v) => (v \in X <=> v \in W)
    /\ \A v \in X : v \in W /\ ~Covers(s[r], v)

\* munmap: the pages of the area that goes are not there any more.
LEMMA RemoveCounts ==
    ASSUME NEW s \in Lists, NEW new \in Lists, NEW r \in DOMAIN s, Removed(s, new, r),
           NEW W, NEW X, Departs(s, r, W, X), Counted(s, W)
    PROVE  Counted(new, X)
<1>. USE DEF Departs
<1>1. /\ \A i \in DOMAIN new : \E m \in DOMAIN s : m # r /\ new[i] = s[m]
      /\ \A m \in DOMAIN s : m # r => \E i \in DOMAIN new : new[i] = s[m]
  BY RemovedPairs
<1>2. ASSUME NEW v \in X PROVE \E i \in DOMAIN new : Covers(new[i], v)
  <2>1. PICK m \in DOMAIN s : Covers(s[m], v)
    BY DEF Counted
  <2>2. m # r
    BY <2>1
  <2>. QED  BY <1>1, <2>1, <2>2
<1>3. ASSUME NEW i \in DOMAIN new, OwnBase <= new[i].base
      PROVE  new[i].mapped = Cardinality({v \in X : Covers(new[i], v)})
  <2>1. PICK m \in DOMAIN s : m # r /\ new[i] = s[m]
    BY <1>1
  <2>2. {v \in X : Covers(s[m], v)} = {v \in W : Covers(s[m], v)}
    BY <2>1
  <2>3. s[m].mapped = Cardinality({v \in W : Covers(s[m], v)})
    BY <1>3, <2>1 DEF Counted
  <2>. QED  BY <2>1, <2>2, <2>3
<1>. QED  BY <1>2, <1>3 DEF Counted

\* sbrk changes no area of own pages.
LEMMA ResizeCounts ==
    ASSUME NEW s \in Lists, NEW t \in Lists, DOMAIN t = DOMAIN s,
           NEW W \in SUBSET OwnPages, Counted(s, W),
           \A i \in DOMAIN s : InPart(s[i]),
           \A i \in DOMAIN s : OwnBase <= s[i].base \/ OwnBase <= t[i].base => t[i] = s[i]
    PROVE  Counted(t, W)
<1>1. ASSUME NEW v \in W PROVE \E i \in DOMAIN t : Covers(t[i], v)
  <2>1. PICK i \in DOMAIN s : Covers(s[i], v)
    BY DEF Counted
  <2>2. s[i] \in AreaRecs /\ InPart(s[i]) /\ v \in OwnPages
    BY ListIs
  <2>3. OwnBase <= s[i].base
    BY <2>1, <2>2, OwnAreas
  <2>. QED  BY <2>1, <2>3
<1>2. \A i \in DOMAIN t : OwnBase <= t[i].base =>
          t[i].mapped = Cardinality({v \in W : Covers(t[i], v)})
  BY DEF Counted
<1>. QED  BY <1>1, <1>2 DEF Counted

\* A fault brings one page to its area.
LEMMA FaultCounts ==
    ASSUME NEW s \in Lists, NEW i \in DOMAIN s, NEW t \in Lists, DOMAIN t = DOMAIN s,
           \A j \in DOMAIN s : t[j] = IF j = i THEN [s[i] EXCEPT !.mapped = @ + 1] ELSE s[j],
           NEW W \in SUBSET OwnPages, Counted(s, W),
           \A j, k \in DOMAIN s : j # k /\ OwnBase <= s[j].base => Apart(s[j], s[k]),
           InPart(s[i]),
           NEW v \in Pages, v \notin W, Covers(s[i], v)
    PROVE  Counted(t, IF v \in OwnPages THEN W \cup {v} ELSE W)
<1>. DEFINE X == IF v \in OwnPages THEN W \cup {v} ELSE W
<1>1. s[i] \in AreaRecs
  BY ListIs
<1>2. \A j \in DOMAIN s : \A u : Covers(t[j], u) <=> Covers(s[j], u)
  BY <1>1 DEF Covers, End, AreaRecs
<1>3. \A j \in DOMAIN s : t[j].base = s[j].base /\ (j # i => t[j].mapped = s[j].mapped)
      /\ t[i].mapped = s[i].mapped + 1
  BY <1>1 DEF AreaRecs
<1>4. \A u \in X : \E j \in DOMAIN t : Covers(t[j], u)
  BY <1>2 DEF Counted
<1>5. ASSUME NEW j \in DOMAIN s, OwnBase <= s[j].base
      PROVE  t[j].mapped = Cardinality({u \in X : Covers(t[j], u)})
  <2>0. s[j].mapped = Cardinality({u \in W : Covers(s[j], u)})
    BY <1>5 DEF Counted
  <2>1. CASE j = i
    <3>1. v \in OwnPages
      BY <1>1, <1>5, <2>1, Fields, Parts, Layout DEF Covers
    <3>2. {u \in X : Covers(t[j], u)} = {u \in W : Covers(s[j], u)} \cup {v}
      BY <1>2, <2>1, <3>1
    <3>3. IsFiniteSet({u \in W : Covers(s[j], u)})
      BY FiniteLeaves, FS_Subset
    <3>4. Cardinality({u \in W : Covers(s[j], u)} \cup {v}) =
              Cardinality({u \in W : Covers(s[j], u)}) + 1
      BY <3>3, FS_AddElement
    <3>. QED  BY <1>3, <2>0, <2>1, <3>2, <3>4
  <2>2. CASE j # i
    <3>1. ~Covers(s[j], v)
      BY <1>5, <2>2 DEF Apart
    <3>2. {u \in X : Covers(t[j], u)} = {u \in W : Covers(s[j], u)}
      BY <1>2, <3>1
    <3>. QED  BY <1>3, <2>0, <2>2, <3>2
  <2>. QED  BY <2>1, <2>2
<1>6. \A j \in DOMAIN t : OwnBase <= t[j].base =>
          t[j].mapped = Cardinality({u \in X : Covers(t[j], u)})
  BY <1>3, <1>5
<1>. QED  BY <1>4, <1>6 DEF Counted

-----------------------------------------------------------------------------
(***************************************************************************)
(* What the tables and the counters keep.  P is a pte, R counts for each   *)
(* frame the references that are not a fork's for the identity map, C is a *)
(* content, U a used and L a set of processes; Q, S, D and M stand for     *)
(* what a step makes of P, R, C and L.                                     *)
(***************************************************************************)

Places == (Procs \cup {0}) \X Pages

Leaves == [frame : Frames \cup {NoFrame}, w : BOOLEAN, cow : BOOLEAN]

UsersOf(P, f) == {x \in Places : P[x].frame = f}

\* Only pages that a fork copies are copy-on-write; own pages that can be
\* written are there; processes that do not live have none.
LeafOK(P, L, x) ==
    /\ P[x].cow => x[2] \in ClonedPages /\ P[x].frame # NoFrame
    /\ P[x].w /\ x[2] \in OwnPages => P[x].frame # NoFrame
    /\ x[2] \in ClonedPages /\ x[1] # 0 /\ x[1] \notin L => P[x].frame = NoFrame

\* Two leaves name one frame only for the same page of two trees, and neither
\* can write.
Sharing(P) ==
    \A x, y \in Places :
        x # y /\ P[x].frame # NoFrame /\ P[x].frame = P[y].frame =>
            x[2] = y[2] /\ x[2] \in ClonedPages /\ ~P[x].w

\* RefsCountLeaves for P and R.
CountsOK(P, R) ==
    \A f \in Frames :
        /\ Cardinality(UsersOf(P, f)) <= R[f]
        /\ (\E x \in UsersOf(P, f) : x[2] \in OwnPages) => Cardinality(UsersOf(P, f)) = R[f]

TablesOK(P, R, C, U, L) ==
    /\ \A x \in Places : LeafOK(P, L, x)
    /\ Sharing(P)
    /\ CountsOK(P, R)
    /\ \A f \in Frames : f \notin U => UsersOf(P, f) = {} /\ C[f] = 0

TableTypes(P, R, C) ==
    P \in [Places -> Leaves] /\ R \in [Frames -> Nat] /\ C \in [Frames -> Values]

\* A place is a table and a page.
LEMMA PlacesArePairs ==
    /\ \A x \in Places : x[1] \in Procs \cup {0} /\ x[2] \in Pages /\ x = <<x[1], x[2]>>
    /\ \A q \in Procs \cup {0} : \A v \in Pages : <<q, v>> \in Places
BY DEF Places

\* The fields of a leaf.
LEMMA LeafFields ==
    /\ \A l \in Leaves : /\ l.frame \in Frames \cup {NoFrame} /\ l.w \in BOOLEAN /\ l.cow \in BOOLEAN
                         /\ l = [frame |-> l.frame, w |-> l.w, cow |-> l.cow]
    /\ Absent \in Leaves /\ Absent.frame = NoFrame /\ ~Absent.w /\ ~Absent.cow
BY DEF Leaves, Absent

\* The users of a frame are finitely many.
LEMMA UsersFinite ==
    \A P, f : /\ IsFiniteSet(UsersOf(P, f)) /\ Cardinality(UsersOf(P, f)) \in Nat
              /\ UsersOf(P, f) \subseteq Places
<1>. SUFFICES ASSUME NEW P, NEW f
              PROVE  /\ IsFiniteSet(UsersOf(P, f)) /\ Cardinality(UsersOf(P, f)) \in Nat
                     /\ UsersOf(P, f) \subseteq Places
  OBVIOUS
<1>1. IsFiniteSet(Places)
  BY FiniteLeaves DEF Places
<1>2. UsersOf(P, f) \subseteq Places
  BY DEF UsersOf
<1>3. IsFiniteSet(UsersOf(P, f))
  BY <1>1, <1>2, FS_Subset
<1>. QED  BY <1>2, <1>3, FS_CardinalityType

\* A frame with a leaf has references; the last one is the only leaf.
LEMMA UsersHold ==
    ASSUME NEW P, NEW R, NEW C, TableTypes(P, R, C), CountsOK(P, R),
           NEW x \in Places, P[x].frame # NoFrame
    PROVE  /\ P[x].frame \in Frames /\ R[P[x].frame] \in Nat /\ R[P[x].frame] # 0
           /\ R[P[x].frame] = 1 => UsersOf(P, P[x].frame) = {x}
<1>. DEFINE f == P[x].frame
            U == UsersOf(P, f)
<1>1. f \in Frames /\ R[f] \in Nat /\ x \in U
  BY LeafFields DEF TableTypes, UsersOf
<1>2. IsFiniteSet(U) /\ Cardinality(U) \in Nat
  BY UsersFinite
<1>3. Cardinality(U) # 0
  BY <1>1, <1>2, FS_EmptySet
<1>4. Cardinality(U) <= R[f]
  BY <1>1 DEF CountsOK
<1>5. ASSUME R[f] = 1 PROVE U = {x}
  <2>1. Cardinality(U) = 1
    BY <1>1, <1>2, <1>3, <1>4, <1>5
  <2>2. PICK y : U = {y}
    BY <1>2, <2>1, FS_Singleton
  <2>. QED  BY <1>1, <2>2
<1>. HIDE DEF U
<1>6. R[f] # 0
  BY <1>1, <1>2, <1>3, <1>4
<1>. QED  BY <1>1, <1>5, <1>6 DEF U

\* A free frame has no leaf.
LEMMA FreeUnused ==
    ASSUME NEW P, NEW R, NEW C, NEW U, NEW L, TablesOK(P, R, C, U, L),
           NEW f \in Frames, f \notin U
    PROVE  UsersOf(P, f) = {} /\ \A x \in Places : P[x].frame # f
BY DEF TablesOK, UsersOf

\* Own pages are copied.
LEMMA OwnCloned == \A v \in OwnPages : v \in ClonedPages /\ v \in Pages
BY Parts, Layout DEF ClonedPages

\* The places N, of tables of M, get the free frames g, over nothing where a
\* page is a process's own.
Mappable(P, U, L, N, g, M) ==
    /\ N \subseteq Places /\ g \in [N -> Frames] /\ L \subseteq M
    /\ \A x \in N : g[x] \notin U
    /\ \A x, y \in N : g[x] = g[y] => x = y
    /\ \A x \in N : x[2] \in OwnPages => P[x].frame = NoFrame
    /\ \A x \in N : x[2] \in ClonedPages => x[1] = 0 \/ x[1] \in M

Mapped(P, R, U, N, g, Q, S, T) ==
    /\ Q = [x \in Places |-> IF x \in N THEN [frame |-> g[x], w |-> TRUE, cow |-> FALSE]
                                        ELSE P[x]]
    /\ S = [f \in Frames |-> IF \E x \in N : g[x] = f THEN 1 ELSE R[f]]
    /\ T = U \cup {g[x] : x \in N}

\* vmap keeps what the tables keep.
LEMMA MapTables ==
    ASSUME NEW P, NEW R, NEW C, NEW U, NEW L, TableTypes(P, R, C), TablesOK(P, R, C, U, L),
           NEW N, NEW g, NEW M, Mappable(P, U, L, N, g, M),
           NEW Q, NEW S, NEW T, Mapped(P, R, U, N, g, Q, S, T)
    PROVE  TableTypes(Q, S, C) /\ TablesOK(Q, S, C, T, M)
<1>. USE DEF Mappable, Mapped
<1>1. TableTypes(Q, S, C)
  <2>1. Q \in [Places -> Leaves]
    BY DEF TableTypes, Leaves
  <2>2. S \in [Frames -> Nat]
    BY DEF TableTypes
  <2>. QED  BY <2>1, <2>2 DEF TableTypes
<1>2. /\ \A x \in N : Q[x].frame = g[x] /\ Q[x].w /\ ~Q[x].cow /\ g[x] \in Frames /\ g[x] # NoFrame
      /\ \A x \in Places : x \notin N => Q[x] = P[x]
  BY Layout
<1>3. \A x \in N : \A y \in Places : P[y].frame # g[x]
  BY FreeUnused
<1>4. ASSUME NEW x \in Places PROVE LeafOK(Q, M, x)
  <2>0. LeafOK(P, L, x)
    BY DEF TablesOK
  <2>1. CASE x \in N
    BY <1>2, <2>1 DEF LeafOK
  <2>2. CASE x \notin N
    BY <1>2, <2>0, <2>2 DEF LeafOK
  <2>. QED  BY <2>1, <2>2
<1>5. Sharing(Q)
  <2>. SUFFICES ASSUME NEW x \in Places, NEW y \in Places, x # y,
                       Q[x].frame # NoFrame, Q[x].frame = Q[y].frame
                PROVE  x[2] = y[2] /\ x[2] \in ClonedPages /\ ~Q[x].w
    BY DEF Sharing
  <2>1. x \notin N /\ y \notin N
    BY <1>2, <1>3
  <2>. QED  BY <1>2, <2>1 DEF TablesOK, Sharing
<1>6. CountsOK(Q, S)
  <2>. SUFFICES ASSUME NEW f \in Frames
                PROVE  /\ Cardinality(UsersOf(Q, f)) <= S[f]
                       /\ (\E x \in UsersOf(Q, f) : x[2] \in OwnPages) =>
                              Cardinality(UsersOf(Q, f)) = S[f]
    BY DEF CountsOK
  <2>1. CASE \E x \in N : g[x] = f
    <3>1. PICK x \in N : g[x] = f
      BY <2>1
    <3>2. UsersOf(Q, f) = {x}
      BY <1>2, <1>3, <3>1 DEF UsersOf
    <3>3. Cardinality(UsersOf(Q, f)) = 1
      BY <3>2, FS_Singleton
    <3>4. S[f] = 1
      BY <2>1
    <3>. QED  BY <3>3, <3>4
  <2>2. CASE ~ \E x \in N : g[x] = f
    <3>1. S[f] = R[f]
      BY <2>2
    <3>2. UsersOf(Q, f) = UsersOf(P, f) \ N
      BY <1>2, <2>2 DEF UsersOf
    <3>3. Cardinality(UsersOf(Q, f)) <= Cardinality(UsersOf(P, f))
      <4>1. UsersOf(Q, f) \subseteq UsersOf(P, f)
        BY <3>2
      <4>. QED  BY <4>1, UsersFinite, FS_Subset
    <3>4. Cardinality(UsersOf(P, f)) <= R[f] /\ R[f] \in Nat
      BY DEF TablesOK, CountsOK, TableTypes
    <3>5. ASSUME NEW x \in UsersOf(Q, f), x[2] \in OwnPages
          PROVE  Cardinality(UsersOf(Q, f)) = S[f]
      <4>1. x \in UsersOf(P, f) /\ P[x].frame = f /\ f # NoFrame
        BY <3>2, Layout DEF UsersOf
      <4>2. \A y \in UsersOf(P, f) : y \notin N
        <5>. SUFFICES ASSUME NEW y \in UsersOf(P, f), y \in N PROVE FALSE
          OBVIOUS
        <5>1. P[y].frame = f /\ y \in Places /\ x \in Places
          BY <4>1 DEF UsersOf
        <5>2. y[2] \in OwnPages
          BY <3>5, <4>1, <5>1 DEF TablesOK, Sharing
        <5>. QED  BY <4>1, <5>1, <5>2
      <4>3. UsersOf(Q, f) = UsersOf(P, f)
        BY <3>2, <4>2
      <4>4. Cardinality(UsersOf(P, f)) = R[f]
        BY <3>5, <4>1 DEF TablesOK, CountsOK
      <4>. QED  BY <3>1, <4>3, <4>4
    <3>. QED  BY <3>1, <3>3, <3>4, <3>5, UsersFinite
  <2>. QED  BY <2>1, <2>2
<1>7. ASSUME NEW f \in Frames, f \notin T PROVE UsersOf(Q, f) = {} /\ C[f] = 0
  <2>1. UsersOf(P, f) = {} /\ C[f] = 0 /\ \A x \in N : g[x] # f
    BY <1>7 DEF TablesOK
  <2>. QED  BY <1>2, <2>1 DEF UsersOf
<1>. QED  BY <1>1, <1>4, <1>5, <1>6, <1>7 DEF TablesOK

\* The places N go, no two of one page; F are their frames.
Droppable(P, N, F) ==
    /\ N \subseteq Places
    /\ \A x, y \in N : x[2] = y[2] => x = y
    /\ \A f : f \in F <=> f # NoFrame /\ \E x \in N : P[x].frame = f

Dropped(P, R, N, F, Q, S) ==
    /\ Q = [x \in Places |-> IF x \in N THEN Absent ELSE P[x]]
    /\ S = [f \in Frames |-> IF f \in F THEN R[f] - 1 ELSE R[f]]

\* Drop keeps what the tables keep.
LEMMA DropTables ==
    ASSUME NEW P, NEW R, NEW C, NEW U, NEW L, TableTypes(P, R, C), TablesOK(P, R, C, U, L),
           NEW N, NEW F, Droppable(P, N, F),
           NEW Q, NEW S, Dropped(P, R, N, F, Q, S)
    PROVE  TableTypes(Q, S, C) /\ TablesOK(Q, S, C, U, L)
<1>. USE DEF Droppable, Dropped
<1>1. ASSUME NEW f \in F
      PROVE  /\ f \in Frames /\ f # NoFrame /\ R[f] \in Nat /\ R[f] # 0
             /\ \E x \in N : P[x].frame = f
  <2>1. PICK x \in N : P[x].frame = f /\ f # NoFrame
    OBVIOUS
  <2>2. f \in Frames /\ R[f] \in Nat /\ R[f] # 0
    BY <2>1, UsersHold DEF TablesOK
  <2>. QED  BY <2>1, <2>2
<1>2. TableTypes(Q, S, C)
  <2>1. Q \in [Places -> Leaves]
    BY LeafFields DEF TableTypes
  <2>2. S \in [Frames -> Nat]
    BY <1>1 DEF TableTypes
  <2>. QED  BY <2>1, <2>2 DEF TableTypes
<1>3. /\ \A x \in N : Q[x].frame = NoFrame /\ ~Q[x].w /\ ~Q[x].cow
      /\ \A x \in Places : x \notin N => Q[x] = P[x]
  BY LeafFields
<1>4. ASSUME NEW x \in Places PROVE LeafOK(Q, L, x)
  <2>0. LeafOK(P, L, x)
    BY DEF TablesOK
  <2>1. CASE x \in N
    BY <1>3, <2>1 DEF LeafOK
  <2>2. CASE x \notin N
    BY <1>3, <2>0, <2>2 DEF LeafOK
  <2>. QED  BY <2>1, <2>2
<1>5. Sharing(Q)
  <2>. SUFFICES ASSUME NEW x \in Places, NEW y \in Places, x # y,
                       Q[x].frame # NoFrame, Q[x].frame = Q[y].frame
                PROVE  x[2] = y[2] /\ x[2] \in ClonedPages /\ ~Q[x].w
    BY DEF Sharing
  <2>1. x \notin N /\ y \notin N
    BY <1>3
  <2>2. Q[x] = P[x] /\ Q[y] = P[y]
    BY <1>3, <2>1
  <2>. QED  BY <2>2 DEF TablesOK, Sharing
<1>6. ASSUME NEW f \in Frames PROVE UsersOf(Q, f) = UsersOf(P, f) \ N
  <2>1. ASSUME NEW x \in Places PROVE Q[x].frame = f <=> P[x].frame = f /\ x \notin N
    <3>1. f # NoFrame
      BY Layout
    <3>2. CASE x \in N
      <4>1. Q[x].frame = NoFrame
        BY <1>3, <3>2
      <4>. QED  BY <3>1, <3>2, <4>1
    <3>3. CASE x \notin N
      <4>1. Q[x] = P[x]
        BY <1>3, <3>3
      <4>. QED  BY <3>3, <4>1
    <3>. QED  BY <3>2, <3>3
  <2>. QED  BY <2>1 DEF UsersOf
<1>7. CountsOK(Q, S)
  <2>. SUFFICES ASSUME NEW f \in Frames
                PROVE  /\ Cardinality(UsersOf(Q, f)) <= S[f]
                       /\ (\E x \in UsersOf(Q, f) : x[2] \in OwnPages) =>
                              Cardinality(UsersOf(Q, f)) = S[f]
    BY DEF CountsOK
  <2>0. /\ Cardinality(UsersOf(P, f)) <= R[f]
        /\ (\E x \in UsersOf(P, f) : x[2] \in OwnPages) => Cardinality(UsersOf(P, f)) = R[f]
        /\ (\E x \in UsersOf(Q, f) : x[2] \in OwnPages) =>
               \E x \in UsersOf(P, f) : x[2] \in OwnPages
        /\ R[f] \in Nat /\ Cardinality(UsersOf(P, f)) \in Nat
    BY <1>6, UsersFinite DEF TablesOK, CountsOK, TableTypes
  <2>1. CASE f \in F
    <3>1. PICK x \in N : P[x].frame = f
      BY <1>1, <2>1
    <3>2. x \in UsersOf(P, f)
      BY <3>1 DEF UsersOf
    <3>3. \A y \in UsersOf(P, f) : y \in N => y = x
      <4>1. \A y \in UsersOf(P, f) : y # x => y[2] = x[2]
        BY <3>1, Layout DEF UsersOf, TablesOK, Sharing
      <4>. QED  BY <3>1, <4>1
    <3>4. UsersOf(Q, f) = UsersOf(P, f) \ {x}
      BY <1>6, <3>3, <3>1
    <3>5. Cardinality(UsersOf(Q, f)) = Cardinality(UsersOf(P, f)) - 1
      BY <3>2, <3>4, UsersFinite, FS_RemoveElement
    <3>6. S[f] = R[f] - 1
      BY <2>1
    <3>. QED  BY <2>0, <3>5, <3>6
  <2>2. CASE f \notin F
    <3>1. UsersOf(Q, f) = UsersOf(P, f)
      BY <1>6, <2>2, Layout DEF UsersOf
    <3>2. S[f] = R[f]
      BY <2>2
    <3>. QED  BY <2>0, <3>1, <3>2
  <2>. QED  BY <2>1, <2>2
<1>8. \A f \in Frames : f \notin U => UsersOf(Q, f) = {} /\ C[f] = 0
  BY <1>6 DEF TablesOK
<1>. QED  BY <1>2, <1>4, <1>5, <1>7, <1>8 DEF TablesOK

\* A copy-on-write leaf that has its frame for itself becomes writable.
MadeSole(P, R, z, Q) == R[P[z].frame] <= 1 /\ Q = [P EXCEPT ![z].w = TRUE, ![z].cow = FALSE]

\* A leaf leaves the frame old for a copy of it.
MadeCopy(P, R, C, U, z, old, new, Q, S, D) ==
    /\ old = P[z].frame /\ new \in Frames /\ new \notin U
    /\ Q = [P EXCEPT ![z] = [frame |-> new, w |-> TRUE, cow |-> FALSE]]
    /\ S = [f \in Frames |-> IF f = new THEN 1 ELSE IF f = old THEN R[old] - 1 ELSE R[f]]
    /\ D = [C EXCEPT ![new] = C[old]]

\* The only user of a frame may write to it.
LEMMA SoleTables ==
    ASSUME NEW P, NEW R, NEW C, NEW U, NEW L, TableTypes(P, R, C), TablesOK(P, R, C, U, L),
           NEW z \in Places, P[z].cow,
           NEW Q, MadeSole(P, R, z, Q)
    PROVE  /\ TableTypes(Q, R, C) /\ TablesOK(Q, R, C, U, L)
           /\ \A x \in Places : Q[x].frame = P[x].frame
<1>. USE DEF MadeSole
<1>1. /\ P \in [Places -> Leaves] /\ P[z] \in Leaves
      /\ z[2] \in ClonedPages /\ P[z].frame # NoFrame
  BY DEF TableTypes, TablesOK, LeafOK
<1>2. /\ \A x \in Places : Q[x] = IF x = z THEN [frame |-> P[z].frame, w |-> TRUE, cow |-> FALSE] ELSE P[x]
      /\ Q \in [Places -> Leaves]
  BY <1>1, LeafFields DEF Leaves
<1>3. TableTypes(Q, R, C)
  BY <1>2 DEF TableTypes
<1>4. \A x \in Places : Q[x].frame = P[x].frame
  BY <1>2
<1>5. \A f : UsersOf(Q, f) = UsersOf(P, f)
  BY <1>4 DEF UsersOf
<1>6. \A x \in Places : x # z => P[x].frame # P[z].frame
  <2>1. R[P[z].frame] \in Nat /\ R[P[z].frame] # 0 /\ R[P[z].frame] <= 1
    BY <1>1, UsersHold DEF TablesOK
  <2>2. R[P[z].frame] = 1
    BY <2>1
  <2>3. UsersOf(P, P[z].frame) = {z}
    BY <1>1, <2>2, UsersHold DEF TablesOK
  <2>. QED  BY <2>3 DEF UsersOf
<1>7. Sharing(Q)
  BY <1>2, <1>4, <1>6 DEF TablesOK, Sharing
<1>8. ASSUME NEW x \in Places PROVE LeafOK(Q, L, x)
  <2>1. LeafOK(P, L, x)
    BY DEF TablesOK
  <2>. QED  BY <1>1, <1>2, <2>1 DEF LeafOK
<1>9. CountsOK(Q, R)
  BY <1>5 DEF TablesOK, CountsOK
<1>10. \A f \in Frames : f \notin U => UsersOf(Q, f) = {} /\ C[f] = 0
  BY <1>5 DEF TablesOK
<1>. QED  BY <1>3, <1>4, <1>7, <1>8, <1>9, <1>10 DEF TablesOK

\* One of several users takes a copy.
LEMMA CopyTables ==
    ASSUME NEW P, NEW R, NEW C, NEW U, NEW L, TableTypes(P, R, C), TablesOK(P, R, C, U, L),
           NEW z \in Places, P[z].cow, NEW old, NEW new,
           NEW Q, NEW S, NEW D, MadeCopy(P, R, C, U, z, old, new, Q, S, D)
    PROVE  TableTypes(Q, S, D) /\ TablesOK(Q, S, D, U \cup {new}, L)
<1>. USE DEF MadeCopy
<1>1. /\ P \in [Places -> Leaves] /\ P[z] \in Leaves
      /\ z[2] \in ClonedPages /\ old # NoFrame /\ old \in Frames /\ R[old] \in Nat /\ R[old] # 0
      /\ new # NoFrame
  <2>1. P \in [Places -> Leaves] /\ P[z] \in Leaves /\ z[2] \in ClonedPages /\ old # NoFrame
    BY DEF TableTypes, TablesOK, LeafOK
  <2>2. old \in Frames /\ R[old] \in Nat /\ R[old] # 0
    BY <2>1, UsersHold DEF TablesOK
  <2>. QED  BY <2>1, <2>2, Layout
<1>2. /\ \A x \in Places : Q[x] = IF x = z THEN [frame |-> new, w |-> TRUE, cow |-> FALSE] ELSE P[x]
      /\ Q \in [Places -> Leaves]
  BY <1>1 DEF Leaves
<1>6. \A x \in Places : P[x].frame # new
  BY FreeUnused
<1>11. old # new
  BY <1>6
<1>3. /\ \A f \in Frames : S[f] = IF f = new THEN 1 ELSE IF f = old THEN R[old] - 1 ELSE R[f]
      /\ S \in [Frames -> Nat]
  BY <1>1 DEF TableTypes
<1>4. D \in [Frames -> Values] /\ \A f \in Frames : f # new => D[f] = C[f]
  BY <1>1 DEF TableTypes
<1>5. TableTypes(Q, S, D)
  BY <1>2, <1>3, <1>4 DEF TableTypes
<1>7. ASSUME NEW x \in Places PROVE LeafOK(Q, L, x)
  <2>1. LeafOK(P, L, x)
    BY DEF TablesOK
  <2>2. CASE x = z
    <3>1. LeafOK(P, L, z)
      BY DEF TablesOK
    <3>. QED  BY <1>1, <1>2, <2>2, <3>1 DEF LeafOK
  <2>3. CASE x # z
    BY <1>2, <2>1, <2>3 DEF LeafOK
  <2>. QED  BY <2>2, <2>3
<1>8. Sharing(Q)
  BY <1>2, <1>6 DEF TablesOK, Sharing
<1>9. CountsOK(Q, S)
  <2>. SUFFICES ASSUME NEW f \in Frames
                PROVE  /\ Cardinality(UsersOf(Q, f)) <= S[f]
                       /\ (\E x \in UsersOf(Q, f) : x[2] \in OwnPages) =>
                              Cardinality(UsersOf(Q, f)) = S[f]
    BY DEF CountsOK
  <2>0. /\ Cardinality(UsersOf(P, f)) <= R[f]
        /\ (\E x \in UsersOf(P, f) : x[2] \in OwnPages) => Cardinality(UsersOf(P, f)) = R[f]
        /\ R[f] \in Nat /\ Cardinality(UsersOf(P, f)) \in Nat
    BY UsersFinite DEF TablesOK, CountsOK, TableTypes
  <2>1. CASE f = new
    <3>1. UsersOf(Q, f) = {z}
      BY <1>2, <1>6, <2>1 DEF UsersOf
    <3>2. Cardinality(UsersOf(Q, f)) = 1
      BY <3>1, FS_Singleton
    <3>. QED  BY <1>3, <2>1, <3>2
  <2>2. CASE f = old
    <3>1. z \in UsersOf(P, f)
      BY <1>1, <2>2 DEF UsersOf
    <3>2. UsersOf(Q, f) = UsersOf(P, f) \ {z}
      BY <1>1, <1>2, <1>11, <2>2 DEF UsersOf
    <3>3. Cardinality(UsersOf(Q, f)) = Cardinality(UsersOf(P, f)) - 1
      <4>1. IsFiniteSet(UsersOf(P, f))
        BY UsersFinite
      <4>2. Cardinality(UsersOf(P, f) \ {z}) = Cardinality(UsersOf(P, f)) - 1
        BY <3>1, <4>1, FS_RemoveElement
      <4>. QED  BY <3>2, <4>2
    <3>4. (\E x \in UsersOf(Q, f) : x[2] \in OwnPages) =>
              \E x \in UsersOf(P, f) : x[2] \in OwnPages
      BY <3>2
    <3>5. S[f] = R[f] - 1
      BY <1>3, <1>11, <2>2
    <3>6. /\ Cardinality(UsersOf(P, f)) <= R[f]
          /\ R[f] \in Nat /\ Cardinality(UsersOf(P, f)) \in Nat
      BY <2>0
    <3>7. Cardinality(UsersOf(Q, f)) <= S[f]
      BY <3>3, <3>5, <3>6
    <3>8. Cardinality(UsersOf(P, f)) = R[f] => Cardinality(UsersOf(Q, f)) = S[f]
      BY <3>3, <3>5
    <3>. QED  BY <2>0, <3>4, <3>7, <3>8
  <2>3. CASE f # new /\ f # old
    <3>1. UsersOf(Q, f) = UsersOf(P, f)
      BY <1>2, <2>3 DEF UsersOf
    <3>. QED  BY <1>3, <2>0, <2>3, <3>1
  <2>. QED  BY <2>1, <2>2, <2>3
<1>10. \A f \in Frames : f \notin U \cup {new} => UsersOf(Q, f) = {} /\ D[f] = 0
  <2>1. \A f \in Frames : f \notin U => UsersOf(P, f) = {} /\ C[f] = 0
    BY DEF TablesOK
  <2>2. \A f \in Frames : f # new => UsersOf(Q, f) \subseteq UsersOf(P, f)
    BY <1>2 DEF UsersOf
  <2>. QED  BY <1>4, <2>1, <2>2
<1>. QED  BY <1>5, <1>7, <1>8, <1>9, <1>10 DEF TablesOK

\* A write reaches a frame in use.
LEMMA StoreTables ==
    ASSUME NEW P, NEW R, NEW C, NEW U, NEW L, TableTypes(P, R, C), TablesOK(P, R, C, U, L),
           NEW z \in Places, z[2] \in OwnPages, P[z].w, NEW v \in Values,
           NEW D, D = [C EXCEPT ![P[z].frame] = v]
    PROVE  TableTypes(P, R, D) /\ TablesOK(P, R, D, U, L)
<1>1. P[z].frame # NoFrame
  BY DEF TablesOK, LeafOK
<1>2. P[z].frame \in Frames
  BY <1>1, UsersHold DEF TablesOK
<1>3. P[z].frame \in U
  BY <1>2, FreeUnused
<1>4. D \in [Frames -> Values] /\ \A f \in Frames : f # P[z].frame => D[f] = C[f]
  BY <1>2 DEF TableTypes
<1>5. \A f \in Frames : f \notin U => UsersOf(P, f) = {} /\ D[f] = 0
  BY <1>3, <1>4 DEF TablesOK
<1>. QED  BY <1>4, <1>5 DEF TablesOK, TableTypes

\* What a fork copies: O says from which place each page comes, never one of c.
Sources(O, c) ==
    \A u \in ClonedPages : O[u] \in Places /\ O[u][1] # c /\ O[u][2] = u

\* The leaves after a fork: the child c gets those of the places O, and both
\* lose write access.
Forked(P, Q, O, c) ==
    Q = [x \in Places |->
            IF x[1] = c /\ x[2] \in ClonedPages THEN Lowered(P[O[x[2]]])
            ELSE IF x[2] \in ClonedPages /\ x = O[x[2]] THEN Lowered(P[x]) ELSE P[x]]

\* A reference more to a frame for each copied page that has it; t is taken
\* for the tables of the copy.
MoreRefs(P, R, U, O, t, S) ==
    /\ t \in Frames /\ t \notin U
    /\ S = [f \in Frames |->
              IF f = t THEN 1 ELSE R[f] + Cardinality({u \in ClonedPages : P[O[u]].frame = f})]

\* A lowered leaf has its frame, and is not writable if there is one.
LEMMA LoweredIs ==
    ASSUME NEW l \in Leaves
    PROVE  /\ Lowered(l) \in Leaves /\ Lowered(l).frame = l.frame
           /\ l.frame = NoFrame => Lowered(l) = l
           /\ l.frame # NoFrame => ~Lowered(l).w /\ Lowered(l).cow
BY DEF Lowered, Leaves

\* Fork keeps what the tables keep.
LEMMA ForkTables ==
    ASSUME NEW P, NEW R, NEW C, NEW U, NEW L, TableTypes(P, R, C), TablesOK(P, R, C, U, L),
           NEW c \in Procs, c \notin L, NEW O, Sources(O, c),
           NEW Q, Forked(P, Q, O, c),
           NEW S, NEW t, MoreRefs(P, R, U, O, t, S)
    PROVE  TableTypes(Q, S, C) /\ TablesOK(Q, S, C, U \cup {t}, L \cup {c})
<1>. DEFINE src(x) == IF x[1] = c /\ x[2] \in ClonedPages THEN O[x[2]] ELSE x
            low(x) == x[2] \in ClonedPages /\ (x[1] = c \/ x = O[x[2]])
            Mine(f) == {v \in ClonedPages : P[O[v]].frame = f}
<1>1. ASSUME NEW x \in Places
      PROVE  /\ src(x) \in Places /\ src(x)[2] = x[2] /\ P[src(x)] \in Leaves /\ P[x] \in Leaves
  BY DEF TableTypes, Sources
<1>2. /\ \A v \in ClonedPages : O[v] \in Places /\ O[v][1] # c /\ O[v][2] = v
      /\ \A v \in ClonedPages : <<c, v>> \in Places
      /\ \A x \in Places : x[1] = c /\ x[2] \in ClonedPages => P[x].frame = NoFrame
  <2>1. \A v \in ClonedPages : v \in Pages
    BY Parts, Layout DEF ClonedPages
  <2>2. \A v \in ClonedPages : <<c, v>> \in Places
    BY <2>1, PlacesArePairs
  <2>. QED  BY <2>2, Layout DEF TablesOK, LeafOK, Sources
<1>3. ASSUME NEW x \in Places
      PROVE  /\ Q[x] = IF low(x) THEN Lowered(P[src(x)]) ELSE P[x]
             /\ Q[x] \in Leaves
             /\ Q[x].frame = P[src(x)].frame
             /\ Q[x].frame # NoFrame /\ low(x) => ~Q[x].w
             /\ Q[x].frame = NoFrame => Q[x] = P[src(x)]
             /\ ~low(x) => Q[x] = P[x] /\ src(x) = x
  <2>1. Q[x] = IF low(x) THEN Lowered(P[src(x)]) ELSE P[x]
    BY DEF Forked
  <2>2. ~low(x) => src(x) = x
    OBVIOUS
  <2>. HIDE DEF src, low
  <2>. QED  BY <1>1, <2>1, <2>2, LoweredIs
<1>4. \A f : IsFiniteSet(Mine(f)) /\ Cardinality(Mine(f)) \in Nat
  BY FiniteLeaves, FS_Subset, FS_CardinalityType
<1>5. TableTypes(Q, S, C)
  <2>1. Q \in [Places -> Leaves]
    BY <1>3 DEF Forked
  <2>2. ASSUME NEW f \in Frames PROVE S[f] \in Nat
    <3>1. R[f] \in Nat /\ Cardinality(Mine(f)) \in Nat
          /\ S[f] = IF f = t THEN 1 ELSE R[f] + Cardinality(Mine(f))
      BY <1>4 DEF TableTypes, MoreRefs
    <3>. HIDE DEF Mine
    <3>. QED  BY <3>1
  <2>3. S = [f \in Frames |-> S[f]]
    BY DEF MoreRefs
  <2>. QED  BY <2>1, <2>2, <2>3 DEF TableTypes
<1>6. ASSUME NEW f \in Frames, NEW v \in ClonedPages, P[O[v]].frame = f
      PROVE  /\ Cardinality(Mine(f)) = 1
             /\ \A u \in ClonedPages : P[O[u]].frame = f => u = v
  <2>1. ASSUME NEW u \in ClonedPages, P[O[u]].frame = f PROVE u = v
    <3>1. O[u] \in Places /\ O[v] \in Places /\ f # NoFrame /\ O[u][2] = u /\ O[v][2] = v
      BY <1>2, Layout
    <3>2. O[u] # O[v] => O[u][2] = O[v][2]
      BY <1>6, <2>1, <3>1 DEF TablesOK, Sharing
    <3>. QED  BY <3>1, <3>2
  <2>2. Mine(f) = {v}
    BY <1>6, <2>1
  <2>. QED  BY <2>1, <2>2, FS_Singleton
<1>7. ASSUME NEW f \in Frames, \A v \in ClonedPages : P[O[v]].frame # f
      PROVE  Cardinality(Mine(f)) = 0
  <2>1. Mine(f) = {}
    BY <1>7
  <2>. QED  BY <2>1, FS_EmptySet
<1>8. /\ \A f \in Frames : f # t => S[f] = R[f] + Cardinality(Mine(f)) /\ R[f] \in Nat
      /\ S[t] = 1 /\ t \in Frames /\ t \notin U
  BY DEF TableTypes, MoreRefs
<1>9. ASSUME NEW x \in Places PROVE LeafOK(Q, L \cup {c}, x)
  <2>1. LeafOK(P, L, x) /\ LeafOK(P, L, src(x))
    BY <1>1 DEF TablesOK
  <2>2. Q[x].cow => x[2] \in ClonedPages /\ Q[x].frame # NoFrame
    <3>1. CASE low(x)
      <4>1. Q[x].cow => Q[x].frame # NoFrame
        BY <1>3, <2>1 DEF LeafOK
      <4>. QED  BY <3>1, <4>1
    <3>2. CASE ~low(x)
      BY <1>3, <2>1, <3>2 DEF LeafOK
    <3>. QED  BY <3>1, <3>2
  <2>3. Q[x].w /\ x[2] \in OwnPages => Q[x].frame # NoFrame
    BY <1>1, <1>3, <2>1 DEF LeafOK
  <2>4. x[2] \in ClonedPages /\ x[1] # 0 /\ x[1] \notin L \cup {c} => Q[x].frame = NoFrame
    BY <1>3, <2>1 DEF LeafOK
  <2>. QED  BY <2>2, <2>3, <2>4 DEF LeafOK
<1>10. Sharing(Q)
  <2>. SUFFICES ASSUME NEW x \in Places, NEW y \in Places, x # y,
                       Q[x].frame # NoFrame, Q[x].frame = Q[y].frame
                PROVE  x[2] = y[2] /\ x[2] \in ClonedPages /\ ~Q[x].w
    BY DEF Sharing
  <2>1. CASE src(x) = src(y)
    <3>1. x[2] = y[2]
      BY <1>1, <2>1
    <3>2. x = <<x[1], x[2]>> /\ y = <<y[1], y[2]>>
      BY PlacesArePairs
    <3>3. low(x)
      <4>1. CASE x[1] = c /\ x[2] \in ClonedPages
        BY <4>1
      <4>2. CASE ~(x[1] = c /\ x[2] \in ClonedPages)
        <5>1. src(x) = x
          BY <4>2
        <5>2. y[1] = c /\ y[2] \in ClonedPages
          BY <2>1, <5>1
        <5>. QED  BY <2>1, <3>1, <5>1, <5>2
      <4>. QED  BY <4>1, <4>2
    <3>. QED  BY <1>3, <3>1, <3>3
  <2>2. CASE src(x) # src(y)
    <3>1. src(x)[2] = src(y)[2] /\ src(x)[2] \in ClonedPages /\ ~P[src(x)].w
      BY <1>1, <1>3, <2>2 DEF TablesOK, Sharing
    <3>2. ~Q[x].w
      BY <1>3, <3>1
    <3>. QED  BY <1>1, <3>1, <3>2
  <2>. QED  BY <2>1, <2>2
<1>11. CountsOK(Q, S)
  <2>. SUFFICES ASSUME NEW f \in Frames
                PROVE  /\ Cardinality(UsersOf(Q, f)) <= S[f]
                       /\ (\E x \in UsersOf(Q, f) : x[2] \in OwnPages) =>
                              Cardinality(UsersOf(Q, f)) = S[f]
    BY DEF CountsOK
  <2>0. /\ Cardinality(UsersOf(P, f)) <= R[f]
        /\ (\E x \in UsersOf(P, f) : x[2] \in OwnPages) => Cardinality(UsersOf(P, f)) = R[f]
        /\ R[f] \in Nat /\ Cardinality(UsersOf(P, f)) \in Nat
    BY UsersFinite DEF TablesOK, CountsOK, TableTypes
  <2>5. (\E x \in UsersOf(Q, f) : x[2] \in OwnPages) => \E x \in UsersOf(P, f) : x[2] \in OwnPages
    <3>. SUFFICES ASSUME NEW x \in UsersOf(Q, f), x[2] \in OwnPages
                  PROVE  \E y \in UsersOf(P, f) : y[2] \in OwnPages
      OBVIOUS
    <3>1. x \in Places /\ Q[x].frame = f
      BY DEF UsersOf
    <3>2. src(x) \in UsersOf(P, f) /\ src(x)[2] \in OwnPages
      BY <1>1, <1>3, <3>1 DEF UsersOf
    <3>. QED  BY <3>2
  <2>1. CASE \E v \in ClonedPages : P[O[v]].frame = f
    <3>1. PICK v \in ClonedPages : P[O[v]].frame = f
      BY <2>1
    <3>2. O[v] \in UsersOf(P, f)
      BY <1>2, <3>1 DEF UsersOf
    <3>9. f # t
      BY <1>8, <3>2, FreeUnused
    <3>4. <<c, v>> \notin UsersOf(P, f) /\ <<c, v>> \in Places
      <4>1. <<c, v>> \in Places /\ <<c, v>>[1] = c /\ <<c, v>>[2] = v
        BY <1>2
      <4>. QED  BY <1>2, <4>1, Layout DEF UsersOf
    <3>5. ASSUME NEW x \in Places PROVE x \in UsersOf(Q, f) <=> x \in UsersOf(P, f) \/ x = <<c, v>>
      <4>1. CASE x[1] = c /\ x[2] \in ClonedPages
        <5>1. Q[x].frame = P[O[x[2]]].frame /\ (x = <<c, v>> <=> x[2] = v)
          <6>1. Q[x].frame = P[O[x[2]]].frame
            BY <1>3, <4>1
          <6>2. x = <<x[1], x[2]>>
            BY PlacesArePairs
          <6>3. x = <<c, v>> <=> x[2] = v
            BY <4>1, <6>2
          <6>. QED  BY <6>1, <6>3
        <5>2. x \notin UsersOf(P, f)
          BY <1>2, <4>1, Layout DEF UsersOf
        <5>3. P[O[x[2]]].frame = f <=> x[2] = v
          BY <1>6, <3>1, <4>1
        <5>. QED  BY <5>1, <5>2, <5>3 DEF UsersOf
      <4>2. CASE ~(x[1] = c /\ x[2] \in ClonedPages)
        <5>1. Q[x].frame = P[x].frame
          BY <1>3, <4>2
        <5>2. x # <<c, v>>
          BY <4>2
        <5>. QED  BY <5>1, <5>2 DEF UsersOf
      <4>. QED  BY <4>1, <4>2
    <3>6. UsersOf(Q, f) = UsersOf(P, f) \cup {<<c, v>>}
      BY <3>4, <3>5, UsersFinite
    <3>7. Cardinality(UsersOf(Q, f)) = Cardinality(UsersOf(P, f)) + 1
      BY <3>4, <3>6, UsersFinite, FS_AddElement
    <3>8. S[f] = R[f] + 1
      <4>1. S[f] = R[f] + Cardinality(Mine(f)) /\ Cardinality(Mine(f)) = 1
        BY <1>6, <1>8, <3>1, <3>9
      <4>. HIDE DEF Mine
      <4>. QED  BY <4>1
    <3>. QED  BY <2>0, <2>5, <3>7, <3>8
  <2>2. CASE ~ \E v \in ClonedPages : P[O[v]].frame = f
    <3>1. UsersOf(Q, f) = UsersOf(P, f)
      <4>1. ASSUME NEW x \in Places PROVE Q[x].frame = f <=> P[x].frame = f
        <5>1. CASE x[1] = c /\ x[2] \in ClonedPages
          <6>1. Q[x].frame = P[O[x[2]]].frame /\ P[x].frame = NoFrame /\ f # NoFrame
            BY <1>2, <1>3, <5>1, Layout
          <6>. QED  BY <2>2, <5>1, <6>1
        <5>2. CASE ~(x[1] = c /\ x[2] \in ClonedPages)
          BY <1>3, <5>2
        <5>. QED  BY <5>1, <5>2
      <4>. QED  BY <4>1 DEF UsersOf
    <3>2. CASE f = t
      <4>1. UsersOf(Q, f) = {}
        BY <1>8, <3>1, <3>2, FreeUnused
      <4>2. Cardinality(UsersOf(Q, f)) = 0
        BY <4>1, FS_EmptySet
      <4>. QED  BY <1>8, <3>2, <4>1, <4>2
    <3>3. CASE f # t
      <4>1. S[f] = R[f] + Cardinality(Mine(f)) /\ Cardinality(Mine(f)) = 0
        BY <1>7, <1>8, <2>2, <3>3
      <4>. HIDE DEF Mine
      <4>2. S[f] = R[f]
        BY <2>0, <4>1
      <4>. QED  BY <2>0, <3>1, <4>2
    <3>. QED  BY <3>2, <3>3
  <2>. QED  BY <2>1, <2>2
<1>12. ASSUME NEW f \in Frames, f \notin U \cup {t} PROVE UsersOf(Q, f) = {} /\ C[f] = 0
  <2>0. f \notin U
    BY <1>12
  <2>3. C[f] = 0
    BY <2>0 DEF TablesOK
  <2>1. \A x \in Places : P[x].frame # f
    BY <2>0, FreeUnused
  <2>2. \A x \in Places : Q[x].frame # f
    BY <1>1, <1>3, <2>1
  <2>. QED  BY <2>2, <2>3 DEF UsersOf
<1>. QED  BY <1>5, <1>9, <1>10, <1>11, <1>12 DEF TablesOK

-----------------------------------------------------------------------------
(***************************************************************************)
(* The inductive invariant, and what vmap and Drop do to it                *)
(***************************************************************************)

\* The references that are not a fork's for the identity map.
Eff == [f \in Frames |-> refs[f] - clones[f]]

\* The own pages of p that are there.
Here(p) == {v \in OwnPages : pte[<<p, v>>].frame # NoFrame}

TablesTyped ==
    /\ TableTypes(pte, Eff, content)
    /\ used \subseteq Frames /\ refs \in [Frames -> Nat] /\ clones \in [Frames -> Nat]
    /\ stack_entry \in [Procs -> Procs \cup {0}] /\ cloned \subseteq Procs

Types ==
    /\ live \subseteq Procs
    /\ areas \in [Procs -> Lists] /\ \A p \in Procs : Len(areas[p]) <= MAX_VMAS
    /\ heap_start \in [Procs -> Nat] /\ heap_end \in [Procs -> Nat]
    /\ TablesTyped
    /\ machine \in {"runs", "panicked", "hung", "wild"}

\* What holds of a live process.
ProcOK(p) ==
    /\ heap_start[p] \in HeapBases
    /\ heap_start[p] <= heap_end[p] /\ heap_end[p] <= StackTop
    /\ AreasOK(areas[p], heap_start[p], heap_end[p])
    /\ Counted(areas[p], Here(p))

TableInv == TablesOK(pte, Eff, content, used, live)

Inv == Types /\ TableInv /\ \A p \in live : ProcOK(p)

\* The types of the tables.
LEMMA TypesOfTables ==
    Types => /\ TablesTyped /\ TableTypes(pte, Eff, content) /\ DOMAIN pte = Places
             /\ used \subseteq Frames /\ refs \in [Frames -> Nat] /\ clones \in [Frames -> Nat]
             /\ stack_entry \in [Procs -> Procs \cup {0}] /\ live \subseteq Procs
             /\ cloned \subseteq Procs /\ Eff \in [Frames -> Nat]
             /\ \A f \in Frames : Eff[f] = refs[f] - clones[f]
BY DEF Types, TablesTyped, TableTypes, Eff

\* Where the walk finds a page: an own page in a table of the process, another
\* that a fork copies there or in the kernel's.
LEMMA PlaceIs ==
    ASSUME stack_entry \in [Procs -> Procs \cup {0}], NEW p \in Procs, NEW v \in Pages
    PROVE  /\ Place(p, v) \in Places /\ Place(p, v)[2] = Home(v)
           /\ Home(v) \in ClonedPages => Place(p, v)[1] = 0 \/ Place(p, v)[1] = p
           /\ v \in OwnPages => Place(p, v) = <<p, v>>
           /\ Home(v) \in OwnPages => v \in OwnPages
<1>1. Home(v) \in Pages
  BY HomeIs
<1>2. Owner(p, v) \in Procs \cup {0}
  BY DEF Owner
<1>3. Place(p, v) = <<Owner(p, v), Home(v)>>
  BY DEF Place
<1>4. Place(p, v) \in Places /\ Place(p, v)[2] = Home(v) /\ Place(p, v)[1] = Owner(p, v)
  BY <1>1, <1>2, <1>3, PlacesArePairs
<1>5. v \in OwnPages => Owner(p, v) = p /\ Home(v) = v
  BY HomeIs DEF Owner
<1>6. Home(v) \in OwnPages => v \in OwnPages
  <2>1. \A u \in Pages : u \in KernelPages => u \notin OwnPages
    BY HomeIs
  <2>. QED  BY <1>1, <2>1, HomeIs
<1>7. Home(v) \in ClonedPages => v \notin StackPages
  BY HomeIs DEF ClonedPages
<1>8. v \notin StackPages => Owner(p, v) = 0 \/ Owner(p, v) = p
  BY DEF Owner
<1>. QED  BY <1>3, <1>4, <1>5, <1>6, <1>7, <1>8

\* And where a mapping puts it.
LEMMA ReachedIs ==
    ASSUME stack_entry \in [Procs -> Procs \cup {0}], NEW p \in Procs, NEW v \in Pages
    PROVE  /\ Reached(p, v) \in Places /\ Reached(p, v)[2] = Home(v)
           /\ Home(v) \in ClonedPages => Reached(p, v)[1] = 0 \/ Reached(p, v)[1] = p
           /\ v \in OwnPages => Reached(p, v) = <<p, v>>
           /\ Home(v) \in OwnPages => v \in OwnPages
<1>1. CASE v \in StackPages /\ stack_entry[p] = 0
  <2>1. Reached(p, v) = <<p, v>>
    BY <1>1 DEF Reached
  <2>2. Home(v) = v
    BY <1>1, HomeIs
  <2>. QED  BY <2>1, <2>2, PlacesArePairs
<1>2. CASE ~(v \in StackPages /\ stack_entry[p] = 0)
  <2>1. Reached(p, v) = Place(p, v)
    BY <1>2 DEF Reached
  <2>. QED  BY <2>1, PlaceIs
<1>. QED  BY <1>1, <1>2

\* A leaf of an own page.
LEMMA OwnPte ==
    ASSUME Types, NEW p \in Procs, NEW v \in OwnPages
    PROVE  <<p, v>> \in Places /\ Pte(p, v) = pte[<<p, v>>] /\ (Present(p, v) <=> v \in Here(p))
<1>1. v \in Pages
  BY OwnCloned
<1>2. Place(p, v) = <<p, v>> /\ Place(p, v) \in Places
  BY <1>1, PlaceIs, TypesOfTables
<1>. QED  BY <1>2 DEF Pte, Present, Here

\* vmap puts zeroed frames under its pages; no other own page changes.
LEMMA VmapDoes ==
    ASSUME Types, TableInv, NEW p \in Procs, NEW V \in SUBSET Pages,
           \A v \in V : v \in OwnPages => pte[<<p, v>>].frame = NoFrame,
           NEW M, live \subseteq M, p \in M,
           vmap(p, V)
    PROVE  /\ TablesTyped' /\ TablesOK(pte', Eff', content', used', M)
           /\ content' = content /\ machine' = machine
           /\ \A q \in Procs : \A v \in OwnPages :
                  q # p \/ v \notin V => pte'[<<q, v>>] = pte[<<q, v>>]
           /\ \A v \in V : v \in OwnPages => /\ pte'[<<p, v>>].frame # NoFrame
                                             /\ content[pte'[<<p, v>>].frame] = 0
<1>. DEFINE N == {Reached(p, v) : v \in V}
<1>1. PICK g \in [N -> FreeFrames] :
          /\ IsInjective(g)
          /\ pte' = [x \in DOMAIN pte |->
                 IF x \in DOMAIN g
                 THEN [frame |-> g[x], w |-> TRUE, cow |-> FALSE] ELSE pte[x]]
          /\ Take(g)
  BY DEF vmap
<1>2. /\ stack_entry' = [stack_entry EXCEPT ![p] = IF V \cap StackPages # {} /\ @ = 0 THEN p ELSE @]
      /\ cloned' = cloned /\ content' = content /\ machine' = machine
  BY DEF vmap
<1>3. /\ TableTypes(pte, Eff, content) /\ DOMAIN pte = Places
      /\ stack_entry \in [Procs -> Procs \cup {0}] /\ Eff \in [Frames -> Nat]
      /\ used \subseteq Frames /\ refs \in [Frames -> Nat] /\ clones \in [Frames -> Nat]
      /\ cloned \subseteq Procs /\ TablesOK(pte, Eff, content, used, live)
      /\ \A f \in Frames : Eff[f] = refs[f] - clones[f]
  BY TypesOfTables DEF TableInv
<1>4. stack_entry' \in [Procs -> Procs \cup {0}]
  BY <1>2, <1>3
<1>5. /\ N \subseteq Places
      /\ \A x \in N : /\ x[2] \in ClonedPages => x[1] = 0 \/ x[1] = p
                      /\ x[2] \in OwnPages => x = <<p, x[2]>> /\ x[2] \in V
  <2>1. ASSUME NEW v \in V
        PROVE  /\ Reached(p, v) \in Places
               /\ Reached(p, v)[2] \in ClonedPages => Reached(p, v)[1] = 0 \/ Reached(p, v)[1] = p
               /\ Reached(p, v)[2] \in OwnPages =>
                      Reached(p, v) = <<p, Reached(p, v)[2]>> /\ Reached(p, v)[2] \in V
    <3>1. /\ Reached(p, v) \in Places /\ Reached(p, v)[2] = Home(v)
          /\ Home(v) \in ClonedPages => Reached(p, v)[1] = 0 \/ Reached(p, v)[1] = p
          /\ v \in OwnPages => Reached(p, v) = <<p, v>>
          /\ Home(v) \in OwnPages => v \in OwnPages
      BY <1>3, ReachedIs
    <3>2. v \in OwnPages => Home(v) = v
      BY HomeIs
    <3>. QED  BY <3>1, <3>2
  <2>. QED  BY <2>1
<1>6. \A v \in V : v \in OwnPages => <<p, v>> \in N
  BY <1>3, ReachedIs
<1>. HIDE DEF N
<1>7. /\ g \in [N -> Frames] /\ DOMAIN g = N
      /\ \A x \in N : g[x] \notin used
      /\ \A x, y \in N : g[x] = g[y] => x = y
  <2>1. \A x, y \in N : g[x] = g[y] => x = y
    BY <1>1 DEF IsInjective
  <2>. QED  BY <1>1, <2>1 DEF FreeFrames
<1>8. \A f : f \in Range(g) <=> \E x \in N : g[x] = f
  BY <1>7 DEF Range
<1>9. /\ used' = used \cup {g[x] : x \in N}
      /\ refs' = [f \in Frames |-> IF f \in Range(g) THEN 1 ELSE refs[f]]
      /\ clones' = [f \in Frames |-> IF f \in Range(g) THEN 0 ELSE clones[f]]
  BY <1>1, <1>8 DEF Take
<1>10. Eff' = [f \in Frames |-> IF \E x \in N : g[x] = f THEN 1 ELSE Eff[f]]
  <2>1. ASSUME NEW f \in Frames
        PROVE  refs'[f] - clones'[f] = IF \E x \in N : g[x] = f THEN 1 ELSE Eff[f]
    <3>1. CASE f \in Range(g)
      <4>1. refs'[f] = 1 /\ clones'[f] = 0 /\ \E x \in N : g[x] = f
        BY <1>8, <1>9, <3>1
      <4>. QED  BY <4>1
    <3>2. CASE f \notin Range(g)
      <4>1. refs'[f] = refs[f] /\ clones'[f] = clones[f] /\ ~ \E x \in N : g[x] = f
        BY <1>8, <1>9, <3>2
      <4>. QED  BY <1>3, <4>1
    <3>. QED  BY <3>1, <3>2
  <2>2. Eff' = [f \in Frames |-> refs'[f] - clones'[f]]
    BY DEF Eff
  <2>. QED  BY <2>1, <2>2
<1>11. pte' = [x \in Places |-> IF x \in N THEN [frame |-> g[x], w |-> TRUE, cow |-> FALSE]
                                           ELSE pte[x]]
  BY <1>1, <1>3, <1>7
<1>12. TableTypes(pte', Eff', content) /\ TablesOK(pte', Eff', content, used', M)
  <2>1. Mappable(pte, used, live, N, g, M)
    BY <1>5, <1>7 DEF Mappable
  <2>2. Mapped(pte, Eff, used, N, g, pte', Eff', used')
    BY <1>9, <1>10, <1>11 DEF Mapped
  <2>. QED  BY <1>3, <2>1, <2>2, MapTables
<1>13. used' \subseteq Frames /\ refs' \in [Frames -> Nat] /\ clones' \in [Frames -> Nat]
  BY <1>3, <1>7, <1>9
<1>14. TablesTyped'
  BY <1>2, <1>3, <1>4, <1>12, <1>13 DEF TablesTyped
<1>15. ASSUME NEW q \in Procs, NEW v \in OwnPages, q # p \/ v \notin V
       PROVE  pte'[<<q, v>>] = pte[<<q, v>>]
  <2>1. <<q, v>> \in Places /\ <<q, v>>[1] = q /\ <<q, v>>[2] = v
    BY OwnCloned, PlacesArePairs
  <2>2. <<q, v>> \notin N
    BY <1>5, <1>15, <2>1
  <2>. QED  BY <1>11, <2>1, <2>2
<1>16. ASSUME NEW v \in V, v \in OwnPages
       PROVE  pte'[<<p, v>>].frame # NoFrame /\ content[pte'[<<p, v>>].frame] = 0
  <2>1. <<p, v>> \in N /\ <<p, v>> \in Places
    BY <1>5, <1>6, <1>16
  <2>2. pte'[<<p, v>>].frame = g[<<p, v>>] /\ g[<<p, v>>] \in Frames /\ g[<<p, v>>] \notin used
    BY <1>7, <1>11, <2>1
  <2>. QED  BY <1>3, <2>2, Layout DEF TablesOK
<1>. QED  BY <1>2, <1>12, <1>14, <1>15, <1>16

\* Drop takes the pages of V away, unless it hangs or goes wild.
LEMMA DropDoes ==
    ASSUME Types, TableInv, NEW p \in Procs, NEW V \in SUBSET Pages,
           \A u, v \in V : Home(u) = Home(v) => u = v,
           Drop(p, V)
    PROVE  \/ machine' \in {"hung", "wild"} /\ UNCHANGED <<spaces, tables>>
           \/ /\ TablesTyped' /\ TablesOK(pte', Eff', content', used', live)
              /\ UNCHANGED <<content, machine>>
              /\ \A q \in Procs : \A v \in OwnPages :
                     pte'[<<q, v>>] = IF q = p /\ v \in V THEN Absent ELSE pte[<<q, v>>]
<1>. DEFINE N == {Place(p, v) : v \in V}
            E == {pte[x].frame : x \in N}
            F == E \ {NoFrame}
<1>1. CASE machine' \in {"hung", "wild"} /\ UNCHANGED <<spaces, tables>>
  BY <1>1
<1>2. CASE ~(machine' \in {"hung", "wild"} /\ UNCHANGED <<spaces, tables>>)
  <2>1. Unmap(p, N) /\ machine' = machine
    BY <1>2 DEF Drop, Lost
  <2>2. /\ refs' = [f \in Frames |-> IF f \in E THEN refs[f] - 1 ELSE refs[f]]
        /\ pte' = [x \in DOMAIN pte |-> IF x \in N THEN Absent ELSE pte[x]]
        /\ stack_entry' = [stack_entry EXCEPT ![p] = IF Emptied(p, N) THEN 0 ELSE @]
        /\ UNCHANGED <<cloned, used, clones, content>>
    BY <2>1 DEF Unmap, frame_dec
  <2>3. /\ TableTypes(pte, Eff, content) /\ DOMAIN pte = Places
        /\ stack_entry \in [Procs -> Procs \cup {0}] /\ Eff \in [Frames -> Nat]
        /\ used \subseteq Frames /\ refs \in [Frames -> Nat] /\ clones \in [Frames -> Nat]
        /\ cloned \subseteq Procs /\ TablesOK(pte, Eff, content, used, live)
        /\ \A f \in Frames : Eff[f] = refs[f] - clones[f]
    BY TypesOfTables DEF TableInv
  <2>4. stack_entry' \in [Procs -> Procs \cup {0}]
    <3>. DEFINE e == IF Emptied(p, N) THEN 0 ELSE stack_entry[p]
    <3>1. e \in Procs \cup {0} /\ stack_entry' = [stack_entry EXCEPT ![p] = e]
      BY <2>2, <2>3
    <3>. HIDE DEF e
    <3>. QED  BY <2>3, <3>1
  <2>5. \A v \in V : Place(p, v) \in Places /\ Place(p, v)[2] = Home(v)
    BY <2>3, PlaceIs
  <2>6. /\ N \subseteq Places
        /\ \A x, y \in N : x[2] = y[2] => x = y
    BY <2>5
  <2>7. \A q \in Procs : \A v \in OwnPages :
            <<q, v>> \in Places /\ (<<q, v>> \in N <=> q = p /\ v \in V)
    <3>. SUFFICES ASSUME NEW q \in Procs, NEW v \in OwnPages
                  PROVE  <<q, v>> \in Places /\ (<<q, v>> \in N <=> q = p /\ v \in V)
      OBVIOUS
    <3>1. v \in Pages /\ <<q, v>> \in Places
      BY OwnCloned, PlacesArePairs
    <3>2. v \in V => <<p, v>> \in N
      BY <2>3, PlaceIs
    <3>3. ASSUME NEW u \in V, <<q, v>> = Place(p, u) PROVE q = p /\ v \in V
      <4>1. Home(u) = v
        BY <2>5, <3>3
      <4>2. u \in OwnPages /\ Place(p, u) = <<p, u>>
        BY <2>3, <4>1, PlaceIs
      <4>. QED  BY <3>3, <4>2
    <3>. QED  BY <3>1, <3>2, <3>3
  <2>8. \A f : f \in F <=> f # NoFrame /\ \E x \in N : pte[x].frame = f
    OBVIOUS
  <2>9. \A f \in Frames : f \in E <=> f \in F
    BY Layout
  <2>. HIDE DEF N, E, F
  <2>10. Droppable(pte, N, F)
    BY <2>6, <2>8 DEF Droppable
  <2>11. \A f \in Frames : f \in F => Eff[f] # 0
    <3>. SUFFICES ASSUME NEW f \in Frames, f \in F PROVE Eff[f] # 0
      OBVIOUS
    <3>1. PICK x \in N : pte[x].frame = f /\ f # NoFrame
      BY <2>8
    <3>. QED  BY <2>3, <2>6, <3>1, UsersHold DEF TablesOK
  <2>12. refs' \in [Frames -> Nat]
    <3>1. ASSUME NEW f \in Frames PROVE (IF f \in E THEN refs[f] - 1 ELSE refs[f]) \in Nat
      BY <2>3, <2>9, <2>11
    <3>. QED  BY <2>2, <3>1
  <2>13. Eff' = [f \in Frames |-> IF f \in F THEN Eff[f] - 1 ELSE Eff[f]]
    <3>1. ASSUME NEW f \in Frames
          PROVE  refs'[f] - clones'[f] = IF f \in F THEN Eff[f] - 1 ELSE Eff[f]
      BY <2>2, <2>3, <2>9
    <3>2. Eff' = [f \in Frames |-> refs'[f] - clones'[f]]
      BY DEF Eff
    <3>. QED  BY <3>1, <3>2
  <2>14. Dropped(pte, Eff, N, F, pte', Eff')
    BY <2>2, <2>3, <2>13 DEF Dropped
  <2>15. TableTypes(pte', Eff', content) /\ TablesOK(pte', Eff', content, used, live)
    BY <2>3, <2>10, <2>14, DropTables
  <2>16. TablesTyped'
    BY <2>2, <2>3, <2>4, <2>12, <2>15 DEF TablesTyped
  <2>17. \A q \in Procs : \A v \in OwnPages :
             pte'[<<q, v>>] = IF q = p /\ v \in V THEN Absent ELSE pte[<<q, v>>]
    BY <2>2, <2>3, <2>7
  <2>. QED  BY <2>1, <2>2, <2>15, <2>16, <2>17
<1>. QED  BY <1>1, <1>2

\* The types of the next state.
LEMMA TypesNext ==
    ASSUME live' \subseteq Procs, areas' \in [Procs -> Lists],
           \A p \in Procs : Len(areas'[p]) <= MAX_VMAS,
           heap_start' \in [Procs -> Nat], heap_end' \in [Procs -> Nat],
           TablesTyped', machine' \in {"runs", "panicked", "hung", "wild"}
    PROVE  Types'
BY DEF Types

\* The types of this state.
LEMMA TypesNow ==
    ASSUME Types
    PROVE  /\ live \subseteq Procs /\ areas \in [Procs -> Lists]
           /\ \A p \in Procs : Len(areas[p]) <= MAX_VMAS /\ areas[p] \in Lists
           /\ heap_start \in [Procs -> Nat] /\ heap_end \in [Procs -> Nat]
           /\ stack_entry \in [Procs -> Procs \cup {0}]
           /\ TablesTyped /\ TableTypes(pte, Eff, content)
           /\ machine \in {"runs", "panicked", "hung", "wild"}
BY DEF Types, TablesTyped

\* A step that leaves a process its areas and its own pages leaves what holds of it.
LEMMA ProcNext ==
    ASSUME NEW q, ProcOK(q),
           areas'[q] = areas[q], heap_start'[q] = heap_start[q], heap_end'[q] = heap_end[q],
           Here(q)' = Here(q)
    PROVE  ProcOK(q)'
BY DEF ProcOK

\* What vmap does, said with Here.
LEMMA VmapStep ==
    ASSUME Types, TableInv, NEW p \in Procs, NEW V \in SUBSET Pages,
           \A v \in V : v \in OwnPages => v \notin Here(p),
           live \subseteq live', p \in live', vmap(p, V)
    PROVE  /\ TablesTyped' /\ TableInv'
           /\ content' = content /\ machine' = machine
           /\ \A q \in Procs : q # p => Here(q)' = Here(q)
           /\ Here(p)' = Here(p) \cup (V \cap OwnPages)
<1>1. \A v \in V : v \in OwnPages => pte[<<p, v>>].frame = NoFrame
  BY DEF Here
<1>2. /\ TablesTyped' /\ TablesOK(pte', Eff', content', used', live')
      /\ content' = content /\ machine' = machine
      /\ \A q \in Procs : \A v \in OwnPages :
             q # p \/ v \notin V => pte'[<<q, v>>] = pte[<<q, v>>]
      /\ \A v \in V : v \in OwnPages => pte'[<<p, v>>].frame # NoFrame
  BY <1>1, VmapDoes
<1>3. \A q \in Procs : q # p => Here(q)' = Here(q)
  BY <1>2 DEF Here
<1>4. Here(p)' = Here(p) \cup (V \cap OwnPages)
  BY <1>2 DEF Here
<1>. QED  BY <1>2, <1>3, <1>4 DEF TableInv

\* What Drop does, said with Here.
LEMMA DropStep ==
    ASSUME Types, TableInv, NEW p \in Procs, NEW V \in SUBSET Pages,
           \A u, v \in V : Home(u) = Home(v) => u = v,
           Drop(p, V), machine = "runs"
    PROVE  \/ machine' \in {"hung", "wild"} /\ UNCHANGED <<spaces, tables>>
           \/ /\ machine' = "runs" /\ content' = content
              /\ TablesTyped' /\ TablesOK(pte', Eff', content', used', live)
              /\ \A q \in Procs : q # p => Here(q)' = Here(q)
              /\ Here(p)' = Here(p) \ V
<1>1. CASE machine' \in {"hung", "wild"} /\ UNCHANGED <<spaces, tables>>
  BY <1>1
<1>2. CASE ~(machine' \in {"hung", "wild"} /\ UNCHANGED <<spaces, tables>>)
  <2>1. /\ TablesTyped' /\ TablesOK(pte', Eff', content', used', live)
        /\ UNCHANGED <<content, machine>>
        /\ \A q \in Procs : \A v \in OwnPages :
               pte'[<<q, v>>] = IF q = p /\ v \in V THEN Absent ELSE pte[<<q, v>>]
    BY <1>2, DropDoes
  <2>2. \A q \in Procs : q # p => Here(q)' = Here(q)
    BY <2>1 DEF Here
  <2>3. Here(p)' = Here(p) \ V
    BY <2>1, LeafFields DEF Here
  <2>. QED  BY <2>1, <2>2, <2>3
<1>. QED  BY <1>1, <1>2

\* The pages of a range below the end of the stack, under entry 256 or behind it
\* are under one part of the tables.
LEMMA OnePart ==
    ASSUME NEW V \in SUBSET Pages,
           (\A v \in V : v < StackTop) \/ (\A v \in V : StackTop <= v /\ v < OwnBase) \/ V \subseteq OwnPages
    PROVE  \A u, v \in V : Home(u) = Home(v) => u = v
<1>1. CASE \A v \in V : v < StackTop
  BY <1>1, Parts, Layout DEF Home
<1>2. CASE \A v \in V : StackTop <= v /\ v < OwnBase
  BY <1>2, Parts, Layout DEF Home
<1>3. CASE V \subseteq OwnPages
  BY <1>3, Parts, Layout DEF Home
<1>. QED  BY <1>1, <1>2, <1>3

\* A step that changes no table and no list keeps the invariant.
LEMMA StillKeeps ==
    ASSUME Inv, UNCHANGED <<spaces, tables>>, machine' \in {"runs", "panicked", "hung", "wild"}
    PROVE  Inv'
<1>0. /\ pte' = pte /\ content' = content /\ used' = used /\ refs' = refs /\ clones' = clones
      /\ stack_entry' = stack_entry /\ cloned' = cloned
      /\ live' = live /\ areas' = areas /\ heap_start' = heap_start /\ heap_end' = heap_end
  BY DEF spaces, tables, counters
<1>1. Eff' = Eff
  BY <1>0 DEF Eff
<1>2. TablesTyped'
  BY <1>0, <1>1 DEF Inv, Types, TablesTyped
<1>3. Types'
  BY <1>0, <1>2, TypesNow, TypesNext DEF Inv
<1>4. TableInv'
  BY <1>0, <1>1 DEF Inv, TableInv
<1>5. \A q \in live : Here(q)' = Here(q)
  BY <1>0 DEF Here
<1>6. \A q \in live : ProcOK(q)'
  BY <1>0, <1>5, ProcNext DEF Inv
<1>. QED  BY <1>0, <1>3, <1>4, <1>6 DEF Inv

-----------------------------------------------------------------------------
(***************************************************************************)
(* Every step keeps the invariant                                          *)
(***************************************************************************)

\* No process, no frame in use.
LEMMA InitOK == Init => Inv
<1>. SUFFICES ASSUME Init PROVE Inv
  OBVIOUS
<1>0. /\ refs = [f \in Frames |-> 1] /\ clones = [f \in Frames |-> 0] /\ used = {}
      /\ content = [f \in Frames |-> 0]
  BY DEF Init
<1>1. Eff = [f \in Frames |-> 1]
  <2>1. \A f \in Frames : refs[f] - clones[f] = 1
    BY <1>0
  <2>. QED  BY <2>1 DEF Eff
<1>2. /\ DOMAIN pte = Places /\ pte \in [Places -> Leaves]
      /\ \A x \in Places : pte[x] = Absent \/ (pte[x] = Identity /\ x[2] < IdentityEnd)
  <2>1. /\ pte = [x \in Places |-> IF x[1] = 0 /\ x[2] < IdentityEnd THEN Identity ELSE Absent]
        /\ Absent \in Leaves /\ Identity \in Leaves
    BY DEF Init, Places, Leaves, Absent, Identity
  <2>. QED  BY <2>1
<1>3. /\ \A x \in Places : pte[x].frame = NoFrame /\ ~pte[x].cow
      /\ \A x \in Places : pte[x].w => x[2] \notin OwnPages
  <2>1. \A x \in Places : pte[x].frame = NoFrame /\ ~pte[x].cow
    BY <1>2 DEF Absent, Identity
  <2>2. \A x \in Places : pte[x].w => x[2] < IdentityEnd
    BY <1>2 DEF Absent, Identity
  <2>3. \A v \in OwnPages : ~(v < IdentityEnd)
    BY Parts, Layout
  <2>. QED  BY <2>1, <2>2, <2>3
<1>4. Types
  <2>1. areas \in [Procs -> Lists] /\ \A p \in Procs : Len(areas[p]) <= MAX_VMAS
    BY Layout DEF Init, Lists
  <2>2. heap_start \in [Procs -> Nat] /\ heap_end \in [Procs -> Nat]
    BY DEF Init
  <2>3. TableTypes(pte, Eff, content)
    BY <1>0, <1>1, <1>2, Layout DEF TableTypes
  <2>4. TablesTyped
    BY <1>0, <2>3 DEF TablesTyped, Init
  <2>. QED  BY <2>1, <2>2, <2>4 DEF Types, Init
<1>5. TableInv
  <2>2. \A x \in Places : LeafOK(pte, live, x)
    BY <1>3 DEF LeafOK
  <2>3. Sharing(pte)
    BY <1>3 DEF Sharing
  <2>6. \A f \in Frames : UsersOf(pte, f) = {}
    BY <1>3, Layout DEF UsersOf
  <2>4. CountsOK(pte, Eff)
    BY <1>1, <2>6, FS_EmptySet DEF CountsOK
  <2>5. \A f \in Frames : UsersOf(pte, f) = {} /\ content[f] = 0
    BY <1>0, <2>6
  <2>. QED  BY <2>2, <2>3, <2>4, <2>5 DEF TableInv, TablesOK
<1>. QED  BY <1>4, <1>5 DEF Inv, Init

\* An area for a mapping is apart from the others when nothing overlaps it.
LEMMA MapAtKeeps ==
    ASSUME Inv, machine = "runs", NEW p \in live, NEW base \in Nat, NEW size \in Nat, size # 0,
           NEW demand \in BOOLEAN, InOnePart(base, size), MapAt(p, base, size, demand)
    PROVE  Inv'
<1>. DEFINE a == Area(base, size, "Anonymous", demand, IF demand THEN 0 ELSE size)
            V == base .. base + size - 1
<1>0. /\ p \in Procs /\ Types /\ TableInv /\ ProcOK(p)
      /\ live \subseteq Procs /\ areas \in [Procs -> Lists]
      /\ \A q \in Procs : Len(areas[q]) <= MAX_VMAS /\ areas[q] \in Lists
      /\ heap_start \in [Procs -> Nat] /\ heap_end \in [Procs -> Nat]
      /\ TablesTyped
  BY TypesNow DEF Inv
<1>1. /\ Len(areas[p]) < MAX_VMAS /\ areas' = [areas EXCEPT ![p] = add_vma(areas[p], a)]
      /\ ~has_overlap(p, base, size)
      /\ live' = live /\ heap_start' = heap_start /\ heap_end' = heap_end
  BY DEF MapAt
<1>2. /\ a \in AreaRecs /\ a.base = base /\ a.size = size /\ a.typ = "Anonymous"
      /\ a.mapped = (IF demand THEN 0 ELSE size) /\ End(a) = base + size
  BY DEF Area, AreaRecs, End
<1>. HIDE DEF a
<1>3. InPart(a)
  BY <1>2, Layout DEF InPart, InOnePart
<1>4. /\ areas' \in [Procs -> Lists] /\ \A q \in Procs : Len(areas'[q]) <= MAX_VMAS
      /\ Added(areas[p], areas'[p], a) /\ areas'[p] \in Lists
      /\ \A q \in Procs : q # p => areas'[q] = areas[q]
  <2>. DEFINE new == add_vma(areas[p], a)
  <2>1. new \in Lists /\ Len(new) = Len(areas[p]) + 1 /\ Added(areas[p], new, a)
    BY <1>0, <1>1, <1>2, AddIs
  <2>2. Len(new) <= MAX_VMAS
    BY <1>0, <1>1, <2>1, ListIs, Layout
  <2>. HIDE DEF new
  <2>3. areas' = [areas EXCEPT ![p] = new]
    BY <1>1 DEF new
  <2>. QED  BY <1>0, <2>1, <2>2, <2>3
<1>5. \A m \in DOMAIN areas[p] : areas[p][m] \in AreaRecs /\ Apart(areas[p][m], a)
  BY <1>0, <1>1, <1>2, NoOverlapApart, ListIs DEF has_overlap
<1>6. AreasOK(areas'[p], heap_start'[p], heap_end'[p])
  <2>1. AreasOK(areas[p], heap_start[p], heap_end[p])
    BY <1>0 DEF ProcOK
  <2>. QED  BY <1>0, <1>1, <1>2, <1>3, <1>4, <1>5, <2>1, AddKeeps
<1>7. /\ V \in SUBSET Pages /\ \A v : v \in V <=> v \in Int /\ Covers(a, v)
      /\ OwnBase <= base => V \subseteq OwnPages
  <2>1. base + size <= OwnEnd
    BY Layout DEF InOnePart
  <2>. QED  BY <1>2, <2>1, Parts, Layout DEF Covers
<1>8. \A v \in Here(p) : v \in OwnPages /\ \E m \in DOMAIN areas[p] : Covers(areas[p][m], v)
  BY <1>0 DEF ProcOK, Counted, Here
<1>9. \A v \in OwnPages : v \in Pages
  BY Parts, Layout
<1>10. \A v \in Here(p) : ~Covers(a, v)
  BY <1>5, <1>8, <1>9 DEF Apart
<1>11. Here(p) \in SUBSET OwnPages /\ Counted(areas[p], Here(p))
  BY <1>0 DEF Here, ProcOK
<1>12. CASE demand
  <2>1. UNCHANGED <<tables, machine>>
    BY <1>12 DEF MapAt
  <2>2. Here(p)' = Here(p)
    BY <2>1 DEF Here, tables
  <2>3. Counted(areas'[p], Here(p))
    <3>1. {v \in Here(p) : Covers(a, v)} = {}
      BY <1>10
    <3>2. a.mapped = Cardinality({v \in Here(p) : Covers(a, v)})
      BY <1>2, <1>12, <3>1, FS_EmptySet
    <3>3. Joins(areas[p], a, Here(p), Here(p))
      BY <1>5, <1>11, <3>2 DEF Joins
    <3>. QED  BY <1>0, <1>2, <1>4, <1>11, <3>3, AddCounts
  <2>4. \A q \in Procs : Here(q)' = Here(q)
    BY <2>1 DEF Here, tables
  <2>5. ProcOK(p)'
    BY <1>0, <1>1, <1>6, <2>2, <2>3 DEF ProcOK
  <2>6. \A q \in live : q # p => ProcOK(q)'
    BY <1>0, <1>1, <1>4, <2>4, ProcNext DEF Inv
  <2>9. /\ pte' = pte /\ content' = content /\ used' = used /\ refs' = refs /\ clones' = clones
        /\ stack_entry' = stack_entry /\ cloned' = cloned
    BY <2>1 DEF tables, counters
  <2>10. Eff' = Eff
    BY <2>9 DEF Eff
  <2>7. TableInv' /\ TablesTyped'
    BY <1>0, <1>1, <2>9, <2>10 DEF TableInv, TablesTyped
  <2>8. Types'
    BY <1>0, <1>1, <1>4, <2>1, <2>7, TypesNext
  <2>. QED  BY <1>1, <2>5, <2>6, <2>7, <2>8 DEF Inv
<1>13. CASE ~demand
  <2>1. vmap(p, V)
    BY <1>13 DEF MapAt
  <2>2. \A v \in V : v \in OwnPages => v \notin Here(p)
    BY <1>7, <1>10
  <2>. HIDE DEF V
  <2>3. /\ TablesTyped' /\ TableInv' /\ machine' = machine
        /\ \A q \in Procs : q # p => Here(q)' = Here(q)
        /\ Here(p)' = Here(p) \cup (V \cap OwnPages)
    BY <1>0, <1>1, <1>7, <2>1, <2>2, VmapStep
  <2>. DEFINE X == Here(p) \cup (V \cap OwnPages)
  <2>4. Counted(areas'[p], X)
    <3>1. X \in SUBSET OwnPages
      BY <1>11
    <3>2. \A m \in DOMAIN areas[p] : \A v \in OwnPages :
              Covers(areas[p][m], v) => (v \in X <=> v \in Here(p))
      BY <1>5, <1>7, <1>9 DEF Apart
    <3>3. \A v \in X : v \in Here(p) \/ Covers(a, v)
      BY <1>7
    <3>4. OwnBase <= a.base => a.mapped = Cardinality({v \in X : Covers(a, v)})
      <4>. SUFFICES ASSUME OwnBase <= base PROVE size = Cardinality({v \in X : Covers(a, v)})
        BY <1>2, <1>13
      <4>1. {v \in X : Covers(a, v)} = base .. base + size - 1
        <5>1. {v \in X : Covers(a, v)} = V
          BY <1>7, <1>10
        <5>. QED  BY <5>1 DEF V
      <4>2. ASSUME NEW hi \in Int, hi = base + size - 1
            PROVE  Cardinality(base .. hi) = size
        <5>1. Cardinality(base .. hi) = IF base > hi THEN 0 ELSE hi - base + 1
          BY FS_Interval
        <5>. QED  BY <4>2, <5>1
      <4>3. Cardinality(base .. base + size - 1) = size
        BY <4>2
      <4>. QED  BY <4>1, <4>3
    <3>. HIDE DEF X
    <3>5. Joins(areas[p], a, Here(p), X)
      BY <1>5, <1>11, <3>1, <3>2, <3>3, <3>4 DEF Joins
    <3>. QED  BY <1>0, <1>2, <1>4, <1>11, <3>5, AddCounts
  <2>5. ProcOK(p)'
    BY <1>0, <1>1, <1>6, <2>3, <2>4 DEF ProcOK
  <2>6. \A q \in live : q # p => ProcOK(q)'
    BY <1>0, <1>1, <1>4, <2>3, ProcNext DEF Inv
  <2>7. Types'
    BY <1>0, <1>1, <1>4, <2>3, TypesNext
  <2>. QED  BY <1>1, <2>3, <2>5, <2>6, <2>7 DEF Inv
<1>. QED  BY <1>12, <1>13

\* What holds of this state, taken apart.
LEMMA Now ==
    ASSUME Inv
    PROVE  /\ Types /\ TableInv /\ live \subseteq Procs /\ areas \in [Procs -> Lists]
           /\ \A q \in Procs : Len(areas[q]) <= MAX_VMAS /\ areas[q] \in Lists
           /\ heap_start \in [Procs -> Nat] /\ heap_end \in [Procs -> Nat]
           /\ stack_entry \in [Procs -> Procs \cup {0}] /\ TablesTyped
           /\ \A q \in live : ProcOK(q) /\ heap_start[q] \in HeapBases
                              /\ heap_start[q] \in Nat /\ heap_end[q] \in Nat
                              /\ heap_start[q] <= heap_end[q] /\ heap_end[q] <= StackTop
           /\ \A q : Here(q) \subseteq OwnPages
BY TypesNow DEF Inv, ProcOK, Here

\* A step about one process keeps the invariant when that process keeps it.
LEMMA InvNext ==
    ASSUME Inv, NEW p \in Procs, live' \subseteq live \cup {p},
           areas' \in [Procs -> Lists], Len(areas'[p]) <= MAX_VMAS,
           heap_start' \in [Procs -> Nat], heap_end' \in [Procs -> Nat],
           \A q \in Procs : q # p => /\ areas'[q] = areas[q]
                                     /\ heap_start'[q] = heap_start[q]
                                     /\ heap_end'[q] = heap_end[q]
                                     /\ Here(q)' = Here(q),
           TablesTyped', TableInv',
           machine' \in {"runs", "panicked", "hung", "wild"},
           p \in live' => ProcOK(p)'
    PROVE  Inv'
<1>1. \A q \in Procs : Len(areas'[q]) <= MAX_VMAS
  BY Now
<1>2. live' \subseteq Procs
  BY Now
<1>3. Types'
  BY <1>1, <1>2, TypesNext
<1>4. ASSUME NEW q \in live' PROVE ProcOK(q)'
  <2>1. CASE q = p
    BY <2>1
  <2>2. CASE q # p
    <3>1. q \in live /\ q \in Procs /\ ProcOK(q)
      BY <2>2, Now
    <3>. QED  BY <2>2, <3>1, ProcNext
  <2>. QED  BY <2>1, <2>2
<1>. QED  BY <1>3, <1>4 DEF Inv

\* munmap: the pages go with their area, or the machine hangs or goes wild.
LEMMA MunmapKeeps ==
    ASSUME Inv, machine = "runs", NEW p \in live, NEW i \in DOMAIN areas[p],
           munmap(p, areas[p][i])
    PROVE  Inv'
<1>. DEFINE s == areas[p]
            a == s[i]
            V == a.base .. End(a) - 1
            new == remove_vma(s, a.base)
<1>1. /\ p \in Procs /\ Types /\ TableInv /\ s \in Lists /\ ProcOK(p)
      /\ AreasOK(s, heap_start[p], heap_end[p]) /\ Counted(s, Here(p))
      /\ areas \in [Procs -> Lists] /\ Len(s) <= MAX_VMAS
  BY Now DEF ProcOK
<1>2. a \in AreaRecs /\ a.base \in Nat /\ End(a) \in Nat /\ InPart(a) /\ Len(s) \in Nat
  BY <1>1, ListIs, Fields DEF AreasOK
<1>3. V \in SUBSET Pages
  BY <1>2, Parts, Layout DEF InPart
<1>4. Drop(p, V) /\ (machine' = "runs" =>
                         /\ areas' = [areas EXCEPT ![p] = new]
                         /\ UNCHANGED <<live, heap_start, heap_end>>)
  BY DEF munmap
<1>5. \A v : v \in V <=> v \in Int /\ Covers(a, v)
  BY <1>2 DEF Covers
<1>8. \A u, v \in V : Home(u) = Home(v) => u = v
  <2>1. \/ \A v \in V : v < StackTop
        \/ \A v \in V : StackTop <= v /\ v < OwnBase
        \/ V \subseteq OwnPages
    BY <1>2, Parts, Layout DEF InPart
  <2>. QED  BY <1>3, <2>1, OnePart
<1>. HIDE DEF V
<1>6. CASE machine' \in {"hung", "wild"} /\ UNCHANGED <<spaces, tables>>
  BY <1>6, StillKeeps
<1>7. CASE ~(machine' \in {"hung", "wild"} /\ UNCHANGED <<spaces, tables>>)
  <2>1. /\ machine' = "runs"
        /\ TablesTyped' /\ TablesOK(pte', Eff', content', used', live)
        /\ \A q \in Procs : q # p => Here(q)' = Here(q)
        /\ Here(p)' = Here(p) \ V
    BY <1>1, <1>3, <1>4, <1>7, <1>8, DropStep
  <2>2. /\ areas' = [areas EXCEPT ![p] = new]
        /\ live' = live /\ heap_start' = heap_start /\ heap_end' = heap_end
    BY <1>4, <2>1
  <2>3. PICK k \in DOMAIN s : s[k].base = a.base /\ Removed(s, new, k)
    BY <1>1, RemoveIs
  <2>4. new \in Lists /\ Len(new) = Len(s) - 1
    BY <1>1, RemoveIs
  <2>5. Len(new) <= MAX_VMAS
    BY <1>1, <1>2, <2>4, Layout
  <2>. HIDE DEF new
  <2>6. s[k] \in AreaRecs /\ InPart(s[k])
    BY <1>1, ListIs DEF AreasOK
  <2>7. OwnBase <= a.base => k = i
    <3>. SUFFICES ASSUME OwnBase <= a.base, k # i PROVE FALSE
      OBVIOUS
    <3>1. a.base \in Pages /\ Covers(a, a.base) /\ Covers(s[k], a.base)
      <4>1. \A b \in AreaRecs : InPart(b) /\ OwnBase <= b.base => b.base \in Pages /\ Covers(b, b.base)
        BY Fields, Parts, Layout DEF InPart, Covers
      <4>. QED  BY <1>2, <2>3, <2>6, <4>1
    <3>2. Apart(s[i], s[k])
      BY <1>1, <1>2, Layout DEF AreasOK
    <3>. QED  BY <3>1, <3>2 DEF Apart
  <2>8. AreasOK(new, heap_start[p], heap_end[p])
    BY <1>1, <2>3, <2>4, RemoveKeeps
  <2>9. Departs(s, k, Here(p), Here(p) \ V)
    <3>1. Here(p) \subseteq OwnPages /\ Here(p) \ V \subseteq OwnPages
      BY DEF Here
    <3>2. ASSUME NEW m \in DOMAIN s, m # k, NEW v \in OwnPages, Covers(s[m], v) PROVE v \notin V
      <4>1. OwnBase <= s[m].base /\ StackTop <= s[m].base /\ v \in Pages
        <5>1. s[m] \in AreaRecs /\ InPart(s[m]) /\ s[m].base \in Nat
          BY <1>1, ListIs, Fields DEF AreasOK
        <5>2. OwnBase <= s[m].base
          BY <3>2, <5>1, OwnAreas
        <5>. QED  BY <5>1, <5>2, Parts, Layout
      <4>2. CASE m = i
        BY <2>7, <3>2, <4>1, <4>2
      <4>3. CASE m # i
        <5>1. Apart(s[m], s[i])
          BY <1>1, <4>1, <4>3 DEF AreasOK
        <5>. QED  BY <1>5, <3>2, <4>1, <5>1 DEF Apart
      <4>. QED  BY <4>2, <4>3
    <3>3. ASSUME NEW v \in Here(p), v \notin V PROVE ~Covers(s[k], v)
      <4>. SUFFICES ASSUME Covers(s[k], v) PROVE FALSE
        OBVIOUS
      <4>1. v \in OwnPages /\ v \in Int
        BY <3>1, Parts
      <4>2. OwnBase <= s[k].base
        BY <2>6, <4>1, OwnAreas
      <4>3. k = i
        BY <2>3, <2>7, <4>2
      <4>. QED  BY <1>5, <3>3, <4>1, <4>3
    <3>. QED  BY <3>1, <3>2, <3>3 DEF Departs
  <2>10. Counted(new, Here(p) \ V)
    BY <1>1, <2>3, <2>4, <2>9, RemoveCounts
  <2>11. /\ areas'[p] = new /\ areas' \in [Procs -> Lists]
         /\ \A q \in Procs : q # p => areas'[q] = areas[q]
    BY <1>1, <2>2, <2>4
  <2>13. ProcOK(p)'
    BY <1>1, <2>1, <2>2, <2>8, <2>10, <2>11 DEF ProcOK
  <2>14. TableInv'
    BY <2>1, <2>2 DEF TableInv
  <2>15. /\ heap_start' \in [Procs -> Nat] /\ heap_end' \in [Procs -> Nat]
    BY <2>2, Now
  <2>. QED  BY <1>1, <2>1, <2>2, <2>5, <2>11, <2>13, <2>14, <2>15, InvNext
<1>. QED  BY <1>6, <1>7

\* sbrk with n pages more: they are covered by no area.
LEMMA GrownIs ==
    ASSUME Inv, NEW p \in live, NEW n \in Nat, n # 0
    PROVE  /\ Grown(p, n) \in Nat /\ heap_end[p] <= Grown(p, n)
           /\ \A m \in DOMAIN areas[p] : \A v \in heap_end[p] .. Grown(p, n) - 1 :
                  ~Covers(areas[p][m], v)
<1>. DEFINE old == heap_end[p]
            S == {old + n} \cup {v \in old .. old + n - 1 : has_overlap(p, v, 1)}
<1>1. old \in Nat /\ areas[p] \in Lists
  BY Now
<1>2. S \in SUBSET Nat /\ S # {} /\ \A v \in S : old <= v /\ v <= old + n
  BY <1>1
<1>3. Grown(p, n) = Min(S)
  BY DEF Grown
<1>4. old + n \in S
  OBVIOUS
<1>5. \A v \in old .. old + n - 1 : has_overlap(p, v, 1) => v \in S
  OBVIOUS
<1>. HIDE DEF S
<1>6. Min(S) \in S /\ \A y \in S : Min(S) <= y
  BY <1>2, MinIsLeast
<1>7. ASSUME NEW m \in DOMAIN areas[p], NEW v \in old .. Min(S) - 1, Covers(areas[p][m], v)
      PROVE  FALSE
  <2>1. v \in old .. old + n - 1 /\ v < Min(S) /\ v \in Nat /\ Min(S) \in Nat
    <3>1. ASSUME NEW c \in Nat, c <= old + n, v \in old .. c - 1
          PROVE  v \in old .. old + n - 1 /\ v < c /\ v \in Nat
      BY <1>1, <3>1
    <3>2. Min(S) \in Nat /\ Min(S) <= old + n
      BY <1>2, <1>6
    <3>. QED  BY <3>1, <3>2
  <2>2. areas[p][m] \in AreaRecs
    BY <1>1, ListIs
  <2>3. overlaps(areas[p][m], v, 1)
    BY <1>7, <2>1, <2>2, Fields DEF overlaps, Covers
  <2>4. v \in S
    BY <1>5, <2>1, <2>3 DEF has_overlap
  <2>. QED  BY <1>6, <2>1, <2>4
<1>. QED  BY <1>2, <1>3, <1>6, <1>7

\* The area at the start of the heap has no own page: with another size the
\* areas count as before.
LEMMA ResizedCounts ==
    ASSUME NEW s \in Lists, NEW start \in Nat, NEW end \in Nat, start <= end, start < StackTop,
           NEW W \in SUBSET OwnPages, Counted(s, W),
           \A j \in DOMAIN s : InPart(s[j]), Len(s) <= MAX_VMAS
    PROVE  /\ Resized(s, start, end) \in Lists /\ Len(Resized(s, start, end)) <= MAX_VMAS
           /\ Counted(Resized(s, start, end), W)
<1>. DEFINE new == Resized(s, start, end)
            i == find_vma(s, start)
<1>1. /\ new \in Lists /\ DOMAIN new = DOMAIN s
      /\ \A j \in DOMAIN s : j # i => new[j] = s[j]
      /\ i # 0 => /\ i \in DOMAIN s /\ Covers(s[i], start) /\ new[i].base = s[i].base
  BY ResizedIs
<1>. HIDE DEF i, new
<1>2. i # 0 => s[i].base < OwnBase
  BY <1>1, ListIs, Fields, Layout DEF Covers
<1>3. \A j \in DOMAIN s : OwnBase <= s[j].base \/ OwnBase <= new[j].base => new[j] = s[j]
  <2>. SUFFICES ASSUME NEW j \in DOMAIN s, OwnBase <= s[j].base \/ OwnBase <= new[j].base
                PROVE  new[j] = s[j]
    OBVIOUS
  <2>1. CASE j # i
    BY <1>1, <2>1
  <2>2. CASE j = i
    <3>1. i # 0
      BY <2>2, ListIs
    <3>2. s[i].base \in Nat
      BY <2>2, ListIs, Fields
    <3>. QED  BY <1>1, <1>2, <2>2, <3>1, <3>2, Layout
  <2>. QED  BY <2>1, <2>2
<1>4. Counted(new, W)
  BY <1>1, <1>3, ResizeCounts
<1>5. Len(new) = Len(s)
  BY <1>1, ListIs
<1>. QED  BY <1>1, <1>4, <1>5 DEF new

\* sbrk with n pages less: the area at the start of the heap shrinks.
LEMMA SbrkDownKeeps ==
    ASSUME Inv, machine = "runs", NEW p \in live, NEW n \in Nat, n # 0, sbrk(p, -n)
    PROVE  Inv'
<1>. DEFINE s == areas[p]
            start == heap_start[p]
            old == heap_end[p]
            end == old + (-n)
            V == end .. old - 1
            new == Resized(s, start, end)
<1>1. /\ p \in Procs /\ Types /\ TableInv /\ s \in Lists /\ ProcOK(p)
      /\ AreasOK(s, start, old) /\ Counted(s, Here(p))
      /\ areas \in [Procs -> Lists] /\ Len(s) <= MAX_VMAS
      /\ start \in Nat /\ old \in Nat /\ old <= StackTop
      /\ Here(p) \subseteq OwnPages /\ start \in HeapBases
  BY Now DEF ProcOK
<1>2. /\ start <= end /\ Drop(p, V)
      /\ (machine' = "runs" =>
             /\ heap_end' = [heap_end EXCEPT ![p] = end]
             /\ areas' = [areas EXCEPT ![p] = new]
             /\ UNCHANGED <<live, heap_start>>)
  <2>1. ~(-n > 0)
    OBVIOUS
  <2>. QED  BY <2>1 DEF sbrk
<1>3. end \in Nat /\ start < old /\ end <= StackTop /\ start < StackTop /\ end <= old
  <2>1. start < StackTop
    <3>1. start < LegacyTop
      BY <1>1, Layout
    <3>. QED  BY <1>1, <3>1, Layout
  <2>2. end \in Int /\ end = old - n
    BY <1>1
  <2>. HIDE DEF end
  <2>. QED  BY <1>1, <1>2, <2>1, <2>2, Layout
<1>4. /\ V \in SUBSET Pages /\ \A v \in V : v \notin OwnPages
      /\ \A u, v \in V : Home(u) = Home(v) => u = v
  <2>1. V \in SUBSET Pages /\ \A v \in V : v \notin OwnPages /\ v < StackTop
    BY <1>1, <1>3, Parts, Layout
  <2>. QED  BY <2>1, OnePart
<1>5. \A v \in old .. end - 1 : FALSE
  BY <1>1, <1>3
<1>. HIDE DEF V, end
<1>6. CASE machine' \in {"hung", "wild"} /\ UNCHANGED <<spaces, tables>>
  BY <1>6, StillKeeps
<1>7. CASE ~(machine' \in {"hung", "wild"} /\ UNCHANGED <<spaces, tables>>)
  <2>1. /\ machine' = "runs" /\ TablesTyped' /\ TablesOK(pte', Eff', content', used', live)
        /\ \A q \in Procs : q # p => Here(q)' = Here(q)
        /\ Here(p)' = Here(p) \ V
    BY <1>1, <1>2, <1>4, <1>7, DropStep
  <2>2. Here(p)' = Here(p)
    BY <1>1, <1>4, <2>1
  <2>3. /\ heap_end' = [heap_end EXCEPT ![p] = end] /\ areas' = [areas EXCEPT ![p] = new]
        /\ live' = live /\ heap_start' = heap_start
    BY <1>2, <2>1
  <2>4. AreasOK(new, start, end)
    BY <1>1, <1>2, <1>3, <1>5, HeapResized
  <2>5. new \in Lists /\ Len(new) <= MAX_VMAS /\ Counted(new, Here(p))
    <3>1. \A j \in DOMAIN s : InPart(s[j])
      BY <1>1 DEF AreasOK
    <3>. QED  BY <1>1, <1>2, <1>3, <3>1, ResizedCounts
  <2>. HIDE DEF new
  <2>6. /\ areas' \in [Procs -> Lists] /\ areas'[p] = new
        /\ heap_end' \in [Procs -> Nat] /\ heap_end'[p] = end
        /\ heap_start' \in [Procs -> Nat] /\ heap_start'[p] = start
        /\ \A q \in Procs : q # p => /\ areas'[q] = areas[q] /\ heap_start'[q] = heap_start[q]
                                     /\ heap_end'[q] = heap_end[q]
    BY <1>1, <1>3, <2>3, <2>5, Now
  <2>7. ProcOK(p)'
    BY <1>1, <1>2, <1>3, <2>2, <2>4, <2>5, <2>6 DEF ProcOK
  <2>8. TableInv'
    BY <2>1, <2>3 DEF TableInv
  <2>. QED  BY <1>1, <2>1, <2>3, <2>5, <2>6, <2>7, <2>8, InvNext
<1>. QED  BY <1>6, <1>7

\* sbrk with n pages more: the heap gets its area, keeps without one, or the
\* area at its start takes the new size.
LEMMA SbrkUpKeeps ==
    ASSUME Inv, machine = "runs", NEW p \in live, NEW n \in Nat, n # 0, sbrk(p, n)
    PROVE  Inv'
<1>. DEFINE s == areas[p]
            start == heap_start[p]
            old == heap_end[p]
            end == Grown(p, n)
            V == old .. end - 1
            a == Area(old, end - old, "Heap", FALSE, end - old)
            new == IF old = start THEN add_vma(s, a) ELSE Resized(s, start, end)
<1>1. /\ p \in Procs /\ Types /\ TableInv /\ s \in Lists /\ ProcOK(p)
      /\ AreasOK(s, start, old) /\ Counted(s, Here(p))
      /\ areas \in [Procs -> Lists] /\ Len(s) <= MAX_VMAS /\ Len(s) \in Nat
      /\ start \in Nat /\ old \in Nat /\ start <= old /\ old <= StackTop
      /\ start < StackTop /\ Here(p) \subseteq OwnPages
  <2>1. /\ p \in Procs /\ Types /\ TableInv /\ s \in Lists /\ ProcOK(p)
        /\ areas \in [Procs -> Lists] /\ Len(s) <= MAX_VMAS
        /\ start \in Nat /\ old \in Nat /\ start <= old /\ old <= StackTop
        /\ start \in HeapBases /\ Here(p) \subseteq OwnPages
    BY Now
  <2>2. start < StackTop
    BY <2>1, Layout
  <2>. QED  BY <2>1, <2>2, ListIs DEF ProcOK
<1>2. /\ end \in Nat /\ old <= end
      /\ \A m \in DOMAIN s : \A v \in V : ~Covers(s[m], v)
  BY GrownIs
<1>3. /\ end <= StackTop /\ vmap(p, V)
      /\ (machine' = "runs" =>
             /\ heap_end' = [heap_end EXCEPT ![p] = end]
             /\ areas' = [areas EXCEPT ![p] = new]
             /\ UNCHANGED <<live, heap_start>>)
  <2>1. n > 0
    OBVIOUS
  <2>. QED  BY <2>1 DEF sbrk
<1>4. V \in SUBSET Pages /\ \A v \in V : v \notin OwnPages
  BY <1>1, <1>2, <1>3, Parts, Layout
<1>. HIDE DEF end
<1>5. live' = live /\ heap_start' = heap_start /\ heap_end' = [heap_end EXCEPT ![p] = end]
      /\ areas' = [areas EXCEPT ![p] = new]
  <2>1. machine' = machine
    BY <1>3 DEF vmap
  <2>. QED  BY <1>3, <2>1
<1>6. /\ TablesTyped' /\ TableInv' /\ machine' = machine
      /\ \A q \in Procs : q # p => Here(q)' = Here(q)
      /\ Here(p)' = Here(p)
  <2>1. live \subseteq live' /\ p \in live' /\ vmap(p, V) /\ Types /\ TableInv /\ p \in Procs
    BY <1>1, <1>3, <1>5
  <2>2. V \in SUBSET Pages /\ \A v \in V : v \notin OwnPages
    BY <1>4
  <2>. HIDE DEF V
  <2>3. /\ TablesTyped' /\ TableInv' /\ machine' = machine
        /\ \A q \in Procs : q # p => Here(q)' = Here(q)
        /\ Here(p)' = Here(p) \cup (V \cap OwnPages)
    BY <2>1, <2>2, VmapStep
  <2>4. Here(p)' = Here(p)
    BY <2>2, <2>3
  <2>. QED  BY <2>3, <2>4
<1>7. /\ a \in AreaRecs /\ a.base = old /\ End(a) = end
      /\ \A v : Covers(a, v) <=> old <= v /\ v < end
  BY <1>1, <1>2 DEF Area, AreaRecs, End, Covers
<1>. HIDE DEF a
<1>8. \A m \in DOMAIN s : Apart(s[m], a)
  BY <1>1, <1>2, <1>7, Parts DEF Apart
<1>9. new \in Lists /\ Len(new) <= MAX_VMAS /\ AreasOK(new, start, end) /\ Counted(new, Here(p))
  <2>1. CASE old = start /\ Len(s) >= MAX_VMAS
    <3>1. new = s
      BY <2>1 DEF add_vma
    <3>. HIDE DEF new
    <3>2. AreasOK(s, start, end)
      BY <1>1, <1>2, <2>1, HeapNotAdded
    <3>. QED  BY <1>1, <3>1, <3>2
  <2>2. CASE old = start /\ Len(s) < MAX_VMAS
    <3>1. new \in Lists /\ Len(new) = Len(s) + 1 /\ Added(s, new, a)
      BY <1>1, <1>7, <2>2, AddIs
    <3>2. Len(new) <= MAX_VMAS
      BY <1>1, <2>2, <3>1, Layout
    <3>. HIDE DEF new
    <3>3. AreasOK(new, start, end)
      BY <1>1, <1>2, <1>3, <2>2, <3>1, HeapAdded DEF a
    <3>4. Joins(s, a, Here(p), Here(p))
      BY <1>1, <1>7, <1>8, <2>2, Layout DEF Joins
    <3>5. s \in Lists /\ a \in AreaRecs /\ Counted(s, Here(p))
      BY <1>1, <1>7
    <3>6. Counted(new, Here(p))
      BY <3>1, <3>4, <3>5, AddCounts
    <3>. QED  BY <3>1, <3>2, <3>3, <3>6
  <2>3. CASE old # start
    <3>1. new = Resized(s, start, end)
      BY <2>3
    <3>. HIDE DEF new
    <3>2. AreasOK(new, start, end)
      <4>1. start < old /\ start <= end
        BY <1>1, <1>2, <2>3
      <4>. QED  BY <1>1, <1>2, <1>3, <3>1, <4>1, HeapResized
    <3>3. \A j \in DOMAIN s : InPart(s[j])
      BY <1>1 DEF AreasOK
    <3>4. start <= end
      BY <1>1, <1>2
    <3>5. new \in Lists /\ Len(new) <= MAX_VMAS /\ Counted(new, Here(p))
      BY <1>1, <1>2, <3>1, <3>3, <3>4, ResizedCounts
    <3>. QED  BY <3>2, <3>5
  <2>. QED  BY <1>1, <2>1, <2>2, <2>3, Layout
<1>. HIDE DEF new
<1>10. /\ areas' \in [Procs -> Lists] /\ areas'[p] = new
       /\ heap_end' \in [Procs -> Nat] /\ heap_end'[p] = end
       /\ heap_start' \in [Procs -> Nat] /\ heap_start'[p] = start
       /\ \A q \in Procs : q # p => /\ areas'[q] = areas[q] /\ heap_start'[q] = heap_start[q]
                                    /\ heap_end'[q] = heap_end[q]
  BY <1>1, <1>2, <1>5, <1>9, Now
<1>12. ProcOK(p)'
  <2>1. start \in HeapBases /\ start <= end
    BY <1>1, <1>2 DEF ProcOK
  <2>. QED  BY <1>3, <1>6, <1>9, <1>10, <2>1 DEF ProcOK
<1>. QED  BY <1>1, <1>5, <1>6, <1>9, <1>10, <1>12, InvNext

\* Frames that come under pages below the own ones, or go from there, change
\* nothing the invariant says of a process.
LEMMA LowerKeeps ==
    ASSUME Inv, machine = "runs", NEW p \in live, NEW V \in SUBSET Pages,
           \A v \in V : v \notin OwnPages /\ v < StackTop,
           vmap(p, V) \/ Drop(p, V), UNCHANGED spaces
    PROVE  Inv'
<1>1. /\ p \in Procs /\ Types /\ TableInv /\ live \subseteq Procs /\ live' = live
      /\ areas' = areas /\ heap_start' = heap_start /\ heap_end' = heap_end
  BY Now DEF spaces
<1>2. CASE machine' \in {"hung", "wild"} /\ UNCHANGED <<spaces, tables>>
  BY <1>2, StillKeeps
<1>3. CASE ~(machine' \in {"hung", "wild"} /\ UNCHANGED <<spaces, tables>>)
  <2>1. /\ TablesTyped' /\ TableInv' /\ machine' = "runs"
        /\ \A q \in Procs : Here(q)' = Here(q)
    <3>1. CASE vmap(p, V)
      <4>1. /\ TablesTyped' /\ TableInv' /\ machine' = machine
            /\ \A q \in Procs : q # p => Here(q)' = Here(q)
            /\ Here(p)' = Here(p) \cup (V \cap OwnPages)
        BY <1>1, <3>1, VmapStep
      <4>2. Here(p)' = Here(p)
        BY <4>1
      <4>. QED  BY <4>1, <4>2
    <3>2. CASE Drop(p, V)
      <4>0. \A u, v \in V : Home(u) = Home(v) => u = v
        BY OnePart
      <4>1. /\ machine' = "runs" /\ TablesTyped' /\ TablesOK(pte', Eff', content', used', live)
            /\ \A q \in Procs : q # p => Here(q)' = Here(q)
            /\ Here(p)' = Here(p) \ V
        BY <1>1, <1>3, <3>2, <4>0, DropStep
      <4>2. Here(p)' = Here(p)
        BY <4>1, Now
      <4>. QED  BY <1>1, <4>1, <4>2 DEF TableInv
    <3>. QED  BY <3>1, <3>2
  <2>3. ProcOK(p)'
    BY <1>1, <2>1, Now, ProcNext
  <2>5. /\ areas' \in [Procs -> Lists] /\ Len(areas'[p]) <= MAX_VMAS
        /\ heap_start' \in [Procs -> Nat] /\ heap_end' \in [Procs -> Nat]
        /\ \A q \in Procs : /\ areas'[q] = areas[q] /\ heap_start'[q] = heap_start[q]
                            /\ heap_end'[q] = heap_end[q]
    BY <1>1, Now
  <2>. QED  BY <1>1, <2>1, <2>3, <2>5, InvNext
<1>. QED  BY <1>2, <1>3

\* The page a search finds, or the hint, is a number.
LEMMA LegacyBaseIs ==
    ASSUME Inv, NEW p \in live, NEW n \in Nat, NEW hint \in Nat
    PROVE  LegacyBase(p, n, hint) \in Nat
<1>. DEFINE S == {v \in Min(HeapBases) .. StackTop :
                     \A u \in v .. v + n - 1 : u < StackTop => ~Present(p, u)}
<1>1. HeapBases # {} /\ HeapBases \in SUBSET Nat
  BY Now, Layout
<1>2. Min(HeapBases) \in HeapBases
  BY <1>1, MinIsLeast
<1>3. Min(HeapBases) \in Nat /\ Min(HeapBases) <= StackTop
  <2>1. \A h \in HeapBases : h \in Nat /\ h <= StackTop
    BY Layout
  <2>. QED  BY <1>2, <2>1
<1>4. StackTop \in S
  BY <1>3, Layout
<1>5. S \in SUBSET Nat
  BY <1>3, Layout
<1>6. LegacyBase(p, n, hint) = IF hint # 0 THEN hint ELSE Min(S)
  BY DEF LegacyBase
<1>. HIDE DEF S
<1>7. Min(S) \in S
  BY <1>4, <1>5, MinIsLeast
<1>. QED  BY <1>5, <1>6, <1>7

\* The old allocation calls stay below LEGACY_ALLOC_TOP.
LEMMA LegacyKeeps ==
    ASSUME Inv, machine = "runs", NEW p \in live, NEW n \in Nat, NEW hint \in Nat,
           legacy_mem_alloc(p, n, hint) \/ legacy_mem_free(p, hint, n)
    PROVE  Inv'
<1>1. CASE legacy_mem_alloc(p, n, hint)
  <2>. DEFINE base == LegacyBase(p, n, hint)
              V == {v \in base .. base + n - 1 : v < LegacyTop}
  <2>1. base \in Nat
    BY LegacyBaseIs
  <2>2. vmap(p, V) /\ UNCHANGED spaces
    BY <1>1 DEF legacy_mem_alloc
  <2>. HIDE DEF base
  <2>3. V \in SUBSET Pages /\ \A v \in V : v \notin OwnPages /\ v < StackTop
    BY <2>1, Parts, Layout
  <2>. QED  BY <2>2, <2>3, LowerKeeps
<1>2. CASE legacy_mem_free(p, hint, n)
  <2>. DEFINE V == hint .. hint + n - 1
  <2>1. Drop(p, V) /\ UNCHANGED spaces /\ hint + n <= LegacyTop
    BY <1>2 DEF legacy_mem_free
  <2>2. V \in SUBSET Pages /\ \A v \in V : v \notin OwnPages /\ v < StackTop
    BY <2>1, Parts, Layout
  <2>. QED  BY <2>1, <2>2, LowerKeeps
<1>. QED  BY <1>1, <1>2

\* One page more mapped in an area: the list stays one, and so do the areas.
LEMMA MappedIs ==
    ASSUME NEW s \in Lists, NEW i \in DOMAIN s, NEW start, NEW end, AreasOK(s, start, end)
    PROVE  LET t == [s EXCEPT ![i] = [s[i] EXCEPT !.mapped = @ + 1]] IN
           /\ t \in Lists /\ DOMAIN t = DOMAIN s /\ Len(t) = Len(s)
           /\ \A j \in DOMAIN s :
                  t[j] = IF j = i THEN [s[i] EXCEPT !.mapped = @ + 1] ELSE s[j]
           /\ AreasOK(t, start, end)
<1>. DEFINE b == [s[i] EXCEPT !.mapped = @ + 1]
            t == [s EXCEPT ![i] = b]
<1>1. s[i] \in AreaRecs
  BY ListIs
<1>2. /\ b \in AreaRecs /\ b.base = s[i].base /\ b.size = s[i].size /\ b.typ = s[i].typ
  BY <1>1 DEF AreaRecs
<1>. HIDE DEF b
<1>3. /\ t \in Lists /\ DOMAIN t = DOMAIN s /\ Len(t) = Len(s)
      /\ \A j \in DOMAIN s : t[j] = IF j = i THEN b ELSE s[j]
  BY <1>2, ExceptSeq DEF Lists
<1>. HIDE DEF t
<1>4. ASSUME NEW j \in DOMAIN s
      PROVE  /\ t[j].base = s[j].base /\ t[j].size = s[j].size /\ t[j].typ = s[j].typ
             /\ End(t[j]) = End(s[j])
             /\ InPart(t[j]) <=> InPart(s[j])
             /\ \A v : Covers(t[j], v) <=> Covers(s[j], v)
  <2>1. /\ t[j].base = s[j].base /\ t[j].size = s[j].size /\ t[j].typ = s[j].typ
    BY <1>2, <1>3
  <2>. QED  BY <2>1 DEF End, InPart, Covers
<1>5. \A j, k \in DOMAIN s : Apart(t[j], t[k]) <=> Apart(s[j], s[k])
  BY <1>4 DEF Apart
<1>8. \A j, k \in DOMAIN s : Met(t[j], t[k], start) <=> Met(s[j], s[k], start)
  BY <1>4 DEF Met
<1>6. Listed(t, start, end) <=> Listed(s, start, end)
  BY <1>3, <1>4 DEF Listed
<1>7. AreasOK(t, start, end)
  BY <1>3, <1>4, <1>5, <1>6, <1>8 DEF AreasOK
<1>. QED  BY <1>3, <1>7 DEF b, t

\* A demand fault brings one page of an area, which was not there.
LEMMA DemandFaultKeeps ==
    ASSUME Inv, machine = "runs", NEW p \in live, NEW v \in Pages, DemandFault(p, v)
    PROVE  Inv'
<1>. DEFINE s == areas[p]
            i == find_vma(s, v)
            b == [s[i] EXCEPT !.mapped = @ + 1]
            t == [s EXCEPT ![i] = b]
            X == IF v \in OwnPages THEN Here(p) \cup {v} ELSE Here(p)
<1>1. /\ p \in Procs /\ Types /\ TableInv /\ s \in Lists /\ ProcOK(p)
      /\ areas \in [Procs -> Lists] /\ Len(s) <= MAX_VMAS /\ Here(p) \subseteq OwnPages
      /\ AreasOK(s, heap_start[p], heap_end[p]) /\ Counted(s, Here(p))
  BY Now DEF ProcOK
<1>2. /\ Pte(p, v) = Absent /\ i # 0 /\ vmap(p, {v})
      /\ areas' = [areas EXCEPT ![p] = t]
      /\ live' = live /\ heap_start' = heap_start /\ heap_end' = heap_end
  BY <1>1 DEF DemandFault
<1>3. i \in DOMAIN s /\ Covers(s[i], v)
  BY <1>1, <1>2, FindIs
<1>. HIDE DEF i
<1>4. /\ t \in Lists /\ DOMAIN t = DOMAIN s /\ Len(t) = Len(s)
      /\ \A j \in DOMAIN s : t[j] = IF j = i THEN b ELSE s[j]
      /\ AreasOK(t, heap_start[p], heap_end[p])
  BY <1>1, <1>3, MappedIs
<1>5. v \notin Here(p)
  BY <1>1, <1>2, OwnPte, LeafFields DEF Here
<1>6. Counted(t, X)
  <2>1. \A j, k \in DOMAIN s : j # k /\ OwnBase <= s[j].base => Apart(s[j], s[k])
    <3>1. \A j \in DOMAIN s : OwnBase <= s[j].base => StackTop <= s[j].base
      BY <1>1, ListIs, Fields, Layout
    <3>. QED  BY <1>1, <3>1 DEF AreasOK
  <2>2. InPart(s[i])
    BY <1>1, <1>3 DEF AreasOK
  <2>. HIDE DEF t
  <2>. QED  BY <1>1, <1>3, <1>4, <1>5, <2>1, <2>2, FaultCounts
<1>. HIDE DEF t, b
<1>7. /\ TablesTyped' /\ TableInv' /\ machine' = machine
      /\ \A q \in Procs : q # p => Here(q)' = Here(q)
      /\ Here(p)' = Here(p) \cup ({v} \cap OwnPages)
  BY <1>1, <1>2, <1>5, VmapStep
<1>8. Here(p)' = X
  BY <1>7
<1>. HIDE DEF X
<1>9. /\ areas' \in [Procs -> Lists] /\ areas'[p] = t /\ Len(areas'[p]) <= MAX_VMAS
      /\ \A q \in Procs : q # p => areas'[q] = areas[q]
  BY <1>1, <1>2, <1>4
<1>10. ProcOK(p)'
  BY <1>1, <1>2, <1>4, <1>6, <1>8, <1>9 DEF ProcOK
<1>12. heap_start' \in [Procs -> Nat] /\ heap_end' \in [Procs -> Nat]
  BY <1>2, Now
<1>. QED  BY <1>1, <1>2, <1>7, <1>9, <1>10, <1>12, InvNext

\* A step that leaves every process its own pages, and changes no list.
LEMMA SamePagesKeeps ==
    ASSUME Inv, machine = "runs", UNCHANGED <<spaces, machine>>,
           TablesTyped', TablesOK(pte', Eff', content', used', live),
           \A x \in Places : pte'[x].frame # NoFrame <=> pte[x].frame # NoFrame
    PROVE  Inv'
<1>1. /\ live' = live /\ areas' = areas /\ heap_start' = heap_start /\ heap_end' = heap_end
      /\ machine' = machine
  BY DEF spaces
<1>3. ASSUME NEW q \in Procs PROVE Here(q)' = Here(q)
  <2>1. \A v \in OwnPages : <<q, v>> \in Places
    BY OwnCloned, PlacesArePairs
  <2>. QED  BY <2>1 DEF Here
<1>4. Types'
  BY <1>1, Now, TypesNext
<1>5. TableInv'
  BY <1>1 DEF TableInv
<1>6. \A q \in live : ProcOK(q)'
  BY <1>1, <1>3, Now, ProcNext
<1>. QED  BY <1>1, <1>4, <1>5, <1>6 DEF Inv

\* A copy-on-write fault changes frames, not which pages are there.
LEMMA CowFaultKeeps ==
    ASSUME Inv, machine = "runs", NEW p \in live, NEW v \in Pages, CowFault(p, v)
    PROVE  Inv'
<1>. DEFINE z == Place(p, v)
            old == pte[z].frame
<1>1. /\ Types /\ TableInv /\ p \in Procs /\ z \in Places
      /\ TablesTyped /\ TableTypes(pte, Eff, content) /\ TablesOK(pte, Eff, content, used, live)
      /\ refs \in [Frames -> Nat] /\ clones \in [Frames -> Nat] /\ used \subseteq Frames
      /\ \A f \in Frames : Eff[f] = refs[f] - clones[f]
  BY Now, PlaceIs, TypesOfTables DEF TableInv
<1>2. /\ pte[z].cow /\ UNCHANGED <<spaces, cloned, stack_entry, machine>>
      /\ \/ /\ refs[old] <= 1
            /\ pte' = [pte EXCEPT ![z].w = TRUE, ![z].cow = FALSE]
            /\ UNCHANGED <<counters, content>>
         \/ /\ refs[old] > 1
            /\ \E new \in FreeFrames :
                   /\ pte' = [pte EXCEPT ![z] = [frame |-> new, w |-> TRUE, cow |-> FALSE]]
                   /\ used' = used \cup {new}
                   /\ refs' = [refs EXCEPT ![new] = 1, ![old] = @ - 1]
                   /\ clones' = [clones EXCEPT ![new] = 0]
                   /\ content' = [content EXCEPT ![new] = content[old]]
  BY DEF CowFault
<1>. HIDE DEF z
<1>5. old \in Frames /\ old # NoFrame /\ Eff[old] \in Nat /\ Eff[old] # 0
  <2>1. old # NoFrame
    BY <1>1, <1>2 DEF TablesOK, LeafOK
  <2>. QED  BY <1>1, <2>1, UsersHold DEF TablesOK
<1>3. CASE /\ refs[old] <= 1
           /\ pte' = [pte EXCEPT ![z].w = TRUE, ![z].cow = FALSE]
           /\ UNCHANGED <<counters, content>>
  <2>0. used' = used /\ refs' = refs /\ clones' = clones /\ content' = content /\ Eff' = Eff
    BY <1>3 DEF counters, Eff
  <2>1. /\ TableTypes(pte', Eff, content) /\ TablesOK(pte', Eff, content, used, live)
        /\ \A x \in Places : pte'[x].frame = pte[x].frame
    <3>1. Eff[old] <= 1
      BY <1>1, <1>3, <1>5
    <3>2. MadeSole(pte, Eff, z, pte')
      BY <1>3, <3>1 DEF MadeSole
    <3>3. pte[z].cow
      BY <1>2
    <3>. QED  BY <1>1, <3>2, <3>3, SoleTables
  <2>2. TablesTyped'
    BY <1>1, <1>2, <2>0, <2>1 DEF TablesTyped
  <2>. QED  BY <1>2, <2>0, <2>1, <2>2, SamePagesKeeps
<1>4. CASE /\ refs[old] > 1
           /\ \E new \in FreeFrames :
                   /\ pte' = [pte EXCEPT ![z] = [frame |-> new, w |-> TRUE, cow |-> FALSE]]
                   /\ used' = used \cup {new}
                   /\ refs' = [refs EXCEPT ![new] = 1, ![old] = @ - 1]
                   /\ clones' = [clones EXCEPT ![new] = 0]
                   /\ content' = [content EXCEPT ![new] = content[old]]
  <2>1. PICK new \in FreeFrames :
            /\ pte' = [pte EXCEPT ![z] = [frame |-> new, w |-> TRUE, cow |-> FALSE]]
            /\ used' = used \cup {new}
            /\ refs' = [refs EXCEPT ![new] = 1, ![old] = @ - 1]
            /\ clones' = [clones EXCEPT ![new] = 0]
            /\ content' = [content EXCEPT ![new] = content[old]]
    BY <1>4
  <2>2. new \in Frames /\ new \notin used /\ new # NoFrame
    BY Layout DEF FreeFrames
  <2>3. new # old
    <3>1. \A x \in Places : pte[x].frame # new
      BY <1>1, <2>2, FreeUnused
    <3>. QED  BY <1>1, <3>1
  <2>. HIDE DEF old
  <2>4. /\ \A f \in Frames : /\ refs'[f] = IF f = new THEN 1 ELSE IF f = old THEN refs[old] - 1 ELSE refs[f]
                             /\ clones'[f] = IF f = new THEN 0 ELSE clones[f]
        /\ refs' \in [Frames -> Nat] /\ clones' \in [Frames -> Nat] /\ used' \subseteq Frames
    BY <1>1, <1>4, <1>5, <2>1, <2>2, <2>3
  <2>5. Eff' = [f \in Frames |-> IF f = new THEN 1 ELSE IF f = old THEN Eff[old] - 1 ELSE Eff[f]]
    <3>1. \A f \in Frames : refs'[f] - clones'[f] =
              IF f = new THEN 1 ELSE IF f = old THEN Eff[old] - 1 ELSE Eff[f]
      BY <1>1, <1>5, <2>3, <2>4
    <3>2. Eff' = [f \in Frames |-> refs'[f] - clones'[f]]
      BY DEF Eff
    <3>. QED  BY <3>1, <3>2
  <2>6. TableTypes(pte', Eff', content') /\ TablesOK(pte', Eff', content', used', live)
    <3>1. MadeCopy(pte, Eff, content, used, z, old, new, pte', Eff', content')
      BY <2>1, <2>2, <2>5 DEF MadeCopy, old
    <3>. QED  BY <1>1, <1>2, <2>1, <3>1, CopyTables
  <2>7. TablesTyped'
    BY <1>1, <1>2, <2>4, <2>6 DEF TablesTyped
  <2>8. \A x \in Places : pte'[x].frame # NoFrame <=> pte[x].frame # NoFrame
    <3>1. pte[z].frame # NoFrame
      BY <1>5 DEF old
    <3>2. pte'[z].frame = new /\ \A x \in Places : x # z => pte'[x] = pte[x]
      BY <1>1, <2>1 DEF TableTypes
    <3>. QED  BY <2>2, <3>1, <3>2
  <2>. QED  BY <1>2, <2>6, <2>7, <2>8, SamePagesKeeps
<1>. QED  BY <1>2, <1>3, <1>4

\* A write changes what a frame in use holds.
LEMMA StoreKeeps ==
    ASSUME Inv, machine = "runs", NEW p \in live, NEW v \in OwnPages, NEW x \in Values,
           Store(p, v, x)
    PROVE  Inv'
<1>. DEFINE z == <<p, v>>
<1>1. /\ Types /\ TableInv /\ p \in Procs
      /\ TablesTyped /\ TableTypes(pte, Eff, content) /\ TablesOK(pte, Eff, content, used, live)
  BY Now, TypesOfTables DEF TableInv
<1>2. z \in Places /\ Pte(p, v) = pte[z] /\ z[2] \in OwnPages
  BY <1>1, OwnPte
<1>3. /\ pte[z].w /\ content' = [content EXCEPT ![pte[z].frame] = x]
      /\ pte' = pte /\ used' = used /\ refs' = refs /\ clones' = clones
      /\ UNCHANGED <<spaces, cloned, stack_entry, machine>>
  BY <1>2 DEF Store, counters
<1>. HIDE DEF z
<1>4. TableTypes(pte, Eff, content') /\ TablesOK(pte, Eff, content', used, live)
  BY <1>1, <1>2, <1>3, StoreTables
<1>5. Eff' = Eff
  BY <1>3 DEF Eff
<1>6. TablesTyped'
  BY <1>1, <1>3, <1>4, <1>5 DEF TablesTyped
<1>. QED  BY <1>3, <1>4, <1>5, <1>6, SamePagesKeeps

\* What a fork of p copies comes from the tables of p or from the kernel's.
LEMMA OriginIs ==
    ASSUME NEW p \in Procs, NEW u \in ClonedPages
    PROVE  /\ Origin(p, u) \in Places /\ Origin(p, u)[2] = u
           /\ Origin(p, u)[1] = 0 \/ Origin(p, u)[1] = p
           /\ u \in OwnPages => Origin(p, u) = <<p, u>>
<1>1. u \in Pages
  BY Parts, Layout DEF ClonedPages
<1>2. u \in OwnPages => u \notin KernelPages
  BY <1>1, HomeIs
<1>3. Origin(p, u) = <<p, u>> \/ Origin(p, u) = <<0, u>>
  BY DEF Origin
<1>. QED  BY <1>1, <1>2, <1>3, PlacesArePairs DEF Origin

\* fork: the child has the lists and the pages of its parent.
LEMMA ForkKeeps ==
    ASSUME Inv, machine = "runs", NEW p \in live, NEW c \in Procs, Fork(p, c)
    PROVE  /\ Inv' /\ p # c /\ c \notin live
           /\ \A q \in Procs : \A v \in OwnPages :
                  pte'[<<q, v>>].frame = IF q = c THEN pte[<<p, v>>].frame ELSE pte[<<q, v>>].frame
<1>. DEFINE O == [u \in ClonedPages |-> Origin(p, u)]
            More(f) == Cardinality({u \in ClonedPages : pte[Origin(p, u)].frame = f})
<1>1. /\ p \in Procs /\ Types /\ TableInv /\ live \subseteq Procs
      /\ TableTypes(pte, Eff, content) /\ TablesOK(pte, Eff, content, used, live)
      /\ DOMAIN pte = Places /\ TablesTyped
      /\ refs \in [Frames -> Nat] /\ clones \in [Frames -> Nat] /\ used \subseteq Frames
      /\ stack_entry \in [Procs -> Procs \cup {0}] /\ cloned \subseteq Procs
      /\ \A f \in Frames : Eff[f] = refs[f] - clones[f]
  BY Now, TypesOfTables DEF TableInv
<1>2. /\ heap_start[c] = 0 /\ live' = live \cup {c}
      /\ areas' = [areas EXCEPT ![c] = areas[p]]
      /\ heap_start' = [heap_start EXCEPT ![c] = heap_start[p]]
      /\ heap_end' = [heap_end EXCEPT ![c] = heap_end[p]]
      /\ cloned' = cloned \cup {c}
      /\ stack_entry' = [stack_entry EXCEPT ![c] = stack_entry[p]]
      /\ pte' = CowEntries(p, c) /\ CountClone(p)
      /\ content' = content /\ machine' = machine
  BY DEF Fork, Fresh
<1>3. \A q \in live : heap_start[q] # 0
  BY Now, Layout
<1>4. c \notin live /\ p # c
  BY <1>2, <1>3
<1>5. Sources(O, c)
  <2>1. c # 0
    BY Layout
  <2>. QED  BY <1>1, <1>4, <2>1, OriginIs DEF Sources
<1>6. Forked(pte, pte', O, c)
  <2>1. ASSUME NEW x \in Places
        PROVE  (\E u \in ClonedPages : x = Origin(p, u)) <=> x[2] \in ClonedPages /\ x = O[x[2]]
    <3>1. ASSUME NEW u \in ClonedPages, x = Origin(p, u) PROVE x[2] = u
      BY <1>1, <3>1, OriginIs
    <3>. QED  BY <3>1
  <2>2. pte' = [x \in Places |->
                   IF x[1] = c /\ x[2] \in ClonedPages THEN Lowered(pte[Origin(p, x[2])])
                   ELSE IF \E u \in ClonedPages : x = Origin(p, u) THEN Lowered(pte[x]) ELSE pte[x]]
    BY <1>1, <1>2 DEF CowEntries
  <2>3. ASSUME NEW x \in Places
        PROVE  pte'[x] = IF x[1] = c /\ x[2] \in ClonedPages THEN Lowered(pte[O[x[2]]])
                         ELSE IF x[2] \in ClonedPages /\ x = O[x[2]] THEN Lowered(pte[x]) ELSE pte[x]
    <3>1. CASE x[1] = c /\ x[2] \in ClonedPages
      BY <2>2, <3>1
    <3>2. CASE ~(x[1] = c /\ x[2] \in ClonedPages)
      BY <2>1, <2>2, <3>2
    <3>. QED  BY <3>1, <3>2
  <2>4. pte' = [x \in Places |-> pte'[x]]
    BY <2>2
  <2>. HIDE DEF O
  <2>. QED  BY <2>3, <2>4 DEF Forked
<1>7. PICK block \in Blocks, t \in FreeFrames :
          /\ used' = used \cup {t}
          /\ refs' = [f \in Frames |->
                 IF f = t THEN 1 ELSE refs[f] + (IF f \in block THEN 1 ELSE 0) + More(f)]
          /\ clones' = [f \in Frames |->
                 IF f = t THEN 0 ELSE clones[f] + (IF f \in block THEN 1 ELSE 0)]
  BY <1>2 DEF CountClone
<1>8. \A f \in Frames : More(f) \in Nat
  BY FiniteLeaves, FS_Subset, FS_CardinalityType
<1>9. \A f \in Frames : Cardinality({u \in ClonedPages : pte[O[u]].frame = f}) = More(f)
  <2>. SUFFICES ASSUME NEW f \in Frames
                PROVE  {u \in ClonedPages : pte[O[u]].frame = f} =
                           {u \in ClonedPages : pte[Origin(p, u)].frame = f}
    BY Zenon
  <2>. QED  OBVIOUS
<1>. HIDE DEF More
<1>10. /\ refs' \in [Frames -> Nat] /\ clones' \in [Frames -> Nat] /\ used' \subseteq Frames
       /\ t \in Frames /\ t \notin used
  BY <1>1, <1>7, <1>8 DEF FreeFrames
<1>11. Eff' = [f \in Frames |->
                 IF f = t THEN 1
                 ELSE Eff[f] + Cardinality({u \in ClonedPages : pte[O[u]].frame = f})]
  <2>1. ASSUME NEW f \in Frames
        PROVE  refs'[f] - clones'[f] = IF f = t THEN 1 ELSE Eff[f] + More(f)
    BY <1>1, <1>7, <1>8
  <2>2. Eff' = [f \in Frames |-> refs'[f] - clones'[f]]
    BY DEF Eff
  <2>. HIDE DEF O
  <2>. QED  BY <1>9, <2>1, <2>2
<1>. HIDE DEF O
<1>12. TableTypes(pte', Eff', content) /\ TablesOK(pte', Eff', content, used', live')
  <2>1. MoreRefs(pte, Eff, used, O, t, Eff')
    BY <1>10, <1>11 DEF MoreRefs
  <2>2. TableTypes(pte', Eff', content) /\ TablesOK(pte', Eff', content, used \cup {t}, live \cup {c})
    BY <1>1, <1>4, <1>5, <1>6, <2>1, ForkTables
  <2>. QED  BY <1>2, <1>7, <2>2
<1>13. ASSUME NEW q \in Procs, NEW v \in OwnPages
       PROVE  pte'[<<q, v>>].frame = IF q = c THEN pte[<<p, v>>].frame ELSE pte[<<q, v>>].frame
  <2>1. <<q, v>> \in Places /\ <<q, v>>[1] = q /\ <<q, v>>[2] = v /\ v \in ClonedPages
    BY OwnCloned, PlacesArePairs
  <2>2. O[v] = <<p, v>> /\ <<p, v>> \in Places
    BY <1>1, <2>1, OriginIs DEF O
  <2>3. pte[<<p, v>>] \in Leaves /\ pte[<<q, v>>] \in Leaves
    BY <1>1, <2>1, <2>2 DEF TableTypes
  <2>. QED  BY <1>6, <2>1, <2>2, <2>3, LoweredIs DEF Forked
<1>14. /\ Here(c)' = Here(p)
       /\ \A q \in Procs : q # c => Here(q)' = Here(q)
  BY <1>13 DEF Here
<1>15. /\ areas' \in [Procs -> Lists] /\ areas'[c] = areas[p] /\ Len(areas[p]) <= MAX_VMAS
       /\ heap_start' \in [Procs -> Nat] /\ heap_start'[c] = heap_start[p]
       /\ heap_end' \in [Procs -> Nat] /\ heap_end'[c] = heap_end[p]
       /\ stack_entry' \in [Procs -> Procs \cup {0}] /\ cloned' \subseteq Procs
       /\ \A q \in Procs : q # c => /\ areas'[q] = areas[q] /\ heap_start'[q] = heap_start[q]
                                    /\ heap_end'[q] = heap_end[q]
  BY <1>1, <1>2, Now
<1>16. ProcOK(c)'
  BY <1>14, <1>15, Now DEF ProcOK
<1>17. TablesTyped' /\ TableInv'
  BY <1>2, <1>10, <1>12, <1>15 DEF TablesTyped, TableInv
<1>18. Inv'
  BY <1>2, <1>14, <1>15, <1>16, <1>17, InvNext
<1>. QED  BY <1>4, <1>13, <1>18

\* A new process has a stack, no heap yet, and no own page.
LEMMA StartKeeps ==
    ASSUME Inv, machine = "runs", NEW p \in Procs, Start(p)
    PROVE  Inv' /\ p \notin live
<1>1. /\ Types /\ TableInv /\ areas \in [Procs -> Lists]
      /\ heap_start \in [Procs -> Nat] /\ heap_end \in [Procs -> Nat] /\ live \subseteq Procs
  BY Now
<1>2. PICK h \in HeapBases :
          /\ heap_start' = [heap_start EXCEPT ![p] = h]
          /\ heap_end' = [heap_end EXCEPT ![p] = h]
  BY DEF Start
<1>3. /\ heap_start[p] = 0 /\ live' = live \cup {p}
      /\ areas' = [areas EXCEPT ![p] = StackAreas] /\ vmap(p, Code)
  BY DEF Start, Fresh
<1>4. p \notin live
  BY <1>3, Now, Layout
<1>5. Here(p) = {}
  <2>1. \A v \in OwnPages : <<p, v>> \in Places /\ <<p, v>>[1] = p /\ <<p, v>>[2] = v
    BY OwnCloned, PlacesArePairs
  <2>2. \A v \in OwnPages : pte[<<p, v>>].frame = NoFrame
    BY <1>1, <1>4, <2>1, OwnCloned, Layout DEF TableInv, TablesOK, LeafOK
  <2>. QED  BY <2>2 DEF Here
<1>6. Code \in SUBSET Pages /\ \A v \in Code : v \notin OwnPages
  BY Parts, Layout
<1>7. /\ TablesTyped' /\ TableInv' /\ machine' = machine
      /\ \A q \in Procs : q # p => Here(q)' = Here(q)
      /\ Here(p)' = Here(p) \cup (Code \cap OwnPages)
  BY <1>1, <1>3, <1>6, VmapStep
<1>8. Here(p)' = {}
  BY <1>5, <1>6, <1>7
<1>9. /\ StackAreas \in Lists /\ Len(StackAreas) = 2 /\ DOMAIN StackAreas = 1 .. 2
      /\ StackAreas[1] = Area(StackBase, 1, "GuardPage", FALSE, 0)
      /\ StackAreas[2] = Area(StackBase + 1, StackTop - StackBase - 1, "Stack", TRUE, 0)
  BY Layout DEF StackAreas, Lists, Area, AreaRecs
<1>10. AreasOK(StackAreas, h, h) /\ Counted(StackAreas, {})
  <2>1. /\ StackAreas[1].base = StackBase /\ End(StackAreas[1]) = StackBase + 1
        /\ StackAreas[2].base = StackBase + 1 /\ End(StackAreas[2]) = StackTop
        /\ StackAreas[1].typ # "Heap" /\ StackAreas[2].typ # "Heap"
    BY <1>9, Layout DEF Area, End
  <2>2. \A i \in DOMAIN StackAreas : i = 1 \/ i = 2
    BY <1>9
  <2>3. \A i \in DOMAIN StackAreas : InPart(StackAreas[i]) /\ StackAreas[i].base < StackTop
    BY <2>1, <2>2, Layout DEF InPart
  <2>4. Apart(StackAreas[1], StackAreas[2])
    BY <2>1, Parts, Layout DEF Apart, Covers
  <2>5. \A i, j \in DOMAIN StackAreas : i # j => Apart(StackAreas[i], StackAreas[j])
    BY <2>2, <2>4, ApartBoth
  <2>6. \A i \in DOMAIN StackAreas : ~(StackTop <= StackAreas[i].base)
    BY <2>1, <2>2, Layout
  <2>7. \A i \in DOMAIN StackAreas : ~(OwnBase <= StackAreas[i].base)
    BY <2>1, <2>2, Layout
  <2>8. \A i, j \in DOMAIN StackAreas : i # j => Met(StackAreas[i], StackAreas[j], h)
    BY <2>5, ApartMet
  <2>9. AreasOK(StackAreas, h, h)
    BY <2>1, <2>2, <2>3, <2>5, <2>6, <2>8 DEF AreasOK
  <2>. QED  BY <2>7, <2>9 DEF Counted
<1>11. /\ areas' \in [Procs -> Lists] /\ areas'[p] = StackAreas /\ Len(StackAreas) <= MAX_VMAS
       /\ \A q \in Procs : q # p => areas'[q] = areas[q]
  BY <1>1, <1>3, <1>9, Layout
<1>12. /\ heap_start' \in [Procs -> Nat] /\ heap_start'[p] = h
       /\ heap_end' \in [Procs -> Nat] /\ heap_end'[p] = h
       /\ \A q \in Procs : q # p => heap_start'[q] = heap_start[q] /\ heap_end'[q] = heap_end[q]
  BY <1>1, <1>2, Layout
<1>13. ProcOK(p)'
  <2>1. h <= StackTop /\ h \in Nat
    BY Layout
  <2>. QED  BY <1>8, <1>10, <1>11, <1>12, <2>1 DEF ProcOK
<1>15. Inv'
  BY <1>3, <1>7, <1>11, <1>12, <1>13, InvNext
<1>. QED  BY <1>4, <1>15

\* What find_free_range finds ends below the top of the stack.
LEMMA FreeRangeIs ==
    ASSUME NEW p, NEW size \in Nat, NEW start \in Nat
    PROVE  /\ find_free_range(p, size, start) \in Nat
           /\ find_free_range(p, size, start) # 0 => InOnePart(find_free_range(p, size, start), size)
<1>. DEFINE fits == {v \in start .. StackTop - size : ~has_overlap(p, v, size)}
<1>1. fits \in SUBSET Nat /\ \A v \in fits : v + size <= StackTop
  BY Layout
<1>2. find_free_range(p, size, start) = IF fits = {} THEN 0 ELSE Min(fits)
  BY DEF find_free_range
<1>. HIDE DEF fits
<1>3. fits # {} => Min(fits) \in fits
  BY <1>1, MinIsLeast
<1>4. CASE fits = {}
  BY <1>2, <1>4
<1>5. CASE fits # {}
  <2>1. find_free_range(p, size, start) = Min(fits)
    BY <1>2, <1>5
  <2>2. Min(fits) \in Nat /\ Min(fits) + size <= StackTop
    BY <1>1, <1>3, <1>5
  <2>. HIDE DEF find_free_range
  <2>. QED  BY <2>1, <2>2 DEF InOnePart
<1>. QED  BY <1>4, <1>5

\* The calls that map and unmap.
LEMMA SyscallKeeps ==
    ASSUME Inv, machine = "runs", NEW p \in live, Syscall(p)
    PROVE  Inv'
<1>0. \A n \in 1 .. MaxSize : n \in Nat /\ n # 0
  BY Layout
<1>1. ASSUME NEW size \in 1 .. MaxSize, NEW demand \in BOOLEAN, mmap_anon(p, size, demand)
      PROVE  Inv'
  <2>1. ASSUME NEW base \in Hints, InOnePart(base, size), MapAt(p, base, size, demand)
        PROVE  Inv'
    <3>1. base \in Nat
      BY Layout
    <3>. QED  BY <1>0, <2>1, <3>1, MapAtKeeps
  <2>2. ASSUME NEW start \in SearchStarts, NEW base, base = find_free_range(p, size, start),
               MapAt(p, base, size, demand)
        PROVE  Inv'
    <3>1. start \in Nat
      BY Layout DEF SearchStarts
    <3>2. base # 0
      BY <2>2 DEF MapAt
    <3>3. base \in Nat /\ InOnePart(base, size)
      BY <1>0, <2>2, <3>1, <3>2, FreeRangeIs
    <3>. QED  BY <1>0, <2>2, <3>3, MapAtKeeps
  <2>. QED  BY <1>1, <2>1, <2>2 DEF mmap_anon
<1>2. ASSUME NEW i \in DOMAIN areas[p], munmap(p, areas[p][i]) PROVE Inv'
  BY <1>2, MunmapKeeps
<1>3. ASSUME NEW n \in 1 .. MaxSize, sbrk(p, n) \/ sbrk(p, -n) PROVE Inv'
  BY <1>0, <1>3, SbrkUpKeeps, SbrkDownKeeps
<1>4. ASSUME NEW n \in 1 .. MaxSize, NEW hint \in Nat,
             legacy_mem_alloc(p, n, hint) \/ legacy_mem_free(p, hint, n)
      PROVE  Inv'
  BY <1>0, <1>4, LegacyKeeps
<1>5. \A hint \in Hints \cap KernelPages : hint \in Nat
  BY Layout
<1>6. Overmap => Inv'
  BY StillKeeps DEF Overmap, Lost
<1>. QED  BY <1>1, <1>2, <1>3, <1>4, <1>5, <1>6 DEF Syscall

\* The step of the induction.
LEMMA NextKeeps == Inv /\ [Next]_vars => Inv'
<1>. SUFFICES ASSUME Inv, [Next]_vars PROVE Inv'
  OBVIOUS
<1>1. CASE UNCHANGED vars
  <2>1. UNCHANGED <<spaces, tables>> /\ machine' = machine
    BY <1>1 DEF vars
  <2>2. machine \in {"runs", "panicked", "hung", "wild"}
    BY TypesNow DEF Inv
  <2>. QED  BY <2>1, <2>2, StillKeeps
<1>2. CASE Next
  <2>0. machine = "runs"
    BY <1>2 DEF Next
  <2>1. ASSUME NEW p \in live, Syscall(p) PROVE Inv'
    BY <2>0, <2>1, SyscallKeeps
  <2>2. ASSUME NEW p \in Procs, Start(p) PROVE Inv'
    BY <2>0, <2>2, StartKeeps
  <2>3. ASSUME NEW p \in live, NEW c \in Procs, Fork(p, c) PROVE Inv'
    BY <2>0, <2>3, ForkKeeps
  <2>4. ASSUME NEW p \in live, Exit(p) PROVE Inv'
    <3>1. machine' \in {"hung", "wild"} /\ UNCHANGED <<spaces, tables>>
      BY <2>4 DEF Exit, Lost
    <3>. QED  BY <3>1, StillKeeps
  <2>5. ASSUME NEW p \in live, NEW v \in Pages, DemandFault(p, v) \/ CowFault(p, v) PROVE Inv'
    BY <2>0, <2>5, DemandFaultKeeps, CowFaultKeeps
  <2>8. ASSUME NEW p \in live, NEW v \in Pages, BlockFault(p, v) PROVE Inv'
    BY <2>8, StillKeeps DEF BlockFault, Lost
  <2>6. ASSUME NEW p \in live, NEW v \in OwnPages, NEW x \in Values, Store(p, v, x) PROVE Inv'
    BY <2>0, <2>6, StoreKeeps
  <2>7. ASSUME OutOfMemory PROVE Inv'
    BY <2>7, StillKeeps DEF OutOfMemory, Lost
  <2>. QED  BY <1>2, <2>1, <2>2, <2>3, <2>4, <2>5, <2>6, <2>7, <2>8 DEF Next
<1>. QED  BY <1>1, <1>2

\* The inductive invariant holds.
LEMMA InvHolds == Spec => []Inv
BY InitOK, NextKeeps, PTL DEF Spec

-----------------------------------------------------------------------------
(***************************************************************************)
(* What the runs check                                                     *)
(***************************************************************************)

\* The areas, the tables and the counters have their types in every state, and
\* no process has more than MAX_VMAS areas.
THEOREM TypesHold == Spec => []TypeOK
<1>1. Inv => TypeOK
  <2>. SUFFICES ASSUME Inv PROVE TypeOK
    OBVIOUS
  <2>1. pte \in [(Procs \cup {0}) \X Pages ->
                    [frame : Frames \cup {NoFrame}, w : BOOLEAN, cow : BOOLEAN]]
        /\ content \in [Frames -> Values]
    BY TypesOfTables DEF Inv, TableTypes, Places, Leaves
  <2>. QED  BY <2>1, TypesNow, TypesOfTables DEF Inv, TypeOK
<1>. QED  BY <1>1, InvHolds, PTL

\* No page belongs to two areas of a process while its heap has an area,
\* whatever mmap, sbrk, munmap and fork did before (add_vma, has_overlap and the
\* loop of sbrk in vma.rs).
THEOREM AreasStayApart == Spec => []AreasDisjoint
<1>1. Inv => AreasDisjoint
  <2>. SUFFICES ASSUME Inv, NEW p \in live, HeapListed(p),
                       NEW i \in DOMAIN areas[p], NEW j \in DOMAIN areas[p], i # j
                PROVE  Apart(areas[p][i], areas[p][j])
    BY DEF AreasDisjoint
  <2>1. AreasOK(areas[p], heap_start[p], heap_end[p])
    BY DEF Inv, ProcOK
  <2>2. Listed(areas[p], heap_start[p], heap_end[p])
    BY DEF HeapListed, Listed
  <2>. QED  BY <2>1, <2>2 DEF AreasOK
<1>. QED  BY <1>1, InvHolds, PTL

\* Under every leaf is a reference of its own, besides those that forks counted
\* for the identity map, and a frame with a page of a process's own has no more:
\* mapping, unmapping, fork and copy-on-write never lose count (frame_inc,
\* frame_dec and frame_cow_copy of frame.rs, the walk of clone_user_p4).
THEOREM RefsMatchLeaves == Spec => []RefsCountLeaves
<1>1. Inv => RefsCountLeaves
  <2>. SUFFICES ASSUME Inv, NEW f \in Frames
                PROVE  /\ f \in FreeFrames => Users(f) = {}
                       /\ Cardinality(Users(f)) + clones[f] <= refs[f]
                       /\ (\E x \in Users(f) : x[2] \in OwnPages) =>
                              Cardinality(Users(f)) + clones[f] = refs[f]
    BY DEF RefsCountLeaves
  <2>1. Users(f) = UsersOf(pte, f)
    BY TypesOfTables DEF Inv, Users, UsersOf
  <2>2. TablesOK(pte, Eff, content, used, live)
    BY DEF Inv, TableInv
  <2>3. f \in FreeFrames => Users(f) = {}
    BY <2>1, <2>2, FreeUnused DEF FreeFrames
  <2>4. /\ Cardinality(Users(f)) <= Eff[f]
        /\ (\E x \in Users(f) : x[2] \in OwnPages) => Cardinality(Users(f)) = Eff[f]
    BY <2>1, <2>2 DEF TablesOK, CountsOK
  <2>5. /\ Eff[f] = refs[f] - clones[f] /\ refs[f] \in Nat /\ clones[f] \in Nat
        /\ Cardinality(Users(f)) \in Nat
    BY <2>1, TypesOfTables, UsersFinite DEF Inv
  <2>6. /\ Cardinality(Users(f)) <= Eff[f] => Cardinality(Users(f)) + clones[f] <= refs[f]
        /\ Cardinality(Users(f)) = Eff[f] => Cardinality(Users(f)) + clones[f] = refs[f]
    BY <2>5
  <2>. QED  BY <2>3, <2>4, <2>6
<1>. QED  BY <1>1, InvHolds, PTL

\* The areas say which of a process's own pages are there, and mapped_pages
\* counts them, through demand faults, partial maps, forks and unmaps.
THEOREM AreasKnowPages == Spec => []AreasCountPages
<1>1. Inv => AreasCountPages
  <2>. SUFFICES ASSUME Inv, NEW p \in live
                PROVE  /\ \A v \in OwnPages : Present(p, v) => find_vma(areas[p], v) # 0
                       /\ \A i \in DOMAIN areas[p] :
                              LET a == areas[p][i] IN
                              a.base \in OwnPages =>
                                  a.mapped = Cardinality({v \in OwnPages : Covers(a, v) /\ Present(p, v)})
    BY DEF AreasCountPages
  <2>1. p \in Procs /\ Types /\ areas[p] \in Lists /\ Counted(areas[p], Here(p))
    BY Now DEF ProcOK
  <2>2. \A v \in OwnPages : Present(p, v) <=> v \in Here(p)
    BY <2>1, OwnPte
  <2>3. ASSUME NEW v \in OwnPages, Present(p, v) PROVE find_vma(areas[p], v) # 0
    BY <2>1, <2>2, <2>3, FindIs DEF Counted
  <2>4. ASSUME NEW i \in DOMAIN areas[p], areas[p][i].base \in OwnPages
        PROVE  areas[p][i].mapped =
                   Cardinality({v \in OwnPages : Covers(areas[p][i], v) /\ Present(p, v)})
    <3>1. {v \in OwnPages : Covers(areas[p][i], v) /\ Present(p, v)} =
              {v \in Here(p) : Covers(areas[p][i], v)}
      BY <2>2 DEF Here
    <3>2. OwnBase <= areas[p][i].base
      BY <2>4, Parts
    <3>. QED  BY <2>1, <3>1, <3>2 DEF Counted
  <2>. QED  BY <2>3, <2>4
<1>. QED  BY <1>1, InvHolds, PTL

-----------------------------------------------------------------------------
(***************************************************************************)
(* Each process has a memory of its own                                    *)
(***************************************************************************)

\* What p reads at its own page v.
Sees(p, v) == IF pte[<<p, v>>].frame # NoFrame THEN content[pte[<<p, v>>].frame] ELSE NoFrame

View == [p \in Procs |-> [v \in OwnPages |->
            IF Present(p, v) THEN content[Pte(p, v).frame] ELSE NoFrame]]

\* The view is what is seen.
LEMMA ViewIs == Types => View = [p \in Procs |-> [v \in OwnPages |-> Sees(p, v)]]
<1>. SUFFICES ASSUME Types PROVE View = [p \in Procs |-> [v \in OwnPages |-> Sees(p, v)]]
  OBVIOUS
<1>1. ASSUME NEW p \in Procs, NEW v \in OwnPages
      PROVE  (IF Present(p, v) THEN content[Pte(p, v).frame] ELSE NoFrame) = Sees(p, v)
  BY OwnPte DEF Present, Sees
<1>. QED  BY <1>1 DEF View

\* The view before and after a step.
LEMMA ViewNext ==
    ASSUME Types, Types'
    PROVE  /\ View = [p \in Procs |-> [v \in OwnPages |-> Sees(p, v)]]
           /\ View' = [p \in Procs |-> [v \in OwnPages |-> Sees(p, v)']]
<1>1. (Types => View = [p \in Procs |-> [v \in OwnPages |-> Sees(p, v)]])'
  BY ViewIs, PTL
<1>. QED  BY <1>1, ViewIs

\* Nobody sees a change.
LEMMA SeenSame ==
    ASSUME Types, Types', \A q \in Procs : \A v \in OwnPages : Sees(q, v)' = Sees(q, v)
    PROVE  View' = View
BY ViewNext

\* p sees the pages g[v], where g says so; nobody else sees a change.
LEMMA SeenBy ==
    ASSUME Types, Types', NEW p \in Procs, NEW g,
           g = [v \in OwnPages |-> Sees(p, v)'],
           \A q \in Procs : q # p => \A v \in OwnPages : Sees(q, v)' = Sees(q, v)
    PROVE  View' = [View EXCEPT ![p] = g]
BY ViewNext

\* Fresh pages are seen as zeroed ones.
LEMMA SeenAfterMap ==
    ASSUME Types, TableInv, NEW p \in Procs, NEW V \in SUBSET Pages,
           \A v \in V : v \in OwnPages => v \notin Here(p),
           live \subseteq live', p \in live', vmap(p, V)
    PROVE  \A q \in Procs : \A v \in OwnPages :
               Sees(q, v)' = IF q = p /\ v \in V THEN 0 ELSE Sees(q, v)
<1>1. \A v \in V : v \in OwnPages => pte[<<p, v>>].frame = NoFrame
  BY DEF Here
<1>2. /\ content' = content
      /\ \A q \in Procs : \A v \in OwnPages :
             q # p \/ v \notin V => pte'[<<q, v>>] = pte[<<q, v>>]
      /\ \A v \in V : v \in OwnPages => /\ pte'[<<p, v>>].frame # NoFrame
                                        /\ content[pte'[<<p, v>>].frame] = 0
  BY <1>1, VmapDoes
<1>. QED  BY <1>2 DEF Sees

\* Dropped pages are not seen.
LEMMA SeenAfterDrop ==
    ASSUME Types, TableInv, NEW p \in Procs, NEW V \in SUBSET Pages,
           \A u, v \in V : Home(u) = Home(v) => u = v,
           Drop(p, V)
    PROVE  \/ machine' \in {"hung", "wild"} /\ UNCHANGED <<spaces, tables>>
           \/ \A q \in Procs : \A v \in OwnPages :
                  Sees(q, v)' = IF q = p /\ v \in V THEN NoFrame ELSE Sees(q, v)
<1>1. CASE machine' \in {"hung", "wild"} /\ UNCHANGED <<spaces, tables>>
  BY <1>1
<1>2. CASE ~(machine' \in {"hung", "wild"} /\ UNCHANGED <<spaces, tables>>)
  <2>1. /\ content' = content
        /\ \A q \in Procs : \A v \in OwnPages :
               pte'[<<q, v>>] = IF q = p /\ v \in V THEN Absent ELSE pte[<<q, v>>]
    BY <1>2, DropDoes
  <2>. QED  BY <2>1, LeafFields DEF Sees
<1>. QED  BY <1>1, <1>2

\* Frames that come or go below the own pages are not seen.
LEMMA SeenLower ==
    ASSUME Types, TableInv, NEW p \in live, NEW V \in SUBSET Pages,
           \A v \in V : v \notin OwnPages /\ v < StackTop,
           (vmap(p, V) /\ live' = live) \/ Drop(p, V)
    PROVE  \/ machine' \in {"hung", "wild"} /\ UNCHANGED <<spaces, tables>>
           \/ \A q \in Procs : \A v \in OwnPages : Sees(q, v)' = Sees(q, v)
<1>0. p \in Procs
  BY TypesNow
<1>1. CASE vmap(p, V) /\ live' = live
  <2>1. \A q \in Procs : \A v \in OwnPages :
            Sees(q, v)' = IF q = p /\ v \in V THEN 0 ELSE Sees(q, v)
    BY <1>0, <1>1, SeenAfterMap
  <2>. QED  BY <2>1
<1>2. CASE Drop(p, V)
  <2>0. \A u, v \in V : Home(u) = Home(v) => u = v
    BY OnePart
  <2>1. \/ machine' \in {"hung", "wild"} /\ UNCHANGED <<spaces, tables>>
        \/ \A q \in Procs : \A v \in OwnPages :
                  Sees(q, v)' = IF q = p /\ v \in V THEN NoFrame ELSE Sees(q, v)
    BY <1>0, <1>2, <2>0, SeenAfterDrop
  <2>. QED  BY <2>1
<1>. QED  BY <1>1, <1>2

-----------------------------------------------------------------------------
\* The steps of the promise, from what is seen.

\* A step nobody sees is a stutter of the promise.
LEMMA StillSteps ==
    ASSUME Types, Types', live' = live,
           \A q \in Procs : \A v \in OwnPages : Sees(q, v)' = Sees(q, v)
    PROVE  UNCHANGED Private!vars
<1>1. View' = View
  BY SeenSame
<1>. QED  BY <1>1 DEF Private!vars, View

\* Pages seen as zeroed for the first time are a Map of the promise.
LEMMA MapSteps ==
    ASSUME Types, Types', live' = live, NEW p \in live, NEW V,
           \A v \in V : v \in OwnPages => v \notin Here(p),
           \A q \in Procs : \A v \in OwnPages :
               Sees(q, v)' = IF q = p /\ v \in V THEN 0 ELSE Sees(q, v)
    PROVE  Private!Next
<1>. DEFINE W == V \cap OwnPages
            g == [v \in OwnPages |-> IF v \in W THEN 0 ELSE View[p][v]]
<1>0. p \in Procs /\ W \in SUBSET OwnPages
  BY TypesNow
<1>1. \A v \in OwnPages : View[p][v] = Sees(p, v)
  BY <1>0, ViewIs
<1>2. g = [v \in OwnPages |-> Sees(p, v)']
  BY <1>0, <1>1
<1>. HIDE DEF g
<1>3. View' = [View EXCEPT ![p] = g]
  BY <1>0, <1>2, SeenBy
<1>4. \A v \in W : View[p][v] = NoFrame
  BY <1>0, <1>1 DEF Sees, Here
<1>5. /\ p \in live /\ \A v \in W : View[p][v] = NoFrame
      /\ View' = [View EXCEPT ![p] = [v \in OwnPages |-> IF v \in W THEN 0 ELSE @[v]]]
      /\ live' = live
  BY <1>3, <1>4 DEF g
<1>. HIDE DEF W
<1>6. Private!Map(p, W)
  BY <1>5 DEF Private!Map, View
<1>. QED  BY <1>0, <1>6 DEF Private!Next

\* Pages no longer seen are an Unmap of the promise.
LEMMA UnmapSteps ==
    ASSUME Types, Types', live' = live, NEW p \in live, NEW V,
           \A q \in Procs : \A v \in OwnPages :
               Sees(q, v)' = IF q = p /\ v \in V THEN NoFrame ELSE Sees(q, v)
    PROVE  Private!Next
<1>. DEFINE W == V \cap OwnPages
            g == [v \in OwnPages |-> IF v \in W THEN NoFrame ELSE View[p][v]]
<1>0. p \in Procs /\ W \in SUBSET OwnPages
  BY TypesNow
<1>1. \A v \in OwnPages : View[p][v] = Sees(p, v)
  BY <1>0, ViewIs
<1>2. g = [v \in OwnPages |-> Sees(p, v)']
  BY <1>0, <1>1
<1>. HIDE DEF g
<1>3. View' = [View EXCEPT ![p] = g]
  BY <1>0, <1>2, SeenBy
<1>4. /\ p \in live /\ live' = live
      /\ View' = [View EXCEPT ![p] = [v \in OwnPages |-> IF v \in W THEN NoFrame ELSE @[v]]]
  BY <1>3 DEF g
<1>. HIDE DEF W
<1>5. Private!Unmap(p, W)
  BY <1>4 DEF Private!Unmap, View
<1>. QED  BY <1>0, <1>5 DEF Private!Next

\* A child that sees what its parent sees is a Fork of the promise.
LEMMA ForkSteps ==
    ASSUME Types, Types', NEW p \in live, NEW c \in Procs, c \notin live,
           live' = live \cup {c},
           \A q \in Procs : \A v \in OwnPages :
               Sees(q, v)' = IF q = c THEN Sees(p, v) ELSE Sees(q, v)
    PROVE  Private!Next
<1>0. p \in Procs
  BY TypesNow
<1>1. View[p] = [v \in OwnPages |-> Sees(p, v)]
  BY <1>0, ViewIs
<1>2. View[p] = [v \in OwnPages |-> Sees(c, v)']
  BY <1>1
<1>3. View' = [View EXCEPT ![c] = View[p]]
  BY <1>2, SeenBy
<1>4. Private!Fork(p, c)
  BY <1>3 DEF Private!Fork, View
<1>. QED  BY <1>0, <1>4 DEF Private!Next

\* A change at one page of one process is a Write of the promise.
LEMMA WriteSteps ==
    ASSUME Types, Types', live' = live, NEW p \in live, NEW z \in OwnPages, NEW x \in Values,
           Sees(p, z) # NoFrame,
           \A q \in Procs : \A v \in OwnPages :
               Sees(q, v)' = IF q = p /\ v = z THEN x ELSE Sees(q, v)
    PROVE  Private!Next
<1>. DEFINE g == [View[p] EXCEPT ![z] = x]
<1>0. p \in Procs
  BY TypesNow
<1>1. View[p] = [v \in OwnPages |-> Sees(p, v)]
  BY <1>0, ViewIs
<1>2. g = [v \in OwnPages |-> Sees(p, v)']
  BY <1>0, <1>1
<1>3. View[p][z] # NoFrame
  BY <1>1
<1>. HIDE DEF g
<1>4. View' = [View EXCEPT ![p] = g]
  BY <1>0, <1>2, SeenBy
<1>5. View' = [View EXCEPT ![p][z] = x]
  BY <1>4 DEF g
<1>6. Private!Write(p, z, x)
  BY <1>3, <1>5 DEF Private!Write, View
<1>. QED  BY <1>0, <1>6 DEF Private!Next

-----------------------------------------------------------------------------
\* Every step is one of the promise, or nobody sees it.

\* A step that changes no list and no table is a stutter.
LEMMA HungSteps ==
    ASSUME Types, Types', UNCHANGED <<spaces, tables>>
    PROVE  UNCHANGED Private!vars
<1>1. pte' = pte /\ content' = content /\ live' = live
  BY DEF spaces, tables
<1>2. \A q \in Procs : \A v \in OwnPages : Sees(q, v)' = Sees(q, v)
  BY <1>1 DEF Sees
<1>. QED  BY <1>1, <1>2, StillSteps

\* The pages of a new mapping were not there.
LEMMA MapAtFresh ==
    ASSUME Inv, NEW p \in live, NEW base \in Nat, NEW size \in Nat, size # 0,
           ~has_overlap(p, base, size), NEW v \in base .. base + size - 1
    PROVE  v \notin Here(p)
<1>. SUFFICES ASSUME v \in Here(p) PROVE FALSE
  OBVIOUS
<1>1. p \in Procs /\ areas[p] \in Lists /\ Counted(areas[p], Here(p))
  BY Now DEF ProcOK
<1>2. PICK m \in DOMAIN areas[p] : Covers(areas[p][m], v)
  BY <1>1 DEF Counted
<1>3. areas[p][m] \in AreaRecs /\ v \in Nat
  BY <1>1, ListIs
<1>4. overlaps(areas[p][m], base, size)
  BY <1>2, <1>3, Fields DEF overlaps, Covers
<1>. QED  BY <1>4 DEF has_overlap

\* mmap_anon maps fresh pages, or only promises them.
LEMMA MapAtSteps ==
    ASSUME Inv, Inv', NEW p \in live, NEW base \in Nat, NEW size \in Nat, size # 0,
           NEW demand \in BOOLEAN, InOnePart(base, size), MapAt(p, base, size, demand)
    PROVE  [Private!Next]_(Private!vars)
<1>. DEFINE V == base .. base + size - 1
<1>1. p \in Procs /\ Types /\ Types' /\ TableInv /\ live' = live /\ ~has_overlap(p, base, size)
  BY Now DEF Inv, MapAt
<1>2. CASE demand
  <2>1. UNCHANGED tables
    BY <1>2 DEF MapAt
  <2>2. \A q \in Procs : \A v \in OwnPages : Sees(q, v)' = Sees(q, v)
    BY <2>1 DEF Sees, tables
  <2>. QED  BY <1>1, <2>2, StillSteps
<1>3. CASE ~demand
  <2>1. vmap(p, V)
    BY <1>3 DEF MapAt
  <2>2. \A v \in V : v \in OwnPages => v \notin Here(p)
    BY <1>1, MapAtFresh
  <2>3. V \in SUBSET Pages
    BY Parts, Layout DEF InOnePart
  <2>. HIDE DEF V
  <2>4. \A q \in Procs : \A v \in OwnPages :
            Sees(q, v)' = IF q = p /\ v \in V THEN 0 ELSE Sees(q, v)
    BY <1>1, <2>1, <2>2, <2>3, SeenAfterMap
  <2>. QED  BY <1>1, <2>2, <2>4, MapSteps
<1>. QED  BY <1>2, <1>3

\* munmap takes own pages away, or the machine is lost.
LEMMA MunmapSteps ==
    ASSUME Inv, Inv', machine = "runs", NEW p \in live, NEW i \in DOMAIN areas[p],
           munmap(p, areas[p][i])
    PROVE  [Private!Next]_(Private!vars)
<1>. DEFINE a == areas[p][i]
            V == a.base .. End(a) - 1
<1>1. p \in Procs /\ Types /\ Types' /\ TableInv /\ areas[p] \in Lists
  BY Now DEF Inv
<1>2. a \in AreaRecs /\ InPart(a)
  BY <1>1, Now, ListIs DEF ProcOK, AreasOK
<1>3. V \in SUBSET Pages
  BY <1>2, Fields, Parts, Layout DEF InPart
<1>4. Drop(p, V) /\ (machine' = "runs" => live' = live)
  BY DEF munmap
<1>7. \A u, v \in V : Home(u) = Home(v) => u = v
  <2>1. \/ \A v \in V : v < StackTop
        \/ \A v \in V : StackTop <= v /\ v < OwnBase
        \/ V \subseteq OwnPages
    BY <1>2, Fields, Parts, Layout DEF InPart
  <2>. QED  BY <1>3, <2>1, OnePart
<1>. HIDE DEF V
<1>5. CASE machine' \in {"hung", "wild"} /\ UNCHANGED <<spaces, tables>>
  BY <1>1, <1>5, HungSteps
<1>6. CASE ~(machine' \in {"hung", "wild"} /\ UNCHANGED <<spaces, tables>>)
  <2>1. machine' = "runs"
    BY <1>1, <1>3, <1>4, <1>6, <1>7, DropStep
  <2>2. \A q \in Procs : \A v \in OwnPages :
            Sees(q, v)' = IF q = p /\ v \in V THEN NoFrame ELSE Sees(q, v)
    BY <1>1, <1>3, <1>4, <1>6, <1>7, SeenAfterDrop
  <2>. QED  BY <1>1, <1>4, <2>1, <2>2, UnmapSteps
<1>. QED  BY <1>5, <1>6

\* A step below the own pages.
LEMMA LowerSteps ==
    ASSUME Inv, Inv', NEW p \in live, NEW V \in SUBSET Pages,
           \A v \in V : v \notin OwnPages /\ v < StackTop,
           (vmap(p, V) /\ live' = live) \/ (Drop(p, V) /\ (machine' = "runs" => live' = live)),
           machine = "runs"
    PROVE  UNCHANGED Private!vars
<1>1. p \in Procs /\ Types /\ Types' /\ TableInv
  BY Now DEF Inv
<1>2. CASE machine' \in {"hung", "wild"} /\ UNCHANGED <<spaces, tables>>
  BY <1>1, <1>2, HungSteps
<1>3. CASE ~(machine' \in {"hung", "wild"} /\ UNCHANGED <<spaces, tables>>)
  <2>1. \A q \in Procs : \A v \in OwnPages : Sees(q, v)' = Sees(q, v)
    BY <1>1, <1>3, SeenLower
  <2>2. live' = live
    <3>1. \A u, v \in V : Home(u) = Home(v) => u = v
      BY OnePart
    <3>. QED  BY <1>1, <1>3, <3>1, DropStep
  <2>. QED  BY <1>1, <2>1, <2>2, StillSteps
<1>. QED  BY <1>2, <1>3

\* The heap is not among the own pages.
LEMMA SbrkSteps ==
    ASSUME Inv, Inv', machine = "runs", NEW p \in live, NEW n \in Nat, n # 0,
           sbrk(p, n) \/ sbrk(p, -n)
    PROVE  UNCHANGED Private!vars
<1>. DEFINE old == heap_end[p]
<1>1. /\ p \in Procs /\ Types /\ TableInv /\ old \in Nat /\ heap_start[p] \in Nat
      /\ old <= StackTop
  BY Now
<1>2. CASE sbrk(p, n)
  <2>. DEFINE end == Grown(p, n)
              V == old .. end - 1
  <2>0. n > 0
    OBVIOUS
  <2>1. end <= StackTop /\ vmap(p, V) /\ (machine' = "runs" => live' = live)
    BY <1>2, <2>0 DEF sbrk
  <2>2. live' = live
    BY <2>1 DEF vmap
  <2>3. end \in Nat
    BY GrownIs
  <2>. HIDE DEF end
  <2>4. V \in SUBSET Pages /\ \A v \in V : v \notin OwnPages /\ v < StackTop
    BY <1>1, <2>1, <2>3, Parts, Layout
  <2>. HIDE DEF V
  <2>. QED  BY <2>1, <2>2, <2>4, LowerSteps
<1>3. CASE sbrk(p, -n)
  <2>. DEFINE end == old + (-n)
              V == end .. old - 1
  <2>0. ~(-n > 0)
    OBVIOUS
  <2>1. heap_start[p] <= end /\ Drop(p, V) /\ (machine' = "runs" => live' = live)
    BY <1>3, <2>0 DEF sbrk
  <2>2. V \in SUBSET Pages /\ \A v \in V : v \notin OwnPages /\ v < StackTop
    BY <1>1, <2>1, Parts, Layout
  <2>. HIDE DEF V
  <2>. QED  BY <2>1, <2>2, LowerSteps
<1>. QED  BY <1>2, <1>3

\* The pages of the old allocation calls are not own ones.
LEMMA LegacySteps ==
    ASSUME Inv, Inv', machine = "runs", NEW p \in live, NEW n \in Nat, NEW hint \in Nat,
           legacy_mem_alloc(p, n, hint) \/ legacy_mem_free(p, hint, n)
    PROVE  UNCHANGED Private!vars
<1>1. CASE legacy_mem_alloc(p, n, hint)
  <2>. DEFINE base == LegacyBase(p, n, hint)
              V == {v \in base .. base + n - 1 : v < LegacyTop}
  <2>1. base \in Nat
    BY LegacyBaseIs
  <2>2. vmap(p, V) /\ live' = live
    BY <1>1 DEF legacy_mem_alloc, spaces
  <2>. HIDE DEF base
  <2>3. V \in SUBSET Pages /\ \A v \in V : v \notin OwnPages /\ v < StackTop
    BY <2>1, Parts, Layout
  <2>. QED  BY <2>2, <2>3, LowerSteps
<1>2. CASE legacy_mem_free(p, hint, n)
  <2>. DEFINE V == hint .. hint + n - 1
  <2>1. Drop(p, V) /\ live' = live /\ hint + n <= LegacyTop
    BY <1>2 DEF legacy_mem_free, spaces
  <2>2. V \in SUBSET Pages /\ \A v \in V : v \notin OwnPages /\ v < StackTop
    BY <2>1, Parts, Layout
  <2>. QED  BY <2>1, <2>2, LowerSteps
<1>. QED  BY <1>1, <1>2

\* The calls that map and unmap.
LEMMA SyscallSteps ==
    ASSUME Inv, Inv', machine = "runs", NEW p \in live, Syscall(p)
    PROVE  [Private!Next]_(Private!vars)
<1>0. \A n \in 1 .. MaxSize : n \in Nat /\ n # 0
  BY Layout
<1>1. ASSUME NEW size \in 1 .. MaxSize, NEW demand \in BOOLEAN, mmap_anon(p, size, demand)
      PROVE  [Private!Next]_(Private!vars)
  <2>1. ASSUME NEW base \in Hints, InOnePart(base, size), MapAt(p, base, size, demand)
        PROVE  [Private!Next]_(Private!vars)
    <3>1. base \in Nat
      BY Layout
    <3>. QED  BY <1>0, <2>1, <3>1, MapAtSteps
  <2>2. ASSUME NEW start \in SearchStarts, NEW base, base = find_free_range(p, size, start),
               MapAt(p, base, size, demand)
        PROVE  [Private!Next]_(Private!vars)
    <3>1. start \in Nat
      BY Layout DEF SearchStarts
    <3>2. base # 0
      BY <2>2 DEF MapAt
    <3>3. base \in Nat /\ InOnePart(base, size)
      BY <1>0, <2>2, <3>1, <3>2, FreeRangeIs
    <3>. QED  BY <1>0, <2>2, <3>3, MapAtSteps
  <2>. QED  BY <1>1, <2>1, <2>2 DEF mmap_anon
<1>2. ASSUME NEW i \in DOMAIN areas[p], munmap(p, areas[p][i])
      PROVE  [Private!Next]_(Private!vars)
  BY <1>2, MunmapSteps
<1>3. ASSUME NEW n \in 1 .. MaxSize, sbrk(p, n) \/ sbrk(p, -n) PROVE UNCHANGED Private!vars
  BY <1>0, <1>3, SbrkSteps
<1>4. ASSUME NEW n \in 1 .. MaxSize, NEW hint \in Nat,
             legacy_mem_alloc(p, n, hint) \/ legacy_mem_free(p, hint, n)
      PROVE  UNCHANGED Private!vars
  BY <1>0, <1>4, LegacySteps
<1>5. \A hint \in Hints \cap KernelPages : hint \in Nat
  BY Layout
<1>6. Overmap => UNCHANGED Private!vars
  BY HungSteps DEF Overmap, Lost, Inv
<1>. QED  BY <1>1, <1>2, <1>3, <1>4, <1>5, <1>6 DEF Syscall

\* A page that a demand fault brings was not there.
LEMMA DemandFaultSteps ==
    ASSUME Inv, Inv', NEW p \in live, NEW v \in Pages, DemandFault(p, v)
    PROVE  Private!Next
<1>1. /\ p \in Procs /\ Types /\ Types' /\ TableInv
  BY Now DEF Inv
<1>2. Pte(p, v) = Absent /\ vmap(p, {v}) /\ live' = live
  BY DEF DemandFault
<1>3. \A u \in {v} : u \in OwnPages => u \notin Here(p)
  <2>1. v \in OwnPages => Pte(p, v) = pte[<<p, v>>]
    BY <1>1, OwnPte
  <2>2. v \in OwnPages => v \notin Here(p)
    BY <1>2, <2>1, LeafFields DEF Here
  <2>. QED  BY <2>2
<1>4. \A q \in Procs : \A u \in OwnPages :
          Sees(q, u)' = IF q = p /\ u \in {v} THEN 0 ELSE Sees(q, u)
  BY <1>1, <1>2, <1>3, SeenAfterMap
<1>. QED  BY <1>1, <1>2, <1>3, <1>4, MapSteps

\* A copy holds what the shared frame held, so that nobody sees it made.
LEMMA CowFaultSteps ==
    ASSUME Inv, Inv', NEW p \in live, NEW v \in Pages, CowFault(p, v)
    PROVE  UNCHANGED Private!vars
<1>. DEFINE z == Place(p, v)
            old == pte[z].frame
<1>1. /\ Types /\ Types' /\ TableInv /\ p \in Procs /\ z \in Places
      /\ TableTypes(pte, Eff, content) /\ TablesOK(pte, Eff, content, used, live)
      /\ live' = live
  BY Now, PlaceIs, TypesOfTables DEF Inv, TableInv, CowFault, spaces
<1>2. \/ /\ pte' = [pte EXCEPT ![z].w = TRUE, ![z].cow = FALSE]
         /\ content' = content
      \/ \E new \in FreeFrames :
             /\ pte' = [pte EXCEPT ![z] = [frame |-> new, w |-> TRUE, cow |-> FALSE]]
             /\ content' = [content EXCEPT ![new] = content[old]]
  BY DEF CowFault, counters
<1>3. pte[z].cow
  BY DEF CowFault
<1>. HIDE DEF z
<1>4. pte[z].frame # NoFrame
  BY <1>1, <1>3 DEF TablesOK, LeafOK
<1>5. \A q \in Procs : \A u \in OwnPages : <<q, u>> \in Places
  BY OwnCloned, PlacesArePairs
<1>6. CASE /\ pte' = [pte EXCEPT ![z].w = TRUE, ![z].cow = FALSE]
           /\ content' = content
  <2>1. \A x \in Places : pte'[x].frame = pte[x].frame
    BY <1>1, <1>6 DEF TableTypes, Leaves
  <2>2. \A q \in Procs : \A u \in OwnPages : Sees(q, u)' = Sees(q, u)
    <3>1. \A q \in Procs : \A u \in OwnPages : pte'[<<q, u>>].frame = pte[<<q, u>>].frame
      BY <1>5, <2>1
    <3>2. content' = content
      BY <1>6
    <3>. QED  BY <3>1, <3>2 DEF Sees
  <2>. QED  BY <1>1, <2>2, StillSteps
<1>7. CASE \E new \in FreeFrames :
               /\ pte' = [pte EXCEPT ![z] = [frame |-> new, w |-> TRUE, cow |-> FALSE]]
               /\ content' = [content EXCEPT ![new] = content[old]]
  <2>1. PICK new \in FreeFrames :
            /\ pte' = [pte EXCEPT ![z] = [frame |-> new, w |-> TRUE, cow |-> FALSE]]
            /\ content' = [content EXCEPT ![new] = content[old]]
    BY <1>7
  <2>2. new \in Frames /\ new \notin used /\ new # NoFrame
    BY Layout DEF FreeFrames
  <2>3. \A x \in Places : pte[x].frame # new
    BY <1>1, <2>2, FreeUnused
  <2>4. pte'[z].frame = new /\ \A x \in Places : x # z => pte'[x] = pte[x]
    BY <1>1, <2>1 DEF TableTypes
  <2>5. content'[new] = content[old] /\ \A f : f # new => content'[f] = content[f]
    BY <1>1, <2>1, <2>2 DEF TableTypes
  <2>6. ASSUME NEW q \in Procs, NEW u \in OwnPages PROVE Sees(q, u)' = Sees(q, u)
    <3>1. CASE <<q, u>> = z
      BY <1>4, <2>2, <2>4, <2>5, <3>1 DEF Sees
    <3>2. CASE <<q, u>> # z
      <4>1. pte'[<<q, u>>] = pte[<<q, u>>] /\ pte[<<q, u>>].frame # new
        BY <1>5, <2>3, <2>4, <3>2
      <4>. QED  BY <2>5, <4>1 DEF Sees
    <3>. QED  BY <3>1, <3>2
  <2>. QED  BY <1>1, <2>6, StillSteps
<1>. QED  BY <1>2, <1>6, <1>7

\* A frame that a leaf can write to has no other leaf, so that nobody else
\* sees the write.
LEMMA StoreSteps ==
    ASSUME Inv, Inv', NEW p \in live, NEW v \in OwnPages, NEW x \in Values, Store(p, v, x)
    PROVE  Private!Next
<1>. DEFINE z == <<p, v>>
            f == pte[z].frame
<1>1. /\ Types /\ Types' /\ TableInv /\ p \in Procs /\ v \in Pages
      /\ TableTypes(pte, Eff, content) /\ TablesOK(pte, Eff, content, used, live) /\ Sharing(pte)
      /\ pte[z].frame # NoFrame => pte[z].frame \in Frames
  <2>1. /\ Types /\ Types' /\ TableInv /\ p \in Procs /\ v \in Pages
        /\ TableTypes(pte, Eff, content) /\ TablesOK(pte, Eff, content, used, live)
    BY Now, TypesOfTables, OwnCloned DEF Inv, TableInv
  <2>2. z \in Places
    BY <2>1, PlacesArePairs
  <2>3. pte[z].frame # NoFrame => pte[z].frame \in Frames
    BY <2>1, <2>2, UsersHold DEF TablesOK
  <2>. QED  BY <2>1, <2>3 DEF TablesOK
<1>2. z \in Places /\ Pte(p, v) = pte[z]
  BY <1>1, OwnPte
<1>3. /\ pte[z].w /\ content' = [content EXCEPT ![f] = x] /\ pte' = pte /\ live' = live
  BY <1>2 DEF Store, spaces
<1>4. f # NoFrame
  <2>1. z[2] = v /\ LeafOK(pte, live, z)
    BY <1>1, <1>2 DEF TablesOK
  <2>. QED  BY <1>3, <2>1 DEF LeafOK
<1>5. content'[f] = x /\ \A g : g # f => content'[g] = content[g]
  BY <1>1, <1>3, <1>4 DEF TableTypes
<1>6. ASSUME NEW q \in Procs, NEW u \in OwnPages
      PROVE  Sees(q, u)' = IF q = p /\ u = v THEN x ELSE Sees(q, u)
  <2>1. CASE q = p /\ u = v
    BY <1>3, <1>4, <1>5, <2>1 DEF Sees
  <2>2. CASE ~(q = p /\ u = v)
    <3>1. <<q, u>> \in Places /\ <<q, u>> # z
      BY <2>2, OwnCloned, PlacesArePairs
    <3>2. pte[<<q, u>>].frame # f
      BY <1>1, <1>2, <1>3, <1>4, <3>1 DEF Sharing
    <3>. QED  BY <1>3, <1>5, <2>2, <3>2 DEF Sees
  <2>. QED  BY <2>1, <2>2
<1>7. Sees(p, v) # NoFrame
  <2>1. content[f] \in Values
    BY <1>1, <1>4 DEF TableTypes
  <2>. QED  BY <1>4, <2>1, Layout DEF Sees
<1>. QED  BY <1>1, <1>3, <1>6, <1>7, WriteSteps

\* fork, from what it does to the leaves.
LEMMA ForkPrivate ==
    ASSUME Inv, Inv', machine = "runs", NEW p \in live, NEW c \in Procs, Fork(p, c)
    PROVE  Private!Next
<1>1. /\ p # c /\ c \notin live
      /\ \A q \in Procs : \A v \in OwnPages :
             pte'[<<q, v>>].frame = IF q = c THEN pte[<<p, v>>].frame ELSE pte[<<q, v>>].frame
  BY ForkKeeps
<1>2. /\ Types /\ Types' /\ p \in Procs /\ content' = content /\ live' = live \cup {c}
  BY Now DEF Inv, Fork
<1>3. ASSUME NEW q \in Procs, NEW v \in OwnPages
      PROVE  Sees(q, v)' = IF q = c THEN Sees(p, v) ELSE Sees(q, v)
  BY <1>1, <1>2 DEF Sees
<1>. QED  BY <1>1, <1>2, <1>3, ForkSteps

\* The program of a new process is not among its own pages.
LEMMA StartPrivate ==
    ASSUME Inv, Inv', machine = "runs", NEW p \in Procs, Start(p)
    PROVE  Private!Next
<1>1. /\ Types /\ Types' /\ TableInv
      /\ p \notin live /\ live' = live \cup {p} /\ vmap(p, Code)
  BY Now, StartKeeps DEF Inv, Start
<1>2. Code \in SUBSET Pages /\ \A v \in Code : v \notin OwnPages
  BY Parts, Layout
<1>3. \A q \in Procs : \A v \in OwnPages :
          Sees(q, v)' = IF q = p /\ v \in Code THEN 0 ELSE Sees(q, v)
  BY <1>1, <1>2, SeenAfterMap
<1>4. \A q \in Procs : \A v \in OwnPages : Sees(q, v)' = Sees(q, v)
  BY <1>2, <1>3
<1>5. View' = View
  BY <1>1, <1>4, SeenSame
<1>6. Private!Start(p)
  BY <1>1, <1>5 DEF Private!Start, View
<1>. QED  BY <1>6 DEF Private!Next

\* The step of the refinement.
LEMMA StepPrivate ==
    ASSUME Inv, Inv', [Next]_vars
    PROVE  [Private!Next]_(Private!vars)
<1>0. Types /\ Types'
  BY DEF Inv
<1>1. CASE UNCHANGED vars
  BY <1>0, <1>1, HungSteps DEF vars
<1>2. CASE Next
  <2>0. machine = "runs"
    BY <1>2 DEF Next
  <2>1. ASSUME NEW p \in live, Syscall(p) PROVE [Private!Next]_(Private!vars)
    BY <2>0, <2>1, SyscallSteps
  <2>2. ASSUME NEW p \in Procs, Start(p) PROVE Private!Next
    BY <2>0, <2>2, StartPrivate
  <2>3. ASSUME NEW p \in live, NEW c \in Procs, Fork(p, c) PROVE Private!Next
    BY <2>0, <2>3, ForkPrivate
  <2>4. ASSUME NEW p \in live, Exit(p) PROVE UNCHANGED Private!vars
    BY <1>0, <2>4, HungSteps DEF Exit, Lost
  <2>5. ASSUME NEW p \in live, NEW v \in Pages, DemandFault(p, v) \/ CowFault(p, v)
        PROVE  [Private!Next]_(Private!vars)
    BY <2>5, DemandFaultSteps, CowFaultSteps
  <2>6. ASSUME NEW p \in live, NEW v \in OwnPages, NEW x \in Values, Store(p, v, x)
        PROVE  Private!Next
    BY <2>6, StoreSteps
  <2>7. ASSUME OutOfMemory PROVE UNCHANGED Private!vars
    BY <1>0, <2>7, HungSteps DEF OutOfMemory, Lost
  <2>8. ASSUME NEW p \in live, NEW v \in Pages, BlockFault(p, v) PROVE UNCHANGED Private!vars
    BY <1>0, <2>8, HungSteps DEF BlockFault, Lost
  <2>. QED  BY <1>2, <2>1, <2>2, <2>3, <2>4, <2>5, <2>6, <2>7, <2>8 DEF Next
<1>. QED  BY <1>1, <1>2

\* Fork and copy-on-write give each process a memory of its own: a child starts
\* with what its parent sees, and what one writes no other reads (clone_user_p4
\* and handle_cow_fault of vmm.rs, frame_cow_copy of frame.rs).
THEOREM MemoryIsPrivate == Spec => ImplementsPrivateMemory
<1>1. Init => Private!Init
  <2>. SUFFICES ASSUME Init PROVE Private!Init
    OBVIOUS
  <2>1. \A p \in Procs : \A v \in OwnPages : ~Present(p, v)
    <3>. SUFFICES ASSUME NEW p \in Procs, NEW v \in OwnPages PROVE ~Present(p, v)
      OBVIOUS
    <3>1. Types /\ v \in Pages
      BY InitOK, OwnCloned DEF Inv
    <3>2. Pte(p, v) = pte[<<p, v>>] /\ <<p, v>> \in Places
      BY <3>1, OwnPte
    <3>3. pte[<<p, v>>] = Absent
      BY <3>2, Layout DEF Init, Places
    <3>. QED  BY <3>2, <3>3, LeafFields DEF Present
  <2>. QED  BY <2>1 DEF Init, Private!Init, Private!Nothing
<1>2. Inv /\ Inv' /\ [Next]_vars => [Private!Next]_(Private!vars)
  BY StepPrivate
<1>. QED  BY InvHolds, <1>1, <1>2, PTL DEF Spec, ImplementsPrivateMemory, Private!Spec
====
